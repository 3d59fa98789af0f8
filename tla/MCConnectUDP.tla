--------------------------- MODULE MCConnectUDP ---------------------------
(* Two Handlers.  The first has two requests of one client, so that the     *)
(* limit of a client is met alone, and one each of two other clients, so    *)
(* that the limit of the Handler is; the second serves the same client.     *)
EXTENDS ConnectUDP, TLC

CONSTANTS h1, h2, r1, r2, r3, r4, r5, a, b, c

MCReq == {r1, r2, r3, r4, r5}
MCHandlerOf == [r \in MCReq |-> IF r = r5 THEN h2 ELSE h1]
MCClientOf == [r \in MCReq |-> CASE r = r3 -> b [] r = r4 -> c [] OTHER -> a]
MCSymmetry == Permutations({r1, r2})
\* reply and peakGauge are written and never read, by no step and by none of
\* the invariants checked with this view.
MCView == <<upstream, pc, slotVars, sockets, gauge, peakValue, seen, peak>>

MCFewReq == {r1, r2, r3}
MCFewHandlerOf == [r \in MCFewReq |-> h1]
MCFewClientOf == [r \in MCFewReq |-> IF r = r3 THEN b ELSE a]
===========================================================================
