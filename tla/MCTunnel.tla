----------------------------- MODULE MCTunnel -----------------------------
(* Bytes of three values, so that a buffer has nine bytes and a read of    *)
(* five is cut; two framed writes, then one that is not.  One side talks   *)
(* while the other says little, or nothing.                                *)
EXTENDS Tunnel

MCExchanges ==
  {[up |-> <<[data |-> <<1, 2>>, pad |-> 2], [data |-> <<1>>, pad |-> 1],
             [data |-> <<0, 2>>, pad |-> 0]>>, down |-> <<>>],
   [up |-> <<[data |-> <<1>>, pad |-> 1]>>, down |-> <<1>>],
   [up |-> <<>>, down |-> <<2, 0, 1, 2, 1>>]}
===========================================================================
