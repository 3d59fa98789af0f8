----------------------------- MODULE ConnectUDP -----------------------------
(***************************************************************************)
(* CONNECT-UDP admission: serveConnectUDP runs once per request, in a      *)
(* goroutine of its own.  A request takes a slot under connectUDPMu of its *)
(* Handler, reports it to the metrics outside the lock, sets up its target *)
(* socket, runs the association, closes the socket and gives the slot      *)
(* back.  The association itself is UDPAssociation.                        *)
(*                                                                         *)
(* The counters and the limits belong to a Handler, the metrics to the     *)
(* process.  A process has a Handler for every site, and after a reload    *)
(* the old ones too until their last request ends.                         *)
(*                                                                         *)
(* Left out: the association number (logs only) and the counters that are  *)
(* only ever added to (totals, rejections, closures, durations).           *)
(***************************************************************************)
EXTENDS Integers, FiniteSets

CONSTANTS
  Handler,    \* the Handlers of the process
  Req,        \* the requests
  HandlerOf,  \* the Handler each request was routed to
  Client,     \* the values of clientAddressKey
  ClientOf,   \* the client of each request
  MaxActive,  \* connectUDPMaxActive, or connectUDPMaxAssociations
  MaxClient   \* connectUDPMaxClientActive, or connectUDPMaxPerClient

ASSUME ReqAssumption ==
  IsFiniteSet(Req) /\ HandlerOf \in [Req -> Handler] /\ ClientOf \in [Req -> Client]
ASSUME LimitAssumption == MaxActive \in Nat \ {0} /\ MaxClient \in Nat \ {0}

VARIABLES
  upstream,   \* per Handler: whether it has an upstream proxy; fixed
  pc,         \* per request: where serveConnectUDP is
  reply,      \* per request: the status written or returned, 0 before
  active,     \* per Handler: h.connectUDPActive
  byClient,   \* per Handler: h.connectUDPByClient, a map
  sockets,    \* requests whose target socket is open
  gauge,      \* the metric connect_udp_active_associations
  peakValue,  \* connectUDPMetrics.activePeakValue
  peakGauge,  \* the metric connect_udp_active_associations_peak
  seen,       \* per request: the value of active it reports, while it reports it
  peak        \* per request: the peak it loaded, between Load and CompareAndSwap

slotVars   == <<active, byClient>>
metricVars == <<gauge, peakValue, peakGauge, seen, peak>>
vars == <<upstream, pc, reply, slotVars, sockets, metricVars>>

Reporting == {"record", "load", "cas", "set"}
Serving   == {"resolve", "capable", "settings", "dial", "start", "run", "close", "count"}
\* Program counters of a request that holds a slot.
Holding   == Reporting \cup Serving \cup {"release"}

Init ==
  /\ upstream \in [Handler -> {"none", "configured"}]
  /\ pc = [r \in Req |-> "new"]
  /\ reply = [r \in Req |-> 0]
  /\ active = [h \in Handler |-> 0]
  /\ byClient = [h \in Handler |-> [c \in {} |-> 0]]
  /\ sockets = {}
  /\ gauge = 0 /\ peakValue = 0 /\ peakGauge = 0
  /\ seen = [r \in Req |-> 0]
  /\ peak = [r \in Req |-> 0]

Goto(r, l) == pc' = [pc EXCEPT ![r] = l]

\* A return of serveConnectUDP: what its deferred calls leave to do starts at l.
Reply(r, status, l) == Goto(r, l) /\ reply' = [reply EXCEPT ![r] = status]

-----------------------------------------------------------------------------
(* Admission. *)

\* A Go map reads 0 for a missing key.
CountOf(h, c) == IF c \in DOMAIN byClient[h] THEN byClient[h][c] ELSE 0

\* parseConnectUDPTarget fails, or the Handler has an upstream.
Refuse(r) ==
  /\ pc[r] = "new"
  /\ \/ Reply(r, 400, "done")
     \/ upstream[HandlerOf[r]] # "none" /\ Reply(r, 501, "done")
  /\ UNCHANGED <<upstream, slotVars, sockets, metricVars>>

\* Mutant of AtLimit: the per-client limit is off by one.
AtLimitLoose(r) ==
  active[HandlerOf[r]] >= MaxActive \/ CountOf(HandlerOf[r], ClientOf[r]) > MaxClient

AtLimit(r) ==
  active[HandlerOf[r]] >= MaxActive \/ CountOf(HandlerOf[r], ClientOf[r]) >= MaxClient

Reject(r) ==
  /\ pc[r] = "new" /\ upstream[HandlerOf[r]] = "none" /\ AtLimit(r)
  /\ Reply(r, 503, "done")
  /\ UNCHANGED <<upstream, slotVars, sockets, metricVars>>

\* connectUDPByClient[c]++.
Take(h, c) ==
  [d \in DOMAIN byClient[h] \cup {c} |-> IF d = c THEN CountOf(h, c) + 1 ELSE byClient[h][d]]

Admit(r) ==
  /\ pc[r] = "new" /\ upstream[HandlerOf[r]] = "none" /\ ~AtLimit(r)
  /\ active' = [active EXCEPT ![HandlerOf[r]] = @ + 1]
  /\ byClient' = [byClient EXCEPT ![HandlerOf[r]] = Take(HandlerOf[r], ClientOf[r])]
  /\ seen' = [seen EXCEPT ![r] = active[HandlerOf[r]] + 1]
  /\ Goto(r, "record")
  /\ UNCHANGED <<upstream, reply, sockets, gauge, peakValue, peakGauge, peak>>

-----------------------------------------------------------------------------
(* recordConnectUDPAdmissionAccepted, outside the lock. *)

RecordActive(r) ==
  /\ pc[r] = "record"
  /\ gauge' = gauge + 1
  /\ Goto(r, "load")
  /\ UNCHANGED <<upstream, reply, slotVars, sockets, peakValue, peakGauge, seen, peak>>

LoadPeak(r) ==
  /\ pc[r] = "load"
  /\ IF seen[r] <= peakValue
     THEN /\ Goto(r, "resolve")
          /\ seen' = [seen EXCEPT ![r] = 0]
          /\ peak' = peak
     ELSE /\ Goto(r, "cas")
          /\ peak' = [peak EXCEPT ![r] = peakValue]
          /\ seen' = seen
  /\ UNCHANGED <<upstream, reply, slotVars, sockets, gauge, peakValue, peakGauge>>

\* Mutant of SwapPeak: a plain store in place of CompareAndSwap.
StorePeak(r) == peakValue' = seen[r] /\ Goto(r, "set")

SwapPeak(r) ==
  IF peakValue = peak[r]
  THEN peakValue' = seen[r] /\ Goto(r, "set")
  ELSE peakValue' = peakValue /\ Goto(r, "load")

CasPeak(r) ==
  /\ pc[r] = "cas"
  /\ SwapPeak(r)
  /\ peak' = [peak EXCEPT ![r] = 0]
  /\ UNCHANGED <<upstream, reply, slotVars, sockets, gauge, peakGauge, seen>>

SetPeak(r) ==
  /\ pc[r] = "set"
  /\ peakGauge' = seen[r]
  /\ seen' = [seen EXCEPT ![r] = 0]
  /\ Goto(r, "resolve")
  /\ UNCHANGED <<upstream, reply, slotVars, sockets, gauge, peakValue, peak>>

-----------------------------------------------------------------------------
(* Setting up and running the association. *)

\* One step of the setup: go on at l, or return a status of failures.
Setup(r, from, l, failures) ==
  /\ pc[r] = from
  /\ \/ Goto(r, l) /\ UNCHANGED reply
     \/ \E status \in failures : Reply(r, status, "count")
  /\ UNCHANGED <<upstream, slotVars, sockets, metricVars>>

\* resolveTargetCheckACL: denied, or the lookup failed.
Resolve(r) == Setup(r, "resolve", "capable", {403, 502})

\* http3CapabilitiesFromResponseWriter.
FindCapabilities(r) == Setup(r, "capable", "settings", {501})

\* The peer's SETTINGS arrived, with or without datagrams, or the request's
\* context is over; 499 stands for the context's error.
AwaitSettings(r) == Setup(r, "settings", "dial", {501, 499})

\* dialConnectUDPTarget: the first address that connects, or none does.
Dial(r) ==
  /\ pc[r] = "dial"
  /\ \/ sockets' = sockets \cup {r} /\ Goto(r, "start") /\ UNCHANGED reply
     \/ sockets' = sockets /\ Reply(r, 502, "count")
  /\ UNCHANGED <<upstream, slotVars, metricVars>>

\* 200 is written; without a stream the handler returns.
StartAssociation(r) ==
  /\ pc[r] = "start"
  /\ \E l \in {"run", "close"} : Reply(r, 200, l)
  /\ UNCHANGED <<upstream, slotVars, sockets, metricVars>>

\* run returns, for whatever reason, with the socket closed.
RunEnds(r) ==
  /\ pc[r] = "run"
  /\ sockets' = sockets \ {r}
  /\ Goto(r, "close")
  /\ UNCHANGED <<upstream, reply, slotVars, metricVars>>

-----------------------------------------------------------------------------
(* The deferred calls: udp.Close first, then release. *)

\* Mutant of CloseSocket: run alone is trusted to close the socket.
ForgetSocket(r) == UNCHANGED sockets

CloseSocket(r) == sockets' = sockets \ {r}

DeferredClose(r) ==
  /\ pc[r] = "close"
  /\ CloseSocket(r)
  /\ Goto(r, "count")
  /\ UNCHANGED <<upstream, reply, slotVars, metricVars>>

\* Mutant of RecordReleased: the gauge is left alone.
RecordNothing(r) == UNCHANGED gauge

RecordReleased(r) == gauge' = gauge - 1

CountRelease(r) ==
  /\ pc[r] = "count"
  /\ RecordReleased(r)
  /\ Goto(r, "release")
  /\ UNCHANGED <<upstream, reply, slotVars, sockets, peakValue, peakGauge, seen, peak>>

\* connectUDPByClient[c]--, and the entry is deleted when it reaches zero.
Drop(h, c) ==
  IF byClient[h][c] = 1
  THEN [d \in DOMAIN byClient[h] \ {c} |-> byClient[h][d]]
  ELSE [byClient[h] EXCEPT ![c] = @ - 1]

Release(r) ==
  /\ pc[r] = "release"
  /\ active' = [active EXCEPT ![HandlerOf[r]] = @ - 1]
  /\ byClient' = [byClient EXCEPT ![HandlerOf[r]] = Drop(HandlerOf[r], ClientOf[r])]
  /\ Goto(r, "done")
  /\ UNCHANGED <<upstream, reply, sockets, metricVars>>

\* Every request has been served.
Finished == (\A r \in Req : pc[r] = "done") /\ UNCHANGED vars

Step(r) ==
  \/ Refuse(r) \/ Reject(r) \/ Admit(r)
  \/ RecordActive(r) \/ LoadPeak(r) \/ CasPeak(r) \/ SetPeak(r)
  \/ Resolve(r) \/ FindCapabilities(r) \/ AwaitSettings(r) \/ Dial(r)
  \/ StartAssociation(r) \/ RunEnds(r)
  \/ DeferredClose(r) \/ CountRelease(r) \/ Release(r)

Next == (\E r \in Req : Step(r)) \/ Finished

Spec == Init /\ [][Next]_vars

-----------------------------------------------------------------------------
(* Properties. *)

TypeOK ==
  /\ upstream \in [Handler -> {"none", "configured"}]
  /\ pc \in [Req -> {"new", "done"} \cup Holding]
  /\ reply \in [Req -> {0, 200, 400, 403, 499, 501, 502, 503}]
  /\ active \in [Handler -> Nat]
  /\ DOMAIN byClient = Handler
  /\ \A h \in Handler :
       /\ DOMAIN byClient[h] \subseteq Client
       /\ \A c \in DOMAIN byClient[h] : byClient[h][c] \in Nat \ {0}
  /\ sockets \subseteq Req
  /\ gauge \in Nat /\ peakValue \in Nat /\ peakGauge \in Nat
  /\ seen \in [Req -> Nat]
  /\ peak \in [Req -> Nat]

Of(h) == {r \in Req : HandlerOf[r] = h}
Holders == {r \in Req : pc[r] \in Holding}
HoldersOf(h, c) == {r \in Holders \cap Of(h) : ClientOf[r] = c}

(* The two limits hold at every moment in every Handler, and the counters    *)
(* they are enforced with count exactly its requests between a successful    *)
(* acquireConnectUDP and the end of their release; the map keeps no entry    *)
(* for a client that holds nothing.                                          *)
SlotsExact ==
  \A h \in Handler :
    /\ active[h] = Cardinality(Holders \cap Of(h)) /\ active[h] <= MaxActive
    /\ DOMAIN byClient[h] = {ClientOf[r] : r \in Holders \cap Of(h)}
    /\ \A c \in DOMAIN byClient[h] :
         byClient[h][c] = Cardinality(HoldersOf(h, c)) /\ byClient[h][c] <= MaxClient

(* An open target socket belongs to a request that still holds its slot and  *)
(* has not begun to release it, so the limits on slots bound the sockets.    *)
SocketsCovered == \A r \in sockets : pc[r] \in {"start", "run", "close"}

Counted == {r \in Req : pc[r] \in (Reporting \ {"record"}) \cup Serving}

(* The gauge of active associations counts the requests of all Handlers that *)
(* were recorded and not yet released, though it is moved outside the locks  *)
(* of all of them.  Of no Handler does it count more than the slots that are *)
(* taken, and it counts exactly those when no request is between taking or   *)
(* giving back its slot and the record of that.                              *)
GaugeExact ==
  /\ gauge = Cardinality(Counted)
  /\ \A h \in Handler :
       /\ Cardinality(Counted \cap Of(h)) <= active[h]
       /\ (\A r \in Of(h) : pc[r] \notin {"record", "release"}) =>
            Cardinality(Counted \cap Of(h)) = active[h]

Recorded == {r \in Req : pc[r] \in {"set"} \cup Serving \cup {"release"}}

(* activePeakValue is a high-water mark despite the race between admissions  *)
(* and their reports, of several Handlers: it is at least the number of      *)
(* requests that hold a slot of any one Handler and have reported, and never *)
(* above the limit of one.  It is the mark of the busiest Handler: the value *)
(* reported is the count of one Handler, so the help text's "Highest number  *)
(* of concurrent CONNECT-UDP associations" is not its sum over Handlers.     *)
PeakCovers ==
  /\ \A h \in Handler : peakValue >= Cardinality(Recorded \cap Of(h))
  /\ peakValue <= MaxActive

(* "Highest number of concurrent CONNECT-UDP associations since process      *)
(* start": when nobody is reporting, the exported gauge shows the peak.      *)
PeakGaugeShown ==
  (\A r \in Req : pc[r] \notin Reporting) => peakGauge = peakValue
=============================================================================
