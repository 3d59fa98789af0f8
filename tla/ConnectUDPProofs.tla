------------------------- MODULE ConnectUDPProofs -------------------------
(***************************************************************************)
(* Proofs about ConnectUDP, for any number of Handlers, requests and       *)
(* clients and any limits.  The inductive invariant ties every counter of  *)
(* a Handler to the set of its requests that it counts, and the metrics of *)
(* the process to those of all Handlers.                                   *)
(***************************************************************************)
EXTENDS ConnectUDP, FiniteSetTheorems, TLAPS

USE DEF slotVars, metricVars

-----------------------------------------------------------------------------
(* Counting. *)

(* Requests picked out of Req are finitely many, and their number moves by   *)
(* one with a request that joins or leaves them.                             *)
LEMMA Counting ==
  ASSUME NEW S \in SUBSET Req
  PROVE  /\ IsFiniteSet(S) /\ Cardinality(S) \in Nat
         /\ Cardinality(S) = 0 <=> S = {}
         /\ \A r \in S : Cardinality(S \ {r}) = Cardinality(S) - 1
         /\ \A r \in Req \ S : Cardinality(S \cup {r}) = Cardinality(S) + 1
         /\ \A T \in SUBSET S : Cardinality(T) <= Cardinality(S)
<1>1. IsFiniteSet(S)
  BY ReqAssumption, FS_Subset, SMTT(30)
<1>. QED
  BY <1>1, FS_CardinalityType, FS_EmptySet, FS_AddElement, FS_RemoveElement, FS_Subset, Zenon

(* One more request, one more in number. *)
LEMMA CountJoin ==
  ASSUME NEW S \in SUBSET Req, NEW r \in Req, r \notin S
  PROVE  Cardinality(S \cup {r}) = Cardinality(S) + 1 /\ Cardinality(S) \in Nat
BY Counting, Zenon

(* One request less, one less in number. *)
LEMMA CountLeave ==
  ASSUME NEW S \in SUBSET Req, NEW r \in S
  PROVE  Cardinality(S \ {r}) = Cardinality(S) - 1 /\ Cardinality(S \ {r}) \in Nat
<1>1. S \ {r} \in SUBSET Req
  BY Zenon
<1>2. Cardinality(S \ {r}) = Cardinality(S) - 1
  BY Counting, Zenon
<1>3. Cardinality(S \ {r}) \in Nat
  BY <1>1, Counting, Zenon
<1>. QED
  BY <1>2, <1>3, Zenon

-----------------------------------------------------------------------------
(* Where a request is: what a step of r changes in pc. *)

(* The types of everything but the counters. *)
ShapeOK ==
  /\ upstream \in [Handler -> {"none", "configured"}]
  /\ pc \in [Req -> {"new", "done"} \cup Holding]
  /\ reply \in [Req -> {0, 200, 400, 403, 499, 501, 502, 503}]
  /\ sockets \subseteq Req
  /\ peakValue \in Nat /\ peakGauge \in Nat
  /\ seen \in [Req -> Nat]
  /\ peak \in [Req -> Nat]

(* A step moves one request from one program counter to another.             *)
LEMMA Moves ==
  ASSUME ShapeOK, NEW r \in Req, Step(r)
  PROVE  \E l \in {"new", "done"} \cup Holding : pc' = [pc EXCEPT ![r] = l]
BY DEF Step, Refuse, Reject, Admit, RecordActive, LoadPeak, CasPeak, SwapPeak, SetPeak, Resolve,
       FindCapabilities, AwaitSettings, Setup, Dial, StartAssociation, RunEnds, DeferredClose,
       CountRelease, Release, Goto, Reply, Holding, Reporting, Serving

(* Every step preserves the shapes of the variables. *)
LEMMA NextShape == ShapeOK /\ active \in [Handler -> Nat] /\ [Next]_vars => ShapeOK'
<1> SUFFICES ASSUME ShapeOK, active \in [Handler -> Nat], [Next]_vars PROVE ShapeOK'
  OBVIOUS
<1>1. ASSUME NEW r \in Req, Step(r) PROVE ShapeOK'
  <2>1. pc' \in [Req -> {"new", "done"} \cup Holding]
    BY <1>1, Moves, SMTT(30) DEF ShapeOK
  <2>2. reply' \in [Req -> {0, 200, 400, 403, 499, 501, 502, 503}]
    BY <1>1, SMTT(30) DEF ShapeOK, Step, Refuse, Reject, Admit, RecordActive, LoadPeak, CasPeak, SetPeak,
       Resolve, FindCapabilities, AwaitSettings, Setup, Dial, StartAssociation, RunEnds,
       DeferredClose, CountRelease, Release, Reply
  <2>3. upstream' = upstream /\ sockets' \subseteq Req
    BY <1>1, SMTT(30) DEF ShapeOK, Step, Refuse, Reject, Admit, RecordActive, LoadPeak, CasPeak, SetPeak,
       Resolve, FindCapabilities, AwaitSettings, Setup, Dial, StartAssociation, RunEnds,
       DeferredClose, CloseSocket, CountRelease, Release
  <2>0. active[HandlerOf[r]] + 1 \in Nat
    BY ReqAssumption
  <2>4. /\ peakValue' \in Nat /\ peakGauge' \in Nat
        /\ seen' \in [Req -> Nat] /\ peak' \in [Req -> Nat]
    BY <1>1, <2>0 DEF ShapeOK, Step, Refuse, Reject, Admit, RecordActive, LoadPeak, CasPeak, SwapPeak,
       SetPeak, Resolve, FindCapabilities, AwaitSettings, Setup, Dial, StartAssociation, RunEnds,
       DeferredClose, CountRelease, Release
  <2>. QED
    BY <2>1, <2>2, <2>3, <2>4 DEF ShapeOK
<1>2. CASE UNCHANGED vars
  BY <1>2 DEF vars, ShapeOK
<1>. QED
  BY <1>1, <1>2 DEF Next, Finished

-----------------------------------------------------------------------------
(* Slots. *)

(* A step takes a slot, gives one back, or leaves slots and holders alone. *)
LEMMA SlotSteps ==
  ASSUME ShapeOK, [Next]_vars
  PROVE  \/ \E r \in Req \ Holders : Admit(r) /\ Holders' = Holders \cup {r}
         \/ \E r \in Holders : Release(r) /\ Holders' = Holders \ {r}
         \/ Holders' = Holders /\ UNCHANGED slotVars
<1>1. ASSUME NEW r \in Req, Admit(r) PROVE r \notin Holders /\ Holders' = Holders \cup {r}
  BY <1>1 DEF Admit, Goto, Holders, Holding, Reporting, Serving, ShapeOK
<1>2. ASSUME NEW r \in Req, Release(r) PROVE r \in Holders /\ Holders' = Holders \ {r}
  BY <1>2 DEF Release, Goto, Holders, Holding, Reporting, Serving, ShapeOK
<1>3. ASSUME NEW r \in Req, Step(r), ~Admit(r), ~Release(r)
      PROVE  Holders' = Holders /\ UNCHANGED slotVars
  <2>1. PICK l : /\ pc' = [pc EXCEPT ![r] = l]
                 /\ pc[r] \in Holding <=> l \in Holding
    <3>. DEFINE Move(l) == pc' = [pc EXCEPT ![r] = l] /\ (pc[r] \in Holding <=> l \in Holding)
    <3>1. ASSUME Refuse(r) \/ Reject(r) PROVE \E l : Move(l)
      BY <3>1, SMTT(30) DEF Refuse, Reject, Goto, Reply, Holding, Reporting, Serving
    <3>2. ASSUME RecordActive(r) \/ LoadPeak(r) \/ CasPeak(r) \/ SetPeak(r) PROVE \E l : Move(l)
      BY <3>2, SMTT(30) DEF RecordActive, LoadPeak, CasPeak, SwapPeak, SetPeak, Goto, Holding,
         Reporting, Serving
    <3>3. ASSUME Resolve(r) \/ FindCapabilities(r) \/ AwaitSettings(r) \/ Dial(r)
          PROVE  \E l : Move(l)
      BY <3>3, SMTT(30) DEF Resolve, FindCapabilities, AwaitSettings, Setup, Dial, Goto, Reply,
         Holding, Reporting, Serving
    <3>4. ASSUME StartAssociation(r) \/ RunEnds(r) \/ DeferredClose(r) \/ CountRelease(r)
          PROVE  \E l : Move(l)
      BY <3>4, SMTT(30) DEF StartAssociation, RunEnds, DeferredClose, CountRelease, Goto, Reply,
         Holding, Reporting, Serving
    <3>. HIDE DEF Move
    <3>5. \E l : Move(l)
      BY <1>3, <3>1, <3>2, <3>3, <3>4, Zenon DEF Step
    <3>. QED  BY <3>5, Zenon DEF Move
  <2>2. Holders' = Holders
    BY <2>1, SMTT(30) DEF Holders, ShapeOK
  <2>3. UNCHANGED slotVars
    BY <1>3 DEF Step, Refuse, Reject, RecordActive, LoadPeak, CasPeak, SetPeak, Resolve,
       FindCapabilities, AwaitSettings, Setup, Dial, StartAssociation, RunEnds, DeferredClose,
       CountRelease
  <2>. QED  BY <2>2, <2>3, Zenon
<1>4. ASSUME UNCHANGED vars PROVE Holders' = Holders /\ UNCHANGED slotVars
  BY <1>4 DEF vars, Holders
<1>. QED
  BY <1>1, <1>2, <1>3, <1>4 DEF Next, Finished, Holders

HeldBy(h) == Holders \cap Of(h)

(* What SlotsExact states of a client of a Handler. *)
ClientExact(h, c) ==
  /\ c \in DOMAIN byClient[h] <=> HoldersOf(h, c) # {}
  /\ CountOf(h, c) = Cardinality(HoldersOf(h, c))
  /\ CountOf(h, c) <= MaxClient

HandlerExact(h) ==
  /\ active[h] = Cardinality(HeldBy(h)) /\ active[h] <= MaxActive
  /\ DOMAIN byClient[h] \subseteq Client
  /\ \A c \in Client : ClientExact(h, c)

SlotInv ==
  /\ active \in [Handler -> Nat] /\ DOMAIN byClient = Handler
  /\ \A h \in Handler : HandlerExact(h)

(* The holders of a Handler and of its clients are requests. *)
LEMMA HeldFinite ==
  ASSUME NEW h
  PROVE  HeldBy(h) \in SUBSET Req /\ \A c : HoldersOf(h, c) \in SUBSET Req
BY Zenon DEF HeldBy, HoldersOf, Holders

(* The inductive invariant of the slots implies what the runs check. *)
LEMMA SlotInvExact ==
  ASSUME SlotInv
  PROVE  /\ SlotsExact
         /\ \A h \in Handler : /\ DOMAIN byClient[h] \subseteq Client
                               /\ \A c \in DOMAIN byClient[h] : byClient[h][c] \in Nat \ {0}
<1>1. ASSUME NEW h \in Handler
      PROVE  /\ active[h] = Cardinality(HeldBy(h)) /\ active[h] <= MaxActive
             /\ DOMAIN byClient[h] \subseteq Client
             /\ \A c \in Client : ClientExact(h, c)
  BY <1>1, Zenon DEF SlotInv, HandlerExact
<1>2. ASSUME NEW h \in Handler PROVE DOMAIN byClient[h] = {ClientOf[r] : r \in HeldBy(h)}
  <2>1. \A c \in Client : c \in DOMAIN byClient[h] <=> HoldersOf(h, c) # {}
    BY <1>1, <1>2, Zenon DEF ClientExact
  <2>2. \A r \in HeldBy(h) : ClientOf[r] \in Client
    BY ReqAssumption DEF HeldBy, Holders
  <2>3. \A c : HoldersOf(h, c) = {r \in HeldBy(h) : ClientOf[r] = c}
    BY Zenon DEF HoldersOf, HeldBy
  <2>. QED
    BY <1>1, <1>2, <2>1, <2>2, <2>3, Zenon
<1>3. ASSUME NEW h \in Handler, NEW c \in DOMAIN byClient[h]
      PROVE  /\ byClient[h][c] = Cardinality(HoldersOf(h, c)) /\ byClient[h][c] <= MaxClient
             /\ byClient[h][c] \in Nat \ {0}
  <2>1. ClientExact(h, c)
    BY <1>1, <1>3, Zenon
  <2>2. HoldersOf(h, c) \in SUBSET Req /\ HoldersOf(h, c) # {}
    BY <1>3, <2>1, HeldFinite, Zenon DEF ClientExact
  <2>3. CountOf(h, c) = byClient[h][c]
    BY <1>3, Zenon DEF CountOf
  <2>. QED
    BY <2>1, <2>2, <2>3, Counting, ZenonT(60) DEF ClientExact
<1>. QED
  BY <1>1, <1>2, <1>3, Zenon DEF SlotsExact, HeldBy

(* A step leaves a Handler alone whose holders and counters it leaves alone. *)
LEMMA HandlerKept ==
  ASSUME NEW h \in Handler, HandlerExact(h), HeldBy(h)' = HeldBy(h),
         active'[h] = active[h], byClient'[h] = byClient[h]
  PROVE  HandlerExact(h)'
<1>1. \A c \in Client : HoldersOf(h, c)' = HoldersOf(h, c) /\ CountOf(h, c)' = CountOf(h, c)
  BY Zenon DEF HoldersOf, HeldBy, CountOf
<1>. QED
  BY <1>1, Zenon DEF HandlerExact, ClientExact

(* The step that takes a slot keeps the counters of its Handler exact. *)
LEMMA AdmitExact ==
  ASSUME SlotInv, NEW r \in Req \ Holders, Admit(r), Holders' = Holders \cup {r}
  PROVE  HandlerExact(HandlerOf[r])'
<1> DEFINE h == HandlerOf[r]
           k == ClientOf[r]
<1>1. h \in Handler /\ k \in Client /\ r \in Of(h)
  BY ReqAssumption DEF Of
<1>2. /\ active \in [Handler -> Nat] /\ DOMAIN byClient = Handler
      /\ active[h] = Cardinality(HeldBy(h))
      /\ DOMAIN byClient[h] \subseteq Client /\ \A c \in Client : ClientExact(h, c)
  BY <1>1, Zenon DEF SlotInv, HandlerExact
<1>3. HeldBy(h)' = HeldBy(h) \cup {r} /\ r \notin HeldBy(h)
  BY <1>1, Zenon DEF HeldBy, Of
<1>4. Cardinality(HeldBy(h)') = active[h] + 1
  BY <1>2, <1>3, HeldFinite, CountJoin, Zenon
<1>5. active'[h] = active[h] + 1 /\ ~(active[h] >= MaxActive) /\ ~(CountOf(h, k) >= MaxClient)
  BY <1>1, <1>2 DEF Admit, AtLimit
<1>6. active'[h] <= MaxActive
  BY <1>1, <1>2, <1>5, LimitAssumption
<1>7. byClient'[h] = Take(h, k)
  BY <1>1, <1>2, Zenon DEF Admit
<1>8. /\ DOMAIN byClient'[h] = DOMAIN byClient[h] \cup {k}
      /\ byClient'[h][k] = CountOf(h, k) + 1
      /\ \A c \in DOMAIN byClient[h] \ {k} : byClient'[h][c] = byClient[h][c]
  BY <1>7 DEF Take
<1>9. ASSUME NEW c \in Client PROVE ClientExact(h, c)'
  <2>1. CASE c = k
    <3>1. HoldersOf(h, c)' = HoldersOf(h, c) \cup {r} /\ r \notin HoldersOf(h, c)
      BY <1>1, <2>1, Zenon DEF HoldersOf, Of
    <3>2. Cardinality(HoldersOf(h, c)') = Cardinality(HoldersOf(h, c)) + 1
      BY <3>1, HeldFinite, CountJoin, Zenon
    <3>3. CountOf(h, c)' = CountOf(h, c) + 1 /\ c \in DOMAIN byClient'[h]
      BY <1>8, <2>1, Zenon DEF CountOf
    <3>4. CountOf(h, c) = Cardinality(HoldersOf(h, c)) /\ Cardinality(HoldersOf(h, c)) \in Nat
      BY <1>2, HeldFinite, Counting, Zenon DEF ClientExact
    <3>5. CountOf(h, c) + 1 <= MaxClient
      BY <1>5, <2>1, <3>4, LimitAssumption
    <3>. QED
      BY <3>1, <3>2, <3>3, <3>4, <3>5, Zenon DEF ClientExact
  <2>2. CASE c # k
    <3>1. HoldersOf(h, c)' = HoldersOf(h, c)
      BY <2>2, Zenon DEF HoldersOf, Of
    <3>2. CountOf(h, c)' = CountOf(h, c) /\ (c \in DOMAIN byClient'[h] <=> c \in DOMAIN byClient[h])
      BY <1>8, <2>2, Zenon DEF CountOf
    <3>. QED
      BY <1>2, <3>1, <3>2, Zenon DEF ClientExact
  <2>. QED  BY <2>1, <2>2, Zenon
<1>10. DOMAIN byClient'[h] \subseteq Client
  BY <1>1, <1>2, <1>8, Zenon
<1>. QED
  BY <1>4, <1>5, <1>6, <1>9, <1>10, Zenon DEF HandlerExact

(* The step that gives a slot back keeps the counters of its Handler exact,  *)
(* and never takes one of them below zero.                                   *)
LEMMA ReleaseExact ==
  ASSUME SlotInv, NEW r \in Req, r \in Holders, Release(r), Holders' = Holders \ {r}
  PROVE  HandlerExact(HandlerOf[r])' /\ active[HandlerOf[r]] - 1 \in Nat
<1> DEFINE h == HandlerOf[r]
           k == ClientOf[r]
<1>1. h \in Handler /\ k \in Client /\ r \in Of(h)
  BY ReqAssumption DEF Of
<1>2. /\ active \in [Handler -> Nat] /\ DOMAIN byClient = Handler
      /\ active[h] = Cardinality(HeldBy(h)) /\ active[h] <= MaxActive
      /\ DOMAIN byClient[h] \subseteq Client /\ \A c \in Client : ClientExact(h, c)
  BY <1>1, Zenon DEF SlotInv, HandlerExact
<1>3. HeldBy(h)' = HeldBy(h) \ {r} /\ r \in HeldBy(h)
  BY <1>1, Zenon DEF HeldBy, Of
<1>4. Cardinality(HeldBy(h)') = active[h] - 1 /\ Cardinality(HeldBy(h)') \in Nat
  BY <1>2, <1>3, HeldFinite, CountLeave, Zenon
<1>5. active'[h] = active[h] - 1 /\ byClient'[h] = Drop(h, k)
  BY <1>1, <1>2 DEF Release
<1>6. active'[h] <= MaxActive
  BY <1>1, <1>2, <1>5, LimitAssumption
<1>7. r \in HoldersOf(h, k) /\ k \in DOMAIN byClient[h]
  <2>1. r \in HoldersOf(h, k)
    BY <1>1, Zenon DEF HoldersOf
  <2>. QED
    BY <1>1, <1>2, <2>1, Zenon DEF ClientExact
<1>8. byClient[h][k] = CountOf(h, k)
  BY <1>7, Zenon DEF CountOf
<1>9. /\ byClient[h][k] = 1 => DOMAIN byClient'[h] = DOMAIN byClient[h] \ {k}
      /\ byClient[h][k] # 1 =>
           /\ DOMAIN byClient'[h] = DOMAIN byClient[h]
           /\ byClient'[h][k] = byClient[h][k] - 1
      /\ \A c \in DOMAIN byClient[h] \ {k} : byClient'[h][c] = byClient[h][c]
  BY <1>5, <1>7, SMTT(30) DEF Drop
<1>10. ASSUME NEW c \in Client PROVE ClientExact(h, c)'
  <2>1. CASE c = k
    <3>1. HoldersOf(h, c)' = HoldersOf(h, c) \ {r} /\ HoldersOf(h, c)' \in SUBSET Req
      BY <1>1, <2>1, HeldFinite, Zenon DEF HoldersOf, Of
    <3>2. Cardinality(HoldersOf(h, c)') = Cardinality(HoldersOf(h, c)) - 1
      BY <1>7, <2>1, <3>1, HeldFinite, CountLeave, Zenon
    <3>3. Cardinality(HoldersOf(h, c)') = 0 <=> HoldersOf(h, c)' = {}
      BY <3>1, Counting, Zenon
    <3>4. /\ CountOf(h, c) = Cardinality(HoldersOf(h, c)) /\ CountOf(h, c) <= MaxClient
          /\ Cardinality(HoldersOf(h, c)) \in Nat
      BY <1>2, HeldFinite, Counting, Zenon DEF ClientExact
    <3>5. CASE byClient[h][k] = 1
      <4>1. c \notin DOMAIN byClient'[h] /\ CountOf(h, c)' = 0 /\ CountOf(h, c) = 1
        BY <1>8, <1>9, <2>1, <3>5, Zenon DEF CountOf
      <4>. QED
        BY <3>2, <3>3, <3>4, <4>1, LimitAssumption DEF ClientExact
    <3>6. CASE byClient[h][k] # 1
      <4>1. c \in DOMAIN byClient'[h] /\ CountOf(h, c)' = CountOf(h, c) - 1 /\ CountOf(h, c) # 1
        BY <1>7, <1>8, <1>9, <2>1, <3>6, Zenon DEF CountOf
      <4>. QED
        BY <3>2, <3>3, <3>4, <4>1, LimitAssumption DEF ClientExact
    <3>. QED  BY <3>5, <3>6, Zenon
  <2>2. CASE c # k
    <3>1. HoldersOf(h, c)' = HoldersOf(h, c)
      BY <2>2, Zenon DEF HoldersOf, Of
    <3>2. CountOf(h, c)' = CountOf(h, c) /\ (c \in DOMAIN byClient'[h] <=> c \in DOMAIN byClient[h])
      BY <1>9, <2>2, Zenon DEF CountOf
    <3>. QED
      BY <1>2, <3>1, <3>2, Zenon DEF ClientExact
  <2>. QED  BY <2>1, <2>2, Zenon
<1>11. DOMAIN byClient'[h] \subseteq Client
  BY <1>2, <1>9, Zenon
<1>. QED
  BY <1>4, <1>5, <1>6, <1>10, <1>11, Zenon DEF HandlerExact

(* Steps keep the counters of every Handler exact and within the limits. *)
LEMMA NextSlots == ShapeOK /\ SlotInv /\ [Next]_vars => SlotInv'
<1> SUFFICES ASSUME ShapeOK, SlotInv, [Next]_vars PROVE SlotInv'
  OBVIOUS
<1>1. ASSUME NEW r \in Req,
             Holders' = Holders \cup {r} \/ Holders' = Holders \ {r},
             NEW n \in Nat, active' = [active EXCEPT ![HandlerOf[r]] = n],
             NEW m, byClient' = [byClient EXCEPT ![HandlerOf[r]] = m],
             HandlerExact(HandlerOf[r])'
      PROVE  SlotInv'
  <2>1. active' \in [Handler -> Nat] /\ DOMAIN byClient' = Handler
    BY <1>1, Zenon DEF SlotInv
  <2>2. ASSUME NEW h \in Handler, h # HandlerOf[r] PROVE HandlerExact(h)'
    <3>1. HeldBy(h)' = HeldBy(h)
      BY <1>1, <2>2, Zenon DEF HeldBy, Of
    <3>2. active'[h] = active[h] /\ byClient'[h] = byClient[h]
      BY <1>1, <2>2 DEF SlotInv
    <3>. QED
      BY <3>1, <3>2, HandlerKept, Zenon DEF SlotInv
  <2>. QED
    BY <1>1, <2>1, <2>2, Zenon DEF SlotInv
<1>2. ASSUME NEW r \in Req \ Holders, Admit(r), Holders' = Holders \cup {r} PROVE SlotInv'
  <2>1. active[HandlerOf[r]] + 1 \in Nat
    BY ReqAssumption DEF SlotInv
  <2>2. HandlerExact(HandlerOf[r])'
    BY <1>2, AdmitExact, Zenon
  <2>3. /\ active' = [active EXCEPT ![HandlerOf[r]] = active[HandlerOf[r]] + 1]
        /\ byClient' = [byClient EXCEPT ![HandlerOf[r]] = Take(HandlerOf[r], ClientOf[r])]
    BY <1>2, Zenon DEF Admit
  <2>. QED
    BY <1>1, <1>2, <2>1, <2>2, <2>3, Zenon
<1>3. ASSUME NEW r \in Holders, Release(r), Holders' = Holders \ {r} PROVE SlotInv'
  <2>1. r \in Req
    BY Zenon DEF Holders
  <2>2. HandlerExact(HandlerOf[r])' /\ active[HandlerOf[r]] - 1 \in Nat
    BY <1>3, <2>1, ReleaseExact, Zenon
  <2>3. /\ active' = [active EXCEPT ![HandlerOf[r]] = active[HandlerOf[r]] - 1]
        /\ byClient' = [byClient EXCEPT ![HandlerOf[r]] = Drop(HandlerOf[r], ClientOf[r])]
    BY <1>3, Zenon DEF Release
  <2>. QED
    BY <1>1, <1>3, <2>1, <2>2, <2>3, Zenon
<1>4. CASE Holders' = Holders /\ UNCHANGED slotVars
  <2>1. \A h \in Handler : HandlerExact(h)'
    BY <1>4, HandlerKept, Zenon DEF SlotInv, HeldBy
  <2>. QED
    BY <1>4, <2>1, Zenon DEF SlotInv
<1>. QED
  BY <1>2, <1>3, <1>4, SlotSteps

(* The invariants of shape and slots hold initially. *)
LEMMA InitInv == Init => ShapeOK /\ SlotInv
<1> SUFFICES ASSUME Init PROVE ShapeOK /\ SlotInv
  OBVIOUS
<1>1. ShapeOK
  BY DEF Init, ShapeOK
<1>2. Holders = {}
  BY DEF Init, Holders, Holding, Reporting, Serving
<1>3. ASSUME NEW h \in Handler PROVE HandlerExact(h)
  <2>1. HeldBy(h) = {} /\ \A c : HoldersOf(h, c) = {}
    BY <1>2, Zenon DEF HeldBy, HoldersOf
  <2>2. active[h] = 0 /\ DOMAIN byClient[h] = {}
    BY <1>3 DEF Init
  <2>. QED
    BY <2>1, <2>2, FS_EmptySet, LimitAssumption DEF HandlerExact, ClientExact, CountOf
<1>4. active \in [Handler -> Nat] /\ DOMAIN byClient = Handler
  BY DEF Init
<1>. QED
  BY <1>1, <1>3, <1>4, Zenon DEF SlotInv

(* They hold in every behaviour. *)
LEMMA SlotSafety == Spec => [](ShapeOK /\ SlotInv)
<1>1. ShapeOK /\ SlotInv /\ [Next]_vars => (ShapeOK /\ SlotInv)'
  BY NextShape, NextSlots DEF SlotInv
<1>. QED
  BY <1>1, InitInv, PTL DEF Spec

(* Both limits hold and the counters are exact in every Handler, for any     *)
(* number of Handlers and requests, any distribution over Handlers and       *)
(* clients and any limits.                                                   *)
THEOREM SlotsAreExact == Spec => []SlotsExact
<1>1. SlotInv => SlotsExact
  BY SlotInvExact, Zenon
<1>. QED
  BY <1>1, SlotSafety, PTL

(* An open socket always belongs to a request that still holds its slot.     *)
THEOREM SocketsAreCovered == Spec => []SocketsCovered
<1>1. Init => SocketsCovered
  BY DEF Init, SocketsCovered
<1>2. ShapeOK /\ SocketsCovered /\ [Next]_vars => SocketsCovered'
  <2> SUFFICES ASSUME ShapeOK, SocketsCovered, [Next]_vars PROVE SocketsCovered'
    BY ZenonT(60)
  <2>1. ASSUME NEW r \in Req, Step(r) PROVE SocketsCovered'
    BY <2>1 DEF SocketsCovered, ShapeOK, Step, Refuse, Reject, Admit, RecordActive, LoadPeak,
       CasPeak, SwapPeak, SetPeak, Resolve, FindCapabilities, AwaitSettings, Setup, Dial,
       StartAssociation, RunEnds, DeferredClose, CloseSocket, CountRelease, Release, Goto, Reply
  <2>2. CASE UNCHANGED vars
    BY <2>2 DEF vars, SocketsCovered
  <2>. QED
    BY <2>1, <2>2 DEF Next, Finished
<1>. QED
  BY <1>1, <1>2, SlotSafety, PTL DEF Spec

-----------------------------------------------------------------------------
(* The gauge. *)

(* The requests in the gauge hold slots, and all are requests. *)
LEMMA CountedFinite == Counted \in SUBSET Holders /\ Counted \in SUBSET Req /\ Holders \in SUBSET Req
BY DEF Counted, Holders, Holding

GaugeInv == gauge = Cardinality(Counted)

(* Steps keep the gauge equal to the number of recorded requests. *)
LEMMA NextGauge == ShapeOK /\ GaugeInv /\ [Next]_vars => GaugeInv'
<1> SUFFICES ASSUME ShapeOK, gauge = Cardinality(Counted), [Next]_vars
             PROVE  gauge' = Cardinality(Counted')
  BY DEF GaugeInv
<1>1. ASSUME NEW r \in Req, RecordActive(r) PROVE gauge' = Cardinality(Counted')
  <2>1. Counted' = Counted \cup {r} /\ r \notin Counted
    BY <1>1 DEF RecordActive, Goto, Counted, Reporting, Serving, ShapeOK
  <2>. QED
    BY <1>1, <2>1, CountedFinite, Counting, SMTT(30) DEF RecordActive
<1>2. ASSUME NEW r \in Req, CountRelease(r) PROVE gauge' = Cardinality(Counted')
  <2>1. Counted' = Counted \ {r} /\ r \in Counted
    BY <1>2 DEF CountRelease, Goto, Counted, Reporting, Serving, ShapeOK
  <2>. QED
    BY <1>2, <2>1, CountedFinite, Counting, SMTT(30) DEF CountRelease, RecordReleased
<1>3. ASSUME NEW r \in Req, Step(r), ~RecordActive(r), ~CountRelease(r)
      PROVE gauge' = Cardinality(Counted')
  <2>1. PICK l : /\ pc' = [pc EXCEPT ![r] = l]
                 /\ pc[r] \in (Reporting \ {"record"}) \cup Serving <=>
                      l \in (Reporting \ {"record"}) \cup Serving
    <3>. DEFINE At == (Reporting \ {"record"}) \cup Serving
                Move(l) == pc' = [pc EXCEPT ![r] = l] /\ (pc[r] \in At <=> l \in At)
    <3>1. ASSUME Refuse(r) \/ Reject(r) \/ Admit(r) \/ Release(r) PROVE \E l : Move(l)
      BY <3>1, SMTT(30) DEF Refuse, Reject, Admit, Release, Goto, Reply, Reporting, Serving
    <3>2. ASSUME LoadPeak(r) \/ CasPeak(r) \/ SetPeak(r) PROVE \E l : Move(l)
      BY <3>2, SMTT(30) DEF LoadPeak, CasPeak, SwapPeak, SetPeak, Goto, Reporting, Serving
    <3>3. ASSUME Resolve(r) \/ FindCapabilities(r) \/ AwaitSettings(r) \/ Dial(r)
          PROVE  \E l : Move(l)
      BY <3>3, SMTT(30) DEF Resolve, FindCapabilities, AwaitSettings, Setup, Dial, Goto, Reply,
         Reporting, Serving
    <3>4. ASSUME StartAssociation(r) \/ RunEnds(r) \/ DeferredClose(r) PROVE \E l : Move(l)
      BY <3>4, SMTT(30) DEF StartAssociation, RunEnds, DeferredClose, Goto, Reply, Reporting, Serving
    <3>. HIDE DEF Move
    <3>5. \E l : Move(l)
      BY <1>3, <3>1, <3>2, <3>3, <3>4, Zenon DEF Step
    <3>. QED  BY <3>5, Zenon DEF Move
  <2>2. Counted' = Counted
    BY <2>1, SMTT(30) DEF Counted, ShapeOK
  <2>3. gauge' = gauge
    BY <1>3, ZenonT(60) DEF Step, Refuse, Reject, Admit, LoadPeak, CasPeak, SetPeak, Resolve,
       FindCapabilities, AwaitSettings, Setup, Dial, StartAssociation, RunEnds, DeferredClose,
       Release
  <2>. QED  BY <2>2, <2>3, ZenonT(60)
<1>4. ASSUME UNCHANGED vars PROVE gauge' = Cardinality(Counted')
  <2>1. Counted' = Counted /\ gauge' = gauge
    BY <1>4 DEF vars, Counted
  <2>. QED  BY <2>1
<1>. QED
  BY <1>1, <1>2, <1>3, <1>4 DEF Next, Finished

(* The gauge is exact in every behaviour. *)
LEMMA GaugeSafety == Spec => []GaugeInv
<1>1. Init => GaugeInv
  <2> SUFFICES ASSUME Init PROVE gauge = Cardinality(Counted)
    BY DEF GaugeInv
  <2>1. Counted = {}
    BY DEF Init, Counted, Reporting, Serving
  <2>. QED
    BY <2>1, FS_EmptySet DEF Init
<1>. QED
  BY <1>1, NextGauge, SlotSafety, PTL DEF Spec

(* The exported gauge counts the recorded associations of all Handlers,      *)
(* although it is moved outside the locks that guard their slots, and of     *)
(* each Handler it counts the slots taken but for those in the midst of      *)
(* being recorded or given back.                                             *)
THEOREM GaugeIsExact == Spec => []GaugeExact
<1>1. ShapeOK /\ SlotInv /\ GaugeInv => GaugeExact
  <2> SUFFICES ASSUME ShapeOK, SlotInv, GaugeInv PROVE GaugeExact
    OBVIOUS
  <2>1. ASSUME NEW h \in Handler
        PROVE  Counted \cap Of(h) \in SUBSET HeldBy(h) /\ active[h] = Cardinality(HeldBy(h))
    BY <2>1, CountedFinite, Zenon DEF HeldBy, SlotInv, HandlerExact
  <2>2. ASSUME NEW h \in Handler PROVE Cardinality(Counted \cap Of(h)) <= active[h]
    BY <2>1, <2>2, HeldFinite, Counting, Zenon
  <2>3. ASSUME NEW h \in Handler, \A r \in Of(h) : pc[r] \notin {"record", "release"}
        PROVE  Counted \cap Of(h) = HeldBy(h)
    <3>1. ASSUME NEW r \in HeldBy(h) PROVE r \in Counted
      BY <2>3, <3>1 DEF HeldBy, Holders, Holding, Reporting, Serving, Counted, Of
    <3>. QED
      BY <2>1, <2>3, <3>1, Zenon DEF HeldBy
  <2>. QED
    BY <2>1, <2>2, <2>3, Zenon DEF GaugeInv, GaugeExact
<1>. QED
  BY <1>1, SlotSafety, GaugeSafety, PTL

(* Type correctness: no counter of a Handler ever goes below zero, nor does  *)
(* the gauge they share, and the map of clients never holds a zero.          *)
THEOREM TypeCorrect == Spec => []TypeOK
<1>1. ShapeOK /\ SlotInv /\ GaugeInv => TypeOK
  <2> SUFFICES ASSUME ShapeOK, SlotInv, gauge = Cardinality(Counted) PROVE TypeOK
    BY DEF GaugeInv
  <2>1. gauge \in Nat
    BY CountedFinite, Counting, Zenon
  <2>2. \A h \in Handler : /\ DOMAIN byClient[h] \subseteq Client
                           /\ \A c \in DOMAIN byClient[h] : byClient[h][c] \in Nat \ {0}
    BY SlotInvExact, Zenon
  <2>. QED
    BY <2>1, <2>2, ZenonT(60) DEF ShapeOK, SlotInv, TypeOK
<1>. QED
  BY <1>1, SlotSafety, GaugeSafety, PTL

-----------------------------------------------------------------------------
(* The high-water mark.                                                      *)
(*                                                                           *)
(* A request reports the value of active it saw under its Handler's lock,    *)
(* but reports arrive in any order.  PeakCovers alone is not inductive: when *)
(* a request joins Recorded nothing says its report covers the others.  The  *)
(* invariant therefore speaks, for a Handler h, of every set S of requests   *)
(* of h still reporting: together with the recorded ones of h they are       *)
(* covered by the mark or by the report of one of S, the one admitted last.  *)

Unrecorded == {r \in Req : pc[r] \in {"record", "load", "cas"}}

Done(h) == Recorded \cap Of(h)
Late(h) == Unrecorded \cap Of(h)

Covers(h, S) ==
  \/ Cardinality(Done(h) \cup S) <= peakValue
  \/ \E s \in S : Cardinality(Done(h) \cup S) <= seen[s]

AllCovered(h) == \A S \in SUBSET Late(h) : Covers(h, S)

PeakInv ==
  /\ \A h \in Handler : AllCovered(h)
  /\ peakValue <= MaxActive
  /\ \A r \in Unrecorded : seen[r] <= MaxActive
  /\ \A r \in Req : pc[r] = "cas" => peak[r] < seen[r]

(* Every holder of a slot has recorded its report or has yet to, not both. *)
LEMMA PeakSets ==
  ASSUME ShapeOK
  PROVE  /\ Recorded \in SUBSET Req /\ Unrecorded \in SUBSET Req
         /\ Recorded \cup Unrecorded = Holders /\ Recorded \cap Unrecorded = {}
BY DEF ShapeOK, Recorded, Unrecorded, Holders, Holding, Reporting, Serving

(* The sets of a Handler are finite, and make up its holders. *)
LEMMA PeakSetsOf ==
  ASSUME ShapeOK, NEW h
  PROVE  /\ Done(h) \in SUBSET Req /\ Late(h) \in SUBSET Req /\ Late(h) \in SUBSET Unrecorded
         /\ Done(h) \cup Late(h) = HeldBy(h)
BY PeakSets, Zenon DEF Done, Late, HeldBy

(* A Handler stays covered when no more of its requests are recorded, as     *)
(* many report what they reported, and the mark did not sink.                *)
LEMMA ShrinkStep ==
  ASSUME ShapeOK, ShapeOK', NEW h, AllCovered(h), Done(h)' \in SUBSET Done(h),
         Late(h)' = Late(h), peakValue' >= peakValue, \A s \in Late(h) : seen'[s] = seen[s]
  PROVE  AllCovered(h)'
<1> SUFFICES ASSUME NEW S \in SUBSET Late(h) PROVE Covers(h, S)'
  BY Zenon DEF AllCovered
<1>1. Done(h) \cup S \in SUBSET Req /\ Done(h)' \cup S \in SUBSET (Done(h) \cup S)
  BY PeakSetsOf, Zenon
<1>2. /\ Cardinality(Done(h)' \cup S) <= Cardinality(Done(h) \cup S)
      /\ Cardinality(Done(h) \cup S) \in Nat
  BY <1>1, Counting, Zenon
<1>3. Done(h)' \cup S \in SUBSET Req
  BY <1>1, Zenon
<1>4. Cardinality(Done(h)' \cup S) \in Nat
  BY <1>3, Counting, Zenon
<1>5. peakValue \in Nat /\ peakValue' \in Nat
  BY DEF ShapeOK
<1>6. \A s \in S : seen[s] \in Nat /\ seen'[s] = seen[s]
  BY PeakSetsOf DEF ShapeOK
<1>7. Covers(h, S)
  BY Zenon DEF AllCovered
<1>8. CASE Cardinality(Done(h) \cup S) <= peakValue
  <2>1. Cardinality(Done(h)' \cup S) <= peakValue'
    BY <1>2, <1>4, <1>5, <1>8
  <2>. QED  BY <2>1, Zenon DEF Covers
<1>9. ASSUME NEW s \in S, Cardinality(Done(h) \cup S) <= seen[s] PROVE Covers(h, S)'
  <2>1. Cardinality(Done(h)' \cup S) <= seen'[s]
    BY <1>2, <1>4, <1>6, <1>9
  <2>. QED  BY <2>1, Zenon DEF Covers
<1>. QED
  BY <1>7, <1>8, <1>9, Zenon DEF Covers

(* A request that joins Recorded when the mark is at least its report. *)
LEMMA JoinStep ==
  ASSUME ShapeOK, ShapeOK', NEW h, AllCovered(h),
         NEW r \in Unrecorded, Recorded' = Recorded \cup {r},
         Unrecorded' = Unrecorded \ {r}, peakValue' >= peakValue, peakValue' >= seen[r],
         \A s \in Unrecorded \ {r} : seen'[s] = seen[s]
  PROVE  AllCovered(h)'
<1>1. CASE r \notin Of(h)
  <2>1. Done(h)' = Done(h) /\ Late(h)' = Late(h)
    BY <1>1, Zenon DEF Done, Late, Of
  <2>2. \A s \in Late(h) : seen'[s] = seen[s]
    BY <1>1, Zenon DEF Late
  <2>. QED
    BY <2>1, <2>2, ShrinkStep, Zenon
<1>2. CASE r \in Of(h)
  <2> SUFFICES ASSUME NEW S \in SUBSET Late(h)' PROVE Covers(h, S)'
    BY Zenon DEF AllCovered
  <2>1. /\ Late(h)' = Late(h) \ {r} /\ r \in Late(h) /\ S \cup {r} \in SUBSET Late(h)
        /\ Done(h)' \cup S = Done(h) \cup (S \cup {r})
    <3>1. Late(h)' = Late(h) \ {r} /\ r \in Late(h) /\ Done(h)' = Done(h) \cup {r}
      BY <1>2, Zenon DEF Done, Late, Of
    <3>2. S \cup {r} \in SUBSET Late(h)
      BY <3>1, Zenon
    <3>. QED  BY <3>1, <3>2
  <2>2. Done(h) \cup (S \cup {r}) \in SUBSET Req
    BY <2>1, PeakSetsOf, Zenon
  <2>3. Cardinality(Done(h)' \cup S) \in Nat
    BY <2>1, <2>2, Counting, Zenon
  <2>4. Covers(h, S \cup {r})
    BY <2>1, Zenon DEF AllCovered
  <2>5. peakValue \in Nat /\ peakValue' \in Nat /\ seen[r] \in Nat
    BY PeakSets, SMTT(30) DEF ShapeOK
  <2>6. CASE Cardinality(Done(h)' \cup S) <= peakValue
    <3>1. Cardinality(Done(h)' \cup S) <= peakValue'
      BY <2>3, <2>5, <2>6
    <3>. QED  BY <3>1, Zenon DEF Covers
  <2>7. CASE Cardinality(Done(h)' \cup S) <= seen[r]
    <3>1. Cardinality(Done(h)' \cup S) <= peakValue'
      BY <2>3, <2>5, <2>7
    <3>. QED  BY <3>1, Zenon DEF Covers
  <2>8. ASSUME NEW s \in S, Cardinality(Done(h)' \cup S) <= seen[s], s # r PROVE Covers(h, S)'
    <3>1. seen'[s] = seen[s]
      BY <2>1, <2>8, PeakSetsOf, Zenon
    <3>. QED  BY <2>8, <3>1, Zenon DEF Covers
  <2>. QED
    BY <2>1, <2>4, <2>6, <2>7, <2>8, Zenon DEF Covers
<1>. QED  BY <1>1, <1>2, Zenon

(* The parts of PeakInv that speak of single requests. *)
BoundInv ==
  /\ peakValue <= MaxActive
  /\ \A r \in Unrecorded : seen[r] <= MaxActive
  /\ \A r \in Req : pc[r] = "cas" => peak[r] < seen[r]

Holds == {"set"} \cup Serving \cup {"release"}

(* Request r goes on at l, without entering or leaving its report. *)
PlainMove(r, l) ==
  /\ pc' = [pc EXCEPT ![r] = l] /\ l # "cas"
  /\ pc[r] \in {"record", "load", "cas"} <=> l \in {"record", "load", "cas"}
  /\ l \in Holds => pc[r] \in Holds

(* A step that neither admits nor raises the mark moves one request on,      *)
(* never into its report nor out of it before it is recorded.                *)
LEMMA PlainStep ==
  ASSUME ShapeOK, NEW r \in Req, Step(r), ~Admit(r), ~LoadPeak(r), ~CasPeak(r)
  PROVE  /\ UNCHANGED <<peakValue, peak>>
         /\ \A s \in Req : seen'[s] = seen[s] \/ (s = r /\ pc[r] = "set")
         /\ \E l : PlainMove(r, l)
<1> DEFINE Same == UNCHANGED <<peakValue, peak, seen>>
<1>1. ASSUME RecordActive(r) PROVE PlainMove(r, "load") /\ Same
  BY <1>1 DEF RecordActive, Goto, PlainMove, Holds, Serving
<1>2. ASSUME SetPeak(r)
      PROVE  PlainMove(r, "resolve") /\ UNCHANGED <<peakValue, peak>> /\ seen' = [seen EXCEPT ![r] = 0]
                              /\ pc[r] = "set"
  BY <1>2 DEF SetPeak, Goto, PlainMove, Holds, Serving
<1>3. ASSUME Refuse(r) \/ Reject(r) PROVE PlainMove(r, "done") /\ Same
  BY <1>3, ZenonT(60) DEF Refuse, Reject, Goto, Reply, PlainMove, Holds, Serving, metricVars
<1>4. ASSUME Resolve(r) \/ FindCapabilities(r) \/ AwaitSettings(r)
      PROVE  (\E l \in {"capable", "settings", "dial", "count"} : PlainMove(r, l)) /\ Same
  BY <1>4, ZenonT(60) DEF Resolve, FindCapabilities, AwaitSettings, Setup, Goto, Reply, PlainMove, Holds, Serving, metricVars
<1>5. ASSUME Dial(r) PROVE (PlainMove(r, "start") \/ PlainMove(r, "count")) /\ Same
  BY <1>5 DEF Dial, Goto, Reply, PlainMove, Holds, Serving, metricVars
<1>6. ASSUME StartAssociation(r) \/ RunEnds(r)
      PROVE  (PlainMove(r, "run") \/ PlainMove(r, "close")) /\ Same
  BY <1>6, Zenon DEF StartAssociation, RunEnds, Goto, Reply, PlainMove, Holds, Serving, metricVars
<1>7. ASSUME DeferredClose(r) \/ CountRelease(r) \/ Release(r)
      PROVE  (PlainMove(r, "count") \/ PlainMove(r, "release") \/ PlainMove(r, "done")) /\ Same
  BY <1>7 DEF DeferredClose, CountRelease, Release, Goto, PlainMove, Holds, Serving, metricVars
<1>8. \E l : PlainMove(r, l)
  BY <1>1, <1>2, <1>3, <1>4, <1>5, <1>6, <1>7, Zenon DEF Step
<1>9. Same \/ (UNCHANGED <<peakValue, peak>> /\ seen' = [seen EXCEPT ![r] = 0] /\ pc[r] = "set")
  BY <1>1, <1>2, <1>3, <1>4, <1>5, <1>6, <1>7, Zenon DEF Step
<1>10. \A s \in Req : seen'[s] = seen[s] \/ (s = r /\ pc[r] = "set")
  BY <1>9 DEF ShapeOK
<1>. QED
  BY <1>8, <1>9, <1>10, SMTT(30)

(* Steps keep every reported value and the mark within the limit. *)
LEMMA NextBound == ShapeOK /\ SlotInv /\ BoundInv /\ [Next]_vars => BoundInv'
<1> SUFFICES ASSUME ShapeOK, SlotInv, BoundInv, [Next]_vars PROVE BoundInv'
  OBVIOUS
<1>0. MaxActive \in Nat
  BY LimitAssumption, Zenon
<1>1. ASSUME NEW r \in Req, Admit(r) PROVE BoundInv'
  <2>1. active[HandlerOf[r]] + 1 <= MaxActive
    <3>1. active[HandlerOf[r]] \in Nat
      BY ReqAssumption DEF SlotInv
    <3>. QED
      BY <1>0, <1>1, <3>1 DEF Admit, AtLimit
  <2>. QED
    BY <1>1, <2>1, SMTT(30) DEF Admit, Goto, BoundInv, Unrecorded, ShapeOK
<1>2. ASSUME NEW r \in Req, LoadPeak(r) PROVE BoundInv'
  BY <1>2 DEF LoadPeak, Goto, BoundInv, Unrecorded, ShapeOK
<1>3. ASSUME NEW r \in Req, CasPeak(r) PROVE BoundInv'
  BY <1>3 DEF CasPeak, SwapPeak, Goto, BoundInv, Unrecorded, ShapeOK
<1>4. ASSUME NEW r \in Req, Step(r), ~Admit(r), ~LoadPeak(r), ~CasPeak(r) PROVE BoundInv'
  <2>1. PICK l : PlainMove(r, l)
    BY <1>4, PlainStep, ZenonT(60)
  <2>2. /\ UNCHANGED <<peakValue, peak>>
        /\ \A s \in Req : seen'[s] = seen[s] \/ (s = r /\ pc[r] = "set")
    BY <1>4, PlainStep
  <2>3. Unrecorded' = Unrecorded
    BY <2>1 DEF PlainMove, Unrecorded, ShapeOK
  <2>4. \A s \in Unrecorded : s \in Req /\ seen'[s] = seen[s]
    BY <2>2 DEF Unrecorded
  <2>5. \A s \in Req : pc'[s] = "cas" => pc[s] = "cas" /\ s \in Unrecorded
    BY <2>1, SMTT(30) DEF PlainMove, Unrecorded, ShapeOK
  <2>. QED
    BY <2>2, <2>3, <2>4, <2>5, Zenon DEF BoundInv
<1>5. CASE UNCHANGED vars
  BY <1>5 DEF vars, BoundInv, Unrecorded
<1>. QED
  BY <1>1, <1>2, <1>3, <1>4, <1>5 DEF Next, Finished

(* An admission adds a report that covers all holders of its Handler. *)
LEMMA AdmitCovers ==
  ASSUME ShapeOK, ShapeOK', SlotInv, PeakInv, NEW r \in Req, Admit(r), NEW h \in Handler
  PROVE  AllCovered(h)'
<1>1. /\ Recorded' = Recorded /\ Unrecorded' = Unrecorded \cup {r} /\ r \notin Unrecorded
      /\ r \notin Holders
  BY SMTT(30) DEF Admit, Goto, Recorded, Unrecorded, Holders, Holding, Reporting, Serving, ShapeOK
<1>2. /\ peakValue' = peakValue /\ seen'[r] = active[HandlerOf[r]] + 1
      /\ \A s \in Unrecorded : seen'[s] = seen[s]
  BY <1>1, PeakSets DEF Admit, ShapeOK
<1>3. Done(h)' = Done(h) /\ AllCovered(h)
  BY <1>1, Zenon DEF Done, Of, PeakInv
<1>4. CASE h # HandlerOf[r]
  <2>1. Late(h)' = Late(h)
    BY <1>1, <1>4, Zenon DEF Late, Of
  <2>2. peakValue' >= peakValue
    BY <1>2 DEF ShapeOK
  <2>. QED
    BY <1>2, <1>3, <2>1, <2>2, PeakSetsOf, ShrinkStep, Zenon
<1>5. CASE h = HandlerOf[r]
  <2> SUFFICES ASSUME NEW S \in SUBSET Late(h)' PROVE Covers(h, S)'
    BY Zenon DEF AllCovered
  <2>1. Late(h)' = Late(h) \cup {r}
    BY <1>1, <1>5, Zenon DEF Late, Of
  <2>2. CASE r \in S
    <3>1. HeldBy(h) \in SUBSET Req /\ r \notin HeldBy(h)
      BY <1>1, HeldFinite, Zenon DEF HeldBy
    <3>2. Done(h) \cup S \in SUBSET (HeldBy(h) \cup {r}) /\ HeldBy(h) \cup {r} \in SUBSET Req
      BY <2>1, <3>1, PeakSetsOf, Zenon
    <3>3. Cardinality(HeldBy(h) \cup {r}) = Cardinality(HeldBy(h)) + 1
      BY <3>1, CountJoin, Zenon
    <3>4. Cardinality(Done(h) \cup S) <= Cardinality(HeldBy(h) \cup {r})
      BY <3>2, Counting, Zenon
    <3>5. active[h] = Cardinality(HeldBy(h))
      BY Zenon DEF SlotInv, HandlerExact
    <3>. QED
      BY <1>2, <1>3, <1>5, <2>2, <3>3, <3>4, <3>5, Zenon DEF Covers
  <2>3. CASE r \notin S
    <3>1. S \in SUBSET Late(h)
      BY <2>1, <2>3, Zenon
    <3>2. \A s \in S : seen'[s] = seen[s]
      BY <1>2, <3>1, PeakSetsOf, Zenon
    <3>. QED
      BY <1>2, <1>3, <3>1, <3>2, Zenon DEF AllCovered, Covers
  <2>. QED  BY <2>2, <2>3, Zenon
<1>. QED  BY <1>4, <1>5, Zenon

(* A step that lets nobody join the recorded requests keeps them covered. *)
LEMMA QuietCovers ==
  ASSUME ShapeOK, ShapeOK', PeakInv, Recorded' \in SUBSET Recorded, Unrecorded' = Unrecorded,
         peakValue' = peakValue, \A s \in Unrecorded : seen'[s] = seen[s], NEW h \in Handler
  PROVE  AllCovered(h)'
<1>1. Done(h)' \in SUBSET Done(h) /\ Late(h)' = Late(h)
  BY Zenon DEF Done, Late, Of
<1>2. peakValue' >= peakValue
  BY DEF ShapeOK
<1>3. AllCovered(h) /\ \A s \in Late(h) : seen'[s] = seen[s]
  BY PeakSetsOf, Zenon DEF PeakInv
<1>. QED
  BY <1>1, <1>2, <1>3, ShrinkStep, Zenon

(* Steps keep every set of late reports covered. *)
LEMMA NextPeak ==
  ShapeOK /\ ShapeOK' /\ SlotInv /\ PeakInv /\ [Next]_vars => PeakInv'
<1> SUFFICES ASSUME ShapeOK, ShapeOK', SlotInv, PeakInv, [Next]_vars
             PROVE  \A h \in Handler : AllCovered(h)'
  BY NextBound DEF PeakInv, BoundInv
<1> DEFINE Goal == \A h \in Handler : AllCovered(h)'
<1>1. ASSUME NEW r \in Req, Admit(r) PROVE Goal
  BY <1>1, AdmitCovers, Zenon
<1>2. ASSUME NEW r \in Req, LoadPeak(r) PROVE Goal
  <2>1. CASE seen[r] <= peakValue
    <3>1. /\ r \in Unrecorded /\ Recorded' = Recorded \cup {r} /\ Unrecorded' = Unrecorded \ {r}
          /\ peakValue' = peakValue /\ \A s \in Unrecorded \ {r} : seen'[s] = seen[s]
      BY <1>2, <2>1, SMTT(30) DEF LoadPeak, Goto, Recorded, Unrecorded, Serving, ShapeOK
    <3>2. peakValue' >= peakValue /\ peakValue' >= seen[r]
      BY <2>1, <3>1 DEF ShapeOK
    <3>. QED
      BY <3>1, <3>2, JoinStep, Zenon DEF PeakInv
  <2>2. CASE ~(seen[r] <= peakValue)
    <3>1. /\ Recorded' = Recorded /\ Unrecorded' = Unrecorded
          /\ peakValue' = peakValue /\ seen' = seen
      BY <1>2, <2>2 DEF LoadPeak, Goto, Recorded, Unrecorded, Serving, ShapeOK
    <3>. QED
      BY <3>1, QuietCovers, Zenon
  <2>. QED  BY <2>1, <2>2, Zenon
<1>3. ASSUME NEW r \in Req, CasPeak(r) PROVE Goal
  <2>1. CASE peakValue = peak[r]
    <3>1. /\ r \in Unrecorded /\ Recorded' = Recorded \cup {r} /\ Unrecorded' = Unrecorded \ {r}
          /\ peakValue' = seen[r] /\ seen' = seen
      BY <1>3, <2>1, SMTT(30) DEF CasPeak, SwapPeak, Goto, Recorded, Unrecorded, Serving, ShapeOK
    <3>2. peakValue' >= peakValue /\ peakValue' >= seen[r]
      BY <1>3, <2>1, <3>1, SMTT(30) DEF PeakInv, CasPeak, ShapeOK
    <3>. QED
      BY <3>1, <3>2, JoinStep, ZenonT(60) DEF PeakInv
  <2>2. CASE peakValue # peak[r]
    <3>1. /\ Recorded' = Recorded /\ Unrecorded' = Unrecorded
          /\ peakValue' = peakValue /\ seen' = seen
      BY <1>3, <2>2 DEF CasPeak, SwapPeak, Goto, Recorded, Unrecorded, Serving, ShapeOK
    <3>. QED
      BY <3>1, QuietCovers, Zenon
  <2>. QED  BY <2>1, <2>2
<1>4. ASSUME NEW r \in Req, Step(r), ~Admit(r), ~LoadPeak(r), ~CasPeak(r) PROVE Goal
  <2>1. PICK l : PlainMove(r, l)
    BY <1>4, PlainStep, ZenonT(60)
  <2>2. Recorded' \in SUBSET Recorded /\ Unrecorded' = Unrecorded
    BY <2>1 DEF PlainMove, Holds, Recorded, Unrecorded, ShapeOK
  <2>3. peakValue' = peakValue /\ \A s \in Unrecorded : seen'[s] = seen[s]
    <3>1. \A s \in Req : seen'[s] = seen[s] \/ (s = r /\ pc[r] = "set")
      BY <1>4, PlainStep, ZenonT(60)
    <3>2. peakValue' = peakValue
      BY <1>4, PlainStep, ZenonT(60)
    <3>. QED
      BY <3>1, <3>2, Zenon DEF Unrecorded
  <2>. QED
    BY <2>2, <2>3, QuietCovers, Zenon
<1>5. CASE UNCHANGED vars
  <2>1. Recorded' = Recorded /\ Unrecorded' = Unrecorded /\ UNCHANGED <<peakValue, seen>>
    BY <1>5 DEF vars, Recorded, Unrecorded
  <2>. QED
    BY <2>1, QuietCovers, Zenon
<1>. QED
  BY <1>1, <1>2, <1>3, <1>4, <1>5, Zenon DEF Next, Finished

(* The mark activePeakValue covers the recorded associations of every single *)
(* Handler, in whatever order the admissions of all of them report.          *)
THEOREM PeakIsCovering == Spec => []PeakCovers
<1>1. Init => PeakInv
  <2> SUFFICES ASSUME Init PROVE PeakInv
    OBVIOUS
  <2>1. Recorded = {} /\ Unrecorded = {}
    BY DEF Init, Recorded, Unrecorded, Serving
  <2>2. \A h : \A S \in SUBSET Late(h) : Done(h) \cup S = {}
    BY <2>1, Zenon DEF Done, Late
  <2>3. Cardinality({}) <= peakValue
    BY FS_EmptySet DEF Init
  <2>4. \A h \in Handler : AllCovered(h)
    BY <2>2, <2>3, Zenon DEF AllCovered, Covers
  <2>. QED
    BY <2>1, <2>4, LimitAssumption DEF Init, PeakInv
<1>2. ShapeOK /\ PeakInv => PeakCovers
  <2> SUFFICES ASSUME ShapeOK, PeakInv PROVE PeakCovers
    OBVIOUS
  <2>1. ASSUME NEW h \in Handler PROVE peakValue >= Cardinality(Recorded \cap Of(h))
    <3>0. AllCovered(h) /\ {} \in SUBSET Late(h)
      BY <2>1, Zenon DEF PeakInv
    <3>1. Covers(h, {}) /\ Done(h) \cup {} = Recorded \cap Of(h)
      <4>1. Covers(h, {})
        BY <3>0, Zenon DEF AllCovered
      <4>2. Done(h) \cup {} = Recorded \cap Of(h)
        BY Zenon DEF Done
      <4>. QED  BY <4>1, <4>2, Zenon
    <3>2. Cardinality(Recorded \cap Of(h)) <= peakValue
      BY <3>1, Zenon DEF Covers
    <3>3. Cardinality(Recorded \cap Of(h)) \in Nat /\ peakValue \in Nat
      BY Counting DEF Recorded, ShapeOK
    <3>. QED  BY <3>2, <3>3
  <2>. QED
    BY <2>1 DEF PeakInv, PeakCovers
<1>. QED
  BY <1>1, <1>2, NextPeak, SlotSafety, PTL DEF Spec

===========================================================================
