------------------------ MODULE UDPAssociationProofs ------------------------
(***************************************************************************)
(* What one CONNECT-UDP association guarantees for any number of datagrams *)
(* and any idle timeout.                                                   *)
(***************************************************************************)
EXTENDS UDPAssociation, TLAPS

\* What of the state has which type.  The results are bounded by ResultsBalance.
Types ==
  /\ run \in {"select", "cancel", "reset", "close", "drain", "returned"}
  /\ result \in {"nil", "idle"} \cup Outcomes
  /\ completed \in Nat /\ results \in Seq(Outcomes)
  /\ activity \in 0..1
  /\ idle \in 0..IdleTimeout /\ quiet \in 0..IdleTimeout
  /\ up \in {"receive", "decode", "write", "notify", "ended"}
  /\ down \in {"read", "send", "notify", "check", "ended"}
  /\ ctx \in {"live", "over"} /\ parent \in {"live", "over"}
  /\ stream \in {"live", "over"} /\ udp \in {"open", "closed"}

\* How far the teardown has come.
Teardown ==
  /\ run # "select" => result # "nil"
  /\ run \in {"reset", "close", "drain", "returned"} => ctx = "over"
  /\ run \in {"close", "drain", "returned"} => stream = "over"
  /\ run \in {"drain", "returned"} => udp = "closed"
  /\ run = "returned" => completed >= 2
  /\ run = "select" => completed = 0

\* A relayed datagram that run has not noticed, or the timer counts from no
\* later than the last one.
IdleBehind == activity = 1 \/ up = "notify" \/ down = "notify" \/ idle <= quiet

IInv == Types /\ Teardown /\ ResultsBalance /\ IdleBehind

LEMMA Initially == Init => IInv
<1>. SUFFICES ASSUME Init PROVE IInv
  OBVIOUS
<1>1. Types
  BY BoundAssumption DEF Init, Types, Outcomes
<1>2. Teardown /\ ResultsBalance /\ IdleBehind
  BY DEF Init, Teardown, ResultsBalance, IdleBehind, Ended
<1>. QED BY <1>1, <1>2 DEF IInv

LEMMA UpStep == IInv /\ Up => IInv'
<1>. SUFFICES ASSUME IInv PROVE Up => IInv'
  OBVIOUS
<1>. USE BoundAssumption DEF IInv, Types, Teardown, ResultsBalance, IdleBehind, Ended, Outcomes, runVars, pumpVars, envVars
<1>1. CASE Receive
  BY <1>1 DEF Receive
<1>2. CASE ReceiveFails
  BY <1>2 DEF ReceiveFails, EndUp, PumpError, CtxOver
<1>3. CASE Decode
  BY <1>3 DEF Decode
<1>4. CASE Write
  BY <1>4, SMTT(30) DEF Write, WriteFailed, EndUp
<1>5. CASE NotifyUp
  BY <1>5 DEF NotifyUp, Signal
<1>. QED BY <1>1, <1>2, <1>3, <1>4, <1>5 DEF Up

LEMMA DownStep == IInv /\ Down => IInv'
<1>. SUFFICES ASSUME IInv PROVE Down => IInv'
  OBVIOUS
<1>. USE BoundAssumption DEF IInv, Types, Teardown, ResultsBalance, IdleBehind, Ended, Outcomes, runVars, pumpVars, envVars
<1>1. CASE Read
  BY <1>1 DEF Read
<1>2. CASE ReadFails
  BY <1>2 DEF ReadFails, EndDown
<1>3. CASE Send
  <2>1. CASE stream = "live" /\ down' = "notify" /\ quiet' = 0 /\ UNCHANGED results
    BY <1>3, <2>1, SMTT(30) DEF Send
  <2>2. CASE down' = "read" /\ UNCHANGED <<results, quiet>>
    BY <1>3, <2>2, SMTT(30) DEF Send
  <2>3. CASE EndDown("closed") /\ UNCHANGED quiet
    BY <1>3, <2>3, SMTT(30) DEF Send, EndDown
  <2>. QED BY <1>3, <2>1, <2>2, <2>3, Zenon DEF Send
<1>4. CASE NotifyDown
  BY <1>4 DEF NotifyDown, Signal
<1>5. CASE CheckCtx
  BY <1>5, SMTT(30) DEF CheckCtx, EndDown
<1>. QED BY <1>1, <1>2, <1>3, <1>4, <1>5 DEF Down

LEMMA RunStep == IInv /\ Run => IInv'
<1>. SUFFICES ASSUME IInv PROVE Run => IInv'
  OBVIOUS
<1>. USE BoundAssumption DEF IInv, Types, Teardown, ResultsBalance, IdleBehind, Ended, Outcomes, runVars, pumpVars, envVars
<1>1. CASE SelectResult
  BY <1>1 DEF SelectResult, Stop
<1>2. CASE SelectActivity
  BY <1>2 DEF SelectActivity
<1>3. CASE SelectTimer
  BY <1>3 DEF SelectTimer, Stop
<1>4. CASE SelectParent
  BY <1>4 DEF SelectParent, Stop
<1>5. CASE SelectStream
  BY <1>5 DEF SelectStream, Stop
<1>6. CASE Cancel
  BY <1>6 DEF Cancel
<1>7. CASE ResetStream
  BY <1>7 DEF ResetStream
<1>8. CASE CloseSocket
  BY <1>8 DEF CloseSocket, CloseUDP
<1>9. CASE Drain
  BY <1>9 DEF Drain
<1>10. CASE CloseStream
  BY <1>10 DEF CloseStream, AllDrained
<1>. QED BY <1>1, <1>2, <1>3, <1>4, <1>5, <1>6, <1>7, <1>8, <1>9, <1>10, Zenon DEF Run

LEMMA OtherStep == IInv /\ (CancelRequest \/ PeerEndsStream \/ Tick \/ UNCHANGED vars) => IInv'
<1>. SUFFICES ASSUME IInv PROVE CancelRequest \/ PeerEndsStream \/ Tick \/ UNCHANGED vars => IInv'
  OBVIOUS
<1>. USE BoundAssumption DEF IInv, Types, Teardown, ResultsBalance, IdleBehind, Ended, Outcomes, runVars, pumpVars, envVars
<1>1. CASE CancelRequest
  BY <1>1 DEF CancelRequest
<1>2. CASE PeerEndsStream
  BY <1>2 DEF PeerEndsStream
<1>3. CASE Tick
  BY <1>3 DEF Tick, Advance
<1>4. CASE UNCHANGED vars
  BY <1>4 DEF vars
<1>. QED BY <1>1, <1>2, <1>3, <1>4

LEMMA Inductive == IInv /\ [Next]_vars => IInv'
BY UpStep, DownStep, RunStep, OtherStep DEF Next, Finished

LEMMA Invariant == Spec => []IInv
BY Initially, Inductive, PTL DEF Spec

(* The pumps and run never lose or repeat a result: what was received and    *)
(* what is in the channel are the pumps that have ended, so the channel of   *)
(* two never blocks a pump and the drain always gets its second result.      *)
THEOREM ResultsAreBalanced == Spec => []ResultsBalance
<1>1. IInv => ResultsBalance
  BY DEF IInv
<1>. QED BY <1>1, Invariant, PTL

(* When run returns, both pumps have ended, their results are received and   *)
(* the socket, the stream and the context are over.                          *)
THEOREM ReturnIsClean == Spec => []ReturnsClean
<1>1. IInv => ReturnsClean
  <2>. SUFFICES ASSUME IInv, run = "returned" PROVE ReturnsClean
    BY DEF ReturnsClean
  <2>1. Len(results) = 0 /\ up = "ended" /\ down = "ended"
    BY DEF IInv, Types, Teardown, ResultsBalance, Ended
  <2>2. results = <<>>
    BY <2>1 DEF IInv, Types
  <2>. QED BY <2>1, <2>2 DEF ReturnsClean, IInv, Teardown
<1>. QED BY <1>1, Invariant, PTL

(* run ends an association for idleness only if nothing was relayed for      *)
(* IdleTimeout, or a relayed datagram's token has not reached run.           *)
THEOREM IdlenessJustified == Spec => IdleJustified
<1>1. IInv /\ [Next]_vars =>
        [result' = "idle" /\ result # "idle" =>
           quiet >= IdleTimeout \/ activity = 1 \/ up = "notify" \/ down = "notify"]_vars
  <2>. SUFFICES ASSUME IInv, Next, result' = "idle", result # "idle"
                PROVE  quiet >= IdleTimeout \/ activity = 1 \/ up = "notify" \/ down = "notify"
    OBVIOUS
  <2>1. CASE SelectTimer
    BY <2>1, BoundAssumption DEF SelectTimer, IInv, Types, IdleBehind
  <2>2. CASE SelectResult
    <3>1. result' \in Outcomes
      BY <2>2 DEF SelectResult, Stop, IInv, Types
    <3>. QED BY <3>1 DEF Outcomes
  <2>3. CASE SelectParent \/ SelectStream
    BY <2>3, ZenonT(60) DEF SelectParent, SelectStream, Stop
  <2>4. CASE Up \/ Down \/ CancelRequest \/ PeerEndsStream \/ Tick \/ Finished
    BY <2>4 DEF Up, Down, Receive, ReceiveFails, Decode, Write, NotifyUp, Read, ReadFails, Send,
       NotifyDown, CheckCtx, CancelRequest, PeerEndsStream, Tick, Finished, vars, runVars
  <2>5. CASE SelectActivity \/ Cancel \/ ResetStream \/ CloseSocket \/ Drain \/ CloseStream
    BY <2>5 DEF SelectActivity, Cancel, ResetStream, CloseSocket, Drain, CloseStream, runVars
  <2>. QED BY <2>1, <2>2, <2>3, <2>4, <2>5 DEF Next, Run
<1>. QED BY <1>1, Invariant, PTL DEF Spec, IdleJustified

-----------------------------------------------------------------------------
(* Datagrams are relayed in order, and at most once. *)

LEMMA Element == ASSUME NEW S, NEW s \in Seq(S), NEW i \in 1..Len(s) PROVE s[i] \in S
OBVIOUS

LEMMA Elements ==
  ASSUME NEW s \in Seq(1..MaxDatagrams) PROVE \A i \in DOMAIN s : s[i] \in Nat
<1>. SUFFICES ASSUME NEW i \in 1..Len(s) PROVE s[i] \in 1..MaxDatagrams
  OBVIOUS
<1>. QED BY Element, Zenon

LEMMA AppendRange ==
  ASSUME NEW s \in Seq(Nat), NEW x \in Nat
  PROVE  {Append(s, x)[i] : i \in DOMAIN Append(s, x)} = {s[i] : i \in DOMAIN s} \cup {x}
<1>. DEFINE t == Append(s, x)
<1>1. DOMAIN t = 1..(Len(s) + 1) /\ DOMAIN s = 1..Len(s) /\ Len(s) \in Nat
  OBVIOUS
<1>2. (\A i \in 1..Len(s) : t[i] = s[i]) /\ t[Len(s) + 1] = x
  OBVIOUS
<1>. HIDE DEF t
<1>3. {t[i] : i \in 1..(Len(s) + 1)} = {s[i] : i \in 1..Len(s)} \cup {x}
  <2>1. 1..(Len(s) + 1) = (1..Len(s)) \cup {Len(s) + 1}
    BY <1>1
  <2>. QED BY <1>2, <2>1, ZenonT(60)
<1>. QED BY <1>1, <1>3, Zenon DEF t

LEMMA AppendIncreasing ==
  ASSUME NEW s \in Seq(Nat), NEW x \in Nat, Increasing(s), \A i \in DOMAIN s : s[i] < x
  PROVE  Increasing(Append(s, x)) /\ \A i \in DOMAIN Append(s, x) : Append(s, x)[i] <= x
<1>1. DOMAIN Append(s, x) = 1..(Len(s) + 1) /\ DOMAIN s = 1..Len(s) /\ Len(s) \in Nat
  OBVIOUS
<1>2. (\A i \in 1..Len(s) : Append(s, x)[i] = s[i] /\ s[i] \in Nat) /\ Append(s, x)[Len(s) + 1] = x
  OBVIOUS
<1>. QED BY <1>1, <1>2, SMTT(30) DEF Increasing

\* What has been taken is numbered, tried only after, and once.
Counts ==
  /\ taken \in [Directions -> 0..MaxDatagrams]
  /\ tried \in [Directions -> Seq(1..MaxDatagrams)]
  /\ good \subseteq 1..taken["up"]

TriedUp == {tried["up"][i] : i \in DOMAIN tried["up"]}

Order ==
  /\ Counts
  /\ \A d \in Directions : \A i \in DOMAIN tried[d] : tried[d][i] <= taken[d]
  /\ \A d \in Directions : Increasing(tried[d])
  /\ up \in {"decode", "write"} =>
       taken["up"] > 0 /\ \A i \in DOMAIN tried["up"] : tried["up"][i] < taken["up"]
  /\ down = "send" =>
       taken["down"] > 0 /\ \A i \in DOMAIN tried["down"] : tried["down"][i] < taken["down"]
  /\ up = "decode" => taken["up"] \notin good
  /\ IF up = "write" THEN taken["up"] \in good /\ TriedUp = good \ {taken["up"]}
                     ELSE TriedUp = good

LEMMA OrderInitially == Init => Order
BY BoundAssumption, SMTT(30) DEF Init, Order, Counts, TriedUp, Increasing, Directions

LEMMA ReceiveOrder == Order /\ Receive => Order'
<1>. SUFFICES ASSUME Order, Receive PROVE Order'
  OBVIOUS
<1>1. /\ taken \in [Directions -> Nat] /\ taken' \in [Directions -> 0..MaxDatagrams]
      /\ taken'["up"] = taken["up"] + 1 /\ taken'["down"] = taken["down"]
  BY BoundAssumption DEF Order, Counts, Directions, Receive
<1>2. tried' = tried /\ good' = good /\ down' = down /\ TriedUp' = TriedUp
  BY DEF Receive, TriedUp
<1>3. tried \in [Directions -> Seq(1..MaxDatagrams)] /\ Counts'
  BY <1>1, <1>2 DEF Order, Counts, Directions
<1>4. \A i \in DOMAIN tried["up"] : tried["up"][i] \in Nat /\ tried["up"][i] <= taken["up"]
  <2>1. tried["up"] \in Seq(1..MaxDatagrams)
    BY <1>3 DEF Directions
  <2>2. \A i \in DOMAIN tried["up"] : tried["up"][i] \in Nat
    BY <2>1, Elements
  <2>3. \A i \in DOMAIN tried["up"] : tried["up"][i] <= taken["up"]
    BY DEF Order, Directions
  <2>. QED BY <2>2, <2>3
<1>5. \A i \in DOMAIN tried["up"] : tried["up"][i] < taken'["up"]
  BY <1>1, <1>4 DEF Directions
<1>6. \A e \in Directions : Increasing(tried'[e]) /\ \A i \in DOMAIN tried'[e] : tried'[e][i] <= taken'[e]
  BY <1>1, <1>2, <1>4, <1>5, SMTT(30) DEF Order, Directions
<1>. QED BY <1>1, <1>2, <1>3, <1>5, <1>6 DEF Order, Counts, Directions, Receive

LEMMA DecodeOrder == Order /\ Decode => Order'
BY BoundAssumption, SMTT(30) DEF Order, Counts, TriedUp, Increasing, Directions, Decode

LEMMA WriteOrder == Order /\ Write => Order'
<1>. SUFFICES ASSUME Order, Write PROVE Order'
  OBVIOUS
<1>. DEFINE s == tried["up"]
            x == taken["up"]
<1>1. s \in Seq(1..MaxDatagrams) /\ s \in Seq(Nat) /\ x \in 1..MaxDatagrams /\ Increasing(s)
  BY BoundAssumption DEF Order, Counts, Directions, Write
<1>2. \A i \in DOMAIN s : s[i] < x
  BY DEF Order, Write
<1>3. /\ tried' \in [Directions -> Seq(1..MaxDatagrams)]
      /\ tried'["up"] = Append(s, x) /\ tried'["down"] = tried["down"]
      /\ taken' = taken /\ good' = good /\ down' = down /\ up' \in {"notify", "ended"}
  BY <1>1 DEF Order, Counts, Directions, Write, WriteFailed, EndUp
<1>4. TriedUp' = TriedUp \cup {x}
  <2>1. {Append(s, x)[i] : i \in DOMAIN Append(s, x)} = {s[i] : i \in DOMAIN s} \cup {x}
    <3>1. x \in Nat
      BY <1>1, BoundAssumption
    <3>. HIDE DEF s, x
    <3>. QED BY <1>1, <3>1, AppendRange, Zenon
  <2>. QED BY <1>3, <2>1, Zenon DEF TriedUp
<1>5. Increasing(Append(s, x)) /\ \A i \in DOMAIN Append(s, x) : Append(s, x)[i] <= x
  <2>1. x \in Nat
    BY <1>1, BoundAssumption
  <2>. HIDE DEF s, x
  <2>. QED BY <1>1, <1>2, <2>1, AppendIncreasing
<1>6. TriedUp' = good
  BY <1>4 DEF Order, Write
<1>7. Counts'
  BY <1>3, SMTT(30) DEF Order, Counts
<1>8. \A d \in Directions : Increasing(tried'[d]) /\ \A i \in DOMAIN tried'[d] : tried'[d][i] <= taken'[d]
  BY <1>3, <1>5, Zenon DEF Order, Directions
<1>. QED BY <1>3, <1>6, <1>7, <1>8 DEF Order, Increasing

LEMMA ReadOrder == Order /\ Read => Order'
<1>. SUFFICES ASSUME Order, Read PROVE Order'
  OBVIOUS
<1>1. /\ taken \in [Directions -> Nat] /\ taken' \in [Directions -> 0..MaxDatagrams]
      /\ taken'["down"] = taken["down"] + 1 /\ taken'["up"] = taken["up"]
  BY BoundAssumption DEF Order, Counts, Directions, Read
<1>2. tried' = tried /\ good' = good /\ up' = up /\ TriedUp' = TriedUp
  BY DEF Read, TriedUp
<1>3. tried \in [Directions -> Seq(1..MaxDatagrams)] /\ Counts'
  BY <1>1, <1>2 DEF Order, Counts, Directions
<1>4. \A i \in DOMAIN tried["down"] : tried["down"][i] \in Nat /\ tried["down"][i] <= taken["down"]
  <2>1. tried["down"] \in Seq(1..MaxDatagrams)
    BY <1>3 DEF Directions
  <2>2. \A i \in DOMAIN tried["down"] : tried["down"][i] \in Nat
    BY <2>1, Elements
  <2>3. \A i \in DOMAIN tried["down"] : tried["down"][i] <= taken["down"]
    BY DEF Order, Directions
  <2>. QED BY <2>2, <2>3
<1>5. \A i \in DOMAIN tried["down"] : tried["down"][i] < taken'["down"]
  BY <1>1, <1>4, SMTT(30) DEF Directions
<1>6. \A e \in Directions : Increasing(tried'[e]) /\ \A i \in DOMAIN tried'[e] : tried'[e][i] <= taken'[e]
  BY <1>1, <1>2, <1>4, <1>5, SMTT(30) DEF Order, Directions
<1>. QED BY <1>1, <1>2, <1>3, <1>5, <1>6 DEF Order, Counts, Directions, Read

LEMMA SendOrder == Order /\ Send => Order'
<1>. SUFFICES ASSUME Order, Send PROVE Order'
  OBVIOUS
<1>. DEFINE s == tried["down"]
            x == taken["down"]
<1>1. s \in Seq(1..MaxDatagrams) /\ s \in Seq(Nat) /\ x \in 1..MaxDatagrams /\ Increasing(s)
  BY BoundAssumption DEF Order, Counts, Directions, Send
<1>2. \A i \in DOMAIN s : s[i] < x
  BY DEF Order, Send
<1>3. /\ tried' \in [Directions -> Seq(1..MaxDatagrams)]
      /\ tried'["down"] = Append(s, x) /\ tried'["up"] = tried["up"]
      /\ taken' = taken /\ good' = good /\ up' = up /\ down' # "send"
  BY <1>1 DEF Order, Counts, Directions, Send, EndDown
<1>4. Increasing(Append(s, x)) /\ \A i \in DOMAIN Append(s, x) : Append(s, x)[i] <= x
  <2>1. x \in Nat
    BY <1>1, BoundAssumption, SMTT(30)
  <2>. HIDE DEF s, x
  <2>. QED BY <1>1, <1>2, <2>1, AppendIncreasing
<1>5. Counts' /\ TriedUp' = TriedUp
  BY <1>3 DEF Order, Counts, TriedUp
<1>6. \A d \in Directions : Increasing(tried'[d]) /\ \A i \in DOMAIN tried'[d] : tried'[d][i] <= taken'[d]
  BY <1>3, <1>4, Zenon DEF Order, Directions
<1>. QED BY <1>3, <1>5, <1>6 DEF Order, Increasing

LEMMA OrderInductive == Order /\ [Next]_vars => Order'
<1>. SUFFICES ASSUME Order, [Next]_vars PROVE Order'
  BY SMTT(30)
<1>. DEFINE Kept == /\ taken' = taken /\ tried' = tried /\ good' = good
                    /\ up' = up \/ (up \notin {"decode", "write"} /\ up' \notin {"decode", "write"})
                    /\ down' = down \/ down' # "send"
<1>1. Kept => Order'
  BY DEF Order, Counts, TriedUp, Increasing
<1>2. CASE Up
  <2>1. CASE ReceiveFails \/ NotifyUp
    <3>1. Kept
      BY <2>1 DEF ReceiveFails, NotifyUp, EndUp
    <3>. QED BY <3>1, <1>1
  <2>. QED BY <1>2, <2>1, ReceiveOrder, DecodeOrder, WriteOrder DEF Up
<1>3. CASE Down
  <2>1. CASE ReadFails \/ NotifyDown \/ CheckCtx
    <3>1. Kept
      BY <2>1 DEF ReadFails, NotifyDown, CheckCtx, EndDown
    <3>. QED BY <3>1, <1>1
  <2>. QED BY <1>3, <2>1, ReadOrder, SendOrder DEF Down
<1>4. CASE Run \/ CancelRequest \/ PeerEndsStream \/ Tick \/ UNCHANGED vars
  <2>1. UNCHANGED pumpVars
    BY <1>4 DEF Run, SelectResult, SelectActivity, SelectTimer, SelectParent, SelectStream, Cancel,
       ResetStream, CloseSocket, Drain, CloseStream, CancelRequest, PeerEndsStream, Tick, vars
  <2>2. Kept
    BY <2>1 DEF pumpVars
  <2>. QED BY <1>1, <2>2, SMTT(30)
<1>. QED BY <1>2, <1>3, <1>4 DEF Next, Finished

(* "a failed or ambiguous send is never replayed": in each direction the     *)
(* datagrams are tried at most once and in order, and towards the target     *)
(* exactly those that decode, for any number of datagrams.                   *)
THEOREM ReplayNever == Spec => []NeverReplayed
<1>1. Order => NeverReplayed
  <2>. SUFFICES ASSUME Order PROVE NeverReplayed
    OBVIOUS
  <2>1. \A g \in good : g <= taken["up"] /\ g \in Int /\ taken["up"] \in Int
    BY BoundAssumption DEF Order, Counts, Directions
  <2>2. TriedUp = {g \in good : g < taken["up"] \/ up # "write"}
    BY <2>1 DEF Order
  <2>. QED BY <2>2 DEF NeverReplayed, Order, TriedUp
<1>. QED BY <1>1, OrderInitially, OrderInductive, PTL DEF Spec

(* The state keeps its type; in particular the channel of results never      *)
(* holds more than its capacity of two.                                      *)
THEOREM TypeCorrect == Spec => []TypeOK
<1>1. IInv /\ Order => TypeOK
  <2>. SUFFICES ASSUME IInv, Order PROVE TypeOK
    OBVIOUS
  <2>1. completed \in 0..2 /\ Len(results) <= 2
    BY DEF IInv, Types, ResultsBalance, Ended
  <2>2. good \subseteq 1..MaxDatagrams
    BY BoundAssumption DEF Order, Counts, Directions
  <2>. QED BY <2>1, <2>2 DEF TypeOK, IInv, Types, Order, Counts
<1>. QED BY <1>1, Invariant, OrderInitially, OrderInductive, PTL DEF Spec
=============================================================================
