--------------------------- MODULE UDPAssociation ---------------------------
(***************************************************************************)
(* One CONNECT-UDP association: connectUDPAssociation.run, the two pumps   *)
(* it starts, and the idle timer.                                          *)
(*                                                                         *)
(* Datagrams are numbered in the order a pump takes them from its source;  *)
(* a payload is abstracted to whether it can be forwarded.  The HTTP/3     *)
(* stream and the UDP socket are external: a read blocks while there is    *)
(* nothing to read and fails once its side is over, and a write may fail.  *)
(***************************************************************************)
EXTENDS Integers, Sequences

CONSTANTS
  MaxDatagrams,  \* datagrams that arrive in each direction
  IdleTimeout    \* a.idleTimeout

ASSUME BoundAssumption == MaxDatagrams \in Nat /\ IdleTimeout \in Nat \ {0}

VARIABLES
  run,        \* select, cancel, reset, close, drain, returned
  result,     \* run's result: nil, idle, canceled, closed
  completed,  \* results received
  results,    \* the channel of the pumps' results, capacity 2
  activity,   \* tokens in the channel activity, capacity 1
  idle,       \* time since the timer was last armed, up to IdleTimeout
  up,         \* pumpH3ToUDP: receive, decode, write, notify, ended
  down,       \* pumpUDPToH3: read, send, notify, check, ended
  taken,      \* per direction: datagrams taken from the source
  good,       \* history: datagrams of the up direction that decode
  tried,      \* history: per direction, the datagrams whose write or send was tried
  quiet,      \* history: time since a datagram was relayed, up to IdleTimeout
  ctx,        \* the context run derives: live, over
  parent,     \* the request's context: live, over
  stream,     \* the HTTP/3 stream: live, over (ended by the peer or by run)
  udp         \* the target socket: open, closed

runVars  == <<run, result, completed, ctx>>
pumpVars == <<up, down, taken, good, tried>>
envVars  == <<parent, stream, udp>>
vars == <<runVars, results, activity, idle, quiet, pumpVars, envVars>>

Directions == {"up", "down"}
Outcomes   == {"canceled", "closed"}

Init ==
  /\ run = "select" /\ result = "nil" /\ completed = 0
  /\ results = <<>> /\ activity = 0 /\ idle = 0 /\ quiet = 0
  /\ up = "receive" /\ down = "read"
  /\ taken = [d \in Directions |-> 0]
  /\ good = {}
  /\ tried = [d \in Directions |-> <<>>]
  /\ ctx = "live" /\ parent = "live" /\ stream = "live" /\ udp = "open"

-----------------------------------------------------------------------------
(* The pumps. *)

\* ctx is derived from parent.
CtxOver == ctx = "over" \/ parent = "over"

\* A pump ends with the context's error or with another one.
PumpError == IF CtxOver THEN Outcomes ELSE {"closed"}

EndUp(e) == up' = "ended" /\ results' = Append(results, e)

\* Mutant of EndDown: a pump ends without a word.
EndSilently(e) == down' = "ended" /\ UNCHANGED results

EndDown(e) == down' = "ended" /\ results' = Append(results, e)

\* ReceiveDatagram: a datagram that has arrived is returned even when the
\* context is over.
Receive ==
  /\ up = "receive" /\ taken["up"] < MaxDatagrams /\ stream = "live"
  /\ taken' = [taken EXCEPT !["up"] = @ + 1]
  /\ up' = "decode"
  /\ UNCHANGED <<runVars, results, activity, idle, quiet, down, good, tried, envVars>>

ReceiveFails ==
  /\ up = "receive" /\ (CtxOver \/ stream = "over")
  /\ \E e \in PumpError : EndUp(e)
  /\ UNCHANGED <<runVars, activity, idle, quiet, down, taken, good, tried, envVars>>

\* A malformed or oversized datagram is counted and skipped.
Decode ==
  /\ up = "decode"
  /\ \/ up' = "write" /\ good' = good \cup {taken["up"]}
     \/ up' = "receive" /\ good' = good
  /\ UNCHANGED <<runVars, results, activity, idle, quiet, down, taken, tried, envVars>>

\* Mutant of WriteFailed: a failed write is tried again.
RetryWrite(e) == UNCHANGED <<up, results>>

WriteFailed(e) == EndUp(e)

\* The write succeeds, or fails or is short: then it may or may not have been sent.
Write ==
  /\ up = "write"
  /\ tried' = [tried EXCEPT !["up"] = Append(@, taken["up"])]
  /\ \/ udp = "open" /\ up' = "notify" /\ quiet' = 0 /\ UNCHANGED results
     \/ WriteFailed("closed") /\ UNCHANGED quiet
  /\ UNCHANGED <<runVars, activity, idle, down, taken, good, envVars>>

\* Mutant of Signal: the token is not sent.
NoSignal == UNCHANGED activity

\* notifyConnectUDPActivity: never blocks.
Signal == activity' = 1

NotifyUp ==
  /\ up = "notify"
  /\ Signal
  /\ up' = "receive"
  /\ UNCHANGED <<runVars, results, idle, quiet, down, taken, good, tried, envVars>>

Read ==
  /\ down = "read" /\ taken["down"] < MaxDatagrams /\ udp = "open"
  /\ taken' = [taken EXCEPT !["down"] = @ + 1]
  /\ down' = "send"
  /\ UNCHANGED <<runVars, results, activity, idle, quiet, up, good, tried, envVars>>

\* The socket was closed, or the target refused an earlier datagram.
ReadFails ==
  /\ down = "read"
  /\ udp = "closed" \/ Len(tried["up"]) > 0
  /\ EndDown("closed")
  /\ UNCHANGED <<runVars, activity, idle, quiet, up, taken, good, tried, envVars>>

\* A datagram too large for the path is counted and dropped without a look at
\* the context.
Send ==
  /\ down = "send"
  /\ tried' = [tried EXCEPT !["down"] = Append(@, taken["down"])]
  /\ \/ stream = "live" /\ down' = "notify" /\ quiet' = 0 /\ UNCHANGED results
     \/ down' = "read" /\ UNCHANGED <<results, quiet>>
     \/ EndDown("closed") /\ UNCHANGED quiet
  /\ UNCHANGED <<runVars, activity, idle, up, taken, good, envVars>>

NotifyDown ==
  /\ down = "notify"
  /\ Signal
  /\ down' = "check"
  /\ UNCHANGED <<runVars, results, idle, quiet, up, taken, good, tried, envVars>>

CheckCtx ==
  /\ down = "check"
  /\ IF CtxOver THEN EndDown("canceled") ELSE down' = "read" /\ UNCHANGED results
  /\ UNCHANGED <<runVars, activity, idle, quiet, up, taken, good, tried, envVars>>

-----------------------------------------------------------------------------
(* run: the select loop, then the teardown. *)

Stop(r) == result' = r /\ run' = "cancel"

SelectResult ==
  /\ run = "select" /\ results # <<>>
  /\ Stop(Head(results))
  /\ results' = Tail(results)
  /\ completed' = completed + 1
  /\ UNCHANGED <<ctx, activity, idle, quiet, pumpVars, envVars>>

\* The timer is stopped and drained before it is armed again.
SelectActivity ==
  /\ run = "select" /\ activity = 1
  /\ activity' = 0
  /\ idle' = 0
  /\ UNCHANGED <<runVars, results, quiet, pumpVars, envVars>>

SelectTimer ==
  /\ run = "select" /\ idle >= IdleTimeout
  /\ Stop("idle")
  /\ UNCHANGED <<completed, ctx, results, activity, idle, quiet, pumpVars, envVars>>

SelectParent ==
  /\ run = "select" /\ parent = "over"
  /\ Stop("canceled")
  /\ UNCHANGED <<completed, ctx, results, activity, idle, quiet, pumpVars, envVars>>

SelectStream ==
  /\ run = "select" /\ stream = "over"
  /\ Stop("closed")
  /\ UNCHANGED <<completed, ctx, results, activity, idle, quiet, pumpVars, envVars>>

Cancel ==
  /\ run = "cancel"
  /\ ctx' = "over"
  /\ run' = "reset"
  /\ UNCHANGED <<result, completed, results, activity, idle, quiet, pumpVars, envVars>>

\* stream.CancelRead and stream.CancelWrite.
ResetStream ==
  /\ run = "reset"
  /\ stream' = "over"
  /\ run' = "close"
  /\ UNCHANGED <<result, completed, ctx, results, activity, idle, quiet, pumpVars, parent, udp>>

\* Mutant of CloseUDP: the socket is left to the deferred close of the caller.
SkipClose == UNCHANGED udp

CloseUDP == udp' = "closed"

CloseSocket ==
  /\ run = "close"
  /\ CloseUDP
  /\ run' = "drain"
  /\ UNCHANGED <<result, completed, ctx, results, activity, idle, quiet, pumpVars, parent, stream>>

Drain ==
  /\ run = "drain" /\ completed < 2 /\ results # <<>>
  /\ results' = Tail(results)
  /\ completed' = completed + 1
  /\ UNCHANGED <<run, result, ctx, activity, idle, quiet, pumpVars, envVars>>

\* Mutant of AllDrained: one result is enough.
OneDrained == completed >= 1

AllDrained == completed >= 2

CloseStream ==
  /\ run = "drain" /\ AllDrained
  /\ run' = "returned"
  /\ UNCHANGED <<result, completed, ctx, results, activity, idle, quiet, pumpVars, envVars>>

-----------------------------------------------------------------------------
(* The environment. *)

CancelRequest ==
  /\ parent = "live" /\ run # "returned"
  /\ parent' = "over"
  /\ UNCHANGED <<runVars, results, activity, idle, quiet, pumpVars, stream, udp>>

PeerEndsStream ==
  /\ stream = "live"
  /\ stream' = "over"
  /\ UNCHANGED <<runVars, results, activity, idle, quiet, pumpVars, parent, udp>>

Advance(clock) == IF clock < IdleTimeout THEN clock + 1 ELSE clock

Tick ==
  /\ run = "select"
  /\ idle' = Advance(idle) /\ quiet' = Advance(quiet)
  /\ <<idle, quiet>>' # <<idle, quiet>>
  /\ UNCHANGED <<runVars, results, activity, pumpVars, envVars>>

Finished == run = "returned" /\ UNCHANGED vars

Run ==
  \/ SelectResult \/ SelectActivity \/ SelectTimer \/ SelectParent \/ SelectStream
  \/ Cancel \/ ResetStream \/ CloseSocket \/ Drain \/ CloseStream

Up   == Receive \/ ReceiveFails \/ Decode \/ Write \/ NotifyUp
Down == Read \/ ReadFails \/ Send \/ NotifyDown \/ CheckCtx

Next == Run \/ Up \/ Down \/ CancelRequest \/ PeerEndsStream \/ Tick \/ Finished

Spec == Init /\ [][Next]_vars

\* The runtime runs every goroutine that is not blocked, and time passes.
\* Nothing is assumed of the client or of the target: they need never send,
\* cancel or close anything, but they do not send for ever (MaxDatagrams).
FairSpec ==
  Spec /\ WF_vars(Run) /\ WF_vars(Tick)
       /\ WF_vars(ReceiveFails \/ Decode \/ Write \/ NotifyUp)
       /\ WF_vars(udp = "closed" /\ ReadFails) /\ WF_vars(Send \/ NotifyDown \/ CheckCtx)

-----------------------------------------------------------------------------
(* Properties. *)

TypeOK ==
  /\ run \in {"select", "cancel", "reset", "close", "drain", "returned"}
  /\ result \in {"nil", "idle"} \cup Outcomes
  /\ completed \in 0..2
  /\ results \in Seq(Outcomes) /\ Len(results) <= 2
  /\ activity \in 0..1
  /\ idle \in 0..IdleTimeout /\ quiet \in 0..IdleTimeout
  /\ up \in {"receive", "decode", "write", "notify", "ended"}
  /\ down \in {"read", "send", "notify", "check", "ended"}
  /\ taken \in [Directions -> 0..MaxDatagrams]
  /\ good \subseteq 1..MaxDatagrams
  /\ tried \in [Directions -> Seq(1..MaxDatagrams)]
  /\ ctx \in {"live", "over"} /\ parent \in {"live", "over"}
  /\ stream \in {"live", "over"} /\ udp \in {"open", "closed"}

Increasing(s) == \A i, j \in DOMAIN s : i < j => s[i] < s[j]

(* "a failed or ambiguous send is never replayed" (native_udp_contract.go):  *)
(* each direction tries every datagram at most once and in the order of      *)
(* arrival, and upstream only those that decode, none of them skipped.       *)
NeverReplayed ==
  /\ \A d \in Directions : Increasing(tried[d])
  /\ {tried["up"][i] : i \in DOMAIN tried["up"]} =
       {g \in good : g < taken["up"] \/ up # "write"}

Ended(pump) == IF pump = "ended" THEN 1 ELSE 0

(* Each pump reports its end exactly once, so the drain neither blocks a     *)
(* pump on the channel nor waits for a result that never comes.              *)
ResultsBalance == completed + Len(results) = Ended(up) + Ended(down)

(* run returns only after both pumps have ended and the socket, the stream   *)
(* and the context are over: no goroutine touches the socket that the        *)
(* handler then closes again, or the slot it then releases.                  *)
ReturnsClean ==
  run = "returned" =>
    /\ up = "ended" /\ down = "ended" /\ results = <<>>
    /\ udp = "closed" /\ stream = "over" /\ ctx = "over" /\ result # "nil"

(* Idle expiry is justified: run gives up for idleness only when no datagram *)
(* was relayed for IdleTimeout, or a relayed one has not been noticed yet    *)
(* (its token is still in the channel or its pump has not sent it).          *)
IdleJustified ==
  [][result' = "idle" /\ result # "idle" =>
       quiet >= IdleTimeout \/ activity = 1 \/ up = "notify" \/ down = "notify"]_vars

(* Whatever ends it, and even if nobody ever says anything, the association  *)
(* ends and run returns.                                                     *)
Terminates == <>(run = "returned")
=============================================================================
