------------------------------ MODULE DialRace ------------------------------
(***************************************************************************)
(* The TCP dial race of connect_dial_incremental.go: one call of           *)
(* dialTCPIncremental, with the goroutines it starts.                      *)
(*                                                                         *)
(*   - two lookups (one per address family) admit the approved addresses   *)
(*     of their answer into the feed and pulse its wake channel;           *)
(*   - the closer marks the feed closed after both lookups;                *)
(*   - the scheduler (the caller's goroutine) pops candidates, starts an   *)
(*     attempt for each inside the stagger window, and selects on the      *)
(*     context, the attempts' results, the wake channel and its timer;     *)
(*   - every attempt dials and hands its connection or error over an       *)
(*     unbuffered channel, or closes the connection when the race is over. *)
(*                                                                         *)
(* A candidate is named by the lookup that returned it and its position in *)
(* that lookup's answer, so a queue is a set of positions whose head is    *)
(* its least element.  Time is discrete; a clock counts from the event it  *)
(* measures and stops at the only value it is compared with, so no bound   *)
(* on time is needed.                                                      *)
(***************************************************************************)
EXTENDS Integers, FiniteSets, Sequences

CONSTANTS
  Addr4,           \* addresses whose IP has a 4-byte form (ip.To4() != nil)
  Addr6,           \* the other addresses
  Allowed,         \* the addresses hostIsAllowed admits for this target
  Networks,        \* the networks callers ask for
  Answers,         \* the address lists a lookup may return
  MaxAnswer,       \* length of the longest of them
  Failures,        \* the errors lookups and dials report of their own
  FallbackDelay,   \* tcpFallbackDelay, 250 ms
  MinimumDelay,    \* tcpMinimumDelay, 100 ms
  AttemptTimeout,  \* tcpAttemptTimeout, 5 s
  DialTimeout,     \* deadline of the context the race runs under
  StaticSize       \* the numbers of addresses of a family in a static set

Addr == Addr4 \cup Addr6

ASSUME AddrAssumption == Addr4 \cap Addr6 = {} /\ Allowed \subseteq Addr
ASSUME NetworkAssumption == Networks \subseteq {"tcp", "tcp4", "tcp6"}
ASSUME AnswerAssumption ==
  /\ MaxAnswer \in Nat
  /\ Answers \subseteq Seq(Addr)
  /\ \A s \in Answers : Len(s) <= MaxAnswer
ASSUME StaticAssumption == StaticSize \subseteq Nat
ASSUME FailureAssumption == Failures \subseteq {"timeout", "other"}
ASSUME DelayAssumption ==
  /\ FallbackDelay \in Nat /\ MinimumDelay \in Nat /\ AttemptTimeout \in Nat
  /\ DialTimeout \in Nat /\ 0 < MinimumDelay /\ MinimumDelay < FallbackDelay

VARIABLES
  network,      \* the caller's network, fixed
  lookup,       \* per family: querying, pulsing (feed updated, wake not yet sent), done
  answer,       \* per family: the answer admitted, <<>> before and after a failure
  lookupErr,    \* feed.errV4, feed.errV6
  queue,        \* feed.v4, feed.v6: positions not yet popped
  passedACL,    \* feed.passedACL
  closer,       \* waiting, pulsing (feed.closed set, wake not yet sent), done
  wake,         \* tokens in feed.wake, which holds at most one
  attempt,      \* per candidate: idle, dialing, handoff (in its select), exited
  attemptErr,   \* the error in the attempt's result, "nil" with a connection
  age,          \* time since the attempt started dialing, 0 once the dial returned
  open,         \* candidates whose connection is open
  pc,           \* scheduler: loop (top of the for), select, done
  started, pending, lastFamily, lastErr,
  window,       \* nextReadyAt - lastStart; 0 while nextReadyAt is zero
  sinceStart,   \* time since lastStart
  timer,        \* armed or stopped; an armed timer fires at nextReadyAt
  failedSince,  \* history: a failure was received since the last start
  ctxErr,       \* ctx.Err() of the race's context
  elapsed,      \* time since the call
  ret, retErr,  \* what the call returned, and the cause of the error
  returned      \* history: candidates whose connection the caller received

feedVars    == <<lookup, answer, lookupErr, queue, passedACL, closer>>
attemptVars == <<attempt, attemptErr, open>>
schedVars   == <<started, pending, lastFamily, lastErr, window, failedSince>>
clockVars   == <<age, sinceStart, elapsed>>
callVars    == <<pc, ret, retErr, returned, ctxErr, timer>>
vars == <<network, feedVars, wake, attemptVars, schedVars, clockVars, callVars>>

Families == {"ip4", "ip6"}
Cand     == Families \X (1..MaxAnswer)
Errors   == {"timeout", "canceled", "other"}

AddrOf(c) == answer[c[1]][c[2]]
FamilyOf(a) == IF a \in Addr4 THEN "ip4" ELSE "ip6"

Init ==
  /\ network \in Networks
  /\ lookup = [f \in Families |-> "querying"]
  /\ answer = [f \in Families |-> <<>>]
  /\ lookupErr = [f \in Families |-> "nil"]
  /\ queue = [f \in Families |-> {}]
  /\ passedACL = 0
  /\ closer = "waiting"
  /\ wake = 0
  /\ attempt = [c \in Cand |-> "idle"]
  /\ attemptErr = [c \in Cand |-> "nil"]
  /\ age = [c \in Cand |-> 0]
  /\ open = {}
  /\ pc = "loop"
  /\ started = 0 /\ pending = 0
  /\ lastFamily = "none" /\ lastErr = "nil"
  /\ window = 0 /\ sinceStart = 0 /\ timer = "stopped" /\ failedSince = FALSE
  /\ ctxErr = "nil" /\ elapsed = 0
  /\ ret = "pending" /\ retErr = "nil"
  /\ returned = {}

-----------------------------------------------------------------------------
(* The family lookups and the feed. *)

NetworkAdmits(a) ==
  CASE network = "tcp4" -> a \in Addr4
    [] network = "tcp6" -> a \notin Addr4
    [] OTHER -> TRUE

\* May address a, returned by the lookup of family f, ever be dialed?
Eligible(f, a) == a \in Allowed /\ FamilyOf(a) = f /\ NetworkAdmits(a)

\* Mutant of Admit: repeated addresses are admitted again.
AdmitRepeated(f, ans) == {i \in DOMAIN ans : Eligible(f, ans[i])}

\* The positions of ans that the loop of resolve appends to the feed: eligible,
\* and not a repetition of an address it has seen.
Admit(f, ans) ==
  {i \in DOMAIN ans : Eligible(f, ans[i]) /\ \A j \in 1..(i - 1) : ans[j] # ans[i]}

ResolveOK(f, ans) ==
  /\ lookup[f] = "querying"
  /\ answer' = [answer EXCEPT ![f] = ans]
  /\ passedACL' = passedACL + Cardinality({i \in DOMAIN ans : ans[i] \in Allowed})
  /\ queue' = [queue EXCEPT ![f] = Admit(f, ans)]
  /\ lookup' = [lookup EXCEPT ![f] = IF Admit(f, ans) # {} THEN "pulsing" ELSE "done"]
  /\ UNCHANGED <<network, lookupErr, closer, wake, attemptVars, schedVars, clockVars, callVars>>

ResolveErr(f, e) ==
  /\ lookup[f] = "querying"
  /\ lookupErr' = [lookupErr EXCEPT ![f] = e]
  /\ lookup' = [lookup EXCEPT ![f] = "done"]
  /\ UNCHANGED <<network, answer, queue, passedACL, closer, wake, attemptVars, schedVars,
                 clockVars, callVars>>

\* A lookup whose context is over may report the context's error.
LookupReturns(f) ==
  \/ \E ans \in Answers : ResolveOK(f, ans)
  \/ \E e \in Failures \cup ({ctxErr} \ {"nil"}) : ResolveErr(f, e)

\* Mutant of SendWake: the wakeup is lost.
LoseWake == wake' = wake

\* pulse: the send never blocks, a pending token is enough.
SendWake == wake' = 1

Pulse(f) ==
  /\ lookup[f] = "pulsing"
  /\ lookup' = [lookup EXCEPT ![f] = "done"]
  /\ SendWake
  /\ UNCHANGED <<network, answer, lookupErr, queue, passedACL, closer, attemptVars, schedVars,
                 clockVars, callVars>>

CloseFeed ==
  /\ closer = "waiting"
  /\ \A f \in Families : lookup[f] = "done"
  /\ closer' = "pulsing"
  /\ UNCHANGED <<network, lookup, answer, lookupErr, queue, passedACL, wake, attemptVars,
                 schedVars, clockVars, callVars>>

PulseClosed ==
  /\ closer = "pulsing"
  /\ closer' = "done"
  /\ SendWake
  /\ UNCHANGED <<network, lookup, answer, lookupErr, queue, passedACL, attemptVars, schedVars,
                 clockVars, callVars>>

-----------------------------------------------------------------------------
(* The attempts. *)

\* What attemptCtx.Err() is when the dial returns: the attempt's own timer or
\* the race's context, whichever came first.
AttemptCtxErr(c) ==
  IF age[c] < AttemptTimeout THEN {ctxErr} ELSE {"timeout"} \cup ({ctxErr} \ {"nil"})

\* The dial returned a connection; it is closed at once if the attempt's
\* context is over.
DialConnects(c) ==
  /\ attempt[c] = "dialing"
  /\ \E o \in AttemptCtxErr(c) :
       /\ attemptErr' = [attemptErr EXCEPT ![c] = o]
       /\ open' = IF o = "nil" THEN open \cup {c} ELSE open
  /\ attempt' = [attempt EXCEPT ![c] = "handoff"]
  /\ age' = [age EXCEPT ![c] = 0]
  /\ UNCHANGED <<network, feedVars, wake, schedVars, sinceStart, elapsed, callVars>>

\* The dial failed, or returned neither a connection nor an error.
DialFails(c) ==
  /\ attempt[c] = "dialing"
  /\ \E e \in Failures, o \in AttemptCtxErr(c) :
       attemptErr' = [attemptErr EXCEPT ![c] = IF o = "nil" THEN e ELSE o]
  /\ attempt' = [attempt EXCEPT ![c] = "handoff"]
  /\ age' = [age EXCEPT ![c] = 0]
  /\ UNCHANGED <<network, feedVars, wake, open, schedVars, sinceStart, elapsed, callVars>>

\* Mutant of CloseLate: the late connection leaks.
LeakLate(c) == open' = open

CloseLate(c) == open' = open \ {c}

\* The attempt's select takes ctx.Done(): a late connection is closed.
Abandon(c) ==
  /\ attempt[c] = "handoff"
  /\ ctxErr # "nil"
  /\ attempt' = [attempt EXCEPT ![c] = "exited"]
  /\ CloseLate(c)
  /\ UNCHANGED <<network, feedVars, wake, attemptErr, schedVars, clockVars, callVars>>

-----------------------------------------------------------------------------
(* The scheduler. *)

\* Mutant of Due: a wake satisfies the stagger window.
DueOnWake == TRUE

Due == sinceStart >= window

FeedEmpty == \A f \in Families : queue[f] = {}

\* Mutant of NextFamily: a family is served until it is empty.
SameFamily(v4, v6, last) == IF v6 # {} THEN "ip6" ELSE "ip4"

\* popLocked: v6 first, then the family that did not start last, if it has any.
NextFamily(v4, v6, last) ==
  IF last = "ip6" THEN IF v4 = {} THEN "ip6" ELSE "ip4"
                  ELSE IF v6 # {} THEN "ip6" ELSE "ip4"

PopFamily == NextFamily(queue["ip4"], queue["ip6"], lastFamily)

\* Mutant of IsHead: popLocked takes the tail.
IsTail(i, q) == \A j \in q : j <= i

IsHead(i, q) == \A j \in q : i <= j

\* The call returns: the timer is stopped and the deferred cancel ends the
\* race's context.
Return(r, e) ==
  /\ pc' = "done"
  /\ ret' = r
  /\ retErr' = e
  /\ ctxErr' = IF ctxErr = "nil" THEN "canceled" ELSE ctxErr
  /\ timer' = "stopped"

Start(c) ==
  /\ attempt' = [attempt EXCEPT ![c] = "dialing"]
  /\ age' = [age EXCEPT ![c] = 0]
  /\ started' = started + 1
  /\ pending' = pending + 1
  /\ lastFamily' = FamilyOf(AddrOf(c))
  /\ window' = FallbackDelay
  /\ sinceStart' = 0
  /\ timer' = "armed"
  /\ failedSince' = FALSE
  /\ UNCHANGED <<pc, ret, retErr, returned, ctxErr, lastErr, attemptErr, open, elapsed>>

\* A start is due: pop a candidate and start it, unless the context is over.
StartNext ==
  /\ pc = "loop" /\ Due /\ ~FeedEmpty
  /\ \E i \in queue[PopFamily] :
       /\ IsHead(i, queue[PopFamily])
       /\ queue' = [queue EXCEPT ![PopFamily] = @ \ {i}]
       /\ IF ctxErr = "nil"
          THEN Start(<<PopFamily, i>>)
          ELSE Return("ctx", ctxErr) /\ UNCHANGED <<returned, attemptVars, schedVars, clockVars>>
  /\ UNCHANGED <<network, lookup, answer, lookupErr, passedACL, closer, wake>>

\* Mutant of Exhausted: attempts in flight are forgotten.
ExhaustedFeed == closer # "waiting" /\ FeedEmpty

Exhausted == closer # "waiting" /\ FeedEmpty /\ pending = 0

\* Mutant of FinalError: an empty feed is taken for a denial first.
DeniedFirst ==
  IF started = 0 /\ passedACL = 0 THEN <<"denied", "nil">>
  ELSE <<"dial", IF lastErr = "nil" THEN "other" ELSE lastErr>>

FinalError ==
  IF started > 0 THEN <<"dial", IF lastErr = "nil" THEN "other" ELSE lastErr>>
  ELSE IF \A f \in Families : lookupErr[f] # "nil" THEN <<"lookup", lookupErr["ip4"]>>
  ELSE IF passedACL = 0 THEN <<"denied", "nil">>
  ELSE <<"dial", "other">>

GiveUp ==
  /\ pc = "loop" /\ Exhausted
  /\ Return(FinalError[1], FinalError[2])
  /\ UNCHANGED <<network, feedVars, wake, attemptVars, schedVars, clockVars, returned>>

EnterSelect ==
  /\ pc = "loop" /\ (~Due \/ FeedEmpty) /\ ~Exhausted
  /\ pc' = "select"
  /\ UNCHANGED <<network, feedVars, wake, attemptVars, schedVars, clockVars, ret, retErr,
                 returned, ctxErr, timer>>

SelectDone ==
  /\ pc = "select" /\ ctxErr # "nil"
  /\ Return("ctx", ctxErr)
  /\ UNCHANGED <<network, feedVars, wake, attemptVars, schedVars, clockVars, returned>>

\* A connection is received: it is returned, or closed when the context is over.
ReceiveConn(c) ==
  /\ pc = "select" /\ attempt[c] = "handoff" /\ attemptErr[c] = "nil"
  /\ attempt' = [attempt EXCEPT ![c] = "exited"]
  /\ pending' = pending - 1
  /\ IF ctxErr = "nil"
     THEN Return("conn", "nil") /\ returned' = returned \cup {c} /\ open' = open
     ELSE Return("ctx", ctxErr) /\ returned' = returned /\ open' = open \ {c}
  /\ UNCHANGED <<network, feedVars, wake, attemptErr, started, lastFamily, lastErr, window,
                 failedSince, clockVars>>

Shortened == IF MinimumDelay < window THEN MinimumDelay ELSE window

\* A failure is received: the window shortens, measured from the last start.
ReceiveFailure(c) ==
  /\ pc = "select" /\ attempt[c] = "handoff" /\ attemptErr[c] # "nil"
  /\ attempt' = [attempt EXCEPT ![c] = "exited"]
  /\ pending' = pending - 1
  /\ lastErr' = attemptErr[c]
  /\ window' = Shortened
  /\ timer' = IF MinimumDelay < window THEN "armed" ELSE timer
  /\ failedSince' = TRUE
  /\ pc' = "loop"
  /\ UNCHANGED <<network, feedVars, wake, attemptErr, open, started, lastFamily, clockVars,
                 ret, retErr, returned, ctxErr>>

SelectWake ==
  /\ pc = "select" /\ wake = 1
  /\ wake' = 0
  /\ pc' = "loop"
  /\ UNCHANGED <<network, feedVars, attemptVars, schedVars, clockVars, ret, retErr, returned,
                 ctxErr, timer>>

SelectTimer ==
  /\ pc = "select" /\ timer = "armed" /\ Due
  /\ timer' = "stopped"
  /\ pc' = "loop"
  /\ UNCHANGED <<network, feedVars, wake, attemptVars, schedVars, clockVars, ret, retErr, returned,
                 ctxErr>>

-----------------------------------------------------------------------------
(* The caller's context and time. *)

CancelRequest ==
  /\ ctxErr = "nil"
  /\ ctxErr' = "canceled"
  /\ UNCHANGED <<network, feedVars, wake, attemptVars, schedVars, clockVars, pc, ret, retErr,
                 returned, timer>>

DeadlineExpires ==
  /\ ctxErr = "nil" /\ elapsed >= DialTimeout
  /\ ctxErr' = "timeout"
  /\ UNCHANGED <<network, feedVars, wake, attemptVars, schedVars, clockVars, pc, ret, retErr,
                 returned, timer>>

Advance(clock, bound) == IF clock < bound THEN clock + 1 ELSE clock

Tick ==
  /\ pc # "done"
  /\ elapsed' = Advance(elapsed, DialTimeout)
  /\ sinceStart' = IF started > 0 THEN Advance(sinceStart, FallbackDelay) ELSE 0
  /\ age' = [c \in Cand |-> IF attempt[c] = "dialing" THEN Advance(age[c], AttemptTimeout)
                                                      ELSE age[c]]
  /\ clockVars' # clockVars
  /\ UNCHANGED <<network, feedVars, wake, attemptVars, schedVars, callVars>>

Quiet ==
  /\ pc = "done" /\ closer = "done"
  /\ \A c \in Cand : attempt[c] \in {"idle", "exited"}

\* Everything the call started has ended.
Finished == Quiet /\ UNCHANGED vars

Scheduler ==
  \/ StartNext \/ GiveUp \/ EnterSelect
  \/ SelectDone \/ SelectWake \/ SelectTimer
  \/ \E c \in Cand : ReceiveConn(c) \/ ReceiveFailure(c)

Next ==
  \/ Scheduler
  \/ \E f \in Families : LookupReturns(f) \/ Pulse(f)
  \/ CloseFeed \/ PulseClosed
  \/ \E c \in Cand : DialConnects(c) \/ DialFails(c) \/ Abandon(c)
  \/ CancelRequest \/ DeadlineExpires \/ Tick
  \/ Finished

Spec == Init /\ [][Next]_vars

-----------------------------------------------------------------------------
(* Fairness.  The Go scheduler runs every runnable goroutine, the runtime     *)
(* fires due timers, and time passes.  A lookup or a dial owes an answer only *)
(* once its context is over.                                                  *)

RuntimeFairness ==
  /\ WF_vars(Scheduler) /\ WF_vars(Tick) /\ WF_vars(DeadlineExpires)
  /\ WF_vars(CloseFeed) /\ WF_vars(PulseClosed)
  /\ \A f \in Families : WF_vars(Pulse(f))
  /\ \A c \in Cand : WF_vars(Abandon(c))

AttemptOver(c) == ctxErr # "nil" \/ age[c] >= AttemptTimeout

FairSpec ==
  /\ Spec /\ RuntimeFairness
  /\ \A f \in Families : WF_vars(ctxErr # "nil" /\ LookupReturns(f))
  /\ \A c \in Cand : WF_vars(AttemptOver(c) /\ (DialConnects(c) \/ DialFails(c)))

-----------------------------------------------------------------------------
(* Properties. *)

TypeOK ==
  /\ network \in Networks
  /\ lookup \in [Families -> {"querying", "pulsing", "done"}]
  /\ answer \in [Families -> Answers \cup {<<>>}]
  /\ lookupErr \in [Families -> Errors \cup {"nil"}]
  /\ queue \in [Families -> SUBSET (1..MaxAnswer)]
  /\ passedACL \in Nat
  /\ closer \in {"waiting", "pulsing", "done"}
  /\ wake \in 0..1
  /\ attempt \in [Cand -> {"idle", "dialing", "handoff", "exited"}]
  /\ attemptErr \in [Cand -> Errors \cup {"nil"}]
  /\ age \in [Cand -> Nat]
  /\ open \subseteq Cand
  /\ pc \in {"loop", "select", "done"}
  /\ started \in Nat
  /\ pending \in Int
  /\ lastFamily \in Families \cup {"none"}
  /\ lastErr \in Errors \cup {"nil"}
  /\ window \in {0, MinimumDelay, FallbackDelay}
  /\ sinceStart \in Nat
  /\ timer \in {"armed", "stopped"}
  /\ failedSince \in BOOLEAN
  /\ ctxErr \in {"nil", "canceled", "timeout"}
  /\ elapsed \in Nat
  /\ ret \in {"pending", "conn", "ctx", "dial", "lookup", "denied"}
  /\ retErr \in Errors \cup {"nil"}
  /\ returned \subseteq Cand

Dialed == {c \in Cand : attempt[c] # "idle"}

(* Only addresses that passed the ACL, of the family of the lookup that      *)
(* returned them and of the caller's network, are ever dialed, and no        *)
(* address is dialed twice whatever repetitions the resolver returned        *)
(* (connect_dial_incremental.go, "explicit tcp4/tcp6 callers never dial the  *)
(* other family").                                                           *)
OnlyApprovedDialed ==
  /\ \A c \in Dialed : c[2] \in DOMAIN answer[c[1]] /\ Eligible(c[1], AddrOf(c))
  /\ \A c, d \in Dialed : AddrOf(c) = AddrOf(d) => c = d

(* Single ownership: an open connection is either offered by an attempt that *)
(* is still in its handoff, or is the one connection the caller received; at *)
(* most one is ever returned and it is returned open.  Nothing else stays    *)
(* open, whatever the order of success, cancellation and deadline.           *)
SingleOwner ==
  /\ open \subseteq returned \cup {c \in Cand : attempt[c] = "handoff" /\ attemptErr[c] = "nil"}
  /\ returned \subseteq open
  /\ \A c, d \in returned : c = d
  /\ (ret = "conn") <=> (returned # {})

(* A candidate set is given up only when it is exhausted: if the call        *)
(* returns an error other than its context's, both lookups are over, every   *)
(* eligible address that either returned has been dialed, and every dial     *)
(* has failed.  A lost wakeup, a stale emptiness check or a miscounted       *)
(* pending attempt would break this.                                         *)
GivesUpExhausted ==
  ret \in {"dial", "lookup", "denied"} =>
    /\ \A f \in Families : lookup[f] = "done"
    /\ \A f \in Families : \A i \in DOMAIN answer[f] :
         Eligible(f, answer[f][i]) => \E c \in Dialed : AddrOf(c) = answer[f][i]
    /\ \A c \in Dialed : attempt[c] = "exited" /\ attemptErr[c] # "nil"

\* dialContextCheckACL with tcpDialError and legacyTargetPolicyError.
Status ==
  CASE ret = "conn" -> 200
    [] ret = "denied" -> 403
    [] OTHER -> IF retErr = "timeout" THEN 504 ELSE 502

(* The status the client sees tells the truth about the race: 403 only when  *)
(* a lookup answered and the ACL admits none of the addresses, 504 only when *)
(* a deadline or a timeout was met, and an error while dialing or of the     *)
(* lookup only when there was one.                                           *)
StatusTruthful ==
  ret # "pending" =>
    /\ Status = 403 =>
         /\ \E f \in Families : lookupErr[f] = "nil"
         /\ \A f \in Families : \A i \in DOMAIN answer[f] : answer[f][i] \notin Allowed
    /\ Status = 504 =>
         \/ ctxErr = "timeout"
         \/ lookupErr["ip4"] = "timeout" /\ Dialed = {}
         \/ \E c \in Dialed : attemptErr[c] = "timeout"
    /\ ret = "lookup" => \A f \in Families : lookupErr[f] # "nil"
    /\ ret = "dial" => \E f \in Families : \E i \in DOMAIN answer[f] : answer[f][i] \in Allowed

(* Within a family the resolver's order of preference is the order of the    *)
(* starts, however admissions and starts interleave.                         *)
ResolverOrder ==
  \A c, d \in Cand :
    /\ c[1] = d[1] /\ c[2] < d[2] /\ d \in Dialed
    /\ c[2] \in Admit(c[1], answer[c[1]])
    => c \in Dialed

(* Spacing: the first start is immediate, any later one comes at least       *)
(* tcpMinimumDelay after the previous start, and sooner than                 *)
(* tcpFallbackDelay only if a dial failure was received in between; a wake   *)
(* of the feed never satisfies the window.                                   *)
StartSpacing ==
  [][started' # started /\ started > 0 =>
       /\ sinceStart >= MinimumDelay
       /\ sinceStart >= FallbackDelay \/ failedSince]_vars

(* No wakeup is lost, and none is left to the deadline to make up for: while *)
(* the scheduler waits in its select with a candidate queued, its timer is    *)
(* armed, a token is in the wake channel or a lookup is about to send one;    *)
(* and when nothing is left to try, the token of the closed feed is there or  *)
(* about to be sent.                                                          *)
NoLostWakeup ==
  pc = "select" =>
    /\ ~FeedEmpty => timer = "armed" \/ wake = 1 \/ \E f \in Families : lookup[f] = "pulsing"
    /\ Exhausted => wake = 1 \/ closer = "pulsing"

\* The candidates of the families F, in order.
OfFamilies(F, cands) ==
  LET kept == {i \in DOMAIN cands : cands[i][1] \in F}
  IN [k \in 1..Cardinality(kept) |->
        cands[CHOOSE i \in kept : Cardinality({j \in kept : j <= i}) = k]]

\* interleaveTCPAddresses (connect_dial.go): the family of the first address the
\* network admits is primary; the two lists are dealt out in turn.
interleaveTCPAddresses(cands) ==
  LET admitted == OfFamilies({f \in Families : network \in {"tcp", IF f = "ip4" THEN "tcp4" ELSE "tcp6"}}, cands)
      primary == OfFamilies({admitted[1][1]}, admitted)
      fallback == OfFamilies(Families \ {admitted[1][1]}, admitted)
      both == IF Len(primary) < Len(fallback) THEN Len(primary) ELSE Len(fallback)
      rest == IF Len(primary) < Len(fallback) THEN fallback ELSE primary
  IN [k \in DOMAIN admitted |->
        IF k > 2 * both THEN rest[k - both]
        ELSE IF k % 2 = 1 THEN primary[(k + 1) \div 2] ELSE fallback[k \div 2]]

\* An answer of m v6 addresses and then n v4 addresses.
Static(m, n) == [k \in 1..(m + n) |-> IF k <= m THEN <<"ip6", k>> ELSE <<"ip4", k - m>>]

\* What a queue q of family f still holds when the first k of order were popped.
Left(f, q, order, k) == {i \in q : \A j \in 1..k : order[j] # <<f, i>>}

\* popLocked returns c from a feed that holds v4 and v6.
Pops(c, v4, v6, last) ==
  LET q == IF NextFamily(v4, v6, last) = "ip4" THEN v4 ELSE v6
  IN c[1] = NextFamily(v4, v6, last) /\ c[2] \in q /\ IsHead(c[2], q)

(* popLocked "reproduces interleaveTCPAddresses for a static set": a feed    *)
(* that both lookups filled before the first start, v6 answers first, is     *)
(* emptied in the order of the static interleave, for every network.         *)
StaticInterleave ==
  (\A f \in Families : lookup[f] = "querying") =>
    \A m, n \in StaticSize :
      LET order == interleaveTCPAddresses(Static(m, n))
          v4(k) == Left("ip4", IF network = "tcp6" THEN {} ELSE 1..n, order, k)
          v6(k) == Left("ip6", IF network = "tcp4" THEN {} ELSE 1..m, order, k)
      IN /\ \A k \in DOMAIN order :
              Pops(order[k], v4(k - 1), v6(k - 1), IF k = 1 THEN "none" ELSE order[k - 1][1])
         /\ v4(Len(order)) = {} /\ v6(Len(order)) = {}

(* The race implements the contract of DialContract: candidates stand for    *)
(* the connections they open.                                                *)
Outcome == CASE ret = "pending" -> "pending" [] ret = "conn" -> "conn" [] OTHER -> "error"

Contract == INSTANCE DialContract WITH
  Conn <- Cand, outcome <- Outcome, open <- open, owned <- returned

(* Every behaviour of the race, with the runtime's fairness, is one the      *)
(* contract allows: it settles once, delivers at most one connection, never  *)
(* closes the delivered one, and in the end discards all others.             *)
ImplementsContract == Contract!Spec

=============================================================================
