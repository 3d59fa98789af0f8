---------------------------- MODULE DialContract ----------------------------
(***************************************************************************)
(* What dialing a target promises its caller, whatever the schedule: the   *)
(* call settles once, with one open connection that is the caller's from   *)
(* then on or with an error; every other connection it opens is discarded, *)
(* before or after it settles.                                             *)
(***************************************************************************)
CONSTANT Conn  \* the connections the call may open

VARIABLES
  outcome,     \* pending, conn or error
  open,        \* connections that are open
  owned        \* connections the caller received

vars == <<outcome, open, owned>>

Init == outcome = "pending" /\ open = {} /\ owned = {}

Establish(c) ==
  /\ c \notin open
  /\ open' = open \cup {c}
  /\ UNCHANGED <<outcome, owned>>

Discard(c) ==
  /\ c \in open \ owned
  /\ open' = open \ {c}
  /\ UNCHANGED <<outcome, owned>>

Deliver(c) ==
  /\ outcome = "pending" /\ c \in open
  /\ outcome' = "conn"
  /\ owned' = {c}
  /\ UNCHANGED open

\* The call may discard the connection it was about to deliver.
Fail ==
  /\ outcome = "pending"
  /\ outcome' = "error"
  /\ open' = open \/ \E c \in open : open' = open \ {c}
  /\ UNCHANGED owned

Next ==
  \/ \E c \in Conn : Establish(c) \/ Discard(c) \/ Deliver(c)
  \/ Fail

Settle == Fail \/ \E c \in Conn : Deliver(c)

Spec ==
  /\ Init /\ [][Next]_vars
  /\ WF_vars(Settle)
  /\ \A c \in Conn : WF_vars(outcome # "pending" /\ Discard(c))
=============================================================================
