--------------------------- MODULE UpstreamDialer ---------------------------
(***************************************************************************)
(* HTTPConnectDialer.DialContext (httpclient.go): concurrent calls that    *)
(* ask one upstream proxy for a tunnel, over HTTP/1.1 or over HTTP/2 with  *)
(* the cached connection.                                                  *)
(*                                                                         *)
(* A call makes at most one raw connection, which is named by the call.    *)
(* The net and http2 packages are external: a connection may be broken by  *)
(* the peer at any time, the HTTP/2 client notices that its connection is  *)
(* gone some time later, and a round trip may fail while the connection is *)
(* sound.                                                                  *)
(***************************************************************************)
EXTENDS FiniteSets

CONSTANTS Call, None

ASSUME NoneAssumption == None \notin Call

VARIABLES
  pc,      \* start, cached, dial, http1, client, http2, other, store, done
  raw,     \* per call: its raw connection: none, open, broken (by the peer), closed (here)
  h2,      \* per raw connection: its HTTP/2 client: none, usable, dead
  cache,   \* cachedH2ClientConn and cachedH2RawConn, always written together
  using,   \* per call: the raw connection of its round trip or tunnel
  got,     \* per call: the result it is about to return: conn or nil
  ret,     \* per call: pending, conn, nil (neither connection nor error), error, ended
  failed   \* history: <<c, k>> when call c failed on raw connection k

vars == <<pc, raw, h2, cache, using, got, ret, failed>>

Init ==
  /\ pc = [c \in Call |-> "start"]
  /\ raw = [c \in Call |-> "none"]
  /\ h2 = [c \in Call |-> "none"]
  /\ cache = None
  /\ using = [c \in Call |-> None]
  /\ got = [c \in Call |-> "nil"]
  /\ ret = [c \in Call |-> "pending"]
  /\ failed = {}

Goto(c, l) == pc' = [pc EXCEPT ![c] = l] /\ ret' = ret
Return(c, r) == pc' = [pc EXCEPT ![c] = "done"] /\ ret' = [ret EXCEPT ![c] = r]

\* rawConn.Close() after a failure.  Its error is what counts as the error of
\* the attempt: a connection that was closed before reports one, a sound or
\* a broken one may or may not.
CloseRaw(c, k) == raw' = [raw EXCEPT ![k] = "closed"] /\ failed' = failed \cup {<<c, k>>}
CloseErrors(k) == IF raw[k] = "closed" THEN {"error"} ELSE {"nil", "error"}

-----------------------------------------------------------------------------
(* The cached connection. *)

CheckCache(c) ==
  /\ pc[c] = "start"
  /\ \/ /\ cache # None /\ h2[cache] = "usable"
        /\ using' = [using EXCEPT ![c] = cache] /\ Goto(c, "cached")
     \/ using' = using /\ Goto(c, "dial")     \* no cache, or no room for a request
  /\ UNCHANGED <<raw, h2, cache, got, failed>>

\* Mutant of CarryOn: the cache is tried again.
CheckAgain(c) == Goto(c, "start")

CarryOn(c) == Goto(c, "dial")

\* A round trip that fails returns the error of the close.
CachedRoundTrip(c) ==
  /\ pc[c] = "cached"
  /\ \/ raw[using[c]] = "open" /\ Return(c, "conn") /\ UNCHANGED <<raw, failed>>
     \/ raw[using[c]] = "open" /\ CloseRaw(c, using[c]) /\ CarryOn(c)    \* not 200
     \/ /\ CloseRaw(c, using[c])
        /\ \E e \in CloseErrors(using[c]) : IF e = "nil" THEN Return(c, "nil") ELSE CarryOn(c)
  /\ UNCHANGED <<h2, cache, using, got>>

-----------------------------------------------------------------------------
(* A connection of the call's own. *)

\* The dial and the handshake, which negotiates the protocol.
DialRaw(c) ==
  /\ pc[c] = "dial"
  /\ \/ Return(c, "error") /\ UNCHANGED <<raw, using>>
     \/ /\ raw' = [raw EXCEPT ![c] = "open"] /\ using' = [using EXCEPT ![c] = c]
        /\ \E l \in {"http1", "client", "other"} : Goto(c, l)
  /\ UNCHANGED <<h2, cache, got, failed>>

\* Mutant of Unsupported: the connection is forgotten.
DropUnsupported(c) == UNCHANGED <<raw, failed>>

Unsupported(c) == CloseRaw(c, c)

UnsupportedProtocol(c) ==
  /\ pc[c] = "other"
  /\ Unsupported(c)
  /\ Return(c, "error")
  /\ UNCHANGED <<h2, cache, using, got>>

Http1Tunnel(c) == Return(c, "conn") /\ cache' = cache

ConnectHttp1(c) ==
  /\ pc[c] = "http1"
  /\ \/ raw[c] = "open" /\ Http1Tunnel(c) /\ UNCHANGED <<raw, failed>>
     \/ /\ CloseRaw(c, c) /\ cache' = cache
        /\ \/ raw[c] = "open" /\ Return(c, "error")                \* not 200
           \/ \E e \in CloseErrors(c) : Return(c, e)              \* write or read failed
  /\ UNCHANGED <<h2, using, got>>

NewClientConn(c) ==
  /\ pc[c] = "client"
  /\ \/ h2' = [h2 EXCEPT ![c] = "usable"] /\ Goto(c, "http2") /\ UNCHANGED <<raw, failed>>
     \/ h2' = h2 /\ CloseRaw(c, c) /\ \E e \in CloseErrors(c) : Return(c, e)
  /\ UNCHANGED <<cache, using, got>>

\* connectHttp2 on the new connection.  An error closes it a second time, which
\* fails; a failed round trip whose close succeeds looks like a success.
ConnectHttp2(c) ==
  /\ pc[c] = "http2"
  /\ \/ /\ raw[c] = "open" /\ got' = [got EXCEPT ![c] = "conn"]
        /\ Goto(c, "store") /\ UNCHANGED <<raw, failed>>
     \/ raw[c] = "open" /\ CloseRaw(c, c) /\ Return(c, "error") /\ got' = got
     \/ /\ CloseRaw(c, c) /\ got' = got
        /\ \E e \in CloseErrors(c) : IF e = "nil" THEN Goto(c, "store") ELSE Return(c, "error")
  /\ UNCHANGED <<h2, cache, using>>

StoreCache(c) ==
  /\ pc[c] = "store"
  /\ cache' = c
  /\ Return(c, got[c])
  /\ UNCHANGED <<raw, h2, using, got, failed>>

-----------------------------------------------------------------------------
(* Afterwards. *)

\* Mutant of CloseHttp2Conn: closing a tunnel closes the shared connection.
CloseShared(c) == raw' = [raw EXCEPT ![using[c]] = "closed"]

\* http2Conn.Close ends the stream, not the connection.
CloseHttp2Conn(c) == raw' = raw

\* The holder closes the tunnel; over HTTP/1.1 it is the raw connection.
CloseTunnel(c) ==
  /\ ret[c] = "conn"
  /\ ret' = [ret EXCEPT ![c] = "ended"]
  /\ IF h2[using[c]] = "none" THEN raw' = [raw EXCEPT ![c] = "closed"] ELSE CloseHttp2Conn(c)
  /\ UNCHANGED <<pc, h2, cache, using, got, failed>>

PeerCloses(k) ==
  /\ raw[k] = "open"
  /\ raw' = [raw EXCEPT ![k] = "broken"]
  /\ UNCHANGED <<pc, h2, cache, using, got, ret, failed>>

ClientNotices(k) ==
  /\ h2[k] = "usable" /\ raw[k] # "open"
  /\ h2' = [h2 EXCEPT ![k] = "dead"]
  /\ UNCHANGED <<pc, raw, cache, using, got, ret, failed>>

Finished == (\A c \in Call : ret[c] # "pending") /\ UNCHANGED vars

Step(c) ==
  \/ CheckCache(c) \/ CachedRoundTrip(c) \/ DialRaw(c) \/ UnsupportedProtocol(c)
  \/ ConnectHttp1(c) \/ NewClientConn(c) \/ ConnectHttp2(c) \/ StoreCache(c)

Next ==
  \/ \E c \in Call : Step(c) \/ CloseTunnel(c) \/ PeerCloses(c) \/ ClientNotices(c)
  \/ Finished

Spec == Init /\ [][Next]_vars

\* The upstream and the network answer every call; the HTTP/2 client need never
\* notice that its connection is gone.
FairSpec == Spec /\ \A c \in Call : WF_vars(Step(c))

-----------------------------------------------------------------------------
(* Properties. *)

TypeOK ==
  /\ pc \in [Call -> {"start", "cached", "dial", "http1", "client", "http2", "other", "store", "done"}]
  /\ raw \in [Call -> {"none", "open", "broken", "closed"}]
  /\ h2 \in [Call -> {"none", "usable", "dead"}]
  /\ cache \in Call \cup {None}
  /\ using \in [Call -> Call \cup {None}]
  /\ got \in [Call -> {"conn", "nil"}]
  /\ ret \in [Call -> {"pending", "conn", "nil", "error", "ended"}]
  /\ failed \subseteq Call \X Call
  /\ \A c \in Call : pc[c] = "done" <=> ret[c] # "pending"

(* A call that does not return a connection leaves none of its own open, on  *)
(* every path out of DialContext.                                            *)
FailureCloses == \A c \in Call : ret[c] \in {"nil", "error"} => raw[c] # "open"

(* A connection that carries HTTP/2 is closed here only by a call that       *)
(* failed on it: a tunnel that ends, or another connection that takes its    *)
(* place in the cache, leaves the tunnels that share it alone.               *)
SharedConnKept ==
  \A k \in Call : h2[k] # "none" /\ raw[k] = "closed" => \E c \in Call : <<c, k>> \in failed

(* Every call returns once the network answers it: a dead cached connection  *)
(* cannot trap it, noticed or not.                                           *)
Settles == \A c \in Call : <>(ret[c] # "pending")

(* "else: carry on and try again": a call that fails on the cached           *)
(* connection makes one of its own before it gives up.                       *)
TriesAgain ==
  \A c \in Call : ret[c] = "nil" => using[c] = c
=============================================================================
