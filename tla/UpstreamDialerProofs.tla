------------------------ MODULE UpstreamDialerProofs ------------------------
(***************************************************************************)
(* What UpstreamDialer guarantees for any number of calls.                 *)
(*                                                                         *)
(* Neither property is inductive.  A call that fails on the cached         *)
(* connection closes one that another call made, so both need to know      *)
(* whose connections can be reached through the cache: only those that     *)
(* have an HTTP/2 client, of calls that are past the point where they      *)
(* make a connection of their own.                                         *)
(***************************************************************************)
EXTENDS UpstreamDialer, TLAPS

\* Before its dial a call has no connection; a connection has an HTTP/2 client
\* only once the call made one, and not before the connection itself.
Progress ==
  \A c \in Call :
    /\ pc[c] \in {"start", "cached", "dial"} => raw[c] = "none" /\ h2[c] = "none"
    /\ pc[c] \in {"http1", "client", "other"} => raw[c] \in {"open", "broken"} /\ h2[c] = "none"
    /\ pc[c] \in {"http1", "client", "other", "http2", "store"} => using[c] = c
    /\ pc[c] \in {"http2", "store"} => h2[c] # "none"
    /\ h2[c] # "none" => raw[c] # "none"

\* What can be reached through the cache has an HTTP/2 client.
Reach ==
  /\ cache # None => h2[cache] # "none"
  /\ \A c \in Call :
       /\ pc[c] = "cached" => using[c] # None /\ h2[using[c]] # "none"
       /\ ret[c] = "conn" => using[c] # None
       /\ using[c] \notin {None, c} => h2[using[c]] # "none"

\* A call about to return nothing has closed its connection, or lost it.
Nothing == \A c \in Call : pc[c] = "store" /\ got[c] = "nil" => raw[c] # "open"

IInv == TypeOK /\ Progress /\ Reach /\ Nothing /\ FailureCloses /\ SharedConnKept

LEMMA Initially == Init => IInv
BY NoneAssumption DEF Init, IInv, TypeOK, Progress, Reach, Nothing, FailureCloses, SharedConnKept

LEMMA StepCheckCache == ASSUME IInv, NEW c \in Call, CheckCache(c) PROVE IInv'
<1>. USE NoneAssumption DEF CheckCache, Goto, IInv
<1>1. TypeOK'
  BY DEF TypeOK
<1>2. Progress'
  BY DEF TypeOK, Progress, Reach
<1>3. Reach'
  BY DEF TypeOK, Progress, Reach
<1>4. Nothing'
  BY DEF TypeOK, Progress, Reach, Nothing
<1>5. FailureCloses'
  BY DEF TypeOK, Progress, Reach, Nothing, FailureCloses
<1>6. SharedConnKept'
  BY Zenon DEF TypeOK, Progress, Reach, SharedConnKept
<1>. QED BY <1>1, <1>2, <1>3, <1>4, <1>5, <1>6

LEMMA StepCachedRoundTrip == ASSUME IInv, NEW c \in Call, CachedRoundTrip(c) PROVE IInv'
<1>. DEFINE k == using[c]
<1>1. k \in Call /\ h2[k] # "none" /\ pc[c] = "cached"
  BY DEF CachedRoundTrip, IInv, TypeOK, Reach
<1>2. \/ raw' = raw /\ failed' = failed
      \/ raw' = [raw EXCEPT ![k] = "closed"] /\ failed' = failed \cup {<<c, k>>}
  BY DEF CachedRoundTrip, CloseRaw
<1>3. \/ \E r \in {"conn", "nil"} : Return(c, r)
      \/ Goto(c, "dial")
  BY DEF CachedRoundTrip, CarryOn
<1>4. \/ pc' = [pc EXCEPT ![c] = "done"] /\ \E r \in {"conn", "nil"} : ret' = [ret EXCEPT ![c] = r]
      \/ pc' = [pc EXCEPT ![c] = "dial"] /\ ret' = ret
  BY <1>3 DEF Goto, Return
<1>5. UNCHANGED <<h2, cache, using, got>>
  BY DEF CachedRoundTrip
<1>. USE NoneAssumption, <1>1, <1>2, <1>4, <1>5 DEF IInv
<1>. HIDE DEF k
<1>6. TypeOK'
  BY DEF TypeOK
<1>7. Progress'
  BY DEF TypeOK, Progress
<1>8. Reach'
  BY DEF TypeOK, Reach, k
<1>9. Nothing'
  BY DEF TypeOK, Nothing
<1>10. FailureCloses'
  BY DEF TypeOK, Progress, FailureCloses
<1>11. SharedConnKept'
  BY ZenonT(60) DEF TypeOK, SharedConnKept
<1>. QED BY <1>6, <1>7, <1>8, <1>9, <1>10, <1>11

LEMMA StepDialRaw == ASSUME IInv, NEW c \in Call, DialRaw(c) PROVE IInv'
<1>. USE NoneAssumption DEF DialRaw, Goto, Return, IInv
<1>1. TypeOK'
  BY DEF TypeOK
<1>2. Progress'
  BY DEF TypeOK, Progress, Reach
<1>3. Reach'
  BY DEF TypeOK, Progress, Reach
<1>4. Nothing'
  BY DEF TypeOK, Progress, Reach, Nothing
<1>5. FailureCloses'
  BY DEF TypeOK, Progress, Reach, Nothing, FailureCloses
<1>6. SharedConnKept'
  <2>. SUFFICES ASSUME NEW k \in Call, h2[k] # "none", raw'[k] = "closed"
                PROVE  \E d \in Call : <<d, k>> \in failed
    BY DEF SharedConnKept
  <2>1. raw[k] = "closed"
    BY DEF TypeOK
  <2>. QED BY <2>1 DEF SharedConnKept
<1>. QED BY <1>1, <1>2, <1>3, <1>4, <1>5, <1>6

LEMMA StepUnsupportedProtocol == ASSUME IInv, NEW c \in Call, UnsupportedProtocol(c) PROVE IInv'
<1>. USE NoneAssumption DEF UnsupportedProtocol, Unsupported, CloseRaw, Return, IInv
<1>1. TypeOK'
  BY DEF TypeOK
<1>2. Progress'
  BY DEF TypeOK, Progress, Reach
<1>3. Reach'
  BY DEF TypeOK, Progress, Reach
<1>4. Nothing'
  BY DEF TypeOK, Progress, Reach, Nothing
<1>5. FailureCloses'
  BY DEF TypeOK, Progress, Reach, Nothing, FailureCloses
<1>6. SharedConnKept'
  <2>. SUFFICES ASSUME NEW k \in Call, h2'[k] # "none", raw'[k] = "closed"
                PROVE  \E d \in Call : <<d, k>> \in failed'
    BY DEF SharedConnKept
  <2>1. CASE k # c
    BY <2>1, Zenon DEF TypeOK, SharedConnKept
  <2>2. CASE k = c
    BY <2>2 DEF TypeOK, Progress, Reach, SharedConnKept
  <2>. QED BY <2>1, <2>2
<1>. QED BY <1>1, <1>2, <1>3, <1>4, <1>5, <1>6

LEMMA StepConnectHttp1 == ASSUME IInv, NEW c \in Call, ConnectHttp1(c) PROVE IInv'
<1>. USE NoneAssumption DEF ConnectHttp1, Http1Tunnel, CloseRaw, CloseErrors, Return, IInv
<1>1. TypeOK'
  BY DEF TypeOK
<1>2. Progress'
  BY DEF TypeOK, Progress, Reach
<1>3. Reach'
  BY DEF TypeOK, Progress, Reach
<1>4. Nothing'
  BY DEF TypeOK, Progress, Reach, Nothing
<1>5. FailureCloses'
  BY DEF TypeOK, Progress, Reach, Nothing, FailureCloses
<1>6. SharedConnKept'
  <2>. SUFFICES ASSUME NEW k \in Call, h2'[k] # "none", raw'[k] = "closed"
                PROVE  \E d \in Call : <<d, k>> \in failed'
    BY DEF SharedConnKept
  <2>1. CASE k # c
    BY <2>1, Zenon DEF TypeOK, SharedConnKept
  <2>2. CASE k = c
    BY <2>2 DEF TypeOK, Progress, Reach, SharedConnKept
  <2>. QED BY <2>1, <2>2, Zenon
<1>. QED BY <1>1, <1>2, <1>3, <1>4, <1>5, <1>6

LEMMA StepNewClientConn == ASSUME IInv, NEW c \in Call, NewClientConn(c) PROVE IInv'
<1>. USE NoneAssumption DEF NewClientConn, CloseRaw, CloseErrors, Goto, Return, IInv
<1>1. TypeOK'
  BY DEF TypeOK
<1>2. Progress'
  BY DEF TypeOK, Progress, Reach
<1>3. Reach'
  BY DEF TypeOK, Progress, Reach
<1>4. Nothing'
  BY DEF TypeOK, Progress, Reach, Nothing
<1>5. FailureCloses'
  BY DEF TypeOK, Progress, Reach, Nothing, FailureCloses
<1>6. SharedConnKept'
  <2>. SUFFICES ASSUME NEW k \in Call, h2'[k] # "none", raw'[k] = "closed"
                PROVE  \E d \in Call : <<d, k>> \in failed'
    BY DEF SharedConnKept
  <2>1. CASE k # c
    BY <2>1, ZenonT(60) DEF TypeOK, SharedConnKept
  <2>2. CASE k = c
    BY <2>2, Zenon DEF TypeOK, Progress, Reach, SharedConnKept
  <2>. QED BY <2>1, <2>2
<1>. QED BY <1>1, <1>2, <1>3, <1>4, <1>5, <1>6

LEMMA StepConnectHttp2 == ASSUME IInv, NEW c \in Call, ConnectHttp2(c) PROVE IInv'
<1>. USE NoneAssumption DEF ConnectHttp2, CloseRaw, CloseErrors, Goto, Return, IInv
<1>1. TypeOK'
  BY DEF TypeOK
<1>2. Progress'
  BY DEF TypeOK, Progress, Reach
<1>3. Reach'
  BY DEF TypeOK, Progress, Reach
<1>4. Nothing'
  BY DEF TypeOK, Progress, Reach, Nothing
<1>5. FailureCloses'
  BY DEF TypeOK, Progress, Reach, Nothing, FailureCloses
<1>6. SharedConnKept'
  <2>. SUFFICES ASSUME NEW k \in Call, h2'[k] # "none", raw'[k] = "closed"
                PROVE  \E d \in Call : <<d, k>> \in failed'
    BY DEF SharedConnKept
  <2>1. CASE k # c
    BY <2>1, Zenon DEF TypeOK, SharedConnKept
  <2>2. CASE k = c
    BY <2>2 DEF TypeOK, Progress, Reach, SharedConnKept
  <2>. QED BY <2>1, <2>2
<1>. QED BY <1>1, <1>2, <1>3, <1>4, <1>5, <1>6

LEMMA StepStoreCache == ASSUME IInv, NEW c \in Call, StoreCache(c) PROVE IInv'
<1>. USE NoneAssumption DEF StoreCache, Return, IInv
<1>1. TypeOK'
  BY DEF TypeOK
<1>2. Progress'
  BY DEF TypeOK, Progress, Reach
<1>3. Reach'
  BY DEF TypeOK, Progress, Reach
<1>4. Nothing'
  BY DEF TypeOK, Progress, Reach, Nothing
<1>5. FailureCloses'
  BY DEF TypeOK, Progress, Reach, Nothing, FailureCloses
<1>6. SharedConnKept'
  BY Zenon DEF TypeOK, Progress, Reach, SharedConnKept
<1>. QED BY <1>1, <1>2, <1>3, <1>4, <1>5, <1>6

LEMMA StepCloseTunnel == ASSUME IInv, NEW c \in Call, CloseTunnel(c) PROVE IInv'
<1>. USE NoneAssumption DEF CloseTunnel, CloseHttp2Conn, IInv
<1>1. TypeOK'
  BY DEF TypeOK
<1>2. Progress'
  BY DEF TypeOK, Progress, Reach
<1>3. Reach'
  BY DEF TypeOK, Progress, Reach
<1>4. Nothing'
  BY DEF TypeOK, Progress, Reach, Nothing
<1>5. FailureCloses'
  BY DEF TypeOK, Progress, Reach, Nothing, FailureCloses
<1>6. SharedConnKept'
  <2>. SUFFICES ASSUME NEW k \in Call, h2'[k] # "none", raw'[k] = "closed"
                PROVE  \E d \in Call : <<d, k>> \in failed'
    BY Zenon DEF SharedConnKept
  <2>1. CASE k # c
    BY <2>1 DEF TypeOK, SharedConnKept
  <2>2. CASE k = c
    BY <2>2, Zenon DEF TypeOK, Progress, Reach, SharedConnKept
  <2>. QED BY <2>1, <2>2, Zenon
<1>. QED BY <1>1, <1>2, <1>3, <1>4, <1>5, <1>6

LEMMA StepPeerCloses == ASSUME IInv, NEW c \in Call, PeerCloses(c) PROVE IInv'
<1>. USE NoneAssumption DEF PeerCloses, IInv
<1>1. TypeOK'
  BY DEF TypeOK
<1>2. Progress'
  BY DEF TypeOK, Progress, Reach
<1>3. Reach'
  BY DEF TypeOK, Progress, Reach
<1>4. Nothing'
  BY DEF TypeOK, Progress, Reach, Nothing
<1>5. FailureCloses'
  BY DEF TypeOK, Progress, Reach, Nothing, FailureCloses
<1>6. SharedConnKept'
  BY ZenonT(60) DEF TypeOK, Progress, Reach, SharedConnKept
<1>. QED BY <1>1, <1>2, <1>3, <1>4, <1>5, <1>6

LEMMA StepClientNotices == ASSUME IInv, NEW c \in Call, ClientNotices(c) PROVE IInv'
<1>. USE NoneAssumption DEF ClientNotices, IInv
<1>1. TypeOK'
  BY DEF TypeOK
<1>2. Progress'
  BY DEF TypeOK, Progress, Reach
<1>3. Reach'
  BY DEF TypeOK, Progress, Reach
<1>4. Nothing'
  BY DEF TypeOK, Progress, Reach, Nothing
<1>5. FailureCloses'
  BY DEF TypeOK, Progress, Reach, Nothing, FailureCloses
<1>6. SharedConnKept'
  BY ZenonT(60) DEF TypeOK, Progress, Reach, SharedConnKept
<1>. QED BY <1>1, <1>2, <1>3, <1>4, <1>5, <1>6

LEMMA Stuttering == IInv /\ UNCHANGED vars => IInv'
<1>. SUFFICES ASSUME IInv, UNCHANGED vars PROVE IInv'
  OBVIOUS
<1>. USE DEF vars, IInv
<1>1. TypeOK'
  BY DEF TypeOK
<1>2. Nothing' /\ FailureCloses'
  BY DEF Nothing, FailureCloses
<1>3. Progress' /\ Reach'
  BY DEF Progress, Reach
<1>4. SharedConnKept'
  BY DEF SharedConnKept
<1>. QED BY <1>1, <1>2, <1>3, <1>4

LEMMA Inductive == IInv /\ [Next]_vars => IInv'
<1>. SUFFICES ASSUME IInv, [Next]_vars PROVE IInv'
  OBVIOUS
<1>1. ASSUME NEW c \in Call, Step(c) PROVE IInv'
  BY <1>1, StepCheckCache, StepCachedRoundTrip, StepDialRaw, StepUnsupportedProtocol,
     StepConnectHttp1, StepNewClientConn, StepConnectHttp2, StepStoreCache DEF Step
<1>2. ASSUME NEW c \in Call, CloseTunnel(c) \/ PeerCloses(c) \/ ClientNotices(c) PROVE IInv'
  BY <1>2, StepCloseTunnel, StepPeerCloses, StepClientNotices
<1>3. CASE UNCHANGED vars
  BY <1>3, Stuttering
<1>. QED BY <1>1, <1>2, <1>3 DEF Next, Finished

LEMMA Invariant == Spec => []IInv
BY Initially, Inductive, PTL DEF Spec

(* The state of DialContext keeps its type, and a call has a result exactly  *)
(* when it has returned.                                                     *)
THEOREM TypeCorrect == Spec => []TypeOK
<1>1. IInv => TypeOK
  BY DEF IInv
<1>. QED BY <1>1, Invariant, PTL

(* No path out of DialContext without a connection leaves the raw connection *)
(* the call made open, for any number of concurrent calls.                   *)
THEOREM FailuresClose == Spec => []FailureCloses
<1>1. IInv => FailureCloses
  BY DEF IInv
<1>. QED BY <1>1, Invariant, PTL

(* A raw connection that carries HTTP/2 is closed only by a call that failed *)
(* on it, for any number of calls that share it or replace it in the cache.  *)
THEOREM SharedConnectionsKept == Spec => []SharedConnKept
<1>1. IInv => SharedConnKept
  BY DEF IInv
<1>. QED BY <1>1, Invariant, PTL
=============================================================================
