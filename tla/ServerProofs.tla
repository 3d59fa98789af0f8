---------------------------- MODULE ServerProofs ----------------------------
(***************************************************************************)
(* The HTTP handler, for any block, any request, any upstream and any      *)
(* number of other handlers.  First what ServeHTTP guarantees of a request *)
(* by itself, from an invariant that says what holds at every station of   *)
(* its way.  Then what a handler owes its Caddyfile block: an invariant    *)
(* relates the fields to the directives read so far (Parsed), the dialer   *)
(* and the metrics to the fields (Provisioned), and the traffic to the     *)
(* dialer (Traffic).  Last what the whole block says of the traffic: a     *)
(* second invariant relates the other fields and the ACL to the directives *)
(* (Fields, Lines), the handler in service to them (InService), and joins  *)
(* the request's invariant to both (Handling).                             *)
(***************************************************************************)
EXTENDS Server, SeqLemmas, TLAPS

-----------------------------------------------------------------------------
(* ServeHTTP *)

Undecided == {"start", "route"}
Serving ==
  {"connect", "udp", "dial", "established", "tunnel", "plain", "upstream", "direct", "closeBody", "deliver"}

\* Up to its decision the handler has done nothing; it serves a request only
\* when the request is authenticated.
Decided ==
  /\ pc \in Undecided \cup Serving \cup {"defer", "done"}
  /\ pc \in Undecided =>
       /\ conn = "none" /\ sent = {} /\ resp = "none" /\ out = "pending" /\ hdr = {}
       /\ flushed = FALSE /\ uri = "original" /\ seen = "none"
  /\ pc # "start" => (authErr = "set" <=> Unauthenticated)
  /\ pc \in Serving => authErr # "set" /\ out = "pending"
  /\ pc \in {"defer", "done"} => out # "pending"

\* Where a stranger's request ends.
Hidden ==
  (pc \in {"defer", "done"} /\ Unauthenticated) =>
    IF ToSecret THEN out = "hiddenAuth" ELSE conf.probe => out \in {"next", "pac"} /\ hdr = {}

\* The connection to the target.
Target ==
  /\ pc \in {"connect", "udp", "dial", "plain", "upstream", "direct", "closeBody", "deliver"} =>
       conn = "none" /\ flushed = FALSE
  /\ pc \in {"established", "tunnel"} => conn = "open"
  /\ pc = "tunnel" => flushed
  /\ pc = "done" => conn # "open"
  /\ flushed => conn # "none"

\* The lines the context carries, and the request's after they are edited.
Copied ==
  IF conf.hideIP THEN {}
  ELSE {l \in req.header : l.name \in {"Forwarded", "X-Forwarded-For"}} \cup {FromProxy("Forwarded")}
Edited == RemoveHopByHop(req.header) \cup OwnHeaders

\* The headers that are ready to be sent.
Editing ==
  /\ pc \in Undecided \cup {"connect", "plain"} => header = req.header
  /\ pc \in Serving => ctxHdr = Copied
  /\ pc \in {"upstream", "direct"} => header = Edited

\* What OutgoingHeaders says of one message.
Proper(m) ==
  /\ FromClient("Proxy-Authorization") \notin m.hdrs
  /\ IF m.to = "origin" THEN ToOrigin(m.hdrs) ELSE ToProxy(m.hdrs)

RequestInv ==
  /\ req \in Requests
  /\ Decided /\ NothingForStrangers /\ Hidden /\ URIRedactedAfterUse /\ Target
  /\ Editing /\ OutgoingHeaders

\* The lines depend on the request and the configuration, which never change.
LEMMA SameLines ==
  ASSUME UNCHANGED <<conf, req>>
  PROVE  Copied' = Copied /\ Edited' = Edited /\ \A m : Proper(m)' <=> Proper(m)
<1>1. Copied' = Copied
  BY Zenon DEF Copied
<1>2. Edited' = Edited
  BY Zenon DEF Edited, RemoveHopByHop, OwnHeaders
<1>3. ASSUME NEW m PROVE Proper(m)' <=> Proper(m)
  BY Zenon DEF Proper, ToOrigin, ToProxy
<1>. QED BY <1>1, <1>2, <1>3, Zenon

\* A proxy's line is not a client's, and those of different names differ.
LEMMA Lines2 ==
  /\ \A n : FromClient(n).from = "client" /\ FromClient(n).name = n
  /\ \A n : FromProxy(n).from = "proxy" /\ FromProxy(n).name = n
BY DEF FromClient, FromProxy

\* The edited lines, with the upstream's credentials or without, suit an origin.
LEMMA OriginLines ==
  ASSUME req \in Requests, NEW more, more \in {{}, UpstreamAuth}
  PROVE  /\ ToOrigin(Edited \cup more)
         /\ FromClient("Proxy-Authorization") \notin Edited \cup more
<1>1. \A l \in req.header : l.from = "client"
  BY RequestAssumption, Zenon
<1>2. \A l \in more : l = FromProxy("Proxy-Authorization")
  BY Zenon DEF UpstreamAuth
<1>3. \A l \in OwnHeaders : l.from = "proxy"
  BY Lines2, Zenon DEF OwnHeaders
<1>4. \A l \in more : l.from = "proxy" /\ l.name = "Proxy-Authorization"
  BY <1>2, Lines2, Zenon
<1>5. ASSUME NEW l PROVE l \in RemoveHopByHop(req.header) <=>
        l \in {k \in req.header : k.name \notin hopByHopHeaders \cup Nominated(req.connection)}
  BY Zenon DEF RemoveHopByHop
<1>6. {l \in Edited \cup more : l.from = "client"} =
        {l \in req.header : l.name \notin hopByHopHeaders \cup Nominated(req.connection)}
  <2>1. \A l \in Edited \cup more : l.from = "client" => l \in RemoveHopByHop(req.header)
    BY <1>3, <1>4 DEF Edited
  <2>2. \A l \in RemoveHopByHop(req.header) : l \in Edited \cup more /\ l.from = "client"
    BY <1>1, <1>5, Zenon DEF Edited
  <2>. QED BY <1>5, <2>1, <2>2, Zenon
<1>7. ASSUME NEW n PROVE FromProxy(n) \notin RemoveHopByHop(req.header)
  <2>1. FromProxy(n).from # "client"
    BY Lines2
  <2>. QED BY <1>1, <1>5, <2>1, Zenon
<1>8. FromProxy("Forwarded") \notin more /\ FromProxy("Via") \notin more
  <2>1. FromProxy("Forwarded").name # "Proxy-Authorization" /\ FromProxy("Via").name # "Proxy-Authorization"
    BY Lines2
  <2>. QED BY <1>4, <2>1, Zenon
<1>9. FromProxy("Forwarded") # FromProxy("Via")
  <2>1. FromProxy("Forwarded").name # FromProxy("Via").name
    BY Lines2
  <2>. QED BY <2>1, Zenon
<1>10. /\ FromProxy("Forwarded") \in Edited \cup more <=> ~conf.hideIP
       /\ FromProxy("Via") \in Edited \cup more <=> ~conf.hideVia
  <2>1. /\ FromProxy("Forwarded") \in OwnHeaders <=> ~conf.hideIP
        /\ FromProxy("Via") \in OwnHeaders <=> ~conf.hideVia
    BY <1>9, Zenon DEF OwnHeaders
  <2>. QED BY <1>7, <1>8, <2>1, Zenon DEF Edited
<1>11. FromClient("Proxy-Authorization") \notin Edited \cup more
  <2>1. FromClient("Proxy-Authorization").from = "client" /\ "client" # "proxy"
    BY Lines2
  <2>2. FromClient("Proxy-Authorization").name \in hopByHopHeaders
    BY Lines2, Zenon DEF hopByHopHeaders
  <2>3. FromClient("Proxy-Authorization") \notin RemoveHopByHop(req.header)
    BY <2>2, Zenon DEF RemoveHopByHop
  <2>. QED BY <1>3, <1>4, <2>1, <2>3, Zenon DEF Edited
<1>. QED BY <1>6, <1>10, <1>11, Zenon DEF ToOrigin

\* The context's lines suit the upstream.
LEMMA UpstreamLines ==
  ASSUME req \in Requests, ctxHdr = Copied
  PROVE  ToProxy(ToUpstream) /\ FromClient("Proxy-Authorization") \notin ToUpstream
<1>1. \A l \in req.header : l.from = "client"
  BY RequestAssumption, Zenon
<1>2. \A l \in UpstreamAuth : l = FromProxy("Proxy-Authorization")
  BY Zenon DEF UpstreamAuth
<1>3. /\ FromProxy("Proxy-Authorization").from # "client" /\ FromProxy("Forwarded").from # "client"
      /\ FromProxy("Proxy-Authorization").name # "Forwarded" /\ FromProxy("Forwarded").name = "Forwarded"
      /\ FromClient("Proxy-Authorization").name \notin {"Forwarded", "X-Forwarded-For"}
      /\ FromClient("Proxy-Authorization").from = "client"
  BY Lines2
<1>4. ASSUME NEW l \in ToUpstream, l.from = "client"
      PROVE  ~conf.hideIP /\ l \in req.header /\ l.name \in {"Forwarded", "X-Forwarded-For"}
  BY <1>2, <1>3, <1>4, Zenon DEF ToUpstream, Copied
<1>5. FromProxy("Forwarded") \in ToUpstream <=> (~conf.hideIP /\ conf.upstream = "http")
  BY <1>2, <1>3, Zenon DEF ToUpstream, Copied
<1>6. FromClient("Proxy-Authorization") \notin ToUpstream
  BY <1>3, <1>4, Zenon
<1>. QED BY <1>4, <1>5, <1>6, Zenon DEF ToProxy

\* OutgoingHeaders speaks of the messages one by one.
LEMMA EachProper == OutgoingHeaders <=> \A m \in sent : Proper(m)
BY Zenon DEF OutgoingHeaders, Proper

\* A step that sends nothing improper keeps what was sent proper.
LEMMA StillProper ==
  ASSUME OutgoingHeaders, UNCHANGED <<conf, req>>, NEW M, sent' \subseteq sent \cup M,
         \A m \in M : Proper(m)
  PROVE  OutgoingHeaders'
<1>1. \A m \in sent' : Proper(m)
  BY EachProper, Zenon
<1>2. \A m \in sent' : Proper(m)'
  BY <1>1, SameLines, Zenon
<1>. QED BY <1>2, Zenon DEF OutgoingHeaders, Proper

\* A step that sends nothing keeps it so.
LEMMA NothingSent ==
  ASSUME OutgoingHeaders, UNCHANGED <<conf, req, sent>>
  PROVE  OutgoingHeaders'
<1>1. \A m \in sent' : Proper(m)'
  BY EachProper, SameLines, Zenon
<1>. QED BY <1>1, Zenon DEF OutgoingHeaders, Proper

\* The messages of one exchange are proper.
LEMMA ProperMessages ==
  ASSUME req \in Requests
  PROVE  /\ \A more \in {{}, UpstreamAuth} : Proper([to |-> "origin", hdrs |-> Edited \cup more])
         /\ ctxHdr = Copied => Proper([to |-> "upstream", hdrs |-> ToUpstream])
<1>1. ASSUME NEW more \in {{}, UpstreamAuth} PROVE Proper([to |-> "origin", hdrs |-> Edited \cup more])
  <2>. DEFINE m == [to |-> "origin", hdrs |-> Edited \cup more]
  <2>1. m.to = "origin" /\ m.to # "upstream" /\ m.hdrs = Edited \cup more
    OBVIOUS
  <2>2. ToOrigin(Edited \cup more) /\ FromClient("Proxy-Authorization") \notin Edited \cup more
    BY <1>1, OriginLines, Zenon
  <2>. HIDE DEF m
  <2>3. Proper(m)
    BY <2>1, <2>2, Zenon DEF Proper
  <2>. QED BY <2>3, Zenon DEF m
<1>2. ASSUME ctxHdr = Copied PROVE Proper([to |-> "upstream", hdrs |-> ToUpstream])
  <2>. DEFINE m == [to |-> "upstream", hdrs |-> ToUpstream]
  <2>1. m.to = "upstream" /\ m.to # "origin" /\ m.hdrs = ToUpstream
    OBVIOUS
  <2>2. ToProxy(ToUpstream) /\ FromClient("Proxy-Authorization") \notin ToUpstream
    BY <1>2, UpstreamLines, Zenon
  <2>. HIDE DEF m
  <2>3. Proper(m)
    BY <2>1, <2>2, Zenon DEF Proper
  <2>. QED BY <2>3, Zenon DEF m
<1>. QED BY <1>1, <1>2, Zenon

\* Init establishes the invariant, and each step of the handler preserves it.
LEMMA RequestInitially == Init => RequestInv
<1>. SUFFICES ASSUME Init PROVE RequestInv
  OBVIOUS
<1>1. /\ req \in Requests /\ pc = "start" /\ header = req.header /\ hdr = {} /\ uri = "original"
      /\ seen = "none" /\ conn = "none" /\ flushed = FALSE /\ sent = {} /\ resp = "none" /\ out = "pending"
  BY Zenon DEF Init, Untouched
<1>2. Decided /\ Target /\ Hidden
  BY <1>1, Zenon DEF Decided, Target, Hidden, Undecided, Serving
<1>3. NothingForStrangers /\ URIRedactedAfterUse
  BY <1>1, Zenon DEF NothingForStrangers, URIRedactedAfterUse
<1>4. Editing /\ OutgoingHeaders
  BY <1>1, Zenon DEF Editing, OutgoingHeaders, Undecided, Serving
<1>. QED BY <1>1, <1>2, <1>3, <1>4, Zenon DEF RequestInv

\* The invariant is preserved by Authenticate.
LEMMA AuthenticateStep == ASSUME RequestInv, Authenticate PROVE RequestInv'
<1>. USE DEF Authenticate, Goto, RequestInv, Undecided, Serving, Unauthenticated
<1>0. UNCHANGED <<conf, req>>
  BY Zenon
<1>1. Decided' /\ req' \in Requests
  BY DEF Decided
<1>2. NothingForStrangers' /\ Hidden'
  BY DEF Decided, NothingForStrangers, Hidden, ToSecret
<1>3. URIRedactedAfterUse'
  BY DEF Decided, URIRedactedAfterUse, IsConnectUDP, Connect
<1>4. Target'
  BY DEF Decided, Target
<1>5. Editing'
  BY <1>0, SameLines, ZenonT(60) DEF Decided, Editing
<1>6. OutgoingHeaders'
  <2>1. sent' = sent
    BY Zenon
  <2>. QED BY <1>0, <2>1, NothingSent, Zenon
<1>. QED BY <1>1, <1>2, <1>3, <1>4, <1>5, <1>6, Zenon

\* The invariant is preserved by Route.
LEMMA RouteStep == ASSUME RequestInv, Route PROVE RequestInv'
<1>. USE DEF Route, HiddenPage, Pass, CallNext, Unauthorized, Rejected, Serve, Return, Goto, RequestInv,
             Undecided, Serving, Unauthenticated
<1>0. UNCHANGED <<conf, req>>
  BY Zenon
<1>1. Decided' /\ req' \in Requests
  BY SMTT(30) DEF Decided
<1>2. NothingForStrangers' /\ Hidden'
  BY DEF Decided, NothingForStrangers, Hidden, ToSecret
<1>3. URIRedactedAfterUse'
  BY DEF Decided, URIRedactedAfterUse, IsConnectUDP, Connect
<1>4. Target'
  BY DEF Decided, Target
<1>5. Editing'
  <2>1. header' = header /\ header = req.header
    BY Zenon DEF Editing
  <2>2. ctxHdr' = ctxHdr \/ ctxHdr' = Copied
    BY <2>1, Zenon DEF CtxHeader, Copied
  <2>3. pc' \in Serving => ctxHdr' = Copied
    BY <2>1, Zenon DEF CtxHeader, Copied
  <2>4. pc' \notin {"upstream", "direct"}
    BY Zenon
  <2>. QED BY <1>0, <2>1, <2>3, <2>4, SameLines, Zenon DEF Editing
<1>6. OutgoingHeaders'
  <2>1. sent' = sent
    BY Zenon
  <2>. QED BY <1>0, <2>1, NothingSent, Zenon
<1>. QED BY <1>1, <1>2, <1>3, <1>4, <1>5, <1>6, Zenon

\* The invariant is preserved by Negotiate.
LEMMA NegotiateStep == ASSUME RequestInv, Negotiate PROVE RequestInv'
<1>. USE DEF Negotiate, Negotiated, ReplyHeaders, Return, Goto, RequestInv, Undecided, Serving, Unauthenticated
<1>0. UNCHANGED <<conf, req>>
  BY Zenon
<1>1. Decided' /\ req' \in Requests
  BY DEF Decided
<1>2. NothingForStrangers' /\ Hidden'
  BY DEF Decided, NothingForStrangers, Hidden, ToSecret
<1>3. URIRedactedAfterUse'
  BY DEF Decided, URIRedactedAfterUse, IsConnectUDP, Connect
<1>4. Target'
  BY DEF Decided, Target
<1>5. Editing'
  BY <1>0, SameLines, ZenonT(60) DEF Decided, Editing
<1>6. OutgoingHeaders'
  <2>1. sent' = sent
    BY Zenon
  <2>. QED BY <1>0, <2>1, NothingSent, Zenon
<1>. QED BY <1>1, <1>2, <1>3, <1>4, <1>5, <1>6, Zenon

\* The invariant is preserved by ServeUDP.
LEMMA ServeUDPStep == ASSUME RequestInv, ServeUDP PROVE RequestInv'
<1>. USE DEF ServeUDP, Return, RequestInv, Undecided, Serving, Unauthenticated
<1>0. UNCHANGED <<conf, req>>
  BY Zenon
<1>1. Decided' /\ req' \in Requests
  BY DEF Decided
<1>2. NothingForStrangers' /\ Hidden'
  BY DEF Decided, NothingForStrangers, Hidden, ToSecret
<1>3. URIRedactedAfterUse'
  BY DEF Decided, URIRedactedAfterUse, IsConnectUDP, Connect
<1>4. Target'
  BY DEF Decided, Target
<1>5. Editing'
  BY <1>0, SameLines, ZenonT(60) DEF Decided, Editing
<1>6. OutgoingHeaders'
  <2>1. sent' = sent
    BY Zenon
  <2>. QED BY <1>0, <2>1, NothingSent, Zenon
<1>. QED BY <1>1, <1>2, <1>3, <1>4, <1>5, <1>6, Zenon

\* The invariant is preserved by DialUpstream.
LEMMA DialUpstreamStep == ASSUME RequestInv, DialUpstream PROVE RequestInv'
<1>. USE DEF DialUpstream, Send, Return, Goto, RequestInv, Undecided, Serving, Unauthenticated
<1>0. UNCHANGED <<conf, req>>
  BY Zenon
<1>1. Decided' /\ req' \in Requests
  BY DEF Decided
<1>2. NothingForStrangers' /\ Hidden'
  BY DEF Decided, NothingForStrangers, Hidden, ToSecret
<1>3. URIRedactedAfterUse'
  BY DEF Decided, URIRedactedAfterUse, IsConnectUDP, Connect
<1>4. Target'
  BY DEF Decided, Target
<1>5. Editing'
  BY <1>0, SameLines, ZenonT(60) DEF Decided, Editing
<1>6. OutgoingHeaders'
  <2>1. ctxHdr = Copied
    BY Zenon DEF Editing
  <2>. DEFINE M == {[to |-> "upstream", hdrs |-> ToUpstream]}
  <2>2. sent' \subseteq sent \cup M
    BY Zenon
  <2>3. \A m \in M : Proper(m)
    BY <2>1, ProperMessages, Zenon
  <2>. HIDE DEF M
  <2>. QED BY <1>0, <2>2, <2>3, StillProper, Zenon
<1>. QED BY <1>1, <1>2, <1>3, <1>4, <1>5, <1>6, Zenon

\* The invariant is preserved by DialDirect.
LEMMA DialDirectStep == ASSUME RequestInv, DialDirect PROVE RequestInv'
<1>. USE DEF DialDirect, Return, Goto, RequestInv, Undecided, Serving, Unauthenticated
<1>0. UNCHANGED <<conf, req>>
  BY Zenon
<1>1. Decided' /\ req' \in Requests
  BY DEF Decided
<1>2. NothingForStrangers' /\ Hidden'
  BY DEF Decided, NothingForStrangers, Hidden, ToSecret
<1>3. URIRedactedAfterUse'
  BY DEF Decided, URIRedactedAfterUse, IsConnectUDP, Connect
<1>4. Target'
  BY DEF Decided, Target
<1>5. Editing'
  BY <1>0, SameLines, ZenonT(60) DEF Decided, Editing
<1>6. OutgoingHeaders'
  <2>1. sent' = sent
    BY Zenon
  <2>. QED BY <1>0, <2>1, NothingSent, Zenon
<1>. QED BY <1>1, <1>2, <1>3, <1>4, <1>5, <1>6, Zenon

\* The invariant is preserved by Established.
LEMMA EstablishedStep == ASSUME RequestInv, Established PROVE RequestInv'
<1>. USE DEF Established, Return, Goto, RequestInv, Undecided, Serving, Unauthenticated
<1>0. UNCHANGED <<conf, req>>
  BY Zenon
<1>1. Decided' /\ req' \in Requests
  BY DEF Decided
<1>2. NothingForStrangers' /\ Hidden'
  BY DEF Decided, NothingForStrangers, Hidden, ToSecret
<1>3. URIRedactedAfterUse'
  BY DEF Decided, URIRedactedAfterUse, IsConnectUDP, Connect
<1>4. Target'
  BY DEF Decided, Target
<1>5. Editing'
  BY <1>0, SameLines, ZenonT(60) DEF Decided, Editing
<1>6. OutgoingHeaders'
  <2>1. sent' = sent
    BY Zenon
  <2>. QED BY <1>0, <2>1, NothingSent, Zenon
<1>. QED BY <1>1, <1>2, <1>3, <1>4, <1>5, <1>6, Zenon

\* The invariant is preserved by Hijack.
LEMMA HijackStep == ASSUME RequestInv, Hijack PROVE RequestInv'
<1>. USE DEF Hijack, Return, RequestInv, Undecided, Serving, Unauthenticated
<1>0. UNCHANGED <<conf, req>>
  BY Zenon
<1>1. Decided' /\ req' \in Requests
  BY Zenon DEF Decided
<1>2. NothingForStrangers' /\ Hidden'
  BY Zenon DEF Decided, NothingForStrangers, Hidden, ToSecret
<1>3. URIRedactedAfterUse'
  BY DEF Decided, URIRedactedAfterUse, IsConnectUDP, Connect
<1>4. Target'
  BY Zenon DEF Decided, Target
<1>5. Editing'
  BY <1>0, SameLines, ZenonT(60) DEF Decided, Editing
<1>6. OutgoingHeaders'
  <2>1. sent' = sent
    BY Zenon
  <2>. QED BY <1>0, <2>1, NothingSent, Zenon
<1>. QED BY <1>1, <1>2, <1>3, <1>4, <1>5, <1>6, Zenon

\* The invariant is preserved by Stream.
LEMMA StreamStep == ASSUME RequestInv, Stream PROVE RequestInv'
<1>. USE DEF Stream, Return, RequestInv, Undecided, Serving, Unauthenticated
<1>0. UNCHANGED <<conf, req>>
  BY Zenon
<1>1. Decided' /\ req' \in Requests
  BY Zenon DEF Decided
<1>2. NothingForStrangers' /\ Hidden'
  BY Zenon DEF Decided, NothingForStrangers, Hidden, ToSecret
<1>3. URIRedactedAfterUse'
  BY Zenon DEF Decided, URIRedactedAfterUse, IsConnectUDP, Connect
<1>4. Target'
  BY Zenon DEF Decided, Target
<1>5. Editing'
  BY <1>0, SameLines, ZenonT(60) DEF Decided, Editing
<1>6. OutgoingHeaders'
  <2>1. sent' = sent
    BY Zenon
  <2>. QED BY <1>0, <2>1, NothingSent, Zenon
<1>. QED BY <1>1, <1>2, <1>3, <1>4, <1>5, <1>6, Zenon

\* The invariant is preserved by Normalize.
LEMMA NormalizeStep == ASSUME RequestInv, Normalize PROVE RequestInv'
<1>. USE DEF Normalize, EditHeader, Edited, Goto, RequestInv, Undecided, Serving,
             Unauthenticated
<1>0. UNCHANGED <<conf, req>>
  BY Zenon
<1>1. Decided' /\ req' \in Requests
  BY Zenon DEF Decided
<1>2. NothingForStrangers' /\ Hidden'
  BY DEF Decided, NothingForStrangers, Hidden, ToSecret
<1>3. URIRedactedAfterUse'
  BY Zenon DEF Decided, URIRedactedAfterUse, IsConnectUDP, Connect
<1>4. Target'
  BY Zenon DEF Decided, Target
<1>5. Editing'
  BY <1>0, SameLines, ZenonT(60) DEF Decided, Editing
<1>6. OutgoingHeaders'
  <2>1. sent' = sent
    BY Zenon
  <2>. QED BY <1>0, <2>1, NothingSent, Zenon
<1>. QED BY <1>1, <1>2, <1>3, <1>4, <1>5, <1>6, Zenon

\* The invariant is preserved by RoundTrip.
LEMMA RoundTripStep == ASSUME RequestInv, RoundTrip PROVE RequestInv'
<1>. USE DEF RoundTrip, Send, Return, Goto, RequestInv, Undecided, Serving, Unauthenticated
<1>0. UNCHANGED <<conf, req>>
  BY Zenon
<1>1. Decided' /\ req' \in Requests
  BY Zenon DEF Decided
<1>2. NothingForStrangers' /\ Hidden'
  BY Zenon DEF Decided, NothingForStrangers, Hidden, ToSecret
<1>3. URIRedactedAfterUse'
  BY Zenon DEF Decided, URIRedactedAfterUse, IsConnectUDP, Connect
<1>4. Target'
  BY Zenon DEF Decided, Target
<1>5. Editing'
  BY <1>0, SameLines, ZenonT(60) DEF Decided, Editing
<1>6. OutgoingHeaders'
  <2>1. header = Edited \cup {}
    BY Zenon DEF Editing
  <2>. DEFINE M == {[to |-> "origin", hdrs |-> Edited \cup {}]}
  <2>2. sent' \subseteq sent \cup M
    BY <2>1, Zenon
  <2>3. \A m \in M : Proper(m)
    BY ProperMessages, Zenon
  <2>. HIDE DEF M
  <2>. QED BY <1>0, <2>2, <2>3, StillProper, Zenon
<1>. QED BY <1>1, <1>2, <1>3, <1>4, <1>5, <1>6, Zenon

\* The invariant is preserved by UpstreamExchange.
LEMMA UpstreamExchangeStep == ASSUME RequestInv, UpstreamExchange PROVE RequestInv'
<1>. USE DEF UpstreamExchange, Send, Return, Goto, RequestInv, Undecided, Serving, Unauthenticated
<1>0. UNCHANGED <<conf, req>>
  BY Zenon
<1>1. Decided' /\ req' \in Requests
  BY Zenon DEF Decided
<1>2. NothingForStrangers' /\ Hidden'
  BY Zenon DEF Decided, NothingForStrangers, Hidden, ToSecret
<1>3. URIRedactedAfterUse'
  BY Zenon DEF Decided, URIRedactedAfterUse, IsConnectUDP, Connect
<1>4. Target'
  BY Zenon DEF Decided, Target
<1>5. Editing'
  BY <1>0, SameLines, ZenonT(60) DEF Decided, Editing
<1>6. OutgoingHeaders'
  <2>1. ctxHdr = Copied /\ header' = Edited \cup UpstreamAuth
    BY Zenon DEF Editing
  <2>. DEFINE M == {[to |-> "upstream", hdrs |-> ToUpstream],
                    [to |-> "origin", hdrs |-> Edited \cup UpstreamAuth]}
  <2>2. sent' \subseteq sent \cup M
    BY <2>1, Zenon
  <2>3. \A m \in M : Proper(m)
    BY <2>1, ProperMessages, Zenon
  <2>. HIDE DEF M
  <2>. QED BY <1>0, <2>2, <2>3, StillProper, Zenon
<1>. QED BY <1>1, <1>2, <1>3, <1>4, <1>5, <1>6, Zenon

\* The invariant is preserved by CloseBody.
LEMMA CloseBodyStep == ASSUME RequestInv, CloseBody PROVE RequestInv'
<1>. USE DEF CloseBody, Return, Goto, RequestInv, Undecided, Serving, Unauthenticated
<1>0. UNCHANGED <<conf, req>>
  BY Zenon
<1>1. Decided' /\ req' \in Requests
  BY Zenon DEF Decided
<1>2. NothingForStrangers' /\ Hidden'
  BY Zenon DEF Decided, NothingForStrangers, Hidden, ToSecret
<1>3. URIRedactedAfterUse'
  BY Zenon DEF Decided, URIRedactedAfterUse, IsConnectUDP, Connect
<1>4. Target'
  BY Zenon DEF Decided, Target
<1>5. Editing'
  BY <1>0, SameLines, ZenonT(60) DEF Decided, Editing
<1>6. OutgoingHeaders'
  <2>1. sent' = sent
    BY Zenon
  <2>. QED BY <1>0, <2>1, NothingSent, Zenon
<1>. QED BY <1>1, <1>2, <1>3, <1>4, <1>5, <1>6, Zenon

\* The invariant is preserved by Deliver.
LEMMA DeliverStep == ASSUME RequestInv, Deliver PROVE RequestInv'
<1>. USE DEF Deliver, ForwardResponse, Return, RequestInv, Undecided, Serving, Unauthenticated
<1>0. UNCHANGED <<conf, req>>
  BY Zenon
<1>1. Decided' /\ req' \in Requests
  BY Zenon DEF Decided
<1>2. NothingForStrangers' /\ Hidden'
  BY DEF Decided, NothingForStrangers, Hidden, ToSecret
<1>3. URIRedactedAfterUse'
  BY DEF Decided, URIRedactedAfterUse, IsConnectUDP, Connect
<1>4. Target'
  BY Zenon DEF Decided, Target
<1>5. Editing'
  BY <1>0, SameLines, ZenonT(60) DEF Decided, Editing
<1>6. OutgoingHeaders'
  <2>1. sent' = sent
    BY Zenon
  <2>. QED BY <1>0, <2>1, NothingSent, Zenon
<1>. QED BY <1>1, <1>2, <1>3, <1>4, <1>5, <1>6, Zenon

\* The invariant is preserved by RunDeferred.
LEMMA RunDeferredStep == ASSUME RequestInv, RunDeferred PROVE RequestInv'
<1>. USE DEF RunDeferred, DeferredClose, DeferredRedact, Goto, RequestInv, Undecided, Serving, Unauthenticated
<1>0. UNCHANGED <<conf, req>>
  BY Zenon
<1>1. Decided' /\ req' \in Requests
  BY Zenon DEF Decided
<1>2. NothingForStrangers' /\ Hidden'
  BY Zenon DEF Decided, NothingForStrangers, Hidden, ToSecret
<1>3. URIRedactedAfterUse'
  BY DEF Decided, URIRedactedAfterUse, IsConnectUDP, Connect
<1>4. Target'
  BY Zenon DEF Decided, Target
<1>5. Editing'
  BY <1>0, SameLines, ZenonT(60) DEF Decided, Editing
<1>6. OutgoingHeaders'
  <2>1. sent' = sent
    BY Zenon
  <2>. QED BY <1>0, <2>1, NothingSent, Zenon
<1>. QED BY <1>1, <1>2, <1>3, <1>4, <1>5, <1>6, Zenon

\* Nothing happens after the end, or when the handler does not move.
LEMMA StutterStep == ASSUME RequestInv, UNCHANGED vars PROVE RequestInv'
<1>. USE DEF vars, RequestInv, Undecided, Serving, Unauthenticated
<1>1. Decided' /\ req' \in Requests
  BY Zenon DEF Decided
<1>2. NothingForStrangers' /\ Hidden'
  BY DEF NothingForStrangers, Hidden, ToSecret
<1>3. URIRedactedAfterUse' /\ Target'
  BY Zenon DEF URIRedactedAfterUse, IsConnectUDP, Connect, Target
<1>4. Editing'
  BY SameLines, Zenon DEF Editing
<1>5. OutgoingHeaders'
  <2>1. UNCHANGED <<conf, req, sent>>
    BY Zenon
  <2>. QED BY <2>1, NothingSent, Zenon
<1>. QED BY <1>1, <1>2, <1>3, <1>4, <1>5, Zenon

\* Any step at all preserves the invariant.
LEMMA RequestInductive == RequestInv /\ [Next]_vars => RequestInv'
BY AuthenticateStep, RouteStep, NegotiateStep, ServeUDPStep, DialUpstreamStep, DialDirectStep, EstablishedStep,
   HijackStep, StreamStep, NormalizeStep, RoundTripStep, UpstreamExchangeStep, CloseBodyStep,
   DeliverStep, RunDeferredStep, StutterStep, ZenonT(60)
DEF Next, Finished

\* The invariant holds throughout.
LEMMA RequestInvariance == Spec => []RequestInv
BY RequestInitially, RequestInductive, PTL DEF Spec

(* Whatever is configured and requested, the handler of a request without    *)
(* the valid credentials that are asked for dials and sends nothing.         *)
THEOREM StrangersGetNothing == Spec => []NothingForStrangers
<1>1. RequestInv => NothingForStrangers
  BY DEF RequestInv
<1>. QED BY <1>1, RequestInvariance, PTL

(* Under probe resistance the handler of an unauthenticated request ends in  *)
(* the next handler or the PAC file with no header of the proxy's, unless    *)
(* the request is for the secret domain.                                     *)
THEOREM ProbesAlwaysSeeTheSite == Spec => []ProbesSeeTheSite
<1>1. RequestInv => ProbesSeeTheSite
  BY DEF RequestInv, Hidden, ProbesSeeTheSite
<1>. QED BY <1>1, RequestInvariance, PTL

(* The next handler sees a CONNECT-UDP request's own URI, and no way out of  *)
(* ServeHTTP leaves it unredacted.                                           *)
THEOREM URIsAreRedacted == Spec => []URIRedactedAfterUse
<1>1. RequestInv => URIRedactedAfterUse
  BY SMTT(30) DEF RequestInv
<1>. QED BY <1>1, RequestInvariance, PTL

(* A CONNECT is answered 200 over an open connection to its target, and      *)
(* ServeHTTP leaves none open.                                               *)
THEOREM TargetsAreClosed == Spec => []EstablishedThenClosed
<1>1. RequestInv => EstablishedThenClosed
  BY SMTT(30) DEF RequestInv, Target, EstablishedThenClosed
<1>. QED BY <1>1, RequestInvariance, PTL

(* Whatever headers the client sends and nominates, an origin gets exactly   *)
(* the client's end-to-end lines, the upstream's CONNECT none but its        *)
(* forwarding ones, neither the client's credentials, and both the proxy's   *)
(* own Forwarded and Via as configured, nominated or not.                    *)
THEOREM HeadersAreEdited == Spec => []OutgoingHeaders
<1>1. RequestInv => OutgoingHeaders
  BY SMTT(30) DEF RequestInv
<1>. QED BY <1>1, RequestInvariance, PTL

-----------------------------------------------------------------------------
(* From the block to the handler *)

Check == "disable_insecure_upstreams_check"
Named(i) == file[i].name = "upstream" /\ file[i].args # <<"">>

\* The fields that the properties are about.
Watched ==
  {"Upstream", "DisableInsecureUpstreamsCheck", "AuthCredentials", "ProbeResistance", "HideIP", "ACL"}

Parsed ==
  /\ file \in Files /\ at \in 1..(Len(file) + 1)
  /\ Watched \subseteq DOMAIN h
  /\ \A i \in 1..(at - 1) : Named(i) =>
       /\ h.Upstream # "" /\ h.Upstream = file[i].args[1]
       /\ \A j \in 1..(at - 1) : Named(j) => j = i
  /\ h.Upstream # "" => \E i \in 1..(at - 1) : Named(i)
  /\ h.DisableInsecureUpstreamsCheck => \E i \in 1..(at - 1) : file[i].name = Check

Provisioned ==
  /\ made \in Nat
  /\ stage \in {"provision", "ready"} => at = Len(file) + 1
  /\ stage = "ready" =>
       /\ made # 0 /\ shown = made
       /\ dialer \in {"direct", "socks5", "own"}
       /\ dialer = "direct" <=> h.Upstream = ""
       /\ h.Upstream # "" => ~InsecureUpstream(ParseURL[h.Upstream])

Traffic ==
  /\ pc = "idle" => sent = {}
  /\ pc # "idle" => stage = "ready" /\ conf = ConfOf
  /\ pc = "upstream" => conf.upstream # "none"
  /\ (\E m \in sent : m.to = "upstream") => conf.upstream # "none"

IInv == Parsed /\ Provisioned /\ Traffic

\* The invariant holds before the block is read.
LEMMA Initially == ServerInit => IInv
<1>. SUFFICES ASSUME ServerInit PROVE IInv
  OBVIOUS
<1>. USE DEF ServerInit, ConfigInit, Untouched
<1>0. ~h.DisableInsecureUpstreamsCheck
  BY Zenon DEF ZeroHandler
<1>1. Parsed
  <2>1. h.Upstream = "" /\ Watched \subseteq DOMAIN h
    BY Zenon DEF ZeroHandler, Watched
  <2>2. at = 1 /\ file \in Files /\ at \in 1..(Len(file) + 1) /\ 1..(at - 1) = {}
    BY FilesAssumption
  <2>. QED BY <1>0, <2>1, <2>2, Zenon DEF Parsed
<1>2. Provisioned /\ Traffic
  BY ZenonT(60) DEF Provisioned, Traffic
<1>. QED BY <1>1, <1>2 DEF IInv

\* What a directive that is accepted does to the fields.
LEMMA FieldsSet ==
  ASSUME Parsed, NEW d, d.name # "acl" => d.args \in Seq(STRING), ~BadArgs(d)
  PROVE  /\ Watched \subseteq DOMAIN SetField(d)
         /\ SetField(d).Upstream = IF d.name = "upstream" THEN d.args[1] ELSE h.Upstream
         /\ d.name # Check => SetField(d).DisableInsecureUpstreamsCheck = h.DisableInsecureUpstreamsCheck
         /\ SetField(d).AuthCredentials =
              IF d.name = "basic_auth" THEN Append(h.AuthCredentials, d.args) ELSE h.AuthCredentials
         /\ SetField(d).ProbeResistance = IF d.name = "probe_resistance" THEN "set" ELSE h.ProbeResistance
         /\ IF d.name = "hide_ip" THEN SetField(d).HideIP ELSE SetField(d).HideIP = h.HideIP
         /\ SetField(d).ACL =
              IF d.name = "acl" THEN h.ACL \o [i \in DOMAIN d.lines |-> Rule(d.lines[i])] ELSE h.ACL
<1>. USE DEF SetField, Parsed, Check, Watched
<1>1. CASE d.name = "acl" BY <1>1, Zenon
<1>2. CASE d.name = "basic_auth" BY <1>2, Zenon
<1>3. CASE d.name = "hosts" BY <1>3, ZenonT(60)
<1>4. CASE d.name = "ports" BY <1>4, Zenon
<1>5. CASE d.name = "hide_ip" BY <1>5, Zenon
<1>6. CASE d.name = "hide_via" BY <1>6, ZenonT(60)
<1>7. CASE d.name = "disable_insecure_upstreams_check" BY <1>7, ZenonT(60)
<1>8. CASE d.name = "probe_resistance" BY <1>8, ZenonT(60)
<1>9. CASE d.name = "serve_pac" BY <1>9, ZenonT(60)
<1>10. CASE d.name = "dial_timeout" BY <1>10, ZenonT(60)
<1>11. CASE d.name = "max_idle_conns" BY <1>11, ZenonT(60)
<1>12. CASE d.name = "max_idle_conns_per_host" BY <1>12, ZenonT(60)
<1>13. CASE d.name = "upstream" BY <1>13, ZenonT(60)
<1>14. d.name \in {"acl", "basic_auth", "hosts", "ports", "hide_ip", "hide_via", Check, "probe_resistance",
                   "serve_pac", "dial_timeout", "max_idle_conns", "max_idle_conns_per_host", "upstream"}
  BY ZenonT(60) DEF BadArgs, Flags
<1>. QED
  BY <1>1, <1>2, <1>3, <1>4, <1>5, <1>6, <1>7, <1>8, <1>9, <1>10, <1>11, <1>12, <1>13, <1>14, ZenonT(60)

\* The one argument of a directive is the empty string.
LEMMA EmptyArgument == \A s \in Seq(STRING) : Len(s) = 1 => (s = <<"">> <=> s[1] = "")
<1>. SUFFICES ASSUME NEW s \in Seq(STRING), Len(s) = 1 PROVE s = <<"">> <=> s[1] = ""
  BY Zenon
<1>1. s = <<s[1]>>
  OBVIOUS
<1>2. <<"">>[1] = ""
  OBVIOUS
<1>. QED BY <1>1, <1>2, Zenon

\* The fields and the directives are left alone by every other step.
LEMMA ParsedKept == ASSUME Parsed, UNCHANGED <<file, at, h>> PROVE Parsed'
BY ZenonT(60) DEF Parsed, Named

\* Reading a directive keeps the fields what the directives say.
LEMMA ParseStep == ASSUME IInv, UnmarshalDirective PROVE Parsed'
<1>. DEFINE d == file[at]
<1>a. Parsed /\ file' = file /\ file \in Files
  BY Zenon DEF IInv, Parsed, UnmarshalDirective
<1>b. Len(file) \in Nat /\ DOMAIN file = 1..Len(file)
  BY <1>a, FilesAssumption
<1>c. at \in 1..Len(file)
  <2>1. at \in 1..(Len(file) + 1)
    BY <1>a, Zenon DEF Parsed
  <2>2. at <= Len(file)
    BY Zenon DEF UnmarshalDirective
  <2>. QED BY <1>b, <2>1, <2>2
<1>d. d.name # "acl" => d.args \in Seq(STRING)
  BY <1>a, <1>b, <1>c, FilesAssumption, Zenon
<1>0. /\ Parsed /\ file' = file /\ file \in Files /\ Len(file) \in Nat /\ at \in 1..Len(file)
      /\ d.name # "acl" => d.args \in Seq(STRING)
  BY <1>a, <1>b, <1>c, <1>d, Zenon
<1>1. CASE BadArgs(d) \/ Twice(d)
  <2>1. UNCHANGED <<file, at, h>>
    BY <1>0, <1>1, Zenon DEF UnmarshalDirective
  <2>. QED BY <1>0, <2>1, ParsedKept
<1>2. CASE ~(BadArgs(d) \/ Twice(d))
  <2>1. h' = SetField(d) /\ at' = at + 1
    BY <1>2 DEF UnmarshalDirective
  <2>2. /\ Watched \subseteq DOMAIN h'
        /\ h'.Upstream = IF d.name = "upstream" THEN d.args[1] ELSE h.Upstream
        /\ d.name # Check => h'.DisableInsecureUpstreamsCheck = h.DisableInsecureUpstreamsCheck
    BY <1>0, <1>2, <2>1, FieldsSet, Zenon
  <2>3. \A i : Named(i)' <=> Named(i)
    BY <1>0, Zenon DEF Named
  <2>4. 1..(at' - 1) = 1..(at - 1) \cup {at} /\ at \notin 1..(at - 1) /\ at' \in 1..(Len(file) + 1)
    BY <1>0, <2>1
  <2>5. CASE d.name = "upstream"
    <3>1. h.Upstream = "" /\ d.args \in Seq(STRING) /\ Len(d.args) = 1
      BY <1>0, <1>2, <2>5, Zenon DEF Twice, BadArgs, Flags
    <3>2. Named(at) <=> d.args[1] # ""
      BY <2>5, <3>1, EmptyArgument, Zenon DEF Named
    <3>3. \A i \in 1..(at - 1) : ~Named(i)
      BY <1>0, <3>1, Zenon DEF Parsed
    <3>4. h'.DisableInsecureUpstreamsCheck => \E i \in 1..(at - 1) : file[i].name = Check
      BY <1>0, <2>2, <2>5, Zenon DEF Parsed, Check
    <3>. HIDE DEF d
    <3>5. h'.Upstream = d.args[1] /\ d = file[at]
      BY <2>2, <2>5 DEF d
    <3>. QED BY <1>0, <2>2, <2>3, <2>4, <3>2, <3>3, <3>4, <3>5, Zenon DEF Parsed
  <2>6. CASE d.name # "upstream"
    <3>1. h'.Upstream = h.Upstream /\ ~Named(at)
      BY <2>2, <2>6, Zenon DEF Named
    <3>2. h'.DisableInsecureUpstreamsCheck => \E i \in 1..(at' - 1) : file[i].name = Check
      <4>1. CASE d.name = Check
        BY <2>4, <4>1, Zenon
      <4>2. CASE d.name # Check
        BY <1>0, <2>2, <2>4, <4>2, Zenon DEF Parsed
      <4>. QED BY <4>1, <4>2, Zenon
    <3>. QED BY <1>0, <2>2, <2>3, <2>4, <3>1, <3>2, Zenon DEF Parsed
  <2>. QED BY <2>5, <2>6, Zenon
<1>. QED BY <1>1, <1>2

\* Provision builds a dialer only from an upstream that may be used.
LEMMA ProvisionStep == ASSUME IInv, Provision PROVE Provisioned'
<1>0. made' = Collectors /\ shown' = Collectors /\ stage = "provision" /\ UNCHANGED <<file, at, h>>
  BY Zenon DEF Provision, InitMetrics
<1>1. made' \in Nat /\ made' # 0 /\ shown' = made'
  BY <1>0 DEF Collectors, IInv, Provisioned
<1>2. at' = Len(file') + 1 /\ h' = h
  BY <1>0 DEF IInv, Provisioned
<1>3. ASSUME stage' = "ready"
      PROVE  /\ dialer' \in {"direct", "socks5", "own"}
             /\ dialer' = "direct" <=> h.Upstream = ""
             /\ h.Upstream # "" => ~InsecureUpstream(ParseURL[h.Upstream])
  BY <1>3, Zenon DEF Provision, UpstreamDialer, FromURL, Registered, Ready, Refuse
<1>4. InsecureUpstream(ParseURL[h.Upstream])' <=> InsecureUpstream(ParseURL[h.Upstream])
  BY <1>2, Zenon DEF InsecureUpstream
<1>. QED BY <1>1, <1>2, <1>3, <1>4, Zenon DEF Provisioned

\* Each step of reading and provisioning preserves the invariant.
LEMMA ConfigStep == ASSUME IInv, pc = "idle", ConfigNext, UNCHANGED vars PROVE IInv'
<1>1. Traffic'
  BY DEF IInv, Traffic, vars
<1>2. CASE UnmarshalDirective
  <2>1. stage = "parse" /\ stage' \in {"parse", "refused"} /\ made' = made
    BY <1>2 DEF UnmarshalDirective
  <2>2. Provisioned'
    BY <2>1, Zenon DEF IInv, Provisioned
  <2>. QED BY <1>1, <1>2, <2>2, ParseStep, Zenon DEF IInv
<1>3. CASE Unmarshalled
  <2>1. Parsed'
    BY <1>3, ParsedKept, Zenon DEF Unmarshalled, IInv
  <2>2. at = Len(file) + 1
    <3>1. file \in Files /\ at \in 1..(Len(file) + 1)
      BY Zenon DEF IInv, Parsed
    <3>2. at > Len(file)
      BY <1>3, Zenon DEF Unmarshalled
    <3>3. Len(file) \in Nat
      BY <3>1, FilesAssumption, Zenon
    <3>. QED BY <3>1, <3>2, <3>3
  <2>3. Provisioned'
    BY <1>3, <2>2, Zenon DEF Unmarshalled, IInv, Provisioned
  <2>. QED BY <1>1, <2>1, <2>3, Zenon DEF IInv
<1>4. CASE NoMetrics
  <2>1. Parsed'
    BY <1>4, ParsedKept, Zenon DEF NoMetrics, IInv
  <2>2. Provisioned'
    BY <1>4 DEF NoMetrics, IInv, Provisioned, Collectors
  <2>. QED BY <1>1, <2>1, <2>2 DEF IInv
<1>5. CASE Provision
  <2>1. Parsed'
    BY <1>5, ParsedKept, Zenon DEF Provision, IInv
  <2>. QED BY <1>1, <1>5, <2>1, ProvisionStep DEF IInv
<1>6. CASE ProvisionOther
  <2>1. Parsed'
    BY <1>6, ParsedKept DEF ProvisionOther, IInv
  <2>2. Provisioned'
    BY <1>6, Zenon DEF ProvisionOther, IInv, Provisioned, Collectors, InsecureUpstream
  <2>. QED BY <1>1, <2>1, <2>2 DEF IInv
<1>. QED BY <1>2, <1>3, <1>4, <1>5, <1>6, ZenonT(60) DEF ConfigNext

\* A request leaves the configuration alone.
LEMMA ConfigKept == ASSUME IInv, UNCHANGED configVars PROVE Parsed' /\ Provisioned' /\ ConfOf' = ConfOf
<1>1. UNCHANGED <<file, at, h, stage, dialer, made, shown>>
  BY DEF configVars
<1>2. Parsed'
  BY <1>1, ParsedKept DEF IInv
<1>3. Provisioned'
  BY <1>1, Zenon DEF IInv, Provisioned, InsecureUpstream
<1>4. ConfOf' = ConfOf
  BY <1>1, ZenonT(200) DEF ConfOf
<1>. QED BY <1>2, <1>3, <1>4, Zenon

\* Only the two ways through an upstream send anything to it.
LEMMA ServeStep ==
  ASSUME IInv, Next, UNCHANGED configVars PROVE Traffic' /\ pc # "idle" /\ pc' # "idle"
<1>. DEFINE ToUp(s) == \E m \in s : m.to = "upstream"
<1>1. ConfOf' = ConfOf /\ stage' = stage
  BY ConfigKept, Zenon DEF configVars
<1>. SUFFICES /\ pc # "idle" /\ pc' # "idle" /\ conf' = conf
              /\ pc' = "upstream" => conf.upstream # "none"
              /\ ToUp(sent') => ToUp(sent) \/ conf.upstream # "none"
  BY <1>1, Zenon DEF IInv, Traffic
<1>. USE DEF Return, Goto
<1>2. CASE Authenticate BY <1>2, Zenon DEF Authenticate
<1>3. CASE Route
  BY <1>3, Zenon DEF Route, HiddenPage, Pass, CallNext, Unauthorized, Serve
<1>4. CASE Negotiate BY <1>4, Zenon DEF Negotiate
<1>5. CASE ServeUDP BY <1>5, Zenon DEF ServeUDP
<1>6. CASE DialUpstream BY <1>6, Zenon DEF DialUpstream
<1>7. CASE DialDirect BY <1>7, Zenon DEF DialDirect
<1>8. CASE Established BY <1>8, Zenon DEF Established
<1>9. CASE Hijack BY <1>9, Zenon DEF Hijack
<1>10. CASE Stream BY <1>10, Zenon DEF Stream
<1>11. CASE Normalize BY <1>11, Zenon DEF Normalize
<1>12. CASE RoundTrip BY <1>12, SMTT(30) DEF RoundTrip, Send
<1>13. CASE UpstreamExchange BY <1>13, Zenon DEF UpstreamExchange, IInv, Traffic
<1>14. CASE CloseBody BY <1>14, Zenon DEF CloseBody
<1>15. CASE Deliver BY <1>15, Zenon DEF Deliver, ForwardResponse
<1>16. CASE RunDeferred BY <1>16, ZenonT(60) DEF RunDeferred
<1>17. CASE Finished BY <1>17 DEF Finished, vars, IInv, Traffic
<1>. QED
  BY <1>2, <1>3, <1>4, <1>5, <1>6, <1>7, <1>8, <1>9, <1>10, <1>11, <1>12, <1>13, <1>14, <1>15,
     <1>16, <1>17, Zenon DEF Next

\* The invariant is preserved by every step of the server.
LEMMA Inductive == IInv /\ [ServerNext]_<<vars, configVars>> => IInv'
<1>. SUFFICES ASSUME IInv, [ServerNext]_<<vars, configVars>> PROVE IInv'
  OBVIOUS
<1>1. CASE pc = "idle" /\ ConfigNext /\ UNCHANGED vars
  BY <1>1, ConfigStep, Zenon
<1>2. CASE Arrive
  <2>1. UNCHANGED configVars /\ pc = "idle" /\ pc' = "start" /\ stage = "ready"
        /\ conf' = ConfOf /\ sent' = sent
    BY <1>2, Zenon DEF Arrive
  <2>2. Parsed' /\ Provisioned' /\ ConfOf' = ConfOf /\ stage' = stage
    BY <2>1, ConfigKept, Zenon DEF configVars
  <2>3. Traffic'
    BY <2>1, <2>2, Zenon DEF IInv, Traffic
  <2>. QED BY <2>2, <2>3, Zenon DEF IInv
<1>3. CASE Next /\ UNCHANGED configVars
  BY <1>3, ConfigKept, ServeStep, Zenon DEF IInv
<1>4. CASE UNCHANGED <<vars, configVars>>
  <2>1. Parsed' /\ Provisioned' /\ ConfOf' = ConfOf /\ stage' = stage
    BY <1>4, ConfigKept, ZenonT(60) DEF configVars
  <2>2. Traffic'
    BY <1>4, <2>1, SMTT(30) DEF IInv, Traffic, vars
  <2>. QED BY <2>1, <2>2, SMTT(30) DEF IInv
<1>. QED BY <1>1, <1>2, <1>3, <1>4, Zenon DEF ServerNext, Refused

\* The invariant holds throughout.
LEMMA Invariance == ServerSpec => []IInv
BY Initially, Inductive, PTL DEF ServerSpec

\* At the end every directive has been read.
LEMMA WholeFile == ASSUME Parsed, at = Len(file) + 1 PROVE DOMAIN file = 1..(at - 1)
<1>1. file \in Files
  BY Zenon DEF Parsed
<1>2. Len(file) \in Nat /\ DOMAIN file = 1..Len(file)
  BY <1>1, FilesAssumption, Zenon
<1>3. at - 1 = Len(file)
  BY <1>2
<1>. QED BY <1>2, <1>3, Zenon

-----------------------------------------------------------------------------
(* initConnectUDPMetrics: however often handlers are provisioned, the metrics *)
(* registry of a handler in service shows the collectors that are counted in. *)
THEOREM MetricsAreShared == ServerSpec => []MetricsShared
<1>1. IInv => MetricsShared
  BY Zenon DEF IInv, Provisioned, MetricsShared
<1>. QED BY Invariance, <1>1, PTL

(* UnmarshalCaddyfile and Provision: a handler in service dials through the   *)
(* one upstream its block names, and dials directly only if it names none.    *)
THEOREM UpstreamIsOwn == ServerSpec => []OwnUpstream
<1>1. ASSUME IInv, stage = "ready" PROVE OwnUpstream
  <2>1. at = Len(file) + 1 /\ dialer \in {"direct", "socks5", "own"}
        /\ (dialer = "direct" <=> h.Upstream = "")
    BY <1>1, Zenon DEF IInv, Provisioned
  <2>2. DOMAIN file = 1..(at - 1)
    BY <1>1, <2>1, WholeFile, Zenon DEF IInv
  <2>3. /\ \A i \in DOMAIN file : Named(i) =>
             /\ h.Upstream # "" /\ h.Upstream = file[i].args[1]
             /\ \A j \in DOMAIN file : Named(j) => j = i
        /\ h.Upstream # "" => \E i \in DOMAIN file : Named(i)
    BY <1>1, <2>2, Zenon DEF IInv, Parsed
  <2>. QED BY <2>1, <2>3, Zenon DEF OwnUpstream, Named
<1>2. IInv => OwnUpstream
  BY <1>1, Zenon DEF OwnUpstream
<1>. QED BY Invariance, <1>2, PTL

(* Provision: what a request sends to an upstream on another host goes over   *)
(* TLS, unless the block disables the check of insecure upstreams.            *)
THEOREM UpstreamIsSecure == ServerSpec => []SecureUpstream
<1>1. ASSUME IInv, \E m \in sent : m.to = "upstream" PROVE SecureUpstream
  <2>1. pc # "idle"
    BY <1>1 DEF IInv, Traffic
  <2>2. stage = "ready" /\ conf = ConfOf /\ conf.upstream # "none"
    BY <1>1, <2>1, Zenon DEF IInv, Traffic
  <2>3. dialer # "direct"
    BY <2>2, Zenon DEF ConfOf
  <2>4. at = Len(file) + 1 /\ h.Upstream # "" /\ ~InsecureUpstream(ParseURL[h.Upstream])
    BY <1>1, <2>2, <2>3, Zenon DEF IInv, Provisioned
  <2>5. h.DisableInsecureUpstreamsCheck => \E i \in 1..(at - 1) : file[i].name = Check
    BY <1>1, Zenon DEF IInv, Parsed
  <2>6. DOMAIN file = 1..(at - 1)
    BY <1>1, <2>4, WholeFile, Zenon DEF IInv
  <2>7. h.DisableInsecureUpstreamsCheck => Has("disable_insecure_upstreams_check")
    BY <2>5, <2>6, Zenon DEF Has, Check
  <2>. QED BY <2>4, <2>7, Zenon DEF SecureUpstream, InsecureUpstream
<1>2. IInv => SecureUpstream
  BY <1>1 DEF SecureUpstream
<1>. QED BY Invariance, <1>2, PTL
-----------------------------------------------------------------------------
(* From the block to the traffic *)

\* The lines of an acl directive, the rules that UnmarshalCaddyfile makes of them,
\* and the lines of every directive of the block.
Line == [name : STRING, args : Seq(STRING)]
MadeOf(acl, ls) == Len(acl) = Len(ls) /\ \A i \in 1..Len(ls) : acl[i] = Rule(ls[i])
Blocks == [i \in DOMAIN file |-> IF file[i].name = "acl" THEN file[i].lines ELSE <<>>]

\* The fields that credentials, probe resistance and hiding are decided by say what
\* the directives read so far say.
Fields ==
  /\ h.AuthCredentials \in Seq(Seq(STRING))
  /\ \A i \in 1..(at - 1) :
       /\ file[i].name = "basic_auth" => h.AuthCredentials # <<>>
       /\ file[i].name = "probe_resistance" => h.ProbeResistance # "nil"
       /\ file[i].name = "hide_ip" => h.HideIP

\* So does the ACL: a rule for every line of the directives read so far, in order.
Lines ==
  \E f \in [0..Len(file) -> Seq(Line)] :
    /\ Flattening(Blocks, f, Len(file))
    /\ h.ACL \in Seq({Rule(l) : l \in Line}) /\ MadeOf(h.ACL, f[at - 1])
    /\ \A i \in 1..Len(f[at - 1]) : ~BadLine(f[at - 1][i])

\* A handler that is ready hides nothing without credentials and has all its rules.
InService ==
  stage = "ready" => ~ProbeWithoutAuth /\ aclRules = Rules

\* A handler without a request has done nothing; with one it is where ServeHTTP is.
Handling ==
  IF pc = "idle" THEN Untouched ELSE RequestInv

FInv == Fields /\ Lines /\ InService /\ Handling

\* The lines of the block, as a function of the directives.
LEMMA BlockLines ==
  ASSUME file \in Files
  PROVE  /\ Len(file) \in Nat /\ DOMAIN file = 1..Len(file)
         /\ Len(Blocks) = Len(file) /\ Blocks \in Seq(Seq(Line))
         /\ \A i \in 1..Len(file) : /\ Blocks[i] \in Seq(Line)
                                    /\ file[i].name = "acl" => Blocks[i] = file[i].lines
                                    /\ file[i].name # "acl" => Blocks[i] = <<>>
<1>. DEFINE n == Len(file)
<1>1. n \in Nat /\ DOMAIN file = 1..n
  BY FilesAssumption, Zenon
<1>2. \A i \in 1..n : file[i].name = "acl" => file[i].lines \in Seq(Line)
  BY <1>1, FilesAssumption, Zenon DEF Line
<1>. HIDE DEF n
<1>3. /\ Blocks = [i \in 1..n |-> IF file[i].name = "acl" THEN file[i].lines ELSE <<>>]
  BY <1>1, Zenon DEF Blocks
<1>4. <<>> \in Seq(Line)
  OBVIOUS
<1>5. Blocks \in [1..n -> Seq(Line)]
  BY <1>2, <1>3, <1>4, Zenon
<1>6. \A i \in 1..n : /\ Blocks[i] \in Seq(Line)
                      /\ file[i].name = "acl" => Blocks[i] = file[i].lines
                      /\ file[i].name # "acl" => Blocks[i] = <<>>
  BY <1>3, <1>5, Zenon
<1>7. Blocks \in Seq(Seq(Line)) /\ Len(Blocks) = n
  BY <1>1, <1>5
<1>. QED BY <1>1, <1>6, <1>7, Zenon DEF n

\* The invariant holds before the block is read.
LEMMA FInitially == ServerInit => FInv
<1>. SUFFICES ASSUME ServerInit PROVE FInv
  OBVIOUS
<1>1. file \in Files /\ at = 1 /\ h = ZeroHandler /\ stage = "parse" /\ pc = "idle" /\ Untouched
  BY Zenon DEF ServerInit, ConfigInit
<1>2. h.AuthCredentials = <<>> /\ h.ACL = <<>>
  BY <1>1, Zenon DEF ZeroHandler
<1>3. Len(file) \in Nat /\ \A i \in 1..Len(file) : Blocks[i] \in Seq(Line)
  BY <1>1, BlockLines, Zenon
<1>4. PICK f \in [0..Len(file) -> Seq(Line)] : Flattening(Blocks, f, Len(file))
  BY <1>3, FlatteningExists, Zenon
<1>5. 1..(at - 1) = {} /\ at - 1 = 0 /\ <<>> \in Seq(Seq(STRING))
  BY <1>1
<1>6. f[at - 1] = <<>>
  BY <1>4, <1>5, Zenon DEF Flattening
<1>7. Fields
  BY <1>2, <1>5, Zenon DEF Fields
<1>8. /\ h.ACL \in Seq({Rule(l) : l \in Line}) /\ MadeOf(h.ACL, f[at - 1])
      /\ \A i \in 1..Len(f[at - 1]) : ~BadLine(f[at - 1][i])
  BY <1>2, <1>6, SMTT(30) DEF MadeOf
<1>9. Lines
  BY <1>4, <1>8, Zenon DEF Lines
<1>. QED BY <1>1, <1>7, <1>9, Zenon DEF FInv, InService, Handling

\* What reading one more directive changes.
LEMMA NextDirective ==
  ASSUME IInv, UnmarshalDirective
  PROVE  /\ file' = file /\ file \in Files /\ aclRules' = aclRules /\ stage = "parse" /\ stage' # "ready"
         /\ at \in 1..Len(file) /\ Len(file) \in Nat
         /\ \/ h' = h /\ at' = at
            \/ /\ h' = SetField(file[at]) /\ at' = at + 1 /\ ~BadArgs(file[at])
               /\ file[at].name # "acl" => file[at].args \in Seq(STRING)
<1>1. Parsed /\ file' = file /\ file \in Files /\ aclRules' = aclRules /\ stage = "parse" /\ stage' # "ready"
      /\ at <= Len(file) /\ at \in 1..(Len(file) + 1)
  BY Zenon DEF IInv, Parsed, UnmarshalDirective
<1>2. Len(file) \in Nat /\ DOMAIN file = 1..Len(file)
  BY <1>1, FilesAssumption, Zenon
<1>3. at \in 1..Len(file)
  BY <1>1, <1>2, SMTT(30)
<1>4. file[at].name # "acl" => file[at].args \in Seq(STRING)
  BY <1>1, <1>2, <1>3, FilesAssumption, Zenon
<1>5. \/ h' = h /\ at' = at
      \/ h' = SetField(file[at]) /\ at' = at + 1 /\ ~BadArgs(file[at])
  BY Zenon DEF UnmarshalDirective
<1>. QED BY <1>1, <1>2, <1>3, <1>4, <1>5, Zenon

\* A sequence that something was appended to.
LEMMA Appended ==
  ASSUME NEW S, NEW s \in Seq(S), NEW e \in S PROVE Append(s, e) \in Seq(S) /\ Append(s, e) # <<>>
<1>1. Append(s, e) \in Seq(S) /\ Len(Append(s, e)) = Len(s) + 1 /\ Len(s) \in Nat
  OBVIOUS
<1>2. Len(<<>>) = 0
  OBVIOUS
<1>. QED BY <1>1, <1>2, SMTT(30)

\* The fields, one directive on.
LEMMA FieldsStep == ASSUME IInv, Fields, UnmarshalDirective PROVE Fields'
<1>. DEFINE d == file[at]
<1>1. file' = file /\ at \in 1..Len(file) /\ Len(file) \in Nat
  BY NextDirective, Zenon
<1>2. CASE h' = h /\ at' = at
  BY <1>1, <1>2, Zenon DEF Fields
<1>3. CASE h' = SetField(d) /\ at' = at + 1 /\ ~BadArgs(d) /\ (d.name # "acl" => d.args \in Seq(STRING))
  <2>1. /\ h'.AuthCredentials =
              IF d.name = "basic_auth" THEN Append(h.AuthCredentials, d.args) ELSE h.AuthCredentials
        /\ h'.ProbeResistance = IF d.name = "probe_resistance" THEN "set" ELSE h.ProbeResistance
        /\ IF d.name = "hide_ip" THEN h'.HideIP ELSE h'.HideIP = h.HideIP
    BY <1>3, FieldsSet, Zenon DEF IInv
  <2>2. 1..(at' - 1) = 1..(at - 1) \cup {at}
    <3>1. at' = at + 1 /\ at \in 1..Len(file) /\ Len(file) \in Nat
      BY <1>1, <1>3, Zenon
    <3>2. \A k \in Nat : \A i \in 1..k : 1..((i + 1) - 1) = 1..(i - 1) \cup {i}
      BY SMTT(30)
    <3>. QED BY <3>1, <3>2, Zenon
  <2>3. h.AuthCredentials \in Seq(Seq(STRING)) /\ (d.name = "basic_auth" => d.args \in Seq(STRING))
    BY <1>3 DEF Fields
  <2>. DEFINE c == h.AuthCredentials  g == d.args
  <2>4. /\ h'.AuthCredentials \in Seq(Seq(STRING))
        /\ d.name = "basic_auth" => h'.AuthCredentials # <<>>
        /\ d.name # "basic_auth" => h'.AuthCredentials = h.AuthCredentials
    <3>1. d.name = "basic_auth" => Append(c, g) \in Seq(Seq(STRING)) /\ Append(c, g) # <<>>
      BY <2>3, Appended, ZenonT(60)
    <3>. QED BY <2>1, <2>3, <3>1, Zenon
  <2>6. \A i \in 1..(at - 1) :
          /\ file[i].name = "basic_auth" => h'.AuthCredentials # <<>>
          /\ file[i].name = "probe_resistance" => h'.ProbeResistance # "nil"
          /\ file[i].name = "hide_ip" => h'.HideIP
    BY <2>1, <2>4, ZenonT(60) DEF Fields
  <2>7. /\ d.name = "basic_auth" => h'.AuthCredentials # <<>>
        /\ d.name = "probe_resistance" => h'.ProbeResistance # "nil"
        /\ d.name = "hide_ip" => h'.HideIP
    <3>1. d.name = "basic_auth" => h'.AuthCredentials # <<>>
      BY <2>4, Zenon
    <3>2. d.name = "probe_resistance" => h'.ProbeResistance # "nil"
      BY <2>1, ZenonT(60)
    <3>3. d.name = "hide_ip" => h'.HideIP
      BY <2>1, ZenonT(60)
    <3>. QED BY <3>1, <3>2, <3>3, Zenon
  <2>. QED BY <1>1, <2>2, <2>4, <2>6, <2>7, Zenon DEF Fields
<1>. QED BY <1>2, <1>3, NextDirective, Zenon

\* The rules of the lines that are read so far, followed by those of more lines.
LEMMA MoreLines ==
  ASSUME NEW acl \in Seq({Rule(l) : l \in Line}), NEW ls \in Seq(Line), NEW more \in Seq(Line),
         MadeOf(acl, ls), \A i \in 1..Len(ls) : ~BadLine(ls[i]), \A i \in 1..Len(more) : ~BadLine(more[i])
  PROVE  LET new == acl \o [i \in DOMAIN more |-> Rule(more[i])] IN
         /\ new \in Seq({Rule(l) : l \in Line}) /\ MadeOf(new, ls \o more)
         /\ \A i \in 1..Len(ls \o more) : ~BadLine((ls \o more)[i])
<1>. DEFINE R == {Rule(l) : l \in Line}  rs == [i \in DOMAIN more |-> Rule(more[i])]
<1>1. /\ DOMAIN more = 1..Len(more) /\ Len(more) \in Nat /\ Len(ls) \in Nat
      /\ \A i \in 1..Len(more) : more[i] \in Line
  OBVIOUS
<1>2. rs \in [1..Len(more) -> R]
  BY <1>1, Zenon
<1>3. \A i \in 1..Len(more) : rs[i] = Rule(more[i])
  BY <1>1, Zenon
<1>. HIDE DEF R, rs
<1>4. rs \in Seq(R) /\ Len(rs) = Len(more)
  BY <1>1, <1>2, SMTT(30)
<1>5. Joined(acl, rs, R) /\ Joined(ls, more, Line)
  BY <1>4, Follows, Zenon DEF R
<1>6. Len(acl) = Len(ls) /\ \A i \in 1..Len(ls) : acl[i] = Rule(ls[i])
  BY DEF MadeOf
<1>7. /\ acl \o rs \in Seq(R) /\ Len(acl \o rs) = Len(ls) + Len(more)
      /\ Len(ls \o more) = Len(ls) + Len(more)
  BY <1>1, <1>4, <1>5, <1>6, Zenon DEF Joined
<1>8. ASSUME NEW i \in 1..(Len(ls) + Len(more))
      PROVE  (acl \o rs)[i] = Rule((ls \o more)[i]) /\ ~BadLine((ls \o more)[i])
  <2>1. CASE i <= Len(ls)
    <3>1. i \in 1..Len(ls)
      BY <1>1, <2>1, SMTT(30)
    <3>. QED BY <1>5, <1>6, <3>1, ZenonT(60) DEF Joined
  <2>2. CASE ~(i <= Len(ls))
    <3>. DEFINE j == i - Len(ls)
    <3>1. j \in 1..Len(more) /\ Len(ls) + j = i
      BY <1>1, <2>2, SMTT(30)
    <3>. HIDE DEF j
    <3>2. (acl \o rs)[Len(ls) + j] = rs[j] /\ (ls \o more)[Len(ls) + j] = more[j]
      BY <1>4, <1>5, <1>6, <3>1, ZenonT(60) DEF Joined
    <3>. QED BY <1>3, <3>1, <3>2, ZenonT(60)
  <2>. QED BY <2>1, <2>2, Zenon
<1>9. MadeOf(acl \o rs, ls \o more) /\ \A i \in 1..Len(ls \o more) : ~BadLine((ls \o more)[i])
  BY <1>7, <1>8, Zenon DEF MadeOf
<1>. QED BY <1>7, <1>9, ZenonT(60) DEF R, rs

\* The ACL, one directive on.
LEMMA LinesStep == ASSUME IInv, Lines, UnmarshalDirective PROVE Lines'
<1>. DEFINE d == file[at]  R == {Rule(l) : l \in Line}  n == Len(file)
<1>1. file' = file /\ file \in Files /\ at \in 1..n /\ n \in Nat
  BY NextDirective, Zenon
<1>2. PICK f \in [0..n -> Seq(Line)] :
        /\ Flattening(Blocks, f, n)
        /\ h.ACL \in Seq(R) /\ MadeOf(h.ACL, f[at - 1])
        /\ \A i \in 1..Len(f[at - 1]) : ~BadLine(f[at - 1][i])
  BY Zenon DEF Lines
<1>3. Blocks' = Blocks
  BY <1>1, Zenon DEF Blocks
<1>4. \A a, ls : MadeOf(a, ls)' <=> MadeOf(a, ls)
  BY Zenon DEF MadeOf, Rule
<1>. SUFFICES /\ h'.ACL \in Seq(R) /\ MadeOf(h'.ACL, f[at' - 1])
              /\ \A i \in 1..Len(f[at' - 1]) : ~BadLine(f[at' - 1][i])
  BY <1>1, <1>2, <1>3, Zenon DEF Lines, MadeOf, BadLine, Rule
<1>5. CASE h' = h /\ at' = at
  BY <1>2, <1>5, Zenon
<1>6. CASE h' = SetField(d) /\ at' = at + 1 /\ ~BadArgs(d) /\ (d.name # "acl" => d.args \in Seq(STRING))
  <2>1. h'.ACL = IF d.name = "acl" THEN h.ACL \o [i \in DOMAIN d.lines |-> Rule(d.lines[i])] ELSE h.ACL
    BY <1>6, FieldsSet, ZenonT(60) DEF IInv
  <2>2. at' - 1 = at /\ at - 1 \in 0..n /\ at \in 0..n
    BY <1>1, <1>6, SMTT(30)
  <2>3. f[at - 1] \in Seq(Line) /\ f[at] = f[at - 1] \o Blocks[at]
    BY <1>1, <1>2, <2>2, Zenon DEF Flattening
  <2>4. /\ Blocks[at] \in Seq(Line)
        /\ d.name = "acl" => Blocks[at] = d.lines
        /\ d.name # "acl" => Blocks[at] = <<>>
    BY <1>1, BlockLines, Zenon
  <2>5. CASE d.name = "acl"
    <3>. DEFINE acl == h.ACL  ls == f[at - 1]  more == d.lines
    <3>1. more \in Seq(Line) /\ f[at] = ls \o more
      BY <2>3, <2>4, <2>5, ZenonT(60)
    <3>2. \A i \in DOMAIN more : ~BadLine(more[i])
      <4>1. ~BadArgs(d)
        BY <1>6, ZenonT(60)
      <4>. QED BY <2>5, <4>1, SMTT(30) DEF BadArgs
    <3>3. \A i \in 1..Len(more) : ~BadLine(more[i])
      <4>1. \A l \in Seq(Line) : DOMAIN l = 1..Len(l)
        BY SMTT(30)
      <4>. QED BY <3>1, <3>2, <4>1, Zenon
    <3>4. acl \in Seq({Rule(l) : l \in Line}) /\ ls \in Seq(Line) /\ MadeOf(acl, ls)
          /\ \A i \in 1..Len(ls) : ~BadLine(ls[i])
      BY <1>2, <2>3, Zenon
    <3>. DEFINE new == acl \o [i \in DOMAIN more |-> Rule(more[i])]
    <3>5. h'.ACL = new
      BY <2>1, <2>5, Zenon
    <3>. HIDE DEF acl, ls, more
    <3>6. /\ new \in Seq({Rule(l) : l \in Line}) /\ MadeOf(new, ls \o more)
          /\ \A i \in 1..Len(ls \o more) : ~BadLine((ls \o more)[i])
      BY <3>1, <3>3, <3>4, MoreLines, Zenon
    <3>. HIDE DEF new
    <3>. QED BY <2>2, <3>1, <3>5, <3>6, Zenon
  <2>6. CASE d.name # "acl"
    <3>1. f[at - 1] \o <<>> = f[at - 1]
      BY <2>3
    <3>. QED BY <1>2, <2>1, <2>2, <2>3, <2>4, <2>6, <3>1, ZenonT(60)
  <2>. QED BY <2>5, <2>6, Zenon
<1>. QED BY <1>5, <1>6, NextDirective, ZenonT(60)

\* The block and the fields are left alone by every other step.
LEMMA FieldsKept ==
  ASSUME UNCHANGED <<file, at, h>>
  PROVE  (Fields => Fields') /\ (Lines => Lines') /\ Rules' = Rules /\ (ProbeWithoutAuth' <=> ProbeWithoutAuth)
<1>1. file' = file /\ at' = at /\ h' = h
  OBVIOUS
<1>2. Fields => Fields'
  BY <1>1, Zenon DEF Fields
<1>3. Blocks' = Blocks
  BY <1>1, Zenon DEF Blocks
<1>4. Lines => Lines'
  <2>. SUFFICES ASSUME Lines PROVE Lines'
    OBVIOUS
  <2>1. PICK f \in [0..Len(file) -> Seq(Line)] :
        /\ Flattening(Blocks, f, Len(file))
        /\ h.ACL \in Seq({Rule(l) : l \in Line}) /\ MadeOf(h.ACL, f[at - 1])
        /\ \A i \in 1..Len(f[at - 1]) : ~BadLine(f[at - 1][i])
    BY Zenon DEF Lines
  <2>2. /\ Flattening(Blocks', f, Len(file'))
        /\ h'.ACL \in Seq({Rule(l) : l \in Line}) /\ MadeOf(h'.ACL, f[at' - 1])
        /\ \A i \in 1..Len(f[at' - 1]) : ~BadLine(f[at' - 1][i])
    BY <1>1, <1>3, <2>1, Zenon
  <2>. QED BY <1>1, <2>2, Zenon DEF Lines, MadeOf, BadLine, Rule
<1>5. ProbeWithoutAuth' <=> ProbeWithoutAuth
  BY <1>1, Zenon DEF ProbeWithoutAuth
<1>6. FileRules' = FileRules
  BY <1>1, Zenon DEF FileRules
<1>7. Rules' = Rules
  BY <1>6, Zenon DEF Rules
<1>. QED BY <1>2, <1>4, <1>5, <1>7, Zenon

\* Provision makes the handler ready with all its rules, and refuses it otherwise.
LEMMA ReadyStep == ASSUME Provision PROVE InService'
<1>1. UNCHANGED <<file, at, h>>
  BY Zenon DEF Provision
<1>2. Rules' = Rules /\ (ProbeWithoutAuth' <=> ProbeWithoutAuth)
  BY <1>1, FieldsKept, Zenon
<1>3. stage' = "ready" => aclRules' = Rules /\ ~ProbeWithoutAuth
  BY Zenon DEF Provision, Refuse
<1>. QED BY <1>2, <1>3, Zenon DEF InService

\* Each step of reading and provisioning preserves the invariant.
LEMMA FConfigStep == ASSUME IInv, FInv, pc = "idle", ConfigNext, UNCHANGED vars PROVE FInv'
<1>1. Handling'
  BY Zenon DEF FInv, Handling, Untouched, vars
<1>2. CASE UnmarshalDirective
  <2>1. stage' # "ready"
    BY <1>2, NextDirective, Zenon
  <2>. QED BY <1>1, <1>2, <2>1, FieldsStep, LinesStep, Zenon DEF FInv, InService
<1>3. CASE Provision
  <2>1. UNCHANGED <<file, at, h>>
    BY <1>3, Zenon DEF Provision
  <2>. QED BY <1>1, <1>3, <2>1, FieldsKept, ReadyStep, Zenon DEF FInv
<1>4. CASE Unmarshalled \/ NoMetrics
  <2>1. UNCHANGED <<file, at, h>> /\ stage' # "ready"
    BY <1>4 DEF Unmarshalled, NoMetrics
  <2>. QED BY <1>1, <2>1, FieldsKept, Zenon DEF FInv, InService
<1>5. CASE ProvisionOther
  <2>1. UNCHANGED <<file, at, h, stage, aclRules>>
    BY <1>5, Zenon DEF ProvisionOther
  <2>2. InService'
    BY <2>1, FieldsKept, Zenon DEF FInv, InService
  <2>. QED BY <1>1, <2>1, <2>2, FieldsKept, Zenon DEF FInv
<1>. QED BY <1>2, <1>3, <1>4, <1>5, Zenon DEF ConfigNext

\* The invariant is preserved by every step of the server.
LEMMA FInductive == IInv /\ FInv /\ [ServerNext]_<<vars, configVars>> => FInv'
<1>. SUFFICES ASSUME IInv, FInv, [ServerNext]_<<vars, configVars>> PROVE FInv'
  OBVIOUS
<1>1. CASE pc = "idle" /\ ConfigNext /\ UNCHANGED vars
  BY <1>1, FConfigStep, Zenon
<1>2. ASSUME UNCHANGED configVars PROVE Fields' /\ Lines' /\ InService'
  <2>1. UNCHANGED <<file, at, h, stage, aclRules>>
    BY <1>2, Zenon DEF configVars
  <2>2. InService'
    BY <2>1, FieldsKept, Zenon DEF FInv, InService
  <2>. QED BY <2>1, <2>2, FieldsKept, Zenon DEF FInv
<1>3. CASE Arrive
  <2>1. UNCHANGED configVars /\ Untouched' /\ req' \in Requests /\ header' = req'.header /\ pc' = "start"
    BY <1>3, SMTT(30) DEF Arrive, FInv, Handling, Untouched
  <2>2. RequestInv'
    BY <2>1, RequestAssumption, ZenonT(60) DEF Untouched, RequestInv, Decided, NothingForStrangers, Hidden,
       URIRedactedAfterUse, Target, Editing, OutgoingHeaders, Undecided, Serving, Unauthenticated
  <2>. QED BY <1>2, <2>1, <2>2, ZenonT(60) DEF FInv, Handling
<1>4. CASE Next /\ UNCHANGED configVars
  <2>1. pc # "idle" /\ pc' # "idle"
    BY <1>4, ServeStep, Zenon
  <2>2. RequestInv'
    BY <1>4, <2>1, RequestInductive, Zenon DEF FInv, Handling
  <2>. QED BY <1>2, <1>4, <2>1, <2>2, SMTT(30) DEF FInv, Handling
<1>5. CASE UNCHANGED <<vars, configVars>>
  <2>1. Handling'
    BY <1>5, StutterStep DEF FInv, Handling, Untouched, vars
  <2>. QED BY <1>2, <1>5, <2>1, ZenonT(60) DEF FInv
<1>. QED BY <1>1, <1>3, <1>4, <1>5, Zenon DEF ServerNext, Refused

\* The invariant holds throughout.
LEMMA FInvariance == ServerSpec => [](IInv /\ FInv)
<1>. QED BY Initially, Inductive, FInitially, FInductive, PTL DEF ServerSpec

\* The rules a line makes, as Provision makes them and as the block spells them.
Made(r) == [j \in DOMAIN r.Subjects |-> [subject |-> r.Subjects[j], allow |-> r.Allow]]
Spelt(l) == [j \in DOMAIN WrittenSubjects(l) |->
              [subject |-> WrittenSubjects(l)[j], allow |-> l.name \notin {"deny", "deny_file"}]]

Subject ==
  STRING \cup {"all", "10.0.0.0/8", "127.0.0.0/8", "172.16.0.0/12", "192.168.0.0/16", "::1/128", "fe80::/10"}
Ruling == [subject : Subject, allow : BOOLEAN]

\* A subject and a verdict make a rule.
LEMMA OneRule ==
  ASSUME NEW s \in Subject, NEW a \in BOOLEAN
  PROVE  [subject |-> s, allow |-> a] \in Ruling
BY DEF Ruling

\* They are the same for a line that UnmarshalCaddyfile accepts, and a sequence.
LEMMA SameRules ==
  ASSUME NEW l \in Line, ~BadLine(l)
  PROVE  Made(Rule(l)) = Spelt(l) /\ Spelt(l) \in Seq(Ruling)
<1>1. Rule(l).Subjects = WrittenSubjects(l) /\ Rule(l).Allow = (l.name \in {"allow", "allow_file"})
  BY Zenon DEF Rule, WrittenSubjects
<1>2. l.name \in {"allow", "allow_file"} <=> l.name \notin {"deny", "deny_file"}
  BY DEF BadLine
<1>3. Rule(l).Allow = (l.name \notin {"deny", "deny_file"})
  <2>1. (l.name \in {"allow", "allow_file"}) = (l.name \notin {"deny", "deny_file"})
    BY <1>2
  <2>. QED BY <1>1, <2>1, Zenon
<1>4. Made(Rule(l)) = Spelt(l)
  BY <1>1, <1>3, Zenon DEF Made, Spelt
<1>. DEFINE ws == WrittenSubjects(l)  ok == l.name \notin {"deny", "deny_file"}
<1>5. ws \in Seq(STRING)
  BY LinesAssumption DEF WrittenSubjects, BadLine, Line
<1>6. ok \in BOOLEAN
  OBVIOUS
<1>7. Spelt(l) = [j \in DOMAIN ws |-> [subject |-> ws[j], allow |-> ok]]
  BY Zenon DEF Spelt
<1>. HIDE DEF ws, ok
<1>8. [j \in DOMAIN ws |-> [subject |-> ws[j], allow |-> ok]] \in Seq(Ruling)
  <2>. DEFINE n == Len(ws)  g == [j \in DOMAIN ws |-> [subject |-> ws[j], allow |-> ok]]
  <2>1. DOMAIN ws = 1..n /\ n \in Nat /\ \A j \in 1..n : ws[j] \in Subject
    BY <1>5 DEF Subject
  <2>. HIDE DEF n
  <2>2. \A j \in 1..n : [subject |-> ws[j], allow |-> ok] \in Ruling
    BY <1>6, <2>1, OneRule, Zenon
  <2>3. g \in [1..n -> Ruling]
    BY <2>1, <2>2, Zenon
  <2>. HIDE DEF g
  <2>4. g \in Seq(Ruling)
    BY <2>1, <2>3, SMTT(30)
  <2>. QED BY <2>4, Zenon DEF g
<1>. QED BY <1>4, <1>7, <1>8, Zenon

\* Once the block is read, the lines that the fields were made of are all its lines.
LEMMA LinesOfFile ==
  ASSUME Parsed, Lines, at = Len(file) + 1
  PROVE  /\ WrittenLines \in Seq(Line) /\ h.ACL \in Seq({Rule(l) : l \in Line})
         /\ MadeOf(h.ACL, WrittenLines)
         /\ \A i \in 1..Len(WrittenLines) : ~BadLine(WrittenLines[i])
<1>1. file \in Files
  BY Zenon DEF Parsed
<1>2. /\ Len(file) \in Nat /\ Len(Blocks) = Len(file) /\ Blocks \in Seq(Seq(Line))
  BY <1>1, BlockLines, Zenon
<1>3. PICK f \in [0..Len(file) -> Seq(Line)] :
        /\ Flattening(Blocks, f, Len(file))
        /\ h.ACL \in Seq({Rule(l) : l \in Line}) /\ MadeOf(h.ACL, f[at - 1])
        /\ \A i \in 1..Len(f[at - 1]) : ~BadLine(f[at - 1][i])
  BY Zenon DEF Lines
<1>4. at - 1 = Len(file) /\ Len(file) \in 0..Len(file)
  BY <1>2
<1>5. WrittenLines = Concat(Blocks)
  BY Zenon DEF WrittenLines, Blocks
<1>6. Concat(Blocks) = f[Len(file)]
  BY <1>2, <1>3, ConcatDef, Zenon
<1>. QED BY <1>3, <1>4, <1>5, <1>6, Zenon

\* So the rules that Provision makes of the fields are the written ones.
LEMMA RulesOfFile ==
  ASSUME Parsed, Lines, at = Len(file) + 1
  PROVE  FileRules = WrittenRules /\ WrittenRules \in Seq(Ruling)
<1>. DEFINE R == Ruling  ls == WrittenLines  n == Len(ls)
<1>1. /\ ls \in Seq(Line) /\ h.ACL \in Seq({Rule(l) : l \in Line}) /\ MadeOf(h.ACL, ls)
      /\ \A i \in 1..n : ~BadLine(ls[i])
  BY LinesOfFile, Zenon
<1>. HIDE DEF ls
<1>2. /\ n \in Nat /\ DOMAIN ls = 1..n /\ DOMAIN h.ACL = 1..n
      /\ \A i \in 1..n : ls[i] \in Line
  <2>1. n \in Nat /\ DOMAIN ls = 1..n /\ \A i \in 1..n : ls[i] \in Line
    BY <1>1, SMTT(30)
  <2>2. DOMAIN h.ACL = 1..Len(h.ACL)
    BY <1>1
  <2>. QED BY <1>1, <2>1, <2>2, ZenonT(60) DEF MadeOf
<1>. HIDE DEF n
<1>3. \A i \in 1..n : h.ACL[i] = Rule(ls[i])
  BY <1>1, Zenon DEF MadeOf, n
<1>4. \A i \in 1..n : Made(h.ACL[i]) = Spelt(ls[i]) /\ Spelt(ls[i]) \in Seq(R)
  BY <1>1, <1>2, <1>3, SameRules, Zenon
<1>. DEFINE ss == [i \in 1..n |-> Spelt(ls[i])]
<1>5. FileRules = Concat([i \in 1..n |-> Made(h.ACL[i])])
  BY <1>2, Zenon DEF FileRules, Made
<1>6. [i \in 1..n |-> Made(h.ACL[i])] = ss
  BY <1>4, Zenon
<1>7. WrittenRules = Concat(ss)
  <2>1. WrittenRules = Concat([i \in DOMAIN ls |-> Spelt(ls[i])])
    BY Zenon DEF WrittenRules, Spelt, ls
  <2>. QED BY <1>2, <2>1, Zenon
<1>8. ss \in [1..n -> Seq(R)]
  BY <1>4, Zenon
<1>. HIDE DEF ss, R
<1>9. ss \in Seq(Seq(R)) /\ Len(ss) = n /\ n \in 0..n
  BY <1>2, <1>8, SMTT(30)
<1>10. \A i \in 1..n : ss[i] \in Seq(R)
  BY <1>8, Zenon
<1>11. PICK f \in [0..n -> Seq(R)] : Flattening(ss, f, n)
  BY <1>2, <1>10, FlatteningExists, Zenon
<1>12. Concat(ss) = f[n] /\ f[n] \in Seq(R)
  BY <1>9, <1>11, ConcatDef, Zenon
<1>. QED BY <1>5, <1>6, <1>7, <1>12, Zenon DEF R

\* Six elements of a set make a sequence of length six.
LEMMA Six ==
  ASSUME NEW S, NEW a \in S, NEW b \in S, NEW c \in S, NEW d \in S, NEW e \in S, NEW f \in S
  PROVE  <<a, b, c, d, e, f>> \in Seq(S) /\ Len(<<a, b, c, d, e, f>>) = 6
OBVIOUS

\* A sequence that six elements and then one more follow.
SevenLonger(s, t) == Starts(s, t) /\ Len(t) = Len(s) + 7
LEMMA Followed ==
  ASSUME NEW S, NEW r \in Seq(S), NEW s \in Seq(S), NEW t \in Seq(S), Len(s) = 6, Len(t) = 1
  PROVE  SevenLonger(r, r \o s \o t)
<1>1. Starts(r, r \o s \o t)
  BY SMTT(30) DEF Starts
<1>2. Len(r \o s \o t) = Len(r) + 7
  <2>1. Joined(r, s, S)
    BY Follows, Zenon
  <2>2. r \o s \in Seq(S)
    BY <2>1, Zenon DEF Joined
  <2>3. Len(r) \in Nat
    BY Indexed, Zenon
  <2>4. Joined(r \o s, t, S)
    BY <2>2, Follows, Zenon
  <2>. QED BY <2>1, <2>3, <2>4, SMTT(30) DEF Joined
<1>. QED BY <1>1, <1>2, Zenon DEF SevenLonger

\* The rules that follow them: six denials and a last one.
Denies == [i \in DOMAIN DefaultDenies |-> [subject |-> DefaultDenies[i], allow |-> FALSE]]
Last == <<[subject |-> "all", allow |-> TRUE]>>

\* They are seven.
LEMMA Defaults == Denies \in Seq(Ruling) /\ Len(Denies) = 6 /\ Last \in Seq(Ruling) /\ Len(Last) = 1
<1>. DEFINE n == Len(DefaultDenies)
<1>1. /\ "10.0.0.0/8" \in Subject /\ "127.0.0.0/8" \in Subject /\ "172.16.0.0/12" \in Subject
      /\ "192.168.0.0/16" \in Subject /\ "::1/128" \in Subject /\ "fe80::/10" \in Subject
      /\ "all" \in Subject /\ TRUE \in BOOLEAN /\ FALSE \in BOOLEAN
  BY Zenon DEF Subject
<1>2. DefaultDenies \in Seq(Subject) /\ n = 6
  BY <1>1, Six, Zenon DEF DefaultDenies
<1>3. DOMAIN DefaultDenies = 1..n /\ n \in Nat /\ \A i \in 1..n : DefaultDenies[i] \in Subject
  BY <1>2, Indexed, Zenon
<1>. HIDE DEF n
<1>4. \A i \in 1..n : [subject |-> DefaultDenies[i], allow |-> FALSE] \in Ruling
  BY <1>1, <1>3, OneRule, Zenon
<1>5. Denies \in [1..n -> Ruling]
  BY <1>3, <1>4, Zenon DEF Denies
<1>6. Denies \in Seq(Ruling) /\ Len(Denies) = n
  BY <1>3, <1>5, SMTT(30)
<1>7. [subject |-> "all", allow |-> TRUE] \in Ruling
  BY <1>1, OneRule, ZenonT(60)
<1>8. Last \in Seq(Ruling) /\ Len(Last) = 1
  BY <1>7, SMTT(30) DEF Last
<1>. QED BY <1>2, <1>6, <1>8, Zenon

\* The rules of a handler start with the ones of the file and add these seven.
LEMMA SevenMore ==
  ASSUME FileRules \in Seq(Ruling)
  PROVE  Starts(FileRules, Rules) /\ Len(Rules) = Len(FileRules) + 7
<1>1. Rules = FileRules \o Denies \o Last
  BY Zenon DEF Rules, Denies, Last
<1>2. SevenLonger(FileRules, Rules)
  BY <1>1, Defaults, Followed, Zenon
<1>. QED BY <1>2, Zenon DEF SevenLonger

\* The block's directives, once all are read, are in the fields.
LEMMA FieldsOfFile ==
  ASSUME Parsed, Fields, at = Len(file) + 1
  PROVE  /\ Has("basic_auth") => h.AuthCredentials # <<>>
         /\ Has("probe_resistance") => h.ProbeResistance # "nil"
         /\ Has("hide_ip") => h.HideIP
BY WholeFile, Zenon DEF Has, Fields

\* What the block says, of a request that is being handled.
LEMMA RequestHonoured ==
  ASSUME IInv, FInv, stage = "ready", pc # "idle"
  PROVE  /\ (Has("basic_auth") /\ req.creds # "valid") =>
               conn = "none" /\ sent = {} /\ out # "association"
         /\ (Has("probe_resistance") /\ pc = "done" /\ req.creds # "valid") =>
               \/ out \in {"next", "pac"} /\ hdr = {}
               \/ req.host = "secret" /\ out = "hiddenAuth"
         /\ Has("hide_ip") => \A m \in sent : FromProxy("Forwarded") \notin m.hdrs
<1>1. Parsed /\ Fields /\ at = Len(file) + 1 /\ RequestInv /\ conf = ConfOf /\ ~ProbeWithoutAuth
  BY Zenon DEF IInv, Provisioned, Traffic, FInv, Handling, InService
<1>2. /\ Has("basic_auth") => conf.auth
      /\ Has("probe_resistance") => conf.auth /\ conf.probe
      /\ Has("hide_ip") => conf.hideIP
  BY <1>1, FieldsOfFile, Zenon DEF ConfOf, ProbeWithoutAuth
<1>3. (conf.auth /\ req.creds # "valid") => Unauthenticated
  BY DEF Unauthenticated
<1>4. Has("basic_auth") /\ req.creds # "valid" => conn = "none" /\ sent = {} /\ out # "association"
  BY <1>1, <1>2, <1>3, ZenonT(60) DEF RequestInv, NothingForStrangers
<1>5. (Has("probe_resistance") /\ pc = "done" /\ req.creds # "valid") =>
        \/ out \in {"next", "pac"} /\ hdr = {}
        \/ req.host = "secret" /\ out = "hiddenAuth"
  BY <1>1, <1>2, <1>3, SMTT(30) DEF RequestInv, Hidden, ToSecret
<1>6. Has("hide_ip") => \A m \in sent : FromProxy("Forwarded") \notin m.hdrs
  BY <1>1, <1>2, Zenon DEF RequestInv, OutgoingHeaders, ToOrigin, ToProxy
<1>. QED BY <1>4, <1>5, <1>6, Zenon

(* A handler in service honours its block: who may pass, what a probe sees,  *)
(* what is hidden from the target, and the access rules in their order, for  *)
(* every block, every set of files it names and every request.               *)
THEOREM BlockIsHonoured == ServerSpec => []FileHonoured
<1>1. IInv /\ FInv => FileHonoured
  <2>. SUFFICES ASSUME IInv, FInv, stage = "ready" PROVE
         /\ (Has("basic_auth") /\ pc # "idle" /\ req.creds # "valid") =>
              conn = "none" /\ sent = {} /\ out # "association"
         /\ (Has("probe_resistance") /\ pc = "done" /\ req.creds # "valid") =>
              \/ out \in {"next", "pac"} /\ hdr = {}
              \/ req.host = "secret" /\ out = "hiddenAuth"
         /\ Has("hide_ip") => \A m \in sent : FromProxy("Forwarded") \notin m.hdrs
         /\ Starts(WrittenRules, aclRules) /\ Len(aclRules) = Len(WrittenRules) + 7
    BY Zenon DEF FileHonoured
  <2>1. Parsed /\ Lines /\ at = Len(file) + 1 /\ aclRules = Rules
    BY Zenon DEF IInv, Provisioned, FInv, InService
  <2>2. Starts(WrittenRules, aclRules) /\ Len(aclRules) = Len(WrittenRules) + 7
    BY <2>1, RulesOfFile, SevenMore, Zenon
  <2>3. CASE pc # "idle"
    BY <2>2, <2>3, RequestHonoured, ZenonT(60)
  <2>4. CASE pc = "idle"
    <3>1. sent = {} /\ pc # "done"
      BY <2>4 DEF IInv, Traffic
    <3>. QED BY <2>2, <2>4, <3>1, ZenonT(60)
  <2>. QED BY <2>3, <2>4, Zenon
<1>. QED BY <1>1, FInvariance, PTL

(* What ServeHTTP guarantees of a request it guarantees in service: of every *)
(* handler that a block makes, and while other handlers are provisioned.     *)
THEOREM RequestsInService ==
  ServerSpec => [](/\ NothingForStrangers /\ ProbesSeeTheSite /\ URIRedactedAfterUse
                   /\ EstablishedThenClosed /\ OutgoingHeaders)
<1>. DEFINE Good == /\ NothingForStrangers /\ ProbesSeeTheSite /\ URIRedactedAfterUse
                    /\ EstablishedThenClosed /\ OutgoingHeaders
<1>1. pc = "idle" /\ Untouched => Good
  BY DEF Untouched, NothingForStrangers, ProbesSeeTheSite, URIRedactedAfterUse,
     EstablishedThenClosed, OutgoingHeaders
<1>2. RequestInv => Good
  <2>1. RequestInv => NothingForStrangers /\ URIRedactedAfterUse /\ OutgoingHeaders
    BY Zenon DEF RequestInv
  <2>2. RequestInv => ProbesSeeTheSite
    BY DEF RequestInv, Hidden, ProbesSeeTheSite
  <2>3. RequestInv => EstablishedThenClosed
    BY DEF RequestInv, Target, EstablishedThenClosed
  <2>. QED BY <2>1, <2>2, <2>3, SMTT(30)
<1>3. FInv => Good
  BY <1>1, <1>2, Zenon DEF FInv, Handling
<1>. QED BY <1>3, FInvariance, PTL
=============================================================================
