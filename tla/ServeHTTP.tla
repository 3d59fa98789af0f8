----------------------------- MODULE ServeHTTP -----------------------------
(***************************************************************************)
(* Handler.ServeHTTP (forwardproxy.go): how one request is authenticated,  *)
(* hidden or passed on, and served as a tunnel, a CONNECT-UDP association  *)
(* or a plain HTTP exchange.  The dial, the association and the tunnel     *)
(* have modules of their own (DialRace, TargetPolicy, ConnectUDP,          *)
(* UDPAssociation); here they are the outcomes they can have.              *)
(*                                                                         *)
(* A header line of a request is its name and who made it: the client, or  *)
(* the proxy (the Forwarded that names the client, Via, and the            *)
(* Proxy-Authorization made from the upstream's credentials).              *)
(***************************************************************************)
EXTENDS Integers

CONSTANTS Configs, Requests

ASSUME RequestAssumption == \A r \in Requests : \A l \in r.header : l.from = "client"

VARIABLES
  conf,    \* the configuration: [auth, probe, secret, hosts, hideIP, hideVia, upstream, upcreds, pac]
  req,     \* the request as it arrived, see MCServeHTTP
  pc,      \* where the handler is
  err,     \* the handler's outer err: nil, handler (a caddyhttp.HandlerError) or set
  authErr, \* nil or set
  user,    \* http.auth.user.id: unset, valid or invalid
  padding, \* the negotiated padding type, -1 before negotiation
  hdr,     \* names of the headers set on the ResponseWriter
  header,  \* header lines of the request as the handler edits them
  ctxHdr,  \* headers carried by the context to the upstream dialer
  uri,     \* r.URL and r.RequestURI: original or redacted
  seen,    \* the URI the next handler saw: none, original, redacted
  conn,    \* the CONNECT target's connection: none, open, closed
  flushed, \* whether the 200 of a CONNECT was flushed
  sent,    \* the messages that left the proxy: [to, hdrs]
  resp,    \* body of the origin's response: none, open, closed
  framing, \* the tunnel's padding: none, plain, padded
  out      \* how the request ended, pending until it does

vars == <<conf, req, pc, err, authErr, user, padding, hdr, header, ctxHdr, uri, seen, conn,
          flushed, sent, resp, framing, out>>

\* What the handler has done for the request before it starts: nothing.
Untouched ==
  /\ err = "nil" /\ authErr = "nil" /\ user = "unset" /\ padding = -1
  /\ hdr = {} /\ ctxHdr = {} /\ uri = "original" /\ seen = "none"
  /\ conn = "none" /\ flushed = FALSE /\ sent = {} /\ resp = "none" /\ framing = "none"
  /\ out = "pending"

Init ==
  /\ conf \in Configs /\ req \in Requests
  /\ pc = "start" /\ header = req.header
  /\ Untouched

FromClient(n) == [name |-> n, from |-> "client"]
FromProxy(n) == [name |-> n, from |-> "proxy"]

Connect == req.method = "CONNECT"
IsConnectUDP == Connect /\ req.proto = 3 /\ req.protocol = "connect-udp"
IsUnsupportedExtended == Connect /\ req.proto = 3 /\ req.protocol = "other"

\* return: the deferred calls run next.
Return(o) == pc' = "defer" /\ out' = o
Goto(l) == pc' = l /\ out' = out
Send(to, hs) == sent' = sent \cup {[to |-> to, hdrs |-> hs]}

-----------------------------------------------------------------------------
(* Before the request is served. *)

\* SplitHostPort leaves its error in err; checkCredentials runs when
\* credentials are configured.
Authenticate ==
  /\ pc = "start"
  /\ err' = IF req.hasPort THEN "nil" ELSE "set"
  /\ authErr' = IF conf.auth /\ req.creds # "valid" THEN "set" ELSE "nil"
  /\ user' = IF conf.auth /\ req.creds \in {"valid", "invalid"} THEN req.creds ELSE user
  /\ Goto("route")
  /\ UNCHANGED <<conf, req, padding, hdr, header, ctxHdr, uri, seen, conn, flushed, sent, resp, framing>>

ToSecret == conf.secret /\ req.host = "secret"

PassToSite ==
  /\ conf.hosts /\ req.host = "site"
  /\ ~Connect \/ (authErr = "set" /\ (~IsConnectUDP \/ conf.probe))

CallNext == Return("next") /\ seen' = uri

Pass == IF conf.pac /\ req.pacPath THEN Return("pac") /\ seen' = seen ELSE CallNext

\* Mutant of Unauthorized: the challenge is set before probe resistance is considered.
ChallengeAlways ==
  /\ hdr' = hdr \cup {"Proxy-Authenticate"}
  /\ IF conf.probe THEN CallNext ELSE Return("authRequired") /\ seen' = seen

Unauthorized ==
  IF conf.probe THEN CallNext /\ hdr' = hdr
  ELSE Return("authRequired") /\ hdr' = hdr \cup {"Proxy-Authenticate"} /\ seen' = seen

\* Mutant of Rejected: only requests that carry bad credentials are rejected.
RejectedIfWrong == authErr = "set" /\ user = "invalid"

Rejected == authErr = "set"

HiddenPage ==
  /\ hdr' = hdr \cup {"Content-Type"}
            \cup (IF authErr = "set" THEN {"Proxy-Authenticate"} ELSE {})
  /\ Return(IF authErr = "set" THEN "hiddenAuth" ELSE "hiddenOK")
  /\ seen' = seen

\* The context's copy is made before the request's headers are edited.
CtxHeader ==
  IF conf.hideIP THEN {}
  ELSE {l \in header : l.name \in {"Forwarded", "X-Forwarded-For"}} \cup {FromProxy("Forwarded")}

Serve ==
  IF req.proto \notin {1, 2, 3} THEN Return("version") /\ ctxHdr' = ctxHdr
  ELSE /\ ctxHdr' = CtxHeader
       /\ Goto(IF Connect THEN "connect" ELSE "plain")

Route ==
  /\ pc = "route"
  /\ \/ ToSecret /\ HiddenPage /\ ctxHdr' = ctxHdr
     \/ ~ToSecret /\ PassToSite /\ Pass /\ UNCHANGED <<hdr, ctxHdr>>
     \/ ~ToSecret /\ ~PassToSite /\ Rejected /\ Unauthorized /\ ctxHdr' = ctxHdr
     \/ ~ToSecret /\ ~PassToSite /\ ~Rejected /\ Serve /\ UNCHANGED <<hdr, seen>>
  /\ UNCHANGED <<conf, req, err, authErr, user, padding, header, uri, conn, flushed, sent, resp, framing>>

-----------------------------------------------------------------------------
(* CONNECT. *)

\* negotiateNaivePadding looks at the first value of the first header line only.
Negotiated ==
  CASE req.padding \in {"one", "legacy"} -> 1
    [] req.padding \in {"zero", "absent"} -> 0
    [] OTHER -> -1

ReplyHeaders ==
  {"Padding"} \cup (IF req.padding = "one" THEN {"Reply1"}
                    ELSE IF req.padding = "zero" THEN {"Reply0"} ELSE {})

Negotiate ==
  /\ pc = "connect"
  /\ IF Negotiated = -1 THEN Return("badPadding") /\ UNCHANGED <<padding, hdr>>
     ELSE /\ padding' = Negotiated
          /\ hdr' = hdr \cup ReplyHeaders
          /\ IF IsConnectUDP THEN Goto("udp")
             ELSE IF IsUnsupportedExtended THEN Return("unsupported")
             ELSE IF req.proto \in {2, 3} /\ req.pseudo THEN Return("badConnect")
             ELSE Goto("dial")
  /\ UNCHANGED <<conf, req, err, authErr, user, header, ctxHdr, uri, seen, conn, flushed, sent, resp, framing>>

\* serveConnectUDP parses the target, redacts the URI and, unless there is an
\* upstream, goes on as ConnectUDP describes.
ServeUDP ==
  /\ pc = "udp"
  /\ uri' = "redacted"
  /\ Return("udpMalformed") \/ Return(IF conf.upstream # "none" THEN "unsupported" ELSE "association")
  /\ UNCHANGED <<conf, req, err, authErr, user, padding, hdr, header, ctxHdr, seen, conn, flushed, sent, resp, framing>>

UpstreamAuth == IF conf.upcreds THEN {FromProxy("Proxy-Authorization")} ELSE {}

\* An HTTP upstream is sent the dialer's default headers and the context's, SOCKS5
\* has none.
ToUpstream == IF conf.upstream = "http" THEN UpstreamAuth \cup ctxHdr ELSE {}

\* dialContextCheckACL by way of the upstream.  A connection made as the request
\* ended is closed.
DialUpstream ==
  /\ pc = "dial" /\ conf.upstream # "none"
  /\ Send("upstream", ToUpstream)
  /\ \/ conn' = conn /\ Return("dialError")   \* an error, or neither error nor connection
     \/ conn' = "closed" /\ Return("dialError")
     \/ conn' = "open" /\ Goto("established")
  /\ UNCHANGED <<conf, req, err, authErr, user, padding, hdr, header, ctxHdr, uri, seen, flushed, resp, framing>>

\* dialContextCheckACL directly: the target policy and the race of dials.
DialDirect ==
  /\ pc = "dial" /\ conf.upstream = "none"
  /\ \/ conn' = conn /\ Return("dialError")
     \/ conn' = "open" /\ Goto("established")
  /\ UNCHANGED <<conf, req, err, authErr, user, padding, hdr, header, ctxHdr, uri, seen, flushed, sent, resp, framing>>

Established ==
  /\ pc = "established"
  /\ \/ flushed' = TRUE /\ Goto("tunnel")
     \/ flushed' = flushed /\ Return("flushError")
  /\ UNCHANGED <<conf, req, err, authErr, user, padding, hdr, header, ctxHdr, uri, seen, conn, sent, resp, framing>>

\* HTTP/1.1 hijacks the connection and never pads.
Hijack ==
  /\ pc = "tunnel" /\ req.proto = 1
  /\ \/ framing' = framing /\ Return("hijackError")
     \/ framing' = "plain" /\ Return("tunnel")
  /\ UNCHANGED <<conf, req, err, authErr, user, padding, hdr, header, ctxHdr, uri, seen, conn, flushed, sent, resp>>

\* HTTP/2 and HTTP/3 read the request's body and write the response.
Stream ==
  /\ pc = "tunnel" /\ req.proto \in {2, 3}
  /\ framing' = IF padding = 1 THEN "padded" ELSE "plain"
  /\ Return("tunnel")
  /\ UNCHANGED <<conf, req, err, authErr, user, padding, hdr, header, ctxHdr, uri, seen, conn, flushed, sent, resp>>

-----------------------------------------------------------------------------
(* Plain HTTP. *)

hopByHopHeaders ==
  {"Keep-Alive", "Proxy-Authenticate", "Proxy-Authorization", "Upgrade", "Connection",
   "Proxy-Connection", "Te", "Trailer", "Transfer-Encoding"}

\* header.Get reads the first Connection line; what later ones name is not looked at.
Nominated(lines) == IF lines = <<>> THEN {} ELSE lines[1]

\* header.Del removes every line of a name, whoever made it.
RemoveHopByHop(hs) == {l \in hs : l.name \notin hopByHopHeaders \cup Nominated(req.connection)}

OwnHeaders ==
  (IF conf.hideIP THEN {} ELSE {FromProxy("Forwarded")})
    \cup (IF conf.hideVia THEN {} ELSE {FromProxy("Via")})

\* Mutant of EditHeader: the proxy's own headers are added first.
AddThenRemove == header' = RemoveHopByHop(header \cup OwnHeaders)

EditHeader == header' = RemoveHopByHop(header) \cup OwnHeaders

Normalize ==
  /\ pc = "plain"
  /\ EditHeader
  /\ Goto(IF conf.upstream # "none" THEN "upstream" ELSE "direct")
  /\ UNCHANGED <<conf, req, err, authErr, user, padding, hdr, ctxHdr, uri, seen, conn, flushed, sent, resp, framing>>

\* The transport's round trip: it assigns the outer err.  An error of the dial
\* comes out of the transport as dialContextCheckACL returned it.
RoundTrip ==
  /\ pc = "direct"
  /\ \/ /\ req.method = "GET" /\ Return("badBody") \* the body could not be saved for a retry
        /\ UNCHANGED <<err, sent, resp>>
     \/ err' = "nil" /\ resp' = "open" /\ Send("origin", header) /\ Goto("closeBody")
     \/ err' = "handler" /\ UNCHANGED <<sent, resp>> /\ Goto("closeBody")
     \/ /\ err' = "set" /\ resp' = resp /\ Goto("closeBody")
        /\ sent' = sent \/ Send("origin", header)
  /\ UNCHANGED <<conf, req, authErr, user, padding, hdr, header, ctxHdr, uri, seen, conn, flushed, framing>>

\* The dial asks the upstream for a tunnel, and the request goes through it.  The
\* block declares an err of its own: the outer one is left alone.
UpstreamExchange ==
  /\ pc = "upstream"
  /\ header' = header \cup UpstreamAuth
  /\ \/ Send("upstream", ToUpstream) /\ Return("gateway") /\ resp' = resp  \* the dial failed
     \/ /\ conf.upstream = "http"         \* neither error nor connection: Write to nil
        /\ Send("upstream", ToUpstream) /\ Return("panic") /\ resp' = resp
     \/ /\ sent' = sent \cup {[to |-> "upstream", hdrs |-> ToUpstream],
                             [to |-> "origin", hdrs |-> header']}
        /\ \/ Return("gateway") /\ resp' = resp        \* the write or the read failed
           \/ resp' = "open" /\ Goto("closeBody")
  /\ UNCHANGED <<conf, req, err, authErr, user, padding, hdr, ctxHdr, uri, seen, conn, flushed, framing>>

CloseBody ==
  /\ pc = "closeBody"
  /\ Return("bodyError") \/ Goto("deliver")
  /\ UNCHANGED <<conf, req, err, authErr, user, padding, hdr, header, ctxHdr, uri, seen, conn, flushed, sent, resp, framing>>

\* forwardResponse, under the deferred close of the response's body: Via and the
\* response's headers, less the ones the response nominates; the copy may fail.
ForwardResponse ==
  /\ \E nominated \in SUBSET {"X", "Via"} :
       hdr' = (hdr \cup {"Via", "X"}) \ (hopByHopHeaders \cup nominated)
  /\ Return("forwarded") \/ Return("cutShort")

Deliver ==
  /\ pc = "deliver"
  /\ resp' = IF resp = "open" THEN "closed" ELSE resp
  /\ \/ err = "handler" /\ Return("dialError") /\ hdr' = hdr
     \/ err = "set" /\ Return("gateway") /\ hdr' = hdr
     \/ err = "nil" /\ ForwardResponse
  /\ UNCHANGED <<conf, req, err, authErr, user, padding, header, ctxHdr, uri, seen, conn, flushed, sent, framing>>

-----------------------------------------------------------------------------
(* The deferred calls, and the whole. *)

\* Mutant of DeferredClose: the close is deferred after the flush.
CloseOnceFlushed == conn' = IF conn = "open" /\ flushed THEN "closed" ELSE conn

DeferredClose == conn' = IF conn = "open" THEN "closed" ELSE conn

\* Mutant of DeferredRedact: only serveConnectUDP redacts.
NoRedact == uri' = uri

DeferredRedact == uri' = IF IsConnectUDP THEN "redacted" ELSE uri

RunDeferred ==
  /\ pc = "defer"
  /\ DeferredClose
  /\ DeferredRedact
  /\ Goto("done")
  /\ UNCHANGED <<conf, req, err, authErr, user, padding, hdr, header, ctxHdr, seen, flushed, sent, resp, framing>>

Finished == pc = "done" /\ UNCHANGED vars

Next ==
  \/ Authenticate \/ Route \/ Negotiate \/ ServeUDP \/ DialUpstream \/ DialDirect
  \/ Established \/ Hijack \/ Stream \/ Normalize \/ RoundTrip \/ UpstreamExchange
  \/ CloseBody \/ Deliver \/ RunDeferred \/ Finished

Spec == Init /\ [][Next]_vars

-----------------------------------------------------------------------------
(* Properties. *)

Unauthenticated == conf.auth /\ req.creds # "valid"

(* When credentials are configured, a request without valid ones causes no   *)
(* traffic: no target or upstream is dialed, no association is set up and    *)
(* nothing is sent on its behalf, whatever its method, host and protocol.    *)
NothingForStrangers ==
  Unauthenticated =>
    /\ conn = "none" /\ sent = {} /\ resp = "none"
    /\ out # "association"

(* "act like this proxy handler doesn't even exist": under probe resistance  *)
(* an unauthenticated request that is not for the secret domain ends in the  *)
(* next handler, or with the PAC file, with no header of the proxy's set.    *)
ProbesSeeTheSite ==
  (pc = "done" /\ conf.probe /\ Unauthenticated /\ ~ToSecret) =>
    out \in {"next", "pac"} /\ hdr = {}

(* "Keep the original URI available to probe-resistance and passthrough      *)
(* handlers, but never return it to Caddy's outer access-log middleware":    *)
(* the next handler sees the URI of a CONNECT-UDP request as it arrived, and *)
(* on every way out of the handler it has been redacted.                     *)
URIRedactedAfterUse ==
  IsConnectUDP => /\ seen # "redacted"
                  /\ pc = "done" => uri = "redacted"

(* "success confirms an established target connection": 200 is flushed only  *)
(* while the target's connection is open, and no connection to a target is   *)
(* left open, on the error paths after the dial too.                         *)
EstablishedThenClosed ==
  /\ pc = "tunnel" => conn = "open" /\ flushed
  /\ pc = "done" => conn # "open"
  /\ flushed => conn # "none"

(* Of the client's lines the origin gets exactly the end-to-end ones: those  *)
(* whose name is neither hop-by-hop nor in the first Connection line (a name *)
(* in a later one passes), its credentials for the proxy never.              *)
ToOrigin(hs) ==
  /\ {l \in hs : l.from = "client"} =
       {l \in req.header : l.name \notin hopByHopHeaders \cup Nominated(req.connection)}
  /\ FromProxy("Forwarded") \in hs <=> ~conf.hideIP
  /\ FromProxy("Via") \in hs <=> ~conf.hideVia

(* The upstream's CONNECT gets the client's Forwarded and X-Forwarded-For,   *)
(* as they arrived and even if the client nominates them.                    *)
ToProxy(hs) ==
  /\ \A l \in hs : l.from = "client" =>
       ~conf.hideIP /\ l \in req.header /\ l.name \in {"Forwarded", "X-Forwarded-For"}
  /\ FromProxy("Forwarded") \in hs <=> (~conf.hideIP /\ conf.upstream = "http")

(* What leaves the proxy never carries the client's credentials for it.  The *)
(* origin loses no end-to-end header and gets no hop-by-hop one, and the     *)
(* Forwarded and Via the proxy adds for itself survive even if the client    *)
(* nominates them; the upstream's CONNECT carries of the client's headers    *)
(* the forwarding ones alone, and under hide_ip none.                        *)
OutgoingHeaders ==
  \A m \in sent :
    /\ FromClient("Proxy-Authorization") \notin m.hdrs
    /\ IF m.to = "origin" THEN ToOrigin(m.hdrs) ELSE ToProxy(m.hdrs)

(* "OK; probably just didn't have a port": once the origin or the upstream   *)
(* has answered and the request's body is closed, the answer is forwarded,   *)
(* whether or not the Host header names a port.                              *)
AnswerForwarded ==
  (pc = "done" /\ resp = "closed") => out \in {"forwarded", "cutShort"}
=============================================================================
