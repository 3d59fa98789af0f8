------------------------------- MODULE Server -------------------------------
(***************************************************************************)
(* A handler from its Caddyfile block to the traffic it causes: the block  *)
(* is read and provisioned (Configuration), and a handler that is ready    *)
(* serves a request (ServeHTTP), while other handlers are provisioned.     *)
(***************************************************************************)
EXTENDS ServeHTTP, Configuration

\* The fields of the Handler that ServeHTTP looks at.
ConfOf ==
  [auth |-> h.AuthCredentials # <<>>, probe |-> h.ProbeResistance # "nil",
   secret |-> h.Domain # "", hosts |-> h.Hosts # <<>>, hideIP |-> h.HideIP, hideVia |-> h.HideVia,
   upstream |-> CASE dialer \in {"none", "direct"} -> "none" [] dialer = "socks5" -> "socks5"
                  [] OTHER -> "http",
   upcreds |-> h.Upstream \in DOMAIN ParseURL /\ ParseURL[h.Upstream].creds,
   pac |-> h.PACPath # ""]

\* No request yet: req is a placeholder.
ServerInit ==
  /\ ConfigInit
  /\ conf = ConfOf /\ req = CHOOSE r \in Requests : TRUE
  /\ pc = "idle" /\ header = {} /\ Untouched

\* Caddy routes requests to the handlers of a configuration that loaded.
Arrive ==
  /\ stage = "ready" /\ pc = "idle"
  /\ conf' = ConfOf
  /\ req' \in Requests /\ header' = req'.header
  /\ pc' = "start"
  /\ UNCHANGED <<configVars, err, authErr, user, padding, hdr, ctxHdr, uri, seen, conn, flushed,
                 sent, resp, framing, out>>

Refused == stage = "refused" /\ UNCHANGED <<vars, configVars>>

\* Others are provisioned until the request arrives: later they change nothing it reads.
ServerNext ==
  \/ pc = "idle" /\ ConfigNext /\ UNCHANGED vars
  \/ Arrive
  \/ Next /\ UNCHANGED configVars
  \/ Refused

ServerSpec == ServerInit /\ [][ServerNext]_<<vars, configVars>>

-----------------------------------------------------------------------------
(* Properties. *)

(* What a block says holds of the traffic, wherever in the block it says     *)
(* it: with basic_auth a request without valid credentials causes none; with *)
(* probe_resistance it is answered by the site, unless it asks for a secret  *)
(* domain that the block names; with hide_ip nothing the proxy sends names   *)
(* the client; and the ACL has the written rules in the written order, the   *)
(* default denies and "allow all" after them.                                *)
FileHonoured ==
  stage = "ready" =>
    /\ (Has("basic_auth") /\ pc # "idle" /\ req.creds # "valid") =>
         conn = "none" /\ sent = {} /\ out # "association"
    /\ (Has("probe_resistance") /\ pc = "done" /\ req.creds # "valid") =>
         \/ out \in {"next", "pac"} /\ hdr = {}
         \/ req.host = "secret" /\ out = "hiddenAuth"
    /\ Has("hide_ip") => \A m \in sent : FromProxy("Forwarded") \notin m.hdrs
    /\ Starts(WrittenRules, aclRules) /\ Len(aclRules) = Len(WrittenRules) + 7

(* "By default, forwardproxy will refuse to connect to upstreams that are    *)
(* not using TLS" (README.md): traffic for an upstream on another host goes  *)
(* there over TLS, unless the block disables the check.                      *)
SecureUpstream ==
  (\E m \in sent : m.to = "upstream") =>
    \/ Has("disable_insecure_upstreams_check")
    \/ ParseURL[h.Upstream].scheme = "https"
    \/ isLocalhost(ParseURL[h.Upstream].host)
=============================================================================
