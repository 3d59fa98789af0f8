--------------------------- MODULE MCServeHTTP ---------------------------
(* Every configuration, and every request over small sets of the fields    *)
(* the handler looks at.  A request has a Connection line that names       *)
(* nothing of interest, or two lines, of which the first names an end-to-  *)
(* end header and the two the proxy adds.                                  *)
EXTENDS ServeHTTP

MCConfigs ==
  {c \in [auth : BOOLEAN, probe : BOOLEAN, secret : BOOLEAN, hosts : BOOLEAN, hideIP : BOOLEAN,
          hideVia : {FALSE}, upstream : {"none", "http"}, upcreds : {TRUE}, pac : {TRUE}] :
     (c.probe => c.auth) /\ (c.secret => c.probe)}

Header(creds) ==
  {FromClient(n) : n \in {"X", "Y", "Te", "Forwarded", "X-Forwarded-For", "Connection"}
                        \cup (IF creds = "absent" THEN {} ELSE {"Proxy-Authorization"})}

\* Plain requests and CONNECT requests; a :protocol other than the HTTP
\* version exists only on HTTP/3.
PlainRequests ==
  {[method |-> m, proto |-> p, protocol |-> "http", creds |-> c, host |-> h, hasPort |-> hp,
    pacPath |-> pp, pseudo |-> FALSE, padding |-> "absent", header |-> Header(c),
    connection |-> n] :
   m \in {"GET", "POST"}, p \in 0..3, c \in {"absent", "invalid", "valid"},
   h \in {"secret", "site", "other"}, hp \in BOOLEAN, pp \in BOOLEAN,
   n \in {<<{}>>, <<{"X", "Forwarded", "Via"}, {"Y"}>>}}

ConnectRequests ==
  {[method |-> "CONNECT", proto |-> p[1], protocol |-> p[2], creds |-> c, host |-> h,
    hasPort |-> TRUE, pacPath |-> FALSE, pseudo |-> ps, padding |-> pad,
    header |-> Header(c), connection |-> <<{}>>] :
   p \in {<<0, "http">>, <<1, "http">>, <<2, "http">>, <<3, "http">>,
          <<3, "connect-udp">>, <<3, "other">>},
   c \in {"absent", "invalid", "valid"}, h \in {"secret", "site", "other"},
   ps \in BOOLEAN, pad \in {"absent", "legacy", "zero", "one", "invalid"}}

MCRequests == PlainRequests \cup ConnectRequests
==========================================================================
