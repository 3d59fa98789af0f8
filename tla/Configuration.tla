--------------------------- MODULE Configuration ---------------------------
(***************************************************************************)
(* How a handler comes to be: UnmarshalCaddyfile reads the directives of   *)
(* a forward_proxy block one by one (caddyfile.go), and Provision checks   *)
(* the result and builds the ACL and the dialer (forwardproxy.go).  Two    *)
(* things outlive the handler and are shared with the handlers of other    *)
(* sites and of earlier configurations: the dialers golang.org/x/net/proxy *)
(* keeps by URL scheme, and the CONNECT-UDP collectors.                    *)
(*                                                                         *)
(* A directive is [name, args], an acl directive [name, lines] with a      *)
(* [name, args] per line.  What a token means is given by the constants: a *)
(* token outside the domain of a parser is one the parser refuses.         *)
(***************************************************************************)
EXTENDS Lists, FiniteSetsExt

CONSTANTS
  Files,          \* the blocks to read, sequences of directives
  Atoi,           \* strconv.Atoi
  ParseDuration,  \* caddy.ParseDuration, in seconds
  ParseURL,       \* url.Parse: [scheme, host, creds]
  WithColon,      \* the user names that contain a colon
  Slashed,        \* the paths without a leading slash, with the slash added
  ReadLines,      \* readLinesFromFile
  Subjects,       \* the subjects newACLRule accepts
  DotLocalhost,   \* the host names that end in .localhost
  MaxOthers       \* bound: how often another handler is provisioned

ASSUME FilesAssumption ==
  \A f \in Files :
    /\ Len(f) \in Nat /\ DOMAIN f = 1..Len(f)
    /\ \A i \in DOMAIN f :
         IF f[i].name = "acl" THEN f[i].lines \in Seq([name : STRING, args : Seq(STRING)])
         ELSE f[i].args \in Seq(STRING)

ASSUME LinesAssumption == \A f \in DOMAIN ReadLines : ReadLines[f] \in Seq(STRING)

VARIABLES
  file,      \* the block being read
  at,        \* the directive that is next
  h,         \* the Handler's exported fields
  stage,     \* parse, provision, ready, refused
  aclRules,  \* h.aclRules: [subject, allow]
  transport, \* h.httpTransport's idle connections and the dialer's timeout
  dialer,    \* what h.dialContext dials through: none, direct, socks5, own or another's upstream
  scheme,    \* whose constructor proxy keeps for http and https: none, own, other
  made,      \* how often the collectors were created
  shown,     \* the collectors this handler's metrics registry shows, 0 before
  others     \* how often another handler was provisioned

configVars == <<file, at, h, stage, aclRules, transport, dialer, scheme, made, shown, others>>

ZeroHandler ==
  [AuthCredentials |-> <<>>, Hosts |-> <<>>, AllowedPorts |-> <<>>, HideIP |-> FALSE,
   HideVia |-> FALSE, DisableInsecureUpstreamsCheck |-> FALSE, ProbeResistance |-> "nil",
   Domain |-> "", PACPath |-> "", DialTimeout |-> 0, MaxIdleConns |-> 0,
   MaxIdleConnsPerHost |-> 0, Upstream |-> "", ACL |-> <<>>]

ConfigInit ==
  /\ file \in Files /\ at = 1 /\ h = ZeroHandler /\ stage = "parse"
  /\ aclRules = <<>> /\ transport = [idle |-> 0, perHost |-> 0, timeout |-> 0]
  /\ dialer = "none" /\ scheme = "none" /\ made = 0 /\ shown = 0 /\ others = 0

-----------------------------------------------------------------------------
(* UnmarshalCaddyfile. *)

Flags == {"hide_ip", "hide_via", "disable_insecure_upstreams_check"}

BadPort(p) == p \notin DOMAIN Atoi \/ Atoi[p] <= 0 \/ Atoi[p] > 65535

BadLine(l) ==
  \/ l.args = <<>>
  \/ l.name \notin {"allow", "deny", "allow_file", "deny_file"}
  \/ l.name \in {"allow_file", "deny_file"} /\ (Len(l.args) # 1 \/ l.args[1] \notin DOMAIN ReadLines)

\* The directives that may be given once, recognised by the field they set.
Twice(d) ==
  \/ d.name = "hosts" /\ h.Hosts # <<>>
  \/ d.name = "ports" /\ h.AllowedPorts # <<>>
  \/ d.name = "serve_pac" /\ h.PACPath # ""
  \/ d.name = "upstream" /\ h.Upstream # ""

\* What is wrong with a directive's arguments.
BadArgs(d) ==
  CASE d.name = "acl" -> \E i \in DOMAIN d.lines : BadLine(d.lines[i])
    [] d.name = "basic_auth" -> Len(d.args) # 2 \/ d.args[1] = "" \/ d.args[1] \in WithColon
    [] d.name = "hosts" -> d.args = <<>>
    [] d.name = "ports" -> d.args = <<>> \/ \E i \in DOMAIN d.args : BadPort(d.args[i])
    [] d.name \in Flags -> d.args # <<>>
    [] d.name \in {"probe_resistance", "serve_pac"} -> Len(d.args) > 1
    [] d.name = "dial_timeout" ->
         Len(d.args) # 1 \/ d.args[1] \notin DOMAIN ParseDuration \/ ParseDuration[d.args[1]] < 0
    [] d.name \in {"max_idle_conns", "max_idle_conns_per_host"} ->
         Len(d.args) # 1 \/ d.args[1] \notin DOMAIN Atoi
    [] d.name = "upstream" -> Len(d.args) # 1
    [] OTHER -> TRUE

Arg(d, default) == IF d.args = <<>> THEN default ELSE d.args[1]

Rule(l) ==
  [Subjects |-> IF l.name \in {"allow_file", "deny_file"} THEN ReadLines[l.args[1]] ELSE l.args,
   Allow |-> l.name \in {"allow", "allow_file"}]

\* serve_pac: a path that lacks its leading slash is given one.
PACPath(p) == IF p \in DOMAIN Slashed THEN Slashed[p] ELSE p

SetField(d) ==
  CASE d.name = "acl" -> [h EXCEPT !.ACL = @ \o [i \in DOMAIN d.lines |-> Rule(d.lines[i])]]
    [] d.name = "basic_auth" -> [h EXCEPT !.AuthCredentials = Append(@, d.args)]
    [] d.name = "hosts" -> [h EXCEPT !.Hosts = d.args]
    [] d.name = "ports" -> [h EXCEPT !.AllowedPorts = [i \in DOMAIN d.args |-> Atoi[d.args[i]]]]
    [] d.name = "hide_ip" -> [h EXCEPT !.HideIP = TRUE]
    [] d.name = "hide_via" -> [h EXCEPT !.HideVia = TRUE]
    [] d.name = "disable_insecure_upstreams_check" ->
         [h EXCEPT !.DisableInsecureUpstreamsCheck = TRUE]
    [] d.name = "probe_resistance" -> [h EXCEPT !.ProbeResistance = "set", !.Domain = Arg(d, "")]
    [] d.name = "serve_pac" -> [h EXCEPT !.PACPath = PACPath(Arg(d, "/proxy.pac"))]
    [] d.name = "dial_timeout" -> [h EXCEPT !.DialTimeout = ParseDuration[d.args[1]]]
    [] d.name = "max_idle_conns" -> [h EXCEPT !.MaxIdleConns = Atoi[d.args[1]]]
    [] d.name = "max_idle_conns_per_host" -> [h EXCEPT !.MaxIdleConnsPerHost = Atoi[d.args[1]]]
    [] d.name = "upstream" -> [h EXCEPT !.Upstream = d.args[1]]

UnmarshalDirective ==
  /\ stage = "parse" /\ at <= Len(file)
  /\ IF BadArgs(file[at]) \/ Twice(file[at]) THEN stage' = "refused" /\ UNCHANGED <<h, at>>
     ELSE h' = SetField(file[at]) /\ at' = at + 1 /\ stage' = stage
  /\ UNCHANGED <<file, aclRules, transport, dialer, scheme, made, shown, others>>

Unmarshalled ==
  /\ stage = "parse" /\ at > Len(file)
  /\ stage' = "provision"
  /\ UNCHANGED <<file, at, h, aclRules, transport, dialer, scheme, made, shown, others>>

-----------------------------------------------------------------------------
(* Provision. *)

\* Mutant of Collectors: every Provision makes new ones.
NewCollectors == made + 1

\* connectUDPMetrics.once.
Collectors == IF made = 0 THEN 1 ELSE made

\* initConnectUDPMetrics: a collector that is registered already is no error.
InitMetrics == made' = Collectors /\ shown' = Collectors

Transport ==
  [idle |-> IF h.MaxIdleConns = 0 THEN 50 ELSE IF h.MaxIdleConns < 0 THEN 0 ELSE h.MaxIdleConns,
   perHost |-> h.MaxIdleConnsPerHost,
   timeout |-> IF h.DialTimeout <= 0 THEN 30 ELSE h.DialTimeout]

DefaultDenies ==
  <<"10.0.0.0/8", "127.0.0.0/8", "172.16.0.0/12", "192.168.0.0/16", "::1/128", "fe80::/10">>

\* The rules of the file, subject by subject, then the default ones.
FileRules ==
  Concat([i \in DOMAIN h.ACL |->
    [j \in DOMAIN h.ACL[i].Subjects |-> [subject |-> h.ACL[i].Subjects[j], allow |-> h.ACL[i].Allow]]])

Rules ==
  FileRules \o [i \in DOMAIN DefaultDenies |-> [subject |-> DefaultDenies[i], allow |-> FALSE]]
            \o <<[subject |-> "all", allow |-> TRUE]>>

BadRules == {i \in DOMAIN FileRules : FileRules[i].subject \notin Subjects}

isLocalhost(host) == host \in {"localhost", "127.0.0.1", "::1"} \cup DotLocalhost

\* Mutant of ProbeWithoutAuth: the handler is taken as it comes.
ProbeAnyway == FALSE

ProbeWithoutAuth == h.ProbeResistance # "nil" /\ h.AuthCredentials = <<>>

\* Mutant of InsecureUpstream: only plain HTTP counts as insecure.
InsecureIfHTTP(u) ==
  ~h.DisableInsecureUpstreamsCheck /\ ~isLocalhost(u.host) /\ u.scheme = "http"

InsecureUpstream(u) ==
  ~h.DisableInsecureUpstreamsCheck /\ ~isLocalhost(u.host) /\ u.scheme # "https"

\* Mutant of Registered: the constructor is registered by the first handler only.
RegisteredFirst == IF scheme = "none" THEN "own" ELSE scheme

\* RegisterDialerType for https and for http, with a constructor for this
\* handler's upstream.
Registered == "own"

\* proxy.FromURL: the package knows SOCKS5 itself and looks the other schemes up
\* in its table, which keeps a constructor for http and https alone; that refuses a
\* URL without a host.
FromURL(u, table) ==
  CASE u.scheme \in {"socks5", "socks5h"} -> "socks5"
    [] u.scheme \in {"http", "https"} /\ u.host # "" -> table
    [] OTHER -> "error"

Refuse == stage' = "refused" /\ dialer' = dialer
Ready(d) == stage' = "ready" /\ dialer' = d

UpstreamDialer ==
  IF h.Upstream \notin DOMAIN ParseURL THEN Refuse /\ scheme' = scheme
  ELSE LET u == ParseURL[h.Upstream] IN
       IF InsecureUpstream(u) THEN Refuse /\ scheme' = scheme
       ELSE /\ scheme' = Registered
            /\ LET d == FromURL(u, scheme') IN IF d = "error" THEN Refuse ELSE Ready(d)

\* initConnectUDPMetrics finds no registry, or one that refuses a collector.
NoMetrics ==
  /\ stage = "provision" /\ stage' = "refused"
  /\ made' \in {made, Collectors}
  /\ UNCHANGED <<file, at, h, aclRules, transport, dialer, scheme, shown, others>>

Provision ==
  /\ stage = "provision"
  /\ InitMetrics
  /\ transport' = Transport
  /\ IF BadRules # {}
     THEN Refuse /\ aclRules' = SubSeq(FileRules, 1, Min(BadRules) - 1) /\ scheme' = scheme
     ELSE /\ aclRules' = Rules
          /\ IF ProbeWithoutAuth THEN Refuse /\ scheme' = scheme
             ELSE IF h.Upstream = "" THEN Ready("direct") /\ scheme' = scheme
             ELSE UpstreamDialer
  /\ UNCHANGED <<file, at, h, others>>

\* Another site's handler, or the one of a new configuration, is provisioned.
ProvisionOther ==
  /\ others < MaxOthers
  /\ others' = others + 1
  /\ made' = Collectors
  /\ scheme' = "other" \/ scheme' = scheme
  /\ UNCHANGED <<file, at, h, stage, aclRules, transport, dialer, shown>>

ConfigNext == UnmarshalDirective \/ Unmarshalled \/ NoMetrics \/ Provision \/ ProvisionOther

-----------------------------------------------------------------------------
(* Properties. *)

Has(name) == \E i \in DOMAIN file : file[i].name = name

(* "upstream directive specified more than once": a block that is accepted   *)
(* names at most one upstream, and the handler dials through that one: not   *)
(* around it, and not through the upstream another handler registered with   *)
(* the same package-wide table before it or after it.                        *)
OwnUpstream ==
  stage = "ready" =>
    LET named == {i \in DOMAIN file : file[i].name = "upstream" /\ file[i].args # <<"">>} IN
    /\ named = {} <=> dialer = "direct"
    /\ \A i \in named : named = {i} /\ h.Upstream = file[i].args[1] /\ dialer # "other"

\* The rules as the block spells them: every line's subjects in order, over
\* several acl blocks and the files they name, with the line's verdict.
WrittenLines ==
  Concat([i \in DOMAIN file |-> IF file[i].name = "acl" THEN file[i].lines ELSE <<>>])
WrittenSubjects(l) == IF l.name \in {"allow_file", "deny_file"} THEN ReadLines[l.args[1]] ELSE l.args
WrittenRules ==
  Concat([i \in DOMAIN WrittenLines |->
    [j \in DOMAIN WrittenSubjects(WrittenLines[i]) |->
      [subject |-> WrittenSubjects(WrittenLines[i])[j],
       allow |-> WrittenLines[i].name \notin {"deny", "deny_file"}]]])

(* "Highest number ... since process start": the collectors outlive the      *)
(* configuration, and the registry of every handler in service shows the     *)
(* ones associations are counted in, however many were provisioned since.    *)
MetricsShared == stage = "ready" => shown = made
=============================================================================
