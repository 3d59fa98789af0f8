------------------------------ MODULE MCServer ------------------------------
(* Blocks that are accepted, one for every combination of what ServeHTTP   *)
(* looks at, and blocks that are refused, one for every reason; and the    *)
(* requests of MCServeHTTP.                                                *)
EXTENDS Server, MCServeHTTP, TLC

MCServerRequests ==
  {r \in MCRequests : r.method = "CONNECT" \/ Len(r.connection) = 2 \/ r.proto = 1}

MCAtoi == "80" :> 80 @@ "65535" :> 65535 @@ "65536" :> 65536 @@ "0" :> 0 @@ "-1" :> -1
MCParseDuration == "10s" :> 10 @@ "0s" :> 0 @@ "-1s" :> -1
MCWithColon == {"us:er"}
MCSlashed == "pac" :> "/pac"
MCReadLines == "hosts.txt" :> <<"example.org", "8.8.8.8">> @@ "empty.txt" :> <<>>
MCSubjects == {"all", "example.org", "8.8.8.8", "10.0.0.0/8", "127.0.0.1"}
MCDotLocalhost == {"a.localhost"}

URL(s, host) == [scheme |-> s, host |-> host, creds |-> host = "remote"]
MCParseURL ==
  "tls" :> URL("https", "remote") @@ "tls2" :> URL("https", "remote2") @@ "nohost" :> URL("https", "")
    @@ "plain" :> URL("http", "remote") @@ "near" :> URL("http", "a.localhost")
    @@ "socks" :> URL("socks5", "::1") @@ "socksh" :> URL("socks5h", "::1") @@ "farsocks" :> URL("socks5", "remote")
    @@ "ftp" :> URL("ftp", "localhost")

D(name, args) == [name |-> name, args |-> args]
ACL(lines) == [name |-> "acl", lines |-> lines]
Maybe(d) == {<<>>, <<d>>}

Auth == D("basic_auth", <<"user", "pass">>)
Upstream(u) == D("upstream", <<u>>)

\* The order is not the one of the documentation: probe_resistance comes first.
Combinations ==
  {p \o i \o u \o a \o s \o <<D("serve_pac", <<"pac">>)>> :
     p \in {<<>>, <<D("probe_resistance", <<>>)>>, <<D("probe_resistance", <<"secret">>)>>},
     i \in {<<>>, <<D("hide_ip", <<>>)>>, <<D("hide_via", <<>>)>>},
     u \in {<<>>, <<Upstream("tls")>>},
     a \in Maybe(Auth), s \in Maybe(D("hosts", <<"site">>))}

Accepted ==
  {<<D("ports", <<"80", "65535">>), ACL(<<D("deny", <<"example.org", "8.8.8.8">>)>>),
     D("dial_timeout", <<"10s">>), D("max_idle_conns", <<"-1">>), D("max_idle_conns_per_host", <<"0">>),
     ACL(<<D("allow_file", <<"hosts.txt">>), D("deny_file", <<"hosts.txt">>), D("deny_file", <<"empty.txt">>),
           D("allow", <<"127.0.0.1">>)>>), Auth, Auth>>,
   <<Upstream("plain"), D("disable_insecure_upstreams_check", <<>>), D("dial_timeout", <<"0s">>)>>,
   <<Upstream("near"), D("hide_ip", <<>>), D("probe_resistance", <<"secret">>), Auth>>,
   <<Upstream("socks")>>, <<Upstream("socksh"), D("hide_ip", <<>>)>>, <<Upstream(""), Upstream("tls2")>>}

BadDirectives ==
  {D("basic_auth", <<"user">>), D("basic_auth", <<"", "pass">>), D("basic_auth", <<"us:er", "pass">>),
   D("hosts", <<>>), D("ports", <<>>), D("ports", <<"80", "0">>), D("ports", <<"65536">>),
   D("ports", <<"http">>), D("hide_ip", <<"x">>), D("probe_resistance", <<"a", "b">>),
   D("serve_pac", <<"a", "b">>), D("dial_timeout", <<"30">>), D("dial_timeout", <<"-1s">>),
   D("max_idle_conns", <<"x">>), D("upstream", <<>>), D("unknown", <<>>),
   ACL(<<D("allow", <<>>)>>), ACL(<<D("permit", <<"all">>)>>), ACL(<<D("deny_file", <<"missing">>)>>),
   ACL(<<D("allow_file", <<"hosts.txt", "empty.txt">>)>>), ACL(<<D("deny", <<"a b">>)>>),
   Upstream("%"), Upstream("plain"), Upstream("farsocks"), Upstream("nohost"), Upstream("ftp")}

Repeated ==
  {D("hosts", <<"site">>), D("ports", <<"80">>), D("serve_pac", <<>>), Upstream("tls")}

MCFiles ==
  Combinations \cup Accepted \cup {<<Auth, d>> : d \in BadDirectives}
    \cup {<<d, d>> : d \in Repeated} \cup {<<Upstream("tls"), Upstream("tls2")>>}
=============================================================================
