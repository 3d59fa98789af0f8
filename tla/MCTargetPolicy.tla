-------------------------- MODULE MCTargetPolicy --------------------------
(* One public and one local address; every ACL of up to three directives   *)
(* over six kinds of subject.                                              *)
EXTENDS TargetPolicy

CONSTANTS pub, loc

MCIP == {pub, loc}
MCLocalNets == <<{loc}>>
b == <<"b", "com">>
MCSubjects ==
  {[kind |-> "all"], [kind |-> "net", net |-> {loc}], [kind |-> "ip", ip |-> pub],
   [kind |-> "domain", labels |-> b], [kind |-> "wild", labels |-> b],
   [kind |-> "domain", labels |-> <<"b", "", "com">>]}
MCHosts == {b, <<"a", "b", "com">>, <<"", "b", "com">>, <<"ab", "com">>}
MCPorts == {-1, 0, 443, 65535, 65536}
MCLookups == {<<>>, <<pub>>, <<loc>>, <<loc, pub>>, <<pub, loc, pub>>}
===========================================================================
