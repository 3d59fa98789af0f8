---------------------------- MODULE TargetPolicy ----------------------------
(***************************************************************************)
(* The target policy: how Provision turns the configured ACL into the rule *)
(* list (acl.go, forwardproxy.go), and how one target is judged against it *)
(* (prepareTargetPolicy, resolveTargetCheckACL, hostIsAllowed).            *)
(*                                                                         *)
(* A host name is the sequence of its labels; a label is a model of the    *)
(* text between two dots, "" when there is none and "?" when it is too     *)
(* long or has a character that isValidDomainLite refuses.  An address is  *)
(* a model value and a network the set of its addresses.                   *)
(***************************************************************************)
EXTENDS Integers, Sequences, FiniteSetsExt

CONSTANTS
  IP,            \* addresses
  LocalNets,     \* the networks Provision denies by default, in order
  Subjects,      \* the subjects ACL directives may name
  MaxDirectives, \* length of the longest ACL
  Hosts,         \* host names clients ask for
  Ports,         \* what Atoi makes of the port clients ask for, -1 if it fails
  AllowedPorts,  \* h.AllowedPorts
  Lookups        \* the address lists the resolver may return

ASSUME NetAssumption == IP # {} /\ LocalNets \in Seq(SUBSET IP) /\ Lookups \subseteq Seq(IP)
ASSUME SubjectAssumption == \A s \in Subjects : s.kind \in {"all", "net", "ip", "domain", "wild"}
ASSUME PortAssumption == Ports \subseteq Int

VARIABLES
  acl,      \* the ACL's directives, one per subject: [subject, allow]
  rules,    \* h.aclRules
  next,     \* the directive Provision reads next
  pc,       \* provision, prepare, lookup, filter, done
  target,   \* [host, port]
  answer,   \* what the resolver returned
  at,       \* the address of the answer that is judged next
  result,   \* none, broken (Provision failed), malformed, port, domain, lookup, empty, ok
  addresses \* resolvedTarget.addresses

vars == <<acl, rules, next, pc, target, answer, at, result, addresses>>

Directive == [subject : Subjects, allow : BOOLEAN]

Init ==
  /\ acl \in UNION {[1..n -> Directive] : n \in 0..MaxDirectives}
  /\ rules = <<>> /\ next = 1
  /\ pc = "provision"
  /\ target \in [host : Hosts, port : Ports]
  /\ answer = <<>> /\ at = 1 /\ result = "none" /\ addresses = <<>>

-----------------------------------------------------------------------------
(* newACLRule and Provision. *)

ValidDomain(labels) == \A i \in DOMAIN labels : labels[i] \notin {"", "?"}

\* A subject is all, a network or a single address, or a domain that may have
\* the prefix *.; anything else is an error.
Rule(s, allow) ==
  CASE s.kind = "all"    -> [kind |-> "all", allow |-> allow]
    [] s.kind = "net"    -> [kind |-> "ip", net |-> s.net, allow |-> allow]
    [] s.kind = "ip"     -> [kind |-> "ip", net |-> {s.ip}, allow |-> allow]
    [] s.kind = "domain" -> [kind |-> "domain", domain |-> s.labels, subdomains |-> FALSE,
                             allow |-> allow]
    [] s.kind = "wild"   -> [kind |-> "domain", domain |-> s.labels, subdomains |-> TRUE,
                             allow |-> allow]

ProvisionRule ==
  /\ pc = "provision" /\ next <= Len(acl)
  /\ LET s == acl[next].subject IN
       IF s.kind \in {"domain", "wild"} /\ ~ValidDomain(s.labels)
       THEN pc' = "done" /\ result' = "broken" /\ rules' = rules
       ELSE /\ rules' = Append(rules, Rule(s, acl[next].allow))
            /\ UNCHANGED <<pc, result>>
  /\ next' = next + 1
  /\ UNCHANGED <<acl, target, answer, at, addresses>>

DefaultRules ==
  Append([i \in DOMAIN LocalNets |-> [kind |-> "ip", net |-> LocalNets[i], allow |-> FALSE]],
         [kind |-> "all", allow |-> TRUE])

\* Mutant of AppendDefaults: the default rules come first.
PrependDefaults == rules' = DefaultRules \o rules

AppendDefaults == rules' = rules \o DefaultRules

ProvisionDefaults ==
  /\ pc = "provision" /\ next > Len(acl)
  /\ AppendDefaults
  /\ pc' = "prepare"
  /\ UNCHANGED <<acl, next, target, answer, at, result, addresses>>

-----------------------------------------------------------------------------
(* Matching. *)

\* strings.TrimPrefix(domain, "."): a leading dot is an empty first label.
TrimDot(labels) == IF Len(labels) > 1 /\ labels[1] = "" THEN Tail(labels) ELSE labels

\* HasSuffix(d, "." + a): the suffix starts at a dot.
UnderDomain(d, a) == \E n \in 1..(Len(d) - 1) : SubSeq(d, n + 1, Len(d)) = a

Matches(rule, host, ip) ==
  CASE rule.kind = "all"    -> TRUE
    [] rule.kind = "ip"     -> ip \in rule.net
    [] rule.kind = "domain" -> LET d == TrimDot(host) IN
         d = rule.domain \/ (rule.subdomains /\ UnderDomain(d, rule.domain))

\* The first rule of rs that matches decides.
Decision(rs, host, ip) ==
  LET hits == {i \in DOMAIN rs : Matches(rs[i], host, ip)} IN
  IF hits = {} THEN "none" ELSE IF rs[Min(hits)].allow THEN "allow" ELSE "deny"

\* Mutant of HostIsAllowed: a later allow rule overrides an earlier deny.
AnyAllows(host, ip) == \E i \in DOMAIN rules : rules[i].allow /\ Matches(rules[i], host, ip)

HostIsAllowed(host, ip) == Decision(rules, host, ip) = "allow"

IsDomainRule(rule) == rule.kind = "domain"

\* Mutant of DomainDecision: the rules that are not about hosts are not skipped.
AnyDecision(host) == Decision(rules, host, "")

\* What the domain rules alone say of a host.
DomainDecision(host) ==
  LET hits == {i \in DOMAIN rules : IsDomainRule(rules[i]) /\ Matches(rules[i], host, "")} IN
  IF hits = {} THEN "none" ELSE IF rules[Min(hits)].allow THEN "allow" ELSE "deny"

PortIsAllowed(port) ==
  /\ port > 0 /\ port <= 65535
  /\ AllowedPorts = {} \/ port \in AllowedPorts

-----------------------------------------------------------------------------
(* Judging a target. *)

Fail(kind) == pc' = "done" /\ result' = kind

\* Mutant of Judge: the domain rules are not consulted before the lookup.
JudgePort ==
  IF ~PortIsAllowed(target.port) THEN Fail("port") ELSE pc' = "lookup" /\ result' = result

Judge ==
  IF ~PortIsAllowed(target.port) THEN Fail("port")
  ELSE IF DomainDecision(target.host) = "deny" THEN Fail("domain")
  ELSE pc' = "lookup" /\ result' = result

\* prepareTargetPolicy; the target may also not split into host and port.
Prepare ==
  /\ pc = "prepare"
  /\ Fail("malformed") \/ Judge
  /\ UNCHANGED <<acl, rules, next, target, answer, at, addresses>>

Lookup ==
  /\ pc = "lookup"
  /\ \/ /\ answer' \in Lookups
        /\ pc' = "filter" /\ result' = result
     \/ Fail("lookup") /\ answer' = answer
  /\ UNCHANGED <<acl, rules, next, target, at, addresses>>

Admitted == {addresses[i] : i \in DOMAIN addresses}

\* One round of the loop over the answer.
FilterAddress ==
  /\ pc = "filter" /\ at <= Len(answer)
  /\ addresses' = IF HostIsAllowed(target.host, answer[at]) /\ answer[at] \notin Admitted
                  THEN Append(addresses, answer[at]) ELSE addresses
  /\ at' = at + 1
  /\ UNCHANGED <<acl, rules, next, pc, target, answer, result>>

Filtered ==
  /\ pc = "filter" /\ at > Len(answer)
  /\ Fail(IF addresses = <<>> THEN "empty" ELSE "ok")
  /\ UNCHANGED <<acl, rules, next, target, answer, at, addresses>>

Finished == pc = "done" /\ UNCHANGED vars

Next ==
  \/ ProvisionRule \/ ProvisionDefaults \/ Prepare \/ Lookup \/ FilterAddress \/ Filtered
  \/ Finished

Spec == Init /\ [][Next]_vars

\* targetPolicyFailure.statusCode.
Status ==
  CASE result = "malformed" -> 400
    [] result = "lookup" -> 502
    [] result \in {"port", "domain", "empty"} -> 403
    [] OTHER -> 200

-----------------------------------------------------------------------------
(* Properties. *)

Judged == pc = "done" /\ result # "broken"

\* The configured directives, and whether one of them speaks of a target.
Speaks(i, host, ip) == Matches(Rule(acl[i].subject, acl[i].allow), host, ip)
Local == UNION {LocalNets[i] : i \in DOMAIN LocalNets}

\* A port that can be dialed and that the ports directive, if there is one, lists.
Permitted(port) ==
  /\ 1 <= port /\ port < 65536
  /\ AllowedPorts # {} => port \in AllowedPorts

(* An address of a network that is denied by default is admitted only if a   *)
(* configured directive allows it and no earlier one denies it: neither the  *)
(* default rules nor their place in the list can be bypassed.                *)
LocalNeedsAllow ==
  Judged => \A ip \in Admitted \cap Local :
    \E i \in DOMAIN acl :
      /\ acl[i].allow /\ Speaks(i, target.host, ip)
      /\ \A j \in 1..(i - 1) : Speaks(j, target.host, ip) => acl[j].allow

(* "hostname rules, matched early in the chain, will override later IP       *)
(* rules" (README.md): when the first directive that can speak of the host   *)
(* at all is a hostname rule that allows it, every address it resolves to is *)
(* admitted, local ones too.                                                 *)
HostnameOverridesLaterIP ==
  Judged /\ result \in {"ok", "empty"} =>
    \A i \in DOMAIN acl :
      /\ acl[i].subject.kind \in {"domain", "wild"} /\ acl[i].allow
      /\ \A ip \in IP : Speaks(i, target.host, ip)
      /\ \A j \in 1..(i - 1), ip \in IP : ~Speaks(j, target.host, ip)
      => Admitted = {answer[k] : k \in DOMAIN answer}

(* A refusal has a reason the configuration states: 403 means the port is    *)
(* not allowed, a hostname directive denies the host, or every address is    *)
(* denied by a directive or by the default networks.                         *)
RefusalJustified ==
  Judged /\ Status = 403 =>
    \/ ~Permitted(target.port)
    \/ \E i \in DOMAIN acl :
         /\ acl[i].subject.kind \in {"domain", "wild"} /\ ~acl[i].allow
         /\ \A ip \in IP : Speaks(i, target.host, ip)
    \/ result = "empty" /\ \A k \in DOMAIN answer :
         \/ answer[k] \in Local
         \/ \E i \in DOMAIN acl : ~acl[i].allow /\ Speaks(i, target.host, answer[k])

(* A host that a hostname directive denies, with no earlier hostname         *)
(* directive allowing it, is never looked up, and neither is one asked for   *)
(* on a port that is not permitted: its name does not leave the proxy.       *)
DeniedHostNotResolved ==
  pc \in {"lookup", "filter"} =>
    /\ Permitted(target.port)
    /\ \A i \in DOMAIN acl :
         /\ acl[i].subject.kind \in {"domain", "wild"} /\ ~acl[i].allow
         /\ \A ip \in IP : Speaks(i, target.host, ip)
         => \E j \in 1..(i - 1) :
              /\ acl[j].subject.kind \in {"domain", "wild"} /\ acl[j].allow
              /\ \A ip \in IP : Speaks(j, target.host, ip)

(* "caddy will check the IP address and hostname against the directives in   *)
(* order until a directive matches the request" (README.md): an address is   *)
(* refused only if the first directive that matches it denies it.            *)
InOrder ==
  Judged /\ result = "domain" =>
    \A ip \in IP : Decision(rules, target.host, ip) = "deny"
=============================================================================
