-------------------------- MODULE TargetPolicyProofs --------------------------
(***************************************************************************)
(* What the target policy guarantees for every ACL, every list of default  *)
(* networks, every host and every answer of the resolver.  Provision's     *)
(* list is the ACL's rules and then the default ones (Listed); the loop    *)
(* over the answer keeps exactly what the list allows (Kept).  The         *)
(* properties follow from these two by finding the first rule that matches.*)
(***************************************************************************)
EXTENDS TargetPolicy, WellFoundedInduction, TLAPS

AclRules == {Rule(s, a) : s \in Subjects, a \in BOOLEAN}
DenyRules == {[kind |-> "ip", net |-> n, allow |-> FALSE] : n \in SUBSET IP}
RuleSet == AclRules \cup DenyRules \cup {[kind |-> "all", allow |-> TRUE]}

Types ==
  /\ acl \in Seq(Directive) /\ rules \in Seq(RuleSet) /\ next \in Nat \ {0}
  /\ answer \in Seq(IP) /\ addresses \in Seq(IP) /\ at \in Nat \ {0}
  /\ pc \in {"provision", "prepare", "lookup", "filter", "done"}

\* The first n rules are the ACL's.
Own(n) == \A i \in 1..n : rules[i] = Rule(acl[i].subject, acl[i].allow)

Complete ==
  /\ Len(rules) = Len(acl) + Len(LocalNets) + 1
  /\ Own(Len(acl))
  /\ \A i \in 1..Len(LocalNets) :
       rules[Len(acl) + i] = [kind |-> "ip", net |-> LocalNets[i], allow |-> FALSE]
  /\ rules[Len(rules)] = [kind |-> "all", allow |-> TRUE]

Listed ==
  /\ pc = "provision" => /\ next <= Len(acl) + 1 /\ Len(rules) = next - 1 /\ Own(next - 1)
                         /\ result = "none"
  /\ (pc # "provision" /\ result # "broken") => Complete

Allowed(ip) == HostIsAllowed(target.host, ip)

Kept ==
  /\ pc \in {"provision", "prepare", "lookup"} => addresses = <<>> /\ at = 1
  /\ result \notin {"none", "ok", "empty"} => addresses = <<>>
  /\ pc # "done" => result = "none"
  /\ at <= Len(answer) + 1
  /\ \A k \in 1..Len(addresses) : Allowed(addresses[k])
  /\ \A k \in 1..Len(addresses) : \E j \in 1..Len(answer) : addresses[k] = answer[j]
  /\ \A k \in 1..(at - 1) : Allowed(answer[k]) => answer[k] \in Admitted
  /\ result \in {"ok", "empty"} => at = Len(answer) + 1
  /\ result = "empty" => addresses = <<>>

Refused ==
  /\ result \in {"none", "broken", "malformed", "port", "domain", "lookup", "empty", "ok"}
  /\ result = "port" => ~PortIsAllowed(target.port)
  /\ result = "domain" => DomainDecision(target.host) = "deny"
  /\ pc \in {"lookup", "filter"} =>
       PortIsAllowed(target.port) /\ DomainDecision(target.host) # "deny"
  /\ target.port \in Int

IInv == Types /\ Listed /\ Kept /\ Refused

-----------------------------------------------------------------------------
(* The first rule that matches *)

\* A set of natural numbers that is not empty has a least element.
LEMMA MinIsLeast ==
  ASSUME NEW S \in SUBSET Nat, S # {}
  PROVE  Min(S) \in S /\ \A y \in S : Min(S) <= y
<1>. DEFINE R == {ss \in Nat \X Nat : ss[1] < ss[2]}
<1>1. IsWellFoundedOn(R, Nat)
  BY NatLessThanWellFounded DEF OpToRel
<1>. HIDE DEF R
<1>2. \E x \in S : \A y \in S : ~(<<y, x>> \in R)
  BY <1>1, WFMin, Zenon
<1>3. \E x \in S : \A y \in S : x <= y
  <2>1. PICK x \in S : \A y \in S : ~(<<y, x>> \in R)
    BY <1>2
  <2>2. \A y \in S : ~(y < x)
    BY <2>1, Zenon DEF R
  <2>. QED BY <2>2
<1>. QED BY <1>3, Zenon DEF Min

\* Decision is allow when the first rule that matches allows.
LEMMA AllowedBy ==
  ASSUME NEW host, NEW ip, rules \in Seq(RuleSet)
  PROVE  HostIsAllowed(host, ip) <=>
           \E m \in 1..Len(rules) : /\ Matches(rules[m], host, ip) /\ rules[m].allow
                                   /\ \A j \in 1..(m - 1) : ~Matches(rules[j], host, ip)
<1>. DEFINE M(i) == Matches(rules[i], host, ip)  hits == {i \in 1..Len(rules) : M(i)}
<1>0. DOMAIN rules = 1..Len(rules) /\ Len(rules) \in Nat
  OBVIOUS
<1>1. HostIsAllowed(host, ip) <=> (hits # {} /\ rules[Min(hits)].allow)
  <2>1. Decision(rules, host, ip) = IF hits = {} THEN "none"
                                    ELSE IF rules[Min(hits)].allow THEN "allow" ELSE "deny"
    BY <1>0, Zenon DEF Decision
  <2>. HIDE DEF hits
  <2>. QED BY <2>1 DEF HostIsAllowed
<1>2. hits \in SUBSET Nat
  BY <1>0
<1>3. hits # {} => Min(hits) \in hits /\ \A y \in hits : Min(hits) <= y
  BY <1>2, MinIsLeast, Zenon
<1>4. ASSUME HostIsAllowed(host, ip)
      PROVE  \E m \in 1..Len(rules) : M(m) /\ rules[m].allow /\ \A j \in 1..(m - 1) : ~M(j)
  <2>1. Min(hits) \in 1..Len(rules) /\ M(Min(hits)) /\ rules[Min(hits)].allow
    BY <1>1, <1>3, <1>4
  <2>2. \A j \in 1..(Min(hits) - 1) : ~M(j)
    <3>. HIDE DEF M
    <3>. QED BY <1>1, <1>3, <1>4, <2>1
  <2>. QED BY <2>1, <2>2
<1>5. ASSUME NEW m \in 1..Len(rules), M(m), rules[m].allow, \A j \in 1..(m - 1) : ~M(j)
      PROVE  HostIsAllowed(host, ip)
  <2>1. m \in hits
    BY <1>5
  <2>. HIDE DEF M
  <2>2. Min(hits) = m
    BY <2>1, <1>3, <1>5
  <2>. QED BY <1>1, <1>5, <2>1, <2>2
<1>. QED BY <1>4, <1>5

\* The same of the domain rules alone.
LEMMA DeniedBy ==
  ASSUME NEW host, rules \in Seq(RuleSet)
  PROVE  /\ DomainDecision(host) = "deny" =>
              \E m \in 1..Len(rules) :
                rules[m].kind = "domain" /\ Matches(rules[m], host, "") /\ ~rules[m].allow
         /\ DomainDecision(host) # "deny" =>
              \A i \in 1..Len(rules) :
                rules[i].kind = "domain" /\ Matches(rules[i], host, "") /\ ~rules[i].allow =>
                  \E j \in 1..(i - 1) :
                    rules[j].kind = "domain" /\ Matches(rules[j], host, "") /\ rules[j].allow
<1>. DEFINE M(i) == rules[i].kind = "domain" /\ Matches(rules[i], host, "")
            hits == {i \in 1..Len(rules) : M(i)}
<1>0. DOMAIN rules = 1..Len(rules) /\ Len(rules) \in Nat
  OBVIOUS
<1>1. DomainDecision(host) = IF hits = {} THEN "none"
                             ELSE IF rules[Min(hits)].allow THEN "allow" ELSE "deny"
  BY <1>0, Zenon DEF DomainDecision, IsDomainRule
<1>2. hits \in SUBSET Nat
  <2>. HIDE DEF M
  <2>. QED BY <1>0
<1>3. hits # {} => Min(hits) \in hits /\ \A y \in hits : Min(hits) <= y
  BY <1>2, MinIsLeast, Zenon
<1>4. ASSUME DomainDecision(host) = "deny"
      PROVE  \E m \in 1..Len(rules) : M(m) /\ ~rules[m].allow
  <2>1. hits # {} /\ ~rules[Min(hits)].allow
    BY <1>1, <1>4, Zenon
  <2>. QED BY <1>3, <2>1, Zenon
<1>5. ASSUME DomainDecision(host) # "deny", NEW i \in 1..Len(rules), M(i), ~rules[i].allow
      PROVE  \E j \in 1..(i - 1) : M(j) /\ rules[j].allow
  <2>1. i \in hits
    BY <1>5, Zenon
  <2>2. rules[Min(hits)].allow
    BY <1>1, <1>5, <2>1, Zenon
  <2>3. Min(hits) \in 1..Len(rules) /\ M(Min(hits)) /\ Min(hits) <= i
    BY <1>3, <2>1, Zenon
  <2>. HIDE DEF M, hits
  <2>4. Min(hits) # i
    BY <1>5, <2>2
  <2>. QED BY <2>2, <2>3, <2>4
<1>. QED BY <1>4, <1>5, Zenon

-----------------------------------------------------------------------------
(* The rules of the ACL *)

\* A directive's rule has its verdict, and is a domain rule if its subject is.
LEMMA RuleOf ==
  ASSUME NEW d \in Directive
  PROVE  /\ Rule(d.subject, d.allow) \in RuleSet
         /\ Rule(d.subject, d.allow).allow = d.allow
         /\ Rule(d.subject, d.allow).kind = "domain" <=> d.subject.kind \in {"domain", "wild"}
<1>1. d.subject \in Subjects /\ d.allow \in BOOLEAN
  BY DEF Directive
<1>2. Rule(d.subject, d.allow) \in RuleSet
  BY <1>1 DEF RuleSet, AclRules
<1>3. d.subject.kind \in {"all", "net", "ip", "domain", "wild"}
  BY <1>1, SubjectAssumption
<1>. QED BY <1>1, <1>2, <1>3 DEF Rule

\* Provision's default rules are rules.
LEMMA DenyInRuleSet ==
  ASSUME NEW n \in SUBSET IP
  PROVE  [kind |-> "ip", net |-> n, allow |-> FALSE] \in RuleSet
<1>1. [kind |-> "ip", net |-> n, allow |-> FALSE] \in DenyRules
  BY Zenon DEF DenyRules
<1>. QED BY <1>1 DEF RuleSet

\* A domain rule does not look at the address.
LEMMA DomainIgnoresIP ==
  ASSUME NEW r, r.kind = "domain", NEW host, NEW ip1, NEW ip2
  PROVE  Matches(r, host, ip1) <=> Matches(r, host, ip2)
BY DEF Matches

\* What the default rules match.
LEMMA DefaultMatches ==
  ASSUME NEW host, NEW ip
  PROVE  /\ Matches([kind |-> "all", allow |-> TRUE], host, ip)
         /\ \A n : Matches([kind |-> "ip", net |-> n, allow |-> FALSE], host, ip) <=> ip \in n
BY DEF Matches

-----------------------------------------------------------------------------
(* The invariant *)

\* portIsAllowed lets the permitted ports through and no other.
LEMMA SamePort == ASSUME NEW port \in Int PROVE PortIsAllowed(port) <=> Permitted(port)
BY DEF PortIsAllowed, Permitted

\* What the list says depends on nothing but the list and the target.
LEMMA SameVerdict ==
  ASSUME UNCHANGED <<rules, target>>
  PROVE  /\ \A ip : Allowed(ip)' <=> Allowed(ip)
         /\ DomainDecision(target.host)' = DomainDecision(target.host)
         /\ PortIsAllowed(target.port)' <=> PortIsAllowed(target.port)
<1>1. \A ip : Allowed(ip)' <=> Allowed(ip)
  BY DEF Allowed, HostIsAllowed
<1>2. DomainDecision(target.host)' = DomainDecision(target.host)
  BY DEF DomainDecision
<1>3. PortIsAllowed(target.port)' <=> PortIsAllowed(target.port)
  BY DEF PortIsAllowed
<1>. QED BY <1>1, <1>2, <1>3

\* Init establishes the invariant.
LEMMA Initially == Init => IInv
<1>. SUFFICES ASSUME Init PROVE IInv
  OBVIOUS
<1>1. acl \in Seq(Directive)
  BY DEF Init
<1>2. Types
  BY <1>1 DEF Init, Types
<1>3. Listed
  BY <1>1 DEF Init, Listed, Own
<1>4. Kept
  BY DEF Init, Kept
<1>5. target.port \in Int
  BY PortAssumption, ZenonT(60) DEF Init
<1>6. Refused
  BY <1>5 DEF Init, Refused
<1>. QED BY <1>2, <1>3, <1>4, <1>6 DEF IInv

\* Reading a directive preserves the invariant.
LEMMA ProvisionRuleStep == ASSUME IInv, ProvisionRule PROVE IInv'
<1>. DEFINE d == acl[next]  r == Rule(d.subject, d.allow)
<1>0. /\ pc = "provision" /\ next \in 1..Len(acl) /\ next' = next + 1
      /\ UNCHANGED <<acl, target, answer, at, addresses>>
      /\ acl \in Seq(Directive) /\ rules \in Seq(RuleSet) /\ next \in Nat \ {0}
      /\ Len(rules) = next - 1 /\ Own(next - 1) /\ result = "none"
      /\ addresses = <<>> /\ at = 1
  BY DEF IInv, Types, Listed, Kept, ProvisionRule
<1>1. d \in Directive
  BY <1>0
<1>2. r \in RuleSet
  BY <1>1, RuleOf
<1>3. \/ pc' = "done" /\ result' = "broken" /\ rules' = rules
      \/ rules' = Append(rules, r) /\ UNCHANGED <<pc, result>>
  BY DEF ProvisionRule
<1>. HIDE DEF r
<1>4. rules' \in Seq(RuleSet)
  BY <1>0, <1>2, <1>3, SMTT(30)
<1>5. Types'
  BY <1>0, <1>3, <1>4 DEF IInv, Types
<1>6. Listed'
  <2>1. CASE rules' = Append(rules, r) /\ UNCHANGED <<pc, result>>
    <3>1. Len(rules') = next
      BY <1>0, <1>2, <2>1
    <3>2. \A i \in 1..next : rules'[i] = IF i < next THEN rules[i] ELSE r
      BY <1>0, <1>2, <2>1
    <3>3. Own(next - 1)'
      BY <1>0, <3>2 DEF Own, r
    <3>. QED BY <1>0, <2>1, <3>1, <3>3 DEF Listed
  <2>. QED BY <1>0, <1>3, <2>1 DEF Listed
<1>7. Kept' /\ Refused'
  BY <1>0, <1>3 DEF IInv, Types, Kept, Refused
<1>. QED BY <1>5, <1>6, <1>7 DEF IInv

\* Appending the default rules preserves the invariant.
LEMMA ProvisionDefaultsStep == ASSUME IInv, ProvisionDefaults PROVE IInv'
<1>. DEFINE denies == [i \in 1..Len(LocalNets) |-> [kind |-> "ip", net |-> LocalNets[i], allow |-> FALSE]]
            all == [kind |-> "all", allow |-> TRUE]  n == Len(acl)  m == Len(LocalNets)
<1>0. /\ pc = "provision" /\ pc' = "prepare"
      /\ UNCHANGED <<acl, next, target, answer, at, result, addresses>>
      /\ acl \in Seq(Directive) /\ rules \in Seq(RuleSet)
      /\ Len(rules) = n /\ Own(n) /\ result = "none" /\ n \in Nat
      /\ addresses = <<>> /\ at = 1
  BY DEF IInv, Types, Listed, Kept, ProvisionDefaults
<1>1. LocalNets \in Seq(SUBSET IP) /\ m \in Nat /\ DOMAIN LocalNets = 1..m
  BY NetAssumption
<1>2. denies \in Seq(RuleSet) /\ Len(denies) = m /\ all \in RuleSet
  <2>1. \A i \in 1..m : [kind |-> "ip", net |-> LocalNets[i], allow |-> FALSE] \in RuleSet
    <3>1. \A i \in 1..m : LocalNets[i] \in SUBSET IP
      BY <1>1
    <3>2. \A net \in SUBSET IP : [kind |-> "ip", net |-> net, allow |-> FALSE] \in RuleSet
      BY DenyInRuleSet, Zenon
    <3>. QED BY <3>1, <3>2, Zenon
  <2>2. all \in RuleSet
    BY DEF RuleSet
  <2>. QED BY <1>1, <2>1, <2>2
<1>3. rules' = rules \o Append(denies, all)
  BY <1>1 DEF ProvisionDefaults, AppendDefaults, DefaultRules
<1>4. \A i \in 1..m : denies[i] = [kind |-> "ip", net |-> LocalNets[i], allow |-> FALSE]
  OBVIOUS
<1>. HIDE DEF denies, all
<1>5. /\ Append(denies, all) \in Seq(RuleSet) /\ Len(Append(denies, all)) = m + 1
      /\ \A i \in 1..m : Append(denies, all)[i] = denies[i]
      /\ Append(denies, all)[m + 1] = all
  BY <1>1, <1>2
<1>6. /\ rules' \in Seq(RuleSet) /\ Len(rules') = n + m + 1
      /\ \A i \in 1..n : rules'[i] = rules[i]
      /\ \A i \in 1..(m + 1) : rules'[n + i] = Append(denies, all)[i]
  <2>. DEFINE t == Append(denies, all)
  <2>. HIDE DEF t, n, m
  <2>1. t \in Seq(RuleSet) /\ Len(t) = m + 1 /\ rules' = rules \o t
    BY <1>3, <1>5 DEF t
  <2>2. /\ rules' \in Seq(RuleSet) /\ Len(rules') = Len(rules) + Len(t)
        /\ \A i \in 1..Len(rules) : rules'[i] = rules[i]
        /\ \A i \in 1..Len(t) : rules'[Len(rules) + i] = t[i]
    <3>0. rules \in Seq(RuleSet) /\ t \in Seq(RuleSet)
      BY <1>0, <2>1
    <3>1. /\ rules \o t \in Seq(RuleSet) /\ Len(rules \o t) = Len(rules) + Len(t)
          /\ \A i \in 1..Len(rules) : (rules \o t)[i] = rules[i]
          /\ \A i \in 1..Len(t) : (rules \o t)[Len(rules) + i] = t[i]
      BY <3>0
    <3>. QED BY <2>1, <3>1
  <2>3. Len(rules) = n /\ n \in Nat /\ m \in Nat
    BY <1>0, <1>1
  <2>4. Len(rules') = n + m + 1 /\ rules' \in Seq(RuleSet)
    BY <2>1, <2>2, <2>3
  <2>5. \A i \in 1..n : rules'[i] = rules[i]
    BY <2>2, <2>3, Zenon
  <2>6. \A i \in 1..(m + 1) : rules'[n + i] = t[i]
    BY <2>1, <2>2, <2>3, Zenon
  <2>. QED BY <2>4, <2>5, <2>6, Zenon DEF t
<1>7. /\ \A i \in 1..m : rules'[n + i] = denies[i]
      /\ rules'[n + m + 1] = all
  <2>. DEFINE t == Append(denies, all)
  <2>1. /\ \A i \in 1..m : t[i] = denies[i]
        /\ t[m + 1] = all
        /\ \A i \in 1..(m + 1) : rules'[n + i] = t[i]
    BY <1>5, <1>6
  <2>2. n \in Nat /\ m \in Nat
    BY <1>0, <1>1
  <2>. HIDE DEF n, m, t
  <2>3. m + 1 \in 1..(m + 1) /\ n + (m + 1) = n + m + 1 /\ \A i \in 1..m : i \in 1..(m + 1)
    BY <2>2
  <2>4. rules'[n + (m + 1)] = all
    BY <2>1, <2>3, Zenon
  <2>5. \A i \in 1..m : rules'[n + i] = denies[i]
    BY <2>1, <2>3, Zenon
  <2>. QED BY <2>3, <2>4, <2>5, Zenon
<1>8. Complete'
  BY <1>0, <1>1, <1>4, <1>6, <1>7, Zenon DEF Complete, Own, all
<1>9. Types' /\ Listed'
  BY <1>0, <1>6, <1>8 DEF IInv, Types, Listed
<1>10. Kept' /\ Refused'
  BY <1>0 DEF IInv, Types, Kept, Refused
<1>. QED BY <1>9, <1>10 DEF IInv

\* Judging the target, and asking the resolver, preserve the invariant.
LEMMA PrepareStep == ASSUME IInv, Prepare PROVE IInv'
<1>0. /\ pc = "prepare" /\ UNCHANGED <<acl, rules, next, target, answer, at, addresses>>
      /\ result = "none" /\ addresses = <<>> /\ at = 1 /\ answer \in Seq(IP)
  BY DEF IInv, Types, Kept, Prepare
<1>1. /\ \A ip : Allowed(ip)' <=> Allowed(ip)
      /\ DomainDecision(target.host)' = DomainDecision(target.host)
      /\ PortIsAllowed(target.port)' <=> PortIsAllowed(target.port)
  BY <1>0, SameVerdict
<1>2. \/ pc' = "done" /\ result' = "malformed"
      \/ pc' = "done" /\ result' = "port" /\ ~PortIsAllowed(target.port)
      \/ pc' = "done" /\ result' = "domain" /\ DomainDecision(target.host) = "deny"
      \/ /\ pc' = "lookup" /\ result' = "none"
         /\ PortIsAllowed(target.port) /\ DomainDecision(target.host) # "deny"
  BY <1>0 DEF Prepare, Judge, Fail
<1>3. Types'
  BY <1>0, <1>2 DEF IInv, Types
<1>4. Listed'
  BY <1>0, <1>2 DEF IInv, Listed, Complete, Own
<1>5. Kept'
  BY <1>0, <1>2 DEF Kept
<1>6. Refused'
  BY <1>0, <1>1, <1>2 DEF IInv, Refused
<1>. QED BY <1>3, <1>4, <1>5, <1>6 DEF IInv

LEMMA LookupStep == ASSUME IInv, Lookup PROVE IInv'
<1>0. /\ pc = "lookup" /\ UNCHANGED <<acl, rules, next, target, at, addresses>>
      /\ result = "none" /\ addresses = <<>> /\ at = 1 /\ answer \in Seq(IP)
      /\ PortIsAllowed(target.port) /\ DomainDecision(target.host) # "deny"
      /\ target.port \in Int
  BY DEF IInv, Types, Kept, Refused, Lookup
<1>1. /\ DomainDecision(target.host)' = DomainDecision(target.host)
      /\ PortIsAllowed(target.port)' <=> PortIsAllowed(target.port)
  BY <1>0, SameVerdict
<1>2. \/ answer' \in Seq(IP) /\ pc' = "filter" /\ result' = "none"
      \/ answer' = answer /\ pc' = "done" /\ result' = "lookup"
  BY <1>0, NetAssumption DEF Lookup, Fail
<1>3. Types'
  BY <1>0, <1>2, SMTT(30) DEF IInv, Types
<1>4. Listed'
  BY <1>0, <1>2 DEF IInv, Listed, Complete, Own
<1>5. Kept'
  BY <1>0, <1>2 DEF Kept
<1>6. Refused'
  BY <1>0, <1>1, <1>2 DEF Refused
<1>. QED BY <1>3, <1>4, <1>5, <1>6 DEF IInv

\* A round of the loop preserves the invariant.
LEMMA FilterAddressStep == ASSUME IInv, FilterAddress PROVE IInv'
<1>. DEFINE a == answer[at]
<1>0. /\ pc = "filter" /\ at \in 1..Len(answer) /\ at' = at + 1
      /\ UNCHANGED <<acl, rules, next, pc, target, answer, result>>
      /\ result = "none" /\ answer \in Seq(IP) /\ addresses \in Seq(IP)
  BY DEF IInv, Types, Kept, FilterAddress
<1>1. a \in IP
  BY <1>0
<1>2. \A ip : Allowed(ip)' <=> Allowed(ip)
  BY <1>0, SameVerdict
<1>3. IF Allowed(a) /\ a \notin Admitted THEN addresses' = Append(addresses, a)
                                          ELSE addresses' = addresses
  BY DEF FilterAddress, Allowed
<1>4. addresses' \in Seq(IP)
  BY <1>0, <1>1, <1>3, SMTT(30)
<1>5. Types' /\ Listed'
  BY <1>0, <1>4 DEF IInv, Types, Listed, Complete, Own
<1>6. Refused'
  BY <1>0, SameVerdict DEF IInv, Refused
<1>7. \A x : x \in Admitted' <=> (x \in Admitted \/ (x = a /\ Allowed(a)))
  <2>0. DOMAIN addresses = 1..Len(addresses) /\ DOMAIN addresses' = 1..Len(addresses')
    BY <1>0, <1>4
  <2>1. CASE addresses' = addresses
    <3>1. Admitted' = Admitted
      BY <2>1 DEF Admitted
    <3>2. Allowed(a) => a \in Admitted
      BY <1>3, <2>1, <1>0, <1>1
    <3>. QED BY <3>1, <3>2
  <2>2. CASE Allowed(a) /\ addresses' = Append(addresses, a)
    <3>1. Len(addresses') = Len(addresses) + 1 /\ Len(addresses) \in Nat
      BY <1>0, <1>1, <2>2
    <3>2. \A k \in 1..Len(addresses) : addresses'[k] = addresses[k]
      BY <1>0, <1>1, <2>2
    <3>3. addresses'[Len(addresses) + 1] = a
      BY <1>0, <1>1, <2>2
    <3>4. \A x : x \in Admitted => x \in Admitted'
      BY <2>0, <3>1, <3>2 DEF Admitted
    <3>5. a \in Admitted'
      BY <2>0, <3>1, <3>3 DEF Admitted
    <3>6. ASSUME NEW x \in Admitted' PROVE x \in Admitted \/ x = a
      <4>1. PICK k \in 1..Len(addresses') : x = addresses'[k]
        BY <2>0, <3>6 DEF Admitted
      <4>2. k \in 1..Len(addresses) \/ k = Len(addresses) + 1
        BY <3>1
      <4>. QED BY <2>0, <3>2, <3>3, <4>1, <4>2 DEF Admitted
    <3>. QED BY <2>2, <3>4, <3>5, <3>6
  <2>. QED BY <1>3, <2>1, <2>2
<1>8. \A k \in 1..Len(addresses') : addresses'[k] \in Admitted'
  BY <1>4 DEF Admitted
<1>9. /\ \A x \in Admitted : Allowed(x)
      /\ \A x \in Admitted : \E j \in 1..Len(answer) : x = answer[j]
  <2>0. DOMAIN addresses = 1..Len(addresses)
    BY <1>0
  <2>1. /\ \A k \in 1..Len(addresses) : Allowed(addresses[k])
        /\ \A k \in 1..Len(addresses) : \E j \in 1..Len(answer) : addresses[k] = answer[j]
    BY DEF IInv, Kept
  <2>. QED BY <2>0, <2>1, Zenon DEF Admitted
<1>10. \A k \in 1..(at' - 1) : Allowed(answer[k]) => answer[k] \in Admitted'
  <2>1. \A k \in 1..(at - 1) : Allowed(answer[k]) => answer[k] \in Admitted
    BY DEF IInv, Kept
  <2>. QED BY <1>0, <1>7, <2>1
<1>11. Kept'
  <2>1. \A k \in 1..Len(addresses') : Allowed(addresses'[k])
    BY <1>7, <1>8, <1>9
  <2>2. \A k \in 1..Len(addresses') : \E j \in 1..Len(answer) : addresses'[k] = answer[j]
    BY <1>0, <1>7, <1>8, <1>9, SMTT(30)
  <2>. QED BY <1>0, <1>2, <1>10, <2>1, <2>2 DEF Kept
<1>. QED BY <1>5, <1>6, <1>11 DEF IInv

\* The end of the loop preserves the invariant.
LEMMA FilteredStep == ASSUME IInv, Filtered PROVE IInv'
<1>0. /\ pc = "filter" /\ at = Len(answer) + 1 /\ pc' = "done"
      /\ UNCHANGED <<acl, rules, next, target, answer, at, addresses>>
      /\ \/ result' = "empty" /\ addresses = <<>>
         \/ result' = "ok"
      /\ result = "none"
  BY SMTT(30) DEF IInv, Types, Kept, Filtered, Fail
<1>1. \A ip : Allowed(ip)' <=> Allowed(ip)
  BY <1>0, SameVerdict
<1>2. Types' /\ Listed' /\ Refused'
  BY <1>0, Zenon DEF IInv, Types, Listed, Complete, Own, Refused
<1>3. Admitted' = Admitted
  BY <1>0 DEF Admitted
<1>4. Kept'
  BY <1>0, <1>1, <1>3 DEF IInv, Kept
<1>. QED BY <1>2, <1>4 DEF IInv

\* So does a step that changes nothing.
LEMMA StutterStep == ASSUME IInv, UNCHANGED vars PROVE IInv'
<1>0. UNCHANGED <<acl, rules, next, pc, target, answer, at, result, addresses>>
  BY DEF vars
<1>1. \A ip : Allowed(ip)' <=> Allowed(ip)
  BY <1>0, SameVerdict, Zenon
<1>2. Types' /\ Listed'
  BY <1>0, Zenon DEF IInv, Types, Listed, Complete, Own
<1>3. Refused'
  BY <1>0, SameVerdict DEF IInv, Refused
<1>4. Admitted' = Admitted
  BY <1>0 DEF Admitted
<1>5. Kept'
  BY <1>0, <1>1, <1>4 DEF IInv, Kept
<1>. QED BY <1>2, <1>3, <1>5 DEF IInv

\* The invariant holds throughout.
LEMMA Invariance == Spec => []IInv
<1>1. IInv /\ [Next]_vars => IInv'
  BY ProvisionRuleStep, ProvisionDefaultsStep, PrepareStep, LookupStep, FilterAddressStep,
     FilteredStep, StutterStep, Zenon DEF Next, Finished
<1>. QED BY <1>1, Initially, PTL DEF Spec

-----------------------------------------------------------------------------
(* The properties *)

\* The rule of a directive in a complete list.
LEMMA OwnPart ==
  ASSUME Types, Complete, NEW i \in 1..Len(acl)
  PROVE  /\ i \in 1..Len(rules) /\ acl[i] \in Directive
         /\ rules[i] = Rule(acl[i].subject, acl[i].allow) /\ rules[i].allow = acl[i].allow
         /\ rules[i].kind = "domain" <=> acl[i].subject.kind \in {"domain", "wild"}
<1>1. /\ acl[i] \in Directive /\ i \in 1..Len(rules)
      /\ rules[i] = Rule(acl[i].subject, acl[i].allow)
  BY NetAssumption, SMTT(30) DEF Types, Complete, Own
<1>. QED BY <1>1, RuleOf, Zenon

\* What a complete list consists of, rule by rule.
LEMMA Parts ==
  ASSUME Types, Complete, NEW m \in 1..Len(rules)
  PROVE  \/ m \in 1..Len(acl)
         \/ /\ m > Len(acl) /\ m - Len(acl) \in 1..Len(LocalNets)
            /\ rules[m] = [kind |-> "ip", net |-> LocalNets[m - Len(acl)], allow |-> FALSE]
            /\ rules[m].kind # "domain" /\ ~rules[m].allow
         \/ m = Len(rules) /\ rules[m].kind # "domain" /\ rules[m].allow
<1>0. acl \in Seq(Directive) /\ Len(acl) \in Nat /\ Len(LocalNets) \in Nat
  BY NetAssumption DEF Types
<1>1. Len(rules) = Len(acl) + Len(LocalNets) + 1
  BY DEF Complete
<1>2. CASE m \in 1..Len(acl)
  BY <1>2, SMTT(30)
<1>3. CASE m - Len(acl) \in 1..Len(LocalNets)
  <2>1. rules[Len(acl) + (m - Len(acl))] =
          [kind |-> "ip", net |-> LocalNets[m - Len(acl)], allow |-> FALSE]
    BY <1>3, Zenon DEF Complete
  <2>2. Len(acl) + (m - Len(acl)) = m /\ m > Len(acl)
    BY <1>0, <1>3, SMTT(30)
  <2>. QED BY <1>3, <2>1, <2>2
<1>4. CASE m = Len(rules)
  BY <1>4 DEF Complete
<1>. QED BY <1>0, <1>1, <1>2, <1>3, <1>4

\* The rule of a directive speaks for the directive.
LEMMA Spoken ==
  ASSUME Types, Complete, NEW i \in 1..Len(acl), NEW ip
  PROVE  /\ i \in 1..Len(rules)
         /\ Speaks(i, target.host, ip) <=> Matches(rules[i], target.host, ip)
BY OwnPart DEF Speaks

\* The address of a local network is allowed by a directive or not at all.
LEMMA LocalAllowed ==
  ASSUME Types, Complete, NEW ip \in Local, Allowed(ip)
  PROVE  \E i \in 1..Len(acl) :
           /\ acl[i].allow /\ Speaks(i, target.host, ip)
           /\ \A j \in 1..(i - 1) : Speaks(j, target.host, ip) => acl[j].allow
<1>. DEFINE M(i) == Matches(rules[i], target.host, ip)
<1>0. acl \in Seq(Directive) /\ Len(acl) \in Nat /\ Len(LocalNets) \in Nat
      /\ rules \in Seq(RuleSet) /\ DOMAIN LocalNets = 1..Len(LocalNets)
      /\ Len(rules) = Len(acl) + Len(LocalNets) + 1
  BY NetAssumption DEF Types, Complete
<1>1. PICK m \in 1..Len(rules) : M(m) /\ rules[m].allow /\ \A j \in 1..(m - 1) : ~M(j)
  BY <1>0, AllowedBy DEF Allowed
<1>2. PICK l \in 1..Len(LocalNets) : ip \in LocalNets[l]
  BY <1>0, SMTT(30) DEF Local
<1>3. M(Len(acl) + l)
  <2>1. rules[Len(acl) + l] = [kind |-> "ip", net |-> LocalNets[l], allow |-> FALSE]
    BY Zenon DEF Complete
  <2>. QED BY <1>2, <2>1, DefaultMatches, ZenonT(60)
<1>. HIDE DEF M
<1>4. m <= Len(acl) + l
  BY <1>0, <1>1, <1>3
<1>5. m # Len(rules)
  BY <1>0, <1>4
<1>6. m \in 1..Len(acl) /\ acl[m].allow
  BY <1>1, <1>5, Parts, OwnPart, Zenon
<1>7. \A j \in 1..m : Speaks(j, target.host, ip) <=> M(j)
  BY <1>0, <1>6, Spoken, SMTT(30) DEF M
<1>. QED BY <1>0, <1>1, <1>6, <1>7, SMTT(30)

(* Whatever the ACL, an address of a network denied by default is dialed     *)
(* only if a directive allows it and no earlier one denies it.               *)
THEOREM LocalNeverBypassed == Spec => []LocalNeedsAllow
<1>1. IInv => LocalNeedsAllow
  <2>. SUFFICES ASSUME IInv, Judged, NEW ip \in Admitted \cap Local
                PROVE  \E i \in DOMAIN acl :
                         /\ acl[i].allow /\ Speaks(i, target.host, ip)
                         /\ \A j \in 1..(i - 1) : Speaks(j, target.host, ip) => acl[j].allow
    BY DEF LocalNeedsAllow
  <2>1. Types /\ Complete
    BY DEF IInv, Listed, Judged
  <2>2. DOMAIN acl = 1..Len(acl) /\ DOMAIN addresses = 1..Len(addresses)
    BY <2>1 DEF Types
  <2>3. Allowed(ip)
    BY <2>2, Zenon DEF IInv, Kept, Admitted
  <2>. QED BY <2>1, <2>2, <2>3, LocalAllowed, Zenon
<1>. QED BY <1>1, Invariance, PTL

(* Whatever the ACL and the ports, the name of a host that a hostname        *)
(* directive denies before any allows it, or that is asked for on a port     *)
(* that is not permitted, is never given to the resolver.                    *)
THEOREM DeniedHostsStayLocal == Spec => []DeniedHostNotResolved
<1>1. IInv => DeniedHostNotResolved
  <2>0. IInv /\ pc \in {"lookup", "filter"} => Permitted(target.port)
    BY SamePort, Zenon DEF IInv, Refused
  <2>. SUFFICES ASSUME IInv, pc \in {"lookup", "filter"}, NEW i \in DOMAIN acl,
                       acl[i].subject.kind \in {"domain", "wild"}, ~acl[i].allow,
                       \A ip \in IP : Speaks(i, target.host, ip)
                PROVE  \E j \in 1..(i - 1) :
                         /\ acl[j].subject.kind \in {"domain", "wild"} /\ acl[j].allow
                         /\ \A ip \in IP : Speaks(j, target.host, ip)
    BY <2>0, Zenon DEF DeniedHostNotResolved
  <2>1. Types /\ Complete /\ DomainDecision(target.host) # "deny"
    BY SMTT(30) DEF IInv, Listed, Kept, Refused
  <2>2. i \in 1..Len(acl) /\ Len(acl) \in Nat /\ rules \in Seq(RuleSet)
    BY <2>1 DEF Types
  <2>3. /\ i \in 1..Len(rules) /\ rules[i].kind = "domain" /\ ~rules[i].allow
        /\ Matches(rules[i], target.host, "")
    <3>1. PICK ip \in IP : TRUE
      BY NetAssumption, Zenon
    <3>2. i \in 1..Len(rules) /\ Matches(rules[i], target.host, ip)
      BY <2>1, <2>2, Spoken, Zenon
    <3>3. rules[i].kind = "domain" /\ ~rules[i].allow
      BY <2>1, <2>2, OwnPart
    <3>. QED BY <3>2, <3>3, DomainIgnoresIP, Zenon
  <2>4. PICK j \in 1..(i - 1) :
          rules[j].kind = "domain" /\ Matches(rules[j], target.host, "") /\ rules[j].allow
    BY <2>1, <2>2, <2>3, DeniedBy, Zenon
  <2>5. j \in 1..Len(acl)
    BY <2>2
  <2>6. acl[j].subject.kind \in {"domain", "wild"} /\ acl[j].allow
    BY <2>1, <2>4, <2>5, OwnPart, Zenon
  <2>7. \A ip \in IP : Speaks(j, target.host, ip)
    BY <2>1, <2>4, <2>5, Spoken, DomainIgnoresIP, Zenon
  <2>. QED BY <2>6, <2>7, Zenon
<1>. QED BY <1>1, Invariance, PTL

(* Whatever the ACL, every 403 has a reason that the configuration states:   *)
(* the port, a hostname directive, or for each address a directive or the    *)
(* default networks.                                                         *)
THEOREM RefusalsAreJustified == Spec => []RefusalJustified
<1>1. IInv => RefusalJustified
  <2>. SUFFICES ASSUME IInv, Judged, Status = 403 PROVE RefusalJustified
    BY DEF RefusalJustified
  <2>1. Types /\ Complete
    BY DEF IInv, Listed, Judged
  <2>2. /\ DOMAIN acl = 1..Len(acl) /\ DOMAIN answer = 1..Len(answer)
        /\ DOMAIN LocalNets = 1..Len(LocalNets) /\ rules \in Seq(RuleSet)
    BY <2>1, NetAssumption DEF Types
  <2>3. result \in {"port", "domain", "empty"}
    BY DEF Status, IInv, Refused
  <2>4. CASE result = "port"
    BY <2>4, SamePort, Zenon DEF IInv, Refused, RefusalJustified
  <2>5. CASE result = "domain"
    <3>1. PICK m \in 1..Len(rules) :
            rules[m].kind = "domain" /\ Matches(rules[m], target.host, "") /\ ~rules[m].allow
      BY <2>2, <2>5, DeniedBy, Zenon DEF IInv, Refused
    <3>2. m \in 1..Len(acl)
      BY <2>1, <3>1, Parts, Zenon
    <3>3. acl[m].subject.kind \in {"domain", "wild"} /\ ~acl[m].allow
      BY <2>1, <3>1, <3>2, OwnPart, Zenon
    <3>4. \A ip \in IP : Speaks(m, target.host, ip)
      BY <2>1, <3>1, <3>2, Spoken, DomainIgnoresIP, Zenon
    <3>. QED BY <2>2, <3>2, <3>3, <3>4 DEF RefusalJustified
  <2>6. CASE result = "empty"
    <3>1. ASSUME NEW k \in 1..Len(answer), answer[k] \notin Local
          PROVE  \E i \in 1..Len(acl) : ~acl[i].allow /\ Speaks(i, target.host, answer[k])
      <4>. DEFINE M(i) == Matches(rules[i], target.host, answer[k])
      <4>1. ~Allowed(answer[k])
        <5>1. Admitted = {} /\ at = Len(answer) + 1 /\ Len(answer) \in Nat
          BY <2>1, <2>6 DEF IInv, Kept, Admitted, Types
        <5>2. k \in 1..(at - 1)
          BY <5>1
        <5>. QED BY <5>1, <5>2 DEF IInv, Kept
      <4>2. PICK m \in 1..Len(rules) : M(m) /\ ~rules[m].allow
        <5>1. Len(rules) \in 1..Len(rules) /\ M(Len(rules)) /\ rules[Len(rules)].allow
          BY <2>1, NetAssumption, DefaultMatches, SMTT(30) DEF Types, Complete
        <5>. HIDE DEF M
        <5>. DEFINE hits == {i \in 1..Len(rules) : M(i)}
        <5>2. hits \in SUBSET Nat /\ hits # {}
          BY <2>2, <5>1
        <5>3. Min(hits) \in hits /\ \A y \in hits : Min(hits) <= y
          BY <5>2, MinIsLeast, Zenon
        <5>4. Min(hits) \in 1..Len(rules) /\ M(Min(hits)) /\ \A j \in 1..(Min(hits) - 1) : ~M(j)
          <6>1. Min(hits) \in 1..Len(rules) /\ M(Min(hits)) /\ Len(rules) \in Nat
            BY <2>2, <5>3
          <6>2. \A j \in 1..(Min(hits) - 1) : j \in 1..Len(rules) /\ ~(Min(hits) <= j)
            BY <6>1
          <6>3. \A j \in 1..(Min(hits) - 1) : j \notin hits
            BY <5>3, <6>2
          <6>. QED BY <6>1, <6>2, <6>3
        <5>5. ~rules[Min(hits)].allow
          BY <2>2, <4>1, <5>4, AllowedBy, Zenon DEF Allowed, M
        <5>. QED BY <5>4, <5>5, Zenon
      <4>3. m \in 1..Len(acl)
        <5>1. CASE /\ m > Len(acl) /\ m - Len(acl) \in 1..Len(LocalNets)
                   /\ rules[m] = [kind |-> "ip", net |-> LocalNets[m - Len(acl)], allow |-> FALSE]
          <6>1. answer[k] \in LocalNets[m - Len(acl)]
            <7>1. Matches([kind |-> "ip", net |-> LocalNets[m - Len(acl)], allow |-> FALSE],
                          target.host, answer[k])
              BY <4>2, <5>1, Zenon
            <7>. QED BY <7>1, DefaultMatches, Zenon
          <6>. QED BY <2>2, <3>1, <5>1, <6>1, Zenon DEF Local
        <5>. QED BY <2>1, <4>2, <5>1, Parts, Zenon
      <4>. QED BY <2>1, <4>2, <4>3, OwnPart, Spoken, Zenon
    <3>. QED BY <2>2, <2>6, <3>1, Zenon DEF RefusalJustified
  <2>. QED BY <2>3, <2>4, <2>5, <2>6, Zenon
<1>. QED BY <1>1, Invariance, PTL

(* Whatever follows it in the ACL and in the default rules, a hostname       *)
(* directive that is the first to speak of its hosts admits every address    *)
(* they resolve to.                                                          *)
THEOREM HostnamesOverride == Spec => []HostnameOverridesLaterIP
<1>1. IInv => HostnameOverridesLaterIP
  <2>. SUFFICES ASSUME IInv, Judged, result \in {"ok", "empty"}, NEW i \in DOMAIN acl,
                       acl[i].allow, \A ip \in IP : Speaks(i, target.host, ip),
                       \A j \in 1..(i - 1), ip \in IP : ~Speaks(j, target.host, ip)
                PROVE  Admitted = {answer[k] : k \in DOMAIN answer}
    BY DEF HostnameOverridesLaterIP
  <2>1. Types /\ Complete
    BY DEF IInv, Listed, Judged
  <2>2. /\ i \in 1..Len(acl) /\ DOMAIN answer = 1..Len(answer) /\ rules \in Seq(RuleSet)
        /\ DOMAIN addresses = 1..Len(addresses) /\ answer \in Seq(IP) /\ Len(acl) \in Nat
    BY <2>1 DEF Types
  <2>3. \A ip \in IP : Allowed(ip)
    <3>. SUFFICES ASSUME NEW ip \in IP PROVE Allowed(ip)
      BY SMTT(30)
    <3>1. i \in 1..Len(rules) /\ rules[i].allow /\ Matches(rules[i], target.host, ip)
      BY <2>1, <2>2, OwnPart, Spoken, ZenonT(60)
    <3>2. \A j \in 1..(i - 1) : j \in 1..Len(acl)
      BY <2>2
    <3>3. \A j \in 1..(i - 1) : ~Matches(rules[j], target.host, ip)
      BY <2>1, <3>2, Spoken, SMTT(30)
    <3>. QED BY <2>2, <3>1, <3>3, AllowedBy, Zenon DEF Allowed
  <2>4. \A k \in 1..Len(answer) : answer[k] \in Admitted
    BY <2>2, <2>3, SMTT(30) DEF IInv, Kept
  <2>5. \A x \in Admitted : \E j \in 1..Len(answer) : x = answer[j]
    <3>1. \A k \in 1..Len(addresses) : \E j \in 1..Len(answer) : addresses[k] = answer[j]
      BY DEF IInv, Kept
    <3>. QED BY <2>2, <3>1, Zenon DEF Admitted
  <2>. QED BY <2>2, <2>4, <2>5, ZenonT(60)
<1>. QED BY <1>1, Invariance, PTL
=============================================================================
