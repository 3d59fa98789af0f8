------------------------------ MODULE SeqLemmas ------------------------------
(***************************************************************************)
(* What the proofs about streams and about configured lists rest on:       *)
(* induction over the naturals, definition by recursion, and facts about   *)
(* concatenation and about the beginning of a sequence.                    *)
(***************************************************************************)
EXTENDS Lists, WellFoundedInduction, TLAPS

\* Induction over the naturals, with a set in place of a predicate.
LEMMA SetInduction ==
  ASSUME NEW S \in SUBSET Nat, 0 \in S, \A n \in S : n + 1 \in S
  PROVE  S = Nat
<1>. DEFINE R == {ss \in Nat \X Nat : ss[1] < ss[2]}  T == Nat \ S
<1>1. IsWellFoundedOn(R, Nat)
  BY NatLessThanWellFounded DEF OpToRel
<1>. HIDE DEF R
<1>2. SUFFICES ASSUME T # {} PROVE FALSE
  BY Zenon
<1>3. PICK x \in T : \A y \in T : ~(<<y, x>> \in R)
  <2>1. T \subseteq Nat
    OBVIOUS
  <2>. HIDE DEF T
  <2>. QED BY <1>1, <1>2, <2>1, WFMin, Zenon
<1>4. \A y \in T : ~(y < x)
  BY <1>3, Zenon DEF R
<1>5. x - 1 \in Nat /\ x - 1 \notin T
  BY <1>4
<1>. QED BY <1>5

\* f is defined up to m by recursion from base, step by step.
Recursive(f, base, step, m) == f[0] = base /\ \A i \in 1..m : f[i] = step[i][f[i - 1]]

\* A function can be defined by recursion up to any bound.
LEMMA Recursion ==
  ASSUME NEW V, NEW base \in V, NEW step \in [Nat -> [V -> V]], NEW m \in Nat
  PROVE  \E f \in [0..m -> V] : Recursive(f, base, step, m)
<1>. DEFINE Def(f, n) == f[0] = base /\ \A i \in 1..n : f[i] = step[i][f[i - 1]]
            S == {n \in Nat : \E f \in [0..n -> V] : Def(f, n)}
<1>1. 0 \in S
  <2>. DEFINE f == [i \in 0..0 |-> base]
  <2>. f \in [0..0 -> V] /\ Def(f, 0)
    OBVIOUS
  <2>. QED BY Zenon
<1>2. ASSUME NEW n \in S PROVE n + 1 \in S
  <2>1. PICK f \in [0..n -> V] : Def(f, n)
    OBVIOUS
  <2>. DEFINE g == [i \in 0..(n + 1) |-> IF i <= n THEN f[i] ELSE step[n + 1][f[n]]]
  <2>2. g \in [0..(n + 1) -> V]
    OBVIOUS
  <2>3. Def(g, n + 1)
    <3>1. g[0] = base
      BY <2>1
    <3>2. ASSUME NEW i \in 1..(n + 1) PROVE g[i] = step[i][g[i - 1]]
      <4>1. CASE i <= n
        <5>1. i \in 1..n /\ g[i] = f[i] /\ g[i - 1] = f[i - 1]
          BY <4>1
        <5>. QED BY <2>1, <5>1, Zenon
      <4>2. CASE i = n + 1
        <5>1. g[i] = step[i][f[n]] /\ g[i - 1] = f[n]
          BY <4>2
        <5>. QED BY <5>1, Zenon
      <4>. QED BY <4>1, <4>2
    <3>. QED BY <3>1, <3>2, Zenon
  <2>. HIDE DEF g, Def
  <2>. QED BY <2>2, <2>3
<1>3. m \in S
  <2>. HIDE DEF S
  <2>1. S \in SUBSET Nat
    BY DEF S
  <2>. QED BY <1>1, <1>2, <2>1, SetInduction, Zenon
<1>. QED BY <1>3 DEF Recursive

-----------------------------------------------------------------------------
(* Concat *)

\* f[i] is the first i of n sequences, one after the other.
Flattening(ss, f, n) == f[0] = <<>> /\ \A i \in 1..n : f[i] = f[i - 1] \o ss[i]

\* There is such an f, ...
LEMMA FlatteningExists ==
  ASSUME NEW S, NEW n \in Nat, NEW ss, \A i \in 1..n : ss[i] \in Seq(S)
  PROVE  \E f \in [0..n -> Seq(S)] : Flattening(ss, f, n)
<1>. DEFINE step == [i \in Nat |-> [s \in Seq(S) |-> IF i \in 1..n THEN s \o ss[i] ELSE s]]
<1>1. step \in [Nat -> [Seq(S) -> Seq(S)]]
  OBVIOUS
<1>2. \A i \in 1..n : \A s \in Seq(S) : step[i][s] = s \o ss[i]
  BY SMTT(30)
<1>3. <<>> \in Seq(S)
  OBVIOUS
<1>. HIDE DEF step
<1>4. PICK f \in [0..n -> Seq(S)] :
        f[0] = <<>> /\ \A i \in 1..n : f[i] = step[i][f[i - 1]]
  <2>. DEFINE V == Seq(S)  base == <<>>
  <2>1. base \in V /\ step \in [Nat -> [V -> V]]
    BY <1>1, <1>3
  <2>. HIDE DEF V, base
  <2>2. \E f \in [0..n -> V] : Recursive(f, base, step, n)
    BY <2>1, Recursion, Zenon
  <2>. QED BY <2>2, Zenon DEF V, base, Recursive
<1>5. ASSUME NEW i \in 1..n PROVE f[i] = f[i - 1] \o ss[i]
  <2>1. i - 1 \in 0..n
    OBVIOUS
  <2>2. f[i - 1] \in Seq(S)
    BY <2>1, Zenon
  <2>. QED BY <1>2, <1>4, <2>2, Zenon
<1>. QED BY <1>4, <1>5, Zenon DEF Flattening

\* ... it is the only one, ...
LEMMA FlatteningUnique ==
  ASSUME NEW ss, NEW k \in Nat, NEW f, NEW g, Flattening(ss, f, k), Flattening(ss, g, k)
  PROVE  f[k] = g[k]
<1>. USE DEF Flattening
<1>. DEFINE T == {n \in Nat : n <= k => f[n] = g[n]}
<1>1. 0 \in T
  OBVIOUS
<1>2. ASSUME NEW n \in T PROVE n + 1 \in T
  <2>1. CASE n + 1 <= k
    <3>1. n + 1 \in 1..k /\ (n + 1) - 1 = n /\ f[n] = g[n]
      BY <2>1
    <3>2. f[n + 1] = g[n + 1]
      BY <3>1, Zenon
    <3>. QED BY <3>2
  <2>. QED BY <2>1
<1>3. k \in T
  <2>1. T \in SUBSET Nat
    OBVIOUS
  <2>. HIDE DEF T
  <2>. QED BY <1>1, <1>2, <2>1, SetInduction, Zenon
<1>. QED BY <1>3

\* ... and Concat is its last value.
LEMMA ConcatDef ==
  ASSUME NEW S, NEW ss \in Seq(Seq(S)), NEW f, Flattening(ss, f, Len(ss))
  PROVE  Concat(ss) = f[Len(ss)]
<1>. DEFINE n == Len(ss)
            Eq(g) == g = [i \in 0..n |-> IF i = 0 THEN <<>> ELSE g[i - 1] \o ss[i]]
            c == CHOOSE g : Eq(g)
<1>0. n \in Nat /\ \A i \in 1..n : ss[i] \in Seq(S)
  OBVIOUS
<1>1. Concat(ss) = c[n]
  BY DEF Concat
<1>. HIDE DEF n
<1>2. \E g : Eq(g)
  <2>1. PICK g \in [0..n -> Seq(S)] : Flattening(ss, g, n)
    BY <1>0, FlatteningExists, Zenon
  <2>2. ASSUME NEW i \in 0..n PROVE g[i] = IF i = 0 THEN <<>> ELSE g[i - 1] \o ss[i]
    <3>1. CASE i = 0
      BY <2>1, <3>1 DEF Flattening
    <3>2. CASE i # 0
      <4>1. i \in 1..n
        BY <1>0, <3>2
      <4>. QED BY <2>1, <3>2, <4>1, Zenon DEF Flattening
    <3>. QED BY <3>1, <3>2, Zenon
  <2>3. Eq(g)
    BY <2>1, <2>2, Zenon
  <2>. QED BY <2>3, Zenon
<1>3. Eq(c)
  <2>. HIDE DEF Eq
  <2>. QED BY <1>2
<1>. HIDE DEF c
<1>4. Flattening(ss, c, n)
  <2>1. \A i \in 0..n : c[i] = IF i = 0 THEN <<>> ELSE c[i - 1] \o ss[i]
    BY <1>3, Zenon
  <2>2. 0 \in 0..n /\ \A i \in 1..n : i \in 0..n /\ i # 0
    BY <1>0
  <2>. QED BY <2>1, <2>2, Zenon DEF Flattening
<1>5. Flattening(ss, f, n)
  BY DEF n
<1>6. c[n] = f[n]
  BY <1>0, <1>4, <1>5, FlatteningUnique, Zenon
<1>. QED BY <1>1, <1>6 DEF n

-----------------------------------------------------------------------------
(* Concatenation *)

\* How a concatenation of three is read does not matter.
Associates(r, s, t) == (r \o s) \o t = r \o (s \o t)

\* That is so of all sequences.
LEMMA Associativity ==
  ASSUME NEW S, NEW r \in Seq(S), NEW s \in Seq(S), NEW t \in Seq(S)
  PROVE  Associates(r, s, t)
BY SMTT(60) DEF Associates

\* What starts a sequence starts what is appended to it too.
LEMMA StartsConcat ==
  ASSUME NEW S, NEW r \in Seq(S), NEW s \in Seq(S), NEW t \in Seq(S)
  PROVE  /\ Starts(s, t) => Starts(r \o s, r \o t) /\ Starts(s, t \o r)
         /\ Starts(r, r \o s) /\ r \o <<>> = r
BY DEF Starts

\* What starts the beginning of a sequence starts the sequence.
LEMMA StartsTransitive ==
  ASSUME NEW S, NEW s \in Seq(S), NEW t \in Seq(S), NEW u \in Seq(S), Starts(s, t), Starts(t, u)
  PROVE  Starts(s, u)
BY DEF Starts

\* What starts a sequence still does when both lose their first elements.
LEMMA StartsSuffix ==
  ASSUME NEW S, NEW s \in Seq(S), NEW t \in Seq(S), Starts(s, t), NEW n \in 0..Len(s)
  PROVE  Starts(SubSeq(s, n + 1, Len(s)), SubSeq(t, n + 1, Len(t)))
BY SMTT(30) DEF Starts

\* A sequence as a function.
LEMMA Indexed ==
  ASSUME NEW S, NEW s \in Seq(S)
  PROVE  DOMAIN s = 1..Len(s) /\ Len(s) \in Nat /\ \A i \in 1..Len(s) : s[i] \in S
OBVIOUS

\* Sequences of the same length and elements are the same.
LEMMA SameSequence ==
  ASSUME NEW S, NEW s \in Seq(S), NEW t \in Seq(S), Len(s) = Len(t), \A i \in 1..Len(s) : s[i] = t[i]
  PROVE  s = t
OBVIOUS

\* A sequence is all of itself.
LEMMA WholeSequence == ASSUME NEW S, NEW s \in Seq(S) PROVE SubSeq(s, 1, Len(s)) = s
OBVIOUS

\* A sequence and one that follows it.
Joined(s, t, S) ==
  /\ s \o t \in Seq(S) /\ Len(s \o t) = Len(s) + Len(t)
  /\ \A i \in 1..Len(s) : (s \o t)[i] = s[i]
  /\ \A i \in 1..Len(t) : (s \o t)[Len(s) + i] = t[i]

\* What a concatenation is, element by element.
LEMMA Follows == ASSUME NEW S, NEW s \in Seq(S), NEW t \in Seq(S) PROVE Joined(s, t, S)
BY DEF Joined

\* ... and by its index in the whole.
LEMMA ElementOf ==
  ASSUME NEW S, NEW s \in Seq(S), NEW t \in Seq(S)
  PROVE  /\ s \o t \in Seq(S) /\ Len(s \o t) = Len(s) + Len(t)
         /\ \A i \in 1..(Len(s) + Len(t)) : (s \o t)[i] = IF i <= Len(s) THEN s[i] ELSE t[i - Len(s)]
OBVIOUS

\* A part of a sequence, element by element.
Part(t, w, p, n) == Len(t) = n /\ \A i \in 1..n : t[i] = w[p + i]

\* That is what SubSeq returns.
LEMMA PartOf ==
  ASSUME NEW S, NEW w \in Seq(S), NEW p \in Nat, NEW n \in Nat, p + n <= Len(w)
  PROVE  SubSeq(w, p + 1, p + n) \in Seq(S) /\ Part(SubSeq(w, p + 1, p + n), w, p, n)
BY DEF Part

\* The part of a sequence from a to p, and n elements further.
Extended(w, a, p, n, S) ==
  /\ SubSeq(w, a + 1, p) \in Seq(S) /\ SubSeq(w, p + 1, p + n) \in Seq(S)
  /\ SubSeq(w, a + 1, p) \o SubSeq(w, p + 1, p + n) = SubSeq(w, a + 1, p + n)

\* SubSeq can be taken in two parts.
LEMMA FurtherFrom ==
  ASSUME NEW S, NEW w \in Seq(S), NEW a \in Nat, NEW p \in Nat, NEW n \in Nat, a <= p, p + n <= Len(w)
  PROVE  Extended(w, a, p, n, S)
<1>. DEFINE k == p - a  r == SubSeq(w, a + 1, p)  s == SubSeq(w, p + 1, p + n)  t == SubSeq(w, a + 1, p + n)
<1>1. k \in Nat /\ a + k = p /\ k + n \in Nat /\ a + (k + n) = p + n /\ a + k <= Len(w) /\ a + (k + n) <= Len(w)
  OBVIOUS
<1>. HIDE DEF k
<1>2. /\ r \in Seq(S) /\ Part(r, w, a, k) /\ s \in Seq(S) /\ Part(s, w, p, n)
      /\ t \in Seq(S) /\ Part(t, w, a, k + n)
  <2>1. r \in Seq(S) /\ Part(r, w, a, k)
    BY <1>1, PartOf, Zenon
  <2>2. s \in Seq(S) /\ Part(s, w, p, n)
    BY PartOf, Zenon
  <2>3. t \in Seq(S) /\ Part(t, w, a, k + n)
    BY <1>1, PartOf, Zenon
  <2>. QED BY <2>1, <2>2, <2>3, Zenon
<1>. HIDE DEF r, s, t
<1>3. Joined(r, s, S)
  BY <1>2, Follows, Zenon
<1>4. r \o s \in Seq(S) /\ Len(r \o s) = Len(t) /\ Len(t) = k + n
  BY <1>2, <1>3, Zenon DEF Joined, Part
<1>5. ASSUME NEW i \in 1..Len(r \o s) PROVE (r \o s)[i] = t[i]
  <2>0. i \in 1..(k + n) /\ t[i] = w[a + i]
    BY <1>2, <1>4, Zenon DEF Part
  <2>1. CASE i <= k
    <3>1. i \in 1..k
      BY <1>1, <2>0, <2>1
    <3>. QED BY <1>2, <1>3, <2>0, <3>1, Zenon DEF Joined, Part
  <2>2. CASE ~(i <= k)
    <3>. DEFINE j == i - k
    <3>1. j \in 1..n /\ k + j = i /\ p + j = a + i
      BY <1>1, <2>0, <2>2
    <3>. HIDE DEF j
    <3>2. (r \o s)[k + j] = s[j] /\ s[j] = w[p + j]
      BY <1>2, <1>3, <3>1, Zenon DEF Joined, Part
    <3>. QED BY <2>0, <3>1, <3>2, Zenon
  <2>. QED BY <2>1, <2>2, Zenon
<1>6. r \o s = t
  BY <1>2, <1>4, <1>5, SameSequence, Zenon
<1>. QED BY <1>2, <1>6, Zenon DEF r, s, t, Extended

\* A sequence, taken further.
LEMMA Further ==
  ASSUME NEW S, NEW w \in Seq(S), NEW p \in Nat, NEW n \in Nat, p + n <= Len(w)
  PROVE  SubSeq(w, 1, p) \o SubSeq(w, p + 1, p + n) = SubSeq(w, 1, p + n)
<1>1. 0 \in Nat /\ 0 <= p /\ 0 + 1 = 1
  OBVIOUS
<1>2. Extended(w, 0, p, n, S)
  BY <1>1, FurtherFrom, Zenon
<1>. QED BY <1>1, <1>2, Zenon DEF Extended
=============================================================================
