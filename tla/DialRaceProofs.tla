-------------------------- MODULE DialRaceProofs --------------------------
(***************************************************************************)
(* Proofs about DialRace, for every set of addresses, every ACL, every     *)
(* answer of the resolver and all delays.                                  *)
(***************************************************************************)
EXTENDS DialRace, FiniteSetTheorems, WellFoundedInduction, TLAPS

(* The clock of the stagger window only moves on, up to its bound. *)
LEMMA StillDue == \A w, t, b \in Nat : t >= w => Advance(t, b) >= w
BY DEF Advance

(* What the proofs need of the numbers of starts. *)
LEMMA StartCount == /\ 0 \in Nat /\ ~(0 > 0) /\ 0 >= 0
                 /\ \A n \in Nat : n + 1 # 0 /\ n + 1 # n /\ (n > 0 \/ n = 0)
OBVIOUS

-----------------------------------------------------------------------------
(* The order of a static set. *)

(* The static interleave is the order of the pops, in any state. *)
LEMMA StaticPops == network \in {"tcp", "tcp4", "tcp6"} => StaticInterleave
<1>. DEFINE
            \* The k-th address of an answer of m v6 addresses and then v4 ones.
            Entry(m, k) == IF k <= m THEN <<"ip6", k>> ELSE <<"ip4", k - m>>
            \* s is that answer with n v4 addresses, entry by entry.
            IsStatic(s, m, n) ==
              DOMAIN s = 1..(m + n) /\ Len(s) = m + n /\ \A k \in 1..(m + n) : s[k] = Entry(m, k)
            \* The length of the shorter of two lists.
            Both(M, N) == IF M < N THEN M ELSE N
            \* The k-th address of the interleave of M v6 addresses and N v4 addresses.
            Turn(M, N, k) ==
              IF k > 2 * Both(M, N) THEN <<IF M < N THEN "ip4" ELSE "ip6", k - Both(M, N)>>
              ELSE IF k % 2 = 1 THEN <<"ip6", (k + 1) \div 2>> ELSE <<"ip4", k \div 2>>
            \* The k-th address that interleaveTCPAddresses takes from its two lists.
            Deal(p, q, k) ==
              LET both == IF Len(p) < Len(q) THEN Len(p) ELSE Len(q)
                  rest == IF Len(p) < Len(q) THEN q ELSE p
              IN IF k > 2 * both THEN rest[k - both]
                 ELSE IF k % 2 = 1 THEN p[(k + 1) \div 2] ELSE q[k \div 2]
            \* The two lists of an interleave: the v6 addresses lead unless there are none.
            InTwo(M, N, p, q) ==
              \/ IsStatic(p, M, 0) /\ IsStatic(q, 0, N) /\ M # 0
              \/ IsStatic(p, 0, N) /\ IsStatic(q, 0, 0) /\ M = 0
            \* How many addresses of a family the network admits.
            Admitted6(m) == IF network = "tcp4" THEN 0 ELSE m
            Admitted4(n) == IF network = "tcp6" THEN 0 ELSE n
            \* How many of the first t are of each family.
            Popped6(M, N, t) == IF t <= 2 * Both(M, N) THEN (t + 1) \div 2 ELSE IF M < N THEN M ELSE t - N
            Popped4(M, N, t) == IF t <= 2 * Both(M, N) THEN t \div 2 ELSE IF M < N THEN t - M ELSE N
            \* A list that deals the addresses out in turn.
            InTurn(order, M, N) == \A k \in 1..(M + N) : order[k] = Turn(M, N, k)
<1>. HIDE DEF Entry, IsStatic, Both, Turn, Deal, InTwo, Admitted6, Admitted4, Popped6, Popped4, InTurn

\* Static is such an answer.
<1>StaticEntries. ASSUME NEW m \in Nat, NEW n \in Nat PROVE IsStatic(Static(m, n), m, n)
  BY DEF Static, Entry, IsStatic

\* Filtering a static set by family leaves one: its addresses of each family,
\* or none of them.
<1>Filtered. ASSUME NEW m \in Nat, NEW n \in Nat, NEW F
      PROVE  OfFamilies(F, Static(m, n)) =
               Static(IF "ip6" \in F THEN m ELSE 0, IF "ip4" \in F THEN n ELSE 0)
  <2>. DEFINE s == Static(m, n)
              a == IF "ip6" \in F THEN 0 ELSE m
              b == IF "ip4" \in F THEN m + n ELSE m
              M == IF "ip6" \in F THEN m ELSE 0
              N == IF "ip4" \in F THEN n ELSE 0
              kept == {i \in DOMAIN s : s[i][1] \in F}
              Rank(i) == Cardinality({j \in kept : j <= i})
              At(k) == CHOOSE i \in kept : Rank(i) = k
  <2>1. a \in Nat /\ b \in Nat /\ a <= b /\ b - a = M + N /\ M \in Nat /\ N \in Nat
    OBVIOUS
  <2>2. DOMAIN s = 1..(m + n) /\ \A k \in 1..(m + n) : s[k] = Entry(m, k)
    BY <1>StaticEntries, Zenon DEF IsStatic
  <2>3. OfFamilies(F, s) = [k \in 1..Cardinality(kept) |-> s[At(k)]]
    BY Zenon DEF OfFamilies
  <2>. HIDE DEF s
  <2>4. kept = (a + 1)..b
    <3>1. \A i \in 1..(m + n) : Entry(m, i)[1] = IF i <= m THEN "ip6" ELSE "ip4"
      BY DEF Entry
    <3>2. kept = {i \in 1..(m + n) : (IF i <= m THEN "ip6" ELSE "ip4") \in F}
      BY <2>2, <3>1, ZenonT(60)
    <3>. HIDE DEF kept
    <3>. QED BY <3>2
  <2>5. \A k \in 1..(M + N) : a + k \in 1..(m + n) /\ Entry(m, a + k) = Entry(M, k)
    BY DEF Entry
  <2>. HIDE DEF kept, a, b, M, N
  <2>6. Cardinality(kept) = M + N
    BY <2>1, <2>4, FS_Interval
  <2>7. ASSUME NEW i \in kept PROVE Rank(i) = i - a
    <3>1. {j \in kept : j <= i} = (a + 1)..i /\ a + 1 <= i /\ i \in Int /\ a + 1 \in Int
      BY <2>1, <2>4
    <3>2. Cardinality((a + 1)..i) = i - a
      BY <2>1, <3>1, FS_Interval
    <3>. QED BY <3>1, <3>2, Zenon
  <2>. HIDE DEF Rank
  <2>8. ASSUME NEW k \in 1..(M + N) PROVE s[At(k)] = Entry(M, k)
    <3>1. a + k \in kept /\ (a + k) - a = k
      BY <2>1, <2>4
    <3>2. Rank(a + k) = k
      BY <2>7, <3>1, Zenon
    <3>3. At(k) \in kept /\ Rank(At(k)) = k
      BY <3>1, <3>2, Zenon
    <3>. HIDE DEF At
    <3>4. At(k) - a = k /\ At(k) \in Int
      BY <2>1, <2>4, <2>7, <3>3
    <3>5. At(k) = a + k
      BY <2>1, <3>4
    <3>. QED BY <2>2, <2>5, <3>5, Zenon
  <2>. HIDE DEF At
  <2>9. OfFamilies(F, s) = [k \in 1..(M + N) |-> Entry(M, k)]
    BY <2>3, <2>6, <2>8, Zenon
  <2>. QED BY <2>9, Zenon DEF s, M, N, Static, Entry

\* Two lists of M and N addresses, dealt out in turn.
<1>DealtOut. ASSUME NEW M \in Nat, NEW N \in Nat, NEW p, NEW q, NEW k \in 1..(M + N),
             InTwo(M, N, p, q)
      PROVE  Deal(p, q, k) = Turn(M, N, k)
  <2>. USE <1>DealtOut DEF Deal, InTwo
  <2>1. CASE IsStatic(p, M, 0) /\ IsStatic(q, 0, N) /\ M # 0
    <3>1. /\ Len(p) = M /\ \A i \in 1..M : p[i] = <<"ip6", i>>
          /\ Len(q) = N /\ \A i \in 1..N : q[i] = <<"ip4", i>>
      BY <2>1 DEF IsStatic, Entry
    <3>2. CASE k > 2 * Both(M, N)
      <4>1. CASE M < N
        <5>1. k - M \in 1..N
          BY <3>2, <4>1 DEF Both
        <5>. QED BY <3>1, <3>2, <4>1, <5>1 DEF Both, Turn
      <4>2. CASE ~(M < N)
        <5>1. k - N \in 1..M
          BY <3>2, <4>2 DEF Both
        <5>. QED BY <3>1, <3>2, <4>2, <5>1 DEF Both, Turn
      <4>. QED BY <4>1, <4>2, Zenon
    <3>3. CASE ~(k > 2 * Both(M, N))
      <4>1. k % 2 = 1 => (k + 1) \div 2 \in 1..M
        BY <3>3 DEF Both
      <4>2. k % 2 # 1 => k \div 2 \in 1..N
        BY <3>3 DEF Both
      <4>. QED BY <3>1, <3>3, <4>1, <4>2, Zenon DEF Both, Turn
    <3>. QED BY <3>2, <3>3, Zenon
  <2>2. CASE IsStatic(p, 0, N) /\ IsStatic(q, 0, 0) /\ M = 0
    <3>1. Len(p) = N /\ Len(q) = 0 /\ \A i \in 1..N : p[i] = <<"ip4", i>>
      BY <2>2 DEF IsStatic, Entry
    <3>2. k \in 1..N /\ 0 < N /\ k > 0 /\ k - 0 = k /\ ~(N < 0)
      BY <2>2
    <3>. QED BY <2>2, <3>1, <3>2 DEF Both, Turn
  <2>. QED BY <2>1, <2>2, Zenon

\* interleaveTCPAddresses of a static set, address by address.
<1>Interleaved. ASSUME network \in {"tcp", "tcp4", "tcp6"}, NEW m \in Nat, NEW n \in Nat
      PROVE  interleaveTCPAddresses(Static(m, n)) =
               [k \in 1..(Admitted6(m) + Admitted4(n)) |-> Turn(Admitted6(m), Admitted4(n), k)]
  <2>. DEFINE M == Admitted6(m)  N == Admitted4(n)
              F == {f \in Families : network \in {"tcp", IF f = "ip4" THEN "tcp4" ELSE "tcp6"}}
              g == OfFamilies(F, Static(m, n))
              p == OfFamilies({g[1][1]}, g)
              q == OfFamilies(Families \ {g[1][1]}, g)
              Dealt(k) == Deal(p, q, k)
  <2>1. M \in Nat /\ N \in Nat /\ 0 \in Nat
    BY DEF Admitted6, Admitted4
  <2>2. ("ip6" \in F <=> network # "tcp4") /\ ("ip4" \in F <=> network # "tcp6")
    BY <1>Interleaved DEF Families
  <2>3. interleaveTCPAddresses(Static(m, n)) = [k \in DOMAIN g |-> Dealt(k)]
    BY Zenon DEF interleaveTCPAddresses, Deal
  <2>. HIDE DEF F
  <2>4. g = Static(M, N)
    <3>1. g = Static(IF "ip6" \in F THEN m ELSE 0, IF "ip4" \in F THEN n ELSE 0)
      BY <1>Filtered, Zenon
    <3>. HIDE DEF g
    <3>2. (IF "ip6" \in F THEN m ELSE 0) = M /\ (IF "ip4" \in F THEN n ELSE 0) = N
      BY <2>2, Zenon DEF Admitted6, Admitted4
    <3>. QED BY <3>1, <3>2, Zenon
  <2>. HIDE DEF M, N, g
  <2>5. IsStatic(g, M, N)
    BY <2>1, <2>4, <1>StaticEntries, Zenon
  <2>6. DOMAIN g = 1..(M + N)
    BY <2>5 DEF IsStatic
  <2>7. ASSUME NEW k \in 1..(M + N) PROVE Dealt(k) = Turn(M, N, k)
    <3>1. 1 \in 1..(M + N) /\ g[1] = Entry(M, 1)
      BY <2>1, <2>5 DEF IsStatic
    <3>2. CASE M # 0
      <4>1. g[1][1] = "ip6"
        BY <2>1, <3>1, <3>2 DEF Entry
      <4>2. "ip6" \in {g[1][1]} /\ "ip4" \notin {g[1][1]}
        BY <4>1
      <4>3. "ip6" \notin Families \ {g[1][1]} /\ "ip4" \in Families \ {g[1][1]}
        BY <4>1 DEF Families
      <4>4. p = Static(IF "ip6" \in {g[1][1]} THEN M ELSE 0, IF "ip4" \in {g[1][1]} THEN N ELSE 0)
        BY <2>1, <2>4, <1>Filtered, Zenon
      <4>5. q = Static(IF "ip6" \in Families \ {g[1][1]} THEN M ELSE 0, IF "ip4" \in Families \ {g[1][1]} THEN N ELSE 0)
        BY <2>1, <2>4, <1>Filtered, Zenon
      <4>. HIDE DEF p, q
      <4>6. IsStatic(p, M, 0) /\ IsStatic(q, 0, N)
        BY <2>1, <4>2, <4>3, <4>4, <4>5, <1>StaticEntries, Zenon
      <4>7. InTwo(M, N, p, q)
        BY <3>2, <4>6, Zenon DEF InTwo
      <4>8. Deal(p, q, k) = Turn(M, N, k)
        BY <2>1, <4>7, <1>DealtOut, SMTT(20)
      <4>. QED BY <4>8, Zenon
    <3>3. CASE M = 0
      <4>1. g[1][1] = "ip4"
        BY <2>1, <3>1, <3>3 DEF Entry
      <4>2. "ip6" \notin {g[1][1]} /\ "ip4" \in {g[1][1]}
        BY <4>1
      <4>3. "ip6" \in Families \ {g[1][1]} /\ "ip4" \notin Families \ {g[1][1]}
        BY <4>1, Zenon DEF Families
      <4>4. p = Static(IF "ip6" \in {g[1][1]} THEN M ELSE 0, IF "ip4" \in {g[1][1]} THEN N ELSE 0)
        BY <2>1, <2>4, <1>Filtered, Zenon
      <4>5. q = Static(IF "ip6" \in Families \ {g[1][1]} THEN M ELSE 0, IF "ip4" \in Families \ {g[1][1]} THEN N ELSE 0)
        BY <2>1, <2>4, <1>Filtered, Zenon
      <4>. HIDE DEF p, q
      <4>6. IsStatic(p, 0, N) /\ IsStatic(q, 0, 0)
        BY <2>1, <3>3, <4>2, <4>3, <4>4, <4>5, <1>StaticEntries, Zenon
      <4>7. InTwo(M, N, p, q)
        BY <3>3, <4>6, Zenon DEF InTwo
      <4>8. Deal(p, q, k) = Turn(M, N, k)
        BY <2>1, <4>7, <1>DealtOut, SMTT(20)
      <4>. QED BY <4>8, Zenon
    <3>. QED BY <3>2, <3>3, Zenon
  <2>. HIDE DEF Dealt
  <2>8. [k \in DOMAIN g |-> Dealt(k)] = [k \in 1..(M + N) |-> Turn(M, N, k)]
    BY <2>6, <2>7, Zenon
  <2>. QED BY <2>3, <2>8, Zenon DEF M, N

\* The first t of the interleave leave the rest of each queue.
<1>LeftOver. ASSUME NEW M \in Nat, NEW N \in Nat, NEW order, NEW t \in 0..(M + N), InTurn(order, M, N)
      PROVE  /\ Left("ip6", 1..M, order, t) = (Popped6(M, N, t) + 1)..M
             /\ Left("ip4", 1..N, order, t) = (Popped4(M, N, t) + 1)..N
  <2>. USE <1>LeftOver DEF InTurn
  <2>. DEFINE b == Both(M, N)  x == Popped6(M, N, t)  y == Popped4(M, N, t)
  <2>0. /\ b \in Nat /\ b <= M /\ b <= N /\ 2 * b <= M + N /\ t \in Nat
        /\ \A j \in 1..t : j \in 1..(M + N)
        /\ x \in Nat /\ y \in Nat
    BY DEF Both, Popped6, Popped4
  <2>1. ASSUME NEW i \in 1..M, i <= x PROVE \E j \in 1..t : order[j] = <<"ip6", i>>
    <3>1. CASE i <= b
      <4>1. 2 * i - 1 \in 1..t /\ Turn(M, N, 2 * i - 1) = <<"ip6", i>>
        BY <2>0, <2>1, <3>1 DEF Popped6, Turn, Both
      <4>. QED BY <2>0, <4>1, Zenon
    <3>2. CASE ~(i <= b)
      <4>1. i + N \in 1..t /\ Turn(M, N, i + N) = <<"ip6", i>>
        BY <2>0, <2>1, <3>2 DEF Popped6, Turn, Both
      <4>. QED BY <2>0, <4>1, Zenon
    <3>. QED BY <3>1, <3>2, Zenon
  <2>2. ASSUME NEW i \in 1..N, i <= y PROVE \E j \in 1..t : order[j] = <<"ip4", i>>
    <3>1. CASE i <= b
      <4>1. 2 * i \in 1..t /\ Turn(M, N, 2 * i) = <<"ip4", i>>
        BY <2>0, <2>2, <3>1 DEF Popped4, Turn, Both
      <4>. QED BY <2>0, <4>1, Zenon
    <3>2. CASE ~(i <= b)
      <4>1. i + M \in 1..t /\ Turn(M, N, i + M) = <<"ip4", i>>
        BY <2>0, <2>2, <3>2, SMTT(30) DEF Popped4, Turn, Both
      <4>. QED BY <2>0, <4>1, Zenon
    <3>. QED BY <3>1, <3>2, Zenon
  <2>3. ASSUME NEW j \in 1..t, NEW i \in Nat PROVE /\ Turn(M, N, j) = <<"ip6", i>> => i <= x
                                                   /\ Turn(M, N, j) = <<"ip4", i>> => i <= y
    BY <2>0 DEF Popped6, Popped4, Turn, Both
  <2>. HIDE DEF x, y
  <2>4. Left("ip6", 1..M, order, t) = {i \in 1..M : ~(i <= x)}
    <3>1. ASSUME NEW i \in 1..M PROVE (\A j \in 1..t : order[j] # <<"ip6", i>>) <=> ~(i <= x)
      <4>1. i \in Nat
        OBVIOUS
      <4>2. CASE i <= x
        BY <2>1, <4>2, Zenon
      <4>3. CASE ~(i <= x)
        BY <2>0, <2>3, <4>1, <4>3, Zenon
      <4>. QED BY <4>2, <4>3, Zenon
    <3>. QED BY <3>1, Zenon DEF Left
  <2>5. Left("ip4", 1..N, order, t) = {i \in 1..N : ~(i <= y)}
    <3>1. ASSUME NEW i \in 1..N PROVE (\A j \in 1..t : order[j] # <<"ip4", i>>) <=> ~(i <= y)
      <4>1. i \in Nat
        OBVIOUS
      <4>2. CASE i <= y
        BY <2>2, <4>2, Zenon
      <4>3. CASE ~(i <= y)
        BY <2>0, <2>3, <4>1, <4>3, Zenon
      <4>. QED BY <4>2, <4>3, Zenon
    <3>. QED BY <3>1, Zenon DEF Left
  <2>6. {i \in 1..M : ~(i <= x)} = (x + 1)..M /\ {i \in 1..N : ~(i <= y)} = (y + 1)..N
    BY <2>0
  <2>. QED BY <2>4, <2>5, <2>6, Zenon DEF x, y

\* The head of a queue from which the first i are gone.
<1>HeadOfRest. \A i, K \in Nat : i + 1 <= K =>
        (i + 1)..K # {} /\ i + 1 \in (i + 1)..K /\ IsHead(i + 1, (i + 1)..K)
  <2>1. ASSUME NEW i \in Nat, NEW K \in Nat, i + 1 <= K
        PROVE  i + 1 \in (i + 1)..K /\ IsHead(i + 1, (i + 1)..K)
    BY <2>1 DEF IsHead
  <2>. QED BY <2>1, Zenon

\* A queue from which all are gone.
<1>NothingLeft. \A K \in Nat : (K + 1)..K = {}
  OBVIOUS

\* popLocked hands out the interleave's next address from what is left.
<1>PopsNext. ASSUME NEW M \in Nat, NEW N \in Nat, NEW k \in 1..(M + N)
      PROVE  Pops(Turn(M, N, k), (Popped4(M, N, k - 1) + 1)..N, (Popped6(M, N, k - 1) + 1)..M,
                  IF k = 1 THEN "none" ELSE Turn(M, N, k - 1)[1])
  <2>. DEFINE a == Popped4(M, N, k - 1)  c == Popped6(M, N, k - 1)
              last == IF k = 1 THEN "none" ELSE Turn(M, N, k - 1)[1]
  <2>1. CASE k <= 2 * Both(M, N) /\ k % 2 = 1
    <3>1. /\ Turn(M, N, k)[1] = "ip6" /\ Turn(M, N, k)[2] = c + 1 /\ c \in Nat /\ c + 1 <= M /\ a \in Nat /\ a + 1 <= N
          /\ last # "ip6"
      BY <2>1 DEF Turn, Both, Popped4, Popped6
    <3>. HIDE DEF a, c, last
    <3>2. (a + 1)..N # {} /\ (c + 1)..M # {} /\ c + 1 \in (c + 1)..M /\ IsHead(c + 1, (c + 1)..M)
      BY <3>1, <1>HeadOfRest, Zenon
    <3>3. NextFamily((a + 1)..N, (c + 1)..M, last) = "ip6"
      BY <3>1, <3>2, Zenon DEF NextFamily
    <3>. QED BY <3>1, <3>2, <3>3, Zenon DEF Pops, a, c, last
  <2>2. CASE k <= 2 * Both(M, N) /\ k % 2 = 0
    <3>1. /\ Turn(M, N, k)[1] = "ip4" /\ Turn(M, N, k)[2] = a + 1 /\ a \in Nat /\ a + 1 <= N /\ c \in Nat
          /\ last = "ip6"
      BY <2>2 DEF Turn, Both, Popped4, Popped6
    <3>. HIDE DEF a, c, last
    <3>2. (a + 1)..N # {} /\ a + 1 \in (a + 1)..N /\ IsHead(a + 1, (a + 1)..N)
      BY <3>1, <1>HeadOfRest, Zenon
    <3>3. NextFamily((a + 1)..N, (c + 1)..M, last) = "ip4"
      BY <3>1, <3>2, Zenon DEF NextFamily
    <3>. QED BY <3>1, <3>2, <3>3, Zenon DEF Pops, a, c, last
  <2>3. CASE k > 2 * Both(M, N) /\ M < N
    <3>1. /\ Turn(M, N, k)[1] = "ip4" /\ Turn(M, N, k)[2] = a + 1 /\ a \in Nat /\ a + 1 <= N /\ c = M
      BY <2>3 DEF Turn, Both, Popped4, Popped6
    <3>. HIDE DEF a, c, last
    <3>2. (a + 1)..N # {} /\ (c + 1)..M = {} /\ a + 1 \in (a + 1)..N /\ IsHead(a + 1, (a + 1)..N)
      BY <3>1, <1>HeadOfRest, <1>NothingLeft, Zenon
    <3>3. NextFamily((a + 1)..N, (c + 1)..M, last) = "ip4"
      BY <3>1, <3>2, Zenon DEF NextFamily
    <3>. QED BY <3>1, <3>2, <3>3, Zenon DEF Pops, a, c, last
  <2>4. CASE k > 2 * Both(M, N) /\ ~(M < N)
    <3>1. /\ Turn(M, N, k)[1] = "ip6" /\ Turn(M, N, k)[2] = c + 1 /\ c \in Nat /\ c + 1 <= M /\ a = N
      BY <2>4 DEF Turn, Both, Popped4, Popped6
    <3>. HIDE DEF a, c, last
    <3>2. (a + 1)..N = {} /\ (c + 1)..M # {} /\ c + 1 \in (c + 1)..M /\ IsHead(c + 1, (c + 1)..M)
      BY <3>1, <1>HeadOfRest, <1>NothingLeft, Zenon
    <3>3. NextFamily((a + 1)..N, (c + 1)..M, last) = "ip6"
      BY <3>1, <3>2, Zenon DEF NextFamily
    <3>. QED BY <3>1, <3>2, <3>3, Zenon DEF Pops, a, c, last
  <2>5. k % 2 = 1 \/ k % 2 = 0
    OBVIOUS
  <2>6. k <= 2 * Both(M, N) \/ k > 2 * Both(M, N)
    BY DEF Both
  <2>. QED BY <2>1, <2>2, <2>3, <2>4, <2>5, <2>6, Zenon

\* At the end both queues are empty.
<1>AllPopped. ASSUME NEW M \in Nat, NEW N \in Nat
      PROVE  Popped4(M, N, M + N) = N /\ Popped6(M, N, M + N) = M
  BY DEF Popped4, Popped6, Both

<1>. SUFFICES ASSUME network \in {"tcp", "tcp4", "tcp6"}, NEW m \in StaticSize, NEW n \in StaticSize
              PROVE  LET order == interleaveTCPAddresses(Static(m, n))
                         v4(k) == Left("ip4", IF network = "tcp6" THEN {} ELSE 1..n, order, k)
                         v6(k) == Left("ip6", IF network = "tcp4" THEN {} ELSE 1..m, order, k)
                     IN /\ \A k \in DOMAIN order :
                             Pops(order[k], v4(k - 1), v6(k - 1), IF k = 1 THEN "none" ELSE order[k - 1][1])
                        /\ v4(Len(order)) = {} /\ v6(Len(order)) = {}
  BY Zenon DEF StaticInterleave
<1>. DEFINE order == interleaveTCPAddresses(Static(m, n))
            M == Admitted6(m)  N == Admitted4(n)
            q4 == IF network = "tcp6" THEN {} ELSE 1..n
            q6 == IF network = "tcp4" THEN {} ELSE 1..m
<1>1. m \in Nat /\ n \in Nat
  BY StaticAssumption
<1>2. M \in Nat /\ N \in Nat /\ q4 = 1..N /\ q6 = 1..M
  BY <1>1 DEF Admitted6, Admitted4
<1>3. order = [k \in 1..(M + N) |-> Turn(M, N, k)]
  BY <1>1, <1>Interleaved, Zenon
<1>. HIDE DEF M, N, q4, q6, order
<1>4. /\ DOMAIN order = 1..(M + N) /\ Len(order) = M + N
      /\ \A k \in 1..(M + N) : order[k] = Turn(M, N, k)
  BY <1>2, <1>3
<1>5. ASSUME NEW t \in 0..(M + N)
      PROVE  /\ Left("ip6", q6, order, t) = (Popped6(M, N, t) + 1)..M
             /\ Left("ip4", q4, order, t) = (Popped4(M, N, t) + 1)..N
  <2>1. InTurn(order, M, N)
    BY <1>4, Zenon DEF InTurn
  <2>2. /\ Left("ip6", 1..M, order, t) = (Popped6(M, N, t) + 1)..M
        /\ Left("ip4", 1..N, order, t) = (Popped4(M, N, t) + 1)..N
    BY <1>2, <2>1, <1>LeftOver, SMTT(20)
  <2>. QED BY <1>2, <2>2, Zenon
<1>6. ASSUME NEW k \in 1..(M + N)
      PROVE  Pops(order[k], Left("ip4", q4, order, k - 1), Left("ip6", q6, order, k - 1),
                  IF k = 1 THEN "none" ELSE order[k - 1][1])
  <2>1. k - 1 \in 0..(M + N) /\ (k # 1 => k - 1 \in 1..(M + N))
    BY <1>2
  <2>2. order[k] = Turn(M, N, k) /\ (k # 1 => order[k - 1] = Turn(M, N, k - 1))
    BY <1>4, <2>1, Zenon
  <2>3. (IF k = 1 THEN "none" ELSE order[k - 1][1]) = (IF k = 1 THEN "none" ELSE Turn(M, N, k - 1)[1])
    BY <2>2, Zenon
  <2>4. Pops(Turn(M, N, k), (Popped4(M, N, k - 1) + 1)..N, (Popped6(M, N, k - 1) + 1)..M,
             IF k = 1 THEN "none" ELSE Turn(M, N, k - 1)[1])
    BY <1>2, <1>PopsNext, Zenon
  <2>5. /\ Left("ip6", q6, order, k - 1) = (Popped6(M, N, k - 1) + 1)..M
        /\ Left("ip4", q4, order, k - 1) = (Popped4(M, N, k - 1) + 1)..N
    BY <1>5, <2>1, Zenon
  <2>. QED BY <2>2, <2>3, <2>4, <2>5, Zenon
<1>7. Left("ip4", q4, order, M + N) = {} /\ Left("ip6", q6, order, M + N) = {}
  <2>1. M + N \in 0..(M + N) /\ (M + 1)..M = {} /\ (N + 1)..N = {}
    BY <1>2, <1>NothingLeft
  <2>2. Popped4(M, N, M + N) = N /\ Popped6(M, N, M + N) = M
    BY <1>2, <1>AllPopped, Zenon
  <2>. QED BY <1>5, <2>1, <2>2, Zenon
<1>. QED BY <1>4, <1>6, <1>7, Zenon DEF order, q4, q6

USE DEF feedVars, attemptVars, schedVars, clockVars, callVars, SendWake, CloseLate, IsHead, Shortened

-----------------------------------------------------------------------------
(* Type correctness. *)

(* An answer's positions are candidates' positions. *)
LEMMA AnswerDomain ==
  ASSUME NEW s \in Answers \cup {<<>>}
  PROVE  /\ s \in Seq(Addr)
         /\ DOMAIN s \subseteq 1..MaxAnswer
<1>1. CASE s \in Answers
  <2>1. s \in Seq(Addr) /\ Len(s) <= MaxAnswer
    BY <1>1, AnswerAssumption
  <2>2. Len(s) \in Nat /\ DOMAIN s = 1..Len(s)
    BY <2>1
  <2>. QED
    BY <2>1, <2>2, AnswerAssumption
<1>2. CASE s = <<>>
  BY <1>2
<1>. QED
  BY <1>1, <1>2

(* The number of approved addresses of an answer is a natural number. *)
LEMMA PassedIsNat ==
  ASSUME NEW s \in Answers
  PROVE  Cardinality({i \in DOMAIN s : s[i] \in Allowed}) \in Nat
<1>1. IsFiniteSet(1..MaxAnswer)
  BY FS_Interval, AnswerAssumption
<1>2. {i \in DOMAIN s : s[i] \in Allowed} \subseteq 1..MaxAnswer
  BY AnswerDomain
<1>. QED
  BY <1>1, <1>2, FS_Subset, FS_CardinalityType, Zenon

(* The queues admit positions of the answer only. *)
LEMMA AdmitDomain ==
  ASSUME NEW f, NEW s \in Answers \cup {<<>>}
  PROVE  Admit(f, s) \subseteq 1..MaxAnswer
BY AnswerDomain, SMTT(30) DEF Admit

(* The initial state has the right types. *)
LEMMA InitType == Init => TypeOK
<1> SUFFICES ASSUME Init PROVE TypeOK
  OBVIOUS
<1>1. answer \in [Families -> Answers \cup {<<>>}]
  BY DEF Init
<1>2. /\ queue \in [Families -> SUBSET (1..MaxAnswer)]
      /\ attempt \in [Cand -> {"idle", "dialing", "handoff", "exited"}]
      /\ attemptErr \in [Cand -> Errors \cup {"nil"}]
      /\ age \in [Cand -> Nat]
  BY DEF Init
<1>3. failedSince \in BOOLEAN
  BY Zenon DEF Init
<1>4. /\ network \in Networks
      /\ lookup \in [Families -> {"querying", "pulsing", "done"}]
      /\ lookupErr \in [Families -> Errors \cup {"nil"}]
      /\ closer \in {"waiting", "pulsing", "done"}
      /\ passedACL \in Nat /\ wake \in 0..1
  BY DEF Init
<1>. QED
  BY <1>1, <1>2, <1>3, <1>4, SMTT(30) DEF Init, TypeOK, Errors

(* The types, grouped the way the actions change the variables. *)
FeedTypes ==
  /\ network \in Networks
  /\ lookup \in [Families -> {"querying", "pulsing", "done"}]
  /\ answer \in [Families -> Answers \cup {<<>>}]
  /\ lookupErr \in [Families -> Errors \cup {"nil"}]
  /\ queue \in [Families -> SUBSET (1..MaxAnswer)]
  /\ passedACL \in Nat
  /\ closer \in {"waiting", "pulsing", "done"}
  /\ wake \in 0..1

AttemptTypes ==
  /\ attempt \in [Cand -> {"idle", "dialing", "handoff", "exited"}]
  /\ attemptErr \in [Cand -> Errors \cup {"nil"}]
  /\ open \subseteq Cand

ClockTypes == age \in [Cand -> Nat] /\ sinceStart \in Nat /\ elapsed \in Nat

SchedTypes ==
  /\ started \in Nat /\ pending \in Int
  /\ lastFamily \in Families \cup {"none"}
  /\ lastErr \in Errors \cup {"nil"}
  /\ window \in {0, MinimumDelay, FallbackDelay}
  /\ failedSince \in BOOLEAN

CallTypes ==
  /\ pc \in {"loop", "select", "done"}
  /\ timer \in {"armed", "stopped"}
  /\ ctxErr \in {"nil", "canceled", "timeout"}
  /\ ret \in {"pending", "conn", "ctx", "dial", "lookup", "denied"}
  /\ retErr \in Errors \cup {"nil"}
  /\ returned \subseteq Cand

AllTypes == FeedTypes /\ AttemptTypes /\ ClockTypes /\ SchedTypes /\ CallTypes

(* The groups are the type invariant, before a step and after it. *)
LEMMA Grouped == (TypeOK => AllTypes) /\ (AllTypes' => TypeOK')
<1>1. TypeOK => AllTypes
  BY ZenonT(60) DEF TypeOK, AllTypes, FeedTypes, AttemptTypes, ClockTypes, SchedTypes, CallTypes
<1>2. AllTypes' => TypeOK'
  BY ZenonT(60) DEF TypeOK, AllTypes, FeedTypes, AttemptTypes, ClockTypes, SchedTypes, CallTypes
<1>. QED BY <1>1, <1>2, Zenon

(* What a step leaves alone keeps its type. *)
LEMMA FeedFrame == FeedTypes /\ UNCHANGED <<network, feedVars, wake>> => FeedTypes'
BY ZenonT(60) DEF FeedTypes

(* The same of the attempts. *)
LEMMA AttemptFrame == AttemptTypes /\ UNCHANGED attemptVars => AttemptTypes'
BY ZenonT(60) DEF AttemptTypes

(* The same of the clocks. *)
LEMMA ClockFrame == ClockTypes /\ UNCHANGED clockVars => ClockTypes'
BY ZenonT(60) DEF ClockTypes

(* The same of the scheduler's variables. *)
LEMMA SchedFrame == SchedTypes /\ UNCHANGED schedVars => SchedTypes'
BY ZenonT(60) DEF SchedTypes

(* The same of the call's. *)
LEMMA CallFrame == CallTypes /\ UNCHANGED callVars => CallTypes'
BY ZenonT(60) DEF CallTypes

(* Counting up stays within the numbers. *)
LEMMA Numbers ==
  /\ 0 \in Nat /\ 0 \in 0..1 /\ 1 \in 0..1
  /\ \A n \in Nat : n + 1 \in Nat
  /\ \A n \in Int : n + 1 \in Int /\ n - 1 \in Int
OBVIOUS

(* A clock is a number, whether it reached its bound or not. *)
LEMMA Advances == \A n \in Nat : \A b : Advance(n, b) \in Nat
BY Numbers, Zenon DEF Advance

(* What the call's context and an attempt's may report, and what a dial may  *)
(* fail with.                                                                *)
LEMMA ContextErrors ==
  ASSUME CallTypes
  PROVE  /\ ctxErr \in Errors \cup {"nil"} /\ Failures \subseteq Errors
         /\ \A c : AttemptCtxErr(c) \subseteq Errors \cup {"nil"}
<1>1. \A c : AttemptCtxErr(c) \subseteq {"timeout", ctxErr}
  BY Zenon DEF AttemptCtxErr
<1>2. ctxErr \in Errors \cup {"nil"} /\ "timeout" \in Errors
  BY Zenon DEF CallTypes, Errors
<1>3. Failures \subseteq Errors
  BY FailureAssumption, Zenon DEF Errors
<1>. QED BY <1>1, <1>2, <1>3, Zenon

(* Returning keeps the types of the call. *)
LEMMA ReturnTypes ==
  ASSUME CallTypes, NEW r \in {"conn", "ctx", "dial", "lookup", "denied"},
         NEW e \in Errors \cup {"nil"}, Return(r, e), returned' \subseteq Cand
  PROVE  CallTypes'
<1>1. pc' = "done" /\ timer' = "stopped" /\ ret' = r /\ retErr' = e
  BY Zenon DEF Return
<1>2. ctxErr' \in {"nil", "canceled", "timeout"}
  BY Zenon DEF Return, CallTypes
<1>. QED BY <1>1, <1>2, ZenonT(60) DEF CallTypes

(* Every step preserves the types: one case per action. *)
LEMMA NextType == TypeOK /\ [Next]_vars => TypeOK'
<1> SUFFICES ASSUME AllTypes, [Next]_vars PROVE AllTypes'
  BY Grouped, Zenon
<1>0. FeedTypes /\ AttemptTypes /\ ClockTypes /\ SchedTypes /\ CallTypes
  BY Zenon DEF AllTypes
<1>1. CASE StartNext
  <2>. PICK i \in queue[PopFamily] :
         /\ queue' = [queue EXCEPT ![PopFamily] = @ \ {i}]
         /\ IF ctxErr = "nil"
            THEN Start(<<PopFamily, i>>)
            ELSE Return("ctx", ctxErr) /\ UNCHANGED <<returned, attemptVars, schedVars, clockVars>>
    BY <1>1, Zenon DEF StartNext
  <2>1. PopFamily \in Families
    BY Zenon DEF PopFamily, NextFamily, Families
  <2>2. <<PopFamily, i>> \in Cand
    BY <1>0, <2>1, ZenonT(60) DEF Cand, FeedTypes
  <2>3. FeedTypes'
    <3>1. queue' \in [Families -> SUBSET (1..MaxAnswer)]
      BY <1>0, <2>1, ZenonT(60) DEF FeedTypes
    <3>2. UNCHANGED <<network, lookup, answer, lookupErr, passedACL, closer, wake>>
      BY <1>1, Zenon DEF StartNext
    <3>. QED BY <1>0, <3>1, <3>2, ZenonT(60) DEF FeedTypes
  <2>4. CASE ctxErr = "nil"
    <3>1. Start(<<PopFamily, i>>)
      BY <2>4, Zenon
    <3>2. AttemptTypes'
      BY <1>0, <2>2, <3>1, ZenonT(60) DEF Start, AttemptTypes
    <3>3. ClockTypes'
      BY <1>0, <2>2, <3>1, Numbers, ZenonT(60) DEF Start, ClockTypes
    <3>4. SchedTypes'
      <4>1. lastFamily' \in Families
        BY <3>1, Zenon DEF Start, FamilyOf, Families
      <4>2. started' \in Nat /\ pending' \in Int
        BY <1>0, <3>1, Numbers, Zenon DEF Start, SchedTypes
      <4>3. lastErr' = lastErr /\ window' = FallbackDelay /\ failedSince' \in BOOLEAN
        BY <3>1, Zenon DEF Start
      <4>. QED BY <1>0, <4>1, <4>2, <4>3, ZenonT(60) DEF SchedTypes
    <3>5. CallTypes'
      BY <1>0, <3>1, ZenonT(60) DEF Start, CallTypes
    <3>. QED BY <2>3, <3>2, <3>3, <3>4, <3>5, Zenon DEF AllTypes
  <2>5. CASE ctxErr # "nil"
    <3>1. CallTypes'
      <4>1. returned' \subseteq Cand
        BY <1>0, <2>5, ZenonT(60) DEF CallTypes
      <4>. QED BY <1>0, <2>5, <4>1, ReturnTypes, ContextErrors, ZenonT(60)
    <3>. QED BY <1>0, <2>3, <2>5, <3>1, AttemptFrame, ClockFrame, SchedFrame, ZenonT(60) DEF AllTypes
  <2>. QED BY <2>4, <2>5, Zenon
<1>2. CASE GiveUp
  <2>1. FinalError[1] \in {"dial", "lookup", "denied"} /\ FinalError[2] \in Errors \cup {"nil"}
    <3>1. lookupErr["ip4"] \in Errors \cup {"nil"} /\ lastErr \in Errors \cup {"nil"}
      BY <1>0, Zenon DEF FeedTypes, SchedTypes, Families
    <3>. QED BY <3>1 DEF FinalError, Errors
  <2>2. CallTypes'
    <3>1. returned' \subseteq Cand
      BY <1>0, <1>2, Zenon DEF GiveUp, CallTypes
    <3>. QED BY <1>0, <1>2, <2>1, <3>1, ReturnTypes, Zenon DEF GiveUp
  <2>. QED BY <1>0, <1>2, <2>2, FeedFrame, AttemptFrame, ClockFrame, SchedFrame, ZenonT(60)
           DEF GiveUp, AllTypes
<1>3. CASE EnterSelect \/ SelectTimer
  <2>1. CallTypes'
    BY <1>0, <1>3, ZenonT(60) DEF EnterSelect, SelectTimer, CallTypes
  <2>. QED BY <1>0, <1>3, <2>1, FeedFrame, AttemptFrame, ClockFrame, SchedFrame, ZenonT(60)
           DEF EnterSelect, SelectTimer, AllTypes
<1>4. CASE SelectDone
  <2>1. CallTypes'
    <3>1. returned' \subseteq Cand
      BY <1>0, <1>4, Zenon DEF SelectDone, CallTypes
    <3>. QED BY <1>0, <1>4, <3>1, ReturnTypes, ContextErrors, Zenon DEF SelectDone
  <2>. QED BY <1>0, <1>4, <2>1, FeedFrame, AttemptFrame, ClockFrame, SchedFrame, ZenonT(60)
           DEF SelectDone, AllTypes
<1>5. CASE SelectWake
  <2>1. FeedTypes' /\ CallTypes'
    BY <1>0, <1>5, Numbers, ZenonT(60) DEF SelectWake, FeedTypes, CallTypes
  <2>. QED BY <1>0, <1>5, <2>1, AttemptFrame, ClockFrame, SchedFrame, ZenonT(60)
           DEF SelectWake, AllTypes
<1>6. CASE CancelRequest \/ DeadlineExpires
  <2>1. CallTypes'
    BY <1>0, <1>6, ZenonT(60) DEF CancelRequest, DeadlineExpires, CallTypes
  <2>. QED BY <1>0, <1>6, <2>1, FeedFrame, AttemptFrame, ClockFrame, SchedFrame, ZenonT(60)
           DEF CancelRequest, DeadlineExpires, AllTypes
<1>7. ASSUME NEW c \in Cand, ReceiveConn(c) PROVE AllTypes'
  <2>1. AttemptTypes'
    BY <1>0, <1>7, ZenonT(60) DEF ReceiveConn, AttemptTypes
  <2>2. SchedTypes'
    <3>1. pending' \in Int
      BY <1>0, <1>7, Numbers, Zenon DEF ReceiveConn, SchedTypes
    <3>. QED BY <1>0, <1>7, <3>1, ZenonT(60) DEF ReceiveConn, SchedTypes
  <2>3. CallTypes'
    <3>1. returned' \subseteq Cand
      BY <1>0, <1>7, ZenonT(60) DEF ReceiveConn, CallTypes
    <3>. QED BY <1>0, <1>7, <3>1, ReturnTypes, ContextErrors, ZenonT(60) DEF ReceiveConn
  <2>. QED BY <1>0, <1>7, <2>1, <2>2, <2>3, FeedFrame, ClockFrame, ZenonT(60)
           DEF ReceiveConn, AllTypes
<1>8. ASSUME NEW c \in Cand, ReceiveFailure(c) PROVE AllTypes'
  <2>1. AttemptTypes' /\ CallTypes'
    BY <1>0, <1>8, ZenonT(60) DEF ReceiveFailure, AttemptTypes, CallTypes
  <2>2. SchedTypes'
    <3>1. pending' \in Int /\ lastErr' \in Errors \cup {"nil"}
      BY <1>0, <1>8, Numbers, ZenonT(60) DEF ReceiveFailure, SchedTypes, AttemptTypes
    <3>2. window' \in {0, MinimumDelay, FallbackDelay} /\ failedSince' \in BOOLEAN
      BY <1>0, <1>8, ZenonT(60) DEF ReceiveFailure, SchedTypes
    <3>. QED BY <1>0, <1>8, <3>1, <3>2, ZenonT(60) DEF ReceiveFailure, SchedTypes
  <2>. QED BY <1>0, <1>8, <2>1, <2>2, FeedFrame, ClockFrame, ZenonT(60)
           DEF ReceiveFailure, AllTypes
<1>9. ASSUME NEW f \in Families, NEW s \in Answers, ResolveOK(f, s) PROVE AllTypes'
  <2>1. passedACL' \in Nat
    <3>1. passedACL' = passedACL + Cardinality({i \in DOMAIN s : s[i] \in Allowed})
      BY <1>9, Zenon DEF ResolveOK
    <3>2. Cardinality({i \in DOMAIN s : s[i] \in Allowed}) \in Nat
      BY PassedIsNat, Zenon
    <3>3. \A m, n \in Nat : m + n \in Nat
      OBVIOUS
    <3>. QED BY <1>0, <3>1, <3>2, <3>3, Zenon DEF FeedTypes
  <2>2. queue' \in [Families -> SUBSET (1..MaxAnswer)]
    BY <1>0, <1>9, AdmitDomain, ZenonT(60) DEF ResolveOK, FeedTypes
  <2>3. /\ answer' \in [Families -> Answers \cup {<<>>}]
        /\ lookup' \in [Families -> {"querying", "pulsing", "done"}]
    BY <1>0, <1>9, ZenonT(60) DEF ResolveOK, FeedTypes
  <2>4. UNCHANGED <<network, lookupErr, closer, wake>>
    BY <1>9, Zenon DEF ResolveOK
  <2>5. FeedTypes'
    BY <1>0, <2>1, <2>2, <2>3, <2>4, ZenonT(60) DEF FeedTypes
  <2>. QED BY <1>0, <1>9, <2>5, AttemptFrame, ClockFrame, SchedFrame, CallFrame, ZenonT(60)
           DEF ResolveOK, AllTypes
<1>10. ASSUME NEW f \in Families, NEW e \in Failures \cup ({ctxErr} \ {"nil"}), ResolveErr(f, e)
       PROVE AllTypes'
  <2>1. e \in Errors \cup {"nil"}
    BY <1>0, <1>10, ContextErrors, Zenon
  <2>2. FeedTypes'
    BY <1>0, <1>10, <2>1, ZenonT(60) DEF ResolveErr, FeedTypes
  <2>. QED BY <1>0, <1>10, <2>2, AttemptFrame, ClockFrame, SchedFrame, CallFrame, ZenonT(60)
           DEF ResolveErr, AllTypes
<1>11. CASE (\E f \in Families : Pulse(f)) \/ CloseFeed \/ PulseClosed
  <2>1. FeedTypes'
    BY <1>0, <1>11, Numbers, ZenonT(60) DEF Pulse, CloseFeed, PulseClosed, FeedTypes
  <2>2. UNCHANGED <<attemptVars, schedVars, clockVars, callVars>>
    BY <1>11, ZenonT(60) DEF Pulse, CloseFeed, PulseClosed
  <2>. QED BY <1>0, <2>1, <2>2, AttemptFrame, ClockFrame, SchedFrame, CallFrame, ZenonT(60)
           DEF AllTypes
<1>12. ASSUME NEW c \in Cand, DialConnects(c) \/ DialFails(c) PROVE AllTypes'
  <2>1. attemptErr' \in [Cand -> Errors \cup {"nil"}] /\ open' \subseteq Cand
    <3>1. CASE DialConnects(c)
      BY <1>0, <3>1, ContextErrors, ZenonT(60) DEF DialConnects, AttemptTypes
    <3>2. CASE DialFails(c)
      BY <1>0, <3>2, ContextErrors, ZenonT(60) DEF DialFails, AttemptTypes
    <3>. QED BY <1>12, <3>1, <3>2, Zenon
  <2>2. AttemptTypes'
    BY <1>0, <1>12, <2>1, ZenonT(60) DEF DialConnects, DialFails, AttemptTypes
  <2>3. ClockTypes'
    BY <1>0, <1>12, Numbers, ZenonT(60) DEF DialConnects, DialFails, ClockTypes
  <2>4. UNCHANGED <<network, feedVars, wake, schedVars, callVars>>
    BY <1>12, ZenonT(60) DEF DialConnects, DialFails
  <2>. QED BY <1>0, <2>2, <2>3, <2>4, FeedFrame, SchedFrame, CallFrame, ZenonT(60) DEF AllTypes
<1>13. ASSUME NEW c \in Cand, Abandon(c) PROVE AllTypes'
  <2>1. AttemptTypes'
    BY <1>0, <1>13, ZenonT(60) DEF Abandon, AttemptTypes
  <2>. QED BY <1>0, <1>13, <2>1, FeedFrame, ClockFrame, SchedFrame, CallFrame, ZenonT(60)
           DEF Abandon, AllTypes
<1>14. CASE Tick
  <2>1. ClockTypes'
    BY <1>0, <1>14, Numbers, Advances, ZenonT(60) DEF Tick, ClockTypes
  <2>. QED BY <1>0, <1>14, <2>1, FeedFrame, AttemptFrame, SchedFrame, CallFrame, ZenonT(60)
           DEF Tick, AllTypes
<1>15. CASE UNCHANGED vars
  BY <1>0, <1>15, FeedFrame, AttemptFrame, ClockFrame, SchedFrame, CallFrame, ZenonT(60)
     DEF vars, AllTypes
<1>. QED
  BY <1>1, <1>2, <1>3, <1>4, <1>5, <1>6, <1>7, <1>8, <1>9, <1>10, <1>11, <1>12, <1>13, <1>14,
     <1>15, ZenonT(60)
     DEF Next, Scheduler, LookupReturns, Finished

(* Every variable of the race keeps its type; in particular the stagger      *)
(* window is never anything but 0, tcpMinimumDelay or tcpFallbackDelay.      *)
THEOREM TypeCorrect == Spec => []TypeOK
BY InitType, NextType, PTL DEF Spec

-----------------------------------------------------------------------------
(* The call, the feed and the candidates dialed. *)

(* The scheduler is done exactly when the call has returned. *)
CallInv == pc = "done" <=> ret # "pending"

(* Steps keep the scheduler done exactly when the call has returned. *)
LEMMA NextCall == TypeOK /\ CallInv /\ [Next]_vars => CallInv'
<1> SUFFICES ASSUME TypeOK, CallInv, [Next]_vars PROVE CallInv'
  OBVIOUS
<1>1. CASE Scheduler
  BY <1>1, Zenon DEF Scheduler, StartNext, GiveUp, EnterSelect, SelectDone, SelectWake, SelectTimer,
              ReceiveConn, ReceiveFailure, Start, Return, FinalError, CallInv
<1>2. CASE UNCHANGED <<pc, ret>>
  BY <1>2 DEF CallInv
<1>. QED
  BY <1>1, <1>2, Zenon DEF Next, LookupReturns, ResolveOK, ResolveErr, Pulse, CloseFeed, PulseClosed,
     DialConnects, DialFails, Abandon, CancelRequest, DeadlineExpires, Tick, Finished, vars

(* The steps that matter to the feed: an answer is admitted, a candidate is  *)
(* popped, or neither the answers, the queues nor the set of dialed          *)
(* candidates change.                                                        *)
LEMMA FeedSteps ==
  ASSUME TypeOK, CallInv, [Next]_vars
  PROVE  \/ \E f \in Families, s \in Answers : ResolveOK(f, s)
         \/ StartNext
         \/ /\ UNCHANGED <<network, answer, queue>>
            /\ Dialed' = Dialed
            /\ \A f \in Families : lookup'[f] = "querying" => lookup[f] = "querying"
            /\ ret = "ctx" => ret' = "ctx"
<1> DEFINE Frame == /\ UNCHANGED <<network, answer, queue>>
                    /\ Dialed' = Dialed
                    /\ \A f \in Families : lookup'[f] = "querying" => lookup[f] = "querying"
                    /\ ret = "ctx" => ret' = "ctx"
<1>1. CASE UNCHANGED <<network, answer, queue, attempt, lookup, ret>>
  BY <1>1 DEF Dialed
<1>2. CASE GiveUp \/ SelectDone
  BY <1>2, Zenon DEF GiveUp, SelectDone, Return, CallInv, Dialed
<1>3. ASSUME NEW c \in Cand, ReceiveConn(c) \/ ReceiveFailure(c) PROVE Frame
  BY <1>3, ZenonT(200) DEF ReceiveConn, ReceiveFailure, Return, CallInv, Dialed, TypeOK
<1>4. ASSUME NEW c \in Cand, DialConnects(c) \/ DialFails(c) \/ Abandon(c) PROVE Frame
  BY <1>4, ZenonT(60) DEF DialConnects, DialFails, Abandon, Dialed, TypeOK
<1>5. ASSUME NEW f \in Families, NEW e, ResolveErr(f, e) PROVE Frame
  BY <1>5, Zenon DEF ResolveErr, Dialed, TypeOK
<1>6. ASSUME NEW f \in Families, Pulse(f) PROVE Frame
  BY <1>6 DEF Pulse, Dialed, TypeOK
<1>. QED
  BY <1>1, <1>2, <1>3, <1>4, <1>5, <1>6, Zenon
     DEF Next, Scheduler, EnterSelect, SelectWake, SelectTimer, LookupReturns, CloseFeed,
         PulseClosed, CancelRequest, DeadlineExpires, Tick, Finished, vars

(* A queue holds admitted positions of the family's answer, a candidate that *)
(* was dialed is one of them and has left the queue, and a family has no     *)
(* answer before its lookup returns.                                         *)
FeedInv ==
  /\ \A f \in Families : queue[f] \subseteq Admit(f, answer[f])
  /\ \A f \in Families : lookup[f] = "querying" => answer[f] = <<>>
  /\ \A c \in Dialed : c[2] \in Admit(c[1], answer[c[1]]) /\ c[2] \notin queue[c[1]]

(* A lookup without an answer admits nothing. *)
LEMMA AdmitNothing == ASSUME NEW f PROVE Admit(f, <<>>) = {}
BY DEF Admit

(* What is admitted depends on the answers and the network only. *)
LEMMA AdmitFrame ==
  ASSUME network' = network
  PROVE  \A f \in Families : answer'[f] = answer[f] => Admit(f, answer[f])' = Admit(f, answer[f])
BY DEF Admit, Eligible, NetworkAdmits

(* StartNext pops the head of one queue; the candidate is dialed unless the  *)
(* context is over.                                                          *)
LEMMA PopStep ==
  ASSUME TypeOK, StartNext
  PROVE  \E c \in Cand :
           /\ c[1] \in Families /\ c[2] \in queue[c[1]]
           /\ \A j \in queue[c[1]] : c[2] <= j
           /\ queue' = [queue EXCEPT ![c[1]] = @ \ {c[2]}]
           /\ \/ Dialed' = Dialed \cup {c} /\ ret' = ret
              \/ Dialed' = Dialed /\ ret' = "ctx"
           /\ pc = "loop"
           /\ UNCHANGED <<network, answer, lookup>>
<1>1. PICK i \in queue[PopFamily] :
        /\ \A j \in queue[PopFamily] : i <= j
        /\ queue' = [queue EXCEPT ![PopFamily] = @ \ {i}]
        /\ IF ctxErr = "nil"
           THEN Start(<<PopFamily, i>>)
           ELSE Return("ctx", ctxErr) /\ UNCHANGED <<returned, attemptVars, schedVars, clockVars>>
  BY Zenon DEF StartNext
<1> DEFINE c == <<PopFamily, i>>
<1>2. PopFamily \in Families
  BY SMTT(30) DEF PopFamily, NextFamily, Families
<1>3. c \in Cand /\ c[1] = PopFamily /\ c[2] = i
  BY <1>2 DEF Cand, TypeOK
<1>4. \/ Dialed' = Dialed \cup {c} /\ ret' = ret
      \/ Dialed' = Dialed /\ ret' = "ctx"
  <2>1. CASE ctxErr = "nil"
    <3>1. attempt' = [attempt EXCEPT ![c] = "dialing"] /\ ret' = ret
      BY <1>1, <2>1 DEF Start
    <3>2. Dialed' = Dialed \cup {c}
      BY <1>3, <3>1, Zenon DEF Dialed, TypeOK
    <3>. QED  BY <3>1, <3>2, ZenonT(60)
  <2>2. CASE ctxErr # "nil"
    BY <1>1, <2>2, Zenon DEF Return, Dialed
  <2>. QED  BY <2>1, <2>2, Zenon
<1>5. pc = "loop" /\ UNCHANGED <<network, answer, lookup>>
  BY DEF StartNext
<1>. QED
  BY <1>1, <1>2, <1>3, <1>4, <1>5, Zenon

(* A candidate is a pair of a family and a position. *)
LEMMA CandPair == \A c \in Cand : c[1] \in Families /\ c[2] \in 1..MaxAnswer /\ c = <<c[1], c[2]>>
BY SMTT(30) DEF Cand

(* Steps keep queues and dialed candidates among the admitted positions. *)
LEMMA NextFeed == TypeOK /\ CallInv /\ FeedInv /\ [Next]_vars => FeedInv'
<1> SUFFICES ASSUME TypeOK, CallInv, FeedInv, [Next]_vars PROVE FeedInv'
  BY ZenonT(60)
<1>1. ASSUME NEW f \in Families, NEW s \in Answers, ResolveOK(f, s) PROVE FeedInv'
  <2>1. /\ network' = network /\ Dialed' = Dialed
        /\ answer'[f] = s /\ queue'[f] = Admit(f, s) /\ lookup'[f] # "querying"
        /\ \A g \in Families \ {f} :
             answer'[g] = answer[g] /\ queue'[g] = queue[g] /\ lookup'[g] = lookup[g]
    BY <1>1, Zenon DEF ResolveOK, Dialed, TypeOK
  <2>2. Admit(f, answer[f])' = Admit(f, s)
    BY <2>1 DEF Admit, Eligible, NetworkAdmits
  <2>3. \A c \in Dialed : c \in Cand /\ c[1] \in Families \ {f}
    <3>1. answer[f] = <<>>
      BY <1>1, ZenonT(60) DEF FeedInv, ResolveOK
    <3>. QED
      BY <3>1, AdmitNothing, CandPair, Zenon DEF FeedInv, Dialed
  <2>. QED
    <3>1. \A g \in Families \ {f} : Admit(g, answer[g])' = Admit(g, answer[g])
      BY <2>1, AdmitFrame, Zenon
    <3>2. \A g \in Families : queue'[g] \subseteq Admit(g, answer[g])'
      BY <2>1, <2>2, <3>1, ZenonT(60) DEF FeedInv
    <3>3. \A g \in Families : lookup'[g] = "querying" => answer'[g] = <<>>
      BY <2>1, ZenonT(60) DEF FeedInv
    <3>4. \A c \in Dialed' : c[2] \in Admit(c[1], answer[c[1]])' /\ c[2] \notin queue'[c[1]]
      BY <2>1, <2>3, <3>1, ZenonT(60) DEF FeedInv
    <3>. QED BY <3>2, <3>3, <3>4, Zenon DEF FeedInv
<1>2. CASE StartNext
  <2>1. PICK c \in Cand :
          /\ c[1] \in Families /\ c[2] \in queue[c[1]]
          /\ queue' = [queue EXCEPT ![c[1]] = @ \ {c[2]}]
          /\ Dialed' \subseteq Dialed \cup {c}
          /\ UNCHANGED <<network, answer, lookup>>
    BY <1>2, PopStep, Zenon
  <2>2. \A f \in Families : queue'[f] \subseteq queue[f] /\ Admit(f, answer[f])' = Admit(f, answer[f])
    BY <2>1, AdmitFrame, Zenon DEF TypeOK
  <2>3. c[2] \notin queue'[c[1]] /\ c[2] \in Admit(c[1], answer[c[1]])
    BY <2>1, Zenon DEF TypeOK, FeedInv
  <2>4. \A d \in Dialed' : d \in Cand /\ d[1] \in Families
    BY CandPair, ZenonT(60) DEF Dialed
  <2>. QED
    <3>1. \A f \in Families : queue'[f] \subseteq Admit(f, answer[f])'
      <4>1. \A f \in Families : queue[f] \subseteq Admit(f, answer[f])
        BY Zenon DEF FeedInv
      <4>2. ASSUME NEW f \in Families PROVE queue'[f] \subseteq Admit(f, answer[f])'
        BY <2>2, <4>1, ZenonT(60)
      <4>. QED BY <4>2, Zenon
    <3>2. \A f \in Families : lookup'[f] = "querying" => answer'[f] = <<>>
      BY <2>1, ZenonT(60) DEF FeedInv
    <3>3. \A d \in Dialed' : d[2] \in Admit(d[1], answer[d[1]])' /\ d[2] \notin queue'[d[1]]
      <4>1. SUFFICES ASSUME NEW d \in Dialed'
                     PROVE  d[2] \in Admit(d[1], answer[d[1]])' /\ d[2] \notin queue'[d[1]]
        BY Zenon
      <4>2. CASE d = c
        BY <2>1, <2>2, <2>3, <4>2, Zenon
      <4>3. CASE d \in Dialed
        BY <2>2, <2>4, <4>3, ZenonT(60) DEF FeedInv
      <4>. QED BY <2>1, <4>2, <4>3, Zenon
    <3>. QED BY <3>1, <3>2, <3>3, Zenon DEF FeedInv
<1>3. CASE /\ UNCHANGED <<network, answer, queue>> /\ Dialed' = Dialed
           /\ \A f \in Families : lookup'[f] = "querying" => lookup[f] = "querying"
  <2>1. \A d \in Dialed : d \in Cand /\ d[1] \in Families
    BY CandPair, Zenon DEF Dialed
  <2>. QED
    BY <1>3, <2>1, AdmitFrame, Zenon DEF FeedInv
<1>. QED
  BY <1>1, <1>2, <1>3, FeedSteps, SMTT(30)

(* An admitted candidate is queued or was dialed, unless the race ended with *)
(* its context between the pop and the start.                                *)
Accounted ==
  \A c \in Cand :
    c[2] \in Admit(c[1], answer[c[1]]) => c[2] \in queue[c[1]] \/ c \in Dialed \/ ret = "ctx"

(* Steps keep every admitted candidate queued or dialed, short of the end of the context. *)
LEMMA NextAccounted == TypeOK /\ CallInv /\ Accounted /\ [Next]_vars => Accounted'
<1> SUFFICES ASSUME TypeOK, CallInv, Accounted, [Next]_vars,
                    NEW c \in Cand, (c[2] \in Admit(c[1], answer[c[1]]))'
             PROVE  (c[2] \in queue[c[1]] \/ c \in Dialed \/ ret = "ctx")'
  BY DEF Accounted
<1> c[1] \in Families
  BY CandPair
<1>1. ASSUME NEW f \in Families, NEW s \in Answers, ResolveOK(f, s)
      PROVE (c[2] \in queue[c[1]] \/ c \in Dialed \/ ret = "ctx")'
  <2>1. network' = network /\ Dialed' = Dialed /\ ret' = ret
    BY <1>1, Zenon DEF ResolveOK, Dialed
  <2>2. CASE c[1] = f
    <3>1. answer'[f] = s /\ queue'[f] = Admit(f, s)
      BY <1>1, Zenon DEF ResolveOK, TypeOK
    <3>2. Admit(f, answer[f])' = Admit(f, s)
      BY <2>1, <3>1, Zenon DEF Admit, Eligible, NetworkAdmits
    <3>. QED
      BY <2>2, <3>1, <3>2, ZenonT(60)
  <2>3. CASE c[1] # f
    BY <1>1, <2>1, <2>3, AdmitFrame, ZenonT(60) DEF ResolveOK, TypeOK, Accounted
  <2>. QED  BY <2>2, <2>3, ZenonT(60)
<1>2. CASE StartNext
  <2>1. PICK d \in Cand :
           /\ d[1] \in Families /\ d[2] \in queue[d[1]]
           /\ queue' = [queue EXCEPT ![d[1]] = @ \ {d[2]}]
           /\ \/ Dialed' = Dialed \cup {d} /\ ret' = ret
              \/ Dialed' = Dialed /\ ret' = "ctx"
           /\ pc = "loop"
           /\ UNCHANGED <<network, answer, lookup>>
    BY <1>2, PopStep, Zenon
  <2>2. c[2] \in queue[c[1]] \/ c \in Dialed
    <3>1. ret # "ctx"
      BY <2>1, Zenon DEF CallInv
    <3>. QED
      BY <2>1, <3>1, AdmitFrame, ZenonT(60) DEF Accounted
  <2>3. c = d \/ c[1] # d[1] \/ c[2] # d[2]
    BY CandPair, ZenonT(60)
  <2>. QED
    BY <2>1, <2>2, <2>3, Zenon DEF TypeOK
<1>3. CASE /\ UNCHANGED <<network, answer, queue>> /\ Dialed' = Dialed
           /\ ret = "ctx" => ret' = "ctx"
  BY <1>3, AdmitFrame, Zenon DEF Accounted
<1>. QED
  BY <1>1, <1>2, <1>3, FeedSteps, ZenonT(60)

-----------------------------------------------------------------------------
(* What is dialed, in which order, and how far apart. *)

FeedSafe == TypeOK /\ CallInv /\ FeedInv /\ Accounted

(* The invariants of the feed hold initially. *)
LEMMA InitFeedSafe == Init => FeedSafe
<1> SUFFICES ASSUME Init PROVE FeedSafe
  OBVIOUS
<1>1. \A f \in Families : answer[f] = <<>> /\ queue[f] = {}
  BY SMTT(30) DEF Init
<1>2. Dialed = {}
  BY SMTT(30) DEF Init, Dialed
<1>3. CallInv
  BY SMTT(30) DEF Init, CallInv
<1>4. FeedInv
  BY <1>1, <1>2, SMTT(30) DEF FeedInv
<1>5. Accounted
  BY <1>1, CandPair, AdmitNothing DEF Accounted
<1>. QED
  BY <1>3, <1>4, <1>5, InitType, SMTT(30) DEF FeedSafe

(* The invariants of the feed hold in every behaviour. *)
LEMMA FeedSafety == Spec => []FeedSafe
<1>1. FeedSafe /\ [Next]_vars => FeedSafe'
  BY NextType, NextCall, NextFeed, NextAccounted, SMTT(30) DEF FeedSafe
<1>. QED
  BY <1>1, InitFeedSafe, PTL DEF Spec

(* For every ACL, network and answer: the race dials approved addresses of   *)
(* the right family only, and none of them twice.                            *)
THEOREM ApprovedOnly == Spec => []OnlyApprovedDialed
<1>1. FeedSafe => OnlyApprovedDialed
  <2> SUFFICES ASSUME FeedSafe PROVE OnlyApprovedDialed
    BY SMTT(30)
  <2>1. \A c \in Dialed : /\ c \in Cand /\ c[1] \in Families /\ c[2] \in 1..MaxAnswer
                          /\ c = <<c[1], c[2]>>
                          /\ c[2] \in Admit(c[1], answer[c[1]])
    BY CandPair, SMTT(30) DEF FeedSafe, FeedInv, Dialed
  <2>2. \A c \in Dialed : c[2] \in DOMAIN answer[c[1]] /\ Eligible(c[1], AddrOf(c))
    BY <2>1 DEF Admit, AddrOf
  <2>3. ASSUME NEW c \in Dialed, NEW d \in Dialed, AddrOf(c) = AddrOf(d) PROVE c = d
    <3>0. \A e \in Dialed : FamilyOf(AddrOf(e)) = e[1]
      BY <2>2, Zenon DEF Eligible
    <3>1. c[1] = d[1]
      BY <2>3, <3>0, SMTT(30)
    <3>2. ~(c[2] < d[2]) /\ ~(d[2] < c[2])
      BY <2>1, <2>3, <3>1 DEF Admit, AddrOf
    <3>. QED
      BY <2>1, <3>1, <3>2
  <2>. QED
    BY <2>2, <2>3 DEF OnlyApprovedDialed
<1>. QED
  BY <1>1, FeedSafety, PTL

(* Within a family, starts follow the resolver's order: popLocked takes the  *)
(* head, and what was admitted before it has been dialed.                    *)
THEOREM OrderPreserved == Spec => []ResolverOrder
<1>1. Init => ResolverOrder
  BY DEF Init, ResolverOrder, Dialed
<1>2. FeedSafe /\ FeedSafe' /\ ResolverOrder /\ [Next]_vars => ResolverOrder'
  <2> SUFFICES ASSUME FeedSafe, FeedSafe', ResolverOrder, [Next]_vars,
                      NEW c \in Cand, NEW d \in Cand,
                      c[1] = d[1], c[2] < d[2], d \in Dialed',
                      (c[2] \in Admit(c[1], answer[c[1]]))'
               PROVE  c \in Dialed'
    BY SMTT(30) DEF ResolverOrder
  <2> c[1] \in Families /\ c[2] \in 1..MaxAnswer /\ d[2] \in 1..MaxAnswer
    BY CandPair
  <2>1. ASSUME NEW f \in Families, NEW s \in Answers, ResolveOK(f, s) PROVE c \in Dialed'
    <3>1. network' = network /\ Dialed' = Dialed /\ answer' = [answer EXCEPT ![f] = s]
      BY <2>1, Zenon DEF ResolveOK, Dialed
    <3>2. d[1] # f
      BY <2>1, <3>1, AdmitNothing, Zenon DEF FeedSafe, FeedInv, ResolveOK
    <3>3. answer'[c[1]] = answer[c[1]]
      <4>1. answer \in [Families -> Answers \cup {<<>>}]
        BY Zenon DEF FeedSafe, TypeOK
      <4>2. c[1] # f
        BY <3>2, Zenon
      <4>. QED  BY <3>1, <4>1, <4>2, ZenonT(60)
    <3>. QED
      BY <3>1, <3>3, AdmitFrame, Zenon DEF ResolverOrder
  <2>2. CASE StartNext
    <3>1. PICK e \in Cand :
           /\ e[1] \in Families /\ e[2] \in queue[e[1]]
           /\ \A j \in queue[e[1]] : e[2] <= j
           /\ \/ Dialed' = Dialed \cup {e}
              \/ Dialed' = Dialed
           /\ pc = "loop"
           /\ UNCHANGED <<network, answer, lookup>>
      BY <2>2, PopStep, Zenon DEF FeedSafe
    <3>2. c[2] \in Admit(c[1], answer[c[1]])
      BY <3>1, AdmitFrame, Zenon
    <3>3. CASE d \in Dialed
      BY <3>1, <3>2, <3>3, ZenonT(60) DEF ResolverOrder
    <3>4. CASE d = e
      <4>1. c[2] \notin queue[c[1]]
        <5>1. c[1] = e[1] /\ c[2] < e[2]
          BY <3>4, Zenon
        <5>2. c[2] \in queue[c[1]] => e[2] <= c[2]
          BY <3>1, <5>1, Zenon
        <5>3. c[2] \in Nat /\ e[2] \in Nat
          BY <3>4, SMTT(30)
        <5>4. \A m, n \in Nat : m < n => ~(n <= m)
          OBVIOUS
        <5>. QED  BY <5>1, <5>2, <5>3, <5>4, Zenon
      <4>. QED
        BY <3>1, <3>2, <4>1, Zenon DEF FeedSafe, Accounted, CallInv
    <3>. QED  BY <3>1, <3>3, <3>4, ZenonT(60)
  <2>3. CASE UNCHANGED <<network, answer, queue>> /\ Dialed' = Dialed
    BY <2>3, AdmitFrame, ZenonT(60) DEF ResolverOrder
  <2>. QED
    BY <2>1, <2>2, <2>3, FeedSteps, ZenonT(60) DEF FeedSafe
<1>. QED
  BY <1>1, <1>2, FeedSafety, PTL DEF Spec

(* Once something was started the window is tcpFallbackDelay, or             *)
(* tcpMinimumDelay after a failure was received.                             *)
WindowInv ==
  started > 0 => window = FallbackDelay \/ (window = MinimumDelay /\ failedSince = TRUE)

(* The window is short only after a failure since the last start. *)
LEMMA NextWindow == TypeOK /\ WindowInv /\ [Next]_vars => WindowInv'
<1> SUFFICES ASSUME TypeOK, WindowInv, [Next]_vars PROVE WindowInv'
  OBVIOUS
<1>1. CASE StartNext
  BY <1>1, ZenonT(60) DEF StartNext, Start, WindowInv
<1>2. ASSUME NEW c \in Cand, ReceiveFailure(c) PROVE WindowInv'
  BY <1>2, DelayAssumption, Zenon DEF ReceiveFailure, WindowInv, TypeOK
<1>3. CASE UNCHANGED <<started, window, failedSince>>
  BY <1>3 DEF WindowInv
<1>. QED
  BY <1>1, <1>2, <1>3, ZenonT(60) DEF Next, Scheduler, LookupReturns, ResolveOK, ResolveErr, Pulse, CloseFeed,
     PulseClosed, DialConnects, DialFails, Abandon, GiveUp, EnterSelect, SelectDone, SelectWake,
     SelectTimer, ReceiveConn, CancelRequest, DeadlineExpires, Tick, Finished, vars

(* Every start but the first keeps its distance from the previous one, for   *)
(* all values of the two delays and however often the feed wakes the         *)
(* scheduler.                                                                *)
THEOREM Spacing == Spec => StartSpacing
<1> DEFINE Spaced == started' # started /\ started > 0 =>
                       /\ sinceStart >= MinimumDelay
                       /\ sinceStart >= FallbackDelay \/ failedSince
<1>1. Init => WindowInv
  BY DEF Init, WindowInv
<1>2. TypeOK /\ WindowInv /\ [Next]_vars => [Spaced]_vars
  <2> SUFFICES ASSUME TypeOK, WindowInv, [Next]_vars, started' # started, started > 0
               PROVE  /\ sinceStart >= MinimumDelay
                      /\ sinceStart >= FallbackDelay \/ failedSince
    BY Zenon
  <2>1. StartNext
    BY Zenon DEF Next, Scheduler, LookupReturns, ResolveOK, ResolveErr, Pulse, CloseFeed,
     PulseClosed, DialConnects, DialFails, Abandon, GiveUp, EnterSelect, SelectDone, SelectWake,
     SelectTimer, ReceiveConn, ReceiveFailure, CancelRequest, DeadlineExpires, Tick, Finished, vars
  <2>2. sinceStart >= window
    BY <2>1, Zenon DEF StartNext, Due
  <2>3. CASE window = FallbackDelay
    BY <2>2, <2>3, DelayAssumption, SMTT(30) DEF TypeOK
  <2>4. CASE window = MinimumDelay /\ failedSince
    BY <2>2, <2>4, ZenonT(60)
  <2>. QED  BY <2>3, <2>4 DEF WindowInv
<1>. QED
  BY <1>1, <1>2, NextWindow, TypeCorrect, PTL DEF Spec, StartSpacing

-----------------------------------------------------------------------------
(* Ownership of connections, and giving up. *)

(* StartNext starts an idle attempt, or ends the call with its context.      *)
LEMMA StartStep ==
  ASSUME FeedSafe, StartNext
  PROVE  \/ \E c \in Cand :
              /\ attempt[c] = "idle" /\ attempt' = [attempt EXCEPT ![c] = "dialing"]
              /\ pending' = pending + 1
              /\ UNCHANGED <<attemptErr, open, returned, ret, pc>>
         \/ /\ pc' = "done" /\ ret' = "ctx"
            /\ UNCHANGED <<attempt, attemptErr, open, returned, pending>>
<1>1. PICK i \in queue[PopFamily] :
        IF ctxErr = "nil"
        THEN Start(<<PopFamily, i>>)
        ELSE Return("ctx", ctxErr) /\ UNCHANGED <<returned, attemptVars, schedVars, clockVars>>
  BY Zenon DEF StartNext
<1>2. CASE ctxErr = "nil"
  <2>1. PopFamily \in Families
    BY DEF PopFamily, NextFamily, Families
  <2>2. <<PopFamily, i>> \in Cand
    BY <2>1, ZenonT(60) DEF Cand, FeedSafe, TypeOK
  <2>3. attempt[<<PopFamily, i>>] = "idle"
    <3>1. \A c \in Dialed : c[2] \notin queue[c[1]]
      BY Zenon DEF FeedSafe, FeedInv
    <3>2. <<PopFamily, i>>[1] = PopFamily /\ <<PopFamily, i>>[2] = i
      OBVIOUS
    <3>3. <<PopFamily, i>> \notin Dialed
      BY <3>1, <3>2, ZenonT(60)
    <3>. QED BY <2>2, <3>3, Zenon DEF Dialed
  <2>. QED
    BY <1>1, <1>2, <2>2, <2>3, ZenonT(60) DEF Start
<1>3. CASE ctxErr # "nil"
  BY <1>1, <1>3, Zenon DEF Return
<1>. QED  BY <1>2, <1>3, SMTT(30)

(* Attempts that offer a connection. *)
Offered == {c \in Cand : attempt[c] = "handoff" /\ attemptErr[c] = "nil"}

(* SingleOwner; and the connection the caller received has left its          *)
(* attempt's handoff, and an offered connection is open.                     *)
OwnerInv ==
  /\ open \subseteq returned \cup Offered
  /\ Offered \subseteq open /\ returned \subseteq open
  /\ \A c, d \in returned : c = d
  /\ (ret = "conn") <=> (returned # {})
  /\ \A c \in returned : attempt[c] = "exited"

(* A step of one attempt changes nothing about what the others offer. *)
LEMMA OfferedFrame ==
  ASSUME TypeOK, NEW c \in Cand, NEW l, attempt' = [attempt EXCEPT ![c] = l],
         attemptErr' = attemptErr \/ \E e : attemptErr' = [attemptErr EXCEPT ![c] = e]
  PROVE  /\ Offered' = IF l = "handoff" /\ attemptErr'[c] = "nil"
                        THEN Offered \cup {c} ELSE Offered \ {c}
         /\ attempt'[c] = l
         /\ \A d \in Cand : d # c => attempt'[d] = attempt[d]
<1>1. attempt \in [Cand -> {"idle", "dialing", "handoff", "exited"}]
  BY ZenonT(60) DEF TypeOK
<1>2. attemptErr \in [Cand -> Errors \cup {"nil"}]
  BY DEF TypeOK
<1>3. attempt'[c] = l /\ \A d \in Cand : d # c => attempt'[d] = attempt[d]
  BY <1>1, Zenon
<1>4. \A d \in Cand : d # c => attemptErr'[d] = attemptErr[d]
  BY <1>2, Zenon
<1>5. CASE l = "handoff" /\ attemptErr'[c] = "nil"
  <2>1. Offered' = Offered \cup {c}
    BY <1>3, <1>4, <1>5, Zenon DEF Offered
  <2>. QED  BY <1>3, <1>5, <2>1, Zenon
<1>6. CASE ~(l = "handoff" /\ attemptErr'[c] = "nil")
  <2>1. Offered' = Offered \ {c}
    BY <1>3, <1>4, <1>6, Zenon DEF Offered
  <2>. QED  BY <1>3, <1>6, <2>1, Zenon
<1>. QED  BY <1>5, <1>6, ZenonT(60)

(* Steps preserve the ownership of connections. *)
LEMMA NextOwner == FeedSafe /\ OwnerInv /\ [Next]_vars => OwnerInv'
<1> SUFFICES ASSUME FeedSafe, OwnerInv, [Next]_vars PROVE OwnerInv'
  OBVIOUS
<1>0. TypeOK /\ CallInv /\ returned \in SUBSET Cand
  BY Zenon DEF FeedSafe, TypeOK
<1>a. pc # "done" => returned = {}
  BY <1>0, Zenon DEF CallInv, OwnerInv
<1>b. ASSUME UNCHANGED <<attempt, attemptErr>> PROVE Offered' = Offered
  BY <1>b, Zenon DEF Offered
<1>1. CASE StartNext
  <2>1. ASSUME NEW c \in Cand, attempt[c] = "idle", attempt' = [attempt EXCEPT ![c] = "dialing"],
               UNCHANGED <<attemptErr, open, returned, ret>>
        PROVE  OwnerInv'
    <3>1. Offered' = Offered \ {c}
      BY <1>0, <2>1, OfferedFrame, Zenon
    <3>3. c \notin Offered
      BY <2>1, Zenon DEF Offered
    <3>2. returned = {}
      BY <1>1, <1>a, Zenon DEF StartNext
    <3>. QED  BY <2>1, <3>1, <3>3, <3>2, SMTT(30) DEF OwnerInv
  <2>2. CASE ret' = "ctx" /\ UNCHANGED <<attempt, attemptErr, open, returned>>
    BY <1>1, <1>a, <1>b, <2>2, Zenon DEF StartNext, OwnerInv
  <2>. QED  BY <1>1, <2>1, <2>2, StartStep, Zenon
<1>2. CASE GiveUp \/ SelectDone
  <2>1. /\ pc # "done" /\ ret' # "conn"
        /\ UNCHANGED <<attempt, attemptErr, open, returned>>
    BY <1>2 DEF GiveUp, SelectDone, Return, FinalError, attemptVars
  <2>. QED  BY <1>a, <1>b, <2>1, ZenonT(60) DEF OwnerInv
<1>3. ASSUME NEW c \in Cand, ReceiveConn(c) PROVE OwnerInv'
  <2>1. /\ returned = {} /\ attempt[c] = "handoff" /\ attemptErr[c] = "nil"
        /\ attempt' = [attempt EXCEPT ![c] = "exited"] /\ attemptErr' = attemptErr
    BY <1>3, <1>a, Zenon DEF ReceiveConn
  <2>2. Offered' = Offered \ {c} /\ attempt'[c] = "exited"
    <3>1. /\ Offered' = IF "exited" = "handoff" /\ attemptErr'[c] = "nil"
                        THEN Offered \cup {c} ELSE Offered \ {c}
          /\ attempt'[c] = "exited"
      BY <1>0, <2>1, OfferedFrame, ZenonT(60)
    <3>. QED  BY <3>1
  <2>a. c \in Offered
    BY <2>1 DEF Offered
  <2>3. \/ returned' = {c} /\ ret' = "conn" /\ open' = open
        \/ returned' = {} /\ ret' = "ctx" /\ open' = open \ {c}
    BY <1>3, <2>1, Zenon DEF ReceiveConn, Return
  <2>. QED  BY <2>1, <2>2, <2>a, <2>3, Zenon DEF OwnerInv
<1>4. ASSUME NEW c \in Cand, ReceiveFailure(c) PROVE OwnerInv'
  <2>1. /\ returned = {} /\ attemptErr[c] # "nil"
        /\ attempt' = [attempt EXCEPT ![c] = "exited"]
        /\ UNCHANGED <<attemptErr, open, returned, ret>>
    BY <1>4, <1>a, ZenonT(60) DEF ReceiveFailure
  <2>2. Offered' = Offered \ {c}
    <3>1. /\ Offered' = IF "exited" = "handoff" /\ attemptErr'[c] = "nil"
                        THEN Offered \cup {c} ELSE Offered \ {c}
          /\ attempt'[c] = "exited"
      BY <1>0, <2>1, OfferedFrame, ZenonT(60)
    <3>. QED  BY <3>1
  <2>3. c \notin Offered
    BY <2>1 DEF Offered
  <2>. QED  BY <2>1, <2>2, <2>3, ZenonT(60) DEF OwnerInv
<1>5. ASSUME NEW c \in Cand, DialConnects(c) \/ DialFails(c) PROVE OwnerInv'
  <2>1. /\ attempt[c] = "dialing" /\ attempt' = [attempt EXCEPT ![c] = "handoff"]
        /\ UNCHANGED <<returned, ret>>
    BY <1>5, ZenonT(60) DEF DialConnects, DialFails, callVars
  <2>2. PICK e : /\ attemptErr' = [attemptErr EXCEPT ![c] = e]
                 /\ open' = IF e = "nil" THEN open \cup {c} ELSE open
    BY <1>5, FailureAssumption, Zenon DEF DialConnects, DialFails
  <2>3. attemptErr'[c] = e
    BY <1>0, <2>2, Zenon DEF TypeOK
  <2>4. Offered' = IF e = "nil" THEN Offered \cup {c} ELSE Offered
    <3>1. Offered' = IF "handoff" = "handoff" /\ attemptErr'[c] = "nil"
                     THEN Offered \cup {c} ELSE Offered \ {c}
      BY <1>0, <2>1, <2>2, OfferedFrame, Zenon
    <3>2. Offered \ {c} = Offered
      BY <2>1, Zenon DEF Offered
    <3>. QED  BY <2>3, <3>1, <3>2, SMTT(30)
  <2>5. c \notin returned /\ \A d \in returned : attempt'[d] = attempt[d]
    BY <1>0, <2>1, <2>2, OfferedFrame, ZenonT(60) DEF OwnerInv
  <2>. QED  BY <2>1, <2>2, <2>4, <2>5, Zenon DEF OwnerInv
<1>6. ASSUME NEW c \in Cand, Abandon(c) PROVE OwnerInv'
  <2>1. /\ attempt[c] = "handoff" /\ attempt' = [attempt EXCEPT ![c] = "exited"]
        /\ open' = open \ {c} /\ UNCHANGED <<attemptErr, returned, ret>>
    BY <1>6 DEF Abandon, CloseLate, callVars
  <2>2. Offered' = Offered \ {c}
    <3>1. /\ Offered' = IF "exited" = "handoff" /\ attemptErr'[c] = "nil"
                        THEN Offered \cup {c} ELSE Offered \ {c}
          /\ attempt'[c] = "exited"
      BY <1>0, <2>1, OfferedFrame, Zenon
    <3>. QED  BY <3>1
  <2>3. c \notin returned /\ \A d \in returned : attempt'[d] = attempt[d]
    BY <1>0, <2>1, OfferedFrame, ZenonT(60) DEF OwnerInv
  <2>. QED  BY <2>1, <2>2, <2>3, Zenon DEF OwnerInv
<1>7. CASE UNCHANGED <<attempt, attemptErr, open, returned, ret>>
  BY <1>7, <1>b DEF OwnerInv
<1>. QED
  BY <1>1, <1>2, <1>3, <1>4, <1>5, <1>6, <1>7, ZenonT(60)
     DEF Next, Scheduler, EnterSelect, SelectWake, SelectTimer, LookupReturns, ResolveOK,
         ResolveErr, Pulse, CloseFeed, PulseClosed, CancelRequest, DeadlineExpires, Tick,
         Finished, vars

(* One owner for every connection, in every interleaving of dials, results,  *)
(* cancellation and deadline.                                                *)
THEOREM Ownership == Spec => []SingleOwner
<1>1. Init => OwnerInv
  BY ZenonT(60) DEF Init, OwnerInv, Offered
<1>2. OwnerInv => SingleOwner
  BY DEF OwnerInv, SingleOwner, Offered
<1>. QED
  BY <1>1, <1>2, NextOwner, FeedSafety, PTL DEF Spec

(* Attempts the scheduler has not heard a failure of. *)
Unreceived ==
  {c \in Cand : attempt[c] \in {"dialing", "handoff"}
                \/ (attempt[c] = "exited" /\ attemptErr[c] = "nil")}

(* pending counts at least the unreceived attempts while the scheduler runs  *)
(* (an attempt that abandons its handoff stays counted), and the feed is     *)
(* closed only after both lookups.                                           *)
PendingInv ==
  /\ pc # "done" => pending >= Cardinality(Unreceived)
  /\ closer # "waiting" => \A f \in Families : lookup[f] = "done"

(* There are finitely many candidates. *)
LEMMA CandFinite == IsFiniteSet(Cand)
<1>1. IsFiniteSet(1..MaxAnswer)
  BY FS_Interval, AnswerAssumption
<1>2. IsFiniteSet({"ip4"} \cup {"ip6"})
  BY FS_Singleton, FS_AddElement, Zenon
<1>3. Families = {"ip4"} \cup {"ip6"}
  BY DEF Families
<1>. QED
  BY <1>1, <1>2, <1>3, FS_Product, Zenon DEF Cand

(* So the unreceived attempts can be counted. *)
LEMMA UnreceivedFinite == IsFiniteSet(Unreceived) /\ Cardinality(Unreceived) \in Nat
<1>1. Unreceived \in SUBSET Cand
  BY Zenon DEF Unreceived
<1>. QED
  BY <1>1, CandFinite, FS_Subset, FS_CardinalityType, ZenonT(60)

(* Steps keep pending at least the number of unreceived attempts. *)
LEMMA NextPending == FeedSafe /\ PendingInv /\ [Next]_vars => PendingInv'
<1> SUFFICES ASSUME FeedSafe, PendingInv, [Next]_vars PROVE PendingInv'
  OBVIOUS
<1>0. TypeOK /\ CallInv
  BY Zenon DEF FeedSafe
<1>a. pending \in Int
  BY <1>0, ZenonT(60) DEF TypeOK
<1> DEFINE Counted == pc # "done" => pending >= Cardinality(Unreceived)
           ClosedLast == closer # "waiting" => \A f \in Families : lookup[f] = "done"
<1>1. ClosedLast'
  <2>1. CASE UNCHANGED <<lookup, closer>>
    BY <2>1 DEF PendingInv
  <2>2. ASSUME NEW f \in Families, LookupReturns(f) \/ Pulse(f) PROVE ClosedLast'
    BY <1>0, <2>2, Zenon DEF LookupReturns, ResolveOK, ResolveErr, Pulse, PendingInv, TypeOK
  <2>3. CASE CloseFeed \/ PulseClosed
    BY <2>3, Zenon DEF CloseFeed, PulseClosed, PendingInv
  <2>. QED
    BY <2>1, <2>2, <2>3, ZenonT(60) DEF Next, Scheduler, StartNext, GiveUp, EnterSelect, SelectDone, SelectWake,
       SelectTimer, ReceiveConn, ReceiveFailure, DialConnects, DialFails, Abandon, CancelRequest,
       DeadlineExpires, Tick, Finished, vars
<1>2. ASSUME Unreceived' \in SUBSET Unreceived, pending' = pending, pc' = "done" \/ pc # "done"
      PROVE  Counted'
  <2>1. Cardinality(Unreceived') <= Cardinality(Unreceived) /\ Cardinality(Unreceived') \in Nat
    BY <1>2, UnreceivedFinite, FS_Subset, FS_CardinalityType, Zenon
  <2>. QED
    BY <1>a, <1>2, <2>1, UnreceivedFinite, SMTT(30) DEF PendingInv
<1>3. ASSUME pc' = "done" PROVE Counted'
  BY <1>3, Zenon
<1>4. ASSUME UNCHANGED <<attempt, attemptErr, pending>>, pc' = "done" \/ pc # "done"
      PROVE  Counted'
  <2>1. Unreceived' = Unreceived
    BY <1>4, Zenon DEF Unreceived
  <2>. QED
    BY <1>2, <1>4, <2>1, Zenon
<1>5. ASSUME StartNext PROVE Counted'
  <2>1. ASSUME NEW c \in Cand,
               attempt[c] = "idle" /\ attempt' = [attempt EXCEPT ![c] = "dialing"],
               pending' = pending + 1, UNCHANGED <<attemptErr, pc>>
        PROVE  Counted'
    <3>0. /\ attempt'[c] = "dialing" /\ attemptErr' = attemptErr
          /\ \A d \in Cand \ {c} : attempt'[d] = attempt[d]
      BY <1>0, <2>1, ZenonT(60) DEF TypeOK
    <3>1. Unreceived' = Unreceived \cup {c} /\ c \notin Unreceived
      BY <2>1, <3>0, Zenon DEF Unreceived
    <3>2. Cardinality(Unreceived') = Cardinality(Unreceived) + 1
      BY <3>1, UnreceivedFinite, FS_AddElement, ZenonT(60)
    <3>. QED
      BY <1>a, <2>1, <3>2, UnreceivedFinite, SMTT(30) DEF PendingInv
  <2>. QED  BY <1>3, <1>5, <2>1, StartStep, Zenon
<1>6. ASSUME NEW c \in Cand, ReceiveFailure(c) PROVE Counted'
  <2>0. /\ attempt[c] = "handoff" /\ attempt'[c] = "exited" /\ attemptErr[c] # "nil"
        /\ attemptErr' = attemptErr
        /\ \A d \in Cand \ {c} : attempt'[d] = attempt[d]
    BY <1>0, <1>6, ZenonT(60) DEF ReceiveFailure, TypeOK
  <2>1. Unreceived' = Unreceived \ {c} /\ c \in Unreceived
    BY <2>0 DEF Unreceived
  <2>2. Cardinality(Unreceived') = Cardinality(Unreceived) - 1
    BY <2>1, UnreceivedFinite, FS_RemoveElement, ZenonT(60)
  <2>3. pc # "done" /\ pending' = pending - 1
    BY <1>6 DEF ReceiveFailure
  <2>. QED
    BY <1>a, <2>2, <2>3, UnreceivedFinite, SMTT(30) DEF PendingInv
<1>7. ASSUME NEW c \in Cand, DialConnects(c) \/ DialFails(c) \/ Abandon(c) PROVE Counted'
  <2>1. Unreceived' \in SUBSET Unreceived
    <3>1. /\ attempt[c] \in {"dialing", "handoff"}
          /\ \A d \in Cand \ {c} : attempt'[d] = attempt[d] /\ attemptErr'[d] = attemptErr[d]
      BY <1>0, <1>7, Zenon DEF DialConnects, DialFails, Abandon, TypeOK
    <3>. QED
      BY <3>1, Zenon DEF Unreceived
  <2>2. UNCHANGED <<pending, pc>>
    BY <1>7, ZenonT(60) DEF DialConnects, DialFails, Abandon
  <2>. QED  BY <1>2, <1>3, <2>1, <2>2, ZenonT(60)
<1>8. Counted'
  BY <1>3, <1>4, <1>5, <1>6, <1>7, ZenonT(60)
     DEF Next, Scheduler, GiveUp, EnterSelect, SelectDone, SelectWake, SelectTimer, ReceiveConn,
         Return, LookupReturns, ResolveOK, ResolveErr, Pulse, CloseFeed, PulseClosed, CancelRequest,
         DeadlineExpires, Tick, Finished, vars
<1>. QED
  BY <1>1, <1>8, SMTT(30) DEF PendingInv

(* At first there is nothing to count. *)
LEMMA InitPending == Init => PendingInv
<1> SUFFICES ASSUME Init PROVE PendingInv
  OBVIOUS
<1>1. Unreceived = {}
  BY Zenon DEF Init, Unreceived
<1>2. Cardinality(Unreceived) = 0
  BY <1>1, FS_EmptySet
<1>. QED
  BY <1>2, SMTT(30) DEF Init, PendingInv

(* So pending always covers the unreceived attempts. *)
LEMMA PendingSafety == Spec => []PendingInv
  BY InitPending, NextPending, FeedSafety, PTL DEF Spec

(* A nonempty set of natural numbers has a least element. *)
LEMMA LeastElement ==
  ASSUME NEW T \in SUBSET Nat, T # {}
  PROVE  \E m \in T : \A n \in T : m <= n
<1> DEFINE Less == OpToRel(<, Nat)
<1>1. PICK m \in T : \A n \in T : <<n, m>> \notin Less
  BY WFMin, NatLessThanWellFounded, Zenon
<1>2. \A n \in T : ~(n < m)
  BY <1>1, Zenon DEF OpToRel
<1>. QED
  BY <1>2

(* Whatever the interleaving, an error other than the context's means every  *)
(* approved address of both families was dialed and failed.                  *)
THEOREM Exhaustion == Spec => []GivesUpExhausted
<1>1. Init => GivesUpExhausted
  BY ZenonT(60) DEF Init, GivesUpExhausted
<1>2. FeedSafe /\ PendingInv /\ GivesUpExhausted /\ [Next]_vars => GivesUpExhausted'
  <2> SUFFICES ASSUME FeedSafe, PendingInv, GivesUpExhausted, [Next]_vars,
                      ret' \in {"dial", "lookup", "denied"}
               PROVE  GivesUpExhausted'
    BY Zenon DEF GivesUpExhausted
  <2>0. TypeOK /\ CallInv
    BY DEF FeedSafe
  <2>1. CASE GiveUp
    <3>1. /\ Exhausted /\ pc = "loop" /\ ret = "pending"
          /\ UNCHANGED <<network, lookup, answer, attempt, attemptErr>>
      BY <2>0, <2>1, Zenon DEF GiveUp, CallInv
    <3>2. \A c \in Dialed : attempt[c] = "exited" /\ attemptErr[c] # "nil"
      <4>1. Cardinality(Unreceived) = 0
        <5>1. pending = 0 /\ pending >= Cardinality(Unreceived)
          BY <3>1 DEF Exhausted, PendingInv
        <5>. QED  BY <5>1, UnreceivedFinite, SMTT(30)
      <4>2. Unreceived = {}
        BY <4>1, UnreceivedFinite, FS_EmptySet, Zenon
      <4>. QED
        BY <2>0, <4>2, Zenon DEF Unreceived, Dialed, TypeOK
    <3>3. ASSUME NEW f \in Families, NEW i \in DOMAIN answer[f], Eligible(f, answer[f][i])
          PROVE  \E c \in Dialed : AddrOf(c) = answer[f][i]
      <4>1. answer[f] \in Answers \cup {<<>>}
        BY <2>0, Zenon DEF TypeOK
      <4>2. answer[f] \in Seq(Addr) /\ DOMAIN answer[f] \subseteq 1..MaxAnswer
        BY <4>1, AnswerDomain, ZenonT(60)
      <4> DEFINE Same == {j \in DOMAIN answer[f] : answer[f][j] = answer[f][i]}
      <4>3. Same \in SUBSET Nat /\ Same # {}
        <5>1. i \in Same
          BY SMTT(30)
        <5>2. 1..MaxAnswer \in SUBSET Nat
          BY AnswerAssumption
        <5>. QED  BY <4>2, <5>1, <5>2, ZenonT(60)
      <4>4. PICK j \in Same : \A k \in Same : j <= k
        BY <4>3, LeastElement, Zenon
      <4>5. \A k \in 1..(j - 1) : k \in DOMAIN answer[f] /\ k \notin Same
        <5> DEFINE n == Len(answer[f])
        <5>1. DOMAIN answer[f] = 1..n /\ n \in Nat
          BY <4>2
        <5> HIDE DEF n
        <5>2. j \in 1..n
          BY <5>1, ZenonT(60)
        <5>3. ASSUME NEW k \in 1..(j - 1) PROVE k \in 1..n /\ ~(j <= k)
          BY <5>1, <5>2, SMTT(30)
        <5>. QED  BY <4>4, <5>1, <5>3, ZenonT(60)
      <4>6. j \in Admit(f, answer[f]) /\ j \in 1..MaxAnswer
        BY <3>3, <4>2, <4>4, <4>5, ZenonT(60) DEF Admit
      <4> DEFINE c == <<f, j>>
      <4>7. c \in Cand /\ c[1] = f /\ c[2] = j
        BY <4>6, Zenon DEF Cand
      <4>8. c \in Dialed
        BY <3>1, <4>6, <4>7, ZenonT(60) DEF FeedSafe, Accounted, Exhausted, FeedEmpty
      <4>. QED
        BY <4>4, <4>7, <4>8, Zenon DEF AddrOf
    <3>4. \A f \in Families : lookup[f] = "done"
      BY <3>1, SMTT(30) DEF Exhausted, PendingInv
    <3>. QED
      BY <3>1, <3>2, <3>3, <3>4, SMTT(30) DEF GivesUpExhausted, Dialed, AddrOf, Eligible, NetworkAdmits
  <2>2. CASE ret' = ret
    <3>1. /\ \A f \in Families : lookup[f] = "done"
          /\ \A c \in Dialed : attempt[c] = "exited" /\ attemptErr[c] # "nil"
          /\ pc = "done"
      BY <2>0, <2>2, ZenonT(60) DEF GivesUpExhausted, CallInv
    <3>2. UNCHANGED <<network, lookup, answer, attempt, attemptErr>>
      <4>1. \A c \in Cand : attempt[c] # "dialing" /\ attempt[c] # "handoff"
        BY <3>1, Zenon DEF Dialed
      <4>. QED
        BY <3>1, <4>1, ZenonT(60) DEF Next, Scheduler, StartNext, GiveUp, EnterSelect, SelectDone, SelectWake,
           SelectTimer, ReceiveConn, ReceiveFailure, LookupReturns, ResolveOK, ResolveErr, Pulse,
           CloseFeed, PulseClosed, DialConnects, DialFails, Abandon, CancelRequest,
           DeadlineExpires, Tick, Finished, vars
    <3>. QED
      BY <2>2, <3>1, <3>2, SMTT(30) DEF GivesUpExhausted, Dialed, AddrOf, Eligible, NetworkAdmits
  <2>. QED
    BY <2>1, <2>2, ZenonT(60) DEF Next, Scheduler, StartNext, Start, Return, EnterSelect, SelectDone, SelectWake,
       SelectTimer, ReceiveConn, ReceiveFailure, LookupReturns, ResolveOK, ResolveErr, Pulse,
       CloseFeed, PulseClosed, DialConnects, DialFails, Abandon, CancelRequest, DeadlineExpires,
       Tick, Finished, vars
<1>. QED
  BY <1>1, <1>2, PendingSafety, FeedSafety, PTL DEF Spec

-----------------------------------------------------------------------------
(* The verdict, and the status that tells it. *)

(* An address that a lookup returned passes the ACL. *)
SomeAllowed == \E f \in Families : \E i \in DOMAIN answer[f] : answer[f][i] \in Allowed

(* What the verdict is made of: passedACL counts the approved addresses,     *)
(* started counts the dials, lastErr is the error of a dial that failed, and *)
(* a lookup has no error before it returns.                                  *)
PassedInv == passedACL = 0 <=> ~SomeAllowed
StartedInv == started = 0 <=> Dialed = {}
LastErrInv == lastErr # "nil" => \E c \in Cand : attempt[c] = "exited" /\ attemptErr[c] = lastErr
LookupErrInv == \A f \in Families : lookup[f] = "querying" => lookupErr[f] = "nil"

EvidenceInv == PassedInv /\ StartedInv /\ LastErrInv /\ LookupErrInv

(* Each is kept by the steps that change nothing it is about. *)
LEMMA EvidenceFrame ==
  ASSUME EvidenceInv
  PROVE  /\ UNCHANGED <<answer, passedACL>> => PassedInv'
         /\ UNCHANGED <<started, attempt>> => StartedInv'
         /\ UNCHANGED <<lastErr, attempt, attemptErr>> => LastErrInv'
         /\ UNCHANGED <<lookup, lookupErr>> => LookupErrInv'
<1>1. UNCHANGED <<answer, passedACL>> => PassedInv'
  BY Zenon DEF EvidenceInv, PassedInv, SomeAllowed
<1>2. UNCHANGED <<started, attempt>> => StartedInv'
  BY Zenon DEF EvidenceInv, StartedInv, Dialed
<1>3. UNCHANGED <<lastErr, attempt, attemptErr>> => LastErrInv'
  BY Zenon DEF EvidenceInv, LastErrInv
<1>4. UNCHANGED <<lookup, lookupErr>> => LookupErrInv'
  BY Zenon DEF EvidenceInv, LookupErrInv
<1>. QED BY <1>1, <1>2, <1>3, <1>4, Zenon

(* The first answer of a lookup counts: none of its addresses passed before. *)
LEMMA ResolveEvidence ==
  ASSUME FeedSafe, EvidenceInv, NEW f \in Families, NEW s \in Answers, ResolveOK(f, s)
  PROVE  PassedInv'
<1> DEFINE passed == {i \in DOMAIN s : s[i] \in Allowed}
<1>1. IsFiniteSet(passed)
  <2>1. IsFiniteSet(1..MaxAnswer)
    BY FS_Interval, AnswerAssumption
  <2>2. passed \subseteq 1..MaxAnswer
    BY AnswerDomain, Zenon
  <2> HIDE DEF passed
  <2>. QED BY <2>1, <2>2, FS_Subset, Zenon
<1>2. Cardinality(passed) \in Nat /\ (Cardinality(passed) = 0 <=> passed = {})
  BY <1>1, FS_CardinalityType, FS_EmptySet, Zenon
<1>3. passedACL \in Nat /\ passedACL' = passedACL + Cardinality(passed)
  BY Zenon DEF FeedSafe, TypeOK, ResolveOK
<1>4. answer[f] = <<>> /\ answer' = [answer EXCEPT ![f] = s] /\ DOMAIN answer = Families
  BY Zenon DEF FeedSafe, FeedInv, TypeOK, ResolveOK
<1>5. SomeAllowed' <=> SomeAllowed \/ passed # {}
  <2>1. \A g \in Families : answer'[g] = IF g = f THEN s ELSE answer[g]
    BY <1>4, Zenon
  <2>2. DOMAIN answer[f] = {}
    BY <1>4, SMTT(30)
  <2>3. ASSUME SomeAllowed' PROVE SomeAllowed \/ passed # {}
    BY <2>1, <2>3, Zenon DEF SomeAllowed
  <2>4. ASSUME SomeAllowed PROVE SomeAllowed'
    BY <2>1, <2>2, <2>4, ZenonT(60) DEF SomeAllowed
  <2>5. ASSUME passed # {} PROVE SomeAllowed'
    BY <2>1, <2>5, Zenon DEF SomeAllowed
  <2>. QED BY <2>3, <2>4, <2>5, Zenon
<1> HIDE DEF passed
<1>6. passedACL' = 0 <=> passedACL = 0 /\ Cardinality(passed) = 0
  BY <1>2, <1>3, SMTT(30)
<1>. QED BY <1>2, <1>5, <1>6, Zenon DEF EvidenceInv, PassedInv

(* Steps keep the evidence. *)
LEMMA NextEvidence == FeedSafe /\ EvidenceInv /\ [Next]_vars => EvidenceInv'
<1> SUFFICES ASSUME FeedSafe, EvidenceInv, [Next]_vars PROVE EvidenceInv'
  OBVIOUS
<1>0. TypeOK /\ CallInv
  BY DEF FeedSafe
<1>1. ASSUME NEW f \in Families, NEW s \in Answers, ResolveOK(f, s) PROVE EvidenceInv'
  <2>1. UNCHANGED <<started, lastErr, attempt, attemptErr, lookupErr>>
    BY <1>1, Zenon DEF ResolveOK
  <2>2. \A g \in Families : lookup'[g] = "querying" => lookup[g] = "querying"
    BY <1>0, <1>1, Zenon DEF ResolveOK, TypeOK
  <2>3. LookupErrInv'
    BY <2>1, <2>2, Zenon DEF EvidenceInv, LookupErrInv
  <2>. QED BY <1>1, <2>1, <2>3, EvidenceFrame, ResolveEvidence, Zenon DEF EvidenceInv
<1>2. ASSUME NEW f \in Families, NEW e, ResolveErr(f, e) PROVE EvidenceInv'
  <2>1. UNCHANGED <<started, lastErr, attempt, attemptErr, passedACL, answer>>
    BY <1>2, ZenonT(60) DEF ResolveErr
  <2>2. \A g \in Families :
          lookup'[g] = "querying" => lookup[g] = "querying" /\ lookupErr'[g] = lookupErr[g]
    BY <1>0, <1>2, Zenon DEF ResolveErr, TypeOK
  <2>3. LookupErrInv'
    BY <2>2, Zenon DEF EvidenceInv, LookupErrInv
  <2>. QED BY <2>1, <2>3, EvidenceFrame, Zenon DEF EvidenceInv
<1>3. CASE StartNext
  <2>1. UNCHANGED <<answer, passedACL, lookup, lookupErr, lastErr, attemptErr>>
    BY <1>3, Zenon DEF StartNext, Start, Return
  <2>2. CASE ctxErr = "nil"
    <3>1. started' = started + 1 /\ started \in Nat
      BY <1>0, <1>3, <2>2, Zenon DEF StartNext, Start, TypeOK
    <3>2. started' # started
      BY <3>1
    <3>3. PICK c \in Cand : attempt[c] = "idle" /\ attempt' = [attempt EXCEPT ![c] = "dialing"]
      BY <1>3, <2>2, <3>2, StartStep, ZenonT(60) DEF StartNext, Start, Return
    <3>4. c \in Dialed'
      BY <1>0, <3>3, Zenon DEF Dialed, TypeOK
    <3>5. StartedInv'
      BY <3>1, <3>4, StartCount, ZenonT(60) DEF StartedInv
    <3>6. \A d \in Cand : attempt[d] = "exited" => attempt'[d] = "exited"
      BY <1>0, <3>3, SMTT(30) DEF TypeOK
    <3>7. LastErrInv'
      BY <2>1, <3>6, Zenon DEF EvidenceInv, LastErrInv
    <3>. QED BY <2>1, <3>5, <3>7, EvidenceFrame, Zenon DEF EvidenceInv
  <2>3. CASE ctxErr # "nil"
    <3>1. UNCHANGED <<started, attempt>>
      BY <1>3, <2>3, SMTT(30) DEF StartNext, Return
    <3>. QED BY <2>1, <3>1, EvidenceFrame, ZenonT(60) DEF EvidenceInv
  <2>. QED BY <2>2, <2>3, ZenonT(60)
<1>4. ASSUME NEW c \in Cand, ReceiveFailure(c) PROVE EvidenceInv'
  <2>1. /\ UNCHANGED <<answer, passedACL, lookup, lookupErr, attemptErr, started>>
        /\ lastErr' = attemptErr[c] /\ attempt' = [attempt EXCEPT ![c] = "exited"]
        /\ attempt[c] = "handoff"
    BY <1>4 DEF ReceiveFailure
  <2>2. Dialed' = Dialed
    BY <1>0, <2>1, Zenon DEF Dialed, TypeOK
  <2>3. attempt'[c] = "exited" /\ attemptErr'[c] = lastErr'
    BY <1>0, <2>1, Zenon DEF TypeOK
  <2>4. StartedInv' /\ LastErrInv'
    BY <2>1, <2>2, <2>3, Zenon DEF EvidenceInv, StartedInv, LastErrInv
  <2>. QED BY <2>1, <2>4, EvidenceFrame, ZenonT(60) DEF EvidenceInv
<1>5. ASSUME NEW c \in Cand, DialConnects(c) \/ DialFails(c) \/ Abandon(c) \/ ReceiveConn(c)
      PROVE  EvidenceInv'
  <2>1. /\ UNCHANGED <<answer, passedACL, lookup, lookupErr, started, lastErr>>
        /\ attempt[c] \in {"dialing", "handoff"}
        /\ \E l \in {"handoff", "exited"} : attempt' = [attempt EXCEPT ![c] = l]
        /\ attemptErr' = attemptErr \/ \E e : attemptErr' = [attemptErr EXCEPT ![c] = e]
    BY <1>5, Zenon DEF DialConnects, DialFails, Abandon, ReceiveConn
  <2>2. Dialed' = Dialed
    BY <1>0, <2>1, Zenon DEF Dialed, TypeOK
  <2>3. \A d \in Cand : attempt[d] = "exited" => attempt'[d] = "exited" /\ attemptErr'[d] = attemptErr[d]
    BY <1>0, <2>1, Zenon DEF TypeOK
  <2>4. StartedInv' /\ LastErrInv'
    BY <2>1, <2>2, <2>3, Zenon DEF EvidenceInv, StartedInv, LastErrInv
  <2>. QED BY <2>1, <2>4, EvidenceFrame, Zenon DEF EvidenceInv
<1>6. ASSUME NEW f \in Families, Pulse(f) PROVE EvidenceInv'
  <2>1. UNCHANGED <<answer, passedACL, lookupErr, attempt, attemptErr, started, lastErr>>
    BY <1>6, Zenon DEF Pulse
  <2>2. \A g \in Families : lookup'[g] = "querying" => lookup[g] = "querying"
    BY <1>0, <1>6, Zenon DEF Pulse, TypeOK
  <2>3. LookupErrInv'
    BY <2>1, <2>2, Zenon DEF EvidenceInv, LookupErrInv
  <2>. QED BY <2>1, <2>3, EvidenceFrame, Zenon DEF EvidenceInv
<1>7. CASE UNCHANGED <<answer, passedACL, lookup, lookupErr, attempt, attemptErr, started, lastErr>>
  BY <1>7, EvidenceFrame, Zenon DEF EvidenceInv
<1>. QED
  BY <1>1, <1>2, <1>3, <1>4, <1>5, <1>6, <1>7, ZenonT(60)
     DEF Next, Scheduler, GiveUp, EnterSelect, SelectDone, SelectWake, SelectTimer, LookupReturns,
         CloseFeed, PulseClosed, CancelRequest, DeadlineExpires, Tick, Finished, vars

(* What the call returned, in terms of the evidence. *)
VerdictInv ==
  /\ ret = "ctx" => ctxErr # "nil" /\ retErr = ctxErr
  /\ ret = "denied" => passedACL = 0 /\ \E f \in Families : lookupErr[f] = "nil"
  /\ ret = "lookup" =>
       started = 0 /\ retErr = lookupErr["ip4"] /\ \A f \in Families : lookupErr[f] # "nil"
  /\ ret = "dial" => (started # 0 \/ passedACL # 0) /\ (retErr = "timeout" => lastErr = "timeout")

(* Steps keep the verdict true: once the call gave up, the evidence is fixed. *)
LEMMA NextVerdict ==
  FeedSafe /\ GivesUpExhausted /\ VerdictInv /\ [Next]_vars => VerdictInv'
<1> SUFFICES ASSUME FeedSafe, GivesUpExhausted, VerdictInv, [Next]_vars PROVE VerdictInv'
  OBVIOUS
<1>0. TypeOK /\ CallInv
  BY DEF FeedSafe
<1>1. CASE GiveUp
  <2>1. /\ ret' = FinalError[1] /\ retErr' = FinalError[2]
        /\ UNCHANGED <<passedACL, lookupErr, started, lastErr>>
    BY <1>1, ZenonT(60) DEF GiveUp, Return
  <2>2. started \in Nat
    BY <1>0, SMTT(30) DEF TypeOK
  <2>3. started > 0 <=> started # 0
    BY <2>2
  <2>. QED BY <2>1, <2>3, Zenon DEF VerdictInv, FinalError
<1>2. CASE ret' = "ctx" /\ ret # "ctx"
  <2>1. ctxErr # "nil" /\ ctxErr' = ctxErr /\ retErr' = ctxErr
    BY <1>2, ZenonT(60) DEF Next, Scheduler, StartNext, Start, Return, GiveUp, FinalError, EnterSelect, SelectDone,
       SelectWake, SelectTimer, ReceiveConn, ReceiveFailure, LookupReturns, ResolveOK, ResolveErr,
       Pulse, CloseFeed, PulseClosed, DialConnects, DialFails, Abandon, CancelRequest,
       DeadlineExpires, Tick, Finished, vars
  <2>. QED BY <1>2, <2>1, ZenonT(60) DEF VerdictInv
<1>3. CASE ret' = ret /\ ret = "ctx"
  <2>1. ctxErr # "nil" /\ pc = "done"
    BY <1>0, <1>3, ZenonT(60) DEF VerdictInv, CallInv
  <2>2. UNCHANGED <<ctxErr, retErr>>
    BY <1>3, <2>1, ZenonT(60) DEF Next, Scheduler, StartNext, Start, Return, GiveUp, EnterSelect, SelectDone,
       SelectWake, SelectTimer, ReceiveConn, ReceiveFailure, LookupReturns, ResolveOK, ResolveErr,
       Pulse, CloseFeed, PulseClosed, DialConnects, DialFails, Abandon, CancelRequest,
       DeadlineExpires, Tick, Finished, vars
  <2>. QED BY <1>3, <2>2, SMTT(30) DEF VerdictInv
<1>4. CASE ret' = ret /\ ret \in {"denied", "lookup", "dial"}
  <2>1. pc = "done" /\ \A f \in Families : lookup[f] = "done"
    BY <1>0, <1>4, ZenonT(60) DEF GivesUpExhausted, CallInv
  <2>2. UNCHANGED <<passedACL, lookupErr, started, lastErr, retErr>>
    BY <2>1, ZenonT(60) DEF Next, Scheduler, StartNext, GiveUp, EnterSelect, SelectDone,
       SelectWake, SelectTimer, ReceiveConn, ReceiveFailure, LookupReturns, ResolveOK, ResolveErr,
       Pulse, CloseFeed, PulseClosed, DialConnects, DialFails, Abandon, CancelRequest,
       DeadlineExpires, Tick, Finished, vars
  <2>. QED BY <1>4, <2>2, Zenon DEF VerdictInv
<1>5. CASE ret' \in {"pending", "conn"}
  BY <1>5, ZenonT(60) DEF VerdictInv
<1>6. GiveUp \/ ret' = ret \/ ret' \in {"ctx", "conn"}
  BY ZenonT(60) DEF Next, Scheduler, StartNext, Start, Return, EnterSelect, SelectDone, SelectWake,
         SelectTimer, ReceiveConn, ReceiveFailure, LookupReturns, ResolveOK, ResolveErr, Pulse,
         CloseFeed, PulseClosed, DialConnects, DialFails, Abandon, CancelRequest, DeadlineExpires,
         Tick, Finished, vars
<1>7. ret \in {"pending", "conn", "ctx", "dial", "lookup", "denied"}
  BY <1>0, Zenon DEF TypeOK
<1>. QED BY <1>1, <1>2, <1>3, <1>4, <1>5, <1>6, <1>7, ZenonT(60)

(* dialTCPIncremental's final error and the status dialContextCheckACL makes *)
(* of it tell the truth: 403, 504 and the two errors are given only for what *)
(* they say, for every ACL, answer and timing.                               *)
THEOREM StatusTrue == Spec => []StatusTruthful
<1>1. Init => EvidenceInv /\ VerdictInv
  <2>1. ASSUME Init PROVE Dialed = {} /\ ~SomeAllowed
    BY <2>1, SMTT(30) DEF Init, Dialed, SomeAllowed
  <2>. QED BY <2>1, ZenonT(60) DEF Init, EvidenceInv, PassedInv, StartedInv, LastErrInv, LookupErrInv, VerdictInv
<1>2. FeedSafe /\ EvidenceInv /\ VerdictInv /\ OnlyApprovedDialed => StatusTruthful
  <2> SUFFICES ASSUME FeedSafe, EvidenceInv, VerdictInv, OnlyApprovedDialed, ret # "pending"
               PROVE  StatusTruthful
    BY ZenonT(60) DEF StatusTruthful
  <2>1. ret \in {"conn", "ctx", "dial", "lookup", "denied"}
    BY DEF FeedSafe, TypeOK
  <2>2. Dialed # {} => SomeAllowed
    <3>1. \A c \in Dialed : c[1] \in Families
      BY CandPair DEF Dialed
    <3>. QED BY <3>1, Zenon DEF OnlyApprovedDialed, Eligible, AddrOf, SomeAllowed
  <2>3. Status = 403 <=> ret = "denied"
    BY <2>1 DEF Status
  <2>4. Status = 504 => ret \in {"ctx", "dial", "lookup"} /\ retErr = "timeout"
    BY <2>1 DEF Status
  <2>5. ASSUME Status = 504
        PROVE  \/ ctxErr = "timeout"
               \/ lookupErr["ip4"] = "timeout" /\ Dialed = {}
               \/ \E c \in Dialed : attemptErr[c] = "timeout"
    <3>1. CASE ret = "ctx" BY <2>4, <2>5, <3>1, ZenonT(60) DEF VerdictInv
    <3>2. CASE ret = "lookup" BY <2>4, <2>5, <3>2, ZenonT(60) DEF VerdictInv, EvidenceInv, StartedInv
    <3>3. CASE ret = "dial"
      <4>1. lastErr = "timeout"
        BY <2>4, <2>5, <3>3, Zenon DEF VerdictInv
      <4>2. PICK c \in Cand : attempt[c] = "exited" /\ attemptErr[c] = "timeout"
        BY <4>1, Zenon DEF EvidenceInv, LastErrInv
      <4>. QED BY <4>2 DEF Dialed
    <3>. QED BY <2>4, <2>5, <3>1, <3>2, <3>3, Zenon
  <2>6. ret = "denied" =>
          /\ \E f \in Families : lookupErr[f] = "nil"
          /\ \A f \in Families : \A i \in DOMAIN answer[f] : answer[f][i] \notin Allowed
    BY Zenon DEF VerdictInv, EvidenceInv, PassedInv, SomeAllowed
  <2>7. ret = "dial" => SomeAllowed
    BY <2>2 DEF VerdictInv, EvidenceInv, PassedInv, StartedInv
  <2>8. ret = "lookup" => \A f \in Families : lookupErr[f] # "nil"
    BY Zenon DEF VerdictInv
  <2>. HIDE DEF Status
  <2>. QED BY <2>3, <2>5, <2>6, <2>7, <2>8, ZenonT(60) DEF StatusTruthful, SomeAllowed
<1>. QED
  BY <1>1, <1>2, NextEvidence, NextVerdict, FeedSafety, Exhaustion, ApprovedOnly, PTL DEF Spec

-----------------------------------------------------------------------------
(* Wakeups. *)

(* NoLostWakeup, and what it rests on: while a start is not due, the timer   *)
(* that will say so is armed; before the first start one is always due.      *)
WakeInv ==
  /\ NoLostWakeup
  /\ pc # "done" /\ ~Due => timer = "armed"
  /\ started = 0 => window = 0

(* A lookup that queues candidates announces them, and the feed is not       *)
(* closed before it has.                                                     *)
LEMMA ResolveWake ==
  ASSUME TypeOK, PendingInv, WakeInv, NEW f \in Families, NEW ans \in Answers, ResolveOK(f, ans)
  PROVE  WakeInv'
<1>1. /\ lookup[f] = "querying" /\ queue'[f] = Admit(f, ans)
      /\ Admit(f, ans) # {} => lookup'[f] = "pulsing"
      /\ \A g \in Families \ {f} : queue'[g] = queue[g] /\ lookup'[g] = lookup[g]
      /\ UNCHANGED <<closer, wake, pc, timer, started, window, sinceStart, pending>>
  BY Zenon DEF ResolveOK, TypeOK, schedVars, clockVars, callVars
<1>2. ~Exhausted'
  BY <1>1, Zenon DEF PendingInv, Exhausted
<1>3. ASSUME pc = "select", ~FeedEmpty'
      PROVE  timer' = "armed" \/ wake' = 1 \/ \E g \in Families : lookup'[g] = "pulsing"
  <2>1. CASE Admit(f, ans) # {}
    BY <1>1, <2>1, Zenon
  <2>2. CASE Admit(f, ans) = {}
    <3>1. ~FeedEmpty
      BY <1>1, <1>3, <2>2, Zenon DEF FeedEmpty
    <3>. QED  BY <1>1, <1>3, <3>1, Zenon DEF WakeInv, NoLostWakeup
  <2>. QED  BY <2>1, <2>2, SMTT(30)
<1>4. NoLostWakeup'
  BY <1>1, <1>2, <1>3, Zenon DEF NoLostWakeup
<1>5. (Due' <=> Due) /\ (pc' # "done" /\ ~Due' => timer' = "armed") /\ (started' = 0 => window' = 0)
  BY <1>1, Zenon DEF WakeInv, Due
<1>. QED  BY <1>4, <1>5, Zenon DEF WakeInv

(* Steps of the scheduler keep the wakeups: it waits only after it has       *)
(* looked at the feed.                                                       *)
LEMMA SchedulerWake ==
  ASSUME TypeOK, WakeInv, Scheduler
  PROVE  WakeInv'
<1> USE DEF WakeInv, NoLostWakeup
<1>1. CASE StartNext
  <2>1. pc' # "select" /\ (timer' = "armed" \/ pc' = "done")
    BY <1>1, Zenon DEF StartNext, Start, Return
  <2>2. (started' = 0 => window' = 0) \/ started' = started + 1
    BY <1>1, ZenonT(60) DEF StartNext, Start, schedVars
  <2>3. started \in Nat
    BY Zenon DEF TypeOK
  <2>4. started' = 0 => window' = 0
    BY <2>2, <2>3, StartCount, ZenonT(60)
  <2>. QED
    BY <2>1, <2>4, ZenonT(60)
<1>2. CASE GiveUp \/ SelectDone
  BY <1>2, Zenon DEF GiveUp, SelectDone, Return, schedVars
<1>3. CASE EnterSelect
  BY <1>3, Zenon DEF EnterSelect, FeedEmpty, Exhausted, Due, feedVars, schedVars, clockVars
<1>4. CASE SelectWake
  BY <1>4, ZenonT(60) DEF SelectWake, Due, schedVars, clockVars
<1>5. CASE SelectTimer
  BY <1>5 DEF SelectTimer, Due, schedVars, clockVars
<1>6. ASSUME NEW c \in Cand, ReceiveConn(c) PROVE WakeInv'
  BY <1>6, ZenonT(60) DEF ReceiveConn, Return
<1>7. ASSUME NEW c \in Cand, ReceiveFailure(c) PROVE WakeInv'
  <2>1. /\ pc = "select" /\ pc' = "loop" /\ UNCHANGED <<started, sinceStart>>
        /\ window' = IF MinimumDelay < window THEN MinimumDelay ELSE window
        /\ timer' = IF MinimumDelay < window THEN "armed" ELSE timer
    BY <1>7, ZenonT(60) DEF ReceiveFailure, Shortened, clockVars
  <2>2. started = 0 => window' = 0
    BY <2>1, DelayAssumption
  <2>3. CASE MinimumDelay < window
    BY <2>1, <2>2, <2>3, Zenon
  <2>4. CASE ~(MinimumDelay < window)
    BY <2>1, <2>2, <2>4, Zenon DEF Due
  <2>. QED  BY <2>3, <2>4, ZenonT(60)
<1>. QED
  BY <1>1, <1>2, <1>3, <1>4, <1>5, <1>6, <1>7, Zenon DEF Scheduler

(* No step of any goroutine, and no passing of time, loses a wakeup. *)
LEMMA NextWake == FeedSafe /\ PendingInv /\ WakeInv /\ [Next]_vars => WakeInv'
<1> SUFFICES ASSUME FeedSafe, PendingInv, WakeInv, [Next]_vars PROVE WakeInv'
  OBVIOUS
<1>0. TypeOK
  BY DEF FeedSafe
<1>1. ASSUME NEW f \in Families, NEW e, ResolveErr(f, e) PROVE WakeInv'
  BY <1>0, <1>1, ZenonT(60) DEF ResolveErr, TypeOK, WakeInv, NoLostWakeup, FeedEmpty, Exhausted, Due, schedVars,
     clockVars, callVars
<1>2. ASSUME NEW f \in Families, Pulse(f) PROVE WakeInv'
  BY <1>2 DEF Pulse, SendWake, WakeInv, NoLostWakeup, Due, schedVars, clockVars, callVars
<1>3. CASE CloseFeed
  BY <1>3, ZenonT(60) DEF CloseFeed, WakeInv, NoLostWakeup, FeedEmpty, Due, schedVars, clockVars, callVars
<1>4. CASE PulseClosed
  BY <1>4, Zenon DEF PulseClosed, SendWake, WakeInv, NoLostWakeup, Due, schedVars, clockVars, callVars
<1>5. CASE Tick
  <2>1. /\ UNCHANGED <<pc, timer, wake, lookup, closer, queue, pending, started, window>>
        /\ sinceStart' = IF started > 0 THEN Advance(sinceStart, FallbackDelay) ELSE 0
    BY <1>5, Zenon DEF Tick, feedVars, schedVars, callVars
  <2>2. Due => Due'
    <3>1. window \in Nat /\ sinceStart \in Nat /\ started \in Nat /\ (started = 0 => window = 0)
      <4>1. window \in {0, MinimumDelay, FallbackDelay} /\ sinceStart \in Nat /\ started \in Nat
        BY <1>0 DEF TypeOK
      <4>2. started = 0 => window = 0
        BY Zenon DEF WakeInv
      <4>. QED  BY <4>1, <4>2, DelayAssumption, StartCount, ZenonT(60)
    <3>2. CASE started > 0
      BY <2>1, <3>1, <3>2, DelayAssumption, StillDue, Zenon DEF Due
    <3>3. CASE started = 0
      BY <2>1, <3>1, <3>3, StartCount, Zenon DEF Due
    <3>. QED  BY <3>1, <3>2, <3>3, StartCount, Zenon
  <2>. QED
    BY <2>1, <2>2, Zenon DEF WakeInv, NoLostWakeup, FeedEmpty, Exhausted
<1>6. CASE UNCHANGED <<pc, timer, wake, lookup, closer, queue, pending, started, window, sinceStart>>
  BY <1>6, Zenon DEF WakeInv, NoLostWakeup, FeedEmpty, Exhausted, Due
<1>7. ASSUME NEW c \in Cand, DialConnects(c) \/ DialFails(c) \/ Abandon(c) PROVE WakeInv'
  BY <1>6, <1>7, Zenon DEF DialConnects, DialFails, Abandon, feedVars, schedVars, clockVars, callVars
<1>8. CASE CancelRequest \/ DeadlineExpires \/ Finished \/ UNCHANGED vars
  BY <1>6, <1>8, Zenon DEF CancelRequest, DeadlineExpires, Finished, vars, feedVars, schedVars, clockVars,
     callVars
<1>. QED
  BY <1>0, <1>1, <1>2, <1>3, <1>4, <1>5, <1>7, <1>8, ResolveWake, SchedulerWake, ZenonT(60)
     DEF Next, LookupReturns

(* No wakeup is lost: the select of dialTCPIncremental never waits for the   *)
(* deadline alone while there is something to start or nothing left to do,   *)
(* whatever the order in which lookups, closer and scheduler run.            *)
THEOREM Wakeful == Spec => []NoLostWakeup
<1>1. Init => WakeInv
  BY DEF Init, WakeInv, NoLostWakeup, Due
<1>2. WakeInv => NoLostWakeup
  BY DEF WakeInv
<1>. QED
  BY <1>1, <1>2, NextWake, FeedSafety, PendingSafety, PTL DEF Spec

-----------------------------------------------------------------------------
(* The race implements the safety part of its contract. *)

(* Every step of the race is a step the contract allows, or none that the    *)
(* caller could tell.                                                        *)
THEOREM ContractSafety == Spec => Contract!Init /\ [][Contract!Next]_(Contract!vars)
<1> USE DEF Contract!vars, Outcome
<1>1. Init => Contract!Init
  BY ZenonT(60) DEF Init, Contract!Init
<1>2. FeedSafe /\ OwnerInv /\ [Next]_vars => [Contract!Next]_(Contract!vars)
  <2> SUFFICES ASSUME FeedSafe, OwnerInv, [Next]_vars
               PROVE  Contract!Next \/ UNCHANGED Contract!vars
    BY ZenonT(60)
  <2>0. TypeOK /\ CallInv /\ SingleOwner
    BY Zenon DEF FeedSafe, OwnerInv, SingleOwner, Offered
  <2>1. CASE UNCHANGED <<ret, open, returned>>
    BY <2>1
  <2>2. ASSUME pc # "done", ret' \in {"ctx", "dial", "lookup", "denied"}, returned' = returned,
               open' = open \/ \E c \in open : open' = open \ {c}
        PROVE  Contract!Next
    BY <2>0, <2>2, SMTT(30) DEF Contract!Next, Contract!Fail, CallInv
  <2>3. CASE GiveUp \/ SelectDone \/ StartNext
    BY <2>1, <2>2, <2>3, StartStep, Zenon DEF GiveUp, SelectDone, StartNext, Return, FinalError
  <2>4. ASSUME NEW c \in Cand, ReceiveConn(c) PROVE Contract!Next
    <3>1. c \in open /\ pc # "done" /\ ret = "pending" /\ returned = {}
      BY <2>0, <2>4, Zenon DEF OwnerInv, Offered, ReceiveConn, CallInv
    <3>2. CASE ctxErr = "nil"
      <4>1. Contract!Deliver(c)
        BY <2>4, <3>1, <3>2, ZenonT(60) DEF ReceiveConn, Return, Contract!Deliver
      <4>. QED  BY <4>1 DEF Contract!Next
    <3>3. CASE ctxErr # "nil"
      BY <2>2, <2>4, <3>1, <3>3, Zenon DEF ReceiveConn, Return
    <3>. QED  BY <3>2, <3>3, SMTT(30)
  <2>5. ASSUME NEW c \in Cand, DialConnects(c) PROVE Contract!Next \/ UNCHANGED Contract!vars
    <3>1. UNCHANGED <<ret, returned>> /\ (open' = open \/ open' = open \cup {c})
      BY <2>5 DEF DialConnects
    <3>2. CASE open' = open \cup {c} /\ c \notin open
      <4>1. Contract!Establish(c)
        BY <3>1, <3>2 DEF Contract!Establish
      <4>. QED  BY <4>1 DEF Contract!Next
    <3>3. CASE open' = open
      BY <3>1, <3>3, SMTT(30)
    <3>. QED  BY <3>1, <3>2, <3>3, ZenonT(60)
  <2>6. ASSUME NEW c \in Cand, Abandon(c) PROVE Contract!Next \/ UNCHANGED Contract!vars
    <3>1. UNCHANGED <<ret, returned>> /\ open' = open \ {c} /\ c \notin returned
      BY <2>6 DEF Abandon, OwnerInv
    <3>2. CASE c \in open
      <4>1. Contract!Discard(c)
        BY <3>1, <3>2, SMTT(30) DEF Contract!Discard
      <4>. QED  BY <4>1 DEF Contract!Next
    <3>3. CASE c \notin open
      BY <3>1, <3>3, SMTT(30)
    <3>. QED  BY <3>2, <3>3, ZenonT(60)
  <2>. QED
    BY <2>1, <2>3, <2>4, <2>5, <2>6, ZenonT(60)
       DEF Next, Scheduler, EnterSelect, SelectWake, SelectTimer, ReceiveFailure, LookupReturns,
           ResolveOK, ResolveErr, Pulse, CloseFeed, PulseClosed, DialFails, CancelRequest,
           DeadlineExpires, Tick, Finished, vars
<1>3. Init => OwnerInv
  BY DEF Init, OwnerInv, Offered
<1>. QED
  BY <1>1, <1>2, <1>3, NextOwner, FeedSafety, PTL DEF Spec

(* popLocked reproduces interleaveTCPAddresses for static sets of any sizes  *)
(* and for every network: what it hands out from queues filled before the    *)
(* first start is the static interleave, address by address.                 *)
THEOREM StaticOrder == Spec => []StaticInterleave
<1>1. TypeOK => network \in {"tcp", "tcp4", "tcp6"}
  BY NetworkAssumption, Zenon DEF TypeOK
<1>. QED
  BY <1>1, StaticPops, TypeCorrect, PTL

===========================================================================
