---------------------------- MODULE TunnelProofs ----------------------------
(***************************************************************************)
(* For bytes of any size, any number of framed writes, anything that is    *)
(* said and any cut of it into reads: what the frames of a stream say, that*)
(* one direction of a tunnel never ends the other, and that a tunnel keeps *)
(* the streams it carries.  IInv says how the copies and the handler stand *)
(* to each other; StreamInv relates what each copy has read, holds and has *)
(* passed on to the frames of its stream, at every step of the copy.       *)
(***************************************************************************)
EXTENDS Tunnel, SeqLemmas, TLAPS

-----------------------------------------------------------------------------
(* What a stream of frames says *)

\* A frame, or what there is of it, ends inside the stream.
LEMMA FrameTypes ==
  ASSUME NEW w \in Seq(Byte), NEW a \in 0..Len(w)
  PROVE  /\ a + 3 <= Len(w) => Size(w, a) \in 0..(BufferSize - 1) /\ w[a + 3] \in Byte
         /\ FrameEnd(w, a) \in a..Len(w)
         /\ Payload(w, a) \in Seq(Byte)
<1>. DEFINE n == Len(w)
<1>1. n \in Nat /\ Base \in Nat /\ Base >= 3 /\ \A i \in 1..n : w[i] \in Nat /\ w[i] < Base /\ w[i] \in Byte
  BY PaddingAssumption DEF Byte
<1>2. ASSUME a + 3 <= n PROVE Size(w, a) \in 0..(BufferSize - 1) /\ w[a + 3] \in Byte /\ w[a + 3] \in Nat
  <2>. DEFINE h == w[a + 1]  l == w[a + 2]
  <2>1. h \in Nat /\ l \in Nat /\ h <= Base - 1 /\ l < Base /\ w[a + 3] \in Nat /\ w[a + 3] \in Byte
    BY <1>1, <1>2, SMTT(30)
  <2>. HIDE DEF h, l
  <2>2. h * Base \in Nat /\ h * Base <= (Base - 1) * Base
    BY <1>1, <2>1, SMT
  <2>3. (Base - 1) * Base = Base * Base - Base
    BY <1>1, SMT
  <2>4. h * Base + l \in 0..(Base * Base - 1)
    <3>. DEFINE x == h * Base  y == Base * Base
    <3>1. x \in Nat /\ y \in Nat /\ x <= y - Base
      BY <1>1, <2>2, <2>3, SMT
    <3>. HIDE DEF x, y
    <3>2. x + l \in 0..(y - 1)
      BY <1>1, <2>1, <3>1
    <3>. QED BY <3>2 DEF x, y
  <2>. QED BY <2>1, <2>4, SMTT(30) DEF Size, SizeOf, BufferSize, h, l
<1>3. FrameEnd(w, a) \in a..n
  BY <1>1, <1>2, SMTT(30) DEF FrameEnd, UpTo
<1>4. Payload(w, a) \in Seq(Byte)
  <2>1. CASE a + 3 <= n
    <3>. DEFINE e == UpTo(a + 3 + Size(w, a), n)
    <3>1. e \in 0..n
      BY <1>1, <1>2, <2>1 DEF UpTo
    <3>. HIDE DEF e
    <3>2. SubSeq(w, a + 4, e) \in Seq(Byte)
      BY <1>1, <3>1
    <3>. QED BY <1>1, <2>1, <3>2 DEF Payload, e
  <2>2. CASE n < a + 3
    BY <1>1, <2>2 DEF Payload
  <2>. QED BY <1>1, <2>1, <2>2
<1>. QED BY <1>2, <1>3, <1>4

\* FrameAt and Payloads are what they are defined to be.
Decoded(w) ==
  /\ FrameAt(w) \in [0..NumFirstPaddings -> 0..Len(w)]
  /\ FrameAt(w)[0] = 0
  /\ \A k \in 1..NumFirstPaddings : FrameAt(w)[k] = FrameEnd(w, FrameAt(w)[k - 1])
  /\ Payloads(w) \in [0..NumFirstPaddings -> Seq(Byte)]
  /\ Payloads(w)[0] = <<>>
  /\ \A k \in 1..NumFirstPaddings :
       Payloads(w)[k] = Payloads(w)[k - 1] \o Payload(w, FrameAt(w)[k - 1])

\* Where the frames begin: the recursion that defines FrameAt has a solution.
LEMMA FrameAtDef ==
  ASSUME NEW w \in Seq(Byte)
  PROVE  /\ FrameAt(w) \in [0..NumFirstPaddings -> 0..Len(w)]
         /\ FrameAt(w)[0] = 0
         /\ \A k \in 1..NumFirstPaddings : FrameAt(w)[k] = FrameEnd(w, FrameAt(w)[k - 1])
<1>. DEFINE n == NumFirstPaddings  V == 0..Len(w)
            Eq(g) == g = [k \in 0..n |-> IF k = 0 THEN 0 ELSE FrameEnd(w, g[k - 1])]
            at == CHOOSE g : Eq(g)
<1>0. n \in Nat /\ Len(w) \in Nat /\ 0 \in V /\ \A a \in V : FrameEnd(w, a) \in V
  <2>1. ASSUME NEW a \in V PROVE FrameEnd(w, a) \in V
    <3>1. FrameEnd(w, a) \in a..Len(w)
      BY FrameTypes, Zenon
    <3>. QED BY <3>1
  <2>. QED BY <2>1, PaddingAssumption
<1>1. FrameAt(w) = at
  BY DEF FrameAt
<1>. HIDE DEF n, V
<1>2. \E g : Eq(g)
  <2>. DEFINE step == [i \in Nat |-> [a \in V |-> FrameEnd(w, a)]]
  <2>1. step \in [Nat -> [V -> V]]
    BY <1>0
  <2>2. \A i \in 1..n : \A a \in V : step[i][a] = FrameEnd(w, a)
    OBVIOUS
  <2>. HIDE DEF step
  <2>3. PICK h \in [0..n -> V] : Recursive(h, 0, step, n)
    BY <1>0, <2>1, Recursion, Zenon
  <2>4. h[0] = 0 /\ \A i \in 1..n : h[i] = step[i][h[i - 1]]
    BY <2>3 DEF Recursive
  <2>5. ASSUME NEW k \in 0..n PROVE h[k] = IF k = 0 THEN 0 ELSE FrameEnd(w, h[k - 1])
    <3>1. CASE k = 0 BY <2>4, <3>1
    <3>2. CASE k # 0
      <4>1. k \in 1..n /\ k - 1 \in 0..n
        BY <1>0, <3>2
      <4>2. h[k - 1] \in V
        BY <2>3, <4>1, Zenon
      <4>. QED BY <2>2, <2>4, <3>2, <4>1, <4>2, Zenon
    <3>. QED BY <3>1, <3>2
  <2>6. Eq(h)
    BY <2>3, <2>5
  <2>. QED BY <2>6, Zenon
<1>3. Eq(at)
  <2>. HIDE DEF Eq
  <2>. QED BY <1>2
<1>. HIDE DEF at
<1>4. at[0] = 0 /\ DOMAIN at = 0..n
  BY <1>0, <1>3
<1>5. ASSUME NEW k \in 1..n PROVE at[k] = FrameEnd(w, at[k - 1])
  BY <1>0, <1>3
<1>. DEFINE T == {k \in Nat : k <= n => at[k] \in V}
<1>6. 0 \in T
  BY <1>0, <1>4
<1>7. ASSUME NEW k \in T PROVE k + 1 \in T
  <2>1. CASE k + 1 <= n
    <3>1. k + 1 \in 1..n /\ (k + 1) - 1 = k /\ at[k] \in V
      BY <1>0, <2>1
    <3>2. at[k + 1] \in V
      BY <1>0, <1>5, <3>1, Zenon
    <3>. QED BY <3>2
  <2>. QED BY <1>0, <2>1
<1>8. T = Nat
  <2>1. T \in SUBSET Nat OBVIOUS
  <2>. HIDE DEF T
  <2>. QED BY <1>6, <1>7, <2>1, SetInduction, Zenon
<1>9. at \in [0..n -> V]
  <2>1. \A k \in 0..n : at[k] \in V
    BY <1>0, <1>8
  <2>2. at = [k \in 0..n |-> at[k]]
    BY <1>3, <1>4
  <2>. QED BY <2>1, <2>2
<1>. QED BY <1>1, <1>4, <1>5, <1>9 DEF n, V

\* What the frames carry: so has the recursion that defines Payloads.
LEMMA PayloadsDef ==
  ASSUME NEW w \in Seq(Byte)
  PROVE  /\ Payloads(w) \in [0..NumFirstPaddings -> Seq(Byte)]
         /\ Payloads(w)[0] = <<>>
         /\ \A k \in 1..NumFirstPaddings :
              Payloads(w)[k] = Payloads(w)[k - 1] \o Payload(w, FrameAt(w)[k - 1])
<1>. DEFINE n == NumFirstPaddings  V == Seq(Byte)  at == FrameAt(w)
            ss == [i \in 1..n |-> Payload(w, at[i - 1])]
            Eq(g) == g = [k \in 0..n |-> IF k = 0 THEN <<>> ELSE g[k - 1] \o Payload(w, at[k - 1])]
            data == CHOOSE g : Eq(g)
<1>0. n \in Nat /\ \A i \in 1..n : ss[i] = Payload(w, at[i - 1]) /\ ss[i] \in V
  <2>1. n \in Nat
    BY PaddingAssumption
  <2>2. ASSUME NEW i \in 1..n PROVE Payload(w, at[i - 1]) \in V
    <3>1. i - 1 \in 0..n
      BY <2>1
    <3>2. at[i - 1] \in 0..Len(w)
      BY <3>1, FrameAtDef, Zenon
    <3>. QED BY <3>2, FrameTypes, Zenon
  <2>. QED BY <2>1, <2>2
<1>1. Payloads(w) = data
  BY DEF Payloads
<1>. HIDE DEF n, at, ss
<1>2. PICK h \in [0..n -> V] : Flattening(ss, h, n)
  BY <1>0, FlatteningExists, Zenon
<1>3. h[0] = <<>> /\ \A k \in 1..n : h[k] = h[k - 1] \o Payload(w, at[k - 1])
  BY <1>0, <1>2, Zenon DEF Flattening
<1>4. Eq(data)
  <2>1. Eq(h)
    <3>. HIDE DEF V
    <3>1. ASSUME NEW k \in 0..n
          PROVE  h[k] = IF k = 0 THEN <<>> ELSE h[k - 1] \o Payload(w, at[k - 1])
      <4>1. k = 0 \/ k \in 1..n
        BY <1>0
      <4>. QED BY <1>3, <4>1, Zenon
    <3>. QED BY <1>2, <3>1, Zenon
  <2>2. \E g : Eq(g)
    BY <2>1, Zenon
  <2>. HIDE DEF Eq
  <2>. QED BY <2>2
<1>. HIDE DEF data
<1>5. data[0] = <<>> /\ DOMAIN data = 0..n
  BY <1>0, <1>4
<1>6. ASSUME NEW k \in 1..n PROVE data[k] = data[k - 1] \o Payload(w, at[k - 1])
  <2>1. k \in 0..n /\ k # 0
    BY <1>0
  <2>. QED BY <1>4, <2>1, Zenon
<1>7. ASSUME NEW k \in 0..n PROVE data[k] = h[k]
  <2>1. Flattening(ss, data, k)
    <3>1. \A i \in 1..k : i \in 1..n
      BY <1>0
    <3>. QED BY <1>0, <1>5, <1>6, <3>1, Zenon DEF Flattening
  <2>2. Flattening(ss, h, k)
    <3>1. \A i \in 1..k : i \in 1..n
      BY <1>0
    <3>. QED BY <1>0, <1>3, <3>1, Zenon DEF Flattening
  <2>3. k \in Nat
    BY <1>0
  <2>. QED BY <2>1, <2>2, <2>3, FlatteningUnique, Zenon
<1>8. data = h
  <2>. HIDE DEF V
  <2>1. data = [k \in 0..n |-> data[k]]
    BY <1>4, <1>5
  <2>2. h = [k \in 0..n |-> h[k]]
    BY <1>2
  <2>. QED BY <1>7, <2>1, <2>2
<1>9. data \in [0..n -> V]
  BY <1>2, <1>8, Zenon
<1>. QED BY <1>1, <1>5, <1>6, <1>9, Zenon DEF n, at

\* FrameAt and Payloads decode any stream.
LEMMA Decodes == ASSUME NEW w \in Seq(Byte) PROVE Decoded(w)
BY FrameAtDef, PayloadsDef, Zenon DEF Decoded

\* The header of a frame, if it is there.
LEMMA Header ==
  ASSUME NEW w \in Seq(Byte), NEW a \in 0..Len(w), a + 3 <= Len(w)
  PROVE  Size(w, a) \in Nat /\ Size(w, a) < BufferSize /\ w[a + 3] \in Byte /\ w[a + 3] \in Nat
<1>1. Size(w, a) \in 0..(BufferSize - 1) /\ w[a + 3] \in Byte
  BY FrameTypes, Zenon
<1>2. BufferSize \in Nat
  BY PaddingAssumption, SMT DEF BufferSize
<1>. QED BY <1>1, <1>2 DEF Byte

-----------------------------------------------------------------------------
(* A stream and a longer one *)

\* Where a stream has a header, a longer one has it too.
LEMMA SameHeader ==
  ASSUME NEW w \in Seq(Byte), NEW v \in Seq(Byte), Starts(w, v),
         NEW a \in 0..Len(w), a + 3 <= Len(w)
  PROVE  a + 3 <= Len(v) /\ Size(w, a) = Size(v, a) /\ w[a + 3] = v[a + 3]
<1>1. a + 1 \in 1..Len(w) /\ a + 2 \in 1..Len(w) /\ a + 3 \in 1..Len(w) /\ a + 3 <= Len(v)
  BY DEF Starts
<1>2. w[a + 1] = v[a + 1] /\ w[a + 2] = v[a + 2] /\ w[a + 3] = v[a + 3]
  BY <1>1, Zenon DEF Starts
<1>. QED BY <1>1, <1>2 DEF Size

\* The whole of a frame is there.
Complete(w, a) == a + 3 <= Len(w) /\ a + 3 + Size(w, a) + w[a + 3] <= Len(w)

\* One frame more of a stream w and of a longer one, v, that were the same so far:
\* if the frame is all there they stay the same, otherwise w is at its end.
LEMMA SameFrame ==
  ASSUME NEW w \in Seq(Byte), NEW v \in Seq(Byte), Starts(w, v), NEW a \in 0..Len(w)
  PROVE  /\ Complete(w, a) =>
              /\ Complete(v, a) /\ FrameEnd(w, a) = FrameEnd(v, a)
              /\ Payload(w, a) = Payload(v, a)
         /\ ~Complete(w, a) =>
              /\ FrameEnd(w, a) = Len(w) /\ Len(w) <= FrameEnd(v, a)
              /\ Starts(Payload(w, a), Payload(v, a))
<1>. DEFINE m == Len(w)  n == Len(v)
<1>0. m \in Nat /\ n \in Nat /\ m <= n /\ a \in Nat /\ a <= m /\ a \in 0..n
  BY DEF Starts
<1>1. /\ Payload(w, a) \in Seq(Byte) /\ Payload(v, a) \in Seq(Byte)
      /\ FrameEnd(v, a) \in a..n
  BY <1>0, FrameTypes, Zenon
<1>2. CASE m < a + 3
  <2>1. FrameEnd(w, a) = m /\ Payload(w, a) = <<>>
    BY <1>2 DEF FrameEnd, Payload
  <2>2. m <= FrameEnd(v, a)
    <3>1. CASE n < a + 3
      BY <1>0, <3>1 DEF FrameEnd
    <3>2. CASE ~(n < a + 3)
      <4>0. a + 3 <= Len(v) /\ a \in 0..Len(v)
        BY <1>0, <3>2
      <4>1. Size(v, a) \in Nat /\ v[a + 3] \in Nat
        BY <4>0, Header, Zenon
      <4>. QED BY <1>0, <1>2, <3>2, <4>1, SMTT(30) DEF FrameEnd, UpTo
    <3>. QED BY <3>1, <3>2
  <2>3. Starts(<<>>, Payload(v, a))
    BY <1>1 DEF Starts
  <2>4. ~(a + 3 <= Len(w)) /\ ~Complete(w, a)
    BY <1>0, <1>2 DEF Complete
  <2>. QED BY <2>1, <2>2, <2>3, <2>4
<1>3. CASE ~(m < a + 3)
  <2>. DEFINE s == Size(w, a)  p == w[a + 3]
  <2>0. a + 3 <= Len(w) /\ a + 3 <= Len(v)
    BY <1>0, <1>3
  <2>1. s \in Nat /\ p \in Nat
    BY <2>0, Header, Zenon
  <2>2. Size(v, a) = s /\ v[a + 3] = p
    BY <2>0, SameHeader, Zenon
  <2>3. /\ FrameEnd(w, a) = UpTo(a + 3 + s + p, m)
        /\ FrameEnd(v, a) = UpTo(a + 3 + s + p, n)
        /\ Payload(w, a) = SubSeq(w, a + 4, UpTo(a + 3 + s, m))
        /\ Payload(v, a) = SubSeq(v, a + 4, UpTo(a + 3 + s, n))
    <3>1. ~(Len(w) < a + 3) /\ ~(Len(v) < a + 3)
      BY <1>0, <2>0
    <3>. QED BY <2>2, <3>1, Zenon DEF FrameEnd, Payload
  <2>. HIDE DEF s, p
  <2>. DEFINE j == UpTo(a + 3 + s, m)  k == UpTo(a + 3 + s, n)
  <2>4. j \in Nat /\ k \in Nat /\ j <= k /\ j <= m /\ k <= n /\ a + 3 <= j
    BY <1>0, <1>3, <2>1 DEF UpTo
  <2>5. Starts(SubSeq(w, a + 4, j), SubSeq(v, a + 4, k))
    <3>. HIDE DEF j, k
    <3>1. /\ Len(SubSeq(w, a + 4, j)) = j - a - 3
          /\ \A i \in 1..(j - a - 3) : SubSeq(w, a + 4, j)[i] = w[a + 3 + i]
      BY <1>0, <2>4
    <3>2. /\ Len(SubSeq(v, a + 4, k)) = k - a - 3
          /\ \A i \in 1..(k - a - 3) : SubSeq(v, a + 4, k)[i] = v[a + 3 + i]
      BY <1>0, <2>4
    <3>3. \A i \in 1..(j - a - 3) : w[a + 3 + i] = v[a + 3 + i] /\ i \in 1..(k - a - 3)
      BY <1>0, <2>4 DEF Starts
    <3>. DEFINE x == SubSeq(w, a + 4, j)  y == SubSeq(v, a + 4, k)
    <3>4. Len(x) <= Len(y)
      BY <1>0, <2>4, <3>1, <3>2, SMTT(30)
    <3>5. \A i \in 1..(j - a - 3) : x[i] = y[i]
      BY <3>1, <3>2, <3>3, Zenon
    <3>. QED BY <3>1, <3>4, <3>5, Zenon DEF Starts
  <2>6. CASE a + 3 + s + p <= m
    <3>1. FrameEnd(w, a) = FrameEnd(v, a) /\ j = a + 3 + s /\ k = j
      BY <1>0, <2>1, <2>3, <2>6 DEF UpTo
    <3>2. Payload(w, a) = Payload(v, a)
      <4>. DEFINE x == Payload(w, a)  y == Payload(v, a)
      <4>1. x \in Seq(Byte) /\ y \in Seq(Byte) /\ Starts(x, y)
        BY <1>1, <2>3, <2>5, Zenon
      <4>2. Len(x) = Len(y)
        BY <1>0, <2>3, <2>4, <3>1
      <4>. HIDE DEF x, y
      <4>3. x = y
        BY <4>1, <4>2, SameSequence, Zenon DEF Starts
      <4>. QED BY <4>3 DEF x, y
    <3>3. Complete(w, a) /\ Complete(v, a)
      <4>1. a + 3 + s + p <= n
        BY <1>0, <2>1, <2>6
      <4>. QED BY <2>0, <2>2, <2>6, <4>1 DEF Complete, s, p
    <3>. QED BY <3>1, <3>2, <3>3
  <2>7. CASE ~(a + 3 + s + p <= m)
    <3>1. FrameEnd(w, a) = m /\ m <= FrameEnd(v, a)
      BY <1>0, <2>1, <2>3, <2>7 DEF UpTo
    <3>2. ~Complete(w, a)
      BY <2>7 DEF Complete, s, p
    <3>. QED BY <2>3, <2>5, <3>1, <3>2, SMTT(30)
  <2>. QED BY <2>6, <2>7
<1>. QED BY <1>2, <1>3

\* After k frames a stream and a longer one are the same, or the first is at its end.
Same(w, v, k) == FrameAt(w)[k] = FrameAt(v)[k] /\ Payloads(w)[k] = Payloads(v)[k]
Cut(w, v, k) ==
  /\ FrameAt(w)[k] = Len(w) /\ Len(w) <= FrameAt(v)[k]
  /\ Starts(Payloads(w)[k], Payloads(v)[k])

\* At the end of a stream there is no frame.
LEMMA EndFrame == ASSUME NEW w \in Seq(Byte) PROVE FrameEnd(w, Len(w)) = Len(w) /\ Payload(w, Len(w)) = <<>>
BY DEF FrameEnd, Payload

\* That is so after one frame more, ...
LEMMA ExtendStep ==
  ASSUME NEW w \in Seq(Byte), NEW v \in Seq(Byte), Starts(w, v),
         NEW k \in Nat, k + 1 <= NumFirstPaddings, Same(w, v, k) \/ Cut(w, v, k)
  PROVE  Same(w, v, k + 1) \/ Cut(w, v, k + 1)
<1>. DEFINE n == NumFirstPaddings  a == FrameAt(w)[k]  b == FrameAt(v)[k]
            x == Payloads(w)[k]  y == Payloads(v)[k]
            p == Payload(w, a)  q == Payload(v, b)
<1>0. n \in Nat /\ k \in 0..n /\ k + 1 \in 1..n /\ (k + 1) - 1 = k
  BY PaddingAssumption
<1>1. Decoded(w) /\ Decoded(v)
  BY Decodes, Zenon
<1>2. /\ a \in 0..Len(w) /\ b \in 0..Len(v) /\ x \in Seq(Byte) /\ y \in Seq(Byte)
      /\ FrameAt(w)[k + 1] = FrameEnd(w, a) /\ FrameAt(v)[k + 1] = FrameEnd(v, b)
      /\ Payloads(w)[k + 1] = x \o p /\ Payloads(v)[k + 1] = y \o q
  BY <1>0, <1>1, Zenon DEF Decoded
<1>3. p \in Seq(Byte) /\ q \in Seq(Byte) /\ FrameEnd(v, b) \in b..Len(v)
  BY <1>2, FrameTypes, Zenon
<1>. HIDE DEF a, b, x, y, p, q
<1>4. CASE Same(w, v, k)
  <2>1. a = b /\ x = y
    BY <1>4 DEF Same, a, b, x, y
  <2>2. \/ FrameEnd(w, a) = FrameEnd(v, b) /\ p = q
        \/ FrameEnd(w, a) = Len(w) /\ Len(w) <= FrameEnd(v, b) /\ Starts(p, q)
    BY <1>2, <2>1, SameFrame, Zenon DEF p, q
  <2>3. Starts(p, q) => Starts(x \o p, x \o q)
    BY <1>2, <1>3, StartsConcat, Zenon
  <2>. QED BY <1>2, <2>1, <2>2, <2>3, Zenon DEF Same, Cut
<1>5. CASE Cut(w, v, k)
  <2>1. a = Len(w) /\ Len(w) <= b /\ Starts(x, y)
    BY <1>5, Zenon DEF Cut, a, b, x, y
  <2>2. FrameEnd(w, a) = Len(w) /\ p = <<>>
    BY <2>1, EndFrame, Zenon DEF p
  <2>3. x \o p = x /\ Starts(x, y \o q)
    BY <1>2, <1>3, <2>1, <2>2, StartsConcat, Zenon
  <2>4. Len(w) <= FrameEnd(v, b)
    BY <1>2, <1>3, <2>1
  <2>. QED BY <1>2, <2>2, <2>3, <2>4, Zenon DEF Cut
<1>. QED BY <1>4, <1>5

\* ... and so after any number of them.
LEMMA Extension ==
  ASSUME NEW w \in Seq(Byte), NEW v \in Seq(Byte), Starts(w, v), NEW m \in 0..NumFirstPaddings
  PROVE  Same(w, v, m) \/ Cut(w, v, m)
<1>. DEFINE T == {k \in Nat : k <= NumFirstPaddings => Same(w, v, k) \/ Cut(w, v, k)}
<1>0. NumFirstPaddings \in Nat
  BY PaddingAssumption, SMTT(30)
<1>1. 0 \in T
  <2>1. Decoded(w) /\ Decoded(v)
    BY Decodes, Zenon
  <2>. QED BY <2>1 DEF Same, Decoded
<1>2. ASSUME NEW k \in T PROVE k + 1 \in T
  <2>1. CASE k + 1 <= NumFirstPaddings
    <3>1. k \in Nat /\ (Same(w, v, k) \/ Cut(w, v, k))
      BY <1>0, <2>1
    <3>2. Same(w, v, k + 1) \/ Cut(w, v, k + 1)
      BY <2>1, <3>1, ExtendStep, Zenon
    <3>. QED BY <3>2
  <2>. QED BY <1>0, <2>1
<1>3. T = Nat
  <2>1. T \in SUBSET Nat OBVIOUS
  <2>. HIDE DEF T
  <2>. QED BY <1>1, <1>2, <2>1, SetInduction, Zenon
<1>. QED BY <1>0, <1>3

\* What a peer makes of a stream is a stream.
LEMMA UnframeType ==
  ASSUME NEW w \in Seq(Byte)
  PROVE  /\ FrameAt(w)[NumFirstPaddings] \in 0..Len(w)
         /\ Payloads(w)[NumFirstPaddings] \in Seq(Byte)
         /\ SubSeq(w, FrameAt(w)[NumFirstPaddings] + 1, Len(w)) \in Seq(Byte)
         /\ Unframe(w) \in Seq(Byte)
<1>. DEFINE n == NumFirstPaddings  a == FrameAt(w)[n]  x == Payloads(w)[n]
            r == SubSeq(w, a + 1, Len(w))
<1>0. n \in 0..n
  BY PaddingAssumption
<1>1. a \in 0..Len(w) /\ x \in Seq(Byte)
  BY <1>0, Decodes, Zenon DEF Decoded
<1>. HIDE DEF a, x
<1>2. r \in Seq(Byte)
  BY <1>1
<1>. HIDE DEF r
<1>3. x \o r \in Seq(Byte)
  BY <1>1, <1>2
<1>. QED BY <1>1, <1>2, <1>3 DEF Unframe, a, x, r

(* However a stream is cut, what a peer makes of the part that arrives is    *)
(* the beginning of what it would make of all of it.                         *)
THEOREM CutStream ==
  ASSUME NEW w \in Seq(Byte), NEW v \in Seq(Byte), Starts(w, v)
  PROVE  Starts(Unframe(w), Unframe(v))
<1>. DEFINE n == NumFirstPaddings  a == FrameAt(w)[n]  b == FrameAt(v)[n]
            x == Payloads(w)[n]  y == Payloads(v)[n]
            r == SubSeq(w, a + 1, Len(w))  t == SubSeq(v, b + 1, Len(v))
<1>0. n \in 0..n
  BY PaddingAssumption
<1>1. /\ a \in 0..Len(w) /\ b \in 0..Len(v) /\ x \in Seq(Byte) /\ y \in Seq(Byte)
      /\ r \in Seq(Byte) /\ t \in Seq(Byte)
      /\ Unframe(w) = x \o r /\ Unframe(v) = y \o t
  BY UnframeType, Zenon DEF Unframe
<1>2. Same(w, v, n) \/ Cut(w, v, n)
  BY <1>0, Extension, Zenon
<1>3. Starts(x \o r, y \o t)
  <2>1. CASE Same(w, v, n)
    <3>1. a = b /\ x = y
      BY <2>1 DEF Same
    <3>. HIDE DEF a, b, x, y, n
    <3>2. Starts(r, t)
      BY <1>1, <3>1, StartsSuffix, Zenon
    <3>. HIDE DEF r, t
    <3>. QED BY <1>1, <3>1, <3>2, StartsConcat, Zenon
  <2>2. CASE Cut(w, v, n)
    <3>1. a = Len(w) /\ Starts(x, y)
      BY <2>2, Zenon DEF Cut
    <3>. HIDE DEF a, b, x, y, n
    <3>2. r = <<>>
      BY <3>1
    <3>. HIDE DEF r, t
    <3>. QED BY <1>1, <3>1, <3>2, StartsConcat, ZenonT(60)
  <2>. QED BY <1>2, <2>1, <2>2
<1>. HIDE DEF x, r, y, t
<1>4. x \o r \in Seq(Byte) /\ y \o t \in Seq(Byte)
  BY <1>1
<1>. QED BY <1>1, <1>3, <1>4, Zenon

-----------------------------------------------------------------------------
(* Whole frames *)

\* What k frames carry stays when more are read; at the end there are no more.
LEMMA Later ==
  ASSUME NEW w \in Seq(Byte), NEW k \in 0..NumFirstPaddings, NEW m \in k..NumFirstPaddings
  PROVE  /\ Starts(Payloads(w)[k], Payloads(w)[m])
         /\ FrameAt(w)[k] <= FrameAt(w)[m]
         /\ FrameAt(w)[k] = Len(w) => FrameAt(w)[m] = Len(w) /\ Payloads(w)[m] = Payloads(w)[k]
<1>. DEFINE n == NumFirstPaddings  x == Payloads(w)[k]
            Claim(j) == /\ Starts(x, Payloads(w)[j])
                        /\ FrameAt(w)[k] <= FrameAt(w)[j]
                        /\ FrameAt(w)[k] = Len(w) => FrameAt(w)[j] = Len(w) /\ Payloads(w)[j] = x
            T == {j \in Nat : k + j <= n => Claim(k + j)}
<1>0. n \in Nat /\ k \in Nat /\ k <= n /\ Len(w) \in Nat /\ m - k \in Nat /\ k + (m - k) = m /\ m <= n
  BY PaddingAssumption
<1>1. Decoded(w)
  BY Decodes, Zenon
<1>2. x \in Seq(Byte) /\ FrameAt(w)[k] \in 0..Len(w)
  BY <1>1, Zenon DEF Decoded
<1>. HIDE DEF x
<1>3. 0 \in T
  <2>1. k + 0 = k
    BY <1>0
  <2>2. Starts(x, x)
    BY <1>2 DEF Starts
  <2>3. FrameAt(w)[k] <= FrameAt(w)[k]
    BY <1>2
  <2>4. Claim(k)
    BY <2>2, <2>3, Zenon DEF x
  <2>. QED BY <2>1, <2>4
<1>4. ASSUME NEW j \in T PROVE j + 1 \in T
  <2>1. CASE k + (j + 1) <= n
    <3>. DEFINE i == k + j
    <3>0. i \in Nat /\ i \in 0..n /\ i + 1 \in 1..n /\ (i + 1) - 1 = i /\ k + (j + 1) = i + 1 /\ i <= n
      BY <1>0, <2>1, SMTT(30)
    <3>1. Claim(i)
      BY <3>0
    <3>. HIDE DEF i
    <3>. DEFINE a == FrameAt(w)[i]  y == Payloads(w)[i]  q == Payload(w, a)
    <3>2. /\ a \in 0..Len(w) /\ y \in Seq(Byte)
          /\ FrameAt(w)[i + 1] = FrameEnd(w, a) /\ Payloads(w)[i + 1] = y \o q
      BY <1>1, <3>0, Zenon DEF Decoded
    <3>3. q \in Seq(Byte) /\ FrameEnd(w, a) \in a..Len(w)
      BY <3>2, FrameTypes, Zenon
    <3>4. Starts(x, y \o q) /\ y \o <<>> = y
      BY <1>2, <3>1, <3>2, <3>3, StartsConcat, ZenonT(60)
    <3>5. FrameAt(w)[k] <= FrameEnd(w, a)
      BY <1>2, <3>1, <3>2, <3>3, SMTT(30)
    <3>6. FrameAt(w)[k] = Len(w) => FrameEnd(w, a) = Len(w) /\ y \o q = x
      BY <3>1, <3>4, EndFrame, Zenon
    <3>7. Claim(i + 1)
      BY <3>2, <3>4, <3>5, <3>6, Zenon
    <3>. QED BY <3>0, <3>7
  <2>. QED BY <1>0, <2>1
<1>5. T = Nat
  <2>1. T \in SUBSET Nat OBVIOUS
  <2>. HIDE DEF T
  <2>. QED BY <1>3, <1>4, <2>1, SetInduction, Zenon
<1>6. Claim(m)
  <2>. HIDE DEF Claim
  <2>. QED BY <1>0, <1>5, Zenon
<1>. QED BY <1>6 DEF x

\* What the frames read so far carry is the beginning of what the stream says, and
\* all of it at its end.
LEMMA SoFar ==
  ASSUME NEW w \in Seq(Byte), NEW k \in 0..NumFirstPaddings
  PROVE  /\ Starts(Payloads(w)[k], Unframe(w))
         /\ FrameAt(w)[k] = Len(w) => Unframe(w) = Payloads(w)[k]
<1>. DEFINE n == NumFirstPaddings  x == Payloads(w)[k]  y == Payloads(w)[n]
            a == FrameAt(w)[n]  r == SubSeq(w, a + 1, Len(w))
<1>0. n \in k..n /\ n \in 0..n
  BY PaddingAssumption
<1>1. Starts(x, y) /\ (FrameAt(w)[k] = Len(w) => a = Len(w) /\ y = x)
  BY <1>0, Later, Zenon
<1>2. a \in 0..Len(w) /\ y \in Seq(Byte) /\ r \in Seq(Byte) /\ Unframe(w) = y \o r
  BY UnframeType, Zenon DEF Unframe
<1>3. x \in Seq(Byte)
  BY Decodes, Zenon DEF Decoded
<1>. HIDE DEF x, y, n
<1>4. a = Len(w) => r = <<>>
  BY <1>2
<1>. HIDE DEF a, r
<1>5. Starts(x, y \o r) /\ y \o <<>> = y
  BY <1>1, <1>2, <1>3, StartsConcat, Zenon
<1>. QED BY <1>1, <1>2, <1>4, <1>5, Zenon DEF x, y, a

\* w is k whole frames, none of them empty, and if there are to be no more of them
\* then anything after that.
Framed(w, k) ==
  /\ \A i \in 1..k : Complete(w, FrameAt(w)[i - 1]) /\ Size(w, FrameAt(w)[i - 1]) # 0
  /\ k < NumFirstPaddings => FrameAt(w)[k] = Len(w)

\* Whole frames are the same in a longer stream.
LEMMA WholeSame ==
  ASSUME NEW w \in Seq(Byte), NEW v \in Seq(Byte), Starts(w, v),
         NEW k \in 0..NumFirstPaddings, Framed(w, k), NEW m \in 0..k
  PROVE  /\ Same(w, v, m)
         /\ m > 0 => Complete(v, FrameAt(v)[m - 1]) /\ Size(v, FrameAt(v)[m - 1]) # 0
<1>. DEFINE n == NumFirstPaddings
            Claim(j) == /\ Same(w, v, j)
                        /\ j > 0 => Complete(v, FrameAt(v)[j - 1]) /\ Size(v, FrameAt(v)[j - 1]) # 0
            T == {j \in Nat : j <= k => Claim(j)}
<1>0. n \in Nat /\ k \in Nat /\ k <= n /\ m \in Nat /\ m <= k /\ ~(0 > 0)
  BY PaddingAssumption
<1>1. Decoded(w) /\ Decoded(v)
  BY Decodes, Zenon
<1>2. 0 \in T
  <2>1. Same(w, v, 0)
    BY <1>1 DEF Decoded, Same
  <2>. QED BY <1>0, <2>1, Zenon
<1>3. ASSUME NEW j \in T PROVE j + 1 \in T
  <2>1. CASE j + 1 <= k
    <3>0. j \in 0..n /\ j + 1 \in 1..n /\ (j + 1) - 1 = j /\ j + 1 \in 1..k /\ Same(w, v, j) /\ j \in Nat
      BY <1>0, <2>1
    <3>. DEFINE a == FrameAt(w)[j]  x == Payloads(w)[j]
    <3>1. FrameAt(v)[j] = a /\ Payloads(v)[j] = x
      BY <3>0, Zenon DEF Same
    <3>2. /\ a \in 0..Len(w)
          /\ FrameAt(w)[j + 1] = FrameEnd(w, a) /\ FrameAt(v)[j + 1] = FrameEnd(v, a)
          /\ Payloads(w)[j + 1] = x \o Payload(w, a) /\ Payloads(v)[j + 1] = x \o Payload(v, a)
      BY <1>1, <3>0, <3>1, ZenonT(60) DEF Decoded
    <3>3. Complete(w, a) /\ Size(w, a) # 0
      BY <3>0, Zenon DEF Framed
    <3>4. /\ Complete(v, a) /\ FrameEnd(w, a) = FrameEnd(v, a) /\ Payload(w, a) = Payload(v, a)
          /\ Size(v, a) # 0
      <4>1. a + 3 <= Len(w)
        BY <3>3 DEF Complete
      <4>. HIDE DEF a
      <4>2. Size(w, a) = Size(v, a)
        BY <3>2, <4>1, SameHeader, Zenon
      <4>3. Complete(v, a) /\ FrameEnd(w, a) = FrameEnd(v, a) /\ Payload(w, a) = Payload(v, a)
        BY <3>2, <3>3, SameFrame, Zenon
      <4>. QED BY <3>3, <4>2, <4>3, SMTT(30)
    <3>5. Same(w, v, j + 1)
      BY <3>2, <3>4, Zenon DEF Same
    <3>6. Claim(j + 1)
      BY <3>0, <3>1, <3>4, <3>5, Zenon
    <3>. HIDE DEF Claim
    <3>. QED BY <3>0, <3>6
  <2>. QED BY <1>0, <2>1
<1>4. T = Nat
  <2>1. T \in SUBSET Nat OBVIOUS
  <2>. HIDE DEF T
  <2>. QED BY <1>2, <1>3, <2>1, SetInduction, Zenon
<1>5. Claim(m)
  <2>. HIDE DEF Claim
  <2>. QED BY <1>0, <1>4
<1>. QED BY <1>5

\* What follows the last frame is taken as it is.
LEMMA AppendRest ==
  ASSUME NEW w \in Seq(Byte), NEW x \in Seq(Byte), Framed(w, NumFirstPaddings)
  PROVE  /\ w \o x \in Seq(Byte) /\ Framed(w \o x, NumFirstPaddings)
         /\ Unframe(w \o x) = Unframe(w) \o x
<1>. DEFINE n == NumFirstPaddings  v == w \o x
            y == Payloads(w)[n]  a == FrameAt(w)[n]
            r == SubSeq(w, a + 1, Len(w))  t == SubSeq(v, a + 1, Len(v))
<1>0. n \in Nat /\ n \in 0..n /\ ~(n < n)
  BY PaddingAssumption
<1>1. v \in Seq(Byte) /\ Starts(w, v)
  BY StartsConcat DEF Starts
<1>2. Len(v) = Len(w) + Len(x) /\ \A i \in 1..Len(x) : v[Len(w) + i] = x[i]
  OBVIOUS
<1>3. \A i \in 1..Len(w) : v[i] = w[i]
  BY <1>1 DEF Starts
<1>. HIDE DEF v
<1>4. Framed(v, n)
  <2>1. ASSUME NEW i \in 1..n
        PROVE  Complete(v, FrameAt(v)[i - 1]) /\ Size(v, FrameAt(v)[i - 1]) # 0
    <3>1. i \in 0..n /\ i > 0
      BY <1>0
    <3>. QED BY <1>0, <1>1, <3>1, WholeSame, Zenon
  <2>. QED BY <1>0, <2>1, Zenon DEF Framed
<1>5. FrameAt(v)[n] = a /\ Payloads(v)[n] = y
  BY <1>0, <1>1, WholeSame, Zenon DEF Same
<1>6. a \in 0..Len(w) /\ y \in Seq(Byte) /\ r \in Seq(Byte) /\ Unframe(w) = y \o r
  BY UnframeType, Zenon DEF Unframe
<1>7. t \in Seq(Byte) /\ Unframe(v) = y \o t
  BY <1>1, <1>5, UnframeType, Zenon DEF Unframe
<1>. HIDE DEF a, y, n
<1>8. t = r \o x
  <2>0. Len(w) \in Nat /\ Len(x) \in Nat /\ Len(v) \in Nat /\ a \in Nat /\ a <= Len(w)
    BY <1>1, <1>6, SMTT(30)
  <2>1. Len(t) = Len(v) - a /\ \A i \in 1..(Len(v) - a) : t[i] = v[a + i]
    BY <1>1, <1>2, <1>6, <2>0, SMTT(30)
  <2>2. Len(r) = Len(w) - a /\ \A i \in 1..(Len(w) - a) : r[i] = w[a + i]
    BY <1>6, <2>0
  <2>. HIDE DEF r, t
  <2>3. /\ r \o x \in Seq(Byte) /\ Len(r \o x) = Len(v) - a
        /\ \A i \in 1..(Len(v) - a) : (r \o x)[i] = IF i <= Len(r) THEN r[i] ELSE x[i - Len(r)]
    <3>1. r \in Seq(Byte)
      BY <1>6
    <3>2. /\ r \o x \in Seq(Byte) /\ Len(r \o x) = Len(r) + Len(x)
          /\ \A i \in 1..(Len(r) + Len(x)) : (r \o x)[i] = IF i <= Len(r) THEN r[i] ELSE x[i - Len(r)]
      BY <3>1, ElementOf, Zenon
    <3>3. Len(r) + Len(x) = Len(v) - a
      BY <1>2, <2>0, <2>2
    <3>. QED BY <3>2, <3>3
  <2>4. ASSUME NEW i \in 1..(Len(v) - a) PROVE (r \o x)[i] = t[i]
    <3>1. CASE i <= Len(w) - a
      <4>1. i \in 1..(Len(w) - a) /\ a + i \in 1..Len(w) /\ i <= Len(r)
        BY <2>0, <2>2, <3>1
      <4>. QED BY <1>3, <2>1, <2>2, <2>3, <4>1, Zenon
    <3>2. CASE ~(i <= Len(w) - a)
      <4>. DEFINE d == i - Len(r)
      <4>1. d \in 1..Len(x) /\ a + i = Len(w) + d /\ ~(i <= Len(r))
        BY <1>2, <2>0, <2>2, <3>2
      <4>2. v[a + i] = x[d]
        BY <1>2, <4>1, Zenon
      <4>. QED BY <2>1, <2>3, <4>1, <4>2, Zenon
    <3>. QED BY <3>1, <3>2, Zenon
  <2>5. Len(r \o x) = Len(t) /\ \A i \in 1..Len(r \o x) : (r \o x)[i] = t[i]
    BY <2>1, <2>3, <2>4, Zenon
  <2>. QED BY <1>7, <2>3, <2>5, SameSequence, Zenon
<1>9. (y \o r) \o x = y \o (r \o x)
  <2>1. y \in Seq(Byte) /\ r \in Seq(Byte)
    BY <1>6
  <2>. HIDE DEF r
  <2>2. Associates(y, r, x)
    BY <2>1, Associativity, Zenon
  <2>. QED BY <2>2 DEF Associates
<1>. QED BY <1>1, <1>4, <1>6, <1>7, <1>8, <1>9, Zenon DEF v, n

\* A size and the two bytes that state it.
LEMMA SizeStated ==
  ASSUME NEW n \in Nat, n < BufferSize
  PROVE  n \div Base \in Byte /\ n % Base \in Byte /\ SizeOf(n \div Base, n % Base) = n
<1>1. Base \in Nat /\ Base >= 3 /\ n < Base * Base
  BY PaddingAssumption DEF BufferSize
<1>2. n % Base \in 0..(Base - 1) /\ n \div Base \in Nat /\ (n \div Base) * Base + (n % Base) = n
  BY <1>1, SMT
<1>3. n \div Base < Base
  BY <1>1, <1>2, SMT
<1>. QED BY <1>1, <1>2, <1>3 DEF Byte, SizeOf

\* A frame, byte by byte.
LEMMA FrameShape ==
  ASSUME NEW p \in Byte, NEW data \in Seq(Byte), Len(data) < BufferSize
  PROVE  /\ Frame(data, p) \in Seq(Byte) /\ Len(Frame(data, p)) = 3 + Len(data) + p
         /\ SizeOf(Frame(data, p)[1], Frame(data, p)[2]) = Len(data) /\ Frame(data, p)[3] = p
         /\ \A i \in 1..Len(data) : Frame(data, p)[3 + i] = data[i]
<1>. DEFINE n == Len(data)  a == n \div Base  b == n % Base
            head == <<a, b>> \o <<p>>  body == head \o data  pad == [i \in 1..p |-> 0]
<1>0. n \in Nat /\ p \in Nat /\ 0 \in Byte
  BY PaddingAssumption DEF Byte
<1>1. a \in Byte /\ b \in Byte /\ SizeOf(a, b) = n
  BY <1>0, SizeStated, Zenon
<1>2. Frame(data, p) = body \o pad
  BY DEF Frame, SizeBytes
<1>. HIDE DEF a, b
<1>3. head \in Seq(Byte) /\ Len(head) = 3 /\ head[1] = a /\ head[2] = b /\ head[3] = p
  BY <1>1
<1>4. pad \in Seq(Byte) /\ Len(pad) = p
  BY <1>0
<1>. HIDE DEF head, pad
<1>5. /\ body \in Seq(Byte) /\ Len(body) = 3 + n
      /\ \A i \in 1..3 : body[i] = head[i] /\ \A j \in 1..n : body[3 + j] = data[j]
  <2>1. /\ body \in Seq(Byte) /\ Len(body) = Len(head) + Len(data)
        /\ \A i \in 1..Len(head) : body[i] = head[i]
        /\ \A i \in 1..Len(data) : body[Len(head) + i] = data[i]
    <3>1. Joined(head, data, Byte)
      BY <1>3, Follows, Zenon
    <3>. QED BY <3>1 DEF Joined
  <2>. QED BY <1>3, <2>1, Zenon
<1>. HIDE DEF body
<1>6. /\ body \o pad \in Seq(Byte) /\ Len(body \o pad) = 3 + n + p
      /\ \A i \in 1..(3 + n) : (body \o pad)[i] = body[i]
  <2>1. /\ body \o pad \in Seq(Byte) /\ Len(body \o pad) = Len(body) + Len(pad)
        /\ \A i \in 1..Len(body) : (body \o pad)[i] = body[i]
    <3>1. Joined(body, pad, Byte)
      BY <1>4, <1>5, Follows, Zenon
    <3>. QED BY <3>1 DEF Joined
  <2>. QED BY <1>4, <1>5, <2>1
<1>7. 1 \in 1..(3 + n) /\ 2 \in 1..(3 + n) /\ 3 \in 1..(3 + n) /\ \A i \in 1..n : 3 + i \in 1..(3 + n)
  BY <1>0
<1>8. body[1] = a /\ body[2] = b /\ body[3] = p /\ \A j \in 1..n : body[3 + j] = data[j]
  BY <1>3, <1>5
<1>. HIDE DEF n
<1>9. /\ (body \o pad)[1] = a /\ (body \o pad)[2] = b /\ (body \o pad)[3] = p
      /\ \A i \in 1..n : (body \o pad)[3 + i] = data[i]
  BY <1>6, <1>7, <1>8, Zenon
<1>. QED BY <1>1, <1>2, <1>6, <1>9, Zenon DEF n

\* The size of the buffer is a number, and a frame's payload leaves room in it.
LEMMA Sizes ==
  /\ BufferSize \in Nat /\ BufferSize >= 9 /\ Byte \subseteq Nat
  /\ \A p \in Byte : MaxPayload(p) \in Nat /\ MaxPayload(p) + 3 + p < BufferSize
<1>1. Base * Base \in Nat /\ Base * Base >= 3 * Base
  BY PaddingAssumption
<1>. QED BY <1>1, PaddingAssumption DEF BufferSize, Byte, MaxPayload

(* Whatever padding is drawn, what AddPadding frames after a read of at most *)
(* MaxPayload bytes fits the pooled buffer, its size is the one that         *)
(* RemovePadding computes of the header, and the size fits two bytes.        *)
THEOREM FramesFit ==
  ASSUME NEW p \in Byte, NEW data \in Seq(Byte), Len(data) <= MaxPayload(p)
  PROVE  /\ Len(Frame(data, p)) <= BufferSize
         /\ \A i \in 1..3 : Frame(data, p)[i] \in Byte
         /\ SizeOf(Frame(data, p)[1], Frame(data, p)[2]) = Len(data)
<1>1. p \in Nat /\ Len(data) \in Nat /\ BufferSize \in Nat /\ Len(data) + 3 + p < BufferSize
  BY PaddingAssumption, Sizes, SMTT(60) DEF Byte
<1>2. /\ Frame(data, p) \in Seq(Byte) /\ Len(Frame(data, p)) = 3 + Len(data) + p
      /\ SizeOf(Frame(data, p)[1], Frame(data, p)[2]) = Len(data)
  <2>1. Len(data) < BufferSize
    BY <1>1
  <2>. QED BY <2>1, FrameShape, Zenon
<1>. QED BY <1>1, <1>2

\* A frame that follows whole frames is one of them, and its payload is said.
LEMMA AppendFrame ==
  ASSUME NEW w \in Seq(Byte), NEW k \in 0..NumFirstPaddings, k < NumFirstPaddings, Framed(w, k),
         NEW p \in Byte, NEW data \in Seq(Byte), data # <<>>, Len(data) < BufferSize
  PROVE  /\ w \o Frame(data, p) \in Seq(Byte) /\ Framed(w \o Frame(data, p), k + 1)
         /\ Unframe(w \o Frame(data, p)) = Unframe(w) \o data
<1>. DEFINE n == NumFirstPaddings  f == Frame(data, p)  v == w \o f  a == Len(w)  d == Len(data)
<1>0. /\ n \in Nat /\ k \in Nat /\ k + 1 \in 0..n /\ k + 1 \in 1..n /\ (k + 1) - 1 = k /\ k \in 0..k
      /\ a \in Nat /\ a \in 0..a /\ d \in Nat /\ d # 0 /\ p \in Nat
  BY PaddingAssumption DEF Byte
<1>1. /\ f \in Seq(Byte) /\ Len(f) = 3 + d + p /\ SizeOf(f[1], f[2]) = d /\ f[3] = p
      /\ \A i \in 1..d : f[3 + i] = data[i]
  BY FrameShape, Zenon
<1>. HIDE DEF f
<1>2. /\ v \in Seq(Byte) /\ Len(v) = a + Len(f) /\ \A i \in 1..Len(f) : v[a + i] = f[i]
      /\ Starts(w, v)
  <2>1. /\ v \in Seq(Byte) /\ Len(v) = Len(w) + Len(f)
        /\ \A i \in 1..Len(f) : v[Len(w) + i] = f[i]
    <3>1. Joined(w, f, Byte)
      BY <1>1, Follows, Zenon
    <3>. QED BY <3>1 DEF Joined
  <2>2. Starts(w, v)
    BY <1>1, StartsConcat, Zenon
  <2>. QED BY <2>1, <2>2
<1>. HIDE DEF v
<1>3. /\ a \in 0..Len(v) /\ Len(v) = a + 3 + d + p /\ a + 3 <= Len(v)
      /\ Size(v, a) = d /\ v[a + 3] = p /\ \A i \in 1..d : v[a + 3 + i] = data[i]
  <2>1. v[a + 1] = f[1] /\ v[a + 2] = f[2] /\ v[a + 3] = f[3]
    <3>1. 1 \in 1..Len(f) /\ 2 \in 1..Len(f) /\ 3 \in 1..Len(f)
      BY <1>0, <1>1
    <3>. QED BY <1>2, <3>1, Zenon
  <2>2. Size(v, a) = d /\ v[a + 3] = p
    BY <1>1, <2>1, Zenon DEF Size
  <2>3. ASSUME NEW i \in 1..d PROVE v[a + 3 + i] = data[i]
    <3>1. 3 + i \in 1..Len(f) /\ a + (3 + i) = a + 3 + i
      BY <1>0, <1>1
    <3>2. v[a + (3 + i)] = f[3 + i] /\ f[3 + i] = data[i]
      BY <1>1, <1>2, <3>1, Zenon
    <3>. QED BY <3>1, <3>2, SMTT(30)
  <2>4. Len(v) = a + 3 + d + p /\ a \in 0..Len(v) /\ a + 3 <= Len(v)
    BY <1>0, <1>1, <1>2, SMTT(30)
  <2>. QED BY <2>2, <2>3, <2>4
<1>4. FrameEnd(v, a) = Len(v) /\ Complete(v, a)
  BY <1>0, <1>3 DEF FrameEnd, Complete, UpTo
<1>5. Payload(v, a) = data
  <2>. DEFINE q == SubSeq(v, a + 4, a + 3 + d)
  <2>1. Payload(v, a) = q
    BY <1>0, <1>3, SMTT(60) DEF Payload, UpTo
  <2>2. q \in Seq(Byte) /\ Len(q) = d /\ \A i \in 1..d : q[i] = v[a + 3 + i]
    <3>1. a \in Nat /\ d \in Nat /\ v \in Seq(Byte) /\ a + 3 + d <= Len(v)
      BY <1>0, <1>2, <1>3
    <3>. HIDE DEF a, d
    <3>. DEFINE m == a + 3
    <3>2. m \in Nat /\ m + d <= Len(v) /\ m + 1 = a + 4 /\ m + d = a + 3 + d
      BY <3>1
    <3>. HIDE DEF m
    <3>3. q \in Seq(Byte) /\ Part(q, v, m, d)
      BY <3>1, <3>2, PartOf, Zenon
    <3>. QED BY <3>3, Zenon DEF Part, m
  <2>. HIDE DEF q
  <2>3. q = data
    BY <1>3, <2>2, SameSequence, Zenon
  <2>. QED BY <2>1, <2>3, SMTT(30)
<1>6. FrameAt(w)[k] = a /\ Unframe(w) = Payloads(w)[k]
  <2>1. FrameAt(w)[k] = Len(w)
    BY DEF Framed
  <2>2. Unframe(w) = Payloads(w)[k]
    BY <2>1, SoFar, Zenon
  <2>. QED BY <2>1, <2>2
<1>7. FrameAt(v)[k] = a /\ Payloads(v)[k] = Unframe(w)
  <2>1. Same(w, v, k)
    BY <1>0, <1>2, WholeSame, Zenon
  <2>. QED BY <1>6, <2>1 DEF Same
<1>8. FrameAt(v)[k + 1] = Len(v) /\ Payloads(v)[k + 1] = Unframe(w) \o data
  <2>1. Decoded(v)
    BY <1>2, Decodes, Zenon
  <2>2. /\ FrameAt(v)[k + 1] = FrameEnd(v, FrameAt(v)[k])
        /\ Payloads(v)[k + 1] = Payloads(v)[k] \o Payload(v, FrameAt(v)[k])
    BY <1>0, <2>1, Zenon DEF Decoded
  <2>. QED BY <1>4, <1>5, <1>7, <2>2
<1>9. Unframe(v) = Unframe(w) \o data
  <2>1. Unframe(v) = Payloads(v)[k + 1]
    BY <1>0, <1>2, <1>8, SoFar, Zenon
  <2>. QED BY <1>8, <2>1
<1>10. Framed(v, k + 1)
  <2>1. ASSUME NEW i \in 1..(k + 1)
        PROVE  Complete(v, FrameAt(v)[i - 1]) /\ Size(v, FrameAt(v)[i - 1]) # 0
    <3>1. CASE i \in 1..k
      <4>1. i \in 0..k /\ i > 0
        BY <1>0, <3>1
      <4>. QED BY <1>2, <4>1, WholeSame, Zenon
    <3>2. CASE i = k + 1
      BY <1>0, <1>3, <1>4, <1>7, <3>2, ZenonT(60)
    <3>. QED BY <1>0, <3>1, <3>2, SMTT(30)
  <2>. QED BY <1>8, <2>1, Zenon DEF Framed
<1>. QED BY <1>2, <1>9, <1>10 DEF v, f

\* No header that arrives of such a stream states an empty payload.
LEMMA Proper ==
  ASSUME NEW w \in Seq(Byte), NEW v \in Seq(Byte), Starts(w, v),
         NEW k \in 0..NumFirstPaddings, Framed(v, k),
         NEW i \in 1..NumFirstPaddings, FrameAt(w)[i - 1] + 3 <= Len(w)
  PROVE  Size(w, FrameAt(w)[i - 1]) # 0
<1>. DEFINE n == NumFirstPaddings  a == FrameAt(w)[i - 1]
<1>0. n \in Nat /\ i - 1 \in 0..n
  BY PaddingAssumption
<1>1. a \in 0..Len(w)
  BY <1>0, Decodes, Zenon DEF Decoded
<1>2. a # Len(w)
  BY <1>1
<1>3. Same(w, v, i - 1)
  BY <1>0, <1>2, Extension, Zenon DEF Cut
<1>4. FrameAt(v)[i - 1] = a
  BY <1>3 DEF Same
<1>. HIDE DEF a
<1>5. a + 3 <= Len(v) /\ Size(w, a) = Size(v, a)
  <2>1. a + 3 <= Len(w)
    BY DEF a
  <2>. QED BY <1>1, <2>1, SameHeader, Zenon
<1>6. i \in 1..k
  <2>1. SUFFICES ASSUME ~(i \in 1..k) PROVE FALSE
    OBVIOUS
  <2>2. i - 1 \in k..n /\ k < n
    BY <1>0, <2>1, SMTT(30)
  <2>3. FrameAt(v)[k] = Len(v)
    BY <2>2 DEF Framed
  <2>4. FrameAt(v)[i - 1] = Len(v)
    BY <2>2, <2>3, Later, Zenon
  <2>. QED BY <1>1, <1>4, <1>5, <2>4, SMTT(30)
<1>7. Size(v, FrameAt(v)[i - 1]) # 0
  BY <1>6, Zenon DEF Framed
<1>. QED BY <1>4, <1>5, <1>7, SMTT(30) DEF a

\* Nothing is no frame, and says nothing.
LEMMA NoFrame == <<>> \in Seq(Byte) /\ Framed(<<>>, 0) /\ Unframe(<<>>) = <<>>
<1>. DEFINE w == <<>>
<1>1. w \in Seq(Byte) /\ Len(w) = 0
  OBVIOUS
<1>2. 0 \in 0..NumFirstPaddings
  BY PaddingAssumption
<1>. HIDE DEF w
<1>3. Decoded(w)
  BY <1>1, Decodes, Zenon
<1>4. FrameAt(w)[0] = Len(w) /\ Payloads(w)[0] = <<>>
  BY <1>1, <1>3 DEF Decoded
<1>5. Unframe(w) = <<>>
  <2>1. Unframe(w) = Payloads(w)[0]
    BY <1>1, <1>2, <1>4, SoFar, Zenon
  <2>. QED BY <1>4, <2>1
<1>6. Framed(w, 0)
  BY <1>4 DEF Framed
<1>. QED BY <1>1, <1>5, <1>6 DEF w

\* m writes dd, of which the first are framed as ss.
Writes(dd, ss, m) ==
  \A i \in 1..m :
    /\ dd[i] \in Seq(Byte) /\ dd[i] # <<>> /\ Len(dd[i]) < BufferSize
    /\ IF i <= NumFirstPaddings THEN \E p \in Byte : ss[i] = Frame(dd[i], p) ELSE ss[i] = dd[i]

\* What they make, one after the other, is so many whole frames and the rest, and
\* says what was written.
LEMMA WritesFramed ==
  ASSUME NEW m \in Nat, NEW dd, NEW ss, Writes(dd, ss, m), NEW f, Flattening(ss, f, m),
         NEW g, Flattening(dd, g, m)
  PROVE  f[m] \in Seq(Byte) /\ Framed(f[m], UpTo(m, NumFirstPaddings)) /\ Unframe(f[m]) = g[m]
<1>. DEFINE n == NumFirstPaddings
            Claim(j) == f[j] \in Seq(Byte) /\ Framed(f[j], UpTo(j, n)) /\ Unframe(f[j]) = g[j]
            T == {j \in Nat : j <= m => Claim(j)}
<1>0. n \in Nat
  BY PaddingAssumption
<1>1. 0 \in T
  <2>1. f[0] = <<>> /\ g[0] = <<>>
    BY DEF Flattening
  <2>2. UpTo(0, n) = 0
    BY <1>0 DEF UpTo
  <2>3. Claim(0)
    BY <2>1, <2>2, NoFrame, Zenon
  <2>. QED BY <2>3
<1>2. ASSUME NEW j \in T PROVE j + 1 \in T
  <2>1. CASE j + 1 <= m
    <3>. DEFINE i == j + 1
    <3>0. j \in Nat /\ Claim(j) /\ i \in 1..m /\ i - 1 = j
      BY <2>1
    <3>1. f[i] = f[j] \o ss[i] /\ g[i] = g[j] \o dd[i]
      BY <3>0, Zenon DEF Flattening
    <3>2. /\ dd[i] \in Seq(Byte) /\ dd[i] # <<>> /\ Len(dd[i]) < BufferSize
          /\ IF i <= n THEN \E p \in Byte : ss[i] = Frame(dd[i], p) ELSE ss[i] = dd[i]
      BY <3>0, Zenon DEF Writes
    <3>3. CASE i <= n
      <4>1. PICK p \in Byte : ss[i] = Frame(dd[i], p)
        BY <3>2, <3>3, Zenon
      <4>2. UpTo(j, n) = j /\ UpTo(i, n) = j + 1 /\ j \in 0..n /\ j < n
        BY <1>0, <3>0, <3>3 DEF UpTo
      <4>3. /\ f[j] \o Frame(dd[i], p) \in Seq(Byte) /\ Framed(f[j] \o Frame(dd[i], p), j + 1)
            /\ Unframe(f[j] \o Frame(dd[i], p)) = Unframe(f[j]) \o dd[i]
        <5>1. f[j] \in Seq(Byte) /\ Framed(f[j], j)
          BY <3>0, <4>2, Zenon
        <5>. QED BY <3>2, <4>2, <5>1, AppendFrame, Zenon
      <4>4. Unframe(f[j]) = g[j]
        BY <3>0, Zenon
      <4>5. Claim(i)
        BY <3>1, <4>1, <4>2, <4>3, <4>4, Zenon
      <4>. HIDE DEF Claim
      <4>. QED BY <3>0, <4>5
    <3>4. CASE ~(i <= n)
      <4>1. UpTo(j, n) = n /\ UpTo(i, n) = n
        BY <1>0, <3>0, <3>4 DEF UpTo
      <4>2. /\ f[j] \o dd[i] \in Seq(Byte) /\ Framed(f[j] \o dd[i], n)
            /\ Unframe(f[j] \o dd[i]) = Unframe(f[j]) \o dd[i]
        <5>1. f[j] \in Seq(Byte) /\ Framed(f[j], n)
          BY <3>0, <4>1, Zenon
        <5>. QED BY <3>2, <5>1, AppendRest, Zenon
      <4>3. Unframe(f[j]) = g[j] /\ ss[i] = dd[i]
        BY <3>0, <3>2, <3>4, Zenon
      <4>4. Claim(i)
        BY <3>1, <4>1, <4>2, <4>3, Zenon
      <4>. HIDE DEF Claim
      <4>. QED BY <3>0, <4>4, SMTT(30)
    <3>. QED BY <3>3, <3>4
  <2>. QED BY <2>1, SMTT(30)
<1>3. T = Nat
  <2>1. T \in SUBSET Nat OBVIOUS
  <2>. HIDE DEF T
  <2>. QED BY <1>1, <1>2, <2>1, SetInduction, Zenon
<1>4. Claim(m)
  <2>. HIDE DEF Claim
  <2>. QED BY <1>3, SMTT(30)
<1>. QED BY <1>4

-----------------------------------------------------------------------------
(* One direction and the other *)

\* What was written with the functions of the state, as far as their domains go.
Types ==
  /\ pc \in [Direction -> {"off", "read", "payload", "junk", "write", "flush", "finish", "done"}]
  /\ DOMAIN end = Direction
  /\ DOMAIN er = Direction
  /\ broken \in [Direction -> BOOLEAN] /\ fin \in [Direction -> BOOLEAN]
  /\ handler \in {"buffered", "head", "dual", "client", "target", "done"}

\* The copies start together, and the handler closes after the downward one.
Phases ==
  /\ pc["up"] = "off" <=> pc["down"] = "off"
  /\ handler \in {"buffered", "head"} => pc["down"] = "off"
  /\ handler \in {"client", "target", "done"} => pc["down"] \in {"off", "done"}
  /\ closed # {} => handler \in {"target", "done"}

\* A copy has an error, or is over, only for a reason.
Reasons ==
  /\ (er["up"] # "nil" \/ pc["up"] \in {"finish", "done"}) =>
       end["up"] # "open" \/ broken["up"] \/ closed # {}
  /\ (er["down"] # "nil" \/ pc["down"] \in {"finish", "done"}) =>
       end["down"] # "open" \/ broken["down"]
  /\ fin["up"] => pc["up"] = "done" \/ closed # {}

\* The copies and the handler.
IInv == Types /\ Phases /\ Reasons

\* A read fails only if its source has ended its stream or was closed.
LEMMA ReadReason ==
  ASSUME NEW d \in Direction, NEW n,
         NEW r \in Reads(d, n) \cup FullReads(d, n), r[2] # "nil", Source(d) \notin closed
  PROVE  end[d] # "open"
BY DEF Reads, FullReads, Over, Open

\* After a write the copy goes on, unless its last read failed.
LEMMA AfterWriteReason ==
  \A d \in Direction : AfterWrite(d) = "read" \/ (AfterWrite(d) = "finish" /\ er[d] # "nil")
BY SMTT(30) DEF AfterWrite

\* Init establishes the invariant.
LEMMA Initially == Init => IInv
BY SMTT(30) DEF Init, IInv, Types, Phases, Reasons, Direction

\* Each step of the handler preserves the invariant.
LEMMA HandleStep == ASSUME IInv, Handle PROVE IInv'
<1>. USE DEF IInv, Types, Phases, Reasons, Direction, streams, loop
<1>1. CASE Buffered BY <1>1, ZenonT(60) DEF Buffered, PassBuffered
<1>2. CASE FlushHead BY <1>2, Zenon DEF FlushHead
<1>3. CASE DualStream BY <1>3, ZenonT(60) DEF DualStream, Returned
<1>4. CASE CloseClient BY <1>4, Zenon DEF CloseClient
<1>5. CASE CloseTarget BY <1>5 DEF CloseTarget, CloseConn
<1>. QED BY <1>1, <1>2, <1>3, <1>4, <1>5, Zenon DEF Handle

\* Each step of a copy preserves the invariant.
LEMMA CopyStep == ASSUME IInv, NEW d \in Direction, Copy(d) PROVE IInv'
<1>. USE DEF IInv, Types, Phases, Reasons, Direction, streams, loop, Goto
<1>1. CASE ReadPlain(d)
  <2>1. PICK r \in Reads(d, BufferSize) : er' = [er EXCEPT ![d] = r[2]]
    BY <1>1, Zenon DEF ReadPlain, Got
  <2>2. r[2] = "nil" \/ end[d] # "open" \/ Source(d) \in closed
    BY <2>1, ReadReason, ZenonT(60)
  <2>. QED BY <1>1, <2>1, <2>2, SMTT(30) DEF ReadPlain, Source
<1>2. CASE Write(d)
  <2>1. /\ pc[d] = "write"
        /\ UNCHANGED <<end, fin, handler, closed>>
    BY <1>2, Zenon DEF Write
  <2>2. \/ /\ UNCHANGED <<er, broken>>
           /\ pc' = [pc EXCEPT ![d] = "flush"] \/ pc' = [pc EXCEPT ![d] = AfterWrite(d)]
        \/ WriteFails(d) /\ pc' = [pc EXCEPT ![d] = "finish"]
    BY <1>2, Zenon DEF Write, AfterFull
  <2>3. CASE UNCHANGED <<er, broken>> /\ pc' = [pc EXCEPT ![d] = "flush"]
    BY <2>1, <2>3, Zenon
  <2>4. CASE UNCHANGED <<er, broken>> /\ pc' = [pc EXCEPT ![d] = AfterWrite(d)]
    BY <2>1, <2>4, AfterWriteReason, Zenon
  <2>5. CASE WriteFails(d) /\ pc' = [pc EXCEPT ![d] = "finish"]
    BY <2>1, <2>5, Zenon DEF WriteFails
  <2>. QED BY <2>2, <2>3, <2>4, <2>5, Zenon
<1>3. CASE CloseWrite(d) BY <1>3, ZenonT(60) DEF CloseWrite
<1>4. CASE d = "up" /\ ReadHeader
  <2>1. PICK r \in FullReads("up", 3) :
          er' = er \/ (er' = [er EXCEPT !["up"] = r[2]])
    BY <1>4, Zenon DEF ReadHeader, Got
  <2>2. r[2] = "nil" \/ end["up"] # "open" \/ Source("up") \in closed
    BY <2>1, ReadReason, Zenon
  <2>3. pc' = [pc EXCEPT !["up"] = "write"] \/ pc' = [pc EXCEPT !["up"] = "payload"]
    BY <1>4, ZenonT(60) DEF ReadHeader
  <2>4. pc["up"] = "read" /\ UNCHANGED <<end, broken, fin, handler, closed>>
    BY <1>4, Zenon DEF ReadHeader, streams
  <2>. QED BY <1>4, <2>1, <2>2, <2>3, <2>4, ZenonT(200) DEF Source
<1>5. CASE d = "up" /\ ReadPayload
  <2>1. PICK r \in FullReads("up", frame.size) :
          /\ er' = [er EXCEPT !["up"] = r[2]]
          /\ pc' = [pc EXCEPT !["up"] = "junk"] \/ pc' = [pc EXCEPT !["up"] = "write"]
    BY <1>5, Zenon DEF ReadPayload, Got
  <2>2. r[2] = "nil" \/ end["up"] # "open" \/ Source("up") \in closed
    BY <2>1, ReadReason, Zenon
  <2>3. pc["up"] = "payload" /\ UNCHANGED <<end, broken, fin, handler, closed>>
    BY <1>5, Zenon DEF ReadPayload, streams
  <2>. QED BY <1>5, <2>1, <2>2, <2>3, ZenonT(60) DEF Source
<1>6. CASE d = "up" /\ ReadJunk
  <2>1. PICK r \in FullReads("up", frame.pad) : er' = [er EXCEPT !["up"] = r[2]]
    BY <1>6, Zenon DEF ReadJunk, SkipPadding
  <2>2. r[2] = "nil" \/ end["up"] # "open" \/ Source("up") \in closed
    BY <2>1, ReadReason, Zenon
  <2>. QED BY <1>6, <2>1, <2>2, Zenon DEF ReadJunk, Source
<1>7. CASE d = "down" /\ ReadToFrame
  <2>1. PICK p \in Byte : \E r \in Reads("down", MaxPayload(p)) : er' = [er EXCEPT !["down"] = r[2]]
    BY <1>7, Zenon DEF ReadToFrame, Got
  <2>2. PICK r \in Reads("down", MaxPayload(p)) : er' = [er EXCEPT !["down"] = r[2]]
    BY <2>1, Zenon
  <2>3. r[2] = "nil" \/ end["down"] # "open" \/ Source("down") \in closed
    BY <2>2, ReadReason, Zenon
  <2>. QED BY <1>7, <2>2, <2>3, Zenon DEF ReadToFrame, Source
<1>8. CASE d = "down" /\ Flush
  <2>1. /\ pc[d] = "flush"
        /\ UNCHANGED <<end, fin, handler, closed>>
    BY <1>8, Zenon DEF Flush
  <2>2. \/ UNCHANGED <<er, broken>> /\ pc' = [pc EXCEPT ![d] = AfterWrite(d)]
        \/ WriteFails(d) /\ pc' = [pc EXCEPT ![d] = "finish"]
    BY <1>8, Zenon DEF Flush
  <2>3. CASE UNCHANGED <<er, broken>> /\ pc' = [pc EXCEPT ![d] = AfterWrite(d)]
    BY <2>1, <2>3, AfterWriteReason, Zenon
  <2>4. CASE WriteFails(d) /\ pc' = [pc EXCEPT ![d] = "finish"]
    BY <2>1, <2>4, ZenonT(60) DEF WriteFails
  <2>. QED BY <2>2, <2>3, <2>4, Zenon
<1>. QED BY <1>1, <1>2, <1>3, <1>4, <1>5, <1>6, <1>7, <1>8, ZenonT(60) DEF Copy

\* The peers, and a step in which nothing happens, preserve the invariant.
LEMMA OtherStep ==
  ASSUME IInv, UNCHANGED vars \/ \E d \in Direction : SourceEnds(d) PROVE IInv'
<1>1. CASE UNCHANGED vars
  BY <1>1, ZenonT(60) DEF IInv, Types, Phases, Reasons, streams, loop, vars
<1>2. ASSUME NEW d \in Direction, SourceEnds(d) PROVE IInv'
  BY <1>2, ZenonT(60) DEF IInv, Types, Phases, Reasons, Direction, streams, loop, SourceEnds
<1>. QED BY <1>1, <1>2, Zenon

\* The invariant holds throughout.
LEMMA Invariance == Spec => []IInv
<1>1. IInv /\ [Next]_vars => IInv'
  BY HandleStep, CopyStep, OtherStep DEF Next
<1>. QED BY <1>1, Initially, PTL DEF Spec

(* dualStream never lets one direction end the other: a client that has      *)
(* half-closed still gets its answer, and a target sees the end only of what *)
(* the client ended, unless it is torn down.                                 *)
THEOREM DirectionsIndependent == Spec => []HalfCloseKept
<1>1. IInv => HalfCloseKept
  BY SMTT(30) DEF IInv, Types, Phases, Reasons, HalfCloseKept, Direction
<1>. QED BY <1>1, Invariance, PTL

-----------------------------------------------------------------------------
(* The streams of a tunnel *)

\* What a peer makes of w in a tunnel of kind kd, and, as far as k frames go, where
\* the rest begins and what came before it.
Meant(kd, w) == IF kd = "padded" THEN Unframe(w) ELSE w
From(kd, w, k) == IF kd = "padded" THEN FrameAt(w)[k] ELSE 0
Before(kd, w, k) == IF kd = "padded" THEN Payloads(w)[k] ELSE <<>>

\* out is what w says up to position p, which is after its k-th frame.
Caught(kd, w, k, p, out) ==
  /\ From(kd, w, k) <= p
  /\ (kd = "padded" /\ k < NumFirstPaddings) => p = From(kd, w, k)
  /\ out = Before(kd, w, k) \o SubSeq(w, From(kd, w, k) + 1, p)

\* The types of the streams and of what the copies hold.
StreamTypes ==
  /\ wire \in [Direction -> Seq(Byte)] /\ sent \in [Direction -> Seq(Byte)]
  /\ recv \in [Direction -> Seq(Byte)] /\ buf \in [Direction -> Seq(Byte)]
  /\ unflushed \in Seq(Byte)
  /\ pos \in [Direction -> Nat] /\ \A d \in Direction : pos[d] <= Len(wire[d])
  /\ \A d \in Direction : Len(buf[d]) <= BufferSize
  /\ num \in [Direction -> 0..NumFirstPaddings]
  /\ end \in [Direction -> {"open", "eof", "reset"}] /\ er \in [Direction -> {"nil", "eof", "err"}]
  /\ frame.size \in 0..(BufferSize - 1) /\ frame.pad \in Byte
  /\ closed \subseteq {"client", "target"}

\* What arrives is the beginning of what is sent, which a client that pads frames.
SentInv ==
  /\ Starts(wire["up"], sent["up"]) /\ wire["down"] = sent["down"]
  /\ kind = "padded" => \E k \in 0..NumFirstPaddings : Framed(sent["up"], k)

\* The upward copy has read the header of a frame, or what there is of it ...
AtPayload ==
  LET w == wire["up"]  k == num["up"]  a == FrameAt(w)[k - 1] IN
  /\ recv["up"] = Payloads(w)[k - 1]
  /\ \/ /\ a + 3 <= Len(w) /\ pos["up"] = a + 3
        /\ frame.size = Size(w, a) /\ frame.size # 0 /\ frame.pad = w[a + 3]
     \/ Len(w) < a + 3 /\ pos["up"] = Len(w)

\* ... and its payload, or what there is of it.
AtJunk ==
  LET w == wire["up"]  k == num["up"]  a == FrameAt(w)[k - 1] IN
  /\ recv["up"] = Payloads(w)[k - 1] /\ buf["up"] = Payload(w, a)
  /\ a + 3 <= Len(w) /\ frame.pad = w[a + 3]
  /\ pos["up"] = UpTo(a + 3 + Size(w, a), Len(w))

\* A copy that has not failed to write holds, or has passed on, what it has read.
UpHeld ==
  LET w == wire["up"]  out == recv["up"] \o buf["up"] IN
  /\ pc["up"] \in {"off", "read"} => Caught(kind, w, num["up"], pos["up"], recv["up"])
  /\ pc["up"] = "payload" => AtPayload
  /\ pc["up"] = "junk" => AtJunk
  /\ pc["up"] \in {"write", "finish", "done"} =>
       /\ Starts(out, Meant(kind, w))
       /\ er["up"] # "err" => Caught(kind, w, num["up"], pos["up"], out)
       /\ er["up"] = "eof" => pos["up"] = Len(w)

\* When the upward copy holds something, and when it has an error.
UpPhases ==
  /\ pc["up"] # "flush"
  /\ pc["up"] \in {"payload", "junk"} => kind = "padded" /\ num["up"] # 0
  /\ pc["up"] \notin {"write", "junk"} => buf["up"] = <<>>
  /\ pc["up"] \in {"off", "read"} => er["up"] = "nil"
  /\ handler = "buffered" => pos["up"] = 0 /\ recv["up"] = <<>>
  /\ handler \in {"buffered", "head"} => kind = "hijack"

\* The upward copy: what the target gets is the beginning of what arrived says.
UpInv ==
  /\ UpPhases
  /\ Starts(recv["up"], Meant(kind, wire["up"]))
  /\ ~broken["up"] => UpHeld

\* All that the downward copy has taken from the target.
Output == (recv["down"] \o unflushed) \o buf["down"]

\* What the downward copy has taken is what the target said so far, in whole frames.
DownHeld ==
  /\ Meant(kind, Output) = SubSeq(wire["down"], 1, pos["down"])
  /\ er["down"] = "nil" /\ kind = "padded" => Framed(Output, num["down"])
  /\ er["down"] = "eof" => pos["down"] = Len(wire["down"])

\* When the downward copy holds something, and when it has an error.
DownPhases ==
  /\ pc["down"] \notin {"payload", "junk"}
  /\ broken["down"] => pc["down"] \in {"finish", "done"}
  /\ pc["down"] # "write" => buf["down"] = <<>>
  /\ pc["down"] \in {"off", "read"} => er["down"] = "nil"
  /\ pc["down"] = "off" => unflushed = <<>>
  /\ kind = "hijack" \/ handler = "done" => unflushed = <<>>

\* The downward copy: what the client gets says the beginning of what the target says.
DownInv ==
  /\ DownPhases
  /\ Starts(Meant(kind, recv["down"]), wire["down"])
  /\ ~broken["down"] => DownHeld

\* What a copy has caught is the beginning of what the stream says; at the end of
\* the stream it is all of it.
LEMMA CaughtSays ==
  ASSUME NEW kd, NEW w \in Seq(Byte), NEW k \in 0..NumFirstPaddings, NEW p \in 0..Len(w), NEW out,
         Caught(kd, w, k, p, out)
  PROVE  /\ out \in Seq(Byte) /\ Meant(kd, w) \in Seq(Byte) /\ Starts(out, Meant(kd, w))
         /\ p = Len(w) => out = Meant(kd, w)
<1>0. NumFirstPaddings \in Nat /\ Len(w) \in Nat /\ SubSeq(w, 1, p) \in Seq(Byte)
  BY PaddingAssumption, SMTT(30)
<1>1. CASE kd = "padded"
  <2>. DEFINE a == FrameAt(w)[k]  x == Payloads(w)[k]  r == SubSeq(w, a + 1, p)
  <2>1. a \in 0..Len(w) /\ x \in Seq(Byte)
    BY Decodes, Zenon DEF Decoded
  <2>2. out = x \o r /\ a <= p /\ (k < NumFirstPaddings => p = a) /\ Meant(kd, w) = Unframe(w)
    BY <1>1 DEF Caught, From, Before, Meant
  <2>3. Unframe(w) \in Seq(Byte)
    BY UnframeType, Zenon
  <2>4. Starts(x, Unframe(w)) /\ (a = Len(w) => Unframe(w) = x)
    BY SoFar, Zenon
  <2>. HIDE DEF a, x
  <2>5. r \in Seq(Byte) /\ (p = a => r = <<>>)
    BY <2>1, SMTT(30)
  <2>6. x \o r \in Seq(Byte) /\ x \o <<>> = x
    <3>. HIDE DEF r
    <3>. QED BY <2>1, <2>5, SMTT(30)
  <2>7. CASE p = a
    BY <2>2, <2>3, <2>4, <2>5, <2>6, <2>7, Zenon
  <2>8. CASE k = NumFirstPaddings
    <3>. DEFINE t == SubSeq(w, a + 1, Len(w))
    <3>1. Unframe(w) = x \o t
      BY <2>8, ZenonT(60) DEF Unframe, a, x
    <3>2. t \in Seq(Byte) /\ Starts(r, t)
      BY <1>0, <2>1, <2>2, SMTT(30) DEF Starts
    <3>3. p = Len(w) => r = t
      OBVIOUS
    <3>. HIDE DEF r, t
    <3>4. Starts(x \o r, x \o t)
      BY <2>1, <2>5, <3>2, StartsConcat, Zenon
    <3>. QED BY <2>2, <2>3, <2>6, <3>1, <3>3, <3>4, Zenon
  <2>. QED BY <1>0, <2>2, <2>7, <2>8, SMTT(60)
<1>2. CASE kd # "padded"
  <2>. DEFINE x == SubSeq(w, 1, p)
  <2>1. <<>> \o x = x /\ x \in Seq(Byte)
    BY <1>0
  <2>2. out = x /\ Meant(kd, w) = w
    <3>1. 0 + 1 = 1
      OBVIOUS
    <3>. QED BY <1>2, <2>1, <3>1, Zenon DEF Caught, From, Before, Meant
  <2>3. Starts(x, w)
    BY <1>0 DEF Starts
  <2>4. p = Len(w) => x = w
    BY WholeSequence, Zenon
  <2>. QED BY <2>1, <2>2, <2>3, <2>4, Zenon
<1>. QED BY <1>1, <1>2, SMTT(30)

\* Bytes that follow the frames are caught as they are.
LEMMA CaughtMore ==
  ASSUME NEW kd, NEW w \in Seq(Byte), NEW k \in 0..NumFirstPaddings, NEW p \in 0..Len(w), NEW out,
         Caught(kd, w, k, p, out), ~(kd = "padded" /\ k < NumFirstPaddings),
         NEW n \in Nat, p + n <= Len(w)
  PROVE  Caught(kd, w, k, p + n, out \o SubSeq(w, p + 1, p + n))
<1>. DEFINE a == From(kd, w, k)  x == Before(kd, w, k)
            r == SubSeq(w, a + 1, p)  s == SubSeq(w, p + 1, p + n)  t == SubSeq(w, a + 1, p + n)
<1>1. a \in 0..Len(w) /\ x \in Seq(Byte)
  <2>1. FrameAt(w)[k] \in 0..Len(w) /\ Payloads(w)[k] \in Seq(Byte)
    BY Decodes, Zenon DEF Decoded
  <2>2. 0 \in 0..Len(w) /\ <<>> \in Seq(Byte)
    BY SMTT(30)
  <2>. QED BY <2>1, <2>2, Zenon DEF From, Before
<1>2. out = x \o r /\ a <= p
  BY DEF Caught
<1>. HIDE DEF a, x
<1>3. r \in Seq(Byte) /\ s \in Seq(Byte) /\ r \o s = t
  <2>1. p \in Nat /\ a \in Nat
    BY <1>1
  <2>2. Extended(w, a, p, n, Byte)
    BY <1>2, <2>1, FurtherFrom, Zenon
  <2>. QED BY <2>2, Zenon DEF Extended
<1>. HIDE DEF r, s, t
<1>4. Associates(x, r, s)
  BY <1>1, <1>3, Associativity, Zenon
<1>5. out \o s = x \o t
  BY <1>2, <1>3, <1>4, Zenon DEF Associates
<1>6. a <= p + n
  BY <1>1, <1>2, SMTT(30)
<1>. QED BY <1>5, <1>6, Zenon DEF Caught, a, x, s, t

\* A frame is caught when all there is of it was read.
LEMMA CaughtFrame ==
  ASSUME NEW w \in Seq(Byte), NEW k \in 1..NumFirstPaddings
  PROVE  LET a == FrameAt(w)[k - 1] IN
         /\ a \in 0..Len(w) /\ Payloads(w)[k - 1] \in Seq(Byte) /\ Payload(w, a) \in Seq(Byte)
         /\ Caught("padded", w, k, FrameEnd(w, a), Payloads(w)[k - 1] \o Payload(w, a))
<1>. DEFINE a == FrameAt(w)[k - 1]  x == Payloads(w)[k - 1] \o Payload(w, a)  e == FrameEnd(w, a)
<1>0. k - 1 \in 0..NumFirstPaddings /\ k \in 0..NumFirstPaddings
  BY PaddingAssumption
<1>1. /\ a \in 0..Len(w) /\ Payloads(w)[k - 1] \in Seq(Byte)
      /\ FrameAt(w)[k] = e /\ Payloads(w)[k] = x
  BY <1>0, Decodes, Zenon DEF Decoded
<1>2. Payload(w, a) \in Seq(Byte) /\ e \in a..Len(w)
  BY <1>1, FrameTypes, Zenon
<1>3. x \in Seq(Byte)
  <2>1. Payloads(w)[k] \in Seq(Byte)
    BY <1>0, Decodes, ZenonT(60) DEF Decoded
  <2>. QED BY <1>1, <2>1, Zenon
<1>4. e <= e
  BY <1>1, <1>2, SMTT(30)
<1>. HIDE DEF x, e
<1>5. SubSeq(w, e + 1, e) = <<>> /\ x \o <<>> = x
  BY <1>1, <1>2, <1>3
<1>6. Caught("padded", w, k, e, x)
  BY <1>1, <1>4, <1>5, Zenon DEF Caught, From, Before
<1>. QED BY <1>1, <1>2, <1>6, Zenon DEF x, e

\* What a read returns.
LEMMA ReadsFacts ==
  ASSUME StreamTypes, NEW d \in Direction, NEW cap \in Nat, NEW r \in Reads(d, cap)
  PROVE  /\ r[1] \in Nat /\ r[1] <= Avail(d) /\ r[1] <= cap /\ r[2] \in {"nil", "eof", "err"}
         /\ r[2] = "eof" => r[1] = Avail(d)
         /\ r[1] = 0 => r[2] # "nil"
<1>1. Avail(d) \in Nat
  BY SMTT(30) DEF StreamTypes, Avail
<1>2. UpTo(Avail(d), cap) <= Avail(d) /\ UpTo(Avail(d), cap) <= cap /\ UpTo(Avail(d), cap) \in Nat
  BY <1>1, SMTT(30) DEF UpTo
<1>. QED BY <1>1, <1>2, SMTT(30) DEF Reads, AtEnd, Over

\* What io.ReadFull returns.
LEMMA FullReadsFacts ==
  ASSUME StreamTypes, NEW d \in Direction, NEW n \in Nat, NEW r \in FullReads(d, n)
  PROVE  /\ r[1] \in Nat /\ r[1] <= Avail(d) /\ r[1] <= n /\ r[2] \in {"nil", "eof", "err"}
         /\ r[1] = n <=> r[2] = "nil"
         /\ r[2] = "eof" => Avail(d) = 0
         /\ (0 < r[1] /\ r[1] < n) => r[1] = Avail(d)
<1>1. Avail(d) \in Nat
  BY DEF StreamTypes, Avail
<1>. QED BY <1>1 DEF FullReads, AtEnd

\* The bytes that a read takes.
LEMMA BytesFacts ==
  ASSUME StreamTypes, NEW d \in Direction, NEW n \in Nat, n <= Avail(d)
  PROVE  /\ Bytes(d, n) \in Seq(Byte) /\ Len(Bytes(d, n)) = n
         /\ n = 0 => Bytes(d, n) = <<>>
         /\ pos[d] + n <= Len(wire[d])
<1>. DEFINE w == wire[d]  p == pos[d]
<1>1. w \in Seq(Byte) /\ p \in Nat /\ p + n <= Len(w) /\ Len(w) \in Nat
  BY SMTT(30) DEF StreamTypes, Avail
<1>. HIDE DEF w, p
<1>2. /\ SubSeq(w, p + 1, p + n) \in Seq(Byte) /\ Len(SubSeq(w, p + 1, p + n)) = n
      /\ n = 0 => SubSeq(w, p + 1, p + n) = <<>>
  BY <1>1
<1>. QED BY <1>1, <1>2, ZenonT(60) DEF Bytes, w, p

-----------------------------------------------------------------------------
(* Types *)

\* The writes of a client: of some data each, that fits a frame.
Proposed(ws) ==
  /\ ws \in Seq([data : Seq(Byte) \ {<<>>}, pad : Byte])
  /\ \A i \in DOMAIN ws : Len(ws[i].data) < BufferSize

\* The data of the writes, in one.
Data(ws) == Concat([i \in DOMAIN ws |-> ws[i].data])

\* A client that pads puts whole frames on the wire, and then the rest, and they say
\* what it wrote.
LEMMA WrittenFramed ==
  ASSUME NEW ws, Proposed(ws)
  PROVE  /\ Written(ws) \in Seq(Byte)
         /\ kind = "padded" => \E k \in 0..NumFirstPaddings : Framed(Written(ws), k)
         /\ Meant(kind, Written(ws)) = Data(ws)
<1>. DEFINE m == Len(ws)
            ss == [i \in DOMAIN ws |-> OnWire(ws[i], i)]  dd == [i \in DOMAIN ws |-> ws[i].data]
<1>1. /\ m \in Nat /\ DOMAIN ws = 1..m
      /\ \A i \in 1..m : /\ ws[i].data \in Seq(Byte) /\ ws[i].data # <<>> /\ ws[i].pad \in Byte
                         /\ Len(ws[i].data) < BufferSize
  <2>. DEFINE R == [data : Seq(Byte) \ {<<>>}, pad : Byte]
  <2>1. ws \in Seq(R) /\ \A i \in DOMAIN ws : Len(ws[i].data) < BufferSize
    BY Zenon DEF Proposed
  <2>2. \A r \in R : r.data \in Seq(Byte) /\ r.data # <<>> /\ r.pad \in Byte
    <3>. TAKE r \in R
    <3>1. r.data \in Seq(Byte) \ {<<>>} /\ r.pad \in Byte
      OBVIOUS
    <3>. QED BY <3>1, Zenon
  <2>. HIDE DEF R
  <2>3. m \in Nat /\ DOMAIN ws = 1..m /\ \A i \in 1..m : ws[i] \in R
    BY <2>1
  <2>. QED BY <2>1, <2>2, <2>3, Zenon
<1>2. \A i \in 1..m : /\ dd[i] = ws[i].data
                      /\ ss[i] = OnWire(ws[i], i)
  BY <1>1, Zenon
<1>3. DOMAIN ss = 1..m /\ DOMAIN dd = 1..m
  BY <1>1, Zenon
<1>4. \A i \in 1..m : OnWire(ws[i], i) \in Seq(Byte)
  <2>. TAKE i \in 1..m
  <2>1. Frame(ws[i].data, ws[i].pad) \in Seq(Byte)
    BY <1>1, FrameShape, ZenonT(60)
  <2>. QED BY <1>1, <2>1, Zenon DEF OnWire
<1>5. ss \in Seq(Seq(Byte)) /\ dd \in Seq(Seq(Byte)) /\ Len(ss) = m /\ Len(dd) = m
  <2>1. ss \in [1..m -> Seq(Byte)] /\ dd \in [1..m -> Seq(Byte)]
    BY <1>1, <1>4, Zenon
  <2>. HIDE DEF ss, dd, m
  <2>. QED BY <1>1, <2>1
<1>. HIDE DEF ss, dd, m
<1>6. \A i \in 1..m : ss[i] \in Seq(Byte) /\ dd[i] \in Seq(Byte)
  BY <1>1, <1>2, <1>4, Zenon
<1>7. PICK f \in [0..m -> Seq(Byte)] : Flattening(ss, f, m)
  BY <1>1, <1>6, FlatteningExists, Zenon
<1>8. PICK g \in [0..m -> Seq(Byte)] : Flattening(dd, g, m)
  BY <1>1, <1>6, FlatteningExists, Zenon
<1>9. Written(ws) = f[m] /\ Data(ws) = g[m]
  <2>1. Concat(ss) = f[m] /\ Concat(dd) = g[m]
    BY <1>5, <1>7, <1>8, ConcatDef, ZenonT(60)
  <2>. QED BY <2>1, Zenon DEF Written, Data, ss, dd
<1>10. m \in 0..m
  BY <1>1
<1>11. CASE kind = "padded"
  <2>1. Writes(dd, ss, m)
    BY <1>1, <1>2, <1>11, Zenon DEF Writes, OnWire
  <2>2. f[m] \in Seq(Byte) /\ Framed(f[m], UpTo(m, NumFirstPaddings)) /\ Unframe(f[m]) = g[m]
    BY <1>1, <1>7, <1>8, <2>1, WritesFramed, ZenonT(60)
  <2>3. UpTo(m, NumFirstPaddings) \in 0..NumFirstPaddings
    BY <1>1, PaddingAssumption, SMTT(30) DEF UpTo
  <2>. QED BY <1>9, <1>11, <2>2, <2>3, Zenon DEF Meant
<1>12. CASE kind # "padded"
  <2>1. \A i \in 1..m : ss[i] = dd[i]
    BY <1>2, <1>12, Zenon DEF OnWire
  <2>2. Flattening(dd, f, m)
    BY <1>7, <2>1, Zenon DEF Flattening
  <2>3. f[m] = g[m]
    BY <1>1, <1>8, <2>2, FlatteningUnique, ZenonT(60)
  <2>. QED BY <1>7, <1>9, <1>10, <1>12, <2>3, Zenon DEF Meant
<1>. QED BY <1>11, <1>12, Zenon

(* What AddPadding frames, RemovePadding restores, whatever is written and   *)
(* whatever padding is drawn: a peer that reads a stream of any number of    *)
(* writes, the first of them framed and the rest as they are, makes of it    *)
(* the data that was written.                                                *)
THEOREM RoundTrip ==
  ASSUME NEW ws, Proposed(ws) PROVE Meant(kind, Written(ws)) = Data(ws)
BY WrittenFramed, Zenon

\* Init establishes the types of the streams, and what a client sends.
LEMMA InitTypes == ASSUME Init PROVE StreamTypes /\ SentInv
<1>1. PICK x \in Exchanges : sent = [d \in Direction |-> IF d = "up" THEN Written(x.up) ELSE x.down]
  BY DEF Init
<1>2. x.up \in Seq([data : Seq(Byte) \ {<<>>}, pad : Byte]) /\ x.down \in Seq(Byte)
  BY ExchangesAssumption, Zenon
<1>0. Proposed(x.up)
  BY <1>2, ExchangesAssumption, Zenon DEF Proposed
<1>. DEFINE ws == x.up  s == Written(ws)
<1>3. s \in Seq(Byte) /\ (kind = "padded" => \E k \in 0..NumFirstPaddings : Framed(s, k))
  BY <1>2, <1>0, WrittenFramed, Zenon
<1>4. sent["up"] = s /\ sent["down"] = x.down /\ sent \in [Direction -> Seq(Byte)]
  <2>1. sent = [d \in Direction |-> IF d = "up" THEN s ELSE x.down]
    BY <1>1, Zenon
  <2>. HIDE DEF s
  <2>. QED BY <1>2, <1>3, <2>1, Zenon DEF Direction
<1>. HIDE DEF s
<1>5. PICK n \in 0..Len(s) : wire = [sent EXCEPT !["up"] = SubSeq(@, 1, n)]
  BY <1>4, Zenon DEF Init
<1>6. SubSeq(s, 1, n) \in Seq(Byte) /\ Starts(SubSeq(s, 1, n), s)
  BY <1>3, <1>5, SMTT(30) DEF Starts
<1>7. wire["up"] = SubSeq(s, 1, n) /\ wire["down"] = x.down /\ wire \in [Direction -> Seq(Byte)]
  <2>. DEFINE t == SubSeq(s, 1, n)
  <2>1. wire = [sent EXCEPT !["up"] = t] /\ t \in Seq(Byte)
    BY <1>4, <1>5, <1>6, Zenon
  <2>. HIDE DEF t
  <2>2. wire["up"] = t /\ wire["down"] = x.down /\ wire \in [Direction -> Seq(Byte)]
    BY <1>4, <2>1, SMTT(30) DEF Direction
  <2>. QED BY <2>2, Zenon DEF t
<1>8. SentInv
  BY <1>3, <1>4, <1>6, <1>7, ZenonT(60) DEF SentInv
<1>9. /\ recv \in [Direction -> Seq(Byte)] /\ buf \in [Direction -> Seq(Byte)] /\ unflushed \in Seq(Byte)
      /\ pos \in [Direction -> Nat] /\ \A d \in Direction : pos[d] = 0 /\ buf[d] = <<>>
      /\ num \in [Direction -> 0..NumFirstPaddings]
      /\ end \in [Direction -> {"open", "eof", "reset"}] /\ er \in [Direction -> {"nil", "eof", "err"}]
      /\ frame.size \in 0..(BufferSize - 1) /\ frame.pad \in Byte
      /\ closed \subseteq {"client", "target"}
  BY PaddingAssumption, Sizes, SMTT(30) DEF Init, Byte
<1>10. \A d \in Direction : 0 <= Len(wire[d]) /\ Len(<<>>) <= BufferSize
  BY <1>7, Sizes, SMTT(30) DEF Direction
<1>. QED BY <1>4, <1>7, <1>8, <1>9, <1>10, ZenonT(60) DEF StreamTypes

\* Init establishes the rest.
LEMMA InitStreams == ASSUME Init PROVE StreamTypes /\ SentInv /\ UpInv /\ DownInv
<1>1. StreamTypes /\ SentInv
  BY InitTypes
<1>. DEFINE u == wire["up"]  t == wire["down"]
<1>2. u \in Seq(Byte) /\ t \in Seq(Byte)
  BY <1>1, ZenonT(60) DEF StreamTypes, Direction
<1>3. /\ \A d \in Direction : /\ pos[d] = 0 /\ num[d] = 0 /\ buf[d] = <<>> /\ er[d] = "nil"
                              /\ recv[d] = <<>> /\ ~broken[d] /\ pc[d] = "off"
      /\ unflushed = <<>> /\ (handler = "buffered" => kind = "hijack")
      /\ handler \in {"buffered", "dual"}
  BY DEF Init
<1>4. "up" \in Direction /\ "down" \in Direction /\ 0 \in 0..NumFirstPaddings /\ 0 \in 0..Len(u) /\ 0 <= 0
  BY <1>2, PaddingAssumption DEF Direction
<1>5. Caught(kind, u, 0, 0, <<>>)
  <2>1. FrameAt(u)[0] = 0 /\ Payloads(u)[0] = <<>>
    BY <1>2, Decodes, Zenon DEF Decoded
  <2>2. SubSeq(u, 1, 0) = <<>> /\ <<>> \o <<>> = <<>> /\ 0 + 1 = 1
    BY <1>2
  <2>3. From(kind, u, 0) = 0 /\ Before(kind, u, 0) = <<>>
    BY <2>1, ZenonT(60) DEF From, Before
  <2>. QED BY <1>4, <2>2, <2>3, Zenon DEF Caught
<1>6. Meant(kind, <<>>) = <<>> /\ Starts(<<>>, u) /\ Starts(<<>>, t) /\ <<>> \in Seq(Byte)
  <2>1. SubSeq(u, 1, 0) = <<>> /\ SubSeq(t, 1, 0) = <<>> /\ Len(<<>>) = 0 /\ <<>> \in Seq(Byte)
    BY <1>2, SMTT(30)
  <2>. QED BY <1>2, <2>1, NoFrame, SMTT(30) DEF Meant, Starts
<1>7. Starts(<<>>, Meant(kind, u))
  BY <1>2, <1>4, <1>5, CaughtSays, Zenon
<1>8. UpInv
  BY <1>3, <1>4, <1>5, <1>7, ZenonT(60) DEF UpInv, UpPhases, UpHeld
<1>9. Output = <<>> /\ SubSeq(t, 1, 0) = <<>>
  BY <1>2, <1>3, <1>4, SMTT(30) DEF Output
<1>10. DownHeld
  BY <1>3, <1>4, <1>6, <1>9, NoFrame, Zenon DEF DownHeld
<1>11. DownInv
  BY <1>3, <1>4, <1>6, <1>10, Zenon DEF DownInv, DownPhases
<1>. QED BY <1>1, <1>8, <1>11, Zenon

\* The state of each copy.
UpSide == <<kind, frame, wire["up"], pos["up"], num["up"], buf["up"], er["up"], recv["up"], broken["up"]>>
DownSide ==
  <<kind, unflushed, wire["down"], pos["down"], num["down"], buf["down"], er["down"], recv["down"],
    broken["down"]>>

\* A step that leaves a copy's state alone, but for the start and the end of the
\* copy, keeps what is known of it.
LEMMA UpFrame ==
  ASSUME UpInv, UpSide' = UpSide,
         \/ pc'["up"] = pc["up"]
         \/ pc["up"] = "off" /\ pc'["up"] = "read"
         \/ pc["up"] = "finish" /\ pc'["up"] = "done",
         handler' = "buffered" => handler = "buffered",
         handler' = "head" => handler \in {"buffered", "head"}
  PROVE  UpInv'
<1>1. /\ kind' = kind /\ frame' = frame /\ wire'["up"] = wire["up"] /\ pos'["up"] = pos["up"]
      /\ num'["up"] = num["up"] /\ buf'["up"] = buf["up"] /\ er'["up"] = er["up"]
      /\ recv'["up"] = recv["up"] /\ broken'["up"] = broken["up"]
  BY Zenon DEF UpSide
<1>2. AtPayload' = AtPayload /\ AtJunk' = AtJunk
  BY <1>1, ZenonT(60) DEF AtPayload, AtJunk
<1>3. UpPhases'
  BY <1>1, Zenon DEF UpInv, UpPhases
<1>4. UpHeld => UpHeld'
  BY <1>1, <1>2, Zenon DEF UpHeld
<1>. QED BY <1>1, <1>3, <1>4, Zenon DEF UpInv

\* And so for the downward copy.
LEMMA DownFrame ==
  ASSUME DownInv, DownSide' = DownSide,
         \/ pc'["down"] = pc["down"]
         \/ pc["down"] = "off" /\ pc'["down"] = "read" /\ ~broken["down"]
         \/ pc["down"] = "finish" /\ pc'["down"] = "done",
         handler' = "done" => handler = "done"
  PROVE  DownInv'
<1>1. /\ kind' = kind /\ unflushed' = unflushed /\ wire'["down"] = wire["down"]
      /\ pos'["down"] = pos["down"] /\ num'["down"] = num["down"] /\ buf'["down"] = buf["down"]
      /\ er'["down"] = er["down"] /\ recv'["down"] = recv["down"] /\ broken'["down"] = broken["down"]
  BY Zenon DEF DownSide
<1>2. Output' = Output
  BY <1>1, Zenon DEF Output
<1>3. DownPhases'
  BY <1>1, Zenon DEF DownInv, DownPhases
<1>4. DownHeld => DownHeld'
  BY <1>1, <1>2, Zenon DEF DownHeld
<1>. QED BY <1>1, <1>3, <1>4, Zenon DEF DownInv

\* A read takes what there is.
LEMMA TakeTypes ==
  ASSUME StreamTypes, NEW d \in Direction, NEW n \in Nat, n <= Avail(d), Take(d, n), wire' = wire
  PROVE  pos' \in [Direction -> Nat] /\ \A e \in Direction : pos'[e] <= Len(wire'[e])
<1>1. /\ pos \in [Direction -> Nat] /\ wire \in [Direction -> Seq(Byte)]
      /\ \A e \in Direction : pos[e] <= Len(wire[e]) /\ Len(wire[e]) \in Nat
  BY SMTT(30) DEF StreamTypes
<1>2. pos[d] + n <= Len(wire[d])
  BY <1>1 DEF Avail
<1>. QED BY <1>1, <1>2, SMTT(30) DEF Take

\* A copy holds what it has read.
LEMMA GotTypes ==
  ASSUME StreamTypes, NEW d \in Direction, NEW b \in Seq(Byte), Len(b) <= BufferSize,
         NEW e \in {"nil", "eof", "err"}, Got(d, b, e)
  PROVE  /\ buf' \in [Direction -> Seq(Byte)] /\ er' \in [Direction -> {"nil", "eof", "err"}]
         /\ \A c \in Direction : Len(buf'[c]) <= BufferSize
BY Zenon DEF StreamTypes, Got

\* And passes it on.
LEMMA DeliverTypes ==
  ASSUME StreamTypes, NEW d \in Direction, NEW b \in Seq(Byte), Deliver(d, b)
  PROVE  recv' \in [Direction -> Seq(Byte)] /\ unflushed' \in Seq(Byte)
<1>1. recv \in [Direction -> Seq(Byte)] /\ unflushed \in Seq(Byte)
  BY DEF StreamTypes
<1>2. recv[d] \o b \in Seq(Byte) /\ unflushed \o b \in Seq(Byte)
  BY <1>1, SMTT(30)
<1>. DEFINE x == recv[d] \o b  y == unflushed \o b
<1>3. (unflushed' = y /\ recv' = recv) \/ (recv' = [recv EXCEPT ![d] = x] /\ unflushed' = unflushed)
  BY SMTT(30) DEF Deliver
<1>. HIDE DEF x, y
<1>4. x \in Seq(Byte) /\ y \in Seq(Byte)
  BY <1>2, Zenon DEF x, y
<1>. QED BY <1>1, <1>3, <1>4, Zenon

\* The size that a header states.
LEMMA HeaderSize ==
  ASSUME NEW hi \in Byte, NEW lo \in Byte PROVE SizeOf(hi, lo) \in 0..(BufferSize - 1)
<1>1. hi \in Nat /\ lo \in Nat /\ Base \in Nat /\ hi <= Base - 1 /\ lo <= Base - 1
  BY PaddingAssumption DEF Byte
<1>2. hi * Base <= (Base - 1) * Base
  BY <1>1
<1>3. hi * Base \in Nat /\ (Base - 1) * Base = Base * Base - Base /\ Base * Base \in Nat
  BY <1>1
<1>. QED BY <1>1, <1>2, <1>3, SMTT(30) DEF SizeOf, BufferSize

\* The steps of the copies keep the types.
LEMMA CopyTypes == ASSUME StreamTypes, NEW d \in Direction, Copy(d) PROVE StreamTypes'
<1>0. /\ wire \in [Direction -> Seq(Byte)] /\ sent \in [Direction -> Seq(Byte)]
      /\ recv \in [Direction -> Seq(Byte)] /\ buf \in [Direction -> Seq(Byte)] /\ unflushed \in Seq(Byte)
      /\ num \in [Direction -> 0..NumFirstPaddings] /\ er \in [Direction -> {"nil", "eof", "err"}]
      /\ frame.size \in 0..(BufferSize - 1) /\ frame.pad \in Byte
      /\ \A c \in Direction : Len(buf[c]) <= BufferSize
      /\ frame.size \in Nat /\ frame.pad \in Nat
  <2>1. \A x \in 0..(BufferSize - 1) : x \in Nat
    BY Sizes
  <2>. QED BY <2>1, Sizes, Zenon DEF StreamTypes
<1>1. CASE ReadPlain(d)
  <2>1. PICK r \in Reads(d, BufferSize) : Take(d, r[1]) /\ Got(d, Bytes(d, r[1]), r[2])
    BY <1>1, Zenon DEF ReadPlain
  <2>2. r[1] \in Nat /\ r[1] <= Avail(d) /\ r[1] <= BufferSize /\ r[2] \in {"nil", "eof", "err"}
    BY <2>1, Sizes, ReadsFacts, Zenon
  <2>3. Bytes(d, r[1]) \in Seq(Byte) /\ Len(Bytes(d, r[1])) <= BufferSize
    BY <2>2, BytesFacts, Zenon
  <2>4. UNCHANGED <<sent, wire, end, num, frame, recv, unflushed, closed>>
    BY <1>1, Zenon DEF ReadPlain, streams
  <2>5. pos' \in [Direction -> Nat] /\ \A e \in Direction : pos'[e] <= Len(wire'[e])
    BY <2>1, <2>2, <2>4, TakeTypes, Zenon
  <2>6. /\ buf' \in [Direction -> Seq(Byte)] /\ er' \in [Direction -> {"nil", "eof", "err"}]
        /\ \A c \in Direction : Len(buf'[c]) <= BufferSize
    BY <2>1, <2>2, <2>3, GotTypes, Zenon
  <2>. QED BY <2>4, <2>5, <2>6, Zenon DEF StreamTypes
<1>2. CASE Write(d)
  <2>. DEFINE b == buf[d]
  <2>1. b \in Seq(Byte) /\ \A n \in 0..(Len(b) - 1) : SubSeq(b, 1, n) \in Seq(Byte)
    BY <1>0, SMTT(30)
  <2>2. /\ UNCHANGED <<sent, wire, end, pos, num, frame, closed>>
        /\ buf' = [buf EXCEPT ![d] = <<>>]
        /\ er' = er \/ er' = [er EXCEPT ![d] = "err"]
    BY <1>2, Zenon DEF Write, WriteFails, streams
  <2>3. /\ buf' \in [Direction -> Seq(Byte)] /\ er' \in [Direction -> {"nil", "eof", "err"}]
        /\ \A c \in Direction : Len(buf'[c]) <= BufferSize
    <3>1. <<>> \in Seq(Byte) /\ Len(<<>>) <= BufferSize
      BY Sizes, SMTT(30)
    <3>. QED BY <1>0, <2>2, <3>1, Zenon
  <2>4. \/ UNCHANGED <<recv, unflushed>> \/ Deliver(d, b)
        \/ \E n \in 0..(Len(b) - 1) : Deliver(d, SubSeq(b, 1, n))
    BY <1>2, Zenon DEF Write
  <2>. HIDE DEF b
  <2>5. recv' \in [Direction -> Seq(Byte)] /\ unflushed' \in Seq(Byte)
    BY <1>0, <2>1, <2>4, DeliverTypes, ZenonT(60)
  <2>. QED BY <2>2, <2>3, <2>5, ZenonT(60) DEF StreamTypes
<1>3. CASE CloseWrite(d)
  BY <1>3, Zenon DEF CloseWrite, StreamTypes, streams, loop
<1>4. CASE d = "up" /\ ReadHeader
  <2>1. PICK r \in FullReads("up", 3) :
          /\ Take("up", r[1])
          /\ \/ Got("up", <<>>, r[2]) /\ frame' = frame
             \/ \E stale \in [1..(3 - r[1]) -> Byte] :
                  LET h == Bytes("up", r[1]) \o stale IN
                  frame' = [size |-> SizeOf(h[1], h[2]), pad |-> h[3]] /\ UNCHANGED <<buf, er>>
    BY <1>4, Zenon DEF ReadHeader
  <2>2. r[1] \in Nat /\ r[1] <= Avail(d) /\ r[1] <= 3 /\ r[2] \in {"nil", "eof", "err"} /\ 3 \in Nat
    <3>1. 3 \in Nat
      OBVIOUS
    <3>. QED BY <1>4, <2>1, <3>1, FullReadsFacts, ZenonT(60)
  <2>3. UNCHANGED <<sent, wire, end, recv, unflushed, closed>> /\ num' = [num EXCEPT !["up"] = @ + 1]
    BY <1>4, Zenon DEF ReadHeader, streams
  <2>4. num["up"] < NumFirstPaddings
    BY <1>4, Zenon DEF ReadHeader, Framing
  <2>5. num' \in [Direction -> 0..NumFirstPaddings]
    <3>1. num["up"] + 1 \in 0..NumFirstPaddings
      BY <1>0, <1>4, <2>4, PaddingAssumption, SMTT(30)
    <3>. QED BY <1>0, <2>3, <3>1, ZenonT(60)
  <2>6. pos' \in [Direction -> Nat] /\ \A e \in Direction : pos'[e] <= Len(wire'[e])
    BY <1>4, <2>1, <2>2, <2>3, TakeTypes, ZenonT(60)
  <2>7. CASE Got("up", <<>>, r[2]) /\ frame' = frame
    <3>1. <<>> \in Seq(Byte) /\ Len(<<>>) <= BufferSize
      BY Sizes
    <3>2. /\ buf' \in [Direction -> Seq(Byte)] /\ er' \in [Direction -> {"nil", "eof", "err"}]
          /\ \A c \in Direction : Len(buf'[c]) <= BufferSize
      BY <1>4, <2>2, <2>7, <3>1, GotTypes, ZenonT(60)
    <3>. QED BY <2>3, <2>5, <2>6, <2>7, <3>2, ZenonT(60) DEF StreamTypes
  <2>8. CASE \E stale \in [1..(3 - r[1]) -> Byte] :
               LET h == Bytes("up", r[1]) \o stale IN
               frame' = [size |-> SizeOf(h[1], h[2]), pad |-> h[3]] /\ UNCHANGED <<buf, er>>
    <3>. DEFINE b == Bytes("up", r[1])
    <3>1. PICK stale \in [1..(3 - r[1]) -> Byte] :
            LET h == b \o stale IN
            frame' = [size |-> SizeOf(h[1], h[2]), pad |-> h[3]] /\ UNCHANGED <<buf, er>>
      BY <2>8, Zenon
    <3>2. b \in Seq(Byte) /\ Len(b) = r[1]
      BY <1>4, <2>2, BytesFacts, ZenonT(60)
    <3>. HIDE DEF b
    <3>. DEFINE h == b \o stale
    <3>3. h \in Seq(Byte) /\ Len(h) = 3
      <4>1. stale \in Seq(Byte) /\ Len(stale) = 3 - r[1]
        BY <2>2, <3>1, SMTT(30)
      <4>2. Joined(b, stale, Byte)
        BY <3>2, <4>1, Follows, Zenon
      <4>. QED BY <2>2, <3>2, <4>1, <4>2, SMTT(30) DEF Joined
    <3>4. frame' = [size |-> SizeOf(h[1], h[2]), pad |-> h[3]] /\ UNCHANGED <<buf, er>>
      BY <3>1, Zenon
    <3>. HIDE DEF h
    <3>5. h[1] \in Byte /\ h[2] \in Byte /\ h[3] \in Byte
      <4>1. \A i \in 1..3 : h[i] \in Byte
        BY <3>3, Indexed, Zenon
      <4>2. 1 \in 1..3 /\ 2 \in 1..3 /\ 3 \in 1..3
        OBVIOUS
      <4>. QED BY <4>1, <4>2, Zenon
    <3>6. frame'.size \in 0..(BufferSize - 1) /\ frame'.pad \in Byte
      <4>1. SizeOf(h[1], h[2]) \in 0..(BufferSize - 1)
        BY <3>5, HeaderSize, Zenon
      <4>. QED BY <3>4, <3>5, <4>1, Zenon
    <3>. QED BY <2>3, <2>5, <2>6, <3>4, <3>6, ZenonT(60) DEF StreamTypes
  <2>. QED BY <2>1, <2>7, <2>8, Zenon
<1>5. CASE d = "up" /\ ReadPayload
  <2>1. PICK r \in FullReads("up", frame.size) : Take("up", r[1]) /\ Got("up", Bytes("up", r[1]), r[2])
    BY <1>5, Zenon DEF ReadPayload
  <2>2. r[1] \in Nat /\ r[1] <= Avail(d) /\ r[1] <= frame.size /\ r[2] \in {"nil", "eof", "err"}
    BY <1>0, <1>5, <2>1, FullReadsFacts, ZenonT(60)
  <2>3. r[1] <= BufferSize
    <3>1. frame.size \in Nat /\ frame.size <= BufferSize - 1
      BY <1>0, Sizes, SMTT(30)
    <3>. QED BY <2>2, <3>1, Sizes, SMTT(30)
  <2>4. Bytes(d, r[1]) \in Seq(Byte) /\ Len(Bytes(d, r[1])) <= BufferSize
    BY <2>2, <2>3, BytesFacts, Zenon
  <2>5. UNCHANGED <<sent, wire, end, num, frame, recv, unflushed, closed>>
    BY <1>5, Zenon DEF ReadPayload, streams
  <2>6. pos' \in [Direction -> Nat] /\ \A e \in Direction : pos'[e] <= Len(wire'[e])
    BY <1>5, <2>1, <2>2, <2>5, TakeTypes, Zenon
  <2>7. /\ buf' \in [Direction -> Seq(Byte)] /\ er' \in [Direction -> {"nil", "eof", "err"}]
        /\ \A c \in Direction : Len(buf'[c]) <= BufferSize
    BY <1>5, <2>1, <2>2, <2>4, GotTypes, ZenonT(60)
  <2>. QED BY <2>5, <2>6, <2>7, Zenon DEF StreamTypes
<1>6. CASE d = "up" /\ ReadJunk
  <2>1. PICK r \in FullReads("up", frame.pad) : Take("up", r[1]) /\ er' = [er EXCEPT !["up"] = r[2]]
    BY <1>6, Zenon DEF ReadJunk, SkipPadding
  <2>2. r[1] \in Nat /\ r[1] <= Avail(d) /\ r[2] \in {"nil", "eof", "err"}
    BY <1>0, <1>6, <2>1, FullReadsFacts, ZenonT(60)
  <2>3. UNCHANGED <<sent, wire, end, num, buf, frame, recv, unflushed, closed>>
    BY <1>6, Zenon DEF ReadJunk, streams
  <2>4. pos' \in [Direction -> Nat] /\ \A e \in Direction : pos'[e] <= Len(wire'[e])
    BY <1>6, <2>1, <2>2, <2>3, TakeTypes, ZenonT(60)
  <2>5. er' \in [Direction -> {"nil", "eof", "err"}]
    BY <1>0, <2>1, <2>2, Zenon
  <2>. QED BY <2>3, <2>4, <2>5, ZenonT(60) DEF StreamTypes
<1>7. CASE d = "down" /\ ReadToFrame
  <2>1. PICK p \in Byte : \E r \in Reads("down", MaxPayload(p)) :
          /\ Take("down", r[1])
          /\ Got("down", IF r[1] > 0 THEN Frame(Bytes("down", r[1]), p) ELSE <<>>, r[2])
    BY <1>7, Zenon DEF ReadToFrame
  <2>2. PICK r \in Reads("down", MaxPayload(p)) :
          /\ Take("down", r[1])
          /\ Got("down", IF r[1] > 0 THEN Frame(Bytes("down", r[1]), p) ELSE <<>>, r[2])
    BY <2>1, Zenon
  <2>3. MaxPayload(p) \in Nat /\ MaxPayload(p) + 3 + p < BufferSize /\ p \in Nat
    BY Sizes, SMTT(30)
  <2>4. r[1] \in Nat /\ r[1] <= Avail(d) /\ r[1] <= MaxPayload(p) /\ r[2] \in {"nil", "eof", "err"}
    BY <1>7, <2>2, <2>3, ReadsFacts, ZenonT(60)
  <2>5. Bytes(d, r[1]) \in Seq(Byte) /\ Len(Bytes(d, r[1])) = r[1]
    BY <2>4, BytesFacts, Zenon
  <2>. DEFINE f == Frame(Bytes("down", r[1]), p)  b == IF r[1] > 0 THEN f ELSE <<>>
  <2>6. f \in Seq(Byte) /\ Len(f) = 3 + r[1] + p
    <3>1. r[1] < BufferSize
      BY <2>3, <2>4, Sizes, SMTT(30)
    <3>. DEFINE data == Bytes("down", r[1])
    <3>2. data \in Seq(Byte) /\ Len(data) = r[1]
      BY <1>7, <2>5, ZenonT(60)
    <3>. HIDE DEF data
    <3>3. Len(data) < BufferSize
      BY <3>1, <3>2, Zenon
    <3>4. Frame(data, p) \in Seq(Byte) /\ Len(Frame(data, p)) = 3 + Len(data) + p
      BY <3>2, <3>3, FrameShape, ZenonT(60)
    <3>. QED BY <3>2, <3>4, ZenonT(60) DEF data
  <2>7. b \in Seq(Byte) /\ Len(b) <= BufferSize
    <3>1. 3 + r[1] + p <= BufferSize /\ 0 <= BufferSize
      <4>. DEFINE m == r[1]  q == MaxPayload(p)
      <4>. HIDE DEF m, q
      <4>1. BufferSize \in Nat
        BY Sizes, Zenon
      <4>2. m \in Nat /\ q \in Nat /\ p \in Nat /\ m <= q /\ q + 3 + p < BufferSize
        BY <2>3, <2>4, ZenonT(60) DEF m, q
      <4>3. 3 + m + p <= BufferSize /\ 0 <= BufferSize
        BY <4>1, <4>2, SMTT(30)
      <4>. QED BY <4>3, Zenon DEF m
    <3>2. Len(<<>>) = 0 /\ <<>> \in Seq(Byte)
      OBVIOUS
    <3>. HIDE DEF f
    <3>. QED BY <2>6, <3>1, <3>2, ZenonT(60)
  <2>8. UNCHANGED <<sent, wire, end, frame, recv, unflushed, closed>>
        /\ num' = [num EXCEPT !["down"] = @ + 1]
    BY <1>7, Zenon DEF ReadToFrame, streams
  <2>9. num["down"] < NumFirstPaddings
    BY <1>7, Zenon DEF ReadToFrame, Framing
  <2>10. num' \in [Direction -> 0..NumFirstPaddings]
    <3>1. num["down"] + 1 \in 0..NumFirstPaddings
      BY <1>0, <1>7, <2>9, PaddingAssumption, SMTT(30)
    <3>. QED BY <1>0, <2>8, <3>1, ZenonT(60)
  <2>11. pos' \in [Direction -> Nat] /\ \A e \in Direction : pos'[e] <= Len(wire'[e])
    BY <1>7, <2>2, <2>4, <2>8, TakeTypes, ZenonT(60)
  <2>12. Got("down", b, r[2])
    BY <2>2, Zenon
  <2>. HIDE DEF b
  <2>13. /\ buf' \in [Direction -> Seq(Byte)] /\ er' \in [Direction -> {"nil", "eof", "err"}]
         /\ \A c \in Direction : Len(buf'[c]) <= BufferSize
    BY <1>7, <2>4, <2>7, <2>12, GotTypes, ZenonT(60)
  <2>. QED BY <2>8, <2>10, <2>11, <2>13, Zenon DEF StreamTypes
<1>8. CASE d = "down" /\ Flush
  <2>1. /\ UNCHANGED <<sent, wire, end, pos, num, buf, frame, closed>>
        /\ er' = er \/ er' = [er EXCEPT !["down"] = "err"]
    BY <1>8, Zenon DEF Flush, WriteFails, streams
  <2>2. er' \in [Direction -> {"nil", "eof", "err"}]
    BY <1>0, <2>1, ZenonT(60)
  <2>. DEFINE x == recv["down"] \o unflushed
  <2>3. x \in Seq(Byte) /\ <<>> \in Seq(Byte)
    BY <1>0, <1>8, SMTT(30)
  <2>4. UNCHANGED <<recv, unflushed>> \/ (recv' = [recv EXCEPT !["down"] = x] /\ unflushed' = <<>>)
    BY <1>8, Zenon DEF Flush
  <2>. HIDE DEF x
  <2>5. recv' \in [Direction -> Seq(Byte)] /\ unflushed' \in Seq(Byte)
    BY <1>0, <2>3, <2>4, Zenon
  <2>. QED BY <2>1, <2>2, <2>5, Zenon DEF StreamTypes
<1>. QED BY <1>1, <1>2, <1>3, <1>4, <1>5, <1>6, <1>7, <1>8, ZenonT(60) DEF Copy

\* So do the others.
LEMMA OtherTypes ==
  ASSUME StreamTypes, UpInv, Handle \/ UNCHANGED vars \/ \E d \in Direction : SourceEnds(d)
  PROVE  StreamTypes'
<1>0. /\ wire \in [Direction -> Seq(Byte)] /\ recv \in [Direction -> Seq(Byte)]
      /\ unflushed \in Seq(Byte) /\ closed \subseteq {"client", "target"} /\ "up" \in Direction
      /\ end \in [Direction -> {"open", "eof", "reset"}] 
      /\ pos \in [Direction -> Nat]
  BY DEF StreamTypes, Direction
<1>1. CASE Buffered
  <2>1. PICK n \in 0..Len(wire["up"]) : Take("up", n) /\ PassBuffered(n)
    BY <1>1, Zenon DEF Buffered
  <2>2. n \in Nat /\ n <= Avail("up") /\ \A k \in 0..(n - 1) : k \in Nat /\ k <= Avail("up")
    <3>1. pos["up"] = 0 /\ Len(wire["up"]) \in Nat
      BY <1>0, <1>1, SMTT(30) DEF UpInv, UpPhases, Buffered
    <3>. QED BY <3>1, SMTT(30) DEF Avail
  <2>3. pos' \in [Direction -> Nat] /\ \A e \in Direction : pos'[e] <= Len(wire'[e])
    BY <1>0, <1>1, <2>1, <2>2, TakeTypes, ZenonT(60) DEF Buffered, streams
  <2>4. \E k \in Nat : k <= Avail("up") /\ recv' = [recv EXCEPT !["up"] = Bytes("up", k)]
    BY <2>1, <2>2, Zenon DEF PassBuffered
  <2>5. \E b \in Seq(Byte) : recv' = [recv EXCEPT !["up"] = b]
    BY <1>0, <2>4, BytesFacts, Zenon
  <2>6. recv' \in [Direction -> Seq(Byte)]
    BY <1>0, <2>5, Zenon
  <2>. QED BY <1>1, <2>3, <2>6, Zenon DEF Buffered, StreamTypes, streams, loop
<1>2. CASE FlushHead \/ DualStream
  BY <1>2, Zenon DEF FlushHead, DualStream, StreamTypes, streams, loop
<1>3. CASE CloseClient
  <2>1. closed' \subseteq {"client", "target"}
    BY <1>0, <1>3, Zenon DEF CloseClient
  <2>. QED BY <1>3, <2>1, Zenon DEF CloseClient, StreamTypes, streams, loop
<1>4. CASE CloseTarget
  <2>1. closed' \subseteq {"client", "target"}
    BY <1>0, <1>4, ZenonT(60) DEF CloseTarget, CloseConn
  <2>. DEFINE x == IF broken["down"] THEN recv["down"] ELSE recv["down"] \o unflushed
  <2>2. x \in Seq(Byte) /\ <<>> \in Seq(Byte)
    BY <1>0 DEF Direction
  <2>3. recv' = [recv EXCEPT !["down"] = x] /\ unflushed' = <<>>
    BY <1>4, Zenon DEF CloseTarget
  <2>. HIDE DEF x
  <2>4. recv' \in [Direction -> Seq(Byte)] /\ unflushed' \in Seq(Byte)
    BY <1>0, <2>2, <2>3, Zenon
  <2>. QED BY <1>4, <2>1, <2>4, Zenon DEF CloseTarget, StreamTypes, streams, loop
<1>5. CASE \E d \in Direction : SourceEnds(d)
  <2>1. end' \in [Direction -> {"open", "eof", "reset"}]
    <3>1. PICK d \in Direction : \E e \in {"eof", "reset"} : end' = [end EXCEPT ![d] = e]
      BY <1>5, Zenon DEF SourceEnds
    <3>. QED BY <1>0, <3>1, SMTT(30)
  <2>. QED BY <1>5, <2>1, ZenonT(60) DEF SourceEnds, StreamTypes, loop
<1>6. CASE UNCHANGED vars
  BY <1>6, Zenon DEF vars, streams, loop, StreamTypes
<1>. QED BY <1>1, <1>2, <1>3, <1>4, <1>5, <1>6, ZenonT(60) DEF Handle

\* A frame of which no payload arrives ends the stream.
LEMMA CaughtNothing ==
  ASSUME NEW w \in Seq(Byte), NEW k \in 1..NumFirstPaddings, Len(w) <= FrameAt(w)[k - 1] + 3
  PROVE  Caught("padded", w, k, Len(w), Payloads(w)[k - 1])
<1>. DEFINE a == FrameAt(w)[k - 1]  x == Payloads(w)[k - 1]
<1>1. /\ a \in 0..Len(w) /\ x \in Seq(Byte)
      /\ Caught("padded", w, k, FrameEnd(w, a), x \o Payload(w, a))
  BY CaughtFrame, ZenonT(60)
<1>. HIDE DEF a, x
<1>2. Len(w) <= a + 3 /\ Len(w) \in Nat /\ a \in Nat
  BY <1>1, SMTT(30) DEF a
<1>3. FrameEnd(w, a) = Len(w) /\ Payload(w, a) = <<>>
  <2>1. CASE Len(w) < a + 3
    BY <2>1, SMTT(30) DEF FrameEnd, Payload
  <2>2. CASE Len(w) = a + 3
    <3>1. Size(w, a) \in Nat /\ w[a + 3] \in Nat
      <4>1. a + 3 <= Len(w)
        BY <1>2, <2>2, Zenon
      <4>. QED BY <1>1, <4>1, Header, Zenon
    <3>. DEFINE z == Size(w, a)  y == w[a + 3]
    <3>2. z \in Nat /\ y \in Nat
      BY <3>1, ZenonT(60)
    <3>. HIDE DEF z, y
    <3>3. UpTo(a + 3 + z + y, Len(w)) = Len(w) /\ UpTo(a + 3 + z, Len(w)) = Len(w) /\ ~(Len(w) < a + 3)
      BY <1>2, <2>2, <3>2, SMTT(30) DEF UpTo
    <3>4. SubSeq(w, a + 4, Len(w)) = <<>>
      BY <1>2, <2>2, SMTT(30)
    <3>. QED BY <3>3, <3>4, Zenon DEF FrameEnd, Payload, z, y
  <2>. QED BY <1>2, <2>1, <2>2, SMTT(30)
<1>4. x \o <<>> = x
  BY <1>1, SMTT(30)
<1>. QED BY <1>1, <1>3, <1>4, Zenon DEF a, x

\* What the upward copy works with.
LEMMA UpFacts ==
  ASSUME StreamTypes
  PROVE  /\ wire["up"] \in Seq(Byte) /\ Len(wire["up"]) \in Nat
         /\ pos["up"] \in 0..Len(wire["up"]) /\ pos["up"] \in Nat
         /\ num["up"] \in 0..NumFirstPaddings /\ num["up"] \in Nat /\ NumFirstPaddings \in Nat
         /\ recv["up"] \in Seq(Byte) /\ buf["up"] \in Seq(Byte) /\ recv["up"] \o <<>> = recv["up"]
         /\ recv["up"] \o buf["up"] \in Seq(Byte)
         /\ Avail("up") = Len(wire["up"]) - pos["up"] /\ "up" \in Direction
         /\ frame.size \in Nat /\ frame.pad \in Nat
<1>1. /\ wire["up"] \in Seq(Byte) /\ pos["up"] \in Nat /\ pos["up"] <= Len(wire["up"])
      /\ num["up"] \in 0..NumFirstPaddings /\ recv["up"] \in Seq(Byte) /\ buf["up"] \in Seq(Byte)
      /\ "up" \in Direction
  BY SMTT(30) DEF StreamTypes, Direction
<1>2. Len(wire["up"]) \in Nat /\ num["up"] \in Nat /\ NumFirstPaddings \in Nat /\ pos["up"] \in 0..Len(wire["up"])
  BY <1>1, PaddingAssumption, SMTT(30)
<1>3. recv["up"] \o <<>> = recv["up"] /\ recv["up"] \o buf["up"] \in Seq(Byte)
  BY <1>1, SMTT(30)
<1>4. frame.size \in Nat /\ frame.pad \in Nat
  <2>1. \A x \in 0..(BufferSize - 1) : x \in Nat
    BY Sizes, SMTT(30)
  <2>. QED BY <2>1, Sizes, ZenonT(60) DEF StreamTypes
<1>. QED BY <1>1, <1>2, <1>3, <1>4, ZenonT(60) DEF Avail

\* A copy that runs was started by the handler.
LEMMA Running == ASSUME IInv, NEW d \in Direction, pc[d] # "off" PROVE handler \notin {"buffered", "head"}
BY DEF IInv, Phases, Direction

\* The copy reads what follows the frames, ...
LEMMA UpReadPlain == ASSUME IInv, StreamTypes, UpInv, ReadPlain("up") PROVE UpInv'
<1>. DEFINE w == wire["up"]  p == pos["up"]  k == num["up"]
<1>0. "up" \in Direction /\ p \in 0..Len(w) /\ k \in 0..NumFirstPaddings /\ p \in Nat /\ Len(w) \in Nat
      /\ w \in Seq(Byte) /\ Avail("up") = Len(w) - p
  BY UpFacts, Zenon
<1>1. PICK r \in Reads("up", BufferSize) : Take("up", r[1]) /\ Got("up", Bytes("up", r[1]), r[2])
  BY Zenon DEF ReadPlain
<1>. DEFINE n == r[1]
<1>2. n \in Nat /\ n <= Avail("up") /\ (r[2] = "eof" => n = Avail("up"))
  BY <1>0, <1>1, Sizes, ReadsFacts, ZenonT(60)
<1>3. /\ UNCHANGED <<kind, wire, num, frame, recv, broken, handler>> /\ pc["up"] = "read"
      /\ pc' = [pc EXCEPT !["up"] = "write"]
  BY Zenon DEF ReadPlain, streams, Goto
<1>4. pc'["up"] = "write" /\ pos'["up"] = p + n /\ buf'["up"] = Bytes("up", n) /\ er'["up"] = r[2]
  BY <1>0, <1>1, <1>3, Zenon DEF Take, Got, StreamTypes, IInv, Types
<1>5. UpPhases'
  <2>1. handler \notin {"buffered", "head"}
    BY <1>0, <1>3, Running, Zenon
  <2>. QED BY <1>3, <1>4, <2>1, Zenon DEF UpPhases
<1>6. ASSUME ~broken["up"] PROVE UpHeld'
  <2>. DEFINE out == recv["up"] \o Bytes("up", n)
  <2>1. Caught(kind, w, k, p, recv["up"])
    BY <1>3, <1>6, ZenonT(60) DEF UpInv, UpHeld
  <2>2. ~(kind = "padded" /\ k < NumFirstPaddings) /\ p + n <= Len(w) /\ p + n \in 0..Len(w)
    <3>1. ~(kind = "padded" /\ k < NumFirstPaddings)
      BY Zenon DEF ReadPlain, Framing
    <3>2. p + n <= Len(w) /\ p + n \in 0..Len(w)
      BY <1>0, <1>2, SMTT(30)
    <3>. QED BY <3>1, <3>2, Zenon
  <2>3. Caught(kind, w, k, p + n, out)
    BY <1>0, <1>2, <2>1, <2>2, CaughtMore, Zenon DEF Bytes
  <2>4. Starts(out, Meant(kind, w))
    BY <1>0, <2>2, <2>3, CaughtSays, ZenonT(60)
  <2>5. r[2] = "eof" => p + n = Len(w)
    BY <1>0, <1>2, SMTT(30)
  <2>. HIDE DEF n
  <2>. QED BY <1>3, <1>4, <2>3, <2>4, <2>5, ZenonT(60) DEF UpHeld
<1>. QED BY <1>3, <1>5, <1>6, Zenon DEF UpInv

\* ... or the header of a frame: what the buffer held before makes a header only
\* when the stream has ended, ...
LEMMA UpReadHeader == ASSUME IInv, StreamTypes, SentInv, UpInv, ReadHeader PROVE UpInv'
<1>. DEFINE w == wire["up"]  p == pos["up"]  j == num["up"]  k == j + 1  rc == recv["up"]
<1>0. /\ "up" \in Direction /\ p \in 0..Len(w) /\ j \in 0..NumFirstPaddings /\ p \in Nat /\ Len(w) \in Nat
      /\ w \in Seq(Byte) /\ Avail("up") = Len(w) - p /\ NumFirstPaddings \in Nat /\ rc \in Seq(Byte)
      /\ rc \o <<>> = rc
  BY UpFacts, Zenon
<1>1. PICK r \in FullReads("up", 3) :
        /\ Take("up", r[1])
        /\ IF r[1] = 0 THEN Got("up", <<>>, r[2]) /\ Goto("up", "write") /\ frame' = frame
           ELSE \E stale \in [1..(3 - r[1]) -> Byte] :
                  LET h == Bytes("up", r[1]) \o stale IN
                  /\ frame' = [size |-> SizeOf(h[1], h[2]), pad |-> h[3]]
                  /\ Goto("up", "payload") /\ UNCHANGED <<buf, er>>
  BY ZenonT(60) DEF ReadHeader
<1>. DEFINE n == r[1]
<1>2. /\ n \in Nat /\ n <= Avail("up") /\ n <= 3 /\ r[2] \in {"nil", "eof", "err"}
      /\ n = 3 <=> r[2] = "nil"
      /\ r[2] = "eof" => Avail("up") = 0
      /\ (0 < n /\ n < 3) => n = Avail("up")
  BY <1>0, <1>1, FullReadsFacts, ZenonT(200)
<1>3. /\ UNCHANGED <<kind, wire, recv, broken, handler>> /\ pc["up"] = "read"
      /\ kind = "padded" /\ j < NumFirstPaddings /\ num' = [num EXCEPT !["up"] = @ + 1]
  BY Zenon DEF ReadHeader, streams, Framing
<1>4. num'["up"] = k /\ pos'["up"] = p + n /\ k # 0 /\ k \in 1..NumFirstPaddings /\ k - 1 = j
  <2>1. num'["up"] = k
    BY <1>0, <1>3, Zenon DEF StreamTypes
  <2>2. pos'["up"] = p + n
    BY <1>0, <1>1, Zenon DEF Take, StreamTypes
  <2>3. k # 0 /\ k \in 1..NumFirstPaddings /\ k - 1 = j
    <3>. HIDE DEF j
    <3>. QED BY <1>0, <1>3, SMTT(30)
  <2>. QED BY <2>1, <2>2, <2>3, Zenon
<1>5. handler \notin {"buffered", "head"} /\ buf["up"] = <<>>
  BY <1>0, <1>3, Running, Zenon DEF UpInv, UpPhases
<1>6. Starts(rc, Meant(kind, w))
  BY Zenon DEF UpInv
<1>7. ~broken["up"] => p = FrameAt(w)[j] /\ rc = Payloads(w)[j]
  <2>. SUFFICES ASSUME ~broken["up"] PROVE p = FrameAt(w)[j] /\ rc = Payloads(w)[j]
    BY Zenon
  <2>1. Caught("padded", w, j, p, rc)
    BY <1>3, Zenon DEF UpInv, UpHeld
  <2>2. p = FrameAt(w)[j] /\ rc = Payloads(w)[j] \o SubSeq(w, p + 1, p)
    BY <1>3, <2>1, Zenon DEF Caught, From, Before
  <2>3. Payloads(w)[j] \in Seq(Byte)
    BY <1>0, Decodes, Zenon DEF Decoded
  <2>. DEFINE x == Payloads(w)[j]
  <2>. HIDE DEF x
  <2>4. SubSeq(w, p + 1, p) = <<>> /\ x \o <<>> = x
    BY <1>0, <2>3, SMTT(30) DEF x
  <2>. QED BY <2>2, <2>4, Zenon DEF x
<1>8. CASE n = 0
  <2>1. Got("up", <<>>, r[2]) /\ Goto("up", "write") /\ frame' = frame
    BY <1>1, <1>8, ZenonT(60)
  <2>2. pc'["up"] = "write" /\ buf'["up"] = <<>> /\ er'["up"] = r[2] /\ pos'["up"] = p
    <3>1. pc'["up"] = "write" /\ buf'["up"] = <<>> /\ er'["up"] = r[2]
      BY <1>0, <2>1, ZenonT(60) DEF Got, Goto, StreamTypes, IInv, Types
    <3>2. pos'["up"] = p
      BY <1>0, <1>4, <1>8, SMTT(30)
    <3>. QED BY <3>1, <3>2, Zenon
  <2>3. UpPhases'
    BY <1>3, <1>5, <2>2, ZenonT(60) DEF UpPhases
  <2>4. r[2] # "err" => r[2] = "eof" /\ p = Len(w)
    BY <1>0, <1>2, <1>8, SMTT(30)
  <2>5. ASSUME ~broken["up"] PROVE UpHeld'
    <3>1. r[2] # "err" => Caught(kind, w, k, p, rc)
      <4>1. p = Len(w) => Len(w) <= FrameAt(w)[k - 1] + 3
        BY <1>0, <1>4, <1>7, <2>5, SMTT(30)
      <4>2. p = Len(w) => Caught("padded", w, k, Len(w), Payloads(w)[k - 1])
        BY <1>0, <1>4, <4>1, CaughtNothing, ZenonT(60)
      <4>. QED BY <1>3, <1>4, <1>7, <2>4, <2>5, <4>2, ZenonT(60)
    <3>. HIDE DEF k, rc
    <3>. QED BY <1>0, <1>3, <1>4, <1>6, <2>2, <2>4, <3>1, ZenonT(60) DEF UpHeld, rc
  <2>. QED BY <1>3, <1>6, <2>3, <2>5, ZenonT(60) DEF UpInv
<1>9. CASE n # 0
  <2>. DEFINE b == Bytes("up", n)
  <2>1. PICK stale \in [1..(3 - n) -> Byte] :
          LET h == b \o stale IN
          /\ frame' = [size |-> SizeOf(h[1], h[2]), pad |-> h[3]]
          /\ Goto("up", "payload") /\ UNCHANGED <<buf, er>>
    BY <1>1, <1>9, Zenon
  <2>2. pc'["up"] = "payload" /\ buf' = buf /\ er' = er
    BY <1>0, <2>1, Zenon DEF Goto, IInv, Types
  <2>3. UpPhases'
    <3>. HIDE DEF k
    <3>. QED BY <1>3, <1>4, <1>5, <2>2, ZenonT(60) DEF UpPhases
  <2>4. ASSUME ~broken["up"], n = 3
        PROVE  /\ p + 3 <= Len(w) /\ frame'.size = Size(w, p) /\ frame'.size # 0 /\ frame'.pad = w[p + 3]
    <3>. DEFINE h == b \o stale
    <3>1. h = b
      <4>1. b \in Seq(Byte)
        BY <1>0, <1>2, BytesFacts, Zenon
      <4>. HIDE DEF b
      <4>2. stale = <<>>
        BY <2>1, <2>4, SMTT(30)
      <4>. QED BY <4>1, <4>2, SMTT(30)
    <3>2. p + 3 <= Len(w)
      BY <1>0, <1>2, <2>4, SMTT(30)
    <3>3. b[1] = w[p + 1] /\ b[2] = w[p + 2] /\ b[3] = w[p + 3]
      <4>1. p + n <= Len(w)
        BY <2>4, <3>2, Zenon
      <4>2. Part(SubSeq(w, p + 1, p + n), w, p, n)
        BY <1>0, <1>2, <4>1, PartOf, Zenon
      <4>3. \A i \in 1..3 : b[i] = w[p + i]
        BY <2>4, <4>2, Zenon DEF Bytes, Part
      <4>. HIDE DEF b, w, p
      <4>. QED BY <4>3, SMTT(30)
    <3>4. frame' = [size |-> SizeOf(h[1], h[2]), pad |-> h[3]]
      BY <2>1, Zenon
    <3>. HIDE DEF b, h
    <3>5. frame'.size = Size(w, p) /\ frame'.pad = w[p + 3]
      BY <3>1, <3>3, <3>4, Zenon DEF Size
    <3>6. Size(w, p) # 0
      <4>1. Starts(w, sent["up"]) /\ sent["up"] \in Seq(Byte)
        BY <1>0, Zenon DEF SentInv, StreamTypes
      <4>2. PICK i \in 0..NumFirstPaddings : Framed(sent["up"], i)
        BY <1>3, Zenon DEF SentInv
      <4>3. FrameAt(w)[k - 1] = p
        BY <1>4, <1>7, <2>4, Zenon
      <4>4. FrameAt(w)[k - 1] + 3 <= Len(w)
        BY <3>2, <4>3, Zenon
      <4>5. Size(w, FrameAt(w)[k - 1]) # 0
        BY <1>0, <1>4, <4>1, <4>2, <4>4, Proper, ZenonT(60)
      <4>. QED BY <4>3, <4>5, ZenonT(60)
    <3>. QED BY <3>2, <3>5, <3>6, ZenonT(60)
  <2>5. ASSUME ~broken["up"], n # 3 PROVE Len(w) < p + 3 /\ p + n = Len(w)
    BY <1>0, <1>2, <1>9, <2>5, SMTT(60)
  <2>6. ASSUME ~broken["up"] PROVE UpHeld'
    <3>1. p = FrameAt(w)[k - 1] /\ rc = Payloads(w)[k - 1]
      BY <1>4, <1>7, <2>6, Zenon
    <3>2. AtPayload'
      <4>1. CASE n = 3
        <5>1. pos'["up"] = p + 3
          BY <1>4, <4>1, Zenon
        <5>. HIDE DEF k, n
        <5>. QED BY <1>3, <1>4, <2>4, <2>6, <3>1, <4>1, <5>1, ZenonT(60) DEF AtPayload
      <4>2. CASE n # 3
        <5>. HIDE DEF k, n
        <5>. QED BY <1>3, <1>4, <2>5, <2>6, <3>1, <4>2, ZenonT(60) DEF AtPayload
      <4>. QED BY <4>1, <4>2, Zenon
    <3>. QED BY <2>2, <3>2, Zenon DEF UpHeld
  <2>. QED BY <1>3, <1>6, <2>3, <2>6, Zenon DEF UpInv
<1>. QED BY <1>8, <1>9, Zenon

\* ... then its payload, or nothing if the stream has ended, ...
LEMMA UpReadPayload == ASSUME IInv, StreamTypes, UpInv, ReadPayload PROVE UpInv'
<1>. DEFINE w == wire["up"]  p == pos["up"]  k == num["up"]  rc == recv["up"]  a == FrameAt(w)[k - 1]
            size == frame.size
<1>0. /\ "up" \in Direction /\ p \in 0..Len(w) /\ k \in 0..NumFirstPaddings /\ p \in Nat /\ Len(w) \in Nat
      /\ w \in Seq(Byte) /\ Avail("up") = Len(w) - p /\ NumFirstPaddings \in Nat /\ rc \in Seq(Byte)
      /\ rc \o <<>> = rc /\ size \in Nat /\ k \in Nat
  BY UpFacts, Zenon
<1>1. PICK r \in FullReads("up", size) :
        /\ Take("up", r[1]) /\ Got("up", Bytes("up", r[1]), r[2])
        /\ Goto("up", IF r[1] > 0 THEN "junk" ELSE "write")
  BY Zenon DEF ReadPayload
<1>. DEFINE n == r[1]
<1>2. /\ n \in Nat /\ n <= Avail("up") /\ n <= size /\ r[2] \in {"nil", "eof", "err"}
      /\ n = size <=> r[2] = "nil"
      /\ r[2] = "eof" => Avail("up") = 0
      /\ (0 < n /\ n < size) => n = Avail("up")
  BY <1>0, <1>1, FullReadsFacts, ZenonT(60)
<1>3. /\ UNCHANGED <<kind, wire, num, frame, recv, broken, handler>> /\ pc["up"] = "payload"
  BY Zenon DEF ReadPayload, streams
<1>4. /\ pos'["up"] = p + n /\ buf'["up"] = Bytes("up", n) /\ er'["up"] = r[2]
      /\ pc'["up"] = IF n > 0 THEN "junk" ELSE "write"
  BY <1>0, <1>1, Zenon DEF Take, Got, Goto, StreamTypes, IInv, Types
<1>5. kind = "padded" /\ k # 0 /\ k \in 1..NumFirstPaddings
  <2>1. kind = "padded" /\ k # 0
    BY <1>3, Zenon DEF UpInv, UpPhases
  <2>. HIDE DEF k
  <2>. QED BY <1>0, <2>1, SMTT(30)
<1>6. handler \notin {"buffered", "head"}
  BY <1>0, <1>3, Running, Zenon
<1>7. UpPhases'
  <2>. HIDE DEF k, n
  <2>1. pc'["up"] \in {"junk", "write"}
    BY <1>4, SMTT(30)
  <2>. QED BY <1>3, <1>5, <1>6, <2>1, ZenonT(60) DEF UpPhases, k
<1>8. Starts(rc, Meant(kind, w))
  BY Zenon DEF UpInv
<1>9. Bytes("up", n) \in Seq(Byte) /\ (n = 0 => Bytes("up", n) = <<>>)
  BY <1>0, <1>2, BytesFacts, Zenon
<1>10. a \in 0..Len(w)
  BY <1>0, <1>5, CaughtFrame, Zenon
<1>11. ASSUME ~broken["up"] PROVE UpHeld'
  <2>1. AtPayload
    BY <1>3, <1>11, Zenon DEF UpInv, UpHeld
  <2>2. /\ rc = Payloads(w)[k - 1]
        /\ \/ a + 3 <= Len(w) /\ p = a + 3 /\ size = Size(w, a) /\ size # 0 /\ frame.pad = w[a + 3]
           \/ Len(w) < a + 3 /\ p = Len(w)
    BY <2>1, Zenon DEF AtPayload
  <2>. HIDE DEF a, size, k, n, p, w
  <2>3. CASE n = 0
    <3>1. r[2] # "err" => p = Len(w) /\ Len(w) <= a + 3
      BY <1>0, <1>2, <1>10, <2>2, <2>3, SMTT(30)
    <3>2. r[2] # "err" => Caught(kind, w, k, p, rc)
      <4>1. Len(w) <= a + 3 => Caught("padded", w, k, Len(w), Payloads(w)[k - 1])
        BY <1>0, <1>5, CaughtNothing, ZenonT(60) DEF a
      <4>. QED BY <1>5, <2>2, <3>1, <4>1, ZenonT(60)
    <3>3. pc'["up"] = "write" /\ pos'["up"] = p /\ buf'["up"] = <<>>
      BY <1>0, <1>4, <1>9, <2>3, SMTT(30)
    <3>. QED BY <1>0, <1>3, <1>4, <1>8, <3>1, <3>2, <3>3, ZenonT(60) DEF UpHeld, w, k
  <2>4. CASE n # 0
    <3>1. a + 3 <= Len(w) /\ p = a + 3 /\ size = Size(w, a) /\ size # 0 /\ frame.pad = w[a + 3]
      BY <1>0, <1>2, <2>2, <2>4, SMTT(30)
    <3>2. p + n = UpTo(a + 3 + Size(w, a), Len(w))
      <4>. DEFINE z == Size(w, a)
      <4>. HIDE DEF z
      <4>1. z = size
        BY <3>1, ZenonT(60) DEF z
      <4>. DEFINE l == Len(w)
      <4>2. /\ a \in Nat /\ l \in Nat /\ z \in Nat /\ n \in Nat /\ p = a + 3
            /\ n <= l - p /\ n <= z /\ (n = z \/ n = l - p)
        BY <1>0, <1>2, <1>10, <2>4, <3>1, <4>1, SMTT(30)
      <4>. HIDE DEF l
      <4>3. p + n = UpTo(a + 3 + z, l)
        BY <4>2 DEF UpTo
      <4>. QED BY <4>3, Zenon DEF z, l
    <3>3. Bytes("up", n) = Payload(w, a)
      <4>1. ~(Len(w) < a + 3) /\ p + 1 = a + 4
        BY <1>0, <1>10, <3>1, SMTT(30)
      <4>2. Bytes("up", n) = SubSeq(w, p + 1, p + n)
        BY Zenon DEF Bytes, w, p
      <4>. QED BY <3>2, <4>1, <4>2, ZenonT(60) DEF Payload
    <3>4. pc'["up"] = "junk"
      BY <1>2, <1>4, <2>4, SMTT(30)
    <3>5. AtJunk'
      BY <1>3, <1>4, <2>2, <3>1, <3>2, <3>3, ZenonT(60) DEF AtJunk, w, k, a
    <3>. QED BY <3>4, <3>5, ZenonT(60) DEF UpHeld
  <2>. QED BY <2>3, <2>4, Zenon
<1>. QED BY <1>3, <1>7, <1>8, <1>11, Zenon DEF UpInv

\* ... and its padding.
LEMMA UpReadJunk == ASSUME IInv, StreamTypes, UpInv, ReadJunk PROVE UpInv'
<1>. DEFINE w == wire["up"]  p == pos["up"]  k == num["up"]  rc == recv["up"]  a == FrameAt(w)[k - 1]
            pad == frame.pad  out == rc \o buf["up"]
<1>0. /\ "up" \in Direction /\ p \in 0..Len(w) /\ k \in 0..NumFirstPaddings /\ p \in Nat /\ Len(w) \in Nat
      /\ w \in Seq(Byte) /\ Avail("up") = Len(w) - p /\ NumFirstPaddings \in Nat /\ rc \in Seq(Byte)
      /\ pad \in Nat /\ k \in Nat
  BY UpFacts, Zenon
<1>1. PICK r \in FullReads("up", pad) : Take("up", r[1]) /\ er' = [er EXCEPT !["up"] = r[2]]
  BY Zenon DEF ReadJunk, SkipPadding
<1>. DEFINE n == r[1]
<1>2. /\ n \in Nat /\ n <= Avail("up") /\ n <= pad /\ r[2] \in {"nil", "eof", "err"}
      /\ n = pad <=> r[2] = "nil"
      /\ r[2] = "eof" => Avail("up") = 0
  BY <1>0, <1>1, FullReadsFacts, ZenonT(200)
<1>3. /\ UNCHANGED <<kind, wire, num, buf, frame, recv, broken, handler>> /\ pc["up"] = "junk"
      /\ pc' = [pc EXCEPT !["up"] = "write"]
  BY Zenon DEF ReadJunk, streams, Goto
<1>4. pos'["up"] = p + n /\ er'["up"] = r[2] /\ pc'["up"] = "write"
  BY <1>0, <1>1, <1>3, Zenon DEF Take, StreamTypes, IInv, Types
<1>5. kind = "padded" /\ k # 0 /\ k \in 1..NumFirstPaddings
  <2>1. kind = "padded" /\ k # 0
    BY <1>3, Zenon DEF UpInv, UpPhases
  <2>. HIDE DEF k
  <2>. QED BY <1>0, <2>1
<1>6. handler \notin {"buffered", "head"}
  BY <1>0, <1>3, Running, Zenon
<1>7. UpPhases'
  BY <1>3, <1>4, <1>6, Zenon DEF UpPhases
<1>8. Starts(rc, Meant(kind, w))
  BY Zenon DEF UpInv
<1>9. ASSUME ~broken["up"] PROVE UpHeld'
  <2>1. AtJunk
    BY <1>3, <1>9, Zenon DEF UpInv, UpHeld
  <2>2. /\ out = Payloads(w)[k - 1] \o Payload(w, a) /\ a + 3 <= Len(w) /\ pad = w[a + 3]
        /\ p = UpTo(a + 3 + Size(w, a), Len(w))
    BY <2>1, Zenon DEF AtJunk
  <2>3. a \in 0..Len(w) /\ Caught("padded", w, k, FrameEnd(w, a), out)
    BY <1>0, <1>5, <2>2, CaughtFrame, ZenonT(60)
  <2>. HIDE DEF a, pad, k, n, p, w, out
  <2>4. Size(w, a) \in Nat /\ FrameEnd(w, a) \in a..Len(w)
    BY <1>0, <2>2, <2>3, Header, FrameTypes, ZenonT(60)
  <2>5. FrameEnd(w, a) \in 0..Len(w)
    BY <1>0, <2>3, <2>4, SMTT(30)
  <2>6. Starts(out, Meant(kind, w))
    BY <1>0, <1>5, <2>3, <2>5, CaughtSays, ZenonT(60)
  <2>7. r[2] # "err" => p + n = FrameEnd(w, a)
    <3>. DEFINE z == Size(w, a)
    <3>. HIDE DEF z
    <3>1. FrameEnd(w, a) = UpTo(a + 3 + z + pad, Len(w)) /\ p = UpTo(a + 3 + z, Len(w)) /\ z \in Nat
      <4>1. ~(Len(w) < a + 3)
        BY <1>0, <2>2, <2>3, SMTT(30)
      <4>. QED BY <2>2, <2>4, <4>1, ZenonT(60) DEF FrameEnd, z
    <3>. SUFFICES ASSUME r[2] # "err" PROVE p + n = FrameEnd(w, a)
      BY Zenon
    <3>. DEFINE l == Len(w)
    <3>2. /\ a \in Nat /\ l \in Nat /\ n \in Nat /\ pad \in Nat /\ p \in Nat
          /\ n <= l - p /\ n <= pad /\ (n = pad \/ l - p = 0)
      BY <1>0, <1>2, <2>3, SMTT(30)
    <3>3. p = UpTo(a + 3 + z, l) /\ z \in Nat
      BY <3>1, Zenon
    <3>. HIDE DEF l
    <3>4. p + n = UpTo(a + 3 + z + pad, l)
      BY <3>2, <3>3, SMTT(30) DEF UpTo
    <3>. QED BY <3>1, <3>4, Zenon DEF l
  <2>8. r[2] = "eof" => p + n = Len(w)
    BY <1>0, <1>2, SMTT(30)
  <2>9. r[2] # "err" => Caught(kind, w, k, p + n, out)
    BY <1>5, <2>3, <2>7, Zenon
  <2>. QED BY <1>3, <1>4, <2>6, <2>8, <2>9, Zenon DEF UpHeld, w, k, out
<1>. QED BY <1>3, <1>7, <1>8, <1>9, ZenonT(60) DEF UpInv

\* It passes on what it holds, or part of it if the target refuses the rest.
LEMMA UpWrite == ASSUME IInv, StreamTypes, UpInv, Write("up") PROVE UpInv'
<1>. DEFINE w == wire["up"]  p == pos["up"]  k == num["up"]  rc == recv["up"]  b == buf["up"]
            out == rc \o b
<1>0. /\ "up" \in Direction /\ p \in 0..Len(w) /\ k \in 0..NumFirstPaddings /\ w \in Seq(Byte)
      /\ rc \in Seq(Byte) /\ b \in Seq(Byte) /\ out \in Seq(Byte) /\ rc \o <<>> = rc /\ out \o <<>> = out
  <2>1. out \in Seq(Byte) /\ "up" \in Direction /\ p \in 0..Len(w) /\ k \in 0..NumFirstPaddings
        /\ w \in Seq(Byte) /\ rc \in Seq(Byte) /\ b \in Seq(Byte) /\ rc \o <<>> = rc
    BY UpFacts, Zenon
  <2>. HIDE DEF out
  <2>. QED BY <2>1
<1>1. /\ UNCHANGED <<kind, wire, pos, num, frame, handler>> /\ pc["up"] = "write"
      /\ buf' = [buf EXCEPT !["up"] = <<>>]
  BY Zenon DEF Write, streams
<1>2. buf'["up"] = <<>>
  BY <1>0, <1>1, Zenon DEF StreamTypes
<1>3. handler \notin {"buffered", "head"}
  BY <1>0, <1>1, Running, Zenon
<1>4. Starts(rc, Meant(kind, w)) /\ Meant(kind, w) \in Seq(Byte)
  <2>1. Unframe(w) \in Seq(Byte)
    BY <1>0, UnframeType, Zenon
  <2>. QED BY <1>0, <2>1, Zenon DEF UpInv, Meant
<1>5. ~broken["up"] => /\ Starts(out, Meant(kind, w))
                       /\ er["up"] # "err" => Caught(kind, w, k, p, out)
                       /\ er["up"] = "eof" => p = Len(w)
  BY <1>1, Zenon DEF UpInv, UpHeld
<1>6. ~Flushes("up")
  BY DEF Flushes
<1>7. CASE /\ er' = er /\ broken' = broken /\ pc' = [pc EXCEPT !["up"] = AfterWrite("up")]
           /\ recv'["up"] = out /\ (b # <<>> => ~broken["up"])
  <2>1. pc'["up"] = AfterWrite("up")
    BY <1>0, <1>7, Zenon DEF IInv, Types
  <2>2. /\ pc'["up"] \in {"read", "finish"}
        /\ pc'["up"] = "read" => er["up"] = "nil"
    BY <2>1, Zenon DEF AfterWrite
  <2>3. UpPhases'
    BY <1>1, <1>2, <1>3, <1>7, <2>2, ZenonT(60) DEF UpPhases
  <2>4. Starts(out, Meant(kind, w))
    <3>1. b = <<>> => out = rc
      BY <1>0, Zenon
    <3>. QED BY <1>4, <1>5, <1>7, <3>1, Zenon
  <2>5. ASSUME ~broken["up"] PROVE UpHeld'
    <3>1. recv'["up"] \o buf'["up"] = out
      BY <1>0, <1>2, <1>7, Zenon
    <3>. HIDE DEF out
    <3>. QED BY <1>1, <1>5, <1>7, <2>2, <2>5, <3>1, ZenonT(60) DEF UpHeld
  <2>. QED BY <1>1, <1>7, <2>3, <2>4, <2>5, ZenonT(60) DEF UpInv
<1>8. CASE /\ WriteFails("up") /\ pc' = [pc EXCEPT !["up"] = "finish"]
           /\ \E n \in 0..(Len(b) - 1) : (n > 0 => ~broken["up"]) /\ recv'["up"] = rc \o SubSeq(b, 1, n)
  <2>1. pc'["up"] = "finish" /\ broken'["up"]
    BY <1>0, <1>8, Zenon DEF WriteFails, IInv, Types
  <2>2. UpPhases'
    BY <1>1, <1>2, <1>3, <2>1, ZenonT(60) DEF UpPhases
  <2>3. PICK n \in 0..(Len(b) - 1) : (n > 0 => ~broken["up"]) /\ recv'["up"] = rc \o SubSeq(b, 1, n)
    BY <1>8, Zenon
  <2>. DEFINE c == SubSeq(b, 1, n)
  <2>4. c \in Seq(Byte) /\ Starts(c, b) /\ (n = 0 => c = <<>>) /\ n \in Nat
    BY <1>0, <2>3, SMTT(30) DEF Starts
  <2>5. Starts(rc \o c, out) /\ rc \o c \in Seq(Byte)
    <3>. HIDE DEF c
    <3>1. Starts(rc \o c, out)
      BY <1>0, <2>4, StartsConcat, ZenonT(60)
    <3>2. rc \o c \in Seq(Byte)
      BY <1>0, <2>4, SMTT(30)
    <3>. QED BY <3>1, <3>2, SMTT(30)
  <2>6. Starts(rc \o c, Meant(kind, w))
    <3>1. CASE n = 0
      BY <1>0, <1>4, <2>4, <3>1, ZenonT(60)
    <3>2. CASE n # 0
      <4>1. Starts(out, Meant(kind, w))
        <5>1. n > 0
          BY <2>4, <3>2, SMTT(30)
        <5>. QED BY <1>5, <2>3, <5>1, Zenon
      <4>. QED BY <1>0, <1>4, <2>5, <4>1, StartsTransitive, ZenonT(60)
    <3>. QED BY <3>1, <3>2, Zenon
  <2>. QED BY <1>1, <2>1, <2>2, <2>3, <2>6, ZenonT(60) DEF UpInv
<1>9. /\ \A x \in Seq(Byte) : Deliver("up", x) => recv'["up"] = rc \o x
      /\ recv' = recv => recv'["up"] = rc
  BY <1>0, <1>6, Zenon DEF Deliver, StreamTypes
<1>. QED
  <2>1. CASE NoData("up") /\ Goto("up", AfterWrite("up")) /\ UNCHANGED <<er, recv, unflushed, broken>>
    <3>1. b = <<>> /\ out = rc
      BY <1>0, <2>1, Zenon DEF NoData
    <3>. QED BY <1>7, <1>9, <2>1, <3>1, ZenonT(60) DEF Goto
  <2>2. CASE /\ ~broken["up"] /\ Deliver("up", b) /\ Goto("up", AfterFull("up")) /\ UNCHANGED <<er, broken>>
    BY <1>0, <1>6, <1>7, <1>9, <2>2, ZenonT(60) DEF Goto, AfterFull
  <2>3. CASE /\ \E n \in 0..(Len(b) - 1) : (n > 0 => ~broken["up"]) /\ Deliver("up", SubSeq(b, 1, n))
             /\ WriteFails("up") /\ Goto("up", "finish")
    <3>1. PICK n \in 0..(Len(b) - 1) : (n > 0 => ~broken["up"]) /\ Deliver("up", SubSeq(b, 1, n))
      BY <2>3, ZenonT(60)
    <3>2. SubSeq(b, 1, n) \in Seq(Byte)
      BY <1>0, <3>1, SMTT(30)
    <3>. QED BY <1>8, <1>9, <2>3, <3>1, <3>2, ZenonT(60) DEF Goto
  <2>. QED BY <2>1, <2>2, <2>3, ZenonT(60) DEF Write

\* What the client sent with its request is passed on first.
LEMMA UpBuffered == ASSUME IInv, StreamTypes, UpInv, Buffered PROVE UpInv'
<1>. DEFINE w == wire["up"]
<1>0. /\ "up" \in Direction /\ Len(w) \in Nat /\ w \in Seq(Byte) /\ Avail("up") = Len(w) - pos["up"]
      /\ num["up"] \in 0..NumFirstPaddings
  BY UpFacts, Zenon
<1>1. PICK n \in 0..Len(w) : Take("up", n) /\ PassBuffered(n)
  BY Zenon DEF Buffered
<1>2. /\ handler = "buffered" /\ UNCHANGED <<kind, wire, pc, buf, er, num>> /\ handler' = "head"
  BY ZenonT(60) DEF Buffered, streams, loop
<1>3. kind = "hijack" /\ pos["up"] = 0 /\ pc["up"] = "off"
  BY <1>2 DEF UpInv, UpPhases, IInv, Phases, Types, Direction
<1>4. \A k \in 0..Len(w) : /\ Bytes("up", k) = SubSeq(w, 1, k) /\ SubSeq(w, 1, k) \in Seq(Byte)
                           /\ Starts(SubSeq(w, 1, k), w) /\ <<>> \o SubSeq(w, 1, k) = SubSeq(w, 1, k)
  <2>. TAKE k \in 0..Len(w)
  <2>1. 0 + 1 = 1 /\ 0 + k = k
    BY <1>0, SMTT(30)
  <2>2. SubSeq(w, 1, k) \in Seq(Byte) /\ Starts(SubSeq(w, 1, k), w)
    BY <1>0, SMTT(30) DEF Starts
  <2>. DEFINE t == SubSeq(w, 1, k)
  <2>. HIDE DEF t
  <2>3. <<>> \o t = t
    BY <2>2, SMTT(30) DEF t
  <2>. QED BY <1>3, <2>1, <2>2, <2>3, ZenonT(60) DEF Bytes, t
<1>5. pos'["up"] = n /\ n \in Nat
  BY <1>0, <1>1, <1>3, SMTT(30) DEF Take, StreamTypes
<1>6. UpPhases'
  BY <1>2, <1>3, Zenon DEF UpInv, UpPhases
<1>7. PICK k \in 0..Len(w) : recv'["up"] = Bytes("up", k) /\ (k = n \/ broken'["up"])
  <2>1. \A k \in 0..(n - 1) : k \in 0..Len(w)
    BY <1>0, <1>5, SMTT(30)
  <2>2. \A x : recv' = [recv EXCEPT !["up"] = x] => recv'["up"] = x
    BY <1>0, Zenon DEF StreamTypes
  <2>3. broken' = [broken EXCEPT !["up"] = TRUE] => broken'["up"]
    BY <1>0 DEF IInv, Types
  <2>. QED BY <1>1, <2>1, <2>2, <2>3, ZenonT(60) DEF PassBuffered
<1>8. Starts(recv'["up"], Meant(kind, w))
  BY <1>3, <1>4, <1>7, Zenon DEF Meant
<1>9. ASSUME ~broken'["up"] PROVE UpHeld'
  <2>1. Caught(kind, w, num["up"], n, recv'["up"])
    <3>1. recv'["up"] = <<>> \o SubSeq(w, 1, n)
      BY <1>4, <1>7, <1>9, ZenonT(60)
    <3>2. From(kind, w, num["up"]) = 0 /\ Before(kind, w, num["up"]) = <<>> /\ kind # "padded" /\ 0 + 1 = 1
      BY <1>3, SMTT(30) DEF From, Before
    <3>3. 0 <= n
      BY <1>5
    <3>. QED BY <3>1, <3>2, <3>3, Zenon DEF Caught
  <2>. QED BY <1>2, <1>3, <1>5, <2>1, Zenon DEF UpHeld
<1>. QED BY <1>2, <1>6, <1>8, <1>9, Zenon DEF UpInv

\* A copy leaves the other one alone.
LEMMA Apart ==
  ASSUME IInv, StreamTypes
  PROVE  /\ Copy("up") => DownSide' = DownSide /\ pc'["down"] = pc["down"] /\ handler' = handler
         /\ Copy("down") => UpSide' = UpSide /\ pc'["up"] = pc["up"] /\ handler' = handler
<1>0. /\ pos \in [Direction -> Nat] /\ buf \in [Direction -> Seq(Byte)] /\ recv \in [Direction -> Seq(Byte)]
      /\ num \in [Direction -> 0..NumFirstPaddings] /\ er \in [Direction -> {"nil", "eof", "err"}]
      /\ broken \in [Direction -> BOOLEAN]
      /\ pc \in [Direction -> {"off", "read", "payload", "junk", "write", "flush", "finish", "done"}]
      /\ "up" \in Direction /\ "down" \in Direction
  BY Zenon DEF StreamTypes, IInv, Types, Direction
<1>1. /\ \A x : pos' = [pos EXCEPT !["up"] = x] => pos'["down"] = pos["down"]
      /\ \A x : buf' = [buf EXCEPT !["up"] = x] => buf'["down"] = buf["down"]
      /\ \A x : recv' = [recv EXCEPT !["up"] = x] => recv'["down"] = recv["down"]
      /\ \A x : num' = [num EXCEPT !["up"] = x] => num'["down"] = num["down"]
      /\ \A x : er' = [er EXCEPT !["up"] = x] => er'["down"] = er["down"]
      /\ \A x : broken' = [broken EXCEPT !["up"] = x] => broken'["down"] = broken["down"]
      /\ \A x : pc' = [pc EXCEPT !["up"] = x] => pc'["down"] = pc["down"]
  BY <1>0, ZenonT(60)
<1>2. /\ \A x : pos' = [pos EXCEPT !["down"] = x] => pos'["up"] = pos["up"]
      /\ \A x : buf' = [buf EXCEPT !["down"] = x] => buf'["up"] = buf["up"]
      /\ \A x : recv' = [recv EXCEPT !["down"] = x] => recv'["up"] = recv["up"]
      /\ \A x : num' = [num EXCEPT !["down"] = x] => num'["up"] = num["up"]
      /\ \A x : er' = [er EXCEPT !["down"] = x] => er'["up"] = er["up"]
      /\ \A x : broken' = [broken EXCEPT !["down"] = x] => broken'["up"] = broken["up"]
      /\ \A x : pc' = [pc EXCEPT !["down"] = x] => pc'["up"] = pc["up"]
  BY <1>0
<1>3. ASSUME Copy("up") PROVE DownSide' = DownSide /\ pc'["down"] = pc["down"] /\ handler' = handler
  <2>0. "up" # "down" /\ ~Flushes("up")
    BY DEF Flushes
  <2>. USE DEF streams, loop, Take, Got, Goto, DownSide
  <2>1. CASE ReadPlain("up") BY <1>1, <2>1, Zenon DEF ReadPlain
  <2>2. CASE Write("up") BY <1>1, <2>0, <2>2, Zenon DEF Write, Deliver, WriteFails
  <2>3. CASE CloseWrite("up") BY <1>1, <2>3, Zenon DEF CloseWrite
  <2>4. CASE ReadHeader BY <1>1, <2>4, Zenon DEF ReadHeader
  <2>5. CASE ReadPayload BY <1>1, <2>5, Zenon DEF ReadPayload
  <2>6. CASE ReadJunk BY <1>1, <2>6, Zenon DEF ReadJunk, SkipPadding
  <2>. QED BY <1>3, <2>0, <2>1, <2>2, <2>3, <2>4, <2>5, <2>6, ZenonT(60) DEF Copy
<1>4. ASSUME Copy("down") PROVE UpSide' = UpSide /\ pc'["up"] = pc["up"] /\ handler' = handler
  <2>0. "up" # "down"
    OBVIOUS
  <2>. USE DEF streams, loop, Take, Got, Goto, UpSide
  <2>1. CASE ReadPlain("down") BY <1>2, <2>1, Zenon DEF ReadPlain
  <2>2. CASE Write("down") BY <1>2, <2>2, Zenon DEF Write, Deliver, WriteFails
  <2>3. CASE CloseWrite("down") BY <1>2, <2>3, Zenon DEF CloseWrite
  <2>4. CASE ReadToFrame BY <1>2, <2>4, Zenon DEF ReadToFrame
  <2>5. CASE Flush BY <1>2, <2>5, Zenon DEF Flush, WriteFails
  <2>. QED BY <1>4, <2>0, <2>1, <2>2, <2>3, <2>4, <2>5, ZenonT(60) DEF Copy
<1>. QED BY <1>3, <1>4, Zenon

\* Steps of the upward copy.
LEMMA UpCopy ==
  ASSUME IInv, StreamTypes, SentInv, UpInv, DownInv, Copy("up") PROVE UpInv' /\ DownInv'
<1>0. DownSide' = DownSide /\ pc'["down"] = pc["down"] /\ handler' = handler
  BY Apart, Zenon
<1>1. DownInv'
  BY <1>0, DownFrame, Zenon
<1>2. CASE CloseWrite("up")
  <2>1. pc["up"] = "finish" /\ pc'["up"] = "done"
    BY <1>2, Zenon DEF CloseWrite, Goto, IInv, Types, Direction
  <2>2. UpSide' = UpSide
    BY <1>2, Zenon DEF CloseWrite, UpSide, streams, loop
  <2>3. UpInv'
    BY <1>0, <2>1, <2>2, UpFrame, ZenonT(60)
  <2>. QED BY <1>1, <2>3, ZenonT(60)
<1>3. "up" # "down"
  OBVIOUS
<1>. QED BY <1>1, <1>2, <1>3, UpReadPlain, UpReadHeader, UpReadPayload, UpReadJunk, UpWrite, ZenonT(60) DEF Copy

\* A stream that starts with another says what the other says, and goes on.
LEMMA MeantStarts ==
  ASSUME NEW kd, NEW x \in Seq(Byte), NEW y \in Seq(Byte), Starts(x, y)
  PROVE  Meant(kd, x) \in Seq(Byte) /\ Meant(kd, y) \in Seq(Byte) /\ Starts(Meant(kd, x), Meant(kd, y))
<1>1. Unframe(x) \in Seq(Byte) /\ Unframe(y) \in Seq(Byte)
  BY UnframeType, Zenon
<1>2. Starts(Unframe(x), Unframe(y))
  BY CutStream, Zenon
<1>. QED BY <1>1, <1>2, Zenon DEF Meant

\* What the client has of the answer is the beginning of it, if it would be so of
\* something that goes on.
LEMMA AnswerStarts ==
  ASSUME NEW kd, NEW x \in Seq(Byte), NEW y \in Seq(Byte), Starts(x, y),
         NEW w \in Seq(Byte), NEW p \in 0..Len(w), Meant(kd, y) = SubSeq(w, 1, p)
  PROVE  Starts(Meant(kd, x), w)
<1>1. Meant(kd, x) \in Seq(Byte) /\ Starts(Meant(kd, x), Meant(kd, y))
  BY MeantStarts, Zenon
<1>2. SubSeq(w, 1, p) \in Seq(Byte) /\ Starts(SubSeq(w, 1, p), w)
  BY DEF Starts
<1>. QED BY <1>1, <1>2, StartsTransitive, Zenon

\* What the downward copy works with.
LEMMA DownFacts ==
  ASSUME StreamTypes
  PROVE  /\ wire["down"] \in Seq(Byte) /\ Len(wire["down"]) \in Nat
         /\ pos["down"] \in 0..Len(wire["down"]) /\ pos["down"] \in Nat
         /\ num["down"] \in 0..NumFirstPaddings /\ num["down"] \in Nat /\ NumFirstPaddings \in Nat
         /\ recv["down"] \in Seq(Byte) /\ buf["down"] \in Seq(Byte) /\ unflushed \in Seq(Byte)
         /\ recv["down"] \o unflushed \in Seq(Byte) /\ Output \in Seq(Byte)
         /\ (unflushed = <<>> => recv["down"] \o unflushed = recv["down"])
         /\ (buf["down"] = <<>> => Output = recv["down"] \o unflushed)
         /\ Starts(recv["down"], recv["down"] \o unflushed) /\ Starts(recv["down"] \o unflushed, Output)
         /\ Starts(recv["down"], Output)
         /\ Avail("down") = Len(wire["down"]) - pos["down"] /\ "down" \in Direction
<1>. DEFINE x == recv["down"]  y == unflushed  b == buf["down"]
<1>1. /\ wire["down"] \in Seq(Byte) /\ pos["down"] \in Nat /\ pos["down"] <= Len(wire["down"])
      /\ num["down"] \in 0..NumFirstPaddings /\ x \in Seq(Byte) /\ b \in Seq(Byte)
      /\ "down" \in Direction /\ y \in Seq(Byte)
  BY SMTT(30) DEF StreamTypes, Direction
<1>2. /\ Len(wire["down"]) \in Nat /\ num["down"] \in Nat /\ NumFirstPaddings \in Nat
      /\ pos["down"] \in 0..Len(wire["down"])
  BY <1>1, PaddingAssumption, SMTT(30)
<1>. HIDE DEF x, y, b
<1>. DEFINE z == x \o y
<1>3. z \in Seq(Byte) /\ x \o <<>> = x
  BY <1>1
<1>4. Starts(x, z)
  BY <1>1, StartsConcat, ZenonT(60)
<1>. HIDE DEF z
<1>5. z \o b \in Seq(Byte) /\ z \o <<>> = z
  BY <1>1, <1>3, SMTT(30)
<1>6. Starts(z, z \o b)
  BY <1>1, <1>3, StartsConcat, ZenonT(60)
<1>7. Starts(x, z \o b)
  BY <1>1, <1>3, <1>4, <1>5, <1>6, StartsTransitive, ZenonT(60)
<1>. QED BY <1>1, <1>2, <1>3, <1>4, <1>5, <1>6, <1>7, ZenonT(60) DEF Avail, Output, x, y, b, z

\* The downward copy has read, and holds what it has read in one of the two forms.
LEMMA DownRead ==
  ASSUME IInv, StreamTypes, DownInv, pc["down"] = "read", pc'["down"] = "write",
         UNCHANGED <<kind, unflushed, handler, wire, recv, broken>>,
         Starts(Meant(kind, recv["down"]), wire["down"]), DownHeld'
  PROVE  DownInv'
<1>1. "down" \in Direction
  BY Zenon DEF Direction
<1>2. ~broken["down"]
  BY ZenonT(60) DEF DownInv, DownPhases
<1>3. DownPhases'
  BY <1>2 DEF DownInv, DownPhases
<1>. QED BY <1>3, Zenon DEF DownInv

\* As it came, ...
LEMMA DownReadPlain == ASSUME IInv, StreamTypes, DownInv, ReadPlain("down") PROVE DownInv'
<1>. DEFINE w == wire["down"]  p == pos["down"]  o == recv["down"] \o unflushed
<1>0. /\ "down" \in Direction /\ p \in 0..Len(w) /\ p \in Nat /\ Len(w) \in Nat /\ w \in Seq(Byte)
      /\ Avail("down") = Len(w) - p /\ o \in Seq(Byte) /\ (buf["down"] = <<>> => Output = o)
      /\ num["down"] \in 0..NumFirstPaddings /\ NumFirstPaddings \in Nat
  BY DownFacts, Zenon
<1>1. PICK r \in Reads("down", BufferSize) : Take("down", r[1]) /\ Got("down", Bytes("down", r[1]), r[2])
  BY Zenon DEF ReadPlain
<1>. DEFINE n == r[1]  b == Bytes("down", n)
<1>2. n \in Nat /\ n <= Avail("down") /\ (r[2] = "eof" => n = Avail("down"))
  BY <1>0, <1>1, Sizes, ReadsFacts, ZenonT(60)
<1>3. /\ UNCHANGED <<kind, wire, num, recv, broken, handler, unflushed>> /\ pc["down"] = "read"
      /\ pc' = [pc EXCEPT !["down"] = "write"]
  BY Zenon DEF ReadPlain, streams, Goto
<1>4. pc'["down"] = "write" /\ pos'["down"] = p + n /\ buf'["down"] = b /\ er'["down"] = r[2]
  BY <1>0, <1>1, <1>3, ZenonT(60) DEF Take, Got, StreamTypes, IInv, Types
<1>5. DownHeld /\ Output = o /\ er["down"] = "nil" /\ Starts(Meant(kind, recv["down"]), w)
  BY <1>0, <1>3, ZenonT(60) DEF DownInv, DownPhases
<1>6. b \in Seq(Byte) /\ p + n <= Len(w)
  BY <1>0, <1>2, BytesFacts, ZenonT(60)
<1>7. Output' = o \o b
  BY <1>3, <1>4, Zenon DEF Output
<1>8. Meant(kind, o \o b) = SubSeq(w, 1, p + n) /\ (kind = "padded" => Framed(o \o b, num["down"]))
  <2>1. SubSeq(w, 1, p) \o b = SubSeq(w, 1, p + n)
    BY <1>0, <1>2, <1>6, Further, ZenonT(60) DEF Bytes
  <2>2. Meant(kind, o) = SubSeq(w, 1, p) /\ (kind = "padded" => Framed(o, num["down"]))
    BY <1>5, ZenonT(60) DEF DownHeld
  <2>3. kind = "padded" => num["down"] = NumFirstPaddings
    BY <1>0, SMTT(30) DEF ReadPlain, Framing
  <2>. HIDE DEF b, o
  <2>4. CASE kind = "padded"
    BY <1>0, <1>6, <2>1, <2>2, <2>3, <2>4, AppendRest, ZenonT(60) DEF Meant
  <2>5. CASE kind # "padded"
    BY <2>1, <2>2, <2>5, ZenonT(60) DEF Meant
  <2>. QED BY <2>4, <2>5, Zenon
<1>9. r[2] = "eof" => p + n = Len(w)
  BY <1>0, <1>2, SMTT(30)
<1>10. DownHeld'
  <2>. HIDE DEF o, b, n
  <2>. QED BY <1>3, <1>4, <1>7, <1>8, <1>9, ZenonT(60) DEF DownHeld
<1>. QED BY <1>3, <1>4, <1>5, <1>10, DownRead, ZenonT(60)

\* ... or in a frame, which fits the buffer.
LEMMA DownReadToFrame == ASSUME IInv, StreamTypes, DownInv, ReadToFrame PROVE DownInv'
<1>. DEFINE w == wire["down"]  p == pos["down"]  o == recv["down"] \o unflushed  k == num["down"]
<1>0. /\ "down" \in Direction /\ p \in 0..Len(w) /\ p \in Nat /\ Len(w) \in Nat /\ w \in Seq(Byte)
      /\ Avail("down") = Len(w) - p /\ o \in Seq(Byte) /\ (buf["down"] = <<>> => Output = o)
      /\ k \in 0..NumFirstPaddings /\ NumFirstPaddings \in Nat
  BY DownFacts, Zenon
<1>1. PICK q \in Byte : \E r \in Reads("down", MaxPayload(q)) :
        /\ Take("down", r[1])
        /\ Got("down", IF r[1] > 0 THEN Frame(Bytes("down", r[1]), q) ELSE <<>>, r[2])
  BY Zenon DEF ReadToFrame
<1>2. PICK r \in Reads("down", MaxPayload(q)) :
        /\ Take("down", r[1])
        /\ Got("down", IF r[1] > 0 THEN Frame(Bytes("down", r[1]), q) ELSE <<>>, r[2])
  BY <1>1, ZenonT(60)
<1>. DEFINE n == r[1]  b == Bytes("down", n)  f == IF n > 0 THEN Frame(b, q) ELSE <<>>
<1>3. MaxPayload(q) \in Nat /\ MaxPayload(q) + 3 + q < BufferSize /\ q \in Nat
  BY Sizes
<1>4. /\ n \in Nat /\ n <= Avail("down") /\ n <= MaxPayload(q) /\ (r[2] = "eof" => n = Avail("down"))
      /\ (n = 0 => r[2] # "nil")
  BY <1>0, <1>2, <1>3, ReadsFacts, ZenonT(60)
<1>5. /\ UNCHANGED <<kind, wire, recv, broken, handler, unflushed>> /\ pc["down"] = "read"
      /\ pc' = [pc EXCEPT !["down"] = "write"] /\ num' = [num EXCEPT !["down"] = @ + 1]
      /\ kind = "padded" /\ k < NumFirstPaddings
  BY Zenon DEF ReadToFrame, streams, Goto, Framing
<1>6. Take("down", n) /\ Got("down", f, r[2])
  BY <1>2, ZenonT(60)
<1>7. /\ pc'["down"] = "write" /\ pos'["down"] = p + n /\ buf'["down"] = f /\ er'["down"] = r[2]
      /\ num'["down"] = k + 1
  <2>. HIDE DEF f, n
  <2>. QED BY <1>0, <1>5, <1>6, ZenonT(60) DEF Take, Got, StreamTypes, IInv, Types
<1>8. DownHeld /\ Output = o /\ er["down"] = "nil" /\ Starts(Meant(kind, recv["down"]), w)
  BY <1>0, <1>5, Zenon DEF DownInv, DownPhases
<1>9. b \in Seq(Byte) /\ Len(b) = n /\ p + n <= Len(w)
  BY <1>0, <1>4, BytesFacts, ZenonT(60)
<1>10. Output' = o \o f
  BY <1>5, <1>7, Zenon DEF Output
<1>11. Meant(kind, o) = SubSeq(w, 1, p) /\ Framed(o, k)
  BY <1>5, <1>8, ZenonT(60) DEF DownHeld
<1>12. Meant(kind, o \o f) = SubSeq(w, 1, p + n) /\ (n # 0 => Framed(o \o f, k + 1))
  <2>1. CASE n = 0
    <3>1. f = <<>> /\ p + n = p
      BY <1>0, <2>1, SMTT(30)
    <3>. HIDE DEF o, f
    <3>2. o \o f = o
      BY <1>0, <3>1, SMTT(30)
    <3>. QED BY <1>11, <2>1, <3>1, <3>2, ZenonT(60)
  <2>2. CASE n # 0
    <3>1. f = Frame(b, q)
      BY <1>4, <2>2, SMTT(30)
    <3>2. SubSeq(w, 1, p) \o b = SubSeq(w, 1, p + n)
      BY <1>0, <1>4, <1>9, Further, ZenonT(60) DEF Bytes
    <3>. HIDE DEF o, b, f
    <3>3. b # <<>> /\ Len(b) < BufferSize
      BY <1>3, <1>4, <1>9, <2>2, Sizes, SMTT(30)
    <3>4. Framed(o \o Frame(b, q), k + 1) /\ Unframe(o \o Frame(b, q)) = Unframe(o) \o b
      BY <1>0, <1>1, <1>5, <1>9, <1>11, <3>3, AppendFrame, ZenonT(60)
    <3>. QED BY <1>5, <1>11, <3>1, <3>2, <3>4, ZenonT(60) DEF Meant
  <2>. QED BY <2>1, <2>2, Zenon
<1>13. r[2] = "eof" => p + n = Len(w)
  BY <1>0, <1>4, SMTT(30)
<1>14. DownHeld'
  <2>. HIDE DEF o, f, n
  <2>. QED BY <1>4, <1>5, <1>7, <1>10, <1>12, <1>13, ZenonT(60) DEF DownHeld
<1>. QED BY <1>5, <1>7, <1>8, <1>14, DownRead, ZenonT(60)

\* The downward copy moves what it holds on, all of it or, when the client refuses
\* it, a part.
LEMMA DownMove ==
  ASSUME StreamTypes, StreamTypes', DownInv, ~broken["down"],
         UNCHANGED <<kind, wire, pos, num>>, DownPhases', Starts(recv'["down"], Output),
         ~broken'["down"] => Output' = Output /\ er'["down"] = er["down"]
  PROVE  DownInv'
<1>. DEFINE w == wire["down"]  p == pos["down"]  x == recv'["down"]
<1>1. p \in 0..Len(w) /\ w \in Seq(Byte) /\ Output \in Seq(Byte)
  BY DownFacts, ZenonT(60)
<1>2. x \in Seq(Byte)
  BY DEF StreamTypes, Direction
<1>3. DownHeld
  BY Zenon DEF DownInv
<1>4. Starts(Meant(kind, x), w)
  BY <1>1, <1>2, <1>3, AnswerStarts, Zenon DEF DownHeld
<1>5. ~broken'["down"] => DownHeld'
  BY <1>3, Zenon DEF DownHeld
<1>. QED BY <1>4, <1>5, Zenon DEF DownInv

\* To the client, or to the response's buffer, ...
LEMMA DownWrite == ASSUME IInv, StreamTypes, StreamTypes', DownInv, Write("down") PROVE DownInv'
<1>. DEFINE rc == recv["down"]  u == unflushed  b == buf["down"]
<1>0. /\ "down" \in Direction /\ rc \in Seq(Byte) /\ u \in Seq(Byte) /\ b \in Seq(Byte)
      /\ Output \in Seq(Byte) /\ Starts(rc, Output) /\ rc \o u \in Seq(Byte)
      /\ (u = <<>> => rc \o u = rc)
  BY DownFacts, Zenon
<1>1. /\ UNCHANGED <<kind, wire, pos, num, handler>> /\ pc["down"] = "write"
      /\ buf' = [buf EXCEPT !["down"] = <<>>]
  BY Zenon DEF Write, streams
<1>2. buf'["down"] = <<>> /\ ~broken["down"] /\ (kind = "hijack" => u = <<>>) /\ handler # "done"
  BY <1>0, <1>1, Zenon DEF StreamTypes, DownInv, DownPhases, IInv, Phases
<1>3. recv'["down"] \in Seq(Byte) /\ unflushed' \in Seq(Byte)
  BY <1>0, Zenon DEF StreamTypes
<1>4. Output' = recv'["down"] \o unflushed'
  <2>. DEFINE y == recv'["down"] \o unflushed'
  <2>1. y \in Seq(Byte)
    BY <1>3, SMTT(30)
  <2>2. Output' = y \o <<>>
    BY <1>2, Zenon DEF Output
  <2>. HIDE DEF y
  <2>3. y \o <<>> = y
    BY <2>1
  <2>. QED BY <2>2, <2>3, Zenon DEF y
\* What is passed on when x is delivered.
<1>5. ASSUME NEW x \in Seq(Byte), Deliver("down", x)
      PROVE  /\ recv'["down"] \o unflushed' = (rc \o u) \o x
             /\ recv'["down"] = rc \/ (kind = "hijack" /\ recv'["down"] = rc \o x /\ rc \o u = rc)
             /\ kind = "hijack" => unflushed' = <<>>
  <2>1. CASE kind = "hijack"
    <3>1. recv' = [recv EXCEPT !["down"] = rc \o x] /\ unflushed' = <<>> /\ u = <<>>
      BY <1>2, <1>5, <2>1, ZenonT(60) DEF Deliver, Flushes
    <3>. DEFINE y == rc \o x
    <3>2. y \in Seq(Byte)
      BY <1>0
    <3>. HIDE DEF y
    <3>3. recv'["down"] = y /\ y \o <<>> = y
      <4>1. recv' = [recv EXCEPT !["down"] = y]
        BY <3>1, Zenon DEF y
      <4>2. recv'["down"] = y
        BY <1>0, <4>1, Zenon DEF StreamTypes
      <4>3. y \o <<>> = y
        BY <3>2
      <4>. QED BY <4>2, <4>3, ZenonT(60)
    <3>. QED BY <1>0, <2>1, <3>1, <3>3, ZenonT(60) DEF y
  <2>2. CASE kind # "hijack"
    <3>1. recv' = recv /\ unflushed' = u \o x
      BY <1>5, <2>2, Zenon DEF Deliver, Flushes
    <3>2. Associates(rc, u, x)
      BY <1>0, Associativity, Zenon
    <3>. QED BY <2>2, <3>1, <3>2, Zenon DEF Associates
  <2>. QED BY <2>1, <2>2, Zenon
<1>6. CASE NoData("down") /\ Goto("down", AfterWrite("down")) /\ UNCHANGED <<er, recv, unflushed, broken>>
  <2>1. pc'["down"] \in {"read", "finish"} /\ (pc'["down"] = "read" => er["down"] = "nil")
    BY <1>0, <1>6, SMTT(30) DEF Goto, AfterWrite, IInv, Types
  <2>2. Output' = Output
    BY <1>1, <1>2, <1>6, Zenon DEF NoData, Output
  <2>3. DownPhases'
    BY <1>1, <1>2, <1>6, <2>1, ZenonT(60) DEF DownPhases
  <2>. QED BY <1>0, <1>1, <1>2, <1>6, <2>2, <2>3, DownMove, ZenonT(60)
<1>7. CASE Deliver("down", b) /\ Goto("down", AfterFull("down")) /\ UNCHANGED <<er, broken>>
  <2>1. /\ pc'["down"] \in {"read", "finish", "flush"} /\ (pc'["down"] = "read" => er["down"] = "nil")
    BY <1>0, <1>7, SMTT(30) DEF Goto, AfterWrite, AfterFull, IInv, Types
  <2>2. /\ recv'["down"] \o unflushed' = (rc \o u) \o b
        /\ recv'["down"] = rc \/ (kind = "hijack" /\ recv'["down"] = rc \o b /\ rc \o u = rc)
        /\ kind = "hijack" => unflushed' = <<>>
    BY <1>0, <1>5, <1>7, ZenonT(60)
  <2>3. Output' = Output
    BY <1>4, <2>2, Zenon DEF Output
  <2>4. Starts(recv'["down"], Output)
    <3>1. Starts(recv'["down"], recv'["down"] \o unflushed')
      BY <1>3, StartsConcat, ZenonT(60)
    <3>. QED BY <1>4, <2>3, <3>1, ZenonT(60)
  <2>5. DownPhases'
    BY <1>1, <1>2, <1>7, <2>1, <2>2, ZenonT(60) DEF DownPhases
  <2>. QED BY <1>1, <1>2, <1>7, <2>3, <2>4, <2>5, DownMove, ZenonT(60)
<1>8. CASE /\ \E n \in 0..(Len(b) - 1) : Deliver("down", SubSeq(b, 1, n))
           /\ WriteFails("down") /\ Goto("down", "finish")
  <2>1. pc'["down"] = "finish" /\ broken'["down"] /\ er'["down"] = "err"
    BY <1>0, <1>8, Zenon DEF Goto, WriteFails, IInv, Types, StreamTypes
  <2>2. PICK n \in 0..(Len(b) - 1) : Deliver("down", SubSeq(b, 1, n))
    BY <1>8, ZenonT(60)
  <2>. DEFINE c == SubSeq(b, 1, n)
  <2>3. c \in Seq(Byte) /\ Starts(c, b)
    BY <1>0, <2>2, SMTT(30) DEF Starts
  <2>. HIDE DEF c
  <2>4. /\ recv'["down"] = rc \/ (kind = "hijack" /\ recv'["down"] = rc \o c /\ rc \o u = rc)
        /\ kind = "hijack" => unflushed' = <<>>
    BY <1>5, <2>2, <2>3, Zenon DEF c
  <2>5. Starts(recv'["down"], Output)
    <3>1. CASE recv'["down"] = rc
      BY <1>0, <3>1, Zenon
    <3>2. CASE recv'["down"] = rc \o c /\ rc \o u = rc
      <4>1. Starts(rc \o c, rc \o b)
        BY <1>0, <2>3, StartsConcat, ZenonT(60)
      <4>. QED BY <3>2, <4>1, Zenon DEF Output
    <3>. QED BY <2>4, <3>1, <3>2, ZenonT(60)
  <2>6. DownPhases'
    BY <1>1, <1>2, <2>1, <2>4, ZenonT(60) DEF DownPhases
  <2>. QED BY <1>1, <1>2, <2>1, <2>5, <2>6, DownMove, ZenonT(60)
<1>. QED BY <1>6, <1>7, <1>8, Zenon DEF Write

\* ... and from there to the client.
LEMMA DownFlush == ASSUME IInv, StreamTypes, StreamTypes', DownInv, Flush PROVE DownInv'
<1>. DEFINE rc == recv["down"]  u == unflushed  o == rc \o u
<1>0. /\ "down" \in Direction /\ rc \in Seq(Byte) /\ u \in Seq(Byte) /\ Starts(rc, Output)
      /\ (buf["down"] = <<>> => Output = o) /\ o \in Seq(Byte) /\ Starts(o, Output)
  BY DownFacts, Zenon
<1>1. UNCHANGED <<kind, wire, pos, num, buf, handler>> /\ pc["down"] = "flush"
  BY ZenonT(60) DEF Flush, streams
<1>2. buf["down"] = <<>> /\ ~broken["down"] /\ (kind = "hijack" => u = <<>>) /\ handler # "done"
  BY <1>0, <1>1, Zenon DEF DownInv, DownPhases, IInv, Phases
<1>3. CASE /\ recv' = [recv EXCEPT !["down"] = o] /\ unflushed' = <<>>
           /\ Goto("down", AfterWrite("down")) /\ UNCHANGED <<er, broken>>
  <2>1. pc'["down"] \in {"read", "finish"} /\ (pc'["down"] = "read" => er["down"] = "nil")
    BY <1>0, <1>3, Zenon DEF Goto, AfterWrite, IInv, Types
  <2>. HIDE DEF o
  <2>2. recv'["down"] = o /\ o \o <<>> = o
    BY <1>0, <1>3, StartsConcat, ZenonT(60) DEF StreamTypes
  <2>3. Output' = Output
    BY <1>0, <1>1, <1>2, <1>3, <2>2, ZenonT(60) DEF Output
  <2>4. DownPhases'
    BY <1>1, <1>2, <1>3, <2>1, ZenonT(60) DEF DownPhases
  <2>. QED BY <1>0, <1>1, <1>2, <1>3, <2>2, <2>3, <2>4, DownMove, ZenonT(60)
<1>4. CASE WriteFails("down") /\ Goto("down", "finish") /\ UNCHANGED <<recv, unflushed>>
  <2>1. pc'["down"] = "finish" /\ broken'["down"] /\ er'["down"] = "err"
    BY <1>0, <1>4, Zenon DEF Goto, WriteFails, IInv, Types, StreamTypes
  <2>2. DownPhases'
    BY <1>1, <1>2, <1>4, <2>1, ZenonT(60) DEF DownPhases
  <2>. QED BY <1>0, <1>1, <1>2, <1>4, <2>1, <2>2, DownMove, ZenonT(60)
<1>. QED BY <1>3, <1>4, Zenon DEF Flush

\* When the handler has returned the server flushes what is left.
LEMMA DownCloseTarget == ASSUME IInv, StreamTypes, StreamTypes', DownInv, CloseTarget PROVE DownInv'
<1>. DEFINE rc == recv["down"]  u == unflushed  o == rc \o u
<1>0. /\ "down" \in Direction /\ rc \in Seq(Byte) /\ u \in Seq(Byte)
      /\ (buf["down"] = <<>> => Output = o) /\ o \in Seq(Byte) /\ Starts(o, Output)
  BY DownFacts, Zenon
<1>1. /\ UNCHANGED <<kind, wire, pos, num, buf, er, pc, broken>> /\ unflushed' = <<>> /\ handler' = "done"
      /\ recv' = [recv EXCEPT !["down"] = IF broken["down"] THEN rc ELSE o]
  BY Zenon DEF CloseTarget, streams, loop
<1>2. buf["down"] = <<>>
  <2>1. pc["down"] \in {"off", "done"}
    BY Zenon DEF CloseTarget, IInv, Phases
  <2>. QED BY <2>1, Zenon DEF DownInv, DownPhases
<1>3. DownPhases'
  BY <1>1, <1>2, Zenon DEF DownInv, DownPhases
<1>. HIDE DEF o
<1>4. recv'["down"] = IF broken["down"] THEN rc ELSE o
  BY <1>0, <1>1, Zenon DEF StreamTypes
<1>5. CASE broken["down"]
  BY <1>1, <1>3, <1>4, <1>5, ZenonT(60) DEF DownInv
<1>6. CASE ~broken["down"]
  <2>1. o \o <<>> = o
    BY <1>0
  <2>2. Output' = Output
    BY <1>0, <1>1, <1>2, <1>4, <1>6, <2>1, ZenonT(60) DEF Output
  <2>. QED BY <1>0, <1>1, <1>3, <1>4, <1>6, <2>2, DownMove, ZenonT(60)
<1>. QED BY <1>5, <1>6, Zenon

\* Steps of the downward copy.
LEMMA DownCopy ==
  ASSUME IInv, StreamTypes, StreamTypes', UpInv, DownInv, Copy("down") PROVE UpInv' /\ DownInv'
<1>0. UpSide' = UpSide /\ pc'["up"] = pc["up"] /\ handler' = handler
  BY Apart, Zenon
<1>1. UpInv'
  BY <1>0, UpFrame, Zenon
<1>2. CASE CloseWrite("down")
  <2>1. pc["down"] = "finish" /\ pc'["down"] = "done"
    BY <1>2 DEF CloseWrite, Goto, IInv, Types, Direction
  <2>2. DownSide' = DownSide
    BY <1>2, Zenon DEF CloseWrite, DownSide, streams, loop
  <2>3. DownInv'
    BY <1>0, <2>1, <2>2, DownFrame, ZenonT(60)
  <2>. QED BY <1>1, <2>3, ZenonT(60)
<1>3. "up" # "down"
  OBVIOUS
<1>. QED BY <1>1, <1>2, <1>3, DownReadPlain, DownReadToFrame, DownWrite, DownFlush, ZenonT(60) DEF Copy

\* Steps of the handler, and of the peers.
LEMMA OthersKeep ==
  ASSUME IInv, StreamTypes, StreamTypes', UpInv, DownInv,
         Handle \/ UNCHANGED vars \/ \E d \in Direction : SourceEnds(d)
  PROVE  UpInv' /\ DownInv'
<1>0. pc \in [Direction -> {"off", "read", "payload", "junk", "write", "flush", "finish", "done"}]
      /\ "up" \in Direction /\ "down" \in Direction /\ recv \in [Direction -> Seq(Byte)]
      /\ pos \in [Direction -> Nat] /\ broken \in [Direction -> BOOLEAN]
  BY DEF IInv, Types, Direction, StreamTypes
<1>. USE DEF streams, loop
<1>1. CASE Buffered
  <2>1. DownSide' = DownSide
    <3>1. recv'["down"] = recv["down"] /\ pos'["down"] = pos["down"] /\ broken'["down"] = broken["down"]
      BY <1>0, <1>1, Zenon DEF Buffered, PassBuffered, Take
    <3>. QED BY <1>1, <3>1, ZenonT(60) DEF Buffered, DownSide
  <2>2. pc' = pc /\ handler' = "head"
    BY <1>1, Zenon DEF Buffered
  <2>3. DownInv'
    BY <2>1, <2>2, DownFrame, ZenonT(60)
  <2>. QED BY <1>1, <2>3, UpBuffered, Zenon
<1>2. CASE FlushHead
  <2>1. UpSide' = UpSide /\ DownSide' = DownSide /\ pc' = pc
    BY <1>2, Zenon DEF FlushHead, UpSide, DownSide
  <2>2. handler = "head" /\ handler' \in {"dual", "client"}
    BY <1>2, Zenon DEF FlushHead
  <2>. QED BY <2>1, <2>2, UpFrame, DownFrame, ZenonT(60)
<1>3. CASE DualStream
  <2>1. UpSide' = UpSide /\ DownSide' = DownSide
    BY <1>3, Zenon DEF DualStream, UpSide, DownSide
  <2>2. handler = "dual" /\ handler' \in {"dual", "client"}
    BY <1>3, Zenon DEF DualStream
  <2>3. \/ pc' = pc
        \/ pc["down"] = "off" /\ pc["up"] = "off" /\ pc'["up"] = "read" /\ pc'["down"] = "read"
    BY <1>0, <1>3, Zenon DEF DualStream, IInv, Phases
  <2>4. pc["down"] = "off" => ~broken["down"]
    BY Zenon DEF DownInv, DownPhases
  <2>. QED BY <2>1, <2>2, <2>3, <2>4, UpFrame, DownFrame, ZenonT(60)
<1>4. CASE CloseClient
  <2>1. UpSide' = UpSide /\ DownSide' = DownSide /\ pc' = pc /\ handler' = "target"
    BY <1>4, Zenon DEF CloseClient, UpSide, DownSide
  <2>. QED BY <2>1, UpFrame, DownFrame, Zenon
<1>5. CASE CloseTarget
  <2>1. UpSide' = UpSide
    <3>1. recv'["up"] = recv["up"]
      BY <1>0, <1>5, SMTT(30) DEF CloseTarget
    <3>. QED BY <1>5, <3>1, ZenonT(60) DEF CloseTarget, UpSide
  <2>2. pc' = pc /\ handler' = "done"
    BY <1>5, Zenon DEF CloseTarget
  <2>3. UpInv'
    BY <2>1, <2>2, UpFrame, ZenonT(60)
  <2>. QED BY <1>5, <2>3, DownCloseTarget, Zenon
<1>6. CASE UNCHANGED vars \/ \E d \in Direction : SourceEnds(d)
  <2>1. UpSide' = UpSide /\ DownSide' = DownSide /\ pc' = pc /\ handler' = handler
    BY <1>6, Zenon DEF vars, SourceEnds, UpSide, DownSide
  <2>. QED BY <2>1, UpFrame, DownFrame, ZenonT(60)
<1>. QED BY <1>1, <1>2, <1>3, <1>4, <1>5, <1>6, ZenonT(60) DEF Handle

\* The streams and the copies.
StreamInv == StreamTypes /\ SentInv /\ UpInv /\ DownInv

\* The streams stay as they are described.
LEMMA StreamsKept == Spec => []StreamInv
<1>1. Init => StreamInv
  BY InitStreams, Zenon DEF StreamInv
<1>2. ASSUME IInv, StreamInv, [Next]_vars PROVE StreamInv'
  <2>1. StreamTypes /\ SentInv /\ UpInv /\ DownInv
    BY <1>2, Zenon DEF StreamInv
  <2>2. SentInv'
    <3>1. UNCHANGED <<kind, sent, wire>>
      <4>1. \A d \in Direction : Copy(d) => UNCHANGED <<kind, sent, wire>>
        BY Zenon DEF Copy, ReadPlain, Write, CloseWrite, ReadHeader, ReadPayload, ReadJunk, ReadToFrame,
                     Flush, streams
      <4>2. Handle => UNCHANGED <<kind, sent, wire>>
        BY Zenon DEF Handle, Buffered, FlushHead, DualStream, CloseClient, CloseTarget, streams
      <4>. QED BY <1>2, <4>1, <4>2, ZenonT(60) DEF Next, vars, streams, SourceEnds
    <3>. QED BY <2>1, <3>1, Zenon DEF SentInv
  <2>3. \/ Copy("up") \/ Copy("down")
        \/ Handle \/ UNCHANGED vars \/ \E d \in Direction : SourceEnds(d)
    <3>1. \A d \in Direction : d = "up" \/ d = "down"
      BY DEF Direction
    <3>. QED BY <1>2, <3>1, Zenon DEF Next
  <2>4. StreamTypes'
    <3>1. "up" \in Direction /\ "down" \in Direction
      BY DEF Direction
    <3>. QED BY <2>1, <2>3, <3>1, CopyTypes, OtherTypes, ZenonT(60)
  <2>5. UpInv' /\ DownInv'
    BY <1>2, <2>1, <2>3, <2>4, UpCopy, DownCopy, OthersKeep, ZenonT(60)
  <2>. QED BY <2>2, <2>4, <2>5, Zenon DEF StreamInv
<1>3. IInv /\ StreamInv /\ [Next]_vars => StreamInv'
  BY <1>2
<1>. QED BY <1>1, <1>3, Invariance, PTL DEF Spec

(* A tunnel keeps its types: no read is taken past the end of a stream, no   *)
(* copy holds more than the pooled buffer, and no frame states a size that   *)
(* the buffer cannot hold.                                                   *)
THEOREM TypeCorrect == Spec => []TypeOK
<1>1. IInv /\ StreamInv => TypeOK
  <2>. SUFFICES ASSUME IInv, StreamInv PROVE TypeOK
    BY Zenon
  <2>1. StreamTypes /\ IInv
    BY Zenon DEF StreamInv
  <2>2. frame.size < BufferSize
    BY <2>1, Sizes, SMTT(30) DEF StreamTypes
  <2>3. \A d \in Direction : pos[d] \in 0..Len(wire[d])
    BY <2>1, SMTT(30) DEF StreamTypes
  <2>. QED BY <2>1, <2>2, <2>3, ZenonT(60) DEF StreamTypes, IInv, Types, TypeOK
<1>. QED BY <1>1, Invariance, StreamsKept, PTL

(* A tunnel harms no stream, whatever is said, however the network cuts it   *)
(* into reads, and whichever read or write fails: what the target gets is    *)
(* the beginning of what the client says, and what the client makes of what  *)
(* it gets is the beginning of what the target says.                         *)
THEOREM StreamsUnharmed == Spec => []StreamsIntact
<1>1. StreamInv => StreamsIntact
  <2>. SUFFICES ASSUME StreamInv PROVE StreamsIntact
    BY Zenon
  <2>1. StreamTypes /\ SentInv /\ UpInv /\ DownInv
    BY Zenon DEF StreamInv
  <2>2. /\ recv["up"] \in Seq(Byte) /\ recv["down"] \in Seq(Byte) /\ wire["up"] \in Seq(Byte)
        /\ wire["down"] \in Seq(Byte) /\ sent["up"] \in Seq(Byte)
    BY <2>1 DEF StreamTypes, Direction
  <2>3. \A x : Said(x) = Meant(kind, x)
    BY Zenon DEF Said, Meant
  <2>4. /\ Starts(recv["up"], Meant(kind, wire["up"])) /\ Starts(wire["up"], sent["up"])
        /\ Starts(Meant(kind, recv["down"]), wire["down"]) /\ wire["down"] = sent["down"]
    BY <2>1, Zenon DEF UpInv, DownInv, SentInv
  <2>5. /\ Meant(kind, wire["up"]) \in Seq(Byte) /\ Meant(kind, sent["up"]) \in Seq(Byte)
        /\ Starts(Meant(kind, wire["up"]), Meant(kind, sent["up"]))
    BY <2>2, <2>4, MeantStarts, Zenon
  <2>6. Starts(recv["up"], Meant(kind, sent["up"]))
    BY <2>2, <2>4, <2>5, StartsTransitive, ZenonT(60)
  <2>7. Meant(kind, recv["down"]) \in Seq(Byte)
    BY <2>2, UnframeType, Zenon DEF Meant
  <2>8. Starts(recv["up"], Said(sent["up"]))
    BY <2>2, <2>3, <2>5, <2>6, Zenon
  <2>9. Starts(Said(recv["down"]), sent["down"])
    BY <2>2, <2>3, <2>4, <2>7, ZenonT(60)
  <2>. QED BY <2>8, <2>9, Zenon DEF StreamsIntact
<1>. QED BY <1>1, StreamsKept, PTL

(* A tunnel loses nothing of a stream that ends: a copy that stops at the    *)
(* end of its source, with no failed write, has passed on all that arrived,  *)
(* what was buffered and what waits for a flush included.                    *)
THEOREM AllDelivered == Spec => []NothingLost
<1>1. IInv /\ StreamInv => NothingLost
  <2>. SUFFICES ASSUME IInv, StreamInv PROVE NothingLost
    BY Zenon
  <2>1. StreamTypes /\ SentInv /\ UpInv /\ DownInv
    BY Zenon DEF StreamInv
  <2>2. \A x : Said(x) = Meant(kind, x)
    BY Zenon DEF Said, Meant
  <2>3. ASSUME pc["up"] = "done", er["up"] = "eof", ~broken["up"] PROVE recv["up"] = Said(wire["up"])
    <3>. DEFINE w == wire["up"]  out == recv["up"] \o buf["up"]
    <3>1. w \in Seq(Byte) /\ num["up"] \in 0..NumFirstPaddings /\ pos["up"] \in 0..Len(w)
          /\ recv["up"] \o <<>> = recv["up"]
      BY <2>1, UpFacts, Zenon
    <3>2. UpHeld /\ buf["up"] = <<>>
      BY <2>1, <2>3, ZenonT(60) DEF UpInv, UpPhases
    <3>3. Caught(kind, w, num["up"], pos["up"], out) /\ pos["up"] = Len(w)
      BY <2>3, <3>2, Zenon DEF UpHeld
    <3>4. out = Meant(kind, w)
      <4>1. Caught(kind, w, num["up"], pos["up"], out)
        BY <3>3, Zenon
      <4>. HIDE DEF out, w
      <4>2. pos["up"] = Len(w) => out = Meant(kind, w)
        BY <3>1, <4>1, CaughtSays, ZenonT(60)
      <4>. QED BY <3>3, <4>2, Zenon
    <3>. QED BY <2>2, <3>1, <3>2, <3>4, Zenon
  <2>4. ASSUME handler = "done", er["down"] = "eof", ~broken["down"]
        PROVE  Said(recv["down"]) = wire["down"]
    <3>. DEFINE w == wire["down"]
    <3>1. /\ w \in Seq(Byte) /\ (unflushed = <<>> => recv["down"] \o unflushed = recv["down"])
          /\ (buf["down"] = <<>> => Output = recv["down"] \o unflushed)
      BY <2>1, DownFacts, ZenonT(60)
    <3>2. DownHeld /\ buf["down"] = <<>> /\ unflushed = <<>>
      BY <2>1, <2>4, ZenonT(60) DEF DownInv, DownPhases, IInv, Phases
    <3>3. Meant(kind, recv["down"]) = SubSeq(w, 1, Len(w))
      BY <2>4, <3>1, <3>2, Zenon DEF DownHeld
    <3>4. SubSeq(w, 1, Len(w)) = w
      BY <3>1, WholeSequence, Zenon
    <3>. QED BY <2>2, <3>3, <3>4, Zenon
  <2>. QED BY <2>3, <2>4, Zenon DEF NothingLost
<1>. QED BY <1>1, Invariance, StreamsKept, PTL
=============================================================================
