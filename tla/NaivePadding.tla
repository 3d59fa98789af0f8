---------------------------- MODULE NaivePadding ----------------------------
(***************************************************************************)
(* The frames of Naive's padding protocol as flushingIoCopy writes them    *)
(* (forwardproxy.go): two bytes of payload size, one byte of padding size, *)
(* the payload and the padding.  The first NumFirstPaddings writes of a    *)
(* stream are framed, the rest of it is not.                               *)
(***************************************************************************)
EXTENDS Integers, Sequences

CONSTANTS
  Base,             \* the values of a byte: 256 in the code, where 65536 = 256 * 256
  NumFirstPaddings

ASSUME PaddingAssumption == Base \in Nat /\ Base >= 3 /\ NumFirstPaddings \in Nat

Byte == 0..(Base - 1)
BufferSize == Base * Base

\* Mutant of MaxPayload: the whole of buf[3:] is read into.
RestOfBuffer(p) == BufferSize - 3

\* buf[3:maxRead]: what one read may return when p bytes of padding follow.
MaxPayload(p) == (BufferSize - 3 - p) - 3

SizeBytes(n) == <<n \div Base, n % Base>>
SizeOf(hi, lo) == hi * Base + lo

Frame(data, p) == SizeBytes(Len(data)) \o <<p>> \o data \o [i \in 1..p |-> 0]

UpTo(n, m) == IF n <= m THEN n ELSE m

\* The frame that starts after the first a bytes of a stream w, and may be cut
\* short: the size its header states, where it ends, and its payload.
Size(w, a) == SizeOf(w[a + 1], w[a + 2])

FrameEnd(w, a) ==
  IF Len(w) < a + 3 THEN Len(w) ELSE UpTo(a + 3 + Size(w, a) + w[a + 3], Len(w))

Payload(w, a) ==
  IF Len(w) < a + 3 THEN <<>> ELSE SubSeq(w, a + 4, UpTo(a + 3 + Size(w, a), Len(w)))

\* Where the first k frames end, and their payloads.
FrameAt(w) ==
  LET at[k \in 0..NumFirstPaddings] == IF k = 0 THEN 0 ELSE FrameEnd(w, at[k - 1]) IN at

Payloads(w) ==
  LET data[k \in 0..NumFirstPaddings] ==
        IF k = 0 THEN <<>> ELSE data[k - 1] \o Payload(w, FrameAt(w)[k - 1])
  IN data

\* What a peer makes of w by the protocol: the payloads of the frames, the last
\* of which may be cut short, and then the rest as it is.
Unframe(w) ==
  Payloads(w)[NumFirstPaddings] \o SubSeq(w, FrameAt(w)[NumFirstPaddings] + 1, Len(w))
=============================================================================
