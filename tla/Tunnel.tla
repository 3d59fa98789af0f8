------------------------------- MODULE Tunnel -------------------------------
(***************************************************************************)
(* An established CONNECT tunnel: dualStream, the two copy loops it starts *)
(* (flushingIoCopy), serveHijack before it, and the deferred closes after  *)
(* it.  Direction "up" is client to target, a goroutine of its own; "down" *)
(* is target to client and runs in the handler.                            *)
(*                                                                         *)
(* Streams are sequences of bytes.  All that a side will ever send is      *)
(* there from the start: a side that is silent is one that is not read     *)
(* yet.  A read returns any part of what is there, a write may fail after  *)
(* any part of it, and either side may end or reset its stream any time.   *)
(***************************************************************************)
EXTENDS NaivePadding, Lists

CONSTANTS
  Kinds,      \* hijack (HTTP/1.1), plain and padded (HTTP/2 and HTTP/3)
  Exchanges   \* what is said: the client's writes [data, pad], and the target's bytes

\* A write is of some data, at most as much as a frame can hold.
ASSUME ExchangesAssumption ==
  \A x \in Exchanges :
    /\ x.up \in Seq([data : Seq(Byte) \ {<<>>}, pad : Byte]) /\ x.down \in Seq(Byte)
    /\ \A i \in DOMAIN x.up : Len(x.up[i].data) < BufferSize

VARIABLES
  kind,     \* the kind of tunnel
  sent,     \* per direction: what its source puts on the wire, all in all
  wire,     \* per direction: what arrives of it
  pos,      \* per direction: how much of the wire was read
  end,      \* per direction: open, eof or reset by the source
  pc,       \* per direction: off, read, payload, junk, write, flush, finish, done
  num,      \* per direction: numPadding
  buf,      \* per direction: buf[0:nr]
  er,       \* per direction: er, then the outcome: nil, eof or err
  frame,    \* the header that RemovePadding read: [size, pad]
  recv,     \* per direction: what reached its destination
  unflushed,\* what was written to the ResponseWriter and not flushed
  broken,   \* per direction: whether a write failed
  fin,      \* per direction: whether the destination was told that it is over
  handler,  \* buffered, head, dual, client, target, done
  closed    \* the ends closed by the proxy, of client and target

streams == <<sent, wire, end>>
loop == <<num, buf, er, frame>>
vars == <<kind, streams, pos, pc, loop, recv, unflushed, broken, fin, handler, closed>>

Direction == {"up", "down"}
Source(d) == IF d = "up" THEN "client" ELSE "target"
Dest(d) == IF d = "up" THEN "target" ELSE "client"

\* What the client puts on the wire for its writes: the first ones framed, if it pads.
OnWire(write, i) ==
  IF kind = "padded" /\ i <= NumFirstPaddings THEN Frame(write.data, write.pad) ELSE write.data

Written(writes) == Concat([i \in DOMAIN writes |-> OnWire(writes[i], i)])

Init ==
  /\ kind \in Kinds
  /\ \E x \in Exchanges :
       sent = [d \in Direction |-> IF d = "up" THEN Written(x.up) ELSE x.down]
  /\ \E n \in 0..Len(sent["up"]) :    \* it may be cut anywhere, inside a frame too
       wire = [sent EXCEPT !["up"] = SubSeq(@, 1, n)]
  /\ pos = [d \in Direction |-> 0] /\ end = [d \in Direction |-> "open"]
  /\ pc = [d \in Direction |-> "off"]
  /\ num = [d \in Direction |-> 0] /\ buf = [d \in Direction |-> <<>>]
  /\ er = [d \in Direction |-> "nil"] /\ frame = [size |-> 0, pad |-> 0]
  /\ recv = [d \in Direction |-> <<>>] /\ unflushed = <<>>
  /\ broken = [d \in Direction |-> FALSE] /\ fin = [d \in Direction |-> FALSE]
  /\ handler = IF kind = "hijack" THEN "buffered" ELSE "dual"
  /\ closed = {}

-----------------------------------------------------------------------------
(* Reads: the pairs <<bytes read, error>> that a read may return. *)

Avail(d) == Len(wire[d]) - pos[d]
Open(d) == Source(d) \notin closed

Over(d) == end[d] # "open" \/ ~Open(d)
AtEnd(d) == IF Open(d) /\ end[d] = "eof" THEN "eof" ELSE "err"

\* Read: data, data with EOF, or the end.
Reads(d, cap) ==
  {r \in (1..UpTo(Avail(d), cap)) \X {"nil", "eof"} :
     Open(d) /\ (r[2] = "eof" => end[d] = "eof" /\ r[1] = Avail(d))}
  \cup (IF ~Open(d) \/ (Over(d) /\ Avail(d) = 0) THEN {<<0, AtEnd(d)>>} ELSE {})

\* io.ReadFull: n bytes, or the fewer that there are and an error, which is EOF
\* only if there are none.
FullReads(d, n) ==
  IF n = 0 THEN {<<0, "nil">>}
  ELSE (IF Open(d) /\ Avail(d) >= n THEN {<<n, "nil">>} ELSE {})
       \cup (IF Over(d) /\ Avail(d) < n
             THEN {<<Avail(d), IF Avail(d) = 0 THEN AtEnd(d) ELSE "err">>} ELSE {})
       \cup (IF ~Open(d) THEN {<<0, "err">>} ELSE {})

Bytes(d, k) == SubSeq(wire[d], pos[d] + 1, pos[d] + k)
Take(d, k) == pos' = [pos EXCEPT ![d] = @ + k]
Goto(d, l) == pc' = [pc EXCEPT ![d] = l]
Got(d, bytes, e) == buf' = [buf EXCEPT ![d] = bytes] /\ er' = [er EXCEPT ![d] = e]

-----------------------------------------------------------------------------
(* flushingIoCopy *)

Framing(d) == kind = "padded" /\ num[d] < NumFirstPaddings

ReadPlain(d) ==
  /\ pc[d] = "read" /\ ~Framing(d)
  /\ \E r \in Reads(d, BufferSize) : Take(d, r[1]) /\ Got(d, Bytes(d, r[1]), r[2])
  /\ Goto(d, "write")
  /\ UNCHANGED <<kind, streams, num, frame, recv, unflushed, broken, fin, handler, closed>>

ReadToFrame ==
  /\ pc["down"] = "read" /\ Framing("down")
  /\ num' = [num EXCEPT !["down"] = @ + 1]
  /\ \E p \in Byte : \E r \in Reads("down", MaxPayload(p)) :
       /\ Take("down", r[1])
       /\ Got("down", IF r[1] > 0 THEN Frame(Bytes("down", r[1]), p) ELSE <<>>, r[2])
  /\ Goto("down", "write")
  /\ UNCHANGED <<kind, streams, frame, recv, unflushed, broken, fin, handler, closed>>

\* A header that is cut short is completed by whatever the pooled buffer holds.
ReadHeader ==
  /\ pc["up"] = "read" /\ Framing("up")
  /\ num' = [num EXCEPT !["up"] = @ + 1]
  /\ \E r \in FullReads("up", 3) :
       /\ Take("up", r[1])
       /\ IF r[1] = 0 THEN Got("up", <<>>, r[2]) /\ Goto("up", "write") /\ frame' = frame
          ELSE \E stale \in [1..(3 - r[1]) -> Byte] :
                 LET h == Bytes("up", r[1]) \o stale IN
                 /\ frame' = [size |-> SizeOf(h[1], h[2]), pad |-> h[3]]
                 /\ Goto("up", "payload") /\ UNCHANGED <<buf, er>>
  /\ UNCHANGED <<kind, streams, recv, unflushed, broken, fin, handler, closed>>

\* The error of the header's read is forgotten; a frame without payload has no
\* padding as far as this reader is concerned.
ReadPayload ==
  /\ pc["up"] = "payload"
  /\ \E r \in FullReads("up", frame.size) :
       /\ Take("up", r[1]) /\ Got("up", Bytes("up", r[1]), r[2])
       /\ Goto("up", IF r[1] > 0 THEN "junk" ELSE "write")
  /\ UNCHANGED <<kind, streams, num, frame, recv, unflushed, broken, fin, handler, closed>>

\* Mutant of SkipPadding: a frame's padding is taken for the next header.
KeepPadding == UNCHANGED <<pos, er>>

\* The error of the payload's read is forgotten.
SkipPadding ==
  \E r \in FullReads("up", frame.pad) : Take("up", r[1]) /\ er' = [er EXCEPT !["up"] = r[2]]

ReadJunk ==
  /\ pc["up"] = "junk"
  /\ SkipPadding
  /\ Goto("up", "write")
  /\ UNCHANGED <<kind, streams, num, buf, frame, recv, unflushed, broken, fin, handler, closed>>

Flushes(d) == d = "down" /\ kind # "hijack"

AfterWrite(d) == IF er[d] = "nil" THEN "read" ELSE "finish"

Deliver(d, bytes) ==
  IF Flushes(d) THEN unflushed' = unflushed \o bytes /\ recv' = recv
  ELSE recv' = [recv EXCEPT ![d] = @ \o bytes] /\ unflushed' = unflushed

WriteFails(d) == broken' = [broken EXCEPT ![d] = TRUE] /\ er' = [er EXCEPT ![d] = "err"]

\* Mutant of AfterFull: nothing is flushed.
NeverFlush(d) == AfterWrite(d)

AfterFull(d) == IF Flushes(d) THEN "flush" ELSE AfterWrite(d)

\* Mutant of NoData: the error is looked at before the data it came with.
ErrorFirst(d) == buf[d] = <<>> \/ er[d] # "nil"

NoData(d) == buf[d] = <<>>

Write(d) ==
  /\ pc[d] = "write"
  /\ \/ NoData(d) /\ Goto(d, AfterWrite(d)) /\ UNCHANGED <<er, recv, unflushed, broken>>
     \/ /\ ~NoData(d) /\ ~broken[d] /\ Dest(d) \notin closed
        /\ Deliver(d, buf[d]) /\ Goto(d, AfterFull(d)) /\ UNCHANGED <<er, broken>>
     \/ /\ ~NoData(d)
        /\ \E n \in 0..(Len(buf[d]) - 1) :
             /\ n > 0 => ~broken[d] /\ Dest(d) \notin closed
             /\ Deliver(d, SubSeq(buf[d], 1, n))
        /\ WriteFails(d) /\ Goto(d, "finish")
  /\ buf' = [buf EXCEPT ![d] = <<>>]
  /\ UNCHANGED <<kind, streams, pos, num, frame, fin, handler, closed>>

Flush ==
  /\ pc["down"] = "flush"
  /\ \/ /\ recv' = [recv EXCEPT !["down"] = @ \o unflushed] /\ unflushed' = <<>>
        /\ Goto("down", AfterWrite("down")) /\ UNCHANGED <<er, broken>>
     \/ WriteFails("down") /\ Goto("down", "finish") /\ UNCHANGED <<recv, unflushed>>
  /\ UNCHANGED <<kind, streams, pos, num, buf, frame, fin, handler, closed>>

\* stream, once its copy is over: CloseWrite, which a ResponseWriter does not have
\* and a connection that was closed refuses.
CloseWrite(d) ==
  /\ pc[d] = "finish"
  /\ fin' = [fin EXCEPT ![d] = @ \/ (~Flushes(d) /\ Dest(d) \notin closed)]
  /\ Goto(d, "done")
  /\ UNCHANGED <<kind, streams, pos, loop, recv, unflushed, broken, handler, closed>>

-----------------------------------------------------------------------------
(* The handler *)

\* targetConn.Write(rbuf), whose error is ignored.
PassBuffered(n) ==
  \/ recv' = [recv EXCEPT !["up"] = Bytes("up", n)] /\ broken' = broken
  \/ /\ n > 0 /\ broken' = [broken EXCEPT !["up"] = TRUE]
     /\ \E k \in 0..(n - 1) : recv' = [recv EXCEPT !["up"] = Bytes("up", k)]

\* serveHijack: n bytes of the client's were read with its request.
Buffered ==
  /\ handler = "buffered"
  /\ \E n \in 0..Len(wire["up"]) : Take("up", n) /\ PassBuffered(n)
  /\ handler' = "head"
  /\ UNCHANGED <<kind, streams, pc, loop, unflushed, fin, closed>>

FlushHead ==
  /\ handler = "head"
  /\ handler' \in {"dual", "client"}
  /\ UNCHANGED <<kind, streams, pos, pc, loop, recv, unflushed, broken, fin, closed>>

\* Mutant of Returned: dualStream waits for the other copy.
ReturnedUp == pc["up"] = "done"

Returned == pc["down"] = "done"

DualStream ==
  /\ handler = "dual"
  /\ \/ pc["down"] = "off" /\ pc' = [d \in Direction |-> "read"] /\ handler' = handler
     \/ Returned /\ handler' = "client" /\ pc' = pc
  /\ UNCHANGED <<kind, streams, pos, loop, recv, unflushed, broken, fin, closed>>

\* The deferred closes: of the hijacked connection or of the request's body, ...
CloseClient ==
  /\ handler = "client"
  /\ closed' = closed \cup {"client"}
  /\ fin' = [fin EXCEPT !["down"] = @ \/ kind = "hijack"]
  /\ handler' = "target"
  /\ UNCHANGED <<kind, streams, pos, pc, loop, recv, unflushed, broken>>

\* Mutant of CloseConn: the connection to the target is left open.
LeaveOpen == UNCHANGED <<closed, fin>>

CloseConn == closed' = closed \cup {"target"} /\ fin' = [fin EXCEPT !["up"] = TRUE]

\* ... and of the target's; when the handler has returned the server ends the response.
CloseTarget ==
  /\ handler = "target"
  /\ CloseConn
  /\ handler' = "done"
  /\ recv' = [recv EXCEPT !["down"] = IF broken["down"] THEN @ ELSE @ \o unflushed]
  /\ unflushed' = <<>>
  /\ UNCHANGED <<kind, streams, pos, pc, loop, broken>>

-----------------------------------------------------------------------------
(* The peers, and the whole *)

SourceEnds(d) ==
  /\ end[d] = "open" /\ handler # "done"
  /\ \E e \in {"eof", "reset"} : end' = [end EXCEPT ![d] = e]
  /\ UNCHANGED <<kind, sent, wire, pos, pc, loop, recv, unflushed, broken, fin, handler, closed>>

Copy(d) ==
  \/ ReadPlain(d) \/ Write(d) \/ CloseWrite(d)
  \/ d = "up" /\ (ReadHeader \/ ReadPayload \/ ReadJunk)
  \/ d = "down" /\ (ReadToFrame \/ Flush)

Handle == Buffered \/ FlushHead \/ DualStream \/ CloseClient \/ CloseTarget

Finished == handler = "done" /\ pc["up"] \in {"off", "done"}

Next ==
  \/ Handle
  \/ \E d \in Direction : Copy(d) \/ SourceEnds(d)
  \/ Finished /\ UNCHANGED vars

Spec == Init /\ [][Next]_vars

\* Goroutines that are not blocked run, and a peer accepts or refuses what it is
\* sent.  Neither need ever end its stream.
FairSpec == Spec /\ WF_vars(Handle) /\ \A d \in Direction : WF_vars(Copy(d))

-----------------------------------------------------------------------------
(* Properties *)

TypeOK ==
  /\ \A d \in Direction :
       /\ wire[d] \in Seq(Byte) /\ recv[d] \in Seq(Byte) /\ buf[d] \in Seq(Byte)
       /\ Len(buf[d]) <= BufferSize
       /\ pos[d] \in 0..Len(wire[d]) /\ num[d] \in 0..NumFirstPaddings
       /\ end[d] \in {"open", "eof", "reset"} /\ er[d] \in {"nil", "eof", "err"}
       /\ pc[d] \in {"off", "read", "payload", "junk", "write", "flush", "finish", "done"}
  /\ frame.size < BufferSize /\ frame.pad \in Byte
  /\ broken \in [Direction -> BOOLEAN] /\ fin \in [Direction -> BOOLEAN]
  /\ handler \in {"buffered", "head", "dual", "client", "target", "done"}
  /\ closed \subseteq {"client", "target"}

\* What was said by, or arrived from, a peer that pads if the tunnel does.
Said(bytes) == IF kind = "padded" THEN Unframe(bytes) ELSE bytes

(* Wherever a stream is cut, whatever the pooled buffer held and however     *)
(* reads and writes split it, each side receives a prefix of what the other  *)
(* said: padding, headers and buffered bytes are never taken for payload.    *)
StreamsIntact ==
  Starts(recv["up"], Said(sent["up"])) /\ Starts(Said(recv["down"]), sent["down"])

(* A copy that ends as its source ended, with EOF, has delivered all of it:  *)
(* the target is told that the client is done only after its last byte, and  *)
(* the response ends only after the target's.                                *)
NothingLost ==
  /\ (pc["up"] = "done" /\ er["up"] = "eof" /\ ~broken["up"]) => recv["up"] = Said(wire["up"])
  /\ (handler = "done" /\ er["down"] = "eof" /\ ~broken["down"]) => Said(recv["down"]) = wire["down"]

(* One direction never ends the other: the upward copy ends, and the target  *)
(* sees the end of the stream, only when the client has ended it, the target *)
(* refuses data or the tunnel is torn down; and it is torn down only when    *)
(* the target has ended its stream or the client refuses data (before the    *)
(* copies start, too): a client that has half-closed still gets its answer.  *)
HalfCloseKept ==
  /\ (fin["up"] \/ pc["up"] = "done") => end["up"] # "open" \/ broken["up"] \/ closed # {}
  /\ closed # {} => end["down"] # "open" \/ broken["down"] \/ pc["down"] = "off"

(* What one side sends reaches the other even if neither ever ends its       *)
(* stream: nothing waits in the response's buffer for more data, so two      *)
(* sides that wait for each other's next message are never stuck.            *)
Relayed ==
  /\ wire["up"] = sent["up"] =>
       <>(recv["up"] = Said(sent["up"]) \/ broken["up"] \/ end["up"] = "reset" \/ closed # {})
  /\ <>(Said(recv["down"]) = wire["down"] \/ broken["down"] \/ end["down"] = "reset" \/ closed # {})

(* Once the target has ended its stream, or the client refuses data, the     *)
(* tunnel is over: the handler closes both ends, and the upward copy, which  *)
(* nobody waits for, ends too, be it blocked in a read or in a write.        *)
Ends ==
  (end["down"] # "open" \/ broken["down"]) ~> (Finished /\ closed = {"client", "target"})
=============================================================================
