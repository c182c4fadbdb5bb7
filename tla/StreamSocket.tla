---------------------------- MODULE StreamSocket ----------------------------
(***************************************************************************)
(* The sockets of socket.h over the two ends of a linked UDP channel: one  *)
(* side calls write_some (or its asynchronous form), the other read_some,  *)
(* each with a sequence of buffers that post_io_method moves in parts no   *)
(* larger than what writable() and readable() report.  The channel is one  *)
(* direction as UdpStream models it, reduced to the counters the sockets   *)
(* see: its queue, its window and its acknowledgements.  The positions are *)
(* numbers of bytes.  Each end may fail at any time (close, shutdown, the  *)
(* tear of the peer, silence, moves that are never answered).              *)
(***************************************************************************)
EXTENDS Integers, Sequences

CONSTANTS
    SendBuffer, ReceiveBuffer,  \* qos::send_buffer_size(), receive_buffer_size()
    WriteShapes, ReadShapes,    \* buffer sequences of the calls, as sizes
    MaxBytes                    \* bound: bytes written

ASSUME SocketAssumption ==
    /\ SendBuffer \in Nat \ {0} /\ ReceiveBuffer \in Nat \ {0}
    /\ MaxBytes \in Nat
    /\ WriteShapes \subseteq Seq(Nat \ {0}) /\ ReadShapes \subseteq Seq(Nat \ {0})

VARIABLES
    tail,       \* ostreamer: the bytes accepted from write()
    head,       \* the bytes put in flight
    range,      \* the limit the peer granted
    confirmed,  \* the bytes acknowledged without a gap
    arrived,    \* istreamer: the bytes in the receive buffer or read
    taken,      \* the bytes given to read()
    edge,       \* the limit to grant
    wend, rend, \* the writing and the reading end: linked, or not any more
    doomed,     \* on_error is posted by a refused write
    wcall, rcall,   \* the calls of the two sockets
    careless,   \* history: write_some was called while writable() was 0
    refusals    \* history: the sizes of the parts that were refused

counters == <<tail, head, range, confirmed, arrived, taken, edge>>
channel == <<counters, wend, rend, doomed>>
vars == <<channel, wcall, rcall, careless, refusals>>

\* A call: the buffers left (the first one in part), the results carried by the
\* two overloads of post_io_method, the part under way; and as history the
\* number of buffers and the position of the stream it was made at.
Call == [phase : {"idle", "loop", "wait", "done"}, bufs : Seq(Nat),
         result : Nat, inner : Nat, part : Nat, ok : BOOLEAN,
         shape : Nat, from : Nat]

Begin(bufs, at) ==
    [phase |-> "loop", bufs |-> bufs, result |-> 0, inner |-> 0, part |-> 0,
     ok |-> TRUE, shape |-> Len(bufs), from |-> at]

Idle == [Begin(<<>>, 0) EXCEPT !.phase = "idle"]

TypeOK ==
    /\ {tail, head, range, confirmed, arrived, taken, edge} \subseteq Nat
    /\ wend \in {"linked", "failed"} /\ rend \in {"linked", "failed"}
    /\ doomed \in BOOLEAN /\ careless \in BOOLEAN /\ refusals \subseteq Nat
    /\ wcall \in Call /\ rcall \in Call

Init ==
    /\ tail = 0 /\ head = 0 /\ confirmed = 0 /\ arrived = 0 /\ taken = 0
    /\ range = ReceiveBuffer /\ edge = ReceiveBuffer
    /\ wend = "linked" /\ rend = "linked" /\ doomed = FALSE
    /\ wcall = Idle /\ rcall = Idle
    /\ careless = FALSE /\ refusals = {}

Lesser(a, b) == IF a <= b THEN a ELSE b

\* a - b, and 0 where b is the larger one.
Beyond(a, b) == IF a > b THEN a - b ELSE 0

-----------------------------------------------------------------------------
\* The channel.

\* writable() of the channel and of the ostreamer.
Writable ==
    IF wend = "linked" /\ range > tail
    THEN Lesser(range - tail, SendBuffer - (tail - head)) ELSE 0

\* readable() of the channel and of the istreamer: no other read is pending.
Readable == IF rend = "linked" THEN arrived - taken ELSE 0

\* streambuf::add and its check in append: a part of no bytes counts as refused.
Accepts(n) == n > 0 /\ tail + n - head < SendBuffer

\* A packet takes a byte from the queue, within the range.
Fly ==
    /\ wend = "linked" /\ head < Lesser(tail, range)
    /\ head' = head + 1
    /\ UNCHANGED <<tail, range, confirmed, arrived, taken, edge, wend, rend, doomed,
                   wcall, rcall, careless, refusals>>

\* A packet brings a byte, perhaps after the end that sent it has failed.
Arrive ==
    /\ rend = "linked" /\ arrived < head
    /\ arrived' = arrived + 1
    /\ UNCHANGED <<tail, head, range, confirmed, taken, edge, wend, rend, doomed,
                   wcall, rcall, careless, refusals>>

\* Acknowledgements, and an edge if it has moved, reach the writer.
Echo ==
    /\ wend = "linked" /\ (confirmed < arrived \/ range < edge)
    /\ \/ confirmed' = arrived /\ UNCHANGED range
       \/ confirmed' = arrived /\ range' = edge
    /\ UNCHANGED <<tail, head, arrived, taken, edge, wend, rend, doomed, wcall, rcall,
                   careless, refusals>>

\* An end leaves the linked state: close() or another mistake(), shutdown(), or
\* the tear of the peer.  The counters of its streamers are not read any more.
WriterFails ==
    /\ wend = "linked"
    /\ wend' = "failed" /\ doomed' = FALSE
    /\ UNCHANGED <<counters, rend, wcall, rcall, careless, refusals>>

ReaderFails ==
    /\ rend = "linked"
    /\ rend' = "failed"
    /\ UNCHANGED <<counters, wend, doomed, wcall, rcall, careless, refusals>>

-----------------------------------------------------------------------------
\* post_io_method.

PartOf(call, limit) == Lesser(limit, Head(call.bufs))

\* Mutant: an empty part is never passed on.
PostsNoEmpty(call, limit) == call.bufs # <<>> /\ PartOf(call, limit) > 0

\* Mutant: an empty part is passed on, whatever was moved.
PostsAlways(call, limit) == call.bufs # <<>> /\ Head(call.bufs) > 0

\* A part is passed to the channel: some bytes, or none as long as nothing was
\* moved.
Posts(call, limit) ==
    /\ call.bufs # <<>> /\ Head(call.bufs) > 0
    /\ PartOf(call, limit) > 0 \/ call.inner = 0

\* The buffer is finished, or nothing more can be moved at once: the inner
\* result is added to the outer one, and the next buffer starts with the sum.
NextBuffer(call) ==
    [call EXCEPT !.bufs = Tail(@), !.result = @ + call.inner,
                 !.inner = call.result + call.inner]

\* Mutant: the buffer is moved by all that was moved before as well.
AdvanceTwice(call) ==
    [call EXCEPT !.phase = "loop",
                 !.bufs = <<Head(@) - call.inner - call.part>> \o Tail(@),
                 !.inner = @ + call.part]

\* The channel's handler after a success: next += size, result + size.
Advance(call) ==
    [call EXCEPT !.phase = "loop", !.bufs = <<Head(@) - call.part>> \o Tail(@),
                 !.inner = @ + call.part]

\* The handlers after an error, with the bytes of the part the channel reports.
Fail(call, size) ==
    [call EXCEPT !.phase = "done", !.ok = FALSE, !.result = @ + call.inner + size]

\* What a step of the loop does with a call that posts nothing.
Turn(call) ==
    IF call.bufs = <<>> THEN [call EXCEPT !.phase = "done"] ELSE NextBuffer(call)

Total(call) ==
    IF Len(call.bufs) = 2 THEN call.bufs[1] + call.bufs[2]
    ELSE IF Len(call.bufs) = 1 THEN call.bufs[1] ELSE 0

-----------------------------------------------------------------------------
\* The writing socket.

WriteSome(bufs) ==
    /\ wcall.phase \in {"idle", "done"}
    /\ wcall' = Begin(bufs, tail)
    /\ tail + Total(wcall') <= MaxBytes
    /\ careless' = (careless \/ (wend = "linked" /\ Writable = 0))
    /\ UNCHANGED <<channel, rcall, refusals>>

\* write() of a part: refused by an end that is not linked, accepted, or refused
\* by the queue, which fails the call and posts on_error.
WriteStep ==
    /\ wcall.phase = "loop"
    /\ \/ /\ ~Posts(wcall, Writable)
          /\ wcall' = Turn(wcall)
          /\ UNCHANGED <<tail, doomed, refusals>>
       \/ /\ Posts(wcall, Writable) /\ wend = "failed"
          /\ wcall' = Fail(wcall, 0)
          /\ UNCHANGED <<tail, doomed, refusals>>
       \/ /\ Posts(wcall, Writable) /\ wend = "linked"
          /\ Accepts(PartOf(wcall, Writable))
          /\ wcall' = [wcall EXCEPT !.phase = "wait", !.part = PartOf(wcall, Writable)]
          /\ tail' = tail + PartOf(wcall, Writable)
          /\ UNCHANGED <<doomed, refusals>>
       \/ /\ Posts(wcall, Writable) /\ wend = "linked"
          /\ ~Accepts(PartOf(wcall, Writable))
          /\ wcall' = Fail(wcall, 0)
          /\ doomed' = TRUE
          /\ refusals' = refusals \cup {PartOf(wcall, Writable)}
          /\ UNCHANGED tail
    /\ UNCHANGED <<head, range, confirmed, arrived, taken, edge, wend, rend, rcall,
                   careless>>

\* Mutant: what is in flight counts as sent.
SentFlown == Beyond(head, tail - wcall.part)

\* ostreamer::error: the bytes of the part before the first flight that is not
\* acknowledged.
Sent == Beyond(confirmed, tail - wcall.part)

\* The write handler: a success once all bytes of the part are acknowledged, or
\* the error that met it before.
WriteDone ==
    /\ wcall.phase = "wait"
    /\ \/ confirmed = tail /\ wcall' = Advance(wcall)
       \/ confirmed < tail /\ wend = "failed" /\ wcall' = Fail(wcall, Sent)
    /\ UNCHANGED <<channel, rcall, careless, refusals>>

-----------------------------------------------------------------------------
\* The reading socket.

ReadSome(bufs) ==
    /\ rcall.phase \in {"idle", "done"}
    /\ rcall' = Begin(bufs, taken)
    /\ UNCHANGED <<channel, wcall, careless, refusals>>

\* Mutant: a completed read does not move the edge.
EdgeKept(n) == edge

\* The edge after a read of n bytes.
EdgeMoved(n) == edge + n

\* read() of a part: refused by an end that is not linked; else what is there is
\* given at once, and the edge moves.
ReadStep ==
    /\ rcall.phase = "loop"
    /\ \/ /\ ~Posts(rcall, Readable)
          /\ rcall' = Turn(rcall)
          /\ UNCHANGED <<taken, edge>>
       \/ /\ Posts(rcall, Readable) /\ rend = "failed"
          /\ rcall' = Fail(rcall, 0)
          /\ UNCHANGED <<taken, edge>>
       \/ /\ Posts(rcall, Readable) /\ rend = "linked"
          /\ rcall' = [rcall EXCEPT !.phase = "wait", !.part = PartOf(rcall, Readable)]
          /\ taken' = taken + PartOf(rcall, Readable)
          /\ edge' = EdgeMoved(PartOf(rcall, Readable))
    /\ UNCHANGED <<tail, head, range, confirmed, arrived, wend, rend, doomed, wcall,
                   careless, refusals>>

\* Mutant: a read of no bytes is not answered by data.
ReadDoneFull ==
    /\ rcall.phase = "wait" /\ (rcall.part > 0 \/ rend = "failed")
    /\ rcall' = IF rcall.part > 0 THEN Advance(rcall) ELSE Fail(rcall, 0)
    /\ UNCHANGED <<channel, wcall, careless, refusals>>

\* The read handler; a read of no bytes is answered by the first data, or by an
\* error that comes before them.
ReadDone ==
    /\ rcall.phase = "wait"
    /\ \/ /\ rcall.part > 0 \/ arrived > taken
          /\ rcall' = Advance(rcall)
       \/ /\ rcall.part = 0 /\ arrived = taken /\ rend = "failed"
          /\ rcall' = Fail(rcall, 0)
    /\ UNCHANGED <<channel, wcall, careless, refusals>>

Next ==
    \/ Fly \/ Arrive \/ Echo \/ WriterFails \/ ReaderFails
    \/ WriteStep \/ WriteDone \/ ReadStep \/ ReadDone
    \/ \E bufs \in WriteShapes : WriteSome(bufs)
    \/ \E bufs \in ReadShapes : ReadSome(bufs)

Spec == Init /\ [][Next]_vars

\* While both ends are linked the channel carries and repeats what it has to; an
\* end whose on_error is posted, or whose peer is silent for ever, fails; the
\* io_context runs the handlers, and the reading application keeps reading.
FairSpec ==
    /\ Spec
    /\ WF_vars(Fly) /\ WF_vars(Arrive /\ wend = "linked")
    /\ WF_vars(Echo /\ rend = "linked" /\ confirmed' = arrived /\ range' = edge)
    /\ WF_vars(WriterFails /\ (doomed \/ rend = "failed"))
    /\ WF_vars(WriteStep) /\ WF_vars(WriteDone)
    /\ WF_vars(ReadStep) /\ WF_vars(ReadDone)
    /\ WF_vars(\E bufs \in ReadShapes : ReadSome(bufs))

-----------------------------------------------------------------------------
\* The count of a call with one buffer, however many parts the window cut it
\* into.  A read reports exactly the bytes it took from the stream, after an
\* error as well.  A write that succeeds reports exactly the bytes the peer has
\* of it; one that meets an error reports the part that is acknowledged
\* (ostreamer::error), which is never more than the peer has: what a composed
\* boost::asio operation counts on to continue behind them.
SingleCountSound ==
    /\ rcall.phase = "done" /\ rcall.shape = 1 => rcall.result = taken - rcall.from
    /\ wcall.phase = "done" /\ wcall.shape = 1 =>
        /\ wcall.ok => wcall.result = arrived - wcall.from
        /\ wcall.result <= Beyond(arrived, wcall.from)

\* Both ends of a stream: a call that succeeds has moved at least one byte (a
\* success with none would read as the end of the stream), although the loop
\* passes empty parts to wait for data and an end may fail between two parts.
SomeMoved ==
    /\ wcall.phase = "done" /\ wcall.ok => arrived > wcall.from
    /\ rcall.phase = "done" /\ rcall.ok => taken > rcall.from

\* The parts a linked channel refuses, for all sizes of the buffers: an empty
\* one, only if write_some was called while writable() was 0 (a call cut into
\* parts never passes an empty one later); and one as large as the whole send
\* buffer, which writable() offers and streambuf::add does not take, only if the
\* peer has a receive buffer that large, as the defaults have.
RefusalsKnown ==
    refusals \subseteq (IF careless THEN {0} ELSE {})
                       \cup (IF SendBuffer <= ReceiveBuffer THEN {SendBuffer} ELSE {})

\* Everything written is read by an application that keeps reading, also with
\* buffers larger than the receive buffer, unless an end fails: the parts of the
\* socket are never larger than what has come.
AllRead ==
    \A n \in 1 .. MaxBytes :
        tail >= n ~> (taken >= n \/ wend = "failed" \/ rend = "failed")

\* Each write_some returns, whatever fails; and some time after it writable() is
\* positive again, so that the next one can be made without harm, unless an end
\* has failed.
WriteReturns ==
    wcall.phase = "loop" ~>
        /\ wcall.phase = "done"
        /\ Writable > 0 \/ wend = "failed" \/ rend = "failed"

\* What the AsyncWriteStream and AsyncReadStream concepts say of the count of
\* a call that succeeds, with any number of buffers.
CountExact ==
    /\ wcall.phase = "done" /\ wcall.ok => wcall.result = tail - wcall.from
    /\ rcall.phase = "done" /\ rcall.ok => rcall.result = taken - rcall.from

\* What those concepts say of a stream that cannot take data now: the write
\* waits; it does not break the stream.
WriteSurvives == refusals = {}

=============================================================================
