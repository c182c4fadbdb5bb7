------------------------- MODULE StreamSocketProofs -------------------------
(***************************************************************************)
(* Theorems about StreamSocket for every size of the buffers and every set *)
(* of buffer sequences, whenever an end fails.  The invariant has a part   *)
(* for the counters of the channel, a part for each call of post_io_method *)
(* against the position of the stream it was made at, which is the same    *)
(* for reads and writes, and parts for the write under way: what is        *)
(* acknowledged of it, and the room the channel had when it was called.    *)
(***************************************************************************)
EXTENDS StreamSocket, SequenceTheorems, TLAPS

\* No call is made with an empty buffer sequence.
NoEmptyShape == <<>> \notin WriteShapes \cup ReadShapes

Running(call) == call.phase \in {"loop", "wait"}

\* The bytes of the parts of a call that are finished, at a position of the
\* stream.
Moved(call, at) == at - call.from - (IF call.phase = "wait" THEN call.part ELSE 0)

\* The positions are ordered, the queue is below its limit, and the peer never
\* grants more than its receive buffer beyond what was read.
ChannelInv ==
    /\ taken <= arrived /\ confirmed <= arrived /\ arrived <= head /\ head <= tail
    /\ tail - head < SendBuffer
    /\ range <= edge /\ edge = ReceiveBuffer + taken

\* The part under way lies in the first buffer.
PartInv(call) ==
    call.phase = "wait" => call.bufs # <<>> /\ call.part <= Head(call.bufs)

\* A call with one buffer that has moved m bytes: the inner result counts until
\* the buffer is left, the outer one from then on.
SingleInv(call, m) ==
    call.shape = 1 =>
        /\ Running(call) /\ call.bufs = <<>> => call.result = m
        /\ Running(call) /\ call.bufs # <<>> =>
            Len(call.bufs) = 1 /\ call.result = 0 /\ call.inner = m
        /\ call.phase = "done" /\ call.ok = TRUE => call.result = m

\* A call that has moved nothing is still at its first buffer, which is not
\* empty, with an inner result that lets an empty part pass.
MovedInv(call, m) ==
    call.shape > 0 =>
        /\ Running(call) /\ m = 0 =>
            call.inner = 0 /\ call.bufs # <<>> /\ Head(call.bufs) > 0
        /\ call.phase = "done" /\ call.ok = TRUE => m > 0

CallInv(call, m) == PartInv(call) /\ SingleInv(call, m) /\ MovedInv(call, m)

\* The shape of a call is one of those it can be made with.
ShapeInv(call) == NoEmptyShape /\ call.phase # "idle" => call.shape > 0

\* What the invariant says of a call, the stream being at a position.
CallAt(call, at) ==
    /\ Moved(call, at) \in Nat /\ CallInv(call, Moved(call, at)) /\ ShapeInv(call)

\* Between two parts everything is acknowledged, as long as the end is linked or
\* the call goes on; what came before the part under way is.
QuietInv ==
    /\ wend = "linked" /\ wcall.phase # "wait" => confirmed = tail
    /\ wcall.phase = "wait" => tail - wcall.part <= confirmed
    /\ wcall.phase = "loop" /\ Moved(wcall, tail) > 0 => confirmed = tail
    /\ wcall.phase = "done" /\ wcall.ok = TRUE /\ wcall.shape > 0 => confirmed = tail

\* A careful write that has moved nothing yet still has the room it was called
\* with; a part that was accepted has some bytes.
CareInv ==
    /\ wcall.phase = "wait" => wcall.part > 0
    /\ careless = FALSE /\ wend = "linked" /\ wcall.phase = "loop" /\ wcall.inner = 0
        => range > tail
    /\ 0 \in refusals => careless = TRUE
    /\ \A n \in refusals : n = 0 \/ (n = SendBuffer /\ SendBuffer <= ReceiveBuffer)

\* The counts the two calls report.
ReadCount ==
    rcall.phase = "done" /\ rcall.shape = 1 => rcall.result = taken - rcall.from

WriteCount ==
    wcall.phase = "done" /\ wcall.shape = 1 =>
        wcall.result <= Beyond(arrived, wcall.from)

WriteInv == CallAt(wcall, tail) /\ QuietInv /\ CareInv /\ WriteCount

ReadInv == CallAt(rcall, taken) /\ ReadCount

IndInv == TypeOK /\ ChannelInv /\ WriteInv /\ ReadInv

-----------------------------------------------------------------------------
\* The operators of post_io_method, for a call of either side.

\* A call starts with all its buffers and no result, at the position of the
\* stream.
LEMMA BeginCall ==
    ASSUME NEW bufs \in Seq(Nat \ {0}), NEW at \in Nat
    PROVE  /\ Begin(bufs, at) \in Call /\ CallInv(Begin(bufs, at), 0)
           /\ Begin(bufs, at).phase = "loop" /\ Begin(bufs, at).inner = 0
           /\ Begin(bufs, at).from = at /\ Moved(Begin(bufs, at), at) = 0
           /\ bufs # <<>> => Begin(bufs, at).shape > 0
  <1>1. bufs \in Seq(Nat) /\ Len(bufs) \in Nat
    OBVIOUS
  <1>2. bufs # <<>> => Head(bufs) > 0 /\ Len(bufs) > 0
    OBVIOUS
  <1>3. bufs = <<>> => Len(bufs) = 0
    OBVIOUS
  <1> DEFINE b == Begin(bufs, at)
  <1>4. /\ b.phase = "loop" /\ b.bufs = bufs /\ b.result = 0 /\ b.inner = 0
        /\ b.from = at /\ b.shape = Len(bufs)
    BY DEF Begin
  <1>5. b \in Call
    BY <1>1 DEF Begin, Call
  <1> HIDE DEF b
  <1>6. CallInv(b, 0)
    BY <1>1, <1>2, <1>3, <1>4 DEF CallInv, PartInv, SingleInv, MovedInv, Running
  <1>7. Moved(b, at) = 0
    BY <1>4 DEF Moved
  <1> QED
    BY <1>1, <1>2, <1>4, <1>5, <1>6, <1>7 DEF b

\* The part is within the limit and within the buffer.
LEMMA PartBounds ==
    ASSUME NEW c \in Call, NEW limit \in Nat, c.bufs # <<>>
    PROVE  /\ PartOf(c, limit) \in Nat
           /\ PartOf(c, limit) <= limit /\ PartOf(c, limit) <= Head(c.bufs)
           /\ limit > 0 /\ Head(c.bufs) > 0 => PartOf(c, limit) > 0
  <1>1. Head(c.bufs) \in Nat
    BY DEF Call
  <1> QED
    BY <1>1 DEF PartOf, Lesser

\* A turn of the loop that posts nothing leaves a buffer, or ends a call that
\* has moved something.
LEMMA TurnCall ==
    ASSUME NEW c \in Call, NEW limit \in Nat, NEW m \in Nat,
           c.phase = "loop", CallInv(c, m), ~Posts(c, limit)
    PROVE  /\ Turn(c) \in Call /\ CallInv(Turn(c), m)
           /\ Turn(c).phase \in {"loop", "done"} /\ Turn(c).shape = c.shape
           /\ Turn(c).from = c.from
           /\ Turn(c).inner = 0 => c.inner = 0
           /\ Turn(c).phase = "done" /\ c.shape = 1 => Turn(c).result = m
           /\ Turn(c).phase = "done" /\ c.shape > 0 => m > 0
  <1>1. CASE c.bufs = <<>>
    <2>1. Turn(c) = [c EXCEPT !.phase = "done"]
      BY <1>1 DEF Turn
    <2>2. Turn(c) \in Call
      BY <2>1 DEF Call
    <2>3. /\ Turn(c).phase = "done" /\ Turn(c).shape = c.shape /\ Turn(c).inner = c.inner
          /\ Turn(c).result = c.result /\ Turn(c).from = c.from
      BY <2>1 DEF Call
    <2>4. c.shape > 0 => m > 0
      BY <1>1 DEF CallInv, MovedInv, Running
    <2>5. c.shape = 1 => c.result = m
      BY <1>1 DEF CallInv, SingleInv, Running
    <2>6. CallInv(Turn(c), m)
      BY <1>1, <2>3, <2>4, <2>5 DEF CallInv, PartInv, SingleInv, MovedInv, Running
    <2> QED
      BY <2>2, <2>3, <2>4, <2>5, <2>6
  <1>2. CASE c.bufs # <<>>
    <2>1. Turn(c) = [c EXCEPT !.bufs = Tail(c.bufs), !.result = c.result + c.inner,
                              !.inner = c.result + c.inner]
      BY <1>2 DEF Turn, NextBuffer
    <2>2. Tail(c.bufs) \in Seq(Nat) /\ c.result + c.inner \in Nat
      BY <1>2 DEF Call
    <2>3. Turn(c) \in Call
      BY <2>1, <2>2 DEF Call
    <2>4. /\ Turn(c).phase = "loop" /\ Turn(c).shape = c.shape /\ Turn(c).from = c.from
          /\ Turn(c).inner = c.result + c.inner /\ Turn(c).result = c.result + c.inner
          /\ Turn(c).bufs = Tail(c.bufs)
      BY <2>1 DEF Call
    <2>5. c.inner \in Nat /\ c.result \in Nat /\ c.shape \in Nat
      BY DEF Call
    <2>6. c.shape > 0 => m > 0
      BY <1>2, <2>5 DEF CallInv, MovedInv, Running, Posts
    <2>7. Len(c.bufs) = 1 => Tail(c.bufs) = <<>>
      <3>1. c.bufs \in Seq(Nat)
        BY DEF Call
      <3>2. Len(Tail(c.bufs)) = Len(c.bufs) - 1
        BY <1>2, <3>1
      <3>3. Tail(c.bufs) # <<>> => Len(Tail(c.bufs)) \in Nat \ {0}
        BY <2>2, EmptySeq
      <3> QED
        BY <3>2, <3>3
    <2>8. SingleInv(Turn(c), m)
      BY <1>2, <2>4, <2>5, <2>7 DEF CallInv, SingleInv, Running
    <2>9. MovedInv(Turn(c), m) /\ PartInv(Turn(c))
      BY <2>4, <2>5, <2>6 DEF MovedInv, PartInv, Running
    <2> QED
      BY <2>3, <2>4, <2>5, <2>8, <2>9 DEF CallInv
  <1> QED
    BY <1>1, <1>2

\* The call with its part under way.
Posted(c, limit) == [c EXCEPT !.phase = "wait", !.part = PartOf(c, limit)]

\* A part is passed to the channel.
LEMMA PostCall ==
    ASSUME NEW c \in Call, NEW limit \in Nat, NEW m \in Nat,
           c.phase = "loop", CallInv(c, m), Posts(c, limit)
    PROVE  /\ Posted(c, limit) \in Call /\ CallInv(Posted(c, limit), m)
           /\ Posted(c, limit).phase = "wait" /\ Posted(c, limit).shape = c.shape
           /\ Posted(c, limit).part = PartOf(c, limit)
           /\ Posted(c, limit).from = c.from
  <1> DEFINE d == Posted(c, limit)
  <1>1. c.bufs # <<>>
    BY DEF Posts
  <1>2. PartOf(c, limit) \in Nat /\ PartOf(c, limit) <= Head(c.bufs)
    BY <1>1, PartBounds
  <1>3. d \in Call
    BY <1>2 DEF Call, Posted
  <1>4. /\ d.phase = "wait" /\ d.part = PartOf(c, limit) /\ d.shape = c.shape
        /\ d.bufs = c.bufs /\ d.result = c.result /\ d.inner = c.inner
        /\ d.from = c.from
    BY DEF Call, Posted
  <1> HIDE DEF d
  <1>5. CallInv(d, m)
    BY <1>1, <1>2, <1>4 DEF CallInv, PartInv, SingleInv, MovedInv, Running
  <1> QED
    BY <1>3, <1>4, <1>5 DEF d

\* The part was moved: the position and both counts follow it.
LEMMA AdvanceCall ==
    ASSUME NEW c \in Call, NEW m \in Nat, c.phase = "wait", CallInv(c, m)
    PROVE  /\ Advance(c) \in Call /\ CallInv(Advance(c), m + c.part)
           /\ Advance(c).phase = "loop" /\ Advance(c).shape = c.shape
           /\ Advance(c).inner = c.inner + c.part /\ Advance(c).from = c.from
  <1>1. c.bufs # <<>> /\ c.part <= Head(c.bufs)
    BY DEF CallInv, PartInv
  <1>2. /\ c.bufs \in Seq(Nat) /\ c.part \in Nat /\ c.inner \in Nat
        /\ c.result \in Nat /\ c.shape \in Nat
    BY DEF Call
  <1>3. Head(c.bufs) \in Nat /\ Tail(c.bufs) \in Seq(Nat)
    BY <1>1, <1>2
  <1>4. PICK n \in Nat : n = Head(c.bufs) - c.part
    BY <1>1, <1>2, <1>3
  <1> DEFINE rest == <<n>> \o Tail(c.bufs)
  <1>5. /\ rest \in Seq(Nat) /\ rest # <<>> /\ Head(rest) = n
        /\ Len(rest) = Len(c.bufs)
    <2>1. <<n>> \in Seq(Nat) /\ Len(<<n>>) = 1 /\ <<n>>[1] = n
      OBVIOUS
    <2>2. rest \in Seq(Nat) /\ Len(rest) = 1 + Len(Tail(c.bufs)) /\ rest[1] = n
      BY <1>3, <2>1
    <2>3. Len(Tail(c.bufs)) = Len(c.bufs) - 1 /\ Len(c.bufs) \in Nat
      BY <1>1, <1>2
    <2> QED
      BY <2>2, <2>3
  <1>6. Advance(c) = [c EXCEPT !.phase = "loop", !.bufs = rest,
                               !.inner = c.inner + c.part]
    BY <1>4 DEF Advance
  <1> HIDE DEF rest
  <1>7. c.inner + c.part \in Nat
    BY <1>2
  <1>8. Advance(c) \in Call
    BY <1>5, <1>6, <1>7 DEF Call
  <1>9. /\ Advance(c).phase = "loop" /\ Advance(c).shape = c.shape
        /\ Advance(c).inner = c.inner + c.part /\ Advance(c).from = c.from
        /\ Advance(c).bufs = rest /\ Advance(c).result = c.result
    BY <1>6 DEF Call
  <1>10. SingleInv(Advance(c), m + c.part)
    BY <1>1, <1>2, <1>5, <1>9 DEF CallInv, SingleInv, Running
  <1>11. MovedInv(Advance(c), m + c.part) /\ PartInv(Advance(c))
    BY <1>1, <1>2, <1>3, <1>4, <1>5, <1>9 DEF CallInv, MovedInv, PartInv, Running
  <1> QED
    BY <1>8, <1>9, <1>10, <1>11 DEF CallInv

\* The part failed, and the channel reports some bytes of it.
LEMMA FailCall ==
    ASSUME NEW c \in Call, NEW m \in Nat, NEW size \in Nat, NEW k \in Nat,
           Running(c), CallInv(c, m), c.bufs # <<>>
    PROVE  /\ Fail(c, size) \in Call /\ CallInv(Fail(c, size), k)
           /\ Fail(c, size).phase = "done" /\ Fail(c, size).ok = FALSE
           /\ Fail(c, size).shape = c.shape /\ Fail(c, size).from = c.from
           /\ c.shape = 1 => Fail(c, size).result = m + size
  <1>1. c.result \in Nat /\ c.inner \in Nat /\ c.shape \in Nat
    BY DEF Call
  <1>2. PICK r \in Nat : r = c.result + c.inner + size
    BY <1>1
  <1>3. Fail(c, size) = [c EXCEPT !.phase = "done", !.ok = FALSE, !.result = r]
    BY <1>2, Zenon DEF Fail
  <1>4. Fail(c, size) \in Call
    <2>1. FALSE \in BOOLEAN
      OBVIOUS
    <2> QED
      BY <1>2, <1>3, <2>1, Zenon DEF Call
  <1>5. /\ Fail(c, size).phase = "done" /\ Fail(c, size).ok = FALSE
        /\ Fail(c, size).shape = c.shape /\ Fail(c, size).from = c.from
        /\ Fail(c, size).result = r
    BY <1>3 DEF Call
  <1>6. CallInv(Fail(c, size), k)
    BY <1>5 DEF CallInv, PartInv, SingleInv, MovedInv, Running
  <1>7. c.shape = 1 => r = m + size
    BY <1>1, <1>2 DEF CallInv, SingleInv
  <1> QED
    BY <1>4, <1>5, <1>6, <1>7

-----------------------------------------------------------------------------
\* The actions.

\* writable() and readable() are sizes; a positive writable() is positive room in
\* the window of an end that is linked, which is within the queue.
LEMMA Limits ==
    ASSUME TypeOK, ChannelInv
    PROVE  /\ Writable \in Nat /\ Readable \in Nat /\ Readable <= arrived - taken
           /\ Writable > 0 <=> range > tail /\ wend = "linked"
           /\ range > tail => Writable <= range - tail
           /\ Writable <= SendBuffer - (tail - head)
           /\ wend = "failed" => Writable = 0
  BY SocketAssumption DEF TypeOK, ChannelInv, Writable, Readable, Lesser

\* The reading side is left alone.
LEMMA ReadKept ==
    ASSUME ReadInv, UNCHANGED <<rcall, taken>>
    PROVE  ReadInv'
  <1>1. rcall' = rcall /\ taken' = taken
    OBVIOUS
  <1>2. CallAt(rcall', taken')
    BY <1>1, Zenon DEF ReadInv
  <1>3. (CallAt(rcall, taken))'
    BY <1>2 DEF CallAt, Moved, CallInv, ShapeInv, PartInv, SingleInv, MovedInv, Running
  <1>4. ReadCount'
    BY <1>1 DEF ReadInv, ReadCount
  <1> QED
    BY <1>3, <1>4 DEF ReadInv

\* The writing side is left alone, while the peer goes on.
LEMMA WriteKept ==
    ASSUME TypeOK, TypeOK', ChannelInv, ChannelInv', WriteInv,
           UNCHANGED <<tail, wcall, careless, refusals>>,
           arrived <= arrived', confirmed <= confirmed', range <= range',
           wend' = wend \/ wend' = "failed"
    PROVE  WriteInv'
  <1>1. wcall' = wcall /\ tail' = tail /\ careless' = careless /\ refusals' = refusals
    OBVIOUS
  <1>2. CallAt(wcall', tail')
    BY <1>1, Zenon DEF WriteInv
  <1>3. (CallAt(wcall, tail))'
    BY <1>2 DEF CallAt, Moved, CallInv, ShapeInv, PartInv, SingleInv, MovedInv, Running
  <1>4. Moved(wcall, tail)' = Moved(wcall, tail)
    BY <1>1 DEF Moved
  <1>5. confirmed' <= tail
    BY <1>1 DEF ChannelInv, TypeOK
  <1>6. PICK p \in Nat : p = wcall.part
    BY DEF TypeOK, Call
  <1>7. confirmed = tail => confirmed' = tail
    BY <1>5 DEF TypeOK
  <1>8. tail - p <= confirmed => tail - p <= confirmed'
    BY <1>6 DEF TypeOK
  <1>9. QuietInv'
    BY <1>1, <1>4, <1>6, <1>7, <1>8, Zenon DEF WriteInv, QuietInv, TypeOK
  <1>10. range > tail => range' > tail
    BY DEF TypeOK
  <1>11. CareInv'
    BY <1>1, <1>10, Zenon DEF WriteInv, CareInv
  <1>12. WriteCount'
    <2>1. wcall.from \in Nat /\ wcall.result \in Nat
      BY DEF TypeOK, Call
    <2>2. Beyond(arrived, wcall.from) <= Beyond(arrived', wcall.from)
          /\ Beyond(arrived, wcall.from) \in Nat /\ Beyond(arrived', wcall.from) \in Nat
      BY <2>1 DEF TypeOK, Beyond
    <2> QED
      BY <1>1, <2>1, <2>2 DEF WriteInv, WriteCount, Beyond
  <1> QED
    BY <1>3, <1>9, <1>11, <1>12 DEF WriteInv

\* The counters of the channel move, or an end fails.
LEMMA ChannelStep ==
    ASSUME IndInv, Fly \/ Arrive \/ Echo \/ WriterFails \/ ReaderFails
    PROVE  IndInv'
  <1>1. UNCHANGED <<tail, taken, edge, wcall, rcall, careless, refusals>>
    BY DEF Fly, Arrive, Echo, WriterFails, ReaderFails, counters
  <1>2. TypeOK'
    <2>1. {tail', head', range', confirmed', arrived', taken', edge'} \subseteq Nat
      BY <1>1 DEF IndInv, TypeOK, Fly, Arrive, Echo, WriterFails, ReaderFails, counters
    <2>2. wend' \in {"linked", "failed"} /\ rend' \in {"linked", "failed"}
      BY DEF IndInv, TypeOK, Fly, Arrive, Echo, WriterFails, ReaderFails
    <2>3. doomed' \in BOOLEAN
      <3>1. doomed' = doomed \/ doomed' = FALSE
        BY DEF Fly, Arrive, Echo, WriterFails, ReaderFails
      <3> QED
        BY <3>1, Zenon DEF IndInv, TypeOK
    <2>4. careless' \in BOOLEAN /\ refusals' \subseteq Nat /\ wcall' \in Call
          /\ rcall' \in Call
      BY <1>1, Zenon DEF IndInv, TypeOK
    <2> QED
      BY <2>1, <2>2, <2>3, <2>4 DEF TypeOK
  <1>3. /\ ChannelInv' /\ arrived <= arrived' /\ confirmed <= confirmed'
        /\ range <= range' /\ (wend' = wend \/ wend' = "failed")
    BY <1>1, SocketAssumption
       DEF IndInv, TypeOK, ChannelInv, Fly, Arrive, Echo, WriterFails, ReaderFails,
           counters, Lesser
  <1>4. WriteInv'
    BY <1>1, <1>2, <1>3, WriteKept DEF IndInv
  <1>5. ReadInv'
    BY <1>1, ReadKept DEF IndInv
  <1> QED
    BY <1>2, <1>3, <1>4, <1>5 DEF IndInv

\* write_some is called.
LEMMA WriteSomeStep ==
    ASSUME IndInv, NEW bufs \in WriteShapes, WriteSome(bufs)
    PROVE  IndInv'
  <1>1. bufs \in Seq(Nat \ {0}) /\ (NoEmptyShape => bufs # <<>>)
    BY SocketAssumption DEF NoEmptyShape
  <1>2. /\ wcall' = Begin(bufs, tail) /\ wcall.phase # "wait"
        /\ UNCHANGED <<tail, head, range, confirmed, arrived, taken, edge, wend, rend,
                       doomed, rcall, refusals>>
        /\ careless' = (careless \/ (wend = "linked" /\ Writable = 0))
    BY DEF WriteSome, channel, counters
  <1>3. tail \in Nat
    BY DEF IndInv, TypeOK
  <1>4. /\ wcall' \in Call /\ CallInv(wcall', 0) /\ wcall'.phase = "loop"
        /\ wcall'.from = tail /\ Moved(wcall', tail) = 0
        /\ bufs # <<>> => wcall'.shape > 0
    BY <1>1, <1>2, <1>3, BeginCall
  <1>5. TypeOK'
    <2>1. careless' \in BOOLEAN
      BY <1>2, Zenon DEF IndInv, TypeOK
    <2> QED
      BY <1>2, <1>4, <2>1 DEF IndInv, TypeOK
  <1>6. ChannelInv'
    BY <1>2 DEF IndInv, ChannelInv
  <1>7. (CallAt(wcall, tail))'
    <2>1. ShapeInv(wcall')
      BY <1>1, <1>4 DEF ShapeInv
    <2>2. CallAt(wcall', tail')
      BY <1>2, <1>4, <2>1 DEF CallAt
    <2> QED
      BY <2>2 DEF CallAt, Moved, CallInv, ShapeInv, PartInv, SingleInv, MovedInv, Running
  <1>8. QuietInv'
    <2>1. Moved(wcall, tail)' = 0
      BY <1>2, <1>4 DEF Moved
    <2>2. wend = "linked" => confirmed = tail
      BY <1>2 DEF IndInv, WriteInv, QuietInv
    <2> QED
      BY <1>2, <1>4, <2>1, <2>2 DEF QuietInv
  <1>9. CareInv'
    <2>1. careless' = FALSE => ~(wend = "linked" /\ Writable = 0)
      BY <1>2, Zenon
    <2>2. wend = "linked" /\ Writable # 0 => range > tail
      BY Limits DEF IndInv
    <2>3. careless = TRUE => careless' = TRUE
      BY <1>2, Zenon
    <2>4. /\ 0 \in refusals => careless = TRUE
          /\ \A n \in refusals : n = 0 \/ (n = SendBuffer /\ SendBuffer <= ReceiveBuffer)
      BY DEF IndInv, WriteInv, CareInv
    <2> QED
      BY <1>2, <1>4, <2>1, <2>2, <2>3, <2>4, Zenon DEF CareInv
  <1>10. WriteCount'
    BY <1>4 DEF WriteCount
  <1>11. ReadInv'
    BY <1>2, ReadKept DEF IndInv
  <1> QED
    BY <1>5, <1>6, <1>7, <1>8, <1>9, <1>10, <1>11 DEF IndInv, WriteInv

\* read_some is called.
LEMMA ReadSomeStep ==
    ASSUME IndInv, NEW bufs \in ReadShapes, ReadSome(bufs)
    PROVE  IndInv'
  <1>1. bufs \in Seq(Nat \ {0}) /\ (NoEmptyShape => bufs # <<>>)
    BY SocketAssumption DEF NoEmptyShape
  <1>2. /\ rcall' = Begin(bufs, taken)
        /\ UNCHANGED <<tail, head, range, confirmed, arrived, taken, edge, wend, rend,
                       doomed, wcall, careless, refusals>>
    BY DEF ReadSome, channel, counters
  <1>3. taken \in Nat
    BY DEF IndInv, TypeOK
  <1>4. /\ rcall' \in Call /\ CallInv(rcall', 0) /\ rcall'.phase = "loop"
        /\ Moved(rcall', taken) = 0
        /\ bufs # <<>> => rcall'.shape > 0
    BY <1>1, <1>2, <1>3, BeginCall
  <1>5. TypeOK'
    BY <1>2, <1>4 DEF IndInv, TypeOK
  <1>6. ChannelInv'
    BY <1>2 DEF IndInv, ChannelInv
  <1>7. (CallAt(rcall, taken))'
    <2>1. ShapeInv(rcall')
      BY <1>1, <1>4 DEF ShapeInv
    <2>2. CallAt(rcall', taken')
      BY <1>2, <1>4, <2>1 DEF CallAt
    <2> QED
      BY <2>2 DEF CallAt, Moved, CallInv, ShapeInv, PartInv, SingleInv, MovedInv, Running
  <1>8. ReadCount'
    BY <1>4 DEF ReadCount
  <1>9. WriteInv'
    <2>1. arrived <= arrived' /\ confirmed <= confirmed' /\ range <= range'
      BY <1>2 DEF IndInv, TypeOK
    <2> QED
      BY <1>2, <1>5, <1>6, <2>1, WriteKept DEF IndInv
  <1> QED
    BY <1>5, <1>6, <1>7, <1>8, <1>9 DEF IndInv, ReadInv

\* The part a linked end refuses is empty, after a careless call, or as large as
\* the send buffer, and then within the receive buffer of the peer.
LEMMA Refused ==
    ASSUME IndInv, wcall.phase = "loop", wend = "linked", Posts(wcall, Writable),
           NEW part, part = PartOf(wcall, Writable), ~Accepts(part)
    PROVE  /\ part \in Nat
           /\ part = 0 => careless = TRUE
           /\ part # 0 => part = SendBuffer /\ SendBuffer <= ReceiveBuffer
  <1>1. wcall \in Call /\ Writable \in Nat
    BY Limits DEF IndInv, TypeOK
  <1>2. /\ part \in Nat /\ part <= Writable
        /\ Writable > 0 /\ Head(wcall.bufs) > 0 => part > 0
    BY <1>1, PartBounds DEF Posts
  <1>3. part = 0 => careless = TRUE
    <2>1. part = 0 => wcall.inner = 0 /\ Writable = 0
      BY <1>1, <1>2 DEF Posts
    <2>2. part = 0 => ~(range > tail)
      BY <2>1, Limits DEF IndInv
    <2>3. careless = FALSE \/ careless = TRUE
      BY Zenon DEF IndInv, TypeOK
    <2> QED
      BY <2>1, <2>2, <2>3, Zenon DEF IndInv, WriteInv, CareInv
  <1>4. ASSUME part # 0 PROVE part = SendBuffer /\ SendBuffer <= ReceiveBuffer
    <2>1. tail + part - head >= SendBuffer
      BY <1>2, <1>4, SocketAssumption DEF Accepts, IndInv, TypeOK
    <2>2. confirmed = tail
      BY DEF IndInv, WriteInv, QuietInv
    <2>3. /\ part <= SendBuffer - (tail - head) /\ range > tail /\ part <= range - tail
      BY <1>1, <1>2, <1>4, Limits, SocketAssumption DEF IndInv, TypeOK
    <2>4. head = tail /\ taken <= tail /\ range <= ReceiveBuffer + taken
      BY <2>2, SocketAssumption DEF IndInv, TypeOK, ChannelInv
    <2> QED
      BY <1>2, <2>1, <2>3, <2>4, SocketAssumption DEF IndInv, TypeOK
  <1> QED
    BY <1>2, <1>3, <1>4

\* A turn of the writing loop.
LEMMA WriteTurnStep ==
    ASSUME IndInv, WriteStep
    PROVE  IndInv'
  <1> DEFINE part == PartOf(wcall, Writable)
  <1>1. /\ wcall \in Call /\ wcall.phase = "loop" /\ ShapeInv(wcall)
    BY DEF IndInv, TypeOK, WriteInv, CallAt, WriteStep
  <1>2. Writable \in Nat
    BY Limits DEF IndInv
  <1>3. /\ UNCHANGED <<head, range, confirmed, arrived, taken, edge, wend, rend, rcall,
                       careless>>
        /\ {head, range, confirmed, arrived, taken, edge, tail} \subseteq Nat
        /\ wend \in {"linked", "failed"} /\ rend \in {"linked", "failed"}
        /\ doomed \in BOOLEAN /\ careless \in BOOLEAN /\ refusals \subseteq Nat
        /\ rcall \in Call
    BY DEF WriteStep, IndInv, TypeOK
  <1>4. PICK m \in Nat : m = Moved(wcall, tail)
    BY DEF IndInv, WriteInv, CallAt
  <1>5. CallInv(wcall, m) /\ m = tail - wcall.from /\ wcall.from \in Nat
    <2>1. CallInv(wcall, m)
      BY <1>4 DEF IndInv, WriteInv, CallAt
    <2>2. wcall.from \in Nat
      BY <1>1 DEF Call
    <2> QED
      BY <1>1, <1>3, <1>4, <2>1, <2>2 DEF Moved
  <1>6. ReadInv'
    BY <1>3, ReadKept DEF IndInv
  <1>7. wend = "linked" => confirmed = tail
    BY <1>1 DEF IndInv, WriteInv, QuietInv
  <1>8. m > 0 => confirmed = tail
    BY <1>1, <1>4 DEF IndInv, WriteInv, QuietInv
  <1>9. /\ careless = FALSE /\ wend = "linked" /\ wcall.inner = 0 => range > tail
        /\ 0 \in refusals => careless = TRUE
        /\ \A n \in refusals : n = 0 \/ (n = SendBuffer /\ SendBuffer <= ReceiveBuffer)
    BY <1>1 DEF IndInv, WriteInv, CareInv
  <1>10. CASE /\ ~Posts(wcall, Writable) /\ wcall' = Turn(wcall)
              /\ UNCHANGED <<tail, doomed, refusals>>
    <2>1. /\ wcall' \in Call /\ CallInv(wcall', m) /\ wcall'.phase \in {"loop", "done"}
          /\ wcall'.shape = wcall.shape /\ wcall'.from = wcall.from
          /\ wcall'.inner = 0 => wcall.inner = 0
          /\ wcall'.phase = "done" /\ wcall.shape = 1 => wcall'.result = m
          /\ wcall'.phase = "done" /\ wcall.shape > 0 => m > 0
      BY <1>1, <1>2, <1>5, <1>10, TurnCall
    <2>2. TypeOK'
      BY <1>3, <1>10, <2>1 DEF TypeOK
    <2>3. ChannelInv'
      BY <1>3, <1>10 DEF IndInv, ChannelInv
    <2>4. Moved(wcall, tail)' = m
      BY <1>3, <1>5, <1>10, <2>1 DEF Moved
    <2>5. (CallAt(wcall, tail))'
      BY <1>1, <2>1, <2>4
         DEF CallAt, CallInv, ShapeInv, PartInv, SingleInv, MovedInv, Running
    <2>6. QuietInv'
      BY <1>3, <1>7, <1>8, <1>10, <2>1, <2>4 DEF QuietInv
    <2>7. CareInv'
      BY <1>3, <1>9, <1>10, <2>1 DEF CareInv
    <2>8. WriteCount'
      <3>1. wcall'.phase = "done" /\ wcall.shape = 1 => m > 0 /\ arrived = tail
        BY <1>3, <1>8, <2>1 DEF IndInv, ChannelInv
      <3>2. m > 0 /\ arrived = tail => m = Beyond(arrived, wcall.from)
        BY <1>3, <1>5 DEF Beyond
      <3> QED
        BY <1>3, <2>1, <3>1, <3>2 DEF WriteCount, Beyond
    <2> QED
      BY <1>6, <2>2, <2>3, <2>5, <2>6, <2>7, <2>8 DEF IndInv, WriteInv
  <1>11. CASE /\ Posts(wcall, Writable) /\ wend = "linked" /\ Accepts(part)
              /\ wcall' = [wcall EXCEPT !.phase = "wait", !.part = part]
              /\ tail' = tail + part /\ UNCHANGED <<doomed, refusals>>
    <2>1. part \in Nat
      BY <1>1, <1>2, <1>11, PartBounds DEF Posts
    <2>2. /\ wcall' \in Call /\ CallInv(wcall', m) /\ wcall'.phase = "wait"
          /\ wcall'.shape = wcall.shape /\ wcall'.part = part /\ wcall'.from = wcall.from
      <3>1. wcall' = Posted(wcall, Writable)
        BY <1>11, Zenon DEF Posted
      <3>2. Posts(wcall, Writable)
        BY <1>11
      <3> QED
        BY <1>1, <1>2, <1>5, <3>1, <3>2, PostCall, Zenon
    <2>3. part > 0 /\ tail + part - head < SendBuffer /\ confirmed = tail
      BY <1>7, <1>11 DEF Accepts
    <2>4. tail' = tail + part /\ wend = "linked" /\ UNCHANGED <<doomed, refusals>>
      BY <1>11
    <2> HIDE DEF part
    <2>5. tail' \in Nat /\ ChannelInv'
      BY <1>3, <2>1, <2>3, <2>4, SocketAssumption DEF IndInv, ChannelInv
    <2>6. TypeOK'
      BY <1>3, <2>2, <2>4, <2>5 DEF TypeOK
    <2>7. Moved(wcall, tail)' = m
      BY <1>3, <1>5, <2>1, <2>2, <2>4 DEF Moved
    <2>8. (CallAt(wcall, tail))'
      BY <1>1, <2>2, <2>7
         DEF CallAt, CallInv, ShapeInv, PartInv, SingleInv, MovedInv, Running
    <2>9. QuietInv'
      BY <1>3, <2>1, <2>2, <2>3, <2>4 DEF QuietInv
    <2>10. CareInv'
      BY <1>3, <1>9, <2>2, <2>3, <2>4 DEF CareInv
    <2>11. WriteCount'
      BY <2>2 DEF WriteCount
    <2> QED
      BY <1>6, <2>5, <2>6, <2>8, <2>9, <2>10, <2>11 DEF IndInv, WriteInv
  <1>12. CASE /\ Posts(wcall, Writable) /\ wcall' = Fail(wcall, 0) /\ UNCHANGED tail
              /\ \/ wend = "failed" /\ UNCHANGED <<doomed, refusals>>
                 \/ /\ wend = "linked" /\ ~Accepts(part) /\ doomed' = TRUE
                    /\ refusals' = refusals \cup {part}
    <2>1. /\ wcall' \in Call /\ CallInv(wcall', m) /\ wcall'.phase = "done"
          /\ wcall'.ok = FALSE /\ wcall'.shape = wcall.shape
          /\ wcall'.from = wcall.from
          /\ wcall.shape = 1 => wcall'.result = m + 0
      <3>1. Running(wcall) /\ wcall.bufs # <<>>
        BY <1>1, <1>12 DEF Running, Posts
      <3>2. wcall' = Fail(wcall, 0)
        BY <1>12
      <3>3. 0 \in Nat
        OBVIOUS
      <3> QED
        BY <1>1, <1>5, <3>1, <3>2, <3>3, FailCall, Zenon
    <2>2. part \in Nat /\ part <= Writable
      BY <1>1, <1>2, <1>12, PartBounds DEF Posts
    <2>3. \/ wend = "failed" /\ doomed' = doomed /\ refusals' = refusals
          \/ wend = "linked" /\ doomed' = TRUE /\ refusals' = refusals \cup {part}
      BY <1>12, Zenon
    <2>4. wend = "linked" =>
            /\ part = 0 => careless = TRUE
            /\ part # 0 => part = SendBuffer /\ SendBuffer <= ReceiveBuffer
      BY <1>1, <1>12, Refused
    <2>5. wend = "failed" => wcall.inner = 0
      BY <1>2, <1>12, <2>2, Limits DEF IndInv, Posts
    <2>6. tail' = tail
      BY <1>12
    <2> HIDE DEF part
    <2>7. TypeOK'
      <3>1. doomed' \in BOOLEAN
        BY <1>3, <2>3, Zenon
      <3>2. refusals' \subseteq Nat
        BY <1>3, <2>2, <2>3
      <3> QED
        BY <1>3, <2>1, <2>6, <3>1, <3>2 DEF TypeOK
    <2>8. ChannelInv'
      BY <1>3, <2>6 DEF IndInv, ChannelInv
    <2>9. Moved(wcall, tail)' = m
      BY <1>3, <1>5, <2>1, <2>6 DEF Moved
    <2>10. (CallAt(wcall, tail))'
      BY <1>1, <2>1, <2>9
         DEF CallAt, CallInv, ShapeInv, PartInv, SingleInv, MovedInv, Running
    <2>11. QuietInv'
      BY <1>3, <1>7, <2>1, <2>6 DEF QuietInv
    <2>12. CareInv'
      <3>1. 0 \in refusals' => careless' = TRUE
        BY <1>3, <1>9, <2>3, <2>4
      <3>2. \A n \in refusals' :
                n = 0 \/ (n = SendBuffer /\ SendBuffer <= ReceiveBuffer)
        BY <1>9, <2>3, <2>4
      <3> QED
        BY <2>1, <3>1, <3>2 DEF CareInv
    <2>13. WriteCount'
      <3>1. wend = "linked" => arrived = tail
        BY <1>3, <1>7 DEF IndInv, ChannelInv
      <3>2. wcall.shape = 1 /\ wend = "failed" => m = 0
        BY <1>1, <1>5, <1>12, <2>5 DEF Posts, CallInv, SingleInv, Running
      <3>3. wcall.shape = 1 => m <= Beyond(arrived, wcall.from)
        BY <1>3, <1>5, <3>1, <3>2 DEF Beyond
      <3> QED
        BY <1>3, <2>1, <3>3 DEF WriteCount, Beyond
    <2> QED
      BY <1>6, <2>7, <2>8, <2>10, <2>11, <2>12, <2>13 DEF IndInv, WriteInv
  <1> QED
    BY <1>10, <1>11, <1>12 DEF WriteStep

\* The handler of the part of the write: it is acknowledged, or an error met it.
LEMMA WriteDoneStep ==
    ASSUME IndInv, WriteDone
    PROVE  IndInv'
  <1>1. /\ wcall \in Call /\ wcall.phase = "wait" /\ ShapeInv(wcall)
        /\ wcall.part > 0 /\ wcall.bufs # <<>>
    BY DEF IndInv, TypeOK, WriteInv, CallAt, CallInv, PartInv, CareInv, WriteDone
  <1>2. UNCHANGED <<tail, head, range, confirmed, arrived, taken, edge, wend, rend,
                    doomed, rcall, careless, refusals>>
    BY DEF WriteDone, channel, counters
  <1>3. PICK m \in Nat : m = Moved(wcall, tail)
    BY DEF IndInv, WriteInv, CallAt
  <1>4. PICK p \in Nat : p = wcall.part
    BY <1>1 DEF Call
  <1>5. CallInv(wcall, m) /\ m = tail - wcall.from - p /\ wcall.from \in Nat
    BY <1>1, <1>3, <1>4 DEF IndInv, WriteInv, CallAt, Moved, Call
  <1>6. ReadInv'
    BY <1>2, ReadKept DEF IndInv
  <1>7. ChannelInv'
    BY <1>2 DEF IndInv, ChannelInv
  <1>8. tail \in Nat /\ confirmed \in Nat /\ arrived \in Nat /\ p > 0
        /\ tail - p <= confirmed /\ confirmed <= arrived /\ arrived <= tail
    BY <1>1, <1>4 DEF IndInv, TypeOK, ChannelInv, WriteInv, QuietInv
  <1>9. /\ 0 \in refusals => careless = TRUE
        /\ \A n \in refusals : n = 0 \/ (n = SendBuffer /\ SendBuffer <= ReceiveBuffer)
    BY DEF IndInv, WriteInv, CareInv
  <1>10. CASE confirmed = tail /\ wcall' = Advance(wcall)
    <2>1. /\ wcall' \in Call /\ CallInv(wcall', m + p) /\ wcall'.phase = "loop"
          /\ wcall'.shape = wcall.shape /\ wcall'.inner = wcall.inner + p
          /\ wcall'.from = wcall.from
      BY <1>1, <1>4, <1>5, <1>10, AdvanceCall
    <2>2. wcall'.inner > 0
      <3>1. wcall.inner \in Nat
        BY <1>1 DEF Call
      <3> QED
        BY <1>8, <2>1, <3>1
    <2>3. TypeOK'
      BY <1>2, <2>1 DEF IndInv, TypeOK
    <2>4. Moved(wcall, tail)' = m + p
      BY <1>2, <1>5, <1>8, <2>1 DEF Moved
    <2>5. (CallAt(wcall, tail))'
      BY <1>1, <2>1, <2>4
         DEF CallAt, CallInv, ShapeInv, PartInv, SingleInv, MovedInv, Running
    <2>6. QuietInv'
      BY <1>2, <1>10, <2>1 DEF QuietInv
    <2>7. CareInv'
      BY <1>2, <1>9, <2>1, <2>2 DEF CareInv
    <2>8. WriteCount'
      BY <2>1 DEF WriteCount
    <2> QED
      BY <1>6, <1>7, <2>3, <2>5, <2>6, <2>7, <2>8 DEF IndInv, WriteInv
  <1>11. CASE confirmed < tail /\ wend = "failed" /\ wcall' = Fail(wcall, Sent)
    <2>1. Sent \in Nat /\ Sent = confirmed - (tail - p)
      BY <1>4, <1>8 DEF Sent, Beyond
    <2>2. /\ wcall' \in Call /\ CallInv(wcall', m + p) /\ wcall'.phase = "done"
          /\ wcall'.ok = FALSE /\ wcall'.shape = wcall.shape
          /\ wcall'.from = wcall.from
          /\ wcall.shape = 1 => wcall'.result = m + Sent
      <3>1. Running(wcall) /\ m + p \in Nat
        BY <1>1 DEF Running
      <3>2. wcall' = Fail(wcall, Sent)
        BY <1>11
      <3> QED
        BY <1>1, <1>5, <2>1, <3>1, <3>2, FailCall
    <2>3. TypeOK'
      BY <1>2, <2>2 DEF IndInv, TypeOK
    <2>4. Moved(wcall, tail)' = m + p
      BY <1>2, <1>5, <1>8, <2>2 DEF Moved
    <2>5. (CallAt(wcall, tail))'
      BY <1>1, <2>2, <2>4
         DEF CallAt, CallInv, ShapeInv, PartInv, SingleInv, MovedInv, Running
    <2>6. QuietInv'
      BY <1>2, <1>11, <2>2 DEF QuietInv
    <2>7. CareInv'
      BY <1>2, <1>9, <2>2 DEF CareInv
    <2>8. WriteCount'
      <3>1. m + Sent <= Beyond(arrived, wcall.from)
        BY <1>5, <1>8, <2>1 DEF Beyond
      <3> QED
        BY <1>2, <2>2, <3>1 DEF WriteCount, Beyond
    <2> QED
      BY <1>6, <1>7, <2>3, <2>5, <2>6, <2>7, <2>8 DEF IndInv, WriteInv
  <1> QED
    BY <1>10, <1>11 DEF WriteDone

\* A turn of the reading loop.
LEMMA ReadTurnStep ==
    ASSUME IndInv, ReadStep
    PROVE  IndInv'
  <1> DEFINE part == PartOf(rcall, Readable)
  <1>1. rcall \in Call /\ rcall.phase = "loop" /\ ShapeInv(rcall)
    BY DEF IndInv, TypeOK, ReadInv, CallAt, ReadStep
  <1>2. Readable \in Nat /\ Readable <= arrived - taken
    BY Limits DEF IndInv
  <1>3. /\ UNCHANGED <<tail, head, range, confirmed, arrived, wend, rend, doomed, wcall,
                       careless, refusals>>
        /\ {tail, head, range, confirmed, arrived, taken, edge} \subseteq Nat
        /\ wend \in {"linked", "failed"} /\ rend \in {"linked", "failed"}
        /\ doomed \in BOOLEAN /\ careless \in BOOLEAN /\ refusals \subseteq Nat
        /\ wcall \in Call
    BY DEF ReadStep, IndInv, TypeOK
  <1>4. PICK m \in Nat : m = Moved(rcall, taken)
    BY DEF IndInv, ReadInv, CallAt
  <1>5. CallInv(rcall, m) /\ m = taken - rcall.from /\ rcall.from \in Nat
    <2>1. CallInv(rcall, m)
      BY <1>4 DEF IndInv, ReadInv, CallAt
    <2>2. rcall.from \in Nat
      BY <1>1 DEF Call
    <2> QED
      BY <1>1, <1>3, <1>4, <2>1, <2>2 DEF Moved
  <1>6. ASSUME TypeOK', ChannelInv' PROVE WriteInv'
    <2>1. arrived <= arrived' /\ confirmed <= confirmed' /\ range <= range'
      BY <1>3
    <2> QED
      BY <1>3, <1>6, <2>1, WriteKept DEF IndInv
  <1>7. CASE /\ ~Posts(rcall, Readable) /\ rcall' = Turn(rcall)
             /\ UNCHANGED <<taken, edge>>
    <2>1. /\ rcall' \in Call /\ CallInv(rcall', m) /\ rcall'.shape = rcall.shape
          /\ rcall'.from = rcall.from /\ rcall'.phase \in {"loop", "done"}
          /\ rcall'.phase = "done" /\ rcall.shape = 1 => rcall'.result = m
      BY <1>1, <1>2, <1>5, <1>7, TurnCall
    <2>2. TypeOK'
      BY <1>3, <1>7, <2>1 DEF TypeOK
    <2>3. ChannelInv'
      BY <1>3, <1>7 DEF IndInv, ChannelInv
    <2>4. Moved(rcall, taken)' = m
      BY <1>3, <1>5, <1>7, <2>1 DEF Moved
    <2>5. (CallAt(rcall, taken))'
      BY <1>1, <2>1, <2>4
         DEF CallAt, CallInv, ShapeInv, PartInv, SingleInv, MovedInv, Running
    <2>6. ReadCount'
      BY <1>5, <1>7, <2>1 DEF ReadCount
    <2> QED
      BY <1>6, <2>2, <2>3, <2>5, <2>6 DEF IndInv, ReadInv
  <1>8. CASE /\ Posts(rcall, Readable) /\ rcall' = Fail(rcall, 0)
             /\ UNCHANGED <<taken, edge>>
    <2>1. /\ rcall' \in Call /\ CallInv(rcall', m) /\ rcall'.shape = rcall.shape
          /\ rcall'.from = rcall.from /\ rcall'.phase = "done"
          /\ rcall.shape = 1 => rcall'.result = m + 0
      <3>1. Running(rcall) /\ rcall.bufs # <<>>
        BY <1>1, <1>8 DEF Running, Posts
      <3>2. rcall' = Fail(rcall, 0)
        BY <1>8
      <3>3. 0 \in Nat
        OBVIOUS
      <3> QED
        BY <1>1, <1>5, <3>1, <3>2, <3>3, FailCall, Zenon
    <2>2. TypeOK'
      BY <1>3, <1>8, <2>1 DEF TypeOK
    <2>3. ChannelInv'
      BY <1>3, <1>8 DEF IndInv, ChannelInv
    <2>4. Moved(rcall, taken)' = m
      BY <1>3, <1>5, <1>8, <2>1 DEF Moved
    <2>5. (CallAt(rcall, taken))'
      BY <1>1, <2>1, <2>4
         DEF CallAt, CallInv, ShapeInv, PartInv, SingleInv, MovedInv, Running
    <2>6. ReadCount'
      BY <1>5, <1>8, <2>1 DEF ReadCount
    <2> QED
      BY <1>6, <2>2, <2>3, <2>5, <2>6 DEF IndInv, ReadInv
  <1>9. CASE /\ Posts(rcall, Readable)
             /\ rcall' = [rcall EXCEPT !.phase = "wait", !.part = part]
             /\ taken' = taken + part /\ edge' = EdgeMoved(part)
    <2>1. part \in Nat /\ part <= Readable
      BY <1>1, <1>2, <1>9, PartBounds DEF Posts
    <2>2. /\ rcall' \in Call /\ CallInv(rcall', m) /\ rcall'.phase = "wait"
          /\ rcall'.shape = rcall.shape /\ rcall'.part = part /\ rcall'.from = rcall.from
      <3>1. rcall' = Posted(rcall, Readable)
        BY <1>9, Zenon DEF Posted
      <3>2. Posts(rcall, Readable)
        BY <1>9
      <3> QED
        BY <1>1, <1>2, <1>5, <3>1, <3>2, PostCall, Zenon
    <2>3. taken' = taken + part /\ edge' = edge + part
      BY <1>9 DEF EdgeMoved
    <2> HIDE DEF part
    <2>4. taken' \in Nat /\ edge' \in Nat /\ ChannelInv'
      <3>1. part <= arrived - taken
        BY <1>2, <1>3, <2>1
      <3>2. edge = ReceiveBuffer + taken
        BY DEF IndInv, ChannelInv
      <3>3. taken' \in Nat /\ edge' \in Nat /\ taken' <= arrived
            /\ edge' = ReceiveBuffer + taken' /\ edge <= edge'
        BY <1>3, <2>1, <2>3, <3>1, <3>2, SocketAssumption
      <3> QED
        BY <1>3, <3>3 DEF IndInv, ChannelInv
    <2>5. TypeOK'
      BY <1>3, <2>2, <2>4 DEF TypeOK
    <2>6. Moved(rcall, taken)' = m
      BY <1>3, <1>5, <2>1, <2>2, <2>3 DEF Moved
    <2>7. (CallAt(rcall, taken))'
      BY <1>1, <2>2, <2>6
         DEF CallAt, CallInv, ShapeInv, PartInv, SingleInv, MovedInv, Running
    <2>8. ReadCount'
      BY <2>2 DEF ReadCount
    <2> QED
      BY <1>6, <2>4, <2>5, <2>7, <2>8 DEF IndInv, ReadInv
  <1> QED
    BY <1>7, <1>8, <1>9 DEF ReadStep

\* The part of the read is answered.
LEMMA ReadDoneStep ==
    ASSUME IndInv, ReadDone
    PROVE  IndInv'
  <1>1. /\ rcall \in Call /\ rcall.phase = "wait" /\ ShapeInv(rcall)
        /\ rcall.bufs # <<>>
    BY DEF IndInv, TypeOK, ReadInv, CallAt, CallInv, PartInv, ReadDone
  <1>2. UNCHANGED <<tail, head, range, confirmed, arrived, taken, edge, wend, rend,
                    doomed, wcall, careless, refusals>>
    BY DEF ReadDone, channel, counters
  <1>3. PICK m \in Nat : m = Moved(rcall, taken)
    BY DEF IndInv, ReadInv, CallAt
  <1>4. PICK p \in Nat : p = rcall.part
    BY <1>1 DEF Call
  <1>5. CallInv(rcall, m) /\ m = taken - rcall.from - p /\ rcall.from \in Nat
        /\ taken \in Nat
    <2>1. CallInv(rcall, m)
      BY <1>3 DEF IndInv, ReadInv, CallAt
    <2>2. rcall.from \in Nat /\ taken \in Nat
      BY <1>1 DEF Call, IndInv, TypeOK
    <2> QED
      BY <1>1, <1>3, <1>4, <2>1, <2>2 DEF Moved
  <1>6. ChannelInv'
    BY <1>2 DEF IndInv, ChannelInv
  <1>7. ASSUME TypeOK' PROVE WriteInv'
    <2>1. arrived <= arrived' /\ confirmed <= confirmed' /\ range <= range'
      BY <1>2 DEF IndInv, TypeOK
    <2> QED
      BY <1>2, <1>6, <1>7, <2>1, WriteKept DEF IndInv
  <1>8. CASE rcall' = Advance(rcall)
    <2>1. /\ rcall' \in Call /\ CallInv(rcall', m + p) /\ rcall'.phase = "loop"
          /\ rcall'.shape = rcall.shape /\ rcall'.from = rcall.from
      BY <1>1, <1>4, <1>5, <1>8, AdvanceCall
    <2>2. TypeOK'
      BY <1>2, <2>1 DEF IndInv, TypeOK
    <2>3. Moved(rcall, taken)' = m + p
      BY <1>2, <1>5, <2>1 DEF Moved
    <2>4. (CallAt(rcall, taken))'
      BY <1>1, <2>1, <2>3
         DEF CallAt, CallInv, ShapeInv, PartInv, SingleInv, MovedInv, Running
    <2>5. ReadCount'
      BY <2>1 DEF ReadCount
    <2> QED
      BY <1>6, <1>7, <2>2, <2>4, <2>5 DEF IndInv, ReadInv
  <1>9. CASE p = 0 /\ rcall' = Fail(rcall, 0)
    <2>1. /\ rcall' \in Call /\ CallInv(rcall', m) /\ rcall'.shape = rcall.shape
          /\ rcall'.from = rcall.from /\ rcall'.phase = "done"
          /\ rcall.shape = 1 => rcall'.result = m + 0
      <3>1. Running(rcall)
        BY <1>1 DEF Running
      <3>2. 0 \in Nat
        OBVIOUS
      <3> QED
        BY <1>1, <1>5, <1>9, <3>1, <3>2, FailCall, Zenon
    <2>2. TypeOK'
      BY <1>2, <2>1 DEF IndInv, TypeOK
    <2>3. Moved(rcall, taken)' = m
      BY <1>2, <1>5, <1>9, <2>1 DEF Moved
    <2>4. (CallAt(rcall, taken))'
      BY <1>1, <2>1, <2>3
         DEF CallAt, CallInv, ShapeInv, PartInv, SingleInv, MovedInv, Running
    <2>5. ReadCount'
      BY <1>2, <1>5, <1>9, <2>1 DEF ReadCount
    <2> QED
      BY <1>6, <1>7, <2>2, <2>4, <2>5 DEF IndInv, ReadInv
  <1> QED
    BY <1>4, <1>8, <1>9 DEF ReadDone

-----------------------------------------------------------------------------
\* The invariant holds when both sockets are idle and nothing was written.
LEMMA InitInv == Init => IndInv
  <1> SUFFICES ASSUME Init PROVE IndInv
    OBVIOUS
  <1>1. Begin(<<>>, 0) \in Call
    <2>1. <<>> \in Seq(Nat) /\ Len(<<>>) = 0
      OBVIOUS
    <2> QED
      BY <2>1 DEF Begin, Call
  <1>2. Idle \in Call /\ Idle.phase = "idle" /\ Idle.from = 0
    BY <1>1 DEF Idle, Begin, Call
  <1>3. TypeOK
    <2>1. {tail, head, range, confirmed, arrived, taken, edge} \subseteq Nat
      BY SocketAssumption DEF Init
    <2>2. doomed \in BOOLEAN /\ careless \in BOOLEAN
      BY Zenon DEF Init
    <2>3. wend \in {"linked", "failed"} /\ rend \in {"linked", "failed"}
      BY DEF Init
    <2>4. refusals \subseteq Nat /\ wcall \in Call /\ rcall \in Call
      BY <1>2 DEF Init
    <2> QED
      BY <2>1, <2>2, <2>3, <2>4 DEF TypeOK
  <1>4. ChannelInv
    BY SocketAssumption DEF Init, ChannelInv
  <1>5. Moved(Idle, 0) = 0
    BY <1>2 DEF Moved
  <1>6. CallAt(Idle, 0)
    BY <1>2, <1>5 DEF CallAt, CallInv, ShapeInv, PartInv, SingleInv, MovedInv, Running
  <1>7. CallAt(wcall, tail) /\ CallAt(rcall, taken)
    BY <1>6, Zenon DEF Init
  <1>8. QuietInv /\ WriteCount /\ ReadCount
    BY <1>2 DEF Init, QuietInv, WriteCount, ReadCount
  <1>9. CareInv
    BY <1>2 DEF Init, CareInv
  <1> QED
    BY <1>3, <1>4, <1>7, <1>8, <1>9 DEF IndInv, WriteInv, ReadInv

\* Every step of the channel and of the two sockets keeps the invariant.
LEMMA NextInv == IndInv /\ [Next]_vars => IndInv'
  <1> SUFFICES ASSUME IndInv, [Next]_vars PROVE IndInv'
    OBVIOUS
  <1>1. CASE UNCHANGED vars
    <2>1. UNCHANGED <<tail, head, range, confirmed, arrived, taken, edge, wend, rend,
                      doomed, wcall, rcall, careless, refusals>>
      BY <1>1 DEF vars, channel, counters
    <2>2. ChannelInv'
      BY <2>1 DEF IndInv, ChannelInv
    <2>3. TypeOK'
      BY <2>1, Zenon DEF IndInv, TypeOK
    <2>4. arrived <= arrived' /\ confirmed <= confirmed' /\ range <= range'
      BY <2>1 DEF IndInv, TypeOK
    <2>5. WriteInv'
      BY <2>1, <2>2, <2>3, <2>4, WriteKept DEF IndInv
    <2>6. ReadInv'
      BY <2>1, ReadKept DEF IndInv
    <2> QED
      BY <2>2, <2>3, <2>5, <2>6 DEF IndInv
  <1> QED
    BY <1>1, ChannelStep, WriteSomeStep, ReadSomeStep, WriteTurnStep, WriteDoneStep,
       ReadTurnStep, ReadDoneStep DEF Next

\* The counters, the two calls against their positions and what is acknowledged
\* of the write under way are as IndInv says in every reachable state.
THEOREM Inductive == Spec => []IndInv
  BY InitInv, NextInv, PTL DEF Spec

\* The state of the channel and of the calls keeps its type: no position of the
\* stream, no buffer that is left and no result of post_io_method falls below zero.
THEOREM TypeCorrect == Spec => []TypeOK
  <1>1. IndInv => TypeOK
    BY DEF IndInv
  <1> QED
    BY <1>1, Inductive, PTL

\* The count of a call with one buffer, into whatever parts the window and the
\* arrivals cut it and whenever an end fails: a read_some reports the bytes it
\* took, a write_some that succeeds the bytes the peer has, and one that meets an
\* error with a part under way (ostreamer::error) never more than the peer has.
THEOREM SingleCount == Spec => []SingleCountSound
  <1>1. IndInv => SingleCountSound
    <2> SUFFICES ASSUME IndInv PROVE SingleCountSound
      OBVIOUS
    <2>1. ReadCount /\ WriteCount
      BY DEF IndInv, ReadInv, WriteInv
    <2>2. ASSUME wcall.phase = "done", wcall.shape = 1, wcall.ok
          PROVE  wcall.result = arrived - wcall.from
      <3>1. wcall.ok = TRUE
        BY <2>2 DEF IndInv, TypeOK, Call
      <3>2. wcall.result = Moved(wcall, tail) /\ confirmed = tail
        BY <2>2, <3>1 DEF IndInv, WriteInv, QuietInv, CallAt, CallInv, SingleInv
      <3>3. arrived = tail
        BY <3>2 DEF IndInv, TypeOK, ChannelInv
      <3>4. wcall.from \in Nat /\ tail \in Nat
        BY DEF IndInv, TypeOK, Call
      <3> QED
        BY <2>2, <3>2, <3>3, <3>4 DEF Moved
    <2> QED
      BY <2>1, <2>2 DEF SingleCountSound, ReadCount, WriteCount
  <1> QED
    BY <1>1, Inductive, PTL

\* A call that succeeds has moved at least one byte, if it was made with at least
\* one buffer: the empty parts of post_io_method never end a call, nor does an
\* end that fails between two parts.
THEOREM NeverNothing ==
    ASSUME NoEmptyShape
    PROVE  Spec => []SomeMoved
  <1>1. IndInv => SomeMoved
    <2> SUFFICES ASSUME IndInv PROVE SomeMoved
      OBVIOUS
    <2>1. ASSUME wcall.phase = "done", wcall.ok PROVE arrived > wcall.from
      <3>1. wcall.ok = TRUE /\ wcall.shape > 0
        BY <2>1 DEF IndInv, TypeOK, Call, WriteInv, CallAt, ShapeInv
      <3>2. Moved(wcall, tail) > 0 /\ confirmed = tail
        BY <2>1, <3>1 DEF IndInv, WriteInv, QuietInv, CallAt, CallInv, MovedInv
      <3>3. arrived = tail
        BY <3>2 DEF IndInv, TypeOK, ChannelInv
      <3>4. wcall.from \in Nat /\ tail \in Nat
        BY DEF IndInv, TypeOK, Call
      <3> QED
        BY <2>1, <3>2, <3>3, <3>4 DEF Moved
    <2>2. ASSUME rcall.phase = "done", rcall.ok PROVE taken > rcall.from
      <3>1. rcall.ok = TRUE /\ rcall.shape > 0
        BY <2>2 DEF IndInv, TypeOK, Call, ReadInv, CallAt, ShapeInv
      <3>2. Moved(rcall, taken) > 0 /\ rcall.from \in Nat /\ taken \in Nat
        BY <2>2, <3>1 DEF IndInv, TypeOK, Call, ReadInv, CallAt, CallInv, MovedInv
      <3> QED
        BY <2>2, <3>2 DEF Moved
    <2> QED
      BY <2>1, <2>2 DEF SomeMoved
  <1> QED
    BY <1>1, Inductive, PTL

\* The parts a linked channel refuses, for every size of both buffers: an empty
\* one after a call made while writable() was 0, and one of the whole send buffer
\* where the receive buffer of the peer is as large; no other.
THEOREM RefusalsOnly == Spec => []RefusalsKnown
  <1>1. IndInv => RefusalsKnown
    BY DEF IndInv, WriteInv, CareInv, RefusalsKnown
  <1> QED
    BY <1>1, Inductive, PTL

=============================================================================
