----------------------------- MODULE TcpStream -----------------------------
(***************************************************************************)
(* The data of two connected TCP channels: the read and write queues of    *)
(* tcp/channel.cpp over the obfuscated stream of tcp/proto.h, whose first  *)
(* write is preceded by a head that carries the salt of the key stream.    *)
(* One write and one read of an endpoint are under way at a time; TCP      *)
(* takes and gives their cells one by one.  The n-th byte written is n; a  *)
(* cell carries a byte with the key stream position that masked it, and a  *)
(* reader whose own position differs unmasks it to Junk.  The early use of *)
(* a socket that still connects, close(), shutdown() and the end of the    *)
(* channel object are included.                                            *)
(***************************************************************************)
EXTENDS StreamCipher, Sequences

CONSTANTS
    End,            \* the two endpoints
    Dialer,         \* the one that connects: its socket is open before the link
    SendBuffer, ReceiveBuffer,  \* qos::send_buffer_size(), receive_buffer_size()
    WriteSizes, ReadSizes,      \* the sizes of the application's buffers
    MaxWrite,       \* bound: bytes an endpoint writes
    MaxRead         \* bound: bytes an endpoint asks for

ASSUME StreamAssumption ==
    /\ Dialer \in End /\ \E e \in End : e # Dialer /\ End = {Dialer, e}
    /\ SendBuffer \in Nat /\ ReceiveBuffer \in Nat
    /\ WriteSizes \subseteq Nat /\ ReadSizes \subseteq Nat
    /\ MaxWrite \in [End -> Nat] /\ MaxRead \in [End -> Nat]

VARIABLES
    masked,     \* m_secret # 0, the same on both sides
    linked,     \* the connection is established
    closed,     \* the endpoints whose socket is closed
    cut,        \* those whose socket is closed or shut down
    dropped,    \* those whose channel object is destroyed
    wq, wbSize, \* m_wq as the sizes of its buffers, and m_wb_size
    rq, rbSize, \* m_rq, m_rb_size
    ostate, istate,     \* m_ostate, m_istate
    outgoing,   \* the cells the write under way has still to give to TCP
    incoming,   \* the cells the read under way has got from TCP
    pipe,       \* the cells of an endpoint that TCP carries
    \* history
    offered,    \* bytes write() accepted
    asked,      \* bytes read() accepted
    sent,       \* bytes of the writes that were started
    got,        \* the bytes given to the read handlers
    spoiled,    \* endpoints a write of which failed before the link
    owed,       \* the accepted operations whose handler was not called yet
    orphans     \* those of them whose handler was destroyed

writer == <<wq, wbSize, ostate, outgoing, sent, offered>>
reader == <<rq, rbSize, istate, incoming, got, asked>>
life == <<linked, closed, cut, dropped>>
handlers == <<owed, orphans>>
vars == <<masked, life, writer, reader, pipe, spoiled, handlers>>

Peer(e) == CHOOSE p \in End : p # e

\* salt = 0: no head was written or read yet.
NoKey == [block |-> -1, shift |-> 0]

Cell(byte, key) == [byte |-> byte, key |-> key]
HeadCell == Cell(0, NoKey)
Junk == -1

\* The bytes of a queue.
Sum(q) ==
    LET upTo[i \in 0 .. Len(q)] == IF i = 0 THEN 0 ELSE upTo[i - 1] + q[i]
    IN  upTo[Len(q)]

TypeOK ==
    /\ masked \in BOOLEAN /\ linked \in BOOLEAN
    /\ closed \subseteq cut /\ dropped \subseteq closed /\ cut \subseteq End
    /\ spoiled \subseteq End
    /\ \A e \in End :
        /\ wq[e] \in Seq(WriteSizes) /\ rq[e] \in Seq(ReadSizes)
        /\ {wbSize[e], rbSize[e], sent[e], offered[e], asked[e]} \subseteq Nat
        /\ {owed[e], orphans[e]} \subseteq Nat
        /\ {ostate[e], istate[e]} \subseteq CipherState \cup {NoKey}
        /\ got[e] \in Seq(Nat \cup {Junk})

Init ==
    /\ masked \in BOOLEAN
    /\ linked = FALSE /\ closed = {} /\ cut = {} /\ dropped = {} /\ spoiled = {}
    /\ \E none \in {[e \in End |-> <<>>]} :
        /\ wq = none /\ rq = none /\ outgoing = none /\ incoming = none
        /\ pipe = none /\ got = none
    /\ \E zero \in {[e \in End |-> 0]} :
        /\ wbSize = zero /\ rbSize = zero
        /\ sent = zero /\ offered = zero /\ asked = zero
        /\ owed = zero /\ orphans = zero
    /\ \E new \in {[e \in End |-> NoKey]} : ostate = new /\ istate = new

\* An operation is accepted.
Owe(e) == owed' = [owed EXCEPT ![e] = @ + 1] /\ UNCHANGED orphans

\* Mutant: the handler is called only while the channel object lives.
AnswerLocked(e) ==
    /\ owed' = IF e \in dropped THEN owed ELSE [owed EXCEPT ![e] = @ - 1]
    /\ UNCHANGED orphans

\* The handler of an operation is posted, or called if the channel object is gone.
Answer(e) == owed' = [owed EXCEPT ![e] = @ - 1] /\ UNCHANGED orphans

-----------------------------------------------------------------------------
\* Writing.

\* is_open() in read() and write(); the socket of an acceptor is open once it
\* is linked.
IsOpen(e) == e \notin closed /\ (linked \/ e = Dialer)

\* The first write of a stream with a secret carries the head.
StartsStream(e) == masked /\ ostate[e] = NoKey

\* stream::async_write of n bytes: the mask is applied to all of them at once.
StartWrite(e, n) ==
    LET key == IF StartsStream(e) THEN AfterHead ELSE ostate[e]
    IN  /\ outgoing' = [outgoing EXCEPT ![e] =
              (IF StartsStream(e) THEN <<HeadCell>> ELSE <<>>) \o
              [i \in 1 .. n |->
                  Cell(sent[e] + i, IF masked THEN Alter(key, i) ELSE NoKey)]]
        /\ ostate' = [ostate EXCEPT ![e] = IF masked THEN Alter(key, n) ELSE @]
        /\ sent' = [sent EXCEPT ![e] = @ + n]

\* write(), when it is not refused with not_connected or message_size.
Write(e, n) ==
    /\ IsOpen(e)
    /\ wbSize[e] + n <= SendBuffer
    /\ offered[e] + n <= MaxWrite[e]
    /\ offered' = [offered EXCEPT ![e] = @ + n]
    /\ wq' = [wq EXCEPT ![e] = Append(@, n)]
    /\ wbSize' = [wbSize EXCEPT ![e] = @ + n]
    /\ IF wq[e] = <<>> THEN StartWrite(e, n)
                       ELSE UNCHANGED <<outgoing, ostate, sent>>
    /\ Owe(e)
    /\ UNCHANGED <<masked, life, reader, pipe, spoiled>>

\* TCP takes a cell of the write under way.
Transmit(e) ==
    /\ linked /\ cut = {} /\ outgoing[e] # <<>>
    /\ outgoing' = [outgoing EXCEPT ![e] = Tail(@)]
    /\ pipe' = [pipe EXCEPT ![e] = Append(@, Head(outgoing[e]))]
    /\ UNCHANGED <<masked, life, wq, wbSize, ostate, sent, offered, reader,
                   spoiled, handlers>>

\* An operation may fail on a cut connection, and on a socket whose attempt to
\* connect was refused.
Broken == cut # {} \/ ~linked

\* Mutant: the head is subtracted with the chunk.
ReleasedHead(size, n) == size - n - 1

\* m_wb_size after a write of n.
Released(size, n) == size - n

\* The handler of async_write: the next write of the queue is started.
WriteEnds(e) ==
    /\ wq[e] # <<>>
    /\ outgoing[e] = <<>> \/ Broken
    /\ wq' = [wq EXCEPT ![e] = Tail(@)]
    /\ wbSize' = [wbSize EXCEPT ![e] = Released(@, Head(wq[e]))]
    /\ IF Len(wq[e]) > 1
       THEN StartWrite(e, wq[e][2])
       ELSE /\ outgoing' = [outgoing EXCEPT ![e] = <<>>]
            /\ UNCHANGED <<ostate, sent>>
    /\ spoiled' = IF linked THEN spoiled ELSE spoiled \cup {e}
    /\ Answer(e)
    /\ UNCHANGED <<masked, life, offered, reader, pipe>>

-----------------------------------------------------------------------------
\* Reading.

\* The first read of a stream with a secret starts with the head.
ExpectsHead(e) == masked /\ istate[e] = NoKey

\* Mutant: every read waits for a head.
NeedHead(e) == Head(rq[e]) + (IF masked THEN 1 ELSE 0)

\* The cells the read under way waits for.
Need(e) == Head(rq[e]) + (IF ExpectsHead(e) THEN 1 ELSE 0)

\* read(), when it is not refused: the limit is the one of the write queue.
Read(e, n) ==
    /\ IsOpen(e)
    /\ wbSize[e] + n <= ReceiveBuffer
    /\ asked[e] + n <= MaxRead[e]
    /\ asked' = [asked EXCEPT ![e] = @ + n]
    /\ rq' = [rq EXCEPT ![e] = Append(@, n)]
    /\ rbSize' = [rbSize EXCEPT ![e] = @ + n]
    /\ Owe(e)
    /\ UNCHANGED <<masked, life, writer, istate, incoming, got, pipe, spoiled>>

\* TCP gives a cell to the read under way.
Receive(e) ==
    /\ linked /\ e \notin cut /\ rq[e] # <<>>
    /\ Len(incoming[e]) < Need(e)
    /\ pipe[Peer(e)] # <<>>
    /\ incoming' = [incoming EXCEPT ![e] = Append(@, Head(pipe[Peer(e)]))]
    /\ pipe' = [pipe EXCEPT ![Peer(e)] = Tail(@)]
    /\ UNCHANGED <<masked, life, writer, rq, rbSize, istate, got, asked,
                   spoiled, handlers>>

\* alter_data of the reader: the bytes of cells, unmasked from key on.
Unmask(cells, key) ==
    [i \in DOMAIN cells |->
        IF cells[i].key = (IF masked THEN Alter(key, i) ELSE NoKey)
        THEN cells[i].byte ELSE Junk]

\* A read leaves the queue, and the next one is under way.
PopRead(e) ==
    /\ rq' = [rq EXCEPT ![e] = Tail(@)]
    /\ rbSize' = [rbSize EXCEPT ![e] = @ - Head(rq[e])]
    /\ incoming' = [incoming EXCEPT ![e] = <<>>]

\* The handler of async_read with what has come, all of it or the part before
\* an error.  A stream with a secret that is gone, or has not got the head,
\* gives nothing; a head that is not one still sets the key, and its read fails.
ReadEnds(e) ==
    /\ rq[e] # <<>>
    /\ Len(incoming[e]) = Need(e) \/ Broken
    /\ PopRead(e) /\ Answer(e)
    /\ LET cells == incoming[e]
           none  == (masked /\ e \in dropped) \/ (ExpectsHead(e) /\ cells = <<>>)
           wrong == ExpectsHead(e) /\ cells # <<>> /\ cells[1] # HeadCell
           body  == IF ExpectsHead(e) THEN Tail(cells) ELSE cells
           key   == IF ExpectsHead(e) THEN AfterHead ELSE istate[e]
       IN  \/ none /\ UNCHANGED <<istate, got>>
           \/ /\ ~none /\ wrong
              /\ istate' = [istate EXCEPT ![e] = AfterHead]
              /\ UNCHANGED got
           \/ /\ ~none /\ ~wrong
              /\ istate' = [istate EXCEPT ![e] =
                                IF masked THEN Alter(key, Len(body)) ELSE @]
              /\ got' = [got EXCEPT ![e] = @ \o Unmask(body, key)]
    /\ UNCHANGED <<masked, life, writer, asked, pipe, spoiled>>

\* available() of the stream, without the head that is still to come.
Available(e) ==
    LET count == IF e \in closed THEN 0 ELSE Len(pipe[Peer(e)])
    IN  IF ~ExpectsHead(e) THEN count
        ELSE IF count >= 1 THEN count - 1 ELSE 0

\* Mutant: the reads in the queue are not subtracted.
ReadableAll(e) == Available(e)

\* readable(): what is there beyond the reads of the queue.
Readable(e) ==
    IF Available(e) > rbSize[e] THEN Available(e) - rbSize[e] ELSE 0

-----------------------------------------------------------------------------
\* The connection.

Link ==
    /\ ~linked /\ cut = {}
    /\ linked' = TRUE
    /\ UNCHANGED <<masked, closed, cut, dropped, writer, reader, pipe, spoiled,
                   handlers>>

Close(e) ==
    /\ IsOpen(e)
    /\ closed' = closed \cup {e} /\ cut' = cut \cup {e}
    /\ UNCHANGED <<masked, linked, dropped, writer, reader, pipe, spoiled, handlers>>

Shutdown(e) ==
    /\ IsOpen(e) /\ linked /\ e \notin cut
    /\ cut' = cut \cup {e}
    /\ UNCHANGED <<masked, linked, closed, dropped, writer, reader, pipe, spoiled,
                   handlers>>

\* The entries of a queue whose handlers its destruction leaves uncalled: all
\* behind the first, which the operation under way holds.
Behind(q) == IF q = <<>> THEN 0 ELSE Len(q) - 1

\* ~transport(), perhaps after close() or shutdown(): the operations under way
\* hold their handlers, the others are destroyed with the queues.
Destroy(e) ==
    /\ e \notin dropped
    /\ closed' = closed \cup {e} /\ cut' = cut \cup {e}
    /\ dropped' = dropped \cup {e}
    /\ LET first(q) == SubSeq(q, 1, IF q = <<>> THEN 0 ELSE 1)
       IN  /\ wq' = [wq EXCEPT ![e] = first(@)]
           /\ wbSize' = [wbSize EXCEPT ![e] = Sum(first(wq[e]))]
           /\ rq' = [rq EXCEPT ![e] = first(@)]
           /\ rbSize' = [rbSize EXCEPT ![e] = Sum(first(rq[e]))]
    /\ orphans' = [orphans EXCEPT ![e] = Behind(wq[e]) + Behind(rq[e])]
    /\ UNCHANGED <<masked, linked, ostate, outgoing, sent, offered, istate, incoming,
                   got, asked, pipe, spoiled, owed>>

Next ==
    \/ Link
    \/ \E e \in End :
        \/ Transmit(e) \/ WriteEnds(e) \/ Receive(e) \/ ReadEnds(e)
        \/ Close(e) \/ Shutdown(e) \/ Destroy(e)
        \/ \E n \in WriteSizes : Write(e, n)
        \/ \E n \in ReadSizes : Read(e, n)

Spec == Init /\ [][Next]_vars

\* TCP carries what it is given and the io_context runs the handlers; a write
\* before the link need not fail.
FairSpec ==
    /\ Spec
    /\ \A e \in End :
        /\ WF_vars(Transmit(e)) /\ WF_vars(Receive(e))
        /\ WF_vars(WriteEnds(e) /\ (linked \/ cut # {}))
        /\ WF_vars(ReadEnds(e) /\ (linked \/ cut # {}))

-----------------------------------------------------------------------------
\* The readers get the written bytes, in order, none missing and none unmasked
\* with the wrong key, though the stream is cut differently by the writes, by
\* TCP and by the reads, as long as no write of the peer failed before the link.
StreamIntact ==
    \A e \in End : Peer(e) \notin spoiled =>
        \A i \in DOMAIN got[e] : got[e][i] = i

\* A read of readable() bytes would be served after those of the queue by what
\* has already come.
ReadableSound ==
    \A e \in End : Readable(e) > 0 =>
        Len(incoming[e]) + Len(pipe[Peer(e)]) - (IF ExpectsHead(e) THEN 1 ELSE 0)
            >= Sum(rq[e]) + Readable(e)

\* close(), shutdown(), the loss of the peer and the end of a channel object
\* interrupt the operations of both sides: each handler that was accepted is
\* called, but for those of a destroyed channel that were behind the first of a
\* queue.
OpsInterrupted ==
    \A e \in End :
        cut # {} ~> /\ wq[e] = <<>> /\ rq[e] = <<>>
                    /\ owed[e] = IF e \in dropped THEN orphans[e] ELSE 0

\* A read whose bytes were written is answered with them, the first one with
\* its head included, as long as both sides stay and no early write was lost.
StreamServed ==
    \A e \in End : \A n \in 1 .. MaxRead[e] :
        (/\ linked /\ sent[Peer(e)] >= n
         /\ rq[e] # <<>> /\ Len(got[e]) + Head(rq[e]) = n)
            ~> (Len(got[e]) >= n \/ cut # {} \/ spoiled # {})

=============================================================================
