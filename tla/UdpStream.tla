----------------------------- MODULE UdpStream -----------------------------
(***************************************************************************)
(* One direction of the reliable byte stream of an established UDP         *)
(* channel: the ostreamer of the writing endpoint, the istreamer of the    *)
(* reading endpoint, and the datagram network between them, which may      *)
(* lose, duplicate and reorder packets (udp/channel.cpp).  The other       *)
(* direction is a second copy of this module: the two share only the room  *)
(* of a packet (here any value of Rooms) and the fate of the channel     *)
(* (here a Mistake at any time).                                           *)
(*                                                                         *)
(* A byte is identified with its position in the written stream, so a      *)
(* piece of data is an interval from .. to-1 of positions.  A fragment     *)
(* also has the handle it is sent and stored under: nothing but the code   *)
(* makes the two agree.  Every action is a whole critical section of       *)
(* m_mutex.  Time is abstracted: a flight's repeat timer and the edge      *)
(* timer may or may not have expired whenever a packet is produced.        *)
(***************************************************************************)
EXTENDS Integers, FiniteSets

CONSTANTS
    ReceiveBuffer,  \* qos::receive_buffer_size()
    SendBuffer,     \* qos::send_buffer_size()
    Swarm,          \* qos::snippet_swarm(), the most flights at a time
    MoveAttempts,   \* qos::move_attempts()
    Rooms,          \* the bytes a packet may have left for this stream
    Overhead,       \* section header plus handle or numeral value
    WriteSizes,     \* the sizes of the buffers the application writes
    ReadSizes,      \* the sizes of the buffers the application reads into
    MaxBytes,       \* bound: bytes written, and bytes asked for by reads
    MoveCap,        \* bound: packets on the way to the reading endpoint
    EchoCap,        \* bound: packets on the way back
    MayClose        \* whether close() or a socket error may strike

ASSUME BufferAssumption ==
    /\ ReceiveBuffer \in Nat \ {0}
    /\ SendBuffer \in Nat \ {0}

ASSUME FlightAssumption ==
    /\ Swarm \in Nat \ {0}
    /\ MoveAttempts \in Nat \ {0}
    /\ Overhead \in Nat \ {0}
    /\ Rooms \subseteq Nat

ASSUME ApplicationAssumption ==
    /\ WriteSizes \subseteq Nat \ {0}
    /\ ReadSizes \subseteq Nat \ {0}
    /\ MaxBytes \in Nat
    /\ MoveCap \in Nat /\ EchoCap \in Nat
    /\ MayClose \in BOOLEAN

VARIABLES
    \* the ostreamer of the writing endpoint
    oLinked,    \* the channel is linked; FALSE once finished
    oHead,      \* m_buffer.m_head: the first byte not yet in flight
    oTail,      \* m_buffer.m_tail: the end of the written bytes
    oData,      \* m_buffer.m_data: the ends of the queued buffers
    oMoves,     \* m_moves: the flights
    oBase,      \* the end of the last completed write
    oWriters,   \* m_writers: the ends of the pending writes
    oRange,     \* m_range: the position the peer permits to send up to
    oAcks,      \* m_acks: the edges to acknowledge
    oError,     \* an on_error callback is posted
    \* the istreamer of the reading endpoint
    iLinked,    \* the channel is linked; FALSE once finished
    iHead,      \* m_buffer.m_head: the first byte not yet given to a reader
    iTail,      \* m_buffer.m_tail
    iData,      \* m_buffer.m_data: fragments by the handle they are kept under
    iAcks,      \* m_acks: the handles to acknowledge
    iBase,      \* the end of the last completed read
    iReaders,   \* m_readers: the ends of the pending reads
    iEdge,      \* m_edge.range
    iArmed,     \* m_edge.time # max_date_time
    iError,     \* an on_error callback is posted
    \* the network
    toReader,   \* packets with moves and edge acknowledgements
    toWriter,   \* packets with move acknowledgements and an edge
    \* history
    flown,      \* the fragments ever put in flight
    received,   \* the bytes the istreamer ever stored
    got,        \* <<place, byte>> pairs handed to the readers
    wrote,      \* the number of bytes accepted from the writers
    confirmed   \* the number of bytes reported to writers as transmitted

oVars == <<oLinked, oHead, oTail, oData, oMoves, oBase, oWriters, oRange,
           oAcks, oError>>
iVars == <<iLinked, iHead, iTail, iData, iAcks, iBase, iReaders, iEdge,
           iArmed, iError>>
netVars == <<toReader, toWriter>>
vars == <<oVars, iVars, netVars, flown, received, got, wrote, confirmed>>

\* The bytes from .. to-1 under a handle: snippets and stored fragments ...
Fragment ==
    {f \in [handle : Nat, from : Nat, to : Nat] : f.from < f.to}

\* ... and flights, with the number of times they were sent.
Flight ==
    {m \in [handle : Nat, from : Nat, to : Nat, attempt : Nat] : m.from < m.to}

----------------------------------------------------------------------------
(* Intervals and extrema.                                                  *)

IsMax(m, S) == m \in S /\ \A x \in S : x <= m

IsMin(m, S) == m \in S /\ \A x \in S : m <= x

Size(f) == f.to - f.from

\* Where a stored or sent fragment ends, by the handle it goes under.
End(f) == f.handle + Size(f)

Bytes(f) == f.from .. (f.to - 1)

\* The place p of the incoming stream is held by fragment f ...
Holds(f, p) == f.handle <= p /\ p < End(f)

\* ... and this is the byte it puts there.
ByteAt(f, p) == f.from + (p - f.handle)

\* The bytes a set of fragments takes in a packet.
Cost(S) == Overhead * Cardinality(S) + Cardinality(UNION {Bytes(f) : f \in S})

AsFragment(m) == [handle |-> m.handle, from |-> m.from, to |-> m.to]

\* The k smallest elements of S, as many as there are.
IsLowest(A, S, k) ==
    /\ A \subseteq S
    /\ Cardinality(A) = IF Cardinality(S) <= k THEN Cardinality(S) ELSE k
    /\ \A a \in A, b \in S \ A : a < b

----------------------------------------------------------------------------
Init ==
    /\ oLinked = TRUE
    /\ oHead = 0 /\ oTail = 0
    /\ oData = {} /\ oMoves = {}
    /\ oBase = 0 /\ oWriters = {}
    /\ oRange = 0 /\ oAcks = {}
    /\ oError = FALSE
    /\ iLinked = TRUE
    /\ iHead = 0 /\ iTail = 0
    /\ iData = {} /\ iAcks = {}
    /\ iBase = 0 /\ iReaders = {}
    /\ iEdge = ReceiveBuffer /\ iArmed = TRUE
    /\ iError = FALSE
    /\ toReader = {} /\ toWriter = {}
    /\ flown = {} /\ received = {} /\ got = {}
    /\ wrote = 0 /\ confirmed = 0

----------------------------------------------------------------------------
(* The network: a packet may be delivered any number of times, in any      *)
(* order, until it is lost; one sent into a full network is lost at once.  *)

SendTo(net, p, cap) == IF Cardinality(net) < cap THEN net \cup {p} ELSE net

LoseMoves(p) ==
    /\ toReader' = toReader \ {p}
    /\ UNCHANGED <<oVars, iVars, toWriter, flown, received, got, wrote,
                   confirmed>>

LoseEcho(p) ==
    /\ toWriter' = toWriter \ {p}
    /\ UNCHANGED <<oVars, iVars, toReader, flown, received, got, wrote,
                   confirmed>>

----------------------------------------------------------------------------
(* The ostreamer.                                                          *)

\* streambuf::add: the buffer is refused when it would fill the send buffer.
Accepts(n) == oTail + n - oHead < SendBuffer

\* write() of n bytes: append() queues the buffer and its handler.
Write(n) ==
    /\ oLinked
    /\ Accepts(n)
    /\ wrote + n <= MaxBytes
    /\ oTail' = oTail + n
    /\ oData' = oData \cup {oTail + n}
    /\ oWriters' = oWriters \cup {oTail + n}
    /\ wrote' = wrote + n
    /\ UNCHANGED <<oLinked, oHead, oMoves, oBase, oRange, oAcks, oError,
                   iVars, netVars, flown, received, got, confirmed>>

\* write() of n bytes that append() refuses: the handler gets no_buffer_space
\* and so does the whole channel.
WriteRefused(n) ==
    /\ oLinked
    /\ ~Accepts(n)
    /\ oError' = TRUE
    /\ UNCHANGED <<oLinked, oHead, oTail, oData, oMoves, oBase, oWriters,
                   oRange, oAcks, iVars, netVars, flown, received, got,
                   wrote, confirmed>>

\* Mutant: the cursor ignores the flights that are still out.
IsCursorHead(c, moves) == c = oHead

\* The position below which every byte is acknowledged.
IsCursor(c, moves) ==
    IF moves = {} THEN c = oHead ELSE IsMin(c, {m.handle : m \in moves})

\* Mutant: the last edge received wins, even if it is an old one.
GrantedLast(e) == e

\* m_range after the edge e: an older edge that comes late changes nothing.
Granted(e) == IF e > oRange THEN e ELSE oRange

\* Mutant: an acknowledgement is taken for everything below it, too.
StillOutAbove(p) == {m \in oMoves : \A a \in p.acks : m.handle > a}

\* The flights that remain after the acknowledgements of packet p.
StillOut(p) == {m \in oMoves : m.handle \notin p.acks}

\* ostreamer::parse of a packet: the acknowledged flights land, the writes
\* below the cursor complete, the edge is taken and will be acknowledged.
ParseOut(p) ==
    /\ oMoves' = StillOut(p)
    /\ \E c \in {oHead} \cup {m.handle : m \in oMoves} :
        /\ IsCursor(c, oMoves')
        /\ \E b \in {oBase} \cup oWriters :
            /\ IsMax(b, {oBase} \cup {e \in oWriters : e <= c})
            /\ oBase' = b
            /\ confirmed' = b
            /\ oWriters' = {e \in oWriters : e > b}
    /\ \/ p.edge = {} /\ UNCHANGED <<oRange, oAcks>>
       \/ \E e \in p.edge :
            /\ oRange' = Granted(e)
            /\ oAcks' = oAcks \cup {oRange'}

\* feed() at the writing endpoint.
FeedOut(p) ==
    /\ IF oLinked
       THEN ParseOut(p)
       ELSE UNCHANGED <<oMoves, oBase, oWriters, oRange, oAcks, confirmed>>
    /\ UNCHANGED <<oLinked, oHead, oTail, oData, oError, iVars, netVars,
                   flown, received, got, wrote>>

\* The fragments pulled from the queue when the head moves up to h: each ends
\* with its buffer or at h.
Pulled(h) ==
    LET inner == {c \in oData : oHead < c /\ c < h}
        begins == {oHead} \cup inner
    IN  {f \in [handle : begins, from : begins, to : {h} \cup inner] :
            /\ f.handle = f.from /\ f.from < f.to
            /\ \A c \in inner : c <= f.from \/ f.to <= c}

\* Mutant: the range of the peer is not consulted.
StopsAtAnyRange(h, r) ==
    LET left == r - Cost(Pulled(h))
    IN  /\ left >= 0
        /\ h = oHead \/ Cardinality(oMoves) + Cardinality(Pulled(h)) <= Swarm
        /\ h \in oData \/ h = oHead \/ left = 0
        /\ \/ h = oTail \/ left <= Overhead
           \/ Cardinality(oMoves) + Cardinality(Pulled(h)) >= Swarm

\* The second loop of ostreamer::imbue with r bytes of room stops at h: it
\* takes whole buffers, or up to the range or to the room, until the queue,
\* the swarm, the range or the room is exhausted.
StopsAt(h, r) ==
    LET left == r - Cost(Pulled(h))
        full == Cardinality(oMoves) + Cardinality(Pulled(h)) >= Swarm
    IN  /\ h <= oRange \/ h = oHead
        /\ left >= 0
        /\ h = oHead \/ Cardinality(oMoves) + Cardinality(Pulled(h)) <= Swarm
        /\ h \in oData \/ h = oHead \/ h = oRange \/ left = 0
        /\ h = oTail \/ h = oRange \/ left <= Overhead \/ full

\* The flight of a fragment sent for the first time, and of one sent again
\* (past the last attempt the exact number no longer matters).
AsFlight(f) ==
    [handle |-> f.handle, from |-> f.from, to |-> f.to, attempt |-> 1]

Again(m) == [m EXCEPT !.attempt = IF @ > MoveAttempts THEN @ ELSE @ + 1]

SendMoves(moves, acks) ==
    toReader' = IF moves = {} /\ acks = {}
                THEN toReader
                ELSE SendTo(toReader, [moves |-> moves, acks |-> acks], MoveCap)

\* ostreamer::imbue with r bytes of room, S being the flights that are sent
\* again: then fresh fragments, then edge acknowledgements.
ProduceOut(r, S) ==
    /\ oLinked
    /\ S \subseteq oMoves
    /\ \A m \in S : m.attempt # MoveAttempts
    /\ Cost(S) <= r
    /\ \E h \in oHead .. oTail :
        /\ StopsAt(h, r - Cost(S))
        /\ LET fresh == Pulled(h)
               left  == r - Cost(S) - Cost(fresh)
           IN  /\ oHead' = h
               /\ oData' = {c \in oData : c > h}
               /\ oMoves' =
                    (oMoves \ S)
                      \cup {Again(m) : m \in S}
                      \cup {AsFlight(f) : f \in fresh}
               /\ flown' = flown \cup fresh
               /\ \E A \in SUBSET oAcks :
                    /\ IsLowest(A, oAcks, left \div Overhead)
                    /\ oAcks' = oAcks \ A
                    /\ SendMoves({AsFragment(m) : m \in S} \cup fresh, A)
    /\ UNCHANGED <<oLinked, oTail, oBase, oWriters, oRange, oError, iVars,
                   toWriter, received, got, wrote, confirmed>>

\* ostreamer::imbue when the flight m is due once more than it may be: the
\* flights before it are sent, broken_pipe is posted and imbue returns.
ProduceBroken(r, S, m) ==
    /\ oLinked
    /\ S \subseteq oMoves
    /\ m \in oMoves
    /\ m.attempt = MoveAttempts
    /\ \A x \in S : x.attempt # MoveAttempts /\ x.handle < m.handle
    /\ Cost(S \cup {m}) <= r
    /\ oMoves' = (oMoves \ (S \cup {m}))
                   \cup {Again(x) : x \in S \cup {m}}
    /\ oError' = TRUE
    /\ SendMoves({AsFragment(x) : x \in S}, {})
    /\ UNCHANGED <<oLinked, oHead, oTail, oData, oBase, oWriters, oRange,
                   oAcks, iVars, toWriter, flown, received, got, wrote,
                   confirmed>>

\* mistake() at the writing endpoint, run by a posted on_error, by close(), by
\* a socket error or by the silence of a peer that is gone: ostreamer::error
\* reports to every writer how much of its buffer was transmitted.
MistakeOut ==
    /\ oLinked
    /\ oError \/ MayClose \/ ~iLinked
    /\ \E c \in {oHead} \cup {m.handle : m \in oMoves} :
        /\ IsCursor(c, oMoves)
        /\ confirmed' = IF oWriters # {} /\ c > oBase THEN c ELSE oBase
    /\ oLinked' = FALSE
    /\ oWriters' = {} /\ oMoves' = {} /\ oData' = {}
    /\ oHead' = 0 /\ oTail' = 0
    /\ oError' = FALSE
    /\ UNCHANGED <<oBase, oRange, oAcks, iVars, netVars, flown, received,
                   got, wrote>>

----------------------------------------------------------------------------
(* The istreamer.                                                          *)

\* Reading can advance to place n: the data is there without a gap and a
\* reader wants it.
CanReach(n, data, readers) ==
    \/ n = iHead
    \/ /\ n > iHead
       /\ \E e \in readers : n <= e
       /\ \A p \in iHead .. (n - 1) : \E f \in data : Holds(f, p)

\* Mutant: the rest goes back with the bytes that were already handed out.
RestUncut(f, n) == [handle |-> n, from |-> f.from, to |-> f.to]

\* Mutant: the rest goes back under the old handle.
RestInPlace(f, n) ==
    [handle |-> f.handle, from |-> f.from + (n - f.handle), to |-> f.to]

\* Mutant: the cut goes the wrong way.
RestBack(f, n) == [handle |-> n, from |-> f.from - n, to |-> f.to]

\* streambuf::pull of the front part of f: the rest goes back under handle n.
Rest(f, n) == [handle |-> n, from |-> f.from + (n - f.handle), to |-> f.to]

\* What stays of the data once the places below n are handed out.
Remaining(n, data) ==
    {f \in data : f.handle >= n}
      \cup {Rest(f, n) : f \in {g \in data : g.handle < n /\ n < End(g)}}

\* Mutant: the edge does not move with the reads.
EdgeStays(b) == iEdge

\* The edge after the reads between base and b are filled: a filled read frees
\* its bytes of the receive buffer.
EdgeAfter(b) == iEdge + (b - iBase)

\* istreamer::transmit over the given data and readers: everything readable is
\* handed to the readers, and each read that is filled moves the edge.
Transmit(data, readers, armed) ==
    \E n \in {iHead} \cup UNION {iHead .. e : e \in readers} :
        /\ CanReach(n, data, readers)
        /\ ~CanReach(n + 1, data, readers)
        /\ iHead' = n
        /\ iData' = Remaining(n, data)
        /\ got' = got \cup UNION {{<<p, ByteAt(f, p)>> :
                             p \in {q \in iHead .. (n - 1) : Holds(f, q)}}
                                  : f \in data}
        /\ iReaders' = {e \in readers : e > n}
        /\ \E b \in {iBase} \cup readers :
            /\ IsMax(b, {iBase} \cup {e \in readers : e <= n})
            /\ iBase' = b
            /\ iEdge' = EdgeAfter(b)
            /\ iArmed' = (armed \/ b > iBase)

\* read() into a buffer of n bytes: append() queues it and transmits.
Read(n) ==
    /\ iLinked
    /\ \E e \in {iBase} \cup iReaders :
        /\ IsMax(e, {iBase} \cup iReaders)
        /\ e + n <= MaxBytes
        /\ Transmit(iData, iReaders \cup {e + n}, iArmed)
    /\ UNCHANGED <<iLinked, iTail, iAcks, iError, oVars, netVars, flown,
                   received, wrote, confirmed>>

\* streambuf::map refuses a fragment beyond the receive buffer.
Overruns(f) == f.handle >= iTail /\ End(f) - iHead > ReceiveBuffer

\* istreamer::parse of a packet: its moves, in the order of their handles up
\* to one that overruns, are mapped and will be acknowledged; the
\* acknowledgement of the current edge disarms it; then transmit().
ParseIn(p) ==
    LET over  == {f \in p.moves : Overruns(f)}
        taken == {f \in p.moves : \A g \in over : f.handle < g.handle}
        new   == {f \in taken : /\ f.handle >= iHead
                                /\ \A g \in iData : g.handle # f.handle}
        data  == iData \cup new
    IN  /\ iError' = (iError \/ over # {})
        /\ iAcks' = iAcks \cup {f.handle : f \in taken}
        /\ \/ new = {} /\ iTail' = iTail
           \/ /\ new # {}
              /\ \E f \in data : /\ \A g \in data : g.handle <= f.handle
                                 /\ iTail' = End(f)
        /\ received' = received \cup UNION {Bytes(f) : f \in new}
        /\ Transmit(data, iReaders,
                    iArmed /\ ~(over = {} /\ iEdge \in p.acks))

\* feed() at the reading endpoint.
FeedIn(p) ==
    /\ IF iLinked
       THEN ParseIn(p)
       ELSE UNCHANGED <<iHead, iTail, iData, iAcks, iBase, iReaders, iEdge,
                        iArmed, iError, received, got>>
    /\ UNCHANGED <<iLinked, oVars, netVars, flown, wrote, confirmed>>

\* istreamer::imbue with r bytes of room: acknowledgements, then the edge if
\* it is armed, there is room and its repeat time has come (due).
ProduceIn(r, due) ==
    /\ iLinked
    /\ \E A \in SUBSET iAcks :
        /\ IsLowest(A, iAcks, r \div Overhead)
        /\ iAcks' = iAcks \ A
        /\ LET fits == r - Overhead * Cardinality(A) >= Overhead
               edge == IF iArmed /\ due /\ fits THEN {iEdge} ELSE {}
           IN  toWriter' = IF A = {} /\ edge = {}
                           THEN toWriter
                           ELSE SendTo(toWriter, [acks |-> A, edge |-> edge],
                                       EchoCap)
    /\ UNCHANGED <<iLinked, iHead, iTail, iData, iBase, iReaders, iEdge,
                   iArmed, iError, oVars, toReader, flown, received, got,
                   wrote, confirmed>>

\* mistake() at the reading endpoint: istreamer::error fails every reader.
MistakeIn ==
    /\ iLinked
    /\ iError \/ MayClose \/ ~oLinked
    /\ iLinked' = FALSE
    /\ iReaders' = {} /\ iAcks' = {} /\ iData' = {}
    /\ iHead' = 0
    /\ iError' = FALSE
    /\ UNCHANGED <<iTail, iBase, iEdge, iArmed, oVars, netVars, flown,
                   received, got, wrote, confirmed>>

----------------------------------------------------------------------------
Next ==
    \/ \E n \in WriteSizes : Write(n) \/ WriteRefused(n)
    \/ \E n \in ReadSizes : Read(n)
    \/ \E r \in Rooms, S \in SUBSET oMoves : ProduceOut(r, S)
    \/ \E r \in Rooms, S \in SUBSET oMoves, m \in oMoves :
            ProduceBroken(r, S, m)
    \/ \E r \in Rooms, due \in BOOLEAN : ProduceIn(r, due)
    \/ \E p \in toReader : FeedIn(p) \/ LoseMoves(p)
    \/ \E p \in toWriter : FeedOut(p) \/ LoseEcho(p)
    \/ MistakeOut
    \/ MistakeIn

Spec == Init /\ [][Next]_vars

----------------------------------------------------------------------------
(* Properties.                                                             *)

\* The type invariant: positions are natural numbers, packets and fragments
\* have their fields.
TypeOK ==
    /\ oLinked \in BOOLEAN /\ oError \in BOOLEAN
    /\ oHead \in Nat /\ oTail \in Nat /\ oBase \in Nat /\ oRange \in Nat
    /\ oData \subseteq Nat /\ oWriters \subseteq Nat /\ oAcks \subseteq Nat
    /\ oMoves \subseteq Flight
    /\ iLinked \in BOOLEAN /\ iError \in BOOLEAN /\ iArmed \in BOOLEAN
    /\ iHead \in Nat /\ iTail \in Nat /\ iBase \in Nat /\ iEdge \in Nat
    /\ iData \subseteq Fragment
    /\ iAcks \subseteq Nat /\ iReaders \subseteq Nat
    /\ toReader \subseteq [moves : SUBSET Fragment, acks : SUBSET Nat]
    /\ toWriter \subseteq [acks : SUBSET Nat, edge : SUBSET Nat]
    /\ flown \subseteq Fragment
    /\ received \subseteq Nat
    /\ got \subseteq Nat \X Nat
    /\ wrote \in Nat /\ confirmed \in Nat

\* Flow control: however edges and moves are lost, repeated or reordered, the
\* istreamer never meets a fragment beyond its receive buffer, so streambuf::map
\* never fails the channel of an honest peer with no_buffer_space.
NoOverrun == ~iError

\* The window as the sender sees it never exceeds what the receiver granted,
\* and nothing unread exceeds the receive buffer: the subtraction
\* m_range - m_buffer.head() in ostreamer::imbue never wraps around.
WindowSafety ==
    /\ oHead <= oRange
    /\ oRange <= iEdge
    /\ \A f \in iData : iLinked => End(f) - iHead <= ReceiveBuffer

\* Every byte a read() handler gets is the byte written at that place, and the
\* places are handed out without a gap, whatever fragments were cut, resent,
\* stored out of order and pulled in parts.
StreamIntegrity ==
    /\ \A x \in got : x[1] = x[2]
    /\ \A x \in got : \A q \in 0 .. x[1] : <<q, q>> \in got

\* A write() handler is told that bytes are transmitted (success, or the count
\* that comes with an error) only if the peer's istreamer has stored them.
ConfirmedIsReceived ==
    /\ confirmed <= wrote
    /\ \A b \in 0 .. (confirmed - 1) : b \in received

\* Nothing is forgotten: a byte that left the queue of the writing endpoint is
\* in flight or in the peer's hands, as long as the channel is linked.
NothingForgotten ==
    oLinked => \A b \in 0 .. (oHead - 1) :
                  \/ b \in received
                  \/ \E m \in oMoves : b \in Bytes(m)

\* The fragments the istreamer holds never overlap, lie at or above its head
\* and below its tail, and each sits under the place of its first byte.
FragmentsTile ==
    iLinked =>
      /\ \A f \in iData : iHead <= f.handle /\ f.handle < End(f)
                            /\ End(f) <= iTail /\ f.handle = f.from
      /\ \A f, g \in iData : f = g \/ End(f) <= g.handle \/ End(g) <= f.handle

\* What was handed to the application or reported to it is never taken back:
\* the edge, the range, the deliveries and the confirmations only grow.
Monotone ==
    [][/\ oRange <= oRange' /\ iEdge <= iEdge'
       /\ got \subseteq got' /\ received \subseteq received'
       /\ confirmed <= confirmed']_vars

----------------------------------------------------------------------------
(* The inductive invariant behind NoOverrun, WindowSafety, StreamIntegrity *)
(* and ConfirmedIsReceived.                                                *)

\* Everything sent, stored or on its way lies below the range, the range below
\* the edge, and the edge a receive buffer above the last completed read.
FlowInv ==
    /\ oHead <= oRange
    /\ oRange <= iEdge
    /\ iEdge = ReceiveBuffer + iBase
    /\ iLinked => iBase <= iHead
    /\ \A p \in toWriter : \A e \in p.edge : e <= iEdge
    /\ \A p \in toReader : \A f \in p.moves :
          f.handle = f.from /\ f.to <= oRange
    /\ \A m \in oMoves : m.handle = m.from /\ m.to <= oRange
    /\ \A f \in iData : f.handle = f.from /\ f.to <= oRange
    /\ iError = FALSE

\* The readers of a linked channel have exactly the places below the head.
DeliveryInv ==
    /\ StreamIntegrity
    /\ iLinked => /\ \A q \in 0 .. (iHead - 1) : <<q, q>> \in got
                  /\ \A x \in got : x[1] < iHead

\* The fragments ever put in flight are disjoint, and all that travels is one
\* of them.
FlightInv ==
    /\ \A f \in flown : f.handle = f.from
    /\ oLinked => \A f \in flown : f.to <= oHead
    /\ \A f, g \in flown : f = g \/ f.to <= g.from \/ g.to <= f.from
    /\ \A m \in oMoves : AsFragment(m) \in flown
    /\ \A p \in toReader : p.moves \subseteq flown

\* The fragment with handle a is in the hands of the reading endpoint.
Landed(a) == \E f \in flown : f.handle = a /\ Bytes(f) \subseteq received

\* A fragment arrives as a whole, and only what arrived is acknowledged,
\* handed out or confirmed.
CustodyInv ==
    /\ \A b \in received : \E f \in flown : b \in Bytes(f)
    /\ \A f \in flown : \A b \in Bytes(f) :
          b \in received => Bytes(f) \subseteq received
    /\ iLinked => \A q \in 0 .. (iHead - 1) : q \in received
    /\ \A f \in iData : Bytes(f) \subseteq received
    /\ \A a \in iAcks : Landed(a)
    /\ \A p \in toWriter : \A a \in p.acks : Landed(a)
    /\ NothingForgotten

\* The books of the writing endpoint.
WriterInv ==
    /\ oLinked => /\ oHead <= oTail /\ wrote = oTail /\ confirmed = oBase
                  /\ \A e \in oWriters : e <= oTail
    /\ ConfirmedIsReceived

IndInv ==
    TypeOK /\ FlowInv /\ DeliveryInv /\ FlightInv /\ CustodyInv /\ WriterInv

----------------------------------------------------------------------------
(* The promise of the channel, and liveness.                               *)

Abstract == INSTANCE ByteStream
              WITH Window <- ReceiveBuffer, written <- wrote,
                   arrived <- received, delivered <- got

\* The two streamers over an unreliable network implement the byte stream.
ImplementsByteStream == Abstract!Spec

\* The step of produce() at the writing endpoint, with every flight due and
\* its packet not lost at once.
ProducesOut ==
    \E r \in Rooms, S \in SUBSET oMoves :
        \/ /\ Cardinality(toReader) < MoveCap
           /\ \/ oMoves = {}
              \/ \E m \in S : IsMin(m.handle, {x.handle : x \in oMoves})
           /\ ProduceOut(r, S)
        \/ \E m \in oMoves : ProduceBroken(r, S, m)

\* The same at the reading endpoint.
ProducesIn ==
    /\ Cardinality(toWriter) < EchoCap
    /\ \E r \in Rooms : ProduceIn(r, TRUE)

\* Both loops go on, a posted or overdue error is run, the application keeps
\* reading, and the network is fair: it loses, but not everything for ever.
Fairness ==
    /\ SF_vars(ProducesOut) /\ SF_vars(ProducesIn)
    /\ SF_vars(\E p \in toReader : FeedIn(p))
    /\ SF_vars(\E p \in toWriter : FeedOut(p))
    /\ WF_vars(\E p \in toReader : LoseMoves(p))
    /\ WF_vars(\E p \in toWriter : LoseEcho(p))
    /\ WF_vars(MistakeOut) /\ WF_vars(MistakeIn)
    /\ WF_vars(\E n \in ReadSizes : Read(n))

FairSpec == Spec /\ Fairness

\* Every write() is answered: its bytes get through, or move_attempts() run
\* out and the handler is called with an error.
WritesAnswered ==
    \A e \in 1 .. MaxBytes : e \in oWriters ~> e \notin oWriters

\* "read ... calls back when the passed buffer is full or an error has
\* occurred" (README.md:43): a read() for bytes that were written is answered.
ReadsAnswered ==
    \A e \in 1 .. MaxBytes :
        (e \in iReaders /\ e <= wrote) ~> e \notin iReaders

=============================================================================
