---------------------------- MODULE PacketFormat ----------------------------
(***************************************************************************)
(* The section list of a UDP packet (udp/proto.h) and the chain of imbue   *)
(* calls that writes it: connector, istreamer and ostreamer each find the  *)
(* end of the list in the packet buffer, append their sections and mark    *)
(* the new end.  The buffer is the channel's m_buffer, used for packet     *)
(* after packet and masked in place, so what lies behind the marks is      *)
(* anything.  A cell stands for a header field, a handle, a value or a     *)
(* byte of data; a header is a type and a length.  The packet header, of   *)
(* fixed size, is left out.  The operations of the buffer throw where they *)
(* would leave it, in functions that are noexcept: the program ends there. *)
(***************************************************************************)
EXTENDS Integers, Sequences, SequencesExt

CONSTANTS
    Size,       \* cells of the buffer behind the packet header
    Stale,      \* contents of the buffer left by earlier packets
    Data,       \* values, handles and data of sections
    MaxChunk,   \* bound: cells of data in a move
    MaxEach     \* bound: sections appended by one loop of the streamers

ASSUME FormatAssumption ==
    /\ Size \in Nat /\ Stale \subseteq Nat /\ Data \subseteq Nat
    /\ MaxChunk \in Nat /\ MaxEach \in Nat

\* The types, as many as the layout tells apart: move, the numerals (ping, edge
\* and the echoes with a value) and the simple ones (link, tear, their echoes).
Move == 1
Numeral == 2
Simple == 3

HeaderSize == 2
HandleSize == 1
ValueSize == 1

\* m_jobs of the connector, in the order of its keys: link, link|echo, tear,
\* tear|echo, ping, ping|echo.
Jobs == <<Simple, Simple, Simple, Simple, Numeral, Numeral>>
JobSize(type) == IF type = Numeral THEN ValueSize ELSE 0

VARIABLES
    mem,    \* m_buffer behind the packet header
    stage,  \* what produce() does next
    sect,   \* where the section cursor is
    count,  \* the last job the connector wrote, the sections a streamer appended
    size,   \* the size of the packet after trim()
    broken, \* the ostreamer gave up with broken_pipe
    fault,  \* what threw in a noexcept function: a write, a walk over the list
    log,    \* history: the sections appended
    stale   \* history: the buffer as produce() found it

vars == <<mem, stage, sect, count, size, broken, fault, log, stale>>

Stages == {"start", "connector", "istreamer", "ostreamer", "acks", "trim", "send"}

TypeOK ==
    /\ mem \in [1 .. Size -> Nat] /\ stale \in [1 .. Size -> Nat]
    /\ stage \in Stages /\ count \in Nat
    /\ sect \in 1 .. (Size + 1) /\ size \in 0 .. Size
    /\ broken \in BOOLEAN /\ fault \in {"none", "write", "walk"}
    /\ log \in Seq([type : {Move, Numeral, Simple}, value : Seq(Nat)])

-----------------------------------------------------------------------------
\* section and packet, in a buffer m.

\* section::type() and length() at p, in a packet that ends at end.
Type(m, p, end) == IF p + 1 <= end THEN m[p] ELSE 0
Length(m, p, end) == IF p + 1 <= end THEN m[p + 1] ELSE 0

\* mutable_buffer::crop() of n cells from p throws.
CropThrows(p, n) == p + n > Size + 1

\* The walk of packet::stub() from a section on: the first place without a
\* section; Size + 2 if a crop() throws on the way.
StubFrom(m, from) ==
    LET walk[p \in 1 .. (Size + 1)] ==
            IF p + 1 > Size \/ m[p] = 0 THEN p
            ELSE IF CropThrows(p, HeaderSize + m[p + 1]) THEN Size + 2
            ELSE walk[p + HeaderSize + m[p + 1]]
    IN  walk[from]

\* Mutant: the list is left without an end.
NotEnded(m, p) == m

\* section::stub(): as much of a zero header as fits.
Ended(m, p) ==
    [c \in DOMAIN m |-> IF c \in p .. (p + HeaderSize - 1) THEN 0 ELSE m[c]]

\* simple(), numeral() and snippet(): header and value.
Put(m, p, s) ==
    LET cells == <<s.type, Len(s.value)>> \o s.value
    IN  [c \in DOMAIN m |->
            IF c - p + 1 \in DOMAIN cells THEN cells[c - p + 1] ELSE m[c]]

\* section::valid().
Valid(m, p, end) ==
    \/ /\ Type(m, p, end) = Numeral
       /\ p + HeaderSize + ValueSize <= end + 1 /\ Length(m, p, end) = ValueSize
    \/ Type(m, p, end) = Simple /\ Length(m, p, end) = 0
    \/ /\ Type(m, p, end) = Move
       /\ p + HeaderSize + HandleSize <= end + 1
       /\ Length(m, p, end) <= end + 1 - p - HeaderSize

\* The sections parse() meets from one on, in a packet of end cells: body(),
\* value() and advance() as long as they are valid.
Parse(m, from, end) ==
    LET at[p \in 1 .. (Size + 1)] ==
            IF ~Valid(m, p, end) THEN <<>>
            ELSE <<[type |-> Type(m, p, end),
                    value |-> SubSeq(m, p + HeaderSize,
                                     p + HeaderSize + Length(m, p, end) - 1)]>>
                 \o at[p + HeaderSize + Length(m, p, end)]
    IN  at[from]

-----------------------------------------------------------------------------
\* produce().

\* Any earlier packet, masked or not.
Init ==
    /\ mem \in [1 .. Size -> Stale] /\ stale = mem
    /\ stage = "start" /\ sect = 1 /\ count = 0 /\ size = 0
    /\ broken = FALSE /\ fault = "none" /\ log = <<>>

\* The room behind the cursor.
Room == Size + 1 - sect

\* set() or fill() threw.
WriteThrows ==
    /\ fault' = "write"
    /\ UNCHANGED <<mem, stage, sect, count, size, broken, log, stale>>

\* Mutant: set() of a value is not checked.
FitsHeader(s) == HeaderSize <= Room

\* The section s can be written.
Fits(s) == HeaderSize + Len(s.value) <= Room

\* A section is written, and the cursor advances.
Append1(s, n) ==
    IF Fits(s)
    THEN /\ mem' = Put(mem, sect, s)
         /\ sect' = sect + HeaderSize + Len(s.value)
         /\ count' = n
         /\ log' = Append(log, s)
         /\ UNCHANGED <<stage, size, broken, fault, stale>>
    ELSE WriteThrows

\* The start of the next imbue: pack.stub() in the buffer m.
Goto(next, m) ==
    /\ stage' = next
    /\ count' = 0
    /\ IF StubFrom(m, 1) > Size + 1 THEN fault' = "walk" /\ UNCHANGED sect
                                    ELSE sect' = StubFrom(m, 1) /\ UNCHANGED fault

\* connector::imbue clears the first header; on a dead channel it returns.
ConnectorStarts ==
    /\ stage = "start"
    /\ IF Size < HeaderSize THEN WriteThrows
       ELSE /\ mem' = Ended(mem, 1)
            /\ \E next \in {"connector", "istreamer", "trim"} : Goto(next, mem')
            /\ UNCHANGED <<size, broken, log, stale>>

\* The jobs that are due, one after the other: the loop looks for the room of a
\* header, also before a ping.
ConnectorAppends ==
    /\ stage = "connector" /\ Room >= HeaderSize
    /\ \E job \in (count + 1) .. Len(Jobs) :
        \E v \in [1 .. JobSize(Jobs[job]) -> Data] :
            Append1([type |-> Jobs[job], value |-> v], job)

\* Mutant: a numeral needs the room of a header only.
NumeralFitsHeader == Room >= HeaderSize

\* The check of the loops of the streamers.
NumeralFits == Room >= HeaderSize + ValueSize

AppendNumeral ==
    /\ count < MaxEach /\ NumeralFits
    /\ \E v \in Data : Append1([type |-> Numeral, value |-> <<v>>], count + 1)

\* istreamer::imbue: acknowledgements and the edge.
IstreamerAppends == stage = "istreamer" /\ AppendNumeral

\* An imbue marks the end; the next one, or trim() where the channel is not
\* linked or connecting, looks for it.
ImbueEnds ==
    /\ \E step \in {<<"connector", "istreamer">>, <<"connector", "trim">>,
                    <<"istreamer", "ostreamer">>, <<"acks", "trim">>} :
        /\ stage = step[1]
        /\ mem' = Ended(mem, sect)
        /\ Goto(step[2], mem')
    /\ UNCHANGED <<size, broken, log, stale>>

\* There is room for a flight.
MoveFits == Room > HeaderSize + HandleSize

\* ostreamer::imbue: flights again and new ones.
OstreamerMoves ==
    /\ stage = "ostreamer" /\ count < MaxEach /\ MoveFits
    /\ \E n \in 1 .. MaxChunk :
        /\ n <= Room - HeaderSize - HandleSize
        /\ \E v \in [1 .. (HandleSize + n) -> Data] :
                Append1([type |-> Move, value |-> v], count + 1)

\* A flight has no attempt left: imbue returns where it is, without an end of the
\* list behind the flights it sent again.
OstreamerBreaks ==
    /\ stage = "ostreamer" /\ MoveFits
    /\ stage' = "trim" /\ broken' = TRUE
    /\ UNCHANGED <<mem, sect, count, size, fault, log, stale>>

OstreamerAcks ==
    /\ stage = "ostreamer"
    /\ stage' = "acks" /\ count' = 0
    /\ UNCHANGED <<mem, sect, size, broken, fault, log, stale>>

OstreamerAppends == stage = "acks" /\ AppendNumeral

\* packet::trim(): another walk, which throws or gives the size.
Trim ==
    /\ stage = "trim"
    /\ IF StubFrom(mem, 1) > Size + 1
       THEN fault' = "walk" /\ UNCHANGED <<stage, size>>
       ELSE /\ size' = StubFrom(mem, 1) - 1
            /\ stage' = "send"
            /\ UNCHANGED fault
    /\ UNCHANGED <<mem, sect, count, broken, log, stale>>

Next ==
    /\ fault = "none"
    /\ \/ ConnectorStarts \/ ConnectorAppends \/ ImbueEnds \/ IstreamerAppends
       \/ OstreamerMoves \/ OstreamerBreaks \/ OstreamerAcks \/ OstreamerAppends
       \/ Trim

Spec == Init /\ [][Next]_vars

-----------------------------------------------------------------------------
\* The ostreamer broke off behind a flight that it had sent again: the end of the
\* list is not marked.
Unmarked == broken /\ count > 0

\* Whatever earlier packets left in the buffer, the receiver parses exactly the
\* sections that were appended, zero values and data included; behind an end
\* that is not marked it parses, as sections of this packet, what the earlier
\* packets left there, and that is all the harm to a packet that is sent.
FormatKept ==
    stage = "send" =>
        Parse(mem, 1, size) =
            log \o (IF Unmarked THEN Parse(stale, sect, size) ELSE <<>>)

\* The cells of the connector's jobs.
AllJobs == 4 * HeaderSize + 2 * (HeaderSize + ValueSize)

\* The program ends by an exception of the buffer in two cases only.  A walk over
\* the list leaves the buffer in trim() behind an end that is not marked, where
\* the earlier packets left a way out of it.  A write leaves the buffer in the
\* connector, which does not look for the room of a ping, if the packet cannot
\* hold all its jobs; never in the streamers.
FaultsKnown ==
    /\ fault = "walk" =>
          stage = "trim" /\ Unmarked /\ StubFrom(stale, sect) > Size + 1
    /\ fault = "write" => stage \in {"start", "connector"} /\ Size < AllJobs

=============================================================================
