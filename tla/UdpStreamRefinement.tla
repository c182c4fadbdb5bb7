------------------------ MODULE UdpStreamRefinement ------------------------
(***************************************************************************)
(* The two streamers over an unreliable network implement the byte stream  *)
(* of ByteStream, nothing reported to an application is taken back, and    *)
(* the fragments that the istreamer stores tile.  The invariant IndInv of  *)
(* UdpStreamProofs is strengthened by what these need: all that was ever   *)
(* sent was written, and what is stored is the end of something sent.      *)
(***************************************************************************)
EXTENDS UdpStreamProofs

\* Everything that was ever put in flight had been written, also when the
\* writing endpoint has forgotten its own positions.
FlownWritten == \A f \in flown : f.to <= wrote

\* The fragments in the buffer of a linked istreamer lie between its head and
\* its tail and are disjoint; each is a fragment that was sent, of which only
\* the one at the head may have lost its beginning to a reader.
TileInv ==
    iLinked =>
      /\ \A f \in iData :
            /\ iHead <= f.from /\ f.to <= iTail
            /\ \E g \in flown : /\ g.from <= f.from /\ f.to = g.to
                                /\ f.from = g.from \/ f.from = iHead
      /\ \A f, g \in iData : f = g \/ f.to <= g.from \/ g.to <= f.from

StrongInv == IndInv /\ FlownWritten /\ TileInv

----------------------------------------------------------------------------
\* Only write() changes what was written and only ostreamer::imbue puts
\* fragments in flight, up to the end of the queue.
LEMMA FlownWrittenStep ==
    ASSUME IndInv, FlownWritten, [Next]_vars
    PROVE  FlownWritten'
<1> wrote \in Nat /\ flown \subseteq Fragment
  BY DEF IndInv, TypeOK
<1>1. ASSUME NEW n \in WriteSizes, Write(n) PROVE FlownWritten'
  <2>1. n \in Nat
    BY ApplicationAssumption
  <2> QED
    BY <1>1, <2>1 DEF Write, FlownWritten, Fragment
<1>2. ASSUME NEW r \in Rooms, NEW S \in SUBSET oMoves, ProduceOut(r, S)
      PROVE  FlownWritten'
  <2>1. PICK h \in oHead .. oTail : flown' = flown \cup Pulled(h)
    BY <1>2 DEF ProduceOut
  <2>2. oHead \in Nat /\ oTail \in Nat /\ wrote = oTail /\ wrote' = wrote
    BY <1>2 DEF ProduceOut, IndInv, TypeOK, WriterInv
  <2>3. h \in Nat /\ oHead <= h /\ h <= wrote
    BY <2>2
  <2>4. \A f \in Pulled(h) : f.to <= h /\ f \in Fragment
    BY <2>3, PulledShape DEF IndInv
  <2>5. \A f \in Pulled(h) : f.to <= wrote
    BY <2>3, <2>4 DEF Fragment
  <2> QED
    BY <2>1, <2>2, <2>5 DEF FlownWritten
<1>3. CASE UNCHANGED <<flown, wrote>>
  BY <1>3 DEF FlownWritten
<1>4. ASSUME NEW p \in toReader, FeedIn(p) \/ LoseMoves(p)
      PROVE  UNCHANGED <<flown, wrote>>
  BY <1>4 DEF FeedIn, LoseMoves
<1>5. ASSUME NEW p \in toWriter, FeedOut(p) \/ LoseEcho(p)
      PROVE  UNCHANGED <<flown, wrote>>
  BY <1>5 DEF FeedOut, LoseEcho
<1>6. ASSUME \/ \E n \in WriteSizes : WriteRefused(n)
             \/ \E n \in ReadSizes : Read(n)
             \/ \E r \in Rooms, S \in SUBSET oMoves, m \in oMoves :
                   ProduceBroken(r, S, m)
             \/ \E r \in Rooms, due \in BOOLEAN : ProduceIn(r, due)
             \/ MistakeOut \/ MistakeIn \/ UNCHANGED vars
      PROVE  UNCHANGED <<flown, wrote>>
  BY <1>6 DEF WriteRefused, Read, ProduceBroken, ProduceIn, MistakeOut,
              MistakeIn, vars
<1> QED
  BY <1>1, <1>2, <1>3, <1>4, <1>5, <1>6 DEF Next

----------------------------------------------------------------------------
\* What the data a linked istreamer transmits looks like: above the head, below
\* the tail, disjoint, and the ends of fragments that were sent.
Tiled(data, head, tail) ==
    /\ \A f \in data :
          /\ head <= f.from /\ f.to <= tail
          /\ \E g \in flown : /\ g.from <= f.from /\ f.to = g.to
                              /\ f.from = g.from \/ f.from = head
    /\ \A f, g \in data : f = g \/ f.to <= g.from \/ g.to <= f.from

\* istreamer::transmit keeps the tiling: streambuf::pull cuts at most the one
\* fragment that the new head falls into.
LEMMA TransmitTiles ==
    ASSUME TypeOK, NEW data \in SUBSET Fragment, NEW readers \in SUBSET Nat,
           NEW armed, NEW tail \in Nat,
           \A f \in data : f.handle = f.from,
           Tiled(data, iHead, tail), Transmit(data, readers, armed)
    PROVE  Tiled(iData', iHead', tail)
<1>1. iHead \in Nat /\ flown \subseteq Fragment
  BY DEF TypeOK
<1>2. PICK n \in {iHead} \cup UNION {iHead .. e : e \in readers} :
         iHead' = n /\ iData' = Remaining(n, data)
  BY DEF Transmit
<1>3. n \in Nat /\ iHead <= n
  BY <1>1, <1>2
<1>4. ASSUME NEW f \in data
      PROVE  /\ f.handle \in Nat /\ f.from \in Nat /\ f.to \in Nat
             /\ f.from < f.to /\ f.handle = f.from /\ End(f) = f.to
  BY DEF Fragment, End, Size
\* the origin of what remains
<1>5. ASSUME NEW f \in iData'
      PROVE  \E g \in data : \/ f = g /\ n <= g.from
                             \/ /\ g.from < n /\ n < g.to
                                /\ f = [handle |-> n, from |-> n, to |-> g.to]
  <2>1. CASE f \in data /\ f.handle >= n
    BY <1>3, <1>4, <2>1
  <2>2. CASE \E g \in data : g.handle < n /\ n < End(g) /\ f = Rest(g, n)
    <3>1. PICK g \in data : g.handle < n /\ n < End(g) /\ f = Rest(g, n)
      BY <2>2
    <3> QED
      BY <1>3, <1>4, <3>1 DEF Rest
  <2> QED
    BY <1>2, <2>1, <2>2 DEF Remaining
<1>6. ASSUME NEW f \in iData'
      PROVE  /\ n <= f.from /\ f.to <= tail
             /\ \E g \in flown : /\ g.from <= f.from /\ f.to = g.to
                                 /\ f.from = g.from \/ f.from = n
  <2>1. PICK g \in data : \/ f = g /\ n <= g.from
                          \/ /\ g.from < n /\ n < g.to
                             /\ f = [handle |-> n, from |-> n, to |-> g.to]
    BY <1>5
  <2>2. PICK x \in flown : /\ g.from >= x.from /\ g.to = x.to
                           /\ g.from = x.from \/ g.from = iHead
    BY <1>1 DEF Tiled, Fragment
  <2>3. x.from \in Nat /\ x.to \in Nat
    BY <1>1, <2>2 DEF Fragment
  <2>4. iHead <= g.from /\ g.to <= tail
    BY DEF Tiled
  <2>5. CASE f = g /\ n <= g.from
    BY <1>1, <1>3, <1>4, <2>2, <2>3, <2>4, <2>5
  <2>6. CASE g.from < n /\ f = [handle |-> n, from |-> n, to |-> g.to]
    <3>1. f.from = n /\ f.to = g.to
      BY <2>6
    <3> QED
      BY <1>3, <1>4, <2>2, <2>3, <2>4, <2>6, <3>1
  <2> QED
    BY <2>1, <2>5, <2>6
<1>7. ASSUME NEW f \in iData', NEW g \in iData'
      PROVE  f = g \/ f.to <= g.from \/ g.to <= f.from
  <2>1. PICK x \in data : \/ f = x /\ n <= x.from
                          \/ /\ x.from < n /\ n < x.to
                             /\ f = [handle |-> n, from |-> n, to |-> x.to]
    BY <1>5
  <2>2. PICK y \in data : \/ g = y /\ n <= y.from
                          \/ /\ y.from < n /\ n < y.to
                             /\ g = [handle |-> n, from |-> n, to |-> y.to]
    BY <1>5
  <2>3. x = y \/ x.to <= y.from \/ y.to <= x.from
    BY DEF Tiled
  <2>4. /\ f.to = x.to /\ (f.from = x.from \/ (f.from = n /\ x.from < n))
        /\ g.to = y.to /\ (g.from = y.from \/ (g.from = n /\ y.from < n))
    BY <2>1, <2>2
  <2>5. CASE x = y
    BY <2>1, <2>2, <2>5, <1>3, <1>4
  <2>6. CASE x.to <= y.from
    BY <2>1, <2>2, <2>4, <2>6, <1>3, <1>4
  <2>7. CASE y.to <= x.from
    BY <2>1, <2>2, <2>4, <2>7, <1>3, <1>4
  <2> QED
    BY <2>3, <2>5, <2>6, <2>7
<1> QED
  BY <1>2, <1>6, <1>7 DEF Tiled

\* A step of istreamer::parse or read() keeps the tiling: a new fragment is one
\* that was sent, and no part of it is stored under another handle.
LEMMA TileStep ==
    ASSUME IndInv, IndInv', TileInv, [Next]_vars
    PROVE  TileInv'
<1> USE DEF IndInv
<1>1. iHead \in Nat /\ iTail \in Nat /\ flown \subseteq Fragment
  BY DEF TypeOK
<1>2. iData \in SUBSET Fragment /\ \A f \in iData : f.handle = f.from
  BY DEF TypeOK, FlowInv
<1>3. ASSUME NEW n \in ReadSizes, Read(n) PROVE TileInv'
  <2>1. PICK e \in {iBase} \cup iReaders :
           Transmit(iData, iReaders \cup {e + n}, iArmed)
    BY <1>3 DEF Read
  <2>2. iLinked /\ UNCHANGED <<iTail, flown>>
    BY <1>3 DEF Read
  <2>3. iReaders \cup {e + n} \in SUBSET Nat
    BY ApplicationAssumption DEF TypeOK
  <2>4. Tiled(iData, iHead, iTail)
    BY <2>2 DEF TileInv, Tiled
  <2>5. Tiled(iData', iHead', iTail)
    BY <1>1, <1>2, <2>1, <2>3, <2>4, TransmitTiles
  <2> QED
    BY <2>2, <2>5 DEF TileInv, Tiled
<1>4. ASSUME NEW p \in toReader, FeedIn(p), iLinked PROVE TileInv'
  <2> DEFINE data == iData \cup Fresh(p)
  <2>1. \A f \in p.moves : /\ f \in Fragment /\ f \in flown
                           /\ f.handle = f.from
    BY <1>4, FeedInEffect
  <2>2. Fresh(p) \subseteq p.moves
    BY DEF Fresh
  <2>3. /\ data \in SUBSET Fragment
        /\ \A f \in data : f.handle = f.from /\ End(f) = f.to
    <3>1. data \in SUBSET Fragment /\ \A f \in data : f.handle = f.from
      BY <1>2, <2>1, <2>2
    <3> QED
      BY <3>1 DEF End, Size, Fragment
  \* a new fragment is disjoint from a stored one
  <2>4. ASSUME NEW f \in Fresh(p), NEW g \in iData
        PROVE  f.to <= g.from \/ g.to <= f.from
    <3>1. PICK x \in flown : /\ x.from <= g.from /\ g.to = x.to
                             /\ g.from = x.from \/ g.from = iHead
      BY <1>4 DEF TileInv
    <3>2. f \in flown /\ f.handle = f.from /\ g.handle = g.from
      BY <1>2, <2>1, <2>2
    <3>3. iHead <= f.from /\ g.from # f.from
      BY <1>1, <3>2 DEF Fresh
    <3>4. f = x \/ f.to <= x.from \/ x.to <= f.from
      BY <3>1, <3>2 DEF FlightInv
    <3>5. /\ f.from \in Nat /\ f.to \in Nat /\ g.from \in Nat /\ g.to \in Nat
          /\ x.from \in Nat /\ x.to \in Nat
      BY <1>1, <1>2, <3>1, <3>2 DEF Fragment
    <3>6. f # x
      BY <1>1, <3>1, <3>3, <3>5
    <3> QED
      BY <3>1, <3>4, <3>5, <3>6
  <2>5. ASSUME NEW f \in data, NEW g \in data
        PROVE  f = g \/ f.to <= g.from \/ g.to <= f.from
    <3>1. CASE f \in iData /\ g \in iData
      BY <3>1, <1>4 DEF TileInv
    <3>2. CASE f \in Fresh(p) /\ g \in Fresh(p)
      BY <3>2, <2>1, <2>2 DEF FlightInv
    <3>3. CASE f \in Fresh(p) /\ g \in iData
      BY <3>3, <2>4
    <3>4. CASE f \in iData /\ g \in Fresh(p)
      BY <3>4, <2>4
    <3> QED
      BY <3>1, <3>2, <3>3, <3>4
  <2>6. ASSUME NEW f \in data PROVE f.to <= iTail'
    <3>1. CASE Fresh(p) = {} /\ iTail' = iTail
      BY <3>1, <1>4 DEF TileInv
    <3>2. CASE \E g \in data : /\ \A x \in data : x.handle <= g.handle
                               /\ iTail' = End(g)
      <4>1. PICK g \in data : /\ \A x \in data : x.handle <= g.handle
                              /\ iTail' = End(g)
        BY <3>2
      <4>2. iTail' = g.to /\ f.from <= g.from
        BY <4>1, <2>3
      <4>3. f = g \/ f.to <= g.from \/ g.to <= f.from
        BY <2>5
      <4>4. /\ f.from \in Nat /\ f.to \in Nat /\ g.from \in Nat /\ g.to \in Nat
            /\ f.from < f.to /\ g.from < g.to
        BY <2>3 DEF Fragment
      <4> HIDE DEF data
      <4> QED
        BY <4>2, <4>3, <4>4
    <3> QED
      BY <1>4, <3>1, <3>2, FeedInEffect
  <2>7. ASSUME NEW f \in data
        PROVE  /\ iHead <= f.from
               /\ \E g \in flown : /\ g.from <= f.from /\ f.to = g.to
                                   /\ f.from = g.from \/ f.from = iHead
    <3>1. CASE f \in iData
      BY <3>1, <1>4 DEF TileInv
    <3>2. CASE f \in Fresh(p)
      <4>1. f \in flown /\ f.handle = f.from /\ f.handle >= iHead
        BY <3>2, <2>1, <2>2 DEF Fresh
      <4>2. f.from \in Nat
        BY <1>1, <4>1 DEF Fragment
      <4> QED
        BY <1>1, <4>1, <4>2
    <3> QED
      BY <3>1, <3>2
  <2> HIDE DEF data
  <2>8. Tiled(data, iHead, iTail')
    BY <2>5, <2>6, <2>7 DEF Tiled
  <2>9. PICK armed \in BOOLEAN : Transmit(data, iReaders, armed)
    BY <1>4, FeedInEffect DEF data
  <2>10. iTail' \in Nat /\ iReaders \in SUBSET Nat
    BY DEF TypeOK
  <2>11. Tiled(iData', iHead', iTail')
    BY <2>3, <2>8, <2>9, <2>10, TransmitTiles
  <2>12. iLinked' = iLinked /\ flown' = flown
    BY <1>4 DEF FeedIn
  <2> QED
    BY <2>11, <2>12 DEF TileInv, Tiled
\* the other steps leave the buffer alone
<1>5. CASE /\ UNCHANGED <<iLinked, iHead, iTail, iData>>
           /\ flown \subseteq flown'
  BY <1>5 DEF TileInv
<1>6. CASE MistakeIn
  BY <1>6 DEF MistakeIn, TileInv
<1>7. ASSUME NEW p \in toReader, FeedIn(p), ~iLinked PROVE TileInv'
  BY <1>7 DEF FeedIn, TileInv
<1>8. ASSUME NEW p \in toReader, LoseMoves(p) PROVE TileInv'
  BY <1>5, <1>8 DEF LoseMoves, iVars
<1>9. ASSUME NEW p \in toWriter, FeedOut(p) \/ LoseEcho(p) PROVE TileInv'
  BY <1>5, <1>9 DEF FeedOut, LoseEcho, iVars
<1>10. ASSUME NEW r \in Rooms, NEW S \in SUBSET oMoves, ProduceOut(r, S)
       PROVE  TileInv'
  BY <1>5, <1>10 DEF ProduceOut, iVars
<1>11. ASSUME \/ \E n \in WriteSizes : Write(n) \/ WriteRefused(n)
              \/ \E r \in Rooms, S \in SUBSET oMoves, m \in oMoves :
                    ProduceBroken(r, S, m)
              \/ \E r \in Rooms, due \in BOOLEAN : ProduceIn(r, due)
              \/ MistakeOut \/ UNCHANGED vars
       PROVE  TileInv'
  BY <1>5, <1>11 DEF Write, WriteRefused, ProduceBroken, ProduceIn, MistakeOut,
                     vars, iVars
<1> QED
  BY <1>3, <1>4, <1>6, <1>7, <1>8, <1>9, <1>10, <1>11 DEF Next

\* The strengthened invariant holds in every reachable state.
THEOREM StrongInductive == Spec => []StrongInv
<1>1. Init => StrongInv
  BY InitInv DEF Init, StrongInv, FlownWritten, TileInv
<1>2. StrongInv /\ [Next]_vars => StrongInv'
  <2> SUFFICES ASSUME StrongInv, [Next]_vars PROVE StrongInv'
    OBVIOUS
  <2>1. IndInv /\ FlownWritten /\ TileInv
    BY DEF StrongInv
  <2>2. IndInv'
    BY <2>1, NextInv
  <2> QED
    BY <2>1, <2>2, FlownWrittenStep, TileStep DEF StrongInv
<1> QED
  BY <1>1, <1>2, PTL DEF Spec

\* The buffer of the istreamer: whatever packets are repeated, reordered and
\* read in parts, its fragments do not overlap, lie between head and tail and
\* sit under the place of their first byte.
THEOREM FragmentsInPlace == Spec => []FragmentsTile
<1>1. StrongInv => FragmentsTile
  <2> SUFFICES ASSUME StrongInv, iLinked
               PROVE  /\ \A f \in iData :
                            /\ iHead <= f.handle /\ f.handle < End(f)
                            /\ End(f) <= iTail /\ f.handle = f.from
                      /\ \A f, g \in iData :
                            f = g \/ End(f) <= g.handle \/ End(g) <= f.handle
    BY DEF FragmentsTile
  <2>1. ASSUME NEW f \in iData
        PROVE  f.handle = f.from /\ End(f) = f.to /\ f.from < f.to
    BY DEF StrongInv, IndInv, TypeOK, FlowInv, End, Size, Fragment
  <2> QED
    BY <2>1 DEF StrongInv, TileInv
<1> QED
  BY <1>1, StrongInductive, PTL

----------------------------------------------------------------------------
\* What a step may do to what the applications and the peer were told.
Grows ==
    /\ oRange <= oRange' /\ iEdge <= iEdge'
    /\ got \subseteq got' /\ received \subseteq received'
    /\ confirmed <= confirmed'

\* A step that changes none of it grows it, and stutters for the byte stream.
LEMMA QuietEffect ==
    ASSUME TypeOK, UNCHANGED <<oRange, iEdge, got, received, wrote, confirmed>>
    PROVE  Grows /\ UNCHANGED Abstract!vars
  BY DEF TypeOK, Grows, Abstract!vars

\* The handlers of writes that complete, or fail with a count, are the Confirm
\* of the byte stream.
LEMMA ConfirmEffect ==
    ASSUME TypeOK, WriterInv', UNCHANGED <<iEdge, got, received, wrote>>,
           oRange <= oRange', confirmed' \in Nat, confirmed <= confirmed'
    PROVE  Grows /\ [Abstract!Next]_Abstract!vars
<1>1. Grows
  BY DEF TypeOK, Grows
<1>2. CASE confirmed' = confirmed
  BY <1>1, <1>2 DEF Abstract!vars
<1>3. CASE confirmed' # confirmed
  <2>1. confirmed < confirmed'
    BY <1>3 DEF TypeOK
  <2>2. confirmed' <= wrote /\ \A b \in 0 .. (confirmed' - 1) : b \in received
    BY DEF WriterInv, ConfirmedIsReceived
  <2>3. Abstract!Confirm
    BY <2>1, <2>2 DEF Abstract!Confirm
  <2> QED
    BY <1>1, <2>3 DEF Abstract!Next
<1> QED
  BY <1>1, <1>2, <1>3

\* ostreamer::parse and ostreamer::error confirm at least what was confirmed.
LEMMA ConfirmStep ==
    ASSUME IndInv, IndInv', MistakeOut \/ \E p \in toWriter : FeedOut(p)
    PROVE  Grows /\ [Abstract!Next]_Abstract!vars
<1>1. /\ oRange \in Nat /\ oBase \in Nat /\ confirmed \in Nat
      /\ confirmed' \in Nat /\ oWriters \subseteq Nat /\ TypeOK
      /\ WriterInv' /\ (oLinked => confirmed = oBase)
  BY DEF IndInv, TypeOK, WriterInv
<1>2. CASE MistakeOut
  <2>1. UNCHANGED <<iEdge, got, received, wrote, oRange>> /\ oLinked
    BY <1>2 DEF MistakeOut, iVars
  <2>2. PICK c \in {oHead} \cup {m.handle : m \in oMoves} :
           confirmed' = IF oWriters # {} /\ c > oBase THEN c ELSE oBase
    BY <1>2 DEF MistakeOut
  <2>3. c \in Nat
    BY <2>2 DEF IndInv, TypeOK, Flight
  <2>4. confirmed <= confirmed'
    BY <1>1, <2>1, <2>2, <2>3
  <2> QED
    BY <1>1, <2>1, <2>4, ConfirmEffect
<1>3. ASSUME NEW p \in toWriter, FeedOut(p), oLinked
      PROVE  Grows /\ [Abstract!Next]_Abstract!vars
  <2>1. /\ UNCHANGED <<iEdge, got, received, wrote>>
        /\ oRange' = oRange \/ \E e \in p.edge : oRange' = Granted(e)
    BY <1>3 DEF FeedOut, ParseOut, iVars
  <2>2. \A e \in p.edge : e \in Nat
    BY DEF IndInv, TypeOK
  <2>3. oRange <= oRange'
    BY <1>1, <2>1, <2>2 DEF Granted
  <2>4. PICK c \in {oHead} \cup {m.handle : m \in oMoves},
             b \in {oBase} \cup oWriters :
           /\ IsMax(b, {oBase} \cup {e \in oWriters : e <= c})
           /\ confirmed' = b
    BY <1>3 DEF FeedOut, ParseOut
  <2>5. confirmed <= confirmed'
    BY <1>1, <1>3, <2>4 DEF IsMax
  <2> QED
    BY <1>1, <2>1, <2>3, <2>5, ConfirmEffect
<1>4. ASSUME NEW p \in toWriter, FeedOut(p), ~oLinked
      PROVE  Grows /\ [Abstract!Next]_Abstract!vars
  <2>1. UNCHANGED <<oRange, iEdge, got, received, wrote, confirmed>>
    BY <1>4 DEF FeedOut, iVars
  <2> QED
    BY <1>1, <2>1, QuietEffect
<1> QED
  BY <1>2, <1>3, <1>4

----------------------------------------------------------------------------
\* What istreamer::transmit leaves is the Deliver of the byte stream: the
\* invariant after the step says what the readers have, and what arrived lies
\* below the edge, a receive buffer above the completed reads.
LEMMA DeliverEffect ==
    ASSUME StrongInv', iLinked', UNCHANGED <<wrote, confirmed>>,
           received \subseteq received', got \subseteq got',
           received' \ received \subseteq 0 .. (oRange' - 1)
    PROVE  Abstract!Deliver
<1>1. PICK n \in Nat, k \in Nat, r \in Nat :
         n = iHead' /\ k = iBase' /\ r = oRange'
  BY DEF StrongInv, IndInv, TypeOK
<1>2. /\ received' \subseteq Nat /\ flown' \subseteq Fragment /\ wrote \in Nat
      /\ ReceiveBuffer \in Nat
  BY BufferAssumption DEF StrongInv, IndInv, TypeOK
<1>3. \A b \in received' : 0 <= b /\ b < wrote
  <2>1. ASSUME NEW b \in received' PROVE b < wrote
    <3>1. PICK f \in flown' : b \in f.from .. (f.to - 1)
      BY DEF StrongInv, IndInv, CustodyInv, Bytes
    <3>2. f.to <= wrote /\ f.to \in Nat /\ f.from \in Nat
      BY <1>2, <3>1 DEF StrongInv, FlownWritten, Fragment
    <3> QED
      BY <1>2, <3>1, <3>2
  <2> QED
    BY <1>2, <2>1
<1>4. 0 .. (n - 1) \subseteq received'
  BY <1>1 DEF StrongInv, IndInv, CustodyInv
<1>5. n \in 0 .. wrote
  <2>1. CASE n = 0
    BY <1>2, <2>1
  <2>2. CASE n # 0
    <3>1. n - 1 \in received'
      BY <1>4, <2>2
    <3> QED
      BY <1>2, <1>3, <3>1
  <2> QED
    BY <2>1, <2>2
<1>6. got' = Abstract!Prefix(n)
  <2>1. \A q \in 0 .. (n - 1) : <<q, q>> \in got'
    BY <1>1 DEF StrongInv, IndInv, DeliveryInv
  <2>2. \A x \in got' : \E q \in 0 .. (n - 1) : x = <<q, q>>
    <3>1. \A x \in got' : x[1] = x[2] /\ x[1] < n
      BY <1>1 DEF StrongInv, IndInv, DeliveryInv, StreamIntegrity
    <3>2. \A x \in got' : x = <<x[1], x[2]>> /\ x[1] \in Nat
      BY DEF StrongInv, IndInv, TypeOK
    <3> QED
      BY <3>1, <3>2
  <2> QED
    BY <2>1, <2>2 DEF Abstract!Prefix
<1>7. \A b \in received' \ received : b < n + ReceiveBuffer
  <2>1. r <= ReceiveBuffer + k /\ k <= n
    BY <1>1 DEF StrongInv, IndInv, FlowInv
  <2>2. received' \ received \subseteq 0 .. (r - 1)
    BY <1>1
  <2> QED
    BY <1>2, <2>1, <2>2
<1> QED
  BY <1>3, <1>4, <1>5, <1>6, <1>7 DEF Abstract!Deliver

\* read() and istreamer::parse deliver.
LEMMA DeliverStep ==
    ASSUME StrongInv, StrongInv',
           \/ \E n \in ReadSizes : Read(n)
           \/ \E p \in toReader : FeedIn(p)
    PROVE  Grows /\ [Abstract!Next]_Abstract!vars
<1>1. /\ TypeOK /\ IndInv /\ iEdge \in Nat /\ oRange \in Nat /\ iBase \in Nat
      /\ confirmed \in Nat /\ iData \in SUBSET Fragment /\ iArmed \in BOOLEAN
      /\ iReaders \subseteq Nat /\ \A f \in iData : f.handle = f.from
      /\ (iLinked => iBase <= iHead)
  BY DEF StrongInv, IndInv, TypeOK, FlowInv
<1>2. ASSUME NEW n \in ReadSizes, Read(n)
      PROVE  Grows /\ [Abstract!Next]_Abstract!vars
  <2>1. PICK e \in {iBase} \cup iReaders :
           Transmit(iData, iReaders \cup {e + n}, iArmed)
    BY <1>2 DEF Read
  <2>2. iLinked /\ UNCHANGED <<iLinked, oRange, received, wrote, confirmed>>
    BY <1>2 DEF Read, oVars
  <2>3. iReaders \cup {e + n} \in SUBSET Nat
    BY <1>1, ApplicationAssumption
  <2>4. PICK k \in Nat, b \in Nat : Transmitted(iData, k, b)
    BY <1>1, <2>1, <2>2, <2>3, TransmitEffect
  <2>5. iEdge <= iEdge' /\ got \subseteq got'
    BY <1>1, <2>4 DEF Transmitted
  <2>6. Abstract!Deliver
    BY <2>2, <2>5, DeliverEffect
  <2> QED
    BY <1>1, <2>2, <2>5, <2>6 DEF Grows, Abstract!Next
<1>3. ASSUME NEW p \in toReader, FeedIn(p), iLinked
      PROVE  Grows /\ [Abstract!Next]_Abstract!vars
  <2>1. UNCHANGED <<iLinked, oRange, wrote, confirmed>>
    BY <1>3 DEF FeedIn, oVars
  <2>2. \A f \in p.moves : f \in Fragment /\ f.handle = f.from /\ f.to <= oRange
    BY <1>1, <1>3, FeedInEffect
  <2>3. Fresh(p) \subseteq p.moves
    BY DEF Fresh
  <2>4. received' = received \cup UNION {Bytes(f) : f \in Fresh(p)}
    BY <1>1, <1>3, FeedInEffect
  <2>5. PICK armed \in BOOLEAN : Transmit(iData \cup Fresh(p), iReaders, armed)
    BY <1>1, <1>3, FeedInEffect
  <2>6. /\ iData \cup Fresh(p) \in SUBSET Fragment
        /\ \A f \in iData \cup Fresh(p) : f.handle = f.from
    BY <1>1, <2>2, <2>3
  <2>7. PICK k \in Nat, b \in Nat : Transmitted(iData \cup Fresh(p), k, b)
    BY <1>1, <1>3, <2>5, <2>6, TransmitEffect
  <2>8. iEdge <= iEdge' /\ got \subseteq got'
    BY <1>1, <2>7 DEF Transmitted
  <2>9. received' \ received \subseteq 0 .. (oRange' - 1)
    <3>1. ASSUME NEW f \in Fresh(p), NEW c \in Bytes(f)
          PROVE  c \in 0 .. (oRange - 1)
      <4>1. f.from \in Nat /\ f.to \in Nat /\ f.to <= oRange
        BY <2>2, <2>3 DEF Fragment
      <4> QED
        BY <1>1, <4>1 DEF Bytes
    <3> QED
      BY <2>1, <2>4, <3>1
  <2>10. Abstract!Deliver
    BY <1>3, <2>1, <2>4, <2>8, <2>9, DeliverEffect
  <2> QED
    BY <1>1, <2>1, <2>4, <2>8, <2>10 DEF Grows, Abstract!Next
<1>4. ASSUME NEW p \in toReader, FeedIn(p), ~iLinked
      PROVE  Grows /\ [Abstract!Next]_Abstract!vars
  <2>1. UNCHANGED <<oRange, iEdge, got, received, wrote, confirmed>>
    BY <1>4 DEF FeedIn, oVars
  <2> QED
    BY <1>1, <2>1, QuietEffect
<1> QED
  BY <1>2, <1>3, <1>4

----------------------------------------------------------------------------
\* Every step of the two endpoints and of the network is a step of the byte
\* stream or leaves it unchanged, and takes nothing back.
LEMMA StepEffect ==
    ASSUME StrongInv, StrongInv', [Next]_vars
    PROVE  Grows /\ [Abstract!Next]_Abstract!vars
<1>1. TypeOK /\ IndInv /\ IndInv' /\ wrote \in Nat
  BY DEF StrongInv, IndInv, TypeOK
<1>2. ASSUME NEW n \in WriteSizes, Write(n)
      PROVE  Grows /\ [Abstract!Next]_Abstract!vars
  <2>1. /\ wrote' = wrote + n
        /\ UNCHANGED <<oRange, iEdge, got, received, confirmed>>
    BY <1>2 DEF Write, iVars
  <2>2. wrote < wrote'
    BY <1>1, <2>1, ApplicationAssumption
  <2>3. Grows
    BY <1>1, <2>1 DEF TypeOK, Grows
  <2>4. Abstract!Write
    BY <2>1, <2>2 DEF Abstract!Write
  <2> QED
    BY <2>3, <2>4 DEF Abstract!Next
<1>3. CASE \/ \E n \in ReadSizes : Read(n)
           \/ \E p \in toReader : FeedIn(p)
  BY <1>3, DeliverStep
<1>4. CASE MistakeOut \/ \E p \in toWriter : FeedOut(p)
  BY <1>1, <1>4, ConfirmStep
<1>5. ASSUME UNCHANGED <<oRange, iEdge, got, received, wrote, confirmed>>
      PROVE  Grows /\ [Abstract!Next]_Abstract!vars
  BY <1>1, <1>5, QuietEffect
<1>6. ASSUME NEW r \in Rooms, NEW S \in SUBSET oMoves, ProduceOut(r, S)
      PROVE  UNCHANGED <<oRange, iEdge, got, received, wrote, confirmed>>
  BY <1>6 DEF ProduceOut, iVars
<1>7. ASSUME NEW r \in Rooms, NEW S \in SUBSET oMoves, NEW m \in oMoves,
             ProduceBroken(r, S, m)
      PROVE  UNCHANGED <<oRange, iEdge, got, received, wrote, confirmed>>
  BY <1>7 DEF ProduceBroken, iVars
<1>8. ASSUME NEW r \in Rooms, NEW due \in BOOLEAN, ProduceIn(r, due)
      PROVE  UNCHANGED <<oRange, iEdge, got, received, wrote, confirmed>>
  BY <1>8 DEF ProduceIn, oVars
<1>9. ASSUME \/ \E n \in WriteSizes : WriteRefused(n)
             \/ \E p \in toReader : LoseMoves(p)
             \/ \E p \in toWriter : LoseEcho(p)
             \/ MistakeIn
             \/ UNCHANGED vars
      PROVE  UNCHANGED <<oRange, iEdge, got, received, wrote, confirmed>>
  BY <1>9 DEF WriteRefused, LoseMoves, LoseEcho, MistakeIn, vars, oVars, iVars
<1> QED
  BY <1>2, <1>3, <1>4, <1>5, <1>6, <1>7, <1>8, <1>9 DEF Next

\* What was granted, delivered or confirmed is never taken back, by no step of
\* either endpoint and by no packet however late.
THEOREM NeverTakenBack == Spec => Monotone
<1>1. StrongInv /\ StrongInv' /\ [Next]_vars =>
         [/\ oRange <= oRange' /\ iEdge <= iEdge'
          /\ got \subseteq got' /\ received \subseteq received'
          /\ confirmed <= confirmed']_vars
  BY StepEffect DEF Grows
<1> QED
  BY <1>1, StrongInductive, PTL DEF Spec, Monotone

\* The ostreamer and the istreamer over a network that loses, repeats and
\* reorders implement the byte stream that channel.h promises: the written
\* bytes are delivered once and in order, are confirmed only when they are in
\* the peer's hands, and at most a receive buffer of them waits to be read.
THEOREM Refinement == Spec => ImplementsByteStream
<1>1. Init => Abstract!Init
  BY DEF Init, Abstract!Init
<1>2. StrongInv /\ StrongInv' /\ [Next]_vars => [Abstract!Next]_Abstract!vars
  BY StepEffect
<1> QED
  BY <1>1, <1>2, StrongInductive, PTL
       DEF Spec, ImplementsByteStream, Abstract!Spec

=============================================================================
