-------------------------- MODULE UdpStreamProofs --------------------------
(***************************************************************************)
(* The proofs about UdpStream: IndInv is inductive, one lemma per action,  *)
(* and the safety properties of the stream follow from it.                 *)
(***************************************************************************)
EXTENDS UdpStream, TLAPS, WellFoundedInduction

----------------------------------------------------------------------------
\* A nonempty set of natural numbers has a least element: the first flight of
\* m_moves, the map that ostreamer keeps ordered by handle.
LEMMA NatMin ==
    ASSUME NEW S \in SUBSET Nat, S # {}
    PROVE  \E m \in S : \A x \in S : m <= x
<1>1. PICK m \in S : \A y \in S : ~(<<y, m>> \in OpToRel(<, Nat))
  BY NatLessThanWellFounded, WFMin
<1>2. \A y \in S : ~(y < m)
  BY <1>1 DEF OpToRel
<1> QED
  BY <1>2

\* A nonempty bounded set of natural numbers has a greatest element: the last
\* buffer boundary below a byte in the queue of streambuf.
LEMMA NatMax ==
    ASSUME NEW N \in Nat, NEW S \in SUBSET (0 .. N), S # {}
    PROVE  \E m \in S : \A x \in S : x <= m
<1> DEFINE T == {N - x : x \in S}
<1>1. T \in SUBSET Nat /\ T # {}
  <2>1. \A x \in S : N - x \in Nat
    OBVIOUS
  <2>2. PICK x \in S : TRUE
    OBVIOUS
  <2>3. N - x \in T
    BY <2>2
  <2> QED
    BY <2>1, <2>3
<1>2. PICK t \in T : \A y \in T : t <= y
  <2> HIDE DEF T
  <2> QED BY <1>1, NatMin
<1>3. PICK m \in S : t = N - m
  OBVIOUS
<1>4. \A x \in S : N - m <= N - x
  BY <1>2, <1>3
<1> QED
  BY <1>4

\* The fragments the second loop of ostreamer::imbue pulls lie between the head
\* and h, under the place of their first byte, and do not overlap.
LEMMA PulledShape ==
    ASSUME TypeOK, NEW h \in Nat, oHead <= h
    PROVE  /\ \A f \in Pulled(h) : /\ f \in Fragment
                                   /\ f.handle = f.from
                                   /\ oHead <= f.from
                                   /\ f.to <= h
           /\ \A f, g \in Pulled(h) :
                 f = g \/ f.to <= g.from \/ g.to <= f.from
<1> oHead \in Nat /\ oData \in SUBSET Nat
  BY DEF TypeOK
<1> DEFINE inner == {c \in oData : oHead < c /\ c < h}
<1>1. \A f \in Pulled(h) :
         /\ f \in Fragment
         /\ f.handle = f.from
         /\ f.from \in {oHead} \cup inner
         /\ f.to \in {h} \cup inner
         /\ \A c \in inner : c <= f.from \/ f.to <= c
  BY DEF Pulled, Fragment
<1>2. \A f \in Pulled(h) : oHead <= f.from /\ f.to <= h
  <2>1. \A c \in {oHead} \cup inner : oHead <= c
    OBVIOUS
  <2>2. \A c \in {h} \cup inner : c <= h
    OBVIOUS
  <2> QED
    BY <1>1, <2>1, <2>2
<1>3. ASSUME NEW f \in Pulled(h), NEW g \in Pulled(h)
      PROVE  f = g \/ f.to <= g.from \/ g.to <= f.from
  <2>1. f.from < f.to /\ g.from < g.to /\ f.to <= h /\ g.to <= h
    BY <1>1, <1>2 DEF Fragment
  <2>2. (f.from = g.from /\ f.to = g.to) \/ f.to <= g.from \/ g.to <= f.from
    BY <1>1, <2>1 DEF Fragment
  <2> QED
    BY <1>1, <2>2 DEF Fragment
<1> QED
  BY <1>1, <1>2, <1>3

\* Those fragments leave no gap: every byte between the head and h is in one.
LEMMA PulledCovers ==
    ASSUME TypeOK, NEW h \in Nat, NEW b \in oHead .. (h - 1)
    PROVE  \E f \in Pulled(h) : b \in Bytes(f)
<1> DEFINE inner == {c \in oData : oHead < c /\ c < h}
           above == {c \in {h} \cup inner : b < c}
           below == {c \in {oHead} \cup inner : c <= b}
<1> oHead \in Nat /\ oData \in SUBSET Nat
  BY DEF TypeOK
<1>1. above \in SUBSET Nat /\ above # {}
  <2>1. h \in above
    OBVIOUS
  <2> QED
    BY <2>1
<1>2. below \in SUBSET (0 .. b) /\ below # {} /\ b \in Nat
  <2>1. oHead \in below
    OBVIOUS
  <2>2. \A c \in below : c \in Nat /\ c <= b
    OBVIOUS
  <2>3. b \in Nat
    OBVIOUS
  <2> HIDE DEF below
  <2> QED
    BY <2>1, <2>2, <2>3
<1>3. PICK y \in above : \A c \in above : y <= c
  <2> HIDE DEF above
  <2> QED BY <1>1, NatMin
<1>4. PICK x \in below : \A c \in below : c <= x
  <2> HIDE DEF below
  <2> QED BY <1>2, NatMax
<1>5. [handle |-> x, from |-> x, to |-> y] \in Pulled(h)
  <2>1. x \in {oHead} \cup inner /\ y \in {h} \cup inner /\ x < y
    OBVIOUS
  <2>2. \A c \in inner : c <= x \/ y <= c
    BY <1>3, <1>4
  <2> QED
    BY <2>1, <2>2 DEF Pulled
<1>6. b \in Bytes([handle |-> x, from |-> x, to |-> y])
  BY DEF Bytes
<1> QED
  BY <1>5, <1>6

----------------------------------------------------------------------------
\* What transmit() does: it hands out the places up to n, moves the end of the
\* completed reads to b, and invents nothing.
Transmitted(data, n, b) ==
    /\ iHead' = n /\ iHead <= n
    /\ iBase' = b /\ iBase <= b /\ b <= n
    /\ iEdge' = iEdge + (b - iBase)
    /\ iReaders' \subseteq Nat /\ iArmed' \in BOOLEAN
    /\ \A f \in iData' : /\ f \in Fragment /\ f.handle = f.from
                         /\ \E g \in data : g.from <= f.from /\ f.to = g.to
    /\ \A q \in iHead .. (n - 1) : <<q, q>> \in got'
    /\ \A q \in iHead .. (n - 1) : \E f \in data : q \in Bytes(f)
    /\ got \subseteq got'
    /\ \A x \in got' : \/ x \in got
                       \/ \E q \in iHead .. (n - 1) : x = <<q, q>>

\* istreamer::transmit over well placed, disjoint data has the effect
\* Transmitted for some n and b.
LEMMA TransmitEffect ==
    ASSUME TypeOK, iBase <= iHead,
           NEW data \in SUBSET Fragment, NEW readers \in SUBSET Nat,
           NEW armed \in BOOLEAN,
           \A f \in data : f.handle = f.from,
           Transmit(data, readers, armed)
    PROVE  \E n, b \in Nat : Transmitted(data, n, b)
<1> iHead \in Nat /\ iBase \in Nat /\ iEdge \in Nat
  BY DEF TypeOK
<1> DEFINE handed(n) == UNION {{<<p, ByteAt(f, p)>> :
                             p \in {q \in iHead .. (n - 1) : Holds(f, q)}}
                                  : f \in data}
<1>1. PICK n \in {iHead} \cup UNION {iHead .. e : e \in readers} :
        /\ CanReach(n, data, readers)
        /\ iHead' = n
        /\ iData' = Remaining(n, data)
        /\ got' = got \cup handed(n)
        /\ iReaders' = {e \in readers : e > n}
        /\ \E b \in {iBase} \cup readers :
            /\ IsMax(b, {iBase} \cup {e \in readers : e <= n})
            /\ iBase' = b
            /\ iEdge' = EdgeAfter(b)
            /\ iArmed' = (armed \/ b > iBase)
  BY DEF Transmit
<1>2. n \in Nat /\ iHead <= n
  BY <1>1
<1>3. PICK b \in {iBase} \cup readers :
        /\ IsMax(b, {iBase} \cup {e \in readers : e <= n})
        /\ iBase' = b
        /\ iEdge' = EdgeAfter(b)
        /\ iArmed' = (armed \/ b > iBase)
  BY <1>1
<1>4. b \in Nat /\ iBase <= b /\ b <= n
  <2>1. b \in {iBase} \cup {e \in readers : e <= n}
    BY <1>3 DEF IsMax
  <2>2. iBase <= b
    BY <1>3 DEF IsMax
  <2> QED
    BY <2>1, <2>2, <1>2
<1>5. ASSUME NEW f \in data
      PROVE  /\ f.handle \in Nat /\ f.from \in Nat /\ f.to \in Nat
             /\ f.from < f.to /\ f.handle = f.from /\ End(f) = f.to
  BY DEF Fragment, End, Size
<1>6. ASSUME NEW f \in iData'
      PROVE  /\ f \in Fragment /\ f.handle = f.from
             /\ \E g \in data : g.from <= f.from /\ f.to = g.to
  <2>1. CASE f \in data
    BY <2>1, <1>5
  <2>2. CASE \E g \in data : g.handle < n /\ n < End(g) /\ f = Rest(g, n)
    <3>1. PICK g \in data : g.handle < n /\ n < End(g) /\ f = Rest(g, n)
      BY <2>2
    <3>2. f = [handle |-> n, from |-> n, to |-> g.to]
      BY <3>1, <1>2, <1>5 DEF Rest
    <3> QED
      BY <3>1, <3>2, <1>2, <1>5 DEF Fragment
  <2> QED
    BY <1>1, <2>1, <2>2 DEF Remaining
<1>7. ASSUME NEW q \in iHead .. (n - 1)
      PROVE  <<q, q>> \in got' /\ \E f \in data : q \in Bytes(f)
  <2>1. PICK f \in data : Holds(f, q)
    BY <1>1, <1>2 DEF CanReach
  <2>2. ByteAt(f, q) = q /\ q \in Bytes(f)
    BY <2>1, <1>2, <1>5 DEF ByteAt, Holds, Bytes
  <2>3. <<q, ByteAt(f, q)>> \in handed(n)
    BY <2>1
  <2> QED
    BY <2>2, <2>3, <1>1
<1>8. ASSUME NEW x \in got'
      PROVE  x \in got \/ \E q \in iHead .. (n - 1) : x = <<q, q>>
  <2>1. CASE x \in handed(n)
    <3>1. PICK f \in data :
            \E q \in iHead .. (n - 1) : Holds(f, q) /\ x = <<q, ByteAt(f, q)>>
      BY <2>1
    <3>2. PICK q \in iHead .. (n - 1) : Holds(f, q) /\ x = <<q, ByteAt(f, q)>>
      BY <3>1
    <3>3. ByteAt(f, q) = q
      BY <3>2, <1>2, <1>5 DEF ByteAt, Holds
    <3> QED
      BY <3>2, <3>3
  <2> QED
    BY <2>1, <1>1
<1>9. iEdge' = iEdge + (b - iBase)
  BY <1>3 DEF EdgeAfter
<1>10. iReaders' \subseteq Nat /\ iArmed' \in BOOLEAN /\ got \subseteq got'
  BY <1>1, <1>3
<1>11. Transmitted(data, n, b)
  BY <1>1, <1>2, <1>3, <1>4, <1>6, <1>7, <1>8, <1>9, <1>10 DEF Transmitted
<1> QED
  BY <1>2, <1>4, <1>11

----------------------------------------------------------------------------
\* The streamers of a channel that has just been linked satisfy the invariant.
LEMMA InitInv == Init => IndInv
<1> SUFFICES ASSUME Init PROVE IndInv
  OBVIOUS
<1> USE DEF Init
<1>1. TypeOK
  BY BufferAssumption DEF TypeOK
<1>2. FlowInv
  BY BufferAssumption DEF FlowInv
<1>3. DeliveryInv
  BY DEF DeliveryInv, StreamIntegrity
<1>4. FlightInv
  BY DEF FlightInv
<1>5. CustodyInv
  BY DEF CustodyInv, NothingForgotten
<1>6. WriterInv
  BY DEF WriterInv, ConfirmedIsReceived
<1> QED
  BY <1>1, <1>2, <1>3, <1>4, <1>5, <1>6 DEF IndInv

\* A step that only loses packets or posts an error in the ostreamer (a refused
\* write(), a lossy network, stuttering) preserves the invariant.
LEMMA QuietStep ==
    ASSUME IndInv,
           UNCHANGED <<oLinked, oHead, oTail, oData, oMoves, oBase, oWriters,
                       oRange, oAcks, iVars, flown, received, got, wrote,
                       confirmed>>,
           oError' \in BOOLEAN,
           toReader' \subseteq toReader, toWriter' \subseteq toWriter
    PROVE  IndInv'
<1> USE DEF IndInv, iVars
<1>1. TypeOK'
  BY DEF TypeOK
<1>2. FlowInv'
  BY DEF FlowInv
<1>3. DeliveryInv'
  BY DEF DeliveryInv, StreamIntegrity
<1>4. FlightInv'
  BY DEF FlightInv
<1>5. CustodyInv'
  BY DEF CustodyInv, NothingForgotten, Landed
<1>6. WriterInv'
  BY DEF WriterInv, ConfirmedIsReceived
<1> QED
  BY <1>1, <1>2, <1>3, <1>4, <1>5, <1>6

\* write() that append() accepts preserves the invariant.
LEMMA WriteStep ==
    ASSUME IndInv, NEW n \in WriteSizes, Write(n)
    PROVE  IndInv'
<1> n \in Nat \ {0}
  BY ApplicationAssumption
<1> USE DEF IndInv, iVars, netVars, Write
<1>1. TypeOK'
  BY DEF TypeOK
<1>2. FlowInv'
  BY DEF FlowInv
<1>3. DeliveryInv'
  BY DEF DeliveryInv, StreamIntegrity
<1>4. FlightInv'
  BY DEF FlightInv
<1>5. CustodyInv'
  BY DEF CustodyInv, NothingForgotten, Landed
<1>6. WriterInv'
  BY DEF WriterInv, ConfirmedIsReceived, TypeOK
<1> QED
  BY <1>1, <1>2, <1>3, <1>4, <1>5, <1>6

\* mistake() at the reading endpoint preserves the invariant.
LEMMA MistakeInStep ==
    ASSUME IndInv, MistakeIn
    PROVE  IndInv'
<1> USE DEF IndInv, oVars, netVars, MistakeIn
<1>1. TypeOK'
  BY DEF TypeOK
<1>2. FlowInv'
  BY DEF FlowInv
<1>3. DeliveryInv'
  BY DEF DeliveryInv, StreamIntegrity
<1>4. FlightInv'
  BY DEF FlightInv
<1>5. CustodyInv'
  BY DEF CustodyInv, NothingForgotten, Landed
<1>6. WriterInv'
  BY DEF WriterInv, ConfirmedIsReceived
<1> QED
  BY <1>1, <1>2, <1>3, <1>4, <1>5, <1>6

\* istreamer::imbue preserves the invariant: it acknowledges only what landed
\* and announces only the current edge.
LEMMA ProduceInStep ==
    ASSUME IndInv, NEW r \in Rooms, NEW due \in BOOLEAN, ProduceIn(r, due)
    PROVE  IndInv'
<1> USE DEF IndInv, oVars
<1>1. /\ UNCHANGED <<iLinked, iHead, iTail, iData, iBase, iReaders, iEdge,
                     iArmed, iError, oVars, toReader, flown, received, got,
                     wrote, confirmed>>
      /\ iAcks' \subseteq iAcks
      /\ \A p \in toWriter' :
            \/ p \in toWriter
            \/ \E A \in SUBSET iAcks, edge \in {{}, {iEdge}} :
                  p = [acks |-> A, edge |-> edge]
  BY DEF ProduceIn, SendTo
<1>2. TypeOK'
  <2>1. ASSUME NEW p \in toWriter'
        PROVE  p \in [acks : SUBSET Nat, edge : SUBSET Nat]
    <3>1. CASE p \in toWriter
      BY <3>1 DEF TypeOK
    <3>2. CASE \E A \in SUBSET iAcks, edge \in {{}, {iEdge}} :
                  p = [acks |-> A, edge |-> edge]
      <4>1. iEdge \in Nat /\ iAcks \subseteq Nat
        BY DEF TypeOK
      <4> QED
        BY <3>2, <4>1
    <3> QED
      BY <3>1, <3>2, <1>1
  <2> QED
    BY <1>1, <2>1 DEF TypeOK
<1>3. FlowInv'
  <2>1. \A p \in toWriter' : \A e \in p.edge : e <= iEdge
    BY <1>1 DEF FlowInv, TypeOK
  <2> QED
    BY <1>1, <2>1 DEF FlowInv
<1>4. DeliveryInv'
  BY <1>1 DEF DeliveryInv, StreamIntegrity
<1>5. FlightInv'
  BY <1>1 DEF FlightInv
<1>6. CustodyInv'
  <2>1. \A a \in iAcks' : Landed(a)
    BY <1>1 DEF CustodyInv
  <2>2. \A p \in toWriter' : \A a \in p.acks : Landed(a)
    BY <1>1 DEF CustodyInv
  <2>3. \A a : Landed(a) => Landed(a)'
    BY <1>1 DEF Landed
  <2> QED
    BY <1>1, <2>1, <2>2, <2>3 DEF CustodyInv, NothingForgotten
<1>7. WriterInv'
  BY <1>1 DEF WriterInv, ConfirmedIsReceived
<1> QED
  BY <1>2, <1>3, <1>4, <1>5, <1>6, <1>7

----------------------------------------------------------------------------
\* The cursor that ostreamer::parse and ostreamer::error compare the writers
\* with: everything below it is in the hands of the peer.
LEMMA CursorBound ==
    ASSUME TypeOK,
           NEW moves \in SUBSET Flight,
           \A m \in moves : m.handle = m.from /\ m.to <= oHead,
           \A b \in 0 .. (oHead - 1) :
              b \in received \/ \E m \in moves : b \in Bytes(m),
           NEW c, IsCursor(c, moves)
    PROVE  /\ c \in Nat /\ c <= oHead
           /\ \A b \in 0 .. (c - 1) : b \in received
<1> oHead \in Nat
  BY DEF TypeOK
<1>1. CASE moves = {}
  BY <1>1 DEF IsCursor
<1>2. CASE moves # {}
  <2>1. PICK m \in moves : m.handle = c
    BY <1>2 DEF IsCursor, IsMin
  <2>2. c \in Nat /\ c < oHead
    BY <2>1 DEF Flight
  <2>3. \A x \in moves : c <= x.from
    BY <1>2 DEF IsCursor, IsMin
  <2>4. ASSUME NEW b \in 0 .. (c - 1)
        PROVE  b \in received
    <3>1. \A x \in moves : ~(b \in Bytes(x))
      BY <2>2, <2>3 DEF Bytes, Flight
    <3> QED
      BY <2>2, <3>1
  <2> QED
    BY <2>2, <2>4
<1> QED
  BY <1>1, <1>2

\* The flights of a linked ostreamer lie below its head.
LEMMA MovesBelowHead ==
    ASSUME IndInv, oLinked
    PROVE  \A m \in oMoves : /\ m.handle = m.from /\ m.to <= oHead
                             /\ AsFragment(m) \in flown
  BY DEF IndInv, FlowInv, FlightInv, AsFragment

\* mistake() at the writing endpoint preserves the invariant: the counts given
\* to the failed writers are of bytes the peer has.
LEMMA MistakeOutStep ==
    ASSUME IndInv, MistakeOut
    PROVE  IndInv'
<1> USE DEF IndInv, iVars, netVars
<1>1. PICK c \in {oHead} \cup {m.handle : m \in oMoves} :
        /\ IsCursor(c, oMoves)
        /\ confirmed' = IF oWriters # {} /\ c > oBase THEN c ELSE oBase
  BY DEF MistakeOut
<1>2. oLinked /\ oMoves \in SUBSET Flight
  BY DEF MistakeOut, TypeOK
<1>3. c \in Nat /\ c <= oHead /\ \A b \in 0 .. (c - 1) : b \in received
  BY <1>1, <1>2, CursorBound, MovesBelowHead
       DEF CustodyInv, NothingForgotten
<1>4. TypeOK'
  BY <1>1, <1>3 DEF MistakeOut, TypeOK
<1>5. FlowInv'
  BY DEF MistakeOut, FlowInv, TypeOK
<1>6. DeliveryInv'
  BY DEF MistakeOut, DeliveryInv, StreamIntegrity
<1>7. FlightInv'
  BY DEF MistakeOut, FlightInv
<1>8. CustodyInv'
  BY DEF MistakeOut, CustodyInv, NothingForgotten, Landed
<1>9. WriterInv'
  <2>1. confirmed' <= wrote /\ \A b \in 0 .. (confirmed' - 1) : b \in received
    BY <1>1, <1>2, <1>3 DEF WriterInv, ConfirmedIsReceived, TypeOK
  <2> QED
    BY <2>1 DEF MistakeOut, WriterInv, ConfirmedIsReceived
<1> QED
  BY <1>4, <1>5, <1>6, <1>7, <1>8, <1>9

\* ostreamer::parse of any packet of the network, however old, preserves the
\* invariant.
LEMMA FeedOutStep ==
    ASSUME IndInv, NEW p \in toWriter, FeedOut(p)
    PROVE  IndInv'
<1>1. CASE ~oLinked
  <2>1. UNCHANGED <<oLinked, oHead, oTail, oData, oMoves, oBase, oWriters,
                    oRange, oAcks, oError, iVars, netVars, flown, received,
                    got, wrote, confirmed>>
    BY <1>1 DEF FeedOut
  <2>2. oError \in BOOLEAN
    BY DEF IndInv, TypeOK
  <2> QED
    BY <2>1, <2>2, QuietStep DEF netVars
<1>2. CASE oLinked
  <2> USE <1>2 DEF IndInv
  <2>1. /\ UNCHANGED <<oLinked, oHead, oTail, oData, oError, iVars, netVars,
                       flown, received, got, wrote>>
        /\ oMoves' = StillOut(p)
        /\ oRange' = oRange \/ \E e \in p.edge : oRange' = Granted(e)
        /\ oAcks' = oAcks \/ oAcks' = oAcks \cup {oRange'}
    BY DEF FeedOut, ParseOut
  <2>2. PICK c \in {oHead} \cup {m.handle : m \in oMoves},
             b \in {oBase} \cup oWriters :
          /\ IsCursor(c, oMoves')
          /\ IsMax(b, {oBase} \cup {e \in oWriters : e <= c})
          /\ oBase' = b /\ confirmed' = b
          /\ oWriters' = {e \in oWriters : e > b}
    BY DEF FeedOut, ParseOut
  <2>3. oRange' \in Nat /\ oRange <= oRange' /\ oRange' <= iEdge
    <3>1. \A e \in p.edge : e \in Nat /\ e <= iEdge
      BY DEF FlowInv, TypeOK
    <3>2. oRange \in Nat /\ iEdge \in Nat /\ oRange <= iEdge
      BY DEF FlowInv, TypeOK
    <3> QED
      BY <2>1, <3>1, <3>2 DEF Granted
  <2>4. ASSUME NEW q \in 0 .. (oHead - 1)
        PROVE  q \in received \/ \E m \in oMoves' : q \in Bytes(m)
    <3>1. SUFFICES ASSUME NEW m \in oMoves, q \in Bytes(m), m.handle \in p.acks
                   PROVE  q \in received
      BY <2>1 DEF CustodyInv, NothingForgotten, StillOut
    <3>2. PICK f \in flown : f.handle = m.handle /\ Bytes(f) \subseteq received
      BY <3>1 DEF CustodyInv, Landed
    <3>3. AsFragment(m) \in flown /\ m.handle = m.from
      BY MovesBelowHead
    <3>4. f.from = m.from /\ f \in Fragment /\ m \in Flight
      BY <3>2, <3>3 DEF FlightInv, TypeOK
    <3>5. f = AsFragment(m)
      BY <3>3, <3>4 DEF FlightInv, AsFragment, Fragment, Flight
    <3> QED
      BY <3>1, <3>2, <3>5 DEF Bytes, AsFragment
  <2>5. /\ c \in Nat /\ c <= oHead
        /\ \A q \in 0 .. (c - 1) : q \in received
    <3>1. oMoves' \in SUBSET Flight
      BY <2>1 DEF StillOut, TypeOK
    <3>2. \A m \in oMoves' : m.handle = m.from /\ m.to <= oHead
      BY <2>1, MovesBelowHead DEF StillOut
    <3> QED
      BY <2>2, <2>4, <3>1, <3>2, CursorBound
  <2>6. b \in Nat /\ (b = oBase \/ (b \in oWriters /\ b <= c))
    BY <2>2, <2>5 DEF IsMax, TypeOK
  <2>7. TypeOK'
    BY <2>1, <2>2, <2>3, <2>6 DEF TypeOK, StillOut, iVars, netVars
  <2>8. FlowInv'
    <3>1. oHead \in Nat /\ oRange \in Nat
      BY DEF TypeOK
    <3>2. \A m \in oMoves' : m.handle = m.from /\ m.to <= oRange'
      BY <2>1, <2>3, <3>1 DEF FlowInv, StillOut, TypeOK, Flight
    <3>3. \A q \in toReader : \A f \in q.moves : f.to <= oRange'
      BY <2>3, <3>1 DEF FlowInv, TypeOK, Fragment
    <3>4. \A f \in iData : f.to <= oRange'
      BY <2>3, <3>1 DEF FlowInv, TypeOK, Fragment
    <3> QED
      BY <2>1, <2>3, <3>1, <3>2, <3>3, <3>4 DEF FlowInv, iVars, netVars
  <2>9. DeliveryInv'
    BY <2>1 DEF DeliveryInv, StreamIntegrity, iVars
  <2>10. FlightInv'
    BY <2>1 DEF FlightInv, StillOut, netVars
  <2>11. CustodyInv'
    <3>1. NothingForgotten'
      BY <2>1, <2>4 DEF NothingForgotten
    <3> QED
      BY <2>1, <3>1 DEF CustodyInv, Landed, iVars, netVars
  <2>12. WriterInv'
    BY <2>1, <2>2, <2>5, <2>6 DEF WriterInv, ConfirmedIsReceived, TypeOK
  <2> QED
    BY <2>7, <2>8, <2>9, <2>10, <2>11, <2>12
<1> QED
  BY <1>1, <1>2

----------------------------------------------------------------------------
\* Sending a flight again changes nothing but its number of attempts.
LEMMA AgainShape ==
    ASSUME NEW m \in Flight
    PROVE  /\ Again(m) \in Flight
           /\ Again(m).handle = m.handle
           /\ Again(m).from = m.from /\ Again(m).to = m.to
           /\ Bytes(Again(m)) = Bytes(m)
           /\ AsFragment(Again(m)) = AsFragment(m)
           /\ AsFragment(m) \in Fragment
  BY FlightAssumption DEF Again, Flight, Bytes, AsFragment, Fragment

\* A fresh flight carries the fragment that was pulled.
LEMMA AsFlightShape ==
    ASSUME NEW f \in Fragment
    PROVE  /\ AsFlight(f) \in Flight
           /\ AsFlight(f).handle = f.handle
           /\ AsFlight(f).from = f.from /\ AsFlight(f).to = f.to
           /\ Bytes(AsFlight(f)) = Bytes(f)
           /\ AsFragment(AsFlight(f)) = f
  BY DEF AsFlight, Flight, Bytes, AsFragment, Fragment

\* Producing a packet adds at most that packet to the network.
LEMMA SendMovesEffect ==
    ASSUME NEW M, NEW A, SendMoves(M, A)
    PROVE  \A p \in toReader' :
              p \in toReader \/ p = [moves |-> M, acks |-> A]
  BY DEF SendMoves, SendTo

\* ostreamer::imbue that gives up with broken_pipe preserves the invariant.
LEMMA ProduceBrokenStep ==
    ASSUME IndInv, NEW r \in Rooms, NEW S \in SUBSET oMoves, NEW m \in oMoves,
           ProduceBroken(r, S, m)
    PROVE  IndInv'
<1> USE DEF IndInv
<1>1. /\ oLinked
      /\ UNCHANGED <<oLinked, oHead, oTail, oData, oBase, oWriters, oRange,
                     oAcks, iVars, toWriter, flown, received, got, wrote,
                     confirmed>>
      /\ oError' = TRUE
      /\ oMoves' = (oMoves \ (S \cup {m})) \cup {Again(x) : x \in S \cup {m}}
      /\ SendMoves({AsFragment(x) : x \in S}, {})
  BY DEF ProduceBroken
<1>2. \A x \in oMoves : x \in Flight
  BY DEF TypeOK
<1>3. \A x \in oMoves' : x \in oMoves \/ \E y \in oMoves : x = Again(y)
  BY <1>1
<1>4. \A x \in oMoves : x \in oMoves' \/ Again(x) \in oMoves'
  BY <1>1
<1>5. \A q \in toReader' :
         \/ q \in toReader
         \/ q = [moves |-> {AsFragment(x) : x \in S}, acks |-> {}]
  BY <1>1, SendMovesEffect
<1>6. \A x \in S : /\ AsFragment(x) \in Fragment /\ AsFragment(x) \in flown
                   /\ x.handle = x.from /\ x.to <= oRange
  BY <1>2, AgainShape DEF FlightInv, FlowInv
<1>7. TypeOK'
  <2>1. oMoves' \subseteq Flight
    BY <1>2, <1>3, AgainShape
  <2>2. toReader' \subseteq [moves : SUBSET Fragment, acks : SUBSET Nat]
    <3>1. {AsFragment(x) : x \in S} \subseteq Fragment
      BY <1>6
    <3> QED
      BY <1>5, <3>1 DEF TypeOK
  <2> QED
    BY <1>1, <2>1, <2>2 DEF TypeOK, iVars
<1>8. FlowInv'
  <2>1. \A x \in oMoves' : x.handle = x.from /\ x.to <= oRange
    BY <1>2, <1>3, AgainShape DEF FlowInv
  <2>2. \A x \in S : AsFragment(x).handle = AsFragment(x).from
                       /\ AsFragment(x).to <= oRange
    BY <1>6 DEF AsFragment
  <2>3. \A q \in toReader' : \A f \in q.moves :
           f.handle = f.from /\ f.to <= oRange
    BY <1>5, <2>2 DEF FlowInv
  <2> QED
    BY <1>1, <2>1, <2>3 DEF FlowInv, iVars
<1>9. DeliveryInv'
  BY <1>1 DEF DeliveryInv, StreamIntegrity, iVars
<1>10. FlightInv'
  <2>1. \A x \in oMoves' : AsFragment(x) \in flown
    BY <1>2, <1>3, AgainShape DEF FlightInv
  <2>2. \A q \in toReader' : q.moves \subseteq flown
    BY <1>5, <1>6 DEF FlightInv
  <2> QED
    BY <1>1, <2>1, <2>2 DEF FlightInv
<1>11. CustodyInv'
  <2>1. NothingForgotten'
    BY <1>1, <1>2, <1>4, AgainShape DEF CustodyInv, NothingForgotten
  <2> QED
    BY <1>1, <2>1 DEF CustodyInv, Landed, iVars
<1>12. WriterInv'
  BY <1>1 DEF WriterInv, ConfirmedIsReceived
<1> QED
  BY <1>7, <1>8, <1>9, <1>10, <1>11, <1>12

\* ostreamer::imbue preserves the invariant: resent flights are unchanged and
\* fresh ones stay within the range and apart from all earlier ones.
LEMMA ProduceOutStep ==
    ASSUME IndInv, NEW r \in Rooms, NEW S \in SUBSET oMoves, ProduceOut(r, S)
    PROVE  IndInv'
<1> USE DEF IndInv
<1>1. PICK h \in oHead .. oTail, A \in SUBSET oAcks :
        /\ StopsAt(h, r - Cost(S))
        /\ oHead' = h
        /\ oData' = {c \in oData : c > h}
        /\ oMoves' = (oMoves \ S) \cup {Again(m) : m \in S}
                        \cup {AsFlight(f) : f \in Pulled(h)}
        /\ flown' = flown \cup Pulled(h)
        /\ oAcks' = oAcks \ A
        /\ SendMoves({AsFragment(m) : m \in S} \cup Pulled(h), A)
  BY DEF ProduceOut
<1>2. /\ oLinked
      /\ UNCHANGED <<oLinked, oTail, oBase, oWriters, oRange, oError, iVars,
                     toWriter, received, got, wrote, confirmed>>
  BY DEF ProduceOut
<1>3. /\ oHead \in Nat /\ oTail \in Nat /\ oRange \in Nat
      /\ h \in Nat /\ oHead <= h /\ h <= oTail
      /\ \A m \in oMoves : m \in Flight
  BY DEF TypeOK
<1>4. h <= oRange
  BY <1>1 DEF StopsAt, FlowInv
<1> DEFINE fresh == Pulled(h)
<1>5. \A f \in fresh : /\ f \in Fragment
                       /\ f.handle = f.from
                       /\ oHead <= f.from
                       /\ f.to <= h /\ f.to <= oRange
  BY <1>3, <1>4, PulledShape DEF Fragment
<1>6. \A f, g \in fresh : f = g \/ f.to <= g.from \/ g.to <= f.from
  BY <1>3, PulledShape
<1>7. \A b \in oHead .. (h - 1) : \E f \in fresh : b \in Bytes(f)
  BY <1>3, PulledCovers
<1> HIDE DEF fresh
<1>8. \A x \in oMoves' : \/ x \in oMoves
                         \/ \E y \in oMoves : x = Again(y)
                         \/ \E f \in fresh : x = AsFlight(f)
  BY <1>1 DEF fresh
<1>9. /\ \A x \in oMoves : x \in oMoves' \/ Again(x) \in oMoves'
      /\ \A f \in fresh : AsFlight(f) \in oMoves'
  BY <1>1 DEF fresh
<1>10. \A q \in toReader' :
         \/ q \in toReader
         \/ q = [moves |-> {AsFragment(x) : x \in S} \cup fresh, acks |-> A]
  BY <1>1, SendMovesEffect DEF fresh
<1>11. flown' = flown \cup fresh
  BY <1>1 DEF fresh
<1>12. \A x \in S : /\ AsFragment(x) \in Fragment /\ AsFragment(x) \in flown
                    /\ AsFragment(x).handle = AsFragment(x).from
                    /\ AsFragment(x).to <= oRange
  BY <1>3, AgainShape DEF FlightInv, FlowInv, AsFragment
<1>13. TypeOK'
  <2>1. oMoves' \subseteq Flight
    BY <1>3, <1>5, <1>8, AgainShape, AsFlightShape
  <2>2. toReader' \subseteq [moves : SUBSET Fragment, acks : SUBSET Nat]
    <3>1. {AsFragment(x) : x \in S} \cup fresh \subseteq Fragment
      BY <1>5, <1>12
    <3>2. A \subseteq Nat
      BY <1>1 DEF TypeOK
    <3>3. [moves |-> {AsFragment(x) : x \in S} \cup fresh, acks |-> A]
            \in [moves : SUBSET Fragment, acks : SUBSET Nat]
      BY <3>1, <3>2
    <3> QED
      BY <1>10, <3>3 DEF TypeOK
  <2>3. flown' \subseteq Fragment
    BY <1>5, <1>11 DEF TypeOK
  <2> QED
    BY <1>1, <1>2, <1>3, <2>1, <2>2, <2>3 DEF TypeOK, iVars
<1>14. FlowInv'
  <2>1. \A x \in oMoves' : x.handle = x.from /\ x.to <= oRange
    BY <1>3, <1>5, <1>8, AgainShape, AsFlightShape DEF FlowInv
  <2>2. \A q \in toReader' : \A f \in q.moves :
           f.handle = f.from /\ f.to <= oRange
    BY <1>5, <1>10, <1>12 DEF FlowInv
  <2> QED
    BY <1>1, <1>2, <1>4, <2>1, <2>2 DEF FlowInv, iVars
<1>15. DeliveryInv'
  BY <1>2 DEF DeliveryInv, StreamIntegrity, iVars
<1>16. FlightInv'
  <2>1. \A x \in oMoves' : AsFragment(x) \in flown'
    BY <1>3, <1>5, <1>8, <1>11, AgainShape, AsFlightShape DEF FlightInv
  <2>2. \A q \in toReader' : q.moves \subseteq flown'
    BY <1>10, <1>11, <1>12 DEF FlightInv
  <2>3. \A f, g \in flown' : f = g \/ f.to <= g.from \/ g.to <= f.from
    <3>1. \A f \in flown, g \in fresh : f.to <= g.from
      BY <1>2, <1>3, <1>5 DEF FlightInv, TypeOK, Fragment
    <3> QED
      BY <1>6, <1>11, <3>1 DEF FlightInv
  <2>4. \A f \in flown' : f.handle = f.from /\ f.to <= oHead'
    BY <1>1, <1>2, <1>3, <1>5, <1>11 DEF FlightInv, TypeOK, Fragment
  <2> QED
    BY <2>1, <2>2, <2>3, <2>4 DEF FlightInv
<1>17. CustodyInv'
  <2>1. ASSUME NEW b \in 0 .. (oHead' - 1)
        PROVE  b \in received \/ \E m \in oMoves' : b \in Bytes(m)
    <3>1. CASE b < oHead
      <4>1. b \in received \/ \E m \in oMoves : b \in Bytes(m)
        BY <1>1, <1>2, <1>3, <3>1 DEF CustodyInv, NothingForgotten
      <4> QED
        BY <4>1, <1>3, <1>9, AgainShape
    <3>2. CASE ~(b < oHead)
      <4>1. PICK f \in fresh : b \in Bytes(f)
        BY <1>1, <1>3, <1>7, <3>2
      <4> QED
        BY <4>1, <1>5, <1>9, AsFlightShape
    <3> QED
      BY <3>1, <3>2
  <2>2. NothingForgotten'
    BY <1>2, <2>1 DEF NothingForgotten
  <2>3. \A a : Landed(a) => Landed(a)'
    BY <1>2, <1>11 DEF Landed
  <2>4. ASSUME NEW f \in flown', NEW b \in Bytes(f), b \in received
        PROVE  Bytes(f) \subseteq received
    <3>1. CASE f \in flown
      BY <3>1, <2>4 DEF CustodyInv
    <3>2. CASE f \in fresh
      <4>1. oHead <= b
        BY <1>3, <1>5, <3>2, <2>4 DEF Bytes, Fragment
      <4>2. PICK g \in flown : b \in Bytes(g)
        BY <2>4 DEF CustodyInv
      <4>3. g.to \in Nat /\ g.from \in Nat /\ g.to <= oHead
        BY <1>2, <4>2 DEF FlightInv, TypeOK, Fragment
      <4>4. b < g.to /\ b \in Int
        BY <4>2, <4>3 DEF Bytes
      <4> QED
        BY <1>3, <4>1, <4>3, <4>4
    <3> QED
      BY <3>1, <3>2, <1>11
  <2>5. \A b \in received : \E f \in flown' : b \in Bytes(f)
    BY <1>11 DEF CustodyInv
  <2> QED
    BY <1>1, <1>2, <2>2, <2>3, <2>4, <2>5 DEF CustodyInv, iVars
<1>18. WriterInv'
  BY <1>1, <1>2, <1>3 DEF WriterInv, ConfirmedIsReceived
<1> QED
  BY <1>13, <1>14, <1>15, <1>16, <1>17, <1>18

----------------------------------------------------------------------------
\* What the reading endpoint knows of the data it is about to transmit.
Intake(data) ==
    /\ \A f \in data : /\ f.handle = f.from /\ f.to <= oRange
                       /\ Bytes(f) \subseteq received'
    /\ received \subseteq received' /\ received' \subseteq Nat
    /\ \A b \in received' : \E f \in flown : b \in Bytes(f)
    /\ \A f \in flown : \A b \in Bytes(f) :
          b \in received' => Bytes(f) \subseteq received'
    /\ iTail' \in Nat /\ iError' = FALSE /\ iAcks' \subseteq Nat
    /\ \A a \in iAcks' :
          \E f \in flown : f.handle = a /\ Bytes(f) \subseteq received'
    /\ UNCHANGED <<iLinked, oVars, netVars, flown, wrote, confirmed>>

\* istreamer::transmit over data that satisfies Intake preserves the invariant.
LEMMA IntakeStep ==
    ASSUME IndInv, iLinked,
           NEW data \in SUBSET Fragment, NEW readers \in SUBSET Nat,
           NEW armed \in BOOLEAN, Transmit(data, readers, armed),
           Intake(data)
    PROVE  IndInv'
<1> USE DEF IndInv
<1>1. /\ iHead \in Nat /\ iBase \in Nat /\ iEdge \in Nat /\ iBase <= iHead
      /\ oRange \in Nat /\ oRange <= iEdge /\ iEdge = ReceiveBuffer + iBase
      /\ ReceiveBuffer \in Nat
  BY BufferAssumption DEF TypeOK, FlowInv
<1>0. \A f \in data : f.handle = f.from
  BY DEF Intake
<1>2. PICK n \in Nat, b \in Nat : Transmitted(data, n, b)
  BY <1>0, <1>1, TransmitEffect
<1>21. iHead <= n /\ iBase <= b /\ b <= n
  BY <1>2 DEF Transmitted
<1>22. \A q \in 0 .. (n - 1) : q \in 0 .. (iHead - 1) \/ q \in iHead .. (n - 1)
  BY <1>1, <1>21
<1> DEFINE e == iEdge + (b - iBase)
<1>3. e \in Nat /\ iEdge <= e /\ e = ReceiveBuffer + b /\ oRange <= e
  BY <1>1, <1>21
<1>31. iHead' = n /\ iBase' = b /\ iEdge' = e
  BY <1>2 DEF Transmitted
<1> HIDE DEF e
<1>4. TypeOK'
  <2>1. got' \subseteq Nat \X Nat
    BY <1>1, <1>2 DEF TypeOK, Transmitted
  <2>2. iData' \subseteq Fragment
    BY <1>2 DEF Transmitted
  <2> QED
    BY <1>2, <1>3, <1>31, <2>1, <2>2 DEF TypeOK, Transmitted, Intake, oVars, netVars
<1>5. FlowInv'
  <2>2. \A p \in toWriter : \A x \in p.edge : x <= e
    BY <1>1, <1>3 DEF FlowInv, TypeOK
  <2>3. \A f \in iData' : f.handle = f.from /\ f.to <= oRange
    BY <1>2 DEF Intake, Transmitted
  <2> QED
    BY <1>21, <1>3, <1>31, <2>2, <2>3 DEF FlowInv, Intake, oVars, netVars
<1>6. DeliveryInv'
  <2>1. \A q \in 0 .. (n - 1) : <<q, q>> \in got'
    <3>1. \A q \in 0 .. (iHead - 1) : <<q, q>> \in got'
      BY <1>2 DEF DeliveryInv, Transmitted
    <3> QED
      BY <1>2, <1>22, <3>1 DEF Transmitted
  <2>2. \A x \in got' : x[1] \in Nat /\ x[1] < n /\ x[1] = x[2]
    <3>1. ASSUME NEW x \in got'
          PROVE  x[1] \in Nat /\ x[1] < n /\ x[1] = x[2]
      <4>1. CASE x \in got
        BY <4>1, <1>1, <1>21 DEF DeliveryInv, StreamIntegrity, TypeOK
      <4>2. CASE \E q \in iHead .. (n - 1) : x = <<q, q>>
        BY <4>2, <1>1, <1>21
      <4> QED
        BY <4>1, <4>2, <1>2 DEF Transmitted
    <3> QED
      BY <3>1
  <2>3. \A x \in got' : \A q \in 0 .. x[1] : <<q, q>> \in got'
    <3>1. \A x \in got' : \A q \in 0 .. x[1] : q \in 0 .. (n - 1)
      BY <2>2
    <3> QED
      BY <2>1, <3>1
  <2> QED
    BY <1>31, <2>1, <2>2, <2>3 DEF DeliveryInv, StreamIntegrity
<1>7. FlightInv'
  BY DEF FlightInv, Intake, oVars, netVars
<1>8. CustodyInv'
  <2>1. \A f \in iData' : Bytes(f) \subseteq received'
    <3>1. ASSUME NEW f \in iData' PROVE Bytes(f) \subseteq received'
      <4>1. PICK g \in data : g.from <= f.from /\ f.to = g.to
        BY <1>2 DEF Transmitted
      <4>2. f \in Fragment /\ g \in Fragment
        BY <1>2 DEF Transmitted
      <4>3. Bytes(f) \subseteq Bytes(g)
        BY <4>1, <4>2 DEF Bytes, Fragment
      <4> QED
        BY <4>3 DEF Intake
    <3> QED
      BY <3>1
  <2>2. \A q \in 0 .. (n - 1) : q \in received'
    <3>1. \A q \in 0 .. (iHead - 1) : q \in received'
      BY DEF CustodyInv, Intake
    <3>2. \A q \in iHead .. (n - 1) : q \in received'
      BY <1>2 DEF Intake, Transmitted
    <3> QED
      BY <1>22, <3>1, <3>2
  <2>3. \A a : Landed(a) => Landed(a)'
    BY DEF Landed, Intake
  <2>4. \A a \in iAcks' : Landed(a)'
    BY DEF Landed, Intake
  <2>5. NothingForgotten'
    BY DEF CustodyInv, NothingForgotten, Intake, oVars
  <2> QED
    BY <1>31, <2>1, <2>2, <2>3, <2>4, <2>5 DEF CustodyInv, Intake, netVars
<1>9. WriterInv'
  BY DEF WriterInv, ConfirmedIsReceived, Intake, oVars
<1> QED
  BY <1>4, <1>5, <1>6, <1>7, <1>8, <1>9

\* read() preserves the invariant.
LEMMA ReadStep ==
    ASSUME IndInv, NEW n \in ReadSizes, Read(n)
    PROVE  IndInv'
<1> n \in Nat
  BY ApplicationAssumption
<1>1. PICK e \in {iBase} \cup iReaders :
         Transmit(iData, iReaders \cup {e + n}, iArmed)
  BY DEF Read
<1>2. /\ iLinked
      /\ UNCHANGED <<iLinked, iTail, iAcks, iError, oVars, netVars, flown,
                     received, wrote, confirmed>>
  BY DEF Read
<1>3. /\ iData \in SUBSET Fragment /\ iReaders \cup {e + n} \in SUBSET Nat
      /\ iArmed \in BOOLEAN /\ received \subseteq Nat /\ iTail \in Nat
      /\ iAcks \subseteq Nat
  BY DEF IndInv, TypeOK
<1>4. \A f \in iData : /\ f.handle = f.from /\ f.to <= oRange
                       /\ Bytes(f) \subseteq received
  BY DEF IndInv, FlowInv, CustodyInv
<1>5. /\ iError = FALSE
      /\ \A b \in received : \E f \in flown : b \in Bytes(f)
      /\ \A f \in flown : \A b \in Bytes(f) :
            b \in received => Bytes(f) \subseteq received
      /\ \A a \in iAcks :
            \E f \in flown : f.handle = a /\ Bytes(f) \subseteq received
  BY DEF IndInv, FlowInv, CustodyInv, Landed
<1>6. Intake(iData)
  BY <1>2, <1>3, <1>4, <1>5 DEF Intake
<1> QED
  BY <1>1, <1>2, <1>3, <1>6, IntakeStep

\* The fragments of packet p that the istreamer does not have yet.
Fresh(p) ==
    {f \in p.moves : /\ f.handle >= iHead
                     /\ \A g \in iData : g.handle # f.handle}

\* istreamer::parse of any packet of the network, however old: nothing of it
\* overruns the receive buffer, so all of it is acknowledged and what is new is
\* stored before transmit().
LEMMA FeedInEffect ==
    ASSUME IndInv, iLinked, NEW p \in toReader, FeedIn(p)
    PROVE  /\ \A f \in p.moves : /\ f \in Fragment /\ f \in flown
                                 /\ f.handle = f.from /\ f.to <= oRange
           /\ iError' = iError
           /\ iAcks' = iAcks \cup {f.handle : f \in p.moves}
           /\ \/ Fresh(p) = {} /\ iTail' = iTail
              \/ \E f \in iData \cup Fresh(p) :
                    /\ \A g \in iData \cup Fresh(p) : g.handle <= f.handle
                    /\ iTail' = End(f)
           /\ received' = received \cup UNION {Bytes(f) : f \in Fresh(p)}
           /\ \E armed \in BOOLEAN :
                 Transmit(iData \cup Fresh(p), iReaders, armed)
<1>1. \A f \in p.moves : /\ f \in Fragment /\ f \in flown
                         /\ f.handle = f.from /\ f.to <= oRange
  BY DEF IndInv, TypeOK, FlowInv, FlightInv
<1>2. \A f \in p.moves : ~Overruns(f)
  <2>1. /\ iHead \in Nat /\ iBase \in Nat /\ iEdge \in Nat /\ oRange \in Nat
        /\ iBase <= iHead /\ oRange <= iEdge
        /\ iEdge = ReceiveBuffer + iBase /\ ReceiveBuffer \in Nat
    BY BufferAssumption DEF IndInv, TypeOK, FlowInv
  <2>2. \A f \in p.moves : End(f) = f.to /\ f.to \in Nat
    BY <1>1 DEF Fragment, End, Size
  <2> QED
    BY <1>1, <2>1, <2>2 DEF Overruns
<1>3. {f \in p.moves : Overruns(f)} = {}
  BY <1>2
<1>4. {f \in p.moves : \A g \in {x \in p.moves : Overruns(x)} :
                          f.handle < g.handle} = p.moves
  BY <1>3
<1>5. iArmed \in BOOLEAN /\ iError \in BOOLEAN
  BY DEF IndInv, TypeOK
<1> QED
  BY <1>1, <1>3, <1>4, <1>5 DEF FeedIn, ParseIn, Fresh

\* istreamer::parse preserves the invariant: a fragment is stored under the
\* place of its first byte.
LEMMA FeedInStep ==
    ASSUME IndInv, NEW p \in toReader, FeedIn(p)
    PROVE  IndInv'
<1>1. CASE ~iLinked
  <2>1. UNCHANGED <<iVars, oVars, netVars, flown, received, got, wrote,
                    confirmed>>
    BY <1>1 DEF FeedIn, iVars
  <2>2. oError \in BOOLEAN
    BY DEF IndInv, TypeOK
  <2> QED
    BY <2>1, <2>2, QuietStep DEF netVars, oVars
<1>2. CASE iLinked
  <2> USE <1>2
  <2> DEFINE new  == Fresh(p)
             data == iData \cup new
  <2>1. \A f \in p.moves : /\ f \in Fragment /\ f \in flown
                           /\ f.handle = f.from /\ f.to <= oRange
    BY FeedInEffect
  <2>3. /\ iError' = iError
        /\ iAcks' = iAcks \cup {f.handle : f \in p.moves}
        /\ iTail' = iTail \/ \E f \in data : iTail' = End(f)
        /\ received' = received \cup UNION {Bytes(f) : f \in new}
        /\ \E armed \in BOOLEAN : Transmit(data, iReaders, armed)
    BY FeedInEffect
  <2>4. UNCHANGED <<iLinked, oVars, netVars, flown, wrote, confirmed>>
    BY DEF FeedIn
  <2>5. data \in SUBSET Fragment /\ new \subseteq p.moves
    BY <2>1 DEF IndInv, TypeOK, Fresh
  <2>6. /\ \A f \in new : Bytes(f) \subseteq received'
        /\ received \subseteq received'
        /\ \A b \in received' : b \in received \/ \E f \in new : b \in Bytes(f)
    BY <2>3
  <2>7. ASSUME NEW f \in p.moves PROVE f \notin new => f.from \in received
    <3> SUFFICES ASSUME f \notin new PROVE f.from \in received
      OBVIOUS
    <3>1. f.from \in Nat /\ f.handle = f.from
      BY <2>1 DEF Fragment
    <3>2. CASE f.handle < iHead
      BY <3>1, <3>2 DEF IndInv, CustodyInv, TypeOK
    <3>3. CASE \E g \in iData : g.handle = f.handle
      <4>1. PICK g \in iData : g.handle = f.handle
        BY <3>3
      <4>2. g \in Fragment /\ g.from = f.from /\ Bytes(g) \subseteq received
        BY <4>1, <3>1 DEF IndInv, TypeOK, FlowInv, CustodyInv
      <4> QED
        BY <4>2 DEF Bytes, Fragment
    <3> QED
      BY <3>1, <3>2, <3>3 DEF IndInv, TypeOK, Fresh
  <2> HIDE DEF new, data
  <2>8. ASSUME NEW f \in flown, NEW b \in Bytes(f), b \in received'
        PROVE  Bytes(f) \subseteq received'
    <3>1. CASE b \in received
      BY <3>1, <2>6 DEF IndInv, CustodyInv
    <3>2. CASE \E g \in new : b \in Bytes(g)
      <4>1. PICK g \in new : b \in Bytes(g)
        BY <3>2
      <4>2. f \in Fragment /\ g \in Fragment /\ g \in flown
        BY <2>1, <2>5 DEF IndInv, TypeOK
      <4>3. f = g
        BY <4>1, <4>2 DEF IndInv, FlightInv, Fragment, Bytes
      <4> QED
        BY <4>3, <2>6
    <3> QED
      BY <3>1, <3>2, <2>6, <2>8
  <2>9. \A f \in p.moves : Bytes(f) \subseteq received'
    <3>1. ASSUME NEW f \in p.moves, f \notin new
          PROVE  Bytes(f) \subseteq received'
      <4>1. f.from \in received'
        BY <2>6, <2>7, <3>1
      <4>2. f.from \in Bytes(f)
        BY <2>1 DEF Bytes, Fragment
      <4> QED
        BY <2>1, <2>8, <4>1, <4>2
    <3> QED
      BY <2>6, <3>1
  <2>10. \A f \in data : /\ f.handle = f.from /\ f.to <= oRange
                         /\ Bytes(f) \subseteq received'
    BY <2>1, <2>5, <2>6 DEF data, IndInv, FlowInv, CustodyInv
  <2>11. \A b \in received' : \E f \in flown : b \in Bytes(f)
    BY <2>1, <2>5, <2>6 DEF IndInv, CustodyInv
  <2>12. received' \subseteq Nat
    BY <2>11 DEF IndInv, TypeOK, Fragment, Bytes
  <2>13. iTail' \in Nat
    BY <2>3, <2>5, <2>10 DEF IndInv, TypeOK, Fragment, End, Size
  <2>14. iAcks' \subseteq Nat
    BY <2>1, <2>3 DEF IndInv, TypeOK, Fragment
  <2>15. \A a \in iAcks' :
            \E f \in flown : f.handle = a /\ Bytes(f) \subseteq received'
    BY <2>1, <2>3, <2>6, <2>9 DEF IndInv, CustodyInv, Landed
  <2>16. iReaders \in SUBSET Nat /\ iError = FALSE
    BY DEF IndInv, TypeOK, FlowInv
  <2>17. PICK armed \in BOOLEAN : Transmit(data, iReaders, armed)
    BY <2>3
  <2>18. Intake(data)
    BY <2>3, <2>4, <2>6, <2>8, <2>10, <2>11, <2>12, <2>13, <2>14, <2>15,
       <2>16 DEF Intake
  <2> QED
    BY <2>5, <2>16, <2>17, <2>18, IntakeStep
<1> QED
  BY <1>1, <1>2

----------------------------------------------------------------------------
\* Every step of the two endpoints and of the network preserves the invariant.
LEMMA NextInv == IndInv /\ [Next]_vars => IndInv'
<1> SUFFICES ASSUME IndInv, [Next]_vars PROVE IndInv'
  OBVIOUS
<1> oError \in BOOLEAN
  BY DEF IndInv, TypeOK
<1>1. ASSUME NEW n \in WriteSizes, Write(n) PROVE IndInv'
  BY <1>1, WriteStep
<1>2. ASSUME NEW n \in WriteSizes, WriteRefused(n) PROVE IndInv'
  BY <1>2, QuietStep DEF WriteRefused, netVars
<1>3. ASSUME NEW n \in ReadSizes, Read(n) PROVE IndInv'
  BY <1>3, ReadStep
<1>4. ASSUME NEW r \in Rooms, NEW S \in SUBSET oMoves, ProduceOut(r, S)
      PROVE  IndInv'
  BY <1>4, ProduceOutStep
<1>5. ASSUME NEW r \in Rooms, NEW S \in SUBSET oMoves, NEW m \in oMoves,
             ProduceBroken(r, S, m)
      PROVE  IndInv'
  BY <1>5, ProduceBrokenStep
<1>6. ASSUME NEW r \in Rooms, NEW due \in BOOLEAN, ProduceIn(r, due)
      PROVE  IndInv'
  BY <1>6, ProduceInStep
<1>7. ASSUME NEW p \in toReader, FeedIn(p) PROVE IndInv'
  BY <1>7, FeedInStep
<1>8. ASSUME NEW p \in toReader, LoseMoves(p) PROVE IndInv'
  BY <1>8, QuietStep DEF LoseMoves, oVars
<1>9. ASSUME NEW p \in toWriter, FeedOut(p) PROVE IndInv'
  BY <1>9, FeedOutStep
<1>10. ASSUME NEW p \in toWriter, LoseEcho(p) PROVE IndInv'
  BY <1>10, QuietStep DEF LoseEcho, oVars
<1>11. CASE MistakeOut
  BY <1>11, MistakeOutStep
<1>12. CASE MistakeIn
  BY <1>12, MistakeInStep
<1>13. CASE UNCHANGED vars
  BY <1>13, QuietStep DEF vars, oVars, netVars
<1> QED
  BY <1>1, <1>2, <1>3, <1>4, <1>5, <1>6, <1>7, <1>8, <1>9, <1>10, <1>11,
     <1>12, <1>13 DEF Next

\* The inductive invariant of the stream holds in every reachable state, for
\* every buffer size, swarm, packet room, number of bytes and packet in transit.
THEOREM Inductive == Spec => []IndInv
  BY InitInv, NextInv, PTL DEF Spec

\* The state of both streamers and of every packet is well typed.
THEOREM TypeCorrect == Spec => []TypeOK
<1>1. IndInv => TypeOK
  BY DEF IndInv
<1> QED
  BY <1>1, Inductive, PTL

\* Flow control works: streambuf::map never refuses a fragment of an honest
\* peer, whatever edges and moves are lost, repeated or reordered.
THEOREM NeverOverrun == Spec => []NoOverrun
<1>1. IndInv => NoOverrun
  BY DEF IndInv, FlowInv, NoOverrun
<1> QED
  BY <1>1, Inductive, PTL

\* The subtraction m_range - m_buffer.head() of ostreamer::imbue never wraps
\* around, the range never exceeds the edge, and the stored data never exceeds
\* the receive buffer.
THEOREM WindowSafe == Spec => []WindowSafety
<1>1. IndInv => WindowSafety
  <2> SUFFICES ASSUME IndInv PROVE WindowSafety
    OBVIOUS
  <2>1. /\ iHead \in Nat /\ iBase \in Nat /\ oRange \in Nat /\ oHead \in Nat
        /\ iData \subseteq Fragment /\ ReceiveBuffer \in Nat
    BY BufferAssumption DEF IndInv, TypeOK
  <2>2. /\ oHead <= oRange /\ oRange <= iEdge
        /\ iEdge = ReceiveBuffer + iBase /\ (iLinked => iBase <= iHead)
        /\ \A f \in iData : f.handle = f.from /\ f.to <= oRange
    BY DEF IndInv, FlowInv
  <2>3. ASSUME NEW f \in iData, iLinked
        PROVE  End(f) - iHead <= ReceiveBuffer
    <3>1. f.handle \in Nat /\ f.from \in Nat /\ f.to \in Nat
      BY <2>1, <2>3 DEF Fragment
    <3>2. End(f) = f.to
      BY <2>2, <2>3, <3>1 DEF End, Size
    <3> QED
      BY <2>1, <2>2, <2>3, <3>1, <3>2
  <2> QED
    BY <2>2, <2>3 DEF WindowSafety
<1> QED
  BY <1>1, Inductive, PTL

\* The readers get the bytes that were written, in order and without a gap.
THEOREM StreamCorrect == Spec => []StreamIntegrity
<1>1. IndInv => StreamIntegrity
  BY DEF IndInv, DeliveryInv
<1> QED
  BY <1>1, Inductive, PTL

\* A write handler, successful or failed, never counts a byte that the peer's
\* istreamer has not stored.
THEOREM ConfirmationCorrect == Spec => []ConfirmedIsReceived
<1>1. IndInv => ConfirmedIsReceived
  BY DEF IndInv, WriterInv
<1> QED
  BY <1>1, Inductive, PTL

\* A byte that left the queue of a linked channel is in flight or at the peer.
THEOREM NothingLost == Spec => []NothingForgotten
<1>1. IndInv => NothingForgotten
  BY DEF IndInv, CustodyInv
<1> QED
  BY <1>1, Inductive, PTL

=============================================================================
