------------------------ MODULE PacketFormatProofs -------------------------
(***************************************************************************)
(* Theorems about PacketFormat for every size of the buffer and everything *)
(* that earlier packets may have left in it.  The invariant is the layout  *)
(* of the sections in the buffer; the two walks over it, stub() and the    *)
(* loop of parse(), are recursive, and what they compute is shown by       *)
(* induction from the end of the buffer down.                              *)
(***************************************************************************)
EXTENDS PacketFormat, SequenceTheorems, WellFoundedInduction, TLAPS

\* A property of numbers is a set of them; one that is not all of 1 .. n has a
\* greatest number missing.
LEMMA Downward ==
    ASSUME NEW n \in Nat, NEW S,
           \A i \in 1 .. n : (\A j \in (i + 1) .. n : j \in S) => i \in S
    PROVE  \A i \in 1 .. n : i \in S
  <1> DEFINE T == {k \in 0 .. (n - 1) : n - k \notin S}
             less == OpToRel(<, Nat)
  <1> SUFFICES ASSUME NEW i \in 1 .. n, i \notin S PROVE FALSE
    OBVIOUS
  <1>1. n - i \in T
    <2>1. n - i \in 0 .. (n - 1) /\ n - (n - i) = i
      OBVIOUS
    <2> QED
      BY <2>1
  <1>2. PICK k \in T : \A l \in T : ~(<<l, k>> \in less)
    <2>1. T \subseteq Nat /\ T # {}
      BY <1>1
    <2> HIDE DEF T
    <2> QED
      BY <2>1, WFMin, NatLessThanWellFounded
  <1>3. ASSUME NEW j \in ((n - k) + 1) .. n PROVE j \in S
    <2> SUFFICES ASSUME j \notin S PROVE FALSE
      OBVIOUS
    <2>1. n - j \in 0 .. (n - 1) /\ n - (n - j) = j /\ n - j < k
      OBVIOUS
    <2>2. n - j \in T
      BY <2>1
    <2>3. <<n - j, k>> \in less
      BY <2>1 DEF OpToRel
    <2> HIDE DEF T, less
    <2> QED
      BY <1>2, <2>2, <2>3
  <1>4. n - k \in 1 .. n /\ n - k \notin S
    OBVIOUS
  <1> QED
    BY <1>3, <1>4

-----------------------------------------------------------------------------
\* packet::stub().

Memory == [1 .. Size -> Nat]

\* The walk over m from p, by what w says of the places behind.
WalkAt(m, p, w) ==
    IF p + 1 > Size \/ m[p] = 0 THEN p
    ELSE IF CropThrows(p, HeaderSize + m[p + 1]) THEN Size + 2
    ELSE w[p + HeaderSize + m[p + 1]]

\* The places behind p that it asks for.
LEMMA WalkAhead ==
    ASSUME NEW m \in Memory, NEW p \in 1 .. (Size + 1), NEW v, NEW w,
           \A j \in (p + 1) .. (Size + 1) : v[j] = w[j]
    PROVE  WalkAt(m, p, v) = WalkAt(m, p, w)
  <1>1. CASE p + 1 > Size \/ m[p] = 0
    BY <1>1 DEF WalkAt
  <1>2. CASE ~(p + 1 > Size \/ m[p] = 0)
    <2>1. PICK l \in Nat : l = m[p + 1]
      BY <1>2, FormatAssumption DEF Memory
    <2>2. ~CropThrows(p, HeaderSize + l) =>
              p + HeaderSize + l \in (p + 1) .. (Size + 1)
      BY <2>1, FormatAssumption DEF CropThrows, HeaderSize
    <2> QED
      BY <1>2, <2>1, <2>2 DEF WalkAt
  <1> QED
    BY <1>1, <1>2

\* The walk is defined everywhere.
LEMMA WalkExists ==
    ASSUME NEW m \in Memory
    PROVE  \E w : w = [p \in 1 .. (Size + 1) |-> WalkAt(m, p, w)]
  <1> DEFINE n == Size + 1
             S == {lo \in 1 .. n : \E w : w = [p \in lo .. n |-> WalkAt(m, p, w)]}
  <1>1. n \in Nat /\ 1 \in 1 .. n
    BY FormatAssumption
  <1>2. ASSUME NEW i \in 1 .. n, \A j \in (i + 1) .. n : j \in S PROVE i \in S
    <2>1. PICK w : w = [p \in (i + 1) .. n |-> WalkAt(m, p, w)]
      <3>1. CASE i = n
        <4>1. (i + 1) .. n = {}
          BY <1>1, <3>1
        <4>2. [p \in {} |-> 0] = [p \in (i + 1) .. n |-> WalkAt(m, p, [q \in {} |-> 0])]
          BY <4>1
        <4> QED
          BY <4>1, <4>2
      <3>2. CASE i # n
        <4>1. i + 1 \in S
          BY <1>1, <1>2, <3>2
        <4> QED
          BY <4>1
      <3> QED
        BY <3>1, <3>2
    <2> DEFINE v == [p \in i .. n |-> IF p = i THEN WalkAt(m, i, w) ELSE w[p]]
    <2>2. \A j \in (i + 1) .. n : v[j] = w[j]
      BY <1>1
    <2>3. ASSUME NEW p \in i .. n PROVE v[p] = WalkAt(m, p, v)
      <3>1. p \in 1 .. n
        BY <1>1
      <3>2. \A j \in (p + 1) .. n : v[j] = w[j]
        BY <1>1, <2>2
      <3>3. WalkAt(m, p, v) = WalkAt(m, p, w)
        <4> HIDE DEF v
        <4> QED
          BY <3>1, <3>2, WalkAhead
      <3>4. v[p] = WalkAt(m, p, w)
        <4>1. CASE p = i
          BY <4>1
        <4>2. CASE p # i
          <5>1. p \in (i + 1) .. n
            BY <1>1, <4>2
          <5>2. w[p] = WalkAt(m, p, w)
            BY <2>1, <5>1
          <5> QED
            BY <4>2, <5>2
        <4> QED
          BY <4>1, <4>2
      <3> QED
        BY <3>3, <3>4
    <2>4. v = [p \in i .. n |-> v[p]]
      OBVIOUS
    <2> HIDE DEF v
    <2>5. v = [p \in i .. n |-> WalkAt(m, p, v)]
      BY <2>3, <2>4
    <2> QED
      BY <2>5
  <1> HIDE DEF S
  <1>3. 1 \in S
    <2>1. \A i \in 1 .. n : (\A j \in (i + 1) .. n : j \in S) => i \in S
      BY <1>2
    <2> HIDE DEF n
    <2>2. \A i \in 1 .. n : i \in S
      BY <1>1, <2>1, Downward, Zenon
    <2> QED
      BY <1>1, <2>2
  <1> QED
    BY <1>3 DEF S

\* stub() is the value of a walk, which never goes back.
LEMMA StubWalk ==
    ASSUME NEW m \in Memory
    PROVE  \E w : \A p \in 1 .. (Size + 1) :
                        /\ StubFrom(m, p) = w[p]
                        /\ w[p] = WalkAt(m, p, w) /\ w[p] \in p .. (Size + 2)
  <1> DEFINE n == Size + 1
             Eq(f) == f = [p \in 1 .. (Size + 1) |-> WalkAt(m, p, f)]
             w == CHOOSE f : Eq(f)
  <1>1. Eq(w)
    BY WalkExists
  <1>2. \A p : StubFrom(m, p) = w[p]
    BY DEF StubFrom, WalkAt
  <1> HIDE DEF w
  <1>3. \A p \in 1 .. n : w[p] = WalkAt(m, p, w)
    BY <1>1
  <1> DEFINE S == {p \in 1 .. n : w[p] \in p .. (Size + 2)}
  <1>4. n \in Nat
    BY FormatAssumption
  <1>5. ASSUME NEW i \in 1 .. n, \A j \in (i + 1) .. n : j \in S PROVE i \in S
    <2>1. WalkAt(m, i, w) \in i .. (Size + 2)
      <3>1. CASE i + 1 > Size \/ m[i] = 0
        BY <3>1, FormatAssumption DEF WalkAt
      <3>2. CASE ~(i + 1 > Size \/ m[i] = 0)
        <4>1. PICK l \in Nat : l = m[i + 1]
          BY <3>2, FormatAssumption DEF Memory
        <4>2. CASE CropThrows(i, HeaderSize + l)
          BY <3>2, <4>1, <4>2, FormatAssumption DEF WalkAt
        <4>3. CASE ~CropThrows(i, HeaderSize + l)
          <5>1. i + HeaderSize + l \in (i + 1) .. n
            BY <4>3, FormatAssumption DEF CropThrows, HeaderSize
          <5>2. w[i + HeaderSize + l] \in (i + HeaderSize + l) .. (Size + 2)
            BY <1>5, <5>1
          <5>3. w[i + HeaderSize + l] \in i .. (Size + 2)
            BY <5>1, <5>2, FormatAssumption DEF HeaderSize
          <5> QED
            BY <3>2, <4>1, <4>3, <5>3 DEF WalkAt
        <4> QED
          BY <4>2, <4>3
      <3> QED
        BY <3>1, <3>2
    <2> QED
      BY <1>3, <2>1
  <1>6. \A p \in 1 .. n : p \in S
    <2>1. \A i \in 1 .. n : (\A j \in (i + 1) .. n : j \in S) => i \in S
      BY <1>5
    <2> HIDE DEF S, n
    <2> QED
      BY <1>4, <2>1, Downward, Zenon
  <1> QED
    BY <1>2, <1>3, <1>6

-----------------------------------------------------------------------------
\* The layout of the list.

Section == [type : {Move, Numeral, Simple}, value : Seq(Nat)]

\* What the imbues append.
Shaped(s) ==
    /\ s \in Section
    /\ s.type = Numeral => Len(s.value) = ValueSize
    /\ s.type = Simple => Len(s.value) = 0
    /\ s.type = Move => Len(s.value) > HandleSize

Sections == {s \in Section : Shaped(s)}

\* The section s is in m at p, and its end is at q.
At(m, p, q, s) ==
    /\ q = p + HeaderSize + Len(s.value)
    /\ m[p] = s.type /\ m[p + 1] = Len(s.value)
    /\ \A i \in 1 .. Len(s.value) : m[p + 1 + i] = s.value[i]

\* The sections of l are in m one behind the other, section k at pos[k], and
\* their end is at to.
Layout(pos, m, l, to) ==
    /\ pos \in [1 .. (Len(l) + 1) -> 1 .. to]
    /\ pos[1] = 1 /\ pos[Len(l) + 1] = to
    /\ \A k \in 1 .. Len(l) : At(m, pos[k], pos[k + 1], l[k])

Laid(m, l, to) == \E pos : Layout(pos, m, l, to)

\* stub() stops at to.
EndsAt(m, to) == to + 1 > Size \/ m[to] = 0

\* The section s from p to q lies before to.
Within(m, p, q, s, to) ==
    /\ s \in Section /\ Shaped(s) /\ Len(s.value) \in Nat
    /\ s.type \in {Move, Numeral, Simple} /\ s.value \in Seq(Nat)
    /\ p \in 1 .. to /\ q \in 1 .. to
    /\ q = p + HeaderSize + Len(s.value)
    /\ At(m, p, q, s)

\* A section of a list laid out before to ends there at the latest.
LEMMA SectionRoom ==
    ASSUME NEW l \in Seq(Sections), NEW m, NEW to \in Nat, NEW pos,
           Layout(pos, m, l, to), NEW k \in 1 .. Len(l)
    PROVE  Within(m, pos[k], pos[k + 1], l[k], to)
  <1>1. l[k] \in Sections /\ Len(l) \in Nat
    BY ElementOfSeq, LenProperties
  <1>2. l[k] \in Section /\ Shaped(l[k])
    BY <1>1 DEF Sections
  <1>3. l[k].type \in {Move, Numeral, Simple} /\ l[k].value \in Seq(Nat)
    BY <1>2 DEF Section
  <1>4. Len(l[k].value) \in Nat
    BY <1>3, LenProperties
  <1>5. pos[k] \in 1 .. to /\ pos[k + 1] \in 1 .. to
    BY <1>1 DEF Layout
  <1>6. At(m, pos[k], pos[k + 1], l[k])
    BY DEF Layout
  <1> QED
    BY <1>2, <1>3, <1>4, <1>5, <1>6 DEF At, Within

\* An empty list needs no cell.
LEMMA LaidEmpty ==
    ASSUME NEW m, NEW l, l = <<>>
    PROVE  Laid(m, l, 1)
  <1>1. Len(l) = 0
    BY EmptySeq
  <1>2. Layout([k \in 1 .. 1 |-> 1], m, l, 1)
    BY <1>1 DEF Layout
  <1> QED
    BY <1>2 DEF Laid

\* What is written behind the list does not touch it.
LEMMA LaidKept ==
    ASSUME NEW l \in Seq(Sections), NEW m, NEW n, NEW to \in Nat, Laid(m, l, to),
           \A c \in 1 .. (to - 1) : n[c] = m[c]
    PROVE  Laid(n, l, to)
  <1>1. PICK pos : Layout(pos, m, l, to)
    BY DEF Laid
  <1>2. ASSUME NEW k \in 1 .. Len(l) PROVE At(n, pos[k], pos[k + 1], l[k])
    <2>1. /\ Len(l[k].value) \in Nat
          /\ pos[k] \in 1 .. to /\ pos[k + 1] \in 1 .. to
          /\ pos[k + 1] = pos[k] + 2 + Len(l[k].value)
          /\ At(m, pos[k], pos[k + 1], l[k])
      BY <1>1, SectionRoom DEF Within, HeaderSize
    <2>2. PICK v \in Nat, p \in Nat, q \in Nat :
              /\ v = Len(l[k].value) /\ p = pos[k] /\ q = pos[k + 1]
              /\ p >= 1 /\ q <= to /\ q = p + 2 + v
      <3>1. pos[k] \in Nat /\ pos[k] >= 1 /\ pos[k + 1] \in Nat /\ pos[k + 1] <= to
        BY <2>1
      <3> QED
        BY <2>1, <3>1
    <2>3. p \in 1 .. (to - 1) /\ p + 1 \in 1 .. (to - 1)
      BY <2>2
    <2>4. \A i \in 1 .. v : p + 1 + i \in 1 .. (to - 1)
      BY <2>2
    <2> QED
      BY <2>1, <2>2, <2>3, <2>4 DEF At
  <1>3. Layout(pos, n, l, to)
    BY <1>1, <1>2 DEF Layout
  <1> QED
    BY <1>3 DEF Laid

\* The section that simple(), numeral() and snippet() write.
LEMMA PutSection ==
    ASSUME NEW m \in Memory, NEW s \in Sections, NEW p \in 1 .. (Size + 1),
           p + HeaderSize + Len(s.value) <= Size + 1
    PROVE  /\ Put(m, p, s) \in Memory
           /\ \A c \in 1 .. (p - 1) : Put(m, p, s)[c] = m[c]
           /\ At(Put(m, p, s), p, p + HeaderSize + Len(s.value), s)
  <1> DEFINE cells == <<s.type, Len(s.value)>> \o s.value
             n == Put(m, p, s)
  <1>1. s.type \in {1, 2, 3} /\ s.value \in Seq(Nat)
    BY DEF Sections, Section, Move, Numeral, Simple
  <1>2. PICK v \in Nat : v = Len(s.value)
    BY <1>1, LenProperties
  <1>3. p \in Nat /\ p >= 1 /\ p + 2 + v <= Size + 1 /\ Size \in Nat
    <2>1. p + 2 + v <= Size + 1
      BY <1>2, Zenon DEF HeaderSize
    <2>2. Size \in Nat
      BY FormatAssumption
    <2> QED
      BY <2>1, <2>2
  <1>4. /\ cells \in Seq(Nat) /\ Len(cells) = v + 2
        /\ cells[1] = s.type /\ cells[2] = v
        /\ \A i \in 1 .. v : cells[i + 2] = s.value[i]
    <2>1. <<s.type, v>> \in Seq(Nat) /\ Len(<<s.type, v>>) = 2
      BY <1>1, <1>2
    <2>2. /\ cells \in Seq(Nat) /\ Len(cells) = 2 + v
          /\ \A i \in 1 .. (2 + v) :
                cells[i] = IF i <= 2 THEN <<s.type, v>>[i] ELSE s.value[i - 2]
      BY <1>1, <1>2, <2>1, ConcatProperties
    <2> HIDE DEF cells
    <2>3. 1 \in 1 .. (2 + v) /\ 2 \in 1 .. (2 + v)
      BY <1>2
    <2>4. \A i \in 1 .. v : i + 2 \in 1 .. (2 + v) /\ ~(i + 2 <= 2) /\ (i + 2) - 2 = i
      BY <1>2
    <2>5. \A i \in 1 .. v : cells[i + 2] = s.value[i]
      BY <2>2, <2>4
    <2> QED
      BY <1>2, <2>2, <2>3, <2>5
  <1>5. n = [c \in 1 .. Size |-> IF c - p + 1 \in DOMAIN cells
                                 THEN cells[c - p + 1] ELSE m[c]]
    BY DEF Put, Memory
  <1> HIDE DEF cells, n
  <1>6. DOMAIN cells = 1 .. (v + 2) /\ \A i \in 1 .. (v + 2) : cells[i] \in Nat
    BY <1>4, LenProperties, ElementOfSeq
  <1>7. n \in Memory
    BY <1>5, <1>6 DEF Memory
  <1>8. \A c \in 1 .. (p - 1) : n[c] = m[c]
    BY <1>3, <1>5, <1>6
  <1>9. ASSUME NEW j \in 1 .. (v + 2) PROVE n[p + j - 1] = cells[j]
    <2>1. p + j - 1 \in 1 .. Size /\ (p + j - 1) - p + 1 = j
      BY <1>3
    <2> QED
      BY <1>5, <1>6, <2>1
  <1>10. n[p] = s.type /\ n[p + 1] = v
    <2>1. 1 \in 1 .. (v + 2) /\ 2 \in 1 .. (v + 2) /\ p + 1 - 1 = p /\ p + 2 - 1 = p + 1
      BY <1>2, <1>3
    <2> QED
      BY <1>4, <1>9, <2>1
  <1>11. ASSUME NEW i \in 1 .. v PROVE n[p + 1 + i] = s.value[i]
    <2>1. i + 2 \in 1 .. (v + 2) /\ p + (i + 2) - 1 = p + 1 + i
      BY <1>2, <1>3
    <2> QED
      BY <1>4, <1>9, <2>1
  <1>12. At(n, p, p + HeaderSize + Len(s.value), s)
    BY <1>2, <1>10, <1>11 DEF At
  <1> QED
    BY <1>7, <1>8, <1>12 DEF n

\* A section appended at the end of the list makes it longer.
LEMMA LaidAppend ==
    ASSUME NEW l \in Seq(Sections), NEW m \in Memory, NEW s \in Sections,
           NEW to \in 1 .. (Size + 1), Laid(m, l, to),
           to + HeaderSize + Len(s.value) <= Size + 1
    PROVE  Laid(Put(m, to, s), Append(l, s), to + HeaderSize + Len(s.value))
  <1> DEFINE n == Put(m, to, s)
             q == to + HeaderSize + Len(s.value)
             t == Append(l, s)
  <1>1. /\ \A c \in 1 .. (to - 1) : n[c] = m[c]
        /\ At(n, to, q, s)
    BY PutSection
  <1>2. to \in Nat /\ Len(s.value) \in Nat /\ Len(l) \in Nat
    BY FormatAssumption, LenProperties DEF Sections, Section
  <1>3. q \in Nat /\ q >= to
    <2>1. PICK v \in Nat : v = Len(s.value)
      BY <1>2
    <2>2. q = to + 2 + v
      BY <2>1, Zenon DEF HeaderSize
    <2> HIDE DEF q
    <2> QED
      BY <1>2, <2>2
  <1>4. /\ Len(t) = Len(l) + 1 /\ t[Len(l) + 1] = s
        /\ \A k \in 1 .. Len(l) : t[k] = l[k]
    BY AppendProperties
  <1> HIDE DEF n, q, t
  <1>5. Laid(n, l, to)
    BY <1>1, <1>2, LaidKept
  <1>6. PICK pos : Layout(pos, n, l, to)
    BY <1>5 DEF Laid
  <1> DEFINE place == [k \in 1 .. (Len(l) + 2) |-> IF k = Len(l) + 2 THEN q ELSE pos[k]]
  <1>7. /\ place[1] = 1 /\ place[Len(l) + 2] = q /\ place[Len(l) + 1] = to
        /\ \A k \in 1 .. (Len(l) + 1) : place[k] = pos[k]
    BY <1>2, <1>6 DEF Layout
  <1>8. place \in [1 .. (Len(l) + 2) -> 1 .. q]
    BY <1>2, <1>3, <1>6 DEF Layout
  <1> HIDE DEF place
  <1>9. ASSUME NEW k \in 1 .. (Len(l) + 1) PROVE At(n, place[k], place[k + 1], t[k])
    <2>1. CASE k = Len(l) + 1
      <3>1. k + 1 = Len(l) + 2
        BY <1>2, <2>1
      <3> QED
        BY <1>1, <1>4, <1>7, <2>1, <3>1
    <2>2. CASE k # Len(l) + 1
      <3>1. k \in 1 .. Len(l) /\ k + 1 \in 1 .. (Len(l) + 1)
        BY <1>2, <2>2
      <3>2. At(n, pos[k], pos[k + 1], l[k])
        BY <1>6, <3>1 DEF Layout
      <3> QED
        BY <1>4, <1>7, <3>1, <3>2
    <2> QED
      BY <2>1, <2>2
  <1>10. Len(t) + 1 = Len(l) + 2
    BY <1>2, <1>4
  <1>11. Layout(place, n, t, q)
    BY <1>4, <1>7, <1>8, <1>9, <1>10 DEF Layout
  <1> QED
    BY <1>11 DEF Laid, n, q, t

\* stub() goes over a list that is laid out, and stops where its end is marked.
LEMMA StubLaid ==
    ASSUME NEW l \in Seq(Sections), NEW m \in Memory, NEW to \in 1 .. (Size + 1),
           Laid(m, l, to)
    PROVE  /\ StubFrom(m, 1) \in to .. (Size + 2)
           /\ StubFrom(m, 1) = StubFrom(m, to)
           /\ EndsAt(m, to) => StubFrom(m, 1) = to
  <1>1. PICK w : \A p \in 1 .. (Size + 1) :
                        /\ StubFrom(m, p) = w[p]
                        /\ w[p] = WalkAt(m, p, w) /\ w[p] \in p .. (Size + 2)
    BY StubWalk
  <1>2. PICK pos : Layout(pos, m, l, to)
    BY DEF Laid
  <1>3. to \in Nat /\ Size \in Nat /\ Len(l) \in Nat
    BY FormatAssumption, LenProperties
  <1> DEFINE n == Len(l) + 1
             S == {k \in 1 .. n : w[pos[k]] = w[to]}
  <1>4. n \in Nat /\ 1 \in 1 .. n
    BY <1>3
  <1>5. ASSUME NEW i \in 1 .. n, \A j \in (i + 1) .. n : j \in S PROVE i \in S
    <2>1. CASE i = n
      BY <1>2, <2>1 DEF Layout
    <2>2. CASE i # n
      <3>1. i \in 1 .. Len(l) /\ i + 1 \in (i + 1) .. n
        BY <1>3, <2>2
      <3>2. w[pos[i + 1]] = w[to]
        BY <1>5, <3>1
      <3>3. /\ Len(l[i].value) \in Nat /\ l[i].type \in {Move, Numeral, Simple}
            /\ pos[i] \in 1 .. to /\ pos[i + 1] \in 1 .. to
            /\ pos[i + 1] = pos[i] + HeaderSize + Len(l[i].value)
            /\ At(m, pos[i], pos[i + 1], l[i])
        <4>1. Within(m, pos[i], pos[i + 1], l[i], to)
          BY <1>2, <1>3, <3>1, SectionRoom
        <4> QED
          BY <4>1 DEF Within
      <3>4. PICK p \in Nat, q \in Nat, v \in Nat :
                /\ p = pos[i] /\ q = pos[i + 1] /\ v = Len(l[i].value)
                /\ p >= 1 /\ q <= to
        <4>1. pos[i] \in Nat /\ pos[i] >= 1 /\ pos[i + 1] \in Nat /\ pos[i + 1] <= to
          BY <1>3, <3>3
        <4> QED
          BY <3>3, <4>1
      <3>5. q = p + HeaderSize + v /\ m[p] = l[i].type /\ m[p + 1] = v
        BY <3>3, <3>4 DEF At
      <3>6. m[p] # 0
        BY <3>3, <3>5 DEF Move, Numeral, Simple
      <3>7. p \in 1 .. (Size + 1) /\ ~(p + 1 > Size) /\ ~CropThrows(p, HeaderSize + v)
        <4>1. q = p + 2 + v /\ p >= 1 /\ q <= to
          BY <3>4, <3>5, Zenon DEF HeaderSize
        <4>2. p + (2 + v) <= Size + 1 /\ p + 1 <= Size
          BY <1>3, <4>1
        <4> QED
          BY <1>3, <4>1, <4>2 DEF CropThrows, HeaderSize
      <3>8. WalkAt(m, p, w) = w[q]
        <4>1. p + HeaderSize + m[p + 1] = q /\ ~CropThrows(p, HeaderSize + m[p + 1])
          BY <3>5, <3>7, Zenon
        <4> QED
          BY <3>6, <3>7, <4>1, Zenon DEF WalkAt
      <3>9. w[p] = WalkAt(m, p, w)
        BY <1>1, <3>7
      <3> QED
        BY <3>2, <3>4, <3>8, <3>9
    <2> QED
      BY <2>1, <2>2
  <1>6. 1 \in S
    <2>1. \A i \in 1 .. n : (\A j \in (i + 1) .. n : j \in S) => i \in S
      BY <1>5
    <2> HIDE DEF S, n
    <2>2. \A i \in 1 .. n : i \in S
      BY <1>4, <2>1, Downward, Zenon
    <2> QED
      BY <1>4, <2>2
  <1>7. StubFrom(m, 1) = w[to] /\ StubFrom(m, to) = w[to]
    <2>1. 1 \in 1 .. (Size + 1)
      BY <1>3
    <2> QED
      BY <1>1, <1>2, <1>6, <2>1 DEF Layout
  <1>8. w[to] \in to .. (Size + 2) /\ w[to] = WalkAt(m, to, w)
    BY <1>1
  <1>9. EndsAt(m, to) => WalkAt(m, to, w) = to
    BY DEF EndsAt, WalkAt
  <1> QED
    BY <1>7, <1>8, <1>9

\* section::stub() at the end of the list marks it.
LEMMA EndedLaid ==
    ASSUME NEW l \in Seq(Sections), NEW m \in Memory, NEW to \in 1 .. (Size + 1),
           Laid(m, l, to)
    PROVE  /\ Ended(m, to) \in Memory
           /\ Laid(Ended(m, to), l, to)
           /\ EndsAt(Ended(m, to), to)
  <1> DEFINE n == Ended(m, to)
  <1>1. n = [c \in 1 .. Size |-> IF c \in to .. (to + 1) THEN 0 ELSE m[c]]
    <2>1. to + HeaderSize - 1 = to + 1
      BY FormatAssumption DEF HeaderSize
    <2> QED
      BY <2>1 DEF Ended, Memory
  <1> HIDE DEF n
  <1>2. Size \in Nat /\ to \in Nat
    BY FormatAssumption
  <1>3. n \in Memory
    BY <1>1 DEF Memory
  <1>4. \A c \in 1 .. (to - 1) : n[c] = m[c]
    BY <1>1, <1>2
  <1>5. Laid(n, l, to)
    BY <1>2, <1>4, LaidKept
  <1>6. EndsAt(n, to)
    BY <1>1, <1>2 DEF EndsAt
  <1> QED
    BY <1>3, <1>5, <1>6 DEF n

-----------------------------------------------------------------------------
\* parse().

\* What a section says of itself at p.
Body(m, p, end) ==
    [type |-> Type(m, p, end),
     value |-> SubSeq(m, p + HeaderSize, p + HeaderSize + Length(m, p, end) - 1)]

\* The sections from p on, by what f says of the places behind.
ParseAt(m, p, end, f) ==
    IF ~Valid(m, p, end) THEN <<>>
    ELSE <<Body(m, p, end)>> \o f[p + HeaderSize + Length(m, p, end)]

\* A valid section ends in the packet.
LEMMA ValidRoom ==
    ASSUME NEW m \in Memory, NEW end \in 0 .. Size, NEW p \in 1 .. (Size + 1),
           Valid(m, p, end)
    PROVE  /\ p + 1 <= end /\ Length(m, p, end) \in Nat
           /\ p + HeaderSize + Length(m, p, end) \in (p + 1) .. (Size + 1)
  <1>1. Size \in Nat /\ p \in Nat /\ end \in Nat /\ end <= Size
    BY FormatAssumption
  <1>2. p + 1 <= end
    <2>1. Type(m, p, end) # 0
      BY DEF Valid, Move, Numeral, Simple
    <2> QED
      BY <2>1 DEF Type
  <1>3. PICK v \in Nat : v = Length(m, p, end)
    <2>1. p + 1 \in 1 .. Size
      BY <1>1, <1>2
    <2> QED
      BY <1>2, <2>1 DEF Length, Memory
  <1>4. p + 2 + v <= end + 1
    <2>1. \/ p + HeaderSize + ValueSize <= end + 1 /\ v = ValueSize
          \/ v = 0
          \/ v <= end + 1 - p - HeaderSize
      BY <1>3 DEF Valid
    <2> QED
      BY <1>1, <1>2, <2>1 DEF HeaderSize, ValueSize
  <1> QED
    BY <1>1, <1>2, <1>3, <1>4 DEF HeaderSize

\* The places behind p that it asks for.
LEMMA ParseAhead ==
    ASSUME NEW m \in Memory, NEW end \in 0 .. Size, NEW p \in 1 .. (Size + 1), NEW f, NEW g,
           \A j \in (p + 1) .. (Size + 1) : f[j] = g[j]
    PROVE  ParseAt(m, p, end, f) = ParseAt(m, p, end, g)
  <1>1. CASE ~Valid(m, p, end)
    BY <1>1 DEF ParseAt
  <1>2. CASE Valid(m, p, end)
    <2>1. p + HeaderSize + Length(m, p, end) \in (p + 1) .. (Size + 1)
      BY <1>2, ValidRoom
    <2>2. f[p + HeaderSize + Length(m, p, end)] = g[p + HeaderSize + Length(m, p, end)]
      BY <2>1
    <2> QED
      BY <1>2, <2>2, Zenon DEF ParseAt
  <1> QED
    BY <1>1, <1>2

\* The loop of parse() is defined everywhere.
LEMMA ParseExists ==
    ASSUME NEW m \in Memory, NEW end \in 0 .. Size
    PROVE  \E f : f = [p \in 1 .. (Size + 1) |-> ParseAt(m, p, end, f)]
  <1> DEFINE n == Size + 1
             S == {lo \in 1 .. n : \E f : f = [p \in lo .. n |-> ParseAt(m, p, end, f)]}
  <1>1. n \in Nat /\ 1 \in 1 .. n
    BY FormatAssumption
  <1>2. ASSUME NEW i \in 1 .. n, \A j \in (i + 1) .. n : j \in S PROVE i \in S
    <2>1. PICK f : f = [p \in (i + 1) .. n |-> ParseAt(m, p, end, f)]
      <3>1. CASE i = n
        <4>1. (i + 1) .. n = {}
          BY <1>1, <3>1
        <4>2. [p \in {} |-> 0] = [p \in (i + 1) .. n |-> ParseAt(m, p, end, [q \in {} |-> 0])]
          BY <4>1
        <4> QED
          BY <4>1, <4>2
      <3>2. CASE i # n
        <4>1. i + 1 \in S
          BY <1>1, <1>2, <3>2
        <4> QED
          BY <4>1
      <3> QED
        BY <3>1, <3>2
    <2> DEFINE g == [p \in i .. n |-> IF p = i THEN ParseAt(m, i, end, f) ELSE f[p]]
    <2>2. \A j \in (i + 1) .. n : g[j] = f[j]
      BY <1>1
    <2>3. ASSUME NEW p \in i .. n PROVE g[p] = ParseAt(m, p, end, g)
      <3>1. p \in 1 .. n
        BY <1>1
      <3>2. \A j \in (p + 1) .. n : g[j] = f[j]
        BY <1>1, <2>2
      <3>3. ParseAt(m, p, end, g) = ParseAt(m, p, end, f)
        <4> HIDE DEF g
        <4> QED
          BY <3>1, <3>2, ParseAhead
      <3>4. g[p] = ParseAt(m, p, end, f)
        <4>1. CASE p = i
          BY <4>1
        <4>2. CASE p # i
          <5>1. p \in (i + 1) .. n
            BY <1>1, <4>2
          <5>2. f[p] = ParseAt(m, p, end, f)
            BY <2>1, <5>1
          <5> QED
            BY <4>2, <5>2
        <4> QED
          BY <4>1, <4>2
      <3> QED
        BY <3>3, <3>4
    <2>4. g = [p \in i .. n |-> g[p]]
      OBVIOUS
    <2> HIDE DEF g
    <2>5. g = [p \in i .. n |-> ParseAt(m, p, end, g)]
      BY <2>3, <2>4
    <2> QED
      BY <2>5
  <1> HIDE DEF S
  <1>3. 1 \in S
    <2>1. \A i \in 1 .. n : (\A j \in (i + 1) .. n : j \in S) => i \in S
      BY <1>2
    <2> HIDE DEF n
    <2>2. \A i \in 1 .. n : i \in S
      BY <1>1, <2>1, Downward, Zenon
    <2> QED
      BY <1>1, <2>2
  <1> QED
    BY <1>3 DEF S

\* A valid section is a section.
LEMMA BodySection ==
    ASSUME NEW m \in Memory, NEW end \in 0 .. Size, NEW p \in 1 .. (Size + 1),
           Valid(m, p, end)
    PROVE  Body(m, p, end) \in Section
  <1>1. Type(m, p, end) \in {Move, Numeral, Simple}
    BY DEF Valid
  <1>2. PICK v \in Nat : /\ v = Length(m, p, end)
                         /\ p + HeaderSize + v <= Size + 1
    <2>1. Length(m, p, end) \in Nat /\ p + HeaderSize + Length(m, p, end) \in (p + 1) .. (Size + 1)
      BY ValidRoom
    <2>2. PICK u \in Nat : u = Length(m, p, end)
      BY <2>1
    <2>3. p + HeaderSize + u \in (p + 1) .. (Size + 1)
      BY <2>1, <2>2, Zenon
    <2>4. p + HeaderSize + u <= Size + 1
      BY <2>3, FormatAssumption DEF HeaderSize
    <2> QED
      BY <2>2, <2>4
  <1> DEFINE lo == p + HeaderSize
             hi == p + HeaderSize + v - 1
  <1>3. lo \in Int /\ hi \in Int /\ \A i \in lo .. hi : i \in 1 .. Size
    BY <1>2, FormatAssumption DEF HeaderSize
  <1>4. \A i \in lo .. hi : m[i] \in Nat
    BY <1>3 DEF Memory
  <1> HIDE DEF lo, hi
  <1>5. SubSeq(m, lo, hi) \in Seq(Nat)
    BY <1>3, <1>4, SubSeqProperties
  <1>6. SubSeq(m, p + HeaderSize, p + HeaderSize + Length(m, p, end) - 1) \in Seq(Nat)
    BY <1>2, <1>5, Zenon DEF lo, hi
  <1> QED
    BY <1>1, <1>6 DEF Body, Section

\* parse() is the value of such a function, which gives sequences of sections.
LEMMA ParseWalk ==
    ASSUME NEW m \in Memory, NEW end \in 0 .. Size
    PROVE  \E f : \A p \in 1 .. (Size + 1) :
                        /\ Parse(m, p, end) = f[p]
                        /\ f[p] = ParseAt(m, p, end, f) /\ f[p] \in Seq(Section)
  <1> DEFINE n == Size + 1
             Eq(g) == g = [p \in 1 .. (Size + 1) |-> ParseAt(m, p, end, g)]
             f == CHOOSE g : Eq(g)
  <1>1. Eq(f)
    BY ParseExists
  <1>2. \A p : Parse(m, p, end) = f[p]
    BY DEF Parse, ParseAt, Body
  <1> HIDE DEF f
  <1>3. \A p \in 1 .. n : f[p] = ParseAt(m, p, end, f)
    BY <1>1
  <1> DEFINE S == {p \in 1 .. n : f[p] \in Seq(Section)}
  <1>4. n \in Nat
    BY FormatAssumption
  <1>5. ASSUME NEW i \in 1 .. n, \A j \in (i + 1) .. n : j \in S PROVE i \in S
    <2>1. ParseAt(m, i, end, f) \in Seq(Section)
      <3>1. CASE ~Valid(m, i, end)
        BY <3>1, EmptySeq DEF ParseAt
      <3>2. CASE Valid(m, i, end)
        <4> DEFINE next == i + HeaderSize + Length(m, i, end)
                   one == <<Body(m, i, end)>>
        <4>1. next \in (i + 1) .. n
          BY <3>2, ValidRoom
        <4>2. f[next] \in Seq(Section)
          BY <1>5, <4>1
        <4>3. one \in Seq(Section)
          BY <3>2, BodySection
        <4>4. ParseAt(m, i, end, f) = one \o f[next]
          BY <3>2 DEF ParseAt
        <4> HIDE DEF next, one
        <4> QED
          BY <4>2, <4>3, <4>4, ConcatProperties
      <3> QED
        BY <3>1, <3>2
    <2> QED
      BY <1>3, <2>1
  <1>6. \A p \in 1 .. n : p \in S
    <2>1. \A i \in 1 .. n : (\A j \in (i + 1) .. n : j \in S) => i \in S
      BY <1>5
    <2> HIDE DEF S, n
    <2> QED
      BY <1>4, <2>1, Downward, Zenon
  <1> QED
    BY <1>2, <1>3, <1>6

\* A section in a packet is valid and says what was put there.
LEMMA WithinBody ==
    ASSUME NEW m \in Memory, NEW end \in 0 .. Size, NEW to \in 1 .. (end + 1),
           NEW p, NEW q, NEW s, Within(m, p, q, s, to)
    PROVE  /\ p \in 1 .. (Size + 1) /\ Valid(m, p, end)
           /\ Body(m, p, end) = s /\ p + HeaderSize + Length(m, p, end) = q
  <1>1. PICK v \in Nat : v = Len(s.value)
    BY DEF Within
  <1>2. /\ p \in Nat /\ p >= 1 /\ q \in Nat /\ q <= to /\ q = p + 2 + v
        /\ to <= end + 1 /\ end <= Size /\ end \in Nat /\ Size \in Nat /\ to \in Nat
    <2>1. /\ Size \in Nat /\ end \in Nat /\ to \in Nat /\ to <= end + 1 /\ end <= Size
      BY FormatAssumption
    <2>2. p \in 1 .. to /\ q \in 1 .. to
      BY DEF Within
    <2>3. q = p + 2 + v
      BY <1>1, Zenon DEF Within, HeaderSize
    <2> QED
      BY <2>1, <2>2, <2>3
  <1>3. p + 1 <= end /\ p \in 1 .. (Size + 1) /\ p + 2 + v <= end + 1
    BY <1>2
  <1>4. Type(m, p, end) = s.type /\ Length(m, p, end) = v
    BY <1>1, <1>3 DEF Within, At, Type, Length
  <1>5. Valid(m, p, end)
    <2>1. /\ s.type \in {Move, Numeral, Simple}
          /\ s.type = Numeral => v = 1
          /\ s.type = Simple => v = 0
          /\ s.type = Move => v > 1
      BY <1>1 DEF Within, Shaped, ValueSize, HandleSize
    <2>2. CASE s.type = Numeral
      BY <1>2, <1>3, <1>4, <2>1, <2>2 DEF Valid, HeaderSize, ValueSize
    <2>3. CASE s.type = Simple
      BY <1>4, <2>1, <2>3 DEF Valid
    <2>4. CASE s.type = Move
      <3>1. p + HeaderSize + HandleSize <= end + 1 /\ v <= end + 1 - p - HeaderSize
        BY <1>2, <1>3, <2>1, <2>4 DEF HeaderSize, HandleSize
      <3> QED
        BY <1>4, <2>4, <3>1 DEF Valid
    <2> QED
      BY <2>1, <2>2, <2>3, <2>4
  <1>6. SubSeq(m, p + HeaderSize, p + HeaderSize + Length(m, p, end) - 1) = s.value
    <2> DEFINE lo == p + HeaderSize
               hi == p + HeaderSize + v - 1
               t == SubSeq(m, lo, hi)
    <2>1. lo \in Int /\ hi \in Int /\ \A i \in lo .. hi : i \in 1 .. Size
      BY <1>2, <1>3 DEF HeaderSize
    <2>2. \A i \in lo .. hi : m[i] \in Nat
      BY <2>1 DEF Memory
    <2>3. (IF lo <= hi THEN hi - lo + 1 ELSE 0) = v /\ hi - lo + 1 = v
      BY <1>2 DEF HeaderSize
    <2>4. \A i \in 1 .. v : lo + i - 1 = p + 1 + i
      BY <1>2 DEF HeaderSize
    <2>5. s.value \in Seq(Nat) /\ \A i \in 1 .. v : m[p + 1 + i] = s.value[i]
      BY <1>1 DEF Within, At
    <2> HIDE DEF lo, hi
    <2>6. /\ t \in Seq(Nat) /\ Len(t) = v
          /\ \A i \in 1 .. v : t[i] = m[lo + i - 1]
      BY <2>1, <2>2, <2>3, SubSeqProperties
    <2> HIDE DEF t
    <2>7. t = s.value
      <3>1. \A i \in 1 .. v : t[i] = s.value[i]
        BY <2>4, <2>5, <2>6
      <3>2. Len(t) = Len(s.value) /\ \A i \in 1 .. Len(t) : t[i] = s.value[i]
        BY <1>1, <2>6, <3>1, Zenon
      <3> QED
        BY <2>5, <2>6, <3>2, SeqEqual, Zenon
    <2> QED
      BY <1>4, <2>7 DEF t, lo, hi
  <1>7. Body(m, p, end) = s
    <2>1. Body(m, p, end) = [type |-> s.type, value |-> s.value]
      BY <1>4, <1>6, Zenon DEF Body
    <2>2. s \in [type : {Move, Numeral, Simple}, value : Seq(Nat)]
      BY DEF Within, Section
    <2> QED
      BY <2>1, <2>2
  <1>8. p + HeaderSize + Length(m, p, end) = q
    BY <1>2, <1>4 DEF HeaderSize
  <1> QED
    BY <1>3, <1>5, <1>7, <1>8

\* The sequence t is the sections of l from the k-th on, and then rest.
Starts(t, l, k, rest) ==
    /\ Len(t) = Len(l) - k + 1 + Len(rest)
    /\ \A i \in k .. Len(l) : t[i - k + 1] = l[i]
    /\ \A j \in 1 .. Len(rest) : t[Len(l) - k + 1 + j] = rest[j]

\* A section in front of such a sequence.
LEMMA StartsOne ==
    ASSUME NEW l \in Seq(Sections), NEW t \in Seq(Section), NEW k \in 1 .. Len(l),
           NEW rest \in Seq(Section), Starts(t, l, k + 1, rest)
    PROVE  Starts(<<l[k]>> \o t, l, k, rest)
  <1> DEFINE u == <<l[k]>> \o t
  <1>1. /\ l[k] \in Section /\ Len(l) \in Nat /\ Len(t) \in Nat /\ Len(rest) \in Nat
        /\ k \in Nat /\ k >= 1 /\ k <= Len(l)
    BY ElementOfSeq, LenProperties DEF Sections
  <1>2. <<l[k]>> \in Seq(Section) /\ Len(<<l[k]>>) = 1 /\ <<l[k]>>[1] = l[k]
    BY <1>1
  <1>3. /\ Len(u) = 1 + Len(t)
        /\ \A i \in 1 .. (1 + Len(t)) : u[i] = IF i <= 1 THEN <<l[k]>>[i] ELSE t[i - 1]
    <2> DEFINE one == <<l[k]>>
    <2> HIDE DEF one
    <2>1. /\ Len(one \o t) = Len(one) + Len(t)
          /\ \A i \in 1 .. (Len(one) + Len(t)) :
                (one \o t)[i] = IF i <= Len(one) THEN one[i] ELSE t[i - Len(one)]
      BY <1>2, ConcatProperties DEF one
    <2> QED
      BY <1>2, <2>1 DEF one
  <1>4. u[1] = l[k] /\ \A i \in 1 .. Len(t) : u[i + 1] = t[i]
    <2>1. 1 \in 1 .. (1 + Len(t))
      BY <1>1
    <2>2. ASSUME NEW i \in 1 .. Len(t) PROVE u[i + 1] = t[i]
      <3>1. i + 1 \in 1 .. (1 + Len(t)) /\ ~(i + 1 <= 1) /\ (i + 1) - 1 = i
        BY <1>1
      <3> HIDE DEF u
      <3> QED
        BY <1>3, <3>1
    <2> HIDE DEF u
    <2> QED
      BY <1>2, <1>3, <2>1, <2>2
  <1> HIDE DEF u
  <1>5. Len(t) = Len(l) - (k + 1) + 1 + Len(rest)
    BY DEF Starts
  <1>6. ASSUME NEW i \in k .. Len(l) PROVE u[i - k + 1] = l[i]
    <2>1. CASE i = k
      BY <1>1, <1>4, <2>1
    <2>2. CASE i # k
      <3>1. i \in (k + 1) .. Len(l) /\ i - k \in 1 .. Len(t) /\ i - (k + 1) + 1 = i - k
        BY <1>1, <1>5, <2>2
      <3>2. t[i - k] = l[i]
        BY <3>1 DEF Starts
      <3> QED
        BY <1>4, <3>1, <3>2
    <2> QED
      BY <2>1, <2>2
  <1>7. ASSUME NEW j \in 1 .. Len(rest) PROVE u[Len(l) - k + 1 + j] = rest[j]
    <2> DEFINE i == Len(l) - k + j
    <2>1. /\ i \in 1 .. Len(t) /\ i + 1 = Len(l) - k + 1 + j
          /\ i = Len(l) - (k + 1) + 1 + j
      BY <1>1, <1>5
    <2>2. t[i] = rest[j]
      BY <2>1 DEF Starts
    <2> HIDE DEF i
    <2> QED
      BY <1>4, <2>1, <2>2
  <1>8. Len(u) = Len(l) - k + 1 + Len(rest)
    BY <1>1, <1>3, <1>5
  <1> QED
    BY <1>6, <1>7, <1>8 DEF Starts, u

\* What Starts says of the whole list.
LEMMA StartsConcat ==
    ASSUME NEW l \in Seq(Sections), NEW t \in Seq(Section), NEW rest \in Seq(Section),
           Starts(t, l, 1, rest)
    PROVE  t = l \o rest
  <1>1. Len(l) \in Nat /\ Len(rest) \in Nat /\ l \in Seq(Section)
    BY LenProperties, SeqMonotonic DEF Sections
  <1> DEFINE u == l \o rest
  <1>2. /\ u \in Seq(Section) /\ Len(u) = Len(l) + Len(rest)
        /\ \A i \in 1 .. (Len(l) + Len(rest)) :
                u[i] = IF i <= Len(l) THEN l[i] ELSE rest[i - Len(l)]
    BY <1>1, ConcatProperties
  <1> HIDE DEF u
  <1>3. Len(t) = Len(l) + Len(rest)
    BY <1>1 DEF Starts
  <1>4. ASSUME NEW i \in 1 .. Len(t) PROVE t[i] = u[i]
    <2>1. CASE i <= Len(l)
      <3>1. i \in 1 .. Len(l) /\ i - 1 + 1 = i
        BY <1>1, <1>3, <2>1
      <3>2. t[i] = l[i]
        BY <3>1 DEF Starts
      <3> QED
        BY <1>2, <1>3, <2>1, <3>2
    <2>2. CASE ~(i <= Len(l))
      <3>1. i - Len(l) \in 1 .. Len(rest) /\ Len(l) - 1 + 1 + (i - Len(l)) = i
        BY <1>1, <1>3, <2>2
      <3>2. t[i] = rest[i - Len(l)]
        BY <3>1 DEF Starts
      <3> QED
        BY <1>2, <1>3, <2>2, <3>2
    <2> QED
      BY <2>1, <2>2
  <1>5. t = u
    BY <1>2, <1>3, <1>4, SeqEqual
  <1> QED
    BY <1>5 DEF u

\* parse() finds the list that is laid out and then what it finds behind it;
\* nothing if the packet ends there.
LEMMA ParseLaid ==
    ASSUME NEW m \in Memory, NEW l \in Seq(Sections), NEW end \in 0 .. Size,
           NEW to \in 1 .. (end + 1), Laid(m, l, to)
    PROVE  /\ Parse(m, 1, end) = l \o Parse(m, to, end)
           /\ to = end + 1 => Parse(m, to, end) = <<>>
  <1>1. PICK f : \A p \in 1 .. (Size + 1) :
                    /\ Parse(m, p, end) = f[p]
                    /\ f[p] = ParseAt(m, p, end, f) /\ f[p] \in Seq(Section)
    BY ParseWalk
  <1>2. PICK pos : Layout(pos, m, l, to)
    BY DEF Laid
  <1>3. /\ to \in Nat /\ Size \in Nat /\ Len(l) \in Nat /\ to \in 1 .. (Size + 1)
        /\ 1 \in 1 .. (Size + 1)
    BY FormatAssumption, LenProperties
  <1> DEFINE n == Len(l) + 1
             S == {k \in 1 .. n : Starts(f[pos[k]], l, k, f[to])}
  <1>4. n \in Nat /\ 1 \in 1 .. n
    BY <1>3
  <1>5. f[to] \in Seq(Section) /\ (to = end + 1 => f[to] = <<>>)
    <2>1. f[to] = ParseAt(m, to, end, f) /\ f[to] \in Seq(Section)
      BY <1>1, <1>3
    <2>2. ASSUME to = end + 1 PROVE ~Valid(m, to, end)
      <3>1. ~(to + 1 <= end)
        BY <1>3, <2>2
      <3> QED
        BY <3>1 DEF Valid, Type, Move, Numeral, Simple
    <2> QED
      BY <2>1, <2>2 DEF ParseAt
  <1>6. ASSUME NEW i \in 1 .. n, \A j \in (i + 1) .. n : j \in S PROVE i \in S
    <2>1. CASE i = n
      <3>1. pos[i] = to
        BY <1>2, <2>1 DEF Layout
      <3>2. Len(f[to]) \in Nat
        BY <1>5, LenProperties
      <3>3. i .. Len(l) = {} /\ Len(l) - i + 1 = 0
        BY <1>3, <2>1
      <3>4. PICK rest : rest = f[to]
        OBVIOUS
      <3>5. Starts(rest, l, i, rest)
        <4>1. PICK r \in Nat : r = Len(rest)
          BY <3>2, <3>4
        <4>2. 0 + r = r /\ \A j \in 1 .. r : 0 + j = j
          OBVIOUS
        <4>3. Len(rest) = Len(l) - i + 1 + Len(rest)
          BY <3>3, <4>1, <4>2, Zenon
        <4>4. \A j \in 1 .. Len(rest) : rest[Len(l) - i + 1 + j] = rest[j]
          BY <3>3, <4>1, <4>2, Zenon
        <4> QED
          BY <3>3, <4>3, <4>4, Zenon DEF Starts
      <3> QED
        BY <3>1, <3>4, <3>5
    <2>2. CASE i # n
      <3>1. i \in 1 .. Len(l) /\ i + 1 \in (i + 1) .. n
        BY <1>3, <2>2
      <3>2. Starts(f[pos[i + 1]], l, i + 1, f[to])
        BY <1>6, <3>1
      <3>3. Within(m, pos[i], pos[i + 1], l[i], to)
        BY <1>2, <1>3, <3>1, SectionRoom
      <3>4. PICK p, q : p = pos[i] /\ q = pos[i + 1]
        OBVIOUS
      <3>5. /\ p \in 1 .. (Size + 1) /\ Valid(m, p, end)
            /\ Body(m, p, end) = l[i] /\ p + HeaderSize + Length(m, p, end) = q
        BY <3>3, <3>4, WithinBody
      <3>6. q \in 1 .. (Size + 1)
        <4>1. q \in 1 .. to
          BY <3>3, <3>4 DEF Within
        <4> QED
          BY <1>3, <4>1
      <3>7. f[p] = <<l[i]>> \o f[q]
        <4>1. f[p] = ParseAt(m, p, end, f)
          BY <1>1, <3>5
        <4> QED
          BY <3>5, <4>1, Zenon DEF ParseAt
      <3>8. f[q] \in Seq(Section) /\ Starts(f[q], l, i + 1, f[to])
        BY <1>1, <3>2, <3>4, <3>6
      <3>9. Starts(f[p], l, i, f[to])
        BY <1>5, <3>1, <3>7, <3>8, StartsOne
      <3> QED
        BY <3>4, <3>9
    <2> QED
      BY <2>1, <2>2
  <1>7. 1 \in S
    <2>1. \A i \in 1 .. n : (\A j \in (i + 1) .. n : j \in S) => i \in S
      BY <1>6
    <2> HIDE DEF S, n
    <2>2. \A i \in 1 .. n : i \in S
      BY <1>4, <2>1, Downward, Zenon
    <2> QED
      BY <1>4, <2>2
  <1>8. pos[1] = 1
    BY <1>2 DEF Layout
  <1>9. Starts(f[1], l, 1, f[to]) /\ f[1] \in Seq(Section)
    BY <1>1, <1>3, <1>7, <1>8
  <1>10. f[1] = l \o f[to]
    BY <1>5, <1>9, StartsConcat
  <1> QED
    BY <1>1, <1>3, <1>5, <1>10

-----------------------------------------------------------------------------
\* Two buffers that agree from a place on are the same to the walks from there.

Agree(m, n, from) == \A c \in from .. Size : m[c] = n[c]

\* stub().
LEMMA StubAgree ==
    ASSUME NEW m \in Memory, NEW n \in Memory, NEW from \in 1 .. (Size + 1),
           Agree(m, n, from)
    PROVE  StubFrom(m, from) = StubFrom(n, from)
  <1>1. PICK v : \A p \in 1 .. (Size + 1) :
                    StubFrom(m, p) = v[p] /\ v[p] = WalkAt(m, p, v)
    BY StubWalk
  <1>2. PICK w : \A p \in 1 .. (Size + 1) :
                    StubFrom(n, p) = w[p] /\ w[p] = WalkAt(n, p, w)
    BY StubWalk
  <1> DEFINE top == Size + 1
             S == {p \in 1 .. top : p >= from => v[p] = w[p]}
  <1>3. Size \in Nat /\ top \in Nat
    BY FormatAssumption
  <1>4. ASSUME NEW i \in 1 .. top, \A j \in (i + 1) .. top : j \in S PROVE i \in S
    <2> SUFFICES ASSUME i >= from PROVE v[i] = w[i]
      OBVIOUS
    <2>1. \A j \in (i + 1) .. (Size + 1) : v[j] = w[j]
      BY <1>3, <1>4
    <2>2. WalkAt(m, i, v) = WalkAt(m, i, w)
      BY <2>1, WalkAhead
    <2>3. WalkAt(m, i, w) = WalkAt(n, i, w)
      <3>1. ~(i + 1 > Size) => i \in from .. Size /\ i + 1 \in from .. Size
        BY <1>3
      <3>2. ~(i + 1 > Size) => m[i] = n[i] /\ m[i + 1] = n[i + 1]
        BY <3>1 DEF Agree
      <3> QED
        BY <3>2, Zenon DEF WalkAt
    <2> QED
      BY <1>1, <1>2, <2>2, <2>3
  <1>5. from \in S
    <2>1. \A i \in 1 .. top : (\A j \in (i + 1) .. top : j \in S) => i \in S
      BY <1>4
    <2>2. from \in 1 .. top
      OBVIOUS
    <2> HIDE DEF S, top
    <2>3. \A i \in 1 .. top : i \in S
      BY <1>3, <2>1, Downward, Zenon
    <2> QED
      BY <2>2, <2>3
  <1>6. v[from] = w[from]
    BY <1>3, <1>5
  <1> QED
    BY <1>1, <1>2, <1>6

\* A section.
LEMMA BodyAgree ==
    ASSUME NEW m \in Memory, NEW n \in Memory, NEW end \in 0 .. Size,
           NEW p \in 1 .. (Size + 1), Agree(m, n, p)
    PROVE  /\ Length(m, p, end) = Length(n, p, end)
           /\ Valid(m, p, end) <=> Valid(n, p, end)
           /\ Valid(m, p, end) => Body(m, p, end) = Body(n, p, end)
  <1>1. Size \in Nat /\ p \in Nat /\ end \in Nat /\ end <= Size
    BY FormatAssumption
  <1>2. p + 1 <= end => m[p] = n[p] /\ m[p + 1] = n[p + 1]
    <2>1. p + 1 <= end => p \in p .. Size /\ p + 1 \in p .. Size
      BY <1>1
    <2> QED
      BY <2>1 DEF Agree
  <1>3. Type(m, p, end) = Type(n, p, end) /\ Length(m, p, end) = Length(n, p, end)
    BY <1>2, Zenon DEF Type, Length
  <1>4. Valid(m, p, end) <=> Valid(n, p, end)
    BY <1>3, Zenon DEF Valid
  <1>5. ASSUME Valid(m, p, end) PROVE Body(m, p, end) = Body(n, p, end)
    <2>1. /\ p + 1 <= end /\ Length(m, p, end) \in Nat
          /\ p + HeaderSize + Length(m, p, end) \in (p + 1) .. (Size + 1)
      BY <1>5, ValidRoom
    <2>2. PICK v \in Nat : v = Length(m, p, end)
      BY <2>1
    <2> DEFINE lo == p + HeaderSize
               hi == p + HeaderSize + v - 1
    <2>3. p + HeaderSize + v \in (p + 1) .. (Size + 1)
      BY <2>1, <2>2, Zenon
    <2>4. lo \in Int /\ hi \in Int /\ \A i \in lo .. hi : i \in 1 .. Size /\ i \in p .. Size
      BY <1>1, <2>3 DEF HeaderSize
    <2>5. \A i \in lo .. hi : m[i] \in Nat /\ n[i] \in Nat /\ m[i] = n[i]
      BY <2>4 DEF Memory, Agree
    <2> HIDE DEF lo, hi
    <2> DEFINE s == SubSeq(m, lo, hi)
               t == SubSeq(n, lo, hi)
               k == IF lo <= hi THEN hi - lo + 1 ELSE 0
    <2>6. k \in Nat /\ \A i \in 1 .. k : lo + i - 1 \in lo .. hi
      BY <2>4
    <2>7. s \in Seq(Nat) /\ Len(s) = k /\ \A i \in 1 .. k : s[i] = m[lo + i - 1]
      BY <2>4, <2>5, SubSeqProperties
    <2>8. t \in Seq(Nat) /\ Len(t) = k /\ \A i \in 1 .. k : t[i] = n[lo + i - 1]
      BY <2>4, <2>5, SubSeqProperties
    <2> HIDE DEF s, t, k
    <2>9. \A i \in 1 .. k : s[i] = t[i]
      BY <2>5, <2>6, <2>7, <2>8
    <2>10. s = t
      BY <2>7, <2>8, <2>9, SeqEqual
    <2> QED
      BY <1>3, <2>2, <2>10, Zenon DEF Body, s, t, lo, hi
  <1> QED
    BY <1>3, <1>4, <1>5

\* parse().
LEMMA ParseAgree ==
    ASSUME NEW m \in Memory, NEW n \in Memory, NEW end \in 0 .. Size,
           NEW from \in 1 .. (Size + 1), Agree(m, n, from)
    PROVE  Parse(m, from, end) = Parse(n, from, end)
  <1>1. PICK f : \A p \in 1 .. (Size + 1) :
                    Parse(m, p, end) = f[p] /\ f[p] = ParseAt(m, p, end, f)
    BY ParseWalk
  <1>2. PICK g : \A p \in 1 .. (Size + 1) :
                    Parse(n, p, end) = g[p] /\ g[p] = ParseAt(n, p, end, g)
    BY ParseWalk
  <1> DEFINE top == Size + 1
             S == {p \in 1 .. top : p >= from => f[p] = g[p]}
  <1>3. Size \in Nat /\ top \in Nat
    BY FormatAssumption
  <1>4. ASSUME NEW i \in 1 .. top, \A j \in (i + 1) .. top : j \in S PROVE i \in S
    <2> SUFFICES ASSUME i >= from PROVE f[i] = g[i]
      OBVIOUS
    <2>1. \A j \in (i + 1) .. (Size + 1) : f[j] = g[j]
      BY <1>3, <1>4
    <2>2. ParseAt(m, i, end, f) = ParseAt(m, i, end, g)
      BY <2>1, ParseAhead
    <2>3. Agree(m, n, i)
      BY <1>3 DEF Agree
    <2>4. ParseAt(m, i, end, g) = ParseAt(n, i, end, g)
      <3>1. /\ Length(m, i, end) = Length(n, i, end)
            /\ Valid(m, i, end) <=> Valid(n, i, end)
            /\ Valid(m, i, end) => Body(m, i, end) = Body(n, i, end)
        BY <2>3, BodyAgree
      <3> QED
        BY <3>1, Zenon DEF ParseAt
    <2> QED
      BY <1>1, <1>2, <2>2, <2>4
  <1>5. from \in S
    <2>1. \A i \in 1 .. top : (\A j \in (i + 1) .. top : j \in S) => i \in S
      BY <1>4
    <2>2. from \in 1 .. top
      OBVIOUS
    <2> HIDE DEF S, top
    <2>3. \A i \in 1 .. top : i \in S
      BY <1>3, <2>1, Downward, Zenon
    <2> QED
      BY <2>2, <2>3
  <1>6. f[from] = g[from]
    BY <1>3, <1>5
  <1> QED
    BY <1>1, <1>2, <1>6

\* What simple(), numeral() and snippet() write ends with the section.
LEMMA PutBehind ==
    ASSUME NEW m \in Memory, NEW s \in Sections, NEW p \in 1 .. (Size + 1),
           NEW q \in Nat, q = p + HeaderSize + Len(s.value)
    PROVE  Agree(Put(m, p, s), m, q)
  <1> DEFINE cells == <<s.type, Len(s.value)>> \o s.value
             n == Put(m, p, s)
  <1>1. s.type \in {1, 2, 3} /\ s.value \in Seq(Nat)
    BY DEF Sections, Section, Move, Numeral, Simple
  <1>2. PICK v \in Nat : v = Len(s.value)
    BY <1>1, LenProperties
  <1>3. q = p + 2 + v /\ p \in Nat /\ Size \in Nat
    <2>1. q = p + 2 + v
      BY <1>2, Zenon DEF HeaderSize
    <2> QED
      BY <2>1, FormatAssumption
  <1>4. cells \in Seq(Nat) /\ Len(cells) = 2 + v
    <2>1. <<s.type, v>> \in Seq(Nat) /\ Len(<<s.type, v>>) = 2
      BY <1>1, <1>2
    <2> QED
      BY <1>1, <1>2, <2>1, ConcatProperties
  <1>5. n = [c \in 1 .. Size |-> IF c - p + 1 \in DOMAIN cells
                                 THEN cells[c - p + 1] ELSE m[c]]
    BY DEF Put, Memory
  <1> HIDE DEF cells, n
  <1>6. DOMAIN cells = 1 .. (2 + v)
    BY <1>4, LenProperties
  <1>7. ASSUME NEW c \in q .. Size PROVE n[c] = m[c]
    <2>1. c \in 1 .. Size /\ c - p + 1 \notin 1 .. (2 + v)
      BY <1>3
    <2> QED
      BY <1>5, <1>6, <2>1
  <1> QED
    BY <1>7 DEF Agree, n

\* section::stub() writes a header.
LEMMA EndedBehind ==
    ASSUME NEW m \in Memory, NEW p \in 1 .. (Size + 1)
    PROVE  Agree(Ended(m, p), m, p + HeaderSize)
  <1> DEFINE n == Ended(m, p)
  <1>1. n = [c \in 1 .. Size |-> IF c \in p .. (p + HeaderSize - 1) THEN 0 ELSE m[c]]
    BY DEF Ended, Memory
  <1> HIDE DEF n
  <1>2. ASSUME NEW c \in (p + HeaderSize) .. Size PROVE n[c] = m[c]
    <2>1. c \in 1 .. Size /\ c \notin p .. (p + HeaderSize - 1)
      BY FormatAssumption DEF HeaderSize
    <2> QED
      BY <1>1, <2>1
  <1> QED
    BY <1>2 DEF Agree, n

\* Agreement from a place on is agreement from any place behind it.
LEMMA AgreeOn ==
    ASSUME NEW k, NEW m, NEW n, NEW from \in Nat, NEW to \in Nat, from <= to,
           Agree(k, m, to), Agree(m, n, from)
    PROVE  Agree(k, n, to)
  <1>1. ASSUME NEW c \in to .. Size PROVE k[c] = n[c]
    <2>1. c \in from .. Size
      BY FormatAssumption
    <2> QED
      BY <2>1 DEF Agree
  <1> QED
    BY <1>1 DEF Agree

-----------------------------------------------------------------------------
\* The invariant.

Filling == {"connector", "istreamer", "ostreamer", "acks"}
Finished == {"trim", "send"}

\* From the first imbue on the list is whole up to the cursor.
ListInv ==
    /\ log \in Seq(Sections)
    /\ stage = "start" => log = <<>> /\ sect = 1 /\ mem = stale
    /\ stage \notin Finished => broken = FALSE
    /\ stage # "start" => Laid(mem, log, sect)

\* What lies behind the list is stale but for the mark of an end; when the last
\* imbue is over, the end is marked unless that one broke off behind a flight.
MarkInv ==
    /\ stage \in Filling => Agree(mem, stale, sect + HeaderSize)
    /\ stage = "ostreamer" =>
          IF count > 0 THEN Agree(mem, stale, sect) ELSE EndsAt(mem, sect)
    /\ stage \in Finished =>
          IF Unmarked THEN Agree(mem, stale, sect) ELSE EndsAt(mem, sect)

\* The cells of the first n jobs.
UsedBy(n) == IF n <= 4 THEN 2 * n ELSE 8 + 3 * (n - 4)

\* The connector has written no more than the jobs it has looked at.
JobInv == stage = "connector" => count <= 6 /\ sect <= 1 + UsedBy(count)

\* The result of the walk of trim().
SizeInv == stage = "send" => fault = "none" /\ size + 1 = StubFrom(mem, 1)

IndInv == TypeOK /\ ListInv /\ MarkInv /\ JobInv /\ SizeInv /\ FaultsKnown

\* An appended section keeps the invariant.
LEMMA AppendInv ==
    ASSUME IndInv, fault = "none", stage \in Filling, NEW s \in Sections, NEW n \in Nat,
           n > 0, Fits(s), Append1(s, n),
           stage = "connector" =>
              n <= 6 /\ sect + HeaderSize + Len(s.value) <= 1 + UsedBy(n)
    PROVE  IndInv'
  <1> DEFINE q == sect + HeaderSize + Len(s.value)
  <1>1. /\ mem \in Memory /\ stale \in Memory /\ sect \in 1 .. (Size + 1)
        /\ log \in Seq(Sections) /\ Laid(mem, log, sect) /\ broken = FALSE
        /\ Agree(mem, stale, sect + HeaderSize)
    BY DEF IndInv, TypeOK, ListInv, MarkInv, Memory, Filling, Finished
  <1>2. Len(s.value) \in Nat
    BY LenProperties DEF Sections, Section
  <1>3. /\ q \in 1 .. (Size + 1) /\ q <= Size + 1 /\ q \in Nat
        /\ sect + HeaderSize \in Nat /\ sect + HeaderSize <= q /\ q <= q + HeaderSize
        /\ q + HeaderSize \in Nat
    <2>1. PICK v \in Nat : v = Len(s.value)
      BY <1>2
    <2>2. 2 + v <= Size + 1 - sect
      BY <2>1, Zenon DEF HeaderSize, Room, Fits
    <2>3. q = sect + 2 + v
      BY <2>1, Zenon DEF HeaderSize
    <2> HIDE DEF q
    <2> QED
      BY <1>1, <2>2, <2>3, FormatAssumption DEF HeaderSize
  <1>4. /\ mem' = Put(mem, sect, s) /\ sect' = q /\ count' = n
        /\ log' = Append(log, s) /\ stale' = stale
        /\ stage' = stage /\ size' = size /\ broken' = broken /\ fault' = fault
    BY DEF Append1
  <1>5. mem' \in Memory
    BY <1>1, <1>3, <1>4, PutSection
  <1>6. log' \in Seq(Sections)
    BY <1>1, <1>4, AppendProperties
  <1>7. Laid(mem', log', sect')
    BY <1>1, <1>3, <1>4, LaidAppend
  <1>8. log' \in Seq(Section)
    BY <1>6, SeqMonotonic DEF Sections
  <1>9. Agree(mem', stale', sect') /\ Agree(mem', stale', sect' + HeaderSize)
    <2>1. Agree(Put(mem, sect, s), mem, q)
      BY <1>1, <1>3, PutBehind
    <2> HIDE DEF q
    <2>2. Agree(Put(mem, sect, s), stale, q)
      BY <1>1, <1>3, <2>1, AgreeOn
    <2>3. Agree(stale, stale, q + HeaderSize) /\ Agree(Put(mem, sect, s), Put(mem, sect, s), q + HeaderSize)
      BY DEF Agree
    <2>4. Agree(Put(mem, sect, s), stale, q + HeaderSize)
      BY <1>3, <2>2, <2>3, AgreeOn
    <2> QED
      BY <1>4, <2>2, <2>4, Zenon
  <1>10. stage = "connector" => n <= 6 /\ q <= 1 + UsedBy(n)
    OBVIOUS
  <1> HIDE DEF q
  <1>11. TypeOK'
    BY <1>1, <1>3, <1>4, <1>5, <1>8, Zenon DEF IndInv, TypeOK, Memory, Section
  <1>12. stage # "start" /\ stage # "trim" /\ stage # "send" /\ stage \notin Finished
    BY DEF Filling, Finished
  <1>13. ListInv'
    BY <1>1, <1>4, <1>6, <1>7, <1>12, Zenon DEF ListInv
  <1>14. MarkInv'
    BY <1>4, <1>9, <1>12, Zenon DEF MarkInv
  <1>15. JobInv'
    BY <1>4, <1>10, Zenon DEF JobInv
  <1>16. SizeInv' /\ FaultsKnown'
    <2>1. fault' # "walk" /\ fault' # "write"
      BY <1>4
    <2> QED
      BY <1>4, <1>12, <2>1, Zenon DEF SizeInv, FaultsKnown
  <1> QED
    BY <1>11, <1>13, <1>14, <1>15, <1>16 DEF IndInv

\* So does a write of the connector that throws in a small packet.
LEMMA ThrowsInv ==
    ASSUME IndInv, stage \in {"start", "connector"}, Size < AllJobs, WriteThrows
    PROVE  IndInv'
  <1>1. /\ mem' = mem /\ sect' = sect /\ count' = count /\ log' = log /\ stale' = stale
        /\ stage' = stage /\ size' = size /\ broken' = broken /\ fault' = "write"
    BY DEF WriteThrows
  <1>2. TypeOK' /\ ListInv' /\ JobInv'
    BY <1>1, Zenon DEF IndInv, TypeOK, ListInv, JobInv
  <1>3. MarkInv'
    BY <1>1, Zenon DEF IndInv, MarkInv, Unmarked
  <1>4. stage # "send" /\ fault' # "walk"
    BY <1>1
  <1>5. SizeInv'
    BY <1>1, <1>4, Zenon DEF SizeInv
  <1>6. FaultsKnown'
    <2>1. Size < AllJobs
      OBVIOUS
    <2> QED
      BY <1>1, <1>4, <2>1, Zenon DEF FaultsKnown, AllJobs
  <1> QED
    BY <1>2, <1>3, <1>5, <1>6 DEF IndInv

\* So does an imbue that marks the end of the list, the next one's stub() included.
LEMMA EndedInv ==
    ASSUME IndInv, fault = "none", Laid(mem, log, sect), broken = FALSE,
           Agree(mem, stale, sect + HeaderSize), mem' = Ended(mem, sect),
           NEW next \in {"connector", "istreamer", "ostreamer", "trim"}, Goto(next, mem'),
           next = "connector" => sect = 1,
           UNCHANGED <<size, broken, log, stale>>
    PROVE  IndInv'
  <1>1. mem \in Memory /\ sect \in 1 .. (Size + 1) /\ log \in Seq(Sections)
    BY DEF IndInv, TypeOK, ListInv, Memory
  <1>2. mem' \in Memory /\ Laid(mem', log, sect) /\ EndsAt(mem', sect)
    BY <1>1, EndedLaid
  <1>3. StubFrom(mem', 1) = sect
    <2>1. ASSUME NEW m \in Memory, Laid(m, log, sect), EndsAt(m, sect)
          PROVE  StubFrom(m, 1) = sect
      BY <1>1, <2>1, StubLaid
    <2> QED
      BY <1>2, <2>1
  <1>4. sect <= Size + 1 /\ ~(sect > Size + 1) /\ sect \in Nat
    BY <1>1, FormatAssumption
  <1>5. /\ sect' = sect /\ fault' = fault /\ stage' = next /\ count' = 0
        /\ size' = size /\ broken' = broken /\ log' = log /\ stale' = stale
    BY <1>3, <1>4 DEF Goto
  <1>6. Agree(mem', stale', sect' + HeaderSize)
    <2>1. Agree(Ended(mem, sect), mem, sect + HeaderSize)
      BY <1>1, EndedBehind
    <2>2. sect + HeaderSize \in Nat /\ sect + HeaderSize <= sect + HeaderSize
      BY <1>4 DEF HeaderSize
    <2>3. Agree(Ended(mem, sect), stale, sect + HeaderSize)
      BY <2>1, <2>2, AgreeOn
    <2> QED
      BY <1>5, <2>3, Zenon
  <1>7. TypeOK'
    <2>1. 0 \in Nat /\ next \in Stages
      BY DEF Stages
    <2> QED
      BY <1>2, <1>5, <2>1, Zenon DEF IndInv, TypeOK, Memory
  <1>8. next # "start" /\ next # "send"
    OBVIOUS
  <1>9. ListInv'
    BY <1>1, <1>2, <1>5, <1>8, Zenon DEF ListInv
  <1>10. MarkInv'
    <2>1. ~(count' > 0) /\ EndsAt(mem', sect')
      BY <1>2, <1>5
    <2> QED
      BY <1>6, <2>1, Zenon DEF MarkInv, Unmarked
  <1>11. JobInv'
    <2>1. 0 <= 6 /\ 1 <= 1 + UsedBy(0)
      BY DEF UsedBy
    <2> QED
      BY <1>5, <2>1, Zenon DEF JobInv
  <1>12. SizeInv' /\ FaultsKnown'
    <2>1. fault' # "walk" /\ fault' # "write"
      BY <1>5
    <2> QED
      BY <1>5, <1>8, <2>1, Zenon DEF SizeInv, FaultsKnown
  <1> QED
    BY <1>7, <1>9, <1>10, <1>11, <1>12 DEF IndInv

\* A value of k cells.
LEMMA ValueShaped ==
    ASSUME NEW k \in Nat, NEW v \in [1 .. k -> Data]
    PROVE  v \in Seq(Nat) /\ Len(v) = k
  <1>1. v \in [1 .. k -> Nat]
    BY FormatAssumption
  <1> QED
    BY <1>1

\* The jobs of the connector are simple sections and numerals.
LEMMA JobShaped ==
    ASSUME NEW job \in 1 .. Len(Jobs), NEW v \in [1 .. JobSize(Jobs[job]) -> Data]
    PROVE  /\ [type |-> Jobs[job], value |-> v] \in Sections
           /\ job \in 1 .. 6
           /\ Len(v) = IF job <= 4 THEN 0 ELSE 1
  <1> DEFINE k == JobSize(Jobs[job])
  <1>1. job \in 1 .. 6
    BY DEF Jobs
  <1>2. /\ Jobs[job] = IF job <= 4 THEN Simple ELSE Numeral
        /\ k = IF job <= 4 THEN 0 ELSE 1
    <2>1. Jobs[job] = IF job <= 4 THEN Simple ELSE Numeral
      <3>1. job \in {1, 2, 3, 4, 5, 6}
        BY <1>1
      <3> QED
        BY <3>1 DEF Jobs
    <2> QED
      BY <2>1 DEF JobSize, ValueSize, Simple, Numeral
  <1>3. k \in Nat
    BY <1>2
  <1>4. v \in Seq(Nat) /\ Len(v) = k
    <2> HIDE DEF k
    <2>1. v \in [1 .. k -> Data]
      BY DEF k
    <2> QED
      BY <1>3, <2>1, ValueShaped
  <1> HIDE DEF k
  <1>5. [type |-> Jobs[job], value |-> v] \in Section
    BY <1>2, <1>4, Zenon DEF Section
  <1>6. Shaped([type |-> Jobs[job], value |-> v])
    BY <1>2, <1>4, <1>5 DEF Shaped, ValueSize, Simple, Numeral, Move
  <1> QED
    BY <1>1, <1>2, <1>4, <1>5, <1>6, Zenon DEF Sections

\* A numeral holds one value.
LEMMA NumeralShaped ==
    ASSUME NEW v \in Data
    PROVE  [type |-> Numeral, value |-> <<v>>] \in Sections /\ Len(<<v>>) = ValueSize
  <1>1. <<v>> \in Seq(Nat) /\ Len(<<v>>) = ValueSize
    BY FormatAssumption DEF ValueSize
  <1> DEFINE one == <<v>>
  <1> HIDE DEF one
  <1>2. [type |-> Numeral, value |-> one] \in Section
    BY <1>1 DEF Section, one
  <1>3. Len(one) = ValueSize
    BY <1>1 DEF one
  <1>4. [type |-> Numeral, value |-> one] \in Sections
    BY <1>2, <1>3 DEF Sections, Shaped, Simple, Numeral, Move
  <1> QED
    BY <1>1, <1>4 DEF one

\* A move holds a handle and at least a cell of data.
LEMMA MoveShaped ==
    ASSUME NEW n \in Nat, n >= 1, NEW v \in [1 .. (HandleSize + n) -> Data]
    PROVE  /\ [type |-> Move, value |-> v] \in Sections
           /\ Len(v) = HandleSize + n
  <1>1. HandleSize + n \in Nat /\ HandleSize + n > HandleSize
    BY DEF HandleSize
  <1>2. v \in Seq(Nat) /\ Len(v) = HandleSize + n
    BY <1>1, ValueShaped
  <1>3. [type |-> Move, value |-> v] \in Section
    BY <1>2 DEF Section
  <1> QED
    BY <1>1, <1>2, <1>3 DEF Sections, Shaped, Simple, Numeral, Move

\* The streamers append a numeral only where it fits.
LEMMA NumeralInv ==
    ASSUME IndInv, fault = "none", stage \in Filling, stage # "connector", AppendNumeral
    PROVE  IndInv'
  <1>1. PICK v \in Data : Append1([type |-> Numeral, value |-> <<v>>], count + 1)
    BY DEF AppendNumeral
  <1> DEFINE s == [type |-> Numeral, value |-> <<v>>]
  <1>2. s \in Sections /\ s.value = <<v>>
    BY NumeralShaped
  <1>3. Fits(s)
    <2>1. Len(s.value) = 1 /\ Room >= 3
      BY <1>2, NumeralShaped DEF AppendNumeral, NumeralFits, HeaderSize, ValueSize
    <2>2. Room \in Int
      BY FormatAssumption DEF Room, IndInv, TypeOK
    <2> HIDE DEF s
    <2> QED
      BY <2>1, <2>2 DEF HeaderSize, Fits
  <1>4. count + 1 \in Nat /\ count + 1 > 0
    BY DEF IndInv, TypeOK
  <1> HIDE DEF s
  <1> QED
    BY <1>1, <1>2, <1>3, <1>4, AppendInv DEF s

\* The connector writes a job, or throws at a ping in a packet that cannot hold
\* all the jobs.
LEMMA ConnectorInv ==
    ASSUME IndInv, fault = "none", ConnectorAppends
    PROVE  IndInv'
  <1>1. PICK job \in (count + 1) .. Len(Jobs) :
            \E v \in [1 .. JobSize(Jobs[job]) -> Data] :
                Append1([type |-> Jobs[job], value |-> v], job)
    BY DEF ConnectorAppends
  <1>2. PICK v \in [1 .. JobSize(Jobs[job]) -> Data] :
            Append1([type |-> Jobs[job], value |-> v], job)
    BY <1>1
  <1> DEFINE s == [type |-> Jobs[job], value |-> v]
             k == IF job <= 4 THEN 0 ELSE 1
  <1>3. count \in Nat /\ sect \in Nat /\ Size \in Nat /\ count <= 6 /\ sect <= 1 + UsedBy(count)
    BY FormatAssumption DEF IndInv, TypeOK, JobInv, ConnectorAppends
  <1>4. job \in 1 .. Len(Jobs) /\ job \in Nat /\ count < job
    BY <1>3 DEF Jobs
  <1>5. s \in Sections /\ job \in 1 .. 6 /\ Len(s.value) = k
    BY <1>4, JobShaped
  <1>6. sect + 2 + k <= 1 + UsedBy(job) /\ UsedBy(job) <= 14
    BY <1>3, <1>4, <1>5 DEF UsedBy
  <1>7. k \in Nat /\ UsedBy(job) \in Int
    BY <1>5 DEF UsedBy
  <1> HIDE DEF s, k
  <1>8. Append1(s, job) /\ stage = "connector" /\ stage \in Filling
    BY <1>2 DEF s, ConnectorAppends, Filling
  <1>9. CASE Fits(s)
    <2>1. job \in Nat /\ job > 0 /\ job <= 6
      BY <1>5
    <2>2. sect + HeaderSize + Len(s.value) <= 1 + UsedBy(job)
      BY <1>5, <1>6, Zenon DEF HeaderSize
    <2> QED
      BY <1>5, <1>8, <1>9, <2>1, <2>2, AppendInv
  <1>10. CASE ~Fits(s)
    <2>1. WriteThrows
      BY <1>8, <1>10 DEF Append1
    <2>2. ~(2 + k <= Size + 1 - sect)
      BY <1>5, <1>10, Zenon DEF Fits, Room, HeaderSize
    <2>3. Size < AllJobs
      BY <1>3, <1>6, <1>7, <2>2 DEF AllJobs, HeaderSize, ValueSize
    <2> QED
      BY <1>8, <2>1, <2>3, ThrowsInv
  <1> QED
    BY <1>9, <1>10

\* The first step clears the first header, or throws where there is no room for one.
LEMMA StartsInv ==
    ASSUME IndInv, fault = "none", ConnectorStarts
    PROVE  IndInv'
  <1>1. CASE Size < HeaderSize
    <2>1. WriteThrows /\ stage = "start"
      BY <1>1 DEF ConnectorStarts
    <2>2. Size < AllJobs
      BY <1>1, FormatAssumption DEF AllJobs, HeaderSize, ValueSize
    <2> QED
      BY <2>1, <2>2, ThrowsInv
  <1>2. CASE ~(Size < HeaderSize)
    <2>1. log = <<>> /\ sect = 1 /\ mem = stale /\ broken = FALSE
      BY DEF IndInv, ListInv, ConnectorStarts, Finished
    <2>2. Laid(mem, log, sect)
      BY <2>1, LaidEmpty
    <2>3. PICK next \in {"connector", "istreamer", "trim"} : Goto(next, mem')
      BY <1>2 DEF ConnectorStarts
    <2>4. mem' = Ended(mem, sect) /\ UNCHANGED <<size, broken, log, stale>>
      BY <1>2, <2>1 DEF ConnectorStarts
    <2>5. Agree(mem, stale, sect + HeaderSize)
      BY <2>1 DEF Agree
    <2> QED
      BY <2>1, <2>2, <2>3, <2>4, <2>5, EndedInv
  <1> QED
    BY <1>1, <1>2

\* Flights are cut to the room there is.
LEMMA MovesInv ==
    ASSUME IndInv, fault = "none", OstreamerMoves
    PROVE  IndInv'
  <1>1. PICK n \in 1 .. MaxChunk :
            /\ n <= Room - HeaderSize - HandleSize
            /\ \E v \in [1 .. (HandleSize + n) -> Data] :
                  Append1([type |-> Move, value |-> v], count + 1)
    BY DEF OstreamerMoves
  <1>2. PICK v \in [1 .. (HandleSize + n) -> Data] :
            Append1([type |-> Move, value |-> v], count + 1)
    BY <1>1
  <1> DEFINE s == [type |-> Move, value |-> v]
  <1>3. n \in Nat /\ n >= 1
    BY FormatAssumption
  <1>4. s \in Sections /\ Len(v) = HandleSize + n /\ s.value = v
    BY <1>3, MoveShaped
  <1> HIDE DEF s
  <1>5. Fits(s)
    <2>1. Len(s.value) = 1 + n
      BY <1>4 DEF HandleSize
    <2>2. PICK k \in Nat : k = Len(s.value) /\ k = 1 + n
      BY <1>3, <2>1
    <2>3. PICK r \in Int : r = Room
      BY FormatAssumption DEF Room, IndInv, TypeOK
    <2>4. n <= r - 2 - 1
      BY <1>1, <2>3, Zenon DEF HeaderSize, HandleSize
    <2>5. 2 + k <= r
      BY <1>3, <2>2, <2>4
    <2> QED
      BY <2>2, <2>3, <2>5, Zenon DEF HeaderSize, Fits
  <1>6. stage \in Filling /\ stage # "connector"
    BY DEF OstreamerMoves, Filling
  <1>7. count + 1 \in Nat /\ count + 1 > 0
    BY DEF IndInv, TypeOK
  <1> QED
    BY <1>2, <1>4, <1>5, <1>6, <1>7, AppendInv DEF s

\* The return on broken_pipe leaves everything as it is.
LEMMA BreaksInv ==
    ASSUME IndInv, fault = "none", OstreamerBreaks
    PROVE  IndInv'
  <1>1. /\ stage = "ostreamer" /\ stage' = "trim" /\ broken' = TRUE
        /\ mem' = mem /\ sect' = sect /\ count' = count /\ size' = size
        /\ fault' = fault /\ log' = log /\ stale' = stale
    BY DEF OstreamerBreaks
  <1>2. /\ "trim" \in Stages /\ "trim" \in Finished /\ "trim" \notin Filling
        /\ "trim" # "start" /\ "trim" # "connector" /\ "trim" # "send"
        /\ "ostreamer" # "start"
    BY DEF Stages, Finished, Filling
  <1>3. TypeOK'
    BY <1>1, <1>2, Zenon DEF IndInv, TypeOK
  <1>4. ListInv'
    BY <1>1, <1>2, Zenon DEF IndInv, ListInv
  <1>5. MarkInv'
    BY <1>1, <1>2, Zenon DEF IndInv, MarkInv, Unmarked
  <1>6. JobInv' /\ SizeInv'
    BY <1>1, <1>2, Zenon DEF JobInv, SizeInv
  <1>7. FaultsKnown'
    <2>1. fault' # "walk" /\ fault' # "write"
      BY <1>1
    <2> QED
      BY <2>1, Zenon DEF FaultsKnown
  <1> QED
    BY <1>3, <1>4, <1>5, <1>6, <1>7 DEF IndInv

\* The walk of trim() goes wrong only where the end is not marked.
LEMMA TrimInv ==
    ASSUME IndInv, fault = "none", Trim
    PROVE  IndInv'
  <1>1. /\ stage = "trim" /\ mem' = mem /\ sect' = sect /\ count' = count
        /\ broken' = broken /\ log' = log /\ stale' = stale
    BY DEF Trim
  <1>2. /\ mem \in Memory /\ stale \in Memory /\ sect \in 1 .. (Size + 1)
        /\ log \in Seq(Sections) /\ Laid(mem, log, sect)
        /\ IF Unmarked THEN Agree(mem, stale, sect) ELSE EndsAt(mem, sect)
    BY <1>1 DEF IndInv, TypeOK, ListInv, MarkInv, Memory, Finished
  <1>3. /\ StubFrom(mem, 1) \in sect .. (Size + 2)
        /\ StubFrom(mem, 1) = StubFrom(mem, sect)
        /\ EndsAt(mem, sect) => StubFrom(mem, 1) = sect
    BY <1>2, StubLaid
  <1>4. PICK u \in Nat : u = StubFrom(mem, 1) /\ u >= 1
    BY <1>2, <1>3, FormatAssumption
  <1>5. /\ "send" \in Stages /\ "trim" \in Finished /\ "send" \in Finished
        /\ "send" \notin Filling /\ "trim" \notin Filling
        /\ "send" # "start" /\ "send" # "connector" /\ "send" # "ostreamer"
        /\ "trim" # "start" /\ "trim" # "connector" /\ "trim" # "ostreamer" /\ "trim" # "send"
    BY DEF Stages, Finished, Filling
  <1>6. Unmarked' = Unmarked
    BY <1>1, Zenon DEF Unmarked
  <1>7. CASE u > Size + 1
    <2>1. fault' = "walk" /\ stage' = stage /\ size' = size
      BY <1>4, <1>7 DEF Trim
    <2>2. ~EndsAt(mem, sect)
      BY <1>2, <1>3, <1>4, <1>7, FormatAssumption
    <2>3. Unmarked /\ Agree(mem, stale, sect)
      BY <1>2, <2>2
    <2>4. StubFrom(stale, sect) > Size + 1
      BY <1>2, <1>3, <1>4, <1>7, <2>3, StubAgree
    <2>5. TypeOK' /\ ListInv' /\ JobInv'
      BY <1>1, <1>5, <2>1, Zenon DEF IndInv, TypeOK, ListInv, JobInv
    <2>6. MarkInv' /\ SizeInv'
      BY <1>1, <1>2, <1>5, <1>6, <2>1, Zenon DEF MarkInv, SizeInv
    <2>7. FaultsKnown'
      <3>1. fault' # "write"
        BY <2>1
      <3> QED
        BY <1>1, <1>6, <2>1, <2>3, <2>4, <3>1, Zenon DEF FaultsKnown
    <2> QED
      BY <2>5, <2>6, <2>7 DEF IndInv
  <1>8. CASE ~(u > Size + 1)
    <2>1. fault' = fault /\ stage' = "send" /\ size' = u - 1
      BY <1>4, <1>8 DEF Trim
    <2>2. u - 1 \in 0 .. Size /\ (u - 1) + 1 = u
      BY <1>4, <1>8, FormatAssumption
    <2>3. TypeOK'
      BY <1>1, <1>5, <2>1, <2>2, Zenon DEF IndInv, TypeOK
    <2>4. ListInv' /\ JobInv'
      BY <1>1, <1>2, <1>5, <2>1, Zenon DEF ListInv, JobInv
    <2>5. MarkInv'
      BY <1>1, <1>2, <1>5, <1>6, <2>1, Zenon DEF MarkInv
    <2>6. SizeInv'
      BY <1>1, <1>4, <2>1, <2>2, Zenon DEF SizeInv
    <2>7. FaultsKnown'
      <3>1. fault' # "walk" /\ fault' # "write"
        BY <2>1
      <3> QED
        BY <3>1, Zenon DEF FaultsKnown
    <2> QED
      BY <2>3, <2>4, <2>5, <2>6, <2>7 DEF IndInv
  <1> QED
    BY <1>7, <1>8

\* Every step keeps the invariant.
LEMMA StepInv ==
    ASSUME IndInv, [Next]_vars
    PROVE  IndInv'
  <1>1. CASE fault = "none" /\ ConnectorStarts
    BY <1>1, StartsInv
  <1>2. CASE fault = "none" /\ ConnectorAppends
    BY <1>2, ConnectorInv
  <1>3. CASE fault = "none" /\ ImbueEnds
    <2>1. PICK step \in {<<"connector", "istreamer">>, <<"connector", "trim">>,
                         <<"istreamer", "ostreamer">>, <<"acks", "trim">>} :
              stage = step[1] /\ mem' = Ended(mem, sect) /\ Goto(step[2], mem')
      BY <1>3 DEF ImbueEnds
    <2>2. /\ stage \in Filling /\ stage # "start" /\ stage \notin Finished
          /\ step[2] \in {"istreamer", "ostreamer", "trim"}
      BY <2>1 DEF Filling, Finished
    <2>3. Laid(mem, log, sect) /\ broken = FALSE /\ Agree(mem, stale, sect + HeaderSize)
      BY <2>2 DEF IndInv, ListInv, MarkInv
    <2>4. UNCHANGED <<size, broken, log, stale>>
      BY <1>3 DEF ImbueEnds
    <2>5. step[2] \in {"connector", "istreamer", "ostreamer", "trim"} /\ step[2] # "connector"
      BY <2>2
    <2> QED
      BY <1>3, <2>1, <2>3, <2>4, <2>5, EndedInv
  <1>4. CASE fault = "none" /\ IstreamerAppends
    BY <1>4, NumeralInv DEF IstreamerAppends, Filling
  <1>5. CASE fault = "none" /\ OstreamerMoves
    BY <1>5, MovesInv
  <1>6. CASE fault = "none" /\ OstreamerBreaks
    BY <1>6, BreaksInv
  <1>7. CASE fault = "none" /\ OstreamerAcks
    <2>1. /\ stage = "ostreamer" /\ stage' = "acks" /\ count' = 0
          /\ mem' = mem /\ sect' = sect /\ size' = size
          /\ broken' = broken /\ fault' = fault /\ log' = log /\ stale' = stale
      BY <1>7 DEF OstreamerAcks
    <2>2. /\ 0 \in Nat /\ "acks" \in Stages
          /\ "ostreamer" \in Filling /\ "ostreamer" \notin Finished /\ "ostreamer" # "start"
          /\ "acks" \in Filling /\ "acks" \notin Finished
          /\ "acks" # "start" /\ "acks" # "send" /\ "acks" # "ostreamer" /\ "acks" # "connector"
      BY DEF Stages, Filling, Finished
    <2>3. TypeOK'
      BY <2>1, <2>2, Zenon DEF IndInv, TypeOK
    <2>4. ListInv' /\ MarkInv'
      BY <2>1, <2>2, Zenon DEF IndInv, ListInv, MarkInv
    <2>5. JobInv' /\ SizeInv'
      BY <2>1, <2>2, Zenon DEF JobInv, SizeInv
    <2>6. FaultsKnown'
      <3>1. fault' # "walk" /\ fault' # "write"
        BY <1>7, <2>1
      <3> QED
        BY <3>1, Zenon DEF FaultsKnown
    <2> QED
      BY <2>3, <2>4, <2>5, <2>6 DEF IndInv
  <1>8. CASE fault = "none" /\ OstreamerAppends
    BY <1>8, NumeralInv DEF OstreamerAppends, Filling
  <1>9. CASE fault = "none" /\ Trim
    BY <1>9, TrimInv
  <1>10. CASE UNCHANGED vars
    <2>1. /\ stage' = stage /\ size' = size /\ count' = count
          /\ mem' = mem /\ sect' = sect /\ stale' = stale
          /\ broken' = broken /\ fault' = fault /\ log' = log
      BY <1>10 DEF vars
    <2>2. TypeOK' /\ ListInv' /\ JobInv'
      BY <2>1, Zenon DEF IndInv, TypeOK, ListInv, JobInv
    <2>3. MarkInv' /\ SizeInv'
      BY <2>1, Zenon DEF IndInv, MarkInv, SizeInv, Unmarked
    <2>4. FaultsKnown'
      BY <2>1, Zenon DEF IndInv, FaultsKnown, Unmarked
    <2> QED
      BY <2>2, <2>3, <2>4 DEF IndInv
  <1> QED
    BY <1>1, <1>2, <1>3, <1>4, <1>5, <1>6, <1>7, <1>8, <1>9, <1>10 DEF Next

\* The invariant holds of every behaviour of produce(): the sections of the packet
\* lie one behind the other in front of the cursor, and behind it lies what the
\* buffer held, but for the mark of the end.
THEOREM Inductive == Spec => []IndInv
  <1>1. Init => IndInv
    <2> SUFFICES ASSUME Init PROVE IndInv
      OBVIOUS
    <2>1. /\ mem \in [1 .. Size -> Nat] /\ stage = "start" /\ sect = 1 /\ count = 0
          /\ size = 0 /\ broken = FALSE /\ fault = "none" /\ log = <<>> /\ stale = mem
      BY FormatAssumption DEF Init
    <2>2. log \in Seq(Section) /\ log \in Seq(Sections)
      BY <2>1, EmptySeq
    <2>3. 1 \in 1 .. (Size + 1) /\ 0 \in 0 .. Size /\ 0 \in Nat /\ "start" \in Stages
      BY FormatAssumption DEF Stages
    <2>4. TypeOK
      BY <2>1, <2>2, <2>3, Zenon DEF TypeOK, Section
    <2>5. /\ "start" \notin Filling /\ "start" \notin Finished
          /\ "start" # "ostreamer" /\ "start" # "connector" /\ "start" # "send"
          /\ "none" # "walk" /\ "none" # "write"
      BY DEF Filling, Finished
    <2>6. ListInv /\ MarkInv /\ JobInv /\ SizeInv /\ FaultsKnown
      BY <2>1, <2>2, <2>5, Zenon DEF ListInv, MarkInv, JobInv, SizeInv, FaultsKnown
    <2> QED
      BY <2>4, <2>6 DEF IndInv
  <1>2. IndInv /\ [Next]_vars => IndInv'
    BY StepInv
  <1> QED
    BY <1>1, <1>2, PTL DEF Spec

\* Types, the bounds of the cursor and of the packet included.
THEOREM TypeCorrect == Spec => []TypeOK
  <1>1. IndInv => TypeOK
    BY DEF IndInv
  <1> QED
    BY <1>1, Inductive, PTL

\* For every size of the packet and everything the buffer held before, the receiver
\* parses exactly what the imbues appended, and behind an end that is not marked
\* exactly what the buffer held there.
THEOREM FormatCorrect == Spec => []FormatKept
  <1>1. IndInv => FormatKept
    <2> SUFFICES ASSUME IndInv, stage = "send"
                 PROVE  Parse(mem, 1, size) =
                          log \o (IF Unmarked THEN Parse(stale, sect, size) ELSE <<>>)
      BY DEF FormatKept
    <2>1. /\ mem \in Memory /\ stale \in Memory /\ log \in Seq(Sections)
          /\ size \in 0 .. Size /\ size + 1 = StubFrom(mem, 1) /\ sect \in 1 .. (Size + 1)
          /\ Laid(mem, log, sect)
          /\ IF Unmarked THEN Agree(mem, stale, sect) ELSE EndsAt(mem, sect)
      BY DEF IndInv, TypeOK, ListInv, MarkInv, SizeInv, Memory, Finished
    <2>2. /\ StubFrom(mem, 1) \in sect .. (Size + 2)
          /\ EndsAt(mem, sect) => StubFrom(mem, 1) = sect
      BY <2>1, StubLaid
    <2>3. sect \in 1 .. (size + 1)
      BY <2>1, <2>2, FormatAssumption
    <2>4. /\ Parse(mem, 1, size) = log \o Parse(mem, sect, size)
          /\ sect = size + 1 => Parse(mem, sect, size) = <<>>
      BY <2>1, <2>3, ParseLaid
    <2>5. CASE Unmarked
      <3>1. Parse(mem, sect, size) = Parse(stale, sect, size)
        BY <2>1, <2>5, ParseAgree
      <3> QED
        BY <2>4, <2>5, <3>1, Zenon
    <2>6. CASE ~Unmarked
      <3>1. sect = size + 1
        BY <2>1, <2>2, <2>6, Zenon
      <3> QED
        BY <2>4, <2>6, <3>1, Zenon
    <2> QED
      BY <2>5, <2>6
  <1> QED
    BY <1>1, Inductive, PTL

\* For every size of the packet, the only exceptions are those of the connector in
\* a packet that cannot hold its jobs and of trim() behind an end that is not marked.
THEOREM FaultsOnly == Spec => []FaultsKnown
  <1>1. IndInv => FaultsKnown
    BY DEF IndInv
  <1> QED
    BY <1>1, Inductive, PTL

=============================================================================
