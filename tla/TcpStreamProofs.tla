-------------------------- MODULE TcpStreamProofs --------------------------
(***************************************************************************)
(* Theorems about TcpStream for every word size, every size of the buffers *)
(* and every set of sizes of reads and writes.                             *)
(***************************************************************************)
EXTENDS TcpStream, StreamCipherProofs, SequenceTheorems, WellFoundedInduction

-----------------------------------------------------------------------------
\* The sum of a queue.  The library's induction theorems take an operator; here
\* a property is a set of numbers, and a set that is not all of 0 .. n has a
\* least number missing.

\* The prefix sums of the first n elements of q.
Prefix(g, q, n) ==
    /\ g \in [0 .. n -> Nat] /\ g[0] = 0
    /\ \A i \in 1 .. n : g[i] = g[i - 1] + q[i]

\* A set with zero and the successors of its elements has the numbers up to n.
LEMMA Induction ==
    ASSUME NEW n \in Nat, NEW S, 0 \in S, \A i \in 0 .. (n - 1) : i \in S => i + 1 \in S
    PROVE  \A i \in 0 .. n : i \in S
  <1> SUFFICES ASSUME (0 .. n) \ S # {} PROVE FALSE
    OBVIOUS
  <1> DEFINE less == OpToRel(<, Nat)
  <1>1. PICK x \in (0 .. n) \ S : \A y \in (0 .. n) \ S : ~(<<y, x>> \in less)
    <2>1. (0 .. n) \ S \subseteq Nat
      OBVIOUS
    <2> QED
      BY <2>1, WFMin, NatLessThanWellFounded
  <1>2. x # 0 /\ x - 1 \in 0 .. (n - 1)
    OBVIOUS
  <1>3. x - 1 \notin S
    BY <1>2
  <1>4. <<x - 1, x>> \in less
    BY <1>2 DEF OpToRel
  <1>5. x - 1 \in (0 .. n) \ S
    BY <1>2, <1>3
  <1> HIDE DEF less
  <1> QED
    BY <1>1, <1>4, <1>5

\* Prefix sums exist.
LEMMA PrefixExists ==
    ASSUME NEW q \in Seq(Nat)
    PROVE  \E g : Prefix(g, q, Len(q))
  <1> DEFINE S == {n \in 0 .. Len(q) : \E g : Prefix(g, q, n)}
  <1>1. 0 \in S
    <2>1. Prefix([i \in 0 .. 0 |-> 0], q, 0)
      BY DEF Prefix
    <2> QED
      BY <2>1
  <1>2. ASSUME NEW n \in 0 .. (Len(q) - 1), n \in S PROVE n + 1 \in S
    <2>1. PICK g : Prefix(g, q, n)
      BY <1>2
    <2> DEFINE h == [i \in 0 .. (n + 1) |-> IF i = n + 1 THEN g[n] + q[n + 1] ELSE g[i]]
    <2>2. q[n + 1] \in Nat /\ g[n] \in Nat
      BY <2>1 DEF Prefix
    <2>3. h \in [0 .. (n + 1) -> Nat] /\ h[0] = 0
      BY <2>1, <2>2 DEF Prefix
    <2>4. ASSUME NEW i \in 1 .. (n + 1) PROVE h[i] = h[i - 1] + q[i]
      BY <2>1, <2>2 DEF Prefix
    <2>5. Prefix(h, q, n + 1)
      BY <2>3, <2>4 DEF Prefix
    <2> QED
      BY <2>5
  <1>3. Len(q) \in Nat
    OBVIOUS
  <1> HIDE DEF S
  <1>4. Len(q) \in S
    <2>1. \A i \in 0 .. (Len(q) - 1) : i \in S => i + 1 \in S
      BY <1>1, <1>2, <1>3
    <2>2. \A i \in 0 .. Len(q) : i \in S
      BY <1>1, <1>2, <1>3, <2>1, Induction, Zenon
    <2> QED
      BY <1>1, <1>2, <1>3, <2>2
  <1> QED
    BY <1>4 DEF S

\* The sum is the last prefix sum.
LEMMA SumPrefix ==
    ASSUME NEW q \in Seq(Nat)
    PROVE  \E g : Prefix(g, q, Len(q)) /\ Sum(q) = g[Len(q)]
  <1> DEFINE Eq(f) == f = [i \in 0 .. Len(q) |-> IF i = 0 THEN 0 ELSE f[i - 1] + q[i]]
             f0 == CHOOSE f : Eq(f)
  <1>1. PICK g : Prefix(g, q, Len(q))
    BY PrefixExists
  <1>2. Eq(g)
    <2>1. ASSUME NEW i \in 0 .. Len(q)
          PROVE  g[i] = IF i = 0 THEN 0 ELSE g[i - 1] + q[i]
      BY <1>1 DEF Prefix
    <2>2. g \in [0 .. Len(q) -> Nat]
      BY <1>1 DEF Prefix
    <2> QED
      BY <2>1, <2>2
  <1>3. Eq(f0)
    BY <1>2
  <1>4. Sum(q) = f0[Len(q)]
    BY DEF Sum
  <1> HIDE DEF f0
  <1>5. DOMAIN f0 = 0 .. Len(q) /\ Len(q) \in Nat
    BY <1>3
  <1>6. f0[0] = 0
    BY <1>3, <1>5
  <1>7. \A i \in 1 .. Len(q) : f0[i] = f0[i - 1] + q[i]
    BY <1>3, <1>5
  <1> DEFINE S == {i \in 0 .. Len(q) : f0[i] = g[i]}
  <1>8. 0 \in S
    BY <1>1, <1>5, <1>6 DEF Prefix
  <1>9. ASSUME NEW i \in 0 .. (Len(q) - 1), i \in S PROVE i + 1 \in S
    <2>1. i + 1 \in 1 .. Len(q) /\ (i + 1) - 1 = i
      BY <1>5
    <2>2. f0[i + 1] = f0[i] + q[i + 1] /\ g[i + 1] = g[i] + q[i + 1]
      BY <1>1, <1>7, <2>1 DEF Prefix
    <2> QED
      BY <1>9, <2>1, <2>2
  <1> HIDE DEF S
  <1>10. Len(q) \in S
    <2>1. \A i \in 0 .. (Len(q) - 1) : i \in S => i + 1 \in S
      BY <1>5, <1>8, <1>9
    <2>2. \A i \in 0 .. Len(q) : i \in S
      BY <1>5, <1>8, <1>9, <2>1, Induction, Zenon
    <2> QED
      BY <1>5, <1>8, <1>9, <2>2
  <1> QED
    BY <1>1, <1>4, <1>10 DEF S

\* A sum is a size.
LEMMA SumType ==
    ASSUME NEW q \in Seq(Nat)
    PROVE  Sum(q) \in Nat
  <1>1. PICK g : Prefix(g, q, Len(q)) /\ Sum(q) = g[Len(q)]
    BY SumPrefix
  <1>2. Len(q) \in 0 .. Len(q)
    OBVIOUS
  <1> QED
    BY <1>1, <1>2 DEF Prefix

\* The sum of no buffers.
LEMMA SumEmpty == Sum(<<>>) = 0
  <1>1. <<>> \in Seq(Nat) /\ Len(<<>>) = 0
    OBVIOUS
  <1>2. PICK g : Prefix(g, <<>>, 0) /\ Sum(<<>>) = g[0]
    BY <1>1, SumPrefix
  <1> QED
    BY <1>2 DEF Prefix

\* A buffer is put in a queue.
LEMMA SumAppend ==
    ASSUME NEW q \in Seq(Nat), NEW n \in Nat
    PROVE  Sum(Append(q, n)) = Sum(q) + n
  <1> DEFINE r == Append(q, n)
  <1>1. /\ r \in Seq(Nat) /\ Len(r) = Len(q) + 1 /\ Len(q) \in Nat
        /\ r[Len(q) + 1] = n /\ \A i \in 1 .. Len(q) : r[i] = q[i]
    OBVIOUS
  <1> HIDE DEF r
  <1>2. PICK g : Prefix(g, q, Len(q)) /\ Sum(q) = g[Len(q)]
    BY SumPrefix
  <1>3. PICK h : Prefix(h, r, Len(r)) /\ Sum(r) = h[Len(r)]
    BY <1>1, SumPrefix
  <1> DEFINE S == {i \in 0 .. Len(q) : g[i] = h[i]}
  <1>4. 0 \in S
    BY <1>1, <1>2, <1>3 DEF Prefix
  <1>5. ASSUME NEW i \in 0 .. (Len(q) - 1), i \in S PROVE i + 1 \in S
    <2>1. i + 1 \in 1 .. Len(q) /\ i + 1 \in 1 .. Len(r) /\ (i + 1) - 1 = i
      BY <1>1
    <2>2. /\ g[i + 1] = g[i] + q[i + 1] /\ h[i + 1] = h[i] + r[i + 1]
          /\ q[i + 1] = r[i + 1] /\ g[i] = h[i]
      BY <1>1, <1>2, <1>3, <1>5, <2>1 DEF Prefix
    <2> QED
      BY <2>1, <2>2
  <1> HIDE DEF S
  <1>6. Len(q) \in S
    <2>1. \A i \in 0 .. (Len(q) - 1) : i \in S => i + 1 \in S
      BY <1>1, <1>4, <1>5
    <2>2. \A i \in 0 .. Len(q) : i \in S
      BY <1>1, <1>4, <1>5, <2>1, Induction, Zenon
    <2> QED
      BY <1>1, <1>4, <1>5, <2>2
  <1>7. h[Len(r)] = h[Len(q)] + n
    <2>1. Len(r) \in 1 .. Len(r) /\ Len(r) - 1 = Len(q)
      BY <1>1
    <2>2. h[Len(r)] = h[Len(r) - 1] + r[Len(r)]
      BY <1>3, <2>1 DEF Prefix
    <2> QED
      BY <1>1, <2>1, <2>2
  <1> QED
    BY <1>2, <1>3, <1>6, <1>7 DEF S, r

\* The first buffer leaves a queue.
LEMMA SumTail ==
    ASSUME NEW q \in Seq(Nat), q # <<>>
    PROVE  /\ Head(q) \in Nat /\ Sum(Tail(q)) = Sum(q) - Head(q)
           /\ Sum(q) \in Nat /\ Sum(Tail(q)) \in Nat
  <1> DEFINE r == Tail(q)
  <1>1. /\ r \in Seq(Nat) /\ Len(r) = Len(q) - 1 /\ Len(r) \in Nat
        /\ Head(q) = q[1] /\ q[1] \in Nat /\ \A i \in 1 .. Len(r) : r[i] = q[i + 1]
    OBVIOUS
  <1> HIDE DEF r
  <1>2. PICK g : Prefix(g, q, Len(q)) /\ Sum(q) = g[Len(q)]
    BY SumPrefix
  <1>3. PICK h : Prefix(h, r, Len(r)) /\ Sum(r) = h[Len(r)]
    BY <1>1, SumPrefix
  <1> DEFINE S == {i \in 0 .. Len(r) : g[i + 1] = q[1] + h[i]}
  <1>4. 0 \in S
    BY <1>1, <1>2, <1>3 DEF Prefix
  <1>5. ASSUME NEW i \in 0 .. (Len(r) - 1), i \in S PROVE i + 1 \in S
    <2>1. /\ i + 1 \in 1 .. Len(r) /\ (i + 1) - 1 = i /\ i \in 0 .. Len(r)
          /\ i + 2 \in 1 .. Len(q) /\ (i + 2) - 1 = i + 1 /\ (i + 1) + 1 = i + 2
      BY <1>1
    <2>2. h[i + 1] = h[i] + r[i + 1]
      BY <1>3, <2>1 DEF Prefix
    <2>3. g[i + 2] = g[i + 1] + q[i + 2]
      BY <1>2, <2>1 DEF Prefix
    <2>4. r[i + 1] = q[i + 2] /\ g[i + 1] = q[1] + h[i]
      BY <1>1, <1>5, <2>1
    <2>5. h[i] \in Nat /\ r[i + 1] \in Nat
      <3>1. h[i] \in Nat
        BY <1>3, <2>1 DEF Prefix
      <3>2. r[i + 1] \in Nat
        BY <1>1, <2>1
      <3> QED
        BY <3>1, <3>2
    <2>6. g[i + 2] = q[1] + h[i + 1]
      BY <1>1, <2>2, <2>3, <2>4, <2>5
    <2> QED
      BY <2>1, <2>6
  <1> HIDE DEF S
  <1>6. Len(r) \in S
    <2>1. \A i \in 0 .. (Len(r) - 1) : i \in S => i + 1 \in S
      BY <1>1, <1>4, <1>5
    <2>2. \A i \in 0 .. Len(r) : i \in S
      BY <1>1, <1>4, <1>5, <2>1, Induction, Zenon
    <2> QED
      BY <1>1, <1>4, <1>5, <2>2
  <1>7. g[Len(q)] = q[1] + h[Len(r)]
    BY <1>1, <1>6 DEF S
  <1>8. Sum(q) \in Nat /\ Sum(r) \in Nat
    BY <1>1, SumType
  <1> QED
    BY <1>1, <1>2, <1>3, <1>7, <1>8 DEF r

-----------------------------------------------------------------------------
\* The invariant.

Cells == [byte : Nat, key : CipherState \cup {NoKey}]

Keys == CipherState \cup {NoKey}

TypeInv ==
    /\ masked \in BOOLEAN /\ linked \in BOOLEAN
    /\ closed \subseteq cut /\ dropped \subseteq closed /\ cut \subseteq End
    /\ spoiled \subseteq End
    /\ wq \in [End -> Seq(WriteSizes)] /\ rq \in [End -> Seq(ReadSizes)]
    /\ wbSize \in [End -> Nat] /\ rbSize \in [End -> Nat]
    /\ sent \in [End -> Nat] /\ offered \in [End -> Nat] /\ asked \in [End -> Nat]
    /\ ostate \in [End -> Keys] /\ istate \in [End -> Keys]
    /\ outgoing \in [End -> Seq(Cells)] /\ incoming \in [End -> Seq(Cells)]
    /\ pipe \in [End -> Seq(Cells)]
    /\ got \in [End -> Seq(Nat \cup {Junk})]

\* The sizes kept beside the queues are the sums of the queues.
SizeInv(e) == wbSize[e] = Sum(wq[e]) /\ rbSize[e] = Sum(rq[e])

\* An endpoint without a write in the queue has none under way.  Both key
\* streams are where the bytes they masked and unmasked put them, or nowhere as
\* long as there was no head.
KeyInv(e) ==
    /\ wq[e] = <<>> => outgoing[e] = <<>>
    /\ masked => \/ ostate[e] = NoKey /\ sent[e] = 0
                 \/ ostate[e] = At(sent[e])
    /\ masked => \/ istate[e] = NoKey /\ got[e] = <<>>
                 \/ istate[e] = At(Len(got[e]))

\* The j-th cell of a stream with or without a secret; the head comes before the
\* first.
Want(secret, j) ==
    IF j = 0 THEN HeadCell ELSE Cell(j, IF secret THEN At(j) ELSE NoKey)

\* cells are those of the stream behind the position from.
Run(secret, cells, from) ==
    \A i \in DOMAIN cells : cells[i] = Want(secret, from + i)

\* The positions of the reader and of the writer in their stream.
Base(e) == IF ExpectsHead(e) THEN -1 ELSE Len(got[e])
Top(e) == IF StartsStream(e) THEN -1 ELSE sent[e]

\* What e has got, what its read under way has, what TCP carries to it and what
\* the write of p under way has left follow one another in the stream of p, up to
\* its last byte.  A write that ends on a cut connection leaves a gap, but behind
\* it nothing is carried any more; a channel object that is gone forgets the read
\* under way, but no other follows.
FlowInv(e, p) ==
    p \notin spoiled =>
        /\ \A i \in DOMAIN got[e] : got[e][i] = i
        /\ Run(masked, incoming[e], Base(e))
        /\ e \notin dropped => Run(masked, pipe[p], Base(e) + Len(incoming[e]))
        /\ cut = {} =>
            /\ Run(masked, outgoing[p],
                   Base(e) + Len(incoming[e]) + Len(pipe[p]))
            /\ Base(e) + Len(incoming[e]) + Len(pipe[p]) + Len(outgoing[p]) = Top(p)

IndInv ==
    /\ TypeInv
    /\ \A e \in End : SizeInv(e) /\ KeyInv(e) /\ FlowInv(e, Peer(e))

-----------------------------------------------------------------------------
\* Cells and keys.

\* The endpoints are two.
LEMMA Peers ==
    ASSUME NEW e \in End
    PROVE  /\ Peer(e) \in End /\ Peer(e) # e /\ Peer(Peer(e)) = e
           /\ End = {e, Peer(e)}
  <1>1. PICK f \in End : f # Dialer /\ End = {Dialer, f}
    BY StreamAssumption
  <1>2. \A x \in End : Peer(x) \in End /\ Peer(x) # x
    <2> TAKE x \in End
    <2>1. \E y \in End : y # x
      BY <1>1
    <2> QED
      BY <2>1 DEF Peer
  <1> QED
    BY <1>1, <1>2

\* Positions in the key stream, which none of them is before the head.
LEMMA Positions ==
    ASSUME NEW n \in Nat
    PROVE  At(n) \in CipherState /\ At(n) # NoKey /\ At(0) = AfterHead
  <1>1. n + Word - 1 \in Nat /\ (n + Word - 1) \div Word \in Nat /\ n % Word \in Nat
    BY WordAssumption, DivMod
  <1>2. At(n) \in CipherState
    BY <1>1 DEF At, CipherState
  <1>3. At(n).block # -1
    BY <1>1 DEF At
  <1>4. NoKey.block = -1
    BY DEF NoKey
  <1>5. (0 + Word - 1) \div Word = 0 /\ 0 % Word = 0
    BY WordAssumption, DivUnique, Rounded
  <1> QED
    BY <1>2, <1>3, <1>4, <1>5 DEF At, AfterHead

\* The rest of a run, and its first cell.
LEMMA RunTail ==
    ASSUME NEW secret \in BOOLEAN, NEW cells \in Seq(Cells), cells # <<>>,
           NEW from \in Int, Run(secret, cells, from)
    PROVE  /\ Head(cells) = Want(secret, from + 1) /\ Head(cells) \in Cells
           /\ Run(secret, Tail(cells), from + 1)
           /\ Tail(cells) \in Seq(Cells) /\ Len(Tail(cells)) = Len(cells) - 1
           /\ Len(cells) \in Nat \ {0}
  <1>1. /\ Head(cells) = cells[1] /\ Tail(cells) \in Seq(Cells)
        /\ Len(Tail(cells)) = Len(cells) - 1 /\ Len(cells) \in Nat \ {0}
        /\ \A i \in 1 .. Len(Tail(cells)) : Tail(cells)[i] = cells[i + 1]
        /\ DOMAIN Tail(cells) = 1 .. Len(Tail(cells))
        /\ DOMAIN cells = 1 .. Len(cells) /\ cells[1] \in Cells
    OBVIOUS
  <1>2. ASSUME NEW i \in DOMAIN Tail(cells)
        PROVE  Tail(cells)[i] = Want(secret, (from + 1) + i)
    <2>1. i + 1 \in DOMAIN cells /\ from + (i + 1) = (from + 1) + i
      BY <1>1
    <2> QED
      BY <1>1, <2>1 DEF Run
  <1>3. cells[1] = Want(secret, from + 1)
    BY <1>1 DEF Run
  <1> QED
    BY <1>1, <1>2, <1>3 DEF Run

\* A run is extended by the next cell of the stream.
LEMMA RunAppend ==
    ASSUME NEW secret \in BOOLEAN, NEW cells \in Seq(Cells), NEW from \in Int,
           Run(secret, cells, from),
           NEW c \in Cells, c = Want(secret, from + Len(cells) + 1)
    PROVE  /\ Run(secret, Append(cells, c), from)
           /\ Append(cells, c) \in Seq(Cells)
           /\ Len(Append(cells, c)) = Len(cells) + 1 /\ Len(cells) \in Nat
  <1> DEFINE more == Append(cells, c)
  <1>1. /\ more \in Seq(Cells) /\ Len(more) = Len(cells) + 1 /\ Len(cells) \in Nat
        /\ DOMAIN more = 1 .. (Len(cells) + 1) /\ DOMAIN cells = 1 .. Len(cells)
        /\ more[Len(cells) + 1] = c
        /\ \A i \in 1 .. Len(cells) : more[i] = cells[i]
    OBVIOUS
  <1> HIDE DEF more
  <1>2. ASSUME NEW i \in DOMAIN more PROVE more[i] = Want(secret, from + i)
    <2>1. CASE i = Len(cells) + 1
      <3>1. from + i = from + Len(cells) + 1
        BY <1>1, <2>1
      <3> QED
        BY <1>1, <2>1, <3>1
    <2>2. CASE i # Len(cells) + 1
      <3>1. i \in 1 .. Len(cells)
        BY <1>1, <2>2
      <3> QED
        BY <1>1, <3>1 DEF Run
    <2> QED
      BY <2>1, <2>2
  <1>3. Run(secret, more, from)
    BY <1>2 DEF Run
  <1> QED
    BY <1>1, <1>3 DEF more

\* An empty run.
LEMMA RunEmpty ==
    ASSUME NEW secret, NEW from
    PROVE  Run(secret, <<>>, from) /\ <<>> \in Seq(Cells) /\ Len(<<>>) = 0
  BY DEF Run

\* The cells of a chunk of n bytes behind the first c, masked at once.
LEMMA ChunkRun ==
    ASSUME NEW secret \in BOOLEAN, NEW c \in Nat, NEW n \in Nat, NEW chunk,
           chunk = [i \in 1 .. n |->
                       Cell(c + i, IF secret THEN Alter(At(c), i) ELSE NoKey)]
    PROVE  chunk \in Seq(Cells) /\ Len(chunk) = n /\ Run(secret, chunk, c)
  <1>1. ASSUME NEW i \in 1 .. n
        PROVE  chunk[i] = Want(secret, c + i) /\ chunk[i] \in Cells
    <2>1. c + i \in Nat /\ c + i # 0 /\ i \in Nat
      OBVIOUS
    <2>2. secret => Alter(At(c), i) = At(c + i)
      BY <2>1, CutsDoNotMatter
    <2>3. chunk[i] = Cell(c + i, IF secret THEN At(c + i) ELSE NoKey)
      BY <2>2
    <2>4. At(c + i) \in Keys /\ NoKey \in Keys
      BY <2>1, Positions DEF Keys
    <2>5. \A k \in Keys : Cell(c + i, k) \in Cells
      BY <2>1 DEF Cell, Cells, Keys
    <2>6. chunk[i] \in Cells
      BY <2>3, <2>4, <2>5
    <2> QED
      BY <2>1, <2>3, <2>6 DEF Want
  <1>2. chunk \in [1 .. n -> Cells] /\ DOMAIN chunk = 1 .. n
    BY <1>1
  <1>3. chunk \in Seq(Cells) /\ Len(chunk) = n
    BY <1>2
  <1> QED
    BY <1>1, <1>2, <1>3 DEF Run

\* The head comes before the first cell.
LEMMA HeadRun ==
    ASSUME NEW secret \in BOOLEAN, NEW chunk \in Seq(Cells), Run(secret, chunk, 0)
    PROVE  /\ <<HeadCell>> \o chunk \in Seq(Cells)
           /\ Len(<<HeadCell>> \o chunk) = Len(chunk) + 1
           /\ Run(secret, <<HeadCell>> \o chunk, -1)
  <1> DEFINE all == <<HeadCell>> \o chunk
  <1>1. HeadCell \in Cells
    BY DEF HeadCell, Cell, Cells
  <1>2. /\ <<HeadCell>> \in Seq(Cells) /\ Len(<<HeadCell>>) = 1
        /\ <<HeadCell>>[1] = HeadCell
    BY <1>1
  <1>3. /\ all \in Seq(Cells) /\ Len(all) = Len(chunk) + 1 /\ Len(chunk) \in Nat
        /\ all[1] = HeadCell /\ DOMAIN all = 1 .. (Len(chunk) + 1)
        /\ \A i \in 1 .. Len(chunk) : all[i + 1] = chunk[i]
        /\ DOMAIN chunk = 1 .. Len(chunk)
    BY <1>2
  <1> HIDE DEF all
  <1>4. ASSUME NEW i \in DOMAIN all PROVE all[i] = Want(secret, -1 + i)
    <2>1. CASE i = 1
      BY <1>3, <2>1 DEF Want
    <2>2. CASE i # 1
      <3>1. PICK j \in 1 .. Len(chunk) : i = j + 1
        <4>1. i - 1 \in 1 .. Len(chunk) /\ i = (i - 1) + 1
          BY <1>3, <2>2
        <4> QED
          BY <4>1
      <3>2. all[i] = chunk[j] /\ chunk[j] = Want(secret, 0 + j)
        BY <1>3, <3>1 DEF Run
      <3>3. 0 + j = -1 + i
        BY <3>1
      <3> QED
        BY <3>2, <3>3
    <2> QED
      BY <2>1, <2>2
  <1>5. Run(secret, all, -1)
    BY <1>4 DEF Run
  <1> QED
    BY <1>3, <1>5 DEF all

\* The writer has put the next chunk of its stream under way.
Started(e) ==
    /\ masked => ostate'[e] = At(sent'[e])
    /\ Run(masked, outgoing'[e], Top(e))
    /\ Top(e) + Len(outgoing'[e]) =
           IF masked /\ ostate'[e] = NoKey THEN -1 ELSE sent'[e]

\* StartWrite continues the stream behind the last byte that was started.
LEMMA StartEffect ==
    ASSUME TypeInv, NEW e \in End, KeyInv(e), NEW n \in Nat, StartWrite(e, n)
    PROVE  /\ Started(e)
           /\ outgoing' \in [End -> Seq(Cells)] /\ ostate' \in [End -> Keys]
           /\ sent' \in [End -> Nat]
           /\ \A x \in End : x # e => /\ outgoing'[x] = outgoing[x]
                                      /\ ostate'[x] = ostate[x] /\ sent'[x] = sent[x]
  <1> DEFINE c == sent[e]
             key == IF StartsStream(e) THEN AfterHead ELSE ostate[e]
             chunk == [i \in 1 .. n |->
                          Cell(c + i, IF masked THEN Alter(key, i) ELSE NoKey)]
             cells == (IF StartsStream(e) THEN <<HeadCell>> ELSE <<>>) \o chunk
             state == IF masked THEN Alter(key, n) ELSE ostate[e]
  <1>1. /\ outgoing' = [outgoing EXCEPT ![e] = cells]
        /\ ostate' = [ostate EXCEPT ![e] = state]
        /\ sent' = [sent EXCEPT ![e] = c + n]
    BY DEF StartWrite
  <1>2. c \in Nat /\ masked \in BOOLEAN /\ ostate[e] \in Keys
    BY DEF TypeInv
  <1>3. masked => key = At(c)
    <2>1. At(0) = AfterHead /\ At(c) # NoKey
      BY <1>2, Positions
    <2> QED
      BY <2>1 DEF KeyInv, StartsStream
  <1>4. StartsStream(e) => c = 0 /\ masked
    BY <1>2, Positions DEF KeyInv, StartsStream
  <1>5. chunk \in Seq(Cells) /\ Len(chunk) = n /\ Run(masked, chunk, c)
    <2>1. chunk = [i \in 1 .. n |->
                      Cell(c + i, IF masked THEN Alter(At(c), i) ELSE NoKey)]
      BY <1>3
    <2> HIDE DEF chunk
    <2> QED
      BY <1>2, <2>1, ChunkRun
  <1> HIDE DEF chunk, c, key
  <1>6. /\ cells \in Seq(Cells) /\ Run(masked, cells, Top(e))
        /\ Top(e) + Len(cells) = c + n
    <2>1. CASE StartsStream(e)
      <3>1. cells = <<HeadCell>> \o chunk /\ Top(e) = -1 /\ c = 0
        BY <1>4, <2>1 DEF Top
      <3> QED
        BY <1>2, <1>5, <3>1, HeadRun
    <2>2. CASE ~StartsStream(e)
      <3>1. cells = chunk /\ Top(e) = c
        BY <1>5, <2>2, ConcatEmptySeq DEF Top, c
      <3> QED
        BY <1>2, <1>5, <3>1
    <2> QED
      BY <2>1, <2>2
  <1>7. /\ masked => state = At(c + n) /\ state # NoKey
        /\ state \in Keys
    BY <1>2, <1>3, CutsDoNotMatter, Positions DEF Keys
  <1> HIDE DEF cells, state
  <1>8. /\ outgoing'[e] = cells /\ ostate'[e] = state /\ sent'[e] = c + n
        /\ c + n \in Nat
    BY <1>1, <1>2 DEF TypeInv
  <1>9. Started(e)
    BY <1>6, <1>7, <1>8 DEF Started
  <1>10. outgoing' \in [End -> Seq(Cells)] /\ ostate' \in [End -> Keys]
    BY <1>1, <1>6, <1>7 DEF TypeInv
  <1>11. sent' \in [End -> Nat]
    BY <1>1, <1>8 DEF TypeInv
  <1> QED
    BY <1>1, <1>9, <1>10, <1>11 DEF TypeInv

-----------------------------------------------------------------------------
\* The steps.

\* A flow that a step does not touch.
LEMMA FlowKept ==
    ASSUME NEW e \in End, NEW p \in End, FlowInv(e, p),
           masked' = masked, got'[e] = got[e], incoming'[e] = incoming[e],
           istate'[e] = istate[e], pipe'[p] = pipe[p], outgoing'[p] = outgoing[p],
           ostate'[p] = ostate[p], sent'[p] = sent[p],
           spoiled \subseteq spoiled', dropped \subseteq dropped', cut \subseteq cut'
    PROVE  FlowInv(e, p)'
  <1>1. Base(e)' = Base(e) /\ Top(p)' = Top(p)
    BY DEF Base, Top, ExpectsHead, StartsStream
  <1>2. p \notin spoiled' => p \notin spoiled
    OBVIOUS
  <1>3. /\ e \notin dropped' => e \notin dropped
        /\ cut' = {} => cut = {}
    OBVIOUS
  <1> QED
    BY <1>1, <1>2, <1>3 DEF FlowInv

\* Sizes and keys that a step does not touch.
LEMMA EndKept ==
    ASSUME NEW e \in End, SizeInv(e), KeyInv(e),
           masked' = masked, got'[e] = got[e], istate'[e] = istate[e],
           outgoing'[e] = outgoing[e], ostate'[e] = ostate[e], sent'[e] = sent[e],
           wq'[e] = wq[e], rq'[e] = rq[e], wbSize'[e] = wbSize[e],
           rbSize'[e] = rbSize[e]
    PROVE  (SizeInv(e) /\ KeyInv(e))'
  BY DEF SizeInv, KeyInv

\* The positions of a flow are numbers.
LEMMA FlowTypes ==
    ASSUME TypeInv, NEW e \in End, NEW p \in End
    PROVE  /\ Base(e) \in Int /\ Top(p) \in Int
           /\ Len(incoming[e]) \in Nat /\ Len(pipe[p]) \in Nat
           /\ Len(outgoing[p]) \in Nat /\ Len(got[e]) \in Nat
           /\ incoming[e] \in Seq(Cells) /\ pipe[p] \in Seq(Cells)
           /\ outgoing[p] \in Seq(Cells) /\ got[e] \in Seq(Nat \cup {Junk})
           /\ sent[p] \in Nat /\ masked \in BOOLEAN
  <1>1. /\ incoming[e] \in Seq(Cells) /\ pipe[p] \in Seq(Cells)
        /\ outgoing[p] \in Seq(Cells) /\ got[e] \in Seq(Nat \cup {Junk})
        /\ sent[p] \in Nat /\ masked \in BOOLEAN
    BY DEF TypeInv
  <1>2. /\ Len(incoming[e]) \in Nat /\ Len(pipe[p]) \in Nat
        /\ Len(outgoing[p]) \in Nat /\ Len(got[e]) \in Nat
    BY <1>1
  <1> QED
    BY <1>1, <1>2 DEF Base, Top

\* The parts of the invariant, for the two endpoints and the two flows.
LEMMA Compose ==
    ASSUME NEW e \in End, TypeInv',
           (SizeInv(e) /\ KeyInv(e))', (SizeInv(Peer(e)) /\ KeyInv(Peer(e)))',
           FlowInv(e, Peer(e))', FlowInv(Peer(e), e)'
    PROVE  IndInv'
  <1>1. ASSUME NEW x \in End PROVE (SizeInv(x) /\ KeyInv(x) /\ FlowInv(x, Peer(x)))'
    <2>1. CASE x = e
      BY <2>1
    <2>2. CASE x = Peer(e)
      <3>1. Peer(x) = e
        BY <2>2, Peers
      <3> QED
        BY <2>2, <3>1
    <2> QED
      BY <2>1, <2>2, Peers
  <1> QED
    BY <1>1 DEF IndInv

\* What the invariant says of an endpoint and its peer.
LEMMA Parts ==
    ASSUME IndInv, NEW e \in End
    PROVE  /\ TypeInv /\ Peer(e) \in End /\ Peer(e) # e
           /\ SizeInv(e) /\ KeyInv(e) /\ SizeInv(Peer(e)) /\ KeyInv(Peer(e))
           /\ FlowInv(e, Peer(e)) /\ FlowInv(Peer(e), e)
  BY Peers DEF IndInv

\* Nothing but the life of the connection changes.
LEMMA LifeStep ==
    ASSUME IndInv, UNCHANGED <<masked, writer, reader, pipe, spoiled>>,
           linked' \in BOOLEAN, cut \subseteq cut', dropped \subseteq dropped',
           closed' \subseteq cut', dropped' \subseteq closed', cut' \subseteq End
    PROVE  IndInv'
  <1>1. PICK e \in End : TRUE
    BY StreamAssumption
  <1>2. /\ UNCHANGED <<masked, pipe, spoiled, wq, wbSize, ostate, outgoing, sent, offered>>
        /\ UNCHANGED <<rq, rbSize, istate, incoming, got, asked>>
    BY DEF writer, reader
  <1>3. TypeInv'
    BY <1>2 DEF IndInv, TypeInv
  <1>4. (SizeInv(e) /\ KeyInv(e))' /\ (SizeInv(Peer(e)) /\ KeyInv(Peer(e)))'
    BY <1>2, Parts, EndKept
  <1>5. FlowInv(e, Peer(e))' /\ FlowInv(Peer(e), e)'
    BY <1>2, Parts, FlowKept
  <1> QED
    BY <1>3, <1>4, <1>5, Compose

\* The connection is established, closed or shut down.
LEMMA ConnectionStep ==
    ASSUME IndInv, Link \/ \E e \in End : Close(e) \/ Shutdown(e)
    PROVE  IndInv'
  <1>1. /\ UNCHANGED <<masked, writer, reader, pipe, spoiled>>
        /\ cut \subseteq cut' /\ dropped \subseteq dropped'
    BY DEF Link, Close, Shutdown
  <1>2. linked' \in BOOLEAN
    BY Zenon DEF IndInv, TypeInv, Link, Close, Shutdown
  <1>3. closed' \subseteq cut' /\ dropped' \subseteq closed' /\ cut' \subseteq End
    BY DEF IndInv, TypeInv, Link, Close, Shutdown
  <1> QED
    BY <1>1, <1>2, <1>3, LifeStep

\* The sums of the queues, whose sizes are numbers.
LEMMA Queues ==
    ASSUME TypeInv, NEW e \in End
    PROVE  /\ wq[e] \in Seq(Nat) /\ rq[e] \in Seq(Nat)
           /\ wq[e] \in Seq(WriteSizes) /\ rq[e] \in Seq(ReadSizes)
  <1>1. wq[e] \in Seq(WriteSizes) /\ rq[e] \in Seq(ReadSizes)
    BY DEF TypeInv
  <1>2. WriteSizes \subseteq Nat /\ ReadSizes \subseteq Nat
    BY StreamAssumption
  <1> QED
    BY <1>1, <1>2, SeqMonotonic

\* The channel object is destroyed.
LEMMA DestroyStep ==
    ASSUME IndInv, NEW e \in End, Destroy(e)
    PROVE  IndInv'
  <1> DEFINE first(q) == SubSeq(q, 1, IF q = <<>> THEN 0 ELSE 1)
  <1>1. /\ UNCHANGED <<masked, linked, ostate, outgoing, sent, offered, istate>>
        /\ UNCHANGED <<incoming, got, asked, pipe, spoiled>>
        /\ closed' = closed \cup {e} /\ cut' = cut \cup {e}
        /\ dropped' = dropped \cup {e}
        /\ wq' = [wq EXCEPT ![e] = first(wq[e])]
        /\ rq' = [rq EXCEPT ![e] = first(rq[e])]
        /\ wbSize' = [wbSize EXCEPT ![e] = Sum(first(wq[e]))]
        /\ rbSize' = [rbSize EXCEPT ![e] = Sum(first(rq[e]))]
    BY DEF Destroy
  <1>2. ASSUME NEW S, NEW q \in Seq(S)
        PROVE  first(q) \in Seq(S) /\ (first(q) = <<>> => q = <<>>)
    <2>1. CASE q = <<>>
      BY <2>1
    <2>2. CASE q # <<>>
      <3>1. first(q) = SubSeq(q, 1, 1) /\ Len(q) >= 1
        BY <2>2
      <3>2. first(q) \in Seq(S) /\ Len(first(q)) = 1
        BY <3>1
      <3> QED
        BY <3>2
    <2> QED
      BY <2>1, <2>2
  <1> DEFINE w == first(wq[e])
             r == first(rq[e])
  <1>3. /\ w \in Seq(WriteSizes) /\ r \in Seq(ReadSizes)
        /\ w \in Seq(Nat) /\ r \in Seq(Nat) /\ (w = <<>> => wq[e] = <<>>)
    BY <1>2, Queues DEF IndInv
  <1>4. wq' = [wq EXCEPT ![e] = w] /\ rq' = [rq EXCEPT ![e] = r]
    BY <1>1
  <1>5. wbSize' = [wbSize EXCEPT ![e] = Sum(w)] /\ rbSize' = [rbSize EXCEPT ![e] = Sum(r)]
    BY <1>1
  <1> HIDE DEF first, w, r
  <1>6. Sum(w) \in Nat /\ Sum(r) \in Nat
    BY <1>3, SumType
  <1>7. TypeInv'
    <2>1. closed' \subseteq cut' /\ dropped' \subseteq closed' /\ cut' \subseteq End
      BY <1>1 DEF IndInv, TypeInv
    <2>2. wq' \in [End -> Seq(WriteSizes)] /\ rq' \in [End -> Seq(ReadSizes)]
      BY <1>3, <1>4 DEF IndInv, TypeInv
    <2>3. wbSize' \in [End -> Nat] /\ rbSize' \in [End -> Nat]
      BY <1>5, <1>6 DEF IndInv, TypeInv
    <2> QED
      BY <1>1, <2>1, <2>2, <2>3 DEF IndInv, TypeInv
  <1>8. (SizeInv(e) /\ KeyInv(e))'
    <2>1. /\ wq'[e] = w /\ rq'[e] = r /\ wbSize'[e] = Sum(w) /\ rbSize'[e] = Sum(r)
      BY <1>4, <1>5 DEF IndInv, TypeInv
    <2>2. SizeInv(e)'
      BY <2>1 DEF SizeInv
    <2>3. KeyInv(e)'
      BY <1>1, <1>3, <2>1, Parts DEF KeyInv
    <2> QED
      BY <2>2, <2>3
  <1>9. (SizeInv(Peer(e)) /\ KeyInv(Peer(e)))'
    <2>1. /\ wq'[Peer(e)] = wq[Peer(e)] /\ rq'[Peer(e)] = rq[Peer(e)]
          /\ wbSize'[Peer(e)] = wbSize[Peer(e)] /\ rbSize'[Peer(e)] = rbSize[Peer(e)]
      BY <1>4, <1>5, Parts DEF TypeInv
    <2> QED
      BY <1>1, <2>1, Parts, EndKept
  <1>10. FlowInv(e, Peer(e))' /\ FlowInv(Peer(e), e)'
    BY <1>1, Parts, FlowKept
  <1> QED
    BY <1>7, <1>8, <1>9, <1>10, Compose

\* The next chunk follows a write that was taken to its last cell, or one that
\* was cut off where nothing counts any more.
LEMMA StartedFlow ==
    ASSUME IndInv, NEW e \in End, Started(e),
           masked' = masked, UNCHANGED <<got, incoming, istate, pipe, cut, dropped>>,
           spoiled \subseteq spoiled',
           e \notin spoiled' /\ cut = {} => outgoing[e] = <<>>
    PROVE  FlowInv(Peer(e), e)'
  <1> DEFINE r == Peer(e)
  <1>1. TypeInv /\ r \in End /\ FlowInv(r, e)
    BY Parts
  <1> HIDE DEF r
  <1>2. /\ Base(r) \in Int /\ Top(e) \in Int /\ Len(incoming[r]) \in Nat
        /\ Len(pipe[e]) \in Nat
    BY <1>1, FlowTypes
  <1>3. Base(r)' = Base(r) /\ Top(e)' = Top(e) + Len(outgoing'[e])
    BY <1>1 DEF Base, Top, ExpectsHead, StartsStream, Started
  <1>4. e \notin spoiled' /\ cut = {} =>
            Base(r) + Len(incoming[r]) + Len(pipe[e]) = Top(e)
    <2> SUFFICES ASSUME e \notin spoiled', cut = {}
                 PROVE  Base(r) + Len(incoming[r]) + Len(pipe[e]) = Top(e)
      OBVIOUS
    <2>1. Len(outgoing[e]) = 0 /\ e \notin spoiled
      OBVIOUS
    <2> QED
      BY <1>1, <1>2, <2>1 DEF FlowInv
  <1>5. Run(masked, outgoing'[e], Top(e))
    BY DEF Started
  <1> QED
    BY <1>1, <1>3, <1>4, <1>5 DEF FlowInv, r

\* A queue of two has a second.
LEMMA LongTail ==
    ASSUME NEW S, NEW q \in Seq(S), Len(q) > 1
    PROVE  Tail(q) # <<>>
  <1>1. Len(Tail(q)) = Len(q) - 1 /\ Len(q) \in Nat /\ Tail(q) \in Seq(S)
    OBVIOUS
  <1>2. 1 \in DOMAIN Tail(q)
    BY <1>1
  <1>3. DOMAIN <<>> = {}
    OBVIOUS
  <1> QED
    BY <1>2, <1>3

\* A cell moves from one sequence to the one before it.
LEMMA Shift ==
    ASSUME NEW f \in Int, NEW l \in Nat, NEW m \in Nat
    PROVE  /\ f + l + 1 = f + (l + 1)
           /\ f + (l + 1) + (m - 1) = f + l + m
  OBVIOUS

\* A write enters the queue and starts if it is the only one.
LEMMA WriteStep ==
    ASSUME IndInv, NEW e \in End, NEW n \in WriteSizes, Write(e, n)
    PROVE  IndInv'
  <1>1. /\ UNCHANGED <<masked, linked, closed, cut, dropped, pipe, spoiled>>
        /\ UNCHANGED <<rq, rbSize, istate, incoming, got, asked>>
        /\ wq' = [wq EXCEPT ![e] = Append(wq[e], n)]
        /\ wbSize' = [wbSize EXCEPT ![e] = wbSize[e] + n]
        /\ offered' = [offered EXCEPT ![e] = offered[e] + n]
    BY DEF Write, life, reader
  <1>2. /\ TypeInv /\ Peer(e) \in End /\ Peer(e) # e
        /\ SizeInv(e) /\ KeyInv(e) /\ FlowInv(e, Peer(e)) /\ FlowInv(Peer(e), e)
        /\ SizeInv(Peer(e)) /\ KeyInv(Peer(e))
    BY Parts
  <1>3. /\ wq[e] \in Seq(Nat) /\ wq[e] \in Seq(WriteSizes) /\ n \in Nat
    BY <1>2, Queues, StreamAssumption
  <1>4. /\ Append(wq[e], n) \in Seq(WriteSizes) /\ Append(wq[e], n) # <<>>
        /\ Sum(Append(wq[e], n)) = Sum(wq[e]) + n
    BY <1>3, SumAppend
  <1>5. wq' \in [End -> Seq(WriteSizes)]
    BY <1>1, <1>2, <1>4 DEF TypeInv
  <1>6. wbSize' \in [End -> Nat] /\ offered' \in [End -> Nat]
    <2>1. wbSize[e] + n \in Nat /\ offered[e] + n \in Nat
      <3>1. wbSize[e] \in Nat /\ offered[e] \in Nat
        BY <1>2 DEF TypeInv
      <3> QED
        BY <1>3, <3>1
    <2> QED
      BY <1>1, <1>2, <2>1 DEF TypeInv
  <1>7. /\ wq'[e] = Append(wq[e], n) /\ wbSize'[e] = wbSize[e] + n
        /\ wq'[Peer(e)] = wq[Peer(e)] /\ wbSize'[Peer(e)] = wbSize[Peer(e)]
    BY <1>1, <1>2 DEF TypeInv
  <1>8. SizeInv(e)'
    BY <1>1, <1>2, <1>4, <1>7 DEF SizeInv
  <1>9. CASE wq[e] = <<>>
    <2>1. StartWrite(e, n)
      BY <1>9 DEF Write
    <2>2. /\ Started(e) /\ outgoing' \in [End -> Seq(Cells)]
          /\ ostate' \in [End -> Keys] /\ sent' \in [End -> Nat]
          /\ outgoing'[Peer(e)] = outgoing[Peer(e)] /\ ostate'[Peer(e)] = ostate[Peer(e)]
          /\ sent'[Peer(e)] = sent[Peer(e)]
      BY <1>2, <1>3, <2>1, StartEffect
    <2>3. TypeInv'
      BY <1>1, <1>2, <1>5, <1>6, <2>2 DEF TypeInv
    <2>4. KeyInv(e)'
      BY <1>1, <1>2, <1>4, <1>7, <2>2 DEF KeyInv, Started
    <2>5. (SizeInv(Peer(e)) /\ KeyInv(Peer(e)))'
      BY <1>1, <1>2, <1>7, <2>2, EndKept
    <2>6. FlowInv(e, Peer(e))'
      BY <1>1, <1>2, <2>2, FlowKept
    <2>7. FlowInv(Peer(e), e)'
      <3>1. outgoing[e] = <<>>
        BY <1>2, <1>9 DEF KeyInv
      <3> QED
        BY <1>1, <2>2, <3>1, StartedFlow
    <2> QED
      BY <1>8, <2>3, <2>4, <2>5, <2>6, <2>7, Compose
  <1>10. CASE wq[e] # <<>>
    <2>1. UNCHANGED <<outgoing, ostate, sent>>
      BY <1>10 DEF Write
    <2>2. TypeInv'
      BY <1>1, <1>2, <1>5, <1>6, <2>1 DEF TypeInv
    <2>3. KeyInv(e)'
      BY <1>1, <1>2, <1>4, <1>7, <2>1 DEF KeyInv
    <2>4. (SizeInv(Peer(e)) /\ KeyInv(Peer(e)))'
      BY <1>1, <1>2, <1>7, <2>1, EndKept
    <2>5. FlowInv(e, Peer(e))' /\ FlowInv(Peer(e), e)'
      BY <1>1, <1>2, <2>1, FlowKept
    <2> QED
      BY <1>8, <2>2, <2>3, <2>4, <2>5, Compose
  <1> QED
    BY <1>9, <1>10

\* A write leaves the queue and the next one starts.
LEMMA WriteEndsStep ==
    ASSUME IndInv, NEW e \in End, WriteEnds(e)
    PROVE  IndInv'
  <1>1. /\ UNCHANGED <<masked, linked, closed, cut, dropped, pipe, offered>>
        /\ UNCHANGED <<rq, rbSize, istate, incoming, got, asked>>
        /\ wq' = [wq EXCEPT ![e] = Tail(wq[e])] /\ wq[e] # <<>>
        /\ wbSize' = [wbSize EXCEPT ![e] = wbSize[e] - Head(wq[e])]
        /\ spoiled' = IF linked THEN spoiled ELSE spoiled \cup {e}
        /\ outgoing[e] = <<>> \/ cut # {} \/ ~linked
    BY DEF WriteEnds, life, reader, Released, Broken
  <1>2. /\ TypeInv /\ Peer(e) \in End /\ Peer(e) # e
        /\ SizeInv(e) /\ KeyInv(e) /\ FlowInv(e, Peer(e)) /\ FlowInv(Peer(e), e)
        /\ SizeInv(Peer(e)) /\ KeyInv(Peer(e))
    BY Parts
  <1>3. wq[e] \in Seq(Nat) /\ wq[e] \in Seq(WriteSizes)
    BY <1>2, Queues
  <1>4. /\ Sum(Tail(wq[e])) = Sum(wq[e]) - Head(wq[e]) /\ Sum(Tail(wq[e])) \in Nat
        /\ Tail(wq[e]) \in Seq(WriteSizes)
    BY <1>1, <1>3, SumTail
  <1>5. /\ wq'[e] = Tail(wq[e]) /\ wbSize'[e] = Sum(Tail(wq[e]))
        /\ wq'[Peer(e)] = wq[Peer(e)] /\ wbSize'[Peer(e)] = wbSize[Peer(e)]
    BY <1>1, <1>2, <1>4 DEF TypeInv, SizeInv
  <1>6. wq' \in [End -> Seq(WriteSizes)]
    BY <1>1, <1>2, <1>4 DEF TypeInv
  <1>7. wbSize' \in [End -> Nat]
    <2>1. wbSize' = [wbSize EXCEPT ![e] = Sum(Tail(wq[e]))]
      BY <1>1, <1>2, <1>4 DEF SizeInv
    <2> QED
      BY <1>2, <1>4, <2>1 DEF TypeInv
  <1>8. spoiled \subseteq spoiled' /\ spoiled' \subseteq End
    BY <1>1, <1>2 DEF TypeInv
  <1>9. e \notin spoiled' /\ cut = {} => outgoing[e] = <<>>
    BY <1>1
  <1>10. SizeInv(e)'
    BY <1>1, <1>2, <1>5 DEF SizeInv
  <1>11. CASE Len(wq[e]) > 1
    <2>1. StartWrite(e, wq[e][2]) /\ wq[e][2] \in Nat
      BY <1>3, <1>11 DEF WriteEnds
    <2>2. /\ Started(e) /\ outgoing' \in [End -> Seq(Cells)]
          /\ ostate' \in [End -> Keys] /\ sent' \in [End -> Nat]
          /\ outgoing'[Peer(e)] = outgoing[Peer(e)] /\ ostate'[Peer(e)] = ostate[Peer(e)]
          /\ sent'[Peer(e)] = sent[Peer(e)]
      BY <1>2, <2>1, StartEffect
    <2>3. TypeInv'
      BY <1>1, <1>2, <1>6, <1>7, <1>8, <2>2 DEF TypeInv
    <2>4. Tail(wq[e]) # <<>>
      BY <1>3, <1>11, LongTail
    <2>5. KeyInv(e)'
      BY <1>1, <1>2, <1>5, <2>2, <2>4 DEF KeyInv, Started
    <2>6. (SizeInv(Peer(e)) /\ KeyInv(Peer(e)))'
      BY <1>1, <1>2, <1>5, <2>2, EndKept
    <2>7. FlowInv(e, Peer(e))'
      BY <1>1, <1>2, <1>8, <2>2, FlowKept
    <2>8. FlowInv(Peer(e), e)'
      BY <1>1, <1>8, <1>9, <2>2, StartedFlow
    <2> QED
      BY <1>10, <2>3, <2>5, <2>6, <2>7, <2>8, Compose
  <1>12. CASE ~(Len(wq[e]) > 1)
    <2>1. outgoing' = [outgoing EXCEPT ![e] = <<>>] /\ UNCHANGED <<ostate, sent>>
      BY <1>12 DEF WriteEnds
    <2>2. /\ outgoing'[e] = <<>> /\ outgoing'[Peer(e)] = outgoing[Peer(e)]
          /\ outgoing' \in [End -> Seq(Cells)]
      BY <1>2, <2>1, RunEmpty DEF TypeInv
    <2>3. TypeInv'
      BY <1>1, <1>2, <1>6, <1>7, <1>8, <2>1, <2>2 DEF TypeInv
    <2>4. KeyInv(e)'
      BY <1>1, <1>2, <2>1, <2>2 DEF KeyInv
    <2>5. (SizeInv(Peer(e)) /\ KeyInv(Peer(e)))'
      BY <1>1, <1>2, <1>5, <2>1, <2>2, EndKept
    <2>6. FlowInv(e, Peer(e))'
      BY <1>1, <1>2, <1>8, <2>1, <2>2, FlowKept
    <2>7. FlowInv(Peer(e), e)'
      <3>1. CASE outgoing[e] = <<>>
        BY <1>1, <1>2, <1>8, <2>1, <2>2, <3>1, FlowKept
      <3>2. CASE outgoing[e] # <<>>
        <4>1. e \notin spoiled' => cut' # {}
          BY <1>1, <1>9, <3>2
        <4>2. Base(Peer(e))' = Base(Peer(e))
          BY <1>1 DEF Base, ExpectsHead
        <4> QED
          BY <1>1, <1>2, <1>8, <4>1, <4>2 DEF FlowInv
      <3> QED
        BY <3>1, <3>2
    <2> QED
      BY <1>10, <2>3, <2>4, <2>5, <2>6, <2>7, Compose
  <1> QED
    BY <1>11, <1>12

\* TCP takes a cell.
LEMMA TransmitStep ==
    ASSUME IndInv, NEW e \in End, Transmit(e)
    PROVE  IndInv'
  <1> DEFINE r == Peer(e)
             c == Head(outgoing[e])
  <1>1. /\ UNCHANGED <<masked, linked, closed, cut, dropped, spoiled>>
        /\ UNCHANGED <<wq, wbSize, ostate, sent, offered>>
        /\ UNCHANGED <<rq, rbSize, istate, incoming, got, asked>>
        /\ outgoing[e] # <<>> /\ cut = {}
        /\ outgoing' = [outgoing EXCEPT ![e] = Tail(outgoing[e])]
        /\ pipe' = [pipe EXCEPT ![e] = Append(pipe[e], c)]
    BY DEF Transmit, life, reader
  <1>2. /\ TypeInv /\ r \in End /\ r # e
        /\ SizeInv(e) /\ KeyInv(e) /\ FlowInv(e, r) /\ FlowInv(r, e)
        /\ SizeInv(r) /\ KeyInv(r)
    BY Parts
  <1> HIDE DEF r
  <1>3. /\ outgoing[e] \in Seq(Cells) /\ pipe[e] \in Seq(Cells) /\ Base(r) \in Int
        /\ Len(incoming[r]) \in Nat /\ Len(pipe[e]) \in Nat
        /\ Len(outgoing[e]) \in Nat /\ masked \in BOOLEAN /\ Top(e) \in Int
    BY <1>2, FlowTypes
  <1>4. c \in Cells /\ Tail(outgoing[e]) \in Seq(Cells)
    BY <1>1, <1>3
  <1>5. Append(pipe[e], c) \in Seq(Cells)
    BY <1>3, <1>4
  <1>6. /\ outgoing'[e] = Tail(outgoing[e]) /\ outgoing'[r] = outgoing[r]
        /\ pipe'[e] = Append(pipe[e], c) /\ pipe'[r] = pipe[r]
        /\ outgoing' \in [End -> Seq(Cells)] /\ pipe' \in [End -> Seq(Cells)]
    <2> HIDE DEF c
    <2> QED
      BY <1>1, <1>2, <1>4, <1>5 DEF TypeInv
  <1>7. TypeInv'
    BY <1>1, <1>2, <1>6 DEF TypeInv
  <1>8. (SizeInv(e) /\ KeyInv(e))'
    <2>1. wq[e] # <<>>
      BY <1>1, <1>2 DEF KeyInv
    <2> QED
      BY <1>1, <1>2, <2>1 DEF SizeInv, KeyInv
  <1>9. (SizeInv(r) /\ KeyInv(r))'
    BY <1>1, <1>2, <1>6, EndKept
  <1>10. FlowInv(e, r)'
    BY <1>1, <1>2, <1>6, FlowKept
  <1>11. FlowInv(r, e)'
    <2> SUFFICES ASSUME e \notin spoiled PROVE FlowInv(r, e)'
      BY <1>1 DEF FlowInv
    <2> DEFINE from == Base(r) + Len(incoming[r])
    <2>1. from \in Int /\ from + Len(pipe[e]) \in Int
      BY <1>3
    <2>2. Base(r)' = Base(r) /\ Top(e)' = Top(e)
      BY <1>1 DEF Base, Top, ExpectsHead, StartsStream
    <2>3. /\ \A i \in DOMAIN got[r] : got[r][i] = i
          /\ Run(masked, incoming[r], Base(r))
          /\ Run(masked, pipe[e], from)
          /\ Run(masked, outgoing[e], from + Len(pipe[e]))
          /\ from + Len(pipe[e]) + Len(outgoing[e]) = Top(e)
      <3>1. r \notin dropped
        BY <1>1, <1>2 DEF TypeInv
      <3> QED
        BY <1>1, <1>2, <3>1 DEF FlowInv
    <2> HIDE DEF from
    <2>4. /\ c = Want(masked, from + Len(pipe[e]) + 1)
          /\ Run(masked, Tail(outgoing[e]), from + Len(pipe[e]) + 1)
          /\ Len(Tail(outgoing[e])) = Len(outgoing[e]) - 1
      BY <1>1, <1>3, <2>1, <2>3, RunTail
    <2>5. /\ Run(masked, Append(pipe[e], c), from)
          /\ Len(Append(pipe[e], c)) = Len(pipe[e]) + 1
      BY <1>3, <1>4, <2>1, <2>3, <2>4, RunAppend
    <2>6. /\ from + Len(pipe[e]) + 1 = from + Len(pipe'[e])
          /\ from + Len(pipe'[e]) + Len(outgoing'[e]) = Top(e)
      <3> DEFINE a == Len(Append(pipe[e], c))
                 b == Len(Tail(outgoing[e]))
      <3>1. a = Len(pipe[e]) + 1 /\ b = Len(outgoing[e]) - 1
        BY <2>4, <2>5
      <3>2. Len(pipe'[e]) = a /\ Len(outgoing'[e]) = b
        BY <1>6
      <3> HIDE DEF a, b
      <3>3. from + Len(pipe[e]) + 1 = from + a /\ from + a + b = Top(e)
        BY <1>3, <2>1, <2>3, <3>1, Shift
      <3> QED
        BY <3>2, <3>3
    <2>7. Run(masked, pipe'[e], from) /\ Run(masked, outgoing'[e], from + Len(pipe'[e]))
      BY <1>6, <2>4, <2>5, <2>6
    <2> QED
      BY <1>1, <2>2, <2>3, <2>6, <2>7 DEF FlowInv, from
  <1> QED
    BY <1>7, <1>8, <1>9, <1>10, <1>11, Compose DEF r

\* The read under way gets a cell.
LEMMA ReceiveStep ==
    ASSUME IndInv, NEW e \in End, Receive(e)
    PROVE  IndInv'
  <1> DEFINE p == Peer(e)
             c == Head(pipe[p])
  <1>1. /\ UNCHANGED <<masked, linked, closed, cut, dropped, spoiled>>
        /\ UNCHANGED <<wq, wbSize, ostate, outgoing, sent, offered>>
        /\ UNCHANGED <<rq, rbSize, istate, got, asked>>
        /\ pipe[p] # <<>> /\ e \notin cut
        /\ incoming' = [incoming EXCEPT ![e] = Append(incoming[e], c)]
        /\ pipe' = [pipe EXCEPT ![p] = Tail(pipe[p])]
    BY DEF Receive, life, writer
  <1>2. /\ TypeInv /\ p \in End /\ p # e
        /\ SizeInv(e) /\ KeyInv(e) /\ FlowInv(e, p) /\ FlowInv(p, e)
        /\ SizeInv(p) /\ KeyInv(p)
    BY Parts
  <1> HIDE DEF p
  <1>3. /\ incoming[e] \in Seq(Cells) /\ pipe[p] \in Seq(Cells) /\ Base(e) \in Int
        /\ Len(incoming[e]) \in Nat /\ Len(pipe[p]) \in Nat
        /\ Len(outgoing[p]) \in Nat /\ masked \in BOOLEAN /\ Top(p) \in Int
    BY <1>2, FlowTypes
  <1>4. c \in Cells /\ Tail(pipe[p]) \in Seq(Cells)
    BY <1>1, <1>3
  <1>5. /\ Append(incoming[e], c) \in Seq(Cells)
        /\ Len(Append(incoming[e], c)) = Len(incoming[e]) + 1
        /\ Len(Tail(pipe[p])) = Len(pipe[p]) - 1
    BY <1>1, <1>3, <1>4
  <1>6. /\ incoming'[e] = Append(incoming[e], c) /\ incoming'[p] = incoming[p]
        /\ pipe'[p] = Tail(pipe[p]) /\ pipe'[e] = pipe[e]
        /\ incoming' \in [End -> Seq(Cells)] /\ pipe' \in [End -> Seq(Cells)]
    <2> HIDE DEF c
    <2> QED
      BY <1>1, <1>2, <1>4, <1>5 DEF TypeInv
  <1>7. TypeInv'
    BY <1>1, <1>2, <1>6 DEF TypeInv
  <1>8. (SizeInv(e) /\ KeyInv(e))' /\ (SizeInv(p) /\ KeyInv(p))'
    BY <1>1, <1>2, EndKept
  <1>9. FlowInv(p, e)'
    BY <1>1, <1>2, <1>6, FlowKept
  <1>10. FlowInv(e, p)'
    <2> SUFFICES ASSUME p \notin spoiled PROVE FlowInv(e, p)'
      BY <1>1 DEF FlowInv
    <2> DEFINE from == Base(e) + Len(incoming[e])
    <2>1. from \in Int
      BY <1>3
    <2>2. Base(e)' = Base(e) /\ Top(p)' = Top(p)
      BY <1>1 DEF Base, Top, ExpectsHead, StartsStream
    <2>3. /\ \A i \in DOMAIN got[e] : got[e][i] = i
          /\ Run(masked, incoming[e], Base(e)) /\ Run(masked, pipe[p], from)
          /\ cut = {} => /\ Run(masked, outgoing[p], from + Len(pipe[p]))
                         /\ from + Len(pipe[p]) + Len(outgoing[p]) = Top(p)
      <3>1. e \notin dropped
        BY <1>1, <1>2 DEF TypeInv
      <3> QED
        BY <1>2, <3>1 DEF FlowInv
    <2>4. c = Want(masked, from + 1) /\ Run(masked, Tail(pipe[p]), from + 1)
      <3> HIDE DEF from
      <3> QED
        BY <1>1, <1>3, <2>1, <2>3, RunTail
    <2>5. Run(masked, Append(incoming[e], c), Base(e))
      BY <1>3, <1>4, <2>3, <2>4, RunAppend
    <2>6. /\ Base(e) + Len(incoming'[e]) = from + 1
          /\ Base(e) + Len(incoming'[e]) + Len(pipe'[p]) = from + Len(pipe[p])
      <3> DEFINE a == Len(Append(incoming[e], c))
                 b == Len(Tail(pipe[p]))
      <3>1. a = Len(incoming[e]) + 1 /\ b = Len(pipe[p]) - 1
        BY <1>5
      <3>2. Len(incoming'[e]) = a /\ Len(pipe'[p]) = b
        BY <1>6
      <3> HIDE DEF a, b
      <3>3. Base(e) + a = from + 1 /\ Base(e) + a + b = from + Len(pipe[p])
        BY <1>3, <3>1, Shift
      <3> QED
        BY <3>2, <3>3
    <2>7. Run(masked, incoming'[e], Base(e)) /\ Run(masked, pipe'[p], from + 1)
      BY <1>6, <2>4, <2>5
    <2> HIDE DEF from
    <2> QED
      BY <1>1, <2>2, <2>3, <2>6, <2>7 DEF FlowInv
  <1> QED
    BY <1>7, <1>8, <1>9, <1>10, Compose DEF p

\* A read enters the queue.
LEMMA ReadStep ==
    ASSUME IndInv, NEW e \in End, NEW n \in ReadSizes, Read(e, n)
    PROVE  IndInv'
  <1>1. /\ UNCHANGED <<masked, linked, closed, cut, dropped, pipe, spoiled>>
        /\ UNCHANGED <<wq, wbSize, ostate, outgoing, sent, offered>>
        /\ UNCHANGED <<istate, incoming, got>>
        /\ rq' = [rq EXCEPT ![e] = Append(rq[e], n)]
        /\ rbSize' = [rbSize EXCEPT ![e] = rbSize[e] + n]
        /\ asked' = [asked EXCEPT ![e] = asked[e] + n]
    BY DEF Read, life, writer
  <1>2. /\ TypeInv /\ Peer(e) \in End /\ Peer(e) # e
        /\ SizeInv(e) /\ KeyInv(e) /\ FlowInv(e, Peer(e)) /\ FlowInv(Peer(e), e)
        /\ SizeInv(Peer(e)) /\ KeyInv(Peer(e))
    BY Parts
  <1>3. rq[e] \in Seq(Nat) /\ rq[e] \in Seq(ReadSizes) /\ n \in Nat
    BY <1>2, Queues, StreamAssumption
  <1>4. /\ Append(rq[e], n) \in Seq(ReadSizes)
        /\ Sum(Append(rq[e], n)) = Sum(rq[e]) + n
        /\ rbSize[e] + n \in Nat /\ asked[e] + n \in Nat
    <2>1. rbSize[e] \in Nat /\ asked[e] \in Nat
      BY <1>2 DEF TypeInv
    <2> QED
      BY <1>3, <2>1, SumAppend
  <1>5. TypeInv'
    <2>1. rq' \in [End -> Seq(ReadSizes)]
      BY <1>1, <1>2, <1>4 DEF TypeInv
    <2>2. rbSize' \in [End -> Nat] /\ asked' \in [End -> Nat]
      BY <1>1, <1>2, <1>4 DEF TypeInv
    <2> QED
      BY <1>1, <1>2, <2>1, <2>2 DEF TypeInv
  <1>6. /\ rq'[e] = Append(rq[e], n) /\ rbSize'[e] = rbSize[e] + n
        /\ rq'[Peer(e)] = rq[Peer(e)] /\ rbSize'[Peer(e)] = rbSize[Peer(e)]
    BY <1>1, <1>2 DEF TypeInv
  <1>7. (SizeInv(e) /\ KeyInv(e))'
    BY <1>1, <1>2, <1>4, <1>6 DEF SizeInv, KeyInv
  <1>8. (SizeInv(Peer(e)) /\ KeyInv(Peer(e)))'
    BY <1>1, <1>2, <1>6, EndKept
  <1>9. FlowInv(e, Peer(e))' /\ FlowInv(Peer(e), e)'
    BY <1>1, <1>2, FlowKept
  <1> QED
    BY <1>5, <1>7, <1>8, <1>9, Compose

\* Cells of the stream that are unmasked where they were masked give their bytes.
LEMMA UnmaskEffect ==
    ASSUME masked \in BOOLEAN, NEW cells \in Seq(Cells), NEW key, NEW k \in Nat,
           masked => key = At(k)
    PROVE  /\ Unmask(cells, key) \in Seq(Nat \cup {Junk})
           /\ Len(Unmask(cells, key)) = Len(cells)
           /\ Run(masked, cells, k) =>
                  \A i \in 1 .. Len(cells) : Unmask(cells, key)[i] = k + i
  <1> DEFINE u == Unmask(cells, key)
  <1>1. /\ DOMAIN cells = 1 .. Len(cells) /\ Len(cells) \in Nat
        /\ \A i \in 1 .. Len(cells) : cells[i].byte \in Nat
    <2>1. \A i \in 1 .. Len(cells) : cells[i] \in Cells
      OBVIOUS
    <2>2. \A c \in Cells : c.byte \in Nat
      BY DEF Cells
    <2> QED
      BY <2>1, <2>2
  <1>2. ASSUME NEW i \in 1 .. Len(cells)
        PROVE  /\ u[i] \in Nat \cup {Junk}
               /\ cells[i] = Want(masked, k + i) => u[i] = k + i
    <2>1. k + i \in Nat /\ k + i # 0 /\ i \in Nat
      BY <1>1
    <2>2. masked => Alter(key, i) = At(k + i)
      BY <2>1, CutsDoNotMatter
    <2>3. u[i] = IF cells[i].key = (IF masked THEN At(k + i) ELSE NoKey)
                 THEN cells[i].byte ELSE Junk
      BY <1>1, <2>2 DEF Unmask
    <2>4. ASSUME cells[i] = Want(masked, k + i)
          PROVE  /\ cells[i].key = IF masked THEN At(k + i) ELSE NoKey
                 /\ cells[i].byte = k + i
      BY <2>1, <2>4 DEF Want, Cell
    <2> QED
      BY <1>1, <2>3, <2>4
  <1>3. DOMAIN u = 1 .. Len(cells)
    BY <1>1 DEF Unmask
  <1>4. u \in [1 .. Len(cells) -> Nat \cup {Junk}]
    <2>1. u = [i \in 1 .. Len(cells) |-> u[i]]
      BY <1>1 DEF Unmask
    <2> HIDE DEF u
    <2> QED
      BY <1>2, <2>1
  <1>5. Run(masked, cells, k) => \A i \in 1 .. Len(cells) : u[i] = k + i
    BY <1>1, <1>2 DEF Run
  <1> HIDE DEF u
  <1>6. u \in Seq(Nat \cup {Junk}) /\ Len(u) = Len(cells)
    BY <1>1, <1>4
  <1> QED
    BY <1>5, <1>6 DEF u

\* A read takes cells from the stream: it has passed them on, or it was gone or
\* had none, or the first was not a head.
Passed(e, p) ==
    /\ istate'[e] \in Keys /\ got'[e] \in Seq(Nat \cup {Junk})
    /\ masked => \/ istate'[e] = NoKey /\ got'[e] = <<>>
                 \/ istate'[e] = At(Len(got'[e]))
    /\ p \notin spoiled =>
        /\ \A i \in DOMAIN got'[e] : got'[e][i] = i
        /\ \/ e \in dropped
           \/ (IF masked /\ istate'[e] = NoKey THEN -1 ELSE Len(got'[e]))
                  = Base(e) + Len(incoming[e])

\* The cells of a read that ends as it should.
LEMMA PassedBody ==
    ASSUME TypeInv, NEW e \in End, NEW p \in End, KeyInv(e), FlowInv(e, p),
           NEW body, NEW key,
           key = IF ExpectsHead(e) THEN AfterHead ELSE istate[e],
           body = IF ExpectsHead(e) THEN Tail(incoming[e]) ELSE incoming[e],
           ExpectsHead(e) => incoming[e] # <<>>,
           istate'[e] = IF masked THEN Alter(key, Len(body)) ELSE istate[e],
           got'[e] = got[e] \o Unmask(body, key)
    PROVE  Passed(e, p)
  <1> DEFINE u == Unmask(body, key)
  <1>0. PICK k \in Nat : k = Len(got[e])
    BY FlowTypes
  <1>1. /\ incoming[e] \in Seq(Cells) /\ masked \in BOOLEAN /\ k \in Nat
        /\ got[e] \in Seq(Nat \cup {Junk}) /\ Len(incoming[e]) \in Nat
        /\ Base(e) \in Int /\ istate[e] \in Keys
    BY FlowTypes DEF TypeInv
  <1>2. /\ ExpectsHead(e) => got[e] = <<>> /\ k = 0 /\ Base(e) = -1
        /\ ~ExpectsHead(e) => Base(e) = k
        /\ masked => key = At(k)
    <2>1. At(k) # NoKey /\ At(0) = AfterHead
      BY <1>1, Positions
    <2>2. ExpectsHead(e) => got[e] = <<>>
      BY <1>0, <2>1 DEF KeyInv, ExpectsHead
    <2>3. got[e] = <<>> => k = 0
      BY <1>0, RunEmpty
    <2>4. masked => key = At(k)
      BY <1>0, <2>1, <2>2, <2>3 DEF KeyInv, ExpectsHead
    <2> QED
      BY <1>0, <2>2, <2>3, <2>4 DEF Base
  <1>3. /\ body \in Seq(Cells) /\ Len(body) \in Nat
        /\ k + Len(body) = Base(e) + Len(incoming[e])
        /\ p \notin spoiled => Run(masked, body, k)
    <2>1. CASE ExpectsHead(e)
      <3>1. /\ incoming[e] # <<>> /\ body = Tail(incoming[e]) /\ Base(e) = -1 /\ k = 0
        BY <1>2, <2>1
      <3>2. /\ body \in Seq(Cells) /\ Len(body) = Len(incoming[e]) - 1
            /\ Len(body) \in Nat
        BY <1>1, <3>1
      <3>3. ASSUME p \notin spoiled PROVE Run(masked, body, k)
        <4>1. Run(masked, incoming[e], -1)
          BY <3>1, <3>3 DEF FlowInv
        <4>2. Run(masked, Tail(incoming[e]), -1 + 1) /\ -1 + 1 = 0
          BY <1>1, <3>1, <4>1, RunTail
        <4> QED
          BY <3>1, <4>2
      <3>4. k + Len(body) = Base(e) + Len(incoming[e])
        BY <1>1, <3>1, <3>2
      <3> QED
        BY <3>2, <3>3, <3>4
    <2>2. CASE ~ExpectsHead(e)
      BY <1>1, <1>2, <2>2 DEF FlowInv
    <2> QED
      BY <2>1, <2>2
  <1>4. /\ u \in Seq(Nat \cup {Junk}) /\ Len(u) = Len(body)
        /\ p \notin spoiled => \A i \in 1 .. Len(body) : u[i] = k + i
    <2>1. masked \in BOOLEAN /\ body \in Seq(Cells) /\ (masked => key = At(k))
      BY <1>1, <1>2, <1>3
    <2>2. /\ u \in Seq(Nat \cup {Junk}) /\ Len(u) = Len(body)
          /\ Run(masked, body, k) => \A i \in 1 .. Len(body) : u[i] = k + i
      BY <2>1, UnmaskEffect
    <2> QED
      BY <1>3, <2>2
  <1>11. PICK b \in Nat : b = Len(body)
    BY <1>3
  <1>5. masked => istate'[e] = At(k + b)
    BY <1>1, <1>2, <1>11, CutsDoNotMatter
  <1>6. got'[e] = got[e] \o u
    OBVIOUS
  <1> HIDE DEF u
  <1>7. /\ got'[e] \in Seq(Nat \cup {Junk}) /\ Len(got'[e]) = k + b
        /\ DOMAIN got'[e] = 1 .. (k + b)
        /\ \A i \in 1 .. (k + b) :
              got'[e][i] = IF i <= k THEN got[e][i] ELSE u[i - k]
    <2> DEFINE g == got[e] \o u
    <2>1. /\ g \in Seq(Nat \cup {Junk}) /\ Len(g) = Len(got[e]) + Len(u)
          /\ \A i \in 1 .. (Len(got[e]) + Len(u)) :
                g[i] = IF i <= Len(got[e]) THEN got[e][i] ELSE u[i - Len(got[e])]
      <3>1. got[e] \in Seq(Nat \cup {Junk}) /\ u \in Seq(Nat \cup {Junk})
        BY <1>1, <1>4
      <3> HIDE DEF u
      <3> QED
        BY <3>1, ConcatProperties
    <2>2. DOMAIN g = 1 .. Len(g)
      BY <2>1, LenProperties
    <2> HIDE DEF g
    <2>3. got'[e] = g
      BY <1>6 DEF g
    <2>4. Len(got[e]) = k /\ Len(u) = b
      BY <1>0, <1>4, <1>11
    <2> QED
      BY <2>1, <2>2, <2>3, <2>4
  <1>8. PICK m \in Nat : m = k + b
    OBVIOUS
  <1>9. istate'[e] \in Keys /\ (masked => istate'[e] # NoKey)
    BY <1>1, <1>5, <1>8, Positions DEF Keys
  <1>10. ASSUME p \notin spoiled, NEW i \in DOMAIN got'[e] PROVE got'[e][i] = i
    <2>1. i \in 1 .. (k + b) /\ got'[e][i] = IF i <= k THEN got[e][i] ELSE u[i - k]
      BY <1>7, <1>10
    <2>2. \A j \in 1 .. k : got[e][j] = j
      BY <1>0, <1>1, <1>10 DEF FlowInv
    <2>3. CASE i <= k
      <3>1. i \in 1 .. k
        BY <2>1, <2>3
      <3> QED
        BY <2>1, <2>2, <2>3, <3>1
    <2>4. CASE ~(i <= k)
      <3>1. i - k \in 1 .. b /\ k + (i - k) = i
        BY <2>1, <2>4
      <3>2. u[i - k] = k + (i - k)
        BY <1>4, <1>11, <1>10, <3>1
      <3> QED
        BY <2>1, <2>4, <3>1, <3>2
    <2> QED
      BY <2>3, <2>4
  <1> QED
    BY <1>3, <1>11, <1>5, <1>7, <1>9, <1>10 DEF Passed

\* What ReadEnds does with the cells of the read, in its three cases.
LEMMA PassedEffect ==
    ASSUME IndInv, NEW e \in End, ReadEnds(e)
    PROVE  /\ Passed(e, Peer(e))
           /\ istate' \in [End -> Keys] /\ got' \in [End -> Seq(Nat \cup {Junk})]
           /\ istate'[Peer(e)] = istate[Peer(e)] /\ got'[Peer(e)] = got[Peer(e)]
  <1> DEFINE p == Peer(e)
             cells == incoming[e]
             none == (masked /\ e \in dropped) \/ (ExpectsHead(e) /\ cells = <<>>)
             wrong == ExpectsHead(e) /\ cells # <<>> /\ cells[1] # HeadCell
             body == IF ExpectsHead(e) THEN Tail(cells) ELSE cells
             key == IF ExpectsHead(e) THEN AfterHead ELSE istate[e]
             state == IF masked THEN Alter(key, Len(body)) ELSE istate[e]
             bytes == got[e] \o Unmask(body, key)
  <1>1. \/ none /\ UNCHANGED <<istate, got>>
        \/ ~none /\ wrong /\ istate' = [istate EXCEPT ![e] = AfterHead] /\ got' = got
        \/ /\ ~none /\ ~wrong
           /\ istate' = [istate EXCEPT ![e] = state]
           /\ got' = [got EXCEPT ![e] = bytes]
    BY DEF ReadEnds
  <1>2. /\ TypeInv /\ p \in End /\ p # e /\ KeyInv(e) /\ FlowInv(e, p)
    BY Parts
  <1>3. /\ istate \in [End -> Keys] /\ got \in [End -> Seq(Nat \cup {Junk})]
        /\ cells \in Seq(Cells) /\ masked \in BOOLEAN
    BY <1>2 DEF TypeInv
  <1> HIDE DEF p
  <1>4. CASE none /\ UNCHANGED <<istate, got>>
    <2>1. istate'[e] \in Keys /\ got'[e] \in Seq(Nat \cup {Junk})
      BY <1>3, <1>4
    <2>2. masked => \/ istate'[e] = NoKey /\ got'[e] = <<>>
                    \/ istate'[e] = At(Len(got'[e]))
      BY <1>2, <1>4 DEF KeyInv
    <2>3. p \notin spoiled => \A i \in DOMAIN got'[e] : got'[e][i] = i
      BY <1>2, <1>4 DEF FlowInv
    <2>4. ASSUME e \notin dropped
          PROVE  (IF masked /\ istate'[e] = NoKey THEN -1 ELSE Len(got'[e]))
                     = Base(e) + Len(incoming[e])
      <3>1. ExpectsHead(e) /\ Len(cells) = 0
        BY <1>4, <2>4, RunEmpty
      <3>2. Base(e) = -1 /\ masked /\ istate'[e] = NoKey
        BY <1>4, <3>1 DEF Base, ExpectsHead
      <3> QED
        BY <3>1, <3>2
    <2>5. Passed(e, p)
      BY <2>1, <2>2, <2>3, <2>4 DEF Passed
    <2> QED
      BY <1>3, <1>4, <2>5 DEF p
  <1>5. CASE ~none /\ wrong /\ istate' = [istate EXCEPT ![e] = AfterHead] /\ got' = got
    <2>1. AfterHead \in Keys /\ AfterHead = At(0)
      <3>1. At(0) \in CipherState /\ At(0) = AfterHead
        BY Positions
      <3> QED
        BY <3>1 DEF Keys
    <2>2. got[e] = <<>> /\ Len(got[e]) = 0
      <3>1. masked /\ istate[e] = NoKey
        BY <1>5 DEF ExpectsHead
      <3>2. At(Len(got[e])) # NoKey
        BY <1>2, FlowTypes, Positions
      <3> QED
        BY <1>2, <3>1, <3>2, RunEmpty DEF KeyInv
    <2>3. /\ istate' \in [End -> Keys] /\ istate'[e] = At(0) /\ istate'[p] = istate[p]
      BY <1>2, <1>3, <1>5, <2>1
    <2>4. p \in spoiled
      <3> SUFFICES ASSUME p \notin spoiled PROVE FALSE
        OBVIOUS
      <3>1. Base(e) = -1 /\ cells # <<>> /\ cells[1] # HeadCell
        BY <1>5 DEF Base
      <3>2. Run(masked, cells, -1)
        BY <1>2, <3>1 DEF FlowInv
      <3>3. Head(cells) = Want(masked, -1 + 1) /\ Head(cells) = cells[1] /\ -1 + 1 = 0
        BY <1>3, <3>1, <3>2, RunTail
      <3> QED
        BY <3>1, <3>3 DEF Want
    <2>5. Passed(e, p)
      BY <1>3, <1>5, <2>1, <2>2, <2>3, <2>4 DEF Passed
    <2> QED
      BY <1>3, <1>5, <2>3, <2>5 DEF p
  <1>6. CASE /\ ~none /\ ~wrong
             /\ istate' = [istate EXCEPT ![e] = state]
             /\ got' = [got EXCEPT ![e] = bytes]
    <2>1. /\ istate'[e] = state /\ got'[e] = bytes
          /\ istate'[p] = istate[p] /\ got'[p] = got[p]
      BY <1>2, <1>3, <1>6
    <2>2. ExpectsHead(e) => incoming[e] # <<>>
      BY <1>6
    <2>3. Passed(e, p)
      BY <1>2, <2>1, <2>2, PassedBody
    <2>4. state \in Keys /\ bytes \in Seq(Nat \cup {Junk})
      BY <2>1, <2>3 DEF Passed
    <2> HIDE DEF state, bytes
    <2>5. istate' \in [End -> Keys] /\ got' \in [End -> Seq(Nat \cup {Junk})]
      BY <1>3, <1>6, <2>4
    <2> QED
      BY <2>1, <2>3, <2>5 DEF p
  <1> QED
    BY <1>1, <1>4, <1>5, <1>6

\* A read is answered.
LEMMA ReadEndsStep ==
    ASSUME IndInv, NEW e \in End, ReadEnds(e)
    PROVE  IndInv'
  <1> DEFINE p == Peer(e)
  <1>1. /\ UNCHANGED <<masked, linked, closed, cut, dropped, pipe, spoiled>>
        /\ UNCHANGED <<wq, wbSize, ostate, outgoing, sent, offered, asked>>
        /\ rq[e] # <<>> /\ rq' = [rq EXCEPT ![e] = Tail(rq[e])]
        /\ rbSize' = [rbSize EXCEPT ![e] = rbSize[e] - Head(rq[e])]
        /\ incoming' = [incoming EXCEPT ![e] = <<>>]
    BY DEF ReadEnds, PopRead, life, writer
  <1>2. /\ TypeInv /\ p \in End /\ p # e
        /\ SizeInv(e) /\ KeyInv(e) /\ FlowInv(e, p) /\ FlowInv(p, e)
        /\ SizeInv(p) /\ KeyInv(p)
    BY Parts
  <1>3. /\ Passed(e, p)
        /\ istate' \in [End -> Keys] /\ got' \in [End -> Seq(Nat \cup {Junk})]
        /\ istate'[p] = istate[p] /\ got'[p] = got[p]
    BY PassedEffect
  <1> HIDE DEF p
  <1>4. rq[e] \in Seq(Nat) /\ rq[e] \in Seq(ReadSizes)
    BY <1>2, Queues
  <1>5. /\ Sum(Tail(rq[e])) = Sum(rq[e]) - Head(rq[e]) /\ Sum(Tail(rq[e])) \in Nat
        /\ Tail(rq[e]) \in Seq(ReadSizes)
    BY <1>1, <1>4, SumTail
  <1>6. rbSize' = [rbSize EXCEPT ![e] = Sum(Tail(rq[e]))]
    BY <1>1, <1>2, <1>5 DEF SizeInv
  <1>7. /\ rq'[e] = Tail(rq[e]) /\ rbSize'[e] = Sum(Tail(rq[e]))
        /\ rq'[p] = rq[p] /\ rbSize'[p] = rbSize[p]
        /\ incoming'[e] = <<>> /\ incoming'[p] = incoming[p]
    BY <1>1, <1>2, <1>6 DEF TypeInv
  <1>8. TypeInv'
    <2>1. rq' \in [End -> Seq(ReadSizes)]
      BY <1>1, <1>2, <1>5 DEF TypeInv
    <2>2. rbSize' \in [End -> Nat]
      BY <1>2, <1>5, <1>6 DEF TypeInv
    <2>3. incoming' \in [End -> Seq(Cells)]
      BY <1>1, <1>2, RunEmpty DEF TypeInv
    <2> QED
      BY <1>1, <1>2, <1>3, <2>1, <2>2, <2>3 DEF TypeInv
  <1>9. SizeInv(e)'
    BY <1>1, <1>2, <1>7 DEF SizeInv
  <1>10. KeyInv(e)'
    BY <1>1, <1>2, <1>3 DEF KeyInv, Passed
  <1>11. (SizeInv(p) /\ KeyInv(p))'
    BY <1>1, <1>2, <1>3, <1>7, EndKept
  <1>12. FlowInv(p, e)'
    BY <1>1, <1>2, <1>3, <1>7, FlowKept
  <1>13. FlowInv(e, p)'
    <2> SUFFICES ASSUME p \notin spoiled PROVE FlowInv(e, p)'
      BY <1>1 DEF FlowInv
    <2>1. /\ \A i \in DOMAIN got'[e] : got'[e][i] = i
          /\ e \in dropped \/ Base(e)' = Base(e) + Len(incoming[e])
      BY <1>1, <1>3 DEF Passed, Base, ExpectsHead
    <2>2. /\ Run(masked, incoming'[e], Base(e)') /\ Len(incoming'[e]) = 0
      BY <1>7, RunEmpty
    <2>3. Top(p)' = Top(p)
      BY <1>1 DEF Top, StartsStream
    <2>4. CASE e \in dropped
      <3>1. cut # {}
        BY <1>2, <2>4 DEF TypeInv
      <3> QED
        BY <1>1, <2>1, <2>2, <2>4, <3>1 DEF FlowInv
    <2>5. CASE e \notin dropped
      <3>1. PICK b \in Int : b = Base(e) + Len(incoming[e])
        BY <1>2, FlowTypes
      <3>2. Base(e)' = b
        BY <2>1, <2>5, <3>1
      <3>3. /\ Run(masked, pipe[p], b)
            /\ cut = {} => /\ Run(masked, outgoing[p], b + Len(pipe[p]))
                           /\ b + Len(pipe[p]) + Len(outgoing[p]) = Top(p)
        BY <1>2, <2>5, <3>1 DEF FlowInv
      <3>4. b + 0 = b
        OBVIOUS
      <3>5. Base(e)' + Len(incoming'[e]) = b
        BY <2>2, <3>2, <3>4
      <3> QED
        BY <1>1, <2>1, <2>2, <2>3, <3>3, <3>5 DEF FlowInv
    <2> QED
      BY <2>4, <2>5
  <1> QED
    BY <1>8, <1>9, <1>10, <1>11, <1>12, <1>13, Compose DEF p

-----------------------------------------------------------------------------
\* Two channels that have not done anything.
LEMMA InitInv == Init => IndInv
  <1> SUFFICES ASSUME Init PROVE IndInv
    OBVIOUS
  <1>1. /\ wq = [e \in End |-> <<>>] /\ rq = [e \in End |-> <<>>]
        /\ outgoing = [e \in End |-> <<>>] /\ incoming = [e \in End |-> <<>>]
        /\ pipe = [e \in End |-> <<>>] /\ got = [e \in End |-> <<>>]
        /\ wbSize = [e \in End |-> 0] /\ rbSize = [e \in End |-> 0]
        /\ sent = [e \in End |-> 0] /\ offered = [e \in End |-> 0]
        /\ asked = [e \in End |-> 0]
        /\ ostate = [e \in End |-> NoKey] /\ istate = [e \in End |-> NoKey]
    BY DEF Init
  <1>2. /\ closed = {} /\ cut = {} /\ dropped = {} /\ spoiled = {}
        /\ masked \in BOOLEAN
    BY DEF Init
  <1>3. linked \in BOOLEAN
    BY Zenon DEF Init
  <1>4. TypeInv
    <2>1. NoKey \in Keys
      BY DEF Keys
    <2>2. /\ wq \in [End -> Seq(WriteSizes)] /\ rq \in [End -> Seq(ReadSizes)]
          /\ outgoing \in [End -> Seq(Cells)] /\ incoming \in [End -> Seq(Cells)]
          /\ pipe \in [End -> Seq(Cells)] /\ got \in [End -> Seq(Nat \cup {Junk})]
      BY <1>1
    <2>3. /\ wbSize \in [End -> Nat] /\ rbSize \in [End -> Nat] /\ sent \in [End -> Nat]
          /\ offered \in [End -> Nat] /\ asked \in [End -> Nat]
          /\ ostate \in [End -> Keys] /\ istate \in [End -> Keys]
      BY <1>1, <2>1
    <2> QED
      BY <1>2, <1>3, <2>2, <2>3 DEF TypeInv
  <1>5. ASSUME NEW e \in End PROVE SizeInv(e) /\ KeyInv(e)
    BY <1>1, SumEmpty DEF SizeInv, KeyInv
  <1>6. ASSUME NEW e \in End PROVE FlowInv(e, Peer(e))
    <2>1. Peer(e) \in End
      BY Peers
    <2>2. /\ got[e] = <<>> /\ incoming[e] = <<>> /\ pipe[Peer(e)] = <<>>
          /\ outgoing[Peer(e)] = <<>> /\ Len(<<>>) = 0
      BY <1>1, <2>1
    <2>3. Base(e) = Top(Peer(e)) /\ Base(e) \in Int
      BY <1>1, <2>1, <2>2 DEF Base, Top, ExpectsHead, StartsStream
    <2>4. \A k : Run(masked, <<>>, k)
      BY RunEmpty
    <2>5. \A i \in DOMAIN got[e] : got[e][i] = i
      BY <2>2
    <2>6. Base(e) + Len(incoming[e]) + Len(pipe[Peer(e)]) + Len(outgoing[Peer(e)])
              = Top(Peer(e))
      BY <2>2, <2>3
    <2> QED
      BY <2>2, <2>4, <2>5, <2>6 DEF FlowInv
  <1> QED
    BY <1>4, <1>5, <1>6 DEF IndInv

\* Every step of the two channels and of TCP keeps the invariant.
LEMMA NextInv == IndInv /\ [Next]_vars => IndInv'
  <1> SUFFICES ASSUME IndInv, [Next]_vars PROVE IndInv'
    OBVIOUS
  <1>1. CASE UNCHANGED vars
    <2>1. /\ UNCHANGED <<masked, writer, reader, pipe, spoiled>>
          /\ UNCHANGED <<linked, closed, cut, dropped>>
      BY <1>1 DEF vars, life
    <2>2. /\ linked' \in BOOLEAN /\ cut \subseteq cut' /\ dropped \subseteq dropped'
          /\ closed' \subseteq cut' /\ dropped' \subseteq closed' /\ cut' \subseteq End
      BY <2>1 DEF IndInv, TypeInv
    <2> QED
      BY <2>1, <2>2, LifeStep
  <1>2. CASE Link \/ \E e \in End : Close(e) \/ Shutdown(e)
    BY <1>2, ConnectionStep
  <1>3. ASSUME NEW e \in End, Transmit(e) \/ Receive(e) \/ Destroy(e) PROVE IndInv'
    BY <1>3, TransmitStep, ReceiveStep, DestroyStep
  <1>4. ASSUME NEW e \in End, WriteEnds(e) \/ ReadEnds(e) PROVE IndInv'
    BY <1>4, WriteEndsStep, ReadEndsStep
  <1>5. ASSUME NEW e \in End, NEW n \in WriteSizes, Write(e, n) PROVE IndInv'
    BY <1>5, WriteStep
  <1>6. ASSUME NEW e \in End, NEW n \in ReadSizes, Read(e, n) PROVE IndInv'
    BY <1>6, ReadStep
  <1> QED
    BY <1>1, <1>2, <1>3, <1>4, <1>5, <1>6 DEF Next

\* In every reachable state the queues have the sizes kept beside them, the keys
\* stand where the bytes put them, and the cells under way continue the streams.
THEOREM Inductive == Spec => []IndInv
  BY InitInv, NextInv, PTL DEF Spec

-----------------------------------------------------------------------------
\* The handlers.

\* Each operation that was accepted and not answered is in a queue, or was behind
\* the first of a queue when the channel object was destroyed.
OwedInv ==
    /\ owed \in [End -> Nat] /\ orphans \in [End -> Nat]
    /\ \A e \in End :
        /\ orphans[e] = 0 \/ e \in dropped
        /\ owed[e] = Len(wq[e]) + Len(rq[e]) + orphans[e]

\* A step of one endpoint keeps the handlers of the other.
LEMMA OwedEnd ==
    ASSUME OwedInv, NEW e \in End, NEW k \in Nat, NEW o \in Nat,
           owed' = [owed EXCEPT ![e] = k], orphans' = [orphans EXCEPT ![e] = o],
           k = Len(wq'[e]) + Len(rq'[e]) + o, o = 0 \/ e \in dropped',
           dropped \subseteq dropped',
           \A x \in End \ {e} : wq'[x] = wq[x] /\ rq'[x] = rq[x]
    PROVE  OwedInv'
  <1>1. owed' \in [End -> Nat] /\ orphans' \in [End -> Nat]
    BY DEF OwedInv
  <1>2. owed'[e] = k /\ orphans'[e] = o
    BY DEF OwedInv
  <1>3. ASSUME NEW x \in End \ {e}
        PROVE  /\ orphans'[x] = 0 \/ x \in dropped'
               /\ owed'[x] = Len(wq'[x]) + Len(rq'[x]) + orphans'[x]
    <2>1. owed'[x] = owed[x] /\ orphans'[x] = orphans[x]
      BY DEF OwedInv
    <2> QED
      BY <2>1 DEF OwedInv
  <1> QED
    BY <1>1, <1>2, <1>3 DEF OwedInv

\* The queues and the handlers are left alone.
LEMMA OwedKept ==
    ASSUME OwedInv, UNCHANGED <<wq, rq, owed, orphans>>, dropped \subseteq dropped'
    PROVE  OwedInv'
  BY DEF OwedInv

\* An operation is accepted.
LEMMA OwedMore ==
    ASSUME OwedInv, TypeInv, NEW e \in End, NEW n, Owe(e), dropped' = dropped,
           \/ n \in WriteSizes /\ wq' = [wq EXCEPT ![e] = Append(@, n)] /\ rq' = rq
           \/ n \in ReadSizes /\ rq' = [rq EXCEPT ![e] = Append(@, n)] /\ wq' = wq
    PROVE  OwedInv'
  <1>1. PICK w \in Nat, r \in Nat, o \in Nat :
           w = Len(wq[e]) /\ r = Len(rq[e]) /\ o = orphans[e]
    <2>1. Len(wq[e]) \in Nat /\ Len(rq[e]) \in Nat /\ orphans[e] \in Nat
      BY DEF TypeInv, OwedInv
    <2> QED
      BY <2>1
  <1>2. owed[e] = w + r + o /\ (o = 0 \/ e \in dropped)
    BY <1>1 DEF OwedInv
  <1>3. owed' = [owed EXCEPT ![e] = w + r + o + 1] /\ orphans' = [orphans EXCEPT ![e] = o]
    BY <1>1, <1>2 DEF Owe, OwedInv
  <1>4. \/ Len(wq'[e]) = w + 1 /\ Len(rq'[e]) = r
        \/ Len(wq'[e]) = w /\ Len(rq'[e]) = r + 1
    BY <1>1 DEF TypeInv
  <1>5. \A x \in End \ {e} : wq'[x] = wq[x] /\ rq'[x] = rq[x]
    BY DEF TypeInv
  <1>6. PICK k \in Nat : k = w + r + o + 1
    OBVIOUS
  <1>7. k = Len(wq'[e]) + Len(rq'[e]) + o
    <2>1. \E a, b \in Nat : /\ a = Len(wq'[e]) /\ b = Len(rq'[e])
                            /\ (a = w + 1 /\ b = r) \/ (a = w /\ b = r + 1)
      BY <1>4
    <2>2. PICK a, b \in Nat : /\ a = Len(wq'[e]) /\ b = Len(rq'[e])
                              /\ (a = w + 1 /\ b = r) \/ (a = w /\ b = r + 1)
      BY <2>1, Zenon
    <2>3. \A i, j \in Nat : (i = w + 1 /\ j = r) \/ (i = w /\ j = r + 1) => k = i + j + o
      BY <1>6
    <2>4. k = a + b + o
      BY <2>2, <2>3, Zenon
    <2>5. Len(wq'[e]) = a /\ Len(rq'[e]) = b
      BY <2>2, Zenon
    <2> QED
      BY <2>4, <2>5
  <1> QED
    BY <1>2, <1>3, <1>5, <1>6, <1>7, OwedEnd

\* A sequence without its first element is one shorter.
LEMMA TailShorter ==
    ASSUME NEW S, NEW q \in Seq(S), q # <<>>
    PROVE  Len(q) > 0 /\ Len(Tail(q)) = Len(q) - 1
  OBVIOUS

\* The handler of the first operation of a queue is called.
LEMMA OwedLess ==
    ASSUME OwedInv, TypeInv, NEW e \in End, Answer(e), dropped' = dropped,
           \/ wq[e] # <<>> /\ wq' = [wq EXCEPT ![e] = Tail(@)] /\ rq' = rq
           \/ rq[e] # <<>> /\ rq' = [rq EXCEPT ![e] = Tail(@)] /\ wq' = wq
    PROVE  OwedInv'
  <1>1. PICK w \in Nat, r \in Nat, o \in Nat :
           w = Len(wq[e]) /\ r = Len(rq[e]) /\ o = orphans[e]
    <2>1. Len(wq[e]) \in Nat /\ Len(rq[e]) \in Nat /\ orphans[e] \in Nat
      BY DEF TypeInv, OwedInv
    <2> QED
      BY <2>1
  <1>2. owed[e] = w + r + o /\ (o = 0 \/ e \in dropped)
    BY <1>1 DEF OwedInv
  <1>3. \/ w > 0 /\ Len(wq'[e]) = w - 1 /\ Len(rq'[e]) = r
        \/ r > 0 /\ Len(wq'[e]) = w /\ Len(rq'[e]) = r - 1
    <2>1. wq[e] \in Seq(WriteSizes) /\ rq[e] \in Seq(ReadSizes)
      BY DEF TypeInv
    <2>2. CASE wq[e] # <<>> /\ wq' = [wq EXCEPT ![e] = Tail(@)] /\ rq' = rq
      <3>1. wq'[e] = Tail(wq[e]) /\ rq'[e] = rq[e]
        BY <2>2 DEF TypeInv
      <3>2. Len(wq[e]) > 0 /\ Len(Tail(wq[e])) = Len(wq[e]) - 1
        BY <2>1, <2>2, TailShorter
      <3>3. w > 0 /\ Len(wq'[e]) = w - 1 /\ Len(rq'[e]) = r
        BY <1>1, <3>1, <3>2, Zenon
      <3> QED
        BY <3>3, Zenon
    <2>3. CASE rq[e] # <<>> /\ rq' = [rq EXCEPT ![e] = Tail(@)] /\ wq' = wq
      <3>1. rq'[e] = Tail(rq[e]) /\ wq'[e] = wq[e]
        BY <2>3 DEF TypeInv
      <3>2. Len(rq[e]) > 0 /\ Len(Tail(rq[e])) = Len(rq[e]) - 1
        BY <2>1, <2>3, TailShorter
      <3>3. r > 0 /\ Len(wq'[e]) = w /\ Len(rq'[e]) = r - 1
        BY <1>1, <3>1, <3>2, Zenon
      <3> QED
        BY <3>3, Zenon
    <2> QED
      BY <2>2, <2>3
  <1>4. PICK k \in Nat : k = w + r + o - 1
    BY <1>3
  <1>5. owed' = [owed EXCEPT ![e] = k] /\ orphans' = [orphans EXCEPT ![e] = o]
    <2>1. owed[e] - 1 = k
      BY <1>2, <1>4
    <2>2. owed' = [owed EXCEPT ![e] = owed[e] - 1] /\ orphans' = orphans
      BY DEF Answer
    <2>3. orphans = [orphans EXCEPT ![e] = orphans[e]]
      BY DEF OwedInv
    <2> QED
      BY <1>1, <2>1, <2>2, <2>3, Zenon
  <1>6. \A x \in End \ {e} : wq'[x] = wq[x] /\ rq'[x] = rq[x]
    BY DEF TypeInv
  <1>7. k = Len(wq'[e]) + Len(rq'[e]) + o
    <2>2. \E a, b \in Nat : /\ a = Len(wq'[e]) /\ b = Len(rq'[e])
                            /\ (a = w - 1 /\ b = r) \/ (a = w /\ b = r - 1)
      <3>1. w > 0 => w - 1 \in Nat
        OBVIOUS
      <3>2. r > 0 => r - 1 \in Nat
        OBVIOUS
      <3> QED
        BY <1>3, <3>1, <3>2, Zenon
    <2>3. PICK a, b \in Nat : /\ a = Len(wq'[e]) /\ b = Len(rq'[e])
                              /\ (a = w - 1 /\ b = r) \/ (a = w /\ b = r - 1)
      BY <2>2, Zenon
    <2>4. \A i, j \in Nat : (i = w - 1 /\ j = r) \/ (i = w /\ j = r - 1) => k = i + j + o
      BY <1>4
    <2>5. k = a + b + o
      BY <2>3, <2>4, Zenon
    <2>6. Len(wq'[e]) = a /\ Len(rq'[e]) = b
      BY <2>3, Zenon
    <2> QED
      BY <2>5, <2>6
  <1> QED
    BY <1>2, <1>5, <1>6, <1>7, OwedEnd

\* The destructor leaves the handlers behind the first of each queue uncalled.
LEMMA OwedDestroy ==
    ASSUME OwedInv, TypeInv, NEW e \in End, Destroy(e)
    PROVE  OwedInv'
  <1> DEFINE first(q) == SubSeq(q, 1, IF q = <<>> THEN 0 ELSE 1)
  <1>1. /\ wq' = [wq EXCEPT ![e] = first(wq[e])] /\ rq' = [rq EXCEPT ![e] = first(rq[e])]
        /\ owed' = owed /\ dropped' = dropped \cup {e} /\ e \notin dropped
        /\ orphans' = [orphans EXCEPT ![e] = Behind(wq[e]) + Behind(rq[e])]
    BY DEF Destroy
  <1>2. wq[e] \in Seq(WriteSizes) /\ rq[e] \in Seq(ReadSizes)
    BY DEF TypeInv
  <1>3. ASSUME NEW S, NEW q \in Seq(S)
        PROVE  Behind(q) \in Nat /\ Len(q) = Len(first(q)) + Behind(q)
               /\ Len(first(q)) \in Nat
    <2>1. CASE q = <<>>
      BY <2>1 DEF Behind
    <2>2. CASE q # <<>>
      <3>1. first(q) = SubSeq(q, 1, 1) /\ Len(q) >= 1 /\ Len(q) \in Nat
        BY <2>2
      <3>2. Len(first(q)) = 1
        BY <3>1
      <3> QED
        BY <2>2, <3>1, <3>2 DEF Behind
    <2> QED
      BY <2>1, <2>2
  <1>4. PICK w \in Nat, r \in Nat, a \in Nat, b \in Nat :
           /\ w = Len(first(wq[e])) /\ a = Behind(wq[e]) /\ Len(wq[e]) = w + a
           /\ r = Len(first(rq[e])) /\ b = Behind(rq[e]) /\ Len(rq[e]) = r + b
    BY <1>2, <1>3
  <1>5. wq'[e] = first(wq[e]) /\ rq'[e] = first(rq[e])
    BY <1>1 DEF TypeInv
  <1>6. \A x \in End \ {e} : wq'[x] = wq[x] /\ rq'[x] = rq[x]
    BY <1>1 DEF TypeInv
  <1> HIDE DEF first
  <1>7. owed[e] = (w + a) + (r + b) + 0
    BY <1>1, <1>4 DEF OwedInv
  <1>8. PICK o \in Nat : o = a + b
    OBVIOUS
  <1>9. PICK k \in Nat : k = w + r + o
    OBVIOUS
  <1>10. owed' = [owed EXCEPT ![e] = k]
    BY <1>1, <1>7, <1>8, <1>9 DEF OwedInv
  <1>11. orphans' = [orphans EXCEPT ![e] = o]
    BY <1>1, <1>4, <1>8
  <1>12. k = Len(wq'[e]) + Len(rq'[e]) + o
    BY <1>4, <1>5, <1>9
  <1> QED
    BY <1>1, <1>6, <1>10, <1>11, <1>12, OwedEnd

\* Every step keeps the account of the handlers.
LEMMA NextOwed == IndInv /\ OwedInv /\ [Next]_vars => OwedInv'
  <1> SUFFICES ASSUME IndInv, OwedInv, [Next]_vars PROVE OwedInv'
    OBVIOUS
  <1>1. TypeInv
    BY DEF IndInv
  <1>2. CASE UNCHANGED vars
    <2>1. UNCHANGED <<wq, rq, owed, orphans, dropped>>
      BY <1>2 DEF vars, life, writer, reader, handlers
    <2> QED
      BY <2>1, OwedKept
  <1>3. CASE Link \/ \E e \in End : Transmit(e) \/ Receive(e) \/ Close(e) \/ Shutdown(e)
    <2>1. UNCHANGED <<wq, rq, owed, orphans, dropped>>
      BY <1>3 DEF Link, Transmit, Receive, Close, Shutdown, life, writer, reader, handlers
    <2> QED
      BY <2>1, OwedKept
  <1>4. ASSUME NEW e \in End, WriteEnds(e) PROVE OwedInv'
    <2>1. /\ wq[e] # <<>> /\ wq' = [wq EXCEPT ![e] = Tail(@)] /\ rq' = rq
          /\ Answer(e) /\ dropped' = dropped
      BY <1>4 DEF WriteEnds, life, reader
    <2> QED
      BY <1>1, <2>1, OwedLess
  <1>5. ASSUME NEW e \in End, ReadEnds(e) PROVE OwedInv'
    <2>1. /\ rq[e] # <<>> /\ rq' = [rq EXCEPT ![e] = Tail(@)] /\ wq' = wq
          /\ Answer(e) /\ dropped' = dropped
      BY <1>5 DEF ReadEnds, PopRead, life, writer
    <2> QED
      BY <1>1, <2>1, OwedLess
  <1>6. ASSUME NEW e \in End, NEW n \in WriteSizes, Write(e, n) PROVE OwedInv'
    <2>1. /\ wq' = [wq EXCEPT ![e] = Append(@, n)] /\ rq' = rq
          /\ Owe(e) /\ dropped' = dropped
      BY <1>6 DEF Write, life, reader
    <2> QED
      BY <1>1, <2>1, OwedMore
  <1>7. ASSUME NEW e \in End, NEW n \in ReadSizes, Read(e, n) PROVE OwedInv'
    <2>1. /\ rq' = [rq EXCEPT ![e] = Append(@, n)] /\ wq' = wq
          /\ Owe(e) /\ dropped' = dropped
      BY <1>7 DEF Read, life, writer
    <2> QED
      BY <1>1, <2>1, OwedMore
  <1>8. ASSUME NEW e \in End, Destroy(e) PROVE OwedInv'
    BY <1>1, <1>8, OwedDestroy
  <1> QED
    BY <1>2, <1>3, <1>4, <1>5, <1>6, <1>7, <1>8 DEF Next

\* No accepted operation is forgotten and none is answered twice: the handlers
\* not called yet are those of the queues, and of a destroyed channel those that
\* were behind the first of a queue.
THEOREM HandlersOwed == Spec => []OwedInv
  <1>1. Init => OwedInv
    BY DEF Init, OwedInv
  <1> QED
    BY <1>1, NextOwed, Inductive, PTL DEF Spec

\* The queues, the sizes beside them and the keys keep their types: m_wb_size and
\* m_rb_size never fall below zero, and no handler is called more than once.
THEOREM TypeCorrect == Spec => []TypeOK
  <1>1. IndInv /\ OwedInv => TypeOK
    <2> SUFFICES ASSUME IndInv, OwedInv PROVE TypeOK
      OBVIOUS
    <2>1. TypeInv
      BY DEF IndInv
    <2>2. ASSUME NEW e \in End
          PROVE  /\ wq[e] \in Seq(WriteSizes) /\ rq[e] \in Seq(ReadSizes)
                 /\ {wbSize[e], rbSize[e], sent[e], offered[e], asked[e]} \subseteq Nat
                 /\ {ostate[e], istate[e]} \subseteq CipherState \cup {NoKey}
                 /\ got[e] \in Seq(Nat \cup {Junk})
      BY <2>1 DEF TypeInv, Keys
    <2>3. ASSUME NEW e \in End PROVE {owed[e], orphans[e]} \subseteq Nat
      BY DEF OwedInv
    <2> QED
      BY <2>1, <2>2, <2>3 DEF TypeInv, TypeOK
  <1> QED
    BY <1>1, Inductive, HandlersOwed, PTL

-----------------------------------------------------------------------------
\* The readers get the written bytes, in order, none missing and none unmasked
\* with the wrong key, however the writes, TCP and the reads cut the stream, as
\* long as no write of the peer failed before the link.
THEOREM BytesIntact == Spec => []StreamIntact
  <1>1. IndInv => StreamIntact
    BY DEF IndInv, FlowInv, StreamIntact
  <1> QED
    BY <1>1, Inductive, PTL

\* What readable() promises beyond the reads of the queue has already come.
THEOREM ReadableHeld == Spec => []ReadableSound
  <1>1. IndInv => ReadableSound
    <2> SUFFICES ASSUME IndInv, NEW e \in End, Readable(e) > 0
                 PROVE  Len(incoming[e]) + Len(pipe[Peer(e)])
                            - (IF ExpectsHead(e) THEN 1 ELSE 0)
                            >= Sum(rq[e]) + Readable(e)
      BY DEF ReadableSound
    <2>1. TypeInv /\ Peer(e) \in End /\ rbSize[e] = Sum(rq[e])
      BY Parts DEF SizeInv
    <2>2. PICK i \in Nat, m \in Nat, r \in Nat :
             i = Len(incoming[e]) /\ m = Len(pipe[Peer(e)]) /\ r = rbSize[e]
      <3>1. /\ Len(incoming[e]) \in Nat /\ Len(pipe[Peer(e)]) \in Nat
            /\ rbSize[e] \in Nat
        BY <2>1, FlowTypes DEF TypeInv
      <3> QED
        BY <3>1
    <2>3. PICK h \in {0, 1} : h = IF ExpectsHead(e) THEN 1 ELSE 0
      OBVIOUS
    <2>4. PICK a \in Nat : a = Available(e) /\ (a = 0 \/ a <= m - h)
      <3>1. CASE e \in closed
        BY <3>1 DEF Available
      <3>2. CASE e \notin closed /\ ExpectsHead(e)
        <4>1. Available(e) = IF m >= 1 THEN m - 1 ELSE 0
          BY <2>2, <3>2 DEF Available
        <4> QED
          BY <2>3, <3>2, <4>1
      <3>3. CASE e \notin closed /\ ~ExpectsHead(e)
        <4>1. Available(e) = m
          BY <2>2, <3>3 DEF Available
        <4> QED
          BY <2>3, <3>3, <4>1
      <3> QED
        BY <3>1, <3>2, <3>3
    <2>5. a > r /\ Readable(e) = a - r
      BY <2>2, <2>4 DEF Readable
    <2>6. i + m - h >= r + (a - r)
      <3>1. a > r /\ h \in Int
        BY <2>5
      <3>2. a <= m - h
        BY <2>4, <3>1
      <3> QED
        BY <3>1, <3>2
    <2>7. Sum(rq[e]) + Readable(e) = r + (a - r)
      BY <2>1, <2>2, <2>5
    <2>8. Len(incoming[e]) + Len(pipe[Peer(e)]) - (IF ExpectsHead(e) THEN 1 ELSE 0)
              = i + m - h
      BY <2>2, <2>3
    <2> QED
      BY <2>6, <2>7, <2>8, Zenon
  <1> QED
    BY <1>1, Inductive, PTL

=============================================================================
