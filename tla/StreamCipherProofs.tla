------------------------- MODULE StreamCipherProofs -------------------------
(***************************************************************************)
(* The key stream does not depend on how the data is cut: what is masked   *)
(* in the chunks of the writes is unmasked in the chunks of the reads.     *)
(***************************************************************************)
EXTENDS StreamCipher, TLAPS

\* Division with rest by the size of a key word.
LEMMA DivMod ==
    ASSUME NEW n \in Nat
    PROVE  /\ n \div Word \in Nat /\ (n % Word) \in 0 .. (Word - 1)
           /\ n = Word * (n \div Word) + (n % Word)
BY WordAssumption

\* Quotient and rest are unique.
LEMMA DivUnique ==
    ASSUME NEW q \in Nat, NEW r \in 0 .. (Word - 1), NEW n \in Nat, n = Word * q + r
    PROVE  n \div Word = q /\ n % Word = r
BY WordAssumption

\* The blocks made for n bytes, by the rest of n: one more if a word is begun.
LEMMA Rounded ==
    ASSUME NEW q \in Nat, NEW r \in 0 .. (Word - 1), NEW n \in Nat, n = Word * q + r
    PROVE  /\ r = 0 => (n + Word - 1) \div Word = q
           /\ r > 0 => (n + Word - 1) \div Word = q + 1
<1>1. CASE r = 0
  <2>1. /\ Word - 1 \in 0 .. (Word - 1) /\ n + Word - 1 \in Nat
        /\ n + Word - 1 = Word * q + (Word - 1)
    BY <1>1, WordAssumption
  <2>2. (n + Word - 1) \div Word = q
    BY <2>1, DivUnique
  <2> QED
    BY <1>1, <2>2
<1>2. CASE r > 0
  <2>1. /\ r - 1 \in 0 .. (Word - 1) /\ n + Word - 1 \in Nat /\ q + 1 \in Nat
        /\ n + Word - 1 = Word * (q + 1) + (r - 1)
    BY <1>2, WordAssumption
  <2>2. (n + Word - 1) \div Word = q + 1
    BY <2>1, DivUnique
  <2> QED
    BY <1>2, <2>2
<1> QED
  BY <1>1, <1>2

\* The key words made for m bytes after a word boundary are those the
\* reference counts.
LEMMA FreshCount ==
    ASSUME NEW q \in Nat, NEW m \in Nat \ {0}
    PROVE  (Word * q + m + Word - 1) \div Word = q + Fresh(m)
<1>1. /\ m - 1 \in Nat
      /\ (m - 1) \div Word \in Nat /\ ((m - 1) % Word) \in 0 .. (Word - 1)
      /\ m - 1 = Word * ((m - 1) \div Word) + ((m - 1) % Word)
  BY DivMod
<1> DEFINE f == (m - 1) \div Word
           r == (m - 1) % Word
<1>2. /\ Word * q \in Nat /\ Word * (q + f + 1) = Word * q + Word * f + Word
  BY <1>1, WordAssumption
<1>3. /\ q + f + 1 \in Nat /\ Word * q + m + Word - 1 \in Nat
      /\ Word * q + m + Word - 1 = Word * (q + f + 1) + r
  <2> HIDE DEF f, r
  <2>1. f \in Nat /\ r \in 0 .. (Word - 1) /\ m - 1 = Word * f + r /\ Word * f \in Nat
    BY <1>1, WordAssumption DEF f, r
  <2> QED
    BY <1>2, <2>1, WordAssumption
<1>4. (Word * q + m + Word - 1) \div Word = q + f + 1
  <2> HIDE DEF f, r
  <2>1. r \in 0 .. (Word - 1)
    BY <1>1 DEF r
  <2> QED
    BY <1>3, <2>1, DivUnique
<1> QED
  BY <1>1, <1>4 DEF Fresh

\* alter_data of n bytes takes the state after c bytes to the state after c + n
\* bytes, for every size of a key word and wherever the chunk begins and ends:
\* the position in the key stream is a function of the number of bytes alone,
\* so the writer's and the reader's cuts of the stream need not agree.
THEOREM CutsDoNotMatter ==
    ASSUME NEW c \in Nat, NEW n \in Nat
    PROVE  Alter(At(c), n) = At(c + n)
<1> DEFINE q == c \div Word
           r == c % Word
           s == At(c)
           old == OldPart(s, n)
           left == n - old
<1>1. q \in Nat /\ r \in 0 .. (Word - 1) /\ c = Word * q + r
  BY DivMod
<1>2. /\ s = [block |-> IF r = 0 THEN q ELSE q + 1, shift |-> r]
      /\ s.shift = r /\ s.block = IF r = 0 THEN q ELSE q + 1
  <2> HIDE DEF q, r
  <2>1. r = 0 \/ r > 0
    BY <1>1
  <2>2. (c + Word - 1) \div Word = IF r = 0 THEN q ELSE q + 1
    BY <1>1, <2>1, Rounded
  <2> QED
    BY <2>2 DEF At, r
<1>3. /\ old \in Nat /\ left \in Nat /\ old + left = n
      /\ r = 0 => old = 0
      /\ r > 0 => old = IF Word - r <= n THEN Word - r ELSE n
  <2> HIDE DEF s, r
  <2> QED
    BY <1>1, <1>2, WordAssumption DEF OldPart
<1> HIDE DEF q, r, s, old
<1>4. CASE left = 0
  <2>1. /\ Alter(s, n) = [s EXCEPT !.shift = IF @ + old = Word THEN 0 ELSE @ + old]
        /\ old = n
    BY <1>4, <1>3 DEF Alter, old
  <2>2. CASE r + n = Word
    <3>1. r > 0
      BY <1>1, <1>3, <2>1, <2>2, WordAssumption
    <3>2. Alter(s, n) = [block |-> q + 1, shift |-> 0]
      BY <3>1, <2>1, <2>2, <1>2, <1>1
    <3>3. c + n = Word * (q + 1) + 0 /\ c + n \in Nat /\ q + 1 \in Nat
          /\ 0 \in 0 .. (Word - 1)
      BY <1>1, <2>2, WordAssumption
    <3>4. /\ (c + n + Word - 1) \div Word = q + 1 /\ (c + n) % Word = 0
      BY <3>3, Rounded, DivUnique
    <3> QED
      BY <3>2, <3>4 DEF At, s
  <2>3. CASE r + n # Word
    <3>1. r + n \in 0 .. (Word - 1) /\ (r = 0 => n = 0)
      <4>1. r = 0 \/ r > 0
        BY <1>1
      <4>2. CASE r = 0
        BY <4>2, <1>3, <2>1, WordAssumption
      <4>3. CASE r > 0
        <5>1. ~(Word - r <= n)
          BY <4>3, <1>1, <1>3, <2>1, <2>3, WordAssumption
        <5> QED
          BY <4>3, <5>1, <1>1, WordAssumption
      <4> QED
        BY <4>1, <4>2, <4>3
    <3>2. Alter(s, n) = [block |-> IF r = 0 THEN q ELSE q + 1, shift |-> r + n]
      BY <2>1, <2>3, <1>2, <1>1
    <3>3. c + n = Word * q + (r + n) /\ c + n \in Nat
      BY <1>1, WordAssumption
    <3>4. /\ (r + n = 0 => (c + n + Word - 1) \div Word = q)
          /\ (r + n > 0 => (c + n + Word - 1) \div Word = q + 1)
          /\ (c + n) % Word = r + n
      BY <1>1, <3>1, <3>3, Rounded, DivUnique
    <3>5. (r = 0 /\ r + n = 0) \/ (r # 0 /\ r + n > 0)
      BY <1>1, <3>1
    <3> QED
      BY <3>2, <3>4, <3>5 DEF At, s
  <2> QED
    BY <2>2, <2>3
<1>5. CASE left # 0
  <2>1. Alter(s, n) = [block |-> s.block + Fresh(left), shift |-> left % Word]
    BY <1>5 DEF Alter, old
  <2>2. \/ r = 0 /\ old = 0 /\ s.block = q
        \/ r > 0 /\ old = Word - r /\ s.block = q + 1
    BY <1>1, <1>2, <1>3, <1>5
  <2>3. c + n = Word * s.block + left /\ s.block \in Nat
    <3>1. CASE r = 0 /\ old = 0 /\ s.block = q
      BY <3>1, <1>1, <1>3, WordAssumption
    <3>2. CASE r > 0 /\ old = Word - r /\ s.block = q + 1
      <4>1. Word * (q + 1) = Word * q + Word
        BY <1>1, WordAssumption
      <4>2. Word * q \in Nat
        BY <1>1, WordAssumption
      <4> QED
        BY <3>2, <4>1, <4>2, <1>1, <1>3, WordAssumption
    <3> QED
      BY <2>2, <3>1, <3>2
  <2> DEFINE b == s.block
             f == left \div Word
             t == left % Word
  <2> HIDE DEF b, f, t, left
  <2>4. left \in Nat \ {0} /\ b \in Nat /\ c + n = Word * b + left
    BY <1>3, <1>5, <2>3 DEF b
  <2>5. (c + n + Word - 1) \div Word = b + Fresh(left)
    BY <2>4, FreshCount
  <2>6. f \in Nat /\ t \in 0 .. (Word - 1) /\ left = Word * f + t
    BY <2>4, DivMod DEF f, t
  <2>7. /\ Word * (b + f) = Word * b + Word * f /\ Word * b \in Nat
        /\ Word * f \in Nat
    BY <2>4, <2>6, WordAssumption
  <2>8. c + n = Word * (b + f) + t /\ b + f \in Nat /\ c + n \in Nat
    BY <2>4, <2>6, <2>7
  <2>9. (c + n) % Word = t
    BY <2>6, <2>8, DivUnique
  <2> QED
    BY <2>1, <2>5, <2>9 DEF At, b, t, s
<1> QED
  BY <1>4, <1>5

=============================================================================
