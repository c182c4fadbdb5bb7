---------------------------- MODULE StreamCipher ----------------------------
(***************************************************************************)
(* The position in the key stream that obfuscates one direction of a TCP   *)
(* channel (tcp/proto.h).  make_inverter() turns a key word into the next  *)
(* one; a word masks Word bytes.  A state is the number of key words made  *)
(* since the head and the bytes used of the last one: m_ostate of the      *)
(* writer, m_istate of the reader.  What is written in chunks of one size  *)
(* is read in chunks of another, so the two agree on the mask of a byte    *)
(* only if the state does not depend on how the stream was cut.            *)
(***************************************************************************)
EXTENDS Integers

CONSTANT Word   \* sizeof(uint64_t)

ASSUME WordAssumption == Word \in Nat \ {0}

CipherState == [block : Nat, shift : Nat]

\* The state write_head and read_head leave.
AfterHead == [block |-> 0, shift |-> 0]

\* The bytes of a chunk of n that the rest of the last key word masks.
OldPart(s, n) ==
    IF s.shift = 0 THEN 0
    ELSE IF Word - s.shift <= n THEN Word - s.shift ELSE n

\* Mutant: a key word is made after the last whole word, too.
FreshEager(n) == 1 + n \div Word

\* The key words made for n > 0 bytes: one, and one after each whole word that
\* is followed by another byte.
Fresh(n) == 1 + (n - 1) \div Word

\* stream::alter_data of a chunk of n bytes.
Alter(s, n) ==
    LET old  == OldPart(s, n)
        left == n - old
    IN  IF left = 0
        THEN [s EXCEPT !.shift = IF @ + old = Word THEN 0 ELSE @ + old]
        ELSE [block |-> s.block + Fresh(left), shift |-> left % Word]

\* The state after n bytes, however they were cut: the reference.
At(n) == [block |-> (n + Word - 1) \div Word, shift |-> n % Word]

=============================================================================
