----------------------------- MODULE ByteStream -----------------------------
(***************************************************************************)
(* What one direction of a channel promises to the two applications (the   *)
(* read and write operations of channel.h and README.md): a byte stream    *)
(* that delivers the written bytes once and in order, reports as           *)
(* transmitted only bytes that are in the peer's hands, and never holds    *)
(* more than Window bytes that no reader has taken.  The byte written at   *)
(* place b is b itself.                                                    *)
(***************************************************************************)
EXTENDS Integers

CONSTANT Window     \* the receive buffer

VARIABLES
    written,    \* the number of bytes accepted from the writer
    arrived,    \* the bytes in the hands of the reading endpoint
    delivered,  \* the <<place, byte>> pairs the readers got
    confirmed   \* the number of bytes the writer knows as transmitted

vars == <<written, arrived, delivered, confirmed>>

\* The first n places hold the first n written bytes.
Prefix(n) == {<<b, b>> : b \in 0 .. (n - 1)}

Init == written = 0 /\ arrived = {} /\ delivered = {} /\ confirmed = 0

\* write() is accepted.
Write ==
    /\ written < written'
    /\ UNCHANGED <<arrived, delivered, confirmed>>

\* Bytes arrive, and the readers get what is there without a gap.
Deliver ==
    /\ arrived \subseteq arrived'
    /\ \A b \in arrived' : 0 <= b /\ b < written
    /\ delivered \subseteq delivered'
    /\ \E n \in 0 .. written :
        /\ delivered' = Prefix(n)
        /\ 0 .. (n - 1) \subseteq arrived'
        /\ \A b \in arrived' \ arrived : b < n + Window
    /\ UNCHANGED <<written, confirmed>>

\* Write handlers are called.
Confirm ==
    /\ confirmed < confirmed'
    /\ confirmed' <= written
    /\ 0 .. (confirmed' - 1) \subseteq arrived
    /\ UNCHANGED <<written, arrived, delivered>>

Next == Write \/ Deliver \/ Confirm

Spec == Init /\ [][Next]_vars

=============================================================================
