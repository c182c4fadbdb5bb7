--------------------------- MODULE MCStreamSocket ---------------------------
(***************************************************************************)
(* StreamSocket for TLC: calls with one and with two buffers.              *)
(***************************************************************************)
EXTENDS StreamSocket

Short == {<<2>>, <<4>>, <<1, 2>>}
Large == {<<3>>, <<1, 1>>}

=============================================================================
