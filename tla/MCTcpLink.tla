----------------------------- MODULE MCTcpLink -----------------------------
(***************************************************************************)
(* TcpLink for TLC.                                                        *)
(***************************************************************************)
EXTENDS TcpLink

=============================================================================
