---------------------------- MODULE MCTcpStream ----------------------------
(***************************************************************************)
(* TcpStream for TLC: the connecting side writes a stream of several key   *)
(* words, the other one byte that nobody reads.                            *)
(***************************************************************************)
EXTENDS TcpStream

CONSTANT Listener, Long, Short

LongWay == [e \in End |-> IF e = Dialer THEN Long ELSE Short]
LongBack == [e \in End |-> IF e = Dialer THEN 0 ELSE Long]

=============================================================================
