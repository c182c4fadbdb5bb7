---------------------------- MODULE MCUdpStream ----------------------------
(***************************************************************************)
(* UdpStream for TLC: the constants are small numbers, all of them given   *)
(* in the configuration files.                                             *)
(***************************************************************************)
EXTENDS UdpStream

=============================================================================
