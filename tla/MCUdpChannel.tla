---------------------------- MODULE MCUdpChannel ----------------------------
(***************************************************************************)
(* UdpChannel for TLC: the endpoints are model values, all constants are   *)
(* given in the configuration files.                                       *)
(***************************************************************************)
EXTENDS UdpChannel

=============================================================================
