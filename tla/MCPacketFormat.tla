--------------------------- MODULE MCPacketFormat ---------------------------
(***************************************************************************)
(* PacketFormat for TLC: the stale cells look like headers and like ends.  *)
(***************************************************************************)
EXTENDS PacketFormat

=============================================================================
