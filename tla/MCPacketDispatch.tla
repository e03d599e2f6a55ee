--------------------------- MODULE MCPacketDispatch ---------------------------
(* Model values for PacketDispatch. *)
EXTENDS PacketDispatch
===============================================================================
