------------------------- MODULE MCUDPAssociation -------------------------
(* Two datagrams each way. *)
EXTENDS UDPAssociation
===========================================================================
