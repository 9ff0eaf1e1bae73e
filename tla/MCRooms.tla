------------------------------ MODULE MCRooms -------------------------------
(* Rooms on the instances of MCGateway. *)
EXTENDS MCGateway, Rooms
=============================================================================
