--------------------------- MODULE MCSessionPackets ---------------------------
(* A client that plays two characters in turn and is moved to another map. *)
EXTENDS SessionPackets
=============================================================================
