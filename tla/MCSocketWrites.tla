---------------------------- MODULE MCSocketWrites ----------------------------
(* One thread of the game with a small packet and one larger than a buffer.*)
EXTENDS SocketWrites

CONSTANT Large
PacketSize == [p \in Values |-> IF p = Large THEN 3 ELSE 1]
=============================================================================
