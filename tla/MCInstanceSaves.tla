---------------------------- MODULE MCInstanceSaves ----------------------------
(* Two players, in a group or alone; they are interchangeable. *)
EXTENDS InstanceSaves

CONSTANTS anna, bert

MCPlayers  == {anna, bert}
MCSymmetry == Permutations(MCPlayers)
=============================================================================
