--------------------------- MODULE MCInstanceIds ---------------------------
(* A vector that is sized in blocks of 2 and stored in words of 4 bits;    *)
(* at most 4 instances at a time, two updating threads and one restart.    *)
EXTENDS InstanceIds, TLC

UpdaterSymmetry == Permutations(Updaters)
=============================================================================
