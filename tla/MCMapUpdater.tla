---------------------------- MODULE MCMapUpdater ----------------------------
(* One continent, one MapInstanced with two instances, two loop workers.   *)
EXTENDS MapUpdater, TLC

CONSTANTS c1, b1, i1, i2

MCBaseOf == (i1 :> b1) @@ (i2 :> b1)
=============================================================================
