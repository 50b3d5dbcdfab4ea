--------------------------- MODULE MCWorldSessions ---------------------------
(* Two accounts, one of which connects twice, and a game master's.  The two *)
(* sessions of the first are interchangeable.                               *)
EXTENDS WorldSessions

CONSTANTS alice, bob, gm, alice1, alice2, bob1, gm1

MCAccounts   == {alice, bob, gm}
MCSessions   == {alice1, alice2, bob1, gm1}
MCAccountOf  == [s \in MCSessions |-> IF s \in {alice1, alice2} THEN alice
                                     ELSE IF s = bob1 THEN bob ELSE gm]
MCPrivileged == {gm}
MCLimits     == {-1, 2}
MCSymmetry   == Permutations({alice1, alice2})
=============================================================================
