------------------------- MODULE MCDatabaseRouter -------------------------
(* Small instances of DatabaseRouter: sessions are interchangeable.         *)
EXTENDS DatabaseRouter, TLC

SessionSymmetry == Permutations(Session)
=============================================================================
