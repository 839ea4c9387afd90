--------------------------- MODULE MCRefreshTokens ---------------------------
(* Small instances of RefreshTokens: requests, families and token ids are   *)
(* interchangeable.                                                         *)
EXTENDS RefreshTokens, TLC

Symmetry == Permutations(Req) \cup Permutations(Fam) \cup Permutations(Jti)
=============================================================================
