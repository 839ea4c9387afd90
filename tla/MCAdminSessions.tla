-------------------------- MODULE MCAdminSessions --------------------------
(* Small instances of AdminSessions: requests and session ids are           *)
(* interchangeable.                                                         *)
EXTENDS AdminSessions, TLC

AdminSymmetry == Permutations(Req) \cup Permutations(Sid)
=============================================================================
