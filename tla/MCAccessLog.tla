---------------------------- MODULE MCAccessLog ----------------------------
(* Three rows, two purges that overlap, batches of two.                     *)
EXTENDS AccessLog

MCReq == 1..3
=============================================================================
