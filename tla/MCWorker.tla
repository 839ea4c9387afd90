------------------------------ MODULE MCWorker ------------------------------
(* A main process and one child, a queue of two, a writer and a reader.     *)
EXTENDS Worker
=============================================================================
