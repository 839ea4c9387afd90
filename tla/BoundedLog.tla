----------------------------- MODULE BoundedLog -----------------------------
(***************************************************************************)
(* What file logging promises one process: the records it logs, numbered   *)
(* in the order of the calls, reach the file in that order and once each,  *)
(* except those counted as dropped while too many are pending.             *)
(***************************************************************************)
EXTENDS Naturals, Sequences

CONSTANT Capacity   \* how many may be pending before a record may be dropped

VARIABLES logged,   \* number of records logged so far
          pending,  \* accepted and not yet written
          file,     \* what was written for this process
          dropped   \* number of records dropped, reported in the end

log == <<logged, pending, file, dropped>>

LogInit == logged = 0 /\ pending = <<>> /\ file = <<>> /\ dropped = 0

Accept ==
  /\ logged' = logged + 1
  /\ pending' = Append(pending, logged + 1)
  /\ UNCHANGED <<file, dropped>>

Drop ==
  /\ Len(pending) >= Capacity
  /\ logged' = logged + 1
  /\ dropped' = dropped + 1
  /\ UNCHANGED <<pending, file>>

Write ==
  /\ pending # <<>>
  /\ file' = Append(file, Head(pending))
  /\ pending' = Tail(pending)
  /\ UNCHANGED <<logged, dropped>>

\* f, and p behind it, hold numbers of records logged so far, each once and in
\* the order of the calls.
Ordered(l, p, f) ==
  /\ p \in Seq(1..l) /\ f \in Seq(1..l)
  /\ \A i, j \in 1..Len(f \o p) : i < j => (f \o p)[i] < (f \o p)[j]

\* A forked process begins with a copy of what its parent has pending.
Inherit ==
  /\ logged = 0 /\ file = <<>>
  /\ logged' \in Nat /\ dropped' \in 0..logged'
  /\ Ordered(logged', pending', file)
  /\ UNCHANGED file

Logging == LogInit /\ [][Accept \/ Drop \/ Write]_log
ForkedLogging == LogInit /\ [][Accept \/ Drop \/ Write \/ Inherit]_log
-----------------------------------------------------------------------------
\* What is written and what is pending are records as they were logged.
InOrder == Ordered(logged, pending, file)

\* No record is lost without being counted.
Accounted == logged = Len(file) + Len(pending) + dropped
=============================================================================
