--------------------------- MODULE ResourceManager ---------------------------
(***************************************************************************)
(* ResourceManager: the N process resources are registered as 1, 2, ..., N *)
(* and cleaned up in the reverse order, each under a timeout cut from one  *)
(* deadline.  What a cleanup does is left open here: it takes time, raises *)
(* or hangs.  Time counts in whole units from the call of close.           *)
(***************************************************************************)
EXTENDS Integers

CONSTANTS N,          \* number of resources
          Fallible,   \* those acquired with a start that can fail
          Blocking,   \* those whose cleanup never awaits: no timeout cuts it
          MaxBlock,   \* the longest such a cleanup takes
          Budget,     \* Budget[i]: the budget i is registered with
          Deadline,   \* deadline_seconds
          Reserve     \* CLEANUP_RESERVE_SECONDS

Resources == 1..N

ASSUME ManagerAssumption ==
  /\ N \in Nat
  /\ Fallible \subseteq Resources
  /\ Blocking \subseteq Resources
  /\ MaxBlock \in Nat
  /\ Budget \in [Resources -> Nat]
  /\ Deadline \in Nat
  /\ Reserve \in Nat

VARIABLES
  phase,    \* of the lifespan
  list,     \* 1..list are registered
  starting, \* the resource whose start is awaited, 0: none
  held,     \* what has been acquired and not been cleaned up
  left,     \* close: 1..left are still to be cleaned up
  at,       \* the resource being cleaned up, 0: none
  due,      \* when the timeout of that cleanup fires
  now,      \* time since close was called
  outcome   \* outcome[i] of the cleanup of i

manager == <<phase, list, starting, held, left, at, due, now, outcome>>

Outcomes == {"none", "ok", "failed", "timeout"}

ManagerTypeOK ==
  /\ phase \in {"startup", "serving", "closing", "closed"}
  /\ list \in 0..N
  /\ starting \in 0..N
  /\ held \subseteq Resources
  /\ left \in 0..N
  /\ at \in 0..N
  /\ due \in Nat
  /\ now \in Nat
  /\ outcome \in [Resources -> Outcomes]

ManagerInit ==
  /\ phase = "startup"
  /\ list = 0 /\ starting = 0
  /\ held = {}
  /\ left = 0 /\ at = 0 /\ due = 0 /\ now = 0
  /\ outcome = [i \in Resources |-> "none"]
-----------------------------------------------------------------------------
\* Variant: start first, register when it has succeeded.
RegisterAfterStart ==
  /\ phase = "startup" /\ starting = 0 /\ list < N
  /\ list' = IF list + 1 \in Fallible THEN list ELSE list + 1
  /\ held' = held \cup {list + 1}
  /\ starting' = IF list + 1 \in Fallible THEN list + 1 ELSE 0
  /\ UNCHANGED <<phase, left, at, due, now, outcome>>

\* register, or the first half of acquire: the cleanup is in the list before
\* the start is called.
Register ==
  /\ phase = "startup" /\ starting = 0 /\ list < N
  /\ list' = list + 1
  /\ held' = held \cup {list + 1}
  /\ starting' = IF list + 1 \in Fallible THEN list + 1 ELSE 0
  /\ UNCHANGED <<phase, left, at, due, now, outcome>>

StartOk ==
  /\ starting # 0
  /\ starting' = 0
  /\ UNCHANGED <<phase, list, held, left, at, due, now, outcome>>

Serve ==
  /\ phase = "startup" /\ starting = 0 /\ list = N
  /\ phase' = "serving"
  /\ UNCHANGED <<list, starting, held, left, at, due, now, outcome>>

\* close, from the finally of the lifespan: at shutdown, after a start that
\* raised, or after a startup step that follows the last registration.
Close ==
  /\ \/ phase = "serving"
     \/ phase = "startup" /\ (starting # 0 \/ list = N)
  /\ phase' = "closing"
  /\ starting' = 0
  /\ left' = list
  /\ now' = 0
  /\ UNCHANGED <<list, held, at, due, outcome>>
-----------------------------------------------------------------------------
Lesser(m, n) == IF m <= n THEN m ELSE n

\* Variant: each cleanup gets its whole budget.
WholeBudget(i) == IF i \in Blocking THEN MaxBlock ELSE Budget[i]

\* The time the cleanup of i may take when it begins now.
Allotted(i) ==
  IF i \in Blocking THEN MaxBlock
  ELSE Lesser(Budget[i], IF Deadline > now THEN Deadline - now ELSE Reserve)

BeginCleanup ==
  /\ phase = "closing" /\ at = 0 /\ left > 0
  /\ at' = left
  /\ due' = now + Allotted(left)
  /\ UNCHANGED <<phase, list, starting, held, left, now, outcome>>

\* Variant: an exception out of a cleanup ends close.
EndCleanupStopping(how) ==
  /\ at # 0
  /\ outcome' = [outcome EXCEPT ![at] = how]
  /\ held' = IF how = "ok" THEN held \ {at} ELSE held
  /\ left' = IF how = "failed" THEN 0 ELSE left - 1
  /\ at' = 0
  /\ UNCHANGED <<phase, list, starting, due, now>>

\* One cleanup is over, whatever came of it; the loop goes on.
EndCleanup(how) ==
  /\ at # 0
  /\ outcome' = [outcome EXCEPT ![at] = how]
  /\ held' = IF how = "ok" THEN held \ {at} ELSE held
  /\ left' = left - 1
  /\ at' = 0
  /\ UNCHANGED <<phase, list, starting, due, now>>

CleanupReturns == EndCleanup("ok")
CleanupRaises == EndCleanup("failed")

\* Variant: what begins after the deadline gets no timeout at all.
CleanupTimesOutByDeadline ==
  at \notin Blocking /\ now = due /\ now <= Deadline /\ EndCleanup("timeout")

CleanupTimesOut == at \notin Blocking /\ now = due /\ EndCleanup("timeout")

CloseReturns ==
  /\ phase = "closing" /\ at = 0 /\ left = 0
  /\ phase' = "closed"
  /\ UNCHANGED <<list, starting, held, left, at, due, now, outcome>>

\* A timer that is due fires before time passes on.
Tick ==
  /\ at # 0 /\ now < due
  /\ now' = now + 1
  /\ UNCHANGED <<phase, list, starting, held, left, at, due, outcome>>
-----------------------------------------------------------------------------
ManagerNext ==
  \/ Register \/ StartOk \/ Serve \/ Close
  \/ BeginCleanup \/ CleanupReturns \/ CleanupRaises \/ CleanupTimesOut
  \/ CloseReturns \/ Tick

\* The event loop runs what is ready; a start, a server and a cleanup that
\* blocks may take as long as they like (the last up to MaxBlock).
ManagerFairness ==
  /\ WF_manager(BeginCleanup)
  /\ WF_manager(CleanupTimesOut)
  /\ WF_manager(at \in Blocking /\ now = due /\ CleanupReturns)
  /\ WF_manager(Tick)
  /\ WF_manager(CloseReturns)

ManagerSpec == ManagerInit /\ [][ManagerNext]_manager /\ ManagerFairness
-----------------------------------------------------------------------------
\* Nothing leaks unseen: when close is over, what is still held is a resource
\* whose cleanup was tried and raised or ran out of time.
NothingForgotten ==
  phase = "closed" => \A i \in held : outcome[i] \in {"failed", "timeout"}

\* One deadline for all: a cleanup begun after it gets the reserve only.
InTime == now <= Deadline + (list - left) * (Reserve + MaxBlock)
               + (IF at = 0 THEN 0 ELSE Reserve + MaxBlock)
=============================================================================
