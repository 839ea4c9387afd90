------------------------------- MODULE Worker -------------------------------
(***************************************************************************)
(* A Celery prefork worker: the main process with the log queue of         *)
(* LogQueue, and a child forked from it at any moment, which gets copies   *)
(* of the queue, of the connection pools and of the event loop and sets    *)
(* its own up (worker_lifecycle).  The variables of LogQueue are those of  *)
(* the main process.                                                       *)
(***************************************************************************)
EXTENDS LogQueue

CONSTANTS Engines,   \* number of engines: writer, readers, background
          Inherited  \* those in whose pool the main process has a connection

ASSUME WorkerAssumption == Engines \in Nat \ {0} /\ Inherited \subseteq 1..Engines

VARIABLES
  clogged, cqueue, cwaiters, cmutex, cthread, chand, cfile, cdropped,
  clistening,  \* the log queue of the child
  stage,       \* how far the child is
  renewed,     \* on_worker_process_init: engines 1..renewed were treated
  kept,        \* those among them whose dispose failed
  pool,        \* the child's pool of an engine: whose connection it holds
  crossed,     \* engines whose parental connection the child used or closed
  loop,        \* _worker_loop of the child: none, parent's copy or its own
  tasks,       \* number of tasks it has run
  signals      \* number of shutdown signals it has had

clog == <<clogged, cqueue, cwaiters, cmutex, cthread, chand, cfile, cdropped, clistening>>
db == <<renewed, kept, pool, crossed>>
life == <<stage, tasks, signals>>
wvars == <<lqvars, clog, db, loop, life>>

Child == INSTANCE LogQueue WITH
  logged <- clogged, queue <- cqueue, waiters <- cwaiters, mutex <- cmutex,
  thread <- cthread, hand <- chand, file <- cfile, dropped <- cdropped,
  listening <- clistening

Engine == 1..Engines
Stages == {"unborn", "pools", "loop", "listener", "announce", "ready", "closing", "gone"}

WorkerTypeOK ==
  /\ QueueTypeOK /\ Child!QueueTypeOK
  /\ stage \in Stages
  /\ renewed \in 0..Engines
  /\ kept \subseteq Engine
  /\ pool \in [Engine -> {"none", "parent", "child"}]
  /\ crossed \subseteq Engine
  /\ loop \in {"none", "parent", "child"}
  /\ tasks \in 0..1 /\ signals \in 0..2

WorkerInit ==
  /\ QueueInit /\ Child!QueueInit
  /\ stage = "unborn" /\ renewed = 0 /\ kept = {}
  /\ pool = [e \in Engine |-> "none"]
  /\ crossed = {} /\ loop = "none" /\ tasks = 0 /\ signals = 0

MainProcess(A) == A /\ UNCHANGED <<clog, db, loop, life>>
-----------------------------------------------------------------------------
\* The child is a copy of the main process without its threads, the lock of
\* the queue in whatever state it is, the loop with it if there is one.
Fork ==
  /\ stage = "unborn" /\ listening = "on"
  /\ stage' = "pools"
  /\ clogged' = logged /\ cqueue' = queue /\ cdropped' = dropped
  /\ cwaiters' = [i \in 1..Len(waiters) |-> "dead"]
  /\ cmutex' = IF mutex = "free" THEN "free" ELSE "dead"
  /\ clistening' = listening
  /\ pool' = [e \in Engine |-> IF e \in Inherited THEN "parent" ELSE "none"]
  /\ loop' \in {"none", "parent"}
  /\ UNCHANGED <<lqvars, cthread, chand, cfile, renewed, kept, crossed, tasks, signals>>
-----------------------------------------------------------------------------
\* Variant: only the writer's pool is renewed.
RenewWriter ==
  /\ stage = "pools" /\ renewed < Engines
  /\ renewed' = Engines
  /\ stage' = "loop"
  /\ pool' = [pool EXCEPT ![1] = "none"]
  /\ UNCHANGED <<lqvars, clog, tasks, signals, kept, crossed, loop>>

\* Variant: dispose() closes the connections it drops.
RenewClosing ==
  /\ stage = "pools" /\ renewed < Engines
  /\ renewed' = renewed + 1
  /\ stage' = IF renewed' = Engines THEN "loop" ELSE "pools"
  /\ pool' = [pool EXCEPT ![renewed'] = "none"]
  /\ crossed' = IF pool[renewed'] = "parent" THEN crossed \cup {renewed'} ELSE crossed
  /\ UNCHANGED <<lqvars, clog, tasks, signals, kept, loop>>

\* dispose(close=False) of one engine after the other; one that raises is
\* logged, may leave the old pool in place, and the next one follows.
RenewPool ==
  /\ stage = "pools" /\ renewed < Engines
  /\ renewed' = renewed + 1
  /\ stage' = IF renewed' = Engines THEN "loop" ELSE "pools"
  /\ \/ pool' = [pool EXCEPT ![renewed'] = "none"] /\ UNCHANGED <<kept, clog>>
     \/ kept' = kept \cup {renewed'} /\ UNCHANGED pool /\ Child!Log
  /\ UNCHANGED <<lqvars, tasks, signals, crossed, loop>>

\* Variant: the inherited loop is used on.
KeepLoop ==
  /\ stage = "loop"
  /\ stage' = "listener"
  /\ UNCHANGED <<lqvars, clog, db, loop, tasks, signals>>

\* reset_worker_loop
ResetLoop ==
  /\ stage = "loop"
  /\ loop' = "none" /\ stage' = "listener"
  /\ UNCHANGED <<lqvars, clog, db, tasks, signals>>

\* Variant: no new listener in the child.
NoRestart ==
  /\ stage = "listener"
  /\ stage' = "announce"
  /\ UNCHANGED <<lqvars, clog, db, loop, tasks, signals>>

\* Variant: a new listener on a queue of its own: what was pending is left.
RestartOnNewQueue ==
  /\ stage = "listener"
  /\ stage' = "announce"
  /\ cthread' = "ready" /\ cqueue' = <<>> /\ cwaiters' = <<>> /\ cmutex' = "free"
  /\ UNCHANGED <<clogged, chand, cfile, cdropped, clistening>>
  /\ UNCHANGED <<lqvars, db, loop, tasks, signals>>

\* restart_queue_listener_after_fork: a new thread on the inherited queue.
Restart ==
  /\ stage = "listener"
  /\ stage' = "announce"
  /\ cthread' = "ready"
  /\ UNCHANGED <<clogged, cqueue, cwaiters, cmutex, chand, cfile, cdropped, clistening>>
  /\ UNCHANGED <<lqvars, db, loop, tasks, signals>>

\* The last line of on_worker_process_init.
Announce ==
  /\ stage = "announce"
  /\ Child!Log /\ stage' = "ready"
  /\ UNCHANGED <<lqvars, db, loop, tasks, signals>>
-----------------------------------------------------------------------------
\* A task: run_async makes a loop where there is none, the session takes the
\* connection of the pool of its engine or opens one.
RunTask(e) ==
  /\ stage = "ready" /\ tasks < 1
  /\ tasks' = tasks + 1
  /\ loop' = IF loop = "none" THEN "child" ELSE loop
  /\ pool' = [pool EXCEPT ![e] = IF @ = "none" THEN "child" ELSE @]
  /\ crossed' = IF pool[e] = "parent" THEN crossed \cup {e} ELSE crossed
  /\ UNCHANGED <<lqvars, clog, renewed, kept, stage, signals>>

\* What a task logs.
ChildLogs == stage = "ready" /\ Child!Log /\ UNCHANGED <<lqvars, db, loop, life>>

ChildListens ==
  /\ stage # "gone"
  /\ Child!Listener
  /\ UNCHANGED <<lqvars, db, loop, life>>

\* on_worker_process_shutdown, sent once or twice: the loop is closed, one
\* line logged; the listener is left running.
ShutdownSignal ==
  /\ stage \in {"ready", "closing"} /\ signals < 2
  /\ signals' = signals + 1
  /\ stage' = "closing"
  /\ loop' = "none"
  /\ Child!Log
  /\ UNCHANGED <<lqvars, db, tasks>>

\* The child exits, or is killed at any moment; its threads end with it.
Exit ==
  /\ stage \notin {"unborn", "gone"}
  /\ stage' = "gone"
  /\ UNCHANGED <<lqvars, clog, db, loop, tasks, signals>>
-----------------------------------------------------------------------------
WorkerNext ==
  \/ MainProcess(Log) \/ MainProcess(Start) \/ MainProcess(Listener)
  \/ MainProcess(StopCalled("stopping")) \/ MainProcess(StopReturns)
  \/ stage = "unborn" /\ MainProcess(StopCalled("reconfiguring"))
  \/ MainProcess(Reconfigured)
  \/ Fork \/ RenewPool \/ ResetLoop \/ Restart \/ Announce
  \/ \E e \in Engine : RunTask(e)
  \/ ChildLogs \/ ChildListens \/ ShutdownSignal \/ Exit

\* Threads that can run do.  Nothing makes a process log, stop or exit.
WorkerSpec ==
  /\ WorkerInit /\ [][WorkerNext]_wvars
  /\ WF_wvars(MainProcess(Listener)) /\ WF_wvars(ChildListens)
  /\ WF_wvars(MainProcess(StopReturns)) /\ WF_wvars(MainProcess(Reconfigured))
  /\ WF_wvars(RenewPool) /\ WF_wvars(ResetLoop) /\ WF_wvars(Restart)
-----------------------------------------------------------------------------
\* What the listener of the main process writes is what was logged, in order
\* and once, but for the records counted: whatever forks meanwhile.
MainLogKept == Abstract!Logging

\* So does the child, from the copy of the queue it starts with: its own
\* records follow those of the parent that it writes a second time.
ChildLogKept == Child!Abstract!ForkedLogging

\* A stop that returns has flushed: nothing logged before it is pending.
StopFlushes ==
  [][(listening \in {"stopping", "reconfiguring"} /\ listening' # listening)
       => Pending = <<>>]_wvars

\* A child only speaks on connections and runs on a loop of its own, and
\* never closes a connection of its parent, except through an engine whose
\* dispose it reported as failed.
ChildStandsAlone ==
  /\ crossed \subseteq kept
  /\ stage \in {"ready", "closing"} => loop # "parent"

\* What waits in the queue while the listener is there is written in the end,
\* also when it is stopped meanwhile, or when that stop fails.
MainLogFlows ==
  \A n \in 1..MaxLogs :
    (listening = "on" /\ \E i \in 1..Len(queue) : queue[i] = n)
      ~> \E i \in 1..Len(file) : file[i] = n

\* In the child the first record after the fork may wake the waiter it has
\* inherited, a thread that is not there: a record is sure to be written once
\* another is accepted behind it, unless the child goes or inherited a lock.
ChildLagsByOne ==
  \A n \in 1..MaxLogs :
    (Len(cqueue) >= 2 /\ cqueue[1] = n)
      ~> \/ \E i \in 1..Len(cfile) : cfile[i] = n
         \/ stage = "gone" \/ cmutex = "dead"
=============================================================================
