------------------------------ MODULE Shutdown ------------------------------
(***************************************************************************)
(* The process resources of manage_application_resources: the logging      *)
(* queue (1), the database engines (2), Redis (3) and the background tasks *)
(* (4), under ResourceManager.  BackgroundTaskRunner.drain and             *)
(* dispose_engine are followed step by step; the access-log tasks run, end *)
(* and are refused beside them.                                            *)
(***************************************************************************)
EXTENDS ResourceManager, FiniteSets

CONSTANTS Task,         \* the access-log tasks that requests offer
          MaxTasks,     \* MAX_CONCURRENT_LOG_TASKS
          DrainTimeouts, \* the timeouts drain is called with
          Engines       \* number of engines; the last is the background one

Logging == 1
DbEngines == 2
RedisClient == 3
Background == 4

ASSUME ShutdownAssumption ==
  /\ N = 4 /\ Fallible = {RedisClient} /\ Blocking = {Logging}
  /\ MaxTasks \in Nat /\ DrainTimeouts \subseteq Nat
  /\ Engines \in Nat \ {0}

VARIABLES
  task,      \* the life of each task
  tracked,   \* BackgroundTaskRunner._tasks
  shut,      \* BackgroundTaskRunner._closed
  drain,     \* the step drain is at
  pending,   \* drain: the tasks its wait is for
  drainDue,  \* drain: when its own timeout fires
  tried,     \* dispose_engine: 1..tried have been tried
  disposed,  \* the engines disposed of
  broken,    \* the engines whose dispose raised
  ready      \* app.state.redis is set

runner == <<task, tracked, shut>>
draining == <<drain, pending, drainDue>>
engines == <<tried, disposed, broken>>
svars == <<manager, runner, draining, engines, ready>>

Lives == {"none", "running", "cancelling", "finished"}
Alive(t) == task[t] \in {"running", "cancelling"}

ShutdownTypeOK ==
  /\ ManagerTypeOK
  /\ task \in [Task -> Lives]
  /\ tracked \subseteq Task
  /\ shut \in BOOLEAN
  /\ drain \in {"off", "waiting", "cancelling", "returned"}
  /\ pending \subseteq Task
  /\ drainDue \in Nat
  /\ tried \in 0..Engines
  /\ disposed \subseteq 1..Engines /\ broken \subseteq 1..Engines
  /\ ready \in BOOLEAN

ShutdownInit ==
  /\ ManagerInit
  /\ task = [t \in Task |-> "none"]
  /\ tracked = {} /\ shut = FALSE
  /\ drain = "off" /\ pending = {} /\ drainDue = 0
  /\ tried = 0 /\ disposed = {} /\ broken = {}
  /\ ready = FALSE
-----------------------------------------------------------------------------
Rest == <<runner, draining, engines>>

Startup == (Register \/ Serve) /\ UNCHANGED <<Rest, ready>>

\* start_redis: PING and the version check, then app.state.redis is set.
RedisStarts == StartOk /\ ready' = TRUE /\ UNCHANGED Rest

LifespanCloses == Close /\ UNCHANGED <<Rest, ready>>
-----------------------------------------------------------------------------
\* spawn, after the response of a request; requests may still come in while
\* the process is closing.  A coroutine that is refused is closed: nothing stays.
Spawn(t) ==
  /\ phase \in {"serving", "closing"}
  /\ task[t] = "none"
  /\ ~shut /\ Cardinality(tracked) < MaxTasks
  /\ task' = [task EXCEPT ![t] = "running"]
  /\ tracked' = tracked \cup {t}
  /\ UNCHANGED <<manager, shut, draining, engines, ready>>

\* A task saves its log, fails, or has dealt with its cancellation.
TaskEnds(t) ==
  /\ Alive(t)
  /\ task' = [task EXCEPT ![t] = "finished"]
  /\ UNCHANGED <<manager, tracked, shut, draining, engines, ready>>

\* add_done_callback(self._tasks.discard), a turn of the event loop later.
Discard(t) ==
  /\ task[t] = "finished"
  /\ task' = [task EXCEPT ![t] = "none"]
  /\ tracked' = tracked \ {t}
  /\ UNCHANGED <<manager, shut, draining, engines, ready>>
-----------------------------------------------------------------------------
\* Variant: the admission stays open while drain waits.
DrainBeginsOpen ==
  /\ left = Background /\ BeginCleanup
  /\ pending' = tracked
  /\ \E wait \in DrainTimeouts : drainDue' = now + wait
  /\ drain' = IF tracked = {} THEN "returned" ELSE "waiting"
  /\ UNCHANGED <<runner, engines, ready>>

\* drain up to its first await: the admission closes first.
DrainBegins ==
  /\ left = Background /\ BeginCleanup
  /\ shut' = TRUE
  /\ pending' = tracked
  /\ \E wait \in DrainTimeouts : drainDue' = now + wait
  /\ drain' = IF tracked = {} THEN "returned" ELSE "waiting"
  /\ UNCHANGED <<task, tracked, engines, ready>>

\* Variant: what is still running is cancelled and not waited for.
DrainCancelsAndLeaves ==
  /\ at = Background /\ drain = "waiting"
  /\ now = drainDue /\ now < due
  /\ \E t \in pending : Alive(t)
  /\ task' = [t \in Task |-> IF t \in pending /\ Alive(t) THEN "cancelling" ELSE task[t]]
  /\ drain' = "returned"
  /\ tracked' = {}
  /\ UNCHANGED <<manager, shut, pending, drainDue, engines, ready>>

\* Variant: a warning, and nothing is cancelled (the former drain).
DrainOnlyWarns ==
  /\ at = Background /\ drain = "waiting"
  /\ now = drainDue /\ now < due
  /\ \E t \in pending : Alive(t)
  /\ drain' = "returned"
  /\ tracked' = {}
  /\ UNCHANGED <<manager, task, shut, pending, drainDue, engines, ready>>

\* The wait of drain runs into its own timeout: what is still running is
\* cancelled and waited for.  When the timeout of close falls due at the same
\* time it cancels drain in this very wait, whichever timer is first.
DrainCancels ==
  /\ at = Background /\ drain = "waiting"
  /\ now = drainDue /\ now < due
  /\ \E t \in pending : Alive(t)
  /\ task' = [t \in Task |-> IF t \in pending /\ Alive(t) THEN "cancelling" ELSE task[t]]
  /\ drain' = "cancelling"
  /\ UNCHANGED <<manager, tracked, shut, pending, drainDue, engines, ready>>

\* All it waits for has finished: drain empties the set and returns.
DrainReturns ==
  /\ at = Background /\ drain \in {"waiting", "cancelling"}
  /\ \A t \in pending : ~Alive(t)
  /\ drain' = "returned"
  /\ tracked' = {}
  /\ UNCHANGED <<manager, task, shut, pending, drainDue, engines, ready>>

DrainOver ==
  /\ at = Background
  /\ \/ drain = "returned" /\ CleanupReturns
     \/ drain # "returned" /\ CleanupTimesOut
  /\ UNCHANGED <<Rest, ready>>
-----------------------------------------------------------------------------
\* close_redis: aclose may raise or hang, app.state.redis is reset in any case.
RedisCloses ==
  \/ left = RedisClient /\ BeginCleanup /\ UNCHANGED <<Rest, ready>>
  \/ /\ at = RedisClient
     /\ CleanupReturns \/ CleanupRaises \/ CleanupTimesOut
     /\ ready' = FALSE
     /\ UNCHANGED Rest

\* dispose_engine: the writer, the readers, the background engine; a dispose
\* that raises is noted and the next one tried.
Dispose ==
  /\ at = DbEngines /\ tried < Engines
  /\ LET e == tried + 1 IN
     /\ tried' = e
     /\ \/ disposed' = disposed \cup {e} /\ UNCHANGED broken
        \/ broken' = broken \cup {e} /\ UNCHANGED disposed
  /\ UNCHANGED <<manager, runner, draining, ready>>

\* Variant: the loop also swallows the cancellation of the timeout.
EnginesCloseDeaf ==
  /\ \/ left = DbEngines /\ BeginCleanup
     \/ at = DbEngines /\ tried = Engines /\ CleanupReturns
  /\ UNCHANGED <<Rest, ready>>

\* It returns when all were tried; the timeout of close ends it where it is.
EnginesClose ==
  /\ \/ left = DbEngines /\ BeginCleanup
     \/ at = DbEngines /\ tried = Engines /\ CleanupReturns
     \/ at = DbEngines /\ tried < Engines /\ CleanupTimesOut
  /\ UNCHANGED <<Rest, ready>>

\* stop_queue_listener joins a thread: it never awaits.  It raises when its
\* queue is full (Worker tells the queue and its listener).
LoggingCloses ==
  /\ \/ left = Logging /\ BeginCleanup
     \/ at = Logging /\ (CleanupReturns \/ CleanupRaises)
  /\ UNCHANGED <<Rest, ready>>

LifespanEnds == CloseReturns /\ ready' = FALSE /\ UNCHANGED Rest

\* Time passes when no timer is due.
Passes ==
  /\ Tick
  /\ ~(drain = "waiting" /\ at = Background /\ now = drainDue /\ now < due)
  /\ UNCHANGED <<Rest, ready>>
-----------------------------------------------------------------------------
ShutdownNext ==
  \/ Startup \/ RedisStarts \/ LifespanCloses
  \/ \E t \in Task : Spawn(t)
  \/ \E t \in Task : TaskEnds(t)
  \/ \E t \in Task : Discard(t)
  \/ DrainBegins \/ DrainCancels \/ DrainReturns \/ DrainOver
  \/ RedisCloses \/ Dispose \/ EnginesClose \/ LoggingCloses
  \/ LifespanEnds \/ Passes

\* The event loop runs the steps of close that are due.  No fairness for the
\* tasks, nor for a dispose or an aclose: they may hang.
ShutdownSpec ==
  /\ ShutdownInit /\ [][ShutdownNext]_svars
  /\ WF_svars(DrainBegins) /\ WF_svars(DrainCancels) /\ WF_svars(DrainReturns)
  /\ WF_svars(DrainOver) /\ WF_svars(LifespanEnds) /\ WF_svars(Passes)
  /\ WF_svars(RedisCloses) /\ WF_svars(EnginesClose) /\ WF_svars(LoggingCloses)
-----------------------------------------------------------------------------
\* A drain that returned leaves no task behind, now or later: the engines are
\* disposed of with nobody using them.
DrainedMeansQuiet ==
  outcome[Background] = "ok" => tracked = {} /\ \A t \in Task : ~Alive(t)

\* The failure of one engine keeps no other from being disposed of: when
\* dispose_engine has returned, each was disposed of or has itself failed.
EngineFailuresStayApart ==
  outcome[DbEngines] = "ok" => 1..Engines = disposed \cup broken

\* Once drain is past its wait, whatever ended that, no task is left running:
\* each has ended or its cancellation was requested.
NoneRunsPastTheWait ==
  outcome[Background] # "none" /\ drain # "waiting" => \A t \in Task : task[t] # "running"

\* What the guides say of the end of the drain: after the wait the remaining
\* tasks are cancelled, none is left running.
StragglersCancelled ==
  outcome[Background] # "none" => \A t \in Task : task[t] # "running"

\* The four resources with all their steps behave as the manager promises for
\* resources it knows nothing of, fairness included.
Manager == INSTANCE ResourceManager WITH
  N <- N, Budget <- Budget,
  phase <- phase, list <- list, starting <- starting, held <- held,
  left <- left, at <- at, due <- due, now <- now, outcome <- outcome
ImplementsManager == Manager!ManagerSpec

\* However tasks, engines and Redis hang, the lifespan comes to its end.
ShutdownEnds == phase = "closing" ~> phase = "closed"
=============================================================================
