------------------------------ MODULE LogQueue ------------------------------
(***************************************************************************)
(* The log queue of one process: BoundedQueueHandler puts records in,      *)
(* the listener thread writes them to the file, stop_queue_listener ends   *)
(* it.  Records are numbered in the order they are logged.  Of Queue and   *)
(* QueueListener (Python's) the mutex and the waiters of not_empty are     *)
(* kept: a fork copies both.                                               *)
(***************************************************************************)
EXTENDS Naturals, Sequences

CONSTANTS MaxSize,  \* LOG_QUEUE_MAXSIZE
          MaxLogs   \* bound: records numbered 1..MaxLogs

ASSUME QueueAssumption == MaxSize \in Nat \ {0, 1} /\ MaxLogs \in Nat

VARIABLES
  logged,    \* number of the last record logged
  queue,     \* records, and Sentinel where stop put it
  waiters,   \* not_empty: the waiting threads, those of a parent are "dead"
  mutex,     \* who holds the lock of the queue
  thread,    \* where the listener thread is
  hand,      \* the record it writes, 0: none
  file,      \* the records it has written
  dropped,   \* BoundedQueueHandler.dropped
  listening  \* _listener: not started, started, being stopped, ...

calls == <<logged, dropped>>
lock == <<waiters, mutex>>
lqvars == <<logged, queue, waiters, mutex, thread, hand, file, dropped, listening>>

Sentinel == 0
Listening == {"none", "on", "reconfiguring", "stopping", "stopped", "failed"}

QueueTypeOK ==
  /\ logged \in 0..MaxLogs
  /\ queue \in Seq(0..MaxLogs) /\ Len(queue) <= MaxSize
  /\ waiters \in Seq({"listener", "dead"})
  /\ mutex \in {"free", "listener", "dead"}
  /\ thread \in {"none", "ready", "locked", "waiting", "writing", "ended"}
  /\ hand \in 0..MaxLogs
  /\ file \in Seq(1..MaxLogs)
  /\ dropped \in 0..MaxLogs
  /\ listening \in Listening

QueueInit ==
  /\ logged = 0 /\ queue = <<>> /\ waiters = <<>> /\ mutex = "free"
  /\ thread = "none" /\ hand = Sentinel /\ file = <<>>
  /\ dropped = 0 /\ listening = "none"
-----------------------------------------------------------------------------
\* put_nowait wakes the longest waiter, alive or not.
Put(x) ==
  /\ queue' = Append(queue, x)
  /\ waiters' = IF waiters = <<>> THEN <<>> ELSE Tail(waiters)
  /\ thread' = IF waiters # <<>> /\ Head(waiters) = "listener" THEN "ready" ELSE thread

\* Variant: a full queue drops the oldest record and counts nothing.
LogOverOldest ==
  /\ mutex = "free" /\ listening \notin {"reconfiguring", "stopping"}
  /\ logged < MaxLogs
  /\ logged' = logged + 1
  /\ IF Len(queue) < MaxSize THEN Put(logged + 1)
     ELSE queue' = Append(Tail(queue), logged + 1) /\ UNCHANGED <<waiters, thread>>
  /\ UNCHANGED <<mutex, hand, file, dropped, listening>>

\* enqueue: a full queue drops the record and counts it.  The thread that
\* calls stop waits in it and logs nothing meanwhile.
Log ==
  /\ mutex = "free" /\ listening \notin {"reconfiguring", "stopping"}
  /\ logged < MaxLogs
  /\ logged' = logged + 1
  /\ \/ Len(queue) < MaxSize /\ Put(logged + 1) /\ UNCHANGED dropped
     \/ /\ Len(queue) = MaxSize
        /\ dropped' = dropped + 1
        /\ UNCHANGED <<queue, waiters, thread>>
  /\ UNCHANGED <<mutex, hand, file, listening>>
-----------------------------------------------------------------------------
\* start_queue_listener, at the end of configure_logging.
Start ==
  /\ listening = "none" /\ thread = "none"
  /\ listening' = "on" /\ thread' = "ready"
  /\ UNCHANGED <<calls, queue, lock, hand, file>>

\* _monitor calls get: it takes the mutex, ...
Lock ==
  /\ thread = "ready" /\ mutex = "free"
  /\ thread' = "locked" /\ mutex' = "listener"
  /\ UNCHANGED <<calls, queue, waiters, hand, file, listening>>

\* ... waits where the queue is empty ...
Wait ==
  /\ thread = "locked" /\ queue = <<>>
  /\ thread' = "waiting" /\ mutex' = "free"
  /\ waiters' = Append(waiters, "listener")
  /\ UNCHANGED <<calls, queue, hand, file, listening>>

\* ... and otherwise takes the first record; the sentinel ends the thread.
Take ==
  /\ thread = "locked" /\ queue # <<>>
  /\ thread' = IF Head(queue) = Sentinel THEN "ended" ELSE "writing"
  /\ hand' = Head(queue)
  /\ queue' = Tail(queue) /\ mutex' = "free"
  /\ UNCHANGED <<calls, waiters, file, listening>>

\* The file handlers write the record (rotating the file where it is time).
WriteOut ==
  /\ thread = "writing"
  /\ file' = Append(file, hand)
  /\ hand' = Sentinel /\ thread' = "ready"
  /\ UNCHANGED <<calls, queue, lock, listening>>

Listener == Lock \/ Wait \/ Take \/ WriteOut
-----------------------------------------------------------------------------
\* stop: _listener is None from here on; a full queue has no place for the
\* sentinel, and put_nowait raises.
StopCalled(next) ==
  /\ listening = "on" /\ mutex = "free"
  /\ \/ Len(queue) < MaxSize /\ Put(Sentinel) /\ listening' = next
     \/ /\ Len(queue) = MaxSize /\ listening' = "failed"
        /\ UNCHANGED <<queue, waiters, thread>>
  /\ UNCHANGED <<calls, mutex, hand, file>>

\* Variant: stop does not join the thread.
StopUnjoined ==
  /\ listening = "stopping"
  /\ listening' = "stopped"
  /\ UNCHANGED <<calls, queue, lock, thread, hand, file>>

\* stop_queue_listener: the thread is joined, what was dropped is reported.
StopReturns ==
  /\ listening = "stopping" /\ thread = "ended"
  /\ listening' = "stopped"
  /\ UNCHANGED <<calls, queue, lock, thread, hand, file>>

\* Variant: _listener is not reset by stop, so that none is started again.
ReconfiguredUnheard ==
  /\ listening = "reconfiguring" /\ thread = "ended"
  /\ listening' = "on"
  /\ queue' = <<>> /\ waiters' = <<>> /\ mutex' = "free" /\ hand' = Sentinel
  /\ UNCHANGED <<calls, thread, file>>

\* configure_logging(force=True) joins as well, then builds a new handler on
\* a new queue and starts its listener.
Reconfigured ==
  /\ listening = "reconfiguring" /\ thread = "ended"
  /\ listening' = "on" /\ thread' = "ready"
  /\ queue' = <<>> /\ waiters' = <<>> /\ mutex' = "free" /\ hand' = Sentinel
  /\ UNCHANGED <<calls, file>>
-----------------------------------------------------------------------------
QueueNext ==
  \/ Log \/ Start \/ Listener
  \/ StopCalled("stopping") \/ StopCalled("reconfiguring")
  \/ StopReturns \/ Reconfigured

QueueSpec == QueueInit /\ [][QueueNext]_lqvars

\* The sentinel can only be the last: whoever called stop logs no more.
RecordsIn(q) ==
  IF q # <<>> /\ q[Len(q)] = Sentinel THEN SubSeq(q, 1, Len(q) - 1) ELSE q
PendingIn(t, h, q) == (IF t = "writing" THEN <<h>> ELSE <<>>) \o RecordsIn(q)
Pending == PendingIn(thread, hand, queue)

\* The queue and its thread implement BoundedLog.
Abstract == INSTANCE BoundedLog WITH
  Capacity <- MaxSize, pending <- Pending
=============================================================================
