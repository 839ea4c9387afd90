--------------------------- MODULE DatabaseRouter ---------------------------
(***************************************************************************)
(* Sessions of app.core.db over one primary and its replicas: which server *)
(* a statement goes to, which statements a read-only session may run, and  *)
(* what a read that loses its replica does.                                *)
(*                                                                         *)
(* The data is one row; its content is the number of committed changes.    *)
(* External, as MySQL does it: a transaction reads each server from a      *)
(* snapshot of its first read, locks are held to its end, and replicas     *)
(* apply the changes of the primary in order and late.                     *)
(***************************************************************************)
EXTENDS Naturals, FiniteSets

CONSTANTS Session, NReaders,
          Sticky,      \* DB_READ_STICKY_AFTER_WRITE
          MaxChanges,  \* bound on committed changes
          None

Writer == 0
Readers == 1..NReaders
Server == 0..NReaders

ASSUME RouterAssumption ==
  /\ NReaders \in Nat /\ MaxChanges \in Nat
  /\ Sticky \in BOOLEAN
  /\ None \notin Nat /\ None \notin Session

VARIABLES
  enabled,  \* DB_ROUTER_ENABLED
  cursor,   \* position of the round robin
  mode,     \* which dependency opened the session
  toWriter, \* info[_WRITER_PINNED]
  reader,   \* info[_READER_PINNED]
  applied,  \* applied[i]: changes server i has (the primary: all committed)
  snap,     \* snap[s][i]: what the open transaction of s sees on i, or None
  lock,     \* holder of the row lock on the primary
  pending,  \* s has an uncommitted change
  base,     \* what s has read for update, in its transaction
  got       \* history: what s has last read, or committed itself

info == <<toWriter, reader, cursor>>
transaction == <<snap, lock, pending, base>>
vars == <<enabled, mode, info, transaction, applied, got>>
-----------------------------------------------------------------------------
Modes == {"closed", "routed", "readOnly", "writer"}
Version == 0..MaxChanges

RouterTypeOK ==
  /\ enabled \in BOOLEAN
  /\ cursor \in Server
  /\ mode \in [Session -> Modes]
  /\ toWriter \in [Session -> BOOLEAN]
  /\ reader \in [Session -> Server \cup {None}]
  /\ applied \in [Server -> Version]
  /\ snap \in [Session -> [Server -> Version \cup {None}]]
  /\ lock \in Session \cup {None}
  /\ pending \in [Session -> BOOLEAN]
  /\ base \in [Session -> Version \cup {None}]
  /\ got \in [Session -> Version]

Blank == [i \in Server |-> None]

RouterInit ==
  /\ enabled \in BOOLEAN
  /\ cursor = IF NReaders = 0 THEN Writer ELSE 1
  /\ mode = [s \in Session |-> "closed"]
  /\ toWriter = [s \in Session |-> FALSE]
  /\ reader = [s \in Session |-> None]
  /\ applied = [i \in Server |-> 0]
  /\ snap = [s \in Session |-> Blank]
  /\ lock = None
  /\ pending = [s \in Session |-> FALSE]
  /\ base = [s \in Session |-> None]
  /\ got = [s \in Session |-> 0]
-----------------------------------------------------------------------------
\* The replica of a session that has none yet, and the cursor after it.
next_reader(s) == IF reader[s] = None THEN cursor ELSE reader[s]

\* Variant: the round robin runs off its end.
AdvancedUnwrapped(s) == IF reader[s] # None \/ cursor = Writer THEN cursor ELSE cursor + 1

Advanced(s) ==
  IF reader[s] # None \/ cursor = Writer THEN cursor
  ELSE IF cursor = NReaders THEN 1 ELSE cursor + 1

\* Variant of get_bind: the replica is not kept for the session.
BindUnkept(s, i) ==
  IF ~enabled \/ toWriter[s] THEN i = Writer /\ UNCHANGED info
  ELSE /\ i = cursor
       /\ cursor' = IF cursor = Writer THEN cursor ELSE IF cursor = NReaders THEN 1 ELSE cursor + 1
       /\ reader' = [reader EXCEPT ![s] = i]
       /\ UNCHANGED toWriter

\* get_bind of a read; without the router there is one engine.
BindRead(s, i) ==
  IF ~enabled \/ toWriter[s] THEN i = Writer /\ UNCHANGED info
  ELSE /\ i = next_reader(s)
       /\ reader' = [reader EXCEPT ![s] = i]
       /\ cursor' = Advanced(s)
       /\ UNCHANGED toWriter

\* get_bind of a flush, DML or locking SELECT: the primary, and from now on.
BindWrite(s) ==
  /\ toWriter' = [toWriter EXCEPT ![s] = @ \/ (enabled /\ Sticky)]
  /\ UNCHANGED <<reader, cursor>>

\* A transaction ends: snapshots and locks go.
EndTransaction(s) ==
  /\ snap' = [snap EXCEPT ![s] = Blank]
  /\ lock' = IF lock = s THEN None ELSE lock
  /\ pending' = [pending EXCEPT ![s] = FALSE]
  /\ base' = [base EXCEPT ![s] = None]
-----------------------------------------------------------------------------
\* get_routed_db_session, get_read_only_db_session, get_writer_db_session.
Open(s, m) ==
  /\ mode[s] = "closed"
  /\ mode' = [mode EXCEPT ![s] = m]
  /\ toWriter' = [toWriter EXCEPT ![s] = m = "writer"]
  /\ reader' = [reader EXCEPT ![s] = None]
  /\ got' = [got EXCEPT ![s] = 0]
  /\ UNCHANGED <<enabled, cursor, applied, transaction>>

using_writer(s) ==
  /\ mode[s] # "closed"
  /\ toWriter' = [toWriter EXCEPT ![s] = TRUE]
  /\ UNCHANGED <<enabled, mode, reader, cursor, applied, transaction, got>>

\* What a plain read of s on server i sees: its own change, its snapshot, or
\* the server as it is.
Seen(s, i) == IF snap[s][i] = None THEN applied[i] ELSE snap[s][i]

\* A SELECT that the server answers.
Select(s, i) ==
  /\ mode[s] # "closed"
  /\ BindRead(s, i)
  /\ snap' = [snap EXCEPT ![s][i] = Seen(s, i)]
  /\ got' = [got EXCEPT ![s] = IF i = Writer /\ pending[s] THEN @ ELSE Seen(s, i)]
  /\ UNCHANGED <<enabled, mode, applied, lock, pending, base>>

\* Variant: the read is tried again on the next replica.
RetryOnReplica(s, i) ==
  /\ mode[s] = "readOnly"
  /\ enabled /\ ~toWriter[s]
  /\ i = next_reader(s)
  /\ reader' = [reader EXCEPT ![s] = cursor]
  /\ snap' = [snap EXCEPT ![s] = [Blank EXCEPT ![cursor] = applied[cursor]]]
  /\ got' = [got EXCEPT ![s] = applied[cursor]]
  /\ UNCHANGED <<enabled, mode, cursor, toWriter, applied, lock, pending, base>>

\* A connection error on the replica of a read-only session: rollback, the
\* primary from now on, and the same statement there.
RetryOnPrimary(s, i) ==
  /\ mode[s] = "readOnly"
  /\ enabled /\ ~toWriter[s]
  /\ i = next_reader(s)
  /\ reader' = [reader EXCEPT ![s] = i]
  /\ cursor' = Advanced(s)
  /\ toWriter' = [toWriter EXCEPT ![s] = TRUE]
  /\ snap' = [snap EXCEPT ![s] = [Blank EXCEPT ![Writer] = applied[Writer]]]
  /\ got' = [got EXCEPT ![s] = applied[Writer]]
  /\ UNCHANGED <<enabled, mode, applied, lock, pending, base>>

\* Variant: a locking SELECT counts as a read.
LockAsRead(s) ==
  /\ mode[s] \notin {"closed", "readOnly"}
  /\ lock \in {None, s}
  /\ \E i \in Server :
       /\ BindRead(s, i)
       /\ lock' = IF i = Writer THEN s ELSE lock
       /\ base' = [base EXCEPT ![s] = applied[i]]
  /\ UNCHANGED <<enabled, mode, applied, snap, pending, got>>

\* select(...).with_for_update(): reads what is committed now, and keeps it.
SelectForUpdate(s) ==
  /\ mode[s] \notin {"closed", "readOnly"}
  /\ lock \in {None, s}
  /\ BindWrite(s)
  /\ lock' = s
  /\ base' = [base EXCEPT ![s] = applied[Writer]]
  /\ UNCHANGED <<enabled, mode, applied, snap, pending, got>>

\* Variant: only get_bind refuses, so not without the router.
WriteByBind(s) ==
  /\ mode[s] # "closed" /\ (enabled => mode[s] # "readOnly")
  /\ lock \in {None, s}
  /\ BindWrite(s)
  /\ lock' = s
  /\ pending' = [pending EXCEPT ![s] = TRUE]
  /\ UNCHANGED <<enabled, mode, applied, snap, base, got>>

\* A flush or DML.  The Session events refuse it in a read-only session,
\* whatever the engine.
Write(s) ==
  /\ mode[s] \notin {"closed", "readOnly"}
  /\ lock \in {None, s}
  /\ BindWrite(s)
  /\ lock' = s
  /\ pending' = [pending EXCEPT ![s] = TRUE]
  /\ UNCHANGED <<enabled, mode, applied, snap, base, got>>

Commit(s) ==
  /\ mode[s] # "closed"
  /\ pending[s] => applied[Writer] < MaxChanges
  /\ applied' = IF pending[s] THEN [applied EXCEPT ![Writer] = @ + 1] ELSE applied
  /\ got' = IF pending[s] THEN [got EXCEPT ![s] = applied[Writer] + 1] ELSE got
  /\ EndTransaction(s)
  /\ UNCHANGED <<enabled, mode, info>>

\* rollback by the handler, or after an error that is not retried.
Rollback(s) ==
  /\ mode[s] # "closed"
  /\ EndTransaction(s)
  /\ UNCHANGED <<enabled, mode, info, applied, got>>

\* async with ends: close rolls back; the next request has a new session.
Close(s) ==
  /\ mode[s] # "closed"
  /\ mode' = [mode EXCEPT ![s] = "closed"]
  /\ EndTransaction(s)
  /\ UNCHANGED <<enabled, info, applied, got>>

Replicate(i) ==
  /\ applied[i] < applied[Writer]
  /\ applied' = [applied EXCEPT ![i] = @ + 1]
  /\ UNCHANGED <<enabled, mode, info, transaction, got>>

RouterNext ==
  \/ \E s \in Session, m \in Modes \ {"closed"} : Open(s, m)
  \/ \E s \in Session : using_writer(s)
  \/ \E s \in Session, i \in Server : Select(s, i)
  \/ \E s \in Session, i \in Server : RetryOnPrimary(s, i)
  \/ \E s \in Session : SelectForUpdate(s)
  \/ \E s \in Session : Write(s)
  \/ \E s \in Session : Commit(s)
  \/ \E s \in Session : Rollback(s)
  \/ \E s \in Session : Close(s)
  \/ \E i \in Readers : Replicate(i)

RouterSpec == RouterInit /\ [][RouterNext]_vars
-----------------------------------------------------------------------------
\* With sticky routing a session never goes back in time: it reads what it
\* has written, and a read after a failover is no older than one before.
SessionMonotonic ==
  [][\A s \in Session : mode[s] # "closed" /\ mode'[s] = mode[s] => got[s] <= got'[s]]_vars

\* The pin: an open transaction reads from one replica at most.
OneReplica ==
  \A s \in Session : Cardinality({i \in Readers : snap[s][i] # None}) <= 1

\* What was read for update is still current when its transaction commits a
\* change: the lock was taken where the change is made.
NoLostUpdate ==
  \A s \in Session : base[s] # None => base[s] = applied[Writer]

\* A read-only session holds no lock and no change, with and without router.
ReadOnlyLeavesNoTrace ==
  \A s \in Session : mode[s] = "readOnly" => lock # s /\ ~pending[s]
=============================================================================
