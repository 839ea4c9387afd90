----------------------------- MODULE AccessLog -----------------------------
(***************************************************************************)
(* The access log: every response leaves a row, written by a background    *)
(* task after it (UserInfoMiddleware, HomeAccessLogSink), the daily purge  *)
(* of rows past their retention (AccessLogRetentionService) and the pages  *)
(* of the /access-logs screens.                                            *)
(*                                                                         *)
(* A number stands for a request and for the id of its row; another        *)
(* request gets it when the row is gone and no purge knows of it.  Time    *)
(* is the age of rows, counted to MaxAge days.  A transaction reads the    *)
(* rows committed before its first statement, a DELETE waits for the locks *)
(* of another, and what is not committed can be undone (MySQL, external).  *)
(***************************************************************************)
EXTENDS Naturals, FiniteSets, Sequences

CONSTANTS Req,        \* requests, numbered in the order of their row ids
          Task,       \* runs of the purge: beat's, and any still running
          MaxTasks,   \* MAX_CONCURRENT_LOG_TASKS
          BatchSize,
          Retentions, \* values of ACCESS_LOG_RETENTION_DAYS
          MaxAge

ASSUME AccessLogAssumption ==
  /\ Req \subseteq Nat /\ IsFiniteSet(Req)
  /\ MaxTasks \in Nat \ {0} /\ BatchSize \in Nat \ {0} /\ MaxAge \in Nat
  /\ Retentions \subseteq Nat /\ \A n \in Retentions : n < MaxAge

VARIABLES
  stage,     \* where a request or its row is
  age,       \* days since the row's created_at
  retention,
  phase,     \* the step a purge is at
  due,       \* the rows with created_at < cutoff of a purge
  ids,       \* the rows its current batch has selected
  owed       \* history: due rows that were committed when the purge began

log == <<stage, age>>
purges == <<phase, due, ids, owed>>
vars == <<log, retention, purges>>

Stages == {"none", "spawned", "inserted", "row"}
Idle == {"idle", "success"}
Phases == Idle \cup {"select", "delete", "commit"}

AccessLogTypeOK ==
  /\ stage \in [Req -> Stages]
  /\ age \in [Req -> 0..MaxAge]
  /\ retention \in Retentions
  /\ phase \in [Task -> Phases]
  /\ due \in [Task -> SUBSET Req]
  /\ ids \in [Task -> SUBSET Req]
  /\ owed \in [Task -> SUBSET Req]
  /\ \A p \in Task :
       /\ owed[p] \subseteq due[p]
       /\ Cardinality(ids[p]) <= BatchSize
       /\ ids[p] = {} <=> phase[p] \in Idle \cup {"select"}
       /\ phase[p] \in Idle => due[p] = {}

AccessLogInit ==
  /\ stage = [r \in Req |-> "none"]
  /\ age = [r \in Req |-> 0]
  /\ retention \in Retentions
  /\ phase = [p \in Task |-> "idle"]
  /\ due = [p \in Task |-> {}]
  /\ ids = [p \in Task |-> {}]
  /\ owed = [p \in Task |-> {}]

\* The rows every new transaction sees.
Rows == {r \in Req : stage[r] = "row"}
Running == {r \in Req : stage[r] \in {"spawned", "inserted"}}
-----------------------------------------------------------------------------
\* dispatch and _record: after the response, a 500 included, spawn takes the
\* task; a response it drops at its limit leaves no trace.
Answer(r) ==
  /\ stage[r] = "none"
  /\ \A p \in Task : r \notin due[p] \cup ids[p]
  /\ Cardinality(Running) < MaxTasks
  /\ stage' = [stage EXCEPT ![r] = "spawned"]
  /\ UNCHANGED <<age, retention, purges>>

\* HomeAccessLogSink.save: the INSERT, created_at from the clock of the process.
Insert(r) ==
  /\ stage[r] = "spawned"
  /\ stage' = [stage EXCEPT ![r] = "inserted"]
  /\ age' = [age EXCEPT ![r] = 0]
  /\ UNCHANGED <<retention, purges>>

CommitRow(r) ==
  /\ stage[r] = "inserted"
  /\ stage' = [stage EXCEPT ![r] = "row"]
  /\ UNCHANGED <<age, retention, purges>>

\* _save_access_log: an error or a cancelled task loses the row, nothing else.
SaveFails(r) ==
  /\ r \in Running
  /\ stage' = [stage EXCEPT ![r] = "none"]
  /\ age' = [age EXCEPT ![r] = 0]
  /\ UNCHANGED <<retention, purges>>
-----------------------------------------------------------------------------
\* Variant: the row that is exactly retention days old goes as well.
ExpiredOrEqual(r) == age[r] >= retention

\* created_at < now - retention days.
Expired(r) == age[r] > retention

PurgeBegin(p) ==
  LET expired == {r \in Req : stage[r] \in {"inserted", "row"} /\ Expired(r)} IN
  /\ phase[p] \in Idle
  /\ retention # 0
  /\ phase' = [phase EXCEPT ![p] = "select"]
  /\ due' = [due EXCEPT ![p] = expired]
  /\ owed' = [owed EXCEPT ![p] = expired \cap Rows]
  /\ UNCHANGED <<log, retention, ids>>

PurgeEnd(p, result) ==
  /\ phase' = [phase EXCEPT ![p] = result]
  /\ due' = [due EXCEPT ![p] = {}]
  /\ ids' = [ids EXCEPT ![p] = {}]
  /\ owed' = [owed EXCEPT ![p] = {}]

\* Variant: the SELECT has no LIMIT.
AllAtOnce(found) == {found}

\* SELECT id ... LIMIT n without an order: any n of them.
Batches(found) ==
  {batch \in SUBSET found : \/ Cardinality(batch) = BatchSize
                            \/ batch = found /\ Cardinality(found) < BatchSize}

\* Variant: the cutoff is computed anew for every batch.
SelectByNow(p) ==
  \E batch \in Batches({r \in Rows : Expired(r)}) :
    /\ phase[p] = "select"
    /\ IF batch = {} THEN PurgeEnd(p, "success")
       ELSE /\ phase' = [phase EXCEPT ![p] = "delete"]
            /\ ids' = [ids EXCEPT ![p] = batch]
            /\ UNCHANGED <<due, owed>>
    /\ UNCHANGED <<log, retention>>

\* delete_created_before, its SELECT.  Nothing found: an empty commit, the end.
PurgeSelect(p) ==
  \E batch \in Batches(due[p] \cap Rows) :
    /\ phase[p] = "select"
    /\ IF batch = {} THEN PurgeEnd(p, "success")
       ELSE /\ phase' = [phase EXCEPT ![p] = "delete"]
            /\ ids' = [ids EXCEPT ![p] = batch]
            /\ UNCHANGED <<due, owed>>
    /\ UNCHANGED <<log, retention>>

\* Its DELETE waits for rows another purge has deleted and not committed.
PurgeDelete(p) ==
  /\ phase[p] = "delete"
  /\ \A q \in Task \ {p} : phase[q] = "commit" => ids[q] \cap ids[p] \cap Rows = {}
  /\ phase' = [phase EXCEPT ![p] = "commit"]
  /\ UNCHANGED <<log, retention, due, ids, owed>>

\* What the deletion of rows leaves of the log.
Gone(rows) ==
  /\ stage' = [r \in Req |-> IF r \in rows THEN "none" ELSE stage[r]]
  /\ age' = [r \in Req |-> IF r \in rows THEN 0 ELSE age[r]]

\* Variant: deleted is the number of rows the DELETE has met.
CommitByRowcount(p) ==
  LET gone == ids[p] \cap Rows IN
  /\ phase[p] = "commit"
  /\ Gone(gone)
  /\ IF Cardinality(gone) < BatchSize
     THEN PurgeEnd(p, "success")
     ELSE /\ phase' = [phase EXCEPT ![p] = "select"]
          /\ ids' = [ids EXCEPT ![p] = {}]
          /\ UNCHANGED <<due, owed>>
  /\ UNCHANGED retention

\* purge_expired commits the batch and goes on unless it was a short one.
PurgeCommit(p) ==
  /\ phase[p] = "commit"
  /\ Gone(ids[p] \cap Rows)
  /\ IF Cardinality(ids[p]) < BatchSize
     THEN PurgeEnd(p, "success")
     ELSE /\ phase' = [phase EXCEPT ![p] = "select"]
          /\ ids' = [ids EXCEPT ![p] = {}]
          /\ UNCHANGED <<due, owed>>
  /\ UNCHANGED retention

\* UserAccessLogAdmin.can_delete: an administrator deletes a row of any age in
\* /admin (the DELETE is sqladmin's, external), behind a purge that has it locked.
AdminDelete(r) ==
  /\ r \in Rows
  /\ \A p \in Task : phase[p] = "commit" => r \notin ids[p]
  /\ Gone({r})
  /\ UNCHANGED <<retention, purges>>

\* An error, a deadlock or a killed worker: the batch is rolled back.
PurgeFails(p) ==
  /\ phase[p] \notin Idle
  /\ PurgeEnd(p, "idle")
  /\ UNCHANGED <<log, retention>>
-----------------------------------------------------------------------------
Day ==
  /\ age' = [r \in Req |-> IF stage[r] \in {"inserted", "row"} /\ age[r] < MaxAge
                           THEN age[r] + 1 ELSE age[r]]
  /\ UNCHANGED <<stage, retention, purges>>

PurgeStep(p) == PurgeSelect(p) \/ PurgeDelete(p) \/ PurgeCommit(p)

AccessLogNext ==
  \/ \E r \in Req : Answer(r)
  \/ \E r \in Req : Insert(r)
  \/ \E r \in Req : CommitRow(r)
  \/ \E r \in Req : SaveFails(r)
  \/ \E r \in Req : AdminDelete(r)
  \/ \E p \in Task : PurgeBegin(p)
  \/ \E p \in Task : PurgeSelect(p)
  \/ \E p \in Task : PurgeDelete(p)
  \/ \E p \in Task : PurgeCommit(p)
  \/ \E p \in Task : PurgeFails(p)
  \/ Day

\* A worker runs its task, and who waits for a row lock gets it before those
\* that ask later; requests and beat owe nothing.
AccessLogSpec ==
  /\ AccessLogInit /\ [][AccessLogNext]_vars
  /\ \A p \in Task : WF_vars(PurgeStep(p)) /\ SF_vars(PurgeDelete(p))
-----------------------------------------------------------------------------
\* Variant: ORDER BY created_at DESC.
BeforeByTime(r, s) == age[r] < age[s]

\* ORDER BY created_at DESC, id DESC.
Before(r, s) == age[r] < age[s] \/ (age[r] = age[s] /\ r > s)

\* get_all, get_recent_logs, get_by_user_id: the database may return any order
\* of the found rows that ORDER BY allows.
Listings(found) ==
  {q \in [1..Cardinality(found) -> found] :
     \A i, j \in DOMAIN q : i < j => q[i] # q[j] /\ ~Before(q[j], q[i])}

Page(found, skip, limit) ==
  {SubSeq(q, skip + 1, IF skip + limit < Len(q) THEN skip + limit ELSE Len(q))
     : q \in Listings(found)}

Shown(page) == {page[i] : i \in DOMAIN page}

\* The first page and what is behind it, each a query of its own.
PagesOf(found, limit) ==
  \A first \in Page(found, 0, limit), rest \in Page(found, limit, Cardinality(found)) :
    /\ Shown(first) \cap Shown(rest) = {}
    /\ Shown(first) \cup Shown(rest) = found

\* Paging through a log at rest, or what a filter (user, address, dates) leaves
\* of it, shows every row once, also the rows of one and the same moment.
PagesPartition == \A found \in SUBSET Rows, limit \in 1..2 : PagesOf(found, limit)
-----------------------------------------------------------------------------
\* A step of the purge takes no row that is within its retention, the last day
\* included, and none at all with retention 0; two purges, new rows and rows an
\* administrator deletes meanwhile make no difference.
RetentionKept ==
  [][purges' # purges =>
       \A r \in Rows : stage'[r] # "row" => retention # 0 /\ age[r] > retention]_vars

\* When a purge ends without an error, the rows that were due at its start are
\* gone, also those that another purge had in hand and might have kept, or an
\* administrator has taken out of its batch.
PurgeComplete ==
  [][\A p \in Task : phase[p] \notin Idle /\ phase'[p] = "success"
       => \A r \in owed[p] : stage'[r] # "row"]_vars

\* A purge ends, however fast new rows come and age meanwhile.
PurgeEnds == \A p \in Task : phase[p] \notin Idle ~> phase[p] \in Idle
=============================================================================
