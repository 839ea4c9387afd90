-------------------------- MODULE AccessLogProofs --------------------------
(***************************************************************************)
(* Proofs about AccessLog for any number of rows and purges, any batch     *)
(* size and any retention: types, RetentionKept, PurgeComplete and pages   *)
(* of any length.                                                          *)
(***************************************************************************)
EXTENDS AccessLog, FiniteSetTheorems, TLAPS

USE AccessLogAssumption

LogType ==
  /\ stage \in [Req -> Stages]
  /\ age \in [Req -> 0..MaxAge]
  /\ retention \in Retentions

PurgeType ==
  /\ phase \in [Task -> Phases]
  /\ due \in [Task -> SUBSET Req]
  /\ ids \in [Task -> SUBSET Req]
  /\ owed \in [Task -> SUBSET Req]

\* What is in hand of a purge fits the step it is at.
Shape(p) ==
  /\ owed[p] \subseteq due[p]
  /\ ids[p] \subseteq due[p]
  /\ Cardinality(ids[p]) <= BatchSize
  /\ ids[p] = {} <=> phase[p] \in Idle \cup {"select"}
  /\ phase[p] \in Idle => due[p] = {}
  /\ phase[p] \notin Idle => retention # 0

\* A due row is past its retention as long as it is there, and no other row
\* gets its id meanwhile; an owed one was committed.
DueIsExpired(p) ==
  /\ \A r \in due[p] : stage[r] = "none" \/ (stage[r] \in {"inserted", "row"} /\ Expired(r))
  /\ \A r \in owed[p] : stage[r] \in {"none", "row"}

\* After a short batch nothing owed is left outside it.
ShortBatchIsLast(p) ==
  phase[p] \in {"delete", "commit"} /\ Cardinality(ids[p]) < BatchSize
    => \A r \in owed[p] : stage[r] = "row" => r \in ids[p]

PurgeOK(p) == Shape(p) /\ DueIsExpired(p) /\ ShortBatchIsLast(p)

AccessLogInv == LogType /\ PurgeType /\ \A p \in Task : PurgeOK(p)

\* The two action properties, as formulas about one step.
KeepsRetention ==
  purges' # purges =>
    \A r \in Rows : stage'[r] # "row" => retention # 0 /\ age[r] > retention
FinishesClean ==
  \A p \in Task : phase[p] \notin Idle /\ phase'[p] = "success"
    => \A r \in owed[p] : stage'[r] # "row"

Goal == AccessLogInv' /\ KeepsRetention /\ FinishesClean
-----------------------------------------------------------------------------
LEMMA LogInitially == AccessLogInit => AccessLogInv
<1> SUFFICES ASSUME AccessLogInit PROVE AccessLogInv
  OBVIOUS
<1>1. LogType /\ PurgeType
  BY DEF AccessLogInit, LogType, PurgeType, Stages, Phases, Idle
<1>2. \A p \in Task : PurgeOK(p)
  BY FS_EmptySet DEF AccessLogInit, PurgeOK, Shape, DueIsExpired, ShortBatchIsLast, Idle
<1> QED BY <1>1, <1>2 DEF AccessLogInv

\* Steps of requests: they only touch rows that no purge has in hand.
LEMMA RequestStep ==
  ASSUME AccessLogInv, NEW r \in Req,
         Answer(r) \/ Insert(r) \/ CommitRow(r) \/ SaveFails(r)
  PROVE  Goal
<1> USE DEF AccessLogInv
<1>1. UNCHANGED <<retention, phase, due, ids, owed>>
  BY DEF Answer, Insert, CommitRow, SaveFails, purges
<1>2. LogType' /\ PurgeType'
  <2>1. 0 \in 0..MaxAge
    OBVIOUS
  <2> QED BY <1>1, <2>1 DEF LogType, PurgeType, Answer, Insert, CommitRow, SaveFails, Stages
<1>3. \A s \in Req : s # r => stage'[s] = stage[s] /\ age'[s] = age[s]
  BY DEF Answer, Insert, CommitRow, SaveFails, LogType
<1>4. stage[r] # "row" /\ stage'[r] \in Stages
  BY <1>2 DEF Answer, Insert, CommitRow, SaveFails, Running, LogType
<1>5. ASSUME NEW p \in Task PROVE PurgeOK(p)'
  <2>1. PurgeOK(p)
    OBVIOUS
  <2>2. Shape(p)'
    BY <1>1, <2>1 DEF PurgeOK, Shape, Idle
  <2>3. r \in due[p] => \/ stage[r] = "inserted" /\ stage'[r] \in {"none", "row"} /\ age'[r] = age[r]
                        \/ stage'[r] = "none"
    BY <2>1 DEF PurgeOK, DueIsExpired, Answer, Insert, CommitRow, SaveFails, Running, LogType
  <2>4. r \in owed[p] => FALSE
    BY <2>1, <1>4 DEF PurgeOK, DueIsExpired, Shape, Answer, Insert, CommitRow, SaveFails, Running
  <2>5. DueIsExpired(p)'
    BY <1>1, <1>3, <2>1, <2>3, <2>4 DEF PurgeOK, DueIsExpired, Expired, PurgeType
  <2>6. ShortBatchIsLast(p)'
    BY <1>1, <1>3, <2>1, <2>4 DEF PurgeOK, ShortBatchIsLast, PurgeType
  <2> QED BY <2>2, <2>5, <2>6 DEF PurgeOK
<1>6. KeepsRetention /\ FinishesClean
  BY <1>1, <1>3, <1>4 DEF KeepsRetention, FinishesClean, Rows, Idle
<1> QED BY <1>2, <1>5, <1>6 DEF Goal

\* An administrator takes a row from under the purges: it is missing where it
\* was due, and no purge is the further from its end.
LEMMA AdminStep ==
  ASSUME AccessLogInv, NEW r \in Req, AdminDelete(r)
  PROVE  Goal
<1> USE DEF AccessLogInv
<1>1. UNCHANGED <<retention, phase, due, ids, owed>> /\ Gone({r})
  BY DEF AdminDelete, purges
<1>2. LogType' /\ PurgeType'
  <2>1. 0 \in 0..MaxAge
    OBVIOUS
  <2> QED BY <1>1, <2>1 DEF LogType, PurgeType, Gone, Stages
<1>3. /\ stage'[r] = "none"
      /\ \A s \in Req : s # r => stage'[s] = stage[s] /\ age'[s] = age[s]
  BY <1>1 DEF Gone
<1>4. ASSUME NEW p \in Task PROVE PurgeOK(p)'
  <2>1. PurgeOK(p) /\ due[p] \subseteq Req /\ owed[p] \subseteq Req
    BY DEF PurgeType
  <2>2. Shape(p)'
    BY <1>1, <2>1 DEF PurgeOK, Shape, Idle
  <2>3. DueIsExpired(p)'
    BY <1>1, <1>3, <2>1 DEF PurgeOK, DueIsExpired, Expired
  <2>4. ShortBatchIsLast(p)'
    BY <1>1, <1>3, <2>1 DEF PurgeOK, ShortBatchIsLast
  <2> QED BY <2>2, <2>3, <2>4 DEF PurgeOK
<1>5. KeepsRetention /\ FinishesClean
  BY <1>1 DEF KeepsRetention, FinishesClean, purges, Idle
<1> QED BY <1>2, <1>4, <1>5 DEF Goal

LEMMA DayStep ==
  ASSUME AccessLogInv, Day
  PROVE  Goal
<1> USE DEF AccessLogInv
<1>1. UNCHANGED <<stage, retention, phase, due, ids, owed>>
  BY DEF Day, purges
<1>2. \A r \in Req : age'[r] \in 0..MaxAge /\ age'[r] >= age[r]
  BY DEF Day, LogType
<1>3. LogType' /\ PurgeType'
  BY <1>1, <1>2 DEF Day, LogType, PurgeType
<1>4. retention \in Nat
  BY DEF LogType
<1>5. ASSUME NEW p \in Task PROVE PurgeOK(p)'
  <2>1. PurgeOK(p)
    OBVIOUS
  <2>2. Shape(p)' /\ ShortBatchIsLast(p)'
    BY <1>1, <2>1 DEF PurgeOK, Shape, ShortBatchIsLast, Idle
  <2>3. DueIsExpired(p)'
    BY <1>1, <1>2, <1>4, <2>1 DEF PurgeOK, DueIsExpired, Expired, PurgeType, LogType
  <2> QED BY <2>2, <2>3 DEF PurgeOK
<1>6. KeepsRetention /\ FinishesClean
  BY <1>1 DEF KeepsRetention, FinishesClean, Rows, Idle
<1> QED BY <1>3, <1>5, <1>6 DEF Goal
-----------------------------------------------------------------------------
\* A step of purge p that leaves the rows alone: what is left to show is what
\* it does to p itself.
LEMMA PurgeAlone ==
  ASSUME AccessLogInv, NEW p \in Task, UNCHANGED <<log, retention>>,
         PurgeType', PurgeOK(p)', phase'[p] # "success" \/ \A r \in owed[p] : stage[r] # "row",
         \A q \in Task \ {p} : /\ phase'[q] = phase[q] /\ due'[q] = due[q]
                               /\ ids'[q] = ids[q] /\ owed'[q] = owed[q]
  PROVE  Goal
<1> USE DEF AccessLogInv
<1>1. UNCHANGED <<stage, age, retention>>
  BY DEF log
<1>2. LogType'
  BY <1>1 DEF LogType
<1>3. ASSUME NEW q \in Task PROVE PurgeOK(q)'
  <2>1. CASE q = p
    BY <2>1
  <2>2. CASE q # p
    <3>1. PurgeOK(q)
      OBVIOUS
    <3>2. Shape(q)' /\ ShortBatchIsLast(q)'
      BY <1>1, <2>2, <3>1 DEF PurgeOK, Shape, ShortBatchIsLast, Idle
    <3>3. DueIsExpired(q)'
      BY <1>1, <2>2, <3>1 DEF PurgeOK, DueIsExpired, Expired
    <3> QED BY <3>2, <3>3 DEF PurgeOK
  <2> QED BY <2>1, <2>2
<1>4. KeepsRetention
  BY <1>1 DEF KeepsRetention, Rows
<1>5. FinishesClean
  BY <1>1 DEF FinishesClean, Idle
<1> QED BY <1>2, <1>3, <1>4, <1>5 DEF Goal

\* The end of a purge leaves it with nothing in hand.
LEMMA Ended ==
  ASSUME PurgeType, NEW p \in Task, NEW result \in Idle, PurgeEnd(p, result)
  PROVE  /\ PurgeType' /\ PurgeOK(p)'
         /\ phase'[p] = result
         /\ \A q \in Task \ {p} : /\ phase'[q] = phase[q] /\ due'[q] = due[q]
                                  /\ ids'[q] = ids[q] /\ owed'[q] = owed[q]
<1>1. /\ phase'[p] = result /\ due'[p] = {} /\ ids'[p] = {} /\ owed'[p] = {}
      /\ \A q \in Task \ {p} : /\ phase'[q] = phase[q] /\ due'[q] = due[q]
                               /\ ids'[q] = ids[q] /\ owed'[q] = owed[q]
  BY DEF PurgeType, PurgeEnd
<1>2. PurgeType'
  BY DEF PurgeType, PurgeEnd, Phases
<1>3. PurgeOK(p)'
  BY <1>1, FS_EmptySet DEF PurgeOK, Shape, DueIsExpired, ShortBatchIsLast, Idle
<1> QED BY <1>1, <1>2, <1>3

LEMMA BeginStep ==
  ASSUME AccessLogInv, NEW p \in Task, PurgeBegin(p)
  PROVE  Goal
<1> USE DEF AccessLogInv
<1> DEFINE expired == {r \in Req : stage[r] \in {"inserted", "row"} /\ Expired(r)}
<1>1. /\ phase' = [phase EXCEPT ![p] = "select"]
      /\ due' = [due EXCEPT ![p] = expired]
      /\ owed' = [owed EXCEPT ![p] = expired \cap Rows]
      /\ UNCHANGED <<log, retention, ids>> /\ retention # 0 /\ phase[p] \in Idle
  BY DEF PurgeBegin
<1> HIDE DEF expired
<1>2. expired \in SUBSET Req
  BY DEF expired
<1>3. PurgeType'
  BY <1>1, <1>2 DEF PurgeType, Phases
<1>4. phase'[p] = "select" /\ due'[p] = expired /\ owed'[p] = expired \cap Rows /\ ids'[p] = {}
  BY <1>1 DEF PurgeType, PurgeOK, Shape
<1>5. PurgeOK(p)'
  <2>1. Shape(p)' /\ ShortBatchIsLast(p)'
    BY <1>1, <1>4, FS_EmptySet DEF Shape, ShortBatchIsLast, Idle
  <2>2. DueIsExpired(p)'
    BY <1>1, <1>4 DEF DueIsExpired, Expired, expired, Rows, log
  <2> QED BY <2>1, <2>2 DEF PurgeOK
<1>6. \A q \in Task \ {p} : /\ phase'[q] = phase[q] /\ due'[q] = due[q]
                            /\ ids'[q] = ids[q] /\ owed'[q] = owed[q]
  BY <1>1 DEF PurgeType
<1> QED BY <1>1, <1>3, <1>4, <1>5, <1>6, PurgeAlone

LEMMA SelectStep ==
  ASSUME AccessLogInv, NEW p \in Task, PurgeSelect(p)
  PROVE  Goal
<1> USE DEF AccessLogInv
<1> DEFINE found == due[p] \cap Rows
<1>1. PICK batch \in Batches(found) :
        /\ phase[p] = "select"
        /\ IF batch = {} THEN PurgeEnd(p, "success")
           ELSE /\ phase' = [phase EXCEPT ![p] = "delete"]
                /\ ids' = [ids EXCEPT ![p] = batch]
                /\ UNCHANGED <<due, owed>>
        /\ UNCHANGED <<log, retention>>
  BY DEF PurgeSelect
<1>2. /\ batch \subseteq found /\ Cardinality(batch) <= BatchSize
      /\ Cardinality(batch) < BatchSize => batch = found
  <2>1. batch \subseteq found /\ found \subseteq Req
    BY DEF Batches, Rows
  <2>2. IsFiniteSet(batch) /\ Cardinality(batch) \in Nat
    BY <2>1, FS_Subset, FS_CardinalityType
  <2> QED BY <2>1, <2>2 DEF Batches
<1>3. CASE batch = {}
  <2>1. PurgeEnd(p, "success")
    BY <1>1, <1>3
  <2>2. found = {}
    BY <1>2, <1>3, FS_EmptySet
  <2>3. \A r \in owed[p] : stage[r] # "row"
    BY <2>2 DEF PurgeOK, Shape, Rows, PurgeType
  <2>4. "success" \in Idle
    BY DEF Idle
  <2> QED BY <1>1, <2>1, <2>3, <2>4, Ended, PurgeAlone
<1>4. CASE batch # {}
  <2>1. /\ phase' = [phase EXCEPT ![p] = "delete"] /\ ids' = [ids EXCEPT ![p] = batch]
        /\ UNCHANGED <<due, owed, log, retention>>
    BY <1>1, <1>4
  <2>2. batch \in SUBSET Req /\ batch \subseteq due[p]
    BY <1>2 DEF Rows
  <2>3. PurgeType'
    BY <2>1, <2>2 DEF PurgeType, Phases
  <2>4. phase'[p] = "delete" /\ ids'[p] = batch /\ due'[p] = due[p] /\ owed'[p] = owed[p]
    BY <2>1 DEF PurgeType
  <2>5. Shape(p)'
    BY <1>1, <1>2, <1>4, <2>1, <2>2, <2>4 DEF PurgeOK, Shape, Idle
  <2>6. DueIsExpired(p)'
    BY <2>1, <2>4 DEF PurgeOK, DueIsExpired, Expired, log
  <2>7. ShortBatchIsLast(p)'
    BY <1>2, <2>1, <2>4 DEF PurgeOK, Shape, ShortBatchIsLast, Rows, log, PurgeType
  <2>8. \A q \in Task \ {p} : /\ phase'[q] = phase[q] /\ due'[q] = due[q]
                              /\ ids'[q] = ids[q] /\ owed'[q] = owed[q]
    BY <2>1 DEF PurgeType
  <2>9. PurgeOK(p)'
    BY <2>5, <2>6, <2>7 DEF PurgeOK
  <2> QED BY <2>1, <2>3, <2>4, <2>8, <2>9, PurgeAlone
<1> QED BY <1>3, <1>4

LEMMA DeleteStep ==
  ASSUME AccessLogInv, NEW p \in Task, PurgeDelete(p)
  PROVE  Goal
<1> USE DEF AccessLogInv
<1>1. /\ phase[p] = "delete" /\ phase' = [phase EXCEPT ![p] = "commit"]
      /\ UNCHANGED <<log, retention, due, ids, owed>>
  BY DEF PurgeDelete
<1>2. PurgeType' /\ phase'[p] = "commit"
  BY <1>1 DEF PurgeType, Phases
<1>3. PurgeOK(p)'
  BY <1>1, <1>2 DEF PurgeOK, Shape, DueIsExpired, ShortBatchIsLast, Expired, Idle, log
<1>4. \A q \in Task \ {p} : /\ phase'[q] = phase[q] /\ due'[q] = due[q]
                            /\ ids'[q] = ids[q] /\ owed'[q] = owed[q]
  BY <1>1 DEF PurgeType
<1> QED BY <1>1, <1>2, <1>3, <1>4, PurgeAlone

LEMMA FailStep ==
  ASSUME AccessLogInv, NEW p \in Task, PurgeFails(p)
  PROVE  Goal
<1>1. PurgeEnd(p, "idle") /\ UNCHANGED <<log, retention>> /\ "idle" \in Idle /\ PurgeType
  BY DEF PurgeFails, Idle, AccessLogInv
<1> QED BY <1>1, Ended, PurgeAlone

\* The only step of a purge that takes rows: due rows, so they are past their
\* retention; and if the batch was a short one, no owed row is left.
LEMMA CommitStep ==
  ASSUME AccessLogInv, NEW p \in Task, PurgeCommit(p)
  PROVE  Goal
<1> USE DEF AccessLogInv
<1> DEFINE gone == ids[p] \cap Rows
<1>1. phase[p] = "commit" /\ Gone(gone) /\ UNCHANGED retention /\ PurgeOK(p)
  BY DEF PurgeCommit
<1>2. gone \subseteq due[p] /\ gone \subseteq Rows /\ retention # 0
  BY <1>1 DEF PurgeOK, Shape, Idle
<1>3. /\ \A r \in Req : r \in gone => stage'[r] = "none"
      /\ \A r \in Req : r \notin gone => stage'[r] = stage[r] /\ age'[r] = age[r]
  BY <1>1 DEF Gone
<1>4. LogType'
  <2>1. 0 \in 0..MaxAge
    OBVIOUS
  <2> QED BY <1>1, <2>1 DEF LogType, Gone, Stages
<1>5. KeepsRetention
  BY <1>1, <1>2, <1>3 DEF KeepsRetention, PurgeOK, DueIsExpired, Expired, Rows
<1>6. /\ PurgeType'
      /\ phase'[p] = "success" \/ (phase'[p] = "select" /\ ids'[p] = {} /\ due'[p] = due[p] /\ owed'[p] = owed[p])
      /\ phase'[p] = "success" => Cardinality(ids[p]) < BatchSize /\ PurgeEnd(p, "success")
      /\ \A q \in Task \ {p} : /\ phase'[q] = phase[q] /\ due'[q] = due[q]
                               /\ ids'[q] = ids[q] /\ owed'[q] = owed[q]
  <2>1. CASE Cardinality(ids[p]) < BatchSize
    <3>1. PurgeEnd(p, "success") /\ "success" \in Idle
      BY <2>1 DEF PurgeCommit, Idle
    <3> QED BY <2>1, <3>1, Ended
  <2>2. CASE ~(Cardinality(ids[p]) < BatchSize)
    <3>1. /\ phase' = [phase EXCEPT ![p] = "select"] /\ ids' = [ids EXCEPT ![p] = {}]
          /\ UNCHANGED <<due, owed>>
      BY <2>2 DEF PurgeCommit
    <3> QED BY <3>1 DEF PurgeType, Phases
  <2> QED BY <2>1, <2>2
<1>7. FinishesClean
  <2> SUFFICES ASSUME NEW q \in Task, phase[q] \notin Idle, phase'[q] = "success", NEW r \in owed[q]
               PROVE  stage'[r] # "row"
    BY DEF FinishesClean
  <2>1. q = p
    BY <1>6 DEF Idle
  <2>2. Cardinality(ids[p]) < BatchSize /\ r \in Req
    BY <1>6, <2>1 DEF PurgeType
  <2>3. stage[r] = "row" => r \in gone
    BY <1>1, <2>1, <2>2 DEF PurgeOK, ShortBatchIsLast, Rows
  <2> QED BY <1>3, <2>2, <2>3
<1>8. ASSUME NEW q \in Task PROVE PurgeOK(q)'
  <2>1. CASE q = p /\ phase'[p] = "success"
    <3>1. "success" \in Idle
      BY DEF Idle
    <3> QED BY <1>6, <2>1, <3>1, Ended
  <2>2. CASE q # p \/ phase'[p] = "select"
    <3>1. PurgeOK(q) /\ due'[q] = due[q] /\ owed'[q] = owed[q] /\ due[q] \subseteq Req /\ owed[q] \subseteq Req
      BY <1>6, <2>2 DEF PurgeType
    <3>2. (ids'[q] = ids[q] /\ phase'[q] = phase[q]) \/ (q = p /\ ids'[q] = {} /\ phase'[q] = "select")
      <4>1. CASE q # p
        BY <1>6, <4>1
      <4>2. CASE q = p
        <5>1. phase'[p] # "success"
          BY <2>2, <4>2
        <5> QED BY <1>6, <4>2, <5>1
      <4> QED BY <4>1, <4>2
    <3>3. Shape(q)'
      <4>1. retention' = retention
        BY <1>1
      <4>2. CASE ids'[q] = ids[q] /\ phase'[q] = phase[q]
        BY <3>1, <4>1, <4>2 DEF PurgeOK, Shape
      <4>3. CASE q = p /\ ids'[q] = {} /\ phase'[q] = "select"
        <5>1. Cardinality({}) = 0
          BY FS_EmptySet
        <5>2. phase[q] \notin Idle
          BY <1>2, <4>3 DEF PurgeCommit, Idle
        <5>3. retention # 0
          BY <3>1, <5>2 DEF PurgeOK, Shape
        <5>4. "select" \in Idle \cup {"select"} /\ "select" \notin Idle
          BY DEF Idle
        <5> QED BY <3>1, <4>1, <4>3, <5>1, <5>3, <5>4 DEF PurgeOK, Shape
      <4> QED BY <3>2, <4>2, <4>3
    <3>4. DueIsExpired(q)'
      BY <1>1, <1>3, <3>1 DEF PurgeOK, DueIsExpired, Expired
    <3>5. ShortBatchIsLast(q)'
      BY <1>3, <3>1, <3>2 DEF PurgeOK, ShortBatchIsLast
    <3> QED BY <3>3, <3>4, <3>5 DEF PurgeOK
  <2> QED BY <1>6, <2>1, <2>2
<1> QED BY <1>4, <1>5, <1>6, <1>7, <1>8 DEF Goal
-----------------------------------------------------------------------------
LEMMA AccessLogStep ==
  AccessLogInv /\ [AccessLogNext]_vars => AccessLogInv' /\ [KeepsRetention /\ FinishesClean]_vars
<1> SUFFICES ASSUME AccessLogInv, [AccessLogNext]_vars
             PROVE  AccessLogInv' /\ [KeepsRetention /\ FinishesClean]_vars
  OBVIOUS
<1>1. CASE UNCHANGED vars
  <2>1. UNCHANGED <<stage, age, retention, phase, due, ids, owed>>
    BY <1>1 DEF vars, log, purges
  <2>2. LogType' /\ PurgeType'
    BY <2>1 DEF AccessLogInv, LogType, PurgeType
  <2>3. \A p \in Task : PurgeOK(p)'
    BY <2>1 DEF AccessLogInv, PurgeOK, Shape, DueIsExpired, ShortBatchIsLast, Expired, Idle
  <2> QED BY <1>1, <2>2, <2>3 DEF AccessLogInv
<1>2. CASE AccessLogNext
  <2>1. Goal
    BY <1>2, RequestStep, AdminStep, DayStep, BeginStep, SelectStep, DeleteStep, CommitStep, FailStep
    DEF AccessLogNext
  <2> QED BY <2>1 DEF Goal
<1> QED BY <1>1, <1>2

LEMMA AccessLogInvariant == AccessLogSpec => []AccessLogInv
<1>1. AccessLogInv /\ [AccessLogNext]_vars => AccessLogInv'
  BY AccessLogStep
<1> QED BY <1>1, LogInitially, PTL DEF AccessLogSpec

\* Rows, batches and what the purges have in hand keep their type; no batch is
\* larger than its limit.
THEOREM AccessLogTypeCorrect == AccessLogSpec => []AccessLogTypeOK
<1>1. AccessLogInv => AccessLogTypeOK
  BY DEF AccessLogInv, AccessLogTypeOK, LogType, PurgeType, PurgeOK, Shape
<1> QED BY <1>1, AccessLogInvariant, PTL

\* However many purges run, wherever they fail and whatever an administrator
\* deletes beside them, no purge takes a row before its time.
THEOREM RetentionIsKept == AccessLogSpec => RetentionKept
<1>1. AccessLogInv /\ [AccessLogNext]_vars
        => [purges' # purges =>
              \A r \in Rows : stage'[r] # "row" => retention # 0 /\ age[r] > retention]_vars
  BY AccessLogStep DEF KeepsRetention
<1> QED BY <1>1, AccessLogInvariant, PTL DEF AccessLogSpec, RetentionKept

\* A purge that reports success has left none of the rows it owed, although
\* other purges delete, fail and roll back beside it.
THEOREM SuccessMeansPurged == AccessLogSpec => PurgeComplete
<1>1. AccessLogInv /\ [AccessLogNext]_vars
        => [\A p \in Task : phase[p] \notin Idle /\ phase'[p] = "success"
              => \A r \in owed[p] : stage'[r] # "row"]_vars
  BY AccessLogStep DEF FinishesClean
<1> QED BY <1>1, AccessLogInvariant, PTL DEF AccessLogSpec, PurgeComplete
-----------------------------------------------------------------------------
\* created_at and id order the rows: of two rows just one is before the other.
LEMMA BeforeIsTotal ==
  ASSUME AccessLogInv, NEW r \in Req, NEW s \in Req
  PROVE  /\ ~(Before(r, s) /\ Before(s, r))
         /\ r # s => Before(r, s) \/ Before(s, r)
<1>1. age[r] \in Nat /\ age[s] \in Nat /\ r \in Nat /\ s \in Nat
  BY DEF AccessLogInv, LogType
<1> QED BY <1>1 DEF Before

\* A listing holds every found row once, the earlier ones in front.
LEMMA ListingOrder ==
  ASSUME AccessLogInv, NEW found \in SUBSET Req, NEW q \in Listings(found)
  PROVE  /\ Cardinality(found) \in Nat
         /\ q \in [1..Cardinality(found) -> found]
         /\ \A i, j \in 1..Cardinality(found) : q[i] = q[j] => i = j
         /\ \A r \in found : \E i \in 1..Cardinality(found) : q[i] = r
         /\ \A i, j \in 1..Cardinality(found) : Before(q[i], q[j]) <=> i < j
<1> DEFINE n == Cardinality(found)
<1>1. IsFiniteSet(found) /\ n \in Nat
  BY FS_Subset, FS_CardinalityType
<1>2. /\ q \in [1..n -> found]
      /\ \A i, j \in 1..n : i < j => q[i] # q[j] /\ ~Before(q[j], q[i])
  BY DEF Listings
<1> HIDE DEF n
<1>3. \A i, j \in 1..n : q[i] = q[j] => i = j
  BY <1>1, <1>2
<1>4. \A r \in found : \E i \in 1..n : q[i] = r
  <2>1. q \in Injection(1..n, found)
    BY <1>2, <1>3 DEF Injection, IsInjective
  <2>2. IsFiniteSet(1..n) /\ Cardinality(1..n) = n
    BY <1>1, FS_Interval
  <2>3. q \in Surjection(1..n, found)
    BY <1>1, <2>1, <2>2, FS_Injection DEF n
  <2> QED BY <2>3 DEF Surjection
<1>5. ASSUME NEW i \in 1..n, NEW j \in 1..n PROVE Before(q[i], q[j]) <=> i < j
  <2>1. q[i] \in Req /\ q[j] \in Req
    BY <1>2
  <2>2. /\ ~(Before(q[i], q[j]) /\ Before(q[j], q[i]))
        /\ q[i] # q[j] => Before(q[i], q[j]) \/ Before(q[j], q[i])
    BY <2>1, BeforeIsTotal
  <2>3. CASE i < j
    BY <1>2, <2>2, <2>3
  <2>4. CASE j < i
    BY <1>1, <1>2, <2>2, <2>4
  <2>5. CASE i = j
    BY <1>1, <2>2, <2>5
  <2> QED BY <1>1, <2>3, <2>4, <2>5
<1> QED BY <1>1, <1>2, <1>3, <1>4, <1>5 DEF n

\* The place of a row is one more than the number of rows before it, ...
LEMMA PlaceInListing ==
  ASSUME AccessLogInv, NEW found \in SUBSET Req, NEW q \in Listings(found),
         NEW i \in 1..Cardinality(found)
  PROVE  Cardinality({r \in found : Before(r, q[i])}) = i - 1
<1> DEFINE n == Cardinality(found)
           front == {r \in found : Before(r, q[i])}
           h == [j \in 1..(i - 1) |-> q[j]]
<1>1. /\ n \in Nat /\ i \in 1..n /\ q \in [1..n -> found]
      /\ \A j, k \in 1..n : q[j] = q[k] => j = k
      /\ \A r \in found : \E j \in 1..n : q[j] = r
      /\ \A j, k \in 1..n : Before(q[j], q[k]) <=> j < k
  BY ListingOrder
<1> HIDE DEF n
<1>2. i - 1 \in Nat /\ \A j \in 1..(i - 1) : j \in 1..n /\ j < i
  BY <1>1
<1>3. h \in [1..(i - 1) -> front]
  BY <1>1, <1>2
<1>4. \A j, k \in 1..(i - 1) : h[j] = h[k] => j = k
  BY <1>1, <1>2
<1>5. \A r \in front : \E j \in 1..(i - 1) : h[j] = r
  <2> TAKE r \in front
  <2>1. PICK j \in 1..n : q[j] = r
    BY <1>1
  <2>2. j < i
    BY <1>1, <2>1
  <2>3. j \in 1..(i - 1) /\ h[j] = r
    BY <1>1, <2>1, <2>2
  <2> QED BY <2>3
<1> HIDE DEF h, front
<1>6. h \in Bijection(1..(i - 1), front)
  BY <1>3, <1>4, <1>5 DEF Bijection, Injection, IsInjective, Surjection
<1>7. Cardinality(front) = i - 1
  BY <1>2, <1>6, FS_CountingElements DEF ExistsBijection
<1> QED BY <1>7 DEF front

\* ... so that the database has no choice.
LEMMA OneListing ==
  ASSUME AccessLogInv, NEW found \in SUBSET Req,
         NEW p \in Listings(found), NEW q \in Listings(found)
  PROVE  p = q
<1> DEFINE n == Cardinality(found)
<1>1. /\ n \in Nat /\ p \in [1..n -> found] /\ q \in [1..n -> found]
      /\ \A r \in found : \E j \in 1..n : q[j] = r
  BY ListingOrder
<1>2. ASSUME NEW i \in 1..n PROVE p[i] = q[i]
  <2>1. PICK j \in 1..n : q[j] = p[i]
    BY <1>1
  <2>2. Cardinality({r \in found : Before(r, p[i])}) = i - 1
    BY PlaceInListing
  <2>3. Cardinality({r \in found : Before(r, q[j])}) = j - 1
    BY PlaceInListing
  <2>4. i - 1 = j - 1 /\ i \in Int /\ j \in Int
    BY <1>1, <2>1, <2>2, <2>3
  <2>5. i = j
    BY <2>4
  <2> QED BY <2>1, <2>5
<1> QED BY <1>1, <1>2

LEMMA ShownOfPart ==
  ASSUME NEW S, NEW q \in Seq(S), NEW a \in Nat, a # 0, NEW b \in Nat, b <= Len(q), NEW r
  PROVE  r \in Shown(SubSeq(q, a, b)) <=> \E i \in a..b : q[i] = r
<1> DEFINE t == SubSeq(q, a, b)
<1>1. \A i \in a..b : i \in 1..Len(q)
  OBVIOUS
<1>2. /\ t \in Seq(S) /\ Len(t) = (IF a <= b THEN b - a + 1 ELSE 0)
      /\ \A i \in 1..(b - a + 1) : t[i] = q[a + i - 1]
  BY <1>1
<1>3. DOMAIN t = 1..Len(t)
  BY <1>2
<1> HIDE DEF t
<1>4. ASSUME NEW i \in DOMAIN t PROVE \E j \in a..b : q[j] = t[i]
  <2>1. i \in 1..(b - a + 1) /\ a + i - 1 \in a..b
    BY <1>2, <1>3
  <2> QED BY <1>2, <2>1
<1>5. ASSUME NEW j \in a..b PROVE \E i \in DOMAIN t : t[i] = q[j]
  <2>1. j - a + 1 \in 1..(b - a + 1) /\ a + (j - a + 1) - 1 = j /\ j - a + 1 \in DOMAIN t
    BY <1>2, <1>3
  <2>2. t[j - a + 1] = q[j]
    BY <1>2, <2>1
  <2> QED BY <2>1, <2>2
<1>6. r \in Shown(t) <=> \E i \in DOMAIN t : t[i] = r
  BY DEF Shown
<1>7. r \in Shown(t) <=> \E i \in a..b : q[i] = r
  BY <1>4, <1>5, <1>6
<1> QED BY <1>7 DEF t

LEMMA PagesMeet ==
  ASSUME AccessLogInv, NEW found \in SUBSET Req, NEW limit \in Nat
  PROVE  PagesOf(found, limit)
<1> DEFINE n == Cardinality(found)
           m == IF limit < n THEN limit ELSE n
<1> SUFFICES ASSUME NEW first \in Page(found, 0, limit), NEW rest \in Page(found, limit, n)
             PROVE  /\ Shown(first) \cap Shown(rest) = {}
                    /\ Shown(first) \cup Shown(rest) = found
  BY DEF PagesOf
<1>1. PICK q \in Listings(found) :
        first = SubSeq(q, 0 + 1, IF 0 + limit < Len(q) THEN 0 + limit ELSE Len(q))
  BY DEF Page
<1>2. PICK p \in Listings(found) :
        rest = SubSeq(p, limit + 1, IF limit + n < Len(p) THEN limit + n ELSE Len(p))
  BY DEF Page
<1>3. p = q
  BY OneListing
<1>4. /\ n \in Nat /\ q \in [1..n -> found]
      /\ \A i, j \in 1..n : q[i] = q[j] => i = j
      /\ \A r \in found : \E i \in 1..n : q[i] = r
  BY ListingOrder
<1> HIDE DEF n
<1>5. Len(q) = n /\ m \in Nat /\ m <= n /\ m <= limit
  BY <1>4
<1>6. first = SubSeq(q, 1, m) /\ rest = SubSeq(q, limit + 1, n)
  BY <1>1, <1>2, <1>3, <1>4, <1>5
<1>7. \A r : /\ r \in Shown(first) <=> \E i \in 1..m : q[i] = r
             /\ r \in Shown(rest) <=> \E i \in (limit + 1)..n : q[i] = r
  <2> HIDE DEF m
  <2>1. q \in Seq(found) /\ n <= Len(q) /\ m <= Len(q) /\ m \in Nat
        /\ limit + 1 \in Nat /\ limit + 1 # 0
    BY <1>4, <1>5
  <2> TAKE r
  <2>2. r \in Shown(SubSeq(q, 1, m)) <=> \E i \in 1..m : q[i] = r
    BY <2>1, ShownOfPart
  <2>3. r \in Shown(SubSeq(q, limit + 1, n)) <=> \E i \in (limit + 1)..n : q[i] = r
    BY <1>4, <2>1, ShownOfPart
  <2> QED BY <1>6, <2>2, <2>3
<1>8. \A i \in 1..m : i \in 1..n /\ i <= limit
  BY <1>4, <1>5
<1>9. \A i \in (limit + 1)..n : i \in 1..n /\ ~(i <= limit)
  BY <1>4
<1>10. \A i \in 1..n : i \in 1..m \/ i \in (limit + 1)..n
  BY <1>4
<1> HIDE DEF m
<1>11. Shown(first) \cap Shown(rest) = {}
  <2> SUFFICES ASSUME NEW i \in 1..m, NEW j \in (limit + 1)..n, q[i] = q[j]
               PROVE  FALSE
    BY <1>7
  <2> QED BY <1>4, <1>8, <1>9
<1>12. Shown(first) \cup Shown(rest) = found
  <2>1. Shown(first) \subseteq found /\ Shown(rest) \subseteq found
    BY <1>4, <1>7, <1>8, <1>9
  <2>2. ASSUME NEW r \in found PROVE r \in Shown(first) \cup Shown(rest)
    <3>1. PICK i \in 1..n : q[i] = r
      BY <1>4
    <3> QED BY <1>7, <1>10, <3>1
  <2> QED BY <2>1, <2>2
<1> QED BY <1>11, <1>12

\* Pages of any length, of any part of the log, partition it.
AllPagesPartition == \A found \in SUBSET Rows, limit \in Nat : PagesOf(found, limit)

THEOREM AllPages == AccessLogSpec => []AllPagesPartition
<1>1. AccessLogInv => AllPagesPartition
  BY PagesMeet DEF AllPagesPartition, Rows
<1> QED BY <1>1, AccessLogInvariant, PTL

\* Paging through a log at rest, or what a filter leaves of it, shows every row
\* once, also the rows of one and the same moment.
THEOREM PagesPartitioned == AccessLogSpec => []PagesPartition
<1>1. AllPagesPartition => PagesPartition
  BY DEF AllPagesPartition, PagesPartition
<1> QED BY <1>1, AllPages, PTL
=============================================================================
