------------------------ MODULE AdminSessionsProofs ------------------------
(***************************************************************************)
(* Theorems about AdminSessions, for every set of users, requests and      *)
(* session ids and all lifetimes with 0 < Idle <= MaxAge, 1 < MaxAge.      *)
(***************************************************************************)
EXTENDS AdminSessions, TLAPS

StoreType ==
  /\ ttl \in [Sid -> 0..Idle]
  /\ owner \in [Sid -> Who]
  /\ age \in [Sid -> 0..MaxAge]
  /\ known \subseteq Sid
  /\ idx \in [User -> SUBSET Sid]
  /\ idxTtl \in [User -> 0..MaxAge]
  /\ may \subseteq User
  /\ raced \subseteq Sid

RequestType ==
  /\ pc \in [Req -> Phases]
  /\ op \in [Req -> Ops]
  /\ sid \in [Req -> Sid \cup {None}]
  /\ rec \in [Req -> Who]
  /\ out \in [Req -> Who]
  /\ rotate \in [Req -> BOOLEAN]
  /\ nsid \in [Req -> Sid \cup {None}]
  /\ target \in [Req -> User \cup {None}]
  /\ keys \in [Req -> SUBSET Sid]
  /\ old \in [Req -> SUBSET Sid]

\* Only issued ids live or are in a cookie.
Issued == \A s \in Sid : Live(s) \/ s \in known => owner[s] # None

\* What a request remembers is true: the record it has loaded is the one its
\* session still has; without a new id it answers with the same user or none;
\* a change has a target; a session about to be indexed has a user.
Holds(r) ==
  /\ rec[r] # None => sid[r] \in Sid /\ owner[sid[r]] = rec[r]
  /\ pc[r] = "expired" => rec[r] # None
  /\ pc[r] \in {"respond", "save"} => Create(r) \/ out[r] \in {None, rec[r]}
  /\ pc[r] = "save" => out[r] # None
  /\ pc[r] \in {"members", "sweep", "commit"} => target[r] \in User
  /\ pc[r] \in {"members", "sweep", "commit"} /\ op[r] = "edit" => out[r] = rec[r]
  /\ pc[r] = "index" => out[r] \in User /\ nsid[r] \in Sid /\ owner[nsid[r]] = out[r]

AdminInv ==
  /\ StoreType
  /\ RequestType
  /\ Issued
  /\ \A r \in Req : Holds(r)
  /\ AbsoluteLifetime

\* What a step may do: to the requests other than r, to the sessions.
Only(r) ==
  \A q \in Req \ {r} :
    /\ pc'[q] = pc[q] /\ op'[q] = op[q] /\ sid'[q] = sid[q] /\ rec'[q] = rec[q]
    /\ out'[q] = out[q] /\ rotate'[q] = rotate[q] /\ nsid'[q] = nsid[q]
    /\ target'[q] = target[q] /\ keys'[q] = keys[q] /\ old'[q] = old[q]

KeepsOwners == \A s \in Sid : owner[s] # None => owner'[s] = owner[s]
KeepsDead == \A s \in Sid : owner[s] # None /\ ~Live(s) => ttl'[s] = 0

LEMMA TypeParts == AdminTypeOK <=> StoreType /\ RequestType
  BY DEF AdminTypeOK, StoreType, RequestType

LEMMA Names ==
  /\ "none" \in Ops /\ "edit" \in Ops /\ \A o \in Changes : o \in Ops /\ o # "edit"
  /\ None \in Who /\ Anon \in Who /\ \A u \in User : u \in Who
  BY DEF Ops, Changes, Who

LEMMA LeftRange ==
  ASSUME StoreType, NEW s \in Sid, NEW n \in Left(s)
  PROVE  n \in 0..MaxAge /\ n <= MaxAge - age[s]
<1>1. age[s] \in 0..MaxAge
  BY DEF StoreType
<1> QED BY <1>1, AdminAssumption DEF Left, Down

\* A TTL of min(idle, left) is in range and within the absolute lifetime.
LEMMA LesserRange ==
  ASSUME StoreType, NEW s \in Sid, NEW n \in Left(s)
  PROVE  Lesser(Idle, n) \in 0..Idle /\ age[s] + Lesser(Idle, n) <= MaxAge
<1>1. n \in 0..MaxAge /\ n <= MaxAge - age[s]
  BY LeftRange
<1>2. age[s] \in 0..MaxAge
  BY DEF StoreType
<1> QED BY <1>1, <1>2, AdminAssumption DEF Lesser

LEMMA BeginType ==
  ASSUME RequestType, NEW r \in Req, NEW p \in Phases, NEW o \in Ops,
         NEW s \in Sid \cup {None}, NEW w \in Who, NEW u \in User \cup {None},
         NEW before \in SUBSET Sid, Begin(r, p, o, s, w, u, before)
  PROVE  /\ RequestType' /\ Only(r)
         /\ pc'[r] = p /\ op'[r] = o /\ sid'[r] = s /\ rec'[r] = w
         /\ out'[r] = None /\ target'[r] = u
<1>1. RequestType'
  BY Names DEF Begin, RequestType
<1> QED BY <1>1 DEF Begin, RequestType, Only

LEMMA FinishType ==
  ASSUME RequestType, NEW r \in Req, Finish(r)
  PROVE  RequestType' /\ Only(r) /\ Holds(r)'
<1>1. "idle" \in Phases
  BY DEF Phases
<1>2. RequestType' /\ Only(r) /\ pc'[r] = "idle" /\ rec'[r] = None
  BY <1>1, BeginType, Names DEF Finish
<1> QED BY <1>2 DEF Holds

LEMMA GotoType ==
  ASSUME RequestType, NEW r \in Req, NEW p \in Phases, Goto(r, p)
  PROVE  RequestType' /\ Only(r) /\ pc'[r] = p
  BY DEF Goto, RequestType, Only

LEMMA AnswerType ==
  ASSUME RequestType, NEW r \in Req, NEW w \in Who, NEW turn \in BOOLEAN, Answer(r, w, turn)
  PROVE  RequestType' /\ Only(r) /\ pc'[r] = "respond" /\ out'[r] = w /\ rotate'[r] = turn
  BY DEF Answer, RequestType, Only, Phases

\* Steps that leave the store alone keep all but the request itself.
LEMMA StoreSame ==
  ASSUME AdminInv, UNCHANGED Store
  PROVE  StoreType' /\ Issued' /\ AbsoluteLifetime' /\ KeepsOwners /\ KeepsDead
<1>1. StoreType'
  BY DEF AdminInv, StoreType, Store, redis
<1>2. Issued' /\ AbsoluteLifetime'
  BY DEF AdminInv, Issued, AbsoluteLifetime, Live, Store, redis
<1>3. KeepsOwners
  BY DEF Store, redis, KeepsOwners
<1>4. KeepsDead
  <2>1. \A s \in Sid : ttl[s] \in Nat
    BY AdminAssumption DEF AdminInv, StoreType
  <2> QED BY <2>1 DEF Store, redis, KeepsDead, Live
<1> QED BY <1>1, <1>2, <1>3, <1>4

\* store.delete ends one session and prolongs none.
LEMMA DeleteStep ==
  ASSUME AdminInv, NEW s \in Sid, NEW w \in Who, Delete(s, w), UNCHANGED <<known, may, raced>>
  PROVE  StoreType' /\ Issued' /\ AbsoluteLifetime' /\ KeepsOwners /\ KeepsDead
<1>1. \A x \in Sid : ttl[x] \in 0..Idle /\ ttl'[x] \in {0, ttl[x]}
  BY AdminAssumption DEF AdminInv, StoreType, Delete
<1>2. StoreType'
  <2>1. ttl' \in [Sid -> 0..Idle]
    BY AdminAssumption DEF AdminInv, StoreType, Delete
  <2>2. idx' \in [User -> SUBSET Sid]
    BY DEF AdminInv, StoreType, Delete
  <2> QED BY <2>1, <2>2 DEF AdminInv, StoreType, Delete
<1>3. Issued' /\ AbsoluteLifetime'
  BY <1>1 DEF AdminInv, Issued, AbsoluteLifetime, Live, Delete
<1>4. KeepsOwners
  BY DEF Delete, KeepsOwners
<1>5. KeepsDead
  BY <1>1, AdminAssumption DEF KeepsDead, Live
<1> QED BY <1>2, <1>3, <1>4, <1>5

\* The other requests keep what they remember.
LEMMA OthersHold ==
  ASSUME AdminInv, NEW r \in Req, Only(r), KeepsOwners
  PROVE  \A q \in Req \ {r} : Holds(q)'
<1> SUFFICES ASSUME NEW q \in Req \ {r} PROVE Holds(q)'
  OBVIOUS
<1>1. Holds(q)
  BY DEF AdminInv
<1>2. rec[q] # None => owner'[sid[q]] = rec[q]
  BY <1>1 DEF Holds, KeepsOwners
<1>3. Create(q)' <=> Create(q)
  BY DEF Only, Create
<1>4. pc[q] = "index" => owner'[nsid[q]] = out[q]
  BY <1>1, AdminAssumption DEF Holds, KeepsOwners
<1> QED BY <1>1, <1>2, <1>3, <1>4 DEF Only, Holds

\* A step of request r, from its effects.
LEMMA Assemble ==
  ASSUME AdminInv, NEW r \in Req, RequestType', Only(r), Holds(r)',
         StoreType', Issued', AbsoluteLifetime', KeepsOwners, KeepsDead
  PROVE  AdminInv' /\ KeepsOwners /\ KeepsDead /\ Only(r)
<1>1. \A q \in Req : Holds(q)'
  BY OthersHold
<1> QED BY <1>1 DEF AdminInv
-----------------------------------------------------------------------------
LEMMA AdminInitially == AdminInit => AdminInv
<1> SUFFICES ASSUME AdminInit PROVE AdminInv
  OBVIOUS
<1>1. StoreType
  BY AdminAssumption, Names DEF AdminInit, StoreType
<1>2. RequestType
  BY Names DEF AdminInit, RequestType, Phases
<1>3. Issued /\ AbsoluteLifetime
  BY DEF AdminInit, Issued, AbsoluteLifetime, Live
<1>4. \A r \in Req : Holds(r)
  BY DEF AdminInit, Holds
<1> QED BY <1>1, <1>2, <1>3, <1>4 DEF AdminInv

\* Steps of a request that leave Redis alone.
LEMMA QuietStep ==
  ASSUME AdminInv, NEW r \in Req,
         \/ \E s \in known \cup {None} : Load(r, s)
         \/ Form(r)
         \/ \E u \in User : LogIn(r, u)
         \/ LogOut(r)
         \/ Refuse(r)
         \/ Authenticate(r)
         \/ \E v \in User : Edit(r, v)
         \/ \E v \in User, o \in Changes : ChangeBegin(r, v, o)
         \/ Members(r)
         \/ EditFails(r)
         \/ Abort(r)
  PROVE  AdminInv' /\ KeepsOwners /\ KeepsDead /\ Only(r)
<1>0. RequestType /\ StoreType /\ Issued /\ Holds(r) /\ rec[r] \in Who
  BY DEF AdminInv, RequestType
<1>1. UNCHANGED Store
  BY DEF Load, Form, LogIn, LogOut, Refuse, Authenticate, Edit, ChangeBegin, Members,
         EditFails, Abort
<1>2. StoreType' /\ Issued' /\ AbsoluteLifetime' /\ KeepsOwners /\ KeepsDead
  BY <1>1, StoreSame
<1>3. owner' = owner
  BY <1>1 DEF Store, redis
<1>4. SUFFICES RequestType' /\ Only(r) /\ Holds(r)'
  BY <1>2, Assemble
<1>5. ASSUME NEW s \in known \cup {None}, Load(r, s) PROVE RequestType' /\ Only(r) /\ Holds(r)'
  <2>0. s \in Sid \cup {None} /\ "handle" \in Phases /\ "expired" \in Phases
    BY <1>0 DEF StoreType, Phases
  <2>3. None \in User \cup {None} /\ {} \in SUBSET Sid
    OBVIOUS
  <2>1. CASE s # None /\ Live(s)
    <3>1. owner[s] \in Who /\ owner[s] # None /\ s \in Sid
      BY <1>0, <2>0, <2>1 DEF StoreType, Issued
    <3>2. PICK p \in {"expired", "handle"} : Begin(r, p, "none", s, owner[s], None, {})
      BY <1>5, <2>1 DEF Load
    <3>3. p \in Phases
      BY DEF Phases
    <3>4. RequestType' /\ Only(r) /\ pc'[r] = p /\ sid'[r] = s /\ rec'[r] = owner[s]
      BY <1>0, <2>3, <3>1, <3>2, <3>3, BeginType, Names
    <3> QED BY <1>3, <3>1, <3>4 DEF Holds
  <2>2. CASE ~(s # None /\ Live(s))
    <3>1. Begin(r, "handle", "none", s, None, None, {})
      BY <1>5, <2>2 DEF Load
    <3>2. RequestType' /\ Only(r) /\ pc'[r] = "handle" /\ rec'[r] = None
      BY <1>0, <2>0, <2>3, <3>1, BeginType, Names
    <3> QED BY <3>2 DEF Holds
  <2> QED BY <2>1, <2>2
<1>6. ASSUME NEW w \in Who, NEW turn \in BOOLEAN, Answer(r, w, turn),
             rec[r] = None \/ turn \/ w \in {None, rec[r]}
      PROVE  RequestType' /\ Only(r) /\ Holds(r)'
  <2>1. RequestType' /\ Only(r) /\ pc'[r] = "respond" /\ out'[r] = w /\ rotate'[r] = turn
    BY <1>0, <1>6, AnswerType
  <2>2. rec' = rec /\ sid' = sid
    BY <1>6 DEF Answer
  <2> QED BY <1>0, <1>3, <1>6, <2>1, <2>2 DEF Holds, Create
<1>7. CASE Form(r)
  BY <1>0, <1>6, <1>7, Names DEF Form
<1>8. ASSUME NEW u \in User, LogIn(r, u) PROVE RequestType' /\ Only(r) /\ Holds(r)'
  BY <1>6, <1>8, Names DEF LogIn
<1>9. CASE LogOut(r)
  BY <1>6, <1>9, Names DEF LogOut
<1>10. CASE Refuse(r)
  BY <1>0, <1>6, <1>10 DEF Refuse
<1>11. CASE Authenticate(r)
  BY <1>0, <1>6, <1>11, Names DEF Authenticate
<1>12. KnownOf(target[r]) \subseteq Sid /\ \A v \in User : KnownOf(v) \in SUBSET Sid
  BY <1>0 DEF KnownOf, StoreType
<1>13. ASSUME NEW v \in User, Edit(r, v) PROVE RequestType' /\ Only(r) /\ Holds(r)'
  <2>1. RequestType'
    BY <1>0, <1>12, <1>13, Names DEF Edit, RequestType, Phases
  <2>2. Only(r)
    BY <1>13 DEF Edit, Only
  <2>3. pc'[r] = "members" /\ out'[r] = rec[r] /\ target'[r] = v /\ rec' = rec /\ sid' = sid
    BY <1>0, <1>13 DEF Edit, RequestType
  <2> QED BY <1>0, <1>3, <2>1, <2>2, <2>3 DEF Holds
<1>14. ASSUME NEW v \in User, NEW o \in Changes, ChangeBegin(r, v, o)
       PROVE  RequestType' /\ Only(r) /\ Holds(r)'
  <2>1. PICK p \in {"commit", "members"} : Begin(r, p, o, None, None, v, KnownOf(v))
    BY <1>14 DEF ChangeBegin
  <2>2. p \in Phases
    BY DEF Phases
  <2>3. RequestType' /\ Only(r) /\ pc'[r] = p /\ op'[r] = o /\ rec'[r] = None /\ target'[r] = v
    BY <1>0, <1>12, <2>1, <2>2, BeginType, Names
  <2> QED BY <2>3, Names DEF Holds
<1>15. CASE Members(r)
  <2>1. idx[target[r]] \in SUBSET Sid
    BY <1>0, <1>15 DEF Members, Holds, StoreType
  <2>2. RequestType'
    BY <1>0, <1>15, <2>1 DEF Members, RequestType, Phases
  <2>3. Only(r) /\ pc'[r] = "sweep"
    BY <1>0, <1>15 DEF Members, Only, RequestType
  <2> QED BY <1>0, <1>3, <1>15, <2>2, <2>3 DEF Members, Holds
<1>16. CASE EditFails(r)
  <2>1. RequestType' /\ Only(r) /\ pc'[r] = "respond"
    BY <1>0, <1>16, GotoType DEF EditFails, Phases
  <2>2. UNCHANGED <<op, sid, rec, out, rotate, nsid, target>>
    BY <1>16 DEF EditFails, Goto
  <2> QED BY <1>0, <1>3, <1>16, <2>1, <2>2 DEF EditFails, Holds
<1>17. CASE Abort(r)
  BY <1>0, <1>17, FinishType DEF Abort
<1> QED BY <1>5, <1>7, <1>8, <1>9, <1>10, <1>11, <1>13, <1>14, <1>15, <1>16, <1>17

\* The three steps that end a session: the record past its lifetime, an empty
\* session, a save that comes too late.
LEMMA EndStep ==
  ASSUME AdminInv, NEW r \in Req, DropExpired(r) \/ Clear(r) \/ SaveExpired(r)
  PROVE  AdminInv' /\ KeepsOwners /\ KeepsDead /\ Only(r)
<1>0. RequestType /\ Holds(r) /\ rec[r] \in Who /\ out[r] \in Who
  BY DEF AdminInv, RequestType
<1>1. CASE DropExpired(r)
  <2>1. sid[r] \in Sid
    BY <1>0, <1>1 DEF DropExpired, Holds
  <2>2. StoreType' /\ Issued' /\ AbsoluteLifetime' /\ KeepsOwners /\ KeepsDead
    BY <1>0, <1>1, <2>1, DeleteStep DEF DropExpired
  <2>3. RequestType' /\ Only(r) /\ pc'[r] = "handle" /\ rec'[r] = None
    BY <1>0, <1>1, Names DEF DropExpired, RequestType, Only, Phases
  <2>4. Holds(r)'
    BY <2>3 DEF Holds
  <2> QED BY <2>2, <2>3, <2>4, Assemble
<1>2. CASE Clear(r)
  <2>1. RequestType' /\ Only(r) /\ Holds(r)'
    BY <1>0, <1>2, FinishType DEF Clear
  <2>2. CASE rec[r] # None
    <3>1. sid[r] \in Sid /\ Delete(sid[r], rec[r])
      BY <1>0, <1>2, <2>2 DEF Clear, Holds
    <3>2. StoreType' /\ Issued' /\ AbsoluteLifetime' /\ KeepsOwners /\ KeepsDead
      BY <1>0, <1>2, <3>1, DeleteStep DEF Clear
    <3> QED BY <2>1, <3>2, Assemble
  <2>3. CASE rec[r] = None
    <3>1. UNCHANGED Store
      BY <1>2, <2>3 DEF Clear, Store
    <3> QED BY <2>1, <3>1, StoreSame, Assemble
  <2> QED BY <2>2, <2>3
<1>3. CASE SaveExpired(r)
  <2>1. RequestType' /\ Only(r) /\ Holds(r)'
    BY <1>0, <1>3, FinishType DEF SaveExpired
  <2>2. sid[r] \in Sid /\ Delete(sid[r], out[r])
    BY <1>0, <1>3 DEF SaveExpired, Holds, Create
  <2>3. StoreType' /\ Issued' /\ AbsoluteLifetime' /\ KeepsOwners /\ KeepsDead
    BY <1>0, <1>3, <2>2, DeleteStep DEF SaveExpired
  <2> QED BY <2>1, <2>3, Assemble
<1> QED BY <1>1, <1>2, <1>3

LEMMA ReplaceStep ==
  ASSUME AdminInv, NEW r \in Req, Replace(r)
  PROVE  AdminInv' /\ KeepsOwners /\ KeepsDead /\ Only(r)
<1>0. RequestType /\ Holds(r) /\ rec[r] \in Who
  BY DEF AdminInv, RequestType
<1>1. RequestType' /\ Only(r) /\ pc'[r] = "save"
  BY <1>0, GotoType DEF Replace, Phases
<1>2. UNCHANGED <<op, sid, rec, out, rotate, nsid, target>>
  BY DEF Replace, Goto
<1>3. (Delete(sid[r], rec[r]) /\ rec[r] # None) \/ UNCHANGED redis
  BY DEF Replace
<1>4. owner' = owner
  BY <1>3 DEF Delete, redis
<1>5. Holds(r)'
  BY <1>0, <1>1, <1>2, <1>4 DEF Replace, Holds, Create
<1>6. CASE Delete(sid[r], rec[r]) /\ rec[r] # None
  <2>1. sid[r] \in Sid
    BY <1>0, <1>6 DEF Holds
  <2>2. StoreType' /\ Issued' /\ AbsoluteLifetime' /\ KeepsOwners /\ KeepsDead
    BY <1>0, <1>6, <2>1, DeleteStep DEF Replace
  <2> QED BY <1>1, <1>5, <2>2, Assemble
<1>7. CASE UNCHANGED redis
  <2>1. UNCHANGED Store
    BY <1>7 DEF Replace, Store
  <2> QED BY <1>1, <1>5, <2>1, StoreSame, Assemble
<1> QED BY <1>3, <1>6, <1>7

LEMMA SweepStep ==
  ASSUME AdminInv, NEW r \in Req, Sweep(r)
  PROVE  AdminInv' /\ KeepsOwners /\ KeepsDead /\ Only(r)
<1>0. RequestType /\ StoreType /\ Holds(r)
  BY DEF AdminInv
<1>1. RequestType' /\ Only(r) /\ pc'[r] = "commit"
  BY <1>0, GotoType DEF Sweep, Phases
<1>2. UNCHANGED <<op, sid, rec, out, rotate, nsid, target>> /\ owner' = owner
  BY DEF Sweep, Goto
<1>3. Holds(r)'
  BY <1>0, <1>1, <1>2 DEF Sweep, Holds
<1>4. \A s \in Sid : ttl[s] \in 0..Idle /\ ttl'[s] \in {0, ttl[s]}
  BY <1>0, AdminAssumption DEF StoreType, Sweep
<1>5. StoreType'
  <2>1. ttl' \in [Sid -> 0..Idle]
    BY <1>0, AdminAssumption DEF StoreType, Sweep
  <2>2. idx' \in [User -> SUBSET Sid]
    BY <1>0 DEF StoreType, Sweep
  <2>3. idxTtl' \in [User -> 0..MaxAge]
    BY <1>0, AdminAssumption, 0 \in 0..MaxAge DEF StoreType, Sweep
  <2> QED BY <1>0, <2>1, <2>2, <2>3 DEF StoreType, Sweep
<1>6. Issued' /\ AbsoluteLifetime'
  BY <1>4 DEF AdminInv, Issued, AbsoluteLifetime, Live, Sweep
<1>7. KeepsOwners /\ KeepsDead
  BY <1>2, <1>4, AdminAssumption DEF KeepsOwners, KeepsDead, Live
<1> QED BY <1>1, <1>3, <1>5, <1>6, <1>7, Assemble

LEMMA CommitStep ==
  ASSUME AdminInv, NEW r \in Req, Commit(r)
  PROVE  AdminInv' /\ KeepsOwners /\ KeepsDead /\ Only(r)
<1>0. RequestType /\ StoreType /\ Holds(r)
  BY DEF AdminInv
<1>1. RequestType' /\ Only(r) /\ Holds(r)'
  <2>1. CASE op[r] = "edit"
    <3>1. RequestType' /\ Only(r) /\ pc'[r] = "respond"
      BY <1>0, <2>1, GotoType DEF Commit, Phases
    <3>2. UNCHANGED <<op, sid, rec, out, rotate, nsid, target>> /\ owner' = owner
      BY <2>1 DEF Commit, Goto, redis
    <3> QED BY <1>0, <2>1, <3>1, <3>2 DEF Commit, Holds
  <2>2. CASE op[r] # "edit"
    BY <1>0, <2>2, FinishType DEF Commit
  <2> QED BY <2>1, <2>2
<1>2. may' \subseteq User
  <2>1. target[r] \in User
    BY <1>0 DEF Commit, Holds
  <2> QED BY <1>0, <2>1 DEF Commit, StoreType
<1>3. StoreType'
  BY <1>0, <1>2 DEF Commit, StoreType, redis
<1>4. Issued' /\ AbsoluteLifetime'
  BY DEF AdminInv, Issued, AbsoluteLifetime, Live, Commit, redis
<1>5. \A s \in Sid : ttl[s] \in Nat
  BY <1>0, AdminAssumption DEF StoreType
<1>6. KeepsOwners /\ KeepsDead
  BY <1>5 DEF KeepsOwners, KeepsDead, Live, Commit, redis
<1> QED BY <1>1, <1>3, <1>4, <1>6, Assemble

\* touch: min(idle, left), and only for a key that is still there.
LEMMA TouchStep ==
  ASSUME AdminInv, NEW r \in Req, Touch(r)
  PROVE  AdminInv' /\ KeepsOwners /\ KeepsDead /\ Only(r)
<1>0. RequestType /\ StoreType /\ Issued /\ AbsoluteLifetime /\ Holds(r)
  BY DEF AdminInv
<1>1. RequestType' /\ Only(r) /\ Holds(r)'
  BY <1>0, FinishType DEF Touch
<1>2. sid[r] \in Sid
  BY <1>0 DEF Touch, Holds, Create
<1> DEFINE s == sid[r]
<1>3. PICK n \in Left(s) : ttl' = [ttl EXCEPT ![s] = IF Live(s) THEN Lesser(Idle, n) ELSE 0]
  BY DEF Touch
<1>4. Lesser(Idle, n) \in 0..Idle /\ age[s] + Lesser(Idle, n) <= MaxAge
  BY <1>0, <1>2, LesserRange
<1>5. StoreType'
  <2>1. ttl' \in [Sid -> 0..Idle]
    BY <1>0, <1>2, <1>3, <1>4, AdminAssumption DEF StoreType
  <2> QED BY <1>0, <2>1 DEF StoreType, Touch
<1>6. \A x \in Sid : ttl[x] \in 0..Idle
  BY <1>0 DEF StoreType
<1>7. AbsoluteLifetime'
  BY <1>0, <1>2, <1>3, <1>4, <1>6, AdminAssumption DEF AbsoluteLifetime, Live, Touch, StoreType
<1>8. Issued'
  BY <1>0, <1>2, <1>3, <1>6, AdminAssumption DEF Issued, Live, Touch, StoreType
<1>9. KeepsOwners
  BY DEF KeepsOwners, Touch
<1>10. KeepsDead
  BY <1>0, <1>2, <1>3, <1>6, AdminAssumption DEF KeepsDead, Live, StoreType
<1> QED BY <1>1, <1>5, <1>7, <1>8, <1>9, <1>10, Assemble

\* What follows the SET of s.
LEMMA WrittenStep ==
  ASSUME RequestType, StoreType, NEW r \in Req, NEW s \in Sid, pc[r] = "save", Written(r, s),
         Holds(r), owner[s] \in {None, out[r]}
  PROVE  /\ RequestType' /\ Only(r) /\ Holds(r)' /\ KeepsOwners
         /\ owner' \in [Sid -> Who] /\ owner'[s] # None
         /\ known' \subseteq Sid /\ known' \subseteq known \cup {s}
<1>1. out[r] \in Who /\ out[r] # None
  BY DEF RequestType, Holds
<1>2. owner' = [owner EXCEPT ![s] = out[r]]
  BY DEF Written
<1>3. owner' \in [Sid -> Who] /\ owner'[s] # None /\ KeepsOwners
  BY <1>1, <1>2 DEF StoreType, KeepsOwners
<1>4. CASE out[r] \in User
  <2>1. RequestType' /\ Only(r) /\ pc'[r] = "index" /\ nsid'[r] = s
    BY <1>4 DEF Written, RequestType, Only, Phases
  <2>2. rec' = rec /\ sid' = sid /\ out' = out /\ rotate' = rotate
    BY <1>4 DEF Written
  <2>3. Holds(r)'
    BY <1>2, <1>3, <1>4, <2>1, <2>2 DEF Holds, KeepsOwners, StoreType
  <2>4. known' = known
    BY <1>4 DEF Written
  <2> QED BY <1>3, <2>1, <2>3, <2>4 DEF StoreType
<1>5. CASE out[r] \notin User
  <2>1. Finish(r) /\ known' = known \cup {s}
    BY <1>5 DEF Written, Deliver
  <2> QED BY <1>3, <2>1, FinishType DEF StoreType
<1> QED BY <1>4, <1>5

LEMMA SaveNewStep ==
  ASSUME AdminInv, NEW r \in Req, NEW s \in Sid, SaveNew(r, s)
  PROVE  AdminInv' /\ KeepsOwners /\ KeepsDead /\ Only(r)
<1>0. RequestType /\ StoreType /\ Issued /\ AbsoluteLifetime /\ Holds(r)
  BY DEF AdminInv
<1>1. /\ RequestType' /\ Only(r) /\ Holds(r)' /\ KeepsOwners
      /\ owner' \in [Sid -> Who] /\ owner'[s] # None
      /\ known' \subseteq Sid /\ known' \subseteq known \cup {s}
  BY <1>0, WrittenStep DEF SaveNew
<1>2. PICK n \in Left(s) : ttl' = [ttl EXCEPT ![s] = Lesser(Idle, n)]
  BY DEF SaveNew
<1>3. Lesser(Idle, n) \in 0..Idle /\ age[s] + Lesser(Idle, n) <= MaxAge
  BY <1>0, LesserRange
<1>4. ttl' \in [Sid -> 0..Idle]
  BY <1>0, <1>2, <1>3 DEF StoreType
<1>5. StoreType'
  BY <1>0, <1>1, <1>4 DEF StoreType, SaveNew
<1>6. \A x \in Sid : ttl[x] \in 0..Idle /\ (x # s => ttl'[x] = ttl[x])
  BY <1>0, <1>2 DEF StoreType
<1>7. AbsoluteLifetime'
  BY <1>0, <1>2, <1>3, <1>6 DEF AbsoluteLifetime, Live, SaveNew, StoreType
<1>8. Issued'
  BY <1>0, <1>1, <1>6 DEF Issued, Live, KeepsOwners
<1>9. KeepsDead
  BY <1>6, AdminAssumption DEF KeepsDead, Live, SaveNew
<1> QED BY <1>1, <1>5, <1>7, <1>8, <1>9, Assemble

\* SET XX brings nothing back, and writes the user the session already has.
LEMMA SaveOverStep ==
  ASSUME AdminInv, NEW r \in Req, SaveOver(r)
  PROVE  AdminInv' /\ KeepsOwners /\ KeepsDead /\ Only(r)
<1>0. RequestType /\ StoreType /\ Issued /\ AbsoluteLifetime /\ Holds(r)
  BY DEF AdminInv
<1> DEFINE s == sid[r]
<1>1. s \in Sid /\ owner[s] = out[r]
  BY <1>0 DEF SaveOver, Holds, Create
<1>2. PICK n \in Left(s) : ttl' = [ttl EXCEPT ![s] = IF Live(s) THEN Lesser(Idle, n) ELSE 0]
  BY DEF SaveOver
<1>3. Lesser(Idle, n) \in 0..Idle /\ age[s] + Lesser(Idle, n) <= MaxAge
  BY <1>0, <1>1, LesserRange
<1>4. ttl' \in [Sid -> 0..Idle]
  BY <1>0, <1>1, <1>2, <1>3, AdminAssumption DEF StoreType
<1>5. \A x \in Sid : ttl[x] \in 0..Idle
  BY <1>0 DEF StoreType
<1>6. KeepsDead
  BY <1>0, <1>1, <1>2, <1>5, AdminAssumption DEF KeepsDead, Live, StoreType
<1>7. AbsoluteLifetime'
  BY <1>0, <1>1, <1>2, <1>3, <1>5, AdminAssumption DEF AbsoluteLifetime, Live, SaveOver, StoreType
<1>8. CASE Live(s)
  <2>1. /\ RequestType' /\ Only(r) /\ Holds(r)' /\ KeepsOwners
        /\ owner' \in [Sid -> Who] /\ owner'[s] # None
        /\ known' \subseteq Sid /\ known' \subseteq known \cup {s}
    BY <1>0, <1>1, <1>8, WrittenStep DEF SaveOver
  <2>2. StoreType'
    BY <1>0, <1>4, <2>1 DEF StoreType, SaveOver
  <2>3. \A x \in Sid : x # s => ttl'[x] = ttl[x]
    BY <1>0, <1>1, <1>2 DEF StoreType
  <2>4. Issued'
    BY <1>0, <2>1, <2>3 DEF Issued, Live, KeepsOwners
  <2> QED BY <1>6, <1>7, <2>1, <2>2, <2>4, Assemble
<1>9. CASE ~Live(s)
  <2>1. Finish(r) /\ UNCHANGED <<owner, known>>
    BY <1>9 DEF SaveOver
  <2>2. RequestType' /\ Only(r) /\ Holds(r)'
    BY <1>0, <2>1, FinishType
  <2>3. StoreType'
    BY <1>0, <1>4, <2>1 DEF StoreType, SaveOver
  <2>4. Issued'
    BY <1>0, <1>1, <1>2, <1>5, <1>9, <2>1, AdminAssumption DEF Issued, Live, StoreType
  <2>5. KeepsOwners
    BY <2>1 DEF KeepsOwners
  <2> QED BY <1>6, <1>7, <2>2, <2>3, <2>4, <2>5, Assemble
<1> QED BY <1>8, <1>9

LEMMA IndexStep ==
  ASSUME AdminInv, NEW r \in Req, Index(r)
  PROVE  AdminInv' /\ KeepsOwners /\ KeepsDead /\ Only(r)
<1>0. RequestType /\ StoreType /\ Issued /\ Holds(r)
  BY DEF AdminInv
<1>1. RequestType' /\ Only(r) /\ Holds(r)'
  BY <1>0, FinishType DEF Index, Deliver
<1>2. out[r] \in User /\ nsid[r] \in Sid
  BY <1>0 DEF Index, Holds
<1>3. known' = known \cup {nsid[r]} /\ UNCHANGED <<ttl, owner, age, may>>
  BY DEF Index, Deliver
<1>4. StoreType'
  <2>1. idx' \in [User -> SUBSET Sid] /\ idxTtl' \in [User -> 0..MaxAge]
    BY <1>0, <1>2, AdminAssumption DEF Index, StoreType
  <2>2. raced' \subseteq Sid /\ known' \subseteq Sid
    BY <1>0, <1>2, <1>3 DEF Index, StoreType
  <2> QED BY <1>0, <1>3, <2>1, <2>2 DEF StoreType
<1>5. owner[nsid[r]] # None
  BY <1>0, AdminAssumption DEF Index, Holds
<1>6. Issued' /\ AbsoluteLifetime'
  BY <1>0, <1>3, <1>5 DEF AdminInv, Issued, AbsoluteLifetime, Live
<1>7. \A s \in Sid : ttl[s] \in Nat
  BY <1>0, AdminAssumption DEF StoreType
<1>8. KeepsOwners /\ KeepsDead
  BY <1>3, <1>7 DEF KeepsOwners, KeepsDead, Live
<1> QED BY <1>1, <1>4, <1>6, <1>8, Assemble

\* Time: what is left of the TTL pays for the age.
LEMMA TickStep == AdminInv /\ Tick => AdminInv' /\ KeepsOwners /\ KeepsDead
<1> SUFFICES ASSUME AdminInv, Tick PROVE AdminInv' /\ KeepsOwners /\ KeepsDead
  OBVIOUS
<1>0. RequestType /\ StoreType /\ Issued /\ AbsoluteLifetime /\ owner' = owner /\ known' = known
  BY DEF AdminInv, Tick
<1>1. ASSUME NEW s \in Sid
      PROVE  /\ ttl[s] \in 0..Idle /\ age[s] \in 0..MaxAge
             /\ ttl'[s] = Down(ttl[s]) /\ ttl'[s] \in 0..Idle
             /\ age'[s] = IF Live(s) THEN age[s] + 1 ELSE age[s]
  BY <1>0, <1>1, AdminAssumption DEF Tick, StoreType, Down
<1>2. ASSUME NEW s \in Sid PROVE age'[s] \in 0..MaxAge /\ (Live(s)' => age'[s] + ttl'[s] <= MaxAge)
  BY <1>0, <1>1, <1>2, AdminAssumption DEF AbsoluteLifetime, Live, Down
<1>3. StoreType'
  <2>1. ttl' \in [Sid -> 0..Idle]
    BY <1>1 DEF Tick
  <2>2. age' \in [Sid -> 0..MaxAge]
    BY <1>2 DEF Tick
  <2>3. idx' \in [User -> SUBSET Sid]
    BY <1>0 DEF Tick, StoreType
  <2>4. idxTtl' \in [User -> 0..MaxAge]
    BY <1>0, AdminAssumption DEF Tick, StoreType, Down
  <2> QED BY <1>0, <2>1, <2>2, <2>3, <2>4 DEF Tick, StoreType
<1>4. AbsoluteLifetime'
  BY <1>2 DEF AbsoluteLifetime, Live
<1>5. Issued'
  BY <1>0, <1>1 DEF Issued, Live, Down
<1>6. RequestType'
  BY <1>0 DEF RequestType, Tick, request
<1>7. \A r \in Req : Holds(r)'
  BY <1>0 DEF AdminInv, Holds, Create, Tick, request
<1>8. KeepsOwners /\ KeepsDead
  BY <1>0, <1>1 DEF KeepsOwners, KeepsDead, Live, Down
<1> QED BY <1>3, <1>4, <1>5, <1>6, <1>7, <1>8 DEF AdminInv

LEMMA AdminStep == AdminInv /\ [AdminNext]_vars => AdminInv' /\ KeepsOwners /\ KeepsDead
<1> SUFFICES ASSUME AdminInv, [AdminNext]_vars PROVE AdminInv' /\ KeepsOwners /\ KeepsDead
  OBVIOUS
<1>1. CASE UNCHANGED vars
  <2>1. StoreType' /\ Issued' /\ AbsoluteLifetime' /\ KeepsOwners /\ KeepsDead
    BY <1>1, StoreSame DEF vars, Store
  <2>2. RequestType' /\ \A r \in Req : Holds(r)'
    BY <1>1 DEF AdminInv, RequestType, Holds, Create, vars, request, redis
  <2> QED BY <2>1, <2>2 DEF AdminInv
<1>2. CASE AdminNext
  BY <1>2, QuietStep, EndStep, ReplaceStep, SweepStep, CommitStep, TouchStep, SaveNewStep,
     SaveOverStep, IndexStep, TickStep DEF AdminNext
<1> QED BY <1>1, <1>2

-----------------------------------------------------------------------------
LEMMA AdminInvariant == AdminSpec => []AdminInv
<1>1. AdminInv /\ [AdminNext]_vars => AdminInv'
  BY AdminStep
<1> QED BY <1>1, AdminInitially, PTL DEF AdminSpec

\* Every variable of the store and of the requests keeps its type.
THEOREM AdminTypeCorrect == AdminSpec => []AdminTypeOK
<1>1. AdminInv => AdminTypeOK
  BY TypeParts DEF AdminInv
<1> QED BY <1>1, AdminInvariant, PTL

\* No sequence of requests keeps a session alive beyond MaxAge after its
\* creation: every EXPIRE and SET takes min(idle, what is left).
THEOREM LifetimeIsAbsolute == AdminSpec => []AbsoluteLifetime
<1>1. AdminInv => AbsoluteLifetime
  BY DEF AdminInv
<1> QED BY <1>1, AdminInvariant, PTL

\* No request brings a session back that was logged out, revoked or expired
\* after the request had loaded it: EXPIRE and SET XX need the key.
THEOREM DeadSessionsStayDead == AdminSpec => DeadStaysDead
<1>1. AdminInv /\ [AdminNext]_vars
        => [\A s \in Sid : owner[s] # None /\ ~Live(s) => ttl'[s] = 0]_vars
  BY AdminStep DEF KeepsDead
<1> QED BY <1>1, AdminInvariant, PTL DEF AdminSpec, DeadStaysDead

\* The login's rotation: no session id ever changes hands.
THEOREM SessionOwnerIsFinal == AdminSpec => OwnerIsFinal
<1>1. AdminInv /\ [AdminNext]_vars
        => [\A s \in Sid : owner[s] # None => owner'[s] = owner[s]]_vars
  BY AdminStep DEF KeepsOwners
<1> QED BY <1>1, AdminInvariant, PTL DEF AdminSpec, OwnerIsFinal

-----------------------------------------------------------------------------
(***************************************************************************)
(* What revoke_user relies on.  The index of a user outlives the sessions  *)
(* in it, since SADD and EXPIRE come with a lifetime no session has left;  *)
(* between SMEMBERS and DEL a session can only enter the index in the gap  *)
(* that raced records.                                                     *)
(***************************************************************************)
Indexed ==
  \A s \in known : Live(s) /\ owner[s] \in User =>
    \/ s \in raced
    \/ s \in idx[owner[s]] /\ MaxAge <= idxTtl[owner[s]] + age[s]

Ending(r) ==
  /\ pc[r] \in {"members", "sweep", "commit"} => \A s \in old[r] : s \in known /\ owner[s] = target[r]
  /\ pc[r] = "sweep" => \A s \in idx[target[r]] : s \in keys[r] \cup raced
  /\ pc[r] = "sweep" => \A s \in old[r] : Live(s) => s \in keys[r] \cup raced
  /\ pc[r] = "commit" => \A s \in old[r] : Live(s) => s \in raced \/ op[r] = "grant"

EndInv == Indexed /\ \A r \in Req : Ending(r)

\* What every step has in common: records of cookies and races only grow, and
\* an index that has been read gains no session that raced does not name.
Grows == /\ known \subseteq known' /\ raced \subseteq raced'
         /\ KeepsOwners /\ KeepsDead

NoneSlipsIn(q) == pc[q] = "sweep" => \A s \in idx'[target[q]] : s \in idx[target[q]] \cup raced'

LEMMA EndingKept ==
  ASSUME AdminInv, AdminInv', Grows, NEW q \in Req, Ending(q), NoneSlipsIn(q),
         pc'[q] = pc[q], op'[q] = op[q], target'[q] = target[q], keys'[q] = keys[q], old'[q] = old[q]
  PROVE  Ending(q)'
<1>1. CASE pc[q] \in {"members", "sweep", "commit"}
  <2>1. target[q] \in User /\ target[q] # None /\ old[q] \subseteq Sid
    BY <1>1, AdminAssumption DEF AdminInv, Holds, RequestType
  <2>2. \A s \in old[q] : s \in known' /\ owner'[s] = target[q] /\ owner[s] # None
    BY <1>1, <2>1 DEF Ending, Grows, KeepsOwners
  <2>3. \A s \in Sid : ttl[s] \in Nat /\ ttl'[s] \in Nat
    BY AdminAssumption DEF AdminInv, StoreType
  <2>4. \A s \in old[q] : Live(s)' => Live(s)
    BY <2>1, <2>2, <2>3 DEF Grows, KeepsDead, Live
  <2>5. pc[q] = "sweep" => \A s \in idx'[target[q]] : s \in keys[q] \cup raced'
    BY DEF Ending, NoneSlipsIn, Grows
  <2> QED BY <2>2, <2>4, <2>5 DEF Ending, Grows
<1>2. CASE pc[q] \notin {"members", "sweep", "commit"}
  BY <1>2 DEF Ending
<1> QED BY <1>1, <1>2

\* A session of a cookie stays indexed when no index loses it or its time.
LEMMA IndexedKept ==
  ASSUME AdminInv, AdminInv', Grows, Indexed, age' = age, UNCHANGED idxTtl,
         \A s \in known' : s \in known \/ owner'[s] \notin User,
         \A s \in known : Live(s)' /\ owner[s] \in User /\ s \in idx[owner[s]] => s \in idx'[owner[s]]
  PROVE  Indexed'
<1> SUFFICES ASSUME NEW s \in known', Live(s)', owner'[s] \in User
             PROVE  s \in raced' \/ (s \in idx'[owner'[s]] /\ MaxAge <= idxTtl'[owner'[s]] + age'[s])
  BY DEF Indexed
<1>1. s \in known /\ s \in Sid /\ owner[s] # None
  BY DEF AdminInv, StoreType, Issued
<1>2. owner'[s] = owner[s]
  BY <1>1 DEF Grows, KeepsOwners
<1>3. ttl[s] \in Nat /\ ttl'[s] \in Nat
  BY <1>1, AdminAssumption DEF AdminInv, StoreType
<1>4. Live(s)
  BY <1>1, <1>3 DEF Grows, KeepsDead, Live
<1> QED BY <1>1, <1>2, <1>4 DEF Indexed, Grows

\* A step of request r that touches no sweep, from its effects.
LEMMA EndAssemble ==
  ASSUME AdminInv, AdminInv', EndInv, NEW r \in Req, Only(r), Grows,
         \A q \in Req : NoneSlipsIn(q), Indexed', Ending(r)'
  PROVE  EndInv'
<1>1. \A q \in Req \ {r} : Ending(q)'
  BY EndingKept DEF EndInv, Only
<1> QED BY <1>1 DEF EndInv

LEMMA Idles ==
  ASSUME NEW r \in Req, pc'[r] \notin {"members", "sweep", "commit"}
  PROVE  Ending(r)'
  BY DEF Ending

LEMMA EndQuiet ==
  ASSUME AdminInv, EndInv, NEW r \in Req,
         \/ \E s \in known \cup {None} : Load(r, s)
         \/ Form(r)
         \/ \E u \in User : LogIn(r, u)
         \/ LogOut(r)
         \/ Refuse(r)
         \/ Authenticate(r)
         \/ \E v \in User : Edit(r, v)
         \/ \E v \in User, o \in Changes : ChangeBegin(r, v, o)
         \/ Members(r)
         \/ EditFails(r)
         \/ Abort(r)
  PROVE  EndInv'
<1>0. AdminInv' /\ KeepsOwners /\ KeepsDead /\ Only(r) /\ RequestType /\ Holds(r) /\ Ending(r) /\ Indexed
  BY QuietStep DEF AdminInv, EndInv
<1>1. UNCHANGED <<redis, known, may, raced>>
  BY DEF Load, Form, LogIn, LogOut, Refuse, Authenticate, Edit, ChangeBegin, Members,
         EditFails, Abort, Store
<1>2. Grows /\ (\A q \in Req : NoneSlipsIn(q)) /\ Indexed'
  BY <1>0, <1>1 DEF Grows, NoneSlipsIn, redis, Indexed, Live
<1>3. SUFFICES Ending(r)'
  BY <1>0, <1>2, EndAssemble
<1>4. ASSUME NEW w, NEW turn, Answer(r, w, turn) PROVE Ending(r)'
  BY <1>0, <1>4, Idles DEF Answer, RequestType
<1>5. ASSUME NEW s \in known \cup {None}, Load(r, s) PROVE Ending(r)'
  <2>1. pc'[r] \in {"expired", "handle"}
    BY <1>0, <1>5 DEF Load, Begin, RequestType
  <2> QED BY <2>1, Idles
<1>6. CASE Form(r) \/ (\E u \in User : LogIn(r, u)) \/ LogOut(r) \/ Refuse(r) \/ Authenticate(r)
  BY <1>4, <1>6 DEF Form, LogIn, LogOut, Refuse, Authenticate
<1>7. ASSUME NEW v \in User, Edit(r, v) PROVE Ending(r)'
  <2>1. pc'[r] = "members" /\ old'[r] = KnownOf(v) /\ target'[r] = v
    BY <1>0, <1>7 DEF Edit, RequestType
  <2> QED BY <1>1, <2>1 DEF Ending, KnownOf, redis
<1>8. ASSUME NEW v \in User, NEW o \in Changes, ChangeBegin(r, v, o) PROVE Ending(r)'
  <2>1. /\ pc'[r] = IF o = "grant" THEN "commit" ELSE "members"
        /\ old'[r] = KnownOf(v) /\ target'[r] = v /\ op'[r] = o
    BY <1>0, <1>8 DEF ChangeBegin, Begin, RequestType
  <2> QED BY <1>1, <2>1 DEF Ending, KnownOf, redis
<1>9. CASE Members(r)
  <2>1. /\ pc[r] = "members" /\ pc'[r] = "sweep" /\ keys'[r] = idx[target[r]]
        /\ target' = target /\ old' = old
    BY <1>0, <1>9 DEF Members, RequestType
  <2>2. target[r] \in User
    BY <1>0, <2>1 DEF Holds
  <2>3. \A s \in old[r] : Live(s) => s \in idx[target[r]] \cup raced
    BY <1>0, <2>1, <2>2 DEF Ending, Indexed
  <2> QED BY <1>0, <1>1, <2>1, <2>3 DEF Ending, redis, Live
<1>10. CASE EditFails(r)
  <2>1. pc'[r] = "respond"
    BY <1>0, <1>10 DEF EditFails, Goto, RequestType
  <2> QED BY <2>1, Idles
<1>11. CASE Abort(r)
  <2>1. pc'[r] = "idle"
    BY <1>0, <1>11 DEF Abort, Finish, Begin, RequestType
  <2> QED BY <2>1, Idles
<1> QED BY <1>5, <1>6, <1>7, <1>8, <1>9, <1>10, <1>11

\* Steps that take sessions out of Redis one by one, or leave it alone.
LEMMA EndRemoval ==
  ASSUME AdminInv, EndInv, NEW r \in Req, DropExpired(r) \/ Clear(r) \/ SaveExpired(r) \/ Replace(r)
  PROVE  EndInv'
<1>0. AdminInv' /\ KeepsOwners /\ KeepsDead /\ Only(r) /\ RequestType /\ StoreType /\ Indexed
  BY EndStep, ReplaceStep DEF AdminInv, EndInv
<1>1. pc'[r] \in {"handle", "idle", "save"} /\ UNCHANGED <<known, may, raced>>
  BY <1>0 DEF DropExpired, Clear, SaveExpired, Replace, Finish, Begin, Goto, RequestType
<1>2. (\E s \in Sid \cup {None}, w \in Who : Delete(s, w)) \/ UNCHANGED redis
  BY <1>0 DEF DropExpired, Clear, SaveExpired, Replace, RequestType
<1>3. Grows
  BY <1>0, <1>1 DEF Grows
<1>4. /\ age' = age /\ idxTtl' = idxTtl /\ owner' = owner
      /\ \A u \in User : idx'[u] \subseteq idx[u]
      /\ \A s \in Sid, u \in User : Live(s)' /\ s \in idx[u] => s \in idx'[u]
  <2>1. CASE UNCHANGED redis
    BY <2>1 DEF redis
  <2>2. ASSUME NEW s \in Sid \cup {None}, NEW w \in Who, Delete(s, w)
        PROVE  /\ \A u \in User : idx'[u] \subseteq idx[u]
               /\ \A x \in Sid, u \in User : Live(x)' /\ x \in idx[u] => x \in idx'[u]
    <3>1. \A x \in Sid : x = s => ttl'[x] = 0
      BY <1>0, <2>2 DEF Delete, StoreType
    <3> QED BY <1>0, <2>2, <3>1 DEF Delete, Live, StoreType
  <2>3. UNCHANGED <<age, idxTtl, owner>>
    BY <1>2 DEF Delete, redis
  <2> QED BY <1>2, <2>1, <2>2, <2>3
<1>5. \A q \in Req : NoneSlipsIn(q)
  BY <1>4 DEF AdminInv, Holds, NoneSlipsIn
<1>6. Indexed'
  BY <1>0, <1>1, <1>3, <1>4, IndexedKept DEF StoreType
<1>7. Ending(r)'
  BY <1>1, Idles
<1> QED BY <1>0, <1>3, <1>5, <1>6, <1>7, EndAssemble

\* Steps that set the TTL of one session, or no TTL.
LEMMA EndWriting ==
  ASSUME AdminInv, EndInv, NEW r \in Req,
         Touch(r) \/ (\E s \in Sid : SaveNew(r, s)) \/ SaveOver(r) \/ Commit(r)
  PROVE  EndInv'
<1>0. AdminInv' /\ KeepsOwners /\ KeepsDead /\ Only(r) /\ RequestType /\ StoreType /\ Indexed /\ Issued
  BY TouchStep, SaveNewStep, SaveOverStep, CommitStep DEF AdminInv, EndInv
<1>1. UNCHANGED <<age, idx, idxTtl, raced>>
  BY DEF Touch, SaveNew, SaveOver, Commit, redis
<1>2. ASSUME NEW s \in Sid, Written(r, s)
      PROVE  /\ pc'[r] \in {"index", "idle"} /\ known \subseteq known'
             /\ \A x \in known' : x \in known \/ owner'[x] \notin User
  <2>1. owner'[s] = out[r]
    BY <1>0, <1>2 DEF Written, StoreType
  <2> QED BY <1>0, <1>2, <2>1 DEF Written, Deliver, Finish, Begin, RequestType
<1>3. /\ pc'[r] \in {"index", "idle", "respond"} /\ known \subseteq known'
      /\ \A x \in known' : x \in known \/ owner'[x] \notin User
  <2>1. CASE Touch(r) \/ Commit(r)
    BY <1>0, <2>1 DEF Touch, Commit, Finish, Begin, Goto, RequestType
  <2>2. ASSUME NEW s \in Sid, SaveNew(r, s)
        PROVE  /\ pc'[r] \in {"index", "idle", "respond"} /\ known \subseteq known'
               /\ \A x \in known' : x \in known \/ owner'[x] \notin User
    BY <1>2, <2>2 DEF SaveNew
  <2>3. CASE SaveOver(r)
    <3>1. sid[r] \in Sid
      BY <2>3 DEF AdminInv, SaveOver, Holds, Create
    <3>2. CASE Live(sid[r])
      BY <1>2, <2>3, <3>1, <3>2 DEF SaveOver
    <3>3. CASE ~Live(sid[r])
      BY <1>0, <2>3, <3>3 DEF SaveOver, Finish, Begin, RequestType
    <3> QED BY <3>2, <3>3
  <2> QED BY <2>1, <2>2, <2>3
<1>4. Grows /\ \A q \in Req : NoneSlipsIn(q)
  BY <1>0, <1>1, <1>3 DEF Grows, NoneSlipsIn
<1>5. Indexed'
  BY <1>0, <1>1, <1>3, <1>4, IndexedKept
<1>6. Ending(r)'
  BY <1>3, Idles
<1> QED BY <1>0, <1>4, <1>5, <1>6, EndAssemble

\* The DEL: of the sessions that were the user's when the change began only
\* those indexed in the gap are left.
LEMMA EndSweep ==
  ASSUME AdminInv, EndInv, NEW r \in Req, Sweep(r)
  PROVE  EndInv'
<1>0. /\ AdminInv' /\ KeepsOwners /\ KeepsDead /\ Only(r)
      /\ RequestType /\ StoreType /\ Indexed /\ Ending(r) /\ Issued
  BY SweepStep DEF AdminInv, EndInv
<1>1. target[r] \in User
  BY DEF AdminInv, Holds, Sweep
<1>2. /\ \A s \in Sid : ttl'[s] = IF s \in keys[r] THEN 0 ELSE ttl[s]
      /\ \A u \in User : idx'[u] = IF u = target[r] THEN {} ELSE idx[u]
      /\ \A u \in User \ {target[r]} : idxTtl'[u] = idxTtl[u]
      /\ UNCHANGED <<owner, age, known, raced, op, target, keys, old>>
      /\ pc[r] = "sweep" /\ pc'[r] = "commit"
  BY <1>0, <1>1 DEF Sweep, Goto, StoreType, RequestType
<1>3. Grows
  BY <1>0, <1>2 DEF Grows
<1>4. \A q \in Req : NoneSlipsIn(q)
  BY <1>2 DEF AdminInv, Holds, NoneSlipsIn
<1>5. \A s \in Sid : Live(s)' => Live(s) /\ s \notin keys[r]
  BY <1>2 DEF Live
<1>6. Indexed'
  <2> SUFFICES ASSUME NEW s \in known, Live(s)', owner[s] \in User
               PROVE  \/ s \in raced
                      \/ s \in idx'[owner[s]] /\ MaxAge <= idxTtl'[owner[s]] + age[s]
    BY <1>2 DEF Indexed
  <2>1. s \in Sid /\ Live(s) /\ s \notin keys[r]
    BY <1>0, <1>5 DEF StoreType
  <2>2. CASE owner[s] = target[r]
    BY <1>0, <1>2, <2>1, <2>2 DEF Indexed, Ending
  <2>3. CASE owner[s] # target[r]
    BY <1>0, <1>2, <2>1, <2>3 DEF Indexed
  <2> QED BY <2>2, <2>3
<1>7. Ending(r)'
  <2>1. old[r] \subseteq Sid
    BY <1>0 DEF RequestType
  <2> QED BY <1>0, <1>2, <1>5, <2>1 DEF Ending
<1> QED BY <1>0, <1>3, <1>4, <1>6, <1>7, EndAssemble

\* A session enters the index before its cookie goes out.
LEMMA EndIndex ==
  ASSUME AdminInv, EndInv, NEW r \in Req, Index(r)
  PROVE  EndInv'
<1>0. AdminInv' /\ KeepsOwners /\ KeepsDead /\ Only(r) /\ RequestType /\ StoreType /\ Indexed
  BY IndexStep DEF AdminInv, EndInv
<1>1. out[r] \in User /\ nsid[r] \in Sid /\ owner[nsid[r]] = out[r]
  BY DEF AdminInv, Holds, Index
<1>2. /\ \A u \in User : idx'[u] = IF u = out[r] THEN idx[u] \cup {nsid[r]} ELSE idx[u]
      /\ \A u \in User : idxTtl'[u] = IF u = out[r] THEN MaxAge ELSE idxTtl[u]
      /\ known' = known \cup {nsid[r]} /\ UNCHANGED <<ttl, owner, age>>
      /\ raced \subseteq raced'
      /\ (\E q \in Req : pc[q] = "sweep" /\ target[q] = out[r]) => nsid[r] \in raced'
  BY <1>0, <1>1 DEF Index, Deliver, StoreType
<1>3. Grows
  BY <1>0, <1>2 DEF Grows
<1>4. \A q \in Req : NoneSlipsIn(q)
  <2> SUFFICES ASSUME NEW q \in Req, pc[q] = "sweep", NEW s \in idx'[target[q]]
               PROVE  s \in idx[target[q]] \cup raced'
    BY DEF NoneSlipsIn
  <2>1. target[q] \in User
    BY DEF AdminInv, Holds
  <2> QED BY <1>2, <2>1
<1>5. \A u \in User, s \in Sid : idxTtl[u] \in 0..MaxAge /\ age[s] \in Nat
  BY <1>0, AdminAssumption DEF StoreType
<1>6. Indexed'
  <2> SUFFICES ASSUME NEW s \in known \cup {nsid[r]}, Live(s), owner[s] \in User
               PROVE  \/ s \in raced'
                      \/ s \in idx'[owner[s]] /\ MaxAge <= idxTtl'[owner[s]] + age[s]
    BY <1>2 DEF Indexed, Live
  <2>1. s \in Sid
    BY <1>0, <1>1 DEF StoreType
  <2>0. age[s] \in Nat /\ idxTtl[owner[s]] \in 0..MaxAge /\ MaxAge \in Nat
    BY <1>5, <2>1, AdminAssumption
  <2>2. CASE s = nsid[r]
    <3>1. owner[s] = out[r] /\ s \in idx'[owner[s]]
      BY <1>1, <1>2, <2>2
    <3>2. idxTtl'[owner[s]] = MaxAge
      BY <1>1, <1>2, <3>1
    <3>3. MaxAge <= MaxAge + age[s]
      BY <2>0
    <3> QED BY <3>1, <3>2, <3>3
  <2>3. CASE s \in known
    <3>1. idxTtl[owner[s]] <= idxTtl'[owner[s]] /\ idxTtl'[owner[s]] \in Nat
      BY <1>2, <2>0
    <3>2. s \in idx[owner[s]] => s \in idx'[owner[s]]
      BY <1>2
    <3>3. CASE s \in raced
      BY <1>2, <3>3
    <3>4. CASE s \in idx[owner[s]] /\ MaxAge <= idxTtl[owner[s]] + age[s]
      BY <2>0, <3>1, <3>2, <3>4
    <3> QED BY <1>0, <2>3, <3>3, <3>4 DEF Indexed
  <2> QED BY <2>2, <2>3
<1>7. Ending(r)'
  <2>1. pc'[r] = "idle"
    BY <1>0 DEF Index, Deliver, Finish, Begin, RequestType
  <2> QED BY <2>1, Idles
<1> QED BY <1>0, <1>3, <1>4, <1>6, <1>7, EndAssemble

\* Time: a live session is younger than MaxAge, so its index is not gone.
LEMMA EndTick == AdminInv /\ EndInv /\ Tick => EndInv'
<1> SUFFICES ASSUME AdminInv, EndInv, Tick PROVE EndInv'
  OBVIOUS
<1>0. AdminInv' /\ KeepsOwners /\ KeepsDead /\ StoreType /\ Indexed /\ AbsoluteLifetime
  BY TickStep DEF AdminInv, EndInv
<1>1. /\ \A s \in Sid : /\ ttl[s] \in Nat /\ ttl'[s] = Down(ttl[s]) /\ age[s] \in Nat
                        /\ age'[s] = IF Live(s) THEN age[s] + 1 ELSE age[s]
      /\ \A u \in User : /\ idxTtl[u] \in Nat /\ idxTtl'[u] = Down(idxTtl[u])
                         /\ idx'[u] = IF idxTtl[u] <= 1 THEN {} ELSE idx[u]
      /\ UNCHANGED <<owner, known, raced, pc, op, target, keys, old>>
  BY <1>0, AdminAssumption DEF Tick, StoreType, request
<1>2. Grows
  BY <1>0, <1>1 DEF Grows
<1>3. \A q \in Req : NoneSlipsIn(q)
  BY <1>1 DEF AdminInv, Holds, NoneSlipsIn
<1>4. Indexed'
  <2> SUFFICES ASSUME NEW s \in known, Live(s)', owner[s] \in User
               PROVE  \/ s \in raced
                      \/ s \in idx'[owner[s]] /\ MaxAge <= idxTtl'[owner[s]] + age'[s]
    BY <1>1 DEF Indexed
  <2>1. s \in Sid
    BY <1>0 DEF StoreType
  <2>2. ttl[s] >= 2 /\ Live(s) /\ age'[s] = age[s] + 1
    BY <1>1, <2>1 DEF Live, Down
  <2>3. age[s] + 2 <= MaxAge
    BY <1>0, <1>1, <2>1, <2>2, AdminAssumption DEF AbsoluteLifetime
  <2>4. CASE s \in raced
    BY <2>4
  <2>5. CASE s \in idx[owner[s]] /\ MaxAge <= idxTtl[owner[s]] + age[s]
    <3>1. idxTtl[owner[s]] >= 2
      BY <1>1, <2>1, <2>3, <2>5, AdminAssumption
    <3>2. idx'[owner[s]] = idx[owner[s]] /\ idxTtl'[owner[s]] = idxTtl[owner[s]] - 1
      BY <1>1, <3>1 DEF Down
    <3> QED BY <1>1, <2>1, <2>2, <2>5, <3>1, <3>2, AdminAssumption
  <2> QED BY <1>0, <2>2, <2>4, <2>5 DEF Indexed
<1>5. \A q \in Req : Ending(q)'
  BY <1>0, <1>1, <1>2, <1>3, EndingKept DEF EndInv
<1> QED BY <1>4, <1>5 DEF EndInv

LEMMA EndInvStep == AdminInv /\ EndInv /\ [AdminNext]_vars => EndInv'
<1> SUFFICES ASSUME AdminInv, EndInv, [AdminNext]_vars PROVE EndInv'
  OBVIOUS
<1>1. CASE UNCHANGED vars
  BY <1>1 DEF vars, request, redis, EndInv, Indexed, Ending, Live
<1>2. CASE AdminNext
  BY <1>2, EndQuiet, EndRemoval, EndWriting, EndSweep, EndIndex, EndTick DEF AdminNext
<1> QED BY <1>1, <1>2

LEMMA EndInvariant == AdminSpec => [](AdminInv /\ EndInv)
<1>1. AdminInit => EndInv
  BY DEF AdminInit, EndInv, Indexed, Ending
<1>2. AdminInv /\ EndInv /\ [AdminNext]_vars => AdminInv' /\ EndInv'
  BY AdminStep, EndInvStep
<1> QED BY <1>1, <1>2, AdminInitially, PTL DEF AdminSpec

\* revoke_user finds every session a browser can use, for as long as it can be
\* used: no path of saves, touches, deletes and expiries loses one.
THEOREM IndexFindsTheUsable == AdminSpec => []UsableIndexed
<1>1. AdminInv /\ EndInv => UsableIndexed
  <2> SUFFICES ASSUME AdminInv, Indexed, NEW s \in known, Live(s), owner[s] \in User
               PROVE  s \in raced \/ (s \in idx[owner[s]] /\ idxTtl[owner[s]] >= ttl[s])
    BY DEF EndInv, UsableIndexed
  <2>1. s \in Sid
    BY DEF AdminInv, StoreType
  <2>2. age[s] \in Nat /\ ttl[s] \in Nat /\ idxTtl[owner[s]] \in Nat
    BY <2>1, AdminAssumption DEF AdminInv, StoreType
  <2>3. age[s] + ttl[s] <= MaxAge
    BY <2>1 DEF AdminInv, AbsoluteLifetime
  <2> QED BY <2>2, <2>3, AdminAssumption DEF Indexed
<1> QED BY <1>1, EndInvariant, PTL

\* A demotion, a password change or a deletion commits after the sessions its
\* user had when it began are gone, whatever other requests do meanwhile; the
\* gap between SMEMBERS and DEL is the only way round.
THEOREM RevokedBeforeCommit == AdminSpec => []SessionsEndedBeforeCommit
<1>1. AdminInv /\ EndInv => SessionsEndedBeforeCommit
  BY DEF EndInv, Ending, SessionsEndedBeforeCommit
<1> QED BY <1>1, EndInvariant, PTL
-----------------------------------------------------------------------------
(***************************************************************************)
(* The store implements SessionBook.  Every step of a request is one step  *)
(* of the book or none; two more facts are needed of the states: an id     *)
(* that was never issued has no age, so its first TTL is positive, and a   *)
(* promotion never revokes.                                                *)
(***************************************************************************)
Unused == \A s \in Sid : owner[s] = None => age[s] = 0
NoGrant(r) == pc[r] \in {"members", "sweep"} => op[r] # "grant"
BookInv == Unused /\ \A r \in Req : NoGrant(r)

LEMMA UnusedStep == AdminInv /\ Unused /\ [AdminNext]_vars => Unused'
<1> SUFFICES ASSUME AdminInv, Unused, [AdminNext]_vars, NEW s \in Sid, owner'[s] = None
             PROVE  age'[s] = 0
  BY DEF Unused
<1>1. owner[s] = None /\ age[s] = 0 /\ ~Live(s)
  BY AdminStep DEF KeepsOwners, Unused, AdminInv, Issued
<1>2. CASE Tick
  BY <1>1, <1>2 DEF Tick
<1>3. CASE UNCHANGED age
  BY <1>1, <1>3
<1>4. AdminNext => Tick \/ UNCHANGED age
  BY DEF AdminNext, Load, DropExpired, Form, LogIn, LogOut, Refuse, Authenticate, Edit,
         ChangeBegin, Members, Sweep, Commit, EditFails, Clear, Replace, Touch, SaveNew,
         SaveOver, SaveExpired, Index, Abort, Store, Delete, redis
<1> QED BY <1>2, <1>3, <1>4 DEF vars, redis

\* Which phase a step of request r ends in; a change begins in three of them.
LEMMA PhaseAfter ==
  ASSUME AdminInv, NEW r \in Req, NoGrant(r),
         \/ \E s \in known \cup {None} : Load(r, s)
         \/ DropExpired(r) \/ Form(r)
         \/ \E u \in User : LogIn(r, u)
         \/ LogOut(r) \/ Refuse(r) \/ Authenticate(r)
         \/ \E v \in User : Edit(r, v)
         \/ \E v \in User, o \in Changes : ChangeBegin(r, v, o)
         \/ Members(r) \/ Sweep(r) \/ Commit(r) \/ EditFails(r)
         \/ Clear(r) \/ Replace(r) \/ Touch(r)
         \/ \E s \in Sid : SaveNew(r, s)
         \/ SaveOver(r) \/ SaveExpired(r) \/ Index(r) \/ Abort(r)
  PROVE  NoGrant(r)'
<1>0. RequestType
  BY DEF AdminInv
<1>1. ASSUME NEW v \in User, Edit(r, v) PROVE NoGrant(r)'
  BY <1>0, <1>1 DEF Edit, NoGrant, RequestType
<1>2. ASSUME NEW v \in User, NEW o \in Changes, ChangeBegin(r, v, o) PROVE NoGrant(r)'
  BY <1>0, <1>2 DEF ChangeBegin, Begin, NoGrant, RequestType
<1>3. CASE Members(r)
  BY <1>0, <1>3 DEF Members, NoGrant, RequestType
<1>4. CASE pc'[r] \notin {"members", "sweep"}
  BY <1>4 DEF NoGrant
<1>5. ASSUME NEW s \in Sid, Written(r, s) PROVE pc'[r] \notin {"members", "sweep"}
  BY <1>0, <1>5 DEF Written, Deliver, Finish, Begin, RequestType
<1>6. ASSUME NEW s \in Sid, SaveNew(r, s) PROVE pc'[r] \notin {"members", "sweep"}
  BY <1>5, <1>6 DEF SaveNew
<1>7. CASE SaveOver(r)
  <2>1. sid[r] \in Sid
    BY <1>7 DEF AdminInv, SaveOver, Holds, Create
  <2>2. Written(r, sid[r]) \/ Finish(r)
    BY <1>7 DEF SaveOver
  <2> QED BY <1>0, <1>4, <1>5, <2>1, <2>2 DEF Finish, Begin, RequestType
<1>8. ASSUME NEW s \in known \cup {None}, Load(r, s) PROVE pc'[r] \notin {"members", "sweep"}
  BY <1>0, <1>8 DEF Load, Begin, RequestType
<1>9. CASE Form(r) \/ (\E u \in User : LogIn(r, u)) \/ LogOut(r) \/ Refuse(r) \/ Authenticate(r)
  <2>1. pc'[r] = "respond"
    BY <1>0, <1>9 DEF Form, LogIn, LogOut, Refuse, Authenticate, Answer, RequestType
  <2> QED BY <1>4, <2>1
<1>10. CASE DropExpired(r) \/ Sweep(r) \/ EditFails(r) \/ Replace(r)
  <2>1. pc'[r] \in {"handle", "commit", "respond", "save"}
    BY <1>0, <1>10 DEF DropExpired, Sweep, EditFails, Replace, Goto, RequestType
  <2> QED BY <1>4, <2>1
<1>11. CASE Commit(r) \/ Clear(r) \/ Touch(r) \/ SaveExpired(r) \/ Index(r) \/ Abort(r)
  <2>1. pc'[r] \in {"idle", "respond"}
    BY <1>0, <1>11 DEF Commit, Clear, Touch, SaveExpired, Index, Abort, Deliver, Finish,
                       Begin, Goto, RequestType
  <2> QED BY <1>4, <2>1
<1> QED BY <1>1, <1>2, <1>3, <1>4, <1>6, <1>7, <1>8, <1>9, <1>10, <1>11

LEMMA BookInvStep == AdminInv /\ BookInv /\ [AdminNext]_vars => BookInv'
<1> SUFFICES ASSUME AdminInv, BookInv, [AdminNext]_vars PROVE \A q \in Req : NoGrant(q)'
  BY UnusedStep DEF BookInv
<1>1. CASE UNCHANGED request
  BY <1>1 DEF request, BookInv, NoGrant
<1>2. ASSUME NEW r \in Req, Only(r), NoGrant(r)' PROVE \A q \in Req : NoGrant(q)'
  BY <1>2 DEF Only, BookInv, NoGrant
<1>3. \A r \in Req : NoGrant(r)
  BY DEF BookInv
<1>4. CASE AdminNext
  BY <1>1, <1>2, <1>3, <1>4, PhaseAfter, QuietStep, EndStep, ReplaceStep, SweepStep, CommitStep,
     TouchStep, SaveNewStep, SaveOverStep, IndexStep DEF AdminNext, Tick
<1> QED BY <1>1, <1>4 DEF vars

LEMMA BookInvariant == AdminSpec => [](AdminInv /\ EndInv /\ BookInv)
<1>1. AdminInit => BookInv
  BY DEF AdminInit, BookInv, Unused, NoGrant
<1>2. AdminInv /\ BookInv /\ [AdminNext]_vars => BookInv'
  BY BookInvStep
<1> QED BY <1>1, <1>2, EndInvariant, PTL DEF AdminSpec


\* The changes under way stay as they are.
LEMMA SameChanges ==
  ASSUME AdminInv, AdminInv', NEW r \in Req, Only(r), Revoking(r)' <=> Revoking(r),
         Revoking(r) => target'[r] = target[r] /\ old'[r] = old[r]
  PROVE  Whom' = Whom /\ Due' = Due
<1>1. \A q \in Req : Revoking(q)' <=> Revoking(q)
  BY DEF Only, Revoking
<1>2. \A q \in Req : Revoking(q) => target'[q] = target[q] /\ old'[q] = old[q]
  BY DEF Only
<1> QED BY <1>1, <1>2 DEF Whom, Due

\* Request r begins a change or gets to its end.
LEMMA ChangeArranged ==
  ASSUME NEW r \in Req, Only(r), NEW u, NEW sessions,
         u = IF Revoking(r)' THEN target'[r] ELSE None,
         sessions = IF Revoking(r)' THEN old'[r] ELSE {}
  PROVE  Whom' = [Whom EXCEPT ![r] = u] /\ Due' = [Due EXCEPT ![r] = sessions]
<1>1. \A q \in Req \ {r} :
        (Revoking(q)' <=> Revoking(q)) /\ target'[q] = target[q] /\ old'[q] = old[q]
  BY DEF Only, Revoking
<1> QED BY <1>1 DEF Whom, Due

LEMMA LiveIsIssued ==
  ASSUME AdminInv
  PROVE  LiveIds \subseteq Sid /\ \A s \in LiveIds : owner[s] # None
  BY DEF AdminInv, Issued, LiveIds

\* A step that neither issues an id nor hands one out can only end sessions.
LEMMA OnlyEnds ==
  ASSUME AdminInv, AdminInv', KeepsDead, UNCHANGED <<owner, known, raced, may>>,
         Whom' = Whom, Due' = Due
  PROVE  Book!BookNext
<1>1. \A s \in Sid : ttl[s] \in Nat /\ ttl'[s] \in Nat
  BY AdminAssumption DEF AdminInv, StoreType
<1>2. LiveIds' \subseteq LiveIds
  BY <1>1 DEF AdminInv, Issued, KeepsDead, Live, LiveIds
<1> DEFINE ended == LiveIds \ LiveIds'
<1>3. ended \in SUBSET LiveIds /\ LiveIds' = LiveIds \ ended
  BY <1>2
<1>4. Book!End(ended)
  BY <1>3 DEF Book!End
<1> QED BY <1>3, <1>4 DEF Book!BookNext

\* The steps of a request outside a change.
LEMMA QuietBook ==
  ASSUME AdminInv, NEW r \in Req,
         \/ \E s \in known \cup {None} : Load(r, s)
         \/ DropExpired(r) \/ Form(r)
         \/ \E u \in User : LogIn(r, u)
         \/ LogOut(r) \/ Refuse(r) \/ Authenticate(r)
         \/ Clear(r) \/ Replace(r) \/ Touch(r) \/ SaveExpired(r)
  PROVE  Book!BookNext
<1>0. AdminInv' /\ KeepsDead /\ Only(r) /\ RequestType
  BY QuietStep, EndStep, ReplaceStep, TouchStep DEF AdminInv
<1>1. pc[r] \notin {"members", "sweep", "commit"}
  BY DEF Load, DropExpired, Form, LogIn, LogOut, Refuse, Authenticate, Clear, Replace, Touch,
         SaveExpired
<1>2. pc'[r] \notin {"members", "sweep", "commit"}
  <2>1. CASE Form(r) \/ (\E u \in User : LogIn(r, u)) \/ LogOut(r) \/ Refuse(r) \/ Authenticate(r)
    BY <1>0, <2>1 DEF Form, LogIn, LogOut, Refuse, Authenticate, Answer, RequestType
  <2>2. CASE (\E s \in known \cup {None} : Load(r, s)) \/ DropExpired(r) \/ Replace(r)
    BY <1>0, <2>2 DEF Load, DropExpired, Replace, Goto, Begin, RequestType
  <2>3. CASE Clear(r) \/ Touch(r) \/ SaveExpired(r)
    BY <1>0, <2>3 DEF Clear, Touch, SaveExpired, Finish, Begin, RequestType
  <2> QED BY <2>1, <2>2, <2>3
<1>3. UNCHANGED <<owner, known, raced, may>>
  BY DEF Load, DropExpired, Form, LogIn, LogOut, Refuse, Authenticate, Clear, Replace, Touch,
         SaveExpired, Store, Delete, redis
<1>4. Whom' = Whom /\ Due' = Due
  BY <1>0, <1>1, <1>2, SameChanges DEF Revoking
<1> QED BY <1>0, <1>3, <1>4, OnlyEnds

\* A change begins: what it has to end are the sessions a browser can use.
LEMMA RevokeBook ==
  ASSUME AdminInv, NEW r \in Req, NEW v \in User, ~Revoking(r),
         Edit(r, v) \/ \E o \in Changes : ChangeBegin(r, v, o)
  PROVE  Book!BookNext
<1>0. AdminInv' /\ KeepsDead /\ Only(r) /\ RequestType /\ StoreType
  BY QuietStep DEF AdminInv
<1>1. UNCHANGED Store
  BY DEF Edit, ChangeBegin
<1>2. UNCHANGED <<owner, known, raced, may>> /\ LiveIds' = LiveIds
  BY <1>1 DEF Store, redis, LiveIds, Live
<1>3. CASE Revoking(r)'
  <2>1. target'[r] = v /\ old'[r] = KnownOf(v)
    BY <1>0 DEF Edit, ChangeBegin, Begin, RequestType
  <2>2. KnownOf(v) = {s \in LiveIds \cap known : owner[s] = v}
    BY <1>0 DEF KnownOf, LiveIds, StoreType
  <2>3. Whom' = [Whom EXCEPT ![r] = v] /\ Due' = [Due EXCEPT ![r] = KnownOf(v)]
    BY <1>0, <1>3, <2>1, ChangeArranged
  <2>4. Whom[r] = None
    BY DEF Whom
  <2>5. Book!Revoke(r, v)
    BY <1>2, <2>2, <2>3, <2>4 DEF Book!Revoke, Book!Arrange
  <2> QED BY <2>5 DEF Book!BookNext
<1>4. CASE ~Revoking(r)'
  <2>1. Whom' = Whom /\ Due' = Due
    BY <1>0, <1>4, SameChanges
  <2> QED BY <1>0, <1>2, <2>1, OnlyEnds
<1> QED BY <1>3, <1>4

\* revoke_user's two commands: the book sees sessions end.
LEMMA SweepBook ==
  ASSUME AdminInv, BookInv, NEW r \in Req, Members(r) \/ Sweep(r)
  PROVE  Book!BookNext
<1>0. AdminInv' /\ KeepsDead /\ Only(r) /\ RequestType
  BY QuietStep, SweepStep DEF AdminInv
<1>1. Revoking(r) /\ Revoking(r)' /\ target'[r] = target[r] /\ old'[r] = old[r]
  <2>1. pc[r] \in {"members", "sweep"} /\ op[r] # "grant"
    BY DEF Members, Sweep, BookInv, NoGrant
  <2>2. pc'[r] \in {"sweep", "commit"} /\ UNCHANGED <<op, target, old>>
    BY <1>0 DEF Members, Sweep, Goto, RequestType
  <2> QED BY <2>1, <2>2 DEF Revoking
<1>2. UNCHANGED <<owner, known, raced, may>>
  BY DEF Members, Sweep, Store, redis
<1>3. Whom' = Whom /\ Due' = Due
  BY <1>0, <1>1, SameChanges
<1> QED BY <1>0, <1>2, <1>3, OnlyEnds

\* An error or a lost client, in a change or outside.
LEMMA FailBook ==
  ASSUME AdminInv, NEW r \in Req, EditFails(r) \/ Abort(r)
  PROVE  Book!BookNext
<1>0. AdminInv' /\ KeepsDead /\ Only(r) /\ RequestType
  BY QuietStep DEF AdminInv
<1>1. ~Revoking(r)'
  BY <1>0 DEF EditFails, Abort, Goto, Finish, Begin, RequestType, Revoking
<1>2. UNCHANGED <<owner, known, raced, may>> /\ LiveIds' = LiveIds
  BY DEF EditFails, Abort, Store, redis, LiveIds, Live
<1>3. CASE Revoking(r)
  <2>1. Whom[r] # None
    BY <1>3, AdminAssumption DEF Whom, Revoking, AdminInv, Holds
  <2>2. Whom' = [Whom EXCEPT ![r] = None] /\ Due' = [Due EXCEPT ![r] = {}]
    BY <1>0, <1>1, ChangeArranged
  <2>3. Book!Fail(r)
    BY <1>2, <2>1, <2>2 DEF Book!Fail, Book!Arrange
  <2> QED BY <2>3 DEF Book!BookNext
<1>4. CASE ~Revoking(r)
  <2>1. Whom' = Whom /\ Due' = Due
    BY <1>0, <1>1, <1>4, SameChanges
  <2> QED BY <1>0, <1>2, <2>1, OnlyEnds
<1> QED BY <1>3, <1>4

\* The commit: by then what was due has ended or was missed.
LEMMA CommitBook ==
  ASSUME AdminInv, EndInv, NEW r \in Req, Commit(r)
  PROVE  Book!BookNext
<1>0. AdminInv' /\ Only(r) /\ RequestType /\ Holds(r) /\ Ending(r) /\ pc[r] = "commit"
  BY CommitStep DEF AdminInv, EndInv, Commit
<1>1. target[r] \in User /\ target[r] # None
  BY <1>0, AdminAssumption DEF Holds
<1>2. UNCHANGED <<owner, known, raced>> /\ LiveIds' = LiveIds
  BY DEF Commit, redis, LiveIds, Live
<1>3. ~Revoking(r)'
  BY <1>0 DEF Commit, Goto, Finish, Begin, RequestType, Revoking
<1>4. CASE op[r] = "grant"
  <2>1. ~Revoking(r) /\ may' = may \cup {target[r]}
    BY <1>4 DEF Revoking, Commit
  <2>2. Whom' = Whom /\ Due' = Due
    BY <1>0, <1>3, <2>1, SameChanges
  <2>3. Book!Grant(target[r])
    BY <1>2, <2>1, <2>2 DEF Book!Grant
  <2> QED BY <1>1, <2>3 DEF Book!BookNext
<1>5. CASE op[r] # "grant"
  <2>1. Whom[r] = target[r] /\ Due[r] = old[r]
    BY <1>0, <1>5 DEF Revoking, Whom, Due
  <2>2. Due[r] \cap LiveIds \subseteq raced
    BY <1>0, <1>5, <2>1 DEF Ending, LiveIds
  <2>3. Whom' = [Whom EXCEPT ![r] = None] /\ Due' = [Due EXCEPT ![r] = {}]
    BY <1>0, <1>3, ChangeArranged
  <2>4. may' \in {may, may \ {target[r]}}
    BY <1>5 DEF Commit
  <2>5. Book!Settle(r)
    BY <1>1, <1>2, <2>1, <2>2, <2>3, <2>4 DEF Book!Settle, Book!Arrange
  <2> QED BY <2>5 DEF Book!BookNext
<1> QED BY <1>4, <1>5


\* What the SET of s for r does to the cookies and the changes.
LEMMA WrittenBook ==
  ASSUME AdminInv, AdminInv', NEW r \in Req, Only(r), NEW s \in Sid, pc[r] = "save", Written(r, s)
  PROVE  known' \in {known, known \cup {s}} /\ Whom' = Whom /\ Due' = Due
<1>1. pc'[r] \in {"index", "idle"}
  BY DEF Written, Deliver, Finish, Begin, AdminInv, RequestType
<1>2. known' \in {known, known \cup {s}}
  BY DEF Written, Deliver
<1>3. ~Revoking(r) /\ ~Revoking(r)'
  BY <1>1 DEF Revoking
<1> QED BY <1>2, <1>3, SameChanges

\* A new session: its id was never issued, so it has its whole life ahead.
LEMMA OpenBook ==
  ASSUME AdminInv, BookInv, NEW r \in Req, NEW s \in Sid, SaveNew(r, s)
  PROVE  Book!BookNext
<1>0. AdminInv' /\ Only(r) /\ RequestType /\ StoreType /\ Holds(r)
  BY SaveNewStep DEF AdminInv
<1>1. pc[r] = "save" /\ owner[s] = None /\ age[s] = 0 /\ Written(r, s) /\ UNCHANGED <<may, raced>>
  BY DEF SaveNew, BookInv, Unused
<1>2. known' \in {known, known \cup {s}} /\ Whom' = Whom /\ Due' = Due
  BY <1>0, <1>1, WrittenBook
<1>3. out[r] \in User \cup {Anon} /\ owner' = [owner EXCEPT ![s] = out[r]]
  BY <1>0, <1>1 DEF Holds, RequestType, Who, Written
<1>4. PICK n \in Left(s) : ttl' = [ttl EXCEPT ![s] = Lesser(Idle, n)]
  BY DEF SaveNew
<1>5. Lesser(Idle, n) > 0
  BY <1>1, AdminAssumption DEF Left, Down, Lesser
<1>6. LiveIds' = LiveIds \cup {s}
  BY <1>0, <1>4, <1>5 DEF LiveIds, Live, StoreType
<1>7. Book!Open(s, out[r])
  BY <1>1, <1>2, <1>3, <1>6 DEF Book!Open
<1> QED BY <1>3, <1>7 DEF Book!BookNext

\* SET XX: the session stays its user's; its cookie may go out again.
LEMMA SaveOverBook ==
  ASSUME AdminInv, NEW r \in Req, SaveOver(r)
  PROVE  Book!BookNext
<1>0. AdminInv' /\ KeepsDead /\ Only(r) /\ RequestType /\ StoreType /\ Holds(r)
  BY SaveOverStep DEF AdminInv
<1>1. pc[r] = "save" /\ sid[r] \in Sid /\ owner[sid[r]] = out[r] /\ out[r] # None
  BY <1>0 DEF SaveOver, Holds, Create
<1>2. UNCHANGED <<may, raced>>
  BY DEF SaveOver
<1>3. CASE Live(sid[r])
  <2>1. Written(r, sid[r])
    BY <1>3 DEF SaveOver
  <2>2. known' \in {known, known \cup {sid[r]}} /\ Whom' = Whom /\ Due' = Due
    BY <1>0, <1>1, <2>1, WrittenBook
  <2>3. owner' = owner
    BY <1>0, <1>1, <2>1 DEF Written, StoreType
  <2>4. CASE known' = known
    BY <1>0, <1>2, <2>2, <2>3, <2>4, OnlyEnds
  <2>5. CASE known' = known \cup {sid[r]}
    <3>1. PICK n \in Left(sid[r]) :
            n > 0 /\ ttl' = [ttl EXCEPT ![sid[r]] = IF Live(sid[r]) THEN Lesser(Idle, n) ELSE 0]
      BY DEF SaveOver
    <3>2. Lesser(Idle, n) > 0
      BY <3>1, AdminAssumption DEF Lesser
    <3>3. LiveIds' = LiveIds
      BY <1>0, <1>1, <1>3, <3>1, <3>2 DEF LiveIds, Live, StoreType
    <3>4. Book!Give(sid[r])
      BY <1>1, <1>2, <2>2, <2>3, <2>5, <3>3 DEF Book!Give
    <3> QED BY <1>1, <3>4 DEF Book!BookNext
  <2> QED BY <2>2, <2>4, <2>5
<1>4. CASE ~Live(sid[r])
  <2>1. Finish(r) /\ UNCHANGED <<owner, known>>
    BY <1>4 DEF SaveOver
  <2>2. ~Revoking(r) /\ ~Revoking(r)'
    BY <1>0, <1>1, <2>1 DEF Finish, Begin, RequestType, Revoking
  <2>3. Whom' = Whom /\ Due' = Due
    BY <1>0, <2>2, SameChanges
  <2> QED BY <1>0, <1>2, <2>1, <2>3, OnlyEnds
<1> QED BY <1>3, <1>4

\* The cookie of a login goes out: a session may only be missed while a change
\* of its user is between its two commands.
LEMMA GiveBook ==
  ASSUME AdminInv, BookInv, NEW r \in Req, Index(r)
  PROVE  Book!BookNext
<1>0. AdminInv' /\ Only(r) /\ RequestType /\ Holds(r)
  BY IndexStep DEF AdminInv
<1> DEFINE s == nsid[r]
<1>1. pc[r] = "index" /\ s \in Sid /\ out[r] \in User /\ owner[s] = out[r] /\ owner[s] # None
  BY <1>0, AdminAssumption DEF Index, Holds
<1>2. known' = known \cup {s} /\ UNCHANGED <<owner, may>> /\ LiveIds' = LiveIds
  BY DEF Index, Deliver, LiveIds, Live
<1>3. ~Revoking(r) /\ ~Revoking(r)'
  BY <1>0, <1>1 DEF Index, Deliver, Finish, Begin, RequestType, Revoking
<1>4. Whom' = Whom /\ Due' = Due
  BY <1>0, <1>3, SameChanges
<1>5. raced' = raced \/ ((\E q \in Req : Whom[q] = owner[s]) /\ raced' = raced \cup {s})
  <2>1. CASE \E q \in Req : pc[q] = "sweep" /\ target[q] = out[r]
    <3>1. PICK q \in Req : pc[q] = "sweep" /\ target[q] = out[r]
      BY <2>1
    <3>2. Whom[q] = owner[s]
      BY <1>1, <3>1 DEF Whom, Revoking, BookInv, NoGrant
    <3> QED BY <2>1, <3>2 DEF Index
  <2>2. CASE ~\E q \in Req : pc[q] = "sweep" /\ target[q] = out[r]
    BY <2>2 DEF Index
  <2> QED BY <2>1, <2>2
<1>6. Book!Give(s)
  BY <1>1, <1>2, <1>4, <1>5 DEF Book!Give
<1> QED BY <1>1, <1>6 DEF Book!BookNext

LEMMA TickBook == AdminInv /\ Tick => Book!BookNext
<1> SUFFICES ASSUME AdminInv, Tick PROVE Book!BookNext
  OBVIOUS
<1>1. AdminInv' /\ KeepsDead
  BY TickStep
<1>2. UNCHANGED <<owner, known, raced, may>>
  BY DEF Tick
<1>3. Whom' = Whom /\ Due' = Due
  BY DEF Tick, request, Whom, Due, Revoking
<1> QED BY <1>1, <1>2, <1>3, OnlyEnds

LEMMA BookStep ==
  AdminInv /\ EndInv /\ BookInv /\ [AdminNext]_vars => [Book!BookNext]_Book!book
<1> SUFFICES ASSUME AdminInv, EndInv, BookInv, [AdminNext]_vars
             PROVE  Book!BookNext \/ UNCHANGED Book!book
  OBVIOUS
<1>1. CASE UNCHANGED vars
  BY <1>1 DEF vars, redis, request, Book!book, LiveIds, Live, Whom, Due, Revoking
<1>2. ASSUME NEW r \in Req, NEW v \in User, Edit(r, v) PROVE Book!BookNext
  <2>1. ~Revoking(r)
    BY <1>2 DEF Edit, Revoking
  <2> QED BY <1>2, <2>1, RevokeBook
<1>3. ASSUME NEW r \in Req, NEW v \in User, NEW o \in Changes, ChangeBegin(r, v, o)
      PROVE  Book!BookNext
  <2>1. ~Revoking(r)
    BY <1>3 DEF ChangeBegin, Revoking
  <2> QED BY <1>3, <2>1, RevokeBook
<1>4. CASE AdminNext
  BY <1>2, <1>3, <1>4, QuietBook, SweepBook, FailBook, CommitBook, OpenBook, SaveOverBook,
     GiveBook, TickBook DEF AdminNext
<1> QED BY <1>1, <1>4

\* Redis, the cookies and the account changes, command by command, implement
\* the book of sessions: no interleaving of requests, aborts and expiries uses
\* an id twice, revives a session, or lets a change take effect before its
\* user's sessions have ended, those admitted as missed excepted.
THEOREM StoreKeepsTheBook == AdminSpec => ImplementsBook
<1>1. AdminInit => Book!BookInit
  BY DEF AdminInit, Book!BookInit, LiveIds, Live, Whom, Due, Revoking
<1>2. AdminInv /\ EndInv /\ BookInv /\ [AdminNext]_vars => [Book!BookNext]_Book!book
  BY BookStep
<1> QED BY <1>1, <1>2, BookInvariant, PTL DEF AdminSpec, ImplementsBook, Book!BookSpec

=============================================================================
