--------------------------- MODULE AdminSessions ---------------------------
(***************************************************************************)
(* Sessions of the /admin screens: AdminSessionStore and                   *)
(* RedisSessionMiddleware, the login, logout and per-request check of      *)
(* AdminAuthBackend, and the account changes that end a user's sessions.   *)
(* One action per Redis command or MULTI block.                            *)
(*                                                                         *)
(* A session id stands for its key admin:sess:{hmac}.  TTLs count down in  *)
(* ticks; a key is gone when its counter is 0.                             *)
(***************************************************************************)
EXTENDS Naturals

CONSTANTS User, Req, Sid,
          None,   \* no id, no record, an empty session
          Anon,   \* a session with a CSRF token and no user
          MaxAge, \* ADMIN_SESSION_MAX_AGE_SECONDS, in ticks
          Idle    \* ADMIN_SESSION_IDLE_SECONDS, in ticks

ASSUME AdminAssumption ==
  /\ None \notin User \cup Sid /\ Anon \notin User /\ Anon # None
  /\ MaxAge \in Nat /\ Idle \in Nat /\ 0 < Idle /\ Idle <= MaxAge /\ 1 < MaxAge

VARIABLES
  ttl,     \* ttl[s]: remaining TTL of the session's key
  owner,   \* owner[s]: the user_id of its record (Anon: none); None: never issued
  age,     \* age[s]: time since its created_at
  known,   \* ids that a response has put into a cookie
  idx,     \* idx[u]: members of admin:user_sessions:{u}
  idxTtl,  \* idxTtl[u]: its remaining TTL
  may,     \* users whose committed row is active and superuser
  pc,      \* pc[r]: the step a request is at
  op,      \* the account change it makes, "none" if none
  sid,     \* the id in its cookie
  rec,     \* the user of the record it has loaded, Anon or None
  out,     \* scope["session"] when the response starts
  rotate,  \* rotate_session was called
  nsid,    \* the id it is saving
  target,  \* the user whose account it changes
  keys,    \* the answer of its SMEMBERS
  old,     \* history: known live sessions of target when the change began
  raced    \* history: sessions indexed between a SMEMBERS and its DEL

redis == <<ttl, owner, age, idx, idxTtl>>
request == <<pc, op, sid, rec, out, rotate, nsid, target, keys, old>>
vars == <<redis, known, may, request, raced>>
-----------------------------------------------------------------------------
Who == User \cup {Anon, None}
Changes == {"demote", "password", "grant"}
Ops == {"edit", "none"} \cup Changes
Phases == {"idle", "expired", "handle", "members", "sweep", "commit",
           "respond", "save", "index"}

AdminTypeOK ==
  /\ ttl \in [Sid -> 0..Idle]
  /\ owner \in [Sid -> Who]
  /\ age \in [Sid -> 0..MaxAge]
  /\ known \subseteq Sid
  /\ idx \in [User -> SUBSET Sid]
  /\ idxTtl \in [User -> 0..MaxAge]
  /\ may \subseteq User
  /\ pc \in [Req -> Phases]
  /\ op \in [Req -> Ops]
  /\ sid \in [Req -> Sid \cup {None}]
  /\ rec \in [Req -> Who]
  /\ out \in [Req -> Who]
  /\ rotate \in [Req -> BOOLEAN]
  /\ nsid \in [Req -> Sid \cup {None}]
  /\ target \in [Req -> User \cup {None}]
  /\ keys \in [Req -> SUBSET Sid]
  /\ old \in [Req -> SUBSET Sid]
  /\ raced \subseteq Sid

AdminInit ==
  /\ ttl = [s \in Sid |-> 0]
  /\ owner = [s \in Sid |-> None]
  /\ age = [s \in Sid |-> 0]
  /\ known = {}
  /\ idx = [u \in User |-> {}]
  /\ idxTtl = [u \in User |-> 0]
  /\ may \in SUBSET User
  /\ pc = [r \in Req |-> "idle"]
  /\ op = [r \in Req |-> "none"]
  /\ sid = [r \in Req |-> None]
  /\ rec = [r \in Req |-> None]
  /\ out = [r \in Req |-> None]
  /\ rotate = [r \in Req |-> FALSE]
  /\ nsid = [r \in Req |-> None]
  /\ target = [r \in Req |-> None]
  /\ keys = [r \in Req |-> {}]
  /\ old = [r \in Req |-> {}]
  /\ raced = {}
-----------------------------------------------------------------------------
Live(s) == ttl[s] > 0
Down(n) == IF n > 0 THEN n - 1 ELSE 0
Lesser(m, n) == IF m <= n THEN m ELSE n

\* What is left of the absolute lifetime, in whole seconds rounded down: time
\* within a tick may cost one more.
Left(s) == {MaxAge - age[s], Down(MaxAge - age[s])}

Goto(r, p) ==
  /\ pc' = [pc EXCEPT ![r] = p]
  /\ UNCHANGED <<op, sid, rec, out, rotate, nsid, target, keys, old>>

Begin(r, p, o, s, w, u, before) ==
  /\ pc' = [pc EXCEPT ![r] = p]
  /\ op' = [op EXCEPT ![r] = o]
  /\ sid' = [sid EXCEPT ![r] = s]
  /\ rec' = [rec EXCEPT ![r] = w]
  /\ out' = [out EXCEPT ![r] = None]
  /\ rotate' = [rotate EXCEPT ![r] = FALSE]
  /\ nsid' = [nsid EXCEPT ![r] = None]
  /\ target' = [target EXCEPT ![r] = u]
  /\ keys' = [keys EXCEPT ![r] = {}]
  /\ old' = [old EXCEPT ![r] = before]

Finish(r) == Begin(r, "idle", "none", None, None, None, {})

\* The handler has left w in the session; the response is about to start.
Answer(r, w, turn) ==
  /\ pc' = [pc EXCEPT ![r] = "respond"]
  /\ out' = [out EXCEPT ![r] = w]
  /\ rotate' = [rotate EXCEPT ![r] = turn]
  /\ UNCHANGED <<op, sid, rec, nsid, target, keys, old>>

\* store.delete: MULTI { DEL key ; SREM index }.
Delete(s, w) ==
  /\ ttl' = [ttl EXCEPT ![s] = 0]
  /\ idx' = [u \in User |-> IF u = w THEN idx[u] \ {s} ELSE idx[u]]
  /\ UNCHANGED <<owner, age, idxTtl>>

Store == <<redis, known, may, raced>>
-----------------------------------------------------------------------------
\* A request with the cookie s: GET.  A record past its absolute lifetime is
\* deleted next.  Which handler the request is for is the handler's guard.
Load(r, s) ==
  /\ pc[r] = "idle"
  /\ IF s # None /\ Live(s)
     THEN \E n \in Left(s) :
            Begin(r, IF n = 0 THEN "expired" ELSE "handle", "none", s, owner[s], None, {})
     ELSE Begin(r, "handle", "none", s, None, None, {})
  /\ UNCHANGED Store

DropExpired(r) ==
  /\ pc[r] = "expired"
  /\ Delete(sid[r], rec[r])
  /\ pc' = [pc EXCEPT ![r] = "handle"]
  /\ rec' = [rec EXCEPT ![r] = None]
  /\ UNCHANGED <<op, sid, out, rotate, nsid, target, keys, old>>
  /\ UNCHANGED <<known, may, raced>>

\* The login form, also after a login that failed: its template asks for a
\* CSRF token.
Form(r) ==
  /\ pc[r] = "handle"
  /\ Answer(r, IF rec[r] = None THEN Anon ELSE rec[r], FALSE)
  /\ UNCHANGED Store

\* Variant: the session id survives the login.
LogInInPlace(r, u) ==
  /\ pc[r] = "handle"
  /\ rec[r] # None
  /\ u \in may
  /\ Answer(r, u, FALSE)
  /\ UNCHANGED Store

\* login: the CSRF token is the session's, the credentials are those of an
\* active superuser.
LogIn(r, u) ==
  /\ pc[r] = "handle"
  /\ rec[r] # None
  /\ u \in may
  /\ Answer(r, u, TRUE)
  /\ UNCHANGED Store

\* logout; without a session AdminCsrfMiddleware refuses and nothing is left
\* in the session either.
LogOut(r) ==
  /\ pc[r] = "handle"
  /\ Answer(r, None, FALSE)
  /\ UNCHANGED Store

\* AdminCsrfMiddleware refuses: the session stays as it was.
Refuse(r) ==
  /\ pc[r] = "handle"
  /\ Answer(r, rec[r], FALSE)
  /\ UNCHANGED Store

\* authenticate: the row is read anew on every request; a user who may not
\* any more loses the session.
Authenticate(r) ==
  /\ pc[r] = "handle"
  /\ Answer(r, IF rec[r] \in User \ may THEN None ELSE rec[r], FALSE)
  /\ UNCHANGED Store
-----------------------------------------------------------------------------
KnownOf(u) == {s \in known : Live(s) /\ owner[s] = u}

\* An authenticated request for the account form of user v demotes v.
Edit(r, v) ==
  /\ pc[r] = "handle"
  /\ rec[r] \in may
  /\ v \in may
  /\ pc' = [pc EXCEPT ![r] = "members"]
  /\ out' = [out EXCEPT ![r] = rec[r]]
  /\ op' = [op EXCEPT ![r] = "edit"]
  /\ target' = [target EXCEPT ![r] = v]
  /\ old' = [old EXCEPT ![r] = KnownOf(v)]
  /\ UNCHANGED <<sid, rec, rotate, nsid, keys>>
  /\ UNCHANGED Store

\* The same from the API or the command: update_user, delete_user,
\* create_superuser.
ChangeBegin(r, v, o) ==
  /\ pc[r] = "idle"
  /\ (o = "demote") => v \in may
  /\ (o = "grant") => v \notin may
  /\ Begin(r, IF o = "grant" THEN "commit" ELSE "members", o, None, None, v, KnownOf(v))
  /\ UNCHANGED Store

\* revoke_user: SMEMBERS, then one DEL of the index and all it named.
Members(r) ==
  /\ pc[r] = "members"
  /\ pc' = [pc EXCEPT ![r] = "sweep"]
  /\ keys' = [keys EXCEPT ![r] = idx[target[r]]]
  /\ UNCHANGED <<op, sid, rec, out, rotate, nsid, target, old>>
  /\ UNCHANGED Store

\* Variant: the index is deleted, the sessions are not.
SweepIndexOnly(r) ==
  /\ pc[r] = "sweep"
  /\ idx' = [idx EXCEPT ![target[r]] = {}]
  /\ idxTtl' = [idxTtl EXCEPT ![target[r]] = 0]
  /\ Goto(r, "commit")
  /\ UNCHANGED <<ttl, owner, age, known, may, raced>>

Sweep(r) ==
  /\ pc[r] = "sweep"
  /\ ttl' = [s \in Sid |-> IF s \in keys[r] THEN 0 ELSE ttl[s]]
  /\ idx' = [idx EXCEPT ![target[r]] = {}]
  /\ idxTtl' = [idxTtl EXCEPT ![target[r]] = 0]
  /\ Goto(r, "commit")
  /\ UNCHANGED <<owner, age, known, may, raced>>

Commit(r) ==
  /\ pc[r] = "commit"
  /\ may' = CASE op[r] \in {"demote", "edit"} -> may \ {target[r]}
              [] op[r] = "grant" -> may \cup {target[r]}
              [] OTHER -> may
  /\ IF op[r] = "edit" THEN Goto(r, "respond") ELSE Finish(r)
  /\ UNCHANGED <<redis, known, raced>>
\* A change that fails before its commit: sqladmin shows the error in the form.
EditFails(r) ==
  /\ pc[r] \in {"members", "sweep", "commit"} /\ op[r] = "edit"
  /\ Goto(r, "respond")
  /\ UNCHANGED Store
-----------------------------------------------------------------------------
Create(r) == rec[r] = None \/ rotate[r]

\* _commit on an empty session: the key goes, the cookie is cleared.
Clear(r) ==
  /\ pc[r] = "respond" /\ out[r] = None
  /\ IF rec[r] # None THEN Delete(sid[r], rec[r]) ELSE UNCHANGED redis
  /\ Finish(r)
  /\ UNCHANGED <<known, may, raced>>

\* _commit goes on to save: with a new id the key of the old one goes first;
\* otherwise what else the session holds (sqladmin's messages) has changed.
Replace(r) ==
  /\ pc[r] = "respond" /\ out[r] # None
  /\ IF rotate[r] /\ rec[r] # None THEN Delete(sid[r], rec[r]) ELSE UNCHANGED redis
  /\ Goto(r, "save")
  /\ UNCHANGED <<known, may, raced>>

\* Variant of touch: only the idle time counts.
TouchIdle(r) ==
  LET s == sid[r] IN
  /\ pc[r] = "respond" /\ out[r] # None /\ ~Create(r)
  /\ ttl' = [ttl EXCEPT ![s] = IF Live(s) THEN Idle ELSE 0]
  /\ Finish(r)
  /\ UNCHANGED <<owner, age, idx, idxTtl, known, may, raced>>

\* touch: EXPIRE does nothing to a key that is gone, a TTL of 0 deletes it.
Touch(r) ==
  LET s == sid[r] IN
  /\ pc[r] = "respond" /\ out[r] # None /\ ~Create(r) /\ out[r] = rec[r]
  /\ \E n \in Left(s) : ttl' = [ttl EXCEPT ![s] = IF Live(s) THEN Lesser(Idle, n) ELSE 0]
  /\ Finish(r)
  /\ UNCHANGED <<owner, age, idx, idxTtl, known, may, raced>>

\* The response with the cookie goes out.
Deliver(r, s) == Finish(r) /\ known' = known \cup {s}

\* save, after the SET of s: a session with a user is indexed next.
Written(r, s) ==
  /\ owner' = [owner EXCEPT ![s] = out[r]]
  /\ IF out[r] \in User
     THEN /\ pc' = [pc EXCEPT ![r] = "index"]
          /\ nsid' = [nsid EXCEPT ![r] = s]
          /\ UNCHANGED <<op, sid, rec, out, rotate, target, keys, old, known>>
     ELSE Deliver(r, s)

\* Variant: a new session lives as long as its absolute lifetime.
SaveLong(r, s) ==
  /\ pc[r] = "save" /\ Create(r)
  /\ owner[s] = None
  /\ \E n \in Left(s) : ttl' = [ttl EXCEPT ![s] = n]
  /\ Written(r, s)
  /\ UNCHANGED <<age, idx, idxTtl, may, raced>>

SaveNew(r, s) ==
  /\ pc[r] = "save" /\ Create(r)
  /\ owner[s] = None
  /\ \E n \in Left(s) : ttl' = [ttl EXCEPT ![s] = Lesser(Idle, n)]
  /\ Written(r, s)
  /\ UNCHANGED <<age, idx, idxTtl, may, raced>>

\* Variant: SET without XX.
SaveAnyway(r) ==
  LET s == sid[r] IN
  /\ pc[r] = "save" /\ ~Create(r)
  /\ \E n \in Left(s) : n > 0 /\ ttl' = [ttl EXCEPT ![s] = Lesser(Idle, n)]
  /\ Written(r, s)
  /\ UNCHANGED <<age, idx, idxTtl, may, raced>>

\* SET XX: not if the session has been ended meanwhile.
SaveOver(r) ==
  LET s == sid[r] IN
  /\ pc[r] = "save" /\ ~Create(r)
  /\ \E n \in Left(s) :
       /\ n > 0
       /\ ttl' = [ttl EXCEPT ![s] = IF Live(s) THEN Lesser(Idle, n) ELSE 0]
  /\ IF Live(s) THEN Written(r, s) ELSE Finish(r) /\ UNCHANGED <<owner, known>>
  /\ UNCHANGED <<age, idx, idxTtl, may, raced>>

\* Its absolute lifetime has passed during the request.
SaveExpired(r) ==
  /\ pc[r] = "save" /\ ~Create(r)
  /\ 0 \in Left(sid[r])
  /\ Delete(sid[r], out[r])
  /\ Finish(r)
  /\ UNCHANGED <<known, may, raced>>

\* Variant: the index lives as long as an unused session.
IndexExpireIdle(r) ==
  LET u == out[r] IN
  /\ pc[r] = "index"
  /\ idx' = [idx EXCEPT ![u] = @ \cup {nsid[r]}]
  /\ idxTtl' = [idxTtl EXCEPT ![u] = Idle]
  /\ raced' = IF \E q \in Req : pc[q] = "sweep" /\ target[q] = u
              THEN raced \cup {nsid[r]} ELSE raced
  /\ Deliver(r, nsid[r])
  /\ UNCHANGED <<ttl, owner, age, may>>

\* save, second command: MULTI { SADD ; EXPIRE }.
Index(r) ==
  LET u == out[r] IN
  /\ pc[r] = "index"
  /\ idx' = [idx EXCEPT ![u] = @ \cup {nsid[r]}]
  /\ idxTtl' = [idxTtl EXCEPT ![u] = MaxAge]
  /\ raced' = IF \E q \in Req : pc[q] = "sweep" /\ target[q] = u
              THEN raced \cup {nsid[r]} ELSE raced
  /\ Deliver(r, nsid[r])
  /\ UNCHANGED <<ttl, owner, age, may>>
-----------------------------------------------------------------------------
\* A Redis or database error (503), a lost client, a killed worker.
Abort(r) ==
  /\ pc[r] # "idle"
  /\ Finish(r)
  /\ UNCHANGED Store

Tick ==
  /\ ttl' = [s \in Sid |-> Down(ttl[s])]
  /\ age' = [s \in Sid |-> IF Live(s) THEN age[s] + 1 ELSE age[s]]
  /\ idxTtl' = [u \in User |-> Down(idxTtl[u])]
  /\ idx' = [u \in User |-> IF idxTtl[u] <= 1 THEN {} ELSE idx[u]]
  /\ UNCHANGED <<owner, known, may, request, raced>>

AdminNext ==
  \/ \E r \in Req, s \in known \cup {None} : Load(r, s)
  \/ \E r \in Req : DropExpired(r)
  \/ \E r \in Req : Form(r)
  \/ \E r \in Req, u \in User : LogIn(r, u)
  \/ \E r \in Req : LogOut(r)
  \/ \E r \in Req : Refuse(r)
  \/ \E r \in Req : Authenticate(r)
  \/ \E r \in Req, v \in User : Edit(r, v)
  \/ \E r \in Req, v \in User, o \in Changes : ChangeBegin(r, v, o)
  \/ \E r \in Req : Members(r)
  \/ \E r \in Req : Sweep(r)
  \/ \E r \in Req : Commit(r)
  \/ \E r \in Req : EditFails(r)
  \/ \E r \in Req : Clear(r)
  \/ \E r \in Req : Replace(r)
  \/ \E r \in Req : Touch(r)
  \/ \E r \in Req, s \in Sid : SaveNew(r, s)
  \/ \E r \in Req : SaveOver(r)
  \/ \E r \in Req : SaveExpired(r)
  \/ \E r \in Req : Index(r)
  \/ \E r \in Req : Abort(r)
  \/ Tick

AdminSpec == AdminInit /\ [][AdminNext]_vars
-----------------------------------------------------------------------------
\* Requests never prolong a session beyond its absolute lifetime.
AbsoluteLifetime == \A s \in Sid : Live(s) => age[s] + ttl[s] <= MaxAge

\* A session that was logged out, revoked or has expired stays dead, whatever
\* the requests that had loaded it still do.
DeadStaysDead ==
  [][\A s \in Sid : owner[s] # None /\ ~Live(s) => ttl'[s] = 0]_vars

\* A login gets an id nobody has seen: no session ever changes its user.
OwnerIsFinal ==
  [][\A s \in Sid : owner[s] # None => owner'[s] = owner[s]]_vars

\* revoke_user finds every session a browser can use: its id is in the user's
\* index at least as long as its key lives, or it was indexed in the gap.
UsableIndexed ==
  \A s \in known : Live(s) /\ owner[s] \in User =>
    \/ s \in raced
    \/ s \in idx[owner[s]] /\ idxTtl[owner[s]] >= ttl[s]

\* Fail-closed: when a revoking change reaches its commit, the sessions its
\* user had when it began are gone (or were indexed in the gap).
SessionsEndedBeforeCommit ==
  \A r \in Req : pc[r] = "commit" =>
    \A s \in old[r] : Live(s) => s \in raced \/ op[r] = "grant"

\* A change that ends sessions, from its beginning to its commit.
Revoking(r) == pc[r] \in {"members", "sweep", "commit"} /\ op[r] # "grant"

LiveIds == {s \in Sid : Live(s)}
Whom == [r \in Req |-> IF Revoking(r) THEN target[r] ELSE None]
Due == [r \in Req |-> IF Revoking(r) THEN old[r] ELSE {}]

\* However the commands of several requests interleave, the store keeps the
\* book it promises: an id is used once, a session ends once, and a change
\* takes effect after its user's sessions have ended, except those that
\* revoke_user misses in its gap.
Book == INSTANCE SessionBook WITH
  Change <- Req, live <- LiveIds, given <- known, missed <- raced,
  whom <- Whom, due <- Due
ImplementsBook == Book!BookSpec
=============================================================================
