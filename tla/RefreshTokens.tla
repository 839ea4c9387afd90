---------------------------- MODULE RefreshTokens ----------------------------
(***************************************************************************)
(* Login sessions of the JSON API: RefreshTokenStore (Redis), AuthService  *)
(* and the account changes that end them (UserService, UserAdmin and the   *)
(* create_superuser command).  One action per Redis command, MULTI block   *)
(* or database statement; requests interleave between any two of them.     *)
(*                                                                         *)
(* Every TTL counts down in ticks and a key is gone when its counter is 0. *)
(***************************************************************************)
EXTENDS Naturals

CONSTANTS User, Req, Fam, Jti,
          None,      \* no request, family, token or user
          TTL,       \* REFRESH_TOKEN_EXPIRE_DAYS, in ticks
          Leeway,    \* JWT_LEEWAY_SECONDS, in ticks
          Kinds,     \* the account changes of this instance
          MaxPw,     \* bound on the number of password changes
          Bcrypt     \* users whose stored hash still has the old format

ChangeKinds == {"activate", "deactivate", "promote", "demote",
                "password", "delete", "remove"}

ASSUME RefreshAssumption ==
  /\ None \notin User \cup Req \cup Fam \cup Jti
  /\ TTL \in Nat /\ TTL >= 2
  /\ Leeway \in Nat
  /\ MaxPw \in Nat
  /\ Kinds \subseteq ChangeKinds
  /\ Bcrypt \subseteq User

VARIABLES
  rt,       \* rt[j]: remaining TTL of auth:rt:{j}
  famOf,    \* famOf[j]: the claim fam of the signed token j; None: never issued
  subOf,    \* subOf[j]: its claim sub
  life,     \* life[j]: how long decode still accepts it
  wallet,   \* the tokens a response has carried to a client
  idx,      \* idx[u]: members of auth:user:{u}:fams
  idxTtl,   \* idxTtl[u]: its remaining TTL
  mark,     \* mark[f]: remaining TTL of auth:fam:{f}:revoked
  row,      \* row[u]: the committed users row
  lock,     \* lock[u]: the transaction that has written row u and not ended
  pc, op,   \* the step and the operation of request (or command) r
  user, fam, jti,   \* its user, family and the token it has registered
  seen,     \* seen[r]: the row its session read
  members,  \* members[r]: the answer of its SMEMBERS
  old,      \* history: families with a live token when change r began
  stale,    \* history: requests in flight when a change of their user committed
  aged,     \* the requests in flight since before the last tick
  raced,    \* history: families registered across a revocation (see Register)
  late      \* history: tokens registered in f while f carries its marker

redis == <<rt, idx, idxTtl, mark>>
tokens == <<famOf, subOf, life, wallet>>
history == <<raced, late>>
requests == <<pc, op, user, fam, jti, seen, members, old, stale, aged>>
vars == <<redis, tokens, row, lock, requests, history>>
-----------------------------------------------------------------------------
Row == [there : BOOLEAN, active : BOOLEAN, su : BOOLEAN, pw : Nat, bcrypt : BOOLEAN]
Absent == [there |-> FALSE, active |-> FALSE, su |-> FALSE, pw |-> 0, bcrypt |-> FALSE]

Phases == {"idle", "check", "load", "reuse", "issue", "members", "mark", "flush", "commit"}
Ops == {"none", "login", "rotate"} \cup ChangeKinds

TypeOK ==
  /\ rt \in [Jti -> 0..TTL]
  /\ famOf \in [Jti -> Fam \cup {None}]
  /\ subOf \in [Jti -> User \cup {None}]
  /\ life \in [Jti -> 0..(TTL + Leeway)]
  /\ wallet \subseteq Jti
  /\ idx \in [User -> SUBSET Fam]
  /\ idxTtl \in [User -> 0..TTL]
  /\ mark \in [Fam -> 0..TTL]
  /\ row \in [User -> Row]
  /\ lock \in [User -> Req \cup {None}]
  /\ pc \in [Req -> Phases]
  /\ op \in [Req -> Ops]
  /\ user \in [Req -> User \cup {None}]
  /\ fam \in [Req -> Fam \cup {None}]
  /\ jti \in [Req -> Jti \cup {None}]
  /\ seen \in [Req -> Row]
  /\ members \in [Req -> SUBSET Fam]
  /\ old \in [Req -> SUBSET Fam]
  /\ stale \subseteq Req
  /\ aged \subseteq Req
  /\ raced \subseteq Fam
  /\ late \in [Fam -> 0..2]

Init ==
  /\ rt = [j \in Jti |-> 0]
  /\ famOf = [j \in Jti |-> None]
  /\ subOf = [j \in Jti |-> None]
  /\ life = [j \in Jti |-> 0]
  /\ wallet = {}
  /\ idx = [u \in User |-> {}]
  /\ idxTtl = [u \in User |-> 0]
  /\ mark = [f \in Fam |-> 0]
  /\ \E su \in SUBSET User :
       row = [u \in User |-> [there |-> TRUE, active |-> TRUE, su |-> u \in su,
                              pw |-> 0, bcrypt |-> u \in Bcrypt]]
  /\ lock = [u \in User |-> None]
  /\ pc = [r \in Req |-> "idle"]
  /\ op = [r \in Req |-> "none"]
  /\ user = [r \in Req |-> None]
  /\ fam = [r \in Req |-> None]
  /\ jti = [r \in Req |-> None]
  /\ seen = [r \in Req |-> Absent]
  /\ members = [r \in Req |-> {}]
  /\ old = [r \in Req |-> {}]
  /\ stale = {} /\ aged = {}
  /\ raced = {}
  /\ late = [f \in Fam |-> 0]
-----------------------------------------------------------------------------
Issued == {j \in Jti : famOf[j] # None}
UsedFam == {famOf[j] : j \in Issued}
Live(j) == rt[j] > 0
LiveFams(u) == {famOf[j] : j \in {k \in Issued : Live(k) /\ subOf[k] = u}}

Deletes == {"delete", "remove"}

\* The row a request of kind o leaves in its session, having read s.
To(o, s) ==
  [there  |-> s.there /\ o \notin Deletes,
   active |-> (s.active \/ o = "activate") /\ o # "deactivate",
   su     |-> (s.su \/ o \in {"promote", "password"}) /\ o # "demote",
   pw     |-> IF o = "password" THEN s.pw + 1 ELSE s.pw,
   bcrypt |-> s.bcrypt /\ o \notin {"login", "password"}]

NewHash(s, t) == s.pw # t.pw \/ s.bcrypt # t.bcrypt

\* The UPDATE names the columns whose value differs from the one read: the
\* others keep what the row holds when the statement runs.
Merge(now, s, t) ==
  [there  |-> now.there /\ t.there,
   active |-> IF t.active # s.active THEN t.active ELSE now.active,
   su     |-> IF t.su # s.su THEN t.su ELSE now.su,
   pw     |-> IF NewHash(s, t) THEN t.pw ELSE now.pw,
   bcrypt |-> IF NewHash(s, t) THEN t.bcrypt ELSE now.bcrypt]

\* Does this change end the user's sessions?
revocation_for(o, s) ==
  \/ o \in Deletes
  \/ s.active /\ ~To(o, s).active
  \/ s.su /\ ~To(o, s).su
  \/ NewHash(s, To(o, s))

\* delete_user and the command write first and revoke before they commit;
\* update_user and the admin form revoke first.
FlushFirst == {"delete", "password"}
-----------------------------------------------------------------------------
Goto(r, p) ==
  /\ pc' = [pc EXCEPT ![r] = p]
  /\ UNCHANGED <<op, user, fam, jti, seen, members, old, stale, aged>>

\* Request r is at step p of operation o, all else forgotten.
Enter(r, p, o, u, f, s, fams) ==
  /\ pc' = [pc EXCEPT ![r] = p]
  /\ op' = [op EXCEPT ![r] = o]
  /\ user' = [user EXCEPT ![r] = u]
  /\ fam' = [fam EXCEPT ![r] = f]
  /\ jti' = [jti EXCEPT ![r] = None]
  /\ seen' = [seen EXCEPT ![r] = s]
  /\ members' = [members EXCEPT ![r] = {}]
  /\ old' = [old EXCEPT ![r] = fams]
  /\ aged' = aged \ {r}

Begin(r, p, o, u, f, s, fams) == Enter(r, p, o, u, f, s, fams) /\ UNCHANGED stale
Leave(r) == Enter(r, "idle", "none", None, None, Absent, {})
Finish(r) == Leave(r) /\ stale' = stale \ {r}

\* r is a revoking change whose SMEMBERS has been answered and which has not
\* committed yet.
Sweeping(r) ==
  /\ op[r] \in ChangeKinds
  /\ \/ pc[r] = "mark"
     \/ pc[r] = "flush" /\ op[r] \notin FlushFirst /\ revocation_for(op[r], seen[r])
     \/ pc[r] = "commit" /\ revocation_for(op[r], seen[r])

\* The two ways a revocation misses a registration: a sweep has already read
\* the index without this family, or the marker was set after this request's
\* check.
Crossed(u, f) ==
  \/ mark[f] > 0
  \/ \E r \in Req : Sweeping(r) /\ user[r] = u /\ f \notin members[r]

Remember(u, f) ==
  /\ raced' = IF Crossed(u, f) THEN raced \cup {f} ELSE raced
  /\ late' = IF mark[f] > 0 /\ late[f] < 2 THEN [late EXCEPT ![f] = @ + 1] ELSE late

\* Variants of register: the token is kept as long as decode accepts it; the
\* expiry of the index is set only when the set is new.
RegisterForDecode(j, u, f) ==
  /\ rt' = [rt EXCEPT ![j] = TTL + Leeway]
  /\ idx' = [idx EXCEPT ![u] = @ \cup {f}]
  /\ idxTtl' = [idxTtl EXCEPT ![u] = TTL]
  /\ UNCHANGED mark
  /\ Remember(u, f)

RegisterExpireNx(j, u, f) ==
  /\ rt' = [rt EXCEPT ![j] = TTL]
  /\ idx' = [idx EXCEPT ![u] = @ \cup {f}]
  /\ idxTtl' = [idxTtl EXCEPT ![u] = IF @ = 0 THEN TTL ELSE @]
  /\ UNCHANGED mark
  /\ Remember(u, f)

\* RefreshTokenStore.register: one MULTI.
Register(j, u, f) ==
  /\ rt' = [rt EXCEPT ![j] = TTL]
  /\ idx' = [idx EXCEPT ![u] = @ \cup {f}]
  /\ idxTtl' = [idxTtl EXCEPT ![u] = TTL]
  /\ UNCHANGED mark
  /\ Remember(u, f)

\* AuthService._issue: sign a token of a fresh jti and register it.  A login
\* (issue_tokens) draws a fresh family and goes on to commit; a rotation
\* stays in its family and answers.
Issue(r, j, f) ==
  LET u == user[r] IN
  /\ pc[r] = "issue"
  /\ j \notin Issued
  /\ IF op[r] = "login" THEN f \notin UsedFam ELSE f = fam[r]
  /\ famOf' = [famOf EXCEPT ![j] = f]
  /\ subOf' = [subOf EXCEPT ![j] = u]
  /\ life' = [life EXCEPT ![j] = TTL + Leeway]
  /\ Register(j, u, f)
  /\ IF op[r] = "login"
     THEN /\ pc' = [pc EXCEPT ![r] = "commit"]
          /\ fam' = [fam EXCEPT ![r] = f]
          /\ jti' = [jti EXCEPT ![r] = j]
          /\ UNCHANGED <<op, user, seen, members, old, stale, aged, wallet>>
     ELSE /\ Finish(r)
          /\ wallet' = wallet \cup {j}
  /\ UNCHANGED <<row, lock>>
-----------------------------------------------------------------------------
\* POST /login with a password that matches the row read; a login that
\* fails verify_credentials changes nothing.
LoginBegin(r, u) ==
  /\ pc[r] = "idle"
  /\ row[u].there /\ row[u].active
  /\ Begin(r, IF row[u].bcrypt THEN "flush" ELSE "issue", "login", u, None, row[u], {})
  /\ UNCHANGED <<redis, tokens, row, lock, history>>

\* Commit, then limiter.reset: when the reset fails the client gets an error
\* and never sees the tokens, though row and token are stored.
LoginCommit(r, answered) ==
  LET u == user[r] IN
  /\ pc[r] = "commit" /\ op[r] = "login"
  /\ row' = [row EXCEPT ![u] = Merge(@, seen[r], To("login", seen[r]))]
  /\ lock' = [lock EXCEPT ![u] = IF @ = r THEN None ELSE @]
  /\ wallet' = IF answered THEN wallet \cup {jti[r]} ELSE wallet
  /\ Finish(r)
  /\ UNCHANGED <<redis, famOf, subOf, life, history>>
-----------------------------------------------------------------------------
\* Variant: GET where the code has GETDEL.
ConsumeByGet(r, j) ==
  /\ pc[r] = "idle"
  /\ j \in wallet /\ life[j] > 0
  /\ Begin(r, IF Live(j) THEN "check" ELSE "reuse", "rotate", subOf[j], famOf[j], Absent, {})
  /\ UNCHANGED <<redis, tokens, row, lock, history>>

\* POST /refresh: decode, then GETDEL.
Consume(r, j) ==
  /\ pc[r] = "idle"
  /\ j \in wallet /\ life[j] > 0
  /\ rt' = [rt EXCEPT ![j] = 0]
  /\ Begin(r, IF Live(j) THEN "check" ELSE "reuse", "rotate", subOf[j], famOf[j], Absent, {})
  /\ UNCHANGED <<idx, idxTtl, mark, tokens, row, lock, history>>

\* Variant: the marker is not looked at.
CheckNothing(r) ==
  /\ pc[r] = "check"
  /\ Goto(r, "load")
  /\ UNCHANGED <<redis, tokens, row, lock, history>>

\* is_family_revoked
Check(r) ==
  /\ pc[r] = "check"
  /\ IF mark[fam[r]] > 0 THEN Finish(r) ELSE Goto(r, "load")
  /\ UNCHANGED <<redis, tokens, row, lock, history>>

\* Variant: the account is not looked at.
LoadUnchecked(r) ==
  /\ pc[r] = "load"
  /\ pc' = [pc EXCEPT ![r] = "issue"]
  /\ seen' = [seen EXCEPT ![r] = row[user[r]]]
  /\ UNCHANGED <<op, user, fam, jti, members, old, stale, aged>>
  /\ UNCHANGED <<redis, tokens, row, lock, history>>

\* get_by_id: an absent or inactive user revokes the family.
Load(r) ==
  LET now == row[user[r]] IN
  /\ pc[r] = "load"
  /\ pc' = [pc EXCEPT ![r] = IF now.there /\ now.active THEN "issue" ELSE "reuse"]
  /\ seen' = [seen EXCEPT ![r] = now]
  /\ UNCHANGED <<op, user, fam, jti, members, old, stale, aged>>
  /\ UNCHANGED <<redis, tokens, row, lock, history>>

\* revoke_family after a reused token or a lost account, then 401.
RevokeFamily(r) ==
  /\ pc[r] = "reuse"
  /\ mark' = [mark EXCEPT ![fam[r]] = TTL]
  /\ Finish(r)
  /\ UNCHANGED <<rt, idx, idxTtl, tokens, row, lock, history>>

\* POST /logout: a single SET.
Logout(j) ==
  /\ j \in wallet /\ life[j] > 0
  /\ mark' = [mark EXCEPT ![famOf[j]] = TTL]
  /\ UNCHANGED <<rt, idx, idxTtl, tokens, row, lock, requests, history>>
-----------------------------------------------------------------------------
\* An account change reads the row and decides what it ends.
ChangeBegin(r, u, k) ==
  /\ pc[r] = "idle"
  /\ row[u].there
  /\ k = "password" => row[u].pw < MaxPw
  /\ Begin(r, IF k \notin FlushFirst /\ revocation_for(k, row[u]) THEN "members" ELSE "flush",
           k, u, None, row[u], LiveFams(u))
  /\ UNCHANGED <<redis, tokens, row, lock, history>>

\* revoke_user, first command: SMEMBERS.
Members(r) ==
  /\ pc[r] = "members"
  /\ pc' = [pc EXCEPT ![r] = "mark"]
  /\ members' = [members EXCEPT ![r] = idx[user[r]]]
  /\ UNCHANGED <<op, user, fam, jti, seen, old, stale, aged>>
  /\ UNCHANGED <<redis, tokens, row, lock, history>>

\* Variant: the index is dropped and no marker is set.
MarkNone(r) ==
  /\ pc[r] = "mark"
  /\ idx' = [idx EXCEPT ![user[r]] = {}]
  /\ idxTtl' = [idxTtl EXCEPT ![user[r]] = 0]
  /\ Goto(r, IF op[r] \in FlushFirst THEN "commit" ELSE "flush")
  /\ UNCHANGED <<rt, mark, tokens, row, lock, history>>

\* revoke_user, second: MULTI { SET marker ... ; DEL index }.
MarkAll(r) ==
  /\ pc[r] = "mark"
  /\ mark' = [f \in Fam |-> IF f \in members[r] THEN TTL ELSE mark[f]]
  /\ idx' = [idx EXCEPT ![user[r]] = {}]
  /\ idxTtl' = [idxTtl EXCEPT ![user[r]] = 0]
  /\ Goto(r, IF op[r] \in FlushFirst THEN "commit" ELSE "flush")
  /\ UNCHANGED <<rt, tokens, row, lock, history>>

\* The flush: an UPDATE or DELETE waits for the row lock; an UPDATE of a row
\* deleted meanwhile raises (Abort), a DELETE of it is accepted.
Flush(r) ==
  LET u == user[r] IN
  /\ pc[r] = "flush"
  /\ IF To(op[r], seen[r]) = seen[r]
     THEN UNCHANGED lock
     ELSE /\ lock[u] = None
          /\ row[u].there \/ op[r] \in Deletes
          /\ lock' = [lock EXCEPT ![u] = r]
  /\ Goto(r, IF op[r] = "login" THEN "issue"
             ELSE IF op[r] \in FlushFirst THEN "members" ELSE "commit")
  /\ UNCHANGED <<redis, tokens, row, history>>

\* The handler's commit: requests in flight for this user have now read a
\* row that is out of date.
CommitChange(r) ==
  LET u == user[r] IN
  /\ pc[r] = "commit" /\ op[r] # "login"
  /\ row' = [row EXCEPT ![u] = Merge(@, seen[r], To(op[r], seen[r]))]
  /\ lock' = [lock EXCEPT ![u] = IF @ = r THEN None ELSE @]
  /\ Leave(r)
  /\ stale' = (stale \cup {q \in Req : user[q] = u}) \ {r}
  /\ UNCHANGED <<redis, tokens, history>>
-----------------------------------------------------------------------------
\* A Redis or database error, a disconnected client or a killed worker ends a
\* request between any two steps; the transaction is rolled back.
Abort(r) ==
  /\ pc[r] # "idle"
  /\ lock' = [u \in User |-> IF lock[u] = r THEN None ELSE lock[u]]
  /\ Finish(r)
  /\ UNCHANGED <<redis, tokens, row, history>>

Down(n) == IF n > 0 THEN n - 1 ELSE 0

\* Time passes.  A request may be in flight across one tick but not two: a
\* tick is a large part of the refresh TTL (days), a request takes seconds.
Tick ==
  /\ aged = {}
  /\ rt' = [j \in Jti |-> Down(rt[j])]
  /\ life' = [j \in Jti |-> Down(life[j])]
  /\ idxTtl' = [u \in User |-> Down(idxTtl[u])]
  /\ idx' = [u \in User |-> IF idxTtl[u] <= 1 THEN {} ELSE idx[u]]
  /\ mark' = [f \in Fam |-> Down(mark[f])]
  /\ late' = [f \in Fam |-> IF mark[f] <= 1 THEN 0 ELSE late[f]]
  /\ aged' = {r \in Req : pc[r] # "idle"}
  /\ UNCHANGED <<famOf, subOf, wallet, row, lock, raced>>
  /\ UNCHANGED <<pc, op, user, fam, jti, seen, members, old, stale>>

Next ==
  \/ \E r \in Req, u \in User : LoginBegin(r, u)
  \/ \E r \in Req, answered \in BOOLEAN : LoginCommit(r, answered)
  \/ \E r \in Req, j \in Jti, f \in Fam : Issue(r, j, f)
  \/ \E r \in Req, j \in Jti : Consume(r, j)
  \/ \E r \in Req : Check(r)
  \/ \E r \in Req : Load(r)
  \/ \E r \in Req : RevokeFamily(r)
  \/ \E j \in Jti : Logout(j)
  \/ \E r \in Req, u \in User, k \in Kinds : ChangeBegin(r, u, k)
  \/ \E r \in Req : Members(r)
  \/ \E r \in Req : MarkAll(r)
  \/ \E r \in Req : Flush(r)
  \/ \E r \in Req : CommitChange(r)
  \/ \E r \in Req : Abort(r)
  \/ Tick

Spec == Init /\ [][Next]_vars
-----------------------------------------------------------------------------
Rotating(r) == op[r] = "rotate" /\ pc[r] \in {"check", "load", "issue"}

\* A login session is one chain of tokens: of all live tokens of a family and
\* all rotations that have consumed one and not answered yet, there is never
\* more than one.  (GETDEL hands a token to one of two concurrent /refresh.)
OneHolder ==
  /\ \A j, k \in Issued : Live(j) /\ Live(k) /\ famOf[j] = famOf[k] => j = k
  /\ \A r, q \in Req : Rotating(r) /\ Rotating(q) /\ fam[r] = fam[q] => r = q
  /\ \A r \in Req, j \in Issued : Rotating(r) /\ Live(j) => fam[r] # famOf[j]

\* Once a family carries its revocation marker it yields at most one more
\* token, the one of a rotation that had already passed the check.
AtMostOneLateToken == \A f \in Fam : late[f] <= 1

\* revoke_user can find every session: a live token's family is in the user's
\* index for as long as the token lives, or is marked for as long, or was
\* registered while a revocation was under way.
LiveTokenTracked ==
  \A j \in Issued : Live(j) =>
    \/ famOf[j] \in raced
    \/ famOf[j] \in idx[subOf[j]] /\ idxTtl[subOf[j]] >= rt[j]
    \/ mark[famOf[j]] >= rt[j]

\* Fail-closed: when a change that ends sessions reaches its commit, every
\* session alive when the change began is dead or marked (or raced).
OldSessionsEndedBeforeCommit ==
  \A r \in Req :
    pc[r] = "commit" /\ op[r] \in ChangeKinds /\ revocation_for(op[r], seen[r]) =>
      \A j \in Issued : Live(j) /\ famOf[j] \in old[r] =>
        famOf[j] \in raced \/ mark[famOf[j]] >= rt[j]

\* A token goes to an absent or inactive user, to the owner of an old
\* password, or claims a superuser flag the row no longer has, only when the
\* request was in flight while the change committed.
Entitled(r) ==
  LET now == row[user[r]] IN
  /\ now.there /\ now.active
  /\ op[r] = "login" => seen[r].pw = now.pw
  /\ seen[r].su => now.su
MintsFollowTheRow ==
  [][\A r \in Req :
       pc[r] = "issue" /\ pc'[r] # "issue" /\ famOf' # famOf
         => Entitled(r) \/ r \in stale]_vars
-----------------------------------------------------------------------------
\* What the texts say and the interleavings refute (see the README).

\* revoke_user's docstring: it revokes all families of the user.
RevokeUserRevokesAll ==
  [][\A r \in Req :
       pc[r] = "mark" /\ pc'[r] \in {"flush", "commit"}
         => \A f \in LiveFams(user[r]) : mark'[f] > 0]_vars

\* The guide on the re-hash at login: the password stays what it was.  So a
\* changed password is never changed back.
PasswordChangeSticks == [][\A u \in User : row'[u].pw >= row[u].pw]_vars
=============================================================================
