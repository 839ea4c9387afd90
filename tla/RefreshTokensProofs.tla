------------------------- MODULE RefreshTokensProofs -------------------------
(***************************************************************************)
(* Theorems about RefreshTokens, for every set of users, requests,         *)
(* families and token ids, every TTL of two ticks or more and any leeway:  *)
(* first the one holder of a session, then what a revocation reaches (the  *)
(* one late token of a revoked family, the index and the markers that      *)
(* track live tokens) and what the row entitles to.                        *)
(***************************************************************************)
EXTENDS RefreshTokens, TLAPS

\* What TypeOK needs to be inductive: a request under way has a user, one
\* that rotates works in a family some token has, a login about to commit
\* holds a signed token, and only signed tokens are stored or given out.
TokenShape ==
  /\ \A j \in Jti : famOf[j] # None => subOf[j] \in User
  /\ \A j \in Jti : rt[j] > 0 => famOf[j] # None
  /\ \A j \in wallet : famOf[j] # None

Sound(r) ==
  /\ pc[r] # "idle" => user[r] \in User
  /\ pc[r] \in {"check", "load", "reuse"} => op[r] = "rotate"
  /\ pc[r] = "issue" => op[r] \in {"login", "rotate"}
  /\ pc[r] # "idle" /\ op[r] = "rotate" => fam[r] \in UsedFam
  /\ pc[r] = "commit" /\ op[r] = "login" => jti[r] \in Issued

Shape == TokenShape /\ \A r \in Req : Sound(r)

LEMMA ToType == ASSUME NEW o, NEW s \in Row PROVE To(o, s) \in Row
  BY DEF To, Row

LEMMA MergeType ==
  ASSUME NEW now \in Row, NEW s \in Row, NEW t \in Row
  PROVE  Merge(now, s, t) \in Row
  BY DEF Merge, Row

LEMMA AbsentType == Absent \in Row
  BY DEF Absent, Row

\* Enter keeps the types of the request variables.
LEMMA EnterType ==
  ASSUME TypeOK, NEW r \in Req, NEW p \in Phases, NEW o \in Ops,
         NEW u \in User \cup {None}, NEW f \in Fam \cup {None}, NEW s \in Row,
         NEW fams \in SUBSET Fam, Enter(r, p, o, u, f, s, fams)
  PROVE  /\ pc' \in [Req -> Phases]
         /\ op' \in [Req -> Ops]
         /\ user' \in [Req -> User \cup {None}]
         /\ fam' \in [Req -> Fam \cup {None}]
         /\ jti' \in [Req -> Jti \cup {None}]
         /\ seen' \in [Req -> Row]
         /\ members' \in [Req -> SUBSET Fam]
         /\ old' \in [Req -> SUBSET Fam]
         /\ aged' \subseteq Req
  BY DEF Enter, TypeOK

LEMMA FinishType ==
  ASSUME TypeOK, NEW r \in Req, Finish(r)
  PROVE  /\ pc' \in [Req -> Phases]
         /\ op' \in [Req -> Ops]
         /\ user' \in [Req -> User \cup {None}]
         /\ fam' \in [Req -> Fam \cup {None}]
         /\ jti' \in [Req -> Jti \cup {None}]
         /\ seen' \in [Req -> Row]
         /\ members' \in [Req -> SUBSET Fam]
         /\ old' \in [Req -> SUBSET Fam]
         /\ aged' \subseteq Req
         /\ stale' \subseteq Req
<1>1. "idle" \in Phases /\ "none" \in Ops
  BY DEF Phases, Ops
<1>2. Enter(r, "idle", "none", None, None, Absent, {})
  BY DEF Finish, Leave
<1>3. stale' \subseteq Req
  BY DEF Finish, TypeOK
<1> QED BY <1>1, <1>2, <1>3, AbsentType, EnterType

LEMMA GotoType ==
  ASSUME TypeOK, NEW r \in Req, NEW p \in Phases, Goto(r, p)
  PROVE  /\ pc' \in [Req -> Phases]
         /\ UNCHANGED <<op, user, fam, jti, seen, members, old, stale, aged>>
  BY DEF Goto, TypeOK

\* register keeps the types of the keys and of the history.
LEMMA RegisterType ==
  ASSUME TypeOK, NEW j \in Jti, NEW u \in User, NEW f \in Fam, Register(j, u, f)
  PROVE  /\ rt' \in [Jti -> 0..TTL]
         /\ idx' \in [User -> SUBSET Fam]
         /\ idxTtl' \in [User -> 0..TTL]
         /\ mark' \in [Fam -> 0..TTL]
         /\ raced' \subseteq Fam
         /\ late' \in [Fam -> 0..2]
<1>1. /\ rt' \in [Jti -> 0..TTL]
      /\ idx' \in [User -> SUBSET Fam]
      /\ idxTtl' \in [User -> 0..TTL]
      /\ mark' \in [Fam -> 0..TTL]
  BY RefreshAssumption DEF Register, TypeOK
<1>2. raced' \subseteq Fam
  BY DEF Register, Remember, TypeOK
<1>3. late' \in [Fam -> 0..2]
  BY DEF Register, Remember, TypeOK
<1> QED BY <1>1, <1>2, <1>3

-----------------------------------------------------------------------------
LEMMA RefreshInit == Init => TypeOK /\ Shape /\ OneHolder
<1> SUFFICES ASSUME Init PROVE TypeOK /\ Shape /\ OneHolder
  OBVIOUS
<1>1. row \in [User -> Row]
  BY DEF Init, Row
<1>2. TypeOK
  BY <1>1, AbsentType, RefreshAssumption DEF Init, TypeOK, Phases, Ops
<1>3. Shape
  BY DEF Init, Shape, TokenShape, Sound
<1>4. OneHolder
  BY DEF Init, OneHolder, Live, Rotating, Issued
<1> QED BY <1>2, <1>3, <1>4

-----------------------------------------------------------------------------
\* Every step keeps TypeOK; Shape says why the user, family and token a step
\* looks up are there.
LEMMA TypeStep == TypeOK /\ Shape /\ [Next]_vars => TypeOK'
<1> SUFFICES ASSUME TypeOK, Shape, [Next]_vars PROVE TypeOK'
  OBVIOUS
<1> USE RefreshAssumption
<1>0. TTL \in 0..TTL
  OBVIOUS
<1>1. ASSUME NEW r \in Req, NEW u \in User, LoginBegin(r, u) PROVE TypeOK'
  <2> DEFINE p == IF row[u].bcrypt THEN "flush" ELSE "issue"
  <2>1. p \in Phases /\ "login" \in Ops /\ row[u] \in Row
    BY DEF Phases, Ops, TypeOK
  <2>2. Enter(r, p, "login", u, None, row[u], {}) /\ UNCHANGED stale
    BY <1>1 DEF LoginBegin, Begin
  <2> QED BY <1>1, <2>1, <2>2, EnterType DEF LoginBegin, TypeOK, redis, tokens, history
<1>2. ASSUME NEW r \in Req, NEW answered \in BOOLEAN, LoginCommit(r, answered) PROVE TypeOK'
  <2>1. user[r] \in User /\ jti[r] \in Jti
    BY <1>2 DEF LoginCommit, Shape, Sound, Issued
  <2>2. seen[r] \in Row /\ row[user[r]] \in Row
    BY <2>1 DEF TypeOK
  <2>3. Merge(row[user[r]], seen[r], To("login", seen[r])) \in Row
    BY <2>2, ToType, MergeType
  <2>4. row' \in [User -> Row]
    BY <1>2, <2>3 DEF LoginCommit, TypeOK
  <2>5. lock' \in [User -> Req \cup {None}]
    BY <1>2 DEF LoginCommit, TypeOK
  <2>6. wallet' \subseteq Jti
    BY <1>2, <2>1 DEF LoginCommit, TypeOK
  <2> QED BY <1>2, <2>4, <2>5, <2>6, FinishType DEF LoginCommit, TypeOK, redis, history
<1>3. ASSUME NEW r \in Req, NEW j \in Jti, NEW f \in Fam, Issue(r, j, f) PROVE TypeOK'
  <2>1. user[r] \in User
    BY <1>3 DEF Issue, Shape, Sound
  <2>2. Register(j, user[r], f)
    BY <1>3 DEF Issue
  <2>3. /\ famOf' \in [Jti -> Fam \cup {None}]
        /\ subOf' \in [Jti -> User \cup {None}]
        /\ life' \in [Jti -> 0..(TTL + Leeway)]
        /\ row' \in [User -> Row]
        /\ lock' \in [User -> Req \cup {None}]
    BY <1>3, <2>1 DEF Issue, TypeOK
  <2>4. CASE op[r] = "login"
    <3>1. /\ pc' \in [Req -> Phases]
          /\ fam' \in [Req -> Fam \cup {None}]
          /\ jti' \in [Req -> Jti \cup {None}]
          /\ UNCHANGED <<op, user, seen, members, old, stale, aged, wallet>>
      <4>1. /\ pc' = [pc EXCEPT ![r] = "commit"]
            /\ fam' = [fam EXCEPT ![r] = f]
            /\ jti' = [jti EXCEPT ![r] = j]
            /\ UNCHANGED <<op, user, seen, members, old, stale, aged, wallet>>
        BY <1>3, <2>4 DEF Issue
      <4> QED BY <4>1 DEF TypeOK, Phases
    <3> QED BY <2>1, <2>2, <2>3, <3>1, RegisterType DEF TypeOK
  <2>5. CASE op[r] # "login"
    <3>1. Finish(r) /\ wallet' = wallet \cup {j}
      BY <1>3, <2>5 DEF Issue
    <3> QED BY <2>1, <2>2, <2>3, <3>1, RegisterType, FinishType DEF TypeOK
  <2> QED BY <2>4, <2>5
<1>4. ASSUME NEW r \in Req, NEW j \in Jti, Consume(r, j) PROVE TypeOK'
  <2> DEFINE p == IF Live(j) THEN "check" ELSE "reuse"
  <2>1. p \in Phases /\ "rotate" \in Ops
    BY DEF Phases, Ops
  <2>2. Enter(r, p, "rotate", subOf[j], famOf[j], Absent, {}) /\ UNCHANGED stale
    BY <1>4 DEF Consume, Begin
  <2>3. subOf[j] \in User \cup {None} /\ famOf[j] \in Fam \cup {None}
    BY DEF TypeOK
  <2>4. rt' \in [Jti -> 0..TTL]
    BY <1>4 DEF Consume, TypeOK
  <2> QED BY <1>4, <2>1, <2>2, <2>3, <2>4, AbsentType, EnterType
          DEF Consume, TypeOK, tokens, history
<1>5. ASSUME NEW r \in Req, Check(r) PROVE TypeOK'
  <2>1. CASE Finish(r)
    BY <1>5, <2>1, FinishType DEF Check, TypeOK, redis, tokens, history
  <2>2. CASE Goto(r, "load")
    BY <1>5, <2>2, GotoType DEF Check, TypeOK, redis, tokens, history, Phases
  <2> QED BY <1>5, <2>1, <2>2 DEF Check
<1>6. ASSUME NEW r \in Req, Load(r) PROVE TypeOK'
  <2>1. row[user[r]] \in Row
    BY <1>6 DEF Load, Shape, Sound, TypeOK
  <2> QED BY <1>6, <2>1 DEF Load, TypeOK, redis, tokens, history, Phases
<1>7. ASSUME NEW r \in Req, RevokeFamily(r) PROVE TypeOK'
  <2>1. mark' \in [Fam -> 0..TTL]
    BY <1>0, <1>7 DEF RevokeFamily, TypeOK
  <2> QED BY <1>7, <2>1, FinishType DEF RevokeFamily, TypeOK, tokens, history
<1>8. ASSUME NEW j \in Jti, Logout(j) PROVE TypeOK'
  <2>1. mark' \in [Fam -> 0..TTL]
    BY <1>0, <1>8 DEF Logout, TypeOK
  <2> QED BY <1>8, <2>1 DEF Logout, TypeOK, tokens, requests, history
<1>9. ASSUME NEW r \in Req, NEW u \in User, NEW k \in Kinds, ChangeBegin(r, u, k) PROVE TypeOK'
  <2> DEFINE p == IF k \notin FlushFirst /\ revocation_for(k, row[u]) THEN "members" ELSE "flush"
  <2>1. p \in Phases /\ k \in Ops /\ row[u] \in Row
    BY DEF Phases, Ops, TypeOK
  <2>2. Enter(r, p, k, u, None, row[u], LiveFams(u)) /\ UNCHANGED stale
    BY <1>9 DEF ChangeBegin, Begin
  <2>3. LiveFams(u) \in SUBSET Fam
    BY DEF LiveFams, Issued, TypeOK
  <2> QED BY <1>9, <2>1, <2>2, <2>3, EnterType DEF ChangeBegin, TypeOK, redis, tokens, history
<1>10. ASSUME NEW r \in Req, Members(r) PROVE TypeOK'
  <2>1. idx[user[r]] \in SUBSET Fam
    BY <1>10 DEF Members, Shape, Sound, TypeOK
  <2> QED BY <1>10, <2>1 DEF Members, TypeOK, redis, tokens, history, Phases
<1>11. ASSUME NEW r \in Req, MarkAll(r) PROVE TypeOK'
  <2> DEFINE p == IF op[r] \in FlushFirst THEN "commit" ELSE "flush"
  <2>1. p \in Phases /\ Goto(r, p)
    BY <1>11 DEF MarkAll, Phases
  <2>2. mark' \in [Fam -> 0..TTL]
    BY <1>0, <1>11 DEF MarkAll, TypeOK
  <2>3. idx' \in [User -> SUBSET Fam] /\ idxTtl' \in [User -> 0..TTL]
    <3>1. idx' = [idx EXCEPT ![user[r]] = {}] /\ idxTtl' = [idxTtl EXCEPT ![user[r]] = 0]
      BY <1>11 DEF MarkAll
    <3>2. idx \in [User -> SUBSET Fam] /\ idxTtl \in [User -> 0..TTL] /\ 0 \in 0..TTL
      BY DEF TypeOK
    <3> QED BY <3>1, <3>2
  <2> QED BY <1>11, <2>1, <2>2, <2>3, GotoType DEF MarkAll, TypeOK, tokens, history
<1>12. ASSUME NEW r \in Req, Flush(r) PROVE TypeOK'
  <2> DEFINE p == IF op[r] = "login" THEN "issue"
                  ELSE IF op[r] \in FlushFirst THEN "members" ELSE "commit"
  <2>1. p \in Phases /\ Goto(r, p)
    BY <1>12 DEF Flush, Phases
  <2>2. lock' \in [User -> Req \cup {None}]
    BY <1>12 DEF Flush, TypeOK
  <2> QED BY <1>12, <2>1, <2>2, GotoType DEF Flush, TypeOK, redis, tokens, history
<1>13. ASSUME NEW r \in Req, CommitChange(r) PROVE TypeOK'
  <2>1. user[r] \in User /\ seen[r] \in Row /\ row[user[r]] \in Row
    BY <1>13 DEF CommitChange, Shape, Sound, TypeOK
  <2>2. Merge(row[user[r]], seen[r], To(op[r], seen[r])) \in Row
    BY <2>1, ToType, MergeType
  <2>3. row' \in [User -> Row]
    BY <1>13, <2>2 DEF CommitChange, TypeOK
  <2>4. lock' \in [User -> Req \cup {None}]
    BY <1>13 DEF CommitChange, TypeOK
  <2>5. Enter(r, "idle", "none", None, None, Absent, {})
    BY <1>13 DEF CommitChange, Leave
  <2>6. stale' \subseteq Req
    BY <1>13 DEF CommitChange, TypeOK
  <2>7. "idle" \in Phases /\ "none" \in Ops
    BY DEF Phases, Ops
  <2> QED BY <1>13, <2>3, <2>4, <2>5, <2>6, <2>7, AbsentType, EnterType
          DEF CommitChange, TypeOK, redis, tokens, history
<1>14. ASSUME NEW r \in Req, Abort(r) PROVE TypeOK'
  <2>1. lock' \in [User -> Req \cup {None}]
    BY <1>14 DEF Abort, TypeOK
  <2> QED BY <1>14, <2>1, FinishType DEF Abort, TypeOK, redis, tokens, history
<1>15. ASSUME Tick PROVE TypeOK'
  <2>1. \A m, n \in Nat : n \in 0..m => Down(n) \in 0..m
    BY DEF Down
  <2>2. /\ rt' \in [Jti -> 0..TTL]
        /\ life' \in [Jti -> 0..(TTL + Leeway)]
        /\ idxTtl' \in [User -> 0..TTL]
        /\ mark' \in [Fam -> 0..TTL]
    BY <1>15, <2>1 DEF Tick, TypeOK
  <2>3. /\ idx' \in [User -> SUBSET Fam]
        /\ late' \in [Fam -> 0..2]
        /\ aged' \subseteq Req
    BY <1>15 DEF Tick, TypeOK
  <2> QED BY <1>15, <2>2, <2>3 DEF Tick, TypeOK
<1>16. CASE UNCHANGED vars
  BY <1>16 DEF vars, redis, tokens, requests, history, TypeOK
<1> QED BY <1>1, <1>2, <1>3, <1>4, <1>5, <1>6, <1>7, <1>8, <1>9, <1>10, <1>11,
           <1>12, <1>13, <1>14, <1>15, <1>16 DEF Next

-----------------------------------------------------------------------------
\* A step of request r leaves the others where they are.
Others(r) ==
  \A q \in Req \ {r} :
    /\ pc'[q] = pc[q] /\ op'[q] = op[q]
    /\ user'[q] = user[q] /\ fam'[q] = fam[q] /\ jti'[q] = jti[q]
    /\ members'[q] = members[q] /\ seen'[q] = seen[q] /\ old'[q] = old[q]

LEMMA EnterEffect ==
  ASSUME TypeOK, NEW r \in Req, NEW p, NEW o, NEW u, NEW f, NEW s, NEW fams,
         Enter(r, p, o, u, f, s, fams)
  PROVE  /\ Others(r) /\ pc'[r] = p /\ op'[r] = o /\ user'[r] = u /\ fam'[r] = f
         /\ seen'[r] = s /\ old'[r] = fams
  BY DEF Enter, Others, TypeOK

LEMMA FinishEffect ==
  ASSUME TypeOK, NEW r \in Req, Finish(r)
  PROVE  Others(r) /\ pc'[r] = "idle"
<1>1. Enter(r, "idle", "none", None, None, Absent, {})
  BY DEF Finish, Leave
<1> QED BY <1>1, EnterEffect

LEMMA GotoEffect ==
  ASSUME TypeOK, NEW r \in Req, NEW p, Goto(r, p)
  PROVE  /\ Others(r) /\ pc'[r] = p
         /\ op'[r] = op[r] /\ user'[r] = user[r] /\ fam'[r] = fam[r] /\ jti'[r] = jti[r]
         /\ members'[r] = members[r] /\ seen'[r] = seen[r] /\ old'[r] = old[r]
  BY DEF Goto, Others, TypeOK

\* No signature is ever taken back, so what is sound of a request stays so.
LEMMA SoundStep ==
  ASSUME Shape, NEW r \in Req, Others(r), Sound(r)',
         Issued \subseteq Issued', UsedFam \subseteq UsedFam'
  PROVE  \A q \in Req : Sound(q)'
<1> SUFFICES ASSUME NEW q \in Req, q # r PROVE Sound(q)'
  OBVIOUS
<1>1. Sound(q)
  BY DEF Shape
<1>2. /\ pc'[q] = pc[q] /\ op'[q] = op[q]
      /\ user'[q] = user[q] /\ fam'[q] = fam[q] /\ jti'[q] = jti[q]
  BY DEF Others
<1> QED BY <1>1, <1>2 DEF Sound

\* A step that signs nothing and moves request r.
LEMMA QuietStep ==
  ASSUME Shape, NEW r \in Req, Others(r), Sound(r)', famOf' = famOf
  PROVE  \A q \in Req : Sound(q)'
<1>1. Issued' = Issued /\ UsedFam' = UsedFam
  BY DEF Issued, UsedFam
<1> QED BY <1>1, SoundStep

LEMMA ShapeStep == TypeOK /\ Shape /\ [Next]_vars => Shape'
<1> SUFFICES ASSUME TypeOK, Shape, [Next]_vars PROVE Shape'
  OBVIOUS
<1> USE RefreshAssumption
<1>t. ASSUME famOf' = famOf, subOf' = subOf, \A j \in Jti : rt'[j] > 0 => rt[j] > 0, wallet' = wallet
      PROVE  TokenShape'
  BY <1>t DEF Shape, TokenShape, TypeOK
<1>f. ASSUME NEW r \in Req, Finish(r), famOf' = famOf PROVE \A q \in Req : Sound(q)'
  BY <1>f, FinishEffect, QuietStep DEF Sound
<1>1. ASSUME NEW r \in Req, NEW u \in User, LoginBegin(r, u) PROVE Shape'
  <2> DEFINE p == IF row[u].bcrypt THEN "flush" ELSE "issue"
  <2>1. Enter(r, p, "login", u, None, row[u], {})
    BY <1>1 DEF LoginBegin, Begin
  <2>2. Sound(r)'
    BY <2>1, EnterEffect DEF Sound
  <2> QED BY <1>1, <1>t, <2>1, <2>2, EnterEffect, QuietStep DEF LoginBegin, Shape, redis, tokens
<1>2. ASSUME NEW r \in Req, NEW answered \in BOOLEAN, LoginCommit(r, answered) PROVE Shape'
  <2>1. famOf[jti[r]] # None
    BY <1>2 DEF LoginCommit, Shape, Sound, Issued
  <2>2. TokenShape'
    BY <1>2, <2>1 DEF LoginCommit, Shape, TokenShape, redis
  <2> QED BY <1>2, <1>f, <2>2 DEF LoginCommit, Shape
<1>3. ASSUME NEW r \in Req, NEW j \in Jti, NEW f \in Fam, Issue(r, j, f) PROVE Shape'
  <2>1. user[r] \in User /\ j \notin Issued
    BY <1>3 DEF Issue, Shape, Sound
  <2>2. /\ famOf' = [famOf EXCEPT ![j] = f]
        /\ subOf' = [subOf EXCEPT ![j] = user[r]]
        /\ rt' = [rt EXCEPT ![j] = TTL]
        /\ wallet' = wallet \/ wallet' = wallet \cup {j}
    BY <1>3 DEF Issue, Register
  <2>3. famOf'[j] = f /\ \A k \in Issued : famOf'[k] = famOf[k]
    BY <2>1, <2>2 DEF TypeOK, Issued
  <2>4. TokenShape'
    BY <2>1, <2>2 DEF Shape, TokenShape, TypeOK
  <2>5. Issued \subseteq Issued' /\ UsedFam \subseteq UsedFam' /\ j \in Issued'
    BY <2>3 DEF Issued, UsedFam
  <2>6. CASE op[r] = "login"
    <3>1. /\ pc' = [pc EXCEPT ![r] = "commit"]
          /\ fam' = [fam EXCEPT ![r] = f]
          /\ jti' = [jti EXCEPT ![r] = j]
          /\ UNCHANGED <<op, user, members, seen, old>>
      BY <1>3, <2>6 DEF Issue
    <3>2. Others(r) /\ Sound(r)'
      BY <2>1, <2>5, <2>6, <3>1 DEF Others, Sound, TypeOK
    <3> QED BY <2>4, <2>5, <3>2, SoundStep DEF Shape
  <2>7. CASE op[r] # "login"
    <3>1. Finish(r)
      BY <1>3, <2>7 DEF Issue
    <3>2. Others(r) /\ Sound(r)'
      BY <3>1, FinishEffect DEF Sound
    <3> QED BY <2>4, <2>5, <3>2, SoundStep DEF Shape
  <2> QED BY <2>6, <2>7
<1>4. ASSUME NEW r \in Req, NEW j \in Jti, Consume(r, j) PROVE Shape'
  <2> DEFINE p == IF Live(j) THEN "check" ELSE "reuse"
  <2>1. Enter(r, p, "rotate", subOf[j], famOf[j], Absent, {})
    BY <1>4 DEF Consume, Begin
  <2>2. subOf[j] \in User /\ famOf[j] \in UsedFam
    BY <1>4 DEF Consume, Shape, TokenShape, UsedFam, Issued
  <2>3. famOf' = famOf /\ subOf' = subOf /\ wallet' = wallet /\ rt' = [rt EXCEPT ![j] = 0]
    BY <1>4 DEF Consume, tokens
  <2>4. UsedFam' = UsedFam
    BY <2>3 DEF UsedFam, Issued
  <2>5. Sound(r)'
    BY <2>1, <2>2, <2>4, EnterEffect DEF Sound
  <2>6. TokenShape'
    BY <2>3, <1>t DEF TypeOK
  <2> QED BY <2>1, <2>3, <2>5, <2>6, EnterEffect, QuietStep DEF Shape
<1>5. ASSUME NEW r \in Req, Check(r) PROVE Shape'
  <2>1. TokenShape' /\ famOf' = famOf
    BY <1>5, <1>t DEF Check, redis, tokens
  <2>2. CASE Goto(r, "load")
    <3>1. op'[r] = "rotate" /\ user'[r] \in User /\ fam'[r] \in UsedFam'
      BY <1>5, <2>1, <2>2, GotoEffect DEF Check, Shape, Sound, UsedFam, Issued
    <3> QED BY <2>1, <2>2, <3>1, GotoEffect, QuietStep DEF Shape, Sound
  <2> QED BY <1>5, <1>f, <2>1, <2>2 DEF Check, Shape
<1>6. ASSUME NEW r \in Req, Load(r) PROVE Shape'
  <2>1. TokenShape' /\ famOf' = famOf
    BY <1>6, <1>t DEF Load, redis, tokens
  <2>2. Others(r) /\ pc'[r] \in {"issue", "reuse"} /\ op'[r] = op[r] /\ user'[r] = user[r] /\ fam'[r] = fam[r]
    BY <1>6 DEF Load, Others, TypeOK
  <2>3. UsedFam' = UsedFam
    BY <2>1 DEF UsedFam, Issued
  <2>4. Sound(r)'
    BY <1>6, <2>2, <2>3 DEF Load, Shape, Sound
  <2> QED BY <2>1, <2>2, <2>4, QuietStep DEF Shape
<1>7. ASSUME NEW r \in Req, RevokeFamily(r) PROVE Shape'
  BY <1>7, <1>f, <1>t DEF RevokeFamily, Shape, tokens
<1>8. ASSUME NEW j \in Jti, Logout(j) PROVE Shape'
  BY <1>8 DEF Logout, Shape, TokenShape, Sound, tokens, requests, Issued, UsedFam
<1>9. ASSUME NEW r \in Req, NEW u \in User, NEW k \in Kinds, ChangeBegin(r, u, k) PROVE Shape'
  <2> DEFINE p == IF k \notin FlushFirst /\ revocation_for(k, row[u]) THEN "members" ELSE "flush"
  <2>1. Enter(r, p, k, u, None, row[u], LiveFams(u))
    BY <1>9 DEF ChangeBegin, Begin
  <2>2. k # "rotate" /\ k # "login"
    BY DEF ChangeKinds
  <2>3. Sound(r)'
    BY <2>1, <2>2, EnterEffect DEF Sound
  <2> QED BY <1>9, <1>t, <2>1, <2>3, EnterEffect, QuietStep DEF ChangeBegin, Shape, redis, tokens
<1>10. ASSUME NEW r \in Req, Members(r) PROVE Shape'
  <2>1. TokenShape' /\ famOf' = famOf
    BY <1>10, <1>t DEF Members, redis, tokens
  <2>2. Others(r) /\ pc'[r] = "mark" /\ op'[r] = op[r] /\ user'[r] = user[r] /\ fam'[r] = fam[r]
    BY <1>10 DEF Members, Others, TypeOK
  <2>3. UsedFam' = UsedFam
    BY <2>1 DEF UsedFam, Issued
  <2>4. Sound(r)'
    BY <1>10, <2>2, <2>3 DEF Members, Shape, Sound
  <2> QED BY <2>1, <2>2, <2>4, QuietStep DEF Shape
<1>11. ASSUME NEW r \in Req, MarkAll(r) PROVE Shape'
  <2> DEFINE p == IF op[r] \in FlushFirst THEN "commit" ELSE "flush"
  <2>1. TokenShape' /\ famOf' = famOf
    BY <1>11, <1>t DEF MarkAll, tokens
  <2>2. Goto(r, p) /\ pc[r] = "mark"
    BY <1>11 DEF MarkAll
  <2>3. UsedFam' = UsedFam
    BY <2>1 DEF UsedFam, Issued
  <2>4. Sound(r)'
    BY <2>2, <2>3, GotoEffect DEF Shape, Sound, FlushFirst
  <2> QED BY <2>1, <2>2, <2>4, GotoEffect, QuietStep DEF Shape
<1>12. ASSUME NEW r \in Req, Flush(r) PROVE Shape'
  <2> DEFINE p == IF op[r] = "login" THEN "issue"
                  ELSE IF op[r] \in FlushFirst THEN "members" ELSE "commit"
  <2>1. TokenShape' /\ famOf' = famOf
    BY <1>12, <1>t DEF Flush, redis, tokens
  <2>2. Goto(r, p) /\ pc[r] = "flush"
    BY <1>12 DEF Flush
  <2>3. UsedFam' = UsedFam
    BY <2>1 DEF UsedFam, Issued
  <2>4. Sound(r)'
    BY <2>2, <2>3, GotoEffect DEF Shape, Sound
  <2> QED BY <2>1, <2>2, <2>4, GotoEffect, QuietStep DEF Shape
<1>13. ASSUME NEW r \in Req, CommitChange(r) PROVE Shape'
  <2>1. TokenShape' /\ famOf' = famOf
    BY <1>13, <1>t DEF CommitChange, redis, tokens
  <2>2. Enter(r, "idle", "none", None, None, Absent, {})
    BY <1>13 DEF CommitChange, Leave
  <2>3. Others(r) /\ Sound(r)'
    BY <2>2, EnterEffect DEF Sound
  <2> QED BY <2>1, <2>3, QuietStep DEF Shape
<1>14. ASSUME NEW r \in Req, Abort(r) PROVE Shape'
  BY <1>14, <1>f, <1>t DEF Abort, Shape, redis, tokens
<1>15. ASSUME Tick PROVE Shape'
  <2>1. \A j \in Jti : rt'[j] > 0 => rt[j] > 0
    BY <1>15 DEF Tick, Down, TypeOK
  <2>2. TokenShape'
    BY <1>15, <1>t, <2>1 DEF Tick
  <2>3. UNCHANGED <<famOf, pc, op, user, fam, jti>>
    BY <1>15 DEF Tick
  <2> QED BY <2>2, <2>3 DEF Shape, Sound, Issued, UsedFam
<1>16. CASE UNCHANGED vars
  BY <1>16 DEF vars, redis, tokens, requests, Shape, TokenShape, Sound, Issued, UsedFam
<1> QED BY <1>1, <1>2, <1>3, <1>4, <1>5, <1>6, <1>7, <1>8, <1>9, <1>10, <1>11,
           <1>12, <1>13, <1>14, <1>15, <1>16 DEF Next

-----------------------------------------------------------------------------
\* A step that signs nothing, stores nothing and sets no request rotating
\* cannot make a second holder.
LEMMA HolderKept ==
  ASSUME OneHolder, famOf' = famOf, \A j \in Jti : rt'[j] > 0 => rt[j] > 0,
         \A q \in Req : Rotating(q)' => Rotating(q) /\ fam'[q] = fam[q]
  PROVE  OneHolder'
<1>1. Issued' = Issued
  BY DEF Issued
<1>2. \A j \in Issued : Live(j)' => Live(j)
  BY DEF Live, Issued
<1> QED BY <1>1, <1>2 DEF OneHolder

\* The same for a step of request r alone.
LEMMA HolderKeptBy ==
  ASSUME OneHolder, NEW r \in Req, Others(r), famOf' = famOf,
         \A j \in Jti : rt'[j] > 0 => rt[j] > 0,
         Rotating(r)' => Rotating(r) /\ fam'[r] = fam[r]
  PROVE  OneHolder'
<1>1. \A q \in Req : Rotating(q)' => Rotating(q) /\ fam'[q] = fam[q]
  BY DEF Others, Rotating
<1> QED BY <1>1, HolderKept

\* GETDEL hands the family from the token to the request.
LEMMA HolderConsume ==
  ASSUME TypeOK, Shape, OneHolder, NEW r \in Req, NEW j \in Jti, Consume(r, j)
  PROVE  OneHolder'
<1>1. famOf' = famOf /\ rt' = [rt EXCEPT ![j] = 0] /\ j \in Issued
  BY DEF Consume, Shape, TokenShape, Issued, tokens
<1>2. Issued' = Issued /\ \A k \in Issued : Live(k)' <=> k # j /\ Live(k)
  BY <1>1 DEF Issued, Live, TypeOK
<1>3. Others(r) /\ fam'[r] = famOf[j] /\ (Rotating(r)' => Live(j))
  <2> DEFINE p == IF Live(j) THEN "check" ELSE "reuse"
  <2>1. Enter(r, p, "rotate", subOf[j], famOf[j], Absent, {})
    BY DEF Consume, Begin
  <2> QED BY <2>1, EnterEffect DEF Rotating
<1>4. \A q \in Req \ {r} : fam'[q] = fam[q] /\ (Rotating(q)' <=> Rotating(q))
  BY <1>3 DEF Others, Rotating
<1>5. ASSUME NEW k \in Issued, NEW l \in Issued, Live(k)', Live(l)', famOf[k] = famOf[l]
      PROVE  k = l
  BY <1>2, <1>5 DEF OneHolder
<1>6. ASSUME NEW q \in Req, q # r, Rotating(q)', Rotating(r)' PROVE fam'[q] # fam'[r]
  BY <1>1, <1>3, <1>4, <1>6 DEF OneHolder
<1>7. ASSUME NEW q \in Req, NEW k \in Issued, Rotating(q)', Live(k)'
      PROVE  fam'[q] # famOf[k]
  BY <1>1, <1>2, <1>3, <1>4, <1>7 DEF OneHolder
<1>8. ASSUME NEW p \in Req, NEW q \in Req, Rotating(p)', Rotating(q)', fam'[p] = fam'[q]
      PROVE  p = q
  BY <1>4, <1>6, <1>8 DEF OneHolder
<1> QED BY <1>1, <1>2, <1>5, <1>7, <1>8 DEF OneHolder

\* register hands it back to a token, or gives a login a family of its own.
LEMMA HolderIssue ==
  ASSUME TypeOK, Shape, OneHolder,
         NEW r \in Req, NEW j \in Jti, NEW f \in Fam, Issue(r, j, f)
  PROVE  OneHolder'
<1>1. /\ j \notin Issued
      /\ famOf' = [famOf EXCEPT ![j] = f]
      /\ rt' = [rt EXCEPT ![j] = TTL]
  BY DEF Issue, Register
<1>2. famOf'[j] = f /\ \A k \in Issued : famOf'[k] = famOf[k] /\ (Live(k)' <=> Live(k))
  BY <1>1 DEF TypeOK, Issued, Live
<1>3. Issued' = Issued \cup {j}
  BY <1>1, RefreshAssumption DEF Issued, TypeOK
<1>4. Others(r) /\ ~Rotating(r)'
  <2>1. CASE op[r] = "login"
    <3>1. /\ pc' = [pc EXCEPT ![r] = "commit"]
          /\ fam' = [fam EXCEPT ![r] = f]
          /\ jti' = [jti EXCEPT ![r] = j]
          /\ UNCHANGED <<op, user, members, seen, old>>
      BY <2>1 DEF Issue
    <3> QED BY <3>1, <2>1 DEF Others, Rotating, TypeOK
  <2>2. CASE op[r] # "login"
    BY <2>2, FinishEffect DEF Issue, Rotating
  <2> QED BY <2>1, <2>2
<1>5. \A q \in Req : Rotating(q)' => q # r /\ Rotating(q) /\ fam'[q] = fam[q]
  BY <1>4 DEF Others, Rotating
<1>6. \A q \in Req \ {r} : Rotating(q) => fam[q] # f
  <2>1. CASE op[r] = "login"
    BY <2>1 DEF Issue, Shape, Sound, Rotating
  <2>2. CASE op[r] # "login"
    <3>1. Rotating(r) /\ f = fam[r]
      BY <2>2 DEF Issue, Rotating, Shape, Sound
    <3> QED BY <3>1 DEF OneHolder
  <2> QED BY <2>1, <2>2
<1>7. \A k \in Issued : Live(k) => famOf[k] # f
  <2>1. CASE op[r] = "login"
    BY <2>1 DEF Issue, UsedFam
  <2>2. CASE op[r] # "login"
    <3>1. Rotating(r) /\ f = fam[r]
      BY <2>2 DEF Issue, Rotating, Shape, Sound
    <3> QED BY <3>1 DEF OneHolder
  <2> QED BY <2>1, <2>2
<1>8. ASSUME NEW k \in Issued', NEW l \in Issued', Live(k)', Live(l)', famOf'[k] = famOf'[l]
      PROVE  k = l
  BY <1>2, <1>3, <1>7, <1>8 DEF OneHolder
<1>9. ASSUME NEW q \in Req, NEW k \in Issued', Rotating(q)', Live(k)'
      PROVE  fam'[q] # famOf'[k]
  BY <1>2, <1>3, <1>5, <1>6, <1>9 DEF OneHolder
<1>10. ASSUME NEW p \in Req, NEW q \in Req, Rotating(p)', Rotating(q)', fam'[p] = fam'[q]
       PROVE  p = q
  BY <1>5, <1>10 DEF OneHolder
<1> QED BY <1>8, <1>9, <1>10 DEF OneHolder

LEMMA HolderStep == TypeOK /\ Shape /\ OneHolder /\ [Next]_vars => OneHolder'
<1> SUFFICES ASSUME TypeOK, Shape, OneHolder, [Next]_vars PROVE OneHolder'
  OBVIOUS
<1>f. ASSUME NEW r \in Req, Finish(r), famOf' = famOf, rt' = rt PROVE OneHolder'
  BY <1>f, FinishEffect, HolderKeptBy DEF Rotating
<1>1. ASSUME NEW r \in Req, NEW u \in User, LoginBegin(r, u) PROVE OneHolder'
  <2> DEFINE p == IF row[u].bcrypt THEN "flush" ELSE "issue"
  <2>1. Enter(r, p, "login", u, None, row[u], {}) /\ famOf' = famOf /\ rt' = rt
    BY <1>1 DEF LoginBegin, Begin, redis, tokens
  <2> QED BY <2>1, EnterEffect, HolderKeptBy DEF Rotating
<1>2. ASSUME NEW r \in Req, NEW answered \in BOOLEAN, LoginCommit(r, answered) PROVE OneHolder'
  BY <1>2, <1>f DEF LoginCommit, redis
<1>3. ASSUME NEW r \in Req, NEW j \in Jti, NEW f \in Fam, Issue(r, j, f) PROVE OneHolder'
  BY <1>3, HolderIssue
<1>4. ASSUME NEW r \in Req, NEW j \in Jti, Consume(r, j) PROVE OneHolder'
  BY <1>4, HolderConsume
<1>5. ASSUME NEW r \in Req, Check(r) PROVE OneHolder'
  <2>1. famOf' = famOf /\ rt' = rt /\ pc[r] = "check"
    BY <1>5 DEF Check, redis, tokens
  <2>2. CASE Goto(r, "load")
    BY <2>1, <2>2, GotoEffect, HolderKeptBy DEF Rotating
  <2> QED BY <1>5, <1>f, <2>1, <2>2 DEF Check
<1>6. ASSUME NEW r \in Req, Load(r) PROVE OneHolder'
  <2>1. famOf' = famOf /\ rt' = rt /\ pc[r] = "load"
    BY <1>6 DEF Load, redis, tokens
  <2>2. Others(r) /\ op'[r] = op[r] /\ fam'[r] = fam[r]
    BY <1>6 DEF Load, Others, TypeOK
  <2> QED BY <2>1, <2>2, HolderKeptBy DEF Rotating
<1>7. ASSUME NEW r \in Req, RevokeFamily(r) PROVE OneHolder'
  BY <1>7, <1>f DEF RevokeFamily, tokens
<1>8. ASSUME NEW j \in Jti, Logout(j) PROVE OneHolder'
  BY <1>8, HolderKept DEF Logout, tokens, requests, Rotating
<1>9. ASSUME NEW r \in Req, NEW u \in User, NEW k \in Kinds, ChangeBegin(r, u, k) PROVE OneHolder'
  <2> DEFINE p == IF k \notin FlushFirst /\ revocation_for(k, row[u]) THEN "members" ELSE "flush"
  <2>1. Enter(r, p, k, u, None, row[u], LiveFams(u)) /\ famOf' = famOf /\ rt' = rt
    BY <1>9 DEF ChangeBegin, Begin, redis, tokens
  <2> QED BY <2>1, EnterEffect, HolderKeptBy DEF Rotating
<1>10. ASSUME NEW r \in Req, Members(r) PROVE OneHolder'
  <2>1. famOf' = famOf /\ rt' = rt
    BY <1>10 DEF Members, redis, tokens
  <2>2. Others(r) /\ pc'[r] = "mark"
    BY <1>10 DEF Members, Others, TypeOK
  <2> QED BY <2>1, <2>2, HolderKeptBy DEF Rotating
<1>11. ASSUME NEW r \in Req, MarkAll(r) PROVE OneHolder'
  <2> DEFINE p == IF op[r] \in FlushFirst THEN "commit" ELSE "flush"
  <2>1. Goto(r, p) /\ famOf' = famOf /\ rt' = rt
    BY <1>11 DEF MarkAll, tokens
  <2> QED BY <2>1, GotoEffect, HolderKeptBy DEF Rotating
<1>12. ASSUME NEW r \in Req, Flush(r) PROVE OneHolder'
  <2> DEFINE p == IF op[r] = "login" THEN "issue"
                  ELSE IF op[r] \in FlushFirst THEN "members" ELSE "commit"
  <2>1. Goto(r, p) /\ famOf' = famOf /\ rt' = rt
    BY <1>12 DEF Flush, redis, tokens
  <2> QED BY <2>1, GotoEffect, HolderKeptBy DEF Rotating
<1>13. ASSUME NEW r \in Req, CommitChange(r) PROVE OneHolder'
  <2>1. Enter(r, "idle", "none", None, None, Absent, {}) /\ famOf' = famOf /\ rt' = rt
    BY <1>13 DEF CommitChange, Leave, redis, tokens
  <2> QED BY <2>1, EnterEffect, HolderKeptBy DEF Rotating
<1>14. ASSUME NEW r \in Req, Abort(r) PROVE OneHolder'
  BY <1>14, <1>f DEF Abort, redis, tokens
<1>15. ASSUME Tick PROVE OneHolder'
  <2>1. \A j \in Jti : rt'[j] > 0 => rt[j] > 0
    BY <1>15 DEF Tick, Down, TypeOK
  <2> QED BY <1>15, <2>1, HolderKept DEF Tick, Rotating
<1>16. CASE UNCHANGED vars
  BY <1>16, HolderKept DEF vars, redis, tokens, requests, Rotating
<1> QED BY <1>1, <1>2, <1>3, <1>4, <1>5, <1>6, <1>7, <1>8, <1>9, <1>10, <1>11,
           <1>12, <1>13, <1>14, <1>15, <1>16 DEF Next

-----------------------------------------------------------------------------
\* The inductive invariant of the login sessions.
THEOREM RefreshInvariant == Spec => [](TypeOK /\ Shape /\ OneHolder)
<1> DEFINE Inv == TypeOK /\ Shape /\ OneHolder
<1>1. Init => Inv
  BY RefreshInit
<1>2. Inv /\ [Next]_vars => Inv'
  BY TypeStep, ShapeStep, HolderStep
<1> QED BY <1>1, <1>2, PTL DEF Spec

\* Every variable of the login sessions keeps its type: TTLs stay within the
\* configured TTL, whatever the order of register, revocation and expiry.
THEOREM RefreshTyped == Spec => []TypeOK
  BY RefreshInvariant, PTL

\* One live token or one rotation per login session (rotate, _issue, GETDEL).
THEOREM RefreshOneHolder == Spec => []OneHolder
  BY RefreshInvariant, PTL
-----------------------------------------------------------------------------
Base == TypeOK /\ Shape /\ OneHolder

\* A rotation that is_family_revoked has let through.
Passed(r) == op[r] = "rotate" /\ pc[r] \in {"load", "issue"}

\* A family that has had its late token is marked, and nothing of it is past
\* the check.
LateOf(f) ==
  late[f] > 0 =>
    /\ late[f] = 1 /\ mark[f] > 0 /\ f \in UsedFam
    /\ \A r \in Req : Passed(r) => fam[r] # f

LateInv == \A f \in Fam : LateOf(f)

\* Nothing is signed, no marker falls and nobody passes the check.
LEMMA LateKept ==
  ASSUME Base, LateInv, late' = late, famOf' = famOf,
         \A f \in Fam : mark[f] > 0 => mark'[f] > 0,
         \A q \in Req : Passed(q)' => Passed(q) /\ fam'[q] = fam[q]
  PROVE  LateInv'
<1>1. UsedFam' = UsedFam
  BY DEF UsedFam, Issued
<1> QED BY <1>1 DEF LateInv, LateOf

LEMMA LateKeptBy ==
  ASSUME Base, LateInv, NEW r \in Req, Others(r), late' = late, famOf' = famOf,
         \A f \in Fam : mark[f] > 0 => mark'[f] > 0,
         Passed(r)' => Passed(r) /\ fam'[r] = fam[r]
  PROVE  LateInv'
<1>1. \A q \in Req : Passed(q)' => Passed(q) /\ fam'[q] = fam[q]
  BY DEF Others, Passed
<1> QED BY <1>1, LateKept

LEMMA LateCheck ==
  ASSUME Base, LateInv, NEW r \in Req, Check(r)
  PROVE  LateInv'
<1>1. famOf' = famOf /\ mark' = mark /\ late' = late /\ pc[r] = "check"
  BY DEF Check, redis, tokens, history
<1>2. UsedFam' = UsedFam
  BY <1>1 DEF UsedFam, Issued
<1>3. CASE mark[fam[r]] > 0
  <2>1. Finish(r)
    BY <1>3 DEF Check
  <2> QED BY <1>1, <2>1, FinishEffect, LateKeptBy DEF Passed, Base
<1>4. CASE ~(mark[fam[r]] > 0)
  <2>1. Goto(r, "load")
    BY <1>4 DEF Check
  <2>2. fam'[r] = fam[r] /\ \A q \in Req \ {r} : Passed(q)' => Passed(q) /\ fam'[q] = fam[q]
    BY <2>1, GotoEffect DEF Others, Passed, Base
  <2>3. ASSUME NEW f \in Fam PROVE LateOf(f)'
    <3>1. late[f] > 0 => fam[r] # f
      BY <1>4 DEF LateInv, LateOf
    <3> QED BY <1>1, <1>2, <2>2, <3>1 DEF LateInv, LateOf
  <2> QED BY <2>3 DEF LateInv
<1> QED BY <1>3, <1>4

LEMMA LateIssue ==
  ASSUME Base, LateInv, NEW r \in Req, NEW j \in Jti, NEW f \in Fam, Issue(r, j, f)
  PROVE  LateInv'
<1> USE DEF Base
<1>1. /\ j \notin Issued
      /\ famOf' = [famOf EXCEPT ![j] = f]
      /\ mark' = mark
      /\ late' = IF mark[f] > 0 /\ late[f] < 2 THEN [late EXCEPT ![f] = @ + 1] ELSE late
  BY DEF Issue, Register, Remember
<1>2. UsedFam \subseteq UsedFam' /\ f \in UsedFam'
  <2>1. famOf'[j] = f /\ \A k \in Issued : famOf'[k] = famOf[k]
    BY <1>1 DEF TypeOK, Issued
  <2> QED BY <2>1, RefreshAssumption DEF Issued, UsedFam
<1>3. /\ \A q \in Req : Passed(q)' => q # r /\ Passed(q) /\ fam'[q] = fam[q]
      /\ \A q \in Req \ {r} : Passed(q) => fam[q] # f
      /\ late[f] = 0
  <2>1. CASE op[r] = "login"
    <3>1. /\ pc' = [pc EXCEPT ![r] = "commit"]
          /\ fam' = [fam EXCEPT ![r] = f]
          /\ op' = op
          /\ f \notin UsedFam
      BY <2>1 DEF Issue
    <3>2. late[f] = 0
      BY <3>1 DEF LateInv, LateOf, TypeOK
    <3>3. \A q \in Req : Passed(q) => fam[q] \in UsedFam
      BY DEF Passed, Shape, Sound
    <3> QED BY <2>1, <3>1, <3>2, <3>3 DEF Passed, TypeOK
  <2>2. CASE op[r] # "login"
    <3>1. Finish(r) /\ f = fam[r] /\ Passed(r) /\ Rotating(r)
      BY <2>2 DEF Issue, Shape, Sound, Passed, Rotating
    <3>2. Others(r) /\ pc'[r] = "idle"
      BY <3>1, FinishEffect
    <3>3. late[f] = 0
      BY <3>1 DEF LateInv, LateOf, TypeOK
    <3>4. \A q \in Req \ {r} : Passed(q) => fam[q] # f
      BY <3>1 DEF OneHolder, Passed, Rotating
    <3> QED BY <3>2, <3>3, <3>4 DEF Others, Passed
  <2> QED BY <2>1, <2>2
<1>4. ASSUME NEW g \in Fam PROVE LateOf(g)'
  <2>1. CASE g = f
    BY <1>1, <1>2, <1>3, <2>1 DEF LateOf, TypeOK
  <2>2. CASE g # f
    <3>1. late'[g] = late[g]
      BY <1>1, <2>2 DEF TypeOK
    <3> QED BY <1>1, <1>2, <1>3, <3>1 DEF LateInv, LateOf
  <2> QED BY <2>1, <2>2
<1> QED BY <1>4 DEF LateInv

LEMMA LateTick == ASSUME Base, LateInv, Tick PROVE LateInv'
<1>1. UNCHANGED <<famOf, pc, op, fam>>
  BY DEF Tick
<1>2. UsedFam' = UsedFam /\ \A q \in Req : Passed(q)' <=> Passed(q)
  BY <1>1 DEF UsedFam, Issued, Passed
<1>3. \A f \in Fam : late'[f] > 0 => late'[f] = late[f] /\ mark'[f] > 0
  BY DEF Tick, Down, Base, TypeOK
<1> QED BY <1>1, <1>2, <1>3 DEF LateInv, LateOf

LEMMA LateStep == Base /\ LateInv /\ [Next]_vars => LateInv'
<1> SUFFICES ASSUME Base, LateInv, [Next]_vars PROVE LateInv'
  OBVIOUS
<1> USE RefreshAssumption
<1>t. TypeOK /\ TTL > 0 /\ \A f \in Fam : mark[f] \in Nat
  BY DEF Base, TypeOK
<1>f. ASSUME NEW r \in Req, Finish(r), famOf' = famOf, mark' = mark, late' = late PROVE LateInv'
  BY <1>f, <1>t, FinishEffect, LateKeptBy DEF Passed
<1>1. ASSUME NEW r \in Req, NEW u \in User, LoginBegin(r, u) PROVE LateInv'
  <2> DEFINE p == IF row[u].bcrypt THEN "flush" ELSE "issue"
  <2>1. /\ Enter(r, p, "login", u, None, row[u], {})
        /\ famOf' = famOf /\ mark' = mark /\ late' = late
    BY <1>1 DEF LoginBegin, Begin, redis, tokens, history
  <2> QED BY <1>t, <2>1, EnterEffect, LateKeptBy DEF Passed
<1>2. ASSUME NEW r \in Req, NEW answered \in BOOLEAN, LoginCommit(r, answered) PROVE LateInv'
  BY <1>2, <1>f DEF LoginCommit, redis, history
<1>3. ASSUME NEW r \in Req, NEW j \in Jti, NEW f \in Fam, Issue(r, j, f) PROVE LateInv'
  BY <1>3, LateIssue
<1>4. ASSUME NEW r \in Req, NEW j \in Jti, Consume(r, j) PROVE LateInv'
  <2> DEFINE p == IF Live(j) THEN "check" ELSE "reuse"
  <2>1. /\ Enter(r, p, "rotate", subOf[j], famOf[j], Absent, {})
        /\ famOf' = famOf /\ mark' = mark /\ late' = late
    BY <1>4 DEF Consume, Begin, tokens, history
  <2> QED BY <1>t, <2>1, EnterEffect, LateKeptBy DEF Passed
<1>5. ASSUME NEW r \in Req, Check(r) PROVE LateInv'
  BY <1>5, LateCheck
<1>6. ASSUME NEW r \in Req, Load(r) PROVE LateInv'
  <2>1. famOf' = famOf /\ mark' = mark /\ late' = late /\ pc[r] = "load"
    BY <1>6 DEF Load, redis, tokens, history
  <2>2. Others(r) /\ op'[r] = op[r] /\ fam'[r] = fam[r]
    BY <1>6, <1>t DEF Load, Others, TypeOK
  <2> QED BY <2>1, <2>2, LateKeptBy DEF Passed
<1>7. ASSUME NEW r \in Req, RevokeFamily(r) PROVE LateInv'
  <2>1. Finish(r) /\ famOf' = famOf /\ late' = late
    BY <1>7 DEF RevokeFamily, tokens, history
  <2>2. \A f \in Fam : mark[f] > 0 => mark'[f] > 0
    BY <1>7, <1>t DEF RevokeFamily, TypeOK
  <2> QED BY <1>t, <2>1, <2>2, FinishEffect, LateKeptBy DEF Passed
<1>8. ASSUME NEW j \in Jti, Logout(j) PROVE LateInv'
  <2>1. UNCHANGED <<famOf, late, pc, op, fam>>
    BY <1>8 DEF Logout, tokens, requests, history
  <2>2. \A f \in Fam : mark[f] > 0 => mark'[f] > 0
    BY <1>8, <1>t DEF Logout, TypeOK
  <2> QED BY <2>1, <2>2, LateKept DEF Passed
<1>9. ASSUME NEW r \in Req, NEW u \in User, NEW k \in Kinds, ChangeBegin(r, u, k) PROVE LateInv'
  <2> DEFINE p == IF k \notin FlushFirst /\ revocation_for(k, row[u]) THEN "members" ELSE "flush"
  <2>1. /\ Enter(r, p, k, u, None, row[u], LiveFams(u))
        /\ famOf' = famOf /\ mark' = mark /\ late' = late
    BY <1>9 DEF ChangeBegin, Begin, redis, tokens, history
  <2> QED BY <1>t, <2>1, EnterEffect, LateKeptBy DEF Passed
<1>10. ASSUME NEW r \in Req, Members(r) PROVE LateInv'
  <2>1. famOf' = famOf /\ mark' = mark /\ late' = late
    BY <1>10 DEF Members, redis, tokens, history
  <2>2. Others(r) /\ pc'[r] = "mark"
    BY <1>10, <1>t DEF Members, Others, TypeOK
  <2> QED BY <2>1, <2>2, LateKeptBy DEF Passed
<1>11. ASSUME NEW r \in Req, MarkAll(r) PROVE LateInv'
  <2> DEFINE p == IF op[r] \in FlushFirst THEN "commit" ELSE "flush"
  <2>1. Goto(r, p) /\ famOf' = famOf /\ late' = late
    BY <1>11 DEF MarkAll, tokens, history
  <2>2. \A f \in Fam : mark[f] > 0 => mark'[f] > 0
    BY <1>11, <1>t DEF MarkAll
  <2> QED BY <1>t, <2>1, <2>2, GotoEffect, LateKeptBy DEF Passed
<1>12. ASSUME NEW r \in Req, Flush(r) PROVE LateInv'
  <2> DEFINE p == IF op[r] = "login" THEN "issue"
                  ELSE IF op[r] \in FlushFirst THEN "members" ELSE "commit"
  <2>1. Goto(r, p) /\ famOf' = famOf /\ mark' = mark /\ late' = late
    BY <1>12 DEF Flush, redis, tokens, history
  <2> QED BY <1>t, <2>1, GotoEffect, LateKeptBy DEF Passed
<1>13. ASSUME NEW r \in Req, CommitChange(r) PROVE LateInv'
  <2>1. /\ Enter(r, "idle", "none", None, None, Absent, {})
        /\ famOf' = famOf /\ mark' = mark /\ late' = late
    BY <1>13 DEF CommitChange, Leave, redis, tokens, history
  <2> QED BY <1>t, <2>1, EnterEffect, LateKeptBy DEF Passed
<1>14. ASSUME NEW r \in Req, Abort(r) PROVE LateInv'
  BY <1>14, <1>f DEF Abort, redis, tokens, history
<1>15. ASSUME Tick PROVE LateInv'
  BY <1>15, LateTick
<1>16. CASE UNCHANGED vars
  BY <1>16, LateKept DEF vars, redis, tokens, requests, history, Passed
<1> QED BY <1>1, <1>2, <1>3, <1>4, <1>5, <1>6, <1>7, <1>8, <1>9, <1>10, <1>11,
           <1>12, <1>13, <1>14, <1>15, <1>16 DEF Next

-----------------------------------------------------------------------------
\* A revoked family yields at most one more token, whatever the number of
\* requests: rotate consumes before it checks the marker.
THEOREM RefreshOneLateToken == Spec => []AtMostOneLateToken
<1>1. Init => LateInv
  BY DEF Init, LateInv, LateOf
<1>2. Base /\ LateInv => AtMostOneLateToken
  BY DEF Base, TypeOK, LateInv, LateOf, AtMostOneLateToken
<1>3. Spec => []Base
  BY RefreshInvariant DEF Base
<1> QED BY <1>1, <1>2, <1>3, LateStep, PTL DEF Spec

-----------------------------------------------------------------------------
\* A sweep under way: what the index holds of its user it has read, or the
\* registration that came after has been noted as raced.
SweepOf(r) ==
  /\ pc[r] \in {"members", "mark"} => op[r] \in ChangeKinds
  /\ pc[r] = "mark" => \A f \in idx[user[r]] : f \in members[r] \cup raced

TrackInv == LiveTokenTracked /\ \A r \in Req : SweepOf(r)

LEMMA TrackedKept ==
  ASSUME Base, LiveTokenTracked, UNCHANGED <<famOf, subOf, idx, idxTtl, raced>>,
         \A j \in Jti : rt'[j] = rt[j] \/ rt'[j] = 0,
         \A f \in Fam : mark'[f] = mark[f] \/ mark'[f] = TTL
  PROVE  LiveTokenTracked'
<1>1. \A j \in Jti : rt[j] \in 0..TTL
  BY DEF Base, TypeOK
<1>2. \A j \in Issued : famOf[j] \in Fam
  BY DEF Base, TypeOK, Issued
<1>3. Issued' = Issued
  BY DEF Issued
<1> QED BY <1>1, <1>2, <1>3, RefreshAssumption DEF LiveTokenTracked, Live, Issued

LEMMA SweepKeptBy ==
  ASSUME TrackInv, NEW r \in Req, Others(r), idx' = idx, raced' = raced, SweepOf(r)'
  PROVE  \A q \in Req : SweepOf(q)'
<1> SUFFICES ASSUME NEW q \in Req, q # r PROVE SweepOf(q)'
  OBVIOUS
<1>1. SweepOf(q)
  BY DEF TrackInv
<1>2. /\ pc'[q] = pc[q] /\ op'[q] = op[q]
      /\ user'[q] = user[q] /\ members'[q] = members[q]
  BY DEF Others
<1> QED BY <1>1, <1>2 DEF SweepOf

LEMMA TrackIssue ==
  ASSUME Base, TrackInv, NEW r \in Req, NEW j \in Jti, NEW f \in Fam, Issue(r, j, f)
  PROVE  TrackInv'
<1> USE DEF Base
<1> DEFINE u == user[r]
<1>1. /\ u \in User /\ j \notin Issued
      /\ famOf' = [famOf EXCEPT ![j] = f]
      /\ subOf' = [subOf EXCEPT ![j] = u]
      /\ rt' = [rt EXCEPT ![j] = TTL]
      /\ idx' = [idx EXCEPT ![u] = @ \cup {f}]
      /\ idxTtl' = [idxTtl EXCEPT ![u] = TTL]
      /\ mark' = mark
      /\ raced' = IF Crossed(u, f) THEN raced \cup {f} ELSE raced
  BY DEF Issue, Register, Remember, Shape, Sound
<1>2. LiveTokenTracked'
  <2> SUFFICES ASSUME NEW k \in Issued', Live(k)'
               PROVE  \/ famOf'[k] \in raced'
                      \/ famOf'[k] \in idx'[subOf'[k]] /\ idxTtl'[subOf'[k]] >= rt'[k]
                      \/ mark'[famOf'[k]] >= rt'[k]
    BY DEF LiveTokenTracked
  <2>1. CASE k = j
    <3>1. famOf'[k] = f /\ subOf'[k] = u /\ rt'[k] = TTL
      BY <1>1, <2>1 DEF TypeOK
    <3>2. f \in idx'[u] /\ idxTtl'[u] = TTL
      BY <1>1 DEF TypeOK
    <3> QED BY <3>1, <3>2, RefreshAssumption
  <2>2. CASE k # j
    <3>1. k \in Issued /\ famOf'[k] = famOf[k] /\ subOf'[k] = subOf[k] /\ rt'[k] = rt[k]
      BY <1>1, <2>2 DEF TypeOK, Issued
    <3>2. Live(k) /\ subOf[k] \in User /\ rt[k] \in 0..TTL
      BY <3>1 DEF Live, Shape, TokenShape, Issued, TypeOK
    <3>3. raced \subseteq raced' /\ idx[subOf[k]] \subseteq idx'[subOf[k]]
      BY <1>1, <3>2 DEF TypeOK
    <3>4. idxTtl[subOf[k]] >= rt[k] => idxTtl'[subOf[k]] >= rt[k]
      BY <1>1, <3>2, RefreshAssumption DEF TypeOK
    <3> QED BY <1>1, <3>1, <3>2, <3>3, <3>4 DEF TrackInv, LiveTokenTracked
  <2> QED BY <2>1, <2>2
<1>3. ASSUME NEW q \in Req, q # r PROVE SweepOf(q)'
  <2>1. Others(r)
    <3>1. CASE op[r] = "login"
      <4>1. /\ pc' = [pc EXCEPT ![r] = "commit"]
            /\ fam' = [fam EXCEPT ![r] = f]
            /\ jti' = [jti EXCEPT ![r] = j]
            /\ UNCHANGED <<op, user, members, seen, old>>
        BY <3>1 DEF Issue
      <4> QED BY <4>1 DEF Others, TypeOK
    <3>2. CASE op[r] # "login"
      BY <3>2, FinishEffect DEF Issue
    <3> QED BY <3>1, <3>2
  <2>2. /\ pc'[q] = pc[q] /\ op'[q] = op[q]
        /\ user'[q] = user[q] /\ members'[q] = members[q]
    BY <1>3, <2>1 DEF Others
  <2>3. SweepOf(q)
    BY DEF TrackInv
  <2>4. pc[q] = "mark" => user[q] \in User
    BY DEF Shape, Sound
  <2>5. pc[q] = "mark" /\ user[q] = u /\ f \notin members[q] => f \in raced'
    BY <1>1, <2>3 DEF SweepOf, Crossed, Sweeping
  <2>6. \A g \in idx'[user[q]] : pc[q] = "mark" =>
          g \in idx[user[q]] \/ (user[q] = u /\ g = f)
    BY <1>1, <2>4 DEF TypeOK
  <2>7. raced \subseteq raced'
    BY <1>1
  <2> QED BY <2>2, <2>3, <2>5, <2>6, <2>7 DEF SweepOf
<1>4. SweepOf(r)'
  <2>1. pc'[r] \in {"commit", "idle"}
    <3>1. CASE op[r] = "login"
      BY <3>1 DEF Issue, TypeOK
    <3>2. CASE op[r] # "login"
      BY <3>2, FinishEffect DEF Issue
    <3> QED BY <3>1, <3>2
  <2> QED BY <2>1 DEF SweepOf
<1> QED BY <1>2, <1>3, <1>4 DEF TrackInv

LEMMA TrackMarkAll ==
  ASSUME Base, TrackInv, NEW r \in Req, MarkAll(r)
  PROVE  TrackInv'
<1> USE DEF Base
<1> DEFINE u == user[r]
           p == IF op[r] \in FlushFirst THEN "commit" ELSE "flush"
<1>1. /\ pc[r] = "mark"
      /\ mark' = [f \in Fam |-> IF f \in members[r] THEN TTL ELSE mark[f]]
      /\ idx' = [idx EXCEPT ![u] = {}]
      /\ idxTtl' = [idxTtl EXCEPT ![u] = 0]
      /\ UNCHANGED <<rt, famOf, subOf, raced>>
      /\ Goto(r, p)
  BY DEF MarkAll, tokens, history
<1>2. LiveTokenTracked'
  <2> SUFFICES ASSUME NEW k \in Issued, Live(k)
               PROVE  \/ famOf[k] \in raced
                      \/ famOf[k] \in idx'[subOf[k]] /\ idxTtl'[subOf[k]] >= rt[k]
                      \/ mark'[famOf[k]] >= rt[k]
    BY <1>1 DEF LiveTokenTracked, Live, Issued
  <2>1. famOf[k] \in Fam /\ subOf[k] \in User /\ rt[k] \in 0..TTL /\ mark[famOf[k]] \in 0..TTL
    BY DEF TypeOK, Issued, Shape, TokenShape
  <2>2. CASE famOf[k] \in members[r]
    BY <1>1, <2>1, <2>2, RefreshAssumption
  <2>3. CASE famOf[k] \notin members[r] /\ subOf[k] = u
    <3>1. famOf[k] \in idx[u] => famOf[k] \in raced
      BY <1>1, <2>3 DEF TrackInv, SweepOf
    <3> QED BY <1>1, <2>1, <2>3, <3>1 DEF TrackInv, LiveTokenTracked
  <2>4. CASE famOf[k] \notin members[r] /\ subOf[k] # u
    <3>1. idx'[subOf[k]] = idx[subOf[k]] /\ idxTtl'[subOf[k]] = idxTtl[subOf[k]]
      BY <1>1, <2>1, <2>4 DEF TypeOK
    <3> QED BY <1>1, <2>1, <2>4, <3>1 DEF TrackInv, LiveTokenTracked
  <2> QED BY <2>2, <2>3, <2>4
<1>3. Others(r) /\ pc'[r] = p
  BY <1>1, GotoEffect
<1>4. ASSUME NEW q \in Req, q # r PROVE SweepOf(q)'
  <2>1. /\ pc'[q] = pc[q] /\ op'[q] = op[q]
        /\ user'[q] = user[q] /\ members'[q] = members[q]
    BY <1>3, <1>4 DEF Others
  <2>2. pc[q] = "mark" => user[q] \in User
    BY DEF Shape, Sound
  <2>3. pc[q] = "mark" => idx'[user[q]] \subseteq idx[user[q]]
    BY <1>1, <2>2 DEF TypeOK
  <2> QED BY <1>1, <2>1, <2>3 DEF TrackInv, SweepOf
<1>5. SweepOf(r)'
  BY <1>3 DEF SweepOf
<1> QED BY <1>2, <1>4, <1>5 DEF TrackInv

LEMMA TrackTick == ASSUME Base, TrackInv, Tick PROVE TrackInv'
<1> USE DEF Base
<1>1. UNCHANGED <<famOf, subOf, raced, pc, op, user, members>>
  BY DEF Tick
<1>2. ASSUME NEW k \in Issued, Live(k)'
      PROVE  \/ famOf[k] \in raced
             \/ famOf[k] \in idx'[subOf[k]] /\ idxTtl'[subOf[k]] >= rt'[k]
             \/ mark'[famOf[k]] >= rt'[k]
  <2>1. /\ famOf[k] \in Fam /\ subOf[k] \in User
        /\ rt[k] \in Nat /\ mark[famOf[k]] \in Nat /\ idxTtl[subOf[k]] \in Nat
    BY RefreshAssumption DEF TypeOK, Issued, Shape, TokenShape
  <2>2. /\ rt'[k] = Down(rt[k]) /\ mark'[famOf[k]] = Down(mark[famOf[k]])
        /\ idxTtl'[subOf[k]] = Down(idxTtl[subOf[k]])
        /\ idxTtl[subOf[k]] > 1 => idx'[subOf[k]] = idx[subOf[k]]
    BY <2>1 DEF Tick, Issued
  <2>3. rt[k] > 1
    BY <1>2, <2>1, <2>2 DEF Live, Down
  <2>4. \/ famOf[k] \in raced
        \/ famOf[k] \in idx[subOf[k]] /\ idxTtl[subOf[k]] >= rt[k]
        \/ mark[famOf[k]] >= rt[k]
    BY <2>1, <2>3 DEF TrackInv, LiveTokenTracked, Live
  <2>5. CASE idxTtl[subOf[k]] >= rt[k] /\ famOf[k] \in idx[subOf[k]]
    BY <2>1, <2>2, <2>3, <2>5 DEF Down
  <2>6. CASE mark[famOf[k]] >= rt[k]
    BY <2>1, <2>2, <2>3, <2>6 DEF Down
  <2> QED BY <2>4, <2>5, <2>6
<1>3. LiveTokenTracked'
  BY <1>1, <1>2 DEF LiveTokenTracked, Issued, Live
<1>4. ASSUME NEW q \in Req PROVE SweepOf(q)'
  <2>1. pc[q] = "mark" => user[q] \in User
    BY DEF Shape, Sound
  <2>2. pc[q] = "mark" => idx'[user[q]] \subseteq idx[user[q]]
    BY <2>1 DEF Tick
  <2> QED BY <1>1, <2>2 DEF TrackInv, SweepOf
<1> QED BY <1>3, <1>4 DEF TrackInv

LEMMA TrackStep == Base /\ TrackInv /\ [Next]_vars => TrackInv'
<1> SUFFICES ASSUME Base, TrackInv, [Next]_vars PROVE TrackInv'
  OBVIOUS
<1> USE RefreshAssumption DEF Base
<1>q. ASSUME NEW r \in Req, Others(r), SweepOf(r)',
             UNCHANGED <<rt, famOf, subOf, idx, idxTtl, mark, raced>>
      PROVE  TrackInv'
  BY <1>q, TrackedKept, SweepKeptBy DEF TrackInv
<1>f. ASSUME NEW r \in Req, Finish(r),
             UNCHANGED <<rt, famOf, subOf, idx, idxTtl, mark, raced>>
      PROVE  TrackInv'
  BY <1>f, <1>q, FinishEffect DEF SweepOf
<1>1. ASSUME NEW r \in Req, NEW u \in User, LoginBegin(r, u) PROVE TrackInv'
  <2> DEFINE p == IF row[u].bcrypt THEN "flush" ELSE "issue"
  <2>1. /\ Enter(r, p, "login", u, None, row[u], {})
        /\ UNCHANGED <<rt, famOf, subOf, idx, idxTtl, mark, raced>>
    BY <1>1 DEF LoginBegin, Begin, redis, tokens, history
  <2>2. SweepOf(r)'
    BY <2>1, EnterEffect DEF SweepOf
  <2> QED BY <1>q, <2>1, <2>2, EnterEffect
<1>2. ASSUME NEW r \in Req, NEW answered \in BOOLEAN, LoginCommit(r, answered) PROVE TrackInv'
  BY <1>2, <1>f DEF LoginCommit, redis, history
<1>3. ASSUME NEW r \in Req, NEW j \in Jti, NEW f \in Fam, Issue(r, j, f) PROVE TrackInv'
  BY <1>3, TrackIssue
<1>4. ASSUME NEW r \in Req, NEW j \in Jti, Consume(r, j) PROVE TrackInv'
  <2> DEFINE p == IF Live(j) THEN "check" ELSE "reuse"
  <2>1. /\ Enter(r, p, "rotate", subOf[j], famOf[j], Absent, {})
        /\ UNCHANGED <<famOf, subOf, idx, idxTtl, mark, raced>>
        /\ \A k \in Jti : rt'[k] = rt[k] \/ rt'[k] = 0
    BY <1>4 DEF Consume, Begin, tokens, history, TypeOK
  <2>2. SweepOf(r)'
    BY <2>1, EnterEffect DEF SweepOf
  <2> QED BY <2>1, <2>2, EnterEffect, TrackedKept, SweepKeptBy DEF TrackInv
<1>5. ASSUME NEW r \in Req, Check(r) PROVE TrackInv'
  <2>1. UNCHANGED <<rt, famOf, subOf, idx, idxTtl, mark, raced>>
    BY <1>5 DEF Check, redis, tokens, history
  <2>2. CASE Goto(r, "load")
    <3>1. SweepOf(r)'
      BY <2>2, GotoEffect DEF SweepOf
    <3> QED BY <1>q, <2>1, <2>2, <3>1, GotoEffect
  <2> QED BY <1>5, <1>f, <2>1, <2>2 DEF Check
<1>6. ASSUME NEW r \in Req, Load(r) PROVE TrackInv'
  <2>1. UNCHANGED <<rt, famOf, subOf, idx, idxTtl, mark, raced>>
    BY <1>6 DEF Load, redis, tokens, history
  <2>2. Others(r) /\ pc'[r] \in {"issue", "reuse"}
    BY <1>6 DEF Load, Others, TypeOK
  <2>3. SweepOf(r)'
    BY <2>2 DEF SweepOf
  <2> QED BY <1>q, <2>1, <2>2, <2>3
<1>7. ASSUME NEW r \in Req, RevokeFamily(r) PROVE TrackInv'
  <2>1. Finish(r) /\ UNCHANGED <<rt, famOf, subOf, idx, idxTtl, raced>>
    BY <1>7 DEF RevokeFamily, tokens, history
  <2>2. \A f \in Fam : mark'[f] = mark[f] \/ mark'[f] = TTL
    BY <1>7 DEF RevokeFamily, TypeOK
  <2>3. Others(r) /\ SweepOf(r)'
    BY <2>1, FinishEffect DEF SweepOf
  <2> QED BY <2>1, <2>2, <2>3, TrackedKept, SweepKeptBy DEF TrackInv
<1>8. ASSUME NEW j \in Jti, Logout(j) PROVE TrackInv'
  <2>1. UNCHANGED <<rt, famOf, subOf, idx, idxTtl, raced, pc, op, user, members>>
    BY <1>8 DEF Logout, tokens, requests, history
  <2>2. \A f \in Fam : mark'[f] = mark[f] \/ mark'[f] = TTL
    BY <1>8 DEF Logout, TypeOK
  <2> QED BY <2>1, <2>2, TrackedKept DEF TrackInv, SweepOf
<1>9. ASSUME NEW r \in Req, NEW u \in User, NEW k \in Kinds, ChangeBegin(r, u, k) PROVE TrackInv'
  <2> DEFINE p == IF k \notin FlushFirst /\ revocation_for(k, row[u]) THEN "members" ELSE "flush"
  <2>1. /\ Enter(r, p, k, u, None, row[u], LiveFams(u))
        /\ UNCHANGED <<rt, famOf, subOf, idx, idxTtl, mark, raced>>
    BY <1>9 DEF ChangeBegin, Begin, redis, tokens, history
  <2>2. SweepOf(r)'
    BY <2>1, EnterEffect DEF SweepOf
  <2> QED BY <1>q, <2>1, <2>2, EnterEffect
<1>10. ASSUME NEW r \in Req, Members(r) PROVE TrackInv'
  <2>1. UNCHANGED <<rt, famOf, subOf, idx, idxTtl, mark, raced>>
    BY <1>10 DEF Members, redis, tokens, history
  <2>2. Others(r) /\ op'[r] = op[r] /\ user'[r] = user[r] /\ members'[r] = idx[user[r]]
    BY <1>10 DEF Members, Others, TypeOK
  <2>3. SweepOf(r)'
    BY <1>10, <2>1, <2>2 DEF Members, TrackInv, SweepOf
  <2> QED BY <1>q, <2>1, <2>2, <2>3
<1>11. ASSUME NEW r \in Req, MarkAll(r) PROVE TrackInv'
  BY <1>11, TrackMarkAll
<1>12. ASSUME NEW r \in Req, Flush(r) PROVE TrackInv'
  <2> DEFINE p == IF op[r] = "login" THEN "issue"
                  ELSE IF op[r] \in FlushFirst THEN "members" ELSE "commit"
  <2>1. Goto(r, p) /\ UNCHANGED <<rt, famOf, subOf, idx, idxTtl, mark, raced>>
    BY <1>12 DEF Flush, redis, tokens, history
  <2>2. SweepOf(r)'
    BY <2>1, GotoEffect DEF SweepOf, FlushFirst, ChangeKinds
  <2> QED BY <1>q, <2>1, <2>2, GotoEffect
<1>13. ASSUME NEW r \in Req, CommitChange(r) PROVE TrackInv'
  <2>1. /\ Enter(r, "idle", "none", None, None, Absent, {})
        /\ UNCHANGED <<rt, famOf, subOf, idx, idxTtl, mark, raced>>
    BY <1>13 DEF CommitChange, Leave, redis, tokens, history
  <2>2. SweepOf(r)'
    BY <2>1, EnterEffect DEF SweepOf
  <2> QED BY <1>q, <2>1, <2>2, EnterEffect
<1>14. ASSUME NEW r \in Req, Abort(r) PROVE TrackInv'
  BY <1>14, <1>f DEF Abort, redis, tokens, history
<1>15. ASSUME Tick PROVE TrackInv'
  BY <1>15, TrackTick
<1>16. CASE UNCHANGED vars
  <2>1. UNCHANGED <<rt, famOf, subOf, idx, idxTtl, mark, raced, pc, op, user, members>>
    BY <1>16 DEF vars, redis, tokens, requests, history
  <2> QED BY <2>1, TrackedKept DEF TrackInv, SweepOf
<1> QED BY <1>1, <1>2, <1>3, <1>4, <1>5, <1>6, <1>7, <1>8, <1>9, <1>10, <1>11,
           <1>12, <1>13, <1>14, <1>15, <1>16 DEF Next

\* revoke_user can find every live session: register refreshes the index and
\* its expiry with each token, and no order of sweeps and expiries loses one
\* unless it raced with a sweep.
THEOREM RefreshTokenTracked == Spec => []LiveTokenTracked
<1>1. Init => TrackInv
  BY DEF Init, TrackInv, LiveTokenTracked, SweepOf, Issued
<1>2. TrackInv => LiveTokenTracked
  BY DEF TrackInv
<1>3. Spec => []Base
  BY RefreshInvariant DEF Base
<1> QED BY <1>1, <1>2, <1>3, TrackStep, PTL DEF Spec

-----------------------------------------------------------------------------
(***************************************************************************)
(* Fail-closed.  A family has one user, so a change of that user meets its *)
(* registrations; what SMEMBERS named is marked for the whole TTL, and no  *)
(* request is in flight for so long that such a marker could run out       *)
(* before its commit.                                                      *)
(***************************************************************************)
OneOwner == \A j, k \in Issued : famOf[j] = famOf[k] => subOf[j] = subOf[k]

Rotates(r) ==
  pc[r] # "idle" /\ op[r] = "rotate" => \A j \in Issued : famOf[j] = fam[r] => subOf[j] = user[r]

\* Past its sweep: what it has swept is recorded in members.
Past(r) ==
  /\ op[r] \in ChangeKinds /\ revocation_for(op[r], seen[r])
  /\ pc[r] = "commit" \/ (pc[r] = "flush" /\ op[r] \notin FlushFirst)

Begun(r) ==
  pc[r] # "idle" /\ op[r] \in ChangeKinds =>
    \A f \in old[r] : f \in UsedFam /\ \A j \in Issued : famOf[j] = f => subOf[j] = user[r]

Listed(r) ==
  pc[r] = "mark" =>
    \A j \in Issued : Live(j) /\ famOf[j] \in old[r] =>
      famOf[j] \in members[r] \cup raced \/ mark[famOf[j]] >= rt[j]

Swept(r) ==
  Past(r) =>
    /\ \A j \in Issued : Live(j) /\ famOf[j] \in old[r] =>
         famOf[j] \in raced \/ mark[famOf[j]] >= rt[j]
    /\ \A f \in members[r] : mark[f] >= TTL - 1 /\ (r \notin aged => mark[f] = TTL)

EndOf(r) == Rotates(r) /\ Begun(r) /\ Listed(r) /\ Swept(r)

EndInv == OneOwner /\ \A r \in Req : EndOf(r)

\* What all steps but a registration and a tick do to the keys.
Quiet ==
  /\ UNCHANGED <<famOf, subOf, raced>>
  /\ \A j \in Jti : rt'[j] = rt[j] \/ rt'[j] = 0
  /\ \A f \in Fam : mark'[f] = mark[f] \/ mark'[f] = TTL

Same(q) ==
  /\ pc'[q] = pc[q] /\ op'[q] = op[q] /\ user'[q] = user[q] /\ fam'[q] = fam[q]
  /\ members'[q] = members[q] /\ seen'[q] = seen[q] /\ old'[q] = old[q]

LEMMA QuietFacts ==
  ASSUME Base, Quiet
  PROVE  /\ Issued' = Issued /\ UsedFam' = UsedFam
         /\ \A j \in Issued : famOf[j] \in Fam /\ rt[j] \in 0..TTL /\ mark[famOf[j]] \in 0..TTL
         /\ \A j \in Issued : Live(j)' => Live(j) /\ rt'[j] = rt[j]
         /\ \A f \in Fam : mark[f] \in 0..TTL /\ mark'[f] \in 0..TTL /\ mark[f] <= mark'[f]
         /\ TTL \in Nat
<1> USE RefreshAssumption DEF Base
<1>1. Issued' = Issued /\ UsedFam' = UsedFam
  BY DEF Quiet, Issued, UsedFam
<1>2. \A j \in Issued : famOf[j] \in Fam /\ rt[j] \in 0..TTL /\ mark[famOf[j]] \in 0..TTL
  BY DEF TypeOK, Issued
<1>3. \A j \in Issued : Live(j)' => Live(j) /\ rt'[j] = rt[j]
  BY DEF Quiet, Live, Issued
<1>4. \A f \in Fam : mark[f] \in 0..TTL /\ mark'[f] \in 0..TTL /\ mark[f] <= mark'[f]
  BY DEF Quiet, TypeOK
<1> QED BY <1>1, <1>2, <1>3, <1>4

LEMMA EndKept ==
  ASSUME Base, Quiet, NEW q \in Req, EndOf(q), Same(q), q \in aged => q \in aged', q \in aged' => q \in aged
  PROVE  EndOf(q)'
<1> USE QuietFacts
<1>0. famOf' = famOf /\ subOf' = subOf /\ raced' = raced
  BY DEF Quiet
<1>1. Rotates(q)' /\ Begun(q)'
  BY <1>0 DEF EndOf, Rotates, Begun, Same
<1>2. Listed(q)'
  BY <1>0 DEF EndOf, Listed, Same
<1>3. Swept(q)'
  <2> SUFFICES ASSUME Past(q)' PROVE Swept(q)'
    BY DEF Swept
  <2>1. Past(q)
    BY DEF Past, Same, revocation_for
  <2>2. ASSUME NEW j \in Issued, Live(j)', famOf[j] \in old[q]
        PROVE  famOf[j] \in raced \/ mark'[famOf[j]] >= rt'[j]
    BY <2>1, <2>2 DEF EndOf, Swept
  <2>3. ASSUME NEW f \in members[q] PROVE mark'[f] >= TTL - 1 /\ (q \notin aged' => mark'[f] = TTL)
    <3>1. f \in Fam /\ mark[f] >= TTL - 1 /\ (q \notin aged => mark[f] = TTL)
      BY <2>1 DEF EndOf, Swept, Base, TypeOK
    <3> QED BY <3>1
  <2> QED BY <1>0, <2>2, <2>3 DEF Swept, Same
<1> QED BY <1>1, <1>2, <1>3 DEF EndOf

LEMMA EndKeptBy ==
  ASSUME Base, EndInv, Quiet, NEW r \in Req, Others(r), aged' = aged \/ aged' = aged \ {r}, EndOf(r)'
  PROVE  EndInv'
<1>1. ASSUME NEW q \in Req, q # r PROVE EndOf(q)'
  <2>1. Same(q)
    BY <1>1 DEF Others, Same
  <2> QED BY <1>1, <2>1, EndKept DEF EndInv
<1>2. OneOwner'
  BY QuietFacts DEF Quiet, EndInv, OneOwner
<1> QED BY <1>1, <1>2 DEF EndInv

\* A request that is over, and one that is not a change.
LEMMA EndIdle ==
  ASSUME NEW r \in Req, pc'[r] = "idle"
  PROVE  EndOf(r)'
  BY DEF EndOf, Rotates, Begun, Listed, Swept, Past

LEMMA EndNoChange ==
  ASSUME NEW r \in Req, op'[r] \notin ChangeKinds, pc'[r] # "mark", Rotates(r)'
  PROVE  EndOf(r)'
  BY DEF EndOf, Begun, Listed, Swept, Past

LEMMA EndIssue ==
  ASSUME Base, TrackInv, EndInv, NEW r \in Req, NEW j \in Jti, NEW f \in Fam, Issue(r, j, f)
  PROVE  EndInv'
<1> USE RefreshAssumption DEF Base
<1> DEFINE u == user[r]
<1>1. /\ u \in User /\ j \notin Issued /\ pc[r] = "issue" /\ op[r] \in {"login", "rotate"}
      /\ famOf' = [famOf EXCEPT ![j] = f]
      /\ subOf' = [subOf EXCEPT ![j] = u]
      /\ rt' = [rt EXCEPT ![j] = TTL]
      /\ mark' = mark
      /\ raced' = IF Crossed(u, f) THEN raced \cup {f} ELSE raced
  BY DEF Issue, Register, Remember, Shape, Sound
<1>2. /\ Issued' = Issued \cup {j} /\ UsedFam \subseteq UsedFam' /\ raced \subseteq raced'
      /\ famOf'[j] = f /\ subOf'[j] = u /\ rt'[j] = TTL
      /\ \A k \in Issued : famOf'[k] = famOf[k] /\ subOf'[k] = subOf[k] /\ rt'[k] = rt[k]
  BY <1>1 DEF Issued, UsedFam, TypeOK
<1>3. /\ op[r] = "rotate" => f = fam[r] /\ f \in UsedFam
      /\ op[r] = "login" => f \notin UsedFam
      /\ \A k \in Issued : famOf[k] \in UsedFam
  BY <1>1 DEF Issue, Shape, Sound, UsedFam
<1>4. \A k \in Issued : famOf[k] = f => subOf[k] = u
  BY <1>1, <1>3 DEF EndInv, EndOf, Rotates
<1>5. OneOwner'
  BY <1>2, <1>4 DEF EndInv, OneOwner
<1>6. Others(r) /\ aged' \in {aged, aged \ {r}} /\ op'[r] \notin ChangeKinds /\ pc'[r] # "mark" /\ Rotates(r)'
  <2>1. CASE op[r] = "login"
    <3>1. /\ pc' = [pc EXCEPT ![r] = "commit"]
          /\ fam' = [fam EXCEPT ![r] = f]
          /\ jti' = [jti EXCEPT ![r] = j]
          /\ UNCHANGED <<op, user, members, seen, old, aged>>
      BY <2>1 DEF Issue
    <3> QED BY <2>1, <3>1 DEF Others, TypeOK, Rotates, ChangeKinds
  <2>2. CASE op[r] # "login"
    <3>1. Finish(r)
      BY <2>2 DEF Issue
    <3>2. Others(r) /\ pc'[r] = "idle" /\ op'[r] = "none" /\ aged' = aged \ {r}
      BY <3>1, FinishEffect DEF Finish, Leave, Enter, TypeOK
    <3> QED BY <3>2 DEF Rotates, ChangeKinds
  <2> QED BY <2>1, <2>2
<1>7. EndOf(r)'
  BY <1>6, EndNoChange
<1>8. ASSUME NEW q \in Req, q # r PROVE EndOf(q)'
  <2>1. Same(q) /\ (q \in aged' <=> q \in aged)
    BY <1>6, <1>8 DEF Others, Same
  <2>2. EndOf(q)
    BY DEF EndInv
  <2>3. pc[q] # "idle" /\ op[q] = "rotate" => fam[q] \in UsedFam
    BY DEF Shape, Sound
  <2>4. Rotates(q)'
    <3> SUFFICES ASSUME pc[q] # "idle", op[q] = "rotate", NEW k \in Issued \cup {j}, famOf'[k] = fam[q]
                 PROVE  subOf'[k] = user[q]
      BY <1>2, <2>1 DEF Rotates, Same
    <3>1. CASE k \in Issued
      BY <1>2, <2>2, <3>1 DEF EndOf, Rotates
    <3>2. CASE k = j
      <4>1. fam[q] = f /\ f \in UsedFam
        BY <1>2, <2>3, <3>2
      <4>2. PICK i \in Issued : famOf[i] = f
        BY <4>1 DEF UsedFam
      <4> QED BY <1>2, <1>4, <2>2, <3>2, <4>1, <4>2 DEF EndOf, Rotates
    <3> QED BY <3>1, <3>2
  <2>5. Begun(q)'
    <3> SUFFICES ASSUME pc[q] # "idle", op[q] \in ChangeKinds, NEW g \in old[q]
                 PROVE  g \in UsedFam' /\ \A k \in Issued \cup {j} : famOf'[k] = g => subOf'[k] = user[q]
      BY <1>2, <2>1 DEF Begun, Same
    <3>1. g \in UsedFam /\ \A k \in Issued : famOf[k] = g => subOf[k] = user[q]
      BY <2>2 DEF EndOf, Begun
    <3>2. PICK i \in Issued : famOf[i] = g
      BY <3>1 DEF UsedFam
    <3> QED BY <1>2, <1>4, <3>1, <3>2
  <2>6. ASSUME pc[q] = "mark" \/ Past(q), f \in old[q]
        PROVE  op[q] \in ChangeKinds /\ user[q] = u /\ Sweeping(q)
    <3>1. op[q] \in ChangeKinds /\ pc[q] # "idle" /\ Sweeping(q)
      BY <2>6 DEF TrackInv, SweepOf, Past, Sweeping
    <3>2. f \in UsedFam /\ \A k \in Issued : famOf[k] = f => subOf[k] = user[q]
      BY <2>2, <2>6, <3>1 DEF EndOf, Begun
    <3>3. PICK i \in Issued : famOf[i] = f
      BY <3>2 DEF UsedFam
    <3> QED BY <1>4, <3>1, <3>2, <3>3
  <2>7. Listed(q)'
    <3> SUFFICES ASSUME pc[q] = "mark", NEW k \in Issued \cup {j}, Live(k)', famOf'[k] \in old[q]
                 PROVE  famOf'[k] \in members[q] \cup raced' \/ mark[famOf'[k]] >= rt'[k]
      BY <1>1, <1>2, <2>1 DEF Listed, Same
    <3>1. CASE k \in Issued
      BY <1>2, <2>2, <3>1 DEF EndOf, Listed, Live
    <3>2. CASE k = j
      <4>1. user[q] = u /\ Sweeping(q)
        BY <1>2, <2>6, <3>2
      <4> QED BY <1>1, <1>2, <3>2, <4>1 DEF Crossed
    <3> QED BY <3>1, <3>2
  <2>8. Swept(q)'
    <3> SUFFICES ASSUME Past(q)' PROVE Swept(q)'
      BY DEF Swept
    <3>1. Past(q)
      BY <2>1 DEF Past, Same, revocation_for
    <3>2. \A g \in members[q] : mark[g] >= TTL - 1 /\ (q \notin aged => mark[g] = TTL)
      BY <2>2, <3>1 DEF EndOf, Swept
    <3>3. ASSUME NEW k \in Issued \cup {j}, Live(k)', famOf'[k] \in old[q]
          PROVE  famOf'[k] \in raced' \/ mark[famOf'[k]] >= rt'[k]
      <4>1. CASE k \in Issued
        BY <1>2, <2>2, <3>1, <3>3, <4>1 DEF EndOf, Swept, Live
      <4>2. CASE k = j
        <5>1. user[q] = u /\ Sweeping(q)
          BY <1>2, <2>6, <3>1, <3>3, <4>2
        <5>2. f \in members[q] => mark[f] > 0
          BY <3>2 DEF TypeOK
        <5> QED BY <1>1, <1>2, <4>2, <5>1, <5>2 DEF Crossed
      <4> QED BY <4>1, <4>2
    <3> QED BY <1>1, <1>2, <2>1, <3>2, <3>3 DEF Swept, Same
  <2> QED BY <2>4, <2>5, <2>7, <2>8 DEF EndOf
<1> QED BY <1>5, <1>7, <1>8 DEF EndInv

\* The markers and the tokens grow old together, and nobody in flight since
\* before the last tick is still there at the next.
LEMMA EndTick == ASSUME Base, EndInv, Tick PROVE EndInv'
<1> USE RefreshAssumption DEF Base
<1>1. /\ UNCHANGED <<famOf, subOf, raced, pc, op, user, fam, members, seen, old>>
      /\ aged = {} /\ aged' = {r \in Req : pc[r] # "idle"}
      /\ \A j \in Jti : rt[j] \in Nat /\ rt'[j] = Down(rt[j])
      /\ \A f \in Fam : mark[f] \in Nat /\ mark'[f] = Down(mark[f])
  BY DEF Tick, TypeOK
<1>2. Issued' = Issued /\ UsedFam' = UsedFam /\ \A j \in Issued : famOf[j] \in Fam /\ j \in Jti
  BY <1>1 DEF Issued, UsedFam, TypeOK
<1>3. OneOwner'
  BY <1>1, <1>2 DEF EndInv, OneOwner
<1>4. \A j \in Issued : Live(j)' => Live(j) /\ (mark[famOf[j]] >= rt[j] => mark'[famOf[j]] >= rt'[j])
  <2> TAKE j \in Issued
  <2>1. rt[j] \in Nat /\ rt'[j] = Down(rt[j]) /\ mark[famOf[j]] \in Nat /\ mark'[famOf[j]] = Down(mark[famOf[j]])
    BY <1>1, <1>2
  <2> QED BY <2>1 DEF Live, Down
<1>5. ASSUME NEW q \in Req PROVE EndOf(q)'
  <2>1. EndOf(q)
    BY DEF EndInv
  <2>2. Rotates(q)' /\ Begun(q)' /\ Listed(q)'
    BY <1>1, <1>2, <1>4, <2>1 DEF EndOf, Rotates, Begun, Listed
  <2>3. Swept(q)'
    <3> SUFFICES ASSUME Past(q)' PROVE Swept(q)'
      BY DEF Swept
    <3>1. Past(q) /\ q \in aged'
      BY <1>1 DEF Past, revocation_for
    <3>2. \A f \in members[q] : f \in Fam /\ mark'[f] >= TTL - 1
      <4> TAKE f \in members[q]
      <4>1. f \in Fam /\ mark[f] = TTL
        BY <1>1, <2>1, <3>1 DEF EndOf, Swept, TypeOK
      <4>2. mark'[f] = Down(TTL)
        BY <1>1, <4>1
      <4> QED BY <4>1, <4>2 DEF Down
    <3>3. \A j \in Issued : Live(j)' /\ famOf[j] \in old[q] => famOf[j] \in raced \/ mark'[famOf[j]] >= rt'[j]
      BY <1>4, <2>1, <3>1 DEF EndOf, Swept
    <3> QED BY <1>1, <1>2, <3>1, <3>2, <3>3 DEF Swept
  <2> QED BY <2>2, <2>3 DEF EndOf
<1> QED BY <1>3, <1>5 DEF EndInv

LEMMA EndMembers ==
  ASSUME Base, TrackInv, EndInv, NEW r \in Req, Members(r)
  PROVE  EndInv'
<1> USE RefreshAssumption DEF Base
<1>1. /\ pc[r] = "members" /\ pc'[r] = "mark" /\ members'[r] = idx[user[r]] /\ aged' = aged
      /\ Others(r) /\ op'[r] = op[r] /\ user'[r] = user[r] /\ fam'[r] = fam[r]
      /\ seen'[r] = seen[r] /\ old'[r] = old[r]
      /\ UNCHANGED <<rt, mark, famOf, subOf, raced>>
  BY DEF Members, Others, TypeOK, redis, tokens, history
<1>2. Quiet
  BY <1>1 DEF Quiet
<1>3. op[r] \in ChangeKinds
  BY <1>1 DEF TrackInv, SweepOf
<1>4. Begun(r) /\ Begun(r)' /\ Rotates(r)'
  BY <1>1, <1>2, <1>3, QuietFacts DEF EndInv, EndOf, Begun, Rotates, ChangeKinds
<1>5. Listed(r)'
  <2> SUFFICES ASSUME NEW j \in Issued, Live(j), famOf[j] \in old[r]
               PROVE  famOf[j] \in idx[user[r]] \cup raced \/ mark[famOf[j]] >= rt[j]
    BY <1>1, <1>2, QuietFacts DEF Listed, Live
  <2>1. subOf[j] = user[r]
    BY <1>1, <1>3, <1>4 DEF Begun
  <2> QED BY <2>1 DEF TrackInv, LiveTokenTracked
<1>6. Swept(r)'
  BY <1>1 DEF Swept, Past
<1> QED BY <1>1, <1>2, <1>4, <1>5, <1>6, EndKeptBy DEF EndOf

LEMMA EndMarkAll ==
  ASSUME Base, TrackInv, EndInv, NEW r \in Req, MarkAll(r)
  PROVE  EndInv'
<1> USE RefreshAssumption DEF Base
<1> DEFINE p == IF op[r] \in FlushFirst THEN "commit" ELSE "flush"
<1>1. /\ pc[r] = "mark" /\ Goto(r, p) /\ UNCHANGED <<rt, famOf, subOf, raced, aged>>
      /\ mark' = [f \in Fam |-> IF f \in members[r] THEN TTL ELSE mark[f]]
  BY DEF MarkAll, Goto, tokens, history
<1>2. /\ Others(r) /\ pc'[r] = p /\ op'[r] = op[r] /\ user'[r] = user[r] /\ fam'[r] = fam[r]
      /\ members'[r] = members[r] /\ seen'[r] = seen[r] /\ old'[r] = old[r]
  BY <1>1, GotoEffect
<1>3. Quiet
  BY <1>1 DEF Quiet, TypeOK
<1>4. op[r] \in ChangeKinds
  BY <1>1 DEF TrackInv, SweepOf
<1>5. Begun(r)' /\ Rotates(r)' /\ Listed(r)'
  BY <1>1, <1>2, <1>3, <1>4, QuietFacts DEF EndInv, EndOf, Begun, Rotates, Listed, ChangeKinds
<1>6. Swept(r)'
  <2>1. ASSUME NEW j \in Issued, Live(j), famOf[j] \in old[r]
        PROVE  famOf[j] \in raced \/ mark'[famOf[j]] >= rt[j]
    <3>1. famOf[j] \in members[r] \cup raced \/ mark[famOf[j]] >= rt[j]
      BY <1>1, <2>1 DEF EndInv, EndOf, Listed
    <3>2. famOf[j] \in Fam /\ rt[j] \in 0..TTL /\ mark[famOf[j]] \in 0..TTL
      BY <1>3, QuietFacts
    <3> QED BY <1>1, <3>1, <3>2
  <2>2. \A f \in members[r] : mark'[f] = TTL
    BY <1>1 DEF TypeOK
  <2>3. Issued' = Issued /\ \A j \in Issued : Live(j)' <=> Live(j)
    BY <1>1 DEF Issued, Live
  <2> QED BY <1>1, <1>2, <2>1, <2>2, <2>3 DEF Swept
<1> QED BY <1>1, <1>2, <1>3, <1>5, <1>6, EndKeptBy DEF EndOf

LEMMA EndFlush ==
  ASSUME Base, EndInv, NEW r \in Req, Flush(r)
  PROVE  EndInv'
<1> USE RefreshAssumption DEF Base
<1> DEFINE p == IF op[r] = "login" THEN "issue"
                ELSE IF op[r] \in FlushFirst THEN "members" ELSE "commit"
<1>1. /\ pc[r] = "flush" /\ Goto(r, p) /\ UNCHANGED <<rt, mark, famOf, subOf, raced, aged>>
  BY DEF Flush, Goto, redis, tokens, history
<1>2. /\ Others(r) /\ pc'[r] = p /\ op'[r] = op[r] /\ user'[r] = user[r] /\ fam'[r] = fam[r]
      /\ members'[r] = members[r] /\ seen'[r] = seen[r] /\ old'[r] = old[r]
  BY <1>1, GotoEffect
<1>3. Quiet
  BY <1>1 DEF Quiet
<1>4. Begun(r)' /\ Rotates(r)' /\ Listed(r)'
  BY <1>1, <1>2, <1>3, QuietFacts DEF EndInv, EndOf, Begun, Rotates, Listed
<1>5. Past(r)' => Past(r)
  BY <1>1, <1>2 DEF Past, revocation_for
<1>6. Swept(r)'
  BY <1>1, <1>2, <1>3, <1>5, QuietFacts DEF EndInv, EndOf, Swept, Live
<1> QED BY <1>1, <1>2, <1>3, <1>4, <1>6, EndKeptBy DEF EndOf

LEMMA EndChangeBegin ==
  ASSUME Base, EndInv, NEW r \in Req, NEW u \in User, NEW k \in Kinds, ChangeBegin(r, u, k)
  PROVE  EndInv'
<1> USE RefreshAssumption DEF Base
<1> DEFINE p == IF k \notin FlushFirst /\ revocation_for(k, row[u]) THEN "members" ELSE "flush"
<1>1. /\ Enter(r, p, k, u, None, row[u], LiveFams(u))
      /\ UNCHANGED <<rt, mark, famOf, subOf, raced>> /\ aged' = aged \ {r}
  BY DEF ChangeBegin, Begin, Enter, redis, tokens, history
<1>2. /\ Others(r) /\ pc'[r] = p /\ op'[r] = k /\ user'[r] = u
      /\ seen'[r] = row[u] /\ old'[r] = LiveFams(u)
  BY <1>1, EnterEffect
<1>3. Quiet /\ k \in ChangeKinds
  BY <1>1 DEF Quiet
<1>4. Rotates(r)' /\ Listed(r)'
  BY <1>2, <1>3 DEF Rotates, Listed, ChangeKinds
<1>5. Begun(r)'
  <2>1. ASSUME NEW f \in LiveFams(u)
        PROVE  f \in UsedFam /\ \A j \in Issued : famOf[j] = f => subOf[j] = u
    <3>1. PICK i \in Issued : famOf[i] = f /\ subOf[i] = u
      BY <2>1 DEF LiveFams
    <3> QED BY <3>1 DEF UsedFam, EndInv, OneOwner
  <2> QED BY <1>1, <1>2, <1>3, <2>1, QuietFacts DEF Begun
<1>6. Swept(r)'
  BY <1>2 DEF Swept, Past, revocation_for
<1> QED BY <1>1, <1>2, <1>3, <1>4, <1>5, <1>6, EndKeptBy DEF EndOf

LEMMA EndStep == Base /\ TrackInv /\ EndInv /\ [Next]_vars => EndInv'
<1> SUFFICES ASSUME Base, TrackInv, EndInv, [Next]_vars PROVE EndInv'
  OBVIOUS
<1> USE RefreshAssumption DEF Base
<1>e. ASSUME NEW r \in Req, Leave(r), Quiet PROVE EndInv'
  <2>1. Others(r) /\ pc'[r] = "idle"
    BY <1>e, EnterEffect DEF Leave
  <2>2. aged' = aged \ {r}
    BY <1>e DEF Leave, Enter
  <2> QED BY <1>e, <2>1, <2>2, EndIdle, EndKeptBy
<1>1. ASSUME NEW r \in Req, NEW u \in User, LoginBegin(r, u) PROVE EndInv'
  <2> DEFINE p == IF row[u].bcrypt THEN "flush" ELSE "issue"
  <2>1. /\ Enter(r, p, "login", u, None, row[u], {}) /\ Quiet /\ aged' = aged \ {r}
    BY <1>1 DEF LoginBegin, Begin, Enter, Quiet, redis, tokens, history
  <2>2. Others(r) /\ EndOf(r)'
    BY <2>1, EnterEffect, EndNoChange DEF Rotates, ChangeKinds
  <2> QED BY <2>1, <2>2, EndKeptBy
<1>2. ASSUME NEW r \in Req, NEW answered \in BOOLEAN, LoginCommit(r, answered) PROVE EndInv'
  BY <1>2, <1>e DEF LoginCommit, Finish, Quiet, redis, history
<1>3. ASSUME NEW r \in Req, NEW j \in Jti, NEW f \in Fam, Issue(r, j, f) PROVE EndInv'
  BY <1>3, EndIssue
<1>4. ASSUME NEW r \in Req, NEW j \in Jti, Consume(r, j) PROVE EndInv'
  <2> DEFINE p == IF Live(j) THEN "check" ELSE "reuse"
  <2>1. /\ Enter(r, p, "rotate", subOf[j], famOf[j], Absent, {})
        /\ rt' = [rt EXCEPT ![j] = 0] /\ UNCHANGED <<mark, famOf, subOf, raced>>
        /\ aged' = aged \ {r} /\ j \in wallet
    BY <1>4 DEF Consume, Begin, Enter, tokens, history
  <2>2. Quiet /\ j \in Issued
    BY <2>1 DEF Quiet, TypeOK, Shape, TokenShape, Issued
  <2>3. Others(r) /\ op'[r] = "rotate" /\ fam'[r] = famOf[j] /\ user'[r] = subOf[j] /\ pc'[r] # "mark"
    BY <2>1, EnterEffect
  <2>4. Rotates(r)'
    BY <2>1, <2>2, <2>3, QuietFacts DEF Rotates, EndInv, OneOwner
  <2> QED BY <2>1, <2>2, <2>3, <2>4, EndNoChange, EndKeptBy DEF ChangeKinds
<1>5. ASSUME NEW r \in Req, Check(r) PROVE EndInv'
  <2>1. Quiet
    BY <1>5 DEF Check, Quiet, redis, tokens, history
  <2>2. CASE Goto(r, "load")
    <3>1. op[r] = "rotate" /\ pc[r] # "idle"
      BY <1>5 DEF Check, Shape, Sound
    <3>2. /\ Others(r) /\ pc'[r] = "load" /\ op'[r] = "rotate"
          /\ user'[r] = user[r] /\ fam'[r] = fam[r] /\ aged' = aged
      BY <2>2, <3>1, GotoEffect DEF Goto
    <3>3. Rotates(r)'
      BY <2>1, <3>1, <3>2, QuietFacts DEF Quiet, EndInv, EndOf, Rotates
    <3> QED BY <2>1, <3>2, <3>3, EndNoChange, EndKeptBy DEF ChangeKinds
  <2> QED BY <1>5, <1>e, <2>1, <2>2 DEF Check, Finish
<1>6. ASSUME NEW r \in Req, Load(r) PROVE EndInv'
  <2>1. Quiet /\ aged' = aged
    BY <1>6 DEF Load, Quiet, redis, tokens, history
  <2>2. op[r] = "rotate" /\ pc[r] = "load"
    BY <1>6 DEF Load, Shape, Sound
  <2>4. /\ pc'[r] \in {"issue", "reuse"} /\ op'[r] = "rotate"
        /\ user'[r] = user[r] /\ fam'[r] = fam[r]
    BY <1>6, <2>2 DEF Load, TypeOK
  <2>5. Others(r)
    BY <1>6 DEF Load, Others, TypeOK
  <2>6. Rotates(r)'
    BY <2>1, <2>2, <2>4, QuietFacts DEF Quiet, EndInv, EndOf, Rotates
  <2> QED BY <2>1, <2>4, <2>5, <2>6, EndNoChange, EndKeptBy DEF ChangeKinds
<1>7. ASSUME NEW r \in Req, RevokeFamily(r) PROVE EndInv'
  BY <1>7, <1>e DEF RevokeFamily, Finish, Quiet, tokens, history, TypeOK
<1>8. ASSUME NEW j \in Jti, Logout(j) PROVE EndInv'
  <2>1. Quiet /\ UNCHANGED <<pc, op, user, fam, members, seen, old, aged>>
    BY <1>8 DEF Logout, Quiet, tokens, requests, history, TypeOK
  <2>2. \A q \in Req : EndOf(q)'
    BY <2>1, EndKept DEF Same, EndInv
  <2>3. OneOwner'
    BY <2>1, QuietFacts DEF Quiet, EndInv, OneOwner
  <2> QED BY <2>2, <2>3 DEF EndInv
<1>9. ASSUME NEW r \in Req, NEW u \in User, NEW k \in Kinds, ChangeBegin(r, u, k) PROVE EndInv'
  BY <1>9, EndChangeBegin
<1>10. ASSUME NEW r \in Req, Members(r) PROVE EndInv'
  BY <1>10, EndMembers
<1>11. ASSUME NEW r \in Req, MarkAll(r) PROVE EndInv'
  BY <1>11, EndMarkAll
<1>12. ASSUME NEW r \in Req, Flush(r) PROVE EndInv'
  BY <1>12, EndFlush
<1>13. ASSUME NEW r \in Req, CommitChange(r) PROVE EndInv'
  BY <1>13, <1>e DEF CommitChange, Quiet, redis, tokens, history
<1>14. ASSUME NEW r \in Req, Abort(r) PROVE EndInv'
  BY <1>14, <1>e DEF Abort, Finish, Quiet, redis, tokens, history
<1>15. ASSUME Tick PROVE EndInv'
  BY <1>15, EndTick
<1>16. CASE UNCHANGED vars
  <2>1. Quiet /\ UNCHANGED <<pc, op, user, fam, members, seen, old, aged>>
    BY <1>16 DEF vars, Quiet, redis, tokens, requests, history
  <2>2. \A q \in Req : EndOf(q)'
    BY <2>1, EndKept DEF Same, EndInv
  <2>3. OneOwner'
    BY <2>1, QuietFacts DEF Quiet, EndInv, OneOwner
  <2> QED BY <2>2, <2>3 DEF EndInv
<1> QED BY <1>1, <1>2, <1>3, <1>4, <1>5, <1>6, <1>7, <1>8, <1>9, <1>10, <1>11,
           <1>12, <1>13, <1>14, <1>15, <1>16 DEF Next

\* When a change that ends sessions reaches its commit, no session that was
\* alive when it began yields another token, but for those that were
\* registered across the sweep.
THEOREM RefreshEndedBeforeCommit == Spec => []OldSessionsEndedBeforeCommit
<1>1. Init => TrackInv /\ EndInv
  BY DEF Init, TrackInv, LiveTokenTracked, SweepOf, EndInv, OneOwner, EndOf, Rotates, Begun,
         Listed, Swept, Past, Issued
<1>2. Base /\ TrackInv /\ EndInv /\ [Next]_vars => TrackInv' /\ EndInv'
  BY TrackStep, EndStep
<1>3. EndInv => OldSessionsEndedBeforeCommit
  BY DEF EndInv, EndOf, Swept, Past, OldSessionsEndedBeforeCommit
<1>4. Spec => []Base
  BY RefreshInvariant DEF Base
<1> QED BY <1>1, <1>2, <1>3, <1>4, PTL DEF Spec

-----------------------------------------------------------------------------
(***************************************************************************)
(* What a token claims, where no hash of the old format is stored or no    *)
(* password changes: the commit of a login then changes nothing a token    *)
(* claims, and every other commit makes the requests of its user that are  *)
(* in flight stale.  (With both, a login's rehash may undo a password      *)
(* change; a run shows it.)                                                *)
(***************************************************************************)
Calm == Bcrypt = {} \/ "password" \notin Kinds
Clean(s) == IF Bcrypt = {} THEN ~s.bcrypt ELSE s.pw = 0

Plain ==
  /\ \A u \in User : Clean(row[u])
  /\ \A r \in Req :
       /\ Clean(seen[r])
       /\ op[r] = "password" => Bcrypt = {}
       /\ pc[r] # "idle" /\ op[r] = "login" => seen[r].there

MintOf(r) ==
  /\ pc[r] \in {"members", "mark"} => op[r] # "login"
  /\ pc[r] = "issue" \/ (pc[r] = "flush" /\ op[r] = "login") => Entitled(r) \/ r \in stale

MintInv == Plain /\ \A r \in Req : MintOf(r)

\* The rows are what they were, but for the format of a hash.
SameClaims ==
  \A u \in User : /\ row'[u].there = row[u].there /\ row'[u].active = row[u].active
                  /\ row'[u].su = row[u].su /\ row'[u].pw = row[u].pw
                  /\ Clean(row'[u])

LEMMA SameRows == ASSUME MintInv, row' = row PROVE SameClaims
  BY DEF SameClaims, MintInv, Plain

LEMMA CleanAbsent == Clean(Absent)
  BY DEF Clean, Absent

\* A step of r that changes no claim of a row.
LEMMA MintKept ==
  ASSUME Base, MintInv, NEW r \in Req, Others(r), SameClaims, stale \subseteq stale' \cup {r},
         MintOf(r)', Clean(seen'[r]), op'[r] = "password" => Bcrypt = {},
         pc'[r] # "idle" /\ op'[r] = "login" => seen'[r].there
  PROVE  MintInv'
<1>1. Plain'
  BY DEF MintInv, Plain, Others, SameClaims, Clean
<1>2. ASSUME NEW q \in Req, q # r PROVE MintOf(q)'
  <2>1. /\ pc'[q] = pc[q] /\ op'[q] = op[q] /\ user'[q] = user[q] /\ seen'[q] = seen[q]
        /\ q \in stale => q \in stale'
    BY <1>2 DEF Others
  <2>2. CASE pc[q] = "issue" \/ (pc[q] = "flush" /\ op[q] = "login")
    <3>1. user[q] \in User
      BY <2>2 DEF Base, Shape, Sound
    <3>2. Entitled(q)' <=> Entitled(q)
      BY <2>1, <3>1 DEF Entitled, SameClaims
    <3> QED BY <2>1, <3>2 DEF MintInv, MintOf
  <2>3. CASE ~(pc[q] = "issue" \/ (pc[q] = "flush" /\ op[q] = "login"))
    BY <2>1, <2>3 DEF MintInv, MintOf
  <2> QED BY <2>2, <2>3
<1> QED BY <1>1, <1>2 DEF MintInv

LEMMA MintGoto ==
  ASSUME Base, MintInv, NEW r \in Req, NEW p, Goto(r, p), row' = row, pc[r] # "idle",
         p # "issue", p \in {"flush", "members", "mark"} => op[r] # "login"
  PROVE  MintInv'
<1>1. /\ Others(r) /\ pc'[r] = p /\ op'[r] = op[r] /\ seen'[r] = seen[r] /\ stale' = stale
  BY GotoEffect DEF Base, Goto
<1>2. MintOf(r)'
  BY <1>1 DEF MintOf
<1> QED BY <1>1, <1>2, SameRows, MintKept DEF MintInv, Plain

LEMMA MintLeave ==
  ASSUME Base, MintInv, NEW r \in Req, Leave(r), SameClaims, stale \subseteq stale' \cup {r}
  PROVE  MintInv'
<1>1. Others(r) /\ pc'[r] = "idle" /\ op'[r] = "none" /\ seen'[r] = Absent
  BY EnterEffect DEF Leave, Base
<1> QED BY <1>1, CleanAbsent, MintKept DEF MintOf

LEMMA MintLoginBegin ==
  ASSUME Base, MintInv, NEW r \in Req, NEW u \in User, LoginBegin(r, u)
  PROVE  MintInv'
<1> DEFINE p == IF row[u].bcrypt THEN "flush" ELSE "issue"
<1>1. Clean(row[u])
  BY DEF MintInv, Plain
<1>2. Enter(r, p, "login", u, None, row[u], {}) /\ row' = row /\ stale' = stale
  BY DEF LoginBegin, Begin
<1>3. Others(r) /\ pc'[r] = p /\ op'[r] = "login" /\ user'[r] = u /\ seen'[r] = row[u]
  BY <1>2, EnterEffect DEF Base
<1>4. row[u].there /\ row[u].active
  BY DEF LoginBegin
<1>5. MintOf(r)'
  BY <1>2, <1>3, <1>4 DEF MintOf, Entitled
<1> QED BY <1>1, <1>2, <1>3, <1>4, <1>5, SameRows, MintKept

\* The UPDATE of a login names at most the hash, of the same password.
LEMMA MintLoginCommit ==
  ASSUME Base, MintInv, NEW r \in Req, NEW answered \in BOOLEAN, LoginCommit(r, answered)
  PROVE  MintInv'
<1> DEFINE u == user[r]
           merged == Merge(row[u], seen[r], To("login", seen[r]))
<1>1. u \in User /\ seen[r] \in Row /\ row[u] \in Row
  BY DEF LoginCommit, Base, Shape, Sound, TypeOK
<1>2. Clean(seen[r]) /\ seen[r].there /\ Clean(row[u])
  BY <1>1 DEF LoginCommit, MintInv, Plain
<1>3. /\ merged.there = row[u].there /\ merged.active = row[u].active
      /\ merged.su = row[u].su /\ merged.pw = row[u].pw
      /\ Clean(merged)
  BY <1>1, <1>2 DEF Merge, NewHash, To, Deletes, Row, Clean
<1>4. row' = [row EXCEPT ![u] = merged]
  BY DEF LoginCommit
<1>5. SameClaims
  <2> SUFFICES ASSUME NEW w \in User
               PROVE  /\ row'[w].there = row[w].there /\ row'[w].active = row[w].active
                      /\ row'[w].su = row[w].su /\ row'[w].pw = row[w].pw
                      /\ Clean(row'[w])
    BY DEF SameClaims
  <2>1. CASE w = u
    <3>1. row'[w] = merged
      BY <1>1, <1>4, <2>1 DEF Base, TypeOK
    <3> HIDE DEF merged
    <3> QED BY <1>3, <2>1, <3>1
  <2>2. CASE w # u
    BY <1>4, <2>2 DEF Base, TypeOK, MintInv, Plain
  <2> QED BY <2>1, <2>2
<1> QED BY <1>5, MintLeave DEF LoginCommit, Finish

LEMMA MintIssue ==
  ASSUME Base, MintInv, NEW r \in Req, NEW j \in Jti, NEW f \in Fam, Issue(r, j, f)
  PROVE  MintInv'
<1>1. row' = row
  BY DEF Issue
<1>2. CASE op[r] = "login"
  <2>1. /\ pc' = [pc EXCEPT ![r] = "commit"]
        /\ fam' = [fam EXCEPT ![r] = f]
        /\ jti' = [jti EXCEPT ![r] = j]
        /\ UNCHANGED <<op, user, members, seen, old, stale>>
    BY <1>2 DEF Issue
  <2>2. Others(r) /\ pc'[r] = "commit"
    BY <2>1 DEF Others, Base, TypeOK
  <2>3. MintOf(r)' /\ pc[r] # "idle"
    BY <2>2 DEF MintOf, Issue
  <2> QED BY <1>1, <2>1, <2>2, <2>3, SameRows, MintKept DEF MintInv, Plain
<1>3. CASE op[r] # "login"
  BY <1>1, <1>3, SameRows, MintLeave DEF Issue, Finish
<1> QED BY <1>2, <1>3

LEMMA MintLoad ==
  ASSUME Base, MintInv, NEW r \in Req, Load(r)
  PROVE  MintInv'
<1> DEFINE now == row[user[r]]
<1>1. user[r] \in User /\ op[r] = "rotate"
  BY DEF Load, Base, Shape, Sound
<1>2. /\ Others(r) /\ op'[r] = "rotate" /\ user'[r] = user[r] /\ seen'[r] = now
      /\ pc'[r] = IF now.there /\ now.active THEN "issue" ELSE "reuse"
      /\ row' = row /\ stale' = stale
  BY <1>1 DEF Load, Others, Base, TypeOK
<1>3. Clean(now)
  BY <1>1 DEF MintInv, Plain
<1>4. MintOf(r)'
  BY <1>2 DEF MintOf, Entitled
<1> QED BY <1>2, <1>3, <1>4, SameRows, MintKept

LEMMA MintChangeBegin ==
  ASSUME Calm, Base, MintInv, NEW r \in Req, NEW u \in User, NEW k \in Kinds,
         ChangeBegin(r, u, k)
  PROVE  MintInv'
<1> DEFINE p == IF k \notin FlushFirst /\ revocation_for(k, row[u]) THEN "members" ELSE "flush"
<1>1. Enter(r, p, k, u, None, row[u], LiveFams(u)) /\ row' = row /\ stale' = stale
  BY DEF ChangeBegin, Begin
<1>2. Others(r) /\ pc'[r] = p /\ op'[r] = k /\ seen'[r] = row[u]
  BY <1>1, EnterEffect DEF Base
<1>3. k # "login" /\ Clean(row[u]) /\ (k = "password" => Bcrypt = {})
  BY RefreshAssumption DEF ChangeKinds, MintInv, Plain, Calm
<1>4. MintOf(r)'
  BY <1>2, <1>3 DEF MintOf
<1> QED BY <1>1, <1>2, <1>3, <1>4, SameRows, MintKept

\* Whoever is in flight for the user when the change commits is stale.
LEMMA MintCommitChange ==
  ASSUME Base, MintInv, NEW r \in Req, CommitChange(r)
  PROVE  MintInv'
<1> DEFINE u == user[r]
           merged == Merge(row[u], seen[r], To(op[r], seen[r]))
<1>1. u \in User
  BY DEF CommitChange, Base, Shape, Sound
<1>2. row' = [row EXCEPT ![u] = merged] /\ Leave(r)
  BY DEF CommitChange
<1>3. Others(r) /\ pc'[r] = "idle" /\ seen'[r] = Absent
  BY <1>2, EnterEffect DEF Leave, Base
<1>4. Clean(merged)
  BY <1>1 DEF Merge, To, NewHash, Clean, MintInv, Plain
<1>5. \A w \in User : Clean(row'[w])
  <2> HIDE DEF merged
  <2> QED BY <1>1, <1>2, <1>4 DEF MintInv, Plain, Base, TypeOK
<1>6. Plain'
  <2>1. op'[r] = "none"
    BY <1>2, EnterEffect DEF Leave, Base
  <2> QED BY <1>3, <1>5, <2>1, CleanAbsent DEF MintInv, Plain, Others, Clean
<1>7. ASSUME NEW q \in Req PROVE MintOf(q)'
  <2>1. CASE q = r
    BY <1>3, <2>1 DEF MintOf
  <2>2. CASE q # r
    <3>1. /\ pc'[q] = pc[q] /\ op'[q] = op[q] /\ user'[q] = user[q] /\ seen'[q] = seen[q]
          /\ q \in stale \/ user[q] = u => q \in stale'
      BY <1>3, <2>2 DEF Others, CommitChange
    <3>2. user[q] # u => row'[user[q]] = row[user[q]]
      BY <1>2 DEF Base, TypeOK
    <3>3. user[q] # u => (Entitled(q)' <=> Entitled(q))
      BY <3>1, <3>2 DEF Entitled
    <3> QED BY <3>1, <3>3 DEF MintInv, MintOf
  <2> QED BY <2>1, <2>2
<1> QED BY <1>6, <1>7 DEF MintInv

LEMMA MintStep == Calm /\ Base /\ MintInv /\ [Next]_vars => MintInv'
<1> SUFFICES ASSUME Calm, Base, MintInv, [Next]_vars PROVE MintInv'
  OBVIOUS
<1>f. ASSUME NEW r \in Req, Finish(r), row' = row PROVE MintInv'
  BY <1>f, SameRows, MintLeave DEF Finish
<1>s. ASSUME UNCHANGED <<row, pc, op, user, seen, stale>> PROVE MintInv'
  BY <1>s DEF MintInv, Plain, MintOf, Entitled, Clean
<1>1. ASSUME NEW r \in Req, NEW u \in User, LoginBegin(r, u) PROVE MintInv'
  BY <1>1, MintLoginBegin
<1>2. ASSUME NEW r \in Req, NEW answered \in BOOLEAN, LoginCommit(r, answered) PROVE MintInv'
  BY <1>2, MintLoginCommit
<1>3. ASSUME NEW r \in Req, NEW j \in Jti, NEW f \in Fam, Issue(r, j, f) PROVE MintInv'
  BY <1>3, MintIssue
<1>4. ASSUME NEW r \in Req, NEW j \in Jti, Consume(r, j) PROVE MintInv'
  <2> DEFINE p == IF Live(j) THEN "check" ELSE "reuse"
  <2>1. Enter(r, p, "rotate", subOf[j], famOf[j], Absent, {}) /\ row' = row /\ stale' = stale
    BY <1>4 DEF Consume, Begin
  <2>2. Others(r) /\ pc'[r] = p /\ op'[r] = "rotate" /\ seen'[r] = Absent
    BY <2>1, EnterEffect DEF Base
  <2> QED BY <2>1, <2>2, SameRows, CleanAbsent, MintKept DEF MintOf
<1>5. ASSUME NEW r \in Req, Check(r) PROVE MintInv'
  BY <1>5, <1>f, MintGoto DEF Check
<1>6. ASSUME NEW r \in Req, Load(r) PROVE MintInv'
  BY <1>6, MintLoad
<1>7. ASSUME NEW r \in Req, RevokeFamily(r) PROVE MintInv'
  BY <1>7, <1>f DEF RevokeFamily
<1>8. ASSUME NEW j \in Jti, Logout(j) PROVE MintInv'
  BY <1>8, <1>s DEF Logout, requests
<1>9. ASSUME NEW r \in Req, NEW u \in User, NEW k \in Kinds, ChangeBegin(r, u, k) PROVE MintInv'
  BY <1>9, MintChangeBegin
<1>10. ASSUME NEW r \in Req, Members(r) PROVE MintInv'
  <2>1. /\ Others(r) /\ pc'[r] = "mark" /\ op'[r] = op[r] /\ seen'[r] = seen[r] /\ stale' = stale
        /\ row' = row /\ pc[r] # "idle"
    BY <1>10 DEF Members, Others, Base, TypeOK
  <2>2. op[r] # "login"
    BY <1>10 DEF Members, MintInv, MintOf
  <2> QED BY <2>1, <2>2, SameRows, MintKept DEF MintOf, MintInv, Plain
<1>11. ASSUME NEW r \in Req, MarkAll(r) PROVE MintInv'
  <2>1. /\ pc[r] = "mark" /\ op[r] # "login" /\ row' = row
        /\ Goto(r, IF op[r] \in FlushFirst THEN "commit" ELSE "flush")
    BY <1>11 DEF MarkAll, MintInv, MintOf
  <2> QED BY <2>1, MintGoto
<1>12. ASSUME NEW r \in Req, Flush(r) PROVE MintInv'
  <2> DEFINE p == IF op[r] = "login" THEN "issue"
                  ELSE IF op[r] \in FlushFirst THEN "members" ELSE "commit"
  <2>1. /\ pc[r] = "flush" /\ row' = row
        /\ Goto(r, p)
    BY <1>12 DEF Flush
  <2>2. CASE op[r] = "login"
    <3>1. /\ Others(r) /\ pc'[r] = "issue" /\ op'[r] = op[r] /\ user'[r] = user[r]
          /\ seen'[r] = seen[r] /\ stale' = stale
      BY <2>1, <2>2, GotoEffect DEF Base, Goto
    <3>2. MintOf(r)'
      BY <2>1, <2>2, <3>1 DEF MintInv, MintOf, Entitled
    <3> QED BY <2>1, <2>2, <3>1, <3>2, SameRows, MintKept DEF MintInv, Plain
  <2>3. CASE op[r] # "login"
    BY <2>1, <2>3, MintGoto
  <2> QED BY <2>2, <2>3
<1>13. ASSUME NEW r \in Req, CommitChange(r) PROVE MintInv'
  BY <1>13, MintCommitChange
<1>14. ASSUME NEW r \in Req, Abort(r) PROVE MintInv'
  BY <1>14, <1>f DEF Abort
<1>15. ASSUME Tick PROVE MintInv'
  BY <1>15, <1>s DEF Tick
<1>16. CASE UNCHANGED vars
  BY <1>16, <1>s DEF vars, requests
<1> QED BY <1>1, <1>2, <1>3, <1>4, <1>5, <1>6, <1>7, <1>8, <1>9, <1>10, <1>11,
           <1>12, <1>13, <1>14, <1>15, <1>16 DEF Next

\* A token of an absent or inactive user, for an old password or with a lost
\* superuser flag, comes only of a request that the change overtook.
\* It takes that no hash of the old format is stored, or that no password
\* changes.
THEOREM RefreshMintsFollow ==
  (Bcrypt = {} \/ "password" \notin Kinds) /\ Spec => MintsFollowTheRow
<1> SUFFICES ASSUME Calm PROVE Spec => MintsFollowTheRow
  BY DEF Calm
<1>1. Init => MintInv
  <2> SUFFICES ASSUME Init PROVE MintInv
    OBVIOUS
  <2>0. PICK su : row = [u \in User |-> [there |-> TRUE, active |-> TRUE, su |-> u \in su,
                                        pw |-> 0, bcrypt |-> u \in Bcrypt]]
    BY DEF Init
  <2>1. \A u \in User : Clean(row[u])
    <3> TAKE u \in User
    <3>1. row[u].bcrypt = (u \in Bcrypt) /\ row[u].pw = 0
      BY <2>0
    <3> QED BY <3>1 DEF Clean
  <2>2. \A r \in Req : pc[r] = "idle" /\ op[r] = "none" /\ Clean(seen[r])
    BY CleanAbsent DEF Init
  <2> QED BY <2>1, <2>2 DEF MintInv, Plain, MintOf
<1>2. MintInv /\ [Next]_vars
        => [\A r \in Req : pc[r] = "issue" /\ pc'[r] # "issue" /\ famOf' # famOf
              => Entitled(r) \/ r \in stale]_vars
  BY DEF MintInv, MintOf
<1>3. Spec => []Base
  BY RefreshInvariant DEF Base
<1> QED BY <1>1, <1>2, <1>3, MintStep, PTL DEF Spec, MintsFollowTheRow
=============================================================================
