----------------------------- MODULE Application -----------------------------
(***************************************************************************)
(* The requests an assembled application serves, from the dependencies     *)
(* that say who may call to the answer, over the tables of the content     *)
(* apps and the accounts.  Every request runs in a transaction of its own  *)
(* (REPEATABLE READ), interleaved at each await with the others.  A         *)
(* migration process, once assembled, runs the revisions.                  *)
(***************************************************************************)
EXTENDS AppAssembly, Migrations

CONSTANTS Requests,   \* also what a request writes and the id of what it creates
          Claims,     \* access tokens: [sub, su]
          NoToken,    \* no access token, or one that does not decode
          Seeds,      \* content at the start: id -> [app, author]
          Initial,    \* what it holds
          Fields,     \* the fields a PATCH may set
          Names,      \* user names
          NoAuthor, Nobody

ASSUME ApplicationAssumption ==
  /\ \A c \in Claims : c.su \in BOOLEAN /\ c.sub \notin {NoAuthor, NoToken}
  /\ NoToken \notin Claims
  /\ Requests \cap (DOMAIN Seeds \cup Names \cup {Initial, Nobody, NoAuthor}) = {}
  /\ Names \cap DOMAIN Seeds = {} /\ Nobody \notin Names \cup DOMAIN Seeds

VARIABLES
  stored,     \* content: id -> [app, author, value]
  accounts,   \* user name -> request that created the account, or Nobody
  at,         \* how far a request is
  asks,       \* what it asks: [op, target, claim, sets]
  seen,       \* the row it has loaded: the fields' values
  holds,      \* the row or name its transaction has locked and changed
  answer,     \* its answer, an error code or OK
  committed,  \* requests whose transaction the database has committed
  troubled    \* requests the database or the response model failed

rvars == <<stored, accounts, at, asks, seen, holds, answer, committed, troubled>>
vars == <<avars, rvars, mvars>>
-----------------------------------------------------------------------------
Content == {"blog", "reply", "sns", "catalog"}
OwnedApps == {"blog", "reply", "sns"}

NoValue == [f \in Fields |-> Initial]
NoAsk == [op |-> Op("main", "GET", <<"health">>, Public), target |-> Nobody,
          claim |-> NoToken, sets |-> <<>>]

ApplicationInit ==
  /\ AssemblyInit /\ MigrationsInit
  /\ stored = [i \in DOMAIN Seeds |->
                 [app |-> Seeds[i].app, author |-> Seeds[i].author, value |-> NoValue]]
  /\ accounts = [n \in Names |-> Nobody]
  /\ at = [r \in Requests |-> "idle"]
  /\ asks = [r \in Requests |-> NoAsk]
  /\ seen = [r \in Requests |-> NoValue]
  /\ holds = [r \in Requests |-> Nobody]
  /\ answer = [r \in Requests |-> "none"]
  /\ committed = {} /\ troubled = {}

\* Bound: requests are followed in the production server of the tree as it is.
Followed ==
  /\ process = "web" /\ stage = "up" /\ settings.env = "production" /\ ~settings.adminDisabled
  /\ settings.mistakes = {} /\ shape = TreeShape /\ routes = Routers

App(r) == asks[r].op.app
Method(r) == asks[r].op.method
Target(r) == asks[r].target
Claim(r) == asks[r].claim
Registers(r) == App(r) \in {"auth", "user"}

\* The HTTP status of each answer.
Status ==
  [OK |-> 200, UNAUTHORIZED |-> 401, FORBIDDEN |-> 403, NOT_FOUND |-> 404,
   DUPLICATE |-> 409, VALIDATION_ERROR |-> 422, TOO_MANY_REQUESTS |-> 429,
   INTERNAL_SERVER_ERROR |-> 500, DATABASE_ERROR |-> 500]

\* Operations on the content, and the two that create an account.
OnItem(op) == op.path[Len(op.path)] = "id"
FollowedOps ==
  {op \in mounted : op.app \in Content} \cup
  {op \in mounted : op.method = "POST" /\ op.path \in {<<"auth", "register">>, <<"user", "users">>}}

Targets(r, op) ==
  IF op.app \notin Content THEN Names
  ELSE IF OnItem(op) THEN {i \in DOMAIN Seeds : Seeds[i].app = op.app} ELSE {r}

\* A body that is no JSON is refused before any dependency runs.
Shapeless(op, body) == op.method \in {"POST", "PATCH"} /\ body = "malformed"

\* register_rate_limit guards the registration by its counter.
RateLimited(op, limited) == op.path = <<"auth", "register">> /\ limited

\* Bodies of a PATCH: nothing, a field or all of them, with what is new or
\* with what the row may hold already.
Bodies(r, op) ==
  IF op.method = "PATCH"
  THEN UNION {[fs -> {v}] : fs \in SUBSET Fields, v \in {r, Initial}} ELSE {<<>>}

\* The transaction of r ends without a trace: the session dependency rolls back.
Ends(r, code) ==
  /\ at' = [at EXCEPT ![r] = "answered"]
  /\ answer' = [answer EXCEPT ![r] = code]
  /\ holds' = [holds EXCEPT ![r] = Nobody]
  /\ UNCHANGED <<stored, accounts, asks, seen, committed>>

Goes(r, to) ==
  /\ at' = [at EXCEPT ![r] = to]
  /\ UNCHANGED <<stored, accounts, asks, answer, committed, troubled>>

Troubles(r) == troubled' = troubled \cup {r}
-----------------------------------------------------------------------------
\* Routing, the dependencies that ask who calls (get_current_principal,
\* require_superuser) and how often (register_rate_limit, whose counter is
\* LoginThrottle's), and the validation of the body.
Arrive(r) ==
  /\ Followed /\ at[r] = "idle"
  /\ \E op \in FollowedOps, c \in Claims \cup {NoToken}, limited \in BOOLEAN,
        body \in {"valid", "invalid", "malformed"} :
     \E t \in Targets(r, op), b \in Bodies(r, op) :
       LET refusal ==
             IF Shapeless(op, body) THEN "VALIDATION_ERROR"
             ELSE IF "get_current_principal" \in op.calls /\ c = NoToken THEN "UNAUTHORIZED"
             ELSE IF "require_superuser" \in op.calls /\ ~c.su THEN "FORBIDDEN"
             ELSE IF RateLimited(op, limited) THEN "TOO_MANY_REQUESTS"
             ELSE IF body # "valid" THEN "VALIDATION_ERROR" ELSE "none"
       IN /\ asks' = [asks EXCEPT ![r] = [op |-> op, target |-> t, claim |-> c, sets |-> b]]
          /\ answer' = [answer EXCEPT ![r] = refusal]
          /\ at' = [at EXCEPT ![r] = IF refusal = "none" THEN "admitted" ELSE "answered"]
  /\ UNCHANGED <<stored, accounts, seen, holds, committed, troubled>>

\* ensure_can_modify
MayModify(r, author) == Claim(r).su \/ (author # NoAuthor /\ author = Claim(r).sub)

\* Variant: the service does not ask whose row it is.
LoadAnyones(r) ==
  /\ at[r] = "admitted"
  /\ IF Target(r) \in DOMAIN stored
     THEN Goes(r, "loaded") /\ UNCHANGED holds
          /\ seen' = [seen EXCEPT ![r] = stored[Target(r)].value]
     ELSE Goes(r, "loaded") /\ UNCHANGED <<seen, holds>>

\* Creating content starts with the insert.
Load(r) ==
  /\ at[r] = "admitted"
  /\ CASE Registers(r) ->
            \* get_by_username, then the hash in a thread
            IF accounts[Target(r)] # Nobody THEN Ends(r, "DUPLICATE") /\ UNCHANGED troubled
            ELSE Goes(r, "loaded") /\ UNCHANGED <<seen, holds>>
       [] ~Registers(r) /\ Method(r) = "POST" ->
            Goes(r, "loaded") /\ UNCHANGED <<seen, holds>>
       [] Method(r) = "GET" /\ ~OnItem(asks[r].op) ->
            Ends(r, "OK") /\ UNCHANGED troubled
       [] OTHER ->
            IF Target(r) \notin DOMAIN stored THEN Ends(r, "NOT_FOUND") /\ UNCHANGED troubled
            ELSE IF Method(r) = "GET" THEN Ends(r, "OK") /\ UNCHANGED troubled
            ELSE IF App(r) \in OwnedApps /\ ~MayModify(r, stored[Target(r)].author)
            THEN Ends(r, "FORBIDDEN") /\ UNCHANGED troubled
            ELSE /\ Goes(r, "loaded") /\ UNCHANGED holds
                 /\ seen' = [seen EXCEPT ![r] = stored[Target(r)].value]

-----------------------------------------------------------------------------
\* The fields whose value differs from the one loaded: what the ORM updates.
Changed(r) == {f \in DOMAIN asks[r].sets : asks[r].sets[f] # seen[r][f]}

Locked(r) == \E q \in Requests \ {r} : holds[q] = Target(r)

Writes(r) ==
  /\ Goes(r, "flushed") /\ UNCHANGED seen
  /\ holds' = [holds EXCEPT ![r] = Target(r)]

WritesNothing(r) == Goes(r, "flushed") /\ UNCHANGED <<seen, holds>>

\* Variant: a duplicate is a database error like any other.
FlushUntranslated(r) ==
  /\ at[r] = "loaded"
  /\ \/ /\ Registers(r) /\ ~Locked(r)
        /\ IF accounts[Target(r)] = Nobody THEN Writes(r)
           ELSE Ends(r, "DATABASE_ERROR") /\ UNCHANGED troubled
     \/ ~Registers(r) /\ WritesNothing(r)

\* flush: the statement, behind whoever has the row or the name locked, and
\* what DBErrorTranslator makes of its failure.  A row that is gone fails an
\* UPDATE (StaleDataError); a DELETE does not mind.
Flush(r) ==
  /\ at[r] = "loaded"
  /\ \/ /\ Registers(r) /\ ~Locked(r)
        /\ IF accounts[Target(r)] = Nobody THEN Writes(r)
           ELSE Ends(r, "DUPLICATE") /\ UNCHANGED troubled
     \/ ~Registers(r) /\ Method(r) = "POST" /\ Writes(r)
     \/ Method(r) = "PATCH" /\ Changed(r) = {} /\ WritesNothing(r)
     \/ /\ Method(r) = "PATCH" /\ Changed(r) # {} /\ ~Locked(r)
        /\ IF Target(r) \in DOMAIN stored THEN Writes(r)
           ELSE Ends(r, "DATABASE_ERROR") /\ UNCHANGED troubled
     \/ /\ Method(r) = "DELETE" /\ ~Locked(r)
        /\ IF Target(r) \in DOMAIN stored THEN Writes(r) ELSE WritesNothing(r)
     \/ Ends(r, "DATABASE_ERROR") /\ Troubles(r)

\* Variant: the response is made after the commit.
CommitThenValidate(r) ==
  /\ at[r] = "flushed" /\ at' = [at EXCEPT ![r] = "answered"]
  /\ holds' = [holds EXCEPT ![r] = Nobody]
  /\ committed' = committed \cup {r}
  /\ \E code \in {"OK", "INTERNAL_SERVER_ERROR"} : answer' = [answer EXCEPT ![r] = code]
  /\ UNCHANGED <<stored, accounts, asks, seen, troubled>>

\* The response model over the refreshed row; a DELETE has none.
Validate(r) ==
  /\ at[r] = "flushed"
  /\ \/ Goes(r, "valid") /\ UNCHANGED <<seen, holds>>
     \/ Method(r) # "DELETE" /\ Ends(r, "INTERNAL_SERVER_ERROR") /\ Troubles(r)

\* What the transaction of r leaves in the tables.
Applied(r) ==
  IF holds[r] = Nobody THEN UNCHANGED <<stored, accounts>>
  ELSE IF Registers(r)
  THEN accounts' = [accounts EXCEPT ![Target(r)] = r] /\ UNCHANGED stored
  ELSE /\ UNCHANGED accounts
       /\ CASE Method(r) = "POST" ->
                 stored' = [i \in DOMAIN stored \cup {r} |->
                   IF i = r THEN [app |-> App(r), value |-> [f \in Fields |-> r],
                                  author |-> IF App(r) \in OwnedApps THEN Claim(r).sub ELSE NoAuthor]
                   ELSE stored[i]]
            [] Method(r) = "PATCH" ->
                 stored' = [stored EXCEPT ![Target(r)].value =
                   [f \in Fields |-> IF f \in Changed(r) THEN asks[r].sets[f] ELSE @[f]]]
            [] Method(r) = "DELETE" ->
                 stored' = [i \in DOMAIN stored \ {Target(r)} |-> stored[i]]

\* commit: it succeeds, fails before it takes effect, or takes effect and the
\* confirmation is lost.  Of the failures the caller is told at once.
Commit(r) ==
  /\ at[r] = "valid" /\ holds' = [holds EXCEPT ![r] = Nobody]
  /\ \/ /\ Applied(r) /\ committed' = committed \cup {r}
        /\ at' = [at EXCEPT ![r] = "saved"] /\ UNCHANGED <<answer, troubled>>
     \/ /\ at' = [at EXCEPT ![r] = "answered"]
        /\ answer' = [answer EXCEPT ![r] = "INTERNAL_SERVER_ERROR"] /\ Troubles(r)
        /\ \/ UNCHANGED <<stored, accounts, committed>>
           \/ Applied(r) /\ committed' = committed \cup {r}
  /\ UNCHANGED <<asks, seen>>

\* The handler returns the response it made before the commit.
Respond(r) ==
  /\ at[r] = "saved" /\ at' = [at EXCEPT ![r] = "answered"]
  /\ answer' = [answer EXCEPT ![r] = "OK"]
  /\ UNCHANGED <<stored, accounts, asks, seen, holds, committed, troubled>>

\* The handler is cancelled, or its process dies: before the commit, which
\* then leaves nothing, or after it, with nobody told.
Cancel(r) ==
  /\ at[r] \in {"admitted", "loaded", "flushed", "valid", "saved"}
  /\ Goes(r, "gone") /\ UNCHANGED seen
  /\ holds' = [holds EXCEPT ![r] = Nobody]
-----------------------------------------------------------------------------
Serve(r) ==
  /\ stage = "up"
  /\ \/ Arrive(r) \/ Load(r) \/ Flush(r) \/ Validate(r) \/ Commit(r)
     \/ Respond(r) \/ Cancel(r)
  /\ UNCHANGED avars

\* Bound: the revisions run in one migration process, of the tree as it is.
Migrating ==
  /\ process = "migration" /\ stage = "up"
  /\ settings = [env |-> "development", debug |-> TRUE, adminDisabled |-> FALSE, mistakes |-> {}]
  /\ shape = TreeShape /\ routes = Routers

ApplicationNext ==
  \/ Assemble /\ UNCHANGED <<rvars, mvars>>
  \/ \E r \in Requests : Serve(r) /\ UNCHANGED mvars
  \/ Migrating /\ Migrate /\ UNCHANGED <<avars, rvars>>

ApplicationSpec == ApplicationInit /\ [][ApplicationNext]_vars
-----------------------------------------------------------------------------
\* Who may change content, and to what: a row is created with its creator as
\* author; in the apps with owners it is changed and deleted by its author
\* or a superuser, in the catalog by superusers; the author stays, and of the
\* values those the request did not send, whoever wrote them meanwhile.
Entitled(r, row) ==
  /\ Claim(r) # NoToken
  /\ Claim(r).su \/ (row.app \in OwnedApps /\ row.author = Claim(r).sub)

ChangesAreEntitled ==
  [][\A i \in DOMAIN stored \cup DOMAIN stored' :
       (i \notin DOMAIN stored \/ i \notin DOMAIN stored' \/ stored'[i] # stored[i]) =>
         \E r \in committed' \ committed :
           /\ Target(r) = i
           /\ i \notin DOMAIN stored => Entitled(r, stored'[i])
           /\ i \in DOMAIN stored => Entitled(r, stored[i])
           /\ i \in DOMAIN stored \cap DOMAIN stored' =>
                /\ stored'[i].author = stored[i].author
                /\ \A f \in Fields \ DOMAIN asks[r].sets :
                     stored'[i].value[f] = stored[i].value[f]]_vars

\* What a request is told is what has become of it: a success (2xx) only of
\* what is committed, an error of the caller (4xx) only of what has left no
\* trace, a server error of what is committed only when the commit itself
\* failed.
AnswersAreTruthful ==
  \A r \in Requests : at[r] = "answered" =>
    CASE Status[answer[r]] < 300 -> r \in committed \/ Method(r) = "GET"
      [] Status[answer[r]] \in 400..499 -> r \notin committed
      [] Status[answer[r]] >= 500 -> r \in committed => r \in troubled

\* Of all that ask for a user name at once one gets it, and gets it by its
\* commit alone, told of it or not; who is answered without it, and the
\* database is not to blame, is told that the name is taken, and it is.
RegistrationsSettled ==
  \A r \in Requests : Registers(r) =>
    /\ at[r] # "idle" => (r \in committed <=> accounts[Target(r)] = r)
    /\ at[r] = "answered" =>
         /\ answer[r] = "DUPLICATE" => accounts[Target(r)] \notin {r, Nobody}
         /\ \/ answer[r] \in {"OK", "DUPLICATE", "UNAUTHORIZED", "FORBIDDEN",
                             "VALIDATION_ERROR", "TOO_MANY_REQUESTS"}
            \/ r \in troubled
=============================================================================
