------------------------- MODULE ApplicationProofs -------------------------
(***************************************************************************)
(* Theorems about Application: what an assembled application has mounted   *)
(* and guards, what its requests do to content and accounts, for any       *)
(* number of requests, users, fields and names, and what any number of     *)
(* runs of the migrations leaves of the schema.                            *)
(***************************************************************************)
EXTENDS Application, FiniteSetTheorems, SequenceTheorems, TLAPS

Methods == {"GET", "POST", "PATCH", "DELETE"}
Levels == {Public, PublicWrite, LoginRequired, SuperuserRequired}

\* Who may write the content of an app.
Writers(app) == IF app = "catalog" THEN SuperuserRequired ELSE LoginRequired

\* What is true of every operation of the tree.
OpFacts(op) ==
  /\ op.method \in Methods /\ op.calls \in Levels /\ op.path # <<"docs">>
  /\ op.app \in Content =>
       /\ op.method \in {"PATCH", "DELETE"} => OnItem(op)
       /\ op.method = "POST" => ~OnItem(op)
       /\ op.method # "GET" => op.calls = Writers(op.app)

\* Operations on a collection and on its items.
Collection(op, app, list, item) ==
  \/ \E p \in {list, item} : op = Op(app, "GET", p, Public)
  \/ op = Op(app, "POST", list, Writers(app))
  \/ \E m \in {"PATCH", "DELETE"} : op = Op(app, m, item, Writers(app))

LEMMA ContentFacts ==
  ASSUME NEW op, NEW app \in Content, NEW list, NEW item,
         list # <<"docs">>, item # <<"docs">>, item[Len(item)] = "id", list[Len(list)] # "id",
         Collection(op, app, list, item)
  PROVE  OpFacts(op) /\ op.app = app
<1>0. Writers(app) \in Levels
  BY DEF Writers, Levels
<1>1. CASE \E p \in {list, item} : op = Op(app, "GET", p, Public)
  <2>1. /\ op.app = app /\ op.method = "GET" /\ op.calls = Public
        /\ op.path = list \/ op.path = item
    BY <1>1 DEF Op
  <2> QED BY <2>1 DEF OpFacts, Methods, Levels
<1>2. CASE op = Op(app, "POST", list, Writers(app))
  <2>1. op.app = app /\ op.method = "POST" /\ op.calls = Writers(app) /\ op.path = list
    BY <1>2 DEF Op
  <2>2. ~OnItem(op)
    BY <2>1 DEF OnItem
  <2> QED BY <1>0, <2>1, <2>2 DEF OpFacts, Methods
<1>3. CASE \E m \in {"PATCH", "DELETE"} : op = Op(app, m, item, Writers(app))
  <2>1. /\ op.app = app /\ op.method \in {"PATCH", "DELETE"}
        /\ op.calls = Writers(app) /\ op.path = item
    BY <1>3 DEF Op
  <2>2. OnItem(op)
    BY <2>1 DEF OnItem
  <2> QED BY <1>0, <2>1, <2>2 DEF OpFacts, Methods
<1> QED BY <1>1, <1>2, <1>3 DEF Collection

LEMMA RouterFacts ==
  ASSUME NEW app \in Apps, NEW op \in Routers[app]
  PROVE  OpFacts(op) /\ op.app = app
<1>1. CASE app = "blog"
  <2> DEFINE item == <<"blog", "posts", "id">>
             list == <<"blog", "posts">>
  <2>1. item # <<"docs">> /\ list # <<"docs">>
    OBVIOUS
  <2>2. item[Len(item)] = "id" /\ list[Len(list)] # "id"
    OBVIOUS
  <2>3. app \in Content /\ Writers(app) = LoginRequired
    BY <1>1 DEF Content, Writers
  <2>4. Collection(op, app, list, item)
    BY <1>1, <2>3 DEF Routers, BlogRoutes, Owned, Collection
  <2> HIDE DEF item, list
  <2> QED BY <2>1, <2>2, <2>3, <2>4, ContentFacts
<1>2. CASE app = "reply"
  <2> DEFINE item == <<"reply", "replies", "id">>
             list == <<"reply", "replies">>
  <2>1. item # <<"docs">> /\ list # <<"docs">>
    OBVIOUS
  <2>2. item[Len(item)] = "id" /\ list[Len(list)] # "id"
    OBVIOUS
  <2>3. app \in Content /\ Writers(app) = LoginRequired
    BY <1>2 DEF Content, Writers
  <2>4. Collection(op, app, list, item)
    BY <1>2, <2>3 DEF Routers, ReplyRoutes, Owned, Collection
  <2> HIDE DEF item, list
  <2> QED BY <2>1, <2>2, <2>3, <2>4, ContentFacts
<1>6. CASE app = "sns"
  <2> DEFINE item == <<"sns", "posts", "id">>
             list == <<"sns", "posts">>
  <2>1. item # <<"docs">> /\ list # <<"docs">>
    OBVIOUS
  <2>2. item[Len(item)] = "id" /\ list[Len(list)] # "id"
    OBVIOUS
  <2>3. app \in Content /\ Writers(app) = LoginRequired
    BY <1>6 DEF Content, Writers
  <2>4. Collection(op, app, list, item)
    BY <1>6, <2>3 DEF Routers, SnsRoutes, Owned, Collection
  <2> HIDE DEF item, list
  <2> QED BY <2>1, <2>2, <2>3, <2>4, ContentFacts
<1>7. CASE app = "catalog"
  <2> DEFINE item == <<"catalog", "products", "id">>
             list == <<"catalog", "products">>
  <2>1. item # <<"docs">> /\ list # <<"docs">>
    OBVIOUS
  <2>2. item[Len(item)] = "id" /\ list[Len(list)] # "id"
    OBVIOUS
  <2>3. app \in Content /\ Writers(app) = SuperuserRequired
    BY <1>7 DEF Content, Writers
  <2>4. Collection(op, app, list, item)
    BY <1>7, <2>3 DEF Routers, CatalogRoutes, Collection
  <2> HIDE DEF item, list
  <2> QED BY <2>1, <2>2, <2>3, <2>4, ContentFacts
<1>3. CASE app = "user"
  <2> DEFINE item == <<"user", "users", "id">>
             list == <<"user", "users">>
  <2>1. item # <<"docs">> /\ list # <<"docs">>
    OBVIOUS
  <2>2. \/ \E m \in {"POST", "GET"} : op = Op("user", m, list, SuperuserRequired)
        \/ \E m \in {"GET", "PATCH"} : op = Op("user", m, item, LoginRequired)
        \/ op = Op("user", "DELETE", item, SuperuserRequired)
    BY <1>3 DEF Routers, UserRoutes
  <2> HIDE DEF item, list
  <2>3. /\ op.app = "user" /\ op.method \in Methods /\ op.calls \in Levels
        /\ op.path = list \/ op.path = item
    BY <2>2 DEF Op, Methods, Levels
  <2> QED BY <1>3, <2>1, <2>3 DEF OpFacts, Content
<1>4. CASE app = "auth"
  <2>1. /\ op.app = "auth" /\ op.method \in Methods /\ op.calls \in Levels
        /\ op.path # <<"docs">>
    BY <1>4 DEF Routers, AuthRoutes, Op, Methods, Levels
  <2> QED BY <1>4, <2>1 DEF OpFacts, Content
<1>5. CASE app \in {"home", "reports"}
  <2>1. /\ op.app = app /\ op.method \in Methods /\ op.calls \in Levels
        /\ op.path # <<"docs">>
    BY <1>5 DEF Routers, HomeRoutes, ReportRoutes, Op, Methods, Levels
  <2> QED BY <1>5, <2>1 DEF OpFacts, Content
<1> QED BY <1>1, <1>2, <1>3, <1>4, <1>5, <1>6, <1>7 DEF Apps, Routers
LEMMA OpShape ==
  ASSUME NEW app \in Apps, NEW op \in Routers[app]
  PROVE  \E a, m, p, c : op = Op(a, m, p, c)
<1> USE DEF Op
<1>1. CASE app \in {"blog", "reply", "sns"}
  BY <1>1 DEF Routers, BlogRoutes, ReplyRoutes, SnsRoutes, Owned
<1>2. CASE app = "catalog"
  BY <1>2 DEF Routers, CatalogRoutes
<1>3. CASE app = "user"
  BY <1>3 DEF Routers, UserRoutes
<1>4. CASE app \in {"auth", "home", "reports"}
  BY <1>4 DEF Routers, AuthRoutes, HomeRoutes, ReportRoutes
<1> QED BY <1>1, <1>2, <1>3, <1>4 DEF Apps, Routers
-----------------------------------------------------------------------------
\* What an operation of a router may look like: the declaration may be wrong.
Plausible(op) ==
  /\ op.method \in Methods /\ op.path # <<"docs">>
  /\ op.calls \in Levels \cup Declarations

WiredIn(p) == \A a \in Apps : shape[a][p] # "absent" => <<a, p>> \in wired
MountedAll == \A a \in Apps : shape[a]["router"] # "absent" => routes[a] \subseteq mounted

\* What each stage relies on, of what the stages before it have done.
AssemblyInv ==
  /\ process \in {"web", "worker", "migration"}
  /\ stage \notin {"settings", "discover", "failed"} => apps = Apps
  /\ stage \notin {"settings", "failed"} => SettingsAccepted
  /\ process # "web" => stage \notin {"hooks", "routers", "health", "admin", "verify"}
  /\ process # "worker" => stage # "tasks"
  /\ process = "web" =>
       /\ stage \in {"models", "routers", "health", "admin", "verify", "up"} => WiredIn("hook")
       /\ stage \in {"routers", "health", "admin", "verify", "up"} => WiredIn("models")
       /\ stage \in {"health", "admin", "verify", "up"} => WiredIn("router") /\ MountedAll
       /\ stage \in {"verify", "up"} => settings.adminDisabled \/ WiredIn("admin")
       /\ stage = "up" => Violations(mounted) = {}
  /\ process = "worker" =>
       /\ stage \in {"tasks", "up"} => WiredIn("models")
       /\ stage = "up" => WiredIn("tasks")
  /\ process = "migration" => (stage = "up" => WiredIn("models"))
  /\ \A a \in Apps : \A op \in routes[a] : Plausible(op)
  /\ \A op \in mounted :
       (\E a \in Apps : op \in routes[a]) \/ op \in HealthAndDocs(settings.debug)

LEMMA AssemblyStart == AssemblyInit => AssemblyInv
<1> SUFFICES ASSUME AssemblyInit PROVE AssemblyInv
  OBVIOUS
<1>1. \A a \in Apps : \A op \in Routers[a] : Plausible(op)
  BY RouterFacts DEF Plausible, OpFacts
<1>2. \A a \in Apps : \A op \in routes[a] : Plausible(op)
  <2>1. CASE routes = Routers
    BY <1>1, <2>1
  <2>2. CASE \E a \in Apps : \E op \in Routers[a], d \in Declarations :
               routes = [Routers EXCEPT ![a] = (@ \ {op}) \cup {[op EXCEPT !.calls = d]}]
    <3>1. PICK a \in Apps : \E op \in Routers[a], d \in Declarations :
                routes = [Routers EXCEPT ![a] = (@ \ {op}) \cup {[op EXCEPT !.calls = d]}]
      BY <2>2
    <3>2. PICK op \in Routers[a], d \in Declarations :
                routes = [Routers EXCEPT ![a] = (@ \ {op}) \cup {[op EXCEPT !.calls = d]}]
      BY <3>1
    <3>3. Plausible([op EXCEPT !.calls = d])
      <4>1. Plausible(op) /\ \E app, m, p, c : op = Op(app, m, p, c)
        BY <1>1, OpShape
      <4> QED BY <4>1 DEF Plausible, Op
    <3>4. \A b \in Apps : routes[b] \subseteq Routers[b] \cup {[op EXCEPT !.calls = d]}
      BY <3>2 DEF Apps
    <3> QED BY <1>1, <3>3, <3>4
  <2> QED BY <2>1, <2>2 DEF AssemblyInit
<1>3. stage = "settings" /\ mounted = {} /\ process \in {"web", "worker", "migration"}
  BY DEF AssemblyInit
<1> QED BY <1>2, <1>3 DEF AssemblyInv

\* Wiring a part leaves none of it out, or fails, and undoes nothing.
LEMMA WireStep ==
  ASSUME NEW p, NEW wrong, NEW next, Wire(p, wrong, next), apps = Apps
  PROVE  /\ UNCHANGED found
         /\ stage' = "failed" \/ stage' = next
         /\ \A q : WiredIn(q) => WiredIn(q)'
         /\ stage' # "failed" => WiredIn(p)'
<1>1. UNCHANGED found
  BY DEF Wire, Next1
<1>2. CASE stage' = "failed" /\ UNCHANGED wired
  BY <1>1, <1>2 DEF found, WiredIn
<1>3. CASE /\ ~\E a \in apps : shape[a][p] \in {"broken"} \cup wrong
           /\ stage' = next
           /\ wired' = wired \cup {<<a, p>> : a \in {b \in apps : Imported(b, p)}}
  BY <1>1, <1>3 DEF found, WiredIn, Imported
<1> QED BY <1>2, <1>3 DEF Wire, Next1

LEMMA AssemblyStep == AssemblyInv /\ [Assemble]_avars => AssemblyInv'
<1> SUFFICES ASSUME AssemblyInv, [Assemble]_avars PROVE AssemblyInv'
  OBVIOUS
<1>1. CASE UNCHANGED avars
  BY <1>1 DEF avars, AssemblyInv, WiredIn, MountedAll, SettingsAccepted, Deployed
<1>2. CASE LoadSettings
  BY <1>2 DEF LoadSettings, Next1, found, AssemblyInv, SettingsAccepted, Deployed
<1>3. CASE Discover
  <2>1. apps' = Apps
    BY <1>3 DEF Discover, Entries, Apps, Routers
  <2> QED BY <1>3, <2>1 DEF Discover, Next1, found, AssemblyInv, SettingsAccepted, Deployed
<1>4. CASE InstallHooks
  <2>1. apps = Apps /\ process = "web"
    BY <1>4 DEF InstallHooks, AssemblyInv
  <2>2. Wire("hook", {"raising"}, "models") /\ UNCHANGED <<apps, mounted>>
    BY <1>4 DEF InstallHooks
  <2> QED BY <1>4, <2>1, <2>2, WireStep
       DEF InstallHooks, found, AssemblyInv, SettingsAccepted, Deployed
<1>5. CASE ImportModels
  <2> DEFINE next == CASE process = "web" -> "routers" [] process = "worker" -> "tasks"
                       [] process = "migration" -> "up"
  <2>1. apps = Apps /\ stage = "models"
    BY <1>5 DEF ImportModels, AssemblyInv
  <2>2. Wire("models", {}, next) /\ UNCHANGED <<apps, mounted>>
    BY <1>5 DEF ImportModels
  <2>3. /\ UNCHANGED found
        /\ stage' = "failed" \/ stage' = next
        /\ \A q : WiredIn(q) => WiredIn(q)'
        /\ stage' # "failed" => WiredIn("models")'
    BY <2>1, <2>2, WireStep
  <2> QED BY <2>1, <2>2, <2>3 DEF found, AssemblyInv, SettingsAccepted, Deployed
<1>6. CASE InstallRouters
  <2>1. apps = Apps /\ process = "web" /\ stage = "routers"
    BY <1>6 DEF InstallRouters, AssemblyInv
  <2>2. Wire("router", {"misfit", "shared"}, "health") /\ UNCHANGED apps
    BY <1>6 DEF InstallRouters
  <2>3. /\ UNCHANGED found
        /\ stage' = "failed" \/ stage' = "health"
        /\ \A q : WiredIn(q) => WiredIn(q)'
        /\ stage' # "failed" => WiredIn("router")'
    BY <2>1, <2>2, WireStep
  <2>4. mounted' = UNION {routes[a] : a \in {b \in Apps : <<b, "router">> \in wired'}}
    BY <1>6, <2>1 DEF InstallRouters
  <2>5. stage' # "failed" => MountedAll'
    BY <2>3, <2>4 DEF MountedAll, WiredIn, found
  <2>6. \A op \in mounted' : \E a \in Apps : op \in routes[a]
    BY <2>4
  <2> QED BY <2>1, <2>2, <2>3, <2>5, <2>6 DEF found, AssemblyInv, SettingsAccepted, Deployed
<1>7. CASE AddHealthAndDocs
  BY <1>7 DEF AddHealthAndDocs, Next1, found, AssemblyInv, WiredIn, MountedAll,
     SettingsAccepted, Deployed
<1>8. CASE InstallAdmin
  <2>1. apps = Apps /\ process = "web" /\ stage = "admin" /\ UNCHANGED <<apps, mounted>>
    BY <1>8 DEF InstallAdmin, AssemblyInv
  <2>2. CASE settings.adminDisabled /\ Next1("verify") /\ UNCHANGED wired
    BY <2>1, <2>2 DEF Next1, found, AssemblyInv, WiredIn, MountedAll, SettingsAccepted, Deployed
  <2>3. CASE Wire("admin", {"misfit", "shared"}, "verify")
    BY <2>1, <2>3, WireStep DEF found, AssemblyInv, MountedAll, SettingsAccepted, Deployed
  <2> QED BY <1>8, <2>2, <2>3 DEF InstallAdmin
<1>9. CASE Verify
  BY <1>9 DEF Verify, Next1, found, AssemblyInv, WiredIn, MountedAll, SettingsAccepted, Deployed
<1>10. CASE IncludeTasks
  <2>1. apps = Apps /\ process = "worker" /\ stage = "tasks" /\ UNCHANGED <<apps, mounted>>
    BY <1>10 DEF IncludeTasks, AssemblyInv
  <2>2. Wire("tasks", {}, "up")
    BY <1>10 DEF IncludeTasks
  <2> QED BY <2>1, <2>2, WireStep DEF found, AssemblyInv, SettingsAccepted, Deployed
<1> QED BY <1>1, <1>2, <1>3, <1>4, <1>5, <1>6, <1>7, <1>8, <1>9, <1>10 DEF Assemble

LEMMA AssembledSteps == [ApplicationNext]_vars => [Assemble]_avars
  BY DEF ApplicationNext, Serve, vars, avars

\* The inductive invariant of the assembly.
THEOREM AssemblyInvariant == ApplicationSpec => []AssemblyInv
<1>1. ApplicationInit => AssemblyInv
  BY AssemblyStart DEF ApplicationInit
<1>2. AssemblyInv /\ [ApplicationNext]_vars => AssemblyInv'
  BY AssemblyStep, AssembledSteps
<1> QED BY <1>1, <1>2, PTL DEF ApplicationSpec

\* Whatever is wrong in one of the parts, a process that is up has wired every
\* part it found of those it wires (AppRegistry.install_*, import_models).
THEOREM NothingIsLeftOut == ApplicationSpec => []NothingLeftOut
<1>1. AssemblyInv => NothingLeftOut
  <2> SUFFICES ASSUME AssemblyInv, stage = "up" PROVE NothingLeftOut
    BY DEF NothingLeftOut
  <2>1. \A p \in Parts : Wants(p) => WiredIn(p)
    BY DEF AssemblyInv, Wants, Parts
  <2>2. process = "web" => MountedAll
    BY DEF AssemblyInv
  <2> QED BY <2>1, <2>2 DEF NothingLeftOut, WiredIn, MountedAll
<1> QED BY <1>1, AssemblyInvariant, PTL

LEMMA Singles ==
  /\ DeclaredLevels({}) = {}
  /\ DeclaredLevels(LoginRequired \cup Public) = {"Public", "LoginRequired"}
  /\ DeclaredLevels(Public) = {"Public"}
  /\ DeclaredLevels(PublicWrite) = {"PublicWrite"}
<1> DEFINE both == {"get_current_principal", "public"}
<1>1. DOMAIN Markers = {"public", "public_write"}
  BY DEF Markers
<1>2. Markers["public"] = "Public" /\ Markers["public_write"] = "PublicWrite"
  BY DEF Markers
<1> HIDE DEF Markers
<1> QED BY <1>1, <1>2 DEF DeclaredLevels, Public, PublicWrite, LoginRequired

LEMMA GuardedCalls ==
  ASSUME NEW op, Plausible(op), NEW ops, op \in ops, Violations(ops) = {}
  PROVE  /\ op.calls \in Levels
         /\ op.calls = Public => op.method = "GET"
         /\ op.calls = PublicWrite => op.method # "GET"
<1>1. /\ Cardinality(DeclaredLevels(op.calls)) = 1
      /\ DeclaredLevels(op.calls) = {"Public"} => op.method \in SafeMethods
      /\ DeclaredLevels(op.calls) = {"PublicWrite"} => op.method \notin SafeMethods
  BY DEF Violations
<1>2. op.calls # {}
  BY <1>1, Singles, FS_EmptySet
<1>3. op.calls # LoginRequired \cup Public
  <2>1. Cardinality({"Public", "LoginRequired"}) = 2
    <3>1. IsFiniteSet({"Public"}) /\ Cardinality({"Public"}) = 1
      BY FS_Singleton
    <3>2. {"Public", "LoginRequired"} = {"Public"} \cup {"LoginRequired"}
      OBVIOUS
    <3>3. Cardinality({"Public"} \cup {"LoginRequired"}) = 2
      BY <3>1, FS_AddElement
    <3> QED BY <3>2, <3>3
  <2> QED BY <1>1, <2>1, Singles
<1>4. op.calls \in Levels
  BY <1>2, <1>3 DEF Plausible, Declarations, Levels
<1> QED BY <1>1, <1>4, Singles DEF Plausible, Methods, SafeMethods

\* Whatever the operations of the tree declare, one that is served has told
\* who may call it, and a deployed application serves no documentation
\* (AccessPolicyGuard.verify, validate_deployment_safety).
THEOREM OperationsAreGuarded == ApplicationSpec => []EveryOperationGuarded
<1>1. AssemblyInv => EveryOperationGuarded
  <2> SUFFICES ASSUME AssemblyInv, stage = "up", process = "web" PROVE EveryOperationGuarded
    BY DEF EveryOperationGuarded
  <2>1. Violations(mounted) = {}
    BY DEF AssemblyInv
  <2>2. ASSUME NEW op \in HealthAndDocs(settings.debug)
        PROVE  /\ op.method = "GET" /\ op.calls = Public
               /\ op.path = <<"docs">> => settings.debug
    <3>1. PICK p \in {"health", "ready"} \cup (IF settings.debug THEN {"docs"} ELSE {}) :
            op = Op("main", "GET", <<p>>, Public)
      BY DEF HealthAndDocs
    <3>2. op.path = <<p>> /\ op.method = "GET" /\ op.calls = Public
      BY <3>1 DEF Op
    <3>3. <<p>> = <<"docs">> => p = "docs"
      OBVIOUS
    <3> QED BY <3>2, <3>3
  <2>3. ASSUME NEW op \in mounted
        PROVE  \E calls \in Levels : /\ op.calls = calls
                                     /\ calls = Public => op.method = "GET"
                                     /\ calls = PublicWrite => op.method # "GET"
    <3>1. CASE \E a \in Apps : op \in routes[a]
      BY <2>1, <3>1, GuardedCalls DEF AssemblyInv
    <3>2. CASE op \in HealthAndDocs(settings.debug)
      BY <2>2, <3>2 DEF Levels, Public, PublicWrite
    <3> QED BY <3>1, <3>2 DEF AssemblyInv
  <2>4. ASSUME Deployed, NEW op \in mounted PROVE op.path # <<"docs">>
    <3>1. ~settings.debug
      BY <2>4 DEF AssemblyInv, SettingsAccepted, Deployed
    <3> QED BY <2>2, <3>1 DEF AssemblyInv, Plausible
  <2> QED BY <2>3, <2>4 DEF EveryOperationGuarded, Levels
<1> QED BY <1>1, AssemblyInvariant, PTL
-----------------------------------------------------------------------------
Underway == {"admitted", "loaded", "flushed", "valid"}
Edits(r) == Method(r) \in {"PATCH", "DELETE"}

RequestsTyped ==
  /\ at = [r \in Requests |-> at[r]] /\ answer = [r \in Requests |-> answer[r]]
  /\ holds = [r \in Requests |-> holds[r]] /\ asks = [r \in Requests |-> asks[r]]
  /\ accounts \in [Names -> Requests \cup {Nobody}]
  /\ committed \subseteq Requests

\* What r asks, and once it is let in, that it may ask it.
Asked(r) ==
  at[r] # "idle" =>
    /\ Method(r) \in Methods /\ App(r) \in Content \cup {"auth", "user"}
    /\ Registers(r) => Method(r) = "POST" /\ Target(r) \in Names
    /\ App(r) \in Content /\ Edits(r) =>
         Target(r) \in DOMAIN Seeds /\ Seeds[Target(r)].app = App(r)
    /\ App(r) \in Content /\ Method(r) = "POST" => Target(r) = r
    /\ at[r] \in Underway /\ App(r) \in Content /\ Method(r) # "GET" =>
         Claim(r) \in Claims /\ (App(r) = "catalog" => Claim(r).su)

\* What the transaction of r has locked is there as r has found it.
Holding(r) ==
  /\ holds[r] # Nobody =>
       holds[r] = Target(r) /\ Method(r) # "GET" /\ at[r] \in {"flushed", "valid"}
  /\ at[r] \in {"flushed", "valid"} =>
       /\ Method(r) = "POST" => holds[r] = Target(r)
       /\ Registers(r) => accounts[Target(r)] = Nobody
  /\ holds[r] # Nobody /\ Edits(r) => Target(r) \in DOMAIN stored
  /\ at[r] \in {"loaded", "flushed", "valid"} /\ App(r) \in OwnedApps /\ Edits(r) =>
       MayModify(r, Seeds[Target(r)].author)

\* What r was told.
Told(r) ==
  /\ r \in committed =>
       /\ at[r] \in {"saved", "answered", "gone"}
       /\ at[r] = "answered" => answer[r] = "OK" \/ r \in troubled
  /\ at[r] = "saved" => r \in committed
  /\ at[r] = "answered" =>
       /\ answer[r] \in DOMAIN Status
       /\ answer[r] = "OK" => r \in committed \/ Method(r) = "GET"
       /\ answer[r] \notin {"OK", "INTERNAL_SERVER_ERROR"} => r \notin committed
       /\ Registers(r) /\ answer[r] \in {"NOT_FOUND", "INTERNAL_SERVER_ERROR", "DATABASE_ERROR"} =>
            r \in troubled
       /\ Registers(r) /\ answer[r] = "DUPLICATE" => accounts[Target(r)] \notin {r, Nobody}

Row(x) == x = [app |-> x.app, author |-> x.author, value |-> x.value]

Kept ==
  /\ DOMAIN stored \subseteq DOMAIN Seeds \cup committed
  /\ \A i \in DOMAIN stored :
       /\ Row(stored[i])
       /\ i \in DOMAIN Seeds => stored[i].app = Seeds[i].app /\ stored[i].author = Seeds[i].author
  /\ \A n \in Names, r \in Requests :
       accounts[n] = r => r \in committed /\ Registers(r) /\ Target(r) = n
  /\ \A r \in committed : Registers(r) => accounts[Target(r)] = r
  /\ \A q, r \in Requests : q # r /\ holds[q] # Nobody => holds[q] # holds[r]

RequestInv ==
  /\ RequestsTyped /\ Kept
  /\ \A r \in Requests : Asked(r) /\ Holding(r) /\ Told(r)

LEMMA RequestsStart == ApplicationInit => RequestInv
<1> SUFFICES ASSUME ApplicationInit PROVE RequestInv
  OBVIOUS
<1> USE ApplicationAssumption
<1>1. RequestsTyped
  <2>1. at = [r \in Requests |-> at[r]] /\ answer = [r \in Requests |-> answer[r]]
    BY DEF ApplicationInit
  <2>2. holds = [r \in Requests |-> holds[r]]
    BY DEF ApplicationInit
  <2>3. asks = [r \in Requests |-> asks[r]]
    <3> DEFINE ask == NoAsk
    <3>1. asks = [r \in Requests |-> ask]
      BY DEF ApplicationInit
    <3> HIDE DEF ask
    <3> QED BY <3>1
  <2>4. accounts \in [Names -> Requests \cup {Nobody}] /\ committed = {}
    BY DEF ApplicationInit
  <2> QED BY <2>1, <2>2, <2>3, <2>4 DEF RequestsTyped
<1>2. Kept
  BY DEF ApplicationInit, Kept, Row
<1>3. \A r \in Requests : Asked(r) /\ Holding(r) /\ Told(r)
  BY DEF ApplicationInit, Asked, Holding, Told
<1> QED BY <1>1, <1>2, <1>3 DEF RequestInv

\* What a request is followed for.
LEMMA FollowedFacts ==
  ASSUME AssemblyInv, Followed, NEW op \in FollowedOps
  PROVE  /\ OpFacts(op) /\ op.app \in Content \cup {"auth", "user"}
         /\ op.app \notin Content => op.method = "POST"
<1>1. op \in mounted /\ routes = Routers /\ (op.app \in Content \/ op.method = "POST")
  BY DEF FollowedOps, Followed
<1>2. CASE op \in HealthAndDocs(settings.debug)
  BY <1>1, <1>2 DEF HealthAndDocs, Op, Content
<1>3. CASE \E a \in Apps : op \in Routers[a]
  <2>1. PICK a \in Apps : op \in Routers[a]
    BY <1>3
  <2>2. OpFacts(op) /\ op.app = a
    BY <2>1, RouterFacts
  <2>3. CASE a \in {"home", "reports"}
    BY <1>1, <2>1, <2>2, <2>3 DEF Routers, HomeRoutes, ReportRoutes, Op, Content
  <2>4. CASE a \in Content \cup {"auth", "user"}
    BY <1>1, <2>2, <2>4
  <2> QED BY <2>3, <2>4 DEF Apps, Routers, Content
<1> QED BY <1>1, <1>2, <1>3 DEF AssemblyInv

\* A request that changes nothing but itself leaves the others as they are.
LEMMA OthersStay ==
  ASSUME RequestInv, NEW r \in Requests, NEW q \in Requests \ {r},
         at'[q] = at[q], asks'[q] = asks[q], answer'[q] = answer[q], holds'[q] = holds[q],
         q \in committed' <=> q \in committed, q \in troubled' <=> q \in troubled,
         UNCHANGED <<stored, accounts>>
  PROVE  Asked(q)' /\ Holding(q)' /\ Told(q)'
<1>1. Asked(q) /\ Holding(q) /\ Told(q)
  BY DEF RequestInv
<1>2. Asked(q)'
  BY <1>1 DEF Asked, App, Method, Target, Claim, Registers, Edits
<1>3. Holding(q)'
  BY <1>1 DEF Holding, App, Method, Target, Claim, Registers, Edits, MayModify
<1>4. Told(q)'
  BY <1>1 DEF Told, App, Method, Target, Registers
<1> QED BY <1>2, <1>3, <1>4

\* The steps of r that touch neither a table nor what is committed.
LEMMA RequestStays ==
  ASSUME RequestInv, NEW r \in Requests, NEW a, NEW code, NEW h,
         at' = [at EXCEPT ![r] = a], answer' = [answer EXCEPT ![r] = code],
         holds' = [holds EXCEPT ![r] = h], asks' = [asks EXCEPT ![r] = asks'[r]],
         UNCHANGED <<stored, accounts, committed>>, r \notin committed \/ asks' = asks,
         troubled' = troubled \/ troubled' = troubled \cup {r},
         h # Nobody => \A q \in Requests \ {r} : holds[q] # h,
         Asked(r)' /\ Holding(r)' /\ Told(r)'
  PROVE  RequestInv'
<1>1. RequestsTyped'
  BY DEF RequestInv, RequestsTyped
<1>2. \A q \in Requests \ {r} :
        /\ at'[q] = at[q] /\ asks'[q] = asks[q] /\ answer'[q] = answer[q] /\ holds'[q] = holds[q]
        /\ q \in committed' <=> q \in committed
        /\ q \in troubled' <=> q \in troubled
  BY DEF RequestInv, RequestsTyped
<1>3. \A q \in Requests \ {r} : Asked(q)' /\ Holding(q)' /\ Told(q)'
  BY <1>2, OthersStay
<1>4. at'[r] = a /\ holds'[r] = h
  BY DEF RequestInv, RequestsTyped
<1>5. Kept'
  <2>1. \A n \in Names, q \in Requests :
          accounts[n] = q => q \in committed /\ Registers(q)' /\ Target(q)' = n
    BY <1>2 DEF RequestInv, Kept, Registers, App, Target
  <2>2. \A q \in committed : Registers(q)' => accounts[Target(q)'] = q
    BY <1>2 DEF RequestInv, RequestsTyped, Kept, Registers, App, Target
  <2>3. \A p, q \in Requests : p # q /\ holds'[p] # Nobody => holds'[p] # holds'[q]
    BY <1>2, <1>4 DEF RequestInv, Kept
  <2> QED BY <2>1, <2>2, <2>3 DEF RequestInv, Kept, Row
<1> QED BY <1>1, <1>3, <1>5 DEF RequestInv

LEMMA ArriveStep ==
  ASSUME RequestInv, AssemblyInv, NEW r \in Requests, Arrive(r)
  PROVE  RequestInv'
<1>0. Asked(r) /\ Holding(r) /\ Told(r) /\ RequestsTyped /\ at[r] = "idle" /\ Followed
  BY DEF RequestInv, Arrive
<1>1. PICK op \in FollowedOps, c \in Claims \cup {NoToken}, limited \in BOOLEAN,
           body \in {"valid", "invalid", "malformed"} :
        \E t \in Targets(r, op), b \in Bodies(r, op) :
          LET refusal ==
                IF Shapeless(op, body) THEN "VALIDATION_ERROR"
                ELSE IF "get_current_principal" \in op.calls /\ c = NoToken THEN "UNAUTHORIZED"
                ELSE IF "require_superuser" \in op.calls /\ ~c.su THEN "FORBIDDEN"
                ELSE IF RateLimited(op, limited) THEN "TOO_MANY_REQUESTS"
                ELSE IF body # "valid" THEN "VALIDATION_ERROR" ELSE "none"
          IN /\ asks' = [asks EXCEPT ![r] = [op |-> op, target |-> t, claim |-> c, sets |-> b]]
             /\ answer' = [answer EXCEPT ![r] = refusal]
             /\ at' = [at EXCEPT ![r] = IF refusal = "none" THEN "admitted" ELSE "answered"]
  BY DEF Arrive
<1>2. PICK t \in Targets(r, op), b \in Bodies(r, op), to \in {"admitted", "answered"},
           refusal \in {"UNAUTHORIZED", "FORBIDDEN", "TOO_MANY_REQUESTS", "VALIDATION_ERROR",
                        "none"} :
        /\ asks' = [asks EXCEPT ![r] = [op |-> op, target |-> t, claim |-> c, sets |-> b]]
        /\ answer' = [answer EXCEPT ![r] = refusal]
        /\ at' = [at EXCEPT ![r] = to]
        /\ \/ refusal # "none" /\ to = "answered"
           \/ /\ refusal = "none" /\ to = "admitted"
              /\ "get_current_principal" \in op.calls => c # NoToken
              /\ "require_superuser" \in op.calls => c.su
  BY <1>1
<1>3. /\ App(r)' = op.app /\ Method(r)' = op.method /\ Target(r)' = t /\ Claim(r)' = c
      /\ at'[r] = to /\ answer'[r] = refusal
      /\ asks' = [asks EXCEPT ![r] = asks'[r]]
  BY <1>0, <1>2 DEF App, Method, Target, Claim, RequestsTyped
<1>4. UNCHANGED <<stored, accounts, holds, committed, troubled>>
  BY DEF Arrive
<1>5. /\ OpFacts(op)
      /\ op.app \in Content \cup {"auth", "user"}
      /\ op.app \notin Content => op.method = "POST"
  BY <1>0, FollowedFacts
<1>6. Asked(r)'
  <2>1. op.app \notin Content => t \in Names
    BY DEF Targets
  <2>2. ASSUME op.app \in Content, op.method \in {"PATCH", "DELETE"}
        PROVE  t \in DOMAIN Seeds /\ Seeds[t].app = op.app
    <3>1. OnItem(op)
      BY <1>5, <2>2 DEF OpFacts
    <3> QED BY <2>2, <3>1 DEF Targets
  <2>3. ASSUME op.app \in Content, op.method = "POST" PROVE t = r
    <3>1. ~OnItem(op)
      BY <1>5, <2>3 DEF OpFacts
    <3> QED BY <2>3, <3>1 DEF Targets
  <2>4. ASSUME to = "admitted", op.app \in Content, op.method # "GET"
        PROVE  c \in Claims /\ (op.app = "catalog" => c.su)
    <3>1. op.calls = Writers(op.app)
      BY <1>5, <2>4 DEF OpFacts
    <3>2. "get_current_principal" \in op.calls
      BY <3>1 DEF Writers, LoginRequired, SuperuserRequired
    <3>3. op.app = "catalog" => "require_superuser" \in op.calls
      BY <3>1 DEF Writers, SuperuserRequired
    <3> QED BY <1>2, <2>4, <3>2, <3>3
  <2>5. op.app \in {"auth", "user"} => op.app \notin Content
    BY DEF Content
  <2>6. op.method \in Methods
    BY <1>5 DEF OpFacts
  <2>7. at'[r] \in Underway => to = "admitted"
    BY <1>2, <1>3 DEF Underway
  <2> QED BY <1>3, <1>5, <2>1, <2>2, <2>3, <2>4, <2>5, <2>6, <2>7 DEF Asked, Registers, Edits
<1>7. Holding(r)'
  BY <1>0, <1>2, <1>3, <1>4 DEF Holding
<1>8. Told(r)'
  BY <1>0, <1>2, <1>3, <1>4 DEF Told, Status
<1>9. r \notin committed /\ holds' = [holds EXCEPT ![r] = Nobody] /\ holds[r] = Nobody
  BY <1>0, <1>4 DEF Told, Holding, RequestsTyped
<1> QED BY <1>2, <1>3, <1>4, <1>6, <1>7, <1>8, <1>9, RequestStays

\* A transaction that ends without a trace.
LEMMA EndsStep ==
  ASSUME RequestInv, NEW r \in Requests, NEW code \in DOMAIN Status, Ends(r, code),
         at[r] \in Underway, troubled' = troubled \/ troubled' = troubled \cup {r},
         code = "OK" => Method(r) = "GET",
         Registers(r) => \/ code = "DUPLICATE" /\ accounts[Target(r)] \notin {r, Nobody}
                         \/ r \in troubled' /\ code # "DUPLICATE"
  PROVE  RequestInv'
<1>0. Asked(r) /\ Holding(r) /\ Told(r) /\ RequestsTyped
  BY DEF RequestInv
<1>1. /\ at' = [at EXCEPT ![r] = "answered"] /\ answer' = [answer EXCEPT ![r] = code]
      /\ holds' = [holds EXCEPT ![r] = Nobody]
      /\ UNCHANGED <<stored, accounts, asks, committed>>
  BY DEF Ends
<1>2. at'[r] = "answered" /\ answer'[r] = code /\ holds'[r] = Nobody /\ r \notin committed
  BY <1>0, <1>1 DEF RequestsTyped, Told, Underway
<1>3. Asked(r)'
  BY <1>0, <1>1, <1>2 DEF Asked, App, Method, Target, Claim, Registers, Edits, Underway
<1>4. Holding(r)'
  BY <1>2 DEF Holding
<1>5. Told(r)'
  BY <1>1, <1>2 DEF Told, App, Method, Target, Registers
<1>6. asks' = [asks EXCEPT ![r] = asks'[r]]
  BY <1>0, <1>1 DEF RequestsTyped
<1> QED BY <1>1, <1>2, <1>3, <1>4, <1>5, <1>6, RequestStays

\* A transaction that goes on, or is gone.
LEMMA GoesStep ==
  ASSUME RequestInv, NEW r \in Requests, NEW to \in {"loaded", "flushed", "valid", "gone"}, NEW h,
         Goes(r, to), at[r] \in Underway, holds' = [holds EXCEPT ![r] = h],
         h # Nobody => \A q \in Requests \ {r} : holds[q] # h,
         at'[r] = to /\ holds'[r] = h => Holding(r)'
  PROVE  RequestInv'
<1>0. Asked(r) /\ Told(r) /\ RequestsTyped
  BY DEF RequestInv
<1>1. /\ at' = [at EXCEPT ![r] = to]
      /\ UNCHANGED <<stored, accounts, asks, answer, committed, troubled>>
  BY DEF Goes
<1>2. at'[r] = to /\ holds'[r] = h /\ r \notin committed
  BY <1>0, <1>1 DEF RequestsTyped, Told, Underway
<1>3. Asked(r)'
  BY <1>0, <1>1, <1>2 DEF Asked, App, Method, Target, Claim, Registers, Edits, Underway
<1>4. Holding(r)'
  BY <1>2
<1>5. Told(r)'
  BY <1>1, <1>2 DEF Told
<1>6. asks' = [asks EXCEPT ![r] = asks'[r]] /\ answer' = [answer EXCEPT ![r] = answer[r]]
  BY <1>0, <1>1 DEF RequestsTyped
<1> QED BY <1>1, <1>2, <1>3, <1>4, <1>5, <1>6, RequestStays

LEMMA LoadStep ==
  ASSUME RequestInv, NEW r \in Requests, Load(r)
  PROVE  RequestInv'
<1>0. Asked(r) /\ Holding(r) /\ Told(r) /\ RequestsTyped /\ Kept
  BY DEF RequestInv
<1>1. at[r] = "admitted" /\ at[r] \in Underway /\ r \notin committed /\ holds[r] = Nobody
  BY <1>0 DEF Load, Underway, Told, Holding
<1>2. ASSUME Goes(r, "loaded"), UNCHANGED holds,
             App(r) \in OwnedApps /\ Edits(r) => MayModify(r, Seeds[Target(r)].author)
      PROVE  RequestInv'
  <2>1. holds' = [holds EXCEPT ![r] = Nobody]
    BY <1>0, <1>1, <1>2 DEF RequestsTyped
  <2>2. at'[r] = "loaded" /\ holds'[r] = Nobody => Holding(r)'
    BY <1>2 DEF Holding, Goes, App, Method, Target, Claim, Registers, Edits, MayModify
  <2> QED BY <1>1, <1>2, <2>1, <2>2, GoesStep
<1>3. ASSUME NEW code \in {"OK", "NOT_FOUND", "FORBIDDEN", "DUPLICATE"},
             Ends(r, code), UNCHANGED troubled, code = "OK" => Method(r) = "GET",
             Registers(r) => code = "DUPLICATE" /\ accounts[Target(r)] # Nobody
      PROVE  RequestInv'
  <2>1. code \in DOMAIN Status
    BY DEF Status
  <2>2. Registers(r) => code = "DUPLICATE" /\ accounts[Target(r)] \notin {r, Nobody}
    BY <1>0, <1>1, <1>3 DEF Kept, Asked
  <2> QED BY <1>1, <1>3, <2>1, <2>2, EndsStep
<1>4. CASE Registers(r)
  <2>1. CASE accounts[Target(r)] # Nobody
    <3>1. Method(r) = "POST"
      BY <1>0, <1>1, <1>4 DEF Asked
    <3>2. Ends(r, "DUPLICATE") /\ UNCHANGED troubled
      BY <1>4, <2>1, <3>1 DEF Load
    <3> QED BY <1>3, <1>4, <2>1, <3>2
  <2>2. CASE accounts[Target(r)] = Nobody
    BY <1>0, <1>1, <1>2, <1>4, <2>2 DEF Load, Asked, Edits
  <2> QED BY <2>1, <2>2
<1>5. CASE ~Registers(r) /\ Method(r) = "POST"
  BY <1>2, <1>5 DEF Load, Edits
<1>6. CASE ~Registers(r) /\ Method(r) = "GET" /\ ~OnItem(asks[r].op)
  BY <1>3, <1>6 DEF Load
<1>7. CASE ~Registers(r) /\ Method(r) # "POST" /\ ~(Method(r) = "GET" /\ ~OnItem(asks[r].op))
  <2>1. IF Target(r) \notin DOMAIN stored THEN Ends(r, "NOT_FOUND") /\ UNCHANGED troubled
        ELSE IF Method(r) = "GET" THEN Ends(r, "OK") /\ UNCHANGED troubled
        ELSE IF App(r) \in OwnedApps /\ ~MayModify(r, stored[Target(r)].author)
        THEN Ends(r, "FORBIDDEN") /\ UNCHANGED troubled
        ELSE /\ Goes(r, "loaded") /\ UNCHANGED holds
             /\ seen' = [seen EXCEPT ![r] = stored[Target(r)].value]
    BY <1>7 DEF Load
  <2>2. Target(r) \in DOMAIN stored /\ App(r) \in OwnedApps /\ Edits(r) =>
          stored[Target(r)].author = Seeds[Target(r)].author
    BY <1>0, <1>1 DEF Asked, Kept, OwnedApps, Content
  <2> QED BY <1>2, <1>3, <1>7, <2>1, <2>2
<1> QED BY <1>4, <1>5, <1>6, <1>7

\* What another transaction has locked is never what a request creates.
LEMMA NewIsFree ==
  ASSUME RequestInv, NEW r \in Requests, NEW q \in Requests \ {r}
  PROVE  holds[q] # r
<1>1. Asked(q) /\ Holding(q)
  BY DEF RequestInv
<1>2. holds[q] = Nobody \/ Target(q) \in Names \cup DOMAIN Seeds \cup {q}
  BY <1>1 DEF Asked, Holding, Methods, Edits, Registers
<1> QED BY <1>1, <1>2, ApplicationAssumption DEF Holding

LEMMA FlushStep ==
  ASSUME RequestInv, NEW r \in Requests, Flush(r)
  PROVE  RequestInv'
<1>0. Asked(r) /\ Holding(r) /\ Told(r) /\ RequestsTyped /\ Kept
  BY DEF RequestInv
<1>1. at[r] = "loaded" /\ at[r] \in Underway /\ r \notin committed /\ holds[r] = Nobody
  BY <1>0 DEF Flush, Underway, Told, Holding
<1>2. ASSUME Writes(r), Method(r) # "GET", \A q \in Requests \ {r} : holds[q] # Target(r),
             Registers(r) => accounts[Target(r)] = Nobody,
             Edits(r) => Target(r) \in DOMAIN stored
      PROVE  RequestInv'
  <2>1. Goes(r, "flushed") /\ holds' = [holds EXCEPT ![r] = Target(r)]
    BY <1>2 DEF Writes
  <2>2. at'[r] = "flushed" /\ holds'[r] = Target(r) => Holding(r)'
    BY <1>0, <1>1, <1>2, <2>1
       DEF Holding, Goes, App, Method, Target, Claim, Registers, Edits, MayModify
  <2> QED BY <1>1, <1>2, <2>1, <2>2, GoesStep
<1>3. ASSUME WritesNothing(r), Edits(r), ~Registers(r)
      PROVE  RequestInv'
  <2>1. Goes(r, "flushed") /\ holds' = [holds EXCEPT ![r] = Nobody]
    BY <1>0, <1>1, <1>3 DEF WritesNothing, RequestsTyped
  <2>2. at'[r] = "flushed" /\ holds'[r] = Nobody => Holding(r)'
    BY <1>0, <1>1, <1>3, <2>1
       DEF Holding, Goes, App, Method, Target, Claim, Registers, Edits, MayModify
  <2> QED BY <1>1, <2>1, <2>2, GoesStep
<1>4. ASSUME Ends(r, "DATABASE_ERROR"), troubled' = troubled \/ Troubles(r),
             Registers(r) => Troubles(r)
      PROVE  RequestInv'
  <2>1. "DATABASE_ERROR" \in DOMAIN Status
    BY DEF Status
  <2>2. troubled' = troubled \/ troubled' = troubled \cup {r}
    BY <1>4 DEF Troubles
  <2>3. Registers(r) => r \in troubled'
    BY <1>4 DEF Troubles
  <2> QED BY <1>1, <1>4, <2>1, <2>2, <2>3, EndsStep
<1>5. Registers(r) => Method(r) = "POST" /\ Target(r) \in Names
  BY <1>0, <1>1 DEF Asked
<1>6. CASE Registers(r) /\ ~Locked(r) /\ accounts[Target(r)] = Nobody /\ Writes(r)
  BY <1>2, <1>5, <1>6 DEF Locked, Edits
<1>7. CASE /\ Registers(r) /\ accounts[Target(r)] # Nobody
           /\ Ends(r, "DUPLICATE") /\ UNCHANGED troubled
  <2>1. accounts[Target(r)] # r
    BY <1>0, <1>1, <1>5, <1>7 DEF Kept
  <2>2. "DUPLICATE" \in DOMAIN Status
    BY DEF Status
  <2> QED BY <1>1, <1>7, <2>1, <2>2, EndsStep
<1>8. CASE ~Registers(r) /\ Method(r) = "POST" /\ Writes(r)
  <2>1. Target(r) = r
    BY <1>0, <1>1, <1>8 DEF Asked, Registers
  <2>2. \A q \in Requests \ {r} : holds[q] # Target(r)
    BY <2>1, NewIsFree
  <2> QED BY <1>2, <1>8, <2>2 DEF Edits
<1>9. CASE Edits(r) /\ WritesNothing(r)
  BY <1>3, <1>5, <1>9 DEF Edits
<1>10. CASE Edits(r) /\ ~Locked(r) /\ Target(r) \in DOMAIN stored /\ Writes(r)
  BY <1>2, <1>5, <1>10 DEF Edits, Locked
<1>11. CASE Edits(r) /\ Ends(r, "DATABASE_ERROR") /\ UNCHANGED troubled
  BY <1>4, <1>5, <1>11 DEF Edits
<1>12. CASE Ends(r, "DATABASE_ERROR") /\ Troubles(r)
  BY <1>4, <1>12
<1> QED BY <1>6, <1>7, <1>8, <1>9, <1>10, <1>11, <1>12 DEF Flush, Edits

LEMMA ValidateStep ==
  ASSUME RequestInv, NEW r \in Requests, Validate(r)
  PROVE  RequestInv'
<1>0. Asked(r) /\ Holding(r) /\ Told(r) /\ RequestsTyped /\ Kept
  BY DEF RequestInv
<1>1. at[r] = "flushed" /\ at[r] \in Underway
  BY DEF Validate, Underway
<1>2. CASE Goes(r, "valid") /\ UNCHANGED <<seen, holds>>
  <2>1. holds' = [holds EXCEPT ![r] = holds[r]]
    BY <1>0, <1>2 DEF RequestsTyped
  <2>2. at'[r] = "valid" /\ holds'[r] = holds[r] => Holding(r)'
    BY <1>0, <1>1, <1>2 DEF Holding, Goes, App, Method, Target, Claim, Registers, Edits, MayModify
  <2>3. holds[r] # Nobody => \A q \in Requests \ {r} : holds[q] # holds[r]
    BY <1>0 DEF Kept
  <2> QED BY <1>1, <1>2, <2>1, <2>2, <2>3, GoesStep
<1>3. CASE Ends(r, "INTERNAL_SERVER_ERROR") /\ Troubles(r)
  <2>1. "INTERNAL_SERVER_ERROR" \in DOMAIN Status
    BY DEF Status
  <2> QED BY <1>1, <1>3, <2>1, EndsStep DEF Troubles
<1> QED BY <1>2, <1>3 DEF Validate

\* What comes after the commit leaves the tables alone.
LEMMA RespondStep ==
  ASSUME RequestInv, NEW r \in Requests, Respond(r)
  PROVE  RequestInv'
<1>0. Asked(r) /\ Holding(r) /\ Told(r) /\ RequestsTyped
  BY DEF RequestInv
<1>1. /\ at[r] = "saved" /\ at' = [at EXCEPT ![r] = "answered"]
      /\ answer' = [answer EXCEPT ![r] = "OK"]
      /\ UNCHANGED <<stored, accounts, asks, holds, committed, troubled>>
  BY DEF Respond
<1>2. at'[r] = "answered" /\ answer'[r] = "OK" /\ r \in committed
  BY <1>0, <1>1 DEF RequestsTyped, Told
<1>3. holds[r] = Nobody /\ holds' = [holds EXCEPT ![r] = Nobody]
  BY <1>0, <1>1 DEF RequestsTyped, Holding
<1>4. Asked(r)'
  BY <1>0, <1>1, <1>2 DEF Asked, App, Method, Target, Claim, Registers, Edits, Underway
<1>5. Holding(r)'
  BY <1>1, <1>2, <1>3 DEF Holding
<1>6. Told(r)'
  BY <1>1, <1>2 DEF Told, Status
<1>7. asks' = [asks EXCEPT ![r] = asks'[r]]
  BY <1>0, <1>1 DEF RequestsTyped
<1> QED BY <1>1, <1>3, <1>4, <1>5, <1>6, <1>7, RequestStays

LEMMA CancelStep ==
  ASSUME RequestInv, NEW r \in Requests, Cancel(r)
  PROVE  RequestInv'
<1>1. Goes(r, "gone") /\ holds' = [holds EXCEPT ![r] = Nobody]
  BY DEF Cancel
<1>2. at'[r] = "gone" /\ holds'[r] = Nobody => Holding(r)'
  BY DEF Holding
<1>3. CASE at[r] \in Underway
  BY <1>1, <1>2, <1>3, GoesStep
<1>4. CASE at[r] = "saved"
  <2>0. Asked(r) /\ RequestsTyped
    BY DEF RequestInv
  <2>1. /\ at' = [at EXCEPT ![r] = "gone"]
        /\ UNCHANGED <<stored, accounts, asks, answer, committed, troubled>>
    BY <1>1 DEF Goes
  <2>2. at'[r] = "gone" /\ holds'[r] = Nobody
    BY <1>1, <2>0, <2>1 DEF RequestsTyped
  <2>3. Asked(r)'
    BY <1>4, <2>0, <2>1, <2>2 DEF Asked, App, Method, Target, Claim, Registers, Edits, Underway
  <2>4. Told(r)'
    BY <2>2 DEF Told
  <2>5. asks' = [asks EXCEPT ![r] = asks'[r]] /\ answer' = [answer EXCEPT ![r] = answer[r]]
    BY <2>0, <2>1 DEF RequestsTyped
  <2> QED BY <1>1, <1>2, <2>1, <2>2, <2>3, <2>4, <2>5, RequestStays
<1> QED BY <1>3, <1>4 DEF Cancel, Underway

\* What a commit leaves in the tables: at most the row or the name it holds.
LEMMA AppliedFacts ==
  ASSUME RequestInv, NEW r \in Requests, at[r] = "valid", Applied(r)
  PROVE  /\ DOMAIN stored' \subseteq DOMAIN stored \cup {r}
         /\ DOMAIN stored \ {holds[r]} \subseteq DOMAIN stored'
         /\ \A i \in DOMAIN stored' :
              /\ Row(stored'[i])
              /\ i \in DOMAIN stored =>
                   stored'[i].app = stored[i].app /\ stored'[i].author = stored[i].author
         /\ ~Registers(r) => UNCHANGED accounts
         /\ Registers(r) => /\ Target(r) \in Names /\ accounts[Target(r)] = Nobody
                            /\ holds[r] = Target(r) /\ holds[r] # Nobody
                            /\ accounts' = [accounts EXCEPT ![Target(r)] = r]
<1>0. Asked(r) /\ Holding(r) /\ Told(r) /\ RequestsTyped /\ Kept
  BY DEF RequestInv
<1>1. Registers(r) => /\ Target(r) \in Names /\ accounts[Target(r)] = Nobody
                      /\ holds[r] = Target(r) /\ holds[r] # Nobody
  BY <1>0, ApplicationAssumption DEF Asked, Holding
<1>2. ~Registers(r) => UNCHANGED accounts
  BY DEF Applied
<1>3. Registers(r) => accounts' = [accounts EXCEPT ![Target(r)] = r] /\ UNCHANGED stored
  BY <1>1 DEF Applied
<1>4. CASE UNCHANGED stored
  BY <1>0, <1>1, <1>2, <1>3, <1>4 DEF Kept, Row
<1>5. CASE ~Registers(r) /\ holds[r] # Nobody
  <2>1. holds[r] = Target(r) /\ Method(r) \in {"POST", "PATCH", "DELETE"}
    BY <1>0, <1>5 DEF Asked, Holding, Methods
  <2>2. CASE Method(r) = "POST"
    <3>1. PICK author, value :
            stored' = [i \in DOMAIN stored \cup {r} |->
              IF i = r THEN [app |-> App(r), value |-> value, author |-> author] ELSE stored[i]]
      BY <1>5, <2>2 DEF Applied
    <3>2. r \notin DOMAIN stored
      BY <1>0, ApplicationAssumption DEF Kept, Told
    <3>3. /\ DOMAIN stored' = DOMAIN stored \cup {r}
          /\ \A i \in DOMAIN stored : stored'[i] = stored[i]
          /\ Row(stored'[r])
      BY <3>1, <3>2 DEF Row
    <3> QED BY <1>0, <1>2, <1>5, <3>2, <3>3 DEF Kept
  <2>3. CASE Method(r) = "PATCH"
    <3>1. PICK value : stored' = [stored EXCEPT ![Target(r)].value = value]
      BY <1>5, <2>3 DEF Applied
    <3> QED BY <1>0, <1>2, <1>5, <3>1 DEF Kept, Row
  <2>4. CASE Method(r) = "DELETE"
    <3>1. stored' = [i \in DOMAIN stored \ {Target(r)} |-> stored[i]]
      BY <1>5, <2>4 DEF Applied
    <3> QED BY <1>0, <1>2, <1>5, <2>1, <3>1 DEF Kept, Row
  <2> QED BY <2>1, <2>2, <2>3, <2>4
<1>6. CASE holds[r] = Nobody
  BY <1>4, <1>6 DEF Applied
<1> QED BY <1>3, <1>4, <1>5, <1>6

LEMMA CommitStep ==
  ASSUME RequestInv, NEW r \in Requests, Commit(r)
  PROVE  RequestInv'
<1>0. Asked(r) /\ Holding(r) /\ Told(r) /\ RequestsTyped /\ Kept
  BY DEF RequestInv
<1>1. /\ at[r] = "valid" /\ at[r] \in Underway /\ r \notin committed
      /\ holds' = [holds EXCEPT ![r] = Nobody]
      /\ UNCHANGED <<asks, seen>>
  BY <1>0 DEF Commit, Underway, Told
<1>2. CASE /\ UNCHANGED <<stored, accounts, committed>> /\ at' = [at EXCEPT ![r] = "answered"]
           /\ answer' = [answer EXCEPT ![r] = "INTERNAL_SERVER_ERROR"] /\ Troubles(r)
  <2>1. "INTERNAL_SERVER_ERROR" \in DOMAIN Status
    BY DEF Status
  <2>2. Ends(r, "INTERNAL_SERVER_ERROR")
    BY <1>1, <1>2 DEF Ends
  <2> QED BY <1>1, <1>2, <2>1, <2>2, EndsStep DEF Troubles
<1>3. CASE Applied(r) /\ committed' = committed \cup {r} /\
           \E to \in {"saved", "answered"}, code \in {answer[r], "INTERNAL_SERVER_ERROR"} :
             /\ at' = [at EXCEPT ![r] = to] /\ answer' = [answer EXCEPT ![r] = code]
             /\ \/ to = "saved" /\ troubled' = troubled
                \/ /\ to = "answered" /\ troubled' = troubled \cup {r}
                   /\ code = "INTERNAL_SERVER_ERROR"
  <2>1. PICK to \in {"saved", "answered"}, code \in {answer[r], "INTERNAL_SERVER_ERROR"} :
          /\ at' = [at EXCEPT ![r] = to] /\ answer' = [answer EXCEPT ![r] = code]
          /\ \/ to = "saved" /\ troubled' = troubled
             \/ /\ to = "answered" /\ troubled' = troubled \cup {r}
                /\ code = "INTERNAL_SERVER_ERROR"
    BY <1>3
  <2>2. /\ DOMAIN stored' \subseteq DOMAIN stored \cup {r}
        /\ DOMAIN stored \ {holds[r]} \subseteq DOMAIN stored'
        /\ \A i \in DOMAIN stored' :
             /\ Row(stored'[i])
             /\ i \in DOMAIN stored =>
                  stored'[i].app = stored[i].app /\ stored'[i].author = stored[i].author
        /\ ~Registers(r) => UNCHANGED accounts
        /\ Registers(r) => /\ Target(r) \in Names /\ accounts[Target(r)] = Nobody
                           /\ holds[r] = Target(r) /\ holds[r] # Nobody
                           /\ accounts' = [accounts EXCEPT ![Target(r)] = r]
    BY <1>1, <1>3, AppliedFacts
  <2>3. \A q \in Requests :
          /\ App(q)' = App(q) /\ Method(q)' = Method(q) /\ Target(q)' = Target(q)
          /\ Claim(q)' = Claim(q) /\ Registers(q)' = Registers(q) /\ Edits(q)' = Edits(q)
    BY <1>1 DEF App, Method, Target, Claim, Registers, Edits
  <2>4. /\ at'[r] = to /\ answer'[r] = code /\ holds'[r] = Nobody
        /\ \A q \in Requests \ {r} :
             at'[q] = at[q] /\ answer'[q] = answer[q] /\ holds'[q] = holds[q]
    BY <1>0, <1>1, <2>1 DEF RequestsTyped
  <2>5. RequestsTyped'
    <3>1. at' = [q \in Requests |-> at'[q]] /\ holds' = [q \in Requests |-> holds'[q]]
      BY <1>0, <1>1, <2>1 DEF RequestsTyped
    <3>2. answer' = [q \in Requests |-> answer'[q]] /\ asks' = [q \in Requests |-> asks'[q]]
      BY <1>0, <1>1, <2>1 DEF RequestsTyped
    <3>3. accounts' \in [Names -> Requests \cup {Nobody}]
      BY <1>0, <2>2 DEF RequestsTyped
    <3> QED BY <1>0, <1>3, <3>1, <3>2, <3>3 DEF RequestsTyped
  <2>6. Kept'
    <3>1. DOMAIN stored' \subseteq DOMAIN Seeds \cup committed'
      BY <1>0, <1>3, <2>2 DEF Kept
    <3>2. \A i \in DOMAIN stored' :
            /\ Row(stored'[i])
            /\ i \in DOMAIN Seeds =>
                 stored'[i].app = Seeds[i].app /\ stored'[i].author = Seeds[i].author
      BY <1>0, <2>2, ApplicationAssumption DEF Kept
    <3>3. \A n \in Names, q \in Requests :
            accounts'[n] = q => q \in committed' /\ Registers(q)' /\ Target(q)' = n
      BY <1>0, <1>3, <2>2, <2>3 DEF Kept, RequestsTyped
    <3>4. \A q \in committed' : Registers(q)' => accounts'[Target(q)'] = q
      <4>1. ASSUME NEW q \in committed, Registers(q) PROVE accounts'[Target(q)] = q
        <5>1. accounts[Target(q)] = q /\ q \in Requests /\ q # Nobody
          BY <1>0, <4>1, ApplicationAssumption DEF Kept, RequestsTyped
        <5>2. Target(q) \in Names
          BY <4>1, <5>1 DEF RequestInv, Told, Asked
        <5> QED BY <1>0, <2>2, <5>1, <5>2 DEF RequestsTyped
      <4>2. Registers(r) => accounts'[Target(r)] = r
        BY <1>0, <2>2 DEF RequestsTyped
      <4> QED BY <1>0, <1>3, <2>3, <4>1, <4>2 DEF RequestsTyped
    <3>5. \A p, q \in Requests : p # q /\ holds'[p] # Nobody => holds'[p] # holds'[q]
      BY <1>0, <2>4 DEF Kept
    <3> QED BY <3>1, <3>2, <3>3, <3>4, <3>5 DEF Kept, Row
  <2>7. ASSUME NEW q \in Requests \ {r}
        PROVE  Asked(q)' /\ Holding(q)' /\ Told(q)'
    <3>0. Asked(q) /\ Holding(q) /\ Told(q)
      BY DEF RequestInv
    <3>1. Asked(q)'
      BY <2>3, <2>4, <3>0 DEF Asked
    <3>2. holds[q] # Nobody => holds[q] # holds[r]
      BY <1>0 DEF Kept
    <3>3. Registers(q) /\ at[q] \in {"flushed", "valid"} => accounts'[Target(q)] = Nobody
      <4>1. SUFFICES ASSUME Registers(q), at[q] \in {"flushed", "valid"}
                     PROVE  accounts'[Target(q)] = Nobody
        OBVIOUS
      <4>2. Target(q) \in Names /\ holds[q] = Target(q) /\ accounts[Target(q)] = Nobody
        BY <3>0, <4>1 DEF Asked, Holding
      <4>3. holds[q] # Nobody
        BY <4>2, ApplicationAssumption
      <4> QED BY <1>0, <2>2, <3>2, <4>2, <4>3 DEF RequestsTyped
    <3>4. holds[q] # Nobody /\ Edits(q) => Target(q) \in DOMAIN stored'
      BY <2>2, <3>0, <3>2 DEF Holding
    <3>5. MayModify(q, Seeds[Target(q)].author)' = MayModify(q, Seeds[Target(q)].author)
      BY <1>1 DEF MayModify, Claim, Target
    <3>6. Holding(q)'
      BY <2>3, <2>4, <3>0, <3>3, <3>4, <3>5 DEF Holding
    <3>7. Registers(q) /\ at[q] = "answered" /\ accounts[Target(q)] \notin {q, Nobody} =>
            accounts'[Target(q)] \notin {q, Nobody}
      <4>1. Registers(q) /\ at[q] = "answered" => Target(q) \in Names
        BY <3>0 DEF Asked
      <4>2. r # q /\ r # Nobody
        BY ApplicationAssumption
      <4> QED BY <1>0, <2>2, <4>1, <4>2 DEF RequestsTyped
    <3>8. (q \in committed' <=> q \in committed) /\ (q \in troubled' <=> q \in troubled)
      BY <1>3, <2>1
    <3>9. Told(q)'
      BY <2>3, <2>4, <3>0, <3>7, <3>8 DEF Told
    <3> QED BY <3>1, <3>6, <3>9
  <2>8. Asked(r)' /\ Holding(r)'
    BY <1>0, <1>1, <2>3, <2>4 DEF Asked, Holding, Underway
  <2>9. Told(r)'
    BY <1>3, <2>1, <2>4 DEF Told, Status
  <2> QED BY <2>5, <2>6, <2>7, <2>8, <2>9 DEF RequestInv
<1>4. answer' = answer => answer' = [answer EXCEPT ![r] = answer[r]]
  BY <1>0 DEF RequestsTyped
<1> QED BY <1>2, <1>3, <1>4 DEF Commit, Troubles

LEMMA RequestsAside ==
  ASSUME RequestInv, UNCHANGED rvars
  PROVE  RequestInv'
<1>1. RequestsTyped' /\ Kept'
  BY DEF RequestInv, RequestsTyped, Kept, Row, rvars, Registers, App, Target
<1>2. ASSUME NEW r \in Requests PROVE Asked(r)' /\ Holding(r)' /\ Told(r)'
  BY DEF RequestInv, rvars, Asked, Holding, Told, Registers, App, Target, Method, Claim, Edits,
         MayModify
<1> QED BY <1>1, <1>2 DEF RequestInv

LEMMA RequestsStep ==
  ASSUME RequestInv, AssemblyInv, [ApplicationNext]_vars
  PROVE  RequestInv'
<1>1. ASSUME NEW r \in Requests, Serve(r) PROVE RequestInv'
  BY <1>1, ArriveStep, LoadStep, FlushStep, ValidateStep, CommitStep, RespondStep,
     CancelStep
  DEF Serve
<1>2. CASE UNCHANGED rvars
  BY <1>2, RequestsAside
<1> QED BY <1>1, <1>2 DEF ApplicationNext, vars, Migrating

\* What every request has asked, holds and was told, and what the tables hold,
\* with any number of requests under way (the handlers of the content apps and
\* of the registration, get_db_session).
THEOREM RequestInvariant == ApplicationSpec => []RequestInv
<1>1. ApplicationInit => RequestInv
  BY RequestsStart
<1>2. RequestInv /\ AssemblyInv /\ [ApplicationNext]_vars => RequestInv'
  BY RequestsStep
<1> QED BY <1>1, <1>2, AssemblyInvariant, PTL DEF ApplicationSpec

\* Whatever a request is told, and whenever it fails, what it is told is what
\* has become of it (get_db_session commits before the response is sent).
THEOREM AnswersTellTheTruth == ApplicationSpec => []AnswersAreTruthful
<1>1. RequestInv => AnswersAreTruthful
  <2> SUFFICES ASSUME RequestInv, NEW r \in Requests
               PROVE  at[r] = "answered" =>
                        CASE Status[answer[r]] < 300 -> r \in committed \/ Method(r) = "GET"
                          [] Status[answer[r]] \in 400..499 -> r \notin committed
                          [] Status[answer[r]] >= 500 -> r \in committed => r \in troubled
    BY DEF AnswersAreTruthful
  <2>1. Told(r)
    BY DEF RequestInv
  <2>2. SUFFICES ASSUME at[r] = "answered"
                 PROVE  CASE Status[answer[r]] < 300 -> r \in committed \/ Method(r) = "GET"
                          [] Status[answer[r]] \in 400..499 -> r \notin committed
                          [] Status[answer[r]] >= 500 -> r \in committed => r \in troubled
    BY <2>1 DEF Told
  <2>3. CASE answer[r] = "OK"
    <3>1. Status[answer[r]] = 200
      BY <2>3 DEF Status
    <3> QED BY <2>1, <2>2, <2>3, <3>1 DEF Told
  <2>4. CASE answer[r] \in {"INTERNAL_SERVER_ERROR", "DATABASE_ERROR"}
    <3>1. Status[answer[r]] = 500
      BY <2>4 DEF Status
    <3>2. r \in committed => r \in troubled
      BY <2>1, <2>2, <2>4 DEF Told
    <3> QED BY <3>1, <3>2
  <2>5. CASE answer[r] \in {"UNAUTHORIZED", "FORBIDDEN", "NOT_FOUND", "DUPLICATE",
                           "VALIDATION_ERROR", "TOO_MANY_REQUESTS"}
    <3> DEFINE status == Status[answer[r]]
    <3>1. status \in Int /\ ~(status < 300) /\ ~(status >= 500) /\ status \in 400..499
      BY <2>5 DEF Status
    <3>2. r \notin committed
      BY <2>1, <2>2, <2>5 DEF Told
    <3> HIDE DEF status
    <3>3. (CASE status < 300 -> r \in committed \/ Method(r) = "GET"
             [] status \in 400..499 -> r \notin committed
             [] status >= 500 -> r \in committed => r \in troubled)
      BY <3>1, <3>2
    <3> QED BY <3>3 DEF status
  <2> QED BY <2>1, <2>2, <2>3, <2>4, <2>5 DEF Told, Status
<1> QED BY <1>1, RequestInvariant, PTL

\* Of any number of registrations of a user name one gets it, and the others
\* learn that it is taken (UserService.create_user, DBErrorTranslator).
THEOREM OneGetsTheName == ApplicationSpec => []RegistrationsSettled
<1>1. RequestInv => RegistrationsSettled
  <2> SUFFICES ASSUME RequestInv, NEW r \in Requests, Registers(r), at[r] # "idle"
               PROVE  /\ r \in committed <=> accounts[Target(r)] = r
                      /\ at[r] = "answered" =>
                           /\ answer[r] = "DUPLICATE" => accounts[Target(r)] \notin {r, Nobody}
                           /\ \/ answer[r] \in {"OK", "DUPLICATE", "UNAUTHORIZED", "FORBIDDEN",
                                               "VALIDATION_ERROR", "TOO_MANY_REQUESTS"}
                              \/ r \in troubled
    BY DEF RegistrationsSettled
  <2>1. Asked(r) /\ Told(r) /\ Kept
    BY DEF RequestInv
  <2>2. r \in committed <=> accounts[Target(r)] = r
    BY <2>1 DEF Asked, Kept
  <2> QED BY <2>1, <2>2 DEF Told, Status
<1> QED BY <1>1, RequestInvariant, PTL

\* The one row a commit changes, and how.
LEMMA CommitChanges ==
  ASSUME RequestInv, NEW r \in Requests, at[r] = "valid", Applied(r), stored' # stored
  PROVE  /\ ~Registers(r) /\ Method(r) \in {"POST", "PATCH", "DELETE"}
         /\ \A i \in (DOMAIN stored \cup DOMAIN stored') \ {Target(r)} :
              i \in DOMAIN stored /\ i \in DOMAIN stored' /\ stored'[i] = stored[i]
         /\ Method(r) = "POST" =>
              /\ Target(r) = r /\ r \notin DOMAIN stored
              /\ stored'[r].app = App(r)
              /\ stored'[r].author = IF App(r) \in OwnedApps THEN Claim(r).sub ELSE NoAuthor
         /\ Method(r) # "POST" => Target(r) \in DOMAIN stored
         /\ Method(r) = "PATCH" =>
              /\ stored'[Target(r)].author = stored[Target(r)].author
              /\ \A f \in Fields \ DOMAIN asks[r].sets :
                   stored'[Target(r)].value[f] = stored[Target(r)].value[f]
         /\ Method(r) = "DELETE" => Target(r) \notin DOMAIN stored'
<1>0. Asked(r) /\ Holding(r) /\ Told(r) /\ RequestsTyped /\ Kept
  BY DEF RequestInv
<1>1. ~Registers(r) /\ holds[r] # Nobody
  BY DEF Applied
<1>2. holds[r] = Target(r) /\ Method(r) \in {"POST", "PATCH", "DELETE"}
  BY <1>0, <1>1 DEF Holding, Asked, Methods
<1>3. CASE Method(r) = "POST"
  <2>1. PICK value :
          stored' = [i \in DOMAIN stored \cup {r} |->
            IF i = r THEN [app |-> App(r), value |-> value,
                           author |-> IF App(r) \in OwnedApps THEN Claim(r).sub ELSE NoAuthor]
            ELSE stored[i]]
    BY <1>1, <1>3 DEF Applied
  <2>2. Target(r) = r
    BY <1>0, <1>1, <1>3 DEF Asked, Registers
  <2>3. r \notin DOMAIN stored
    BY <1>0, ApplicationAssumption DEF Kept, Told
  <2> QED BY <1>1, <1>3, <2>1, <2>2, <2>3
<1>4. Method(r) # "POST" => Target(r) \in DOMAIN stored
  BY <1>0, <1>1, <1>2 DEF Holding, Edits
<1>5. CASE Method(r) = "PATCH"
  <2> DEFINE T == Target(r)
             value == [f \in Fields |-> IF f \in Changed(r) THEN asks[r].sets[f]
                                        ELSE stored[T].value[f]]
  <2>1. stored' = [stored EXCEPT ![T].value = value]
    BY <1>1, <1>5 DEF Applied
  <2>2. Row(stored[T])
    BY <1>0, <1>4, <1>5 DEF Kept
  <2>3. \A f \in Fields \ DOMAIN asks[r].sets : value[f] = stored[T].value[f]
    BY DEF Changed
  <2> HIDE DEF value
  <2>4. stored'[T].value = value /\ stored'[T].author = stored[T].author
    BY <1>4, <1>5, <2>1, <2>2 DEF Row
  <2>5. \A i \in (DOMAIN stored \cup DOMAIN stored') \ {T} :
          i \in DOMAIN stored /\ i \in DOMAIN stored' /\ stored'[i] = stored[i]
    BY <2>1
  <2> QED BY <1>1, <1>4, <1>5, <2>3, <2>4, <2>5
<1>6. CASE Method(r) = "DELETE"
  <2>1. stored' = [i \in DOMAIN stored \ {Target(r)} |-> stored[i]]
    BY <1>1, <1>6 DEF Applied
  <2> QED BY <1>1, <1>4, <1>6, <2>1
<1> QED BY <1>2, <1>3, <1>5, <1>6

\* Content is changed only by a commit of one who may, and keeps its author and
\* what the request did not send (the services' ensure_can_modify, the
\* declarations of the routes, update of the attributes that were set).
THEOREM ChangesAreAllowed == ApplicationSpec => ChangesAreEntitled
<1> DEFINE Allowed ==
      \A i \in DOMAIN stored \cup DOMAIN stored' :
        (i \notin DOMAIN stored \/ i \notin DOMAIN stored' \/ stored'[i] # stored[i]) =>
          \E r \in committed' \ committed :
            /\ Target(r) = i
            /\ i \notin DOMAIN stored => Entitled(r, stored'[i])
            /\ i \in DOMAIN stored => Entitled(r, stored[i])
            /\ i \in DOMAIN stored \cap DOMAIN stored' =>
                 /\ stored'[i].author = stored[i].author
                 /\ \A f \in Fields \ DOMAIN asks[r].sets :
                      stored'[i].value[f] = stored[i].value[f]
<1>1. RequestInv /\ [ApplicationNext]_vars => [Allowed]_vars
  <2> SUFFICES ASSUME RequestInv, ApplicationNext PROVE Allowed
    OBVIOUS
  <2>1. CASE UNCHANGED stored
    BY <2>1
  <2>2. ASSUME stored' # stored PROVE Allowed
    <3>1. PICK r \in Requests : Serve(r)
      BY <2>2 DEF ApplicationNext, rvars, Migrating
    <3>2. Commit(r)
      BY <2>2, <3>1 DEF Serve, Arrive, Load, Flush, Validate, Respond, Cancel, Ends, Goes,
                        Writes, WritesNothing
    <3>3. /\ at[r] = "valid" /\ Applied(r) /\ committed' = committed \cup {r}
      BY <2>2, <3>2 DEF Commit
    <3>4. Asked(r) /\ Holding(r) /\ Told(r) /\ Kept
      BY DEF RequestInv
    <3>5. r \in committed' \ committed
      BY <3>3, <3>4 DEF Told
    <3> DEFINE T == Target(r)
    <3>6. /\ ~Registers(r) /\ Method(r) \in {"POST", "PATCH", "DELETE"}
          /\ \A i \in (DOMAIN stored \cup DOMAIN stored') \ {T} :
               i \in DOMAIN stored /\ i \in DOMAIN stored' /\ stored'[i] = stored[i]
          /\ Method(r) = "POST" =>
               /\ T = r /\ r \notin DOMAIN stored
               /\ stored'[r].app = App(r)
               /\ stored'[r].author = IF App(r) \in OwnedApps THEN Claim(r).sub ELSE NoAuthor
          /\ Method(r) # "POST" => T \in DOMAIN stored
          /\ Method(r) = "PATCH" =>
               /\ stored'[T].author = stored[T].author
               /\ \A f \in Fields \ DOMAIN asks[r].sets : stored'[T].value[f] = stored[T].value[f]
          /\ Method(r) = "DELETE" => T \notin DOMAIN stored'
      BY <2>2, <3>3, CommitChanges
    <3>7. /\ App(r) \in Content /\ Claim(r) \in Claims /\ Claim(r) # NoToken
          /\ App(r) = "catalog" => Claim(r).su
      BY <3>3, <3>4, <3>6, ApplicationAssumption DEF Asked, Underway, Registers
    <3>8. Method(r) = "POST" => Entitled(r, stored'[T])
      BY <3>6, <3>7 DEF Entitled, OwnedApps, Content
    <3>9. Method(r) # "POST" => Entitled(r, stored[T])
      <4>1. SUFFICES ASSUME Method(r) # "POST" PROVE Entitled(r, stored[T])
        OBVIOUS
      <4>2. Edits(r) /\ T \in DOMAIN stored
        BY <3>6, <4>1 DEF Edits
      <4>3. stored[T].app = App(r) /\ stored[T].author = Seeds[T].author
        BY <3>3, <3>4, <3>7, <4>2 DEF Asked, Kept
      <4>4. App(r) \in OwnedApps => MayModify(r, stored[T].author)
        BY <3>3, <3>4, <4>2, <4>3 DEF Holding
      <4> QED BY <3>7, <4>3, <4>4 DEF Entitled, MayModify, OwnedApps, Content
    <3> HIDE DEF T
    <3>10. SUFFICES ASSUME NEW i \in DOMAIN stored \cup DOMAIN stored',
                           i \notin DOMAIN stored \/ i \notin DOMAIN stored'
                             \/ stored'[i] # stored[i]
                    PROVE  /\ Target(r) = i
                           /\ i \notin DOMAIN stored => Entitled(r, stored'[i])
                           /\ i \in DOMAIN stored => Entitled(r, stored[i])
                           /\ i \in DOMAIN stored \cap DOMAIN stored' =>
                                /\ stored'[i].author = stored[i].author
                                /\ \A f \in Fields \ DOMAIN asks[r].sets :
                                     stored'[i].value[f] = stored[i].value[f]
      BY <3>5
    <3>11. i = T
      BY <3>6, <3>10
    <3> QED BY <3>6, <3>8, <3>9, <3>11 DEF T
  <2> QED BY <2>1, <2>2
<1>2. ApplicationSpec => [][Allowed]_vars
  BY <1>1, RequestInvariant, PTL DEF ApplicationSpec
<1> QED BY <1>2 DEF ChangesAreEntitled
-----------------------------------------------------------------------------
(***************************************************************************)
(* The migrations: what the revisions add, in which order, and what a run  *)
(* of any length and outcome leaves of it.                                 *)
(***************************************************************************)
\* A path of an object, whatever its parts.
IsPath(s) == \E S : s \in Seq(S)

\* A prefix agrees with what it is a prefix of, part by part.
LEMMA PrefixParts ==
  ASSUME NEW s, NEW t, IsPath(s), IsPath(t), IsPrefix(s, t)
  PROVE  Len(s) <= Len(t) /\ \A i \in 1..Len(s) : s[i] = t[i]
<1>1. PICK S : s \in Seq(S)
  BY DEF IsPath
<1>2. PICK T : t \in Seq(T)
  BY DEF IsPath
<1>3. SubSeq(s, 1, Len(s)) = SubSeq(t, 1, Len(s)) /\ Len(s) <= Len(t) /\ Len(s) \in Nat /\ Len(t) \in Nat
  BY <1>1, <1>2 DEF IsPrefix
<1>4. ASSUME NEW i \in 1..Len(s) PROVE s[i] = t[i]
  <2>1. SubSeq(s, 1, Len(s))[i] = s[1 + i - 1]
    BY <1>1, <1>3, SubSeqProperties
  <2>2. SubSeq(t, 1, Len(s))[i] = t[1 + i - 1]
    BY <1>2, <1>3, SubSeqProperties
  <2> QED BY <1>3, <2>1, <2>2
<1> QED BY <1>3, <1>4

\* A path is below itself.
LEMMA OwnPrefix == \A s : IsPath(s) => IsPrefix(s, s)
  BY DEF IsPrefix, IsPath

\* Length and parts of the three kinds of paths.
LEMMA PathShapes ==
  \A t, c : /\ IsPath(Table(t)) /\ Len(Table(t)) = 1 /\ Table(t)[1] = t
            /\ IsPath(Column(t, c)) /\ Len(Column(t, c)) = 2 /\ Column(t, c)[1] = t /\ Column(t, c)[2] = c
            /\ IsPath(Index(t, c)) /\ Len(Index(t, c)) = 3 /\ Index(t, c)[1] = t /\ Index(t, c)[2] = c
<1> SUFFICES ASSUME NEW t, NEW c
             PROVE  /\ IsPath(Table(t)) /\ Len(Table(t)) = 1 /\ Table(t)[1] = t
            /\ IsPath(Column(t, c)) /\ Len(Column(t, c)) = 2 /\ Column(t, c)[1] = t /\ Column(t, c)[2] = c
            /\ IsPath(Index(t, c)) /\ Len(Index(t, c)) = 3 /\ Index(t, c)[1] = t /\ Index(t, c)[2] = c
  OBVIOUS
<1>1. <<t>> \in Seq({t, c, "index"}) /\ <<t, c>> \in Seq({t, c, "index"}) /\ <<t, c, "index">> \in Seq({t, c, "index"})
  OBVIOUS
<1> QED BY <1>1 DEF Table, Column, Index, IsPath

LEMMA PrefixPaths ==
  ASSUME NEW p, IsPath(p), NEW t, NEW c
  PROVE  /\ IsPrefix(Table(t), p) => Len(p) >= 1 /\ p[1] = t
         /\ IsPrefix(Column(t, c), p) => Len(p) >= 2 /\ p[1] = t /\ p[2] = c
         /\ IsPrefix(Index(t, c), p) => Len(p) >= 3 /\ p[1] = t /\ p[2] = c
<1>1. IsPath(Table(t)) /\ IsPath(Column(t, c)) /\ IsPath(Index(t, c))
      /\ Len(Table(t)) = 1 /\ Len(Column(t, c)) = 2 /\ Len(Index(t, c)) = 3
  BY PathShapes
<1>2. 1 \in 1..1 /\ 1 \in 1..2 /\ 2 \in 1..2 /\ 1 \in 1..3 /\ 2 \in 1..3
  OBVIOUS
<1>3. CASE IsPrefix(Table(t), p)
  BY <1>1, <1>2, <1>3, PathShapes, PrefixParts
<1> QED BY <1>1, <1>2, PathShapes, PrefixParts

\* The objects of the baseline, in order.
LEMMA BaselineUp ==
  LET U == Baseline.up IN
  /\ Len(U) = 14
  /\ U[1].on = Table("user_access_logs")
  /\ U[2].on = Index("user_access_logs", "browser_name")
  /\ U[3].on = Index("user_access_logs", "country")
  /\ U[4].on = Index("user_access_logs", "created_at")
  /\ U[5].on = Index("user_access_logs", "device_type")
  /\ U[6].on = Index("user_access_logs", "ip_address")
  /\ U[7].on = Index("user_access_logs", "os_name")
  /\ U[8].on = Index("user_access_logs", "session_id")
  /\ U[9].on = Index("user_access_logs", "user_id")
  /\ U[10].on = Table("users")
  /\ U[11].on = Index("users", "username")
  /\ U[12].on = Table("blog_posts")
  /\ U[13].on = Table("replies")
  /\ U[14].on = Table("sns_posts")
  BY DEF Baseline, Adding, Indexes, Stmt, Table

\* Three ways not to be below an object.
LEMMA NotPrefix ==
  ASSUME NEW o, NEW p, IsPath(o), IsPath(p), Len(o) >= 1,
         \/ Len(p) < Len(o)
         \/ o[1] # p[1]
         \/ Len(o) >= 2 /\ o[2] # p[2]
  PROVE  ~IsPrefix(o, p)
<1> SUFFICES ASSUME IsPrefix(o, p) PROVE FALSE
  OBVIOUS
<1>1. Len(o) <= Len(p) /\ \A i \in 1..Len(o) : o[i] = p[i]
  BY PrefixParts
<1>2. Len(o) \in Nat /\ Len(p) \in Nat
  BY DEF IsPath
<1> QED BY <1>1, <1>2

\* The revisions that add objects; what the statement j of one adds, and what
\* is there before it.
Adds == (1..6) \ {5}
On(v, j) == Revisions[v].up[j].on
Before(v, j) == At(v - 1) \cup {On(v, i) : i \in 1..(j - 1)}

\* An object is added once, to a table that is there, and nothing that was
\* there before is part of it.
Chained(v) ==
  \A j \in 1..Len(Revisions[v].up) :
    /\ IsPath(On(v, j))
    /\ Len(On(v, j)) = 1 \/ Table(On(v, j)[1]) \in Before(v, j)
    /\ \A p \in Before(v, j) : ~IsPrefix(On(v, j), p)

\* Every statement adds an object, and the way down drops them backwards.
IsAdding(r) ==
  LET n == Len(r.up) IN
  /\ n \in Nat \ {0} /\ Len(r.down) = n
  /\ \A j \in 1..n : r.up[j] = Stmt("add", r.up[j].on) /\ r.down[j] = Stmt("drop", r.up[n + 1 - j].on)

\* What Adding makes of a sequence of objects.
LEMMA AddingFacts ==
  ASSUME NEW objects, NEW n \in Nat \ {0}, Len(objects) = n
  PROVE  IsAdding(Adding(objects))
  BY DEF Adding, Stmt, IsAdding

\* The chain, link by link.
LEMMA RevisionIs ==
  /\ Revisions[1] = Baseline /\ Revisions[2] = HashedPassword /\ Revisions[3] = CatalogProducts
  /\ Revisions[4] = SalesOrders /\ Revisions[5] = UtcTimes /\ Revisions[6] = AuthorIds
  /\ Head6 = 6
  BY DEF Revisions, Head6

\* What a version adds to the one before it: nothing in the empty database,
\* the objects of an adding revision, nothing in the revision of the times.
LEMMA AtFirst == At(0) = {}
  BY DEF At

LEMMA AtMembers ==
  ASSUME NEW v, NEW p
  PROVE  p \in At(v) <=> \E i \in (1..v) \ {5} : \E j \in 1..Len(Revisions[i].up) : p = On(i, j)
  BY DEF At, On

LEMMA AtStep ==
  ASSUME NEW v \in Adds, NEW p
  PROVE  p \in At(v) <=> p \in At(v - 1) \/ \E j \in 1..Len(Revisions[v].up) : p = On(v, j)
<1>1. (1..v) \ {5} = ((1..(v - 1)) \ {5}) \cup {v} /\ v \in Int
  BY DEF Adds
<1> QED BY <1>1, AtMembers

LEMMA AtUtc == At(5) = At(4)
<1>1. (1..5) \ {5} = (1..4) \ {5}
  OBVIOUS
<1> QED BY <1>1 DEF At

\* All revisions but the one of the times add objects.
LEMMA AddForm == \A v \in Adds : IsAdding(Revisions[v])
<1>1. IsAdding(Baseline)
  BY DEF Baseline, Indexes, IsAdding, Adding, Stmt
<1>2. IsAdding(HashedPassword)
  BY DEF HashedPassword, IsAdding, Adding, Stmt
<1>3. IsAdding(CatalogProducts)
  BY DEF CatalogProducts, IsAdding, Adding, Stmt
<1>4. IsAdding(SalesOrders)
  BY DEF SalesOrders, Indexes, IsAdding, Adding, Stmt
<1>5. IsAdding(AuthorIds)
  BY DEF AuthorIds, IsAdding, Adding, Stmt
<1> QED BY <1>1, <1>2, <1>3, <1>4, <1>5, RevisionIs DEF Adds

\* The baseline is chained.
LEMMA ChainOne == Chained(1)
<1> DEFINE tables == {1, 10, 12, 13, 14}
<1>0. Len(Revisions[1].up) = 14 /\ \A j \in 1..14 : On(1, j) = Baseline.up[j].on
  BY RevisionIs, BaselineUp DEF On
<1>1. \A i \in 1..14 : IsPath(On(1, i)) /\ Len(On(1, i)) \in 1..3
  BY <1>0, BaselineUp, PathShapes
<1>2. \A j \in tables : Len(On(1, j)) = 1 /\ \A i \in 1..14 : i < j => On(1, i)[1] # On(1, j)[1]
  BY <1>0, BaselineUp, PathShapes
<1>3. \A j \in (1..14) \ tables : Len(On(1, j)) = 3 /\
        \A i \in 1..14 : i < j => On(1, i)[1] # On(1, j)[1] \/ On(1, i)[2] # On(1, j)[2] \/ Len(On(1, i)) = 1
  BY <1>0, BaselineUp, PathShapes
<1>4. \A j \in (1..14) \ tables : Table(On(1, j)[1]) = On(1, IF j = 11 THEN 10 ELSE 1)
  BY <1>0, BaselineUp, PathShapes
<1> SUFFICES ASSUME NEW j \in 1..14
             PROVE  /\ IsPath(On(1, j))
                    /\ Len(On(1, j)) = 1 \/ Table(On(1, j)[1]) \in Before(1, j)
                    /\ \A p \in Before(1, j) : ~IsPrefix(On(1, j), p)
  BY <1>0 DEF Chained
<1>5. Before(1, j) = {On(1, i) : i \in 1..(j - 1)}
  BY AtFirst DEF Before
<1>6. Len(On(1, j)) = 1 \/ Table(On(1, j)[1]) \in Before(1, j)
  BY <1>2, <1>4, <1>5
<1>7. ASSUME NEW i \in 1..(j - 1) PROVE ~IsPrefix(On(1, j), On(1, i))
  <2>1. \/ Len(On(1, i)) < Len(On(1, j)) \/ On(1, j)[1] # On(1, i)[1]
        \/ Len(On(1, j)) >= 2 /\ On(1, j)[2] # On(1, i)[2]
    <3>1. CASE j \in tables
      BY <1>2, <3>1
    <3>2. CASE j \notin tables
      BY <1>3, <3>2
    <3> QED BY <3>1, <3>2
  <2> QED BY <1>1, <2>1, NotPrefix
<1> QED BY <1>1, <1>5, <1>6, <1>7

\* The tables of the baseline, the columns later revisions give them.
OldTables == {"user_access_logs", "users", "blog_posts", "replies", "sns_posts"}
NewColumns == {"hashed_password", "is_superuser", "author_id"}

\* What is there after the baseline.
LEMMA AtOne ==
  /\ \A t \in OldTables : Table(t) \in At(1)
  /\ \A p \in At(1) : /\ IsPath(p) /\ Len(p) \in 1..3 /\ p[1] \in OldTables
                      /\ Len(p) = 1 \/ p[2] \notin NewColumns
<1>1. Len(Revisions[1].up) = 14 /\ \A j \in 1..14 : On(1, j) = Baseline.up[j].on
  BY RevisionIs, BaselineUp DEF On
<1>2. \A p : p \in At(1) <=> \E j \in 1..14 : p = On(1, j)
  <2> TAKE p
  <2>1. 1 \in Adds /\ 1 - 1 = 0
    BY DEF Adds
  <2>2. p \in At(1) <=> p \in At(1 - 1) \/ \E j \in 1..Len(Revisions[1].up) : p = On(1, j)
    BY <2>1, AtStep
  <2> QED BY <1>1, <2>1, <2>2, AtFirst
<1>3. ASSUME NEW t \in OldTables PROVE Table(t) \in At(1)
  <2>1. \E j \in 1..14 : Table(t) = On(1, j)
    BY <1>1, BaselineUp DEF OldTables
  <2> QED BY <1>2, <2>1
<1>4. ASSUME NEW j \in 1..14
      PROVE  LET p == On(1, j) IN
             /\ IsPath(p) /\ Len(p) \in 1..3 /\ p[1] \in OldTables
             /\ Len(p) = 1 \/ p[2] \notin NewColumns
  <2>1. \/ \E t \in OldTables : On(1, j) = Table(t)
        \/ \E t \in OldTables :
             \E c \in {"browser_name", "country", "created_at", "device_type", "ip_address",
                       "os_name", "session_id", "user_id", "username"} : On(1, j) = Index(t, c)
    BY <1>1, BaselineUp DEF OldTables
  <2>2. CASE \E t \in OldTables : On(1, j) = Table(t)
    BY <2>2, PathShapes
  <2>3. ASSUME NEW t \in OldTables,
               NEW c \in {"browser_name", "country", "created_at", "device_type", "ip_address",
                          "os_name", "session_id", "user_id", "username"}, On(1, j) = Index(t, c)
        PROVE  LET p == On(1, j) IN
               /\ IsPath(p) /\ Len(p) \in 1..3 /\ p[1] \in OldTables
               /\ Len(p) = 1 \/ p[2] \notin NewColumns
    BY <2>3, PathShapes DEF NewColumns
  <2> QED BY <2>1, <2>2, <2>3
<1> QED BY <1>2, <1>3, <1>4

\* The objects of the later revisions, in order.
LEMMA LaterUps ==
  /\ Len(Revisions[2].up) = 1 /\ On(2, 1) = Column("users", "hashed_password")
  /\ Len(Revisions[3].up) = 1 /\ On(3, 1) = Table("catalog_products")
  /\ Len(Revisions[4].up) = 3 /\ On(4, 1) = Table("sales_orders")
  /\ On(4, 2) = Index("sales_orders", "order_no") /\ On(4, 3) = Index("sales_orders", "created_at")
  /\ Len(Revisions[6].up) = 7 /\ On(6, 1) = Column("users", "is_superuser")
  /\ On(6, 2) = Column("blog_posts", "author_id") /\ On(6, 3) = Index("blog_posts", "author_id")
  /\ On(6, 4) = Column("sns_posts", "author_id") /\ On(6, 5) = Index("sns_posts", "author_id")
  /\ On(6, 6) = Column("replies", "author_id") /\ On(6, 7) = Index("replies", "author_id")
<1>2. Len(HashedPassword.up) = 1 /\ HashedPassword.up[1].on = Column("users", "hashed_password")
  BY DEF HashedPassword, Adding, Stmt
<1>3. Len(CatalogProducts.up) = 1 /\ CatalogProducts.up[1].on = Table("catalog_products")
  BY DEF CatalogProducts, Adding, Stmt
<1>4. LET U == SalesOrders.up IN
      /\ Len(U) = 3 /\ U[1].on = Table("sales_orders")
      /\ U[2].on = Index("sales_orders", "order_no") /\ U[3].on = Index("sales_orders", "created_at")
  BY DEF SalesOrders, Indexes, Adding, Stmt
<1>6. LET U == AuthorIds.up IN
      /\ Len(U) = 7 /\ U[1].on = Column("users", "is_superuser")
      /\ U[2].on = Column("blog_posts", "author_id") /\ U[3].on = Index("blog_posts", "author_id")
      /\ U[4].on = Column("sns_posts", "author_id") /\ U[5].on = Index("sns_posts", "author_id")
      /\ U[6].on = Column("replies", "author_id") /\ U[7].on = Index("replies", "author_id")
  BY DEF AuthorIds, Adding, Stmt
<1> QED BY <1>2, <1>3, <1>4, <1>6, RevisionIs DEF On

\* What is there after the second, the third and the fourth.
LEMMA AtLater ==
  /\ At(2) = At(1) \cup {On(2, 1)} /\ At(3) = At(2) \cup {On(3, 1)}
  /\ At(4) = At(3) \cup {On(4, 1), On(4, 2), On(4, 3)}
<1>1. {2, 3, 4} \subseteq Adds
  BY DEF Adds
<1>2. \A p : p \in At(2) <=> p \in At(1) \/ p = On(2, 1)
  <2> TAKE p
  <2>1. p \in At(2) <=> p \in At(2 - 1) \/ \E j \in 1..Len(Revisions[2].up) : p = On(2, j)
    BY <1>1, AtStep
  <2> QED BY <2>1, LaterUps
<1>3. \A p : p \in At(3) <=> p \in At(2) \/ p = On(3, 1)
  <2> TAKE p
  <2>1. p \in At(3) <=> p \in At(3 - 1) \/ \E j \in 1..Len(Revisions[3].up) : p = On(3, j)
    BY <1>1, AtStep
  <2> QED BY <2>1, LaterUps
<1>4. \A p : p \in At(4) <=> p \in At(3) \/ p \in {On(4, 1), On(4, 2), On(4, 3)}
  <2> TAKE p
  <2>1. p \in At(4) <=> p \in At(4 - 1) \/ \E j \in 1..Len(Revisions[4].up) : p = On(4, j)
    BY <1>1, AtStep
  <2> QED BY <2>1, LaterUps
<1> QED BY <1>2, <1>3, <1>4

\* What the revision of the times finds, and the last one after it.
LEMMA AtFour ==
  /\ \A t \in OldTables \cup {"catalog_products", "sales_orders"} : Table(t) \in At(4)
  /\ \A p \in At(4) : /\ IsPath(p) /\ Len(p) \in 1..3
                      /\ Len(p) = 1 \/ p[2] \notin {"is_superuser", "author_id"}
<1>2. \A p \in {On(2, 1), On(3, 1), On(4, 1), On(4, 2), On(4, 3)} :
        IsPath(p) /\ Len(p) \in 1..3 /\ (Len(p) = 1 \/ p[2] \notin {"is_superuser", "author_id"})
  BY LaterUps, PathShapes
<1> QED BY <1>2, AtLater, AtOne, LaterUps DEF NewColumns

\* The later revisions are chained.
LEMMA ChainTwo == Chained(2)
<1>1. Before(2, 1) = At(1)
  BY DEF Before
<1>2. \A p \in At(1) : ~IsPrefix(On(2, 1), p)
  BY AtOne, LaterUps, PathShapes, NotPrefix DEF NewColumns
<1>3. Table(On(2, 1)[1]) \in At(1) /\ IsPath(On(2, 1))
  BY AtOne, LaterUps, PathShapes DEF OldTables
<1> QED BY <1>1, <1>2, <1>3, LaterUps DEF Chained

LEMMA AtTwo == \A p \in At(2) : IsPath(p) /\ Len(p) \in 1..3 /\ p[1] \in OldTables
  BY AtLater, AtOne, LaterUps, PathShapes DEF OldTables

LEMMA ChainThree == Chained(3)
<1>1. Before(3, 1) = At(2)
  BY DEF Before
<1>2. \A p \in At(2) : ~IsPrefix(On(3, 1), p)
  <2>1. IsPath(On(3, 1)) /\ Len(On(3, 1)) = 1 /\ On(3, 1)[1] \notin OldTables
    BY LaterUps, PathShapes DEF OldTables
  <2> QED BY <2>1, AtTwo, NotPrefix
<1> QED BY <1>1, <1>2, LaterUps, PathShapes DEF Chained

LEMMA ChainFour == Chained(4)
<1>2. \A p \in At(3) : IsPath(p) /\ Len(p) \in 1..3 /\ p[1] # "sales_orders"
  BY AtLater, AtTwo, LaterUps, PathShapes DEF OldTables
<1>3. \A j \in 1..3 : \A p \in At(3) : ~IsPrefix(On(4, j), p)
  BY <1>2, LaterUps, PathShapes, NotPrefix
<1>4. ~IsPrefix(On(4, 2), On(4, 1)) /\ ~IsPrefix(On(4, 3), On(4, 1)) /\ ~IsPrefix(On(4, 3), On(4, 2))
  <2>1. \A j \in 1..3 : IsPath(On(4, j))
    BY LaterUps, PathShapes
  <2>2. Len(On(4, 1)) = 1 /\ Len(On(4, 2)) = 3 /\ Len(On(4, 3)) = 3 /\ On(4, 2)[2] # On(4, 3)[2]
    BY LaterUps, PathShapes
  <2> QED BY <2>1, <2>2, NotPrefix
<1>5. Before(4, 1) = At(3) /\ Before(4, 2) = At(3) \cup {On(4, 1)}
      /\ Before(4, 3) = At(3) \cup {On(4, 1), On(4, 2)}
  <2>1. 1..0 = {} /\ 1..1 = {1} /\ 1..2 = {1, 2}
    OBVIOUS
  <2> QED BY <2>1 DEF Before
<1>6. \A j \in 1..3 : IsPath(On(4, j)) /\ On(4, j)[1] = "sales_orders"
  BY LaterUps, PathShapes
<1>7. 1..Len(Revisions[4].up) = {1, 2, 3} /\ Len(On(4, 1)) = 1 /\ Table("sales_orders") = On(4, 1)
  BY LaterUps, PathShapes
<1> QED BY <1>3, <1>4, <1>5, <1>6, <1>7 DEF Chained

LEMMA ChainSix == Chained(6)
<1>1. \A j \in 1..7 : /\ IsPath(On(6, j)) /\ Len(On(6, j)) \in 2..3
                      /\ On(6, j)[2] \in {"is_superuser", "author_id"}
                      /\ On(6, j)[1] \in OldTables
  BY LaterUps, PathShapes DEF OldTables
<1>2. \A i, j \in 1..7 : i < j => On(6, i)[1] # On(6, j)[1] \/ Len(On(6, i)) < Len(On(6, j))
  <2>0. /\ Len(On(6, 2)) = 2 /\ Len(On(6, 3)) = 3 /\ Len(On(6, 4)) = 2
        /\ Len(On(6, 5)) = 3 /\ Len(On(6, 6)) = 2 /\ Len(On(6, 7)) = 3
    BY LaterUps, PathShapes
  <2>1. /\ On(6, 1)[1] = "users" /\ On(6, 2)[1] = "blog_posts" /\ On(6, 3)[1] = "blog_posts"
        /\ On(6, 4)[1] = "sns_posts" /\ On(6, 5)[1] = "sns_posts"
        /\ On(6, 6)[1] = "replies" /\ On(6, 7)[1] = "replies"
    BY LaterUps, PathShapes
  <2>2. /\ \A j \in 2..7 : On(6, j)[1] \in {"blog_posts", "sns_posts", "replies"}
        /\ \A j \in 4..7 : On(6, j)[1] \in {"sns_posts", "replies"}
        /\ \A j \in 6..7 : On(6, j)[1] = "replies"
    <3>1. 2..7 = {2, 3, 4, 5, 6, 7} /\ 4..7 = {4, 5, 6, 7} /\ 6..7 = {6, 7}
      OBVIOUS
    <3> QED BY <2>1, <3>1
  <2> TAKE i, j \in 1..7
  <2> HAVE i < j
  <2>3. \/ i = 1 /\ j \in 2..7
        \/ <<i, j>> \in {<<2, 3>>, <<4, 5>>, <<6, 7>>}
        \/ i \in {2, 3} /\ j \in 4..7
        \/ i \in {4, 5} /\ j \in 6..7
    OBVIOUS
  <2>4. CASE <<i, j>> \in {<<2, 3>>, <<4, 5>>, <<6, 7>>}
    <3>1. CASE i = 2 /\ j = 3
      <4>1. Len(On(6, 2)) < Len(On(6, 3))
        BY <2>0
      <4> QED BY <3>1, <4>1
    <3>2. CASE i = 4 /\ j = 5
      <4>1. Len(On(6, 4)) < Len(On(6, 5))
        BY <2>0
      <4> QED BY <3>2, <4>1
    <3>3. CASE i = 6 /\ j = 7
      <4>1. Len(On(6, 6)) < Len(On(6, 7))
        BY <2>0
      <4> QED BY <3>3, <4>1
    <3> QED BY <2>4, <3>1, <3>2, <3>3
  <2>5. CASE i = 1 /\ j \in 2..7
    BY <2>1, <2>2, <2>5
  <2>6. CASE i \in {2, 3} /\ j \in 4..7
    BY <2>1, <2>2, <2>6
  <2>7. CASE i \in {4, 5} /\ j \in 6..7
    BY <2>1, <2>2, <2>7
  <2> QED BY <2>3, <2>4, <2>5, <2>6, <2>7
<1> SUFFICES ASSUME NEW j \in 1..7
             PROVE  /\ IsPath(On(6, j))
                    /\ Len(On(6, j)) = 1 \/ Table(On(6, j)[1]) \in Before(6, j)
                    /\ \A p \in Before(6, j) : ~IsPrefix(On(6, j), p)
  BY LaterUps DEF Chained
<1>3. \A p : p \in Before(6, j) <=> p \in At(4) \/ \E i \in 1..(j - 1) : p = On(6, i)
  BY AtUtc DEF Before
<1>4. ASSUME NEW p \in At(4) PROVE ~IsPrefix(On(6, j), p)
  BY <1>1, AtFour, NotPrefix
<1>5. ASSUME NEW i \in 1..(j - 1) PROVE ~IsPrefix(On(6, j), On(6, i))
  <2>1. i \in 1..7 /\ i < j
    OBVIOUS
  <2>2. On(6, i)[1] # On(6, j)[1] \/ Len(On(6, i)) < Len(On(6, j))
    BY <1>2, <2>1
  <2>3. IsPath(On(6, i)) /\ IsPath(On(6, j)) /\ Len(On(6, j)) >= 1
    BY <1>1, <2>1
  <2> QED BY <2>2, <2>3, NotPrefix
<1> QED BY <1>1, <1>3, <1>4, <1>5, AtFour

\* All revisions that add objects are chained.
LEMMA Chain == \A v \in Adds : Chained(v)
  BY ChainOne, ChainTwo, ChainThree, ChainFour, ChainSix DEF Adds

\* Positions in Times.
Spots == 1..12

\* Twelve times, none twice.
LEMMA TimesAre ==
  /\ Len(Times) = 12 /\ DOMAIN Times = Spots
  /\ \A i, k \in Spots : Times[i] = Times[k] => i = k
<1>1. Len(Times) = 12 /\ DOMAIN Times = Spots
  BY DEF Times, Spots
<1>2. \A i, k \in Spots : Times[i] = Times[k] => i = k
  BY DEF Times, Spots, Column
<1> QED BY <1>1, <1>2

\* Times as a set.
LEMMA TimesSet ==
  /\ \A i \in Spots : Times[i] \in ToSet(Times)
  /\ \A c \in ToSet(Times) : \E i \in Spots : c = Times[i]
  BY TimesAre DEF ToSet

\* The times are columns of tables that are there before they are converted,
\* and of none of the columns or indexes that are added after.
LEMMA TimesOf ==
  \A i \in Spots : \E t \in OldTables \cup {"catalog_products", "sales_orders"} :
                   \E c \in {"created_at", "updated_at"} : Times[i] = Column(t, c)
  BY DEF Times, Spots, OldTables

LEMMA TimesShape ==
  \A i \in Spots : /\ IsPath(Times[i]) /\ Len(Times[i]) = 2
                   /\ Times[i][2] \in {"created_at", "updated_at"}
                   /\ Table(Times[i][1]) \in At(4)
<1> TAKE i \in Spots
<1>1. PICK t \in OldTables \cup {"catalog_products", "sales_orders"},
           c \in {"created_at", "updated_at"} : Times[i] = Column(t, c)
  BY TimesOf
<1> QED BY <1>1, PathShapes, AtFour

\* Two statements for each time.
LEMMA Halves == \A j \in 1..24 : \E k \in Spots : j = 2 * k - 1 \/ j = 2 * k
<1> TAKE j \in 1..24
<1>1. j = 2 * ((j + 1) \div 2) - 1 \/ j = 2 * ((j + 1) \div 2)
  OBVIOUS
<1>2. (j + 1) \div 2 \in Spots
  BY DEF Spots
<1> QED BY <1>1, <1>2

\* What InTurn makes of two operations.
LEMMA TurnsAre ==
  \A a, b : /\ Len(InTurn(a, b)) = 24
            /\ \A k \in Spots : /\ InTurn(a, b)[2 * k - 1] = Stmt(a, Times[k])
                                /\ InTurn(a, b)[2 * k] = Stmt(b, Times[k])
<1> TAKE a, b
<1>1. InTurn(a, b) = [i \in 1..24 |-> Stmt(IF i % 2 = 1 THEN a ELSE b, Times[(i + 1) \div 2])]
  BY TimesAre DEF InTurn
<1>2. Len(InTurn(a, b)) = 24
  BY <1>1
<1>3. ASSUME NEW k \in Spots
      PROVE  InTurn(a, b)[2 * k - 1] = Stmt(a, Times[k]) /\ InTurn(a, b)[2 * k] = Stmt(b, Times[k])
  <2>1. 2 * k - 1 \in 1..24 /\ (2 * k - 1) % 2 = 1 /\ ((2 * k - 1) + 1) \div 2 = k
    BY DEF Spots
  <2>2. 2 * k \in 1..24 /\ (2 * k) % 2 = 0 /\ (2 * k + 1) \div 2 = k
    BY DEF Spots
  <2> QED BY <1>1, <2>1, <2>2
<1> QED BY <1>2, <1>3

LEMMA TurnsEven ==
  \A a, b : \A k \in Spots : InTurn(a, b)[2 * k] = Stmt(b, Times[k])
  BY TurnsAre

\* The statements of the revision of the times, on both ways.
LEMMA UtcForm ==
  /\ Len(Revisions[5].up) = 24 /\ Len(Revisions[5].down) = 24
  /\ \A k \in Spots :
       /\ Revisions[5].up[2 * k - 1] = Stmt("widen", Times[k])
       /\ Revisions[5].up[2 * k] = Stmt("to UTC", Times[k])
       /\ Revisions[5].down[2 * k - 1] = Stmt("to KST", Times[k])
       /\ Revisions[5].down[2 * k] = Stmt("narrow", Times[k])
<1>1. Revisions[5] = UtcTimes
  BY RevisionIs
<1>2. /\ Len(UtcTimes.up) = 24
      /\ \A k \in Spots : UtcTimes.up[2 * k - 1] = Stmt("widen", Times[k])
      /\ \A k \in Spots : UtcTimes.up[2 * k] = Stmt("to UTC", Times[k])
  <2>1. UtcTimes.up = InTurn("widen", "to UTC")
    BY DEF UtcTimes
  <2>2. Len(InTurn("widen", "to UTC")) = 24
    BY TurnsAre, Zenon
  <2>3. \A k \in Spots : InTurn("widen", "to UTC")[2 * k - 1] = Stmt("widen", Times[k])
    BY TurnsAre, Zenon
  <2>4. \A k \in Spots : InTurn("widen", "to UTC")[2 * k] = Stmt("to UTC", Times[k])
    BY TurnsEven, Zenon
  <2> QED BY <2>1, <2>2, <2>3, <2>4
<1>3. /\ Len(UtcTimes.down) = 24
      /\ \A k \in Spots : UtcTimes.down[2 * k - 1] = Stmt("to KST", Times[k])
      /\ \A k \in Spots : UtcTimes.down[2 * k] = Stmt("narrow", Times[k])
  <2>1. UtcTimes.down = InTurn("to KST", "narrow")
    BY DEF UtcTimes
  <2>2. Len(InTurn("to KST", "narrow")) = 24
    BY TurnsAre, Zenon
  <2>3. \A k \in Spots : InTurn("to KST", "narrow")[2 * k - 1] = Stmt("to KST", Times[k])
    BY TurnsAre, Zenon
  <2>4. \A k \in Spots : InTurn("to KST", "narrow")[2 * k] = Stmt("narrow", Times[k])
    BY TurnsEven, Zenon
  <2> QED BY <2>1, <2>2, <2>3, <2>4
<1> QED BY <1>1, <1>2, <1>3

\* Dropping an object of the last revision leaves the times alone.
LEMMA TimesStay == \A j \in 1..7, i \in Spots : ~IsPrefix(On(6, j), Times[i])
<1> TAKE j \in 1..7, i \in Spots
<1>1. IsPath(On(6, j)) /\ Len(On(6, j)) \in 2..3 /\ On(6, j)[2] \in {"is_superuser", "author_id"}
  BY LaterUps, PathShapes
<1>2. On(6, j)[2] # Times[i][2]
  BY <1>1, TimesShape
<1> QED BY <1>1, <1>2, TimesShape, NotPrefix

\* The chain ends at the models: what the revisions add is what they declare.
LEMMA AtHead == At(6) = UNION {Declared(t) : t \in DOMAIN Models}
<1> DEFINE logs == {Index("user_access_logs", c) : c \in {"browser_name", "country", "created_at", "device_type",
                       "ip_address", "os_name", "session_id", "user_id"}}
<1>1. \A p : p \in At(6) <=> p \in At(4) \/ \E j \in 1..7 : p = On(6, j)
  <2> TAKE p
  <2>1. 6 \in Adds
    BY DEF Adds
  <2>2. p \in At(6) <=> p \in At(6 - 1) \/ \E j \in 1..Len(Revisions[6].up) : p = On(6, j)
    BY <2>1, AtStep
  <2> QED BY <2>2, AtUtc, LaterUps
<1>2. \A p : p \in At(1) <=> \/ p \in {Table(t) : t \in OldTables}
                             \/ p \in logs \/ p = Index("users", "username")
  <2> TAKE p
  <2>1. p \in At(1) <=> p \in At(1 - 1) \/ \E j \in 1..Len(Revisions[1].up) : p = On(1, j)
    <3>1. 1 \in Adds
      BY DEF Adds
    <3> QED BY <3>1, AtStep
  <2>2. p \in At(1) <=> \E j \in 1..14 : p = Baseline.up[j].on
    BY <2>1, AtFirst, RevisionIs, BaselineUp DEF On
  <2>3. 1..14 = {1, 2, 3, 4, 5, 6, 7, 8, 9, 10, 11, 12, 13, 14}
    OBVIOUS
  <2> QED BY <2>2, <2>3, BaselineUp DEF OldTables
<1>3. UserAccessLog = logs
  BY DEF UserAccessLog, ToSet, Indexes
<1>4. SalesOrder = {Index("sales_orders", "order_no"), Index("sales_orders", "created_at")}
  BY DEF SalesOrder, ToSet, Indexes
<1>5. DOMAIN Models = OldTables \cup {"catalog_products", "sales_orders"}
  BY DEF Models, OldTables
<1>6. /\ Models["user_access_logs"] = logs /\ Models["users"] = User
      /\ Models["blog_posts"] = Post /\ Models["replies"] = Reply /\ Models["sns_posts"] = SnsPost
      /\ Models["catalog_products"] = {} /\ Models["sales_orders"] = SalesOrder
  BY <1>3 DEF Models, Product
<1>7. \A p : p \in At(6) <=> \/ p \in {Table(t) : t \in DOMAIN Models}
                             \/ p \in logs \/ p \in User \/ p \in Post \/ p \in Reply
                             \/ p \in SnsPost \/ p \in SalesOrder
  <2>1. 1..7 = {1, 2, 3, 4, 5, 6, 7}
    OBVIOUS
  <2> QED BY <1>1, <1>2, <1>4, <1>5, <2>1, AtLater, LaterUps DEF User, Post, Reply, SnsPost
<1>8. \A p : p \in UNION {Declared(t) : t \in DOMAIN Models}
             <=> \E t \in DOMAIN Models : p = Table(t) \/ p \in Models[t]
  BY DEF Declared
<1> HIDE DEF logs
<1> QED BY <1>5, <1>6, <1>7, <1>8 DEF OldTables

\* The revision a run from version v to g is in, its number of statements, and
\* what is there when n statements of v are in effect.
Running(g, v) == IF g > v THEN v + 1 ELSE v
Size(v) == Len(Revisions[v].up)
Part(v, n) == IF v = 5 THEN At(4) ELSE At(v - 1) \cup {On(v, j) : j \in 1..n}

\* Behind p statements of a run from v to g: the objects there, whether the
\* time i is stored with microseconds, whether it has been moved to UTC.
There(g, v, p) ==
  IF g = NoRun THEN At(v) ELSE Part(Running(g, v), IF g > v THEN p ELSE Size(v) - p)
IsWide(i, g, v, p) ==
  IF v = 4 /\ g > v THEN 2 * i - 1 <= p
  ELSE IF v = 5 /\ g \in 0..4 THEN 2 * i > p ELSE v >= 5
IsMoved(i, g, v, p) ==
  IF v = 4 /\ g > v THEN 2 * i <= p
  ELSE IF v = 5 /\ g \in 0..4 THEN 2 * i - 1 > p ELSE v >= 5

\* The invariant of a run.  The version and the position say exactly what is
\* there as long as only whole revisions were run; at least that is there unless
\* a run died on the way down; and a time is moved once unless a run died.
Harms == {"none", "created", "died going up", "died going down"}
MigrationType ==
  /\ version \in 0..6 /\ goal \in {NoRun} \cup 0..6 /\ goal # version
  /\ pos \in Nat /\ (goal = NoRun => pos = 0)
  /\ goal # NoRun => pos <= Size(Running(goal, version))
  /\ failed \in BOOLEAN /\ harm \in Harms
  /\ wide \subseteq ToSet(Times)
  /\ shift \in [ToSet(Times) -> Int] /\ saved \in [ToSet(Times) -> Int]

InStep ==
  harm = "none" =>
    /\ ~failed /\ schema = There(goal, version, pos)
    /\ \A i \in Spots : Times[i] \in wide <=> IsWide(i, goal, version, pos)
NothingMissing ==
  harm # "died going down" =>
    /\ There(goal, version, pos) \subseteq schema
    /\ \A i \in Spots : IsWide(i, goal, version, pos) => Times[i] \in wide
MovedOnce ==
  harm \in {"none", "created"} =>
    \A i \in Spots : shift[Times[i]] = IF IsMoved(i, goal, version, pos) THEN 1 ELSE 0

MigrationInv == MigrationType /\ InStep /\ NothingMissing /\ MovedOnce

\* A revision has as many statements on the way down as on the way up.
LEMMA Sizes ==
  /\ \A v \in 1..6 : Size(v) \in Nat \ {0} /\ Len(Revisions[v].down) = Size(v)
  /\ Size(5) = 24
<1>1. \A v \in Adds : Size(v) \in Nat \ {0} /\ Len(Revisions[v].down) = Size(v)
  BY AddForm DEF IsAdding, Size
<1>2. Size(5) = 24 /\ Len(Revisions[5].down) = 24
  BY UtcForm DEF Size
<1>3. ASSUME NEW v \in 1..6 PROVE v \in Adds \/ v = 5
  BY DEF Adds
<1>4. ASSUME NEW v \in 1..6
      PROVE  Size(v) \in Nat \ {0} /\ Len(Revisions[v].down) = Size(v)
  <2>1. CASE v = 5
    <3>1. Size(5) \in Nat \ {0} /\ Len(Revisions[5].down) = Size(5)
      BY <1>2
    <3> QED BY <2>1, <3>1
  <2>2. CASE v \in Adds
    BY <1>1, <2>2
  <2> QED BY <1>3, <2>1, <2>2
<1> QED BY <1>2, <1>4

\* Nothing of a revision is the version before it, all of it the version.
LEMMA WholeParts ==
  \A v \in 1..6 : Part(v, 0) = At(v - 1) /\ Part(v, Size(v)) = At(v)
<1> TAKE v \in 1..6
<1>1. CASE v = 5
  BY <1>1, AtUtc DEF Part
<1>2. CASE v # 5
  <2>1. v \in Adds /\ 1..0 = {}
    BY <1>2 DEF Adds
  <2>2. \A p : p \in At(v) <=> p \in At(v - 1) \/ \E j \in 1..Size(v) : p = On(v, j)
    BY <2>1, AtStep DEF Size
  <2> QED BY <1>2, <2>1, <2>2 DEF Part
<1> QED BY <1>1, <1>2

\* Before its first statement a run, wherever it goes, stands at the version.
LEMMA StartOfRun ==
  ASSUME NEW v \in 0..6, NEW g \in {NoRun} \cup 0..6, g # v
  PROVE  /\ There(g, v, 0) = At(v)
         /\ \A i \in Spots : (IsWide(i, g, v, 0) <=> v >= 5) /\ (IsMoved(i, g, v, 0) <=> v >= 5)
<1>1. There(g, v, 0) = At(v)
  <2>1. CASE g = NoRun
    BY <2>1 DEF There
  <2>2. CASE g # NoRun /\ g > v
    <3>1. v + 1 \in 1..6 /\ (v + 1) - 1 = v
      BY <2>2 DEF NoRun
    <3>2. Part(v + 1, 0) = At(v)
      BY <3>1, WholeParts
    <3> QED BY <2>2, <3>2 DEF There, Running
  <2>3. CASE g # NoRun /\ ~(g > v)
    <3>1. v \in 1..6 /\ Size(v) - 0 = Size(v)
      BY <2>3, Sizes DEF NoRun
    <3> QED BY <2>3, <3>1, WholeParts DEF There, Running
  <2> QED BY <2>1, <2>2, <2>3
<1>2. \A i \in Spots : (IsWide(i, g, v, 0) <=> v >= 5) /\ (IsMoved(i, g, v, 0) <=> v >= 5)
  BY DEF IsWide, IsMoved, Spots, NoRun
<1> QED BY <1>1, <1>2

\* Behind the last statement it stands at the next version on its way.
LEMMA EndOfRevision ==
  ASSUME NEW v \in 0..6, NEW g \in 0..6, g # v
  PROVE  LET n == Size(Running(g, v))
             w == IF g > v THEN v + 1 ELSE v - 1
         IN /\ w \in 0..6 /\ There(g, v, n) = At(w)
            /\ \A i \in Spots : (IsWide(i, g, v, n) <=> w >= 5) /\ (IsMoved(i, g, v, n) <=> w >= 5)
<1> DEFINE n == Size(Running(g, v))
           w == IF g > v THEN v + 1 ELSE v - 1
<1>1. CASE g > v
  <2>1. v + 1 \in 1..6 /\ w = v + 1 /\ Running(g, v) = v + 1
    BY <1>1 DEF Running
  <2>2. There(g, v, n) = At(w)
    BY <1>1, <2>1, WholeParts DEF There, NoRun
  <2>3. v = 4 => n = 24
    BY <2>1, Sizes
  <2>4. \A i \in Spots : (IsWide(i, g, v, n) <=> w >= 5) /\ (IsMoved(i, g, v, n) <=> w >= 5)
    BY <1>1, <2>1, <2>3 DEF IsWide, IsMoved, Spots
  <2> QED BY <2>1, <2>2, <2>4
<1>2. CASE g < v
  <2>1. v \in 1..6 /\ w = v - 1 /\ Running(g, v) = v /\ Size(v) \in Nat
    BY <1>2, Sizes DEF Running
  <2>2. There(g, v, n) = At(w)
    <3>1. Size(v) - n = 0
      BY <2>1
    <3>2. There(g, v, n) = Part(v, 0)
      BY <1>2, <2>1, <3>1 DEF There, NoRun
    <3> QED BY <2>1, <3>2, WholeParts
  <2>3. v = 5 => n = 24
    BY <2>1, Sizes
  <2>4. \A i \in Spots : (IsWide(i, g, v, n) <=> w >= 5) /\ (IsMoved(i, g, v, n) <=> w >= 5)
    BY <1>2, <2>1, <2>3 DEF IsWide, IsMoved, Spots
  <2> QED BY <2>1, <2>2, <2>4
<1> QED BY <1>1, <1>2

\* The statements a run works on.
LEMMA RunUnderway ==
  ASSUME MigrationType, goal # NoRun
  PROVE  LET v == Running(goal, version) IN
         /\ v \in 1..6 /\ Size(v) \in Nat \ {0} /\ Len(Statements) = Size(v)
         /\ Statements = IF goal > version THEN Revisions[v].up ELSE Revisions[v].down
<1>1. Running(goal, version) \in 1..6
  BY DEF MigrationType, Running
<1>2. Statements = IF goal > version THEN Revisions[Running(goal, version)].up
                                     ELSE Revisions[Running(goal, version)].down
  BY DEF Statements, Up, Running
<1> QED BY <1>1, <1>2, Sizes DEF Size

\* The statement a run executes next.
LEMMA NextStatement ==
  ASSUME MigrationType, goal # NoRun, pos < Len(Statements)
  PROVE  LET v == Running(goal, version)
             s == Statements[pos + 1]
         IN \/ /\ v \in Adds /\ goal > version /\ pos + 1 \in 1..Size(v)
               /\ s = Stmt("add", On(v, pos + 1))
            \/ /\ v \in Adds /\ goal < version /\ Size(v) - pos \in 1..Size(v)
               /\ s = Stmt("drop", On(v, Size(v) - pos))
            \/ /\ v = 5 /\ goal > version
               /\ \E k \in Spots : \/ pos = 2 * k - 2 /\ s = Stmt("widen", Times[k])
                                   \/ pos = 2 * k - 1 /\ s = Stmt("to UTC", Times[k])
            \/ /\ v = 5 /\ goal < version
               /\ \E k \in Spots : \/ pos = 2 * k - 2 /\ s = Stmt("to KST", Times[k])
                                   \/ pos = 2 * k - 1 /\ s = Stmt("narrow", Times[k])
<1> DEFINE v == Running(goal, version)
           s == Statements[pos + 1]
<1>1. /\ v \in 1..6 /\ Size(v) \in Nat \ {0} /\ pos < Size(v)
      /\ Statements = IF goal > version THEN Revisions[v].up ELSE Revisions[v].down
  BY RunUnderway
<1>2. pos \in Nat /\ pos + 1 \in 1..Size(v) /\ Size(v) - pos \in 1..Size(v)
      /\ Size(v) + 1 - (pos + 1) = Size(v) - pos
      /\ (goal > version \/ goal < version)
  BY <1>1 DEF MigrationType, NoRun
<1> HIDE DEF v
<1>3. CASE v \in Adds
  <2>1. \A j \in 1..Size(v) : /\ Revisions[v].up[j] = Stmt("add", On(v, j))
                              /\ Revisions[v].down[j] = Stmt("drop", On(v, Size(v) + 1 - j))
    BY <1>3, AddForm DEF IsAdding, On, Size
  <2>2. goal > version => s = Stmt("add", On(v, pos + 1))
    BY <1>1, <1>2, <2>1
  <2>3. goal < version => s = Stmt("drop", On(v, Size(v) - pos))
    <3> HAVE goal < version
    <3>1. ~(goal > version)
      BY DEF MigrationType, NoRun
    <3> QED BY <1>1, <1>2, <2>1, <3>1
  <2> QED BY <1>2, <1>3, <2>2, <2>3 DEF v
<1>4. CASE v = 5
  <2>1. Size(v) = 24 /\ pos + 1 \in 1..24
    BY <1>2, <1>4, Sizes
  <2>2. PICK k \in Spots : pos + 1 = 2 * k - 1 \/ pos + 1 = 2 * k
    BY <2>1, Halves
  <2>3. (pos + 1 = 2 * k - 1 => pos = 2 * k - 2) /\ (pos + 1 = 2 * k => pos = 2 * k - 1)
    BY <1>2, <2>2 DEF Spots
  <2>4. CASE goal > version
    <3>1. s = Revisions[5].up[pos + 1]
      BY <1>1, <1>4, <2>4
    <3>2. \/ pos = 2 * k - 2 /\ s = Stmt("widen", Times[k])
          \/ pos = 2 * k - 1 /\ s = Stmt("to UTC", Times[k])
      BY <2>2, <2>3, <3>1, UtcForm
    <3> QED BY <1>4, <2>4, <3>2 DEF v
  <2>5. CASE goal < version
    <3>1. ~(goal > version)
      BY <2>5 DEF MigrationType, NoRun
    <3>2. s = Revisions[5].down[pos + 1]
      BY <1>1, <1>4, <3>1
    <3>3. \/ pos = 2 * k - 2 /\ s = Stmt("to KST", Times[k])
          \/ pos = 2 * k - 1 /\ s = Stmt("narrow", Times[k])
      BY <2>2, <2>3, <3>2, UtcForm
    <3> QED BY <1>4, <2>5, <3>3 DEF v
  <2> QED BY <1>2, <2>4, <2>5
<1> QED BY <1>1, <1>3, <1>4 DEF Adds

\* One statement of an adding revision, forward or backward: it adds what was
\* not there to a table that was, and its drop leaves what was there before.
LEMMA DropLeaves ==
  ASSUME NEW v \in Adds, NEW j \in 1..Size(v)
  PROVE  /\ IsPrefix(On(v, j), On(v, j))
         /\ Part(v, j) = Part(v, j - 1) \cup {On(v, j)}
         /\ \A p \in Part(v, j - 1) : ~IsPrefix(On(v, j), p)
         /\ Len(On(v, j)) = 1 \/ Table(On(v, j)[1]) \in Part(v, j - 1)
         /\ On(v, j) \notin Part(v, j - 1)
<1>1. Part(v, j - 1) = Before(v, j) /\ v # 5
  BY DEF Part, Before, Adds
<1>2. IsPath(On(v, j)) /\ \A p \in Before(v, j) : ~IsPrefix(On(v, j), p)
  BY Chain DEF Chained, Size
<1>3. Len(On(v, j)) = 1 \/ Table(On(v, j)[1]) \in Before(v, j)
  BY Chain DEF Chained, Size
<1>4. j \in Int /\ 1..j = (1..(j - 1)) \cup {j}
  OBVIOUS
<1>5. Part(v, j) = Part(v, j - 1) \cup {On(v, j)}
  BY <1>1, <1>4 DEF Part
<1>6. IsPrefix(On(v, j), On(v, j))
  BY <1>2, OwnPrefix
<1> QED BY <1>1, <1>2, <1>3, <1>5, <1>6

\* An empty database is at version 0.
LEMMA MigrationStarts == MigrationsInit => MigrationInv
<1> SUFFICES ASSUME MigrationsInit PROVE MigrationInv
  OBVIOUS
<1> USE DEF MigrationsInit
<1>1. MigrationType
  <2>1. shift \in [ToSet(Times) -> Int] /\ saved \in [ToSet(Times) -> Int]
    OBVIOUS
  <2>2. version \in 0..6 /\ goal = NoRun /\ goal # version /\ pos \in Nat /\ pos = 0
    BY DEF NoRun
  <2>3. failed \in BOOLEAN /\ harm \in Harms /\ wide \subseteq ToSet(Times)
    BY DEF Harms
  <2> QED BY <2>1, <2>2, <2>3 DEF MigrationType
<1>2. \A i \in Spots : ~IsWide(i, goal, version, pos) /\ ~IsMoved(i, goal, version, pos)
  BY DEF IsWide, IsMoved, NoRun
<1>3. There(goal, version, pos) = {}
  BY AtFirst DEF There, NoRun
<1> QED BY <1>1, <1>2, <1>3, TimesSet DEF MigrationInv, InStep, NothingMissing, MovedOnce

\* The cases of Execute.
LEMMA ExecuteAdd ==
  ASSUME MigrationInv, goal # NoRun, pos < Len(Statements), Execute,
         NEW v, v = Running(goal, version), v \in Adds, goal > version, pos + 1 \in 1..Size(v),
         Statements[pos + 1] = Stmt("add", On(v, pos + 1))
  PROVE  MigrationInv'
<1> DEFINE s == Statements[pos + 1]
<1>1. s.op = "add" /\ s.on = On(v, pos + 1)
  BY DEF Stmt
<1>2. /\ schema' = schema \cup {On(v, pos + 1)} /\ wide' = wide /\ shift' = shift
      /\ saved' = IF Ddl(s) THEN shift' ELSE saved
      /\ pos' = pos + 1 /\ UNCHANGED <<version, goal, failed, harm>>
  BY <1>1 DEF Execute, Moved
<1>3. v = version + 1 /\ version # 4 /\ pos \in Nat /\ (version + 1) # 5
  BY DEF Running, Adds, MigrationInv, MigrationType
<1>4. /\ There(goal, version, pos) = Part(v, pos)
      /\ There(goal, version, pos + 1) = Part(v, pos + 1)
  BY <1>3 DEF There, Running, MigrationInv, MigrationType
<1>5. Part(v, pos + 1) = Part(v, pos) \cup {On(v, pos + 1)}
  <2>1. (pos + 1) - 1 = pos
    BY <1>3
  <2> QED BY <2>1, DropLeaves
<1>6. \A i \in Spots : /\ IsWide(i, goal, version, pos + 1) <=> IsWide(i, goal, version, pos)
                       /\ IsMoved(i, goal, version, pos + 1) <=> IsMoved(i, goal, version, pos)
  <2>1. ~(version = 5 /\ goal \in 0..4)
    BY DEF MigrationInv, MigrationType
  <2> QED BY <1>3, <2>1 DEF IsWide, IsMoved
<1>7. MigrationType'
  <2>1. saved' \in [ToSet(Times) -> Int]
    BY <1>2 DEF MigrationInv, MigrationType
  <2> QED BY <1>2, <1>3, <2>1 DEF MigrationInv, MigrationType
<1>8. InStep'
  BY <1>2, <1>4, <1>5, <1>6 DEF MigrationInv, InStep
<1>9. NothingMissing'
  BY <1>2, <1>4, <1>5, <1>6 DEF MigrationInv, NothingMissing
<1>10. MovedOnce'
  BY <1>2, <1>6 DEF MigrationInv, MovedOnce
<1> QED BY <1>7, <1>8, <1>9, <1>10 DEF MigrationInv

\* A drop takes an object and what is below it: on the way down that is the
\* object alone, and no time that has been moved.
LEMMA ExecuteDrop ==
  ASSUME MigrationInv, goal # NoRun, pos < Len(Statements), Execute,
         NEW v, v = Running(goal, version), v \in Adds, goal < version,
         Size(v) - pos \in 1..Size(v),
         Statements[pos + 1] = Stmt("drop", On(v, Size(v) - pos))
  PROVE  MigrationInv'
<1> DEFINE s == Statements[pos + 1]
           o == On(v, Size(v) - pos)
<1>1. s.op = "drop" /\ s.on = o
  BY DEF Stmt
<1>2. /\ schema' = schema \ {p \in schema : IsPrefix(o, p)}
      /\ wide' = {c \in wide : ~IsPrefix(o, c)}
      /\ shift' = [c \in DOMAIN shift |-> IF IsPrefix(o, c) THEN 0 ELSE shift[c]]
      /\ saved' = IF Ddl(s) THEN shift' ELSE saved
      /\ pos' = pos + 1 /\ UNCHANGED <<version, goal, failed, harm>>
  <2> HIDE DEF s
  <2> QED BY <1>1 DEF Execute, Moved, Below, s
<1>3. /\ v = version /\ version # 5 /\ ~(goal > version) /\ pos \in Nat /\ goal \in 0..6
      /\ Size(v) \in Nat /\ pos + 1 <= Size(v)
  BY RunUnderway DEF Running, Adds, MigrationInv, MigrationType, NoRun
<1>4. /\ There(goal, version, pos) = Part(v, Size(v) - pos)
      /\ There(goal, version, pos + 1) = Part(v, (Size(v) - pos) - 1)
  <2>1. Size(v) - (pos + 1) = (Size(v) - pos) - 1
    BY <1>3
  <2> QED BY <1>3, <2>1 DEF There, Running
<1>5. /\ IsPrefix(o, o)
      /\ Part(v, Size(v) - pos) = Part(v, (Size(v) - pos) - 1) \cup {o}
      /\ \A p \in Part(v, (Size(v) - pos) - 1) : ~IsPrefix(o, p)
  BY DropLeaves
<1>6. \A i \in Spots : \A p \in {pos, pos + 1} :
        (IsWide(i, goal, version, p) <=> version >= 5) /\ (IsMoved(i, goal, version, p) <=> version >= 5)
  BY <1>3 DEF IsWide, IsMoved
<1>7. version >= 5 => \A i \in Spots : ~IsPrefix(o, Times[i])
  <2> HAVE version >= 5
  <2>1. v = 6 /\ Size(v) = 7
    BY <1>3, LaterUps DEF Adds, Size
  <2> QED BY <2>1, TimesStay
<1>8. MigrationType'
  <2>1. shift' \in [ToSet(Times) -> Int]
    BY <1>2 DEF MigrationInv, MigrationType
  <2>2. saved' \in [ToSet(Times) -> Int]
    BY <1>2, <2>1 DEF MigrationInv, MigrationType
  <2> QED BY <1>2, <1>3, <2>1, <2>2 DEF MigrationInv, MigrationType
<1> HIDE DEF o, s
<1>9. InStep'
  BY <1>2, <1>4, <1>5, <1>6, <1>7 DEF MigrationInv, InStep
<1>10. NothingMissing'
  BY <1>2, <1>4, <1>5, <1>6, <1>7 DEF MigrationInv, NothingMissing
<1>11. MovedOnce'
  <2>1. \A i \in Spots : shift'[Times[i]] = IF IsPrefix(o, Times[i]) THEN 0 ELSE shift[Times[i]]
    BY <1>2, TimesSet DEF MigrationInv, MigrationType
  <2> QED BY <1>2, <1>6, <1>7, <2>1 DEF MigrationInv, MovedOnce
<1> QED BY <1>8, <1>9, <1>10, <1>11 DEF MigrationInv

\* The revision 5 under way in either direction: what each half of the two
\* statements for the time k changes.
LEMMA UpSteps ==
  ASSUME NEW g, g > 4, NEW k \in Spots, NEW i \in Spots
  PROVE  /\ IsWide(i, g, 4, 2 * k - 1) <=> i = k \/ IsWide(i, g, 4, 2 * k - 2)
         /\ IsMoved(i, g, 4, 2 * k - 1) <=> IsMoved(i, g, 4, 2 * k - 2)
         /\ IsWide(i, g, 4, 2 * k) <=> IsWide(i, g, 4, 2 * k - 1)
         /\ IsMoved(i, g, 4, 2 * k) <=> i = k \/ IsMoved(i, g, 4, 2 * k - 1)
         /\ ~IsMoved(k, g, 4, 2 * k - 1)
  BY DEF IsWide, IsMoved, Spots

LEMMA DownSteps ==
  ASSUME NEW g \in 0..4, NEW k \in Spots, NEW i \in Spots
  PROVE  /\ IsMoved(i, g, 5, 2 * k - 1) <=> i # k /\ IsMoved(i, g, 5, 2 * k - 2)
         /\ IsWide(i, g, 5, 2 * k - 1) <=> IsWide(i, g, 5, 2 * k - 2)
         /\ IsMoved(i, g, 5, 2 * k) <=> IsMoved(i, g, 5, 2 * k - 1)
         /\ IsWide(i, g, 5, 2 * k) <=> i # k /\ IsWide(i, g, 5, 2 * k - 1)
         /\ IsMoved(k, g, 5, 2 * k - 2)
  BY DEF IsWide, IsMoved, Spots

\* A statement that widens or narrows a time, one that moves it.
LEMMA WidthStep ==
  ASSUME MigrationInv, goal # NoRun, pos < Size(Running(goal, version)), NEW k \in Spots,
         pos' = pos + 1, UNCHANGED <<schema, shift, version, goal, failed, harm>>,
         saved' \in [ToSet(Times) -> Int],
         There(goal, version, pos + 1) = There(goal, version, pos),
         \A i \in Spots : IsMoved(i, goal, version, pos + 1) <=> IsMoved(i, goal, version, pos),
         \/ /\ wide' = wide \cup {Times[k]}
            /\ \A i \in Spots : IsWide(i, goal, version, pos + 1) <=> i = k \/ IsWide(i, goal, version, pos)
         \/ /\ wide' = wide \ {Times[k]}
            /\ \A i \in Spots : IsWide(i, goal, version, pos + 1) <=> i # k /\ IsWide(i, goal, version, pos)
  PROVE  MigrationInv'
<1>1. \A i \in Spots : (Times[i] = Times[k]) <=> (i = k)
  BY TimesAre
<1>2. MigrationType'
  <2>1. wide' \subseteq ToSet(Times)
    BY TimesSet DEF MigrationInv, MigrationType
  <2>2. goal' # NoRun => pos' <= Size(Running(goal, version))'
    <3>1. pos + 1 <= Size(Running(goal, version))
      BY RunUnderway DEF MigrationInv, MigrationType
    <3> QED BY <3>1
  <2> QED BY <2>1, <2>2 DEF MigrationInv, MigrationType
<1>3. InStep'
  BY <1>1 DEF MigrationInv, InStep
<1>4. NothingMissing'
  BY <1>1 DEF MigrationInv, NothingMissing
<1>5. MovedOnce'
  BY DEF MigrationInv, MovedOnce
<1> QED BY <1>2, <1>3, <1>4, <1>5 DEF MigrationInv

LEMMA ShiftStep ==
  ASSUME MigrationInv, goal # NoRun, pos < Size(Running(goal, version)), NEW k \in Spots,
         pos' = pos + 1, UNCHANGED <<schema, wide, saved, version, goal, failed, harm>>,
         There(goal, version, pos + 1) = There(goal, version, pos),
         \A i \in Spots : IsWide(i, goal, version, pos + 1) <=> IsWide(i, goal, version, pos),
         \/ /\ shift' = [shift EXCEPT ![Times[k]] = @ + 1]
            /\ ~IsMoved(k, goal, version, pos)
            /\ \A i \in Spots : IsMoved(i, goal, version, pos + 1) <=> i = k \/ IsMoved(i, goal, version, pos)
         \/ /\ shift' = [shift EXCEPT ![Times[k]] = @ - 1]
            /\ IsMoved(k, goal, version, pos)
            /\ \A i \in Spots : IsMoved(i, goal, version, pos + 1) <=> i # k /\ IsMoved(i, goal, version, pos)
  PROVE  MigrationInv'
<1>1. \A i \in Spots : (Times[i] = Times[k]) <=> (i = k)
  BY TimesAre
<1>2. shift \in [ToSet(Times) -> Int] /\ Times[k] \in ToSet(Times)
  BY TimesSet DEF MigrationInv, MigrationType
<1>3. MigrationType'
  <2>1. shift' \in [ToSet(Times) -> Int]
    BY <1>2
  <2>2. goal' # NoRun => pos' <= Size(Running(goal, version))'
    <3>1. pos + 1 <= Size(Running(goal, version))
      BY RunUnderway DEF MigrationInv, MigrationType
    <3> QED BY <3>1
  <2> QED BY <2>1, <2>2 DEF MigrationInv, MigrationType
<1>4. InStep'
  BY DEF MigrationInv, InStep
<1>5. NothingMissing'
  BY DEF MigrationInv, NothingMissing
<1>6. MovedOnce'
  <2> SUFFICES ASSUME harm \in {"none", "created"}, NEW i \in Spots
               PROVE  shift'[Times[i]] = IF IsMoved(i, goal, version, pos + 1) THEN 1 ELSE 0
    BY DEF MovedOnce
  <2>1. shift[Times[i]] = IF IsMoved(i, goal, version, pos) THEN 1 ELSE 0
    BY DEF MigrationInv, MovedOnce
  <2>2. Times[i] \in ToSet(Times)
    BY TimesSet
  <2>3. CASE i = k
    BY <1>2, <2>1, <2>3
  <2>4. CASE i # k
    <3>1. shift'[Times[i]] = shift[Times[i]]
      BY <1>1, <1>2, <2>2, <2>4
    <3> QED BY <2>1, <2>4, <3>1
  <2> QED BY <2>3, <2>4
<1> QED BY <1>3, <1>4, <1>5, <1>6 DEF MigrationInv

\* What Execute does with a statement for a time.
LEMMA ConvertSteps ==
  ASSUME Execute, NEW op, NEW c, Statements[pos + 1] = Stmt(op, c),
         op \in {"widen", "to UTC", "to KST", "narrow"}
  PROVE  /\ pos' = pos + 1 /\ UNCHANGED <<schema, version, goal, failed, harm>>
         /\ op = "widen" => wide' = wide \cup {c} /\ UNCHANGED shift
         /\ op = "narrow" => wide' = wide \ {c} /\ UNCHANGED shift
         /\ op = "to UTC" => shift' = [shift EXCEPT ![c] = @ + 1] /\ UNCHANGED <<wide, saved>>
         /\ op = "to KST" => shift' = [shift EXCEPT ![c] = @ - 1] /\ UNCHANGED <<wide, saved>>
         /\ op \in {"widen", "narrow"} => saved' = shift'
<1> DEFINE s == Statements[pos + 1]
<1>1. s.op = op /\ s.on = c
  <2>1. Stmt(op, c).op = op /\ Stmt(op, c).on = c
    BY DEF Stmt
  <2> QED BY <2>1
<1> HIDE DEF s
<1>2. /\ pos' = pos + 1 /\ UNCHANGED <<version, goal, failed, harm>>
      /\ schema' = CASE s.op = "add" -> schema \cup {s.on}
                     [] s.op = "drop" -> schema \ Below(s.on)
                     [] OTHER -> schema
      /\ wide' = CASE s.op = "widen" -> wide \cup {s.on}
                   [] s.op = "narrow" -> wide \ {s.on}
                   [] s.op = "drop" -> {p \in wide : ~IsPrefix(s.on, p)}
                   [] OTHER -> wide
      /\ shift' = Moved(s)
      /\ saved' = IF Ddl(s) THEN shift' ELSE saved
  BY DEF Execute, s
<1> QED BY <1>1, <1>2 DEF Moved, Ddl

\* The revision of the times is run from 4 upwards and from 5 downwards.
LEMMA Converting ==
  \A g, v \in 0..6 : Running(g, v) = 5 =>
    (g > v => v = 4 /\ g > 4) /\ (g < v => v = 5 /\ g \in 0..4)
  BY DEF Running

\* The statement behind each of the two.
LEMMA Behind ==
  \A k \in Spots : \A p : (p = 2 * k - 2 => p + 1 = 2 * k - 1) /\ (p = 2 * k - 1 => p + 1 = 2 * k)
  BY DEF Spots

\* The four statements for a time.
LEMMA ExecuteConvert ==
  ASSUME MigrationInv, goal # NoRun, pos < Len(Statements), Execute,
         Running(goal, version) = 5, NEW k \in Spots,
         NEW s, s = Statements[pos + 1],
         \/ goal > version /\ pos = 2 * k - 2 /\ s = Stmt("widen", Times[k])
         \/ goal > version /\ pos = 2 * k - 1 /\ s = Stmt("to UTC", Times[k])
         \/ goal < version /\ pos = 2 * k - 2 /\ s = Stmt("to KST", Times[k])
         \/ goal < version /\ pos = 2 * k - 1 /\ s = Stmt("narrow", Times[k])
  PROVE  MigrationInv'
<1>1. /\ version \in 0..6 /\ goal \in 0..6 /\ k \in 1..12 /\ pos \in Nat /\ pos < Size(Running(goal, version))
      /\ shift \in [ToSet(Times) -> Int] /\ MigrationType
  BY RunUnderway DEF MigrationInv, MigrationType, Spots
<1>2. There(goal, version, pos + 1) = There(goal, version, pos)
  BY <1>1 DEF There, Part
<1>3. goal > version => version = 4 /\ goal > 4
  BY <1>1, Converting
<1>4. goal < version => version = 5 /\ goal \in 0..4
  BY <1>1, Converting
<1>5. (pos = 2 * k - 2 => pos + 1 = 2 * k - 1) /\ (pos = 2 * k - 1 => pos + 1 = 2 * k)
  BY Behind, Zenon
<1>6. CASE goal > version /\ pos = 2 * k - 2 /\ s = Stmt("widen", Times[k])
  <2>1. /\ pos' = pos + 1 /\ UNCHANGED <<schema, version, goal, failed, harm>>
        /\ wide' = wide \cup {Times[k]} /\ UNCHANGED shift /\ saved' = shift'
    BY <1>6, ConvertSteps
  <2>2. \A i \in Spots :
          /\ IsWide(i, goal, version, pos + 1) <=> i = k \/ IsWide(i, goal, version, pos)
          /\ IsMoved(i, goal, version, pos + 1) <=> IsMoved(i, goal, version, pos)
    BY <1>3, <1>5, <1>6, UpSteps
  <2> QED BY <1>1, <1>2, <2>1, <2>2, WidthStep
<1>7. CASE goal > version /\ pos = 2 * k - 1 /\ s = Stmt("to UTC", Times[k])
  <2>1. /\ pos' = pos + 1 /\ UNCHANGED <<schema, wide, saved, version, goal, failed, harm>>
        /\ shift' = [shift EXCEPT ![Times[k]] = @ + 1]
    BY <1>7, ConvertSteps
  <2>2. /\ ~IsMoved(k, goal, version, pos)
        /\ \A i \in Spots :
          /\ IsMoved(i, goal, version, pos + 1) <=> i = k \/ IsMoved(i, goal, version, pos)
          /\ IsWide(i, goal, version, pos + 1) <=> IsWide(i, goal, version, pos)
    BY <1>3, <1>5, <1>7, UpSteps
  <2> QED BY <1>1, <1>2, <2>1, <2>2, ShiftStep
<1>8. CASE goal < version /\ pos = 2 * k - 2 /\ s = Stmt("to KST", Times[k])
  <2>1. /\ pos' = pos + 1 /\ UNCHANGED <<schema, wide, saved, version, goal, failed, harm>>
        /\ shift' = [shift EXCEPT ![Times[k]] = @ - 1]
    BY <1>8, ConvertSteps
  <2>2. /\ IsMoved(k, goal, version, pos)
        /\ \A i \in Spots :
          /\ IsMoved(i, goal, version, pos + 1) <=> i # k /\ IsMoved(i, goal, version, pos)
          /\ IsWide(i, goal, version, pos + 1) <=> IsWide(i, goal, version, pos)
    BY <1>4, <1>5, <1>8, DownSteps
  <2> QED BY <1>1, <1>2, <2>1, <2>2, ShiftStep
<1>9. CASE goal < version /\ pos = 2 * k - 1 /\ s = Stmt("narrow", Times[k])
  <2>1. /\ pos' = pos + 1 /\ UNCHANGED <<schema, version, goal, failed, harm>>
        /\ wide' = wide \ {Times[k]} /\ UNCHANGED shift /\ saved' = shift'
    BY <1>9, ConvertSteps
  <2>2. \A i \in Spots :
          /\ IsWide(i, goal, version, pos + 1) <=> i # k /\ IsWide(i, goal, version, pos)
          /\ IsMoved(i, goal, version, pos + 1) <=> IsMoved(i, goal, version, pos)
    BY <1>4, <1>5, <1>9, DownSteps
  <2> QED BY <1>1, <1>2, <2>1, <2>2, WidthStep
<1> QED BY <1>6, <1>7, <1>8, <1>9

\* Every statement of a run keeps the invariant.
LEMMA ExecuteKeeps ==
  ASSUME MigrationInv, Execute PROVE MigrationInv'
<1>1. goal # NoRun /\ pos < Len(Statements) /\ MigrationType
  BY DEF Execute, MigrationInv
<1> QED BY <1>1, NextStatement, ExecuteAdd, ExecuteDrop, ExecuteConvert

\* Nothing is under way, or nothing of it is executed: the tables are those of
\* the version.
LEMMA AtRest ==
  ASSUME MigrationType, pos = 0
  PROVE  /\ There(goal, version, pos) = At(version)
         /\ \A i \in Spots : (IsWide(i, goal, version, pos) <=> version >= 5)
                             /\ (IsMoved(i, goal, version, pos) <=> version >= 5)
  BY StartOfRun DEF MigrationType

\* On the way up all of the version is there, at every statement.
LEMMA NothingBelow ==
  ASSUME MigrationType, goal # NoRun, goal > version
  PROVE  /\ At(version) \subseteq There(goal, version, pos)
         /\ version >= 5 => \A i \in Spots : IsWide(i, goal, version, pos)
<1>1. version + 1 \in 1..6 /\ (version + 1) - 1 = version /\ goal \in 0..6
  BY DEF MigrationType
<1>2. At(version) \subseteq There(goal, version, pos)
  <2>1. There(goal, version, pos) = Part(version + 1, pos)
    BY DEF There, Running
  <2>2. CASE version + 1 = 5
    <3>1. version = 4
      BY <1>1, <2>2
    <3> QED BY <2>1, <2>2, <3>1 DEF Part
  <2>3. CASE version + 1 # 5
    BY <1>1, <2>1, <2>3 DEF Part
  <2> QED BY <2>2, <2>3
<1>3. version >= 5 => \A i \in Spots : IsWide(i, goal, version, pos)
  BY <1>1 DEF IsWide, MigrationType
<1> QED BY <1>2, <1>3

\* No run is under way to no version.
LEMMA NoVersion == \A v \in 0..6 : NoRun # v
  BY DEF NoRun

\* A run begins.
LEMMA CommandKeeps ==
  ASSUME MigrationInv, NEW v \in 0..Head6, Command(v) PROVE MigrationInv'
<1>1. /\ goal = NoRun /\ v # version /\ goal' = v /\ pos' = 0 /\ failed' = FALSE /\ v \in 0..6
      /\ UNCHANGED <<schema, wide, shift, saved, version, harm>>
  BY RevisionIs DEF Command
<1>2. MigrationType /\ pos = 0
  BY <1>1 DEF MigrationInv, MigrationType
<1>3. MigrationType'
  <2>1. Running(v, version) \in 1..6
    BY <1>1, <1>2 DEF Running, MigrationType
  <2>2. 0 <= Size(Running(v, version))
    BY <2>1, Sizes
  <2> QED BY <1>1, <1>2, <2>2 DEF MigrationType, NoRun
<1>4. /\ There(goal, version, pos) = At(version) /\ There(v, version, 0) = At(version)
      /\ \A i \in Spots :
           /\ (IsWide(i, goal, version, pos) <=> version >= 5) /\ (IsWide(i, v, version, 0) <=> version >= 5)
           /\ (IsMoved(i, goal, version, pos) <=> version >= 5) /\ (IsMoved(i, v, version, 0) <=> version >= 5)
  <2>1. version \in 0..6 /\ v \in {NoRun} \cup 0..6
    BY <1>1, <1>2 DEF MigrationType
  <2> QED BY <1>1, <1>2, <2>1, AtRest, StartOfRun
<1>5. InStep'
  BY <1>1, <1>4 DEF MigrationInv, InStep
<1>6. NothingMissing'
  BY <1>1, <1>4 DEF MigrationInv, NothingMissing
<1>7. MovedOnce'
  BY <1>1, <1>4 DEF MigrationInv, MovedOnce
<1> QED BY <1>3, <1>5, <1>6, <1>7 DEF MigrationInv

\* A revision ends, and with the last one the run.
LEMMA EndRevisionKeeps ==
  ASSUME MigrationInv, EndRevision PROVE MigrationInv'
<1> DEFINE w == IF goal > version THEN version + 1 ELSE version - 1
<1>1. /\ goal # NoRun /\ pos = Len(Statements) /\ version' = w
      /\ goal' = IF w = goal THEN NoRun ELSE goal
      /\ pos' = 0 /\ saved' = shift /\ UNCHANGED <<schema, wide, shift, failed, harm>>
  BY DEF EndRevision, Up
<1>2. MigrationType /\ pos = Size(Running(goal, version)) /\ goal \in 0..6 /\ version \in 0..6
      /\ goal # version
  BY <1>1, RunUnderway DEF MigrationInv, MigrationType
<1>3. /\ w \in 0..6 /\ There(goal, version, pos) = At(w)
      /\ \A i \in Spots : (IsWide(i, goal, version, pos) <=> w >= 5) /\ (IsMoved(i, goal, version, pos) <=> w >= 5)
  BY <1>2, EndOfRevision
<1> HIDE DEF w
<1>4. goal' \in {NoRun} \cup 0..6 /\ goal' # version'
  BY <1>1, <1>2, <1>3 DEF NoRun
<1>5. /\ There(goal', w, 0) = At(w)
      /\ \A i \in Spots : (IsWide(i, goal', w, 0) <=> w >= 5) /\ (IsMoved(i, goal', w, 0) <=> w >= 5)
  BY <1>1, <1>3, <1>4, StartOfRun
<1>6. MigrationType'
  <2>1. goal' # NoRun => 0 <= Size(Running(goal', w))
    <3> HAVE goal' # NoRun
    <3>1. Running(goal', w) \in 1..6
      BY <1>1, <1>2, <1>3, <1>4 DEF Running
    <3> QED BY <3>1, Sizes
  <2> QED BY <1>1, <1>2, <1>3, <1>4, <2>1 DEF MigrationType
<1>7. InStep'
  BY <1>1, <1>3, <1>5 DEF MigrationInv, InStep
<1>8. NothingMissing'
  BY <1>1, <1>3, <1>5 DEF MigrationInv, NothingMissing
<1>9. MovedOnce'
  BY <1>1, <1>3, <1>5 DEF MigrationInv, MovedOnce
<1> QED BY <1>6, <1>7, <1>8, <1>9 DEF MigrationInv

\* Nothing fails in a database that only whole revisions have been run on; in
\* one nothing is missing from, only what adds to it, on the way up.
LEMMA WhatFails ==
  ASSUME MigrationInv, Fail
  PROVE  /\ harm # "none"
         /\ harm # "died going down" => goal > version /\ version # 4 /\ Ddl(Statements[pos + 1])
<1> DEFINE v == Running(goal, version)
           s == Statements[pos + 1]
<1>1. goal # NoRun /\ pos < Len(Statements) /\ MigrationType /\ ~Possible(s)
  BY DEF Fail, MigrationInv
<1>2. harm = "none" => schema = There(goal, version, pos)
  BY DEF MigrationInv, InStep
<1>3. harm # "died going down" => There(goal, version, pos) \subseteq schema
  BY DEF MigrationInv, NothingMissing
<1>4. ASSUME v \in Adds, goal > version, pos + 1 \in 1..Size(v), s = Stmt("add", On(v, pos + 1))
      PROVE  harm # "none" /\ version # 4 /\ Ddl(s)
  <2>1. s.op = "add" /\ s.on = On(v, pos + 1)
    BY <1>4 DEF Stmt
  <2>2. There(goal, version, pos) = Part(v, pos)
    BY <1>1, <1>4 DEF There
  <2>3. (pos + 1) - 1 = pos
    BY <1>1 DEF MigrationType
  <2>4. On(v, pos + 1) \notin Part(v, pos)
        /\ (Len(On(v, pos + 1)) = 1 \/ Table(On(v, pos + 1)[1]) \in Part(v, pos))
    BY <1>4, <2>3, DropLeaves
  <2>7. version # 4
    BY <1>1, <1>4 DEF Running, Adds, MigrationType
  <2> HIDE DEF s, v
  <2>5. harm # "none"
    BY <1>1, <1>2, <2>1, <2>2, <2>4 DEF Possible
  <2>6. Ddl(s)
    BY <2>1 DEF Ddl
  <2> QED BY <2>5, <2>6, <2>7
<1>5. ASSUME v \in Adds, goal < version, Size(v) - pos \in 1..Size(v), s = Stmt("drop", On(v, Size(v) - pos))
      PROVE  harm = "died going down"
  <2>1. s.op = "drop" /\ s.on = On(v, Size(v) - pos)
    BY <1>5 DEF Stmt
  <2>2. There(goal, version, pos) = Part(v, Size(v) - pos)
    BY <1>1, <1>5 DEF There, Running, MigrationType
  <2>3. On(v, Size(v) - pos) \in Part(v, Size(v) - pos)
    BY <1>5, DropLeaves
  <2> HIDE DEF s, v
  <2> QED BY <1>1, <1>3, <2>1, <2>2, <2>3 DEF Possible
<1>6. ASSUME v = 5, NEW k \in Spots, NEW op \in {"widen", "to UTC", "to KST", "narrow"}, s = Stmt(op, Times[k])
      PROVE  harm = "died going down"
  <2>1. s.op = op /\ s.on = Times[k]
    <3>1. Stmt(op, Times[k]).op = op /\ Stmt(op, Times[k]).on = Times[k]
      BY DEF Stmt
    <3> QED BY <1>6, <3>1
  <2>2. There(goal, version, pos) = At(4)
    BY <1>1, <1>6 DEF There, Part
  <2>3. Table(Times[k][1]) \in At(4)
    BY TimesShape
  <2> HIDE DEF s, v
  <2> QED BY <1>1, <1>3, <1>6, <2>1, <2>2, <2>3 DEF Possible
<1>7. \/ v \in Adds /\ goal > version /\ pos + 1 \in 1..Size(v) /\ s = Stmt("add", On(v, pos + 1))
      \/ v \in Adds /\ goal < version /\ Size(v) - pos \in 1..Size(v) /\ s = Stmt("drop", On(v, Size(v) - pos))
      \/ v = 5 /\ \E k \in Spots, op \in {"widen", "to UTC", "to KST", "narrow"} : s = Stmt(op, Times[k])
  BY <1>1, NextStatement
<1> HIDE DEF s, v
<1>8. CASE harm = "died going down"
  BY <1>8
<1> QED BY <1>4, <1>5, <1>6, <1>7, <1>8 DEF s

\* A statement fails: the version stands, and all of it is there.
LEMMA FailKeeps ==
  ASSUME MigrationInv, Fail PROVE MigrationInv'
<1> DEFINE s == Statements[pos + 1]
<1>1. /\ goal # NoRun /\ failed' = TRUE /\ goal' = NoRun /\ pos' = 0
      /\ UNCHANGED <<schema, wide, version, harm>>
      /\ IF Ddl(s) THEN saved' = shift /\ UNCHANGED shift ELSE shift' = saved /\ UNCHANGED saved
  BY DEF Fail
<1>2. MigrationType
  BY DEF MigrationInv
<1>3. MigrationType'
  <2>1. shift' \in [ToSet(Times) -> Int] /\ saved' \in [ToSet(Times) -> Int]
    BY <1>1, <1>2 DEF MigrationType
  <2>2. goal' = NoRun /\ goal' # version' /\ pos' = 0 /\ version' \in 0..6 /\ failed' \in BOOLEAN
    BY <1>1, <1>2, NoVersion DEF MigrationType
  <2>3. wide' \subseteq ToSet(Times) /\ harm' \in Harms
    BY <1>1, <1>2 DEF MigrationType
  <2> QED BY <2>1, <2>2, <2>3 DEF MigrationType
<1>4. /\ There(NoRun, version, 0) = At(version)
      /\ \A i \in Spots : (IsWide(i, NoRun, version, 0) <=> version >= 5)
                          /\ (IsMoved(i, NoRun, version, 0) <=> version >= 5)
  <2>1. version \in 0..6 /\ NoRun \in {NoRun} \cup 0..6 /\ NoRun # version
    BY <1>2 DEF MigrationType, NoRun
  <2> QED BY <2>1, StartOfRun
<1>5. /\ harm # "none"
      /\ harm # "died going down" => goal > version /\ version # 4 /\ Ddl(s)
  BY WhatFails
<1>6. InStep'
  BY <1>1, <1>5 DEF InStep
<1>7. NothingMissing'
  BY <1>1, <1>2, <1>4, <1>5, NothingBelow DEF MigrationInv, NothingMissing
<1>8. MovedOnce'
  <2> SUFFICES ASSUME harm \in {"none", "created"}
               PROVE  \A i \in Spots : shift[Times[i]] = IF IsMoved(i, NoRun, version, 0) THEN 1 ELSE 0
    BY <1>1, <1>5 DEF MovedOnce
  <2>1. goal > version /\ version # 4 /\ version \in 0..6 /\ goal \in 0..6
    BY <1>1, <1>2, <1>5 DEF MigrationType
  <2>2. \A i \in Spots : IsMoved(i, goal, version, pos) <=> version >= 5
    BY <2>1 DEF IsMoved
  <2> QED BY <1>4, <2>2 DEF MigrationInv, MovedOnce
<1> QED BY <1>3, <1>6, <1>7, <1>8 DEF MigrationInv

\* A run dies.
LEMMA DieKeeps ==
  ASSUME MigrationInv, Die PROVE MigrationInv'
<1>1. /\ goal # NoRun /\ harm = "none"
      /\ harm' = IF goal > version THEN "died going up" ELSE "died going down"
      /\ shift' = saved /\ goal' = NoRun /\ pos' = 0 /\ failed' = TRUE
      /\ UNCHANGED <<schema, wide, saved, version>>
  BY DEF Die, Up
<1>2. MigrationType
  BY DEF MigrationInv
<1>3. MigrationType'
  <2>1. harm' \in Harms /\ failed' \in BOOLEAN
    BY <1>1 DEF Harms
  <2>2. goal' = NoRun /\ goal' # version' /\ pos' = 0 /\ version' \in 0..6
    BY <1>1, <1>2, NoVersion DEF MigrationType
  <2>3. wide' \subseteq ToSet(Times) /\ shift' \in [ToSet(Times) -> Int] /\ saved' \in [ToSet(Times) -> Int]
    BY <1>1, <1>2 DEF MigrationType
  <2> QED BY <2>1, <2>2, <2>3 DEF MigrationType
<1>4. /\ There(NoRun, version, 0) = At(version)
      /\ \A i \in Spots : IsWide(i, NoRun, version, 0) <=> version >= 5
  <2>1. version \in 0..6 /\ NoRun \in {NoRun} \cup 0..6 /\ NoRun # version
    BY <1>2 DEF MigrationType, NoRun
  <2> QED BY <2>1, StartOfRun
<1>5. NothingMissing'
  <2> SUFFICES ASSUME harm' # "died going down"
               PROVE  /\ At(version) \subseteq schema
                      /\ \A i \in Spots : version >= 5 => Times[i] \in wide
    BY <1>1, <1>4 DEF NothingMissing
  <2>1. goal > version
    BY <1>1
  <2> QED BY <1>1, <1>2, <2>1, NothingBelow DEF MigrationInv, NothingMissing
<1>6. InStep' /\ MovedOnce'
  BY <1>1 DEF InStep, MovedOnce
<1> QED BY <1>3, <1>5, <1>6 DEF MigrationInv

\* A server in DEBUG creates tables: nothing gets lost.
LEMMA CreateDbTablesKeeps ==
  ASSUME MigrationInv, CreateDbTables PROVE MigrationInv'
<1>1. /\ schema \subseteq schema' /\ wide \subseteq wide'
      /\ wide' \subseteq wide \cup ToSet(Times)
      /\ harm \in {"none", "created"} /\ harm' = "created"
      /\ UNCHANGED <<shift, saved, version, goal, pos, failed>>
  BY DEF CreateDbTables
<1>2. MigrationType'
  BY <1>1 DEF MigrationInv, MigrationType, Harms
<1>3. InStep' /\ NothingMissing' /\ MovedOnce'
  BY <1>1 DEF MigrationInv, InStep, NothingMissing, MovedOnce
<1> QED BY <1>2, <1>3 DEF MigrationInv

\* Every step of the migrations keeps the invariant.
LEMMA MigrateKeeps == MigrationInv /\ [Migrate]_mvars => MigrationInv'
<1> SUFFICES ASSUME MigrationInv, [Migrate]_mvars PROVE MigrationInv'
  OBVIOUS
<1>1. CASE \E v \in 0..Head6 : Command(v)
  BY <1>1, CommandKeeps
<1>2. CASE Execute
  BY <1>2, ExecuteKeeps
<1>3. CASE EndRevision
  BY <1>3, EndRevisionKeeps
<1>4. CASE Fail
  BY <1>4, FailKeeps
<1>5. CASE Die
  BY <1>5, DieKeeps
<1>6. CASE CreateDbTables
  BY <1>6, CreateDbTablesKeeps
<1>7. CASE UNCHANGED mvars
  <2> USE <1>7 DEF mvars
  <2>1. MigrationType'
    BY DEF MigrationInv, MigrationType
  <2>2. InStep' /\ NothingMissing' /\ MovedOnce'
    BY DEF MigrationInv, InStep, NothingMissing, MovedOnce
  <2> QED BY <2>1, <2>2 DEF MigrationInv
<1> QED BY <1>1, <1>2, <1>3, <1>4, <1>5, <1>6, <1>7 DEF Migrate

\* Between runs the invariant is the property.
LEMMA MigrationFollows == MigrationInv => SchemaFollowsVersion
<1> SUFFICES ASSUME MigrationInv, goal = NoRun
             PROVE  /\ harm = "none" =>
                        /\ ~failed /\ schema = At(version) /\ wide = WideAt(version)
                        /\ version = Head6 => schema = UNION {Declared(t) : t \in DOMAIN Models}
                    /\ harm # "died going down" =>
                         At(version) \subseteq schema /\ WideAt(version) \subseteq wide
                    /\ harm \in {"none", "created"} => \A c \in DOMAIN shift : shift[c] = ShiftAt(version)
  BY DEF SchemaFollowsVersion
<1>1. MigrationType /\ pos = 0
  BY DEF MigrationInv, MigrationType
<1>2. /\ There(goal, version, pos) = At(version)
      /\ \A i \in Spots : (IsWide(i, goal, version, pos) <=> version >= 5)
                          /\ (IsMoved(i, goal, version, pos) <=> version >= 5)
  BY <1>1, AtRest
<1>3. harm = "none" =>
        /\ ~failed /\ schema = At(version) /\ wide = WideAt(version)
        /\ version = Head6 => schema = UNION {Declared(t) : t \in DOMAIN Models}
  <2> HAVE harm = "none"
  <2>1. ~failed /\ schema = At(version) /\ \A i \in Spots : Times[i] \in wide <=> version >= 5
    BY <1>2 DEF MigrationInv, InStep
  <2>2. wide \subseteq ToSet(Times)
    BY <1>1 DEF MigrationType
  <2>3. wide = WideAt(version)
    BY <2>1, <2>2, TimesSet DEF WideAt
  <2>4. version = Head6 => schema = UNION {Declared(t) : t \in DOMAIN Models}
    BY <2>1, AtHead, RevisionIs
  <2> QED BY <2>1, <2>3, <2>4
<1>4. harm # "died going down" => At(version) \subseteq schema /\ WideAt(version) \subseteq wide
  BY <1>2, TimesSet DEF MigrationInv, NothingMissing, WideAt
<1>5. harm \in {"none", "created"} => \A c \in DOMAIN shift : shift[c] = ShiftAt(version)
  BY <1>1, <1>2, TimesSet DEF MigrationInv, MigrationType, MovedOnce, ShiftAt
<1> QED BY <1>3, <1>4, <1>5

\* At every statement of every run, forward or backward, failed, died or with a
\* server in DEBUG meanwhile, the schema is what the version and the position
\* say (upgrade and downgrade of migrations/versions, env.py).
THEOREM MigrationInvariant == ApplicationSpec => []MigrationInv
<1>1. ApplicationInit => MigrationInv
  BY MigrationStarts DEF ApplicationInit
<1>2. [ApplicationNext]_vars => [Migrate]_mvars
  <2> SUFFICES ASSUME [ApplicationNext]_vars PROVE [Migrate]_mvars
    OBVIOUS
  <2>1. CASE Assemble /\ UNCHANGED <<rvars, mvars>>
    BY <2>1
  <2>2. CASE \E r \in Requests : Serve(r) /\ UNCHANGED mvars
    BY <2>2
  <2>3. CASE Migrating /\ Migrate /\ UNCHANGED <<avars, rvars>>
    BY <2>3
  <2>4. CASE UNCHANGED vars
    BY <2>4 DEF vars
  <2> QED BY <2>1, <2>2, <2>3, <2>4 DEF ApplicationNext
<1> QED BY <1>1, <1>2, MigrateKeeps, PTL DEF ApplicationSpec

\* Between runs the tables are what the version says and at the head what the
\* models say, after any sequence of runs up and down; nothing of an older
\* version is missing after a run that died on the way up, and a time is moved
\* to UTC twice, or not back, only if a run died (_convert).
THEOREM SchemaIsFollowed == ApplicationSpec => []SchemaFollowsVersion
  BY MigrationInvariant, MigrationFollows, PTL
=============================================================================
