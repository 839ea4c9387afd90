----------------------------- MODULE AppAssembly -----------------------------
(***************************************************************************)
(* How a process puts the application together from what it finds under    *)
(* app/features: the web server (main.py), the Celery worker               *)
(* (celery/app.py) and a migration (migrations/env.py).  All of them load  *)
(* the settings first and wire the parts of the apps they discover through *)
(* the same AppRegistry; a part that is absent is skipped, one that is     *)
(* wrong stops the process.                                                *)
(***************************************************************************)
EXTENDS Routes

VARIABLES
  process,   \* which process this is
  settings,  \* what .env and the environment say
  shape,     \* app -> part -> what is there
  routes,    \* app -> operations of its router
  stage,     \* how far the process is
  apps,      \* AppRegistry._apps
  wired,     \* <<app, part>> wired so far
  mounted    \* operations the application serves

avars == <<process, settings, shape, routes, stage, apps, wired, mounted>>
found == <<process, settings, shape, routes>>
-----------------------------------------------------------------------------
Parts == {"hook", "models", "router", "admin", "tasks"}

\* The apps of the tree and the parts they have.
Apps == DOMAIN Routers
PartsOf(app) ==
  {"router"} \cup (IF app = "auth" THEN {} ELSE {"models", "admin"})
    \cup (IF app = "home" THEN {"hook", "tasks"} ELSE {})

TreeShape == [a \in Apps |-> [p \in Parts |-> IF p \in PartsOf(a) THEN "ok" ELSE "absent"]]

\* What lies under app/features: the apps, the module admin, and whatever
\* package starts with an underscore.
Entries == [e \in Apps \cup {"admin", "_private"} |->
              CASE e \in Apps -> "package" [] e = "admin" -> "module" [] OTHER -> "private"]

\* What else a part can be: a module an import of which fails, that lacks the
\* export or has the wrong thing there, that exports what another app does, a
\* hook that raises, models their package does not re-export.
Shapes(part) ==
  {"absent", "ok", "broken"} \cup
  (CASE part = "hook" -> {"noready", "raising"}
     [] part = "models" -> {"unexported"}
     [] part \in {"router", "admin"} -> {"misfit", "shared"}
     [] part = "tasks" -> {})

\* Mistakes of the settings: refused by the settings classes, by
\* validate_env_source and validate_renamed_settings, and by
\* validate_deployment_safety everywhere or in a deployment.
Inconsistent == {"replicationUnrouted", "noReplica", "wildcardCredentials", "idleOverMaxAge"}
Misplaced == {"noSource", "renamedAdmin"}
Weak == {"placeholderSecret", "shortSecret", "sameSecrets"}
Revealing == {"wildcardOrigin", "sqlEcho", "debugLevel"}
Mistakes == Inconsistent \cup Misplaced \cup Weak \cup Revealing

Envs == {"test", "development", "staging", "production"}
Settings == [env: Envs, debug: BOOLEAN, adminDisabled: BOOLEAN, mistakes: SUBSET Mistakes]

Deployed == settings.env \in {"staging", "production"}

\* Declarations of an operation that differ from the one in the tree.
Declarations == {{}, Public, PublicWrite, LoginRequired \cup Public}
-----------------------------------------------------------------------------
\* At most one thing is not as in the tree: a part of an app, the declaration
\* of an operation, or a setting.
AssemblyInit ==
  /\ process \in {"web", "worker", "migration"}
  /\ \E env \in Envs, debug, off \in BOOLEAN, m \in Mistakes :
       \/ /\ settings = [env |-> env, debug |-> debug, adminDisabled |-> off, mistakes |-> {m}]
          /\ shape = TreeShape /\ routes = Routers
       \/ /\ settings = [env |-> env, debug |-> debug, adminDisabled |-> off, mistakes |-> {}]
          /\ \/ /\ \E a \in Apps, p \in Parts : \E s \in Shapes(p) :
                     shape = [TreeShape EXCEPT ![a][p] = s]
                /\ routes = Routers
             \/ /\ shape = TreeShape
                /\ \E a \in Apps : \E op \in Routers[a], d \in Declarations :
                     routes = [Routers EXCEPT ![a] =
                                 (@ \ {op}) \cup {[op EXCEPT !.calls = d]}]
  /\ stage = "settings" /\ apps = {} /\ wired = {} /\ mounted = {}

Next1(s) == stage' = s /\ UNCHANGED found

\* Importing config: first the settings are built, then the three checks.
SettingsAccepted ==
  /\ settings.mistakes \cap Inconsistent = {}
  /\ \/ settings.env = "test"
     \/ /\ settings.mistakes \cap (Misplaced \cup Weak) = {}
        /\ Deployed => ~settings.debug /\ settings.mistakes \cap Revealing = {}

LoadSettings ==
  /\ stage = "settings"
  /\ Next1(IF SettingsAccepted THEN "discover" ELSE "failed")
  /\ UNCHANGED <<apps, wired, mounted>>

\* discover: the packages under app/features but those that start with _.
Discover ==
  /\ stage = "discover"
  /\ apps' = {e \in DOMAIN Entries : Entries[e] = "package"}
  /\ Next1(IF process = "web" THEN "hooks" ELSE "models")
  /\ UNCHANGED <<wired, mounted>>
-----------------------------------------------------------------------------
\* _import_optional of a part of an app: nothing, the module, or its error.
Imported(a, p) == shape[a][p] \notin {"absent", "broken"}

\* The wiring of a part in every discovered app: it fails when an import does
\* or when what was imported is not what the registry asks for.
Wire(p, wrong, next) ==
  IF \E a \in apps : shape[a][p] \in {"broken"} \cup wrong
  THEN Next1("failed") /\ UNCHANGED wired
  ELSE Next1(next) /\ wired' = wired \cup {<<a, p>> : a \in {b \in apps : Imported(b, p)}}

\* install_hooks: a module without ready() is passed over.
InstallHooks ==
  /\ stage = "hooks"
  /\ Wire("hook", {"raising"}, "models")
  /\ UNCHANGED <<apps, mounted>>

\* import_models: the package and its module models are both imported.
ImportModels ==
  /\ stage = "models"
  /\ Wire("models", {}, CASE process = "web" -> "routers" [] process = "worker" -> "tasks"
                          [] process = "migration" -> "up")
  /\ UNCHANGED <<apps, mounted>>

\* Variant: any module that is not found counts as a missing router.
MountWhatImports ==
  /\ stage = "routers"
  /\ LET ok == {a \in apps : shape[a]["router"] = "ok"} IN
       IF \E a \in apps : shape[a]["router"] \in {"misfit", "shared"}
       THEN Next1("failed") /\ UNCHANGED <<wired, mounted>>
       ELSE /\ Next1("health")
            /\ wired' = wired \cup {<<a, "router">> : a \in ok}
            /\ mounted' = UNION {routes[a] : a \in ok}
  /\ UNCHANGED apps

\* install_routers
InstallRouters ==
  /\ stage = "routers"
  /\ Wire("router", {"misfit", "shared"}, "health")
  /\ mounted' = UNION {routes[a] : a \in {b \in apps : <<b, "router">> \in wired'}}
  /\ UNCHANGED apps

AddHealthAndDocs ==
  /\ stage = "health"
  /\ mounted' = mounted \cup HealthAndDocs(settings.debug)
  /\ Next1("admin")
  /\ UNCHANGED <<apps, wired>>

\* register_admin with install_admin, unless ADMIN_DISABLED.
InstallAdmin ==
  /\ stage = "admin"
  /\ IF settings.adminDisabled THEN Next1("verify") /\ UNCHANGED wired
     ELSE Wire("admin", {"misfit", "shared"}, "verify")
  /\ UNCHANGED <<apps, mounted>>

\* Variant: only the operations with a declaration are looked at.
VerifyDeclared ==
  /\ stage = "verify"
  /\ Next1(IF Violations({op \in mounted : DeclaredLevels(op.calls) # {}}) = {}
           THEN "up" ELSE "failed")
  /\ UNCHANGED <<apps, wired, mounted>>

\* AccessPolicyGuard.verify
Verify ==
  /\ stage = "verify"
  /\ Next1(IF Violations(mounted) = {} THEN "up" ELSE "failed")
  /\ UNCHANGED <<apps, wired, mounted>>

\* The include list of the worker: has_tasks looks for the module, Celery
\* imports it when the worker starts.
IncludeTasks ==
  /\ stage = "tasks"
  /\ Wire("tasks", {}, "up")
  /\ UNCHANGED <<apps, mounted>>

Assemble ==
  \/ LoadSettings \/ Discover \/ InstallHooks \/ ImportModels \/ InstallRouters
  \/ AddHealthAndDocs \/ InstallAdmin \/ Verify \/ IncludeTasks
-----------------------------------------------------------------------------
\* What a process wires.
Wants(p) ==
  CASE p = "models" -> TRUE
    [] p \in {"hook", "router"} -> process = "web"
    [] p = "admin" -> process = "web" /\ ~settings.adminDisabled
    [] p = "tasks" -> process = "worker"

\* No part of an app is missing from a process that is up: whatever the
\* process wires and finds is wired, and the operations of every router are
\* served.  (A module apps.py without ready() has no hook to run.)
NothingLeftOut ==
  stage = "up" =>
    \A a \in Apps :
      /\ \A p \in Parts : Wants(p) /\ shape[a][p] # "absent" => <<a, p>> \in wired
      /\ process = "web" /\ shape[a]["router"] # "absent" => routes[a] \subseteq mounted

\* An application that serves has told of each of its operations who may call
\* it, in one way, with no writing left to everyone by a mark for reading;
\* a deployed one serves no documentation.
EveryOperationGuarded ==
  stage = "up" /\ process = "web" =>
    /\ \A op \in mounted :
         \E calls \in {Public, PublicWrite, LoginRequired, SuperuserRequired} :
           /\ op.calls = calls
           /\ calls = Public => op.method = "GET"
           /\ calls = PublicWrite => op.method # "GET"
    /\ Deployed => \A op \in mounted : op.path # <<"docs">>
=============================================================================
