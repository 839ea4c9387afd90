------------------------------- MODULE Routes -------------------------------
(***************************************************************************)
(* The operations the feature apps define, with the functions found in the *)
(* dependency tree of each that say who may call it, and the check of      *)
(* AccessPolicyGuard over the operations of an assembled application.      *)
(***************************************************************************)
EXTENDS Naturals, FiniteSets

\* What a declaration puts into the dependency tree of its operation.
Public == {"public"}
PublicWrite == {"public_write"}
LoginRequired == {"get_current_principal"}
SuperuserRequired == {"get_current_principal", "require_superuser"}

Op(app, method, path, calls) ==
  [app |-> app, method |-> method, path |-> path, calls |-> calls]

\* Posts and replies: everyone reads, whoever is logged in writes.
Owned(app, list, item) ==
  {Op(app, "GET", p, Public) : p \in {list, item}} \cup
  {Op(app, "POST", list, LoginRequired)} \cup
  {Op(app, m, item, LoginRequired) : m \in {"PATCH", "DELETE"}}

BlogRoutes == Owned("blog", <<"blog", "posts">>, <<"blog", "posts", "id">>)
ReplyRoutes == Owned("reply", <<"reply", "replies">>, <<"reply", "replies", "id">>)
SnsRoutes == Owned("sns", <<"sns", "posts">>, <<"sns", "posts", "id">>)

\* Products: everyone reads, superusers write.
CatalogRoutes ==
  LET list == <<"catalog", "products">>
      item == <<"catalog", "products", "id">>
  IN {Op("catalog", "GET", p, Public) : p \in {list, item}} \cup
     {Op("catalog", "POST", list, SuperuserRequired)} \cup
     {Op("catalog", m, item, SuperuserRequired) : m \in {"PATCH", "DELETE"}}

\* Accounts: superusers manage them, everyone sees and edits his own.
UserRoutes ==
  LET list == <<"user", "users">>
      item == <<"user", "users", "id">>
  IN {Op("user", m, list, SuperuserRequired) : m \in {"POST", "GET"}} \cup
     {Op("user", m, item, LoginRequired) : m \in {"GET", "PATCH"}} \cup
     {Op("user", "DELETE", item, SuperuserRequired)}

AuthRoutes ==
  {Op("auth", "POST", <<"auth", p>>, PublicWrite) :
     p \in {"register", "login", "refresh", "logout"}} \cup
  {Op("auth", "GET", <<"auth", "me">>, LoginRequired)}

\* The access logs and the sales report are for superusers.
HomeRoutes ==
  {Op("home", "GET", p, SuperuserRequired) :
     p \in {<<"home", "access-logs">>, <<"home", "access-logs", "recent">>,
            <<"home", "access-logs", "by-ip", "ip">>, <<"home", "access-logs", "by-user", "id">>,
            <<"home", "access-logs", "stats">>}}

ReportRoutes ==
  {Op("reports", "GET", <<"reports", "sales", "daily">>, SuperuserRequired)}

\* The routers in the tree, by app.
Routers ==
  [auth |-> AuthRoutes, blog |-> BlogRoutes, catalog |-> CatalogRoutes,
   home |-> HomeRoutes, reply |-> ReplyRoutes, reports |-> ReportRoutes,
   sns |-> SnsRoutes, user |-> UserRoutes]

\* _add_health_and_docs
HealthAndDocs(debug) ==
  {Op("main", "GET", <<p>>, Public) :
     p \in {"health", "ready"} \cup (IF debug THEN {"docs"} ELSE {})}
-----------------------------------------------------------------------------
SafeMethods == {"GET", "HEAD", "OPTIONS"}

Markers == [public |-> "Public", public_write |-> "PublicWrite"]

\* declared_levels: require_superuser brings get_current_principal with it.
DeclaredLevels(calls) ==
  {Markers[c] : c \in calls \cap DOMAIN Markers} \cup
  (IF "require_superuser" \in calls THEN {"SuperuserRequired"}
   ELSE IF "get_current_principal" \in calls THEN {"LoginRequired"} ELSE {})

\* violations
Violations(ops) ==
  {op \in ops : LET levels == DeclaredLevels(op.calls) IN
     \/ Cardinality(levels) # 1
     \/ levels = {"Public"} /\ op.method \notin SafeMethods
     \/ levels = {"PublicWrite"} /\ op.method \in SafeMethods}
=============================================================================
