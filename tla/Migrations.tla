----------------------------- MODULE Migrations -----------------------------
(***************************************************************************)
(* The revisions of migrations/versions and the runs of Alembic over them  *)
(* (env.py), on MySQL: every DDL statement commits what came before it,    *)
(* the version is written behind the last statement of a revision.  A run  *)
(* can die between two statements, and a server in DEBUG may start on the  *)
(* same database and create the tables that are not there.                 *)
(***************************************************************************)
EXTENDS Integers, SequencesExt, FiniteSetsExt

CONSTANT MaxShift  \* bound: how often a time is moved again before runs end

VARIABLES
  schema,   \* tables, columns and indexes that are there
  wide,     \* times stored with microseconds
  shift,    \* how often a time was moved from KST to UTC, as the run sees it
  saved,    \* the same as committed
  version,  \* alembic_version: number of revisions applied
  goal,     \* where the run under way goes, NoRun if there is none
  pos,      \* statements of its current revision it has executed
  failed,   \* the last run ended with an error
  harm      \* what has happened to the database besides whole revisions

mvars == <<schema, wide, shift, saved, version, goal, pos, failed, harm>>
-----------------------------------------------------------------------------
\* Objects are named by their path: a table, a column of it, an index on it.
Table(t) == <<t>>
Column(t, c) == <<t, c>>
Index(t, c) == <<t, c, "index">>
Indexes(t, cs) == [i \in 1..Len(cs) |-> Index(t, cs[i])]

\* The columns with a time, in the order of the revision that converts them.
Times ==
  <<Column("user_access_logs", "created_at"),
    Column("users", "created_at"), Column("users", "updated_at"),
    Column("blog_posts", "created_at"), Column("blog_posts", "updated_at"),
    Column("replies", "created_at"), Column("replies", "updated_at"),
    Column("sns_posts", "created_at"), Column("sns_posts", "updated_at"),
    Column("catalog_products", "created_at"), Column("catalog_products", "updated_at"),
    Column("sales_orders", "created_at")>>

\* The revisions that add objects drop them backwards on the way down.
Stmt(op, on) == [op |-> op, on |-> on]
Adding(objects) ==
  LET n == Len(objects) IN
    [up |-> [i \in 1..n |-> Stmt("add", objects[i])],
     down |-> [i \in 1..n |-> Stmt("drop", objects[n + 1 - i])]]

\* Variant: the baseline as it was first, of the access logs alone.
FirstBaseline ==
  Adding(<<Table("user_access_logs")>> \o
         Indexes("user_access_logs", <<"browser_name", "country", "created_at", "device_type",
                                       "ip_address", "os_name", "session_id", "user_id">>))

Baseline ==
  Adding(<<Table("user_access_logs")>> \o
         Indexes("user_access_logs", <<"browser_name", "country", "created_at", "device_type",
                                       "ip_address", "os_name", "session_id", "user_id">>) \o
         <<Table("users"), Index("users", "username"),
           Table("blog_posts"), Table("replies"), Table("sns_posts")>>)

HashedPassword == Adding(<<Column("users", "hashed_password")>>)
CatalogProducts == Adding(<<Table("catalog_products")>>)
SalesOrders ==
  Adding(<<Table("sales_orders")>> \o Indexes("sales_orders", <<"order_no", "created_at">>))

\* Two statements for each time, o1 and o2, in turn.
InTurn(o1, o2) ==
  [i \in 1..2 * Len(Times) |-> Stmt(IF i % 2 = 1 THEN o1 ELSE o2, Times[(i + 1) \div 2])]
UtcTimes == [up |-> InTurn("widen", "to UTC"), down |-> InTurn("to KST", "narrow")]

AuthorIds ==
  Adding(<<Column("users", "is_superuser"),
           Column("blog_posts", "author_id"), Index("blog_posts", "author_id"),
           Column("sns_posts", "author_id"), Index("sns_posts", "author_id"),
           Column("replies", "author_id"), Index("replies", "author_id")>>)

\* The chain of down_revision.
Revisions == <<Baseline, HashedPassword, CatalogProducts, SalesOrders, UtcTimes, AuthorIds>>
Head6 == Len(Revisions)
NoRun == -1

\* The models: what they declare beyond the columns a table is created with.
UserAccessLog == ToSet(Indexes("user_access_logs",
                   <<"created_at", "ip_address", "os_name", "browser_name", "device_type",
                     "country", "session_id", "user_id">>))
User == {Column("users", "hashed_password"), Column("users", "is_superuser"),
         Index("users", "username")}
Post == {Column("blog_posts", "author_id"), Index("blog_posts", "author_id")}
Reply == {Column("replies", "author_id"), Index("replies", "author_id")}
SnsPost == {Column("sns_posts", "author_id"), Index("sns_posts", "author_id")}
Product == {}
SalesOrder == ToSet(Indexes("sales_orders", <<"order_no", "created_at">>))

\* Base.metadata
Models ==
  [user_access_logs |-> UserAccessLog, users |-> User, blog_posts |-> Post, replies |-> Reply,
   sns_posts |-> SnsPost, catalog_products |-> Product, sales_orders |-> SalesOrder]

Declared(t) == {Table(t)} \cup Models[t]
-----------------------------------------------------------------------------
MigrationsInit ==
  /\ schema = {} /\ wide = {} /\ version = 0
  /\ shift = [c \in ToSet(Times) |-> 0] /\ saved = shift
  /\ goal = NoRun /\ pos = 0 /\ failed = FALSE /\ harm = "none"

Up == goal > version
Statements == IF Up THEN Revisions[version + 1].up ELSE Revisions[version].down

\* alembic upgrade or downgrade to a revision.  Bound: MaxShift, as a run that
\* keeps failing behind a column moves its time again every time.
Command(v) ==
  /\ goal = NoRun /\ v # version
  /\ \A c \in DOMAIN shift : shift[c] \in 0..MaxShift
  /\ goal' = v /\ pos' = 0 /\ failed' = FALSE
  /\ UNCHANGED <<schema, wide, shift, saved, version, harm>>

\* What a statement needs, and what it does to tables and columns.
Possible(s) ==
  CASE s.op = "add" -> s.on \notin schema /\ (Len(s.on) = 1 \/ Table(s.on[1]) \in schema)
    [] s.op = "drop" -> s.on \in schema
    [] OTHER -> Table(s.on[1]) \in schema

Ddl(s) == s.op \notin {"to UTC", "to KST"}
Below(o) == {p \in schema : IsPrefix(o, p)}
Moved(s) ==
  CASE s.op = "to UTC" -> [shift EXCEPT ![s.on] = @ + 1]
    [] s.op = "to KST" -> [shift EXCEPT ![s.on] = @ - 1]
    [] s.op = "drop" -> [c \in DOMAIN shift |-> IF IsPrefix(s.on, c) THEN 0 ELSE shift[c]]
    [] OTHER -> shift

Execute ==
  /\ goal # NoRun /\ pos < Len(Statements)
  /\ LET s == Statements[pos + 1] IN
       /\ Possible(s)
       /\ pos' = pos + 1
       /\ schema' = CASE s.op = "add" -> schema \cup {s.on}
                      [] s.op = "drop" -> schema \ Below(s.on)
                      [] OTHER -> schema
       /\ wide' = CASE s.op = "widen" -> wide \cup {s.on}
                    [] s.op = "narrow" -> wide \ {s.on}
                    [] s.op = "drop" -> {c \in wide : ~IsPrefix(s.on, c)}
                    [] OTHER -> wide
       /\ shift' = Moved(s)
       /\ saved' = IF Ddl(s) THEN shift' ELSE saved
  /\ UNCHANGED <<version, goal, failed, harm>>

\* The revision is done: the version is updated and all is committed.
EndRevision ==
  /\ goal # NoRun /\ pos = Len(Statements)
  /\ version' = IF Up THEN version + 1 ELSE version - 1
  /\ goal' = IF version' = goal THEN NoRun ELSE goal
  /\ pos' = 0 /\ saved' = shift
  /\ UNCHANGED <<schema, wide, shift, failed, harm>>

\* A statement fails and ends the run; DDL has committed what was open.
Fail ==
  /\ goal # NoRun /\ pos < Len(Statements)
  /\ LET s == Statements[pos + 1] IN
       /\ ~Possible(s)
       /\ IF Ddl(s) THEN saved' = shift /\ UNCHANGED shift ELSE shift' = saved /\ UNCHANGED saved
  /\ failed' = TRUE /\ goal' = NoRun /\ pos' = 0
  /\ UNCHANGED <<schema, wide, version, harm>>

\* The run dies between two statements.  Bound: once, and in a database that
\* no server has created tables in.
Die ==
  /\ goal # NoRun /\ pos > 0 /\ harm = "none"
  /\ harm' = IF Up THEN "died going up" ELSE "died going down"
  /\ shift' = saved
  /\ goal' = NoRun /\ pos' = 0 /\ failed' = TRUE
  /\ UNCHANGED <<schema, wide, saved, version>>

\* create_db_tables of a server in DEBUG: the tables that are not there, with
\* the columns of the models.
CreateDbTables ==
  LET missing == {t \in DOMAIN Models : Table(t) \notin schema} IN
    /\ missing # {} /\ harm \in {"none", "created"}
    /\ schema' = schema \cup UNION {Declared(t) : t \in missing}
    /\ wide' = wide \cup {c \in ToSet(Times) : c[1] \in missing}
    /\ harm' = "created"
    /\ UNCHANGED <<shift, saved, version, goal, pos, failed>>

Migrate ==
  \/ \E v \in 0..Head6 : Command(v)
  \/ Execute \/ EndRevision \/ Fail \/ Die \/ CreateDbTables
-----------------------------------------------------------------------------
\* What a version stands for: its objects, the times with microseconds, and
\* how often a time has been moved.
At(v) == UNION {{Revisions[i].up[j].on : j \in 1..Len(Revisions[i].up)} : i \in (1..v) \ {5}}
WideAt(v) == IF v >= 5 THEN ToSet(Times) ELSE {}
ShiftAt(v) == IF v >= 5 THEN 1 ELSE 0

\* Between runs the tables are what the version says, and at the head what the
\* models say, from wherever to wherever the runs went; of a run that died on
\* the way up nothing of an older version is missing, and a time is moved
\* twice, or not back, only if a run died.
SchemaFollowsVersion ==
  goal = NoRun =>
    /\ harm = "none" =>
         /\ ~failed /\ schema = At(version) /\ wide = WideAt(version)
         /\ version = Head6 => schema = UNION {Declared(t) : t \in DOMAIN Models}
    /\ harm # "died going down" =>
         At(version) \subseteq schema /\ WideAt(version) \subseteq wide
    /\ harm \in {"none", "created"} => \A c \in DOMAIN shift : shift[c] = ShiftAt(version)
=============================================================================
