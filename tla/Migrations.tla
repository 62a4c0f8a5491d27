------------------------------ MODULE Migrations ------------------------------
(***************************************************************************)
(* The database schema and its thirteen Alembic revisions.  One command    *)
(* ("upgrade" or "downgrade" to some revision) executes its revisions in a *)
(* single transaction and moves alembic_version after each of them.        *)
(* Meanwhile a Celery worker and APScheduler may start and create the      *)
(* tables of their own that they miss, and a second command may run: the   *)
(* documentation asks operators to stop everything, nothing enforces it.   *)
(*                                                                         *)
(* A schema is a set of objects <<kind, table, name, detail>>.  Primary    *)
(* keys, column types and defaults are left out.                           *)
(***************************************************************************)
EXTENDS Integers, FiniteSets, SequencesExt

CONSTANTS
  Commands,  \* sessions that execute migration commands
  Goals,     \* the revisions that commands are given as a target
  None       \* "no value"

LastRevision == 13
Revisions == 0 .. LastRevision

-----------------------------------------------------------------------------
(* Statements.                                                             *)

Table(t) == <<"table", t, "", "">>
Column(t, c) == <<"column", t, c, "">>
Vector(t, dict) == <<"column", t, "search_vector", dict>>
Uq(t, u) == <<"uq", t, u, "">>
Fk(t, c, ref) == <<"fk", t, c, ref>>
Ix(t, c) == <<"ix", t, c, "">>

\* op.create_table with its columns, unique constraints and foreign keys.
CreateTable(t, cols, others) ==
  [do |-> "create_table", table |-> t, quiet |-> FALSE,
   objs |-> {Table(t)} \cup {Column(t, c) : c \in cols} \cup others]

\* op.create_index, op.add_column, CREATE SEQUENCE / EXTENSION.
Create(o) == [do |-> "create", table |-> o[2], quiet |-> FALSE, objs |-> {o}]
CreateIfNotExists(o) == [Create(o) EXCEPT !.quiet = TRUE]

\* op.drop_table, op.drop_index, op.drop_column, DROP SEQUENCE / EXTENSION.
DropTable(t) == [do |-> "drop_table", table |-> t, quiet |-> FALSE, objs |-> {Table(t)}]
Drop(o) == [do |-> "drop", table |-> o[2], quiet |-> FALSE, objs |-> {o}]
DropIfExists(o) == [Drop(o) EXCEPT !.quiet = TRUE]

Sequence(n) == <<"sequence", n, "", "">>
Extension == <<"extension", "pg_trgm", "", "">>

-----------------------------------------------------------------------------
(* The revisions.                                                          *)

Timestamps == {"created_at", "updated_at"}
Resource == {"id", "group_id", "name", "description"}

CreateUser == <<
  CreateTable("user", {"id", "username", "email", "first_name", "last_name", "middle_name",
                       "is_superuser", "is_active"} \cup Timestamps, {}),
  Create(Ix("user", "username"))>>
DropUser == <<Drop(Ix("user", "username")), DropTable("user")>>

CreateGroup == <<
  CreateTable("group", {"id", "name", "description", "owner_id"} \cup Timestamps,
    {Vector("group", "english"), Fk("group", "owner_id", "user"), Uq("group", "name")}),
  Create(Ix("group", "owner_id"))>>
DropGroup == <<Drop(Ix("group", "owner_id")), DropTable("group")>>

CreateQueue == <<
  CreateTable("queue", Resource \cup {"slug"} \cup Timestamps,
    {Vector("queue", "english"), Fk("queue", "group_id", "group"), Uq("queue", "slug")}),
  Create(Ix("queue", "group_id"))>>
DropQueue == <<Drop(Ix("queue", "group_id")), DropTable("queue")>>

CreateConnection == <<
  CreateTable("connection", Resource \cup {"type", "data"} \cup Timestamps,
    {Vector("connection", "english"), Fk("connection", "group_id", "group"),
     Uq("connection", "name_group_id")}),
  Create(Ix("connection", "group_id")),
  Create(Ix("connection", "search_vector"))>>
DropConnection == <<Drop(Ix("connection", "group_id")), Drop(Ix("connection", "search_vector")),
                    DropTable("connection")>>

CreateUserGroup == <<
  CreateTable("user_group", {"user_id", "group_id", "role"},
    {Fk("user_group", "group_id", "group"), Fk("user_group", "user_id", "user")}),
  Create(Ix("user_group", "group_id")),
  Create(Ix("user_group", "user_id"))>>
DropUserGroup == <<Drop(Ix("user_group", "user_id")), Drop(Ix("user_group", "group_id")),
                   DropTable("user_group")>>

CreateAuthData == <<
  CreateTable("auth_data", {"connection_id", "value"} \cup Timestamps,
    {Fk("auth_data", "connection_id", "connection")})>>
DropAuthData == <<DropTable("auth_data")>>

CreateTransfer == <<
  CreateTable("transfer", Resource \cup Timestamps \cup
      {"source_connection_id", "target_connection_id", "strategy_params", "source_params",
       "target_params", "transformations", "resources", "is_scheduled", "schedule", "queue_id"},
    {Fk("transfer", "group_id", "group"), Fk("transfer", "queue_id", "queue"),
     Fk("transfer", "source_connection_id", "connection"),
     Fk("transfer", "target_connection_id", "connection"),
     Vector("transfer", "english"), Uq("transfer", "name_group_id")}),
  Create(Ix("transfer", "group_id")),
  Create(Ix("transfer", "source_connection_id")),
  Create(Ix("transfer", "target_connection_id")),
  Create(Ix("transfer", "search_vector"))>>
DropTransfer == <<
  Drop(Ix("transfer", "target_connection_id")), Drop(Ix("transfer", "source_connection_id")),
  Drop(Ix("transfer", "group_id")), Drop(Ix("transfer", "search_vector")),
  DropTable("transfer")>>

CreateRun == <<
  CreateTable("run", {"id", "transfer_id", "started_at", "ended_at", "status", "type",
                      "log_url", "transfer_dump"} \cup Timestamps,
    {Fk("run", "transfer_id", "transfer")}),
  Create(Ix("run", "type")), Create(Ix("run", "status")), Create(Ix("run", "transfer_id"))>>
DropRun == <<Drop(Ix("run", "transfer_id")), Drop(Ix("run", "status")), Drop(Ix("run", "type")),
             DropTable("run")>>

CreateCelery == <<
  CreateIfNotExists(Sequence("task_id_sequence")),
  CreateTable("celery_taskmeta", {"id", "task_id", "status", "result", "date_done", "traceback",
      "name", "args", "kwargs", "worker", "retries", "queue"}, {Uq("celery_taskmeta", "task_id")}),
  CreateIfNotExists(Sequence("taskset_id_sequence")),
  CreateTable("celery_tasksetmeta", {"id", "taskset_id", "result", "date_done"},
    {Uq("celery_tasksetmeta", "taskset_id")})>>
DropCelery == <<
  DropTable("celery_tasksetmeta"), DropTable("celery_taskmeta"),
  Drop(Sequence("task_id_sequence")), Drop(Sequence("taskset_id_sequence"))>>

CreateExtension == <<CreateIfNotExists(Extension)>>
DropExtension == <<DropIfExists(Extension)>>

CreateJobs == <<
  CreateTable("apscheduler_jobs", {"id", "next_run_time", "job_state"}, {}),
  Create(Ix("apscheduler_jobs", "next_run_time"))>>
DropJobs == <<Drop(Ix("apscheduler_jobs", "next_run_time")), DropTable("apscheduler_jobs")>>

\* 0012: every search_vector is dropped and added with other dictionaries.
UpdateTs == <<
  Drop(Ix("connection", "search_vector")), Drop(Vector("connection", "english")),
  Drop(Vector("group", "english")),
  Drop(Ix("transfer", "search_vector")), Drop(Vector("transfer", "english")),
  Drop(Vector("queue", "english")),
  Create(Vector("connection", "russian")), Create(Ix("connection", "search_vector")),
  Create(Vector("group", "russian")), Create(Vector("queue", "russian")),
  Create(Vector("transfer", "russian")), Create(Ix("transfer", "search_vector"))>>

\* Mutant: the downgrade forgets an index.
RestoreTsWithoutIndex == <<
  Drop(Ix("transfer", "search_vector")), Drop(Vector("transfer", "russian")),
  Drop(Vector("group", "russian")),
  Drop(Ix("connection", "search_vector")), Drop(Vector("connection", "russian")),
  Drop(Vector("queue", "russian")),
  Create(Vector("transfer", "english")),
  Create(Vector("group", "english")),
  Create(Vector("connection", "english")), Create(Ix("connection", "search_vector")),
  Create(Vector("queue", "english"))>>

RestoreTs == <<
  Drop(Ix("transfer", "search_vector")), Drop(Vector("transfer", "russian")),
  Drop(Vector("group", "russian")),
  Drop(Ix("connection", "search_vector")), Drop(Vector("connection", "russian")),
  Drop(Vector("queue", "russian")),
  Create(Vector("transfer", "english")), Create(Ix("transfer", "search_vector")),
  Create(Vector("group", "english")),
  Create(Vector("connection", "english")), Create(Ix("connection", "search_vector")),
  Create(Vector("queue", "english"))>>

\* Mutant: only one of the two tables gets its index.
CreateOneDateDone == <<CreateIfNotExists(Ix("celery_taskmeta", "date_done"))>>

CreateDateDone == <<CreateIfNotExists(Ix("celery_taskmeta", "date_done")),
                    CreateIfNotExists(Ix("celery_tasksetmeta", "date_done"))>>
DropDateDone == <<DropIfExists(Ix("celery_tasksetmeta", "date_done")),
                  DropIfExists(Ix("celery_taskmeta", "date_done"))>>

upgrade == <<CreateUser, CreateGroup, CreateQueue, CreateConnection, CreateUserGroup,
             CreateAuthData, CreateTransfer, CreateRun, CreateCelery, CreateExtension,
             CreateJobs, UpdateTs, CreateDateDone>>
downgrade == <<DropUser, DropGroup, DropQueue, DropConnection, DropUserGroup, DropAuthData,
               DropTransfer, DropRun, DropCelery, DropExtension, DropJobs, RestoreTs,
               DropDateDone>>

\* Mutant: exists_table knows Celery's table only.
ReturnsOnCeleryOnly(rev, objs) == rev = 9 /\ Table("celery_taskmeta") \in objs

\* 0009 and 0011 return at once when somebody else has made the table.
Returns(rev, objs) ==
  \/ rev = 9 /\ Table("celery_taskmeta") \in objs
  \/ rev = 11 /\ Table("apscheduler_jobs") \in objs

-----------------------------------------------------------------------------
(* What PostgreSQL does with a statement (external).                       *)

Has(objs, o) == \E x \in objs : x[1] = o[1] /\ x[2] = o[2] /\ x[3] = o[3]

Refuses(objs, s) ==
  CASE s.do = "create_table" ->
         \/ Table(s.table) \in objs
         \/ \E o \in s.objs : o[1] = "fk" /\ Table(o[4]) \notin objs
    [] s.do = "create" ->
         \/ ~s.quiet /\ \E o \in s.objs : Has(objs, o)
         \/ \E o \in s.objs : o[1] = "ix" /\ ~Has(objs, <<"column", o[2], o[3], "">>)
         \/ \E o \in s.objs : o[1] = "column" /\ Table(o[2]) \notin objs
    [] s.do = "drop_table" ->
         \/ Table(s.table) \notin objs
         \/ \E o \in objs : o[1] = "fk" /\ o[4] = s.table /\ o[2] # s.table
    [] s.do = "drop" -> ~s.quiet /\ \E o \in s.objs : ~Has(objs, o)

Effect(objs, s) ==
  CASE s.do = "create_table" -> objs \cup s.objs
    [] s.do = "create" -> objs \cup s.objs
    [] s.do = "drop_table" -> {o \in objs : o[2] # s.table}
    [] s.do = "drop" ->
         LET goes(d) == IF d[1] = "column" THEN {"column", "ix"} ELSE {d[1]} IN
         {o \in objs : \A d \in s.objs : ~(o[2] = d[2] /\ o[3] = d[3] /\ o[1] \in goes(d))}

\* The schema after a sequence of statements, None when one of them fails.
Execute(objs, stmts) ==
  FoldLeft(LAMBDA acc, s : IF acc = None \/ Refuses(acc, s) THEN None ELSE Effect(acc, s),
           objs, stmts)

\* Tables, sequences and extensions that statements lock until the end of
\* their transaction: what they change and what their foreign keys refer to.
Locks(stmts) ==
  LET of(s) == {s.table} \cup {o[4] : o \in {x \in s.objs : x[1] = "fk"}} IN
  UNION {of(stmts[i]) : i \in DOMAIN stmts}

-----------------------------------------------------------------------------
VARIABLES
  schema,     \* committed objects
  version,    \* committed alembic_version
  command,    \* what each session executes
  creator,    \* Celery and APScheduler at their start
  disturbed,  \* history: sessions that somebody else committed beside
  failed      \* history: sessions whose last command failed

vars == <<schema, version, command, creator, disturbed, failed>>

\* A session: its target revision and direction, the revision its transaction
\* has reached, whether the next one returns at once, the objects it has made
\* and dropped, and the locks it holds.
NoCommand == [pc |-> "idle", goal |-> 0, rev |-> 0, up |-> TRUE, skip |-> FALSE, made |-> {}, gone |-> {},
              locks |-> {}]

Creators == {"celery", "apscheduler"}

\* Celery 5.6 creates the indexes that 0013 adds, too (external).
CreatorStatements(c) ==
  IF c = "celery"
    THEN CreateCelery \o <<Create(Ix("celery_taskmeta", "date_done")),
                           Create(Ix("celery_tasksetmeta", "date_done"))>>
    ELSE CreateJobs

Init ==
  /\ \E ext \in SUBSET {Extension} : schema = ext
  /\ version = 0
  /\ command = [m \in Commands |-> NoCommand]
  /\ creator = [c \in Creators |-> "off"]
  /\ disturbed = {}
  /\ failed = {}

View(m) == (schema \ command[m].gone) \cup command[m].made

Held(m) == UNION {command[k].locks : k \in Commands \ {m}}

\* The revision that the next step of m executes.
NextRev(m) == IF command[m].up THEN command[m].rev + 1 ELSE command[m].rev
Statements(m) == IF command[m].up THEN upgrade[NextRev(m)] ELSE downgrade[NextRev(m)]

Open == {m \in Commands : command[m].pc # "idle"}

-----------------------------------------------------------------------------
(* A command of alembic.                                                   *)

\* run_async_migrations: a transaction is opened and alembic_version is read.
\* Upgrades may run beside each other (every replica of a deployment may start
\* one); an operator who downgrades does it with no other command beside.
Begin(m, goal) ==
  /\ command[m].pc = "idle"
  /\ goal # version
  /\ goal < version => Open = {}
  /\ \A k \in Open : command[k].up
  /\ command' = [command EXCEPT ![m] = [NoCommand EXCEPT !.pc = "check", !.goal = goal,
                                                        !.rev = version,
                                                        !.up = goal > version]]
  /\ disturbed' = disturbed \ {m}
  /\ failed' = failed \ {m}
  /\ UNCHANGED <<schema, version, creator>>

\* exists_table, in the revisions that ask.
Check(m) ==
  /\ command[m].pc = "check"
  /\ command[m].rev # command[m].goal
  /\ command' = [command EXCEPT ![m].pc = "execute",
                                ![m].skip = command[m].up /\ Returns(NextRev(m), View(m))]
  /\ UNCHANGED <<schema, version, creator, disturbed, failed>>

\* The statements of one revision; they wait for the locks of others.
Migrate(m) ==
  LET stmts == IF command[m].skip THEN <<>> ELSE Statements(m)
      after == Execute(View(m), stmts)
  IN
  /\ command[m].pc = "execute"
  /\ Locks(stmts) \cap Held(m) = {}
  /\ after # None
  /\ command' = [command EXCEPT ![m].pc = "stamp", ![m].made = after \ schema,
                                ![m].gone = schema \ after,
                                ![m].locks = @ \cup Locks(stmts)]
  /\ UNCHANGED <<schema, version, creator, disturbed, failed>>

\* ... then alembic moves alembic_version from the revision it had (external).
Stamp(m) ==
  /\ command[m].pc = "stamp"
  /\ "alembic_version" \notin Held(m)
  /\ "alembic_version" \in command[m].locks \/ version = command[m].rev
  /\ command' = [command EXCEPT ![m].pc = "check",
                                ![m].rev = IF command[m].up THEN @ + 1 ELSE @ - 1,
                                ![m].locks = @ \cup {"alembic_version"}]
  /\ UNCHANGED <<schema, version, creator, disturbed, failed>>

\* context.begin_transaction() is left: everything is committed.
Commit(m) ==
  /\ command[m].pc = "check"
  /\ command[m].rev = command[m].goal
  /\ schema' = View(m)
  /\ version' = command[m].rev
  /\ command' = [command EXCEPT ![m] = NoCommand]
  /\ disturbed' = disturbed \cup (Open \ {m})
  /\ UNCHANGED <<creator, failed>>

\* Why a command ends with an error and is rolled back: a statement fails, or
\* alembic_version is not what it was.
Errs(m) ==
  \/ /\ command[m].pc = "execute" /\ ~command[m].skip
     /\ Locks(Statements(m)) \cap Held(m) = {}
     /\ Execute(View(m), Statements(m)) = None
  \/ /\ command[m].pc = "stamp" /\ "alembic_version" \notin Held(m)
     /\ "alembic_version" \notin command[m].locks /\ version # command[m].rev

Rollback(m) ==
  /\ command[m].pc # "idle"
  /\ Errs(m)
  /\ command' = [command EXCEPT ![m] = NoCommand]
  /\ failed' = failed \cup {m}
  /\ UNCHANGED <<schema, version, creator, disturbed>>

-----------------------------------------------------------------------------
(* Services that create their own tables (external).                       *)

\* A service starts and looks for its tables.
Look(c) ==
  /\ creator[c] = "off"
  /\ creator' = [creator EXCEPT ![c] =
       IF Execute(schema, CreatorStatements(c)) = None THEN "off" ELSE "missing"]
  /\ creator' # creator
  /\ UNCHANGED <<schema, version, command, disturbed, failed>>

\* It creates them, or fails because they are there by now, and starts over.
CreateOwn(c) ==
  LET after == Execute(schema, CreatorStatements(c))
  IN
  /\ creator[c] = "missing"
  /\ Locks(CreatorStatements(c)) \cap UNION {command[k].locks : k \in Commands} = {}
  /\ schema' = IF after = None THEN schema ELSE after
  /\ disturbed' = IF after = None THEN disturbed ELSE disturbed \cup Open
  /\ creator' = [creator EXCEPT ![c] = "off"]
  /\ UNCHANGED <<version, command, failed>>

Next ==
  \/ \E m \in Commands, g \in Goals : Begin(m, g)
  \/ \E m \in Commands : Check(m) \/ Migrate(m) \/ Stamp(m) \/ Commit(m) \/ Rollback(m)
  \/ \E c \in Creators : Look(c) \/ CreateOwn(c)

Spec == Init /\ [][Next]_vars

-----------------------------------------------------------------------------
(* The ORM models, and the constraints that the repositories' _raise_error *)
(* knows by name.                                                          *)

\* Columns with Mapped[...], index=True, unique=True and ForeignKey.
Orm(t, cols, others) == {Table(t)} \cup {Column(t, c) : c \in cols} \cup others
TimestampMixin == {"created_at", "updated_at"}
ResourceMixin(t) ==
  Orm(t, {"id", "name", "group_id", "description"} \cup TimestampMixin,
      {Fk(t, "group_id", "group"), Ix(t, "group_id")})

User ==
  Orm("user", {"id", "username", "email", "first_name", "last_name", "middle_name",
               "is_superuser", "is_active"} \cup TimestampMixin, {Ix("user", "username")})
Group ==
  Orm("group", {"id", "name", "description", "owner_id"} \cup TimestampMixin,
      {Uq("group", "name"), Fk("group", "owner_id", "user"), Ix("group", "owner_id"),
       Vector("group", "russian")})
UserGroup ==
  Orm("user_group", {"user_id", "group_id", "role"},
      {Fk("user_group", "user_id", "user"), Fk("user_group", "group_id", "group"),
       Ix("user_group", "user_id"), Ix("user_group", "group_id")})
Queue ==
  ResourceMixin("queue") \cup {Column("queue", "slug"), Uq("queue", "slug"),
                               Vector("queue", "russian")}
Connection ==
  ResourceMixin("connection")
  \cup {Column("connection", "type"), Column("connection", "data"),
        Uq("connection", "name_group_id"), Ix("connection", "search_vector"),
        Vector("connection", "russian")}
AuthData ==
  Orm("auth_data", {"connection_id", "value"} \cup TimestampMixin,
      {Fk("auth_data", "connection_id", "connection")})
Transfer ==
  ResourceMixin("transfer")
  \cup {Column("transfer", c) : c \in
          {"source_connection_id", "target_connection_id", "strategy_params", "source_params",
           "target_params", "transformations", "resources", "is_scheduled", "schedule",
           "queue_id"}}
  \cup {Fk("transfer", "source_connection_id", "connection"),
        Fk("transfer", "target_connection_id", "connection"),
        Fk("transfer", "queue_id", "queue"),
        Ix("transfer", "source_connection_id"), Ix("transfer", "target_connection_id"),
        Uq("transfer", "name_group_id"), Ix("transfer", "search_vector"),
        Vector("transfer", "russian")}
Run ==
  Orm("run", {"id", "transfer_id", "started_at", "ended_at", "status", "type", "log_url",
              "transfer_dump"} \cup TimestampMixin,
      {Fk("run", "transfer_id", "transfer"), Ix("run", "transfer_id"), Ix("run", "status"),
       Ix("run", "type")})
APSchedulerJob ==
  Orm("apscheduler_jobs", {"id", "next_run_time", "job_state"},
      {Ix("apscheduler_jobs", "next_run_time")})

\* ResultModelBase.metadata, which env.py compares the database with (external).
CeleryModels ==
  Orm("celery_taskmeta", {"id", "task_id", "status", "result", "date_done", "traceback", "name",
      "args", "kwargs", "worker", "retries", "queue"},
      {Uq("celery_taskmeta", "task_id"), Ix("celery_taskmeta", "date_done")})
  \cup
  Orm("celery_tasksetmeta", {"id", "taskset_id", "result", "date_done"},
      {Uq("celery_tasksetmeta", "taskset_id"), Ix("celery_tasksetmeta", "date_done")})

Models == User \cup Group \cup UserGroup \cup Queue \cup Connection \cup AuthData
          \cup Transfer \cup Run

-----------------------------------------------------------------------------
(* Properties.                                                             *)

\* Tables that only the migrations create, as far as they are in objs.
Own(objs) == {o \in objs : o[2] \in {x[2] : x \in Models}}

\* The schema that the upgrades alone build, revision by revision.
Expected[r \in Revisions] ==
  IF r = 0 THEN {} ELSE Execute(Expected[r - 1], upgrade[r])

\* The committed tables are always those of the revision that alembic_version
\* names, whatever commands were executed and in which order, upgrades also
\* beside each other, and whichever of them failed half-way.
SchemaIsAtVersion == Own(schema) = Own(Expected[version])

\* At the last revision the database is what the ORM models and Celery expect:
\* every table, column, index and constraint, no more and no less, also when
\* Celery or APScheduler had made their tables first.
HeadIsModels ==
  version = LastRevision =>
    /\ Own(schema) = Models
    /\ APSchedulerJob \cup CeleryModels \subseteq schema

\* A command fails only because somebody else wrote to the database meanwhile:
\* what a worker, a scheduler or an administrator created before it started is
\* never in its way, at any revision and after any earlier downgrade.
FailsOnlyWhenDisturbed == failed \subseteq disturbed
=============================================================================
