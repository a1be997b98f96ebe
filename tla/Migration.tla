------------------------------ MODULE Migration ------------------------------
(***************************************************************************)
(* Schema migrations (migration.py) and the start of the server            *)
(* (api_server.py), which first lets AgentWorkflowDB create what is        *)
(* missing (agent_workflow.py).                                            *)
(*                                                                         *)
(* The schema is the set of tables and columns that exist.  A migration    *)
(* adds objects; it is guarded (IF NOT EXISTS, a look at table_info) or    *)
(* not.  The process may be killed between two commits, not inside one of  *)
(* the scripts.                                                            *)
(***************************************************************************)
EXTENDS Naturals, Sequences, FiniteSetsExt

CONSTANTS
    MIGRATIONS,   \* in the order of the list: version, what it adds, what its up and its down
                  \* need, is it guarded?
    Steps,        \* the table wf_steps
    StepColumns,  \* columns wf_steps gets only when it is created
    Ensured,      \* everything else AgentWorkflowDB() creates when it is missing
    Tracking,     \* the table schema_versions
    MaxKills,     \* bound: processes killed
    MaxRollbacks  \* bound: rollbacks

Indices == DOMAIN MIGRATIONS
Adds(i) == MIGRATIONS[i].adds
Version(i) == MIGRATIONS[i].version

\* Migrations whose objects nothing else creates in a database that has wf_steps.
AddsAlone(i) == ~(Adds(i) \subseteq Ensured \union {Tracking})

\* An object is added by one migration.  Versions may repeat and be out of order in the list,
\* but not that of a migration which adds alone.
ASSUME MigrationAssumption ==
    /\ Indices = 1..Len(MIGRATIONS) /\ Len(MIGRATIONS) \in Nat
    /\ \A i \in Indices : Version(i) \in Nat \ {0} /\ (Tracking \in Adds(i) <=> Version(i) = 1)
    /\ \A i, j \in Indices :
          /\ i # j => Adds(i) \intersect Adds(j) = {}
          /\ AddsAlone(i) /\ j < i => Version(j) < Version(i)
          /\ AddsAlone(i) /\ i < j => Version(i) < Version(j)
    /\ Steps \in Ensured /\ \A i \in Indices : Steps \notin Adds(i)
    /\ StepColumns \subseteq UNION {Adds(i) : i \in Indices}
    /\ Tracking \notin Ensured \union StepColumns
    /\ {MaxKills, MaxRollbacks} \subseteq Nat

VARIABLES
    schema,      \* the objects in the database
    versions,    \* the rows of schema_versions
    pc,          \* where the process is
    todo,        \* indices of the migrations it has still to go through
    blocked,     \* did a start end in an exception, with no rollback since?
    kills, rollbacks

migrationVars == <<schema, versions, pc, todo, blocked, kills, rollbacks>>

\* What an older release left, whose last migration was the given one: none for no database.
LeftBy(last) == {i \in Indices : Version(i) <= last}

MigrationInit ==
    /\ \E last \in {0} \union {Version(i) : i \in Indices} :
          /\ versions = {Version(i) : i \in LeftBy(last)}
          /\ schema = (UNION {Adds(i) : i \in LeftBy(last)})
                        \union (IF last = 0 THEN {} ELSE Ensured)
    /\ pc = "down" /\ todo = {} /\ blocked = FALSE
    /\ kills = 0 /\ rollbacks = 0

Current == Max({0} \union versions)

(***************************************************************************)
(* Starting the server                                                     *)
(***************************************************************************)

\* Mutant: the schema is left to the migrations.
ImportBare ==
    /\ pc = "down"
    /\ schema' = schema \union {Steps, Tracking}
    /\ pc' = "starting"
    /\ UNCHANGED <<versions, todo, blocked, kills, rollbacks>>

\* Importing the module creates the executor's tables; startup() then init_db() and
\* ensure_meta_schema().
Import ==
    /\ pc = "down"
    /\ schema' = schema \union Ensured \union {Tracking}
                   \union (IF Steps \in schema THEN {} ELSE StepColumns)
    /\ pc' = "starting"
    /\ UNCHANGED <<versions, todo, blocked, kills, rollbacks>>

\* get_pending_migrations(): newer than the newest row.
Plan ==
    /\ pc = "starting"
    /\ todo' = {i \in Indices : Version(i) > Current}
    /\ pc' = "up"
    /\ UNCHANGED <<schema, versions, blocked, kills, rollbacks>>

\* They are sorted by version, twins in the order of the list.
SortedBefore(i, j) == Version(i) < Version(j) \/ (Version(i) = Version(j) /\ i <= j)
Oldest == CHOOSE i \in todo : \A j \in todo : SortedBefore(i, j)

Needs(i) == MIGRATIONS[i].needs

Applicable(i) ==
    /\ Needs(i) \subseteq schema
    /\ MIGRATIONS[i].guarded \/ Adds(i) \intersect schema = {}

\* migration["up"]() commits.
Up ==
    /\ pc = "up" /\ todo # {}
    /\ Applicable(Oldest)
    /\ schema' = schema \union Adds(Oldest)
    /\ pc' = "record"
    /\ UNCHANGED <<versions, todo, blocked, kills, rollbacks>>

\* "duplicate column name": the exception leaves startup(), and the server does not start.
UpRaises ==
    /\ pc = "up" /\ todo # {}
    /\ ~Applicable(Oldest)
    /\ pc' = "down" /\ todo' = {}
    /\ blocked' = TRUE
    /\ UNCHANGED <<schema, versions, kills, rollbacks>>

\* INSERT OR IGNORE of the version, and its commit
Record ==
    /\ pc = "record"
    /\ versions' = versions \union {Version(Oldest)}
    /\ todo' = todo \ {Oldest}
    /\ pc' = "up"
    /\ UNCHANGED <<schema, blocked, kills, rollbacks>>

Serve ==
    /\ pc = "up" /\ todo = {}
    /\ pc' = "serving"
    /\ UNCHANGED <<schema, versions, todo, blocked, kills, rollbacks>>

Stop ==
    /\ pc = "serving"
    /\ pc' = "down"
    /\ UNCHANGED <<schema, versions, todo, blocked, kills, rollbacks>>

(***************************************************************************)
(* rollback(), called by an operator while the server is down              *)
(***************************************************************************)

\* Every migration above the target, applied or not.
Rollback(target) ==
    /\ pc = "down" /\ Tracking \in schema /\ target < Current
    /\ rollbacks < MaxRollbacks
    /\ rollbacks' = rollbacks + 1
    /\ todo' = {i \in Indices : Version(i) > target}
    /\ pc' = "delete"
    /\ blocked' = FALSE
    /\ UNCHANGED <<schema, versions, kills>>

\* They are undone from the end of the list.
Last == Max(todo)

\* Mutant: the row of the version stays.
DeleteNothing ==
    /\ pc = "delete" /\ todo # {}
    /\ pc' = "undo"
    /\ UNCHANGED <<schema, versions, todo, blocked, kills, rollbacks>>

\* DELETE of the row: the script of down() commits it before it runs.
DeleteVersion ==
    /\ pc = "delete" /\ todo # {}
    /\ versions' = versions \ {Version(Last)}
    /\ pc' = "undo"
    /\ UNCHANGED <<schema, todo, blocked, kills, rollbacks>>

\* What the script of down() reads: the table it rebuilds and the columns it copies.
Copies(i) == MIGRATIONS[i].copies

\* migration["down"](): the last one drops schema_versions with all rows.
Undo ==
    /\ pc = "undo" /\ Copies(Last) \subseteq schema
    /\ schema' = schema \ Adds(Last)
    /\ versions' = IF Tracking \in Adds(Last) THEN {} ELSE versions
    /\ todo' = todo \ {Last}
    /\ pc' = "delete"
    /\ UNCHANGED <<blocked, kills, rollbacks>>

\* "no such table", "no such column": a rollback that was cut short, or an earlier one, had
\* already dropped what is to be copied.
UndoRaises ==
    /\ pc = "undo" /\ ~(Copies(Last) \subseteq schema)
    /\ pc' = "down" /\ todo' = {}
    /\ UNCHANGED <<schema, versions, blocked, kills, rollbacks>>

EndRollback ==
    /\ pc = "delete" /\ todo = {}
    /\ pc' = "down"
    /\ UNCHANGED <<schema, versions, todo, blocked, kills, rollbacks>>

Kill ==
    /\ pc # "down"
    /\ kills < MaxKills
    /\ kills' = kills + 1
    /\ pc' = "down" /\ todo' = {}
    /\ UNCHANGED <<schema, versions, blocked, rollbacks>>

MigrationNext ==
    \/ Import \/ Plan \/ Up \/ UpRaises \/ Record \/ Serve \/ Stop
    \/ \E i \in Indices : Rollback(Version(i) - 1)
    \/ DeleteVersion \/ Undo \/ UndoRaises \/ EndRollback
    \/ Kill

MigrationSpec == MigrationInit /\ [][MigrationNext]_migrationVars

(***************************************************************************)
(* Properties                                                              *)
(***************************************************************************)

Objects == Ensured \union StepColumns \union {Tracking} \union (UNION {Adds(i) : i \in Indices})

\* The type invariant.
MigrationTypeOK ==
    /\ schema \subseteq Objects
    /\ versions \subseteq {Version(i) : i \in Indices}
    /\ pc \in {"down", "starting", "up", "record", "serving", "delete", "undo"}
    /\ todo \subseteq Indices
    /\ pc \in {"record", "undo"} => todo # {}
    /\ blocked \in BOOLEAN
    /\ kills \in 0..MaxKills /\ rollbacks \in 0..MaxRollbacks

\* Two migrations of one version share a row.
HasTwin(i) == \E j \in Indices \ {i} : Version(j) = Version(i)

\* Whenever the process is killed, in a start or a rollback, a recorded version has what its
\* migration added: the row comes after the objects and goes before them (migration.py:71, :97).
RecordedMigrationsRan ==
    \A i \in Indices : Version(i) \in versions /\ ~HasTwin(i) => Adds(i) \subseteq schema

\* A server that serves has every table and column, although a version below the newest row may
\* be missing after a rollback was cut short: 6 stands before 5 in the list (migration.py:277).
ServedSchemaIsWhole == pc = "serving" => Objects \subseteq schema

\* What api_server.py:230 says of migrations, that they add to the ensure_schema() calls: no
\* start fails as long as no process was killed.
StartsSucceed == kills = 0 => ~blocked
=============================================================================
