------------------------------ MODULE Startup ------------------------------
(***************************************************************************)
(* How a database comes to its schema: the server, and the one-time job    *)
(* that runs the API binary with -migrate (cmd/api/main.go, internal/db/   *)
(* migrate.go, infra/k8s/base), started at the same time.  golang-migrate  *)
(* is external: it notes a version as dirty, runs its file in one          *)
(* transaction, notes the version as clean, and refuses to go on from a    *)
(* dirty one.                                                              *)
(***************************************************************************)
EXTENDS Integers, FiniteSets

CONSTANTS
    Latest,         \* number of files in internal/db/migrations
    MaxAttempts,    \* failures of the job before it is given up
    Keeps,          \* does a restart keep the database's files: it does with the
                    \* volume of docker-compose.yml, and not in infra/k8s
    MaxKills, MaxRestarts   \* bounds on what is killed and restarted

ASSUME StartupAssumption ==
    /\ Latest \in Nat /\ MaxAttempts \in Nat \ {0} /\ Keeps \subseteq BOOLEAN
    /\ MaxKills \in Nat /\ MaxRestarts \in Nat

VARIABLES
    up,         \* does the database accept connections
    tables,     \* the migrations whose statements have been executed
    version, dirty,     \* schema_migrations
    job,        \* where the job is
    attempts,   \* how often it has failed
    wiped,      \* has the database started empty after the job (history)
    kills, restarts

database == <<up, tables, version, dirty, wiped, restarts>>
migration == <<job, attempts, kills>>
vars == <<database, migration>>

Connected == {"read", "mark", "run", "clean", "unlock"}
JobState == Connected \cup {"connect", "broken", "succeeded", "gaveUp"}

Init ==
    /\ up = FALSE /\ tables = {} /\ version = 0 /\ dirty = FALSE
    /\ job = "connect" /\ attempts = 0
    /\ wiped = FALSE /\ kills = 0 /\ restarts = 0
-----------------------------------------------------------------------------
\* The database.

DatabaseStarts ==
    /\ ~up /\ up' = TRUE
    /\ UNCHANGED <<tables, version, dirty, wiped, restarts, migration>>

\* The container is restarted: connections break, and the database is empty
\* unless its files are kept.
DatabaseRestarts(keeps) ==
    /\ up /\ restarts < MaxRestarts
    /\ up' = FALSE /\ restarts' = restarts + 1
    /\ job' = IF job \in Connected THEN "broken" ELSE job
    /\ IF keeps
       THEN UNCHANGED <<tables, version, dirty, wiped>>
       ELSE /\ tables' = {} /\ version' = 0 /\ dirty' = FALSE
            /\ wiped' = (wiped \/ job = "succeeded")
    /\ UNCHANGED <<attempts, kills>>
-----------------------------------------------------------------------------
\* The migration job: RunMigrations, whose errors end the process, which the
\* platform then starts again.

AttemptFails ==
    /\ attempts' = attempts + 1
    /\ job' = IF attempts + 1 >= MaxAttempts THEN "gaveUp" ELSE "connect"

Step(from, to) == job = from /\ job' = to /\ UNCHANGED <<attempts, kills>>

\* migrate.NewWithSourceInstance.
Connect ==
    /\ \/ up /\ Step("connect", "read")
       \/ job = "connect" /\ ~up /\ AttemptFails /\ UNCHANGED kills
    /\ UNCHANGED database

\* An error from a connection that the database's restart has broken.
Broken ==
    /\ job = "broken" /\ AttemptFails
    /\ UNCHANGED <<database, kills>>

\* Mutant of ReadVersion: a dirty version is run again.
ReadVersionForced ==
    /\ \/ dirty /\ Step("read", "run")
       \/ ~dirty /\ version < Latest /\ Step("read", "mark")
       \/ ~dirty /\ version = Latest /\ Step("read", "unlock")
    /\ UNCHANGED database

\* Mutant of ReadVersion: being dirty is overlooked.
ReadVersionLax ==
    /\ \/ version < Latest /\ Step("read", "mark")
       \/ version = Latest /\ Step("read", "unlock")
    /\ UNCHANGED database

\* Up: nothing to do is a success (ErrNoChange), a dirty version an error.
ReadVersion ==
    /\ \/ dirty /\ job = "read" /\ AttemptFails /\ UNCHANGED kills
       \/ ~dirty /\ version < Latest /\ Step("read", "mark")
       \/ ~dirty /\ version = Latest /\ Step("read", "unlock")
    /\ UNCHANGED database

\* Mutant of Mark: the version is not noted as dirty.
MarkClean ==
    /\ Step("mark", "run")
    /\ version' = version + 1
    /\ UNCHANGED <<up, tables, dirty, wiped, restarts>>

Mark ==
    /\ Step("mark", "run")
    /\ version' = version + 1 /\ dirty' = TRUE
    /\ UNCHANGED <<up, tables, wiped, restarts>>

Run ==
    /\ Step("run", "clean")
    /\ tables' = tables \cup {version}
    /\ UNCHANGED <<up, version, dirty, wiped, restarts>>

\* Mutant of Clean: one version too many.
CleanTooFar ==
    /\ Step("clean", IF version <= Latest THEN "mark" ELSE "unlock")
    /\ dirty' = FALSE
    /\ UNCHANGED <<up, tables, version, wiped, restarts>>

Clean ==
    /\ Step("clean", IF version < Latest THEN "mark" ELSE "unlock")
    /\ dirty' = FALSE
    /\ UNCHANGED <<up, tables, version, wiped, restarts>>

\* Up gives the lock back, RunMigrations returns nil, the process exits with 0.
Unlock ==
    /\ Step("unlock", "succeeded")
    /\ UNCHANGED database

\* The pod is killed, out of memory or with its node.
KillJob ==
    /\ job \in Connected /\ kills < MaxKills
    /\ kills' = kills + 1
    /\ AttemptFails
    /\ UNCHANGED database
-----------------------------------------------------------------------------
Migrate == Connect \/ Broken \/ ReadVersion \/ Mark \/ Run \/ Clean \/ Unlock

Next ==
    \/ DatabaseStarts \/ Migrate \/ KillJob
    \/ \E keeps \in Keeps : DatabaseRestarts(keeps)

Spec == Init /\ [][Next]_vars
-----------------------------------------------------------------------------
\* Every variable has a value the program can give it: the version is that of
\* a file, and the job is never told to fail again once it is given up.
TypeOK ==
    /\ up \in BOOLEAN /\ dirty \in BOOLEAN /\ wiped \in BOOLEAN
    /\ tables \subseteq 1..Latest /\ version \in 0..Latest
    /\ job \in JobState
    /\ attempts \in 0..MaxAttempts /\ (job = "gaveUp" <=> attempts = MaxAttempts)
    /\ kills \in 0..MaxKills /\ restarts \in 0..MaxRestarts

\* When the job has succeeded every file has been executed, however often it
\* was killed or lost its connection on the way -- unless the database has
\* come back empty since: nothing runs the job again.
SuccessMeansMigrated ==
    job = "succeeded" /\ ~wiped => tables = 1..Latest /\ ~dirty

\* No file is executed twice: a second CREATE TYPE job_status, or ADD COLUMN
\* user_id, would fail.
EachMigrationOnce == job = "run" => version \notin tables

\* The files have been executed in their order, none left out, and the last
\* one is in doubt only while the version is dirty.
NoGaps ==
    /\ tables \in {1..version, 1..(version - 1)}
    /\ ~dirty => tables = 1..version
=============================================================================
