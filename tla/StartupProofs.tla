--------------------------- MODULE StartupProofs ---------------------------
(***************************************************************************)
(* Theorems about the migration job for any number of files, attempts,     *)
(* kills and restarts of the database.                                     *)
(***************************************************************************)
EXTENDS Startup, TLAPS
-----------------------------------------------------------------------------
LEMMA EmptyRange == {} = 1..0
OBVIOUS

\* What the job knows at each of its steps: which files have been executed,
\* and that the mark tells the truth about the last one.
JobKnows ==
    /\ job = "mark" => ~dirty /\ version < Latest
    /\ job = "run" => dirty /\ version >= 1 /\ tables = 1..(version - 1)
    /\ job = "clean" => dirty /\ tables = 1..version
    /\ job = "unlock" \/ (job = "succeeded" /\ ~wiped) => ~dirty /\ version = Latest

StartupInv == TypeOK /\ NoGaps /\ JobKnows

LEMMA AttemptKeepsType ==
    ASSUME attempts \in 0..MaxAttempts, job # "gaveUp",
           job = "gaveUp" <=> attempts = MaxAttempts, AttemptFails
    PROVE  /\ attempts' \in 0..MaxAttempts
           /\ job' = "gaveUp" <=> attempts' = MaxAttempts
           /\ job' \in {"connect", "gaveUp"}
BY StartupAssumption DEF AttemptFails

LEMMA StartupStep == StartupInv /\ [Next]_vars => StartupInv'
<1> SUFFICES ASSUME StartupInv, [Next]_vars PROVE StartupInv'
  OBVIOUS
<1> USE StartupAssumption DEF StartupInv, JobState, Connected
<1>1. CASE UNCHANGED vars
  BY <1>1 DEF vars, database, migration, TypeOK, NoGaps, JobKnows
<1>2. CASE DatabaseStarts
  BY <1>2 DEF DatabaseStarts, migration, TypeOK, NoGaps, JobKnows
<1>3. ASSUME NEW keeps \in Keeps, DatabaseRestarts(keeps) PROVE StartupInv'
  <2>1. up' = FALSE /\ restarts' \in 0..MaxRestarts /\ UNCHANGED <<attempts, kills>>
        /\ job' = (IF job \in Connected THEN "broken" ELSE job)
    BY <1>3 DEF DatabaseRestarts, TypeOK
  <2>2. CASE keeps
    <3>1. UNCHANGED <<tables, version, dirty, wiped>>
      BY <1>3, <2>2 DEF DatabaseRestarts
    <3> QED BY <2>1, <3>1 DEF TypeOK, NoGaps, JobKnows
  <2>3. CASE ~keeps
    <3>1. tables' = {} /\ version' = 0 /\ dirty' = FALSE
          /\ wiped' = (wiped \/ job = "succeeded")
      BY <1>3, <2>3 DEF DatabaseRestarts
    <3>2. tables' = 1..version'
      BY <3>1, EmptyRange
    <3>3. TypeOK'
      <4>1. job' \in JobState /\ (job' = "gaveUp" <=> job = "gaveUp")
        BY <2>1 DEF TypeOK
      <4>2. version' \in 0..Latest /\ tables' \subseteq 1..Latest
        BY <3>1
      <4>3. up' \in BOOLEAN /\ dirty' \in BOOLEAN /\ wiped' \in BOOLEAN
        BY <2>1, <3>1
      <4> QED BY <2>1, <4>1, <4>2, <4>3 DEF TypeOK
    <3>4. NoGaps'
      BY <3>2 DEF NoGaps
    <3>5. JobKnows'
      BY <2>1, <3>1 DEF JobKnows
    <3> QED BY <3>3, <3>4, <3>5
  <2> QED BY <2>2, <2>3
<1>4. CASE AttemptFails /\ job # "gaveUp" /\ kills' \in 0..MaxKills /\ UNCHANGED database
  BY <1>4, AttemptKeepsType DEF TypeOK, NoGaps, JobKnows, database
<1>5. CASE Connect \/ Broken
  <2>1. CASE up /\ Step("connect", "read") /\ UNCHANGED database
    BY <2>1 DEF Step, TypeOK, NoGaps, JobKnows, database
  <2> QED BY <1>4, <1>5, <2>1 DEF Connect, Broken, TypeOK
<1>6. CASE ReadVersion
  <2>1. CASE ~dirty /\ version < Latest /\ Step("read", "mark") /\ UNCHANGED database
    BY <2>1 DEF Step, TypeOK, NoGaps, JobKnows, database
  <2>2. CASE ~dirty /\ version = Latest /\ Step("read", "unlock") /\ UNCHANGED database
    BY <2>2 DEF Step, TypeOK, NoGaps, JobKnows, database
  <2> QED BY <1>4, <1>6, <2>1, <2>2 DEF ReadVersion, TypeOK
<1>7. CASE Mark
  <2>1. version' = version + 1 /\ dirty' = TRUE /\ tables' = tables /\ job' = "run"
        /\ version < Latest /\ tables = 1..version
    BY <1>7 DEF Mark, Step, NoGaps, JobKnows
  <2>2. tables' = 1..(version' - 1)
    BY <2>1 DEF TypeOK
  <2> QED BY <1>7, <2>1, <2>2 DEF Mark, Step, TypeOK, NoGaps, JobKnows
<1>8. CASE Run
  <2>1. tables' = tables \cup {version} /\ tables = 1..(version - 1) /\ version >= 1
        /\ dirty /\ job' = "clean" /\ UNCHANGED <<version, dirty>>
    BY <1>8 DEF Run, Step, JobKnows
  <2>2. tables' = 1..version'
    BY <2>1 DEF TypeOK
  <2> QED BY <1>8, <2>1, <2>2 DEF Run, Step, TypeOK, NoGaps, JobKnows
<1>9. CASE Clean
  <2>1. job = "clean" /\ dirty' = FALSE /\ tables = 1..version
        /\ UNCHANGED <<up, tables, version, wiped, restarts, attempts, kills>>
        /\ job' = (IF version < Latest THEN "mark" ELSE "unlock")
    BY <1>9 DEF Clean, Step, JobKnows
  <2>2. CASE version < Latest
    BY <2>1, <2>2 DEF TypeOK, NoGaps, JobKnows
  <2>3. CASE ~(version < Latest)
    <3>1. version = Latest /\ job' = "unlock"
      BY <2>1, <2>3 DEF TypeOK
    <3>2. TypeOK'
      BY <2>1, <3>1 DEF TypeOK
    <3>3. NoGaps' /\ JobKnows'
      BY <2>1, <3>1 DEF NoGaps, JobKnows
    <3> QED BY <3>2, <3>3
  <2> QED BY <2>2, <2>3
<1>10. CASE Unlock
  BY <1>10 DEF Unlock, Step, database, TypeOK, NoGaps, JobKnows
<1>11. CASE KillJob
  BY <1>4, <1>11 DEF KillJob, TypeOK
<1> QED BY <1>1, <1>2, <1>3, <1>5, <1>6, <1>7, <1>8, <1>9, <1>10, <1>11 DEF Next, Migrate

LEMMA StartupInit == Init => StartupInv
<1> SUFFICES ASSUME Init PROVE StartupInv
  OBVIOUS
<1>1. TypeOK
  <2>1. 0 \in 0..MaxAttempts /\ 0 # MaxAttempts /\ 0 \in 0..Latest
        /\ 0 \in 0..MaxKills /\ 0 \in 0..MaxRestarts
    BY StartupAssumption
  <2>2. up \in BOOLEAN /\ dirty \in BOOLEAN /\ wiped \in BOOLEAN /\ tables \subseteq 1..Latest
    BY DEF Init
  <2> QED BY <2>1, <2>2 DEF Init, TypeOK, JobState
<1>2. NoGaps /\ JobKnows
  BY EmptyRange DEF Init, NoGaps, JobKnows
<1> QED BY <1>1, <1>2 DEF StartupInv

LEMMA StartupInvariant == Spec => []StartupInv
<1>1. StartupInv /\ [Next]_vars => StartupInv'
  BY StartupStep
<1> QED BY <1>1, StartupInit, PTL DEF Spec

\* The migration's bookkeeping has its types: the version is a file's, and the
\* job fails at most as often as the platform tries it (RunMigrations).
THEOREM MigrationTypes == Spec => []TypeOK
<1>1. StartupInv => TypeOK
  BY DEF StartupInv
<1> QED BY <1>1, StartupInvariant, PTL

\* Files are executed in their order and none is left out, wherever the job is
\* killed and whenever its connection breaks (RunMigrations).
THEOREM NoFileLeftOut == Spec => []NoGaps
<1>1. StartupInv => NoGaps
  BY DEF StartupInv
<1> QED BY <1>1, StartupInvariant, PTL

\* No file is executed twice (RunMigrations: an error for a dirty version).
THEOREM NoFileTwice == Spec => []EachMigrationOnce
<1>1. StartupInv => EachMigrationOnce
  BY DEF StartupInv, JobKnows, TypeOK, EachMigrationOnce
<1> QED BY <1>1, StartupInvariant, PTL

\* A job that exits with 0 has executed every file (main: -migrate).
THEOREM SuccessIsTrue == Spec => []SuccessMeansMigrated
<1>1. StartupInv => SuccessMeansMigrated
  BY DEF StartupInv, JobKnows, NoGaps, SuccessMeansMigrated
<1> QED BY <1>1, StartupInvariant, PTL
=============================================================================
