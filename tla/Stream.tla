------------------------------- MODULE Stream -------------------------------
(***************************************************************************)
(* The Redis stream "mdq:jobs" and its consumer group "mdq-workers", as    *)
(* the producer and the workers use them: XADD, XGROUP CREATE, XREADGROUP  *)
(* with ">", XAUTOCLAIM from "0-0" and XACK, each atomic in Redis.         *)
(*                                                                         *)
(* An entry is the position it was added at; "stream" keeps every entry    *)
(* ever added and "lost" counts those that went with a Redis data loss, so *)
(* that an id is never reused (real ids are timestamps).  Entries are      *)
(* never trimmed or deleted by the program.  The consumer an entry is      *)
(* assigned to is left out: no command used here depends on it.            *)
(***************************************************************************)
EXTENDS Integers, Sequences, FiniteSets

CONSTANT ScanLimit   \* pending entries one XAUTOCLAIM looks at (10 * COUNT)

ASSUME ScanAssumption == ScanLimit \in Nat \ {0}

VARIABLES
    stream,     \* the job named by each entry ever added
    lost,       \* entries 1..lost disappeared with a data loss
    group,      \* does the consumer group exist
    delivered,  \* the group's last-delivered entry
    pel,        \* entries delivered and not acknowledged
    idle        \* those of pel idle for minIdleTime or longer

streamVars == <<stream, lost, group, delivered, pel, idle>>

\* Without a group no entry has been delivered since the last data loss.
StreamTypeOK(Entries) ==
    /\ stream \in Seq(Entries)
    /\ lost \in 0..delivered /\ delivered \in 0..Len(stream)
    /\ group \in BOOLEAN /\ (~group => delivered = lost)
    /\ pel \subseteq (lost + 1)..delivered /\ idle \subseteq pel

StreamInit ==
    /\ stream = <<>>
    /\ lost = 0
    /\ group = FALSE
    /\ delivered = 0
    /\ pel = {}
    /\ idle = {}

XAdd(j) ==
    /\ stream' = Append(stream, j)
    /\ UNCHANGED <<lost, group, delivered, pel, idle>>

\* Mutant of XGroupCreateMkStream: start "$" instead of "0".
GroupFromTheEnd ==
    /\ group' = TRUE
    /\ delivered' = IF group THEN delivered ELSE Len(stream)
    /\ UNCHANGED <<stream, lost, pel, idle>>

\* XGROUP CREATE mdq:jobs mdq-workers 0 MKSTREAM; an existing group answers
\* BUSYGROUP and is left as it is.
XGroupCreateMkStream ==
    /\ group' = TRUE
    /\ delivered' = IF group THEN delivered ELSE lost
    /\ UNCHANGED <<stream, lost, pel, idle>>

NewEntry == delivered + 1
HasNewEntry == group /\ NewEntry \in DOMAIN stream

\* XREADGROUP ... COUNT 1 ... > hands out the next entry never delivered.
XReadGroup ==
    /\ HasNewEntry
    /\ delivered' = NewEntry
    /\ pel' = pel \cup {NewEntry}
    /\ UNCHANGED <<stream, lost, group, idle>>

\* XAUTOCLAIM ... 0-0 COUNT 1 walks the first ScanLimit pending entries and
\* claims the first one that is idle; claiming resets the idle time.
Scanned == {e \in pel : Cardinality({d \in pel : d < e}) < ScanLimit}

\* Mutant of Claimable: MinIdle is left out.
ClaimableAtOnce == {e \in Scanned : \A d \in Scanned : e <= d}
Claimable == {e \in Scanned \cap idle : \A d \in Scanned \cap idle : e <= d}

XAutoClaim(e) ==
    /\ e \in Claimable
    /\ idle' = idle \ {e}
    /\ UNCHANGED <<stream, lost, group, delivered, pel>>

XAck(e) ==
    /\ pel' = pel \ {e}
    /\ idle' = idle \ {e}
    /\ UNCHANGED <<stream, lost, group, delivered>>

\* minIdleTime passes for a pending entry.
GrowIdle(e) ==
    /\ e \in pel \ idle
    /\ idle' = idle \cup {e}
    /\ UNCHANGED <<stream, lost, group, delivered, pel>>

LoseData ==
    /\ lost' = Len(stream)
    /\ delivered' = Len(stream)
    /\ group' = FALSE
    /\ pel' = {}
    /\ idle' = {}
    /\ UNCHANGED stream

\* The entries a worker can still be handed.
LiveEntries == {e \in DOMAIN stream : e > delivered} \cup pel
=============================================================================
