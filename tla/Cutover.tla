------------------------------ MODULE Cutover ------------------------------
(***************************************************************************)
(* lifecycle_cutover.rs: the journaled change from a legacy stack to the   *)
(* new one.  Every step is an external command that may fail halfway; the  *)
(* procedure may die at any point and is then run again, from its journal. *)
(***************************************************************************)
CONSTANT Sources      \* what the manifest says is to be snapshotted

VARIABLES
    journal,          \* the stage on disk
    at,               \* the place of the running procedure, or "idle"
    source,           \* whose data each source holds
    snapshot,         \* whose data the copy of each source holds
    old, new          \* the two stacks

Stages == {"snapshot_complete", "shadow_ready", "pre_cutover_smoke_passed", "cutover_begin",
           "post_cutover_smoke_passed", "rollback_begin", "rollback_healthy", "committed"}
Places == {"idle", "snapshot", "shadow", "pre_smoke", "begin", "old_stop", "new_start",
           "post_smoke", "commit", "new_stop", "restore", "old_start", "rollback_health"}

TypeOK ==
    /\ journal \in Stages \cup {"none"} /\ at \in Places
    /\ source \in [Sources -> {"old", "new", "none"}]
    /\ snapshot \in [Sources -> {"old", "new", "none"}]
    /\ old \in BOOLEAN /\ new \in {"off", "shadow", "live"}

Init ==
    /\ journal = "none" /\ at = "idle"
    /\ source = [s \in Sources |-> "old"] /\ snapshot = [s \in Sources |-> "none"]
    /\ old = TRUE /\ new = "off"

requires_recovery ==
    journal \in {"snapshot_complete", "shadow_ready", "pre_cutover_smoke_passed",
                 "cutover_begin", "post_cutover_smoke_passed", "rollback_begin"}

\* set_stage writes the journal atomically, or fails and ends the procedure.
SetStage(stage, next) ==
    \/ journal' = stage /\ at' = next
    \/ at' = "idle" /\ UNCHANGED journal

Rollback == SetStage("rollback_begin", "new_stop")

-----------------------------------------------------------------------------
\* run_shadow_cutover: a committed cutover is left alone, one that was interrupted
\* is rolled back, and only then is a snapshot taken.
Run ==
    /\ at = "idle" /\ journal # "committed"
    /\ IF requires_recovery
       THEN Rollback /\ UNCHANGED snapshot
       ELSE /\ at' = "snapshot" /\ UNCHANGED journal
            /\ snapshot' = [s \in Sources |-> "none"]
    /\ UNCHANGED <<source, old, new>>

\* create_snapshot copies the sources one after the other; a source that is gone ends it.
CopySource ==
    /\ at = "snapshot"
    /\ \E s \in Sources :
        /\ snapshot[s] = "none"
        /\ \/ source[s] # "none" /\ snapshot' = [snapshot EXCEPT ![s] = source[s]] /\ UNCHANGED at
           \/ at' = "idle" /\ UNCHANGED snapshot
    /\ UNCHANGED <<journal, source, old, new>>

SnapshotComplete ==
    /\ at = "snapshot" /\ \A s \in Sources : snapshot[s] # "none"
    /\ SetStage("snapshot_complete", "shadow")
    /\ UNCHANGED <<source, snapshot, old, new>>

StartShadow ==
    /\ at = "shadow"
    /\ \/ new' = "shadow" /\ SetStage("shadow_ready", "pre_smoke")
       \/ new' \in {"off", "shadow"} /\ Rollback
    /\ UNCHANGED <<source, snapshot, old>>

PreCutoverSmoke ==
    /\ at = "pre_smoke"
    /\ SetStage("pre_cutover_smoke_passed", "begin") \/ Rollback
    /\ UNCHANGED <<source, snapshot, old, new>>

CutoverBegin ==
    /\ at = "begin" /\ SetStage("cutover_begin", "old_stop")
    /\ UNCHANGED <<source, snapshot, old, new>>

StopOld ==
    /\ at = "old_stop"
    /\ \/ old' = FALSE /\ at' = "new_start" /\ UNCHANGED journal
       \/ old' \in {FALSE, old} /\ Rollback
    /\ UNCHANGED <<source, snapshot, new>>

StartNew ==
    /\ at = "new_start"
    /\ \/ new' = "live" /\ at' = "post_smoke" /\ UNCHANGED journal
       \/ new' \in {new, "live"} /\ Rollback
    /\ UNCHANGED <<source, snapshot, old>>

PostCutoverSmoke ==
    /\ at = "post_smoke"
    /\ SetStage("post_cutover_smoke_passed", "commit") \/ Rollback
    /\ UNCHANGED <<source, snapshot, old, new>>

Commit ==
    /\ at = "commit" /\ SetStage("committed", "idle")
    /\ UNCHANGED <<source, snapshot, old, new>>

-----------------------------------------------------------------------------
\* rollback: any step that fails ends the procedure, to be taken up by the next run.
StopNew ==
    /\ at = "new_stop"
    /\ \/ new' = "off" /\ at' = "restore"
       \/ new' \in {"off", new} /\ at' = "idle"
    /\ UNCHANGED <<journal, source, snapshot, old>>

\* restore_snapshot, one source after the other: first removed, then copied back.
RestoreSource ==
    /\ at = "restore"
    /\ \E s \in Sources :
        \/ source' = [source EXCEPT ![s] = snapshot[s]] /\ UNCHANGED at
        \/ source' \in {source, [source EXCEPT ![s] = "none"]} /\ at' = "idle"
    /\ UNCHANGED <<journal, snapshot, old, new>>

\* A slip for the sensitivity check: the old stack is started after the first source.
RestoredOne ==
    /\ at = "restore" /\ \E s \in Sources : source[s] = snapshot[s]
    /\ at' = "old_start" /\ UNCHANGED <<journal, source, snapshot, old, new>>

Restored ==
    /\ at = "restore" /\ source = snapshot
    /\ at' = "old_start" /\ UNCHANGED <<journal, source, snapshot, old, new>>

StartOld ==
    /\ at = "old_start"
    /\ \/ old' = TRUE /\ at' = "rollback_health"
       \/ old' \in {old, TRUE} /\ at' = "idle"
    /\ UNCHANGED <<journal, source, snapshot, new>>

\* A recovery goes on with a fresh attempt; the rollback of a failed one ends it.
RollbackHealthy ==
    /\ at = "rollback_health"
    /\ \/ /\ journal' = "rollback_healthy"
          /\ \/ at' = "idle" /\ UNCHANGED snapshot
             \/ at' = "snapshot" /\ snapshot' = [s \in Sources |-> "none"]
       \/ at' = "idle" /\ UNCHANGED <<journal, snapshot>>
    /\ UNCHANGED <<source, old, new>>

-----------------------------------------------------------------------------
Crash == at # "idle" /\ at' = "idle" /\ UNCHANGED <<journal, source, snapshot, old, new>>

\* A stack that is live writes its data.
OldWrites == old /\ \E s \in Sources :
    source[s] # "none" /\ source' = [source EXCEPT ![s] = "old"]
    /\ UNCHANGED <<journal, at, snapshot, old, new>>
NewWrites == new = "live" /\ \E s \in Sources :
    source' = [source EXCEPT ![s] = "new"] /\ UNCHANGED <<journal, at, snapshot, old, new>>

Next ==
    \/ Run \/ CopySource \/ SnapshotComplete \/ StartShadow \/ PreCutoverSmoke
    \/ CutoverBegin \/ StopOld \/ StartNew \/ PostCutoverSmoke \/ Commit
    \/ StopNew \/ RestoreSource \/ Restored \/ StartOld \/ RollbackHealthy
    \/ Crash \/ OldWrites \/ NewWrites

Spec == Init /\ [][Next]_<<journal, at, source, snapshot, old, new>>

-----------------------------------------------------------------------------
\* The two stacks never serve together, wherever commands fail and the procedure dies.
OneStackIsLive == ~(old /\ new = "live")

\* The journal promises that there is a way back: as long as it names a stage that a
\* run would roll back, the snapshot holds all the old stack's data, and none of the
\* new one's.
SnapshotIsTheOldData ==
    requires_recovery => \A s \in Sources : snapshot[s] = "old"

\* A stack that is told to be healthy after a rollback runs on its own data.
RolledBackIsTheOldData ==
    journal = "rollback_healthy" => old /\ \A s \in Sources : source[s] = "old"

\* A cutover can be taken back, wherever a command fails and the procedure dies.
CutoverIsReversible == OneStackIsLive /\ SnapshotIsTheOldData /\ RolledBackIsTheOldData
=============================================================================
