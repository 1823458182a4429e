------------------------------- MODULE Lifecycle -------------------------------
(***************************************************************************)
(* One run of the process, from the bind of the HTTP listener to the exit  *)
(* (src/src/main.rs): the boot task that hydrates the stores and then      *)
(* ingests, the periodic prune and snapshot tasks, and the shutdown        *)
(* sequence.  They share the save slot (a first-come, first-served async   *)
(* mutex taken by blocking jobs) and the flag hydration_completed.         *)
(*                                                                         *)
(* Stores are what of the snapshot file found at boot they hold; the       *)
(* cursor is the resume point they are saved with.  Ingestion is enabled   *)
(* and is one step per cursor advance: IngestPipeline takes it apart.      *)
(***************************************************************************)
EXTENDS Integers, Sequences, SequencesExt

CONSTANTS
  MaxCursor,       \* bound on cursors
  BackfillStarts   \* the replay starts a boot may compute; 0 is the live head

ASSUME LifecycleAssumption ==
  MaxCursor \in Nat /\ BackfillStarts \subseteq 0..MaxCursor /\ BackfillStarts # {}

NoCursor == 0
Jobs == {"hydrate", "compact", "prune", "snapshot", "final"}

VARIABLES
  main,                 \* "up", "draining", "saving", "closing" or "exited"
  aborted,              \* abort_all has been called
  boot,                 \* where the boot task stands
  pruning, checkpointing, \* the periodic tasks: "wait", "job" or "done"
  job,                  \* blocking job -> "none", "spawned", "queued", "ended"
  slot,                 \* snapshot_save_slot: its holder, then the waiters
  hydration_completed,
  restored_cursor,      \* what the hydration returned
  store,                \* "none", "part" or "all" of the file found at boot
  latest,               \* latest_cursor_us
  captured,             \* job -> the cursor it was given
  disk,                 \* the snapshot file
  load_failed,          \* the load returned an error
  final_written         \* the final save has renamed its file

tasks == <<boot, pruning, checkpointing>>
jobs == <<job, slot, captured>>
memory == <<hydration_completed, restored_cursor, store, latest, load_failed>>
shutdown == <<main, aborted>>
file == <<disk, final_written>>
vars == <<tasks, jobs, memory, shutdown, file>>

Cancelled == main # "up"
Larger(a, b) == IF a > b THEN a ELSE b
-----------------------------------------------------------------------------
(* The listener is up and the boot task has spawned its hydration.  With   *)
(* no file there is nothing to hydrate, and the flag is set from the start. *)
Init ==
  /\ main = "up" /\ aborted = FALSE /\ final_written = FALSE
  /\ boot = "hydrate" /\ pruning = "wait" /\ checkpointing = "wait"
  /\ job = [j \in Jobs |-> IF j = "hydrate" THEN "spawned" ELSE "none"]
  /\ slot = <<>>
  /\ captured = [j \in Jobs |-> NoCursor]
  /\ \E exists \in BOOLEAN, cursor \in 0..(MaxCursor - 1) :
       /\ disk = [exists |-> exists, data |-> "all",
                  cursor |-> IF exists THEN cursor ELSE NoCursor]
       /\ hydration_completed = ~exists
       /\ store = IF exists THEN "none" ELSE "all"
  /\ restored_cursor = NoCursor /\ latest = NoCursor
  /\ load_failed = FALSE

Spawn(j, cursor) ==
  /\ job' = [job EXCEPT ![j] = "spawned"]
  /\ captured' = [captured EXCEPT ![j] = cursor]
  /\ UNCHANGED slot

(* blocking_lock: a job whose thread has started waits its turn.           *)
Enqueue(j) ==
  /\ main # "exited" /\ job[j] = "spawned"
  /\ job' = [job EXCEPT ![j] = "queued"]
  /\ slot' = Append(slot, j)
  /\ UNCHANGED <<tasks, captured, memory, shutdown, file>>

Holds(j) == slot # <<>> /\ Head(slot) = j

(* Mutant: the guard outlives the closure.                                 *)
Release_Leak(j) ==
  /\ Holds(j) /\ job[j] = "queued"
  /\ job' = [job EXCEPT ![j] = "ended"]
  /\ UNCHANGED <<slot, captured>>

(* The closure returns and its guard is dropped.                           *)
Release(j) ==
  /\ Holds(j) /\ job[j] = "queued"
  /\ job' = [job EXCEPT ![j] = "ended"]
  /\ slot' = Tail(slot)
  /\ UNCHANGED captured
-----------------------------------------------------------------------------
(* The first section of the file has reached the stores.                   *)
LoadSome ==
  /\ Holds("hydrate") /\ job["hydrate"] = "queued" /\ store = "none"
  /\ store' = "part"
  /\ UNCHANGED <<tasks, jobs, shutdown, file>>
  /\ UNCHANGED <<hydration_completed, restored_cursor, latest, load_failed>>

(* The load returns: everything; or an error, after which the process goes *)
(* on with what there is; or there was no file.                            *)
EndHydrate ==
  /\ Release("hydrate")
  /\ \/ /\ disk.exists /\ store # "none"
        /\ store' = "all" /\ restored_cursor' = disk.cursor
        /\ UNCHANGED load_failed
     \/ /\ disk.exists
        /\ load_failed' = TRUE
        /\ UNCHANGED <<store, restored_cursor>>
     \/ /\ ~disk.exists
        /\ UNCHANGED <<store, restored_cursor, load_failed>>
  /\ UNCHANGED <<tasks, shutdown, file, hydration_completed, latest>>

(* The load panics: the boot task reports the join error and returns.      *)
HydratePanics ==
  /\ Release("hydrate")
  /\ boot' = "done"
  /\ UNCHANGED <<pruning, checkpointing, memory, shutdown, file>>

(* hydration_completed.store(true): its own step, since other threads read *)
(* the flag before the boot task has gone on.                              *)
SetHydrated ==
  /\ boot = "hydrate" /\ job["hydrate"] = "ended"
  /\ hydration_completed' = TRUE
  /\ boot' = "check"
  /\ UNCHANGED <<pruning, checkpointing, jobs, shutdown, file>>
  /\ UNCHANGED <<restored_cursor, store, latest, load_failed>>

CheckCancelled ==
  /\ boot = "check"
  /\ boot' = IF Cancelled THEN "done" ELSE "start"
  /\ UNCHANGED <<pruning, checkpointing, jobs, memory, shutdown, file>>

(* The compaction is detached: no task waits for it.                       *)
SpawnCompaction ==
  /\ boot = "start" /\ restored_cursor > 0 /\ job["compact"] = "none"
  /\ Spawn("compact", NoCursor)
  /\ UNCHANGED <<tasks, memory, shutdown, file>>

(* Mutant: the configured start replaces the restored cursor.              *)
StartIngestion_Configured ==
  /\ boot = "start"
  /\ \E start \in BackfillStarts :
       latest' = IF start > 0 THEN start ELSE restored_cursor
  /\ boot' = IF aborted THEN "done" ELSE "run"
  /\ UNCHANGED <<pruning, checkpointing, jobs, shutdown, file>>
  /\ UNCHANGED <<hydration_completed, restored_cursor, store, load_failed>>

(* effective_cursor and with_initial_cursor.  An abort takes effect at the *)
(* next await, which is the one of run().                                  *)
StartIngestion ==
  /\ boot = "start"
  /\ \E start \in BackfillStarts :
       latest' = IF restored_cursor > 0 THEN Larger(restored_cursor, start) ELSE start
  /\ boot' = IF aborted THEN "done" ELSE "run"
  /\ UNCHANGED <<pruning, checkpointing, jobs, shutdown, file>>
  /\ UNCHANGED <<hydration_completed, restored_cursor, store, load_failed>>

Ingest ==
  /\ boot = "run" /\ latest < MaxCursor
  /\ latest' = latest + 1
  /\ UNCHANGED <<tasks, jobs, shutdown, file>>
  /\ UNCHANGED <<hydration_completed, restored_cursor, store, load_failed>>

IngestionDrained ==
  /\ boot = "run" /\ Cancelled
  /\ boot' = "done"
  /\ UNCHANGED <<pruning, checkpointing, jobs, memory, shutdown, file>>
-----------------------------------------------------------------------------
(* The periodic tasks.  Both wait for their blocking job before they look  *)
(* at the timer or at the cancellation again.                              *)
PruneTick ==
  /\ pruning = "wait" /\ hydration_completed
  /\ Spawn("prune", NoCursor)
  /\ pruning' = "job"
  /\ UNCHANGED <<boot, checkpointing, memory, shutdown, file>>

PruneJoined ==
  /\ pruning = "job" /\ job["prune"] = "ended"
  /\ pruning' = "wait"
  /\ UNCHANGED <<boot, checkpointing, jobs, memory, shutdown, file>>

PruneStops ==
  /\ pruning = "wait" /\ Cancelled
  /\ pruning' = "done"
  /\ UNCHANGED <<boot, checkpointing, jobs, memory, shutdown, file>>

(* The holder of the slot prunes or compacts: nothing the file depends on. *)
EndMaintenance(j) ==
  /\ j \in {"compact", "prune"} /\ Release(j)
  /\ UNCHANGED <<tasks, memory, shutdown, file>>

(* The cursor is read here, before the job has the slot.                   *)
SnapshotTick ==
  /\ checkpointing = "wait" /\ hydration_completed
  /\ Spawn("snapshot", latest)
  /\ checkpointing' = "job"
  /\ UNCHANGED <<boot, pruning, memory, shutdown, file>>

(* Mutant: the task does not wait for its job.                             *)
SnapshotJoined_Detached ==
  /\ checkpointing = "job"
  /\ checkpointing' = "wait"
  /\ UNCHANGED <<boot, pruning, jobs, memory, shutdown, file>>

SnapshotJoined ==
  /\ checkpointing = "job" /\ job["snapshot"] = "ended"
  /\ checkpointing' = "wait"
  /\ UNCHANGED <<boot, pruning, jobs, memory, shutdown, file>>

SnapshotStops ==
  /\ checkpointing = "wait" /\ Cancelled
  /\ checkpointing' = "done"
  /\ UNCHANGED <<boot, pruning, jobs, memory, shutdown, file>>

(* The stores are written to the temporary file, which is renamed; or an   *)
(* I/O error leaves the old file.                                          *)
EndSave(j) ==
  /\ j \in {"snapshot", "final"} /\ Release(j)
  /\ \/ /\ disk' = [exists |-> TRUE, data |-> store, cursor |-> captured[j]]
        /\ final_written' = (final_written \/ j = "final")
     \/ UNCHANGED file
  /\ UNCHANGED <<tasks, memory, shutdown>>
-----------------------------------------------------------------------------
Signal ==
  /\ main = "up"
  /\ main' = "draining"
  /\ UNCHANGED <<tasks, jobs, memory, aborted, file>>

Joined == boot = "done" /\ pruning = "done" /\ checkpointing = "done"

(* Mutant: the guard on hydration_completed is missing.                    *)
DecideFinalSave_Unguarded ==
  /\ main = "draining" /\ (Joined \/ aborted)
  /\ main' = "saving"
  /\ Spawn("final", latest)
  /\ UNCHANGED <<tasks, memory, aborted, file>>

(* All tasks are joined, or have been aborted: the final save, unless the  *)
(* stores were never hydrated.                                             *)
DecideFinalSave ==
  /\ main = "draining" /\ (Joined \/ aborted)
  /\ IF hydration_completed
     THEN /\ main' = "saving"
          /\ Spawn("final", latest)
     ELSE /\ main' = "closing" /\ UNCHANGED jobs
  /\ UNCHANGED <<tasks, memory, aborted, file>>

(* SHUTDOWN_TIMEOUT_SECS: abort_all ends the tasks at an await; the boot   *)
(* task may be between two.  Blocking jobs go on.                          *)
DrainTimeout ==
  /\ main = "draining" /\ ~Joined /\ ~aborted
  /\ aborted' = TRUE
  /\ boot' = IF boot \in {"hydrate", "run"} THEN "done" ELSE boot
  /\ pruning' = "done" /\ checkpointing' = "done"
  /\ UNCHANGED <<jobs, memory, main, file>>

FinalSaved ==
  /\ main = "saving" /\ job["final"] = "ended"
  /\ main' = "closing"
  /\ UNCHANGED <<tasks, jobs, memory, aborted, file>>

(* The save, and the jobs it queues behind, have taken too long.  The job  *)
(* is not interrupted.                                                     *)
FinalSaveTimeout ==
  /\ main = "saving" /\ job["final"] # "ended"
  /\ main' = "closing"
  /\ UNCHANGED <<tasks, jobs, memory, aborted, file>>

(* main() returns.  The runtime's destructor waits for the blocking jobs   *)
(* that have started and drops the others.                                 *)
Exit ==
  /\ main = "closing" /\ \A j \in Jobs : job[j] # "queued"
  /\ main' = "exited"
  /\ UNCHANGED <<tasks, jobs, memory, aborted, file>>

Next ==
  \/ \E j \in Jobs : Enqueue(j) \/ EndMaintenance(j) \/ EndSave(j)
  \/ LoadSome \/ EndHydrate \/ HydratePanics \/ SetHydrated \/ CheckCancelled
  \/ SpawnCompaction \/ StartIngestion \/ Ingest \/ IngestionDrained
  \/ PruneTick \/ PruneJoined \/ PruneStops
  \/ SnapshotTick \/ SnapshotJoined \/ SnapshotStops
  \/ Signal \/ DecideFinalSave \/ DrainTimeout \/ FinalSaved \/ FinalSaveTimeout \/ Exit

Spec == Init /\ [][Next]_vars

(* Runnable tasks are polled, threads of the blocking pool are scheduled,  *)
(* their work (a load, a prune, a compaction, a write) ends, and timers    *)
(* fire.  Nothing forces a signal, a tick or a frame.                      *)
Fairness ==
  /\ \A j \in Jobs : WF_vars(Enqueue(j)) /\ WF_vars(EndMaintenance(j)) /\ WF_vars(EndSave(j))
  /\ WF_vars(EndHydrate \/ HydratePanics) /\ WF_vars(SetHydrated)
  /\ WF_vars(CheckCancelled) /\ WF_vars(StartIngestion) /\ WF_vars(IngestionDrained)
  /\ WF_vars(DecideFinalSave) /\ WF_vars(DrainTimeout)
  /\ WF_vars(FinalSaved) /\ WF_vars(FinalSaveTimeout) /\ WF_vars(Exit)

FairSpec == Spec /\ Fairness
-----------------------------------------------------------------------------
(* The slot is held or awaited once by each job that has started and not   *)
(* ended, and by no other.                                                 *)
TypeOK ==
  /\ main \in {"up", "draining", "saving", "closing", "exited"}
  /\ aborted \in BOOLEAN /\ final_written \in BOOLEAN
  /\ boot \in {"hydrate", "check", "start", "run", "done"}
  /\ {pruning, checkpointing} \subseteq {"wait", "job", "done"}
  /\ job \in [Jobs -> {"none", "spawned", "queued", "ended"}]
  /\ slot \in Seq(Jobs) /\ IsInjective(slot)
  /\ ToSet(slot) = {j \in Jobs : job[j] = "queued"}
  /\ captured \in [Jobs -> 0..MaxCursor]
  /\ hydration_completed \in BOOLEAN /\ load_failed \in BOOLEAN
  /\ restored_cursor \in 0..MaxCursor /\ latest \in 0..MaxCursor
  /\ store \in {"none", "part", "all"}
  /\ disk \in [exists : BOOLEAN, data : {"none", "part", "all"}, cursor : 0..MaxCursor]

(* No save "overwrites an existing snapshot with an unhydrated store",     *)
(* whenever the signal, the timeouts and the periodic tasks fall: unless   *)
(* the load itself has failed, the file holds all that the file found at   *)
(* boot held.                                                              *)
SnapshotPreserved == disk.exists /\ ~load_failed => disk.data = "all"

(* After a drain that met its deadline the final save is the last to write *)
(* the file: no periodic save, started earlier and delayed by the slot,    *)
(* replaces it with an older cursor.                                       *)
FinalSaveIsLast == final_written /\ ~aborted => disk.cursor = latest

(* A signalled process exits: no task, timeout or holder of the save slot  *)
(* keeps another from finishing.                                           *)
ShutdownCompletes == main = "draining" ~> main = "exited"

(* Once the ingester has its cursor, a drained shutdown does not take the  *)
(* resume point of the file back, whatever the load has restored and the   *)
(* backfill configured.  (A signal before that is the case below.)         *)
ResumePointAdvances ==
  [][disk.exists /\ ~load_failed /\ Joined /\ ~aborted /\ latest # NoCursor
       => disk'.cursor >= disk.cursor]_vars

(* A saved cursor is what makes the next boot resume "live Jetstream       *)
(* ingestion seamlessly without a cold-start backfill delay": a drained    *)
(* shutdown, after a load that did not fail, does not take it back.        *)
ResumePointKept ==
  [][disk.exists /\ ~load_failed /\ Joined /\ ~aborted => disk'.cursor >= disk.cursor]_vars
=============================================================================
