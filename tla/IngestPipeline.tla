---------------------------- MODULE IngestPipeline ----------------------------
(***************************************************************************)
(* The ingestion pipeline of src/src/ingest.rs from one boot of the        *)
(* process to the next (src/src/main.rs): one reader task per Jetstream    *)
(* slice, a bounded channel, one consumer task that applies events to the  *)
(* graph, the cancellation that drains them, and the snapshots that        *)
(* persist the graph together with the resume cursor.                      *)
(*                                                                         *)
(* Frames are the times 1..MaxTime of each slice.  An event is a triple    *)
(* <<slice, time, k>>, the k-th event of that slice's frame at that time;  *)
(* applying it is adding it to the graph (GraphStore's own mutators are    *)
(* idempotent and are modelled elsewhere).  update_slice_cursor is one     *)
(* step here; CursorWatermark takes it apart.                              *)
(***************************************************************************)
EXTENDS Integers, Sequences, FiniteSets, SequencesExt

CONSTANTS
  Slice,            \* the wanted collections, one stream slice each
  MaxTime,          \* bound on frame times
  EventsIn,         \* slice -> time -> number of wanted events in that frame
  ChannelCapacity,  \* config.channel_capacity
  BatchMax,         \* the 512 of recv_many
  BackfillFloors,   \* the oldest_safe_cursor_us values a boot may compute
  LiveHeads,        \* the frames a server may be at when no cursor is requested
  SavedCursors,     \* the cursors of the snapshots the first boot may find
  MaxBoots          \* bound on the number of boots

Times == 1..MaxTime

ASSUME PipelineAssumption ==
  /\ Slice # {} /\ IsFiniteSet(Slice)
  /\ MaxTime \in Nat \ {0}
  /\ EventsIn \in [Slice -> [Times -> Nat]]
  /\ ChannelCapacity \in Nat \ {0}
  /\ BatchMax \in Nat \ {0}
  /\ BackfillFloors \subseteq 0..MaxTime
  /\ LiveHeads \subseteq 1..(MaxTime + 1)
  /\ SavedCursors \subseteq 0..MaxTime
  /\ MaxBoots \in Nat

NoSave == -1

VARIABLES
  phase,          \* "down", "running", "cancelled", "joined" or "aborted"
  boots,          \* boots so far
  slice_cursors,  \* slice -> its cursor atomic
  latest,         \* latest_cursor_us
  reader,         \* slice -> where its reader task stands
  pos,            \* slice -> the next frame the server will deliver
  base,           \* slice -> the first frame asked for since boot
  hand,           \* slice -> parsed events the reader has still to send
  channel,        \* the mpsc channel
  batch,          \* what recv_many moved out of the channel
  consumer,       \* "live" or "done"
  graph,          \* the events applied to the in-memory stores
  saving,         \* the cursor a periodic save has captured, or NoSave
  disk            \* the snapshot file: its cursor and its events

readers == <<slice_cursors, latest, reader, pos, base, hand>>
queue == <<channel, batch, consumer, graph>>
process == <<phase, boots>>
vars == <<process, readers, queue, saving, disk>>

Larger(a, b) == IF a > b THEN a ELSE b
FrameEvents(s, t) == [k \in 1..EventsIn[s][t] |-> <<s, t, k>>]
Events == UNION {ToSet(FrameEvents(s, t)) : s \in Slice, t \in Times}
Alive == phase \in {"running", "cancelled"}
-----------------------------------------------------------------------------
(* Before the first boot there is no snapshot (cursor 0), or one that a    *)
(* drained shutdown left.                                                  *)
Init ==
  /\ phase = "down" /\ boots = 0
  /\ slice_cursors = [s \in Slice |-> 0] /\ latest = 0
  /\ reader = [s \in Slice |-> "done"]
  /\ pos = [s \in Slice |-> 1] /\ base = [s \in Slice |-> 0]
  /\ hand = [s \in Slice |-> <<>>]
  /\ channel = <<>> /\ batch = <<>> /\ consumer = "done"
  /\ graph = {}
  /\ saving = NoSave
  /\ \E cursor \in SavedCursors :
       disk = [cursor |-> cursor, graph |-> {e \in Events : e[2] <= cursor}]

(* Boot: load the snapshot, resume from its cursor unless it is older than *)
(* the replay window (effective_cursor), and start the pipeline.           *)
Boot ==
  /\ phase = "down" /\ boots < MaxBoots
  /\ phase' = "running" /\ boots' = boots + 1
  /\ graph' = disk.graph
  /\ \E floor \in BackfillFloors :
       LET start == Larger(disk.cursor, floor) IN
         /\ slice_cursors' = [s \in Slice |-> start]
         /\ latest' = start
         /\ base' = [s \in Slice |-> start]
  /\ reader' = [s \in Slice |-> "connect"]
  /\ consumer' = "live"
  /\ UNCHANGED <<pos, hand, channel, batch, saving, disk>>

(* connect_async succeeds.  The server replays from the requested cursor,  *)
(* or streams from wherever its head is when none was requested.           *)
Connect(s) ==
  /\ Alive /\ reader[s] = "connect"
  /\ reader' = [reader EXCEPT ![s] = "open"]
  /\ \/ /\ slice_cursors[s] > 0
        /\ pos' = [pos EXCEPT ![s] = slice_cursors[s]]
        /\ UNCHANGED base
     \/ /\ slice_cursors[s] = 0
        /\ \E head \in LiveHeads :
             /\ pos' = [pos EXCEPT ![s] = head]
             /\ base' = [base EXCEPT ![s] = head]
  /\ UNCHANGED <<process, slice_cursors, latest, hand, queue, saving, disk>>

(* An open connection is lost: a Close frame, an error, the end of the     *)
(* stream, the inactivity watchdog or a failed ping.  A failed dial leaves *)
(* the reader where it is, sleeping out its backoff before the next one.   *)
Disconnect(s) ==
  /\ Alive /\ reader[s] = "open"
  /\ reader' = [reader EXCEPT ![s] = "connect"]
  /\ UNCHANGED <<process, slice_cursors, latest, pos, base, hand, queue, saving, disk>>

UpdateSliceCursor(s, t) ==
  LET cursors == [slice_cursors EXCEPT ![s] = Larger(@, t)]
      started == \A r \in Slice : cursors[r] > 0
      lowest == CHOOSE c \in {cursors[r] : r \in Slice} : \A r \in Slice : c <= cursors[r]
  IN /\ slice_cursors' = cursors
     /\ latest' = IF started THEN Larger(latest, lowest) ELSE latest

(* A text frame arrives and is parsed: the slice cursor moves first, then  *)
(* the events are sent one at a time.                                      *)
ReadFrame(s) ==
  /\ Alive /\ reader[s] = "open" /\ pos[s] \in Times
  /\ UpdateSliceCursor(s, pos[s])
  /\ hand' = [hand EXCEPT ![s] = FrameEvents(s, pos[s])]
  /\ reader' = [reader EXCEPT ![s] = IF EventsIn[s][pos[s]] > 0 THEN "send" ELSE "open"]
  /\ pos' = [pos EXCEPT ![s] = @ + 1]
  /\ UNCHANGED <<process, base, queue, saving, disk>>

(* Mutant: the channel is unbounded.                                       *)
SendEvent_Unbounded(s) ==
  /\ Alive /\ reader[s] = "send"
  /\ channel' = Append(channel, Head(hand[s]))
  /\ hand' = [hand EXCEPT ![s] = Tail(@)]
  /\ reader' = [reader EXCEPT ![s] = IF Len(hand[s]) = 1 THEN "open" ELSE "send"]
  /\ UNCHANGED <<process, slice_cursors, latest, pos, base>>
  /\ UNCHANGED <<batch, consumer, graph, saving, disk>>

(* Mutant: try_send, which gives the event up when the channel is full.    *)
SendEvent_Try(s) ==
  /\ Alive /\ reader[s] = "send"
  /\ channel' = IF Len(channel) < ChannelCapacity
                THEN Append(channel, Head(hand[s])) ELSE channel
  /\ hand' = [hand EXCEPT ![s] = Tail(@)]
  /\ reader' = [reader EXCEPT ![s] = IF Len(hand[s]) = 1 THEN "open" ELSE "send"]
  /\ UNCHANGED <<process, slice_cursors, latest, pos, base>>
  /\ UNCHANGED <<batch, consumer, graph, saving, disk>>

(* tx.send(event).await: waits while the channel is full.  The body of a   *)
(* select! branch is not interrupted by a cancellation.                    *)
SendEvent(s) ==
  /\ Alive /\ reader[s] = "send" /\ Len(channel) < ChannelCapacity
  /\ channel' = Append(channel, Head(hand[s]))
  /\ hand' = [hand EXCEPT ![s] = Tail(@)]
  /\ reader' = [reader EXCEPT ![s] = IF Len(hand[s]) = 1 THEN "open" ELSE "send"]
  /\ UNCHANGED <<process, slice_cursors, latest, pos, base>>
  /\ UNCHANGED <<batch, consumer, graph, saving, disk>>

(* The reader sees the cancellation and drops its sender.                  *)
ReaderCancelled(s) ==
  /\ phase = "cancelled" /\ reader[s] \in {"connect", "open"}
  /\ reader' = [reader EXCEPT ![s] = "done"]
  /\ UNCHANGED <<process, slice_cursors, latest, pos, base, hand, queue, saving, disk>>
-----------------------------------------------------------------------------
ConsumerReceive ==
  /\ Alive /\ consumer = "live" /\ batch = <<>> /\ channel # <<>>
  /\ LET n == IF Len(channel) < BatchMax THEN Len(channel) ELSE BatchMax IN
       /\ batch' = SubSeq(channel, 1, n)
       /\ channel' = SubSeq(channel, n + 1, Len(channel))
  /\ UNCHANGED <<process, readers, consumer, graph, saving, disk>>

(* Mutant: the batch is emptied from its end (batch.pop()).                *)
ConsumerApply_Pop ==
  /\ Alive /\ batch # <<>>
  /\ graph' = graph \cup {Last(batch)}
  /\ batch' = Front(batch)
  /\ UNCHANGED <<process, readers, channel, consumer, saving, disk>>

ConsumerApply ==
  /\ Alive /\ batch # <<>>
  /\ graph' = graph \cup {Head(batch)}
  /\ batch' = Tail(batch)
  /\ UNCHANGED <<process, readers, channel, consumer, saving, disk>>

(* Mutant: the consumer stops at the cancellation.                         *)
ConsumerFinish_OnCancel ==
  /\ phase = "cancelled" /\ consumer = "live"
  /\ \A s \in Slice : reader[s] = "done"
  /\ consumer' = "done" /\ channel' = <<>> /\ batch' = <<>>
  /\ UNCHANGED <<process, readers, graph, saving, disk>>

(* Mutant: run() keeps its own sender, so the channel never closes.        *)
ConsumerFinish_MasterSender == FALSE /\ UNCHANGED vars

(* recv_many returns 0: the channel is empty and no sender is left.        *)
ConsumerFinish ==
  /\ Alive /\ consumer = "live" /\ batch = <<>> /\ channel = <<>>
  /\ \A s \in Slice : reader[s] = "done"
  /\ consumer' = "done"
  /\ UNCHANGED <<process, readers, channel, batch, graph, saving, disk>>
-----------------------------------------------------------------------------
(* The periodic checkpoint captures the cursor before it takes the save    *)
(* slot, and writes the stores afterwards.  Bound: only the first save     *)
(* that has a cursor to record is explored.                                *)
BeginSave ==
  /\ phase = "running" /\ saving = NoSave /\ latest > 0 /\ disk.cursor = 0
  /\ saving' = latest
  /\ UNCHANGED <<process, readers, queue, disk>>

WriteSave ==
  /\ phase # "down" /\ saving # NoSave
  /\ disk' = [cursor |-> saving, graph |-> graph]
  /\ saving' = NoSave
  /\ UNCHANGED <<process, readers, queue>>

Cancel ==
  /\ phase = "running"
  /\ phase' = "cancelled"
  /\ UNCHANGED <<boots, readers, queue, saving, disk>>

(* Every background task has been joined within the shutdown timeout.      *)
Joined ==
  /\ phase = "cancelled" /\ consumer = "done" /\ saving = NoSave
  /\ phase' = "joined"
  /\ UNCHANGED <<boots, readers, queue, saving, disk>>

(* SHUTDOWN_TIMEOUT_SECS elapse first: abort_all drops every task, and     *)
(* with them the channel.  A save already in spawn_blocking goes on.       *)
DrainTimeout ==
  /\ phase = "cancelled" /\ ~(consumer = "done" /\ saving = NoSave)
  /\ phase' = "aborted"
  /\ reader' = [s \in Slice |-> "done"]
  /\ hand' = [s \in Slice |-> <<>>]
  /\ channel' = <<>> /\ batch' = <<>> /\ consumer' = "done"
  /\ UNCHANGED <<boots, slice_cursors, latest, pos, base, graph, saving, disk>>

PowerOff ==
  /\ phase' = "down"
  /\ slice_cursors' = [s \in Slice |-> 0] /\ latest' = 0
  /\ pos' = [s \in Slice |-> 1] /\ base' = [s \in Slice |-> 0]
  /\ reader' = [s \in Slice |-> "done"]
  /\ hand' = [s \in Slice |-> <<>>]
  /\ channel' = <<>> /\ batch' = <<>> /\ consumer' = "done"
  /\ graph' = {} /\ saving' = NoSave
  /\ UNCHANGED boots

(* The final snapshot, behind the save slot; then the process exits.       *)
FinalSave ==
  /\ phase \in {"joined", "aborted"} /\ saving = NoSave
  /\ disk' = [cursor |-> latest, graph |-> graph]
  /\ PowerOff

(* The process dies; the rename of a snapshot is atomic.                   *)
Crash ==
  /\ phase # "down"
  /\ PowerOff
  /\ UNCHANGED disk
-----------------------------------------------------------------------------
Next ==
  \/ Boot
  \/ \E s \in Slice :
       \/ Connect(s) \/ Disconnect(s)
       \/ ReadFrame(s) \/ SendEvent(s) \/ ReaderCancelled(s)
  \/ ConsumerReceive \/ ConsumerApply \/ ConsumerFinish
  \/ BeginSave \/ WriteSave
  \/ Cancel \/ Joined \/ DrainTimeout \/ FinalSave \/ Crash

Spec == Init /\ [][Next]_vars

(* tokio keeps polling runnable tasks (weak fairness).  A reader's select! *)
(* picks among its ready branches at random, so a cancellation that is     *)
(* offered again and again is eventually taken; the channel's semaphore is *)
(* first come, first served, so no sender starves (strong fairness).       *)
(* Nothing forces a crash, a timeout, a frame or a reconnection.           *)
Fairness ==
  /\ \A s \in Slice : SF_vars(ReaderCancelled(s)) /\ SF_vars(SendEvent(s))
  /\ WF_vars(ConsumerReceive) /\ WF_vars(ConsumerApply) /\ WF_vars(ConsumerFinish)
  /\ WF_vars(WriteSave) /\ WF_vars(Joined)

FairSpec == Spec /\ Fairness
-----------------------------------------------------------------------------
TypeOK ==
  /\ phase \in {"down", "running", "cancelled", "joined", "aborted"}
  /\ boots \in 0..MaxBoots
  /\ slice_cursors \in [Slice -> 0..MaxTime] /\ latest \in 0..MaxTime
  /\ reader \in [Slice -> {"connect", "open", "send", "done"}]
  /\ pos \in [Slice -> 1..(MaxTime + 1)] /\ base \in [Slice -> 0..(MaxTime + 1)]
  /\ hand \in [Slice -> Seq(Events)]
  /\ channel \in Seq(Events) /\ Len(channel) <= ChannelCapacity
  /\ batch \in Seq(Events) /\ Len(batch) <= BatchMax
  /\ consumer \in {"live", "done"}
  /\ graph \subseteq Events
  /\ saving \in {NoSave} \cup 0..MaxTime
  /\ disk \in [cursor : 0..MaxTime, graph : SUBSET Events]

InFlight == ToSet(channel) \cup ToSet(batch) \cup UNION {ToSet(hand[s]) : s \in Slice}
Received(s) ==
  {e \in Events : e[1] = s /\ e[2] >= base[s] /\ (e[2] < slice_cursors[s] \/ e[2] < pos[s])}

(* While the pipeline is up, every event of every frame the cursor has     *)
(* passed is in the graph, in the channel or in a task's hands: neither    *)
(* backpressure, nor a reconnection, nor the cancellation drops one.       *)
NothingSkipped ==
  Alive => \A s \in Slice : Received(s) \subseteq graph \cup InFlight

(* "Draining in-flight buffered events with zero data loss": when every    *)
(* task has been joined within the timeout, all that was received has been *)
(* applied, so that the final snapshot covers its own cursor.              *)
GracefulDrainLosesNothing ==
  phase = "joined" => \A s \in Slice : Received(s) \subseteq graph

(* One slice's events take effect in stream order, across batches and      *)
(* reconnections (a delete never overtakes the post it deletes).           *)
Earlier(e, f) == e[1] = f[1] /\ (e[2] < f[2] \/ (e[2] = f[2] /\ e[3] < f[3]))

AppliesInStreamOrder ==
  [][\A f \in graph' \ graph :
       phase' = phase =>
         \A e \in Events : Earlier(e, f) /\ e[2] >= base[e[1]] => e \in graph]_vars

(* Cancellation reaches the end: the readers stop, the consumer drains and *)
(* finishes although the channel may be full and frames keep arriving.     *)
DrainCompletes == phase = "cancelled" ~> phase # "cancelled"

(* What "Highest monotonic Jetstream cursor (`time_us`) processed" says of *)
(* a persisted cursor: every event before it is in the same snapshot, so   *)
(* that a restart loses none.                                              *)
SavedCursorIsProcessed == \A e \in Events : e[2] < disk.cursor => e \in disk.graph
=============================================================================
