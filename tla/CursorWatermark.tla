--------------------------- MODULE CursorWatermark ---------------------------
(***************************************************************************)
(* The lock-free cursor bookkeeping of the Jetstream ingester              *)
(* (IngestionStats::update_slice_cursor in src/src/ingest.rs, and          *)
(* CursorTracker::update_slice, which is the same algorithm).              *)
(*                                                                         *)
(* One reader task per stream slice stores the time of each frame in its   *)
(* own atomic and then recomputes the "safe low watermark" over all the    *)
(* slices, one atomic load at a time, while the other readers go on        *)
(* storing.  latest_cursor_us is what a snapshot persists and what a       *)
(* restart resumes every slice from.                                       *)
(*                                                                         *)
(* Every atomic operation is Ordering::Relaxed: a load of another slice's  *)
(* atomic may return any value of that atomic's modification order that is *)
(* not older than one the loading thread has already seen.  memory_order   *)
(* chooses, once per behaviour, between that model and the sequentially    *)
(* consistent one.                                                         *)
(***************************************************************************)
EXTENDS Integers, FiniteSets

CONSTANTS
  MaxSlices,   \* MAX_STREAM_SLICES, the length of the array of slice cursors
  MaxTime      \* bound on the frame times (time_us)

ASSUME MaxSlicesAssumption == MaxSlices \in Nat \ {0}
ASSUME MaxTimeAssumption == MaxTime \in Nat \ {0}

Slices == 0..(MaxSlices - 1)
Times == 1..MaxTime
U64Max == MaxTime + 1

VARIABLES
  memory_order,      \* "relaxed" or "seqcst", fixed at boot
  active_slices,     \* how many slices are read, fixed before the readers start
  slice_cursors,     \* slice -> the latest value of its atomic
  history,           \* slice -> the values its atomic has held
  view,              \* reader -> slice -> the newest value the reader has seen
  latest_cursor_us,  \* the published watermark
  pc,                \* reader -> "idle" or "scan"
  next,              \* reader -> the loop index i
  min_val,           \* reader -> the running minimum
  all_started        \* reader -> no slice loaded so far was zero

scan == <<next, min_val, all_started>>
settings == <<memory_order, active_slices>>
watermarkVars == <<settings, slice_cursors, history, view, latest_cursor_us,
          pc, scan>>

FetchMax(a, b) == IF a > b THEN a ELSE b
-----------------------------------------------------------------------------
(* new(), set_slice_count() and set_initial_cursor(): every atomic starts  *)
(* from the cursor the snapshot recorded, or from zero.                    *)
WatermarkInit ==
  /\ memory_order \in {"relaxed", "seqcst"}
  /\ active_slices \in 1..MaxSlices
  /\ \E cursor \in 0..MaxTime :
       /\ slice_cursors = [s \in Slices |-> cursor]
       /\ history = [s \in Slices |-> {cursor}]
       /\ view = [r \in Slices |-> [s \in Slices |-> cursor]]
       /\ latest_cursor_us = cursor
  /\ pc = [r \in Slices |-> "idle"]
  /\ next = [r \in Slices |-> 0]
  /\ min_val = [r \in Slices |-> U64Max]
  /\ all_started = [r \in Slices |-> TRUE]

(* Mutant: fetch_add instead of fetch_max.                                 *)
StoreSliceCursor_Add(r, t) ==
  /\ pc[r] = "idle"
  /\ slice_cursors' = [slice_cursors EXCEPT ![r] = @ + t]
  /\ history' = [history EXCEPT ![r] = @ \cup {slice_cursors[r] + t}]
  /\ view' = [view EXCEPT ![r][r] = slice_cursors[r] + t]
  /\ pc' = [pc EXCEPT ![r] = "scan"]
  /\ UNCHANGED <<settings, latest_cursor_us, next, min_val, all_started>>

(* slice_cursors[slice_idx].fetch_max(time_us): a read-modify-write always *)
(* sees the newest value of its own atomic.                                *)
StoreSliceCursor(r, t) ==
  /\ pc[r] = "idle"
  /\ LET stored == FetchMax(slice_cursors[r], t) IN
       /\ slice_cursors' = [slice_cursors EXCEPT ![r] = stored]
       /\ history' = [history EXCEPT ![r] = @ \cup {stored}]
       /\ view' = [view EXCEPT ![r][r] = stored]
  /\ pc' = [pc EXCEPT ![r] = "scan"]
  /\ UNCHANGED <<settings, latest_cursor_us, next, min_val, all_started>>

(* The values reader r may load from slice s's atomic.                     *)
Visible(r, s) ==
  IF memory_order = "seqcst"
  THEN {slice_cursors[s]}
  ELSE {v \in history[s] : v >= view[r][s]}

(* One iteration of the scan over the slices.                              *)
ScanSlice(r) ==
  /\ active_slices > 1
  /\ pc[r] = "scan"
  /\ next[r] < active_slices
  /\ \E val \in Visible(r, next[r]) :
       /\ view' = [view EXCEPT ![r][next[r]] = val]
       /\ all_started' = [all_started EXCEPT ![r] = @ /\ val # 0]
       /\ min_val' = [min_val EXCEPT ![r] = IF val # 0 /\ val < @ THEN val ELSE @]
  /\ next' = [next EXCEPT ![r] = @ + 1]
  /\ UNCHANGED <<settings, slice_cursors, history, latest_cursor_us, pc>>

(* Mutant: a slice that has received nothing yet is left out.              *)
SafeWatermark_IgnoreUnstarted(r) ==
  IF min_val[r] = U64Max THEN 0 ELSE min_val[r]

(* The watermark a finished scan yields: zero, which publishes nothing,    *)
(* unless every slice has started.                                         *)
SafeWatermark(r) ==
  IF ~all_started[r] \/ min_val[r] = U64Max THEN 0 ELSE min_val[r]

(* Mutant: the running minimum survives into the next call.                *)
Return_KeepMinimum(r) ==
  /\ pc' = [pc EXCEPT ![r] = "idle"]
  /\ next' = [next EXCEPT ![r] = 0]
  /\ UNCHANGED <<min_val, all_started>>

(* The call returns: its locals go out of scope.                           *)
Return(r) ==
  /\ pc' = [pc EXCEPT ![r] = "idle"]
  /\ next' = [next EXCEPT ![r] = 0]
  /\ min_val' = [min_val EXCEPT ![r] = U64Max]
  /\ all_started' = [all_started EXCEPT ![r] = TRUE]

(* Mutant: a plain store instead of fetch_max.                             *)
PublishMinimum_Store(r) ==
  /\ active_slices > 1
  /\ pc[r] = "scan"
  /\ next[r] = active_slices
  /\ latest_cursor_us' = IF SafeWatermark(r) > 0 THEN SafeWatermark(r)
                                               ELSE latest_cursor_us
  /\ Return(r)
  /\ UNCHANGED <<settings, slice_cursors, history, view>>

(* The end of a multi-slice call: latest_cursor_us.fetch_max(watermark).   *)
PublishMinimum(r) ==
  /\ active_slices > 1
  /\ pc[r] = "scan"
  /\ next[r] = active_slices
  /\ latest_cursor_us' = FetchMax(latest_cursor_us, SafeWatermark(r))
  /\ Return(r)
  /\ UNCHANGED <<settings, slice_cursors, history, view>>

(* The end of a call when there is one slice: its own cursor is published. *)
(* The code takes the larger of the load and time_us; the load of an atomic *)
(* this thread has just raised to time_us is never the smaller of the two. *)
PublishSingle(r) ==
  /\ active_slices = 1
  /\ pc[r] = "scan"
  /\ \E val \in Visible(r, r) :
       /\ view' = [view EXCEPT ![r][r] = val]
       /\ latest_cursor_us' = FetchMax(latest_cursor_us, val)
  /\ Return(r)
  /\ UNCHANGED <<settings, slice_cursors, history>>

Readers == 0..(active_slices - 1)

WatermarkNext ==
  \E r \in Readers :
    \/ \E t \in Times : StoreSliceCursor(r, t)
    \/ ScanSlice(r)
    \/ PublishMinimum(r)
    \/ PublishSingle(r)

WatermarkSpec == WatermarkInit /\ [][WatermarkNext]_watermarkVars
-----------------------------------------------------------------------------
WatermarkTypeOK ==
  /\ memory_order \in {"relaxed", "seqcst"}
  /\ active_slices \in 1..MaxSlices
  /\ slice_cursors \in [Slices -> 0..MaxTime]
  /\ history \in [Slices -> SUBSET (0..MaxTime)]
  /\ view \in [Slices -> [Slices -> 0..MaxTime]]
  /\ latest_cursor_us \in 0..MaxTime
  /\ pc \in [Slices -> {"idle", "scan"}]
  /\ next \in [Slices -> 0..MaxSlices]
  /\ min_val \in [Slices -> 1..U64Max]
  /\ all_started \in [Slices -> BOOLEAN]

(* The watermark is safe: no restart from it skips a frame of any slice,   *)
(* however the readers' scans interleave and however stale their loads     *)
(* are (update_slice_cursor, "the unified safe low watermark").            *)
SafeLowWatermark == \A s \in Readers : latest_cursor_us <= slice_cursors[s]

(* Under sequential consistency no progress is lost between concurrent     *)
(* calls: when none is under way the watermark has caught up with the      *)
(* slowest slice, even if every scan overlapped another reader's store.    *)
TightWhenIdle ==
  memory_order = "seqcst" /\ (\A r \in Readers : pc[r] = "idle") =>
    \E s \in Readers : latest_cursor_us >= slice_cursors[s]

(* The interleaved loads and read-modify-writes implement the abstract     *)
(* watermark: publication is monotone, bounded by every slice, and atomic  *)
(* with respect to the slices' progress.                                   *)
Abstract == INSTANCE LowWatermark
              WITH Slice <- Slices, active <- Readers,
                   cursor <- slice_cursors, watermark <- latest_cursor_us

ImplementsLowWatermark == Abstract!Spec
=============================================================================
