-------------------------- MODULE ResumePointProofs --------------------------
(***************************************************************************)
(* The resume point, from the readers' atomics to the snapshot file.       *)
(* Part one: for any number of slices and any frame times, the watermark   *)
(* the readers publish is typed, safe and monotone, whatever the           *)
(* interleaving of their scans and however stale their relaxed loads.      *)
(* Part two: the shutdown of the process keeps what the snapshot file      *)
(* held, whatever the bound on cursors and the replay starts: the save     *)
(* slot is a queue of the jobs that have started, no save starts before    *)
(* the stores hold what the load gave them, the final save is the last     *)
(* one, and the resume point of the file stays behind the ingester's.      *)
(***************************************************************************)
EXTENDS CursorWatermark, Lifecycle, SequenceTheorems, TLAPS

(***************************************************************************)
(* Part one.  The watermark (CursorWatermark).                             *)
(***************************************************************************)

(* What a load may return is never newer than the atomic: relaxed loads    *)
(* see the past.                                                           *)
HistoryBelowCursor == \A s \in Slices : \A v \in history[s] : v <= slice_cursors[s]

(* A scan's running minimum is a lower bound of every cursor it has passed *)
(* so far, although those cursors go on growing behind it.                 *)
MinimumBelowScanned ==
  \A r, s \in Slices : s < next[r] /\ all_started[r] => min_val[r] <= slice_cursors[s]

(* The inductive invariant.  SafeLowWatermark alone is not inductive: a    *)
(* scan under way could hold a minimum above a cursor it has passed.       *)
WatermarkInv == WatermarkTypeOK /\ HistoryBelowCursor /\ MinimumBelowScanned /\ SafeLowWatermark

(* fetch_max yields one of its two arguments, and neither exceeds it.     *)
LEMMA FetchMaxBounds ==
  ASSUME NEW a \in Int, NEW b \in Int
  PROVE  /\ FetchMax(a, b) \in {a, b}
         /\ FetchMax(a, b) >= a /\ FetchMax(a, b) >= b
  BY DEF FetchMax

(* set_slice_count clamps the count: there is a reader, and every reader   *)
(* has a slot in the array of slice cursors.                               *)
LEMMA ReadersAreSlices == WatermarkTypeOK => Readers \subseteq Slices /\ Readers # {}
<1> SUFFICES ASSUME WatermarkTypeOK PROVE Readers \subseteq Slices /\ Readers # {}
  OBVIOUS
<1>1. active_slices \in Int /\ active_slices >= 1 /\ active_slices <= MaxSlices
  BY MaxSlicesAssumption DEF WatermarkTypeOK
<1>2. Readers \subseteq Slices
  BY <1>1, MaxSlicesAssumption DEF Readers, Slices
<1>3. 0 \in Readers
  BY <1>1 DEF Readers
<1> QED BY <1>2, <1>3

(* new() and set_initial_cursor() establish the invariant.                 *)
LEMMA InitWatermarkInv == WatermarkInit => WatermarkInv
  BY MaxSlicesAssumption, MaxTimeAssumption
  DEF WatermarkInit, WatermarkInv, WatermarkTypeOK, HistoryBelowCursor, MinimumBelowScanned, SafeLowWatermark,
      Slices, Readers, Times, U64Max

(* A store only raises the reader's own cursor, so every lower bound that  *)
(* a scan or the watermark holds stays one.                                *)
LEMMA StoreKeepsWatermarkInv ==
  ASSUME WatermarkInv, NEW r \in Readers, NEW t \in Times, StoreSliceCursor(r, t)
  PROVE  WatermarkInv'
<1> DEFINE stored == FetchMax(slice_cursors[r], t)
<1>1. r \in Slices BY ReadersAreSlices DEF WatermarkInv
<1>a. slice_cursors[r] \in 0..MaxTime /\ t \in 0..MaxTime
  BY <1>1, MaxTimeAssumption DEF WatermarkInv, WatermarkTypeOK, Times
<1>b. stored \in {slice_cursors[r], t} /\ stored >= slice_cursors[r]
  BY <1>a, FetchMaxBounds, MaxTimeAssumption
<1>2. /\ stored \in 0..MaxTime /\ stored >= slice_cursors[r]
      /\ slice_cursors' = [slice_cursors EXCEPT ![r] = stored]
      /\ history' = [history EXCEPT ![r] = @ \cup {stored}]
      /\ view' = [view EXCEPT ![r][r] = stored]
  BY <1>a, <1>b DEF StoreSliceCursor
<1>3. UNCHANGED <<settings, latest_cursor_us, next, min_val, all_started>>
  BY DEF StoreSliceCursor
<1> HIDE DEF stored
<1>4. WatermarkTypeOK'
  BY <1>1, <1>2, <1>3 DEF WatermarkInv, WatermarkTypeOK, StoreSliceCursor, settings
<1>5. \A s \in Slices : slice_cursors'[s] >= slice_cursors[s]
  BY <1>1, <1>2, MaxTimeAssumption DEF WatermarkInv, WatermarkTypeOK
<1>6. HistoryBelowCursor'
  <2> SUFFICES ASSUME NEW s \in Slices, NEW v \in history'[s]
               PROVE  v <= slice_cursors'[s]
    BY DEF HistoryBelowCursor
  <2>1. CASE s = r
    BY <2>1, <1>1, <1>2, MaxTimeAssumption DEF WatermarkInv, WatermarkTypeOK, HistoryBelowCursor
  <2>2. CASE s # r
    BY <2>2, <1>1, <1>2 DEF WatermarkInv, WatermarkTypeOK, HistoryBelowCursor
  <2> QED BY <2>1, <2>2
<1>7. MinimumBelowScanned'
  <2> SUFFICES ASSUME NEW q \in Slices, NEW s \in Slices, s < next[q], all_started[q]
               PROVE  min_val[q] <= slice_cursors'[s]
    BY <1>3 DEF MinimumBelowScanned
  <2>1. min_val[q] <= slice_cursors[s] BY DEF WatermarkInv, MinimumBelowScanned
  <2> QED BY <2>1, <1>4, <1>5, MaxTimeAssumption DEF WatermarkInv, WatermarkTypeOK, U64Max
<1>8. SafeLowWatermark'
  BY <1>3, <1>4, <1>5, ReadersAreSlices, MaxTimeAssumption
  DEF WatermarkInv, WatermarkTypeOK, SafeLowWatermark, Readers, settings
<1> QED BY <1>4, <1>6, <1>7, <1>8 DEF WatermarkInv

(* A load returns at most the slice's cursor, so that the minimum extends  *)
(* to the slice it has just passed.                                        *)
LEMMA ScanKeepsWatermarkInv ==
  ASSUME WatermarkInv, NEW r \in Readers, ScanSlice(r)
  PROVE  WatermarkInv'
<1>1. r \in Slices BY ReadersAreSlices DEF WatermarkInv
<1>2. /\ next[r] \in Slices
      /\ next[r] + 1 \in 0..MaxSlices
      /\ next'[r] = next[r] + 1
      /\ \A q \in Slices : q # r => next'[q] = next[q]
  <2>1. next[r] \in 0..MaxSlices /\ active_slices \in 1..MaxSlices
    BY <1>1 DEF WatermarkInv, WatermarkTypeOK
  <2>2. next[r] < active_slices
    BY DEF ScanSlice
  <2>3. next[r] \in Int /\ next[r] >= 0 /\ next[r] + 1 <= MaxSlices
    BY <2>1, <2>2, MaxSlicesAssumption
  <2>4. next' = [next EXCEPT ![r] = next[r] + 1] /\ next \in [Slices -> 0..MaxSlices]
    BY DEF ScanSlice, WatermarkInv, WatermarkTypeOK
  <2>5. next'[r] = next[r] + 1 /\ \A q \in Slices : q # r => next'[q] = next[q]
    BY <2>4, <1>1
  <2>6. next[r] \in Slices /\ next[r] + 1 \in 0..MaxSlices
    BY <2>3, MaxSlicesAssumption DEF Slices
  <2> QED BY <2>5, <2>6
<1>3. PICK val \in Visible(r, next[r]) :
        /\ view' = [view EXCEPT ![r][next[r]] = val]
        /\ all_started' = [all_started EXCEPT ![r] = @ /\ val # 0]
        /\ min_val' = [min_val EXCEPT ![r] = IF val # 0 /\ val < @ THEN val ELSE @]
  BY DEF ScanSlice
<1>4. val \in 0..MaxTime /\ val <= slice_cursors[next[r]]
  <2>1. slice_cursors[next[r]] \in 0..MaxTime /\ history[next[r]] \subseteq 0..MaxTime
    BY <1>2 DEF WatermarkInv, WatermarkTypeOK
  <2>2. CASE memory_order = "seqcst"
    BY <2>1, <2>2, MaxTimeAssumption DEF Visible
  <2>3. CASE memory_order # "seqcst"
    BY <2>1, <2>3, <1>2 DEF Visible, WatermarkInv, HistoryBelowCursor
  <2> QED BY <2>2, <2>3
<1>m. /\ min_val'[r] \in 1..U64Max
      /\ val # 0 => min_val'[r] <= min_val[r] /\ min_val'[r] <= val
      /\ \A q \in Slices : q # r => min_val'[q] = min_val[q]
  <2>1. min_val[r] \in 1..U64Max
    BY <1>1 DEF WatermarkInv, WatermarkTypeOK
  <2>2. min_val'[r] = IF val # 0 /\ val < min_val[r] THEN val ELSE min_val[r]
    BY <1>1, <1>3 DEF WatermarkInv, WatermarkTypeOK
  <2>3. \A q \in Slices : q # r => min_val'[q] = min_val[q]
    BY <1>1, <1>3 DEF WatermarkInv, WatermarkTypeOK
  <2> QED BY <2>1, <2>2, <2>3, <1>4, MaxTimeAssumption DEF U64Max
<1>5. /\ next' = [next EXCEPT ![r] = @ + 1]
      /\ UNCHANGED <<settings, slice_cursors, history, latest_cursor_us, pc>>
  BY DEF ScanSlice
<1>6. WatermarkTypeOK'
  <2>1. min_val' \in [Slices -> 1..U64Max]
    BY <1>1, <1>3, <1>m DEF WatermarkInv, WatermarkTypeOK
  <2>2. next' \in [Slices -> 0..MaxSlices]
    BY <1>1, <1>2, <1>5 DEF WatermarkInv, WatermarkTypeOK
  <2>3. all_started' \in [Slices -> BOOLEAN]
    BY <1>1, <1>3 DEF WatermarkInv, WatermarkTypeOK
  <2>4. view' \in [Slices -> [Slices -> 0..MaxTime]]
    BY <1>1, <1>2, <1>3, <1>4 DEF WatermarkInv, WatermarkTypeOK
  <2> QED BY <2>1, <2>2, <2>3, <2>4, <1>5 DEF WatermarkInv, WatermarkTypeOK, settings
<1>7. HistoryBelowCursor' BY <1>5 DEF WatermarkInv, HistoryBelowCursor
<1>8. MinimumBelowScanned'
  <2> SUFFICES ASSUME NEW q \in Slices, NEW s \in Slices, s < next'[q], all_started'[q]
               PROVE  min_val'[q] <= slice_cursors[s]
    BY <1>5 DEF MinimumBelowScanned
  <2>1. CASE q # r
    <3>1. next'[q] = next[q] /\ min_val'[q] = min_val[q] /\ all_started'[q] = all_started[q]
      BY <2>1, <1>1, <1>2, <1>3, <1>m DEF WatermarkInv, WatermarkTypeOK
    <3> QED BY <3>1 DEF WatermarkInv, MinimumBelowScanned
  <2>2. CASE q = r
    <3>1. val # 0 /\ all_started[r]
      BY <2>2, <1>1, <1>3 DEF WatermarkInv, WatermarkTypeOK
    <3>2. min_val'[r] <= min_val[r] /\ min_val'[r] <= val
      BY <3>1, <1>m
    <3>3. s < next[r] \/ s = next[r]
      <4>1. s < next[r] + 1 /\ s \in Int /\ next[r] \in Int
        BY <2>2, <1>2, MaxSlicesAssumption DEF Slices
      <4> QED BY <4>1
    <3>4. CASE s < next[r]
      <4>1. min_val[r] <= slice_cursors[s]
        BY <3>1, <3>4, <1>1 DEF WatermarkInv, MinimumBelowScanned
      <4> QED BY <4>1, <3>2, <2>2, <1>1, <1>6, MaxTimeAssumption DEF WatermarkInv, WatermarkTypeOK, U64Max
    <3>5. CASE s = next[r]
      BY <3>5, <3>2, <2>2, <1>1, <1>4, <1>6, MaxTimeAssumption DEF WatermarkInv, WatermarkTypeOK, U64Max
    <3> QED BY <3>3, <3>4, <3>5
  <2> QED BY <2>1, <2>2
<1>9. SafeLowWatermark' BY <1>5 DEF WatermarkInv, SafeLowWatermark, Readers, settings
<1> QED BY <1>6, <1>7, <1>8, <1>9 DEF WatermarkInv

(* Both ends of a call publish a value no larger than any cursor: the      *)
(* minimum of a complete scan, or the only slice's own cursor.             *)
LEMMA PublishIsSafe ==
  ASSUME WatermarkInv, NEW r \in Readers, PublishMinimum(r) \/ PublishSingle(r)
  PROVE  /\ latest_cursor_us' \in 0..MaxTime
         /\ latest_cursor_us' >= latest_cursor_us
         /\ \A s \in Readers : latest_cursor_us' <= slice_cursors[s]
         /\ UNCHANGED <<active_slices, slice_cursors>>
<1>1. r \in Slices /\ Readers \subseteq Slices BY ReadersAreSlices DEF WatermarkInv
<1>2. latest_cursor_us \in 0..MaxTime /\ \A s \in Readers : slice_cursors[s] \in 0..MaxTime
  BY <1>1 DEF WatermarkInv, WatermarkTypeOK
<1>3. \A s \in Readers : latest_cursor_us <= slice_cursors[s]
  BY DEF WatermarkInv, SafeLowWatermark
<1>4. CASE PublishMinimum(r)
  <2> DEFINE w == SafeWatermark(r)
  <2>1. min_val[r] \in 1..U64Max BY <1>1 DEF WatermarkInv, WatermarkTypeOK
  <2>2. w \in 0..MaxTime
    BY <2>1, MaxTimeAssumption DEF SafeWatermark, U64Max
  <2>3. \A s \in Readers : w <= slice_cursors[s]
    <3> SUFFICES ASSUME NEW s \in Readers PROVE w <= slice_cursors[s]
      OBVIOUS
    <3>1. CASE w = 0 BY <3>1, <1>2, MaxTimeAssumption
    <3>2. CASE w # 0
      <4>1. all_started[r] /\ w = min_val[r]
        BY <3>2 DEF SafeWatermark
      <4>2. s < next[r]
        BY <1>4, MaxSlicesAssumption DEF PublishMinimum, Readers, WatermarkInv, WatermarkTypeOK
      <4>3. min_val[r] <= slice_cursors[s]
        BY <4>1, <4>2, <1>1 DEF WatermarkInv, MinimumBelowScanned
      <4> QED BY <4>1, <4>3
    <3> QED BY <3>1, <3>2
  <2>4. latest_cursor_us' = FetchMax(latest_cursor_us, w)
    BY <1>4 DEF PublishMinimum
  <2> HIDE DEF w
  <2>5. /\ latest_cursor_us' \in {latest_cursor_us, w}
        /\ latest_cursor_us' >= latest_cursor_us
    BY <2>2, <2>4, <1>2, FetchMaxBounds, MaxTimeAssumption
  <2> QED BY <2>2, <2>3, <2>5, <1>2, <1>3, <1>4 DEF PublishMinimum, settings
<1>5. CASE PublishSingle(r)
  <2>1. PICK val \in Visible(r, r) : latest_cursor_us' = FetchMax(latest_cursor_us, val)
    BY <1>5 DEF PublishSingle
  <2>2. val \in 0..MaxTime /\ val <= slice_cursors[r]
    <3>1. slice_cursors[r] \in 0..MaxTime /\ history[r] \subseteq 0..MaxTime
      BY <1>1 DEF WatermarkInv, WatermarkTypeOK
    <3>2. CASE memory_order = "seqcst" BY <3>1, <3>2, MaxTimeAssumption DEF Visible
    <3>3. CASE memory_order # "seqcst"
      BY <3>1, <3>3, <1>1 DEF Visible, WatermarkInv, HistoryBelowCursor
    <3> QED BY <3>2, <3>3
  <2>3. \A s \in Readers : s = r
    BY <1>5 DEF PublishSingle, Readers
  <2>4. /\ latest_cursor_us' \in {latest_cursor_us, val}
        /\ latest_cursor_us' >= latest_cursor_us
    BY <2>1, <2>2, <1>2, FetchMaxBounds, MaxTimeAssumption
  <2> QED BY <2>2, <2>3, <2>4, <1>2, <1>3, <1>5 DEF PublishSingle, settings
<1> QED BY <1>4, <1>5

(* The end of a call keeps the invariant: its locals are reset and what it *)
(* publishes is safe.                                                      *)
LEMMA PublishKeepsWatermarkInv ==
  ASSUME WatermarkInv, NEW r \in Readers, PublishMinimum(r) \/ PublishSingle(r)
  PROVE  WatermarkInv'
<1>1. r \in Slices BY ReadersAreSlices DEF WatermarkInv
<1>2. Return(r) /\ UNCHANGED <<settings, slice_cursors, history>>
  BY DEF PublishMinimum, PublishSingle
<1>3. view' \in [Slices -> [Slices -> 0..MaxTime]]
  <2>1. CASE PublishMinimum(r) BY <2>1 DEF PublishMinimum, WatermarkInv, WatermarkTypeOK
  <2>2. CASE PublishSingle(r)
    <3>1. PICK val \in Visible(r, r) : view' = [view EXCEPT ![r][r] = val]
      BY <2>2 DEF PublishSingle
    <3>2. val \in 0..MaxTime
      BY <1>1 DEF Visible, WatermarkInv, WatermarkTypeOK
    <3> QED BY <1>1, <3>1, <3>2 DEF WatermarkInv, WatermarkTypeOK
  <2> QED BY <2>1, <2>2
<1>4. WatermarkTypeOK'
  <2>1. /\ pc' \in [Slices -> {"idle", "scan"}]
        /\ next' \in [Slices -> 0..MaxSlices]
        /\ all_started' \in [Slices -> BOOLEAN]
    BY <1>1, <1>2, MaxSlicesAssumption DEF Return, WatermarkInv, WatermarkTypeOK
  <2>2. min_val' \in [Slices -> 1..U64Max]
    BY <1>1, <1>2, MaxTimeAssumption DEF Return, WatermarkInv, WatermarkTypeOK, U64Max
  <2> QED BY <2>1, <2>2, <1>2, <1>3, PublishIsSafe DEF WatermarkInv, WatermarkTypeOK, settings
<1>5. HistoryBelowCursor' BY <1>2 DEF WatermarkInv, HistoryBelowCursor
<1>6. MinimumBelowScanned'
  <2> SUFFICES ASSUME NEW q \in Slices, NEW s \in Slices, s < next'[q], all_started'[q]
               PROVE  min_val'[q] <= slice_cursors[s]
    BY <1>2 DEF MinimumBelowScanned
  <2>1. q # r
    <3> SUFFICES ASSUME q = r PROVE FALSE
      OBVIOUS
    <3>1. next'[q] = 0 BY <1>1, <1>2 DEF Return, WatermarkInv, WatermarkTypeOK
    <3> QED BY <3>1, MaxSlicesAssumption DEF Slices
  <2>2. next'[q] = next[q] /\ min_val'[q] = min_val[q] /\ all_started'[q] = all_started[q]
    BY <2>1, <1>1, <1>2 DEF Return, WatermarkInv, WatermarkTypeOK
  <2> QED BY <2>2 DEF WatermarkInv, MinimumBelowScanned
<1>7. SafeLowWatermark'
  BY PublishIsSafe DEF SafeLowWatermark, Readers
<1> QED BY <1>4, <1>5, <1>6, <1>7 DEF WatermarkInv

(* Every step of every reader keeps the invariant.                         *)
LEMMA NextKeepsWatermarkInv == WatermarkInv /\ [WatermarkNext]_watermarkVars => WatermarkInv'
<1> SUFFICES ASSUME WatermarkInv, [WatermarkNext]_watermarkVars PROVE WatermarkInv'
  OBVIOUS
<1>1. CASE UNCHANGED watermarkVars
  BY <1>1 DEF WatermarkInv, WatermarkTypeOK, HistoryBelowCursor, MinimumBelowScanned, SafeLowWatermark,
              Readers, watermarkVars, settings, scan
<1>2. CASE WatermarkNext
  <2>1. PICK r \in Readers : \/ \E t \in Times : StoreSliceCursor(r, t)
                            \/ ScanSlice(r)
                            \/ PublishMinimum(r)
                            \/ PublishSingle(r)
    BY <1>2 DEF WatermarkNext
  <2>2. CASE \E t \in Times : StoreSliceCursor(r, t) BY <2>2, StoreKeepsWatermarkInv
  <2>3. CASE ScanSlice(r) BY <2>3, ScanKeepsWatermarkInv
  <2>4. CASE PublishMinimum(r) \/ PublishSingle(r) BY <2>4, PublishKeepsWatermarkInv
  <2> QED BY <2>1, <2>2, <2>3, <2>4
<1> QED BY <1>1, <1>2

(* The invariant holds throughout.                                         *)
LEMMA WatermarkInductive == WatermarkSpec => []WatermarkInv
<1> QED BY InitWatermarkInv, NextKeepsWatermarkInv, PTL DEF WatermarkSpec

(* Every variable keeps its type, the watermark and the scans' minima      *)
(* included: update_slice_cursor never publishes u64::MAX.                 *)
THEOREM WatermarkTyped == WatermarkSpec => []WatermarkTypeOK
<1>1. WatermarkInv => WatermarkTypeOK BY DEF WatermarkInv
<1> QED BY <1>1, WatermarkInductive, PTL

(* The published low watermark never passes a slice's cursor, for any      *)
(* number of slices and any interleaving of relaxed loads.                 *)
THEOREM WatermarkIsSafe == WatermarkSpec => []SafeLowWatermark
<1>1. WatermarkInv => SafeLowWatermark BY DEF WatermarkInv
<1> QED BY <1>1, WatermarkInductive, PTL

(* The code's initial cursors are an initial state of the abstract         *)
(* watermark.                                                              *)
LEMMA InitRefines == WatermarkInit => Abstract!Init
<1> SUFFICES ASSUME WatermarkInit PROVE Abstract!Init
  OBVIOUS
<1>1. WatermarkInv BY InitWatermarkInv
<1>2. Readers \in (SUBSET Slices) \ {{}} BY <1>1, ReadersAreSlices DEF WatermarkInv
<1>3. PICK c \in 0..MaxTime : slice_cursors = [s \in Slices |-> c] /\ latest_cursor_us = c
  BY DEF WatermarkInit
<1>4. latest_cursor_us \in Nat /\ slice_cursors = [s \in Slices |-> latest_cursor_us]
  BY <1>3, MaxTimeAssumption
<1> QED BY <1>2, <1>4 DEF Abstract!Init

(* A store is a Receive or, when the frame is not newer, invisible; a scan *)
(* step is invisible; the end of a call is a Publish or invisible.         *)
LEMMA StepRefines == WatermarkInv /\ [WatermarkNext]_watermarkVars => [Abstract!Next]_(Abstract!lwVars)
<1> SUFFICES ASSUME WatermarkInv, [WatermarkNext]_watermarkVars PROVE [Abstract!Next]_(Abstract!lwVars)
  OBVIOUS
<1> USE DEF Abstract!lwVars
<1>1. CASE UNCHANGED watermarkVars
  BY <1>1 DEF watermarkVars, settings, Readers
<1>2. ASSUME NEW r \in Readers, NEW t \in Times, StoreSliceCursor(r, t)
      PROVE  [Abstract!Next]_(Abstract!lwVars)
  <2> DEFINE stored == FetchMax(slice_cursors[r], t)
  <2>1. r \in Slices /\ slice_cursors \in [Slices -> 0..MaxTime]
    BY ReadersAreSlices DEF WatermarkInv, WatermarkTypeOK
  <2>2. slice_cursors[r] \in Nat /\ t \in Nat
    BY <2>1, MaxTimeAssumption DEF Times
  <2>3. stored \in Nat /\ stored >= slice_cursors[r]
    BY <2>2, FetchMaxBounds
  <2>4. /\ slice_cursors' = [slice_cursors EXCEPT ![r] = stored]
        /\ UNCHANGED <<Readers, latest_cursor_us>>
    BY <1>2 DEF StoreSliceCursor, settings, Readers
  <2> HIDE DEF stored
  <2>5. slice_cursors'[r] = stored
    BY <2>1, <2>4
  <2>6. CASE stored = slice_cursors[r]
    <3>1. slice_cursors' = slice_cursors BY <2>1, <2>4, <2>6
    <3> QED BY <3>1, <2>4
  <2>7. CASE stored # slice_cursors[r]
    <3>1. stored > slice_cursors[r] BY <2>2, <2>3, <2>7
    <3>2. Abstract!Receive(r)
      BY <3>1, <2>3, <2>4, <2>5 DEF Abstract!Receive
    <3> QED BY <3>2 DEF Abstract!Next
  <2> QED BY <2>6, <2>7
<1>3. ASSUME NEW r \in Readers, ScanSlice(r)
      PROVE  [Abstract!Next]_(Abstract!lwVars)
  BY <1>3 DEF ScanSlice, settings, Readers
<1>4. ASSUME NEW r \in Readers, PublishMinimum(r) \/ PublishSingle(r)
      PROVE  [Abstract!Next]_(Abstract!lwVars)
  <2>1. /\ latest_cursor_us' \in 0..MaxTime
        /\ latest_cursor_us' >= latest_cursor_us
        /\ \A s \in Readers : latest_cursor_us' <= slice_cursors[s]
        /\ UNCHANGED <<Readers, slice_cursors>>
    BY <1>4, PublishIsSafe DEF Readers
  <2>2. latest_cursor_us \in 0..MaxTime BY DEF WatermarkInv, WatermarkTypeOK
  <2>3. CASE latest_cursor_us' = latest_cursor_us BY <2>1, <2>3
  <2>4. CASE latest_cursor_us' # latest_cursor_us
    <3>1. latest_cursor_us' \in Nat /\ latest_cursor_us' > latest_cursor_us
      BY <2>1, <2>2, <2>4, MaxTimeAssumption
    <3>2. Abstract!Publish
      BY <2>1, <3>1 DEF Abstract!Publish, Abstract!Reached
    <3> QED BY <3>2 DEF Abstract!Next
  <2> QED BY <2>3, <2>4
<1>5. CASE WatermarkNext
  BY <1>2, <1>3, <1>4, <1>5 DEF WatermarkNext
<1> QED BY <1>1, <1>5

(* The readers' stores, scans and fetch_max implement the abstract         *)
(* watermark: every step is a Receive, a Publish or invisible.             *)
THEOREM WatermarkRefines == WatermarkSpec => ImplementsLowWatermark
<1> QED BY InitRefines, StepRefines, WatermarkInductive, PTL
        DEF WatermarkSpec, ImplementsLowWatermark, Abstract!Spec
-----------------------------------------------------------------------------
(* No progress is lost between concurrent calls.                           *)

(* A call's locals are fresh when it starts.                               *)
LocalsReset ==
  \A r \in Slices : pc[r] = "idle" => next[r] = 0 /\ min_val[r] = U64Max /\ all_started[r]

Beyond(w) == \A s \in Readers : slice_cursors[s] > w

(* A reader whose scan will publish more than w, unless it meets a cursor  *)
(* that is not beyond w.                                                   *)
Carries(r, w) == pc[r] = "scan" /\ all_started[r] /\ min_val[r] > w

(* A time every slice has passed is passed by the watermark too, or some   *)
(* scan under way is going to pass it.  For the watermark alone this is    *)
(* not inductive: what a scan publishes may already be overtaken.          *)
ProgressCarried ==
  memory_order = "seqcst" =>
    \A w \in 0..MaxTime : Beyond(w) => latest_cursor_us > w \/ \E r \in Readers : Carries(r, w)

TightInv == WatermarkInv /\ LocalsReset /\ ProgressCarried

LEMMA InitTight == WatermarkInit => TightInv
<1> SUFFICES ASSUME WatermarkInit PROVE TightInv
  OBVIOUS
<1>1. WatermarkInv /\ LocalsReset
  BY InitWatermarkInv DEF WatermarkInit, LocalsReset
<1>2. PICK r \in Readers : TRUE
  BY <1>1, ReadersAreSlices DEF WatermarkInv
<1>3. slice_cursors[r] = latest_cursor_us
  BY <1>1, ReadersAreSlices DEF WatermarkInit, WatermarkInv
<1> QED BY <1>1, <1>3 DEF TightInv, ProgressCarried, Beyond

LEMMA LocalsStayReset ==
  ASSUME WatermarkInv, LocalsReset, [WatermarkNext]_watermarkVars PROVE LocalsReset'
<1>1. CASE UNCHANGED watermarkVars
  BY <1>1 DEF LocalsReset, watermarkVars, scan
<1>2. ASSUME NEW r \in Readers, NEW t \in Times, StoreSliceCursor(r, t) PROVE LocalsReset'
  BY <1>2 DEF StoreSliceCursor, LocalsReset, WatermarkInv, WatermarkTypeOK
<1>3. ASSUME NEW r \in Readers, ScanSlice(r) PROVE LocalsReset'
  BY <1>3 DEF ScanSlice, LocalsReset, WatermarkInv, WatermarkTypeOK
<1>4. ASSUME NEW r \in Readers, PublishMinimum(r) \/ PublishSingle(r) PROVE LocalsReset'
  BY <1>4 DEF PublishMinimum, PublishSingle, Return, LocalsReset, WatermarkInv, WatermarkTypeOK
<1> QED BY <1>1, <1>2, <1>3, <1>4 DEF WatermarkNext

(* The store that takes the last slice beyond w starts a scan that carries *)
(* w; the others are where they were.                                      *)
LEMMA StoreKeepsProgress ==
  ASSUME TightInv, NEW q \in Readers, NEW t \in Times, StoreSliceCursor(q, t),
         memory_order = "seqcst", NEW w \in 0..MaxTime, Beyond(w)'
  PROVE  \E r \in Readers : Carries(r, w)'
<1>1. q \in Slices /\ pc[q] = "idle"
  BY ReadersAreSlices DEF TightInv, WatermarkInv, StoreSliceCursor
<1>2. pc'[q] = "scan" /\ min_val'[q] = U64Max /\ all_started'[q]
  BY <1>1 DEF StoreSliceCursor, TightInv, LocalsReset, WatermarkInv, WatermarkTypeOK
<1>3. U64Max > w
  BY MaxTimeAssumption DEF U64Max
<1> QED BY <1>2, <1>3 DEF Carries

(* A load sees the newest value, which is beyond w when every cursor is.   *)
LEMMA ScanKeepsProgress ==
  ASSUME TightInv, NEW q \in Readers, ScanSlice(q), memory_order = "seqcst",
         NEW w \in 0..MaxTime, Beyond(w), NEW r \in Readers, Carries(r, w)
  PROVE  Carries(r, w)'
<1>1. q \in Slices /\ r \in Slices
  BY ReadersAreSlices DEF TightInv, WatermarkInv
<1>2. pc' = pc
  BY DEF ScanSlice
<1>3. CASE r # q
  <2>1. min_val'[r] = min_val[r] /\ all_started'[r] = all_started[r]
    BY <1>1, <1>3 DEF ScanSlice, TightInv, WatermarkInv, WatermarkTypeOK
  <2> QED BY <1>2, <2>1 DEF Carries
<1>4. CASE r = q
  <2> DEFINE val == slice_cursors[next[q]]
  <2>1. /\ all_started' = [all_started EXCEPT ![q] = @ /\ val # 0]
        /\ min_val' = [min_val EXCEPT ![q] = IF val # 0 /\ val < @ THEN val ELSE @]
    BY DEF ScanSlice, Visible
  <2>2. next[q] \in Readers
    BY <1>1, MaxSlicesAssumption DEF ScanSlice, Readers, TightInv, WatermarkInv, WatermarkTypeOK
  <2>3. val > w /\ w \in Nat
    BY <2>2, MaxTimeAssumption DEF Beyond
  <2>4. val \in 0..MaxTime
    BY <2>2, ReadersAreSlices DEF TightInv, WatermarkInv, WatermarkTypeOK
  <2>5. all_started[q] /\ min_val[q] > w
    BY <1>4 DEF Carries
  <2> HIDE DEF val
  <2>6. val # 0
    BY <2>3, <2>4, MaxTimeAssumption
  <2>7. all_started'[q]
    BY <1>1, <2>1, <2>5, <2>6 DEF TightInv, WatermarkInv, WatermarkTypeOK
  <2>8. min_val'[q] > w
    BY <1>1, <2>1, <2>3, <2>5 DEF TightInv, WatermarkInv, WatermarkTypeOK
  <2> QED BY <1>2, <1>4, <2>7, <2>8 DEF Carries
<1> QED BY <1>3, <1>4

(* A call that ends hands what it carries to the watermark.                *)
LEMMA PublishKeepsProgress ==
  ASSUME TightInv, NEW q \in Readers, PublishMinimum(q) \/ PublishSingle(q),
         memory_order = "seqcst", NEW w \in 0..MaxTime, Beyond(w),
         latest_cursor_us > w \/ \E r \in Readers : Carries(r, w)
  PROVE  latest_cursor_us' > w \/ \E r \in Readers : Carries(r, w)'
<1>1. /\ q \in Slices /\ Readers \subseteq Slices /\ w \in Nat
      /\ latest_cursor_us \in 0..MaxTime /\ latest_cursor_us' \in 0..MaxTime
      /\ latest_cursor_us' >= latest_cursor_us
  BY ReadersAreSlices, PublishIsSafe, MaxTimeAssumption DEF TightInv, WatermarkInv, WatermarkTypeOK
<1>2. CASE latest_cursor_us > w
  BY <1>1, <1>2, MaxTimeAssumption
<1>3. ASSUME NEW r \in Readers, r # q, Carries(r, w) PROVE Carries(r, w)'
  <2>1. pc'[r] = pc[r] /\ min_val'[r] = min_val[r] /\ all_started'[r] = all_started[r]
    BY <1>1, <1>3 DEF PublishMinimum, PublishSingle, Return, TightInv, WatermarkInv, WatermarkTypeOK
  <2> QED BY <1>3, <2>1 DEF Carries
<1>4. CASE Carries(q, w) /\ PublishMinimum(q)
  <2>1. all_started[q] /\ min_val[q] > w /\ next[q] = active_slices /\ active_slices > 1
    BY <1>4 DEF Carries, PublishMinimum
  <2>2. 0 \in Slices /\ 0 < next[q]
    BY <2>1, MaxSlicesAssumption DEF Slices, TightInv, WatermarkInv, WatermarkTypeOK
  <2>3. min_val[q] <= slice_cursors[0]
    BY <1>1, <2>1, <2>2 DEF TightInv, WatermarkInv, MinimumBelowScanned
  <2>4. slice_cursors[0] \in 0..MaxTime /\ min_val[q] \in 1..U64Max
    BY <1>1, <2>2 DEF TightInv, WatermarkInv, WatermarkTypeOK
  <2>5. min_val[q] # U64Max
    BY <2>3, <2>4, MaxTimeAssumption DEF U64Max
  <2>6. SafeWatermark(q) = min_val[q]
    BY <2>1, <2>5 DEF SafeWatermark
  <2>7. latest_cursor_us' = FetchMax(latest_cursor_us, min_val[q])
    BY <1>4, <2>6 DEF PublishMinimum
  <2>8. latest_cursor_us' >= min_val[q]
    BY <1>1, <2>4, <2>7, FetchMaxBounds, MaxTimeAssumption DEF U64Max
  <2> QED BY <1>1, <2>1, <2>4, <2>8, MaxTimeAssumption DEF U64Max
<1>5. CASE PublishSingle(q)
  <2>1. latest_cursor_us' = FetchMax(latest_cursor_us, slice_cursors[q])
    BY <1>5 DEF PublishSingle, Visible
  <2>2. slice_cursors[q] \in 0..MaxTime /\ slice_cursors[q] > w
    BY <1>1 DEF Beyond, TightInv, WatermarkInv, WatermarkTypeOK
  <2>3. latest_cursor_us' >= slice_cursors[q]
    BY <1>1, <2>1, <2>2, FetchMaxBounds, MaxTimeAssumption
  <2> QED BY <1>1, <2>2, <2>3, MaxTimeAssumption
<1> QED BY <1>2, <1>3, <1>4, <1>5

LEMMA NextKeepsTight == TightInv /\ [WatermarkNext]_watermarkVars => TightInv'
<1> SUFFICES ASSUME TightInv, [WatermarkNext]_watermarkVars PROVE TightInv'
  OBVIOUS
<1>1. WatermarkInv' /\ LocalsReset'
  BY NextKeepsWatermarkInv, LocalsStayReset DEF TightInv
<1> SUFFICES ASSUME memory_order' = "seqcst", NEW w \in 0..MaxTime, Beyond(w)'
             PROVE  latest_cursor_us' > w \/ \E r \in Readers' : Carries(r, w)'
  BY <1>1 DEF TightInv, ProgressCarried
<1>2. CASE UNCHANGED watermarkVars
  BY <1>2 DEF TightInv, ProgressCarried, Beyond, Carries, Readers, watermarkVars, settings, scan
<1>3. ASSUME NEW q \in Readers, NEW t \in Times, StoreSliceCursor(q, t)
      PROVE  \E r \in Readers' : Carries(r, w)'
  <2>1. memory_order = "seqcst" /\ Readers' = Readers
    BY <1>3 DEF StoreSliceCursor, Readers, settings
  <2> QED BY <1>3, <2>1, StoreKeepsProgress
<1>4. ASSUME NEW q \in Readers, ScanSlice(q) \/ PublishMinimum(q) \/ PublishSingle(q)
      PROVE  latest_cursor_us' > w \/ \E r \in Readers' : Carries(r, w)'
  <2>1. memory_order = "seqcst" /\ Readers' = Readers /\ slice_cursors' = slice_cursors
    BY <1>4 DEF ScanSlice, PublishMinimum, PublishSingle, Readers, settings
  <2>2. Beyond(w)
    BY <2>1 DEF Beyond
  <2>3. latest_cursor_us > w \/ \E r \in Readers : Carries(r, w)
    BY <2>1, <2>2 DEF TightInv, ProgressCarried
  <2>4. CASE ScanSlice(q)
    <3>1. latest_cursor_us' = latest_cursor_us
      BY <2>4 DEF ScanSlice
    <3> QED BY <2>1, <2>2, <2>3, <2>4, <3>1, ScanKeepsProgress
  <2>5. CASE PublishMinimum(q) \/ PublishSingle(q)
    BY <2>1, <2>2, <2>3, <2>5, PublishKeepsProgress
  <2> QED BY <1>4, <2>4, <2>5
<1> QED BY <1>2, <1>3, <1>4 DEF WatermarkNext

(* Under sequential consistency, when no call is under way the watermark   *)
(* has caught up with the slowest slice, for any number of slices and      *)
(* however the scans overlapped the stores.                                *)
THEOREM WatermarkCatchesUp == WatermarkSpec => []TightWhenIdle
<1>1. TightInv => TightWhenIdle
  <2> SUFFICES ASSUME TightInv, memory_order = "seqcst", \A r \in Readers : pc[r] = "idle"
               PROVE  \E s \in Readers : latest_cursor_us >= slice_cursors[s]
    BY DEF TightWhenIdle
  <2>1. latest_cursor_us \in 0..MaxTime /\ \A s \in Readers : slice_cursors[s] \in 0..MaxTime
    BY ReadersAreSlices DEF TightInv, WatermarkInv, WatermarkTypeOK
  <2>2. ~Beyond(latest_cursor_us)
    BY <2>1, MaxTimeAssumption DEF TightInv, ProgressCarried, Carries
  <2> QED BY <2>1, <2>2, MaxTimeAssumption DEF Beyond
<1>2. WatermarkSpec => []TightInv
  BY InitTight, NextKeepsTight, PTL DEF WatermarkSpec
<1> QED BY <1>1, <1>2, PTL

(***************************************************************************)
(* Part two.  The life of the process (Lifecycle).                         *)
(***************************************************************************)

JobStates == {"none", "spawned", "queued", "ended"}

Typed ==
  /\ main \in {"up", "draining", "saving", "closing", "exited"}
  /\ aborted \in BOOLEAN /\ final_written \in BOOLEAN
  /\ boot \in {"hydrate", "check", "start", "run", "done"}
  /\ pruning \in {"wait", "job", "done"} /\ checkpointing \in {"wait", "job", "done"}
  /\ job \in [Jobs -> JobStates]
  /\ captured \in [Jobs -> 0..MaxCursor]
  /\ hydration_completed \in BOOLEAN /\ load_failed \in BOOLEAN
  /\ restored_cursor \in 0..MaxCursor /\ latest \in 0..MaxCursor
  /\ store \in {"none", "part", "all"}
  /\ disk \in [exists : BOOLEAN, data : {"none", "part", "all"}, cursor : 0..MaxCursor]

(* The slot, as a queue of the jobs that have started and not ended.       *)
QueueOf(s, js) == s \in Seq(Jobs) /\ IsInjective(s) /\ ToSet(s) = js
Queued == {j \in Jobs : job[j] = "queued"}
SlotOK == QueueOf(slot, Queued)

(* A task that waits for its timer has no job under way, and the final     *)
(* save is spawned when the drain is over.                                 *)
Idle == {"none", "ended"}
JobsOK ==
  /\ pruning = "wait" => job["prune"] \in Idle
  /\ checkpointing = "wait" => job["snapshot"] \in Idle
  /\ main \in {"up", "draining"} => job["final"] = "none"

(* Saves write the whole of what the load left.                            *)
Loaded == store = "all" \/ load_failed
Hydration ==
  /\ ~disk.exists => store = "all" /\ disk.cursor = NoCursor
  /\ hydration_completed => Loaded
  /\ boot = "hydrate" /\ job["hydrate"] = "ended" => Loaded
  /\ job["snapshot"] # "none" \/ job["final"] # "none" => hydration_completed
  /\ SnapshotPreserved

(* After a drain that met its deadline nothing but the final save writes.  *)
LastSave ==
  /\ main \in {"saving", "closing", "exited"} /\ ~aborted => Joined
  /\ checkpointing = "done" /\ ~aborted => job["snapshot"] \in Idle
  /\ job["final"] # "none" /\ ~aborted => captured["final"] = latest
  /\ final_written => job["final"] = "ended"
  /\ FinalSaveIsLast

(* The cursors a save carries are behind the ingester's, which starts no   *)
(* earlier than the file it was restored from.                             *)
Cursors ==
  /\ boot \in {"hydrate", "check", "start"} => latest = NoCursor
  /\ \A j \in Jobs : captured[j] <= latest
  /\ boot \in {"check", "start"} \/ (boot = "hydrate" /\ job["hydrate"] = "ended")
       => load_failed \/ disk.cursor <= restored_cursor
  /\ ~load_failed /\ (boot = "run" \/ latest # NoCursor) => disk.cursor <= latest

Inv == Typed /\ SlotOK /\ JobsOK /\ Hydration /\ LastSave /\ Cursors

(***************************************************************************)
(* The queue.                                                              *)
(***************************************************************************)

LEMMA Joins ==
  ASSUME NEW s, NEW js, NEW j \in Jobs, QueueOf(s, js), j \notin js
  PROVE  QueueOf(Append(s, j), js \union {j})
<1> DEFINE t == Append(s, j)
<1>1. /\ s \in Seq(Jobs) /\ Len(s) \in Nat
      /\ DOMAIN s = 1..Len(s) /\ DOMAIN t = 1..(Len(s) + 1)
      /\ t \in Seq(Jobs) /\ t[Len(s) + 1] = j
      /\ \A i \in 1..Len(s) : t[i] = s[i]
  BY DEF QueueOf
<1>2. ToSet(t) = js \union {j}
  BY <1>1 DEF QueueOf, ToSet
<1>3. IsInjective(t)
  <2> SUFFICES ASSUME NEW a \in 1..(Len(s) + 1), NEW b \in 1..(Len(s) + 1), t[a] = t[b]
               PROVE  a = b
    BY <1>1 DEF IsInjective
  <2>1. \A i \in 1..Len(s) : t[i] # j
    BY <1>1 DEF QueueOf, ToSet
  <2>2. CASE a \in 1..Len(s) /\ b \in 1..Len(s)
    BY <1>1, <2>2 DEF QueueOf, IsInjective
  <2>3. CASE a = Len(s) + 1 \/ b = Len(s) + 1
    BY <1>1, <2>1, <2>3
  <2> QED BY <1>1, <2>2, <2>3
<1> QED BY <1>1, <1>2, <1>3 DEF QueueOf

LEMMA Leaves ==
  ASSUME NEW s, NEW js, QueueOf(s, js), s # <<>>
  PROVE  Head(s) \in js /\ QueueOf(Tail(s), js \ {Head(s)})
<1> DEFINE t == Tail(s)
<1>1. /\ s \in Seq(Jobs) /\ Len(s) \in Nat \ {0}
      /\ DOMAIN s = 1..Len(s) /\ DOMAIN t = 1..(Len(s) - 1)
      /\ t \in Seq(Jobs) /\ Head(s) = s[1]
      /\ \A i \in 1..(Len(s) - 1) : t[i] = s[i + 1]
  BY DEF QueueOf
<1>2. \A a \in 1..Len(s), b \in 1..Len(s) : s[a] = s[b] => a = b
  BY <1>1 DEF QueueOf, IsInjective
<1>3. js = {s[i] : i \in 1..Len(s)}
  BY <1>1 DEF QueueOf, ToSet
<1>4. ToSet(t) = js \ {s[1]}
  <2>1. ASSUME NEW x \in ToSet(t) PROVE x \in js \ {s[1]}
    <3>1. PICK i \in 1..(Len(s) - 1) : x = s[i + 1]
      BY <1>1, <2>1 DEF ToSet
    <3>2. i + 1 \in 1..Len(s) /\ 1 \in 1..Len(s) /\ i + 1 # 1
      BY <1>1
    <3> QED BY <1>2, <1>3, <3>1, <3>2
  <2>2. ASSUME NEW x \in js \ {s[1]} PROVE x \in ToSet(t)
    <3>1. PICK i \in 1..Len(s) : x = s[i]
      BY <1>3, <2>2
    <3>2. i - 1 \in 1..(Len(s) - 1) /\ i = (i - 1) + 1
      BY <1>1, <2>2, <3>1
    <3> QED BY <1>1, <3>1, <3>2 DEF ToSet
  <2> QED BY <2>1, <2>2
<1>5. IsInjective(t)
  <2> SUFFICES ASSUME NEW a \in 1..(Len(s) - 1), NEW b \in 1..(Len(s) - 1), t[a] = t[b]
               PROVE  a = b
    BY <1>1 DEF IsInjective
  <2>1. a + 1 \in 1..Len(s) /\ b + 1 \in 1..Len(s) /\ s[a + 1] = s[b + 1]
    BY <1>1
  <2> QED BY <1>2, <2>1
<1>6. s[1] \in js
  BY <1>1, <1>3
<1> QED BY <1>1, <1>4, <1>5, <1>6 DEF QueueOf

(***************************************************************************)
(* The steps, by who takes them.                                           *)
(***************************************************************************)

BootStep == LoadSome \/ EndHydrate \/ HydratePanics \/ SetHydrated \/ CheckCancelled
IngestStep == SpawnCompaction \/ StartIngestion \/ Ingest \/ IngestionDrained
PeriodicStep == \/ PruneTick \/ PruneJoined \/ PruneStops
                \/ SnapshotTick \/ SnapshotJoined \/ SnapshotStops
MainStep == \/ Signal \/ DecideFinalSave \/ DrainTimeout
            \/ FinalSaved \/ FinalSaveTimeout \/ Exit

LEMMA Steps ==
  ASSUME Next
  PROVE  \/ \E j \in Jobs : Enqueue(j) \/ EndMaintenance(j) \/ EndSave(j)
         \/ BootStep \/ IngestStep \/ PeriodicStep \/ MainStep
  BY DEF Next, BootStep, IngestStep, PeriodicStep, MainStep

LEMMA TypedStep ==
  ASSUME Inv, [Next]_vars
  PROVE  Typed'
<1> USE LifecycleAssumption DEF Inv, Typed, JobStates, vars, tasks, jobs, memory, shutdown, file
<1>1. ASSUME NEW j \in Jobs, Enqueue(j) \/ EndMaintenance(j) \/ EndSave(j) PROVE Typed'
  <2>1. CASE Enqueue(j)
    BY <2>1 DEF Enqueue
  <2>2. CASE EndMaintenance(j)
    BY <2>2 DEF EndMaintenance, Release
  <2>3. CASE EndSave(j)
    <3>1. job' \in [Jobs -> JobStates] /\ captured' = captured
      BY <2>3 DEF EndSave, Release
    <3>2. disk' \in [exists : BOOLEAN, data : {"none", "part", "all"}, cursor : 0..MaxCursor]
      <4>1. captured[j] \in 0..MaxCursor
        OBVIOUS
      <4>2. CASE disk' = [exists |-> TRUE, data |-> store, cursor |-> captured[j]]
        BY <4>1, <4>2
      <4>3. CASE UNCHANGED file
        BY <4>3
      <4> QED BY <2>3, <4>2, <4>3 DEF EndSave
    <3>3. final_written' \in BOOLEAN
      BY <2>3, Zenon DEF EndSave
    <3> QED BY <2>3, <3>1, <3>2, <3>3 DEF EndSave
  <2> QED BY <1>1, <2>1, <2>2, <2>3
<1>2. CASE BootStep
  <2>1. CASE LoadSome
    BY <2>1 DEF LoadSome
  <2>5. CASE SetHydrated
    BY <2>5 DEF SetHydrated
  <2>4. CASE CheckCancelled
    BY <2>4 DEF CheckCancelled
  <2>2. CASE EndHydrate
    <3>1. job' \in [Jobs -> JobStates] /\ captured' = captured
      BY <2>2 DEF EndHydrate, Release
    <3>2. /\ store' \in {"none", "part", "all"} /\ restored_cursor' \in 0..MaxCursor
          /\ load_failed' \in BOOLEAN
      BY <2>2 DEF EndHydrate
    <3> QED BY <2>2, <3>1, <3>2 DEF EndHydrate
  <2>3. CASE HydratePanics
    <3>1. job' \in [Jobs -> JobStates] /\ captured' = captured
      BY <2>3 DEF HydratePanics, Release
    <3> QED BY <2>3, <3>1 DEF HydratePanics
  <2> QED BY <1>2, <2>1, <2>2, <2>3, <2>4, <2>5 DEF BootStep
<1>3. CASE IngestStep
  <2>1. "compact" \in Jobs /\ NoCursor \in 0..MaxCursor
    BY DEF Jobs, NoCursor
  <2>2. CASE SpawnCompaction
    BY <2>1, <2>2 DEF SpawnCompaction, Spawn
  <2>3. CASE StartIngestion
    BY <2>3 DEF StartIngestion, Larger
  <2>4. CASE Ingest \/ IngestionDrained
    BY <2>4 DEF Ingest, IngestionDrained
  <2> QED BY <1>3, <2>2, <2>3, <2>4 DEF IngestStep
<1>4. CASE PeriodicStep
  <2>1. {"prune", "snapshot"} \subseteq Jobs /\ NoCursor \in 0..MaxCursor
    BY DEF Jobs, NoCursor
  <2> QED BY <1>4, <2>1 DEF PeriodicStep, PruneTick, PruneJoined, PruneStops,
                            SnapshotTick, SnapshotJoined, SnapshotStops, Spawn
<1>5. CASE MainStep
  <2>1. "final" \in Jobs
    BY DEF Jobs
  <2>2. CASE DecideFinalSave
    BY <2>1, <2>2 DEF DecideFinalSave, Spawn
  <2>3. CASE DrainTimeout
    BY <2>3 DEF DrainTimeout
  <2>4. CASE Signal \/ FinalSaved \/ FinalSaveTimeout \/ Exit
    BY <2>4 DEF Signal, FinalSaved, FinalSaveTimeout, Exit
  <2> QED BY <1>5, <2>2, <2>3, <2>4 DEF MainStep
<1>6. CASE UNCHANGED vars
  BY <1>6
<1> QED BY <1>1, <1>2, <1>3, <1>4, <1>5, <1>6, Steps

(* What a step does to the jobs: nothing, or one of them is spawned again, *)
(* joins the queue, or leaves it.                                          *)
JobMoves ==
  \/ UNCHANGED <<job, slot>>
  \/ \E j \in Jobs : /\ job[j] # "queued" /\ slot' = slot
                     /\ job' = [job EXCEPT ![j] = "spawned"]
  \/ \E j \in Jobs : Enqueue(j) \/ Release(j)

LEMMA Moves ==
  ASSUME Inv, [Next]_vars
  PROVE  JobMoves
<1> USE DEF Inv, vars, tasks, jobs, memory, shutdown, file
<1>0. {"hydrate", "compact", "prune", "snapshot", "final"} \subseteq Jobs
  BY DEF Jobs
<1>1. ASSUME NEW j \in Jobs, Enqueue(j) \/ EndMaintenance(j) \/ EndSave(j) PROVE JobMoves
  BY <1>1 DEF EndMaintenance, EndSave, JobMoves
<1>2. CASE BootStep
  <2>1. CASE LoadSome \/ SetHydrated \/ CheckCancelled
    BY <2>1 DEF LoadSome, SetHydrated, CheckCancelled, JobMoves
  <2>2. CASE EndHydrate \/ HydratePanics
    <3>1. Release("hydrate")
      BY <2>2 DEF EndHydrate, HydratePanics
    <3> QED BY <1>0, <3>1 DEF JobMoves
  <2> QED BY <1>2, <2>1, <2>2 DEF BootStep
<1>3. CASE IngestStep
  <2>1. CASE SpawnCompaction
    BY <1>0, <2>1 DEF SpawnCompaction, Spawn, JobMoves
  <2>2. CASE StartIngestion \/ Ingest \/ IngestionDrained
    BY <2>2 DEF StartIngestion, Ingest, IngestionDrained, JobMoves
  <2> QED BY <1>3, <2>1, <2>2 DEF IngestStep
<1>4. CASE PeriodicStep
  <2>1. CASE PruneTick
    BY <1>0, <2>1 DEF PruneTick, Spawn, JobsOK, Idle, JobMoves
  <2>2. CASE SnapshotTick
    BY <1>0, <2>2 DEF SnapshotTick, Spawn, JobsOK, Idle, JobMoves
  <2>3. CASE PruneJoined \/ PruneStops \/ SnapshotJoined \/ SnapshotStops
    BY <2>3 DEF PruneJoined, PruneStops, SnapshotJoined, SnapshotStops, JobMoves
  <2> QED BY <1>4, <2>1, <2>2, <2>3 DEF PeriodicStep
<1>5. CASE MainStep
  <2>1. CASE DecideFinalSave
    BY <1>0, <2>1 DEF DecideFinalSave, Spawn, JobsOK, JobMoves
  <2>2. CASE Signal \/ DrainTimeout \/ FinalSaved \/ FinalSaveTimeout \/ Exit
    BY <2>2 DEF Signal, DrainTimeout, FinalSaved, FinalSaveTimeout, Exit, JobMoves
  <2> QED BY <1>5, <2>1, <2>2 DEF MainStep
<1>6. CASE UNCHANGED vars
  BY <1>6 DEF JobMoves
<1> QED BY <1>1, <1>2, <1>3, <1>4, <1>5, <1>6, Steps

LEMMA SlotStep ==
  ASSUME Inv, JobMoves
  PROVE  SlotOK'
<1>0. job \in [Jobs -> JobStates] /\ QueueOf(slot, Queued)
  BY DEF Inv, Typed, SlotOK
<1>1. CASE UNCHANGED <<job, slot>>
  BY <1>0, <1>1 DEF SlotOK, Queued
<1>2. ASSUME NEW j \in Jobs, job[j] # "queued", slot' = slot, job' = [job EXCEPT ![j] = "spawned"]
      PROVE  SlotOK'
  <2>1. Queued' = Queued
    BY <1>0, <1>2 DEF Queued
  <2> QED BY <1>0, <1>2, <2>1 DEF SlotOK
<1>3. ASSUME NEW j \in Jobs, Enqueue(j) PROVE SlotOK'
  <2>1. Queued' = Queued \union {j} /\ j \notin Queued
    BY <1>0, <1>3 DEF Queued, Enqueue
  <2>2. slot' = Append(slot, j)
    BY <1>3 DEF Enqueue
  <2> QED BY <1>0, <2>1, <2>2, Joins DEF SlotOK
<1>4. ASSUME NEW j \in Jobs, Release(j) PROVE SlotOK'
  <2>1. Queued' = Queued \ {j}
    BY <1>0, <1>4 DEF Queued, Release
  <2>2. slot' = Tail(slot) /\ slot # <<>> /\ Head(slot) = j
    BY <1>4 DEF Release, Holds
  <2> QED BY <1>0, <2>1, <2>2, Leaves DEF SlotOK
<1> QED BY <1>1, <1>2, <1>3, <1>4 DEF JobMoves

LEMMA JobsStep ==
  ASSUME Inv, [Next]_vars
  PROVE  JobsOK'
<1> USE DEF Inv, JobsOK, Idle, vars, tasks, jobs, memory, shutdown, file
<1>0. /\ {"hydrate", "compact", "prune", "snapshot", "final"} \subseteq Jobs
      /\ job \in [Jobs -> JobStates] /\ captured \in [Jobs -> 0..MaxCursor]
  BY DEF Jobs, Inv, Typed
<1>1. ASSUME NEW j \in Jobs, Enqueue(j) PROVE JobsOK'
  BY <1>0, <1>1 DEF Enqueue
<1>2. ASSUME NEW j \in Jobs, EndMaintenance(j) PROVE JobsOK'
  BY <1>0, <1>2 DEF EndMaintenance, Release
<1>3. ASSUME NEW j \in Jobs, EndSave(j) PROVE JobsOK'
  BY <1>0, <1>3 DEF EndSave, Release
<1>4. CASE BootStep
  <2>1. CASE LoadSome
    BY <1>0, <2>1 DEF LoadSome
  <2>2. CASE EndHydrate
    BY <1>0, <2>2 DEF EndHydrate, Release
  <2>3. CASE HydratePanics
    BY <1>0, <2>3 DEF HydratePanics, Release
  <2>4. CASE SetHydrated
    BY <1>0, <2>4 DEF SetHydrated
  <2>5. CASE CheckCancelled
    BY <1>0, <2>5 DEF CheckCancelled
  <2> QED BY <1>4, <2>1, <2>2, <2>3, <2>4, <2>5 DEF BootStep
<1>5. CASE IngestStep
  <2>1. CASE SpawnCompaction
    BY <1>0, <2>1 DEF SpawnCompaction, Spawn
  <2>2. CASE StartIngestion
    BY <1>0, <2>2 DEF StartIngestion
  <2>3. CASE Ingest
    BY <1>0, <2>3 DEF Ingest
  <2>4. CASE IngestionDrained
    BY <1>0, <2>4 DEF IngestionDrained
  <2> QED BY <1>5, <2>1, <2>2, <2>3, <2>4 DEF IngestStep
<1>6. CASE PeriodicStep
  <2>1. CASE PruneTick
    BY <1>0, <2>1 DEF PruneTick, Spawn
  <2>2. CASE SnapshotTick
    BY <1>0, <2>2 DEF SnapshotTick, Spawn
  <2>3. CASE PruneJoined \/ PruneStops
    BY <1>0, <2>3 DEF PruneJoined, PruneStops
  <2>4. CASE SnapshotJoined \/ SnapshotStops
    BY <1>0, <2>4 DEF SnapshotJoined, SnapshotStops
  <2> QED BY <1>6, <2>1, <2>2, <2>3, <2>4 DEF PeriodicStep
<1>7. CASE MainStep
  <2>1. CASE Signal
    BY <1>0, <2>1 DEF Signal
  <2>2. CASE DecideFinalSave
    BY <1>0, <2>2 DEF DecideFinalSave, Spawn
  <2>3. CASE DrainTimeout
    BY <1>0, <2>3 DEF DrainTimeout
  <2>4. CASE FinalSaved \/ FinalSaveTimeout \/ Exit
    BY <1>0, <2>4 DEF FinalSaved, FinalSaveTimeout, Exit
  <2> QED BY <1>7, <2>1, <2>2, <2>3, <2>4 DEF MainStep
<1>8. CASE UNCHANGED vars
  BY <1>8
<1> QED BY <1>1, <1>2, <1>3, <1>4, <1>5, <1>6, <1>7, <1>8, Steps

(* A save has waited for the flag, and the flag for the load.              *)
LEMMA HydrationStep ==
  ASSUME Inv, [Next]_vars
  PROVE  Hydration'
<1> USE DEF Inv, Hydration, Loaded, SnapshotPreserved, NoCursor, JobsOK, vars, tasks, jobs, memory, shutdown, file
<1>0. /\ {"hydrate", "compact", "prune", "snapshot", "final"} \subseteq Jobs
      /\ job \in [Jobs -> JobStates] /\ captured \in [Jobs -> 0..MaxCursor]
  BY DEF Jobs, Inv, Typed
<1>1. ASSUME NEW j \in Jobs, Enqueue(j) PROVE Hydration'
  BY <1>0, <1>1 DEF Enqueue
<1>2. ASSUME NEW j \in Jobs, EndMaintenance(j) PROVE Hydration'
  BY <1>0, <1>2 DEF EndMaintenance, Release
<1>3. ASSUME NEW j \in Jobs, EndSave(j) PROVE Hydration'
  BY <1>0, <1>3 DEF EndSave, Release
<1>4. CASE BootStep
  <2>1. CASE LoadSome
    BY <1>0, <2>1 DEF LoadSome
  <2>2. CASE EndHydrate
    BY <1>0, <2>2 DEF EndHydrate, Release
  <2>3. CASE HydratePanics
    BY <1>0, <2>3 DEF HydratePanics, Release
  <2>4. CASE SetHydrated
    BY <1>0, <2>4 DEF SetHydrated
  <2>5. CASE CheckCancelled
    BY <1>0, <2>5 DEF CheckCancelled
  <2> QED BY <1>4, <2>1, <2>2, <2>3, <2>4, <2>5 DEF BootStep
<1>5. CASE IngestStep
  <2>1. CASE SpawnCompaction
    BY <1>0, <2>1 DEF SpawnCompaction, Spawn
  <2>2. CASE StartIngestion
    BY <1>0, <2>2 DEF StartIngestion
  <2>3. CASE Ingest
    BY <1>0, <2>3 DEF Ingest
  <2>4. CASE IngestionDrained
    BY <1>0, <2>4 DEF IngestionDrained
  <2> QED BY <1>5, <2>1, <2>2, <2>3, <2>4 DEF IngestStep
<1>6. CASE PeriodicStep
  <2>1. CASE PruneTick
    BY <1>0, <2>1 DEF PruneTick, Spawn
  <2>2. CASE SnapshotTick
    BY <1>0, <2>2 DEF SnapshotTick, Spawn
  <2>3. CASE PruneJoined \/ PruneStops
    BY <1>0, <2>3 DEF PruneJoined, PruneStops
  <2>4. CASE SnapshotJoined \/ SnapshotStops
    BY <1>0, <2>4 DEF SnapshotJoined, SnapshotStops
  <2> QED BY <1>6, <2>1, <2>2, <2>3, <2>4 DEF PeriodicStep
<1>7. CASE MainStep
  <2>1. CASE Signal
    BY <1>0, <2>1 DEF Signal
  <2>2. CASE DecideFinalSave
    BY <1>0, <2>2 DEF DecideFinalSave, Spawn
  <2>3. CASE DrainTimeout
    BY <1>0, <2>3 DEF DrainTimeout
  <2>4. CASE FinalSaved \/ FinalSaveTimeout \/ Exit
    BY <1>0, <2>4 DEF FinalSaved, FinalSaveTimeout, Exit
  <2> QED BY <1>7, <2>1, <2>2, <2>3, <2>4 DEF MainStep
<1>8. CASE UNCHANGED vars
  BY <1>8
<1> QED BY <1>1, <1>2, <1>3, <1>4, <1>5, <1>6, <1>7, <1>8, Steps

(* Once the tasks are joined only the final save is spawned, and nothing   *)
(* advances the cursor it was given.                                       *)
LEMMA LastSaveStep ==
  ASSUME Inv, [Next]_vars
  PROVE  LastSave'
<1> USE DEF Inv, LastSave, JobsOK, Idle, Joined, FinalSaveIsLast, vars, tasks, jobs, memory, shutdown, file
<1>0. /\ {"hydrate", "compact", "prune", "snapshot", "final"} \subseteq Jobs
      /\ job \in [Jobs -> JobStates] /\ captured \in [Jobs -> 0..MaxCursor]
      /\ main \in {"up", "draining", "saving", "closing", "exited"}
  BY DEF Jobs, Inv, Typed
<1>9. job["final"] # "none" /\ ~aborted => boot = "done" /\ checkpointing = "done"
  BY <1>0
<1>1. ASSUME NEW j \in Jobs, Enqueue(j) PROVE LastSave'
  BY <1>0, <1>1 DEF Enqueue
<1>2. ASSUME NEW j \in Jobs, EndMaintenance(j) PROVE LastSave'
  BY <1>0, <1>2 DEF EndMaintenance, Release
<1>3. ASSUME NEW j \in Jobs, EndSave(j) PROVE LastSave'
  <2>1. /\ job[j] = "queued" /\ job' = [job EXCEPT ![j] = "ended"] /\ captured' = captured
        /\ latest' = latest /\ main' = main /\ aborted' = aborted
        /\ boot' = boot /\ pruning' = pruning /\ checkpointing' = checkpointing
    BY <1>3 DEF EndSave, Release
  <2>2. j = "final" \/ (j = "snapshot" /\ (aborted \/ checkpointing # "done"))
    BY <1>3, <2>1 DEF EndSave
  <2>3. final_written' => job'["final"] = "ended"
    <3>1. CASE j = "final"
      BY <1>0, <2>1, <3>1
    <3>2. CASE j # "final"
      <4>1. final_written' => final_written
        BY <1>3, <3>2 DEF EndSave
      <4> QED BY <1>0, <2>1, <3>2, <4>1
    <3> QED BY <3>1, <3>2
  <2>4. FinalSaveIsLast'
    <3>1. CASE aborted
      BY <2>1, <3>1
    <3>2. CASE ~aborted /\ j = "final"
      <4>1. disk'.cursor = latest \/ UNCHANGED file
        BY <1>0, <1>3, <2>1, <3>2 DEF EndSave
      <4> QED BY <2>1, <3>2, <4>1
    <3>3. CASE ~aborted /\ j = "snapshot"
      <4>1. ~final_written'
        <5>1. job["final"] = "none"
          BY <1>9, <2>2, <3>3
        <5> QED BY <1>0, <2>1, <2>3, <3>3, <5>1
      <4> QED BY <4>1
    <3> QED BY <2>2, <3>1, <3>2, <3>3
  <2> QED BY <1>0, <2>1, <2>3, <2>4
<1>4. CASE BootStep
  <2>1. CASE LoadSome
    BY <1>0, <2>1 DEF LoadSome
  <2>2. CASE EndHydrate
    BY <1>0, <2>2 DEF EndHydrate, Release
  <2>3. CASE HydratePanics
    BY <1>0, <2>3 DEF HydratePanics, Release
  <2>4. CASE SetHydrated
    BY <1>0, <2>4 DEF SetHydrated
  <2>5. CASE CheckCancelled
    BY <1>0, <2>5 DEF CheckCancelled
  <2> QED BY <1>4, <2>1, <2>2, <2>3, <2>4, <2>5 DEF BootStep
<1>5. CASE IngestStep
  <2>1. CASE SpawnCompaction
    BY <1>0, <2>1 DEF SpawnCompaction, Spawn
  <2>2. CASE StartIngestion
    BY <1>0, <1>9, <2>2 DEF StartIngestion
  <2>3. CASE Ingest
    BY <1>0, <1>9, <2>3 DEF Ingest
  <2>4. CASE IngestionDrained
    BY <1>0, <2>4 DEF IngestionDrained
  <2> QED BY <1>5, <2>1, <2>2, <2>3, <2>4 DEF IngestStep
<1>6. CASE PeriodicStep
  <2>1. CASE PruneTick
    BY <1>0, <2>1 DEF PruneTick, Spawn
  <2>2. CASE SnapshotTick
    BY <1>0, <2>2 DEF SnapshotTick, Spawn
  <2>3. CASE PruneJoined \/ PruneStops
    BY <1>0, <2>3 DEF PruneJoined, PruneStops
  <2>4. CASE SnapshotJoined \/ SnapshotStops
    BY <1>0, <2>4 DEF SnapshotJoined, SnapshotStops
  <2> QED BY <1>6, <2>1, <2>2, <2>3, <2>4 DEF PeriodicStep
<1>7. CASE MainStep
  <2>1. CASE Signal
    BY <1>0, <2>1 DEF Signal
  <2>2. CASE DecideFinalSave
    BY <1>0, <2>2 DEF DecideFinalSave, Spawn
  <2>3. CASE DrainTimeout
    BY <1>0, <2>3 DEF DrainTimeout
  <2>4. CASE FinalSaved \/ FinalSaveTimeout \/ Exit
    BY <1>0, <2>4 DEF FinalSaved, FinalSaveTimeout, Exit
  <2> QED BY <1>7, <2>1, <2>2, <2>3, <2>4 DEF MainStep
<1>8. CASE UNCHANGED vars
  BY <1>8
<1> QED BY <1>1, <1>2, <1>3, <1>4, <1>5, <1>6, <1>7, <1>8, Steps

(* A save carries what the ingester had reached when it was spawned; the   *)
(* ingester starts from what the load restored, or later.                  *)
LEMMA CursorsStep ==
  ASSUME Inv, [Next]_vars
  PROVE  Cursors'
<1> USE DEF Inv, Cursors, NoCursor, Hydration, vars, tasks, jobs, memory, shutdown, file
<1>0. /\ {"hydrate", "compact", "prune", "snapshot", "final"} \subseteq Jobs
      /\ job \in [Jobs -> JobStates] /\ captured \in [Jobs -> 0..MaxCursor]
      /\ latest \in Nat /\ restored_cursor \in Nat /\ disk.cursor \in Nat
      /\ \A j \in Jobs : captured[j] \in Nat
      /\ BackfillStarts \subseteq Nat
  BY LifecycleAssumption DEF Jobs, Inv, Typed
<1>1. ASSUME NEW j \in Jobs, Enqueue(j) PROVE Cursors'
  BY <1>0, <1>1 DEF Enqueue
<1>2. ASSUME NEW j \in Jobs, EndMaintenance(j) PROVE Cursors'
  BY <1>0, <1>2 DEF EndMaintenance, Release
<1>3. ASSUME NEW j \in Jobs, EndSave(j) PROVE Cursors'
  <2>1. /\ j # "hydrate" /\ job' = [job EXCEPT ![j] = "ended"] /\ captured' = captured
        /\ latest' = latest /\ boot' = boot /\ restored_cursor' = restored_cursor
        /\ load_failed' = load_failed
    BY <1>3 DEF EndSave, Release
  <2>2. disk'.cursor = disk.cursor \/ disk'.cursor <= latest
    BY <1>0, <1>3 DEF EndSave
  <2>3. disk'.cursor \in Nat /\ job'["hydrate"] = job["hydrate"]
    BY <1>0, <1>3, <2>1 DEF EndSave
  <2> QED BY <1>0, <2>1, <2>2, <2>3
<1>4. CASE BootStep
  <2>1. CASE LoadSome
    BY <1>0, <2>1 DEF LoadSome
  <2>2. CASE EndHydrate
    <3>1. /\ latest' = latest /\ boot' = boot /\ captured' = captured /\ disk' = disk
          /\ load_failed => load_failed'
          /\ load_failed' \/ disk.cursor <= restored_cursor'
      BY <1>0, <2>2 DEF EndHydrate, Release
    <3> QED BY <1>0, <2>2, <3>1
  <2>3. CASE HydratePanics
    BY <1>0, <2>3 DEF HydratePanics, Release
  <2>4. CASE SetHydrated
    BY <1>0, <2>4 DEF SetHydrated
  <2>5. CASE CheckCancelled
    BY <1>0, <2>5 DEF CheckCancelled
  <2> QED BY <1>4, <2>1, <2>2, <2>3, <2>4, <2>5 DEF BootStep
<1>5. CASE IngestStep
  <2>1. CASE SpawnCompaction
    BY <1>0, <2>1 DEF SpawnCompaction, Spawn
  <2>2. CASE StartIngestion
    BY <1>0, <2>2 DEF StartIngestion, Larger
  <2>3. CASE Ingest
    BY <1>0, <2>3 DEF Ingest
  <2>4. CASE IngestionDrained
    BY <1>0, <2>4 DEF IngestionDrained
  <2> QED BY <1>5, <2>1, <2>2, <2>3, <2>4 DEF IngestStep
<1>6. CASE PeriodicStep
  <2>1. CASE PruneTick
    BY <1>0, <2>1 DEF PruneTick, Spawn
  <2>2. CASE SnapshotTick
    BY <1>0, <2>2 DEF SnapshotTick, Spawn
  <2>3. CASE PruneJoined \/ PruneStops
    BY <1>0, <2>3 DEF PruneJoined, PruneStops
  <2>4. CASE SnapshotJoined \/ SnapshotStops
    BY <1>0, <2>4 DEF SnapshotJoined, SnapshotStops
  <2> QED BY <1>6, <2>1, <2>2, <2>3, <2>4 DEF PeriodicStep
<1>7. CASE MainStep
  <2>1. CASE Signal
    BY <1>0, <2>1 DEF Signal
  <2>2. CASE DecideFinalSave
    BY <1>0, <2>2 DEF DecideFinalSave, Spawn
  <2>3. CASE DrainTimeout
    BY <1>0, <2>3 DEF DrainTimeout
  <2>4. CASE FinalSaved \/ FinalSaveTimeout \/ Exit
    BY <1>0, <2>4 DEF FinalSaved, FinalSaveTimeout, Exit
  <2> QED BY <1>7, <2>1, <2>2, <2>3, <2>4 DEF MainStep
<1>8. CASE UNCHANGED vars
  BY <1>8
<1> QED BY <1>1, <1>2, <1>3, <1>4, <1>5, <1>6, <1>7, <1>8, Steps

(***************************************************************************)
(* The theorems.                                                           *)
(***************************************************************************)

LEMMA InitInv == Init => Inv
<1> SUFFICES ASSUME Init PROVE Inv
  OBVIOUS
<1>1. Typed
  <2>1. 0..(MaxCursor - 1) \subseteq 0..MaxCursor /\ 0 \in 0..MaxCursor
    BY LifecycleAssumption
  <2>2. job \in [Jobs -> JobStates]
    BY DEF Init, JobStates
  <2>3. disk \in [exists : BOOLEAN, data : {"none", "part", "all"}, cursor : 0..MaxCursor]
    BY <2>1 DEF Init, NoCursor
  <2> QED BY <2>1, <2>2, <2>3 DEF Init, Typed, NoCursor
<1>2. SlotOK
  <2>1. Queued = {}
    BY DEF Init, Queued
  <2>2. slot = <<>> /\ slot \in Seq(Jobs) /\ DOMAIN slot = {}
    BY DEF Init
  <2> QED BY <2>1, <2>2 DEF SlotOK, QueueOf, IsInjective, ToSet
<1>3. JobsOK
  BY DEF Init, JobsOK, Idle, Jobs
<1>4. Hydration
  <2>1. PICK exists \in BOOLEAN, cursor \in 0..(MaxCursor - 1) :
          /\ disk = [exists |-> exists, data |-> "all",
                     cursor |-> IF exists THEN cursor ELSE NoCursor]
          /\ hydration_completed = ~exists
          /\ store = IF exists THEN "none" ELSE "all"
    BY DEF Init
  <2>2. job["hydrate"] = "spawned" /\ job["snapshot"] = "none" /\ job["final"] = "none"
    BY DEF Init, Jobs
  <2>3. CASE exists
    BY <2>1, <2>2, <2>3 DEF Hydration, SnapshotPreserved
  <2>4. CASE ~exists
    BY <2>1, <2>2, <2>4 DEF Hydration, Loaded, SnapshotPreserved
  <2> QED BY <2>3, <2>4
<1>5. LastSave
  BY DEF Init, LastSave, Idle, FinalSaveIsLast, Jobs
<1>6. Cursors
  BY DEF Init, Cursors, NoCursor, Jobs
<1> QED BY <1>1, <1>2, <1>3, <1>4, <1>5, <1>6 DEF Inv

LEMMA Invariance == Spec => []Inv
<1>1. Inv /\ [Next]_vars => Inv'
  BY TypedStep, Moves, SlotStep, JobsStep, HydrationStep, LastSaveStep, CursorsStep DEF Inv
<1> QED BY InitInv, <1>1, PTL DEF Spec

(* Every variable keeps its type, and the save slot is held or awaited     *)
(* exactly once by each job that has started and not ended.                *)
THEOREM LifecycleTyped == Spec => []TypeOK
<1>1. Inv => TypeOK
  BY DEF Inv, Typed, SlotOK, QueueOf, Queued, JobStates, TypeOK
<1> QED BY Invariance, <1>1, PTL

(* No save overwrites the snapshot file with stores that hold less than it *)
(* held at boot, unless the load itself failed.                            *)
THEOREM FileSurvives == Spec => []SnapshotPreserved
<1>1. Inv => SnapshotPreserved
  BY DEF Inv, Hydration
<1> QED BY Invariance, <1>1, PTL

(* After a drain within the deadline no periodic save delayed by the slot  *)
(* replaces the final save: the file ends at the ingester's last cursor.   *)
THEOREM NothingAfterFinalSave == Spec => []FinalSaveIsLast
<1>1. Inv => FinalSaveIsLast
  BY DEF Inv, LastSave
<1> QED BY Invariance, <1>1, PTL

(* Only a job that saves writes the file.                                  *)
LEMMA OnlySavesWrite ==
  ASSUME [Next]_vars, disk' # disk
  PROVE  \E j \in {"snapshot", "final"} :
           /\ job[j] = "queued"
           /\ disk' = [exists |-> TRUE, data |-> store, cursor |-> captured[j]]
<1> USE DEF vars, tasks, jobs, memory, shutdown, file
<1>1. ASSUME NEW j \in Jobs, EndSave(j) PROVE j \in {"snapshot", "final"} /\ job[j] = "queued"
        /\ disk' = [exists |-> TRUE, data |-> store, cursor |-> captured[j]]
  BY <1>1 DEF EndSave, Release
<1>2. ASSUME NEW j \in Jobs PROVE ~Enqueue(j) /\ ~EndMaintenance(j)
  BY DEF Enqueue, EndMaintenance
<1>3. ~BootStep
  BY DEF BootStep, LoadSome, EndHydrate, HydratePanics, SetHydrated, CheckCancelled
<1>4. ~IngestStep
  BY DEF IngestStep, SpawnCompaction, StartIngestion, Ingest, IngestionDrained
<1>5. ~PeriodicStep
  BY DEF PeriodicStep, PruneTick, PruneJoined, PruneStops, SnapshotTick, SnapshotJoined, SnapshotStops
<1>6. ~MainStep
  BY DEF MainStep, Signal, DecideFinalSave, DrainTimeout, FinalSaved, FinalSaveTimeout, Exit
<1> QED BY <1>1, <1>2, <1>3, <1>4, <1>5, <1>6, Steps

(* A drained shutdown does not take the resume point of the file back,     *)
(* once the ingester has its cursor.                                       *)
THEOREM ResumePointKeptByDrain == Spec => ResumePointAdvances
<1>1. ASSUME Inv, [Next]_vars, disk.exists, ~load_failed, Joined, ~aborted, latest # NoCursor
      PROVE  disk'.cursor >= disk.cursor
  <2>0. disk.cursor \in Nat /\ latest \in Nat /\ disk.cursor <= latest
    BY <1>1 DEF Inv, Typed, Cursors
  <2>1. CASE disk' = disk
    BY <2>0, <2>1
  <2>2. CASE disk' # disk
    <3>1. PICK j \in {"snapshot", "final"} :
            /\ job[j] = "queued"
            /\ disk' = [exists |-> TRUE, data |-> store, cursor |-> captured[j]]
      BY <1>1, <2>2, OnlySavesWrite
    <3>2. job["snapshot"] \in Idle
      BY <1>1 DEF Inv, LastSave, Joined
    <3>3. j = "final"
      BY <3>1, <3>2 DEF Idle
    <3>4. captured["final"] = latest
      BY <1>1, <3>1, <3>3 DEF Inv, LastSave
    <3> QED BY <2>0, <3>1, <3>3, <3>4
  <2> QED BY <2>1, <2>2
<1> QED BY Invariance, <1>1, PTL DEF Spec, ResumePointAdvances

(***************************************************************************)
(* The shutdown needs no timer to go on.                                   *)
(***************************************************************************)

(* Whoever is waited for has been started.                                 *)
Started ==
  /\ job["hydrate"] # "none"
  /\ pruning = "job" => job["prune"] # "none"
  /\ checkpointing = "job" => job["snapshot"] # "none"
  /\ main = "saving" => job["final"] # "none"

(* A job has a thread to get, or holds the slot and ends (Enqueue;         *)
(* EndHydrate, EndMaintenance, EndSave).                                   *)
JobCanMove == \E j \in Jobs : job[j] = "spawned" \/ (Holds(j) /\ job[j] = "queued")

(* A task has what it awaits (SetHydrated, CheckCancelled, StartIngestion, *)
(* IngestionDrained; PruneJoined, PruneStops; SnapshotJoined,              *)
(* SnapshotStops).                                                         *)
TaskCanMove ==
  \/ boot = "hydrate" /\ job["hydrate"] = "ended"
  \/ boot \in {"check", "start"} \/ (boot = "run" /\ Cancelled)
  \/ pruning = "job" /\ job["prune"] = "ended"
  \/ pruning = "wait" /\ Cancelled
  \/ checkpointing = "job" /\ job["snapshot"] = "ended"
  \/ checkpointing = "wait" /\ Cancelled

(* main() has what it awaits (DecideFinalSave, FinalSaved, Exit).          *)
MainCanMove ==
  \/ main = "draining" /\ (Joined \/ aborted)
  \/ main = "saving" /\ job["final"] = "ended"
  \/ main = "closing" /\ \A j \in Jobs : job[j] # "queued"

ShutdownCanMove ==
  main \in {"draining", "saving", "closing"} => JobCanMove \/ TaskCanMove \/ MainCanMove

LEMMA JobsStayStarted ==
  ASSUME Inv, JobMoves, NEW k \in Jobs, job[k] # "none"
  PROVE  job'[k] # "none"
<1>1. job \in [Jobs -> JobStates]
  BY DEF Inv, Typed
<1> QED BY <1>1 DEF JobMoves, Enqueue, Release

LEMMA StartedStep ==
  ASSUME Inv, Started, [Next]_vars
  PROVE  Started'
<1>1. {"hydrate", "prune", "snapshot", "final"} \subseteq Jobs
  BY DEF Jobs
<1>2. \A k \in Jobs : job[k] # "none" => job'[k] # "none"
  BY Moves, JobsStayStarted
<1>3. job \in [Jobs -> JobStates]
  BY DEF Inv, Typed
<1>4. pruning' = "job" => job'["prune"] # "none"
  <2>1. pruning' = pruning \/ pruning' # "job" \/ PruneTick
    BY DEF Next, vars, tasks, jobs, memory, shutdown, file, Enqueue, EndMaintenance, EndSave,
       LoadSome, EndHydrate, HydratePanics, SetHydrated, CheckCancelled, SpawnCompaction,
       StartIngestion, Ingest, IngestionDrained, PruneJoined, PruneStops, SnapshotTick,
       SnapshotJoined, SnapshotStops, Signal, DecideFinalSave, DrainTimeout, FinalSaved,
       FinalSaveTimeout, Exit
  <2>2. PruneTick => job'["prune"] = "spawned"
    BY <1>1, <1>3 DEF PruneTick, Spawn
  <2> QED BY <1>1, <1>2, <2>1, <2>2 DEF Started
<1>5. checkpointing' = "job" => job'["snapshot"] # "none"
  <2>1. checkpointing' = checkpointing \/ checkpointing' # "job" \/ SnapshotTick
    BY DEF Next, vars, tasks, jobs, memory, shutdown, file, Enqueue, EndMaintenance, EndSave,
       LoadSome, EndHydrate, HydratePanics, SetHydrated, CheckCancelled, SpawnCompaction,
       StartIngestion, Ingest, IngestionDrained, PruneTick, PruneJoined, PruneStops,
       SnapshotJoined, SnapshotStops, Signal, DecideFinalSave, DrainTimeout, FinalSaved,
       FinalSaveTimeout, Exit
  <2>2. SnapshotTick => job'["snapshot"] = "spawned"
    BY <1>1, <1>3 DEF SnapshotTick, Spawn
  <2> QED BY <1>1, <1>2, <2>1, <2>2 DEF Started
<1>6. main' = "saving" => job'["final"] # "none"
  <2>1. main' = main \/ main' # "saving" \/ (DecideFinalSave /\ hydration_completed)
    BY DEF Next, vars, tasks, jobs, memory, shutdown, file, Enqueue, EndMaintenance, EndSave,
       LoadSome, EndHydrate, HydratePanics, SetHydrated, CheckCancelled, SpawnCompaction,
       StartIngestion, Ingest, IngestionDrained, PruneTick, PruneJoined, PruneStops,
       SnapshotTick, SnapshotJoined, SnapshotStops, Signal, DecideFinalSave, DrainTimeout,
       FinalSaved, FinalSaveTimeout, Exit
  <2>2. DecideFinalSave /\ hydration_completed => job'["final"] = "spawned"
    BY <1>1, <1>3 DEF DecideFinalSave, Spawn
  <2> QED BY <1>1, <1>2, <2>1, <2>2 DEF Started
<1> QED BY <1>1, <1>2, <1>4, <1>5, <1>6 DEF Started

(* From the signal to the exit nobody waits in a circle: some job, task or *)
(* main() itself can go on without a timer, because the first of the slot  *)
(* is always a job that runs, and whoever is waited for has been started.  *)
THEOREM ShutdownNeedsNoTimer == Spec => []ShutdownCanMove
<1>1. Init => Started
  BY DEF Init, Started, Jobs
<1>2. ASSUME Inv, Started, main \in {"draining", "saving", "closing"}, ~JobCanMove, ~TaskCanMove
      PROVE  MainCanMove
  <2>1. \A j \in Jobs : job[j] # "queued"
    <3> SUFFICES ASSUME NEW j \in Jobs, job[j] = "queued" PROVE FALSE
      OBVIOUS
    <3>1. QueueOf(slot, Queued) /\ j \in Queued
      BY <1>2 DEF Inv, SlotOK, Queued
    <3>2. slot # <<>>
      BY <3>1 DEF QueueOf, ToSet
    <3>3. Head(slot) \in Queued
      BY <3>1, <3>2, Leaves
    <3> QED BY <1>2, <3>2, <3>3 DEF JobCanMove, Holds, Queued
  <2>2. {"hydrate", "prune", "snapshot", "final"} \subseteq Jobs
    BY DEF Jobs
  <2>3. job \in [Jobs -> JobStates] /\ Cancelled
    BY <1>2 DEF Inv, Typed, Cancelled
  <2>4. \A j \in Jobs : job[j] \in {"none", "ended"}
    BY <1>2, <2>1, <2>3 DEF JobCanMove, JobStates
  <2>5. CASE main = "draining"
    <3>1. boot = "done" /\ pruning = "done" /\ checkpointing = "done"
      BY <1>2, <2>2, <2>3, <2>4 DEF Inv, Typed, Started, TaskCanMove
    <3> QED BY <2>5, <3>1 DEF MainCanMove, Joined
  <2>6. CASE main = "saving"
    BY <1>2, <2>2, <2>4, <2>6 DEF Started, MainCanMove
  <2>7. CASE main = "closing"
    BY <2>1, <2>7 DEF MainCanMove
  <2> QED BY <1>2, <2>5, <2>6, <2>7
<1>3. Inv /\ Started => ShutdownCanMove
  BY <1>2 DEF ShutdownCanMove
<1>4. Inv /\ Started /\ [Next]_vars => Started'
  BY StartedStep
<1> QED BY <1>1, <1>3, <1>4, Invariance, PTL DEF Spec

=============================================================================
