---------------------------- MODULE LowWatermark ----------------------------
(***************************************************************************)
(* What the cursor bookkeeping of src/src/ingest.rs promises: "the safe    *)
(* low watermark across all active stream slices".  Slice cursors only     *)
(* grow, the watermark only grows, and whatever is published has been      *)
(* reached by every active slice, so that a restart from the watermark     *)
(* skips no slice's frames.                                                *)
(***************************************************************************)
EXTENDS Integers

CONSTANT Slice          \* the slices that have a cursor

VARIABLES
  active,               \* the slices that are being read
  cursor,               \* slice -> time of the newest frame received
  watermark             \* the resume point

lwVars == <<active, cursor, watermark>>

Reached(w) == \A s \in active : w <= cursor[s]

Init ==
  /\ active \in (SUBSET Slice) \ {{}}
  /\ watermark \in Nat
  /\ cursor = [s \in Slice |-> watermark]

Receive(s) ==
  /\ s \in active
  /\ cursor'[s] \in Nat
  /\ cursor'[s] > cursor[s]
  /\ cursor' = [cursor EXCEPT ![s] = cursor'[s]]
  /\ UNCHANGED <<active, watermark>>

Publish ==
  /\ watermark' \in Nat
  /\ watermark' > watermark
  /\ Reached(watermark')
  /\ UNCHANGED <<active, cursor>>

Next == Publish \/ \E s \in active : Receive(s)

Spec == Init /\ [][Next]_lwVars
=============================================================================
