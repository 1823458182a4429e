------------------------------ MODULE WallClock ------------------------------
(* The clock of the process, SystemTime::now, in units of the model.       *)
EXTENDS Naturals

CONSTANT MaxNow   \* bound: the clock

ASSUME WallClockAssumption == MaxNow \in Nat

VARIABLE now

Ago(n) == IF now < n THEN 0 ELSE now - n

Advance == now < MaxNow /\ now' = now + 1
=============================================================================
