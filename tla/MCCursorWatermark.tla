-------------------------- MODULE MCCursorWatermark --------------------------
(* Three slices are the fewest for which a scan can overlap two other      *)
(* readers at different points; three times let a stale minimum, the       *)
(* published value and the true minimum all differ.                        *)
EXTENDS CursorWatermark
=============================================================================
