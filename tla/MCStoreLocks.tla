---------------------------- MODULE MCStoreLocks ----------------------------
(* Two requests, the consumer and one maintenance job.                     *)
EXTENDS StoreLocks, TLC

CONSTANTS r1, r2

MCRequests == {r1, r2}
MCOneRequest == {r1}
MCSymmetry == Permutations(MCRequests)
=============================================================================
