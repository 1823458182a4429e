---------------------------- MODULE MCVelocityPool ----------------------------
EXTENDS VelocityPool, TLC
CONSTANTS u1, p1, p2, r1, r2
Symmetry == Permutations(Post) \cup Permutations(Reader)
=============================================================================
