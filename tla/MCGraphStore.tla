---------------------------- MODULE MCGraphStore ----------------------------
EXTENDS GraphStore, TLC
CONSTANTS alice, bob, p1, p2, like
(* One user has written all the posts, which makes the posts symmetric.    *)
MCAuthor == [p \in Post |-> alice]
Symmetry == Permutations(Post)
=============================================================================
