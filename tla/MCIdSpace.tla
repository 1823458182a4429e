------------------------------- MODULE MCIdSpace -------------------------------
EXTENDS IdSpace
CONSTANTS a, b, p, q, s1, s2

MCAuthor == [x \in {p, q} |-> a]
MCShardOf == [x \in {a, b, p, q} |-> IF x \in {a, b} THEN s1 ELSE s2]

(* The first file: a and p were pruned, b and q are still in use.          *)
Was(ids, names) == Entry(ids, names, TRUE)
MCStrings(didStrings, postStrings) == [s \in {s1, s2} |-> IF s = s1 THEN didStrings ELSE postStrings]
MCFile(stores) == [strings |-> MCStrings(<<a, b>>, <<p, q>>), store |-> stores,
                   kept |-> [st \in Stores |-> Names(stores[st])]]
MCEmpty == [strings |-> MCStrings(<<>>, <<>>), store |-> EmptyStores, kept |-> EmptyStores]
MCFull == MCFile([blocks |-> {},
                  edges |-> {Was(<<<<s1, 2>>, <<s2, 2>>>>, <<b, q>>)},
                  metadata |-> {},
                  preferences |-> {Was(<<<<s1, 2>>>>, <<b>>)},
                  impressions |-> {Was(<<<<s1, 2>>, <<s2, 1>>>>, <<b, p>>)}])
MCFiles == {MCEmpty, MCFull}

(* A crash before any save has begun boots from the first file again, as   *)
(* the initial states do.                                                  *)
MCNoIdleCrash == crashes <= saves

(* A save that is over leaves nothing in the process that a compaction     *)
(* reads, so only a save of the process before comes before a compaction.  *)
MCNoIdleSave == job = "compact" => saves = crashes
=============================================================================
