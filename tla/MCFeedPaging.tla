---------------------------- MODULE MCFeedPaging ----------------------------
(* Four posts by two authors, two of one conversation; one viewer also   *)
(* writes.  Accounts u1 and u2 endorse posts, u1 is followed by v1.        *)
EXTENDS FeedPaging

CONSTANTS d1, d2

MCDevices == {d1, d2}

MCPosts == 1..4
MCAuthorOf == <<"a1", "a1", "a1", "v1">>
MCRootOf == <<1, 2, 3, 2>>
MCTopicOf == <<1, 1, 2, 2>>
MCMixedTopics == <<1, 2, 1, 2>>   \* rounds of topics and the pool in one order
MCIsReply == {3}
MCIsNsfw == {}
MCEndorsed == [u1 |-> {1, 2}, u2 |-> {1, 3, 4}]
MCFollowsOf == [v1 |-> {"u1"}, v2 |-> {}]
MCRecovered == (0 :> 3) @@ (1 :> 10)
MCDefault == [weights |-> <<1, 1>>, include_replies |-> TRUE, no_nsfw |-> FALSE, min_likes |-> 0]
MCQuiet == [weights |-> <<0, 1>>, include_replies |-> TRUE, no_nsfw |-> TRUE, min_likes |-> 1]
MCDials == {MCDefault, MCQuiet}
MCViewers == {"v1", "v2"}
MCOwners == {(d1 :> "v1") @@ (d2 :> "v1"), (d1 :> "v1") @@ (d2 :> "v2"),
             (d1 :> "v2") @@ (d2 :> "v1"), (d1 :> "anonymous") @@ (d2 :> "anonymous")}

\* The devices are alike: every assignment is there with its mirror image.
Symmetry == Permutations(MCDevices)
=============================================================================
