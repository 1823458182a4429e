------------------------------ MODULE GraphStore ------------------------------
(***************************************************************************)
(* The interaction indexes of src/src/graph.rs under their two writers:    *)
(* the ingest consumer, which applies one event at a time                  *)
(* (apply_event_to_graph in src/src/ingest.rs), and a maintenance task,    *)
(* which runs prune_older_than while it holds the snapshot save slot.      *)
(*                                                                         *)
(* Each index has its own sharded locks and no operation holds two indexes *)
(* for writing, so every critical section is a step here and the two       *)
(* writers interleave between them.  Every identifier is given a shard of  *)
(* its own: sharing one only removes interleavings.  Follows and blocks    *)
(* are single critical sections that prune never touches, and the velocity *)
(* pool is VelocityPool's.                                                 *)
(***************************************************************************)
EXTENDS Integers, FiniteSets

CONSTANTS
  User,       \* interned DIDs
  Post,       \* interned AT-URIs
  Author,     \* post -> its author, which the URI names
  Signal,     \* Like, Repost, Quote
  MaxTime,    \* bound on timestamps
  MaxCalls,   \* bound on the number of events applied
  MaxPasses   \* bound on the number of prune passes

Times == 1..MaxTime

ASSUME GraphAssumption ==
  /\ Author \in [Post -> User]
  /\ MaxTime \in Nat \ {0} /\ MaxCalls \in Nat /\ MaxPasses \in Nat

NoTime == 0
NoCall == [op |-> "none"]

VARIABLES
  user_interactions,    \* user -> its edges [target, signal, ts]
  post_interactions,    \* post -> its edges [target, signal, ts]
  user_likes_bitmaps,   \* user -> posts
  post_metadata,        \* post -> created_at, or NoTime
  author_posts,         \* author -> posts
  post_topics,          \* the posts with a topic
  active_recent_posts,  \* post -> newest interaction, or NoTime
  call,                 \* the event being applied
  step,                 \* where the consumer stands in it
  users,                \* remove_post: the users still to be unlinked
  phase,                \* the index prune_older_than is at, or "idle"
  pending,              \* the shards it has still to visit there
  rebuilt,              \* the bitmap it has rebuilt and not yet swapped in
  valid_posts,          \* the posts whose metadata it kept
  cutoff,               \* the retention cutoff of the last pass
  raced_bits,           \* posts whose call overlapped a pass; a clean pass clears it
  raced_posts,          \* posts whose call ever overlapped a pass
  clean,                \* no call has overlapped the current pass
  calls, passes         \* what the bounds count

edges == <<user_interactions, post_interactions, user_likes_bitmaps>>
posts == <<post_metadata, author_posts, post_topics, active_recent_posts>>
consumer == <<call, step, users, calls>>
pruner == <<phase, pending, rebuilt, valid_posts, cutoff, passes>>
ghosts == <<raced_bits, raced_posts, clean>>
vars == <<edges, posts, consumer, pruner, ghosts>>

Edge(id, s, t) == [target |-> id, signal |-> s, ts |-> t]
Targets(es) == {e.target : e \in es}
Larger(a, b) == IF a > b THEN a ELSE b

Init ==
  /\ user_interactions = [u \in User |-> {}]
  /\ post_interactions = [p \in Post |-> {}]
  /\ user_likes_bitmaps = [u \in User |-> {}]
  /\ post_metadata = [p \in Post |-> NoTime]
  /\ author_posts = [u \in User |-> {}]
  /\ post_topics = {}
  /\ active_recent_posts = [p \in Post |-> NoTime]
  /\ call = NoCall /\ step = "idle" /\ users = {}
  /\ phase = "idle" /\ pending = {} /\ rebuilt = {} /\ valid_posts = {}
  /\ cutoff = 1
  /\ raced_bits = {} /\ raced_posts = {} /\ clean = FALSE
  /\ calls = 0 /\ passes = 0
-----------------------------------------------------------------------------
(* The consumer takes an event; a call that starts during a pass races it. *)
Begin(c) ==
  /\ step = "idle" /\ calls < MaxCalls
  /\ call' = c /\ calls' = calls + 1
  /\ LET raced == IF phase = "idle" THEN {} ELSE {c.post} IN
       /\ raced_bits' = raced_bits \cup raced
       /\ raced_posts' = raced_posts \cup raced
  /\ clean' = FALSE
  /\ UNCHANGED pruner

Return ==
  /\ step' = "idle" /\ call' = NoCall
  /\ UNCHANGED <<users, calls, pruner, ghosts>>

Goto(s) == step' = s /\ UNCHANGED <<call, users, calls, pruner, ghosts>>

(* A like, repost or quote.  A post the graph does not know first gets a   *)
(* placeholder, whose time is read off the record key or is the event's.   *)
BeginInteraction(u, p, s, t) ==
  /\ Begin([op |-> "interaction", user |-> u, post |-> p, signal |-> s, ts |-> t])
  /\ step' = IF post_metadata[p] = NoTime THEN "metadata" ELSE "forward"
  /\ UNCHANGED <<edges, posts, users>>

BeginPostMeta(p) ==
  /\ Begin([op |-> "meta", post |-> p])
  /\ step' = "metadata"
  /\ UNCHANGED <<edges, posts, users>>

(* record_post_meta, first lock.  The author of a post never changes, so   *)
(* the unlinking of a previous author has nothing to do.                   *)
InsertMetadata(created) ==
  /\ step = "metadata"
  /\ post_metadata' = [post_metadata EXCEPT ![call.post] = created]
  /\ Goto("author")
  /\ UNCHANGED <<edges, author_posts, post_topics, active_recent_posts>>

(* record_post_meta, second lock.                                          *)
LinkAuthor ==
  /\ step = "author"
  /\ author_posts' = [author_posts EXCEPT ![Author[call.post]] = @ \cup {call.post}]
  /\ IF call.op = "meta" THEN Goto("topic") ELSE Goto("forward")
  /\ UNCHANGED <<edges, post_metadata, post_topics, active_recent_posts>>

(* A post whose text, author or URI yields no topic gets none.             *)
RecordTopic(classified) ==
  /\ step = "topic"
  /\ post_topics' = post_topics \cup (IF classified THEN {call.post} ELSE {})
  /\ Return
  /\ UNCHANGED <<edges, post_metadata, author_posts, active_recent_posts>>

(* Mutant: no check for a duplicate.                                       *)
WithEdge_Unchecked(es, e) == es \cup {e}

(* record_interaction: one lock per index.  An edge with the same target   *)
(* and signal is kept as it is, old timestamp included.                    *)
WithEdge(es, e) ==
  IF \E f \in es : f.target = e.target /\ f.signal = e.signal THEN es ELSE es \cup {e}

RecordForward ==
  /\ step = "forward"
  /\ user_interactions' =
       [user_interactions EXCEPT
          ![call.user] = WithEdge(@, Edge(call.post, call.signal, call.ts))]
  /\ Goto("reverse")
  /\ UNCHANGED <<post_interactions, user_likes_bitmaps, posts>>

(* Mutant: the reverse edge is refreshed instead of kept.                  *)
RecordReverse_Refresh ==
  /\ step = "reverse"
  /\ post_interactions' =
       [post_interactions EXCEPT
          ![call.post] = {e \in @ : e.target # call.user \/ e.signal # call.signal}
                           \cup {Edge(call.user, call.signal, call.ts)}]
  /\ Goto("bitmap")
  /\ UNCHANGED <<user_interactions, user_likes_bitmaps, posts>>

RecordReverse ==
  /\ step = "reverse"
  /\ post_interactions' =
       [post_interactions EXCEPT
          ![call.post] = WithEdge(@, Edge(call.user, call.signal, call.ts))]
  /\ Goto("bitmap")
  /\ UNCHANGED <<user_interactions, user_likes_bitmaps, posts>>

RecordBitmap ==
  /\ step = "bitmap"
  /\ user_likes_bitmaps' = [user_likes_bitmaps EXCEPT ![call.user] = @ \cup {call.post}]
  /\ Goto("active")
  /\ UNCHANGED <<user_interactions, post_interactions, posts>>

(* Mutant: a late event overwrites a newer time.                           *)
RecordActive_Overwrite ==
  /\ step = "active"
  /\ active_recent_posts' = [active_recent_posts EXCEPT ![call.post] = call.ts]
  /\ Return
  /\ UNCHANGED <<edges, post_metadata, author_posts, post_topics>>

RecordActive ==
  /\ step = "active"
  /\ active_recent_posts' = [active_recent_posts EXCEPT ![call.post] = Larger(@, call.ts)]
  /\ Return
  /\ UNCHANGED <<edges, post_metadata, author_posts, post_topics>>
-----------------------------------------------------------------------------
(* remove_post: the reverse edges are taken, and name the users to unlink. *)
BeginDelete(p) ==
  /\ Begin([op |-> "delete", post |-> p])
  /\ users' = Targets(post_interactions[p])
  /\ post_interactions' = [post_interactions EXCEPT ![p] = {}]
  /\ step' = IF users' = {} THEN "unmeta" ELSE "unforward"
  /\ UNCHANGED <<user_interactions, user_likes_bitmaps, posts>>

(* The forward edges of one user.  The edges are visited in their order of *)
(* arrival, which any order of the users stands for; the call remembers    *)
(* the user and whether it was left without an edge.                       *)
UnlinkForward(u) ==
  /\ step = "unforward" /\ u \in users
  /\ LET kept == {e \in user_interactions[u] : e.target # call.post} IN
       /\ user_interactions' = [user_interactions EXCEPT ![u] = kept]
       /\ call' = [op |-> "delete", post |-> call.post, user |-> u,
                   u_empty |-> kept = {} /\ user_interactions[u] # {}]
  /\ step' = "unbitmap"
  /\ UNCHANGED <<post_interactions, user_likes_bitmaps, posts, users, calls, pruner, ghosts>>

(* Mutant: only users left without an edge lose the bit.                   *)
UnlinkBitmap_OnlyEmpty ==
  /\ step = "unbitmap"
  /\ user_likes_bitmaps' =
       [user_likes_bitmaps EXCEPT ![call.user] = IF call.u_empty THEN {} ELSE @]
  /\ users' = users \ {call.user}
  /\ call' = [op |-> "delete", post |-> call.post]
  /\ step' = IF users' = {} THEN "unmeta" ELSE "unforward"
  /\ UNCHANGED <<user_interactions, post_interactions, posts, calls, pruner, ghosts>>

UnlinkBitmap ==
  /\ step = "unbitmap"
  /\ user_likes_bitmaps' =
       [user_likes_bitmaps EXCEPT ![call.user] = IF call.u_empty THEN {} ELSE @ \ {call.post}]
  /\ users' = users \ {call.user}
  /\ call' = [op |-> "delete", post |-> call.post]
  /\ step' = IF users' = {} THEN "unmeta" ELSE "unforward"
  /\ UNCHANGED <<user_interactions, post_interactions, posts, calls, pruner, ghosts>>

RemoveMetadata ==
  /\ step = "unmeta"
  /\ post_metadata' = [post_metadata EXCEPT ![call.post] = NoTime]
  /\ Goto(IF post_metadata[call.post] = NoTime THEN "untopic" ELSE "unauthor")
  /\ UNCHANGED <<edges, author_posts, post_topics, active_recent_posts>>

UnlinkAuthor ==
  /\ step = "unauthor"
  /\ author_posts' = [author_posts EXCEPT ![Author[call.post]] = @ \ {call.post}]
  /\ Goto("untopic")
  /\ UNCHANGED <<edges, post_metadata, post_topics, active_recent_posts>>

RemoveTopic ==
  /\ step = "untopic"
  /\ post_topics' = post_topics \ {call.post}
  /\ Goto("unactive")
  /\ UNCHANGED <<edges, post_metadata, author_posts, active_recent_posts>>

RemoveActive ==
  /\ step = "unactive"
  /\ active_recent_posts' = [active_recent_posts EXCEPT ![call.post] = NoTime]
  /\ Return
  /\ UNCHANGED <<edges, post_metadata, author_posts, post_topics>>
-----------------------------------------------------------------------------
(* prune_older_than visits the indexes in this order, shard by shard.      *)
Shards(ph) ==
  IF ph \in {"forward", "authors", "bitmaps"} THEN User
  ELSE IF ph \in {"reverse", "active", "metadata", "topics"} THEN Post ELSE {}

After(ph) ==
  CASE ph = "forward" -> "reverse" [] ph = "reverse" -> "active"
    [] ph = "active" -> "metadata" [] ph = "metadata" -> "authors"
    [] ph = "authors" -> "topics"  [] ph = "topics" -> "bitmaps"
    [] ph = "bitmaps" -> "finish"

BeginPrune(c) ==
  /\ phase = "idle" /\ passes < MaxPasses
  /\ cutoff' = c /\ passes' = passes + 1
  /\ phase' = "forward" /\ pending' = User /\ valid_posts' = {}
  /\ LET raced == IF step = "idle" THEN {} ELSE {call.post} IN
       /\ raced_bits' = raced_bits \cup raced
       /\ raced_posts' = raced_posts \cup raced
  /\ clean' = (step = "idle")
  /\ UNCHANGED <<edges, posts, consumer, rebuilt>>

Visit(id) ==
  /\ id \in pending
  /\ IF pending = {id}
     THEN phase' = After(phase) /\ pending' = Shards(After(phase))
     ELSE phase' = phase /\ pending' = pending \ {id}
  /\ UNCHANGED <<consumer, cutoff, passes, ghosts>>

Fresh(es) == {e \in es : e.ts >= cutoff}

PruneForward(u) ==
  /\ phase = "forward" /\ Visit(u)
  /\ user_interactions' = [user_interactions EXCEPT ![u] = Fresh(@)]
  /\ UNCHANGED <<post_interactions, user_likes_bitmaps, posts, rebuilt, valid_posts>>

PruneReverse(p) ==
  /\ phase = "reverse" /\ Visit(p)
  /\ post_interactions' = [post_interactions EXCEPT ![p] = Fresh(@)]
  /\ UNCHANGED <<user_interactions, user_likes_bitmaps, posts, rebuilt, valid_posts>>

PruneActive(p) ==
  /\ phase = "active" /\ Visit(p)
  /\ active_recent_posts' =
       [active_recent_posts EXCEPT ![p] = IF @ >= cutoff THEN @ ELSE NoTime]
  /\ UNCHANGED <<edges, post_metadata, author_posts, post_topics, rebuilt, valid_posts>>

PruneMetadata(p) ==
  /\ phase = "metadata" /\ Visit(p)
  /\ LET keep == post_metadata[p] # NoTime /\ post_metadata[p] >= cutoff IN
       /\ post_metadata' = [post_metadata EXCEPT ![p] = IF keep THEN @ ELSE NoTime]
       /\ valid_posts' = valid_posts \cup (IF keep THEN {p} ELSE {})
  /\ UNCHANGED <<edges, author_posts, post_topics, active_recent_posts, rebuilt>>

PruneAuthors(u) ==
  /\ phase = "authors" /\ Visit(u)
  /\ author_posts' = [author_posts EXCEPT ![u] = @ \cap valid_posts]
  /\ UNCHANGED <<edges, post_metadata, post_topics, active_recent_posts, rebuilt, valid_posts>>

(* Mutant: the topics are left alone.                                      *)
PruneTopics_Skip(p) ==
  /\ phase = "topics" /\ Visit(p)
  /\ UNCHANGED <<edges, posts, rebuilt, valid_posts>>

PruneTopics(p) ==
  /\ phase = "topics" /\ Visit(p)
  /\ post_topics' = IF p \in valid_posts \/ post_interactions[p] # {}
                    THEN post_topics ELSE post_topics \ {p}
  /\ UNCHANGED <<edges, post_metadata, author_posts, active_recent_posts, rebuilt, valid_posts>>

(* The bitmaps of a shard are rebuilt under the forward lock ...           *)
RebuildBitmap(u) ==
  /\ phase = "bitmaps" /\ rebuilt = {} /\ u \in pending
  /\ rebuilt' = {[user |-> u, bitmap |-> Targets(user_interactions[u])]}
  /\ UNCHANGED <<edges, posts, consumer, phase, pending, valid_posts, cutoff, passes, ghosts>>

(* ... and swapped in under the bitmap lock, the first one released.       *)
SwapBitmap ==
  /\ \E b \in rebuilt :
       /\ Visit(b.user)
       /\ user_likes_bitmaps' = [user_likes_bitmaps EXCEPT ![b.user] = b.bitmap]
  /\ rebuilt' = {}
  /\ UNCHANGED <<user_interactions, post_interactions, posts, valid_posts>>

FinishPrune ==
  /\ phase = "finish"
  /\ phase' = "idle"
  /\ raced_bits' = IF clean THEN {} ELSE raced_bits
  /\ UNCHANGED <<edges, posts, consumer, pending, rebuilt, valid_posts, cutoff, passes,
                 raced_posts, clean>>
-----------------------------------------------------------------------------
Consume ==
  \/ \E p \in Post :
       \/ \E u \in User, s \in Signal, t \in Times : BeginInteraction(u, p, s, t)
       \/ BeginPostMeta(p)
       \/ BeginDelete(p)
  \/ \E t \in Times : InsertMetadata(t)
  \/ LinkAuthor
  \/ \E classified \in BOOLEAN : RecordTopic(classified)
  \/ RecordForward \/ RecordReverse \/ RecordBitmap \/ RecordActive
  \/ \E u \in User : UnlinkForward(u)
  \/ UnlinkBitmap \/ RemoveMetadata \/ UnlinkAuthor \/ RemoveTopic \/ RemoveActive

Prune ==
  \/ \E c \in cutoff..MaxTime : BeginPrune(c)
  \/ \E u \in User : PruneForward(u) \/ PruneAuthors(u) \/ RebuildBitmap(u)
  \/ \E p \in Post : PruneReverse(p) \/ PruneActive(p) \/ PruneMetadata(p) \/ PruneTopics(p)
  \/ SwapBitmap \/ FinishPrune

Next == Consume \/ Prune

Spec == Init /\ [][Next]_vars
-----------------------------------------------------------------------------
Edges(Id) == [target : Id, signal : Signal, ts : Times]
OnePerSignal(es) == \A e, f \in es : e.target = f.target /\ e.signal = f.signal => e = f

(* The exact-duplicate check of record_interaction holds: an adjacency     *)
(* list has at most one edge for a target and a signal.                    *)
TypeOK ==
  /\ user_interactions \in [User -> SUBSET Edges(Post)]
  /\ post_interactions \in [Post -> SUBSET Edges(User)]
  /\ \A u \in User : OnePerSignal(user_interactions[u])
  /\ \A p \in Post : OnePerSignal(post_interactions[p])
  /\ user_likes_bitmaps \in [User -> SUBSET Post]
  /\ post_metadata \in [Post -> 0..MaxTime]
  /\ author_posts \in [User -> SUBSET Post]
  /\ post_topics \subseteq Post
  /\ active_recent_posts \in [Post -> 0..MaxTime]
  /\ users \subseteq User
  /\ phase \in {"idle", "forward", "reverse", "active", "metadata", "authors",
                "topics", "bitmaps", "finish"}
  /\ pending \subseteq Shards(phase) /\ valid_posts \subseteq Post
  /\ cutoff \in Times

Quiet == step = "idle" /\ phase = "idle"

(* Taste similarity is computed from the bitmaps and candidates from the   *)
(* edges: between calls and passes the two name the same posts, except for *)
(* posts whose call overlapped a pass (prune_older_than swaps in a bitmap  *)
(* it rebuilt under a lock it has released), and the next pass that no     *)
(* call overlaps repairs those too.                                        *)
BitmapsMatchEdges ==
  Quiet => \A u \in User :
    user_likes_bitmaps[u] \ raced_bits = Targets(user_interactions[u]) \ raced_bits

(* Both directions of the graph hold the same edges with the same times,   *)
(* through recordings, deletions of posts and prune passes, for every post *)
(* none of whose calls overlapped a pass.                                  *)
DirectionsAgree ==
  Quiet => \A u \in User, p \in Post \ raced_posts, s \in Signal, t \in Times :
    Edge(p, s, t) \in user_interactions[u] <=> Edge(u, s, t) \in post_interactions[p]

(* The author index lists exactly the posts with metadata, and a topic is  *)
(* kept only for a post the graph still knows.                             *)
IndexesFollowMetadata ==
  Quiet => \A p \in Post \ raced_posts :
    /\ p \in author_posts[Author[p]] <=> post_metadata[p] # NoTime
    /\ p \in post_topics => post_metadata[p] # NoTime \/ post_interactions[p] # {}

(* The velocity pool's fallback scan looks at active_recent_posts only: a  *)
(* post is at least as recent there as its newest edge.                    *)
RecentCoversEdges ==
  Quiet => \A p \in Post \ raced_posts : \A e \in post_interactions[p] :
    active_recent_posts[p] >= e.ts

(* What the comment above the pass over author_posts says it does: "remove *)
(* posts that are no longer in post_metadata", and no others.              *)
AuthorLinksFollowMetadata ==
  [][\A p \in Post :
       p \in author_posts[Author[p]] \ author_posts'[Author[p]] =>
         post_metadata[p] = NoTime]_vars
=============================================================================
