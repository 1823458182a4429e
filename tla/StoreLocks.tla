----------------------------- MODULE StoreLocks -----------------------------
(***************************************************************************)
(* Which locks the calls of the program hold together.  An index of        *)
(* GraphStore is an array of shards, each a RwLock; the interner likewise. *)
(* The activity log and the velocity cache are one lock each: they are     *)
(* given shards too, and a call that only ever uses the first is among     *)
(* those below.                                                            *)
(* A closure passed to with_post_interactions and its like runs under the  *)
(* guard, so what it looks up nests.  The operators below are the chains   *)
(* of each call, over any shards its identifiers may fall into.            *)
(***************************************************************************)
EXTENDS Naturals, Sequences

CONSTANTS
  Requests,    \* threads that serve HTTP requests
  Consumer,    \* the ingest consumer's thread
  Maintenance, \* the blocking job that holds the save slot
  NoThread,
  NumShards,   \* 64 in the code
  Sized        \* whether requests include GET /api/telemetry

ASSUME StoreLocksAssumption ==
  /\ NumShards \in Nat \ {0} /\ Sized \in BOOLEAN
  /\ Consumer # Maintenance /\ {Consumer, Maintenance} \intersect Requests = {}
  /\ NoThread \notin Requests \union {Consumer, Maintenance}

Shards == 1..NumShards

(* The fields of GraphStore, and the interner, ranked in an order all      *)
(* calls but one agree on: a call takes the higher rank first.             *)
Rank ==
  [follows |-> 11, user_interactions |-> 10, post_interactions |-> 9, user_blocks |-> 8,
   user_likes_bitmaps |-> 7, interner |-> 6, post_metadata |-> 5, post_topics |-> 4,
   author_posts |-> 3, recent_active_log |-> 2, active_recent_posts |-> 1,
   velocity_cache |-> 0]

Indexes == DOMAIN Rank

Locks == Indexes \X Shards

(* Indexes in the order they nest, and the shards of one in their order.   *)
Level == [l \in Locks |-> NumShards * Rank[l[1]] + (NumShards - l[2])]

R(x, s) == [mode |-> "read", lock |-> <<x, s>>]
W(x, s) == [mode |-> "write", lock |-> <<x, s>>]

(* Calls that hold one shard of one of the indexes at a time.              *)
Reads(xs) == {<<R(x, s)>> : x \in xs, s \in Shards}
Writes(xs) == {<<W(x, s)>> : x \in xs, s \in Shards}

(* A guard of x and, inside its scope, one of y, whatever their shards.    *)
Nested(x, y) == {<<R(x, s), R(y, t)>> : s \in Shards, t \in Shards}

(* A stream collects the guards of all shards before it writes a byte.     *)
AllShards(x) == [s \in Shards |-> R(x, s)]

(***************************************************************************)
(* The ingest consumer.                                                    *)
(***************************************************************************)

\* Mutant: the guard of the bitmap is kept while the reverse edge is written.
RecordInteractionNested ==
  {<<W("user_likes_bitmaps", s), W("post_interactions", t)>> : s \in Shards, t \in Shards}

RecordInteraction ==
  Writes({"user_interactions", "post_interactions", "user_likes_bitmaps",
          "active_recent_posts", "recent_active_log"})

RecordRelation == Writes({"follows", "user_blocks"})

RecordPostMeta == Writes({"post_metadata", "author_posts", "post_topics"})

RemovePost ==
  Writes({"post_interactions", "user_interactions", "user_likes_bitmaps", "post_metadata",
          "author_posts", "post_topics", "active_recent_posts", "recent_active_log",
          "velocity_cache"})

Intern == Reads({"interner"}) \union Writes({"interner"})

ConsumerCalls == RecordInteraction \union RecordRelation \union RecordPostMeta
                   \union RemovePost \union Intern

(***************************************************************************)
(* Maintenance: prune, compaction, snapshot.                               *)
(***************************************************************************)

PruneOlderThan ==
  Writes(Indexes \ {"follows", "user_blocks", "interner", "post_topics"})
    \union Reads({"user_interactions"})
    \union {<<R("post_interactions", s), W("post_topics", s)>> : s \in Shards}

CollectReferencedIds == Reads(Indexes \ {"interner", "velocity_cache", "recent_active_log"})

Compact == Writes(Indexes) \union Reads({"user_interactions"})

(* A stream of the snapshot, one index after another.                      *)
StreamStrings == {AllShards("interner")}
StreamUserInteractions == {AllShards("user_interactions")}
StreamPostInteractions == {AllShards("post_interactions")}
StreamUserLikesBitmaps == {AllShards("user_likes_bitmaps")}
StreamFollows == {AllShards("follows")}
StreamActiveRecentPosts == {AllShards("active_recent_posts")}

(* A topic is looked up under the guards of all metadata shards.           *)
StreamPostMetadata == {Append(AllShards("post_metadata"), R("post_topics", s)) : s \in Shards}

StreamSections ==
  StreamStrings \union StreamUserInteractions \union StreamPostInteractions
    \union StreamUserLikesBitmaps \union StreamFollows \union StreamPostMetadata
    \union StreamActiveRecentPosts

(* Hydration fills one shard of one index at a time, while requests run,   *)
(* and the counts of the checkpoint's log line read them so.               *)
Restore == Writes(Indexes \ {"user_blocks"})
CountNonEmpty == Reads({"user_interactions", "post_interactions", "user_likes_bitmaps", "follows",
                        "post_metadata", "active_recent_posts"})

MaintenanceCalls == PruneOlderThan \union CollectReferencedIds \union Compact
                      \union StreamSections \union Restore \union CountNonEmpty

(***************************************************************************)
(* Requests.                                                               *)
(***************************************************************************)

(* Seed posts, then co-interactors under the guard of the seed's edges.    *)
TraverseTier1 ==
  Reads({"user_likes_bitmaps", "user_interactions"})
    \union Nested("post_interactions", "user_blocks")
    \union Nested("post_interactions", "user_likes_bitmaps")

(* Followed accounts under the guard of the viewer's follows, their        *)
(* interactions under both, and the count of each post under all three.    *)
TraverseTier2 ==
  Nested("follows", "user_blocks")
    \union {<<R("follows", s), R("user_interactions", t), R("post_interactions", u)>> :
              s \in Shards, t \in Shards, u \in Shards}

(* The pool falls back on the activity index under the guard of the log.   *)
TraverseTier3 ==
  Reads({"velocity_cache", "post_interactions"}) \union Writes({"velocity_cache"})
    \union Nested("recent_active_log", "active_recent_posts")

(* What scoring and filtering look up, one guard at a time.                *)
ScoreCandidates ==
  Reads({"interner", "post_metadata", "post_topics", "post_interactions", "user_blocks",
         "user_likes_bitmaps", "follows"}) \union Writes({"interner"})

(* Candidates under the guard of a shared post's edges; their likes alone. *)
FindTasteTwins ==
  Reads({"user_likes_bitmaps", "user_interactions", "interner"})
    \union Nested("post_interactions", "user_blocks")

(* What a twin shares is described under the guard of the twin's likes.    *)
DescribeTwins ==
  Nested("user_likes_bitmaps", "interner")
    \union Nested("user_likes_bitmaps", "post_metadata")
    \union Nested("user_likes_bitmaps", "post_topics")

(* The post and its best twin, with the seed the two share.                *)
ExplainByTwin ==
  Reads({"user_likes_bitmaps", "user_interactions", "post_metadata", "post_topics"})
    \union Intern \union Nested("post_interactions", "user_likes_bitmaps")

(* Without a twin, a followed account that interacted with the post.       *)
ExplainByFollow == Reads({"follows", "post_interactions", "interner"})

(* The preview explains from what its walk has gathered.                   *)
ExplainByAttribution == Reads({"interner"})

(* The preview walks like the feed, except that it asks for no block       *)
(* between a follow and the followed account's interactions.               *)
PreviewFollowWalk ==
  {<<R("follows", s), R("user_interactions", t), R("post_interactions", u)>> :
     s \in Shards, t \in Shards, u \in Shards}

RecommendPreview ==
  TraverseTier1 \union PreviewFollowWalk \union TraverseTier3 \union ScoreCandidates
    \union ExplainByAttribution

Stats == Reads({"user_interactions", "post_interactions", "follows", "post_metadata",
                "active_recent_posts"})

(* estimated_size_bytes keeps every guard of the shard until the loop      *)
(* moves on to the next one.                                               *)
EstimatedSizeBytes ==
  {<<R("user_interactions", s), R("post_interactions", s), R("user_likes_bitmaps", s),
     R("follows", s), R("user_blocks", s), R("post_metadata", s), R("post_topics", s),
     R("author_posts", s), R("active_recent_posts", s)>> : s \in Shards}

RequestCalls ==
  TraverseTier1 \union TraverseTier2 \union TraverseTier3 \union ScoreCandidates
    \union FindTasteTwins \union DescribeTwins \union ExplainByTwin \union ExplainByFollow
    \union RecommendPreview \union Stats
    \union (IF Sized THEN EstimatedSizeBytes ELSE {})

(***************************************************************************)
(* The threads and what they run.                                          *)
(***************************************************************************)

Threads == Requests \union {Consumer, Maintenance}

Chains == [t \in Threads |-> CASE t = Consumer -> ConsumerCalls
                               [] t = Maintenance -> MaintenanceCalls
                               [] OTHER -> RequestCalls]

VARIABLES chain, at, readers, writer

INSTANCE LockOrder

=============================================================================
