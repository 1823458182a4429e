--------------------------- MODULE GraphStoreProofs ---------------------------
(***************************************************************************)
(* The interaction indexes agree with each other between calls and passes, *)
(* for any users, posts and signals and any interleaving of the consumer   *)
(* with prune_older_than: every index a call or a pass has not reached yet *)
(* is behind the others in one known way.                                  *)
(***************************************************************************)
EXTENDS GraphStore, TLAPS

(* How far prune_older_than has come: the indexes in its order, and        *)
(* whether it has visited a shard of one.                                  *)
Stage == [idle |-> 0, forward |-> 1, reverse |-> 2, active |-> 3, metadata |-> 4,
          authors |-> 5, topics |-> 6, bitmaps |-> 7, finish |-> 8]

Done(ph, id) == Stage[phase] > Stage[ph] \/ (phase = ph /\ id \notin pending)

(* The call under way, by the step it stands at.                           *)
Calling(p) == step # "idle" /\ call.post = p

Recording == {"forward", "reverse", "bitmap", "active"}
Inserting == {"metadata", "author"}
Unlinking == {"unforward", "unbitmap"}
Removing == Unlinking \cup {"unmeta", "unauthor", "untopic", "unactive"}

CallOK ==
  /\ step \in {"idle", "topic"} \cup Inserting \cup Recording \cup Removing
  /\ step # "idle" => call.post \in Post
  /\ step \in Recording \/ (step \in Inserting /\ call.op # "meta") =>
       call.user \in User /\ call.signal \in Signal /\ call.ts \in Times
  /\ step = "unbitmap" => call.user \in User

(* The pass has at most one bitmap rebuilt, for a shard it has yet to      *)
(* swap.                                                                   *)
RebuiltOK ==
  /\ \A b, c \in rebuilt : b = c
  /\ \A b \in rebuilt : phase = "bitmaps" /\ b.user \in pending /\ b.bitmap \subseteq Post

(* A call that overlaps a pass has its post in both sets of raced posts.   *)
RacedOK ==
  /\ raced_bits \subseteq raced_posts /\ raced_posts \subseteq Post
  /\ step # "idle" /\ phase # "idle" => call.post \in raced_bits
  /\ clean => step = "idle"

Typed == TypeOK /\ CallOK /\ RebuiltOK /\ RacedOK

(* The two directions of one post.  Behind the forward pass and ahead of   *)
(* the reverse one only the reverse side has old edges.                    *)
Agree(u, p, s, t) == Edge(p, s, t) \in user_interactions[u] <=> Edge(u, s, t) \in post_interactions[p]

EdgesAgree(p) ==
  \A u \in User, s \in Signal, t \in Times :
    IF Done("forward", u) /\ ~Done("reverse", p) /\ t < cutoff
    THEN Edge(p, s, t) \notin user_interactions[u]
    ELSE Agree(u, p, s, t)

(* Between the two halves of a recording only the new edge may be alone.   *)
HalfRecorded(p) ==
  /\ \E t \in Times : Edge(p, call.signal, t) \in user_interactions[call.user]
  /\ \A u \in User, s \in Signal, t \in Times :
       Agree(u, p, s, t) \/ /\ u = call.user /\ s = call.signal /\ t = call.ts
                            /\ Edge(p, s, t) \in user_interactions[u]
                            /\ \A v \in Times : Edge(u, s, v) \notin post_interactions[p]

(* A deletion under way has still to unlink whoever has an edge.           *)
HalfDeleted(p) ==
  /\ post_interactions[p] = {}
  /\ \A u \in User : p \in Targets(user_interactions[u]) =>
       u \in users /\ (step = "unbitmap" => u # call.user)

EdgesOfPost(p) ==
  /\ ~(Calling(p) /\ step \in {"reverse"} \cup Unlinking) => EdgesAgree(p)
  /\ Calling(p) /\ step = "reverse" => HalfRecorded(p)
  /\ Calling(p) /\ step \in Unlinking => HalfDeleted(p)

Directions == \A p \in Post \ raced_posts : EdgesOfPost(p)

(* One user's bit for one post.  Behind the forward pass the bit may be    *)
(* stale until the bitmap is swapped.                                      *)
Stale(u) == Done("forward", u) /\ ~Done("bitmaps", u)

Matches(u, p) ==
  /\ p \in Targets(user_interactions[u]) => p \in user_likes_bitmaps[u]
  /\ p \in user_likes_bitmaps[u] => p \in Targets(user_interactions[u]) \/ Stale(u)

BitPending(u, p) == Calling(p) /\ step \in {"reverse", "bitmap", "unbitmap"} /\ u = call.user

BitsOfPost(u, p) ==
  /\ ~BitPending(u, p) => Matches(u, p)
  /\ BitPending(u, p) => (p \in Targets(user_interactions[u]) <=> step # "unbitmap")
  /\ \A b \in rebuilt : b.user = u => (p \in b.bitmap <=> p \in Targets(user_interactions[u]))

(* A pass no call overlaps leaves every bitmap it has swapped exact.       *)
CleanPass ==
  clean => \A u \in User :
    /\ Done("bitmaps", u) => user_likes_bitmaps[u] = Targets(user_interactions[u])
    /\ \A b \in rebuilt : b.user = u => b.bitmap = Targets(user_interactions[u])

Bits ==
  /\ \A u \in User, p \in Post \ raced_bits : BitsOfPost(u, p)
  /\ CleanPass
  /\ step = "unbitmap" /\ call.u_empty => user_interactions[call.user] = {}

(* The author index and the topics of one post.                            *)
IndexOfPost(p) ==
  /\ phase # "idle" => (p \in valid_posts <=> Done("metadata", p) /\ post_metadata[p] # NoTime)
  /\ ~(Calling(p) /\ step \in {"author", "unauthor"}) =>
       /\ post_metadata[p] # NoTime => p \in author_posts[Author[p]]
       /\ p \in author_posts[Author[p]] =>
            post_metadata[p] # NoTime \/ (Done("metadata", p) /\ ~Done("authors", Author[p]))
  /\ Calling(p) /\ step \in {"author", "topic"} => post_metadata[p] # NoTime
  /\ Calling(p) /\ step = "unauthor" => post_metadata[p] = NoTime
  /\ p \in post_topics =>
       \/ post_metadata[p] # NoTime \/ post_interactions[p] # {}
       \/ Done("reverse", p) /\ ~Done("topics", p)
       \/ Calling(p) /\ step \in Removing \ {"unactive"}

Indexes == \A p \in Post \ raced_posts : IndexOfPost(p)

RecentOfPost(p) ==
  /\ \A e \in post_interactions[p] :
       \/ active_recent_posts[p] >= e.ts
       \/ Calling(p) /\ step \in {"bitmap", "active"} /\ e.ts <= call.ts
  /\ Calling(p) /\ step \in Removing => post_interactions[p] = {}
  /\ Done("reverse", p) => \A e \in post_interactions[p] : e.ts >= cutoff

Recent == \A p \in Post \ raced_posts : RecentOfPost(p)

Inv == Typed /\ Directions /\ Bits /\ Indexes /\ Recent

(***************************************************************************)
(* Sets of edges.                                                          *)
(***************************************************************************)

LEMMA EdgeShape ==
  ASSUME NEW Id, NEW e \in Edges(Id)
  PROVE  /\ e = Edge(e.target, e.signal, e.ts)
         /\ e.target \in Id /\ e.signal \in Signal /\ e.ts \in Times
BY DEF Edges, Edge

LEMMA EdgeIn ==
  ASSUME NEW Id, NEW id \in Id, NEW s \in Signal, NEW t \in Times
  PROVE  /\ Edge(id, s, t) \in Edges(Id)
         /\ Edge(id, s, t).target = id /\ Edge(id, s, t).signal = s /\ Edge(id, s, t).ts = t
BY DEF Edges, Edge

LEMMA TargetsOf ==
  ASSUME NEW Id, NEW es \in SUBSET Edges(Id), NEW id
  PROVE  id \in Targets(es) <=> \E s \in Signal, t \in Times : Edge(id, s, t) \in es
<1>1. ASSUME id \in Targets(es) PROVE \E s \in Signal, t \in Times : Edge(id, s, t) \in es
  <2>1. PICK e \in es : id = e.target
    BY <1>1 DEF Targets
  <2>2. e \in Edges(Id)
    OBVIOUS
  <2> QED BY <2>1, <2>2, EdgeShape
<1>2. ASSUME NEW s \in Signal, NEW t \in Times, Edge(id, s, t) \in es PROVE id \in Targets(es)
  <2>1. Edge(id, s, t).target = id
    BY DEF Edge
  <2> QED BY <1>2, <2>1 DEF Targets
<1> QED BY <1>1, <1>2

LEMMA WithEdgeAdds ==
  ASSUME NEW Id, NEW es \in SUBSET Edges(Id), OnePerSignal(es), NEW e \in Edges(Id)
  PROVE  /\ WithEdge(es, e) \in SUBSET Edges(Id) /\ OnePerSignal(WithEdge(es, e))
         /\ es \subseteq WithEdge(es, e) /\ WithEdge(es, e) \subseteq es \cup {e}
         /\ \E f \in WithEdge(es, e) : f.target = e.target /\ f.signal = e.signal
         /\ e \in WithEdge(es, e) \ es =>
              ~\E f \in es : f.target = e.target /\ f.signal = e.signal
BY DEF WithEdge, OnePerSignal

LEMMA FewerEdges ==
  ASSUME NEW es, OnePerSignal(es), NEW fs \in SUBSET es
  PROVE  OnePerSignal(fs)
BY DEF OnePerSignal

(***************************************************************************)
(* The progress of a pass.                                                 *)
(***************************************************************************)

Sweeps == {"forward", "reverse", "active", "metadata", "authors", "topics", "bitmaps"}

LEMMA NothingDone ==
  ASSUME phase = "idle", NEW ph \in Sweeps, NEW x PROVE ~Done(ph, x)
BY DEF Done, Stage, Sweeps

LEMMA AllDone ==
  ASSUME phase = "finish", NEW ph \in Sweeps, NEW x PROVE Done(ph, x)
BY DEF Done, Stage, Sweeps

LEMMA DoneOrder ==
  ASSUME NEW x, NEW y, TypeOK
  PROVE  /\ Done("reverse", x) => Done("forward", y)
         /\ Done("active", x) => Done("reverse", y)
         /\ Done("metadata", x) => Done("active", y)
         /\ Done("authors", x) => Done("metadata", y)
         /\ Done("topics", x) => Done("authors", y)
         /\ Done("bitmaps", x) => Done("topics", y)
         /\ \A ph \in Sweeps : Done(ph, x) => phase # "idle"
         /\ phase = "reverse" => Done("forward", y)
         /\ phase = "active" => Done("reverse", y)
         /\ phase = "metadata" => Done("active", y)
         /\ phase = "authors" => Done("metadata", y)
         /\ phase = "topics" => Done("authors", y)
         /\ phase = "bitmaps" => Done("topics", y)
BY DEF Done, Stage, Sweeps, TypeOK

LEMMA VisitMoves ==
  ASSUME TypeOK, NEW id, Visit(id), phase \in Sweeps
  PROVE  /\ id \in Shards(phase) /\ ~Done(phase, id)
         /\ phase' \in Sweeps \cup {"finish"} /\ pending' \in SUBSET Shards(phase')
         /\ \A ph \in Sweeps : \A x \in Shards(ph) :
              Done(ph, x)' <=> Done(ph, x) \/ (ph = phase /\ x = id)
         /\ phase' # phase => pending = {id}
         /\ UNCHANGED <<consumer, cutoff, passes, ghosts>>
<1>1. id \in pending /\ pending \subseteq Shards(phase)
  BY DEF Visit, TypeOK
<1>2. UNCHANGED <<consumer, cutoff, passes, ghosts>>
  BY DEF Visit
<1>3. ~Done(phase, id)
  BY <1>1 DEF Done, Stage, Sweeps
<1>4. CASE pending # {id}
  <2>1. phase' = phase /\ pending' = pending \ {id}
    BY <1>4 DEF Visit
  <2> QED BY <1>1, <1>2, <1>3, <1>4, <2>1 DEF Done
<1>5. CASE pending = {id}
  <2>1. phase' = After(phase) /\ pending' = Shards(After(phase))
    BY <1>5 DEF Visit
  <2>2. Stage[After(phase)] = Stage[phase] + 1 /\ After(phase) \in Sweeps \cup {"finish"}
        /\ Stage[phase] \in Nat
    BY DEF After, Stage, Sweeps
  <2>3. \A a, b \in Sweeps \cup {"finish"} : Stage[a] \in Nat /\ (Stage[a] = Stage[b] => a = b)
    BY DEF Stage, Sweeps
  <2>4. ASSUME NEW ph \in Sweeps, NEW x \in Shards(ph)
        PROVE  Done(ph, x)' <=> Done(ph, x) \/ (ph = phase /\ x = id)
    <3>1. CASE ph = phase
      BY <1>5, <2>1, <2>2, <3>1 DEF Done
    <3>2. CASE ph # phase
      <4>1. Done(ph, x) <=> Stage[phase] > Stage[ph]
        BY <3>2 DEF Done
      <4>2. Done(ph, x)' <=> Stage[After(phase)] > Stage[ph]
        BY <2>1 DEF Done
      <4>3. Stage[ph] # Stage[phase] /\ Stage[ph] \in Nat
        BY <2>3, <3>2
      <4> QED BY <2>2, <3>2, <4>1, <4>2, <4>3
    <3> QED BY <3>1, <3>2
  <2> QED BY <1>1, <1>2, <1>3, <1>5, <2>1, <2>2, <2>4
<1> QED BY <1>4, <1>5

LEMMA ConsumeFrame ==
  ASSUME Consume
  PROVE  /\ UNCHANGED pruner
         /\ raced_bits \subseteq raced_bits' /\ raced_posts \subseteq raced_posts'
         /\ \A ph \in Sweeps : \A x : Done(ph, x)' <=> Done(ph, x)
<1>1. UNCHANGED pruner
  BY DEF Consume, BeginInteraction, BeginPostMeta, BeginDelete, Begin, Return, Goto,
         InsertMetadata, LinkAuthor, RecordTopic, RecordForward, RecordReverse, RecordBitmap,
         RecordActive, UnlinkForward, UnlinkBitmap, RemoveMetadata, UnlinkAuthor, RemoveTopic,
         RemoveActive
<1>2. raced_bits \subseteq raced_bits' /\ raced_posts \subseteq raced_posts'
  BY DEF Consume, BeginInteraction, BeginPostMeta, BeginDelete, Begin, Return, Goto,
         InsertMetadata, LinkAuthor, RecordTopic, RecordForward, RecordReverse, RecordBitmap,
         RecordActive, UnlinkForward, UnlinkBitmap, RemoveMetadata, UnlinkAuthor, RemoveTopic,
         RemoveActive, ghosts
<1> QED BY <1>1, <1>2 DEF pruner, Done

(***************************************************************************)
(* Types, calls and races.                                                 *)
(***************************************************************************)

EdgesTyped ==
  /\ user_interactions \in [User -> SUBSET Edges(Post)]
  /\ post_interactions \in [Post -> SUBSET Edges(User)]
  /\ \A u \in User : OnePerSignal(user_interactions[u])
  /\ \A p \in Post : OnePerSignal(post_interactions[p])

PostsTyped ==
  /\ user_likes_bitmaps \in [User -> SUBSET Post]
  /\ post_metadata \in [Post -> 0..MaxTime]
  /\ author_posts \in [User -> SUBSET Post]
  /\ post_topics \subseteq Post
  /\ active_recent_posts \in [Post -> 0..MaxTime]
  /\ users \subseteq User

PassTyped ==
  /\ phase \in {"idle", "finish"} \cup Sweeps
  /\ pending \subseteq Shards(phase) /\ valid_posts \subseteq Post
  /\ cutoff \in Times

LEMMA TypeParts == TypeOK <=> EdgesTyped /\ PostsTyped /\ PassTyped
BY DEF TypeOK, EdgesTyped, PostsTyped, PassTyped, Sweeps

LEMMA PassStaysTyped ==
  ASSUME Typed, [Next]_vars PROVE PassTyped'
<1>0. PassTyped /\ PostsTyped
  BY TypeParts DEF Typed
<1>1. CASE Consume \/ UNCHANGED vars
  <2>1. UNCHANGED pruner
    BY <1>1, ConsumeFrame DEF vars
  <2> QED BY <1>0, <2>1 DEF PassTyped, pruner
<1>2. ASSUME NEW c \in cutoff..MaxTime, BeginPrune(c) PROVE PassTyped'
  <2>1. c \in Times
    BY <1>0, GraphAssumption DEF PassTyped, Times
  <2> QED BY <1>2, <2>1 DEF BeginPrune, PassTyped, Shards, Sweeps
<1>3. ASSUME NEW id, Visit(id), phase \in Sweeps, valid_posts' \subseteq Post PROVE PassTyped'
  <2>1. TypeOK
    BY DEF Typed
  <2> QED BY <1>0, <1>3, <2>1, VisitMoves DEF PassTyped
<1>4. ASSUME NEW u \in User, PruneForward(u) \/ PruneAuthors(u) PROVE PassTyped'
  BY <1>0, <1>3, <1>4 DEF PruneForward, PruneAuthors, Sweeps, PassTyped
<1>5. ASSUME NEW p \in Post, PruneReverse(p) \/ PruneActive(p) \/ PruneMetadata(p) \/ PruneTopics(p)
      PROVE  PassTyped'
  BY <1>0, <1>3, <1>5 DEF PruneReverse, PruneActive, PruneMetadata, PruneTopics, Sweeps, PassTyped
<1>6. CASE SwapBitmap
  <2>1. PICK b \in rebuilt : Visit(b.user)
    BY <1>6 DEF SwapBitmap
  <2>2. phase = "bitmaps" /\ valid_posts' = valid_posts
    BY <1>6, <2>1 DEF Typed, RebuiltOK, SwapBitmap
  <2> QED BY <1>0, <1>3, <2>1, <2>2 DEF Sweeps, PassTyped
<1>7. ASSUME NEW u \in User, RebuildBitmap(u) PROVE PassTyped'
  BY <1>0, <1>7 DEF RebuildBitmap, PassTyped
<1>8. CASE FinishPrune
  BY <1>0, <1>8 DEF FinishPrune, PassTyped, Shards
<1> QED BY <1>1, <1>2, <1>4, <1>5, <1>6, <1>7, <1>8 DEF Next, Prune

LEMMA EdgesStayTyped ==
  ASSUME Typed, [Next]_vars PROVE EdgesTyped'
<1>0. EdgesTyped
  BY TypeParts DEF Typed
<1>1. CASE UNCHANGED <<user_interactions, post_interactions>>
  BY <1>0, <1>1 DEF EdgesTyped
<1>2. CASE RecordForward
  <2> DEFINE e == Edge(call.post, call.signal, call.ts)
  <2>1. call.user \in User /\ e \in Edges(Post)
    BY <1>2, EdgeIn DEF RecordForward, Typed, CallOK, Recording
  <2>2. /\ user_interactions' = [user_interactions EXCEPT
                                  ![call.user] = WithEdge(user_interactions[call.user], e)]
        /\ post_interactions' = post_interactions
    BY <1>2 DEF RecordForward
  <2> HIDE DEF e
  <2>3. /\ WithEdge(user_interactions[call.user], e) \in SUBSET Edges(Post)
        /\ OnePerSignal(WithEdge(user_interactions[call.user], e))
    BY <1>0, <2>1, WithEdgeAdds DEF EdgesTyped
  <2> QED BY <1>0, <2>1, <2>2, <2>3 DEF EdgesTyped
<1>3. CASE RecordReverse
  <2> DEFINE e == Edge(call.user, call.signal, call.ts)
  <2>1. call.post \in Post /\ e \in Edges(User)
    BY <1>3, EdgeIn DEF RecordReverse, Typed, CallOK, Recording
  <2>2. /\ post_interactions' = [post_interactions EXCEPT
                                  ![call.post] = WithEdge(post_interactions[call.post], e)]
        /\ user_interactions' = user_interactions
    BY <1>3 DEF RecordReverse
  <2> HIDE DEF e
  <2>3. /\ WithEdge(post_interactions[call.post], e) \in SUBSET Edges(User)
        /\ OnePerSignal(WithEdge(post_interactions[call.post], e))
    BY <1>0, <2>1, WithEdgeAdds DEF EdgesTyped
  <2> QED BY <1>0, <2>1, <2>2, <2>3 DEF EdgesTyped
(* Every other step only takes edges away.                                 *)
<1>4. ASSUME /\ user_interactions' \in [User -> SUBSET Edges(Post)]
             /\ post_interactions' \in [Post -> SUBSET Edges(User)]
             /\ \A u \in User : user_interactions'[u] \subseteq user_interactions[u]
             /\ \A p \in Post : post_interactions'[p] \subseteq post_interactions[p]
      PROVE  EdgesTyped'
  BY <1>0, <1>4, FewerEdges DEF EdgesTyped
<1>5. ASSUME NEW p \in Post, BeginDelete(p) PROVE EdgesTyped'
  <2>1. /\ post_interactions' = [post_interactions EXCEPT ![p] = {}]
        /\ user_interactions' = user_interactions
    BY <1>5 DEF BeginDelete
  <2> QED BY <1>0, <1>4, <2>1 DEF EdgesTyped
<1>6. ASSUME NEW u \in User, UnlinkForward(u) PROVE EdgesTyped'
  <2>1. /\ user_interactions' = [user_interactions EXCEPT
                                  ![u] = {e \in user_interactions[u] : e.target # call.post}]
        /\ post_interactions' = post_interactions
    BY <1>6 DEF UnlinkForward
  <2> QED BY <1>0, <1>4, <2>1 DEF EdgesTyped
<1>7. ASSUME NEW u \in User, PruneForward(u) PROVE EdgesTyped'
  <2>1. /\ user_interactions' = [user_interactions EXCEPT ![u] = Fresh(user_interactions[u])]
        /\ post_interactions' = post_interactions
    BY <1>7 DEF PruneForward
  <2> QED BY <1>0, <1>4, <2>1 DEF EdgesTyped, Fresh
<1>8. ASSUME NEW p \in Post, PruneReverse(p) PROVE EdgesTyped'
  <2>1. /\ post_interactions' = [post_interactions EXCEPT ![p] = Fresh(post_interactions[p])]
        /\ user_interactions' = user_interactions
    BY <1>8 DEF PruneReverse
  <2> QED BY <1>0, <1>4, <2>1 DEF EdgesTyped, Fresh
<1>9. CASE Consume
  BY <1>1, <1>2, <1>3, <1>5, <1>6, <1>9
  DEF Consume, BeginInteraction, BeginPostMeta, InsertMetadata, LinkAuthor, RecordTopic,
      RecordBitmap, RecordActive, UnlinkBitmap, RemoveMetadata, UnlinkAuthor, RemoveTopic,
      RemoveActive, edges
<1>10. CASE Prune
  BY <1>1, <1>7, <1>8, <1>10
  DEF Prune, BeginPrune, PruneAuthors, RebuildBitmap, PruneActive, PruneMetadata, PruneTopics,
      SwapBitmap, FinishPrune, edges
<1> QED BY <1>1, <1>9, <1>10 DEF Next, vars, edges

LEMMA PostsStayTyped ==
  ASSUME Typed, [Next]_vars PROVE PostsTyped'
<1>0. PostsTyped /\ EdgesTyped /\ MaxTime \in Nat /\ Author \in [Post -> User]
  BY TypeParts, GraphAssumption DEF Typed
<1>1. CASE UNCHANGED <<user_likes_bitmaps, posts, users>>
  BY <1>0, <1>1 DEF PostsTyped, posts
<1>2. ASSUME NEW u \in User, NEW p \in Post, NEW s \in Signal, NEW t \in Times,
             BeginInteraction(u, p, s, t)
      PROVE  PostsTyped'
  BY <1>1, <1>2 DEF BeginInteraction, edges
<1>3. ASSUME NEW p \in Post, BeginPostMeta(p) PROVE PostsTyped'
  BY <1>1, <1>3 DEF BeginPostMeta, edges
<1>4. ASSUME NEW p \in Post, BeginDelete(p) PROVE PostsTyped'
  <2>1. Targets(post_interactions[p]) \subseteq User
    BY <1>0, EdgeShape DEF Targets, EdgesTyped
  <2> QED BY <1>0, <1>4, <2>1 DEF BeginDelete, PostsTyped, posts
<1>5. ASSUME NEW t \in Times, InsertMetadata(t) PROVE PostsTyped'
  <2>1. t \in 0..MaxTime
    BY <1>0 DEF Times
  <2>2. post_metadata' \in [Post -> 0..MaxTime]
    BY <1>0, <1>5, <2>1 DEF InsertMetadata, PostsTyped
  <2> QED BY <1>0, <1>5, <2>2 DEF InsertMetadata, Goto, PostsTyped, edges
<1>6. CASE LinkAuthor
  <2>1. call.post \in Post
    BY <1>6 DEF LinkAuthor, Typed, CallOK
  <2> QED BY <1>0, <1>6, <2>1 DEF LinkAuthor, Goto, PostsTyped, edges
<1>7. ASSUME NEW c \in BOOLEAN, RecordTopic(c) PROVE PostsTyped'
  <2>1. call.post \in Post
    BY <1>7 DEF RecordTopic, Typed, CallOK
  <2> QED BY <1>0, <1>7, <2>1 DEF RecordTopic, Return, PostsTyped, edges
<1>8. CASE RecordForward \/ RecordReverse
  BY <1>1, <1>8 DEF RecordForward, RecordReverse, Goto
<1>9. CASE RecordBitmap
  <2>1. call.post \in Post
    BY <1>9 DEF RecordBitmap, Typed, CallOK
  <2> QED BY <1>0, <1>9, <2>1 DEF RecordBitmap, Goto, PostsTyped, posts
<1>10. CASE RecordActive
  <2>1. call.post \in Post /\ call.ts \in 0..MaxTime
    BY <1>0, <1>10 DEF RecordActive, Typed, CallOK, Recording, Times
  <2>2. Larger(active_recent_posts[call.post], call.ts) \in 0..MaxTime
    BY <1>0, <2>1 DEF PostsTyped, Larger
  <2> QED BY <1>0, <1>10, <2>2 DEF RecordActive, Return, PostsTyped, edges
<1>11. ASSUME NEW u \in User, UnlinkForward(u) PROVE PostsTyped'
  BY <1>1, <1>11 DEF UnlinkForward
<1>12. CASE UnlinkBitmap
  <2>1. user_likes_bitmaps' \in [User -> SUBSET Post] /\ users' \subseteq User
    BY <1>0, <1>12 DEF UnlinkBitmap, PostsTyped
  <2> QED BY <1>0, <1>12, <2>1 DEF UnlinkBitmap, PostsTyped, posts
<1>13. CASE RemoveMetadata \/ UnlinkAuthor \/ RemoveTopic \/ RemoveActive
  BY <1>0, <1>13 DEF RemoveMetadata, UnlinkAuthor, RemoveTopic, RemoveActive, Goto, Return,
     PostsTyped, edges, NoTime
<1>14. ASSUME NEW u \in User, PruneForward(u) \/ PruneAuthors(u) \/ RebuildBitmap(u) PROVE PostsTyped'
  BY <1>0, <1>14 DEF PruneForward, PruneAuthors, RebuildBitmap, Visit, PostsTyped, posts, edges,
     consumer
<1>15. ASSUME NEW p \in Post, PruneReverse(p) \/ PruneTopics(p)
       PROVE  PostsTyped'
  BY <1>0, <1>15 DEF PruneReverse, PruneTopics, Visit, PostsTyped, posts, edges, consumer
<1>16. ASSUME NEW p \in Post, PruneActive(p) \/ PruneMetadata(p) PROVE PostsTyped'
  BY <1>0, <1>16 DEF PruneActive, PruneMetadata, Visit, PostsTyped, edges, consumer, NoTime
<1>17. CASE SwapBitmap
  BY <1>0, <1>17 DEF SwapBitmap, Typed, RebuiltOK, Visit, PostsTyped, posts, consumer
<1>18. CASE FinishPrune \/ \E c \in cutoff..MaxTime : BeginPrune(c)
  BY <1>1, <1>18 DEF FinishPrune, BeginPrune, consumer, edges
<1>19. CASE Consume
  BY <1>2, <1>3, <1>4, <1>5, <1>6, <1>7, <1>8, <1>9, <1>10, <1>11, <1>12, <1>13, <1>19 DEF Consume
<1>20. CASE Prune
  BY <1>14, <1>15, <1>16, <1>17, <1>18, <1>20 DEF Prune
<1> QED BY <1>1, <1>19, <1>20 DEF Next, vars, edges, consumer

LEMMA CallsStayOK ==
  ASSUME Typed, [Next]_vars PROVE CallOK'
<1> USE DEF CallOK, Inserting, Recording, Removing, Unlinking
<1>0. CallOK
  BY DEF Typed
<1>1. ASSUME NEW u \in User, NEW p \in Post, NEW s \in Signal, NEW t \in Times,
             BeginInteraction(u, p, s, t)
      PROVE  CallOK'
  BY <1>1 DEF BeginInteraction, Begin
<1>2. ASSUME NEW p \in Post, BeginPostMeta(p) PROVE CallOK'
  BY <1>2 DEF BeginPostMeta, Begin
<1>3. ASSUME NEW p \in Post, BeginDelete(p) PROVE CallOK'
  BY <1>3 DEF BeginDelete, Begin
<1>4. ASSUME NEW t \in Times, InsertMetadata(t) PROVE CallOK'
  BY <1>0, <1>4 DEF InsertMetadata, Goto
<1>5. CASE LinkAuthor
  BY <1>0, <1>5 DEF LinkAuthor, Goto
<1>6. ASSUME NEW c \in BOOLEAN, RecordTopic(c) PROVE CallOK'
  BY <1>6 DEF RecordTopic, Return
<1>7. CASE RecordForward \/ RecordReverse \/ RecordBitmap
  BY <1>0, <1>7 DEF RecordForward, RecordReverse, RecordBitmap, Goto
<1>8. CASE RecordActive \/ RemoveActive
  BY <1>8 DEF RecordActive, RemoveActive, Return
<1>9. ASSUME NEW u \in User, UnlinkForward(u) PROVE CallOK'
  BY <1>0, <1>9 DEF UnlinkForward
<1>10. CASE UnlinkBitmap
  BY <1>0, <1>10 DEF UnlinkBitmap
<1>11. CASE RemoveMetadata \/ UnlinkAuthor \/ RemoveTopic
  BY <1>0, <1>11 DEF RemoveMetadata, UnlinkAuthor, RemoveTopic, Goto
<1>12. CASE UNCHANGED <<call, step>>
  BY <1>0, <1>12
<1>13. CASE Prune \/ UNCHANGED vars
  <2>1. UNCHANGED <<call, step>>
    BY <1>13 DEF Prune, BeginPrune, PruneForward, PruneAuthors, RebuildBitmap, PruneReverse,
       PruneActive, PruneMetadata, PruneTopics, SwapBitmap, FinishPrune, Visit, consumer, vars
  <2> QED BY <1>12, <2>1
<1> QED BY <1>1, <1>2, <1>3, <1>4, <1>5, <1>6, <1>7, <1>8, <1>9, <1>10, <1>11, <1>13
        DEF Next, Consume

LEMMA RebuiltStaysOK ==
  ASSUME Typed, [Next]_vars PROVE RebuiltOK'
<1>0. RebuiltOK /\ PassTyped /\ EdgesTyped
  BY TypeParts DEF Typed
<1>1. CASE Consume \/ UNCHANGED vars
  <2>1. UNCHANGED pruner
    BY <1>1, ConsumeFrame DEF vars
  <2> QED BY <1>0, <2>1 DEF RebuiltOK, pruner
<1>2. CASE rebuilt' = rebuilt /\ phase # "bitmaps"
  <2>1. rebuilt = {}
    BY <1>0, <1>2 DEF RebuiltOK
  <2> QED BY <1>2, <2>1 DEF RebuiltOK
<1>3. ASSUME NEW u \in User, PruneForward(u) \/ PruneAuthors(u) PROVE RebuiltOK'
  BY <1>2, <1>3 DEF PruneForward, PruneAuthors
<1>4. ASSUME NEW p \in Post, PruneReverse(p) \/ PruneActive(p) \/ PruneMetadata(p) \/ PruneTopics(p)
      PROVE  RebuiltOK'
  BY <1>2, <1>4 DEF PruneReverse, PruneActive, PruneMetadata, PruneTopics
<1>5. CASE FinishPrune \/ \E c \in cutoff..MaxTime : BeginPrune(c)
  BY <1>2, <1>5 DEF FinishPrune, BeginPrune
<1>6. ASSUME NEW u \in User, RebuildBitmap(u) PROVE RebuiltOK'
  <2>1. Targets(user_interactions[u]) \subseteq Post
    BY <1>0, EdgeShape DEF Targets, EdgesTyped
  <2> QED BY <1>6, <2>1 DEF RebuildBitmap, RebuiltOK
<1>7. CASE SwapBitmap
  BY <1>7 DEF SwapBitmap, RebuiltOK
<1> QED BY <1>1, <1>3, <1>4, <1>5, <1>6, <1>7 DEF Next, Prune

LEMMA RacesStayOK ==
  ASSUME Typed, [Next]_vars PROVE RacedOK'
<1>0. RacedOK /\ CallOK
  BY DEF Typed
<1>1. ASSUME NEW c, c.post \in Post, Begin(c), step' # "idle" PROVE RacedOK'
  BY <1>0, <1>1 DEF Begin, RacedOK, pruner
<1>2. ASSUME step # "idle", step' = "idle" \/ call'.post = call.post,
             UNCHANGED pruner, UNCHANGED ghosts
      PROVE  RacedOK'
  BY <1>0, <1>2 DEF RacedOK, pruner, ghosts
<1>3. CASE Consume
  <2>1. ASSUME NEW u \in User, NEW p \in Post, NEW s \in Signal, NEW t \in Times,
               BeginInteraction(u, p, s, t)
        PROVE  RacedOK'
    <3> DEFINE c == [op |-> "interaction", user |-> u, post |-> p, signal |-> s, ts |-> t]
    <3>1. c.post \in Post /\ Begin(c) /\ step' # "idle"
      BY <2>1 DEF BeginInteraction
    <3> HIDE DEF c
    <3> QED BY <1>1, <3>1
  <2>2. ASSUME NEW p \in Post, BeginPostMeta(p) PROVE RacedOK'
    <3> DEFINE c == [op |-> "meta", post |-> p]
    <3>1. c.post \in Post /\ Begin(c) /\ step' # "idle"
      BY <2>2 DEF BeginPostMeta
    <3> HIDE DEF c
    <3> QED BY <1>1, <3>1
  <2>3. ASSUME NEW p \in Post, BeginDelete(p) PROVE RacedOK'
    <3> DEFINE c == [op |-> "delete", post |-> p]
    <3>1. c.post \in Post /\ Begin(c) /\ step' # "idle"
      BY <2>3 DEF BeginDelete
    <3> HIDE DEF c
    <3> QED BY <1>1, <3>1
  <2>4. ASSUME \/ \E t \in Times : InsertMetadata(t)
               \/ LinkAuthor
               \/ \E c \in BOOLEAN : RecordTopic(c)
               \/ RecordForward \/ RecordReverse \/ RecordBitmap \/ RecordActive
               \/ RemoveMetadata \/ UnlinkAuthor \/ RemoveTopic \/ RemoveActive
        PROVE  RacedOK'
    BY <1>2, <2>4 DEF InsertMetadata, LinkAuthor, RecordTopic, RecordForward, RecordReverse,
       RecordBitmap, RecordActive, RemoveMetadata, UnlinkAuthor, RemoveTopic, RemoveActive,
       Goto, Return
  <2>5. ASSUME NEW u \in User, UnlinkForward(u) PROVE RacedOK'
    <3>1. step # "idle" /\ call'.post = call.post /\ UNCHANGED pruner /\ UNCHANGED ghosts
      BY <2>5 DEF UnlinkForward
    <3> QED BY <1>2, <3>1
  <2>6. CASE UnlinkBitmap
    <3>1. step # "idle" /\ call'.post = call.post /\ UNCHANGED pruner /\ UNCHANGED ghosts
      BY <2>6 DEF UnlinkBitmap
    <3> QED BY <1>2, <3>1
  <2> QED BY <1>3, <2>1, <2>2, <2>3, <2>4, <2>5, <2>6 DEF Consume
<1>4. ASSUME NEW c \in cutoff..MaxTime, BeginPrune(c) PROVE RacedOK'
  BY <1>0, <1>4 DEF BeginPrune, RacedOK, CallOK, consumer
<1>5. ASSUME UNCHANGED consumer, UNCHANGED ghosts, phase' # "idle" => phase # "idle" PROVE RacedOK'
  BY <1>0, <1>5 DEF RacedOK, consumer, ghosts
<1>6. ASSUME NEW id, Visit(id), phase \in Sweeps PROVE RacedOK'
  BY <1>5, <1>6 DEF Visit, Sweeps
<1>7. ASSUME NEW u \in User, PruneForward(u) \/ PruneAuthors(u) \/ RebuildBitmap(u) PROVE RacedOK'
  BY <1>5, <1>6, <1>7 DEF PruneForward, PruneAuthors, RebuildBitmap, Sweeps
<1>8. ASSUME NEW p \in Post, PruneReverse(p) \/ PruneActive(p) \/ PruneMetadata(p) \/ PruneTopics(p)
      PROVE  RacedOK'
  BY <1>6, <1>8 DEF PruneReverse, PruneActive, PruneMetadata, PruneTopics, Sweeps
<1>9. CASE SwapBitmap
  BY <1>6, <1>9 DEF SwapBitmap, Typed, RebuiltOK, Sweeps
<1>10. CASE FinishPrune
  BY <1>0, <1>10 DEF FinishPrune, RacedOK, consumer
<1>11. CASE UNCHANGED vars
  BY <1>5, <1>11 DEF vars, pruner
<1> QED BY <1>3, <1>4, <1>7, <1>8, <1>9, <1>10, <1>11 DEF Next, Prune

LEMMA TypedInvariant == Typed /\ [Next]_vars => Typed'
<1>1. ASSUME EdgesTyped', PostsTyped', PassTyped' PROVE TypeOK'
  BY <1>1 DEF TypeOK, EdgesTyped, PostsTyped, PassTyped, Sweeps
<1> QED BY <1>1, PassStaysTyped, EdgesStayTyped, PostsStayTyped, CallsStayOK, RebuiltStaysOK,
           RacesStayOK DEF Typed

(* A pass does nothing to a post that is being called and is not raced.    *)
LEMMA PruneSparesCalls ==
  ASSUME Typed, Prune
  PROVE  /\ UNCHANGED consumer
         /\ raced_posts \subseteq raced_posts'
         /\ \A p : p \notin raced_bits' => ~Calling(p) /\ ~Calling(p)'
         /\ \A p : p \notin raced_posts' => ~Calling(p) /\ ~Calling(p)'
<1>1. UNCHANGED consumer
  BY DEF Prune, BeginPrune, PruneForward, PruneAuthors, RebuildBitmap, PruneReverse,
     PruneActive, PruneMetadata, PruneTopics, SwapBitmap, FinishPrune, Visit
<1>2. raced_posts \subseteq raced_posts'
  BY DEF Prune, BeginPrune, PruneForward, PruneAuthors, RebuildBitmap, PruneReverse,
     PruneActive, PruneMetadata, PruneTopics, SwapBitmap, FinishPrune, Visit, ghosts
<1>3. ASSUME step # "idle" PROVE call.post \in raced_bits' /\ call.post \in raced_posts'
  <2>1. CASE \E c \in cutoff..MaxTime : BeginPrune(c)
    BY <1>3, <2>1 DEF BeginPrune
  <2>2. CASE FinishPrune
    BY <1>3, <2>2 DEF FinishPrune, Typed, RacedOK
  <2>3. CASE \/ \E u \in User : PruneForward(u) \/ PruneAuthors(u) \/ RebuildBitmap(u)
             \/ \E p \in Post : PruneReverse(p) \/ PruneActive(p) \/ PruneMetadata(p) \/ PruneTopics(p)
             \/ SwapBitmap
    <3>1. phase # "idle" /\ UNCHANGED ghosts
      BY <2>3 DEF PruneForward, PruneAuthors, RebuildBitmap, PruneReverse, PruneActive,
         PruneMetadata, PruneTopics, SwapBitmap, Visit, Typed, RebuiltOK
    <3> QED BY <1>3, <3>1 DEF Typed, RacedOK, ghosts
  <2> QED BY <2>1, <2>2, <2>3 DEF Prune
<1> QED BY <1>1, <1>2, <1>3 DEF Calling, consumer

(* A post that is called and not raced is called between passes.           *)
LEMMA CallsBetweenPasses ==
  ASSUME Typed, NEW p, Calling(p), p \notin raced_bits
  PROVE  phase = "idle" /\ p \in Post /\ \A ph \in Sweeps : \A x : ~Done(ph, x)
BY NothingDone DEF Typed, RacedOK, CallOK, Calling

(***************************************************************************)
(* The two directions.                                                     *)
(***************************************************************************)

LEMMA AgreeFrame ==
  ASSUME NEW p, EdgesAgree(p), cutoff' = cutoff, post_interactions'[p] = post_interactions[p],
         \A u \in User, s \in Signal, t \in Times :
            Edge(p, s, t) \in user_interactions'[u] <=> Edge(p, s, t) \in user_interactions[u],
         Done("reverse", p)' <=> Done("reverse", p),
         \A u \in User : Done("forward", u)' <=> Done("forward", u)
  PROVE  EdgesAgree(p)'
BY DEF EdgesAgree, Agree

LEMMA PruneKeepsDirections ==
  ASSUME Typed, Directions, Prune PROVE Directions'
<1>0. TypeOK /\ EdgesTyped /\ PassTyped
  BY TypeParts DEF Typed
<1> SUFFICES ASSUME NEW p \in Post \ raced_posts' PROVE EdgesOfPost(p)'
  BY DEF Directions
<1>1. ~Calling(p)' /\ ~Calling(p) /\ p \in Post \ raced_posts
  BY PruneSparesCalls
<1>2. EdgesAgree(p)
  BY <1>1 DEF Directions, EdgesOfPost
<1> SUFFICES EdgesAgree(p)'
  BY <1>1 DEF EdgesOfPost
<1>3. ASSUME NEW u0 \in User, PruneForward(u0) PROVE EdgesAgree(p)'
  <2>1. /\ user_interactions' = [user_interactions EXCEPT ![u0] = Fresh(user_interactions[u0])]
        /\ post_interactions' = post_interactions /\ cutoff' = cutoff
        /\ \A u \in User : Done("forward", u)' <=> Done("forward", u) \/ u = u0
        /\ ~Done("reverse", p)' /\ ~Done("reverse", p) /\ ~Done("forward", u0)
    BY <1>0, <1>3, VisitMoves, DoneOrder DEF PruneForward, Sweeps, Shards
  <2> SUFFICES ASSUME NEW u \in User, NEW s \in Signal, NEW t \in Times
               PROVE  IF Done("forward", u)' /\ t < cutoff
                      THEN Edge(p, s, t) \notin user_interactions'[u] ELSE Agree(u, p, s, t)'
    BY <2>1 DEF EdgesAgree
  <2>2. CASE u # u0
    <3>1. user_interactions'[u] = user_interactions[u]
      BY <1>0, <2>1, <2>2 DEF EdgesTyped
    <3> QED BY <1>2, <2>1, <2>2, <3>1 DEF EdgesAgree, Agree
  <2>3. CASE u = u0
    <3>1. Edge(p, s, t) \in user_interactions'[u] <=> Edge(p, s, t) \in user_interactions[u] /\ t >= cutoff
      BY <1>0, <2>1, <2>3, EdgeIn DEF EdgesTyped, Fresh
    <3>2. Agree(u, p, s, t)
      BY <1>2, <2>1, <2>3 DEF EdgesAgree
    <3>3. t \in Nat /\ cutoff \in Nat
      BY <1>0 DEF PassTyped, Times
    <3> QED BY <2>1, <2>3, <3>1, <3>2, <3>3 DEF Agree
  <2> QED BY <2>2, <2>3
<1>4. ASSUME NEW p0 \in Post, PruneReverse(p0) PROVE EdgesAgree(p)'
  <2>1. /\ post_interactions' = [post_interactions EXCEPT ![p0] = Fresh(post_interactions[p0])]
        /\ user_interactions' = user_interactions /\ cutoff' = cutoff
        /\ Done("reverse", p)' <=> Done("reverse", p) \/ p = p0
        /\ \A u \in User : Done("forward", u) /\ Done("forward", u)'
        /\ ~Done("reverse", p0)
    <3>1. \A u \in User : Done("forward", u)
      BY <1>0, <1>4, DoneOrder DEF PruneReverse
    <3> QED BY <1>0, <1>4, <3>1, VisitMoves DEF PruneReverse, Sweeps, Shards
  <2>2. CASE p # p0
    BY <1>0, <1>2, <2>1, <2>2, AgreeFrame DEF EdgesTyped
  <2>3. CASE p = p0
    <3> SUFFICES ASSUME NEW u \in User, NEW s \in Signal, NEW t \in Times
                 PROVE  Agree(u, p, s, t)'
      BY <2>1, <2>3 DEF EdgesAgree
    <3>1. Edge(u, s, t) \in post_interactions'[p] <=> Edge(u, s, t) \in post_interactions[p] /\ t >= cutoff
      BY <1>0, <2>1, <2>3, EdgeIn DEF EdgesTyped, Fresh
    <3>2. IF t < cutoff THEN Edge(p, s, t) \notin user_interactions[u] ELSE Agree(u, p, s, t)
      BY <1>2, <2>1, <2>3 DEF EdgesAgree
    <3>3. t \in Nat /\ cutoff \in Nat
      BY <1>0 DEF PassTyped, Times
    <3> QED BY <2>1, <3>1, <3>2, <3>3 DEF Agree
  <2> QED BY <2>2, <2>3
<1>5. ASSUME user_interactions' = user_interactions, post_interactions' = post_interactions,
             NEW id, Visit(id), phase \in Sweeps \ {"forward", "reverse"}
      PROVE  EdgesAgree(p)'
  <2>1. /\ \A u \in User : Done("forward", u)' <=> Done("forward", u)
        /\ Done("reverse", p)' <=> Done("reverse", p)
    BY <1>0, <1>5, VisitMoves DEF Sweeps, Shards
  <2>2. cutoff' = cutoff
    BY <1>5 DEF Visit
  <2> QED BY <1>2, <1>5, <2>1, <2>2, AgreeFrame
<1>6. ASSUME NEW u \in User, PruneAuthors(u) PROVE EdgesAgree(p)'
  BY <1>5, <1>6 DEF PruneAuthors, edges, Sweeps
<1>7. ASSUME NEW q \in Post, PruneActive(q) \/ PruneMetadata(q) \/ PruneTopics(q) PROVE EdgesAgree(p)'
  BY <1>5, <1>7 DEF PruneActive, PruneMetadata, PruneTopics, edges, Sweeps
<1>8. CASE SwapBitmap
  BY <1>5, <1>8 DEF SwapBitmap, Typed, RebuiltOK, Sweeps
<1>9. ASSUME NEW u \in User, RebuildBitmap(u) PROVE EdgesAgree(p)'
  BY <1>2, <1>9 DEF RebuildBitmap, edges, EdgesAgree, Agree, Done
<1>10. CASE FinishPrune
  <2>1. /\ \A u \in User : Done("forward", u) /\ ~Done("forward", u)'
        /\ Done("reverse", p)
    BY <1>10 DEF FinishPrune, Done, Stage
  <2> QED BY <1>2, <1>10, <2>1 DEF FinishPrune, edges, EdgesAgree, Agree
<1>11. ASSUME NEW c \in cutoff..MaxTime, BeginPrune(c) PROVE EdgesAgree(p)'
  <2>1. \A u \in User : ~Done("forward", u) /\ ~Done("forward", u)'
    BY <1>11 DEF BeginPrune, Done, Stage
  <2> QED BY <1>2, <1>11, <2>1 DEF BeginPrune, edges, EdgesAgree, Agree
<1> QED BY <1>3, <1>4, <1>6, <1>7, <1>8, <1>9, <1>10, <1>11 DEF Prune

LEMMA ConsumeKeepsDirections ==
  ASSUME Typed, Directions, Consume PROVE Directions'
<1>0. TypeOK /\ EdgesTyped /\ PassTyped /\ CallOK
  BY TypeParts DEF Typed
<1> SUFFICES ASSUME NEW p \in Post \ raced_posts' PROVE EdgesOfPost(p)'
  BY DEF Directions
<1>1. /\ p \in Post \ raced_posts /\ p \notin raced_bits /\ EdgesOfPost(p)
      /\ cutoff' = cutoff
      /\ \A ph \in Sweeps : \A x : Done(ph, x)' <=> Done(ph, x)
  BY ConsumeFrame DEF Directions, Typed, RacedOK, pruner
<1>2. ASSUME EdgesAgree(p), post_interactions'[p] = post_interactions[p],
             \A u \in User, s \in Signal, t \in Times :
               Edge(p, s, t) \in user_interactions'[u] <=> Edge(p, s, t) \in user_interactions[u],
             ~(Calling(p)' /\ step' \in {"reverse"} \cup Unlinking)
      PROVE  EdgesOfPost(p)'
  <2>1. EdgesAgree(p)'
    BY <1>1, <1>2, AgreeFrame DEF Sweeps
  <2> QED BY <1>2, <2>1 DEF EdgesOfPost, Unlinking
<1>3. ASSUME ~(Calling(p) /\ step \in {"reverse"} \cup Unlinking) PROVE EdgesAgree(p)
  BY <1>1, <1>3 DEF EdgesOfPost
<1>4. ASSUME Calling(p)
      PROVE  \A x : ~Done("forward", x) /\ ~Done("reverse", x) /\ ~Done("forward", x)' /\ ~Done("reverse", x)'
  BY <1>1, <1>4, CallsBetweenPasses DEF Sweeps
<1>5. ASSUME UNCHANGED <<user_interactions, post_interactions>>,
             step \notin {"reverse"} \cup Unlinking, step' \notin {"reverse"} \cup Unlinking
      PROVE  EdgesOfPost(p)'
  BY <1>2, <1>3, <1>5
<1>6. ASSUME NEW u \in User, NEW q \in Post, NEW s \in Signal, NEW t \in Times,
             BeginInteraction(u, q, s, t)
      PROVE  EdgesOfPost(p)'
  BY <1>5, <1>6 DEF BeginInteraction, Begin, edges, Unlinking
<1>7. ASSUME NEW q \in Post, BeginPostMeta(q) PROVE EdgesOfPost(p)'
  BY <1>5, <1>7 DEF BeginPostMeta, Begin, edges, Unlinking
<1>8. ASSUME NEW q \in Post, BeginDelete(q) PROVE EdgesOfPost(p)'
  <2>1. /\ step = "idle" /\ call' = [op |-> "delete", post |-> q]
        /\ users' = Targets(post_interactions[q])
        /\ post_interactions' = [post_interactions EXCEPT ![q] = {}]
        /\ step' = IF users' = {} THEN "unmeta" ELSE "unforward"
        /\ user_interactions' = user_interactions
        /\ raced_posts' = raced_posts \cup (IF phase = "idle" THEN {} ELSE {q})
    BY <1>8 DEF BeginDelete, Begin
  <2>2. EdgesAgree(p)
    BY <1>3, <2>1 DEF Calling
  <2>3. CASE p # q
    <3>1. ~Calling(p)' /\ post_interactions'[p] = post_interactions[p]
      BY <1>0, <2>1, <2>3 DEF Calling, EdgesTyped
    <3> QED BY <1>2, <2>1, <2>2, <3>1
  <2>4. CASE p = q
    <3>1. phase = "idle"
      BY <2>1, <2>4
    <3>2. \A x : ~Done("forward", x) /\ ~Done("reverse", x)
      BY <3>1, NothingDone DEF Sweeps
    <3>3. \A u \in User, s \in Signal, t \in Times : Agree(u, p, s, t)
      BY <2>2, <3>2 DEF EdgesAgree
    <3>4. post_interactions'[p] = {}
      BY <1>0, <2>1, <2>4 DEF EdgesTyped
    <3>5. ASSUME NEW u \in User, p \in Targets(user_interactions[u]) PROVE u \in users'
      <4>1. PICK s \in Signal, t \in Times : Edge(p, s, t) \in user_interactions[u]
        BY <1>0, <3>5, TargetsOf DEF EdgesTyped
      <4>2. Edge(u, s, t) \in post_interactions[p]
        BY <3>3, <4>1 DEF Agree
      <4>3. u \in Targets(post_interactions[p])
        BY <1>0, <4>2, TargetsOf DEF EdgesTyped
      <4> QED BY <2>1, <2>4, <4>3
    <3>6. CASE users' = {}
      <4>1. ASSUME NEW u \in User, NEW s \in Signal, NEW t \in Times PROVE Agree(u, p, s, t)'
        <5>1. Edge(p, s, t) \notin user_interactions[u]
          BY <1>0, <3>5, <3>6, TargetsOf DEF EdgesTyped
        <5> QED BY <2>1, <3>4, <5>1 DEF Agree
      <4>2. EdgesAgree(p)'
        BY <1>1, <3>2, <4>1 DEF EdgesAgree, Sweeps
      <4> QED BY <2>1, <3>6, <4>2 DEF EdgesOfPost, Unlinking
    <3>7. CASE users' # {}
      <4>1. HalfDeleted(p)'
        BY <2>1, <3>4, <3>5, <3>7 DEF HalfDeleted
      <4> QED BY <2>1, <2>4, <3>7, <4>1 DEF EdgesOfPost, Unlinking, Calling
    <3> QED BY <3>6, <3>7
  <2> QED BY <2>3, <2>4
<1>9. CASE (\E t \in Times : InsertMetadata(t)) \/ LinkAuthor \/ (\E c \in BOOLEAN : RecordTopic(c))
           \/ RecordBitmap \/ RecordActive
           \/ RemoveMetadata \/ UnlinkAuthor \/ RemoveTopic \/ RemoveActive
  BY <1>5, <1>9 DEF InsertMetadata, LinkAuthor, RecordTopic, RecordBitmap, RecordActive,
     RemoveMetadata, UnlinkAuthor, RemoveTopic, RemoveActive, Goto, Return, edges, Unlinking
<1>10. CASE RecordForward
  <2> DEFINE e == Edge(call.post, call.signal, call.ts)
  <2>1. /\ step = "forward" /\ step' = "reverse" /\ call' = call
        /\ user_interactions' =
             [user_interactions EXCEPT ![call.user] = WithEdge(user_interactions[call.user], e)]
        /\ post_interactions' = post_interactions
    BY <1>10 DEF RecordForward, Goto
  <2>2. /\ call.user \in User /\ call.signal \in Signal /\ call.ts \in Times /\ call.post \in Post
        /\ e \in Edges(Post)
        /\ e.target = call.post /\ e.signal = call.signal /\ e.ts = call.ts
    BY <1>0, <2>1, EdgeIn DEF CallOK, Recording
  <2>3. EdgesAgree(p)
    BY <1>3, <2>1 DEF Unlinking
  <2>4. \A u \in User : u # call.user => user_interactions'[u] = user_interactions[u]
    BY <1>0, <2>1 DEF EdgesTyped
  <2>5. user_interactions'[call.user] = WithEdge(user_interactions[call.user], e)
    BY <1>0, <2>1, <2>2 DEF EdgesTyped
  <2> DEFINE es == user_interactions[call.user]
             fs == WithEdge(es, e)
  <2>6. /\ es \in SUBSET Edges(Post) /\ OnePerSignal(es)
    BY <1>0, <2>2 DEF EdgesTyped
  <2> HIDE DEF e, es
  <2>7. /\ fs \in SUBSET Edges(Post) /\ es \subseteq fs /\ fs \subseteq es \cup {e}
        /\ \E f \in fs : f.target = e.target /\ f.signal = e.signal
        /\ e \in fs \ es => ~\E f \in es : f.target = e.target /\ f.signal = e.signal
    BY <2>2, <2>6, WithEdgeAdds
  <2> HIDE DEF fs
  <2>8. user_interactions'[call.user] = fs
    BY <2>5 DEF fs, es
  <2>9. CASE p # call.post
    <3>1. ASSUME NEW u \in User, NEW s \in Signal, NEW t \in Times
          PROVE  Edge(p, s, t) \in user_interactions'[u] <=> Edge(p, s, t) \in user_interactions[u]
      <4>1. Edge(p, s, t) # e
        BY <2>2, <2>9, <1>1, EdgeIn
      <4> QED BY <2>4, <2>7, <2>8, <4>1 DEF es
    <3>2. ~Calling(p)'
      BY <2>1, <2>9 DEF Calling
    <3> QED BY <1>2, <2>1, <2>3, <3>1, <3>2
  <2>10. CASE p = call.post
    <3>0. Calling(p) /\ Calling(p)'
      BY <2>1, <2>10 DEF Calling
    <3>1. \A u \in User, s \in Signal, t \in Times : Agree(u, p, s, t)
      BY <1>4, <2>3, <3>0 DEF EdgesAgree
    <3>2. \E t \in Times : Edge(p, call.signal, t) \in user_interactions'[call.user]
      BY <2>2, <2>7, <2>8, <2>10, EdgeShape
    <3>3. ASSUME NEW u \in User, NEW s \in Signal, NEW t \in Times, ~Agree(u, p, s, t)'
          PROVE  /\ u = call.user /\ s = call.signal /\ t = call.ts
                 /\ Edge(p, s, t) \in user_interactions'[u]
                 /\ \A v \in Times : Edge(u, s, v) \notin post_interactions'[p]
      <4>0. /\ Edge(p, s, t) \in user_interactions[u] <=> Edge(u, s, t) \in post_interactions[p]
            /\ ~(Edge(p, s, t) \in user_interactions'[u] <=> Edge(u, s, t) \in post_interactions[p])
        BY <2>1, <3>1, <3>3 DEF Agree
      <4>1. u = call.user
        BY <2>4, <4>0
      <4>2. Edge(p, s, t) \in fs /\ Edge(p, s, t) \notin es
        BY <2>7, <2>8, <4>0, <4>1 DEF es
      <4>3. Edge(p, s, t) = e
        BY <2>7, <4>2
      <4>4. s = call.signal /\ t = call.ts
        <5>1. Edge(p, s, t).signal = s /\ Edge(p, s, t).ts = t
          BY DEF Edge
        <5> QED BY <2>2, <4>3, <5>1
      <4>5. ASSUME NEW v \in Times, Edge(u, s, v) \in post_interactions[p] PROVE FALSE
        <5>1. Edge(p, s, v) \in es
          BY <3>1, <4>1, <4>5 DEF Agree, es
        <5>2. Edge(p, s, v).target = e.target /\ Edge(p, s, v).signal = e.signal
          BY <2>2, <2>10, <4>4, EdgeIn
        <5> QED BY <2>7, <4>2, <4>3, <5>1, <5>2
      <4> QED BY <2>1, <2>8, <4>1, <4>2, <4>4, <4>5
    <3>4. HalfRecorded(p)'
      BY <2>1, <3>2, <3>3 DEF HalfRecorded
    <3> QED BY <2>1, <3>0, <3>4 DEF EdgesOfPost, Unlinking
  <2> QED BY <2>9, <2>10
<1>11. CASE RecordReverse
  <2> DEFINE e == Edge(call.user, call.signal, call.ts)
  <2>1. /\ step = "reverse" /\ step' = "bitmap" /\ call' = call
        /\ post_interactions' =
             [post_interactions EXCEPT ![call.post] = WithEdge(post_interactions[call.post], e)]
        /\ user_interactions' = user_interactions
    BY <1>11 DEF RecordReverse, Goto
  <2>2. /\ call.user \in User /\ call.signal \in Signal /\ call.ts \in Times /\ call.post \in Post
        /\ e \in Edges(User)
        /\ e.target = call.user /\ e.signal = call.signal /\ e.ts = call.ts
    BY <1>0, <2>1, EdgeIn DEF CallOK, Recording
  <2>3. CASE p # call.post
    <3>1. ~Calling(p) /\ ~Calling(p)' /\ post_interactions'[p] = post_interactions[p]
      BY <1>0, <2>1, <2>3 DEF Calling, EdgesTyped
    <3> QED BY <1>2, <1>3, <2>1, <3>1
  <2>4. CASE p = call.post
    <3>0. Calling(p) /\ HalfRecorded(p)
      BY <1>1, <2>1, <2>4 DEF Calling, EdgesOfPost
    <3> DEFINE es == post_interactions[p]
               fs == WithEdge(es, e)
    <3>1. es \in SUBSET Edges(User) /\ OnePerSignal(es)
      BY <1>0 DEF EdgesTyped
    <3>2. post_interactions'[p] = fs
      BY <1>0, <2>1, <2>4 DEF EdgesTyped
    <3> HIDE DEF e, es
    <3>3. /\ fs \in SUBSET Edges(User) /\ es \subseteq fs /\ fs \subseteq es \cup {e}
          /\ e \in fs \ es => ~\E f \in es : f.target = e.target /\ f.signal = e.signal
          /\ e \in fs \/ \E f \in es : f.target = e.target /\ f.signal = e.signal
      BY <2>2, <3>1, WithEdgeAdds DEF WithEdge
    <3> HIDE DEF fs
    <3>4. ASSUME NEW u \in User, NEW s \in Signal, NEW t \in Times PROVE Agree(u, p, s, t)'
      <4>1. CASE ~Agree(u, p, s, t)
        <5>1. /\ u = call.user /\ s = call.signal /\ t = call.ts
              /\ Edge(p, s, t) \in user_interactions[u]
              /\ \A v \in Times : Edge(u, s, v) \notin es
          BY <3>0, <4>1 DEF HalfRecorded, es
        <5>2. ~\E f \in es : f.target = e.target /\ f.signal = e.signal
          <6> SUFFICES ASSUME NEW f \in es, f.target = e.target, f.signal = e.signal PROVE FALSE
            OBVIOUS
          <6>1. f \in Edges(User)
            BY <3>1
          <6>2. f = Edge(u, s, f.ts) /\ f.ts \in Times
            BY <2>2, <5>1, <6>1, EdgeShape
          <6> QED BY <5>1, <6>2
        <5>3. Edge(u, s, t) \in fs
          BY <3>3, <5>1, <5>2 DEF e
        <5> QED BY <2>1, <3>2, <5>1, <5>3 DEF Agree
      <4>2. CASE Agree(u, p, s, t) /\ Edge(u, s, t) \notin fs \ es
        BY <2>1, <3>2, <3>3, <4>2 DEF Agree, es
      <4>3. CASE Agree(u, p, s, t) /\ Edge(u, s, t) \in fs \ es
        <5>1. Edge(u, s, t) = e /\ e \in fs \ es
          BY <3>3, <4>3
        <5>2. u = call.user /\ s = call.signal /\ t = call.ts
          BY <2>2, <5>1, EdgeIn
        <5>3. PICK v \in Times : Edge(p, s, v) \in user_interactions[u]
          BY <3>0, <5>2 DEF HalfRecorded
        <5>4. Edge(u, s, v) \notin es
          <6>1. Edge(u, s, v).target = e.target /\ Edge(u, s, v).signal = e.signal
            BY <2>2, <5>2, EdgeIn
          <6> QED BY <3>3, <5>1, <6>1
        <5>5. ~Agree(u, p, s, v)
          BY <5>3, <5>4 DEF Agree, es
        <5>6. v = t
          BY <3>0, <5>2, <5>5 DEF HalfRecorded
        <5> QED BY <4>3, <5>5, <5>6
      <4> QED BY <4>1, <4>2, <4>3
    <3>5. EdgesAgree(p)'
      BY <1>4, <3>0, <3>4 DEF EdgesAgree
    <3> QED BY <2>1, <3>5 DEF EdgesOfPost, Unlinking
  <2> QED BY <2>3, <2>4
<1>12. ASSUME NEW u0 \in User, UnlinkForward(u0) PROVE EdgesOfPost(p)'
  <2>1. /\ step = "unforward" /\ step' = "unbitmap" /\ u0 \in users
        /\ user_interactions' =
             [user_interactions EXCEPT ![u0] = {e \in user_interactions[u0] : e.target # call.post}]
        /\ call'.post = call.post /\ call'.user = u0
        /\ UNCHANGED <<post_interactions, users>>
    BY <1>12 DEF UnlinkForward
  <2>2. /\ user_interactions'[u0] = {e \in user_interactions[u0] : e.target # call.post}
        /\ \A u \in User : u # u0 => user_interactions'[u] = user_interactions[u]
    BY <1>0, <2>1 DEF EdgesTyped
  <2>3. CASE p # call.post
    <3>1. ~Calling(p) /\ ~Calling(p)'
      BY <2>1, <2>3 DEF Calling
    <3>2. ASSUME NEW u \in User, NEW s \in Signal, NEW t \in Times
          PROVE  Edge(p, s, t) \in user_interactions'[u] <=> Edge(p, s, t) \in user_interactions[u]
      BY <1>1, <2>2, <2>3, EdgeIn
    <3> QED BY <1>2, <1>3, <2>1, <3>1, <3>2
  <2>4. CASE p = call.post
    <3>1. Calling(p) /\ Calling(p)' /\ HalfDeleted(p)
      BY <1>1, <2>1, <2>4 DEF Calling, EdgesOfPost, Unlinking
    <3>2. ASSUME NEW u \in User, p \in Targets(user_interactions'[u])
          PROVE  u \in users' /\ u # call'.user
      BY <2>1, <2>2, <2>4, <3>1, <3>2 DEF HalfDeleted, Targets
    <3>3. HalfDeleted(p)'
      BY <2>1, <3>1, <3>2 DEF HalfDeleted
    <3> QED BY <2>1, <3>1, <3>3 DEF EdgesOfPost, Unlinking
  <2> QED BY <2>3, <2>4
<1>13. CASE UnlinkBitmap
  <2>1. /\ step = "unbitmap" /\ users' = users \ {call.user}
        /\ call'.post = call.post
        /\ step' = IF users' = {} THEN "unmeta" ELSE "unforward"
        /\ UNCHANGED <<user_interactions, post_interactions>>
    BY <1>13 DEF UnlinkBitmap
  <2>2. CASE p # call.post
    <3>1. ~Calling(p) /\ ~Calling(p)'
      BY <2>1, <2>2 DEF Calling
    <3> QED BY <1>2, <1>3, <2>1, <3>1
  <2>3. CASE p = call.post
    <3>1. Calling(p) /\ Calling(p)' /\ HalfDeleted(p)
      BY <1>1, <2>1, <2>3 DEF Calling, EdgesOfPost, Unlinking
    <3>2. CASE users' # {}
      <4>1. HalfDeleted(p)'
        BY <2>1, <3>1, <3>2 DEF HalfDeleted
      <4> QED BY <2>1, <3>1, <3>2, <4>1 DEF EdgesOfPost, Unlinking
    <3>3. CASE users' = {}
      <4>1. ASSUME NEW u \in User, NEW s \in Signal, NEW t \in Times PROVE Agree(u, p, s, t)'
        <5>1. p \notin Targets(user_interactions[u])
          BY <2>1, <3>1, <3>3 DEF HalfDeleted
        <5>2. Edge(p, s, t) \notin user_interactions[u]
          BY <1>0, <5>1, TargetsOf DEF EdgesTyped
        <5> QED BY <2>1, <3>1, <5>2 DEF Agree, HalfDeleted
      <4>2. EdgesAgree(p)'
        BY <1>4, <3>1, <4>1 DEF EdgesAgree
      <4> QED BY <2>1, <3>3, <4>2 DEF EdgesOfPost, Unlinking
    <3> QED BY <3>2, <3>3
  <2> QED BY <2>2, <2>3
<1> QED BY <1>6, <1>7, <1>8, <1>9, <1>10, <1>11, <1>12, <1>13 DEF Consume

(***************************************************************************)
(* The newest interaction of a post.                                       *)
(***************************************************************************)

LEMMA ConsumeKeepsRecent ==
  ASSUME Typed, Recent, Consume PROVE Recent'
<1>0. TypeOK /\ EdgesTyped /\ PostsTyped /\ PassTyped /\ CallOK
  BY TypeParts DEF Typed
<1> SUFFICES ASSUME NEW p \in Post \ raced_posts' PROVE RecentOfPost(p)'
  BY DEF Recent
<1>1. /\ p \in Post \ raced_posts /\ p \notin raced_bits /\ RecentOfPost(p)
      /\ cutoff' = cutoff
      /\ Done("reverse", p)' <=> Done("reverse", p)
  BY ConsumeFrame DEF Recent, Typed, RacedOK, pruner, Sweeps
<1>2. \A e \in post_interactions[p] : e.ts \in Nat
  BY <1>0, <1>1, EdgeShape DEF EdgesTyped, Times
<1>3. ASSUME post_interactions'[p] = post_interactions[p],
             active_recent_posts'[p] = active_recent_posts[p],
             Calling(p) /\ step \in {"bitmap", "active"} =>
               Calling(p)' /\ step' \in {"bitmap", "active"} /\ call'.ts = call.ts,
             Calling(p)' /\ step' \in Removing => Calling(p) /\ step \in Removing
      PROVE  RecentOfPost(p)'
  BY <1>1, <1>3 DEF RecentOfPost
<1>4. ASSUME UNCHANGED <<post_interactions, active_recent_posts>>,
             step \notin {"bitmap", "active"}, step' \notin Removing
      PROVE  RecentOfPost(p)'
  BY <1>3, <1>4
<1>5. ASSUME UNCHANGED <<post_interactions, active_recent_posts>>,
             step \in Removing, call'.post = call.post
      PROVE  RecentOfPost(p)'
  BY <1>3, <1>5 DEF Calling, Removing, Unlinking
<1>6. ASSUME NEW u \in User, NEW q \in Post, NEW s \in Signal, NEW t \in Times,
             BeginInteraction(u, q, s, t)
      PROVE  RecentOfPost(p)'
  BY <1>4, <1>6 DEF BeginInteraction, Begin, edges, posts, Removing, Unlinking
<1>7. ASSUME NEW q \in Post, BeginPostMeta(q) PROVE RecentOfPost(p)'
  BY <1>4, <1>7 DEF BeginPostMeta, Begin, edges, posts, Removing, Unlinking
<1>8. ASSUME NEW q \in Post, BeginDelete(q) PROVE RecentOfPost(p)'
  <2>1. /\ step = "idle" /\ call'.post = q
        /\ post_interactions' = [post_interactions EXCEPT ![q] = {}]
        /\ active_recent_posts' = active_recent_posts
    BY <1>8 DEF BeginDelete, Begin, posts
  <2>2. CASE p = q
    BY <1>0, <2>1, <2>2 DEF EdgesTyped, RecentOfPost
  <2>3. CASE p # q
    BY <1>0, <1>3, <2>1, <2>3 DEF EdgesTyped, Calling
  <2> QED BY <2>2, <2>3
<1>9. CASE (\E t \in Times : InsertMetadata(t)) \/ LinkAuthor \/ (\E c \in BOOLEAN : RecordTopic(c))
           \/ RecordForward
  BY <1>4, <1>9 DEF InsertMetadata, LinkAuthor, RecordTopic, RecordForward,
     Goto, Return, edges, posts, Removing, Unlinking
<1>10. CASE RecordReverse
  <2> DEFINE e == Edge(call.user, call.signal, call.ts)
  <2>1. /\ step = "reverse" /\ step' = "bitmap" /\ call' = call
        /\ post_interactions' =
             [post_interactions EXCEPT ![call.post] = WithEdge(post_interactions[call.post], e)]
        /\ active_recent_posts' = active_recent_posts
    BY <1>10 DEF RecordReverse, Goto, posts
  <2>2. CASE p # call.post
    BY <1>0, <1>3, <2>1, <2>2 DEF EdgesTyped, Calling
  <2>3. CASE p = call.post
    <3>1. Calling(p) /\ Calling(p)' /\ ~Done("reverse", p)
      BY <1>1, <2>1, <2>3, CallsBetweenPasses DEF Calling, Sweeps
    <3>2. post_interactions'[p] \subseteq post_interactions[p] \cup {e}
      BY <1>0, <2>1, <2>3 DEF EdgesTyped, WithEdge
    <3>3. e.ts = call.ts /\ call.ts \in Nat
      BY <1>0, <2>1 DEF Edge, CallOK, Recording, Times
    <3>4. \A f \in post_interactions[p] : active_recent_posts[p] >= f.ts
      BY <1>1, <2>1 DEF RecentOfPost
    <3>5. ASSUME NEW f \in post_interactions'[p]
          PROVE  active_recent_posts'[p] >= f.ts \/ f.ts <= call'.ts
      BY <2>1, <3>2, <3>3, <3>4
    <3> QED BY <1>1, <2>1, <3>1, <3>5 DEF RecentOfPost, Removing, Unlinking
  <2> QED BY <2>2, <2>3
<1>11. CASE RecordBitmap
  BY <1>3, <1>11 DEF RecordBitmap, Goto, posts, Removing, Unlinking, Calling
<1>12. CASE RecordActive
  <2>1. /\ step = "active" /\ step' = "idle"
        /\ active_recent_posts' = [active_recent_posts EXCEPT
                                     ![call.post] = Larger(active_recent_posts[call.post], call.ts)]
        /\ post_interactions' = post_interactions
    BY <1>12 DEF RecordActive, Return, edges
  <2>2. CASE p # call.post
    BY <1>0, <1>3, <2>1, <2>2 DEF PostsTyped, Calling, Removing, Unlinking
  <2>3. CASE p = call.post
    <3>1. active_recent_posts'[p] = Larger(active_recent_posts[p], call.ts)
      BY <1>0, <1>1, <2>1, <2>3 DEF PostsTyped
    <3>2. active_recent_posts[p] \in Nat /\ call.ts \in Nat
      BY <1>0, <1>1, <2>1, GraphAssumption DEF PostsTyped, CallOK, Recording, Times
    <3>3. ASSUME NEW f \in post_interactions[p] PROVE active_recent_posts'[p] >= f.ts
      <4>1. active_recent_posts[p] >= f.ts \/ f.ts <= call.ts
        BY <1>1 DEF RecentOfPost
      <4> QED BY <1>2, <3>1, <3>2, <4>1 DEF Larger
    <3> QED BY <1>1, <2>1, <3>3 DEF RecentOfPost, Removing, Unlinking, Calling
  <2> QED BY <2>2, <2>3
<1>13. CASE \/ \E u \in User : UnlinkForward(u)
            \/ UnlinkBitmap \/ RemoveMetadata \/ UnlinkAuthor \/ RemoveTopic
  BY <1>5, <1>13 DEF UnlinkForward, UnlinkBitmap, RemoveMetadata, UnlinkAuthor, RemoveTopic, Goto,
     edges, posts, Removing, Unlinking
<1>14. CASE RemoveActive
  <2>1. /\ step = "unactive" /\ step' = "idle"
        /\ active_recent_posts' = [active_recent_posts EXCEPT ![call.post] = NoTime]
        /\ post_interactions' = post_interactions
    BY <1>14 DEF RemoveActive, Return, edges
  <2>2. CASE p # call.post
    BY <1>0, <1>3, <2>1, <2>2 DEF PostsTyped, Calling, Removing, Unlinking
  <2>3. CASE p = call.post
    BY <1>1, <2>1, <2>3 DEF RecentOfPost, Removing, Unlinking, Calling
  <2> QED BY <2>2, <2>3
<1> QED BY <1>6, <1>7, <1>8, <1>9, <1>10, <1>11, <1>12, <1>13, <1>14 DEF Consume

LEMMA PruneKeepsRecent ==
  ASSUME Typed, Recent, Prune PROVE Recent'
<1>0. TypeOK /\ EdgesTyped /\ PostsTyped /\ PassTyped
  BY TypeParts DEF Typed
<1> SUFFICES ASSUME NEW p \in Post \ raced_posts' PROVE RecentOfPost(p)'
  BY DEF Recent
<1>1. ~Calling(p)' /\ ~Calling(p) /\ p \in Post \ raced_posts
  BY PruneSparesCalls
<1>2. /\ \A e \in post_interactions[p] : active_recent_posts[p] >= e.ts
      /\ Done("reverse", p) => \A e \in post_interactions[p] : e.ts >= cutoff
  BY <1>1 DEF Recent, RecentOfPost
<1>3. /\ \A e \in post_interactions[p] : e.ts \in Nat
      /\ active_recent_posts[p] \in Nat /\ cutoff \in Nat
  BY <1>0, <1>1, EdgeShape, GraphAssumption DEF EdgesTyped, PostsTyped, PassTyped, Times
<1>4. ASSUME \A e \in post_interactions'[p] : active_recent_posts'[p] >= e.ts,
             Done("reverse", p)' => \A e \in post_interactions'[p] : e.ts >= cutoff'
      PROVE  RecentOfPost(p)'
  BY <1>1, <1>4 DEF RecentOfPost
<1>5. ASSUME NEW p0 \in Post, PruneReverse(p0) PROVE RecentOfPost(p)'
  <2>1. /\ post_interactions' = [post_interactions EXCEPT ![p0] = Fresh(post_interactions[p0])]
        /\ active_recent_posts' = active_recent_posts /\ cutoff' = cutoff
        /\ Done("reverse", p)' <=> Done("reverse", p) \/ p = p0
    BY <1>0, <1>5, VisitMoves DEF PruneReverse, Sweeps, Shards, posts
  <2>2. CASE p # p0
    BY <1>0, <1>2, <1>4, <2>1, <2>2 DEF EdgesTyped
  <2>3. CASE p = p0
    <3>1. post_interactions'[p] = Fresh(post_interactions[p])
      BY <1>0, <2>1, <2>3 DEF EdgesTyped
    <3> QED BY <1>2, <1>4, <2>1, <3>1 DEF Fresh
  <2> QED BY <2>2, <2>3
<1>6. ASSUME NEW p0 \in Post, PruneActive(p0) PROVE RecentOfPost(p)'
  <2>1. /\ post_interactions' = post_interactions /\ cutoff' = cutoff
        /\ active_recent_posts' =
             [active_recent_posts EXCEPT
                ![p0] = IF active_recent_posts[p0] >= cutoff THEN active_recent_posts[p0] ELSE NoTime]
        /\ Done("reverse", p)
    BY <1>0, <1>6, DoneOrder DEF PruneActive, edges, Visit
  <2>2. \A e \in post_interactions[p] : e.ts >= cutoff /\ active_recent_posts[p] >= e.ts
    BY <1>2, <2>1
  <2>3. \A e \in post_interactions[p] : active_recent_posts'[p] >= e.ts
    <3>1. CASE p # p0
      BY <1>0, <2>1, <2>2, <3>1 DEF PostsTyped
    <3>2. CASE p = p0
      <4>1. active_recent_posts'[p] =
              IF active_recent_posts[p] >= cutoff THEN active_recent_posts[p] ELSE NoTime
        BY <1>0, <2>1, <3>2 DEF PostsTyped
      <4> QED BY <1>3, <2>2, <4>1
    <3> QED BY <3>1, <3>2
  <2> QED BY <1>4, <2>1, <2>2, <2>3
<1>7. ASSUME UNCHANGED <<post_interactions, active_recent_posts>>, cutoff' = cutoff,
             Done("reverse", p)' => Done("reverse", p)
      PROVE  RecentOfPost(p)'
  BY <1>2, <1>4, <1>7
<1>8. ASSUME UNCHANGED <<post_interactions, active_recent_posts>>,
             NEW id, Visit(id), phase \in Sweeps \ {"reverse"}
      PROVE  RecentOfPost(p)'
  <2>1. Done("reverse", p)' <=> Done("reverse", p)
    BY <1>0, <1>8, VisitMoves DEF Sweeps, Shards
  <2> QED BY <1>7, <1>8, <2>1 DEF Visit
<1>9. ASSUME NEW u \in User, PruneForward(u) \/ PruneAuthors(u) PROVE RecentOfPost(p)'
  BY <1>8, <1>9 DEF PruneForward, PruneAuthors, edges, posts, Sweeps
<1>10. ASSUME NEW q \in Post, PruneMetadata(q) \/ PruneTopics(q) PROVE RecentOfPost(p)'
  BY <1>8, <1>10 DEF PruneMetadata, PruneTopics, edges, posts, Sweeps
<1>11. CASE SwapBitmap
  BY <1>8, <1>11 DEF SwapBitmap, Typed, RebuiltOK, Sweeps, posts
<1>12. ASSUME NEW u \in User, RebuildBitmap(u) PROVE RecentOfPost(p)'
  BY <1>7, <1>12 DEF RebuildBitmap, edges, posts, Done
<1>13. CASE FinishPrune
  BY <1>7, <1>13 DEF FinishPrune, edges, posts, Done, Stage
<1>14. ASSUME NEW c \in cutoff..MaxTime, BeginPrune(c) PROVE RecentOfPost(p)'
  <2>1. ~Done("reverse", p)'
    BY <1>14 DEF BeginPrune, Done, Stage
  <2> QED BY <1>2, <1>4, <1>14, <2>1 DEF BeginPrune, edges, posts
<1> QED BY <1>5, <1>6, <1>9, <1>10, <1>11, <1>12, <1>13, <1>14 DEF Prune

(***************************************************************************)
(* The author index and the topics.                                        *)
(***************************************************************************)

Linked(p) == p \in author_posts[Author[p]]

LEMMA ConsumeKeepsIndexes ==
  ASSUME Typed, Indexes, Consume PROVE Indexes'
<1>0. TypeOK /\ EdgesTyped /\ PostsTyped /\ PassTyped /\ CallOK /\ Author \in [Post -> User]
  BY TypeParts, GraphAssumption DEF Typed
<1> SUFFICES ASSUME NEW p \in Post \ raced_posts' PROVE IndexOfPost(p)'
  BY DEF Indexes
<1>1. /\ p \in Post \ raced_posts /\ p \notin raced_bits /\ IndexOfPost(p)
      /\ UNCHANGED <<phase, valid_posts>>
      /\ \A ph \in Sweeps : \A x : Done(ph, x)' <=> Done(ph, x)
  BY ConsumeFrame DEF Indexes, Typed, RacedOK, pruner
<1>2. ASSUME post_metadata'[p] = post_metadata[p], Linked(p)' <=> Linked(p),
             p \in post_topics' => p \in post_topics,
             post_interactions[p] # {} => post_interactions'[p] # {},
             Calling(p) /\ step \in {"author", "unauthor"} =>
               Calling(p)' /\ step' \in {"author", "unauthor"},
             Calling(p)' /\ step' \in {"author", "topic"} => Calling(p) /\ step \in {"author", "topic"},
             Calling(p)' /\ step' = "unauthor" => Calling(p) /\ step = "unauthor",
             Calling(p) /\ step \in Removing \ {"unactive"} =>
               Calling(p)' /\ step' \in Removing \ {"unactive"}
      PROVE  IndexOfPost(p)'
  BY <1>1, <1>2 DEF IndexOfPost, Sweeps, Linked
<1>3. ASSUME UNCHANGED posts, post_interactions[p] # {} => post_interactions'[p] # {},
             step \notin {"author", "unauthor"} \cup Removing \/ step = "unactive",
             step' \notin {"author", "unauthor", "topic"}
      PROVE  IndexOfPost(p)'
  BY <1>2, <1>3 DEF posts, Linked, Removing, Unlinking
<1>4. ASSUME ~Calling(p), ~Calling(p)', post_metadata'[p] = post_metadata[p],
             Linked(p)' <=> Linked(p), p \in post_topics' => p \in post_topics,
             post_interactions' = post_interactions
      PROVE  IndexOfPost(p)'
  BY <1>2, <1>4
<1>5. ASSUME Calling(p)
      PROVE  /\ phase = "idle" /\ phase' = "idle" /\ p = call.post
             /\ \A ph \in Sweeps : \A x : ~Done(ph, x) /\ ~Done(ph, x)'
  BY <1>1, <1>5, CallsBetweenPasses DEF Calling
<1>6. ASSUME step # "idle", call'.post = call.post, p # call.post PROVE ~Calling(p) /\ ~Calling(p)'
  BY <1>6 DEF Calling
<1>7. ASSUME NEW u \in User, NEW q \in Post, NEW s \in Signal, NEW t \in Times,
             BeginInteraction(u, q, s, t)
      PROVE  IndexOfPost(p)'
  BY <1>3, <1>7 DEF BeginInteraction, Begin, edges, posts, Removing, Unlinking
<1>8. ASSUME NEW q \in Post, BeginPostMeta(q) PROVE IndexOfPost(p)'
  BY <1>3, <1>8 DEF BeginPostMeta, Begin, edges, posts, Removing, Unlinking
<1>9. ASSUME NEW q \in Post, BeginDelete(q) PROVE IndexOfPost(p)'
  <2>1. /\ step = "idle" /\ call'.post = q
        /\ step' \in {"unmeta", "unforward"}
        /\ post_interactions' = [post_interactions EXCEPT ![q] = {}]
        /\ UNCHANGED posts
    BY <1>9 DEF BeginDelete, Begin
  <2>2. CASE p # q
    <3>1. post_interactions'[p] = post_interactions[p]
      BY <1>0, <2>1, <2>2 DEF EdgesTyped
    <3> QED BY <1>3, <2>1, <3>1 DEF Removing, Unlinking
  <2>3. CASE p = q
    <3>1. ~Calling(p) /\ Calling(p)' /\ step' \in Removing \ {"unactive"}
      BY <2>1, <2>3 DEF Calling, Removing, Unlinking
    <3> QED BY <1>1, <2>1, <3>1 DEF IndexOfPost, posts, Sweeps
  <2> QED BY <2>2, <2>3
<1>10. ASSUME NEW t \in Times, InsertMetadata(t) PROVE IndexOfPost(p)'
  <2>1. /\ step = "metadata" /\ step' = "author" /\ call' = call
        /\ post_metadata' = [post_metadata EXCEPT ![call.post] = t]
        /\ UNCHANGED <<post_interactions, author_posts, post_topics>>
    BY <1>10 DEF InsertMetadata, Goto, edges
  <2>2. CASE p # call.post
    BY <1>0, <1>4, <1>6, <2>1, <2>2 DEF PostsTyped, Linked
  <2>3. CASE p = call.post
    <3>1. Calling(p) /\ Calling(p)'
      BY <2>1, <2>3 DEF Calling
    <3>2. post_metadata'[p] # NoTime
      BY <1>0, <1>1, <2>1, <2>3 DEF PostsTyped, NoTime, Times
    <3> QED BY <1>5, <2>1, <3>1, <3>2 DEF IndexOfPost
  <2> QED BY <2>2, <2>3
<1>11. CASE LinkAuthor
  <2> DEFINE a == Author[call.post]
  <2>1. /\ step = "author" /\ step' \in {"topic", "forward"} /\ call' = call
        /\ author_posts' = [author_posts EXCEPT ![a] = author_posts[a] \cup {call.post}]
        /\ UNCHANGED <<post_interactions, post_metadata, post_topics>>
    BY <1>11 DEF LinkAuthor, Goto, edges
  <2>2. CASE p # call.post
    <3>1. Linked(p)' <=> Linked(p)
      BY <1>0, <1>1, <2>1, <2>2 DEF PostsTyped, Linked
    <3> QED BY <1>4, <1>6, <2>1, <2>2, <3>1
  <2>3. CASE p = call.post
    <3>1. Calling(p) /\ Calling(p)'
      BY <2>1, <2>3 DEF Calling
    <3>2. Linked(p)'
      BY <1>0, <1>1, <2>1, <2>3 DEF PostsTyped, Linked
    <3>3. post_metadata[p] # NoTime
      BY <1>1, <2>1, <3>1 DEF IndexOfPost
    <3> QED BY <1>5, <2>1, <3>1, <3>2, <3>3 DEF IndexOfPost, Linked
  <2> QED BY <2>2, <2>3
<1>12. ASSUME NEW c \in BOOLEAN, RecordTopic(c) PROVE IndexOfPost(p)'
  <2>1. /\ step = "topic" /\ step' = "idle"
        /\ post_topics' \subseteq post_topics \cup {call.post}
        /\ UNCHANGED <<post_interactions, post_metadata, author_posts>>
    BY <1>12 DEF RecordTopic, Return, edges
  <2>2. CASE p # call.post
    BY <1>4, <2>1, <2>2 DEF Calling, Linked
  <2>3. CASE p = call.post
    <3>1. Calling(p) /\ ~Calling(p)'
      BY <2>1, <2>3 DEF Calling
    <3>2. post_metadata[p] # NoTime
      BY <1>1, <2>1, <3>1 DEF IndexOfPost
    <3> QED BY <1>1, <1>5, <2>1, <3>1, <3>2 DEF IndexOfPost
  <2> QED BY <2>2, <2>3
<1>13. CASE RecordForward \/ RecordBitmap
  BY <1>3, <1>13 DEF RecordForward, RecordBitmap, Goto, Removing, Unlinking
<1>14. CASE RecordReverse
  <2> DEFINE e == Edge(call.user, call.signal, call.ts)
  <2>1. /\ step = "reverse" /\ step' = "bitmap" /\ UNCHANGED posts
        /\ post_interactions' =
             [post_interactions EXCEPT ![call.post] = WithEdge(post_interactions[call.post], e)]
    BY <1>14 DEF RecordReverse, Goto
  <2>2. post_interactions[p] # {} => post_interactions'[p] # {}
    <3> HIDE DEF e
    <3> QED BY <1>0, <1>1, <2>1 DEF EdgesTyped, WithEdge
  <2> QED BY <1>3, <2>1, <2>2 DEF Removing, Unlinking
<1>15. CASE RecordActive \/ RemoveActive
  BY <1>2, <1>15 DEF RecordActive, RemoveActive, Return, edges, Removing, Unlinking, Linked, Calling
<1>16. CASE UnlinkBitmap \/ \E u \in User : UnlinkForward(u)
  <2>1. /\ step \in Unlinking /\ step' \in Removing \ {"unauthor", "unactive"} /\ call'.post = call.post
        /\ UNCHANGED <<post_interactions, posts>>
    BY <1>16 DEF UnlinkForward, UnlinkBitmap, Removing, Unlinking
  <2> QED BY <1>2, <2>1 DEF posts, Linked, Removing, Unlinking, Calling
<1>17. CASE RemoveMetadata
  <2>1. /\ step = "unmeta" /\ call' = call
        /\ step' = IF post_metadata[call.post] = NoTime THEN "untopic" ELSE "unauthor"
        /\ post_metadata' = [post_metadata EXCEPT ![call.post] = NoTime]
        /\ UNCHANGED <<post_interactions, author_posts, post_topics>>
    BY <1>17 DEF RemoveMetadata, Goto, edges
  <2>2. CASE p # call.post
    BY <1>0, <1>4, <1>6, <2>1, <2>2 DEF PostsTyped, Linked
  <2>3. CASE p = call.post
    <3>1. Calling(p) /\ Calling(p)' /\ step' \in Removing \ {"unactive"}
      BY <2>1, <2>3 DEF Calling, Removing, Unlinking
    <3>2. post_metadata'[p] = NoTime
      BY <1>0, <1>1, <2>1, <2>3 DEF PostsTyped
    <3>3. Linked(p) => post_metadata[p] # NoTime
      BY <1>1, <1>5, <2>1, <3>1 DEF IndexOfPost, Linked, Sweeps
    <3>4. step' = "untopic" => ~Linked(p)
      BY <2>1, <2>3, <3>3
    <3> QED BY <1>5, <2>1, <3>1, <3>2, <3>4 DEF IndexOfPost, Linked
  <2> QED BY <2>2, <2>3
<1>18. CASE UnlinkAuthor
  <2> DEFINE a == Author[call.post]
  <2>1. /\ step = "unauthor" /\ step' = "untopic" /\ call' = call
        /\ author_posts' = [author_posts EXCEPT ![a] = author_posts[a] \ {call.post}]
        /\ UNCHANGED <<post_interactions, post_metadata, post_topics>>
    BY <1>18 DEF UnlinkAuthor, Goto, edges
  <2>2. CASE p # call.post
    <3>1. Linked(p)' <=> Linked(p)
      BY <1>0, <1>1, <2>1, <2>2 DEF PostsTyped, Linked
    <3> QED BY <1>4, <1>6, <2>1, <2>2, <3>1
  <2>3. CASE p = call.post
    <3>1. Calling(p) /\ Calling(p)' /\ step' \in Removing \ {"unactive"}
      BY <2>1, <2>3 DEF Calling, Removing, Unlinking
    <3>2. ~Linked(p)'
      BY <1>0, <1>1, <2>1, <2>3 DEF PostsTyped, Linked
    <3>3. post_metadata[p] = NoTime
      BY <1>1, <2>1, <3>1 DEF IndexOfPost
    <3> QED BY <1>5, <2>1, <3>1, <3>2, <3>3 DEF IndexOfPost, Linked
  <2> QED BY <2>2, <2>3
<1>19. CASE RemoveTopic
  <2>1. /\ step = "untopic" /\ step' = "unactive" /\ call' = call
        /\ post_topics' = post_topics \ {call.post}
        /\ UNCHANGED <<post_interactions, post_metadata, author_posts>>
    BY <1>19 DEF RemoveTopic, Goto, edges
  <2>2. CASE p # call.post
    BY <1>4, <1>6, <2>1, <2>2 DEF Linked
  <2>3. CASE p = call.post
    <3>1. Calling(p) /\ Calling(p)' /\ p \notin post_topics'
      BY <2>1, <2>3 DEF Calling
    <3> QED BY <1>1, <1>5, <2>1, <3>1 DEF IndexOfPost, Sweeps
  <2> QED BY <2>2, <2>3
<1> QED BY <1>7, <1>8, <1>9, <1>10, <1>11, <1>12, <1>13, <1>14, <1>15, <1>16, <1>17, <1>18, <1>19
        DEF Consume

LEMMA PruneKeepsIndexes ==
  ASSUME Typed, Indexes, Prune PROVE Indexes'
<1>0. TypeOK /\ EdgesTyped /\ PostsTyped /\ PassTyped /\ Author \in [Post -> User]
  BY TypeParts, GraphAssumption DEF Typed
<1> SUFFICES ASSUME NEW p \in Post \ raced_posts' PROVE IndexOfPost(p)'
  BY DEF Indexes
<1>1. ~Calling(p)' /\ ~Calling(p) /\ p \in Post \ raced_posts
  BY PruneSparesCalls
<1> DEFINE
      Kept    == p \in valid_posts <=> Done("metadata", p) /\ post_metadata[p] # NoTime
      Links   == /\ post_metadata[p] # NoTime => Linked(p)
                 /\ Linked(p) => post_metadata[p] # NoTime
                                   \/ (Done("metadata", p) /\ ~Done("authors", Author[p]))
      Topical == p \in post_topics => \/ post_metadata[p] # NoTime \/ post_interactions[p] # {}
                                      \/ Done("reverse", p) /\ ~Done("topics", p)
<1>2. (phase # "idle" => Kept) /\ Links /\ Topical
  BY <1>1 DEF Indexes, IndexOfPost, Linked
<1>3. ASSUME phase' # "idle" => Kept', Links', Topical' PROVE IndexOfPost(p)'
  BY <1>1, <1>3 DEF IndexOfPost, Linked
<1>4. ASSUME UNCHANGED posts, post_interactions'[p] = post_interactions[p],
             valid_posts' = valid_posts, phase # "idle",
             \A ph \in Sweeps \ {"forward", "bitmaps"} : \A x \in Shards(ph) : Done(ph, x)' <=> Done(ph, x)
      PROVE  IndexOfPost(p)'
  <2>2. Done("authors", Author[p])' <=> Done("authors", Author[p])
    BY <1>0, <1>4 DEF Sweeps, Shards
  <2>3. Done("topics", p)' <=> Done("topics", p)
    BY <1>4 DEF Sweeps, Shards
  <2>4. /\ Done("reverse", p)' <=> Done("reverse", p)
        /\ Done("metadata", p)' <=> Done("metadata", p)
    BY <1>4 DEF Sweeps, Shards
  <2> QED BY <1>2, <1>3, <1>4, <2>2, <2>3, <2>4 DEF posts, Linked
<1>5. ASSUME NEW u \in User, PruneForward(u) PROVE IndexOfPost(p)'
  <2>1. \A ph \in Sweeps \ {"forward"} : \A x \in Shards(ph) : Done(ph, x)' <=> Done(ph, x)
    BY <1>0, <1>5, VisitMoves DEF PruneForward, Sweeps
  <2> QED BY <1>4, <1>5, <2>1 DEF PruneForward
<1>6. ASSUME NEW p0 \in Post, PruneReverse(p0) PROVE IndexOfPost(p)'
  <2>1. /\ post_interactions' = [post_interactions EXCEPT ![p0] = Fresh(post_interactions[p0])]
        /\ UNCHANGED <<posts, valid_posts>> /\ phase = "reverse"
        /\ \A ph \in Sweeps : \A x \in Shards(ph) :
             Done(ph, x)' <=> Done(ph, x) \/ (ph = "reverse" /\ x = p0)
    BY <1>0, <1>6, VisitMoves DEF PruneReverse, Sweeps
  <2>2. /\ Done("metadata", p)' <=> Done("metadata", p)
        /\ Done("authors", Author[p])' <=> Done("authors", Author[p])
        /\ Done("topics", p)' <=> Done("topics", p)
        /\ Done("reverse", p)' <=> Done("reverse", p) \/ p = p0
    BY <1>0, <2>1 DEF Sweeps, Shards
  <2>3. ~Done("topics", p)
    BY <2>1 DEF Done, Stage
  <2>4. p # p0 => post_interactions'[p] = post_interactions[p]
    BY <1>0, <2>1 DEF EdgesTyped
  <2> QED BY <1>2, <1>3, <2>1, <2>2, <2>3, <2>4 DEF posts, Linked
<1>7. ASSUME NEW p0 \in Post, PruneActive(p0) PROVE IndexOfPost(p)'
  <2>1. /\ UNCHANGED <<post_interactions, post_metadata, author_posts, post_topics, valid_posts>>
        /\ phase = "active"
        /\ \A ph \in Sweeps \ {"active"} : \A x \in Shards(ph) : Done(ph, x)' <=> Done(ph, x)
    BY <1>0, <1>7, VisitMoves DEF PruneActive, Sweeps, edges
  <2>2. /\ Done("metadata", p)' <=> Done("metadata", p)
        /\ Done("authors", Author[p])' <=> Done("authors", Author[p])
        /\ Done("topics", p)' <=> Done("topics", p)
        /\ Done("reverse", p)' <=> Done("reverse", p)
    BY <1>0, <2>1 DEF Sweeps, Shards
  <2> QED BY <1>2, <1>3, <2>1, <2>2 DEF Linked
<1>8. ASSUME NEW p0 \in Post, PruneMetadata(p0) PROVE IndexOfPost(p)'
  <2> DEFINE keep == post_metadata[p0] # NoTime /\ post_metadata[p0] >= cutoff
  <2>1. /\ post_metadata' = [post_metadata EXCEPT ![p0] = IF keep THEN post_metadata[p0] ELSE NoTime]
        /\ valid_posts' = valid_posts \cup (IF keep THEN {p0} ELSE {})
        /\ UNCHANGED <<post_interactions, author_posts, post_topics>> /\ phase = "metadata"
        /\ ~Done("metadata", p0)
        /\ \A ph \in Sweeps : \A x \in Shards(ph) :
             Done(ph, x)' <=> Done(ph, x) \/ (ph = "metadata" /\ x = p0)
    BY <1>0, <1>8, VisitMoves DEF PruneMetadata, Sweeps, edges
  <2>2. /\ Done("metadata", p)' <=> Done("metadata", p) \/ p = p0
        /\ Done("authors", Author[p])' <=> Done("authors", Author[p])
        /\ Done("topics", p)' <=> Done("topics", p)
        /\ Done("reverse", p)' <=> Done("reverse", p)
    BY <1>0, <2>1 DEF Sweeps, Shards
  <2>3. ~Done("topics", p) /\ ~Done("authors", Author[p]) /\ Done("reverse", p)
    BY <2>1 DEF Done, Stage
  <2>4. CASE p # p0
    <3>1. post_metadata'[p] = post_metadata[p]
      BY <1>0, <2>1, <2>4 DEF PostsTyped
    <3> QED BY <1>2, <1>3, <2>1, <2>2, <2>4, <3>1 DEF Linked
  <2>5. CASE p = p0
    <3>1. post_metadata'[p] = IF keep THEN post_metadata[p] ELSE NoTime
      BY <1>0, <2>1, <2>5 DEF PostsTyped
    <3>2. p \notin valid_posts
      BY <1>2, <2>1, <2>5
    <3>3. Kept'
      BY <2>1, <2>2, <2>5, <3>1, <3>2
    <3>4. Links' /\ Topical'
      BY <1>2, <2>1, <2>2, <2>3, <2>5, <3>1 DEF Linked
    <3> QED BY <1>3, <3>3, <3>4
  <2> QED BY <2>4, <2>5
<1>9. ASSUME NEW u \in User, PruneAuthors(u) PROVE IndexOfPost(p)'
  <2>1. /\ author_posts' = [author_posts EXCEPT ![u] = author_posts[u] \cap valid_posts]
        /\ UNCHANGED <<post_interactions, post_metadata, post_topics, valid_posts>> /\ phase = "authors"
        /\ \A ph \in Sweeps : \A x \in Shards(ph) :
             Done(ph, x)' <=> Done(ph, x) \/ (ph = "authors" /\ x = u)
    BY <1>0, <1>9, VisitMoves DEF PruneAuthors, Sweeps, edges
  <2>2. /\ Done("metadata", p)' <=> Done("metadata", p)
        /\ Done("authors", Author[p])' <=> Done("authors", Author[p]) \/ Author[p] = u
        /\ Done("topics", p)' <=> Done("topics", p)
        /\ Done("reverse", p)' <=> Done("reverse", p)
    BY <1>0, <2>1 DEF Sweeps, Shards
  <2>3. p \in valid_posts <=> post_metadata[p] # NoTime
    BY <1>0, <1>2, <2>1, DoneOrder
  <2>4. Linked(p)' <=> Linked(p) /\ (Author[p] = u => p \in valid_posts)
    BY <1>0, <2>1 DEF PostsTyped, Linked
  <2> QED BY <1>2, <1>3, <2>1, <2>2, <2>3, <2>4
<1>10. ASSUME NEW p0 \in Post, PruneTopics(p0) PROVE IndexOfPost(p)'
  <2>1. /\ post_topics' = IF p0 \in valid_posts \/ post_interactions[p0] # {}
                          THEN post_topics ELSE post_topics \ {p0}
        /\ UNCHANGED <<post_interactions, post_metadata, author_posts, valid_posts>> /\ phase = "topics"
        /\ \A ph \in Sweeps : \A x \in Shards(ph) :
             Done(ph, x)' <=> Done(ph, x) \/ (ph = "topics" /\ x = p0)
    BY <1>0, <1>10, VisitMoves DEF PruneTopics, Sweeps, edges
  <2>2. /\ Done("metadata", p)' <=> Done("metadata", p)
        /\ Done("authors", Author[p])' <=> Done("authors", Author[p])
        /\ Done("topics", p)' <=> Done("topics", p) \/ p = p0
        /\ Done("reverse", p)' <=> Done("reverse", p)
    BY <1>0, <2>1 DEF Sweeps, Shards
  <2>3. p \in valid_posts => post_metadata[p] # NoTime
    BY <1>2, <2>1
  <2> QED BY <1>2, <1>3, <2>1, <2>2, <2>3 DEF Linked
<1>11. CASE SwapBitmap
  <2>1. /\ UNCHANGED <<posts, post_interactions, valid_posts>> /\ phase = "bitmaps"
        /\ \A ph \in Sweeps \ {"bitmaps"} : \A x \in Shards(ph) : Done(ph, x)' <=> Done(ph, x)
    BY <1>0, <1>11, VisitMoves DEF SwapBitmap, Typed, RebuiltOK, Sweeps
  <2> QED BY <1>4, <2>1
<1>12. ASSUME NEW u \in User, RebuildBitmap(u) PROVE IndexOfPost(p)'
  BY <1>4, <1>12 DEF RebuildBitmap, edges, Done
<1>13. CASE FinishPrune
  <2>1. Done("authors", Author[p]) /\ Done("topics", p)
    BY <1>13 DEF FinishPrune, Done, Stage
  <2> QED BY <1>2, <1>3, <1>13, <2>1 DEF FinishPrune, edges, posts, Linked
<1>14. ASSUME NEW c \in cutoff..MaxTime, BeginPrune(c) PROVE IndexOfPost(p)'
  <2>1. ~Done("metadata", p)' /\ ~Done("metadata", p) /\ ~Done("reverse", p) /\ valid_posts' = {}
    BY <1>14 DEF BeginPrune, Done, Stage
  <2> QED BY <1>2, <1>3, <1>14, <2>1 DEF BeginPrune, edges, posts, Linked
<1> QED BY <1>5, <1>6, <1>7, <1>8, <1>9, <1>10, <1>11, <1>12, <1>13, <1>14 DEF Prune

(***************************************************************************)
(* The bitmaps.                                                            *)
(***************************************************************************)

Likes(u, p) == p \in Targets(user_interactions[u])
Bit(u, p) == p \in user_likes_bitmaps[u]

LEMMA CallsEndCleanPass ==
  ASSUME Typed, Consume
  PROVE  ~clean' /\ (step' = "unbitmap" => \E u \in User : UnlinkForward(u))
<1>1. ASSUME step # "idle", UNCHANGED ghosts PROVE ~clean'
  BY <1>1 DEF Typed, RacedOK, ghosts
<1>2. ASSUME NEW p \in Post,
             (\E u \in User, s \in Signal, t \in Times : BeginInteraction(u, p, s, t))
               \/ BeginPostMeta(p) \/ BeginDelete(p)
      PROVE  ~clean' /\ step' # "unbitmap"
  BY <1>2 DEF BeginInteraction, BeginPostMeta, BeginDelete, Begin
<1>3. CASE \/ \E t \in Times : InsertMetadata(t)
           \/ LinkAuthor
           \/ \E c \in BOOLEAN : RecordTopic(c)
           \/ RecordForward \/ RecordReverse \/ RecordBitmap \/ RecordActive
           \/ RemoveMetadata \/ UnlinkAuthor \/ RemoveTopic \/ RemoveActive
  BY <1>1, <1>3 DEF InsertMetadata, LinkAuthor, RecordTopic, RecordForward, RecordReverse,
     RecordBitmap, RecordActive, RemoveMetadata, UnlinkAuthor, RemoveTopic, RemoveActive,
     Goto, Return
<1>4. CASE UnlinkBitmap \/ \E u \in User : UnlinkForward(u)
  BY <1>1, <1>4 DEF UnlinkBitmap, UnlinkForward
<1> QED BY <1>2, <1>3, <1>4 DEF Consume

LEMMA ConsumeKeepsBits ==
  ASSUME Typed, Bits, Consume PROVE Bits'
<1>0. TypeOK /\ EdgesTyped /\ PostsTyped /\ PassTyped /\ CallOK
  BY TypeParts DEF Typed
<1>1. CleanPass'
  BY CallsEndCleanPass DEF CleanPass
<1>2. ASSUME step' = "unbitmap", call'.u_empty PROVE user_interactions'[call'.user] = {}
  <2>1. PICK u \in User : UnlinkForward(u)
    BY <1>2, CallsEndCleanPass
  <2> DEFINE kept == {e \in user_interactions[u] : e.target # call.post}
  <2>2. /\ user_interactions' = [user_interactions EXCEPT ![u] = kept]
        /\ call'.user = u /\ call'.u_empty = (kept = {} /\ user_interactions[u] # {})
    BY <2>1 DEF UnlinkForward
  <2>3. kept = {}
    BY <1>2, <2>2
  <2> QED BY <1>0, <2>2, <2>3 DEF EdgesTyped
<1> SUFFICES ASSUME NEW u \in User, NEW p \in Post \ raced_bits' PROVE BitsOfPost(u, p)'
  BY <1>1, <1>2 DEF Bits
<1>3. /\ p \in Post \ raced_bits /\ BitsOfPost(u, p) /\ rebuilt' = rebuilt
      /\ Stale(u)' <=> Stale(u)
  BY ConsumeFrame DEF Bits, pruner, Stale, Sweeps
<1>4. Calling(p) => rebuilt = {}
  BY <1>3, CallsBetweenPasses DEF Typed, RebuiltOK
<1>5. ASSUME Likes(u, p)' <=> Likes(u, p), Bit(u, p)' <=> Bit(u, p),
             BitPending(u, p)' <=> BitPending(u, p),
             step' = "unbitmap" <=> step = "unbitmap"
      PROVE  BitsOfPost(u, p)'
  BY <1>3, <1>5 DEF BitsOfPost, Matches, Likes, Bit
<1>6. ASSUME Likes(u, p)' <=> Likes(u, p), Bit(u, p)' <=> Bit(u, p),
             ~BitPending(u, p), ~BitPending(u, p)'
      PROVE  BitsOfPost(u, p)'
  BY <1>3, <1>6 DEF BitsOfPost, Matches, Likes, Bit
<1>7. ASSUME UNCHANGED <<user_interactions, user_likes_bitmaps>>,
             step \notin {"reverse", "bitmap", "unbitmap"},
             step' \notin {"reverse", "bitmap", "unbitmap"}
      PROVE  BitsOfPost(u, p)'
  BY <1>6, <1>7 DEF Likes, Bit, BitPending
<1>8. ASSUME NEW v \in User, NEW q \in Post, NEW s \in Signal, NEW t \in Times,
             BeginInteraction(v, q, s, t)
      PROVE  BitsOfPost(u, p)'
  BY <1>7, <1>8 DEF BeginInteraction, Begin, edges
<1>9. ASSUME NEW q \in Post, BeginPostMeta(q) \/ BeginDelete(q) PROVE BitsOfPost(u, p)'
  BY <1>7, <1>9 DEF BeginPostMeta, BeginDelete, Begin, edges
<1>10. CASE (\E t \in Times : InsertMetadata(t)) \/ LinkAuthor \/ (\E c \in BOOLEAN : RecordTopic(c))
            \/ RecordActive \/ RemoveMetadata \/ UnlinkAuthor \/ RemoveTopic \/ RemoveActive
  BY <1>7, <1>10 DEF InsertMetadata, LinkAuthor, RecordTopic, RecordActive,
     RemoveMetadata, UnlinkAuthor, RemoveTopic, RemoveActive, Goto, Return, edges
<1>11. CASE RecordForward
  <2> DEFINE e == Edge(call.post, call.signal, call.ts)
             fs == WithEdge(user_interactions[call.user], e)
  <2>1. /\ step = "forward" /\ step' = "reverse" /\ call' = call
        /\ user_interactions' = [user_interactions EXCEPT ![call.user] = fs]
        /\ user_likes_bitmaps' = user_likes_bitmaps
    BY <1>11 DEF RecordForward, Goto
  <2>a. e.target = call.post
    BY DEF Edge
  <2> HIDE DEF e
  <2>2. /\ e.target = call.post
        /\ fs = user_interactions[call.user]
             \/ fs = user_interactions[call.user] \cup {e}
        /\ \E f \in fs : f.target = call.post
    BY <2>a DEF WithEdge
  <2> HIDE DEF fs
  <2>3. CASE u # call.user
    <3>1. Likes(u, p)' <=> Likes(u, p)
      BY <1>0, <2>1, <2>3 DEF EdgesTyped, Likes
    <3> QED BY <1>6, <2>1, <2>3, <3>1 DEF BitPending, Bit
  <2>4. CASE u = call.user /\ p # call.post
    <3>1. user_interactions'[u] = fs
      BY <1>0, <2>1, <2>4 DEF EdgesTyped
    <3>2. Likes(u, p)' <=> Likes(u, p)
      BY <2>2, <2>4, <3>1 DEF Likes, Targets
    <3> QED BY <1>6, <2>1, <2>4, <3>2 DEF BitPending, Calling, Bit
  <2>5. CASE u = call.user /\ p = call.post
    <3>1. user_interactions'[u] = fs
      BY <1>0, <2>1, <2>5 DEF EdgesTyped
    <3>2. Likes(u, p)'
      BY <2>2, <2>5, <3>1 DEF Likes, Targets
    <3>3. Calling(p) /\ BitPending(u, p)'
      BY <2>1, <2>5 DEF BitPending, Calling
    <3> QED BY <1>3, <1>4, <2>1, <3>2, <3>3 DEF BitsOfPost, Likes
  <2> QED BY <2>3, <2>4, <2>5
<1>12. CASE RecordReverse
  BY <1>5, <1>12 DEF RecordReverse, Goto, Likes, Bit, BitPending, Calling
<1>13. CASE RecordBitmap
  <2>1. /\ step = "bitmap" /\ step' = "active" /\ call' = call
        /\ user_likes_bitmaps' =
             [user_likes_bitmaps EXCEPT ![call.user] = user_likes_bitmaps[call.user] \cup {call.post}]
        /\ user_interactions' = user_interactions
    BY <1>13 DEF RecordBitmap, Goto
  <2>2. ~BitPending(u, p)'
    BY <2>1 DEF BitPending
  <2>3. CASE u # call.user \/ p # call.post
    <3>1. Bit(u, p)' <=> Bit(u, p)
      BY <1>0, <2>1, <2>3 DEF PostsTyped, Bit
    <3>2. ~BitPending(u, p)
      BY <2>3 DEF BitPending, Calling
    <3> QED BY <1>6, <2>1, <2>2, <3>1, <3>2 DEF Likes
  <2>4. CASE u = call.user /\ p = call.post
    <3>1. Bit(u, p)'
      BY <1>0, <2>1, <2>4 DEF PostsTyped, Bit
    <3>2. Calling(p) /\ BitPending(u, p)
      BY <2>1, <2>4 DEF BitPending, Calling
    <3>3. Likes(u, p) /\ Likes(u, p)'
      BY <1>3, <2>1, <3>2 DEF BitsOfPost, Likes
    <3> QED BY <1>3, <1>4, <2>2, <3>1, <3>2, <3>3 DEF BitsOfPost, Matches, Likes, Bit
  <2> QED BY <2>3, <2>4
<1>14. ASSUME NEW u0 \in User, UnlinkForward(u0) PROVE BitsOfPost(u, p)'
  <2> DEFINE kept == {e \in user_interactions[u0] : e.target # call.post}
  <2>1. /\ step = "unforward" /\ step' = "unbitmap"
        /\ user_interactions' = [user_interactions EXCEPT ![u0] = kept]
        /\ call'.post = call.post /\ call'.user = u0
        /\ user_likes_bitmaps' = user_likes_bitmaps
    BY <1>14 DEF UnlinkForward
  <2>2. ~BitPending(u, p)
    BY <2>1 DEF BitPending
  <2>3. CASE u # u0
    <3>1. Likes(u, p)' <=> Likes(u, p)
      BY <1>0, <2>1, <2>3 DEF EdgesTyped, Likes
    <3> QED BY <1>6, <2>1, <2>2, <2>3, <3>1 DEF BitPending, Bit
  <2>4. CASE u = u0 /\ p # call.post
    <3>1. user_interactions'[u] = kept
      BY <1>0, <2>1, <2>4 DEF EdgesTyped
    <3>2. Likes(u, p)' <=> Likes(u, p)
      BY <2>4, <3>1 DEF Likes, Targets
    <3> QED BY <1>6, <2>1, <2>2, <2>4, <3>2 DEF BitPending, Calling, Bit
  <2>5. CASE u = u0 /\ p = call.post
    <3>1. user_interactions'[u] = kept
      BY <1>0, <2>1, <2>5 DEF EdgesTyped
    <3>2. ~Likes(u, p)'
      BY <2>5, <3>1 DEF Likes, Targets
    <3>3. Calling(p) /\ BitPending(u, p)'
      BY <2>1, <2>5 DEF BitPending, Calling
    <3> QED BY <1>3, <1>4, <2>1, <3>2, <3>3 DEF BitsOfPost, Likes
  <2> QED BY <2>3, <2>4, <2>5
<1>15. CASE UnlinkBitmap
  <2> DEFINE left == IF call.u_empty THEN {} ELSE user_likes_bitmaps[call.user] \ {call.post}
  <2>1. /\ step = "unbitmap" /\ step' \in {"unmeta", "unforward"}
        /\ user_likes_bitmaps' = [user_likes_bitmaps EXCEPT ![call.user] = left]
        /\ user_interactions' = user_interactions
    BY <1>15 DEF UnlinkBitmap
  <2>2. ~BitPending(u, p)'
    BY <2>1 DEF BitPending
  <2>3. CASE u # call.user
    <3>1. Bit(u, p)' <=> Bit(u, p)
      BY <1>0, <2>1, <2>3 DEF PostsTyped, Bit
    <3> QED BY <1>6, <2>1, <2>2, <2>3, <3>1 DEF Likes, BitPending
  <2>4. CASE u = call.user
    <3>1. user_likes_bitmaps'[u] = left
      BY <1>0, <2>1, <2>4 DEF PostsTyped
    <3>2. CASE p = call.post
      <4>1. Calling(p) /\ BitPending(u, p)
        BY <2>1, <2>4, <3>2 DEF BitPending, Calling
      <4>2. ~Likes(u, p) /\ ~Likes(u, p)' /\ ~Bit(u, p)'
        BY <1>3, <2>1, <3>1, <3>2, <4>1 DEF BitsOfPost, Likes, Bit
      <4> QED BY <1>3, <1>4, <2>2, <4>1, <4>2 DEF BitsOfPost, Matches, Likes, Bit
    <3>3. CASE p # call.post /\ ~call.u_empty
      <4>1. Bit(u, p)' <=> Bit(u, p)
        BY <2>4, <3>1, <3>3 DEF Bit
      <4> QED BY <1>6, <2>1, <2>2, <3>3, <4>1 DEF Likes, BitPending, Calling
    <3>4. CASE p # call.post /\ call.u_empty
      <4>1. user_interactions[u] = {}
        BY <2>1, <2>4, <3>4 DEF Bits
      <4>2. ~Likes(u, p) /\ ~Likes(u, p)' /\ ~Bit(u, p)'
        BY <2>1, <3>1, <3>4, <4>1 DEF Likes, Targets, Bit
      <4> QED BY <1>3, <2>2, <4>2 DEF BitsOfPost, Matches, Likes, Bit
    <3> QED BY <3>2, <3>3, <3>4
  <2> QED BY <2>3, <2>4
<1> QED BY <1>8, <1>9, <1>10, <1>11, <1>12, <1>13, <1>14, <1>15 DEF Consume

LEMMA PruneKeepsBits ==
  ASSUME Typed, Bits, Prune PROVE Bits'
<1>0. TypeOK /\ EdgesTyped /\ PostsTyped /\ PassTyped /\ RebuiltOK /\ RacedOK
  BY TypeParts DEF Typed
<1> DEFINE Exact(u) == user_likes_bitmaps[u] = Targets(user_interactions[u])
           Copied(u) == \A b \in rebuilt : b.user = u => b.bitmap = Targets(user_interactions[u])
           Copies(u, p) == \A b \in rebuilt : b.user = u => (p \in b.bitmap <=> Likes(u, p))
           Emptied == step = "unbitmap" /\ call.u_empty => user_interactions[call.user] = {}
<1>1. /\ \A u \in User, p \in Post \ raced_bits :
           (~Calling(p) => Matches(u, p)) /\ Copies(u, p)
      /\ clean => \A u \in User : (Done("bitmaps", u) => Exact(u)) /\ Copied(u)
      /\ Emptied
  BY DEF Bits, BitsOfPost, BitPending, CleanPass, Likes
<1>2. ASSUME \A u \in User, p \in Post \ raced_bits' : ~Calling(p) => Matches(u, p)' /\ Copies(u, p)',
             clean' => \A u \in User : (Done("bitmaps", u)' => Exact(u)') /\ Copied(u)',
             Emptied'
      PROVE  Bits'
  <2>1. ASSUME NEW u \in User, NEW p \in Post \ raced_bits' PROVE BitsOfPost(u, p)'
    <3>1. ~Calling(p) /\ ~Calling(p)'
      BY PruneSparesCalls
    <3> QED BY <1>2, <3>1 DEF BitsOfPost, BitPending, Likes
  <2> QED BY <1>2, <2>1 DEF Bits, CleanPass
<1>3. UNCHANGED <<call, step>>
  BY PruneSparesCalls DEF consumer
<1>4. ASSUME UNCHANGED <<user_interactions, user_likes_bitmaps, rebuilt, raced_bits, clean>>,
             \A u \in User : (Stale(u)' <=> Stale(u)) /\ (Done("bitmaps", u)' => Done("bitmaps", u))
      PROVE  Bits'
  BY <1>1, <1>2, <1>3, <1>4 DEF Matches, Likes
<1>5. ASSUME UNCHANGED <<user_interactions, user_likes_bitmaps, rebuilt>>,
             NEW id, Visit(id), phase \in Sweeps \ {"forward", "bitmaps"}
      PROVE  Bits'
  <2>1. \A u \in User : /\ Done("forward", u)' <=> Done("forward", u)
                        /\ Done("bitmaps", u)' <=> Done("bitmaps", u)
    BY <1>0, <1>5, VisitMoves DEF Sweeps, Shards
  <2>2. UNCHANGED <<raced_bits, clean>>
    BY <1>5 DEF Visit, ghosts
  <2> QED BY <1>4, <1>5, <2>1, <2>2 DEF Stale
<1>6. ASSUME NEW u0 \in User, PruneForward(u0) PROVE Bits'
  <2>1. /\ user_interactions' = [user_interactions EXCEPT ![u0] = Fresh(user_interactions[u0])]
        /\ UNCHANGED <<user_likes_bitmaps, rebuilt, raced_bits, clean>> /\ phase = "forward"
        /\ \A u \in User : /\ Done("forward", u)' <=> Done("forward", u) \/ u = u0
                           /\ Done("bitmaps", u)' <=> Done("bitmaps", u)
    BY <1>0, <1>6, VisitMoves DEF PruneForward, Sweeps, Shards, ghosts
  <2>2. \A u \in User : ~Done("bitmaps", u)
    BY <2>1 DEF Done, Stage
  <2>3. rebuilt = {}
    BY <1>0, <2>1 DEF RebuiltOK
  <2>4. \A u \in User : user_interactions'[u] =
                          IF u = u0 THEN Fresh(user_interactions[u]) ELSE user_interactions[u]
    BY <1>0, <2>1 DEF EdgesTyped
  <2>5. ASSUME NEW u \in User, NEW p \in Post \ raced_bits', ~Calling(p) PROVE Matches(u, p)'
    <3>1. Matches(u, p)
      BY <1>1, <2>1, <2>5
    <3>2. CASE u # u0
      BY <2>1, <2>4, <3>1, <3>2 DEF Matches, Stale
    <3>3. CASE u = u0
      <4>1. Stale(u)'
        BY <2>1, <2>2, <3>3 DEF Stale
      <4>2. Likes(u, p)' => Likes(u, p)
        BY <2>4, <3>3 DEF Likes, Targets, Fresh
      <4> QED BY <2>1, <3>1, <4>1, <4>2 DEF Matches, Likes
    <3> QED BY <3>2, <3>3
  <2>6. Emptied'
    <3> SUFFICES ASSUME step = "unbitmap", call.u_empty PROVE user_interactions'[call.user] = {}
      BY <1>3
    <3>1. call.user \in User
      BY DEF Typed, CallOK
    <3> QED BY <1>1, <2>4, <3>1 DEF Fresh
  <2> QED BY <1>2, <2>1, <2>2, <2>3, <2>5, <2>6
<1>7. ASSUME NEW p \in Post, PruneReverse(p) \/ PruneActive(p) \/ PruneMetadata(p) \/ PruneTopics(p)
      PROVE  Bits'
  BY <1>5, <1>7 DEF PruneReverse, PruneActive, PruneMetadata, PruneTopics, edges, Sweeps
<1>8. ASSUME NEW u \in User, PruneAuthors(u) PROVE Bits'
  BY <1>5, <1>8 DEF PruneAuthors, edges, Sweeps
<1>9. ASSUME NEW u0 \in User, RebuildBitmap(u0) PROVE Bits'
  <2>1. /\ rebuilt' = {[user |-> u0, bitmap |-> Targets(user_interactions[u0])]}
        /\ UNCHANGED <<user_interactions, user_likes_bitmaps, raced_bits, clean, phase, pending>>
    BY <1>9 DEF RebuildBitmap, edges, ghosts
  <2>2. \A u \in User, p \in Post : Copied(u)' /\ Copies(u, p)'
    BY <2>1 DEF Likes
  <2>3. \A u \in User : (Stale(u)' <=> Stale(u)) /\ (Done("bitmaps", u)' <=> Done("bitmaps", u))
    BY <2>1 DEF Stale, Done
  <2>4. \A u \in User, p \in Post \ raced_bits' : ~Calling(p) => Matches(u, p)'
    BY <1>1, <2>1, <2>3 DEF Matches
  <2>5. clean' => \A u \in User : Done("bitmaps", u)' => Exact(u)'
    BY <1>1, <2>1, <2>3
  <2>6. Emptied'
    BY <1>1, <1>3, <2>1
  <2>7. \A u \in User : Copied(u)'
    BY <2>2, <2>1
  <2>8. \A u \in User, p \in Post \ raced_bits' : Copies(u, p)'
    BY <2>2
  <2> HIDE DEF Exact, Copied, Copies, Emptied
  <2> QED BY <1>2, <2>4, <2>5, <2>6, <2>7, <2>8
<1>10. CASE SwapBitmap
  <2>1. PICK b \in rebuilt :
          /\ Visit(b.user)
          /\ user_likes_bitmaps' = [user_likes_bitmaps EXCEPT ![b.user] = b.bitmap]
    BY <1>10 DEF SwapBitmap
  <2>2. /\ phase = "bitmaps" /\ rebuilt' = {}
        /\ UNCHANGED <<user_interactions, raced_bits, clean>>
    BY <1>0, <1>10, <2>1 DEF SwapBitmap, RebuiltOK, Visit, ghosts
  <2>3. \A u \in User : /\ Done("forward", u)' <=> Done("forward", u)
                        /\ Done("bitmaps", u)' <=> Done("bitmaps", u) \/ u = b.user
    BY <1>0, <2>1, <2>2, VisitMoves DEF Sweeps, Shards
  <2>4. \A u \in User : user_likes_bitmaps'[u] = IF u = b.user THEN b.bitmap ELSE user_likes_bitmaps[u]
    BY <1>0, <2>1 DEF PostsTyped
  <2>5. ASSUME NEW u \in User, NEW p \in Post \ raced_bits', ~Calling(p) PROVE Matches(u, p)'
    <3>1. Matches(u, p) /\ Copies(u, p)
      BY <1>1, <2>2, <2>5
    <3>2. CASE u # b.user
      BY <2>2, <2>3, <2>4, <3>1, <3>2 DEF Matches, Stale
    <3>3. CASE u = b.user
      BY <2>2, <2>4, <3>1, <3>3 DEF Matches, Likes
    <3> QED BY <3>2, <3>3
  <2>6. ASSUME clean', NEW u \in User, Done("bitmaps", u)' PROVE Exact(u)'
    BY <1>1, <2>1, <2>2, <2>3, <2>4, <2>6
  <2>7. Emptied'
    BY <1>1, <1>3, <2>2
  <2> QED BY <1>2, <2>2, <2>5, <2>6, <2>7
<1>11. CASE FinishPrune
  <2>1. /\ phase = "finish" /\ phase' = "idle"
        /\ raced_bits' = IF clean THEN {} ELSE raced_bits
        /\ UNCHANGED <<user_interactions, user_likes_bitmaps, rebuilt, clean>>
    BY <1>11 DEF FinishPrune, edges
  <2>2. rebuilt = {}
    BY <1>0, <2>1 DEF RebuiltOK
  <2>3. \A u \in User : Done("bitmaps", u) /\ ~Done("bitmaps", u)' /\ ~Stale(u)
    BY <2>1 DEF Done, Stage, Stale
  <2>4. ASSUME NEW u \in User, NEW p \in Post \ raced_bits', ~Calling(p) PROVE Matches(u, p)'
    <3>1. CASE clean
      BY <1>1, <2>1, <2>3, <3>1 DEF Matches
    <3>2. CASE ~clean
      BY <1>1, <2>1, <2>3, <2>4, <3>2 DEF Matches
    <3> QED BY <3>1, <3>2
  <2>5. Emptied'
    BY <1>1, <1>3, <2>1
  <2> QED BY <1>2, <2>1, <2>2, <2>3, <2>4, <2>5
<1>12. ASSUME NEW c \in cutoff..MaxTime, BeginPrune(c) PROVE Bits'
  <2>1. /\ phase = "idle" /\ phase' = "forward" /\ raced_bits \subseteq raced_bits'
        /\ UNCHANGED <<user_interactions, user_likes_bitmaps, rebuilt>>
    BY <1>12 DEF BeginPrune, edges
  <2>2. rebuilt = {}
    BY <1>0, <2>1 DEF RebuiltOK
  <2>3. \A u \in User : ~Done("bitmaps", u)' /\ ~Stale(u)
    BY <2>1 DEF Done, Stage, Stale
  <2>4. ASSUME NEW u \in User, NEW p \in Post \ raced_bits', ~Calling(p) PROVE Matches(u, p)'
    BY <1>1, <2>1, <2>3, <2>4 DEF Matches
  <2>5. Emptied'
    BY <1>1, <1>3, <2>1
  <2> QED BY <1>2, <2>1, <2>2, <2>3, <2>4, <2>5
<1> QED BY <1>6, <1>7, <1>8, <1>9, <1>10, <1>11, <1>12 DEF Prune

(***************************************************************************)
(* Together.                                                               *)
(***************************************************************************)

LEMMA InitEstablishes == Init => Inv
<1> SUFFICES ASSUME Init PROVE Inv
  OBVIOUS
<1>1. NoTime \in 0..MaxTime /\ 1 \in Times
  BY GraphAssumption DEF NoTime, Times
<1>2. TypeOK
  BY <1>1 DEF Init, TypeOK, OnePerSignal, Shards
<1>3. Typed
  BY <1>2 DEF Init, Typed, CallOK, RebuiltOK, RacedOK, Inserting, Recording, Removing, Unlinking
<1>4. \A ph \in Sweeps : \A x : ~Done(ph, x)
  BY NothingDone DEF Init
<1>5. Directions
  BY <1>4 DEF Init, Directions, EdgesOfPost, EdgesAgree, Agree, Calling, Sweeps
<1>6. Bits
  BY <1>4 DEF Init, Bits, BitsOfPost, Matches, BitPending, Calling, CleanPass, Targets, Sweeps
<1>7. Indexes
  <2>1. Author \in [Post -> User]
    BY GraphAssumption
  <2> QED BY <1>4, <2>1 DEF Init, Indexes, IndexOfPost, Calling, NoTime
<1>8. Recent
  BY <1>4 DEF Init, Recent, RecentOfPost, Calling, Sweeps
<1> QED BY <1>3, <1>5, <1>6, <1>7, <1>8 DEF Inv

LEMMA StepPreserves == Inv /\ [Next]_vars => Inv'
<1> SUFFICES ASSUME Inv, [Next]_vars PROVE Inv'
  OBVIOUS
<1>1. Typed'
  BY TypedInvariant DEF Inv
<1>2. CASE Consume
  BY <1>1, <1>2, ConsumeKeepsDirections, ConsumeKeepsBits, ConsumeKeepsIndexes,
     ConsumeKeepsRecent DEF Inv
<1>3. CASE Prune
  BY <1>1, <1>3, PruneKeepsDirections, PruneKeepsBits, PruneKeepsIndexes, PruneKeepsRecent DEF Inv
<1>4. CASE UNCHANGED vars
  <2> USE <1>4 DEF vars, edges, posts, consumer, pruner, ghosts
  <2>1. Directions'
    BY DEF Inv, Directions, EdgesOfPost, EdgesAgree, Agree, HalfRecorded, HalfDeleted, Done, Calling
  <2>2. Bits'
    BY DEF Inv, Bits, BitsOfPost, Matches, Stale, BitPending, Calling, CleanPass, Done
  <2>3. Indexes'
    BY DEF Inv, Indexes, IndexOfPost, Done, Calling
  <2>4. Recent'
    BY DEF Inv, Recent, RecentOfPost, Done, Calling
  <2> QED BY <1>1, <2>1, <2>2, <2>3, <2>4 DEF Inv
<1> QED BY <1>2, <1>3, <1>4 DEF Next

LEMMA InvHolds == Spec => []Inv
BY InitEstablishes, StepPreserves, PTL DEF Spec

(* Whatever users, posts and signals there are: adjacency lists hold one   *)
(* edge for a target and a signal (the duplicate check of                  *)
(* record_interaction), and every index has its type.                      *)
THEOREM GraphIsTyped == Spec => []TypeOK
<1>1. Inv => TypeOK
  BY DEF Inv, Typed
<1> QED BY <1>1, InvHolds, PTL

(* Between calls and passes a bitmap names exactly the posts its user has  *)
(* an edge to, except posts whose call overlapped a pass, and those only   *)
(* until a pass no call overlaps.                                          *)
THEOREM BitmapsMatch == Spec => []BitmapsMatchEdges
<1>1. Inv => BitmapsMatchEdges
  <2> SUFFICES ASSUME Inv, Quiet, NEW u \in User, NEW p \in Post \ raced_bits
               PROVE  p \in user_likes_bitmaps[u] <=> p \in Targets(user_interactions[u])
    <3>1. ASSUME Inv, NEW u \in User
          PROVE  user_likes_bitmaps[u] \subseteq Post /\ Targets(user_interactions[u]) \subseteq Post
      <4>1. EdgesTyped /\ PostsTyped
        BY <3>1, TypeParts DEF Inv, Typed
      <4>2. user_interactions[u] \in SUBSET Edges(Post) /\ user_likes_bitmaps[u] \subseteq Post
        BY <4>1 DEF EdgesTyped, PostsTyped
      <4> QED BY <4>2, EdgeShape DEF Targets
    <3> QED BY <3>1 DEF BitmapsMatchEdges
  <2>1. ~BitPending(u, p) /\ ~Stale(u)
    BY DEF Quiet, BitPending, Calling, Stale, Done, Stage
  <2> QED BY <2>1 DEF Inv, Bits, BitsOfPost, Matches
<1> QED BY <1>1, InvHolds, PTL

(* Between calls and passes user_interactions and post_interactions hold   *)
(* the same edges with the same times, for every post none of whose calls  *)
(* overlapped a pass.                                                      *)
THEOREM BothDirectionsAgree == Spec => []DirectionsAgree
<1>1. Inv => DirectionsAgree
  BY NothingDone DEF Inv, DirectionsAgree, Quiet, Directions, EdgesOfPost, Calling, EdgesAgree,
     Agree, Sweeps
<1> QED BY <1>1, InvHolds, PTL

(* Between calls and passes author_posts lists a post exactly when         *)
(* post_metadata has it, and post_topics only posts the graph knows.       *)
THEOREM IndexesFollow == Spec => []IndexesFollowMetadata
<1>1. Inv => IndexesFollowMetadata
  BY NothingDone DEF Inv, IndexesFollowMetadata, Quiet, Indexes, IndexOfPost, Calling, Sweeps
<1> QED BY <1>1, InvHolds, PTL

(* Between calls and passes active_recent_posts has a post at least as     *)
(* recent as its newest edge.                                              *)
THEOREM RecentCovers == Spec => []RecentCoversEdges
<1>1. Inv => RecentCoversEdges
  BY DEF Inv, RecentCoversEdges, Quiet, Recent, RecentOfPost, Calling
<1> QED BY <1>1, InvHolds, PTL
=============================================================================
