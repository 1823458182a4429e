----------------------------- MODULE FeedRanking -----------------------------
(***************************************************************************)
(* How Recommender::recommend turns the graph into a ranked feed: tiers    *)
(* with fallbacks, the candidate filter, impression fatigue under the      *)
(* unseen-first ceiling, one post per thread, two per author, pages.       *)
(* Posts are their ids.  Scores are integers: a tier's score counts who    *)
(* brought the post, or its place in the velocity pool, times the weight   *)
(* of its topic; fatigue is counted in twentieths, so that the floor of    *)
(* 0.15 and the ceiling of 0.95 are exact.                                 *)
(***************************************************************************)
EXTENDS Naturals, FiniteSets, Sequences, FiniteSetsExt, SequencesExt

CONSTANTS
  Posts,          \* post ids 1..n, in the order of the velocity pool
  AuthorOf,       \* AuthorOf[p]
  RootOf,         \* RootOf[p]: the root of p's conversation, p itself without one
  TopicOf,        \* TopicOf[p]: the index of p's topic
  IsReply,        \* the posts that are replies
  IsNsfw,         \* the posts with a content label
  Endorsed,       \* Endorsed[u]: what account u interacted with
  FollowsOf,      \* FollowsOf[v]: whom viewer v follows
  Tier1Likes,     \* likes from which on the co-interaction walk is tried, 10 in the code
  SharedOverlap,  \* MIN_SHARED_OVERLAP
  AuthorCap,      \* posts of one author in a ranking, 2 in the code
  MaxCount,       \* the cap of the impression count, 8 in the code
  Recovered,      \* Recovered[dt]: twentieths of the score regained dt after the impression
  Share           \* the score of the first post of the pool: a common multiple of its places

Twentieths == 20
Window == Cardinality(DOMAIN Recovered)   \* FATIGUE_WINDOW_SECS

ASSUME FeedRankingAssumption ==
  /\ IsFiniteSet(Posts) /\ Posts = 1..Cardinality(Posts)
  /\ DOMAIN AuthorOf = Posts /\ DOMAIN RootOf = Posts
  /\ TopicOf \in [Posts -> Nat]
  /\ IsFiniteSet(DOMAIN Endorsed) /\ \A u \in DOMAIN Endorsed : Endorsed[u] \subseteq Posts
  /\ AuthorCap \in Nat /\ Tier1Likes \in Nat \ {0}
  /\ MaxCount \in Nat \ {0} /\ IsFiniteSet(DOMAIN Recovered)
  /\ Recovered \in [0..(Window - 1) -> 0..Twentieths]
  /\ Share \in Nat /\ Share >= Cardinality(Posts)

(* What a request reads of the graph: published posts, who the viewer is   *)
(* (NoAccount: unknown to the interner), likes and blocks of the viewer.   *)
NoAccount == "no_account"

(* The members of S in the order of the relation before, total on S: the   *)
(* one with i - 1 others before it comes i-th.                             *)
Sorted(S, before) ==
  [i \in 1..Cardinality(S) |-> CHOOSE x \in S : Cardinality({y \in S : <<y, x>> \in before}) = i - 1]

(* What s has at the positions of I, in the order of s.  (Asking for the   *)
(* empty s first makes TLC evaluate s once, not at every position.)        *)
Pick(s, I) ==
  LET at == Sorted(I, {e \in I \X I : e[1] < e[2]})
  IN IF s = <<>> THEN <<>> ELSE [n \in DOMAIN at |-> s[at[n]]]

(***************************************************************************)
(* Candidates.                                                             *)
(***************************************************************************)

(* interaction counts as get_post_interaction_count has them.              *)
Endorsers(p) == {u \in DOMAIN Endorsed : p \in Endorsed[u]}

DialsAllow(p, dials) ==
  /\ Cardinality(Endorsers(p)) >= dials.min_likes
  /\ dials.include_replies \/ p \notin IsReply
  /\ ~dials.no_nsfw \/ p \notin IsNsfw

(* filter_candidate_pool.                                                  *)
Shown(g, dials) ==
  {p \in g.published :
     /\ DialsAllow(p, dials)
     /\ p \notin g.likes
     /\ AuthorOf[p] # g.viewer /\ AuthorOf[p] \notin g.blocked}

Weight(p, dials) == dials.weights[TopicOf[p]]

(* Accounts that share interactions with the viewer, and what they like.   *)
CoInteractors(g) ==
  {u \in DOMAIN Endorsed \ (g.blocked \union {g.viewer}) :
     Cardinality(Endorsed[u] \intersect g.likes \intersect g.published) >= SharedOverlap}

Followed(g) == FollowsOf[g.viewer] \ g.blocked

(* Scores descend, ids break ties.                                         *)
Before(score) ==
  {e \in (DOMAIN score) \X (DOMAIN score) :
     score[e[1]] > score[e[2]] \/ (score[e[1]] = score[e[2]] /\ e[1] < e[2])}

(* The score of p when the accounts in us bring it.                        *)
Brought(us, p, dials) == Share * Cardinality(Endorsers(p) \intersect us) * Weight(p, dials)

WalkTier(us, g, dials) ==
  LET reached == UNION {Endorsed[u] : u \in us \intersect DOMAIN Endorsed}
      shown == Shown(g, dials) \intersect reached
      score == [p \in shown |-> Brought(us, p, dials)]
  IN [order |-> Sorted(shown, Before(score)), score |-> score]

(* The topics take turns: the first post of each, then the second of each. *)
InterleaveTopicBuckets(pool) ==
  LET round(p) == Cardinality({q \in pool : TopicOf[q] = TopicOf[p] /\ q < p})
  IN Sorted(pool, {e \in pool \X pool :
                     \/ round(e[1]) < round(e[2])
                     \/ round(e[1]) = round(e[2]) /\ TopicOf[e[1]] < TopicOf[e[2]]})

(* The velocity pool scores by place, before the filter of the candidates. *)
Tier3(g, dials) ==
  LET rank(p) == Cardinality({q \in g.published : q < p})
      bucketed == {p \in g.published : DialsAllow(p, dials)}
      shown == Shown(g, dials)
      interleaved == InterleaveTopicBuckets(bucketed)
  IN [order |-> Pick(interleaved, {i \in DOMAIN interleaved : interleaved[i] \in shown}),
      score |-> [p \in shown |-> (Share \div (rank(p) + 1)) * Weight(p, dials)]]

(* Each tier falls back on the next when the filter leaves nothing.        *)
OrElse(tier, fallback) == IF tier.order = <<>> THEN fallback ELSE tier

Tier2Cascade(g, dials) == OrElse(WalkTier(Followed(g), g, dials), Tier3(g, dials))

Candidates(g, dials) ==
  IF g.viewer = NoAccount THEN Tier3(g, dials)
  ELSE IF Cardinality(g.likes) >= Tier1Likes
    THEN OrElse(WalkTier(CoInteractors(g), g, dials), Tier2Cascade(g, dials))
  ELSE IF g.likes # {} \/ FollowsOf[g.viewer] # {} THEN Tier2Cascade(g, dials)
  ELSE Tier3(g, dials)

(***************************************************************************)
(* Fatigue.  A post served k times keeps (Recovered[dt] / 20)^k of its     *)
(* score; scores are scaled to the denominator of the largest count.       *)
(***************************************************************************)

(* k-th power of a number of twentieths, over 20^MaxCount.                 *)
Power(m, k) ==
  LET power[i \in 0..MaxCount] ==
        IF i = 0 THEN 1 ELSE power[i - 1] * (IF i <= k THEN m ELSE Twentieths)
  IN power[MaxCount]

(* evaluate_compounded_fatigue_penalty.                                    *)
Fatigued(h, p, now) ==
  /\ p \in h.ids /\ p \in DOMAIN h.ts
  /\ now < h.ts[p] + Window

Penalty(h, p, now) ==
  IF Fatigued(h, p, now)
  THEN Power(Recovered[IF now < h.ts[p] THEN 0 ELSE now - h.ts[p]], h.count[p])
  ELSE Power(Twentieths, MaxCount)

\* Mutant: the ceiling is checked against the fatigued posts, but not applied.
NoCeiling(c, h, now) ==
  [p \in DOMAIN c.score |-> c.score[p] * Penalty(h, p, now)]

(* The unseen-first ceiling: when the best served post would reach 95 % of *)
(* the worst unseen one, all served posts are scaled below it.             *)
Ceiling(damp, served, top, low) ==
  IF top > 0 /\ 20 * top >= 19 * low
  THEN [p \in DOMAIN damp |-> IF p \in served THEN damp[p] * 19 * low ELSE damp[p] * 20 * top]
  ELSE damp

UnseenFirstCeiling(damp, served, unseen) ==
  IF unseen = {} THEN damp
  ELSE Ceiling(damp, served, Max({damp[p] : p \in served} \union {0}), Min({damp[p] : p \in unseen}))

FatiguedScores(c, h, now) ==
  UnseenFirstCeiling([p \in DOMAIN c.score |-> c.score[p] * Penalty(h, p, now)],
                     {p \in DOMAIN c.score : Fatigued(h, p, now)},
                     {p \in DOMAIN c.score : c.score[p] > 0 /\ ~Fatigued(h, p, now)})

(***************************************************************************)
(* Composition.                                                            *)
(***************************************************************************)

(* One post per conversation: where its first post stands comes its best   *)
(* scored one, the earliest of them.                                       *)
DampenThreads(s, score) ==
  LET thread(i) == {j \in DOMAIN s : RootOf[s[j]] = RootOf[s[i]]}
      best(i) == Sorted(thread(i), Before([j \in thread(i) |-> score[s[j]]]))[1]
      first == {i \in DOMAIN s : \A j \in thread(i) : i <= j}
  IN Pick([i \in DOMAIN s |-> s[best(i)]], first)

(* A post stays if fewer than the cap of its author's come before it.      *)
CapAuthors(s) ==
  Pick(s, {i \in DOMAIN s :
             Cardinality({j \in 1..(i - 1) : AuthorOf[s[j]] = AuthorOf[s[i]]}) < AuthorCap})

Composed(order, score) == CapAuthors(DampenThreads(order, score))

ByScore(score) == Composed(Sorted(DOMAIN score, Before(score)), score)

(* The ranking of a request.  Only a known viewer's candidates are sorted  *)
(* again.  Serendipity tags the tail as exploration and moves nothing.     *)
Ranked(c, g, h, now) ==
  IF g.viewer = NoAccount THEN Composed(c.order, c.score) ELSE ByScore(FatiguedScores(c, h, now))

Ranking(g, dials, h, now) == Ranked(Candidates(g, dials), g, h, now)

(***************************************************************************)
(* The preview of the dashboard (recommend_preview_at) is written apart    *)
(* from the feed: it asks for no block between the viewer and a followed   *)
(* account, scores a follow's post once however many follows bring it,     *)
(* sorts for everybody, and has no session.                                *)
(***************************************************************************)

PreviewTier1(g, dials) ==
  LET twins == CoInteractors(g)
      shown == {p \in Shown(g, dials) : Endorsers(p) \intersect twins # {}}
  IN [p \in shown |-> Brought(twins, p, dials)]

\* Mutant: the filter of the pool is forgotten after the walk.
PreviewTier2Unfiltered(g, dials) ==
  LET brought == {p \in g.published : Endorsers(p) \intersect FollowsOf[g.viewer] # {}}
  IN [p \in brought |-> Share * Weight(p, dials)]

PreviewTier2(g, dials) ==
  LET shown == {p \in Shown(g, dials) : Endorsers(p) \intersect FollowsOf[g.viewer] # {}}
  IN [p \in shown |-> Share * Weight(p, dials)]

PreviewTier3(g, dials) ==
  LET place(p) == Cardinality({q \in g.published : q <= p})
  IN [p \in Shown(g, dials) |-> (Share \div place(p)) * Weight(p, dials)]

FirstNonEmpty(score, fallback) == IF DOMAIN score = {} THEN fallback ELSE score

PreviewScores(g, dials) ==
  LET known == g.viewer # NoAccount
  IN FirstNonEmpty(IF known /\ Cardinality(g.likes) >= Tier1Likes THEN PreviewTier1(g, dials) ELSE <<>>,
     FirstNonEmpty(IF known /\ (g.likes # {} \/ FollowsOf[g.viewer] # {}) THEN PreviewTier2(g, dials) ELSE <<>>,
     PreviewTier3(g, dials)))

PreviewRanking(g, dials, h, now) ==
  ByScore(FatiguedScores([score |-> PreviewScores(g, dials)], h, now))

(* paginate_posts: offsets, 0 for none.                                    *)
PageOf(s, offset, limit) ==
  LET end == Min({offset + limit, Len(s)})
  IN IF offset >= Len(s) THEN [posts |-> <<>>, next |-> 0]
     ELSE [posts |-> SubSeq(s, offset + 1, end), next |-> IF end < Len(s) THEN end ELSE 0]

=============================================================================
