------------------------------ MODULE FeedPaging ------------------------------
(***************************************************************************)
(* A viewer scrolls the feed, page by page and on several devices, while   *)
(* posts are liked and deleted, authors blocked, and maintenance runs.     *)
(* A page request is Recommender::recommend and then record_impressions;   *)
(* between their steps other requests run.  The ranking of a first page is *)
(* kept as the viewer's pagination session, so that its impressions do not *)
(* reorder what the next pages are cut from.                               *)
(***************************************************************************)
EXTENDS FeedRanking

CONSTANTS
  Viewers,      \* DIDs
  Devices,      \* each is one scrolling client
  Anonymous,    \* the owner of a device that sends no token
  Owners,       \* the assignments of devices to owners considered
  Dials,        \* the dials a viewer may store
  DefaultDials, \* UserDials::default
  PageSize,
  TTL,          \* PAGINATION_SESSION_TTL_SECS
  MaxSessions,  \* MAX_PAGINATION_SESSIONS_PER_SHARD, of the one shard modelled
  MaxHistory,   \* DEFAULT_MAX_IMPRESSIONS_PER_USER
  Newcomers,    \* whether viewers the graph does not name start unknown to the interner
  MaxNow,       \* bound: the clock
  MaxRequests,  \* bound: requests of a device
  MaxEvents     \* bound: likes, blocks, deletions, dial changes and maintenance runs

ASSUME FeedPagingAssumption ==
  /\ PageSize \in Nat \ {0} /\ MaxHistory \in Nat \ {0} /\ MaxSessions \in Nat \ {0}
  /\ TTL \in Nat /\ TTL < Window   \* five minutes against six hours
  /\ Anonymous \notin Viewers /\ NoAccount \notin Viewers
  /\ Owners \subseteq [Devices -> Viewers \union {Anonymous}]
  /\ DefaultDials \in Dials /\ \A x \in Dials : x.weights \in [Range(TopicOf) -> Nat]
  /\ MaxNow \in Nat /\ MaxRequests \in Nat /\ MaxEvents \in Nat

VARIABLES
  now,        \* the clock
  owner,      \* owner[d]: the viewer whose token device d sends
  known,      \* viewers with an interned id
  published,  \* posts of the graph
  likes,      \* likes[v]: user_likes_bitmaps
  blocked,    \* blocked[v]: authors blocked by v or blocking v
  prefs,      \* prefs[v]: the stored dials
  history,    \* history[v]: ViewerImpressionHistory
  sessions,   \* v :> pagination session
  dev,        \* dev[d]: the request device d has under way, and its scroll
  events,     \* bound
  \* history variables of the properties
  hiddenAt,   \* hiddenAt[v][p]: when p became something v must not see, MaxNow + 1 if not
  calm        \* calm[d]: nothing has replaced or dropped the session of d's scroll

graphVars == <<published, likes, blocked>>
vars == <<now, owner, known, published, likes, blocked, prefs, history, sessions, dev, events,
          hiddenAt, calm>>

Accounts == Range(AuthorOf) \union DOMAIN Endorsed

(* The indexes are keyed by ids: whoever wrote one of the posts ps, has    *)
(* interacted with one, follows or is followed is interned.                *)
InGraph(v, ps) ==
  \/ \E p \in ps : AuthorOf[p] = v \/ v \in Endorsers(p)
  \/ FollowsOf[v] # {} \/ \E w \in DOMAIN FollowsOf : v \in FollowsOf[w]

NoHistory == [ids |-> {}, ts |-> <<>>, count |-> <<>>, queue |-> <<>>]

Idle == [phase |-> "idle", uid |-> FALSE, at |-> 0, cursor |-> 0, dials |-> DefaultDials,
         list |-> <<>>, page |-> <<>>, next |-> 0, requests |-> 0, first |-> <<>>, firstAt |-> 0,
         firstUid |-> FALSE]

Init ==
  /\ now = 0
  /\ owner \in Owners
  /\ known = IF Newcomers THEN {v \in Viewers : InGraph(v, Posts)} ELSE Viewers
  /\ published = Posts
  /\ likes = [v \in Viewers |-> {}]
  /\ blocked = [v \in Viewers |-> {}]
  /\ prefs = [v \in Viewers |-> DefaultDials]
  /\ history = [v \in Viewers |-> NoHistory]
  /\ sessions = <<>>
  /\ dev = [d \in Devices |-> Idle]
  /\ events = 0
  /\ hiddenAt = [v \in Viewers |-> [p \in Posts |-> MaxNow + 1]]
  /\ calm = [d \in Devices |-> FALSE]

(***************************************************************************)
(* Impressions (ViewerImpressionHistory).                                  *)
(***************************************************************************)

\* Mutant: the queue is trimmed, the maps are not.
PopOldestKeeps(h, n) == [h EXCEPT !.queue = SubSeq(@, n + 1, Len(@))]

(* The n oldest entries leave the queue, and their posts are forgotten     *)
(* unless they were served again later.                                    *)
PopOldest(h, n) ==
  LET gone == {p \in DOMAIN h.ts : \E i \in 1..n : h.queue[i].post = p /\ h.ts[p] <= h.queue[i].at}
  IN [ids |-> h.ids \ gone, ts |-> [p \in DOMAIN h.ts \ gone |-> h.ts[p]],
      count |-> [p \in DOMAIN h.count \ gone |-> h.count[p]],
      queue |-> SubSeq(h.queue, n + 1, Len(h.queue))]

Distance(a, b) == IF a < b THEN b - a ELSE a - b

\* Mutant: no eviction.
RecordImpressionUnbounded(h, p, t) ==
  [ids |-> h.ids \union {p},
   ts |-> [q \in DOMAIN h.ts \union {p} |-> IF q = p THEN t ELSE h.ts[q]],
   count |-> [q \in DOMAIN h.count \union {p} |-> IF q = p THEN 1 ELSE h.count[q]],
   queue |-> Append(h.queue, [post |-> p, at |-> t])]

RecordImpression(h, p, t) ==
  LET again == p \in DOMAIN h.ts /\ Distance(t, h.ts[p]) < Window
      count == IF again THEN Min({h.count[p] + 1, MaxCount}) ELSE 1
      seen == [ids |-> h.ids \union {p},
               ts |-> [q \in DOMAIN h.ts \union {p} |-> IF q = p THEN t ELSE h.ts[q]],
               count |-> [q \in DOMAIN h.count \union {p} |-> IF q = p THEN count ELSE h.count[q]],
               queue |-> Append(h.queue, [post |-> p, at |-> t])]
  IN IF Len(seen.queue) > MaxHistory THEN PopOldest(seen, 1) ELSE seen

(* The posts of a page, one after the other.                               *)
RecordImpressions(h, page, t) ==
  LET after[i \in 0..Len(page)] == IF i = 0 THEN h ELSE RecordImpression(after[i - 1], page[i], t)
  IN after[Len(page)]

(* prune_older_than: from the front, as far as the entries are old.        *)
PruneOlderThan(h, cutoff) ==
  LET old == Min({i \in 1..(Len(h.queue) + 1) :
                    i = Len(h.queue) + 1 \/ h.queue[i].at >= cutoff}) - 1
  IN PopOldest(h, old)

(* compact rebuilds the history from the queue: what the queue still names *)
(* is back in post_ids, with the timestamp and the count it has, if any.   *)
CompactHistory(h, kept) ==
  LET queue == Pick(h.queue, {i \in DOMAIN h.queue : h.queue[i].post \in kept})
      ids == {queue[i].post : i \in DOMAIN queue}
  IN [ids |-> ids, ts |-> [p \in DOMAIN h.ts \intersect ids |-> h.ts[p]],
      count |-> [p \in DOMAIN h.count \intersect ids |-> h.count[p]], queue |-> queue]

(* By the latest impression, then by the id.                               *)
OldestFirst(h, ps) ==
  {e \in ps \X ps : h.ts[e[1]] < h.ts[e[2]] \/ (h.ts[e[1]] = h.ts[e[2]] /\ e[1] < e[2])}

\* Mutant: the counts are not in the snapshot.
RestoredUncounted(h) ==
  LET saved == h.ids \intersect DOMAIN h.ts
      order == Sorted(saved, OldestFirst(h, saved))
  IN [ids |-> saved, ts |-> [p \in saved |-> h.ts[p]], count |-> [p \in saved |-> 1],
      queue |-> [i \in DOMAIN order |-> [post |-> order[i], at |-> h.ts[order[i]]]]]

(* stream_impressions_to and restore_from_snapshot: one entry per post, in *)
(* the order of the latest impressions.                                    *)
Restored(h) ==
  LET saved == h.ids \intersect DOMAIN h.ts
      order == Sorted(saved, OldestFirst(h, saved))
  IN [ids |-> saved, ts |-> [p \in saved |-> h.ts[p]], count |-> [p \in saved |-> h.count[p]],
      queue |-> [i \in DOMAIN order |-> [post |-> order[i], at |-> h.ts[order[i]]]]]

(***************************************************************************)
(* A page request.                                                         *)
(***************************************************************************)

Named(d) == owner[d] # Anonymous

\* Mutant: a session never expires.
SessionServesForever(v, dials, t) ==
  v \in DOMAIN sessions /\ sessions[v].has_page_impressions /\ sessions[v].dials = dials

(* get_cached_pagination_session.                                          *)
SessionServes(v, dials, t) ==
  /\ v \in DOMAIN sessions
  /\ sessions[v].has_page_impressions
  /\ sessions[v].dials = dials
  /\ t <= sessions[v].created + TTL

StoredDials(d) == IF Named(d) THEN prefs[owner[d]] ELSE DefaultDials

(* The device between requests, with the cursor to go on from.             *)
Answered(r, cursor) ==
  [Idle EXCEPT !.cursor = cursor, !.requests = r.requests, !.first = r.first,
               !.firstAt = r.firstAt, !.firstUid = r.firstUid]

(* The handler takes the stored dials, recommend looks up the viewer and,  *)
(* for a cursor, the session; a page cut from it is ready to record.       *)
Request(d, cursor) ==
  /\ dev[d].phase = "idle" /\ dev[d].requests < MaxRequests
  /\ cursor = 0 \/ cursor = dev[d].cursor
  /\ LET uid == Named(d) /\ owner[d] \in known
         dials == StoredDials(d)
         cached == uid /\ cursor > 0 /\ SessionServes(owner[d], dials, now)
         page == PageOf(sessions[owner[d]].posts, cursor, PageSize)
         request == [dev[d] EXCEPT !.uid = uid, !.at = now, !.cursor = cursor, !.dials = dials,
                                   !.requests = @ + 1]
     IN dev' = [dev EXCEPT ![d] =
                  IF cached THEN [request EXCEPT !.phase = "record", !.page = page.posts, !.next = page.next]
                  ELSE [request EXCEPT !.phase = "compose"]]
  /\ UNCHANGED <<now, owner, known, published, likes, blocked, prefs, history, sessions, events,
                 hiddenAt, calm>>

GraphOf(d) ==
  [viewer |-> IF dev[d].uid THEN owner[d] ELSE NoAccount,
   published |-> published,
   likes |-> IF dev[d].uid THEN likes[owner[d]] ELSE {},
   blocked |-> IF dev[d].uid THEN blocked[owner[d]] ELSE {}]

HistoryOf(d) == IF dev[d].uid THEN history[owner[d]] ELSE NoHistory

(* Without a session the ranking is computed anew; a known viewer's first  *)
(* page goes on to cache it.                                               *)
ComposedPage(r, list, page) ==
  [r EXCEPT !.phase = IF r.uid /\ r.cursor = 0 THEN "cache" ELSE "record",
            !.list = list, !.page = page.posts, !.next = page.next,
            !.first = IF r.cursor = 0 THEN list ELSE @,
            !.firstAt = IF r.cursor = 0 THEN r.at ELSE @,
            !.firstUid = IF r.cursor = 0 THEN r.uid ELSE @]

Cut(r, list) == ComposedPage(r, list, PageOf(list, r.cursor, PageSize))

Compose(d) ==
  /\ dev[d].phase = "compose"
  /\ dev' = [dev EXCEPT ![d] = Cut(@, Ranking(GraphOf(d), @.dials, HistoryOf(d), @.at))]
  /\ UNCHANGED <<now, owner, known, published, likes, blocked, prefs, history, sessions, events,
                 hiddenAt, calm>>

(* cache_pagination_session: at the cap some other viewer's session goes.  *)
(* Under an id that compaction has retired since, nobody finds it again.   *)
Others(d) == {e \in Devices \ {d} : owner[e] = owner[d]}

CacheSession(d) ==
  /\ dev[d].phase = "cache"
  /\ LET v == owner[d]
         full == v \notin DOMAIN sessions /\ Cardinality(DOMAIN sessions) >= MaxSessions
         fresh == [posts |-> dev[d].list, dials |-> dev[d].dials, created |-> dev[d].at,
                   has_page_impressions |-> FALSE]
     IN IF v \notin known THEN UNCHANGED <<sessions, calm>> ELSE
        \E victims \in IF full THEN {{w} : w \in DOMAIN sessions} ELSE {{}} :
          /\ sessions' = [w \in (DOMAIN sessions \ victims) \union {v} |->
                            IF w = v THEN fresh ELSE sessions[w]]
          /\ calm' = [e \in Devices |->
                        IF e = d THEN dev[d].dials = prefs[v] ELSE calm[e] /\ owner[e] \notin victims \union {v}]
  /\ dev' = [dev EXCEPT ![d].phase = "record"]
  /\ UNCHANGED <<now, owner, known, published, likes, blocked, prefs, history, events, hiddenAt>>

\* Mutant: the session never learns that its first page was seen.
RecordUnflagged(d) ==
  /\ dev[d].phase = "record"
  /\ LET v == owner[d] IN
     IF ~Named(d) THEN UNCHANGED <<known, history, sessions>>
     ELSE /\ known' = known \union {v}
          /\ history' = [history EXCEPT ![v] = RecordImpressions(@, dev[d].page, dev[d].at)]
          /\ UNCHANGED sessions
  /\ dev' = [dev EXCEPT ![d] = Answered(@, @.next)]
  /\ UNCHANGED <<now, owner, published, likes, blocked, prefs, events, hiddenAt, calm>>

(* record_impressions interns the viewer; a page without posts records     *)
(* nothing.  Then the answer is sent.                                      *)
Record(d) ==
  /\ dev[d].phase = "record"
  /\ LET v == owner[d] IN
     IF ~Named(d) THEN UNCHANGED <<known, history, sessions>>
     ELSE /\ known' = known \union {v}
          /\ history' = [history EXCEPT ![v] = RecordImpressions(@, dev[d].page, dev[d].at)]
          /\ sessions' = [w \in DOMAIN sessions |->
               IF w = v /\ dev[d].page # <<>> THEN [sessions[w] EXCEPT !.has_page_impressions = TRUE]
               ELSE sessions[w]]
  /\ dev' = [dev EXCEPT ![d] = Answered(@, @.next)]
  /\ UNCHANGED <<now, owner, published, likes, blocked, prefs, events, hiddenAt, calm>>

(***************************************************************************)
(* Around it: the firehose, the settings page, the clock, maintenance.     *)
(***************************************************************************)

Hide(v, ps) == [p \in Posts |-> IF p \in ps THEN Min({hiddenAt[v][p], now}) ELSE hiddenAt[v][p]]

Event == events < MaxEvents /\ events' = events + 1

(* The consumer interns the viewer when it records a like or a block.      *)
Like(v, p) ==
  /\ Event /\ p \in published
  /\ likes' = [likes EXCEPT ![v] = @ \union {p}]
  /\ known' = known \union {v}
  /\ hiddenAt' = [hiddenAt EXCEPT ![v] = Hide(v, {p})]
  /\ UNCHANGED <<now, owner, published, blocked, prefs, history, sessions, dev, calm>>

Block(v, a) ==
  /\ Event
  /\ blocked' = [blocked EXCEPT ![v] = @ \union {a}]
  /\ known' = known \union {v}
  /\ hiddenAt' = [hiddenAt EXCEPT ![v] = Hide(v, {p \in Posts : AuthorOf[p] = a})]
  /\ UNCHANGED <<now, owner, published, likes, prefs, history, sessions, dev, calm>>

DeletePost(p) ==
  /\ Event /\ p \in published
  /\ published' = published \ {p}
  /\ likes' = [v \in Viewers |-> likes[v] \ {p}]
  /\ hiddenAt' = [v \in Viewers |-> Hide(v, {p})]
  /\ UNCHANGED <<now, owner, known, blocked, prefs, history, sessions, dev, calm>>

(* Saving preferences: another fingerprint, so the session no longer fits. *)
SetPreferences(v, dials) ==
  /\ Event
  /\ prefs' = [prefs EXCEPT ![v] = dials]
  /\ known' = known \union {v}
  /\ calm' = [d \in Devices |-> calm[d] /\ owner[d] # v]
  /\ UNCHANGED <<now, owner, published, likes, blocked, history, sessions, dev, hiddenAt>>

Tick ==
  /\ now < MaxNow
  /\ now' = now + 1
  /\ UNCHANGED <<owner, known, published, likes, blocked, prefs, history, sessions, dev, events,
                 hiddenAt, calm>>

Ago(n) == IF now < n THEN 0 ELSE now - n

PruneExpired ==
  /\ Event
  /\ history' = [v \in Viewers |-> LET h == PruneOlderThan(history[v], Ago(Window))
                                   IN IF h.ids = {} THEN NoHistory ELSE h]
  /\ sessions' = [v \in {w \in DOMAIN sessions : sessions[w].created >= Ago(TTL)} |-> sessions[v]]
  /\ UNCHANGED <<now, owner, known, published, likes, blocked, prefs, dev, hiddenAt, calm>>

(* ImpressionStore::compact, with the ids the stores name.  A viewer named *)
(* by none of them is no longer interned.                                  *)
Referenced(v) == \/ history[v].ids # {} \/ likes[v] # {} \/ blocked[v] # {}
                 \/ InGraph(v, published) \/ prefs[v] # DefaultDials

Compact ==
  /\ Event
  /\ LET kept == published \union UNION {history[v].ids : v \in Viewers}
         compacted == [v \in Viewers |-> CompactHistory(history[v], kept)]
     IN history' = [v \in Viewers |-> IF ~Referenced(v) \/ compacted[v].ids = {} THEN NoHistory
                                      ELSE compacted[v]]
  /\ known' = {v \in known : Referenced(v)}
  /\ sessions' = <<>>
  /\ calm' = [d \in Devices |-> FALSE]
  /\ UNCHANGED <<now, owner, published, likes, blocked, prefs, dev, hiddenAt>>

(* A restart from a snapshot taken at shutdown: requests under way are     *)
(* lost, clients keep their cursors.                                       *)
Restart ==
  /\ Event
  /\ history' = [v \in Viewers |-> Restored(history[v])]
  /\ sessions' = <<>>
  /\ dev' = [d \in Devices |-> Answered(dev[d], dev[d].cursor)]
  /\ calm' = [d \in Devices |-> FALSE]
  /\ UNCHANGED <<now, owner, known, published, likes, blocked, prefs, hiddenAt>>

Next ==
  \/ \E d \in Devices : \/ Request(d, 0) \/ Request(d, dev[d].cursor)
                        \/ Compose(d) \/ CacheSession(d) \/ Record(d)
  \/ \E v \in Range(owner) \ {Anonymous} :
                        \/ \E p \in Posts : Like(v, p)
                        \/ \E a \in Accounts \ {v} : Block(v, a)
                        \/ \E x \in Dials \ {prefs[v]} : SetPreferences(v, x)
  \/ \E p \in Posts : DeletePost(p)
  \/ Tick \/ PruneExpired \/ Compact \/ Restart

Spec == Init /\ [][Next]_vars

(***************************************************************************)
(* Properties.                                                             *)
(***************************************************************************)

HistoryOK(h) ==
  /\ h.ids \subseteq Posts /\ DOMAIN h.ts \subseteq h.ids /\ DOMAIN h.count = DOMAIN h.ts
  /\ \A p \in DOMAIN h.count : h.count[p] \in 1..MaxCount
  /\ Len(h.queue) <= MaxHistory

TypeOK ==
  /\ now \in 0..MaxNow
  /\ owner \in [Devices -> Viewers \union {Anonymous}]
  /\ known \subseteq Viewers /\ published \subseteq Posts
  /\ likes \in [Viewers -> SUBSET Posts]
  /\ \A v \in Viewers : HistoryOK(history[v]) /\ blocked[v] \subseteq Accounts
  /\ DOMAIN sessions \subseteq known /\ Cardinality(DOMAIN sessions) <= MaxSessions
  /\ \A d \in Devices : dev[d].phase \in {"idle", "compose", "cache", "record"}
  /\ events \in 0..MaxEvents

(* A history forgets: the latest impression of every post with a timestamp *)
(* is in the queue, where the capacity and the window reach it.  (An id    *)
(* that compact put back without a timestamp is beyond their reach.)       *)
RememberedIsQueued ==
  \A v \in Viewers : \A p \in DOMAIN history[v].ts :
    \E i \in DOMAIN history[v].queue : history[v].queue[i] = [post |-> p, at |-> history[v].ts[p]]

(* A history remembers no more posts than its capacity.                    *)
HistoryBounded == \A v \in Viewers : Cardinality(history[v].ids) <= MaxHistory

(* Pages continue: within the TTL, and unless another device of the viewer *)
(* starts over, the session is evicted or maintenance drops it, a later    *)
(* page of a known viewer is the next slice of the first page's ranking,   *)
(* whatever was served, liked or recorded in between.                      *)
Continues(d) ==
  dev[d].page = PageOf(dev[d].first, dev[d].cursor, PageSize).posts

LaterPage(d) == dev[d].phase = "record" /\ dev[d].cursor > 0 /\ Named(d)

PagesContinue ==
  \A d \in Devices :
    LaterPage(d) /\ dev[d].firstUid /\ calm[d] /\ dev[d].at <= dev[d].firstAt + TTL
      => Continues(d)

(* The same for a viewer whom the first page found unknown, who scrolls    *)
(* on one device and about whom nothing else happens.                      *)
FirstVisitContinues ==
  \A d \in Devices :
    LaterPage(d) /\ ~dev[d].firstUid /\ Others(d) = {} /\ events = 0
      /\ dev[d].at <= dev[d].firstAt + TTL
      => Continues(d)

(* A post the viewer liked, one that was deleted and the posts of a        *)
(* blocked author are served at most a TTL longer, from a session.         *)
HiddenWithinTTL ==
  \A d \in Devices :
    dev[d].phase = "record" /\ dev[d].uid =>
      \A i \in DOMAIN dev[d].page : dev[d].at <= hiddenAt[owner[d]][dev[d].page[i]] + TTL

(* Unseen first: in a ranking made for a known viewer no post with a score *)
(* comes after a post still fatiguing.                                     *)
UnseenFirst ==
  [][\A d \in Devices :
       dev[d].phase = "compose" /\ dev'[d].phase \in {"cache", "record"} /\ dev[d].uid =>
         LET list == dev'[d].list
             h == history[owner[d]]
             served(p) == Fatigued(h, p, dev[d].at)
         IN \A i, j \in DOMAIN list :
              i < j /\ served(list[i]) /\ ~served(list[j]) => Weight(list[j], dev[d].dials) = 0]_vars

(* The preview goes by what the feed would show: the same candidates, and, *)
(* where the co-interaction walk finds some, the same ranking.  (It differs *)
(* when a followed account is blocked: recommend_preview_at does not ask.) *)
SameAsPreview(d, g, dials) ==
  /\ DOMAIN PreviewScores(g, dials) = DOMAIN Candidates(g, dials).score
  /\ g.viewer # NoAccount /\ Cardinality(g.likes) >= Tier1Likes /\ DOMAIN PreviewTier1(g, dials) # {}
       => dev'[d].list = PreviewRanking(g, dials, HistoryOf(d), dev[d].at)

PreviewAgrees ==
  [][\A d \in Devices :
       dev[d].phase = "compose" /\ dev'[d].phase \in {"cache", "record"} /\ dev[d].cursor = 0
         /\ (dev[d].uid => FollowsOf[owner[d]] \intersect blocked[owner[d]] = {}) =>
         SameAsPreview(d, GraphOf(d), dev[d].dials)]_vars

(* Maintenance and a restart leave the fatigue of every post as it was.    *)
MaintenanceKeepsFatigue ==
  [][now' = now /\ dev' = dev /\ history' # history =>
       \A v \in Viewers : \A p \in published : Penalty(history'[v], p, now) = Penalty(history[v], p, now)]_vars

=============================================================================
