# TLA+ verification of for-your-consideration

The repository is a Bluesky feed generator written in Rust (tokio). It reads the
Jetstream firehose, keeps likes, reposts, posts, follows and blocks of the last
days in memory, answers `getFeedSkeleton` requests from these in-memory indexes, and
saves everything to a snapshot file from time to time. Almost every structure is a
sharded `RwLock` map without a global lock, and the process must survive a restart with
nothing but the snapshot file and a Jetstream cursor. So the hard questions are about
order: of locks, of messages, of saves, of shutdown steps. This directory models those.

Sources are named as in the repository: the code is `src/src/*.rs` here, the product
document is `src/PRD.md`.

## 1. Inventory

| component | code | state it keeps | operations |
|---|---|---|---|
| cursor watermark | `ingest.rs` `IngestionStats::update_slice_cursor` (396-419), `CursorTracker` | one atomic cursor per slice, the published `latest_cursor_us` | store own cursor, scan all cursors, `fetch_max` |
| ingest pipeline | `ingest.rs` `JetstreamIngester::run`, slice readers, consumer | per-slice connection and cursor, bounded mpsc channel, batch | connect, read a frame, send, reconnect with backoff, apply a batch, cancel, drain |
| graph indexes | `graph.rs` `GraphStore` | forward edges, reverse edges, bitmaps per user, post metadata, author index, topic index, last activity; follows and blocks | `record_interaction`, `record_post_meta`, `remove_post`, `prune_older_than` |
| velocity pool | `graph.rs` `RecentActiveRingBuffer`, `get_velocity_pool_candidates_at` | circular log of interactions, memoised candidate list | record, delete, prune, compute, serve |
| process lifecycle | `main.rs` | hydration flags, cancellation tokens, save slot, the timers of shutdown | boot, hydrate, backfill, prune, checkpoint, signal, drain, final save, exit |
| string interner | `interner.rs` | string to id and id to string, 64 shards | intern, lookup, compact, hydrate |
| snapshot and compaction | `snapshot.rs`, with the `stream_*`/`compact` methods of the stores | the file, the sections written so far, the old-to-new id map | save, load, compact |
| user preferences | `preferences.rs` | dials per user id | get, set, remap |
| impressions and sessions | `recommender.rs` | per viewer ids, times, counts and queue of served posts; pagination sessions | record, decay, evict, prune, compact, export, cache a session, serve from it |
| recommender | `recommender.rs` | none of its own | tiers and fallbacks, filter, fatigue and ceiling, threads, authors, pages; preview; taste twins, proof chains |
| locks of the stores | `graph.rs`, `interner.rs` and their callers | one `RwLock` per index and shard | nested guards of closures, streams, the size estimate |
| OAuth stores and login | `auth.rs`, `server.rs` | pending states, OAuth sessions, session tokens of browsers, the advertised feed URI | login, callback, exchange, publish, expire, evict |
| service auth key cache | `service_auth.rs` | keys dated by the request that resolved them | lookup, resolve, insert, evict, invalidate |
| active user tracker | `server.rs` | requests in flight, last-seen times | track, drop, prune |
| packed types | `types.rs` | none | pack and unpack an edge, validate dials |
| HTTP surface, DID resolution, dashboard | `server.rs`, `lib.rs`, `error.rs`, `auth.rs`, `assets/` | none of their own | decoding, limits, JSON |

### How they interact

```
 Jetstream --frames--> slice reader (one task per slice) --events--> mpsc channel
                          | update_slice_cursor                         | recv_many
                          v                                             v
                    cursor watermark                             consumer task
                          |                                             | intern, mutate
                          |  latest_cursor                              v
  signal --> main.rs: boot, prune, checkpoint, shutdown --------> GraphStore + velocity log
                          |                                        ^        ^
                          | save slot (a mutex)                    | scan   | prune task
                          v                                        |        |
                    snapshot file  <---- sections, ids ------ interner    HTTP requests
```

* **Readers and consumer** share only the channel (backpressure) and the cancellation
  token. The cursor moves when a frame is *read*; the graph changes when its events are
  *applied*.
* **Consumer, prune task, requests** share the graph's locks. The consumer holds one index
  lock at a time, so each of its operations is a sequence of critical sections. Requests nest
  guards (`with_post_interactions` and its like run a closure under the guard), the topic pass
  of `prune_older_than` nests two, a snapshot stream holds all shards of an index, and the
  telemetry's size estimate nine indexes: `StoreLocks` lists every such chain.
* **Requests of one viewer** share the viewer's impressions and pagination session. A feed
  request is a sequence of steps (look up, rank, cache, record) between which others run.
* **Login, callback and publish** meet in two bounded maps and await remote servers between
  looking something up there and storing something.
* **Checkpoint, compaction, final save** share one mutex (the save slot),
  taken by blocking jobs which cancellation does not stop.
* **Signal handling** is a chain of timeouts: cancel the workers, wait for the drain at
  most so long, abort, save at most so long, exit.

### What makes it hard, and what correctness means

| component | hard behaviour | must be true |
|---|---|---|
| cursor watermark | scans overlap; relaxed loads may be stale | the published cursor never passes a slice, never goes back, and catches up |
| ingest pipeline | a full channel, cancellation inside `select!`, reconnections that replay, a drain timeout, a crash | what was received is applied unless the process dies; a slice's events apply in order; the drain ends |
| graph indexes | a prune pass walks the indexes one at a time while the consumer writes them | the redundant indexes agree, or the next pass repairs them |
| velocity pool | a result computed before an invalidation is published after it; the ring is compacted in place | answers stay inside the window, miss nothing for longer than the TTL, drop deleted posts |
| lifecycle | a signal in any phase; jobs that outlive their task; failing loads and saves | a good file is never replaced by a cold store; the final save is last; the process exits |
| interner, compaction, save | ids are remapped one store at a time under live writers | an id resolves to its own string, in memory and in the file |
| locks | writers bar new readers; guards nest in closures far from each other | no set of threads waits for itself |
| impressions, sessions | four redundant structures, caps, expiry, concurrent paging | a page continues the list it started; what is hidden fades; fatigue survives maintenance |
| recommender | tier fallbacks, a ceiling over unequal scores, the preview's second copy | unseen posts come first; preview and feed agree |
| OAuth stores | doubled callbacks, caps, expiry, restarts | a login yields one token, never for another account, and is not crowded out early |
| service auth | rotation while a key is resolved, cached, checked | no key outlives its retirement by more than the TTL |

`PROJECT.json` lists the hazards one by one at the line where each bites, with the
properties that cover it.

## 2. Modules

| module | role |
|---|---|
| `LowWatermark` | abstract specification: slices receive; a low watermark is published at once |
| `CursorWatermark` | `update_slice_cursor` load by load, memory order a constant of the behaviour; implements `LowWatermark` |
| `IngestPipeline` | readers, channel, consumer, drain, checkpoints, crash |
| `IngestPipelineProofs` | theorems about `IngestPipeline` |
| `GraphStore` | the interaction indexes, one step per critical section, with prune passes |
| `GraphStoreProofs` | theorems about `GraphStore` |
| `VelocityPool` | the circular log and the memoised pool, with requests that carry their own clock |
| `VelocityPoolProofs` | theorems about `VelocityPool` |
| `Lifecycle` | boot, hydration, periodic tasks, shutdown |
| `ResumePointProofs` | theorems about `CursorWatermark` (part one) and `Lifecycle` (part two): the resume point from the atomics to the file |
| `IdSpace` | the interner, the stores that hold its identifiers, and compaction, save and load, which move them |
| `IdSpaceProofs` | theorems about `IdSpace` |
| `LockOrder` | threads, writer-preferring reader-writer locks, call chains; what a circular wait is |
| `StoreLocks` | the call chains of the program over the shards of `GraphStore` and the interner, an instance of `LockOrder` |
| `StoreLocksProofs` | descending chains never deadlock; the program's chains descend |
| `FeedRanking` | the ranking of a request as operators: tiers, filter, fatigue, ceiling, threads, authors, pages, preview |
| `FeedPaging` | devices that page through the feed, with impressions, sessions, the firehose, maintenance |
| `FeedPagingProofs` | theorems about `FeedRanking` and `FeedPaging` |
| `WallClock` | the clock which the next three share |
| `OAuthLogin` | login, callback, exchange, publish, and the two OAuth stores |
| `ServiceAuth` | service tokens, the key cache, key rotations, requests in flight |
| `ServerAuth` | the two composed under one clock |
| `ServerAuthProofs` | theorems about `ServerAuth`: the invariants of logins, of the two stores, of the key cache and of the requests in flight |
| `MC*` | each gives the constants of its module small values and, where sound, a symmetry set |

The modules overlap deliberately at their borders: `IngestPipeline` treats the cursor
update as one step because `CursorWatermark` shows what it does to readers; it treats the
graph as a set of applied events because `GraphStore` takes a single application apart;
`Lifecycle` keeps of the ingester only its cursor and whether it has been given one.
Names follow the source. The `map` of `PROJECT.json` ties every definition to its lines.

### CursorWatermark

Each slice has its atomic (`slice_cursors`), and every call of `update_slice_cursor` is a
small program of its reader: `StoreSliceCursor` (a `fetch_max`), `ScanSlice` once per slice in
index order, which keeps the running minimum from `u64::MAX` and remembers whether a zero was
seen, and `PublishMinimum` (a `fetch_max` of the minimum, or nothing when a slice has not
started). With one slice there is no scan and `PublishSingle` publishes its cursor. The code uses
`Ordering::Relaxed`: under `memory_order = "relaxed"` a load may return any value of the
atomic's `history` not older than what this reader has seen (`view`, per-location coherence);
under `"seqcst"` it returns the newest. The order is a variable fixed at boot, so both kinds of
behaviour are in one run. `CursorTracker::update_slice` is the same algorithm.

### IngestPipeline

`Boot` loads cursor and graph from the file and starts from the larger of the cursor and the
floor of the history replay. Per slice: `Connect` (the server replays from the requested cursor, or
from its head when there is none), `ReadFrame` (parse, move the cursor, then hold the events),
`SendEvent` (waits while the channel is full), `Disconnect` (the frames since the slice's cursor
come again), `ReaderCancelled`. The consumer: `ConsumerReceive` (`recv_many`), `ConsumerApply`,
`ConsumerFinish` (the last sender is gone). `Cancel`, `Joined`, `DrainTimeout` and `FinalSave` are
the shutdown; `BeginSave` captures the cursor and `WriteSave` writes it with the graph of *that
later* moment; `Crash` can happen at any time. An event is `<<slice, time, k>>` and applying it
adds it to a set: the module asks whether and in which order events are applied, not what
they do.

### GraphStore

The consumer performs one of `record_interaction`, `record_post_meta`, `remove_post` at a time,
one critical section per step, in the order of the code; `step` is where it stands. A pass of
`prune_older_than` visits the indexes in the order of the code, shard by shard: forward edges,
reverse edges, activity, metadata (collecting `valid_posts`), authors, topics, bitmaps
(`RebuildBitmap` under one lock, `SwapBitmap` under another). Every id has a shard of its own;
sharing one only removes interleavings. Ghosts remember which posts had a call that overlapped a
pass: `raced_posts` for good, `raced_bits` until a pass that no call overlaps.

### VelocityPool

The log is the buffer, `head` and `count` of the code, with the in-place compaction (`Retain`)
of prune and deletion. A request checks the cache, collects candidates from the log (the
fallback over `active_recent_posts` only when the log is empty), scores them post by post, and
publishes its result later; it carries the time read at its start, so two requests can finish out
of order. Recording, deletion and pruning take the four locks one at a time. A restart refills the
log from the restored edges of posts with recent activity, in any order, since the code walks a
hash map. A ghost keeps with each answer what was deleted at that moment, and which of these
deletions overlapped a request that was scoring.

### Lifecycle

The boot task (hydrate in a blocking job, `SetHydrated`, `CheckCancelled`, `StartIngestion`), the
detached compaction, the prune and snapshot tasks, the first-come first-served save slot, the
signal at any moment, the drain and its timeout, the final save and its timeout, and the exit,
where the runtime waits for jobs that have started and drops the others. Loads may fail or
panic and writes may fail.

### IdSpace

The interner is `to_str` (position to string, per shard) and `to_id` (string to position); an
identifier is `<<shard, position>>`, as the code packs both into 32 bits. `InternFast` is the
look under the read lock and `InternSlow` the second look and the append under the write lock. Five
stores hold entries of identifiers: edges (the interactions in both directions, follows and
activity, which all jobs treat alike), metadata, blocks, preferences, impressions. Two writers
work call by call and lock by lock: the ingest consumer (like, with the placeholder metadata the
code makes up; block; delete) and a request (set dials; serve a feed and record its
impressions, the posts' identifiers read *before*, the viewer's *after*).

The jobs hold the save slot and follow a plan: a set of steps, each with its turn, what it does
and to which store or shard. `Step` does one of least turn among those left. The turns are the order of
the code; shards share a turn, as the threads of the load hydrate them in any order and a
compaction goes by an index that means nothing here. `CompactPlan` collects the identifiers of every store, compacts the interner shard by shard,
and remaps store by store (preferences are read in one step and swapped in in a second);
`SavePlan` writes the strings of all shards at once (the code holds all read guards), then a
section per store, then renames; `LoadPlan` hydrates shards and then stores. `Crash` comes at
any point, `file` survives. The consumer starts after the load, requests before it ends. `Files` are
the snapshots the first boot may find: of these `IdSpaceAssumption` asks what every file a save has
written is proved to be (strings in the shard of their hash, one entry for a key, self-contained).

Entries carry the names they were written for (`names`), which the code does not have and
which the properties compare with what the identifiers resolve to. A call that overlaps
a compaction or the load is `raced`, and what it writes is not `sound`: the code has no
protection there, and no property claims any. `kept` are the names of sound entries nobody
removed since, `promised` the same as of the beginning of a save.

### LockOrder and StoreLocks

A call is a set of chains: a chain is the sequence of guards a thread comes to hold *at once*,
outermost first, and a call that holds nothing in between is several chains. Taking a read
guard needs a lock that no writer holds or claims; a writer first claims the lock (new readers
then wait, as in parking_lot) and enters when the readers have left. `StoreLocks` has one
operator per function of the code that takes guards, named after it, over any shards its
identifiers may fall into, and ranks the indexes: every chain must go down. The one function that
does not is `estimated_size_bytes`, which the constant `Sized` adds.

### FeedRanking and FeedPaging

`FeedRanking` is `recommend_at` and `recommend_preview_at` as functions of what they read: the
published posts, the viewer's likes and blocks, the stored dials, the history and the time.
Posts are numbered in the order of the velocity pool. Scores are integers: who brought a post
is counted, a place in the pool is a share of `Share` (twelve for four posts; at least the number of
posts, so that no place is worth nothing), fatigue is a number of twentieths, so that the
ceiling's comparison with 95 % is exact; the order of posts is then what the code's sorts give for
those scores. An order is stated by a relation (`Before`: scores descend, ids break ties) and
`Sorted` gives the sequence; `Pick` keeps some positions of a sequence in their order. Threads,
authors and topic turns are relations and sets of positions of this kind: topics take turns in tier 3
as in `interleave_topic_buckets`, because a post is ordered first by how many of its topic come
before it.

In `FeedPaging` each device runs one request at a time: `Request` (dials, viewer, session),
`Compose` (the ranking), `CacheSession` (only a known viewer's first page), `Record` (impressions;
this interns the viewer), and keeps the cursor it was given. Between these steps other devices,
the consumer (`Like`, `Block`, `DeletePost`), `SetPreferences`, `Tick` and maintenance
(`PruneExpired`, `Compact`, `Restart`) run. A history has the four fields of the code. Ghosts:
`first` is the ranking the first page was cut from, `calm[d]` says that nothing has replaced or
dropped its session, `hiddenAt` when a post became one that the viewer must not see. Whom the graph
names (`InGraph`: who wrote or endorsed a post, follows or is followed) has an identifier from the
start and keeps it through a compaction; with `Newcomers` every other viewer starts without one.

### OAuthLogin, ServiceAuth, ServerAuth

A login is `Resolve`, `InsertState`, `PushRequest`; a callback `Callback` (take the state, check its
age and issuer), `Exchange` or `ExchangeFails`, `StoreSession`; a publish `Publish`, `PutRecord` or
`PutRecordFails`, `Published`. Every remote answer may be a failure, `Exchange` may name another
account of the same server, no account, or an empty one (`EmptyDid`), which is not compared with
the login's account and taken as the DID: session and token are then stored for `""`, and no handler
accepts the token, since `""` is no valid DID. A browser may send its callback again, an old one may come
after a `RestartServer`. The stores are one shard each: eviction only relates entries of a shard.
Session tokens in browsers (`minted`) survive a restart, as they do with a configured secret.

A service request reads the clock once (`Arrive`), which is the date its key will be cached
under, then looks up or resolves the key, inserts it, checks the signature, is tracked, served and
dropped. Its signature is by the account's present or last key, or by none (`NoKey`): a broken or
forged one is refused before the check, without invalidation, or by it. A client may leave at any step. `Rotate` replaces an account's key, on the same curve or the
other one.

`ServerAuth` composes the two under one clock. They share no other state, so one part is explored
while the other is at rest (`part`); `InsertsPrompt` says that the handler does not stall between
reading the clock and inserting the state for as long as the ten minutes of the TTL.

## 3. Runs

| run | instance | states | shows |
|---|---|---|---|
| `watermark` | 1 to 3 slices, times 1..2, both memories | 1.2 M | safety, catching up under sequential consistency, refinement of `LowWatermark` |
| `ingest_pipeline` | 2 slices, 2 frame times, up to 2 events a frame, channel 2, batch 2, 1 boot from 2 snapshots | 0.2 M | nothing received is skipped, a joined drain has applied all, order per slice, the drain completes |
| `ingest_cursor_ahead` | the same with 2 boots | | **violated**: the saved cursor is ahead of what was processed |
| `graph` | 1 user, 2 posts, 3 calls, 2 passes | 3.5 M | the indexes agree between calls except where a call overlapped a pass, and the next undisturbed pass repairs the bitmaps |
| `velocity` | 2 requests, log of 2, window 1, TTL 1 | 4.2 M | window, freshness and brief life of deleted posts |
| `lifecycle` | cursors 0..3 | 97 k | the file survives, the final save is last, resume points advance, shutdown completes |
| `idspace` | 2 users, 2 posts, 2 shards, 2 calls, 1 compaction, 1 save, 1 crash | 1.3 M | the interner is a bijection, undisturbed entries resolve and survive, the file is self-contained |
| `store_locks` | consumer, maintenance, 1 request; 2 shards | 0.47 M | no circular wait among the program's chains |
| `locks_sizing` | the same and a second request, the size estimate, 1 shard | | **violated**: four threads wait in a circle |
| `feed_paging` | 4 posts, 2 devices of 4 ownerships, pages of 1, histories of 2, 1 session, 2 requests a device, 1 event, 3 times | 1.0 M | pages continue, histories forget, hidden posts fade, unseen first, the preview agrees, maintenance keeps fatigue |
| `paging_first_visit` | the same with viewers not interned yet unless the graph names them, other topics, no event | | **violated**: page two skips a post |
| `server_auth` | 3 logins, 2 callbacks, 1 publish, 2 accounts, stores of 2 and 1; 2 service requests, cache of 1, 3 times | 1.4 M | one token per login, never for another account, logins survive the cap, keys age out, bounded stores, exact in-flight count |

Seven more configurations are not runs of the project but reproduce what sections 6 and 7 tell:
`MCGraphStoreAuthorLinks`, `MCVelocityLog`, `MCLifecycleCursor`, `MCIdSpaceImpressions`,
`MCIdSpaceBlocks`, `MCServerAuthRotation` and `MCServerAuthSubject`, each with the property it violates
(`tlc -config MCVelocityLog.cfg MCVelocityPool`, and so on).

### Why these bounds are enough

* `watermark`: the smallest run with a bystander between two overlapping scans has three
  slices; two times suffice for an old and a new value of every load. The theorems of
  section 5 remove the bound for safety and refinement.
* `ingest_pipeline`: the channel fills with a single frame, a batch takes more than one
  event, both slices compete for the last place, and a reader can be cancelled with one event
  sent and one in hand. One boot is enough for the properties that end at a crash; the
  violation run has the second boot that makes the loss visible.
* `graph`: three calls are like, repeat or delete, and like again; two passes make one that
  damages and one that repairs. Two posts are needed for a shard that has been visited and one
  that has not. A second user is only needed for author links: no index that `graph` checks
  relates two users.
* `velocity`: a log of two wraps on the third entry; two requests can publish in either order;
  a clock of five lets an entry leave the window, the TTL and the retention.
* `lifecycle`: the cursor takes the values none (0), restored and advanced.
* `idspace`: the first file is empty, or holds strings of which the first of the users'
  shard is dead, so a compaction really moves the second one, and an impression of a post with
  no other reference. Two calls can be two interns of one string, or a like and its deletion, on
  either side of a job or across it. One job of each kind happens in either order; a crash
  before any save has begun is left out (`MCNoIdleCrash`), it boots like an initial state, and so is a
  compaction after a save of the same process (`MCNoIdleSave`), which finds what it would find without.
* `store_locks`: a circular wait of the program's chains needs at most as many threads as it has
  kinds of thread; two shards are needed for two guards of one index. The theorems remove both
  bounds. The estimate's violation needs only one shard and four threads.
* `feed_paging`: one follow, one co-interactor and the pool make all three tiers and both
  fallbacks happen; two posts share a thread, three an author; a history of two evicts on the third
  page; a session store of one evicts for the other viewer; TTL 1 and window 2 end within the
  clock. Four posts and pages of one leave something unseen after two pages. One event at
  every place between the steps is enough for each property by itself; the counterexamples of
  its mutants need no more.
* `server_auth`: three logins overflow a store of two; two callbacks are a doubled one or two
  logins'; two accounts share an authorization server. A key cache of one evicts for the other
  account. Two times around a TTL of one let a state expire and a key age out between any two steps.

Symmetry is used only in safety runs (posts in `graph`; posts and requests in `velocity`; devices,
logins, callbacks and requests in the new ones, whose action properties do not name them)
and only over model values which no definition tells apart. `CHECK_DEADLOCK FALSE` is set where
the system may rightly stop: after the process has exited, and where a bound on calls, clock,
boots or cursor has been used up.

### Properties worth a word

* `SafeLowWatermark`: the published cursor is at most every slice's cursor, once all slices
  have one, in every state, relaxed or not. `TightWhenIdle` is its counterpart, that of two
  overlapping scans one sees both stores; it needs sequential consistency and the model says so.
* `NothingSkipped`: while the process is up, every event of every frame the cursor has passed is
  in the graph, the batch, the channel or a reader's hand.
* `AppliesInStreamOrder`: an event takes effect for the first time only after the earlier events of
  its slice since the boot's first frame.
* `BitmapsMatchEdges`: a like recorded between reading and swapping a bitmap is lost from it;
  the property says for how long, until the next pass nobody overlaps, and for whom.
* `FreshWithinTTL`: an edge in the window whose recording ended a TTL before the request is in
  the answer, unless the log has overwritten an entry.
* `DeletedServedBriefly`: a post that is deleted when an answer is given is in that answer only if
  its deletion overlapped a request that was scoring, and for less than a TTL after it. What counts
  is recorded with the answer: a deletion after the answer says nothing about it.
* `NoCircularWait`: every set of threads has a member that no member blocks; stronger than the
  absence of a deadlock of all, it also finds four threads stuck while a fifth runs.
* `PagesContinue`: whatever was served, liked or recorded in between, the next page of a known
  viewer is the next slice of the first page's ranking, unless another device starts over, the
  session is evicted, the dials change or maintenance drops it. `HiddenWithinTTL` is its price: a
  deleted or blocked post may still come from the session, but not beyond five minutes.
* `RememberedIsQueued`: eviction works on the queue, fatigue on the maps; a post in the maps
  without its entry in the queue would be tired for good.
* `MaintenanceKeepsFatigue`: pruning, compaction and a restart change no published post's penalty.
* `PreviewAgrees` asks for the same candidates and, in tier 1, the same ranking. It makes one
  exception: `recommend_preview_at` (1977-1998) does not ask for blocks between the viewer and a
  followed account, though `CHANGELOG.md:17` says blocks are filtered everywhere.
* `OneTokenPerLogin`: a login is used once, and no token or session is for another account than it
  was begun for, whatever account the user chose at the authorization server. It allows the empty
  DID, which an answer with an empty `sub` does leave (section 6).
* `LoginsSurvive` names exactly when the cap may drop a live login: when as many others as a shard
  holds began since, or within the TTL before. It counts all of these, so it does not depend on which
  live state is dropped; and with the TTL of the instance live states at the cap are of one age.
* `KeyRecentlyPublished`: counted from the request's own clock, also when its resolution
  took long and a rotation happened meanwhile.
* `ResumePointAdvances`: once the ingester has its cursor, whatever of the restored cursor
  and the backfill floor it starts from, a drained shutdown does not move the file's cursor back.
* `SnapshotPreserved`: the file keeps all that the file found at boot held, unless the load itself
  failed, which the code reports and accepts.
* `RefsResolve`, `NothingForgotten` and `FileSelfContained` are about sound entries only: the
  strings section is written first, so an entry recorded after the save began may name a
  string the file lacks; after the restart another string takes that identifier. A deletion that
  read its identifier before a compaction may remove another post; `NothingForgotten` counts what
  it removes as removed.

### What the premises leave out

Some properties have a premise because the code promises nothing beyond it. The hazards of
`PROJECT.json` say so one by one; together:

* `DirectionsAgree`, `IndexesFollowMetadata` and `RecentCoversEdges` leave out posts a call on which
  overlapped a prune pass; only `BitmapsMatchEdges` says what becomes of those.
* `RefsResolve`, `NothingForgotten` and `FileSelfContained` leave out calls that overlap a compaction or
  the load, entries recorded after the save began, and blocks after a restart.
* `FreshWithinTTL` ends where the log overflows; `FinalSaveIsLast` and `ResumePointAdvances` are about
  shutdowns that drain in time, and the second begins when the ingester has its cursor: a save of
  cursor 0 between hydration and that moment is not covered.
* `AppliesInStreamOrder` across frames rests on its theorem: in the instance no slice has events
  in two frames.

## 4. Fairness

`watermark`, `graph`, `velocity`, `idspace`, `store_locks`, `feed_paging` and `server_auth` check
safety and use none (the absence of circular waits is a property of states here).

* `IngestPipeline!FairSpec`: weak fairness for `ConsumerReceive`, `ConsumerApply`,
  `ConsumerFinish`, `WriteSave` and `Joined` (tokio polls a runnable task, a blocking job gets its
  thread). Strong fairness for `SendEvent` and `ReaderCancelled`: a sender waits in the
  first-come first-served semaphore of the mpsc channel, so a place that becomes free again
  and again reaches it; and `select!` picks among its ready branches at random, so a cancellation
  that stays ready is picked in the end. No fairness for connections, frames, disconnections,
  the signal, the begin of a save, the drain timeout or a crash: `DrainCompletes` does not lean on
  the timeout.
* `Lifecycle!FairSpec`: weak fairness for the boot task, the blocking jobs and the shutdown steps,
  timers included. None for the signal, the ticks, the compaction or the progress of the stream.
  `ShutdownCompletes` starts from a signal and needs none of these.

## 5. What is proved

`ResumePointProofs`, part one, is about `CursorWatermark` for every `MaxSlices` and `MaxTime` in
`Nat \ {0}` (the assumptions `MaxSlicesAssumption`, `MaxTimeAssumption`; TLC evaluates them
in the `watermark` run). Behaviours may choose any number of slices up to `MaxSlices` and
either memory.

* `WatermarkTyped`: `WatermarkSpec => []WatermarkTypeOK`.
* `WatermarkIsSafe`: `WatermarkSpec => []SafeLowWatermark`.
* `WatermarkRefines`: `WatermarkSpec => ImplementsLowWatermark`; every step of the scans is a `Receive`, a
  `Publish` or a stutter of `LowWatermark`.
* `WatermarkCatchesUp`: `WatermarkSpec => []TightWhenIdle`, under sequential consistency.

`SafeLowWatermark` is not inductive. A scan carries a minimum of values it has read, possibly
stale ones, and publishes it later; what makes that safe is that cursors only grow. The
invariant `WatermarkInv` adds exactly this:

* `HistoryBelowCursor`: any value a reader may still load of a slice is at most the slice's
  present cursor;
* `MinimumBelowScanned`: while every slice loaded so far had started, the running minimum of a scan
  is at most the *present* cursor of every slice already scanned.

So when a scan has passed all slices its minimum is below all cursors, and `fetch_max` of two
such values is one. The proof has a step per action (store, scan, publish, early return), and
lemmas for the arithmetic of minimum and maximum. The refinement uses the invariant for
the guard of `Publish`: the value published is at most every cursor at that moment.

`TightWhenIdle` bounds the published cursor from below and needs another argument. `TightInv` says
of every time `w` which all cursors have passed that the published one has passed it too, or some scan
under way has met no cursor at or below `w` so far and so will publish more (`ProgressCarried`).
The store that takes the last slice beyond `w` begins such a scan itself.

`IngestPipelineProofs` is about any finite non-empty set of slices, any traffic, and any capacity
and batch size from 1 (`PipelineAssumption`).

* `PipelineIsTyped`: `[]TypeOK`; the channel never exceeds its capacity.
* `PipelineSkipsNothing`: `[]NothingSkipped`. The invariant follows an event through the hand of its
  reader, the channel and the batch (`NotSkipped`). `Hands` says that a reader holds events only
  while it sends and they are its own slice's, so that dropping the connection drops none;
  `Fresh`, that a boot starts before any frame.
* `GracefulDrainIsLossless`: `[]GracefulDrainLosesNothing`. `Drained`: the consumer ends only when
  the last reader has ended and the channel is empty, and the phase moves past the drain
  without an abort only then.
* `SliceOrderIsKept`: `Spec => AppliesInStreamOrder`, an action property. What is due before an event
  has been applied, or stands before it in its own queue, or in a queue nearer to the graph
  (`Order`). A reconnection replays events that are further along already, and these no longer take
  effect for the first time.
* `DrainNeedsNoTimer`: `[]DrainCanMove`. After the cancellation the guard of a reader's, the consumer's
  or `main`'s fair action holds: the drain cannot wait for itself, however full the channel.

`GraphStoreProofs` is about any users, posts, signals, times, calls and passes (`GraphAssumption`).
Its properties speak of moments between calls and passes; the invariant says for every step of a
call and every stage of a pass how an index may differ from the others. `Done(stage, shard)` is true of
the shards the pass has visited, and everything is stated per post that has not raced.

* `GraphIsTyped`: `[]TypeOK`, one edge per user, post and signal included.
* `BothDirectionsAgree`: `[]DirectionsAgree`. `Directions`: only the reverse side has old edges behind
  the forward pass and ahead of the reverse pass; half-way through a recording only its own
  edge is alone; half-way through a deletion everyone who still has an edge is yet to be visited.
* `BitmapsMatch`: `[]BitmapsMatchEdges`. `Bits`: a bit may be stale from the forward pass to the swap
  of the bitmap, a rebuilt bitmap not swapped yet is right; `CleanPass`: a pass that no call has
  overlapped leaves every bitmap it has swapped exact, for the raced posts too, which is the repair.
* `IndexesFollow`: `[]IndexesFollowMetadata`. `Indexes`: `valid_posts` are the posts with metadata in the
  shards visited; an author link without metadata waits for the author pass, a topic for its own.
* `RecentCovers`: `[]RecentCoversEdges`. `Recent`: activity lags only behind the edge being recorded, and
  behind the reverse pass no edge is older than the cutoff by which activity is pruned.

`VelocityPoolProofs` is about any finite non-empty set of posts, any users, readers, capacity, window
and TTL, with `Retention >= Window + TTL + RequestLife` (`PoolAssumption`; in the code days
against a day, five minutes and a request). Every request ends within `RequestLife` of its
clock, as the model's `Tick` says.

* `PoolIsTyped`: `[]TypeOK`. That the used slots of the ring hold entries needs a lemma on
  compaction (`RetainKeeps`, on `RankNumbers`: the kept slots are numbered from 0 without gaps).
* `ServesTheWindow`: `[]ServedWithinWindow`. Whatever is cached or scored had an interaction in the
  window before the result's own time (`Windows`), a fact about the past that deletion and
  pruning cannot undo.
* `DeletedLeaveThePool`: `[]DeletedServedBriefly`. A deletion clears the cache last. Until then each post of
  a result that may still be served is explained (`Deletions`): it has an edge, or its deletion has yet
  to reach the cache, or its deletion overlapped a scoring request.
* `FreshEdgesAreServed`: `[]FreshWithinTTL`. As long as no entry was overwritten, every recorded edge
  the prune pass has not reached is in the log (`LogCovers`, by `RetainKeeps`, `PushKeeps` and
  `RefilledCovers`), and cache and running requests miss no edge recorded before their own time
  (`Covered`). Pruned edges are older than any window a request can have, which is where the
  assumption on `Retention` is used.

`ResumePointProofs`, part two, is about `Lifecycle` for any bound on cursors and any replay starts
(`LifecycleAssumption`). Its invariant `Inv` is kept by every step; `Steps` groups these by who takes them.

* `LifecycleTyped`: `[]TypeOK`. That the slot holds each started job once (`SlotOK`) needs more than
  types: no job may be spawned again while queued, which is so because a periodic task waits for
  its own job and the final save is spawned once (`JobsOK`).
* `FileSurvives`: `[]SnapshotPreserved`. A save exists only after `hydration_completed`, and the flag is
  set only once the load has ended with everything or with an error (`Hydration`).
* `NothingAfterFinalSave`: `[]FinalSaveIsLast`. Without an abort the final save is spawned when all
  tasks have been joined, so that no periodic save is queued and the cursor it carries stays the
  ingester's (`LastSave`).
* `ResumePointKeptByDrain`: `Spec => ResumePointAdvances`. A save carries a cursor the ingester has passed,
  and the ingester starts no earlier than the file it was restored from (`Cursors`).
* `ShutdownNeedsNoTimer`: `[]ShutdownCanMove`. From the signal to the exit a job, a task or `main` can go on
  without a timer: the head of the slot is a job that runs (`SlotOK`), and what is waited for has been
  started (`Started`). `BackfillStarts` must not be empty: a boot always computes a start.

`DrainNeedsNoTimer` and `ShutdownNeedsNoTimer` say of the liveness properties what can be said
without fairness: nobody waits in a
circle, so that a timeout cuts long work short and resolves no deadlock. The guards are written out
because `ENABLED` is beyond the provers; in the instances of `ingest_pipeline` and `lifecycle` TLC finds
each group of guards equal to `ENABLED` of its actions. That the steps end (a reader does not read
frames for ever, jobs return) is left to the runs and their fairness.

`IdSpaceProofs` is about any strings, authors, hashes and shards, any first file and any number of
calls and jobs (`IdSpaceAssumption`). One invariant, `Inv`, carries all four theorems, because what an
identifier means depends on where the job under way stands: `Left(verb, on)` says that a step of its
plan is still to be done, and `StepInTurn` that everything with an earlier turn is not.

* `OneIdentifier`: `[]TypeOK`, the bijection of `to_str` and `to_id` and one entry for a key. That
  remapping makes no two entries meet needs the map to be one-to-one (`MapOK`), which `CompactShard`
  gives by `PlacesNumber`: the places of the kept positions number them from 1 without gaps.
* `IdentifiersKeepTheirMeaning`: `[]RefsResolve`. During a compaction an entry of a store that has
  not been remapped is `Tracked`: in a shard still to be compacted its identifiers resolve and, once
  the store has been collected, are among the referenced; in a shard already compacted they are in
  the map, and what they map to resolves. A call that no job has overlapped has the right
  identifiers so far (`Undisturbed`), as the interner only grows in between (`InternerGrows`).
* `EntriesSurvive`: `[]NothingForgotten`. `KeptOK` says it for every moment of every job, with
  the file's store standing in for one the load has yet to restore; preferences are in
  `new_shards` between their two passes (`SwapOK`).
* `SnapshotStandsAlone`: `[]FileSelfContained`. What was there when the save began resolves in the
  interner until the strings are written and in the draft from then on, and what is
  promised is in the store until its section is written and in the draft from then on (`SaveOK`).

`StoreLocksProofs` is about any set of request threads and any number of shards.

* `StoreCallsDescend`: all chains of `StoreLocks` descend when `Sized` is false, by a lemma for each
  shape of call (single guard, nested pair, walk of three, all shards in index order).
* `StoreLocksTyped`: `[]TypeOK` when `Sized` is false.
* `StoreNeverDeadlocks`: `[]NoCircularWait` when `Sized` is false. The lemma `NoDeadlock` takes from the
  calls only that they descend. Its invariant says that readers and writer of a lock are threads
  whose chain has reached it. In a set of threads each blocked by another, take one that
  waits for the lowest lock: whoever blocks it holds that lock and, chains descending, waits for a
  lower one.

`FeedPagingProofs` is about any posts, authors, threads, topics and endorsements, any viewers,
devices and owners, any dials, page size, caps, TTL shorter than the fatigue window, fatigue table and
bounds (`FeedRankingAssumption`, `FeedPagingAssumption`). Part one says what each operator of
`FeedRanking` returns: `SortedLists` (every member once, in order), `PickLists`, and from these the
tiers, threads, authors, both rankings (only posts the viewer may see) and the pages
(`Pages`: a page without posts is the last). Part two has one lemma per action.

The properties speak of the moment a page is ready; the invariant `Inv` says what sessions and requests
know before. It is one invariant because a history, a session and a request are each kept by steps
that read the others.

* `TypeCorrect`: `[]TypeOK`, and `TimestampsQueued`: `[]RememberedIsQueued`. A history is good
  (`GoodHistory`) when it is typed and its queue `Remembers` every timestamp. `PopOldestLists` is the
  step that matters: what leaves the queue is forgotten unless a later entry names it. The restored
  queue has one entry per post, so its length is the number of posts, which are all in the old queue.
  `known` covers the sessions' viewers; a session is cached only when that is so.
* `ScrollsContinue`: `[]PagesContinue`. `ScrollHeld`: as long as nothing disturbed a scroll, its session
  is still there with the ranking of its first page, under the dials in force, and flagged once that
  page was answered (`Held`), or the TTL is over. So a request for a later page that comes within the TTL
  finds it, and is never composed anew. A page without posts sets no flag, but then there is
  no next page (`RequestOK`), so nobody asks for it.
* `HiddenLeaves`: `[]HiddenWithinTTL`. `HiddenTracked`: what is not hidden now has never been, as
  nothing is unhidden; a ranking has only what is not hidden, so a session's posts were visible at its
  date (`SessionVisible`), and a request is served no session older than the TTL (`RequestVisible`).
* `UnseenComeFirst`: `Spec => UnseenFirst`. The ceiling puts every served score at or below every unseen
  positive one, strictly so that ids cannot turn it around; taking a thread's best post in its
  first place and dropping posts of an author keep a descending list descending.
* `PreviewsAgree`: `Spec => PreviewAgrees`. The preview's tiers have the domains of the feed's (what is
  reached by a walk is what has an endorser among its accounts), so they fall back alike;
  `PenaltyValue` and `CeilingLists` are shared, so equal scores give equal rankings.
* `FatigueKeptThroughout`: `Spec => MaintenanceKeepsFatigue`. Pruning forgets only posts whose latest
  impression is outside the window, where the penalty is one already; compaction keeps what the
  published posts need; a snapshot has timestamp and count of each. That no `Record` fits the
  property's premise uses that a request in its recording phase does not stay in it.

Folds over a page and the powers of a penalty are recursive functions on `0..n`. The only induction
they need is along the natural numbers up to `n` and is done over the well-founded order on these
inside the lemmas (`UpTo`), never by an operator parameter.

`ServerAuthProofs` proves the four invariants of `server_auth` for any accounts, logins, callbacks,
keys, rotations, caps and times (`WallClockAssumption`, `OAuthLoginAssumption`,
`ServiceAuthAssumption`; the login attempts are a finite set). Each part's invariant is kept by the
part's own steps, by ticks of the clock and, trivially, by the other part's steps.

* `OneTokenAtMost`: `[]OneTokenPerLogin`. Inductive with it (`LoginIInv`): a stored state has come to
  no callback and minted nothing; of the callbacks of a login at most one is between taking the
  state and storing the session, and none once a token is minted; a callback about to store
  carries the account of its login or the empty DID (`OwnDid`), and the account no longer changes once
  the login has begun.
* `LoginSurvives`: `[]LoginsSurvive`. The invariant (`StateIInv`) ties the store's dates to the
  logins'. The step that matters is an insertion at the cap: what it evicts is either expired by
  then, or the oldest of at least `MaxStates` live states. In the second case these and the
  newcomer are all around the evicted login, so that nothing was promised to it. That the
  newcomer is around it uses `InsertsPrompt`: nothing is awaited between the clock and the insertion.
* `KeyIsRecent`: `[]KeyRecentlyPublished`. A cached key, or one about to be cached, was still
  published at the time it is dated by (`CacheDated`, `KeyInHand`); a rotation dates the old key
  now, which is no earlier than anything dated so far.
* `AuthTyped`: `[]TypeOK`, the caps of the three bounded maps, the count of requests in flight, and
  where an advertised URI may come from.

## 6. Findings

Three runs refute what a comment, document or test of the repository says.

* `ingest_cursor_ahead`: `latest_cursor_us` is documented as the highest cursor *processed*
  (`ingest.rs:449`, `types.rs:1183`); it counts frames whose events are still on their way. A
  checkpoint in that moment followed by a crash never sees those events again.
* `locks_sizing`: tests claim "zero deadlock" under write bursts
  (`tests/adversarial_milestone4_qa_verification.rs:20`, `tests/preview_challenger_tests.rs:12`).
  `estimated_size_bytes` (`graph.rs:1642`, called by the telemetry at `server.rs:1857`) keeps nine
  read guards while it goes from index to index, user interactions before follows; the follow walk of
  a feed request holds follows and reads user interactions. With a writer waiting at each of the
  two, four threads wait in a circle.
* `paging_first_visit`: the session is to keep later pages from skipping posts
  (`recommender.rs:299`); a viewer without an id gets none, and the impressions of page one give the
  viewer an id, so page two is cut from another ranking. In the trace the viewer follows nobody
  and has written nothing: page one is post 1 of <<1, 2>>, page two is cut at offset 1 from <<2, 3>>,
  in which post 1 is tired and no longer takes a place of its author's. Post 2 is skipped.

The following disagreements are reproduced by the extra configurations of section 3, or told where
noted. They are no claims about severity either.

* `MCGraphStoreAuthorLinks`: the author pass is to drop posts no longer in `post_metadata`
  (`graph.rs:1206`); it drops those that were not there when their shard was visited.
* `MCVelocityLog`: the log is called a chronological ring (`graph.rs:363`); after an in-place
  compaction of a wrapped log, the next slot overwritten need not hold the oldest entry.
* `MCLifecycleCursor`: a restart is to resume without a backfill (`PRD.md:109`); a signal during
  hydration lets the final save write cursor 0 over the file's.
* `MCIdSpaceImpressions`: compaction is said never to corrupt the impression history
  (`snapshot.rs:1061`, `CHANGELOG.md:70`); a feed request keeps the identifiers of its posts across
  a compaction and records them afterwards, when they belong to other posts.
* `MCIdSpaceBlocks`: a restart is to hydrate the entire graph (`PRD.md:109`); the snapshot has no
  section for the block graph.
* `MCServerAuthRotation`: a failed signature is to invalidate the cached key so that the next
  attempt resolves it anew (`service_auth.rs:36-38`, `246-247`); a rotation to a key of the other curve
  is refused before that (334-343), and stays refused until the TTL ends.
* `MCServerAuthSubject`: the subject of a token answer is to be the account of the login, enforced
  strictly (`CHANGELOG.md:52`); an empty one is not compared (`auth.rs:1818`) and becomes the DID of the
  session and its token.
* `FeedPaging!HistoryBounded` does not hold: `compact` (`recommender.rs:241`) takes the ids of the
  whole queue, also of a post that eviction has forgotten while an older entry of it was queued.
  It has no time and no count, so it has no fatigue, and goes with its entry.

## 7. Only model-checked, not modelled, left to do

**Only model-checked.** Every invariant and every action property of a passing run is a theorem, and so
is the refinement of `LowWatermark`. Liveness (`DrainCompletes`, `ShutdownCompletes`) stays with TLC:
fairness and `ENABLED` are beyond TLAPS here; `DrainNeedsNoTimer` and `ShutdownNeedsNoTimer` are the
part of them that is a matter of states. What the violating runs and the extra configurations
refute is not proved, of course.

**Not modelled.**

* Floating point: cosine, Bayesian confidence, decay and the quality curve (`graph.rs`,
  `recommender.rs`). `FeedRanking` keeps the comparisons on integers. The caps of the walks
  (`MAX_SEED_POSTS` and the like) are never reached; classification by creator, keyword or hash is
  a constant topic per post; serendipity only tags posts.
* The preview's choice of its time (`latest_graph_ts`), explicit query parameters that override
  stored dials for one request, and proof chains' wording.
* JSON, HTTP status codes, log lines, rate limits' wording; DNS, DID and handle resolution and
  signatures beyond their outcome; the app-password login, typeahead and OAuth preview, which
  keep no state in the process; refresh tokens, which are stored and never used; the dashboard.
* `CompactEdge`'s packing and the validation of dials: pure arithmetic.
* Backoff durations (only that a reader waits and that a cancellation ends the wait), statistics
  counters, activity timestamps of the tracker. The snapshot's encoding, checksums, version and
  I/O errors are left out of `IdSpace`; what a failing load or save does to the process is in
  `Lifecycle`.

**Left to do**: an abstract store keyed by strings which `IdSpace` without raced calls implements; an
abstract feed of one list per scroll which `FeedPaging` implements for undisturbed scrolls, of which
`ScrollsContinue` is the safety half.
