----------------------------- MODULE VelocityPool -----------------------------
(***************************************************************************)
(* The cold-start pool of src/src/graph.rs: the posts with an interaction  *)
(* in the last six hours, found through a circular log of recent           *)
(* interactions (RecentActiveRingBuffer), scored from the reverse edges    *)
(* and memoised for VELOCITY_CACHE_TTL_SECS.                               *)
(*                                                                         *)
(* Requests compute the pool while the ingest consumer records             *)
(* interactions and deletes posts and while a maintenance pass prunes; the *)
(* log, the edges, active_recent_posts and the cache are under four        *)
(* different locks.  Scores and the cut at `limit` order and shorten an    *)
(* answer and do not decide who is in the pool; an answer is a set here.   *)
(***************************************************************************)
EXTENDS Integers, FiniteSets, Functions

CONSTANTS
  User, Post,
  Reader,      \* the requests that read the pool, once each
  Capacity,    \* RING_BUFFER_CAPACITY
  Window,      \* SIX_HOURS_SECS
  TTL,         \* VELOCITY_CACHE_TTL_SECS
  Retention,   \* the retention of a prune pass
  RequestLife, \* how old a running request's own time may be
  Lags,        \* how late an event may be delivered
  MaxClock,    \* bound on the clock
  MaxCalls,    \* bound on the events applied
  MaxPasses    \* bound on the prune passes

BootTime == 3

ASSUME PoolAssumption ==
  /\ IsFiniteSet(Post) /\ Post # {}
  /\ Capacity \in Nat \ {0}
  /\ TTL \in Nat \ {0} /\ Window \in Nat /\ Retention \in Nat
  /\ RequestLife \in Nat /\ Retention >= Window + TTL + RequestLife
  /\ Lags \subseteq Nat
  /\ MaxClock \in Nat /\ MaxClock >= BootTime /\ MaxCalls \in Nat /\ MaxPasses \in Nat

Times == 1..MaxClock
NoTime == 0
NoCall == [op |-> "none"]
Idle == [pc |-> "idle"]
NoCache == [evaluated_at |-> NoTime, candidates |-> {}]
Slots == 0..(Capacity - 1)

VARIABLES
  clock,             \* seconds
  post_interactions, \* post -> user -> time of the edge, or NoTime
  active_recent_posts,
  recent_active_log, \* [buffer, head, count]
  velocity_cache,
  call, step,        \* the consumer
  phase,             \* prune_older_than
  cutoff,
  reader,            \* reader -> its request
  since,             \* post -> user -> when the call that added the edge ended
  deleted_at,        \* post -> when its deletion ended, or NoTime
  overlapped,        \* posts deleted while a request had scored them and not yet published
  recorded,          \* post -> the times of all the edges it ever had
  lost,              \* the log has overwritten an entry
  calls, passes

pool == <<post_interactions, active_recent_posts, recent_active_log, velocity_cache>>
ghosts == <<since, deleted_at, overlapped, recorded, lost>>
writer == <<call, step, calls>>
pruner == <<phase, cutoff, passes>>
vars == <<clock, pool, writer, pruner, reader, ghosts>>

Larger(a, b) == IF a > b THEN a ELSE b
Monus(a, b) == IF a > b THEN a - b ELSE 0
-----------------------------------------------------------------------------
(* The ring buffer.                                                        *)
Entry(ts, p) == [ts |-> ts, post |-> p]
EmptyLog == [buffer |-> [i \in Slots |-> Entry(NoTime, CHOOSE p \in Post : TRUE)],
             head |-> 0, count |-> 0]

(* Mutant: the head is not wrapped.                                        *)
Push_NoWrap(log, ts, p) ==
  [buffer |-> [log.buffer EXCEPT ![log.head] = Entry(ts, p)],
   head   |-> log.head + 1,
   count  |-> IF log.count < Capacity THEN log.count + 1 ELSE log.count]

Push(log, ts, p) ==
  [buffer |-> [log.buffer EXCEPT ![log.head] = Entry(ts, p)],
   head   |-> (log.head + 1) % Capacity,
   count  |-> IF log.count < Capacity THEN log.count + 1 ELSE log.count]

Used(log) == 0..(log.count - 1)
Rank(S, i) == Cardinality({j \in S : j < i})

(* remap, prune_older_than and remove_post keep the entries of the slots   *)
(* S: slot 0 upwards, whatever slot holds the oldest entry.                *)
Retain(log, S) ==
  IF log.count = 0 THEN log
  ELSE [buffer |-> [k \in Slots |-> IF \E i \in S : Rank(S, i) = k
                                    THEN log.buffer[CHOOSE i \in S : Rank(S, i) = k]
                                    ELSE log.buffer[k]],
        head   |-> Cardinality(S) % Capacity,
        count  |-> Cardinality(S)]

CollectCandidates(log, from, to) ==
  {log.buffer[i].post : i \in {j \in Used(log) : log.buffer[j].ts >= from /\ log.buffer[j].ts <= to}}
-----------------------------------------------------------------------------
(* restore_from_snapshot refills the log from the active posts, in no      *)
(* particular order: when they do not fit, any of them are left.           *)
Refilled(restored, active) ==
  LET n == Cardinality(active)
      count == IF n < Capacity THEN n ELSE Capacity
      orders == {order \in [0..(count - 1) -> active] : IsInjective(order)}
  IN {[buffer |-> [i \in Slots |-> IF i < count THEN Entry(restored[order[i]], order[i])
                                                ELSE EmptyLog.buffer[i]],
       head |-> n % Capacity, count |-> count] : order \in orders}

(* The process boots at BootTime.                                          *)
Init ==
  /\ clock = BootTime
  /\ \E restored \in [Post -> 0..(BootTime - 1)], u \in User :
       LET active == {p \in Post : restored[p] # NoTime} IN
         /\ post_interactions =
              [p \in Post |-> [v \in User |-> IF v = u THEN restored[p] ELSE NoTime]]
         /\ since = post_interactions
         /\ active_recent_posts = restored
         /\ recorded = [p \in Post |-> {restored[p]} \ {NoTime}]
         /\ recent_active_log \in Refilled(restored, active)
         /\ lost = (Cardinality(active) > Capacity)
  /\ velocity_cache = NoCache
  /\ call = NoCall /\ step = "idle"
  /\ phase = "idle" /\ cutoff = 0
  /\ reader = [r \in Reader |-> Idle]
  /\ deleted_at = [p \in Post |-> NoTime] /\ overlapped = {}
  /\ calls = 0 /\ passes = 0

Running(r) == reader[r].pc \in {"collect", "score"}

Tick ==
  /\ clock < MaxClock
  /\ \A r \in Reader : Running(r) => clock < reader[r].now + RequestLife
  /\ clock' = clock + 1
  /\ UNCHANGED <<pool, writer, pruner, reader, ghosts>>

InAResult(p) ==
  p \in velocity_cache.candidates \/ \E r \in Reader : reader[r].pc = "score" /\ p \in reader[r].scored

(* record_interaction, as far as the pool depends on it: reverse edge,     *)
(* active time, log.                                                       *)
RecordReverse(u, p, t) ==
  /\ step = "idle" /\ calls < MaxCalls
  /\ post_interactions' =
       [post_interactions EXCEPT ![p][u] = IF @ = NoTime THEN t ELSE @]
  /\ call' = [op |-> "record", user |-> u, post |-> p, ts |-> t,
              added |-> post_interactions[p][u] = NoTime]
  /\ step' = "active" /\ calls' = calls + 1
  /\ recorded' = [recorded EXCEPT ![p] = @ \cup {t}]
  /\ deleted_at' = [deleted_at EXCEPT ![p] = NoTime]
  /\ overlapped' = IF InAResult(p) THEN overlapped ELSE overlapped \ {p}
  /\ since' = [since EXCEPT ![p][u] = IF post_interactions[p][u] = NoTime THEN NoTime ELSE @]
  /\ UNCHANGED <<clock, active_recent_posts, recent_active_log, velocity_cache,
                 pruner, reader, lost>>

RecordActive ==
  /\ step = "active"
  /\ active_recent_posts' = [active_recent_posts EXCEPT ![call.post] = Larger(@, call.ts)]
  /\ step' = "log"
  /\ UNCHANGED <<clock, post_interactions, recent_active_log, velocity_cache,
                 call, calls, pruner, reader, ghosts>>

RecordLog ==
  /\ step = "log"
  /\ recent_active_log' = Push(recent_active_log, call.ts, call.post)
  /\ lost' = (lost \/ recent_active_log.count = Capacity)
  /\ since' = [since EXCEPT ![call.post][call.user] = IF call.added THEN clock ELSE @]
  /\ call' = NoCall /\ step' = "idle"
  /\ UNCHANGED <<clock, post_interactions, active_recent_posts, velocity_cache,
                 calls, pruner, reader, deleted_at, overlapped, recorded>>

(* remove_post, as far as the pool depends on it.  A post of which nothing *)
(* was removed leaves the log and the cache alone; call.any remembers.     *)
RemoveReverse(p) ==
  /\ step = "idle" /\ calls < MaxCalls
  /\ call' = [op |-> "remove", post |-> p,
              any |-> \E u \in User : post_interactions[p][u] # NoTime]
  /\ post_interactions' = [post_interactions EXCEPT ![p] = [u \in User |-> NoTime]]
  /\ since' = [since EXCEPT ![p] = [u \in User |-> NoTime]]
  /\ step' = "unactive" /\ calls' = calls + 1
  /\ UNCHANGED <<clock, active_recent_posts, recent_active_log, velocity_cache,
                 pruner, reader, deleted_at, overlapped, recorded, lost>>

Deleted(p) ==
  /\ deleted_at' = [deleted_at EXCEPT ![p] = IF @ = NoTime THEN clock ELSE @]
  /\ overlapped' = IF \E r \in Reader : reader[r].pc = "score" /\ p \in reader[r].scored
                   THEN overlapped \cup {p} ELSE overlapped

RemoveActive ==
  /\ step = "unactive"
  /\ active_recent_posts' = [active_recent_posts EXCEPT ![call.post] = NoTime]
  /\ IF call.any \/ active_recent_posts[call.post] # NoTime
     THEN step' = "unlog" /\ UNCHANGED <<call, deleted_at, overlapped>>
     ELSE step' = "idle" /\ call' = NoCall /\ Deleted(call.post)
  /\ UNCHANGED <<clock, post_interactions, recent_active_log, velocity_cache,
                 calls, pruner, reader, since, recorded, lost>>

RemoveLog ==
  /\ step = "unlog"
  /\ LET others == {i \in Used(recent_active_log) :
                      recent_active_log.buffer[i].post # call.post}
     IN recent_active_log' = Retain(recent_active_log, others)
  /\ step' = "uncache"
  /\ UNCHANGED <<clock, post_interactions, active_recent_posts, velocity_cache,
                 call, calls, pruner, reader, ghosts>>

(* Mutant: the cache is left to expire.                                    *)
RemoveCache_Skip ==
  /\ step = "uncache"
  /\ Deleted(call.post)
  /\ call' = NoCall /\ step' = "idle"
  /\ UNCHANGED <<clock, pool, calls, pruner, reader, since, recorded, lost>>

RemoveCache ==
  /\ step = "uncache"
  /\ velocity_cache' = NoCache
  /\ Deleted(call.post)
  /\ call' = NoCall /\ step' = "idle"
  /\ UNCHANGED <<clock, post_interactions, active_recent_posts, recent_active_log,
                 calls, pruner, reader, since, recorded, lost>>
-----------------------------------------------------------------------------
(* prune_older_than(now - retention), as far as the pool depends on it.    *)
PruneReverse ==
  /\ phase = "idle" /\ passes < MaxPasses
  /\ cutoff' = Monus(clock, Retention)
  /\ post_interactions' =
       [p \in Post |-> [u \in User |->
          IF post_interactions[p][u] >= cutoff' THEN post_interactions[p][u] ELSE NoTime]]
  /\ phase' = "active" /\ passes' = passes + 1
  /\ UNCHANGED <<clock, active_recent_posts, recent_active_log, velocity_cache,
                 writer, reader, ghosts>>

PruneActive ==
  /\ phase = "active"
  /\ active_recent_posts' =
       [p \in Post |-> IF active_recent_posts[p] >= cutoff THEN active_recent_posts[p] ELSE NoTime]
  /\ phase' = "log"
  /\ UNCHANGED <<clock, post_interactions, recent_active_log, velocity_cache,
                 writer, cutoff, passes, reader, ghosts>>

PruneLog ==
  /\ phase = "log"
  /\ LET recent == {i \in Used(recent_active_log) : recent_active_log.buffer[i].ts >= cutoff}
     IN recent_active_log' = Retain(recent_active_log, recent)
  /\ phase' = "cache"
  /\ UNCHANGED <<clock, post_interactions, active_recent_posts, velocity_cache,
                 writer, cutoff, passes, reader, ghosts>>

PruneCache ==
  /\ phase = "cache"
  /\ velocity_cache' = NoCache
  /\ phase' = "idle"
  /\ UNCHANGED <<clock, post_interactions, active_recent_posts, recent_active_log,
                 writer, cutoff, passes, reader, ghosts>>
-----------------------------------------------------------------------------
(* Mutant: no protection against a cache computed later than `now`.        *)
CacheValidAt_Warp(now) ==
  /\ velocity_cache # NoCache
  /\ Monus(now, velocity_cache.evaluated_at) < TTL

(* Mutant: the entry lives one second longer.                              *)
CacheValidAt_Late(now) ==
  /\ velocity_cache # NoCache
  /\ now >= velocity_cache.evaluated_at
  /\ now - velocity_cache.evaluated_at <= TTL

CacheValidAt(now) ==
  /\ velocity_cache # NoCache
  /\ now >= velocity_cache.evaluated_at
  /\ now - velocity_cache.evaluated_at < TTL

Answer(r, now, S) ==
  reader' = [reader EXCEPT ![r] =
    [pc |-> "answered", now |-> now, answer |-> S,
     deleted |-> {[at |-> deleted_at[p], overlapped |-> p \in overlapped] :
                    p \in {q \in S : deleted_at[q] # NoTime}}]]

(* get_velocity_pool_candidates_at(now): the request has read the time at  *)
(* some moment before it looks at the cache.                               *)
CheckCache(r, now) ==
  /\ reader[r].pc = "idle"
  /\ IF CacheValidAt(now)
     THEN Answer(r, now, velocity_cache.candidates)
     ELSE reader' = [reader EXCEPT ![r] = [pc |-> "collect", now |-> now]]
  /\ UNCHANGED <<clock, pool, writer, pruner, ghosts>>

(* The candidates: from the log, or from active_recent_posts when the log  *)
(* is empty (its shards are read with the log locked; one step here).      *)
Collect(r) ==
  /\ reader[r].pc = "collect"
  /\ LET now == reader[r].now
         from == Monus(now, Window)
         pids == IF recent_active_log.count = 0
                 THEN {p \in Post : /\ active_recent_posts[p] # NoTime
                                    /\ active_recent_posts[p] >= from
                                    /\ active_recent_posts[p] <= now}
                 ELSE CollectCandidates(recent_active_log, from, now)
     IN reader' = [reader EXCEPT ![r] = [pc |-> "score", now |-> now, pids |-> pids, scored |-> {}]]
  /\ UNCHANGED <<clock, pool, writer, pruner, ghosts>>

(* One candidate is scored under its shard's lock: it stays if it has an   *)
(* edge in the window.                                                     *)
Score(r, p) ==
  /\ reader[r].pc = "score" /\ p \in reader[r].pids
  /\ LET now == reader[r].now
         counts == \E u \in User : /\ post_interactions[p][u] # NoTime
                                   /\ post_interactions[p][u] >= Monus(now, Window)
                                   /\ post_interactions[p][u] <= now
     IN reader' = [reader EXCEPT ![r] =
                     [pc |-> "score", now |-> now, pids |-> reader[r].pids \ {p},
                      scored |-> reader[r].scored \cup (IF counts THEN {p} ELSE {})]]
  /\ UNCHANGED <<clock, pool, writer, pruner, ghosts>>

(* Mutant: the result is stamped with the time it is stored.               *)
Publish_Restamp(r) ==
  /\ reader[r].pc = "score" /\ reader[r].pids = {}
  /\ velocity_cache' = IF reader[r].scored = {} THEN velocity_cache
                       ELSE [evaluated_at |-> clock, candidates |-> reader[r].scored]
  /\ Answer(r, reader[r].now, reader[r].scored)
  /\ UNCHANGED <<clock, post_interactions, active_recent_posts, recent_active_log,
                 writer, pruner, ghosts>>

(* A non-empty result is cached, over whatever happened in the meantime.   *)
Publish(r) ==
  /\ reader[r].pc = "score" /\ reader[r].pids = {}
  /\ velocity_cache' = IF reader[r].scored = {} THEN velocity_cache
                       ELSE [evaluated_at |-> reader[r].now, candidates |-> reader[r].scored]
  /\ Answer(r, reader[r].now, reader[r].scored)
  /\ UNCHANGED <<clock, post_interactions, active_recent_posts, recent_active_log,
                 writer, pruner, ghosts>>
-----------------------------------------------------------------------------
Next ==
  \/ Tick
  \/ \E p \in Post : \/ \E u \in User, lag \in Lags : clock > lag /\ RecordReverse(u, p, clock - lag)
                     \/ RemoveReverse(p)
  \/ RecordActive \/ RecordLog \/ RemoveActive \/ RemoveLog \/ RemoveCache
  \/ PruneReverse \/ PruneActive \/ PruneLog \/ PruneCache
  \/ \E r \in Reader : \/ \E now \in Monus(clock, RequestLife)..clock : CheckCache(r, now)
                       \/ Collect(r) \/ Publish(r)
                       \/ \E p \in Post : Score(r, p)

Spec == Init /\ [][Next]_vars
-----------------------------------------------------------------------------
TypeOK ==
  /\ clock \in Times
  /\ post_interactions \in [Post -> [User -> {NoTime} \cup Times]]
  /\ active_recent_posts \in [Post -> {NoTime} \cup Times]
  /\ recent_active_log \in [buffer : [Slots -> [ts : {NoTime} \cup Times, post : Post]],
                            head : Slots, count : 0..Capacity]
  /\ \A i \in 0..(recent_active_log.count - 1) : recent_active_log.buffer[i].ts # NoTime
  /\ velocity_cache \in [evaluated_at : {NoTime} \cup Times, candidates : SUBSET Post]
  /\ phase \in {"idle", "active", "log", "cache"}

Answered(r) == reader[r].pc = "answered"

(* An answer holds posts of the six-hour window only, give or take the     *)
(* cache's lifetime, and never one that was interacted with after the      *)
(* request's own time ("clock-warp safety").                               *)
ServedWithinWindow ==
  \A r \in Reader : Answered(r) => \A p \in reader[r].answer :
    \E t \in recorded[p] : t <= reader[r].now /\ t + Window + TTL > reader[r].now

(* remove_post clears the cache: a post that is deleted when an answer is  *)
(* given is in it only when a request had already scored it and publishes  *)
(* it afterwards, and then at most until the TTL has passed since the      *)
(* deletion.                                                               *)
DeletedServedBriefly ==
  \A r \in Reader : Answered(r) => \A d \in reader[r].deleted :
    d.overlapped /\ reader[r].now < d.at + TTL

(* No post that belongs in the pool is missing for longer than the TTL: an *)
(* edge in the window whose recording ended a TTL before the request is in *)
(* the answer, unless the log has overwritten an entry.                    *)
FreshWithinTTL ==
  ~lost => \A r \in Reader : Answered(r) => \A p \in Post, u \in User :
    LET t == post_interactions[p][u] IN
      (/\ since[p][u] # NoTime /\ since[p][u] + TTL <= reader[r].now
       /\ t >= Monus(reader[r].now, Window)) => p \in reader[r].answer

(* "Chronological circular ring buffer of recent post interactions": the   *)
(* slot that is overwritten next holds the oldest entry.  Deliveries are   *)
(* in order of time in the run that checks this.                           *)
OldestIsOverwritten ==
  recent_active_log.count = Capacity =>
    \A i \in Slots : recent_active_log.buffer[recent_active_log.head].ts
                       <= recent_active_log.buffer[i].ts
=============================================================================
