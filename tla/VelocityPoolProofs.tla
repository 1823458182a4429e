-------------------------- MODULE VelocityPoolProofs --------------------------
(***************************************************************************)
(* What the cold-start pool serves, for any users, posts, readers, ring    *)
(* buffer size and durations that satisfy PoolAssumption, under any        *)
(* interleaving of requests with the consumer and a maintenance pass.      *)
(*                                                                         *)
(* A result travels from the edges through a running request into the      *)
(* cache and from there into answers; the invariant says of each of these  *)
(* places what was true of the edges when its posts were scored, and how   *)
(* far a deletion or a pruning since then can have changed it.             *)
(***************************************************************************)
EXTENDS VelocityPool, FiniteSetTheorems, TLAPS

Logs == [buffer : [Slots -> [ts : {NoTime} \cup Times, post : Post]],
         head : Slots, count : 0..Capacity]

(* Who is in the middle of what.                                           *)
Scoring(r) == reader[r].pc = "score"
Recording == step \in {"active", "log"}
Removing == step \in {"unactive", "unlog", "uncache"}
HasNoEdges(p) == \A u \in User : post_interactions[p][u] = NoTime

Typed ==
  /\ clock \in Times
  /\ post_interactions \in [Post -> [User -> {NoTime} \cup Times]]
  /\ active_recent_posts \in [Post -> {NoTime} \cup Times]
  /\ phase \in {"idle", "active", "log", "cache"}
  /\ cutoff \in Nat /\ cutoff <= Monus(clock, Retention)
  /\ lost \in BOOLEAN
  /\ overlapped \subseteq Post
  /\ since \in [Post -> [User -> Nat]]
  /\ deleted_at \in [Post -> Nat]
  /\ recorded \in [Post -> SUBSET Times]

CacheOK ==
  /\ velocity_cache \in [evaluated_at : {NoTime} \cup Times, candidates : SUBSET Post]
  /\ velocity_cache.evaluated_at <= clock

Calls ==
  /\ step \in {"idle", "active", "log", "unactive", "unlog", "uncache"}
  /\ Recording => /\ call.user \in User /\ call.post \in Post
                  /\ call.ts \in Times /\ call.ts <= clock
                  /\ call.added \in BOOLEAN
  /\ Removing => call.post \in Post /\ call.any \in BOOLEAN

Requests ==
  /\ DOMAIN reader = Reader
  /\ \A r \in Reader :
       /\ reader[r].pc \in {"idle", "collect", "score", "answered"}
       /\ reader[r].pc # "idle" => reader[r].now \in Nat /\ reader[r].now <= clock
       /\ Running(r) => clock <= reader[r].now + RequestLife
       /\ Scoring(r) => reader[r].pids \subseteq Post /\ reader[r].scored \subseteq Post
       /\ Answered(r) => reader[r].answer \subseteq Post

(* The used slots hold entries, and until the log is full the head is the  *)
(* first free slot: compaction moves the entries to slot 0 upwards.        *)
LogOK(log) ==
  /\ log \in Logs
  /\ \A i \in Used(log) : log.buffer[i].ts # NoTime
  /\ log.count < Capacity => log.head = log.count

(* An edge is one of the times its post was ever recorded with.            *)
Edges ==
  \A p \in Post, u \in User :
    /\ post_interactions[p][u] <= clock
    /\ post_interactions[p][u] # NoTime => post_interactions[p][u] \in recorded[p]

(* Whatever is cached or scored was interacted with in the window before   *)
(* the result's own time.                                                  *)
InWindow(times, now) == \E t \in times : t <= now /\ t >= Monus(now, Window)

Windows ==
  /\ \A p \in velocity_cache.candidates : InWindow(recorded[p], velocity_cache.evaluated_at)
  /\ \A r \in Reader : Scoring(r) => \A p \in reader[r].scored : InWindow(recorded[p], reader[r].now)

(* A deleted post, and one whose deletion is under way, has no edges.      *)
Gone ==
  /\ \A p \in Post : deleted_at[p] # NoTime => HasNoEdges(p)
  /\ Removing => HasNoEdges(call.post)

(* A deletion clears the cache last.  Until then a post in a result that   *)
(* can still be served has an edge, or its deletion is bound to reach the  *)
(* cache, or the deletion overlapped the request that scored it.           *)
Expired == velocity_cache.evaluated_at + TTL + RequestLife <= clock
Leaving(p) ==
  \/ step = "unactive" /\ call.any /\ call.post = p
  \/ step \in {"unlog", "uncache"} /\ call.post = p
Held(p, now) == \E u \in User : /\ post_interactions[p][u] # NoTime
                                /\ post_interactions[p][u] >= Monus(now, Window)

Explained(p, now) ==
  IF deleted_at[p] # NoTime THEN p \in overlapped /\ now <= deleted_at[p]
                            ELSE Held(p, now) \/ Leaving(p) \/ p \in overlapped

Deletions ==
  /\ \A p \in velocity_cache.candidates : Expired \/ Explained(p, velocity_cache.evaluated_at)
  /\ \A r \in Reader : Scoring(r) => \A p \in reader[r].scored : Explained(p, reader[r].now)

(* An edge a request at `now` has to find: its recording ended before.     *)
Belongs(p, u, now) ==
  /\ since[p][u] # NoTime /\ since[p][u] < now
  /\ post_interactions[p][u] >= Monus(now, Window)

Logged(log, p, t) == \E i \in Used(log) : log.buffer[i] = Entry(t, p)

(* A recorded edge that is gone was pruned, which takes a clock beyond the *)
(* retention.                                                              *)
Sinces ==
  \A p \in Post, u \in User : since[p][u] # NoTime =>
    /\ post_interactions[p][u] <= since[p][u] /\ since[p][u] <= clock
    /\ post_interactions[p][u] = NoTime => clock > Retention

(* The call under way is about to log the edge it added.                   *)
Pending ==
  Recording /\ call.added =>
    /\ post_interactions[call.post][call.user] \in {NoTime, call.ts}
    /\ post_interactions[call.post][call.user] = NoTime => clock > Retention
    /\ since[call.post][call.user] = NoTime

(* Until an entry is overwritten, every recorded edge the pass has not     *)
(* reached has its entry.                                                  *)
LogCovers ==
  ~lost => \A p \in Post, u \in User :
    (/\ since[p][u] # NoTime /\ post_interactions[p][u] # NoTime
     /\ post_interactions[p][u] >= cutoff) => Logged(recent_active_log, p, post_interactions[p][u])

(* The cache and a running request miss no edge recorded before their own  *)
(* time.                                                                   *)
Covered ==
  ~lost => \A p \in Post, u \in User :
    /\ Belongs(p, u, velocity_cache.evaluated_at) => p \in velocity_cache.candidates
    /\ \A r \in Reader : Scoring(r) /\ Belongs(p, u, reader[r].now)
                           => p \in reader[r].pids \cup reader[r].scored

Inv ==
  /\ Typed /\ CacheOK /\ LogOK(recent_active_log) /\ Calls /\ Requests
  /\ Edges /\ Windows /\ ServedWithinWindow
  /\ Gone /\ Deletions /\ DeletedServedBriefly
  /\ Sinces /\ Pending /\ LogCovers /\ Covered /\ FreshWithinTTL
-----------------------------------------------------------------------------
(* A count is a head until the log is full.                                *)
LEMMA Wraps ==
  ASSUME NEW c \in Nat, NEW k \in Nat \ {0}
  PROVE  c % k \in 0..(k - 1) /\ (c < k => c % k = c)
OBVIOUS

(* The slots of a log are its indices; Rank numbers the slots that are     *)
(* kept from 0 upwards.                                                    *)
LEMMA RankNumbers ==
  ASSUME NEW n \in Nat, NEW S \in SUBSET (0..(n - 1))
  PROVE  /\ IsFiniteSet(S) /\ Cardinality(S) \in Nat /\ Cardinality(S) <= n
         /\ \A i \in S : Rank(S, i) \in 0..(Cardinality(S) - 1)
         /\ \A i, j \in S : Rank(S, i) = Rank(S, j) => i = j
         /\ \A k \in 0..(Cardinality(S) - 1) : \E i \in S : Rank(S, i) = k
<1> DEFINE Below(i) == {j \in S : j < i}
           Positions == 0..(Cardinality(S) - 1)
           f == [i \in S |-> Rank(S, i)]
<1>1. IsFiniteSet(0..(n - 1)) /\ Cardinality(0..(n - 1)) = n
  BY FS_Interval, 0 \in Int, n - 1 \in Int
<1>2. IsFiniteSet(S) /\ Cardinality(S) \in Nat /\ Cardinality(S) <= n
  BY <1>1, FS_Subset, FS_CardinalityType
<1>3. ASSUME NEW T \in SUBSET S, NEW V \in SUBSET T, NEW x \in T, x \notin V
      PROVE  Cardinality(V) \in Nat /\ Cardinality(T) \in Nat /\ Cardinality(V) < Cardinality(T)
  <2>1. IsFiniteSet(T) BY <1>2, FS_Subset
  <2>2. IsFiniteSet(V) /\ Cardinality(V) <= Cardinality(T) /\ Cardinality(V) # Cardinality(T)
    BY <2>1, <1>3, FS_Subset
  <2> QED BY <2>1, <2>2, FS_CardinalityType
<1>4. \A i \in S : Rank(S, i) \in Nat /\ Rank(S, i) < Cardinality(S)
  <2> TAKE i \in S
  <2>1. Below(i) \in SUBSET S /\ i \notin Below(i) BY SMT
  <2>2. Rank(S, i) = Cardinality(Below(i)) BY DEF Rank
  <2> QED BY <1>3, <2>1, <2>2, S \in SUBSET S
<1>5. \A i, j \in S : i < j => Rank(S, i) < Rank(S, j)
  <2> SUFFICES ASSUME NEW i \in S, NEW j \in S, i < j PROVE Rank(S, i) < Rank(S, j) OBVIOUS
  <2>0. \A k \in S : k \in Int OBVIOUS
  <2>a. \A k \in S : k < i => k < j BY <2>0
  <2>b. i \in Int /\ ~(i < i) BY <2>0
  <2>c. Below(j) \in SUBSET S OBVIOUS
  <2>d. Below(i) \in SUBSET Below(j) BY <2>a
  <2>e. i \in Below(j) /\ i \notin Below(i) BY <2>b
  <2>1. Below(j) \in SUBSET S /\ Below(i) \in SUBSET Below(j) /\ i \in Below(j) /\ i \notin Below(i)
    BY <2>c, <2>d, <2>e
  <2>2. Rank(S, i) = Cardinality(Below(i)) /\ Rank(S, j) = Cardinality(Below(j)) BY DEF Rank
  <2> QED BY <1>3, <2>1, <2>2
<1>6. \A i, j \in S : Rank(S, i) = Rank(S, j) => i = j
  <2> SUFFICES ASSUME NEW i \in S, NEW j \in S, Rank(S, i) = Rank(S, j), i # j PROVE FALSE OBVIOUS
  <2>1. i < j \/ j < i BY SMT
  <2> QED BY <1>4, <1>5, <2>1
<1>7. f \in Injection(S, Positions)
  <2>1. f \in [S -> Positions] BY <1>2, <1>4
  <2>2. IsInjective(f) BY <1>6 DEF IsInjective
  <2> QED BY <2>1, <2>2 DEF Injection
<1>8. IsFiniteSet(Positions) /\ Cardinality(Positions) = Cardinality(S)
  <2>1. IsFiniteSet(Positions) /\ Cardinality(Positions) = IF 0 > Cardinality(S) - 1 THEN 0
                                                           ELSE Cardinality(S) - 1 - 0 + 1
    BY <1>2, FS_Interval, 0 \in Int, Cardinality(S) - 1 \in Int
  <2> QED BY <1>2, <2>1
<1>9. f \in Surjection(S, Positions)
  <2> HIDE DEF f, Positions
  <2> QED BY <1>7, <1>8, FS_Injection
<1>10. \A k \in Positions : \E i \in S : f[i] = k
  <2> HIDE DEF f, Positions
  <2> QED BY <1>9 DEF Surjection
<1> QED BY <1>2, <1>4, <1>6, <1>10

(* Compaction keeps the entries of the slots S and no other.               *)
LEMMA RetainKeeps ==
  ASSUME NEW log, LogOK(log), NEW S \in SUBSET Used(log)
  PROVE  /\ LogOK(Retain(log, S))
         /\ \A i \in S : \E k \in Used(Retain(log, S)) : Retain(log, S).buffer[k] = log.buffer[i]
<1> DEFINE after == Retain(log, S)
           slot(k) == CHOOSE i \in S : Rank(S, i) = k
           entry(k) == IF \E i \in S : Rank(S, i) = k THEN log.buffer[slot(k)] ELSE log.buffer[k]
<1>0. /\ log \in Logs /\ log.count \in Nat /\ log.count <= Capacity /\ Capacity \in Nat \ {0}
      /\ log.buffer \in [Slots -> [ts : {NoTime} \cup Times, post : Post]]
      /\ Used(log) = 0..(log.count - 1) /\ Used(log) \subseteq Slots
  BY PoolAssumption DEF LogOK, Logs, Used, Slots
<1>1. CASE log.count = 0
  <2>1. S = {} /\ after = log BY <1>0, <1>1 DEF Retain
  <2> QED BY <2>1
<1>2. CASE log.count # 0
  <2>1. after = [buffer |-> [k \in Slots |-> entry(k)],
                 head |-> Cardinality(S) % Capacity, count |-> Cardinality(S)]
    BY <1>2 DEF Retain
  <2>2. /\ Cardinality(S) \in Nat /\ Cardinality(S) <= log.count
        /\ \A i \in S : Rank(S, i) \in 0..(Cardinality(S) - 1)
        /\ \A i, j \in S : Rank(S, i) = Rank(S, j) => i = j
        /\ \A k \in 0..(Cardinality(S) - 1) : \E i \in S : Rank(S, i) = k
    BY <1>0, RankNumbers
  <2>3. \A k \in 0..(Cardinality(S) - 1) : slot(k) \in S /\ Rank(S, slot(k)) = k /\ k \in Slots
    BY <1>0, <2>2 DEF Slots
  <2>4. \A k \in 0..(Cardinality(S) - 1) : entry(k) = log.buffer[slot(k)]
    BY <2>2
  <2>5. \A i \in S : slot(Rank(S, i)) = i
    BY <2>2, <2>3
  <2>6. \A k \in Slots : entry(k) \in [ts : {NoTime} \cup Times, post : Post]
    <3> TAKE k \in Slots
    <3>1. CASE \E i \in S : Rank(S, i) = k
      <4>1. slot(k) \in S BY <3>1
      <4> QED BY <1>0, <3>1, <4>1
    <3>2. CASE ~\E i \in S : Rank(S, i) = k
      BY <1>0, <3>2
    <3> QED BY <3>1, <3>2
  <2> HIDE DEF slot, entry
  <2>7. Cardinality(S) % Capacity \in Slots
        /\ (Cardinality(S) < Capacity => Cardinality(S) % Capacity = Cardinality(S))
    BY <1>0, <2>2, Wraps DEF Slots
  <2>8. /\ after.buffer = [k \in Slots |-> entry(k)] /\ after.head = Cardinality(S) % Capacity
        /\ after.count = Cardinality(S) /\ after \in Logs
    BY <1>0, <2>1, <2>2, <2>6, <2>7 DEF Logs
  <2> HIDE DEF after
  <2>9. Used(after) = 0..(Cardinality(S) - 1) BY <2>8 DEF Used
  <2>10. \A i \in Used(after) : after.buffer[i].ts # NoTime
    BY <2>3, <2>4, <2>8, <2>9 DEF LogOK
  <2>11. LogOK(after) BY <2>7, <2>8, <2>10 DEF LogOK
  <2>12. \A i \in S : \E k \in Used(after) : after.buffer[k] = log.buffer[i]
    <3> TAKE i \in S
    <3>1. Rank(S, i) \in Used(after) /\ Rank(S, i) \in Slots BY <2>2, <2>3, <2>9
    <3>2. after.buffer[Rank(S, i)] = log.buffer[i] BY <2>4, <2>5, <2>8, <2>9, <3>1
    <3> QED BY <3>1, <3>2
  <2> QED BY <2>11, <2>12 DEF after
<1> QED BY <1>0, <1>1, <1>2

(* The entry pushed is in the log, and the others are unless it was full.  *)
LEMMA PushKeeps ==
  ASSUME NEW log, LogOK(log), NEW t \in Times, NEW p \in Post
  PROVE  /\ LogOK(Push(log, t, p))
         /\ \E k \in Used(Push(log, t, p)) : Push(log, t, p).buffer[k] = Entry(t, p)
         /\ log.count < Capacity =>
              \A i \in Used(log) : i \in Used(Push(log, t, p))
                                   /\ Push(log, t, p).buffer[i] = log.buffer[i]
<1> DEFINE after == Push(log, t, p)
           count == IF log.count < Capacity THEN log.count + 1 ELSE log.count
<1>0. /\ log \in Logs /\ log.count \in Nat /\ log.count <= Capacity /\ Capacity \in Nat \ {0}
      /\ log.buffer \in [Slots -> [ts : {NoTime} \cup Times, post : Post]]
      /\ log.head \in Slots /\ log.head \in Nat /\ log.head < Capacity
      /\ Used(log) = 0..(log.count - 1)
  BY PoolAssumption DEF LogOK, Logs, Used, Slots
<1>1. /\ after.buffer = [log.buffer EXCEPT ![log.head] = Entry(t, p)]
      /\ after.head = (log.head + 1) % Capacity /\ after.count = count
      /\ after = [buffer |-> after.buffer, head |-> after.head, count |-> after.count]
  BY DEF Push
<1>2. Entry(t, p) \in [ts : {NoTime} \cup Times, post : Post] /\ Entry(t, p).ts # NoTime
  BY DEF Entry, Times, NoTime
<1>3. /\ after.buffer \in [Slots -> [ts : {NoTime} \cup Times, post : Post]]
      /\ after.buffer[log.head] = Entry(t, p)
      /\ \A i \in Slots : i # log.head => after.buffer[i] = log.buffer[i]
  BY <1>0, <1>1, <1>2
<1>4. after.head \in 0..(Capacity - 1) /\ (log.head + 1 < Capacity => after.head = log.head + 1)
  <2>1. log.head + 1 \in Nat BY <1>0
  <2>2. (log.head + 1) % Capacity \in 0..(Capacity - 1)
        /\ (log.head + 1 < Capacity => (log.head + 1) % Capacity = log.head + 1)
    <3> DEFINE c == log.head + 1
    <3> HIDE DEF c
    <3>1. c \in Nat BY <2>1 DEF c
    <3>2. c % Capacity \in 0..(Capacity - 1) /\ (c < Capacity => c % Capacity = c)
      BY <3>1, <1>0, Wraps
    <3> QED BY <3>2 DEF c
  <2> QED BY <1>1, <2>2
<1>5. count \in 0..Capacity BY <1>0
<1>6. after \in Logs BY <1>1, <1>3, <1>4, <1>5 DEF Logs, Slots
<1>7. Used(after) = 0..(count - 1) BY <1>1 DEF Used
<1>8. log.head \in Used(after) /\ \A i \in Used(after) : i \in Slots /\ (i # log.head => i \in Used(log))
  BY <1>0, <1>7 DEF LogOK, Slots
<1>9. after.count < Capacity => after.head = after.count
  BY <1>0, <1>1, <1>4 DEF LogOK
<1>10. log.count < Capacity => \A i \in Used(log) : i \in Used(after) /\ i # log.head /\ i \in Slots
  BY <1>0, <1>7 DEF LogOK, Slots
<1> HIDE DEF after, count
<1>11. \A i \in Used(after) : after.buffer[i].ts # NoTime
  BY <1>2, <1>3, <1>8 DEF LogOK
<1>12. LogOK(after) BY <1>6, <1>9, <1>11 DEF LogOK
<1>13. /\ \E k \in Used(after) : after.buffer[k] = Entry(t, p)
       /\ log.count < Capacity => \A i \in Used(log) : i \in Used(after)
                                                        /\ after.buffer[i] = log.buffer[i]
  BY <1>3, <1>8, <1>10
<1> QED BY <1>12, <1>13 DEF after

(* A restored log is well formed, and when the active posts fit it has an  *)
(* entry for each of them.                                                 *)
LEMMA RefilledCovers ==
  ASSUME NEW restored \in [Post -> 0..(BootTime - 1)],
         NEW active \in SUBSET Post, active = {p \in Post : restored[p] # NoTime},
         NEW log \in Refilled(restored, active)
  PROVE  /\ IsFiniteSet(active) /\ Cardinality(active) \in Nat
         /\ LogOK(log)
         /\ Cardinality(active) <= Capacity =>
              \A p \in active : \E k \in Used(log) : log.buffer[k] = Entry(restored[p], p)
<1> DEFINE n == Cardinality(active)
           count == IF n < Capacity THEN n ELSE Capacity
           E == [ts : {NoTime} \cup Times, post : Post]
<1>1. IsFiniteSet(active) /\ n \in Nat
  BY PoolAssumption, FS_Subset, FS_CardinalityType
<1>2. PICK order \in [0..(count - 1) -> active] :
        /\ IsInjective(order)
        /\ log = [buffer |-> [i \in Slots |-> IF i < count THEN Entry(restored[order[i]], order[i])
                                                          ELSE EmptyLog.buffer[i]],
                  head |-> n % Capacity, count |-> count]
  BY DEF Refilled
<1>3. Capacity \in Nat \ {0} /\ count \in 0..Capacity BY <1>1, PoolAssumption
<1>4. n % Capacity \in Slots /\ (n < Capacity => n % Capacity = n)
  BY <1>1, <1>3, Wraps DEF Slots
<1>5. \A i \in Slots : EmptyLog.buffer[i] \in E
  <2>1. (CHOOSE p \in Post : TRUE) \in Post BY PoolAssumption
  <2> QED BY <2>1 DEF EmptyLog, Entry
<1>6. \A p \in active : Entry(restored[p], p) \in E /\ Entry(restored[p], p).ts # NoTime
  <2>1. \A p \in active : restored[p] \in Times
    BY PoolAssumption DEF Times, BootTime, NoTime
  <2> QED BY <2>1 DEF Entry
<1>7. \A i \in 0..(count - 1) : i \in Slots /\ i < count /\ order[i] \in active
  <2> HIDE DEF count
  <2> QED BY <1>3 DEF Slots
<1>8. \A i \in Slots : i < count => i \in 0..(count - 1)
  BY <1>3 DEF Slots
<1> HIDE DEF n, count
<1>9. \A i \in Slots : (IF i < count THEN Entry(restored[order[i]], order[i]) ELSE EmptyLog.buffer[i]) \in E
  BY <1>5, <1>6, <1>7, <1>8
<1>10. /\ log.count = count /\ log.head = n % Capacity /\ log \in Logs
       /\ \A i \in 0..(count - 1) : log.buffer[i] = Entry(restored[order[i]], order[i])
  BY <1>2, <1>3, <1>4, <1>7, <1>9 DEF Logs
<1>11. Used(log) = 0..(count - 1) BY <1>10 DEF Used
<1>12. LogOK(log)
  BY <1>1, <1>3, <1>4, <1>6, <1>7, <1>10, <1>11 DEF LogOK, count
<1>13. ASSUME n <= Capacity, NEW p \in active
       PROVE  \E k \in Used(log) : log.buffer[k] = Entry(restored[p], p)
  <2>1. count = n BY <1>1, <1>3, <1>13 DEF count
  <2>2. order \in Injection(0..(count - 1), active) BY <1>2 DEF Injection
  <2>3. Cardinality(0..(count - 1)) = count
    <3>1. Cardinality(0..(count - 1)) = IF 0 > count - 1 THEN 0 ELSE count - 1 - 0 + 1
      BY <1>3, FS_Interval, 0 \in Int, count - 1 \in Int
    <3> QED BY <1>3, <3>1
  <2>4. order \in Surjection(0..(count - 1), active)
    BY <1>1, <2>1, <2>2, <2>3, FS_Injection DEF n
  <2>5. PICK k \in 0..(count - 1) : order[k] = p BY <2>4 DEF Surjection
  <2> QED BY <1>10, <1>11, <2>5
<1> QED BY <1>1, <1>12, <1>13 DEF n-----------------------------------------------------------------------------
(* The constants' bounds in the form the arithmetic steps use.             *)
LEMMA Bounds ==
  /\ Capacity \in Nat \ {0} /\ TTL \in Nat \ {0} /\ Window \in Nat /\ Retention \in Nat
  /\ RequestLife \in Nat /\ Retention >= Window + TTL + RequestLife
  /\ MaxClock \in Nat /\ MaxClock >= 3 /\ NoTime = 0
BY PoolAssumption DEF BootTime, NoTime

LEMMA EventTimes ==
  ASSUME Typed, NEW lag \in Lags, clock > lag
  PROVE  clock - lag \in Times /\ clock - lag <= clock
BY Bounds, PoolAssumption DEF Typed, Times

LEMMA TypedKept ==
  ASSUME Typed, CacheOK, Calls, Requests, Next
  PROVE  Typed'
<1> USE Bounds
<1>0. Times \subseteq Nat /\ NoTime \in Nat /\ clock \in Nat BY DEF Typed, Times
<1>1. ASSUME UNCHANGED <<clock, post_interactions, active_recent_posts, phase, cutoff, lost,
                         overlapped, since, deleted_at, recorded>>
      PROVE  Typed'
  BY <1>1 DEF Typed
<1>2. CASE Tick
  <2>1. clock' \in Times BY <1>2 DEF Tick, Typed, Times
  <2>2. cutoff <= Monus(clock', Retention) BY <1>0, <1>2 DEF Tick, Typed, Monus
  <2> QED BY <1>2, <2>1, <2>2 DEF Tick, Typed, pool, pruner, ghosts
<1>3. ASSUME NEW u \in User, NEW p \in Post, NEW lag \in Lags, clock > lag,
             RecordReverse(u, p, clock - lag)
      PROVE  Typed'
  <2> DEFINE t == clock - lag
  <2>1. t \in Times BY <1>3, EventTimes
  <2> HIDE DEF t
  <2>2. RecordReverse(u, p, t) BY <1>3 DEF t
  <2>3. post_interactions' \in [Post -> [User -> {NoTime} \cup Times]]
    BY <2>1, <2>2 DEF RecordReverse, Typed
  <2>4. since' \in [Post -> [User -> Nat]]
    BY <1>0, <2>2 DEF RecordReverse, Typed
  <2>5. deleted_at' \in [Post -> Nat] /\ recorded' \in [Post -> SUBSET Times] /\ overlapped' \subseteq Post
    BY <1>0, <2>1, <2>2 DEF RecordReverse, Typed
  <2> QED BY <2>2, <2>3, <2>4, <2>5 DEF RecordReverse, Typed, pruner
<1>4. CASE RecordActive
  <2>1. call.post \in Post /\ call.ts \in Times BY <1>4 DEF RecordActive, Calls, Recording
  <2>2. active_recent_posts' \in [Post -> {NoTime} \cup Times]
    BY <1>4, <2>1 DEF RecordActive, Typed, Larger
  <2> QED BY <1>4, <2>2 DEF RecordActive, Typed, pruner, ghosts
<1>5. CASE RecordLog
  <2>1. call.post \in Post /\ call.user \in User BY <1>5 DEF RecordLog, Calls, Recording
  <2>2. since' \in [Post -> [User -> Nat]] BY <1>0, <1>5, <2>1 DEF RecordLog, Typed
  <2>3. lost' \in BOOLEAN BY <1>5 DEF RecordLog, Typed
  <2> QED BY <1>5, <2>2, <2>3 DEF RecordLog, Typed, pruner
<1>6. ASSUME NEW p \in Post, RemoveReverse(p)
      PROVE  Typed'
  <2>1. post_interactions' \in [Post -> [User -> {NoTime} \cup Times]]
    BY <1>6 DEF RemoveReverse, Typed
  <2>2. since' \in [Post -> [User -> Nat]] BY <1>0, <1>6 DEF RemoveReverse, Typed
  <2> QED BY <1>6, <2>1, <2>2 DEF RemoveReverse, Typed, pruner
<1>7. ASSUME NEW p \in Post, Deleted(p)
      PROVE  deleted_at' \in [Post -> Nat] /\ overlapped' \subseteq Post
  BY <1>0, <1>7 DEF Deleted, Typed
<1>8. CASE RemoveActive
  <2>1. call.post \in Post BY <1>8 DEF RemoveActive, Calls, Removing
  <2>2. active_recent_posts' \in [Post -> {NoTime} \cup Times] BY <1>8 DEF RemoveActive, Typed
  <2>3. deleted_at' \in [Post -> Nat] /\ overlapped' \subseteq Post
    BY <1>7, <1>8, <2>1 DEF RemoveActive, Typed
  <2> QED BY <1>8, <2>2, <2>3 DEF RemoveActive, Typed, pruner
<1>9. CASE RemoveCache
  <2>1. call.post \in Post BY <1>9 DEF RemoveCache, Calls, Removing
  <2>2. deleted_at' \in [Post -> Nat] /\ overlapped' \subseteq Post
    BY <1>7, <1>9, <2>1 DEF RemoveCache
  <2> QED BY <1>9, <2>2 DEF RemoveCache, Typed, pruner
<1>10. CASE PruneReverse
  <2>1. cutoff' \in Nat /\ cutoff' <= Monus(clock', Retention)
    BY <1>0, <1>10 DEF PruneReverse, Monus
  <2>2. post_interactions' \in [Post -> [User -> {NoTime} \cup Times]]
    BY <1>10 DEF PruneReverse, Typed
  <2> QED BY <1>10, <2>1, <2>2 DEF PruneReverse, Typed, ghosts
<1>11. CASE PruneActive
  <2>1. active_recent_posts' \in [Post -> {NoTime} \cup Times] BY <1>11 DEF PruneActive, Typed
  <2> QED BY <1>11, <2>1 DEF PruneActive, Typed, ghosts
<1>12. CASE PruneLog \/ PruneCache
  BY <1>12 DEF PruneLog, PruneCache, Typed, ghosts
<1>13. CASE RemoveLog
  BY <1>1, <1>13 DEF RemoveLog, pruner, ghosts
<1>14. ASSUME NEW r \in Reader,
              \/ Collect(r) \/ Publish(r) \/ \E p \in Post : Score(r, p)
              \/ \E now \in Monus(clock, RequestLife)..clock : CheckCache(r, now)
       PROVE  Typed'
  BY <1>1, <1>14 DEF CheckCache, Collect, Score, Publish, pool, pruner, ghosts
<1> QED BY <1>2, <1>3, <1>4, <1>5, <1>6, <1>8, <1>9, <1>10, <1>11, <1>12, <1>13, <1>14 DEF Next

LEMMA LogKept ==
  ASSUME Typed, Calls, LogOK(recent_active_log), Next
  PROVE  LogOK(recent_active_log')
<1>1. CASE UNCHANGED recent_active_log
  BY <1>1
<1>2. CASE RecordLog
  <2>1. call.post \in Post /\ call.ts \in Times BY <1>2 DEF RecordLog, Calls, Recording
  <2> QED BY <1>2, <2>1, PushKeeps DEF RecordLog
<1>3. CASE RemoveLog
  BY <1>3, RetainKeeps DEF RemoveLog
<1>4. CASE PruneLog
  BY <1>4, RetainKeeps DEF PruneLog
<1>5. \/ UNCHANGED recent_active_log \/ RecordLog \/ RemoveLog \/ PruneLog
  BY DEF Next, Tick, RecordReverse, RemoveReverse, RecordActive, RemoveActive, RemoveCache,
         PruneReverse, PruneActive, PruneCache, CheckCache, Collect, Publish, Score, pool
<1> QED BY <1>1, <1>2, <1>3, <1>4, <1>5

(* Every action but a reader's leaves the readers alone, and a reader's    *)
(* changes nothing but its own request and, when it publishes, the cache.  *)
LEMMA WhoMoves ==
  ASSUME Next
  PROVE  \/ UNCHANGED reader /\ (UNCHANGED velocity_cache \/ velocity_cache' = NoCache)
         \/ \E r \in Reader :
              /\ \/ \E now \in Monus(clock, RequestLife)..clock : CheckCache(r, now)
                 \/ Collect(r) \/ Publish(r) \/ \E p \in Post : Score(r, p)
              /\ UNCHANGED <<clock, post_interactions, active_recent_posts, recent_active_log,
                             writer, pruner, ghosts>>
BY DEF Next, Tick, RecordReverse, RecordActive, RecordLog, RemoveReverse, RemoveActive, RemoveLog,
       RemoveCache, PruneReverse, PruneActive, PruneLog, PruneCache, CheckCache, Collect, Publish,
       Score, pool

LEMMA CacheKept ==
  ASSUME Typed, CacheOK, Requests, Next
  PROVE  CacheOK'
<1> USE Bounds
<1>0. Times \subseteq Nat /\ clock \in Nat /\ velocity_cache.evaluated_at \in Nat
  BY DEF Typed, CacheOK, Times
<1>1. clock' >= clock /\ clock' \in Nat
  BY <1>0 DEF Next, Tick, RecordReverse, RecordActive, RecordLog, RemoveReverse, RemoveActive,
              RemoveLog, RemoveCache, PruneReverse, PruneActive, PruneLog, PruneCache, CheckCache,
              Collect, Publish, Score
<1>2. CASE UNCHANGED velocity_cache
  BY <1>0, <1>1, <1>2 DEF CacheOK
<1>3. CASE velocity_cache' = NoCache
  <2>1. NoCache \in [evaluated_at : {NoTime} \cup Times, candidates : SUBSET Post]
        /\ NoCache.evaluated_at = 0
    BY DEF NoCache
  <2> QED BY <1>1, <1>3, <2>1 DEF CacheOK
<1>4. ASSUME NEW r \in Reader, Publish(r), reader[r].scored # {}
      PROVE  CacheOK'
  <2>1. /\ reader[r].now \in Nat /\ reader[r].now <= clock /\ reader[r].scored \subseteq Post
    BY <1>4 DEF Publish, Requests, Scoring
  <2>2. reader[r].now \in {NoTime} \cup Times BY <2>1, <1>0 DEF Typed, Times
  <2>3. velocity_cache' = [evaluated_at |-> reader[r].now, candidates |-> reader[r].scored]
        /\ clock' = clock
    BY <1>4 DEF Publish
  <2> QED BY <2>1, <2>2, <2>3 DEF CacheOK
<1>5. \/ UNCHANGED velocity_cache \/ velocity_cache' = NoCache
      \/ \E r \in Reader : Publish(r) /\ reader[r].scored # {}
  BY DEF Next, Tick, RecordReverse, RecordActive, RecordLog, RemoveReverse, RemoveActive, RemoveLog,
         RemoveCache, PruneReverse, PruneActive, PruneLog, PruneCache, CheckCache, Collect, Publish,
         Score, pool
<1> QED BY <1>2, <1>3, <1>4, <1>5

LEMMA CallsKept ==
  ASSUME Typed, Calls, Next
  PROVE  Calls'
<1> USE Bounds
<1>0. Times \subseteq Nat /\ clock \in Nat BY DEF Typed, Times
<1>1. CASE UNCHANGED <<step, call>> /\ clock' >= clock /\ clock' \in Nat
  <2>1. Recording' = Recording /\ Removing' = Removing BY <1>1 DEF Recording, Removing
  <2>2. Recording => call.ts <= clock'
    <3>1. Recording => call.ts \in Nat /\ call.ts <= clock BY <1>0 DEF Calls
    <3> QED BY <1>0, <1>1, <3>1
  <2> QED BY <1>1, <2>1, <2>2 DEF Calls
<1>2. ASSUME NEW u \in User, NEW p \in Post, NEW lag \in Lags, clock > lag,
             RecordReverse(u, p, clock - lag)
      PROVE  Calls'
  <2> DEFINE t == clock - lag
             added == post_interactions[p][u] = NoTime
  <2>1. t \in Times /\ t <= clock BY <1>2, EventTimes
  <2> HIDE DEF t
  <2>2. RecordReverse(u, p, t) BY <1>2 DEF t
  <2>3. step' = "active" /\ clock' = clock
        /\ call' = [op |-> "record", user |-> u, post |-> p, ts |-> t, added |-> added]
    BY <2>2 DEF RecordReverse
  <2>4. added \in BOOLEAN OBVIOUS
  <2> HIDE DEF added
  <2> QED BY <2>1, <2>3, <2>4 DEF Calls, Recording, Removing
<1>3. CASE RecordActive
  BY <1>3 DEF RecordActive, Calls, Recording, Removing
<1>4. CASE step' = "idle"
  BY <1>4 DEF Calls, Recording, Removing
<1>5. ASSUME NEW p \in Post, RemoveReverse(p)
      PROVE  Calls'
  <2> DEFINE any == \E u \in User : post_interactions[p][u] # NoTime
  <2>1. step' = "unactive" /\ call' = [op |-> "remove", post |-> p, any |-> any]
    BY <1>5 DEF RemoveReverse
  <2>2. any \in BOOLEAN OBVIOUS
  <2> HIDE DEF any
  <2> QED BY <2>1, <2>2 DEF Calls, Recording, Removing
<1>6. CASE RemoveActive
  BY <1>4, <1>6 DEF RemoveActive, Calls, Recording, Removing
<1>7. CASE RemoveLog
  BY <1>7 DEF RemoveLog, Calls, Recording, Removing
<1>8. CASE RecordLog \/ RemoveCache
  BY <1>4, <1>8 DEF RecordLog, RemoveCache
<1>9. CASE Tick
  BY <1>0, <1>1, <1>9 DEF Tick, writer
<1>10. CASE PruneReverse \/ PruneActive \/ PruneLog \/ PruneCache
  BY <1>0, <1>1, <1>10 DEF PruneReverse, PruneActive, PruneLog, PruneCache, writer
<1>11. ASSUME NEW r \in Reader,
              \/ Collect(r) \/ Publish(r) \/ \E p \in Post : Score(r, p)
              \/ \E now \in Monus(clock, RequestLife)..clock : CheckCache(r, now)
       PROVE  Calls'
  BY <1>0, <1>1, <1>11 DEF CheckCache, Collect, Score, Publish, writer
<1> QED BY <1>2, <1>3, <1>5, <1>6, <1>7, <1>8, <1>9, <1>10, <1>11 DEF Next

LEMMA RequestsKept ==
  ASSUME Typed, CacheOK, LogOK(recent_active_log), Requests, Next
  PROVE  Requests'
<1> USE Bounds
<1>0. Times \subseteq Nat /\ clock \in Nat BY DEF Typed, Times
<1>1. CASE UNCHANGED <<reader, clock>>
  BY <1>1 DEF Requests, Running, Scoring, Answered
<1>2. CASE Tick
  <2>1. clock' = clock + 1 /\ reader' = reader
        /\ \A r \in Reader : Running(r) => clock < reader[r].now + RequestLife
    BY <1>2 DEF Tick
  <2>2. \A r \in Reader : reader[r].pc # "idle" => reader[r].now \in Nat /\ reader[r].now <= clock'
    BY <1>0, <2>1 DEF Requests
  <2>3. \A r \in Reader : Running(r) => clock' <= reader[r].now + RequestLife
    BY <1>0, <2>1, <2>2 DEF Running
  <2> QED BY <2>1, <2>2, <2>3 DEF Requests, Running, Scoring, Answered
<1>3. ASSUME NEW r \in Reader, NEW v, clock' = clock, reader' = [reader EXCEPT ![r] = v],
             v.pc \in {"collect", "score", "answered"}, v.now \in Nat, v.now <= clock,
             v.pc # "answered" => clock <= v.now + RequestLife,
             v.pc = "score" => v.pids \subseteq Post /\ v.scored \subseteq Post,
             v.pc = "answered" => v.answer \subseteq Post
      PROVE  Requests'
  <2>1. DOMAIN reader' = Reader /\ reader'[r] = v /\ \A q \in Reader : q # r => reader'[q] = reader[q]
    BY <1>3 DEF Requests
  <2> QED BY <1>3, <2>1 DEF Requests, Running, Scoring, Answered
<1>4. ASSUME NEW r \in Reader, NEW now \in Monus(clock, RequestLife)..clock, CheckCache(r, now)
      PROVE  Requests'
  <2>1. now \in Nat /\ now <= clock /\ clock <= now + RequestLife BY <1>0 DEF Monus
  <2>2. CASE CacheValidAt(now)
    <3> DEFINE D == {[at |-> deleted_at[p], overlapped |-> p \in overlapped] :
                       p \in {q \in velocity_cache.candidates : deleted_at[q] # NoTime}}
               v == [pc |-> "answered", now |-> now, answer |-> velocity_cache.candidates, deleted |-> D]
    <3>1. reader' = [reader EXCEPT ![r] = v] /\ clock' = clock
      BY <1>4, <2>2 DEF CheckCache, Answer
    <3> HIDE DEF D
    <3>2. v.pc = "answered" /\ v.now = now /\ v.answer \subseteq Post BY DEF CacheOK
    <3> HIDE DEF v
    <3> QED BY <1>3, <2>1, <3>1, <3>2
  <2>3. CASE ~CacheValidAt(now)
    <3> DEFINE v == [pc |-> "collect", now |-> now]
    <3>1. reader' = [reader EXCEPT ![r] = v] /\ clock' = clock
      BY <1>4, <2>3 DEF CheckCache
    <3>2. v.pc = "collect" /\ v.now = now OBVIOUS
    <3> HIDE DEF v
    <3> QED BY <1>3, <2>1, <3>1, <3>2
  <2> QED BY <2>2, <2>3
<1>5. ASSUME NEW r \in Reader, Collect(r)
      PROVE  Requests'
  <2>1. /\ reader[r].now \in Nat /\ reader[r].now <= clock /\ clock <= reader[r].now + RequestLife
    BY <1>5 DEF Collect, Requests, Running
  <2>2. \A a, b : CollectCandidates(recent_active_log, a, b) \subseteq Post
    BY DEF CollectCandidates, LogOK, Logs, Used, Slots
  <2>3. PICK pids \in SUBSET Post :
          reader' = [reader EXCEPT ![r] = [pc |-> "score", now |-> reader[r].now,
                                           pids |-> pids, scored |-> {}]]
    BY <1>5, <2>2 DEF Collect
  <2> QED BY <1>3, <1>5, <2>1, <2>3 DEF Collect
<1>6. ASSUME NEW r \in Reader, NEW p \in Post, Score(r, p)
      PROVE  Requests'
  <2>1. /\ reader[r].now \in Nat /\ reader[r].now <= clock /\ clock <= reader[r].now + RequestLife
        /\ reader[r].pids \subseteq Post /\ reader[r].scored \subseteq Post
    BY <1>6 DEF Score, Requests, Running, Scoring
  <2>2. PICK scored \in SUBSET Post :
          reader' = [reader EXCEPT ![r] = [pc |-> "score", now |-> reader[r].now,
                                           pids |-> reader[r].pids \ {p}, scored |-> scored]]
    BY <1>6, <2>1 DEF Score
  <2> QED BY <1>3, <1>6, <2>1, <2>2 DEF Score
<1>7. ASSUME NEW r \in Reader, Publish(r)
      PROVE  Requests'
  <2>1. reader[r].now \in Nat /\ reader[r].now <= clock /\ reader[r].scored \subseteq Post
    BY <1>7 DEF Publish, Requests, Scoring
  <2> QED BY <1>3, <1>7, <2>1 DEF Publish, Answer
<1> QED BY <1>1, <1>2, <1>4, <1>5, <1>6, <1>7, WhoMoves
        DEF Next, RecordReverse, RecordActive, RecordLog, RemoveReverse, RemoveActive, RemoveLog,
            RemoveCache, PruneReverse, PruneActive, PruneLog, PruneCache

-----------------------------------------------------------------------------
(* What a reader's actions do to its request, by cases.                    *)
Others(r) == DOMAIN reader' = Reader /\ \A q \in Reader : q # r => reader'[q] = reader[q]

Answers(r, now, S) ==
  /\ reader'[r].pc = "answered" /\ reader'[r].now = now /\ reader'[r].answer = S
  /\ \A d \in reader'[r].deleted : \E p \in S :
       deleted_at[p] # NoTime /\ d.at = deleted_at[p] /\ (d.overlapped <=> p \in overlapped)

LEMMA AnswerDoes ==
  ASSUME Requests, NEW r \in Reader, NEW now, NEW S, Answer(r, now, S)
  PROVE  Others(r) /\ Answers(r, now, S)
<1> DEFINE D == {[at |-> deleted_at[p], overlapped |-> p \in overlapped] :
                   p \in {q \in S : deleted_at[q] # NoTime}}
           v == [pc |-> "answered", now |-> now, answer |-> S, deleted |-> D]
<1>1. reader' = [reader EXCEPT ![r] = v] BY DEF Answer
<1>2. \A d \in D : \E p \in S :
        deleted_at[p] # NoTime /\ d.at = deleted_at[p] /\ (d.overlapped <=> p \in overlapped)
  <2> TAKE d \in D
  <2>1. PICK p \in {q \in S : deleted_at[q] # NoTime} :
          d = [at |-> deleted_at[p], overlapped |-> p \in overlapped]
    OBVIOUS
  <2>2. d.at = deleted_at[p] BY <2>1
  <2>3. d.overlapped = (p \in overlapped) BY <2>1, Zenon
  <2> QED BY <2>1, <2>2, <2>3
<1> HIDE DEF D
<1>3. v.pc = "answered" /\ v.now = now /\ v.answer = S /\ v.deleted = D OBVIOUS
<1> HIDE DEF v
<1>4. reader'[r] = v /\ Others(r) BY <1>1 DEF Requests, Others
<1> QED BY <1>2, <1>3, <1>4 DEF Answers

LEMMA CheckCacheDoes ==
  ASSUME Requests, NEW r \in Reader, NEW now, CheckCache(r, now)
  PROVE  /\ Others(r) /\ ~Answered(r) /\ ~Scoring(r) /\ velocity_cache' = velocity_cache
         /\ \/ reader'[r].pc = "collect"
            \/ CacheValidAt(now) /\ Answers(r, now, velocity_cache.candidates)
<1>1. ~Answered(r) /\ ~Scoring(r) /\ velocity_cache' = velocity_cache
  BY DEF CheckCache, Answered, Scoring, pool
<1>2. CASE CacheValidAt(now)
  BY <1>1, <1>2, AnswerDoes DEF CheckCache
<1>3. CASE ~CacheValidAt(now)
  BY <1>1, <1>3 DEF CheckCache, Others, Requests
<1> QED BY <1>2, <1>3

LEMMA CollectDoes ==
  ASSUME Requests, NEW r \in Reader, Collect(r)
  PROVE  /\ Others(r) /\ ~Answered(r) /\ ~Scoring(r) /\ velocity_cache' = velocity_cache
         /\ reader'[r].pc = "score" /\ reader'[r].now = reader[r].now
         /\ reader'[r].scored = {}
         /\ reader'[r].pids =
              IF recent_active_log.count = 0
              THEN {p \in Post : /\ active_recent_posts[p] # NoTime
                                 /\ active_recent_posts[p] >= Monus(reader[r].now, Window)
                                 /\ active_recent_posts[p] <= reader[r].now}
              ELSE CollectCandidates(recent_active_log, Monus(reader[r].now, Window), reader[r].now)
<1> DEFINE pids == IF recent_active_log.count = 0
                   THEN {p \in Post : /\ active_recent_posts[p] # NoTime
                                      /\ active_recent_posts[p] >= Monus(reader[r].now, Window)
                                      /\ active_recent_posts[p] <= reader[r].now}
                   ELSE CollectCandidates(recent_active_log, Monus(reader[r].now, Window), reader[r].now)
           v == [pc |-> "score", now |-> reader[r].now, pids |-> pids, scored |-> {}]
<1>1. /\ reader[r].pc = "collect" /\ reader' = [reader EXCEPT ![r] = v]
      /\ velocity_cache' = velocity_cache
  BY DEF Collect, pool
<1> HIDE DEF pids
<1>2. v.pc = "score" /\ v.now = reader[r].now /\ v.scored = {} /\ v.pids = pids OBVIOUS
<1> HIDE DEF v
<1>3. reader'[r] = v /\ Others(r) BY <1>1 DEF Requests, Others
<1> QED BY <1>1, <1>2, <1>3 DEF Answered, Scoring, pids

LEMMA ScoreDoes ==
  ASSUME Requests, NEW r \in Reader, NEW p \in Post, Score(r, p)
  PROVE  /\ Others(r) /\ ~Answered(r) /\ Scoring(r) /\ velocity_cache' = velocity_cache
         /\ reader'[r].pc = "score" /\ reader'[r].now = reader[r].now
         /\ reader'[r].pids = reader[r].pids \ {p}
         /\ \/ reader'[r].scored = reader[r].scored
               /\ ~\E u \in User : /\ post_interactions[p][u] # NoTime
                                   /\ post_interactions[p][u] >= Monus(reader[r].now, Window)
                                   /\ post_interactions[p][u] <= reader[r].now
            \/ reader'[r].scored = reader[r].scored \cup {p}
               /\ \E u \in User : /\ post_interactions[p][u] # NoTime
                                  /\ post_interactions[p][u] >= Monus(reader[r].now, Window)
                                  /\ post_interactions[p][u] <= reader[r].now
<1> DEFINE counts == \E u \in User : /\ post_interactions[p][u] # NoTime
                                     /\ post_interactions[p][u] >= Monus(reader[r].now, Window)
                                     /\ post_interactions[p][u] <= reader[r].now
           scored == reader[r].scored \cup (IF counts THEN {p} ELSE {})
           v == [pc |-> "score", now |-> reader[r].now, pids |-> reader[r].pids \ {p}, scored |-> scored]
<1>1. /\ reader[r].pc = "score" /\ reader' = [reader EXCEPT ![r] = v]
      /\ velocity_cache' = velocity_cache
  BY DEF Score, pool
<1>2. \/ ~counts /\ scored = reader[r].scored
      \/ counts /\ scored = reader[r].scored \cup {p}
  <2> HIDE DEF counts
  <2> QED BY SMT
<1> HIDE DEF scored, counts
<1>3. v.pc = "score" /\ v.now = reader[r].now /\ v.pids = reader[r].pids \ {p} /\ v.scored = scored
  OBVIOUS
<1> HIDE DEF v
<1>4. reader'[r] = v /\ Others(r) BY <1>1 DEF Requests, Others
<1> QED BY <1>1, <1>2, <1>3, <1>4 DEF Answered, Scoring, counts

LEMMA PublishDoes ==
  ASSUME Requests, NEW r \in Reader, Publish(r)
  PROVE  /\ Others(r) /\ ~Answered(r) /\ Scoring(r) /\ reader[r].pids = {}
         /\ Answers(r, reader[r].now, reader[r].scored)
         /\ velocity_cache' = IF reader[r].scored = {} THEN velocity_cache
                              ELSE [evaluated_at |-> reader[r].now, candidates |-> reader[r].scored]
BY AnswerDoes DEF Publish, Answered, Scoring

(* What the calls and the pass do to the edges, post by post and user by   *)
(* user.                                                                   *)
LEMMA RecordReverseDoes ==
  ASSUME Typed, NEW u \in User, NEW p \in Post, NEW t, RecordReverse(u, p, t)
  PROVE  /\ \A q \in Post, v \in User :
              /\ post_interactions'[q][v] =
                   IF q = p /\ v = u /\ post_interactions[q][v] = NoTime THEN t
                                                                         ELSE post_interactions[q][v]
              /\ since'[q][v] =
                   IF q = p /\ v = u /\ post_interactions[q][v] = NoTime THEN NoTime ELSE since[q][v]
         /\ \A q \in Post : deleted_at'[q] = IF q = p THEN NoTime ELSE deleted_at[q]
         /\ t \in recorded'[p] /\ \A q \in Post : recorded[q] \subseteq recorded'[q]
         /\ step = "idle" /\ step' = "active"
         /\ call'.user = u /\ call'.post = p /\ call'.ts = t
         /\ (call'.added <=> post_interactions[p][u] = NoTime)
<1> DEFINE added == post_interactions[p][u] = NoTime
<1>1. \A q \in Post, v \in User :
        post_interactions'[q][v] =
          IF q = p /\ v = u /\ post_interactions[q][v] = NoTime THEN t ELSE post_interactions[q][v]
  BY DEF RecordReverse, Typed
<1>2. \A q \in Post, v \in User :
        since'[q][v] =
          IF q = p /\ v = u /\ post_interactions[q][v] = NoTime THEN NoTime ELSE since[q][v]
  BY DEF RecordReverse, Typed
<1>3. /\ \A q \in Post : deleted_at'[q] = IF q = p THEN NoTime ELSE deleted_at[q]
      /\ t \in recorded'[p] /\ \A q \in Post : recorded[q] \subseteq recorded'[q]
  BY DEF RecordReverse, Typed
<1>4. step = "idle" /\ step' = "active"
      /\ call' = [op |-> "record", user |-> u, post |-> p, ts |-> t, added |-> added]
  BY DEF RecordReverse
<1>5. call'.added = added BY <1>4, Zenon
<1> HIDE DEF added
<1>6. call'.user = u /\ call'.post = p /\ call'.ts = t BY <1>4
<1>7. call'.added <=> post_interactions[p][u] = NoTime BY <1>5 DEF added
<1> QED BY <1>1, <1>2, <1>3, <1>4, <1>6, <1>7

LEMMA RemoveReverseDoes ==
  ASSUME Typed, NEW p \in Post, RemoveReverse(p)
  PROVE  /\ \A q \in Post, v \in User :
              /\ post_interactions'[q][v] = IF q = p THEN NoTime ELSE post_interactions[q][v]
              /\ since'[q][v] = IF q = p THEN NoTime ELSE since[q][v]
         /\ step = "idle" /\ step' = "unactive" /\ call'.post = p
         /\ (call'.any <=> \E u \in User : post_interactions[p][u] # NoTime)
<1> DEFINE any == \E u \in User : post_interactions[p][u] # NoTime
<1>1. \A q \in Post, v \in User :
        post_interactions'[q][v] = IF q = p THEN NoTime ELSE post_interactions[q][v]
  BY DEF RemoveReverse, Typed
<1>2. \A q \in Post, v \in User : since'[q][v] = IF q = p THEN NoTime ELSE since[q][v]
  BY DEF RemoveReverse, Typed
<1>3. step = "idle" /\ step' = "unactive" /\ call' = [op |-> "remove", post |-> p, any |-> any]
  BY DEF RemoveReverse
<1>4. call'.any = any BY <1>3, Zenon
<1> HIDE DEF any
<1>5. call'.post = p BY <1>3
<1> QED BY <1>1, <1>2, <1>3, <1>4, <1>5 DEF any

LEMMA PruneReverseDoes ==
  ASSUME PruneReverse
  PROVE  /\ \A q \in Post, v \in User :
              post_interactions'[q][v] = IF post_interactions[q][v] >= cutoff'
                                         THEN post_interactions[q][v] ELSE NoTime
         /\ cutoff' = Monus(clock, Retention)
BY DEF PruneReverse

LEMMA DeletedDoes ==
  ASSUME Typed, NEW p \in Post, Deleted(p)
  PROVE  /\ \A q \in Post :
              deleted_at'[q] = IF q = p /\ deleted_at[q] = NoTime THEN clock ELSE deleted_at[q]
         /\ overlapped \subseteq overlapped'
         /\ \A r \in Reader : Scoring(r) /\ p \in reader[r].scored => p \in overlapped'
BY DEF Deleted, Typed, Scoring

(* Who touches the edges.                                                  *)
LEMMA EdgeSteps ==
  ASSUME Next
  PROVE  \/ UNCHANGED post_interactions
         \/ \E u \in User, p \in Post, lag \in Lags :
              clock > lag /\ RecordReverse(u, p, clock - lag)
         \/ \E p \in Post : RemoveReverse(p)
         \/ PruneReverse
BY DEF Next, Tick, RecordActive, RecordLog, RemoveActive, RemoveLog, RemoveCache, PruneActive,
       PruneLog, PruneCache, CheckCache, Collect, Publish, Score, pool

LEMMA GhostSteps ==
  ASSUME Next
  PROVE  /\ clock' = clock \/ Tick
         /\ \/ UNCHANGED recorded
            \/ \E u \in User, p \in Post, lag \in Lags :
                 clock > lag /\ RecordReverse(u, p, clock - lag)
         /\ \/ UNCHANGED since
            \/ \E u \in User, p \in Post, lag \in Lags :
                 clock > lag /\ RecordReverse(u, p, clock - lag)
            \/ RecordLog
            \/ \E p \in Post : RemoveReverse(p)
<1>1. clock' = clock \/ Tick
  BY DEF Next, RecordReverse, RecordActive, RecordLog, RemoveReverse, RemoveActive, RemoveLog,
         RemoveCache, PruneReverse, PruneActive, PruneLog, PruneCache, CheckCache, Collect, Publish, Score
<1>2. \/ UNCHANGED <<recorded, since>>
      \/ \E u \in User, p \in Post, lag \in Lags :
           clock > lag /\ RecordReverse(u, p, clock - lag)
      \/ RecordLog /\ UNCHANGED recorded
      \/ \E p \in Post : RemoveReverse(p) /\ UNCHANGED recorded
  BY DEF Next, Tick, RecordActive, RecordLog, RemoveReverse, RemoveActive, RemoveLog, RemoveCache,
         PruneReverse, PruneActive, PruneLog, PruneCache, CheckCache, Collect, Publish, Score, ghosts
<1> QED BY <1>1, <1>2

LEMMA ClockGrows ==
  ASSUME Typed, Next
  PROVE  clock \in Nat /\ clock' \in Nat /\ clock' >= clock
<1>1. clock \in Nat BY DEF Typed, Times
<1> QED BY <1>1, GhostSteps DEF Tick

LEMMA RecordedGrows ==
  ASSUME Typed, Next, NEW p \in Post
  PROVE  recorded[p] \subseteq recorded'[p]
<1>1. ASSUME NEW u \in User, NEW q \in Post, NEW t, RecordReverse(u, q, t)
      PROVE  recorded[p] \subseteq recorded'[p]
  BY <1>1, RecordReverseDoes
<1> QED BY <1>1, GhostSteps

LEMMA EdgesKept ==
  ASSUME Typed, Edges, Next
  PROVE  Edges'
<1> USE Bounds
<1>0. /\ clock \in Nat /\ clock' \in Nat /\ clock' >= clock
      /\ \A p \in Post, u \in User : post_interactions[p][u] \in Nat
  BY ClockGrows DEF Typed, Times
<1>1. \A p \in Post : recorded[p] \subseteq recorded'[p] BY RecordedGrows
<1>2. CASE UNCHANGED post_interactions
  BY <1>0, <1>1, <1>2 DEF Edges
<1>3. ASSUME NEW u \in User, NEW p \in Post, NEW lag \in Lags, clock > lag,
             RecordReverse(u, p, clock - lag)
      PROVE  Edges'
  <2> DEFINE t == clock - lag
  <2>1. t \in Nat /\ t <= clock BY <1>3, EventTimes DEF Times
  <2> HIDE DEF t
  <2>2. RecordReverse(u, p, t) BY <1>3 DEF t
  <2>3. \A q \in Post, v \in User :
          \/ post_interactions'[q][v] = post_interactions[q][v]
          \/ post_interactions'[q][v] = t /\ q = p
    BY <2>2, RecordReverseDoes
  <2>4. t \in recorded'[p] BY <2>2, RecordReverseDoes
  <2>5. \A q \in Post, v \in User :
          /\ post_interactions'[q][v] <= clock'
          /\ post_interactions'[q][v] # NoTime => post_interactions'[q][v] \in recorded'[q]
    <3> TAKE q \in Post, v \in User
    <3>1. post_interactions[q][v] <= clock
          /\ (post_interactions[q][v] # NoTime => post_interactions[q][v] \in recorded'[q])
      BY <1>1 DEF Edges
    <3> QED BY <1>0, <2>1, <2>3, <2>4, <3>1
  <2> QED BY <2>5 DEF Edges
<1>4. ASSUME NEW p \in Post, RemoveReverse(p)
      PROVE  Edges'
  <2>1. \A q \in Post, v \in User :
          post_interactions'[q][v] = post_interactions[q][v] \/ post_interactions'[q][v] = NoTime
    BY <1>4, RemoveReverseDoes
  <2> QED BY <1>0, <1>1, <2>1 DEF Edges
<1>5. CASE PruneReverse
  <2>1. \A q \in Post, v \in User :
          post_interactions'[q][v] = post_interactions[q][v] \/ post_interactions'[q][v] = NoTime
    BY <1>5, PruneReverseDoes
  <2> QED BY <1>0, <1>1, <2>1 DEF Edges
<1> QED BY <1>2, <1>3, <1>4, <1>5, EdgeSteps

LEMMA WindowsKept ==
  ASSUME Typed, CacheOK, Requests, Edges, Windows, ServedWithinWindow, Next
  PROVE  Windows' /\ ServedWithinWindow'
<1> USE Bounds
<1> DEFINE Near(times, now) == \E t \in times : t <= now /\ t + Window + TTL > now
<1>0. /\ \A p \in Post : recorded[p] \subseteq recorded'[p] /\ recorded[p] \subseteq Nat
      /\ velocity_cache.evaluated_at \in Nat /\ velocity_cache.candidates \subseteq Post
      /\ \A p \in Post, u \in User : post_interactions[p][u] # NoTime =>
           post_interactions[p][u] \in recorded[p]
  BY RecordedGrows DEF Typed, Times, CacheOK, Edges
<1>1. \A p \in Post : \A now :
        /\ InWindow(recorded[p], now) => InWindow(recorded'[p], now)
        /\ Near(recorded[p], now) => Near(recorded'[p], now)
  BY <1>0 DEF InWindow
<1>2. /\ \A p \in velocity_cache.candidates : InWindow(recorded'[p], velocity_cache.evaluated_at)
      /\ \A r \in Reader : Scoring(r) => \A p \in reader[r].scored : InWindow(recorded'[p], reader[r].now)
      /\ \A r \in Reader : Answered(r) => \A p \in reader[r].answer : Near(recorded'[p], reader[r].now)
  <2> DEFINE ev == velocity_cache.evaluated_at
  <2> HIDE DEF Near
  <2>1. \A p \in velocity_cache.candidates : InWindow(recorded'[p], ev)
    <3>1. \A p \in velocity_cache.candidates : InWindow(recorded[p], ev) BY DEF Windows
    <3> HIDE DEF ev
    <3> QED BY <1>0, <1>1, <3>1
  <2>2. ASSUME NEW r \in Reader, Scoring(r), NEW p \in reader[r].scored
        PROVE  InWindow(recorded'[p], reader[r].now)
    <3>1. p \in Post /\ InWindow(recorded[p], reader[r].now) BY <2>2 DEF Windows, Requests
    <3> QED BY <1>1, <3>1
  <2>3. ASSUME NEW r \in Reader, Answered(r), NEW p \in reader[r].answer
        PROVE  Near(recorded'[p], reader[r].now)
    <3>1. p \in Post BY <2>3 DEF Requests
    <3>2. Near(recorded[p], reader[r].now) BY <2>3 DEF ServedWithinWindow, Near
    <3> QED BY <1>1, <3>1, <3>2
  <2> QED BY <2>1, <2>2, <2>3
<1>3. CASE UNCHANGED reader /\ (UNCHANGED velocity_cache \/ velocity_cache' = NoCache)
  <2>1. \A p \in velocity_cache'.candidates : InWindow(recorded'[p], velocity_cache'.evaluated_at)
    BY <1>2, <1>3 DEF NoCache
  <2> QED BY <1>2, <1>3, <2>1 DEF Windows, Scoring, ServedWithinWindow, Answered
<1> HIDE DEF Near
<1>4. ASSUME NEW r \in Reader, Others(r), velocity_cache' = velocity_cache,
             Answered(r)' => \A p \in reader'[r].answer : Near(recorded'[p], reader'[r].now),
             Scoring(r)' => \A p \in reader'[r].scored : InWindow(recorded'[p], reader'[r].now)
      PROVE  Windows' /\ \A q \in Reader : Answered(q)' =>
               \A p \in reader'[q].answer : Near(recorded'[p], reader'[q].now)
  BY <1>2, <1>4 DEF Others, Windows, Scoring, Answered
<1>5. ASSUME NEW p \in Post, NEW now \in Nat, InWindow(recorded[p], now)
      PROVE  Near(recorded'[p], now)
  BY <1>0, <1>5 DEF InWindow, Near, Monus
<1>6. ASSUME NEW r \in Reader, NEW now \in Monus(clock, RequestLife)..clock, CheckCache(r, now)
      PROVE  Windows' /\ \A q \in Reader : Answered(q)' =>
               \A p \in reader'[q].answer : Near(recorded'[p], reader'[q].now)
  <2>1. now \in Nat BY ClockGrows DEF Monus
  <2>2. CASE reader'[r].pc = "collect"
    BY <1>4, <1>6, <2>2, CheckCacheDoes DEF Answered, Scoring
  <2>3. CASE CacheValidAt(now) /\ Answers(r, now, velocity_cache.candidates)
    <3>1. now >= velocity_cache.evaluated_at /\ now < velocity_cache.evaluated_at + TTL
      BY <1>0, <2>1, <2>3 DEF CacheValidAt
    <3>2. \A p \in velocity_cache.candidates : Near(recorded'[p], now)
      <4> TAKE p \in velocity_cache.candidates
      <4>1. PICK t \in recorded[p] : t <= velocity_cache.evaluated_at
                                     /\ t >= Monus(velocity_cache.evaluated_at, Window)
        BY DEF Windows, InWindow
      <4>2. t \in Nat /\ t \in recorded'[p] BY <1>0
      <4>3. t <= now /\ t + Window + TTL > now BY <1>0, <2>1, <3>1, <4>1, <4>2 DEF Monus
      <4> QED BY <4>2, <4>3 DEF Near
    <3> QED BY <1>4, <1>6, <2>3, <3>2, CheckCacheDoes DEF Answers, Answered, Scoring
  <2> QED BY <1>6, <2>2, <2>3, CheckCacheDoes
<1>7. ASSUME NEW r \in Reader, Collect(r)
      PROVE  Windows' /\ \A q \in Reader : Answered(q)' =>
               \A p \in reader'[q].answer : Near(recorded'[p], reader'[q].now)
  BY <1>4, <1>7, CollectDoes DEF Answered, Scoring
<1>8. ASSUME NEW r \in Reader, NEW p \in Post, Score(r, p)
      PROVE  Windows' /\ \A q \in Reader : Answered(q)' =>
               \A p_1 \in reader'[q].answer : Near(recorded'[p_1], reader'[q].now)
  <2>1. /\ Others(r) /\ Scoring(r) /\ velocity_cache' = velocity_cache
        /\ reader'[r].pc = "score" /\ reader'[r].now = reader[r].now
    BY <1>8, ScoreDoes
  <2>2. \A q \in reader'[r].scored : q \in reader[r].scored \/ InWindow(recorded'[q], reader[r].now)
    <3>1. CASE reader'[r].scored = reader[r].scored BY <3>1
    <3>2. CASE /\ reader'[r].scored = reader[r].scored \cup {p}
               /\ \E u \in User : /\ post_interactions[p][u] # NoTime
                                  /\ post_interactions[p][u] >= Monus(reader[r].now, Window)
                                  /\ post_interactions[p][u] <= reader[r].now
      <4>1. InWindow(recorded'[p], reader[r].now) BY <1>0, <1>1, <3>2 DEF InWindow
      <4> QED BY <3>2, <4>1
    <3> QED BY <1>8, <3>1, <3>2, ScoreDoes
  <2>3. \A q \in reader'[r].scored : InWindow(recorded'[q], reader'[r].now)
    BY <1>2, <2>1, <2>2
  <2> QED BY <1>4, <2>1, <2>3 DEF Answered
<1>9. ASSUME NEW r \in Reader, Publish(r)
      PROVE  Windows' /\ \A q \in Reader : Answered(q)' =>
               \A p \in reader'[q].answer : Near(recorded'[p], reader'[q].now)
  <2>1. /\ Others(r) /\ Scoring(r) /\ Answers(r, reader[r].now, reader[r].scored)
        /\ velocity_cache' = IF reader[r].scored = {} THEN velocity_cache
                              ELSE [evaluated_at |-> reader[r].now, candidates |-> reader[r].scored]
    BY <1>9, PublishDoes
  <2>2. reader[r].now \in Nat /\ reader[r].scored \subseteq Post
    BY <2>1 DEF Requests, Scoring
  <2>3. \A p \in reader[r].scored : InWindow(recorded'[p], reader[r].now) /\ Near(recorded'[p], reader[r].now)
    <3> TAKE p \in reader[r].scored
    <3>1. p \in Post /\ InWindow(recorded[p], reader[r].now) BY <2>1, <2>2 DEF Windows
    <3>2. InWindow(recorded'[p], reader[r].now) BY <1>1, <3>1
    <3>3. Near(recorded'[p], reader[r].now) BY <1>5, <2>2, <3>1
    <3> QED BY <3>2, <3>3
  <2>4. \A p \in velocity_cache'.candidates : InWindow(recorded'[p], velocity_cache'.evaluated_at)
    BY <1>2, <2>1, <2>3
  <2>5. \A q \in Reader : Scoring(q)' => q # r /\ reader'[q] = reader[q] /\ Scoring(q)
    BY <2>1 DEF Others, Answers, Scoring
  <2>6. \A q \in Reader : Scoring(q)' =>
          \A p \in reader'[q].scored : InWindow(recorded'[p], reader'[q].now)
    BY <1>2, <2>5
  <2>7. \A q \in Reader : Answered(q)' =>
          \A p \in reader'[q].answer : Near(recorded'[p], reader'[q].now)
    BY <1>2, <2>1, <2>3 DEF Others, Answers, Answered
  <2> QED BY <2>4, <2>6, <2>7 DEF Windows
<1>10. CASE Windows' /\ \A q \in Reader : Answered(q)' =>
              \A p \in reader'[q].answer : Near(recorded'[p], reader'[q].now)
  BY <1>10 DEF Near, ServedWithinWindow
<1> QED BY <1>3, <1>6, <1>7, <1>8, <1>9, <1>10, WhoMoves

-----------------------------------------------------------------------------
LEMMA GoneKept ==
  ASSUME Typed, Calls, Gone, Next
  PROVE  Gone'
<1>1. CASE UNCHANGED <<post_interactions, deleted_at>> /\ (UNCHANGED <<step, call>> \/ ~Removing')
  <2>1. Removing' => Removing /\ call' = call BY <1>1 DEF Removing
  <2> QED BY <1>1, <2>1 DEF Gone, HasNoEdges
<1>2. ASSUME NEW u \in User, NEW p \in Post, NEW t, RecordReverse(u, p, t)
      PROVE  Gone'
  <2>1. ~Removing' BY <1>2, RecordReverseDoes DEF Removing
  <2>2. \A q \in Post : deleted_at'[q] # NoTime => q # p /\ deleted_at[q] # NoTime
    BY <1>2, RecordReverseDoes
  <2>3. \A q \in Post, v \in User : q # p => post_interactions'[q][v] = post_interactions[q][v]
    BY <1>2, RecordReverseDoes
  <2> QED BY <2>1, <2>2, <2>3 DEF Gone, HasNoEdges
<1>3. ASSUME NEW p \in Post, RemoveReverse(p)
      PROVE  Gone'
  <2>1. call'.post = p /\ deleted_at' = deleted_at BY <1>3, RemoveReverseDoes DEF RemoveReverse
  <2>2. \A v \in User : post_interactions'[p][v] = NoTime
    BY <1>3, RemoveReverseDoes
  <2>3. \A q \in Post, v \in User : post_interactions[q][v] = NoTime => post_interactions'[q][v] = NoTime
    BY <1>3, RemoveReverseDoes
  <2> QED BY <2>1, <2>2, <2>3 DEF Gone, HasNoEdges
<1>4. ASSUME Removing, Deleted(call.post), UNCHANGED post_interactions
      PROVE  \A q \in Post : deleted_at'[q] # NoTime => HasNoEdges(q)'
  <2>1. call.post \in Post BY <1>4 DEF Calls
  <2>2. \A q \in Post : deleted_at'[q] # NoTime => q = call.post \/ deleted_at[q] # NoTime
    BY <1>4, <2>1, DeletedDoes
  <2> QED BY <1>4, <2>2 DEF Gone, HasNoEdges
<1>5. CASE RemoveActive
  <2>1. Removing /\ UNCHANGED post_interactions BY <1>5 DEF RemoveActive, Removing
  <2>2. CASE UNCHANGED <<call, deleted_at>>
    BY <2>1, <2>2 DEF Gone, HasNoEdges
  <2>3. CASE step' = "idle" /\ Deleted(call.post)
    BY <1>4, <2>1, <2>3 DEF Gone, Removing
  <2> QED BY <1>5, <2>2, <2>3 DEF RemoveActive
<1>6. CASE RemoveLog
  BY <1>6 DEF RemoveLog, Removing, Gone, HasNoEdges, ghosts
<1>7. CASE RemoveCache
  <2>1. Removing /\ Deleted(call.post) /\ UNCHANGED post_interactions /\ ~Removing'
    BY <1>7 DEF RemoveCache, Removing
  <2> QED BY <1>4, <2>1 DEF Gone
<1>8. CASE PruneReverse
  <2>1. \A q \in Post, v \in User : post_interactions[q][v] = NoTime => post_interactions'[q][v] = NoTime
    BY <1>8, PruneReverseDoes
  <2>2. UNCHANGED <<deleted_at, step, call>> BY <1>8 DEF PruneReverse, ghosts, writer
  <2>3. Removing' = Removing /\ (Removing => call.post \in Post) BY <2>2 DEF Removing, Calls
  <2> QED BY <2>1, <2>2, <2>3 DEF Gone, HasNoEdges
<1>9. CASE RecordActive \/ RecordLog
  BY <1>1, <1>9 DEF RecordActive, RecordLog, Removing, ghosts
<1>10. CASE Tick \/ PruneActive \/ PruneLog \/ PruneCache
  BY <1>1, <1>10 DEF Tick, PruneActive, PruneLog, PruneCache, ghosts, writer, pool
<1>11. ASSUME NEW r \in Reader, UNCHANGED <<post_interactions, writer, ghosts>>
       PROVE  Gone'
  BY <1>1, <1>11 DEF ghosts, writer
<1> QED BY <1>2, <1>3, <1>5, <1>6, <1>7, <1>8, <1>9, <1>10, <1>11
        DEF Next, CheckCache, Collect, Score, Publish, pool

(* While a result is young enough to be served, a post in it that is       *)
(* deleted or loses its edges was caught by the deletion or is about to    *)
(* be.                                                                     *)
LEMMA ExplainedStays ==
  ASSUME Typed, Calls, Gone, Next,
         NEW p \in Post, NEW now \in Nat, now <= clock, clock < now + TTL + RequestLife,
         InAResult(p), Explained(p, now),
         RemoveCache => \E r \in Reader : Scoring(r) /\ p \in reader[r].scored
  PROVE  Explained(p, now)'
<1> USE Bounds
<1>0. /\ clock \in Nat /\ deleted_at[p] \in Nat
      /\ \A q \in Post, u \in User : post_interactions[q][u] \in Nat
  BY DEF Typed, Times
<1>1. CASE UNCHANGED <<post_interactions, deleted_at, overlapped>>
           /\ (UNCHANGED <<step, call>> \/ ~Removing)
  BY <1>1 DEF Explained, Held, Leaving, Removing
<1>2. ASSUME NEW u \in User, NEW q \in Post, NEW t, RecordReverse(u, q, t)
      PROVE  Explained(p, now)'
  <2>1. step = "idle" /\ ~Leaving(p) BY <1>2, RecordReverseDoes DEF Leaving
  <2>2. overlapped' = overlapped \/ (q # p /\ overlapped' = overlapped \ {q})
    BY <1>2 DEF RecordReverse
  <2>3. p \in overlapped => p \in overlapped' BY <2>2
  <2>4. \A v \in User : post_interactions[p][v] # NoTime =>
          post_interactions'[p][v] = post_interactions[p][v]
    BY <1>2, RecordReverseDoes
  <2>5. Held(p, now) => Held(p, now)' BY <2>4 DEF Held
  <2>6. deleted_at'[p] = IF p = q THEN NoTime ELSE deleted_at[p] BY <1>2, RecordReverseDoes
  <2> QED BY <2>1, <2>3, <2>5, <2>6 DEF Explained
<1>3. ASSUME NEW q \in Post, RemoveReverse(q)
      PROVE  Explained(p, now)'
  <2>1. UNCHANGED <<deleted_at, overlapped>> /\ ~Leaving(p)
    BY <1>3 DEF RemoveReverse, Leaving
  <2>2. step' = "unactive" /\ call'.post = q
        /\ (call'.any <=> \E v \in User : post_interactions[q][v] # NoTime)
    BY <1>3, RemoveReverseDoes
  <2>3. p # q => \A v \in User : post_interactions'[p][v] = post_interactions[p][v]
    BY <1>3, RemoveReverseDoes
  <2>4. Held(p, now) => Held(p, now)' \/ Leaving(p)'
    <3>1. CASE p = q BY <2>2, <3>1 DEF Held, Leaving
    <3>2. CASE p # q BY <2>3, <3>2 DEF Held
    <3> QED BY <3>1, <3>2
  <2> QED BY <2>1, <2>4 DEF Explained
<1>4. ASSUME Removing, UNCHANGED post_interactions, Deleted(call.post), ~Leaving(p) \/ p \in overlapped'
      PROVE  Explained(p, now)'
  <2>1. call.post \in Post BY <1>4 DEF Calls
  <2>2. /\ deleted_at'[p] = IF p = call.post /\ deleted_at[p] = NoTime THEN clock ELSE deleted_at[p]
        /\ overlapped \subseteq overlapped'
    BY <1>4, <2>1, DeletedDoes
  <2>3. Held(p, now)' <=> Held(p, now) BY <1>4 DEF Held
  <2>4. Held(p, now) => p # call.post BY <1>4 DEF Held, Gone, HasNoEdges
  <2> QED BY <1>0, <1>4, <2>2, <2>3, <2>4 DEF Explained
<1>5. CASE RemoveActive
  <2>1. CASE step' = "unlog" /\ UNCHANGED <<call, deleted_at, overlapped, post_interactions>>
    <3>1. Leaving(p) => Leaving(p)' BY <1>5, <2>1 DEF RemoveActive, Leaving
    <3>2. Held(p, now)' <=> Held(p, now) BY <2>1 DEF Held
    <3> QED BY <2>1, <3>1, <3>2 DEF Explained
  <2>2. CASE ~call.any /\ Deleted(call.post)
    BY <1>4, <1>5, <2>2 DEF RemoveActive, Leaving, Removing
  <2> QED BY <1>5, <2>1, <2>2 DEF RemoveActive
<1>6. CASE RemoveLog
  <2>1. UNCHANGED <<call, deleted_at, overlapped, post_interactions>> BY <1>6 DEF RemoveLog, ghosts
  <2>2. Leaving(p) => Leaving(p)' BY <1>6 DEF RemoveLog, Leaving
  <2>3. Held(p, now)' <=> Held(p, now) BY <2>1 DEF Held
  <2> QED BY <2>1, <2>2, <2>3 DEF Explained
<1>7. CASE RemoveCache
  <2>1. Removing /\ UNCHANGED post_interactions /\ Deleted(call.post) /\ call.post \in Post
    BY <1>7 DEF RemoveCache, Removing, Calls
  <2>2. Leaving(p) => p \in overlapped'
    BY <1>7, <2>1, DeletedDoes DEF RemoveCache, Leaving
  <2> QED BY <1>4, <2>1, <2>2
<1>8. CASE PruneReverse
  <2>1. cutoff' = Monus(clock, Retention) BY <1>8, PruneReverseDoes
  <2>2. cutoff' <= Monus(now, Window) BY <1>0, <2>1 DEF Monus
  <2>3. \A v \in User : post_interactions[p][v] >= Monus(now, Window) =>
          post_interactions'[p][v] = post_interactions[p][v]
    <3> TAKE v \in User
    <3>1. post_interactions[p][v] \in Nat /\ Monus(now, Window) \in Nat /\ cutoff' \in Nat
      BY <1>0, <2>1 DEF Monus
    <3>2. post_interactions'[p][v] = IF post_interactions[p][v] >= cutoff'
                                     THEN post_interactions[p][v] ELSE NoTime
      BY <1>8, PruneReverseDoes
    <3> QED BY <2>2, <3>1, <3>2
  <2>4. Held(p, now) => Held(p, now)' BY <2>3 DEF Held
  <2>5. UNCHANGED <<deleted_at, overlapped, step, call>> BY <1>8 DEF PruneReverse, ghosts, writer
  <2>6. Leaving(p)' = Leaving(p) BY <2>5 DEF Leaving
  <2> QED BY <2>4, <2>5, <2>6 DEF Explained
<1>9. CASE RecordActive \/ RecordLog
  BY <1>1, <1>9 DEF RecordActive, RecordLog, Removing, ghosts
<1>10. CASE Tick \/ PruneActive \/ PruneLog \/ PruneCache
  BY <1>1, <1>10 DEF Tick, PruneActive, PruneLog, PruneCache, ghosts, writer, pool
<1>11. ASSUME NEW r \in Reader, UNCHANGED <<post_interactions, writer, ghosts>>
       PROVE  Explained(p, now)'
  BY <1>1, <1>11 DEF ghosts, writer
<1> QED BY <1>2, <1>3, <1>5, <1>6, <1>7, <1>8, <1>9, <1>10, <1>11
        DEF Next, CheckCache, Collect, Score, Publish, pool

(* Explained after the step, for a time that is read before it.            *)
ExplainedAfter(p, now) ==
  IF deleted_at'[p] # NoTime
  THEN p \in overlapped' /\ now <= deleted_at'[p]
  ELSE \/ \E u \in User : /\ post_interactions'[p][u] # NoTime
                          /\ post_interactions'[p][u] >= Monus(now, Window)
       \/ Leaving(p)' \/ p \in overlapped'

LEMMA DeletionsKept ==
  ASSUME Typed, CacheOK, Calls, Requests, Gone, Deletions, DeletedServedBriefly, Next
  PROVE  Deletions' /\ DeletedServedBriefly'
<1> USE Bounds
<1> DEFINE ev == velocity_cache.evaluated_at
           Young(d, now) == d.overlapped /\ now < d.at + TTL
           Brief == \A r \in Reader : Answered(r)' => \A d \in reader'[r].deleted : Young(d, reader'[r].now)
           CacheExplained == \A p \in velocity_cache'.candidates :
              Expired' \/ ExplainedAfter(p, velocity_cache'.evaluated_at)
           ScoredExplained == \A r \in Reader : Scoring(r)' =>
              \A p \in reader'[r].scored : ExplainedAfter(p, reader'[r].now)
<1>0. /\ clock \in Nat /\ clock' \in Nat /\ clock' >= clock
      /\ ev \in Nat /\ ev <= clock /\ velocity_cache.candidates \subseteq Post
      /\ \A p \in Post : deleted_at[p] \in Nat
  BY ClockGrows DEF Typed, CacheOK, Times
<1>1. \A r \in Reader : Scoring(r) => /\ reader[r].now \in Nat /\ reader[r].now <= clock
                                      /\ clock < reader[r].now + TTL + RequestLife
                                      /\ reader[r].scored \subseteq Post
  BY <1>0 DEF Requests, Scoring, Running
<1>2. ASSUME NEW p \in Post, NEW now \in Nat, now <= clock, clock < now + TTL + RequestLife,
             InAResult(p), Explained(p, now),
             RemoveCache => \E r \in Reader : Scoring(r) /\ p \in reader[r].scored
      PROVE  ExplainedAfter(p, now)
  <2>1. Explained(p, now)' BY <1>2, ExplainedStays
  <2> QED BY <2>1 DEF Explained, ExplainedAfter, Held
<1>3. ASSUME NEW r \in Reader, Scoring(r), NEW p \in reader[r].scored
      PROVE  ExplainedAfter(p, reader[r].now)
  <2> DEFINE now == reader[r].now
  <2>1. /\ now \in Nat /\ now <= clock /\ clock < now + TTL + RequestLife /\ p \in Post
        /\ Explained(p, now) /\ InAResult(p)
    BY <1>1, <1>3 DEF Deletions, InAResult, Scoring
  <2> HIDE DEF now
  <2>2. ExplainedAfter(p, now) BY <1>2, <1>3, <2>1
  <2> QED BY <2>2 DEF now
<1>4. ASSUME ~RemoveCache, NEW p \in velocity_cache.candidates
      PROVE  Expired \/ ExplainedAfter(p, ev)
  <2>1. CASE Expired BY <2>1
  <2>2. CASE ~Expired
    <3>1. clock < ev + TTL + RequestLife BY <1>0, <2>2 DEF Expired
    <3>2. Explained(p, ev) /\ InAResult(p) BY <1>4, <2>2 DEF Deletions, InAResult
    <3> HIDE DEF ev
    <3> QED BY <1>0, <1>2, <1>4, <3>1, <3>2
  <2> QED BY <2>1, <2>2
<1>5. ASSUME UNCHANGED velocity_cache, ~RemoveCache
      PROVE  CacheExplained
  <2>1. Expired => Expired'
    BY <1>0, <1>5 DEF Expired
  <2> QED BY <1>4, <1>5, <2>1
<1>6. \A r \in Reader : Answered(r) => \A d \in reader[r].deleted : Young(d, reader[r].now)
  BY DEF DeletedServedBriefly
<1> HIDE DEF Young, ev
<1>7. ASSUME UNCHANGED reader, UNCHANGED velocity_cache \/ velocity_cache' = NoCache
      PROVE  Brief /\ ScoredExplained /\ CacheExplained
  <2>1. Brief BY <1>6, <1>7 DEF Answered
  <2>2. ScoredExplained BY <1>3, <1>7 DEF Scoring
  <2>3. CacheExplained
    <3>1. CASE velocity_cache' = NoCache BY <3>1 DEF NoCache
    <3>2. CASE UNCHANGED velocity_cache /\ velocity_cache' # NoCache
      BY <1>5, <3>2 DEF RemoveCache
    <3> QED BY <1>7, <3>1, <3>2
  <2> QED BY <2>1, <2>2, <2>3
<1>8. ASSUME NEW r \in Reader, Others(r),
             Answered(r)' => \A d \in reader'[r].deleted : Young(d, reader'[r].now),
             Scoring(r)' => \A p \in reader'[r].scored : ExplainedAfter(p, reader'[r].now)
      PROVE  Brief /\ ScoredExplained
  <2>1. \A q \in Reader : q # r => reader'[q] = reader[q] /\ (Scoring(q)' => Scoring(q))
                                   /\ (Answered(q)' => Answered(q))
    BY <1>8 DEF Others, Scoring, Answered
  <2> QED BY <1>3, <1>6, <1>8, <2>1
<1>9. ASSUME NEW r \in Reader, NEW now \in Monus(clock, RequestLife)..clock, CheckCache(r, now)
      PROVE  Brief /\ ScoredExplained /\ CacheExplained
  <2>0. now \in Nat /\ clock <= now + RequestLife BY <1>0 DEF Monus
  <2>1. Others(r) /\ UNCHANGED velocity_cache /\ ~RemoveCache
    <3>1. UNCHANGED <<call, step>> /\ Others(r) /\ UNCHANGED velocity_cache
      BY <1>9, CheckCacheDoes DEF CheckCache, writer
    <3> QED BY <3>1 DEF RemoveCache
  <2>2. CASE reader'[r].pc = "collect"
    BY <1>5, <1>8, <2>1, <2>2 DEF Scoring, Answered
  <2>3. CASE CacheValidAt(now) /\ Answers(r, now, velocity_cache.candidates)
    <3>1. now < ev + TTL /\ ~Expired BY <1>0, <2>0, <2>3 DEF CacheValidAt, Expired, ev
    <3>2. ASSUME NEW d \in reader'[r].deleted
          PROVE  Young(d, reader'[r].now)
      <4>1. PICK p \in velocity_cache.candidates :
              deleted_at[p] # NoTime /\ d.at = deleted_at[p] /\ (d.overlapped <=> p \in overlapped)
        BY <2>3, <3>2 DEF Answers
      <4>2. p \in overlapped /\ ev <= deleted_at[p] /\ deleted_at[p] \in Nat
        BY <1>0, <3>1, <4>1 DEF Deletions, Explained, ev
      <4>3. now < d.at + TTL BY <1>0, <2>0, <3>1, <4>1, <4>2
      <4> QED BY <2>3, <4>1, <4>2, <4>3 DEF Answers, Young
    <3>3. ~Scoring(r)' BY <2>3 DEF Answers, Scoring
    <3> QED BY <1>5, <1>8, <2>1, <3>2, <3>3
  <2> QED BY <1>9, <2>2, <2>3, CheckCacheDoes
<1>10. ASSUME NEW r \in Reader, Collect(r)
       PROVE  Brief /\ ScoredExplained /\ CacheExplained
  <2>1. /\ Others(r) /\ UNCHANGED velocity_cache /\ UNCHANGED <<call, step>>
        /\ reader'[r].pc = "score" /\ reader'[r].scored = {}
    BY <1>10, CollectDoes DEF Collect, writer
  <2>2. ~RemoveCache BY <2>1 DEF RemoveCache
  <2> QED BY <1>5, <1>8, <2>1, <2>2 DEF Answered
<1>11. ASSUME NEW r \in Reader, NEW p \in Post, Score(r, p)
       PROVE  Brief /\ ScoredExplained /\ CacheExplained
  <2>1. /\ Others(r) /\ UNCHANGED velocity_cache /\ Scoring(r)
        /\ UNCHANGED <<call, step, post_interactions, deleted_at>>
        /\ reader'[r].pc = "score" /\ reader'[r].now = reader[r].now
    BY <1>11, ScoreDoes DEF Score, writer, pool, ghosts
  <2>2. ~RemoveCache BY <2>1 DEF RemoveCache
  <2>3. \A q \in reader'[r].scored : ExplainedAfter(q, reader[r].now)
    <3>1. CASE reader'[r].scored = reader[r].scored BY <1>3, <2>1, <3>1
    <3>2. CASE /\ reader'[r].scored = reader[r].scored \cup {p}
               /\ \E u \in User : /\ post_interactions[p][u] # NoTime
                                  /\ post_interactions[p][u] >= Monus(reader[r].now, Window)
                                  /\ post_interactions[p][u] <= reader[r].now
      <4>1. deleted_at[p] = NoTime BY <3>2 DEF Gone, HasNoEdges
      <4>2. ExplainedAfter(p, reader[r].now) BY <2>1, <3>2, <4>1 DEF ExplainedAfter
      <4> QED BY <1>3, <2>1, <3>2, <4>2
    <3> QED BY <1>11, <3>1, <3>2, ScoreDoes
  <2> QED BY <1>5, <1>8, <2>1, <2>2, <2>3 DEF Answered
<1>12. ASSUME NEW r \in Reader, Publish(r)
       PROVE  Brief /\ ScoredExplained /\ CacheExplained
  <2>1. /\ Others(r) /\ Scoring(r) /\ Answers(r, reader[r].now, reader[r].scored)
        /\ velocity_cache' = (IF reader[r].scored = {} THEN velocity_cache
                              ELSE [evaluated_at |-> reader[r].now, candidates |-> reader[r].scored])
        /\ UNCHANGED <<call, step>>
    BY <1>12, PublishDoes DEF Publish, writer
  <2>2. ~RemoveCache BY <2>1 DEF RemoveCache
  <2>3. reader[r].now \in Nat /\ reader[r].scored \subseteq Post BY <1>1, <2>1
  <2>4. CacheExplained
    <3>1. CASE reader[r].scored = {} BY <1>5, <2>1, <2>2, <3>1
    <3>2. CASE reader[r].scored # {}
      <4>1. velocity_cache'.candidates = reader[r].scored
            /\ velocity_cache'.evaluated_at = reader[r].now
        BY <2>1, <3>2
      <4> QED BY <1>3, <2>1, <4>1
    <3> QED BY <3>1, <3>2
  <2>5. ASSUME NEW d \in reader'[r].deleted
        PROVE  Young(d, reader'[r].now)
    <3>1. PICK p \in reader[r].scored :
            deleted_at[p] # NoTime /\ d.at = deleted_at[p] /\ (d.overlapped <=> p \in overlapped)
      BY <2>1, <2>5 DEF Answers
    <3>2. p \in overlapped /\ reader[r].now <= deleted_at[p] /\ deleted_at[p] \in Nat
      BY <1>0, <2>1, <2>3, <3>1 DEF Deletions, Explained
    <3>3. reader[r].now < d.at + TTL BY <2>3, <3>1, <3>2
    <3> QED BY <2>1, <3>1, <3>2, <3>3 DEF Answers, Young
  <2>6. ~Scoring(r)' BY <2>1 DEF Answers, Scoring
  <2> QED BY <1>8, <2>1, <2>4, <2>5, <2>6
<1>13. Brief /\ ScoredExplained /\ CacheExplained
  <2> HIDE DEF Brief, ScoredExplained, CacheExplained
  <2> QED BY <1>7, <1>9, <1>10, <1>11, <1>12, WhoMoves
<1>14. Deletions'
  BY <1>13 DEF Deletions, Explained, ExplainedAfter, Held
<1>15. DeletedServedBriefly'
  BY <1>13 DEF DeletedServedBriefly, Young
<1> QED BY <1>14, <1>15

-----------------------------------------------------------------------------
LEMMA RecordLogDoes ==
  ASSUME Typed, Calls, RecordLog
  PROVE  /\ call.post \in Post /\ call.user \in User /\ call.ts \in Times /\ call.ts <= clock
         /\ \A q \in Post, v \in User :
              since'[q][v] = IF q = call.post /\ v = call.user /\ call.added THEN clock ELSE since[q][v]
         /\ UNCHANGED <<clock, post_interactions, cutoff>>
         /\ recent_active_log' = Push(recent_active_log, call.ts, call.post)
         /\ lost' = (lost \/ recent_active_log.count = Capacity)
<1>1. /\ call.post \in Post /\ call.user \in User /\ call.ts \in Times /\ call.ts <= clock
      /\ call.added \in BOOLEAN
  BY DEF RecordLog, Calls, Recording
<1>2. since' = [since EXCEPT ![call.post][call.user] = IF call.added THEN clock ELSE @]
  BY DEF RecordLog
<1>3. \A q \in Post, v \in User :
        since'[q][v] = IF q = call.post /\ v = call.user /\ call.added THEN clock ELSE since[q][v]
  BY <1>1, <1>2 DEF Typed
<1> QED BY <1>1, <1>3 DEF RecordLog, pruner

(* An edge whose recording has ended is a step later what it was, or gone, *)
(* unless its recording ends in this step.                                 *)
LEMMA SinceSteps ==
  ASSUME Typed, Calls, Next, NEW p \in Post, NEW u \in User, since'[p][u] # NoTime
  PROVE  \/ /\ since'[p][u] = since[p][u]
            /\ \/ post_interactions'[p][u] = post_interactions[p][u]
               \/ /\ PruneReverse /\ post_interactions'[p][u] = NoTime
                  /\ post_interactions[p][u] < Monus(clock, Retention)
         \/ /\ RecordLog /\ p = call.post /\ u = call.user /\ call.added
            /\ since'[p][u] = clock
<1>0. post_interactions[p][u] \in Nat /\ clock \in Nat BY DEF Typed, Times, NoTime
<1>1. CASE UNCHANGED <<since, post_interactions>>
  BY <1>1
<1>2. ASSUME NEW v \in User, NEW q \in Post, NEW t, RecordReverse(v, q, t)
      PROVE  since'[p][u] = since[p][u] /\ post_interactions'[p][u] = post_interactions[p][u]
  BY <1>2, RecordReverseDoes
<1>3. ASSUME NEW q \in Post, RemoveReverse(q)
      PROVE  since'[p][u] = since[p][u] /\ post_interactions'[p][u] = post_interactions[p][u]
  BY <1>3, RemoveReverseDoes
<1>4. CASE RecordLog
  BY <1>4, RecordLogDoes
<1>5. CASE PruneReverse
  <2>1. since' = since BY <1>5 DEF PruneReverse, ghosts
  <2>2. Monus(clock, Retention) \in Nat BY <1>0, Bounds DEF Monus
  <2>3. post_interactions'[p][u] = IF post_interactions[p][u] >= Monus(clock, Retention)
                                   THEN post_interactions[p][u] ELSE NoTime
    BY <1>5, PruneReverseDoes
  <2> QED BY <1>0, <1>5, <2>1, <2>2, <2>3
<1>6. \/ UNCHANGED <<since, post_interactions>>
      \/ \E v \in User, q \in Post, lag \in Lags : clock > lag /\ RecordReverse(v, q, clock - lag)
      \/ \E q \in Post : RemoveReverse(q)
      \/ RecordLog \/ PruneReverse
  BY DEF Next, Tick, RecordActive, RemoveActive, RemoveLog, RemoveCache, PruneActive,
         PruneLog, PruneCache, CheckCache, Collect, Publish, Score, pool, ghosts
<1> QED BY <1>1, <1>2, <1>3, <1>4, <1>5, <1>6

LEMMA SincesKept ==
  ASSUME Typed, Calls, Sinces, Pending, Next
  PROVE  Sinces'
<1> USE Bounds
<1>0. clock \in Nat /\ clock' \in Nat /\ clock' >= clock BY ClockGrows
<1>1. ASSUME NEW p \in Post, NEW u \in User, since'[p][u] # NoTime
      PROVE  /\ post_interactions'[p][u] <= since'[p][u] /\ since'[p][u] <= clock'
             /\ post_interactions'[p][u] = NoTime => clock' > Retention
  <2>0. post_interactions[p][u] \in Nat /\ since[p][u] \in Nat BY DEF Typed, Times
  <2>1. CASE since'[p][u] = since[p][u] /\ post_interactions'[p][u] = post_interactions[p][u]
    BY <1>0, <1>1, <2>0, <2>1 DEF Sinces
  <2>2. CASE /\ since'[p][u] = since[p][u] /\ post_interactions'[p][u] = NoTime
             /\ post_interactions[p][u] < Monus(clock, Retention)
    <3>1. clock > Retention BY <1>0, <2>0, <2>2 DEF Monus
    <3> QED BY <1>0, <1>1, <2>0, <2>2, <3>1 DEF Sinces
  <2>3. CASE RecordLog /\ p = call.post /\ u = call.user /\ call.added /\ since'[p][u] = clock
    <3>1. /\ call.ts \in Times /\ call.ts <= clock /\ clock' = clock
          /\ post_interactions'[p][u] = post_interactions[p][u]
      BY <2>3, RecordLogDoes
    <3>2. /\ post_interactions[p][u] \in {NoTime, call.ts}
          /\ post_interactions[p][u] = NoTime => clock > Retention
      BY <2>3 DEF RecordLog, Pending, Recording
    <3> QED BY <1>0, <2>3, <3>1, <3>2
  <2> QED BY <1>1, <2>1, <2>2, <2>3, SinceSteps
<1> QED BY <1>1 DEF Sinces

LEMMA PendingKept ==
  ASSUME Typed, Calls, Pending, Next
  PROVE  Pending'
<1> USE Bounds
<1>0. clock \in Nat /\ clock' \in Nat /\ clock' >= clock BY ClockGrows
<1>1. CASE ~Recording'
  BY <1>1 DEF Pending
<1>2. CASE UNCHANGED <<post_interactions, since, call>> /\ Recording' = Recording
  <2>1. Recording => call.post \in Post /\ call.user \in User BY DEF Calls
  <2> QED BY <1>0, <1>2, <2>1 DEF Pending
<1>3. ASSUME NEW u \in User, NEW p \in Post, NEW lag \in Lags, clock > lag,
             RecordReverse(u, p, clock - lag)
      PROVE  Pending'
  <2> DEFINE t == clock - lag
  <2>1. t \in Times BY <1>3, EventTimes
  <2> HIDE DEF t
  <2>2. RecordReverse(u, p, t) BY <1>3 DEF t
  <2>3. /\ call'.user = u /\ call'.post = p /\ call'.ts = t
        /\ call'.added => post_interactions[p][u] = NoTime
    BY <2>2, RecordReverseDoes
  <2>4. post_interactions[p][u] = NoTime => post_interactions'[p][u] = t /\ since'[p][u] = NoTime
    BY <2>2, RecordReverseDoes
  <2>5. t # NoTime BY <2>1 DEF Times
  <2> QED BY <2>3, <2>4, <2>5 DEF Pending
<1>4. CASE PruneReverse
  <2>1. UNCHANGED <<since, call, clock>> /\ Recording' = Recording
    BY <1>4 DEF PruneReverse, ghosts, writer, Recording
  <2>2. ASSUME Recording, call.added
        PROVE  /\ post_interactions'[call.post][call.user] \in {NoTime, call.ts}
               /\ post_interactions'[call.post][call.user] = NoTime => clock > Retention
    <3> DEFINE t == post_interactions[call.post][call.user]
    <3>1. call.post \in Post /\ call.user \in User BY <2>2 DEF Calls
    <3>2. t \in Nat BY <3>1 DEF Typed, Times
    <3>3. t \in {NoTime, call.ts} /\ (t = NoTime => clock > Retention) BY <2>2 DEF Pending
    <3>4. post_interactions'[call.post][call.user] = IF t >= Monus(clock, Retention) THEN t ELSE NoTime
      BY <1>4, <3>1, PruneReverseDoes
    <3> HIDE DEF t
    <3>5. t < Monus(clock, Retention) => clock > Retention BY <1>0, <3>2 DEF Monus
    <3>6. Monus(clock, Retention) \in Nat BY <1>0 DEF Monus
    <3> QED BY <3>2, <3>3, <3>4, <3>5, <3>6
  <2> QED BY <2>1, <2>2 DEF Pending
<1>5. CASE RecordActive
  BY <1>2, <1>5 DEF RecordActive, Recording, ghosts
<1>6. CASE RecordLog \/ RemoveActive \/ RemoveLog \/ RemoveCache \/ \E p \in Post : RemoveReverse(p)
  BY <1>1, <1>6 DEF RecordLog, RemoveActive, RemoveLog, RemoveCache, RemoveReverse, Recording
<1>7. CASE UNCHANGED <<post_interactions, since, writer>>
  BY <1>2, <1>7 DEF writer, Recording
<1> QED BY <1>3, <1>4, <1>5, <1>6, <1>7
        DEF Next, Tick, PruneActive, PruneLog, PruneCache, CheckCache, Collect, Score, Publish,
            pool, ghosts

LEMMA LogCoversKept ==
  ASSUME Typed, Calls, LogOK(recent_active_log), Gone, Pending, LogCovers, Next
  PROVE  LogCovers'
<1> USE Bounds
<1> DEFINE log == recent_active_log
<1>0. /\ clock \in Nat /\ cutoff \in Nat /\ cutoff <= Monus(clock, Retention)
      /\ \A p \in Post, u \in User : post_interactions[p][u] \in Nat
  BY DEF Typed, Times
<1>1. lost => lost'
  BY DEF Next, Tick, RecordReverse, RecordActive, RecordLog, RemoveReverse, RemoveActive, RemoveLog,
         RemoveCache, PruneReverse, PruneActive, PruneLog, PruneCache, CheckCache, Collect, Publish,
         Score, ghosts
<1>2. cutoff' = cutoff \/ (PruneReverse /\ cutoff' = Monus(clock, Retention))
  BY DEF Next, Tick, RecordReverse, RecordActive, RecordLog, RemoveReverse, RemoveActive, RemoveLog,
         RemoveCache, PruneReverse, PruneActive, PruneLog, PruneCache, CheckCache, Collect, Publish,
         Score, pruner
<1>3. cutoff' \in Nat /\ cutoff' >= cutoff BY <1>0, <1>2 DEF Monus
<1> HIDE DEF log
(* What was in the log and is not below the cutoff is still there.         *)
<1>4. ASSUME ~lost', NEW p \in Post, NEW u \in User, since[p][u] # NoTime,
             post_interactions'[p][u] = post_interactions[p][u],
             post_interactions[p][u] # NoTime, post_interactions[p][u] >= cutoff
      PROVE  Logged(log', p, post_interactions[p][u])
  <2> DEFINE t == post_interactions[p][u]
  <2>1. t \in Nat BY <1>0
  <2>2. Logged(log, p, t) BY <1>1, <1>4 DEF LogCovers, log
  <2> HIDE DEF t
  <2>3. PICK i \in Used(log) : log.buffer[i] = Entry(t, p) BY <2>2 DEF Logged
  <2>4. log.buffer[i].ts = t /\ log.buffer[i].post = p BY <2>3 DEF Entry
  <2>5. CASE log' = log BY <2>2, <2>5 DEF t
  <2>6. CASE RecordLog
    <3>1. log' = Push(log, call.ts, call.post) /\ call.ts \in Times /\ call.post \in Post
          /\ lost' = (lost \/ log.count = Capacity)
      BY <2>6, RecordLogDoes DEF log
    <3>2. log.count \in 0..Capacity BY DEF LogOK, Logs, log
    <3>a. log.count # Capacity BY <1>4, <3>1, Zenon
    <3>3. log.count < Capacity BY <3>2, <3>a
    <3>4. LogOK(log) BY DEF log
    <3>5. i \in Used(log') /\ log'.buffer[i] = log.buffer[i]
      BY <2>3, <3>1, <3>3, <3>4, PushKeeps
    <3> QED BY <2>3, <3>5 DEF Logged, t
  <2>7. CASE RemoveLog
    <3> DEFINE others == {j \in Used(log) : log.buffer[j].post # call.post}
    <3>1. p # call.post
      BY <1>4, <2>7 DEF RemoveLog, Removing, Gone, HasNoEdges
    <3>2. i \in others /\ others \in SUBSET Used(log) BY <2>3, <2>4, <3>1
    <3>3. log' = Retain(log, others) /\ LogOK(log) BY <2>7 DEF RemoveLog, log
    <3> HIDE DEF others
    <3>4. PICK k \in Used(log') : log'.buffer[k] = log.buffer[i] BY <3>2, <3>3, RetainKeeps
    <3> QED BY <2>3, <3>4 DEF Logged, t
  <2>8. CASE PruneLog
    <3> DEFINE recent == {j \in Used(log) : log.buffer[j].ts >= cutoff}
    <3>1. i \in recent /\ recent \in SUBSET Used(log) BY <1>4, <2>3, <2>4 DEF t
    <3>2. log' = Retain(log, recent) /\ LogOK(log) BY <2>8 DEF PruneLog, log
    <3> HIDE DEF recent
    <3>3. PICK k \in Used(log') : log'.buffer[k] = log.buffer[i] BY <3>1, <3>2, RetainKeeps
    <3> QED BY <2>3, <3>3 DEF Logged, t
  <2>9. log' = log \/ RecordLog \/ RemoveLog \/ PruneLog
    BY DEF Next, Tick, RecordReverse, RemoveReverse, RecordActive, RemoveActive, RemoveCache,
           PruneReverse, PruneActive, PruneCache, CheckCache, Collect, Publish, Score, pool, log
  <2> QED BY <2>5, <2>6, <2>7, <2>8, <2>9 DEF t
<1>5. ASSUME ~lost', NEW p \in Post, NEW u \in User, since'[p][u] # NoTime,
             post_interactions'[p][u] # NoTime, post_interactions'[p][u] >= cutoff'
      PROVE  Logged(log', p, post_interactions'[p][u])
  <2>1. CASE since'[p][u] = since[p][u] /\ post_interactions'[p][u] = post_interactions[p][u]
    <3>1. post_interactions[p][u] >= cutoff BY <1>0, <1>3, <1>5, <2>1
    <3> QED BY <1>4, <1>5, <2>1, <3>1
  <2>2. CASE RecordLog /\ p = call.post /\ u = call.user /\ call.added
    <3>1. log' = Push(log, call.ts, call.post) /\ call.ts \in Times /\ call.post \in Post
          /\ post_interactions'[p][u] = post_interactions[p][u]
      BY <2>2, RecordLogDoes DEF log
    <3>2. post_interactions'[p][u] = call.ts
      BY <1>5, <2>2, <3>1 DEF RecordLog, Pending, Recording
    <3>3. LogOK(log) BY DEF log
    <3>4. \E k \in Used(log') : log'.buffer[k] = Entry(call.ts, p)
      BY <2>2, <3>1, <3>3, PushKeeps
    <3> QED BY <3>2, <3>4 DEF Logged
  <2> QED BY <1>5, <2>1, <2>2, SinceSteps
<1> QED BY <1>5 DEF LogCovers, log

(* Belongs after the step, for a time that is read before it.              *)
BelongsAfter(p, u, now) ==
  /\ since'[p][u] # NoTime /\ since'[p][u] < now
  /\ post_interactions'[p][u] >= Monus(now, Window)

LEMMA BelongedBefore ==
  ASSUME Typed, Calls, Next, NEW p \in Post, NEW u \in User, NEW now \in Nat, now <= clock,
         BelongsAfter(p, u, now)
  PROVE  Belongs(p, u, now) /\ since'[p][u] = since[p][u]
<1> USE Bounds
<1>0. /\ post_interactions[p][u] \in Nat /\ clock \in Nat /\ Monus(now, Window) \in Nat
  BY DEF Typed, Times, Monus
<1>1. since'[p][u] # clock BY <1>0 DEF BelongsAfter
<1>2. /\ since'[p][u] = since[p][u]
      /\ post_interactions'[p][u] = post_interactions[p][u] \/ post_interactions'[p][u] = NoTime
  BY <1>1, SinceSteps DEF BelongsAfter
<1> QED BY <1>0, <1>2 DEF BelongsAfter, Belongs

(* For a request that is still running, an edge that belongs to the pool   *)
(* has not been pruned and lies in the request's window.                   *)
LEMMA BelongsIsEdge ==
  ASSUME Typed, Sinces, NEW p \in Post, NEW u \in User, NEW now \in Nat,
         clock <= now + RequestLife, Belongs(p, u, now)
  PROVE  /\ post_interactions[p][u] # NoTime /\ post_interactions[p][u] >= cutoff
         /\ post_interactions[p][u] <= now
<1> USE Bounds
<1>0. /\ post_interactions[p][u] \in Nat /\ clock \in Nat /\ since[p][u] \in Nat
      /\ cutoff \in Nat /\ cutoff <= Monus(clock, Retention)
  BY DEF Typed, Times
<1>1. post_interactions[p][u] <= now
  BY <1>0 DEF Sinces, Belongs
<1>2. /\ Monus(clock, Retention) <= Monus(now, Window)
      /\ Monus(now, Window) \in Nat /\ Monus(clock, Retention) \in Nat
  BY <1>0 DEF Monus
<1>3. post_interactions[p][u] >= cutoff
  <2>1. post_interactions[p][u] >= Monus(now, Window) BY DEF Belongs
  <2> QED BY <1>0, <1>2, <2>1
<1>4. post_interactions[p][u] # NoTime
  <2> SUFFICES ASSUME post_interactions[p][u] = NoTime PROVE FALSE OBVIOUS
  <2>1. clock > Retention BY DEF Sinces, Belongs
  <2>2. Monus(now, Window) > 0 BY <1>0, <2>1 DEF Monus
  <2>3. 0 >= Monus(now, Window) BY DEF Belongs
  <2> QED BY <1>2, <2>2, <2>3
<1> QED BY <1>1, <1>3, <1>4

LEMMA CoveredKept ==
  ASSUME Typed, CacheOK, LogOK(recent_active_log), Calls, Requests, Sinces, LogCovers, Covered,
         FreshWithinTTL, Next
  PROVE  Covered' /\ FreshWithinTTL'
<1> USE Bounds
<1> DEFINE ev == velocity_cache.evaluated_at
           InCache == \A p \in Post, u \in User :
              BelongsAfter(p, u, velocity_cache'.evaluated_at) => p \in velocity_cache'.candidates
           Scored(r) == Scoring(r)' => \A p \in Post, u \in User :
              BelongsAfter(p, u, reader'[r].now) => p \in reader'[r].pids \cup reader'[r].scored
           Due(p, u, now) == BelongsAfter(p, u, now) /\ since'[p][u] + TTL <= now
           InAnswer(r) == Answered(r)' => \A p \in Post, u \in User :
              Due(p, u, reader'[r].now) => p \in reader'[r].answer
           Goal == InCache /\ \A r \in Reader : Scored(r) /\ InAnswer(r)
<1>0. /\ clock \in Nat /\ clock' \in Nat /\ clock' >= clock /\ ev \in Nat /\ ev <= clock
      /\ \A p \in Post, u \in User : since[p][u] \in Nat /\ post_interactions[p][u] \in Nat
      /\ since' \in [Post -> [User -> Nat]]
      /\ lost \in BOOLEAN
  <2>1. since' \in [Post -> [User -> Nat]] BY TypedKept DEF Typed
  <2> QED BY <2>1, ClockGrows DEF Typed, CacheOK, Times
<1>1. \A r \in Reader : reader[r].pc # "idle" => reader[r].now \in Nat /\ reader[r].now <= clock
  BY DEF Requests
<1>2. lost => lost'
  BY DEF Next, Tick, RecordReverse, RecordActive, RecordLog, RemoveReverse, RemoveActive, RemoveLog,
         RemoveCache, PruneReverse, PruneActive, PruneLog, PruneCache, CheckCache, Collect, Publish,
         Score, ghosts
<1>3. SUFFICES ASSUME ~lost' PROVE Goal
  <2>1. CASE lost' BY <2>1 DEF Covered, FreshWithinTTL
  <2>2. CASE ~lost'
    <3>1. Goal BY <1>3, <2>2
    <3>2. Covered' BY <3>1 DEF Covered, Belongs, BelongsAfter
    <3>3. FreshWithinTTL'
      <4> SUFFICES ASSUME NEW r \in Reader, Answered(r)', NEW p \in Post, NEW u \in User,
                          since'[p][u] # NoTime, since'[p][u] + TTL <= reader'[r].now,
                          post_interactions'[p][u] >= Monus(reader'[r].now, Window)
                   PROVE  p \in reader'[r].answer
        BY DEF FreshWithinTTL
      <4>1. reader'[r].now \in Nat BY RequestsKept DEF Requests, Answered
      <4>a. since'[p][u] \in Nat BY <1>0
      <4>2. since'[p][u] < reader'[r].now BY <4>1, <4>a
      <4> QED BY <3>1, <4>2 DEF BelongsAfter
    <3> QED BY <3>2, <3>3
  <2> QED BY <2>1, <2>2
<1>4. ~lost BY <1>2, <1>3
<1>5. ASSUME NEW now \in Nat, now <= clock, NEW p \in Post, NEW u \in User
      PROVE  BelongsAfter(p, u, now) => Belongs(p, u, now) /\ since'[p][u] = since[p][u]
  BY <1>5, BelongedBefore
<1>6. UNCHANGED velocity_cache => InCache
  BY <1>0, <1>4, <1>5 DEF Covered
<1>7. ASSUME NEW r \in Reader, UNCHANGED <<reader[r]>>
      PROVE  Scored(r) /\ InAnswer(r)
  <2>1. CASE Scoring(r)
    BY <1>1, <1>4, <1>5, <1>7, <2>1 DEF Covered, Scoring, Answered
  <2>2. CASE Answered(r)
    <3> DEFINE now == reader[r].now
    <3>1. now \in Nat /\ now <= clock BY <1>1, <2>2 DEF Answered
    <3>2. \A p \in Post, u \in User :
            (since[p][u] # NoTime /\ since[p][u] + TTL <= now
             /\ post_interactions[p][u] >= Monus(now, Window)) => p \in reader[r].answer
      BY <1>4, <2>2 DEF FreshWithinTTL
    <3>3. reader'[r].now = now /\ reader'[r].answer = reader[r].answer /\ ~Scoring(r)'
      BY <1>7, <2>2 DEF Scoring, Answered
    <3> HIDE DEF now
    <3>4. \A p \in Post, u \in User : Due(p, u, now) => p \in reader[r].answer
      BY <1>5, <3>1, <3>2 DEF Belongs
    <3> QED BY <3>3, <3>4
  <2>3. CASE ~Scoring(r) /\ ~Answered(r)
    BY <1>7, <2>3 DEF Scoring, Answered
  <2> QED BY <2>1, <2>2, <2>3
<1>8. ASSUME NEW r \in Reader, Others(r), Scored(r), InAnswer(r), InCache
      PROVE  Goal
  BY <1>7, <1>8 DEF Others
<1>9. ASSUME UNCHANGED reader, UNCHANGED velocity_cache \/ velocity_cache' = NoCache
      PROVE  Goal
  <2>1. velocity_cache' = NoCache => InCache
    BY <1>0 DEF NoCache, BelongsAfter
  <2> QED BY <1>6, <1>7, <1>9, <2>1
<1>10. ASSUME NEW r \in Reader, NEW now \in Monus(clock, RequestLife)..clock, CheckCache(r, now)
       PROVE  Goal
  <2>0. now \in Nat /\ now <= clock BY <1>0 DEF Monus
  <2>1. Others(r) /\ UNCHANGED velocity_cache BY <1>10, CheckCacheDoes
  <2>2. CASE reader'[r].pc = "collect"
    BY <1>6, <1>8, <2>1, <2>2 DEF Scoring, Answered
  <2>3. CASE CacheValidAt(now) /\ Answers(r, now, velocity_cache.candidates)
    <3>1. now < ev + TTL /\ ev <= now BY <1>0, <2>0, <2>3 DEF CacheValidAt
    <3>2. ASSUME NEW p \in Post, NEW u \in User, Due(p, u, now)
          PROVE  p \in velocity_cache.candidates
      <4>1. Belongs(p, u, now) /\ since[p][u] + TTL <= now BY <1>5, <2>0, <3>2
      <4>2. since[p][u] < ev BY <1>0, <2>0, <3>1, <4>1
      <4>3. post_interactions[p][u] >= Monus(ev, Window)
        BY <1>0, <2>0, <3>1, <4>1 DEF Belongs, Monus
      <4>4. Belongs(p, u, ev) BY <4>1, <4>2, <4>3 DEF Belongs
      <4> QED BY <1>4, <4>4 DEF Covered
    <3>3. Scored(r) /\ InAnswer(r) BY <2>3, <3>2 DEF Answers, Scoring
    <3> QED BY <1>6, <1>8, <2>1, <3>3
  <2> QED BY <1>10, <2>2, <2>3, CheckCacheDoes
<1>11. ASSUME NEW r \in Reader, Running(r)
       PROVE  /\ reader[r].now \in Nat /\ reader[r].now <= clock /\ clock <= reader[r].now + RequestLife
  BY <1>11 DEF Requests, Running
<1>12. ASSUME NEW r \in Reader, Collect(r)
       PROVE  Goal
  <2> DEFINE now == reader[r].now
  <2>0. now \in Nat /\ now <= clock /\ clock <= now + RequestLife
    BY <1>11, <1>12 DEF Collect, Running
  <2>1. /\ Others(r) /\ UNCHANGED velocity_cache /\ reader'[r].pc = "score" /\ reader'[r].now = now
        /\ reader'[r].pids =
             IF recent_active_log.count = 0
             THEN {p \in Post : /\ active_recent_posts[p] # NoTime
                                /\ active_recent_posts[p] >= Monus(now, Window)
                                /\ active_recent_posts[p] <= now}
             ELSE CollectCandidates(recent_active_log, Monus(now, Window), now)
    BY <1>12, CollectDoes
  <2> HIDE DEF now
  <2>2. ASSUME NEW p \in Post, NEW u \in User, BelongsAfter(p, u, now)
        PROVE  p \in reader'[r].pids
    <3> DEFINE t == post_interactions[p][u]
    <3>1. Belongs(p, u, now) BY <1>5, <2>0, <2>2
    <3>2. t # NoTime /\ t >= cutoff /\ t <= now BY <2>0, <3>1, BelongsIsEdge
    <3>3. t >= Monus(now, Window) BY <3>1 DEF Belongs
    <3>4. PICK i \in Used(recent_active_log) : recent_active_log.buffer[i] = Entry(t, p)
      BY <1>4, <3>1, <3>2 DEF LogCovers, Logged, Belongs
    <3>5. recent_active_log.count # 0 BY DEF Used, LogOK, Logs
    <3> HIDE DEF t
    <3>6. recent_active_log.buffer[i].ts = t /\ recent_active_log.buffer[i].post = p
      BY <3>4 DEF Entry
    <3>7. p \in CollectCandidates(recent_active_log, Monus(now, Window), now)
      BY <3>2, <3>3, <3>6 DEF CollectCandidates
    <3> QED BY <2>1, <3>5, <3>7
  <2>3. Scored(r) /\ InAnswer(r) BY <2>1, <2>2 DEF Answered
  <2> QED BY <1>6, <1>8, <2>1, <2>3
<1>13. ASSUME NEW r \in Reader, NEW p \in Post, Score(r, p)
       PROVE  Goal
  <2> DEFINE now == reader[r].now
  <2>0. now \in Nat /\ now <= clock /\ clock <= now + RequestLife
    BY <1>11, <1>13 DEF Score, Running
  <2>1. /\ Others(r) /\ UNCHANGED velocity_cache /\ reader'[r].pc = "score" /\ reader'[r].now = now
        /\ Scoring(r) /\ reader'[r].pids = reader[r].pids \ {p}
        /\ \/ reader'[r].scored = reader[r].scored
              /\ ~\E u \in User : /\ post_interactions[p][u] # NoTime
                                  /\ post_interactions[p][u] >= Monus(now, Window)
                                  /\ post_interactions[p][u] <= now
           \/ reader'[r].scored = reader[r].scored \cup {p}
    BY <1>13, ScoreDoes
  <2> HIDE DEF now
  <2>2. ASSUME NEW q \in Post, NEW u \in User, BelongsAfter(q, u, now)
        PROVE  q \in reader'[r].pids \cup reader'[r].scored
    <3>1. Belongs(q, u, now) BY <1>5, <2>0, <2>2
    <3>2. q \in reader[r].pids \cup reader[r].scored
      BY <1>4, <2>1, <3>1 DEF Covered, now
    <3>3. /\ post_interactions[q][u] # NoTime /\ post_interactions[q][u] >= Monus(now, Window)
          /\ post_interactions[q][u] <= now
      BY <2>0, <3>1, BelongsIsEdge DEF Belongs
    <3> QED BY <2>1, <3>2, <3>3
  <2>3. Scored(r) /\ InAnswer(r) BY <2>1, <2>2 DEF Answered
  <2> QED BY <1>6, <1>8, <2>1, <2>3
<1>14. ASSUME NEW r \in Reader, Publish(r)
       PROVE  Goal
  <2> DEFINE now == reader[r].now
  <2>0. now \in Nat /\ now <= clock
    BY <1>11, <1>14 DEF Publish, Running
  <2>1. /\ Others(r) /\ Scoring(r) /\ reader[r].pids = {} /\ Answers(r, now, reader[r].scored)
        /\ velocity_cache' = IF reader[r].scored = {} THEN velocity_cache
                             ELSE [evaluated_at |-> now, candidates |-> reader[r].scored]
    BY <1>14, PublishDoes
  <2> HIDE DEF now
  <2>2. ASSUME NEW p \in Post, NEW u \in User, BelongsAfter(p, u, now)
        PROVE  p \in reader[r].scored
    <3>1. Belongs(p, u, now) BY <1>5, <2>0, <2>2
    <3> QED BY <1>4, <2>1, <3>1 DEF Covered, now
  <2>3. Scored(r) /\ InAnswer(r) BY <2>1, <2>2 DEF Answers, Scoring
  <2>4. InCache
    <3>1. CASE reader[r].scored = {} BY <1>6, <2>1, <3>1
    <3>2. CASE reader[r].scored # {}
      <4>1. velocity_cache'.evaluated_at = now /\ velocity_cache'.candidates = reader[r].scored
        BY <2>1, <3>2
      <4> QED BY <2>2, <4>1
    <3> QED BY <3>1, <3>2
  <2> QED BY <1>8, <2>1, <2>3, <2>4
<1> HIDE DEF Goal
<1> QED BY <1>9, <1>10, <1>12, <1>13, <1>14, WhoMoves

-----------------------------------------------------------------------------
LEMMA InitEstablishes ==
  ASSUME Init
  PROVE  Inv
<1> USE Bounds
<1>1. PICK restored \in [Post -> 0..(BootTime - 1)], u \in User :
        LET active == {p \in Post : restored[p] # NoTime} IN
          /\ post_interactions =
               [p \in Post |-> [v \in User |-> IF v = u THEN restored[p] ELSE NoTime]]
          /\ since = post_interactions
          /\ active_recent_posts = restored
          /\ recorded = [p \in Post |-> {restored[p]} \ {NoTime}]
          /\ recent_active_log \in Refilled(restored, active)
          /\ lost = (Cardinality(active) > Capacity)
  BY DEF Init
<1> DEFINE active == {p \in Post : restored[p] # NoTime}
<1>2. /\ clock = 3 /\ velocity_cache = NoCache /\ step = "idle" /\ phase = "idle" /\ cutoff = 0
      /\ reader = [r \in Reader |-> Idle]
      /\ deleted_at = [p \in Post |-> NoTime] /\ overlapped = {}
  BY DEF Init, BootTime
<1>3. \A p \in Post : /\ restored[p] \in Nat /\ restored[p] < 3
                      /\ restored[p] \in {NoTime} \cup Times
                      /\ {restored[p]} \ {NoTime} \in SUBSET Times
  BY DEF BootTime, Times
<1>4. \A p \in Post, v \in User :
        /\ post_interactions[p][v] = IF v = u THEN restored[p] ELSE NoTime
        /\ since[p][v] = post_interactions[p][v]
  BY <1>1
<1>5. active \in SUBSET Post /\ recent_active_log \in Refilled(restored, active)
      /\ lost = (Cardinality(active) > Capacity)
  BY <1>1
<1>6. /\ IsFiniteSet(active) /\ Cardinality(active) \in Nat
      /\ LogOK(recent_active_log)
      /\ Cardinality(active) <= Capacity =>
           \A p \in active : \E k \in Used(recent_active_log) :
             recent_active_log.buffer[k] = Entry(restored[p], p)
  <2> DEFINE S == active
  <2>1. S \in SUBSET Post /\ S = {p \in Post : restored[p] # NoTime}
        /\ recent_active_log \in Refilled(restored, S)
    BY <1>5
  <2> HIDE DEF S, active
  <2>2. /\ IsFiniteSet(S) /\ Cardinality(S) \in Nat
        /\ LogOK(recent_active_log)
        /\ Cardinality(S) <= Capacity =>
             \A p \in S : \E k \in Used(recent_active_log) :
               recent_active_log.buffer[k] = Entry(restored[p], p)
    BY <2>1, RefilledCovers
  <2> QED BY <2>2 DEF S
<1>7. Typed
  <2>1. post_interactions \in [Post -> [User -> {NoTime} \cup Times]] BY <1>1, <1>3
  <2>2. active_recent_posts \in [Post -> {NoTime} \cup Times] BY <1>1, <1>3
  <2>3. since \in [Post -> [User -> Nat]] BY <1>1, <1>3
  <2>4. recorded \in [Post -> SUBSET Times] BY <1>1, <1>3
  <2>5. lost \in BOOLEAN
    <3> HIDE DEF active
    <3> QED BY <1>5
  <2>6. clock \in Times /\ cutoff \in Nat /\ cutoff <= Monus(clock, Retention)
    BY <1>2 DEF Times, Monus
  <2> QED BY <1>2, <2>1, <2>2, <2>3, <2>4, <2>5, <2>6 DEF Typed
<1>8. CacheOK
  BY <1>2 DEF CacheOK, NoCache
<1>9. Calls /\ Requests
  BY <1>2 DEF Calls, Recording, Removing, Requests, Running, Scoring, Answered, Idle
<1>10. Edges
  <2>1. \A p \in Post : restored[p] # NoTime => restored[p] \in recorded[p] BY <1>1
  <2> QED BY <1>2, <1>3, <1>4, <2>1 DEF Edges
<1>11. Windows /\ ServedWithinWindow
  BY <1>2 DEF Windows, ServedWithinWindow, Scoring, Answered, NoCache, Idle
<1>12. Gone
  BY <1>2 DEF Gone, Removing
<1>13. Deletions /\ DeletedServedBriefly
  BY <1>2 DEF Deletions, DeletedServedBriefly, Scoring, Answered, NoCache, Idle
<1>14. Sinces
  BY <1>2, <1>3, <1>4 DEF Sinces
<1>15. Pending
  BY <1>2 DEF Pending, Recording
<1>16. LogCovers
  <2> SUFFICES ASSUME ~lost, NEW p \in Post, NEW v \in User, post_interactions[p][v] # NoTime
               PROVE  Logged(recent_active_log, p, post_interactions[p][v])
    BY DEF LogCovers
  <2>1. post_interactions[p][v] = restored[p] /\ p \in active BY <1>4
  <2> HIDE DEF active
  <2>a. ~(Cardinality(active) > Capacity) BY <1>5, Zenon
  <2>2. Cardinality(active) <= Capacity BY <1>6, <2>a
  <2> QED BY <1>6, <2>1, <2>2 DEF Logged
<1>17. Covered /\ FreshWithinTTL
  <2>1. \A p \in Post, v \in User : since[p][v] \in Nat BY <1>7 DEF Typed
  <2> QED BY <1>2, <2>1 DEF Covered, FreshWithinTTL, Belongs, Scoring, Answered, NoCache, Idle
<1> QED BY <1>6, <1>7, <1>8, <1>9, <1>10, <1>11, <1>12, <1>13, <1>14, <1>15, <1>16, <1>17 DEF Inv

LEMMA NextKeeps ==
  ASSUME Inv, [Next]_vars
  PROVE  Inv'
<1>1. CASE Next
  <2> USE <1>1 DEF Inv
  <2>1. Typed' /\ CacheOK' /\ LogOK(recent_active_log)' /\ Calls' /\ Requests'
    <3>1. LogOK(recent_active_log') BY LogKept
    <3>2. LogOK(recent_active_log)' BY <3>1 DEF LogOK, Used
    <3>3. Typed' /\ CacheOK' BY TypedKept, CacheKept
    <3>4. Calls' /\ Requests' BY CallsKept, RequestsKept
    <3> QED BY <3>2, <3>3, <3>4
  <2>2. Edges' /\ Windows' /\ ServedWithinWindow' BY EdgesKept, WindowsKept
  <2>3. Gone' /\ Deletions' /\ DeletedServedBriefly' BY GoneKept, DeletionsKept
  <2>4. Sinces' /\ Pending' /\ LogCovers' /\ Covered' /\ FreshWithinTTL'
    BY SincesKept, PendingKept, LogCoversKept, CoveredKept
  <2> QED BY <2>1, <2>2, <2>3, <2>4
<1>2. CASE UNCHANGED vars
  BY <1>2 DEF vars, pool, writer, pruner, ghosts, Inv, Typed, CacheOK, LogOK, Used, Calls, Recording,
              Removing, Requests, Running, Scoring, Answered, Edges, Windows, ServedWithinWindow,
              Gone, HasNoEdges, Deletions, Expired, Explained, Held, Leaving,
              DeletedServedBriefly, Sinces, Pending, LogCovers, Logged, Covered, Belongs,
              FreshWithinTTL
<1> QED BY <1>1, <1>2

(* The invariant of the log, the cache, the requests and the indexes from  *)
(* which the theorems below are read off.                                  *)
THEOREM InvAlways == Spec => []Inv
<1>1. Init => Inv BY InitEstablishes
<1>2. Inv /\ [Next]_vars => Inv' BY NextKeeps
<1> QED BY <1>1, <1>2, PTL DEF Spec

(* The variables of the pool hold what their types in the code can, and    *)
(* the used slots of the ring buffer hold entries, however often it wraps  *)
(* and is compacted.                                                       *)
THEOREM PoolIsTyped == Spec => []TypeOK
<1>1. Inv => TypeOK BY DEF Inv, Typed, CacheOK, LogOK, Logs, Used, TypeOK
<1> QED BY <1>1, InvAlways, PTL

(* "Clock-warp safety": every post of every answer had an interaction no   *)
(* later than the request's own time and within the window and the cache's *)
(* lifetime before it.                                                     *)
THEOREM ServesTheWindow == Spec => []ServedWithinWindow
<1>1. Inv => ServedWithinWindow BY DEF Inv
<1> QED BY <1>1, InvAlways, PTL

(* remove_post against get_velocity_pool_candidates_at: a post that is     *)
(* deleted when an answer is given is in it only if a request was scoring  *)
(* while it was deleted, and for less than the TTL after the deletion.     *)
THEOREM DeletedLeaveThePool == Spec => []DeletedServedBriefly
<1>1. Inv => DeletedServedBriefly BY DEF Inv
<1> QED BY <1>1, InvAlways, PTL

(* While the ring buffer has lost nothing, an edge in the window that was  *)
(* recorded a TTL before a request is in its answer: neither the           *)
(* compaction of the buffer nor the cache hides it for longer.             *)
THEOREM FreshEdgesAreServed == Spec => []FreshWithinTTL
<1>1. Inv => FreshWithinTTL BY DEF Inv
<1> QED BY <1>1, InvAlways, PTL
=============================================================================
