-------------------------------- MODULE IdSpace --------------------------------
(***************************************************************************)
(* The identifiers that tie the in-memory stores together.  The interner   *)
(* (src/src/interner.rs) gives a string the identifier <<shard, local>>;   *)
(* every store holds identifiers only.  Three jobs handle all of them at   *)
(* once, one at a time behind the save slot: a compaction gives every      *)
(* string a new identifier, a save writes strings and stores to the file,  *)
(* and the load at boot reads them back (src/src/snapshot.rs).  Meanwhile  *)
(* the ingest consumer and the HTTP requests go on.                        *)
(*                                                                         *)
(* A store stands for its shards and their locks; edges stands for both    *)
(* directions of the interactions, follows and activity, which are         *)
(* collected, remapped, saved and loaded alike (topics are too, and travel *)
(* in the file with the metadata); blocks are collected and remapped but   *)
(* neither saved nor loaded.  Expiry removes entries as a deletion does    *)
(* and is left to it.                                                      *)
(***************************************************************************)
EXTENDS Integers, Sequences, FiniteSets, SequencesExt

CONSTANTS
  Did, Post,
  Author,      \* post -> the DID its URI names
  Shard,       \* the interner's shards
  ShardOf,     \* string -> the shard its hash selects
  Files,       \* the snapshot files the first boot may find
  MaxCalls,    \* bound on the calls of the two writers
  MaxCompactions, MaxSaves, MaxCrashes

String == Did \cup Post

NoString == "none"
Persisted == {"edges", "metadata", "preferences", "impressions"}
Stores == Persisted \cup {"blocks"}
Writers == {"ingest", "request"}
Idle == [op |-> "none", names |-> <<>>, ids |-> <<>>, missed |-> FALSE, raced |-> FALSE]

VARIABLES
  to_str,      \* shard -> its strings
  to_id,       \* string -> its position in its shard, or 0
  store,       \* store -> its entries
  writer,      \* writer -> the call it is in
  job,         \* what holds the save slot: "none", "compact", "save" or "load"
  todo,        \* its steps still to be done
  referenced,  \* the identifiers the compaction has collected
  id_map,      \* old identifier -> new identifier
  new_shards,  \* the preferences it has remapped and not yet swapped in
  draft,       \* the temporary file
  file,        \* the snapshot file
  kept,        \* store -> the names of entries that must be there
  promised,    \* kept, as of the beginning of the save
  base,        \* the stores, as of the beginning of the save
  calls, compactions, saves, crashes

interner == <<to_str, to_id>>
remapping == <<referenced, id_map, new_shards>>
saving == <<draft, promised, base>>
bounds == <<calls, compactions, saves, crashes>>
vars == <<interner, store, writer, job, todo, remapping, saving, file, kept, bounds>>

IdOf(s) == <<ShardOf[s], to_id[s]>>
Resolve(strings, id) ==
  IF id[2] \in 1..Len(strings[id[1]]) THEN strings[id[1]][id[2]] ELSE NoString
Entry(ids, names, sound) == [ids |-> ids, names |-> names, sound |-> sound]
Names(S) == {e.names : e \in S}
Resolves(strings, e) == \A i \in DOMAIN e.ids : Resolve(strings, e.ids[i]) = e.names[i]
Positions(s, strings) ==
  [x \in String |-> IF ShardOf[x] # s THEN to_id[x]
                    ELSE IF x \in ToSet(strings) THEN CHOOSE i \in 1..Len(strings) : strings[i] = x
                    ELSE 0]

(* The leading identifiers an entry is found by.                           *)
Key == [edges |-> 2, blocks |-> 2, metadata |-> 1, preferences |-> 1, impressions |-> 2]

(* The identifiers of an entry belong to its names one by one, and a store *)
(* has one entry for a key.                                                *)
Entries == [ids : Seq(Shard \X (Nat \ {0})), names : Seq(String), sound : BOOLEAN]
EntriesOK(st, S) ==
  /\ S \subseteq Entries
  /\ \A e \in S : Len(e.ids) = Len(e.names) /\ Len(e.ids) >= Key[st]
  /\ \A e, f \in S : SubSeq(e.ids, 1, Key[st]) = SubSeq(f.ids, 1, Key[st]) => e = f

(* Strings are in the shard of their hash, once.                           *)
StringsOK(strings) ==
  /\ strings \in [Shard -> Seq(String)]
  /\ \A s \in Shard : \A i, j \in 1..Len(strings[s]) :
       ShardOf[strings[s][i]] = s /\ (strings[s][i] = strings[s][j] => i = j)

(* Everything a file is to hold is in it, and its identifiers resolve in   *)
(* its own strings.                                                        *)
SelfContained(f) ==
  \A st \in Persisted :
    /\ f.kept[st] \subseteq Names({e \in f.store[st] : e.sound})
    /\ \A e \in f.store[st] : e.sound => Resolves(f.strings, e)

(* What a save may have left behind before the first boot.  No call of a   *)
(* process that is gone is expected to have left a block.                  *)
ASSUME IdSpaceAssumption ==
  /\ Author \in [Post -> Did] /\ ShardOf \in [String -> Shard]
  /\ NoString \notin String
  /\ \A f \in Files :
       /\ StringsOK(f.strings) /\ SelfContained(f) /\ f.kept["blocks"] = {}
       /\ f.store \in [Stores -> SUBSET Entries] /\ f.kept \in [Stores -> SUBSET Seq(String)]
       /\ \A st \in Stores : EntriesOK(st, f.store[st])
  /\ MaxCalls \in Nat /\ MaxCompactions \in Nat /\ MaxSaves \in Nat /\ MaxCrashes \in Nat

(* A step of a job: its turn, what it does and to which shard or store.    *)
(* Shards have the same turn: the threads of the load hydrate them in any  *)
(* order, and a compaction, which goes by index, may call any the first.   *)
Do(turn, verb, on) == [turn |-> turn, verb |-> verb, on |-> on]

LoadPlan == {Do(1, "hydrate", s) : s \in Shard} \cup
  {Do(2, "restore", "preferences"), Do(3, "restore", "impressions"),
   Do(4, "restore", "edges"), Do(5, "restore", "metadata")}

CompactPlan ==
  {Do(1, "collect", "edges"), Do(2, "collect", "blocks"), Do(3, "collect", "metadata"),
   Do(4, "collect", "preferences"), Do(5, "collect", "impressions")}
  \cup {Do(6, "compact", s) : s \in Shard} \cup
  {Do(7, "remap", "edges"), Do(8, "remap", "blocks"), Do(9, "remap", "metadata"),
   Do(10, "remap", "preferences"), Do(11, "swap", "preferences"), Do(12, "remap", "impressions")}

(* Mutant: the file is renamed before its last section is written.         *)
SavePlan_RenameEarly ==
  {Do(1, "strings", "all"), Do(2, "section", "edges"), Do(3, "section", "metadata"),
   Do(4, "section", "preferences"), Do(5, "rename", "all"), Do(6, "section", "impressions")}

SavePlan ==
  {Do(1, "strings", "all"), Do(2, "section", "edges"), Do(3, "section", "metadata"),
   Do(4, "section", "preferences"), Do(5, "section", "impressions"), Do(6, "rename", "all")}

EmptyStores == [st \in Stores |-> {}]
EmptyStrings == [s \in Shard |-> <<>>]
-----------------------------------------------------------------------------
NoWriters == [w \in Writers |-> Idle]
NoDraft == [strings |-> EmptyStrings, store |-> EmptyStores]

(* The process has just started and loads the file.                        *)
Init ==
  /\ to_str = EmptyStrings /\ to_id = [x \in String |-> 0] /\ store = EmptyStores
  /\ writer = NoWriters
  /\ job = "load" /\ todo = LoadPlan
  /\ referenced = {} /\ id_map = <<>> /\ new_shards = {}
  /\ draft = NoDraft /\ promised = EmptyStores /\ base = EmptyStores
  /\ file \in Files /\ kept = file.kept
  /\ calls = 0 /\ compactions = 0 /\ saves = 0 /\ crashes = 0

(* A call overlaps a job that moves identifiers if one is under way when   *)
(* it begins or begins while it runs.                                      *)
Begin(w, op, names, ids) ==
  /\ writer[w].op = "none" /\ calls < MaxCalls
  /\ calls' = calls + 1
  /\ writer' = [writer EXCEPT ![w] = [op |-> op, names |-> names, ids |-> ids, missed |-> FALSE,
                                      raced |-> job \in {"compact", "load"}]]
  /\ UNCHANGED <<interner, store, job, todo, remapping, saving, file, kept,
                 compactions, saves, crashes>>

(* The consumer is started after the load.  A deletion of a post nobody    *)
(* interned ends at once.                                                  *)
BeginLike(u, p) == job # "load" /\ Begin("ingest", "like", <<u, p>>, <<>>)
BeginBlock(u, v) == job # "load" /\ u # v /\ Begin("ingest", "block", <<u, v>>, <<>>)
BeginDelete(p) ==
  /\ job # "load" /\ to_id[p] # 0
  /\ Begin("ingest", "delete_edges", <<p>>, <<IdOf(p)>>)

BeginSetPreference(u) == Begin("request", "dials", <<u>>, <<>>)

(* A feed request ranks posts by identifier and resolves them; the viewer  *)
(* is interned only when the impressions are recorded.                     *)
BeginServeFeed(u) ==
  \E e \in store["edges"] :
    /\ Resolve(to_str, e.ids[2]) # NoString
    /\ Begin("request", "impression", <<Resolve(to_str, e.ids[2]), u>>, <<e.ids[2]>>)
-----------------------------------------------------------------------------
Wanted(w) == writer[w].names[Len(writer[w].ids) + 1]
Interning(w) == writer[w].op # "none" /\ Len(writer[w].ids) < Len(writer[w].names)
Learn(w, id) == writer' = [writer EXCEPT ![w].ids = Append(@, id), ![w].missed = FALSE]
Elsewhere == UNCHANGED <<store, job, todo, remapping, saving, file, kept, bounds>>

(* get_or_intern under the read lock.                                      *)
InternFast(w) ==
  /\ Interning(w) /\ ~writer[w].missed
  /\ IF to_id[Wanted(w)] # 0 THEN Learn(w, IdOf(Wanted(w)))
                             ELSE writer' = [writer EXCEPT ![w].missed = TRUE]
  /\ UNCHANGED interner
  /\ Elsewhere

(* Mutant: the second check is missing.                                    *)
InternSlow_NoRecheck(w) ==
  /\ Interning(w) /\ writer[w].missed
  /\ LET x == Wanted(w) IN
       /\ to_str' = [to_str EXCEPT ![ShardOf[x]] = Append(@, x)]
       /\ to_id' = [to_id EXCEPT ![x] = Len(to_str'[ShardOf[x]])]
       /\ Learn(w, <<ShardOf[x], Len(to_str'[ShardOf[x]])>>)
  /\ Elsewhere

(* get_or_intern under the write lock: checked again, then appended.       *)
InternSlow(w) ==
  /\ Interning(w) /\ writer[w].missed
  /\ LET x == Wanted(w) IN
       IF to_id[x] # 0
       THEN Learn(w, IdOf(x)) /\ UNCHANGED interner
       ELSE /\ to_str' = [to_str EXCEPT ![ShardOf[x]] = Append(@, x)]
            /\ to_id' = [to_id EXCEPT ![x] = Len(to_str[ShardOf[x]]) + 1]
            /\ Learn(w, <<ShardOf[x], Len(to_str[ShardOf[x]]) + 1>>)
  /\ Elsewhere
-----------------------------------------------------------------------------
Ready(w, op) == writer[w].op = op /\ ~Interning(w)
Finish(w) == writer' = [writer EXCEPT ![w] = Idle]
WriterOnly == UNCHANGED <<interner, job, todo, remapping, draft, base, file, bounds>>

(* An entry leaves a store because a writer replaces or removes it.        *)
Drop(st, old, new, sound) ==
  /\ store' = [store EXCEPT ![st] = (@ \ old) \cup new]
  /\ kept' = [kept EXCEPT ![st] = (@ \ Names(old)) \cup (IF sound THEN Names(new) ELSE {})]
  /\ promised' = [promised EXCEPT ![st] = @ \ Names(old)]

Put(w, st, ids, names) ==
  LET sound == ~writer[w].raced
      old == {e \in store[st] : SubSeq(e.ids, 1, Key[st]) = SubSeq(ids, 1, Key[st])}
  IN Drop(st, old, {Entry(ids, names, sound)}, sound)

(* A like of a post without metadata first interns the post's author and   *)
(* records a placeholder.                                                  *)
CheckMetadata ==
  LET c == writer["ingest"] IN
    /\ Ready("ingest", "like")
    /\ writer' = [writer EXCEPT !["ingest"] =
         IF \E e \in store["metadata"] : e.ids[1] = c.ids[2]
         THEN [c EXCEPT !.op = "edge"]
         ELSE [c EXCEPT !.op = "metadata", !.names = Append(@, Author[c.names[2]])]]
    /\ UNCHANGED interner
    /\ Elsewhere

RecordMetadata ==
  LET c == writer["ingest"] IN
    /\ Ready("ingest", "metadata")
    /\ Put("ingest", "metadata", <<c.ids[2], c.ids[3]>>, <<c.names[2], c.names[3]>>)
    /\ writer' = [writer EXCEPT !["ingest"].op = "edge"]
    /\ WriterOnly

(* An edge that is already there is left as it is.                         *)
RecordEdge ==
  LET c == writer["ingest"] IN
    /\ Ready("ingest", "edge")
    /\ IF \E e \in store["edges"] : e.ids = SubSeq(c.ids, 1, 2)
       THEN UNCHANGED <<store, kept, promised>>
       ELSE Put("ingest", "edges", SubSeq(c.ids, 1, 2), SubSeq(c.names, 1, 2))
    /\ Finish("ingest")
    /\ WriterOnly

RecordBlock ==
  LET c == writer["ingest"] IN
    /\ Ready("ingest", "block")
    /\ Put("ingest", "blocks", c.ids, c.names)
    /\ Finish("ingest")
    /\ WriterOnly

RemoveEdges ==
  LET id == writer["ingest"].ids[1] IN
    /\ Ready("ingest", "delete_edges")
    /\ Drop("edges", {e \in store["edges"] : e.ids[2] = id}, {}, FALSE)
    /\ writer' = [writer EXCEPT !["ingest"].op = "delete_metadata"]
    /\ WriterOnly

RemoveMetadata ==
  LET id == writer["ingest"].ids[1] IN
    /\ Ready("ingest", "delete_metadata")
    /\ Drop("metadata", {e \in store["metadata"] : e.ids[1] = id}, {}, FALSE)
    /\ Finish("ingest")
    /\ WriterOnly

SetPreference ==
  LET c == writer["request"] IN
    /\ Ready("request", "dials")
    /\ Put("request", "preferences", c.ids, c.names)
    /\ Finish("request")
    /\ WriterOnly

RecordImpression ==
  LET c == writer["request"] IN
    /\ Ready("request", "impression")
    /\ Put("request", "impressions", Reverse(c.ids), Reverse(c.names))
    /\ Finish("request")
    /\ WriterOnly
-----------------------------------------------------------------------------
(* Jobs.  Each holds the save slot and does the steps of its plan in turn. *)
Step(verb, on) ==
  \E x \in todo :
    /\ x.verb = verb /\ x.on = on /\ \A y \in todo : x.turn <= y.turn
    /\ todo' = todo \ {x}
    /\ job' = IF todo = {x} THEN "none" ELSE job
    /\ UNCHANGED <<bounds, writer>>

BeginCompact ==
  /\ job = "none" /\ compactions < MaxCompactions
  /\ job' = "compact" /\ todo' = CompactPlan
  /\ referenced' = {} /\ id_map' = <<>> /\ new_shards' = {}
  /\ writer' = [w \in Writers |-> [writer[w] EXCEPT !.raced = writer[w].op # "none"]]
  /\ compactions' = compactions + 1
  /\ UNCHANGED <<interner, store, saving, file, kept, calls, saves, crashes>>

(* Mutant: the impressions are not collected.                              *)
CollectReferenced_NoImpressions(st) ==
  /\ Step("collect", st)
  /\ referenced' = referenced \cup
       (IF st = "impressions" THEN {} ELSE UNION {ToSet(e.ids) : e \in store[st]})
  /\ UNCHANGED <<interner, store, id_map, new_shards, saving, file, kept>>

CollectReferenced(st) ==
  /\ Step("collect", st)
  /\ referenced' = referenced \cup UNION {ToSet(e.ids) : e \in store[st]}
  /\ UNCHANGED <<interner, store, id_map, new_shards, saving, file, kept>>

(* compact_referenced, one shard: the referenced strings close ranks in    *)
(* the order of their old identifiers.                                     *)
CompactShard(s) ==
  LET live == {l \in 1..Len(to_str[s]) : <<s, l>> \in referenced}
      place(l) == Cardinality({k \in live : k <= l})
      strings == [k \in 1..Cardinality(live) |-> to_str[s][CHOOSE l \in live : place(l) = k]]
  IN /\ Step("compact", s)
     /\ to_str' = [to_str EXCEPT ![s] = strings]
     /\ to_id' = Positions(s, strings)
     /\ id_map' = [id \in {<<s, l>> : l \in live} \cup DOMAIN id_map |->
                     IF id[1] = s THEN <<s, place(id[2])>> ELSE id_map[id]]
     /\ UNCHANGED <<store, referenced, new_shards, saving, file, kept>>

(* Entries whose identifiers are not all mapped are dropped, except that   *)
(* metadata keeps an unmapped author as it is.                             *)
Remapped(st) ==
  LET mapped(id) == IF id \in DOMAIN id_map THEN id_map[id] ELSE id
      must(e) == IF st = "metadata" THEN {e.ids[1]} ELSE ToSet(e.ids)
  IN {[e EXCEPT !.ids = [i \in DOMAIN e.ids |-> mapped(e.ids[i])]] :
        e \in {f \in store[st] : must(f) \subseteq DOMAIN id_map}}

(* The last store is done: the collected identifiers and the map are freed. *)
Free == IF job' = "none" THEN referenced' = {} /\ id_map' = <<>> /\ new_shards' = {}
                         ELSE UNCHANGED remapping

(* Mutant: impressions are not remapped.                                   *)
RemapStore_NoImpressions(st) ==
  /\ st # "preferences" /\ Step("remap", st)
  /\ store' = [store EXCEPT ![st] = IF st = "impressions" THEN @ ELSE Remapped(st)]
  /\ Free
  /\ UNCHANGED <<interner, saving, file, kept>>

RemapStore(st) ==
  /\ st # "preferences" /\ Step("remap", st)
  /\ store' = [store EXCEPT ![st] = Remapped(st)]
  /\ Free
  /\ UNCHANGED <<interner, saving, file, kept>>

(* Preferences are all read first and swapped in afterwards.               *)
RemapPreferences ==
  /\ Step("remap", "preferences")
  /\ new_shards' = Remapped("preferences")
  /\ UNCHANGED <<interner, store, referenced, id_map, saving, file, kept>>

SwapPreferences ==
  /\ Step("swap", "preferences")
  /\ store' = [store EXCEPT !["preferences"] = new_shards]
  /\ new_shards' = {}
  /\ UNCHANGED <<interner, referenced, id_map, saving, file, kept>>
-----------------------------------------------------------------------------
BeginSave ==
  /\ job = "none" /\ saves < MaxSaves
  /\ job' = "save" /\ todo' = SavePlan
  /\ promised' = kept /\ base' = store
  /\ saves' = saves + 1
  /\ UNCHANGED <<interner, store, writer, remapping, draft, file, kept,
                 calls, compactions, crashes>>

WriteStrings ==
  /\ Step("strings", "all")
  /\ draft' = [draft EXCEPT !.strings = to_str]
  /\ UNCHANGED <<interner, store, remapping, promised, base, file, kept>>

(* What a writer adds after the save has begun may name strings that are   *)
(* not in the file: such an entry is not vouched for.                      *)
WriteSection(st) ==
  /\ Step("section", st)
  /\ draft' = [draft EXCEPT !.store[st] =
                 {[e EXCEPT !.sound = @ /\ e \in base[st]] : e \in store[st]}]
  /\ UNCHANGED <<interner, store, remapping, promised, base, file, kept>>

RenameFile ==
  /\ Step("rename", "all")
  /\ file' = [strings |-> draft.strings, store |-> draft.store, kept |-> promised]
  /\ draft' = NoDraft /\ promised' = EmptyStores /\ base' = EmptyStores
  /\ UNCHANGED <<interner, store, remapping, kept>>
-----------------------------------------------------------------------------
Crash ==
  /\ crashes < MaxCrashes
  /\ to_str' = EmptyStrings /\ to_id' = [x \in String |-> 0] /\ store' = EmptyStores
  /\ writer' = NoWriters
  /\ job' = "load" /\ todo' = LoadPlan
  /\ referenced' = {} /\ id_map' = <<>> /\ new_shards' = {}
  /\ draft' = NoDraft /\ promised' = EmptyStores /\ base' = EmptyStores
  /\ kept' = file.kept
  /\ crashes' = crashes + 1
  /\ UNCHANGED <<file, calls, compactions, saves>>

HydrateShard(s) ==
  /\ Step("hydrate", s)
  /\ to_str' = [to_str EXCEPT ![s] = file.strings[s]]
  /\ to_id' = Positions(s, file.strings[s])
  /\ UNCHANGED <<store, remapping, saving, file, kept>>

(* What a request had put into the store is replaced.                      *)
RestoreStore(st) ==
  /\ Step("restore", st)
  /\ store' = [store EXCEPT ![st] = file.store[st]]
  /\ UNCHANGED <<interner, remapping, saving, file, kept>>
-----------------------------------------------------------------------------
Calls ==
  \/ \E u \in Did, p \in Post : BeginLike(u, p)
  \/ \E p \in Post : BeginDelete(p)
  \/ \E u, v \in Did : BeginBlock(u, v)
  \/ \E u \in Did : BeginSetPreference(u) \/ BeginServeFeed(u)
  \/ \E w \in Writers : InternFast(w) \/ InternSlow(w)
  \/ CheckMetadata \/ RecordMetadata \/ RecordEdge \/ RecordBlock \/ RemoveEdges \/ RemoveMetadata
  \/ SetPreference \/ RecordImpression

JobSteps ==
  \/ BeginCompact \/ RemapPreferences \/ SwapPreferences
  \/ BeginSave \/ WriteStrings \/ RenameFile \/ Crash
  \/ \E s \in Shard : CompactShard(s) \/ HydrateShard(s)
  \/ \E st \in Stores :
       CollectReferenced(st) \/ RemapStore(st) \/ WriteSection(st) \/ RestoreStore(st)

Next == Calls \/ JobSteps

Spec == Init /\ [][Next]_vars
-----------------------------------------------------------------------------
InternerIsBijective ==
  /\ \A s \in Shard : \A i \in 1..Len(to_str[s]) :
       ShardOf[to_str[s][i]] = s /\ to_id[to_str[s][i]] = i
  /\ \A x \in String : to_id[x] # 0 => Resolve(to_str, IdOf(x)) = x

(* The two halves of the interner agree: a string has one identifier and   *)
(* an identifier one string, whatever calls and jobs overlap (the second   *)
(* check of get_or_intern); a store has one entry for a key.               *)
TypeOK ==
  /\ to_str \in [Shard -> Seq(String)] /\ to_id \in [String -> Nat]
  /\ InternerIsBijective
  /\ \A st \in Stores : EntriesOK(st, store[st])
  /\ job \in {"none", "compact", "save", "load"} /\ (job = "none") = (todo = {})

(* When no job runs, an entry written by a call that overlapped neither a  *)
(* compaction nor the load still names the strings it was written for,     *)
(* after any number of compactions, saves and restarts.                    *)
RefsResolve ==
  job = "none" => \A st \in Stores : \A e \in store[st] :
    e.sound => Resolves(to_str, e)

(* A compaction or a restart forgets nothing that a call outside of it     *)
(* recorded (before the save, for a restart) and no later call removed;    *)
(* blocks are not expected to survive a restart.                           *)
NothingForgotten ==
  job = "none" => \A st \in Stores : st \in Persisted \/ crashes = 0 =>
    kept[st] \subseteq Names({e \in store[st] : e.sound})

(* The snapshot file can be read on its own: what was recorded before the  *)
(* save began is in the file, and its identifiers resolve in the file's    *)
(* strings, although calls go on while the sections are written.           *)
FileSelfContained == SelfContained(file)

(* What "so compaction never corrupts impression history" says: when no    *)
(* job runs, an impression names its own viewer and post, or no one.       *)
ImpressionsIntact ==
  job = "none" => \A e \in store["impressions"] : \A i \in DOMAIN e.ids :
    Resolve(to_str, e.ids[i]) \in {e.names[i], NoString}

(* What "Hydrates the entire graph and interner" says of the blocks, which *)
(* the graph store holds: a restart brings back those that were recorded   *)
(* before the snapshot.                                                    *)
BlocksHydrated ==
  job = "none" => kept["blocks"] \subseteq Names(store["blocks"])
=============================================================================
