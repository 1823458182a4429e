----------------------------- MODULE IdSpaceProofs -----------------------------
(***************************************************************************)
(* No interleaving of calls with compactions, saves, crashes and loads     *)
(* makes an identifier name another string, or lose what it names: for any *)
(* strings, shards and hashes, and any number of calls and jobs.           *)
(***************************************************************************)
EXTENDS IdSpace, FiniteSetTheorems, WellFoundedInduction, TLAPS

(* What remains of the plan of the job under way, and its turns.           *)
Left(verb, on) == \E x \in todo : x.verb = verb /\ x.on = on

PlanOf(j) ==
  CASE j = "load" -> LoadPlan [] j = "compact" -> CompactPlan [] j = "save" -> SavePlan
    [] OTHER -> {}

JobOK ==
  /\ job \in {"none", "compact", "save", "load"} /\ (job = "none" <=> todo = {})
  /\ todo \subseteq PlanOf(job)
  /\ \A x \in todo, y \in PlanOf(job) : x.turn < y.turn => y \in todo

InternerOK ==
  /\ to_str \in [Shard -> Seq(String)] /\ to_id \in [String -> Nat]
  /\ InternerIsBijective

(* The call of a writer, by its operation.                                 *)
Ids == Shard \X (Nat \ {0})
Consuming == {"like", "metadata", "edge", "block", "delete_edges", "delete_metadata"}
Serving == {"dials", "impression"}
Width(op) ==
  CASE op \in {"like", "block", "impression"} -> {2} [] op = "metadata" -> {3}
    [] op = "edge" -> {2, 3} [] op \in {"dials", "delete_edges", "delete_metadata"} -> {1}
    [] OTHER -> {0}

CallOK(w) ==
  LET c == writer[w] IN
    /\ c.op = "none" \/ c.op \in (IF w = "ingest" THEN Consuming ELSE Serving)
    /\ c.names \in Seq(String) /\ Len(c.names) \in Width(c.op)
    /\ c.ids \in Seq(Ids) /\ Len(c.ids) <= Len(c.names)
    /\ c.op = "edge" => Len(c.ids) = Len(c.names)
    /\ c.op \in {"metadata", "edge"} => Len(c.ids) >= 2
    /\ c.op \in {"delete_edges", "delete_metadata"} => Len(c.ids) = 1
    /\ c.op = "like" => c.names[2] \in Post
    /\ job = "load" /\ w = "ingest" => c.op = "none"

(* A call that no compaction and no load has overlapped has the right      *)
(* identifiers so far.                                                     *)
Undisturbed(w) ==
  writer[w].op # "none" /\ ~writer[w].raced =>
    /\ job \in {"none", "save"}
    /\ \A k \in 1..Len(writer[w].ids) : Resolve(to_str, writer[w].ids[k]) = writer[w].names[k]

Callers ==
  /\ writer \in [Writers -> [op : {"none"} \cup Consuming \cup Serving, names : Seq(String),
                             ids : Seq(Ids), missed : BOOLEAN, raced : BOOLEAN]]
  /\ \A w \in Writers : CallOK(w) /\ Undisturbed(w)

StoresOK ==
  /\ store \in [Stores -> SUBSET Entries]
  /\ \A st \in Stores : EntriesOK(st, store[st])
  /\ job = "load" => store["blocks"] = {}

(* The map of a compaction: one new position for each old one, in the      *)
(* shards that are done.                                                   *)
MapOK ==
  /\ DOMAIN id_map \subseteq Ids
  /\ \A id \in DOMAIN id_map :
       /\ id_map[id] \in Ids /\ id_map[id][1] = id[1]
       /\ job = "compact" => ~Left("compact", id[1])
  /\ \A id, jd \in DOMAIN id_map : id_map[id] = id_map[jd] => id = jd

(* Before a store is remapped its identifiers are the old ones: they       *)
(* resolve where the shard has yet to be compacted, and are in the map     *)
(* where it has been.                                                      *)
Tracked(e, collected) ==
  \A i \in DOMAIN e.ids :
    IF Left("compact", e.ids[i][1])
    THEN Resolve(to_str, e.ids[i]) = e.names[i] /\ (collected => e.ids[i] \in referenced)
    ELSE e.ids[i] \in DOMAIN id_map /\ Resolve(to_str, id_map[e.ids[i]]) = e.names[i]

Moved(st) == IF st = "preferences" THEN ~Left("swap", st) ELSE ~Left("remap", st)

Sound(S) == {e \in S : e.sound}

(* What a sound entry is worth while each of the jobs is under way.        *)
SoundOK ==
  \A st \in Stores : \A e \in Sound(store[st]) :
    /\ job # "compact" => Resolves(to_str, e)
    /\ job = "compact" => IF Moved(st) THEN Resolves(to_str, e)
                          ELSE Tracked(e, ~Left("collect", st))
    /\ job = "load" => ~Left("restore", st)

SwapOK ==
  /\ EntriesOK("preferences", new_shards)
  /\ job = "compact" /\ ~Left("remap", "preferences") /\ Left("swap", "preferences") =>
       /\ \A e \in Sound(new_shards) : Resolves(to_str, e)
       /\ kept["preferences"] \subseteq Names(Sound(new_shards))

(* What must be in a store is in it, or is about to be restored.           *)
KeptOK ==
  /\ kept \in [Stores -> SUBSET Seq(String)] /\ crashes \in Nat
  /\ \A st \in Stores : st \in Persisted \/ crashes = 0 =>
       kept[st] \subseteq Names(Sound(IF job = "load" /\ Left("restore", st) THEN file.store[st]
                                                                           ELSE store[st]))

(* What a load has hydrated so far is what the file says.                  *)
LoadOK ==
  job = "load" =>
    \A s \in Shard : ~Left("hydrate", s) =>
      \A k \in 1..Len(file.strings[s]) :
        k \in 1..Len(to_str[s]) /\ to_str[s][k] = file.strings[s][k]

FileOK ==
  /\ StringsOK(file.strings) /\ SelfContained(file)
  /\ file.store \in [Stores -> SUBSET Entries] /\ file.kept \in [Stores -> SUBSET Seq(String)]
  /\ \A st \in Stores : EntriesOK(st, file.store[st])

(* The temporary file.  Its strings are those of a moment when all that    *)
(* was there at the beginning of the save could be resolved.               *)
DraftOK ==
  /\ StringsOK(draft.strings)
  /\ draft \in [strings : [Shard -> Seq(String)], store : [Stores -> SUBSET Entries]]
  /\ base \in [Stores -> SUBSET Entries]
  /\ \A st \in Stores : EntriesOK(st, draft.store[st]) /\ EntriesOK(st, base[st])
  /\ promised \in [Stores -> SUBSET Seq(String)]

SaveOK ==
  job = "save" =>
    \A st \in Persisted :
      /\ \A e \in Sound(base[st]) :
           /\ Resolves(to_str, e)
           /\ ~Left("strings", "all") => Resolves(draft.strings, e)
      /\ promised[st] \subseteq
           Names(Sound(IF Left("section", st) THEN store[st] \cap base[st] ELSE draft.store[st]))
      /\ ~Left("section", st) => \A e \in Sound(draft.store[st]) : Resolves(draft.strings, e)

Inv ==
  /\ JobOK /\ InternerOK /\ Callers /\ StoresOK /\ MapOK /\ SoundOK /\ SwapOK /\ KeptOK
  /\ LoadOK /\ FileOK /\ DraftOK /\ SaveOK
-----------------------------------------------------------------------------
(***************************************************************************)
(* Plans.                                                                  *)
(***************************************************************************)

LEMMA PlansOnce ==
  ASSUME NEW j, NEW x \in PlanOf(j), NEW y \in PlanOf(j), x.verb = y.verb, x.on = y.on
  PROVE  x = y
BY DEF PlanOf, LoadPlan, CompactPlan, SavePlan, Do

(* A step takes what is due, and nothing else.                             *)
LEMMA StepTakes ==
  ASSUME JobOK, NEW verb, NEW on, Step(verb, on)
  PROVE  /\ JobOK' /\ Left(verb, on) /\ ~Left(verb, on)'
         /\ \A v, o : ~(v = verb /\ o = on) => (Left(v, o)' <=> Left(v, o))
         /\ job # "none" /\ job' \in {job, "none"} /\ (job' = "none" => \A v, o : ~Left(v, o)')
         /\ UNCHANGED <<bounds, writer>>
<1>1. PICK x \in todo :
        /\ x.verb = verb /\ x.on = on /\ \A y \in todo : x.turn <= y.turn
        /\ todo' = todo \ {x} /\ job' = IF todo = {x} THEN "none" ELSE job
        /\ UNCHANGED <<bounds, writer>>
  BY DEF Step
<1>2. \A y \in todo : y.verb = verb /\ y.on = on => y = x
  BY <1>1, PlansOnce DEF JobOK
<1>3. JobOK'
  <2>1. \A y \in PlanOf(job) : y.turn \in Nat
    BY DEF PlanOf, LoadPlan, CompactPlan, SavePlan, Do
  <2>2. CASE todo = {x}
    BY <1>1, <2>2 DEF JobOK, PlanOf
  <2>3. CASE todo # {x}
    <3>1. job' = job /\ todo' # {} /\ job # "none" /\ todo' \subseteq PlanOf(job')
      BY <1>1, <2>3 DEF JobOK
    <3>2. \A z \in todo', y \in PlanOf(job') : z.turn < y.turn => y \in todo'
      BY <1>1, <3>1, <2>1 DEF JobOK
    <3> QED BY <3>1, <3>2 DEF JobOK
  <2> QED BY <2>2, <2>3
<1> QED BY <1>1, <1>2, <1>3 DEF Left, JobOK

(* It comes after everything with an earlier turn and before everything    *)
(* with a later one.                                                       *)
LEMMA StepInTurn ==
  ASSUME JobOK, NEW verb, NEW on, Step(verb, on)
  PROVE  \E n \in Nat :
           /\ Do(n, verb, on) \in PlanOf(job)
           /\ \A t, v, o : Do(t, v, o) \in PlanOf(job) =>
                t \in Nat /\ (t > n => Left(v, o)) /\ (t < n => ~Left(v, o))
<1>1. PICK x \in todo : x.verb = verb /\ x.on = on /\ \A y \in todo : x.turn <= y.turn
  BY DEF Step
<1>2. \A y \in PlanOf(job) : y.turn \in Nat /\ y = Do(y.turn, y.verb, y.on)
  BY DEF PlanOf, LoadPlan, CompactPlan, SavePlan, Do
<1>3. \A y \in PlanOf(job) : y.turn > x.turn => Left(y.verb, y.on)
  BY <1>1 DEF JobOK, Left
<1>4. ASSUME NEW y \in PlanOf(job), y.turn < x.turn PROVE ~Left(y.verb, y.on)
  <2>1. \A z \in todo : z.verb = y.verb /\ z.on = y.on => z = y
    BY PlansOnce DEF JobOK
  <2> QED BY <1>1, <1>2, <1>4, <2>1 DEF JobOK, Left
<1>5. \A t, v, o : /\ Do(t, v, o).turn = t /\ Do(t, v, o).verb = v /\ Do(t, v, o).on = o
  BY DEF Do
<1>6. x \in PlanOf(job)
  BY DEF JobOK
<1>7. x.turn \in Nat /\ Do(x.turn, verb, on) \in PlanOf(job)
  BY <1>1, <1>2, <1>6
<1>8. ASSUME NEW t, NEW v, NEW o, Do(t, v, o) \in PlanOf(job)
      PROVE  t \in Nat /\ (t > x.turn => Left(v, o)) /\ (t < x.turn => ~Left(v, o))
  BY <1>2, <1>3, <1>4, <1>5, <1>8
<1> QED BY <1>7, <1>8

(* The plans as tables.                                                    *)
LEMMA PlanTurns ==
  /\ job = "load" =>
       /\ \A s \in Shard : Do(1, "hydrate", s) \in PlanOf(job)
       /\ \A st \in Persisted : \E t \in 2..5 : Do(t, "restore", st) \in PlanOf(job)
  /\ job = "compact" =>
       /\ \A st \in Stores : \E t \in 1..5 : Do(t, "collect", st) \in PlanOf(job)
       /\ \A s \in Shard : Do(6, "compact", s) \in PlanOf(job)
       /\ \A st \in Stores : \E t \in 7..12 : Do(t, "remap", st) \in PlanOf(job)
       /\ Do(10, "remap", "preferences") \in PlanOf(job)
       /\ Do(11, "swap", "preferences") \in PlanOf(job)
       /\ Do(12, "remap", "impressions") \in PlanOf(job)
  /\ job = "save" =>
       /\ Do(1, "strings", "all") \in PlanOf(job)
       /\ \A st \in Persisted : \E t \in 2..5 : Do(t, "section", st) \in PlanOf(job)
       /\ Do(6, "rename", "all") \in PlanOf(job)
<1>1. ASSUME job = "load"
      PROVE  /\ \A s \in Shard : Do(1, "hydrate", s) \in PlanOf(job)
             /\ \A st \in Persisted : \E t \in 2..5 : Do(t, "restore", st) \in PlanOf(job)
  BY <1>1 DEF PlanOf, LoadPlan, Persisted
<1>2. ASSUME job = "compact"
      PROVE  /\ \A st \in Stores : \E t \in 1..5 : Do(t, "collect", st) \in PlanOf(job)
             /\ \A s \in Shard : Do(6, "compact", s) \in PlanOf(job)
             /\ \A st \in Stores : \E t \in 7..12 : Do(t, "remap", st) \in PlanOf(job)
             /\ Do(10, "remap", "preferences") \in PlanOf(job)
             /\ Do(11, "swap", "preferences") \in PlanOf(job)
             /\ Do(12, "remap", "impressions") \in PlanOf(job)
  BY <1>2 DEF PlanOf, CompactPlan, Stores, Persisted
<1>3. ASSUME job = "save"
      PROVE  /\ Do(1, "strings", "all") \in PlanOf(job)
             /\ \A st \in Persisted : \E t \in 2..5 : Do(t, "section", st) \in PlanOf(job)
             /\ Do(6, "rename", "all") \in PlanOf(job)
  BY <1>3 DEF PlanOf, SavePlan, Persisted
<1> QED BY <1>1, <1>2, <1>3

LEMMA TurnsOf ==
  ASSUME NEW j \in {"none", "compact", "save", "load"}, NEW n \in Nat, NEW verb, NEW on,
         Do(n, verb, on) \in PlanOf(j)
  PROVE  /\ verb = "hydrate" => j = "load" /\ n = 1
         /\ verb = "restore" => j = "load" /\ n \in 2..5 /\ on \in Persisted
         /\ verb = "collect" => j = "compact" /\ n \in 1..5 /\ on \in Stores
         /\ verb = "compact" => j = "compact" /\ n = 6
         /\ verb = "remap" => j = "compact" /\ n \in 7..12 /\ on \in Stores
         /\ verb = "remap" /\ on = "preferences" => n = 10
         /\ verb = "swap" => j = "compact" /\ n = 11
         /\ verb = "strings" => j = "save" /\ n = 1
         /\ verb = "section" => j = "save" /\ n \in 2..5 /\ on \in Persisted
         /\ verb = "rename" => j = "save" /\ n = 6
BY DEF PlanOf, LoadPlan, CompactPlan, SavePlan, Do, Stores, Persisted

LEMMA LoadTurns ==
  ASSUME JobOK
  PROVE  /\ \A s \in Shard : Step("hydrate", s) =>
              job = "load" /\ job' = "load" /\ \A st \in Persisted : Left("restore", st)
         /\ \A st : Step("restore", st) =>
              job = "load" /\ st \in Persisted /\ \A s \in Shard : ~Left("hydrate", s)
<1>1. ASSUME NEW s \in Shard, Step("hydrate", s)
      PROVE  job = "load" /\ job' = "load" /\ \A st \in Persisted : Left("restore", st)
  <2>1. PICK n \in Nat :
           /\ Do(n, "hydrate", s) \in PlanOf(job)
           /\ \A t, v, o : Do(t, v, o) \in PlanOf(job) =>
                t \in Nat /\ (t > n => Left(v, o)) /\ (t < n => ~Left(v, o))
    BY <1>1, StepInTurn
  <2>2. job = "load" /\ n = 1
    BY <2>1, TurnsOf DEF JobOK
  <2>3. \A st \in Persisted : Left("restore", st)
    BY <2>1, <2>2, PlanTurns
  <2>4. ~(\A v, o : ~Left(v, o)')
    BY <1>1, <2>3, StepTakes DEF Persisted
  <2> QED BY <1>1, <2>2, <2>3, <2>4, StepTakes
<1>2. ASSUME NEW st, Step("restore", st)
      PROVE  job = "load" /\ st \in Persisted /\ \A s \in Shard : ~Left("hydrate", s)
  <2>1. PICK n \in Nat :
           /\ Do(n, "restore", st) \in PlanOf(job)
           /\ \A t, v, o : Do(t, v, o) \in PlanOf(job) =>
                t \in Nat /\ (t > n => Left(v, o)) /\ (t < n => ~Left(v, o))
    BY <1>2, StepInTurn
  <2>2. job = "load" /\ n > 1 /\ st \in Persisted
    BY <2>1, TurnsOf DEF JobOK
  <2> QED BY <2>1, <2>2, PlanTurns
<1> QED BY <1>1, <1>2

LEMMA CompactTurns ==
  ASSUME JobOK
  PROVE  /\ \A st : Step("collect", st) =>
              /\ job = "compact" /\ job' = "compact" /\ st \in Stores
              /\ \A s \in Shard : Left("compact", s)
              /\ \A t \in Stores : Left("remap", t) /\ Left("swap", "preferences")
         /\ \A s \in Shard : Step("compact", s) =>
              /\ job = "compact" /\ job' = "compact"
              /\ \A t \in Stores : ~Left("collect", t) /\ Left("remap", t) /\ Left("swap", "preferences")
         /\ \A st : Step("remap", st) =>
              /\ job = "compact" /\ st \in Stores
              /\ \A s \in Shard : ~Left("compact", s)
              /\ st = "preferences" => job' = "compact" /\ Left("swap", "preferences")
         /\ Step("swap", "preferences") =>
              /\ job = "compact" /\ job' = "compact" /\ ~Left("remap", "preferences")
              /\ \A s \in Shard : ~Left("compact", s)
<1>0. ASSUME NEW v, NEW o, NEW v2, NEW o2, Step(v, o), Left(v2, o2), ~(v = v2 /\ o = o2) PROVE job' = job
  BY <1>0, StepTakes
<1>1. ASSUME NEW st, Step("collect", st)
      PROVE  /\ job = "compact" /\ job' = "compact" /\ st \in Stores
             /\ \A s \in Shard : Left("compact", s)
             /\ \A t \in Stores : Left("remap", t) /\ Left("swap", "preferences")
  <2>1. PICK n \in Nat :
           /\ Do(n, "collect", st) \in PlanOf(job)
           /\ \A t, v, o : Do(t, v, o) \in PlanOf(job) =>
                t \in Nat /\ (t > n => Left(v, o)) /\ (t < n => ~Left(v, o))
    BY <1>1, StepInTurn
  <2>2. job = "compact" /\ n < 6 /\ st \in Stores
    BY <2>1, TurnsOf DEF JobOK
  <2>3. \A s \in Shard : Left("compact", s)
    BY <2>1, <2>2, PlanTurns
  <2>4. \A t \in Stores : Left("remap", t) /\ Left("swap", "preferences")
    BY <2>1, <2>2, PlanTurns
  <2> QED BY <1>0, <1>1, <2>2, <2>3, <2>4 DEF Stores, Persisted
<1>2. ASSUME NEW s \in Shard, Step("compact", s)
      PROVE  /\ job = "compact" /\ job' = "compact"
             /\ \A t \in Stores : ~Left("collect", t) /\ Left("remap", t) /\ Left("swap", "preferences")
  <2>1. PICK n \in Nat :
           /\ Do(n, "compact", s) \in PlanOf(job)
           /\ \A t, v, o : Do(t, v, o) \in PlanOf(job) =>
                t \in Nat /\ (t > n => Left(v, o)) /\ (t < n => ~Left(v, o))
    BY <1>2, StepInTurn
  <2>2. job = "compact" /\ n = 6
    BY <2>1, TurnsOf DEF JobOK
  <2>3. \A t \in Stores : ~Left("collect", t)
    BY <2>1, <2>2, PlanTurns
  <2>4. \A t \in Stores : Left("remap", t) /\ Left("swap", "preferences")
    BY <2>1, <2>2, PlanTurns
  <2> QED BY <1>0, <1>2, <2>2, <2>3, <2>4 DEF Stores, Persisted
<1>3. ASSUME NEW st, Step("remap", st)
      PROVE  /\ job = "compact" /\ st \in Stores
             /\ \A s \in Shard : ~Left("compact", s)
             /\ st = "preferences" => job' = "compact" /\ Left("swap", "preferences")
  <2>1. PICK n \in Nat :
           /\ Do(n, "remap", st) \in PlanOf(job)
           /\ \A t, v, o : Do(t, v, o) \in PlanOf(job) =>
                t \in Nat /\ (t > n => Left(v, o)) /\ (t < n => ~Left(v, o))
    BY <1>3, StepInTurn
  <2>2. job = "compact" /\ n > 6 /\ st \in Stores /\ (st = "preferences" => n = 10)
    BY <2>1, TurnsOf DEF JobOK
  <2>3. \A s \in Shard : ~Left("compact", s)
    BY <2>1, <2>2, PlanTurns
  <2>4. st = "preferences" => Left("swap", "preferences")
    BY <2>1, <2>2, PlanTurns
  <2> QED BY <1>0, <1>3, <2>2, <2>3, <2>4
<1>4. ASSUME Step("swap", "preferences")
      PROVE  /\ job = "compact" /\ job' = "compact" /\ ~Left("remap", "preferences")
             /\ \A s \in Shard : ~Left("compact", s)
  <2>1. PICK n \in Nat :
           /\ Do(n, "swap", "preferences") \in PlanOf(job)
           /\ \A t, v, o : Do(t, v, o) \in PlanOf(job) =>
                t \in Nat /\ (t > n => Left(v, o)) /\ (t < n => ~Left(v, o))
    BY <1>4, StepInTurn
  <2>2. job = "compact" /\ n = 11
    BY <2>1, TurnsOf DEF JobOK
  <2>3. ~Left("remap", "preferences") /\ Left("remap", "impressions")
    BY <2>1, <2>2, PlanTurns
  <2>4. \A s \in Shard : ~Left("compact", s)
    BY <2>1, <2>2, PlanTurns
  <2> QED BY <1>0, <1>4, <2>2, <2>3, <2>4
<1> QED BY <1>1, <1>2, <1>3, <1>4

LEMMA SaveTurns ==
  ASSUME JobOK
  PROVE  /\ Step("strings", "all") =>
              job = "save" /\ job' = "save" /\ \A st \in Persisted : Left("section", st)
         /\ \A st : Step("section", st) =>
              job = "save" /\ job' = "save" /\ st \in Persisted /\ ~Left("strings", "all")
         /\ Step("rename", "all") =>
              /\ job = "save" /\ job' = "none" /\ ~Left("strings", "all")
              /\ \A st \in Persisted : ~Left("section", st)
<1>0. ASSUME NEW v, NEW o, NEW v2, NEW o2, Step(v, o), Left(v2, o2), ~(v = v2 /\ o = o2) PROVE job' = job
  BY <1>0, StepTakes
<1>1. ASSUME Step("strings", "all")
      PROVE  job = "save" /\ job' = "save" /\ \A st \in Persisted : Left("section", st)
  <2>1. PICK n \in Nat :
           /\ Do(n, "strings", "all") \in PlanOf(job)
           /\ \A t, v, o : Do(t, v, o) \in PlanOf(job) =>
                t \in Nat /\ (t > n => Left(v, o)) /\ (t < n => ~Left(v, o))
    BY <1>1, StepInTurn
  <2>2. job = "save" /\ n = 1
    BY <2>1, TurnsOf DEF JobOK
  <2>3. \A st \in Persisted : Left("section", st)
    BY <2>1, <2>2, PlanTurns
  <2> QED BY <1>0, <1>1, <2>2, <2>3 DEF Persisted
<1>2. ASSUME NEW st, Step("section", st)
      PROVE  job = "save" /\ job' = "save" /\ st \in Persisted /\ ~Left("strings", "all")
  <2>1. PICK n \in Nat :
           /\ Do(n, "section", st) \in PlanOf(job)
           /\ \A t, v, o : Do(t, v, o) \in PlanOf(job) =>
                t \in Nat /\ (t > n => Left(v, o)) /\ (t < n => ~Left(v, o))
    BY <1>2, StepInTurn
  <2>2. job = "save" /\ n \in 2..5 /\ st \in Persisted
    BY <2>1, TurnsOf DEF JobOK
  <2>3. ~Left("strings", "all") /\ Left("rename", "all")
    BY <2>1, <2>2, PlanTurns
  <2> QED BY <1>0, <1>2, <2>2, <2>3
<1>3. ASSUME Step("rename", "all")
      PROVE  /\ job = "save" /\ job' = "none" /\ ~Left("strings", "all")
             /\ \A st \in Persisted : ~Left("section", st)
  <2>1. PICK n \in Nat :
           /\ Do(n, "rename", "all") \in PlanOf(job)
           /\ \A t, v, o : Do(t, v, o) \in PlanOf(job) =>
                t \in Nat /\ (t > n => Left(v, o)) /\ (t < n => ~Left(v, o))
    BY <1>3, StepInTurn
  <2>2. job = "save" /\ n = 6
    BY <2>1, TurnsOf DEF JobOK
  <2>3. ~Left("strings", "all") /\ \A st \in Persisted : ~Left("section", st)
    BY <2>1, <2>2, PlanTurns
  <2>4. job' = "none"
    <3>1. PICK z \in todo : /\ z.verb = "rename" /\ z.on = "all" /\ \A y \in todo : z.turn <= y.turn
                            /\ todo' = todo \ {z} /\ job' = IF todo = {z} THEN "none" ELSE job
      BY <1>3 DEF Step
    <3>2. z.turn = 6 /\ \A y \in todo : y.turn >= 6
      BY <2>2, <3>1 DEF JobOK, PlanOf, SavePlan, Do
    <3>3. \A y \in todo : y = z
      BY <2>2, <3>1, <3>2 DEF JobOK, PlanOf, SavePlan, Do
    <3> QED BY <3>1, <3>3
  <2> QED BY <2>2, <2>3, <2>4
<1> QED BY <1>1, <1>2, <1>3

-----------------------------------------------------------------------------
(***************************************************************************)
(* Strings and identifiers.                                                *)
(***************************************************************************)

(* Strings are only added.                                                 *)
Extends(old, new) ==
  \A s \in Shard : \A k \in 1..Len(old[s]) : k \in 1..Len(new[s]) /\ new[s][k] = old[s][k]

LEMMA StillResolves ==
  ASSUME NEW old, NEW new, Extends(old, new), NEW id \in Ids, Resolve(old, id) # NoString
  PROVE  Resolve(new, id) = Resolve(old, id)
BY DEF Extends, Resolve, Ids

LEMMA EntryShape ==
  ASSUME NEW st \in Stores, NEW S, EntriesOK(st, S), NEW e \in S
  PROVE  /\ e \in Entries /\ DOMAIN e.ids = 1..Len(e.ids) /\ DOMAIN e.names = 1..Len(e.ids)
         /\ Len(e.ids) = Len(e.names) /\ Len(e.ids) \in Nat
         /\ \A i \in DOMAIN e.ids : e.ids[i] \in Ids /\ e.names[i] \in String /\ e.names[i] # NoString
<1>1. e \in Entries /\ Len(e.ids) = Len(e.names)
  BY DEF EntriesOK
<1>2. e.ids \in Seq(Ids) /\ e.names \in Seq(String)
  BY <1>1 DEF Entries, Ids
<1> QED BY <1>1, <1>2, IdSpaceAssumption

LEMMA EntryStillResolves ==
  ASSUME NEW old, NEW new, Extends(old, new), NEW st \in Stores, NEW S, EntriesOK(st, S),
         NEW e \in S, Resolves(old, e)
  PROVE  Resolves(new, e)
<1> SUFFICES ASSUME NEW i \in DOMAIN e.ids PROVE Resolve(new, e.ids[i]) = e.names[i]
  BY DEF Resolves
<1>1. e.ids[i] \in Ids /\ e.names[i] # NoString
  BY EntryShape
<1>2. Resolve(old, e.ids[i]) = e.names[i]
  BY DEF Resolves
<1> QED BY <1>1, <1>2, StillResolves

LEMMA ExtendsItself == \A strings : Extends(strings, strings)
BY DEF Extends

(* The identifier of an interned string.                                   *)
LEMMA IdOfResolves ==
  ASSUME InternerOK, NEW x \in String, to_id[x] # 0
  PROVE  IdOf(x) \in Ids /\ Resolve(to_str, IdOf(x)) = x
BY IdSpaceAssumption DEF InternerOK, InternerIsBijective, IdOf, Ids

(* A string nobody has interned gets a new identifier, the others keep     *)
(* theirs.                                                                 *)
LEMMA InternAppends ==
  ASSUME InternerOK, NEW x \in String, to_id[x] = 0,
         to_str' = [to_str EXCEPT ![ShardOf[x]] = Append(@, x)],
         to_id' = [to_id EXCEPT ![x] = Len(to_str[ShardOf[x]]) + 1],
         NEW id, id = <<ShardOf[x], Len(to_str[ShardOf[x]]) + 1>>
  PROVE  InternerOK' /\ Extends(to_str, to_str') /\ id \in Ids /\ Resolve(to_str', id) = x
<1> DEFINE s == ShardOf[x]
           n == Len(to_str[s])
<1>1. s \in Shard /\ to_str[s] \in Seq(String) /\ n \in Nat
  <2>1. s \in Shard
    BY IdSpaceAssumption
  <2>2. to_str[s] \in Seq(String)
    BY <2>1 DEF InternerOK
  <2> QED BY <2>1, <2>2
<1>2. /\ to_str' \in [Shard -> Seq(String)] /\ to_id' \in [String -> Nat]
      /\ Len(to_str'[s]) = n + 1 /\ to_str'[s][n + 1] = x
      /\ \A k \in 1..n : to_str'[s][k] = to_str[s][k]
      /\ \A z \in Shard \ {s} : to_str'[z] = to_str[z]
  BY <1>1 DEF InternerOK
<1>3. to_id'[x] = n + 1 /\ \A y \in String \ {x} : to_id'[y] = to_id[y]
  BY <1>1 DEF InternerOK
<1>4. \A z \in Shard : Len(to_str[z]) \in Nat /\ \A i \in 1..Len(to_str[z]) : to_str[z][i] \in String
  BY DEF InternerOK
<1>5. Extends(to_str, to_str')
  BY <1>1, <1>2, <1>4 DEF Extends
<1>6. id \in Ids /\ Resolve(to_str', id) = x
  BY <1>1, <1>2 DEF Ids, Resolve
<1>7. ASSUME NEW z \in Shard, NEW i \in 1..Len(to_str'[z])
      PROVE  ShardOf[to_str'[z][i]] = z /\ to_id'[to_str'[z][i]] = i
  <2>1. CASE z = s /\ i = n + 1
    BY <1>2, <1>3, <2>1
  <2>2. CASE ~(z = s /\ i = n + 1)
    <3>1. i \in 1..Len(to_str[z]) /\ to_str'[z][i] = to_str[z][i]
      BY <1>1, <1>2, <1>4, <2>2
    <3>2. ShardOf[to_str[z][i]] = z /\ to_id[to_str[z][i]] = i
      BY <3>1 DEF InternerOK, InternerIsBijective
    <3>3. to_str[z][i] # x /\ to_str[z][i] \in String
      BY <1>4, <3>1, <3>2
    <3> QED BY <1>3, <3>1, <3>2, <3>3
  <2> QED BY <2>1, <2>2
<1>8. ASSUME NEW y \in String, to_id'[y] # 0 PROVE Resolve(to_str', <<ShardOf[y], to_id'[y]>>) = y
  <2>1. CASE y = x
    BY <1>3, <1>6, <2>1
  <2>2. CASE y # x
    <3>1. to_id'[y] = to_id[y] /\ to_id[y] # 0
      BY <1>3, <1>8, <2>2
    <3>2. Resolve(to_str, IdOf(y)) = y /\ IdOf(y) \in Ids /\ y # NoString
      BY <3>1, IdOfResolves, IdSpaceAssumption
    <3>3. Resolve(to_str', IdOf(y)) = y
      BY <1>5, <3>2, StillResolves
    <3> QED BY <3>1, <3>3 DEF IdOf
  <2> QED BY <2>1, <2>2
<1>9. InternerOK'
  BY <1>2, <1>7, <1>8 DEF InternerOK, InternerIsBijective, IdOf
<1> QED BY <1>5, <1>6, <1>9

(* A shard is given other strings, each once: their positions in it are    *)
(* their new identifiers.                                                  *)
LEMMA ShardReplaced ==
  ASSUME InternerOK, NEW s \in Shard, NEW strings \in Seq(String),
         \A i, j \in 1..Len(strings) :
           ShardOf[strings[i]] = s /\ (strings[i] = strings[j] => i = j),
         to_str' = [to_str EXCEPT ![s] = strings], to_id' = Positions(s, strings)
  PROVE  InternerOK'
<1>1. /\ to_str' \in [Shard -> Seq(String)] /\ to_str'[s] = strings
      /\ \A z \in Shard \ {s} : to_str'[z] = to_str[z]
  BY DEF InternerOK
<1>2. Len(strings) \in Nat /\ \A i \in 1..Len(strings) : strings[i] \in String
  OBVIOUS
<1>3. \A x : x \in ToSet(strings) <=> \E i \in 1..Len(strings) : strings[i] = x
  BY DEF ToSet
<1>4. ASSUME NEW x \in String, ShardOf[x] = s
      PROVE  /\ to_id'[x] \in Nat
             /\ to_id'[x] # 0 => to_id'[x] \in 1..Len(strings) /\ strings[to_id'[x]] = x
  <2>1. CASE x \in ToSet(strings)
    <3>1. to_id'[x] = CHOOSE i \in 1..Len(strings) : strings[i] = x
      BY <1>4, <2>1 DEF Positions
    <3> QED BY <1>2, <1>3, <2>1, <3>1
  <2>2. CASE x \notin ToSet(strings)
    BY <1>4, <2>2 DEF Positions
  <2> QED BY <2>1, <2>2
<1>5. \A i \in 1..Len(strings) : to_id'[strings[i]] = i
  <2> SUFFICES ASSUME NEW i \in 1..Len(strings) PROVE to_id'[strings[i]] = i
    OBVIOUS
  <2>1. to_id'[strings[i]] = CHOOSE j \in 1..Len(strings) : strings[j] = strings[i]
    BY <1>2, <1>3 DEF Positions
  <2> QED BY <2>1
<1>6. \A x \in String : ShardOf[x] # s => to_id'[x] = to_id[x]
  BY DEF Positions
<1>7. to_id' \in [String -> Nat]
  <2>1. \A x \in String : to_id'[x] \in Nat
    BY <1>4, <1>6 DEF InternerOK
  <2> QED BY <2>1 DEF Positions
<1>8. ASSUME NEW z \in Shard, NEW i \in 1..Len(to_str'[z])
      PROVE  ShardOf[to_str'[z][i]] = z /\ to_id'[to_str'[z][i]] = i
  <2>1. CASE z = s
    BY <1>1, <1>5, <2>1
  <2>2. CASE z # s
    <3>1. i \in 1..Len(to_str[z]) /\ to_str'[z][i] = to_str[z][i] /\ to_str[z][i] \in String
      BY <1>1, <2>2 DEF InternerOK
    <3>2. ShardOf[to_str[z][i]] = z /\ to_id[to_str[z][i]] = i
      BY <3>1 DEF InternerOK, InternerIsBijective
    <3> QED BY <1>6, <2>2, <3>1, <3>2
  <2> QED BY <2>1, <2>2
<1>9. ASSUME NEW y \in String, to_id'[y] # 0 PROVE Resolve(to_str', <<ShardOf[y], to_id'[y]>>) = y
  <2>1. CASE ShardOf[y] = s
    <3>1. to_id'[y] \in 1..Len(strings) /\ strings[to_id'[y]] = y
      BY <1>4, <1>9, <2>1
    <3> QED BY <1>1, <2>1, <3>1 DEF Resolve
  <2>2. CASE ShardOf[y] # s
    <3>1. to_id'[y] = to_id[y] /\ to_id[y] # 0
      BY <1>6, <1>9, <2>2
    <3>2. Resolve(to_str, <<ShardOf[y], to_id[y]>>) = y
      BY <3>1 DEF InternerOK, InternerIsBijective, IdOf
    <3>3. to_str'[ShardOf[y]] = to_str[ShardOf[y]]
      BY <1>1, <2>2, IdSpaceAssumption
    <3> QED BY <3>1, <3>2, <3>3 DEF Resolve
  <2> QED BY <2>1, <2>2
<1>10. InternerOK'
  BY <1>1, <1>7, <1>8, <1>9 DEF InternerOK, InternerIsBijective, IdOf
<1> QED BY <1>10

-----------------------------------------------------------------------------
(***************************************************************************)
(* What is left alone stays right while strings are added.                 *)
(***************************************************************************)

LEMMA TrackedStays ==
  ASSUME MapOK, Extends(to_str, to_str'), UNCHANGED <<todo, referenced, id_map>>,
         NEW st \in Stores, NEW S, EntriesOK(st, S), NEW e \in S, NEW collected \in BOOLEAN,
         Tracked(e, collected)
  PROVE  Tracked(e, collected)'
<1> SUFFICES ASSUME NEW i \in DOMAIN e.ids
             PROVE  IF Left("compact", e.ids[i][1])'
                    THEN Resolve(to_str', e.ids[i]) = e.names[i] /\ (collected => e.ids[i] \in referenced')
                    ELSE e.ids[i] \in DOMAIN id_map' /\ Resolve(to_str', id_map'[e.ids[i]]) = e.names[i]
  BY DEF Tracked
<1>1. e.ids[i] \in Ids /\ e.names[i] # NoString
  BY EntryShape
<1>2. Left("compact", e.ids[i][1])' <=> Left("compact", e.ids[i][1])
  BY DEF Left
<1>3. CASE Left("compact", e.ids[i][1])
  BY <1>1, <1>2, <1>3, StillResolves DEF Tracked
<1>4. CASE ~Left("compact", e.ids[i][1])
  <2>1. e.ids[i] \in DOMAIN id_map /\ Resolve(to_str, id_map[e.ids[i]]) = e.names[i]
    BY <1>4 DEF Tracked
  <2>2. id_map[e.ids[i]] \in Ids
    BY <2>1 DEF MapOK
  <2> QED BY <1>1, <1>2, <1>4, <2>1, <2>2, StillResolves
<1> QED BY <1>3, <1>4

LEMMA InternerGrows ==
  ASSUME Inv, Extends(to_str, to_str'),
         UNCHANGED <<store, job, todo, remapping, saving, file, kept, crashes>>
  PROVE  /\ JobOK' /\ StoresOK' /\ MapOK' /\ SoundOK' /\ SwapOK' /\ KeptOK'
         /\ LoadOK' /\ FileOK' /\ DraftOK' /\ SaveOK'
<1>0. \A v, o : Left(v, o)' <=> Left(v, o)
  BY DEF Left
<1>1. JobOK' /\ StoresOK'
  BY DEF Inv, JobOK, StoresOK
<1>2. MapOK'
  BY <1>0 DEF Inv, MapOK, remapping
<1>3. SoundOK'
  <2> SUFFICES ASSUME NEW st \in Stores, NEW e \in Sound(store[st])
               PROVE  /\ job # "compact" => Resolves(to_str', e)
                      /\ job = "compact" => IF Moved(st) THEN Resolves(to_str', e)
                                            ELSE Tracked(e, ~Left("collect", st))'
                      /\ job = "load" => ~Left("restore", st)
    BY <1>0 DEF SoundOK, Moved
  <2>1. e \in store[st] /\ EntriesOK(st, store[st])
    BY DEF Sound, Inv, StoresOK
  <2>2. Resolves(to_str, e) => Resolves(to_str', e)
    BY <2>1, EntryStillResolves
  <2>3. ASSUME Tracked(e, ~Left("collect", st)) PROVE Tracked(e, ~Left("collect", st))'
    <3> DEFINE c == ~Left("collect", st)
    <3>1. c \in BOOLEAN /\ Tracked(e, c) /\ (Left("collect", st)' <=> Left("collect", st))
      BY <1>0, <2>3
    <3> QED BY <3>1, <1>0, <2>1, TrackedStays DEF Inv, remapping, Tracked
  <2> QED BY <2>2, <2>3 DEF Inv, SoundOK
<1>4. SwapOK' /\ KeptOK'
  <2>1. SwapOK'
    <3>1. \A e \in Sound(new_shards) : Resolves(to_str, e) => Resolves(to_str', e)
      BY EntryStillResolves DEF Inv, SwapOK, Sound, Stores, Persisted
    <3> QED BY <1>0, <3>1 DEF Inv, SwapOK, remapping, Sound
  <2>2. KeptOK'
    BY <1>0 DEF Inv, KeptOK, Sound
  <2> QED BY <2>1, <2>2
<1>5. LoadOK' /\ FileOK'
  BY <1>0 DEF Inv, LoadOK, FileOK, Extends
<1>6. DraftOK' /\ SaveOK'
  <2>1. DraftOK'
    BY DEF Inv, DraftOK, saving
  <2>2. ASSUME NEW st \in Persisted, NEW e \in Sound(base[st]), Resolves(to_str, e)
        PROVE  Resolves(to_str', e)
    BY <2>2, EntryStillResolves DEF Inv, DraftOK, Sound, Stores
  <2>3. SaveOK'
    BY <1>0, <2>2 DEF Inv, SaveOK, saving, Sound
  <2> QED BY <2>1, <2>3
<1> QED BY <1>1, <1>2, <1>3, <1>4, <1>5, <1>6

-----------------------------------------------------------------------------
(***************************************************************************)
(* The calls of the writers, up to their last identifier.                  *)
(***************************************************************************)
Call == [op : {"none"} \cup Consuming \cup Serving, names : Seq(String),
         ids : Seq(Ids), missed : BOOLEAN, raced : BOOLEAN]

LEMMA Widths ==
  /\ Width("like") = {2} /\ Width("block") = {2} /\ Width("impression") = {2}
  /\ Width("metadata") = {3} /\ Width("edge") = {2, 3} /\ Width("dials") = {1}
  /\ Width("delete_edges") = {1} /\ Width("delete_metadata") = {1} /\ Width("none") = {0}
BY DEF Width

LEMMA CallFields ==
  ASSUME NEW c \in Call
  PROVE  /\ c.op \in {"none"} \cup Consuming \cup Serving /\ c.names \in Seq(String)
         /\ c.ids \in Seq(Ids) /\ c.missed \in BOOLEAN /\ c.raced \in BOOLEAN
BY DEF Call

LEMMA CallShape ==
  ASSUME Callers, NEW w \in Writers
  PROVE  /\ writer[w] \in Call /\ Len(writer[w].ids) \in Nat /\ Len(writer[w].names) \in Nat
         /\ \A k \in 1..Len(writer[w].ids) : writer[w].ids[k] \in Ids
         /\ \A k \in 1..Len(writer[w].names) : writer[w].names[k] \in String /\ writer[w].names[k] # NoString
         /\ Len(writer[w].ids) <= Len(writer[w].names)
<1>1. writer[w] \in Call
  BY DEF Callers, Call
<1>2. writer[w].ids \in Seq(Ids) /\ writer[w].names \in Seq(String)
  BY <1>1 DEF Call
<1>3. Len(writer[w].ids) <= Len(writer[w].names)
  BY DEF Callers, CallOK
<1>4. Len(writer[w].ids) \in Nat /\ \A k \in 1..Len(writer[w].ids) : writer[w].ids[k] \in Ids
  BY <1>2
<1>5. Len(writer[w].names) \in Nat /\ \A k \in 1..Len(writer[w].names) : writer[w].names[k] \in String
  BY <1>2
<1> QED BY <1>1, <1>3, <1>4, <1>5, IdSpaceAssumption

LEMMA CallerStays ==
  ASSUME Callers, NEW w \in Writers, writer'[w] = writer[w],
         job' = "load" => job = "load",
         job \in {"none", "save"} => job' \in {"none", "save"} /\ Extends(to_str, to_str')
  PROVE  CallOK(w)' /\ Undisturbed(w)'
<1>1. CallOK(w)'
  BY DEF Callers, CallOK
<1>2. Undisturbed(w)'
  <2> SUFFICES ASSUME writer[w].op # "none", ~writer[w].raced, NEW k \in 1..Len(writer[w].ids)
               PROVE  job' \in {"none", "save"} /\ Resolve(to_str', writer[w].ids[k]) = writer[w].names[k]
    BY DEF Undisturbed, Callers
  <2>1. job \in {"none", "save"} /\ Resolve(to_str, writer[w].ids[k]) = writer[w].names[k]
    BY DEF Undisturbed, Callers
  <2>2. writer[w].ids[k] \in Ids /\ writer[w].names[k] # NoString
    BY CallShape
  <2> QED BY <2>1, <2>2, StillResolves
<1> QED BY <1>1, <1>2

LEMMA CallersStay ==
  ASSUME Callers, UNCHANGED writer, job' = "load" => job = "load",
         job \in {"none", "save"} => job' \in {"none", "save"} /\ Extends(to_str, to_str')
  PROVE  Callers'
<1>1. \A w \in Writers : CallOK(w)' /\ Undisturbed(w)'
  BY CallerStays
<1> QED BY <1>1 DEF Callers

(* One writer makes a step of its call.                                    *)
LEMMA CallerMoves ==
  ASSUME Callers, NEW w \in Writers, NEW c \in Call, writer' = [writer EXCEPT ![w] = c],
         UNCHANGED job, Extends(to_str, to_str'), CallOK(w)', Undisturbed(w)'
  PROVE  Callers'
<1>1. writer' \in [Writers -> Call]
  BY DEF Callers, Call
<1>2. \A v \in Writers : v # w => writer'[v] = writer[v]
  BY DEF Callers
<1>3. \A v \in Writers : CallOK(v)' /\ Undisturbed(v)'
  BY <1>2, CallerStays
<1> QED BY <1>1, <1>3 DEF Callers, Call

LEMMA IdleCall ==
  /\ Idle \in Call /\ Idle.op = "none" /\ Idle.names = <<>> /\ Idle.ids = <<>>
  /\ Width("none") = {0}
BY DEF Idle, Call, Width

LEMMA Finished ==
  ASSUME Callers, NEW w \in Writers, Finish(w), UNCHANGED <<job, to_str>>
  PROVE  Callers'
<1>1. writer' = [writer EXCEPT ![w] = Idle] /\ writer'[w] = Idle
  BY DEF Finish, Callers
<1>2. CallOK(w)' /\ Undisturbed(w)'
  <2>1. writer'[w].op = "none" /\ writer'[w].names = <<>> /\ writer'[w].ids = <<>>
    BY <1>1, IdleCall
  <2>2. <<>> \in Seq(String) /\ <<>> \in Seq(Ids) /\ Len(<<>>) = 0
    OBVIOUS
  <2> QED BY <2>1, <2>2, IdleCall DEF CallOK, Undisturbed
<1> QED BY <1>1, <1>2, IdleCall, ExtendsItself, CallerMoves

LEMMA JobTest == \A j, S : (j \in S) \in BOOLEAN
OBVIOUS

LEMMA BeginKeepsInv ==
  ASSUME Inv, NEW w \in Writers, NEW op, NEW names \in Seq(String), NEW ids \in Seq(Ids),
         Begin(w, op, names, ids), Len(names) \in Width(op), Len(ids) <= Len(names),
         op \in (IF w = "ingest" THEN {"like", "block", "delete_edges"} ELSE Serving),
         op = "delete_edges" => Len(ids) = 1, op = "like" => names[2] \in Post,
         job = "load" => w # "ingest",
         \A k \in 1..Len(ids) : Resolve(to_str, ids[k]) = names[k]
  PROVE  Inv'
<1> DEFINE overlaps == job \in {"compact", "load"}
           c == [op |-> op, names |-> names, ids |-> ids, missed |-> FALSE, raced |-> overlaps]
<1>1. /\ writer' = [writer EXCEPT ![w] = c] /\ UNCHANGED <<to_str, to_id, job, crashes>>
      /\ UNCHANGED <<store, todo, remapping, saving, file, kept>>
  BY DEF Begin, interner
<1>2. c \in Call /\ writer'[w] = c
  <2>1. op \in Consuming \cup Serving
    BY DEF Consuming
  <2>2. overlaps \in BOOLEAN
    BY JobTest
  <2>3. c \in Call
    <3> HIDE DEF overlaps
    <3> QED BY <2>1, <2>2 DEF Call
  <2> QED BY <1>1, <2>3 DEF Inv, Callers
<1> HIDE DEF c
<1>3. c.op = op /\ c.names = names /\ c.ids = ids /\ (~c.raced => job \notin {"compact", "load"})
  BY DEF c
<1>4. op # "none" /\ op \notin {"edge", "metadata", "delete_metadata"}
  BY DEF Serving
<1>6. CallOK(w)'
  <2>1. op \in (IF w = "ingest" THEN Consuming ELSE Serving)
    BY DEF Consuming
  <2> QED BY <1>1, <1>2, <1>3, <1>4, <2>1 DEF CallOK
<1>7. Undisturbed(w)'
  BY <1>1, <1>2, <1>3 DEF Undisturbed, Inv, JobOK
<1>5. Callers' /\ InternerOK' /\ Extends(to_str, to_str')
  BY <1>1, <1>2, <1>6, <1>7, ExtendsItself, CallerMoves DEF Inv, InternerOK, InternerIsBijective, IdOf
<1> QED BY <1>1, <1>5, InternerGrows DEF Inv

LEMMA BeginsKeepInv ==
  ASSUME Inv
  PROVE  /\ \A u \in Did, p \in Post : BeginLike(u, p) => Inv'
         /\ \A p \in Post : BeginDelete(p) => Inv'
         /\ \A u, v \in Did : BeginBlock(u, v) => Inv'
         /\ \A u \in Did : (BeginSetPreference(u) => Inv') /\ (BeginServeFeed(u) => Inv')
<1> USE DEF Writers
<1>1. ASSUME NEW u \in Did, NEW p \in Post, BeginLike(u, p) PROVE Inv'
  <2>1. <<u, p>> \in Seq(String) /\ Len(<<u, p>>) \in Width("like") /\ <<u, p>>[2] \in Post
    BY DEF String, Width
  <2>2. <<>> \in Seq(Ids) /\ Len(<<>>) <= Len(<<u, p>>) /\ \A k \in 1..Len(<<>>) : FALSE
    OBVIOUS
  <2>3. job # "load" /\ Begin("ingest", "like", <<u, p>>, <<>>)
    BY <1>1 DEF BeginLike
  <2> QED BY <2>1, <2>2, <2>3, BeginKeepsInv
<1>2. ASSUME NEW p \in Post, BeginDelete(p) PROVE Inv'
  <2>1. p \in String /\ IdOf(p) \in Ids /\ Resolve(to_str, IdOf(p)) = p
    BY <1>2, IdOfResolves DEF BeginDelete, Inv, String
  <2>2. <<p>> \in Seq(String) /\ <<IdOf(p)>> \in Seq(Ids) /\ Len(<<p>>) \in Width("delete_edges")
    BY <2>1 DEF Width
  <2>3. \A k \in 1..Len(<<IdOf(p)>>) : Resolve(to_str, <<IdOf(p)>>[k]) = <<p>>[k]
    BY <2>1
  <2>4. job # "load" /\ Begin("ingest", "delete_edges", <<p>>, <<IdOf(p)>>)
    BY <1>2 DEF BeginDelete
  <2>5. Len(<<IdOf(p)>>) = 1 /\ Len(<<IdOf(p)>>) <= Len(<<p>>)
    OBVIOUS
  <2> QED BY <2>2, <2>3, <2>4, <2>5, BeginKeepsInv
<1>3. ASSUME NEW u \in Did, NEW v \in Did, BeginBlock(u, v) PROVE Inv'
  <2>1. <<u, v>> \in Seq(String) /\ Len(<<u, v>>) \in Width("block")
    BY DEF String, Width
  <2>2. <<>> \in Seq(Ids) /\ Len(<<>>) <= Len(<<u, v>>) /\ \A k \in 1..Len(<<>>) : FALSE
    OBVIOUS
  <2>3. job # "load" /\ Begin("ingest", "block", <<u, v>>, <<>>)
    BY <1>3 DEF BeginBlock
  <2> QED BY <2>1, <2>2, <2>3, BeginKeepsInv
<1>4. ASSUME NEW u \in Did, BeginSetPreference(u) PROVE Inv'
  <2>1. <<u>> \in Seq(String) /\ Len(<<u>>) \in Width("dials")
    BY DEF String, Width
  <2>2. <<>> \in Seq(Ids) /\ Len(<<>>) <= Len(<<u>>) /\ \A k \in 1..Len(<<>>) : FALSE
    OBVIOUS
  <2>3. Begin("request", "dials", <<u>>, <<>>) /\ "dials" \in Serving
    BY <1>4 DEF BeginSetPreference, Serving
  <2> QED BY <2>1, <2>2, <2>3, BeginKeepsInv
<1>5. ASSUME NEW u \in Did, BeginServeFeed(u) PROVE Inv'
  <2>1. PICK e \in store["edges"] :
          /\ Resolve(to_str, e.ids[2]) # NoString
          /\ Begin("request", "impression", <<Resolve(to_str, e.ids[2]), u>>, <<e.ids[2]>>)
    BY <1>5 DEF BeginServeFeed
  <2> DEFINE id == e.ids[2]
             x == Resolve(to_str, id)
  <2>2. id \in Ids
    <3>1. "edges" \in Stores /\ EntriesOK("edges", store["edges"])
      BY DEF Inv, StoresOK, Stores, Persisted
    <3>2. Len(e.ids) >= 2
      BY <3>1 DEF EntriesOK, Key
    <3> QED BY <3>1, <3>2, EntryShape
  <2>3. x \in String
    BY <2>1, <2>2 DEF Resolve, Ids, Inv, InternerOK
  <2>4. <<x, u>> \in Seq(String) /\ Len(<<x, u>>) \in Width("impression") /\ <<id>> \in Seq(Ids)
    BY <2>2, <2>3 DEF String, Width
  <2>5. \A k \in 1..Len(<<id>>) : Resolve(to_str, <<id>>[k]) = <<x, u>>[k]
    OBVIOUS
  <2>6. "impression" \in Serving /\ Len(<<id>>) <= Len(<<x, u>>)
    BY DEF Serving
  <2> QED BY <2>1, <2>4, <2>5, <2>6, BeginKeepsInv
<1> QED BY <1>1, <1>2, <1>3, <1>4, <1>5

LEMMA WantedString ==
  ASSUME Callers, NEW w \in Writers, Interning(w)
  PROVE  /\ Len(writer[w].ids) + 1 \in 1..Len(writer[w].names)
         /\ Wanted(w) \in String /\ Wanted(w) # NoString
<1>1. Len(writer[w].ids) + 1 \in 1..Len(writer[w].names)
  BY CallShape DEF Interning
<1> QED BY <1>1, CallShape DEF Wanted

(* A call learns the identifier of its next name.                          *)
LEMMA LearnKeepsInv ==
  ASSUME Inv, NEW w \in Writers, Interning(w), NEW id \in Ids, Learn(w, id), Elsewhere,
         InternerOK', Extends(to_str, to_str'), Resolve(to_str', id) = Wanted(w)
  PROVE  Inv'
<1> DEFINE old == writer[w]
           n == Len(old.ids)
           ids == Append(old.ids, id)
           c == [old EXCEPT !.ids = ids, !.missed = FALSE]
<1>1. /\ writer' = [writer EXCEPT ![w] = c] /\ UNCHANGED <<job, crashes>>
      /\ UNCHANGED <<store, todo, remapping, saving, file, kept>>
  BY DEF Learn, Elsewhere, bounds
<1>2. /\ old \in Call /\ n \in Nat /\ Len(old.names) \in Nat
      /\ \A k \in 1..n : old.ids[k] \in Ids
      /\ \A k \in 1..Len(old.names) : old.names[k] \in String /\ old.names[k] # NoString
  BY CallShape DEF Inv
<1>3. old.op # "none" /\ n < Len(old.names)
  BY DEF Interning
<1>4. /\ ids \in Seq(Ids) /\ Len(ids) = n + 1 /\ ids[n + 1] = id
      /\ \A k \in 1..n : ids[k] = old.ids[k]
  <2>1. old.ids \in Seq(Ids)
    BY <1>2, CallFields
  <2> QED BY <2>1
<1>5. /\ c \in Call /\ c.op = old.op /\ c.names = old.names /\ c.raced = old.raced
      /\ c.ids = ids
  <2> HIDE DEF ids
  <2> QED BY <1>2, <1>4 DEF Call
<1>6. writer'[w] = c
  BY <1>1 DEF Inv, Callers
<1>7. /\ CallOK(w) /\ Undisturbed(w)
  BY DEF Inv, Callers
<1> HIDE DEF c, ids
<1>8. CallOK(w)'
  <2>1. /\ old.op # "edge" /\ old.op # "delete_edges" /\ old.op # "delete_metadata"
    <3>1. n # Len(old.names)
      BY <1>2, <1>3
    <3>2. Len(old.names) \in Width(old.op) /\ (old.op = "edge" => n = Len(old.names))
      BY <1>3, <1>7 DEF CallOK
    <3>3. old.op \in {"delete_edges", "delete_metadata"} => n = 1
      BY <1>3, <1>7 DEF CallOK
    <3>4. old.op \in {"delete_edges", "delete_metadata"} => Len(old.names) = 1
      BY <3>2, Widths
    <3> QED BY <3>1, <3>2, <3>3, <3>4
  <2>2. c.ids \in Seq(Ids) /\ c.names \in Seq(String) /\ Len(c.ids) = n + 1
    BY <1>4, <1>5, CallFields
  <2>3. /\ old.op \in (IF w = "ingest" THEN Consuming ELSE Serving)
        /\ Len(old.names) \in Width(old.op)
        /\ old.op = "metadata" => n >= 2
        /\ old.op = "like" => old.names[2] \in Post
        /\ ~(job = "load" /\ w = "ingest")
    BY <1>3, <1>7 DEF CallOK
  <2>4. Len(c.ids) <= Len(c.names)
    BY <1>2, <1>3, <1>5, <2>2
  <2>5. c.op = "metadata" => Len(c.ids) >= 2
    BY <1>2, <1>5, <2>2, <2>3
  <2> QED BY <1>1, <1>5, <1>6, <2>1, <2>2, <2>3, <2>4, <2>5 DEF CallOK
<1>9. Undisturbed(w)'
  <2> SUFFICES ASSUME ~old.raced
               PROVE  /\ job' \in {"none", "save"}
                      /\ \A k \in 1..n + 1 : Resolve(to_str', ids[k]) = old.names[k]
    BY <1>4, <1>5, <1>6 DEF Undisturbed
  <2>1. job \in {"none", "save"} /\ \A m \in 1..n : Resolve(to_str, old.ids[m]) = old.names[m]
    BY <1>3, <1>7 DEF Undisturbed
  <2>2. Resolve(to_str', ids[n + 1]) = old.names[n + 1]
    BY <1>4 DEF Wanted
  <2>3. ASSUME NEW k \in 1..n PROVE Resolve(to_str', ids[k]) = old.names[k]
    <3>1. k \in 1..Len(old.names)
      BY <1>2, <1>3
    <3> QED BY <1>2, <1>4, <2>1, <3>1, StillResolves
  <2>4. \A k \in 1..n + 1 : k = n + 1 \/ k \in 1..n
    BY <1>2
  <2> QED BY <1>1, <2>1, <2>2, <2>3, <2>4
<1>10. Callers'
  BY <1>1, <1>5, <1>8, <1>9, CallerMoves DEF Inv
<1> QED BY <1>1, <1>10, InternerGrows DEF Inv

LEMMA InternsKeepInv ==
  ASSUME Inv, NEW w \in Writers
  PROVE  (InternFast(w) => Inv') /\ (InternSlow(w) => Inv')
<1>1. ASSUME Interning(w), to_id[Wanted(w)] # 0, Learn(w, IdOf(Wanted(w))), UNCHANGED interner, Elsewhere
      PROVE  Inv'
  <2>1. Wanted(w) \in String
    BY <1>1, WantedString DEF Inv
  <2>2. IdOf(Wanted(w)) \in Ids /\ Resolve(to_str, IdOf(Wanted(w))) = Wanted(w)
    BY <1>1, <2>1, IdOfResolves DEF Inv
  <2>3. to_str' = to_str /\ InternerOK' /\ Extends(to_str, to_str')
    BY <1>1, ExtendsItself DEF interner, Inv, InternerOK, InternerIsBijective, IdOf
  <2> QED BY <1>1, <2>2, <2>3, LearnKeepsInv
<1>2. ASSUME InternFast(w), to_id[Wanted(w)] = 0
      PROVE  Inv'
  <2> DEFINE c == [writer[w] EXCEPT !.missed = TRUE]
  <2>1. /\ writer' = [writer EXCEPT ![w] = c] /\ UNCHANGED <<to_str, to_id, job, crashes>>
        /\ UNCHANGED <<store, todo, remapping, saving, file, kept>>
    BY <1>2 DEF InternFast, Elsewhere, bounds, interner
  <2>2. writer[w] \in Call
    BY CallShape DEF Inv
  <2>3. /\ c \in Call /\ c.op = writer[w].op /\ c.names = writer[w].names
        /\ c.ids = writer[w].ids /\ c.raced = writer[w].raced
    BY <2>2 DEF Call
  <2>4. writer'[w] = c
    BY <2>1 DEF Inv, Callers
  <2> HIDE DEF c
  <2>5. CallOK(w)' /\ Undisturbed(w)'
    BY <2>1, <2>3, <2>4 DEF Inv, Callers, CallOK, Undisturbed
  <2>6. Extends(to_str, to_str') /\ InternerOK'
    BY <2>1, ExtendsItself DEF Inv, InternerOK, InternerIsBijective, IdOf
  <2>7. Callers'
    BY <2>1, <2>3, <2>5, <2>6, CallerMoves DEF Inv
  <2> QED BY <2>1, <2>6, <2>7, InternerGrows DEF Inv
<1>3. ASSUME InternSlow(w), to_id[Wanted(w)] = 0
      PROVE  Inv'
  <2> DEFINE x == Wanted(w)
             id == <<ShardOf[x], Len(to_str[ShardOf[x]]) + 1>>
  <2>1. Interning(w) /\ Elsewhere /\ Learn(w, id)
    BY <1>3 DEF InternSlow
  <2>2. /\ to_str' = [to_str EXCEPT ![ShardOf[x]] = Append(@, x)]
        /\ to_id' = [to_id EXCEPT ![x] = Len(to_str[ShardOf[x]]) + 1]
    BY <1>3 DEF InternSlow
  <2>3. x \in String
    BY <2>1, WantedString DEF Inv
  <2>4. InternerOK' /\ Extends(to_str, to_str') /\ id \in Ids /\ Resolve(to_str', id) = x
    BY <1>3, <2>2, <2>3, InternAppends DEF Inv
  <2> QED BY <2>1, <2>4, LearnKeepsInv
<1>4. InternFast(w) => Inv'
  BY <1>1, <1>2 DEF InternFast
<1>5. InternSlow(w) => Inv'
  BY <1>1, <1>3 DEF InternSlow
<1> QED BY <1>4, <1>5

LEMMA CheckMetadataKeepsInv == Inv /\ CheckMetadata => Inv'
<1> SUFFICES ASSUME Inv, CheckMetadata PROVE Inv'
  OBVIOUS
<1> DEFINE old == writer["ingest"]
           author == Author[old.names[2]]
           longer == Append(old.names, author)
<1>1. old.op = "like" /\ ~Interning("ingest") /\ "ingest" \in Writers
  BY DEF CheckMetadata, Ready, Writers
<1>2. /\ old \in Call /\ Len(old.ids) \in Nat /\ Len(old.names) \in Nat
      /\ Len(old.ids) <= Len(old.names)
      /\ \A k \in 1..Len(old.names) : old.names[k] \in String
  BY <1>1, CallShape DEF Inv
<1>3. CallOK("ingest") /\ Undisturbed("ingest")
  BY <1>1 DEF Inv, Callers
<1>4. Len(old.names) = 2 /\ Len(old.ids) = 2 /\ old.names[2] \in Post /\ job # "load"
  <2>1. Len(old.names) = 2 /\ old.names[2] \in Post /\ job # "load"
    BY <1>1, <1>3, Widths DEF CallOK
  <2>2. Len(old.ids) = Len(old.names)
    BY <1>1, <1>2 DEF Interning
  <2> QED BY <2>1, <2>2
<1>5. author \in String
  BY <1>4, IdSpaceAssumption DEF String
<1>6. /\ old.names \in Seq(String) /\ old.ids \in Seq(Ids)
      /\ longer \in Seq(String) /\ Len(longer) = 3
      /\ \A k \in 1..2 : longer[k] = old.names[k]
  <2>1. old.names \in Seq(String) /\ old.ids \in Seq(Ids)
    BY <1>2, CallFields
  <2>2. /\ longer \in Seq(String) /\ Len(longer) = Len(old.names) + 1
        /\ \A k \in 1..Len(old.names) : longer[k] = old.names[k]
    BY <1>5, <2>1
  <2> HIDE DEF longer
  <2> QED BY <1>4, <2>1, <2>2
<1>7. PICK c \in {[old EXCEPT !.op = "edge"],
                  [old EXCEPT !.op = "metadata", !.names = longer]} :
        writer' = [writer EXCEPT !["ingest"] = c]
  BY DEF CheckMetadata
<1>8. /\ c \in Call /\ c.ids = old.ids /\ c.raced = old.raced
      /\ \/ c.op = "edge" /\ c.names = old.names
         \/ c.op = "metadata" /\ c.names = longer
  <2> HIDE DEF longer
  <2> QED BY <1>2, <1>6, <1>7 DEF Call, Consuming
<1>9. /\ UNCHANGED <<to_str, to_id, job, crashes>> /\ writer'["ingest"] = c
      /\ UNCHANGED <<store, todo, remapping, saving, file, kept>>
  BY <1>1, <1>7 DEF CheckMetadata, Elsewhere, bounds, interner, Inv, Callers
<1> HIDE DEF longer
<1>10. CallOK("ingest")'
  <2>1. /\ c.names \in Seq(String) /\ Len(c.names) \in Width(c.op) /\ Len(c.names) >= 2
        /\ c.op = "edge" => Len(c.names) = 2
    <3>1. CASE c.op = "edge" /\ c.names = old.names
      <4>1. c.names \in Seq(String) /\ Len(c.names) = 2 /\ Width(c.op) = {2, 3}
        BY <1>4, <1>6, <3>1, Widths
      <4> QED BY <3>1, <4>1
    <3>2. CASE c.op = "metadata" /\ c.names = longer
      <4>1. c.names \in Seq(String) /\ Len(c.names) = 3 /\ Width(c.op) = {3}
        BY <1>6, <3>2, Widths
      <4> QED BY <3>2, <4>1
    <3> QED BY <1>8, <3>1, <3>2
  <2>2. c.op \in Consuming /\ c.op \in {"metadata", "edge"}
    BY <1>8 DEF Consuming
  <2>3. /\ c.ids \in Seq(Ids) /\ Len(c.ids) = 2 /\ Len(c.ids) <= Len(c.names) /\ Len(c.ids) >= 2
        /\ c.op = "edge" => Len(c.ids) = Len(c.names)
    BY <1>4, <1>6, <1>8, <2>1
  <2> QED BY <1>4, <1>9, <2>1, <2>2, <2>3 DEF CallOK
<1>11. Undisturbed("ingest")'
  <2>1. \A k \in 1..2 : c.names[k] = old.names[k]
    BY <1>6, <1>8
  <2> QED BY <1>1, <1>3, <1>4, <1>8, <1>9, <2>1 DEF Undisturbed
<1>12. InternerOK' /\ Extends(to_str, to_str')
  BY <1>9, ExtendsItself DEF Inv, InternerOK, InternerIsBijective, IdOf
<1>13. Callers'
  BY <1>1, <1>7, <1>8, <1>9, <1>10, <1>11, <1>12, CallerMoves DEF Inv
<1> QED BY <1>9, <1>12, <1>13, InternerGrows DEF Inv

-----------------------------------------------------------------------------
(***************************************************************************)
(* What the calls do to the stores.                                        *)
(***************************************************************************)
LEMMA NamesOf == \A S, n : n \in Names(S) <=> \E e \in S : e.names = n
BY DEF Names

LEMMA DropKeepsInv ==
  ASSUME Inv, NEW st \in Stores, NEW old \in SUBSET store[st], NEW new \in SUBSET Entries,
         NEW sound \in BOOLEAN, Drop(st, old, new, sound), WriterOnly, Callers',
         EntriesOK(st, (store[st] \ old) \cup new),
         \A e \in new : e.sound = sound /\ (sound => Resolves(to_str, e)),
         sound => job \in {"none", "save"}, job = "load" => st # "blocks"
  PROVE  Inv'
<1>0. /\ UNCHANGED <<to_str, to_id, job, todo, referenced, id_map, new_shards, draft, base, file, crashes>>
      /\ store' = [store EXCEPT ![st] = (@ \ old) \cup new]
      /\ kept' = [kept EXCEPT ![st] = (@ \ Names(old)) \cup (IF sound THEN Names(new) ELSE {})]
      /\ promised' = [promised EXCEPT ![st] = @ \ Names(old)]
  BY DEF WriterOnly, Drop, interner, remapping, bounds
<1>1. \A v, o : Left(v, o)' <=> Left(v, o)
  BY <1>0 DEF Left
<1>2. /\ store \in [Stores -> SUBSET Entries] /\ kept \in [Stores -> SUBSET Seq(String)]
      /\ promised \in [Stores -> SUBSET Seq(String)]
  BY DEF Inv, StoresOK, KeptOK, DraftOK
<1>3. /\ store'[st] = (store[st] \ old) \cup new
      /\ \A t \in Stores \ {st} : store'[t] = store[t]
      /\ kept'[st] = (kept[st] \ Names(old)) \cup (IF sound THEN Names(new) ELSE {})
      /\ \A t \in Stores \ {st} : kept'[t] = kept[t]
      /\ promised'[st] = promised[st] \ Names(old)
      /\ \A t \in Stores \ {st} : promised'[t] = promised[t]
  BY <1>0, <1>2
<1>4. Names(new) \subseteq Seq(String)
  BY DEF Names, Entries
<1>5. JobOK' /\ InternerOK' /\ MapOK' /\ LoadOK' /\ FileOK'
  <2>1. JobOK' /\ InternerOK'
    BY <1>0 DEF Inv, JobOK, InternerOK, InternerIsBijective, IdOf
  <2>2. MapOK'
    BY <1>0, <1>1 DEF Inv, MapOK
  <2>3. LoadOK' /\ FileOK'
    BY <1>0, <1>1 DEF Inv, LoadOK, FileOK
  <2> QED BY <2>1, <2>2, <2>3
<1>6. StoresOK'
  <2>1. store' \in [Stores -> SUBSET Entries]
    BY <1>0, <1>2
  <2>2. \A t \in Stores : EntriesOK(t, store'[t])
    BY <1>3 DEF Inv, StoresOK
  <2>3. job' = "load" => store'["blocks"] = {}
    BY <1>0, <1>3 DEF Inv, StoresOK, Stores
  <2> QED BY <2>1, <2>2, <2>3 DEF StoresOK
<1>7. SoundOK'
  <2> SUFFICES ASSUME NEW t \in Stores, NEW e \in Sound(store'[t])
               PROVE  /\ job # "compact" => Resolves(to_str, e)
                      /\ job = "compact" => IF Moved(t) THEN Resolves(to_str, e)
                                            ELSE Tracked(e, ~Left("collect", t))
                      /\ job = "load" => ~Left("restore", t)
    <3>1. \A e \in Entries, c \in BOOLEAN : Tracked(e, c)' <=> Tracked(e, c)
      BY <1>0, <1>1 DEF Tracked
    <3> QED BY <1>0, <1>1 DEF SoundOK, Moved, Tracked
  <2>1. CASE e \in store[t]
    BY <2>1 DEF Inv, SoundOK, Sound
  <2>2. CASE e \notin store[t]
    BY <1>3, <2>2 DEF Sound
  <2> QED BY <2>1, <2>2
<1>8. \A t \in Stores : ~sound => kept'[t] \subseteq kept[t]
  BY <1>3
<1>9. SwapOK'
  <2>1. job = "compact" => kept'["preferences"] \subseteq kept["preferences"]
    BY <1>8 DEF Stores, Persisted
  <2> QED BY <1>0, <1>1, <2>1 DEF Inv, SwapOK
<1>10. KeptOK'
  <2>1. kept' \in [Stores -> SUBSET Seq(String)]
    BY <1>0, <1>2, <1>4
  <2>2. ASSUME NEW t \in Stores, t \in Persisted \/ crashes = 0,
               job = "load" /\ Left("restore", t)
        PROVE  kept'[t] \subseteq Names(Sound(file.store[t]))
    BY <1>8, <2>2 DEF Inv, KeptOK
  <2>3. ASSUME NEW t \in Stores, t \in Persisted \/ crashes = 0,
               ~(job = "load" /\ Left("restore", t))
        PROVE  kept'[t] \subseteq Names(Sound(store'[t]))
    <3>1. kept[t] \subseteq Names(Sound(store[t]))
      BY <2>3 DEF Inv, KeptOK
    <3>2. CASE t # st
      BY <1>3, <3>1, <3>2
    <3>3. CASE t = st
      <4> SUFFICES ASSUME NEW n \in kept'[t] PROVE n \in Names(Sound(store'[t]))
        OBVIOUS
      <4>1. CASE n \in kept[t] \ Names(old)
        <5>1. PICK e \in Sound(store[t]) : e.names = n
          BY <3>1, <4>1, NamesOf
        <5>2. e \notin old
          BY <4>1, <5>1, NamesOf
        <5> QED BY <1>3, <3>3, <5>1, <5>2, NamesOf DEF Sound
      <4>2. CASE sound /\ n \in Names(new)
        <5>1. PICK e \in new : e.names = n
          BY <4>2, NamesOf
        <5> QED BY <1>3, <3>3, <4>2, <5>1, NamesOf DEF Sound
      <4> QED BY <1>3, <3>3, <4>1, <4>2
    <3> QED BY <3>2, <3>3
  <2> QED BY <1>0, <1>1, <2>1, <2>2, <2>3 DEF Inv, KeptOK
<1>11. DraftOK'
  <2>1. promised' \in [Stores -> SUBSET Seq(String)]
    BY <1>0, <1>2
  <2> QED BY <1>0, <2>1 DEF Inv, DraftOK
<1>12. SaveOK'
  <2> SUFFICES ASSUME job = "save", NEW t \in Persisted
               PROVE  promised'[t] \subseteq
                        Names(Sound(IF Left("section", t) THEN store'[t] \cap base[t]
                                                          ELSE draft.store[t]))
    BY <1>0, <1>1 DEF Inv, SaveOK
  <2>0. t \in Stores
    BY DEF Stores
  <2>1. promised[t] \subseteq
          Names(Sound(IF Left("section", t) THEN store[t] \cap base[t] ELSE draft.store[t]))
    BY DEF Inv, SaveOK
  <2>2. CASE ~Left("section", t)
    BY <1>3, <2>0, <2>1, <2>2
  <2>3. CASE Left("section", t) /\ t # st
    BY <1>3, <2>0, <2>1, <2>3
  <2>4. CASE Left("section", t) /\ t = st
    <3> SUFFICES ASSUME NEW n \in promised'[t]
                 PROVE  n \in Names(Sound(store'[t] \cap base[t]))
      BY <2>4
    <3>1. n \in promised[t] /\ n \notin Names(old)
      BY <1>3, <2>4
    <3>2. PICK e \in Sound(store[t] \cap base[t]) : e.names = n
      BY <2>1, <2>4, <3>1, NamesOf
    <3>3. e \notin old
      BY <3>1, <3>2, NamesOf
    <3> QED BY <1>3, <2>4, <3>2, <3>3, NamesOf DEF Sound
  <2> QED BY <2>2, <2>3, <2>4
<1> QED BY <1>5, <1>6, <1>7, <1>9, <1>10, <1>11, <1>12 DEF Inv

LEMMA PutKeepsInv ==
  ASSUME Inv, NEW w \in Writers, NEW st \in Stores, NEW ids \in Seq(Ids), NEW names \in Seq(String),
         Put(w, st, ids, names), WriterOnly, Callers',
         Len(ids) = Len(names), Len(ids) >= Key[st], job = "load" => st # "blocks",
         ~writer[w].raced => /\ job \in {"none", "save"}
                             /\ \A k \in 1..Len(ids) : Resolve(to_str, ids[k]) = names[k]
  PROVE  Inv'
<1> DEFINE sound == ~writer[w].raced
           old == {e \in store[st] : SubSeq(e.ids, 1, Key[st]) = SubSeq(ids, 1, Key[st])}
           f == Entry(ids, names, sound)
<1>1. Drop(st, old, {f}, sound)
  BY DEF Put
<1>2. sound \in BOOLEAN
  BY CallShape, CallFields DEF Inv
<1>3. f \in Entries /\ f.ids = ids /\ f.names = names /\ f.sound = sound
  <2> HIDE DEF sound
  <2> QED BY <1>2 DEF Entry, Entries, Ids
<1>4. sound => Resolves(to_str, f)
  <2>1. DOMAIN f.ids = 1..Len(ids)
    BY <1>3
  <2> QED BY <1>3, <2>1 DEF Resolves
<1>5. EntriesOK(st, (store[st] \ old) \cup {f})
  <2> HIDE DEF f
  <2>1. EntriesOK(st, store[st])
    BY DEF Inv, StoresOK
  <2>2. \A e \in (store[st] \ old) \cup {f} :
          e \in Entries /\ Len(e.ids) = Len(e.names) /\ Len(e.ids) >= Key[st]
    BY <1>3, <2>1 DEF EntriesOK
  <2>3. \A e \in store[st] \ old : SubSeq(e.ids, 1, Key[st]) # SubSeq(f.ids, 1, Key[st])
    BY <1>3
  <2>4. \A e, g \in store[st] : SubSeq(e.ids, 1, Key[st]) = SubSeq(g.ids, 1, Key[st]) => e = g
    BY <2>1 DEF EntriesOK
  <2>5. ASSUME NEW e \in (store[st] \ old) \cup {f}, NEW g \in (store[st] \ old) \cup {f},
               SubSeq(e.ids, 1, Key[st]) = SubSeq(g.ids, 1, Key[st])
        PROVE  e = g
    <3> HIDE DEF old
    <3> QED BY <2>3, <2>4, <2>5
  <2> QED BY <2>2, <2>5 DEF EntriesOK
<1>6. old \in SUBSET store[st]
  OBVIOUS
<1>7. sound => job \in {"none", "save"}
  OBVIOUS
<1> HIDE DEF f, old, sound
<1>8. {f} \in SUBSET Entries /\ \A e \in {f} : e.sound = sound /\ (sound => Resolves(to_str, e))
  BY <1>3, <1>4
<1> QED BY <1>1, <1>2, <1>5, <1>6, <1>7, <1>8, DropKeepsInv

(* What is known of a call that has all its identifiers.                   *)
LEMMA ReadyCall ==
  ASSUME Inv, NEW w \in Writers, NEW op, op # "none", Ready(w, op)
  PROVE  /\ writer[w] \in Call /\ writer[w].ids \in Seq(Ids) /\ writer[w].names \in Seq(String)
         /\ Len(writer[w].ids) = Len(writer[w].names) /\ Len(writer[w].names) \in Width(op)
         /\ w = "ingest" => job # "load"
         /\ ~writer[w].raced =>
              /\ job \in {"none", "save"}
              /\ \A k \in 1..Len(writer[w].ids) : Resolve(to_str, writer[w].ids[k]) = writer[w].names[k]
<1>1. CallOK(w) /\ Undisturbed(w) /\ writer[w].op = op
  BY DEF Inv, Callers, Ready
<1>2. Len(writer[w].ids) = Len(writer[w].names)
  <2>1. Len(writer[w].ids) \in Nat /\ Len(writer[w].names) \in Nat
        /\ Len(writer[w].ids) <= Len(writer[w].names)
    BY CallShape DEF Inv
  <2> QED BY <1>1, <2>1 DEF Ready, Interning
<1>3. writer[w] \in Call /\ writer[w].ids \in Seq(Ids) /\ writer[w].names \in Seq(String)
  BY CallShape, CallFields DEF Inv
<1> QED BY <1>1, <1>2, <1>3 DEF CallOK, Undisturbed

LEMMA KeyOf ==
  /\ Key["edges"] = 2 /\ Key["blocks"] = 2 /\ Key["metadata"] = 1
  /\ Key["preferences"] = 1 /\ Key["impressions"] = 2
  /\ {"edges", "blocks", "metadata", "preferences", "impressions"} = Stores
BY DEF Key, Stores, Persisted

(* A call that is done with one store goes on to the next.                 *)
LEMMA NextOp ==
  ASSUME Inv, NEW op \in {"edge", "delete_metadata"}, Ready("ingest", writer["ingest"].op),
         \/ op = "edge" /\ writer["ingest"].op = "metadata"
         \/ op = "delete_metadata" /\ writer["ingest"].op = "delete_edges",
         writer' = [writer EXCEPT !["ingest"] = [writer["ingest"] EXCEPT !.op = op]],
         UNCHANGED <<job, to_str>>
  PROVE  Callers'
<1> DEFINE c == [writer["ingest"] EXCEPT !.op = op]
<1>1. "ingest" \in Writers /\ writer["ingest"].op # "none" /\ writer["ingest"].op # "like"
  BY DEF Writers
<1>2. /\ writer["ingest"] \in Call /\ writer["ingest"].ids \in Seq(Ids)
      /\ writer["ingest"].names \in Seq(String)
      /\ Len(writer["ingest"].ids) = Len(writer["ingest"].names)
      /\ Len(writer["ingest"].names) \in Width(writer["ingest"].op) /\ job # "load"
  BY <1>1, ReadyCall
<1>3. /\ c \in Call /\ c.op = op /\ c.ids = writer["ingest"].ids /\ c.names = writer["ingest"].names
      /\ c.raced = writer["ingest"].raced
  BY <1>2 DEF Call, Consuming
<1>4. writer' = [writer EXCEPT !["ingest"] = c] /\ writer'["ingest"] = c
  BY <1>1 DEF Inv, Callers
<1> HIDE DEF c
<1>5. /\ Len(c.ids) = Len(c.names) /\ Len(c.names) = IF op = "edge" THEN 3 ELSE 1
      /\ Len(c.names) \in Width(op) /\ op \in Consuming
  BY <1>2, <1>3, Widths DEF Consuming
<1>6. Len(c.ids) <= Len(c.names) /\ (op = "edge" => Len(c.ids) >= 2)
      /\ (op = "delete_metadata" => Len(c.ids) = 1)
  <2>1. CASE op = "edge"
    BY <1>5, <2>1
  <2>2. CASE op = "delete_metadata"
    <3>1. Len(c.names) = 1 /\ Len(c.ids) = 1
      BY <1>5, <2>2
    <3> QED BY <2>2, <3>1
  <2> QED BY <2>1, <2>2
<1>7. CallOK("ingest")'
  BY <1>2, <1>3, <1>4, <1>5, <1>6 DEF CallOK
<1>8. Undisturbed("ingest")'
  <2>1. Undisturbed("ingest")
    BY <1>1 DEF Inv, Callers
  <2> QED BY <1>1, <1>3, <1>4, <2>1 DEF Undisturbed
<1> QED BY <1>1, <1>3, <1>4, <1>7, <1>8, CallerMoves, ExtendsItself DEF Inv

LEMMA SetKeepsInv ==
  ASSUME Inv
  PROVE  (RecordBlock => Inv') /\ (SetPreference => Inv') /\ (RecordImpression => Inv')
<1>1. ASSUME RecordBlock PROVE Inv'
  <2>1. "ingest" \in Writers /\ Ready("ingest", "block")
    BY <1>1 DEF RecordBlock, Writers
  <2>2. Callers'
    BY <1>1, <2>1, Finished DEF RecordBlock, WriterOnly, interner, Inv
  <2>3. Len(writer["ingest"].names) = 2
    BY <2>1, ReadyCall, Widths
  <2> DEFINE ids == writer["ingest"].ids
             names == writer["ingest"].names
  <2>4. /\ ids \in Seq(Ids) /\ names \in Seq(String) /\ Len(ids) = Len(names) /\ Len(ids) = 2
        /\ job # "load"
        /\ ~writer["ingest"].raced => /\ job \in {"none", "save"}
                     /\ \A k \in 1..Len(ids) : Resolve(to_str, ids[k]) = names[k]
    BY <2>1, <2>3, ReadyCall
  <2>5. Put("ingest", "blocks", ids, names) /\ WriterOnly
    BY <1>1 DEF RecordBlock
  <2> HIDE DEF ids, names
  <2>6. "blocks" \in Stores /\ Len(ids) >= Key["blocks"]
    BY <2>4, KeyOf
  <2> QED BY <2>1, <2>2, <2>4, <2>5, <2>6, PutKeepsInv
<1>2. ASSUME SetPreference PROVE Inv'
  <2>1. "request" \in Writers /\ Ready("request", "dials")
    BY <1>2 DEF SetPreference, Writers
  <2>2. Callers'
    BY <1>2, <2>1, Finished DEF SetPreference, WriterOnly, interner, Inv
  <2>3. Len(writer["request"].names) = 1
    BY <2>1, ReadyCall, Widths
  <2> QED BY <1>2, <2>1, <2>2, <2>3, ReadyCall, KeyOf, PutKeepsInv DEF SetPreference
<1>3. ASSUME RecordImpression PROVE Inv'
  <2> DEFINE c == writer["request"]
  <2>1. "request" \in Writers /\ Ready("request", "impression")
    BY <1>3 DEF RecordImpression, Writers
  <2>2. Callers'
    BY <1>3, <2>1, Finished DEF RecordImpression, WriterOnly, interner, Inv
  <2>3. Len(c.names) = 2 /\ Len(c.ids) = 2 /\ c.ids \in Seq(Ids) /\ c.names \in Seq(String)
    BY <2>1, ReadyCall, Widths
  <2>4. /\ Reverse(c.ids) \in Seq(Ids) /\ Reverse(c.names) \in Seq(String)
        /\ Len(Reverse(c.ids)) = 2 /\ Len(Reverse(c.names)) = 2
        /\ \A k \in 1..2 : Reverse(c.ids)[k] = c.ids[3 - k] /\ Reverse(c.names)[k] = c.names[3 - k]
    <3>1. \A T, s : s \in Seq(T) /\ Len(s) = 2 =>
            /\ Reverse(s) \in Seq(T) /\ Len(Reverse(s)) = 2
            /\ \A k \in 1..2 : Reverse(s)[k] = s[3 - k]
      BY DEF Reverse
    <3> QED BY <2>3, <3>1
  <2>5. ~c.raced => /\ job \in {"none", "save"}
                    /\ \A k \in 1..2 : Resolve(to_str, Reverse(c.ids)[k]) = Reverse(c.names)[k]
    <3>1. ~c.raced => /\ job \in {"none", "save"}
                      /\ \A k \in 1..2 : Resolve(to_str, c.ids[k]) = c.names[k]
      BY <2>1, <2>3, ReadyCall
    <3>2. \A k \in 1..2 : 3 - k \in 1..2
      OBVIOUS
    <3> QED BY <2>4, <3>1, <3>2
  <2> DEFINE ids == Reverse(c.ids)
             names == Reverse(c.names)
  <2>6. Put("request", "impressions", ids, names) /\ WriterOnly
    BY <1>3 DEF RecordImpression
  <2>7. ids \in Seq(Ids) /\ names \in Seq(String) /\ Len(ids) = 2 /\ Len(names) = 2
    BY <2>4
  <2>8. ~writer["request"].raced => job \in {"none", "save"}
                     /\ \A k \in 1..2 : Resolve(to_str, ids[k]) = names[k]
    BY <2>5
  <2> HIDE DEF ids, names, c
  <2> QED BY <2>1, <2>2, <2>6, <2>7, <2>8, KeyOf, PutKeepsInv
<1> QED BY <1>1, <1>2, <1>3

LEMMA RecordsKeepInv ==
  ASSUME Inv
  PROVE  (RecordMetadata => Inv') /\ (RecordEdge => Inv')
<1> DEFINE c == writer["ingest"]
<1>1. ASSUME RecordMetadata PROVE Inv'
  <2>1. "ingest" \in Writers /\ Ready("ingest", "metadata") /\ c.op = "metadata"
    BY <1>1 DEF RecordMetadata, Writers, Ready
  <2>2. Callers'
    BY <1>1, <2>1, NextOp DEF RecordMetadata, WriterOnly, interner, Inv
  <2>3. Len(c.names) = 3 /\ Len(c.ids) = 3 /\ c.ids \in Seq(Ids) /\ c.names \in Seq(String)
        /\ job # "load"
    BY <2>1, ReadyCall, Widths
  <2> DEFINE ids == <<c.ids[2], c.ids[3]>>
             names == <<c.names[2], c.names[3]>>
  <2>4. Put("ingest", "metadata", ids, names) /\ WriterOnly
    BY <1>1 DEF RecordMetadata
  <2>5. ids \in Seq(Ids) /\ names \in Seq(String) /\ Len(ids) = 2 /\ Len(names) = 2
    BY <2>3
  <2>6. ~c.raced => /\ job \in {"none", "save"}
                    /\ \A k \in 1..2 : Resolve(to_str, ids[k]) = names[k]
    BY <2>1, <2>3, ReadyCall
  <2> HIDE DEF ids, names
  <2>7. "metadata" \in Stores /\ Len(ids) >= Key["metadata"]
    BY <2>5, KeyOf
  <2>8. /\ Len(ids) = Len(names)
        /\ ~c.raced => /\ job \in {"none", "save"}
                       /\ \A k \in 1..Len(ids) : Resolve(to_str, ids[k]) = names[k]
    BY <2>5, <2>6
  <2> QED BY <2>1, <2>2, <2>3, <2>4, <2>5, <2>7, <2>8, PutKeepsInv
<1>2. ASSUME RecordEdge PROVE Inv'
  <2>1. "ingest" \in Writers /\ Ready("ingest", "edge") /\ c.op = "edge"
    BY <1>2 DEF RecordEdge, Writers, Ready
  <2>2. Callers'
    BY <1>2, <2>1, Finished DEF RecordEdge, WriterOnly, interner, Inv
  <2>3. Len(c.ids) = Len(c.names) /\ Len(c.names) \in {2, 3} /\ c.ids \in Seq(Ids)
        /\ c.names \in Seq(String) /\ job # "load"
    BY <2>1, ReadyCall, Widths
  <2> DEFINE ids == SubSeq(c.ids, 1, 2)
             names == SubSeq(c.names, 1, 2)
  <2>4. CASE UNCHANGED <<store, kept, promised>>
    <3>1. /\ UNCHANGED <<to_str, to_id, store, job, todo, remapping, saving, file, kept, crashes>>
      BY <1>2, <2>4 DEF RecordEdge, WriterOnly, interner, saving, bounds
    <3>2. InternerOK' /\ Extends(to_str, to_str')
      BY <3>1, ExtendsItself DEF Inv, InternerOK, InternerIsBijective, IdOf
    <3> QED BY <2>2, <3>1, <3>2, InternerGrows DEF Inv
  <2>5. CASE Put("ingest", "edges", ids, names)
    <3>1. /\ ids \in Seq(Ids) /\ names \in Seq(String) /\ Len(ids) = 2 /\ Len(names) = 2
          /\ \A k \in 1..2 : ids[k] = c.ids[k] /\ names[k] = c.names[k]
      <4>1. \A T, s : s \in Seq(T) /\ Len(s) \in {2, 3} =>
              /\ SubSeq(s, 1, 2) \in Seq(T) /\ Len(SubSeq(s, 1, 2)) = 2
              /\ \A k \in 1..2 : SubSeq(s, 1, 2)[k] = s[k]
        OBVIOUS
      <4> QED BY <2>3, <4>1
    <3>2. ~c.raced => /\ job \in {"none", "save"}
                      /\ \A k \in 1..2 : Resolve(to_str, ids[k]) = names[k]
      <4>1. \A k \in 1..2 : k \in 1..Len(c.ids)
        <5>1. Len(c.ids) = 2 \/ Len(c.ids) = 3
          BY <2>3
        <5> HIDE DEF ids, names, c
        <5>2. CASE Len(c.ids) = 2
          BY <5>2
        <5>3. CASE Len(c.ids) = 3
          BY <5>3
        <5> QED BY <5>1, <5>2, <5>3
      <4> QED BY <2>1, <3>1, <4>1, ReadyCall
    <3>3. WriterOnly
      BY <1>2 DEF RecordEdge
    <3> HIDE DEF ids, names
    <3>4. "edges" \in Stores /\ Len(ids) >= Key["edges"]
      BY <3>1, KeyOf
    <3>5. /\ Len(ids) = Len(names)
          /\ ~c.raced => /\ job \in {"none", "save"}
                         /\ \A k \in 1..Len(ids) : Resolve(to_str, ids[k]) = names[k]
      BY <3>1, <3>2
    <3> QED BY <2>1, <2>2, <2>3, <2>5, <3>1, <3>3, <3>4, <3>5, PutKeepsInv
  <2> QED BY <1>2, <2>4, <2>5 DEF RecordEdge
<1> QED BY <1>1, <1>2

LEMMA RemovesKeepInv ==
  ASSUME Inv
  PROVE  (RemoveEdges => Inv') /\ (RemoveMetadata => Inv')
<1>0. \A st \in Stores : \A old : EntriesOK(st, (store[st] \ old) \cup {})
  BY DEF Inv, StoresOK, EntriesOK
<1>1. ASSUME RemoveEdges PROVE Inv'
  <2>1. "ingest" \in Writers /\ Ready("ingest", "delete_edges") /\ writer["ingest"].op = "delete_edges"
    BY <1>1 DEF RemoveEdges, Writers, Ready
  <2>2. Callers'
    BY <1>1, <2>1, NextOp DEF RemoveEdges, WriterOnly, interner, Inv
  <2> DEFINE old == {e \in store["edges"] : e.ids[2] = writer["ingest"].ids[1]}
  <2>3. Drop("edges", old, {}, FALSE) /\ WriterOnly
    BY <1>1 DEF RemoveEdges
  <2>4. old \in SUBSET store["edges"] /\ {} \in SUBSET Entries /\ \A e \in {} : FALSE
    OBVIOUS
  <2>5. "edges" \in Stores /\ "edges" # "blocks" /\ FALSE \in BOOLEAN
    BY KeyOf
  <2> HIDE DEF old
  <2> QED BY <1>0, <2>2, <2>3, <2>4, <2>5, DropKeepsInv
<1>2. ASSUME RemoveMetadata PROVE Inv'
  <2>1. "ingest" \in Writers /\ Ready("ingest", "delete_metadata")
    BY <1>2 DEF RemoveMetadata, Writers
  <2>2. Callers'
    BY <1>2, <2>1, Finished DEF RemoveMetadata, WriterOnly, interner, Inv
  <2> DEFINE old == {e \in store["metadata"] : e.ids[1] = writer["ingest"].ids[1]}
  <2>3. Drop("metadata", old, {}, FALSE) /\ WriterOnly
    BY <1>2 DEF RemoveMetadata
  <2>4. old \in SUBSET store["metadata"] /\ {} \in SUBSET Entries /\ \A e \in {} : FALSE
    OBVIOUS
  <2>5. "metadata" \in Stores /\ "metadata" # "blocks" /\ FALSE \in BOOLEAN
    BY KeyOf
  <2> HIDE DEF old
  <2> QED BY <1>0, <2>2, <2>3, <2>4, <2>5, DropKeepsInv
<1> QED BY <1>1, <1>2

LEMMA CallsKeepInv == Inv /\ Calls => Inv'
BY BeginsKeepInv, InternsKeepInv, CheckMetadataKeepsInv, SetKeepsInv, RecordsKeepInv, RemovesKeepInv
   DEF Calls
-----------------------------------------------------------------------------
(***************************************************************************)
(* The start of the process, and the load.                                 *)
(***************************************************************************)
Booted ==
  /\ to_str = EmptyStrings /\ to_id = [x \in String |-> 0] /\ store = EmptyStores
  /\ writer = NoWriters /\ job = "load" /\ todo = LoadPlan
  /\ referenced = {} /\ id_map = <<>> /\ new_shards = {}
  /\ draft = NoDraft /\ promised = EmptyStores /\ base = EmptyStores
  /\ FileOK /\ kept = file.kept /\ crashes \in Nat /\ (crashes = 0 => kept["blocks"] = {})

LEMMA WholePlan ==
  ASSUME todo = PlanOf(job)
  PROVE  \A t, v, o : Do(t, v, o) \in PlanOf(job) => Left(v, o)
<1>1. \A t, v, o : Do(t, v, o).verb = v /\ Do(t, v, o).on = o
  BY DEF Do
<1> QED BY <1>1 DEF Left

LEMMA NoEntries == \A st \in Stores : EntriesOK(st, {})
BY DEF EntriesOK

LEMMA EmptyShape ==
  /\ EmptyStores \in [Stores -> SUBSET Entries] /\ EmptyStores \in [Stores -> SUBSET Seq(String)]
  /\ \A st \in Stores : EmptyStores[st] = {}
  /\ StringsOK(EmptyStrings) /\ EmptyStrings \in [Shard -> Seq(String)]
  /\ \A s \in Shard : EmptyStrings[s] = <<>>
BY DEF EmptyStores, EmptyStrings, StringsOK

LEMMA BootedOK == Booted => Inv
<1> SUFFICES ASSUME Booted PROVE Inv
  OBVIOUS
<1> USE DEF Booted
<1>1. /\ \A s \in Shard : Left("hydrate", s)
      /\ \A st \in Persisted : Left("restore", st)
  <2>1. job = "load" /\ todo = PlanOf(job)
    BY DEF PlanOf
  <2> QED BY <2>1, WholePlan, PlanTurns
<1>2. JobOK
  <2>1. todo # {} /\ PlanOf(job) = todo
    BY DEF LoadPlan, PlanOf
  <2> QED BY <2>1 DEF JobOK
<1>3. InternerOK
  BY EmptyShape DEF InternerOK, InternerIsBijective
<1>4. Callers
  <2>1. writer \in [Writers -> Call]
    BY IdleCall DEF NoWriters
  <2>2. \A w \in Writers : writer[w] = Idle
    BY DEF NoWriters
  <2>3. <<>> \in Seq(String) /\ <<>> \in Seq(Ids) /\ Len(<<>>) = 0 /\ Len(<<>>) <= Len(<<>>)
    OBVIOUS
  <2>4. \A w \in Writers : CallOK(w) /\ Undisturbed(w)
    BY <2>2, <2>3, IdleCall DEF CallOK, Undisturbed
  <2> QED BY <2>1, <2>4 DEF Callers, Call
<1>5. StoresOK
  BY EmptyShape, NoEntries, KeyOf DEF StoresOK
<1>6. MapOK /\ SoundOK /\ SwapOK
  BY EmptyShape, NoEntries, KeyOf DEF MapOK, SoundOK, SwapOK, Sound
<1>7. KeptOK
  <2>1. \A st \in Persisted : kept[st] \subseteq Names(Sound(file.store[st]))
    BY DEF FileOK, SelfContained, Sound
  <2>2. ASSUME crashes = 0 PROVE kept["blocks"] \subseteq Names({})
    BY <2>2
  <2>3. ASSUME crashes = 0
        PROVE  kept["blocks"] \subseteq Names(Sound(IF job = "load" /\ Left("restore", "blocks")
                                                    THEN file.store["blocks"] ELSE store["blocks"]))
    BY <2>3
  <2> QED BY <1>1, <2>1, <2>3 DEF KeptOK, FileOK, Stores
<1>8. LoadOK /\ FileOK /\ SaveOK
  BY <1>1 DEF LoadOK, SaveOK
<1>9. DraftOK
  <2>1. draft.strings = EmptyStrings /\ draft.store = EmptyStores
        /\ draft \in [strings : [Shard -> Seq(String)], store : [Stores -> SUBSET Entries]]
    BY EmptyShape DEF NoDraft
  <2> QED BY <2>1, EmptyShape, NoEntries DEF DraftOK
<1> QED BY <1>2, <1>3, <1>4, <1>5, <1>6, <1>7, <1>8, <1>9 DEF Inv

LEMMA InitInv == Init => Inv
<1> SUFFICES ASSUME Init PROVE Inv
  OBVIOUS
<1>1. FileOK /\ file.kept["blocks"] = {}
  BY IdSpaceAssumption DEF Init, FileOK
<1>2. Booted
  BY <1>1 DEF Init, Booted
<1> QED BY <1>2, BootedOK

LEMMA CrashKeepsInv == Inv /\ Crash => Inv'
<1> SUFFICES ASSUME Inv, Crash PROVE Inv'
  OBVIOUS
<1>1. FileOK' /\ crashes' \in Nat /\ crashes' # 0
  BY DEF Inv, FileOK, KeptOK, Crash
<1>2. Booted'
  BY <1>1 DEF Crash, Booted
<1> QED BY <1>2, BootedOK, PTL

LEMMA HydrateKeepsInv ==
  ASSUME Inv, NEW s \in Shard, HydrateShard(s)
  PROVE  Inv'
<1> DEFINE strings == file.strings[s]
<1>1. /\ Step("hydrate", s) /\ to_str' = [to_str EXCEPT ![s] = strings]
      /\ to_id' = Positions(s, strings)
      /\ UNCHANGED <<store, referenced, id_map, new_shards, draft, promised, base, file, kept>>
  BY DEF HydrateShard, remapping, saving
<1>2. /\ JobOK' /\ ~Left("hydrate", s)' /\ UNCHANGED <<writer, crashes>>
      /\ \A v, o : ~(v = "hydrate" /\ o = s) => (Left(v, o)' <=> Left(v, o))
  BY <1>1, StepTakes DEF Inv, bounds
<1>3. job = "load" /\ job' = "load" /\ \A st \in Persisted : Left("restore", st)
  BY <1>1, LoadTurns DEF Inv
<1>4. InternerOK'
  <2>1. strings \in Seq(String)
        /\ \A i, j \in 1..Len(strings) :
             ShardOf[strings[i]] = s /\ (strings[i] = strings[j] => i = j)
    BY DEF Inv, FileOK, StringsOK
  <2> QED BY <1>1, <2>1, ShardReplaced DEF Inv
<1>5. Callers'
  BY <1>2, <1>3, CallersStay DEF Inv
<1>6. \A st \in Stores : Sound(store[st]) = {}
  BY <1>3 DEF Inv, SoundOK, StoresOK, Sound, Stores
<1>7. StoresOK' /\ MapOK' /\ SwapOK' /\ FileOK' /\ DraftOK' /\ SaveOK'
  <2>1. StoresOK' /\ SwapOK' /\ FileOK' /\ DraftOK' /\ SaveOK'
    BY <1>1, <1>3 DEF Inv, StoresOK, SwapOK, FileOK, DraftOK, SaveOK
  <2>2. MapOK'
    BY <1>1, <1>3 DEF Inv, MapOK
  <2> QED BY <2>1, <2>2
<1>8. SoundOK'
  BY <1>1, <1>6 DEF SoundOK
<1>9. KeptOK'
  BY <1>1, <1>2, <1>3 DEF Inv, KeptOK
<1>10. LoadOK'
  <2> SUFFICES ASSUME NEW z \in Shard, ~Left("hydrate", z)', NEW k \in 1..Len(file.strings[z])
               PROVE  k \in 1..Len(to_str'[z]) /\ to_str'[z][k] = file.strings[z][k]
    BY <1>1 DEF LoadOK
  <2>1. to_str'[s] = strings /\ \A y \in Shard \ {s} : to_str'[y] = to_str[y]
    BY <1>1 DEF Inv, InternerOK
  <2>2. CASE z = s
    BY <2>1, <2>2
  <2>3. CASE z # s
    <3>1. ~Left("hydrate", z)
      BY <1>2, <2>3
    <3> QED BY <1>3, <2>1, <2>3, <3>1 DEF Inv, LoadOK
  <2> QED BY <2>2, <2>3
<1> QED BY <1>2, <1>4, <1>5, <1>7, <1>8, <1>9, <1>10 DEF Inv

LEMMA RestoreKeepsInv ==
  ASSUME Inv, NEW st \in Stores, RestoreStore(st)
  PROVE  Inv'
<1>1. /\ Step("restore", st) /\ store' = [store EXCEPT ![st] = file.store[st]]
      /\ UNCHANGED <<to_str, to_id, referenced, id_map, new_shards, draft, promised, base, file, kept>>
  BY DEF RestoreStore, remapping, saving, interner
<1>2. /\ JobOK' /\ ~Left("restore", st)' /\ UNCHANGED <<writer, crashes>>
      /\ \A v, o : ~(v = "restore" /\ o = st) => (Left(v, o)' <=> Left(v, o))
      /\ job' \in {job, "none"} /\ (job' = "none" => \A v, o : ~Left(v, o)')
  BY <1>1, StepTakes DEF Inv, bounds
<1>3. job = "load" /\ st \in Persisted /\ \A s \in Shard : ~Left("hydrate", s)
  BY <1>1, LoadTurns DEF Inv
<1>4. /\ store'[st] = file.store[st] /\ \A t \in Stores \ {st} : store'[t] = store[t]
      /\ store' \in [Stores -> SUBSET Entries]
  BY <1>1 DEF Inv, StoresOK, FileOK
<1>5. Callers' /\ InternerOK'
  <2>1. Callers'
    BY <1>2, <1>3, CallersStay DEF Inv
  <2> QED BY <1>1, <2>1 DEF Inv, InternerOK, InternerIsBijective, IdOf
<1>6. StoresOK'
  <2>1. \A t \in Stores : EntriesOK(t, store'[t])
    BY <1>4 DEF Inv, StoresOK, FileOK
  <2>2. store'["blocks"] = {}
    BY <1>3, <1>4, KeyOf DEF Inv, StoresOK, Persisted
  <2> QED BY <1>4, <2>1, <2>2 DEF StoresOK
<1>7. MapOK' /\ SwapOK' /\ FileOK' /\ DraftOK' /\ SaveOK' /\ LoadOK'
  <2>1. SwapOK' /\ FileOK' /\ DraftOK' /\ SaveOK'
    BY <1>1, <1>2, <1>3 DEF Inv, SwapOK, FileOK, DraftOK, SaveOK
  <2>2. MapOK' /\ LoadOK'
    BY <1>1, <1>2, <1>3 DEF Inv, MapOK, LoadOK
  <2> QED BY <2>1, <2>2
<1>8. SoundOK'
  <2> SUFFICES ASSUME NEW t \in Stores, NEW e \in Sound(store'[t])
               PROVE  Resolves(to_str, e) /\ (job' = "load" => ~Left("restore", t)')
    BY <1>1, <1>2, <1>3 DEF SoundOK
  <2>1. CASE t = st
    <3>1. e \in file.store[st] /\ e.sound
      BY <1>4, <2>1 DEF Sound
    <3>2. Resolves(file.strings, e) /\ EntriesOK(st, file.store[st])
      BY <1>3, <3>1 DEF Inv, FileOK, SelfContained
    <3>3. Extends(file.strings, to_str)
      BY <1>3 DEF Inv, LoadOK, Extends
    <3> QED BY <1>2, <2>1, <3>1, <3>2, <3>3, EntryStillResolves
  <2>2. CASE t # st
    BY <1>2, <1>3, <1>4, <2>2 DEF Inv, SoundOK
  <2> QED BY <2>1, <2>2
<1>9. KeptOK'
  <2> SUFFICES ASSUME NEW t \in Stores, t \in Persisted \/ crashes = 0
               PROVE  kept[t] \subseteq
                        Names(Sound(IF job' = "load" /\ Left("restore", t)' THEN file.store[t]
                                                                           ELSE store'[t]))
    BY <1>1, <1>2 DEF Inv, KeptOK
  <2>1. CASE t = st
    <3>1. kept[st] \subseteq Names(Sound(file.store[st]))
      BY <1>1, <1>3, StepTakes DEF Inv, KeptOK
    <3> QED BY <1>2, <1>4, <2>1, <3>1
  <2>2. CASE t # st
    <3>1. kept[t] \subseteq Names(Sound(IF job = "load" /\ Left("restore", t) THEN file.store[t]
                                                                          ELSE store[t]))
      BY DEF Inv, KeptOK
    <3> QED BY <1>2, <1>3, <1>4, <2>2, <3>1
  <2> QED BY <2>1, <2>2
<1> QED BY <1>2, <1>5, <1>6, <1>7, <1>8, <1>9 DEF Inv

-----------------------------------------------------------------------------
(***************************************************************************)
(* The save.                                                               *)
(***************************************************************************)
LEMMA BeginSaveKeepsInv == Inv /\ BeginSave => Inv'
<1> SUFFICES ASSUME Inv, BeginSave PROVE Inv'
  OBVIOUS
<1>1. /\ job = "none" /\ job' = "save" /\ todo' = SavePlan /\ promised' = kept /\ base' = store
      /\ UNCHANGED <<to_str, to_id, store, writer, referenced, id_map, new_shards,
                     draft, file, kept, crashes>>
  BY DEF BeginSave, interner, remapping
<1>2. Left("strings", "all")' /\ \A st \in Persisted : Left("section", st)'
  <2>1. \A t, v, o : Do(t, v, o).verb = v /\ Do(t, v, o).on = o
    BY DEF Do
  <2>2. \A t, v, o : Do(t, v, o) \in SavePlan => Left(v, o)'
    BY <1>1, <2>1 DEF Left
  <2>3. /\ Do(1, "strings", "all") \in SavePlan
        /\ \A st \in Persisted : \E t \in 2..5 : Do(t, "section", st) \in SavePlan
    BY DEF SavePlan, Persisted
  <2> QED BY <2>2, <2>3
<1>3. JobOK'
  <2>1. todo' # {} /\ todo' = PlanOf(job')
    BY <1>1 DEF SavePlan, PlanOf
  <2> QED BY <1>1, <2>1 DEF JobOK
<1>4. Callers' /\ InternerOK'
  <2>1. Callers'
    BY <1>1, CallersStay, ExtendsItself DEF Inv
  <2> QED BY <1>1, <2>1 DEF Inv, InternerOK, InternerIsBijective, IdOf
<1>5. StoresOK' /\ MapOK' /\ SwapOK' /\ FileOK' /\ LoadOK'
  <2>1. StoresOK' /\ SwapOK' /\ FileOK' /\ LoadOK'
    BY <1>1 DEF Inv, StoresOK, SwapOK, FileOK, LoadOK
  <2>2. MapOK'
    BY <1>1 DEF Inv, MapOK
  <2> QED BY <2>1, <2>2
<1>6. SoundOK' /\ KeptOK'
  BY <1>1 DEF Inv, SoundOK, KeptOK
<1>7. DraftOK'
  BY <1>1 DEF Inv, DraftOK, StoresOK, KeptOK
<1>8. SaveOK'
  <2> SUFFICES ASSUME NEW st \in Persisted
               PROVE  /\ \A e \in Sound(store[st]) : Resolves(to_str, e)
                      /\ kept[st] \subseteq Names(Sound(store[st] \cap store[st]))
    BY <1>1, <1>2 DEF SaveOK
  <2>1. st \in Stores /\ store[st] \cap store[st] = store[st]
    BY DEF Stores
  <2> QED BY <1>1, <2>1 DEF Inv, SoundOK, KeptOK
<1> QED BY <1>3, <1>4, <1>5, <1>6, <1>7, <1>8 DEF Inv

(* Strings of the interner are where their hash says, once.                *)
LEMMA InternerStringsOK == InternerOK => StringsOK(to_str)
BY DEF InternerOK, InternerIsBijective, StringsOK

(* A step of a save that only writes the temporary file.                   *)
LEMMA DraftingKeepsInv ==
  ASSUME Inv, NEW verb, NEW on, Step(verb, on), job = "save", job' = "save",
         UNCHANGED <<to_str, to_id, store, referenced, id_map, new_shards, promised, base, file, kept>>,
         DraftOK', SaveOK'
  PROVE  Inv'
<1>1. JobOK' /\ UNCHANGED <<writer, crashes>>
  BY StepTakes DEF Inv, bounds
<1>2. Callers' /\ InternerOK'
  <2>1. Callers'
    BY <1>1, CallersStay, ExtendsItself DEF Inv
  <2> QED BY <2>1 DEF Inv, InternerOK, InternerIsBijective, IdOf
<1>3. StoresOK' /\ SwapOK' /\ FileOK' /\ LoadOK'
  BY DEF Inv, StoresOK, SwapOK, FileOK, LoadOK
<1>4. MapOK'
  BY DEF Inv, MapOK
<1>5. SoundOK' /\ KeptOK'
  BY <1>1 DEF Inv, SoundOK, KeptOK
<1> QED BY <1>1, <1>2, <1>3, <1>4, <1>5 DEF Inv

LEMMA WriteStringsKeepsInv == Inv /\ WriteStrings => Inv'
<1> SUFFICES ASSUME Inv, WriteStrings PROVE Inv'
  OBVIOUS
<1>1. /\ Step("strings", "all") /\ draft' = [draft EXCEPT !.strings = to_str]
      /\ UNCHANGED <<to_str, to_id, store, referenced, id_map, new_shards, promised, base, file, kept>>
  BY DEF WriteStrings, interner, remapping
<1>2. job = "save" /\ job' = "save" /\ \A st \in Persisted : Left("section", st)
  BY <1>1, SaveTurns DEF Inv
<1>3. \A st \in Persisted : Left("section", st)'
  BY <1>1, <1>2, StepTakes DEF Inv
<1>4. /\ draft'.strings = to_str /\ draft'.store = draft.store
      /\ draft' \in [strings : [Shard -> Seq(String)], store : [Stores -> SUBSET Entries]]
  BY <1>1 DEF Inv, DraftOK, InternerOK
<1>5. DraftOK'
  BY <1>1, <1>4, InternerStringsOK DEF Inv, DraftOK
<1>6. SaveOK'
  BY <1>1, <1>2, <1>3, <1>4 DEF Inv, SaveOK
<1> QED BY <1>1, <1>2, <1>5, <1>6, DraftingKeepsInv

LEMMA WriteSectionKeepsInv ==
  ASSUME Inv, NEW st \in Stores, WriteSection(st)
  PROVE  Inv'
<1> DEFINE vouched(e) == [e EXCEPT !.sound = @ /\ e \in base[st]]
           written == {vouched(e) : e \in store[st]}
<1>1. /\ Step("section", st) /\ draft' = [draft EXCEPT !.store[st] = written]
      /\ UNCHANGED <<to_str, to_id, store, referenced, id_map, new_shards, promised, base, file, kept>>
  BY DEF WriteSection, interner, remapping
<1>2. job = "save" /\ job' = "save" /\ st \in Persisted /\ ~Left("strings", "all")
  BY <1>1, SaveTurns DEF Inv
<1>3. /\ ~Left("section", st)' /\ Left("section", st)
      /\ \A v, o : ~(v = "section" /\ o = st) => (Left(v, o)' <=> Left(v, o))
  BY <1>1, StepTakes DEF Inv
<1>4. EntriesOK(st, store[st]) /\ store[st] \subseteq Entries
  BY DEF Inv, StoresOK
<1>5. ASSUME NEW e \in Entries
      PROVE  /\ vouched(e) \in Entries /\ vouched(e).ids = e.ids /\ vouched(e).names = e.names
             /\ vouched(e).sound <=> e.sound /\ e \in base[st]
  <2> DEFINE sound == e.sound /\ e \in base[st]
  <2>1. sound \in BOOLEAN
    BY DEF Entries
  <2>2. vouched(e) = [e EXCEPT !.sound = sound]
    BY DEF Entries
  <2> HIDE DEF sound, vouched
  <2>3. /\ vouched(e) \in Entries /\ vouched(e).ids = e.ids /\ vouched(e).names = e.names
        /\ vouched(e).sound = sound
    BY <2>1, <2>2 DEF Entries
  <2> QED BY <2>3 DEF sound
<1> HIDE DEF vouched
<1>6. EntriesOK(st, written)
  <2>1. \A f \in written : f \in Entries /\ Len(f.ids) = Len(f.names) /\ Len(f.ids) >= Key[st]
    BY <1>4, <1>5 DEF EntriesOK
  <2>2. ASSUME NEW f \in written, NEW g \in written,
               SubSeq(f.ids, 1, Key[st]) = SubSeq(g.ids, 1, Key[st])
        PROVE  f = g
    <3>1. PICK d \in store[st], e \in store[st] : f = vouched(d) /\ g = vouched(e)
      OBVIOUS
    <3>2. SubSeq(d.ids, 1, Key[st]) = SubSeq(e.ids, 1, Key[st])
      BY <1>4, <1>5, <2>2, <3>1
    <3> QED BY <1>4, <3>1, <3>2 DEF EntriesOK
  <2> QED BY <2>1, <2>2 DEF EntriesOK
<1>7. /\ draft'.strings = draft.strings /\ draft'.store[st] = written
      /\ \A t \in Stores \ {st} : draft'.store[t] = draft.store[t]
      /\ draft' \in [strings : [Shard -> Seq(String)], store : [Stores -> SUBSET Entries]]
  <2>1. written \in SUBSET Entries
    BY <1>4, <1>5
  <2> HIDE DEF written
  <2> QED BY <1>1, <2>1 DEF Inv, DraftOK
<1>8. DraftOK'
  BY <1>1, <1>6, <1>7 DEF Inv, DraftOK
<1>9. SaveOK'
  <2> SUFFICES ASSUME NEW t \in Persisted
               PROVE  /\ \A e \in Sound(base[t]) : Resolves(to_str, e) /\ Resolves(draft'.strings, e)
                      /\ promised[t] \subseteq
                           Names(Sound(IF Left("section", t)' THEN store[t] \cap base[t]
                                                              ELSE draft'.store[t]))
                      /\ ~Left("section", t)' =>
                           \A e \in Sound(draft'.store[t]) : Resolves(draft'.strings, e)
    BY <1>1 DEF SaveOK
  <2>1. \A e \in Sound(base[t]) : Resolves(to_str, e) /\ Resolves(draft'.strings, e)
    BY <1>2, <1>7 DEF Inv, SaveOK
  <2>2. CASE t # st
    <3>1. t \in Stores
      BY DEF Stores
    <3> QED BY <1>2, <1>3, <1>7, <2>1, <2>2, <3>1 DEF Inv, SaveOK
  <2>3. CASE t = st
    <3>1. promised[st] \subseteq Names(Sound(store[st] \cap base[st]))
      BY <1>2, <1>3 DEF Inv, SaveOK
    <3>2. promised[st] \subseteq Names(Sound(written))
      <4> SUFFICES ASSUME NEW n \in promised[st] PROVE n \in Names(Sound(written))
        OBVIOUS
      <4>1. PICK e \in Sound(store[st] \cap base[st]) : e.names = n
        BY <3>1, NamesOf
      <4>2. vouched(e) \in Sound(written) /\ vouched(e).names = n
        BY <1>4, <1>5, <4>1 DEF Sound
      <4> QED BY <4>2, NamesOf
    <3>3. ASSUME NEW f \in Sound(written) PROVE Resolves(draft'.strings, f)
      <4>1. PICK e \in store[st] : f = vouched(e)
        BY DEF Sound
      <4>2. e \in Sound(base[st]) /\ f.ids = e.ids /\ f.names = e.names
        BY <1>4, <1>5, <4>1 DEF Sound
      <4> QED BY <2>1, <2>3, <4>2 DEF Resolves
    <3> QED BY <1>3, <1>7, <2>1, <2>3, <3>2, <3>3
  <2> QED BY <2>2, <2>3
<1> QED BY <1>1, <1>2, <1>8, <1>9, DraftingKeepsInv

LEMMA RenameKeepsInv == Inv /\ RenameFile => Inv'
<1> SUFFICES ASSUME Inv, RenameFile PROVE Inv'
  OBVIOUS
<1>1. /\ Step("rename", "all")
      /\ file' = [strings |-> draft.strings, store |-> draft.store, kept |-> promised]
      /\ draft' = NoDraft /\ promised' = EmptyStores /\ base' = EmptyStores
      /\ UNCHANGED <<to_str, to_id, store, referenced, id_map, new_shards, kept>>
  BY DEF RenameFile, interner, remapping
<1>2. /\ job = "save" /\ job' = "none" /\ ~Left("strings", "all")
      /\ \A st \in Persisted : ~Left("section", st)
  BY <1>1, SaveTurns DEF Inv
<1>3. JobOK' /\ UNCHANGED <<writer, crashes>>
  BY <1>1, StepTakes DEF Inv, bounds
<1>4. Callers' /\ InternerOK'
  <2>1. Callers'
    BY <1>1, <1>2, <1>3, CallersStay, ExtendsItself DEF Inv
  <2> QED BY <1>1, <2>1 DEF Inv, InternerOK, InternerIsBijective, IdOf
<1>5. StoresOK' /\ SwapOK' /\ LoadOK' /\ SaveOK'
  BY <1>1, <1>2 DEF Inv, StoresOK, SwapOK, LoadOK, SaveOK
<1>6. MapOK'
  BY <1>1, <1>2 DEF Inv, MapOK
<1>7. SoundOK' /\ KeptOK'
  BY <1>1, <1>2, <1>3 DEF Inv, SoundOK, KeptOK
<1>8. FileOK'
  <2>1. file'.strings = draft.strings /\ file'.store = draft.store /\ file'.kept = promised
    BY <1>1
  <2>2. \A st \in Persisted :
          /\ promised[st] \subseteq Names(Sound(draft.store[st]))
          /\ \A e \in Sound(draft.store[st]) : Resolves(draft.strings, e)
    BY <1>2 DEF Inv, SaveOK
  <2>3. SelfContained(file')
    BY <2>1, <2>2 DEF SelfContained, Sound
  <2> QED BY <2>1, <2>3 DEF Inv, DraftOK, FileOK
<1>9. DraftOK'
  <2>1. draft'.strings = EmptyStrings /\ draft'.store = EmptyStores
        /\ draft' \in [strings : [Shard -> Seq(String)], store : [Stores -> SUBSET Entries]]
    BY <1>1, EmptyShape DEF NoDraft
  <2> QED BY <1>1, <2>1, EmptyShape, NoEntries DEF DraftOK
<1> QED BY <1>3, <1>4, <1>5, <1>6, <1>7, <1>8, <1>9 DEF Inv

-----------------------------------------------------------------------------
(***************************************************************************)
(* The compaction.                                                         *)
(***************************************************************************)
Place(S, l) == Cardinality({k \in S : k <= l})

(* The strings that stay are numbered from 1 on.                           *)
LEMMA PlacesNumber ==
  ASSUME NEW n \in Nat, NEW S \in SUBSET (1..n)
  PROVE  /\ Cardinality(S) \in Nat
         /\ \A i \in S : Place(S, i) \in 1..Cardinality(S)
         /\ \A i, j \in S : Place(S, i) = Place(S, j) => i = j
         /\ \A k \in 1..Cardinality(S) : \E i \in S : Place(S, i) = k
<1> DEFINE UpTo(i) == {k \in S : k <= i}
           Positions1 == 1..Cardinality(S)
           f == [i \in S |-> Place(S, i)]
<1>1. IsFiniteSet(1..n) /\ Cardinality(1..n) = n
  BY FS_Interval, 1 \in Int, n \in Int
<1>2. IsFiniteSet(S) /\ Cardinality(S) \in Nat
  BY <1>1, FS_Subset, FS_CardinalityType
<1>3. ASSUME NEW T \in SUBSET S, NEW V \in SUBSET T
      PROVE  /\ Cardinality(V) \in Nat /\ Cardinality(T) \in Nat /\ Cardinality(V) <= Cardinality(T)
             /\ Cardinality(V) = Cardinality(T) => V = T
  <2>1. IsFiniteSet(T)
    BY <1>2, FS_Subset
  <2>2. IsFiniteSet(V) /\ Cardinality(V) <= Cardinality(T) /\ (Cardinality(V) = Cardinality(T) => V = T)
    BY <2>1, <1>3, FS_Subset
  <2> QED BY <2>1, <2>2, FS_CardinalityType
<1>4. ASSUME NEW i \in S
      PROVE  Place(S, i) \in Positions1
  <2>1. {} \in SUBSET UpTo(i) /\ UpTo(i) \in SUBSET S /\ i \in UpTo(i)
    OBVIOUS
  <2>2. Cardinality({}) = 0 /\ UpTo(i) # {}
    BY <2>1, FS_EmptySet
  <2> DEFINE T == UpTo(i)
  <2>3. T \in SUBSET S /\ {} \in SUBSET T /\ T # {} /\ Place(S, i) = Cardinality(T)
    BY <2>1, <2>2 DEF Place
  <2> HIDE DEF T
  <2>4. /\ Cardinality(T) \in Nat /\ Cardinality(T) <= Cardinality(S) /\ S \in SUBSET S
        /\ Cardinality(T) # Cardinality({})
    BY <1>3, <2>3
  <2> QED BY <1>2, <2>2, <2>3, <2>4
<1>5. ASSUME NEW i \in S, NEW j \in S, i < j PROVE Place(S, i) # Place(S, j)
  <2>1. \A k \in S : k \in Int
    OBVIOUS
  <2>2. UpTo(j) \in SUBSET S
    OBVIOUS
  <2>3. UpTo(i) \in SUBSET UpTo(j)
    <3>1. \A k \in S : k <= i => k <= j
      BY <1>5, <2>1
    <3> QED BY <3>1
  <2>4. j \in UpTo(j) /\ j \notin UpTo(i)
    BY <1>5, <2>1
  <2> DEFINE T == UpTo(j)
             V == UpTo(i)
  <2>5. T \in SUBSET S /\ V \in SUBSET T /\ V # T
    BY <2>2, <2>3, <2>4
  <2>6. Place(S, i) = Cardinality(V) /\ Place(S, j) = Cardinality(T)
    BY DEF Place
  <2> HIDE DEF T, V
  <2> QED BY <1>3, <2>5, <2>6
<1>6. ASSUME NEW i \in S, NEW j \in S, Place(S, i) = Place(S, j) PROVE i = j
  <2>1. i < j \/ j < i \/ i = j
    OBVIOUS
  <2> QED BY <1>5, <1>6, <2>1
<1>7. f \in Injection(S, Positions1)
  <2>1. f \in [S -> Positions1]
    BY <1>4
  <2>2. IsInjective(f)
    BY <1>6 DEF IsInjective
  <2> QED BY <2>1, <2>2 DEF Injection
<1>8. IsFiniteSet(Positions1) /\ Cardinality(Positions1) = Cardinality(S)
  <2>1. IsFiniteSet(Positions1)
        /\ Cardinality(Positions1) = IF 1 > Cardinality(S) THEN 0 ELSE Cardinality(S) - 1 + 1
    BY <1>2, FS_Interval, 1 \in Int, Cardinality(S) \in Int
  <2> QED BY <1>2, <2>1
<1>9. f \in Surjection(S, Positions1)
  <2> HIDE DEF f, Positions1
  <2> QED BY <1>2, <1>7, <1>8, FS_Injection
<1>10. \A k \in Positions1 : \E i \in S : f[i] = k
  <2> HIDE DEF f, Positions1
  <2> QED BY <1>9 DEF Surjection
<1> QED BY <1>2, <1>4, <1>6, <1>10

LEMMA BeginCompactKeepsInv == Inv /\ BeginCompact => Inv'
<1> SUFFICES ASSUME Inv, BeginCompact PROVE Inv'
  OBVIOUS
<1>1. /\ job = "none" /\ job' = "compact" /\ todo' = CompactPlan
      /\ referenced' = {} /\ id_map' = <<>> /\ new_shards' = {}
      /\ UNCHANGED <<to_str, to_id, store, draft, promised, base, file, kept, crashes>>
  BY DEF BeginCompact, interner, saving
<1>2. /\ \A st \in Stores : Left("collect", st)' /\ Left("remap", st)'
      /\ \A s \in Shard : Left("compact", s)'
      /\ Left("swap", "preferences")'
  <2>1. \A t, v, o : Do(t, v, o).verb = v /\ Do(t, v, o).on = o
    BY DEF Do
  <2>2. \A t, v, o : Do(t, v, o) \in CompactPlan => Left(v, o)'
    BY <1>1, <2>1 DEF Left
  <2>3. /\ \A st \in Stores : \E t \in 1..5 : Do(t, "collect", st) \in CompactPlan
        /\ \A s \in Shard : Do(6, "compact", s) \in CompactPlan
        /\ \A st \in Stores : \E t \in 7..12 : Do(t, "remap", st) \in CompactPlan
        /\ Do(11, "swap", "preferences") \in CompactPlan
    BY DEF CompactPlan, Stores, Persisted
  <2> QED BY <2>2, <2>3
<1>3. JobOK'
  <2>1. todo' # {} /\ todo' = PlanOf(job')
    BY <1>1 DEF CompactPlan, PlanOf
  <2> QED BY <1>1, <2>1 DEF JobOK
<1>4. InternerOK'
  BY <1>1 DEF Inv, InternerOK, InternerIsBijective, IdOf
<1>5. Callers'
  <2>1. ASSUME NEW w \in Writers
        PROVE  /\ writer'[w] \in Call /\ writer'[w].op = writer[w].op
               /\ writer'[w].ids = writer[w].ids /\ writer'[w].names = writer[w].names
               /\ writer[w].op # "none" => writer'[w].raced
    <3> DEFINE races == writer[w].op # "none"
    <3>1. races \in BOOLEAN /\ writer[w] \in Call
      BY CallShape DEF Inv
    <3>2. writer'[w] = [writer[w] EXCEPT !.raced = races]
      BY DEF BeginCompact
    <3> HIDE DEF races
    <3>3. /\ writer'[w] \in Call /\ writer'[w].op = writer[w].op
          /\ writer'[w].ids = writer[w].ids /\ writer'[w].names = writer[w].names
          /\ writer'[w].raced = races
      BY <3>1, <3>2 DEF Call
    <3> QED BY <3>3 DEF races
  <2>2. writer' \in [Writers -> Call]
    <3>1. writer' = [w \in Writers |-> writer'[w]]
      BY DEF BeginCompact
    <3> QED BY <2>1, <3>1
  <2>3. \A w \in Writers : CallOK(w)' /\ Undisturbed(w)'
    BY <1>1, <2>1 DEF Inv, Callers, CallOK, Undisturbed
  <2> QED BY <2>2, <2>3 DEF Callers, Call
<1>6. StoresOK' /\ FileOK' /\ LoadOK' /\ SaveOK' /\ DraftOK'
  BY <1>1 DEF Inv, StoresOK, FileOK, LoadOK, SaveOK, DraftOK
<1>7. MapOK' /\ SwapOK' /\ KeptOK'
  <2>1. DOMAIN id_map' = {}
    BY <1>1
  <2>2. MapOK'
    BY <2>1 DEF MapOK
  <2>3. SwapOK' /\ KeptOK'
    BY <1>1, <1>2, NoEntries, KeyOf DEF SwapOK, Inv, KeptOK
  <2> QED BY <2>2, <2>3
<1>8. SoundOK'
  <2> SUFFICES ASSUME NEW st \in Stores, NEW e \in Sound(store[st])
               PROVE  \A i \in DOMAIN e.ids : e.ids[i][1] \in Shard /\ Resolve(to_str, e.ids[i]) = e.names[i]
    BY <1>1, <1>2, KeyOf DEF SoundOK, Moved, Tracked
  <2>1. e \in store[st] /\ EntriesOK(st, store[st]) /\ Resolves(to_str, e)
    BY <1>1 DEF Inv, StoresOK, SoundOK, Sound
  <2> QED BY <2>1, EntryShape DEF Resolves, Ids
<1> QED BY <1>3, <1>4, <1>5, <1>6, <1>7, <1>8 DEF Inv

(* A step of a compaction that moves no string and changes no store.       *)
LEMMA CompactingKeepsInv ==
  ASSUME Inv, NEW verb, NEW on, Step(verb, on), job = "compact", job' = "compact",
         UNCHANGED <<to_str, to_id, store, draft, promised, base, file, kept>>,
         MapOK', SwapOK', SoundOK'
  PROVE  Inv'
<1>1. JobOK' /\ UNCHANGED <<writer, crashes>>
  BY StepTakes DEF Inv, bounds
<1>2. Callers' /\ InternerOK'
  <2>1. Callers'
    BY <1>1, CallersStay DEF Inv
  <2> QED BY <2>1 DEF Inv, InternerOK, InternerIsBijective, IdOf
<1>3. StoresOK' /\ FileOK' /\ LoadOK' /\ SaveOK' /\ DraftOK'
  BY DEF Inv, StoresOK, FileOK, LoadOK, SaveOK, DraftOK
<1>4. KeptOK'
  BY <1>1 DEF Inv, KeptOK
<1> QED BY <1>1, <1>2, <1>3, <1>4 DEF Inv

LEMMA CollectKeepsInv ==
  ASSUME Inv, NEW st \in Stores, CollectReferenced(st)
  PROVE  Inv'
<1>1. /\ Step("collect", st)
      /\ referenced' = referenced \cup UNION {ToSet(e.ids) : e \in store[st]}
      /\ UNCHANGED <<to_str, to_id, store, id_map, new_shards, draft, promised, base, file, kept>>
  BY DEF CollectReferenced, interner, saving
<1>2. /\ job = "compact" /\ job' = "compact" /\ \A s \in Shard : Left("compact", s)
      /\ \A t \in Stores : Left("remap", t) /\ Left("swap", "preferences")
  BY <1>1, CompactTurns DEF Inv
<1>3. \A v, o : ~(v = "collect" /\ o = st) => (Left(v, o)' <=> Left(v, o))
  BY <1>1, StepTakes DEF Inv
<1>4. MapOK' /\ SwapOK'
  <2>1. MapOK'
    BY <1>1, <1>2, <1>3 DEF Inv, MapOK
  <2>2. SwapOK'
    BY <1>1, <1>2, <1>3, KeyOf DEF Inv, SwapOK
  <2> QED BY <2>1, <2>2
<1>5. SoundOK'
  <2> SUFFICES ASSUME NEW t \in Stores, NEW e \in Sound(store[t])
               PROVE  Tracked(e, ~Left("collect", t))'
    BY <1>1, <1>2, <1>3, KeyOf DEF SoundOK, Moved
  <2> SUFFICES ASSUME NEW i \in DOMAIN e.ids
               PROVE  /\ Left("compact", e.ids[i][1])'
                      /\ Resolve(to_str, e.ids[i]) = e.names[i]
                      /\ ~Left("collect", t)' => e.ids[i] \in referenced'
    BY <1>1 DEF Tracked
  <2>1. e \in store[t] /\ EntriesOK(t, store[t]) /\ Tracked(e, ~Left("collect", t))
    BY <1>2, KeyOf DEF Inv, StoresOK, SoundOK, Sound, Moved
  <2>2. e.ids[i] \in Ids
    BY <2>1, EntryShape
  <2>3. Left("compact", e.ids[i][1])
    BY <1>2, <2>2 DEF Ids
  <2>4. Left("compact", e.ids[i][1])' /\ Resolve(to_str, e.ids[i]) = e.names[i]
    BY <1>3, <2>1, <2>3 DEF Tracked
  <2>5. CASE t = st
    <3>1. e.ids[i] \in ToSet(e.ids)
      BY <2>1, EntryShape DEF ToSet
    <3>2. ToSet(e.ids) \in {ToSet(f.ids) : f \in store[st]}
      BY <2>1, <2>5
    <3> QED BY <1>1, <2>4, <3>1, <3>2
  <2>6. CASE t # st
    BY <1>1, <1>3, <2>1, <2>3, <2>4, <2>6 DEF Tracked
  <2> QED BY <2>5, <2>6
<1> QED BY <1>1, <1>2, <1>4, <1>5, CompactingKeepsInv

LEMMA CompactShardKeepsInv ==
  ASSUME Inv, NEW s \in Shard, CompactShard(s)
  PROVE  Inv'
<1> DEFINE old == to_str[s]
           live == {l \in 1..Len(old) : <<s, l>> \in referenced}
           at(k) == CHOOSE l \in live : Place(live, l) = k
           strings == [k \in 1..Cardinality(live) |-> old[at(k)]]
           ids == {<<s, l>> : l \in live}
<1>1. /\ Step("compact", s) /\ to_str' = [to_str EXCEPT ![s] = strings]
      /\ to_id' = Positions(s, strings)
      /\ id_map' = [id \in ids \cup DOMAIN id_map |->
                      IF id[1] = s THEN <<s, Place(live, id[2])>> ELSE id_map[id]]
      /\ UNCHANGED <<store, referenced, new_shards, draft, promised, base, file, kept>>
  BY DEF CompactShard, Place, saving
<1>2. /\ job = "compact" /\ job' = "compact"
      /\ \A st \in Stores : ~Left("collect", st) /\ Left("remap", st) /\ Left("swap", "preferences")
  BY <1>1, CompactTurns DEF Inv
<1>3. /\ JobOK' /\ Left("compact", s) /\ ~Left("compact", s)' /\ UNCHANGED <<writer, crashes>>
      /\ \A v, o : ~(v = "compact" /\ o = s) => (Left(v, o)' <=> Left(v, o))
  BY <1>1, StepTakes DEF Inv, bounds
<1>4. old \in Seq(String) /\ Len(old) \in Nat /\ live \in SUBSET (1..Len(old))
  BY DEF Inv, InternerOK
<1>5. /\ Cardinality(live) \in Nat
      /\ \A l \in live : Place(live, l) \in 1..Cardinality(live)
      /\ \A l, m \in live : Place(live, l) = Place(live, m) => l = m
      /\ \A k \in 1..Cardinality(live) : \E l \in live : Place(live, l) = k
  <2> HIDE DEF live, old
  <2> QED BY <1>4, PlacesNumber
<1>6. \A k \in 1..Cardinality(live) : at(k) \in live /\ Place(live, at(k)) = k
  <2> HIDE DEF live
  <2> QED BY <1>5
<1>7. \A l \in live : at(Place(live, l)) = l
  <2> HIDE DEF live
  <2> QED BY <1>5, <1>6
<1> HIDE DEF at
<1>8. \A l \in live : l \in 1..Len(old) /\ old[l] \in String /\ <<s, l>> \in Ids
  BY <1>4 DEF Ids
<1>9. /\ strings \in Seq(String) /\ Len(strings) = Cardinality(live)
      /\ \A k \in 1..Cardinality(live) : strings[k] = old[at(k)]
      /\ \A l \in live : strings[Place(live, l)] = old[l]
  <2> HIDE DEF live
  <2>1. \A k \in 1..Cardinality(live) : old[at(k)] \in String
    BY <1>6, <1>8
  <2>2. strings \in Seq(String) /\ Len(strings) = Cardinality(live)
    BY <1>5, <2>1
  <2>3. \A l \in live : strings[Place(live, l)] = old[at(Place(live, l))]
    BY <1>5
  <2> QED BY <1>7, <2>2, <2>3
<1> HIDE DEF strings
<1>10. InternerOK'
  <2>1. \A l, m \in live : ShardOf[old[l]] = s /\ (old[l] = old[m] => l = m)
    BY DEF Inv, InternerOK, InternerIsBijective
  <2>2. \A i, j \in 1..Len(strings) : ShardOf[strings[i]] = s /\ (strings[i] = strings[j] => i = j)
    <3> HIDE DEF live, old
    <3> QED BY <1>6, <1>9, <2>1
  <2> QED BY <1>1, <1>9, <2>2, ShardReplaced DEF Inv
<1> HIDE DEF live, old
<1>11. Callers'
  BY <1>2, <1>3, CallersStay DEF Inv
<1>12. StoresOK' /\ FileOK' /\ LoadOK' /\ SaveOK' /\ DraftOK'
  BY <1>1, <1>2 DEF Inv, StoresOK, FileOK, LoadOK, SaveOK, DraftOK
<1>13. SwapOK' /\ KeptOK'
  <2>1. SwapOK'
    BY <1>1, <1>2, <1>3, KeyOf DEF Inv, SwapOK
  <2>2. KeptOK'
    BY <1>1, <1>2, <1>3 DEF Inv, KeptOK
  <2> QED BY <2>1, <2>2
<1>14. \A id \in DOMAIN id_map : id \in Ids /\ id_map[id] \in Ids /\ id_map[id][1] = id[1] /\ id[1] # s
                                 /\ ~Left("compact", id[1])
  BY <1>2, <1>3 DEF Inv, MapOK
<1>15. /\ DOMAIN id_map' = ids \cup DOMAIN id_map
       /\ \A l \in live : id_map'[<<s, l>>] = <<s, Place(live, l)>>
       /\ \A id \in DOMAIN id_map : id_map'[id] = id_map[id]
  <2>1. \A l \in live : <<s, l>> \in ids
    OBVIOUS
  <2> HIDE DEF ids
  <2> QED BY <1>1, <1>14, <2>1
<1>16. MapOK'
  <2>1. \A id \in ids : \E l \in live : id = <<s, l>>
    OBVIOUS
  <2>2. ASSUME NEW id \in ids \cup DOMAIN id_map
        PROVE  /\ id \in Ids /\ id_map'[id] \in Ids /\ id_map'[id][1] = id[1]
               /\ ~Left("compact", id[1])'
    <3>1. CASE id \in ids
      <4>1. PICK l \in live : id = <<s, l>>
        BY <2>1, <3>1
      <4>2. Place(live, l) \in Nat \ {0}
        BY <1>5
      <4> QED BY <1>3, <1>8, <1>15, <4>1, <4>2 DEF Ids
    <3>2. CASE id \in DOMAIN id_map
      BY <1>3, <1>14, <1>15, <3>2
    <3> QED BY <3>1, <3>2
  <2>3. ASSUME NEW id \in ids \cup DOMAIN id_map, NEW jd \in ids \cup DOMAIN id_map,
               id_map'[id] = id_map'[jd]
        PROVE  id = jd
    <3>0. id_map'[id][1] = id[1] /\ id_map'[jd][1] = jd[1]
      BY <2>2
    <3>1. CASE id \in ids
      <4>1. PICK l \in live : id = <<s, l>>
        BY <2>1, <3>1
      <4>2. jd[1] = s
        BY <2>3, <3>0, <4>1
      <4>3. jd \in ids
        BY <1>14, <4>2
      <4>4. PICK m \in live : jd = <<s, m>>
        BY <2>1, <4>3
      <4>5. <<s, Place(live, l)>> = <<s, Place(live, m)>>
        BY <1>15, <2>3, <4>1, <4>4
      <4>6. Place(live, l) = Place(live, m)
        BY <4>5
      <4> QED BY <1>5, <4>1, <4>4, <4>6
    <3>2. CASE id \in DOMAIN id_map
      <4>1. jd[1] # s
        BY <1>14, <2>3, <3>0, <3>2
      <4>2. jd \in DOMAIN id_map
        BY <2>1, <4>1
      <4> QED BY <1>15, <2>3, <3>2, <4>2 DEF Inv, MapOK
    <3> QED BY <3>1, <3>2
  <2> HIDE DEF ids
  <2> QED BY <1>15, <2>2, <2>3 DEF MapOK
<1>17. SoundOK'
  <2> SUFFICES ASSUME NEW t \in Stores, NEW e \in Sound(store[t])
               PROVE  Tracked(e, ~Left("collect", t))'
    BY <1>1, <1>2, <1>3, KeyOf DEF SoundOK, Moved
  <2> SUFFICES ASSUME NEW i \in DOMAIN e.ids
               PROVE  IF Left("compact", e.ids[i][1])'
                      THEN Resolve(to_str', e.ids[i]) = e.names[i] /\ e.ids[i] \in referenced
                      ELSE e.ids[i] \in DOMAIN id_map' /\ Resolve(to_str', id_map'[e.ids[i]]) = e.names[i]
    BY <1>1 DEF Tracked
  <2>1. e \in store[t] /\ EntriesOK(t, store[t]) /\ Tracked(e, ~Left("collect", t)) /\ ~Left("collect", t)
    BY <1>2, KeyOf DEF Inv, StoresOK, SoundOK, Sound, Moved
  <2> DEFINE id == e.ids[i]
  <2>2. id \in Ids /\ e.names[i] # NoString
    BY <2>1, EntryShape
  <2>3. IF Left("compact", id[1])
        THEN Resolve(to_str, id) = e.names[i] /\ id \in referenced
        ELSE id \in DOMAIN id_map /\ Resolve(to_str, id_map[id]) = e.names[i]
    BY <2>1 DEF Tracked
  <2>4. to_str'[s] = strings /\ \A z \in Shard \ {s} : to_str'[z] = to_str[z]
    BY <1>1 DEF Inv, InternerOK
  <2> HIDE DEF id
  <2>5. CASE id[1] = s
    <3>1. Resolve(to_str, id) = e.names[i] /\ id \in referenced /\ id = <<s, id[2]>>
      BY <1>3, <2>2, <2>3, <2>5 DEF Ids
    <3>2. id[2] \in 1..Len(old) /\ old[id[2]] = e.names[i]
      BY <2>2, <2>5, <3>1 DEF Resolve, old
    <3>3. id[2] \in live
      BY <3>1, <3>2 DEF live
    <3>4. id \in DOMAIN id_map' /\ id_map'[id] = <<s, Place(live, id[2])>>
      BY <1>15, <3>1, <3>3
    <3>5. /\ Place(live, id[2]) \in 1..Len(strings) /\ strings[Place(live, id[2])] = e.names[i]
      BY <1>5, <1>9, <3>2, <3>3
    <3>6. Resolve(to_str', id_map'[id]) = e.names[i]
      BY <2>4, <3>4, <3>5 DEF Resolve
    <3> QED BY <1>3, <2>5, <3>4, <3>6 DEF id
  <2>6. CASE id[1] # s
    <3>1. Left("compact", id[1])' <=> Left("compact", id[1])
      BY <1>3, <2>6
    <3>2. id[1] \in Shard \ {s}
      BY <2>2, <2>6 DEF Ids
    <3>3. CASE Left("compact", id[1])
      BY <2>3, <2>4, <3>1, <3>2, <3>3 DEF Resolve, id
    <3>4. CASE ~Left("compact", id[1])
      <4>1. id \in DOMAIN id_map /\ id_map'[id] = id_map[id] /\ id_map[id][1] = id[1]
        BY <1>14, <1>15, <2>3, <3>4
      <4>2. Resolve(to_str', id_map[id]) = Resolve(to_str, id_map[id])
        BY <2>4, <3>2, <4>1 DEF Resolve
      <4> QED BY <1>15, <2>3, <3>1, <3>4, <4>1, <4>2 DEF id
    <3> QED BY <3>3, <3>4
  <2> QED BY <2>5, <2>6
<1> QED BY <1>3, <1>10, <1>11, <1>12, <1>13, <1>16, <1>17 DEF Inv

(* The map leaves what an entry is found by different where it was.        *)
LEMMA KeyPrefix ==
  ASSUME NEW k \in Nat, NEW a \in Seq(Ids), NEW b \in Seq(Ids), Len(a) >= k, Len(b) >= k
  PROVE  SubSeq(a, 1, k) = SubSeq(b, 1, k) <=> \A i \in 1..k : a[i] = b[i]
<1>1. /\ Len(SubSeq(a, 1, k)) = k /\ Len(SubSeq(b, 1, k)) = k
      /\ \A i \in 1..k : SubSeq(a, 1, k)[i] = a[i] /\ SubSeq(b, 1, k)[i] = b[i]
  OBVIOUS
<1>2. /\ SubSeq(a, 1, k) \in Seq(Ids) /\ SubSeq(b, 1, k) \in Seq(Ids)
  OBVIOUS
<1> QED BY <1>1, <1>2

LEMMA RemappedOK ==
  ASSUME Inv, job = "compact", NEW st \in Stores, ~Moved(st), \A s \in Shard : ~Left("compact", s)
  PROVE  /\ EntriesOK(st, Remapped(st))
         /\ \A e \in Sound(Remapped(st)) : Resolves(to_str, e)
         /\ Names(Sound(store[st])) \subseteq Names(Sound(Remapped(st)))
<1> DEFINE mapped(id) == IF id \in DOMAIN id_map THEN id_map[id] ELSE id
           must(e) == IF st = "metadata" THEN {e.ids[1]} ELSE ToSet(e.ids)
           moved(e) == [e EXCEPT !.ids = [i \in DOMAIN e.ids |-> mapped(e.ids[i])]]
           staying == {e \in store[st] : must(e) \subseteq DOMAIN id_map}
<1>1. Remapped(st) = {moved(e) : e \in staying}
  BY DEF Remapped
<1>2. EntriesOK(st, store[st]) /\ store[st] \subseteq Entries
  BY DEF Inv, StoresOK
<1>3. /\ DOMAIN id_map \subseteq Ids /\ \A id \in DOMAIN id_map : id_map[id] \in Ids
      /\ \A id, jd \in DOMAIN id_map : id_map[id] = id_map[jd] => id = jd
  BY DEF Inv, MapOK
<1>4. ASSUME NEW e \in store[st]
      PROVE  /\ moved(e) \in Entries /\ moved(e).names = e.names /\ moved(e).sound = e.sound
             /\ Len(moved(e).ids) = Len(e.ids) /\ DOMAIN moved(e).ids = DOMAIN e.ids
             /\ \A i \in DOMAIN e.ids : moved(e).ids[i] = mapped(e.ids[i])
  <2>1. /\ e \in Entries /\ DOMAIN e.ids = 1..Len(e.ids) /\ Len(e.ids) \in Nat
        /\ \A i \in DOMAIN e.ids : e.ids[i] \in Ids
    BY <1>2, EntryShape
  <2> DEFINE ids == [i \in DOMAIN e.ids |-> mapped(e.ids[i])]
  <2>2. \A i \in DOMAIN e.ids : mapped(e.ids[i]) \in Ids
    BY <1>3, <2>1
  <2> HIDE DEF mapped
  <2>3. ids \in Seq(Ids) /\ Len(ids) = Len(e.ids)
    BY <2>1, <2>2
  <2>4. DOMAIN ids = DOMAIN e.ids /\ \A i \in DOMAIN e.ids : ids[i] = mapped(e.ids[i])
    OBVIOUS
  <2> HIDE DEF ids
  <2>5. moved(e) = [e EXCEPT !.ids = ids]
    BY DEF ids
  <2> HIDE DEF moved
  <2>6. /\ moved(e) \in Entries /\ moved(e).names = e.names /\ moved(e).sound = e.sound
        /\ moved(e).ids = ids
    BY <2>1, <2>3, <2>5 DEF Entries, Ids
  <2> QED BY <2>3, <2>4, <2>6
<1> HIDE DEF moved
<1>5. Key[st] \in 1..2 /\ (st = "metadata" => Key[st] = 1)
  BY KeyOf
<1>6. ASSUME NEW e \in store[st]
      PROVE  /\ e.ids \in Seq(Ids) /\ moved(e).ids \in Seq(Ids) /\ Len(e.ids) >= Key[st]
             /\ Len(moved(e).ids) >= Key[st] /\ \A i \in 1..Key[st] : i \in DOMAIN e.ids
  <2>1. /\ e \in Entries /\ Len(e.ids) >= Key[st] /\ DOMAIN e.ids = 1..Len(e.ids) /\ Len(e.ids) \in Nat
    BY <1>2, EntryShape DEF EntriesOK
  <2>2. e.ids \in Seq(Ids) /\ moved(e).ids \in Seq(Ids)
    BY <1>4, <2>1 DEF Entries, Ids
  <2> QED BY <1>4, <1>5, <2>1, <2>2
<1>7. ASSUME NEW e \in staying, NEW i \in 1..Key[st]
      PROVE  e.ids[i] \in DOMAIN id_map /\ moved(e).ids[i] = id_map[e.ids[i]]
  <2>1. i \in DOMAIN e.ids /\ e \in store[st]
    BY <1>6
  <2>2. e.ids[i] \in must(e)
    <3>1. CASE st = "metadata"
      BY <1>5, <3>1
    <3>2. CASE st # "metadata"
      <4>1. e.ids[i] \in ToSet(e.ids)
        BY <2>1 DEF ToSet
      <4> QED BY <3>2, <4>1
    <3> QED BY <3>1, <3>2
  <2> QED BY <1>4, <2>1, <2>2
<1>8. EntriesOK(st, Remapped(st))
  <2>1. \A f \in Remapped(st) : f \in Entries /\ Len(f.ids) = Len(f.names) /\ Len(f.ids) >= Key[st]
    BY <1>1, <1>2, <1>4, <1>6 DEF EntriesOK
  <2>2. ASSUME NEW f \in Remapped(st), NEW g \in Remapped(st),
               SubSeq(f.ids, 1, Key[st]) = SubSeq(g.ids, 1, Key[st])
        PROVE  f = g
    <3>1. PICK d \in staying, e \in staying : f = moved(d) /\ g = moved(e)
      BY <1>1
    <3>2. \A i \in 1..Key[st] : f.ids[i] = g.ids[i]
      BY <1>5, <1>6, <2>2, <3>1, KeyPrefix
    <3>3. \A i \in 1..Key[st] : d.ids[i] = e.ids[i]
      BY <1>3, <1>7, <3>1, <3>2
    <3>4. SubSeq(d.ids, 1, Key[st]) = SubSeq(e.ids, 1, Key[st])
      BY <1>5, <1>6, <3>3, KeyPrefix
    <3> QED BY <1>2, <3>1, <3>4 DEF EntriesOK
  <2> QED BY <2>1, <2>2 DEF EntriesOK
<1>9. ASSUME NEW e \in Sound(store[st])
      PROVE  moved(e) \in Sound(Remapped(st)) /\ Resolves(to_str, moved(e))
  <2>1. e \in store[st] /\ e.sound /\ Tracked(e, ~Left("collect", st))
    BY DEF Sound, Inv, SoundOK
  <2>2. \A i \in DOMAIN e.ids : e.ids[i] \in DOMAIN id_map /\ Resolve(to_str, id_map[e.ids[i]]) = e.names[i]
    <3> SUFFICES ASSUME NEW i \in DOMAIN e.ids
                 PROVE  e.ids[i] \in DOMAIN id_map /\ Resolve(to_str, id_map[e.ids[i]]) = e.names[i]
      OBVIOUS
    <3>1. ~Left("compact", e.ids[i][1])
      BY <1>2, <2>1, EntryShape DEF Ids
    <3> QED BY <2>1, <3>1 DEF Tracked
  <2>3. must(e) \subseteq DOMAIN id_map
    <3>1. ToSet(e.ids) \subseteq DOMAIN id_map
      BY <2>2 DEF ToSet
    <3>2. 1 \in DOMAIN e.ids
      BY <1>5, <1>6, <2>1
    <3> QED BY <2>2, <3>1, <3>2
  <2> QED BY <1>1, <1>4, <2>1, <2>2, <2>3 DEF Sound, Resolves
<1>10. \A f \in Sound(Remapped(st)) : \E e \in Sound(store[st]) : f = moved(e)
  BY <1>1, <1>4 DEF Sound
<1>11. ASSUME NEW n \in Names(Sound(store[st])) PROVE n \in Names(Sound(Remapped(st)))
  <2>1. PICK e \in Sound(store[st]) : e.names = n
    BY NamesOf
  <2>2. moved(e) \in Sound(Remapped(st)) /\ moved(e).names = n
    BY <1>4, <1>9, <2>1 DEF Sound
  <2> QED BY <2>2, NamesOf
<1> QED BY <1>8, <1>9, <1>10, <1>11

(* A step of a compaction that replaces a store by its remapped entries.   *)
LEMMA ReplaceKeepsInv ==
  ASSUME Inv, NEW st \in Stores, NEW S, NEW verb, Step(verb, st),
         verb = IF st = "preferences" THEN "swap" ELSE "remap",
         job = "compact", store' = [store EXCEPT ![st] = S],
         UNCHANGED <<to_str, to_id, draft, promised, base, file, kept>>,
         EntriesOK(st, S), \A e \in Sound(S) : Resolves(to_str, e),
         st \in Persisted \/ crashes = 0 => kept[st] \subseteq Names(Sound(S)),
         \/ job' = "compact" /\ UNCHANGED <<referenced, id_map>>
         \/ job' = "none" /\ id_map' = <<>>,
         SwapOK'
  PROVE  Inv'
<1>1. /\ JobOK' /\ ~Left(verb, st)' /\ UNCHANGED <<writer, crashes>>
      /\ \A v, o : ~(v = verb /\ o = st) => (Left(v, o)' <=> Left(v, o))
      /\ job' = "none" => \A v, o : ~Left(v, o)'
  BY StepTakes DEF Inv, bounds
<1>2. S \in SUBSET Entries
  BY DEF EntriesOK
<1>3. /\ store'[st] = S /\ \A t \in Stores \ {st} : store'[t] = store[t]
      /\ store' \in [Stores -> SUBSET Entries]
  BY <1>2 DEF Inv, StoresOK
<1>4. Callers' /\ InternerOK'
  <2>1. Callers'
    BY <1>1, CallersStay, ExtendsItself DEF Inv
  <2> QED BY <2>1 DEF Inv, InternerOK, InternerIsBijective, IdOf
<1>5. FileOK' /\ LoadOK' /\ SaveOK' /\ DraftOK'
  BY DEF Inv, FileOK, LoadOK, SaveOK, DraftOK
<1>6. StoresOK'
  <2>1. \A t \in Stores : EntriesOK(t, store'[t])
    BY <1>3 DEF Inv, StoresOK
  <2> QED BY <1>3, <2>1 DEF StoresOK
<1>7. MapOK'
  <2>1. CASE job' = "none" /\ id_map' = <<>>
    <3>1. DOMAIN id_map' = {}
      BY <2>1
    <3> QED BY <3>1 DEF MapOK
  <2>2. CASE job' = "compact" /\ UNCHANGED <<referenced, id_map>>
    <3>1. \A s : Left("compact", s)' <=> Left("compact", s)
      BY <1>1
    <3> QED BY <2>2, <3>1 DEF Inv, MapOK
  <2> QED BY <2>1, <2>2
<1>8. KeptOK'
  <2> SUFFICES ASSUME NEW t \in Stores, t \in Persisted \/ crashes = 0
               PROVE  kept[t] \subseteq Names(Sound(store'[t]))
    BY <1>1, <1>3 DEF Inv, KeptOK
  <2>1. CASE t = st
    BY <1>3, <2>1
  <2>2. CASE t # st
    BY <1>3, <2>2 DEF Inv, KeptOK
  <2> QED BY <2>1, <2>2
<1>9. SoundOK'
  <2> SUFFICES ASSUME NEW t \in Stores, NEW e \in Sound(store'[t])
               PROVE  /\ job' = "none" => Resolves(to_str, e)
                      /\ job' = "compact" => IF Moved(t)' THEN Resolves(to_str, e)
                                             ELSE Tracked(e, ~Left("collect", t))'
    BY DEF SoundOK
  <2>1. CASE t = st
    <3>1. Moved(t)'
      BY <1>1, <2>1 DEF Moved
    <3> QED BY <1>3, <2>1, <3>1
  <2>2. CASE t # st
    <3>1. /\ e \in Sound(store[t])
          /\ IF Moved(t) THEN Resolves(to_str, e) ELSE Tracked(e, ~Left("collect", t))
      BY <1>3, <2>2 DEF Inv, SoundOK
    <3>2. Moved(t)' <=> Moved(t)
      BY <1>1, <2>2 DEF Moved
    <3>3. CASE job' = "none"
      BY <1>1, <3>1, <3>2, <3>3 DEF Moved
    <3>4. CASE job' = "compact"
      <4>1. UNCHANGED <<referenced, id_map>>
        BY <3>4
      <4>2. (\A s : Left("compact", s)' <=> Left("compact", s))
            /\ (Left("collect", t)' <=> Left("collect", t))
        BY <1>1
      <4>3. Tracked(e, ~Left("collect", t)) => Tracked(e, ~Left("collect", t))'
        BY <4>1, <4>2 DEF Tracked
      <4> QED BY <3>1, <3>2, <3>4, <4>3
    <3> QED BY <3>3, <3>4
  <2> QED BY <2>1, <2>2
<1> QED BY <1>1, <1>4, <1>5, <1>6, <1>7, <1>8, <1>9 DEF Inv

LEMMA RemapStoreKeepsInv ==
  ASSUME Inv, NEW st \in Stores, RemapStore(st)
  PROVE  Inv'
<1>1. /\ st # "preferences" /\ Step("remap", st) /\ store' = [store EXCEPT ![st] = Remapped(st)]
      /\ Free /\ UNCHANGED <<to_str, to_id, draft, promised, base, file, kept>>
  BY DEF RemapStore, interner, saving
<1>2. job = "compact" /\ \A s \in Shard : ~Left("compact", s)
  BY <1>1, CompactTurns DEF Inv
<1>3. /\ Left("remap", st) /\ job' \in {job, "none"}
      /\ \A v, o : ~(v = "remap" /\ o = st) => (Left(v, o)' <=> Left(v, o))
      /\ ~Left("remap", st)'
  BY <1>1, StepTakes DEF Inv
<1>4. ~Moved(st)
  BY <1>1, <1>3 DEF Moved
<1>5. /\ EntriesOK(st, Remapped(st)) /\ \A e \in Sound(Remapped(st)) : Resolves(to_str, e)
      /\ Names(Sound(store[st])) \subseteq Names(Sound(Remapped(st)))
  BY <1>2, <1>4, RemappedOK
<1>6. st \in Persisted \/ crashes = 0 => kept[st] \subseteq Names(Sound(Remapped(st)))
  BY <1>2, <1>5 DEF Inv, KeptOK
<1>7. /\ \/ job' = "compact" /\ UNCHANGED <<referenced, id_map, new_shards>>
         \/ job' = "none" /\ id_map' = <<>> /\ new_shards' = {}
  BY <1>1, <1>2, <1>3 DEF Free, remapping
<1>8. SwapOK'
  BY <1>1, <1>3, <1>7, <1>2, NoEntries, KeyOf DEF Inv, SwapOK
<1> QED BY <1>1, <1>2, <1>5, <1>6, <1>7, <1>8, ReplaceKeepsInv

LEMMA RemapPreferencesKeepsInv == Inv /\ RemapPreferences => Inv'
<1> SUFFICES ASSUME Inv, RemapPreferences PROVE Inv'
  OBVIOUS
<1>1. /\ Step("remap", "preferences") /\ new_shards' = Remapped("preferences")
      /\ UNCHANGED <<to_str, to_id, store, referenced, id_map, draft, promised, base, file, kept>>
  BY DEF RemapPreferences, interner, saving
<1>2. /\ job = "compact" /\ job' = "compact" /\ Left("swap", "preferences")
      /\ \A s \in Shard : ~Left("compact", s)
  BY <1>1, CompactTurns DEF Inv
<1>3. \A v, o : ~(v = "remap" /\ o = "preferences") => (Left(v, o)' <=> Left(v, o))
  BY <1>1, StepTakes DEF Inv
<1>4. /\ EntriesOK("preferences", Remapped("preferences"))
      /\ \A e \in Sound(Remapped("preferences")) : Resolves(to_str, e)
      /\ Names(Sound(store["preferences"])) \subseteq Names(Sound(Remapped("preferences")))
  BY <1>2, RemappedOK, KeyOf DEF Moved
<1>5. kept["preferences"] \subseteq Names(Sound(store["preferences"]))
  BY <1>2, KeyOf DEF Inv, KeptOK, Persisted
<1>6. SwapOK'
  BY <1>1, <1>4, <1>5 DEF SwapOK
<1>7. MapOK'
  <2>1. \A s : Left("compact", s)' <=> Left("compact", s)
    BY <1>3
  <2> QED BY <1>1, <1>2, <2>1 DEF Inv, MapOK
<1>8. SoundOK'
  <2>1. /\ \A s : Left("compact", s)' <=> Left("compact", s)
        /\ \A t : Left("collect", t)' <=> Left("collect", t)
        /\ \A t \in Stores : Moved(t)' <=> Moved(t)
    BY <1>3 DEF Moved
  <2>2. \A e, t : Tracked(e, ~Left("collect", t)) => Tracked(e, ~Left("collect", t))'
    BY <1>1, <2>1 DEF Tracked
  <2> QED BY <1>1, <1>2, <2>1, <2>2 DEF Inv, SoundOK
<1> QED BY <1>1, <1>2, <1>6, <1>7, <1>8, CompactingKeepsInv

LEMMA SwapPreferencesKeepsInv == Inv /\ SwapPreferences => Inv'
<1> SUFFICES ASSUME Inv, SwapPreferences PROVE Inv'
  OBVIOUS
<1>1. /\ Step("swap", "preferences") /\ store' = [store EXCEPT !["preferences"] = new_shards]
      /\ new_shards' = {}
      /\ UNCHANGED <<to_str, to_id, referenced, id_map, draft, promised, base, file, kept>>
  BY DEF SwapPreferences, interner, saving
<1>2. job = "compact" /\ job' = "compact" /\ ~Left("remap", "preferences")
  BY <1>1, CompactTurns DEF Inv
<1>3. Left("swap", "preferences") /\ ~Left("swap", "preferences")'
  BY <1>1, StepTakes DEF Inv
<1>4. /\ EntriesOK("preferences", new_shards) /\ \A e \in Sound(new_shards) : Resolves(to_str, e)
      /\ kept["preferences"] \subseteq Names(Sound(new_shards))
  BY <1>2, <1>3 DEF Inv, SwapOK
<1>5. SwapOK'
  BY <1>1, <1>3, NoEntries, KeyOf DEF SwapOK
<1> QED BY <1>1, <1>2, <1>4, <1>5, KeyOf, ReplaceKeepsInv

-----------------------------------------------------------------------------
(***************************************************************************)
(* Every step keeps the invariant.                                         *)
(***************************************************************************)
LEMMA JobStepsKeepInv == Inv /\ JobSteps => Inv'
BY BeginCompactKeepsInv, RemapPreferencesKeepsInv, SwapPreferencesKeepsInv, BeginSaveKeepsInv,
   WriteStringsKeepsInv, RenameKeepsInv, CrashKeepsInv, CompactShardKeepsInv, HydrateKeepsInv,
   CollectKeepsInv, RemapStoreKeepsInv, WriteSectionKeepsInv, RestoreKeepsInv
   DEF JobSteps

(* Nothing in the invariant depends on the bounds of the counters.         *)
LEMMA NextKeepsInv == Inv /\ [Next]_vars => Inv'
<1> SUFFICES ASSUME Inv, [Next]_vars PROVE Inv'
  OBVIOUS
<1>1. CASE Next
  BY <1>1, CallsKeepInv, JobStepsKeepInv DEF Next
<1>2. CASE UNCHANGED vars
  <2>1. /\ UNCHANGED <<to_str, to_id, writer, crashes>>
        /\ UNCHANGED <<store, job, todo, remapping, saving, file, kept>>
    BY <1>2 DEF vars, interner, bounds
  <2>2. Extends(to_str, to_str') /\ InternerOK' /\ Callers'
    <3>1. Extends(to_str, to_str')
      BY <2>1, ExtendsItself
    <3>2. Callers'
      BY <2>1, <3>1, CallersStay DEF Inv
    <3> QED BY <2>1, <3>1, <3>2 DEF Inv, InternerOK, InternerIsBijective, IdOf
  <2> QED BY <2>1, <2>2, InternerGrows DEF Inv
<1> QED BY <1>1, <1>2

LEMMA InvAlways == Spec => []Inv
<1>1. Init => Inv
  BY InitInv
<1>2. Inv /\ [Next]_vars => Inv'
  BY NextKeepsInv
<1> QED BY <1>1, <1>2, PTL DEF Spec
-----------------------------------------------------------------------------
(* The two halves of the interner agree whatever calls, compactions, saves,*)
(* crashes and loads overlap (get_or_intern, compact_referenced and        *)
(* hydrate_sharded_buckets of interner.rs): a string has one identifier,   *)
(* an identifier one string, and a store one entry for a key.              *)
THEOREM OneIdentifier == Spec => []TypeOK
<1>1. Inv => TypeOK
  BY DEF Inv, InternerOK, StoresOK, JobOK, TypeOK
<1> QED BY <1>1, InvAlways, PTL

(* When no job runs, an entry a call wrote outside of every compaction and *)
(* load names what it was written for: no identifier has come to mean      *)
(* another string on the way through compactions, saves and restarts.      *)
THEOREM IdentifiersKeepTheirMeaning == Spec => []RefsResolve
<1>1. Inv => RefsResolve
  BY DEF Inv, SoundOK, Sound, RefsResolve
<1> QED BY <1>1, InvAlways, PTL

(* A compaction forgets nothing that must be there, and a restart nothing  *)
(* that was there when the save it loads began, unless a later call        *)
(* removed it (remap and swap of each store, save_snapshot, load_snapshot).*)
THEOREM EntriesSurvive == Spec => []NothingForgotten
<1>1. Inv => NothingForgotten
  <2> SUFFICES ASSUME Inv, job = "none", NEW st \in Stores, st \in Persisted \/ crashes = 0
               PROVE  kept[st] \subseteq Names({e \in store[st] : e.sound})
    BY DEF NothingForgotten
  <2> QED BY DEF Inv, KeptOK, Sound
<1> QED BY <1>1, InvAlways, PTL

(* The snapshot file is readable on its own at every moment, although the  *)
(* calls go on while its strings and sections are written one after the    *)
(* other (save_snapshot in src/src/snapshot.rs).                           *)
THEOREM SnapshotStandsAlone == Spec => []FileSelfContained
<1>1. Inv => FileSelfContained
  BY DEF Inv, FileOK, FileSelfContained
<1> QED BY <1>1, InvAlways, PTL
=============================================================================
