------------------------------ MODULE LockOrder ------------------------------
(***************************************************************************)
(* Threads that take reader-writer locks in nested scopes.  A call is a    *)
(* chain, the sequence of locks it comes to hold at once, outermost first: *)
(* guards live in nested scopes, so a call that holds nothing in between   *)
(* is several chains.  The locks are parking_lot's RwLock as GraphStore    *)
(* uses it: a writer first claims the lock, which bars new readers, and    *)
(* then waits for the readers to leave.                                    *)
(***************************************************************************)
EXTENDS Naturals, Sequences

CONSTANTS
  Threads,   \* threads of the runtime
  Locks,     \* one lock per index and shard
  NoThread,  \* no writer
  Level,     \* Level[l]: the place of lock l in the lock order, innermost lowest
  Chains     \* Chains[t]: the chains thread t may run

Request == [mode : {"read", "write"}, lock : Locks]

(* What an instance must provide.                                          *)
CallsWellFormed ==
  /\ NoThread \notin Threads
  /\ Level \in [Locks -> Nat]
  /\ Chains \in [Threads -> SUBSET (Seq(Request) \ {<<>>})]

VARIABLES
  chain,    \* chain[t]: what thread t runs, <<>> when it holds nothing
  at,       \* at[t]: how many locks of its chain thread t holds
  readers,  \* readers[l]: threads with a read guard on l
  writer    \* writer[l]: the thread that claimed or holds l for writing

vars == <<chain, at, readers, writer>>

Init ==
  /\ chain = [t \in Threads |-> <<>>]
  /\ at = [t \in Threads |-> 0]
  /\ readers = [l \in Locks |-> {}]
  /\ writer = [l \in Locks |-> NoThread]

Waits(t) == at[t] < Len(chain[t])
Wanted(t) == chain[t][at[t] + 1]
Holds(t, l) == \E i \in 1..at[t] : chain[t][i].lock = l

(* A call enters its outermost scope.  While a thread waits for its first  *)
(* lock it holds nothing, so nobody waits for it, and it counts as idle.   *)
BeginRead(t) ==
  /\ chain[t] = <<>>
  /\ \E c \in Chains[t] :
       /\ c[1].mode = "read" /\ writer[c[1].lock] = NoThread
       /\ chain' = [chain EXCEPT ![t] = c]
       /\ readers' = [readers EXCEPT ![c[1].lock] = @ \union {t}]
  /\ at' = [at EXCEPT ![t] = 1]
  /\ UNCHANGED writer

BeginWrite(t) ==
  /\ chain[t] = <<>>
  /\ \E c \in Chains[t] :
       /\ c[1].mode = "write" /\ writer[c[1].lock] = NoThread
       /\ chain' = [chain EXCEPT ![t] = c]
       /\ writer' = [writer EXCEPT ![c[1].lock] = t]
  /\ UNCHANGED <<at, readers>>

(* A reader enters a nested scope unless a writer holds the lock or waits  *)
(* for it.                                                                 *)
ReadLock(t) ==
  /\ Waits(t) /\ Wanted(t).mode = "read"
  /\ writer[Wanted(t).lock] = NoThread
  /\ readers' = [readers EXCEPT ![Wanted(t).lock] = @ \union {t}]
  /\ at' = [at EXCEPT ![t] = @ + 1]
  /\ UNCHANGED <<chain, writer>>

(* A writer bars new readers first ...                                     *)
ClaimWrite(t) ==
  /\ Waits(t) /\ Wanted(t).mode = "write"
  /\ writer[Wanted(t).lock] = NoThread
  /\ writer' = [writer EXCEPT ![Wanted(t).lock] = t]
  /\ UNCHANGED <<chain, at, readers>>

(* ... and enters when the last reader has left.                           *)
EnterWrite(t) ==
  /\ Waits(t) /\ Wanted(t).mode = "write"
  /\ writer[Wanted(t).lock] = t
  /\ readers[Wanted(t).lock] = {}
  /\ at' = [at EXCEPT ![t] = @ + 1]
  /\ UNCHANGED <<chain, readers, writer>>

\* Mutant: the guards go, the count of guards stays.
ReleaseForgets(t) ==
  /\ chain[t] # <<>> /\ ~Waits(t)
  /\ chain' = [chain EXCEPT ![t] = <<>>]
  /\ readers' = [l \in Locks |-> readers[l] \ {t}]
  /\ writer' = [l \in Locks |-> IF writer[l] = t THEN NoThread ELSE writer[l]]
  /\ UNCHANGED at

(* The scope ends and its guards are dropped.                              *)
Release(t) ==
  /\ chain[t] # <<>> /\ ~Waits(t)
  /\ chain' = [chain EXCEPT ![t] = <<>>]
  /\ at' = [at EXCEPT ![t] = 0]
  /\ readers' = [l \in Locks |-> readers[l] \ {t}]
  /\ writer' = [l \in Locks |-> IF writer[l] = t THEN NoThread ELSE writer[l]]

Step(t) == BeginRead(t) \/ BeginWrite(t) \/ ReadLock(t) \/ ClaimWrite(t) \/ EnterWrite(t)
             \/ Release(t)

Next == \E t \in Threads : Step(t)

Spec == Init /\ [][Next]_vars

(***************************************************************************)
(* Properties.                                                             *)
(***************************************************************************)

TypeOK ==
  /\ chain \in [Threads -> Seq(Request)]
  /\ at \in [Threads -> Nat]
  /\ \A t \in Threads : at[t] <= Len(chain[t])
  /\ readers \in [Locks -> SUBSET Threads]
  /\ writer \in [Locks -> Threads \union {NoThread}]

(* Whom thread t waits for: the writer that bars a reader or a second      *)
(* writer, or the readers a writer has to let out.                         *)
Blockers(t) ==
  IF ~Waits(t) THEN {}
  ELSE LET l == Wanted(t).lock IN
       IF writer[l] = NoThread THEN {}
       ELSE IF writer[l] # t THEN {writer[l]}
       ELSE IF Wanted(t).mode = "write" THEN readers[l] ELSE {t}

(* No set of threads waits for itself: the calls of the feed, the consumer *)
(* and the maintenance tasks never deadlock on the graph's locks.          *)
NoCircularWait ==
  \A S \in SUBSET Threads :
    S # {} => \E t \in S : Blockers(t) \intersect S = {}

(* The discipline that rules a circular wait out: every chain takes its    *)
(* locks in descending level.                                              *)
Descending(c) == \A i, j \in 1..Len(c) : i < j => Level[c[j].lock] < Level[c[i].lock]
ChainsDescend == \A t \in Threads : \A c \in Chains[t] : Descending(c)

=============================================================================
