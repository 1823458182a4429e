--------------------------- MODULE StoreLocksProofs ---------------------------
(***************************************************************************)
(* If every call takes its locks in descending level, no set of threads    *)
(* ever waits for itself.  The calls of the store do take theirs so,       *)
(* whatever the number of shards and of requests, unless GET               *)
(* /api/telemetry is among them: they never deadlock.                      *)
(***************************************************************************)
EXTENDS StoreLocks, WellFoundedInduction, TLAPS

(***************************************************************************)
(* Part one.  Descending chains exclude a circular wait.  Nothing here     *)
(* uses what the threads, the locks and the calls of the store are.        *)
(***************************************************************************)

(* A thread runs one of its own chains.                                    *)
ChainsKnown == \A t \in Threads : chain[t] = <<>> \/ chain[t] \in Chains[t]

(* Thread t is inside the scope of l or waits to enter it as a writer.     *)
InsideOrWaiting(t, l) ==
  \/ Holds(t, l)
  \/ Waits(t) /\ Wanted(t).lock = l /\ Wanted(t).mode = "write"

(* A writer bit is up only for such a thread.                              *)
WritersKnown ==
  \A l \in Locks : \A t \in Threads : writer[l] = t => InsideOrWaiting(t, l)

(* A read guard is on the chain of the thread that took it.                *)
ReadersKnown == \A l \in Locks : \A t \in readers[l] : Holds(t, l)

(* The inductive invariant: the locks' state is what the threads hold or   *)
(* wait for.  NoCircularWait follows from it and the order of the chains.  *)
IInv == CallsWellFormed /\ TypeOK /\ ChainsKnown /\ WritersKnown /\ ReadersKnown

LEMMA WantedIsRequest ==
  ASSUME TypeOK, NEW t \in Threads, Waits(t)
  PROVE  /\ at[t] + 1 \in 1..Len(chain[t])
         /\ Wanted(t) \in Request /\ Wanted(t).lock \in Locks
<1>1. chain[t] \in Seq(Request) /\ at[t] \in Nat /\ Len(chain[t]) \in Nat
  BY DEF TypeOK
<1>2. at[t] + 1 \in 1..Len(chain[t])
  BY <1>1 DEF Waits
<1>3. chain[t][at[t] + 1] \in Request
  BY <1>1, <1>2
<1> QED BY <1>2, <1>3 DEF Wanted, Request

LEMMA InitIInv == CallsWellFormed /\ Init => IInv
  BY DEF CallsWellFormed, Init, IInv, TypeOK, ChainsKnown, WritersKnown, ReadersKnown

(* What a waiting thread wants lies below everything it holds.             *)
LEMMA WantedBelowHeld ==
  ASSUME IInv, ChainsDescend, NEW t \in Threads, Waits(t), NEW l \in Locks, Holds(t, l)
  PROVE  Level[Wanted(t).lock] < Level[l]
<1>1. at[t] + 1 \in 1..Len(chain[t]) /\ at[t] \in Nat
  BY WantedIsRequest DEF IInv, TypeOK
<1>2. PICK i \in 1..at[t] : chain[t][i].lock = l
  BY DEF Holds
<1>3. i \in 1..Len(chain[t]) /\ i < at[t] + 1
  BY <1>1
<1>4. chain[t] # <<>>
  BY <1>1
<1>5. Descending(chain[t])
  BY <1>4 DEF IInv, ChainsKnown, ChainsDescend
<1> QED BY <1>1, <1>2, <1>3, <1>5 DEF Descending, Wanted

(* The chains' order excludes a circular wait: of a set of blocked threads *)
(* take one that wants a lock of least level.  Who holds that lock wants   *)
(* one of lower level still.                                               *)
LEMMA DescendingExcludesCycles ==
  ASSUME IInv, ChainsDescend PROVE NoCircularWait
<1> SUFFICES ASSUME NEW S \in SUBSET Threads, S # {},
                    \A t \in S : Blockers(t) \intersect S # {}
             PROVE  FALSE
  BY DEF NoCircularWait
<1> DEFINE lev(t) == Level[Wanted(t).lock]
<1> DEFINE levels == {lev(t) : t \in S}
<1>1. \A t \in S : Waits(t)
  BY DEF Blockers
<1>2. \A t \in S : Wanted(t).lock \in Locks /\ lev(t) \in Nat
  BY <1>1, WantedIsRequest DEF IInv, CallsWellFormed
<1>3. \E m \in levels : \A n \in levels : ~(<<n, m>> \in OpToRel(<, Nat))
  <2>1. levels \subseteq Nat /\ levels # {}
    BY <1>2
  <2> HIDE DEF levels
  <2> QED BY <2>1, NatLessThanWellFounded, WFMin
<1>4. PICK t \in S : \A u \in S : ~(lev(u) < lev(t))
  <2>1. PICK m \in levels : \A n \in levels : ~(<<n, m>> \in OpToRel(<, Nat))
    BY <1>3
  <2>2. PICK t \in S : m = lev(t)
    OBVIOUS
  <2>3. \A u \in S : ~(<<lev(u), lev(t)>> \in OpToRel(<, Nat))
    BY <2>1, <2>2
  <2> QED BY <2>3, <1>2 DEF OpToRel
<1> DEFINE l == Wanted(t).lock
<1>5. l \in Locks /\ t \in Threads /\ Waits(t)
  BY <1>1, <1>2
(* A holder of the wanted lock in S contradicts the choice of t.           *)
<1>6. ASSUME NEW u \in S, Holds(u, l) PROVE FALSE
  BY <1>1, <1>4, <1>5, <1>6, WantedBelowHeld
<1>7. PICK u \in S : u \in Blockers(t)
  OBVIOUS
<1>8. CASE writer[l] # NoThread /\ writer[l] # t
  <2>1. writer[l] \in S
    BY <1>5, <1>7, <1>8 DEF Blockers
  <2>2. Waits(writer[l]) /\ Wanted(writer[l]).lock = l /\ Wanted(writer[l]).mode = "write"
    BY <1>5, <1>6, <1>8, <2>1 DEF IInv, WritersKnown, InsideOrWaiting
  <2>3. Blockers(writer[l]) = readers[l]
    BY <2>2, <1>8 DEF Blockers
  <2>4. PICK v \in S : v \in readers[l]
    BY <2>1, <2>3
  <2> QED BY <1>5, <1>6, <2>4 DEF IInv, ReadersKnown
<1>9. CASE writer[l] = t /\ Wanted(t).mode = "write"
  <2>1. u \in readers[l]
    BY <1>5, <1>7, <1>9 DEF Blockers, IInv, CallsWellFormed
  <2> QED BY <1>5, <1>6, <2>1 DEF IInv, ReadersKnown
<1>10. CASE writer[l] = t /\ Wanted(t).mode # "write"
  BY <1>5, <1>6, <1>10 DEF IInv, WritersKnown, InsideOrWaiting
<1>11. writer[l] # NoThread
  BY <1>5, <1>7 DEF Blockers
<1> QED BY <1>8, <1>9, <1>10, <1>11

(* A step of thread t leaves what the other threads hold and wait for.     *)
LEMMA OthersUntouched ==
  ASSUME NEW u \in Threads, NEW l, chain'[u] = chain[u], at'[u] = at[u]
  PROVE  /\ Holds(u, l)' <=> Holds(u, l)
         /\ InsideOrWaiting(u, l)' <=> InsideOrWaiting(u, l)
<1>1. Holds(u, l)' <=> Holds(u, l)
  BY DEF Holds
<1>2. Waits(u)' <=> Waits(u)
  BY DEF Waits
<1>3. Wanted(u)' = Wanted(u)
  BY DEF Wanted
<1> QED BY <1>1, <1>2, <1>3 DEF InsideOrWaiting

(* A chain is a non-empty sequence of requests.                            *)
LEMMA ChainShape ==
  ASSUME CallsWellFormed, NEW t \in Threads, NEW c \in Chains[t]
  PROVE  /\ c \in Seq(Request) /\ c # <<>>
         /\ Len(c) \in Nat /\ 1 <= Len(c)
         /\ c[1] \in Request /\ c[1].lock \in Locks
<1>1. c \in Seq(Request) /\ c # <<>>
  BY DEF CallsWellFormed
<1>2. Len(c) \in Nat /\ 1 <= Len(c)
  BY <1>1
<1>3. c[1] \in Request
  BY <1>1, <1>2
<1> QED BY <1>1, <1>2, <1>3 DEF Request

(* An idle thread holds nothing and waits for nothing.                     *)
LEMMA IdleIsFree ==
  ASSUME IInv, NEW t \in Threads, chain[t] = <<>>, NEW l \in Locks
  PROVE  ~Holds(t, l) /\ ~InsideOrWaiting(t, l) /\ at[t] = 0
<1>1. at[t] = 0
  BY DEF IInv, TypeOK
<1>2. ~Holds(t, l)
  BY <1>1 DEF Holds
<1>3. ~Waits(t)
  BY <1>1 DEF Waits
<1> QED BY <1>1, <1>2, <1>3 DEF InsideOrWaiting

(* A call's first lock: the thread was idle, so it held nothing before.    *)
LEMMA BeginReadKeepsIInv ==
  ASSUME IInv, NEW t \in Threads, BeginRead(t) PROVE IInv'
<1>1. PICK c \in Chains[t] :
        /\ c[1].mode = "read" /\ writer[c[1].lock] = NoThread
        /\ chain' = [chain EXCEPT ![t] = c]
        /\ readers' = [readers EXCEPT ![c[1].lock] = @ \union {t}]
  BY DEF BeginRead
<1>2. /\ c \in Seq(Request) /\ c # <<>> /\ Len(c) \in Nat /\ 1 <= Len(c)
      /\ c[1].lock \in Locks
  BY ChainShape DEF IInv
<1>3. at' = [at EXCEPT ![t] = 1] /\ writer' = writer /\ chain[t] = <<>>
  BY DEF BeginRead
<1>4. TypeOK'
  BY <1>1, <1>2, <1>3 DEF IInv, TypeOK
<1>5. chain'[t] = c /\ at'[t] = 1
  BY <1>1, <1>3 DEF IInv, TypeOK
<1>6. ASSUME NEW u \in Threads, u # t PROVE chain'[u] = chain[u] /\ at'[u] = at[u]
  BY <1>1, <1>3, <1>6 DEF IInv, TypeOK
<1>7. ChainsKnown'
  BY <1>5, <1>6 DEF IInv, ChainsKnown
<1>8. WritersKnown'
  <2> SUFFICES ASSUME NEW l \in Locks, NEW u \in Threads, writer[l] = u
               PROVE  InsideOrWaiting(u, l)'
    BY <1>3 DEF WritersKnown
  <2>1. InsideOrWaiting(u, l)
    BY DEF IInv, WritersKnown
  <2> QED BY <1>3, <1>6, <2>1, IdleIsFree, OthersUntouched
<1>9. ReadersKnown'
  <2> SUFFICES ASSUME NEW l \in Locks, NEW u \in readers'[l] PROVE Holds(u, l)'
    BY DEF ReadersKnown
  <2>1. CASE u = t /\ l = c[1].lock
    <3>1. 1 \in 1..at'[u] /\ chain'[u][1].lock = l
      BY <1>5, <2>1
    <3> QED BY <3>1 DEF Holds
  <2>2. CASE ~(u = t /\ l = c[1].lock)
    <3>1. u \in readers[l] /\ u \in Threads
      BY <1>1, <1>2, <2>2 DEF IInv, TypeOK
    <3>2. Holds(u, l)
      BY <3>1 DEF IInv, ReadersKnown
    <3> QED BY <1>3, <1>6, <3>1, <3>2, IdleIsFree, OthersUntouched
  <2> QED BY <2>1, <2>2
<1> QED BY <1>4, <1>7, <1>8, <1>9 DEF IInv, CallsWellFormed

LEMMA BeginWriteKeepsIInv ==
  ASSUME IInv, NEW t \in Threads, BeginWrite(t) PROVE IInv'
<1>1. PICK c \in Chains[t] :
        /\ c[1].mode = "write" /\ writer[c[1].lock] = NoThread
        /\ chain' = [chain EXCEPT ![t] = c]
        /\ writer' = [writer EXCEPT ![c[1].lock] = t]
  BY DEF BeginWrite
<1>2. /\ c \in Seq(Request) /\ c # <<>> /\ Len(c) \in Nat /\ 1 <= Len(c)
      /\ c[1].lock \in Locks
  BY ChainShape DEF IInv
<1>3. at' = at /\ readers' = readers /\ chain[t] = <<>>
  BY DEF BeginWrite
<1>4. TypeOK'
  BY <1>1, <1>2, <1>3 DEF IInv, TypeOK
<1>5. chain'[t] = c /\ at'[t] = 0
  <2>1. \E l \in Locks : TRUE
    BY <1>2
  <2> QED BY <1>1, <1>3, <2>1, IdleIsFree DEF IInv, TypeOK
<1>6. ASSUME NEW u \in Threads, u # t PROVE chain'[u] = chain[u] /\ at'[u] = at[u]
  BY <1>1, <1>3, <1>6 DEF IInv, TypeOK
<1>7. ChainsKnown'
  BY <1>5, <1>6 DEF IInv, ChainsKnown
<1>8. WritersKnown'
  <2> SUFFICES ASSUME NEW l \in Locks, NEW u \in Threads, writer'[l] = u
               PROVE  InsideOrWaiting(u, l)'
    BY DEF WritersKnown
  <2>1. CASE l = c[1].lock
    <3>1. u = t
      BY <1>1, <1>2, <2>1 DEF IInv, TypeOK
    <3>2. Waits(u)'
      BY <1>2, <1>5, <3>1 DEF Waits
    <3>3. Wanted(u)' = c[1]
      BY <1>5, <3>1 DEF Wanted
    <3> QED BY <1>1, <2>1, <3>2, <3>3 DEF InsideOrWaiting
  <2>2. CASE l # c[1].lock
    <3>1. writer[l] = u
      BY <1>1, <1>2, <2>2 DEF IInv, TypeOK
    <3>2. InsideOrWaiting(u, l)
      BY <3>1 DEF IInv, WritersKnown
    <3> QED BY <1>3, <1>6, <3>2, IdleIsFree, OthersUntouched
  <2> QED BY <2>1, <2>2
<1>9. ReadersKnown'
  <2> SUFFICES ASSUME NEW l \in Locks, NEW u \in readers[l] PROVE Holds(u, l)'
    BY <1>3 DEF ReadersKnown
  <2>1. u \in Threads /\ Holds(u, l)
    BY DEF IInv, TypeOK, ReadersKnown
  <2> QED BY <1>3, <1>6, <2>1, IdleIsFree, OthersUntouched
<1> QED BY <1>4, <1>7, <1>8, <1>9 DEF IInv, CallsWellFormed

(* One more lock of its chain: a thread keeps what it holds.               *)
LEMMA OneMoreHeld ==
  ASSUME IInv, NEW t \in Threads, Waits(t), NEW l \in Locks,
         chain' = chain, at' = [at EXCEPT ![t] = @ + 1]
  PROVE  /\ \A u \in Threads : Holds(u, l) => Holds(u, l)'
         /\ Wanted(t).lock = l => Holds(t, l)'
         /\ \A u \in Threads \ {t} : InsideOrWaiting(u, l) => InsideOrWaiting(u, l)'
<1>1. at'[t] = at[t] + 1 /\ at[t] \in Nat /\ \A u \in Threads \ {t} : at'[u] = at[u]
  BY DEF IInv, TypeOK
<1>2. \A u \in Threads \ {t} : InsideOrWaiting(u, l) => InsideOrWaiting(u, l)'
  BY <1>1, OthersUntouched
<1>3. ASSUME NEW u \in Threads, Holds(u, l) PROVE Holds(u, l)'
  <2>1. PICK i \in 1..at[u] : chain[u][i].lock = l
    BY <1>3 DEF Holds
  <2>2. i \in 1..at'[u]
    BY <1>1, <2>1 DEF IInv, TypeOK
  <2> QED BY <2>1, <2>2 DEF Holds
<1>4. ASSUME Wanted(t).lock = l PROVE Holds(t, l)'
  <2>1. at[t] + 1 \in 1..at'[t] /\ chain'[t][at[t] + 1].lock = l
    BY <1>1, <1>4 DEF Wanted
  <2> QED BY <2>1 DEF Holds
<1> QED BY <1>2, <1>3, <1>4

(* A nested guard adds one lock to what the thread holds.                  *)
LEMMA ReadLockKeepsIInv ==
  ASSUME IInv, NEW t \in Threads, ReadLock(t) PROVE IInv'
<1>1. PICK k \in Locks : k = Wanted(t).lock /\ at[t] + 1 \in 1..Len(chain[t])
  BY WantedIsRequest DEF IInv, ReadLock
<1>2. /\ readers' = [readers EXCEPT ![k] = @ \union {t}] /\ at' = [at EXCEPT ![t] = @ + 1]
      /\ chain' = chain /\ writer' = writer
      /\ Waits(t) /\ Wanted(t).mode = "read"
  BY <1>1 DEF ReadLock
<1>3. \A u \in Threads, l \in Locks :
        /\ Holds(u, l) => Holds(u, l)'
        /\ u # t /\ InsideOrWaiting(u, l) => InsideOrWaiting(u, l)'
  BY <1>2, OneMoreHeld
<1>4. Holds(t, k)'
  BY <1>1, <1>2, OneMoreHeld
<1>5. TypeOK'
  BY <1>1, <1>2 DEF IInv, TypeOK
<1>6. ChainsKnown'
  BY <1>2 DEF IInv, ChainsKnown
<1>7. WritersKnown'
  <2> SUFFICES ASSUME NEW l \in Locks, NEW u \in Threads, writer[l] = u
               PROVE  InsideOrWaiting(u, l)'
    BY <1>2 DEF WritersKnown
  <2>1. InsideOrWaiting(u, l)
    BY DEF IInv, WritersKnown
  <2>2. CASE u = t
    <3>1. Holds(u, l)
      BY <1>2, <2>1, <2>2 DEF InsideOrWaiting
    <3> QED BY <1>3, <3>1 DEF InsideOrWaiting
  <2> QED BY <1>3, <2>1, <2>2
<1>8. ReadersKnown'
  <2> SUFFICES ASSUME NEW l \in Locks, NEW u \in readers'[l] PROVE Holds(u, l)'
    BY DEF ReadersKnown
  <2>1. CASE u \in readers[l]
    <3>1. u \in Threads /\ Holds(u, l)
      BY <2>1 DEF IInv, TypeOK, ReadersKnown
    <3> QED BY <1>3, <3>1
  <2>2. CASE u \notin readers[l]
    <3>1. u = t /\ l = k
      BY <1>1, <1>2, <2>2 DEF IInv, TypeOK
    <3> QED BY <1>4, <3>1
  <2> QED BY <2>1, <2>2
<1> QED BY <1>5, <1>6, <1>7, <1>8 DEF IInv, CallsWellFormed

LEMMA ClaimWriteKeepsIInv ==
  ASSUME IInv, NEW t \in Threads, ClaimWrite(t) PROVE IInv'
<1>1. PICK k \in Locks : k = Wanted(t).lock
  BY WantedIsRequest DEF IInv, ClaimWrite
<1>2. /\ writer' = [writer EXCEPT ![k] = t]
      /\ chain' = chain /\ at' = at /\ readers' = readers
      /\ Waits(t) /\ Wanted(t).mode = "write"
  BY <1>1 DEF ClaimWrite
<1>3. \A u \in Threads, l \in Locks :
        /\ Holds(u, l)' <=> Holds(u, l)
        /\ InsideOrWaiting(u, l)' <=> InsideOrWaiting(u, l)
  BY <1>2, OthersUntouched
<1>4. InsideOrWaiting(t, k)
  BY <1>1, <1>2 DEF InsideOrWaiting
<1>5. TypeOK' /\ ChainsKnown'
  BY <1>1, <1>2 DEF IInv, TypeOK, ChainsKnown
<1>6. ReadersKnown'
  BY <1>2, <1>3 DEF IInv, TypeOK, ReadersKnown
<1>7. WritersKnown'
  <2> SUFFICES ASSUME NEW l \in Locks, NEW u \in Threads, writer'[l] = u
               PROVE  InsideOrWaiting(u, l)'
    BY DEF WritersKnown
  <2>1. CASE l = k
    <3>1. u = t
      BY <1>1, <1>2, <2>1 DEF IInv, TypeOK
    <3> QED BY <1>3, <1>4, <2>1, <3>1
  <2>2. CASE l # k
    <3>1. writer[l] = u
      BY <1>1, <1>2, <2>2 DEF IInv, TypeOK
    <3> QED BY <1>3, <3>1 DEF IInv, WritersKnown
  <2> QED BY <2>1, <2>2
<1> QED BY <1>5, <1>6, <1>7 DEF IInv, CallsWellFormed

LEMMA EnterWriteKeepsIInv ==
  ASSUME IInv, NEW t \in Threads, EnterWrite(t) PROVE IInv'
<1>1. PICK k \in Locks : k = Wanted(t).lock /\ at[t] + 1 \in 1..Len(chain[t])
  BY WantedIsRequest DEF IInv, EnterWrite
<1>2. /\ at' = [at EXCEPT ![t] = @ + 1]
      /\ chain' = chain /\ writer' = writer /\ readers' = readers
      /\ Waits(t)
  BY DEF EnterWrite
<1>3. \A u \in Threads, l \in Locks :
        /\ Holds(u, l) => Holds(u, l)'
        /\ u # t /\ InsideOrWaiting(u, l) => InsideOrWaiting(u, l)'
  BY <1>2, OneMoreHeld
<1>4. Holds(t, k)'
  BY <1>1, <1>2, OneMoreHeld
<1>5. TypeOK' /\ ChainsKnown'
  BY <1>1, <1>2 DEF IInv, TypeOK, ChainsKnown
<1>6. WritersKnown'
  <2> SUFFICES ASSUME NEW l \in Locks, NEW u \in Threads, writer[l] = u
               PROVE  InsideOrWaiting(u, l)'
    BY <1>2 DEF WritersKnown
  <2>1. InsideOrWaiting(u, l)
    BY DEF IInv, WritersKnown
  <2>2. CASE Holds(u, l)
    BY <1>3, <2>2 DEF InsideOrWaiting
  <2>3. CASE u = t /\ ~Holds(u, l)
    <3>1. l = k
      BY <1>1, <2>1, <2>3 DEF InsideOrWaiting
    <3> QED BY <1>4, <2>3, <3>1 DEF InsideOrWaiting
  <2> QED BY <1>3, <2>1, <2>2, <2>3
<1>7. ReadersKnown'
  BY <1>2, <1>3 DEF IInv, TypeOK, ReadersKnown
<1> QED BY <1>5, <1>6, <1>7 DEF IInv, CallsWellFormed

(* The scope ends: the thread keeps neither a guard nor a claim.           *)
LEMMA ReleaseKeepsIInv ==
  ASSUME IInv, NEW t \in Threads, Release(t) PROVE IInv'
<1>1. /\ chain' = [chain EXCEPT ![t] = <<>>] /\ at' = [at EXCEPT ![t] = 0]
      /\ readers' = [l \in Locks |-> readers[l] \ {t}]
      /\ writer' = [l \in Locks |-> IF writer[l] = t THEN NoThread ELSE writer[l]]
  BY DEF Release
<1>2. TypeOK' /\ ChainsKnown'
  BY <1>1 DEF IInv, TypeOK, ChainsKnown
<1>3. ASSUME NEW u \in Threads, u # t PROVE chain'[u] = chain[u] /\ at'[u] = at[u]
  BY <1>1, <1>3 DEF IInv, TypeOK
<1>4. WritersKnown'
  <2> SUFFICES ASSUME NEW l \in Locks, NEW u \in Threads, writer'[l] = u
               PROVE  InsideOrWaiting(u, l)'
    BY DEF WritersKnown
  <2>1. writer[l] = u /\ u # t
    BY <1>1 DEF IInv, CallsWellFormed
  <2>2. InsideOrWaiting(u, l)
    BY <2>1 DEF IInv, WritersKnown
  <2> QED BY <1>3, <2>1, <2>2, OthersUntouched
<1>5. ReadersKnown'
  <2> SUFFICES ASSUME NEW l \in Locks, NEW u \in readers'[l] PROVE Holds(u, l)'
    BY DEF ReadersKnown
  <2>1. u \in readers[l] /\ u # t /\ u \in Threads
    BY <1>1 DEF IInv, TypeOK
  <2>2. Holds(u, l)
    BY <2>1 DEF IInv, ReadersKnown
  <2> QED BY <1>3, <2>1, <2>2, OthersUntouched
<1> QED BY <1>2, <1>4, <1>5 DEF IInv, CallsWellFormed

LEMMA StepKeepsIInv == IInv /\ [Next]_vars => IInv'
<1> SUFFICES ASSUME IInv, [Next]_vars PROVE IInv'
  OBVIOUS
<1>1. CASE UNCHANGED vars
  <2>1. chain' = chain /\ at' = at /\ readers' = readers /\ writer' = writer
    BY <1>1 DEF vars
  <2>2. \A u \in Threads, l \in Locks :
          /\ Holds(u, l)' <=> Holds(u, l)
          /\ InsideOrWaiting(u, l)' <=> InsideOrWaiting(u, l)
    BY <2>1, OthersUntouched
  <2>3. TypeOK' /\ ChainsKnown'
    BY <2>1 DEF IInv, TypeOK, ChainsKnown
  <2>4. WritersKnown' /\ ReadersKnown'
    BY <2>1, <2>2 DEF IInv, TypeOK, WritersKnown, ReadersKnown
  <2> QED BY <2>3, <2>4 DEF IInv, CallsWellFormed
<1>2. ASSUME NEW t \in Threads, Step(t) PROVE IInv'
  BY <1>2, BeginReadKeepsIInv, BeginWriteKeepsIInv, ReadLockKeepsIInv, ClaimWriteKeepsIInv,
     EnterWriteKeepsIInv, ReleaseKeepsIInv DEF Step
<1> QED BY <1>1, <1>2 DEF Next

(* The locks' state stays within its type.                                 *)
LEMMA LocksTyped == CallsWellFormed /\ Spec => []TypeOK
<1>1. IInv => TypeOK
  BY DEF IInv
<1> QED BY InitIInv, StepKeepsIInv, <1>1, PTL DEF Spec

(* Calls that take their locks in descending level never deadlock: what    *)
(* parking_lot's writer preference would turn into a circular wait is      *)
(* ruled out by the order of the chains alone, for any number of threads,  *)
(* indexes and shards.                                                     *)
LEMMA NoDeadlock ==
  ChainsDescend /\ CallsWellFormed /\ Spec => []NoCircularWait
<1>1. ChainsDescend /\ CallsWellFormed /\ Init => ChainsDescend /\ IInv
  BY InitIInv
<1>2. ChainsDescend /\ IInv /\ [Next]_vars => (ChainsDescend /\ IInv)'
  BY StepKeepsIInv DEF ChainsDescend, Descending
<1>3. ChainsDescend /\ IInv => NoCircularWait
  BY DescendingExcludesCycles
<1> QED BY <1>1, <1>2, <1>3, PTL DEF Spec

(***************************************************************************)
(* Part two.  The calls of the store descend.                              *)
(***************************************************************************)

(* A call of the store: a non-empty chain of requests in descending level. *)
InOrder(c) == c \in Seq(Request) \ {<<>>} /\ Descending(c)
AllInOrder(calls) == \A c \in calls : InOrder(c)

LEMMA RankNat == \A x \in Indexes : Rank[x] \in Nat
  BY DEF Rank, Indexes

LEMMA ProductGrows ==
  ASSUME NEW n \in Nat, NEW a \in Nat, NEW b \in Nat
  PROVE  n * a \in Nat /\ (a < b => n * a + n <= n * b)
<1>1. n * a \in Nat
  OBVIOUS
<1>2. ASSUME a < b PROVE n * a + n <= n * b
  <2>1. PICK c \in Nat : b = a + 1 + c
    <3>1. b - a - 1 \in Nat /\ b = a + 1 + (b - a - 1)
      BY <1>2
    <3> QED BY <3>1
  <2>2. n * b = n * a + n + n * c
    BY <2>1
  <2>3. n * c \in Nat
    OBVIOUS
  <2> QED BY <2>2, <2>3, <1>1
<1> QED BY <1>1, <1>2

(* Level orders by index first, then by shard.                             *)
LEMMA LevelOrder ==
  ASSUME NEW x \in Indexes, NEW y \in Indexes, NEW s \in Shards, NEW t \in Shards
  PROVE  /\ Level[<<x, s>>] \in Nat
         /\ Rank[y] < Rank[x] => Level[<<y, t>>] < Level[<<x, s>>]
         /\ s < t => Level[<<x, t>>] < Level[<<x, s>>]
<1>1. NumShards \in Nat /\ s \in Nat /\ t \in Nat /\ 1 <= t /\ s <= NumShards /\ t <= NumShards
  BY StoreLocksAssumption DEF Shards
<1>2. /\ Level[<<x, s>>] = NumShards * Rank[x] + (NumShards - s)
      /\ Level[<<x, t>>] = NumShards * Rank[x] + (NumShards - t)
      /\ Level[<<y, t>>] = NumShards * Rank[y] + (NumShards - t)
  BY DEF Level, Locks
<1>3. Rank[x] \in Nat /\ Rank[y] \in Nat
  BY RankNat
<1>4. /\ NumShards * Rank[x] \in Nat /\ NumShards * Rank[y] \in Nat
      /\ Rank[y] < Rank[x] => NumShards * Rank[y] + NumShards <= NumShards * Rank[x]
  BY <1>1, <1>3, ProductGrows
<1> QED BY <1>1, <1>2, <1>4

LEMMA LevelType == Level \in [Locks -> Nat]
<1> SUFFICES ASSUME NEW l \in Locks PROVE Level[l] \in Nat
  BY DEF Level
<1>1. PICK x \in Indexes, s \in Shards : l = <<x, s>>
  BY DEF Locks
<1> QED BY <1>1, LevelOrder

LEMMA RequestsTyped ==
  ASSUME NEW x \in Indexes, NEW s \in Shards
  PROVE  /\ R(x, s) \in Request /\ W(x, s) \in Request
         /\ R(x, s).lock = <<x, s>> /\ W(x, s).lock = <<x, s>>
  BY DEF R, W, Request, Locks

LEMMA SinglesInOrder ==
  ASSUME NEW xs \in SUBSET Indexes
  PROVE  AllInOrder(Reads(xs)) /\ AllInOrder(Writes(xs))
<1>1. ASSUME NEW r \in Request PROVE InOrder(<<r>>)
  BY DEF InOrder, Descending
<1>2. \A x \in xs, s \in Shards : R(x, s) \in Request /\ W(x, s) \in Request
  BY RequestsTyped
<1> QED BY <1>1, <1>2 DEF AllInOrder, Reads, Writes

(* Two nested guards, whatever their modes and shards.                     *)
LEMMA PairInOrder ==
  ASSUME NEW q \in Request, NEW r \in Request, Level[r.lock] < Level[q.lock]
  PROVE  InOrder(<<q, r>>)
  BY DEF InOrder, Descending

LEMMA NestedInOrder ==
  ASSUME NEW x \in Indexes, NEW y \in Indexes, Rank[y] < Rank[x]
  PROVE  AllInOrder(Nested(x, y))
<1> SUFFICES ASSUME NEW s \in Shards, NEW t \in Shards PROVE InOrder(<<R(x, s), R(y, t)>>)
  BY DEF AllInOrder, Nested
<1> QED BY RequestsTyped, LevelOrder, PairInOrder

(* The guards of all shards of an index ...                                *)
LEMMA StreamShape ==
  ASSUME NEW x \in Indexes
  PROVE  /\ NumShards \in Nat /\ NumShards >= 1
         /\ AllShards(x) \in Seq(Request) /\ Len(AllShards(x)) = NumShards
         /\ \A s \in Shards : AllShards(x)[s].lock = <<x, s>>
<1>1. NumShards \in Nat /\ NumShards >= 1
  BY StoreLocksAssumption
<1>2. \A s \in Shards : AllShards(x)[s] = R(x, s) /\ R(x, s) \in Request
  BY RequestsTyped DEF AllShards
<1>3. AllShards(x) \in [1..NumShards -> Request]
  BY <1>2 DEF AllShards, Shards
<1>4. AllShards(x) \in Seq(Request) /\ Len(AllShards(x)) = NumShards
  BY <1>1, <1>3
<1> QED BY <1>1, <1>2, <1>4, RequestsTyped

LEMMA StreamInOrder ==
  ASSUME NEW x \in Indexes PROVE InOrder(AllShards(x))
<1> DEFINE c == AllShards(x)
<1>1. /\ NumShards \in Nat /\ NumShards >= 1 /\ c \in Seq(Request) /\ Len(c) = NumShards
      /\ \A s \in Shards : c[s].lock = <<x, s>>
  BY StreamShape
<1> HIDE DEF c
<1>2. c # <<>>
  BY <1>1
<1>3. Descending(c)
  BY <1>1, LevelOrder DEF Descending, Shards
<1>4. InOrder(c)
  BY <1>1, <1>2, <1>3 DEF InOrder
<1> QED BY <1>4 DEF c

(* ... and one of a lower index inside them.                               *)
LEMMA LookupInStreamInOrder ==
  ASSUME NEW x \in Indexes, NEW y \in Indexes, Rank[y] < Rank[x], NEW t \in Shards
  PROVE  InOrder(Append(AllShards(x), R(y, t)))
<1> DEFINE c == AllShards(x)
           d == Append(c, R(y, t))
<1>1. /\ NumShards \in Nat /\ NumShards >= 1 /\ c \in Seq(Request) /\ Len(c) = NumShards
      /\ \A s \in Shards : c[s].lock = <<x, s>>
  BY StreamShape
<1>2. R(y, t) \in Request /\ R(y, t).lock = <<y, t>>
  BY RequestsTyped
<1> HIDE DEF c
<1>3. /\ d \in Seq(Request) /\ Len(d) = NumShards + 1 /\ d[NumShards + 1] = R(y, t)
      /\ \A s \in Shards : d[s] = c[s]
  BY <1>1, <1>2 DEF Shards
<1> HIDE DEF d
<1>4. Descending(d)
  <2> SUFFICES ASSUME NEW i \in 1..(NumShards + 1), NEW j \in 1..(NumShards + 1), i < j
               PROVE  Level[d[j].lock] < Level[d[i].lock]
    BY <1>3 DEF Descending
  <2>1. i \in Shards /\ d[i].lock = <<x, i>>
    BY <1>1, <1>3 DEF Shards
  <2>2. CASE j = NumShards + 1
    BY <1>2, <1>3, <2>1, <2>2, LevelOrder
  <2>3. CASE j # NumShards + 1
    <3>1. j \in Shards /\ d[j].lock = <<x, j>>
      BY <1>1, <1>3, <2>3 DEF Shards
    <3> QED BY <2>1, <3>1, LevelOrder
  <2> QED BY <2>2, <2>3
<1>5. d # <<>>
  BY <1>1, <1>3
<1>6. InOrder(d)
  BY <1>3, <1>4, <1>5 DEF InOrder
<1> QED BY <1>6 DEF c, d

(* The consumer nests nothing.                                             *)
LEMMA ConsumerInOrder == AllInOrder(ConsumerCalls)
<1> DEFINE ws == {"user_interactions", "post_interactions", "user_likes_bitmaps", "follows",
                  "user_blocks", "post_metadata", "author_posts", "post_topics", "interner",
                  "active_recent_posts", "recent_active_log", "velocity_cache"}
<1>1. ws \subseteq Indexes
  BY DEF Indexes, Rank
<1>2. ConsumerCalls \subseteq Reads(ws) \union Writes(ws)
  BY DEF ConsumerCalls, RecordInteraction, RecordRelation, RecordPostMeta, RemovePost, Intern,
         Reads, Writes
<1> HIDE DEF ws
<1> QED BY <1>1, <1>2, SinglesInOrder DEF AllInOrder

(* Maintenance nests topics in reverse edges or in metadata, and streams.  *)
LEMMA MaintenanceInOrder == AllInOrder(MaintenanceCalls)
<1>1. AllInOrder(Reads(Indexes)) /\ AllInOrder(Writes(Indexes))
  BY SinglesInOrder
<1>2. Rank["post_topics"] < Rank["post_interactions"] /\ Rank["post_topics"] < Rank["post_metadata"]
      /\ {"post_topics", "post_interactions", "post_metadata", "user_interactions", "interner",
          "user_likes_bitmaps", "follows", "active_recent_posts"} \subseteq Indexes
  BY DEF Rank, Indexes
<1>3. ASSUME NEW s \in Shards PROVE InOrder(<<R("post_interactions", s), W("post_topics", s)>>)
  <2> DEFINE q == R("post_interactions", s)
             r == W("post_topics", s)
  <2>1. q \in Request /\ q.lock = <<"post_interactions", s>>
    BY <1>2, RequestsTyped
  <2>2. r \in Request /\ r.lock = <<"post_topics", s>>
    BY <1>2, RequestsTyped
  <2>3. Level[<<"post_topics", s>>] < Level[<<"post_interactions", s>>]
    BY <1>2, LevelOrder
  <2> HIDE DEF q, r
  <2>4. InOrder(<<q, r>>)
    BY <2>1, <2>2, <2>3, PairInOrder
  <2> QED BY <2>4 DEF q, r
<1>4. AllInOrder(PruneOlderThan)
  BY <1>1, <1>2, <1>3 DEF PruneOlderThan, AllInOrder, Reads, Writes
<1>5. AllInOrder(CollectReferencedIds) /\ AllInOrder(Compact)
  BY <1>1, <1>2 DEF CollectReferencedIds, Compact, AllInOrder, Reads, Writes
<1>6. AllInOrder(StreamSections)
  <2>1. \A x \in {"interner", "user_interactions", "post_interactions", "user_likes_bitmaps",
                 "follows", "active_recent_posts"} : InOrder(AllShards(x))
    BY <1>2, StreamInOrder
  <2>2. \A s \in Shards : InOrder(Append(AllShards("post_metadata"), R("post_topics", s)))
    BY <1>2, LookupInStreamInOrder
  <2> QED BY <2>1, <2>2 DEF StreamSections, StreamStrings, StreamUserInteractions,
             StreamPostInteractions, StreamUserLikesBitmaps, StreamFollows, StreamPostMetadata,
             StreamActiveRecentPosts, AllInOrder
<1>7. AllInOrder(Restore) /\ AllInOrder(CountNonEmpty)
  BY <1>1, <1>2 DEF Restore, CountNonEmpty, AllInOrder, Reads, Writes
<1> QED BY <1>4, <1>5, <1>6, <1>7 DEF MaintenanceCalls, AllInOrder

(* Requests nest along the ranks, three deep in the walk over the follows. *)
LEMMA RequestsInOrder == ~Sized => AllInOrder(RequestCalls)
<1>1. /\ Rank["user_blocks"] < Rank["post_interactions"]
      /\ Rank["user_likes_bitmaps"] < Rank["post_interactions"]
      /\ Rank["user_blocks"] < Rank["follows"]
      /\ Rank["user_interactions"] < Rank["follows"]
      /\ Rank["post_interactions"] < Rank["user_interactions"]
      /\ Rank["post_interactions"] < Rank["follows"]
      /\ Rank["active_recent_posts"] < Rank["recent_active_log"]
      /\ Rank["interner"] < Rank["user_likes_bitmaps"]
      /\ Rank["post_metadata"] < Rank["user_likes_bitmaps"]
      /\ Rank["post_topics"] < Rank["user_likes_bitmaps"]
  BY DEF Rank
<1>2. {"user_blocks", "post_interactions", "user_likes_bitmaps", "follows", "user_interactions",
       "active_recent_posts", "recent_active_log", "interner", "post_metadata", "post_topics",
       "velocity_cache"} \subseteq Indexes
  BY DEF Rank, Indexes
<1>3. AllInOrder(TraverseTier1)
  BY <1>1, <1>2, SinglesInOrder, NestedInOrder DEF TraverseTier1, AllInOrder
<1>4. AllInOrder(TraverseTier2) /\ AllInOrder(PreviewFollowWalk)
  <2>1. AllInOrder(Nested("follows", "user_blocks"))
    BY <1>1, <1>2, NestedInOrder
  <2>2. ASSUME NEW s \in Shards, NEW t \in Shards, NEW u \in Shards
        PROVE  InOrder(<<R("follows", s), R("user_interactions", t), R("post_interactions", u)>>)
    <3> DEFINE a == R("follows", s)
               b == R("user_interactions", t)
               c == R("post_interactions", u)
    <3>1. /\ a \in Request /\ a.lock = <<"follows", s>>
          /\ b \in Request /\ b.lock = <<"user_interactions", t>>
          /\ c \in Request /\ c.lock = <<"post_interactions", u>>
      BY <1>2, RequestsTyped
    <3>2. /\ Level[<<"user_interactions", t>>] < Level[<<"follows", s>>]
          /\ Level[<<"post_interactions", u>>] < Level[<<"user_interactions", t>>]
          /\ Level[<<"post_interactions", u>>] < Level[<<"follows", s>>]
      BY <1>1, <1>2, LevelOrder
    <3> HIDE DEF a, b, c
    <3>3. InOrder(<<a, b, c>>)
      BY <3>1, <3>2 DEF InOrder, Descending
    <3> QED BY <3>3 DEF a, b, c
  <2> QED BY <2>1, <2>2 DEF TraverseTier2, PreviewFollowWalk, AllInOrder
<1>5. AllInOrder(TraverseTier3)
  BY <1>1, <1>2, SinglesInOrder, NestedInOrder DEF TraverseTier3, AllInOrder
<1>6. AllInOrder(ScoreCandidates) /\ AllInOrder(Stats)
  BY <1>2, SinglesInOrder DEF ScoreCandidates, Stats, AllInOrder
<1>7. AllInOrder(FindTasteTwins) /\ AllInOrder(DescribeTwins)
  BY <1>1, <1>2, SinglesInOrder, NestedInOrder DEF FindTasteTwins, DescribeTwins, AllInOrder
<1>8. AllInOrder(ExplainByTwin) /\ AllInOrder(ExplainByFollow) /\ AllInOrder(ExplainByAttribution)
  BY <1>1, <1>2, SinglesInOrder, NestedInOrder
     DEF ExplainByTwin, ExplainByFollow, ExplainByAttribution, Intern, AllInOrder
<1>9. AllInOrder(RecommendPreview)
  BY <1>3, <1>4, <1>5, <1>6, <1>8 DEF RecommendPreview, AllInOrder
<1> QED BY <1>3, <1>4, <1>5, <1>6, <1>7, <1>8, <1>9 DEF RequestCalls, AllInOrder

(* Whatever the number of shards and of requests, every call of the store  *)
(* but the telemetry's takes its locks in descending level.                *)
THEOREM StoreCallsDescend == ~Sized => CallsWellFormed /\ ChainsDescend
<1> SUFFICES ASSUME ~Sized PROVE CallsWellFormed /\ ChainsDescend
  OBVIOUS
<1>1. \A t \in Threads : AllInOrder(Chains[t])
  BY ConsumerInOrder, MaintenanceInOrder, RequestsInOrder DEF Chains, Threads
<1>2. ChainsDescend
  BY <1>1 DEF ChainsDescend, AllInOrder, InOrder
<1>3. Chains \in [Threads -> SUBSET (Seq(Request) \ {<<>>})]
  <2>1. \A t \in Threads : Chains[t] \subseteq Seq(Request) \ {<<>>}
    BY <1>1 DEF AllInOrder, InOrder
  <2> QED BY <2>1 DEF Chains
<1>4. CallsWellFormed
  BY <1>3, LevelType, StoreLocksAssumption DEF CallsWellFormed, Threads
<1> QED BY <1>2, <1>4

(* The locks' state stays well-formed: a thread never acquires more guards *)
(* than the scope it runs asks for, and only threads read or write a lock. *)
THEOREM StoreLocksTyped == ~Sized /\ Spec => []TypeOK
  BY StoreCallsDescend, LocksTyped

(* The program's threads never deadlock on the store's locks, as long as   *)
(* GET /api/telemetry is not called.                                       *)
THEOREM StoreNeverDeadlocks == ~Sized /\ Spec => []NoCircularWait
  BY StoreCallsDescend, NoDeadlock

=============================================================================
