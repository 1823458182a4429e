------------------------- MODULE IngestPipelineProofs -------------------------
(***************************************************************************)
(* What the pipeline owes its readers, for every set of slices, channel    *)
(* capacity, batch size and traffic: no event of a frame the cursor has    *)
(* passed is dropped while the process lives, a drain that completes has   *)
(* applied them all, and a slice's events reach the graph in the order of  *)
(* its stream.                                                             *)
(***************************************************************************)
EXTENDS IngestPipeline, SequenceTheorems, NaturalsInduction, WellFoundedInduction, TLAPS

Up == phase \in {"running", "cancelled", "joined"}

(* A reader has events in hand exactly while it sends, and they are its    *)
(* own slice's.                                                            *)
Hands ==
  \A s \in Slice :
    /\ reader[s] = "send" <=> hand[s] # <<>>
    /\ \A i \in 1..Len(hand[s]) : hand[s][i][1] = s

(* A consumer that is done has left nothing behind it, and it is done      *)
(* before the process moves past the drain.                                *)
Drained ==
  /\ ~Alive => consumer = "done"
  /\ consumer = "done" =>
       /\ channel = <<>> /\ batch = <<>>
       /\ \A s \in Slice : reader[s] = "done" /\ hand[s] = <<>>

Fresh == phase = "down" => \A s \in Slice : pos[s] = 1

(* The cursor moves before the events are sent: nothing in flight is ahead *)
(* of it, and nothing is in flight for a slice that has no cursor.         *)
Passed == \A f \in InFlight : f[2] <= slice_cursors[f[1]]

NotSkipped == Up => \A s \in Slice : Received(s) \subseteq graph \cup InFlight

(* The events due before f, among those asked for since the boot.          *)
Due(f, b) == {e \in Events : Earlier(e, f) /\ e[2] >= b[e[1]]}

(* A queue is in order behind what is already past it.                     *)
InOrder(q, past, b) ==
  \A i \in 1..Len(q) : \A e \in Due(q[i], b) : e \in past \/ \E j \in 1..(i - 1) : e = q[j]

Order ==
  /\ InOrder(batch, graph, base)
  /\ InOrder(channel, graph \cup ToSet(batch), base)
  /\ \A s \in Slice : InOrder(hand[s], graph \cup ToSet(batch) \cup ToSet(channel), base)

Inv == TypeOK /\ Hands /\ Drained /\ Fresh /\ Passed /\ NotSkipped /\ Order

(***************************************************************************)
(* Events and queues of events.                                            *)
(***************************************************************************)

LEMMA EventsOf ==
  ASSUME NEW s \in Slice, NEW t \in Times
  PROVE  EventsIn[s][t] \in Nat
BY PipelineAssumption

LEMMA EventShape ==
  ASSUME NEW e \in Events
  PROVE  /\ e[1] \in Slice /\ e[2] \in Times /\ e[3] \in 1..EventsIn[e[1]][e[2]]
         /\ EventsIn[e[1]][e[2]] \in Nat
         /\ e = <<e[1], e[2], e[3]>>
<1>1. PICK s \in Slice, t \in Times : e \in ToSet(FrameEvents(s, t))
  BY DEF Events
<1>2. PICK k \in 1..EventsIn[s][t] : e = <<s, t, k>>
  BY <1>1, EventsOf DEF ToSet, FrameEvents
<1> QED BY <1>2, EventsOf

LEMMA FrameShape ==
  ASSUME NEW s \in Slice, NEW t \in Times
  PROVE  /\ FrameEvents(s, t) \in Seq(Events)
         /\ Len(FrameEvents(s, t)) = EventsIn[s][t]
         /\ \A k \in 1..EventsIn[s][t] : FrameEvents(s, t)[k] = <<s, t, k>>
<1> DEFINE n == EventsIn[s][t]
           F == [k \in 1..n |-> <<s, t, k>>]
<1>1. n \in Nat
  BY EventsOf
<1>2. FrameEvents(s, t) = F
  BY DEF FrameEvents
<1>3. DOMAIN F = 1..n /\ \A k \in 1..n : F[k] = <<s, t, k>>
  OBVIOUS
<1>4. \A k \in 1..n : <<s, t, k>> \in Events
  <2>1. \A k \in 1..n : <<s, t, k>> \in ToSet(F)
    BY <1>3 DEF ToSet
  <2> QED BY <1>2, <2>1 DEF Events
<1> HIDE DEF n
<1>5. F \in Seq(Events) /\ Len(F) = n
  BY <1>1, <1>4
<1> QED BY <1>2, <1>3, <1>5 DEF n

LEMMA SetOfAppend ==
  ASSUME NEW S, NEW q \in Seq(S), NEW x \in S
  PROVE  /\ Append(q, x) \in Seq(S) /\ Len(Append(q, x)) = Len(q) + 1
         /\ ToSet(Append(q, x)) = ToSet(q) \cup {x}
<1> DEFINE p == Append(q, x)
<1>1. /\ p \in Seq(S) /\ Len(q) \in Nat /\ Len(p) = Len(q) + 1
      /\ DOMAIN q = 1..Len(q) /\ DOMAIN p = 1..(Len(q) + 1)
      /\ p[Len(q) + 1] = x /\ \A i \in 1..Len(q) : p[i] = q[i]
  OBVIOUS
<1> QED BY <1>1 DEF ToSet

LEMMA SetOfTail ==
  ASSUME NEW S, NEW q \in Seq(S), q # <<>>
  PROVE  /\ Head(q) \in S /\ Head(q) = q[1] /\ Len(q) \in Nat \ {0}
         /\ Tail(q) \in Seq(S) /\ Len(Tail(q)) = Len(q) - 1
         /\ \A i \in 1..(Len(q) - 1) : Tail(q)[i] = q[i + 1]
         /\ ToSet(q) = {Head(q)} \cup ToSet(Tail(q))
<1> DEFINE p == Tail(q)
<1>1. /\ p \in Seq(S) /\ Len(q) \in Nat \ {0} /\ Len(p) = Len(q) - 1
      /\ DOMAIN q = 1..Len(q) /\ DOMAIN p = 1..(Len(q) - 1)
      /\ Head(q) = q[1] /\ \A i \in 1..(Len(q) - 1) : p[i] = q[i + 1]
  OBVIOUS
<1>2. ASSUME NEW i \in 1..Len(q), i # 1 PROVE i - 1 \in DOMAIN p /\ q[i] = p[i - 1]
  <2>1. i - 1 \in 1..(Len(q) - 1) /\ (i - 1) + 1 = i
    BY <1>1, <1>2
  <2> QED BY <1>1, <2>1
<1>3. \A i \in 1..(Len(q) - 1) : i + 1 \in 1..Len(q)
  BY <1>1
<1>4. 1 \in 1..Len(q) /\ q[1] \in S
  BY <1>1
<1>5. ToSet(q) \subseteq {q[1]} \cup ToSet(p)
  <2>1. \A i \in 1..Len(q) : q[i] \in {q[1]} \cup ToSet(p)
    BY <1>2 DEF ToSet
  <2> QED BY <1>1, <2>1 DEF ToSet
<1>6. {q[1]} \cup ToSet(p) \subseteq ToSet(q)
  BY <1>1, <1>3, <1>4 DEF ToSet
<1> QED BY <1>1, <1>4, <1>5, <1>6

LEMMA SetOfParts ==
  ASSUME NEW S, NEW q \in Seq(S), NEW n \in 0..Len(q)
  PROVE  LET l == SubSeq(q, 1, n)
             r == SubSeq(q, n + 1, Len(q)) IN
         /\ l \in Seq(S) /\ Len(l) = n /\ \A i \in 1..n : l[i] = q[i]
         /\ r \in Seq(S) /\ Len(r) = Len(q) - n
         /\ \A i \in 1..(Len(q) - n) : r[i] = q[n + i]
         /\ ToSet(q) = ToSet(l) \cup ToSet(r)
<1> DEFINE l == SubSeq(q, 1, n)
           r == SubSeq(q, n + 1, Len(q))
<1>1. /\ Len(q) \in Nat /\ DOMAIN q = 1..Len(q) /\ n \in Nat /\ n <= Len(q)
      /\ \A i \in 1..Len(q) : q[i] \in S
  OBVIOUS
<1>2. l \in Seq(S) /\ Len(l) = n /\ \A i \in 1..n : l[i] = q[i]
  <2>1. \A i \in 1..n : q[i] \in S /\ 1 + i - 1 = i
    BY <1>1
  <2>2. n - 1 + 1 = n
    BY <1>1
  <2> QED BY <1>1, <2>1, <2>2, SubSeqProperties
<1>3. r \in Seq(S) /\ Len(r) = Len(q) - n /\ \A i \in 1..(Len(q) - n) : r[i] = q[n + i]
  <2>1. \A i \in (n + 1)..Len(q) : q[i] \in S
    BY <1>1
  <2>2. n + 1 \in Int /\ Len(q) \in Int /\ Len(q) - (n + 1) + 1 = Len(q) - n
    BY <1>1
  <2>3. \A i \in 1..(Len(q) - n) : n + 1 + i - 1 = n + i
    BY <1>1
  <2>4. /\ r \in Seq(S)
        /\ Len(r) = IF n + 1 <= Len(q) THEN Len(q) - (n + 1) + 1 ELSE 0
        /\ \A i \in 1..(Len(q) - (n + 1) + 1) : r[i] = q[n + 1 + i - 1]
    BY <2>1, <2>2, SubSeqProperties
  <2> HIDE DEF r
  <2>5. ASSUME NEW m \in Nat, n <= m
        PROVE  (IF n + 1 <= m THEN m - (n + 1) + 1 ELSE 0) = m - n
    <3>1. n \in Nat
      BY <1>1
    <3> QED BY <2>5, <3>1
  <2>6. Len(r) = Len(q) - n
    BY <1>1, <2>4, <2>5
  <2> QED BY <2>2, <2>3, <2>4, <2>6
<1> HIDE DEF l, r
<1>4. DOMAIN l = 1..n /\ DOMAIN r = 1..(Len(q) - n)
  BY <1>1, <1>2, <1>3
<1>5. ASSUME NEW i \in 1..Len(q) PROVE q[i] \in ToSet(l) \cup ToSet(r)
  <2>1. CASE i <= n
    <3>1. i \in 1..n
      BY <1>1, <2>1
    <3> QED BY <1>2, <1>4, <3>1 DEF ToSet
  <2>2. CASE i > n
    <3>1. i - n \in 1..(Len(q) - n) /\ n + (i - n) = i
      BY <1>1, <2>2
    <3> QED BY <1>3, <1>4, <3>1 DEF ToSet
  <2> QED BY <1>1, <2>1, <2>2
<1>6. ToSet(q) \subseteq ToSet(l) \cup ToSet(r)
  BY <1>1, <1>5 DEF ToSet
<1>7. ToSet(l) \cup ToSet(r) \subseteq ToSet(q)
  <2>1. \A i \in 1..n : i \in 1..Len(q)
    BY <1>1
  <2>2. \A i \in 1..(Len(q) - n) : n + i \in 1..Len(q)
    BY <1>1
  <2>3. ToSet(l) \subseteq ToSet(q)
    BY <1>1, <1>2, <1>4, <2>1 DEF ToSet
  <2>4. ToSet(r) \subseteq ToSet(q)
    BY <1>1, <1>3, <1>4, <2>2 DEF ToSet
  <2> QED BY <2>3, <2>4
<1> QED BY <1>2, <1>3, <1>6, <1>7 DEF l, r
(***************************************************************************)
(* Order along a queue.  `b' stands for the base of every slice.           *)
(***************************************************************************)

LEMMA OrderOfEmpty ==
  ASSUME NEW past, NEW b
  PROVE  InOrder(<<>>, past, b)
BY DEF InOrder

LEMMA OrderGrows ==
  ASSUME NEW q, NEW past, NEW more, NEW b, InOrder(q, past, b), past \subseteq more
  PROVE  InOrder(q, more, b)
BY DEF InOrder

LEMMA OrderOfAppend ==
  ASSUME NEW q \in Seq(Events), NEW x \in Events, NEW past, NEW b,
         InOrder(q, past, b), Due(x, b) \subseteq past \cup ToSet(q)
  PROVE  InOrder(Append(q, x), past, b)
<1> DEFINE p == Append(q, x)
<1>1. /\ Len(q) \in Nat /\ Len(p) = Len(q) + 1 /\ DOMAIN q = 1..Len(q)
      /\ p[Len(q) + 1] = x /\ \A i \in 1..Len(q) : p[i] = q[i]
  OBVIOUS
<1> HIDE DEF p
<1> SUFFICES ASSUME NEW i \in 1..Len(p), NEW e \in Due(p[i], b), e \notin past
             PROVE  \E j \in 1..(i - 1) : e = p[j]
  BY DEF InOrder, p
<1>2. CASE i \in 1..Len(q)
  <2>1. PICK j \in 1..(i - 1) : e = q[j]
    BY <1>1, <1>2 DEF InOrder
  <2>2. j \in 1..Len(q)
    BY <1>1, <1>2
  <2> QED BY <1>1, <2>1, <2>2
<1>3. CASE i = Len(q) + 1
  <2>1. PICK j \in 1..Len(q) : e = q[j]
    BY <1>1, <1>3 DEF ToSet
  <2>2. j \in 1..(i - 1)
    BY <1>1, <1>3
  <2> QED BY <1>1, <2>1, <2>2
<1> QED BY <1>1, <1>2, <1>3

LEMMA OrderOfTail ==
  ASSUME NEW q \in Seq(Events), q # <<>>, NEW past, NEW b, InOrder(q, past, b)
  PROVE  /\ Due(Head(q), b) \subseteq past
         /\ InOrder(Tail(q), past \cup {Head(q)}, b)
<1> DEFINE p == Tail(q)
<1>1. /\ Len(q) \in Nat \ {0} /\ Len(p) = Len(q) - 1 /\ Head(q) = q[1]
      /\ \A i \in 1..(Len(q) - 1) : p[i] = q[i + 1]
  BY SetOfTail
<1> HIDE DEF p
<1>2. Due(q[1], b) \subseteq past
  <2>1. 1 \in 1..Len(q) /\ 1..(1 - 1) = {}
    BY <1>1
  <2> QED BY <2>1 DEF InOrder
<1>3. InOrder(p, past \cup {q[1]}, b)
  <2> SUFFICES ASSUME NEW i \in 1..Len(p), NEW e \in Due(p[i], b), e \notin past, e # q[1]
               PROVE  \E j \in 1..(i - 1) : e = p[j]
    BY DEF InOrder
  <2>1. i + 1 \in 1..Len(q) /\ p[i] = q[i + 1] /\ (i + 1) - 1 = i /\ i \in Nat
    BY <1>1
  <2>2. PICK j \in 1..i : e = q[j]
    BY <2>1 DEF InOrder
  <2>3. j - 1 \in 1..(i - 1) /\ j - 1 \in 1..(Len(q) - 1) /\ (j - 1) + 1 = j
    BY <1>1, <2>1, <2>2
  <2>4. e = p[j - 1]
    BY <1>1, <2>2, <2>3
  <2> QED BY <2>3, <2>4
<1> QED BY <1>1, <1>2, <1>3 DEF p

(* A queue cut in two: its second part is in order behind the first.       *)
LEMMA OrderOfParts ==
  ASSUME NEW q \in Seq(Events), NEW n \in 0..Len(q), NEW past, NEW b, InOrder(q, past, b)
  PROVE  /\ InOrder(SubSeq(q, 1, n), past, b)
         /\ InOrder(SubSeq(q, n + 1, Len(q)), past \cup ToSet(SubSeq(q, 1, n)), b)
<1> DEFINE l == SubSeq(q, 1, n)
           r == SubSeq(q, n + 1, Len(q))
<1>1. /\ l \in Seq(Events) /\ Len(l) = n /\ \A i \in 1..n : l[i] = q[i]
      /\ r \in Seq(Events) /\ Len(r) = Len(q) - n
      /\ \A i \in 1..(Len(q) - n) : r[i] = q[n + i]
  BY SetOfParts
<1>2. Len(q) \in Nat /\ n \in Nat /\ n <= Len(q)
  OBVIOUS
<1> HIDE DEF l, r
<1>3. DOMAIN l = 1..n
  BY <1>1
<1>4. InOrder(l, past, b)
  <2> SUFFICES ASSUME NEW i \in 1..Len(l), NEW e \in Due(l[i], b), e \notin past
               PROVE  \E j \in 1..(i - 1) : e = l[j]
    BY DEF InOrder
  <2>1. i \in 1..Len(q) /\ i \in 1..n /\ l[i] = q[i]
    BY <1>1, <1>2
  <2>2. PICK j \in 1..(i - 1) : e = q[j]
    BY <2>1 DEF InOrder
  <2>3. j \in 1..n
    BY <1>2, <2>1, <2>2
  <2> QED BY <1>1, <2>2, <2>3
<1>5. InOrder(r, past \cup ToSet(l), b)
  <2> SUFFICES ASSUME NEW i \in 1..Len(r), NEW e \in Due(r[i], b),
                      e \notin past, e \notin ToSet(l)
               PROVE  \E j \in 1..(i - 1) : e = r[j]
    BY DEF InOrder
  <2>1. n + i \in 1..Len(q) /\ i \in 1..(Len(q) - n) /\ r[i] = q[n + i] /\ i \in Nat
    BY <1>1, <1>2
  <2>2. PICK j \in 1..(n + i - 1) : e = q[j]
    BY <2>1 DEF InOrder
  <2>3. j \notin 1..n
    BY <1>1, <1>3, <2>2 DEF ToSet
  <2>4. j - n \in 1..(i - 1) /\ j - n \in 1..(Len(q) - n) /\ n + (j - n) = j
    BY <1>2, <2>1, <2>2, <2>3
  <2>5. e = r[j - n]
    BY <1>1, <2>2, <2>4
  <2> QED BY <2>4, <2>5
<1> QED BY <1>4, <1>5 DEF l, r

(* A slice none of whose events is queued may change its base.             *)
LEMMA OrderOfOthers ==
  ASSUME NEW q, NEW past, NEW b, NEW c, NEW s \in Slice,
         InOrder(q, past, b),
         \A i \in 1..Len(q) : q[i] \in Events /\ q[i][1] # s,
         \A r \in Slice \ {s} : c[r] = b[r]
  PROVE  InOrder(q, past, c)
<1>1. ASSUME NEW i \in 1..Len(q) PROVE Due(q[i], c) = Due(q[i], b)
  <2>1. \A e \in Events : Earlier(e, q[i]) => e[1] \in Slice \ {s}
    BY EventShape DEF Earlier
  <2> QED BY <2>1 DEF Due
<1> QED BY <1>1 DEF InOrder
(***************************************************************************)
(* What each step does to the queues.                                      *)
(***************************************************************************)

LEMMA Steps ==
  ASSUME [Next]_vars
  PROVE  \/ Boot
         \/ \E s \in Slice : \/ Connect(s) \/ Disconnect(s) \/ ReadFrame(s)
                             \/ SendEvent(s) \/ ReaderCancelled(s)
         \/ ConsumerReceive \/ ConsumerApply \/ ConsumerFinish
         \/ BeginSave \/ WriteSave \/ Cancel \/ Joined \/ DrainTimeout
         \/ FinalSave \/ Crash \/ UNCHANGED vars
BY DEF Next

LEMMA SendMoves ==
  ASSUME TypeOK, Hands, NEW s \in Slice, SendEvent(s)
  PROVE  LET x == Head(hand[s]) IN
         /\ hand[s] # <<>> /\ x \in Events /\ x = hand[s][1] /\ Len(hand[s]) \in Nat \ {0}
         /\ channel' \in Seq(Events) /\ Len(channel') = Len(channel) + 1
         /\ ToSet(channel') = ToSet(channel) \cup {x}
         /\ hand' \in [Slice -> Seq(Events)] /\ hand'[s] = Tail(hand[s])
         /\ Len(hand'[s]) = Len(hand[s]) - 1
         /\ \A i \in 1..(Len(hand[s]) - 1) : hand'[s][i] = hand[s][i + 1]
         /\ ToSet(hand[s]) = {x} \cup ToSet(hand'[s])
         /\ \A r \in Slice \ {s} : hand'[r] = hand[r]
         /\ InFlight' = InFlight
<1> DEFINE x == Head(hand[s])
<1>1. hand[s] \in Seq(Events) /\ hand[s] # <<>> /\ channel \in Seq(Events)
  BY DEF TypeOK, Hands, SendEvent
<1>2. /\ x \in Events /\ x = hand[s][1] /\ Len(hand[s]) \in Nat \ {0}
      /\ Tail(hand[s]) \in Seq(Events) /\ Len(Tail(hand[s])) = Len(hand[s]) - 1
      /\ \A i \in 1..(Len(hand[s]) - 1) : Tail(hand[s])[i] = hand[s][i + 1]
      /\ ToSet(hand[s]) = {x} \cup ToSet(Tail(hand[s]))
  BY <1>1, SetOfTail
<1> HIDE DEF x
<1>3. /\ channel' = Append(channel, x) /\ batch' = batch
      /\ hand' = [hand EXCEPT ![s] = Tail(hand[s])]
  BY DEF SendEvent, x
<1>4. /\ channel' \in Seq(Events) /\ Len(channel') = Len(channel) + 1
      /\ ToSet(channel') = ToSet(channel) \cup {x}
  BY <1>1, <1>2, <1>3, SetOfAppend
<1>5. /\ hand' \in [Slice -> Seq(Events)] /\ hand'[s] = Tail(hand[s])
      /\ \A r \in Slice \ {s} : hand'[r] = hand[r]
  BY <1>2, <1>3 DEF TypeOK
<1>6. InFlight' = InFlight
  <2>1. ASSUME NEW f PROVE f \in InFlight' <=> f \in InFlight
    <3>1. f \in InFlight <=> \/ f \in ToSet(channel) \/ f \in ToSet(batch)
                             \/ f \in ToSet(hand[s])
                             \/ \E r \in Slice \ {s} : f \in ToSet(hand[r])
      BY DEF InFlight
    <3>2. f \in InFlight' <=> \/ f \in ToSet(channel') \/ f \in ToSet(batch')
                              \/ f \in ToSet(hand'[s])
                              \/ \E r \in Slice \ {s} : f \in ToSet(hand'[r])
      BY DEF InFlight
    <3> QED BY <1>2, <1>3, <1>4, <1>5, <3>1, <3>2
  <2> QED BY <2>1
<1> QED BY <1>1, <1>2, <1>4, <1>5, <1>6 DEF x

LEMMA ReceiveMoves ==
  ASSUME TypeOK, ConsumerReceive
  PROVE  \E n \in 0..Len(channel) :
         /\ batch' = SubSeq(channel, 1, n) /\ channel' = SubSeq(channel, n + 1, Len(channel))
         /\ batch' \in Seq(Events) /\ Len(batch') = n /\ n <= BatchMax
         /\ channel' \in Seq(Events) /\ Len(channel') = Len(channel) - n
         /\ ToSet(channel) = ToSet(batch') \cup ToSet(channel')
         /\ hand' = hand /\ batch = <<>> /\ InFlight' = InFlight
<1>1. channel \in Seq(Events) /\ Len(channel) \in Nat /\ BatchMax \in Nat
  BY PipelineAssumption DEF TypeOK
<1>2. PICK n \in 0..Len(channel) :
        /\ n <= BatchMax
        /\ batch' = SubSeq(channel, 1, n) /\ channel' = SubSeq(channel, n + 1, Len(channel))
  <2> DEFINE m == IF Len(channel) < BatchMax THEN Len(channel) ELSE BatchMax
  <2>1. m \in 0..Len(channel) /\ m <= BatchMax
    BY <1>1
  <2>2. batch' = SubSeq(channel, 1, m) /\ channel' = SubSeq(channel, m + 1, Len(channel))
    BY DEF ConsumerReceive
  <2> QED BY <2>1, <2>2
<1>3. /\ batch' \in Seq(Events) /\ Len(batch') = n
      /\ channel' \in Seq(Events) /\ Len(channel') = Len(channel) - n
      /\ ToSet(channel) = ToSet(batch') \cup ToSet(channel')
  BY <1>1, <1>2, SetOfParts
<1>4. hand' = hand /\ batch = <<>> /\ ToSet(batch) = {}
  BY DEF ConsumerReceive, readers, ToSet
<1>5. InFlight' = InFlight
  BY <1>3, <1>4 DEF InFlight
<1> QED BY <1>2, <1>3, <1>4, <1>5

LEMMA ApplyMoves ==
  ASSUME TypeOK, ConsumerApply
  PROVE  LET x == Head(batch) IN
         /\ batch # <<>> /\ x \in Events /\ graph' = graph \cup {x}
         /\ batch' = Tail(batch) /\ batch' \in Seq(Events) /\ Len(batch') = Len(batch) - 1
         /\ ToSet(batch) = {x} \cup ToSet(batch')
         /\ channel' = channel /\ hand' = hand
         /\ InFlight' \subseteq InFlight
         /\ graph' \cup InFlight' = graph \cup InFlight
<1> DEFINE x == Head(batch)
<1>1. /\ batch # <<>> /\ graph' = graph \cup {x} /\ batch' = Tail(batch)
      /\ channel' = channel /\ hand' = hand
  BY DEF ConsumerApply, readers
<1>2. /\ x \in Events /\ batch' \in Seq(Events) /\ Len(batch') = Len(batch) - 1
      /\ ToSet(batch) = {x} \cup ToSet(batch')
  BY <1>1, SetOfTail DEF TypeOK
<1> HIDE DEF x
<1>3. InFlight' = ToSet(channel) \cup ToSet(batch') \cup UNION {ToSet(hand[s]) : s \in Slice}
  BY <1>1 DEF InFlight
<1>4. InFlight = ToSet(channel) \cup {x} \cup ToSet(batch')
                   \cup UNION {ToSet(hand[s]) : s \in Slice}
  BY <1>2 DEF InFlight
<1> QED BY <1>1, <1>2, <1>3, <1>4 DEF x

LEMMA ReadMoves ==
  ASSUME TypeOK, Hands, NEW s \in Slice, ReadFrame(s)
  PROVE  /\ hand[s] = <<>> /\ pos[s] \in Times
         /\ hand'[s] = FrameEvents(s, pos[s]) /\ hand' \in [Slice -> Seq(Events)]
         /\ \A r \in Slice \ {s} : hand'[r] = hand[r]
         /\ channel' = channel /\ batch' = batch /\ graph' = graph
         /\ InFlight' = InFlight \cup ToSet(FrameEvents(s, pos[s]))
<1>1. /\ hand[s] = <<>> /\ pos[s] \in Times
      /\ hand' = [hand EXCEPT ![s] = FrameEvents(s, pos[s])]
      /\ channel' = channel /\ batch' = batch /\ graph' = graph
  BY DEF ReadFrame, Hands, queue
<1>2. /\ hand'[s] = FrameEvents(s, pos[s]) /\ hand' \in [Slice -> Seq(Events)]
      /\ \A r \in Slice \ {s} : hand'[r] = hand[r]
  BY <1>1, FrameShape DEF TypeOK
<1>3. ASSUME NEW f PROVE f \in InFlight' <=> f \in InFlight \/ f \in ToSet(hand'[s])
  <2>1. ToSet(hand[s]) = {}
    BY <1>1 DEF ToSet
  <2>2. f \in InFlight <=> \/ f \in ToSet(channel) \/ f \in ToSet(batch)
                           \/ f \in ToSet(hand[s])
                           \/ \E r \in Slice \ {s} : f \in ToSet(hand[r])
    BY DEF InFlight
  <2>3. f \in InFlight' <=> \/ f \in ToSet(channel') \/ f \in ToSet(batch')
                            \/ f \in ToSet(hand'[s])
                            \/ \E r \in Slice \ {s} : f \in ToSet(hand'[r])
    BY DEF InFlight
  <2> QED BY <1>1, <1>2, <2>1, <2>2, <2>3
<1> QED BY <1>1, <1>2, <1>3

LEMMA NoneInFlight ==
  ASSUME channel = <<>>, batch = <<>>, \A s \in Slice : hand[s] = <<>>
  PROVE  InFlight = {} /\ ToSet(channel) = {} /\ ToSet(batch) = {}
BY DEF InFlight, ToSet

LEMMA LeastExists ==
  ASSUME NEW S \in SUBSET Nat, S # {}
  PROVE  \E m \in S : \A n \in S : m <= n
<1>1. PICK m \in S : \A n \in S : ~(<<n, m>> \in OpToRel(<, Nat))
  BY NatLessThanWellFounded, WFMin
<1>2. ASSUME NEW n \in S PROVE m <= n
  <2>1. n \in Nat /\ m \in Nat
    OBVIOUS
  <2>2. ~(n < m)
    BY <1>1, <2>1 DEF OpToRel
  <2> QED BY <2>1, <2>2
<1> QED BY <1>2

LEMMA CursorMoves ==
  ASSUME TypeOK, NEW s \in Slice, NEW t \in Times, UpdateSliceCursor(s, t)
  PROVE  /\ slice_cursors' \in [Slice -> 0..MaxTime] /\ latest' \in 0..MaxTime
         /\ slice_cursors'[s] = Larger(slice_cursors[s], t)
         /\ \A r \in Slice \ {s} : slice_cursors'[r] = slice_cursors[r]
<1> DEFINE cursors == [slice_cursors EXCEPT ![s] = Larger(@, t)]
           values == {cursors[r] : r \in Slice}
           least(c) == \A r \in Slice : c <= cursors[r]
<1>1. t \in 0..MaxTime /\ MaxTime \in Nat
  BY PipelineAssumption DEF Times
<1>2. /\ cursors \in [Slice -> 0..MaxTime] /\ cursors[s] = Larger(slice_cursors[s], t)
      /\ \A r \in Slice \ {s} : cursors[r] = slice_cursors[r]
  BY <1>1 DEF TypeOK, Larger
<1>3. values \subseteq 0..MaxTime /\ values # {}
  BY <1>2
<1>4. \E c \in values : least(c)
  <2>1. PICK m \in values : \A n \in values : m <= n
    <3>1. values \in SUBSET Nat
      BY <1>1, <1>3
    <3> HIDE DEF values
    <3> QED BY <1>3, <3>1, LeastExists
  <2>2. \A r \in Slice : cursors[r] \in values
    OBVIOUS
  <2> HIDE DEF cursors, values
  <2> QED BY <2>1, <2>2
<1>5. (CHOOSE c \in values : least(c)) \in 0..MaxTime
  <2> HIDE DEF values, least
  <2> QED BY <1>3, <1>4
<1>6. slice_cursors' = cursors
  BY DEF UpdateSliceCursor
<1>7. latest' \in {latest, Larger(latest, CHOOSE c \in values : least(c))}
  BY DEF UpdateSliceCursor
<1>8. latest' \in 0..MaxTime
  <2> HIDE DEF values, least
  <2> QED BY <1>1, <1>5, <1>7 DEF TypeOK, Larger
<1> QED BY <1>2, <1>6, <1>8
(***************************************************************************)
(* The parts of the invariant.                                             *)
(***************************************************************************)

LEMMA TypedInvariant ==
  ASSUME TypeOK, Hands, Drained, [Next]_vars PROVE TypeOK'
<1>0. /\ MaxTime \in Nat \ {0} /\ ChannelCapacity \in Nat \ {0} /\ BatchMax \in Nat \ {0}
      /\ MaxBoots \in Nat
      /\ BackfillFloors \subseteq 0..MaxTime /\ LiveHeads \subseteq 1..(MaxTime + 1)
      /\ <<>> \in Seq(Events) /\ Len(<<>>) = 0
  BY PipelineAssumption
<1>1. CASE Boot
  <2>1. PICK floor \in BackfillFloors :
          /\ slice_cursors' = [s \in Slice |-> Larger(disk.cursor, floor)]
          /\ latest' = Larger(disk.cursor, floor)
          /\ base' = [s \in Slice |-> Larger(disk.cursor, floor)]
    BY <1>1 DEF Boot
  <2>2. disk.cursor \in 0..MaxTime /\ disk.graph \subseteq Events /\ floor \in 0..MaxTime
    BY <1>0 DEF TypeOK
  <2>3. Larger(disk.cursor, floor) \in 0..MaxTime
    BY <2>2 DEF Larger
  <2>4. 0..MaxTime \subseteq 0..(MaxTime + 1)
    BY <1>0
  <2> QED BY <1>0, <1>1, <2>1, <2>2, <2>3, <2>4 DEF Boot, TypeOK
<1>2. ASSUME NEW s \in Slice, Connect(s) PROVE TypeOK'
  <2>1. slice_cursors[s] \in 0..MaxTime
    BY DEF TypeOK
  <2>2. pos' \in [Slice -> 1..(MaxTime + 1)] /\ base' \in [Slice -> 0..(MaxTime + 1)]
    <3>1. CASE slice_cursors[s] > 0 /\ pos' = [pos EXCEPT ![s] = slice_cursors[s]] /\ base' = base
      <4>1. slice_cursors[s] \in 1..(MaxTime + 1)
        BY <1>0, <2>1, <3>1
      <4> QED BY <3>1, <4>1 DEF TypeOK
    <3>2. CASE \E head \in LiveHeads : /\ pos' = [pos EXCEPT ![s] = head]
                                      /\ base' = [base EXCEPT ![s] = head]
      <4>1. PICK head \in LiveHeads : /\ pos' = [pos EXCEPT ![s] = head]
                                      /\ base' = [base EXCEPT ![s] = head]
        BY <3>2
      <4>2. head \in 1..(MaxTime + 1) /\ head \in 0..(MaxTime + 1)
        BY <1>0
      <4> QED BY <4>1, <4>2 DEF TypeOK
    <3> QED BY <1>2, <3>1, <3>2 DEF Connect
  <2>3. reader' \in [Slice -> {"connect", "open", "send", "done"}]
    BY <1>2 DEF Connect, TypeOK
  <2> QED BY <1>2, <2>2, <2>3 DEF Connect, TypeOK, process, queue
<1>3. ASSUME NEW s \in Slice, Disconnect(s) PROVE TypeOK'
  BY <1>3 DEF Disconnect, TypeOK, process, queue
<1>4. ASSUME NEW s \in Slice, ReadFrame(s) PROVE TypeOK'
  <2>1. pos[s] \in Times /\ UpdateSliceCursor(s, pos[s])
    BY <1>4 DEF ReadFrame
  <2>2. slice_cursors' \in [Slice -> 0..MaxTime] /\ latest' \in 0..MaxTime
    BY <2>1, CursorMoves
  <2>3. hand' \in [Slice -> Seq(Events)]
    BY <1>4, ReadMoves
  <2>4. /\ pos' \in [Slice -> 1..(MaxTime + 1)]
        /\ reader' \in [Slice -> {"connect", "open", "send", "done"}]
    BY <1>0, <1>4, <2>1 DEF ReadFrame, TypeOK, Times
  <2> QED BY <1>4, <2>2, <2>3, <2>4 DEF ReadFrame, TypeOK, process, queue
<1>5. ASSUME NEW s \in Slice, SendEvent(s) PROVE TypeOK'
  <2>1. /\ channel' \in Seq(Events) /\ Len(channel') = Len(channel) + 1
        /\ hand' \in [Slice -> Seq(Events)]
    BY <1>5, SendMoves
  <2>2. Len(channel) \in Nat /\ Len(channel) < ChannelCapacity
    BY <1>5 DEF SendEvent, TypeOK
  <2>3. reader' \in [Slice -> {"connect", "open", "send", "done"}]
    BY <1>5 DEF SendEvent, TypeOK
  <2>4. Len(channel') <= ChannelCapacity
    BY <1>0, <2>1, <2>2
  <2> QED BY <1>5, <2>1, <2>3, <2>4 DEF SendEvent, TypeOK, process
<1>6. ASSUME NEW s \in Slice, ReaderCancelled(s) PROVE TypeOK'
  BY <1>6 DEF ReaderCancelled, TypeOK, process, queue
<1>7. CASE ConsumerReceive
  <2>1. PICK n \in 0..Len(channel) :
          /\ batch' \in Seq(Events) /\ Len(batch') = n /\ n <= BatchMax
          /\ channel' \in Seq(Events) /\ Len(channel') = Len(channel) - n
    BY <1>7, ReceiveMoves
  <2>2. Len(channel) \in Nat /\ Len(channel) <= ChannelCapacity
    BY DEF TypeOK
  <2>3. Len(channel') <= ChannelCapacity
    BY <1>0, <2>1, <2>2
  <2> QED BY <1>7, <2>1, <2>3 DEF ConsumerReceive, TypeOK, process, readers
<1>8. CASE ConsumerApply
  <2>1. /\ batch' \in Seq(Events) /\ Len(batch') = Len(batch) - 1
        /\ graph' \subseteq Events
    BY <1>8, ApplyMoves DEF TypeOK
  <2>2. Len(batch) \in Nat /\ Len(batch) <= BatchMax
    BY DEF TypeOK
  <2>3. Len(batch') <= BatchMax
    BY <1>0, <2>1, <2>2
  <2> QED BY <1>8, <2>1, <2>3 DEF ConsumerApply, TypeOK, process, readers
<1>9. CASE ConsumerFinish
  BY <1>9 DEF ConsumerFinish, TypeOK, process, readers
<1>10. CASE BeginSave
  BY <1>10 DEF BeginSave, TypeOK, process, readers, queue
<1>11. CASE WriteSave
  BY <1>11 DEF WriteSave, TypeOK, process, readers, queue
<1>12. CASE Cancel \/ Joined
  BY <1>12 DEF Cancel, Joined, TypeOK, readers, queue
<1>13. CASE DrainTimeout
  BY <1>0, <1>13 DEF DrainTimeout, TypeOK
<1>14. CASE FinalSave \/ Crash
  <2>1. disk' \in [cursor : 0..MaxTime, graph : SUBSET Events]
    BY <1>14 DEF FinalSave, Crash, TypeOK
  <2>2. PowerOff
    BY <1>14 DEF FinalSave, Crash
  <2> QED BY <1>0, <2>1, <2>2 DEF PowerOff, TypeOK
<1>15. CASE UNCHANGED vars
  BY <1>15 DEF TypeOK, vars, process, readers, queue
<1> QED BY <1>1, <1>2, <1>3, <1>4, <1>5, <1>6, <1>7, <1>8, <1>9, <1>10, <1>11, <1>12,
           <1>13, <1>14, <1>15, Steps

LEMMA HandsInvariant ==
  ASSUME TypeOK, Hands, Drained, [Next]_vars PROVE Hands'
<1>1. CASE Boot
  <2>1. consumer = "done"
    BY <1>1 DEF Boot, Drained, Alive
  <2>2. \A s \in Slice : hand'[s] = <<>> /\ reader'[s] = "connect"
    BY <1>1, <2>1 DEF Boot, Drained
  <2> QED BY <2>2 DEF Hands
<1>2. ASSUME NEW s \in Slice, Connect(s) \/ Disconnect(s) \/ ReaderCancelled(s) PROVE Hands'
  BY <1>2 DEF Connect, Disconnect, ReaderCancelled, TypeOK, Hands
<1>3. ASSUME NEW s \in Slice, ReadFrame(s) PROVE Hands'
  <2>1. /\ pos[s] \in Times /\ hand'[s] = FrameEvents(s, pos[s])
        /\ \A r \in Slice \ {s} : hand'[r] = hand[r]
    BY <1>3, ReadMoves
  <2>2. /\ reader'[s] = IF EventsIn[s][pos[s]] > 0 THEN "send" ELSE "open"
        /\ \A r \in Slice \ {s} : reader'[r] = reader[r]
    BY <1>3 DEF ReadFrame, TypeOK
  <2>3. /\ hand'[s] \in Seq(Events) /\ Len(hand'[s]) = EventsIn[s][pos[s]]
        /\ \A k \in 1..EventsIn[s][pos[s]] : hand'[s][k] = <<s, pos[s], k>>
    BY <2>1, FrameShape
  <2>4. EventsIn[s][pos[s]] \in Nat
    BY <2>1, EventsOf
  <2>5. hand'[s] # <<>> <=> EventsIn[s][pos[s]] > 0
    BY <2>3, <2>4
  <2>6. \A i \in 1..Len(hand'[s]) : hand'[s][i][1] = s
    BY <2>3
  <2> QED BY <2>1, <2>2, <2>5, <2>6 DEF Hands
<1>4. ASSUME NEW s \in Slice, SendEvent(s) PROVE Hands'
  <2>1. /\ Len(hand[s]) \in Nat \ {0} /\ Len(hand'[s]) = Len(hand[s]) - 1
        /\ hand' \in [Slice -> Seq(Events)]
        /\ \A i \in 1..(Len(hand[s]) - 1) : hand'[s][i] = hand[s][i + 1]
        /\ \A r \in Slice \ {s} : hand'[r] = hand[r]
    BY <1>4, SendMoves
  <2>2. /\ reader'[s] = IF Len(hand[s]) = 1 THEN "open" ELSE "send"
        /\ \A r \in Slice \ {s} : reader'[r] = reader[r]
    BY <1>4 DEF SendEvent, TypeOK
  <2>3. hand'[s] # <<>> <=> Len(hand[s]) # 1
    <3>1. hand'[s] \in Seq(Events)
      BY <2>1
    <3>2. hand'[s] # <<>> <=> Len(hand'[s]) # 0
      BY <3>1, EmptySeq
    <3> QED BY <2>1, <3>2
  <2>4. \A i \in 1..Len(hand'[s]) : hand'[s][i][1] = s
    <3>1. \A i \in 1..(Len(hand[s]) - 1) : i + 1 \in 1..Len(hand[s])
      BY <2>1
    <3> QED BY <2>1, <3>1 DEF Hands
  <2> QED BY <2>1, <2>2, <2>3, <2>4 DEF Hands
<1>5. CASE ConsumerReceive \/ ConsumerApply \/ ConsumerFinish \/ BeginSave \/ WriteSave
           \/ Cancel \/ Joined \/ UNCHANGED vars
  <2>1. hand' = hand /\ reader' = reader
    BY <1>5 DEF ConsumerReceive, ConsumerApply, ConsumerFinish, BeginSave, WriteSave,
                Cancel, Joined, vars, readers
  <2> QED BY <2>1 DEF Hands
<1>6. CASE DrainTimeout \/ FinalSave \/ Crash
  <2>1. \A s \in Slice : hand'[s] = <<>> /\ reader'[s] = "done"
    BY <1>6 DEF DrainTimeout, FinalSave, Crash, PowerOff
  <2> QED BY <2>1 DEF Hands
<1> QED BY <1>1, <1>2, <1>3, <1>4, <1>5, <1>6, Steps

LEMMA DrainedInvariant ==
  ASSUME TypeOK, Hands, Drained, [Next]_vars PROVE Drained' /\ (Fresh => Fresh')
<1>1. CASE Boot
  BY <1>1 DEF Boot, Drained, Fresh, Alive
<1>2. ASSUME NEW s \in Slice,
             Connect(s) \/ Disconnect(s) \/ ReaderCancelled(s) \/ ReadFrame(s) \/ SendEvent(s)
      PROVE  Drained' /\ (Fresh => Fresh')
  <2>1. Alive /\ phase' = phase /\ consumer' = consumer /\ reader[s] # "done"
    BY <1>2 DEF Connect, Disconnect, ReaderCancelled, ReadFrame, SendEvent, Alive,
                process, queue
  <2>2. consumer' # "done"
    BY <2>1 DEF Drained
  <2> QED BY <2>1, <2>2 DEF Drained, Fresh, Alive
<1>3. CASE ConsumerReceive \/ ConsumerApply
  <2>1. Alive /\ phase' = phase /\ consumer' = consumer /\ (channel # <<>> \/ batch # <<>>)
    BY <1>3 DEF ConsumerReceive, ConsumerApply, process
  <2> QED BY <2>1 DEF Drained, Fresh, Alive
<1>4. CASE ConsumerFinish
  <2>1. \A s \in Slice : hand[s] = <<>>
    BY <1>4 DEF ConsumerFinish, Hands
  <2> QED BY <1>4, <2>1 DEF ConsumerFinish, Drained, Fresh, Alive, readers, process
<1>5. CASE BeginSave \/ WriteSave \/ UNCHANGED vars
  BY <1>5 DEF BeginSave, WriteSave, Drained, Fresh, Alive, vars, process, readers, queue
<1>6. CASE Cancel \/ Joined
  BY <1>6 DEF Cancel, Joined, Drained, Fresh, Alive, readers, queue
<1>7. CASE DrainTimeout \/ FinalSave \/ Crash
  BY <1>7 DEF DrainTimeout, FinalSave, Crash, PowerOff, Drained, Fresh, Alive
<1> QED BY <1>1, <1>2, <1>3, <1>4, <1>5, <1>6, <1>7, Steps

LEMMA PassedInvariant ==
  ASSUME TypeOK, Hands, Drained, Passed, [Next]_vars PROVE Passed'
<1>1. CASE Boot \/ DrainTimeout \/ FinalSave \/ Crash
  <2>1. channel' = <<>> /\ batch' = <<>> /\ \A s \in Slice : hand'[s] = <<>>
    <3>1. CASE Boot
      BY <3>1 DEF Boot, Drained, Alive
    <3> QED BY <1>1, <3>1 DEF DrainTimeout, FinalSave, Crash, PowerOff
  <2>2. InFlight' = {}
    BY <2>1 DEF InFlight, ToSet
  <2> QED BY <2>2 DEF Passed
<1>2. ASSUME NEW s \in Slice, Connect(s) \/ Disconnect(s) \/ ReaderCancelled(s) PROVE Passed'
  <2>1. InFlight' = InFlight /\ slice_cursors' = slice_cursors
    BY <1>2 DEF Connect, Disconnect, ReaderCancelled, InFlight, queue
  <2> QED BY <2>1 DEF Passed
<1>3. ASSUME NEW s \in Slice, ReadFrame(s) PROVE Passed'
  <2> DEFINE t == pos[s]
  <2>1. t \in Times /\ UpdateSliceCursor(s, t)
    BY <1>3 DEF ReadFrame
  <2>2. /\ slice_cursors'[s] = Larger(slice_cursors[s], t)
        /\ \A r \in Slice \ {s} : slice_cursors'[r] = slice_cursors[r]
    BY <2>1, CursorMoves
  <2>3. InFlight' = InFlight \cup ToSet(FrameEvents(s, t))
    BY <1>3, ReadMoves
  <2>4. \A r \in Slice : slice_cursors[r] \in Nat /\ t \in Nat
    BY <2>1, PipelineAssumption DEF TypeOK, Times
  <2>5. \A f \in ToSet(FrameEvents(s, t)) : f[1] = s /\ f[2] = t
    BY <2>1, FrameShape, EventsOf DEF ToSet
  <2>6. \A f \in InFlight : f[1] \in Slice /\ f[2] \in Nat
    <3>1. InFlight \subseteq Events
      BY DEF InFlight, ToSet, TypeOK
    <3> QED BY <3>1, EventShape DEF Times
  <2> HIDE DEF t
  <2>7. ASSUME NEW f \in InFlight PROVE f[2] <= slice_cursors'[f[1]]
    BY <2>2, <2>4, <2>6 DEF Passed, Larger
  <2>8. ASSUME NEW f \in ToSet(FrameEvents(s, t)) PROVE f[2] <= slice_cursors'[f[1]]
    BY <2>2, <2>4, <2>5 DEF Larger
  <2> QED BY <2>3, <2>7, <2>8 DEF Passed
<1>4. ASSUME NEW s \in Slice, SendEvent(s) PROVE Passed'
  <2>1. InFlight' = InFlight
    BY <1>4, SendMoves
  <2> QED BY <1>4, <2>1 DEF SendEvent, Passed
<1>5. CASE ConsumerReceive \/ ConsumerApply
  <2>1. InFlight' \subseteq InFlight
    BY <1>5, ReceiveMoves, ApplyMoves
  <2>2. slice_cursors' = slice_cursors
    BY <1>5 DEF ConsumerReceive, ConsumerApply, readers
  <2> QED BY <2>1, <2>2 DEF Passed
<1>6. CASE ConsumerFinish \/ BeginSave \/ WriteSave \/ Cancel \/ Joined \/ UNCHANGED vars
  <2>1. InFlight' = InFlight /\ slice_cursors' = slice_cursors
    BY <1>6 DEF ConsumerFinish, BeginSave, WriteSave, Cancel, Joined, InFlight, vars,
                queue, readers
  <2> QED BY <2>1 DEF Passed
<1> QED BY <1>1, <1>2, <1>3, <1>4, <1>5, <1>6, Steps
(* What a step may change of what a slice has received.                    *)
LEMMA SkippedInvariant ==
  ASSUME TypeOK, Hands, Drained, Fresh, NotSkipped, [Next]_vars PROVE NotSkipped'
<1>1. CASE Boot
  <2>1. PICK floor \in BackfillFloors :
          /\ slice_cursors' = [s \in Slice |-> Larger(disk.cursor, floor)]
          /\ base' = [s \in Slice |-> Larger(disk.cursor, floor)]
    BY <1>1 DEF Boot
  <2>2. Larger(disk.cursor, floor) \in Nat
    BY PipelineAssumption DEF Larger, TypeOK
  <2>3. pos' = pos /\ \A s \in Slice : pos[s] = 1
    BY <1>1 DEF Boot, Fresh
  <2>4. ASSUME NEW s \in Slice, NEW e \in Received(s)' PROVE FALSE
    <3>1. e \in Events /\ e[2] \in Nat \ {0}
      BY EventShape DEF Received, Times
    <3>2. /\ e[2] >= Larger(disk.cursor, floor)
          /\ e[2] < Larger(disk.cursor, floor) \/ e[2] < 1
      BY <2>1, <2>3 DEF Received
    <3> QED BY <2>2, <3>1, <3>2
  <2> QED BY <2>4 DEF NotSkipped
<1>2. ASSUME NEW s \in Slice, Connect(s) PROVE NotSkipped'
  <2>1. InFlight' = InFlight /\ graph' = graph /\ phase' = phase /\ slice_cursors' = slice_cursors
    BY <1>2 DEF Connect, InFlight, queue, process
  <2>2. ASSUME NEW r \in Slice, NEW e \in Received(r)' PROVE e \in Received(r)
    <3>1. /\ e \in Events /\ e[1] = r /\ e[2] >= base'[r]
          /\ e[2] < slice_cursors[r] \/ e[2] < pos'[r]
      BY <2>1 DEF Received
    <3>2. CASE r # s
      BY <1>2, <3>1, <3>2 DEF Connect, Received, TypeOK
    <3>3. CASE r = s /\ slice_cursors[s] > 0
      BY <1>2, <3>1, <3>3 DEF Connect, Received, TypeOK
    <3>4. CASE r = s /\ slice_cursors[s] = 0
      <4>1. PICK head \in LiveHeads : pos'[s] = head /\ base'[s] = head
        BY <1>2, <3>4 DEF Connect, TypeOK
      <4>2. e[2] \in Nat /\ head \in Nat
        BY <3>1, EventShape, PipelineAssumption DEF Times
      <4> QED BY <3>1, <3>4, <4>1, <4>2
    <3>5. slice_cursors[s] > 0 \/ slice_cursors[s] = 0
      BY <1>2 DEF Connect
    <3> QED BY <3>2, <3>3, <3>4, <3>5
  <2> QED BY <2>1, <2>2 DEF NotSkipped, Up
<1>3. ASSUME NEW s \in Slice, Disconnect(s) \/ ReaderCancelled(s) PROVE NotSkipped'
  <2>1. /\ InFlight' = InFlight /\ graph' = graph /\ phase' = phase
        /\ \A r \in Slice : Received(r)' = Received(r)
    BY <1>3 DEF Disconnect, ReaderCancelled, InFlight, Received, queue, process
  <2> QED BY <2>1 DEF NotSkipped, Up
<1>4. ASSUME NEW s \in Slice, ReadFrame(s) PROVE NotSkipped'
  <2> DEFINE t == pos[s]
  <2>1. /\ t \in Times /\ graph' = graph /\ phase' = phase
        /\ InFlight' = InFlight \cup ToSet(FrameEvents(s, t))
    BY <1>4, ReadMoves DEF ReadFrame, process
  <2>2. /\ slice_cursors'[s] = Larger(slice_cursors[s], t)
        /\ \A r \in Slice \ {s} : slice_cursors'[r] = slice_cursors[r]
    BY <1>4, <2>1, CursorMoves DEF ReadFrame
  <2>3. /\ pos'[s] = t + 1 /\ \A r \in Slice \ {s} : pos'[r] = pos[r]
        /\ base' = base
    BY <1>4 DEF ReadFrame, TypeOK
  <2>4. ASSUME NEW r \in Slice, NEW e \in Received(r)'
        PROVE  e \in Received(r) \/ e \in ToSet(FrameEvents(s, t))
    <3>1. /\ e \in Events /\ e[1] = r /\ e[2] >= base[r]
          /\ e[2] < slice_cursors'[r] \/ e[2] < pos'[r]
      BY <2>3 DEF Received
    <3>2. CASE r # s
      BY <2>2, <2>3, <3>1, <3>2 DEF Received
    <3>3. CASE r = s /\ e[2] # t
      <4>1. e[2] \in Nat /\ t \in Nat
        BY <2>1, <3>1, EventShape DEF Times
      <4>2. slice_cursors[s] \in Nat
        BY PipelineAssumption DEF TypeOK
      <4>3. e[2] < slice_cursors[s] \/ e[2] < t
        BY <2>2, <2>3, <3>1, <3>3, <4>1, <4>2 DEF Larger
      <4> QED BY <3>1, <3>3, <4>3 DEF Received
    <3>4. CASE r = s /\ e[2] = t
      <4>1. e = <<s, t, e[3]>> /\ e[3] \in 1..EventsIn[s][t]
        BY <3>1, <3>4, EventShape
      <4>2. /\ FrameEvents(s, t)[e[3]] = e
            /\ FrameEvents(s, t) \in Seq(Events) /\ Len(FrameEvents(s, t)) = EventsIn[s][t]
        BY <2>1, <4>1, FrameShape
      <4>3. DOMAIN FrameEvents(s, t) = 1..EventsIn[s][t]
        BY <4>2
      <4> QED BY <4>1, <4>2, <4>3 DEF ToSet
    <3> QED BY <3>2, <3>3, <3>4
  <2> QED BY <2>1, <2>4 DEF NotSkipped, Up
<1>5. ASSUME NEW s \in Slice, SendEvent(s) PROVE NotSkipped'
  <2>1. InFlight' = InFlight
    BY <1>5, SendMoves
  <2>2. graph' = graph /\ phase' = phase /\ \A r \in Slice : Received(r)' = Received(r)
    BY <1>5 DEF SendEvent, Received, process
  <2> QED BY <2>1, <2>2 DEF NotSkipped, Up
<1>6. CASE ConsumerReceive \/ ConsumerApply
  <2>1. graph' \cup InFlight' = graph \cup InFlight
    <3>1. CASE ConsumerReceive
      BY <3>1, ReceiveMoves DEF ConsumerReceive
    <3> QED BY <1>6, <3>1, ApplyMoves
  <2>2. phase' = phase /\ \A r \in Slice : Received(r)' = Received(r)
    BY <1>6 DEF ConsumerReceive, ConsumerApply, Received, readers, process
  <2> QED BY <2>1, <2>2 DEF NotSkipped, Up
<1>7. CASE ConsumerFinish \/ BeginSave \/ WriteSave \/ Cancel \/ Joined \/ UNCHANGED vars
  <2>1. /\ InFlight' = InFlight /\ graph' = graph
        /\ Up' => Up
        /\ \A r \in Slice : Received(r)' = Received(r)
    BY <1>7 DEF ConsumerFinish, BeginSave, WriteSave, Cancel, Joined, InFlight, Received, Up,
                vars, queue, readers, process
  <2> QED BY <2>1 DEF NotSkipped
<1>8. CASE DrainTimeout \/ FinalSave \/ Crash
  BY <1>8 DEF DrainTimeout, FinalSave, Crash, PowerOff, NotSkipped, Up
<1> QED BY <1>1, <1>2, <1>3, <1>4, <1>5, <1>6, <1>7, <1>8, Steps
(* The events queued for a slice are its own: for every other slice, and   *)
(* for one without a cursor, nothing is queued.                            *)
LEMMA NothingBeforeCursor ==
  ASSUME TypeOK, Passed, NEW s \in Slice, slice_cursors[s] = 0
  PROVE  \A f \in InFlight : f \in Events /\ f[1] # s
<1>1. InFlight \subseteq Events
  BY DEF InFlight, ToSet, TypeOK
<1>2. ASSUME NEW f \in InFlight, f[1] = s PROVE FALSE
  <2>1. f[2] \in Nat \ {0} /\ f[2] <= 0
    BY <1>1, <1>2, EventShape DEF Times, Passed
  <2> QED BY <2>1
<1> QED BY <1>1, <1>2

LEMMA OrderInvariant ==
  ASSUME TypeOK, Hands, Drained, Passed, NotSkipped, Order, [Next]_vars PROVE Order'
<1>1. CASE Boot \/ DrainTimeout \/ FinalSave \/ Crash
  <2>1. channel' = <<>> /\ batch' = <<>> /\ \A s \in Slice : hand'[s] = <<>>
    <3>1. CASE Boot
      BY <3>1 DEF Boot, Drained, Alive
    <3> QED BY <1>1, <3>1 DEF DrainTimeout, FinalSave, Crash, PowerOff
  <2> QED BY <2>1, OrderOfEmpty DEF Order
<1>2. ASSUME NEW s \in Slice, Connect(s) PROVE Order'
  <2>1. /\ channel' = channel /\ batch' = batch /\ hand' = hand /\ graph' = graph
        /\ \A r \in Slice \ {s} : base'[r] = base[r]
    BY <1>2 DEF Connect, queue, TypeOK
  <2>2. CASE base' = base
    BY <2>1, <2>2 DEF Order
  <2>3. CASE slice_cursors[s] = 0
    <3>1. \A f \in InFlight : f \in Events /\ f[1] # s
      BY <2>3, NothingBeforeCursor
    <3>2. ASSUME NEW q \in Seq(Events), ToSet(q) \subseteq InFlight
          PROVE  \A i \in 1..Len(q) : q[i] \in Events /\ q[i][1] # s
      <4>1. \A i \in 1..Len(q) : q[i] \in ToSet(q)
        BY DEF ToSet
      <4> QED BY <3>1, <3>2, <4>1
    <3>3. /\ batch \in Seq(Events) /\ ToSet(batch) \subseteq InFlight
          /\ channel \in Seq(Events) /\ ToSet(channel) \subseteq InFlight
          /\ \A r \in Slice : hand[r] \in Seq(Events) /\ ToSet(hand[r]) \subseteq InFlight
      BY DEF TypeOK, InFlight
    <3>4. InOrder(batch, graph, base')
      BY <2>1, <3>2, <3>3, OrderOfOthers DEF Order
    <3>5. InOrder(channel, graph \cup ToSet(batch), base')
      BY <2>1, <3>2, <3>3, OrderOfOthers DEF Order
    <3>6. \A r \in Slice : InOrder(hand[r], graph \cup ToSet(batch) \cup ToSet(channel), base')
      BY <2>1, <3>2, <3>3, OrderOfOthers DEF Order
    <3> QED BY <2>1, <3>4, <3>5, <3>6 DEF Order
  <2> QED BY <1>2, <2>2, <2>3 DEF Connect
<1>3. ASSUME NEW s \in Slice, Disconnect(s) \/ ReaderCancelled(s) PROVE Order'
  BY <1>3 DEF Disconnect, ReaderCancelled, Order, queue
<1>4. ASSUME NEW s \in Slice, ReadFrame(s) PROVE Order'
  <2> DEFINE t == pos[s]
             past == graph \cup ToSet(batch) \cup ToSet(channel)
  <2>1. /\ t \in Times /\ hand[s] = <<>> /\ hand'[s] = FrameEvents(s, t)
        /\ \A r \in Slice \ {s} : hand'[r] = hand[r]
        /\ channel' = channel /\ batch' = batch /\ graph' = graph /\ base' = base /\ Up
    BY <1>4, ReadMoves DEF ReadFrame, Alive, Up
  (* What is due before the frame was received, and no reader holds it.    *)
  <2>2. ASSUME NEW e \in Events, e[1] = s, e[2] < t, e[2] >= base[s] PROVE e \in past
    <3>1. e \in graph \cup InFlight
      BY <2>1, <2>2 DEF NotSkipped, Received
    <3>2. ASSUME NEW r \in Slice, e \in ToSet(hand[r]) PROVE FALSE
      <4>1. PICK i \in 1..Len(hand[r]) : e = hand[r][i]
        BY <3>2 DEF ToSet, TypeOK
      <4>2. r = s
        BY <2>2, <4>1 DEF Hands
      <4> QED BY <2>1, <4>1, <4>2
    <3> QED BY <3>1, <3>2 DEF InFlight
  <2>3. InOrder(FrameEvents(s, t), past, base)
    <3> SUFFICES ASSUME NEW i \in 1..Len(FrameEvents(s, t)),
                        NEW e \in Due(FrameEvents(s, t)[i], base), e \notin past
                 PROVE  \E j \in 1..(i - 1) : e = FrameEvents(s, t)[j]
      BY DEF InOrder
    <3>1. i \in 1..EventsIn[s][t] /\ FrameEvents(s, t)[i] = <<s, t, i>> /\ EventsIn[s][t] \in Nat
      BY <2>1, FrameShape, EventsOf
    <3>2. /\ e \in Events /\ e[1] = s /\ e[2] >= base[s]
          /\ e[2] < t \/ (e[2] = t /\ e[3] < i)
      BY <3>1 DEF Due, Earlier
    <3>3. e[2] = t /\ e[3] < i
      BY <2>2, <3>2
    <3>4. e = <<s, t, e[3]>> /\ e[3] \in 1..EventsIn[s][t]
      BY <3>2, <3>3, EventShape
    <3>5. e[3] \in 1..(i - 1)
      BY <3>1, <3>3, <3>4
    <3>6. FrameEvents(s, t)[e[3]] = e
      BY <2>1, <3>4, FrameShape
    <3> QED BY <3>5, <3>6
  <2> HIDE DEF t
  <2> QED BY <2>1, <2>3 DEF Order
<1>5. ASSUME NEW s \in Slice, SendEvent(s) PROVE Order'
  <2> DEFINE x == Head(hand[s])
             past == graph \cup ToSet(batch)
  <2>1. /\ hand[s] # <<>> /\ hand[s] \in Seq(Events) /\ x \in Events
        /\ hand'[s] = Tail(hand[s]) /\ \A r \in Slice \ {s} : hand'[r] = hand[r]
        /\ ToSet(channel') = ToSet(channel) \cup {x}
    BY <1>5, SendMoves DEF TypeOK
  <2>2. /\ channel' = Append(channel, x) /\ batch' = batch /\ graph' = graph /\ base' = base
        /\ channel \in Seq(Events)
    BY <1>5 DEF SendEvent, TypeOK
  <2> HIDE DEF x
  <2>3. /\ Due(x, base) \subseteq past \cup ToSet(channel)
        /\ InOrder(hand'[s], past \cup ToSet(channel) \cup {x}, base)
    BY <2>1, OrderOfTail DEF Order, x
  <2>4. InOrder(channel', past, base)
    BY <2>1, <2>2, <2>3, OrderOfAppend DEF Order
  <2>5. ASSUME NEW r \in Slice PROVE InOrder(hand'[r], past \cup ToSet(channel'), base)
    <3>1. CASE r = s
      BY <2>1, <2>3, <3>1, OrderGrows
    <3>2. CASE r # s
      <4>1. InOrder(hand[r], past \cup ToSet(channel), base)
        BY DEF Order
      <4> QED BY <2>1, <3>2, <4>1, OrderGrows
    <3> QED BY <3>1, <3>2
  <2> QED BY <2>2, <2>4, <2>5 DEF Order
<1>6. CASE ConsumerReceive
  <2>1. PICK n \in 0..Len(channel) :
          /\ batch' = SubSeq(channel, 1, n) /\ channel' = SubSeq(channel, n + 1, Len(channel))
          /\ ToSet(channel) = ToSet(batch') \cup ToSet(channel')
          /\ hand' = hand /\ batch = <<>>
    BY <1>6, ReceiveMoves
  <2>2. graph' = graph /\ base' = base /\ ToSet(batch) = {} /\ channel \in Seq(Events)
    BY <1>6, <2>1 DEF ConsumerReceive, readers, ToSet, TypeOK
  <2>3. InOrder(channel, graph, base)
    BY <2>2 DEF Order
  <2>4. InOrder(batch', graph, base) /\ InOrder(channel', graph \cup ToSet(batch'), base)
    BY <2>1, <2>2, <2>3, OrderOfParts
  <2>5. graph \cup ToSet(batch') \cup ToSet(channel') = graph \cup ToSet(batch) \cup ToSet(channel)
    BY <2>1, <2>2
  <2> QED BY <2>1, <2>2, <2>4, <2>5 DEF Order
<1>7. CASE ConsumerApply
  <2>1. /\ batch # <<>> /\ batch \in Seq(Events) /\ graph' = graph \cup {Head(batch)}
        /\ batch' = Tail(batch) /\ ToSet(batch) = {Head(batch)} \cup ToSet(batch')
        /\ channel' = channel /\ hand' = hand
    BY <1>7, ApplyMoves DEF TypeOK
  <2>2. base' = base
    BY <1>7 DEF ConsumerApply, readers
  <2>3. InOrder(batch', graph', base)
    BY <2>1, OrderOfTail DEF Order
  <2>4. graph' \cup ToSet(batch') = graph \cup ToSet(batch)
    BY <2>1
  <2> QED BY <2>1, <2>2, <2>3, <2>4 DEF Order
<1>8. CASE ConsumerFinish \/ BeginSave \/ WriteSave \/ Cancel \/ Joined \/ UNCHANGED vars
  BY <1>8 DEF ConsumerFinish, BeginSave, WriteSave, Cancel, Joined, Order, vars, queue, readers
<1> QED BY <1>1, <1>2, <1>3, <1>4, <1>5, <1>6, <1>7, <1>8, Steps

(***************************************************************************)
(* The theorems.                                                           *)
(***************************************************************************)

LEMMA InitEstablishes == Init => Inv
<1> SUFFICES ASSUME Init PROVE Inv
  OBVIOUS
<1>1. TypeOK
  <2>1. disk \in [cursor : 0..MaxTime, graph : SUBSET Events]
    BY PipelineAssumption DEF Init
  <2>2. <<>> \in Seq(Events) /\ Len(<<>>) = 0
    OBVIOUS
  <2> QED BY <2>1, <2>2, PipelineAssumption DEF Init, TypeOK
<1>2. Hands /\ Drained /\ Fresh
  BY DEF Init, Hands, Drained, Fresh, Alive
<1>3. InFlight = {}
  BY NoneInFlight DEF Init
<1>4. Passed /\ NotSkipped
  BY <1>3 DEF Init, Passed, NotSkipped, Up
<1>5. Order
  BY OrderOfEmpty DEF Init, Order
<1> QED BY <1>1, <1>2, <1>4, <1>5 DEF Inv

LEMMA StepPreserves == Inv /\ [Next]_vars => Inv'
BY TypedInvariant, HandsInvariant, DrainedInvariant, PassedInvariant, SkippedInvariant,
   OrderInvariant DEF Inv

LEMMA InvHolds == Spec => []Inv
BY InitEstablishes, StepPreserves, PTL DEF Spec

(* The channel and a batch stay within their capacities, the cursor within *)
(* the times the server has sent.                                          *)
THEOREM PipelineIsTyped == Spec => []TypeOK
<1>1. Inv => TypeOK
  BY DEF Inv
<1> QED BY <1>1, InvHolds, PTL

(* While the pipeline is up, every event of every frame the cursor has     *)
(* passed is applied, queued or in a task's hands, across reconnections,   *)
(* full channels and the cancellation.                                     *)
THEOREM PipelineSkipsNothing == Spec => []NothingSkipped
<1>1. Inv => NothingSkipped
  BY DEF Inv, NotSkipped, NothingSkipped, Up, Alive
<1> QED BY <1>1, InvHolds, PTL

(* When every task has been joined within the timeout, all that was        *)
(* received is in the graph the final snapshot writes.                     *)
THEOREM GracefulDrainIsLossless == Spec => []GracefulDrainLosesNothing
<1>1. ASSUME Inv, phase = "joined" PROVE InFlight = {}
  BY <1>1, NoneInFlight DEF Inv, Drained, Alive
<1>2. Inv => GracefulDrainLosesNothing
  BY <1>1 DEF Inv, NotSkipped, GracefulDrainLosesNothing, Up
<1> QED BY <1>2, InvHolds, PTL

(* An event that enters the graph finds there every earlier event of its   *)
(* slice's stream since the boot.                                          *)
THEOREM SliceOrderIsKept == Spec => AppliesInStreamOrder
<1> DEFINE A == \A f \in graph' \ graph :
                  phase' = phase =>
                    \A e \in Events : Earlier(e, f) /\ e[2] >= base[e[1]] => e \in graph
<1>1. ASSUME Inv, [Next]_vars, NEW f \in graph' \ graph, phase' = phase,
             NEW e \in Events, Earlier(e, f), e[2] >= base[e[1]]
      PROVE  e \in graph
  <2>1. CASE ConsumerApply
    <3>1. batch # <<>> /\ batch \in Seq(Events) /\ f = Head(batch)
      BY <1>1, <2>1, ApplyMoves DEF Inv, TypeOK
    <3>2. Due(Head(batch), base) \subseteq graph
      BY <1>1, <3>1, OrderOfTail DEF Inv, Order
    <3> QED BY <1>1, <3>1, <3>2 DEF Due
  <2>2. CASE Boot
    BY <1>1, <2>2 DEF Boot
  <2>3. CASE ~ConsumerApply /\ ~Boot
    <3>1. graph' \subseteq graph
      BY <1>1, <2>3 DEF Next, Connect, Disconnect, ReadFrame, SendEvent, ReaderCancelled,
         ConsumerReceive, ConsumerFinish, BeginSave, WriteSave, Cancel, Joined, DrainTimeout,
         FinalSave, Crash, PowerOff, vars, queue
    <3> QED BY <1>1, <3>1
  <2> QED BY <2>1, <2>2, <2>3
<1>2. Inv /\ [Next]_vars => [A]_vars
  BY <1>1
<1>3. Spec => [][A]_vars
  <2> HIDE DEF A
  <2> QED BY <1>2, InvHolds, PTL DEF Spec
<1> QED BY <1>3 DEF AppliesInStreamOrder

(* A reader drops its sender, or finds a place in the channel              *)
(* (ReaderCancelled, SendEvent).                                           *)
ReaderCanMove ==
  \E s \in Slice : \/ reader[s] \in {"connect", "open"}
                   \/ reader[s] = "send" /\ Len(channel) < ChannelCapacity

(* The consumer has events to take or to apply, or none are left to come   *)
(* (ConsumerReceive, ConsumerApply, ConsumerFinish).                       *)
ConsumerCanMove ==
  \/ batch # <<>>
  \/ consumer = "live" /\ (channel # <<>> \/ \A s \in Slice : reader[s] = "done")

(* The checkpoint ends, or all is joined (WriteSave, Joined).              *)
MainCanMove == saving # NoSave \/ consumer = "done"

DrainCanMove == phase = "cancelled" => ReaderCanMove \/ ConsumerCanMove \/ MainCanMove

(* The drain never waits for itself: with the channel full and every       *)
(* reader holding events the consumer has something to take, and it is     *)
(* done only after the last sender, so no timeout is needed to go on.      *)
THEOREM DrainNeedsNoTimer == Spec => []DrainCanMove
<1>1. Inv => DrainCanMove
  <2> SUFFICES ASSUME Inv, ~ReaderCanMove, ~ConsumerCanMove PROVE MainCanMove
    BY DEF DrainCanMove
  <2>1. CASE \A s \in Slice : reader[s] = "done"
    BY <2>1 DEF Inv, TypeOK, ConsumerCanMove, MainCanMove
  <2>2. CASE \E s \in Slice : reader[s] # "done"
    <3>1. PICK s \in Slice : reader[s] # "done"
      BY <2>2
    <3>2. reader[s] = "send" /\ ~(Len(channel) < ChannelCapacity)
      BY <3>1 DEF Inv, TypeOK, ReaderCanMove
    <3>3. channel # <<>>
      BY <3>2, PipelineAssumption
    <3> QED BY <3>3 DEF Inv, TypeOK, ConsumerCanMove, MainCanMove
  <2> QED BY <2>1, <2>2
<1> QED BY <1>1, InvHolds, PTL

=============================================================================
