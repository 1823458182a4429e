--------------------------- MODULE FeedPagingProofs ---------------------------
(***************************************************************************)
(* For any posts, viewers, devices and bounds: what a feed request and the *)
(* operations around it keep of histories, sessions and scrolls.  Nothing  *)
(* is assumed of the graph beyond the types of its constants.              *)
(***************************************************************************)
EXTENDS FeedPaging, Integers, FiniteSetTheorems, SequenceTheorems, WellFoundedInduction, TLAPS

(***************************************************************************)
(* The inductive invariant, part by part.                                  *)
(***************************************************************************)

Impressions == [post : Posts, at : Nat]

(* A history's queue names every post it has a timestamp of, at that time. *)
Remembers(h) ==
  \A p \in DOMAIN h.ts :
    \E i \in DOMAIN h.queue : h.queue[i] = [post |-> p, at |-> h.ts[p]]

GoodHistory(h) ==
  /\ HistoryOK(h)
  /\ \A p \in DOMAIN h.ts : h.ts[p] \in Nat
  /\ h.queue \in Seq(Impressions)
  /\ Remembers(h)

Sessions == [posts : Seq(Posts), dials : Dials, created : Nat, has_page_impressions : BOOLEAN]

Requests == [phase : {"idle", "compose", "cache", "record"}, uid : BOOLEAN, at : Nat,
             cursor : Nat, dials : Dials, list : Seq(Posts), page : Seq(Posts), next : Nat,
             requests : Nat, first : Seq(Posts), firstAt : Nat, firstUid : BOOLEAN]

GraphTyped ==
  /\ now \in 0..MaxNow /\ events \in 0..MaxEvents
  /\ owner \in [Devices -> Viewers \union {Anonymous}]
  /\ known \subseteq Viewers /\ published \subseteq Posts
  /\ likes \in [Viewers -> SUBSET Posts] /\ blocked \in [Viewers -> SUBSET Accounts]
  /\ prefs \in [Viewers -> Dials]
  /\ hiddenAt \in [Viewers -> [Posts -> 0..(MaxNow + 1)]]
  /\ calm \in [Devices -> BOOLEAN]

HistoriesGood == DOMAIN history = Viewers /\ \A v \in Viewers : GoodHistory(history[v])

SessionsTyped == DOMAIN sessions \subseteq known /\ \A v \in DOMAIN sessions : sessions[v] \in Sessions

Typed == GraphTyped /\ HistoriesGood /\ SessionsTyped /\ dev \in [Devices -> Requests]

SessionsBounded == IsFiniteSet(DOMAIN sessions) /\ Cardinality(DOMAIN sessions) <= MaxSessions

(* What a request knows of itself: only a known viewer's is composed for a *)
(* viewer, only a first page is cached, and a page without posts is last.  *)
RequestOK(d) ==
  /\ dev[d].at <= now
  /\ dev[d].uid => Named(d)
  /\ dev[d].phase = "cache" =>
       /\ dev[d].uid /\ dev[d].cursor = 0 /\ dev[d].firstUid
       /\ dev[d].first = dev[d].list /\ dev[d].firstAt = dev[d].at
  /\ dev[d].phase \in {"cache", "record"} /\ dev[d].page = <<>> => dev[d].next = 0

(* The session of d's owner holds what d's first page was cut from, under  *)
(* the dials in force, and knows that this page was seen, unless it was    *)
(* not answered yet or was all there is.                                   *)
Held(d) ==
  LET v == owner[d]
  IN /\ v \in DOMAIN sessions
     /\ sessions[v].posts = dev[d].first /\ sessions[v].created = dev[d].firstAt
     /\ sessions[v].dials = prefs[v]
     /\ sessions[v].has_page_impressions \/ dev[d].cursor = 0

(* While nothing disturbed the scroll of a known viewer its session is     *)
(* held or too old, so that a request for a later page is served from it.  *)
ScrollHeld(d) ==
  calm[d] =>
    /\ owner[d] \in known
    /\ dev[d].firstUid /\ dev[d].phase # "cache" => dev[d].firstAt + TTL < now \/ Held(d)
    /\ dev[d].firstUid /\ dev[d].phase \in {"compose", "record"} /\ dev[d].cursor > 0
         /\ dev[d].at <= dev[d].firstAt + TTL
       => dev[d].phase = "record" /\ Continues(d)

(* A post that v may see has not been hidden from v.                       *)
Hidden(v, p) == p \notin published \/ p \in likes[v] \/ AuthorOf[p] \in blocked[v]

HiddenTracked == \A v \in Viewers : \A p \in Posts : Hidden(v, p) \/ hiddenAt[v][p] = MaxNow + 1

(* What a session or a page being served was made of was not hidden when   *)
(* it was ranked.                                                          *)
SessionVisible(v) ==
  /\ sessions[v].created <= now
  /\ \A i \in DOMAIN sessions[v].posts : sessions[v].created <= hiddenAt[v][sessions[v].posts[i]]

RequestVisible(d) ==
  dev[d].uid /\ dev[d].phase \in {"cache", "record"} =>
    /\ \A i \in DOMAIN dev[d].page : dev[d].at <= hiddenAt[owner[d]][dev[d].page[i]] + TTL
    /\ dev[d].phase = "cache" =>
         \A i \in DOMAIN dev[d].list : dev[d].at <= hiddenAt[owner[d]][dev[d].list[i]]

Inv ==
  /\ Typed
  /\ SessionsBounded
  /\ \A d \in Devices : RequestOK(d) /\ ScrollHeld(d) /\ RequestVisible(d)
  /\ HiddenTracked
  /\ \A v \in DOMAIN sessions : SessionVisible(v)

(***************************************************************************)
(* Part one.  What the operators of FeedRanking return.                    *)
(***************************************************************************)

(* A strict total order on S.                                              *)
Orders(R, S) ==
  /\ \A x \in S : <<x, x>> \notin R
  /\ \A x, y \in S : x # y => <<x, y>> \in R \/ <<y, x>> \in R
  /\ \A x, y, z \in S : <<x, y>> \in R /\ <<y, z>> \in R => <<x, z>> \in R

(* Who comes before x in S.                                                *)
Earlier(x, S, R) == {y \in S : <<y, x>> \in R}

LEMMA EarlierGrows ==
  ASSUME NEW S, IsFiniteSet(S), NEW R, Orders(R, S), NEW x \in S
  PROVE  /\ Cardinality(Earlier(x, S, R)) \in 0..(Cardinality(S) - 1)
         /\ \A y \in S : <<x, y>> \in R =>
              Cardinality(Earlier(x, S, R)) < Cardinality(Earlier(y, S, R))
<1>1. /\ IsFiniteSet(S \ {x}) /\ Cardinality(S \ {x}) = Cardinality(S) - 1
      /\ Cardinality(S) \in Nat
  BY FS_RemoveElement, FS_CardinalityType
<1>2. Earlier(x, S, R) \in SUBSET (S \ {x})
  BY DEF Earlier, Orders
<1>3. /\ Cardinality(Earlier(x, S, R)) \in Nat
      /\ Cardinality(Earlier(x, S, R)) <= Cardinality(S) - 1
  BY <1>1, <1>2, FS_Subset, FS_CardinalityType
<1>4. ASSUME NEW y \in S, <<x, y>> \in R
      PROVE  Cardinality(Earlier(x, S, R)) < Cardinality(Earlier(y, S, R))
  <2>1. Earlier(y, S, R) \in SUBSET S
    BY DEF Earlier
  <2>2. IsFiniteSet(Earlier(y, S, R)) /\ Cardinality(Earlier(y, S, R)) \in Nat
    BY <2>1, FS_Subset, FS_CardinalityType
  <2>3. Earlier(x, S, R) \in SUBSET Earlier(y, S, R)
    BY <1>4 DEF Earlier, Orders
  <2>4. x \in Earlier(y, S, R) /\ x \notin Earlier(x, S, R)
    BY <1>4 DEF Earlier, Orders
  <2>5. /\ Cardinality(Earlier(x, S, R)) <= Cardinality(Earlier(y, S, R))
        /\ Cardinality(Earlier(x, S, R)) # Cardinality(Earlier(y, S, R))
    BY <2>2, <2>3, <2>4, FS_Subset
  <2> QED BY <1>3, <2>2, <2>5
<1> QED BY <1>1, <1>3, <1>4

(* Sorted lists every member of S once, in the order of R.                 *)
LEMMA SortedLists ==
  ASSUME NEW S, IsFiniteSet(S), NEW R, Orders(R, S)
  PROVE  /\ Sorted(S, R) \in Seq(S) /\ Len(Sorted(S, R)) = Cardinality(S)
         /\ DOMAIN Sorted(S, R) = 1..Cardinality(S)
         /\ \A i \in 1..Cardinality(S) : Sorted(S, R)[i] \in S
         /\ \A x \in S : \E i \in 1..Cardinality(S) : Sorted(S, R)[i] = x
         /\ \A i, j \in 1..Cardinality(S) : i < j => <<Sorted(S, R)[i], Sorted(S, R)[j]>> \in R
<1> DEFINE n == Cardinality(S)
           Place(x) == Cardinality(Earlier(x, S, R))
           f == [x \in S |-> Place(x) + 1]
<1>1. n \in Nat
  BY FS_CardinalityType
<1>2. \A x \in S : Place(x) \in 0..(n - 1) /\ \A y \in S : <<x, y>> \in R => Place(x) < Place(y)
  BY EarlierGrows
<1>3. \A x, y \in S : Place(x) = Place(y) => x = y
  <2> SUFFICES ASSUME NEW x \in S, NEW y \in S, Place(x) = Place(y), x # y PROVE FALSE
    OBVIOUS
  <2>1. <<x, y>> \in R \/ <<y, x>> \in R
    BY DEF Orders
  <2>2. Place(x) < Place(y) \/ Place(y) < Place(x)
    BY <1>2, <2>1
  <2>3. Place(x) \in 0..(n - 1) /\ Place(y) \in 0..(n - 1)
    BY <1>2
  <2> HIDE DEF Place, n
  <2> QED BY <1>1, <2>2, <2>3
<1>4. f \in Injection(S, 1..n)
  <2>1. f \in [S -> 1..n]
    BY <1>1, <1>2
  <2>2. \A x, y \in S : f[x] = f[y] => x = y
    BY <1>1, <1>2, <1>3
  <2> QED BY <2>1, <2>2 DEF Injection, IsInjective
<1>5. IsFiniteSet(1..n) /\ Cardinality(1..n) = n
  BY <1>1, FS_Interval
<1>6. f \in Surjection(S, 1..n)
  BY <1>4, <1>5, FS_Injection
<1>7. \A i \in 1..n : \E x \in S : Place(x) = i - 1
  <2> TAKE i \in 1..n
  <2>1. PICK x \in S : f[x] = i
    BY <1>6 DEF Surjection
  <2> QED BY <1>1, <1>2, <2>1
<1>8. Sorted(S, R) = [i \in 1..n |-> CHOOSE x \in S : Place(x) = i - 1]
  BY DEF Sorted, Earlier
<1>9. \A i \in 1..n : Sorted(S, R)[i] \in S /\ Place(Sorted(S, R)[i]) = i - 1
  BY <1>7, <1>8
<1>10. DOMAIN Sorted(S, R) = 1..n
  BY <1>8
<1>11. Sorted(S, R) \in Seq(S)
  <2>1. Sorted(S, R) \in [1..n -> S]
    BY <1>8, <1>9
  <2> QED BY <1>1, <2>1, SeqDef
<1>12. Len(Sorted(S, R)) = n
  BY <1>1, <1>10, <1>11
<1>13. ASSUME NEW x \in S PROVE \E i \in 1..n : Sorted(S, R)[i] = x
  <2>1. Place(x) + 1 \in 1..n /\ (Place(x) + 1) - 1 = Place(x)
    BY <1>1, <1>2
  <2>2. Sorted(S, R)[Place(x) + 1] = x
    BY <1>3, <1>9, <2>1
  <2> QED BY <2>1, <2>2
<1>14. ASSUME NEW i \in 1..n, NEW j \in 1..n, i < j
       PROVE  <<Sorted(S, R)[i], Sorted(S, R)[j]>> \in R
  <2>1. i - 1 < j - 1
    BY <1>14, <1>1
  <2>2. /\ Sorted(S, R)[i] \in S /\ Sorted(S, R)[j] \in S
        /\ Place(Sorted(S, R)[i]) = i - 1 /\ Place(Sorted(S, R)[j]) = j - 1
    BY <1>9
  <2>3. <<Sorted(S, R)[j], Sorted(S, R)[i]>> \in R => j - 1 < i - 1
    BY <1>2, <2>2
  <2>4. Sorted(S, R)[i] # Sorted(S, R)[j]
    BY <2>1, <2>2, <1>1
  <2> QED BY <1>1, <2>1, <2>2, <2>3, <2>4 DEF Orders
<1> QED BY <1>9, <1>10, <1>11, <1>12, <1>13, <1>14

(* The first of a sorted set comes before all others.                      *)
LEMMA SortedFirst ==
  ASSUME NEW S, IsFiniteSet(S), S # {}, NEW R, Orders(R, S)
  PROVE  /\ Sorted(S, R)[1] \in S
         /\ \A x \in S : x # Sorted(S, R)[1] => <<Sorted(S, R)[1], x>> \in R
<1>1. Cardinality(S) \in Nat /\ Cardinality(S) # 0
  BY FS_CardinalityType, FS_EmptySet
<1>2. /\ \A i \in 1..Cardinality(S) : Sorted(S, R)[i] \in S
      /\ \A x \in S : \E i \in 1..Cardinality(S) : Sorted(S, R)[i] = x
      /\ \A i, j \in 1..Cardinality(S) : i < j => <<Sorted(S, R)[i], Sorted(S, R)[j]>> \in R
  BY SortedLists
<1>3. 1 \in 1..Cardinality(S)
  BY <1>1
<1>4. Sorted(S, R)[1] \in S
  BY <1>2, <1>3
<1>5. ASSUME NEW x \in S, x # Sorted(S, R)[1] PROVE <<Sorted(S, R)[1], x>> \in R
  <2>1. PICK i \in 1..Cardinality(S) : Sorted(S, R)[i] = x
    BY <1>2
  <2>2. 1 < i
    BY <1>1, <1>5, <2>1
  <2> QED BY <1>2, <1>3, <2>1, <2>2
<1> QED BY <1>4, <1>5

(* The extremes of a finite set of numbers are in it.                      *)
LEMMA MaxOf ==
  ASSUME NEW S \in SUBSET Nat, IsFiniteSet(S), S # {}
  PROVE  Max(S) \in S /\ \A x \in S : x <= Max(S)
<1> DEFINE R == {e \in S \X S : e[1] > e[2]}
<1>1. Orders(R, S)
  BY DEF Orders
<1>2. /\ Sorted(S, R)[1] \in S
      /\ \A x \in S : x # Sorted(S, R)[1] => <<Sorted(S, R)[1], x>> \in R
  BY <1>1, SortedFirst
<1>3. \A x \in S : Sorted(S, R)[1] >= x
  <2> DEFINE m == Sorted(S, R)[1]
  <2>1. m \in S /\ \A x \in S : x # m => m > x
    BY <1>2
  <2> HIDE DEF m
  <2>2. \A x \in S : m >= x
    BY <2>1
  <2> QED BY <2>2 DEF m
<1> QED BY <1>2, <1>3 DEF Max

LEMMA MinOf ==
  ASSUME NEW S \in SUBSET Nat, IsFiniteSet(S), S # {}
  PROVE  Min(S) \in S /\ \A x \in S : Min(S) <= x
<1> DEFINE R == {e \in S \X S : e[1] < e[2]}
<1>1. Orders(R, S)
  BY DEF Orders
<1>2. /\ Sorted(S, R)[1] \in S
      /\ \A x \in S : x # Sorted(S, R)[1] => <<Sorted(S, R)[1], x>> \in R
  BY <1>1, SortedFirst
<1>3. \A x \in S : Sorted(S, R)[1] <= x
  <2> DEFINE m == Sorted(S, R)[1]
  <2>1. m \in S /\ \A x \in S : x # m => m < x
    BY <1>2
  <2> HIDE DEF m
  <2>2. \A x \in S : m <= x
    BY <2>1
  <2> QED BY <2>2 DEF m
<1> QED BY <1>2, <1>3 DEF Min

LEMMA MinOfTwo ==
  ASSUME NEW a \in Nat, NEW b \in Nat
  PROVE  Min({a, b}) = IF a <= b THEN a ELSE b
<1>1. IsFiniteSet({a, b})
  <2>1. {a, b} = {a} \union {b}
    OBVIOUS
  <2>2. IsFiniteSet({a})
    BY FS_Singleton
  <2>3. IsFiniteSet({a} \union {b})
    BY <2>2, FS_AddElement
  <2> QED BY <2>1, <2>3
<1>2. Min({a, b}) \in {a, b} /\ Min({a, b}) <= a /\ Min({a, b}) <= b
  BY <1>1, MinOf
<1> QED BY <1>2

(* The positions of I, ascending: what Pick goes by.                       *)
Positions(I) == Sorted(I, {e \in I \X I : e[1] < e[2]})

LEMMA PickLists ==
  ASSUME NEW D, NEW s \in Seq(D), NEW I \in SUBSET DOMAIN s
  PROVE  /\ Cardinality(I) \in Nat /\ Cardinality(I) <= Len(s)
         /\ Pick(s, I) \in Seq(D) /\ Len(Pick(s, I)) = Cardinality(I)
         /\ DOMAIN Pick(s, I) = 1..Cardinality(I)
         /\ \A n \in 1..Cardinality(I) : Positions(I)[n] \in I /\ Pick(s, I)[n] = s[Positions(I)[n]]
         /\ \A m, n \in 1..Cardinality(I) : m < n => Positions(I)[m] < Positions(I)[n]
         /\ \A i \in I : \E n \in 1..Cardinality(I) : Pick(s, I)[n] = s[i]
<1> DEFINE R == {e \in I \X I : e[1] < e[2]}
<1>1. DOMAIN s = 1..Len(s) /\ Len(s) \in Nat /\ I \subseteq Nat
  OBVIOUS
<1>2. IsFiniteSet(1..Len(s)) /\ Cardinality(1..Len(s)) = Len(s)
  BY <1>1, FS_Interval
<1>3. IsFiniteSet(I) /\ Cardinality(I) \in Nat /\ Cardinality(I) <= Len(s)
  BY <1>1, <1>2, FS_Subset, FS_CardinalityType
<1>4. Orders(R, I)
  BY <1>1 DEF Orders
<1>5. /\ DOMAIN Positions(I) = 1..Cardinality(I)
      /\ \A n \in 1..Cardinality(I) : Positions(I)[n] \in I
      /\ \A i \in I : \E n \in 1..Cardinality(I) : Positions(I)[n] = i
      /\ \A m, n \in 1..Cardinality(I) : m < n => <<Positions(I)[m], Positions(I)[n]>> \in R
  <2>1. Positions(I) = Sorted(I, R)
    BY DEF Positions
  <2> HIDE DEF R
  <2> QED BY <1>3, <1>4, <2>1, SortedLists
<1>6. \A n \in 1..Cardinality(I) : Positions(I)[n] \in I
  BY <1>5
<1>7. Pick(s, I) = [n \in 1..Cardinality(I) |-> s[Positions(I)[n]]]
  <2>1. CASE s = <<>>
    <3>1. I = {} /\ Cardinality(I) = 0
      BY <1>1, <2>1, FS_EmptySet
    <3>2. Pick(s, I) = <<>>
      BY <2>1 DEF Pick
    <3>3. [n \in 1..Cardinality(I) |-> s[Positions(I)[n]]] = [n \in {} |-> s[Positions(I)[n]]]
      BY <3>1
    <3>4. [n \in {} |-> s[Positions(I)[n]]] = <<>>
      OBVIOUS
    <3> QED BY <3>2, <3>3, <3>4
  <2>2. CASE s # <<>>
    BY <1>5, <2>2 DEF Pick, Positions
  <2> QED BY <2>1, <2>2
<1>8. \A n \in 1..Cardinality(I) : s[Positions(I)[n]] \in D
  BY <1>6, ElementOfSeq
<1>9. Pick(s, I) \in Seq(D)
  <2>1. Pick(s, I) \in [1..Cardinality(I) -> D]
    BY <1>7, <1>8
  <2> QED BY <1>3, <2>1, SeqDef
<1>10. DOMAIN Pick(s, I) = 1..Cardinality(I)
  BY <1>7
<1>11. Len(Pick(s, I)) = Cardinality(I)
  BY <1>3, <1>9, <1>10
<1>12. \A n \in 1..Cardinality(I) : Pick(s, I)[n] = s[Positions(I)[n]]
  BY <1>7
<1>13. \A m, n \in 1..Cardinality(I) : m < n => Positions(I)[m] < Positions(I)[n]
  BY <1>5
<1>14. \A i \in I : \E n \in 1..Cardinality(I) : Pick(s, I)[n] = s[i]
  BY <1>5, <1>12
<1> QED BY <1>3, <1>6, <1>9, <1>10, <1>11, <1>12, <1>13, <1>14

LEMMA ScoreOrders ==
  ASSUME NEW score, DOMAIN score \subseteq Nat, \A p \in DOMAIN score : score[p] \in Nat
  PROVE  Orders(Before(score), DOMAIN score)
<1> DEFINE D == DOMAIN score
<1>1. \A p, q \in D : <<p, q>> \in Before(score) <=>
                        score[p] > score[q] \/ (score[p] = score[q] /\ p < q)
  BY DEF Before
<1>2. \A p, q \in D : p \in Nat /\ q \in Nat /\ score[p] \in Nat /\ score[q] \in Nat
  OBVIOUS
<1>3. \A p \in D : <<p, p>> \notin Before(score)
  BY <1>1, <1>2
<1>4. \A p, q \in D : p # q => <<p, q>> \in Before(score) \/ <<q, p>> \in Before(score)
  BY <1>1, <1>2
<1>5. ASSUME NEW p \in D, NEW q \in D, NEW r \in D,
             <<p, q>> \in Before(score), <<q, r>> \in Before(score)
      PROVE  <<p, r>> \in Before(score)
  <2>1. score[p] > score[q] \/ (score[p] = score[q] /\ p < q)
    BY <1>1, <1>5
  <2>2. score[q] > score[r] \/ (score[q] = score[r] /\ q < r)
    BY <1>1, <1>5
  <2>3. score[p] > score[r] \/ (score[p] = score[r] /\ p < r)
    BY <1>2, <2>1, <2>2
  <2> QED BY <1>1, <2>3
<1> QED BY <1>3, <1>4, <1>5 DEF Orders

(* The first of a set by score is its best scored, the lowest of several.  *)
LEMMA BestOf ==
  ASSUME NEW T \in SUBSET Nat, IsFiniteSet(T), T # {}, NEW score \in [T -> Nat],
         NEW b, b = Sorted(T, Before(score))[1]
  PROVE  /\ b \in T
         /\ \A j \in T : score[j] <= score[b] /\ (score[j] = score[b] => b <= j)
<1>1. DOMAIN score = T
  OBVIOUS
<1>2. Orders(Before(score), T)
  BY <1>1, ScoreOrders
<1>3. b \in T /\ \A j \in T : j # b => <<b, j>> \in Before(score)
  BY <1>2, SortedFirst
<1>4. ASSUME NEW j \in T PROVE score[j] <= score[b] /\ (score[j] = score[b] => b <= j)
  <2>1. CASE j = b
    BY <1>3, <2>1
  <2>2. CASE j # b
    <3>1. score[b] > score[j] \/ (score[b] = score[j] /\ b < j)
      BY <1>3, <2>2 DEF Before
    <3> QED BY <1>3, <3>1
  <2> QED BY <2>1, <2>2
<1> QED BY <1>3, <1>4

(* The order of t is the order of s.                                       *)
InOrderOf(t, s) ==
  \A m, n \in DOMAIN t : m < n =>
    \E i, j \in DOMAIN s : i < j /\ t[m] = s[i] /\ t[n] = s[j]

LEMMA InOrderTransitive ==
  ASSUME NEW s, NEW t, NEW u, InOrderOf(u, t), InOrderOf(t, s)
  PROVE  InOrderOf(u, s)
BY DEF InOrderOf

LEMMA PickInOrder ==
  ASSUME NEW D, NEW s \in Seq(D), NEW I \in SUBSET DOMAIN s
  PROVE  InOrderOf(Pick(s, I), s)
<1>1. /\ DOMAIN Pick(s, I) = 1..Cardinality(I)
      /\ \A n \in 1..Cardinality(I) : Positions(I)[n] \in I /\ Pick(s, I)[n] = s[Positions(I)[n]]
      /\ \A m, n \in 1..Cardinality(I) : m < n => Positions(I)[m] < Positions(I)[n]
  BY PickLists
<1> QED BY <1>1 DEF InOrderOf

LEMMA CapLists ==
  ASSUME NEW D, NEW s \in Seq(D)
  PROVE  CapAuthors(s) \in Seq(D) /\ InOrderOf(CapAuthors(s), s)
<1> DEFINE I == {i \in DOMAIN s :
                   Cardinality({j \in 1..(i - 1) : AuthorOf[s[j]] = AuthorOf[s[i]]}) < AuthorCap}
<1>1. I \in SUBSET DOMAIN s /\ CapAuthors(s) = Pick(s, I)
  BY DEF CapAuthors
<1> HIDE DEF I
<1> QED BY <1>1, PickLists, PickInOrder

(* The posts of the thread of s[i], by position, and the best of them.     *)
ThreadOf(s, i) == {j \in DOMAIN s : RootOf[s[j]] = RootOf[s[i]]}
BestIn(s, score, i) == Sorted(ThreadOf(s, i), Before([j \in ThreadOf(s, i) |-> score[s[j]]]))[1]
FirstsOf(s) == {i \in DOMAIN s : \A j \in ThreadOf(s, i) : i <= j}

LEMMA BestInThread ==
  ASSUME NEW D, NEW s \in Seq(D), NEW score \in [D -> Nat], NEW i \in DOMAIN s
  PROVE  /\ BestIn(s, score, i) \in ThreadOf(s, i)
         /\ \A j \in ThreadOf(s, i) :
              /\ score[s[j]] <= score[s[BestIn(s, score, i)]]
              /\ score[s[j]] = score[s[BestIn(s, score, i)]] => BestIn(s, score, i) <= j
<1> DEFINE T == ThreadOf(s, i)
           sc == [j \in T |-> score[s[j]]]
           b == BestIn(s, score, i)
<1>1. DOMAIN s = 1..Len(s) /\ Len(s) \in Nat /\ \A j \in DOMAIN s : s[j] \in D
  BY LenProperties, ElementOfSeq
<1>2. T \in SUBSET Nat /\ T \in SUBSET (1..Len(s)) /\ i \in T
  BY <1>1 DEF ThreadOf
<1>3. IsFiniteSet(T)
  <2>1. IsFiniteSet(1..Len(s))
    BY <1>1, FS_Interval
  <2> QED BY <1>2, <2>1, FS_Subset
<1>4. sc \in [T -> Nat]
  BY <1>1, <1>2
<1>5. b = Sorted(T, Before(sc))[1]
  BY DEF BestIn
<1>6. \A j \in T : sc[j] = score[s[j]]
  OBVIOUS
<1> HIDE DEF T, sc, b
<1>7. b \in T /\ \A j \in T : sc[j] <= sc[b] /\ (sc[j] = sc[b] => b <= j)
  BY <1>2, <1>3, <1>4, <1>5, BestOf
<1>8. \A j \in T : score[s[j]] <= score[s[b]] /\ (score[s[j]] = score[s[b]] => b <= j)
  BY <1>6, <1>7
<1> QED BY <1>7, <1>8 DEF T, b

Descends(s, score) == \A i, j \in DOMAIN s : i < j => score[s[j]] <= score[s[i]]

(* Thread dampening lists posts of s; where the scores descend the first   *)
(* of a thread is its best, and their order is that of s.                  *)
LEMMA DampenLists ==
  ASSUME NEW D, NEW s \in Seq(D), NEW score \in [D -> Nat]
  PROVE  /\ DampenThreads(s, score) \in Seq(D)
         /\ Descends(s, score) => InOrderOf(DampenThreads(s, score), s)
<1> DEFINE t == [i \in DOMAIN s |-> s[BestIn(s, score, i)]]
<1>1. DOMAIN s = 1..Len(s) /\ Len(s) \in Nat /\ \A j \in DOMAIN s : s[j] \in D
  BY LenProperties, ElementOfSeq
<1>2. \A i \in DOMAIN s : BestIn(s, score, i) \in DOMAIN s
  BY BestInThread DEF ThreadOf
<1>3. DOMAIN t = DOMAIN s /\ \A i \in DOMAIN s : t[i] = s[BestIn(s, score, i)]
  OBVIOUS
<1>4. t \in Seq(D)
  <2>1. t \in [1..Len(s) -> D]
    BY <1>1, <1>2
  <2> QED BY <1>1, <2>1, SeqDef
<1>5. DampenThreads(s, score) = Pick(t, FirstsOf(s))
  BY DEF DampenThreads, ThreadOf, BestIn, FirstsOf
<1>6. FirstsOf(s) \in SUBSET DOMAIN s
  BY DEF FirstsOf
<1> HIDE DEF t
<1>7. DampenThreads(s, score) \in Seq(D) /\ InOrderOf(DampenThreads(s, score), t)
  BY <1>3, <1>4, <1>5, <1>6, PickLists, PickInOrder
<1>8. ASSUME Descends(s, score), NEW i \in FirstsOf(s)
      PROVE  BestIn(s, score, i) = i
  <2> DEFINE b == BestIn(s, score, i)
  <2>1. i \in DOMAIN s /\ i \in ThreadOf(s, i) /\ \A j \in ThreadOf(s, i) : i <= j
    BY DEF FirstsOf, ThreadOf
  <2>2. /\ b \in ThreadOf(s, i) /\ b \in DOMAIN s
        /\ score[s[i]] <= score[s[b]] /\ (score[s[i]] = score[s[b]] => b <= i)
    BY <2>1, BestInThread, <1>2
  <2>3. i < b => score[s[b]] <= score[s[i]]
    BY <1>8, <2>1, <2>2 DEF Descends
  <2>4. i <= b /\ i \in Nat /\ b \in Nat /\ score[s[i]] \in Nat /\ score[s[b]] \in Nat
    BY <1>1, <2>1, <2>2
  <2> HIDE DEF b
  <2>5. b = i
    BY <2>2, <2>3, <2>4
  <2> QED BY <2>5 DEF b
<1>9. ASSUME Descends(s, score) PROVE InOrderOf(DampenThreads(s, score), s)
  <2>1. /\ DOMAIN Pick(t, FirstsOf(s)) = 1..Cardinality(FirstsOf(s))
        /\ \A n \in 1..Cardinality(FirstsOf(s)) :
             /\ Positions(FirstsOf(s))[n] \in FirstsOf(s)
             /\ Pick(t, FirstsOf(s))[n] = t[Positions(FirstsOf(s))[n]]
        /\ \A m, n \in 1..Cardinality(FirstsOf(s)) :
             m < n => Positions(FirstsOf(s))[m] < Positions(FirstsOf(s))[n]
    BY <1>3, <1>4, <1>6, PickLists
  <2>2. \A i \in FirstsOf(s) : t[i] = s[i] /\ i \in DOMAIN s
    BY <1>3, <1>6, <1>8, <1>9
  <2>3. InOrderOf(Pick(t, FirstsOf(s)), s)
    BY <2>1, <2>2 DEF InOrderOf
  <2> QED BY <1>5, <2>3
<1> QED BY <1>7, <1>9

LEMMA ComposedLists ==
  ASSUME NEW D, NEW order \in Seq(D), NEW score \in [D -> Nat]
  PROVE  /\ Composed(order, score) \in Seq(D)
         /\ Descends(order, score) => InOrderOf(Composed(order, score), order)
<1>1. /\ DampenThreads(order, score) \in Seq(D)
      /\ Descends(order, score) => InOrderOf(DampenThreads(order, score), order)
  BY DampenLists
<1>2. /\ Composed(order, score) \in Seq(D)
      /\ InOrderOf(Composed(order, score), DampenThreads(order, score))
  BY <1>1, CapLists DEF Composed
<1> QED BY <1>1, <1>2, InOrderTransitive

LEMMA PostsFinite ==
  IsFiniteSet(Posts) /\ Cardinality(Posts) \in Nat /\ Posts = 1..Cardinality(Posts) /\ Posts \subseteq Nat
BY FeedRankingAssumption, FS_CardinalityType

LEMMA PostSets ==
  ASSUME NEW S \in SUBSET Posts
  PROVE  IsFiniteSet(S) /\ Cardinality(S) \in Nat /\ Cardinality(S) <= Cardinality(Posts)
BY PostsFinite, FS_Subset, FS_CardinalityType

(* A ranking by score lists candidates, and their scores descend.          *)
LEMMA ByScoreLists ==
  ASSUME NEW D \in SUBSET Posts, NEW score \in [D -> Nat]
  PROVE  /\ ByScore(score) \in Seq(D)
         /\ \A m, n \in DOMAIN ByScore(score) :
              m < n => score[ByScore(score)[n]] <= score[ByScore(score)[m]]
<1> DEFINE order == Sorted(D, Before(score))
<1>1. IsFiniteSet(D) /\ D \subseteq Nat /\ DOMAIN score = D
  BY PostsFinite, PostSets
<1>2. Orders(Before(score), D)
  BY <1>1, ScoreOrders
<1>3. /\ order \in Seq(D) /\ DOMAIN order = 1..Cardinality(D)
      /\ \A i, j \in 1..Cardinality(D) : i < j => <<order[i], order[j]>> \in Before(score)
      /\ \A i \in 1..Cardinality(D) : order[i] \in D
  BY <1>1, <1>2, SortedLists
<1>4. ByScore(score) = Composed(order, score)
  BY <1>1 DEF ByScore
<1> HIDE DEF order
<1>5. \A p, q \in D : <<p, q>> \in Before(score) => score[q] <= score[p]
  BY DEF Before
<1>6. Descends(order, score)
  BY <1>3, <1>5 DEF Descends
<1>7. ByScore(score) \in Seq(D) /\ InOrderOf(ByScore(score), order)
  BY <1>3, <1>4, <1>6, ComposedLists
<1>8. ASSUME NEW m \in DOMAIN ByScore(score), NEW n \in DOMAIN ByScore(score), m < n
      PROVE  score[ByScore(score)[n]] <= score[ByScore(score)[m]]
  <2>1. PICK i \in DOMAIN order, j \in DOMAIN order :
          i < j /\ ByScore(score)[m] = order[i] /\ ByScore(score)[n] = order[j]
    BY <1>7, <1>8 DEF InOrderOf
  <2> QED BY <1>6, <2>1 DEF Descends
<1> QED BY <1>7, <1>8

(***************************************************************************)
(* Recursion along 0..n.                                                   *)
(***************************************************************************)

LEMMA UpTo ==
  ASSUME NEW n \in Nat, NEW S, 0 \in S, \A i \in 0..(n - 1) : i \in S => i + 1 \in S
  PROVE  \A i \in 0..n : i \in S
<1> SUFFICES ASSUME NEW j \in 0..n, j \notin S PROVE FALSE
  OBVIOUS
<1> DEFINE Out == (0..n) \ S
<1>1. Out \subseteq Nat /\ Out # {}
  OBVIOUS
<1>2. PICK m \in Out : \A i \in Out : ~(<<i, m>> \in OpToRel(<, Nat))
  BY <1>1, NatLessThanWellFounded, WFMin
<1>3. m \in 0..n /\ m # 0 /\ m \notin S
  OBVIOUS
<1>4. m - 1 \in 0..(n - 1) /\ m - 1 \in 0..n /\ (m - 1) + 1 = m /\ m - 1 < m /\ m - 1 \in Nat /\ m \in Nat
  BY <1>3
<1>5. m - 1 \notin S
  BY <1>3, <1>4
<1>6. m - 1 \in Out
  BY <1>4, <1>5
<1>7. <<m - 1, m>> \in OpToRel(<, Nat)
  BY <1>4 DEF OpToRel
<1> QED BY <1>2, <1>6, <1>7

LEMMA PowerValue ==
  ASSUME NEW m \in Nat, NEW k
  PROVE  Power(m, k) \in Nat /\ (m > 0 => Power(m, k) > 0)
<1> DEFINE Factor(i) == IF i <= k THEN m ELSE Twentieths
           IsPower(f, n) == f = [i \in 0..n |-> IF i = 0 THEN 1 ELSE f[i - 1] * Factor(i)]
           S == {n \in 0..MaxCount : \E f : IsPower(f, n)}
<1>1. MaxCount \in Nat
  BY FeedRankingAssumption
<1>2. 0 \in S
  <2> DEFINE g == [i \in 0..0 |-> 1]
  <2>1. IsPower(g, 0)
    OBVIOUS
  <2>2. 0 \in 0..MaxCount
    BY <1>1
  <2> HIDE DEF IsPower, g
  <2> QED BY <2>1, <2>2
<1>3. ASSUME NEW n \in 0..(MaxCount - 1), n \in S PROVE n + 1 \in S
  <2>1. PICK f : IsPower(f, n)
    BY <1>3
  <2> DEFINE g == [i \in 0..(n + 1) |-> IF i = n + 1 THEN f[n] * Factor(n + 1) ELSE f[i]]
  <2>2. n \in Nat /\ n + 1 \in 0..MaxCount /\ n \in 0..n
    BY <1>1
  <2>3. \A i \in 0..n : f[i] = IF i = 0 THEN 1 ELSE f[i - 1] * Factor(i)
    BY <2>1
  <2> HIDE DEF Factor
  <2>4. \A i \in 0..(n + 1) : g[i] = IF i = 0 THEN 1 ELSE g[i - 1] * Factor(i)
    <3> TAKE i \in 0..(n + 1)
    <3>1. CASE i = n + 1
      <4>1. i # 0 /\ i - 1 = n /\ n \in 0..(n + 1) /\ n # n + 1
        BY <2>2, <3>1
      <4>2. g[n] = f[n] /\ g[i] = f[n] * Factor(i)
        BY <3>1, <4>1
      <4> QED BY <4>1, <4>2
    <3>2. CASE i # n + 1
      <4>1. i \in 0..n /\ g[i] = f[i]
        BY <2>2, <3>2
      <4>2. i # 0 => i - 1 \in 0..(n + 1) /\ i - 1 # n + 1 /\ g[i - 1] = f[i - 1]
        BY <2>2, <4>1
      <4> QED BY <2>3, <4>1, <4>2
    <3> QED BY <3>1, <3>2
  <2>5. IsPower(g, n + 1)
    BY <2>4
  <2> HIDE DEF IsPower, g
  <2> QED BY <2>2, <2>5
<1>4. MaxCount \in S
  <2> HIDE DEF S
  <2>1. \A i \in 0..MaxCount : i \in S
    BY <1>1, <1>2, <1>3, UpTo
  <2> QED BY <1>1, <2>1
<1>5. PICK power : IsPower(power, MaxCount)
  BY <1>4
<1> DEFINE p == CHOOSE f : IsPower(f, MaxCount)
<1>6. IsPower(p, MaxCount)
  <2> HIDE DEF IsPower
  <2> QED BY <1>5
<1>7. Power(m, k) = p[MaxCount]
  BY DEF Power
<1> HIDE DEF p
<1>8. \A i \in 0..MaxCount : p[i] = IF i = 0 THEN 1 ELSE p[i - 1] * Factor(i)
  BY <1>6
<1>9. \A i : Factor(i) \in Nat /\ (m > 0 => Factor(i) > 0)
  BY DEF Twentieths
<1> HIDE DEF Factor
<1> DEFINE U == {i \in 0..MaxCount : p[i] \in Nat /\ (m > 0 => p[i] > 0)}
<1>10. 0 \in U
  BY <1>1, <1>8
<1>11. ASSUME NEW i \in 0..(MaxCount - 1), i \in U PROVE i + 1 \in U
  <2>1. i + 1 \in 0..MaxCount /\ i + 1 # 0 /\ (i + 1) - 1 = i
    BY <1>1
  <2>2. p[i + 1] = p[i] * Factor(i + 1)
    BY <1>8, <2>1
  <2>3. p[i] \in Nat /\ Factor(i + 1) \in Nat /\ (m > 0 => p[i] > 0 /\ Factor(i + 1) > 0)
    BY <1>9, <1>11
  <2>4. \A a, b \in Nat : a * b \in Nat /\ (a > 0 /\ b > 0 => a * b > 0)
    OBVIOUS
  <2>5. p[i + 1] \in Nat /\ (m > 0 => p[i + 1] > 0)
    BY <2>2, <2>3, <2>4
  <2> QED BY <2>1, <2>5
<1>12. MaxCount \in U
  <2> HIDE DEF U
  <2>1. \A i \in 0..MaxCount : i \in U
    BY <1>1, <1>10, <1>11, UpTo
  <2> QED BY <1>1, <2>1
<1> QED BY <1>7, <1>12

(***************************************************************************)
(* The candidates: visible posts, scored above zero unless their topic has *)
(* no weight.                                                              *)
(***************************************************************************)

LEMMA Products == \A a, b \in Nat : a * b \in Nat /\ (a > 0 /\ b > 0 => a * b > 0)
OBVIOUS

LEMMA WeightType ==
  ASSUME NEW dials \in Dials, NEW p \in Posts
  PROVE  Weight(p, dials) \in Nat
<1>1. dials.weights \in [Range(TopicOf) -> Nat] /\ TopicOf[p] \in Range(TopicOf)
  BY FeedPagingAssumption, FeedRankingAssumption DEF Range
<1> QED BY <1>1 DEF Weight

GraphOK(g) == g.published \subseteq Posts

LEMMA ShownPosts ==
  ASSUME NEW g, GraphOK(g), NEW dials
  PROVE  Shown(g, dials) \in SUBSET Posts /\ Shown(g, dials) \subseteq g.published
BY DEF Shown, GraphOK

(* A tier of candidates.                                                   *)
CandidatesOK(c, g, dials) ==
  /\ DOMAIN c.score \subseteq Shown(g, dials)
  /\ c.score \in [DOMAIN c.score -> Nat]
  /\ c.order \in Seq(DOMAIN c.score)
  /\ \A p \in DOMAIN c.score : Weight(p, dials) > 0 => c.score[p] > 0

LEMMA EndorsersFinite ==
  ASSUME NEW p, NEW us
  PROVE  /\ Cardinality(Endorsers(p) \intersect us) \in Nat
         /\ Endorsers(p) \intersect us # {} => Cardinality(Endorsers(p) \intersect us) > 0
<1>1. Endorsers(p) \intersect us \in SUBSET DOMAIN Endorsed
  BY DEF Endorsers
<1>2. IsFiniteSet(Endorsers(p) \intersect us)
  BY <1>1, FeedRankingAssumption, FS_Subset
<1> QED BY <1>2, FS_CardinalityType, FS_EmptySet

LEMMA BroughtValue ==
  ASSUME NEW dials \in Dials, NEW p \in Posts, NEW us
  PROVE  /\ Brought(us, p, dials) \in Nat
         /\ Weight(p, dials) > 0 /\ Endorsers(p) \intersect us # {} => Brought(us, p, dials) > 0
<1> DEFINE w == Weight(p, dials)
           n == Cardinality(Endorsers(p) \intersect us)
<1>1. w \in Nat /\ n \in Nat /\ (Endorsers(p) \intersect us # {} => n > 0)
  BY WeightType, EndorsersFinite
<1>2. Share \in Nat /\ Share > 0
  BY PostsFinite, FeedRankingAssumption
<1>3. Brought(us, p, dials) = Share * n * w
  BY DEF Brought
<1> HIDE DEF w, n
<1>4. Share * n \in Nat /\ (n > 0 => Share * n > 0)
  BY <1>1, <1>2, Products
<1>5. Share * n * w \in Nat /\ (n > 0 /\ w > 0 => Share * n * w > 0)
  BY <1>1, <1>4, Products
<1> QED BY <1>1, <1>3, <1>5 DEF w

(* What the accounts of us reach of what is shown.                         *)
ReachedBy(us, g, dials) == {p \in Shown(g, dials) : Endorsers(p) \intersect us # {}}

LEMMA WalkTierLists ==
  ASSUME NEW g, GraphOK(g), NEW dials \in Dials, NEW us
  PROVE  LET c == WalkTier(us, g, dials)
         IN /\ CandidatesOK(c, g, dials)
            /\ c.score = [p \in ReachedBy(us, g, dials) |-> Brought(us, p, dials)]
            /\ c.order = <<>> <=> ReachedBy(us, g, dials) = {}
<1> DEFINE D == ReachedBy(us, g, dials)
           score == [p \in D |-> Brought(us, p, dials)]
           order == Sorted(D, Before(score))
<1>1. D = Shown(g, dials) \intersect UNION {Endorsed[u] : u \in us \intersect DOMAIN Endorsed}
  BY DEF ReachedBy, Endorsers
<1>2. WalkTier(us, g, dials) = [order |-> order, score |-> score]
  BY <1>1 DEF WalkTier
<1>3. D \in SUBSET Posts /\ D \subseteq Shown(g, dials) /\ D \subseteq Nat /\ IsFiniteSet(D)
  BY ShownPosts, PostsFinite, PostSets DEF ReachedBy
<1>4. /\ score \in [D -> Nat]
      /\ \A p \in D : Weight(p, dials) > 0 => score[p] > 0
  BY <1>3, BroughtValue DEF ReachedBy
<1>5. DOMAIN score = D
  OBVIOUS
<1> HIDE DEF score, D
<1>6. Orders(Before(score), D)
  BY <1>3, <1>4, <1>5, ScoreOrders
<1>7. order \in Seq(D) /\ Len(order) = Cardinality(D)
  BY <1>3, <1>6, SortedLists
<1>8. order = <<>> <=> D = {}
  <2>1. Len(order) = 0 <=> D = {}
    BY <1>3, <1>7, FS_EmptySet
  <2>2. order = <<>> <=> Len(order) = 0
    BY <1>7, EmptySeq
  <2> QED BY <2>1, <2>2
<1>9. CandidatesOK([order |-> order, score |-> score], g, dials)
  BY <1>3, <1>4, <1>5, <1>7 DEF CandidatesOK
<1> QED BY <1>2, <1>8, <1>9 DEF score, D

LEMMA InterleavedLists ==
  ASSUME NEW pool \in SUBSET Posts
  PROVE  /\ InterleaveTopicBuckets(pool) \in Seq(pool)
         /\ \A p \in pool : \E i \in DOMAIN InterleaveTopicBuckets(pool) :
              InterleaveTopicBuckets(pool)[i] = p
<1> DEFINE Ahead(p) == {q \in pool : TopicOf[q] = TopicOf[p] /\ q < p}
           Round(p) == Cardinality(Ahead(p))
           R == {e \in pool \X pool :
                   \/ Round(e[1]) < Round(e[2])
                   \/ Round(e[1]) = Round(e[2]) /\ TopicOf[e[1]] < TopicOf[e[2]]}
<1>1. IsFiniteSet(pool) /\ pool \subseteq Nat
  BY PostsFinite, PostSets
<1>2. \A p \in pool : TopicOf[p] \in Nat
  BY FeedRankingAssumption
<1>3. \A p \in pool : IsFiniteSet(Ahead(p)) /\ Round(p) \in Nat
  <2> TAKE p \in pool
  <2>1. Ahead(p) \in SUBSET pool
    OBVIOUS
  <2> QED BY <1>1, <2>1, FS_Subset, FS_CardinalityType
<1>4. ASSUME NEW p \in pool, NEW q \in pool, TopicOf[p] = TopicOf[q], p < q
      PROVE  Round(p) < Round(q)
  <2>1. Ahead(p) \in SUBSET Ahead(q)
    <3> SUFFICES ASSUME NEW r \in Ahead(p) PROVE r \in Ahead(q)
      OBVIOUS
    <3>1. r \in pool /\ TopicOf[r] = TopicOf[p] /\ r < p
      OBVIOUS
    <3>2. r \in Nat /\ p \in Nat /\ q \in Nat
      BY <1>1, <3>1
    <3>3. r < q
      BY <1>4, <3>1, <3>2
    <3> QED BY <1>4, <3>1, <3>3
  <2>2. p \in Ahead(q) /\ p \notin Ahead(p)
    BY <1>1, <1>4
  <2>3. IsFiniteSet(Ahead(q)) /\ Round(p) \in Nat /\ Round(q) \in Nat
    BY <1>3
  <2> HIDE DEF Ahead
  <2>4. Round(p) <= Round(q) /\ Round(p) # Round(q)
    BY <2>1, <2>2, <2>3, FS_Subset
  <2> QED BY <2>3, <2>4
<1>5. \A p, q \in pool : <<p, q>> \in R <=>
        Round(p) < Round(q) \/ (Round(p) = Round(q) /\ TopicOf[p] < TopicOf[q])
  OBVIOUS
<1>6. InterleaveTopicBuckets(pool) = Sorted(pool, R)
  BY DEF InterleaveTopicBuckets
<1> HIDE DEF R, Round, Ahead
<1>7. ASSUME NEW p \in pool PROVE <<p, p>> \notin R
  <2>1. Round(p) \in Nat /\ TopicOf[p] \in Nat
    BY <1>2, <1>3
  <2>2. ~(Round(p) < Round(p)) /\ ~(TopicOf[p] < TopicOf[p])
    BY <2>1
  <2> QED BY <1>5, <2>2
<1>8. ASSUME NEW p \in pool, NEW q \in pool, p # q
      PROVE  <<p, q>> \in R \/ <<q, p>> \in R
  <2>1. p \in Nat /\ q \in Nat /\ Round(p) \in Nat /\ Round(q) \in Nat
        /\ TopicOf[p] \in Nat /\ TopicOf[q] \in Nat
    BY <1>1, <1>2, <1>3
  <2>2. p < q \/ q < p
    BY <1>8, <2>1
  <2>3. TopicOf[p] = TopicOf[q] => Round(p) < Round(q) \/ Round(q) < Round(p)
    BY <1>4, <2>2
  <2>4. \/ Round(p) < Round(q) \/ (Round(p) = Round(q) /\ TopicOf[p] < TopicOf[q])
        \/ Round(q) < Round(p) \/ (Round(q) = Round(p) /\ TopicOf[q] < TopicOf[p])
    BY <2>1, <2>3
  <2> QED BY <1>5, <2>4
<1>9. ASSUME NEW p \in pool, NEW q \in pool, NEW r \in pool, <<p, q>> \in R, <<q, r>> \in R
      PROVE  <<p, r>> \in R
  <2>1. Round(p) \in Nat /\ Round(q) \in Nat /\ Round(r) \in Nat
        /\ TopicOf[p] \in Nat /\ TopicOf[q] \in Nat /\ TopicOf[r] \in Nat
    BY <1>2, <1>3
  <2>2. Round(p) < Round(q) \/ (Round(p) = Round(q) /\ TopicOf[p] < TopicOf[q])
    BY <1>5, <1>9
  <2>3. Round(q) < Round(r) \/ (Round(q) = Round(r) /\ TopicOf[q] < TopicOf[r])
    BY <1>5, <1>9
  <2>4. Round(p) < Round(r) \/ (Round(p) = Round(r) /\ TopicOf[p] < TopicOf[r])
    BY <2>1, <2>2, <2>3
  <2> QED BY <1>5, <2>4
<1>10. Orders(R, pool)
  BY <1>7, <1>8, <1>9 DEF Orders
<1>11. /\ Sorted(pool, R) \in Seq(pool)
       /\ DOMAIN Sorted(pool, R) = 1..Cardinality(pool)
       /\ \A p \in pool : \E i \in 1..Cardinality(pool) : Sorted(pool, R)[i] = p
  BY <1>1, <1>10, SortedLists
<1> QED BY <1>6, <1>11

(* The place of a post in the velocity pool.                               *)
LEMMA Places ==
  ASSUME NEW g, GraphOK(g), NEW p \in g.published
  PROVE  /\ Cardinality({q \in g.published : q < p}) \in Nat
         /\ Cardinality({q \in g.published : q < p}) + 1 <= Cardinality(Posts)
         /\ Cardinality({q \in g.published : q <= p}) = Cardinality({q \in g.published : q < p}) + 1
<1> DEFINE L == {q \in g.published : q < p}
           E == {q \in g.published : q <= p}
<1>1. /\ p \in Nat /\ g.published \subseteq Nat /\ g.published \subseteq Posts
      /\ IsFiniteSet(Posts) /\ Cardinality(Posts) \in Nat
  BY PostsFinite DEF GraphOK
<1>2. L \in SUBSET Posts /\ E \in SUBSET Posts
  BY <1>1
<1>3. IsFiniteSet(L) /\ Cardinality(L) \in Nat
  BY <1>2, PostSets
<1>4. p \notin L
  BY <1>1
<1>5. E = L \union {p}
  <2>1. \A q \in g.published : q <= p <=> q < p \/ q = p
    BY <1>1
  <2> QED BY <2>1
<1> HIDE DEF L, E
<1>6. Cardinality(E) = Cardinality(L) + 1
  BY <1>3, <1>4, <1>5, FS_AddElement
<1>7. Cardinality(E) <= Cardinality(Posts)
  BY <1>2, PostSets
<1> QED BY <1>3, <1>6, <1>7 DEF L, E

LEMMA ShareOf ==
  ASSUME NEW k \in Nat, k + 1 <= Cardinality(Posts)
  PROVE  Share \div (k + 1) \in Nat /\ Share \div (k + 1) > 0
<1>1. Share \in Nat /\ Share >= Cardinality(Posts) /\ Cardinality(Posts) \in Nat
  BY PostsFinite, FeedRankingAssumption
<1>2. k + 1 \in 1..Share
  BY <1>1
<1>3. \A a \in Nat : \A j \in 1..a : a \div j \in Nat /\ a \div j > 0
  OBVIOUS
<1> QED BY <1>1, <1>2, <1>3

Tier3Score(g, dials) ==
  [p \in Shown(g, dials) |->
     (Share \div (Cardinality({q \in g.published : q < p}) + 1)) * Weight(p, dials)]

LEMMA Tier3Lists ==
  ASSUME NEW g, GraphOK(g), NEW dials \in Dials
  PROVE  CandidatesOK(Tier3(g, dials), g, dials) /\ Tier3(g, dials).score = Tier3Score(g, dials)
<1> DEFINE bucketed == {p \in g.published : DialsAllow(p, dials)}
           s == InterleaveTopicBuckets(bucketed)
           D == Shown(g, dials)
           I == {i \in DOMAIN s : s[i] \in D}
           score == Tier3Score(g, dials)
<1>1. Tier3(g, dials) = [order |-> Pick(s, I), score |-> score]
  BY DEF Tier3, Tier3Score
<1>2. bucketed \in SUBSET Posts
  BY DEF GraphOK
<1>3. D \in SUBSET Posts /\ D \subseteq g.published
  BY ShownPosts
<1> HIDE DEF bucketed
<1>4. s \in Seq(bucketed)
  BY <1>2, InterleavedLists
<1> HIDE DEF s
<1>5. I \in SUBSET DOMAIN s
  OBVIOUS
<1>6. \A i \in I : s[i] \in D
  OBVIOUS
<1> HIDE DEF I, D
<1>7. /\ Cardinality(I) \in Nat
      /\ Pick(s, I) \in Seq(bucketed) /\ DOMAIN Pick(s, I) = 1..Cardinality(I)
      /\ \A n \in 1..Cardinality(I) : Positions(I)[n] \in I /\ Pick(s, I)[n] = s[Positions(I)[n]]
  BY <1>4, <1>5, PickLists
<1>8. \A n \in 1..Cardinality(I) : Pick(s, I)[n] \in D
  BY <1>6, <1>7
<1>9. Pick(s, I) \in Seq(D)
  <2>1. Pick(s, I) \in [1..Cardinality(I) -> D]
    BY <1>7, <1>8, SeqDef
  <2> QED BY <1>7, <2>1, SeqDef
<1>10. DOMAIN score = D
  BY DEF Tier3Score, D
<1>11. ASSUME NEW p \in D PROVE score[p] \in Nat /\ (Weight(p, dials) > 0 => score[p] > 0)
  <2> DEFINE k == Cardinality({q \in g.published : q < p})
  <2>1. k \in Nat /\ k + 1 <= Cardinality(Posts)
    BY <1>3, Places
  <2>2. score[p] = (Share \div (k + 1)) * Weight(p, dials)
    BY DEF Tier3Score, D
  <2> HIDE DEF k
  <2>3. Share \div (k + 1) \in Nat /\ Share \div (k + 1) > 0
    BY <2>1, ShareOf
  <2>4. Weight(p, dials) \in Nat
    BY <1>3, WeightType
  <2> HIDE DEF score
  <2> QED BY <2>2, <2>3, <2>4, Products
<1>12. score \in [D -> Nat]
  <2>1. score = [p \in D |-> score[p]]
    BY DEF Tier3Score, D
  <2> HIDE DEF score
  <2> QED BY <1>11, <2>1
<1> HIDE DEF score
<1>13. CandidatesOK([order |-> Pick(s, I), score |-> score], g, dials)
  BY <1>9, <1>10, <1>11, <1>12 DEF CandidatesOK, D
<1> QED BY <1>1, <1>13 DEF score

LEMMA CandidatesLists ==
  ASSUME NEW g, GraphOK(g), NEW dials \in Dials
  PROVE  CandidatesOK(Candidates(g, dials), g, dials)
<1>1. \A us : CandidatesOK(WalkTier(us, g, dials), g, dials)
  BY WalkTierLists
<1>2. CandidatesOK(Tier3(g, dials), g, dials)
  BY Tier3Lists
<1>3. \A b, c : CandidatesOK(b, g, dials) /\ CandidatesOK(c, g, dials)
                  => CandidatesOK(OrElse(b, c), g, dials)
  BY DEF OrElse
<1>4. CandidatesOK(Tier2Cascade(g, dials), g, dials)
  BY <1>1, <1>2, <1>3 DEF Tier2Cascade
<1> QED BY <1>1, <1>2, <1>3, <1>4 DEF Candidates

(***************************************************************************)
(* Fatigue: no served post stays level with an unseen one.                 *)
(***************************************************************************)

LEMMA PenaltyValue ==
  ASSUME NEW h, GoodHistory(h), NEW p, NEW t \in Nat
  PROVE  Penalty(h, p, t) \in Nat /\ (~Fatigued(h, p, t) => Penalty(h, p, t) > 0)
<1>1. Window \in Nat /\ 0 < Window
  <2>1. Window \in Nat
    BY FeedRankingAssumption, FS_CardinalityType DEF Window
  <2>2. TTL \in Nat /\ TTL < Window
    BY FeedPagingAssumption
  <2> HIDE DEF Window
  <2> QED BY <2>1, <2>2
<1>2. CASE Fatigued(h, p, t)
  <2> DEFINE i == IF t < h.ts[p] THEN 0 ELSE t - h.ts[p]
  <2>1. h.ts[p] \in Nat /\ t < h.ts[p] + Window
    BY <1>2 DEF Fatigued, GoodHistory
  <2>2. i \in 0..(Window - 1)
    <3> HIDE DEF Window
    <3> QED BY <1>1, <2>1
  <2>3. Recovered[i] \in 0..Twentieths
    <3> HIDE DEF i, Window
    <3> QED BY <2>2, FeedRankingAssumption
  <2>4. Penalty(h, p, t) = Power(Recovered[i], h.count[p])
    BY <1>2 DEF Penalty
  <2>5. Recovered[i] \in Nat
    BY <2>3 DEF Twentieths
  <2> QED BY <1>2, <2>4, <2>5, PowerValue
<1>3. CASE ~Fatigued(h, p, t)
  <2>1. Penalty(h, p, t) = Power(Twentieths, MaxCount)
    BY <1>3 DEF Penalty
  <2>2. Twentieths \in Nat /\ Twentieths > 0
    BY DEF Twentieths
  <2> QED BY <2>1, <2>2, PowerValue
<1> QED BY <1>2, <1>3

LEMMA ImageFinite ==
  ASSUME NEW S, IsFiniteSet(S), NEW f \in [S -> Nat], NEW T \in SUBSET S
  PROVE  IsFiniteSet({f[x] : x \in T}) /\ {f[x] : x \in T} \subseteq Nat
<1> DEFINE U == {f[x] : x \in T}
           r == [x \in T |-> f[x]]
<1>1. r \in Surjection(T, U)
  BY DEF Surjection
<1>2. IsFiniteSet(T)
  BY FS_Subset
<1>3. IsFiniteSet(U)
  <2> HIDE DEF U, r
  <2> QED BY <1>1, <1>2, FS_Surjection
<1> QED BY <1>3

LEMMA Below ==
  ASSUME NEW a \in Nat, NEW b \in Nat, NEW top \in Nat, NEW low \in Nat,
         a <= top, low <= b, top > 0, low > 0
  PROVE  a * 19 * low < b * 20 * top
<1>1. \A i, j, k \in Nat : i <= j => i * k <= j * k
  OBVIOUS
<1> DEFINE m == top * low
<1>2. m \in Nat /\ m > 0
  BY Products
<1>3. a * low \in Nat /\ a * low <= m
  BY <1>1, Products
<1>4. b * top \in Nat /\ m <= b * top
  <2>1. low * top <= b * top
    BY <1>1
  <2> QED BY <2>1, Products
<1>5. a * 19 * low = 19 * (a * low) /\ b * 20 * top = 20 * (b * top)
  OBVIOUS
<1> DEFINE x == a * low
           y == b * top
<1> HIDE DEF m, x, y
<1>6. 19 * x < 20 * y
  BY <1>2, <1>3, <1>4 DEF x, y
<1> QED BY <1>5, <1>6 DEF x, y

LEMMA CeilingLists ==
  ASSUME NEW D, IsFiniteSet(D), NEW damp \in [D -> Nat],
         NEW served \in SUBSET D, NEW unseen \in SUBSET D, served \intersect unseen = {},
         \A q \in unseen : damp[q] > 0
  PROVE  LET f == UnseenFirstCeiling(damp, served, unseen)
         IN /\ f \in [D -> Nat]
            /\ \A p \in served, q \in unseen : f[p] < f[q]
<1> DEFINE f == UnseenFirstCeiling(damp, served, unseen)
           tops == {damp[p] : p \in served} \union {0}
           lows == {damp[p] : p \in unseen}
<1>1. CASE unseen = {}
  BY <1>1 DEF UnseenFirstCeiling
<1>2. CASE unseen # {}
  <2> DEFINE top == Max(tops)
             low == Min(lows)
  <2>1. IsFiniteSet({damp[p] : p \in served}) /\ {damp[p] : p \in served} \subseteq Nat
    BY ImageFinite
  <2>2. IsFiniteSet(lows) /\ lows \subseteq Nat /\ lows # {}
    BY <1>2, ImageFinite
  <2>3. IsFiniteSet(tops) /\ tops \subseteq Nat /\ tops # {}
    BY <2>1, FS_AddElement
  <2>4. top \in tops /\ \A x \in tops : x <= top
    <3> HIDE DEF tops
    <3> QED BY <2>3, MaxOf
  <2>5. low \in lows /\ \A x \in lows : low <= x
    <3> HIDE DEF lows
    <3> QED BY <2>2, MinOf
  <2>6. top \in Nat /\ low \in Nat /\ low > 0
    BY <2>3, <2>4, <2>2, <2>5
  <2>7. \A p \in served : damp[p] \in Nat /\ damp[p] <= top
    BY <2>4
  <2>8. \A q \in unseen : damp[q] \in Nat /\ low <= damp[q]
    BY <2>5
  <2>9. f = Ceiling(damp, served, top, low)
    BY <1>2 DEF UnseenFirstCeiling
  <2> HIDE DEF top, low, f
  <2>10. CASE top > 0 /\ 20 * top >= 19 * low
    <3>1. f = [p \in D |-> IF p \in served THEN damp[p] * 19 * low ELSE damp[p] * 20 * top]
      BY <2>9, <2>10 DEF Ceiling
    <3>2. \A p \in D : damp[p] * 19 * low \in Nat /\ damp[p] * 20 * top \in Nat
      <4>1. \A p \in D : damp[p] * 19 \in Nat /\ damp[p] * 20 \in Nat
        OBVIOUS
      <4> QED BY <2>6, <4>1, Products
    <3>3. f \in [D -> Nat]
      BY <3>1, <3>2
    <3>4. ASSUME NEW p \in served, NEW q \in unseen PROVE f[p] < f[q]
      <4>1. damp[p] * 19 * low < damp[q] * 20 * top
        BY <2>6, <2>7, <2>8, <2>10, Below
      <4>2. f[p] = damp[p] * 19 * low
        BY <3>1
      <4>3. f[q] = damp[q] * 20 * top
        BY <3>1
      <4> QED BY <4>1, <4>2, <4>3
    <3> QED BY <3>3, <3>4 DEF f
  <2>11. CASE ~(top > 0 /\ 20 * top >= 19 * low)
    <3>1. f = damp
      BY <2>9, <2>11 DEF Ceiling
    <3>2. top < low
      BY <2>6, <2>11
    <3>3. \A p \in served, q \in unseen : f[p] < f[q]
      BY <2>6, <2>7, <2>8, <3>1, <3>2
    <3> QED BY <3>1, <3>3 DEF f
  <2> QED BY <2>10, <2>11
<1> QED BY <1>1, <1>2

LEMMA FatiguedLists ==
  ASSUME NEW c, NEW D \in SUBSET Posts, c.score \in [D -> Nat],
         NEW h, GoodHistory(h), NEW t \in Nat
  PROVE  LET f == FatiguedScores(c, h, t)
         IN /\ f \in [D -> Nat]
            /\ \A p, q \in D : Fatigued(h, p, t) /\ ~Fatigued(h, q, t) /\ c.score[q] > 0 => f[p] < f[q]
<1> DEFINE damp == [p \in D |-> c.score[p] * Penalty(h, p, t)]
           served == {p \in D : Fatigued(h, p, t)}
           unseen == {p \in D : c.score[p] > 0 /\ ~Fatigued(h, p, t)}
<1>1. FatiguedScores(c, h, t) = UnseenFirstCeiling(damp, served, unseen)
  BY DEF FatiguedScores
<1>2. \A p \in D : c.score[p] \in Nat /\ Penalty(h, p, t) \in Nat
                   /\ (~Fatigued(h, p, t) => Penalty(h, p, t) > 0)
  BY PenaltyValue
<1>3. \A p \in D : damp[p] \in Nat /\ (p \in unseen => damp[p] > 0)
  <2> TAKE p \in D
  <2> QED BY <1>2, Products
<1>4. damp \in [D -> Nat] /\ \A q \in unseen : damp[q] > 0
  BY <1>3
<1>5. served \in SUBSET D /\ unseen \in SUBSET D /\ served \intersect unseen = {}
  OBVIOUS
<1>6. IsFiniteSet(D)
  BY PostSets
<1> HIDE DEF damp
<1>7. LET f == UnseenFirstCeiling(damp, served, unseen)
      IN f \in [D -> Nat] /\ \A p \in served, q \in unseen : f[p] < f[q]
  <2> HIDE DEF served, unseen
  <2> QED BY <1>4, <1>5, <1>6, CeilingLists
<1> QED BY <1>1, <1>7

(* A ranking lists posts the viewer may see; a known viewer's has no       *)
(* scored unseen post after a fatigued one.                                *)
LEMMA RankingLists ==
  ASSUME NEW g, GraphOK(g), NEW dials \in Dials, NEW h, GoodHistory(h), NEW t \in Nat
  PROVE  /\ Ranking(g, dials, h, t) \in Seq(Shown(g, dials))
         /\ g.viewer # NoAccount =>
              \A m, n \in DOMAIN Ranking(g, dials, h, t) :
                m < n /\ Fatigued(h, Ranking(g, dials, h, t)[m], t)
                      /\ ~Fatigued(h, Ranking(g, dials, h, t)[n], t)
                  => Weight(Ranking(g, dials, h, t)[n], dials) = 0
<1> DEFINE c == Candidates(g, dials)
           D == DOMAIN c.score
           list == Ranking(g, dials, h, t)
<1>1. CandidatesOK(c, g, dials)
  BY CandidatesLists
<1>2. list = Ranked(c, g, h, t)
  BY DEF Ranking
<1>3. Shown(g, dials) \in SUBSET Posts
  BY ShownPosts
<1> HIDE DEF c, list
<1>4. D \in SUBSET Posts /\ D \subseteq Shown(g, dials) /\ c.score \in [D -> Nat] /\ c.order \in Seq(D)
  BY <1>1, <1>3 DEF CandidatesOK
<1> HIDE DEF D
<1>5. CASE g.viewer = NoAccount
  <2>1. list = Composed(c.order, c.score)
    BY <1>2, <1>5 DEF Ranked
  <2>2. list \in Seq(D)
    BY <1>4, <2>1, ComposedLists
  <2>3. list \in Seq(Shown(g, dials))
    BY <1>4, <2>2, SeqMonotonic
  <2> QED BY <1>5, <2>3 DEF list
<1>6. CASE g.viewer # NoAccount
  <2> DEFINE f == FatiguedScores(c, h, t)
  <2>1. list = ByScore(f)
    BY <1>2, <1>6 DEF Ranked
  <2>2. /\ f \in [D -> Nat]
        /\ \A p, q \in D : Fatigued(h, p, t) /\ ~Fatigued(h, q, t) /\ c.score[q] > 0 => f[p] < f[q]
    BY <1>4, FatiguedLists
  <2> HIDE DEF f
  <2>3. /\ list \in Seq(D)
        /\ \A m, n \in DOMAIN list : m < n => f[list[n]] <= f[list[m]]
    BY <1>4, <2>1, <2>2, ByScoreLists
  <2>4. list \in Seq(Shown(g, dials))
    BY <1>4, <2>3, SeqMonotonic
  <2>5. ASSUME NEW m \in DOMAIN list, NEW n \in DOMAIN list, m < n,
               Fatigued(h, list[m], t), ~Fatigued(h, list[n], t)
        PROVE  Weight(list[n], dials) = 0
    <3>1. list[m] \in D /\ list[n] \in D
      BY <2>3, LenProperties, ElementOfSeq
    <3>2. f[list[n]] <= f[list[m]] /\ f[list[m]] \in Nat /\ f[list[n]] \in Nat
      BY <2>2, <2>3, <2>5, <3>1
    <3>3. ~(c.score[list[n]] > 0)
      BY <2>2, <2>5, <3>1, <3>2
    <3>4. ~(Weight(list[n], dials) > 0)
      BY <1>1, <3>1, <3>3 DEF CandidatesOK, D
    <3>5. Weight(list[n], dials) \in Nat
      BY <1>4, <3>1, WeightType
    <3> QED BY <3>4, <3>5
  <2> QED BY <2>4, <2>5 DEF list
<1> QED BY <1>5, <1>6

(***************************************************************************)
(* The preview.                                                            *)
(***************************************************************************)

LEMMA PreviewLists ==
  ASSUME NEW g, GraphOK(g), NEW dials \in Dials,
         g.viewer # NoAccount => Followed(g) = FollowsOf[g.viewer]
  PROVE  /\ DOMAIN PreviewScores(g, dials) = DOMAIN Candidates(g, dials).score
         /\ g.viewer # NoAccount /\ Cardinality(g.likes) >= Tier1Likes
              /\ DOMAIN PreviewTier1(g, dials) # {}
            => Candidates(g, dials).score = PreviewScores(g, dials)
<1> DEFINE Walk(us) == WalkTier(us, g, dials)
           Reach(us) == ReachedBy(us, g, dials)
           twins == CoInteractors(g)
           follows == FollowsOf[g.viewer]
           P1 == PreviewTier1(g, dials)
           P2 == PreviewTier2(g, dials)
           P3 == PreviewTier3(g, dials)
<1>1. \A us : /\ DOMAIN Walk(us).score = Reach(us)
              /\ Walk(us).score = [p \in Reach(us) |-> Brought(us, p, dials)]
              /\ Walk(us).order = <<>> <=> Reach(us) = {}
  <2> TAKE us
  <2>1. /\ Walk(us).score = [p \in Reach(us) |-> Brought(us, p, dials)]
        /\ Walk(us).order = <<>> <=> Reach(us) = {}
    BY WalkTierLists
  <2> QED BY <2>1
<1>2. DOMAIN Tier3(g, dials).score = Shown(g, dials) /\ DOMAIN P3 = Shown(g, dials)
  <2>1. Tier3(g, dials).score = Tier3Score(g, dials)
    BY Tier3Lists
  <2>2. DOMAIN Tier3Score(g, dials) = Shown(g, dials)
    BY DEF Tier3Score
  <2>3. DOMAIN P3 = Shown(g, dials)
    BY DEF PreviewTier3
  <2> QED BY <2>1, <2>2, <2>3
<1>3. P1 = Walk(twins).score /\ DOMAIN P1 = Reach(twins)
  <2>1. P1 = [p \in Reach(twins) |-> Brought(twins, p, dials)]
    BY DEF PreviewTier1, ReachedBy
  <2> QED BY <1>1, <2>1
<1>4. DOMAIN P2 = Reach(follows)
  BY DEF PreviewTier2, ReachedBy
<1>5. DOMAIN <<>> = {}
  OBVIOUS
<1>6. PreviewScores(g, dials) =
        FirstNonEmpty(IF g.viewer # NoAccount /\ Cardinality(g.likes) >= Tier1Likes THEN P1 ELSE <<>>,
        FirstNonEmpty(IF g.viewer # NoAccount /\ (g.likes # {} \/ follows # {}) THEN P2 ELSE <<>>, P3))
  BY DEF PreviewScores
<1>7. Tier1Likes \in Nat \ {0} /\ Cardinality({}) = 0
  BY FeedRankingAssumption, FS_EmptySet
<1>8. Cardinality(g.likes) >= Tier1Likes => g.likes # {}
  BY <1>7
<1>9. \A us, c : /\ Reach(us) = {} => OrElse(Walk(us), c) = c
                 /\ Reach(us) # {} => OrElse(Walk(us), c) = Walk(us)
  BY <1>1 DEF OrElse
<1> HIDE DEF Walk, Reach, twins, follows, P1, P2, P3
<1>10. g.viewer # NoAccount => Tier2Cascade(g, dials) = OrElse(Walk(follows), Tier3(g, dials))
  BY DEF Tier2Cascade, Walk, follows
<1>11. g.viewer # NoAccount =>
         DOMAIN Tier2Cascade(g, dials).score = IF Reach(follows) = {} THEN Shown(g, dials) ELSE Reach(follows)
  BY <1>1, <1>2, <1>9, <1>10
<1>12. CASE g.viewer = NoAccount
  <2>1. Candidates(g, dials) = Tier3(g, dials)
    BY <1>12 DEF Candidates
  <2>2. PreviewScores(g, dials) = P3
    BY <1>5, <1>6, <1>12 DEF FirstNonEmpty
  <2> QED BY <1>2, <1>12, <2>1, <2>2
<1>13. CASE g.viewer # NoAccount /\ Cardinality(g.likes) >= Tier1Likes
  <2>1. Candidates(g, dials) = OrElse(Walk(twins), Tier2Cascade(g, dials))
    BY <1>13 DEF Candidates, Walk, twins
  <2>2. PreviewScores(g, dials) = FirstNonEmpty(P1, FirstNonEmpty(P2, P3))
    BY <1>6, <1>8, <1>13
  <2>3. CASE Reach(twins) = {}
    <3>1. Candidates(g, dials) = Tier2Cascade(g, dials)
      BY <1>9, <2>1, <2>3
    <3>2. PreviewScores(g, dials) = FirstNonEmpty(P2, P3)
      BY <1>3, <2>2, <2>3 DEF FirstNonEmpty
    <3>3. DOMAIN FirstNonEmpty(P2, P3) = IF Reach(follows) = {} THEN Shown(g, dials) ELSE Reach(follows)
      BY <1>2, <1>4 DEF FirstNonEmpty
    <3> QED BY <1>3, <1>11, <1>13, <2>3, <3>1, <3>2, <3>3 DEF P1
  <2>4. CASE Reach(twins) # {}
    <3>1. Candidates(g, dials) = Walk(twins)
      BY <1>9, <2>1, <2>4
    <3>2. PreviewScores(g, dials) = P1
      BY <1>3, <2>2, <2>4 DEF FirstNonEmpty
    <3> QED BY <1>3, <3>1, <3>2
  <2> QED BY <2>3, <2>4
<1>14. CASE g.viewer # NoAccount /\ ~(Cardinality(g.likes) >= Tier1Likes)
              /\ (g.likes # {} \/ follows # {})
  <2>1. Candidates(g, dials) = Tier2Cascade(g, dials)
    BY <1>14 DEF Candidates, follows
  <2>2. PreviewScores(g, dials) = FirstNonEmpty(P2, P3)
    BY <1>5, <1>6, <1>14 DEF FirstNonEmpty
  <2>3. DOMAIN FirstNonEmpty(P2, P3) = IF Reach(follows) = {} THEN Shown(g, dials) ELSE Reach(follows)
    BY <1>2, <1>4 DEF FirstNonEmpty
  <2> QED BY <1>11, <1>14, <2>1, <2>2, <2>3
<1>15. CASE g.viewer # NoAccount /\ ~(Cardinality(g.likes) >= Tier1Likes)
              /\ ~(g.likes # {} \/ follows # {})
  <2>1. Candidates(g, dials) = Tier3(g, dials)
    BY <1>15 DEF Candidates, follows
  <2>2. PreviewScores(g, dials) = P3
    BY <1>5, <1>6, <1>15 DEF FirstNonEmpty
  <2> QED BY <1>2, <1>15, <2>1, <2>2
<1> QED BY <1>12, <1>13, <1>14, <1>15

(***************************************************************************)
(* Pages.                                                                  *)
(***************************************************************************)

LEMMA NonEmpty == \A t : Len(t) > 0 => t # <<>>
<1>1. Len(<<>>) = 0
  BY EmptySeq
<1> QED BY <1>1

LEMMA EndOfPage ==
  ASSUME NEW offset \in Nat, NEW size \in Nat, NEW l \in Nat, size > 0, offset < l
  PROVE  LET end == Min({offset + size, l})
         IN end \in Nat /\ offset + 1 <= end /\ end <= l
<1>1. offset + size \in Nat
  OBVIOUS
<1>2. Min({offset + size, l}) = IF offset + size <= l THEN offset + size ELSE l
  BY <1>1, MinOfTwo
<1> QED BY <1>2

LEMMA Pages ==
  ASSUME NEW D, NEW s \in Seq(D), NEW offset \in Nat
  PROVE  LET page == PageOf(s, offset, PageSize)
         IN /\ page.posts \in Seq(D) /\ page.next \in Nat
            /\ page.posts = <<>> => page.next = 0
            /\ \A i \in DOMAIN page.posts : \E j \in DOMAIN s : page.posts[i] = s[j]
<1> DEFINE page == PageOf(s, offset, PageSize)
           end == Min({offset + PageSize, Len(s)})
<1>1. Len(s) \in Nat /\ PageSize \in Nat /\ PageSize > 0 /\ DOMAIN s = 1..Len(s)
  BY LenProperties, FeedPagingAssumption
<1>2. CASE offset >= Len(s)
  <2>1. page = [posts |-> <<>>, next |-> 0]
    BY <1>2 DEF PageOf
  <2> QED BY <2>1, EmptySeq
<1>3. CASE ~(offset >= Len(s))
  <2>1. page = [posts |-> SubSeq(s, offset + 1, end), next |-> IF end < Len(s) THEN end ELSE 0]
    BY <1>3 DEF PageOf
  <2> HIDE DEF page
  <2>2. offset < Len(s)
    BY <1>1, <1>3
  <2>3. end \in Nat /\ offset + 1 <= end /\ end <= Len(s)
    <3> DEFINE l == Len(s)
    <3>1. l \in Nat /\ offset < l
      BY <1>1, <2>2
    <3> HIDE DEF l
    <3>2. LET e == Min({offset + PageSize, l}) IN e \in Nat /\ offset + 1 <= e /\ e <= l
      BY <1>1, <3>1, EndOfPage
    <3> QED BY <3>2 DEF l
  <2> HIDE DEF end
  <2>4. \A i \in (offset + 1)..end : i \in 1..Len(s) /\ s[i] \in D
    BY <1>1, <2>3, ElementOfSeq
  <2>5. /\ SubSeq(s, offset + 1, end) \in Seq(D)
        /\ Len(SubSeq(s, offset + 1, end)) = end - (offset + 1) + 1
        /\ \A i \in 1..(end - (offset + 1) + 1) : SubSeq(s, offset + 1, end)[i] = s[(offset + 1) + i - 1]
    <3>1. offset + 1 \in Int /\ end \in Int
      BY <2>3
    <3> QED BY <2>3, <2>4, <3>1, SubSeqProperties
  <2>6. Len(SubSeq(s, offset + 1, end)) > 0
    BY <2>3, <2>5
  <2>7. SubSeq(s, offset + 1, end) # <<>>
    BY <2>6, NonEmpty
  <2>8. ASSUME NEW i \in DOMAIN SubSeq(s, offset + 1, end)
        PROVE  \E j \in DOMAIN s : SubSeq(s, offset + 1, end)[i] = s[j]
    <3>1. i \in 1..(end - (offset + 1) + 1)
      BY <2>5, LenProperties
    <3>2. (offset + 1) + i - 1 \in 1..Len(s)
      BY <1>1, <2>3, <3>1
    <3> QED BY <1>1, <2>5, <3>1, <3>2
  <2>9. (IF end < Len(s) THEN end ELSE 0) \in Nat
    BY <2>3
  <2> QED BY <2>1, <2>5, <2>7, <2>8, <2>9 DEF page
<1> QED BY <1>2, <1>3

(***************************************************************************)
(* Histories.  What holds of one apart from its capacity.                  *)
(***************************************************************************)

Coherent(h) ==
  /\ h.ids \subseteq Posts /\ DOMAIN h.ts \subseteq h.ids /\ DOMAIN h.count = DOMAIN h.ts
  /\ \A p \in DOMAIN h.count : h.count[p] \in 1..MaxCount
  /\ \A p \in DOMAIN h.ts : h.ts[p] \in Nat
  /\ h.queue \in Seq(Impressions)
  /\ Remembers(h)

LEMMA GoodIsCoherent == \A h : GoodHistory(h) <=> Coherent(h) /\ Len(h.queue) <= MaxHistory
BY DEF GoodHistory, HistoryOK, Coherent

LEMMA QueueOf ==
  ASSUME NEW h, Coherent(h)
  PROVE  /\ Len(h.queue) \in Nat /\ DOMAIN h.queue = 1..Len(h.queue)
         /\ \A i \in 1..Len(h.queue) : h.queue[i] \in Impressions
BY LenProperties, ElementOfSeq DEF Coherent

(* What PopOldest forgets is not younger than an entry it removed.         *)
LEMMA PopOldestLists ==
  ASSUME NEW h, Coherent(h), NEW n \in 0..Len(h.queue)
  PROVE  LET k == PopOldest(h, n)
         IN /\ Coherent(k) /\ Len(k.queue) = Len(h.queue) - n
            /\ DOMAIN k.ts \subseteq DOMAIN h.ts
            /\ \A p \in DOMAIN k.ts : k.ts[p] = h.ts[p] /\ k.count[p] = h.count[p]
            /\ \A p \in DOMAIN h.ts \ DOMAIN k.ts :
                 \E i \in 1..n : h.queue[i].post = p /\ h.ts[p] <= h.queue[i].at
<1> DEFINE k == PopOldest(h, n)
           gone == {p \in DOMAIN h.ts : \E i \in 1..n : h.queue[i].post = p /\ h.ts[p] <= h.queue[i].at}
           l == Len(h.queue)
           q == SubSeq(h.queue, n + 1, l)
<1>1. k = [ids |-> h.ids \ gone, ts |-> [p \in DOMAIN h.ts \ gone |-> h.ts[p]],
           count |-> [p \in DOMAIN h.count \ gone |-> h.count[p]], queue |-> q]
  BY DEF PopOldest
<1>2. k.ids = h.ids \ gone /\ k.ts = [p \in DOMAIN h.ts \ gone |-> h.ts[p]]
      /\ k.count = [p \in DOMAIN h.count \ gone |-> h.count[p]] /\ k.queue = q
  BY <1>1
<1>3. l \in Nat /\ n \in Nat /\ n <= l /\ \A i \in 1..l : h.queue[i] \in Impressions
  BY QueueOf
<1>4. q \in Seq(Impressions) /\ Len(q) = l - n /\ \A i \in 1..(l - n) : q[i] = h.queue[n + i]
  <2> HIDE DEF l
  <2>1. n + 1 \in Int /\ l \in Int /\ \A i \in (n + 1)..l : h.queue[i] \in Impressions
    BY <1>3
  <2>2. /\ q \in Seq(Impressions)
        /\ Len(q) = IF n + 1 <= l THEN l - (n + 1) + 1 ELSE 0
        /\ \A i \in 1..(l - (n + 1) + 1) : q[i] = h.queue[(n + 1) + i - 1]
    BY <2>1, SubSeqProperties
  <2> HIDE DEF q
  <2>3. l - (n + 1) + 1 = l - n /\ Len(q) = l - n
    BY <1>3, <2>2
  <2>4. \A i \in 1..(l - n) : (n + 1) + i - 1 = n + i
    BY <1>3
  <2> QED BY <2>2, <2>3, <2>4
<1>5. DOMAIN k.ts = DOMAIN h.ts \ gone /\ DOMAIN k.count = DOMAIN h.ts \ gone
      /\ \A p \in DOMAIN h.ts \ gone : k.ts[p] = h.ts[p] /\ k.count[p] = h.count[p]
  BY <1>2 DEF Coherent
<1>6. ASSUME NEW p \in DOMAIN k.ts
      PROVE  \E i \in DOMAIN k.queue : k.queue[i] = [post |-> p, at |-> k.ts[p]]
  <2>1. p \in DOMAIN h.ts /\ p \notin gone /\ k.ts[p] = h.ts[p] /\ h.ts[p] \in Nat
    BY <1>5 DEF Coherent
  <2>2. PICK j \in 1..l : h.queue[j] = [post |-> p, at |-> h.ts[p]]
    BY <2>1, QueueOf DEF Coherent, Remembers
  <2>3. ~(j \in 1..n)
    BY <2>1, <2>2
  <2> HIDE DEF k, gone, q, l
  <2>4. j - n \in 1..(l - n) /\ n + (j - n) = j
    BY <1>3, <2>3
  <2>5. j - n \in DOMAIN q /\ q[j - n] = h.queue[j]
    BY <1>4, <2>4, LenProperties
  <2> QED BY <1>2, <2>1, <2>2, <2>5
<1>7. Coherent(k)
  <2>1. \A p \in DOMAIN k.count : k.count[p] \in 1..MaxCount
    BY <1>5 DEF Coherent
  <2>2. \A p \in DOMAIN k.ts : k.ts[p] \in Nat
    BY <1>5 DEF Coherent
  <2>3. k.ids \subseteq Posts /\ DOMAIN k.ts \subseteq k.ids /\ DOMAIN k.count = DOMAIN k.ts
    BY <1>2, <1>5 DEF Coherent
  <2>4. k.queue \in Seq(Impressions)
    BY <1>2, <1>4
  <2> HIDE DEF k
  <2> QED BY <1>6, <2>1, <2>2, <2>3, <2>4 DEF Coherent, Remembers
<1>8. Len(k.queue) = l - n
  BY <1>2, <1>4
<1>9. \A p \in DOMAIN h.ts \ DOMAIN k.ts :
        \E i \in 1..n : h.queue[i].post = p /\ h.ts[p] <= h.queue[i].at
  BY <1>5
<1> QED BY <1>5, <1>7, <1>8, <1>9

LEMMA RecordImpressionKeeps ==
  ASSUME NEW h, GoodHistory(h), NEW p \in Posts, NEW t \in Nat
  PROVE  GoodHistory(RecordImpression(h, p, t))
<1> DEFINE again == p \in DOMAIN h.ts /\ Distance(t, h.ts[p]) < Window
           count == IF again THEN Min({h.count[p] + 1, MaxCount}) ELSE 1
           e == [post |-> p, at |-> t]
           seen == [ids |-> h.ids \union {p},
                    ts |-> [q \in DOMAIN h.ts \union {p} |-> IF q = p THEN t ELSE h.ts[q]],
                    count |-> [q \in DOMAIN h.count \union {p} |-> IF q = p THEN count ELSE h.count[q]],
                    queue |-> Append(h.queue, e)]
<1>1. Coherent(h) /\ Len(h.queue) <= MaxHistory
  BY GoodIsCoherent
<1>2. MaxHistory \in Nat /\ MaxHistory > 0 /\ MaxCount \in Nat /\ MaxCount > 0
  BY FeedPagingAssumption, FeedRankingAssumption
<1>3. count \in 1..MaxCount
  <2>1. CASE again
    <3>1. h.count[p] \in Nat /\ h.count[p] + 1 \in Nat /\ h.count[p] + 1 >= 1
      BY <1>1, <2>1 DEF Coherent
    <3>2. count = IF h.count[p] + 1 <= MaxCount THEN h.count[p] + 1 ELSE MaxCount
      BY <1>2, <2>1, <3>1, MinOfTwo
    <3> QED BY <1>2, <3>1, <3>2
  <2>2. CASE ~again
    BY <1>2, <2>2
  <2> QED BY <2>1, <2>2
<1>4. RecordImpression(h, p, t) = IF Len(seen.queue) > MaxHistory THEN PopOldest(seen, 1) ELSE seen
  BY DEF RecordImpression
<1> HIDE DEF count
<1>5. Len(h.queue) \in Nat /\ DOMAIN h.queue = 1..Len(h.queue) /\ h.queue \in Seq(Impressions)
      /\ e \in Impressions
  BY <1>1, QueueOf DEF Coherent, Impressions
<1>6. /\ seen.queue \in Seq(Impressions) /\ Len(seen.queue) = Len(h.queue) + 1
      /\ DOMAIN seen.queue = 1..(Len(h.queue) + 1)
      /\ seen.queue[Len(h.queue) + 1] = e
      /\ \A i \in 1..Len(h.queue) : seen.queue[i] = h.queue[i]
  BY <1>5
<1>7. /\ seen.ids = h.ids \union {p}
      /\ DOMAIN seen.ts = DOMAIN h.ts \union {p} /\ DOMAIN seen.count = DOMAIN h.ts \union {p}
      /\ \A q \in DOMAIN h.ts \union {p} :
           /\ seen.ts[q] = IF q = p THEN t ELSE h.ts[q]
           /\ seen.count[q] = IF q = p THEN count ELSE h.count[q]
  BY <1>1 DEF Coherent
<1> HIDE DEF seen
<1>8. Coherent(seen)
  <2>1. ASSUME NEW q \in DOMAIN seen.ts
        PROVE  \E i \in DOMAIN seen.queue : seen.queue[i] = [post |-> q, at |-> seen.ts[q]]
    <3>1. CASE q = p
      <4>1. seen.ts[q] = t /\ Len(h.queue) + 1 \in DOMAIN seen.queue
        BY <1>5, <1>6, <1>7, <3>1
      <4> QED BY <1>6, <3>1, <4>1
    <3>2. CASE q # p
      <4>1. q \in DOMAIN h.ts /\ seen.ts[q] = h.ts[q]
        BY <1>7, <2>1, <3>2
      <4>2. PICK i \in 1..Len(h.queue) : h.queue[i] = [post |-> q, at |-> h.ts[q]]
        BY <1>1, <1>5, <4>1 DEF Coherent, Remembers
      <4>3. i \in DOMAIN seen.queue /\ seen.queue[i] = h.queue[i]
        BY <1>5, <1>6, <4>2
      <4> QED BY <4>1, <4>2, <4>3
    <3> QED BY <3>1, <3>2
  <2>2. \A q \in DOMAIN seen.count : seen.count[q] \in 1..MaxCount
    BY <1>1, <1>3, <1>7 DEF Coherent
  <2>3. \A q \in DOMAIN seen.ts : seen.ts[q] \in Nat
    BY <1>1, <1>7 DEF Coherent
  <2>4. seen.ids \subseteq Posts /\ DOMAIN seen.ts \subseteq seen.ids /\ DOMAIN seen.count = DOMAIN seen.ts
    BY <1>1, <1>7 DEF Coherent
  <2> QED BY <1>6, <2>1, <2>2, <2>3, <2>4 DEF Coherent, Remembers
<1>9. CASE Len(seen.queue) > MaxHistory
  <2>1. 1 \in 0..Len(seen.queue)
    BY <1>5, <1>6
  <2>2. Coherent(PopOldest(seen, 1)) /\ Len(PopOldest(seen, 1).queue) = Len(seen.queue) - 1
    BY <1>8, <2>1, PopOldestLists
  <2>3. Len(PopOldest(seen, 1).queue) <= MaxHistory
    BY <1>1, <1>2, <1>5, <1>6, <2>2
  <2> QED BY <1>4, <1>9, <2>2, <2>3, GoodIsCoherent
<1>10. CASE ~(Len(seen.queue) > MaxHistory)
  <2>1. Len(seen.queue) <= MaxHistory
    BY <1>2, <1>5, <1>6, <1>10
  <2> QED BY <1>4, <1>8, <1>10, <2>1, GoodIsCoherent
<1> QED BY <1>9, <1>10

LEMMA RecordImpressionsKeep ==
  ASSUME NEW h, GoodHistory(h), NEW page \in Seq(Posts), NEW t \in Nat
  PROVE  GoodHistory(RecordImpressions(h, page, t))
<1> DEFINE IsAfter(f, n) ==
             f = [i \in 0..n |-> IF i = 0 THEN h ELSE RecordImpression(f[i - 1], page[i], t)]
           l == Len(page)
           S == {n \in 0..l : \E f : IsAfter(f, n)}
<1>1. l \in Nat /\ \A i \in 1..l : page[i] \in Posts
  BY LenProperties, ElementOfSeq
<1> HIDE DEF l
<1>2. 0 \in S
  <2> DEFINE g == [i \in 0..0 |-> h]
  <2>1. IsAfter(g, 0)
    OBVIOUS
  <2>2. 0 \in 0..l
    BY <1>1
  <2> HIDE DEF IsAfter, g
  <2> QED BY <2>1, <2>2
<1>3. ASSUME NEW n \in 0..(l - 1), n \in S PROVE n + 1 \in S
  <2>1. PICK f : IsAfter(f, n)
    BY <1>3
  <2> DEFINE g == [i \in 0..(n + 1) |-> IF i = n + 1 THEN RecordImpression(f[n], page[n + 1], t) ELSE f[i]]
  <2>2. n \in Nat /\ n + 1 \in 0..l /\ n \in 0..n
    BY <1>1
  <2>3. \A i \in 0..n : f[i] = IF i = 0 THEN h ELSE RecordImpression(f[i - 1], page[i], t)
    BY <2>1
  <2>4. \A i \in 0..(n + 1) : g[i] = IF i = 0 THEN h ELSE RecordImpression(g[i - 1], page[i], t)
    <3> TAKE i \in 0..(n + 1)
    <3>1. CASE i = n + 1
      <4>1. i # 0 /\ i - 1 = n /\ n \in 0..(n + 1) /\ n # n + 1
        BY <2>2, <3>1
      <4>2. g[n] = f[n] /\ g[i] = RecordImpression(f[n], page[i], t)
        BY <3>1, <4>1
      <4> QED BY <4>1, <4>2
    <3>2. CASE i # n + 1
      <4>1. i \in 0..n /\ g[i] = f[i]
        BY <2>2, <3>2
      <4>2. i # 0 => i - 1 \in 0..(n + 1) /\ i - 1 # n + 1 /\ g[i - 1] = f[i - 1]
        BY <2>2, <4>1
      <4> QED BY <2>3, <4>1, <4>2
    <3> QED BY <3>1, <3>2
  <2>5. IsAfter(g, n + 1)
    BY <2>4
  <2> HIDE DEF IsAfter, g
  <2> QED BY <2>2, <2>5
<1>4. l \in S
  <2> HIDE DEF S
  <2>1. \A i \in 0..l : i \in S
    BY <1>1, <1>2, <1>3, UpTo
  <2> QED BY <1>1, <2>1
<1>5. PICK after : IsAfter(after, l)
  BY <1>4
<1> DEFINE a == CHOOSE f : IsAfter(f, l)
<1>6. IsAfter(a, l)
  <2> HIDE DEF IsAfter
  <2> QED BY <1>5
<1>7. RecordImpressions(h, page, t) = a[l]
  BY DEF RecordImpressions, l
<1> HIDE DEF a
<1>8. \A i \in 0..l : a[i] = IF i = 0 THEN h ELSE RecordImpression(a[i - 1], page[i], t)
  BY <1>6
<1> HIDE DEF IsAfter
<1> DEFINE U == {i \in 0..l : GoodHistory(a[i])}
<1>9. 0 \in U
  BY <1>1, <1>8
<1>10. ASSUME NEW i \in 0..(l - 1), i \in U PROVE i + 1 \in U
  <2>1. i + 1 \in 0..l /\ i + 1 # 0 /\ (i + 1) - 1 = i /\ page[i + 1] \in Posts
    BY <1>1
  <2>2. a[i + 1] = RecordImpression(a[i], page[i + 1], t)
    BY <1>8, <2>1
  <2>3. GoodHistory(a[i + 1])
    BY <1>10, <2>1, <2>2, RecordImpressionKeeps
  <2> QED BY <2>1, <2>3
<1>11. l \in U
  <2> HIDE DEF U
  <2>1. \A i \in 0..l : i \in U
    BY <1>1, <1>9, <1>10, UpTo
  <2> QED BY <1>1, <2>1
<1> QED BY <1>7, <1>11

LEMMA NoHistoryGood == GoodHistory(NoHistory)
<1>1. MaxHistory \in Nat
  BY FeedPagingAssumption
<1>2. <<>> \in Seq(Impressions) /\ Len(<<>>) = 0
  BY EmptySeq
<1>3. NoHistory.ids = {} /\ NoHistory.ts = <<>> /\ NoHistory.count = <<>> /\ NoHistory.queue = <<>>
  BY DEF NoHistory
<1>4. DOMAIN <<>> = {}
  OBVIOUS
<1>5. Len(NoHistory.queue) <= MaxHistory
  BY <1>1, <1>2, <1>3
<1>6. Coherent(NoHistory)
  <2>1. DOMAIN NoHistory.ts = {} /\ DOMAIN NoHistory.count = {}
    BY <1>3, <1>4
  <2>2. NoHistory.queue \in Seq(Impressions)
    BY <1>2, <1>3
  <2> QED BY <1>3, <2>1, <2>2 DEF Coherent, Remembers
<1> QED BY <1>5, <1>6, GoodIsCoherent

(* k tires of p as h does.                                                 *)
SameFatigue(h, k, p) ==
  /\ p \in DOMAIN h.ts <=> p \in DOMAIN k.ts
  /\ p \in DOMAIN h.ts => k.ts[p] = h.ts[p] /\ k.count[p] = h.count[p]

LEMMA SamePenalty ==
  ASSUME NEW h, GoodHistory(h), NEW k, GoodHistory(k), NEW p, NEW t,
         SameFatigue(h, k, p) \/ (~Fatigued(h, p, t) /\ ~Fatigued(k, p, t))
  PROVE  Penalty(k, p, t) = Penalty(h, p, t)
<1>1. CASE ~Fatigued(h, p, t) /\ ~Fatigued(k, p, t)
  BY <1>1 DEF Penalty
<1>2. CASE SameFatigue(h, k, p)
  <2>1. DOMAIN h.ts \subseteq h.ids /\ DOMAIN k.ts \subseteq k.ids
    BY DEF GoodHistory, HistoryOK
  <2>2. Fatigued(k, p, t) <=> Fatigued(h, p, t)
    BY <1>2, <2>1 DEF Fatigued, SameFatigue
  <2>3. Fatigued(h, p, t) => k.ts[p] = h.ts[p] /\ k.count[p] = h.count[p]
    BY <1>2 DEF Fatigued, SameFatigue
  <2> QED BY <2>2, <2>3 DEF Penalty
<1> QED BY <1>1, <1>2

(* Pruning forgets only what is older than the cutoff.                     *)
LEMMA PruneKeeps ==
  ASSUME NEW h, GoodHistory(h), NEW cutoff \in Nat
  PROVE  LET k == PruneOlderThan(h, cutoff)
         IN /\ GoodHistory(k)
            /\ DOMAIN k.ts \subseteq DOMAIN h.ts
            /\ \A p \in DOMAIN k.ts : k.ts[p] = h.ts[p]
            /\ \A p \in DOMAIN h.ts : SameFatigue(h, k, p) \/ h.ts[p] < cutoff
<1> DEFINE l == Len(h.queue)
           ends == {i \in 1..(l + 1) : i = l + 1 \/ h.queue[i].at >= cutoff}
           old == Min(ends) - 1
           k == PruneOlderThan(h, cutoff)
<1>1. Coherent(h) /\ l \in Nat /\ l <= MaxHistory /\ \A i \in 1..l : h.queue[i] \in Impressions
  BY GoodIsCoherent, QueueOf
<1>2. k = PopOldest(h, old)
  BY DEF PruneOlderThan
<1> HIDE DEF l
<1>3. ends \in SUBSET Nat /\ ends \in SUBSET (1..(l + 1)) /\ ends # {}
  BY <1>1
<1>4. IsFiniteSet(ends)
  <2>1. IsFiniteSet(1..(l + 1))
    BY <1>1, FS_Interval
  <2> QED BY <1>3, <2>1, FS_Subset
<1>5. Min(ends) \in ends /\ \A i \in ends : Min(ends) <= i
  <2> HIDE DEF ends
  <2> QED BY <1>3, <1>4, MinOf
<1>6. old \in 0..l
  <2>1. Min(ends) \in 1..(l + 1)
    BY <1>5
  <2> QED BY <1>1, <2>1
<1>7. ASSUME NEW i \in 1..old PROVE h.queue[i].at < cutoff
  <2>1. i \in 1..l /\ i < Min(ends) /\ i # l + 1
    BY <1>1, <1>3, <1>5, <1>6
  <2>2. i \notin ends
    BY <1>3, <1>5, <2>1
  <2>3. ~(h.queue[i].at >= cutoff)
    BY <1>1, <2>1, <2>2
  <2>4. h.queue[i].at \in Nat
    BY <1>1, <2>1 DEF Impressions
  <2> QED BY <2>3, <2>4
<1> HIDE DEF old, k
<1>8. /\ Coherent(k) /\ Len(k.queue) = l - old
      /\ DOMAIN k.ts \subseteq DOMAIN h.ts
      /\ \A p \in DOMAIN k.ts : k.ts[p] = h.ts[p] /\ k.count[p] = h.count[p]
      /\ \A p \in DOMAIN h.ts \ DOMAIN k.ts :
           \E i \in 1..old : h.queue[i].post = p /\ h.ts[p] <= h.queue[i].at
  BY <1>1, <1>2, <1>6, PopOldestLists DEF l
<1>9. Len(k.queue) <= MaxHistory
  <2>1. MaxHistory \in Nat
    BY FeedPagingAssumption
  <2> QED BY <1>1, <1>6, <1>8, <2>1
<1>10. ASSUME NEW p \in DOMAIN h.ts PROVE SameFatigue(h, k, p) \/ h.ts[p] < cutoff
  <2>1. CASE p \in DOMAIN k.ts
    BY <1>8, <2>1 DEF SameFatigue
  <2>2. CASE p \notin DOMAIN k.ts
    <3>1. PICK i \in 1..old : h.queue[i].post = p /\ h.ts[p] <= h.queue[i].at
      BY <1>8, <2>2
    <3>2. i \in 1..l /\ h.queue[i].at \in Nat /\ h.ts[p] \in Nat
      BY <1>1, <1>6 DEF Impressions, Coherent
    <3>3. h.queue[i].at < cutoff
      BY <1>7
    <3>4. h.ts[p] < cutoff
      BY <3>1, <3>2, <3>3
    <3> QED BY <3>4
  <2> QED BY <2>1, <2>2
<1> QED BY <1>8, <1>9, <1>10, GoodIsCoherent DEF k

(* Compaction keeps what is queued of the posts it keeps.                  *)
LEMMA CompactKeeps ==
  ASSUME NEW h, GoodHistory(h), NEW kept
  PROVE  LET k == CompactHistory(h, kept)
         IN /\ GoodHistory(k) /\ DOMAIN k.ts \subseteq DOMAIN h.ts
            /\ \A p \in kept : SameFatigue(h, k, p)
<1> DEFINE l == Len(h.queue)
           I == {i \in DOMAIN h.queue : h.queue[i].post \in kept}
           q == Pick(h.queue, I)
           ids == {q[i].post : i \in DOMAIN q}
           k == CompactHistory(h, kept)
<1>1. Coherent(h) /\ l \in Nat /\ l <= MaxHistory
      /\ DOMAIN h.queue = 1..l /\ \A i \in 1..l : h.queue[i] \in Impressions
  BY GoodIsCoherent, QueueOf
<1>2. k.ids = ids /\ k.ts = [p \in DOMAIN h.ts \intersect ids |-> h.ts[p]]
      /\ k.count = [p \in DOMAIN h.count \intersect ids |-> h.count[p]] /\ k.queue = q
  BY DEF CompactHistory
<1> HIDE DEF k
<1>3. h.queue \in Seq(Impressions) /\ I \in SUBSET DOMAIN h.queue
  BY <1>1 DEF Coherent
<1>4. \A i \in DOMAIN h.queue : i \in I <=> h.queue[i].post \in kept
  OBVIOUS
<1> HIDE DEF I, q
<1>5. /\ Cardinality(I) \in Nat /\ Cardinality(I) <= l
      /\ q \in Seq(Impressions) /\ Len(q) = Cardinality(I) /\ DOMAIN q = 1..Cardinality(I)
      /\ \A n \in 1..Cardinality(I) : Positions(I)[n] \in I /\ q[n] = h.queue[Positions(I)[n]]
      /\ \A i \in I : \E n \in 1..Cardinality(I) : q[n] = h.queue[i]
  BY <1>3, PickLists DEF q
<1>6. \A n \in DOMAIN q : q[n] \in Impressions
  BY <1>5, ElementOfSeq
<1>7. ids \subseteq Posts /\ ids \subseteq kept
  <2>1. ASSUME NEW n \in DOMAIN q PROVE q[n].post \in Posts /\ q[n].post \in kept
    <3>1. q[n].post \in Posts
      BY <1>6 DEF Impressions
    <3>2. Positions(I)[n] \in I /\ q[n] = h.queue[Positions(I)[n]]
      BY <1>5
    <3>3. h.queue[Positions(I)[n]].post \in kept
      BY <1>3, <1>4, <3>2
    <3> QED BY <3>1, <3>2, <3>3
  <2> QED BY <2>1
<1>8. ASSUME NEW p \in DOMAIN h.ts, p \in kept
      PROVE  \E n \in DOMAIN q : q[n] = [post |-> p, at |-> h.ts[p]]
  <2>1. PICK i \in DOMAIN h.queue : h.queue[i] = [post |-> p, at |-> h.ts[p]]
    BY <1>1 DEF Coherent, Remembers
  <2>2. i \in I
    BY <1>4, <1>8, <2>1
  <2> QED BY <1>5, <2>1, <2>2
<1>9. \A p \in DOMAIN h.ts : p \in kept => p \in ids
  BY <1>8
<1> HIDE DEF ids
<1>10. DOMAIN k.ts = DOMAIN h.ts \intersect ids /\ DOMAIN k.count = DOMAIN h.ts \intersect ids
       /\ \A p \in DOMAIN h.ts \intersect ids : k.ts[p] = h.ts[p] /\ k.count[p] = h.count[p]
  BY <1>1, <1>2 DEF Coherent
<1>11. Coherent(k)
  <2>1. ASSUME NEW p \in DOMAIN k.ts
        PROVE  \E n \in DOMAIN k.queue : k.queue[n] = [post |-> p, at |-> k.ts[p]]
    <3>1. p \in DOMAIN h.ts /\ p \in kept /\ k.ts[p] = h.ts[p]
      BY <1>7, <1>10
    <3> QED BY <1>2, <1>8, <3>1
  <2>2. \A p \in DOMAIN k.count : k.count[p] \in 1..MaxCount
    BY <1>1, <1>10 DEF Coherent
  <2>3. \A p \in DOMAIN k.ts : k.ts[p] \in Nat
    BY <1>1, <1>10 DEF Coherent
  <2>4. k.ids \subseteq Posts /\ DOMAIN k.ts \subseteq k.ids /\ DOMAIN k.count = DOMAIN k.ts
    BY <1>2, <1>7, <1>10
  <2>5. k.queue \in Seq(Impressions)
    BY <1>2, <1>5
  <2> QED BY <2>1, <2>2, <2>3, <2>4, <2>5 DEF Coherent, Remembers
<1>12. Len(k.queue) <= MaxHistory
  <2>1. MaxHistory \in Nat /\ Len(k.queue) = Cardinality(I)
    BY <1>2, <1>5, FeedPagingAssumption
  <2> HIDE DEF l
  <2> QED BY <1>1, <1>5, <2>1
<1>13. \A p \in kept : SameFatigue(h, k, p)
  BY <1>9, <1>10 DEF SameFatigue
<1>14. GoodHistory(k)
  BY <1>11, <1>12, GoodIsCoherent
<1> QED BY <1>10, <1>13, <1>14 DEF k

(* A snapshot keeps the fatigue of every post.                             *)
LEMMA RestoredKeeps ==
  ASSUME NEW h, GoodHistory(h)
  PROVE  GoodHistory(Restored(h)) /\ \A p : SameFatigue(h, Restored(h), p)
<1> DEFINE D == DOMAIN h.ts
           R == OldestFirst(h, D)
           order == Sorted(D, R)
           q == [i \in DOMAIN order |-> [post |-> order[i], at |-> h.ts[order[i]]]]
           k == Restored(h)
<1>1. Coherent(h) /\ Len(h.queue) <= MaxHistory /\ Len(h.queue) \in Nat
      /\ DOMAIN h.queue = 1..Len(h.queue)
  BY GoodIsCoherent, QueueOf
<1>2. D \in SUBSET Posts /\ h.ids \intersect DOMAIN h.ts = D /\ DOMAIN h.count = D
      /\ \A p \in D : h.ts[p] \in Nat /\ h.count[p] \in 1..MaxCount
  BY <1>1 DEF Coherent
<1>3. k.ids = D /\ k.ts = [p \in D |-> h.ts[p]] /\ k.count = [p \in D |-> h.count[p]] /\ k.queue = q
  BY <1>2 DEF Restored
<1> HIDE DEF k, D
<1>4. IsFiniteSet(D) /\ Cardinality(D) \in Nat /\ D \subseteq Nat
  BY <1>2, PostSets, PostsFinite
<1>5. Orders(R, D)
  <2>1. \A a, b \in D : <<a, b>> \in R <=> h.ts[a] < h.ts[b] \/ (h.ts[a] = h.ts[b] /\ a < b)
    BY DEF OldestFirst
  <2>2. \A a \in D : a \in Nat /\ h.ts[a] \in Nat
    BY <1>2, <1>4
  <2> HIDE DEF R
  <2>3. \A a \in D : <<a, a>> \notin R
    BY <2>1, <2>2
  <2>4. \A a, b \in D : a # b => <<a, b>> \in R \/ <<b, a>> \in R
    BY <2>1, <2>2
  <2>5. ASSUME NEW a \in D, NEW b \in D, NEW c \in D, <<a, b>> \in R, <<b, c>> \in R
        PROVE  <<a, c>> \in R
    <3>1. h.ts[a] < h.ts[b] \/ (h.ts[a] = h.ts[b] /\ a < b)
      BY <2>1, <2>5
    <3>2. h.ts[b] < h.ts[c] \/ (h.ts[b] = h.ts[c] /\ b < c)
      BY <2>1, <2>5
    <3>3. h.ts[a] < h.ts[c] \/ (h.ts[a] = h.ts[c] /\ a < c)
      BY <2>2, <3>1, <3>2
    <3> QED BY <2>1, <3>3
  <2> QED BY <2>3, <2>4, <2>5 DEF Orders
<1> HIDE DEF R
<1>6. /\ DOMAIN order = 1..Cardinality(D)
      /\ \A i \in 1..Cardinality(D) : order[i] \in D
      /\ \A p \in D : \E i \in 1..Cardinality(D) : order[i] = p
  BY <1>4, <1>5, SortedLists
<1> HIDE DEF order
<1>7. q \in Seq(Impressions) /\ Len(q) = Cardinality(D) /\ DOMAIN q = 1..Cardinality(D)
      /\ \A i \in 1..Cardinality(D) : q[i] = [post |-> order[i], at |-> h.ts[order[i]]]
  <2>1. \A i \in 1..Cardinality(D) : [post |-> order[i], at |-> h.ts[order[i]]] \in Impressions
    BY <1>2, <1>6 DEF Impressions
  <2>2. q \in [1..Cardinality(D) -> Impressions]
    BY <1>6, <2>1
  <2>3. q \in Seq(Impressions)
    BY <1>4, <2>2, SeqDef
  <2> QED BY <1>4, <1>6, <2>3, LenProperties
<1> HIDE DEF q
<1>8. Cardinality(D) <= Len(h.queue)
  <2> DEFINE at == [p \in D |-> CHOOSE i \in 1..Len(h.queue) : h.queue[i] = [post |-> p, at |-> h.ts[p]]]
  <2>1. \A p \in D : at[p] \in 1..Len(h.queue) /\ h.queue[at[p]] = [post |-> p, at |-> h.ts[p]]
    <3>1. \A p \in D : \E i \in 1..Len(h.queue) : h.queue[i] = [post |-> p, at |-> h.ts[p]]
      BY <1>1 DEF Coherent, Remembers, D
    <3> QED BY <3>1
  <2>2. at \in [D -> 1..Len(h.queue)]
    <3>1. at = [p \in D |-> at[p]]
      OBVIOUS
    <3> HIDE DEF at
    <3> QED BY <2>1, <3>1
  <2> HIDE DEF at
  <2>3. \A x, y \in D : at[x] = at[y] => x = y
    <3> SUFFICES ASSUME NEW x \in D, NEW y \in D, at[x] = at[y] PROVE x = y
      OBVIOUS
    <3>1. [post |-> x, at |-> h.ts[x]] = [post |-> y, at |-> h.ts[y]]
      BY <2>1
    <3> QED BY <3>1
  <2>4. at \in Injection(D, 1..Len(h.queue))
    BY <2>2, <2>3 DEF Injection, IsInjective
  <2>5. IsFiniteSet(1..Len(h.queue)) /\ Cardinality(1..Len(h.queue)) = Len(h.queue)
    <3>1. IsFiniteSet(1..Len(h.queue))
          /\ Cardinality(1..Len(h.queue)) = IF 1 > Len(h.queue) THEN 0 ELSE Len(h.queue) - 1 + 1
      BY <1>1, FS_Interval
    <3> QED BY <1>1, <3>1
  <2>6. Cardinality(D) <= Cardinality(1..Len(h.queue))
    BY <2>4, <2>5, FS_Injection
  <2> QED BY <2>5, <2>6
<1>9. DOMAIN k.ts = D /\ DOMAIN k.count = D /\ \A p \in D : k.ts[p] = h.ts[p] /\ k.count[p] = h.count[p]
  BY <1>3
<1>10. Coherent(k)
  <2>1. ASSUME NEW p \in DOMAIN k.ts
        PROVE  \E i \in DOMAIN k.queue : k.queue[i] = [post |-> p, at |-> k.ts[p]]
    BY <1>3, <1>6, <1>7, <1>9
  <2>2. \A p \in DOMAIN k.count : k.count[p] \in 1..MaxCount
    BY <1>2, <1>9
  <2>3. \A p \in DOMAIN k.ts : k.ts[p] \in Nat
    BY <1>2, <1>9
  <2>4. k.ids \subseteq Posts /\ DOMAIN k.ts \subseteq k.ids /\ DOMAIN k.count = DOMAIN k.ts
    BY <1>2, <1>3, <1>9
  <2>5. k.queue \in Seq(Impressions)
    BY <1>3, <1>7
  <2> QED BY <2>1, <2>2, <2>3, <2>4, <2>5 DEF Coherent, Remembers
<1>11. Len(k.queue) <= MaxHistory
  <2>1. MaxHistory \in Nat /\ Len(k.queue) = Cardinality(D)
    BY <1>3, <1>7, FeedPagingAssumption
  <2> QED BY <1>1, <1>4, <1>8, <2>1
<1>12. \A p : SameFatigue(h, k, p)
  BY <1>9 DEF SameFatigue, D
<1> QED BY <1>10, <1>11, <1>12, GoodIsCoherent DEF k

(***************************************************************************)
(* Part two.  The inductive invariant.                                     *)
(***************************************************************************)

LEMMA IdleRequest ==
  ASSUME NEW r \in Requests, NEW c \in Nat
  PROVE  /\ Idle \in Requests /\ Idle.phase = "idle" /\ ~Idle.uid /\ Idle.at = 0 /\ ~Idle.firstUid
         /\ Answered(r, c) \in Requests
         /\ Answered(r, c).phase = "idle" /\ ~Answered(r, c).uid /\ Answered(r, c).at = 0
         /\ Answered(r, c).cursor = c /\ Answered(r, c).first = r.first
         /\ Answered(r, c).firstAt = r.firstAt /\ Answered(r, c).firstUid = r.firstUid
<1>1. <<>> \in Seq(Posts) /\ DefaultDials \in Dials
  BY EmptySeq, FeedPagingAssumption
<1>2. Idle \in Requests /\ Idle.phase = "idle" /\ ~Idle.uid /\ Idle.at = 0 /\ ~Idle.firstUid
  BY <1>1 DEF Idle, Requests
<1>3. r.requests \in Nat /\ r.first \in Seq(Posts) /\ r.firstAt \in Nat /\ r.firstUid \in BOOLEAN
  BY DEF Requests
<1> DEFINE i == Idle
           a == [i EXCEPT !.cursor = c, !.requests = r.requests, !.first = r.first,
                          !.firstAt = r.firstAt, !.firstUid = r.firstUid]
<1>4. Answered(r, c) = a
  BY DEF Answered
<1> HIDE DEF i
<1>5. i \in Requests /\ i.phase = "idle" /\ ~i.uid /\ i.at = 0
  BY <1>2 DEF i
<1>6. a \in Requests
  BY <1>3, <1>5 DEF Requests
<1>7. a.phase = "idle" /\ ~a.uid /\ a.at = 0 /\ a.cursor = c /\ a.first = r.first
      /\ a.firstAt = r.firstAt /\ a.firstUid = r.firstUid
  BY <1>5 DEF Requests
<1> HIDE DEF a
<1> QED BY <1>2, <1>4, <1>6, <1>7

LEMMA Starts == Init => Inv
<1> SUFFICES ASSUME Init PROVE Inv
  OBVIOUS
<1>1. Idle \in Requests /\ Idle.phase = "idle" /\ ~Idle.uid /\ Idle.at = 0 /\ ~Idle.firstUid
  <2>1. <<>> \in Seq(Posts) /\ DefaultDials \in Dials
    BY EmptySeq, FeedPagingAssumption
  <2> QED BY <2>1 DEF Idle, Requests
<1>2. DOMAIN sessions = {}
  <2>1. DOMAIN <<>> = {}
    OBVIOUS
  <2> QED BY <2>1 DEF Init
<1>3. GraphTyped
  <2>1. MaxNow \in Nat /\ MaxEvents \in Nat /\ DefaultDials \in Dials
        /\ Owners \subseteq [Devices -> Viewers \union {Anonymous}]
    BY FeedPagingAssumption
  <2>2. /\ now \in 0..MaxNow /\ events \in 0..MaxEvents
        /\ owner \in [Devices -> Viewers \union {Anonymous}]
    BY <2>1 DEF Init
  <2>3. /\ known \subseteq Viewers /\ published \subseteq Posts
        /\ likes \in [Viewers -> SUBSET Posts] /\ blocked \in [Viewers -> SUBSET Accounts]
        /\ prefs \in [Viewers -> Dials] /\ calm \in [Devices -> BOOLEAN]
    BY <2>1 DEF Init
  <2>4. hiddenAt \in [Viewers -> [Posts -> 0..(MaxNow + 1)]]
    <3>1. MaxNow + 1 \in 0..(MaxNow + 1)
      BY <2>1
    <3>2. [p \in Posts |-> MaxNow + 1] \in [Posts -> 0..(MaxNow + 1)]
      BY <3>1
    <3> QED BY <3>2 DEF Init
  <2> QED BY <2>2, <2>3, <2>4 DEF GraphTyped
<1>4. HistoriesGood
  BY NoHistoryGood DEF Init, HistoriesGood
<1>5. SessionsTyped
  BY <1>2 DEF SessionsTyped
<1>6. dev \in [Devices -> Requests] /\ \A d \in Devices : dev[d] = Idle /\ ~calm[d]
  BY <1>1 DEF Init
<1>7. SessionsBounded
  <2>1. Cardinality({}) = 0 /\ IsFiniteSet({}) /\ MaxSessions \in Nat
    BY FS_EmptySet, FeedPagingAssumption
  <2> QED BY <1>2, <2>1 DEF SessionsBounded
<1>8. ASSUME NEW d \in Devices PROVE RequestOK(d) /\ ScrollHeld(d) /\ RequestVisible(d)
  <2>1. 0 <= now
    BY <1>3 DEF GraphTyped
  <2> QED BY <1>1, <1>6, <2>1 DEF RequestOK, ScrollHeld, RequestVisible
<1>9. HiddenTracked
  BY DEF Init, HiddenTracked
<1> QED BY <1>2, <1>3, <1>4, <1>5, <1>6, <1>7, <1>8, <1>9 DEF Inv, Typed

(***************************************************************************)
(* Frames: what an action that leaves a part alone keeps of it.            *)
(***************************************************************************)

LEMMA RequestFrame ==
  ASSUME NEW d, RequestOK(d), now \in Nat, now' \in Nat, dev[d].at \in Nat,
         dev'[d] = dev[d], now <= now', owner' = owner
  PROVE  RequestOK(d)'
BY DEF RequestOK, Named

LEMMA ScrollFrame ==
  ASSUME NEW d, ScrollHeld(d), now \in Nat, now' \in Nat, dev[d].firstAt \in Nat,
         dev'[d] = dev[d], now <= now', owner' = owner, calm'[d] => calm[d],
         calm[d] /\ calm'[d] /\ owner[d] \in known => owner[d] \in known',
         calm[d] /\ calm'[d] /\ Held(d) => Held(d)' \/ dev[d].firstAt + TTL < now'
  PROVE  ScrollHeld(d)'
<1> SUFFICES ASSUME calm'[d] PROVE ScrollHeld(d)'
  BY DEF ScrollHeld
<1>1. calm[d] /\ owner'[d] \in known'
  BY DEF ScrollHeld
<1>2. dev[d].firstUid /\ dev[d].phase # "cache" => dev[d].firstAt + TTL < now' \/ Held(d)'
  <2>1. dev[d].firstUid /\ dev[d].phase # "cache" => dev[d].firstAt + TTL < now \/ Held(d)
    BY <1>1 DEF ScrollHeld
  <2>2. TTL \in Nat
    BY FeedPagingAssumption
  <2>3. dev[d].firstAt + TTL < now => dev[d].firstAt + TTL < now'
    BY <2>2
  <2> QED BY <1>1, <2>1, <2>3
<1>3. Continues(d)' <=> Continues(d)
  BY DEF Continues
<1> QED BY <1>1, <1>2, <1>3 DEF ScrollHeld

(* Nothing becomes visible again, and what hides a post does so now.       *)
HiddenLater ==
  /\ hiddenAt \in [Viewers -> [Posts -> 0..(MaxNow + 1)]]
  /\ hiddenAt' \in [Viewers -> [Posts -> 0..(MaxNow + 1)]]
  /\ \A v \in Viewers : \A p \in Posts : hiddenAt'[v][p] = hiddenAt[v][p] \/ hiddenAt'[v][p] >= now

LEMMA RequestVisibleFrame ==
  ASSUME NEW d, RequestVisible(d), RequestOK(d), HiddenLater, dev[d] \in Requests,
         now \in Nat, owner[d] \in Viewers \union {Anonymous},
         dev'[d] = dev[d], owner' = owner
  PROVE  RequestVisible(d)'
<1> SUFFICES ASSUME dev[d].uid, dev[d].phase \in {"cache", "record"} PROVE RequestVisible(d)'
  BY DEF RequestVisible
<1>1. owner[d] \in Viewers
  BY DEF RequestOK, Named
<1>2. TTL \in Nat /\ MaxNow \in Nat
  BY FeedPagingAssumption
<1>3. dev[d].at \in Nat /\ dev[d].page \in Seq(Posts) /\ dev[d].list \in Seq(Posts)
      /\ dev[d].at <= now
  BY DEF Requests, RequestOK
<1>4. /\ \A i \in DOMAIN dev[d].page : dev[d].page[i] \in Posts
      /\ \A i \in DOMAIN dev[d].list : dev[d].list[i] \in Posts
  BY <1>3, ElementOfSeq
<1>5. \A p \in Posts : /\ hiddenAt[owner[d]][p] \in Nat /\ hiddenAt'[owner[d]][p] \in Nat
                       /\ hiddenAt'[owner[d]][p] = hiddenAt[owner[d]][p] \/ hiddenAt'[owner[d]][p] >= now
  BY <1>1, <1>2 DEF HiddenLater
<1>6. ASSUME NEW i \in DOMAIN dev[d].page
      PROVE  dev[d].at <= hiddenAt'[owner[d]][dev[d].page[i]] + TTL
  <2> DEFINE p == dev[d].page[i]
  <2>1. p \in Posts /\ dev[d].at <= hiddenAt[owner[d]][p] + TTL
    BY <1>4 DEF RequestVisible
  <2> HIDE DEF p
  <2>2. dev[d].at <= hiddenAt'[owner[d]][p] + TTL
    BY <1>2, <1>3, <1>5, <2>1
  <2> QED BY <2>2 DEF p
<1>7. ASSUME dev[d].phase = "cache", NEW i \in DOMAIN dev[d].list
      PROVE  dev[d].at <= hiddenAt'[owner[d]][dev[d].list[i]]
  <2> DEFINE p == dev[d].list[i]
  <2>1. p \in Posts /\ dev[d].at <= hiddenAt[owner[d]][p]
    BY <1>4, <1>7 DEF RequestVisible
  <2> HIDE DEF p
  <2>2. dev[d].at <= hiddenAt'[owner[d]][p]
    BY <1>3, <1>5, <2>1
  <2> QED BY <2>2 DEF p
<1> QED BY <1>6, <1>7 DEF RequestVisible

LEMMA SessionVisibleFrame ==
  ASSUME NEW v \in Viewers, SessionVisible(v), HiddenLater, sessions[v] \in Sessions,
         now \in Nat, now' \in Nat, now <= now',
         sessions'[v].posts = sessions[v].posts, sessions'[v].created = sessions[v].created
  PROVE  SessionVisible(v)'
<1>1. sessions[v].created \in Nat /\ sessions[v].posts \in Seq(Posts) /\ sessions[v].created <= now
  BY DEF Sessions, SessionVisible
<1>2. \A i \in DOMAIN sessions[v].posts : sessions[v].posts[i] \in Posts
  BY <1>1, ElementOfSeq
<1>3. MaxNow \in Nat
  BY FeedPagingAssumption
<1>4. \A p \in Posts : /\ hiddenAt[v][p] \in Nat /\ hiddenAt'[v][p] \in Nat
                       /\ hiddenAt'[v][p] = hiddenAt[v][p] \/ hiddenAt'[v][p] >= now
  BY <1>3 DEF HiddenLater
<1>5. ASSUME NEW i \in DOMAIN sessions[v].posts
      PROVE  sessions[v].created <= hiddenAt'[v][sessions[v].posts[i]]
  <2> DEFINE p == sessions[v].posts[i]
  <2>1. p \in Posts /\ sessions[v].created <= hiddenAt[v][p]
    BY <1>2 DEF SessionVisible
  <2> HIDE DEF p
  <2>2. sessions[v].created <= hiddenAt'[v][p]
    BY <1>1, <1>4, <2>1
  <2> QED BY <2>2 DEF p
<1>6. sessions[v].created <= now'
  BY <1>1
<1> QED BY <1>5, <1>6 DEF SessionVisible

LEMMA SameHidden ==
  ASSUME GraphTyped, hiddenAt' = hiddenAt
  PROVE  HiddenLater
BY DEF GraphTyped, HiddenLater

LEMMA Clock == GraphTyped => now \in Nat /\ now <= MaxNow /\ MaxNow \in Nat
BY FeedPagingAssumption DEF GraphTyped

(* A viewer's id is a viewer's.                                            *)
LEMMA KnownNamed ==
  ASSUME GraphTyped, NEW d \in Devices
  PROVE  /\ owner[d] \in Viewers \union {Anonymous}
         /\ owner[d] \in known => Named(d)
         /\ Named(d) => owner[d] \in Viewers
BY FeedPagingAssumption DEF GraphTyped, Named

(***************************************************************************)
(* The firehose, the settings page and the clock: they leave histories,    *)
(* sessions and requests alone.                                            *)
(***************************************************************************)

LEMMA RequestTypes ==
  ASSUME Typed, NEW d \in Devices
  PROVE  /\ dev[d] \in Requests
         /\ dev[d].at \in Nat /\ dev[d].cursor \in Nat /\ dev[d].next \in Nat /\ dev[d].firstAt \in Nat
         /\ dev[d].dials \in Dials /\ dev[d].uid \in BOOLEAN /\ dev[d].firstUid \in BOOLEAN
         /\ dev[d].phase \in {"idle", "compose", "cache", "record"}
         /\ dev[d].page \in Seq(Posts) /\ dev[d].list \in Seq(Posts) /\ dev[d].first \in Seq(Posts)
<1>1. dev[d] \in Requests
  BY DEF Typed
<1> QED BY <1>1 DEF Requests

LEMMA SessionTypes ==
  ASSUME Typed, NEW v \in DOMAIN sessions
  PROVE  /\ v \in known /\ v \in Viewers
         /\ sessions[v] \in Sessions /\ sessions[v].posts \in Seq(Posts)
         /\ sessions[v].dials \in Dials /\ sessions[v].created \in Nat
         /\ sessions[v].has_page_impressions \in BOOLEAN
<1>1. v \in known /\ v \in Viewers /\ sessions[v] \in Sessions
  BY DEF Typed, SessionsTyped, GraphTyped
<1> QED BY <1>1 DEF Sessions

LEMMA QuietStep ==
  ASSUME Inv, GraphTyped', HiddenLater, HiddenTracked', now <= now', known \subseteq known',
         UNCHANGED <<owner, history, sessions, dev>>,
         \A d \in Devices : calm'[d] => calm[d] /\ prefs'[owner[d]] = prefs[owner[d]]
  PROVE  Inv'
<1>1. Typed /\ GraphTyped /\ now \in Nat /\ now' \in Nat
  <2>1. Typed /\ GraphTyped
    BY DEF Inv, Typed
  <2>2. MaxNow \in Nat
    BY FeedPagingAssumption
  <2> QED BY <2>1, <2>2 DEF GraphTyped
<1>2. Typed'
  <2>1. HistoriesGood'
    BY <1>1 DEF Typed, HistoriesGood
  <2>2. SessionsTyped'
    BY <1>1 DEF Typed, SessionsTyped
  <2>3. (dev \in [Devices -> Requests])'
    BY <1>1 DEF Typed
  <2> QED BY <2>1, <2>2, <2>3 DEF Typed
<1>3. SessionsBounded'
  BY DEF Inv, SessionsBounded
<1>4. ASSUME NEW d \in Devices PROVE (RequestOK(d) /\ ScrollHeld(d) /\ RequestVisible(d))'
  <2>1. RequestOK(d) /\ ScrollHeld(d) /\ RequestVisible(d)
    BY DEF Inv
  <2>2. dev[d] \in Requests /\ dev[d].at \in Nat /\ dev[d].firstAt \in Nat
        /\ owner[d] \in Viewers \union {Anonymous}
    BY <1>1, RequestTypes, KnownNamed
  <2>3. RequestOK(d)'
    BY <1>1, <2>1, <2>2, RequestFrame
  <2>4. calm'[d] /\ Held(d) => Held(d)'
    BY DEF Held
  <2>5. ScrollHeld(d)'
    BY <1>1, <2>1, <2>2, <2>4, ScrollFrame
  <2>6. RequestVisible(d)'
    BY <1>1, <2>1, <2>2, RequestVisibleFrame
  <2> QED BY <2>3, <2>5, <2>6
<1>5. ASSUME NEW v \in DOMAIN sessions PROVE SessionVisible(v)'
  <2>1. v \in Viewers /\ sessions[v] \in Sessions /\ SessionVisible(v)
    BY <1>1, SessionTypes DEF Inv
  <2> QED BY <1>1, <2>1, SessionVisibleFrame
<1> QED BY <1>2, <1>3, <1>4, <1>5 DEF Inv

LEMMA Hides ==
  ASSUME GraphTyped, NEW v \in Viewers, NEW ps
  PROVE  /\ Hide(v, ps) \in [Posts -> 0..(MaxNow + 1)]
         /\ \A p \in Posts : /\ Hide(v, ps)[p] = hiddenAt[v][p] \/ Hide(v, ps)[p] >= now
                             /\ p \notin ps => Hide(v, ps)[p] = hiddenAt[v][p]
<1>1. now \in Nat /\ now <= MaxNow /\ MaxNow \in Nat
  BY Clock
<1>2. \A p \in Posts : hiddenAt[v][p] \in 0..(MaxNow + 1)
  BY DEF GraphTyped
<1>3. ASSUME NEW p \in Posts
      PROVE  /\ Hide(v, ps)[p] \in 0..(MaxNow + 1)
             /\ Hide(v, ps)[p] = hiddenAt[v][p] \/ Hide(v, ps)[p] >= now
             /\ p \notin ps => Hide(v, ps)[p] = hiddenAt[v][p]
  <2> DEFINE a == hiddenAt[v][p]
  <2>1. a \in 0..(MaxNow + 1) /\ a \in Nat
    BY <1>1, <1>2
  <2>2. Hide(v, ps)[p] = IF p \in ps THEN Min({a, now}) ELSE a
    BY DEF Hide
  <2> HIDE DEF a
  <2>3. Min({a, now}) = IF a <= now THEN a ELSE now
    BY <1>1, <2>1, MinOfTwo
  <2>4. now \in 0..(MaxNow + 1) /\ now >= now
    BY <1>1
  <2> QED BY <2>1, <2>2, <2>3, <2>4 DEF a
<1>4. Hide(v, ps) \in [Posts -> 0..(MaxNow + 1)]
  <2>1. Hide(v, ps) = [p \in Posts |-> Hide(v, ps)[p]]
    BY DEF Hide
  <2> QED BY <1>3, <2>1
<1> QED BY <1>3, <1>4

(* One viewer's posts are hidden.                                          *)
LEMMA HidesLater ==
  ASSUME GraphTyped, NEW v \in Viewers, NEW ps,
         hiddenAt' = [hiddenAt EXCEPT ![v] = Hide(v, ps)]
  PROVE  /\ HiddenLater /\ DOMAIN hiddenAt' = Viewers
         /\ \A w \in Viewers : \A p \in Posts :
              hiddenAt'[w][p] = hiddenAt[w][p] \/ (w = v /\ p \in ps)
<1>1. hiddenAt \in [Viewers -> [Posts -> 0..(MaxNow + 1)]]
  BY DEF GraphTyped
<1> HIDE DEF Hide
<1> DEFINE k == Hide(v, ps)
<1>2. /\ k \in [Posts -> 0..(MaxNow + 1)]
      /\ \A p \in Posts : /\ k[p] = hiddenAt[v][p] \/ k[p] >= now
                          /\ p \notin ps => k[p] = hiddenAt[v][p]
  BY Hides
<1>3. hiddenAt' = [hiddenAt EXCEPT ![v] = k]
  OBVIOUS
<1> HIDE DEF k
<1> QED BY <1>1, <1>2, <1>3 DEF HiddenLater

LEMMA LikeKeeps ==
  ASSUME Inv, NEW v \in Viewers, NEW p \in Posts, Like(v, p)
  PROVE  Inv'
<1>1. GraphTyped /\ now \in Nat
  BY Clock DEF Inv, Typed
<1>2. HiddenLater /\ DOMAIN hiddenAt' = Viewers
      /\ \A w \in Viewers : \A q \in Posts :
           hiddenAt'[w][q] = hiddenAt[w][q] \/ (w = v /\ q \in {p})
  <2>1. hiddenAt' = [hiddenAt EXCEPT ![v] = Hide(v, {p})]
    BY DEF Like
  <2> QED BY <1>1, <2>1, HidesLater
<1>3. GraphTyped'
  <2>1. events' \in 0..MaxEvents
    BY <1>1, FeedPagingAssumption DEF Like, Event, GraphTyped
  <2>2. likes' \in [Viewers -> SUBSET Posts] /\ known' \subseteq Viewers
    BY <1>1 DEF Like, GraphTyped
  <2>3. now' = now /\ owner' = owner /\ published' = published /\ blocked' = blocked /\ prefs' = prefs
        /\ calm' = calm
    BY DEF Like
  <2>4. hiddenAt' \in [Viewers -> [Posts -> 0..(MaxNow + 1)]]
    BY <1>2 DEF HiddenLater
  <2> QED BY <1>1, <2>1, <2>2, <2>3, <2>4 DEF GraphTyped
<1>4. HiddenTracked'
  <2>1. ASSUME NEW w \in Viewers, NEW q \in Posts PROVE Hidden(w, q)' \/ hiddenAt'[w][q] = MaxNow + 1
    <3>1. Hidden(w, q) \/ hiddenAt[w][q] = MaxNow + 1
      BY DEF Inv, HiddenTracked
    <3>2. likes' = [likes EXCEPT ![v] = @ \union {p}] /\ published' = published /\ blocked' = blocked
          /\ likes \in [Viewers -> SUBSET Posts]
      BY <1>1 DEF Like, GraphTyped
    <3>3. Hidden(w, q) => Hidden(w, q)'
      BY <3>2 DEF Hidden
    <3>4. w = v /\ q = p => Hidden(w, q)'
      BY <3>2 DEF Hidden
    <3> QED BY <1>2, <3>1, <3>3, <3>4
  <2> QED BY <2>1 DEF HiddenTracked
<1> QED BY <1>1, <1>2, <1>3, <1>4, QuietStep DEF Like

LEMMA BlockKeeps ==
  ASSUME Inv, NEW v \in Viewers, NEW a \in Accounts, Block(v, a)
  PROVE  Inv'
<1> DEFINE ps == {p \in Posts : AuthorOf[p] = a}
<1>1. GraphTyped /\ now \in Nat
  BY Clock DEF Inv, Typed
<1>2. HiddenLater /\ DOMAIN hiddenAt' = Viewers
      /\ \A w \in Viewers : \A q \in Posts :
           hiddenAt'[w][q] = hiddenAt[w][q] \/ (w = v /\ q \in ps)
  <2>1. hiddenAt' = [hiddenAt EXCEPT ![v] = Hide(v, ps)]
    BY DEF Block
  <2> HIDE DEF ps
  <2> QED BY <1>1, <2>1, HidesLater
<1>3. GraphTyped'
  <2>1. events' \in 0..MaxEvents
    BY <1>1, FeedPagingAssumption DEF Block, Event, GraphTyped
  <2>2. blocked' \in [Viewers -> SUBSET Accounts] /\ known' \subseteq Viewers
    BY <1>1 DEF Block, GraphTyped
  <2>3. now' = now /\ owner' = owner /\ published' = published /\ likes' = likes /\ prefs' = prefs
        /\ calm' = calm
    BY DEF Block
  <2>4. hiddenAt' \in [Viewers -> [Posts -> 0..(MaxNow + 1)]]
    BY <1>2 DEF HiddenLater
  <2> QED BY <1>1, <2>1, <2>2, <2>3, <2>4 DEF GraphTyped
<1>4. HiddenTracked'
  <2>1. ASSUME NEW w \in Viewers, NEW q \in Posts PROVE Hidden(w, q)' \/ hiddenAt'[w][q] = MaxNow + 1
    <3>1. Hidden(w, q) \/ hiddenAt[w][q] = MaxNow + 1
      BY DEF Inv, HiddenTracked
    <3>2. blocked' = [blocked EXCEPT ![v] = @ \union {a}] /\ published' = published /\ likes' = likes
          /\ blocked \in [Viewers -> SUBSET Accounts]
      BY <1>1 DEF Block, GraphTyped
    <3>3. Hidden(w, q) => Hidden(w, q)'
      BY <3>2 DEF Hidden
    <3>4. w = v /\ q \in ps => Hidden(w, q)'
      BY <3>2 DEF Hidden
    <3> QED BY <1>2, <3>1, <3>3, <3>4
  <2> QED BY <2>1 DEF HiddenTracked
<1> QED BY <1>1, <1>2, <1>3, <1>4, QuietStep DEF Block

LEMMA DeletePostKeeps ==
  ASSUME Inv, NEW p \in Posts, DeletePost(p)
  PROVE  Inv'
<1>1. GraphTyped /\ now \in Nat
  BY Clock DEF Inv, Typed
<1>2. hiddenAt' = [v \in Viewers |-> Hide(v, {p})]
  BY DEF DeletePost
<1>3. \A v \in Viewers :
        /\ hiddenAt'[v] = Hide(v, {p})
        /\ Hide(v, {p}) \in [Posts -> 0..(MaxNow + 1)]
        /\ \A q \in Posts : /\ Hide(v, {p})[q] = hiddenAt[v][q] \/ Hide(v, {p})[q] >= now
                            /\ q \notin {p} => Hide(v, {p})[q] = hiddenAt[v][q]
  BY <1>1, <1>2, Hides
<1>4. hiddenAt' \in [Viewers -> [Posts -> 0..(MaxNow + 1)]]
  <2> HIDE DEF Hide
  <2> QED BY <1>2, <1>3
<1>5. HiddenLater
  <2>1. hiddenAt \in [Viewers -> [Posts -> 0..(MaxNow + 1)]]
    BY <1>1 DEF GraphTyped
  <2> QED BY <1>3, <1>4, <2>1 DEF HiddenLater
<1>6. GraphTyped'
  <2>1. events' \in 0..MaxEvents
    BY <1>1, FeedPagingAssumption DEF DeletePost, Event, GraphTyped
  <2>2. likes' \in [Viewers -> SUBSET Posts] /\ published' \subseteq Posts
    BY <1>1 DEF DeletePost, GraphTyped
  <2>3. now' = now /\ owner' = owner /\ known' = known /\ blocked' = blocked /\ prefs' = prefs
        /\ calm' = calm
    BY DEF DeletePost
  <2> QED BY <1>1, <1>4, <2>1, <2>2, <2>3 DEF GraphTyped
<1>7. HiddenTracked'
  <2>1. ASSUME NEW w \in Viewers, NEW q \in Posts PROVE Hidden(w, q)' \/ hiddenAt'[w][q] = MaxNow + 1
    <3>1. Hidden(w, q) \/ hiddenAt[w][q] = MaxNow + 1
      BY DEF Inv, HiddenTracked
    <3>2. published' = published \ {p} /\ blocked' = blocked /\ likes'[w] = likes[w] \ {p}
      BY DEF DeletePost
    <3>3. q = p => Hidden(w, q)'
      BY <3>2 DEF Hidden
    <3>4. q # p /\ Hidden(w, q) => Hidden(w, q)'
      BY <3>2 DEF Hidden
    <3>5. q # p => hiddenAt'[w][q] = hiddenAt[w][q]
      BY <1>3
    <3> QED BY <3>1, <3>3, <3>4, <3>5
  <2> QED BY <2>1 DEF HiddenTracked
<1> QED BY <1>1, <1>5, <1>6, <1>7, QuietStep DEF DeletePost

LEMMA SetPreferencesKeeps ==
  ASSUME Inv, NEW v \in Viewers, NEW x \in Dials, SetPreferences(v, x)
  PROVE  Inv'
<1>1. GraphTyped /\ now \in Nat
  BY Clock DEF Inv, Typed
<1>2. now' = now /\ owner' = owner /\ published' = published /\ likes' = likes /\ blocked' = blocked
      /\ hiddenAt' = hiddenAt
  BY DEF SetPreferences
<1>3. GraphTyped'
  <2>1. events' \in 0..MaxEvents
    BY <1>1, FeedPagingAssumption DEF SetPreferences, Event, GraphTyped
  <2>2. prefs' \in [Viewers -> Dials] /\ known' \subseteq Viewers
    BY <1>1 DEF SetPreferences, GraphTyped
  <2>3. calm' \in [Devices -> BOOLEAN]
    BY <1>1 DEF SetPreferences, GraphTyped
  <2> QED BY <1>1, <1>2, <2>1, <2>2, <2>3 DEF GraphTyped
<1>4. HiddenTracked'
  BY <1>2 DEF Inv, HiddenTracked, Hidden
<1>5. ASSUME NEW d \in Devices, calm'[d] PROVE calm[d] /\ prefs'[owner[d]] = prefs[owner[d]]
  <2>1. calm[d] /\ owner[d] # v
    BY <1>5 DEF SetPreferences
  <2>2. owner[d] \in Viewers
    BY <1>1, <2>1 DEF Inv, ScrollHeld, GraphTyped
  <2> QED BY <1>1, <2>1, <2>2 DEF SetPreferences, GraphTyped
<1> QED BY <1>1, <1>2, <1>3, <1>4, <1>5, SameHidden, QuietStep DEF SetPreferences

LEMMA TickKeeps ==
  ASSUME Inv, Tick
  PROVE  Inv'
<1>1. GraphTyped /\ now \in Nat /\ MaxNow \in Nat
  BY Clock DEF Inv, Typed
<1>2. now' \in 0..MaxNow /\ now <= now'
  BY <1>1 DEF Tick
<1>3. GraphTyped'
  BY <1>1, <1>2 DEF Tick, GraphTyped
<1>4. HiddenTracked'
  BY DEF Inv, Tick, HiddenTracked, Hidden
<1> QED BY <1>1, <1>2, <1>3, <1>4, SameHidden, QuietStep DEF Tick

(***************************************************************************)
(* The steps of a request.                                                 *)
(***************************************************************************)

LEMMA DeviceStep ==
  ASSUME Inv, NEW d \in Devices, NEW r \in Requests, dev' = [dev EXCEPT ![d] = r],
         UNCHANGED <<now, owner, published, likes, blocked, prefs, events, hiddenAt>>,
         known \subseteq known', known' \subseteq Viewers, calm' \in [Devices -> BOOLEAN],
         HistoriesGood', SessionsTyped', SessionsBounded',
         RequestOK(d)', ScrollHeld(d)', RequestVisible(d)',
         \A e \in Devices \ {d} : (calm'[e] => calm[e]) /\ (calm'[e] /\ Held(e) => Held(e)'),
         \A v \in DOMAIN sessions' : SessionVisible(v)'
  PROVE  Inv'
<1>1. Typed /\ GraphTyped /\ now \in Nat /\ dev \in [Devices -> Requests]
  BY Clock DEF Inv, Typed
<1>2. Typed'
  <2>1. GraphTyped'
    BY <1>1 DEF GraphTyped
  <2>2. dev' \in [Devices -> Requests]
    BY <1>1
  <2> QED BY <2>1, <2>2 DEF Typed
<1>3. HiddenTracked'
  BY DEF Inv, HiddenTracked, Hidden
<1>4. ASSUME NEW e \in Devices \ {d} PROVE (RequestOK(e) /\ ScrollHeld(e) /\ RequestVisible(e))'
  <2>1. dev'[e] = dev[e]
    BY <1>1
  <2>2. RequestOK(e) /\ ScrollHeld(e) /\ RequestVisible(e)
    BY DEF Inv
  <2>3. dev[e] \in Requests /\ dev[e].at \in Nat /\ dev[e].firstAt \in Nat
        /\ owner[e] \in Viewers \union {Anonymous}
    BY <1>1, RequestTypes, KnownNamed
  <2>4. HiddenLater
    BY <1>1, SameHidden
  <2>5. now' \in Nat /\ now <= now' /\ owner' = owner
    BY <1>1
  <2>6. RequestOK(e)'
    BY <1>1, <2>1, <2>2, <2>3, <2>5, RequestFrame
  <2>7. ScrollHeld(e)'
    BY <1>1, <2>1, <2>2, <2>3, <2>5, ScrollFrame
  <2>8. RequestVisible(e)'
    BY <1>1, <2>1, <2>2, <2>3, <2>4, <2>5, RequestVisibleFrame
  <2> QED BY <2>6, <2>7, <2>8
<1> QED BY <1>2, <1>3, <1>4 DEF Inv

Asked(a, u, t, c, x) ==
  [a EXCEPT !.uid = u, !.at = t, !.cursor = c, !.dials = x, !.requests = @ + 1]

LEMMA Requested ==
  ASSUME NEW a \in Requests, NEW u \in BOOLEAN, NEW t \in Nat, NEW c \in Nat, NEW x \in Dials
  PROVE  /\ Asked(a, u, t, c, x) \in Requests
         /\ Asked(a, u, t, c, x).uid = u /\ Asked(a, u, t, c, x).at = t
         /\ Asked(a, u, t, c, x).cursor = c /\ Asked(a, u, t, c, x).dials = x
         /\ Asked(a, u, t, c, x).first = a.first /\ Asked(a, u, t, c, x).firstAt = a.firstAt
         /\ Asked(a, u, t, c, x).firstUid = a.firstUid
<1> DEFINE r == Asked(a, u, t, c, x)
<1>1. a.requests + 1 \in Nat
  BY DEF Requests
<1>2. r \in Requests
  BY <1>1 DEF Asked, Requests
<1>3. r.uid = u /\ r.at = t /\ r.cursor = c /\ r.dials = x
  BY DEF Asked, Requests
<1>4. r.first = a.first /\ r.firstAt = a.firstAt /\ r.firstUid = a.firstUid
  BY DEF Asked, Requests
<1> QED BY <1>2, <1>3, <1>4

LEMMA RequestKeeps ==
  ASSUME Inv, NEW d \in Devices, NEW cursor, Request(d, cursor)
  PROVE  Inv'
<1> DEFINE v == owner[d]
           uid == Named(d) /\ v \in known
           dials == StoredDials(d)
           cached == uid /\ cursor > 0 /\ SessionServes(v, dials, now)
           page == PageOf(sessions[v].posts, cursor, PageSize)
           request == Asked(dev[d], uid, now, cursor, dials)
           r == IF cached THEN [request EXCEPT !.phase = "record", !.page = page.posts, !.next = page.next]
                ELSE [request EXCEPT !.phase = "compose"]
<1>1. Typed /\ GraphTyped /\ now \in Nat /\ dev \in [Devices -> Requests]
      /\ RequestOK(d) /\ ScrollHeld(d) /\ RequestVisible(d)
  BY Clock DEF Inv, Typed
<1>2. dev' = [dev EXCEPT ![d] = r]
  BY DEF Request, Asked
<1>3. UNCHANGED <<now, owner, known, published, likes, blocked, prefs, history, sessions, events,
                  hiddenAt, calm>>
  BY DEF Request
<1>4. dev[d].phase = "idle" /\ (cursor = 0 \/ cursor = dev[d].cursor)
  BY DEF Request
<1>5. dev[d] \in Requests /\ cursor \in Nat
  BY <1>1, <1>4, RequestTypes
<1>6. v \in Viewers \union {Anonymous} /\ (v \in known => Named(d)) /\ (Named(d) => v \in Viewers)
  BY <1>1, KnownNamed
<1>7. dials \in Dials /\ (Named(d) => dials = prefs[v])
  BY <1>1, <1>6, FeedPagingAssumption DEF StoredDials, GraphTyped
<1>8. cached => /\ v \in DOMAIN sessions /\ v \in Viewers
                /\ sessions[v].posts \in Seq(Posts) /\ sessions[v].created \in Nat
                /\ now <= sessions[v].created + TTL /\ SessionVisible(v)
  BY <1>1, SessionTypes DEF SessionServes, Inv
<1>9. cached => /\ page.posts \in Seq(Posts) /\ page.next \in Nat
                /\ page.posts = <<>> => page.next = 0
                /\ \A i \in DOMAIN page.posts :
                     \E j \in DOMAIN sessions[v].posts : page.posts[i] = sessions[v].posts[j]
  BY <1>5, <1>8, Pages
<1>10. uid \in BOOLEAN
  OBVIOUS
<1> HIDE DEF uid, dials, page
<1>11. request \in Requests
  BY <1>1, <1>5, <1>7, <1>10, Requested
<1>12. /\ request.uid = uid /\ request.at = now /\ request.cursor = cursor /\ request.dials = dials
       /\ request.first = dev[d].first /\ request.firstAt = dev[d].firstAt
       /\ request.firstUid = dev[d].firstUid
  BY <1>1, <1>5, <1>7, <1>10, Requested
<1> HIDE DEF request, cached
<1>13. CASE cached
  <2>1. r = [request EXCEPT !.phase = "record", !.page = page.posts, !.next = page.next]
    BY <1>13
  <2>2. r \in Requests
    BY <1>9, <1>11, <1>13, <2>1 DEF Requests
  <2>3. /\ r.phase = "record" /\ r.uid = uid /\ r.at = now /\ r.cursor = cursor
        /\ r.page = page.posts /\ r.next = page.next
        /\ r.first = dev[d].first /\ r.firstAt = dev[d].firstAt /\ r.firstUid = dev[d].firstUid
    BY <1>11, <1>12, <2>1 DEF Requests
  <2> HIDE DEF r
  <2>4. dev'[d] = r
    BY <1>1, <1>2
  <2>5. RequestOK(d)'
    <3>1. now <= now'
      BY <1>1, <1>3
    <3>2. uid => Named(d)'
      BY <1>3 DEF uid, Named
    <3> QED BY <1>3, <1>9, <1>13, <2>3, <2>4, <3>1, <3>2 DEF RequestOK
  <2>6. ScrollHeld(d)'
    <3> SUFFICES ASSUME calm'[d] PROVE ScrollHeld(d)'
      BY DEF ScrollHeld
    <3>1. calm[d] /\ owner'[d] \in known'
      BY <1>1, <1>3 DEF ScrollHeld
    <3>2. dev[d].firstUid => dev[d].firstAt + TTL < now \/ Held(d)
      BY <1>1, <1>4, <3>1 DEF ScrollHeld
    <3>3. Held(d) => Held(d)'
      BY <1>3, <1>4, <2>3, <2>4 DEF Held
    <3>4. ASSUME dev[d].firstUid, now <= dev[d].firstAt + TTL PROVE Continues(d)'
      <4>1. TTL \in Nat /\ dev[d].firstAt \in Nat
        BY <1>1, RequestTypes, FeedPagingAssumption
      <4>2. Held(d)
        BY <1>1, <3>2, <3>4, <4>1
      <4>3. sessions[v].posts = dev[d].first
        BY <4>2 DEF Held
      <4> QED BY <2>3, <2>4, <4>3 DEF Continues, page
    <3> QED BY <1>3, <2>3, <2>4, <3>1, <3>2, <3>3, <3>4 DEF ScrollHeld
  <2>7. RequestVisible(d)'
    <3>1. ASSUME NEW i \in DOMAIN page.posts PROVE now <= hiddenAt[v][page.posts[i]] + TTL
      <4>1. PICK j \in DOMAIN sessions[v].posts : page.posts[i] = sessions[v].posts[j]
        BY <1>9, <1>13
      <4> DEFINE p == page.posts[i]
      <4>2. p \in Posts
        BY <1>9, <1>13, ElementOfSeq
      <4>3. sessions[v].created <= hiddenAt[v][p]
        BY <1>8, <1>13, <4>1 DEF SessionVisible
      <4>4. hiddenAt[v][p] \in 0..(MaxNow + 1) /\ TTL \in Nat /\ MaxNow \in Nat
        BY <1>1, <1>8, <1>13, <4>2, FeedPagingAssumption DEF GraphTyped
      <4> HIDE DEF p
      <4>5. now <= hiddenAt[v][p] + TTL
        BY <1>1, <1>8, <1>13, <4>3, <4>4
      <4> QED BY <4>5 DEF p
    <3> QED BY <1>3, <2>3, <2>4, <3>1 DEF RequestVisible
  <2>8. dev' = [dev EXCEPT ![d] = r]
    BY <1>2
  <2> QED BY <1>1, <1>3, <2>2, <2>5, <2>6, <2>7, <2>8, DeviceStep
       DEF Inv, Typed, HistoriesGood, SessionsTyped, SessionsBounded, SessionVisible, Held, GraphTyped
<1>14. CASE ~cached
  <2>1. r = [request EXCEPT !.phase = "compose"]
    BY <1>14
  <2>2. r \in Requests
    BY <1>11, <2>1 DEF Requests
  <2>3. /\ r.phase = "compose" /\ r.uid = uid /\ r.at = now /\ r.cursor = cursor
        /\ r.first = dev[d].first /\ r.firstAt = dev[d].firstAt /\ r.firstUid = dev[d].firstUid
    BY <1>11, <1>12, <2>1 DEF Requests
  <2> HIDE DEF r
  <2>4. dev'[d] = r
    BY <1>1, <1>2
  <2>5. RequestOK(d)'
    <3>1. now <= now'
      BY <1>1, <1>3
    <3>2. uid => Named(d)'
      BY <1>3 DEF uid, Named
    <3> QED BY <1>3, <2>3, <2>4, <3>1, <3>2 DEF RequestOK
  <2>6. ScrollHeld(d)'
    <3> SUFFICES ASSUME calm'[d] PROVE ScrollHeld(d)'
      BY DEF ScrollHeld
    <3>1. calm[d] /\ owner[d] \in known
      BY <1>1, <1>3 DEF ScrollHeld
    <3>2. dev[d].firstUid => dev[d].firstAt + TTL < now \/ Held(d)
      BY <1>1, <1>4, <3>1 DEF ScrollHeld
    <3>3. Held(d) => Held(d)'
      BY <1>3, <1>4, <2>3, <2>4 DEF Held
    <3>4. ASSUME dev[d].firstUid, now <= dev[d].firstAt + TTL, cursor > 0 PROVE FALSE
      <4>1. TTL \in Nat /\ dev[d].firstAt \in Nat
        BY <1>1, RequestTypes, FeedPagingAssumption
      <4>2. Held(d)
        BY <1>1, <3>2, <3>4, <4>1
      <4>3. cursor = dev[d].cursor /\ cursor # 0
        BY <1>4, <1>5, <3>4
      <4>4. SessionServes(v, dials, now)
        BY <1>6, <1>7, <3>1, <3>4, <4>2, <4>3 DEF Held, SessionServes
      <4> QED BY <1>6, <1>14, <3>1, <3>4, <4>4 DEF cached, uid
    <3> QED BY <1>3, <2>3, <2>4, <3>1, <3>2, <3>3, <3>4 DEF ScrollHeld
  <2>7. RequestVisible(d)'
    BY <2>3, <2>4 DEF RequestVisible
  <2>8. dev' = [dev EXCEPT ![d] = r]
    BY <1>2
  <2> QED BY <1>1, <1>3, <2>2, <2>5, <2>6, <2>7, <2>8, DeviceStep
       DEF Inv, Typed, HistoriesGood, SessionsTyped, SessionsBounded, SessionVisible, Held, GraphTyped
<1> QED BY <1>13, <1>14

LEMMA CutOf ==
  ASSUME NEW a \in Requests, NEW list \in Seq(Posts)
  PROVE  LET r == Cut(a, list)
         IN /\ r \in Requests
            /\ r.phase = (IF a.uid /\ a.cursor = 0 THEN "cache" ELSE "record")
            /\ r.uid = a.uid /\ r.at = a.at /\ r.cursor = a.cursor /\ r.dials = a.dials /\ r.list = list
            /\ r.page = <<>> => r.next = 0
            /\ \A i \in DOMAIN r.page : r.page[i] \in Posts /\ \E j \in DOMAIN list : r.page[i] = list[j]
            /\ r.first = (IF a.cursor = 0 THEN list ELSE a.first)
            /\ r.firstAt = (IF a.cursor = 0 THEN a.at ELSE a.firstAt)
            /\ r.firstUid = (IF a.cursor = 0 THEN a.uid ELSE a.firstUid)
<1> DEFINE page == PageOf(list, a.cursor, PageSize)
           r == ComposedPage(a, list, page)
<1>1. Cut(a, list) = r
  BY DEF Cut
<1>2. a.cursor \in Nat /\ a.uid \in BOOLEAN /\ a.at \in Nat /\ a.firstAt \in Nat /\ a.firstUid \in BOOLEAN
      /\ a.first \in Seq(Posts)
  BY DEF Requests
<1>3. /\ page.posts \in Seq(Posts) /\ page.next \in Nat
      /\ page.posts = <<>> => page.next = 0
      /\ \A i \in DOMAIN page.posts : \E j \in DOMAIN list : page.posts[i] = list[j]
  BY <1>2, Pages
<1>4. \A i \in DOMAIN page.posts : page.posts[i] \in Posts
  <2> HIDE DEF page
  <2> QED BY <1>3, LenProperties, ElementOfSeq
<1> HIDE DEF page
<1>5. r \in Requests
  <2> DEFINE ph == IF a.uid /\ a.cursor = 0 THEN "cache" ELSE "record"
             fi == IF a.cursor = 0 THEN list ELSE a.first
             fa == IF a.cursor = 0 THEN a.at ELSE a.firstAt
             fu == IF a.cursor = 0 THEN a.uid ELSE a.firstUid
  <2>1. ph \in {"idle", "compose", "cache", "record"} /\ fi \in Seq(Posts) /\ fa \in Nat /\ fu \in BOOLEAN
    BY <1>2
  <2>2. r = [a EXCEPT !.phase = ph, !.list = list, !.page = page.posts, !.next = page.next,
                      !.first = fi, !.firstAt = fa, !.firstUid = fu]
    BY DEF ComposedPage
  <2> HIDE DEF r, ph, fi, fa, fu
  <2> QED BY <1>3, <2>1, <2>2 DEF Requests
<1>6. r.phase = (IF a.uid /\ a.cursor = 0 THEN "cache" ELSE "record")
  BY DEF ComposedPage, Requests
<1>7. r.uid = a.uid /\ r.at = a.at /\ r.cursor = a.cursor /\ r.dials = a.dials
  BY DEF ComposedPage, Requests
<1>8. r.list = list /\ r.page = page.posts /\ r.next = page.next
  BY DEF ComposedPage, Requests
<1>9. r.first = (IF a.cursor = 0 THEN list ELSE a.first)
  BY DEF ComposedPage, Requests
<1>10. r.firstAt = (IF a.cursor = 0 THEN a.at ELSE a.firstAt)
  BY DEF ComposedPage, Requests
<1>11. r.firstUid = (IF a.cursor = 0 THEN a.uid ELSE a.firstUid)
  BY DEF ComposedPage, Requests
<1> HIDE DEF r
<1> QED BY <1>1, <1>3, <1>4, <1>5, <1>6, <1>7, <1>8, <1>9, <1>10, <1>11

(* What a composing request ranks.                                         *)
LEMMA RanksVisible ==
  ASSUME Typed, NEW d \in Devices, RequestOK(d), HiddenTracked
  PROVE  LET list == Ranking(GraphOf(d), dev[d].dials, HistoryOf(d), dev[d].at)
         IN /\ GraphOK(GraphOf(d)) /\ GoodHistory(HistoryOf(d))
            /\ list \in Seq(Posts)
            /\ dev[d].uid => /\ owner[d] \in Viewers /\ GraphOf(d).viewer = owner[d]
                             /\ GraphOf(d).viewer # NoAccount
                             /\ \A i \in DOMAIN list : dev[d].at <= hiddenAt[owner[d]][list[i]]
<1> DEFINE g == GraphOf(d)
           h == HistoryOf(d)
           list == Ranking(g, dev[d].dials, h, dev[d].at)
<1>1. GraphTyped /\ HistoriesGood /\ dev[d].dials \in Dials /\ dev[d].at \in Nat /\ dev[d].uid \in BOOLEAN
  BY RequestTypes DEF Typed
<1>2. dev[d].uid => owner[d] \in Viewers
  BY <1>1, KnownNamed DEF RequestOK
<1>3. GraphOK(g)
  BY <1>1 DEF GraphOK, GraphOf, GraphTyped
<1>4. GoodHistory(h)
  BY <1>1, <1>2, NoHistoryGood DEF HistoryOf, HistoriesGood
<1> HIDE DEF h
<1>5. list \in Seq(Shown(g, dev[d].dials))
  <2> HIDE DEF g
  <2> QED BY <1>1, <1>3, <1>4, RankingLists
<1>6. Shown(g, dev[d].dials) \in SUBSET Posts
  <2> HIDE DEF g
  <2> QED BY <1>3, ShownPosts
<1>7. list \in Seq(Posts)
  <2> HIDE DEF g, list
  <2> QED BY <1>5, <1>6, SeqMonotonic
<1>8. ASSUME dev[d].uid
      PROVE  /\ owner[d] \in Viewers /\ g.viewer = owner[d] /\ g.viewer # NoAccount
             /\ \A i \in DOMAIN list : dev[d].at <= hiddenAt[owner[d]][list[i]]
  <2>1. owner[d] \in Viewers /\ g.viewer = owner[d] /\ g.published = published
        /\ g.likes = likes[owner[d]] /\ g.blocked = blocked[owner[d]]
    BY <1>2, <1>8 DEF GraphOf
  <2>2. g.viewer # NoAccount
    BY <2>1, FeedPagingAssumption
  <2> HIDE DEF g, list
  <2>3. \A p \in Shown(g, dev[d].dials) : ~Hidden(owner[d], p)
    BY <2>1 DEF Shown, Hidden
  <2>4. \A p \in Shown(g, dev[d].dials) : hiddenAt[owner[d]][p] = MaxNow + 1
    BY <1>6, <2>1, <2>3 DEF HiddenTracked
  <2>5. dev[d].at <= MaxNow + 1
    <3>1. dev[d].at <= now /\ now \in Nat /\ now <= MaxNow /\ MaxNow \in Nat
      BY <1>1, Clock DEF RequestOK
    <3> QED BY <1>1, <3>1
  <2>6. \A i \in DOMAIN list : list[i] \in Shown(g, dev[d].dials)
    BY <1>5, LenProperties, ElementOfSeq
  <2> QED BY <2>1, <2>2, <2>4, <2>5, <2>6
<1> HIDE DEF g, list
<1> QED BY <1>3, <1>4, <1>7, <1>8 DEF g, h, list

LEMMA ComposeKeeps ==
  ASSUME Inv, NEW d \in Devices, Compose(d)
  PROVE  Inv'
<1> DEFINE a == dev[d]
           list == Ranking(GraphOf(d), a.dials, HistoryOf(d), a.at)
           r == Cut(a, list)
           v == owner[d]
<1>1. Typed /\ GraphTyped /\ now \in Nat /\ dev \in [Devices -> Requests] /\ HiddenTracked
      /\ RequestOK(d) /\ ScrollHeld(d) /\ RequestVisible(d)
  BY Clock DEF Inv, Typed
<1>2. dev' = [dev EXCEPT ![d] = r] /\ a.phase = "compose"
  BY DEF Compose
<1>3. UNCHANGED <<now, owner, known, published, likes, blocked, prefs, history, sessions, events,
                  hiddenAt, calm>>
  BY DEF Compose
<1>4. a \in Requests /\ a.cursor \in Nat /\ a.uid \in BOOLEAN /\ a.at \in Nat
  BY <1>1, RequestTypes
<1>5. /\ list \in Seq(Posts)
      /\ a.uid => v \in Viewers /\ \A i \in DOMAIN list : a.at <= hiddenAt[v][list[i]]
  BY <1>1, RanksVisible
<1> HIDE DEF list
<1>6. /\ r \in Requests
      /\ r.phase = (IF a.uid /\ a.cursor = 0 THEN "cache" ELSE "record")
      /\ r.uid = a.uid /\ r.at = a.at /\ r.cursor = a.cursor /\ r.dials = a.dials /\ r.list = list
      /\ r.page = <<>> => r.next = 0
      /\ \A i \in DOMAIN r.page : r.page[i] \in Posts /\ \E j \in DOMAIN list : r.page[i] = list[j]
      /\ r.first = (IF a.cursor = 0 THEN list ELSE a.first)
      /\ r.firstAt = (IF a.cursor = 0 THEN a.at ELSE a.firstAt)
      /\ r.firstUid = (IF a.cursor = 0 THEN a.uid ELSE a.firstUid)
  <2> HIDE DEF a
  <2> QED BY <1>4, <1>5, CutOf
<1> HIDE DEF r
<1>7. dev'[d] = r
  BY <1>1, <1>2
<1>8. RequestOK(d)'
  <2>1. a.at <= now' /\ (a.uid => Named(d)')
    BY <1>1, <1>3 DEF RequestOK, Named
  <2> QED BY <1>6, <1>7, <2>1 DEF RequestOK
<1>9. ScrollHeld(d)'
  <2> SUFFICES ASSUME calm'[d] PROVE ScrollHeld(d)'
    BY DEF ScrollHeld
  <2>1. calm[d] /\ owner[d] \in known /\ (a.firstUid => a.firstAt + TTL < now \/ Held(d))
    BY <1>1, <1>2, <1>3 DEF ScrollHeld
  <2>2. a.firstUid /\ a.cursor > 0 => ~(a.at <= a.firstAt + TTL)
    BY <1>1, <1>2, <2>1 DEF ScrollHeld
  <2>3. r.firstUid /\ r.phase # "cache" => a.cursor > 0 /\ a.cursor # 0 /\ a.firstUid
    BY <1>4, <1>6
  <2>4. a.cursor # 0 /\ Held(d) => Held(d)'
    BY <1>3, <1>6, <1>7 DEF Held
  <2>5. dev'[d].firstUid /\ dev'[d].phase # "cache" => dev'[d].firstAt + TTL < now' \/ Held(d)'
    BY <1>3, <1>6, <1>7, <2>1, <2>3, <2>4
  <2>6. ~(dev'[d].firstUid /\ dev'[d].phase \in {"compose", "record"} /\ dev'[d].cursor > 0
            /\ dev'[d].at <= dev'[d].firstAt + TTL)
    BY <1>6, <1>7, <2>2, <2>3
  <2> QED BY <1>3, <2>1, <2>5, <2>6 DEF ScrollHeld
<1>10. RequestVisible(d)'
  <2> SUFFICES ASSUME a.uid PROVE RequestVisible(d)'
    BY <1>6, <1>7 DEF RequestVisible
  <2>1. v \in Viewers /\ \A i \in DOMAIN list : a.at <= hiddenAt[v][list[i]]
    BY <1>5
  <2>2. ASSUME NEW i \in DOMAIN r.page PROVE a.at <= hiddenAt[v][r.page[i]] + TTL
    <3> DEFINE p == r.page[i]
    <3>1. p \in Posts /\ \E j \in DOMAIN list : p = list[j]
      BY <1>6
    <3>2. a.at <= hiddenAt[v][p]
      BY <2>1, <3>1
    <3>3. hiddenAt[v][p] \in 0..(MaxNow + 1) /\ TTL \in Nat /\ MaxNow \in Nat
      BY <1>1, <2>1, <3>1, FeedPagingAssumption DEF GraphTyped
    <3> HIDE DEF p
    <3>4. a.at <= hiddenAt[v][p] + TTL
      BY <1>4, <3>2, <3>3
    <3> QED BY <3>4 DEF p
  <2> HIDE DEF a
  <2> QED BY <1>3, <1>6, <1>7, <2>1, <2>2 DEF RequestVisible
<1> HIDE DEF a
<1> QED BY <1>1, <1>2, <1>3, <1>6, <1>8, <1>9, <1>10, DeviceStep
     DEF Inv, Typed, HistoriesGood, SessionsTyped, SessionsBounded, SessionVisible, Held, GraphTyped

LEMMA CachedRequest ==
  ASSUME NEW a \in Requests
  PROVE  LET r == [a EXCEPT !.phase = "record"]
         IN /\ r \in Requests /\ r.phase = "record" /\ r.uid = a.uid /\ r.at = a.at
            /\ r.cursor = a.cursor /\ r.page = a.page /\ r.next = a.next /\ r.list = a.list
            /\ r.first = a.first /\ r.firstAt = a.firstAt /\ r.firstUid = a.firstUid
BY DEF Requests

LEMMA CacheSessionKeeps ==
  ASSUME Inv, NEW d \in Devices, CacheSession(d)
  PROVE  Inv'
<1> DEFINE a == dev[d]
           r == [a EXCEPT !.phase = "record"]
           v == owner[d]
           full == v \notin DOMAIN sessions /\ Cardinality(DOMAIN sessions) >= MaxSessions
           fresh == [posts |-> a.list, dials |-> a.dials, created |-> a.at,
                     has_page_impressions |-> FALSE]
<1>1. Typed /\ GraphTyped /\ now \in Nat /\ dev \in [Devices -> Requests] /\ HiddenTracked
      /\ SessionsTyped /\ SessionsBounded
      /\ RequestOK(d) /\ ScrollHeld(d) /\ RequestVisible(d)
  BY Clock DEF Inv, Typed
<1>2. dev' = [dev EXCEPT ![d] = r] /\ a.phase = "cache"
  BY DEF CacheSession
<1>3. UNCHANGED <<now, owner, known, published, likes, blocked, prefs, history, events, hiddenAt>>
  BY DEF CacheSession
<1>4. a \in Requests /\ a.list \in Seq(Posts) /\ a.dials \in Dials /\ a.at \in Nat
  BY <1>1, RequestTypes
<1>5. /\ r \in Requests /\ r.phase = "record" /\ r.uid = a.uid /\ r.at = a.at
      /\ r.cursor = a.cursor /\ r.page = a.page /\ r.next = a.next /\ r.list = a.list
      /\ r.first = a.first /\ r.firstAt = a.firstAt /\ r.firstUid = a.firstUid
  <2> HIDE DEF a
  <2> QED BY <1>4, CachedRequest
<1> HIDE DEF r
<1>6. dev'[d] = r
  BY <1>1, <1>2
<1>7. /\ a.uid /\ a.cursor = 0 /\ a.firstUid /\ a.first = a.list /\ a.firstAt = a.at
      /\ a.at <= now /\ Named(d) /\ v \in Viewers
  BY <1>1, <1>2, KnownNamed DEF RequestOK
<1>8. RequestOK(d)'
  <2>1. a.page = <<>> => a.next = 0
    BY <1>1, <1>2 DEF RequestOK
  <2>2. Named(d)'
    BY <1>3, <1>7 DEF Named
  <2> HIDE DEF a
  <2> QED BY <1>3, <1>5, <1>6, <1>7, <2>1, <2>2 DEF RequestOK
<1>9. RequestVisible(d)'
  <2>1. \A i \in DOMAIN a.page : a.at <= hiddenAt[v][a.page[i]] + TTL
    BY <1>1, <1>2, <1>7 DEF RequestVisible
  <2> HIDE DEF a
  <2> QED BY <1>3, <1>5, <1>6, <2>1 DEF RequestVisible
<1>10. CASE v \notin known
  <2>1. UNCHANGED <<sessions, calm>>
    BY <1>10 DEF CacheSession
  <2>2. ScrollHeld(d)'
    <3>1. ~calm[d]
      BY <1>1, <1>10 DEF ScrollHeld
    <3> QED BY <2>1, <3>1 DEF ScrollHeld
  <2> HIDE DEF a
  <2> QED BY <1>1, <1>2, <1>3, <1>5, <1>8, <1>9, <2>1, <2>2, DeviceStep
       DEF Inv, Typed, HistoriesGood, SessionsTyped, SessionsBounded, SessionVisible, Held, GraphTyped
<1>11. CASE v \in known
  <2>1. PICK victims \in IF full THEN {{w} : w \in DOMAIN sessions} ELSE {{}} :
          /\ sessions' = [w \in (DOMAIN sessions \ victims) \union {v} |->
                            IF w = v THEN fresh ELSE sessions[w]]
          /\ calm' = [e \in Devices |->
                        IF e = d THEN a.dials = prefs[v] ELSE calm[e] /\ owner[e] \notin victims \union {v}]
    BY <1>11 DEF CacheSession
  <2>2. fresh \in Sessions
    <3> HIDE DEF a
    <3> QED BY <1>4 DEF Sessions
  <2>3. /\ DOMAIN sessions' = (DOMAIN sessions \ victims) \union {v}
        /\ sessions'[v] = fresh
        /\ \A w \in DOMAIN sessions \ victims : w # v => sessions'[w] = sessions[w]
    BY <2>1
  <2>4. fresh.posts = a.list /\ fresh.dials = a.dials /\ fresh.created = a.at
    OBVIOUS
  <2> HIDE DEF fresh
  <2>5. SessionsTyped'
    <3>1. DOMAIN sessions' \subseteq known'
      BY <1>1, <1>3, <1>11, <2>3 DEF SessionsTyped
    <3>2. \A w \in DOMAIN sessions' : sessions'[w] \in Sessions
      BY <1>1, <2>2, <2>3 DEF SessionsTyped
    <3> QED BY <3>1, <3>2 DEF SessionsTyped
  <2>6. SessionsBounded'
    <3> DEFINE S == DOMAIN sessions
               T == S \ victims
    <3>1. /\ IsFiniteSet(S) /\ Cardinality(S) <= MaxSessions /\ Cardinality(S) \in Nat
          /\ MaxSessions \in Nat /\ MaxSessions > 0
      BY <1>1, FS_CardinalityType, FeedPagingAssumption DEF SessionsBounded
    <3> HIDE DEF S
    <3>2. CASE full
      <4>1. PICK w \in S : victims = {w}
        BY <2>1, <3>2 DEF S
      <4>2. IsFiniteSet(T) /\ Cardinality(T) = Cardinality(S) - 1
        BY <3>1, <4>1, FS_RemoveElement
      <4> HIDE DEF T
      <4>3. IsFiniteSet(T \union {v}) /\ Cardinality(T \union {v}) <= Cardinality(T) + 1
        BY <3>1, <4>2, FS_AddElement
      <4>4. Cardinality(T \union {v}) \in Nat
        BY <4>3, FS_CardinalityType
      <4>5. Cardinality(T \union {v}) <= MaxSessions
        BY <3>1, <4>2, <4>3, <4>4
      <4> QED BY <2>3, <4>3, <4>5 DEF SessionsBounded, T, S
    <3>3. CASE ~full
      <4>1. T = S
        BY <2>1, <3>3
      <4>2. IsFiniteSet(S \union {v})
            /\ Cardinality(S \union {v}) = IF v \in S THEN Cardinality(S) ELSE Cardinality(S) + 1
        BY <3>1, FS_AddElement
      <4>3. v \in S \/ ~(Cardinality(S) >= MaxSessions)
        BY <3>3 DEF S
      <4>4. Cardinality(S \union {v}) <= MaxSessions
        BY <3>1, <4>2, <4>3
      <4> QED BY <2>3, <4>1, <4>2, <4>4 DEF SessionsBounded, S
    <3> QED BY <3>2, <3>3
  <2>7. calm' \in [Devices -> BOOLEAN] /\ (calm'[d] => a.dials = prefs[v])
        /\ \A e \in Devices \ {d} : calm'[e] => calm[e] /\ owner[e] \notin victims \union {v}
    <3>1. \A e \in Devices : calm[e] \in BOOLEAN
      BY <1>1 DEF GraphTyped
    <3> HIDE DEF a
    <3> QED BY <2>1, <3>1
  <2>8. ScrollHeld(d)'
    <3> SUFFICES ASSUME calm'[d] PROVE ScrollHeld(d)'
      BY DEF ScrollHeld
    <3>1. Held(d)'
      <4> HIDE DEF a
      <4> QED BY <1>3, <1>5, <1>6, <1>7, <2>3, <2>4, <2>7 DEF Held
    <3>2. ~(dev'[d].cursor > 0)
      <4> HIDE DEF a
      <4> QED BY <1>5, <1>6, <1>7
    <3> QED BY <1>3, <1>11, <3>1, <3>2 DEF ScrollHeld
  <2>9. ASSUME NEW e \in Devices \ {d}, calm'[e], Held(e) PROVE Held(e)'
    <3>1. owner[e] \in DOMAIN sessions \ victims /\ owner[e] # v
      BY <2>7, <2>9 DEF Held
    <3>2. sessions'[owner[e]] = sessions[owner[e]] /\ owner[e] \in DOMAIN sessions'
      BY <2>3, <3>1
    <3>3. dev'[e] = dev[e]
      BY <1>1, <1>2
    <3> QED BY <1>3, <2>9, <3>2, <3>3 DEF Held
  <2>10. ASSUME NEW w \in DOMAIN sessions' PROVE SessionVisible(w)'
    <3>1. CASE w = v
      <4>1. \A i \in DOMAIN a.list : a.at <= hiddenAt[v][a.list[i]]
        BY <1>1, <1>2, <1>7 DEF RequestVisible
      <4> HIDE DEF a
      <4> QED BY <1>3, <1>7, <2>3, <2>4, <3>1, <4>1 DEF SessionVisible
    <3>2. CASE w # v
      <4>1. w \in DOMAIN sessions /\ sessions'[w] = sessions[w]
        BY <2>3, <3>2
      <4>2. SessionVisible(w)
        BY <4>1 DEF Inv
      <4> QED BY <1>3, <4>1, <4>2 DEF SessionVisible
    <3> QED BY <3>1, <3>2
  <2>11. HistoriesGood'
    BY <1>1, <1>3 DEF Typed, HistoriesGood
  <2>12. known \subseteq known' /\ known' \subseteq Viewers
    BY <1>1, <1>3 DEF GraphTyped
  <2>13. \A e \in Devices \ {d} : (calm'[e] => calm[e]) /\ (calm'[e] /\ Held(e) => Held(e)')
    BY <2>7, <2>9
  <2> HIDE DEF a, full
  <2> QED BY <1>2, <1>3, <1>5, <1>8, <1>9, <2>5, <2>6, <2>7, <2>8, <2>10, <2>11, <2>12, <2>13, DeviceStep
<1> QED BY <1>10, <1>11

LEMMA RecordKeeps ==
  ASSUME Inv, NEW d \in Devices, Record(d)
  PROVE  Inv'
<1> DEFINE a == dev[d]
           r == Answered(a, a.next)
           v == owner[d]
<1>1. Typed /\ GraphTyped /\ now \in Nat /\ dev \in [Devices -> Requests] /\ HiddenTracked
      /\ HistoriesGood /\ SessionsTyped /\ SessionsBounded
      /\ RequestOK(d) /\ ScrollHeld(d) /\ RequestVisible(d)
  BY Clock DEF Inv, Typed
<1>2. dev' = [dev EXCEPT ![d] = r] /\ a.phase = "record"
  BY DEF Record
<1>3. UNCHANGED <<now, owner, published, likes, blocked, prefs, events, hiddenAt, calm>>
  BY DEF Record
<1>4. a \in Requests /\ a.next \in Nat /\ a.at \in Nat /\ a.page \in Seq(Posts)
  BY <1>1, RequestTypes
<1>5. /\ r \in Requests /\ r.phase = "idle" /\ ~r.uid /\ r.at = 0 /\ r.cursor = a.next
      /\ r.first = a.first /\ r.firstAt = a.firstAt /\ r.firstUid = a.firstUid
  <2> HIDE DEF a
  <2> QED BY <1>4, IdleRequest
<1> HIDE DEF r
<1>6. dev'[d] = r
  BY <1>1, <1>2
<1>7. RequestOK(d)' /\ RequestVisible(d)'
  <2>1. 0 <= now'
    BY <1>1, <1>3
  <2> HIDE DEF a
  <2> QED BY <1>5, <1>6, <2>1 DEF RequestOK, RequestVisible
<1>8. a.page = <<>> => a.next = 0
  BY <1>1, <1>2 DEF RequestOK
<1>9. CASE ~Named(d)
  <2>1. UNCHANGED <<known, history, sessions>>
    BY <1>9 DEF Record
  <2>2. ScrollHeld(d)'
    <3>1. ~calm[d]
      BY <1>1, <1>9, KnownNamed DEF ScrollHeld
    <3> QED BY <1>3, <3>1 DEF ScrollHeld
  <2> HIDE DEF a
  <2> QED BY <1>1, <1>2, <1>3, <1>5, <1>7, <2>1, <2>2, DeviceStep
       DEF Inv, Typed, HistoriesGood, SessionsTyped, SessionsBounded, SessionVisible, Held, GraphTyped
<1>10. CASE Named(d)
  <2> DEFINE flagged(w) == IF w = v /\ a.page # <<>>
                           THEN [sessions[w] EXCEPT !.has_page_impressions = TRUE] ELSE sessions[w]
  <2>1. /\ known' = known \union {v}
        /\ history' = [history EXCEPT ![v] = RecordImpressions(@, a.page, a.at)]
        /\ sessions' = [w \in DOMAIN sessions |-> flagged(w)]
    BY <1>10 DEF Record
  <2>2. v \in Viewers /\ known \subseteq known' /\ known' \subseteq Viewers
    BY <1>1, <1>10, <2>1, KnownNamed DEF GraphTyped
  <2>3. HistoriesGood'
    <3>1. GoodHistory(RecordImpressions(history[v], a.page, a.at))
      BY <1>1, <1>4, <2>2, RecordImpressionsKeep DEF HistoriesGood
    <3> HIDE DEF a
    <3>2. \A w \in Viewers : history'[w] = IF w = v THEN RecordImpressions(history[v], a.page, a.at) ELSE history[w]
      BY <1>1, <2>1 DEF HistoriesGood
    <3>3. DOMAIN history' = Viewers
      BY <1>1, <2>1 DEF HistoriesGood
    <3> QED BY <1>1, <3>1, <3>2, <3>3 DEF HistoriesGood
  <2>4. /\ DOMAIN sessions' = DOMAIN sessions
        /\ \A w \in DOMAIN sessions :
             /\ sessions'[w] \in Sessions
             /\ sessions'[w].posts = sessions[w].posts /\ sessions'[w].created = sessions[w].created
             /\ sessions'[w].dials = sessions[w].dials
             /\ sessions[w].has_page_impressions => sessions'[w].has_page_impressions
             /\ w = v /\ a.page # <<>> => sessions'[w].has_page_impressions
    <3> HIDE DEF a
    <3>1. DOMAIN sessions' = DOMAIN sessions
      BY <2>1
    <3>2. ASSUME NEW w \in DOMAIN sessions
          PROVE  /\ sessions'[w] \in Sessions
                 /\ sessions'[w].posts = sessions[w].posts /\ sessions'[w].created = sessions[w].created
                 /\ sessions'[w].dials = sessions[w].dials
                 /\ sessions[w].has_page_impressions => sessions'[w].has_page_impressions
                 /\ w = v /\ a.page # <<>> => sessions'[w].has_page_impressions
      <4>1. sessions[w] \in Sessions
        BY <1>1 DEF SessionsTyped
      <4>2. sessions'[w] = flagged(w)
        BY <2>1
      <4> QED BY <4>1, <4>2 DEF Sessions
    <3> QED BY <3>1, <3>2
  <2> HIDE DEF flagged
  <2>5. SessionsTyped' /\ SessionsBounded'
    BY <1>1, <2>2, <2>4 DEF SessionsTyped, SessionsBounded
  <2>6. ASSUME NEW e \in Devices \ {d}, Held(e) PROVE Held(e)'
    <3>1. dev'[e] = dev[e]
      BY <1>1, <1>2
    <3> QED BY <1>3, <2>4, <2>6, <3>1 DEF Held
  <2>7. ScrollHeld(d)'
    <3> SUFFICES ASSUME calm[d] PROVE ScrollHeld(d)'
      BY <1>3 DEF ScrollHeld
    <3>1. a.firstUid => a.firstAt + TTL < now \/ Held(d)
      BY <1>1, <1>2 DEF ScrollHeld
    <3>2. Held(d) => Held(d)'
      <4>1. SUFFICES ASSUME Held(d) PROVE Held(d)'
        OBVIOUS
      <4>2. /\ v \in DOMAIN sessions /\ sessions[v].posts = a.first /\ sessions[v].created = a.firstAt
            /\ sessions[v].dials = prefs[v]
        BY <4>1 DEF Held
      <4>3. sessions'[v].has_page_impressions \/ a.next = 0
        BY <1>8, <2>4, <4>2
      <4> HIDE DEF a
      <4> QED BY <1>3, <1>5, <1>6, <2>4, <4>2, <4>3 DEF Held
    <3>3. owner'[d] \in known'
      BY <1>3, <2>1
    <3> HIDE DEF a
    <3> QED BY <1>3, <1>5, <1>6, <3>1, <3>2, <3>3 DEF ScrollHeld
  <2>8. ASSUME NEW w \in DOMAIN sessions' PROVE SessionVisible(w)'
    <3>1. w \in DOMAIN sessions /\ sessions'[w].posts = sessions[w].posts
          /\ sessions'[w].created = sessions[w].created
      BY <2>4
    <3>2. SessionVisible(w)
      BY <3>1 DEF Inv
    <3> QED BY <1>3, <3>1, <3>2 DEF SessionVisible
  <2>9. calm' \in [Devices -> BOOLEAN]
        /\ \A e \in Devices \ {d} : (calm'[e] => calm[e]) /\ (calm'[e] /\ Held(e) => Held(e)')
    BY <1>1, <1>3, <2>6 DEF GraphTyped
  <2> HIDE DEF a
  <2> QED BY <1>2, <1>3, <1>5, <1>7, <2>2, <2>3, <2>5, <2>7, <2>8, <2>9, DeviceStep
<1> QED BY <1>9, <1>10

(***************************************************************************)
(* Maintenance and the restart.                                            *)
(***************************************************************************)

(* What they do to histories: each viewer's is good, and tires of the      *)
(* published posts as before.                                              *)
FatigueKept ==
  \A v \in Viewers : \A p \in published :
    \/ SameFatigue(history[v], history'[v], p)
    \/ ~Fatigued(history[v], p, now) /\ ~Fatigued(history'[v], p, now)

LEMMA NeverServed ==
  ASSUME NEW h, GoodHistory(h), h.ids = {}, NEW p, NEW t
  PROVE  ~Fatigued(h, p, t)
BY DEF Fatigued

LEMMA NothingServed == \A p, t : ~Fatigued(NoHistory, p, t)
BY DEF Fatigued, NoHistory

LEMMA PruneHistories ==
  ASSUME GraphTyped, HistoriesGood, PruneExpired
  PROVE  HistoriesGood' /\ FatigueKept
<1> DEFINE pruned(v) == PruneOlderThan(history[v], Ago(Window))
<1>1. history' = [v \in Viewers |-> IF pruned(v).ids = {} THEN NoHistory ELSE pruned(v)]
  BY DEF PruneExpired
<1>2. now \in Nat /\ Window \in Nat
  BY Clock, FeedRankingAssumption, FS_CardinalityType DEF Window
<1>3. Ago(Window) \in Nat /\ \A s \in Nat : s < Ago(Window) => ~(now < s + Window)
  <2> HIDE DEF Window
  <2> QED BY <1>2 DEF Ago
<1>4. \A v \in Viewers :
        /\ GoodHistory(history[v]) /\ GoodHistory(pruned(v))
        /\ DOMAIN pruned(v).ts \subseteq DOMAIN history[v].ts
        /\ \A p \in DOMAIN pruned(v).ts : pruned(v).ts[p] = history[v].ts[p]
        /\ \A p \in DOMAIN history[v].ts :
             SameFatigue(history[v], pruned(v), p) \/ history[v].ts[p] < Ago(Window)
  BY <1>3, PruneKeeps DEF HistoriesGood
<1> HIDE DEF pruned
<1>5. HistoriesGood'
  <2>1. \A v \in Viewers : GoodHistory(history'[v])
    BY <1>1, <1>4, NoHistoryGood
  <2>2. DOMAIN history' = Viewers
    BY <1>1
  <2> QED BY <2>1, <2>2 DEF HistoriesGood
<1>6. ASSUME NEW v \in Viewers, NEW p \in published
      PROVE  \/ SameFatigue(history[v], history'[v], p)
             \/ ~Fatigued(history[v], p, now) /\ ~Fatigued(history'[v], p, now)
  <2>1. CASE p \in DOMAIN history[v].ts /\ history[v].ts[p] < Ago(Window)
    <3>1. history[v].ts[p] \in Nat
      BY <1>4, <2>1 DEF GoodHistory
    <3>2. ~(now < history[v].ts[p] + Window)
      BY <1>3, <2>1, <3>1
    <3>3. ~Fatigued(history[v], p, now)
      BY <3>2 DEF Fatigued
    <3>4. ~Fatigued(pruned(v), p, now)
      BY <1>4, <3>2 DEF Fatigued
    <3>5. history'[v] = NoHistory \/ history'[v] = pruned(v)
      BY <1>1
    <3>6. ~Fatigued(history'[v], p, now)
      BY <3>4, <3>5, NothingServed
    <3> QED BY <3>3, <3>6
  <2>2. CASE ~(p \in DOMAIN history[v].ts /\ history[v].ts[p] < Ago(Window))
    <3>1. SameFatigue(history[v], pruned(v), p)
      BY <1>4, <2>2 DEF SameFatigue
    <3>2. CASE pruned(v).ids = {}
      <4>1. ~Fatigued(pruned(v), p, now)
        BY <1>4, <3>2, NeverServed
      <4>2. ~Fatigued(history[v], p, now)
        <5>1. DOMAIN pruned(v).ts = {}
          BY <1>4, <3>2 DEF GoodHistory, HistoryOK
        <5>2. p \notin DOMAIN history[v].ts
          BY <3>1, <5>1 DEF SameFatigue
        <5> QED BY <5>2 DEF Fatigued
      <4>3. history'[v] = NoHistory
        BY <1>1, <3>2
      <4> QED BY <4>2, <4>3, NothingServed
    <3>3. CASE pruned(v).ids # {}
      <4>1. history'[v] = pruned(v)
        BY <1>1, <3>3
      <4> QED BY <3>1, <4>1
    <3> QED BY <3>2, <3>3
  <2> QED BY <2>1, <2>2
<1> QED BY <1>5, <1>6 DEF FatigueKept

LEMMA CompactHistories ==
  ASSUME GraphTyped, HistoriesGood, Compact
  PROVE  HistoriesGood' /\ FatigueKept
<1> DEFINE kept == published \union UNION {history[v].ids : v \in Viewers}
           compacted(v) == CompactHistory(history[v], kept)
<1>1. \A v \in Viewers :
        history'[v] = IF ~Referenced(v) \/ compacted(v).ids = {} THEN NoHistory ELSE compacted(v)
  BY DEF Compact
<1>2. DOMAIN history' = Viewers
  BY DEF Compact
<1>3. published \subseteq kept
  OBVIOUS
<1> HIDE DEF kept
<1>4. \A v \in Viewers :
        /\ GoodHistory(history[v]) /\ GoodHistory(compacted(v))
        /\ \A p \in kept : SameFatigue(history[v], compacted(v), p)
  BY CompactKeeps DEF HistoriesGood
<1> HIDE DEF compacted
<1>5. HistoriesGood'
  <2>1. \A v \in Viewers : GoodHistory(history'[v])
    BY <1>1, <1>4, NoHistoryGood
  <2> QED BY <1>2, <2>1 DEF HistoriesGood
<1>6. ASSUME NEW v \in Viewers, NEW p \in published
      PROVE  \/ SameFatigue(history[v], history'[v], p)
             \/ ~Fatigued(history[v], p, now) /\ ~Fatigued(history'[v], p, now)
  <2>1. SameFatigue(history[v], compacted(v), p)
    BY <1>3, <1>4
  <2>2. CASE ~Referenced(v) \/ compacted(v).ids = {}
    <3>1. history'[v] = NoHistory
      BY <1>1, <2>2
    <3>2. p \notin DOMAIN history[v].ts
      <4>1. CASE ~Referenced(v)
        BY <1>4, <4>1 DEF Referenced, GoodHistory, HistoryOK
      <4>2. CASE compacted(v).ids = {}
        <5>1. DOMAIN compacted(v).ts = {}
          BY <1>4, <4>2 DEF GoodHistory, HistoryOK
        <5> QED BY <2>1, <5>1 DEF SameFatigue
      <4> QED BY <2>2, <4>1, <4>2
    <3>3. ~Fatigued(history[v], p, now)
      BY <3>2 DEF Fatigued
    <3> QED BY <3>1, <3>3, NothingServed
  <2>3. CASE ~(~Referenced(v) \/ compacted(v).ids = {})
    BY <1>1, <2>1, <2>3
  <2> QED BY <2>2, <2>3
<1> QED BY <1>5, <1>6 DEF FatigueKept

LEMMA RestoredHistories ==
  ASSUME HistoriesGood, Restart
  PROVE  HistoriesGood' /\ FatigueKept
<1>1. history' = [v \in Viewers |-> Restored(history[v])]
  BY DEF Restart
<1>2. \A v \in Viewers : GoodHistory(Restored(history[v]))
                         /\ \A p : SameFatigue(history[v], Restored(history[v]), p)
  BY RestoredKeeps DEF HistoriesGood
<1> QED BY <1>1, <1>2 DEF HistoriesGood, FatigueKept

LEMMA PruneExpiredKeeps ==
  ASSUME Inv, PruneExpired
  PROVE  Inv'
<1>1. Typed /\ GraphTyped /\ now \in Nat /\ HistoriesGood /\ SessionsTyped /\ SessionsBounded
      /\ dev \in [Devices -> Requests]
  BY Clock DEF Inv, Typed
<1>2. UNCHANGED <<now, owner, known, published, likes, blocked, prefs, dev, hiddenAt, calm>>
  BY DEF PruneExpired
<1>3. events' \in 0..MaxEvents
  BY <1>1, FeedPagingAssumption DEF PruneExpired, Event, GraphTyped
<1>4. GraphTyped'
  BY <1>1, <1>2, <1>3 DEF GraphTyped
<1>5. HistoriesGood'
  BY <1>1, PruneHistories
<1>6. /\ DOMAIN sessions' = {w \in DOMAIN sessions : sessions[w].created >= Ago(TTL)}
      /\ \A w \in DOMAIN sessions' : w \in DOMAIN sessions /\ sessions'[w] = sessions[w]
  BY DEF PruneExpired
<1>7. SessionsTyped' /\ dev' \in [Devices -> Requests]
  BY <1>1, <1>2, <1>6 DEF SessionsTyped
<1>8. SessionsBounded'
  <2>1. DOMAIN sessions' \in SUBSET DOMAIN sessions
    BY <1>6
  <2>2. IsFiniteSet(DOMAIN sessions') /\ Cardinality(DOMAIN sessions') <= Cardinality(DOMAIN sessions)
    BY <1>1, <2>1, FS_Subset DEF SessionsBounded
  <2>3. Cardinality(DOMAIN sessions') \in Nat /\ Cardinality(DOMAIN sessions) \in Nat /\ MaxSessions \in Nat
    BY <1>1, <2>2, FS_CardinalityType, FeedPagingAssumption DEF SessionsBounded
  <2> QED BY <1>1, <2>2, <2>3 DEF SessionsBounded
<1>9. ASSUME NEW d \in Devices PROVE (RequestOK(d) /\ ScrollHeld(d) /\ RequestVisible(d))'
  <2>1. RequestOK(d) /\ ScrollHeld(d) /\ RequestVisible(d)
    BY DEF Inv
  <2>2. dev[d] \in Requests /\ dev[d].at \in Nat /\ dev[d].firstAt \in Nat
        /\ owner[d] \in Viewers \union {Anonymous}
    BY <1>1, RequestTypes, KnownNamed
  <2>3. RequestOK(d)'
    BY <1>1, <1>2, <2>1, <2>2, RequestFrame
  <2>4. ASSUME Held(d) PROVE Held(d)' \/ dev[d].firstAt + TTL < now'
    <3>1. owner[d] \in DOMAIN sessions /\ sessions[owner[d]].created = dev[d].firstAt
      BY <2>4 DEF Held
    <3>2. CASE owner[d] \in DOMAIN sessions'
      BY <1>2, <1>6, <2>4, <3>2 DEF Held
    <3>3. CASE owner[d] \notin DOMAIN sessions'
      <4>1. ~(dev[d].firstAt >= Ago(TTL))
        BY <1>6, <3>1, <3>3
      <4>2. TTL \in Nat
        BY FeedPagingAssumption
      <4>3. dev[d].firstAt + TTL < now
        BY <1>1, <2>2, <4>1, <4>2 DEF Ago
      <4> QED BY <1>2, <4>3
    <3> QED BY <3>2, <3>3
  <2>5. ScrollHeld(d)'
    BY <1>1, <1>2, <2>1, <2>2, <2>4, ScrollFrame
  <2>6. RequestVisible(d)'
    BY <1>1, <1>2, <2>1, <2>2, SameHidden, RequestVisibleFrame
  <2> QED BY <2>3, <2>5, <2>6
<1>10. HiddenTracked'
  BY <1>2 DEF Inv, HiddenTracked, Hidden
<1>11. ASSUME NEW w \in DOMAIN sessions' PROVE SessionVisible(w)'
  <2>1. SessionVisible(w)
    BY <1>6 DEF Inv
  <2> QED BY <1>2, <1>6, <2>1 DEF SessionVisible
<1> QED BY <1>4, <1>5, <1>7, <1>8, <1>9, <1>10, <1>11 DEF Inv, Typed

LEMMA NoSessions ==
  ASSUME sessions' = <<>>
  PROVE  SessionsTyped' /\ SessionsBounded' /\ DOMAIN sessions' = {}
<1>1. DOMAIN <<>> = {}
  OBVIOUS
<1>2. IsFiniteSet({}) /\ Cardinality({}) = 0 /\ MaxSessions \in Nat
  BY FS_EmptySet, FeedPagingAssumption
<1> QED BY <1>1, <1>2 DEF SessionsTyped, SessionsBounded

LEMMA CompactKeepsInv ==
  ASSUME Inv, Compact
  PROVE  Inv'
<1>1. Typed /\ GraphTyped /\ now \in Nat /\ HistoriesGood /\ dev \in [Devices -> Requests]
  BY Clock DEF Inv, Typed
<1>2. UNCHANGED <<now, owner, published, likes, blocked, prefs, dev, hiddenAt>> /\ sessions' = <<>>
      /\ known' \subseteq known /\ calm' = [d \in Devices |-> FALSE]
  BY DEF Compact
<1>3. events' \in 0..MaxEvents
  BY <1>1, FeedPagingAssumption DEF Compact, Event, GraphTyped
<1>4. GraphTyped'
  BY <1>1, <1>2, <1>3 DEF GraphTyped
<1>5. HistoriesGood'
  BY <1>1, CompactHistories
<1>6. SessionsTyped' /\ SessionsBounded' /\ DOMAIN sessions' = {}
  BY <1>2, NoSessions
<1>7. ASSUME NEW d \in Devices PROVE (RequestOK(d) /\ ScrollHeld(d) /\ RequestVisible(d))'
  <2>1. RequestOK(d) /\ RequestVisible(d)
    BY DEF Inv
  <2>2. dev[d] \in Requests /\ dev[d].at \in Nat /\ owner[d] \in Viewers \union {Anonymous}
    BY <1>1, RequestTypes, KnownNamed
  <2>3. RequestOK(d)'
    BY <1>1, <1>2, <2>1, <2>2, RequestFrame
  <2>4. ScrollHeld(d)'
    BY <1>2 DEF ScrollHeld
  <2>5. RequestVisible(d)'
    BY <1>1, <1>2, <2>1, <2>2, SameHidden, RequestVisibleFrame
  <2> QED BY <2>3, <2>4, <2>5
<1>8. HiddenTracked'
  BY <1>2 DEF Inv, HiddenTracked, Hidden
<1>9. dev' \in [Devices -> Requests]
  BY <1>1, <1>2
<1> QED BY <1>4, <1>5, <1>6, <1>7, <1>8, <1>9 DEF Inv, Typed

LEMMA RestartKeeps ==
  ASSUME Inv, Restart
  PROVE  Inv'
<1>1. Typed /\ GraphTyped /\ now \in Nat /\ HistoriesGood /\ dev \in [Devices -> Requests]
  BY Clock DEF Inv, Typed
<1>2. UNCHANGED <<now, owner, known, published, likes, blocked, prefs, hiddenAt>> /\ sessions' = <<>>
      /\ calm' = [d \in Devices |-> FALSE]
      /\ dev' = [d \in Devices |-> Answered(dev[d], dev[d].cursor)]
  BY DEF Restart
<1>3. events' \in 0..MaxEvents
  BY <1>1, FeedPagingAssumption DEF Restart, Event, GraphTyped
<1>4. GraphTyped'
  BY <1>1, <1>2, <1>3 DEF GraphTyped
<1>5. HistoriesGood'
  BY <1>1, RestoredHistories
<1>6. SessionsTyped' /\ SessionsBounded' /\ DOMAIN sessions' = {}
  BY <1>2, NoSessions
<1>7. \A d \in Devices : dev'[d] \in Requests /\ dev'[d].phase = "idle" /\ ~dev'[d].uid /\ dev'[d].at = 0
  <2> TAKE d \in Devices
  <2>1. dev[d] \in Requests /\ dev[d].cursor \in Nat
    BY <1>1, RequestTypes
  <2> QED BY <1>2, <2>1, IdleRequest
<1>8. dev' \in [Devices -> Requests]
  <2>1. dev' = [d \in Devices |-> dev'[d]]
    BY <1>2
  <2> QED BY <1>7, <2>1
<1>9. ASSUME NEW d \in Devices PROVE (RequestOK(d) /\ ScrollHeld(d) /\ RequestVisible(d))'
  <2>1. 0 <= now'
    BY <1>1, <1>2
  <2> QED BY <1>2, <1>7, <2>1 DEF RequestOK, ScrollHeld, RequestVisible
<1>10. HiddenTracked'
  BY <1>2 DEF Inv, HiddenTracked, Hidden
<1> QED BY <1>4, <1>5, <1>6, <1>8, <1>9, <1>10 DEF Inv, Typed

(***************************************************************************)
(* Part three.  What holds of every run.                                   *)
(***************************************************************************)

(* Every step keeps the inductive invariant.                               *)
LEMMA Steps == Inv /\ [Next]_vars => Inv'
<1> SUFFICES ASSUME Inv, [Next]_vars PROVE Inv'
  OBVIOUS
<1>1. \A v \in Range(owner) \ {Anonymous} : v \in Viewers
  BY DEF Inv, Typed, GraphTyped, Range
<1>2. ASSUME NEW d \in Devices, Request(d, 0) \/ Request(d, dev[d].cursor) PROVE Inv'
  BY <1>2, RequestKeeps
<1>3. ASSUME NEW d \in Devices, Compose(d) PROVE Inv'
  BY <1>3, ComposeKeeps
<1>4. ASSUME NEW d \in Devices, CacheSession(d) PROVE Inv'
  BY <1>4, CacheSessionKeeps
<1>5. ASSUME NEW d \in Devices, Record(d) PROVE Inv'
  BY <1>5, RecordKeeps
<1>6. ASSUME NEW v \in Range(owner) \ {Anonymous}, NEW p \in Posts, Like(v, p) PROVE Inv'
  BY <1>1, <1>6, LikeKeeps
<1>7. ASSUME NEW v \in Range(owner) \ {Anonymous}, NEW a \in Accounts \ {v}, Block(v, a) PROVE Inv'
  BY <1>1, <1>7, BlockKeeps
<1>8. ASSUME NEW v \in Range(owner) \ {Anonymous}, NEW x \in Dials \ {prefs[v]}, SetPreferences(v, x)
      PROVE  Inv'
  BY <1>1, <1>8, SetPreferencesKeeps
<1>9. ASSUME NEW p \in Posts, DeletePost(p) PROVE Inv'
  BY <1>9, DeletePostKeeps
<1>10. CASE Tick
  BY <1>10, TickKeeps
<1>11. CASE PruneExpired
  BY <1>11, PruneExpiredKeeps
<1>12. CASE Compact
  BY <1>12, CompactKeepsInv
<1>13. CASE Restart
  BY <1>13, RestartKeeps
<1>14. CASE UNCHANGED vars
  <2>1. UNCHANGED <<now, owner, known, published, likes, blocked, prefs, history, sessions, dev, events,
                    hiddenAt, calm>>
    BY <1>14 DEF vars
  <2>2. GraphTyped' /\ HistoriesGood' /\ SessionsTyped' /\ SessionsBounded' /\ HiddenTracked'
        /\ dev' \in [Devices -> Requests]
    BY <2>1 DEF Inv, Typed, GraphTyped, HistoriesGood, SessionsTyped, SessionsBounded, HiddenTracked, Hidden
  <2>3. ASSUME NEW d \in Devices PROVE (RequestOK(d) /\ ScrollHeld(d) /\ RequestVisible(d))'
    <3>1. RequestOK(d) /\ ScrollHeld(d) /\ RequestVisible(d)
      BY DEF Inv
    <3>2. RequestOK(d)' /\ RequestVisible(d)'
      BY <2>1, <3>1 DEF RequestOK, RequestVisible, Named
    <3>3. (Held(d) => Held(d)') /\ (Continues(d) => Continues(d)')
      BY <2>1 DEF Held, Continues
    <3>4. ScrollHeld(d)'
      BY <2>1, <3>1, <3>3 DEF ScrollHeld
    <3> QED BY <3>2, <3>4
  <2>4. \A v \in DOMAIN sessions' : SessionVisible(v)'
    BY <2>1 DEF Inv, SessionVisible
  <2> QED BY <2>2, <2>3, <2>4 DEF Inv, Typed
<1> QED BY <1>2, <1>3, <1>4, <1>5, <1>6, <1>7, <1>8, <1>9, <1>10, <1>11, <1>12, <1>13, <1>14 DEF Next

(* The inductive invariant holds of every run.                             *)
THEOREM Invariant == Spec => []Inv
<1>1. Init => Inv
  BY Starts
<1>2. Inv /\ [Next]_vars => Inv'
  BY Steps
<1> QED BY <1>1, <1>2, PTL DEF Spec

(* Histories stay within their caps and their maps agree, sessions are     *)
(* those of known viewers and never more than the cap, whatever requests,  *)
(* deletions, prunings, compactions and restarts follow one another.       *)
THEOREM TypeCorrect == Spec => []TypeOK
<1>1. Inv => TypeOK
  <2> SUFFICES ASSUME Inv PROVE TypeOK
    OBVIOUS
  <2>1. GraphTyped /\ HistoriesGood /\ SessionsTyped /\ SessionsBounded /\ Typed
    BY DEF Inv, Typed
  <2>2. \A v \in Viewers : HistoryOK(history[v]) /\ blocked[v] \subseteq Accounts
    BY <2>1 DEF HistoriesGood, GoodHistory, GraphTyped
  <2>3. \A d \in Devices : dev[d].phase \in {"idle", "compose", "cache", "record"}
    BY <2>1, RequestTypes
  <2> QED BY <2>1, <2>2, <2>3 DEF TypeOK, GraphTyped, SessionsTyped, SessionsBounded
<1> QED BY <1>1, Invariant, PTL

(* Impressions are forgotten: every timestamp a history keeps is that of   *)
(* an entry of its queue, where the cap and the pruning reach it.          *)
THEOREM TimestampsQueued == Spec => []RememberedIsQueued
<1>1. Inv => RememberedIsQueued
  BY DEF Inv, Typed, HistoriesGood, GoodHistory, Remembers, RememberedIsQueued
<1> QED BY <1>1, Invariant, PTL

(* The next page of a known viewer's scroll is the next slice of what its  *)
(* first page was cut from, for any number of devices and sessions.        *)
THEOREM ScrollsContinue == Spec => []PagesContinue
<1>1. Inv => PagesContinue
  <2> SUFFICES ASSUME Inv, NEW d \in Devices, LaterPage(d), dev[d].firstUid, calm[d],
                      dev[d].at <= dev[d].firstAt + TTL
               PROVE  Continues(d)
    BY DEF PagesContinue
  <2>1. ScrollHeld(d)
    BY DEF Inv
  <2> QED BY <2>1 DEF ScrollHeld, LaterPage
<1> QED BY <1>1, Invariant, PTL

(* A session serves what the viewer must not see for a TTL at most.        *)
THEOREM HiddenLeaves == Spec => []HiddenWithinTTL
<1>1. Inv => HiddenWithinTTL
  BY DEF Inv, RequestVisible, HiddenWithinTTL
<1> QED BY <1>1, Invariant, PTL

(* Only composing takes a request out of its composing phase with a page.  *)
LEMMA OnlyCompose ==
  ASSUME Inv, [Next]_vars, NEW d \in Devices,
         dev[d].phase = "compose", dev'[d].phase \in {"cache", "record"}
  PROVE  Compose(d)
<1>1. dev \in [Devices -> Requests]
  BY DEF Inv, Typed
<1>2. dev' # dev
  OBVIOUS
<1>3. ASSUME NEW e \in Devices, NEW c, Request(e, c) PROVE FALSE
  <2>1. e # d
    BY <1>3 DEF Request
  <2>2. dev'[d] = dev[d]
    BY <1>1, <1>3, <2>1 DEF Request
  <2> QED BY <2>2
<1>4. ASSUME NEW e \in Devices, e # d, Compose(e) PROVE FALSE
  <2>1. dev'[d] = dev[d]
    BY <1>1, <1>4 DEF Compose
  <2> QED BY <2>1
<1>5. ASSUME NEW e \in Devices, CacheSession(e) PROVE FALSE
  <2>1. e # d
    BY <1>5 DEF CacheSession
  <2>2. dev'[d] = dev[d]
    BY <1>1, <1>5, <2>1 DEF CacheSession
  <2> QED BY <2>2
<1>6. ASSUME NEW e \in Devices, Record(e) PROVE FALSE
  <2>1. e # d
    BY <1>6 DEF Record
  <2>2. dev'[d] = dev[d]
    BY <1>1, <1>6, <2>1 DEF Record
  <2> QED BY <2>2
<1>7. ASSUME Restart PROVE FALSE
  <2>1. dev'[d].phase = "idle"
    <3>1. dev[d] \in Requests /\ dev[d].cursor \in Nat
      BY <1>1 DEF Requests
    <3>2. dev'[d] = Answered(dev[d], dev[d].cursor)
      BY <1>7 DEF Restart
    <3> QED BY <3>1, <3>2, IdleRequest
  <2> QED BY <2>1
<1> QED BY <1>2, <1>3, <1>4, <1>5, <1>6, <1>7
     DEF Next, vars, Like, Block, SetPreferences, DeletePost, Tick, PruneExpired, Compact

(* What a composing step lists is the ranking of its request.              *)
LEMMA ComposedList ==
  ASSUME Inv, NEW d \in Devices, Compose(d)
  PROVE  /\ GraphOK(GraphOf(d)) /\ GoodHistory(HistoryOf(d))
         /\ dev[d].dials \in Dials /\ dev[d].at \in Nat
         /\ dev'[d].list = Ranking(GraphOf(d), dev[d].dials, HistoryOf(d), dev[d].at)
         /\ dev[d].uid => GraphOf(d).viewer # NoAccount /\ owner[d] \in Viewers
<1> DEFINE list == Ranking(GraphOf(d), dev[d].dials, HistoryOf(d), dev[d].at)
<1>1. Typed /\ RequestOK(d) /\ HiddenTracked /\ dev \in [Devices -> Requests]
  BY DEF Inv, Typed
<1>2. dev[d] \in Requests /\ dev[d].dials \in Dials /\ dev[d].at \in Nat
  BY <1>1, RequestTypes
<1>3. /\ GraphOK(GraphOf(d)) /\ GoodHistory(HistoryOf(d)) /\ list \in Seq(Posts)
      /\ dev[d].uid => GraphOf(d).viewer # NoAccount /\ owner[d] \in Viewers
  BY <1>1, RanksVisible
<1>4. dev'[d] = Cut(dev[d], list)
  BY <1>1 DEF Compose
<1> HIDE DEF list
<1>5. dev'[d].list = list
  BY <1>2, <1>3, <1>4, CutOf
<1> QED BY <1>2, <1>3, <1>5 DEF list

(* No scored post that the viewer has not seen comes after one that still  *)
(* fatigues, whatever the scores, the recovery and the counts are.         *)
THEOREM UnseenComeFirst == Spec => UnseenFirst
<1>1. ASSUME Inv, [Next]_vars, NEW d \in Devices,
             dev[d].phase = "compose", dev'[d].phase \in {"cache", "record"}, dev[d].uid,
             NEW i \in DOMAIN dev'[d].list, NEW j \in DOMAIN dev'[d].list, i < j,
             Fatigued(history[owner[d]], dev'[d].list[i], dev[d].at),
             ~Fatigued(history[owner[d]], dev'[d].list[j], dev[d].at)
      PROVE  Weight(dev'[d].list[j], dev[d].dials) = 0
  <2>1. Compose(d)
    BY <1>1, OnlyCompose
  <2>2. /\ GraphOK(GraphOf(d)) /\ GoodHistory(HistoryOf(d))
        /\ dev[d].dials \in Dials /\ dev[d].at \in Nat
        /\ dev'[d].list = Ranking(GraphOf(d), dev[d].dials, HistoryOf(d), dev[d].at)
        /\ GraphOf(d).viewer # NoAccount
    BY <1>1, <2>1, ComposedList
  <2>3. HistoryOf(d) = history[owner[d]]
    BY <1>1 DEF HistoryOf
  <2> DEFINE g == GraphOf(d)
             h == HistoryOf(d)
             list == dev'[d].list
  <2> HIDE DEF g, h, list
  <2>4. \A m, n \in DOMAIN list :
          m < n /\ Fatigued(h, list[m], dev[d].at) /\ ~Fatigued(h, list[n], dev[d].at)
            => Weight(list[n], dev[d].dials) = 0
    BY <2>2, RankingLists DEF g, h, list
  <2> QED BY <1>1, <2>3, <2>4 DEF h, list
<1> DEFINE A == \A d \in Devices :
                  dev[d].phase = "compose" /\ dev'[d].phase \in {"cache", "record"} /\ dev[d].uid =>
                    LET list == dev'[d].list
                        h == history[owner[d]]
                        served(p) == Fatigued(h, p, dev[d].at)
                    IN \A i, j \in DOMAIN list :
                         i < j /\ served(list[i]) /\ ~served(list[j]) => Weight(list[j], dev[d].dials) = 0
<1>2. Inv /\ [Next]_vars => [A]_vars
  BY <1>1
<1>3. Spec => [][A]_vars
  <2> HIDE DEF A
  <2> QED BY <1>2, Invariant, PTL DEF Spec
<1> QED BY <1>3 DEF UnseenFirst

(* The preview's candidates are the feed's, and where the co-interaction   *)
(* walk finds some its ranking is the feed's, for any graph of accounts,   *)
(* weights and history.                                                    *)
THEOREM PreviewsAgree == Spec => PreviewAgrees
<1>1. ASSUME Inv, [Next]_vars, NEW d \in Devices,
             dev[d].phase = "compose", dev'[d].phase \in {"cache", "record"}, dev[d].cursor = 0,
             dev[d].uid => FollowsOf[owner[d]] \intersect blocked[owner[d]] = {}
      PROVE  SameAsPreview(d, GraphOf(d), dev[d].dials)
  <2> DEFINE g == GraphOf(d)
             dials == dev[d].dials
             h == HistoryOf(d)
             t == dev[d].at
             list == dev'[d].list
             F(s) == UnseenFirstCeiling([p \in DOMAIN s |-> s[p] * Penalty(h, p, t)],
                                        {p \in DOMAIN s : Fatigued(h, p, t)},
                                        {p \in DOMAIN s : s[p] > 0 /\ ~Fatigued(h, p, t)})
  <2>1. Compose(d)
    BY <1>1, OnlyCompose
  <2>2. /\ GraphOK(g) /\ dials \in Dials /\ list = Ranking(g, dials, h, t)
        /\ dev[d].uid => g.viewer # NoAccount
    BY <1>1, <2>1, ComposedList
  <2>3. dev[d].uid \in BOOLEAN
    BY <1>1, RequestTypes DEF Inv
  <2>4. g.viewer # NoAccount => Followed(g) = FollowsOf[g.viewer]
    <3>1. ~dev[d].uid => g.viewer = NoAccount
      BY DEF GraphOf
    <3>2. dev[d].uid => g.viewer = owner[d] /\ g.blocked = blocked[owner[d]]
      BY DEF GraphOf
    <3> HIDE DEF g
    <3> QED BY <1>1, <2>3, <3>1, <3>2 DEF Followed
  <2> HIDE DEF g, dials, h, t, list
  <2>5. /\ DOMAIN PreviewScores(g, dials) = DOMAIN Candidates(g, dials).score
        /\ g.viewer # NoAccount /\ Cardinality(g.likes) >= Tier1Likes
             /\ DOMAIN PreviewTier1(g, dials) # {}
           => Candidates(g, dials).score = PreviewScores(g, dials)
    BY <2>2, <2>4, PreviewLists
  <2>6. \A c : FatiguedScores(c, h, t) = F(c.score)
    BY DEF FatiguedScores
  <2> HIDE DEF F
  <2>7. ASSUME g.viewer # NoAccount, Cardinality(g.likes) >= Tier1Likes,
               DOMAIN PreviewTier1(g, dials) # {}
        PROVE  list = PreviewRanking(g, dials, h, t)
    <3>1. list = ByScore(FatiguedScores(Candidates(g, dials), h, t))
      BY <2>2, <2>7 DEF Ranking, Ranked
    <3>2. FatiguedScores(Candidates(g, dials), h, t) = F(PreviewScores(g, dials))
      BY <2>5, <2>6, <2>7
    <3>3. FatiguedScores([score |-> PreviewScores(g, dials)], h, t) = F(PreviewScores(g, dials))
      BY <2>6
    <3> QED BY <3>1, <3>2, <3>3 DEF PreviewRanking
  <2> QED BY <2>5, <2>7 DEF SameAsPreview, g, dials, h, t, list
<1> DEFINE A == \A d \in Devices :
                  dev[d].phase = "compose" /\ dev'[d].phase \in {"cache", "record"} /\ dev[d].cursor = 0
                    /\ (dev[d].uid => FollowsOf[owner[d]] \intersect blocked[owner[d]] = {}) =>
                    SameAsPreview(d, GraphOf(d), dev[d].dials)
<1>2. Inv /\ [Next]_vars => [A]_vars
  BY <1>1
<1>3. Spec => [][A]_vars
  <2> HIDE DEF A
  <2> QED BY <1>2, Invariant, PTL DEF Spec
<1> QED BY <1>3 DEF PreviewAgrees

(* Pruning forgets only impressions that no longer count, compaction and   *)
(* the snapshot keep the others: the published posts tire every viewer as  *)
(* much after maintenance or a restart as before.                          *)
THEOREM FatigueKeptThroughout == Spec => MaintenanceKeepsFatigue
<1>1. ASSUME Inv, [Next]_vars, now' = now, dev' = dev, history' # history,
             NEW v \in Viewers, NEW p \in published
      PROVE  Penalty(history'[v], p, now) = Penalty(history[v], p, now)
  <2>1. HistoriesGood /\ GraphTyped /\ dev \in [Devices -> Requests]
    BY <1>1 DEF Inv, Typed
  <2>2. HistoriesGood'
    BY <1>1, Steps DEF Inv, Typed
  <2>3. ~\E d \in Devices : Record(d)
    <3> SUFFICES ASSUME NEW d \in Devices, Record(d) PROVE FALSE
      OBVIOUS
    <3>1. dev[d] \in Requests /\ dev[d].next \in Nat
      BY <2>1 DEF Requests
    <3>2. dev'[d] = Answered(dev[d], dev[d].next) /\ dev[d].phase = "record"
      BY <2>1 DEF Record
    <3>3. dev'[d].phase = "idle"
      BY <3>1, <3>2, IdleRequest
    <3> QED BY <1>1, <3>2, <3>3
  <2>4. PruneExpired \/ Compact \/ Restart
    BY <1>1, <2>3 DEF Next, vars, Request, Compose, CacheSession, Like, Block, SetPreferences,
       DeletePost, Tick
  <2>5. FatigueKept
    BY <2>1, <2>4, PruneHistories, CompactHistories, RestoredHistories
  <2>6. GoodHistory(history[v]) /\ GoodHistory(history'[v])
    BY <2>1, <2>2 DEF HistoriesGood
  <2> QED BY <2>5, <2>6, SamePenalty DEF FatigueKept
<1> DEFINE A == now' = now /\ dev' = dev /\ history' # history =>
                  \A v \in Viewers : \A p \in published :
                    Penalty(history'[v], p, now) = Penalty(history[v], p, now)
<1>2. Inv /\ [Next]_vars => [A]_vars
  BY <1>1
<1>3. Spec => [][A]_vars
  <2> HIDE DEF A
  <2> QED BY <1>2, Invariant, PTL DEF Spec
<1> QED BY <1>3 DEF MaintenanceKeepsFatigue
=============================================================================
