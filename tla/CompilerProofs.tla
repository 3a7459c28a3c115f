--------------------------- MODULE CompilerProofs ---------------------------
(***************************************************************************)
(* Proofs about Compiler, for every set of inputs and every value of the   *)
(* limits: the graph means what the itinerary means, every edge points     *)
(* forward, and the order of the edges leaves nothing to chance.           *)
(*                                                                         *)
(* IInv says what the loops have produced so far: NodesAre places the      *)
(* nodes of the first activities of the order, EdgesAre lists the edges,   *)
(* no two of them between the same nodes.  The sort permutes them by a     *)
(* rank; Ranking is about ranks, whatever the order they come from.        *)
(*                                                                         *)
(* The second half is about Codec, which sorts by ranks as well: what is   *)
(* accepted is canonical, and how a document orders what it lists makes no *)
(* difference.  DInv says what the decoder has read so far.                *)
(***************************************************************************)
EXTENDS Compiler, Codec, FiniteSetTheorems, TLAPS

-----------------------------------------------------------------------------
(* Sorting by rank.                                                        *)

(* R is a strict total order of S.                                         *)
StrictlyOrders(R, S) ==
    /\ \A i \in S : <<i, i>> \notin R
    /\ \A i, j, m \in S : <<i, j>> \in R /\ <<j, m>> \in R => <<i, m>> \in R
    /\ \A i, j \in S : i = j \/ <<i, j>> \in R \/ <<j, i>> \in R

RankIn(R, S, i) == 1 + Cardinality({j \in S : <<j, i>> \in R})

(* The ranks of a strict total order number the set from one on, in that   *)
(* order: to put at l an element of rank l is to permute the set.          *)
LEMMA Ranking ==
  ASSUME NEW n \in Nat, NEW R, StrictlyOrders(R, 1..n),
         NEW at, DOMAIN at = 1..n, at = [l \in 1..n |-> at[l]],
         \A l \in 1..n : (\E i \in 1..n : RankIn(R, 1..n, i) = l)
                            => at[l] \in 1..n /\ RankIn(R, 1..n, at[l]) = l
  PROVE  /\ at \in Bijection(1..n, 1..n)
         /\ \A l, m \in 1..n : l < m => <<at[l], at[m]>> \in R
<1> DEFINE S == 1..n
           below(i) == {j \in S : <<j, i>> \in R}
           rank == [i \in S |-> RankIn(R, S, i)]
<1>1. IsFiniteSet(S) /\ Cardinality(S) = n
  BY FS_Interval
<1>2. ASSUME NEW i \in S PROVE rank[i] \in S
  <2>1. below(i) \subseteq S /\ i \notin below(i)
    BY DEF StrictlyOrders
  <2>2. /\ IsFiniteSet(below(i)) /\ Cardinality(below(i)) \in Nat
        /\ Cardinality(below(i)) < n
    <3> HIDE DEF below, S
    <3>1. IsFiniteSet(below(i)) /\ Cardinality(below(i)) <= n
      BY <1>1, <2>1, FS_Subset
    <3>2. Cardinality(below(i)) # n  BY <1>1, <2>1, FS_Subset
    <3> QED  BY <3>1, <3>2, FS_CardinalityType
  <2>3. rank[i] = 1 + Cardinality(below(i))  BY DEF RankIn
  <2> HIDE DEF below, rank
  <2> QED  BY <2>2, <2>3
<1>3. ASSUME NEW i \in S, NEW j \in S, <<i, j>> \in R PROVE rank[i] < rank[j]
  <2>1. below(i) \subseteq below(j) /\ i \in below(j) /\ i \notin below(i)
        /\ below(j) \subseteq S
    BY <1>3 DEF StrictlyOrders
  <2>2. rank[i] = 1 + Cardinality(below(i)) /\ rank[j] = 1 + Cardinality(below(j))
    BY DEF RankIn
  <2> HIDE DEF below, S, rank
  <2>3. IsFiniteSet(below(j))  BY <1>1, <2>1, FS_Subset
  <2>4. /\ IsFiniteSet(below(i)) /\ Cardinality(below(i)) <= Cardinality(below(j))
        /\ Cardinality(below(i)) # Cardinality(below(j))
    BY <2>1, <2>3, FS_Subset
  <2> QED  BY <2>2, <2>3, <2>4, FS_CardinalityType
<1>4. ASSUME NEW i \in S, NEW j \in S, rank[i] = rank[j] PROVE i = j
  <2>1. rank[i] \in Int  BY <1>2
  <2>2. i = j \/ <<i, j>> \in R \/ <<j, i>> \in R  BY DEF StrictlyOrders
  <2> HIDE DEF rank
  <2>3. <<i, j>> \notin R /\ <<j, i>> \notin R  BY <1>3, <1>4, <2>1
  <2> QED  BY <2>2, <2>3
<1>5. rank \in Injection(S, S)
  BY <1>2, <1>4 DEF Injection, IsInjective
<1>6. rank \in Surjection(S, S)
  BY <1>1, <1>5, FS_Injection
<1>7. ASSUME NEW l \in S PROVE at[l] \in S /\ rank[at[l]] = l
  <2>1. PICK i \in S : rank[i] = l  BY <1>6 DEF Surjection
  <2> QED  BY <2>1
<1>8. at \in Injection(S, S)
  BY <1>7 DEF Injection, IsInjective
<1>9. at \in Surjection(S, S)
  BY <1>1, <1>8, FS_Injection
<1>10. ASSUME NEW l \in S, NEW m \in S, l < m PROVE <<at[l], at[m]>> \in R
  <2> HIDE DEF rank
  <2>1. l \in Int /\ m \in Int  OBVIOUS
  <2>2. at[l] # at[m]  BY <1>7, <1>10, <2>1
  <2>3. <<at[m], at[l]>> \notin R  BY <1>3, <1>7, <1>10, <2>1
  <2> QED  BY <1>7, <2>2, <2>3 DEF StrictlyOrders
<1> QED  BY <1>8, <1>9, <1>10 DEF Bijection

(* Lists that differ in the first two numbers are compared by them.        *)
LEMMA FirstTwoDecide ==
  ASSUME NEW s \in Seq(Int), NEW r \in Seq(Int), Len(s) >= 2, Len(r) >= 2,
         s[1] # r[1] \/ s[2] # r[2]
  PROVE  /\ LexBefore(s, r) <=> s[1] < r[1] \/ (s[1] = r[1] /\ s[2] < r[2])
         /\ s # r
<1>1. LexBefore(s, r) => s[1] < r[1] \/ (s[1] = r[1] /\ s[2] < r[2])
  <2> SUFFICES ASSUME NEW i \in DOMAIN s, s[i] < r[i], \A l \in 1..(i - 1) : s[l] = r[l]
               PROVE  s[1] < r[1] \/ (s[1] = r[1] /\ s[2] < r[2])
    BY DEF LexBefore
  <2>1. CASE i = 1  BY <2>1
  <2>2. CASE i = 2
    <3>1. 1 \in 1..(i - 1)  BY <2>2
    <3> QED  BY <2>2, <3>1
  <2>3. CASE i > 2
    <3>1. 1 \in 1..(i - 1) /\ 2 \in 1..(i - 1)  BY <2>3
    <3> QED  BY <3>1
  <2> QED  BY <2>1, <2>2, <2>3
<1>2. s[1] < r[1] => LexBefore(s, r)
  <2>1. 1 \in DOMAIN s /\ \A l \in 1..(1 - 1) : FALSE  OBVIOUS
  <2> QED  BY <2>1 DEF LexBefore
<1>3. s[1] = r[1] /\ s[2] < r[2] => LexBefore(s, r)
  <2>1. 2 \in DOMAIN s /\ \A l \in 1..(2 - 1) : l = 1  OBVIOUS
  <2> QED  BY <2>1 DEF LexBefore
<1> QED  BY <1>1, <1>2, <1>3

-----------------------------------------------------------------------------
(* What an accepted itinerary is like.                                     *)

TimedActivity == [id: Nat, release: Nat, min: Nat, max: Nat, deadline: Nat]

WellFormed(it) ==
    /\ it.activities \in Seq(TimedActivity) /\ it.activities # << >>
    /\ it.transfers \in Seq(Transfer)
    /\ \A t \in Range(it.transfers) : {t.from, t.to} \subseteq IdsOf(it) /\ t.min \in Nat
    /\ \A i, l \in DOMAIN it.transfers :
          i < l => \/ it.transfers[i].from # it.transfers[l].from
                   \/ it.transfers[i].to # it.transfers[l].to

(* A chain of checks objects to nothing exactly when each of them does.    *)
LEMMA NeitherFault == ASSUME NEW f, NEW g
                      PROVE  (f ?? g) = {} <=> f = {} /\ g = {}
  BY DEF ??

(* An itinerary nobody objects to is well formed.                          *)
LEMMA NoObjections ==
  ASSUME NEW it \in Itinerary, Objections(it) = {}
  PROVE  WellFormed(it)
<1> DEFINE acts == it.activities
           trs  == it.transfers
           h    == it.horizon
<1>1. /\ HeaderObjections(it) = {} /\ ActivityObjections(it) = {}
      /\ TransferObjections(it) = {}
  BY NeitherFault DEF Objections
<1>2. /\ h \in Nat
      /\ acts \in Seq(Activity \cup {Malformed}) /\ Len(acts) # 0
      /\ trs \in Seq(Transfer \cup {Malformed})
  <2>1. it # Malformed  BY <1>1 DEF HeaderObjections
  <2>2. /\ Blame(\/ it.schema = Malformed \/ h = Malformed
                 \/ acts = Malformed \/ trs = Malformed, "INVALID_TYPE") = {}
        /\ Blame(\/ it.schema # 1
                 \/ Outside(h, 1, MaxHorizon)
                 \/ acts # Malformed /\ Len(acts) \notin 1..MaxActivities
                 \/ trs # Malformed /\ Len(trs) > MaxTransfers,
                 "OUT_OF_RANGE") = {}
    BY <1>1, <2>1 DEF HeaderObjections
  <2>3. /\ h # Malformed /\ acts # Malformed /\ trs # Malformed
        /\ ~Outside(h, 1, MaxHorizon) /\ Len(acts) \in 1..MaxActivities
    BY <2>2 DEF Blame
  <2> QED
    BY <2>3, MalformedAssumption, LimitsAssumption DEF Itinerary, Number, Outside
<1>3. ASSUME NEW x \in Range(acts) PROVE x \in TimedActivity
  <2> DEFINE records == Range(acts) \ {Malformed}
             typed   == {y \in records : \A f \in {"release", "min", "max", "deadline"} :
                                          y[f] # Malformed}
  <2>1. Range(acts) = typed /\ \A y \in records : y.id # Malformed
    BY <1>1 DEF ActivityObjections, Blame
  <2>2. \A y \in records : /\ ~Outside(y.release, 0, h) /\ ~Outside(y.min, 1, h)
                           /\ ~Outside(y.max, 1, h) /\ ~Outside(y.deadline, 1, h)
    BY <1>1 DEF ActivityObjections, Blame
  <2>3. /\ x # Malformed /\ x.id # Malformed /\ x.release # Malformed
        /\ x.min # Malformed /\ x.max # Malformed /\ x.deadline # Malformed
    BY <2>1
  <2>4. x \in Activity  BY <1>2, <1>3, <2>3 DEF Range
  <2>5. /\ ~Outside(x.release, 0, h) /\ ~Outside(x.min, 1, h)
        /\ ~Outside(x.max, 1, h) /\ ~Outside(x.deadline, 1, h)
    BY <2>2, <2>3
  <2> QED
    BY <2>3, <2>4, <2>5, MalformedAssumption
       DEF Outside, Activity, Number, Identifier, TimedActivity
<1>4. /\ Malformed \notin Range(trs)
      /\ \A t \in Range(trs) : /\ t.min # Malformed /\ ~Outside(t.min, 0, h)
                              /\ {t.from, t.to} \subseteq IdsOf(it)
      /\ ~Twins(trs, LAMBDA t, u : /\ t # Malformed /\ u # Malformed
                                   /\ t.from = u.from /\ t.to = u.to)
  BY <1>1 DEF TransferObjections, Blame
<1>5. trs \in Seq(Transfer)
  <2>1. \A i \in DOMAIN trs : trs[i] # Malformed  BY <1>4 DEF Range
  <2> HIDE DEF trs
  <2> QED  BY <1>2, <2>1
<1>6. ASSUME NEW t \in Range(trs) PROVE {t.from, t.to} \subseteq IdsOf(it) /\ t.min \in Nat
  <2>1. t \in Transfer  BY <1>5 DEF Range
  <2>2. t.min # Malformed /\ ~Outside(t.min, 0, h)  BY <1>4
  <2>3. t.min \in Nat
    BY <2>1, <2>2, MalformedAssumption DEF Transfer, Number, Outside
  <2> QED  BY <1>4, <2>3
<1>7. ASSUME NEW i \in DOMAIN trs, NEW l \in DOMAIN trs, i < l
      PROVE  trs[i].from # trs[l].from \/ trs[i].to # trs[l].to
  <2>1. trs[i] # Malformed /\ trs[l] # Malformed  BY <1>4 DEF Range
  <2> QED  BY <1>4, <1>7, <2>1 DEF Twins
<1>8. acts \in Seq(TimedActivity) /\ acts # << >>
  BY <1>2, <1>3 DEF Range
<1> QED  BY <1>5, <1>6, <1>7, <1>8 DEF WellFormed

(* The record of an activity is the one with its identifier.               *)
LEMMA TheActivity ==
  ASSUME NEW it, WellFormed(it), NEW a \in IdsOf(it)
  PROVE  ActivityOf(it, a) \in TimedActivity /\ a \in Nat
<1>1. PICK x \in Range(it.activities) : x.id = a
  BY DEF IdsOf
<1>2. /\ ActivityOf(it, a) \in Range(it.activities)
      /\ ActivityOf(it, a).id = a
  BY <1>1 DEF ActivityOf
<1>3. ActivityOf(it, a) \in TimedActivity
  BY <1>2 DEF WellFormed, Range
<1> QED  BY <1>2, <1>3 DEF TimedActivity

(* What the order of an accepted itinerary is like.                        *)
OrderOf(it) ==
    /\ order \in Seq(IdsOf(it)) /\ Len(order) >= 1
    /\ Range(order) = IdsOf(it)
    /\ IsInjective(order)
    /\ \A i, l \in DOMAIN order : <<order[i], order[l]>> \in EdgesOf(it) => i < l

LEMMA AcceptedOrder ==
  ASSUME NEW it, WellFormed(it),
         order \in Bijection(1..Cardinality(IdsOf(it)), IdsOf(it)),
         IsLeastOrder(order, IdsOf(it), EdgesOf(it))
  PROVE  OrderOf(it)
<1>1. /\ IsTopological(order, IdsOf(it), EdgesOf(it))
      /\ order \in [1..Cardinality(IdsOf(it)) -> IdsOf(it)] /\ IsInjective(order)
  BY DEF IsLeastOrder, Bijection, Injection, IsInjective
<1>2. Cardinality(IdsOf(it)) \in Nat
  <2> DEFINE n == Len(it.activities)
             f == [i \in 1..n |-> it.activities[i].id]
  <2>1. n \in Nat /\ DOMAIN it.activities = 1..n  BY DEF WellFormed
  <2>2. f \in Surjection(1..n, IdsOf(it))
    BY <2>1 DEF Surjection, IdsOf, Range
  <2>3. IsFiniteSet(1..n)
    <3>1. 1 \in Int /\ n \in Int  BY <2>1
    <3> HIDE DEF n
    <3> QED  BY <3>1, FS_Interval
  <2>4. IsFiniteSet(IdsOf(it))  BY <2>2, <2>3, FS_Surjection
  <2> QED  BY <2>4, FS_CardinalityType
<1>3. order \in Seq(IdsOf(it)) /\ Range(order) = IdsOf(it)
      /\ DOMAIN order = 1..Len(order) /\ Len(order) \in Nat
  <2>1. order \in Seq(IdsOf(it))  BY <1>1, <1>2
  <2> QED  BY <1>1, <2>1 DEF IsTopological
<1>4. Len(order) >= 1
  <2>1. it.activities[1].id \in IdsOf(it)
    BY DEF WellFormed, IdsOf, Range
  <2>2. PICK i \in DOMAIN order : order[i] = it.activities[1].id
    BY <1>3, <2>1 DEF Range
  <2> QED  BY <1>3, <2>2
<1> QED  BY <1>1, <1>3, <1>4 DEF OrderOf, IsTopological

-----------------------------------------------------------------------------
(* What the loops have produced.                                           *)

Ends(e) == <<e.source, e.target>>

(* No two elements of s join the same nodes.                               *)
DistinctEnds(s) == \A i, l \in DOMAIN s : Ends(s[i]) = Ends(s[l]) => i = l

(* s lists the edges of S, no two of them between the same nodes.          *)
Lists(s, S) == s \in Seq(S) /\ Range(s) = S /\ DistinctEnds(s)

NoSharedEnds(S, T) == \A e \in S, f \in T : Ends(e) # Ends(f)

NodeSet == {Anchor} \cup {StartNode(a) : a \in Ids} \cup {FinishNode(a) : a \in Ids}

(* The nodes of the first n activities of the order.                       *)
NodesAre(n) ==
    /\ nodes \in Seq(NodeSet) /\ Len(nodes) = 2 * n + 1 /\ nodes[1] = Anchor
    /\ \A i \in 1..n : /\ nodes[2 * i] = StartNode(order[i])
                      /\ nodes[2 * i + 1] = FinishNode(order[i])

(* The edges of the first n activities and the first m transfers.          *)
Wanted(n, m) ==
    (UNION {Range(ActivityEdges(order[i])) : i \in 1..n})
    \cup {TransferEdge(itinerary.transfers[i]) : i \in 1..m}

EdgesAre(n, m) == Lists(edges, Wanted(n, m))

(* Sorted by the positions of their ends alone.                            *)
SortedByEnds ==
    \A i, l \in DOMAIN edges : i < l =>
        LexBefore(<<Position(edges[i].source), Position(edges[i].target)>>,
                  <<Position(edges[l].source), Position(edges[l].target)>>)

IInv ==
    /\ WellFormed(itinerary) /\ OrderOf(itinerary)
    /\ pc \in {"nodes", "edges", "transfers", "done"}
    /\ k \in Nat \ {0}
    /\ pc = "nodes" => k <= Len(order) /\ NodesAre(k - 1) /\ edges = << >>
    /\ pc # "nodes" => NodesAre(Len(order))
    /\ pc = "edges" => k <= Len(order) /\ EdgesAre(k - 1, 0)
    /\ pc = "transfers" => /\ k <= Len(itinerary.transfers) + 1
                           /\ EdgesAre(Len(order), k - 1)
    /\ pc = "done" => EdgesAre(Len(order), Len(itinerary.transfers)) /\ SortedByEnds

(* A sequence after another.                                               *)
LEMMA Joined ==
  ASSUME NEW S, NEW s \in Seq(S), NEW T, NEW t \in Seq(T)
  PROVE  /\ Len(s) \in Nat /\ Len(t) \in Nat
         /\ DOMAIN s = 1..Len(s) /\ DOMAIN t = 1..Len(t)
         /\ s \o t \in Seq(S \cup T) /\ DOMAIN (s \o t) = 1..(Len(s) + Len(t))
         /\ \A i \in 1..Len(s) : (s \o t)[i] = s[i]
         /\ \A i \in 1..Len(t) : (s \o t)[Len(s) + i] = t[i]
  OBVIOUS

(* Two lists of edges that share no ends make one.                         *)
LEMMA Together ==
  ASSUME NEW S, NEW s, Lists(s, S), NEW T, NEW t, Lists(t, T), NoSharedEnds(S, T)
  PROVE  Lists(s \o t, S \cup T)
<1> DEFINE c == s \o t
<1>0. /\ s \in Seq(S) /\ Range(s) = S /\ DistinctEnds(s)
      /\ t \in Seq(T) /\ Range(t) = T /\ DistinctEnds(t)
      /\ \A e \in Range(s), f \in Range(t) : Ends(e) # Ends(f)
  BY DEF Lists, NoSharedEnds
<1>1. /\ Len(s) \in Nat /\ Len(t) \in Nat
      /\ DOMAIN s = 1..Len(s) /\ DOMAIN t = 1..Len(t)
      /\ c \in Seq(S \cup T) /\ DOMAIN c = 1..(Len(s) + Len(t))
      /\ \A i \in 1..Len(s) : c[i] = s[i]
      /\ \A i \in 1..Len(t) : c[Len(s) + i] = t[i]
  BY ONLY <1>0, Joined
<1> HIDE DEF c
<1>2. ASSUME NEW i \in DOMAIN c
      PROVE  \/ i \in DOMAIN s /\ c[i] = s[i]
             \/ i - Len(s) \in DOMAIN t /\ c[i] = t[i - Len(s)]
  <2>1. CASE i <= Len(s)  BY <1>1, <2>1
  <2>2. CASE i > Len(s)
    <3>1. i - Len(s) \in 1..Len(t) /\ Len(s) + (i - Len(s)) = i  BY <1>1, <2>2
    <3> QED  BY <1>1, <3>1
  <2> QED  BY <1>1, <2>1, <2>2
<1>3. Range(c) = Range(s) \cup Range(t)
  <2>1. Range(c) \subseteq Range(s) \cup Range(t)
    BY <1>2 DEF Range
  <2>2. Range(s) \subseteq Range(c)  BY <1>1 DEF Range
  <2>3. ASSUME NEW i \in DOMAIN t PROVE t[i] \in Range(c)
    <3>1. Len(s) + i \in DOMAIN c /\ c[Len(s) + i] = t[i]  BY <1>1
    <3> QED  BY <3>1 DEF Range
  <2> QED  BY <2>1, <2>2, <2>3 DEF Range
<1>4. ASSUME NEW i \in DOMAIN c, NEW l \in DOMAIN c, Ends(c[i]) = Ends(c[l])
      PROVE  i = l
  <2>1. CASE i \in DOMAIN s /\ l \in DOMAIN s
    BY <1>0, <1>1, <1>4, <2>1 DEF DistinctEnds
  <2>2. CASE i \notin DOMAIN s /\ l \notin DOMAIN s
    <3>1. i - Len(s) = l - Len(s)  BY <1>0, <1>2, <1>4, <2>2 DEF DistinctEnds
    <3> QED  BY <1>1, <3>1
  <2>3. CASE i \in DOMAIN s /\ l \notin DOMAIN s
    <3>1. c[i] \in Range(s) /\ c[l] \in Range(t)  BY <1>1, <1>2, <2>3 DEF Range
    <3> QED  BY <1>0, <1>4, <3>1
  <2>4. CASE i \notin DOMAIN s /\ l \in DOMAIN s
    <3>1. c[l] \in Range(s) /\ c[i] \in Range(t)  BY <1>1, <1>2, <2>4 DEF Range
    <3> QED  BY <1>0, <1>4, <3>1
  <2> QED  BY <2>1, <2>2, <2>3, <2>4
<1>5. DistinctEnds(c)  BY <1>4 DEF DistinctEnds
<1> QED  BY <1>0, <1>1, <1>3, <1>5 DEF Lists, c

(* The edges of an activity, by their ends.                                *)
LEMMA EdgesOfActivity ==
  ASSUME NEW a
  PROVE  /\ Lists(ActivityEdges(a), Range(ActivityEdges(a)))
         /\ \A e \in Range(ActivityEdges(a)) :
               Ends(e) \in {<<Anchor, StartNode(a)>>, <<StartNode(a), FinishNode(a)>>,
                            <<Anchor, FinishNode(a)>>}
<1> DEFINE s == ActivityEdges(a)
<1>1. /\ s \in Seq(Range(s)) /\ DOMAIN s = {1, 2, 3}
      /\ Ends(s[1]) = <<Anchor, StartNode(a)>>
      /\ Ends(s[2]) = <<StartNode(a), FinishNode(a)>>
      /\ Ends(s[3]) = <<Anchor, FinishNode(a)>>
  <2> DEFINE x == ActivityOf(itinerary, a)
             e1 == Edge(Anchor, StartNode(a), "release", x.release, None)
             e2 == Edge(StartNode(a), FinishNode(a), "duration", x.min, x.max)
             e3 == Edge(Anchor, FinishNode(a), "hard_deadline", None, x.deadline)
  <2>1. s = <<e1, e2, e3>>  BY DEF ActivityEdges
  <2>2. /\ Ends(e1) = <<Anchor, StartNode(a)>>
        /\ Ends(e2) = <<StartNode(a), FinishNode(a)>>
        /\ Ends(e3) = <<Anchor, FinishNode(a)>>
    BY DEF Ends, Edge
  <2> HIDE DEF s, e1, e2, e3
  <2>3. DOMAIN s = {1, 2, 3} /\ s[1] = e1 /\ s[2] = e2 /\ s[3] = e3 /\ s \in Seq({e1, e2, e3})
    BY <2>1
  <2>4. Range(s) = {e1, e2, e3}  BY <2>3 DEF Range
  <2> QED  BY <2>2, <2>3, <2>4
<1>2. Anchor # StartNode(a) /\ Anchor # FinishNode(a) /\ StartNode(a) # FinishNode(a)
  BY DEF Anchor, StartNode, FinishNode
<1> HIDE DEF s
<1>3. /\ Ends(s[1]) # Ends(s[2]) /\ Ends(s[1]) # Ends(s[3]) /\ Ends(s[2]) # Ends(s[3])
  BY <1>1, <1>2
<1>4. DistinctEnds(s)  BY <1>1, <1>3 DEF DistinctEnds
<1>5. \A e \in Range(s) : Ends(e) \in {Ends(s[1]), Ends(s[2]), Ends(s[3])}
  BY <1>1 DEF Range
<1> QED  BY <1>1, <1>4, <1>5 DEF s, Lists

(* What depends on the input alone does not move.                          *)
LEMMA Unmoved ==
  ASSUME UNCHANGED <<itinerary, order>>
  PROVE  /\ Ids' = Ids /\ NodeSet' = NodeSet /\ OrderOf(itinerary)' = OrderOf(itinerary)
         /\ WellFormed(itinerary)' = WellFormed(itinerary)
         /\ \A n, m : Wanted(n, m)' = Wanted(n, m)
         /\ \A a : ActivityEdges(a)' = ActivityEdges(a)
<1>1. Ids' = Ids  BY DEF Ids
<1>2. NodeSet' = NodeSet  BY <1>1 DEF NodeSet
<1>3. OrderOf(itinerary)' = OrderOf(itinerary)  BY DEF OrderOf
<1>4. \A a : ActivityEdges(a)' = ActivityEdges(a)  BY DEF ActivityEdges
<1>5. \A n, m : Wanted(n, m)' = Wanted(n, m)  BY <1>4 DEF Wanted
<1> QED  BY <1>1, <1>2, <1>3, <1>4, <1>5

(* The nodes stay where they are in the later loops.                       *)
LEMMA NodesStay ==
  ASSUME UNCHANGED <<itinerary, order, nodes>>
  PROVE  \A n : NodesAre(n)' = NodesAre(n)
  BY Unmoved DEF NodesAre

(* IInv holds at the start.                                                *)
LEMMA Initially == Init => IInv
<1> SUFFICES ASSUME Init PROVE IInv  OBVIOUS
<1>1. /\ itinerary \in Itinerary /\ Objections(itinerary) = {}
      /\ order \in Bijection(1..Cardinality(Ids), Ids)
      /\ IsLeastOrder(order, Ids, EdgesOf(itinerary))
      /\ pc = "nodes" /\ k = 1 /\ nodes = <<Anchor>> /\ edges = << >>
  BY InputsAssumption DEF Init
<1>2. WellFormed(itinerary)  BY <1>1, NoObjections
<1>3. OrderOf(itinerary)  BY <1>1, <1>2, AcceptedOrder DEF Ids
<1>4. NodesAre(0)
  BY <1>1 DEF NodesAre, NodeSet
<1>5. k - 1 = 0  BY <1>1
<1> QED  BY <1>1, <1>2, <1>3, <1>4, <1>5 DEF IInv, OrderOf

(* One more activity has its nodes.                                        *)
LEMMA NodesKeep == IInv /\ AddNodes => IInv'
<1> SUFFICES ASSUME IInv, AddNodes PROVE IInv'  OBVIOUS
<1> DEFINE a == order[k]
           pair == <<StartNode(a), FinishNode(a)>>
<1>1. /\ pc = "nodes" /\ UNCHANGED <<itinerary, order, edges>>
      /\ nodes' = nodes \o pair /\ edges = << >>
      /\ k \in Nat \ {0} /\ k <= Len(order) /\ NodesAre(k - 1)
      /\ WellFormed(itinerary) /\ OrderOf(itinerary)
  BY DEF AddNodes, IInv
<1>2. a \in Ids /\ Len(order) \in Nat
  BY <1>1 DEF OrderOf, Ids
<1>3. StartNode(a) \in NodeSet /\ FinishNode(a) \in NodeSet
  BY <1>2 DEF NodeSet
<1>4. /\ nodes \in Seq(NodeSet) /\ Len(nodes) = 2 * (k - 1) + 1
      /\ nodes[1] = Anchor
      /\ \A i \in 1..(k - 1) : nodes[2 * i] = StartNode(order[i])
                              /\ nodes[2 * i + 1] = FinishNode(order[i])
  BY <1>1 DEF NodesAre
<1> HIDE DEF a
<1>5. /\ nodes' \in Seq(NodeSet) /\ Len(nodes') = 2 * k + 1
      /\ \A i \in 1..Len(nodes) : nodes'[i] = nodes[i]
      /\ nodes'[2 * k] = StartNode(a) /\ nodes'[2 * k + 1] = FinishNode(a)
  <2>1. pair \in Seq(NodeSet) /\ Len(pair) = 2 /\ pair[1] = StartNode(a) /\ pair[2] = FinishNode(a)
    BY <1>3
  <2> HIDE DEF pair
  <2>2. /\ nodes' \in Seq(NodeSet) /\ Len(nodes') = Len(nodes) + 2
        /\ \A i \in 1..Len(nodes) : nodes'[i] = nodes[i]
        /\ nodes'[Len(nodes) + 1] = pair[1] /\ nodes'[Len(nodes) + 2] = pair[2]
    <3>1. nodes \in Seq(NodeSet) /\ pair \in Seq(NodeSet)  BY <1>4, <2>1
    <3>2. /\ Len(nodes) \in Nat /\ nodes \o pair \in Seq(NodeSet \cup NodeSet)
          /\ DOMAIN (nodes \o pair) = 1..(Len(nodes) + Len(pair))
          /\ \A i \in 1..Len(nodes) : (nodes \o pair)[i] = nodes[i]
          /\ \A i \in 1..Len(pair) : (nodes \o pair)[Len(nodes) + i] = pair[i]
      BY ONLY <3>1, Joined
    <3>3. NodeSet \cup NodeSet = NodeSet  OBVIOUS
    <3>4. 1 \in 1..Len(pair) /\ 2 \in 1..Len(pair)  BY <2>1
    <3> QED  BY <1>1, <2>1, <3>2, <3>3, <3>4
  <2>3. Len(nodes) + 2 = 2 * k + 1 /\ Len(nodes) + 1 = 2 * k  BY <1>1, <1>4
  <2> QED  BY <2>1, <2>2, <2>3
<1>6. ASSUME NEW i \in 1..k
      PROVE  nodes'[2 * i] = StartNode(order[i]) /\ nodes'[2 * i + 1] = FinishNode(order[i])
  <2>1. CASE i = k  BY <2>1, <1>5 DEF a
  <2>2. CASE i # k
    <3>1. i \in 1..(k - 1) /\ 2 * i \in 1..Len(nodes) /\ 2 * i + 1 \in 1..Len(nodes)
      BY <1>1, <1>4, <2>2
    <3> QED  BY <1>4, <1>5, <3>1
  <2> QED  BY <2>1, <2>2
<1>7. nodes'[1] = Anchor  BY <1>1, <1>4, <1>5
<1>8. \A n : n = k => NodesAre(n)'
  BY <1>1, <1>5, <1>6, <1>7, Unmoved DEF NodesAre
<1>9. CASE k < Len(order)
  <2>1. k' = k + 1 /\ pc' = "nodes" /\ (k + 1) - 1 = k
    BY <1>1, <1>9 DEF AddNodes, Continue
  <2>2. NodesAre(k - 1)'
    <3>1. \A n : n = k' - 1 => NodesAre(n)'  BY <1>8, <2>1
    <3> QED  BY ONLY <3>1 DEF NodesAre
  <2>3. /\ k' \in Nat \ {0} /\ k' <= Len(order) /\ order' = order /\ edges' = << >>
        /\ pc' = "nodes"
    BY <1>1, <1>2, <1>9, <2>1
  <2>4. WellFormed(itinerary)' /\ OrderOf(itinerary)'
    BY <1>1, Unmoved
  <2>5. Len(order') = Len(order)  BY <2>3
  <2> QED  BY ONLY <2>2, <2>3, <2>4, <2>5 DEF IInv
<1>10. CASE ~(k < Len(order))
  <2>1. k' = 1 /\ pc' = "edges" /\ k = Len(order)
    BY <1>1, <1>2, <1>10 DEF AddNodes, Continue
  <2>2. NodesAre(Len(order))'
    BY <1>1, <1>8, <2>1 DEF NodesAre
  <2>3. EdgesAre(0, 0)'
    <3>1. \A n, m : n = 0 /\ m = 0 => Wanted(n, m) = {}  BY DEF Wanted
    <3>2. edges' = << >>  BY <1>1
    <3>3. Wanted(0, 0)' = {}  BY <1>1, <3>1, Unmoved
    <3> QED  BY <3>2, <3>3 DEF EdgesAre, Lists, DistinctEnds, Range
  <2>4. EdgesAre(k - 1, 0)'
    <3>1. k' - 1 = 0  BY <2>1
    <3> QED  BY <2>3, <3>1 DEF EdgesAre, Lists
  <2> QED
    BY <1>1, <1>2, <2>1, <2>2, <2>4, Unmoved DEF IInv, OrderOf
<1> QED  BY <1>9, <1>10

(* Nodes of different kinds or activities differ.                          *)
LEMMA NodesDiffer ==
  ASSUME NEW a, NEW b
  PROVE  /\ Anchor # StartNode(a) /\ Anchor # FinishNode(a) /\ StartNode(a) # FinishNode(b)
         /\ StartNode(a) = StartNode(b) => a = b
         /\ FinishNode(a) = FinishNode(b) => a = b
  BY DEF Anchor, StartNode, FinishNode

(* What was listed stays listed while nothing is added.                    *)
LEMMA EdgesStay ==
  ASSUME UNCHANGED <<itinerary, order, edges>>
  PROVE  \A n, m : EdgesAre(n, m)' = EdgesAre(n, m)
  BY Unmoved DEF EdgesAre, Lists, DistinctEnds

(* One more activity has its edges.                                        *)
LEMMA ActivityEdgesKeep == IInv /\ AddActivityEdges => IInv'
<1> SUFFICES ASSUME IInv, AddActivityEdges PROVE IInv'  OBVIOUS
<1> DEFINE a == order[k]
           new == ActivityEdges(a)
<1>1. /\ pc = "edges" /\ UNCHANGED <<itinerary, order, nodes>>
      /\ edges' = edges \o new
      /\ k \in Nat \ {0} /\ k <= Len(order) /\ EdgesAre(k - 1, 0)
      /\ NodesAre(Len(order)) /\ WellFormed(itinerary) /\ OrderOf(itinerary)
  BY DEF AddActivityEdges, IInv
<1>2. /\ Len(order) \in Nat /\ DOMAIN order = 1..Len(order) /\ IsInjective(order)
  BY <1>1 DEF OrderOf
<1>3. Wanted(k, 0) = Wanted(k - 1, 0) \cup Range(new)
  <2>1. 1..k = 1..(k - 1) \cup {k}  BY <1>1
  <2> QED  BY <2>1 DEF Wanted
<1>4. ASSUME NEW e \in Wanted(k - 1, 0), NEW f \in Range(new) PROVE Ends(e) # Ends(f)
  <2>1. PICK i \in 1..(k - 1) : e \in Range(ActivityEdges(order[i]))
    BY DEF Wanted
  <2>2. order[i] # a
    <3>1. i \in DOMAIN order /\ k \in DOMAIN order /\ i # k  BY <1>1, <1>2
    <3> QED  BY <1>2, <3>1 DEF IsInjective
  <2> DEFINE b == order[i]
  <2>3. Ends(e) \in {<<Anchor, StartNode(b)>>, <<StartNode(b), FinishNode(b)>>,
                     <<Anchor, FinishNode(b)>>}
    BY <2>1, EdgesOfActivity
  <2>4. Ends(f) \in {<<Anchor, StartNode(a)>>, <<StartNode(a), FinishNode(a)>>,
                     <<Anchor, FinishNode(a)>>}
    BY EdgesOfActivity
  <2> HIDE DEF a, b
  <2> QED  BY <2>2, <2>3, <2>4, NodesDiffer DEF b
<1>5. \A n : n = k => EdgesAre(n, 0)'
  <2>1. Lists(edges, Wanted(k - 1, 0))  BY <1>1 DEF EdgesAre
  <2>2. Lists(new, Range(new))  BY EdgesOfActivity
  <2>3. NoSharedEnds(Wanted(k - 1, 0), Range(new))  BY <1>4 DEF NoSharedEnds
  <2> HIDE DEF new
  <2>4. Lists(edges \o new, Wanted(k - 1, 0) \cup Range(new))
    BY ONLY <2>1, <2>2, <2>3, Together
  <2>5. Lists(edges', Wanted(k, 0))  BY ONLY <1>1, <1>3, <2>4
  <2> QED  BY <2>5, Unmoved, <1>1 DEF EdgesAre, Lists, DistinctEnds
<1>6. CASE k < Len(order)
  <2>1. k' = k + 1 /\ pc' = "edges" /\ (k + 1) - 1 = k
    BY <1>1, <1>6 DEF AddActivityEdges, Continue
  <2>2. EdgesAre(k - 1, 0)'
    BY <1>5, <2>1 DEF EdgesAre
  <2> QED
    BY <1>1, <1>2, <1>6, <2>1, <2>2, Unmoved, NodesStay DEF IInv, NodesAre
<1>7. CASE ~(k < Len(order))
  <2>1. k' = 1 /\ pc' = "transfers" /\ k = Len(order)
    <3>1. k \in Nat /\ k <= Len(order) /\ Len(order) \in Nat  BY <1>1, <1>2
    <3>2. k = Len(order)  BY ONLY <3>1, <1>7
    <3>3. Continue(Len(order), "transfers")  BY DEF AddActivityEdges
    <3> QED  BY ONLY <3>2, <3>3, <1>7 DEF Continue
  <2>2. EdgesAre(Len(order), k - 1)'
    <3>1. k' - 1 = 0 /\ Len(order') = k  BY <1>1, <2>1
    <3> QED  BY <1>5, <3>1 DEF EdgesAre
  <2>3. Len(itinerary.transfers) \in Nat  BY <1>1 DEF WellFormed
  <2> QED
    BY <1>1, <1>2, <2>1, <2>2, <2>3, Unmoved, NodesStay DEF IInv, NodesAre
<1> QED  BY <1>6, <1>7

(* One more transfer has its edge.                                         *)
LEMMA TransferEdgesKeep == IInv /\ AddTransferEdge => IInv'
<1> SUFFICES ASSUME IInv, AddTransferEdge PROVE IInv'  OBVIOUS
<1> DEFINE trs == itinerary.transfers
           t == trs[k]
           new == <<TransferEdge(t)>>
           n == Len(order)
<1>1. /\ pc = "transfers" /\ pc' = pc /\ UNCHANGED <<itinerary, order, nodes>>
      /\ edges' = Append(edges, TransferEdge(t))
      /\ k \in Nat \ {0} /\ k <= Len(trs) /\ k' = k + 1 /\ EdgesAre(n, k - 1)
      /\ NodesAre(n) /\ WellFormed(itinerary) /\ OrderOf(itinerary)
  BY DEF AddTransferEdge, IInv
<1>2. /\ trs \in Seq(Transfer) /\ Len(trs) \in Nat /\ DOMAIN trs = 1..Len(trs)
      /\ \A i, l \in DOMAIN trs :
            i < l => trs[i].from # trs[l].from \/ trs[i].to # trs[l].to
  BY <1>1 DEF WellFormed
<1>3. Wanted(n, k) = Wanted(n, k - 1) \cup {TransferEdge(t)}
  <2>1. 1..k = 1..(k - 1) \cup {k}  BY <1>1
  <2> DEFINE here == UNION {Range(ActivityEdges(order[i])) : i \in 1..n}
             moves(m) == {TransferEdge(trs[i]) : i \in 1..m}
  <2>2. moves(k) = moves(k - 1) \cup {TransferEdge(t)}  BY <2>1, Zenon
  <2>3. \A m : Wanted(n, m) = here \cup moves(m)  BY Zenon DEF Wanted
  <2> HIDE DEF here, moves, t
  <2> QED  BY <2>2, <2>3
<1>4. \A u : Ends(TransferEdge(u)) = <<FinishNode(u.from), StartNode(u.to)>>
  BY DEF Ends, TransferEdge, Edge
<1>5. ASSUME NEW e \in Wanted(n, k - 1) PROVE Ends(e) # Ends(TransferEdge(t))
  <2>1. CASE \E i \in 1..n : e \in Range(ActivityEdges(order[i]))
    <3>1. PICK i \in 1..n : e \in Range(ActivityEdges(order[i]))  BY <2>1
    <3> DEFINE b == order[i]
    <3>2. Ends(e) \in {<<Anchor, StartNode(b)>>, <<StartNode(b), FinishNode(b)>>,
                       <<Anchor, FinishNode(b)>>}
      BY <3>1, EdgesOfActivity
    <3> HIDE DEF b, t
    <3> QED  BY <1>4, <3>2, NodesDiffer
  <2>2. CASE \E i \in 1..(k - 1) : e = TransferEdge(trs[i])
    <3>1. PICK i \in 1..(k - 1) : e = TransferEdge(trs[i])  BY <2>2
    <3>2. i \in DOMAIN trs /\ k \in DOMAIN trs /\ i < k  BY <1>1, <1>2
    <3>3. trs[i].from # t.from \/ trs[i].to # t.to  BY <1>2, <3>2
    <3> HIDE DEF t
    <3> QED  BY <1>4, <3>1, <3>3, NodesDiffer
  <2>3. \/ \E i \in 1..n : e \in Range(ActivityEdges(order[i]))
        \/ \E i \in 1..(k - 1) : e = TransferEdge(trs[i])
    <3> DEFINE here == {Range(ActivityEdges(order[i])) : i \in 1..n}
               moves == {TransferEdge(trs[i]) : i \in 1..(k - 1)}
    <3>1. e \in (UNION here) \cup moves  BY Zenon DEF Wanted
    <3> HIDE DEF here, moves
    <3>2. (\E c \in here : e \in c) \/ e \in moves  BY <3>1
    <3>3. CASE \E c \in here : e \in c
      <4>1. PICK c \in here : e \in c  BY <3>3
      <4> QED  BY <4>1, Zenon DEF here
    <3>4. CASE e \in moves  BY <3>4, Zenon DEF moves
    <3> QED  BY <3>2, <3>3, <3>4
  <2> QED  BY <2>1, <2>2, <2>3
<1>6. \A m : m = k => EdgesAre(n, m)'
  <2>1. Lists(edges, Wanted(n, k - 1))  BY <1>1 DEF EdgesAre
  <2>2. Lists(new, {TransferEdge(t)})  BY DEF DistinctEnds, Range, Lists
  <2>3. NoSharedEnds(Wanted(n, k - 1), {TransferEdge(t)})  BY <1>5 DEF NoSharedEnds
  <2>4. edges' = edges \o new  BY <1>1, <2>1 DEF Lists
  <2> HIDE DEF new, t, n
  <2>5. Lists(edges \o new, Wanted(n, k - 1) \cup {TransferEdge(t)})
    BY ONLY <2>1, <2>2, <2>3, Together
  <2>6. Lists(edges', Wanted(n, k))  BY ONLY <1>3, <2>4, <2>5
  <2> QED  BY <2>6, Unmoved, <1>1 DEF EdgesAre, Lists, DistinctEnds, n
<1>7. EdgesAre(Len(order), k - 1)'
  <2>1. k' - 1 = k  BY <1>1
  <2> QED  BY <1>1, <1>6, <2>1 DEF EdgesAre
<1> QED
  BY <1>1, <1>2, <1>7, Unmoved, NodesStay DEF IInv, NodesAre

(* Where each node is.                                                     *)
LEMMA Positions ==
  ASSUME OrderOf(itinerary), NodesAre(Len(order))
  PROVE  /\ Position(Anchor) = 1
         /\ \A i \in 1..Len(order) : /\ Position(StartNode(order[i])) = 2 * i
                                     /\ Position(FinishNode(order[i])) = 2 * i + 1
<1> DEFINE n == Len(order)
<1>1. /\ n \in Nat /\ DOMAIN order = 1..n /\ IsInjective(order)
      /\ DOMAIN nodes = 1..(2 * n + 1) /\ nodes[1] = Anchor
      /\ \A i \in 1..n : /\ nodes[2 * i] = StartNode(order[i])
                         /\ nodes[2 * i + 1] = FinishNode(order[i])
  BY DEF OrderOf, NodesAre
<1> HIDE DEF n
<1>2. ASSUME NEW j \in DOMAIN nodes
      PROVE  j = 1 \/ \E i \in 1..n : j = 2 * i \/ j = 2 * i + 1
  <2>0. j \in Nat /\ 1 <= j /\ j <= 2 * n + 1  BY <1>1
  <2>1. /\ j \in Nat /\ 1 <= j /\ j <= 2 * n + 1 /\ j \div 2 \in Int
        /\ (j = 2 * (j \div 2) \/ j = 2 * (j \div 2) + 1)
    BY ONLY <2>0
  <2>2. j = 1 \/ j \div 2 \in 1..n  BY <1>1, <2>1
  <2> QED  BY <2>1, <2>2
<1>3. \A i, l \in 1..n : order[i] = order[l] => i = l  BY <1>1 DEF IsInjective
<1>4. \A j \in DOMAIN nodes : nodes[j] = Anchor => j = 1
  <2>1. ASSUME NEW j \in DOMAIN nodes, NEW i \in 1..n, j = 2 * i \/ j = 2 * i + 1
        PROVE  nodes[j] # Anchor
    <3>1. nodes[j] = StartNode(order[i]) \/ nodes[j] = FinishNode(order[i])
      BY <1>1, <2>1
    <3> QED  BY <3>1, NodesDiffer
  <2> QED  BY <1>2, <2>1
<1>5. ASSUME NEW i \in 1..n, NEW j \in DOMAIN nodes
      PROVE  /\ nodes[j] = StartNode(order[i]) => j = 2 * i
             /\ nodes[j] = FinishNode(order[i]) => j = 2 * i + 1
  <2>1. CASE j = 1  BY <1>1, <2>1, NodesDiffer
  <2>2. ASSUME NEW l \in 1..n, j = 2 * l
        PROVE  /\ nodes[j] = StartNode(order[i]) => j = 2 * i
               /\ nodes[j] # FinishNode(order[i])
    <3>1. nodes[j] = StartNode(order[l])  BY <1>1, <2>2
    <3>2. nodes[j] = StartNode(order[i]) => l = i  BY <1>3, <3>1, NodesDiffer
    <3> QED  BY <2>2, <3>1, <3>2, NodesDiffer
  <2>3. ASSUME NEW l \in 1..n, j = 2 * l + 1
        PROVE  /\ nodes[j] = FinishNode(order[i]) => j = 2 * i + 1
               /\ nodes[j] # StartNode(order[i])
    <3>1. nodes[j] = FinishNode(order[l])  BY <1>1, <2>3
    <3>2. nodes[j] = FinishNode(order[i]) => l = i  BY <1>3, <3>1, NodesDiffer
    <3> QED  BY <2>3, <3>1, <3>2, NodesDiffer
  <2> QED  BY <1>2, <2>1, <2>2, <2>3
<1>6. Position(Anchor) = 1
  <2>1. 1 \in DOMAIN nodes  BY <1>1
  <2> QED  BY <1>1, <1>4, <2>1 DEF Position
<1>7. ASSUME NEW i \in 1..n
      PROVE  Position(StartNode(order[i])) = 2 * i /\ Position(FinishNode(order[i])) = 2 * i + 1
  <2>1. 2 * i \in DOMAIN nodes /\ 2 * i + 1 \in DOMAIN nodes  BY <1>1
  <2>2. Position(StartNode(order[i])) = 2 * i  BY <1>1, <1>5, <2>1 DEF Position
  <2>3. Position(FinishNode(order[i])) = 2 * i + 1  BY <1>1, <1>5, <2>1 DEF Position
  <2> QED  BY <2>2, <2>3
<1> QED  BY <1>6, <1>7 DEF n

(* Every activity has a place in the order.                                *)
LEMMA Placed ==
  ASSUME OrderOf(itinerary), NEW a \in Ids
  PROVE  \E i \in 1..Len(order) : order[i] = a
  BY DEF OrderOf, Ids, Range

(* The edges of the graph, by their ends.                                  *)
LEMMA EndsOfWanted ==
  ASSUME WellFormed(itinerary), OrderOf(itinerary),
         NEW e \in Wanted(Len(order), Len(itinerary.transfers))
  PROVE  \/ \E a \in Ids : Ends(e) \in {<<Anchor, StartNode(a)>>,
                                       <<StartNode(a), FinishNode(a)>>,
                                       <<Anchor, FinishNode(a)>>}
         \/ \E t \in Range(itinerary.transfers) :
               Ends(e) = <<FinishNode(t.from), StartNode(t.to)>>
<1>1. \A i \in 1..Len(order) : order[i] \in Ids
  BY DEF OrderOf, Ids
<1>2. \A i \in 1..Len(itinerary.transfers) : itinerary.transfers[i] \in Range(itinerary.transfers)
  BY DEF WellFormed, Range
<1>3. CASE \E i \in 1..Len(order) : e \in Range(ActivityEdges(order[i]))
  <2>1. PICK i \in 1..Len(order) : e \in Range(ActivityEdges(order[i]))  BY <1>3
  <2> QED  BY <1>1, <2>1, EdgesOfActivity
<1>4. CASE \E i \in 1..Len(itinerary.transfers) : e = TransferEdge(itinerary.transfers[i])
  <2>1. PICK i \in 1..Len(itinerary.transfers) : e = TransferEdge(itinerary.transfers[i])
    BY <1>4
  <2> DEFINE t == itinerary.transfers[i]
  <2>2. t \in Range(itinerary.transfers)  BY <1>2
  <2>3. Ends(e) = <<FinishNode(t.from), StartNode(t.to)>>
    BY <2>1 DEF Ends, TransferEdge, Edge
  <2> HIDE DEF t
  <2> QED  BY <2>2, <2>3
<1> QED  BY <1>3, <1>4 DEF Wanted

(* Every edge joins nodes of the list, the earlier to the later.           *)
LEMMA Forward ==
  ASSUME WellFormed(itinerary), OrderOf(itinerary), NodesAre(Len(order)),
         NEW e \in Wanted(Len(order), Len(itinerary.transfers))
  PROVE  /\ Position(e.source) \in Nat /\ Position(e.target) \in Nat
         /\ Position(e.source) < Position(e.target)
         /\ nodes[Position(e.source)] = e.source /\ nodes[Position(e.target)] = e.target
<1>1. /\ Len(order) \in Nat /\ nodes[1] = Anchor
      /\ \A i \in 1..Len(order) : /\ nodes[2 * i] = StartNode(order[i])
                                  /\ nodes[2 * i + 1] = FinishNode(order[i])
  BY DEF OrderOf, NodesAre
<1>2. \A x, y : Ends(e) = <<x, y>> => e.source = x /\ e.target = y
  BY DEF Ends
<1>3. ASSUME NEW a \in Ids, Ends(e) \in {<<Anchor, StartNode(a)>>,
                                        <<StartNode(a), FinishNode(a)>>,
                                        <<Anchor, FinishNode(a)>>}
      PROVE  /\ Position(e.source) \in Nat /\ Position(e.target) \in Nat
             /\ Position(e.source) < Position(e.target)
             /\ nodes[Position(e.source)] = e.source
             /\ nodes[Position(e.target)] = e.target
  <2>1. PICK i \in 1..Len(order) : order[i] = a  BY Placed
  <2>2. \/ e.source = Anchor /\ e.target = StartNode(a)
        \/ e.source = StartNode(a) /\ e.target = FinishNode(a)
        \/ e.source = Anchor /\ e.target = FinishNode(a)
    BY <1>2, <1>3
  <2>3. /\ Position(Anchor) = 1 /\ Position(StartNode(a)) = 2 * i
        /\ Position(FinishNode(a)) = 2 * i + 1
        /\ nodes[1] = Anchor /\ nodes[2 * i] = StartNode(a) /\ nodes[2 * i + 1] = FinishNode(a)
    BY <1>1, <2>1, Positions
  <2>4. 1 < 2 * i /\ 2 * i < 2 * i + 1 /\ 1 < 2 * i + 1 /\ 2 * i \in Nat /\ 2 * i + 1 \in Nat
    BY <1>1
  <2> QED  BY ONLY <2>2, <2>3, <2>4
<1>4. ASSUME NEW t \in Range(itinerary.transfers),
             Ends(e) = <<FinishNode(t.from), StartNode(t.to)>>
      PROVE  /\ Position(e.source) \in Nat /\ Position(e.target) \in Nat
             /\ Position(e.source) < Position(e.target)
             /\ nodes[Position(e.source)] = e.source
             /\ nodes[Position(e.target)] = e.target
  <2>1. t.from \in Ids /\ t.to \in Ids  BY DEF WellFormed, Ids
  <2>2. PICK i \in 1..Len(order) : order[i] = t.from  BY <2>1, Placed
  <2>3. PICK l \in 1..Len(order) : order[l] = t.to  BY <2>1, Placed
  <2>4. i < l
    <3>1. <<order[i], order[l]>> \in EdgesOf(itinerary)
      BY <2>2, <2>3 DEF EdgesOf
    <3>2. i \in DOMAIN order /\ l \in DOMAIN order  BY DEF OrderOf
    <3> QED  BY <3>1, <3>2 DEF OrderOf
  <2>5. e.source = FinishNode(t.from) /\ e.target = StartNode(t.to)
    BY <1>2, <1>4
  <2>6. /\ Position(e.source) = 2 * i + 1 /\ Position(e.target) = 2 * l
        /\ nodes[2 * i + 1] = e.source /\ nodes[2 * l] = e.target
    BY <1>1, <2>2, <2>3, <2>5, Positions
  <2>7. 2 * i + 1 < 2 * l /\ 2 * i + 1 \in Nat /\ 2 * l \in Nat  BY <1>1, <2>4
  <2> QED  BY ONLY <2>6, <2>7
<1> QED  BY <1>3, <1>4, EndsOfWanted

(* What is sorted by keys whose first two numbers tell them apart is       *)
(* ordered by these, whatever the rest of the keys.                        *)
LEMMA SortedByTwo ==
  ASSUME NEW n \in Nat, NEW key,
         \A i \in 1..n : key[i] \in Seq(Int) /\ Len(key[i]) >= 2,
         \A i, j \in 1..n : key[i][1] = key[j][1] /\ key[i][2] = key[j][2] => i = j,
         NEW at, at = [l \in 1..n |-> at[l]],
         NEW rank, \A i \in 1..n : rank[i] = 1 + Cardinality({j \in 1..n :
             LexBefore(key[j], key[i]) \/ (key[j] = key[i] /\ j < i)}),
         \A l \in 1..n : (\E i \in 1..n : rank[i] = l) => at[l] \in 1..n /\ rank[at[l]] = l
  PROVE  /\ at \in Bijection(1..n, 1..n)
         /\ \A l, m \in 1..n :
               l < m => LexBefore(<<key[at[l]][1], key[at[l]][2]>>,
                                  <<key[at[m]][1], key[at[m]][2]>>)
<1> DEFINE S == 1..n
           p(i) == key[i][1]
           q(i) == key[i][2]
           prior(i, j) == p(i) < p(j) \/ (p(i) = p(j) /\ q(i) < q(j))
           R == {x \in S \X S : prior(x[1], x[2])}
           before(i, j) == LexBefore(key[i], key[j]) \/ (key[i] = key[j] /\ i < j)
<1>1. \A i \in S : p(i) \in Int /\ q(i) \in Int  OBVIOUS
<1>2. \A i, j \in S : <<i, j>> \in R <=> prior(i, j)  OBVIOUS
<1>3. \A i, j \in S : p(i) = p(j) /\ q(i) = q(j) => i = j  OBVIOUS
<1>4. ASSUME NEW i \in S, NEW j \in S PROVE before(i, j) <=> <<i, j>> \in R
  <2>1. CASE i = j
    <3>1. ~LexBefore(key[i], key[i])
      <4>1. \A l \in DOMAIN key[i] : key[i][l] \in Int  OBVIOUS
      <4>2. \A l \in DOMAIN key[i] : ~(key[i][l] < key[i][l])  BY <4>1
      <4> QED  BY <4>2 DEF LexBefore
    <3>2. ~(i < i) /\ ~prior(i, i)  BY <1>1
    <3> HIDE DEF R, prior
    <3> QED  BY <1>2, <2>1, <3>1, <3>2
  <2>2. CASE i # j
    <3>1. p(i) # p(j) \/ q(i) # q(j)  BY <1>3, <2>2
    <3>2. /\ key[i] \in Seq(Int) /\ Len(key[i]) >= 2
          /\ key[j] \in Seq(Int) /\ Len(key[j]) >= 2
      OBVIOUS
    <3>3. (LexBefore(key[i], key[j]) <=> prior(i, j)) /\ key[i] # key[j]
      BY ONLY <3>1, <3>2, FirstTwoDecide, Zenon
    <3> HIDE DEF R, prior
    <3> QED  BY <1>2, <3>3
  <2> QED  BY <2>1, <2>2
<1>5. StrictlyOrders(R, S)
  <2> HIDE DEF R
  <2>1. \A i \in S : ~prior(i, i)  BY <1>1
  <2>2. ASSUME NEW i \in S, NEW j \in S, NEW m \in S, prior(i, j), prior(j, m)
        PROVE  prior(i, m)
    <3> HIDE DEF p, q, S
    <3> QED  BY <1>1, <2>2
  <2>3. \A i, j \in S : i = j \/ prior(i, j) \/ prior(j, i)
    <3> SUFFICES ASSUME NEW i \in S, NEW j \in S, i # j PROVE prior(i, j) \/ prior(j, i)
      OBVIOUS
    <3> HIDE DEF p, q, S
    <3>1. p(i) # p(j) \/ q(i) # q(j)  BY <1>3
    <3> QED  BY <1>1, <3>1
  <2> HIDE DEF prior
  <2> QED  BY <1>2, <2>1, <2>2, <2>3 DEF StrictlyOrders
<1>6. \A i \in S : rank[i] = RankIn(R, S, i)
  <2> SUFFICES ASSUME NEW i \in S PROVE rank[i] = RankIn(R, S, i)  OBVIOUS
  <2>1. rank[i] = 1 + Cardinality({j \in S : before(j, i)})  OBVIOUS
  <2>2. {j \in S : before(j, i)} = {j \in S : <<j, i>> \in R}
    <3> HIDE DEF before, R, S
    <3> QED  BY <1>4
  <2> HIDE DEF before, R, S
  <2> QED  BY <2>1, <2>2 DEF RankIn
<1>7. \A l \in S : (\E i \in S : RankIn(R, S, i) = l)
                     => at[l] \in S /\ RankIn(R, S, at[l]) = l
  <2>1. \A l \in S : (\E i \in S : rank[i] = l) => at[l] \in S /\ rank[at[l]] = l
    OBVIOUS
  <2> HIDE DEF R, S
  <2>2. ASSUME NEW l \in S, NEW i \in S, RankIn(R, S, i) = l
        PROVE  at[l] \in S /\ RankIn(R, S, at[l]) = l
    <3>1. rank[i] = l  BY <1>6, <2>2
    <3>2. at[l] \in S /\ rank[at[l]] = l  BY <2>1, <3>1
    <3> QED  BY <1>6, <3>2
  <2> QED  BY <2>2
<1>8. /\ at \in Bijection(S, S)
      /\ \A l, m \in S : l < m => <<at[l], at[m]>> \in R
  <2> HIDE DEF R
  <2>1. DOMAIN at = 1..n /\ at = [l \in 1..n |-> at[l]]  OBVIOUS
  <2> QED  BY ONLY <1>5, <1>7, <2>1, n \in Nat, Ranking
<1>9. ASSUME NEW l \in S, NEW m \in S, l < m
      PROVE  LexBefore(<<key[at[l]][1], key[at[l]][2]>>, <<key[at[m]][1], key[at[m]][2]>>)
  <2>1. at[l] \in S /\ at[m] \in S  BY <1>8 DEF Bijection, Injection
  <2>2. prior(at[l], at[m])
    <3>1. <<at[l], at[m]>> \in R  BY <1>8, <1>9
    <3> HIDE DEF R, prior
    <3> QED  BY <1>2, <2>1, <3>1
  <2> DEFINE u == <<p(at[l]), q(at[l])>>
             v == <<p(at[m]), q(at[m])>>
  <2>3. /\ u \in Seq(Int) /\ v \in Seq(Int) /\ Len(u) = 2 /\ Len(v) = 2
        /\ u[1] < v[1] \/ (u[1] = v[1] /\ u[2] < v[2])
        /\ u[1] # v[1] \/ u[2] # v[2]
    <3> HIDE DEF p, q, S
    <3> QED  BY <1>1, <2>1, <2>2
  <2> HIDE DEF u, v
  <2>4. Len(u) >= 2 /\ Len(v) >= 2  BY ONLY <2>3
  <2>5. LexBefore(u, v)  BY ONLY <2>3, <2>4, FirstTwoDecide, Zenon
  <2> QED  BY <2>5 DEF u, v
<1> QED  BY <1>8, <1>9

(* What the rest of a key is made of is numbers.                           *)
LEMMA Keyed ==
  ASSUME WellFormed(itinerary), OrderOf(itinerary),
         NEW e \in Wanted(Len(order), Len(itinerary.transfers))
  PROVE  /\ Alphabetical(e.kind) \in Int
         /\ OrMinusOne(e.lower) \in Int /\ OrMinusOne(e.upper) \in Int
<1> DEFINE Bound == Nat \cup {None}
           Kinds == {"duration", "hard_deadline", "release", "transfer"}
<1>1. e.kind \in Kinds /\ e.lower \in Bound /\ e.upper \in Bound
  <2>1. CASE \E i \in 1..Len(order) : e \in Range(ActivityEdges(order[i]))
    <3>1. PICK i \in 1..Len(order) : e \in Range(ActivityEdges(order[i]))  BY <2>1
    <3> DEFINE a == order[i]
               x == ActivityOf(itinerary, a)
    <3>2. a \in IdsOf(itinerary)  BY DEF OrderOf
    <3>3. x \in TimedActivity  BY <3>2, TheActivity
    <3>4. \/ e = Edge(Anchor, StartNode(a), "release", x.release, None)
          \/ e = Edge(StartNode(a), FinishNode(a), "duration", x.min, x.max)
          \/ e = Edge(Anchor, FinishNode(a), "hard_deadline", None, x.deadline)
      BY <3>1 DEF ActivityEdges, Range
    <3> HIDE DEF a, x
    <3> QED  BY <3>3, <3>4 DEF Edge, TimedActivity
  <2>2. CASE \E i \in 1..Len(itinerary.transfers) : e = TransferEdge(itinerary.transfers[i])
    <3>1. PICK i \in 1..Len(itinerary.transfers) : e = TransferEdge(itinerary.transfers[i])
      BY <2>2
    <3>2. itinerary.transfers[i].min \in Nat  BY DEF WellFormed, Range
    <3> QED  BY <3>1, <3>2 DEF TransferEdge, Edge
  <2> QED  BY <2>1, <2>2 DEF Wanted
<1>2. Alphabetical(e.kind) \in Int  BY <1>1 DEF Alphabetical
<1> QED  BY <1>1, <1>2 DEF OrMinusOne

(* The edges sorted are the same edges, in the order of their ends.        *)
LEMMA SortKeeps == IInv /\ SortEdges => IInv'
<1> SUFFICES ASSUME IInv, SortEdges PROVE IInv'  OBVIOUS
<1> DEFINE N == Len(edges)
           W == Wanted(Len(order), Len(itinerary.transfers))
           key == [i \in 1..N |-> SortKey(edges[i])]
           rank(i) == 1 + Cardinality({j \in DOMAIN edges :
                        \/ LexBefore(SortKey(edges[j]), SortKey(edges[i]))
                        \/ SortKey(edges[j]) = SortKey(edges[i]) /\ j < i})
           ranks == [i \in 1..N |-> rank(i)]
           place(l) == CHOOSE i \in DOMAIN edges : rank(i) = l
           at == [l \in 1..N |-> place(l)]
<1>1. /\ pc = "transfers" /\ pc' = "done" /\ UNCHANGED <<itinerary, order, k, nodes>>
      /\ edges' = StableSort(edges, SortKey)
      /\ k \in Nat \ {0} /\ k > Len(itinerary.transfers)
      /\ k <= Len(itinerary.transfers) + 1 /\ EdgesAre(Len(order), k - 1)
      /\ NodesAre(Len(order)) /\ WellFormed(itinerary) /\ OrderOf(itinerary)
  BY DEF SortEdges, IInv
<1>2. Lists(edges, W)
  <2>1. Len(itinerary.transfers) \in Nat  BY <1>1 DEF WellFormed
  <2>2. k - 1 = Len(itinerary.transfers)  BY <1>1, <2>1
  <2> QED  BY <1>1, <2>2 DEF EdgesAre
<1>3. /\ edges \in Seq(W) /\ Range(edges) = W /\ DistinctEnds(edges)
      /\ N \in Nat /\ DOMAIN edges = 1..N
  BY <1>2 DEF Lists
<1>4. ASSUME NEW i \in 1..N
      PROVE  /\ key[i] \in Seq(Int) /\ Len(key[i]) >= 2
             /\ key[i][1] = Position(edges[i].source)
             /\ key[i][2] = Position(edges[i].target)
             /\ nodes[key[i][1]] = edges[i].source /\ nodes[key[i][2]] = edges[i].target
  <2>1. edges[i] \in W  BY <1>3
  <2> HIDE DEF W
  <2>2. /\ Position(edges[i].source) \in Nat /\ Position(edges[i].target) \in Nat
        /\ nodes[Position(edges[i].source)] = edges[i].source
        /\ nodes[Position(edges[i].target)] = edges[i].target
    BY <1>1, <2>1, Forward DEF W
  <2>3. /\ Alphabetical(edges[i].kind) \in Int /\ OrMinusOne(edges[i].lower) \in Int
        /\ OrMinusOne(edges[i].upper) \in Int
    BY <1>1, <2>1, Keyed DEF W
  <2>4. key[i] = <<Position(edges[i].source), Position(edges[i].target),
                   Alphabetical(edges[i].kind), OrMinusOne(edges[i].lower),
                   OrMinusOne(edges[i].upper)>>
    BY DEF SortKey
  <2> HIDE DEF key
  <2> QED  BY ONLY <2>2, <2>3, <2>4
<1>5. ASSUME NEW i \in 1..N, NEW j \in 1..N, key[i][1] = key[j][1] /\ key[i][2] = key[j][2]
      PROVE  i = j
  <2>1. edges[i].source = edges[j].source /\ edges[i].target = edges[j].target
    <3> HIDE DEF key
    <3> QED  BY <1>4, <1>5
  <2> QED  BY <1>3, <2>1 DEF DistinctEnds, Ends
<1>6. edges' = [l \in DOMAIN edges |-> edges[place(l)]]
  BY <1>1 DEF StableSort
<1>7. \A l \in 1..N : (\E i \in 1..N : ranks[i] = l) => at[l] \in 1..N /\ ranks[at[l]] = l
  <2> HIDE DEF rank
  <2> QED  BY <1>3
<1>8. \A i \in 1..N : ranks[i] = 1 + Cardinality({j \in 1..N :
                          LexBefore(key[j], key[i]) \/ (key[j] = key[i] /\ j < i)})
  <2> SUFFICES ASSUME NEW i \in 1..N
               PROVE  ranks[i] = 1 + Cardinality({j \in 1..N :
                          LexBefore(key[j], key[i]) \/ (key[j] = key[i] /\ j < i)})
    OBVIOUS
  <2>1. \A j \in 1..N : key[j] = SortKey(edges[j])  OBVIOUS
  <2>2. {j \in DOMAIN edges : \/ LexBefore(SortKey(edges[j]), SortKey(edges[i]))
                              \/ SortKey(edges[j]) = SortKey(edges[i]) /\ j < i}
        = {j \in 1..N : LexBefore(key[j], key[i]) \/ (key[j] = key[i] /\ j < i)}
    <3> HIDE DEF key, N
    <3> QED  BY <1>3, <2>1
  <2> QED  BY <2>2
<1>9. /\ at \in Bijection(1..N, 1..N)
      /\ \A l, m \in 1..N :
            l < m => LexBefore(<<key[at[l]][1], key[at[l]][2]>>,
                               <<key[at[m]][1], key[at[m]][2]>>)
  <2>1. at = [l \in 1..N |-> at[l]]
    <3> HIDE DEF place
    <3> QED  OBVIOUS
  <2>2. \A i \in 1..N : key[i] \in Seq(Int) /\ Len(key[i]) >= 2  BY <1>4
  <2>3. \A i, j \in 1..N : key[i][1] = key[j][1] /\ key[i][2] = key[j][2] => i = j
    BY <1>5
  <2>4. N \in Nat  BY <1>3
  <2> HIDE DEF N, key, ranks, at
  <2> QED  BY ONLY <1>7, <1>8, <2>1, <2>2, <2>3, <2>4, SortedByTwo, Zenon
<1>10. /\ edges' \in Seq(W) /\ Len(edges') = N /\ DOMAIN edges' = 1..N
       /\ \A l \in 1..N : edges'[l] = edges[at[l]] /\ at[l] \in 1..N
  <2>1. \A l \in 1..N : at[l] \in 1..N  BY <1>9 DEF Bijection, Injection
  <2>2. edges' = [l \in 1..N |-> edges[at[l]]]
    <3> HIDE DEF place
    <3> QED  BY <1>3, <1>6
  <2>3. \A l \in 1..N : edges[at[l]] \in W
    <3> HIDE DEF W, at
    <3>1. \A i \in 1..N : edges[i] \in W  BY <1>3
    <3> QED  BY <2>1, <3>1
  <2> HIDE DEF N, at, W
  <2>4. N \in Nat  BY <1>3 DEF N
  <2> QED  BY ONLY <2>1, <2>2, <2>3, <2>4
<1> HIDE DEF at, place, rank, ranks
<1>11. Range(edges') = W
  <2>1. Range(edges') \subseteq W  BY <1>3, <1>10 DEF Range
  <2>2. ASSUME NEW x \in W PROVE x \in Range(edges')
    <3>1. PICK i \in 1..N : edges[i] = x  BY <1>3 DEF Range
    <3>2. PICK l \in 1..N : at[l] = i  BY <1>9 DEF Bijection, Surjection
    <3> QED  BY <1>10, <3>1, <3>2 DEF Range
  <2> QED  BY <2>1, <2>2
<1>12. DistinctEnds(edges')
  <2> SUFFICES ASSUME NEW l \in 1..N, NEW m \in 1..N, Ends(edges'[l]) = Ends(edges'[m])
               PROVE  l = m
    BY <1>10 DEF DistinctEnds
  <2>1. at[l] = at[m]  BY <1>3, <1>10 DEF DistinctEnds
  <2> QED  BY <1>9, <2>1 DEF Bijection, Injection, IsInjective
<1>13. SortedByEnds'
  <2>1. \A x : Position(x)' = Position(x)  BY <1>1 DEF Position
  <2>2. \A l \in 1..N : /\ Position(edges'[l].source) = key[at[l]][1]
                       /\ Position(edges'[l].target) = key[at[l]][2]
    BY <1>4, <1>10
  <2>3. \A l, m \in 1..N : l < m =>
           LexBefore(<<Position(edges'[l].source), Position(edges'[l].target)>>,
                     <<Position(edges'[m].source), Position(edges'[m].target)>>)
    BY <1>9, <2>2
  <2> HIDE DEF N, key
  <2> QED  BY <1>10, <2>1, <2>3 DEF SortedByEnds
<1>14. Lists(edges', W)  BY <1>10, <1>11, <1>12 DEF Lists
<1>15. EdgesAre(Len(order), Len(itinerary.transfers))'
  <2>1. W' = W  BY <1>1, Unmoved
  <2> QED  BY <1>14, <2>1 DEF EdgesAre, Lists, DistinctEnds
<1> QED
  BY <1>1, <1>13, <1>15, Unmoved, NodesStay DEF IInv, NodesAre

(* Steps that change nothing.                                              *)
LEMMA StutterKeeps == IInv /\ UNCHANGED vars => IInv'
<1> SUFFICES ASSUME IInv, UNCHANGED vars PROVE IInv'  OBVIOUS
<1>1. UNCHANGED <<itinerary, order, pc, k, nodes, edges>>  BY DEF vars
<1>2. SortedByEnds' = SortedByEnds  BY <1>1 DEF SortedByEnds, Position
<1> QED  BY <1>1, <1>2, Unmoved, NodesStay, EdgesStay DEF IInv, NodesAre, EdgesAre

LEMMA Inductive == Spec => []IInv
<1>1. IInv /\ [Next]_vars => IInv'
  BY NodesKeep, ActivityEdgesKeep, TransferEdgesKeep, SortKeeps, StutterKeeps DEF Next
<1> QED  BY Initially, <1>1, PTL DEF Spec

-----------------------------------------------------------------------------
(* The published order leaves nothing to chance: compile_temporal_graph    *)
(* sorts by a key whose first two parts, the positions of the ends, tell   *)
(* every two of its edges apart.                                           *)
THEOREM SortedEdges == Spec => []EdgeOrderIsDetermined
<1>1. IInv => EdgeOrderIsDetermined
  BY DEF IInv, SortedByEnds, EdgeOrderIsDetermined
<1> QED  BY <1>1, Inductive, PTL

(* The node list is a topological order of the graph: every edge the       *)
(* function returns points from an earlier node to a later one.            *)
THEOREM ForwardEdges == Spec => []EdgesPointForward
<1>1. IInv => EdgesPointForward
  <2> SUFFICES ASSUME IInv, pc = "done", NEW e \in Range(edges)
               PROVE  Position(e.source) < Position(e.target)
    BY DEF EdgesPointForward
  <2>1. /\ WellFormed(itinerary) /\ OrderOf(itinerary) /\ NodesAre(Len(order))
        /\ e \in Wanted(Len(order), Len(itinerary.transfers))
    BY DEF IInv, EdgesAre, Lists
  <2> QED  BY <2>1, Forward
<1> QED  BY <1>1, Inductive, PTL

(* What the edges of an activity say of its two times.                     *)
LEMMA ActivityMeans ==
  ASSUME WellFormed(itinerary), NEW a \in Ids, NEW time,
         time[Anchor] = 0, time[StartNode(a)] \in Int, time[FinishNode(a)] \in Int
  PROVE  (\A e \in Range(ActivityEdges(a)) : Satisfies(time, e))
         <=> /\ time[StartNode(a)] >= ActivityOf(itinerary, a).release
             /\ time[FinishNode(a)] - time[StartNode(a)]
                   \in ActivityOf(itinerary, a).min..ActivityOf(itinerary, a).max
             /\ time[FinishNode(a)] <= ActivityOf(itinerary, a).deadline
<1> DEFINE x == ActivityOf(itinerary, a)
           e1 == Edge(Anchor, StartNode(a), "release", x.release, None)
           e2 == Edge(StartNode(a), FinishNode(a), "duration", x.min, x.max)
           e3 == Edge(Anchor, FinishNode(a), "hard_deadline", None, x.deadline)
           s == time[StartNode(a)]
           f == time[FinishNode(a)]
<1>1. /\ x.release \in Nat /\ x.min \in Nat /\ x.max \in Nat /\ x.deadline \in Nat
  BY TheActivity DEF TimedActivity, Ids
<1>2. Range(ActivityEdges(a)) = {e1, e2, e3}
  <2>1. ActivityEdges(a) = <<e1, e2, e3>>  BY DEF ActivityEdges
  <2> HIDE DEF e1, e2, e3
  <2> QED  BY <2>1 DEF Range
<1>3. None \notin Int  BY NoneAssumption
<1>4. Satisfies(time, e1) <=> s >= x.release
  <2> HIDE DEF x
  <2> QED  BY <1>1, <1>3 DEF Satisfies, Edge
<1>5. Satisfies(time, e2) <=> f - s \in x.min..x.max
  <2> HIDE DEF x
  <2> QED  BY <1>1, <1>3 DEF Satisfies, Edge
<1>6. Satisfies(time, e3) <=> f <= x.deadline
  <2> HIDE DEF x
  <2> QED  BY <1>1, <1>3 DEF Satisfies, Edge
<1> HIDE DEF x, e1, e2, e3, s, f
<1>7. (\A e \in Range(ActivityEdges(a)) : Satisfies(time, e))
      <=> s >= x.release /\ f - s \in x.min..x.max /\ f <= x.deadline
  BY <1>2, <1>4, <1>5, <1>6
<1> QED  BY <1>7 DEF x, s, f

(* What the edge of a transfer says of the two times it joins.             *)
LEMMA TransferMeans ==
  ASSUME NEW t, t.min \in Nat, NEW time,
         time[StartNode(t.to)] \in Int, time[FinishNode(t.from)] \in Int
  PROVE  Satisfies(time, TransferEdge(t))
         <=> time[StartNode(t.to)] >= time[FinishNode(t.from)] + t.min
  BY NoneAssumption DEF Satisfies, TransferEdge, Edge

(* Every activity has both its nodes in the list.                          *)
LEMMA Listed ==
  ASSUME OrderOf(itinerary), NodesAre(Len(order)), NEW a \in Ids
  PROVE  StartNode(a) \in Range(nodes) /\ FinishNode(a) \in Range(nodes)
<1>1. PICK i \in 1..Len(order) : order[i] = a  BY Placed
<1>2. Len(order) \in Nat  BY DEF OrderOf
<1>3. 2 * i \in DOMAIN nodes /\ 2 * i + 1 \in DOMAIN nodes
  BY <1>1, <1>2 DEF NodesAre
<1>4. nodes[2 * i] = StartNode(a) /\ nodes[2 * i + 1] = FinishNode(a)
  BY <1>1 DEF NodesAre
<1> QED  BY <1>3, <1>4 DEF Range

(* The graph means what the itinerary means: of the times of the nodes,    *)
(* exactly those satisfy every edge the function returns that give every   *)
(* activity one of its durations, respect releases and transfers, and meet *)
(* the deadlines.                                                          *)
THEOREM SameMeaning == Spec => []GraphMeansTheItinerary
<1>1. ASSUME IInv, pc = "done", NEW time \in Assignments
      PROVE  LET start == [a \in Ids |-> time[StartNode(a)]]
                 dur   == [a \in Ids |-> time[FinishNode(a)] - time[StartNode(a)]]
             IN  (\A e \in Range(edges) : Satisfies(time, e))
                 <=> /\ \A a \in Ids :
                           dur[a] \in ActivityOf(itinerary, a).min..ActivityOf(itinerary, a).max
                     /\ RespectsPrecedence(itinerary, dur, start)
                     /\ MeetsDeadlines(itinerary, dur, start)
  <2> DEFINE start == [a \in Ids |-> time[StartNode(a)]]
             dur   == [a \in Ids |-> time[FinishNode(a)] - time[StartNode(a)]]
             trs   == itinerary.transfers
             rel(a) == ActivityOf(itinerary, a).release
             span(a) == ActivityOf(itinerary, a).min..ActivityOf(itinerary, a).max
             due(a) == ActivityOf(itinerary, a).deadline
             sat(e) == Satisfies(time, e)
  <2>1. /\ WellFormed(itinerary) /\ OrderOf(itinerary) /\ NodesAre(Len(order))
        /\ Range(edges) = Wanted(Len(order), Len(trs))
    BY <1>1 DEF IInv, EdgesAre, Lists
  <2>2. /\ time[Anchor] = 0
        /\ \A a \in Ids : time[StartNode(a)] \in Int /\ time[FinishNode(a)] \in Int
    BY <2>1, Listed, TimesAssumption DEF Assignments
  <2>3. \A a \in Ids : start[a] = time[StartNode(a)]
                      /\ dur[a] = time[FinishNode(a)] - time[StartNode(a)]
    OBVIOUS
  <2>4. \A t \in Range(trs) : t.from \in Ids /\ t.to \in Ids /\ t.min \in Nat
    BY <2>1 DEF WellFormed, Ids
  <2>5. \A a \in Ids : (\A e \in Range(ActivityEdges(a)) : sat(e))
                       <=> /\ time[StartNode(a)] >= rel(a)
                           /\ time[FinishNode(a)] - time[StartNode(a)] \in span(a)
                           /\ time[FinishNode(a)] <= due(a)
    BY <2>1, <2>2, ActivityMeans
  <2>6. \A t \in Range(trs) : sat(TransferEdge(t))
                              <=> time[StartNode(t.to)] >= time[FinishNode(t.from)] + t.min
    BY <2>2, <2>4, TransferMeans
  <2> HIDE DEF sat, rel, span, due
  <2>7. (\A e \in Range(edges) : sat(e))
        <=> /\ \A a \in Ids : \A e \in Range(ActivityEdges(a)) : sat(e)
            /\ \A t \in Range(trs) : sat(TransferEdge(t))
    <3>1. ASSUME NEW e \in Range(edges)
          PROVE  \/ \E a \in Ids : e \in Range(ActivityEdges(a))
                 \/ \E t \in Range(trs) : e = TransferEdge(t)
      <4>1. \A i \in 1..Len(order) : order[i] \in Ids  BY <2>1 DEF OrderOf, Ids
      <4>2. \A i \in 1..Len(trs) : trs[i] \in Range(trs)  BY <2>1 DEF WellFormed, Range
      <4> QED  BY <2>1, <4>1, <4>2 DEF Wanted
    <3>2. ASSUME NEW a \in Ids, NEW e \in Range(ActivityEdges(a)) PROVE e \in Range(edges)
      <4>1. PICK i \in 1..Len(order) : order[i] = a  BY <2>1, Placed
      <4> QED  BY <2>1, <4>1 DEF Wanted
    <3>3. ASSUME NEW t \in Range(trs) PROVE TransferEdge(t) \in Range(edges)
      <4>1. PICK i \in 1..Len(trs) : trs[i] = t  BY <2>1 DEF WellFormed, Range
      <4> QED  BY <2>1, <4>1 DEF Wanted
    <3> QED  BY <3>1, <3>2, <3>3
  <2>8. RespectsPrecedence(itinerary, dur, start)
        <=> /\ \A a \in Ids : time[StartNode(a)] >= rel(a)
            /\ \A t \in Range(trs) : time[StartNode(t.to)] >= time[FinishNode(t.from)] + t.min
    <3>1. RespectsPrecedence(itinerary, dur, start)
          <=> /\ \A a \in Ids : start[a] >= rel(a)
              /\ \A t \in Range(trs) : start[t.to] >= start[t.from] + dur[t.from] + t.min
      BY DEF RespectsPrecedence, Ids, rel
    <3>2. ASSUME NEW t \in Range(trs)
          PROVE  start[t.from] + dur[t.from] + t.min = time[FinishNode(t.from)] + t.min
                 /\ start[t.to] = time[StartNode(t.to)]
      <4> HIDE DEF start, dur
      <4> QED  BY <2>2, <2>3, <2>4
    <3> HIDE DEF start, dur
    <3> QED  BY <2>3, <3>1, <3>2
  <2>9. MeetsDeadlines(itinerary, dur, start) <=> \A a \in Ids : time[FinishNode(a)] <= due(a)
    <3>1. MeetsDeadlines(itinerary, dur, start) <=> \A a \in Ids : start[a] + dur[a] <= due(a)
      BY DEF MeetsDeadlines, Ids, due
    <3>2. \A a \in Ids : start[a] + dur[a] = time[FinishNode(a)]
      <4> HIDE DEF start, dur
      <4> QED  BY <2>2, <2>3
    <3> HIDE DEF start, dur
    <3> QED  BY <3>1, <3>2
  <2>10. (\A e \in Range(edges) : sat(e))
         <=> /\ \A a \in Ids : dur[a] \in span(a)
             /\ RespectsPrecedence(itinerary, dur, start)
             /\ MeetsDeadlines(itinerary, dur, start)
    <3> HIDE DEF start, dur
    <3> QED  BY <2>3, <2>5, <2>6, <2>7, <2>8, <2>9
  <2> QED  BY <2>10 DEF sat, span
<1>2. IInv => GraphMeansTheItinerary
  BY <1>1 DEF GraphMeansTheItinerary
<1> QED  BY <1>2, Inductive, PTL

-----------------------------------------------------------------------------
(* Lists of the same things in another order.                              *)

Permutes(p, n) == p \in Bijection(1..n, 1..n)

Rearranges(s, t) ==
    \E n, p : /\ n \in Nat /\ Permutes(p, n)
              /\ s = [i \in 1..n |-> s[i]] /\ t = [i \in 1..n |-> s[p[i]]]

LEMMA Permutation ==
  ASSUME NEW n \in Nat, NEW p
  PROVE  Permutes(p, n) <=> /\ p \in [1..n -> 1..n]
                            /\ \A i, j \in 1..n : p[i] = p[j] => i = j
                            /\ \A l \in 1..n : \E i \in 1..n : p[i] = l
  BY DEF Permutes, Bijection, Injection, Surjection, IsInjective

LEMMA RearrangedBack == ASSUME NEW s, NEW t, Rearranges(s, t) PROVE Rearranges(t, s)
<1>1. PICK n, p :
         n \in Nat /\ Permutes(p, n) /\ s = [i \in 1..n |-> s[i]] /\ t = [i \in 1..n |-> s[p[i]]]
  BY DEF Rearranges
<1> n \in Nat  BY <1>1
<1> DEFINE q == [l \in 1..n |-> CHOOSE i \in 1..n : p[i] = l]
<1>2. /\ p \in [1..n -> 1..n]
      /\ \A i, j \in 1..n : p[i] = p[j] => i = j
      /\ \A l \in 1..n : \E i \in 1..n : p[i] = l
  BY <1>1, Permutation
<1>3. \A l \in 1..n : q[l] \in 1..n /\ p[q[l]] = l
  BY <1>2
<1>4. q \in [1..n -> 1..n]  BY <1>3
<1> HIDE DEF q
<1>5. \A i \in 1..n : q[p[i]] = i  BY <1>2, <1>3
<1>6. Permutes(q, n)
  <2>1. \A i, j \in 1..n : q[i] = q[j] => i = j  BY <1>3
  <2>2. \A l \in 1..n : \E i \in 1..n : q[i] = l  BY <1>2, <1>5
  <2> QED  BY <1>4, <2>1, <2>2, Permutation
<1>7. t = [i \in 1..n |-> t[i]] /\ s = [i \in 1..n |-> t[q[i]]]
  BY <1>1, <1>3, <1>4
<1> QED  BY <1>6, <1>7 DEF Rearranges

LEMMA RearrangedTwice ==
  ASSUME NEW s, NEW t, NEW u, Rearranges(s, t), Rearranges(t, u)
  PROVE  Rearranges(s, u)
<1>1. PICK n, p :
         n \in Nat /\ Permutes(p, n) /\ s = [i \in 1..n |-> s[i]] /\ t = [i \in 1..n |-> s[p[i]]]
  BY DEF Rearranges
<1>10. Rearranges(t, u)  OBVIOUS
<1>2. PICK m, q :
         m \in Nat /\ Permutes(q, m) /\ t = [i \in 1..m |-> t[i]] /\ u = [i \in 1..m |-> t[q[i]]]
  BY ONLY <1>10 DEF Rearranges
<1> n \in Nat /\ m \in Nat  BY <1>1, <1>2
<1>3. m = n
  <2>1. 1..n = 1..m  BY <1>1, <1>2
  <2> QED  BY <2>1
<1> DEFINE r == [i \in 1..n |-> p[q[i]]]
<1>4. Permutes(r, n)
  <2>1. /\ p \in [1..n -> 1..n] /\ q \in [1..n -> 1..n]
        /\ \A i, j \in 1..n : p[i] = p[j] => i = j
        /\ \A i, j \in 1..n : q[i] = q[j] => i = j
        /\ \A l \in 1..n : \E i \in 1..n : p[i] = l
        /\ \A l \in 1..n : \E i \in 1..n : q[i] = l
    BY <1>1, <1>2, <1>3, Permutation
  <2>2. r \in [1..n -> 1..n] /\ \A i \in 1..n : r[i] = p[q[i]]  BY <2>1
  <2> HIDE DEF r
  <2>3. \A i, j \in 1..n : r[i] = r[j] => i = j
    <3> SUFFICES ASSUME NEW i \in 1..n, NEW j \in 1..n, r[i] = r[j] PROVE i = j  OBVIOUS
    <3>1. q[i] \in 1..n /\ q[j] \in 1..n  BY <2>1
    <3>2. p[q[i]] = p[q[j]]  BY <2>2
    <3>3. q[i] = q[j]  BY <2>1, <3>1, <3>2
    <3> QED  BY <2>1, <3>3
  <2>4. \A l \in 1..n : \E i \in 1..n : r[i] = l
    <3> SUFFICES ASSUME NEW l \in 1..n PROVE \E i \in 1..n : r[i] = l  OBVIOUS
    <3>1. PICK j \in 1..n : p[j] = l  BY <2>1
    <3>2. PICK i \in 1..n : q[i] = j  BY <2>1
    <3> QED  BY <2>2, <3>1, <3>2
  <2> QED  BY <2>2, <2>3, <2>4, Permutation
<1>5. u = [i \in 1..n |-> s[r[i]]]
  <2>1. q \in [1..n -> 1..n]  BY <1>2, <1>3, Permutation
  <2> QED  BY <1>1, <1>2, <1>3, <2>1
<1> HIDE DEF r
<1> QED  BY <1>1, <1>4, <1>5 DEF Rearranges

(* What holds of all elements of a list holds of those of the other.       *)
LEMMA RearrangedElements ==
  ASSUME NEW s, NEW t, Rearranges(s, t), NEW S, s \in Seq(S)
  PROVE  t \in Seq(S) /\ Len(t) = Len(s) /\ Range(t) = Range(s)
<1>1. PICK n, p :
         n \in Nat /\ Permutes(p, n) /\ s = [i \in 1..n |-> s[i]] /\ t = [i \in 1..n |-> s[p[i]]]
  BY DEF Rearranges
<1> n \in Nat  BY <1>1
<1>2. Len(s) = n /\ DOMAIN s = 1..n /\ \A i \in 1..n : s[i] \in S
  <2>1. DOMAIN s = 1..n  BY <1>1
  <2> QED  BY <2>1, <1>1
<1>3. /\ p \in [1..n -> 1..n]
      /\ \A l \in 1..n : \E i \in 1..n : p[i] = l
  BY <1>1, Permutation
<1>4. t \in [1..n -> S]  BY <1>1, <1>2, <1>3
<1>5. t \in Seq(S) /\ Len(t) = n  BY <1>4
<1>6. Range(t) \subseteq Range(s)  BY <1>1, <1>2, <1>3 DEF Range
<1>7. Range(s) \subseteq Range(t)
  <2> SUFFICES ASSUME NEW i \in 1..n PROVE s[i] \in Range(t)  BY <1>2 DEF Range
  <2>1. PICK j \in 1..n : p[j] = i  BY <1>3
  <2> QED  BY <1>1, <2>1 DEF Range
<1> QED  BY <1>2, <1>5, <1>6, <1>7

(* Some member of a finite set of integers is least: one of its initial    *)
(* parts is minimal for inclusion.                                         *)
LEMMA SomeLeast ==
  ASSUME NEW S \in SUBSET Int, S # {}, IsFiniteSet(S)
  PROVE  \E x \in S : \A y \in S : x <= y
<1> DEFINE upTo(n) == {y \in S : y <= n}
           starts  == {upTo(n) : n \in S}
<1>1. starts \subseteq FiniteSubsetsOf(S)
  <2> SUFFICES ASSUME NEW n \in S PROVE upTo(n) \in FiniteSubsetsOf(S)  OBVIOUS
  <2>1. IsFiniteSet(upTo(n))
    BY FS_Subset
  <2> QED  BY <2>1 DEF FiniteSubsetsOf
<1>2. PICK T \in starts : \A U \in starts : ~(<<U, T>> \in StrictSubsetOrdering(S))
  <2>1. starts # {}  OBVIOUS
  <2>2. IsWellFoundedOn(StrictSubsetOrdering(S), FiniteSubsetsOf(S))
    BY FS_StrictSubsetOrderingWellFounded
  <2> HIDE DEF starts
  <2> QED  BY <1>1, <2>1, <2>2, WFMin
<1>3. PICK x \in S : T = upTo(x)  OBVIOUS
<1>4. ASSUME NEW y \in S, y < x PROVE FALSE
  <2>1. x \in Int /\ y \in Int /\ \A z \in S : z \in Int  OBVIOUS
  <2>2. \A z \in S : z <= y => z <= x  BY <1>4, <2>1
  <2>3. ~(x <= y) /\ x <= x  BY <1>4, <2>1
  <2>4. upTo(y) \subseteq upTo(x)  BY <2>2
  <2>5. x \in upTo(x) /\ x \notin upTo(y)  BY <2>3
  <2>6. <<upTo(y), T>> \in StrictSubsetOrdering(S)
    BY <2>4, <2>5, <1>3 DEF StrictSubsetOrdering
  <2> QED  BY <1>2, <2>6
<1>5. \A y \in S : x <= y  BY <1>4
<1> QED  BY <1>5

(* R does not hold both ways.                                              *)
Asymmetric(R) == \A x, y : ~(<<x, y>> \in R /\ <<y, x>> \in R)

(* Two lists of the same things, both sorted strictly, are one.            *)
LEMMA SortedOnce ==
  ASSUME NEW u, NEW w, Rearranges(u, w), NEW R, Asymmetric(R),
         \A l, m \in DOMAIN u : l < m => <<u[l], u[m]>> \in R,
         \A l, m \in DOMAIN w : l < m => <<w[l], w[m]>> \in R
  PROVE  u = w
<1>1. PICK n, p :
         n \in Nat /\ Permutes(p, n) /\ u = [i \in 1..n |-> u[i]] /\ w = [i \in 1..n |-> u[p[i]]]
  BY DEF Rearranges
<1> n \in Nat  BY <1>1
<1>2. /\ p \in [1..n -> 1..n]
      /\ \A i, j \in 1..n : p[i] = p[j] => i = j
      /\ \A l \in 1..n : \E i \in 1..n : p[i] = l
  BY <1>1, Permutation
<1>3. ASSUME NEW l \in 1..n, p[l] # l, \A i \in 1..n : i < l => p[i] = i
      PROVE  FALSE
  <2>1. p[l] \in 1..n /\ p[l] > l
    <3>1. p[l] \in 1..n  BY <1>2
    <3>2. ~(p[l] < l)
      <4>1. SUFFICES ASSUME p[l] < l PROVE FALSE  OBVIOUS
      <4>2. p[p[l]] = p[l]  BY <1>3, <3>1, <4>1
      <4> QED  BY <1>2, <1>3, <3>1, <4>2
    <3> QED  BY <1>3, <3>1, <3>2
  <2>2. PICK m \in 1..n : p[m] = l  BY <1>2
  <2>3. m > l
    <3>1. m # l  BY <1>3, <2>2
    <3>2. ~(m < l)  BY <1>3, <2>2
    <3> QED  BY <3>1, <3>2
  <2>4. w[l] = u[p[l]] /\ w[m] = u[l]  BY <1>1, <2>2
  <2>5. <<u[l], u[p[l]]>> \in R
    <3>1. DOMAIN u = 1..n  BY <1>1
    <3> QED  BY <2>1, <3>1
  <2>6. <<w[l], w[m]>> \in R
    <3>1. DOMAIN w = 1..n  BY <1>1
    <3> QED  BY <2>3, <3>1
  <2> QED  BY <2>4, <2>5, <2>6 DEF Asymmetric
<1>4. \A l \in 1..n : p[l] = l
  <2> DEFINE Wrong == {l \in 1..n : p[l] # l}
  <2>2. SUFFICES ASSUME Wrong # {} PROVE FALSE  OBVIOUS
  <2>3. PICK l \in Wrong : \A i \in Wrong : l <= i
    <3>1. Wrong \subseteq Int /\ IsFiniteSet(Wrong)
      <4>1. IsFiniteSet(1..n)  BY FS_Interval
      <4> QED  BY <4>1, FS_Subset
    <3> QED  BY <2>2, <3>1, SomeLeast
  <2> QED  BY <1>3, <2>3
<1> QED  BY <1>1, <1>4
-----------------------------------------------------------------------------
(* What the two sorts of the decoder do.                                   *)

ActivityRecord == [id: Identifier, release: Int, min: Int, max: Int, deadline: Int]

TransferRecord == [from: Identifier, to: Identifier, min: Int]

LEMMA Ranked == ASSUME NEW x \in Identifier
                PROVE  Rank(x) \in Int /\ (x # Malformed => Rank(x) = x)
  BY MalformedAssumption DEF Rank, Identifier

LEMMA OneNumber == ASSUME NEW a \in Int, NEW b \in Int
                   PROVE  /\ LexBefore(<<a>>, <<b>>) <=> a < b
                          /\ <<a>> = <<b>> <=> a = b
<1>1. DOMAIN <<a>> = {1} /\ <<a>>[1] = a /\ <<b>>[1] = b  OBVIOUS
<1>2. 1..(1 - 1) = {}  OBVIOUS
<1> QED  BY <1>1, <1>2 DEF LexBefore

LEMMA ThreeNumbers ==
  ASSUME NEW a \in Int, NEW b \in Int, NEW c \in Int, NEW d \in Int, NEW e \in Int, NEW f \in Int
  PROVE  /\ LexBefore(<<a, b, c>>, <<d, e, f>>)
               <=> a < d \/ (a = d /\ b < e) \/ (a = d /\ b = e /\ c < f)
         /\ <<a, b, c>> = <<d, e, f>> <=> a = d /\ b = e /\ c = f
<1> DEFINE s == <<a, b, c>>
           r == <<d, e, f>>
<1>1. /\ DOMAIN s = {1, 2, 3}
      /\ s[1] = a /\ s[2] = b /\ s[3] = c /\ r[1] = d /\ r[2] = e /\ r[3] = f
  <2>1. Len(s) = 3 /\ DOMAIN s = 1..Len(s)  OBVIOUS
  <2> QED  BY <2>1
<1>2. 1..(1 - 1) = {} /\ 1..(2 - 1) = {1} /\ 1..(3 - 1) = {1, 2}  OBVIOUS
<1>3. s = r <=> a = d /\ b = e /\ c = f  OBVIOUS
<1> HIDE DEF s, r
<1>4. LexBefore(s, r) <=> \/ s[1] < r[1]
                          \/ s[2] < r[2] /\ s[1] = r[1]
                          \/ s[3] < r[3] /\ s[1] = r[1] /\ s[2] = r[2]
  BY <1>1, <1>2 DEF LexBefore
<1>5. LexBefore(s, r) <=> a < d \/ (a = d /\ b < e) \/ (a = d /\ b = e /\ c < f)
  BY <1>1, <1>4
<1> QED  BY <1>3, <1>5 DEF s, r

(* Activities are compared by their identifiers.                           *)
IdBefore == {x \in ActivityRecord \X ActivityRecord : Rank(x[1].id) < Rank(x[2].id)}

LEMMA SortedActivities ==
  ASSUME NEW s \in Seq(ActivityRecord)
  PROVE  LET t == StableSort(s, ActivityKey) IN
         /\ Rearranges(s, t)
         /\ (/\ \A i, j \in DOMAIN s : s[i].id = s[j].id => i = j
             /\ \A i \in DOMAIN s : s[i].id \in Nat)
              => \A l, m \in DOMAIN t : l < m => <<t[l], t[m]>> \in IdBefore
<1> DEFINE n == Len(s)
           a(i) == Rank(s[i].id)
           prior(i, j) == a(i) < a(j) \/ (a(i) = a(j) /\ i < j)
           R == {x \in (1..n) \X (1..n) : prior(x[1], x[2])}
           t == StableSort(s, ActivityKey)
<1>1. n \in Nat /\ DOMAIN s = 1..n /\ s = [i \in 1..n |-> s[i]]
      /\ \A i \in 1..n : s[i] \in ActivityRecord /\ a(i) \in Int
  <2>1. n \in Nat /\ DOMAIN s = 1..n /\ s = [i \in 1..n |-> s[i]]
        /\ \A i \in 1..n : s[i] \in ActivityRecord
    OBVIOUS
  <2>2. \A i \in 1..n : s[i].id \in Identifier  BY <2>1 DEF ActivityRecord
  <2>3. \A i \in 1..n : a(i) \in Int  BY <2>2, Ranked
  <2> QED  BY <2>1, <2>3
<1>2. \A i, j \in 1..n : <<i, j>> \in R <=> prior(i, j)  OBVIOUS
<1>3. StrictlyOrders(R, 1..n)
  <2> HIDE DEF R
  <2>1. \A i \in 1..n : ~prior(i, i)  BY <1>1
  <2>2. ASSUME NEW i \in 1..n, NEW j \in 1..n, NEW m \in 1..n, prior(i, j), prior(j, m)
        PROVE  prior(i, m)
    <3>1. i \in Int /\ j \in Int /\ m \in Int  OBVIOUS
    <3> HIDE DEF a
    <3> QED  BY <1>1, <2>2, <3>1
  <2>3. ASSUME NEW i \in 1..n, NEW j \in 1..n PROVE i = j \/ prior(i, j) \/ prior(j, i)
    <3>1. i \in Int /\ j \in Int  OBVIOUS
    <3> HIDE DEF a
    <3> QED  BY <1>1, <3>1
  <2> HIDE DEF prior
  <2> QED  BY <1>2, <2>1, <2>2, <2>3 DEF StrictlyOrders
<1> DEFINE before(i, j) == \/ LexBefore(ActivityKey(s[i]), ActivityKey(s[j]))
                           \/ ActivityKey(s[i]) = ActivityKey(s[j]) /\ i < j
           rank(i) == 1 + Cardinality({j \in DOMAIN s : before(j, i)})
<1>4. \A i, j \in 1..n : before(i, j) <=> prior(i, j)
  <2> SUFFICES ASSUME NEW i \in 1..n, NEW j \in 1..n PROVE before(i, j) <=> prior(i, j)  OBVIOUS
  <2>1. ActivityKey(s[i]) = <<a(i)>> /\ ActivityKey(s[j]) = <<a(j)>>
    BY DEF ActivityKey
  <2>2. a(i) \in Int /\ a(j) \in Int  BY <1>1
  <2> HIDE DEF a
  <2>3. /\ LexBefore(<<a(i)>>, <<a(j)>>) <=> a(i) < a(j)
        /\ <<a(i)>> = <<a(j)>> <=> a(i) = a(j)
    BY ONLY <2>2, OneNumber
  <2> QED  BY <2>1, <2>3
<1>5. \A i \in 1..n : rank(i) = RankIn(R, 1..n, i)
  <2> SUFFICES ASSUME NEW i \in 1..n PROVE rank(i) = RankIn(R, 1..n, i)  OBVIOUS
  <2>1. {j \in DOMAIN s : before(j, i)} = {j \in 1..n : <<j, i>> \in R}
    <3> HIDE DEF before, R, prior
    <3> QED  BY <1>1, <1>2, <1>4
  <2>2. \A T : Cardinality(T) = Cardinality(T)  BY DEF Cardinality
  <2> HIDE DEF before, R
  <2> QED  BY <2>1, <2>2 DEF RankIn
<1> DEFINE place(l) == CHOOSE i \in DOMAIN s : rank(i) = l
           p == [l \in 1..n |-> place(l)]
<1>6. p = [l \in 1..n |-> p[l]] /\ t = [l \in 1..n |-> s[p[l]]]
  <2>1. t = [l \in DOMAIN s |-> s[place(l)]]
    BY DEF StableSort
  <2> HIDE DEF place, t
  <2> QED  BY <1>1, <2>1
<1>7. Permutes(p, n) /\ \A l, m \in 1..n : l < m => <<p[l], p[m]>> \in R
  <2>1. \A l \in 1..n : (\E i \in 1..n : RankIn(R, 1..n, i) = l)
                            => p[l] \in 1..n /\ RankIn(R, 1..n, p[l]) = l
    <3> SUFFICES ASSUME NEW l \in 1..n, NEW i \in 1..n, RankIn(R, 1..n, i) = l
                 PROVE  p[l] \in 1..n /\ RankIn(R, 1..n, p[l]) = l
      OBVIOUS
    <3>1. rank(i) = l  BY <1>5
    <3> HIDE DEF rank
    <3>2. place(l) \in 1..n /\ rank(place(l)) = l  BY <1>1, <3>1
    <3> HIDE DEF place
    <3> QED  BY <1>5, <3>2
  <2>2. DOMAIN p = 1..n
    <3> HIDE DEF place
    <3> QED  OBVIOUS
  <2>3. n \in Nat  BY <1>1
  <2> HIDE DEF p, n, R
  <2> QED  BY ONLY <1>3, <1>6, <2>1, <2>2, <2>3, Ranking DEF Permutes
<1> HIDE DEF p, R, t
<1>8. Rearranges(s, t)  BY <1>1, <1>6, <1>7 DEF Rearranges
<1>9. ASSUME \A i, j \in DOMAIN s : s[i].id = s[j].id => i = j, \A i \in DOMAIN s : s[i].id \in Nat,
             NEW l \in DOMAIN t, NEW m \in DOMAIN t, l < m
      PROVE  <<t[l], t[m]>> \in IdBefore
  <2>1. l \in 1..n /\ m \in 1..n  BY <1>6
  <2>2. p[l] \in 1..n /\ p[m] \in 1..n /\ p[l] # p[m]
    <3>1. l # m  BY <1>9, <2>1
    <3>2. n \in Nat /\ Permutes(p, n)  BY <1>1, <1>7
    <3>3. \A i, j \in 1..n : p[i] = p[j] => i = j  BY ONLY <3>2, Permutation
    <3>4. p \in [1..n -> 1..n]  BY ONLY <3>2, Permutation
    <3> QED  BY ONLY <2>1, <3>1, <3>3, <3>4
  <2>3. prior(p[l], p[m])  BY <1>2, <1>7, <1>9, <2>1, <2>2
  <2>4. a(p[l]) # a(p[m])
    <3>1. s[p[l]].id # s[p[m]].id  BY <1>1, <1>9, <2>2
    <3>2. s[p[l]].id \in Nat /\ s[p[m]].id \in Nat  BY <1>1, <1>9, <2>2
    <3> QED  BY <3>1, <3>2, Ranked, MalformedAssumption DEF Identifier
  <2>5. a(p[l]) < a(p[m])  BY <2>3, <2>4
  <2>6. t[l] = s[p[l]] /\ t[m] = s[p[m]]  BY <1>6, <2>1
  <2> QED  BY <1>1, <2>2, <2>5, <2>6 DEF IdBefore
<1> QED  BY <1>8, <1>9 DEF t
(* Transfers are compared by their ends first; the rest of the key decides *)
(* only between two of one pair.                                           *)
PairBefore ==
    {x \in TransferRecord \X TransferRecord :
        \/ Rank(x[1].from) < Rank(x[2].from)
        \/ Rank(x[1].from) = Rank(x[2].from) /\ Rank(x[1].to) < Rank(x[2].to)}

LEMMA SortedTransfers ==
  ASSUME NEW s \in Seq(TransferRecord)
  PROVE  LET t == StableSort(s, TransferKey) IN
         /\ Rearranges(s, t)
         /\ (\A i, j \in DOMAIN s : s[i].from = s[j].from /\ s[i].to = s[j].to => i = j)
            /\ (\A i \in DOMAIN s : s[i].from \in Nat /\ s[i].to \in Nat)
              => \A l, m \in DOMAIN t : l < m => <<t[l], t[m]>> \in PairBefore
<1> DEFINE n == Len(s)
           a(i) == Rank(s[i].from)
           b(i) == Rank(s[i].to)
           c(i) == s[i].min
           prior(i, j) == \/ a(i) < a(j)
                          \/ a(i) = a(j) /\ b(i) < b(j)
                          \/ a(i) = a(j) /\ b(i) = b(j) /\ c(i) < c(j)
                          \/ a(i) = a(j) /\ b(i) = b(j) /\ c(i) = c(j) /\ i < j
           R == {x \in (1..n) \X (1..n) : prior(x[1], x[2])}
           t == StableSort(s, TransferKey)
<1>1. n \in Nat /\ DOMAIN s = 1..n /\ s = [i \in 1..n |-> s[i]]
      /\ \A i \in 1..n : s[i] \in TransferRecord /\ a(i) \in Int /\ b(i) \in Int /\ c(i) \in Int
  <2>1. n \in Nat /\ DOMAIN s = 1..n /\ s = [i \in 1..n |-> s[i]]
        /\ \A i \in 1..n : s[i] \in TransferRecord
    OBVIOUS
  <2>2. \A i \in 1..n : s[i].from \in Identifier /\ s[i].to \in Identifier /\ c(i) \in Int
    BY <2>1 DEF TransferRecord
  <2>3. \A i \in 1..n : a(i) \in Int /\ b(i) \in Int /\ c(i) \in Int  BY <2>2, Ranked
  <2> QED  BY <2>1, <2>3
<1>2. \A i, j \in 1..n : <<i, j>> \in R <=> prior(i, j)  OBVIOUS
<1>3. StrictlyOrders(R, 1..n)
  <2> HIDE DEF R
  <2>1. \A i \in 1..n : ~prior(i, i)  BY <1>1
  <2>2. ASSUME NEW i \in 1..n, NEW j \in 1..n, NEW m \in 1..n, prior(i, j), prior(j, m)
        PROVE  prior(i, m)
    <3>1. i \in Int /\ j \in Int /\ m \in Int  OBVIOUS
    <3> HIDE DEF a, b, c
    <3> QED  BY <1>1, <2>2, <3>1
  <2>3. ASSUME NEW i \in 1..n, NEW j \in 1..n PROVE i = j \/ prior(i, j) \/ prior(j, i)
    <3>1. i \in Int /\ j \in Int  OBVIOUS
    <3> HIDE DEF a, b, c
    <3> QED  BY <1>1, <3>1
  <2> HIDE DEF prior
  <2> QED  BY <1>2, <2>1, <2>2, <2>3 DEF StrictlyOrders
<1> DEFINE before(i, j) == \/ LexBefore(TransferKey(s[i]), TransferKey(s[j]))
                           \/ TransferKey(s[i]) = TransferKey(s[j]) /\ i < j
           rank(i) == 1 + Cardinality({j \in DOMAIN s : before(j, i)})
<1>4. \A i, j \in 1..n : before(i, j) <=> prior(i, j)
  <2> SUFFICES ASSUME NEW i \in 1..n, NEW j \in 1..n PROVE before(i, j) <=> prior(i, j)  OBVIOUS
  <2>1. TransferKey(s[i]) = <<a(i), b(i), c(i)>>
        /\ TransferKey(s[j]) = <<a(j), b(j), c(j)>>
    BY DEF TransferKey
  <2>2. /\ a(i) \in Int /\ b(i) \in Int /\ c(i) \in Int
        /\ a(j) \in Int /\ b(j) \in Int /\ c(j) \in Int
    BY <1>1
  <2> HIDE DEF a, b, c
  <2>3. /\ LexBefore(<<a(i), b(i), c(i)>>, <<a(j), b(j), c(j)>>)
              <=> \/ a(i) < a(j) \/ (a(i) = a(j) /\ b(i) < b(j))
                  \/ (a(i) = a(j) /\ b(i) = b(j) /\ c(i) < c(j))
        /\ <<a(i), b(i), c(i)>> = <<a(j), b(j), c(j)>>
              <=> a(i) = a(j) /\ b(i) = b(j) /\ c(i) = c(j)
    BY ONLY <2>2, ThreeNumbers
  <2> QED  BY <2>1, <2>3
<1>5. \A i \in 1..n : rank(i) = RankIn(R, 1..n, i)
  <2> SUFFICES ASSUME NEW i \in 1..n PROVE rank(i) = RankIn(R, 1..n, i)  OBVIOUS
  <2>1. {j \in DOMAIN s : before(j, i)} = {j \in 1..n : <<j, i>> \in R}
    <3> HIDE DEF before, R, prior
    <3> QED  BY <1>1, <1>2, <1>4
  <2>2. \A T : Cardinality(T) = Cardinality(T)  BY DEF Cardinality
  <2> HIDE DEF before, R
  <2> QED  BY <2>1, <2>2 DEF RankIn
<1> DEFINE place(l) == CHOOSE i \in DOMAIN s : rank(i) = l
           p == [l \in 1..n |-> place(l)]
<1>6. p = [l \in 1..n |-> p[l]] /\ t = [l \in 1..n |-> s[p[l]]]
  <2>1. t = [l \in DOMAIN s |-> s[place(l)]]
    BY DEF StableSort
  <2> HIDE DEF place, t
  <2> QED  BY <1>1, <2>1
<1>7. Permutes(p, n) /\ \A l, m \in 1..n : l < m => <<p[l], p[m]>> \in R
  <2>1. \A l \in 1..n : (\E i \in 1..n : RankIn(R, 1..n, i) = l)
                            => p[l] \in 1..n /\ RankIn(R, 1..n, p[l]) = l
    <3> SUFFICES ASSUME NEW l \in 1..n, NEW i \in 1..n, RankIn(R, 1..n, i) = l
                 PROVE  p[l] \in 1..n /\ RankIn(R, 1..n, p[l]) = l
      OBVIOUS
    <3>1. rank(i) = l  BY <1>5
    <3> HIDE DEF rank
    <3>2. place(l) \in 1..n /\ rank(place(l)) = l  BY <1>1, <3>1
    <3> HIDE DEF place
    <3> QED  BY <1>5, <3>2
  <2>2. DOMAIN p = 1..n
    <3> HIDE DEF place
    <3> QED  OBVIOUS
  <2>3. n \in Nat  BY <1>1
  <2> HIDE DEF p, n, R
  <2> QED  BY ONLY <1>3, <1>6, <2>1, <2>2, <2>3, Ranking DEF Permutes
<1> HIDE DEF p, R, t
<1>8. Rearranges(s, t)  BY <1>1, <1>6, <1>7 DEF Rearranges
<1>9. ASSUME \A i, j \in DOMAIN s : s[i].from = s[j].from /\ s[i].to = s[j].to => i = j,
             \A i \in DOMAIN s : s[i].from \in Nat /\ s[i].to \in Nat,
             NEW l \in DOMAIN t, NEW m \in DOMAIN t, l < m
      PROVE  <<t[l], t[m]>> \in PairBefore
  <2>1. l \in 1..n /\ m \in 1..n  BY <1>6
  <2>2. p[l] \in 1..n /\ p[m] \in 1..n /\ p[l] # p[m]
    <3>1. l # m  BY <1>9, <2>1
    <3>2. n \in Nat /\ Permutes(p, n)  BY <1>1, <1>7
    <3>3. \A i, j \in 1..n : p[i] = p[j] => i = j  BY ONLY <3>2, Permutation
    <3>4. p \in [1..n -> 1..n]  BY ONLY <3>2, Permutation
    <3> QED  BY ONLY <2>1, <3>1, <3>3, <3>4
  <2>3. prior(p[l], p[m])  BY <1>2, <1>7, <1>9, <2>1, <2>2
  <2>4. a(p[l]) # a(p[m]) \/ b(p[l]) # b(p[m])
    <3>1. s[p[l]].from # s[p[m]].from \/ s[p[l]].to # s[p[m]].to  BY <1>1, <1>9, <2>2
    <3>2. /\ s[p[l]].from \in Nat /\ s[p[m]].from \in Nat
          /\ s[p[l]].to \in Nat /\ s[p[m]].to \in Nat
      BY <1>1, <1>9, <2>2
    <3>3. \A x \in Nat : Rank(x) = x  BY Ranked, MalformedAssumption DEF Identifier
    <3> QED  BY <3>1, <3>2, <3>3
  <2>5. a(p[l]) < a(p[m]) \/ (a(p[l]) = a(p[m]) /\ b(p[l]) < b(p[m]))
    BY <2>3, <2>4
  <2>6. t[l] = s[p[l]] /\ t[m] = s[p[m]]  BY <1>6, <2>1
  <2> QED  BY <1>1, <2>2, <2>5, <2>6 DEF PairBefore
<1> QED  BY <1>8, <1>9 DEF t
-----------------------------------------------------------------------------
(* Documents of one content.                                               *)

ActivitiesIn(root) == [i \in 1..Len(root.activities) |-> ActivityFrom(root.activities[i])]

TransfersIn(root) == [i \in 1..Len(root.transfers) |-> TransferFrom(root.transfers[i])]

Decoded(root) ==
    [schema     |-> root.schema_version,
     id         |-> root.itinerary_id,
     anchor     |-> root.anchor_time_utc,
     horizon    |-> root.horizon_seconds,
     activities |-> StableSort(ActivitiesIn(root), ActivityKey),
     transfers  |-> StableSort(TransfersIn(root), TransferKey)]

Valid(root) == Objections(Decoded(root)) = {}

SameContent(r, q) ==
    /\ r.schema_version = q.schema_version /\ r.itinerary_id = q.itinerary_id
    /\ r.anchor_time_utc = q.anchor_time_utc /\ r.horizon_seconds = q.horizon_seconds
    /\ Rearranges(r.activities, q.activities) /\ Rearranges(r.transfers, q.transfers)

(* No two elements of s are alike.                                         *)
Apart(s, Alike) == \A i, j \in DOMAIN s : <<s[i], s[j]>> \in Alike => i = j

LEMMA RearrangedApart ==
  ASSUME NEW s, NEW t, Rearranges(s, t), NEW Alike, Apart(s, Alike)
  PROVE  Apart(t, Alike)
<1>1. PICK n, p :
         n \in Nat /\ Permutes(p, n) /\ s = [i \in 1..n |-> s[i]] /\ t = [i \in 1..n |-> s[p[i]]]
  BY DEF Rearranges
<1> n \in Nat  BY <1>1
<1>2. p \in [1..n -> 1..n] /\ \A i, j \in 1..n : p[i] = p[j] => i = j
  BY <1>1, Permutation
<1>3. DOMAIN s = 1..n /\ DOMAIN t = 1..n /\ \A i \in 1..n : t[i] = s[p[i]]  BY <1>1
<1> SUFFICES ASSUME NEW i \in 1..n, NEW j \in 1..n, <<t[i], t[j]>> \in Alike
             PROVE  i = j
  BY <1>3 DEF Apart
<1>4. p[i] \in 1..n /\ p[j] \in 1..n  BY <1>2
<1>5. p[i] = p[j]  BY <1>3, <1>4 DEF Apart
<1> QED  BY <1>2, <1>5

SameIds == {x \in ActivityRecord \X ActivityRecord : x[1].id = x[2].id}

SamePairs == {x \in TransferRecord \X TransferRecord : x[1].from = x[2].from /\ x[1].to = x[2].to}

LEMMA RecordsOfDocuments ==
  ASSUME NEW root \in ItineraryDocuments
  PROVE  /\ ActivitiesIn(root) \in Seq(ActivityRecord) /\ TransfersIn(root) \in Seq(TransferRecord)
         /\ Len(ActivitiesIn(root)) = Len(root.activities)
         /\ Len(TransfersIn(root)) = Len(root.transfers)
<1>1. /\ root.activities \in Seq(ActivityDocuments)
      /\ root.transfers \in Seq(TransferDocuments)
  BY DEF ItineraryDocuments
<1>2. ASSUME NEW v \in ActivityDocuments PROVE ActivityFrom(v) \in ActivityRecord
  BY DEF ActivityFrom, ActivityDocuments, DurationDocuments, ActivityRecord, Identifier
<1>3. ASSUME NEW v \in TransferDocuments PROVE TransferFrom(v) \in TransferRecord
  BY DEF TransferFrom, TransferDocuments, TransferRecord, Identifier
<1>4. /\ ActivitiesIn(root) \in [1..Len(root.activities) -> ActivityRecord]
      /\ Len(root.activities) \in Nat
  BY <1>1, <1>2 DEF ActivitiesIn
<1>5. /\ TransfersIn(root) \in [1..Len(root.transfers) -> TransferRecord]
      /\ Len(root.transfers) \in Nat
  BY <1>1, <1>3 DEF TransfersIn
<1> QED  BY <1>4, <1>5

(* The validator is given an itinerary.                                    *)
LEMMA DecodedIsItinerary ==
  ASSUME NEW root \in ItineraryDocuments
  PROVE  /\ Decoded(root) \in Itinerary
         /\ Decoded(root).activities \in Seq(ActivityRecord)
         /\ Decoded(root).transfers \in Seq(TransferRecord)
         /\ Rearranges(ActivitiesIn(root), Decoded(root).activities)
         /\ Rearranges(TransfersIn(root), Decoded(root).transfers)
<1>1. /\ Decoded(root).activities = StableSort(ActivitiesIn(root), ActivityKey)
      /\ Decoded(root).transfers = StableSort(TransfersIn(root), TransferKey)
  BY DEF Decoded
<1>2. /\ Rearranges(ActivitiesIn(root), Decoded(root).activities)
      /\ Rearranges(TransfersIn(root), Decoded(root).transfers)
  BY <1>1, RecordsOfDocuments, SortedActivities, SortedTransfers
<1>3. /\ Decoded(root).activities \in Seq(ActivityRecord)
      /\ Decoded(root).transfers \in Seq(TransferRecord)
  BY <1>2, RecordsOfDocuments, RearrangedElements
<1>4. ActivityRecord \subseteq Activity /\ TransferRecord \subseteq Transfer
  BY DEF ActivityRecord, TransferRecord, Activity, Transfer, Number
<1>5. /\ Decoded(root).activities \in Seq(Activity \cup {Malformed})
      /\ Decoded(root).transfers \in Seq(Transfer \cup {Malformed})
  BY <1>3, <1>4
<1>6. /\ root.schema_version \in Number /\ root.itinerary_id \in Identifier
      /\ root.anchor_time_utc \in BOOLEAN /\ root.horizon_seconds \in Number
  BY DEF ItineraryDocuments, Number, Identifier
<1>7. Decoded(root) = [schema |-> root.schema_version, id |-> root.itinerary_id,
                       anchor |-> root.anchor_time_utc, horizon |-> root.horizon_seconds,
                       activities |-> Decoded(root).activities,
                       transfers |-> Decoded(root).transfers]
  BY DEF Decoded
<1>8. Decoded(root) \in Itinerary  BY <1>5, <1>6, <1>7 DEF Itinerary
<1> QED  BY <1>2, <1>3, <1>8

(* What the validator accepts is apart.                                    *)
LEMMA ValidIsApart ==
  ASSUME NEW root \in ItineraryDocuments, Valid(root)
  PROVE  /\ Apart(Decoded(root).activities, SameIds)
         /\ Apart(Decoded(root).transfers, SamePairs)
         /\ \A x \in Range(Decoded(root).activities) : x.id \in Nat
         /\ \A t \in Range(Decoded(root).transfers) : t.from \in Nat /\ t.to \in Nat
<1> DEFINE it   == Decoded(root)
           acts == it.activities
           trs  == it.transfers
<1>1. Objections(it) = {} /\ WellFormed(it)
  <2>1. it \in Itinerary  BY DecodedIsItinerary
  <2>2. Objections(it) = {}  BY DEF Valid
  <2> HIDE DEF it
  <2> QED  BY <2>1, <2>2, NoObjections
<1>2. acts \in Seq(TimedActivity) /\ DOMAIN acts = 1..Len(acts) /\ Len(acts) \in Nat
      /\ acts \in Seq(ActivityRecord)
  BY <1>1, DecodedIsItinerary DEF WellFormed
<1>3. trs \in Seq(TransferRecord) /\ DOMAIN trs = 1..Len(trs) /\ Len(trs) \in Nat
  BY DecodedIsItinerary
<1>4. \A i, l \in DOMAIN acts : i < l => acts[i].id # acts[l].id
  <2>1. ActivityObjections(it) = {}  BY <1>1, NeitherFault DEF Objections
  <2>2. ~Twins(acts, LAMBDA x, y : x # Malformed /\ y # Malformed /\ x.id = y.id)
    BY <2>1 DEF ActivityObjections, Blame
  <2>3. Malformed \notin Range(acts)
    <3>1. Range(acts) = {x \in Range(acts) \ {Malformed} :
                           \A f \in {"release", "min", "max", "deadline"} : x[f] # Malformed}
      BY <2>1 DEF ActivityObjections, Blame
    <3> HIDE DEF acts
    <3> QED  BY <3>1
  <2>4. \A i \in DOMAIN acts : acts[i] # Malformed  BY <2>3 DEF Range
  <2> HIDE DEF acts
  <2> QED  BY <2>2, <2>4 DEF Twins
<1>5. Apart(acts, SameIds)
  <2> HIDE DEF acts
  <2> SUFFICES ASSUME NEW i \in DOMAIN acts, NEW j \in DOMAIN acts,
                      <<acts[i], acts[j]>> \in SameIds, i # j
               PROVE  FALSE
    BY DEF Apart
  <2>1. acts[i].id = acts[j].id  BY DEF SameIds
  <2>2. i < j \/ j < i  BY <1>2
  <2> QED  BY <1>4, <2>1, <2>2
<1>6. Apart(trs, SamePairs)
  <2>1. \A i, l \in DOMAIN trs : i < l => trs[i].from # trs[l].from \/ trs[i].to # trs[l].to
    BY <1>1 DEF WellFormed
  <2> HIDE DEF trs
  <2> SUFFICES ASSUME NEW i \in DOMAIN trs, NEW j \in DOMAIN trs,
                      <<trs[i], trs[j]>> \in SamePairs, i # j
               PROVE  FALSE
    BY DEF Apart
  <2>2. trs[i].from = trs[j].from /\ trs[i].to = trs[j].to  BY DEF SamePairs
  <2>3. i < j \/ j < i  BY <1>3
  <2> QED  BY <2>1, <2>2, <2>3
<1>7. \A x \in Range(acts) : x.id \in Nat
  <2> HIDE DEF acts
  <2>1. \A i \in DOMAIN acts : acts[i] \in TimedActivity  BY <1>2
  <2> QED  BY <2>1 DEF Range, TimedActivity
<1>8. ASSUME NEW t \in Range(trs) PROVE t.from \in Nat /\ t.to \in Nat
  <2>1. t.from \in IdsOf(it) /\ t.to \in IdsOf(it)  BY <1>1 DEF WellFormed
  <2> QED  BY <1>7, <2>1 DEF IdsOf
<1> QED  BY <1>5, <1>6, <1>7, <1>8

LEMMA BeforeIsOneWay == Asymmetric(IdBefore) /\ Asymmetric(PairBefore)
<1>1. Asymmetric(IdBefore)
  <2> SUFFICES ASSUME NEW x, NEW y, <<x, y>> \in IdBefore, <<y, x>> \in IdBefore PROVE FALSE
    BY DEF Asymmetric
  <2>1. x.id \in Identifier /\ y.id \in Identifier  BY DEF IdBefore, ActivityRecord
  <2>2. Rank(x.id) \in Int /\ Rank(y.id) \in Int  BY <2>1, Ranked
  <2>3. Rank(x.id) < Rank(y.id) /\ Rank(y.id) < Rank(x.id)  BY DEF IdBefore
  <2> QED  BY <2>2, <2>3
<1>2. Asymmetric(PairBefore)
  <2> SUFFICES ASSUME NEW x, NEW y, <<x, y>> \in PairBefore, <<y, x>> \in PairBefore PROVE FALSE
    BY DEF Asymmetric
  <2> DEFINE a == Rank(x.from)
             b == Rank(x.to)
             c == Rank(y.from)
             d == Rank(y.to)
  <2>1. /\ x.from \in Identifier /\ x.to \in Identifier
        /\ y.from \in Identifier /\ y.to \in Identifier
    BY DEF PairBefore, TransferRecord
  <2>2. a \in Int /\ b \in Int /\ c \in Int /\ d \in Int  BY <2>1, Ranked
  <2>3. (a < c \/ (a = c /\ b < d)) /\ (c < a \/ (c = a /\ d < b))  BY DEF PairBefore
  <2> HIDE DEF a, b, c, d
  <2> QED  BY <2>2, <2>3
<1> QED  BY <1>1, <1>2

(* A document with the content of a valid one is decoded to the same       *)
(* activities ...                                                          *)
LEMMA ActivitiesAlike ==
  ASSUME NEW r \in ItineraryDocuments, NEW q \in ItineraryDocuments,
         SameContent(r, q), Valid(r)
  PROVE  Decoded(r).activities = Decoded(q).activities
<1> DEFINE s == ActivitiesIn(r)
           t == ActivitiesIn(q)
           u == Decoded(r).activities
           w == Decoded(q).activities
<1>1. /\ s \in Seq(ActivityRecord) /\ t \in Seq(ActivityRecord)
      /\ Rearranges(s, u) /\ Rearranges(t, w) /\ u \in Seq(ActivityRecord)
      /\ u = StableSort(s, ActivityKey) /\ w = StableSort(t, ActivityKey)
  BY RecordsOfDocuments, DecodedIsItinerary DEF Decoded
<1>2. Rearranges(s, t)
  <2>1. PICK n, p : n \in Nat /\ Permutes(p, n) /\ r.activities = [i \in 1..n |-> r.activities[i]]
                           /\ q.activities = [i \in 1..n |-> r.activities[p[i]]]
    BY DEF SameContent, Rearranges
  <2> n \in Nat  BY <2>1
  <2>2. p \in [1..n -> 1..n]  BY <2>1, Permutation
  <2>3. Len(r.activities) = n /\ Len(q.activities) = n
    <3>1. /\ r.activities \in Seq(ActivityDocuments)
          /\ q.activities \in Seq(ActivityDocuments)
      BY DEF ItineraryDocuments
    <3>2. DOMAIN r.activities = 1..n /\ DOMAIN q.activities = 1..n  BY <2>1
    <3> QED  BY <3>1, <3>2
  <2>4. s = [i \in 1..n |-> s[i]] /\ t = [i \in 1..n |-> s[p[i]]]
    BY <2>1, <2>2, <2>3 DEF ActivitiesIn
  <2> QED  BY <2>1, <2>4 DEF Rearranges
<1> HIDE DEF s, t, u, w
<1>3. /\ Apart(s, SameIds) /\ Apart(t, SameIds)
      /\ \A i \in DOMAIN s : s[i].id \in Nat
      /\ \A i \in DOMAIN t : t[i].id \in Nat
  <2>1. Apart(u, SameIds) /\ \A x \in Range(u) : x.id \in Nat  BY ValidIsApart DEF u
  <2>2. Apart(s, SameIds)  BY <1>1, <2>1, RearrangedBack, RearrangedApart
  <2>3. Apart(t, SameIds)  BY <1>2, <2>2, RearrangedApart
  <2>4. Range(s) = Range(u) /\ Range(t) = Range(s)
    BY <1>1, <1>2, RearrangedElements
  <2> QED  BY <2>1, <2>2, <2>3, <2>4 DEF Range
<1>4. \A i, j \in DOMAIN s : s[i].id = s[j].id => i = j
  <2> SUFFICES ASSUME NEW i \in DOMAIN s, NEW j \in DOMAIN s, s[i].id = s[j].id PROVE i = j
    OBVIOUS
  <2>1. s[i] \in ActivityRecord /\ s[j] \in ActivityRecord  BY <1>1
  <2>2. <<s[i], s[j]>> \in SameIds  BY <2>1 DEF SameIds
  <2> QED  BY <1>3, <2>2 DEF Apart
<1>5. \A i, j \in DOMAIN t : t[i].id = t[j].id => i = j
  <2> SUFFICES ASSUME NEW i \in DOMAIN t, NEW j \in DOMAIN t, t[i].id = t[j].id PROVE i = j
    OBVIOUS
  <2>1. t[i] \in ActivityRecord /\ t[j] \in ActivityRecord  BY <1>1
  <2>2. <<t[i], t[j]>> \in SameIds  BY <2>1 DEF SameIds
  <2> QED  BY <1>3, <2>2 DEF Apart
<1>6. /\ \A l, m \in DOMAIN u : l < m => <<u[l], u[m]>> \in IdBefore
      /\ \A l, m \in DOMAIN w : l < m => <<w[l], w[m]>> \in IdBefore
  BY <1>1, <1>3, <1>4, <1>5, SortedActivities
<1>7. Rearranges(u, w)
  BY <1>1, <1>2, RearrangedBack, RearrangedTwice
<1>8. u = w
  BY <1>6, <1>7, BeforeIsOneWay, SortedOnce
<1> QED  BY <1>8 DEF u, w

(* ... and transfers,                                                      *)
LEMMA TransfersAlike ==
  ASSUME NEW r \in ItineraryDocuments, NEW q \in ItineraryDocuments,
         SameContent(r, q), Valid(r)
  PROVE  Decoded(r).transfers = Decoded(q).transfers
<1> DEFINE s == TransfersIn(r)
           t == TransfersIn(q)
           u == Decoded(r).transfers
           w == Decoded(q).transfers
<1>1. /\ s \in Seq(TransferRecord) /\ t \in Seq(TransferRecord)
      /\ Rearranges(s, u) /\ Rearranges(t, w) /\ u \in Seq(TransferRecord)
      /\ u = StableSort(s, TransferKey) /\ w = StableSort(t, TransferKey)
  BY RecordsOfDocuments, DecodedIsItinerary DEF Decoded
<1>2. Rearranges(s, t)
  <2>1. PICK n, p : n \in Nat /\ Permutes(p, n) /\ r.transfers = [i \in 1..n |-> r.transfers[i]]
                           /\ q.transfers = [i \in 1..n |-> r.transfers[p[i]]]
    BY DEF SameContent, Rearranges
  <2> n \in Nat  BY <2>1
  <2>2. p \in [1..n -> 1..n]  BY <2>1, Permutation
  <2>3. Len(r.transfers) = n /\ Len(q.transfers) = n
    <3>1. /\ r.transfers \in Seq(TransferDocuments)
          /\ q.transfers \in Seq(TransferDocuments)
      BY DEF ItineraryDocuments
    <3>2. DOMAIN r.transfers = 1..n /\ DOMAIN q.transfers = 1..n  BY <2>1
    <3> QED  BY <3>1, <3>2
  <2>4. s = [i \in 1..n |-> s[i]] /\ t = [i \in 1..n |-> s[p[i]]]
    BY <2>1, <2>2, <2>3 DEF TransfersIn
  <2> QED  BY <2>1, <2>4 DEF Rearranges
<1> HIDE DEF s, t, u, w
<1>3. /\ Apart(s, SamePairs) /\ Apart(t, SamePairs)
      /\ \A i \in DOMAIN s : s[i].from \in Nat /\ s[i].to \in Nat
      /\ \A i \in DOMAIN t : t[i].from \in Nat /\ t[i].to \in Nat
  <2>1. Apart(u, SamePairs) /\ \A x \in Range(u) : x.from \in Nat /\ x.to \in Nat
    BY ValidIsApart DEF u
  <2>2. Apart(s, SamePairs)  BY <1>1, <2>1, RearrangedBack, RearrangedApart
  <2>3. Apart(t, SamePairs)  BY <1>2, <2>2, RearrangedApart
  <2>4. Range(s) = Range(u) /\ Range(t) = Range(s)
    BY <1>1, <1>2, RearrangedElements
  <2> QED  BY <2>1, <2>2, <2>3, <2>4 DEF Range
<1>4. \A i, j \in DOMAIN s : s[i].from = s[j].from /\ s[i].to = s[j].to => i = j
  <2> SUFFICES ASSUME NEW i \in DOMAIN s, NEW j \in DOMAIN s,
                      s[i].from = s[j].from /\ s[i].to = s[j].to
               PROVE  i = j
    OBVIOUS
  <2>1. s[i] \in TransferRecord /\ s[j] \in TransferRecord  BY <1>1
  <2>2. <<s[i], s[j]>> \in SamePairs  BY <2>1 DEF SamePairs
  <2> QED  BY <1>3, <2>2 DEF Apart
<1>5. \A i, j \in DOMAIN t : t[i].from = t[j].from /\ t[i].to = t[j].to => i = j
  <2> SUFFICES ASSUME NEW i \in DOMAIN t, NEW j \in DOMAIN t,
                      t[i].from = t[j].from /\ t[i].to = t[j].to
               PROVE  i = j
    OBVIOUS
  <2>1. t[i] \in TransferRecord /\ t[j] \in TransferRecord  BY <1>1
  <2>2. <<t[i], t[j]>> \in SamePairs  BY <2>1 DEF SamePairs
  <2> QED  BY <1>3, <2>2 DEF Apart
<1>6. /\ \A l, m \in DOMAIN u : l < m => <<u[l], u[m]>> \in PairBefore
      /\ \A l, m \in DOMAIN w : l < m => <<w[l], w[m]>> \in PairBefore
  BY <1>1, <1>3, <1>4, <1>5, SortedTransfers
<1>7. Rearranges(u, w)
  BY <1>1, <1>2, RearrangedBack, RearrangedTwice
<1>8. u = w
  BY <1>6, <1>7, BeforeIsOneWay, SortedOnce
<1> QED  BY <1>8 DEF u, w

(* ... and so to the same itinerary.                                       *)
LEMMA DecodedAlike ==
  ASSUME NEW r \in ItineraryDocuments, NEW q \in ItineraryDocuments,
         SameContent(r, q), Valid(r)
  PROVE  Decoded(q) = Decoded(r)
<1>1. Decoded(r).activities = Decoded(q).activities /\ Decoded(r).transfers = Decoded(q).transfers
  BY ActivitiesAlike, TransfersAlike
<1> QED  BY <1>1 DEF Decoded, SameContent

(* Another order of the arrays is not another content.                     *)
LEMMA ContentBack ==
  ASSUME NEW r, NEW q, SameContent(r, q) PROVE SameContent(q, r)
  BY RearrangedBack DEF SameContent

-----------------------------------------------------------------------------
(* The canonical document has the content of the one that was decoded.     *)
LEMMA CanonicalContent ==
  ASSUME NEW r \in ItineraryDocuments
  PROVE  LET c == ItineraryDocument(Decoded(r)) IN
         c \in ItineraryDocuments /\ SameContent(r, c)
<1> DEFINE c  == ItineraryDocument(Decoded(r))
           xs == StableSort(Decoded(r).activities, ActivityKey)
           ts == StableSort(Decoded(r).transfers, TransferKey)
<1>1. c = [schema_version  |-> r.schema_version,
           itinerary_id    |-> r.itinerary_id,
           anchor_time_utc |-> r.anchor_time_utc,
           horizon_seconds |-> r.horizon_seconds,
           activities      |-> [i \in DOMAIN xs |-> ActivityDocument(xs[i])],
           transfers       |-> [i \in DOMAIN ts |-> TransferDocument(ts[i])]]
  BY DEF ItineraryDocument, Decoded
<1>2. /\ r.activities \in Seq(ActivityDocuments)
      /\ r.transfers \in Seq(TransferDocuments)
      /\ Len(r.activities) \in Nat /\ Len(r.transfers) \in Nat
      /\ r.schema_version \in Int /\ r.itinerary_id \in Identifier
      /\ r.anchor_time_utc \in BOOLEAN /\ r.horizon_seconds \in Int
  BY DEF ItineraryDocuments
<1>3. Rearranges(ActivitiesIn(r), xs) /\ Rearranges(TransfersIn(r), ts)
  <2>1. Rearranges(Decoded(r).activities, xs) /\ Rearranges(Decoded(r).transfers, ts)
    BY DecodedIsItinerary, SortedActivities, SortedTransfers
  <2> HIDE DEF xs, ts
  <2> QED  BY <2>1, DecodedIsItinerary, RearrangedTwice
<1> HIDE DEF c, xs, ts
<1>4. ASSUME NEW v \in ActivityDocuments
      PROVE  ActivityDocument(ActivityFrom(v)) = v
  BY DEF ActivityDocument, ActivityFrom, ActivityDocuments, DurationDocuments
<1>5. ASSUME NEW v \in TransferDocuments
      PROVE  TransferDocument(TransferFrom(v)) = v
  BY DEF TransferDocument, TransferFrom, TransferDocuments
<1>6. Rearranges(r.activities, c.activities)
  <2>1. PICK n, p :
           /\ n \in Nat /\ Permutes(p, n) /\ ActivitiesIn(r) = [i \in 1..n |-> ActivitiesIn(r)[i]]
           /\ xs = [i \in 1..n |-> ActivitiesIn(r)[p[i]]]
    BY <1>3 DEF Rearranges
  <2> n \in Nat  BY <2>1
  <2>2. Len(r.activities) = n
    <3>1. DOMAIN ActivitiesIn(r) = 1..Len(r.activities)  BY DEF ActivitiesIn
    <3>2. 1..n = 1..Len(r.activities)  BY <2>1, <3>1
    <3> QED  BY <1>2, <3>2
  <2>3. \A i \in 1..n : p[i] \in 1..n  BY <2>1, Permutation
  <2>4. r.activities = [i \in 1..n |-> r.activities[i]]  BY <1>2, <2>2
  <2>5. ASSUME NEW i \in 1..n PROVE ActivityDocument(xs[i]) = r.activities[p[i]]
    <3>1. p[i] \in 1..n /\ r.activities[p[i]] \in ActivityDocuments  BY <1>2, <2>2, <2>3
    <3>2. xs[i] = ActivityFrom(r.activities[p[i]])  BY <2>1, <2>2, <3>1 DEF ActivitiesIn
    <3> QED  BY <1>4, <3>1, <3>2
  <2>6. c.activities = [i \in 1..n |-> ActivityDocument(xs[i])]
    <3>1. DOMAIN xs = 1..n  BY <2>1
    <3> QED  BY <1>1, <3>1
  <2>7. c.activities = [i \in 1..n |-> r.activities[p[i]]]  BY <2>5, <2>6
  <2> QED  BY <2>1, <2>4, <2>7 DEF Rearranges
<1>7. Rearranges(r.transfers, c.transfers)
  <2>1. PICK n, p :
           /\ n \in Nat /\ Permutes(p, n) /\ TransfersIn(r) = [i \in 1..n |-> TransfersIn(r)[i]]
           /\ ts = [i \in 1..n |-> TransfersIn(r)[p[i]]]
    BY <1>3 DEF Rearranges
  <2> n \in Nat  BY <2>1
  <2>2. Len(r.transfers) = n
    <3>1. DOMAIN TransfersIn(r) = 1..Len(r.transfers)  BY DEF TransfersIn
    <3>2. 1..n = 1..Len(r.transfers)  BY <2>1, <3>1
    <3> QED  BY <1>2, <3>2
  <2>3. \A i \in 1..n : p[i] \in 1..n  BY <2>1, Permutation
  <2>4. r.transfers = [i \in 1..n |-> r.transfers[i]]  BY <1>2, <2>2
  <2>5. ASSUME NEW i \in 1..n PROVE TransferDocument(ts[i]) = r.transfers[p[i]]
    <3>1. p[i] \in 1..n /\ r.transfers[p[i]] \in TransferDocuments  BY <1>2, <2>2, <2>3
    <3>2. ts[i] = TransferFrom(r.transfers[p[i]])  BY <2>1, <2>2, <3>1 DEF TransfersIn
    <3> QED  BY <1>5, <3>1, <3>2
  <2>6. c.transfers = [i \in 1..n |-> TransferDocument(ts[i])]
    <3>1. DOMAIN ts = 1..n  BY <2>1
    <3> QED  BY <1>1, <3>1
  <2>7. c.transfers = [i \in 1..n |-> r.transfers[p[i]]]  BY <2>5, <2>6
  <2> QED  BY <2>1, <2>4, <2>7 DEF Rearranges
<1>8. c \in ItineraryDocuments
  <2>1. /\ c.activities \in Seq(ActivityDocuments)
        /\ c.transfers \in Seq(TransferDocuments)
    BY <1>2, <1>6, <1>7, RearrangedElements
  <2>2. c = [schema_version |-> r.schema_version, itinerary_id |-> r.itinerary_id,
             anchor_time_utc |-> r.anchor_time_utc, horizon_seconds |-> r.horizon_seconds,
             activities |-> c.activities, transfers |-> c.transfers]
    BY <1>1
  <2> QED  BY <1>2, <2>1, <2>2 DEF ItineraryDocuments
<1>9. SameContent(r, c)
  BY <1>1, <1>6, <1>7 DEF SameContent
<1> QED  BY <1>8, <1>9 DEF c

-----------------------------------------------------------------------------
(* What the checks of the decoder let through.                             *)

LEMMA ActivityPasses ==
  ASSUME DocumentsAreValues, NEW v, IsActivityValue(v)
  PROVE  ActivityFault(v) = {} <=> v \in ActivityDocuments
<1>1. ASSUME v \in ActivityDocuments PROVE ActivityFault(v) = {}
  <2>1. /\ v # WrongType /\ v.duration # WrongType /\ v.id # WrongType
        /\ v.release_offset_seconds # WrongType /\ v.duration.minimum_seconds # WrongType
        /\ v.duration.maximum_seconds # WrongType /\ v.hard_deadline_offset_seconds # WrongType
    BY <1>1 DEF DocumentsAreValues, ActivityDocuments, DurationDocuments
  <2>2. DOMAIN v = ActivityFields /\ DOMAIN v.duration = DurationFields
    BY <1>1 DEF ActivityDocuments, DurationDocuments, ActivityFields,
                DurationFields
  <2> QED
    BY <2>1, <2>2 DEF ActivityFault, RequireObject, Require, Blame, ??
<1>2. ASSUME ActivityFault(v) = {} PROVE v \in ActivityDocuments
  <2>1. /\ RequireObject(v, ActivityFields) = {}
        /\ RequireObject(v.duration, DurationFields) = {}
        /\ Require(v.id) = {} /\ Require(v.release_offset_seconds) = {}
        /\ Require(v.duration.minimum_seconds) = {}
        /\ Require(v.duration.maximum_seconds) = {}
        /\ Require(v.hard_deadline_offset_seconds) = {}
    BY <1>2 DEF ActivityFault, ??
  <2>2. /\ v # WrongType /\ v.duration # WrongType /\ v.id # WrongType
        /\ v.release_offset_seconds # WrongType /\ v.duration.minimum_seconds # WrongType
        /\ v.duration.maximum_seconds # WrongType /\ v.hard_deadline_offset_seconds # WrongType
    BY <2>1 DEF RequireObject, Require, Blame
  <2>3. DOMAIN v = ActivityFields /\ DOMAIN v.duration = DurationFields
    BY <2>1, <2>2 DEF RequireObject, Blame, ??
  <2>4. /\ v = [f \in DOMAIN v |-> v[f]] /\ v.duration = [f \in DOMAIN v.duration |-> v.duration[f]]
        /\ Holds(v, {"id"}, Identifier)
        /\ Holds(v, {"release_offset_seconds", "hard_deadline_offset_seconds"}, Int)
        /\ Holds(v.duration, DurationFields, Int)
    BY <2>2, <2>3 DEF IsActivityValue, IsDurationValue, IsObject,
                      ActivityFields
  <2>5. /\ v.id \in Identifier /\ v.release_offset_seconds \in Int
        /\ v.hard_deadline_offset_seconds \in Int
        /\ v.duration.minimum_seconds \in Int /\ v.duration.maximum_seconds \in Int
    BY <2>2, <2>3, <2>4 DEF Holds, ActivityFields, DurationFields
  <2>6. v.duration \in DurationDocuments
    BY <2>3, <2>4, <2>5 DEF DurationDocuments, DurationFields
  <2> QED
    BY <2>3, <2>4, <2>5, <2>6 DEF ActivityDocuments, ActivityFields
<1> QED  BY <1>1, <1>2

LEMMA TransferPasses ==
  ASSUME DocumentsAreValues, NEW v, IsTransferValue(v)
  PROVE  TransferFault(v) = {} <=> v \in TransferDocuments
<1>1. ASSUME v \in TransferDocuments PROVE TransferFault(v) = {}
  <2>1. /\ v # WrongType /\ v.from_activity_id # WrongType /\ v.to_activity_id # WrongType
        /\ v.minimum_seconds # WrongType
    BY <1>1 DEF DocumentsAreValues, TransferDocuments
  <2>2. DOMAIN v = TransferFields
    BY <1>1 DEF TransferDocuments, TransferFields
  <2> QED
    BY <2>1, <2>2 DEF TransferFault, RequireObject, Require, Blame, ??
<1>2. ASSUME TransferFault(v) = {} PROVE v \in TransferDocuments
  <2>1. /\ RequireObject(v, TransferFields) = {}
        /\ Require(v.from_activity_id) = {} /\ Require(v.to_activity_id) = {}
        /\ Require(v.minimum_seconds) = {}
    BY <1>2 DEF TransferFault, ??
  <2>2. /\ v # WrongType /\ v.from_activity_id # WrongType /\ v.to_activity_id # WrongType
        /\ v.minimum_seconds # WrongType
    BY <2>1 DEF RequireObject, Require, Blame
  <2>3. DOMAIN v = TransferFields
    BY <2>1, <2>2 DEF RequireObject, Blame, ??
  <2>4. /\ v = [f \in DOMAIN v |-> v[f]]
        /\ Holds(v, {"from_activity_id", "to_activity_id"}, Identifier)
        /\ Holds(v, {"minimum_seconds"}, Int)
    BY <2>2 DEF IsTransferValue, IsObject
  <2>5. /\ v.from_activity_id \in Identifier /\ v.to_activity_id \in Identifier
        /\ v.minimum_seconds \in Int
    BY <2>2, <2>3, <2>4 DEF Holds, TransferFields
  <2> QED
    BY <2>3, <2>4, <2>5 DEF TransferDocuments, TransferFields
<1> QED  BY <1>1, <1>2

(* A document every check lets through ...                                 *)
Proper(root) ==
    /\ root \in ItineraryDocuments
    /\ Len(root.activities) \in 1..MaxActivities /\ Len(root.transfers) \in 0..MaxTransfers

Opened(root) ==
    /\ root # WrongType /\ DOMAIN root = RootFields
    /\ root.activities # WrongType /\ Len(root.activities) \in 1..MaxActivities

TransfersOpened(root) == root.transfers # WrongType /\ Len(root.transfers) \in 0..MaxTransfers

Headed(root) ==
    /\ root.schema_version # WrongType /\ root.itinerary_id # WrongType
    /\ root.anchor_time_utc # WrongType /\ root.horizon_seconds # WrongType

(* ... is let through by each of them ...                                  *)
LEMMA ProperPasses ==
  ASSUME DocumentsAreValues, NEW root, Proper(root)
  PROVE  /\ Opened(root) /\ TransfersOpened(root) /\ Headed(root)
         /\ \A i \in 1..Len(root.activities) : root.activities[i] \in ActivityDocuments
         /\ \A i \in 1..Len(root.transfers) : root.transfers[i] \in TransferDocuments
<1>1. DOMAIN root = RootFields
  BY DEF Proper, ItineraryDocuments, RootFields
<1>2. /\ root.activities \in Seq(ActivityDocuments)
      /\ root.transfers \in Seq(TransferDocuments)
      /\ root.schema_version \in Int /\ root.itinerary_id \in Identifier
      /\ root.anchor_time_utc \in BOOLEAN /\ root.horizon_seconds \in Int
  BY DEF Proper, ItineraryDocuments
<1>3. /\ root # WrongType /\ root.activities # WrongType /\ root.transfers # WrongType
      /\ Headed(root)
  BY <1>2 DEF Proper, DocumentsAreValues, Headed
<1> QED  BY <1>1, <1>2, <1>3 DEF Proper, Opened, TransfersOpened

(* ... and none else.                                                      *)
LEMMA PassesIsProper ==
  ASSUME NEW root, IsRootValue(root),
         Opened(root), TransfersOpened(root), Headed(root),
         \A i \in 1..Len(root.activities) : root.activities[i] \in ActivityDocuments,
         \A i \in 1..Len(root.transfers) : root.transfers[i] \in TransferDocuments
  PROVE  Proper(root)
<1>1. /\ DOMAIN root = RootFields /\ root = [f \in DOMAIN root |-> root[f]]
      /\ Holds(root, {"schema_version", "horizon_seconds"}, Int)
      /\ Holds(root, {"itinerary_id"}, Identifier)
      /\ Holds(root, {"anchor_time_utc"}, BOOLEAN)
  BY DEF Opened, IsRootValue, IsObject
<1>2. /\ root.schema_version \in Int /\ root.itinerary_id \in Identifier
      /\ root.anchor_time_utc \in BOOLEAN /\ root.horizon_seconds \in Int
  BY <1>1 DEF Headed, Holds, RootFields
<1>3. IsArray(root.activities) /\ IsArray(root.transfers)
  BY <1>1 DEF Opened, TransfersOpened, IsRootValue, RootFields
<1>4. /\ root.activities \in Seq(ActivityDocuments)
      /\ root.transfers \in Seq(TransferDocuments)
  <2>1. root.activities \in [1..Len(root.activities) -> ActivityDocuments]
    BY <1>3 DEF IsArray
  <2>2. root.transfers \in [1..Len(root.transfers) -> TransferDocuments]
    BY <1>3 DEF IsArray
  <2>3. Len(root.activities) \in Nat /\ Len(root.transfers) \in Nat  BY <1>3 DEF IsArray
  <2> QED  BY <2>1, <2>2, <2>3
<1>5. root \in ItineraryDocuments
  BY <1>1, <1>2, <1>4 DEF ItineraryDocuments, RootFields
<1> QED  BY <1>5 DEF Proper, Opened, TransfersOpened

(* The values of the elements of an array.                                 *)
LEMMA ElementValues ==
  ASSUME NEW root, IsRootValue(root), Opened(root)
  PROVE  /\ \A i \in 1..Len(root.activities) : IsActivityValue(root.activities[i])
         /\ TransfersOpened(root) =>
               \A i \in 1..Len(root.transfers) : IsTransferValue(root.transfers[i])
<1>1. "activities" \in DOMAIN root /\ "transfers" \in DOMAIN root
  BY DEF Opened, RootFields
<1>2. /\ IsArray(root.activities)
      /\ \A i \in DOMAIN root.activities : IsActivityValue(root.activities[i])
  BY <1>1 DEF Opened, IsRootValue
<1>3. TransfersOpened(root) =>
        /\ IsArray(root.transfers)
        /\ \A i \in DOMAIN root.transfers : IsTransferValue(root.transfers[i])
  BY <1>1 DEF Opened, TransfersOpened, IsRootValue
<1>4. ASSUME NEW v, IsArray(v) PROVE DOMAIN v = 1..Len(v)
  BY <1>4 DEF IsArray
<1> QED  BY <1>2, <1>3, <1>4

-----------------------------------------------------------------------------
(* The decoder.                                                            *)

TextPasses(d) ==
    /\ d.type \in {"bytes", "str"} /\ ~(d.size > MaxInputBytes) /\ d.unicode /\ d.json = ""

Accepts(d) == TextPasses(d) /\ Proper(d.root) /\ Valid(d.root)

ActivitiesRead(n) ==
    /\ activities = [i \in 1..n |-> ActivityFrom(data.root.activities[i])]
    /\ \A i \in 1..n : data.root.activities[i] \in ActivityDocuments

TransfersRead(n) ==
    /\ transfers = [i \in 1..n |-> TransferFrom(data.root.transfers[i])]
    /\ \A i \in 1..n : data.root.transfers[i] \in TransferDocuments

(* What has been read so far is of the document, and passed the checks.    *)
Reading ==
    /\ stage \in {"text", "root"} => activities = << >>
    /\ stage \in {"text", "root", "activities"} => transfers = << >>
    /\ stage \in {"root", "activities", "transfers", "validate"} => TextPasses(data)
    /\ stage \in {"activities", "transfers", "validate"} => Opened(data.root)
    /\ stage = "activities" =>
             position \in 1..(Len(data.root.activities) + 1) /\ ActivitiesRead(position - 1)
    /\ stage = "transfers" => /\ TransfersOpened(data.root)
                              /\ ActivitiesRead(Len(data.root.activities))
                              /\ position \in 1..(Len(data.root.transfers) + 1)
                              /\ TransfersRead(position - 1)
    /\ stage = "validate" => Proper(data.root) /\ built = Decoded(data.root)

(* The verdict is that of the document, whatever the order of its checks.  *)
Judged ==
    /\ stage = "done" <=> verdict # "PENDING"
    /\ stage = "done" => /\ verdict = "ACCEPTED" <=> Accepts(data)
                         /\ verdict = "ACCEPTED" => built = Decoded(data.root)

(* The second document is the first in another form.                       *)
Remembered ==
    pass = 2 => /\ first.verdict = "ACCEPTED" <=> Accepts(data)
                /\ Accepts(data) => first.itinerary = Decoded(data.root)

DInv ==
    /\ IsData(data)
    /\ stage \in {"text", "root", "activities", "transfers", "validate", "done"}
    /\ Reading /\ Judged /\ Remembered

(* No check gives the code of success.                                     *)
Refusing(f) == "ACCEPTED" \notin f /\ "PENDING" \notin f

LEMMA ChecksRefuse ==
  ASSUME IsData(data)
  PROVE  /\ Refusing(??(DecodeText, DecodeJson))
         /\ Refusing(??(RequireObject(data.root, RootFields),
                        RequireList(data.root.activities, 1, MaxActivities)))
         /\ Refusing(RequireList(data.root.transfers, 0, MaxTransfers))
         /\ \A v : Refusing(ActivityFault(v)) /\ Refusing(TransferFault(v))
         /\ Refusing(HeaderFault)
<1>1. data.json \notin {"ACCEPTED", "PENDING"}
  BY DEF IsData, JsonVerdicts
<1>2. /\ Refusing(??(DecodeText, DecodeJson))
      /\ Refusing(RequireList(data.root.transfers, 0, MaxTransfers))
      /\ Refusing(HeaderFault)
  BY <1>1 DEF Refusing, ??, Blame, DecodeText, DecodeJson,
              RequireList, HeaderFault, Require
<1>3. Refusing(??(RequireObject(data.root, RootFields),
                  RequireList(data.root.activities, 1, MaxActivities)))
  BY DEF Refusing, ??, Blame, RequireList, RequireObject
<1>4. ASSUME NEW v PROVE Refusing(ActivityFault(v)) /\ Refusing(TransferFault(v))
  BY DEF Refusing, ??, Blame, RequireObject, Require,
         ActivityFault, TransferFault
<1> QED  BY <1>2, <1>3, <1>4

LEMMA ObjectionsRefuse == ASSUME NEW it PROVE Refusing(Objections(it))
<1>1. Refusing(HeaderObjections(it))  BY DEF Refusing, HeaderObjections, Blame
<1>2. Refusing(ActivityObjections(it))  BY DEF Refusing, ActivityObjections, Blame
<1>3. Refusing(TransferObjections(it))  BY DEF Refusing, TransferObjections, Blame
<1> QED  BY <1>1, <1>2, <1>3 DEF Refusing, Objections, ??, Blame

LEMMA DInitially == DocumentsAreValues /\ DecodeInit => DInv
<1> SUFFICES ASSUME DocumentsAreValues, DecodeInit PROVE DInv  OBVIOUS
<1>1. IsData(data)  BY DEF DecodeInit, DocumentsAreValues
<1> QED  BY <1>1 DEF DecodeInit, DInv, Reading, Judged, Remembered

LEMMA TextChecked ==
  ASSUME IsData(data)
  PROVE  ??(DecodeText, DecodeJson) = {} <=> TextPasses(data)
  BY DEF ??, Blame, DecodeText, DecodeJson, TextPasses, IsData

LEMMA RootChecked ==
  ??(RequireObject(data.root, RootFields),
     RequireList(data.root.activities, 1, MaxActivities)) = {} <=> Opened(data.root)
  BY DEF ??, Blame, RequireObject, RequireList, Opened

LEMMA TransfersChecked ==
  RequireList(data.root.transfers, 0, MaxTransfers) = {} <=> TransfersOpened(data.root)
  BY DEF Blame, RequireList, TransfersOpened

LEMMA HeaderChecked == HeaderFault = {} <=> Headed(data.root)
  BY DEF HeaderFault, Root, Require, Blame, ??, Headed

(* A check may end the call only where the document is not acceptable.     *)
LEMMA RefuseKeeps ==
  ASSUME DInv, stage # "done", NEW f, Refusing(f), f # {} => ~Accepts(data),
         f # {}, Refuse(f), UNCHANGED <<data, pass, first>>
  PROVE  DInv'
<1>1. stage' = "done" /\ verdict' # "ACCEPTED" /\ verdict' # "PENDING"
  BY DEF Refuse, Refusing
<1>2. Reading'  BY <1>1 DEF Reading
<1>3. Judged'
  <2>1. Accepts(data)' <=> Accepts(data)  OBVIOUS
  <2> QED  BY <1>1, <2>1 DEF Judged
<1>4. Remembered'
  <2>1. Accepts(data)' <=> Accepts(data)  OBVIOUS
  <2> QED  BY <2>1 DEF DInv, Remembered
<1> QED  BY <1>1, <1>2, <1>3, <1>4 DEF DInv

(* Otherwise the call goes on.                                             *)
LEMMA GoesOn ==
  ASSUME DInv, stage' # "done", verdict' = "PENDING", Reading',
         stage' \in {"text", "root", "activities", "transfers", "validate", "done"},
         UNCHANGED <<data, pass, first>>
  PROVE  DInv'
  BY DEF DInv, Judged, Remembered

LEMMA ReadTextKeeps == DInv /\ ReadText => DInv'
<1> SUFFICES ASSUME DInv, ReadText PROVE DInv'  OBVIOUS
<1> DEFINE f == ??(DecodeText, DecodeJson)
<1>1. /\ stage = "text" /\ IsData(data) /\ UNCHANGED <<data, pass, first>>
      /\ \/ f # {} /\ Refuse(f)
         \/ /\ f = {} /\ stage' = "root" /\ position' = 1
            /\ UNCHANGED <<activities, transfers, built, verdict>>
  BY DEF ReadText, Go, DInv, decoded
<1>2. f = {} <=> TextPasses(data)  BY <1>1, TextChecked
<1>3. Refusing(f)  BY <1>1, ChecksRefuse
<1> HIDE DEF f
<1>4. CASE f # {}
  BY <1>1, <1>2, <1>3, <1>4, RefuseKeeps DEF Accepts
<1>5. CASE f = {}
  <2>1. stage' = "root" /\ verdict' = "PENDING" /\ activities' = << >> /\ transfers' = << >>
    BY <1>1, <1>5 DEF DInv, Judged, Reading
  <2>2. Reading'  BY <1>1, <1>2, <1>5, <2>1 DEF Reading, TextPasses
  <2> QED  BY <1>1, <2>1, <2>2, GoesOn
<1> QED  BY <1>4, <1>5

LEMMA OpenRootKeeps == DocumentsAreValues /\ DInv /\ OpenRoot => DInv'
<1> SUFFICES ASSUME DocumentsAreValues, DInv, OpenRoot PROVE DInv'  OBVIOUS
<1> DEFINE f == ??(RequireObject(data.root, RootFields),
                   RequireList(data.root.activities, 1, MaxActivities))
<1>1. /\ stage = "root" /\ IsData(data) /\ UNCHANGED <<data, pass, first>>
      /\ \/ f # {} /\ Refuse(f)
         \/ /\ f = {} /\ stage' = "activities" /\ position' = 1
            /\ UNCHANGED <<activities, transfers, built, verdict>>
  BY DEF OpenRoot, Root, Go, DInv, decoded
<1>2. f = {} <=> Opened(data.root)  BY RootChecked
<1>3. Refusing(f)  BY <1>1, ChecksRefuse
<1> HIDE DEF f
<1>4. CASE f # {}
  BY <1>1, <1>2, <1>3, <1>4, RefuseKeeps, ProperPasses DEF Accepts
<1>5. CASE f = {}
  <2>1. /\ stage' = "activities" /\ verdict' = "PENDING"
        /\ activities' = << >> /\ transfers' = << >>
        /\ position' = 1 /\ TextPasses(data) /\ Opened(data.root)
    BY <1>1, <1>2, <1>5 DEF DInv, Judged, Reading
  <2>2. position' \in 1..(Len(data.root.activities) + 1)  BY <2>1 DEF Opened
  <2>3. ActivitiesRead(position - 1)'
    <3>1. /\ 1..(position - 1)' = {}
          /\ activities' = [i \in {} |-> ActivityFrom(data.root.activities[i])']
      BY <2>1
    <3> QED  BY <2>1, <3>1 DEF ActivitiesRead
  <2>4. Reading'  BY <1>1, <2>1, <2>2, <2>3 DEF Reading, TextPasses, Opened
  <2> QED  BY <1>1, <2>1, <2>4, GoesOn
<1> QED  BY <1>4, <1>5

(* One more element of a list that was read from the start.                *)
LEMMA OneMore ==
  ASSUME NEW n \in Nat, NEW g, NEW x
  PROVE  Append([i \in 1..n |-> g[i]], x) = [i \in 1..(n + 1) |-> IF i = n + 1 THEN x ELSE g[i]]
<1> DEFINE s == [i \in 1..n |-> g[i]]
<1>1. s \in Seq({g[i] : i \in 1..n}) /\ Len(s) = n  OBVIOUS
<1>2. Append(s, x) = [i \in 1..(Len(s) + 1) |-> IF i = Len(s) + 1 THEN x ELSE s[i]]
  BY <1>1
<1> QED  BY <1>1, <1>2

LEMMA DecodeActivityKeeps == DocumentsAreValues /\ DInv /\ DecodeActivity => DInv'
<1> SUFFICES ASSUME DocumentsAreValues, DInv, DecodeActivity PROVE DInv'  OBVIOUS
<1> DEFINE v == data.root.activities[position]
           f == ActivityFault(v)
           n == Len(data.root.activities)
<1>1. /\ stage = "activities" /\ position <= n /\ IsData(data) /\ UNCHANGED <<data, pass, first>>
      /\ \/ f # {} /\ Refuse(f)
         \/ /\ f = {} /\ position' = position + 1
            /\ activities' = Append(activities, ActivityFrom(v))
            /\ UNCHANGED <<stage, transfers, built, verdict>>
  BY DEF DecodeActivity, Root, DInv
<1>2. /\ Opened(data.root) /\ n \in Nat /\ position \in 1..n /\ ActivitiesRead(position - 1)
      /\ transfers = << >> /\ TextPasses(data)
  BY <1>1 DEF DInv, Reading, Opened
<1>3. f = {} <=> v \in ActivityDocuments
  <2>1. IsActivityValue(v)
    BY <1>1, <1>2, ElementValues DEF IsData
  <2> HIDE DEF v
  <2> QED  BY <2>1, ActivityPasses
<1>4. Refusing(f)  BY <1>1, ChecksRefuse
<1>5. CASE f # {}
  <2>1. ~Accepts(data)  BY <1>2, <1>3, <1>5, ProperPasses DEF Accepts
  <2> HIDE DEF f
  <2> QED  BY <1>1, <1>4, <1>5, <2>1, RefuseKeeps
<1>6. CASE f = {}
  <2>1. /\ activities' = Append(activities, ActivityFrom(v)) /\ position' = position + 1
        /\ stage' = "activities" /\ transfers' = << >> /\ v \in ActivityDocuments
        /\ verdict' = "PENDING"
    BY <1>1, <1>2, <1>3, <1>6 DEF DInv, Judged
  <2>2. ActivitiesRead(position - 1)'
    <3> DEFINE m == position - 1
               g == [i \in 1..position |-> ActivityFrom(data.root.activities[i])]
    <3>1. m \in Nat /\ position = m + 1 /\ position' - 1 = position /\ 1..m \subseteq 1..position
      BY <1>2, <2>1
    <3>2. activities = [i \in 1..m |-> g[i]]
      BY <1>2, <3>1 DEF ActivitiesRead
    <3>3. g[position] = ActivityFrom(v)  BY <3>1
    <3> HIDE DEF g, v, m
    <3>4. activities' = [i \in 1..position |-> IF i = position THEN g[position] ELSE g[i]]
      BY <2>1, <3>1, <3>2, <3>3, OneMore
    <3>5. activities' = [i \in 1..position |-> g[i]]  BY <3>4
    <3>6. activities' = [i \in 1..position |-> ActivityFrom(data.root.activities[i])]
      BY <3>5 DEF g
    <3>7. \A i \in 1..position : data.root.activities[i] \in ActivityDocuments
      <4> SUFFICES ASSUME NEW i \in 1..position
                   PROVE  data.root.activities[i] \in ActivityDocuments
        OBVIOUS
      <4>1. i \in 1..m \/ i = position  BY <3>1
      <4> QED  BY <1>2, <2>1, <4>1 DEF ActivitiesRead, m, v
    <3> QED  BY <1>1, <3>1, <3>6, <3>7 DEF ActivitiesRead
  <2>3. position' \in 1..(n + 1)  BY <1>2, <2>1
  <2>4. Reading'  BY <1>1, <1>2, <2>1, <2>2, <2>3 DEF Reading, TextPasses, Opened
  <2> HIDE DEF f, v
  <2> QED  BY <1>1, <2>1, <2>4, GoesOn
<1> QED  BY <1>5, <1>6

LEMMA OpenTransfersKeeps == DocumentsAreValues /\ DInv /\ OpenTransfers => DInv'
<1> SUFFICES ASSUME DocumentsAreValues, DInv, OpenTransfers PROVE DInv'  OBVIOUS
<1> DEFINE f == RequireList(data.root.transfers, 0, MaxTransfers)
           n == Len(data.root.activities)
<1>1. /\ stage = "activities" /\ position > n /\ IsData(data) /\ UNCHANGED <<data, pass, first>>
      /\ \/ f # {} /\ Refuse(f)
         \/ /\ f = {} /\ stage' = "transfers" /\ position' = 1
            /\ UNCHANGED <<activities, transfers, built, verdict>>
  BY DEF OpenTransfers, Root, Go, DInv, decoded
<1>2. /\ Opened(data.root) /\ n \in Nat /\ position - 1 = n /\ ActivitiesRead(n)
      /\ transfers = << >> /\ TextPasses(data)
  <2>1. /\ Opened(data.root) /\ position \in 1..(n + 1) /\ ActivitiesRead(position - 1)
        /\ transfers = << >> /\ TextPasses(data)
    BY <1>1 DEF DInv, Reading
  <2>2. n \in Nat  BY <2>1 DEF Opened
  <2>3. position - 1 = n  BY <1>1, <2>1, <2>2
  <2> QED  BY <2>1, <2>2, <2>3
<1>3. f = {} <=> TransfersOpened(data.root)  BY TransfersChecked
<1>4. Refusing(f)  BY <1>1, ChecksRefuse
<1> HIDE DEF f
<1>5. CASE f # {}
  BY <1>1, <1>3, <1>4, <1>5, RefuseKeeps, ProperPasses DEF Accepts
<1>6. CASE f = {}
  <2>1. /\ stage' = "transfers" /\ verdict' = "PENDING" /\ activities' = activities
        /\ transfers' = << >> /\ position' = 1 /\ TransfersOpened(data.root)
    BY <1>1, <1>2, <1>3, <1>6 DEF DInv, Judged
  <2>2. position' \in 1..(Len(data.root.transfers) + 1)  BY <2>1 DEF TransfersOpened
  <2>3. TransfersRead(position - 1)'
    <3>1. /\ 1..(position - 1)' = {}
          /\ transfers' = [i \in {} |-> TransferFrom(data.root.transfers[i])']
      BY <2>1
    <3> QED  BY <2>1, <3>1 DEF TransfersRead
  <2>4. ActivitiesRead(n)'  BY <1>1, <1>2, <2>1 DEF ActivitiesRead
  <2>5. Reading'
    BY <1>1, <1>2, <2>1, <2>2, <2>3, <2>4 DEF Reading, TextPasses, Opened, TransfersOpened
  <2> QED  BY <1>1, <2>1, <2>5, GoesOn
<1> QED  BY <1>5, <1>6

LEMMA DecodeTransferKeeps == DocumentsAreValues /\ DInv /\ DecodeTransfer => DInv'
<1> SUFFICES ASSUME DocumentsAreValues, DInv, DecodeTransfer PROVE DInv'  OBVIOUS
<1> DEFINE v == data.root.transfers[position]
           f == TransferFault(v)
           n == Len(data.root.transfers)
<1>1. /\ stage = "transfers" /\ position <= n /\ IsData(data) /\ UNCHANGED <<data, pass, first>>
      /\ \/ f # {} /\ Refuse(f)
         \/ /\ f = {} /\ transfers' = Append(transfers, TransferFrom(v)) /\ position' = position + 1
            /\ UNCHANGED <<stage, activities, built, verdict>>
  BY DEF DecodeTransfer, Root, DInv
<1>2. /\ Opened(data.root) /\ n \in Nat /\ position \in 1..n /\ TransfersRead(position - 1)
      /\ TransfersOpened(data.root) /\ TextPasses(data)
      /\ ActivitiesRead(Len(data.root.activities))
  BY <1>1 DEF DInv, Reading, TransfersOpened
<1>3. f = {} <=> v \in TransferDocuments
  <2>1. IsTransferValue(v)
    BY <1>1, <1>2, ElementValues DEF IsData
  <2> HIDE DEF v
  <2> QED  BY <2>1, TransferPasses
<1>4. Refusing(f)  BY <1>1, ChecksRefuse
<1>5. CASE f # {}
  <2>1. ~Accepts(data)  BY <1>2, <1>3, <1>5, ProperPasses DEF Accepts
  <2> HIDE DEF f
  <2> QED  BY <1>1, <1>4, <1>5, <2>1, RefuseKeeps
<1>6. CASE f = {}
  <2>1. /\ transfers' = Append(transfers, TransferFrom(v)) /\ position' = position + 1
        /\ stage' = "transfers" /\ activities' = activities /\ v \in TransferDocuments
        /\ verdict' = "PENDING"
    BY <1>1, <1>2, <1>3, <1>6 DEF DInv, Judged
  <2>2. TransfersRead(position - 1)'
    <3> DEFINE m == position - 1
               g == [i \in 1..position |-> TransferFrom(data.root.transfers[i])]
    <3>1. m \in Nat /\ position = m + 1 /\ position' - 1 = position /\ 1..m \subseteq 1..position
      BY <1>2, <2>1
    <3>2. transfers = [i \in 1..m |-> g[i]]
      BY <1>2, <3>1 DEF TransfersRead
    <3>3. g[position] = TransferFrom(v)  BY <3>1
    <3> HIDE DEF g, v, m
    <3>4. transfers' = [i \in 1..position |-> IF i = position THEN g[position] ELSE g[i]]
      BY <2>1, <3>1, <3>2, <3>3, OneMore
    <3>5. transfers' = [i \in 1..position |-> g[i]]  BY <3>4
    <3>6. transfers' = [i \in 1..position |-> TransferFrom(data.root.transfers[i])]
      BY <3>5 DEF g
    <3>7. \A i \in 1..position : data.root.transfers[i] \in TransferDocuments
      <4> SUFFICES ASSUME NEW i \in 1..position
                   PROVE  data.root.transfers[i] \in TransferDocuments
        OBVIOUS
      <4>1. i \in 1..m \/ i = position  BY <3>1
      <4> QED  BY <1>2, <2>1, <4>1 DEF TransfersRead, m, v
    <3> QED  BY <1>1, <3>1, <3>6, <3>7 DEF TransfersRead
  <2>3. position' \in 1..(n + 1)  BY <1>2, <2>1
  <2>4. ActivitiesRead(Len(data.root.activities))'  BY <1>1, <1>2, <2>1 DEF ActivitiesRead
  <2>5. Reading'
    BY <1>1, <1>2, <2>1, <2>2, <2>3, <2>4 DEF Reading, TextPasses, Opened, TransfersOpened
  <2> HIDE DEF f, v
  <2> QED  BY <1>1, <2>1, <2>5, GoesOn
<1> QED  BY <1>5, <1>6

LEMMA BuildItineraryKeeps == DocumentsAreValues /\ DInv /\ BuildItinerary => DInv'
<1> SUFFICES ASSUME DocumentsAreValues, DInv, BuildItinerary PROVE DInv'  OBVIOUS
<1> DEFINE f == HeaderFault
           n == Len(data.root.transfers)
<1>1. /\ stage = "transfers" /\ position > n /\ IsData(data) /\ UNCHANGED <<data, pass, first>>
      /\ \/ f # {} /\ Refuse(f)
         \/ /\ f = {} /\ stage' = "validate"
            /\ UNCHANGED <<position, activities, transfers, verdict>>
            /\ built' = [schema     |-> data.root.schema_version,
                         id         |-> data.root.itinerary_id,
                         anchor     |-> data.root.anchor_time_utc,
                         horizon    |-> data.root.horizon_seconds,
                         activities |-> StableSort(activities, ActivityKey),
                         transfers  |-> StableSort(transfers, TransferKey)]
  BY DEF BuildItinerary, Root, DInv
<1>2. /\ Opened(data.root) /\ TransfersOpened(data.root) /\ TextPasses(data)
      /\ ActivitiesRead(Len(data.root.activities)) /\ TransfersRead(n)
  <2>1. /\ Opened(data.root) /\ TransfersOpened(data.root) /\ TextPasses(data)
        /\ ActivitiesRead(Len(data.root.activities))
        /\ position \in 1..(n + 1) /\ TransfersRead(position - 1)
    BY <1>1 DEF DInv, Reading
  <2>2. n \in Nat  BY <2>1 DEF TransfersOpened
  <2>3. position - 1 = n  BY <1>1, <2>1, <2>2
  <2> QED  BY <2>1, <2>3
<1>3. f = {} <=> Headed(data.root)  BY HeaderChecked
<1>4. Refusing(f)  BY <1>1, ChecksRefuse
<1>5. CASE f # {}
  <2> HIDE DEF f
  <2> QED  BY <1>1, <1>3, <1>4, <1>5, RefuseKeeps, ProperPasses DEF Accepts
<1>6. CASE f = {}
  <2>1. stage' = "validate" /\ verdict' = "PENDING"
    BY <1>1, <1>6 DEF DInv, Judged
  <2>2. Proper(data.root)
    BY <1>1, <1>2, <1>3, <1>6, PassesIsProper DEF IsData, ActivitiesRead, TransfersRead
  <2>3. built' = Decoded(data.root)
    <3>1. activities = ActivitiesIn(data.root) /\ transfers = TransfersIn(data.root)
      BY <1>2 DEF ActivitiesRead, TransfersRead, ActivitiesIn, TransfersIn
    <3> QED  BY <1>1, <1>6, <3>1 DEF Decoded
  <2>4. built' = Decoded(data.root)' /\ Proper(data.root)'
    BY <1>1, <2>2, <2>3 DEF Decoded, ActivitiesIn, TransfersIn, Proper
  <2>5. Reading'
    BY <1>1, <1>2, <2>1, <2>4 DEF Reading, TextPasses, Opened
  <2> HIDE DEF f
  <2> QED  BY <1>1, <2>1, <2>5, GoesOn
<1> QED  BY <1>5, <1>6

LEMMA ValidateKeeps == DInv /\ Validate => DInv'
<1> SUFFICES ASSUME DInv, Validate PROVE DInv'  OBVIOUS
<1>1. /\ stage = "validate" /\ UNCHANGED <<data, pass, first>>
      /\ \/ Objections(built) # {} /\ Refuse(Objections(built))
         \/ /\ Objections(built) = {} /\ verdict' = "ACCEPTED" /\ stage' = "done"
            /\ UNCHANGED built
  BY DEF Validate, decoded
<1>2. /\ Proper(data.root) /\ TextPasses(data) /\ built = Decoded(data.root)
  BY <1>1 DEF DInv, Reading
<1>3. Objections(built) = {} <=> Accepts(data)
  BY <1>2 DEF Accepts, Valid
<1>4. Refusing(Objections(built))
  BY ObjectionsRefuse
<1>5. CASE Objections(built) # {}
  BY <1>1, <1>3, <1>4, <1>5, RefuseKeeps
<1>6. CASE Objections(built) = {}
  <2>1. /\ stage' = "done" /\ verdict' = "ACCEPTED" /\ built' = Decoded(data.root) /\ Accepts(data)
    BY <1>1, <1>2, <1>3, <1>6
  <2>2. Accepts(data)' /\ Decoded(data.root)' = Decoded(data.root)
    BY <1>1, <2>1 DEF Accepts, TextPasses, Proper, Valid, Decoded, ActivitiesIn, TransfersIn
  <2>3. Reading' /\ Judged'  BY <2>1, <2>2 DEF Reading, Judged
  <2>4. Remembered'  BY <1>1, <2>1, <2>2 DEF DInv, Remembered
  <2> QED  BY <1>1, <2>1, <2>3, <2>4 DEF DInv
<1> QED  BY <1>1, <1>5, <1>6

LEMMA RearrangedSelf == ASSUME NEW S, NEW s \in Seq(S) PROVE Rearranges(s, s)
<1> DEFINE n == Len(s)
           p == [i \in 1..n |-> i]
<1>1. n \in Nat /\ s = [i \in 1..n |-> s[i]]  OBVIOUS
<1>2. Permutes(p, n)  BY <1>1, Permutation
<1>3. s = [i \in 1..n |-> s[p[i]]]  BY <1>1
<1> HIDE DEF p, n
<1> QED  BY <1>1, <1>2, <1>3 DEF Rearranges

(* An array in another order.                                              *)
LEMMA RearrangedArray ==
  ASSUME NEW s, s # WrongType, IsArray(s), NEW t \in Rearranged(s)
  PROVE  /\ Rearranges(s, t) /\ IsArray(t)
         /\ \A i \in DOMAIN t : \E j \in DOMAIN s : t[i] = s[j]
<1> DEFINE n == Len(s)
<1>1. n \in Nat /\ s = [i \in 1..n |-> s[i]] /\ DOMAIN s = 1..n  BY DEF IsArray
<1> HIDE DEF n
<1>2. PICK p \in Bijection(1..n, 1..n) : t = [i \in 1..n |-> s[p[i]]]
  BY <1>1 DEF Rearranged
<1>3. Permutes(p, n)
  BY <1>2 DEF Permutes, Bijection, Injection, Surjection, IsInjective
<1>4. Rearranges(s, t)  BY <1>1, <1>2, <1>3 DEF Rearranges
<1>5. s \in Seq({s[i] : i \in 1..n})
  <2>1. s \in [1..n -> {s[i] : i \in 1..n}]  BY <1>1
  <2> QED  BY <1>1, <2>1
<1>6. t \in Seq({s[i] : i \in 1..n}) /\ Range(t) = Range(s)
  BY <1>4, <1>5, RearrangedElements
<1>7. IsArray(t)  BY <1>6 DEF IsArray
<1> QED  BY <1>4, <1>6, <1>7 DEF Range

LEMMA DocumentIsValue ==
  ASSUME NEW root \in ItineraryDocuments PROVE IsRootValue(root)
<1>1. /\ DOMAIN root = RootFields /\ root = [f \in DOMAIN root |-> root[f]]
      /\ root.activities \in Seq(ActivityDocuments)
      /\ root.transfers \in Seq(TransferDocuments)
      /\ root.schema_version \in Int /\ root.itinerary_id \in Identifier
      /\ root.anchor_time_utc \in BOOLEAN /\ root.horizon_seconds \in Int
  BY DEF ItineraryDocuments, RootFields
<1>2. ASSUME NEW v \in ActivityDocuments PROVE IsActivityValue(v)
  <2>1. v.duration \in DurationDocuments  BY DEF ActivityDocuments
  <2>2. IsDurationValue(v.duration)
    <3> DEFINE d == v.duration
    <3>1. d = [f \in DOMAIN d |-> d[f]] /\ d.minimum_seconds \in Int /\ d.maximum_seconds \in Int
      BY <2>1 DEF DurationDocuments
    <3> HIDE DEF d
    <3>2. IsDurationValue(d)
      BY <3>1 DEF IsDurationValue, IsObject, Holds, DurationFields
    <3> QED  BY <3>2 DEF d
  <2>3. /\ v = [f \in DOMAIN v |-> v[f]] /\ v.id \in Identifier
        /\ v.release_offset_seconds \in Int /\ v.hard_deadline_offset_seconds \in Int
    BY DEF ActivityDocuments
  <2> QED  BY <2>2, <2>3 DEF IsActivityValue, IsObject, Holds
<1>3. ASSUME NEW v \in TransferDocuments PROVE IsTransferValue(v)
  <2>1. /\ v = [f \in DOMAIN v |-> v[f]] /\ v.from_activity_id \in Identifier
        /\ v.to_activity_id \in Identifier /\ v.minimum_seconds \in Int
    BY DEF TransferDocuments
  <2> QED  BY <2>1 DEF IsTransferValue, IsObject, Holds
<1>4. /\ IsArray(root.activities) /\ IsArray(root.transfers)
      /\ \A i \in DOMAIN root.activities : IsActivityValue(root.activities[i])
      /\ \A i \in DOMAIN root.transfers : IsTransferValue(root.transfers[i])
  <2>1. ASSUME NEW D, NEW s \in Seq(D) PROVE IsArray(s) /\ \A i \in DOMAIN s : s[i] \in D
    BY DEF IsArray
  <2>2. /\ IsArray(root.activities)
        /\ \A i \in DOMAIN root.activities : root.activities[i] \in ActivityDocuments
    BY <1>1, <2>1
  <2>3. /\ IsArray(root.transfers)
        /\ \A i \in DOMAIN root.transfers : root.transfers[i] \in TransferDocuments
    BY <1>1, <2>1
  <2> QED  BY <1>2, <1>3, <2>2, <2>3
<1>5. /\ Holds(root, {"schema_version", "horizon_seconds"}, Int)
      /\ Holds(root, {"itinerary_id"}, Identifier)
      /\ Holds(root, {"anchor_time_utc"}, BOOLEAN)
  BY <1>1 DEF Holds
<1> QED  BY <1>1, <1>4, <1>5 DEF IsRootValue, IsObject

(* What has the content of a proper document is proper.                    *)
LEMMA ProperContent ==
  ASSUME NEW r, Proper(r), NEW q, SameContent(r, q),
         DOMAIN q = DOMAIN r, q = [f \in DOMAIN q |-> q[f]]
  PROVE  Proper(q)
<1>1. /\ r.activities \in Seq(ActivityDocuments)
      /\ r.transfers \in Seq(TransferDocuments)
      /\ r.schema_version \in Int /\ r.itinerary_id \in Identifier
      /\ r.anchor_time_utc \in BOOLEAN /\ r.horizon_seconds \in Int
      /\ DOMAIN r = RootFields
  BY DEF Proper, ItineraryDocuments, RootFields
<1>2. /\ q.activities \in Seq(ActivityDocuments) /\ Len(q.activities) = Len(r.activities)
      /\ q.transfers \in Seq(TransferDocuments) /\ Len(q.transfers) = Len(r.transfers)
  BY <1>1, RearrangedElements DEF SameContent
<1>3. q \in ItineraryDocuments
  BY <1>1, <1>2 DEF ItineraryDocuments, RootFields, SameContent
<1> QED  BY <1>2, <1>3 DEF Proper

(* A document in another order is as proper as before, and of one content. *)
LEMMA Reordered ==
  ASSUME DocumentsAreValues, NEW r, IsRootValue(r), NEW q \in Reorderings(r)
  PROVE  /\ IsRootValue(q)
         /\ Proper(q) => Proper(r)
         /\ Proper(r) => Proper(q) /\ SameContent(r, q)
<1>1. CASE q = r
  <2>1. Proper(r) => SameContent(r, r)
    BY RearrangedSelf DEF Proper, SameContent, ItineraryDocuments
  <2> QED  BY <1>1, <2>1
<1>2. CASE q # r
  <2>1. r # WrongType /\ \E f \in {"activities", "transfers"} \cap DOMAIN r :
                            \E s \in Rearranged(r[f]) : q = [r EXCEPT ![f] = s]
    BY <1>2 DEF Reorderings, Arrays
  <2>11. PICK f \in {"activities", "transfers"} \cap DOMAIN r :
            \E s \in Rearranged(r[f]) : q = [r EXCEPT ![f] = s]
    BY <2>1
  <2>2. PICK s \in Rearranged(r[f]) : q = [r EXCEPT ![f] = s]
    BY <2>11
  <2>3. r = [g \in DOMAIN r |-> r[g]]  BY <2>1 DEF IsRootValue, IsObject
  <2>4. r[f] # WrongType
    <3>1. SUFFICES ASSUME r[f] = WrongType PROVE FALSE  OBVIOUS
    <3>2. s = r[f]  BY <2>2, <3>1 DEF Rearranged
    <3>3. q = [g \in DOMAIN r |-> r[g]]  BY <2>2, <3>2
    <3> QED  BY <1>2, <2>3, <3>3
  <2>5. IsArray(r[f])
    BY <2>1, <2>4 DEF IsRootValue
  <2>6. /\ Rearranges(r[f], s) /\ IsArray(s)
        /\ \A i \in DOMAIN s : \E j \in DOMAIN r[f] : s[i] = r[f][j]
    BY <2>2, <2>4, <2>5, RearrangedArray
  <2>7. /\ DOMAIN q = DOMAIN r /\ q = [g \in DOMAIN q |-> q[g]]
        /\ q[f] = s /\ \A g \in DOMAIN r : g # f => q[g] = r[g]
    BY <2>2
  <2>8. IsRootValue(q)
    <3>1. /\ Holds(q, {"schema_version", "horizon_seconds"}, Int)
          /\ Holds(q, {"itinerary_id"}, Identifier)
          /\ Holds(q, {"anchor_time_utc"}, BOOLEAN)
      BY <2>1, <2>7 DEF IsRootValue, Holds
    <3>2. ASSUME NEW g \in {"activities", "transfers"} \cap DOMAIN q, q[g] # WrongType
          PROVE  /\ IsArray(q[g])
                 /\ \A i \in DOMAIN q[g] :
                       IF g = "activities" THEN IsActivityValue(q[g][i])
                                           ELSE IsTransferValue(q[g][i])
      <4>1. CASE g = f
        <5>1. \A j \in DOMAIN r[f] :
                 IF g = "activities" THEN IsActivityValue(r[f][j])
                                     ELSE IsTransferValue(r[f][j])
          BY <2>1, <2>4, <4>1 DEF IsRootValue
        <5> QED  BY <2>6, <2>7, <4>1, <5>1
      <4>2. CASE g # f
        BY <2>1, <2>7, <3>2, <4>2 DEF IsRootValue
      <4> QED  BY <4>1, <4>2
    <3> QED  BY <2>7, <3>1, <3>2 DEF IsRootValue, IsObject
  <2>9. ASSUME Proper(r) PROVE SameContent(r, q)
    <3>1. /\ r.activities \in Seq(ActivityDocuments)
          /\ r.transfers \in Seq(TransferDocuments) /\ DOMAIN r = RootFields
      BY <2>9 DEF Proper, ItineraryDocuments, RootFields
    <3>2. /\ Rearranges(r.activities, r.activities) /\ Rearranges(r.transfers, r.transfers)
      BY <3>1, RearrangedSelf
    <3>3. /\ Rearranges(r.activities, q.activities) /\ Rearranges(r.transfers, q.transfers)
      BY <2>6, <2>7, <3>1, <3>2 DEF RootFields
    <3> QED  BY <2>7, <3>1, <3>3 DEF SameContent, RootFields
  <2>10. ASSUME Proper(q) PROVE SameContent(q, r)
    <3>1. /\ q.activities \in Seq(ActivityDocuments)
          /\ q.transfers \in Seq(TransferDocuments) /\ DOMAIN q = RootFields
      BY <2>10 DEF Proper, ItineraryDocuments, RootFields
    <3>2. /\ Rearranges(q.activities, q.activities) /\ Rearranges(q.transfers, q.transfers)
          /\ Rearranges(s, r[f])
      BY <2>6, <3>1, RearrangedSelf, RearrangedBack
    <3>3. /\ Rearranges(q.activities, r.activities) /\ Rearranges(q.transfers, r.transfers)
      BY <2>7, <3>1, <3>2 DEF RootFields
    <3> QED  BY <2>7, <3>1, <3>3 DEF SameContent, RootFields
  <2> QED  BY <2>3, <2>7, <2>8, <2>9, <2>10, ProperContent
<1> QED  BY <1>1, <1>2

(* A document of the same content gets the same verdict.                   *)
LEMMA AcceptedAlike ==
  ASSUME NEW d, NEW e, TextPasses(d) <=> TextPasses(e),
         Proper(e.root) => Proper(d.root),
         Proper(d.root) => Proper(e.root) /\ SameContent(d.root, e.root)
  PROVE  /\ Accepts(d) <=> Accepts(e)
         /\ Accepts(d) => Decoded(e.root) = Decoded(d.root)
<1> DEFINE r == d.root
           q == e.root
<1>1. ASSUME Accepts(d) PROVE Decoded(q) = Decoded(r) /\ Accepts(e)
  <2>1. Proper(r) /\ Valid(r) /\ Proper(q) /\ SameContent(r, q)  BY <1>1 DEF Accepts
  <2>2. Decoded(q) = Decoded(r)  BY <2>1, DecodedAlike DEF Proper
  <2>3. Valid(q)  BY <2>1, <2>2 DEF Valid
  <2> QED  BY <1>1, <2>1, <2>2, <2>3 DEF Accepts
<1>2. ASSUME Accepts(e) PROVE Accepts(d)
  <2>1. Proper(q) /\ Valid(q) /\ Proper(r) /\ SameContent(r, q)  BY <1>2 DEF Accepts
  <2>2. SameContent(q, r)  BY <2>1, ContentBack
  <2>3. Decoded(r) = Decoded(q)  BY <2>1, <2>2, DecodedAlike DEF Proper
  <2>4. Valid(r)  BY <2>1, <2>3 DEF Valid
  <2> QED  BY <1>2, <2>1, <2>4 DEF Accepts
<1> QED  BY <1>1, <1>2

LEMMA DecodeAgainKeeps == DocumentsAreValues /\ DInv /\ DecodeAgain => DInv'
<1> SUFFICES ASSUME DocumentsAreValues, DInv, DecodeAgain PROVE DInv'  OBVIOUS
<1> DEFINE r == data.root
           q == data'.root
<1>1. /\ stage = "done" /\ pass' = 2 /\ stage' = "text" /\ position' = 1
      /\ first' = [verdict |-> verdict, itinerary |-> built]
      /\ activities' = << >> /\ transfers' = << >> /\ verdict' = "PENDING"
      /\ \/ \E root \in Reorderings(r) : data' = [data EXCEPT !.root = root]
         \/ /\ verdict = "ACCEPTED"
            /\ data' = [data EXCEPT !.root = ItineraryDocument(built)]
  BY DEF DecodeAgain, Root
<1>2. /\ IsData(data)
      /\ verdict = "ACCEPTED" <=> Accepts(data)
      /\ verdict = "ACCEPTED" => built = Decoded(r)
  BY <1>1 DEF DInv, Judged
<1>3. /\ q \in Reorderings(r) \/ (verdict = "ACCEPTED" /\ q = ItineraryDocument(built))
      /\ data' = [data EXCEPT !.root = q]
  BY <1>1, <1>2 DEF IsData
<1>4. /\ IsRootValue(q)
      /\ Proper(q) => Proper(r)
      /\ Proper(r) => Proper(q) /\ SameContent(r, q)
  <2>1. CASE q \in Reorderings(r)
    BY <1>2, <2>1, Reordered DEF IsData
  <2>2. CASE verdict = "ACCEPTED" /\ q = ItineraryDocument(built)
    <3>1. Proper(r) /\ built = Decoded(r)  BY <1>2, <2>2 DEF Accepts
    <3>2. q \in ItineraryDocuments /\ SameContent(r, q)
      BY <2>2, <3>1, CanonicalContent DEF Proper
    <3>3. /\ DOMAIN r = RootFields /\ DOMAIN q = RootFields
          /\ q = [f \in DOMAIN q |-> q[f]]
      BY <3>1, <3>2 DEF Proper, ItineraryDocuments, RootFields
    <3>4. Proper(q)  BY <3>1, <3>2, <3>3, ProperContent
    <3> QED  BY <3>1, <3>2, <3>4, DocumentIsValue
  <2> QED  BY <1>3, <2>1, <2>2
<1>5. IsData(data') /\ TextPasses(data') = TextPasses(data)
  <2>1. /\ data' \in [type: {"bytes", "str", "other"}, size: Nat, unicode: BOOLEAN,
                      json: JsonVerdicts, root: {q}]
        /\ data'.type = data.type /\ data'.size = data.size
        /\ data'.unicode = data.unicode /\ data'.json = data.json
    BY <1>2, <1>3 DEF IsData
  <2> QED  BY <1>4, <2>1 DEF IsData, TextPasses
<1>6. /\ Accepts(data) <=> Accepts(data')
      /\ Accepts(data) => Decoded(q) = Decoded(r)
  BY <1>4, <1>5, AcceptedAlike
<1>7. Reading' /\ Judged'  BY <1>1 DEF Reading, Judged
<1>8. Remembered'
  <2>1. /\ first'.verdict = verdict /\ first'.itinerary = built  BY <1>1
  <2>2. Accepts(data)' <=> Accepts(data')
    BY DEF Accepts, TextPasses, Proper, Valid, Decoded, ActivitiesIn, TransfersIn
  <2>3. Decoded(data.root)' = Decoded(q)
    BY DEF Decoded, ActivitiesIn, TransfersIn
  <2> HIDE DEF r, q
  <2> QED  BY <1>2, <1>6, <2>1, <2>2, <2>3 DEF Remembered, q
<1>9. IsData(data)'  BY <1>5
<1> QED  BY <1>1, <1>7, <1>8, <1>9 DEF DInv

LEMMA DStutterKeeps == DInv /\ UNCHANGED decodeVars => DInv'
<1> SUFFICES ASSUME DInv, UNCHANGED decodeVars PROVE DInv'  OBVIOUS
<1>1. UNCHANGED <<data, stage, position, activities, transfers, built, verdict, pass, first>>
  BY DEF decodeVars, decoded
<1>2. Reading'
  BY <1>1 DEF DInv, Reading, TextPasses, Opened, TransfersOpened, ActivitiesRead, TransfersRead,
              Proper, Decoded, ActivitiesIn, TransfersIn
<1>3. Accepts(data)' = Accepts(data) /\ Decoded(data.root)' = Decoded(data.root)
  BY <1>1 DEF Accepts, TextPasses, Proper, Valid, Decoded, ActivitiesIn, TransfersIn
<1>4. Judged' /\ Remembered'  BY <1>1, <1>3 DEF DInv, Judged, Remembered
<1> QED  BY <1>1, <1>2, <1>4 DEF DInv

LEMMA DInductive == DecodeSpec => []DInv
<1>1. DInv /\ [DecodeNext]_decodeVars => DInv'
  BY ReadTextKeeps, OpenRootKeeps, DecodeActivityKeeps, OpenTransfersKeeps, DecodeTransferKeeps,
     BuildItineraryKeeps, ValidateKeeps, DecodeAgainKeeps, DStutterKeeps, DataAssumption
     DEF DecodeNext
<1>2. DecodeInit => DInv  BY DataAssumption, DInitially
<1> QED  BY <1>1, <1>2, PTL DEF DecodeSpec

-----------------------------------------------------------------------------
(* The decoder calls the validator with numbers wherever there should be   *)
(* numbers and with as many activities and transfers as it permits.        *)
THEOREM ValidatorIsCalledRight == DecodeSpec => []TypeOK
<1>1. DInv => TypeOK
  <2> SUFFICES ASSUME DInv, stage = "validate"
               PROVE  /\ built \in Itinerary
                      /\ built.schema \in Int /\ built.horizon \in Int
                      /\ Len(built.activities) \in 1..MaxActivities
                      /\ Len(built.transfers) <= MaxTransfers
                      /\ \A x \in Range(built.activities) :
                            x.id \in Identifier /\ {x.release, x.min, x.max, x.deadline} \subseteq Int
                      /\ \A t \in Range(built.transfers) :
                            {t.from, t.to} \subseteq Identifier /\ t.min \in Int
    BY DEF TypeOK, DInv, Judged, Range, Identifier
  <2> DEFINE r == data.root
  <2>1. Proper(r) /\ built = Decoded(r)  BY DEF DInv, Reading
  <2>2. r \in ItineraryDocuments /\ r.schema_version \in Int /\ r.horizon_seconds \in Int
    BY <2>1 DEF Proper, ItineraryDocuments
  <2>3. /\ built \in Itinerary
        /\ built.activities \in Seq(ActivityRecord) /\ built.transfers \in Seq(TransferRecord)
        /\ Len(built.activities) = Len(r.activities) /\ Len(built.transfers) = Len(r.transfers)
    BY <2>1, <2>2, DecodedIsItinerary, RecordsOfDocuments, RearrangedElements
  <2>4. /\ built.schema = r.schema_version /\ built.horizon = r.horizon_seconds
    BY <2>1 DEF Decoded
  <2>5. ASSUME NEW x \in Range(built.activities)
        PROVE  x.id \in Identifier /\ {x.release, x.min, x.max, x.deadline} \subseteq Int
    <3>1. x \in ActivityRecord  BY <2>3 DEF Range
    <3> QED  BY <3>1 DEF ActivityRecord
  <2>6. ASSUME NEW t \in Range(built.transfers)
        PROVE  {t.from, t.to} \subseteq Identifier /\ t.min \in Int
    <3>1. t \in TransferRecord  BY <2>3 DEF Range
    <3> QED  BY <3>1 DEF TransferRecord
  <2>7. built \in Itinerary
    BY <2>3 DEF Itinerary, Number, Identifier, Activity, Transfer
  <2>8. Len(built.transfers) <= MaxTransfers
    BY <2>1, <2>3, LimitsAssumption DEF Proper
  <2> QED  BY <2>1, <2>2, <2>3, <2>4, <2>5, <2>6, <2>7, <2>8 DEF Proper
<1> QED  BY <1>1, DInductive, PTL

(* Nothing in a document decode_itinerary_json accepts is ignored,         *)
(* supplied or changed: apart from the order of its arrays it is the       *)
(* canonical document of the itinerary it was decoded to.                  *)
THEOREM AcceptedIsCanonical == DecodeSpec => []AcceptedDocumentIsCanonical
<1>1. DInv => AcceptedDocumentIsCanonical
  <2> SUFFICES ASSUME DInv, verdict = "ACCEPTED" PROVE AcceptedDocumentIsCanonical
    BY DEF AcceptedDocumentIsCanonical
  <2> DEFINE r == data.root
             c == ItineraryDocument(built)
  <2>1. Proper(r) /\ built = Decoded(r)  BY DEF DInv, Judged, Accepts
  <2>2. r \in ItineraryDocuments /\ c \in ItineraryDocuments /\ SameContent(r, c)
    BY <2>1, CanonicalContent DEF Proper
  <2>3. /\ Range(r.activities) = Range(c.activities) /\ Len(r.activities) = Len(c.activities)
        /\ Range(r.transfers) = Range(c.transfers) /\ Len(r.transfers) = Len(c.transfers)
    <3>1. /\ r.activities \in Seq(ActivityDocuments)
          /\ r.transfers \in Seq(TransferDocuments)
      BY <2>2 DEF ItineraryDocuments
    <3> HIDE DEF c
    <3> QED  BY <2>2, <3>1, RearrangedElements DEF SameContent
  <2> HIDE DEF c
  <2>4. [r EXCEPT !.activities = c.activities, !.transfers = c.transfers] = c
    <3>1. /\ DOMAIN r = RootFields /\ DOMAIN c = RootFields
          /\ c = [f \in RootFields |-> c[f]]
      BY <2>2 DEF ItineraryDocuments, RootFields
    <3>2. \A f \in RootFields \ {"activities", "transfers"} : r[f] = c[f]
      BY <2>2 DEF SameContent, RootFields
    <3> DEFINE e == [r EXCEPT !.activities = c.activities, !.transfers = c.transfers]
    <3>3. e = [f \in RootFields |-> IF f = "transfers" THEN c.transfers
                                    ELSE IF f = "activities" THEN c.activities ELSE r[f]]
      BY <3>1 DEF RootFields
    <3>4. \A f \in RootFields : e[f] = c[f]  BY <3>2, <3>3
    <3> QED  BY <3>1, <3>3, <3>4
  <2> QED
    BY <2>3, <2>4 DEF AcceptedDocumentIsCanonical, Root, c, Range
<1> QED  BY <1>1, DInductive, PTL

(* However the content is written down, with its arrays in another order   *)
(* or by the canonical encoder, decode_itinerary_json accepts it again as  *)
(* the very same itinerary, and what it refused it refuses again.          *)
THEOREM RepresentationIsFree == DecodeSpec => []RepresentationDoesNotMatter
<1>1. DInv => RepresentationDoesNotMatter
  BY DEF DInv, Judged, Remembered, RepresentationDoesNotMatter
<1> QED  BY <1>1, DInductive, PTL
=============================================================================
