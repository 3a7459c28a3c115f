--------------------------- MODULE AnalysisProofs ---------------------------
(***************************************************************************)
(* Proofs about Analysis, for every set of inputs and every value of the   *)
(* limits: the types, that the two passes enclose every schedule, what     *)
(* "robust" means, that the best case meets every deadline, and that the   *)
(* witness chain explains the tightest one.                                *)
(***************************************************************************)
EXTENDS Analysis, FiniteSetTheorems, WellFoundedInduction, TLAPS

-----------------------------------------------------------------------------
(* What an itinerary without objections is like.                           *)

TimedActivity == [id: Nat, release: Nat, min: Nat, max: Nat, deadline: Nat]

WellFormed(it) ==
    /\ it \in Itinerary
    /\ it.activities \in Seq(Activity) /\ it.activities # << >>
    /\ it.transfers \in Seq(Transfer)
    /\ \A x \in Range(it.activities) : x \in TimedActivity /\ x.min <= x.max
    /\ \A x, y \in Range(it.activities) : x.id = y.id => x = y
    /\ \A t \in Range(it.transfers) :
          /\ t.from \in IdsOf(it) /\ t.to \in IdsOf(it) /\ t.min \in Nat
          /\ t.from # t.to
    /\ \A t, u \in Range(it.transfers) : t.from = u.from /\ t.to = u.to => t = u

(* A chain of checks objects to nothing exactly when each of them does.    *)
LEMMA NeitherFault == ASSUME NEW f, NEW g
                      PROVE  (f ?? g) = {} <=> f = {} /\ g = {}
  BY DEF ??

(* A check objects to nothing exactly when what it looks for is absent.    *)
LEMMA Blameless == ASSUME NEW code, NEW bad \in BOOLEAN
                   PROVE  Blame(bad, code) = {} <=> ~bad
  BY DEF Blame

(* A passed header has a horizon and two sequences of records.             *)
LEMMA HeaderAccepted ==
  ASSUME NEW it \in Itinerary, HeaderObjections(it) = {}
  PROVE  /\ it.horizon \in Nat
         /\ it.activities \in Seq(Activity \cup {Malformed}) /\ Len(it.activities) # 0
         /\ it.transfers \in Seq(Transfer \cup {Malformed})
<1>1. it # Malformed
  BY DEF HeaderObjections
<1>2. /\ Blame(\/ it.schema = Malformed \/ it.horizon = Malformed
               \/ it.activities = Malformed \/ it.transfers = Malformed,
               "INVALID_TYPE") = {}
      /\ Blame(\/ it.schema # 1
               \/ Outside(it.horizon, 1, MaxHorizon)
               \/ it.activities # Malformed /\ Len(it.activities) \notin 1..MaxActivities
               \/ it.transfers # Malformed /\ Len(it.transfers) > MaxTransfers,
               "OUT_OF_RANGE") = {}
  BY <1>1 DEF HeaderObjections
<1>3. /\ it.horizon # Malformed /\ it.activities # Malformed /\ it.transfers # Malformed
      /\ ~Outside(it.horizon, 1, MaxHorizon)
      /\ Len(it.activities) \in 1..MaxActivities
  BY <1>2 DEF Blame
<1> QED
  BY <1>3, MalformedAssumption, LimitsAssumption DEF Itinerary, Number, Outside

(* A passed activity stage leaves well-timed activities, each with an      *)
(* identifier of its own.                                                  *)
LEMMA ActivitiesAccepted ==
  ASSUME NEW it \in Itinerary, it.horizon \in Nat,
         it.activities \in Seq(Activity \cup {Malformed}),
         ActivityObjections(it) = {}
  PROVE  /\ \A x \in Range(it.activities) :
               x \in Activity /\ x \in TimedActivity /\ x.min <= x.max
         /\ \A x, y \in Range(it.activities) : x.id = y.id => x = y
<1> DEFINE records == Range(it.activities) \ {Malformed}
           typed   == {x \in records : \A f \in {"release", "min", "max", "deadline"} :
                                        x[f] # Malformed}
           SameId(x, y) == x # Malformed /\ y # Malformed /\ x.id = y.id
<1>1. /\ Range(it.activities) = typed
      /\ \A x \in records : x.id # Malformed
      /\ \A x \in records : /\ ~Outside(x.release, 0, it.horizon)
                            /\ ~Outside(x.min, 1, it.horizon)
                            /\ ~Outside(x.max, 1, it.horizon)
                            /\ ~Outside(x.deadline, 1, it.horizon)
      /\ \A x \in records : ~(/\ x.min # Malformed /\ x.max # Malformed
                              /\ x.min > x.max)
      /\ ~Twins(it.activities, SameId)
  BY DEF ActivityObjections, Blame
<1>2. ASSUME NEW x \in Range(it.activities)
      PROVE  x \in Activity /\ x \in TimedActivity /\ x.min <= x.max
  <2>1. /\ x # Malformed /\ x.release # Malformed /\ x.min # Malformed
        /\ x.max # Malformed /\ x.deadline # Malformed /\ x.id # Malformed
    BY <1>1, <1>2
  <2>2. x \in Activity
    BY <2>1, <1>2 DEF Range
  <2>3. ~Outside(x.release, 0, it.horizon) /\ ~Outside(x.min, 1, it.horizon)
        /\ ~Outside(x.max, 1, it.horizon) /\ ~Outside(x.deadline, 1, it.horizon)
        /\ ~(x.min > x.max)
    BY <1>1, <1>2, <2>1
  <2> QED
    BY <2>1, <2>2, <2>3, MalformedAssumption
       DEF Outside, Activity, Number, Identifier, TimedActivity
<1>3. ASSUME NEW x \in Range(it.activities), NEW y \in Range(it.activities), x.id = y.id
      PROVE  x = y
  <2>1. PICK i \in DOMAIN it.activities : it.activities[i] = x
    BY DEF Range
  <2>2. PICK l \in DOMAIN it.activities : it.activities[l] = y
    BY DEF Range
  <2>3. x # Malformed /\ y # Malformed
    BY <1>1
  <2>4. ~(i < l) /\ ~(l < i)
    BY <1>1, <1>3, <2>1, <2>2, <2>3 DEF Twins
  <2>5. i \in Int /\ l \in Int
    OBVIOUS
  <2> QED  BY <2>1, <2>2, <2>4, <2>5
<1> QED  BY <1>2, <1>3

(* A passed transfer stage leaves transfers between different activities,  *)
(* one for a pair.                                                         *)
LEMMA TransfersAccepted ==
  ASSUME NEW it \in Itinerary, it.horizon \in Nat,
         it.transfers \in Seq(Transfer \cup {Malformed}),
         TransferObjections(it) = {}
  PROVE  /\ \A t \in Range(it.transfers) :
               /\ t \in Transfer
               /\ t.from \in IdsOf(it) /\ t.to \in IdsOf(it) /\ t.min \in Nat
               /\ t.from # t.to
         /\ \A t, u \in Range(it.transfers) : t.from = u.from /\ t.to = u.to => t = u
<1> DEFINE records == Range(it.transfers) \ {Malformed}
           SamePair(t, u) == /\ t # Malformed /\ u # Malformed
                             /\ t.from = u.from /\ t.to = u.to
<1>1. /\ Malformed \notin Range(it.transfers)
      /\ \A t \in records : t.min # Malformed
      /\ \A t \in records : ~Outside(t.min, 0, it.horizon)
      /\ \A t \in records : t.from # t.to
      /\ \A t \in records : {t.from, t.to} \subseteq IdsOf(it)
      /\ ~Twins(it.transfers, SamePair)
  BY DEF TransferObjections, Blame
<1>2. ASSUME NEW t \in Range(it.transfers)
      PROVE  /\ t \in Transfer
             /\ t.from \in IdsOf(it) /\ t.to \in IdsOf(it) /\ t.min \in Nat
             /\ t.from # t.to
  <2>1. PICK i \in DOMAIN it.transfers : it.transfers[i] = t
    BY DEF Range
  <2>2. t \in Transfer
    <3>1. it.transfers[i] \in Transfer \cup {Malformed}  OBVIOUS
    <3>2. t # Malformed  BY <1>1
    <3> QED  BY <3>1, <3>2, <2>1
  <2>3. t.min # Malformed /\ ~Outside(t.min, 0, it.horizon)
    BY <1>1
  <2>4. t.min \in Nat
    BY <2>2, <2>3, MalformedAssumption DEF Transfer, Number, Outside
  <2>5. t.from # t.to /\ {t.from, t.to} \subseteq IdsOf(it)
    BY <1>1
  <2> QED  BY <2>2, <2>4, <2>5
<1>3. ASSUME NEW t \in Range(it.transfers), NEW u \in Range(it.transfers),
             t.from = u.from /\ t.to = u.to
      PROVE  t = u
  <2>1. PICK i \in DOMAIN it.transfers : it.transfers[i] = t
    BY DEF Range
  <2>2. PICK l \in DOMAIN it.transfers : it.transfers[l] = u
    BY DEF Range
  <2>3. ~(i < l) /\ ~(l < i)
    BY <1>1, <1>3, <2>1, <2>2 DEF Twins
  <2>4. i \in Int /\ l \in Int
    OBVIOUS
  <2> QED  BY <2>1, <2>2, <2>3, <2>4
<1> QED  BY <1>2, <1>3

(* An itinerary nobody objects to is well formed.                          *)
LEMMA NoObjections ==
  ASSUME NEW it \in Itinerary, Objections(it) = {}
  PROVE  WellFormed(it)
<1>1. HeaderObjections(it) = {} /\ ActivityObjections(it) = {} /\ TransferObjections(it) = {}
  BY NeitherFault DEF Objections
<1>2. /\ it.horizon \in Nat
      /\ it.activities \in Seq(Activity \cup {Malformed}) /\ Len(it.activities) # 0
      /\ it.transfers \in Seq(Transfer \cup {Malformed})
  BY <1>1, HeaderAccepted
<1>3. /\ \A x \in Range(it.activities) :
            x \in Activity /\ x \in TimedActivity /\ x.min <= x.max
      /\ \A x, y \in Range(it.activities) : x.id = y.id => x = y
  BY <1>1, <1>2, ActivitiesAccepted
<1>4. /\ \A t \in Range(it.transfers) :
            /\ t \in Transfer
            /\ t.from \in IdsOf(it) /\ t.to \in IdsOf(it) /\ t.min \in Nat
            /\ t.from # t.to
      /\ \A t, u \in Range(it.transfers) : t.from = u.from /\ t.to = u.to => t = u
  BY <1>1, <1>2, TransfersAccepted
<1>5. it.activities \in Seq(Activity) /\ it.transfers \in Seq(Transfer)
  BY <1>2, <1>3, <1>4 DEF Range
<1> QED  BY <1>2, <1>3, <1>4, <1>5 DEF WellFormed

(* The record of an activity is the one with its identifier.               *)
LEMMA TheActivity ==
  ASSUME NEW it, WellFormed(it), NEW a \in IdsOf(it)
  PROVE  /\ ActivityOf(it, a) \in TimedActivity
         /\ ActivityOf(it, a).min <= ActivityOf(it, a).max
         /\ a \in Nat
<1>1. PICK x \in Range(it.activities) : x.id = a
  BY DEF IdsOf
<1>2. /\ ActivityOf(it, a) \in Range(it.activities)
      /\ ActivityOf(it, a).id = a
  BY <1>1 DEF ActivityOf
<1> QED  BY <1>2 DEF WellFormed, TimedActivity

-----------------------------------------------------------------------------
(* The least member of a set of integers.                                  *)

(* A finite nonempty set of integers has a least element: among its        *)
(* initial parts one is minimal for inclusion.                             *)
LEMMA LeastIsLeast ==
  ASSUME NEW S \in SUBSET Int, S # {}, IsFiniteSet(S)
  PROVE  Least(S) \in S /\ \A y \in S : Least(S) <= y
<1> DEFINE upTo(n) == {y \in S : y <= n}
           starts  == {upTo(n) : n \in S}
<1>1. starts \subseteq FiniteSubsetsOf(S)
  <2> SUFFICES ASSUME NEW n \in S PROVE upTo(n) \in FiniteSubsetsOf(S)  OBVIOUS
  <2>1. IsFiniteSet(upTo(n))
    BY FS_Subset
  <2> QED  BY <2>1 DEF FiniteSubsetsOf
<1>2. PICK T \in starts : \A U \in starts : ~(<<U, T>> \in StrictSubsetOrdering(S))
  <2>1. starts # {}  OBVIOUS
  <2>2. IsWellFoundedOn(StrictSubsetOrdering(S), FiniteSubsetsOf(S))
    BY FS_StrictSubsetOrderingWellFounded
  <2> HIDE DEF starts
  <2> QED  BY <1>1, <2>1, <2>2, WFMin
<1>3. PICK x \in S : T = upTo(x)  OBVIOUS
<1>4. ASSUME NEW y \in S, y < x PROVE FALSE
  <2>1. x \in Int /\ y \in Int /\ \A z \in S : z \in Int  OBVIOUS
  <2>2. upTo(y) \subseteq upTo(x) /\ x \in upTo(x) /\ x \notin upTo(y)
    <3>1. \A z \in S : z <= y => z <= x  BY <1>4, <2>1
    <3>2. ~(x <= y) /\ x <= x  BY <1>4, <2>1
    <3>3. upTo(y) \subseteq upTo(x)  BY <3>1
    <3>4. x \in upTo(x)  BY <3>2
    <3>5. x \notin upTo(y)  BY <3>2
    <3> QED  BY <3>3, <3>4, <3>5
  <2>3. <<upTo(y), T>> \in StrictSubsetOrdering(S)
    BY <2>2, <1>3 DEF StrictSubsetOrdering
  <2> QED  BY <1>2, <2>3
<1>5. \A y \in S : x <= y  BY <1>4
<1> QED  BY <1>5 DEF Least

(* A well-formed itinerary has finitely many activities, at least one.     *)
LEMMA FewActivities ==
  ASSUME NEW it, WellFormed(it)
  PROVE  IsFiniteSet(IdsOf(it)) /\ IdsOf(it) # {} /\ IdsOf(it) \subseteq Nat
<1> DEFINE n == Len(it.activities)
           f == [i \in 1..n |-> it.activities[i].id]
<1>1. n \in Nat /\ n # 0 /\ DOMAIN it.activities = 1..n
  BY DEF WellFormed
<1>2. f \in Surjection(1..n, IdsOf(it))
  BY <1>1 DEF Surjection, IdsOf, Range
<1>3. IsFiniteSet(1..n)
  <2>1. 1 \in Int /\ n \in Int  BY <1>1
  <2> HIDE DEF n
  <2> QED  BY <2>1, FS_Interval
<1>4. IsFiniteSet(IdsOf(it))
  BY <1>2, <1>3, FS_Surjection
<1>5. it.activities[1].id \in IdsOf(it)
  BY <1>1 DEF IdsOf, Range
<1> QED  BY <1>4, <1>5, TheActivity

-----------------------------------------------------------------------------
(* The types.                                                              *)

Typed ==
    /\ WellFormed(itinerary)
    /\ order \in Seq(Ids) /\ IsTopological(order, Ids, EdgesOf(itinerary))
    /\ pc \in {"start", "relax", "walk", "done"}
    /\ scenario \in Scenarios
    /\ k \in 1..(Len(order) + 1)
    /\ start \in Nat
    /\ todo \subseteq Range(itinerary.transfers)
    /\ pc = "relax" => k <= Len(order) /\ todo \subseteq Incoming(order[k])
    /\ pc # "relax" => todo = {}
    /\ pc \in {"walk", "done"} => k = Len(order) + 1
    /\ DOMAIN candidates \subseteq Ids /\ candidates \in [DOMAIN candidates -> Nat]
    /\ DOMAIN timings = Scenarios
    /\ \A s \in Scenarios : timings[s] \in [DOMAIN timings[s] -> Timing]
    /\ DOMAIN timings[scenario] = {order[i] : i \in 1..(k - 1)}
    /\ scenario = "worst" => DOMAIN timings["best"] = Ids
    /\ scenario = "best" => timings["worst"] = << >>
    /\ cursor \in Ids \cup {Nobody}
    /\ chain \in Seq(Ids)
    /\ outcome \in {"PENDING", "REPORTED", "RUNTIME_ERROR"}
    /\ outcome = "REPORTED" => pc = "done" /\ scenario = "worst"
    /\ pc # "done" => outcome = "PENDING"

(* All the activities are in the order.                                    *)
LEMMA FullOrder ==
  ASSUME Typed
  PROVE  {order[i] : i \in 1..Len(order)} = Ids
  BY DEF Typed, IsTopological, Range

(* The predecessors of the activity in hand have their timings.            *)
LEMMA PredecessorsTimed ==
  ASSUME Typed, k <= Len(order), NEW t \in Incoming(order[k])
  PROVE  /\ t \in Range(itinerary.transfers) /\ t.to = order[k]
         /\ t.from \in DOMAIN timings[scenario]
         /\ t.from \in Ids /\ t.min \in Nat
         /\ timings[scenario][t.from] \in Timing
<1>1. /\ t \in Range(itinerary.transfers) /\ t.to = order[k]
      /\ t.from \in Ids /\ t.min \in Nat
  BY DEF Incoming, Typed, WellFormed, Ids
<1>2. <<t.from, order[k]>> \in EdgesOf(itinerary)
  BY <1>1 DEF EdgesOf
<1>3. PICK i \in 1..Len(order) : order[i] = t.from
  BY <1>1, FullOrder
<1>4. k \in 1..Len(order) /\ DOMAIN order = 1..Len(order) /\ Len(order) \in Nat
  BY DEF Typed
<1>5. i < k
  BY <1>2, <1>3, <1>4 DEF Typed, IsTopological
<1>6. t.from \in DOMAIN timings[scenario]
  BY <1>3, <1>4, <1>5 DEF Typed
<1>7. timings[scenario][t.from] \in Timing
  BY <1>6 DEF Typed
<1> QED  BY <1>1, <1>6, <1>7

(* The timing of an activity with finitely many predecessors is typed.     *)
LEMMA TimingTyped ==
  ASSUME Typed, pc = "relax"
  PROVE  /\ TimingOf(order[k]) \in Timing
         /\ order[k] \in Ids
         /\ DurationOf(order[k]) \in Nat
         /\ TimingOf(order[k]).start = start
         /\ TimingOf(order[k]).finish = start + DurationOf(order[k])
         /\ TimingOf(order[k]).slack =
                ActivityOf(itinerary, order[k]).deadline - (start + DurationOf(order[k]))
<1> DEFINE a == order[k]
<1>1. a \in Ids /\ start \in Nat
  BY DEF Typed
<1>2. ActivityOf(itinerary, a) \in TimedActivity
  BY <1>1, TheActivity DEF Typed, Ids
<1>3. DurationOf(a) \in Nat
  BY <1>2 DEF DurationOf, TimedActivity
<1>4. BindingPredecessors \subseteq Ids
  BY DEF BindingPredecessors, Typed
<1>5. IsFiniteSet(BindingPredecessors) /\ BindingPredecessors \subseteq Int
  <2>1. IsFiniteSet(Ids) /\ Ids \subseteq Nat
    BY FewActivities DEF Typed, Ids
  <2>2. IsFiniteSet(BindingPredecessors)
    BY <1>4, <2>1, FS_Subset
  <2> QED  BY <1>4, <2>1, <2>2
<1>6. Witness(a, BindingPredecessors) \in Ids \cup {Nobody}
  <2>1. CASE BindingPredecessors = {}  BY <2>1 DEF Witness
  <2>2. CASE BindingPredecessors # {}
    <3>1. Least(BindingPredecessors) \in BindingPredecessors
      BY <2>2, <1>5, LeastIsLeast
    <3> QED  BY <3>1, <1>4, <2>2 DEF Witness
  <2> QED  BY <2>1, <2>2
<1>7. start + DurationOf(a) \in Nat
  BY <1>1, <1>3
<1>8. ActivityOf(itinerary, a).deadline - (start + DurationOf(a)) \in Int
  BY <1>2, <1>7 DEF TimedActivity
<1> HIDE DEF a
<1>9. TimingOf(a) =
        [start    |-> start,
         finish   |-> start + DurationOf(a),
         slack    |-> ActivityOf(itinerary, a).deadline - (start + DurationOf(a)),
         released |-> ActivityOf(itinerary, a).release = start,
         binding  |-> BindingPredecessors,
         witness  |-> Witness(a, BindingPredecessors)]
  BY DEF TimingOf
<1>10. (ActivityOf(itinerary, a).release = start) \in BOOLEAN
  OBVIOUS
<1>11. TimingOf(a) \in Timing
  BY <1>1, <1>4, <1>6, <1>7, <1>8, <1>9, <1>10 DEF Timing
<1>12. /\ TimingOf(a).start = start
       /\ TimingOf(a).finish = start + DurationOf(a)
       /\ TimingOf(a).slack = ActivityOf(itinerary, a).deadline - (start + DurationOf(a))
  BY <1>9
<1> QED  BY <1>1, <1>3, <1>11, <1>12 DEF a

(* The summary of a finished pass has a least slack and a critical         *)
(* activity.                                                               *)
LEMMA CriticalExists ==
  ASSUME Typed, NEW s \in Scenarios, DOMAIN timings[s] = Ids
  PROVE  /\ Least(SlacksOf(s)) \in Int
         /\ \A a \in Ids : Least(SlacksOf(s)) <= timings[s][a].slack
         /\ \E a \in Ids : Least(SlacksOf(s)) = timings[s][a].slack
         /\ Least(CriticalOf(s)) \in CriticalOf(s)
         /\ CriticalOf(s) \subseteq Ids
<1>1. IsFiniteSet(Ids) /\ Ids # {} /\ Ids \subseteq Nat
  BY FewActivities DEF Typed, Ids
<1>2. \A a \in Ids : timings[s][a].slack \in Int
  BY DEF Typed, Timing
<1>3. SlacksOf(s) \in SUBSET Int /\ SlacksOf(s) # {}
  BY <1>1, <1>2 DEF SlacksOf
<1>4. IsFiniteSet(SlacksOf(s))
  <2> DEFINE f == [a \in Ids |-> timings[s][a].slack]
  <2>1. f \in Surjection(Ids, SlacksOf(s))
    BY DEF Surjection, SlacksOf
  <2> QED  BY <1>1, <2>1, FS_Surjection
<1>5. /\ Least(SlacksOf(s)) \in SlacksOf(s)
      /\ \A y \in SlacksOf(s) : Least(SlacksOf(s)) <= y
  BY <1>3, <1>4, LeastIsLeast
<1>6. PICK a \in Ids : Least(SlacksOf(s)) = timings[s][a].slack
  BY <1>5 DEF SlacksOf
<1>7. CriticalOf(s) \subseteq Ids /\ CriticalOf(s) # {}
  BY <1>6 DEF CriticalOf
<1>8. CriticalOf(s) \in SUBSET Int /\ IsFiniteSet(CriticalOf(s))
  <2>1. IsFiniteSet(CriticalOf(s))  BY <1>1, <1>7, FS_Subset
  <2>2. Ids \subseteq Int  BY <1>1
  <2>3. CriticalOf(s) \subseteq Int  BY <1>7, <2>2
  <2> QED  BY <2>1, <2>3
<1>9. Least(CriticalOf(s)) \in CriticalOf(s)
  BY <1>7, <1>8, LeastIsLeast
<1>10. \A b \in Ids : Least(SlacksOf(s)) <= timings[s][b].slack
  BY <1>5 DEF SlacksOf
<1>11. Least(SlacksOf(s)) \in Int
  BY <1>2, <1>6
<1> QED  BY <1>6, <1>7, <1>9, <1>10, <1>11

(* The first state is typed.                                               *)
LEMMA TypedInit == Init => Typed
<1> SUFFICES ASSUME Init PROVE Typed  OBVIOUS
<1>1. WellFormed(itinerary)
  BY InputsAssumption, NoObjections DEF Init
<1>2. IsFiniteSet(Ids)
  BY <1>1, FewActivities DEF Ids
<1>3. Cardinality(Ids) \in Nat
  BY <1>2, FS_CardinalityType
<1>4. order \in [1..Cardinality(Ids) -> Ids]
  BY DEF Init, Bijection, Injection
<1>5. order \in Seq(Ids) /\ Len(order) \in Nat
  BY <1>3, <1>4
<1>6. IsTopological(order, Ids, EdgesOf(itinerary))
  BY DEF Init, IsLeastOrder
<1>7. candidates = << >> /\ DOMAIN candidates = {} /\ candidates \in [DOMAIN candidates -> Nat]
  BY DEF Init
<1>8. \A s \in Scenarios : /\ DOMAIN timings[s] = {}
                           /\ timings[s] \in [DOMAIN timings[s] -> Timing]
                           /\ timings[s] = << >>
  BY DEF Init
<1>9. DOMAIN timings = Scenarios /\ scenario = "best" /\ k = 1 /\ scenario \in Scenarios
  BY DEF Init, Scenarios
<1>10. DOMAIN timings[scenario] = {order[i] : i \in 1..(k - 1)}
  BY <1>8, <1>9
<1> QED
  BY <1>1, <1>5, <1>6, <1>7, <1>8, <1>9, <1>10 DEF Init, Typed, Scenarios

(* StartActivity preserves Typed.                                          *)
LEMMA TypedStart == Typed /\ StartActivity => Typed'
<1> SUFFICES ASSUME Typed, StartActivity PROVE Typed'  OBVIOUS
<1>1. /\ pc = "start" /\ pc' = "relax" /\ k <= Len(order)
      /\ UNCHANGED <<itinerary, order, scenario, k, timings, summary, cursor, chain, outcome>>
      /\ candidates' = << >> /\ todo' = Incoming(order[k])
      /\ start' = ActivityOf(itinerary, order[k]).release
  BY DEF StartActivity, walk
<1>2. order[k] \in Ids
  BY <1>1 DEF Typed
<1>3. start' \in Nat
  BY <1>1, <1>2, TheActivity DEF Typed, Ids, TimedActivity
<1>4. /\ todo' \subseteq Range(itinerary.transfers)
      /\ todo' \subseteq Incoming(order[k])' /\ Ids' = Ids /\ Timing' = Timing
  BY <1>1 DEF Incoming, Ids, Timing
<1>5. DOMAIN candidates' = {} /\ candidates' \in [DOMAIN candidates' -> Nat]
  BY <1>1
<1> QED  BY <1>1, <1>3, <1>4, <1>5 DEF Typed

(* RelaxTransfer preserves Typed.                                          *)
LEMMA TypedRelax == Typed /\ RelaxTransfer => Typed'
<1> SUFFICES ASSUME Typed, RelaxTransfer PROVE Typed'  OBVIOUS
<1>1. /\ pc = "relax" /\ k <= Len(order)
      /\ UNCHANGED <<itinerary, order, pc, scenario, k, timings, summary, cursor, chain, outcome>>
  BY DEF RelaxTransfer, walk, Typed
<1>2. PICK t \in todo : /\ todo' = todo \ {t}
                        /\ candidates' = Put(candidates, t.from, Candidate(t))
                        /\ start' = IF Candidate(t) > start THEN Candidate(t) ELSE start
  BY DEF RelaxTransfer
<1>3. /\ t.from \in Ids /\ t.min \in Nat
      /\ timings[scenario][t.from] \in Timing
  BY <1>1, <1>2, PredecessorsTimed DEF Typed
<1>4. Candidate(t) \in Nat
  BY <1>3 DEF Candidate, Timing
<1>5. start' \in Nat
  BY <1>2, <1>4 DEF Typed
<1>6. DOMAIN candidates' \subseteq Ids /\ candidates' \in [DOMAIN candidates' -> Nat]
  BY <1>2, <1>3, <1>4 DEF Put, Typed
<1>7. Ids' = Ids /\ Timing' = Timing /\ Incoming(order[k])' = Incoming(order[k])
  BY <1>1 DEF Ids, Timing, Incoming
<1>8. todo' \subseteq todo
  BY <1>2
<1> QED  BY <1>1, <1>5, <1>6, <1>7, <1>8 DEF Typed

(* FinishActivity preserves Typed.                                         *)
LEMMA TypedFinish == Typed /\ FinishActivity => Typed'
<1> SUFFICES ASSUME Typed, FinishActivity PROVE Typed'  OBVIOUS
<1> DEFINE a == order[k]
<1>1. /\ pc = "relax" /\ pc' = "start" /\ todo = {} /\ k' = k + 1 /\ k <= Len(order)
      /\ timings' = [timings EXCEPT ![scenario] = Put(@, a, TimingOf(a))]
      /\ UNCHANGED <<itinerary, order, scenario, todo, start, candidates, summary, cursor, chain, outcome>>
  BY DEF FinishActivity, walk, Typed
<1>2. TimingOf(a) \in Timing /\ a \in Ids
  BY <1>1, TimingTyped
<1>3. Ids' = Ids /\ Timing' = Timing
  BY <1>1 DEF Ids, Timing
<1>4. /\ timings'[scenario] = Put(timings[scenario], a, TimingOf(a))
      /\ \A s \in Scenarios : s # scenario => timings'[s] = timings[s]
      /\ DOMAIN timings' = Scenarios
  BY <1>1 DEF Typed
<1>5. \A s \in Scenarios : timings'[s] \in [DOMAIN timings'[s] -> Timing]
  BY <1>2, <1>4 DEF Put, Typed
<1>6. k \in Nat \ {0} /\ Len(order) \in Nat /\ k' \in 1..(Len(order) + 1)
  BY <1>1 DEF Typed
<1>7. DOMAIN timings'[scenario] = {order[i] : i \in 1..k}
  <2>1. DOMAIN timings'[scenario] = {order[i] : i \in 1..(k - 1)} \cup {a}
    BY <1>4 DEF Put, Typed
  <2>2. 1..k = 1..(k - 1) \cup {k}
    BY <1>6
  <2> QED  BY <2>1, <2>2
<1>8. k' - 1 = k
  BY <1>1, <1>6
<1>9. /\ scenario = "worst" => timings'["best"] = timings["best"]
      /\ scenario = "best" => timings'["worst"] = timings["worst"]
  BY <1>4 DEF Scenarios
<1>10. DOMAIN timings'[scenario'] = {order'[i] : i \in 1..(k' - 1)}
  BY <1>1, <1>7, <1>8
<1> HIDE DEF a
<1> QED
  BY <1>1, <1>3, <1>4, <1>5, <1>6, <1>9, <1>10 DEF Typed

(* Summarise preserves Typed.                                              *)
LEMMA TypedSummarise == Typed /\ Summarise => Typed'
<1> SUFFICES ASSUME Typed, Summarise PROVE Typed'  OBVIOUS
<1>1. /\ pc = "start" /\ pc' = "walk" /\ k > Len(order)
      /\ cursor' = Least(CriticalOf(scenario)) /\ chain' = << >>
      /\ UNCHANGED <<itinerary, order, scenario, k, todo, start, candidates, timings, summary, outcome>>
  BY DEF Summarise, loop
<1>2. k = Len(order) + 1 /\ Len(order) \in Nat
  BY <1>1 DEF Typed
<1>3. DOMAIN timings[scenario] = Ids
  BY <1>2, FullOrder DEF Typed
<1>4. cursor' \in Ids
  BY <1>1, <1>3, CriticalExists DEF Typed
<1>5. Ids' = Ids /\ Timing' = Timing /\ chain' \in Seq(Ids)
  BY <1>1 DEF Ids, Timing
<1> QED  BY <1>1, <1>2, <1>4, <1>5 DEF Typed

(* FollowWitness preserves Typed.                                          *)
LEMMA TypedFollow == Typed /\ FollowWitness => Typed'
<1> SUFFICES ASSUME Typed, FollowWitness PROVE Typed'  OBVIOUS
<1>1. /\ pc = "walk" /\ cursor \in Ids
      /\ UNCHANGED <<itinerary, order, scenario, k, todo, start, candidates, timings, summary>>
  BY DEF FollowWitness, loop, Typed
<1>2. k = Len(order) + 1 /\ Len(order) \in Nat
  BY <1>1 DEF Typed
<1>3. DOMAIN timings[scenario] = Ids
  BY <1>2, FullOrder DEF Typed
<1>4. timings[scenario][cursor].witness \in Ids \cup {Nobody}
  BY <1>1, <1>3 DEF Typed, Timing
<1>5. \/ outcome' = "RUNTIME_ERROR" /\ pc' = "done" /\ UNCHANGED <<cursor, chain>>
      \/ /\ chain' = Append(chain, cursor)
         /\ cursor' = timings[scenario][cursor].witness
         /\ UNCHANGED <<pc, outcome>>
  BY DEF FollowWitness, walk
<1>6. cursor' \in Ids \cup {Nobody} /\ chain' \in Seq(Ids)
  <2>1. chain \in Seq(Ids)  BY DEF Typed
  <2>2. Append(chain, cursor) \in Seq(Ids)  BY <1>1, <2>1
  <2> QED  BY <1>1, <1>4, <1>5, <2>1, <2>2
<1>7. Ids' = Ids /\ Timing' = Timing
  BY <1>1 DEF Ids, Timing
<1>8. /\ outcome' \in {"PENDING", "RUNTIME_ERROR"}
      /\ pc' \in {"walk", "done"}
      /\ pc' # "done" => outcome' = "PENDING"
  BY <1>1, <1>5 DEF Typed
<1> QED  BY <1>1, <1>2, <1>6, <1>7, <1>8 DEF Typed

(* EndWalk preserves Typed.                                                *)
LEMMA TypedEnd == Typed /\ EndWalk => Typed'
<1> SUFFICES ASSUME Typed, EndWalk PROVE Typed'  OBVIOUS
<1>1. /\ pc = "walk"
      /\ UNCHANGED <<itinerary, order, todo, start, candidates, timings, cursor, chain>>
  BY DEF EndWalk, walk
<1>2. k = Len(order) + 1 /\ Len(order) \in Nat
  BY <1>1 DEF Typed
<1>3. DOMAIN timings[scenario] = Ids
  BY <1>2, FullOrder DEF Typed
<1>4. Ids' = Ids /\ Timing' = Timing
  BY <1>1 DEF Ids, Timing
<1>5. CASE scenario = "worst" /\ scenario' = "worst" /\ outcome' = "REPORTED" /\ pc' = "done" /\ k' = k
  BY <1>1, <1>2, <1>4, <1>5 DEF Typed, Scenarios
<1>6. CASE scenario = "best" /\ scenario' = "worst" /\ k' = 1 /\ pc' = "start" /\ outcome' = outcome
  <2>1. timings["worst"] = << >> /\ DOMAIN timings["worst"] = {}
    BY <1>6 DEF Typed
  <2>2. DOMAIN timings'[scenario'] = {order'[i] : i \in 1..(k' - 1)}
    BY <1>1, <1>6, <2>1
  <2>3. DOMAIN timings'["best"] = Ids
    BY <1>1, <1>3, <1>6
  <2>4. scenario' \in Scenarios /\ scenario' # "best" /\ k' \in 1..(Len(order) + 1)
    BY <1>2, <1>6 DEF Scenarios
  <2> QED
    BY <1>1, <1>4, <1>6, <2>2, <2>3, <2>4 DEF Typed
<1> QED  BY <1>5, <1>6 DEF EndWalk

(* Typed is inductive.                                                     *)
LEMMA TypedStep == Typed /\ [Next]_vars => Typed'
<1>1. Typed /\ UNCHANGED vars => Typed'
  BY DEF vars, loop, walk, Typed, Ids, Timing, Incoming
<1> QED
  BY <1>1, TypedStart, TypedRelax, TypedFinish, TypedSummarise, TypedFollow, TypedEnd
     DEF Next

(* Typed is stronger than the type invariant.                              *)
LEMMA TypedTypes == Typed => TypeOK
<1> SUFFICES ASSUME Typed PROVE TypeOK  OBVIOUS
<1>1. \A t \in todo : t.from \in DOMAIN timings[scenario]
  BY PredecessorsTimed DEF Typed
<1>2. itinerary \in Itinerary
  BY DEF Typed, WellFormed
<1> QED  BY <1>1, <1>2 DEF Typed, TypeOK

(* Every variable has its type, and the lookup of a predecessor's timing   *)
(* never fails.                                                            *)
THEOREM TypeCorrect == Spec => []TypeOK
<1>1. Init => Typed
  BY TypedInit
<1>2. Typed /\ [Next]_vars => Typed'
  BY TypedStep
<1>3. Typed => TypeOK
  BY TypedTypes
<1> QED  BY <1>1, <1>2, <1>3, PTL DEF Spec

-----------------------------------------------------------------------------
(* The passes.                                                             *)

DurationIn(s, a) == IF s = "worst" THEN ActivityOf(itinerary, a).max
                                   ELSE ActivityOf(itinerary, a).min

Bound(s, t) == timings[s][t.from].finish + t.min

(* The timing of a is final: its start is the latest of its release and    *)
(* the bounds of its transfers.                                            *)
Settled(s, a) ==
    LET T == timings[s][a] IN
    /\ T.finish = T.start + DurationIn(s, a)
    /\ T.slack = ActivityOf(itinerary, a).deadline - T.finish
    /\ T.start >= ActivityOf(itinerary, a).release
    /\ \A t \in Incoming(a) : /\ t.from \in DOMAIN timings[s]
                              /\ T.start >= Bound(s, t)
    /\ \/ T.start = ActivityOf(itinerary, a).release
       \/ \E t \in Incoming(a) : T.start = Bound(s, t)

(* The transfers into the activity in hand already looked at.              *)
Relaxed == Incoming(order[k]) \ todo

Passes ==
    /\ \A s \in Scenarios : \A a \in DOMAIN timings[s] : Settled(s, a)
    /\ pc = "relax" =>
          /\ start >= ActivityOf(itinerary, order[k]).release
          /\ \A t \in Relaxed : start >= Bound(scenario, t)
          /\ \/ start = ActivityOf(itinerary, order[k]).release
             \/ \E t \in Relaxed : start = Bound(scenario, t)
    /\ outcome = "REPORTED" =>
          \A s \in Scenarios : summary[s].slack = Least(SlacksOf(s))
    /\ scenario = "worst" => summary["best"].slack = Least(SlacksOf("best"))
    /\ DOMAIN summary = Scenarios

(* Nothing is computed in the first state.                                 *)
LEMMA PassesInit == Init => Passes
<1> SUFFICES ASSUME Init PROVE Passes  OBVIOUS
<1>1. \A s \in Scenarios : DOMAIN timings[s] = {}
  BY DEF Init
<1> QED  BY <1>1 DEF Init, Passes, Scenarios

(* A settled activity stays settled while the timings stay.                *)
LEMMA SettledStays ==
  ASSUME UNCHANGED <<itinerary, timings>>
  PROVE  /\ \A s, a : Settled(s, a)' <=> Settled(s, a)
         /\ \A s : SlacksOf(s)' = SlacksOf(s)
         /\ \A s, t : Bound(s, t)' = Bound(s, t)
  BY DEF Settled, DurationIn, Incoming, Bound, SlacksOf

(* StartActivity preserves Passes.                                         *)
LEMMA PassesStart == Typed /\ Passes /\ StartActivity => Passes'
<1> SUFFICES ASSUME Typed, Passes, StartActivity PROVE Passes'  OBVIOUS
<1>1. /\ pc = "start" /\ k <= Len(order)
      /\ UNCHANGED <<itinerary, order, scenario, k, timings, summary, outcome>>
      /\ todo' = Incoming(order[k])
      /\ start' = ActivityOf(itinerary, order[k]).release
  BY DEF StartActivity
<1>2. Relaxed' = {}
  BY <1>1 DEF Relaxed, Incoming
<1>3. ActivityOf(itinerary, order[k]).release \in Nat
  <2>1. order[k] \in Ids  BY <1>1 DEF Typed
  <2> QED  BY <2>1, TheActivity DEF Typed, Ids, TimedActivity
<1>4. start' >= ActivityOf(itinerary, order[k])'.release
      /\ start' = ActivityOf(itinerary, order[k])'.release
  BY <1>1, <1>3
<1>5. /\ \A s, a : Settled(s, a)' <=> Settled(s, a)
      /\ \A s : SlacksOf(s)' = SlacksOf(s)
  BY <1>1, SettledStays
<1> QED  BY <1>1, <1>2, <1>4, <1>5 DEF Passes

(* RelaxTransfer preserves Passes.                                         *)
LEMMA PassesRelax == Typed /\ Passes /\ RelaxTransfer => Passes'
<1> SUFFICES ASSUME Typed, Passes, RelaxTransfer PROVE Passes'  OBVIOUS
<1> DEFINE release == ActivityOf(itinerary, order[k]).release
<1>1. /\ pc = "relax" /\ k <= Len(order) /\ todo \subseteq Incoming(order[k])
      /\ UNCHANGED <<itinerary, order, pc, scenario, k, timings, summary, outcome>>
  BY DEF RelaxTransfer, Typed
<1>2. PICK t \in todo : /\ todo' = todo \ {t}
                        /\ start' = IF Candidate(t) > start THEN Candidate(t) ELSE start
  BY DEF RelaxTransfer
<1>3. Candidate(t) = Bound(scenario, t)
  BY DEF Candidate, Bound
<1>4. \A u \in Incoming(order[k]) : Bound(scenario, u) \in Nat
  BY <1>1, PredecessorsTimed DEF Bound, Timing
<1>5. start \in Nat /\ release \in Nat
  <2>1. order[k] \in Ids /\ start \in Nat  BY <1>1 DEF Typed
  <2> QED  BY <2>1, TheActivity DEF Typed, Ids, TimedActivity
<1>6. Relaxed' = Relaxed \cup {t}
  BY <1>1, <1>2 DEF Relaxed, Incoming
<1>7. /\ start' >= start /\ start' >= Bound(scenario, t) /\ start' \in Nat
      /\ start' = start \/ start' = Bound(scenario, t)
  BY <1>1, <1>2, <1>3, <1>4, <1>5
<1>8. start' >= release
  BY <1>1, <1>5, <1>7 DEF Passes
<1>9. \A u \in Relaxed' : start' >= Bound(scenario, u)
  <2> SUFFICES ASSUME NEW u \in Relaxed' PROVE start' >= Bound(scenario, u)  OBVIOUS
  <2>1. CASE u = t  BY <2>1, <1>7
  <2>2. CASE u \in Relaxed
    <3>1. start >= Bound(scenario, u) /\ Bound(scenario, u) \in Nat
      BY <2>2, <1>1, <1>4 DEF Passes, Relaxed
    <3> QED  BY <3>1, <1>5, <1>7
  <2> QED  BY <2>1, <2>2, <1>6
<1>10. start' = release \/ \E u \in Relaxed' : start' = Bound(scenario, u)
  <2>1. CASE start' = start  BY <2>1, <1>1, <1>6 DEF Passes
  <2>2. CASE start' = Bound(scenario, t)  BY <2>2, <1>6
  <2> QED  BY <2>1, <2>2, <1>7
<1>11. /\ \A s, a : Settled(s, a)' <=> Settled(s, a)
       /\ \A s : SlacksOf(s)' = SlacksOf(s)
       /\ \A s, u : Bound(s, u)' = Bound(s, u)
  BY <1>1, SettledStays
<1>12. release' = release /\ scenario' = scenario
  BY <1>1
<1> HIDE DEF release
<1>13. /\ \A u \in Relaxed' : start' >= Bound(scenario, u)'
       /\ start' = release' \/ \E u \in Relaxed' : start' = Bound(scenario, u)'
       /\ start' >= release'
  BY <1>8, <1>9, <1>10, <1>11, <1>12
<1> USE DEF release
<1> QED  BY <1>1, <1>11, <1>13 DEF Passes

(* FinishActivity settles the activity in hand, and no other.              *)
LEMMA PassesFinish == Typed /\ Passes /\ FinishActivity => Passes'
<1> SUFFICES ASSUME Typed, Passes, FinishActivity PROVE Passes'  OBVIOUS
<1>1. PICK a : a = order[k]  OBVIOUS
<1>2. PICK sc : sc = scenario  OBVIOUS
<1>3. PICK x : x = ActivityOf(itinerary, a)  OBVIOUS
<1>4. /\ pc = "relax" /\ pc' = "start" /\ todo = {} /\ k <= Len(order)
      /\ timings' = [timings EXCEPT ![sc] = Put(@, a, TimingOf(a))]
      /\ UNCHANGED <<itinerary, order, scenario, summary, outcome>>
      /\ outcome = "PENDING"
  BY <1>1, <1>2 DEF FinishActivity, Typed
<1>5. /\ TimingOf(a) \in Timing /\ a \in Ids
      /\ TimingOf(a).start = start
      /\ TimingOf(a).finish = start + DurationIn(sc, a)
      /\ TimingOf(a).slack = x.deadline - (start + DurationIn(sc, a))
  <2>1. DurationOf(a) = DurationIn(sc, a)
    BY <1>2 DEF DurationOf, DurationIn
  <2> QED  BY <2>1, <1>1, <1>3, <1>4, TimingTyped
<1>6. /\ sc \in Scenarios
      /\ timings'[sc] = Put(timings[sc], a, TimingOf(a))
      /\ \A s \in Scenarios : s # sc => timings'[s] = timings[s]
  BY <1>2, <1>4 DEF Typed
<1>7. a \notin DOMAIN timings[sc]
  <2>1. k \in 1..Len(order) /\ DOMAIN order = 1..Len(order) /\ Len(order) \in Nat
    BY <1>4 DEF Typed
  <2>2. SUFFICES ASSUME NEW i \in 1..(k - 1), order[i] = order[k] PROVE FALSE
    BY <1>1, <1>2 DEF Typed
  <2>3. order \in [1..Len(order) -> Ids] /\ Len(order) = Cardinality(Ids) /\ Range(order) = Ids
    BY DEF Typed, IsTopological
  <2>4. IsFiniteSet(1..Len(order)) /\ Cardinality(1..Len(order)) = Len(order)
    BY <2>1, FS_Interval
  <2>5. order \in Surjection(1..Len(order), Ids)
    BY <2>1, <2>3 DEF Surjection, Range
  <2>6. order \in Injection(1..Len(order), Ids)
    BY <2>3, <2>4, <2>5, FS_Surjection
  <2>7. i \in 1..Len(order) /\ i # k  BY <2>1
  <2> QED  BY <2>1, <2>2, <2>6, <2>7 DEF Injection, IsInjective
<1>8. /\ DOMAIN timings'[sc] = DOMAIN timings[sc] \cup {a}
      /\ timings'[sc][a] = TimingOf(a)
      /\ \A b \in DOMAIN timings[sc] : timings'[sc][b] = timings[sc][b]
  BY <1>6, <1>7 DEF Put
<1>9. \A u \in Incoming(a) : u.from \in DOMAIN timings[sc]
  BY <1>1, <1>2, <1>4, PredecessorsTimed
<1>10. \A u : u.from \in DOMAIN timings[sc] => Bound(sc, u)' = Bound(sc, u)
  BY <1>8 DEF Bound
<1>11. /\ \A b : Incoming(b)' = Incoming(b) /\ ActivityOf(itinerary, b)' = ActivityOf(itinerary, b)
       /\ \A s, b : DurationIn(s, b)' = DurationIn(s, b)
  BY <1>4 DEF Incoming, DurationIn
<1>12. /\ start >= x.release
       /\ \A t \in Incoming(a) : start >= Bound(sc, t)
       /\ start = x.release \/ \E t \in Incoming(a) : start = Bound(sc, t)
  BY <1>1, <1>2, <1>3, <1>4 DEF Passes, Relaxed
<1>13. Settled(sc, a)'
  <2>1. \A t \in Incoming(a)' : /\ t.from \in DOMAIN timings'[sc]
                                /\ TimingOf(a).start >= Bound(sc, t)'
    BY <1>5, <1>8, <1>9, <1>10, <1>11, <1>12
  <2>2. \/ TimingOf(a).start = x.release
        \/ \E t \in Incoming(a)' : TimingOf(a).start = Bound(sc, t)'
    BY <1>5, <1>9, <1>10, <1>11, <1>12
  <2>3. x = ActivityOf(itinerary, a)'
    BY <1>3, <1>11
  <2>4. /\ TimingOf(a).finish = TimingOf(a).start + DurationIn(sc, a)'
        /\ TimingOf(a).slack = x.deadline - TimingOf(a).finish
        /\ TimingOf(a).start >= x.release
    BY <1>5, <1>11, <1>12
  <2>5. timings'[sc][a] = TimingOf(a)
    BY <1>8
  <2> QED  BY <2>1, <2>2, <2>3, <2>4, <2>5 DEF Settled
<1>14. ASSUME NEW b \in DOMAIN timings[sc]
       PROVE  Settled(sc, b)'
  <2>1. Settled(sc, b)
    BY <1>6 DEF Passes
  <2>2. timings'[sc][b] = timings[sc][b]
    BY <1>8
  <2>3. \A t \in Incoming(b) : /\ t.from \in DOMAIN timings'[sc]
                               /\ Bound(sc, t)' = Bound(sc, t)
    BY <2>1, <1>8, <1>10 DEF Settled
  <2> QED  BY <2>1, <2>2, <2>3, <1>11 DEF Settled
<1>15. ASSUME NEW s \in Scenarios, s # sc, NEW b \in DOMAIN timings[s]
       PROVE  Settled(s, b)'
  <2>1. Settled(s, b) /\ timings'[s] = timings[s]
    BY <1>6, <1>15 DEF Passes
  <2>2. \A t : Bound(s, t)' = Bound(s, t)
    BY <2>1 DEF Bound
  <2> QED  BY <2>1, <2>2, <1>11 DEF Settled
<1>16. \A s \in Scenarios : \A b \in DOMAIN timings'[s] : Settled(s, b)'
  <2> SUFFICES ASSUME NEW s \in Scenarios, NEW b \in DOMAIN timings'[s]
               PROVE  Settled(s, b)'
    OBVIOUS
  <2>1. CASE s = sc  BY <2>1, <1>8, <1>13, <1>14
  <2>2. CASE s # sc  BY <2>2, <1>6, <1>15
  <2> QED  BY <2>1, <2>2
<1>17. scenario = "worst" => SlacksOf("best")' = SlacksOf("best")
  BY <1>2, <1>6 DEF SlacksOf, Scenarios
<1> QED  BY <1>4, <1>16, <1>17 DEF Passes

(* The end of a walk records the least slack of its pass.                  *)
LEMMA PassesEnd == Typed /\ Passes /\ EndWalk => Passes'
<1> SUFFICES ASSUME Typed, Passes, EndWalk PROVE Passes'  OBVIOUS
<1>1. /\ pc = "walk" /\ pc' # "relax" /\ scenario' = "worst"
      /\ UNCHANGED <<itinerary, order, timings>>
      /\ outcome = "PENDING"
      /\ outcome' = "REPORTED" => scenario = "worst"
  BY DEF EndWalk, Typed
<1>2. /\ \A s, a : Settled(s, a)' <=> Settled(s, a)
      /\ \A s : SlacksOf(s)' = SlacksOf(s)
  BY <1>1, SettledStays
<1>3. /\ DOMAIN summary' = Scenarios
      /\ summary'[scenario].slack = Least(SlacksOf(scenario))
      /\ \A s \in Scenarios : s # scenario => summary'[s] = summary[s]
      /\ scenario \in Scenarios
  BY DEF EndWalk, Passes, Typed
<1>4. summary'["best"].slack = Least(SlacksOf("best"))
  BY <1>3 DEF Passes, Scenarios
<1>5. outcome' = "REPORTED" => \A s \in Scenarios : summary'[s].slack = Least(SlacksOf(s))
  BY <1>1, <1>3, <1>4 DEF Scenarios
<1> QED  BY <1>1, <1>2, <1>3, <1>4, <1>5 DEF Passes

(* No other step touches the timings.                                      *)
LEMMA PassesRest ==
  Typed /\ Passes /\ (Summarise \/ FollowWitness \/ UNCHANGED vars) => Passes'
<1>1. ASSUME Typed, Passes, Summarise \/ FollowWitness PROVE Passes'
  <2>1. /\ pc' # "relax" /\ outcome' # "REPORTED"
        /\ UNCHANGED <<itinerary, order, scenario, timings, summary>>
    BY <1>1 DEF Summarise, FollowWitness, Typed
  <2>2. /\ \A s, a : Settled(s, a)' <=> Settled(s, a)
        /\ \A s : SlacksOf(s)' = SlacksOf(s)
    BY <2>1, SettledStays
  <2> QED  BY <1>1, <2>1, <2>2 DEF Passes
<1>2. ASSUME Typed, Passes, UNCHANGED vars PROVE Passes'
  <2>1. UNCHANGED <<itinerary, order, pc, scenario, k, todo, start, timings, summary, outcome>>
    BY <1>2 DEF vars, loop
  <2>2. /\ \A s, a : Settled(s, a)' <=> Settled(s, a)
        /\ \A s : SlacksOf(s)' = SlacksOf(s)
        /\ \A s, t : Bound(s, t)' = Bound(s, t)
        /\ Relaxed' = Relaxed
    BY <2>1, SettledStays DEF Relaxed, Incoming
  <2> QED  BY <1>2, <2>1, <2>2 DEF Passes
<1> QED  BY <1>1, <1>2

(* The inductive invariant.                                                *)
IInv == Typed /\ Passes

(* IInv is inductive.                                                      *)
THEOREM InvariantHolds == Spec => []IInv
<1>1. Init => IInv
  BY TypedInit, PassesInit DEF IInv
<1>2. IInv /\ [Next]_vars => IInv'
  BY TypedStep, PassesStart, PassesRelax, PassesFinish, PassesEnd, PassesRest DEF IInv, Next
<1> QED  BY <1>1, <1>2, PTL DEF Spec

-----------------------------------------------------------------------------
(* The envelope.                                                           *)

AllSchedules == [Ids -> Int]

(* A transfer leads from an earlier to a later place in the order.         *)
LEMMA TransferForward ==
  ASSUME Typed, NEW i \in 1..Len(order), NEW t \in Incoming(order[i])
  PROVE  \E l \in 1..Len(order) : l < i /\ order[l] = t.from
<1>1. /\ t \in Range(itinerary.transfers) /\ t.to = order[i] /\ t.from \in Ids
  BY DEF Incoming, Typed, WellFormed, Ids
<1>2. PICK l \in 1..Len(order) : order[l] = t.from
  BY <1>1, FullOrder
<1>3. <<order[l], order[i]>> \in EdgesOf(itinerary)
  BY <1>1, <1>2 DEF EdgesOf
<1>4. DOMAIN order = 1..Len(order)
  BY DEF Typed
<1>5. l < i
  BY <1>3, <1>4 DEF Typed, IsTopological
<1> QED  BY <1>2, <1>5

(* What holds of every activity whose predecessors it holds of holds of    *)
(* all: a set of activities that contains each one whose predecessors it   *)
(* contains is the set of all.                                             *)
LEMMA AlongTheOrder ==
  ASSUME Typed, NEW G,
         \A a \in Ids : (\A t \in Incoming(a) : t.from \in G) => a \in G
  PROVE  Ids \subseteq G
<1> DEFINE B == {i \in 1..Len(order) : order[i] \notin G}
<1>1. Len(order) \in Nat
  BY DEF Typed
<1>2. B \in SUBSET Int /\ IsFiniteSet(B)
  <2>1. IsFiniteSet(1..Len(order))  BY <1>1, FS_Interval
  <2>2. B \subseteq 1..Len(order)  OBVIOUS
  <2>3. IsFiniteSet(B)  BY <2>1, <2>2, FS_Subset
  <2>4. B \subseteq Int  BY <1>1
  <2> QED  BY <2>3, <2>4
<1>3. ASSUME B # {} PROVE FALSE
  <2> HIDE DEF B
  <2>1. Least(B) \in B /\ \A y \in B : Least(B) <= y
    BY <1>2, <1>3, LeastIsLeast
  <2>2. PICK i \in B : \A y \in B : i <= y
    BY <2>1
  <2>3. i \in 1..Len(order) /\ order[i] \notin G /\ order[i] \in Ids
    BY DEF B, Typed
  <2>4. ASSUME NEW t \in Incoming(order[i]) PROVE t.from \in G
    <3>1. PICK l \in 1..Len(order) : l < i /\ order[l] = t.from
      BY <2>3, TransferForward
    <3>2. l \notin B
      BY <2>2, <2>3, <3>1
    <3> QED  BY <3>1, <3>2 DEF B
  <2> QED  BY <2>3, <2>4
<1> QED  BY <1>3, FullOrder

(* The durations of a vector lie in their intervals.                       *)
LEMMA VectorBounds ==
  ASSUME Typed, NEW dur \in DurationVectors(itinerary), NEW a \in Ids
  PROVE  /\ dur[a] \in Nat
         /\ ActivityOf(itinerary, a).min <= dur[a]
         /\ dur[a] <= ActivityOf(itinerary, a).max
         /\ ActivityOf(itinerary, a).min \in Nat /\ ActivityOf(itinerary, a).max \in Nat
         /\ ActivityOf(itinerary, a).release \in Nat
         /\ ActivityOf(itinerary, a).deadline \in Nat
<1>1. ActivityOf(itinerary, a) \in TimedActivity
  BY TheActivity DEF Typed, Ids
<1>2. /\ ActivityOf(itinerary, a).min \in Nat /\ ActivityOf(itinerary, a).max \in Nat
      /\ ActivityOf(itinerary, a).release \in Nat
      /\ ActivityOf(itinerary, a).deadline \in Nat
  BY <1>1 DEF TimedActivity
<1>3. dur[a] \in ActivityOf(itinerary, a).min..ActivityOf(itinerary, a).max
  BY DEF DurationVectors, Ids
<1> QED  BY <1>2, <1>3

(* No schedule that respects the precedences undercuts the best case.      *)
LEMMA BestIsBelow ==
  ASSUME IInv, DOMAIN timings["best"] = Ids,
         NEW dur \in DurationVectors(itinerary), NEW s \in AllSchedules,
         RespectsPrecedence(itinerary, dur, s), NEW a \in Ids
  PROVE  /\ timings["best"][a].start <= s[a]
         /\ timings["best"][a].finish <= s[a] + dur[a]
<1> DEFINE T(b) == timings["best"][b]
           G == {b \in Ids : T(b).start <= s[b]}
<1>1. Typed /\ Passes
  BY DEF IInv
<1>2. ASSUME NEW b \in Ids
      PROVE  /\ T(b).start \in Nat /\ T(b).finish \in Nat
             /\ s[b] \in Int /\ Settled("best", b)
             /\ T(b).finish = T(b).start + ActivityOf(itinerary, b).min
             /\ ActivityOf(itinerary, b).min \in Nat
             /\ ActivityOf(itinerary, b).min <= dur[b] /\ dur[b] \in Nat
  <2>1. T(b) \in Timing /\ Settled("best", b)
    BY <1>1 DEF Typed, Passes, Scenarios
  <2>2. T(b).finish = T(b).start + ActivityOf(itinerary, b).min
    BY <2>1 DEF Settled, DurationIn
  <2> QED  BY <1>1, <2>1, <2>2, VectorBounds DEF Timing, AllSchedules
<1>3. ASSUME NEW b \in Ids, T(b).start <= s[b]
      PROVE  T(b).finish <= s[b] + dur[b]
  BY <1>2, <1>3
<1>4. ASSUME NEW b \in Ids, \A t \in Incoming(b) : t.from \in G
      PROVE  b \in G
  <2>1. CASE T(b).start = ActivityOf(itinerary, b).release
    <3>1. s[b] >= ActivityOf(itinerary, b).release
      BY DEF RespectsPrecedence, Ids
    <3> QED  BY <2>1, <3>1, <1>2
  <2>2. CASE \E t \in Incoming(b) : T(b).start = Bound("best", t)
    <3>1. PICK t \in Incoming(b) : T(b).start = T(t.from).finish + t.min
      BY <2>2 DEF Bound
    <3>2. t \in Range(itinerary.transfers) /\ t.to = b /\ t.from \in Ids /\ t.min \in Nat
      BY <1>1 DEF Incoming, Typed, WellFormed, Ids
    <3>3. s[b] >= s[t.from] + dur[t.from] + t.min
      BY <3>2 DEF RespectsPrecedence
    <3>4. T(t.from).finish <= s[t.from] + dur[t.from]
      BY <1>3, <1>4, <3>2
    <3>5. /\ s[b] \in Int /\ s[t.from] \in Int /\ dur[t.from] \in Nat
          /\ T(t.from).finish \in Nat
      BY <1>2, <3>2
    <3> HIDE DEF T
    <3>6. T(b).start <= s[b]
      BY <3>1, <3>2, <3>3, <3>4, <3>5
    <3> QED  BY <3>6
  <2>3. Settled("best", b)
    BY <1>2
  <2> QED  BY <2>1, <2>2, <2>3 DEF Settled
<1>5. a \in G
  <2> HIDE DEF G
  <2> QED  BY <1>1, <1>4, AlongTheOrder
<1> QED  BY <1>3, <1>5

(* No earliest-start schedule exceeds the worst case.                      *)
LEMMA WorstIsAbove ==
  ASSUME IInv, DOMAIN timings["worst"] = Ids,
         NEW dur \in DurationVectors(itinerary), NEW s \in AllSchedules,
         IsEarliest(itinerary, dur, s), NEW a \in Ids
  PROVE  /\ s[a] <= timings["worst"][a].start
         /\ s[a] + dur[a] <= timings["worst"][a].finish
<1> DEFINE T(b) == timings["worst"][b]
           G == {b \in Ids : s[b] <= T(b).start}
<1>1. Typed /\ Passes
  BY DEF IInv
<1>2. ASSUME NEW b \in Ids
      PROVE  /\ T(b).start \in Nat /\ T(b).finish \in Nat
             /\ s[b] \in Int /\ Settled("worst", b)
             /\ T(b).finish = T(b).start + ActivityOf(itinerary, b).max
             /\ ActivityOf(itinerary, b).max \in Nat
             /\ ActivityOf(itinerary, b).release \in Nat
             /\ dur[b] <= ActivityOf(itinerary, b).max /\ dur[b] \in Nat
  <2>1. T(b) \in Timing /\ Settled("worst", b)
    BY <1>1 DEF Typed, Passes, Scenarios
  <2>2. T(b).finish = T(b).start + ActivityOf(itinerary, b).max
    BY <2>1 DEF Settled, DurationIn
  <2> QED  BY <1>1, <2>1, <2>2, VectorBounds DEF Timing, AllSchedules
<1>3. ASSUME NEW b \in Ids, s[b] <= T(b).start
      PROVE  s[b] + dur[b] <= T(b).finish
  BY <1>2, <1>3
<1>4. ASSUME NEW b \in Ids, \A t \in Incoming(b) : t.from \in G
      PROVE  b \in G
  <2>1. CASE s[b] = ActivityOf(itinerary, b).release
    <3>1. T(b).start >= ActivityOf(itinerary, b).release
      BY <1>2 DEF Settled
    <3> QED  BY <2>1, <3>1, <1>2
  <2>2. CASE \E t \in Range(itinerary.transfers) :
                t.to = b /\ s[b] = s[t.from] + dur[t.from] + t.min
    <3>1. PICK t \in Range(itinerary.transfers) :
                t.to = b /\ s[b] = s[t.from] + dur[t.from] + t.min
      BY <2>2
    <3>2. t \in Incoming(b) /\ t.from \in Ids /\ t.min \in Nat
      BY <1>1, <3>1 DEF Incoming, Typed, WellFormed, Ids
    <3>3. T(b).start >= T(t.from).finish + t.min
      BY <1>2, <3>2 DEF Settled, Bound
    <3>4. s[t.from] + dur[t.from] <= T(t.from).finish
      BY <1>3, <1>4, <3>2
    <3>5. /\ s[b] \in Int /\ s[t.from] \in Int /\ dur[t.from] \in Nat
          /\ T(t.from).finish \in Nat /\ T(b).start \in Nat
      BY <1>2, <3>2
    <3> HIDE DEF T
    <3>6. s[b] <= T(b).start
      BY <3>1, <3>2, <3>3, <3>4, <3>5
    <3> QED  BY <3>6
  <2> QED  BY <2>1, <2>2 DEF IsEarliest, Ids
<1>5. a \in G
  <2> HIDE DEF G
  <2> QED  BY <1>1, <1>4, AlongTheOrder
<1> QED  BY <1>3, <1>5

(* When the report is made both passes cover every activity.               *)
LEMMA ReportedPasses ==
  ASSUME IInv, Reported
  PROVE  \A s \in Scenarios : DOMAIN timings[s] = Ids
<1>1. Typed
  BY DEF IInv
<1>2. scenario = "worst" /\ k = Len(order) + 1 /\ Len(order) \in Nat
  BY <1>1 DEF Typed, Reported
<1>3. DOMAIN timings["worst"] = Ids
  <2>1. k - 1 = Len(order)  BY <1>2
  <2>2. DOMAIN timings["worst"] = {order[i] : i \in 1..(k - 1)}
    BY <1>1, <1>2 DEF Typed
  <2> QED  BY <1>1, <2>1, <2>2, FullOrder
<1> QED  BY <1>1, <1>2, <1>3 DEF Typed, Scenarios

(* The two passes enclose every schedule.                                  *)
THEOREM EnvelopeEncloses == Spec => []EnvelopeEnclosesEverySchedule
<1>1. IInv => EnvelopeEnclosesEverySchedule
  <2> SUFFICES ASSUME IInv, Reported,
                      NEW dur \in DurationVectors(itinerary), NEW s \in Schedules,
                      IsEarliest(itinerary, dur, s), NEW a \in Ids
               PROVE  /\ timings["best"][a].start <= s[a]
                      /\ s[a] <= timings["worst"][a].start
                      /\ timings["best"][a].finish <= s[a] + dur[a]
                      /\ s[a] + dur[a] <= timings["worst"][a].finish
    BY DEF EnvelopeEnclosesEverySchedule
  <2>1. s \in AllSchedules
    BY TimesAssumption DEF Schedules, AllSchedules
  <2>2. DOMAIN timings["best"] = Ids /\ DOMAIN timings["worst"] = Ids
    BY ReportedPasses DEF Scenarios
  <2>3. RespectsPrecedence(itinerary, dur, s)
    BY DEF IsEarliest
  <2> QED  BY <2>1, <2>2, <2>3, BestIsBelow, WorstIsAbove
<1> QED  BY <1>1, InvariantHolds, PTL

-----------------------------------------------------------------------------
(* The statuses.                                                           *)

(* The vectors of least and of greatest durations are duration vectors.    *)
LEMMA ExtremeVectors ==
  ASSUME Typed
  PROVE  /\ MinDurations(itinerary) \in DurationVectors(itinerary)
         /\ MaxDurations(itinerary) \in DurationVectors(itinerary)
<1> DEFINE x(a) == ActivityOf(itinerary, a)
           longest == {x(a).max : a \in Ids}
           Values == UNION {0..n : n \in longest}
<1>1. ASSUME NEW a \in Ids
      PROVE  /\ x(a).min \in x(a).min..x(a).max /\ x(a).max \in x(a).min..x(a).max
             /\ x(a).min \in 0..x(a).max /\ x(a).max \in 0..x(a).max
  <2>1. x(a).min \in Nat /\ x(a).max \in Nat /\ x(a).min <= x(a).max
    BY TheActivity DEF Typed, Ids, TimedActivity
  <2> QED  BY <2>1
<1>2. \A a \in Ids : x(a).min \in Values /\ x(a).max \in Values
  BY <1>1
<1> HIDE DEF x
<1>3. DurationVectors(itinerary) =
        {dur \in [Ids -> Values] : \A a \in Ids : dur[a] \in x(a).min..x(a).max}
  BY DEF DurationVectors, Ids, x
<1>4. /\ MinDurations(itinerary) = [a \in Ids |-> x(a).min]
      /\ MaxDurations(itinerary) = [a \in Ids |-> x(a).max]
  BY DEF MinDurations, MaxDurations, Ids, x
<1> HIDE DEF Values
<1>5. [a \in Ids |-> x(a).min] \in [Ids -> Values] /\ [a \in Ids |-> x(a).max] \in [Ids -> Values]
  BY <1>2
<1> QED  BY <1>1, <1>3, <1>4, <1>5

(* The starts of the worst case are the earliest-start schedule of the     *)
(* greatest durations.                                                     *)
LEMMA WorstIsAttained ==
  ASSUME IInv, DOMAIN timings["worst"] = Ids
  PROVE  LET s == [a \in Ids |-> timings["worst"][a].start]
         IN /\ s \in AllSchedules
            /\ IsEarliest(itinerary, MaxDurations(itinerary), s)
            /\ \A a \in Ids : s[a] + MaxDurations(itinerary)[a] = timings["worst"][a].finish
<1> DEFINE T(a) == timings["worst"][a]
           s == [a \in Ids |-> T(a).start]
           dur == MaxDurations(itinerary)
<1>1. Typed /\ Passes
  BY DEF IInv
<1>2. ASSUME NEW a \in Ids
      PROVE  /\ T(a).start \in Nat /\ Settled("worst", a)
             /\ dur[a] = ActivityOf(itinerary, a).max
             /\ T(a).finish = T(a).start + dur[a]
             /\ s[a] = T(a).start
  <2>1. T(a) \in Timing /\ Settled("worst", a)
    BY <1>1 DEF Typed, Passes, Scenarios
  <2>2. dur[a] = ActivityOf(itinerary, a).max
    BY DEF MaxDurations, Ids
  <2>3. T(a).finish = T(a).start + dur[a]
    BY <2>1, <2>2 DEF Settled, DurationIn
  <2> QED  BY <2>1, <2>2, <2>3 DEF Timing
<1>3. s \in AllSchedules
  BY <1>2 DEF AllSchedules
<1> HIDE DEF T, s, dur
<1>4. ASSUME NEW t \in Range(itinerary.transfers)
      PROVE  /\ t \in Incoming(t.to) /\ t.to \in Ids /\ t.from \in Ids
             /\ Bound("worst", t) = s[t.from] + dur[t.from] + t.min
  <2>1. t \in Incoming(t.to) /\ t.to \in Ids /\ t.from \in Ids
    BY <1>1 DEF Incoming, Typed, WellFormed, Ids
  <2>2. Bound("worst", t) = T(t.from).finish + t.min
    BY DEF Bound, T
  <2> QED  BY <2>1, <2>2, <1>2
<1>5. ASSUME NEW a \in Ids PROVE s[a] >= ActivityOf(itinerary, a).release
  BY <1>2 DEF Settled, T
<1>6. ASSUME NEW t \in Range(itinerary.transfers)
      PROVE  s[t.to] >= s[t.from] + dur[t.from] + t.min
  BY <1>2, <1>4 DEF Settled, T
<1>7. ASSUME NEW a \in Ids
      PROVE  \/ s[a] = ActivityOf(itinerary, a).release
             \/ \E t \in Range(itinerary.transfers) :
                   t.to = a /\ s[a] = s[t.from] + dur[t.from] + t.min
  <2>1. \/ s[a] = ActivityOf(itinerary, a).release
        \/ \E t \in Incoming(a) : s[a] = Bound("worst", t)
    BY <1>2 DEF Settled, T
  <2>2. \A t \in Incoming(a) : t \in Range(itinerary.transfers) /\ t.to = a
    BY DEF Incoming
  <2> QED  BY <2>1, <2>2, <1>4
<1>8. IsEarliest(itinerary, dur, s)
  BY <1>5, <1>6, <1>7 DEF IsEarliest, RespectsPrecedence, Ids
<1>9. \A a \in Ids : s[a] + dur[a] = T(a).finish
  BY <1>2
<1> QED  BY <1>3, <1>8, <1>9 DEF s, dur, T

(* An activity is robust exactly when it meets its deadline whatever       *)
(* durations come true, and the report exactly when every activity is;     *)
(* the schedules range over all starting times.                            *)
THEOREM RobustMeaning ==
  ASSUME Times = Int
  PROVE  Spec => []RobustMeansEveryVector
<1>1. IInv => RobustMeansEveryVector
  <2> SUFFICES ASSUME IInv, Reported
               PROVE  /\ \A a \in Ids :
                            ActivityRobust(a) <=>
                              \A dur \in DurationVectors(itinerary) : \A s \in Schedules :
                                IsEarliest(itinerary, dur, s) =>
                                  s[a] + dur[a] <= ActivityOf(itinerary, a).deadline
                      /\ ReportRobust <=> \A a \in Ids : ActivityRobust(a)
    BY DEF RobustMeansEveryVector
  <2>1. Typed /\ Passes /\ \A s \in Scenarios : DOMAIN timings[s] = Ids
    BY ReportedPasses DEF IInv
  <2>2. Schedules = AllSchedules
    BY DEF Schedules, AllSchedules
  <2>3. DOMAIN timings["worst"] = Ids /\ "worst" \in Scenarios
    BY <2>1 DEF Scenarios
  <2>4. ASSUME NEW a \in Ids
        PROVE  /\ timings["worst"][a].finish \in Nat
               /\ ActivityOf(itinerary, a).deadline \in Nat
               /\ timings["worst"][a].slack =
                     ActivityOf(itinerary, a).deadline - timings["worst"][a].finish
    <3>1. timings["worst"][a] \in Timing /\ Settled("worst", a)
      BY <2>1, <2>3 DEF Typed, Passes
    <3>2. ActivityOf(itinerary, a) \in TimedActivity
      BY <2>1, TheActivity DEF Typed, Ids
    <3> QED  BY <3>1, <3>2 DEF Settled, Timing, TimedActivity
  <2>5. ASSUME NEW a \in Ids, ActivityRobust(a),
               NEW dur \in DurationVectors(itinerary), NEW s \in Schedules,
               IsEarliest(itinerary, dur, s)
        PROVE  s[a] + dur[a] <= ActivityOf(itinerary, a).deadline
    <3>1. s[a] + dur[a] <= timings["worst"][a].finish
      BY <2>2, <2>3, <2>5, WorstIsAbove
    <3>2. timings["worst"][a].finish <= ActivityOf(itinerary, a).deadline
      BY <2>4, <2>5 DEF ActivityRobust
    <3>3. s[a] \in Int /\ dur[a] \in Nat
      BY <2>1, <2>2, VectorBounds DEF AllSchedules
    <3> QED  BY <2>4, <3>1, <3>2, <3>3
  <2>6. ASSUME NEW a \in Ids,
               \A dur \in DurationVectors(itinerary) : \A s \in Schedules :
                   IsEarliest(itinerary, dur, s) =>
                       s[a] + dur[a] <= ActivityOf(itinerary, a).deadline
        PROVE  ActivityRobust(a)
    <3>1. PICK s \in AllSchedules :
             /\ IsEarliest(itinerary, MaxDurations(itinerary), s)
             /\ \A b \in Ids : s[b] + MaxDurations(itinerary)[b] = timings["worst"][b].finish
      BY <2>3, WorstIsAttained
    <3>2. MaxDurations(itinerary) \in DurationVectors(itinerary)
      BY <2>1, ExtremeVectors
    <3>3. timings["worst"][a].finish <= ActivityOf(itinerary, a).deadline
      BY <2>2, <2>6, <3>1, <3>2
    <3> QED  BY <2>4, <3>3 DEF ActivityRobust
  <2>7. ReportRobust <=> \A a \in Ids : ActivityRobust(a)
    <3>1. summary["worst"].slack = Least(SlacksOf("worst"))
      BY <2>1, <2>3 DEF Passes, Reported
    <3>2. /\ Least(SlacksOf("worst")) \in Int
          /\ \A a \in Ids : Least(SlacksOf("worst")) <= timings["worst"][a].slack
          /\ \E a \in Ids : Least(SlacksOf("worst")) = timings["worst"][a].slack
      BY <2>1, <2>3, CriticalExists
    <3>3. \A a \in Ids : timings["worst"][a].slack \in Int
      BY <2>4
    <3> QED  BY <3>1, <3>2, <3>3 DEF ReportRobust, ActivityRobust
  <2> QED  BY <2>5, <2>6, <2>7
<1> QED  BY <1>1, InvariantHolds, PTL

-----------------------------------------------------------------------------
(* The best case.                                                          *)

(* The itinerary in hand stays one that can be scheduled.                  *)
Schedulable == IsSchedulable(itinerary, MinDurations(itinerary))

LEMMA SchedulableHolds == Spec => []Schedulable
<1>1. Init => Schedulable
  <2> SUFFICES ASSUME Init PROVE Schedulable  OBVIOUS
  <2> DEFINE late == ~IsSchedulable(itinerary, MinDurations(itinerary))
  <2>1. Blame(late, "INFEASIBLE_DEADLINE") = {}
    BY NeitherFault DEF Init, Objections
  <2>2. ~late
    BY <2>1 DEF Blame
  <2> QED  BY <2>2 DEF Schedulable
<1>2. Schedulable /\ [Next]_vars => Schedulable'
  <2> SUFFICES ASSUME Schedulable, [Next]_vars PROVE Schedulable'  OBVIOUS
  <2>1. UNCHANGED itinerary
    BY DEF Next, vars, StartActivity, RelaxTransfer, FinishActivity, Summarise,
           FollowWitness, EndWalk
  <2> QED  BY <2>1 DEF Schedulable
<1> QED  BY <1>1, <1>2, PTL DEF Spec

(* The best case is below the schedule the itinerary was accepted for, so  *)
(* it meets every deadline that schedule meets.                            *)
THEOREM BestCaseMeets == Spec => []BestCaseMeetsDeadlines
<1>1. IInv /\ Schedulable => BestCaseMeetsDeadlines
  <2> SUFFICES ASSUME IInv, Schedulable, Reported
               PROVE  summary["best"].slack >= 0
    BY DEF BestCaseMeetsDeadlines
  <2> DEFINE T(a) == timings["best"][a]
             dur == MinDurations(itinerary)
  <2>1. /\ Typed /\ Passes /\ "best" \in Scenarios /\ "worst" \in Scenarios
        /\ DOMAIN timings["best"] = Ids
    BY ReportedPasses DEF IInv, Scenarios
  <2>2. PICK s \in [Ids -> 0..itinerary.horizon] :
           RespectsPrecedence(itinerary, dur, s) /\ MeetsDeadlines(itinerary, dur, s)
    BY DEF Schedulable, IsSchedulable, Ids
  <2>3. s \in AllSchedules
    BY <2>2 DEF AllSchedules
  <2>4. dur \in DurationVectors(itinerary)
    BY <2>1, ExtremeVectors
  <2>5. /\ summary["best"].slack = Least(SlacksOf("best"))
        /\ \E a \in Ids : Least(SlacksOf("best")) = T(a).slack
    <3>1. \E a \in Ids : Least(SlacksOf("best")) = T(a).slack
      BY <2>1, CriticalExists
    <3>2. summary["best"].slack = Least(SlacksOf("best"))
      BY <2>1 DEF Passes, Reported
    <3> QED  BY <3>1, <3>2
  <2>6. PICK a \in Ids : summary["best"].slack = T(a).slack
    BY <2>5
  <2>7. /\ T(a).finish \in Nat
        /\ T(a).slack = ActivityOf(itinerary, a).deadline - T(a).finish
    BY <2>1 DEF Typed, Passes, Timing, Settled
  <2>8. T(a).finish <= s[a] + dur[a]
    BY <2>1, <2>2, <2>3, <2>4, BestIsBelow
  <2>9. /\ s[a] + dur[a] <= ActivityOf(itinerary, a).deadline
        /\ s[a] \in Int /\ dur[a] \in Nat /\ ActivityOf(itinerary, a).deadline \in Nat
    <3>1. s[a] + dur[a] <= ActivityOf(itinerary, a).deadline
      BY <2>2 DEF MeetsDeadlines, Ids
    <3>2. dur[a] \in Nat /\ ActivityOf(itinerary, a).deadline \in Nat
      BY <2>1, <2>4, VectorBounds
    <3> QED  BY <3>1, <3>2, <2>3 DEF AllSchedules
  <2> HIDE DEF T, dur
  <2> QED  BY <2>6, <2>7, <2>8, <2>9
<1> QED  BY <1>1, InvariantHolds, SchedulableHolds, PTL


-----------------------------------------------------------------------------
(* The witness chain.                                                      *)

(* The witness of a says why a starts when it does: because a transfer     *)
(* from the witness lets it, or for no one's sake at its release.          *)
Explains(s, a) ==
    LET T == timings[s][a] IN
    \/ T.witness = Nobody /\ T.start = ActivityOf(itinerary, a).release
    \/ \E t \in Incoming(a) : /\ t.from = T.witness /\ t.from \in DOMAIN timings[s]
                              /\ T.start = Bound(s, t)

Witnesses ==
    /\ \A s \in Scenarios : \A a \in DOMAIN timings[s] : Explains(s, a)
    /\ pc = "relax" => /\ DOMAIN candidates = {t.from : t \in Relaxed}
                       /\ \A t \in Relaxed : candidates[t.from] = Bound(scenario, t)

LEMMA WitnessesInit == Init => Witnesses
<1> SUFFICES ASSUME Init PROVE Witnesses  OBVIOUS
<1>1. \A s \in Scenarios : DOMAIN timings[s] = {}
  BY DEF Init
<1> QED  BY <1>1 DEF Init, Witnesses

(* What explains an activity stays while the timings stay.                 *)
LEMMA ExplanationStays ==
  ASSUME UNCHANGED <<itinerary, timings>>
  PROVE  /\ \A s, a : Explains(s, a)' <=> Explains(s, a)
         /\ \A s, t : Bound(s, t)' = Bound(s, t)
         /\ (\A s \in Scenarios : \A a \in DOMAIN timings[s] : Explains(s, a)) =>
                (\A s \in Scenarios : \A a \in DOMAIN timings[s] : Explains(s, a))'
  BY DEF Explains, Incoming, Bound

LEMMA WitnessesStart == Typed /\ Witnesses /\ StartActivity => Witnesses'
<1> SUFFICES ASSUME Typed, Witnesses, StartActivity PROVE Witnesses'  OBVIOUS
<1>1. /\ UNCHANGED <<itinerary, order, scenario, k, timings>>
      /\ candidates' = << >> /\ todo' = Incoming(order[k])
  BY DEF StartActivity
<1>2. Relaxed' = {} /\ DOMAIN candidates' = {}
  BY <1>1 DEF Relaxed, Incoming
<1> QED  BY <1>1, <1>2, ExplanationStays DEF Witnesses

LEMMA WitnessesRelax == Typed /\ Witnesses /\ RelaxTransfer => Witnesses'
<1> SUFFICES ASSUME Typed, Witnesses, RelaxTransfer PROVE Witnesses'  OBVIOUS
<1>1. /\ pc = "relax" /\ k <= Len(order) /\ todo \subseteq Incoming(order[k])
      /\ UNCHANGED <<itinerary, order, pc, scenario, k, timings>>
  BY DEF RelaxTransfer, Typed
<1>2. PICK t \in todo : /\ todo' = todo \ {t}
                        /\ candidates' = Put(candidates, t.from, Bound(scenario, t))
  BY DEF RelaxTransfer, Candidate, Bound
<1>3. Relaxed' = Relaxed \cup {t} /\ t \notin Relaxed /\ t \in Incoming(order[k])
  BY <1>1, <1>2 DEF Relaxed, Incoming
<1>4. \A u \in Relaxed : u.from # t.from
  BY <1>3 DEF Relaxed, Incoming, Typed, WellFormed
<1>5. DOMAIN candidates' = {u.from : u \in Relaxed'}
  BY <1>1, <1>2, <1>3 DEF Witnesses, Put
<1>6. \A u \in Relaxed' : candidates'[u.from] = Bound(scenario, u)
  BY <1>1, <1>2, <1>3, <1>4 DEF Witnesses, Put
<1>7. \A u \in Relaxed' : candidates'[u.from] = Bound(scenario, u)'
  BY <1>1, <1>6, ExplanationStays
<1> QED  BY <1>1, <1>5, <1>7, ExplanationStays DEF Witnesses

(* The witness chosen is a predecessor whose bound is the start; where     *)
(* there is none the start is the release.                                 *)
LEMMA ChosenWitness ==
  ASSUME Typed, Passes, Witnesses, pc = "relax", todo = {}
  PROVE  LET a == order[k]
             w == TimingOf(a).witness
         IN \/ w = Nobody /\ start = ActivityOf(itinerary, a).release
            \/ \E t \in Incoming(a) : t.from = w /\ start = Bound(scenario, t)
<1>1. PICK a : a = order[k]  OBVIOUS
<1>2. Relaxed = Incoming(a)
  BY <1>1 DEF Relaxed
<1>3. TimingOf(a).witness = Witness(a, BindingPredecessors)
  BY DEF TimingOf
<1>4. CASE BindingPredecessors = {}
  <2>1. \A t \in Incoming(a) : start # Bound(scenario, t)
    BY <1>2, <1>4 DEF Witnesses, BindingPredecessors
  <2>2. start = ActivityOf(itinerary, a).release
    BY <1>1, <1>2, <2>1 DEF Passes
  <2> QED  BY <1>1, <1>3, <1>4, <2>2 DEF Witness
<1>5. CASE BindingPredecessors # {}
  <2>1. BindingPredecessors \subseteq Ids
    BY DEF BindingPredecessors, Typed
  <2>2. IsFiniteSet(Ids) /\ Ids \subseteq Nat
    BY FewActivities DEF Typed, Ids
  <2>3. IsFiniteSet(BindingPredecessors) /\ BindingPredecessors \in SUBSET Int
    <3>1. IsFiniteSet(BindingPredecessors)  BY <2>1, <2>2, FS_Subset
    <3> QED  BY <3>1, <2>1, <2>2
  <2>4. Least(BindingPredecessors) \in BindingPredecessors
    BY <1>5, <2>3, LeastIsLeast
  <2>5. PICK p : p = Least(BindingPredecessors)  OBVIOUS
  <2>6. p \in DOMAIN candidates /\ candidates[p] = start
    BY <2>4, <2>5 DEF BindingPredecessors
  <2>7. PICK t \in Incoming(a) : t.from = p
    BY <1>2, <2>6 DEF Witnesses
  <2>8. start = Bound(scenario, t)
    BY <1>2, <2>6, <2>7 DEF Witnesses
  <2> QED  BY <1>1, <1>3, <1>5, <2>5, <2>7, <2>8 DEF Witness
<1> QED  BY <1>4, <1>5

(* An activity has one place in the order.                                 *)
LEMMA EachOnce ==
  ASSUME Typed
  PROVE  \A l, m \in 1..Len(order) : order[l] = order[m] => l = m
<1>1. DOMAIN order = 1..Len(order) /\ Len(order) \in Nat
  BY DEF Typed
<1>2. order \in [1..Len(order) -> Ids] /\ Len(order) = Cardinality(Ids) /\ Range(order) = Ids
  BY DEF Typed, IsTopological
<1>3. IsFiniteSet(1..Len(order)) /\ Cardinality(1..Len(order)) = Len(order)
  <2>1. PICK n \in Nat : n = Len(order)
    BY <1>1
  <2>2. 1 \in Int /\ n \in Int
    OBVIOUS
  <2>3. IsFiniteSet(1..n) /\ Cardinality(1..n) = IF 1 > n THEN 0 ELSE n - 1 + 1
    BY ONLY <2>2, FS_Interval
  <2> QED  BY <2>1, <2>3
<1>4. order \in Surjection(1..Len(order), Ids)
  BY <1>1, <1>2 DEF Surjection, Range
<1>5. order \in Injection(1..Len(order), Ids)
  BY <1>2, <1>3, <1>4, FS_Surjection
<1> QED  BY <1>5 DEF Injection, IsInjective

(* The activity in hand has no timing yet.                                 *)
LEMMA NotYetTimed ==
  ASSUME Typed, pc = "relax"
  PROVE  order[k] \notin DOMAIN timings[scenario]
<1>1. k \in 1..Len(order) /\ Len(order) \in Nat
  BY DEF Typed
<1>2. SUFFICES ASSUME NEW i \in 1..(k - 1), order[i] = order[k] PROVE FALSE
  BY DEF Typed
<1>3. i \in 1..Len(order) /\ i # k
  BY <1>1
<1> QED  BY <1>1, <1>2, <1>3, EachOnce

LEMMA WitnessesFinish == Typed /\ Passes /\ Witnesses /\ FinishActivity => Witnesses'
<1> SUFFICES ASSUME Typed, Passes, Witnesses, FinishActivity PROVE Witnesses'  OBVIOUS
<1>1. PICK a, sc : a = order[k] /\ sc = scenario  OBVIOUS
<1>2. PICK T : T = TimingOf(a)  OBVIOUS
<1>3. /\ pc = "relax" /\ pc' = "start" /\ todo = {} /\ k <= Len(order)
      /\ timings' = [timings EXCEPT ![sc] = Put(@, a, T)]
      /\ UNCHANGED <<itinerary, order, scenario>>
  BY <1>1, <1>2 DEF FinishActivity, Typed
<1>4. sc \in Scenarios /\ DOMAIN timings = Scenarios /\ T.start = start
  BY <1>1, <1>2, <1>3, TimingTyped DEF Typed
<1>5. /\ timings'[sc] = Put(timings[sc], a, T)
      /\ \A s \in Scenarios : s # sc => timings'[s] = timings[s]
  BY <1>3, <1>4
<1>6. a \notin DOMAIN timings[sc]
  BY <1>1, <1>3, NotYetTimed
<1>7. /\ DOMAIN timings'[sc] = DOMAIN timings[sc] \cup {a}
      /\ timings'[sc][a] = T
      /\ \A b \in DOMAIN timings[sc] : timings'[sc][b] = timings[sc][b]
  BY <1>5, <1>6 DEF Put
<1>8. \A u : u.from \in DOMAIN timings[sc] => Bound(sc, u)' = Bound(sc, u)
  BY <1>7 DEF Bound
<1>9. \A b : Incoming(b)' = Incoming(b) /\ ActivityOf(itinerary, b)' = ActivityOf(itinerary, b)
  BY <1>3 DEF Incoming
<1>10. Explains(sc, a)'
  <2>1. \/ T.witness = Nobody /\ T.start = ActivityOf(itinerary, a).release
        \/ \E t \in Incoming(a) : t.from = T.witness /\ T.start = Bound(sc, t)
    BY <1>1, <1>2, <1>3, <1>4, ChosenWitness
  <2>2. \A u \in Incoming(a) : u.from \in DOMAIN timings[sc]
    BY <1>1, <1>3, PredecessorsTimed
  <2> QED  BY <2>1, <2>2, <1>7, <1>8, <1>9 DEF Explains
<1>11. ASSUME NEW b \in DOMAIN timings[sc]
       PROVE  Explains(sc, b)'
  <2>1. Explains(sc, b)
    BY <1>4 DEF Witnesses
  <2> QED  BY <2>1, <1>7, <1>8, <1>9 DEF Explains
<1>12. ASSUME NEW s \in Scenarios, s # sc, NEW b \in DOMAIN timings[s]
       PROVE  Explains(s, b)'
  <2>1. Explains(s, b) /\ timings'[s] = timings[s]
    BY <1>5, <1>12 DEF Witnesses
  <2>2. \A t : Bound(s, t)' = Bound(s, t)
    BY <2>1 DEF Bound
  <2> QED  BY <2>1, <2>2, <1>9 DEF Explains
<1>13. ASSUME NEW s \in Scenarios, NEW b \in DOMAIN timings'[s]
       PROVE  Explains(s, b)'
  <2>1. CASE s = sc  BY <2>1, <1>7, <1>10, <1>11, <1>13
  <2>2. CASE s # sc  BY <2>2, <1>5, <1>12, <1>13
  <2> QED  BY <2>1, <2>2
<1> QED  BY <1>3, <1>13 DEF Witnesses

LEMMA WitnessesStep == IInv /\ Witnesses /\ [Next]_vars => Witnesses'
<1>1. ASSUME IInv, Witnesses, Summarise \/ FollowWitness \/ EndWalk PROVE Witnesses'
  <2>1. pc' # "relax" /\ UNCHANGED <<itinerary, timings>>
    BY <1>1 DEF Summarise, FollowWitness, EndWalk
  <2> QED  BY <1>1, <2>1, ExplanationStays DEF Witnesses
<1>2. ASSUME IInv, Witnesses, UNCHANGED vars PROVE Witnesses'
  <2>1. UNCHANGED <<itinerary, order, pc, scenario, k, todo, candidates, timings>>
    BY <1>2 DEF vars, loop
  <2>2. Relaxed' = Relaxed
    BY <2>1 DEF Relaxed, Incoming
  <2> QED  BY <1>2, <2>1, <2>2, ExplanationStays DEF Witnesses
<1> QED  BY <1>1, <1>2, WitnessesStart, WitnessesRelax, WitnessesFinish DEF IInv, Next

-----------------------------------------------------------------------------
(* The walk along the witnesses goes to earlier places in the order, so it *)
(* meets no activity twice.                                                *)
Before(a, b) == \E l, m \in 1..Len(order) : l < m /\ order[l] = a /\ order[m] = b

LEMMA BeforeOrders ==
  ASSUME Typed
  PROVE  /\ \A a : ~Before(a, a)
         /\ \A a, b, c : Before(a, b) /\ Before(b, c) => Before(a, c)
         /\ \A a \in Ids : \A t \in Incoming(a) : Before(t.from, a)
<1>1. \A l, m \in 1..Len(order) : order[l] = order[m] => l = m
  BY EachOnce
<1>2. \A a : ~Before(a, a)
  BY <1>1 DEF Before
<1>3. ASSUME NEW a, NEW b, NEW c, Before(a, b), Before(b, c)
      PROVE  Before(a, c)
  <2>1. PICK l, m \in 1..Len(order) : l < m /\ order[l] = a /\ order[m] = b
    BY <1>3 DEF Before
  <2>2. PICK u, v \in 1..Len(order) : u < v /\ order[u] = b /\ order[v] = c
    BY <1>3 DEF Before
  <2>3. m = u
    BY <1>1, <2>1, <2>2
  <2>4. l < v
    BY <2>1, <2>2, <2>3
  <2> QED  BY <2>1, <2>2, <2>4 DEF Before
<1>4. ASSUME NEW a \in Ids, NEW t \in Incoming(a)
      PROVE  Before(t.from, a)
  <2>1. PICK i \in 1..Len(order) : order[i] = a
    BY FullOrder
  <2>2. PICK l \in 1..Len(order) : l < i /\ order[l] = t.from
    BY <2>1, TransferForward
  <2> QED  BY <2>1, <2>2 DEF Before
<1> QED  BY <1>2, <1>3, <1>4

(* What the walk of a scenario knows: chain follows the witnesses from the *)
(* tightest deadline to the activity before cursor.                        *)
Walking ==
    /\ chain = << >> => cursor = Least(CriticalOf(scenario))
    /\ chain # << >> => /\ chain[1] = Least(CriticalOf(scenario))
                        /\ cursor = timings[scenario][chain[Len(chain)]].witness
    /\ \A i \in 1..(Len(chain) - 1) : chain[i + 1] = timings[scenario][chain[i]].witness
    /\ cursor \in Ids => \A i \in 1..Len(chain) : Before(cursor, chain[i])

(* A chain w explains the tightest deadline under the timings T.           *)
Tells(w, T) ==
    /\ Len(w) >= 1
    /\ T[w[1]].start = ActivityOf(itinerary, w[1]).release
    /\ \A i \in 2..Len(w) :
          /\ <<w[i - 1], w[i]>> \in EdgesOf(itinerary)
          /\ T[w[i]].start = T[w[i - 1]].finish + GapOf(w[i - 1], w[i])
    /\ \A a \in Ids : \/ T[a].slack > T[w[Len(w)]].slack
                      \/ T[a].slack = T[w[Len(w)]].slack /\ w[Len(w)] <= a

ToldOf(s) == Tells(summary[s].chain, timings[s])

Told ==
    /\ pc = "walk" => Walking
    /\ scenario = "worst" => ToldOf("best")
    /\ outcome = "REPORTED" => ToldOf("worst")
    /\ outcome # "RUNTIME_ERROR"

CInv == IInv /\ Witnesses /\ Told

(* A scenario whose pass is over has a timing for every activity.          *)
LEMMA PassIsOver ==
  ASSUME Typed, pc \in {"walk", "done"} \/ k > Len(order)
  PROVE  DOMAIN timings[scenario] = Ids
<1>1. k = Len(order) + 1 /\ Len(order) \in Nat
  BY DEF Typed
<1> QED  BY <1>1, FullOrder DEF Typed

(* A witness comes before what it explains.                                *)
LEMMA WitnessBefore ==
  ASSUME Typed, Witnesses, NEW s \in Scenarios, DOMAIN timings[s] = Ids, NEW a \in Ids
  PROVE  \/ /\ timings[s][a].witness = Nobody
            /\ timings[s][a].start = ActivityOf(itinerary, a).release
         \/ /\ timings[s][a].witness \in Ids
            /\ Before(timings[s][a].witness, a)
            /\ <<timings[s][a].witness, a>> \in EdgesOf(itinerary)
            /\ timings[s][a].start =
                  timings[s][timings[s][a].witness].finish + GapOf(timings[s][a].witness, a)
<1> DEFINE w == timings[s][a].witness
<1>1. Explains(s, a)
  BY DEF Witnesses
<1>2. CASE \E t \in Incoming(a) : /\ t.from = w /\ t.from \in DOMAIN timings[s]
                                  /\ timings[s][a].start = Bound(s, t)
  <2>1. PICK t \in Incoming(a) : t.from = w /\ w \in Ids /\ timings[s][a].start = Bound(s, t)
    BY <1>2
  <2>2. Before(w, a)
    BY <2>1, BeforeOrders
  <2>3. t \in Range(itinerary.transfers) /\ t.from = w /\ t.to = a
    BY <2>1 DEF Incoming
  <2>4. <<w, a>> \in EdgesOf(itinerary)
    BY <2>3 DEF EdgesOf
  <2>5. \A u \in Range(itinerary.transfers) : u.from = w /\ u.to = a => u = t
    BY <2>3 DEF Typed, WellFormed
  <2>6. GapOf(w, a) = t.min
    BY <2>3, <2>5 DEF GapOf
  <2>7. timings[s][a].start = timings[s][w].finish + GapOf(w, a)
    BY <2>1, <2>6 DEF Bound
  <2> QED  BY <2>1, <2>2, <2>4, <2>7
<1> QED  BY <1>1, <1>2 DEF Explains

(* The activity the walk starts from misses its deadline by most, or has   *)
(* the least to spare; of those it is the first.                           *)
LEMMA Tightest ==
  ASSUME Typed, NEW s \in Scenarios, DOMAIN timings[s] = Ids
  PROVE  LET c == Least(CriticalOf(s))
         IN /\ c \in Ids
            /\ \A a \in Ids : \/ timings[s][a].slack > timings[s][c].slack
                              \/ timings[s][a].slack = timings[s][c].slack /\ c <= a
<1> DEFINE c == Least(CriticalOf(s))
           m == Least(SlacksOf(s))
<1>1. /\ m \in Int /\ c \in CriticalOf(s) /\ CriticalOf(s) \subseteq Ids
      /\ \A a \in Ids : m <= timings[s][a].slack
  BY CriticalExists
<1>2. \A a \in Ids : a \in CriticalOf(s) <=> timings[s][a].slack = m
  BY DEF CriticalOf
<1>3. \A y \in CriticalOf(s) : c <= y
  <2>1. IsFiniteSet(Ids) /\ Ids \subseteq Nat
    BY FewActivities DEF Typed, Ids
  <2>2. IsFiniteSet(CriticalOf(s)) /\ CriticalOf(s) \in SUBSET Int
    <3>1. IsFiniteSet(CriticalOf(s))  BY <1>1, <2>1, FS_Subset
    <3>2. Ids \subseteq Int  BY <2>1
    <3>3. CriticalOf(s) \subseteq Int  BY <3>2, <1>1
    <3> QED  BY <3>1, <3>3
  <2>3. CriticalOf(s) # {}
    BY <1>1
  <2> QED  BY <2>2, <2>3, LeastIsLeast
<1>4. \A a \in Ids : timings[s][a].slack \in Int
  BY DEF Typed, Timing
<1> HIDE DEF c, m
<1>5. c \in Ids /\ timings[s][c].slack = m
  BY <1>1, <1>2
<1>6. \A a \in Ids : \/ timings[s][a].slack > timings[s][c].slack
                     \/ timings[s][a].slack = timings[s][c].slack /\ c <= a
  BY <1>1, <1>2, <1>3, <1>4, <1>5
<1> QED  BY <1>5, <1>6 DEF c

(* What is told stays told while the timings and the summary stay.         *)
LEMMA TellingStays ==
  ASSUME NEW s, UNCHANGED itinerary, timings'[s] = timings[s], summary'[s] = summary[s]
  PROVE  ToldOf(s) => ToldOf(s)'
<1>1. PICK w, T : w = summary[s].chain /\ T = timings[s]  OBVIOUS
<1>2. Tells(w, T)' <=> Tells(w, T)
  BY DEF Tells, GapOf, Ids
<1> QED  BY <1>1, <1>2 DEF ToldOf

LEMMA ToldInit == Init => Told
  BY DEF Init, Told

LEMMA ToldInPass ==
  CInv /\ (StartActivity \/ RelaxTransfer \/ FinishActivity \/ Summarise \/ UNCHANGED vars)
    => Told'
<1>1. ASSUME CInv, StartActivity \/ RelaxTransfer PROVE Told'
  <2>1. /\ UNCHANGED <<itinerary, timings, summary, scenario, outcome>>
        /\ pc' # "walk"
    BY <1>1 DEF StartActivity, RelaxTransfer
  <2> QED  BY <1>1, <2>1, TellingStays DEF CInv, Told
<1>2. ASSUME CInv, FinishActivity PROVE Told'
  <2>1. /\ UNCHANGED <<itinerary, summary, scenario, outcome>>
        /\ pc' = "start" /\ outcome = "PENDING" /\ scenario \in Scenarios
        /\ timings' = [timings EXCEPT ![scenario] = Put(@, order[k], TimingOf(order[k]))]
    BY <1>2 DEF FinishActivity, CInv, IInv, Typed
  <2>2. scenario = "worst" => timings'["best"] = timings["best"]
    BY <2>1
  <2> QED  BY <1>2, <2>1, <2>2, TellingStays DEF CInv, Told
<1>3. ASSUME CInv, Summarise PROVE Told'
  <2>1. /\ UNCHANGED <<itinerary, timings, summary, scenario, outcome>>
        /\ cursor' = Least(CriticalOf(scenario)) /\ chain' = << >>
    BY <1>3 DEF Summarise
  <2>2. CriticalOf(scenario)' = CriticalOf(scenario)
    BY <2>1 DEF CriticalOf, SlacksOf
  <2>3. Walking'
    BY <2>1, <2>2 DEF Walking
  <2> QED  BY <1>3, <2>1, <2>3, TellingStays DEF CInv, Told
<1>4. ASSUME CInv, UNCHANGED vars PROVE Told'
  <2>1. UNCHANGED <<itinerary, order, timings, summary, scenario, outcome, pc, cursor, chain>>
    BY <1>4 DEF vars, walk
  <2>2. Walking' <=> Walking
    BY <2>1 DEF Walking, CriticalOf, SlacksOf, Before, Ids
  <2> QED  BY <1>4, <2>1, <2>2, TellingStays DEF CInv, Told
<1> QED  BY <1>1, <1>2, <1>3, <1>4

(* The guard against a cycle never fires.                                  *)
LEMMA ToldFollow == CInv /\ FollowWitness => Told'
<1> SUFFICES ASSUME CInv, FollowWitness PROVE Told'  OBVIOUS
<1>1. Typed /\ Witnesses /\ Told
  BY DEF CInv, IInv
<1>2. PICK sc, c : sc = scenario /\ c = cursor  OBVIOUS
<1>3. PICK seq : seq = chain  OBVIOUS
<1>4. /\ pc = "walk" /\ c \in Ids /\ Walking /\ sc \in Scenarios /\ seq \in Seq(Ids)
      /\ UNCHANGED <<itinerary, order, scenario, timings, summary>>
  BY <1>1, <1>2, <1>3 DEF FollowWitness, Typed, Told
<1>5. \A i \in 1..Len(seq) : Before(c, seq[i])
  BY <1>2, <1>3, <1>4 DEF Walking
<1>6. c \notin Range(seq)
  <2>1. DOMAIN seq = 1..Len(seq)
    BY <1>4
  <2> QED  BY <1>1, <1>5, <2>1, BeforeOrders DEF Range
<1>7. /\ chain' = Append(seq, c) /\ cursor' = timings[sc][c].witness
      /\ UNCHANGED <<pc, outcome>>
  BY <1>2, <1>3, <1>6 DEF FollowWitness
<1>8. DOMAIN timings[sc] = Ids
  BY <1>1, <1>2, <1>4, PassIsOver
<1>9. /\ Len(chain') = Len(seq) + 1 /\ chain'[Len(seq) + 1] = c /\ Len(seq) \in Nat
      /\ \A i \in 1..Len(seq) : chain'[i] = seq[i]
  BY <1>4, <1>7
<1>10. /\ \A a, b : Before(a, b)' <=> Before(a, b)
       /\ CriticalOf(scenario)' = CriticalOf(sc) /\ Ids' = Ids
  BY <1>2, <1>4 DEF Before, CriticalOf, SlacksOf, Ids
<1>11. chain'[1] = Least(CriticalOf(sc))
  <2>1. CASE seq = << >>
    BY <2>1, <1>2, <1>3, <1>4, <1>9 DEF Walking
  <2>2. CASE seq # << >>
    <3>1. 1 \in 1..Len(seq)
      BY <2>2, <1>4
    <3> QED  BY <3>1, <2>2, <1>2, <1>3, <1>4, <1>9 DEF Walking
  <2> QED  BY <2>1, <2>2
<1>12. \A i \in 1..(Len(chain') - 1) : chain'[i + 1] = timings[sc][chain'[i]].witness
  <2> SUFFICES ASSUME NEW i \in 1..Len(seq)
               PROVE  chain'[i + 1] = timings[sc][seq[i]].witness
    BY <1>9
  <2>1. CASE i = Len(seq)
    <3>1. seq # << >>
      BY <1>4
    <3> QED  BY <2>1, <3>1, <1>2, <1>3, <1>4, <1>9 DEF Walking
  <2>2. CASE i # Len(seq)
    <3>1. i \in 1..(Len(seq) - 1) /\ i + 1 \in 1..Len(seq)
      BY <2>2, <1>9
    <3> QED  BY <3>1, <1>2, <1>3, <1>4, <1>9 DEF Walking
  <2> QED  BY <2>1, <2>2
<1>13. ASSUME cursor' \in Ids, NEW i \in 1..Len(chain')
       PROVE  Before(cursor', chain'[i])
  <2>1. cursor' # Nobody
    <3>1. Ids \subseteq Nat
      BY <1>1, FewActivities DEF Typed, Ids
    <3> QED  BY <3>1, <1>13, NobodyAssumption
  <2>2. Before(cursor', c)
    BY <1>1, <1>4, <1>7, <1>8, <2>1, WitnessBefore
  <2>3. chain'[i] = c \/ Before(c, chain'[i])
    <3>1. i \in 1..Len(seq) \/ i = Len(seq) + 1
      BY <1>9
    <3> QED  BY <3>1, <1>5, <1>9
  <2> QED  BY <1>1, <2>2, <2>3, BeforeOrders
<1>14. Walking'
  <2>1. chain' # << >>
    BY <1>9
  <2>2. cursor' = timings'[scenario'][chain'[Len(chain')]].witness
    BY <1>2, <1>4, <1>7, <1>9
  <2>3. \A i \in 1..(Len(chain') - 1) : chain'[i + 1] = timings'[scenario'][chain'[i]].witness
    BY <1>2, <1>4, <1>12
  <2>4. (cursor \in Ids)' => \A i \in 1..Len(chain') : Before(cursor, chain[i])'
    BY <1>10, <1>13 DEF Before
  <2> QED  BY <2>1, <2>2, <2>3, <2>4, <1>10, <1>11 DEF Walking
<1> QED  BY <1>1, <1>4, <1>7, <1>14, TellingStays DEF Told

(* The chain that ends the walk, read backwards, is an explanation.        *)
LEMMA WalkTells ==
  ASSUME CInv, EndWalk
  PROVE  Tells([i \in 1..Len(chain) |-> chain[Len(chain) + 1 - i]], timings[scenario])
<1>1. Typed /\ Witnesses /\ Walking /\ pc = "walk" /\ cursor = Nobody
  BY DEF CInv, IInv, Told, EndWalk
<1>2. PICK seq, T : seq = chain /\ T = timings[scenario]  OBVIOUS
<1>3. PICK n : n = Len(seq)  OBVIOUS
<1>4. /\ seq \in Seq(Ids) /\ n \in Nat /\ scenario \in Scenarios
      /\ DOMAIN timings[scenario] = Ids /\ \A i \in 1..n : seq[i] \in Ids
  BY <1>1, <1>2, <1>3, PassIsOver DEF Typed
<1>5. PICK c : c = Least(CriticalOf(scenario))  OBVIOUS
<1>6. /\ c \in Ids
      /\ \A a \in Ids : T[a].slack > T[c].slack \/ (T[a].slack = T[c].slack /\ c <= a)
  <2>1. /\ c \in Ids
        /\ \A a \in Ids : \/ timings[scenario][a].slack > timings[scenario][c].slack
                          \/ timings[scenario][a].slack = timings[scenario][c].slack /\ c <= a
    BY <1>1, <1>4, <1>5, Tightest
  <2> QED  BY <2>1, <1>2, Zenon
<1>7. Nobody \notin Ids
  <2>1. Ids \subseteq Nat
    BY <1>1, FewActivities DEF Typed, Ids
  <2>2. \A a \in Ids : a \in Int
    BY <2>1
  <2> QED  BY <2>2, NobodyAssumption
<1>8. seq # << >> /\ n >= 1
  <2>1. seq # << >>
    BY <1>1, <1>2, <1>5, <1>6, <1>7 DEF Walking
  <2> QED  BY <2>1, <1>3, <1>4
<1>9. /\ seq[1] = c /\ T[seq[n]].witness = Nobody
      /\ \A i \in 1..(n - 1) : seq[i + 1] = T[seq[i]].witness
  BY <1>1, <1>2, <1>3, <1>5, <1>8 DEF Walking
<1>10. PICK w : w = [i \in 1..n |-> seq[n + 1 - i]]  OBVIOUS
<1>11. Len(w) = n /\ w[1] = seq[n] /\ w[n] = c
  BY <1>4, <1>8, <1>9, <1>10
<1>12. T[w[1]].start = ActivityOf(itinerary, w[1]).release
  <2>1. seq[n] \in Ids
    BY <1>4, <1>8
  <2> QED  BY <2>1, <1>1, <1>2, <1>4, <1>7, <1>9, <1>11, WitnessBefore
<1>13. ASSUME NEW i \in 2..n
       PROVE  /\ <<w[i - 1], w[i]>> \in EdgesOf(itinerary)
              /\ T[w[i]].start = T[w[i - 1]].finish + GapOf(w[i - 1], w[i])
  <2>1. PICK j \in 1..(n - 1) : j = n + 1 - i
    BY <1>4
  <2>2. w[i] = seq[j] /\ w[i - 1] = seq[j + 1]
    <3>1. i \in 1..n /\ i - 1 \in 1..n /\ n + 1 - (i - 1) = j + 1
      BY <1>4, <2>1
    <3> QED  BY <3>1, <1>10, <2>1
  <2>3. w[i - 1] = T[w[i]].witness /\ w[i] \in Ids /\ w[i - 1] \in Ids
    <3>1. j \in 1..n /\ j + 1 \in 1..n
      BY <1>4, <2>1
    <3> QED  BY <3>1, <1>4, <1>9, <2>2
  <2> QED  BY <2>3, <1>1, <1>2, <1>4, <1>7, WitnessBefore
<1>14. Tells(w, T)
  BY <1>6, <1>8, <1>11, <1>12, <1>13 DEF Tells
<1> QED  BY <1>2, <1>3, <1>10, <1>14

LEMMA ToldEnd == CInv /\ EndWalk => Told'
<1> SUFFICES ASSUME CInv, EndWalk PROVE Told'  OBVIOUS
<1>1. /\ Typed /\ Passes /\ Told
      /\ UNCHANGED <<itinerary, timings>> /\ pc' # "walk" /\ scenario' = "worst"
      /\ outcome = "PENDING" /\ outcome' # "RUNTIME_ERROR"
      /\ outcome' = "REPORTED" => scenario = "worst"
  BY DEF CInv, IInv, EndWalk, Typed
<1>2. PICK w, T, sc : /\ w = [i \in 1..Len(chain) |-> chain[Len(chain) + 1 - i]]
                      /\ sc = scenario /\ T = timings[sc]
  OBVIOUS
<1>3. Tells(w, T)
  BY <1>2, WalkTells
<1>4. Tells(w, T)'
  BY <1>1, <1>3 DEF Tells, GapOf, Ids
<1>5. /\ sc \in Scenarios /\ summary'[sc].chain = w
      /\ \A s \in Scenarios : s # sc => summary'[s] = summary[s]
  BY <1>1, <1>2 DEF EndWalk, Passes, Typed
<1>6. ToldOf(sc)'
  BY <1>1, <1>2, <1>4, <1>5 DEF ToldOf
<1>7. ToldOf("best")'
  <2>1. CASE sc = "best"  BY <2>1, <1>6
  <2>2. CASE sc = "worst"
    <3>1. ToldOf("best") /\ summary'["best"] = summary["best"]
      BY <2>2, <1>1, <1>2, <1>5 DEF Told, Scenarios
    <3> QED  BY <3>1, <1>1, TellingStays
  <2> QED  BY <2>1, <2>2, <1>5 DEF Scenarios
<1> QED  BY <1>1, <1>2, <1>6, <1>7 DEF Told

LEMMA ChainInvariant == Spec => []CInv
<1>1. Init => CInv
  BY TypedInit, PassesInit, WitnessesInit, ToldInit DEF CInv, IInv
<1>2. CInv /\ [Next]_vars => CInv'
  <2>1. CInv /\ [Next]_vars => IInv'
    BY TypedStep, PassesStart, PassesRelax, PassesFinish, PassesEnd, PassesRest
       DEF CInv, IInv, Next
  <2>2. CInv /\ [Next]_vars => Witnesses'
    BY WitnessesStep DEF CInv
  <2>3. CInv /\ [Next]_vars => Told'
    BY ToldInPass, ToldFollow, ToldEnd DEF Next
  <2> QED  BY <2>1, <2>2, <2>3 DEF CInv
<1> QED  BY <1>1, <1>2, PTL DEF Spec

(* The witness chain of either case explains the tightest deadline: it     *)
(* begins with an activity that starts at its release, each activity       *)
(* starts the moment the one before lets it, and it ends at the lexically  *)
(* first activity of least slack.                                          *)
THEOREM ChainExplains == Spec => []ChainExplainsTightestDeadline
<1>1. CInv => ChainExplainsTightestDeadline
  <2> SUFFICES ASSUME CInv, Reported, NEW sc \in Scenarios
               PROVE  Tells(summary[sc].chain, timings[sc])
    BY DEF ChainExplainsTightestDeadline, Tells
  <2>1. scenario = "worst" /\ ToldOf("best") /\ ToldOf("worst")
    BY DEF CInv, IInv, Typed, Told, Reported
  <2> QED  BY <2>1 DEF Scenarios, ToldOf
<1> QED  BY <1>1, ChainInvariant, PTL

(* The guard of _analyze_scenario's walk against a cycle of witnesses      *)
(* never fires: no accepted itinerary ends in the RuntimeError.            *)
THEOREM GuardNeverFires == Spec => [](outcome # "RUNTIME_ERROR")
<1>1. CInv => outcome # "RUNTIME_ERROR"
  BY DEF CInv, Told
<1> QED  BY <1>1, ChainInvariant, PTL
=============================================================================
