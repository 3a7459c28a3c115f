---------------------------- MODULE MCValidation ----------------------------
(***************************************************************************)
(* Instances of Validation: graphs, deadlines and malformed documents.     *)
(***************************************************************************)
EXTENDS Validation

Header(activities, transfers) ==
    [schema |-> 1, id |-> 0, anchor |-> TRUE, horizon |-> MaxHorizon,
     activities |-> activities, transfers |-> transfers]

Timed(a, release, min, deadline) ==
    [id |-> a, release |-> release, min |-> min, max |-> min + 1,
     deadline |-> deadline]

Edge(p, a, lag) == [from |-> p, to |-> a, min |-> lag]

(* Graphs: four activities that can never be late, declared in two orders, *)
(* every sequence of at most two transfers, and with every graph of three  *)
(* to six transfers in one order.                                          *)
Relaxed(names) == [i \in DOMAIN names |-> Timed(names[i], 0, 1, MaxHorizon)]

(* The transfers between different activities of 1..n, one after another.  *)
Arcs(n) == SelectSeq([i \in 1..(n * n) |->
                         Edge(1 + ((i - 1) \div n), 1 + ((i - 1) % n), 0)],
                     LAMBDA e : e.from # e.to)

InArcOrder(n, S) == SelectSeq(Arcs(n), LAMBDA e : e \in S)

GraphInputs ==
    {Header(Relaxed(names), transfers) :
        names \in {<<1, 2, 3, 4>>, <<3, 1, 4, 2>>},
        transfers \in UNION {[1..n -> Range(Arcs(4))] : n \in 0..2}}
    \cup {Header(Relaxed(<<4, 2, 3, 1>>), InArcOrder(4, S)) :
             S \in {E \in SUBSET Range(Arcs(4)) : Cardinality(E) \in 3..6}}

-----------------------------------------------------------------------------
(* Deadlines: three activities, each early, late, long or short, and every *)
(* sequence of two timed transfers; and every triangle 1 -> 2 -> 3.        *)
Profiles(a) == {Timed(a, 0, 1, 2), Timed(a, 0, 1, 5), Timed(a, 1, 2, 4),
                Timed(a, 2, 1, 5)}

Lagged(n) == {[e EXCEPT !.min = lag] : e \in Range(Arcs(n)), lag \in 0..1}

DistinctPairs(s) == Cardinality({<<s[i].from, s[i].to>> : i \in DOMAIN s}) = Len(s)

Triangles == {<<Edge(1, 3, l), Edge(2, 3, m), Edge(1, 2, n)>> :
                 l \in 0..2, m, n \in 0..1}

TimedTransfers ==
    {s \in UNION {[1..n -> Lagged(3)] : n \in 0..2} : DistinctPairs(s)}
    \cup Triangles

DeadlineInputs ==
    {Header(<<x, y, z>>, transfers) :
        x \in Profiles(2), y \in Profiles(1), z \in Profiles(3),
        transfers \in TimedTransfers}

-----------------------------------------------------------------------------
(* Malformed documents: every header field, every field of an activity and *)
(* every field of a transfer on, just inside and just outside its range,   *)
(* in several places at once; and activities and transfers that are well   *)
(* formed but do not fit together.                                         *)
Late == MaxHorizon

Good(a) == Timed(a, 0, 1, Late)

TooMany == {[i \in 1..(MaxActivities + 1) |-> Good(i)]}

TooManyArcs == {[i \in 1..(MaxTransfers + 1) |-> Edge(1, 1, 0)]}

OddActivities ==
    {Malformed, Good(1), Good(2)} \cup
    [id: {1, Malformed}, release: {-1, 0, Late, Late + 1}, min: {0, Late}, max: {2, Late + 1},
     deadline: {0, Late}] \cup
    [id: {1}, release: {0, Malformed}, min: {1, Malformed}, max: {1, Malformed},
     deadline: {1, Late, Late + 1, Malformed}]

OddTransfers ==
    {Malformed} \cup
    [from: {1, 2, Malformed}, to: {1, 2, 7, Malformed}, min: {-1, 0, Late, Late + 1, Malformed}]

OddHeaders ==
    [schema: {1, 2, Malformed}, id: {0, Malformed}, anchor: BOOLEAN,
     horizon: {0, 1, Late, Late + 1, Malformed},
     activities: {Malformed, << >>, <<Good(1)>>} \cup TooMany,
     transfers: {Malformed, << >>} \cup TooManyArcs]

MalformedInputs ==
    {Malformed} \cup OddHeaders
    \cup {Header(<<x, y>>, << >>) : x \in OddActivities, y \in {Good(1), Good(2), Malformed}}
    \cup {Header(<<Good(2), y>>, <<Edge(1, 9, 0)>>) : y \in OddActivities}
    \cup {Header(<<Good(1), Good(2)>>, <<t, u>>) :
             t \in OddTransfers, u \in {Edge(1, 2, 0), Edge(2, 1, 0), Malformed}}
    \cup {Header(<<Good(2), Good(1)>>, <<Edge(1, 2, 0), u>>) : u \in OddTransfers}

ValidationInputs == GraphInputs \cup DeadlineInputs \cup MalformedInputs
=============================================================================
