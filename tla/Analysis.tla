------------------------------ MODULE Analysis ------------------------------
(***************************************************************************)
(* analysis.py, analyze_interval_feasibility: two forward passes over the  *)
(* compiled order, one with every duration at its minimum and one with     *)
(* every duration at its maximum, and for each the tightest deadline with  *)
(* a chain of activities that explains it.  One action is one iteration of *)
(* one of the loops of _analyze_scenario.                                  *)
(*                                                                         *)
(* The analysis starts from what compile_temporal_graph hands over: an     *)
(* itinerary the validator accepted, and its activity order.  A tuple of   *)
(* identifiers in lexical order is the set of its members, and the first   *)
(* of them the least.                                                      *)
(***************************************************************************)
EXTENDS Itineraries

CONSTANTS Inputs,   \* the itineraries the function may be called with
          Nobody,   \* Python's None where an identifier may stand
          Times     \* the start times of the schedules the properties range over

ASSUME InputsAssumption == Inputs \subseteq Itinerary

ASSUME NobodyAssumption == Nobody \notin Int

ASSUME TimesAssumption == Times \subseteq Int

VARIABLES
    itinerary,
    order,       \* activity_order of the compiled graph
    pc,
    scenario,    \* "best" (minimum durations) or "worst" (maximum durations)
    k,           \* the position in order
    todo,        \* the transfers into order[k] not yet looked at
    start,       \* earliest_start of order[k]
    candidates,  \* predecessor |-> the start its transfer forces
    timings,     \* scenario |-> identifier |-> timing
    summary,     \* scenario |-> minimum slack, critical ids, witness chain
    cursor,      \* the walk along witness predecessors
    chain,       \* reverse_chain
    outcome      \* "PENDING", "REPORTED" or "RUNTIME_ERROR"

loop == <<k, todo, start, candidates>>
walk == <<cursor, chain>>
vars == <<itinerary, order, pc, scenario, loop, timings, summary, walk, outcome>>

Scenarios == {"best", "worst"}

Ids == IdsOf(itinerary)

Put(f, key, value) ==
    [x \in DOMAIN f \cup {key} |-> IF x = key THEN value ELSE f[x]]

(* The first of a lexically sorted tuple.                                  *)
Least(S) == CHOOSE x \in S : \A y \in S : x <= y

Outgoing(a) == {t \in Range(itinerary.transfers) : t.from = a}

(* incoming[a], a tuple of transfers sorted by their sources.              *)
Incoming(a) == {t \in Range(itinerary.transfers) : t.to = a}

DurationOf(a) == IF scenario = "worst" THEN ActivityOf(itinerary, a).max
                                       ELSE ActivityOf(itinerary, a).min

CandidateFromStart(t) == timings[scenario][t.from].start + t.min

Candidate(t) == timings[scenario][t.from].finish + t.min

EveryPredecessor == DOMAIN candidates

BindingPredecessors == {p \in DOMAIN candidates : candidates[p] = start}

WitnessOrSelf(a, binding) == IF binding = {} THEN a ELSE Least(binding)

Witness(a, binding) == IF binding = {} THEN Nobody ELSE Least(binding)

TimingOf(a) ==
    LET finish  == start + DurationOf(a)
        binding == BindingPredecessors
    IN [start    |-> start,
        finish   |-> finish,
        slack    |-> ActivityOf(itinerary, a).deadline - finish,
        released |-> ActivityOf(itinerary, a).release = start,
        binding  |-> binding,
        witness  |-> Witness(a, binding)]

SlacksOf(s) == {timings[s][a].slack : a \in DOMAIN timings[s]}

CriticalOf(s) ==
    {a \in DOMAIN timings[s] : timings[s][a].slack = Least(SlacksOf(s))}

-----------------------------------------------------------------------------
Init ==
    /\ itinerary \in Inputs
    /\ Objections(itinerary) = {}
    /\ order \in Bijection(1..Cardinality(Ids), Ids)
    /\ IsLeastOrder(order, Ids, EdgesOf(itinerary))
    /\ pc = "start" /\ scenario = "best"
    /\ k = 1 /\ todo = {} /\ start = 0 /\ candidates = << >>
    /\ timings = [s \in Scenarios |-> << >>]
    /\ summary = [s \in Scenarios |-> << >>]
    /\ cursor = Nobody /\ chain = << >>
    /\ outcome = "PENDING"

StartActivity ==
    /\ pc = "start" /\ k <= Len(order)
    /\ start' = ActivityOf(itinerary, order[k]).release
    /\ todo' = Incoming(order[k])
    /\ candidates' = << >>
    /\ pc' = "relax"
    /\ UNCHANGED <<itinerary, order, scenario, k, timings, summary, walk, outcome>>

(* The transfers into an activity come in the order of their sources.      *)
RelaxTransfer ==
    /\ pc = "relax"
    /\ \E t \in todo :
          /\ \A u \in todo : t.from <= u.from
          /\ todo' = todo \ {t}
          /\ candidates' = Put(candidates, t.from, Candidate(t))
          /\ start' = IF Candidate(t) > start THEN Candidate(t) ELSE start
    /\ UNCHANGED <<itinerary, order, pc, scenario, k, timings, summary, walk, outcome>>

FinishActivity ==
    /\ pc = "relax" /\ todo = {}
    /\ timings' = [timings EXCEPT ![scenario] = Put(@, order[k], TimingOf(order[k]))]
    /\ k' = k + 1 /\ pc' = "start"
    /\ UNCHANGED <<itinerary, order, scenario, todo, start, candidates, summary,
                   walk, outcome>>

(* The tightest deadline, and the activity the walk starts from.           *)
Summarise ==
    /\ pc = "start" /\ k > Len(order)
    /\ cursor' = Least(CriticalOf(scenario))
    /\ chain' = << >>
    /\ pc' = "walk"
    /\ UNCHANGED <<itinerary, order, scenario, loop, timings, summary, outcome>>

(* One step along the witnesses; visited is the range of chain.            *)
FollowWitness ==
    /\ pc = "walk" /\ cursor # Nobody
    /\ IF cursor \in Range(chain)
         THEN /\ outcome' = "RUNTIME_ERROR" /\ pc' = "done"
              /\ UNCHANGED walk
         ELSE /\ chain' = Append(chain, cursor)
              /\ cursor' = timings[scenario][cursor].witness
              /\ UNCHANGED <<pc, outcome>>
    /\ UNCHANGED <<itinerary, order, scenario, loop, timings, summary>>

(* The walk reached an activity no predecessor binds: the scenario is      *)
(* summarised, and the worst case follows the best.                        *)
EndWalk ==
    /\ pc = "walk" /\ cursor = Nobody
    /\ summary' = [summary EXCEPT ![scenario] =
                      [slack    |-> Least(SlacksOf(scenario)),
                       critical |-> CriticalOf(scenario),
                       chain    |-> [i \in 1..Len(chain) |->
                                        chain[Len(chain) + 1 - i]]]]
    /\ \/ /\ scenario = "best" /\ scenario' = "worst"
          /\ k' = 1 /\ pc' = "start"
          /\ UNCHANGED outcome
       \/ /\ scenario = "worst" /\ outcome' = "REPORTED" /\ pc' = "done"
          /\ UNCHANGED <<scenario, k>>
    /\ UNCHANGED <<itinerary, order, todo, start, candidates, timings, walk>>

Next ==
    \/ StartActivity \/ RelaxTransfer \/ FinishActivity
    \/ Summarise \/ FollowWitness \/ EndWalk

Spec == Init /\ [][Next]_vars /\ WF_vars(Next)

(* The statuses of the report.                                             *)
ActivityRobust(a) == timings["worst"][a].slack >= 0

ReportRobustAtLimit == summary["worst"].slack > 0

ReportRobust == summary["worst"].slack >= 0

-----------------------------------------------------------------------------
(* Properties.                                                             *)

Reported == outcome = "REPORTED"

Timing == [start: Nat, finish: Nat, slack: Int, released: BOOLEAN,
           binding: SUBSET Ids, witness: Ids \cup {Nobody}]

(* Every variable has its type.  The timings of a scenario cover exactly   *)
(* the activities its pass has been through, and every predecessor of the  *)
(* one in hand is among them: the lookup of its finish time cannot fail.   *)
TypeOK ==
    /\ itinerary \in Itinerary
    /\ order \in Seq(Ids)
    /\ pc \in {"start", "relax", "walk", "done"}
    /\ scenario \in Scenarios
    /\ k \in 1..(Len(order) + 1)
    /\ todo \subseteq Range(itinerary.transfers)
    /\ \A t \in todo : t.from \in DOMAIN timings[scenario]
    /\ start \in Nat
    /\ candidates \in [DOMAIN candidates -> Nat] /\ DOMAIN candidates \subseteq Ids
    /\ \A s \in Scenarios : timings[s] \in [DOMAIN timings[s] -> Timing]
    /\ DOMAIN timings[scenario] = {order[i] : i \in 1..(k - 1)}
    /\ scenario = "worst" => DOMAIN timings["best"] = Ids
    /\ cursor \in Ids \cup {Nobody}
    /\ chain \in Seq(Ids)
    /\ outcome \in {"PENDING", "REPORTED", "RUNTIME_ERROR"}

Schedules == [Ids -> Times]

(* The two passes enclose everything that can happen: whatever durations   *)
(* come true, the earliest-start schedule starts and finishes every        *)
(* activity between its best and its worst case.                           *)
EnvelopeEnclosesEverySchedule ==
    Reported =>
    \A dur \in DurationVectors(itinerary) : \A s \in Schedules :
        IsEarliest(itinerary, dur, s) =>
            \A a \in Ids :
                /\ timings["best"][a].start <= s[a]
                /\ s[a] <= timings["worst"][a].start
                /\ timings["best"][a].finish <= s[a] + dur[a]
                /\ s[a] + dur[a] <= timings["worst"][a].finish

(* An activity is robust exactly when it meets its deadline whatever       *)
(* durations come true, and the report exactly when every activity is.     *)
RobustMeansEveryVector ==
    Reported =>
    /\ \A a \in Ids :
          ActivityRobust(a) <=>
              \A dur \in DurationVectors(itinerary) : \A s \in Schedules :
                  IsEarliest(itinerary, dur, s) =>
                      s[a] + dur[a] <= ActivityOf(itinerary, a).deadline
    /\ ReportRobust <=> \A a \in Ids : ActivityRobust(a)

(* The best case is the schedule the validator accepted the itinerary for: *)
(* it meets every deadline, so "infeasible" needs no status of its own.    *)
BestCaseMeetsDeadlines ==
    Reported => summary["best"].slack >= 0

GapOf(p, a) == (CHOOSE t \in Range(itinerary.transfers) : t.from = p /\ t.to = a).min

(* The witness chain explains the tightest deadline: it begins with an     *)
(* activity that starts at its release, every activity in it starts the    *)
(* moment the transfer from the one before lets it, and it ends at the     *)
(* lexically first activity of least slack.                                *)
ChainExplainsTightestDeadline ==
    Reported =>
    \A sc \in Scenarios :
        LET w == summary[sc].chain
            n == Len(w)
            T(i) == timings[sc][w[i]]
        IN /\ n >= 1
           /\ T(1).start = ActivityOf(itinerary, w[1]).release
           /\ \A i \in 2..n :
                 /\ <<w[i - 1], w[i]>> \in EdgesOf(itinerary)
                 /\ T(i).start = T(i - 1).finish + GapOf(w[i - 1], w[i])
           /\ \A a \in Ids : \/ timings[sc][a].slack > T(n).slack
                             \/ timings[sc][a].slack = T(n).slack /\ w[n] <= a

(* Every accepted itinerary gets its report: the walk along the witnesses  *)
(* comes to an end, and its guard against a cycle never fires.             *)
ReportIsProduced == <>Reported
=============================================================================
