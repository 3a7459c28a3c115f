----------------------------- MODULE Validation -----------------------------
(***************************************************************************)
(* validation.py, validate_itinerary: the semantic check every decoded or  *)
(* hand-built itinerary goes through, and the computation of the activity  *)
(* order the compiler and the analysis use.  One action is one iteration   *)
(* of one of its loops.                                                    *)
(*                                                                         *)
(* The five stages follow each other: the header, the activities, the      *)
(* transfers, the topological order (Kahn's algorithm with a heap), and    *)
(* the earliest finish times against the deadlines.                        *)
(***************************************************************************)
EXTENDS Itineraries

CONSTANTS Inputs,   \* the itineraries the function may be called with
          Times     \* the start times of the schedules the properties range over

ASSUME InputsAssumption == Inputs \subseteq Itinerary \cup {Malformed}

ASSUME TimesAssumption == Times \subseteq Int

VARIABLES
    itinerary,      \* the argument
    pc,             \* the stage
    k,              \* the position in the sequence the stage iterates
    j,              \* the position in incoming[order[k]]
    activityById,   \* activities accepted so far, by identifier
    pairs,          \* transfer_pairs
    successors,     \* identifier |-> set of identifiers
    incoming,       \* identifier |-> sequence of transfers
    indegree,       \* identifier |-> number of predecessors not yet ordered
    ready,          \* the heap
    order,          \* the order built, and the value returned
    earliestStart,  \* of the activity order[k]
    earliestFinish, \* identifier |-> earliest finish time
    result          \* "PENDING", "ACCEPTED" or an error code

graph  == <<successors, incoming, indegree>>
timing == <<j, earliestStart, earliestFinish>>
vars   == <<itinerary, pc, k, j, activityById, pairs, successors, incoming,
            indegree, ready, order, earliestStart, earliestFinish, result>>

SchemaVersion == 1

Ids == DOMAIN activityById

Put(f, key, value) ==
    [x \in DOMAIN f \cup {key} |-> IF x = key THEN value ELSE f[x]]

GreatestOfHeap(S) == CHOOSE x \in S : \A y \in S : y <= x

(* heapq.heappop of the heap S.                                            *)
Least(S) == CHOOSE x \in S : \A y \in S : x <= y

-----------------------------------------------------------------------------
(* The checks, each in the order of the code.                              *)

HeaderFault(it) ==
    Blame(it = Malformed, "INVALID_TYPE") ??
    Blame(it.schema = Malformed, "INVALID_TYPE") ??
    Blame(it.schema # SchemaVersion, "OUT_OF_RANGE") ??
    Blame(it.id = Malformed, "INVALID_IDENTIFIER") ??
    Blame(~it.anchor, "INVALID_TIMESTAMP") ??
    Blame(it.horizon = Malformed, "INVALID_TYPE") ??
    Blame(Outside(it.horizon, 1, MaxHorizon), "OUT_OF_RANGE") ??
    Blame(it.activities = Malformed, "INVALID_TYPE") ??
    Blame(Outside(Len(it.activities), 1, MaxActivities), "OUT_OF_RANGE") ??
    Blame(it.transfers = Malformed, "INVALID_TYPE") ??
    Blame(Len(it.transfers) > MaxTransfers, "OUT_OF_RANGE")

ActivityFault(x, horizon) ==
    Blame(x = Malformed, "INVALID_TYPE") ??
    Blame(x.id = Malformed, "INVALID_IDENTIFIER") ??
    Blame(x.release = Malformed, "INVALID_TYPE") ??
    Blame(Outside(x.release, 0, horizon), "OUT_OF_RANGE") ??
    Blame(x.min = Malformed \/ x.max = Malformed, "INVALID_TYPE") ??
    Blame(Outside(x.min, 1, horizon), "OUT_OF_RANGE") ??
    Blame(Outside(x.max, 1, horizon), "OUT_OF_RANGE") ??
    Blame(x.min > x.max, "OUT_OF_RANGE") ??
    Blame(x.deadline = Malformed, "INVALID_TYPE") ??
    Blame(Outside(x.deadline, 1, horizon), "OUT_OF_RANGE") ??
    Blame(x.release + x.min > x.deadline, "INFEASIBLE_DEADLINE")

TransferFault(t, horizon) ==
    Blame(t = Malformed, "INVALID_TYPE") ??
    Blame(t.from = Malformed \/ t.to = Malformed, "INVALID_IDENTIFIER") ??
    Blame(t.min = Malformed, "INVALID_TYPE") ??
    Blame(Outside(t.min, 0, horizon), "OUT_OF_RANGE")

PairFaultNoDuplicates(t) ==
    Blame(t.from = t.to, "SELF_TRANSFER") ??
    Blame(t.from \notin Ids \/ t.to \notin Ids, "UNKNOWN_TRANSFER_REFERENCE")

PairFaultNoReference(t) ==
    Blame(<<t.from, t.to>> \in pairs, "DUPLICATE_TRANSFER") ??
    Blame(t.from = t.to, "SELF_TRANSFER")

PairFault(t) ==
    Blame(<<t.from, t.to>> \in pairs, "DUPLICATE_TRANSFER") ??
    Blame(t.from = t.to, "SELF_TRANSFER") ??
    Blame(t.from \notin Ids \/ t.to \notin Ids, "UNKNOWN_TRANSFER_REFERENCE")

OrderingFault == Blame(Len(order) # Cardinality(Ids), "DEPENDENCY_CYCLE")

DeadlineFaultAtLimit(x, finish) == Blame(finish >= x.deadline, "INFEASIBLE_DEADLINE")

DeadlineFault(x, finish) == Blame(finish > x.deadline, "INFEASIBLE_DEADLINE")

-----------------------------------------------------------------------------
(* The steps of the two graph loops.                                       *)

ReleasedTooLate(a) == {s \in successors[a] : indegree[s] = 0}

(* The successors of a whose last pending predecessor is a.                *)
Released(a) == {s \in successors[a] : indegree[s] = 1}

TransferBound(t) == earliestFinish[t.from] + t.min

LastBound(start, bound) == bound

Later(start, bound) == IF bound > start THEN bound ELSE start

FinishOf(x) == earliestStart + x.min

Fail(fault) == /\ result' \in fault
               /\ pc' = "done"

-----------------------------------------------------------------------------
Init ==
    /\ itinerary \in Inputs
    /\ pc = "header"
    /\ k = 1 /\ j = 1
    /\ activityById = << >> /\ pairs = {}
    /\ successors = << >> /\ incoming = << >> /\ indegree = << >>
    /\ ready = {} /\ order = << >>
    /\ earliestStart = 0 /\ earliestFinish = << >>
    /\ result = "PENDING"

CheckHeader ==
    /\ pc = "header"
    /\ LET fault == HeaderFault(itinerary) IN
       \/ /\ fault # {} /\ Fail(fault)
       \/ /\ fault = {} /\ pc' = "activities"
          /\ UNCHANGED result
    /\ UNCHANGED <<itinerary, k, activityById, pairs, graph, ready, order, timing>>

CheckActivity ==
    /\ pc = "activities" /\ k <= Len(itinerary.activities)
    /\ LET x     == itinerary.activities[k]
           fault == ActivityFault(x, itinerary.horizon) ??
                    Blame(x.id \in Ids, "DUPLICATE_ACTIVITY_ID")
       IN \/ /\ fault # {} /\ Fail(fault)
             /\ UNCHANGED <<k, activityById>>
          \/ /\ fault = {}
             /\ activityById' = Put(activityById, x.id, x)
             /\ k' = k + 1
             /\ UNCHANGED <<pc, result>>
    /\ UNCHANGED <<itinerary, pairs, graph, ready, order, timing>>

(* The activities are read: the empty graph on their identifiers.          *)
StartTransfers ==
    /\ pc = "activities" /\ k > Len(itinerary.activities)
    /\ successors' = [a \in Ids |-> {}]
    /\ incoming'   = [a \in Ids |-> << >>]
    /\ indegree'   = [a \in Ids |-> 0]
    /\ pc' = "transfers" /\ k' = 1
    /\ UNCHANGED <<itinerary, activityById, pairs, ready, order, timing, result>>

CheckTransfer ==
    /\ pc = "transfers" /\ k <= Len(itinerary.transfers)
    /\ LET t     == itinerary.transfers[k]
           fault == TransferFault(t, itinerary.horizon) ?? PairFault(t)
       IN \/ /\ fault # {} /\ Fail(fault)
             /\ UNCHANGED <<k, pairs, graph>>
          \/ /\ fault = {}
             /\ pairs'      = pairs \cup {<<t.from, t.to>>}
             /\ successors' = [successors EXCEPT ![t.from] = @ \cup {t.to}]
             /\ incoming'   = [incoming EXCEPT ![t.to] = Append(@, t)]
             /\ indegree'   = [indegree EXCEPT ![t.to] = @ + 1]
             /\ k' = k + 1
             /\ UNCHANGED <<pc, result>>
    /\ UNCHANGED <<itinerary, activityById, ready, order, timing>>

StartOrdering ==
    /\ pc = "transfers" /\ k > Len(itinerary.transfers)
    /\ ready' = {a \in Ids : indegree[a] = 0}
    /\ pc' = "ordering"
    /\ UNCHANGED <<itinerary, k, activityById, pairs, graph, order, timing, result>>

(* The heap pops its least identifier; every successor loses a predecessor *)
(* and is pushed when it has lost the last one.                            *)
PopReady ==
    /\ pc = "ordering" /\ ready # {}
    /\ LET a == Least(ready) IN
       /\ order'    = Append(order, a)
       /\ indegree' = [s \in Ids |->
                         IF s \in successors[a] THEN indegree[s] - 1
                                                ELSE indegree[s]]
       /\ ready'    = (ready \ {a}) \cup Released(a)
    /\ UNCHANGED <<itinerary, pc, k, activityById, pairs, successors, incoming,
                   timing, result>>

FinishOrdering ==
    /\ pc = "ordering" /\ ready = {}
    /\ \/ /\ OrderingFault # {} /\ Fail(OrderingFault)
          /\ UNCHANGED k
       \/ /\ OrderingFault = {} /\ pc' = "start" /\ k' = 1
          /\ UNCHANGED result
    /\ UNCHANGED <<itinerary, activityById, pairs, graph, ready, order, timing>>

(* The forward pass over the order: an activity starts at its release ...  *)
StartActivity ==
    /\ pc = "start" /\ k <= Len(order)
    /\ earliestStart' = activityById[order[k]].release
    /\ pc' = "relax" /\ j' = 1
    /\ UNCHANGED <<itinerary, k, activityById, pairs, graph, ready, order,
                   earliestFinish, result>>

(* ... or when a predecessor and the transfer from it let it, if later.    *)
RelaxTransfer ==
    /\ pc = "relax" /\ j <= Len(incoming[order[k]])
    /\ LET t == incoming[order[k]][j]
       IN earliestStart' = Later(earliestStart, TransferBound(t))
    /\ j' = j + 1
    /\ UNCHANGED <<itinerary, pc, k, activityById, pairs, graph, ready, order,
                   earliestFinish, result>>

FinishActivity ==
    /\ pc = "relax" /\ j > Len(incoming[order[k]])
    /\ LET x      == activityById[order[k]]
           finish == FinishOf(x)
           fault  == DeadlineFault(x, finish)
       IN /\ earliestFinish' = Put(earliestFinish, order[k], finish)
          /\ \/ /\ fault # {} /\ Fail(fault)
                /\ UNCHANGED k
             \/ /\ fault = {} /\ pc' = "start" /\ k' = k + 1
                /\ UNCHANGED result
    /\ UNCHANGED <<itinerary, j, activityById, pairs, graph, ready, order,
                   earliestStart>>

Return ==
    /\ pc = "start" /\ k > Len(order)
    /\ result' = "ACCEPTED" /\ pc' = "done"
    /\ UNCHANGED <<itinerary, k, activityById, pairs, graph, ready, order, timing>>

Next ==
    \/ CheckHeader
    \/ CheckActivity \/ StartTransfers
    \/ CheckTransfer \/ StartOrdering
    \/ PopReady \/ FinishOrdering
    \/ StartActivity \/ RelaxTransfer \/ FinishActivity
    \/ Return

(* The function is one sequential call that nothing else can hold up.      *)
Spec == Init /\ [][Next]_vars /\ WF_vars(Next)

-----------------------------------------------------------------------------
(* Properties.                                                             *)

Stages == {"header", "activities", "transfers", "ordering", "start", "relax",
           "done"}

Codes == {"INVALID_TYPE", "OUT_OF_RANGE", "INVALID_IDENTIFIER",
          "INVALID_TIMESTAMP", "DUPLICATE_ACTIVITY_ID", "DUPLICATE_TRANSFER",
          "SELF_TRANSFER", "UNKNOWN_TRANSFER_REFERENCE", "DEPENDENCY_CYCLE",
          "INFEASIBLE_DEADLINE"}

CheckedActivity == [id: Nat, release: Nat, min: Nat, max: Nat, deadline: Nat]
CheckedTransfer == [from: Ids, to: Ids, min: Nat]

(* Every variable has its type: what passed the checks of a stage is well  *)
(* typed, and the graph is defined on exactly the accepted identifiers     *)
(* from the moment it exists, so no lookup of a later stage can fail.      *)
TypeOK ==
    /\ itinerary \in Itinerary \cup {Malformed}
    /\ pc \in Stages
    /\ k \in Nat \ {0} /\ j \in Nat \ {0}
    /\ Ids \subseteq Nat
    /\ activityById \in [Ids -> CheckedActivity]
    /\ pairs \subseteq Ids \X Ids
    /\ ready \subseteq Ids
    /\ order \in Seq(Ids)
    /\ earliestStart \in Nat
    /\ DOMAIN earliestFinish \subseteq Ids
    /\ earliestFinish \in [DOMAIN earliestFinish -> Nat]
    /\ result \in Codes \cup {"PENDING", "ACCEPTED"}
    /\ pc \in {"transfers", "ordering", "start", "relax"} =>
          /\ successors \in [Ids -> SUBSET Ids]
          /\ incoming \in [Ids -> Seq(CheckedTransfer)]
    /\ pc \in {"transfers", "ordering"} => indegree \in [Ids -> Nat]

(* The predecessors of a that the order does not list yet.                 *)
PendingOf(a) == {p \in Ids : a \in successors[p]} \ Range(order)

(* Kahn's loop counts right: at every moment the indegree of an activity   *)
(* is the number of its predecessors still to be ordered, and the heap     *)
(* holds exactly the unordered activities that wait for nobody.  This is   *)
(* what the refusal of duplicate pairs protects: "successors" is a set,    *)
(* "indegree" counts transfers, and the two agree only without duplicates. *)
FrontierIsExact ==
    /\ pc \in {"transfers", "ordering"} =>
          \A a \in Ids : indegree[a] = Cardinality(PendingOf(a))
    /\ pc = "ordering" => ready = {a \in Ids \ Range(order) : PendingOf(a) = {}}

(* An accepted itinerary comes back with every activity listed exactly     *)
(* once, after all the activities it waits for.                            *)
AcceptedOrderIsTopological ==
    result = "ACCEPTED" =>
        IsTopological(order, IdsOf(itinerary), EdgesOf(itinerary))

(* An itinerary is refused as cyclic only when some of its activities wait *)
(* for each other.                                                         *)
CycleVerdictIsJust ==
    result = "DEPENDENCY_CYCLE" => HasCycle(IdsOf(itinerary), EdgesOf(itinerary))

Schedules == [IdsOf(itinerary) -> Times]

(* The forward pass never overestimates: in every schedule that respects   *)
(* the releases and the transfers, with every duration at its minimum, no  *)
(* activity can finish before the time computed for it.                    *)
FinishIsLowerBound ==
    earliestFinish # << >> =>
    \A start \in Schedules :
        RespectsPrecedence(itinerary, MinDurations(itinerary), start) =>
            \A a \in DOMAIN earliestFinish :
                earliestFinish[a] <= start[a] + activityById[a].min

(* When every activity is refused or accepted by the deadline stage, an    *)
(* infeasible verdict is final: no schedule whatever meets the deadlines.  *)
InfeasibleVerdictIsJust ==
    result = "INFEASIBLE_DEADLINE" /\ earliestFinish # << >> =>
    \A start \in Schedules :
        RespectsPrecedence(itinerary, MinDurations(itinerary), start) =>
            ~MeetsDeadlines(itinerary, MinDurations(itinerary), start)

(* The pass promises nothing it cannot keep: starting every activity at    *)
(* its computed time is a schedule that respects every precedence and, on  *)
(* acceptance, meets every deadline.                                       *)
EarliestScheduleIsAttained ==
    result = "ACCEPTED" =>
    LET dur   == MinDurations(itinerary)
        start == [a \in Ids |-> earliestFinish[a] - dur[a]]
    IN /\ RespectsPrecedence(itinerary, dur, start)
       /\ MeetsDeadlines(itinerary, dur, start)

Contract == INSTANCE ItineraryContract WITH
    verdict <- [code  |-> result,
                order |-> IF result = "ACCEPTED" THEN order ELSE << >>]

(* The stages together keep the contract, and the call always ends.        *)
ImplementsContract == Contract!Spec
=============================================================================
