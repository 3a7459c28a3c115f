------------------------------ MODULE Compiler ------------------------------
(***************************************************************************)
(* compiler.py, compile_temporal_graph: the nodes and the edges of the     *)
(* temporal graph of an itinerary the validator accepted, and the order    *)
(* they are published in.  One action is one iteration of a loop.          *)
(*                                                                         *)
(* A node is its kind and its activity: the text of a node identifier      *)
(* tells two nodes apart exactly when these differ, since an activity's    *)
(* identifier contains no colon.                                           *)
(***************************************************************************)
EXTENDS Itineraries

CONSTANTS Inputs,   \* the itineraries the function may be called with
          None,     \* Python's None: no bound, no activity
          Times     \* the times the properties range over

ASSUME InputsAssumption == Inputs \subseteq Itinerary

ASSUME NoneAssumption == None \notin Int

ASSUME TimesAssumption == Times \subseteq Int

VARIABLES itinerary,
          order,   \* activity_order, the validator's result
          pc,
          k,       \* the position in the tuple the current loop goes over
          nodes,
          edges

vars == <<itinerary, order, pc, k, nodes, edges>>

Ids == IdsOf(itinerary)

Anchor == [kind |-> "anchor", activity |-> None]

StartNode(a) == [kind |-> "activity_start", activity |-> a]

FinishNode(a) == [kind |-> "activity_finish", activity |-> a]

Edge(source, target, kind, lower, upper) ==
    [source |-> source, target |-> target, kind |-> kind, lower |-> lower, upper |-> upper]

ActivityEdgesOpenEnded(a) ==
    LET x == ActivityOf(itinerary, a) IN
    <<Edge(Anchor, StartNode(a), "release", x.release, None),
      Edge(StartNode(a), FinishNode(a), "duration", x.min, None),
      Edge(Anchor, FinishNode(a), "hard_deadline", None, x.deadline)>>

ActivityEdges(a) ==
    LET x == ActivityOf(itinerary, a) IN
    <<Edge(Anchor, StartNode(a), "release", x.release, None),
      Edge(StartNode(a), FinishNode(a), "duration", x.min, x.max),
      Edge(Anchor, FinishNode(a), "hard_deadline", None, x.deadline)>>

TransferEdgeBackward(t) == Edge(StartNode(t.to), FinishNode(t.from), "transfer", t.min, None)

TransferEdge(t) == Edge(FinishNode(t.from), StartNode(t.to), "transfer", t.min, None)

-----------------------------------------------------------------------------
(* The order of the edges.                                                 *)

(* node_position; a node that is not in the list is a KeyError.            *)
Position(n) == CHOOSE i \in DOMAIN nodes : nodes[i] = n

(* The order of the names of the kinds.                                    *)
Alphabetical(kind) ==
    CASE kind = "duration" -> 1 [] kind = "hard_deadline" -> 2
      [] kind = "release" -> 3  [] kind = "transfer" -> 4

OrMinusOne(bound) == IF bound = None THEN -1 ELSE bound

SortKeyWithoutTarget(e) == <<Position(e.source), Alphabetical(e.kind),
                             OrMinusOne(e.lower), OrMinusOne(e.upper)>>

SortKey(e) == <<Position(e.source), Position(e.target), Alphabetical(e.kind),
                OrMinusOne(e.lower), OrMinusOne(e.upper)>>

-----------------------------------------------------------------------------
Init ==
    /\ itinerary \in Inputs
    /\ Objections(itinerary) = {}
    /\ order \in Bijection(1..Cardinality(Ids), Ids)
    /\ IsLeastOrder(order, Ids, EdgesOf(itinerary))
    /\ pc = "nodes" /\ k = 1
    /\ nodes = <<Anchor>> /\ edges = << >>

(* The next element of a tuple of length n, or on to the next loop.        *)
Continue(n, next) == IF k < n THEN k' = k + 1 /\ UNCHANGED pc ELSE k' = 1 /\ pc' = next

AddNodes ==
    /\ pc = "nodes"
    /\ nodes' = nodes \o <<StartNode(order[k]), FinishNode(order[k])>>
    /\ Continue(Len(order), "edges")
    /\ UNCHANGED <<itinerary, order, edges>>

AddActivityEdges ==
    /\ pc = "edges"
    /\ edges' = edges \o ActivityEdges(order[k])
    /\ Continue(Len(order), "transfers")
    /\ UNCHANGED <<itinerary, order, nodes>>

AddTransferEdge ==
    /\ pc = "transfers" /\ k <= Len(itinerary.transfers)
    /\ edges' = Append(edges, TransferEdge(itinerary.transfers[k]))
    /\ k' = k + 1
    /\ UNCHANGED <<itinerary, order, pc, nodes>>

SortEdges ==
    /\ pc = "transfers" /\ k > Len(itinerary.transfers)
    /\ edges' = StableSort(edges, SortKey)
    /\ pc' = "done"
    /\ UNCHANGED <<itinerary, order, k, nodes>>

Next == AddNodes \/ AddActivityEdges \/ AddTransferEdge \/ SortEdges

Spec == Init /\ [][Next]_vars

-----------------------------------------------------------------------------
(* A point in time for every node, the anchor at zero.                     *)
Assignments == {time \in [Range(nodes) -> Times] : time[Anchor] = 0}

Satisfies(time, e) ==
    LET gap == time[e.target] - time[e.source] IN
    /\ e.lower # None => gap >= e.lower
    /\ e.upper # None => gap <= e.upper

(* The graph means what the itinerary means: times satisfy every edge      *)
(* exactly when the activities take one of their possible durations,       *)
(* respect releases and transfers, and meet their deadlines.               *)
GraphMeansTheItinerary ==
    pc = "done" =>
        \A time \in Assignments :
            LET start == [a \in Ids |-> time[StartNode(a)]]
                dur   == [a \in Ids |-> time[FinishNode(a)] - time[StartNode(a)]]
            IN  (\A e \in Range(edges) : Satisfies(time, e))
                <=> /\ \A a \in Ids :
                          dur[a] \in ActivityOf(itinerary, a).min..ActivityOf(itinerary, a).max
                    /\ RespectsPrecedence(itinerary, dur, start)
                    /\ MeetsDeadlines(itinerary, dur, start)

(* Every edge points from an earlier node to a later one, so the node list *)
(* is a topological order of the graph: it is acyclic.                     *)
EdgesPointForward ==
    pc = "done" => \A e \in Range(edges) : Position(e.source) < Position(e.target)

(* The published order leaves nothing to chance: the edges are strictly    *)
(* sorted by the positions of their ends alone, so an itinerary with its   *)
(* activities or transfers listed differently compiles to the same graph.  *)
EdgeOrderIsDetermined ==
    pc = "done" =>
        \A i, j \in DOMAIN edges : i < j =>
            LexBefore(<<Position(edges[i].source), Position(edges[i].target)>>,
                      <<Position(edges[j].source), Position(edges[j].target)>>)
=============================================================================
