---------------------------- MODULE Itineraries ----------------------------
(***************************************************************************)
(* Itineraries as every part of the program sees them (model.py) and what  *)
(* it means for one to be schedulable.                                     *)
(*                                                                         *)
(* An activity identifier is a natural number: the code uses identifiers   *)
(* only as dictionary keys and in lexical order, so any countable total    *)
(* order stands for them.  The constant Malformed stands for every value   *)
(* that fails a check on its own: something of the wrong Python type, an   *)
(* identifier the grammar refuses, a container that is not a tuple.  All   *)
(* times are whole seconds from the anchor; Python integers do not         *)
(* overflow.                                                               *)
(***************************************************************************)
EXTENDS Integers, Sequences, FiniteSets, Functions, Faults

CONSTANTS Malformed,      \* a value of the wrong type or syntax
          MaxActivities,  \* validation.py MAX_ACTIVITIES
          MaxTransfers,   \* validation.py MAX_TRANSFERS
          MaxHorizon      \* validation.py MAX_HORIZON_SECONDS

ASSUME MalformedAssumption == Malformed \notin Int

ASSUME LimitsAssumption == /\ MaxActivities \in Nat \ {0}
                           /\ MaxTransfers \in Nat
                           /\ MaxHorizon \in Nat \ {0}

Number     == Int \cup {Malformed}
Identifier == Nat \cup {Malformed}

(* A duration that is not a DurationInterval is one whose minimum and      *)
(* maximum are Malformed: the code answers both alike.                     *)
Activity == [id: Identifier, release: Number, min: Number, max: Number,
             deadline: Number]

Transfer == [from: Identifier, to: Identifier, min: Number]

(* "anchor" says whether the anchor timestamp is a valid UTC timestamp; it *)
(* is never computed with.                                                 *)
Itinerary == [schema: Number, id: Identifier, anchor: BOOLEAN,
              horizon: Number,
              activities: Seq(Activity \cup {Malformed}) \cup {Malformed},
              transfers: Seq(Transfer \cup {Malformed}) \cup {Malformed}]

-----------------------------------------------------------------------------
Outside(v, low, high) == v # Malformed /\ ~(low <= v /\ v <= high)

-----------------------------------------------------------------------------
(* The graph of an itinerary whose activities and transfers are well       *)
(* formed.                                                                 *)

IdsOf(it) == {x.id : x \in Range(it.activities)}

ActivityOf(it, a) == CHOOSE x \in Range(it.activities) : x.id = a

EdgesOf(it) == {<<t.from, t.to>> : t \in Range(it.transfers)}

(* A set of nodes in which everyone waits for someone of the set.  A       *)
(* finite graph has one exactly when it has a cycle.                       *)
IsKnot(C, edges) == C # {} /\ \A a \in C : \E p \in C : <<p, a>> \in edges

HasCycle(nodes, edges) == \E C \in SUBSET nodes : IsKnot(C, edges)

(* order lists every node once, and no node before one it waits for.       *)
IsTopological(order, nodes, edges) ==
    /\ Len(order) = Cardinality(nodes)
    /\ Range(order) = nodes
    /\ \A i, j \in DOMAIN order : <<order[i], order[j]>> \in edges => i < j

(* s comes before r when they first differ at a smaller identifier of s.   *)
LexBefore(s, r) ==
    \E k \in DOMAIN s : s[k] < r[k] /\ \A i \in 1..(k - 1) : s[i] = r[i]

(* Python's sorted with a key, a tuple of numbers: equal keys stay in the  *)
(* order they are in.                                                      *)
StableSort(s, Key(_)) ==
    LET before(i, j) == LexBefore(Key(s[i]), Key(s[j])) \/ (Key(s[i]) = Key(s[j]) /\ i < j)
        rank(i)      == 1 + Cardinality({j \in DOMAIN s : before(j, i)})
    IN  [l \in DOMAIN s |-> s[CHOOSE i \in DOMAIN s : rank(i) = l]]

(* The one topological order that comes lexically before all the others.   *)
IsLeastOrder(order, nodes, edges) ==
    /\ IsTopological(order, nodes, edges)
    /\ \A other \in Bijection(1..Cardinality(nodes), nodes) :
          IsTopological(other, nodes, edges) => ~LexBefore(other, order)

-----------------------------------------------------------------------------
(* Schedules.  A schedule gives every activity a start time; a duration    *)
(* vector gives every activity a duration.                                 *)

MinDurations(it) == [a \in IdsOf(it) |-> ActivityOf(it, a).min]
MaxDurations(it) == [a \in IdsOf(it) |-> ActivityOf(it, a).max]

(* No activity starts before its release, nor before a predecessor is      *)
(* finished and the transfer from it has taken its minimum.                *)
RespectsPrecedence(it, dur, start) ==
    /\ \A a \in IdsOf(it) : start[a] >= ActivityOf(it, a).release
    /\ \A t \in Range(it.transfers) :
          start[t.to] >= start[t.from] + dur[t.from] + t.min

MeetsDeadlines(it, dur, start) ==
    \A a \in IdsOf(it) : start[a] + dur[a] <= ActivityOf(it, a).deadline

(* The earliest-start policy: nobody waits without a reason.  Every start  *)
(* is the activity's release or is forced by one of its transfers.         *)
IsEarliest(it, dur, start) ==
    /\ RespectsPrecedence(it, dur, start)
    /\ \A a \in IdsOf(it) :
          \/ start[a] = ActivityOf(it, a).release
          \/ \E t \in Range(it.transfers) :
                t.to = a /\ start[a] = start[t.from] + dur[t.from] + t.min

(* The duration vectors an itinerary allows.                               *)
DurationVectors(it) ==
    LET longest == {ActivityOf(it, a).max : a \in IdsOf(it)} IN
    {dur \in [IdsOf(it) -> UNION {0..n : n \in longest}] :
        \A a \in IdsOf(it) : dur[a] \in ActivityOf(it, a).min..ActivityOf(it, a).max}

(* Some schedule respects every precedence and meets every deadline.  A    *)
(* deadline is at most the horizon, so a start is too.                     *)
IsSchedulable(it, dur) ==
    \E start \in [IdsOf(it) -> 0..it.horizon] :
        /\ RespectsPrecedence(it, dur, start)
        /\ MeetsDeadlines(it, dur, start)

-----------------------------------------------------------------------------
(* What there is to object to in an itinerary, whoever looks for it and in *)
(* whatever order.                                                         *)

HeaderObjections(it) ==
    IF it = Malformed THEN {"INVALID_TYPE"} ELSE
      Blame(\/ it.schema = Malformed \/ it.horizon = Malformed
            \/ it.activities = Malformed \/ it.transfers = Malformed,
            "INVALID_TYPE")
      \cup Blame(it.id = Malformed, "INVALID_IDENTIFIER")
      \cup Blame(~it.anchor, "INVALID_TIMESTAMP")
      \cup Blame(\/ it.schema # 1
                 \/ Outside(it.horizon, 1, MaxHorizon)
                 \/ it.activities # Malformed /\ Len(it.activities) \notin 1..MaxActivities
                 \/ it.transfers # Malformed /\ Len(it.transfers) > MaxTransfers,
                 "OUT_OF_RANGE")

Twins(s, Same(_, _)) == \E i, l \in DOMAIN s : i < l /\ Same(s[i], s[l])

ActivityObjections(it) ==
    LET records == Range(it.activities) \ {Malformed}
        typed   == {x \in records : \A f \in {"release", "min", "max", "deadline"} :
                                        x[f] # Malformed}
        SameId(x, y) == /\ x # Malformed /\ y # Malformed
                        /\ x.id = y.id
    IN Blame(Range(it.activities) # typed, "INVALID_TYPE")
       \cup Blame(\E x \in records : x.id = Malformed, "INVALID_IDENTIFIER")
       \cup Blame(\E x \in records : \/ Outside(x.release, 0, it.horizon)
                                     \/ Outside(x.min, 1, it.horizon)
                                     \/ Outside(x.max, 1, it.horizon)
                                     \/ Outside(x.deadline, 1, it.horizon),
                  "OUT_OF_RANGE")
       \cup Blame(\E x \in records : /\ x.min # Malformed /\ x.max # Malformed
                                     /\ x.min > x.max, "OUT_OF_RANGE")
       \cup Blame(\E x \in typed : x.release + x.min > x.deadline,
                  "INFEASIBLE_DEADLINE")
       \cup Blame(Twins(it.activities, SameId), "DUPLICATE_ACTIVITY_ID")

TransferObjections(it) ==
    LET records == Range(it.transfers) \ {Malformed}
        SamePair(t, u) == /\ t # Malformed /\ u # Malformed
                          /\ t.from = u.from /\ t.to = u.to
    IN Blame(\/ Malformed \in Range(it.transfers)
             \/ \E t \in records : t.min = Malformed, "INVALID_TYPE")
       \cup Blame(\E t \in records : Malformed \in {t.from, t.to}, "INVALID_IDENTIFIER")
       \cup Blame(\E t \in records : Outside(t.min, 0, it.horizon), "OUT_OF_RANGE")
       \cup Blame(Twins(it.transfers, SamePair), "DUPLICATE_TRANSFER")
       \cup Blame(\E t \in records : t.from = t.to, "SELF_TRANSFER")
       \cup Blame(\E t \in records : ~({t.from, t.to} \subseteq IdsOf(it)),
                  "UNKNOWN_TRANSFER_REFERENCE")

(* The objections of the first stage that has any.                         *)
Objections(it) ==
    HeaderObjections(it) ?? ActivityObjections(it) ?? TransferObjections(it) ??
    Blame(HasCycle(IdsOf(it), EdgesOf(it)), "DEPENDENCY_CYCLE") ??
    Blame(~IsSchedulable(it, MinDurations(it)), "INFEASIBLE_DEADLINE")
=============================================================================
