-------------------------- MODULE ItineraryContract --------------------------
(***************************************************************************)
(* What validate_itinerary promises its callers, without saying how: one   *)
(* step decides.  An itinerary no stage objects to is accepted with the    *)
(* lexically least topological order of its activities; any other is       *)
(* refused with an objection of the first stage that has one.              *)
(***************************************************************************)
EXTENDS Itineraries

VARIABLES itinerary, verdict

Pending == [code |-> "PENDING", order |-> << >>]

Verdicts(it) ==
    LET objections == Objections(it) IN
    IF objections # {}
      THEN [code: objections, order: {<< >>}]
      ELSE LET ids == IdsOf(it) IN
           [code: {"ACCEPTED"},
            order: {p \in Bijection(1..Cardinality(ids), ids) :
                       IsLeastOrder(p, ids, EdgesOf(it))}]

Init == verdict = Pending

Decide == /\ verdict = Pending
          /\ verdict' # Pending
          /\ verdict' \in Verdicts(itinerary)
          /\ UNCHANGED itinerary

Decided == verdict # Pending

SafeSpec == Init /\ [][Decide]_<<itinerary, verdict>>

Spec == SafeSpec /\ <>Decided
=============================================================================
