----------------------------- MODULE MCAnalysis -----------------------------
(***************************************************************************)
(* Instances of Analysis: three activities with every graph of three       *)
(* transfers.  Init leaves out the inputs the validator refuses.           *)
(***************************************************************************)
EXTENDS Analysis

Header(activities, transfers) ==
    [schema |-> 1, id |-> 0, anchor |-> TRUE, horizon |-> MaxHorizon,
     activities |-> activities, transfers |-> transfers]

Timed(a, release, min, max, deadline) ==
    [id |-> a, release |-> release, min |-> min, max |-> max, deadline |-> deadline]

Edge(p, a, lag) == [from |-> p, to |-> a, min |-> lag]

(* Fixed or uncertain, early or late, tight or loose; declared out of      *)
(* lexical order.                                                          *)
Profiles(a) == {Timed(a, 0, 1, 2, 3), Timed(a, 0, 1, 1, 5), Timed(a, 1, 1, 2, 4)}

(* Chains, joins, forks and triangles, in the order of the identifiers and *)
(* against it, with and without a transfer time.                           *)
Shapes ==
    {<< >>, <<Edge(1, 2, 0)>>, <<Edge(3, 1, 1)>>}
    \cup {<<Edge(1, 2, l), Edge(2, 3, m)>> : l, m \in 0..1}
    \cup {<<Edge(3, 2, l), Edge(2, 1, m)>> : l, m \in 0..1}
    \cup {<<Edge(2, 3, l), Edge(1, 3, m)>> : l, m \in 0..1}
    \cup {<<Edge(2, 1, l), Edge(2, 3, m)>> : l, m \in 0..1}
    \cup {<<Edge(2, 3, l), Edge(1, 3, m), Edge(1, 2, 0)>> : l \in 0..1, m \in 0..2}

EnvelopeInputs ==
    {Header(<<x, y, z>>, transfers) :
        x \in Profiles(2), y \in Profiles(1), z \in Profiles(3), transfers \in Shapes}
=============================================================================
