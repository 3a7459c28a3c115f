----------------------------- MODULE MCCompiler -----------------------------
(***************************************************************************)
(* Instances of Compiler: three activities declared out of order, every    *)
(* sequence of two transfers and triangles in all their orders.  Init      *)
(* leaves out the inputs the validator refuses.                            *)
(***************************************************************************)
EXTENDS Compiler

Header(activities, transfers) ==
    [schema |-> 1, id |-> 0, anchor |-> TRUE, horizon |-> MaxHorizon,
     activities |-> activities, transfers |-> transfers]

Timed(a, release, min, max, deadline) ==
    [id |-> a, release |-> release, min |-> min, max |-> max, deadline |-> deadline]

Arcs == {[from |-> p, to |-> a, min |-> lag] : p, a \in 1..3, lag \in 0..1}

Profiles(a) == {Timed(a, 0, 1, 2, 3), Timed(a, 1, 1, 1, 3), Timed(a, 0, 1, 1, 1)}

Lists == UNION {[1..n -> Arcs] : n \in 0..2}
         \cup {s \in [1..3 -> {t \in Arcs : t.min = 0}] :
                  \A i, j \in 1..3 : i # j => {s[i].from, s[i].to} # {s[j].from, s[j].to}}

CompilerInputs ==
    {Header(<<x, y, Timed(3, 0, 1, 2, 3)>>, transfers) :
        x \in Profiles(2), y \in Profiles(1), transfers \in Lists}

(* One before the anchor, and up to the latest deadline.                    *)
CompilerTimes == -1..MaxHorizon
=============================================================================
