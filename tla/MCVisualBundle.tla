--------------------------- MODULE MCVisualBundle ---------------------------
(***************************************************************************)
(* Instance of VisualBundle: versions of the library that keep the         *)
(* contract and versions that break it, each in a way of its own.          *)
(***************************************************************************)
EXTENDS VisualBundle, TLC

Symmetry == Permutations(Runs)

(* Program 0 and 1 keep the contract.  Program 2 accepts an unknown field  *)
(* of fixture 0, and encodes fixture 1 in the order it was written in.     *)
Answers(p, f) ==
    [probe \in Probes |->
        [code    |-> IF p = 2 /\ f = 0 /\ probe = "unknown_field"
                     THEN Accepted ELSE ExpectedCode[probe],
         digests |-> CASE ExpectedCode[probe] # Accepted -> <<0, 0>>
                       [] p = 2 /\ f = 1 /\ probe = "accepted_reordered" -> <<3, 3>>
                       [] OTHER -> <<1 + f, 1 + f>>]]

Library == [v \in Programs \X Fixtures |-> Answers(v[1], v[2])]
=============================================================================
