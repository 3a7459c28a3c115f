------------------------------- MODULE Faults -------------------------------
(***************************************************************************)
(* How the program says that something is wrong.  A fault is a set of      *)
(* error codes, empty when nothing is wrong.  Blame is one check of the    *)
(* code, "if bad: _fail(code)", and f ?? g is the check f followed by the  *)
(* check g, which runs only when f passed.                                 *)
(***************************************************************************)

Blame(bad, code) == IF bad THEN {code} ELSE {}

f ?? g == IF f # {} THEN f ELSE g
=============================================================================
