----------------------------- MODULE MCJsonText -----------------------------
(***************************************************************************)
(* Instance of JsonText: up to two digits are permitted, and there are     *)
(* integers on either side of that limit and of zero.                      *)
(***************************************************************************)
EXTENDS JsonText

Numeral(minus, digits, value) == [minus |-> minus, digits |-> digits, value |-> value]

SampleNumerals ==
    [c \in {"7", "-7", "99", "-99", "100", "-100"} |->
        CASE c = "7"    -> Numeral(FALSE, 1, 7)
          [] c = "-7"   -> Numeral(TRUE, 1, -7)
          [] c = "99"   -> Numeral(FALSE, 2, 99)
          [] c = "-99"  -> Numeral(TRUE, 2, -99)
          [] c = "100"  -> Numeral(FALSE, 3, 100)
          [] c = "-100" -> Numeral(TRUE, 3, -100)]
=============================================================================
