--------------------------- MODULE JsonTextProofs ---------------------------
(***************************************************************************)
(* Proofs about JsonText, for every depth limit, every set of keys and     *)
(* texts of any length: the four invariants the run checks.                *)
(*                                                                         *)
(* The inductive invariant IInv says of the parser that its stack and its  *)
(* expectation agree (Grammar), of both that they agree until one refuses  *)
(* (Together, Within), and why either refused (Refusals, Twins, Sized).    *)
(* ParserMoves tells what a character does to the parser; ReadLemma sets   *)
(* it beside the scan.                                                     *)
(***************************************************************************)
EXTENDS JsonText, SequenceTheorems, TLAPS

Frame == [kind : {"{", "["}, keys : Seq(Keys)]

KeyStates == {"key", "key or close", "key string", "key escape", "colon", "comma",
              "value or close"}

Escapes == {"key escape", "value escape"}

Expectations == KeyStates \cup StringStates \cup {"value", "end"}

(* What the parser expects fits its open objects and arrays.               *)
Grammar ==
    /\ stack \in Seq(Frame)
    /\ expect \in Expectations
    /\ expect \in KeyStates => stack # << >>
    /\ expect = "end" => stack = << >>

Codes == {"INVALID_JSON", "DUPLICATE_JSON_KEY", "OUT_OF_RANGE", "INVALID_TYPE"}

Types ==
    /\ inString \in BOOLEAN /\ escaped \in BOOLEAN
    /\ depth \in -1..(MaxDepth + 1)
    /\ scanned = "ok" => depth \in 0..MaxDepth
    /\ parsed \in Codes \cup {"ok"}
    /\ length \in 0..MaxLength
    /\ verdict \in Codes \cup {"PENDING", "DECODED", "INPUT_TOO_DEEP"}

Together == ScanFollowsParser

Within == ParserNestsWithinLimit

(* The scan refuses for one of two reasons, and for the second only what   *)
(* the parser has refused too.                                             *)
Refusals ==
    /\ scanned \in {"ok", "INPUT_TOO_DEEP", "INVALID_JSON"}
    /\ scanned = "INPUT_TOO_DEEP" => depth > MaxDepth
    /\ scanned = "INVALID_JSON" => parsed # "ok"

HasTwins(frame) == RejectDuplicateKeys(frame.keys)

(* A parser that goes on has met no number it should refuse, and still has *)
(* every object open in which a key occurred twice.                        *)
Twins ==
    parsed = "ok" =>
        /\ flaws \subseteq {"twins"}
        /\ flaws # {} => \E i \in DOMAIN stack : HasTwins(stack[i])

(* It refuses an integer for its digits if and only if it is too large.    *)
Sized == parsed = "OUT_OF_RANGE" <=> "large" \in flaws

Decoded == DecodedTextIsClean

IInv == Grammar /\ Types /\ Together /\ Within /\ Refusals /\ Twins /\ Sized /\ Decoded

-----------------------------------------------------------------------------
(* What the parser did with c, as far as the scan could tell.              *)
Moved(c) ==
    /\ expect \in StringStates =>
          /\ Len(stack') = Len(stack)
          /\ expect' \in StringStates <=> (expect \in Escapes \/ c # "quote")
          /\ expect' \in Escapes <=> (expect \notin Escapes /\ c = "backslash")
    /\ expect \notin StringStates =>
          /\ Opens(c) => Len(stack') = Len(stack) + 1
          /\ Closes(c) => Len(stack) > 0 /\ Len(stack') = Len(stack) - 1
          /\ ~Opens(c) /\ ~Closes(c) => Len(stack') = Len(stack)
          /\ expect' \notin Escapes
          /\ expect' \in StringStates <=> c = "quote"

(* Popping a frame that has no duplicate keys loses none.                  *)
LEMMA CloseLemma ==
  ASSUME Grammar, stack # << >>, Close
  PROVE  \/ parsed' = "DUPLICATE_JSON_KEY" /\ stack' = stack /\ expect' = expect
         \/ /\ parsed' = parsed /\ stack' \in Seq(Frame) /\ Len(stack') = Len(stack) - 1
            /\ expect' = AfterValue(stack')
            /\ flaws' = flaws
            /\ (\E i \in DOMAIN stack : HasTwins(stack[i]))
                  => \E i \in DOMAIN stack' : HasTwins(stack'[i])
<1>1. CASE RejectDuplicateKeys(Top.keys)
  BY <1>1 DEF Close, Raise
<1>2. CASE ~RejectDuplicateKeys(Top.keys)
  <2> DEFINE n == Len(stack)
  <2>1. stack' = SubSeq(stack, 1, n - 1) /\ expect' = AfterValue(stack') /\ parsed' = parsed
        /\ flaws' = flaws
    BY <1>2 DEF Close, Proceed, Below
  <2>2. stack \in Seq(Frame) /\ n \in Nat \ {0}
    BY DEF Grammar
  <2>3. stack' \in Seq(Frame) /\ Len(stack') = n - 1 /\ \A i \in 1..(n - 1) : stack'[i] = stack[i]
    <3>1. PICK m \in Nat : m = n - 1 /\ 1..m \subseteq 1..n
      BY <2>2
    <3>2. \A i \in 1..m : stack[i] \in Frame
      BY <3>1, <2>2
    <3>3. /\ SubSeq(stack, 1, m) \in Seq(Frame)
          /\ Len(SubSeq(stack, 1, m)) = IF 1 <= m THEN m - 1 + 1 ELSE 0
          /\ \A i \in 1..(m - 1 + 1) : SubSeq(stack, 1, m)[i] = stack[1 + i - 1]
      BY <3>2, SubSeqProperties
    <3>4. Len(SubSeq(stack, 1, m)) = m /\ \A i \in 1..m : SubSeq(stack, 1, m)[i] = stack[i]
      BY <3>3
    <3> QED  BY <3>1, <3>3, <3>4, <2>1
  <2>4. ~HasTwins(stack[n])
    BY <1>2 DEF HasTwins, Top
  <2>5. ASSUME NEW i \in DOMAIN stack, HasTwins(stack[i])
        PROVE  i \in DOMAIN stack' /\ HasTwins(stack'[i])
    <3>1. i \in 1..n /\ i # n
      BY <2>2, <2>4, <2>5
    <3>2. stack'[i] = stack[i] /\ i \in DOMAIN stack'
      BY <3>1, <2>2, <2>3
    <3> QED  BY <3>2, <2>5
  <2> QED  BY <2>1, <2>3, <2>5
<1> QED  BY <1>1, <1>2

(* A key is recorded in the innermost object; a repeated one makes twins.  *)
LEMMA EndKeyLemma ==
  ASSUME Grammar, stack # << >>, EndKey
  PROVE  /\ stack' \in Seq(Frame) /\ Len(stack') = Len(stack)
         /\ expect' = "colon" /\ parsed' = parsed
         /\ flaws' \subseteq flaws \cup {"twins"}
         /\ flaws' # flaws => \E i \in DOMAIN stack' : HasTwins(stack'[i])
         /\ (\E i \in DOMAIN stack : HasTwins(stack[i]))
               => \E i \in DOMAIN stack' : HasTwins(stack'[i])
<1> DEFINE n == Len(stack)
<1>1. stack \in Seq(Frame) /\ n \in Nat \ {0}
  BY DEF Grammar
<1>2. PICK key \in Keys :
         /\ stack' = [stack EXCEPT ![n].keys = Append(@, key)]
         /\ flaws' = IF key \in Range(Top.keys) THEN flaws \cup {"twins"} ELSE flaws
         /\ expect' = "colon" /\ parsed' = parsed
  BY DEF EndKey
<1> DEFINE old == stack[n].keys
           new == Append(old, key)
<1>3. stack[n] \in Frame /\ old \in Seq(Keys)
  <2>1. stack[n] \in Frame
    BY <1>1, ElementOfSeq
  <2> QED  BY <2>1 DEF Frame
<1>4. new \in Seq(Keys) /\ Len(new) = Len(old) + 1 /\ new[Len(new)] = key
      /\ \A i \in 1..Len(old) : new[i] = old[i]
  BY <1>3
<1>5. /\ stack' \in Seq(Frame) /\ Len(stack') = n /\ DOMAIN stack' = 1..n
      /\ \A i \in 1..n : i # n => stack'[i] = stack[i]
      /\ stack'[n].keys = new
  <2> DEFINE top == [stack[n] EXCEPT !.keys = new]
  <2>1. stack' = [stack EXCEPT ![n] = top]
    BY <1>2
  <2>2. top \in Frame /\ top.keys = new
    BY <1>3, <1>4 DEF Frame
  <2>3. stack' \in Seq(Frame) /\ Len(stack') = n /\ DOMAIN stack' = 1..n /\ stack'[n] = top
    <3> HIDE DEF top
    <3> QED  BY <2>1, <2>2, <1>1
  <2> QED  BY <2>1, <2>2, <2>3, <1>1
<1>6. ASSUME NEW i \in DOMAIN stack, HasTwins(stack[i])
      PROVE  i \in DOMAIN stack' /\ HasTwins(stack'[i])
  <2>1. i \in 1..n
    BY <1>1
  <2>2. CASE i # n
    BY <2>1, <2>2, <1>5, <1>6
  <2>3. CASE i = n
    <3>1. PICK a, b \in DOMAIN old : a < b /\ old[a] = old[b]
      BY <1>6, <2>3 DEF HasTwins, RejectDuplicateKeys
    <3>2. a \in DOMAIN new /\ b \in DOMAIN new /\ new[a] = new[b]
      BY <3>1, <1>3, <1>4
    <3> QED  BY <3>1, <3>2, <2>1, <2>3, <1>5 DEF HasTwins, RejectDuplicateKeys
  <2> QED  BY <2>2, <2>3
<1>7. ASSUME flaws' # flaws
      PROVE  HasTwins(stack'[n])
  <2>1. key \in Range(old)
    BY <1>2, <1>7 DEF Top
  <2>2. PICK a \in DOMAIN old : old[a] = key
    BY <2>1 DEF Range
  <2>3. a \in DOMAIN new /\ Len(new) \in DOMAIN new /\ a < Len(new) /\ new[a] = new[Len(new)]
    BY <2>2, <1>3, <1>4
  <2> QED  BY <2>3, <1>5 DEF HasTwins, RejectDuplicateKeys
<1>8. n \in DOMAIN stack'
  <2>1. n \in 1..n
    BY <1>1
  <2> QED  BY <2>1, <1>5
<1>9. flaws' \subseteq flaws \cup {"twins"}
  BY <1>2
<1> QED  BY <1>2, <1>5, <1>6, <1>7, <1>8, <1>9

(* What is written of an integer tells whether it is too large.            *)
LEMMA DigitsTell ==
  ASSUME NEW c \in IntegerTokens
  PROVE  /\ Digits(c) > MaxDigits <=> IsLarge(c)
         /\ Digits(c) <= MaxDigits <=> ~(Digits(c) > MaxDigits)
<1>1. Digits(c) = Numerals[c].digits /\ Digits(c) \in Nat
  <2>1. Numerals[c].digits \in Nat
    BY NumeralsAssumption
  <2>2. CASE Numerals[c].minus
    BY <2>1, <2>2 DEF Digits, Length
  <2>3. CASE ~Numerals[c].minus
    BY <2>1, <2>3 DEF Digits, Length
  <2> QED  BY <2>1, <2>2, <2>3
<1>2. Numerals[c].digits <= MaxDigits <=> ~IsLarge(c)
  BY NumeralsAssumption DEF IsLarge
<1>3. MaxDigits \in Nat
  BY NumeralsAssumption
<1> QED  BY <1>1, <1>2, <1>3

(* A parser that has not refused either refuses now, changing nothing, or  *)
(* makes the move c stands for.                                            *)
LEMMA ParserMoves ==
  ASSUME Grammar, Twins, NEW c \in Characters, Parse(c)
  PROVE  /\ Grammar' /\ Twins'
         /\ parsed' = "ok" => parsed = "ok" /\ Moved(c)
         /\ parsed' # "ok" => stack' = stack
         /\ parsed # "ok" => parsed' = parsed
<1>1. CASE parsed # "ok"
  BY <1>1 DEF Parse, parse, Grammar, Twins, HasTwins
<1>2. CASE parsed = "ok" /\ expect \in StringStates
  <2> SUFFICES ASSUME ParseInString(c) PROVE Grammar' /\ Twins' /\ (parsed' = "ok" => Moved(c))
                                             /\ (parsed' # "ok" => stack' = stack)
    BY <1>2 DEF Parse
  <2>1. ASSUME NEW code, code # "ok", Raise(code)
        PROVE  Grammar' /\ Twins' /\ parsed' # "ok" /\ stack' = stack
    BY <2>1 DEF Raise, Grammar, Twins
  <2>2. ASSUME NEW next, Proceed(stack, next), next \in Expectations \ {"end"},
               next \in KeyStates => expect \in KeyStates
        PROVE  Grammar' /\ Twins' /\ parsed' = "ok" /\ stack' = stack /\ expect' = next
    BY <1>2, <2>2 DEF Proceed, Grammar, Twins, HasTwins
  <2>3. CASE /\ expect \in {"key string", "value string"} /\ c = "backslash"
             /\ Proceed(stack, IF expect = "key string" THEN "key escape" ELSE "value escape")
    <3> DEFINE next == IF expect = "key string" THEN "key escape" ELSE "value escape"
    <3>1. next \in Expectations \ {"end"} /\ (next \in KeyStates => expect \in KeyStates)
      BY <2>3 DEF Expectations, KeyStates, StringStates
    <3>2. Grammar' /\ Twins' /\ parsed' = "ok" /\ stack' = stack /\ expect' = next
      BY <2>2, <2>3, <3>1
    <3> QED  BY <3>2, <2>3, <1>2 DEF Moved, StringStates, Escapes
  <2>4. CASE c = "quote" /\ expect = "key string" /\ EndKey
    <3>1. stack # << >>
      BY <2>4 DEF Grammar, KeyStates
    <3>2. /\ stack' \in Seq(Frame) /\ Len(stack') = Len(stack)
          /\ expect' = "colon" /\ parsed' = parsed
          /\ flaws' \subseteq flaws \cup {"twins"}
          /\ flaws' # flaws => \E i \in DOMAIN stack' : HasTwins(stack'[i])
          /\ (\E i \in DOMAIN stack : HasTwins(stack[i]))
                => \E i \in DOMAIN stack' : HasTwins(stack'[i])
      BY <3>1, <2>4, EndKeyLemma
    <3>3. Grammar'
      <4>1. stack' # << >>
        BY <3>1, <3>2 DEF Grammar
      <4> QED  BY <4>1, <3>2 DEF Grammar, Expectations, KeyStates
    <3>4. Twins'
      <4>1. /\ flaws \subseteq {"twins"}
            /\ flaws # {} => \E i \in DOMAIN stack : HasTwins(stack[i])
        BY <1>2 DEF Twins
      <4>2. /\ flaws' \subseteq {"twins"}
            /\ flaws' # {} => \E i \in DOMAIN stack' : HasTwins(stack'[i])
        BY <4>1, <3>2
      <4> QED  BY <4>2 DEF Twins, HasTwins
    <3>5. Moved(c)
      BY <3>2, <2>4 DEF Moved, StringStates, Escapes
    <3> QED  BY <3>2, <3>3, <3>4, <3>5, <1>2
  <2>5. CASE c = "quote" /\ expect = "value string" /\ Proceed(stack, AfterValue(stack))
    <3>1. /\ stack' = stack /\ parsed' = "ok" /\ flaws' = flaws
          /\ expect' = IF stack = << >> THEN "end" ELSE "comma"
      BY <2>5, <1>2 DEF Proceed, AfterValue
    <3>2. Grammar' /\ Twins'
      BY <3>1, <1>2 DEF Grammar, Twins, HasTwins, Expectations, KeyStates
    <3> QED  BY <3>1, <3>2, <2>5 DEF Moved, StringStates, Escapes
  <2>6. CASE expect \in {"key string", "value string"} /\ c \notin {"backslash", "quote"}
             /\ Proceed(stack, expect)
    <3>1. Grammar' /\ Twins' /\ parsed' = "ok" /\ stack' = stack /\ expect' = expect
      BY <2>2, <2>6 DEF Expectations, StringStates
    <3> QED  BY <3>1, <2>6 DEF Moved, StringStates, Escapes
  <2>7. CASE expect \in Escapes /\ c \in {"quote", "backslash", "x"}
             /\ Proceed(stack, IF expect = "key escape" THEN "key string" ELSE "value string")
    <3>1. /\ stack' = stack /\ parsed' = "ok" /\ flaws' = flaws
          /\ expect' = IF expect = "key escape" THEN "key string" ELSE "value string"
      BY <2>7, <1>2 DEF Proceed
    <3>2. Grammar'
      BY <3>1, <2>7 DEF Grammar, Expectations, KeyStates, StringStates, Escapes
    <3>3. Twins'
      BY <3>1, <1>2 DEF Twins, HasTwins
    <3> QED  BY <3>1, <3>2, <3>3, <2>7, <1>2 DEF Moved, StringStates, Escapes
  <2>8. CASE Raise("INVALID_JSON")
    BY <2>1, <2>8
  <2> QED  BY <2>3, <2>4, <2>5, <2>6, <2>7, <2>8 DEF ParseInString, Escapes
<1>3. CASE parsed = "ok" /\ expect \notin StringStates /\ c \notin Allowed
  <2>1. parsed' # "ok" /\ stack' = stack /\ expect' = expect
    BY <1>3 DEF Parse, Raise
  <2> QED  BY <2>1, <1>3 DEF Grammar, Twins
<1>4. CASE parsed = "ok" /\ expect \notin StringStates /\ c \in Allowed
  <2> SUFFICES ASSUME ParseOutside(c) PROVE Grammar' /\ Twins' /\ (parsed' = "ok" => Moved(c))
                                            /\ (parsed' # "ok" => stack' = stack)
    BY <1>4 DEF Parse
  <2>1. expect # "end" /\ stack \in Seq(Frame)
    BY <1>4 DEF Allowed, Grammar
  <2>2. ASSUME stack' = stack, parsed' = "ok", flaws' = flaws, expect' \in Expectations,
               expect' \in KeyStates => stack # << >>, expect' = "end" => stack = << >>
        PROVE  Grammar' /\ Twins'
    BY <1>4, <2>2 DEF Grammar, Twins, HasTwins
  <2>3. CASE Opens(c) /\ Open(c)
    <3> DEFINE new == [kind |-> c, keys |-> << >>]
    <3>1. /\ stack' = Append(stack, new) /\ parsed' = "ok" /\ flaws' = flaws
          /\ expect' = IF c = "{" THEN "key or close" ELSE "value or close"
      BY <2>3, <1>4 DEF Open, Proceed
    <3>2. new \in Frame
      <4>1. c \in {"{", "["} /\ << >> \in Seq(Keys)
        BY <2>3, EmptySeq DEF Opens
      <4> QED  BY <4>1 DEF Frame
    <3>3. /\ stack' \in Seq(Frame) /\ Len(stack') = Len(stack) + 1 /\ stack' # << >>
          /\ \A i \in DOMAIN stack : i \in DOMAIN stack' /\ stack'[i] = stack[i]
      <4> HIDE DEF new
      <4>1. /\ Append(stack, new) \in Seq(Frame)
            /\ Len(Append(stack, new)) = Len(stack) + 1
            /\ \A i \in 1..Len(stack) : Append(stack, new)[i] = stack[i]
        BY <3>2, <2>1, AppendProperties
      <4>2. Len(stack) \in Nat /\ DOMAIN stack = 1..Len(stack)
        BY <2>1
      <4>3. stack' \in Seq(Frame) /\ Len(stack') = Len(stack) + 1
            /\ DOMAIN stack' = 1..(Len(stack) + 1)
        BY <4>1, <3>1, LenProperties
      <4>4. stack' # << >>
        BY <4>2, <4>3, EmptySeq
      <4>5. \A i \in DOMAIN stack : i \in DOMAIN stack' /\ stack'[i] = stack[i]
        <5>1. 1..Len(stack) \subseteq 1..(Len(stack) + 1)
          BY <4>2
        <5> QED  BY <5>1, <4>1, <4>2, <4>3, <3>1
      <4> QED  BY <4>3, <4>4, <4>5
    <3>4. Grammar'
      BY <3>1, <3>3 DEF Grammar, Expectations, KeyStates
    <3>5. Twins'
      BY <3>1, <3>3, <1>4 DEF Twins, HasTwins
    <3>6. Moved(c)
      BY <3>1, <3>3, <2>3, <1>4 DEF Moved, Opens, Closes, StringStates, Escapes
    <3> QED  BY <3>1, <3>4, <3>5, <3>6
  <2>4. CASE Closes(c) /\ Close
    <3>1. stack # << >>
      <4>1. c \in {"}", "]"} /\ c \notin IntegerTokens
        BY <2>4, NumeralsAssumption DEF Closes, Marks
      <4> QED  BY <4>1, <1>4 DEF Grammar, KeyStates, Expectations, Allowed, StringStates
    <3>2. \/ parsed' = "DUPLICATE_JSON_KEY" /\ stack' = stack /\ expect' = expect
          \/ /\ parsed' = parsed /\ stack' \in Seq(Frame) /\ Len(stack') = Len(stack) - 1
             /\ expect' = AfterValue(stack')
             /\ flaws' = flaws
             /\ (\E i \in DOMAIN stack : HasTwins(stack[i]))
                   => \E i \in DOMAIN stack' : HasTwins(stack'[i])
      BY <3>1, <2>4, CloseLemma
    <3>3. CASE parsed' = "DUPLICATE_JSON_KEY" /\ stack' = stack /\ expect' = expect
      BY <3>3 DEF Grammar, Twins
    <3>4. CASE /\ parsed' = parsed /\ stack' \in Seq(Frame) /\ Len(stack') = Len(stack) - 1
               /\ expect' = AfterValue(stack')
               /\ flaws' = flaws
               /\ (\E i \in DOMAIN stack : HasTwins(stack[i]))
                     => \E i \in DOMAIN stack' : HasTwins(stack'[i])
      <4>1. Grammar'
        BY <3>4 DEF Grammar, AfterValue, Expectations, KeyStates
      <4>2. /\ flaws \subseteq {"twins"}
            /\ flaws # {} => \E i \in DOMAIN stack : HasTwins(stack[i])
        BY <1>4 DEF Twins
      <4>3. Twins'
        <5>1. /\ flaws' \subseteq {"twins"}
              /\ flaws' # {} => \E i \in DOMAIN stack' : HasTwins(stack'[i])
          BY <4>2, <3>4
        <5> QED  BY <5>1 DEF Twins, HasTwins
      <4>4. Len(stack) > 0
        BY <2>1, <3>1
      <4>5. Moved(c)
        BY <3>4, <4>4, <2>4, <1>4 DEF Moved, AfterValue, Opens, Closes, StringStates, Escapes
      <4> QED  BY <4>1, <4>3, <4>5, <3>4, <1>4
    <3> QED  BY <3>2, <3>3, <3>4
  <2>5. CASE c \in IntegerTokens /\ ParseInteger(c)
    <3>1. CASE Digits(c) <= MaxDigits
      <4>1. ~IsLarge(c) /\ ~(Digits(c) > MaxDigits)
        BY <3>1, <2>5, DigitsTell
      <4>2. /\ stack' = stack /\ parsed' = "ok" /\ flaws' = flaws
            /\ expect' = IF stack = << >> THEN "end" ELSE "comma"
        BY <4>1, <2>5, <1>4 DEF ParseInteger, AfterValue
      <4>3. Grammar' /\ Twins'
        BY <4>2, <2>2 DEF Expectations, KeyStates
      <4>4. ~Opens(c) /\ ~Closes(c) /\ c # "quote"
        BY <2>5, NumeralsAssumption DEF Marks, Opens, Closes
      <4> QED  BY <4>2, <4>3, <4>4, <1>4 DEF Moved, StringStates, Escapes
    <3>2. CASE ~(Digits(c) <= MaxDigits)
      <4>1. parsed' # "ok" /\ stack' = stack /\ expect' = expect
        BY <3>2, <2>5, DigitsTell DEF ParseInteger
      <4> QED  BY <4>1 DEF Grammar, Twins
    <3> QED  BY <3>1, <3>2
  <2>9. CASE c = "." /\ RejectNonInteger
    <3>1. parsed' # "ok" /\ stack' = stack /\ expect' = expect
      BY <2>9 DEF RejectNonInteger
    <3> QED  BY <3>1 DEF Grammar, Twins
  <2>6. CASE c = "quote"
             /\ Proceed(stack, IF expect \in {"key", "key or close"} THEN "key string"
                                                                   ELSE "value string")
    <3>1. /\ stack' = stack /\ parsed' = "ok" /\ flaws' = flaws
          /\ expect' = IF expect \in {"key", "key or close"} THEN "key string" ELSE "value string"
      BY <2>6, <1>4 DEF Proceed
    <3>2. Grammar' /\ Twins'
      BY <3>1, <2>2 DEF Expectations, KeyStates, StringStates, Grammar
    <3> QED  BY <3>1, <3>2, <2>6, <1>4 DEF Moved, Opens, Closes, StringStates, Escapes
  <2>7. CASE c = ":" /\ Proceed(stack, "value")
    <3>1. stack' = stack /\ parsed' = "ok" /\ flaws' = flaws /\ expect' = "value"
      BY <2>7, <1>4 DEF Proceed
    <3>2. Grammar' /\ Twins'
      BY <3>1, <2>2 DEF Expectations, KeyStates
    <3> QED  BY <3>1, <3>2, <2>7, <1>4 DEF Moved, Opens, Closes, StringStates, Escapes
  <2>8. CASE c = "," /\ Proceed(stack, IF Top.kind = "{" THEN "key" ELSE "value")
    <3>1. /\ stack' = stack /\ parsed' = "ok" /\ flaws' = flaws
          /\ expect' \in {"key", "value"}
      BY <2>8, <1>4 DEF Proceed
    <3>2. stack # << >>
      <4>1. "," \notin IntegerTokens
        BY NumeralsAssumption DEF Marks
      <4> QED  BY <4>1, <2>8, <1>4 DEF Allowed, Grammar, KeyStates, Expectations, StringStates
    <3>3. Grammar' /\ Twins'
      BY <3>1, <3>2, <2>2 DEF Expectations, KeyStates
    <3> QED  BY <3>1, <3>3, <2>8, <1>4 DEF Moved, Opens, Closes, StringStates, Escapes
  <2> QED  BY <2>3, <2>4, <2>5, <2>6, <2>7, <2>8, <2>9 DEF ParseOutside
<1> QED  BY <1>1, <1>2, <1>3, <1>4

(* It refuses for the digits only what is large, and everything large.     *)
LEMMA ParserSizes ==
  ASSUME Twins, Sized, NEW c \in Characters, Parse(c)
  PROVE  Sized'
<1>1. ASSUME NEW code \in {"INVALID_JSON", "DUPLICATE_JSON_KEY"}, Raise(code), parsed = "ok"
      PROVE  Sized'
  BY <1>1 DEF Raise, Sized
<1>2. ASSUME NEW s, NEW next, Proceed(s, next)
      PROVE  Sized'
  BY <1>2 DEF Proceed, Sized
<1>3. CASE parsed # "ok"
  BY <1>3 DEF Parse, parse, Sized
<1>4. CASE parsed = "ok" /\ expect \in StringStates
  <2>1. CASE EndKey
    BY <2>1 DEF EndKey, Sized
  <2> QED  BY <1>1, <1>2, <1>4, <2>1 DEF Parse, ParseInString
<1>5. CASE parsed = "ok" /\ expect \notin StringStates /\ c \notin Allowed
  BY <1>1, <1>5 DEF Parse
<1>6. CASE parsed = "ok" /\ expect \notin StringStates /\ c \in Allowed
  <2> SUFFICES ASSUME ParseOutside(c) PROVE Sized'
    BY <1>6 DEF Parse
  <2>1. CASE Opens(c) /\ Open(c)
    BY <1>2, <2>1 DEF Open
  <2>2. CASE Closes(c) /\ Close
    BY <1>1, <1>2, <1>6, <2>2 DEF Close
  <2>3. CASE c \in IntegerTokens /\ ParseInteger(c)
    <3>1. Digits(c) > MaxDigits <=> IsLarge(c)
      BY <2>3, DigitsTell
    <3>2. "large" \notin flaws
      BY <1>6 DEF Sized
    <3> QED  BY <3>1, <3>2, <2>3, <1>6 DEF ParseInteger, Sized
  <2>4. CASE c = "." /\ RejectNonInteger
    BY <2>4, <1>6 DEF RejectNonInteger, Sized
  <2> QED  BY <1>2, <2>1, <2>2, <2>3, <2>4 DEF ParseOutside
<1> QED  BY <1>3, <1>4, <1>5, <1>6

LEMMA ParserCodes ==
  ASSUME parsed \in Codes \cup {"ok"}, NEW c \in Characters, Parse(c)
  PROVE  parsed' \in Codes \cup {"ok"}
  BY DEF Codes, Parse, parse, ParseInString, ParseOutside, Raise, Proceed, Open, Close, EndKey,
       ParseInteger, RejectNonInteger

-----------------------------------------------------------------------------
(* The two readers take the same character.                                *)
LEMMA ReadLemma ==
  ASSUME IInv, ReadCharacter, NEW c \in Characters, Scan(c), Parse(c)
  PROVE  /\ Grammar' /\ Types' /\ Together' /\ Within' /\ Refusals' /\ Twins' /\ Sized'
<1> USE DEF IInv
<1>1. /\ Grammar' /\ Twins'
      /\ parsed' = "ok" => parsed = "ok" /\ Moved(c)
      /\ parsed' # "ok" => stack' = stack
      /\ parsed # "ok" => parsed' = parsed
  BY ParserMoves
<1>9. Sized'
  BY ParserSizes
<1>2. MaxDepth \in Nat /\ Len(stack) \in Nat /\ Len(stack') \in Nat
  <2>1. stack \in Seq(Frame) /\ stack' \in Seq(Frame)
    BY <1>1 DEF Grammar
  <2> QED  BY <2>1, LimitsAssumption, LenProperties
<1> DEFINE Others == /\ parsed' \in Codes \cup {"ok"}
                     /\ length' \in 0..MaxLength
                     /\ verdict' \in Codes \cup {"PENDING", "DECODED", "INPUT_TOO_DEEP"}
<1>0. Others
  <2>1. parsed' \in Codes \cup {"ok"}
    BY ParserCodes DEF Types
  <2>2. length' \in 0..MaxLength
    BY LimitsAssumption DEF ReadCharacter, Types
  <2> QED  BY <2>1, <2>2 DEF ReadCharacter, Types
<1>3. CASE scanned # "ok"
  <2>1. scanned' = scanned /\ depth' = depth /\ inString' = inString /\ escaped' = escaped
    BY <1>3 DEF Scan, scan
  <2> QED  BY <1>0, <1>1, <1>3, <1>9, <2>1 DEF Types, Together, ScanFollowsParser, Within,
                                ParserNestsWithinLimit, Refusals
<1>4. CASE scanned = "ok" /\ inString
  <2>1. /\ escaped' = (~escaped /\ c = "backslash")
        /\ inString' = (escaped \/ c # "quote")
        /\ depth' = depth /\ scanned' = "ok"
    BY <1>4 DEF Scan, ScanInString
  <2>2. Types' /\ Refusals'
    <3>1. inString' \in BOOLEAN /\ escaped' \in BOOLEAN
      BY <2>1 DEF Types
    <3> QED  BY <3>1, <1>0, <2>1, <1>4 DEF Types, Refusals
  <2>3. ASSUME parsed' = "ok" PROVE ScanFollowsParser' /\ Len(stack') = Len(stack)
    <3>1. parsed = "ok" /\ Moved(c)
      BY <1>1, <2>3
    <3>2. /\ depth = Len(stack) /\ expect \in StringStates
          /\ escaped <=> expect \in Escapes
      BY <3>1, <1>4 DEF Together, ScanFollowsParser, Escapes
    <3>3. /\ Len(stack') = Len(stack)
          /\ expect' \in StringStates <=> (expect \in Escapes \/ c # "quote")
          /\ expect' \in Escapes <=> (expect \notin Escapes /\ c = "backslash")
      BY <3>1, <3>2 DEF Moved
    <3> QED  BY <3>2, <3>3, <2>1 DEF ScanFollowsParser, Escapes, StringStates
  <2>4. Together'
    BY <2>3 DEF Together, ScanFollowsParser
  <2>5. Within'
    <3>1. Len(stack') = Len(stack)
      BY <2>3, <1>1
    <3> QED  BY <3>1, <1>4, <2>1 DEF Within, ParserNestsWithinLimit
  <2> QED  BY <1>1, <1>9, <2>2, <2>4, <2>5
<1>5. CASE scanned = "ok" /\ ~inString
  <2>1. /\ inString' = (c = "quote")
        /\ depth' = IF Opens(c) THEN depth + 1 ELSE IF Closes(c) THEN depth - 1 ELSE depth
        /\ scanned' = IF Opens(c) /\ TooDeep THEN "INPUT_TOO_DEEP"
                      ELSE IF Closes(c) /\ depth = 0 THEN "INVALID_JSON" ELSE "ok"
        /\ escaped' = escaped
    BY <1>5 DEF Scan, ScanOutside
  <2>2. Types'
    <3>1. depth \in 0..MaxDepth
      BY <1>5 DEF Types
    <3>2. depth' \in -1..(MaxDepth + 1)
      BY <3>1, <2>1, <1>2
    <3>3. scanned' = "ok" => depth' \in 0..MaxDepth
      <4>1. CASE Opens(c)
        BY <4>1, <3>1, <2>1, <1>2 DEF TooDeep
      <4>2. CASE ~Opens(c) /\ Closes(c)
        BY <4>2, <3>1, <2>1, <1>2
      <4>3. CASE ~Opens(c) /\ ~Closes(c)
        BY <4>3, <3>1, <2>1
      <4> QED  BY <4>1, <4>2, <4>3
    <3>4. inString' \in BOOLEAN
      BY <2>1
    <3>5. escaped' \in BOOLEAN
      BY <2>1 DEF Types
    <3> QED  BY <3>2, <3>3, <3>4, <3>5, <1>0 DEF Types
  <2>3. ASSUME parsed' = "ok"
        PROVE  /\ ScanFollowsParser' /\ scanned' # "INVALID_JSON"
               /\ scanned' = "ok" => Len(stack') <= MaxDepth
    <3>1. parsed = "ok" /\ Moved(c)
      BY <1>1, <2>3
    <3>2. depth = Len(stack) /\ expect \notin StringStates /\ ~escaped
      BY <3>1, <1>5 DEF Together, ScanFollowsParser, StringStates
    <3>3. /\ Opens(c) => Len(stack') = Len(stack) + 1
          /\ Closes(c) => Len(stack) > 0 /\ Len(stack') = Len(stack) - 1
          /\ ~Opens(c) /\ ~Closes(c) => Len(stack') = Len(stack)
          /\ expect' \notin Escapes
          /\ expect' \in StringStates <=> c = "quote"
      BY <3>1, <3>2 DEF Moved
    <3>4. ScanFollowsParser'
      BY <3>2, <3>3, <2>1 DEF ScanFollowsParser, Escapes
    <3>5. scanned' # "INVALID_JSON"
      <4>1. CASE Closes(c)
        <5>1. Len(stack) > 0 /\ depth = Len(stack)
          BY <4>1, <3>2, <3>3
        <5>2. depth # 0
          BY <5>1, <1>2
        <5> QED  BY <5>2, <2>1
      <4>2. CASE ~Closes(c)
        BY <4>2, <2>1
      <4> QED  BY <4>1, <4>2
    <3>6. Len(stack) <= MaxDepth
      BY <1>5 DEF Within, ParserNestsWithinLimit
    <3>7. scanned' = "ok" => Len(stack') <= MaxDepth
      <4>1. CASE Opens(c)
        <5>1. scanned' = "ok" => depth + 1 <= MaxDepth
          <6>1. scanned' = "ok" => ~(depth + 1 > MaxDepth)
            BY <4>1, <2>1 DEF TooDeep
          <6> QED  BY <6>1, <3>2, <1>2
        <5> QED  BY <5>1, <4>1, <3>2, <3>3
      <4>2. CASE ~Opens(c)
        <5>1. Len(stack') = Len(stack) \/ Len(stack') = Len(stack) - 1
          BY <4>2, <3>3
        <5>2. Len(stack') <= Len(stack)
          BY <5>1, <1>2
        <5> QED  BY <5>2, <3>6, <1>2
      <4> QED  BY <4>1, <4>2
    <3> QED  BY <3>4, <3>5, <3>7
  <2>4. Together'
    BY <2>3 DEF Together, ScanFollowsParser
  <2>5. Within'
    BY <2>3, <1>1, <1>5 DEF Within, ParserNestsWithinLimit
  <2>6. Refusals'
    <3>1. scanned' = "INPUT_TOO_DEEP" => depth' > MaxDepth
      BY <2>1, <1>2 DEF TooDeep, Types
    <3> QED  BY <3>1, <2>1, <2>3 DEF Refusals
  <2> QED  BY <1>1, <1>9, <2>2, <2>4, <2>5, <2>6
<1> QED  BY <1>3, <1>4, <1>5, <1>9 DEF Types

LEMMA Initially == Init => IInv
<1> SUFFICES ASSUME Init PROVE IInv
  OBVIOUS
<1>1. stack = << >> /\ Len(stack) = 0 /\ stack \in Seq(Frame) /\ MaxDepth \in Nat
  BY LimitsAssumption, EmptySeq DEF Init
<1>2. Grammar
  BY <1>1 DEF Init, Grammar, Expectations, KeyStates
<1>3. Types
  <2>1. 0 \in -1..(MaxDepth + 1) /\ 0 \in 0..MaxDepth /\ 0 \in 0..MaxLength
    BY LimitsAssumption
  <2> QED  BY <2>1 DEF Init, Types
<1>4. Refusals /\ Decoded
  BY DEF Init, Refusals, Decoded, DecodedTextIsClean
<1>5. Twins /\ Sized
  BY DEF Init, Twins, Sized
<1>6. Together
  BY <1>1 DEF Init, Together, ScanFollowsParser, StringStates
<1>7. Within
  BY <1>1 DEF Init, Within, ParserNestsWithinLimit
<1> QED  BY <1>2, <1>3, <1>4, <1>5, <1>6, <1>7 DEF IInv

LEMMA Inductive == IInv /\ [Next]_vars => IInv'
<1> SUFFICES ASSUME IInv, [Next]_vars PROVE IInv'
  OBVIOUS
<1>1. CASE ReadCharacter
  <2>1. PICK c \in Characters : Scan(c) /\ Parse(c)
    BY <1>1 DEF ReadCharacter
  <2>2. Grammar' /\ Types' /\ Together' /\ Within' /\ Refusals' /\ Twins' /\ Sized'
    BY <1>1, <2>1, ReadLemma
  <2>3. Decoded'
    BY <1>1 DEF ReadCharacter, Decoded, DecodedTextIsClean
  <2> QED  BY <2>2, <2>3 DEF IInv
<1>2. CASE EndOfText
  <2>1. Grammar' /\ Types' /\ Together' /\ Within' /\ Refusals' /\ Twins' /\ Sized'
    <3>1. Grammar' /\ Together' /\ Within' /\ Refusals' /\ Twins' /\ Sized'
      <4>1. UNCHANGED <<depth, inString, escaped, scanned, stack, expect, parsed, flaws>>
        BY <1>2 DEF EndOfText, scan, parse
      <4>2. Grammar' /\ Twins' /\ Sized'
        BY <4>1 DEF IInv, Grammar, Twins, HasTwins, Sized
      <4>3. Together' /\ Within' /\ Refusals'
        BY <4>1 DEF IInv, Together, ScanFollowsParser, Within, ParserNestsWithinLimit, Refusals
      <4> QED  BY <4>2, <4>3
    <3>2. Types'
      <4>1. ScanVerdict \in Codes \cup {"ok", "INPUT_TOO_DEEP"}
        BY DEF ScanVerdict, IInv, Refusals, Codes
      <4>2. ParseVerdict \in Codes \cup {"ok"}
        BY DEF ParseVerdict, IInv, Types, Codes
      <4>3. verdict' \in Codes \cup {"PENDING", "DECODED", "INPUT_TOO_DEEP"}
        BY <4>1, <4>2, <1>2 DEF EndOfText
      <4> QED  BY <4>3, <1>2 DEF EndOfText, scan, parse, IInv, Types
    <3> QED  BY <3>1, <3>2
  <2>2. ASSUME verdict' = "DECODED" PROVE flaws' = {} /\ stack' = << >>
    <3>1. parsed = "ok" /\ expect = "end"
      <4>1. ScanVerdict = "ok" \/ ScanVerdict \in {"INPUT_TOO_DEEP", "INVALID_JSON"}
        BY DEF ScanVerdict, IInv, Refusals
      <4>2. parsed # "DECODED"
        BY DEF IInv, Types, Codes
      <4>3. ScanVerdict = "ok" /\ ParseVerdict = "ok"
        <5>1. ParseVerdict # "DECODED"
          BY <4>2 DEF ParseVerdict
        <5> QED  BY <5>1, <4>1, <1>2, <2>2 DEF EndOfText
      <4> QED  BY <4>3 DEF ParseVerdict
    <3>2. stack = << >> /\ flaws = {}
      <4>1. stack = << >>
        BY <3>1 DEF IInv, Grammar
      <4>2. DOMAIN stack = {}
        BY <4>1
      <4> QED  BY <3>1, <4>1, <4>2 DEF IInv, Twins
    <3> QED  BY <3>2, <1>2 DEF EndOfText, parse
  <2>3. ASSUME ScanVerdict' = "ok"
        PROVE  verdict' = "OUT_OF_RANGE" <=> "large" \in flaws'
    <3>1. ScanVerdict = "ok" /\ flaws' = flaws /\ parsed' = parsed
      BY <1>2, <2>3 DEF EndOfText, scan, parse, ScanVerdict
    <3>2. parsed = "OUT_OF_RANGE" <=> ParseVerdict = "OUT_OF_RANGE"
      BY DEF ParseVerdict
    <3>3. verdict' = IF ParseVerdict # "ok" THEN ParseVerdict ELSE "DECODED"
      BY <1>2, <3>1 DEF EndOfText
    <3>4. verdict' = "OUT_OF_RANGE" <=> parsed = "OUT_OF_RANGE"
      BY <3>2, <3>3
    <3> QED  BY <3>1, <3>4 DEF IInv, Sized
  <2> QED  BY <2>1, <2>2, <2>3 DEF IInv, Decoded, DecodedTextIsClean
<1>3. CASE UNCHANGED vars
  <2>1. /\ Grammar' /\ Types' /\ Together' /\ Within' /\ Refusals' /\ Twins' /\ Sized'
    <3>1. UNCHANGED <<length, depth, inString, escaped, scanned, stack, expect, parsed, verdict,
                      flaws>>
      BY <1>3 DEF vars, scan, parse
    <3>2. Grammar' /\ Twins' /\ Sized'
      BY <3>1 DEF IInv, Grammar, Twins, HasTwins, Sized
    <3>3. Types' /\ Refusals'
      BY <3>1 DEF IInv, Types, Refusals
    <3>4. Together' /\ Within'
      BY <3>1 DEF IInv, Together, ScanFollowsParser, Within, ParserNestsWithinLimit
    <3> QED  BY <3>2, <3>3, <3>4
  <2>2. Decoded'
    <3>1. /\ verdict' = verdict /\ flaws' = flaws /\ stack' = stack
          /\ ScanVerdict' = ScanVerdict
      BY <1>3 DEF vars, scan, parse, ScanVerdict
    <3> QED  BY <3>1 DEF IInv, Decoded, DecodedTextIsClean
  <2> QED  BY <2>1, <2>2 DEF IInv
<1> QED  BY <1>1, <1>2, <1>3 DEF Next

LEMMA Invariance == Spec => []IInv
  BY Initially, Inductive, PTL DEF Spec

-----------------------------------------------------------------------------
(* Both readers keep their types, and the parser is never inside of an     *)
(* object or array that it has not opened.                                 *)
THEOREM TypeCorrect == Spec => []TypeOK
<1>1. IInv => TypeOK
  BY DEF IInv, Types, Refusals, Grammar, TypeOK, Codes, Expectations, KeyStates, StringStates
<1> QED  BY <1>1, Invariance, PTL

(* Until one of them refuses, scan and parser agree on nesting, strings    *)
(* and escapes: the scanner of _check_json_depth needs no grammar.         *)
THEOREM Agreement == Spec => []ScanFollowsParser
<1>1. IInv => ScanFollowsParser
  BY DEF IInv, Together
<1> QED  BY <1>1, Invariance, PTL

(* json.loads never nests deeper than MAX_JSON_DEPTH, in any prefix of any *)
(* text that the scan lets it see.                                         *)
THEOREM NestingBounded == Spec => []ParserNestsWithinLimit
<1>1. IInv => ParserNestsWithinLimit
  BY DEF IInv, Within
<1> QED  BY <1>1, Invariance, PTL

(* The scan refuses no well-formed text but for its nesting.               *)
THEOREM RefusalsJust == Spec => []ScanRefusesOnlyDepth
<1>1. IInv => ScanRefusesOnlyDepth
  <2> SUFFICES ASSUME IInv, parsed = "ok", expect = "end", ScanVerdict # "ok"
               PROVE  scanned = "INPUT_TOO_DEEP" /\ depth > MaxDepth
    BY DEF ScanRefusesOnlyDepth
  <2>1. ASSUME scanned = "ok" PROVE FALSE
    <3>1. stack = << >> /\ depth = Len(stack) /\ ~inString
      BY <2>1 DEF IInv, Grammar, Together, ScanFollowsParser, StringStates
    <3> QED  BY <3>1, <2>1 DEF ScanVerdict
  <2> QED  BY <2>1 DEF IInv, Refusals
<1> QED  BY <1>1, Invariance, PTL

(* A decoded text has no duplicate key at any depth and no number that     *)
(* should have been refused, and all its objects and arrays are closed.    *)
THEOREM DecodedClean == Spec => []DecodedTextIsClean
<1>1. IInv => DecodedTextIsClean
  BY DEF IInv, Decoded
<1> QED  BY <1>1, Invariance, PTL
=============================================================================
