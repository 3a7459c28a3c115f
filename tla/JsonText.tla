------------------------------ MODULE JsonText ------------------------------
(***************************************************************************)
(* codec.py, _decode_json: the depth scan that goes over the whole text    *)
(* before json.loads does, and json.loads with the hooks the codec gives   *)
(* it.  Both read the same characters, so they are read side by side here, *)
(* one character a step; the verdict is the scan's if it refuses, the      *)
(* parser's otherwise.                                                     *)
(*                                                                         *)
(* A number is one character: one of IntegerTokens, or "." for any other,  *)
(* NaN and Infinity included.  "x" is everything that is none of these:    *)
(* part of a string, or nothing JSON allows.  White space has no effect on *)
(* either reader; true, false and null are like an integer of one digit.   *)
(***************************************************************************)
EXTENDS Integers, Sequences, Functions

CONSTANTS MaxDepth,   \* MAX_JSON_DEPTH
          MaxDigits,  \* MAX_INTEGER_DIGITS
          Largest,    \* the largest integer of that many digits
          Numerals,   \* integer |-> how it is written, and its value
          Keys,       \* contents of strings that are keys
          MaxLength   \* bound: the characters of a text

ASSUME LimitsAssumption == MaxDepth \in Nat \ {0} /\ MaxLength \in Nat

Marks == {"{", "}", "[", "]", "quote", "backslash", ",", ":", ".", "x"}

IntegerTokens == DOMAIN Numerals

(* JSON allows no leading zeros, so that digits tell the magnitude.        *)
ASSUME NumeralsAssumption ==
    /\ IntegerTokens \cap Marks = {}
    /\ Largest \in Nat /\ MaxDigits \in Nat
    /\ \A c \in IntegerTokens :
          /\ Numerals[c].digits \in Nat
          /\ Numerals[c].digits <= MaxDigits <=> Numerals[c].value \in -Largest..Largest

Characters == Marks \cup IntegerTokens

VARIABLES
    length,                                   \* characters read
    depth, inString, escaped, scanned,        \* the scan; scanned is its refusal, or "ok"
    stack,                                    \* the parser's open objects and arrays
    expect,                                   \* what may come next
    parsed,                                   \* the exception of the parser, or "ok"
    verdict,                                  \* "PENDING", "DECODED" or an error code
    flaws                                     \* history: what json.loads itself permits

scan == <<depth, inString, escaped, scanned>>
parse == <<stack, expect, parsed>>
vars == <<length, scan, parse, verdict, flaws>>

-----------------------------------------------------------------------------
(* _check_json_depth                                                       *)

Opens(c) == c \in {"{", "["}
Closes(c) == c \in {"}", "]"}

TooDeepAtLimit == depth + 1 >= MaxDepth

TooDeepPastLimit == depth > MaxDepth

TooDeep == depth + 1 > MaxDepth

ScanInStringCarelessly(c) ==
    /\ inString' = (c # "quote")
    /\ UNCHANGED <<escaped, depth, scanned>>

ScanInString(c) ==
    /\ escaped' = (~escaped /\ c = "backslash")
    /\ inString' = (escaped \/ c # "quote")
    /\ UNCHANGED <<depth, scanned>>

ScanOutside(c) ==
    /\ inString' = (c = "quote")
    /\ depth' = IF Opens(c) THEN depth + 1 ELSE IF Closes(c) THEN depth - 1 ELSE depth
    /\ scanned' = IF Opens(c) /\ TooDeep THEN "INPUT_TOO_DEEP"
                  ELSE IF Closes(c) /\ depth = 0 THEN "INVALID_JSON" ELSE "ok"
    /\ UNCHANGED escaped

Scan(c) == IF scanned # "ok" THEN UNCHANGED scan
           ELSE IF inString THEN ScanInString(c) ELSE ScanOutside(c)

ScanVerdict == IF scanned # "ok" THEN scanned
               ELSE IF inString \/ depth # 0 THEN "INVALID_JSON" ELSE "ok"

-----------------------------------------------------------------------------
(* json.loads and its hooks.  A frame of the stack is an open object with  *)
(* the keys read so far, or an open array.                                 *)

Top == stack[Len(stack)]
Below == SubSeq(stack, 1, Len(stack) - 1)

(* What may follow a complete value.                                       *)
AfterValue(s) == IF s = << >> THEN "end" ELSE "comma"

Raise(code) == parsed' = code /\ UNCHANGED <<stack, expect, flaws>>

Proceed(s, next) == stack' = s /\ expect' = next /\ UNCHANGED <<parsed, flaws>>

Open(c) == Proceed(Append(stack, [kind |-> c, keys |-> << >>]),
                   IF c = "{" THEN "key or close" ELSE "value or close")

(* _reject_duplicate_keys is called with the pairs of an object when it is *)
(* complete.                                                               *)
RejectDuplicateKeysNever(pairs) == FALSE

RejectDuplicateKeys(pairs) == \E i, j \in DOMAIN pairs : i < j /\ pairs[i] = pairs[j]

Close == IF RejectDuplicateKeys(Top.keys) THEN Raise("DUPLICATE_JSON_KEY")
         ELSE Proceed(Below, AfterValue(Below))

Length(c) == Numerals[c].digits + IF Numerals[c].minus THEN 1 ELSE 0

(* A minus sign is no digit.                                               *)
DigitsWithSign(c) == Length(c)

Digits(c) == IF Numerals[c].minus THEN Length(c) - 1 ELSE Length(c)

IsLarge(c) == Numerals[c].value \notin -Largest..Largest

(* _parse_integer judges by what is written, the history by the value.     *)
ParseInteger(c) ==
    /\ flaws' = IF IsLarge(c) THEN flaws \cup {"large"} ELSE flaws
    /\ IF Digits(c) > MaxDigits THEN parsed' = "OUT_OF_RANGE" /\ UNCHANGED <<stack, expect>>
       ELSE expect' = AfterValue(stack) /\ UNCHANGED <<stack, parsed>>

RejectNonInteger ==
    /\ parsed' = "INVALID_TYPE" /\ flaws' = flaws \cup {"fraction"}
    /\ UNCHANGED <<stack, expect>>

EndKey == \E key \in Keys :
    /\ stack' = [stack EXCEPT ![Len(stack)].keys = Append(@, key)]
    /\ flaws' = IF key \in Range(Top.keys) THEN flaws \cup {"twins"} ELSE flaws
    /\ expect' = "colon" /\ UNCHANGED parsed

ParseInString(c) ==
    \/ /\ expect \in {"key string", "value string"}
       /\ \/ c = "backslash" /\ Proceed(stack, IF expect = "key string" THEN "key escape"
                                                                        ELSE "value escape")
          \/ c = "quote" /\ expect = "key string" /\ EndKey
          \/ c = "quote" /\ expect = "value string" /\ Proceed(stack, AfterValue(stack))
          \/ c \notin {"backslash", "quote"} /\ Proceed(stack, expect)
          \/ c \in {"x", "quote"} /\ Raise("INVALID_JSON")  \* control character, unfinished \u
    \/ /\ expect \in {"key escape", "value escape"}
       /\ \/ /\ c \in {"quote", "backslash", "x"}
             /\ Proceed(stack, IF expect = "key escape" THEN "key string" ELSE "value string")
          \/ c \notin {"quote", "backslash"} /\ Raise("INVALID_JSON")

StringStates == {"key string", "value string", "key escape", "value escape"}

(* The characters JSON allows here outside a string.                       *)
Allowed ==
    CASE expect = "value"          -> {"{", "[", "quote", "."} \cup IntegerTokens
      [] expect = "value or close" -> {"{", "[", "quote", ".", "]"} \cup IntegerTokens
      [] expect = "key"            -> {"quote"}
      [] expect = "key or close"   -> {"quote", "}"}
      [] expect = "colon"          -> {":"}
      [] expect = "comma"          -> {",", IF Top.kind = "{" THEN "}" ELSE "]"}
      [] expect = "end"            -> {}

(* c is allowed.                                                           *)
ParseOutside(c) ==
    \/ Opens(c) /\ Open(c)
    \/ Closes(c) /\ Close
    \/ c \in IntegerTokens /\ ParseInteger(c)
    \/ c = "." /\ RejectNonInteger
    \/ c = "quote" /\ Proceed(stack, IF expect \in {"key", "key or close"} THEN "key string"
                                                                         ELSE "value string")
    \/ c = ":" /\ Proceed(stack, "value")
    \/ c = "," /\ Proceed(stack, IF Top.kind = "{" THEN "key" ELSE "value")

Parse(c) ==
    IF parsed # "ok" THEN UNCHANGED <<parse, flaws>>
    ELSE IF expect \in StringStates THEN ParseInString(c)
    ELSE IF c \in Allowed THEN ParseOutside(c) ELSE Raise("INVALID_JSON")

ParseVerdict == IF parsed # "ok" THEN parsed
                ELSE IF expect # "end" THEN "INVALID_JSON" ELSE "ok"

-----------------------------------------------------------------------------
Init ==
    /\ length = 0
    /\ depth = 0 /\ inString = FALSE /\ escaped = FALSE /\ scanned = "ok"
    /\ stack = << >> /\ expect = "value" /\ parsed = "ok"
    /\ verdict = "PENDING" /\ flaws = {}

ReadCharacter ==
    /\ verdict = "PENDING" /\ length < MaxLength
    /\ \E c \in Characters : Scan(c) /\ Parse(c)
    /\ length' = length + 1
    /\ UNCHANGED verdict

EndOfText ==
    /\ verdict = "PENDING"
    /\ verdict' = IF ScanVerdict # "ok" THEN ScanVerdict
                  ELSE IF ParseVerdict # "ok" THEN ParseVerdict ELSE "DECODED"
    /\ UNCHANGED <<length, scan, parse, flaws>>

Next == ReadCharacter \/ EndOfText

Spec == Init /\ [][Next]_vars

-----------------------------------------------------------------------------
TypeOK ==
    /\ length \in 0..MaxLength
    /\ depth \in -1..(MaxDepth + 1)
    /\ scanned \in {"ok", "INPUT_TOO_DEEP", "INVALID_JSON"}
    /\ expect \in {"value", "value or close", "key", "key or close", "colon", "comma", "end"}
                  \cup StringStates
    /\ expect \in {"key", "key or close", "colon", "comma", "value or close"} => stack # << >>
    /\ verdict \in {"PENDING", "DECODED", "INPUT_TOO_DEEP", "INVALID_JSON", "DUPLICATE_JSON_KEY",
                    "OUT_OF_RANGE", "INVALID_TYPE"}

(* The scan, which knows nothing of JSON's grammar, judges strings,        *)
(* escapes and nesting as the parser does for as long as the parser finds  *)
(* nothing wrong.                                                          *)
ScanFollowsParser ==
    scanned = "ok" /\ parsed = "ok" =>
        /\ depth = Len(stack)
        /\ inString <=> expect \in StringStates
        /\ escaped <=> expect \in {"key escape", "value escape"}

(* So a text the parser gets to see cannot make it nest deeper than the    *)
(* limit, wherever the text goes wrong.                                    *)
ParserNestsWithinLimit == scanned = "ok" => Len(stack) <= MaxDepth

(* And the scan refuses a well-formed document only because it is nested   *)
(* too deeply, never because of what its strings contain.                  *)
ScanRefusesOnlyDepth ==
    verdict # "PENDING" /\ parsed = "ok" /\ expect = "end" /\ ScanVerdict # "ok"
        => scanned = "INPUT_TOO_DEEP" /\ depth > MaxDepth

(* What json.loads alone would let through does not get through: no object *)
(* with a key twice at any depth, no fraction and no integer too large.    *)
(* And a text is refused as out of range if and only if it holds such an   *)
(* integer before anything else the parser refuses; one that only its sign *)
(* makes too long is not.                                                  *)
DecodedTextIsClean ==
    /\ verdict = "DECODED" => flaws = {} /\ stack = << >>
    /\ verdict # "PENDING" /\ ScanVerdict = "ok"
          => (verdict = "OUT_OF_RANGE" <=> "large" \in flaws)
=============================================================================
