--------------------------- MODULE LegacyContracts ---------------------------
(***************************************************************************)
(* tools/verify_legacy.py, the checks that need no more than the manifest  *)
(* and the bytes that were read: the inventory's schema, the generator     *)
(* contract, the embedded JPEGs and the redacted risk counts.  Each is a   *)
(* fault.                                                                  *)
(*                                                                         *)
(* A path is a natural number in the order of the names; a content is a    *)
(* sequence of fragments, the parts the checks tell apart:                 *)
(*   mime      of the data URI the fragment is, or ""                      *)
(*   payload   its decoded bytes: digest and size                          *)
(*   flaw      the code the decoding of the data URI ends in, or ""        *)
(*   field     of site.json: "settings", "escaped" (in settings, but       *)
(*             written with JSON escapes), "generator" or ""               *)
(*   contact   "email" or "phone" if that is visible text, or ""           *)
(*   readable  it is UTF-8, and in site.json part of a JSON object         *)
(* The SHA-256 digest of a content is the content itself.                  *)
(***************************************************************************)
EXTENDS Integers, Sequences, SequencesExt, Faults

CONSTANTS Site,             \* SITE_METADATA_NAME
          Html,             \* names that end in ".html"
          WrongType,        \* a JSON value of another type or shape than expected
          MaxFile,          \* MAX_LEGACY_FILE_BYTES
          MaxTotal,         \* MAX_LEGACY_TOTAL_BYTES
          FileCount,        \* EXPECTED_LEGACY_FILE_COUNT
          HtmlCount,        \* EXPECTED_HTML_FILE_COUNT
          JpegCounts,       \* EXPECTED_JPEG_OCCURRENCES, EXPECTED_JPEG_UNIQUE_PAYLOADS
          MarkCounts        \* EXPECTED_THIRD_PARTY_MARK_OCCURRENCES, ..._UNIQUE_PAYLOADS

ASSUME PathsAssumption == Site \in Nat /\ Html \subseteq Nat \ {Site}

Schema(bad) == Blame(bad, "manifest_schema_invalid")

Limit(bad) == Blame(bad, "resource_limit_exceeded")

(* _require_nonnegative_int                                                *)
Natural(value) == Schema(value = WrongType) ?? Schema(value < 0)

(* Check after check, of the first element that has a fault.               *)
FirstFault(s, Fault(_)) ==
    LET bad == {i \in DOMAIN s : Fault(s[i]) # {}}
    IN  IF bad = {} THEN {} ELSE Fault(s[Min(bad)])

Total(s, Value(_)) ==
    LET sum[n \in 0..Len(s)] == IF n = 0 THEN 0 ELSE sum[n - 1] + Value(s[n]) IN sum[Len(s)]

Ascending(s) == \A i, j \in DOMAIN s : i < j => s[i] <= s[j]

-----------------------------------------------------------------------------
(* _validate_inventory_schema                                              *)

EntryFault(entry) ==
    Schema(entry = WrongType) ?? Schema(entry.path = WrongType) ??
    Natural(entry.bytes) ?? Limit(entry.bytes > MaxFile) ??
    Schema(entry.sha256 = WrongType)

PathsOf(inventory) == [i \in DOMAIN inventory |-> inventory[i].path]

DeclaredBytes(inventory) == Total(inventory, LAMBDA entry : entry.bytes)

InventoryFault(snapshot) ==
    Schema(snapshot = WrongType) ??
    Natural(snapshot.count) ?? Natural(snapshot.total) ?? Limit(snapshot.total > MaxTotal) ??
    Schema(snapshot.inventory = WrongType) ?? FirstFault(snapshot.inventory, EntryFault) ??
    LET paths == PathsOf(snapshot.inventory) IN
    Schema(\/ snapshot.count # FileCount \/ Len(paths) # FileCount
           \/ ~Ascending(paths) \/ ~IsInjective(paths)
           \/ Cardinality(Range(paths) \cap Html) # HtmlCount
           \/ Site \notin Range(paths)
           \/ DeclaredBytes(snapshot.inventory) # snapshot.total)

-----------------------------------------------------------------------------
(* _validate_generator_contract: the one contract the code accepts is      *)
(* written in the code, and site.json has to say the same.                 *)
GeneratorFault(contract, document) ==
    Schema(contract = WrongType) ??
    Blame(document = << >> \/ \E c \in Range(document) : ~c.readable,
          "generator_metadata_invalid") ??
    Blame(\A c \in Range(document) : c.field # "generator", "generator_metadata_mismatch")

-----------------------------------------------------------------------------
(* _collect_payloads, over the places where data URIs of a type stand: a   *)
(* path and a position in its content.                                     *)

Places(contents) == UNION {{path} \X DOMAIN contents[path] : path \in DOMAIN contents}

Fragment(contents, x) == contents[x[1]][x[2]]

(* In the bytes of the files, in the settings field once it is decoded,    *)
(* and in the bytes of the documents.                                      *)
InBytes(contents, mime) ==
    {x \in Places(contents) : /\ Fragment(contents, x).mime = mime
                              /\ x[1] = Site => Fragment(contents, x).field # "escaped"}

InSettings(contents, mime) ==
    {x \in Places(contents) : /\ Fragment(contents, x).mime = mime
                              /\ x[1] = Site
                              /\ Fragment(contents, x).field \in {"settings", "escaped"}}

InDocuments(contents, mime) == {x \in InBytes(contents, mime) : x[1] \in Html}

(* Path after path, from the start of each content.                        *)
CollectFault(contents, media) ==
    LET bad   == {x \in media : Fragment(contents, x).flaw # ""}
        first == CHOOSE x \in bad :
                     \A y \in bad : x[1] < y[1] \/ (x[1] = y[1] /\ x[2] <= y[2])
    IN  IF bad = {} THEN {} ELSE {Fragment(contents, first).flaw}

(* How often each payload occurs at each path.                             *)
Collect(contents, media) ==
    {[payload |-> Fragment(contents, x).payload, path |-> x[1],
      count   |-> Cardinality({y \in media :
                      /\ y[1] = x[1]
                      /\ Fragment(contents, y).payload = Fragment(contents, x).payload})] :
        x \in media}

Occurrences(counts) == Total(SetToSeq(counts), LAMBDA x : x.count)

Unique(counts) == Cardinality({x.payload : x \in counts})

-----------------------------------------------------------------------------
(* _validate_jpeg_contract                                                 *)

LocationFault(location) ==
    Schema(location = WrongType) ?? Natural(location.occurrences) ??
    Schema(location.path # Site \/ location.occurrences = 0)

PayloadFault(value) ==
    Schema(value = WrongType) ?? Schema(value.sha256 = WrongType) ?? Natural(value.bytes) ??
    Schema(value.locations \in {WrongType, << >>}) ?? FirstFault(value.locations, LocationFault) ??
    Schema(Len(value.locations) > 1)  \* the paths are distinct, and all site.json

Expected(payloads) ==
    {[payload |-> [digest |-> p.sha256, bytes |-> p.bytes], path |-> Site,
      count |-> p.locations[1].occurrences] : p \in Range(payloads)}

JpegSchemaFault(contract) ==
    Schema(contract = WrongType) ?? Natural(contract.total) ??
    Schema(contract.payloads = WrongType) ??
    Schema(contract.total # JpegCounts[1] \/ Len(contract.payloads) # JpegCounts[2]) ??
    FirstFault(contract.payloads, PayloadFault) ??
    LET digests == [i \in DOMAIN contract.payloads |-> contract.payloads[i].sha256] IN
    Schema(\/ ~IsInjective(digests) \/ ~Ascending(digests)
           \/ Occurrences(Expected(contract.payloads)) # contract.total)

JpegFault(contract, contents) ==
    LET bytes    == InBytes(contents, "image/jpeg")
        settings == InSettings(contents, "image/jpeg")
        actual   == Collect(contents, bytes)
    IN  JpegSchemaFault(contract) ??
        Blame(\A c \in Range(contents[Site]) : c.field \notin {"settings", "escaped"},
              "generator_metadata_mismatch") ??
        CollectFault(contents, bytes) ?? CollectFault(contents, settings) ??
        Blame(\/ actual # Collect(contents, settings)
              \/ actual # Expected(contract.payloads), "embedded_media_mismatch") ??
        Blame(Occurrences(actual) # JpegCounts[1] \/ Unique(actual) # JpegCounts[2],
              "embedded_media_mismatch")

-----------------------------------------------------------------------------
(* _validate_risk_contract                                                 *)

Documents(contents) == DOMAIN contents \cap Html

Visible(contents, contact) ==
    Cardinality({x \in Places(contents) : /\ x[1] \in Html
                                         /\ Fragment(contents, x).contact = contact})

Risk(contents) ==
    LET jpegs == Collect(contents, InBytes(contents, "image/jpeg"))
        marks == Collect(contents, InDocuments(contents, "image/svg+xml"))
    IN  [prose    |-> Cardinality(Documents(contents)),
         surfaces |-> Cardinality({path \in Documents(contents) :
                                      \E c \in Range(contents[path]) : c.contact # ""}),
         emails   |-> Visible(contents, "email"),
         phones   |-> Visible(contents, "phone"),
         jpegs    |-> <<Occurrences(jpegs), Unique(jpegs)>>,
         marks    |-> <<Occurrences(marks), Unique(marks)>>]

RiskFault(contract, contents) ==
    Schema(contract = WrongType) ??
    Blame(\E path \in Documents(contents) : \E c \in Range(contents[path]) : ~c.readable,
          "legacy_text_invalid") ??
    CollectFault(contents, InDocuments(contents, "image/svg+xml")) ??
    Blame(Risk(contents).marks # MarkCounts, "third_party_mark_mismatch") ??
    Blame(Risk(contents) # contract, "redacted_risk_mismatch")

(* The contracts of manifest m, in the order verify goes through them.     *)
ContractsFault(m, contents) ==
    GeneratorFault(m.generator, contents[Site]) ??
    JpegFault(m.jpegs, contents) ?? RiskFault(m.risk, contents)
=============================================================================
