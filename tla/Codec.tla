-------------------------------- MODULE Codec --------------------------------
(***************************************************************************)
(* codec.py, decode_itinerary_json, from the bytes to the itinerary the    *)
(* validator accepts or the code of the refusal, and _itinerary_document,  *)
(* which writes an itinerary down again.  Whatever the verdict, the same   *)
(* content is then decoded once more from an equivalent document.          *)
(*                                                                         *)
(* JsonText models what happens between the text and the JSON value; here  *)
(* a text is its verdict and its value.  A JSON object is a function from  *)
(* the names of its fields, an array a sequence, and WrongType stands for  *)
(* any value of a type the decoder does not expect.  Malformed is a string *)
(* as good as any other here, which the validator will refuse.             *)
(***************************************************************************)
EXTENDS Itineraries

CONSTANTS Data,           \* the arguments the function may be called with
          WrongType,      \* a JSON value of another type than expected
          MaxInputBytes

VARIABLES data, stage,
          position,       \* in the array being decoded
          activities, transfers,
          built,          \* the Itinerary, as it is handed to the validator
          verdict,        \* "PENDING", "ACCEPTED" or an error code
          pass,           \* first or second document
          first           \* verdict and itinerary of the first

decoded == <<activities, transfers, built>>
decodeVars == <<data, stage, position, decoded, verdict, pass, first>>

RootFields == {"schema_version", "itinerary_id", "anchor_time_utc", "horizon_seconds",
               "activities", "transfers"}
ActivityFields == {"id", "release_offset_seconds", "duration", "hard_deadline_offset_seconds"}
DurationFields == {"minimum_seconds", "maximum_seconds"}
TransferFields == {"from_activity_id", "to_activity_id", "minimum_seconds"}

-----------------------------------------------------------------------------
(* What a JSON document is, and which documents the decoder lets through   *)
(* to the validator.                                                       *)

DurationDocuments == [minimum_seconds: Int, maximum_seconds: Int]

ActivityDocuments == [id: Identifier, release_offset_seconds: Int, duration: DurationDocuments,
                      hard_deadline_offset_seconds: Int]

TransferDocuments == [from_activity_id: Identifier, to_activity_id: Identifier,
                      minimum_seconds: Int]

ItineraryDocuments == [schema_version: Int, itinerary_id: Identifier, anchor_time_utc: BOOLEAN,
                       horizon_seconds: Int, activities: Seq(ActivityDocuments),
                       transfers: Seq(TransferDocuments)]

IsObject(value) == value = [f \in DOMAIN value |-> value[f]]

IsArray(value) == Len(value) \in Nat /\ value = [i \in 1..Len(value) |-> value[i]]

(* Of the fields there are, these have a value of the type or of no        *)
(* expected one.                                                           *)
Holds(value, fields, type) ==
    \A f \in fields \cap DOMAIN value : value[f] \in type \cup {WrongType}

IsDurationValue(value) ==
    value = WrongType \/ (IsObject(value) /\ Holds(value, DurationFields, Int))

IsActivityValue(value) ==
    value = WrongType \/
    /\ IsObject(value)
    /\ Holds(value, {"id"}, Identifier)
    /\ Holds(value, {"release_offset_seconds", "hard_deadline_offset_seconds"}, Int)
    /\ "duration" \in DOMAIN value => IsDurationValue(value.duration)

IsTransferValue(value) ==
    value = WrongType \/
    /\ IsObject(value)
    /\ Holds(value, {"from_activity_id", "to_activity_id"}, Identifier)
    /\ Holds(value, {"minimum_seconds"}, Int)

IsRootValue(value) ==
    value = WrongType \/
    /\ IsObject(value)
    /\ Holds(value, {"schema_version", "horizon_seconds"}, Int)
    /\ Holds(value, {"itinerary_id"}, Identifier) /\ Holds(value, {"anchor_time_utc"}, BOOLEAN)
    /\ \A f \in {"activities", "transfers"} \cap DOMAIN value :
          value[f] # WrongType =>
             /\ IsArray(value[f])
             /\ \A i \in DOMAIN value[f] : IF f = "activities" THEN IsActivityValue(value[f][i])
                                                              ELSE IsTransferValue(value[f][i])

JsonVerdicts == {"", "INPUT_TOO_DEEP", "INVALID_JSON", "DUPLICATE_JSON_KEY", "OUT_OF_RANGE",
                 "INVALID_TYPE"}

IsData(d) ==
    /\ d \in [type: {"bytes", "str", "other"}, size: Nat, unicode: BOOLEAN, json: JsonVerdicts,
              root: {d.root}]
    /\ IsRootValue(d.root)

(* The arguments are texts of JSON documents, and WrongType is no value of *)
(* an expected type.                                                       *)
DocumentsAreValues ==
    /\ \A d \in Data : IsData(d)
    /\ WrongType \notin Int /\ WrongType \notin Identifier /\ WrongType \notin BOOLEAN
    /\ WrongType \notin DurationDocuments
    /\ WrongType \notin ActivityDocuments /\ WrongType \notin Seq(ActivityDocuments)
    /\ WrongType \notin TransferDocuments /\ WrongType \notin Seq(TransferDocuments)
    /\ WrongType \notin ItineraryDocuments

ASSUME DataAssumption == DocumentsAreValues

-----------------------------------------------------------------------------
NoItinerary == [schema |-> 0, id |-> 0, anchor |-> FALSE, horizon |-> 0,
                activities |-> << >>, transfers |-> << >>]

Root == data.root

-----------------------------------------------------------------------------
(* The checks, each a fault.                                               *)

(* The size of a str is known only once it has been encoded.               *)
DecodeText ==
    LET tooLarge == Blame(data.size > MaxInputBytes, "INPUT_TOO_LARGE")
        garbled  == Blame(~data.unicode, "INVALID_UTF8")
    IN  IF data.type = "bytes" THEN tooLarge ?? garbled
        ELSE IF data.type = "str" THEN garbled ?? tooLarge
        ELSE {"INVALID_TYPE"}

DecodeJson == Blame(data.json # "", data.json)

RequireFields(value, fields) ==
    IF value = WrongType THEN {"INVALID_TYPE"}
    ELSE Blame(fields \ DOMAIN value # {}, "MISSING_FIELD")

RequireObject(value, fields) ==
    IF value = WrongType THEN {"INVALID_TYPE"}
    ELSE Blame(DOMAIN value \ fields # {}, "UNKNOWN_FIELD") ??
         Blame(fields \ DOMAIN value # {}, "MISSING_FIELD")

RequireList(value, minimum, maximum) ==
    IF value = WrongType THEN {"INVALID_TYPE"}
    ELSE Blame(Len(value) \notin minimum..maximum, "OUT_OF_RANGE")

(* _require_string, _require_integer                                       *)
Require(value) == Blame(value = WrongType, "INVALID_TYPE")

ActivityFault(value) ==
    RequireObject(value, ActivityFields) ??
    RequireObject(value.duration, DurationFields) ??
    Require(value.id) ?? Require(value.release_offset_seconds) ??
    Require(value.duration.minimum_seconds) ?? Require(value.duration.maximum_seconds) ??
    Require(value.hard_deadline_offset_seconds)

ActivityFrom(value) ==
    [id |-> value.id, release |-> value.release_offset_seconds,
     min |-> value.duration.minimum_seconds, max |-> value.duration.maximum_seconds,
     deadline |-> value.hard_deadline_offset_seconds]

TransferFault(value) ==
    RequireObject(value, TransferFields) ??
    Require(value.from_activity_id) ?? Require(value.to_activity_id) ??
    Require(value.minimum_seconds)

TransferFrom(value) ==
    [from |-> value.from_activity_id, to |-> value.to_activity_id,
     min |-> value.minimum_seconds]

HeaderFault ==
    Require(Root.schema_version) ?? Require(Root.itinerary_id) ??
    Require(Root.anchor_time_utc) ?? Require(Root.horizon_seconds)

(* Strings have an order, the refused ones too.                            *)
Rank(identifier) == IF identifier = Malformed THEN -1 ELSE identifier

ActivityKey(x) == <<Rank(x.id)>>

TransferKeyBySource(t) == <<Rank(t.from)>>

TransferKey(t) == <<Rank(t.from), Rank(t.to), t.min>>

-----------------------------------------------------------------------------
DecodeInit ==
    /\ data \in Data
    /\ stage = "text" /\ position = 1
    /\ activities = << >> /\ transfers = << >> /\ built = NoItinerary
    /\ verdict = "PENDING" /\ pass = 1
    /\ first = [verdict |-> "PENDING", itinerary |-> NoItinerary]

Refuse(fault) ==
    /\ \E code \in fault : verdict' = code
    /\ stage' = "done"
    /\ UNCHANGED <<position, decoded>>

(* One check after another; next is taken if there is no fault.            *)
Go(here, fault, next) ==
    /\ stage = here
    /\ \/ fault # {} /\ Refuse(fault)
       \/ fault = {} /\ stage' = next /\ position' = 1 /\ UNCHANGED <<decoded, verdict>>
    /\ UNCHANGED <<data, pass, first>>

ReadText == Go("text", DecodeText ?? DecodeJson, "root")

OpenRoot ==
    Go("root", RequireObject(Root, RootFields) ?? RequireList(Root.activities, 1, MaxActivities),
       "activities")

DecodeActivity ==
    /\ stage = "activities" /\ position <= Len(Root.activities)
    /\ LET value == Root.activities[position] IN
       \/ ActivityFault(value) # {} /\ Refuse(ActivityFault(value))
       \/ /\ ActivityFault(value) = {}
          /\ activities' = Append(activities, ActivityFrom(value))
          /\ position' = position + 1
          /\ UNCHANGED <<stage, transfers, built, verdict>>
    /\ UNCHANGED <<data, pass, first>>

OpenTransfers ==
    /\ stage = "activities" /\ position > Len(Root.activities)
    /\ Go("activities", RequireList(Root.transfers, 0, MaxTransfers), "transfers")

DecodeTransfer ==
    /\ stage = "transfers" /\ position <= Len(Root.transfers)
    /\ LET value == Root.transfers[position] IN
       \/ TransferFault(value) # {} /\ Refuse(TransferFault(value))
       \/ /\ TransferFault(value) = {}
          /\ transfers' = Append(transfers, TransferFrom(value))
          /\ position' = position + 1
          /\ UNCHANGED <<stage, activities, built, verdict>>
    /\ UNCHANGED <<data, pass, first>>

BuildItinerary ==
    /\ stage = "transfers" /\ position > Len(Root.transfers)
    /\ \/ HeaderFault # {} /\ Refuse(HeaderFault)
       \/ /\ HeaderFault = {}
          /\ built' = [schema     |-> Root.schema_version,
                       id         |-> Root.itinerary_id,
                       anchor     |-> Root.anchor_time_utc,
                       horizon    |-> Root.horizon_seconds,
                       activities |-> StableSort(activities, ActivityKey),
                       transfers  |-> StableSort(transfers, TransferKey)]
          /\ stage' = "validate"
          /\ UNCHANGED <<position, activities, transfers, verdict>>
    /\ UNCHANGED <<data, pass, first>>

(* What validate_itinerary promises, see ItineraryContract.                *)
Validate ==
    /\ stage = "validate"
    /\ \/ Objections(built) # {} /\ Refuse(Objections(built))
       \/ /\ Objections(built) = {}
          /\ verdict' = "ACCEPTED" /\ stage' = "done"
          /\ UNCHANGED <<position, decoded>>
    /\ UNCHANGED <<data, pass, first>>

-----------------------------------------------------------------------------
(* _itinerary_document: the canonical document of an accepted itinerary.   *)

ActivityDocument(x) ==
    [id                           |-> x.id,
     release_offset_seconds       |-> x.release,
     duration                     |-> [minimum_seconds |-> x.min, maximum_seconds |-> x.max],
     hard_deadline_offset_seconds |-> x.deadline]

TransferDocument(t) ==
    [from_activity_id |-> t.from, to_activity_id |-> t.to, minimum_seconds |-> t.min]

ItineraryDocument(it) ==
    LET xs == StableSort(it.activities, ActivityKey)
        ts == StableSort(it.transfers, TransferKey)
    IN  [schema_version  |-> it.schema,
         itinerary_id    |-> it.id,
         anchor_time_utc |-> it.anchor,
         horizon_seconds |-> it.horizon,
         activities      |-> [i \in DOMAIN xs |-> ActivityDocument(xs[i])],
         transfers       |-> [i \in DOMAIN ts |-> TransferDocument(ts[i])]]

(* The document with its arrays in another order.                          *)
Rearranged(s) ==
    IF s = WrongType THEN {s}
    ELSE {[i \in DOMAIN s |-> s[p[i]]] : p \in Bijection(DOMAIN s, DOMAIN s)}

Arrays == {"activities", "transfers"}

Reorderings(root) ==
    {root} \cup UNION {{[root EXCEPT ![f] = s] : s \in Rearranged(root[f])} :
                       f \in IF root = WrongType THEN {} ELSE Arrays \cap DOMAIN root}

DecodeAgain ==
    /\ stage = "done" /\ pass = 1
    /\ first' = [verdict |-> verdict, itinerary |-> built]
    /\ \/ \E root \in Reorderings(Root) : data' = [data EXCEPT !.root = root]
       \/ verdict = "ACCEPTED" /\ data' = [data EXCEPT !.root = ItineraryDocument(built)]
    /\ pass' = 2 /\ stage' = "text" /\ position' = 1
    /\ activities' = << >> /\ transfers' = << >> /\ built' = NoItinerary
    /\ verdict' = "PENDING"

DecodeNext == ReadText \/ OpenRoot \/ DecodeActivity \/ OpenTransfers \/ DecodeTransfer
        \/ BuildItinerary \/ Validate \/ DecodeAgain

DecodeSpec == DecodeInit /\ [][DecodeNext]_decodeVars

-----------------------------------------------------------------------------
(* The validator is called with numbers wherever there should be numbers   *)
(* and with as many activities and transfers as it permits.                *)
TypeOK ==
    /\ stage \in {"text", "root", "activities", "transfers", "validate", "done"}
    /\ stage = "validate" =>
          /\ built \in Itinerary /\ built.schema \in Int /\ built.horizon \in Int
          /\ Len(built.activities) \in 1..MaxActivities
          /\ Len(built.transfers) <= MaxTransfers
          /\ \A x \in Range(built.activities) :
                x.id \in Identifier /\ {x.release, x.min, x.max, x.deadline} \subseteq Int
          /\ \A t \in Range(built.transfers) :
                {t.from, t.to} \subseteq Identifier /\ t.min \in Int
    /\ stage = "done" <=> verdict # "PENDING"

(* Nothing in an accepted document is ignored, supplied or changed: apart  *)
(* from the order of its arrays it is the canonical document of the        *)
(* itinerary it was decoded to.                                            *)
AcceptedDocumentIsCanonical ==
    verdict = "ACCEPTED" =>
        LET canonical == ItineraryDocument(built)
            same(s, t) == Range(s) = Range(t) /\ Len(s) = Len(t)
        IN  /\ same(Root.activities, canonical.activities)
            /\ same(Root.transfers, canonical.transfers)
            /\ [Root EXCEPT !.activities = canonical.activities,
                            !.transfers = canonical.transfers] = canonical

(* How the content is written down does not matter: with its arrays in     *)
(* another order, or written by the canonical encoder, it is accepted      *)
(* again as the very same itinerary, and what was refused stays refused.   *)
RepresentationDoesNotMatter ==
    pass = 2 /\ stage = "done" =>
        /\ (verdict = "ACCEPTED") <=> (first.verdict = "ACCEPTED")
        /\ verdict = "ACCEPTED" => built = first.itinerary
=============================================================================
