------------------------------ MODULE MCCodec ------------------------------
(***************************************************************************)
(* Instances of Codec: documents with something missing, extra, of another *)
(* type or out of range in up to two places.                               *)
(***************************************************************************)
EXTENDS Codec

Without(obj, f) == [x \in DOMAIN obj \ {f} |-> obj[x]]

With(obj, f, v) == [x \in DOMAIN obj \cup {f} |-> IF x = f THEN v ELSE obj[x]]

GoodActivity(a) ==
    ActivityDocument([id |-> a, release |-> 0, min |-> 1, max |-> 2, deadline |-> 3])

GoodTransfer(p, a) == TransferDocument([from |-> p, to |-> a, min |-> 0])

(* An object with one field missing, one too many, both, or one of         *)
(* another type or value.                                                  *)
Damaged(obj, values) ==
    {WrongType, With(obj, "extra", 1)}
    \cup {Without(obj, f) : f \in DOMAIN obj}
    \cup {With(Without(obj, f), "extra", 1) : f \in DOMAIN obj}
    \cup {With(obj, f, v) : f \in DOMAIN obj, v \in values}

OddDurations(d) == {With(GoodActivity(1), "duration", x) : x \in Damaged(d, {WrongType, 0, 2, 4})}

OddActivities ==
    {GoodActivity(a) : a \in 1..3}
    \cup Damaged(GoodActivity(1), {WrongType})
    \cup OddDurations(GoodActivity(1).duration)
    \cup {With(GoodActivity(1), "id", Malformed), With(GoodActivity(1), "release_offset_seconds", 1),
          With(GoodActivity(1), "hard_deadline_offset_seconds", 2)}

OddTransfers ==
    {GoodTransfer(p, a) : p, a \in 1..3}
    \cup Damaged(GoodTransfer(1, 2), {WrongType})
    \cup {With(GoodTransfer(1, 2), "to_activity_id", Malformed),
          With(GoodTransfer(1, 2), "minimum_seconds", 1)}

Document(xs, ts) ==
    [schema_version |-> 1, itinerary_id |-> 0, anchor_time_utc |-> TRUE, horizon_seconds |-> 3,
     activities |-> xs, transfers |-> ts]

Plain == Document(<<GoodActivity(2), GoodActivity(1)>>, <<GoodTransfer(2, 1)>>)

OddRoots ==
    Damaged(Plain, {WrongType})
    \cup {With(Plain, "schema_version", 2), With(Plain, "itinerary_id", Malformed),
          With(Plain, "anchor_time_utc", FALSE), With(Plain, "horizon_seconds", 0),
          With(Plain, "activities", << >>), With(Plain, "transfers", << >>)}
    \cup {Document([i \in 1..n |-> GoodActivity(i)], [i \in 1..m |-> GoodTransfer(1, i)]) :
             n \in 0..4, m \in 0..4}

Roots ==
    OddRoots
    \cup {Document(<<x, y>>, << >>) : x, y \in OddActivities}
    \cup {Document(<<GoodActivity(3), GoodActivity(1), GoodActivity(2)>>, <<t, u>>) :
             t, u \in OddTransfers}
    \cup {Document(<<x, GoodActivity(2)>>, <<t>>) : x \in OddActivities, t \in OddTransfers}
    \cup {With(Document(<<x>>, << >>), "horizon_seconds", WrongType) : x \in OddActivities}

Text(type, size, unicode, json, root) ==
    [type |-> type, size |-> size, unicode |-> unicode, json |-> json, root |-> root]

CodecData ==
    {Text(type, 1, TRUE, "", root) : type \in {"bytes", "str"}, root \in Roots}
    \cup {Text(type, size, unicode, json, Plain) :
             type \in {"bytes", "str", "other"}, size \in 0..(MaxInputBytes + 1),
             unicode \in BOOLEAN,
             json \in {"", "INPUT_TOO_DEEP", "INVALID_JSON", "DUPLICATE_JSON_KEY", "OUT_OF_RANGE",
                       "INVALID_TYPE"}}
=============================================================================
