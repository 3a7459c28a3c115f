-------------------------- MODULE MCEvidenceBundle --------------------------
(***************************************************************************)
(* Instance of EvidenceBundle: sources that keep the contract and sources  *)
(* that do not, good wheels and one for every way in which the builder or  *)
(* the environment may mislead the capture.                                *)
(***************************************************************************)
EXTENDS EvidenceBundle

CONSTANTS core, cli, metadata, record, hook

File(name, bytes) == [name |-> name, bytes |-> bytes]

Listed(files) ==
    [i \in 1..(Len(files) + 1) |->
        IF i <= Len(files) THEN [path |-> files[i].name, hashed |-> files[i].bytes]
                           ELSE [path |-> record, hashed |-> Nothing]]

WheelOf(files) == Append(files, File(record, Listed(files)))

Good(v) == <<File(core, v), File(cli, v), File(metadata, Pinned)>>

(* A file of another version, a second entry of a name before the one that *)
(* a reader finds, listed twice in RECORD or once, a directory, a file too *)
(* many, one too few, other metadata; a RECORD that lists another version, *)
(* and none that can be read.                                              *)
BuiltWheels ==
    UNION {{WheelOf(Good(v)),
            WheelOf([Good(v) EXCEPT ![2].bytes = 1 - v]),
            WheelOf(<<File(cli, 1 - v)>> \o Good(v)),
            <<File(cli, 1 - v)>> \o WheelOf(Good(v)),
            WheelOf([Good(v) EXCEPT ![1].bytes = Nothing]),
            WheelOf(Append(Good(v), File(hook, Foreign))),
            WheelOf(Tail(Good(v))),
            WheelOf([Good(v) EXCEPT ![3].bytes = Foreign]),
            Append(Good(v), File(record, Listed(Good(1 - v)))),
            Append(Good(v), File(record, Foreign))} : v \in {0, 1}}
    \cup {WheelOf(Good(2))}

FoundEnvironments ==
    [distinct : BOOLEAN, pip : BOOLEAN, within : BOOLEAN, sitewithin : BOOLEAN,
     system : BOOLEAN, usersite : BOOLEAN, expected : BOOLEAN, host : SUBSET HostSettings]

Report(status, slack, chain, version) ==
    [canonical |-> TRUE, status |-> status, slack |-> slack, chain |-> chain, version |-> version]

Outcome(exit, stdout, stderr) == [exit |-> exit, stdout |-> stdout, stderr |-> stderr]

(* Version 2 lets the order of its input show.  What is foreign behaves    *)
(* like the rest, so that nothing but the checks can tell.                 *)
Observed ==
    [program \in Programs |->
        LET v      == IF program = Foreign THEN 3 ELSE program
            chain  == <<"local_shuttle", "security_check">>
            robust == Outcome(0, Report("robust", 900, chain, v), Nothing)
        IN  [case \in Cases |->
                CASE case \in {"robust", "module"} -> robust
                  [] case = "reordered" ->
                        IF v = 2 THEN [robust EXCEPT !.stdout.version = 4] ELSE robust
                  [] case = "tight" ->
                        Outcome(1, Report("duration_sensitive", -120, chain, v), Nothing)
                  [] case = "equality" -> Outcome(0, Report("robust", 0, chain, v), Nothing)
                  [] case = "infeasible" ->
                        Outcome(3, Nothing, [canonical |-> TRUE, code |-> "infeasible_deadline"])]]
=============================================================================
