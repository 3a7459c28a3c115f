---------------------------- MODULE VisualBundle ----------------------------
(***************************************************************************)
(* tools/generate_visuals.py: two pictures and a manifest, drawn from what *)
(* the library answers to nine probes and written in place.  Several runs, *)
(* each generating or checking and possibly killed anywhere, share the     *)
(* worktree with a maintainer.                                             *)
(*                                                                         *)
(* A version of the program (the library and the generator, which Python   *)
(* loads when a run starts) and a version of the fixture are numbers.  A   *)
(* file the tool writes is what it was computed from: layout is left out.  *)
(***************************************************************************)
EXTENDS Integers

CONSTANTS Runs,       \* invocations of the tool
          Programs,   \* versions of the library and the generator
          Fixtures,   \* versions of the synthetic fixture
          Behaviour,  \* <<program, fixture>> |-> probe |-> what the library answers
          Last,       \* the bundle's paths are 1..Last in sorted order, the manifest last
          Accepted,   \* the answer of a decode and compile that raise nothing
          Unrecorded, \* a picture names no sources
          Absent,     \* no such file
          Empty,      \* a file truncated and not yet written to
          Torn,       \* neither empty nor all of what some run computed
          Foreign,    \* bytes that no run of the tool writes
          MaxEdits    \* bound: what the maintainer does

Paths == 1..Last

Manifest == Last

(* The two sources of a bundle, in the order the manifest records them.    *)
Sources == [fixture : Fixtures, program : Programs]

(* The probes and the answer each must get.                                *)
ExpectedCode ==
    [accepted_baseline   |-> Accepted,
     accepted_reordered  |-> Accepted,
     unknown_field       |-> "unknown_field",
     duplicate_json_key  |-> "duplicate_json_key",
     boolean_integer     |-> "invalid_type",
     dependency_cycle    |-> "dependency_cycle",
     infeasible_deadline |-> "infeasible_deadline",
     input_too_deep      |-> "input_too_deep",
     input_too_large     |-> "input_too_large"]

Probes == DOMAIN ExpectedCode

(* A file the tool writes: what it shows, and the sources it names.        *)
Payload == [shows : Sources, names : Sources \cup {Unrecorded}]

ASSUME PathsAssumption == Last \in Nat \ {0}

ASSUME ValuesAssumption ==
    /\ \A v \in {Absent, Empty, Torn, Foreign} : v \notin Payload
    /\ Torn \notin {Absent, Empty, Foreign} /\ Empty \notin {Absent, Foreign}

(* An accepted probe has the digests of its itinerary and graph.           *)
ASSUME BehaviourAssumption ==
    \A p \in Programs, f \in Fixtures, probe \in Probes :
        {"code", "digests"} \subseteq DOMAIN Behaviour[<<p, f>>][probe]

ASSUME BoundAssumption == MaxEdits \in Nat

VARIABLES
    sources,  \* the sources in the worktree
    disk,     \* path |-> the file of the bundle
    pc,
    local,    \* run |-> the variables of its process
    edits,    \* what the maintainer did so far
    \* history variables
    alone,    \* run |-> nobody else acted since it started
    quiet     \* nothing was edited since the first run started

vars == <<sources, disk, pc, local, edits, alone, quiet>>

Active == {"fixture", "observe", "record fixture", "record program",
           "truncate", "fill", "compare"}

Ended == {"passed", "drifted", "failed", "killed"}

-----------------------------------------------------------------------------
(* What the library answers, and what is made of it.                       *)

(* What the documentation says of the probes.                              *)
KeepsTheContract(answer) ==
    /\ \A probe \in Probes : answer[probe].code = ExpectedCode[probe]
    /\ answer["accepted_reordered"].digests = answer["accepted_baseline"].digests

RefusedAsExpected(answer) ==
    /\ \A probe \in Probes :
          answer[probe].code # Accepted => answer[probe].code = ExpectedCode[probe]
    /\ answer["accepted_reordered"].digests = answer["accepted_baseline"].digests

(* Every probe gets its answer, and the equivalent input the digests of    *)
(* the baseline; otherwise there is nothing to draw.  A fixture the probes *)
(* cannot be made from answers with a code that is not expected.           *)
ObservedAsExpected(answer) ==
    /\ \A probe \in Probes : answer[probe].code = ExpectedCode[probe]
    /\ answer["accepted_reordered"].digests = answer["accepted_baseline"].digests

PayloadOf(p, shown, named) ==
    [shows |-> shown, names |-> IF p = Manifest THEN named ELSE Unrecorded]

BundleOf(shown, named) == [p \in Paths |-> PayloadOf(p, shown, named)]

(* What run r computed for the file it has come to.                        *)
Computed(r) == PayloadOf(local[r].position, local[r].shown, local[r].named)

-----------------------------------------------------------------------------
(* The variables of a process that knows s of the sources.                 *)
ProcessWith(s) == [mode |-> "check", shown |-> s, named |-> s, position |-> 1,
                   mismatch |-> FALSE, attached |-> FALSE]

NoProcess == ProcessWith(Unrecorded)

Init ==
    /\ sources \in Sources
    /\ KeepsTheContract(Behaviour[<<sources.program, sources.fixture>>])
    /\ disk = BundleOf(sources, sources)
    /\ pc = [r \in Runs |-> "idle"]
    /\ local = [r \in Runs |-> NoProcess]
    /\ edits = 0
    /\ alone = [r \in Runs |-> FALSE]
    /\ quiet = TRUE

(* Run r goes on; whoever else is running is no longer alone.              *)
GoTo(r, next) ==
    /\ pc' = [pc EXCEPT ![r] = next]
    /\ alone' = [x \in Runs |-> x = r /\ alone[x]]
    /\ UNCHANGED <<edits, quiet>>

Keep(r, next) == GoTo(r, next) /\ UNCHANGED local

Exit(r, verdict) == GoTo(r, verdict) /\ local' = [local EXCEPT ![r] = NoProcess]

(* GenerationFailure or OSError, and what main does not catch: status 1.   *)
Fail(r) == Exit(r, "failed") /\ UNCHANGED <<sources, disk>>

(* Python has loaded the generator and the library when main is entered.   *)
Start(r) ==
    /\ pc[r] = "idle"
    /\ \E mode \in {"generate", "check"} :
          local' = [local EXCEPT ![r] = [ProcessWith(sources) EXCEPT !.mode = mode]]
    /\ pc' = [pc EXCEPT ![r] = "fixture"]
    /\ alone' = [x \in Runs |-> x = r]
    /\ UNCHANGED <<sources, disk, edits, quiet>>

ReadFixture(r) ==
    /\ pc[r] = "fixture"
    /\ \/ /\ local' = [local EXCEPT ![r].shown.fixture = sources.fixture]
          /\ GoTo(r, "observe")
          /\ UNCHANGED <<sources, disk>>
       \/ Fail(r)

(* All in memory: decode, compile, the nine probes, both pictures.         *)
CollectObservations(r) ==
    /\ pc[r] = "observe"
    /\ IF ObservedAsExpected(Behaviour[<<local[r].shown.program, local[r].shown.fixture>>])
       THEN Keep(r, "record fixture") /\ UNCHANGED <<sources, disk>>
       ELSE Fail(r)

(* The manifest names the sources as they are on disk by now, the fixture  *)
(* first.                                                                  *)
RecordFixture(r) ==
    /\ pc[r] = "record fixture"
    /\ \/ /\ local' = [local EXCEPT ![r].named.fixture = sources.fixture]
          /\ GoTo(r, "record program")
          /\ UNCHANGED <<sources, disk>>
       \/ Fail(r)

RecordProgram(r) ==
    /\ pc[r] = "record program"
    /\ \/ /\ local' = [local EXCEPT ![r].named.program = sources.program]
          /\ GoTo(r, IF local[r].mode = "generate" THEN "truncate" ELSE "compare")
          /\ UNCHANGED <<sources, disk>>
       \/ Fail(r)

-----------------------------------------------------------------------------
(* Writing: every file is opened, which truncates it, and filled.          *)

TruncateTarget(r) ==
    /\ pc[r] = "truncate"
    /\ \/ /\ disk' = [disk EXCEPT ![local[r].position] = Empty]
          /\ local' = [local EXCEPT ![r].attached = TRUE]
          /\ GoTo(r, "fill")
          /\ UNCHANGED sources
       \/ Fail(r)

FilledByAppending(r) ==
    LET found == disk[local[r].position]
    IN  IF ~local[r].attached THEN {found}
        ELSE IF found = Empty THEN {Computed(r)} ELSE {Torn}

(* What the file holds once r has written.  The maintainer may have put    *)
(* another file in its place; somebody else's bytes longer than one's own  *)
(* stick out.                                                              *)
Filled(r) ==
    LET found == disk[local[r].position]
    IN  IF ~local[r].attached THEN {found}
        ELSE IF found \in {Empty, Computed(r)} THEN {Computed(r)} ELSE {Computed(r), Torn}

FillTarget(r) ==
    /\ pc[r] = "fill"
    /\ \E bytes \in Filled(r) : disk' = [disk EXCEPT ![local[r].position] = bytes]
    /\ IF local[r].position < Last
       THEN /\ GoTo(r, "truncate")
            /\ local' = [local EXCEPT ![r].position = @ + 1, ![r].attached = FALSE]
       ELSE Exit(r, "passed")
    /\ UNCHANGED sources

(* A write that fails, and a process that is killed, may leave a part.     *)
Interrupt(r, verdict) ==
    /\ \/ UNCHANGED disk
       \/ /\ pc[r] = "fill" /\ local[r].attached
          /\ disk' = [disk EXCEPT ![local[r].position] = Torn]
    /\ Exit(r, verdict)
    /\ UNCHANGED sources

FailToFill(r) == pc[r] = "fill" /\ Interrupt(r, "failed")

Kill(r) == pc[r] \in Active /\ Interrupt(r, "killed")

-----------------------------------------------------------------------------
(* Checking: every file is compared before the verdict.                    *)

DiffersHere(r) == disk[local[r].position] # Computed(r)

Differs(r) == local[r].mismatch \/ disk[local[r].position] # Computed(r)

CompareFile(r) ==
    /\ pc[r] = "compare"
    /\ IF local[r].position < Last
       THEN /\ local' = [local EXCEPT ![r].position = @ + 1, ![r].mismatch = Differs(r)]
            /\ GoTo(r, "compare")
       ELSE Exit(r, IF Differs(r) THEN "drifted" ELSE "passed")
    /\ UNCHANGED <<sources, disk>>

FailToRead(r) == pc[r] = "compare" /\ Fail(r)

-----------------------------------------------------------------------------
(* The maintainer edits a source or replaces a file of the bundle; whoever *)
(* has that file open writes to one without a name.                        *)
Edit ==
    /\ edits < MaxEdits
    /\ edits' = edits + 1
    /\ \/ /\ sources' \in Sources \ {sources}
          /\ UNCHANGED <<disk, local>>
       \/ \E p \in Paths, v \in {Absent, Foreign} :
             /\ disk' = [disk EXCEPT ![p] = v]
             /\ local' = [r \in Runs |->
                            [local[r] EXCEPT !.attached = @ /\ local[r].position # p]]
             /\ UNCHANGED sources
    /\ alone' = [r \in Runs |-> FALSE]
    /\ quiet' = (quiet /\ \A r \in Runs : pc[r] = "idle")
    /\ UNCHANGED pc

Build(r) == ReadFixture(r) \/ CollectObservations(r) \/ RecordFixture(r) \/ RecordProgram(r)

Write(r) == TruncateTarget(r) \/ FillTarget(r) \/ FailToFill(r)

Check(r) == CompareFile(r) \/ FailToRead(r)

Next == Edit \/ \E r \in Runs : Start(r) \/ Build(r) \/ Write(r) \/ Check(r) \/ Kill(r)

Spec == Init /\ [][Next]_vars

-----------------------------------------------------------------------------
(* Properties.                                                             *)

(* Every variable has its type; a process writes only what it built.       *)
TypeOK ==
    /\ sources \in Sources
    /\ disk \in [Paths -> Payload \cup {Absent, Empty, Torn, Foreign}]
    /\ pc \in [Runs -> {"idle"} \cup Active \cup Ended]
    /\ local \in [Runs -> [mode : {"generate", "check"},
                           shown : Sources \cup {Unrecorded}, named : Sources \cup {Unrecorded},
                           position : Paths, mismatch : BOOLEAN, attached : BOOLEAN]]
    /\ \A r \in Runs : pc[r] \in Active => local[r].shown \in Sources /\ local[r].named \in Sources
    /\ edits \in 0..MaxEdits
    /\ alone \in [Runs -> BOOLEAN]
    /\ quiet \in BOOLEAN

(* The disk holds the bundle of the sources as they are.                   *)
BundleIsCurrent ==
    /\ KeepsTheContract(Behaviour[<<sources.program, sources.fixture>>])
    /\ disk = BundleOf(sources, sources)

(* Whatever crashed, failed, overlapped or was edited before, the verdict  *)
(* of a run that nobody disturbs is right: when it prints PASS, generating *)
(* or checking, the disk holds the bundle of the present sources, and when *)
(* it reports drift it does not.  A truncated file or files of two         *)
(* generations are never certified, and repaired by generating again.      *)
UndisturbedVerdictIsRight ==
    [][\A r \in Runs : alone[r] /\ pc[r] \in Active =>
          /\ pc'[r] = "passed" => BundleIsCurrent'
          /\ pc'[r] = "drifted" => ~BundleIsCurrent]_vars

(* Runs need no lock between them as long as the sources stay as they are: *)
(* in whatever order they truncated, filled and compared the same files,   *)
(* once all that started have passed the disk holds the bundle.            *)
OverlappingRunsAgree ==
    /\ quiet
    /\ \A r \in Runs : pc[r] \in {"idle", "passed"}
    /\ \E r \in Runs : pc[r] = "passed"
    => BundleIsCurrent

(* Whatever else is on disk, a whole picture or manifest shows nothing but *)
(* the documented contract: every probe answered as expected, and the      *)
(* reordered input with the digests of the baseline.                       *)
MatrixShowsTheContract ==
    \A p \in Paths :
        disk[p] \in Payload =>
            KeepsTheContract(Behaviour[<<disk[p].shows.program, disk[p].shows.fixture>>])
=============================================================================
