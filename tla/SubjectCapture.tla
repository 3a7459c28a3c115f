--------------------------- MODULE SubjectCapture ---------------------------
(***************************************************************************)
(* tools/generate_analysis_evidence.py, _capture_subject: what may come    *)
(* out of building a wheel of one commit, installing it in a fresh virtual *)
(* environment and running it on five inputs.                              *)
(*                                                                         *)
(* The builder, the installer and the interpreter are external: any of     *)
(* Wheels may be built, any of Environments found.  Everything happens in  *)
(* a private temporary directory and reads a commit, which cannot change,  *)
(* so that only the result matters.  The bytes of a file of the package    *)
(* are the version of the sources it comes from.                           *)
(***************************************************************************)
EXTENDS Integers, Sequences

CONSTANTS Contents,     \* versions of a source file
          Foreign,      \* bytes and programs that come from none of them
          Package,      \* the package's files
          Metadata,     \* the other files of the wheel, without RECORD
          Record,       \* the wheel's RECORD
          Pinned,       \* what the generator expects a metadata file to hold
          Nothing,      \* an empty stream; the bytes of a directory
          Wheels,       \* what the builder may make: sequences of entries
          Environments, \* what the installed interpreter may find
          Behaviour     \* program |-> input |-> what the command does

Members == Package \cup Metadata \cup {Record}

Programs == Contents \cup {Foreign}

ASSUME PackageAssumption == Package # {} /\ Record \notin Package /\ Foreign \notin Contents

ASSUME WheelsAssumption == \A wheel \in Wheels : DOMAIN wheel \subseteq Nat

-----------------------------------------------------------------------------
(* The wheel.                                                              *)

Names(wheel) == {wheel[i].name : i \in DOMAIN wheel}

(* An archive may hold a name twice; a reader finds the last of them.      *)
Read(wheel, name) ==
    LET last == CHOOSE i \in DOMAIN wheel :
                    /\ wheel[i].name = name
                    /\ \A j \in DOMAIN wheel : wheel[j].name = name => j <= i
    IN  wheel[last].bytes

AnyNames(wheel) == TRUE

(* Sought for its own sake, and implied again where the sorted names are   *)
(* compared as lists.                                                      *)
NamesOnce(wheel) == \A i, j \in DOMAIN wheel : wheel[i].name = wheel[j].name => i = j

(* RECORD has one row for every member, with its payload's hash and length *)
(* and none of its own.                                                    *)
StrictRecord(record, wheel) ==
    /\ record # Foreign
    /\ \A i, j \in DOMAIN record : record[i].path = record[j].path => i = j
    /\ {record[i].path : i \in DOMAIN record} = Members
    /\ \A i \in DOMAIN record :
          record[i].hashed = IF record[i].path = Record THEN Nothing
                                                        ELSE Read(wheel, record[i].path)

(* _strict_metadata, _strict_entry_points and the two comparisons.         *)
PinnedMetadata(wheel) == \A name \in Metadata : Read(wheel, name) = Pinned

(* Every file of the package is the subject's blob, or agrees with the     *)
(* others only.                                                            *)
SamePackage(wheel, v) == \E w \in Contents : \A name \in Package : Read(wheel, name) = w

PackageOf(wheel, v) == \A name \in Package : Read(wheel, name) = v

(* The wheel holds the committed package, the pinned metadata and nothing  *)
(* else.                                                                   *)
WheelContract(wheel, v) ==
    /\ NamesOnce(wheel)
    /\ Names(wheel) = Members
    /\ \A i \in DOMAIN wheel : wheel[i].bytes # Nothing
    /\ PackageOf(wheel, v)
    /\ PinnedMetadata(wheel)
    /\ StrictRecord(Read(wheel, Record), wheel)

(* What the command runs once the wheel is installed.  An installer may    *)
(* take either of two entries of a name, and a file the package does not   *)
(* have, a start-up hook say, may do anything.                             *)
Installed(wheel) ==
    IF /\ Names(wheel) \subseteq Members
       /\ PinnedMetadata(wheel)
       /\ \E v \in Contents : \A i \in DOMAIN wheel : wheel[i].name \in Package => wheel[i].bytes = v
    THEN CHOOSE v \in Contents :
             \A i \in DOMAIN wheel : wheel[i].name \in Package => wheel[i].bytes = v
    ELSE Foreign

-----------------------------------------------------------------------------
(* The environment: what the two probes find, which run with -I, and what  *)
(* the commands obey, which run without it.                                *)

(* Where an interpreter without -I also looks for what it imports.         *)
HostSettings == {"PYTHONPATH", "user site", "working directory"}

PassedOnAll == HostSettings

(* The commands get a fixed list of variables and none of the host's: no   *)
(* PYTHONPATH, but PYTHONNOUSERSITE and PYTHONSAFEPATH.                    *)
PassedOn == {}

FreshVenv(env) == env.distinct /\ ~env.pip

(* EXPECTED_RUNTIME_CONTRACT; expected are the version and the limits that *)
(* the imported package states.                                            *)
RuntimeContract(env) ==
    /\ env.distinct /\ ~env.pip
    /\ env.within /\ env.sitewithin /\ ~env.system /\ ~env.usersite
    /\ env.expected

(* In an environment that is not fresh, or where the package or what it    *)
(* needs may come from elsewhere, something else runs.                     *)
Ran(wheel, env) ==
    IF /\ env.distinct /\ ~env.pip
       /\ env.within /\ env.sitewithin /\ ~env.system /\ ~env.usersite /\ env.expected
       /\ env.host \cap PassedOn = {}
    THEN Installed(wheel) ELSE Foreign

-----------------------------------------------------------------------------
(* The executions.  A run ends with a status, and leaves on each stream    *)
(* nothing or one document, which may not be canonical.                    *)

Cases == {"robust", "tight", "equality", "infeasible", "reordered", "module"}

Executed(run) ==
    IF run.stdout # Nothing
    THEN run.stdout.canonical /\ run.stderr = Nothing
    ELSE run.stderr # Nothing => run.stderr.canonical

Reports(run, exit, status, slack) ==
    /\ run.exit = exit
    /\ run.stdout # Nothing
    /\ run.stdout.status = status /\ run.stdout.slack = slack

SameOutcome(a, b) == a.exit = b.exit /\ a.stdout = b.stdout /\ a.stderr = b.stderr

Decisions(runs) ==
    /\ Reports(runs["robust"], 0, "robust", 900)
    /\ Reports(runs["tight"], 1, "duration_sensitive", -120)
    /\ runs["tight"].stdout.chain = <<"local_shuttle", "security_check">>
    /\ Reports(runs["equality"], 0, "robust", 0)
    /\ runs["infeasible"].exit = 3 /\ runs["infeasible"].stdout = Nothing
    /\ runs["infeasible"].stderr # Nothing /\ runs["infeasible"].stderr.code = "infeasible_deadline"

ValidateExecutions(runs) ==
    /\ Decisions(runs)
    /\ runs["reordered"].exit = 0
    /\ runs["reordered"].stdout = runs["robust"].stdout /\ runs["reordered"].stderr = Nothing

(* Five executions, and the module run like the command.                   *)
AcceptedRuns(runs) ==
    /\ \A case \in Cases \ {"module"} : Executed(runs[case])
    /\ ValidateExecutions(runs)
    /\ SameOutcome(runs["module"], runs["robust"])

(* The programs that a capture of version v may find itself to have run.   *)
Captured(v) ==
    {program \in Programs :
        /\ AcceptedRuns(Behaviour[program])
        /\ \E wheel \in Wheels, env \in Environments :
              /\ WheelContract(wheel, v) /\ FreshVenv(env) /\ RuntimeContract(env)
              /\ program = Ran(wheel, env)}

Captures == [v \in Contents |-> Captured(v)]

-----------------------------------------------------------------------------
(* What docs/cli.md says of the command: one document on one stream, a     *)
(* status that agrees with it, and the order of the input irrelevant.      *)
KeepsTheContract(runs) ==
    /\ \A case \in Cases : (runs[case].stdout = Nothing) # (runs[case].stderr = Nothing)
    /\ \A case \in Cases : runs[case].stdout # Nothing =>
          /\ (runs[case].exit = 0) = (runs[case].stdout.status = "robust")
          /\ (runs[case].exit = 0) = (runs[case].stdout.slack >= 0)
    /\ runs["infeasible"].exit = 3
    /\ \A case \in {"reordered", "module"} : SameOutcome(runs[case], runs["robust"])

Sound == {program \in Programs : KeepsTheContract(Behaviour[program])}
=============================================================================
