------------------------- MODULE VisualBundleProofs -------------------------
(***************************************************************************)
(* Proofs about VisualBundle, for any number of runs, paths and edits and  *)
(* any library: the types, that a whole file shows the contract, that the  *)
(* verdict of an undisturbed run is right, and that overlapping runs agree *)
(* as long as nobody edits.                                                *)
(*                                                                         *)
(* IInv says that what a process draws has kept the contract.  VInv says   *)
(* what a run that is alone has seen of the disk, QInv what all runs have  *)
(* seen together while nothing is edited: a file that one of them is done  *)
(* with is right, or empty because another is about to fill it.            *)
(***************************************************************************)
EXTENDS VisualBundle, TLAPS

Files == Payload \cup {Absent, Empty, Torn, Foreign}

Process == [mode : {"generate", "check"},
            shown : Sources \cup {Unrecorded}, named : Sources \cup {Unrecorded},
            position : Paths, mismatch : BOOLEAN, attached : BOOLEAN]

Stages == {"idle"} \cup Active \cup Ended

Keeps(s) == KeepsTheContract(Behaviour[<<s.program, s.fixture>>])

(* What process v has made sure of at a stage.                             *)
Knows(stage, v) ==
    /\ stage \in Active => v.shown \in Sources /\ v.named \in Sources
    /\ stage \in {"record fixture", "record program", "truncate", "fill", "compare"} =>
          Keeps(v.shown)
    /\ stage \in {"fixture", "observe", "record fixture", "record program"} =>
          v.position = 1 /\ ~v.mismatch

IInv ==
    /\ TypeOK
    /\ MatrixShowsTheContract
    /\ \A r \in Runs : Knows(pc[r], local[r])

LEMMA KnowsProcess ==
  ASSUME IInv, NEW r \in Runs
  PROVE  /\ local[r] \in Process /\ Knows(pc[r], local[r]) /\ pc[r] \in Stages
         /\ pc \in [Runs -> Stages] /\ local \in [Runs -> Process]
         /\ sources \in Sources /\ disk \in [Paths -> Files]
  BY DEF IInv, TypeOK, Process, Stages, Files

LEMMA FirstPath == 1 \in Paths
  BY PathsAssumption DEF Paths

LEMMA ProcessWithSources ==
  ASSUME NEW s \in Sources \cup {Unrecorded}
  PROVE  ProcessWith(s) \in Process
  BY FirstPath DEF ProcessWith, Process

LEMMA ComputedIsPayload ==
  ASSUME NEW p \in Paths, NEW v \in Process, v.shown \in Sources, v.named \in Sources
  PROVE  PayloadOf(p, v.shown, v.named) \in Payload
  BY DEF PayloadOf, Payload

-----------------------------------------------------------------------------
(* Run r goes on with other variables, and puts nothing in a file but what *)
(* keeps the contract.                                                     *)
LEMMA Moves ==
  ASSUME IInv, NEW r \in Runs, NEW stage \in Stages, GoTo(r, stage), UNCHANGED sources,
         NEW v \in Process, local' = [local EXCEPT ![r] = v], Knows(stage, v),
         disk' \in [Paths -> Files],
         \A p \in Paths : disk'[p] = disk[p] \/ disk'[p] \notin Payload \/ Keeps(disk'[p].shows)
  PROVE  IInv'
<1>1. /\ pc \in [Runs -> Stages] /\ local \in [Runs -> Process] /\ sources \in Sources
      /\ edits \in 0..MaxEdits /\ quiet \in BOOLEAN /\ alone \in [Runs -> BOOLEAN]
  BY DEF IInv, TypeOK, Process, Stages
<1>2. /\ pc' \in [Runs -> Stages] /\ local' \in [Runs -> Process]
      /\ pc'[r] = stage /\ local'[r] = v
      /\ \A x \in Runs : x # r => pc'[x] = pc[x] /\ local'[x] = local[x]
  BY <1>1 DEF GoTo
<1>3. \A x \in Runs : Knows(pc[x], local[x])'
  <2> SUFFICES ASSUME NEW x \in Runs PROVE Knows(pc'[x], local'[x])
    BY DEF Knows, Keeps
  <2> QED  BY <1>2 DEF IInv
<1>4. alone' \in [Runs -> BOOLEAN] /\ edits' \in 0..MaxEdits /\ quiet' \in BOOLEAN
  BY <1>1 DEF GoTo
<1>5. TypeOK'
  <2>1. \A x \in Runs : pc'[x] \in Active => local'[x].shown \in Sources /\ local'[x].named \in Sources
    BY <1>3 DEF Knows
  <2> QED  BY <1>1, <1>2, <1>4, <2>1 DEF TypeOK, Process, Stages, Files
<1>6. MatrixShowsTheContract'
  BY DEF IInv, MatrixShowsTheContract, Keeps
<1> QED  BY <1>3, <1>5, <1>6 DEF IInv

LEMMA Ends ==
  ASSUME IInv, NEW r \in Runs, NEW verdict \in Ended, Exit(r, verdict), UNCHANGED sources,
         disk' \in [Paths -> Files],
         \A p \in Paths : disk'[p] = disk[p] \/ disk'[p] \notin Payload \/ Keeps(disk'[p].shows)
  PROVE  IInv'
<1>1. NoProcess \in Process
  BY ProcessWithSources DEF NoProcess
<1>2. PICK v : v = NoProcess
  OBVIOUS
<1>3. Knows(verdict, v)
  BY DEF Knows, Ended, Active
<1>4. GoTo(r, verdict) /\ local' = [local EXCEPT ![r] = v] /\ verdict \in Stages
  BY <1>2 DEF Exit, Stages
<1> QED  BY <1>1, <1>2, <1>3, <1>4, Moves

LEMMA Fails ==
  ASSUME IInv, NEW r \in Runs, Fail(r)
  PROVE  IInv'
<1>1. disk \in [Paths -> Files]
  BY DEF IInv, TypeOK, Files
<1> QED  BY <1>1, Ends DEF Fail, Ended

LEMMA StartKeeps ==
  ASSUME IInv, NEW r \in Runs, Start(r)
  PROVE  IInv'
<1>1. PICK mode \in {"generate", "check"} :
         local' = [local EXCEPT ![r] = [ProcessWith(sources) EXCEPT !.mode = mode]]
  BY DEF Start
<1>2. PICK v : v = [ProcessWith(sources) EXCEPT !.mode = mode]
  OBVIOUS
<1>3. sources \in Sources /\ pc \in [Runs -> Stages] /\ local \in [Runs -> Process]
      /\ disk \in [Paths -> Files]
  BY KnowsProcess
<1>4. v \in Process /\ v.shown = sources /\ v.named = sources /\ v.position = 1 /\ ~v.mismatch
  BY <1>2, <1>3, FirstPath DEF ProcessWith, Process
<1>5. Knows("fixture", v)
  BY <1>3, <1>4 DEF Knows
<1>6. /\ pc' = [pc EXCEPT ![r] = "fixture"] /\ alone' = [x \in Runs |-> x = r]
      /\ UNCHANGED <<sources, disk, edits, quiet>> /\ local' = [local EXCEPT ![r] = v]
  BY <1>1, <1>2 DEF Start
<1>7. /\ pc'[r] = "fixture" /\ local'[r] = v
      /\ \A x \in Runs : x # r => pc'[x] = pc[x] /\ local'[x] = local[x]
      /\ pc' \in [Runs -> Stages] /\ local' \in [Runs -> Process]
  BY <1>3, <1>4, <1>6 DEF Stages, Active
<1>8. \A x \in Runs : Knows(pc[x], local[x])'
  <2> SUFFICES ASSUME NEW x \in Runs PROVE Knows(pc'[x], local'[x])
    BY DEF Knows, Keeps
  <2> QED  BY <1>5, <1>7 DEF IInv
<1>9. TypeOK'
  <2>1. \A x \in Runs : pc'[x] \in Active => local'[x].shown \in Sources /\ local'[x].named \in Sources
    BY <1>8 DEF Knows
  <2>2. edits' \in 0..MaxEdits /\ quiet' \in BOOLEAN /\ alone' \in [Runs -> BOOLEAN]
    BY <1>6 DEF IInv, TypeOK
  <2> QED  BY <1>3, <1>6, <1>7, <2>1, <2>2 DEF TypeOK, Process, Stages, Files
<1> QED  BY <1>6, <1>8, <1>9 DEF IInv, MatrixShowsTheContract

(* The steps up to the finished bundle.                                    *)
LEMMA BuildMoves ==
  ASSUME IInv, NEW r \in Runs, Build(r), ~Fail(r)
  PROVE  \E stage \in Stages, v \in Process :
            /\ GoTo(r, stage) /\ local' = [local EXCEPT ![r] = v] /\ Knows(stage, v)
            /\ UNCHANGED <<sources, disk>> /\ pc[r] \in Active
            /\ stage \in Active \ {"fixture", "fill"}
            /\ v.position = 1 /\ ~v.mismatch
            /\ local[r].shown = sources => v.shown = sources
            /\ local[r].named = sources => v.named = sources
<1>1. PICK p : p = local[r]
  OBVIOUS
<1>2. /\ p \in Process /\ Knows(pc[r], p) /\ local \in [Runs -> Process] /\ sources \in Sources
  BY <1>1, KnowsProcess
<1>3. CASE ReadFixture(r)
  <2>1. PICK v : v = [p EXCEPT !.shown.fixture = sources.fixture]
    OBVIOUS
  <2>2. pc[r] = "fixture" /\ GoTo(r, "observe") /\ UNCHANGED <<sources, disk>>
        /\ local' = [local EXCEPT ![r] = v]
    BY <1>1, <1>2, <1>3, <2>1 DEF ReadFixture
  <2>3. p.shown \in Sources /\ p.named \in Sources /\ p.position = 1 /\ ~p.mismatch
    BY <1>2, <2>2 DEF Knows, Active
  <2>4. /\ v \in Process /\ v.shown \in Sources /\ v.named = p.named
        /\ v.position = p.position /\ v.mismatch = p.mismatch
        /\ p.shown = sources => v.shown = sources
    BY <1>2, <2>1, <2>3 DEF Process, Sources
  <2>5. Knows("observe", v)
    BY <2>3, <2>4 DEF Knows
  <2> QED  BY <1>1, <2>2, <2>3, <2>4, <2>5 DEF Stages, Active
<1>4. CASE CollectObservations(r)
  <2>1. /\ pc[r] = "observe" /\ GoTo(r, "record fixture") /\ UNCHANGED <<sources, disk>>
        /\ local' = local
        /\ ObservedAsExpected(Behaviour[<<p.shown.program, p.shown.fixture>>])
    BY <1>1, <1>4 DEF CollectObservations, Keep
  <2>2. local' = [local EXCEPT ![r] = p]
    BY <1>1, <1>2, <2>1
  <2>3. Knows("record fixture", p)
    BY <1>2, <2>1 DEF Knows, Keeps, ObservedAsExpected, KeepsTheContract, Active
  <2> QED  BY <1>1, <1>2, <2>1, <2>2, <2>3 DEF Stages, Active, Knows
<1>5. CASE RecordFixture(r)
  <2>1. PICK v : v = [p EXCEPT !.named.fixture = sources.fixture]
    OBVIOUS
  <2>2. pc[r] = "record fixture" /\ GoTo(r, "record program") /\ UNCHANGED <<sources, disk>>
        /\ local' = [local EXCEPT ![r] = v]
    BY <1>1, <1>2, <1>5, <2>1 DEF RecordFixture
  <2>3. /\ p.shown \in Sources /\ p.named \in Sources /\ p.position = 1 /\ ~p.mismatch
        /\ Keeps(p.shown)
    BY <1>2, <2>2 DEF Knows, Active
  <2>4. /\ v \in Process /\ v.named \in Sources /\ v.shown = p.shown
        /\ v.position = p.position /\ v.mismatch = p.mismatch
        /\ p.named = sources => v.named = sources
    BY <1>2, <2>1, <2>3 DEF Process, Sources
  <2>5. Knows("record program", v)
    BY <2>3, <2>4 DEF Knows
  <2> QED  BY <1>1, <2>2, <2>3, <2>4, <2>5 DEF Stages, Active
<1>6. CASE RecordProgram(r)
  <2>1. PICK v : v = [p EXCEPT !.named.program = sources.program]
    OBVIOUS
  <2>2. PICK stage : stage = IF p.mode = "generate" THEN "truncate" ELSE "compare"
    OBVIOUS
  <2>3. pc[r] = "record program" /\ GoTo(r, stage) /\ UNCHANGED <<sources, disk>>
        /\ local' = [local EXCEPT ![r] = v]
    BY <1>1, <1>2, <1>6, <2>1, <2>2 DEF RecordProgram
  <2>4. /\ p.shown \in Sources /\ p.named \in Sources /\ p.position = 1 /\ ~p.mismatch
        /\ Keeps(p.shown)
    BY <1>2, <2>3 DEF Knows, Active
  <2>5. /\ v \in Process /\ v.named \in Sources /\ v.shown = p.shown
        /\ v.position = p.position /\ v.mismatch = p.mismatch
        /\ p.named = sources => v.named = sources
    BY <1>2, <2>1, <2>4 DEF Process, Sources
  <2>6. Knows(stage, v) /\ stage \in {"truncate", "compare"}
    BY <2>2, <2>4, <2>5 DEF Knows
  <2> QED  BY <1>1, <2>3, <2>4, <2>5, <2>6 DEF Stages, Active
<1> QED  BY <1>3, <1>4, <1>5, <1>6 DEF Build

LEMMA BuildKeeps ==
  ASSUME IInv, NEW r \in Runs, Build(r)
  PROVE  IInv'
<1>1. CASE Fail(r)
  BY <1>1, Fails
<1>2. CASE ~Fail(r)
  <2>1. disk \in [Paths -> Files]
    BY KnowsProcess
  <2> QED  BY <1>2, <2>1, BuildMoves, Moves
<1> QED  BY <1>1, <1>2

(* The steps that write and check.  The disk changes at the position.      *)
LEMMA TargetKeeps ==
  ASSUME IInv, NEW r \in Runs, Write(r) \/ Check(r) \/ Kill(r)
  PROVE  IInv'
<1>1. PICK p : p = local[r]
  OBVIOUS
<1>2. /\ p \in Process /\ Knows(pc[r], p) /\ local \in [Runs -> Process]
      /\ disk \in [Paths -> Files] /\ p.position \in Paths
  BY <1>1, KnowsProcess DEF Process
<1>3. \A v \in {Absent, Empty, Torn, Foreign} : v \in Files /\ v \notin Payload
  BY ValuesAssumption DEF Files
<1>4. CASE Fail(r)
  BY <1>4, Fails
<1>5. CASE ~Fail(r) /\ TruncateTarget(r)
  <2>1. /\ pc[r] = "truncate" /\ GoTo(r, "fill") /\ UNCHANGED sources
        /\ disk' = [disk EXCEPT ![p.position] = Empty]
        /\ local' = [local EXCEPT ![r].attached = TRUE]
    BY <1>1, <1>5 DEF TruncateTarget
  <2>2. PICK v : v = [p EXCEPT !.attached = TRUE]
    OBVIOUS
  <2>3. /\ v \in Process /\ v.shown = p.shown /\ v.named = p.named
        /\ local' = [local EXCEPT ![r] = v]
    BY <1>1, <1>2, <2>1, <2>2 DEF Process
  <2>4. Knows("fill", v)
    BY <1>2, <2>1, <2>3 DEF Knows, Active
  <2>5. disk' \in [Paths -> Files]
        /\ \A x \in Paths : disk'[x] = disk[x] \/ disk'[x] \notin Payload
    BY <1>2, <1>3, <2>1
  <2> QED  BY <2>1, <2>3, <2>4, <2>5, Moves DEF Stages, Active
<1>6. CASE FillTarget(r)
  <2>1. pc[r] = "fill" /\ UNCHANGED sources
    BY <1>6 DEF FillTarget
  <2>2. PICK bytes \in Filled(r) : disk' = [disk EXCEPT ![p.position] = bytes]
    BY <1>1, <1>6 DEF FillTarget
  <2>3. Computed(r) \in Payload /\ Computed(r).shows = p.shown /\ Keeps(p.shown)
    BY <1>1, <1>2, <2>1, ComputedIsPayload DEF Computed, PayloadOf, Knows, Active
  <2>4. bytes \in {disk[p.position], Computed(r), Torn}
    BY <1>1, <2>2 DEF Filled
  <2>5. disk' \in [Paths -> Files]
        /\ \A x \in Paths : disk'[x] = disk[x] \/ disk'[x] \notin Payload \/ Keeps(disk'[x].shows)
    BY <1>2, <1>3, <2>2, <2>3, <2>4 DEF Files
  <2>6. CASE p.position < Last
    <3>1. GoTo(r, "truncate")
          /\ local' = [local EXCEPT ![r].position = @ + 1, ![r].attached = FALSE]
      BY <1>1, <1>6, <2>6 DEF FillTarget
    <3>2. PICK v : v = [p EXCEPT !.position = @ + 1, !.attached = FALSE]
      OBVIOUS
    <3>3. local' = [local EXCEPT ![r] = v]
      BY <1>1, <1>2, <3>1, <3>2
    <3>4. p.position + 1 \in Paths
      BY <1>2, <2>6, PathsAssumption DEF Paths
    <3>5. v \in Process /\ v.shown = p.shown /\ v.named = p.named
      BY <1>2, <3>2, <3>4 DEF Process
    <3>6. Knows("truncate", v)
      BY <1>2, <2>1, <3>5 DEF Knows, Active
    <3> QED  BY <2>1, <2>5, <3>1, <3>3, <3>5, <3>6, Moves DEF Stages, Active
  <2>7. CASE ~(p.position < Last)
    <3>1. Exit(r, "passed")
      BY <1>1, <1>6, <2>7 DEF FillTarget
    <3> QED  BY <2>1, <2>5, <3>1, Ends DEF Ended
  <2> QED  BY <2>6, <2>7
<1>7. CASE FailToFill(r) \/ Kill(r)
  <2>1. PICK verdict \in Ended : Interrupt(r, verdict)
    BY <1>7 DEF FailToFill, Kill, Ended
  <2>2. disk' \in [Paths -> Files]
        /\ \A x \in Paths : disk'[x] = disk[x] \/ disk'[x] \notin Payload
    <3>1. disk' = disk \/ disk' = [disk EXCEPT ![p.position] = Torn]
      BY <1>1, <2>1 DEF Interrupt
    <3> QED  BY <1>2, <1>3, <3>1
  <2> QED  BY <2>1, <2>2, Ends DEF Interrupt
<1>8. CASE CompareFile(r)
  <2>1. pc[r] = "compare" /\ UNCHANGED <<sources, disk>>
    BY <1>8 DEF CompareFile
  <2>2. CASE p.position < Last
    <3>1. GoTo(r, "compare")
          /\ local' = [local EXCEPT ![r].position = @ + 1, ![r].mismatch = Differs(r)]
      BY <1>1, <1>8, <2>2 DEF CompareFile
    <3>2. PICK d \in BOOLEAN : d = Differs(r)
      BY <1>1, <1>2 DEF Differs, Process
    <3>3. PICK v : v = [p EXCEPT !.position = @ + 1, !.mismatch = d]
      OBVIOUS
    <3>4. local' = [local EXCEPT ![r] = v]
      BY <1>1, <1>2, <3>1, <3>2, <3>3
    <3>5. p.position + 1 \in Paths
      BY <1>2, <2>2, PathsAssumption DEF Paths
    <3>6. v \in Process /\ v.shown = p.shown /\ v.named = p.named
      BY <1>2, <3>3, <3>5 DEF Process
    <3>7. Knows("compare", v)
      BY <1>2, <2>1, <3>6 DEF Knows, Active
    <3> QED  BY <1>2, <2>1, <3>1, <3>4, <3>6, <3>7, Moves DEF Stages, Active
  <2>3. CASE ~(p.position < Last)
    <3>1. PICK verdict \in Ended : Exit(r, verdict)
      BY <1>1, <1>8, <2>3 DEF CompareFile, Ended
    <3> QED  BY <1>2, <2>1, <3>1, Ends
  <2> QED  BY <2>2, <2>3
<1> QED  BY <1>4, <1>5, <1>6, <1>7, <1>8 DEF Write, Check, FailToRead

(* An edit lets go of an open file, and leaves a process as it is.         *)
SameButAttached(v, p) ==
    /\ v.shown = p.shown /\ v.named = p.named
    /\ v.position = p.position /\ v.mismatch = p.mismatch

LEMMA EditKeeps ==
  ASSUME IInv, Edit
  PROVE  IInv'
<1>1. /\ pc \in [Runs -> Stages] /\ local \in [Runs -> Process] /\ sources \in Sources
      /\ disk \in [Paths -> Files] /\ edits \in 0..MaxEdits /\ pc' = pc /\ MaxEdits \in Nat
  BY BoundAssumption DEF IInv, TypeOK, Process, Stages, Files, Edit
<1>2. /\ edits' \in 0..MaxEdits /\ alone' \in [Runs -> BOOLEAN] /\ quiet' \in BOOLEAN
  BY <1>1 DEF Edit, IInv, TypeOK
<1>3. /\ sources' \in Sources /\ disk' \in [Paths -> Files]
      /\ \A x \in Paths : disk'[x] = disk[x] \/ disk'[x] \notin Payload
  BY <1>1, ValuesAssumption DEF Edit, Files
<1>4. /\ local' \in [Runs -> Process]
      /\ \A r \in Runs : SameButAttached(local'[r], local[r])
  <2>1. CASE local' = local
    BY <1>1, <2>1 DEF SameButAttached
  <2>2. CASE \E p \in Paths : local' = [r \in Runs |->
                [local[r] EXCEPT !.attached = @ /\ local[r].position # p]]
    <3>1. PICK p \in Paths : local' = [r \in Runs |->
                [local[r] EXCEPT !.attached = @ /\ local[r].position # p]]
      BY <2>2
    <3> QED  BY <1>1, <3>1 DEF Process, SameButAttached
  <2> QED  BY <2>1, <2>2 DEF Edit
<1>5. \A r \in Runs : Knows(pc[r], local[r])'
  BY <1>1, <1>4 DEF IInv, Knows, Keeps, SameButAttached
<1>6. TypeOK'
  <2>1. \A x \in Runs : pc'[x] \in Active => local'[x].shown \in Sources /\ local'[x].named \in Sources
    BY <1>5 DEF Knows
  <2> QED  BY <1>1, <1>2, <1>3, <1>4, <2>1 DEF TypeOK, Process, Stages, Files
<1>7. MatrixShowsTheContract'
  BY <1>3 DEF IInv, MatrixShowsTheContract
<1> QED  BY <1>5, <1>6, <1>7 DEF IInv

LEMMA Initially == Init => IInv
<1> SUFFICES ASSUME Init PROVE IInv
  OBVIOUS
<1>1. /\ sources \in Sources /\ Keeps(sources) /\ edits = 0 /\ disk = BundleOf(sources, sources)
      /\ pc = [r \in Runs |-> "idle"] /\ local = [r \in Runs |-> NoProcess]
      /\ alone = [r \in Runs |-> FALSE] /\ quiet = TRUE
  BY DEF Init, Keeps
<1>2. \A p \in Paths : disk[p] \in Payload /\ disk[p].shows = sources
  BY <1>1 DEF BundleOf, PayloadOf, Payload
<1>3. disk \in [Paths -> Files]
  BY <1>1, <1>2 DEF BundleOf, Files
<1>4. local \in [Runs -> Process] /\ pc \in [Runs -> Stages]
  BY <1>1, ProcessWithSources DEF NoProcess, Stages
<1>5. TypeOK
  BY <1>1, <1>3, <1>4, BoundAssumption DEF TypeOK, Process, Stages, Files, Active
<1>6. MatrixShowsTheContract
  BY <1>1, <1>2 DEF MatrixShowsTheContract, Keeps
<1>7. \A r \in Runs : Knows(pc[r], local[r])
  BY <1>1 DEF Knows, Active
<1> QED  BY <1>5, <1>6, <1>7 DEF IInv

LEMMA Inductive == IInv /\ [Next]_vars => IInv'
<1> SUFFICES ASSUME IInv, [Next]_vars PROVE IInv'
  OBVIOUS
<1>1. CASE Edit
  BY <1>1, EditKeeps
<1>2. ASSUME NEW r \in Runs, Start(r) \/ Build(r) \/ Write(r) \/ Check(r) \/ Kill(r)
      PROVE  IInv'
  BY <1>2, StartKeeps, BuildKeeps, TargetKeeps
<1>3. CASE UNCHANGED vars
  BY <1>3 DEF vars, IInv, TypeOK, MatrixShowsTheContract, Knows, Keeps
<1> QED  BY <1>1, <1>2, <1>3 DEF Next

LEMMA Invariance == Spec => []IInv
  BY Initially, Inductive, PTL DEF Spec

(* Every variable has its type, whatever crashes, overlaps or is edited.   *)
THEOREM TypeCorrect == Spec => []TypeOK
<1>1. IInv => TypeOK
  BY DEF IInv
<1> QED  BY <1>1, Invariance, PTL

(* A whole picture or manifest shows nothing but the documented contract,  *)
(* for any library, fixture, number of runs and edits.                     *)
THEOREM MatrixIsTrue == Spec => []MatrixShowsTheContract
<1>1. IInv => MatrixShowsTheContract
  BY DEF IInv
<1> QED  BY <1>1, Invariance, PTL

-----------------------------------------------------------------------------
(* A run that nobody disturbs.                                             *)

Right(x) == PayloadOf(x, sources, sources)

(* What process v, which is alone, has seen of the worktree at a stage.    *)
Sees(stage, v) ==
    /\ stage \in Active => v.shown = sources /\ v.named = sources
    /\ stage \in {"truncate", "fill"} => \A x \in Paths : x < v.position => disk[x] = Right(x)
    /\ stage = "fill" => v.attached /\ disk[v.position] = Empty
    /\ stage = "compare" =>
          (v.mismatch <=> \E x \in Paths : x < v.position /\ disk[x] # Right(x))

VInv == \A r \in Runs : alone[r] => Sees(pc[r], local[r])

LEMMA SeesOn ==
  ASSUME IInv, NEW r \in Runs, NEW stage, NEW v,
         pc' = [pc EXCEPT ![r] = stage], local' = [local EXCEPT ![r] = v],
         \A x \in Runs : alone'[x] => x = r, alone'[r] => Sees(stage, v)'
  PROVE  VInv'
<1>1. pc'[r] = stage /\ local'[r] = v
  BY KnowsProcess
<1>2. alone'[r] => Sees(pc[r], local[r])'
  BY <1>1 DEF Sees, Right
<1> QED  BY <1>2 DEF VInv

LEMMA SeesTheEnd ==
  ASSUME IInv, NEW r \in Runs, NEW verdict \in Ended, Exit(r, verdict)
  PROVE  VInv'
<1>1. PICK v : v = NoProcess
  OBVIOUS
<1>2. Sees(verdict, v)'
  BY DEF Sees, Ended, Active
<1> QED  BY <1>1, <1>2, SeesOn DEF Exit, GoTo

(* What the paths are that process p is done with, and what it computes.   *)
LEMMA AtTheTarget ==
  ASSUME IInv, NEW r \in Runs, pc[r] \in {"truncate", "fill", "compare"}
  PROVE  /\ local[r].position \in Paths /\ local[r].position \in Nat /\ Last \in Nat
         /\ \A x \in Paths : x \in Nat /\ x >= 1 /\ x <= Last
         /\ local[r].shown = sources /\ local[r].named = sources
               => Computed(r) = Right(local[r].position)
  BY KnowsProcess, PathsAssumption DEF Process, Paths, Computed, Right

(* An undisturbed run that comes to its last file.                         *)
LEMMA CheckedBundleIsCurrent ==
  ASSUME IInv, NEW r \in Runs, alone[r], Sees(pc[r], local[r]), pc[r] = "compare",
         local[r].position = Last
  PROVE  Differs(r) <=> ~BundleIsCurrent
<1> DEFINE p == local[r]
<1>1. p.shown = sources /\ p.named = sources /\ Keeps(sources)
      /\ (p.mismatch <=> \E x \in Paths : x < Last /\ disk[x] # Right(x))
  BY KnowsProcess DEF Sees, Active, Knows
<1>2. /\ Last \in Paths /\ Computed(r) = Right(Last)
      /\ \A x \in Paths : x < Last \/ x = Last
  BY <1>1, AtTheTarget
<1>3. Differs(r) <=> \E x \in Paths : disk[x] # Right(x)
  BY <1>1, <1>2 DEF Differs
<1>4. disk = BundleOf(sources, sources) <=> \A x \in Paths : disk[x] = Right(x)
  BY KnowsProcess DEF BundleOf, Right
<1> QED  BY <1>1, <1>3, <1>4 DEF BundleIsCurrent, Keeps

LEMMA FilledBundleIsCurrent ==
  ASSUME IInv, NEW r \in Runs, alone[r], Sees(pc[r], local[r]), FillTarget(r)
  PROVE  /\ \A x \in Paths : x <= local[r].position => disk'[x] = Right(x)
         /\ local[r].position = Last => BundleIsCurrent'
<1> DEFINE p == local[r]
<1>1. pc[r] = "fill" /\ sources' = sources
  BY DEF FillTarget
<1>2. /\ p.shown = sources /\ p.named = sources /\ Keeps(sources)
      /\ p.attached /\ disk[p.position] = Empty
      /\ \A x \in Paths : x < p.position => disk[x] = Right(x)
  BY <1>1, KnowsProcess DEF Sees, Active, Knows
<1>3. disk' = [disk EXCEPT ![p.position] = Right(p.position)]
  <2>1. Computed(r) = Right(p.position)
    BY <1>1, <1>2, AtTheTarget
  <2>2. Filled(r) = {Right(p.position)}
    BY <1>2, <2>1 DEF Filled
  <2> QED  BY <2>2 DEF FillTarget
<1>4. \A x \in Paths : x <= p.position => disk'[x] = Right(x)
  <2>1. \A x \in Paths : x <= p.position => x < p.position \/ x = p.position
    BY <1>1, AtTheTarget
  <2> QED  BY <1>2, <1>3, <2>1, KnowsProcess
<1>5. ASSUME p.position = Last PROVE BundleIsCurrent'
  <2>1. \A x \in Paths : disk'[x] = Right(x)
    BY <1>1, <1>4, <1>5, AtTheTarget
  <2>2. disk' = BundleOf(sources, sources)
    BY <1>3, <2>1, KnowsProcess DEF BundleOf, Right
  <2>3. BundleOf(sources, sources)' = BundleOf(sources, sources)
    BY <1>1 DEF BundleOf, PayloadOf
  <2> QED  BY <1>1, <1>2, <2>2, <2>3 DEF BundleIsCurrent, Keeps
<1> QED  BY <1>4, <1>5

LEMMA RunsKeepSeeing ==
  ASSUME IInv, VInv, NEW r \in Runs,
         Start(r) \/ Build(r) \/ Write(r) \/ Check(r) \/ Kill(r)
  PROVE  VInv'
<1>1. PICK p : p = local[r]
  OBVIOUS
<1>2. /\ p \in Process /\ local \in [Runs -> Process] /\ disk \in [Paths -> Files]
      /\ sources \in Sources
  BY <1>1, KnowsProcess
<1>3. alone[r] => Sees(pc[r], p)
  BY <1>1 DEF VInv
<1>4. CASE Start(r)
  <2>1. PICK mode \in {"generate", "check"} :
           local' = [local EXCEPT ![r] = [ProcessWith(sources) EXCEPT !.mode = mode]]
    BY <1>4 DEF Start
  <2>2. PICK v : v = [ProcessWith(sources) EXCEPT !.mode = mode]
    OBVIOUS
  <2>3. Sees("fixture", v)'
    BY <1>4, <2>2 DEF Start, ProcessWith, Sees
  <2> QED  BY <1>4, <2>1, <2>2, <2>3, SeesOn DEF Start
<1>5. CASE Fail(r) \/ FailToFill(r) \/ Kill(r)
  BY <1>5, SeesTheEnd DEF Fail, FailToFill, Kill, Interrupt, Ended
<1>6. CASE Build(r) /\ ~Fail(r)
  <2>1. PICK stage \in Stages, v \in Process :
           /\ GoTo(r, stage) /\ local' = [local EXCEPT ![r] = v]
           /\ UNCHANGED <<sources, disk>> /\ pc[r] \in Active
           /\ stage \in Active \ {"fixture", "fill"}
           /\ v.position = 1 /\ ~v.mismatch
           /\ p.shown = sources => v.shown = sources
           /\ p.named = sources => v.named = sources
    BY <1>1, <1>6, BuildMoves
  <2>2. \A x \in Paths : ~(x < 1)
    BY DEF Paths
  <2>3. alone[r] => Sees(stage, v)'
    BY <1>3, <2>1, <2>2 DEF Sees
  <2> QED  BY <2>1, <2>3, SeesOn DEF GoTo
<1>7. CASE TruncateTarget(r) /\ ~Fail(r)
  <2>1. /\ pc[r] = "truncate" /\ GoTo(r, "fill") /\ UNCHANGED sources
        /\ disk' = [disk EXCEPT ![p.position] = Empty]
        /\ local' = [local EXCEPT ![r].attached = TRUE]
    BY <1>1, <1>7 DEF TruncateTarget
  <2>2. PICK v : v = [p EXCEPT !.attached = TRUE]
    OBVIOUS
  <2>3. /\ v.attached /\ v.shown = p.shown /\ v.named = p.named /\ v.position = p.position
        /\ local' = [local EXCEPT ![r] = v]
    BY <1>1, <1>2, <2>1, <2>2 DEF Process
  <2>4. /\ p.position \in Paths /\ disk'[p.position] = Empty
        /\ \A x \in Paths : x < p.position => disk'[x] = disk[x]
    BY <1>1, <1>2, <2>1, AtTheTarget
  <2>5. \A x : Right(x)' = Right(x)
    BY <2>1 DEF Right, PayloadOf
  <2>6. alone[r] => Sees("fill", v)'
    BY <1>3, <2>1, <2>3, <2>4, <2>5 DEF Sees, Active
  <2> QED  BY <2>1, <2>3, <2>6, SeesOn DEF GoTo
<1>8. CASE FillTarget(r)
  <2>1. pc[r] = "fill" /\ sources' = sources
    BY <1>8 DEF FillTarget
  <2>2. CASE p.position < Last
    <3>1. GoTo(r, "truncate")
          /\ local' = [local EXCEPT ![r].position = @ + 1, ![r].attached = FALSE]
      BY <1>1, <1>8, <2>2 DEF FillTarget
    <3>2. PICK v : v = [p EXCEPT !.position = @ + 1, !.attached = FALSE]
      OBVIOUS
    <3>3. /\ local' = [local EXCEPT ![r] = v] /\ v.position = p.position + 1
          /\ v.shown = p.shown /\ v.named = p.named
      BY <1>1, <1>2, <3>1, <3>2 DEF Process
    <3>4. \A x \in Paths : x < v.position => x <= p.position
      BY <1>1, <2>1, <3>3, AtTheTarget
    <3>5. \A x : Right(x)' = Right(x)
      BY <2>1 DEF Right, PayloadOf
    <3>6. alone[r] => \A x \in Paths : x <= p.position => disk'[x] = Right(x)
      BY <1>1, <1>3, <1>8, FilledBundleIsCurrent
    <3>7. alone[r] => Sees("truncate", v)'
      BY <1>3, <2>1, <3>3, <3>4, <3>5, <3>6 DEF Sees, Active
    <3> QED  BY <3>1, <3>3, <3>7, SeesOn DEF GoTo
  <2>3. CASE ~(p.position < Last)
    BY <1>1, <1>8, <2>3, SeesTheEnd DEF FillTarget, Ended
  <2> QED  BY <2>2, <2>3
<1>9. CASE CompareFile(r)
  <2>1. pc[r] = "compare" /\ UNCHANGED <<sources, disk>>
    BY <1>9 DEF CompareFile
  <2>2. CASE p.position < Last
    <3>1. GoTo(r, "compare")
          /\ local' = [local EXCEPT ![r].position = @ + 1, ![r].mismatch = Differs(r)]
      BY <1>1, <1>9, <2>2 DEF CompareFile
    <3>2. PICK d : d = Differs(r)
      OBVIOUS
    <3>3. PICK v : v = [p EXCEPT !.position = @ + 1, !.mismatch = d]
      OBVIOUS
    <3>4. /\ local' = [local EXCEPT ![r] = v] /\ v.position = p.position + 1
          /\ v.shown = p.shown /\ v.named = p.named /\ v.mismatch = d
      BY <1>1, <1>2, <3>1, <3>2, <3>3 DEF Process
    <3>5. /\ \A x \in Paths : x < v.position <=> x < p.position \/ x = p.position
          /\ p.position \in Paths
      BY <1>1, <2>1, <3>4, AtTheTarget
    <3>6. alone[r] => (d <=> \E x \in Paths : x < v.position /\ disk[x] # Right(x))
      <4>1. ASSUME alone[r]
            PROVE  /\ p.mismatch <=> \E x \in Paths : x < p.position /\ disk[x] # Right(x)
                   /\ p.shown = sources /\ p.named = sources
        BY <1>3, <2>1, <4>1 DEF Sees, Active
      <4>2. ASSUME alone[r] PROVE d <=> p.mismatch \/ disk[p.position] # Right(p.position)
        BY <1>1, <2>1, <3>2, <4>1, <4>2, AtTheTarget DEF Differs
      <4> QED  BY <3>5, <4>1, <4>2
    <3>7. \A x : Right(x)' = Right(x)
      BY <2>1 DEF Right, PayloadOf
    <3>8. alone[r] => Sees("compare", v)'
      BY <1>3, <2>1, <3>4, <3>6, <3>7 DEF Sees, Active
    <3> QED  BY <3>1, <3>4, <3>8, SeesOn DEF GoTo
  <2>3. CASE ~(p.position < Last)
    BY <1>1, <1>9, <2>3, SeesTheEnd DEF CompareFile, Ended
  <2> QED  BY <2>2, <2>3
<1> QED  BY <1>4, <1>5, <1>6, <1>7, <1>8, <1>9 DEF Write, Check, FailToRead

LEMMA SeeingInductive == IInv /\ VInv /\ [Next]_vars => VInv'
<1> SUFFICES ASSUME IInv, VInv, [Next]_vars PROVE VInv'
  OBVIOUS
<1>1. CASE Edit
  BY <1>1 DEF Edit, VInv
<1>2. CASE UNCHANGED vars
  BY <1>2 DEF vars, VInv, Sees, Right, PayloadOf
<1> QED  BY <1>1, <1>2, RunsKeepSeeing DEF Next

LEMMA SeeingInvariance == Spec => [](IInv /\ VInv)
<1>1. Init => VInv
  BY DEF Init, VInv
<1> QED  BY <1>1, SeeingInductive, Invariance, PTL DEF Spec

(* The verdict of a run that nobody disturbs is right: PASS means that the *)
(* disk holds the bundle of the present sources, and drift that it does    *)
(* not, whatever crashed, failed, overlapped or was edited before.         *)
THEOREM VerdictIsRight == Spec => UndisturbedVerdictIsRight
<1> DEFINE IsRight == \A r \in Runs : alone[r] /\ pc[r] \in Active =>
                         /\ pc'[r] = "passed" => BundleIsCurrent'
                         /\ pc'[r] = "drifted" => ~BundleIsCurrent
<1>1. IInv /\ VInv /\ Next => IsRight
  <2> SUFFICES ASSUME IInv, VInv, Next, NEW r \in Runs, alone[r], pc[r] \in Active,
                      pc'[r] \in {"passed", "drifted"}
               PROVE  /\ pc'[r] = "passed" => BundleIsCurrent'
                      /\ pc'[r] = "drifted" => ~BundleIsCurrent
    OBVIOUS
  <2>1. Sees(pc[r], local[r])
    BY DEF VInv
  <2>2. pc' # pc /\ pc \in [Runs -> Stages] /\ pc'[r] # pc[r]
    BY KnowsProcess DEF Active
  <2>3. PICK x \in Runs : Start(x) \/ Build(x) \/ Write(x) \/ Check(x) \/ Kill(x)
    BY <2>2 DEF Next, Edit
  <2>4. x = r
    <3>1. ASSUME NEW stage, pc' = [pc EXCEPT ![x] = stage] PROVE x = r
      BY <2>2, <3>1
    <3> QED  BY <2>3, <3>1 DEF Start, Build, ReadFixture, CollectObservations, RecordFixture,
                RecordProgram, Write, TruncateTarget, FillTarget, FailToFill, Check, CompareFile,
                FailToRead, Kill, Interrupt, Fail, Exit, Keep, GoTo
  <2>5. \A stage : GoTo(r, stage) => stage \in {"passed", "drifted"}
    BY <2>2 DEF GoTo
  <2>6. FillTarget(r) \/ CompareFile(r)
    <3>1. ~Start(r)
      BY DEF Start, Active
    <3>2. ~Fail(r) /\ ~Kill(r) /\ ~FailToFill(r)
      BY <2>5 DEF Fail, Kill, FailToFill, Interrupt, Exit
    <3>3. ~TruncateTarget(r)
      BY <2>5, <3>2 DEF TruncateTarget
    <3>4. ~Build(r)
      BY <2>5, <3>2, BuildMoves DEF Active
    <3> QED  BY <2>3, <2>4, <3>1, <3>2, <3>3, <3>4 DEF Write, Check, FailToRead
  <2>7. CASE FillTarget(r)
    <3>1. ~(local[r].position < Last) /\ Exit(r, "passed") /\ pc[r] = "fill"
      BY <2>5, <2>7 DEF FillTarget
    <3>2. local[r].position = Last /\ pc'[r] = "passed"
      BY <2>2, <3>1, AtTheTarget DEF Exit, GoTo
    <3> QED  BY <2>1, <2>7, <3>2, FilledBundleIsCurrent
  <2>8. CASE CompareFile(r)
    <3>1. /\ ~(local[r].position < Last) /\ pc[r] = "compare" /\ UNCHANGED <<sources, disk>>
          /\ Exit(r, IF Differs(r) THEN "drifted" ELSE "passed")
      BY <2>5, <2>8 DEF CompareFile
    <3>2. local[r].position = Last
          /\ pc'[r] = IF Differs(r) THEN "drifted" ELSE "passed"
      BY <2>2, <3>1, AtTheTarget DEF Exit, GoTo
    <3>3. Differs(r) <=> ~BundleIsCurrent
      BY <2>1, <3>1, <3>2, CheckedBundleIsCurrent
    <3>4. BundleIsCurrent' <=> BundleIsCurrent
      BY <3>1 DEF BundleIsCurrent, BundleOf, PayloadOf
    <3> QED  BY <3>2, <3>3, <3>4
  <2> QED  BY <2>6, <2>7, <2>8
<1>2. IInv /\ VInv /\ [Next]_vars => [IsRight]_vars
  BY <1>1
<1> QED  BY <1>2, SeeingInvariance, PTL DEF Spec, UndisturbedVerdictIsRight

-----------------------------------------------------------------------------
(* All runs together, as long as nothing is edited and none is stopped.    *)

Undisturbed == quiet /\ \A r \in Runs : pc[r] \in {"idle", "passed"} \cup Active

(* Process v is done with path x: has truncated, filled or agreed with it. *)
IsDoneWith(stage, v, x) ==
    \/ stage = "passed"
    \/ stage \in {"truncate", "fill"} /\ x < v.position
    \/ stage = "fill" /\ x = v.position
    \/ stage = "compare" /\ ~v.mismatch /\ x < v.position

IsFilling(stage, v, x) == stage = "fill" /\ v.position = x

QInv ==
    /\ quiet => \A r \in Runs : pc[r] \in Active =>
                   local[r].shown = sources /\ local[r].named = sources
    /\ Undisturbed =>
          /\ \A r \in Runs : pc[r] = "fill" => local[r].attached
          /\ \A r \in Runs : pc[r] = "passed" => Keeps(sources)
          /\ \A r \in Runs, x \in Paths :
                IsDoneWith(pc[r], local[r], x) => disk[x] \in {Empty, Right(x)}
          /\ \A x \in Paths : disk[x] = Empty => \E r \in Runs : IsFilling(pc[r], local[r], x)

(* Run r goes on, or passes, and does its part.                            *)
LEMMA AgreesOn ==
  ASSUME IInv, QInv, NEW r \in Runs, pc[r] \in {"idle"} \cup Active,
         NEW stage \in Active \cup {"passed"}, NEW v,
         pc' = [pc EXCEPT ![r] = stage], local' = [local EXCEPT ![r] = v],
         UNCHANGED <<sources, quiet>>,
         quiet /\ stage \in Active => v.shown = sources /\ v.named = sources,
         Undisturbed =>
            /\ stage = "fill" => v.attached
            /\ stage = "passed" => Keeps(sources)
            /\ \A x \in Paths : \/ disk'[x] \in {disk[x], Right(x)}
                                \/ disk'[x] = Empty /\ IsFilling(stage, v, x)
            /\ \A x \in Paths : IsFilling(pc[r], local[r], x) => disk'[x] # Empty
            /\ \A x \in Paths : IsDoneWith(stage, v, x) => disk'[x] \in {Empty, Right(x)}
  PROVE  QInv'
<1>1. /\ pc'[r] = stage /\ local'[r] = v
      /\ \A y \in Runs : y # r => pc'[y] = pc[y] /\ local'[y] = local[y]
  BY KnowsProcess
<1>2. /\ Undisturbed' => Undisturbed
      /\ \A x : Right(x)' = Right(x)
  BY <1>1 DEF Undisturbed, Right, PayloadOf
<1>3. ASSUME quiet', NEW y \in Runs, pc'[y] \in Active
      PROVE  local'[y].shown = sources' /\ local'[y].named = sources'
  BY <1>1, <1>3 DEF QInv
<1>4. ASSUME Undisturbed
      PROVE  /\ \A y \in Runs : pc'[y] = "fill" => local'[y].attached
             /\ \A y \in Runs : pc'[y] = "passed" => Keeps(sources)
             /\ \A y \in Runs, x \in Paths :
                   IsDoneWith(pc'[y], local'[y], x) => disk'[x] \in {Empty, Right(x)}
             /\ \A x \in Paths : disk'[x] = Empty => \E y \in Runs : IsFilling(pc'[y], local'[y], x)
  <2>1. \A y \in Runs : pc'[y] = "fill" => local'[y].attached
    BY <1>1, <1>4 DEF QInv
  <2>2. \A y \in Runs : pc'[y] = "passed" => Keeps(sources)
    BY <1>1, <1>4 DEF QInv
  <2>3. ASSUME NEW y \in Runs, NEW x \in Paths, IsDoneWith(pc'[y], local'[y], x)
        PROVE  disk'[x] \in {Empty, Right(x)}
    <3>1. CASE y = r
      BY <1>1, <1>4, <2>3, <3>1
    <3>2. CASE y # r
      <4>1. disk[x] \in {Empty, Right(x)}
        BY <1>1, <1>4, <2>3, <3>2 DEF QInv
      <4> QED  BY <1>4, <4>1
    <3> QED  BY <3>1, <3>2
  <2>4. ASSUME NEW x \in Paths, disk'[x] = Empty
        PROVE  \E y \in Runs : IsFilling(pc'[y], local'[y], x)
    <3>1. CASE IsFilling(stage, v, x)
      BY <1>1, <3>1
    <3>2. CASE ~IsFilling(stage, v, x)
      <4>1. Right(x) # Empty \/ disk[x] = Empty
        <5>1. sources \in Sources
          BY KnowsProcess
        <5>2. Right(x) \in Payload
          BY <5>1 DEF Right, PayloadOf, Payload
        <5> QED  BY <5>2, ValuesAssumption
      <4>2. disk[x] = Empty
        BY <1>4, <2>4, <3>2, <4>1
      <4>3. PICK y \in Runs : IsFilling(pc[y], local[y], x)
        BY <1>4, <4>2 DEF QInv
      <4>4. y # r
        BY <1>4, <2>4, <4>3
      <4> QED  BY <1>1, <4>3, <4>4
    <3> QED  BY <3>1, <3>2
  <2> QED  BY <2>1, <2>2, <2>3, <2>4
<1>5. Undisturbed' =>
         /\ \A y \in Runs : pc'[y] = "fill" => local'[y].attached
         /\ \A y \in Runs : pc'[y] = "passed" => Keeps(sources)'
         /\ \A y \in Runs, x \in Paths :
               IsDoneWith(pc'[y], local'[y], x) => disk'[x] \in {Empty, Right(x)'}
         /\ \A x \in Paths : disk'[x] = Empty => \E y \in Runs : IsFilling(pc'[y], local'[y], x)
  BY <1>2, <1>4 DEF Keeps
<1> QED  BY <1>3, <1>5 DEF QInv, IsDoneWith, IsFilling

(* After a run has found drift, failed or been killed nothing is claimed.  *)
LEMMA AgreesToEnd ==
  ASSUME IInv, QInv, NEW r \in Runs, NEW verdict \in {"drifted", "failed", "killed"},
         Exit(r, verdict), UNCHANGED sources
  PROVE  QInv'
<1>1. /\ pc'[r] = verdict /\ quiet' = quiet
      /\ \A y \in Runs : y # r => pc'[y] = pc[y] /\ local'[y] = local[y]
  BY KnowsProcess DEF Exit, GoTo
<1>2. ~Undisturbed'
  BY <1>1 DEF Undisturbed, Active
<1>3. quiet' => \A y \in Runs : pc'[y] \in Active =>
                   local'[y].shown = sources /\ local'[y].named = sources
  BY <1>1 DEF QInv, Active
<1> QED  BY <1>2, <1>3 DEF QInv

(* Filling a file that all runs agree on makes it right.                   *)
LEMMA FillingAgrees ==
  ASSUME IInv, QInv, NEW r \in Runs, FillTarget(r), Undisturbed
  PROVE  /\ disk' = [disk EXCEPT ![local[r].position] = Right(local[r].position)]
         /\ \A x \in Paths : x <= local[r].position => disk'[x] \in {Empty, Right(x)}
         /\ \A x \in Paths : x # local[r].position => disk'[x] = disk[x]
         /\ disk'[local[r].position] # Empty
<1> DEFINE p == local[r]
<1>1. pc[r] = "fill"
  BY DEF FillTarget
<1>2. /\ p.attached /\ Computed(r) = Right(p.position) /\ p.position \in Paths
      /\ p.shown = sources /\ p.named = sources
  BY <1>1, AtTheTarget DEF QInv, Active, Undisturbed
<1>3. \A x \in Paths : x <= p.position => disk[x] \in {Empty, Right(x)}
  <2>1. \A x \in Paths : x <= p.position => IsDoneWith(pc[r], p, x)
    BY <1>1, AtTheTarget DEF IsDoneWith
  <2> QED  BY <2>1 DEF QInv
<1>4. Filled(r) = {Right(p.position)}
  <2>1. disk[p.position] \in {Empty, Right(p.position)}
    BY <1>1, <1>2, <1>3, AtTheTarget
  <2> QED  BY <1>2, <2>1 DEF Filled
<1>5. disk' = [disk EXCEPT ![p.position] = Right(p.position)]
  BY <1>4 DEF FillTarget
<1>6. Right(p.position) \in Payload
  BY <1>2, KnowsProcess DEF Right, PayloadOf, Payload
<1> QED  BY <1>2, <1>3, <1>5, <1>6, KnowsProcess, ValuesAssumption

LEMMA RunsKeepAgreeing ==
  ASSUME IInv, QInv, NEW r \in Runs,
         Start(r) \/ Build(r) \/ Write(r) \/ Check(r) \/ Kill(r)
  PROVE  QInv'
<1>1. PICK p : p = local[r]
  OBVIOUS
<1>2. /\ p \in Process /\ local \in [Runs -> Process] /\ disk \in [Paths -> Files]
      /\ sources \in Sources /\ Knows(pc[r], p)
  BY <1>1, KnowsProcess
<1>3. /\ quiet /\ pc[r] \in Active => p.shown = sources /\ p.named = sources
      /\ Undisturbed => \A x \in Paths : IsDoneWith(pc[r], p, x) => disk[x] \in {Empty, Right(x)}
  BY <1>1 DEF QInv
<1>4. CASE Start(r)
  <2>1. PICK mode \in {"generate", "check"} :
           local' = [local EXCEPT ![r] = [ProcessWith(sources) EXCEPT !.mode = mode]]
    BY <1>4 DEF Start
  <2>2. PICK v : v = [ProcessWith(sources) EXCEPT !.mode = mode]
    OBVIOUS
  <2>3. v.shown = sources /\ v.named = sources
    BY <2>2 DEF ProcessWith
  <2>4. /\ pc[r] = "idle" /\ pc' = [pc EXCEPT ![r] = "fixture"]
        /\ UNCHANGED <<sources, disk, quiet>> /\ local' = [local EXCEPT ![r] = v]
    BY <1>4, <2>1, <2>2 DEF Start
  <2>5. \A x \in Paths : ~IsDoneWith("fixture", v, x) /\ ~IsFilling(pc[r], p, x)
    BY <2>4 DEF IsDoneWith, IsFilling
  <2> QED  BY <1>1, <2>3, <2>4, <2>5, AgreesOn DEF Active
<1>5. CASE Fail(r) \/ FailToFill(r) \/ Kill(r)
  BY <1>5, AgreesToEnd DEF Fail, FailToFill, Kill, Interrupt
<1>6. CASE Build(r) /\ ~Fail(r)
  <2>1. PICK stage \in Stages, v \in Process :
           /\ GoTo(r, stage) /\ local' = [local EXCEPT ![r] = v]
           /\ UNCHANGED <<sources, disk>> /\ pc[r] \in Active
           /\ stage \in Active \ {"fixture", "fill"}
           /\ v.position = 1 /\ ~v.mismatch
           /\ p.shown = sources => v.shown = sources
           /\ p.named = sources => v.named = sources
    BY <1>1, <1>6, BuildMoves
  <2>2. \A x \in Paths : ~(x < 1)
    BY DEF Paths
  <2>3. \A x \in Paths : ~IsDoneWith(stage, v, x) /\ ~IsFilling(pc[r], p, x)
    <3>1. pc[r] # "fill"
      BY <1>6 DEF Build, ReadFixture, CollectObservations, RecordFixture, RecordProgram
    <3> QED  BY <2>1, <2>2, <3>1 DEF IsDoneWith, IsFilling, Active
  <2> QED  BY <1>1, <1>3, <2>1, <2>3, AgreesOn DEF GoTo, Active
<1>7. CASE TruncateTarget(r) /\ ~Fail(r)
  <2>1. /\ pc[r] = "truncate" /\ GoTo(r, "fill") /\ UNCHANGED sources
        /\ disk' = [disk EXCEPT ![p.position] = Empty]
        /\ local' = [local EXCEPT ![r].attached = TRUE]
    BY <1>1, <1>7 DEF TruncateTarget
  <2>2. PICK v : v = [p EXCEPT !.attached = TRUE]
    OBVIOUS
  <2>3. /\ v.attached /\ v.shown = p.shown /\ v.named = p.named /\ v.position = p.position
        /\ local' = [local EXCEPT ![r] = v]
    BY <1>1, <1>2, <2>1, <2>2 DEF Process
  <2>4. /\ \A x \in Paths : disk'[x] = IF x = p.position THEN Empty ELSE disk[x]
        /\ \A x \in Paths : ~IsFilling(pc[r], p, x)
        /\ IsFilling("fill", v, p.position)
    BY <1>2, <2>1, <2>3 DEF IsFilling
  <2>5. \A x \in Paths : IsDoneWith("fill", v, x) => x = p.position \/ IsDoneWith(pc[r], p, x)
    BY <2>1, <2>3 DEF IsDoneWith
  <2>6. Undisturbed =>
           \A x \in Paths : IsDoneWith("fill", v, x) => disk'[x] \in {Empty, Right(x)}
    BY <1>3, <2>4, <2>5
  <2>7. \A x \in Paths : \/ disk'[x] \in {disk[x], Right(x)}
                         \/ disk'[x] = Empty /\ IsFilling("fill", v, x)
    BY <2>4
  <2>8. /\ pc' = [pc EXCEPT ![r] = "fill"] /\ UNCHANGED <<sources, quiet>>
        /\ \A x \in Paths : IsFilling(pc[r], local[r], x) => disk'[x] # Empty
    BY <1>1, <2>1, <2>4 DEF GoTo
  <2>9. quiet => v.shown = sources /\ v.named = sources
    BY <1>3, <2>1, <2>3 DEF Active
  <2> QED  BY <2>1, <2>3, <2>6, <2>7, <2>8, <2>9, AgreesOn DEF Active
<1>8. CASE FillTarget(r)
  <2>1. pc[r] = "fill" /\ sources' = sources /\ Keeps(p.shown) /\ p.position \in Paths
    BY <1>1, <1>2, <1>8, AtTheTarget DEF FillTarget, Knows
  <2>2. Undisturbed =>
           /\ \A x \in Paths : x <= p.position => disk'[x] \in {Empty, Right(x)}
           /\ \A x \in Paths : disk'[x] \in {disk[x], Right(x)}
           /\ \A x \in Paths : IsFilling(pc[r], p, x) => disk'[x] # Empty
    BY <1>1, <1>2, <1>8, <2>1, FillingAgrees DEF IsFilling
  <2>3. CASE p.position < Last
    <3>1. GoTo(r, "truncate")
          /\ local' = [local EXCEPT ![r].position = @ + 1, ![r].attached = FALSE]
      BY <1>1, <1>8, <2>3 DEF FillTarget
    <3>2. PICK v : v = [p EXCEPT !.position = @ + 1, !.attached = FALSE]
      OBVIOUS
    <3>3. /\ local' = [local EXCEPT ![r] = v] /\ v.position = p.position + 1
          /\ v.shown = p.shown /\ v.named = p.named
      BY <1>1, <1>2, <3>1, <3>2 DEF Process
    <3>4. \A x \in Paths : IsDoneWith("truncate", v, x) => x <= p.position
      BY <1>1, <2>1, <3>3, AtTheTarget DEF IsDoneWith
    <3>5. Undisturbed =>
             /\ \A x \in Paths : IsDoneWith("truncate", v, x) => disk'[x] \in {Empty, Right(x)}
             /\ \A x \in Paths : disk'[x] \in {disk[x], Right(x)}
             /\ \A x \in Paths : IsFilling(pc[r], local[r], x) => disk'[x] # Empty
      BY <1>1, <2>2, <3>4
    <3>6. pc' = [pc EXCEPT ![r] = "truncate"] /\ UNCHANGED <<sources, quiet>>
      BY <2>1, <3>1 DEF GoTo
    <3>7. quiet => v.shown = sources /\ v.named = sources
      BY <1>3, <2>1, <3>3 DEF Active
    <3> QED  BY <2>1, <3>3, <3>5, <3>6, <3>7, AgreesOn DEF Active
  <2>4. CASE ~(p.position < Last)
    <3>1. Exit(r, "passed")
      BY <1>1, <1>8, <2>4 DEF FillTarget
    <3>2. PICK v : v = NoProcess
      OBVIOUS
    <3>3. \A x \in Paths : x <= p.position
      BY <1>1, <2>1, <2>4, AtTheTarget
    <3>4. pc' = [pc EXCEPT ![r] = "passed"] /\ local' = [local EXCEPT ![r] = v] /\ quiet' = quiet
      BY <3>1, <3>2 DEF Exit, GoTo
    <3>5. quiet => Keeps(sources)
      BY <1>3, <2>1 DEF Active
    <3>6. \A x \in Paths : ~IsFilling("passed", v, x)
      BY DEF IsFilling
    <3> QED  BY <1>1, <2>1, <2>2, <3>3, <3>4, <3>5, <3>6, AgreesOn DEF Active, Undisturbed
  <2> QED  BY <2>3, <2>4
<1>9. CASE CompareFile(r)
  <2>1. /\ pc[r] = "compare" /\ UNCHANGED <<sources, disk>> /\ Keeps(p.shown)
        /\ p.position \in Paths
    BY <1>1, <1>2, <1>9, AtTheTarget DEF CompareFile, Knows
  <2>2. \A x \in Paths : ~IsFilling(pc[r], p, x) /\ ~IsFilling("passed", p, x)
    BY <2>1 DEF IsFilling
  <2>3. Undisturbed /\ ~Differs(r) =>
           \A x \in Paths : x <= p.position => disk[x] \in {Empty, Right(x)}
    <3>1. ASSUME Undisturbed, ~Differs(r), NEW x \in Paths, x <= p.position
          PROVE  disk[x] \in {Empty, Right(x)}
      <4>1. ~p.mismatch /\ disk[p.position] = Computed(r)
        BY <1>1, <3>1 DEF Differs
      <4>2. CASE x = p.position
        BY <1>1, <1>3, <2>1, <3>1, <4>1, <4>2, AtTheTarget DEF Active, Undisturbed
      <4>3. CASE x # p.position
        <5>1. x < p.position
          BY <1>1, <2>1, <3>1, <4>3, AtTheTarget
        <5> QED  BY <1>3, <2>1, <3>1, <4>1, <5>1 DEF IsDoneWith
      <4> QED  BY <4>2, <4>3
    <3> QED  BY <3>1
  <2>4. CASE p.position < Last
    <3>1. GoTo(r, "compare")
          /\ local' = [local EXCEPT ![r].position = @ + 1, ![r].mismatch = Differs(r)]
      BY <1>1, <1>9, <2>4 DEF CompareFile
    <3>2. PICK d : d = Differs(r)
      OBVIOUS
    <3>3. PICK v : v = [p EXCEPT !.position = @ + 1, !.mismatch = d]
      OBVIOUS
    <3>4. /\ local' = [local EXCEPT ![r] = v] /\ v.position = p.position + 1
          /\ v.shown = p.shown /\ v.named = p.named /\ v.mismatch = d
      BY <1>1, <1>2, <3>1, <3>2, <3>3 DEF Process
    <3>5. \A x \in Paths : IsDoneWith("compare", v, x) => x <= p.position /\ ~d
      BY <1>1, <2>1, <3>4, AtTheTarget DEF IsDoneWith
    <3>6. Undisturbed =>
             \A x \in Paths : IsDoneWith("compare", v, x) => disk'[x] \in {Empty, Right(x)}
      BY <2>1, <2>3, <3>2, <3>5
    <3> QED  BY <1>1, <1>3, <2>1, <2>2, <3>1, <3>4, <3>6, AgreesOn DEF GoTo, Active
  <2>5. CASE ~(p.position < Last) /\ Differs(r)
    <3>1. Exit(r, "drifted")
      BY <1>1, <1>9, <2>5 DEF CompareFile
    <3> QED  BY <2>1, <3>1, AgreesToEnd
  <2>6. CASE ~(p.position < Last) /\ ~Differs(r)
    <3>1. Exit(r, "passed")
      BY <1>1, <1>9, <2>6 DEF CompareFile
    <3>2. PICK v : v = NoProcess
      OBVIOUS
    <3>3. \A x \in Paths : x <= p.position
      BY <1>1, <2>1, <2>6, AtTheTarget
    <3>4. pc' = [pc EXCEPT ![r] = "passed"] /\ local' = [local EXCEPT ![r] = v] /\ quiet' = quiet
      BY <3>1, <3>2 DEF Exit, GoTo
    <3>5. quiet => Keeps(sources)
      BY <1>3, <2>1 DEF Active
    <3>6. Undisturbed => \A x \in Paths : disk'[x] \in {Empty, Right(x)}
      BY <2>1, <2>3, <2>6, <3>3
    <3> QED  BY <1>1, <2>1, <2>2, <3>4, <3>5, <3>6, AgreesOn DEF Active, Undisturbed
  <2> QED  BY <2>4, <2>5, <2>6
<1> QED  BY <1>4, <1>5, <1>6, <1>7, <1>8, <1>9 DEF Write, Check, FailToRead

(* An edit before the first run empties no file.                           *)
LEMMA EditKeepsAgreeing ==
  ASSUME IInv, QInv, Edit
  PROVE  QInv'
<1>1. CASE ~quiet'
  BY <1>1 DEF QInv, Undisturbed
<1>2. CASE quiet'
  <2>1. quiet /\ pc' = pc /\ \A r \in Runs : pc[r] = "idle"
    BY <1>2 DEF Edit
  <2>2. Undisturbed
    BY <2>1 DEF Undisturbed
  <2>3. \A x \in Paths : disk[x] # Empty
    BY <2>1, <2>2 DEF QInv, IsFilling
  <2>4. \A x \in Paths : disk'[x] # Empty
    <3>1. ASSUME NEW p \in Paths, NEW v \in {Absent, Foreign}, disk' = [disk EXCEPT ![p] = v]
          PROVE  \A x \in Paths : disk'[x] # Empty
      BY <2>3, <3>1, KnowsProcess, ValuesAssumption
    <3>2. CASE disk' = disk
      BY <2>3, <3>2
    <3> QED  BY <3>1, <3>2 DEF Edit
  <2>5. \A r \in Runs, x \in Paths : ~IsDoneWith(pc'[r], local'[r], x)
    BY <2>1 DEF IsDoneWith
  <2> QED  BY <2>1, <2>4, <2>5 DEF QInv, Active, IsDoneWith, IsFilling
<1> QED  BY <1>1, <1>2

LEMMA AgreeingInductive == IInv /\ QInv /\ [Next]_vars => QInv'
<1> SUFFICES ASSUME IInv, QInv, [Next]_vars PROVE QInv'
  OBVIOUS
<1>1. CASE Edit
  BY <1>1, EditKeepsAgreeing
<1>2. CASE UNCHANGED vars
  BY <1>2 DEF vars, QInv, Undisturbed, IsDoneWith, IsFilling, Keeps, Right, PayloadOf
<1> QED  BY <1>1, <1>2, RunsKeepAgreeing DEF Next

LEMMA InitiallyAgreeing == Init => QInv
<1> SUFFICES ASSUME Init PROVE QInv
  OBVIOUS
<1>1. \A r \in Runs : pc[r] = "idle"
  BY DEF Init
<1>2. \A x \in Paths : disk[x] # Empty
  <2>1. sources \in Sources /\ disk = BundleOf(sources, sources)
    BY DEF Init
  <2>2. \A x \in Paths : disk[x] \in Payload
    BY <2>1 DEF BundleOf, PayloadOf, Payload
  <2> QED  BY <2>2, ValuesAssumption
<1> QED  BY <1>1, <1>2 DEF QInv, Active, IsDoneWith

LEMMA AgreeingInvariance == Spec => [](IInv /\ QInv)
  BY InitiallyAgreeing, AgreeingInductive, Invariance, PTL DEF Spec

(* Runs need no lock between them as long as nothing is edited: however    *)
(* many overlapped, once all that started have passed the disk holds the   *)
(* bundle of the present sources.                                          *)
THEOREM RunsAgree == Spec => []OverlappingRunsAgree
<1>1. IInv /\ QInv => OverlappingRunsAgree
  <2> SUFFICES ASSUME IInv, QInv, quiet, \A r \in Runs : pc[r] \in {"idle", "passed"},
                      NEW r \in Runs, pc[r] = "passed"
               PROVE  BundleIsCurrent
    BY DEF OverlappingRunsAgree
  <2>1. Undisturbed
    BY DEF Undisturbed
  <2>2. \A x \in Paths : disk[x] \in {Empty, Right(x)} /\ disk[x] # Empty
    BY <2>1 DEF QInv, IsDoneWith, IsFilling
  <2>3. disk = BundleOf(sources, sources)
    BY <2>2, KnowsProcess DEF BundleOf, Right
  <2> QED  BY <2>1, <2>3 DEF QInv, BundleIsCurrent, Keeps
<1> QED  BY <1>1, AgreeingInvariance, PTL
=============================================================================
