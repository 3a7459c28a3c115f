------------------------ MODULE EvidenceBundleProofs ------------------------
(***************************************************************************)
(* Proofs about EvidenceBundle and SubjectCapture, for any number of runs, *)
(* paths and edits, any wheel the builder makes and any environment: the   *)
(* types; that no published file is ever half written; that what passes    *)
(* the checks of _capture_subject is the committed program and keeps the   *)
(* contract; that every file of the bundle shows its subject; what a PASS  *)
(* is worth; and that a write loses nothing.                               *)
(*                                                                         *)
(* IInv says where complete bytes are kept: in the worktree, in every      *)
(* commit, and in the temporary file of a run that is about to replace a   *)
(* target; and that a process knows a subject and a pipeline revision that *)
(* exist by the time it computes with them (Fits).  A step changes one     *)
(* process and at most one file, so that most steps are instances of       *)
(* Moves.  OInv follows the result of a capture through the process and    *)
(* its temporary file to the worktree and the commits.  VInv is about a    *)
(* run that is alone: it has seen the sources, the pipeline and the files  *)
(* up to its position as they still are (Seen).                            *)
(***************************************************************************)
EXTENDS EvidenceBundle, FiniteSetTheorems, WellFoundedInduction, SequenceTheorems, TLAPS

Published == Payload \cup {Absent, Foreign}

Tree == [sources : Contents, pipeline : Contents, evidence : [Paths -> Published],
         stray : BOOLEAN]

Temporary == Payload \cup {Absent, Torn}

Process == [mode : {"write", "check"}, code : Contents, subject : Nat, named : Nat,
            captured : Programs, position : Paths, mismatch : BOOLEAN]

Stages == {"idle"} \cup Active \cup Ended

(* What process p knows and does at a stage.                               *)
Fits(stage, p) ==
    /\ stage \in Active \ {"clean", "manifest", "subject"} => p.subject \in DOMAIN history
    /\ stage \in Active \ {"clean", "manifest", "subject", "sources", "revision"}
          => p.named \in DOMAIN history
    /\ stage \in {"clean", "make", "fill", "replace", "unexpected"} => p.mode = "write"
    /\ stage \in {"manifest", "list", "compare"} => p.mode = "check"

Stored ==
    /\ worktree \in Tree /\ history \in Seq(Tree)
    /\ edits \in 0..MaxEdits /\ Len(history) >= 2 /\ Len(history) <= 2 + edits

Processes ==
    /\ pc \in [Runs -> Stages] /\ local \in [Runs -> Process]
    /\ \A r \in Runs : Fits(pc[r], local[r])

Temporaries ==
    /\ temporary \in [Runs -> Temporary]
    /\ \A r \in Runs : pc[r] = "replace" => temporary[r] # Torn

IInv == Stored /\ Processes /\ Temporaries

-----------------------------------------------------------------------------
(* Some commit is the last that changed the pipeline.                      *)

LEMMA LeastExists ==
  ASSUME NEW S \in SUBSET Nat, S # {}
  PROVE  \E x \in S : \A y \in S : x <= y
<1> DEFINE upTo(n) == {y \in S : y <= n}
           starts  == {upTo(n) : n \in S}
<1>1. starts \subseteq FiniteSubsetsOf(S)
  <2> SUFFICES ASSUME NEW n \in S PROVE upTo(n) \in FiniteSubsetsOf(S)
    OBVIOUS
  <2>1. IsFiniteSet(upTo(n))
    BY FS_BoundedSetOfNaturals
  <2> QED  BY <2>1 DEF FiniteSubsetsOf
<1>2. PICK T \in starts : \A U \in starts : ~(<<U, T>> \in StrictSubsetOrdering(S))
  <2>1. starts # {}
    OBVIOUS
  <2>2. IsWellFoundedOn(StrictSubsetOrdering(S), FiniteSubsetsOf(S))
    BY FS_StrictSubsetOrderingWellFounded
  <2> HIDE DEF starts
  <2> QED  BY <1>1, <2>1, <2>2, WFMin
<1>3. PICK x \in S : T = upTo(x)
  OBVIOUS
<1>4. ASSUME NEW y \in S, y < x PROVE FALSE
  <2>1. x \in Nat /\ y \in Nat /\ \A z \in S : z \in Nat
    OBVIOUS
  <2>2. upTo(y) \subseteq upTo(x)
    <3>1. \A z \in S : z <= y => z <= x
      BY <1>4, <2>1
    <3> QED  BY <3>1
  <2>3. x \in upTo(x) /\ ~(x <= y)
    <3>1. x <= x /\ ~(x <= y)
      BY <1>4, <2>1
    <3> QED  BY <3>1
  <2>4. <<upTo(y), T>> \in StrictSubsetOrdering(S)
    BY <2>2, <2>3, <1>3 DEF StrictSubsetOrdering
  <2> QED  BY <1>2, <2>4
<1> QED  BY <1>4

LEMMA PipelineRevisionExists ==
  ASSUME Stored
  PROVE  /\ PipelineRevision \in DOMAIN history
         /\ \/ PipelineRevision = 1
            \/ history[PipelineRevision].pipeline # history[PipelineRevision - 1].pipeline
         /\ \A j \in (PipelineRevision + 1)..Len(history) :
                history[j].pipeline = history[PipelineRevision].pipeline
<1> DEFINE n == Len(history)
           same == {i \in 1..n : \A j \in i..n : history[j].pipeline = history[n].pipeline}
<1>1. n \in Nat /\ n >= 1 /\ DOMAIN history = 1..n
  BY LenProperties DEF Stored
<1> HIDE DEF n
<1>2. n \in same
  <2>1. n..n = {n}
    BY <1>1
  <2> QED  BY <2>1, <1>1
<1>3. PICK i \in same : \A k \in same : i <= k
  <2>1. same \in SUBSET Nat /\ same # {}
    BY <1>1, <1>2
  <2> HIDE DEF same
  <2> QED  BY <2>1, LeastExists
<1>4. i = 1 \/ history[i].pipeline # history[i - 1].pipeline
  <2> SUFFICES ASSUME i # 1, history[i].pipeline = history[i - 1].pipeline PROVE FALSE
    OBVIOUS
  <2>1. i \in 1..n /\ i - 1 \in 1..n /\ ~(i <= i - 1)
    BY <1>1, <1>3
  <2>2. \A j \in i..n : history[j].pipeline = history[n].pipeline
    BY <1>3
  <2>3. i \in i..n
    BY <2>1, <1>1
  <2>4. \A j \in (i - 1)..n : j = i - 1 \/ j \in i..n
    BY <2>1, <1>1
  <2>5. \A j \in (i - 1)..n : history[j].pipeline = history[n].pipeline
    BY <2>2, <2>3, <2>4
  <2>6. i - 1 \in same
    BY <2>1, <2>5
  <2> QED  BY <2>1, <2>6, <1>3
<1>5. \A j \in (i + 1)..n : history[j].pipeline = history[i].pipeline
  <2>1. i \in 1..n /\ i \in i..n /\ \A j \in (i + 1)..n : j \in i..n
    BY <1>1, <1>3
  <2> QED  BY <2>1, <1>3
<1>6. i \in 1..n
  BY <1>3
<1>7. \E x \in 1..Len(history) :
          /\ x = 1 \/ history[x].pipeline # history[x - 1].pipeline
          /\ \A j \in (x + 1)..Len(history) : history[j].pipeline = history[x].pipeline
  BY <1>4, <1>5, <1>6 DEF n
<1> QED  BY <1>7, <1>1 DEF PipelineRevision, n

-----------------------------------------------------------------------------
(* Run r is at another stage with other variables and another temporary    *)
(* file.                                                                   *)
LEMMA Moves ==
  ASSUME IInv, NEW r \in Runs, NEW stage \in Stages, NEW v \in Process, NEW f \in Temporary,
         worktree' \in Tree, history' = history, edits' = edits,
         pc' = [pc EXCEPT ![r] = stage], local' = [local EXCEPT ![r] = v],
         temporary' = [temporary EXCEPT ![r] = f],
         Fits(stage, v), stage = "replace" => f # Torn
  PROVE  IInv'
<1>1. Stored'
  BY DEF IInv, Stored
<1>2. Processes'
  <2>1. pc' \in [Runs -> Stages] /\ local' \in [Runs -> Process]
    BY DEF IInv, Processes
  <2>2. ASSUME NEW x \in Runs PROVE Fits(pc[x], local[x])'
    <3>1. CASE x = r
      <4>1. pc'[x] = stage /\ local'[x] = v
        BY <3>1 DEF IInv, Processes
      <4> QED  BY <4>1 DEF Fits
    <3>2. CASE x # r
      <4>1. pc'[x] = pc[x] /\ local'[x] = local[x] /\ Fits(pc[x], local[x])
        BY <3>2 DEF IInv, Processes
      <4> QED  BY <4>1 DEF Fits
    <3> QED  BY <3>1, <3>2
  <2> QED  BY <2>1, <2>2 DEF Processes
<1>3. Temporaries'
  BY DEF IInv, Temporaries, Processes
<1> QED  BY <1>1, <1>2, <1>3 DEF IInv

(* ... or at another stage with other variables only,                      *)
LEMMA MovesLocally ==
  ASSUME IInv, NEW r \in Runs, NEW stage \in Stages \ {"replace"}, NEW v \in Process,
         worktree' \in Tree, UNCHANGED <<history, temporary, edits>>,
         pc' = [pc EXCEPT ![r] = stage], local' = [local EXCEPT ![r] = v], Fits(stage, v)
  PROVE  IInv'
<1>1. PICK f \in Temporary : f = temporary[r]
  BY DEF IInv, Temporaries
<1>2. temporary' = [temporary EXCEPT ![r] = f]
  BY <1>1 DEF IInv, Temporaries
<1> QED  BY <1>1, <1>2, Moves

(* ... or at another stage, knowing what it knew,                          *)
LEMMA MovesOn ==
  ASSUME IInv, NEW r \in Runs, NEW stage \in Stages \ {"replace"},
         UNCHANGED shared, UNCHANGED local,
         pc' = [pc EXCEPT ![r] = stage], Fits(stage, local[r])
  PROVE  IInv'
<1>1. PICK v \in Process : v = local[r]
  BY DEF IInv, Processes
<1>2. local' = [local EXCEPT ![r] = v]
  BY <1>1 DEF IInv, Processes
<1>3. worktree' \in Tree
  BY DEF shared, IInv, Stored
<1> QED  BY <1>1, <1>2, <1>3, MovesLocally DEF shared

(* ... or has ended.                                                       *)
LEMMA Ends ==
  ASSUME IInv, NEW r \in Runs, NEW verdict \in Ended, Exit(r, verdict), NEW f \in Temporary,
         worktree' \in Tree, history' = history, edits' = edits,
         temporary' = [temporary EXCEPT ![r] = f]
  PROVE  IInv'
<1>1. NoProcess \in Process
  <2>1. 1 \in Paths
    BY PathsAssumption DEF Paths
  <2> QED  BY <2>1, ValuesAssumption DEF NoProcess, Process, Programs
<1>2. verdict \in Stages /\ verdict # "replace" /\ Fits(verdict, NoProcess)
  BY DEF Ended, Stages, Fits, Active
<1>3. pc' = [pc EXCEPT ![r] = verdict] /\ local' = [local EXCEPT ![r] = NoProcess]
  BY DEF Exit, GoTo
<1>4. PICK p \in Process : p = NoProcess
  BY <1>1
<1> QED  BY <1>2, <1>3, <1>4, Moves

LEMMA EndsAlone ==
  ASSUME IInv, NEW r \in Runs, NEW verdict \in Ended, Exit(r, verdict), UNCHANGED shared
  PROVE  IInv'
<1>1. PICK f \in Temporary : f = temporary[r]
  BY DEF IInv, Temporaries
<1>2. temporary' = [temporary EXCEPT ![r] = f]
  BY <1>1 DEF IInv, Temporaries, shared
<1>3. worktree' \in Tree
  BY DEF shared, IInv, Stored
<1> QED  BY <1>1, <1>2, <1>3, Ends DEF shared

LEMMA RequireMoves ==
  ASSUME IInv, NEW r \in Runs, NEW here, NEW ok, NEW stage \in Stages \ {"replace"},
         Require(r, here, ok, stage), ok => Fits(stage, local[r])
  PROVE  IInv'
<1>1. CASE ok
  BY <1>1, MovesOn DEF Require, Keep, GoTo
<1>2. CASE ~ok
  <2>1. Exit(r, "failed") /\ UNCHANGED shared
    BY <1>2 DEF Require, Fail
  <2>2. "failed" \in Ended
    BY DEF Ended
  <2> QED  BY <2>1, <2>2, EndsAlone
<1> QED  BY <1>1, <1>2

(* What a process knows and does where it is.                              *)
LEMMA Knows ==
  ASSUME IInv, NEW r \in Runs
  PROVE  local[r] \in Process /\ Fits(pc[r], local[r])
  BY DEF IInv, Processes

LEMMA SubjectHasSources ==
  ASSUME IInv, NEW s \in DOMAIN history
  PROVE  history[s].sources \in Contents
<1>1. history[s] \in Tree
  BY ElementOfSeq, LenProperties DEF IInv, Stored
<1> QED  BY <1>1 DEF Tree

(* What it computes for a file is complete.                                *)
LEMMA ComputedIsWhole ==
  ASSUME IInv, NEW r \in Runs
  PROVE  Computed(r) \in Payload
<1>1. local[r] \in Process
  BY DEF IInv, Processes
<1>2. /\ local[r].captured \in Programs
      /\ local[r].subject \in Nat /\ local[r].named \in Nat /\ local[r].code \in Contents
  BY <1>1 DEF Process
<1> QED  BY <1>2, ValuesAssumption DEF Computed, PayloadOf, Payload

-----------------------------------------------------------------------------
LEMMA Initially == Init => IInv
<1> SUFFICES ASSUME Init PROVE IInv
  OBVIOUS
<1> DEFINE first == [sources |-> 0, pipeline |-> 0, evidence |-> [p \in Paths |-> Absent],
                    stray |-> FALSE]
           payload(p) == [content |-> 0, subject |-> IF p \in Raw THEN 0 ELSE 1, code |-> 0,
                          pipeline |-> IF p = Manifest THEN 1 ELSE 0]
           second == [first EXCEPT !.evidence = [p \in Paths |-> payload(p)]]
<1>1. history = <<first, second>> /\ worktree = history[2]
  BY DEF Init
<1>2. first \in Tree
  BY ValuesAssumption DEF Tree, Published
<1>3. second \in Tree
  <2>1. \A p \in Paths : payload(p) \in Payload
    BY ValuesAssumption DEF Payload, Programs
  <2>2. [p \in Paths |-> payload(p)] \in [Paths -> Published]
    BY <2>1 DEF Published
  <2> HIDE DEF payload, first
  <2> QED  BY <1>2, <2>2 DEF Tree
<1>4. history \in Seq(Tree) /\ Len(history) = 2 /\ worktree \in Tree
  <2> HIDE DEF first, second
  <2> QED  BY <1>1, <1>2, <1>3
<1>5. Stored
  BY <1>4, BoundAssumption DEF Init, Stored
<1>6. Processes
  <2>1. 1 \in Paths
    BY PathsAssumption DEF Paths
  <2>2. NoProcess \in Process
    BY <2>1, ValuesAssumption DEF NoProcess, Process, Programs
  <2>3. Fits("idle", NoProcess)
    BY DEF Fits, Active
  <2> QED  BY <2>2, <2>3 DEF Init, Processes, Stages
<1>7. Temporaries
  BY DEF Init, Temporaries, Temporary
<1> QED  BY <1>5, <1>6, <1>7 DEF IInv

(* The maintainer touches no process, and only removes temporary files.    *)
LEMMA MaintainerMoves ==
  ASSUME IInv, Maintain, worktree' \in Tree, history' \in Seq(Tree),
         DOMAIN history \subseteq DOMAIN history', Len(history') >= Len(history),
         Len(history') <= Len(history) + 1, temporary' \in [Runs -> Temporary],
         \A r \in Runs : temporary'[r] \in {temporary[r], Absent}
  PROVE  IInv'
<1>1. Stored'
  <2>1. edits \in Nat /\ edits < MaxEdits /\ edits' = edits + 1 /\ MaxEdits \in Nat
    BY BoundAssumption DEF Maintain, IInv, Stored
  <2>2. Len(history) \in Nat /\ Len(history') \in Nat
    BY LenProperties DEF IInv, Stored
  <2>3. Len(history) >= 2 /\ Len(history) <= 2 + edits
    BY DEF IInv, Stored
  <2>4. edits' \in 0..MaxEdits /\ Len(history') >= 2 /\ Len(history') <= 2 + edits'
    BY <2>1, <2>2, <2>3
  <2> QED  BY <2>4 DEF Stored
<1>2. Processes'
  BY DEF IInv, Processes, Fits, Maintain
<1>3. Temporaries'
  <2>1. Absent # Torn
    BY ValuesAssumption
  <2> QED  BY <2>1 DEF IInv, Temporaries, Maintain
<1> QED  BY <1>1, <1>2, <1>3 DEF IInv

LEMMA MaintainerKeeps == IInv /\ Maintainer => IInv'
<1> SUFFICES ASSUME IInv, Maintainer PROVE IInv'
  OBVIOUS
<1>1. /\ worktree \in Tree /\ history \in Seq(Tree) /\ Len(history) \in Nat \ {0}
      /\ temporary \in [Runs -> Temporary]
  BY LenProperties DEF IInv, Stored, Temporaries
<1>2. CASE Edit
  <2>1. worktree' \in Tree
    <3>1. CASE \E v \in Contents : worktree' = [worktree EXCEPT !.sources = v]
      BY <3>1, <1>1 DEF Tree
    <3>2. CASE \E v \in Contents : worktree' = [worktree EXCEPT !.pipeline = v]
      BY <3>2, <1>1 DEF Tree
    <3>3. CASE \E p \in Paths, v \in {Absent, Foreign} :
                  worktree' = [worktree EXCEPT !.evidence[p] = v]
      BY <3>3, <1>1 DEF Tree, Published
    <3>4. CASE worktree' = [worktree EXCEPT !.stray = ~@]
      BY <3>4, <1>1 DEF Tree
    <3> QED  BY <1>2, <3>1, <3>2, <3>3, <3>4 DEF Edit
  <2>2. Maintain /\ history' = history /\ temporary' = temporary
    BY <1>2 DEF Edit
  <2> QED  BY <1>1, <2>1, <2>2, MaintainerMoves
<1>3. CASE Commit
  <2>1. Maintain /\ history' = Append(history, worktree) /\ temporary' = temporary
        /\ worktree' = worktree
    BY <1>3 DEF Commit
  <2>2. /\ history' \in Seq(Tree) /\ Len(history') = Len(history) + 1
        /\ DOMAIN history = 1..Len(history) /\ DOMAIN history' = 1..Len(history')
    BY <2>1, <1>1, AppendProperties, LenProperties
  <2>3. DOMAIN history \subseteq DOMAIN history'
    BY <2>2, <1>1
  <2> QED  BY <1>1, <2>1, <2>2, <2>3, MaintainerMoves
<1>4. CASE Restore
  <2>1. Maintain /\ history' = history /\ worktree' = Tip
        /\ temporary' = [r \in Runs |-> Absent]
    BY <1>4 DEF Restore
  <2>2. Tip \in Tree
    <3>1. Len(history) \in 1..Len(history)
      BY <1>1
    <3> QED  BY <3>1, <1>1, ElementOfSeq DEF Tip
  <2>3. temporary' \in [Runs -> Temporary]
    BY <2>1 DEF Temporary
  <2> QED  BY <1>1, <2>1, <2>2, <2>3, MaintainerMoves
<1> QED  BY <1>2, <1>3, <1>4 DEF Maintainer

-----------------------------------------------------------------------------
(* The steps of a run up to the finished bundle.                           *)
LEMMA PreparationKeeps ==
  ASSUME IInv, NEW r \in Runs,
         \/ Start(r) \/ RequireCleanWorktree(r) \/ ManifestSubject(r) \/ RequireSubject(r)
         \/ VerifyCurrentSubject(r) \/ FindPipelineRevision(r) \/ PipelineRecords(r)
         \/ CaptureSubject(r)
  PROVE  IInv'
<1>1. local[r] \in Process /\ Fits(pc[r], local[r]) /\ worktree \in Tree
  BY Knows DEF IInv, Stored
<1>2. CASE Start(r)
  <2>1. PICK mode \in {"write", "check"} :
           /\ pc' = [pc EXCEPT ![r] = IF mode = "write" THEN "clean" ELSE "manifest"]
           /\ local' = [local EXCEPT ![r] = [NoProcess EXCEPT !.mode = mode,
                                                             !.code = worktree.pipeline]]
    BY <1>2 DEF Start
  <2>2. PICK v : v = [NoProcess EXCEPT !.mode = mode, !.code = worktree.pipeline]
    OBVIOUS
  <2>3. PICK stage : stage = IF mode = "write" THEN "clean" ELSE "manifest"
    OBVIOUS
  <2>4. v \in Process /\ v.mode = mode
    <3>1. 1 \in Paths /\ worktree.pipeline \in Contents
      BY <1>1, PathsAssumption DEF Paths, Tree
    <3> QED  BY <3>1, <2>2 DEF NoProcess, Process, Programs
  <2>5. stage \in Stages \ {"replace"} /\ Fits(stage, v)
    BY <2>3, <2>4 DEF Stages, Active, Fits
  <2>6. worktree' \in Tree /\ UNCHANGED <<history, temporary, edits>>
    BY <1>1, <1>2 DEF Start, shared
  <2> QED  BY <2>1, <2>2, <2>3, <2>4, <2>5, <2>6, MovesLocally
<1>3. CASE RequireCleanWorktree(r)
  <2>1. CASE TakeSubject(r)
    <3>1. PICK s \in 1..(Len(history) + 1) : local' = [local EXCEPT ![r].subject = s]
      BY <2>1 DEF TakeSubject
    <3>2. PICK v : v = [local[r] EXCEPT !.subject = s]
      OBVIOUS
    <3>3. v \in Process
      <4>1. s \in Nat
        BY LenProperties DEF IInv, Stored
      <4> QED  BY <4>1, <3>2, <1>1 DEF Process
    <3>4. "subject" \in Stages \ {"replace"} /\ Fits("subject", v)
      BY DEF Stages, Active, Fits
    <3>5. pc' = [pc EXCEPT ![r] = "subject"] /\ local' = [local EXCEPT ![r] = v]
      BY <2>1, <3>1, <3>2 DEF TakeSubject, GoTo
    <3>6. worktree' \in Tree /\ UNCHANGED <<history, temporary, edits>>
      BY <1>1, <1>3 DEF RequireCleanWorktree, shared
    <3> QED  BY <3>3, <3>4, <3>5, <3>6, MovesLocally
  <2>2. CASE Fail(r)
    BY <2>2, <1>3, EndsAlone DEF Fail, RequireCleanWorktree, Ended
  <2> QED  BY <1>3, <2>1, <2>2 DEF RequireCleanWorktree
<1>4. CASE ManifestSubject(r)
  <2> DEFINE manifest == worktree.evidence[Manifest]
  <2>1. CASE manifest \in {Absent, Foreign, Torn}
    <3>1. Exit(r, "failed") /\ UNCHANGED shared
      BY <2>1, <1>4 DEF ManifestSubject, Fail
    <3> QED  BY <3>1, EndsAlone DEF Ended
  <2>2. CASE manifest \notin {Absent, Foreign, Torn}
    <3>1. manifest.subject \in Nat
      <4>1. manifest \in Published
        BY <1>1, PathsAssumption DEF Tree
      <4> QED  BY <4>1, <2>2 DEF Published, Payload
    <3>2. PICK v : v = [local[r] EXCEPT !.subject = manifest.subject]
      OBVIOUS
    <3>3. v \in Process
      BY <3>1, <3>2, <1>1 DEF Process
    <3>4. "subject" \in Stages \ {"replace"} /\ Fits("subject", v)
      BY DEF Stages, Active, Fits
    <3>5. pc' = [pc EXCEPT ![r] = "subject"] /\ local' = [local EXCEPT ![r] = v]
      BY <2>2, <1>4, <3>2 DEF ManifestSubject, GoTo
    <3>6. worktree' \in Tree /\ UNCHANGED <<history, temporary, edits>>
      BY <1>1, <1>4 DEF ManifestSubject, shared
    <3> QED  BY <3>3, <3>4, <3>5, <3>6, MovesLocally
  <2> QED  BY <2>1, <2>2
<1>5. CASE RequireSubject(r)
  <2>1. "sources" \in Stages \ {"replace"}
    BY DEF Stages, Active
  <2>2. ASSUME local[r].subject \in 1..Len(history) PROVE Fits("sources", local[r])
    BY <2>2, LenProperties DEF Fits, IInv, Stored
  <2>3. PICK ok : ok = (local[r].subject \in 1..Len(history))
    OBVIOUS
  <2> QED  BY <1>5, <2>1, <2>2, <2>3, RequireMoves DEF RequireSubject
<1>6. CASE VerifyCurrentSubject(r)
  <2>1. "revision" \in Stages \ {"replace"} /\ Fits("revision", local[r])
    BY <1>1, <1>6 DEF Stages, Active, Fits, VerifyCurrentSubject, Require
  <2>2. PICK ok : ok = (worktree.sources = history[local[r].subject].sources)
    OBVIOUS
  <2> QED  BY <1>6, <2>1, <2>2, RequireMoves DEF VerifyCurrentSubject
<1>7. CASE FindPipelineRevision(r)
  <2>1. PICK v : v = [local[r] EXCEPT !.named = PipelineRevision]
    OBVIOUS
  <2>2. PipelineRevision \in DOMAIN history /\ PipelineRevision \in Nat
    BY PipelineRevisionExists, LenProperties DEF IInv, Stored
  <2>3. v \in Process /\ v.named = PipelineRevision /\ v.subject = local[r].subject
    BY <2>1, <2>2, <1>1 DEF Process
  <2>4. "pipeline" \in Stages \ {"replace"} /\ Fits("pipeline", v)
    BY <1>1, <1>7, <2>2, <2>3 DEF Stages, Active, Fits, FindPipelineRevision
  <2>5. pc' = [pc EXCEPT ![r] = "pipeline"] /\ local' = [local EXCEPT ![r] = v]
    BY <1>7, <2>1 DEF FindPipelineRevision, GoTo
  <2>6. worktree' \in Tree /\ UNCHANGED <<history, temporary, edits>>
    BY <1>1, <1>7 DEF FindPipelineRevision, shared
  <2> QED  BY <2>3, <2>4, <2>5, <2>6, MovesLocally
<1>8. CASE PipelineRecords(r)
  <2>1. "build" \in Stages \ {"replace"} /\ Fits("build", local[r])
    BY <1>1, <1>8 DEF Stages, Active, Fits, PipelineRecords, Require
  <2>2. PICK ok : ok = (worktree.pipeline = history[local[r].named].pipeline)
    OBVIOUS
  <2> QED  BY <1>8, <2>1, <2>2, RequireMoves DEF PipelineRecords
<1>9. CASE CaptureSubject(r)
  <2>1. CASE Fail(r)
    BY <2>1, <1>9, EndsAlone DEF Fail, CaptureSubject, Ended
  <2>2. CASE ~Fail(r)
    <3>1. PICK program \in Captures[history[local[r].subject].sources] :
             /\ local' = [local EXCEPT ![r].captured = program]
             /\ GoTo(r, IF local[r].mode = "write" THEN "make" ELSE "list")
      BY <1>9, <2>2 DEF CaptureSubject
    <3>2. program \in Programs
      <4>1. history[local[r].subject].sources \in Contents
        BY <1>1, <1>9, SubjectHasSources DEF CaptureSubject, Fits, Active
      <4> QED  BY <3>1, <4>1 DEF Captures, Captured
    <3>3. PICK v : v = [local[r] EXCEPT !.captured = program]
      OBVIOUS
    <3>4. PICK stage : stage = IF local[r].mode = "write" THEN "make" ELSE "list"
      OBVIOUS
    <3>5. /\ v \in Process
          /\ v.subject = local[r].subject /\ v.named = local[r].named /\ v.mode = local[r].mode
      BY <3>2, <3>3, <1>1 DEF Process
    <3>6. stage \in Stages \ {"replace"} /\ Fits(stage, v)
      <4>1. local[r].mode \in {"write", "check"} /\ pc[r] = "build"
        BY <1>1, <1>9 DEF Process, CaptureSubject
      <4> QED  BY <1>1, <3>4, <3>5, <4>1 DEF Stages, Active, Fits
    <3>7. pc' = [pc EXCEPT ![r] = stage] /\ local' = [local EXCEPT ![r] = v]
      BY <3>1, <3>3, <3>4 DEF GoTo
    <3>8. worktree' \in Tree /\ UNCHANGED <<history, temporary, edits>>
      BY <1>1, <1>9 DEF CaptureSubject, shared
    <3> QED  BY <3>5, <3>6, <3>7, <3>8, MovesLocally
  <2> QED  BY <2>1, <2>2
<1> QED  BY <1>2, <1>3, <1>4, <1>5, <1>6, <1>7, <1>8, <1>9

(* The steps that write.                                                   *)
LEMMA WriteKeeps ==
  ASSUME IInv, NEW r \in Runs, WriteStep(r)
  PROVE  IInv'
<1>1. /\ local[r] \in Process /\ Fits(pc[r], local[r]) /\ worktree \in Tree
      /\ temporary[r] \in Temporary
  BY Knows DEF IInv, Stored, Temporaries
<1>2. "failed" \in Ended /\ "passed" \in Ended
  BY DEF Ended
<1>3. Torn \in Temporary /\ Absent \in Temporary /\ Absent # Torn
  BY ValuesAssumption DEF Temporary
<1>4. PICK v \in Process : v = local[r]
  BY <1>1
<1>5. ASSUME local' = local PROVE local' = [local EXCEPT ![r] = v]
  BY <1>4, <1>5 DEF IInv, Processes
<1>6. CASE MakeTemporary(r)
  <2>1. CASE Fail(r) /\ UNCHANGED temporary
    BY <2>1, <1>6, <1>2, EndsAlone DEF Fail, MakeTemporary, shared
  <2>2. CASE temporary' = [temporary EXCEPT ![r] = Torn] /\ Keep(r, "fill")
    <3>1. "fill" \in Stages /\ Fits("fill", v)
      BY <1>1, <1>4, <1>6 DEF Stages, Active, Fits, MakeTemporary
    <3>2. /\ pc' = [pc EXCEPT ![r] = "fill"] /\ local' = local
          /\ history' = history /\ edits' = edits /\ worktree' \in Tree
      BY <2>2, <1>1, <1>6 DEF Keep, GoTo, MakeTemporary
    <3> QED  BY <2>2, <3>1, <3>2, <1>3, <1>5, Moves
  <2> QED  BY <1>6, <2>1, <2>2 DEF MakeTemporary
<1>7. CASE FillTemporary(r)
  <2>0. history' = history /\ edits' = edits /\ worktree' \in Tree
    BY <1>1, <1>7 DEF FillTemporary
  <2>1. CASE temporary' = [temporary EXCEPT ![r] = Absent] /\ Fail(r)
    BY <2>0, <2>1, <1>2, <1>3, Ends DEF Fail
  <2>2. CASE /\ temporary' = [temporary EXCEPT ![r] = IF @ = Absent THEN Absent ELSE Computed(r)]
             /\ Keep(r, "replace")
    <3>1. PICK f : f = IF temporary[r] = Absent THEN Absent ELSE Computed(r)
      OBVIOUS
    <3>3. Computed(r) \in Payload
      BY ComputedIsWhole
    <3>4. f \in Temporary /\ f # Torn
      BY <3>1, <3>3, <1>3, ValuesAssumption DEF Temporary
    <3>5. "replace" \in Stages /\ Fits("replace", v)
      BY <1>1, <1>4, <1>7 DEF Stages, Active, Fits, FillTemporary
    <3>6. /\ pc' = [pc EXCEPT ![r] = "replace"] /\ local' = local
          /\ temporary' = [temporary EXCEPT ![r] = f]
      BY <2>2, <3>1 DEF Keep, GoTo
    <3> QED  BY <2>0, <3>4, <3>5, <3>6, <1>5, Moves
  <2> QED  BY <1>7, <2>1, <2>2 DEF FillTemporary
<1>8. CASE ReplaceTarget(r)
  <2>0. history' = history /\ edits' = edits /\ temporary' = [temporary EXCEPT ![r] = Absent]
    BY <1>8 DEF ReplaceTarget
  <2>1. CASE Fail(r) /\ UNCHANGED worktree
    BY <2>0, <2>1, <1>1, <1>2, <1>3, Ends DEF Fail
  <2>2. CASE /\ temporary[r] # Absent
             /\ worktree' = [worktree EXCEPT !.evidence[local[r].position] = temporary[r]]
             /\ Advance(r, "make", "unexpected")
    <3>1. worktree' \in Tree
      <4>1. temporary[r] # Torn
        BY <1>8 DEF ReplaceTarget, IInv, Temporaries
      <4>2. temporary[r] \in Published
        BY <4>1, <2>2, <1>1 DEF Temporary, Published
      <4> QED  BY <4>2, <2>2, <1>1 DEF Tree
    <3>2. PICK w : w = [local[r] EXCEPT !.position = @ + 1]
      OBVIOUS
    <3>3. CASE local[r].position < Last
      <4>1. w \in Process /\ w.subject = v.subject /\ w.named = v.named /\ w.mode = v.mode
        <5>1. local[r].position + 1 \in Paths
          BY <3>3, <1>1, PathsAssumption DEF Process, Paths
        <5> QED  BY <5>1, <3>2, <1>1, <1>4 DEF Process
      <4>2. "make" \in Stages /\ "make" # "replace" /\ Fits("make", w)
        BY <1>1, <1>4, <1>8, <4>1 DEF Stages, Active, Fits, ReplaceTarget
      <4>3. pc' = [pc EXCEPT ![r] = "make"] /\ local' = [local EXCEPT ![r] = w]
        BY <2>2, <3>2, <3>3 DEF Advance, GoTo
      <4> QED  BY <2>0, <3>1, <4>1, <4>2, <4>3, <1>3, Moves
    <3>4. CASE ~(local[r].position < Last)
      <4>1. "unexpected" \in Stages /\ Fits("unexpected", v)
        BY <1>1, <1>4, <1>8 DEF Stages, Active, Fits, ReplaceTarget
      <4>2. pc' = [pc EXCEPT ![r] = "unexpected"] /\ local' = local
        BY <2>2, <3>4 DEF Advance, Keep, GoTo
      <4> QED  BY <2>0, <3>1, <4>1, <4>2, <1>3, <1>5, Moves
    <3> QED  BY <3>3, <3>4
  <2> QED  BY <1>8, <2>1, <2>2 DEF ReplaceTarget
<1>9. CASE RefuseUnexpected(r)
  BY <1>9, <1>2, EndsAlone DEF RefuseUnexpected, Pass, Fail
<1> QED  BY <1>6, <1>7, <1>8, <1>9 DEF WriteStep

(* The steps that check.                                                   *)
LEMMA CheckKeeps ==
  ASSUME IInv, NEW r \in Runs, RequireMembership(r) \/ CompareFile(r)
  PROVE  IInv'
<1>1. local[r] \in Process /\ Fits(pc[r], local[r]) /\ worktree \in Tree
  BY Knows DEF IInv, Stored
<1>2. CASE RequireMembership(r)
  <2>1. "compare" \in Stages \ {"replace"} /\ Fits("compare", local[r])
    BY <1>1, <1>2 DEF Stages, Active, Fits, RequireMembership, Require
  <2>2. PICK ok : ok = (NothingElse /\ \A p \in Paths : worktree.evidence[p] # Absent)
    OBVIOUS
  <2> QED  BY <1>2, <2>1, <2>2, RequireMoves DEF RequireMembership
<1>3. CASE CompareFile(r)
  <2>1. UNCHANGED shared /\ pc[r] = "compare"
    BY <1>3 DEF CompareFile
  <2>2. CASE Fail(r) \/ Pass(r)
    BY <2>1, <2>2, EndsAlone DEF Fail, Pass, Ended
  <2>3. CASE ~(Fail(r) \/ Pass(r))
    <3>1. PICK differs \in BOOLEAN :
             /\ local' = [local EXCEPT ![r].position = @ + 1, ![r].mismatch = differs]
             /\ local[r].position # Last /\ GoTo(r, "compare")
      BY <1>3, <2>3 DEF CompareFile
    <3>2. PICK v : v = [local[r] EXCEPT !.position = @ + 1, !.mismatch = differs]
      OBVIOUS
    <3>3. /\ v \in Process
          /\ v.subject = local[r].subject /\ v.named = local[r].named /\ v.mode = local[r].mode
      <4>1. local[r].position + 1 \in Paths
        BY <3>1, <1>1, PathsAssumption DEF Process, Paths
      <4> QED  BY <4>1, <3>2, <1>1 DEF Process
    <3>4. "compare" \in Stages \ {"replace"} /\ Fits("compare", v)
      BY <1>1, <2>1, <3>3 DEF Stages, Active, Fits
    <3>5. pc' = [pc EXCEPT ![r] = "compare"] /\ local' = [local EXCEPT ![r] = v]
      BY <3>1, <3>2 DEF GoTo, IInv, Processes
    <3>6. worktree' \in Tree /\ UNCHANGED <<history, temporary, edits>>
      BY <1>1, <2>1 DEF shared
    <3> QED  BY <3>3, <3>4, <3>5, <3>6, MovesLocally
  <2> QED  BY <2>2, <2>3
<1> QED  BY <1>2, <1>3

LEMMA Inductive == IInv /\ [Next]_vars => IInv'
<1> SUFFICES ASSUME IInv, [Next]_vars PROVE IInv'
  OBVIOUS
<1>1. CASE Maintainer
  BY <1>1, MaintainerKeeps
<1>2. ASSUME NEW r \in Runs, Start(r) \/ Step(r) PROVE IInv'
  BY <1>2, PreparationKeeps, WriteKeeps, CheckKeeps DEF Step
<1>3. ASSUME NEW r \in Runs, Crash(r) PROVE IInv'
  BY <1>3, EndsAlone DEF Crash, Ended
<1>4. CASE UNCHANGED vars
  BY <1>4 DEF vars, shared, IInv, Stored, Processes, Fits, Temporaries
<1> QED  BY <1>1, <1>2, <1>3, <1>4 DEF Next

LEMMA Invariance == Spec => []IInv
  BY Initially, Inductive, PTL DEF Spec

-----------------------------------------------------------------------------
(* Every run knows what it is about to use: _capture_subject and           *)
(* build_bundle are reached with a subject and a pipeline revision of the  *)
(* history, and the loops stay within the bundle.                          *)
THEOREM TypeCorrect == Spec => []TypeOK
<1>1. IInv => TypeOK
  <2> SUFFICES ASSUME IInv PROVE TypeOK
    OBVIOUS
  <2>1. Len(history) \in 2..(2 + MaxEdits) /\ edits \in 0..MaxEdits
    BY LenProperties, BoundAssumption DEF IInv, Stored
  <2>2. ASSUME NEW r \in Runs PROVE local[r].position \in Paths /\ pc[r] \in Stages
    BY DEF IInv, Processes, Process
  <2> QED  BY <2>1, <2>2 DEF TypeOK, IInv, Processes, Fits, Stages
<1> QED  BY <1>1, Invariance, PTL

(* _atomic_write keeps what it promises: whatever crashes, fails or runs   *)
(* at the same time, no published name ever holds half of a file.          *)
THEOREM PublishedWhole == Spec => []PublishedIsWhole
<1>1. IInv => PublishedIsWhole
  <2> SUFFICES ASSUME IInv PROVE PublishedIsWhole
    OBVIOUS
  <2>1. Torn \notin Published
    BY ValuesAssumption DEF Published
  <2>2. \A p \in Paths : worktree.evidence[p] \in Published
    BY DEF IInv, Stored, Tree
  <2>3. \A i \in DOMAIN history : history[i] \in Tree
    BY ElementOfSeq, LenProperties DEF IInv, Stored
  <2>4. \A i \in DOMAIN history, p \in Paths : history[i].evidence[p] \in Published
    BY <2>3 DEF Tree
  <2> QED  BY <2>1, <2>2, <2>4 DEF PublishedIsWhole
<1> QED  BY <1>1, Invariance, PTL

-----------------------------------------------------------------------------
(* One capture.                                                            *)

(* A reader of an archive that holds every name once finds each entry.     *)
LEMMA ReadFindsEntry ==
  ASSUME NEW wheel \in Wheels, NamesOnce(wheel), NEW i \in DOMAIN wheel
  PROVE  Read(wheel, wheel[i].name) = wheel[i].bytes
<1> DEFINE IsLast(k) == /\ wheel[k].name = wheel[i].name
                        /\ \A j \in DOMAIN wheel : wheel[j].name = wheel[i].name => j <= k
<1>1. i \in Nat
  BY WheelsAssumption
<1>2. \A j \in DOMAIN wheel : wheel[j].name = wheel[i].name => j = i
  BY DEF NamesOnce
<1>3. IsLast(i)
  BY <1>1, <1>2
<1>4. (CHOOSE k \in DOMAIN wheel : IsLast(k)) \in DOMAIN wheel
      /\ IsLast(CHOOSE k \in DOMAIN wheel : IsLast(k))
  <2> HIDE DEF IsLast
  <2> QED  BY <1>3
<1>5. (CHOOSE k \in DOMAIN wheel : IsLast(k)) = i
  BY <1>2, <1>4
<1> QED  BY <1>5 DEF Read

(* The wheel contract leaves the installer no choice: what it installs is  *)
(* the package of the commit, whatever else the builder could have made.   *)
THEOREM AcceptedWheelIsTheSubject ==
  ASSUME NEW v \in Contents, NEW wheel \in Wheels, WheelContract(wheel, v)
  PROVE  Installed(wheel) = v
<1> DEFINE Of(w) == \A i \in DOMAIN wheel : wheel[i].name \in Package => wheel[i].bytes = w
<1>1. Of(v)
  BY ReadFindsEntry DEF WheelContract, PackageOf
<1>2. PICK i \in DOMAIN wheel : wheel[i].name \in Package
  BY PackageAssumption DEF WheelContract, Members, Names
<1>3. \A w \in Contents : Of(w) => w = v
  BY <1>1, <1>2
<1>4. (CHOOSE w \in Contents : Of(w)) = v
  <2>1. \E w \in Contents : Of(w)
    BY <1>1
  <2> HIDE DEF Of
  <2> QED  BY <2>1, <1>3
<1>5. /\ Names(wheel) \subseteq Members
      /\ PinnedMetadata(wheel)
      /\ \E w \in Contents : Of(w)
  BY <1>1 DEF WheelContract
<1> QED  BY <1>4, <1>5 DEF Installed

(* What _execute and _validate_executions pin for five inputs amounts to   *)
(* the documented contract on them.                                        *)
LEMMA AcceptedRunsKeepTheContract ==
  ASSUME NEW runs, AcceptedRuns(runs)
  PROVE  KeepsTheContract(runs)
<1>1. /\ \A case \in Cases \ {"module"} : Executed(runs[case])
      /\ ValidateExecutions(runs) /\ Decisions(runs) /\ SameOutcome(runs["module"], runs["robust"])
  BY DEF AcceptedRuns, ValidateExecutions
<1> DEFINE OneStream(case) == (runs[case].stdout = Nothing) # (runs[case].stderr = Nothing)
           Agrees(case) == runs[case].stdout # Nothing =>
                             /\ (runs[case].exit = 0) = (runs[case].stdout.status = "robust")
                             /\ (runs[case].exit = 0) = (runs[case].stdout.slack >= 0)
<1>2. OneStream("robust") /\ Agrees("robust") /\ runs["robust"].stderr = Nothing
      /\ runs["robust"].exit = 0
  BY <1>1 DEF Decisions, Reports, Executed, Cases
<1>3. OneStream("tight") /\ Agrees("tight")
  <2>1. -120 < 0 /\ 1 # 0 /\ ~(-120 >= 0) /\ "duration_sensitive" # "robust"
    OBVIOUS
  <2> QED  BY <2>1, <1>1 DEF Decisions, Reports, Executed, Cases
<1>4. OneStream("equality") /\ Agrees("equality")
  <2>1. 0 >= 0
    OBVIOUS
  <2> QED  BY <2>1, <1>1 DEF Decisions, Reports, Executed, Cases
<1>5. OneStream("infeasible") /\ Agrees("infeasible") /\ runs["infeasible"].exit = 3
  BY <1>1 DEF Decisions
<1>6. runs["reordered"].exit = 0 /\ runs["reordered"].stdout = runs["robust"].stdout
      /\ runs["reordered"].stderr = Nothing
  BY <1>1 DEF ValidateExecutions
<1>7. \A case \in {"reordered", "module"} : SameOutcome(runs[case], runs["robust"])
  BY <1>1, <1>2, <1>6 DEF SameOutcome
<1>8. \A case \in Cases : OneStream(case) /\ Agrees(case)
  BY <1>2, <1>3, <1>4, <1>5, <1>7 DEF Cases, SameOutcome
<1> QED  BY <1>5, <1>7, <1>8 DEF KeepsTheContract

(* _capture_subject cannot be misled: whatever wheel was built and         *)
(* whatever environment it was installed in, an accepted capture of a      *)
(* commit ran that commit's own sources, and they keep the contract.       *)
THEOREM CaptureIsTheSubject ==
  ASSUME NEW v \in Contents, NEW program \in Captured(v)
  PROVE  program = v /\ program \in Sound
<1>1. program \in Programs /\ AcceptedRuns(Behaviour[program])
  BY DEF Captured
<1>2. PICK wheel \in Wheels, env \in Environments :
         /\ WheelContract(wheel, v) /\ FreshVenv(env) /\ RuntimeContract(env)
         /\ program = Ran(wheel, env)
  BY DEF Captured
<1>3. program = Installed(wheel)
  BY <1>2 DEF Ran, FreshVenv, RuntimeContract, PassedOn
<1>4. KeepsTheContract(Behaviour[program])
  BY <1>1, AcceptedRunsKeepTheContract
<1> QED  BY <1>1, <1>2, <1>3, <1>4, AcceptedWheelIsTheSubject DEF Sound

-----------------------------------------------------------------------------
(* From the capture to the files.                                          *)

Publishing == {"make", "fill", "replace", "unexpected", "list", "compare"}

(* What process p holds once it has captured its subject.                  *)
Holds(stage, p) ==
    stage \in Publishing => p.captured \in Sound /\ p.captured = history[p.subject].sources

OInv ==
    /\ EvidenceIsOfItsSubject
    /\ \A r \in Runs : Holds(pc[r], local[r])
    /\ \A r \in Runs : pc[r] = "replace" => Genuine(local[r].position, temporary[r])

LEMMA TreesArePublished ==
  ASSUME IInv
  PROVE  /\ \A p \in Paths : worktree.evidence[p] \in Published
         /\ \A i \in DOMAIN history, p \in Paths : history[i].evidence[p] \in Published
<1>1. \A i \in DOMAIN history : history[i] \in Tree
  BY ElementOfSeq, LenProperties DEF IInv, Stored
<1> QED  BY <1>1 DEF IInv, Stored, Tree

(* What run r computes for a file shows its subject.                       *)
LEMMA ComputedIsGenuine ==
  ASSUME IInv, OInv, NEW r \in Runs, pc[r] \in Publishing
  PROVE  Genuine(local[r].position, Computed(r))
<1>1. local[r] \in Process /\ Fits(pc[r], local[r]) /\ Holds(pc[r], local[r])
  BY Knows DEF OInv
<1>2. local[r].subject \in DOMAIN history
  BY <1>1 DEF Fits, Publishing, Active
<1>3. PICK p \in Paths : p = local[r].position
  BY <1>1 DEF Process
<1> QED  BY <1>1, <1>2, <1>3 DEF Holds, Genuine, Computed, PayloadOf

(* A step of run r that changes nothing of the others and puts nothing but *)
(* genuine files in the worktree.                                          *)
LEMMA RunKeepsOrigin ==
  ASSUME OInv, NEW r \in Runs, history' = history,
         \A p \in Paths : Genuine(p, worktree'.evidence[p]),
         \A x \in Runs \ {r} : /\ pc'[x] = pc[x] /\ local'[x] = local[x]
                               /\ temporary'[x] = temporary[x],
         Holds(pc'[r], local'[r]),
         pc'[r] = "replace" => Genuine(local'[r].position, temporary'[r])
  PROVE  OInv'
<1>1. \A p, f : Genuine(p, f)' <=> Genuine(p, f)
  BY DEF Genuine
<1>2. EvidenceIsOfItsSubject'
  <2>1. \A p \in Paths : Genuine(p, worktree.evidence[p])'
    BY DEF Genuine
  <2>2. \A i \in DOMAIN history, p \in Paths : Genuine(p, history[i].evidence[p])'
    BY DEF Genuine, OInv, EvidenceIsOfItsSubject
  <2> QED  BY <2>1, <2>2 DEF EvidenceIsOfItsSubject
<1>3. \A x \in Runs : Holds(pc[x], local[x])'
  BY DEF OInv, Holds
<1>4. \A x \in Runs : pc'[x] = "replace" => Genuine(local[x].position, temporary[x])'
  BY DEF OInv, Genuine
<1> QED  BY <1>2, <1>3, <1>4 DEF OInv

(* What is on disk stays genuine as long as no evidence and no commit      *)
(* changes.                                                                *)
LEMMA ReadingKeepsOrigin ==
  ASSUME IInv, OInv, NEW r \in Runs, history' = history,
         worktree'.evidence = worktree.evidence,
         NEW stage, pc' = [pc EXCEPT ![r] = stage], stage # "replace",
         \/ local' = local
         \/ \E v : local' = [local EXCEPT ![r] = v],
         \A x \in Runs \ {r} : temporary'[x] = temporary[x],
         Holds(stage, local'[r])
  PROVE  OInv'
<1>1. pc \in [Runs -> Stages] /\ local \in [Runs -> Process]
  BY DEF IInv, Processes
<1>2. pc'[r] = stage /\ \A x \in Runs \ {r} : pc'[x] = pc[x] /\ local'[x] = local[x]
  BY <1>1
<1>3. \A p \in Paths : Genuine(p, worktree'.evidence[p])
  BY DEF OInv, EvidenceIsOfItsSubject
<1> QED  BY <1>2, <1>3, RunKeepsOrigin

(* A run that is not publishing yet, or has ended, claims nothing.         *)
LEMMA EndingKeepsOrigin ==
  ASSUME IInv, OInv, NEW r \in Runs, NEW verdict \in Ended, Exit(r, verdict),
         history' = history, worktree' = worktree,
         \A x \in Runs \ {r} : temporary'[x] = temporary[x]
  PROVE  OInv'
<1>1. pc' = [pc EXCEPT ![r] = verdict] /\ local' = [local EXCEPT ![r] = NoProcess]
  BY DEF Exit, GoTo
<1>2. verdict # "replace" /\ Holds(verdict, local'[r])
  BY DEF Ended, Holds, Publishing
<1> QED  BY <1>1, <1>2, ReadingKeepsOrigin

LEMMA PreparationKeepsOrigin ==
  ASSUME IInv, OInv, NEW r \in Runs,
         \/ Start(r) \/ RequireCleanWorktree(r) \/ ManifestSubject(r) \/ RequireSubject(r)
         \/ VerifyCurrentSubject(r) \/ FindPipelineRevision(r) \/ PipelineRecords(r)
  PROVE  OInv'
<1>1. UNCHANGED shared
  BY DEF Start, RequireCleanWorktree, ManifestSubject, RequireSubject, VerifyCurrentSubject,
         FindPipelineRevision, PipelineRecords, Require
<1>2. CASE Exit(r, "failed")
  BY <1>1, <1>2, EndingKeepsOrigin DEF shared, Ended
<1>3. CASE ~Exit(r, "failed")
  <2>1. PICK stage \in {"clean", "manifest", "subject", "sources", "revision", "pipeline", "build"} :
           /\ pc' = [pc EXCEPT ![r] = stage]
           /\ local' = local \/ \E v : local' = [local EXCEPT ![r] = v]
    <3>1. CASE Start(r)
      <4>1. PICK mode \in {"write", "check"} :
               /\ pc' = [pc EXCEPT ![r] = IF mode = "write" THEN "clean" ELSE "manifest"]
               /\ local' = [local EXCEPT ![r] = [NoProcess EXCEPT !.mode = mode,
                                                                 !.code = worktree.pipeline]]
        BY <3>1 DEF Start
      <4> QED  BY <4>1
    <3>2. CASE RequireCleanWorktree(r)
      BY <1>3, <3>2 DEF RequireCleanWorktree, TakeSubject, Fail, GoTo
    <3>3. CASE ManifestSubject(r)
      BY <1>3, <3>3 DEF ManifestSubject, Fail, GoTo
    <3>4. CASE RequireSubject(r) \/ VerifyCurrentSubject(r) \/ PipelineRecords(r)
      BY <1>3, <3>4 DEF RequireSubject, VerifyCurrentSubject, PipelineRecords, Require, Keep,
                        GoTo, Fail
    <3>5. CASE FindPipelineRevision(r)
      BY <3>5 DEF FindPipelineRevision, GoTo
    <3> QED  BY <3>1, <3>2, <3>3, <3>4, <3>5
  <2>2. stage # "replace" /\ Holds(stage, local'[r])
    BY DEF Holds, Publishing
  <2> QED  BY <1>1, <2>1, <2>2, ReadingKeepsOrigin DEF shared
<1> QED  BY <1>2, <1>3

(* The one step that makes the claim.                                      *)
LEMMA CaptureKeepsOrigin ==
  ASSUME IInv, OInv, NEW r \in Runs, CaptureSubject(r)
  PROVE  OInv'
<1>1. CASE Fail(r)
  BY <1>1, EndingKeepsOrigin DEF Fail, CaptureSubject, shared, Ended
<1>2. CASE ~Fail(r)
  <2>1. PICK program \in Captures[history[local[r].subject].sources] :
           /\ local' = [local EXCEPT ![r].captured = program]
           /\ GoTo(r, IF local[r].mode = "write" THEN "make" ELSE "list")
    BY <1>2 DEF CaptureSubject
  <2>2. PICK stage : stage = IF local[r].mode = "write" THEN "make" ELSE "list"
    OBVIOUS
  <2>3. PICK v : v = history[local[r].subject].sources
    OBVIOUS
  <2>4. v \in Contents
    BY <2>3, Knows, SubjectHasSources DEF CaptureSubject, Fits, Active
  <2>5. program = v /\ program \in Sound
    BY <2>1, <2>3, <2>4, CaptureIsTheSubject DEF Captures
  <2>6. local[r] \in Process /\ local \in [Runs -> Process]
    BY DEF IInv, Processes
  <2>7. /\ local'[r].captured = program /\ local'[r].subject = local[r].subject
        /\ local' = [local EXCEPT ![r] = [local[r] EXCEPT !.captured = program]]
    BY <2>1, <2>6 DEF Process
  <2>8. pc' = [pc EXCEPT ![r] = stage] /\ stage # "replace" /\ UNCHANGED shared
    BY <2>1, <2>2 DEF GoTo, CaptureSubject
  <2>9. Holds(stage, local'[r])
    BY <2>3, <2>5, <2>7, <2>8 DEF Holds, shared
  <2> QED  BY <2>7, <2>8, <2>9, ReadingKeepsOrigin DEF shared
<1> QED  BY <1>1, <1>2

(* What is computed goes through the temporary file into the worktree.     *)
LEMMA WriteKeepsOrigin ==
  ASSUME IInv, OInv, NEW r \in Runs, WriteStep(r)
  PROVE  OInv'
<1>1. /\ pc \in [Runs -> Stages] /\ local \in [Runs -> Process]
      /\ temporary \in [Runs -> Temporary] /\ worktree \in Tree
  BY DEF IInv, Processes, Temporaries, Stored
<1>2. Holds(pc[r], local[r]) /\ \A p \in Paths : Genuine(p, worktree.evidence[p])
  BY DEF OInv, EvidenceIsOfItsSubject
<1>3. "failed" \in Ended /\ "passed" \in Ended
  BY DEF Ended
<1>4. CASE MakeTemporary(r)
  <2>1. /\ history' = history /\ worktree' = worktree
        /\ \A x \in Runs \ {r} : temporary'[x] = temporary[x]
    BY <1>4, <1>1 DEF MakeTemporary
  <2>2. CASE Fail(r)
    BY <1>3, <2>1, <2>2, EndingKeepsOrigin DEF Fail
  <2>3. CASE Keep(r, "fill")
    <3>1. pc' = [pc EXCEPT ![r] = "fill"] /\ local' = local /\ Holds("fill", local'[r])
      BY <1>2, <1>4, <2>3 DEF Keep, GoTo, MakeTemporary, Holds, Publishing
    <3> QED  BY <2>1, <3>1, ReadingKeepsOrigin
  <2> QED  BY <1>4, <2>2, <2>3 DEF MakeTemporary
<1>5. CASE FillTemporary(r)
  <2>1. /\ history' = history /\ worktree' = worktree
        /\ \A x \in Runs \ {r} : temporary'[x] = temporary[x]
    BY <1>5, <1>1 DEF FillTemporary
  <2>2. CASE Fail(r)
    BY <1>3, <2>1, <2>2, EndingKeepsOrigin DEF Fail
  <2>3. CASE /\ temporary' = [temporary EXCEPT ![r] = IF @ = Absent THEN Absent ELSE Computed(r)]
             /\ Keep(r, "replace")
    <3>1. pc' = [pc EXCEPT ![r] = "replace"] /\ local' = local
      BY <2>3 DEF Keep, GoTo
    <3>2. Holds(pc'[r], local'[r])
      BY <1>1, <1>2, <1>5, <3>1 DEF FillTemporary, Holds, Publishing
    <3>3. Genuine(local[r].position, Computed(r))
      BY <1>5, ComputedIsGenuine DEF FillTemporary, Publishing
    <3>4. Genuine(local'[r].position, temporary'[r])
      BY <1>1, <2>3, <3>1, <3>3 DEF Genuine
    <3>5. \A x \in Runs \ {r} : pc'[x] = pc[x] /\ local'[x] = local[x]
      BY <1>1, <3>1
    <3> QED  BY <1>2, <2>1, <3>2, <3>4, <3>5, RunKeepsOrigin
  <2> QED  BY <1>5, <2>2, <2>3 DEF FillTemporary
<1>6. CASE ReplaceTarget(r)
  <2>1. /\ history' = history /\ temporary' = [temporary EXCEPT ![r] = Absent]
        /\ \A x \in Runs \ {r} : temporary'[x] = temporary[x]
    BY <1>6, <1>1 DEF ReplaceTarget
  <2>2. CASE Fail(r) /\ UNCHANGED worktree
    BY <1>3, <2>1, <2>2, EndingKeepsOrigin DEF Fail
  <2>3. CASE /\ worktree' = [worktree EXCEPT !.evidence[local[r].position] = temporary[r]]
             /\ Advance(r, "make", "unexpected")
    <3>1. \A p \in Paths : Genuine(p, worktree'.evidence[p])
      <4>1. Genuine(local[r].position, temporary[r])
        BY <1>6 DEF ReplaceTarget, OInv
      <4>2. \A p \in Paths : worktree'.evidence[p] =
                IF p = local[r].position THEN temporary[r] ELSE worktree.evidence[p]
        BY <1>1, <2>3 DEF Tree
      <4> QED  BY <1>2, <4>1, <4>2
    <3>2. PICK stage \in {"make", "unexpected"} :
             /\ pc' = [pc EXCEPT ![r] = stage]
             /\ \/ local' = local
                \/ local' = [local EXCEPT ![r] = [local[r] EXCEPT !.position = @ + 1]]
      BY <2>3 DEF Advance, Keep, GoTo
    <3>3. local[r] \in Process
      BY <1>1
    <3>4. local'[r].captured = local[r].captured /\ local'[r].subject = local[r].subject
      BY <1>1, <3>2, <3>3 DEF Process
    <3>5. Holds("replace", local[r])
      BY <1>2, <1>6 DEF ReplaceTarget
    <3>6. pc'[r] = stage /\ stage # "replace" /\ Holds(stage, local'[r])
      BY <1>1, <3>2, <3>4, <3>5 DEF Holds, Publishing
    <3>7. \A x \in Runs \ {r} : pc'[x] = pc[x] /\ local'[x] = local[x]
      BY <1>1, <3>2
    <3> QED  BY <2>1, <3>1, <3>6, <3>7, RunKeepsOrigin
  <2> QED  BY <1>6, <2>2, <2>3 DEF ReplaceTarget
<1>7. CASE RefuseUnexpected(r)
  BY <1>7, <1>3, EndingKeepsOrigin DEF RefuseUnexpected, Pass, Fail, shared
<1> QED  BY <1>4, <1>5, <1>6, <1>7 DEF WriteStep

LEMMA CheckKeepsOrigin ==
  ASSUME IInv, OInv, NEW r \in Runs, RequireMembership(r) \/ CompareFile(r)
  PROVE  OInv'
<1>1. UNCHANGED shared /\ local \in [Runs -> Process] /\ Holds(pc[r], local[r])
  BY DEF RequireMembership, Require, CompareFile, IInv, Processes, OInv
<1>2. CASE Fail(r) \/ Pass(r)
  BY <1>1, <1>2, EndingKeepsOrigin DEF Fail, Pass, shared, Ended
<1>3. CASE ~(Fail(r) \/ Pass(r))
  <2>1. /\ pc' = [pc EXCEPT ![r] = "compare"] /\ pc[r] \in {"list", "compare"}
        /\ \/ local' = local
           \/ \E differs : local' = [local EXCEPT ![r].position = @ + 1, ![r].mismatch = differs]
    BY <1>3 DEF RequireMembership, Require, CompareFile, Keep, GoTo
  <2>2. local[r] \in Process
    BY <1>1
  <2>3. local'[r].captured = local[r].captured /\ local'[r].subject = local[r].subject
    BY <1>1, <2>1, <2>2 DEF Process
  <2>4. Holds("compare", local'[r])
    BY <1>1, <2>1, <2>3 DEF Holds, Publishing, shared
  <2>5. local' = local \/ \E v : local' = [local EXCEPT ![r] = v]
    <3>1. CASE local' = local
      BY <3>1
    <3>2. CASE local' # local
      <4>1. PICK differs :
               local' = [local EXCEPT ![r].position = @ + 1, ![r].mismatch = differs]
        BY <2>1, <3>2
      <4>2. local' = [local EXCEPT ![r] = [local[r] EXCEPT !.position = @ + 1,
                                                           !.mismatch = differs]]
        BY <1>1, <4>1
      <4> QED  BY <4>2
    <3> QED  BY <3>1, <3>2
  <2> QED  BY <1>1, <2>1, <2>4, <2>5, ReadingKeepsOrigin DEF shared
<1> QED  BY <1>2, <1>3

(* A commit that is there stays, so that what named it is still right.     *)
LEMMA GenuineStays ==
  ASSUME IInv, history' = history \/ history' = Append(history, worktree)
  PROVE  /\ \A i \in DOMAIN history : i \in DOMAIN history' /\ history'[i] = history[i]
         /\ \A p, file : Genuine(p, file) => Genuine(p, file)'
<1>1. \A i \in DOMAIN history : i \in DOMAIN history' /\ history'[i] = history[i]
  <2>1. CASE history' = history
    BY <2>1
  <2>2. CASE history' = Append(history, worktree)
    BY <2>2, AppendProperties, LenProperties DEF IInv, Stored
  <2> QED  BY <2>1, <2>2
<1> QED  BY <1>1 DEF Genuine

LEMMA MaintainerKeepsOrigin ==
  ASSUME IInv, OInv, Maintainer
  PROVE  OInv'
<1>1. /\ history' = history \/ history' = Append(history, worktree)
      /\ UNCHANGED <<pc, local>>
      /\ \A r \in Runs : temporary'[r] \in {temporary[r], Absent}
  BY DEF Maintainer, Edit, Commit, Restore, Maintain, IInv, Temporaries
<1>2. /\ \A i \in DOMAIN history : i \in DOMAIN history' /\ history'[i] = history[i]
      /\ \A p, file : Genuine(p, file) => Genuine(p, file)'
  BY <1>1, GenuineStays
<1>3. \A r \in Runs : Holds(pc[r], local[r])'
  <2> SUFFICES ASSUME NEW r \in Runs, pc[r] \in Publishing
               PROVE  /\ local[r].captured \in Sound
                      /\ local[r].captured = history'[local[r].subject].sources
    BY <1>1 DEF Holds
  <2>1. local[r].subject \in DOMAIN history
    BY Knows DEF Fits, Publishing, Active
  <2> QED  BY <1>2, <2>1 DEF OInv, Holds
<1>4. \A r \in Runs : pc'[r] = "replace" => Genuine(local[r].position, temporary[r])'
  <2> SUFFICES ASSUME NEW r \in Runs, pc[r] = "replace"
               PROVE  Genuine(local[r].position, temporary[r])'
    BY <1>1
  <2>1. CASE temporary'[r] = Absent
    BY <2>1 DEF Genuine
  <2>2. CASE temporary'[r] = temporary[r]
    <3>1. Genuine(local[r].position, temporary[r])
      BY DEF OInv
    <3>2. PICK p, file : p = local[r].position /\ file = temporary[r]
      OBVIOUS
    <3>3. Genuine(p, file)'
      BY <1>2, <3>1, <3>2
    <3> QED  BY <1>1, <2>2, <3>2, <3>3 DEF Genuine
  <2> QED  BY <1>1, <2>1, <2>2
<1>5. \A p \in Paths : Genuine(p, worktree.evidence[p])
  BY DEF OInv, EvidenceIsOfItsSubject
<1>6. \A i \in DOMAIN history, p \in Paths : Genuine(p, history[i].evidence[p])
  BY DEF OInv, EvidenceIsOfItsSubject
<1>7. worktree \in Tree /\ history \in Seq(Tree) /\ Len(history) \in DOMAIN history
  BY LenProperties DEF IInv, Stored
<1>8. \A i \in DOMAIN history', p \in Paths :
          \/ history'[i].evidence[p] = worktree.evidence[p]
          \/ i \in DOMAIN history /\ history'[i].evidence[p] = history[i].evidence[p]
  <2>1. CASE history' = history
    BY <2>1
  <2>2. CASE history' = Append(history, worktree)
    <3>1. /\ DOMAIN history' = 1..(Len(history) + 1) /\ DOMAIN history = 1..Len(history)
          /\ history'[Len(history) + 1] = worktree
      BY <1>7, <2>2, AppendProperties, LenProperties
    <3>2. \A i \in 1..(Len(history) + 1) : i \in 1..Len(history) \/ i = Len(history) + 1
      BY <1>7
    <3>3. \A i \in DOMAIN history' : i \in DOMAIN history \/ history'[i] = worktree
      BY <3>1, <3>2
    <3> QED  BY <1>2, <3>3
  <2> QED  BY <1>1, <2>1, <2>2
<1>9. \A p \in Paths :
          \/ worktree'.evidence[p] \in {worktree.evidence[p], Absent, Foreign}
          \/ worktree'.evidence[p] = history[Len(history)].evidence[p]
  <2>1. CASE Edit
    <3>1. CASE \E v \in Contents : \/ worktree' = [worktree EXCEPT !.sources = v]
                                   \/ worktree' = [worktree EXCEPT !.pipeline = v]
      BY <1>7, <3>1 DEF Tree
    <3>2. CASE \E p \in Paths, v \in {Absent, Foreign} :
                  worktree' = [worktree EXCEPT !.evidence[p] = v]
      BY <1>7, <3>2 DEF Tree
    <3>3. CASE worktree' = [worktree EXCEPT !.stray = ~@]
      BY <1>7, <3>3 DEF Tree
    <3> QED  BY <2>1, <3>1, <3>2, <3>3 DEF Edit
  <2>2. CASE Commit \/ Restore
    BY <2>2 DEF Commit, Restore, Tip
  <2> QED  BY <2>1, <2>2 DEF Maintainer
<1>10. EvidenceIsOfItsSubject'
  <2>1. \A p \in Paths : Genuine(p, worktree'.evidence[p])
    BY <1>5, <1>6, <1>7, <1>9 DEF Genuine
  <2>2. \A i \in DOMAIN history', p \in Paths : Genuine(p, history'[i].evidence[p])
    BY <1>5, <1>6, <1>8
  <2>3. \A p \in Paths : Genuine(p, worktree.evidence[p])'
    <3> SUFFICES ASSUME NEW p \in Paths PROVE Genuine(p, worktree.evidence[p])'
      OBVIOUS
    <3>1. PICK file : file = worktree'.evidence[p]
      OBVIOUS
    <3>2. Genuine(p, file)'
      BY <1>2, <2>1, <3>1
    <3> QED  BY <3>1, <3>2 DEF Genuine
  <2>4. \A i \in DOMAIN history', p \in Paths : Genuine(p, history[i].evidence[p])'
    <3> SUFFICES ASSUME NEW i \in DOMAIN history', NEW p \in Paths
                 PROVE  Genuine(p, history[i].evidence[p])'
      OBVIOUS
    <3>1. PICK file : file = history'[i].evidence[p]
      OBVIOUS
    <3>2. Genuine(p, file)'
      BY <1>2, <2>2, <3>1
    <3> QED  BY <3>1, <3>2 DEF Genuine
  <2> QED  BY <2>3, <2>4 DEF EvidenceIsOfItsSubject
<1> QED  BY <1>3, <1>4, <1>10, <1>1 DEF OInv

LEMMA InitiallyGenuine == Init => OInv
<1> SUFFICES ASSUME Init PROVE OInv
  OBVIOUS
<1> DEFINE first == [sources |-> 0, pipeline |-> 0, evidence |-> [p \in Paths |-> Absent],
                    stray |-> FALSE]
           payload(p) == [content |-> 0, subject |-> IF p \in Raw THEN 0 ELSE 1, code |-> 0,
                          pipeline |-> IF p = Manifest THEN 1 ELSE 0]
           second == [first EXCEPT !.evidence = [p \in Paths |-> payload(p)]]
<1>1. history = <<first, second>> /\ worktree = second
  BY DEF Init
<1>2. \A p \in Paths : Genuine(p, first.evidence[p])
  BY DEF Genuine
<1>3. \A p \in Paths : Genuine(p, second.evidence[p])
  <2>1. 1 \in DOMAIN history /\ history[1].sources = 0
    BY <1>1
  <2>2. \A p \in Paths : Genuine(p, payload(p))
    BY <2>1, ValuesAssumption DEF Genuine
  <2> QED  BY <2>2
<1>4. EvidenceIsOfItsSubject
  <2>1. DOMAIN history = {1, 2}
    BY <1>1
  <2> HIDE DEF first, second
  <2> QED  BY <1>1, <1>2, <1>3, <2>1 DEF EvidenceIsOfItsSubject
<1> QED  BY <1>4 DEF Init, OInv, Holds, Publishing

LEMMA OriginInductive == IInv /\ OInv /\ [Next]_vars => OInv'
<1> SUFFICES ASSUME IInv, OInv, [Next]_vars PROVE OInv'
  OBVIOUS
<1>1. CASE Maintainer
  BY <1>1, MaintainerKeepsOrigin
<1>2. ASSUME NEW r \in Runs, Start(r) \/ Step(r) PROVE OInv'
  BY <1>2, PreparationKeepsOrigin, CaptureKeepsOrigin, WriteKeepsOrigin, CheckKeepsOrigin
     DEF Step
<1>3. ASSUME NEW r \in Runs, Crash(r) PROVE OInv'
  BY <1>3, EndingKeepsOrigin DEF Crash, Ended, shared
<1>4. CASE UNCHANGED vars
  BY <1>4 DEF vars, shared, OInv, EvidenceIsOfItsSubject, Genuine, Holds
<1> QED  BY <1>1, <1>2, <1>3, <1>4 DEF Next

(* Nothing is published that was not observed, and nothing is said of a    *)
(* commit that another program did: whatever the builder put in the wheel, *)
(* wherever the interpreter looked, and whoever wrote, crashed, edited or  *)
(* committed in between, every file of the bundle shows a program that     *)
(* keeps the contract, and one that names a subject shows that subject's.  *)
THEOREM EvidenceOrigin == Spec => []EvidenceIsOfItsSubject
<1>1. OInv => EvidenceIsOfItsSubject
  BY DEF OInv
<1> QED  BY <1>1, InitiallyGenuine, OriginInductive, Invariance, PTL DEF Spec

-----------------------------------------------------------------------------
(* What a PASS is worth.  A run that is alone since it started (Alone) has *)
(* seen the worktree and the history as they still are.                    *)

(* What process p, whose temporary file is f, knows at a stage.            *)
Shown(p, x) == PayloadOf(x, p.captured, p.subject, p.named, p.code)

SeenSources(stage, p) ==
    /\ stage \in Active => p.code = worktree.pipeline
    /\ stage \in Active \ {"clean", "manifest", "subject", "sources"}
          => worktree.sources = history[p.subject].sources
    /\ stage \in {"pipeline", "build"} \cup Publishing => p.named = PipelineRevision
    /\ stage \in {"build"} \cup Publishing => worktree.pipeline = history[p.named].pipeline

SeenFiles(stage, p) ==
    /\ stage \in Active \ Publishing => p.position = 1 /\ p.mismatch = FALSE
    /\ stage = "list" => p.position = 1 /\ p.mismatch = FALSE
    /\ stage \in {"make", "fill", "replace"}
          => \A x \in Paths : x < p.position => worktree.evidence[x] = Shown(p, x)
    /\ stage = "unexpected" => \A x \in Paths : worktree.evidence[x] = Shown(p, x)
    /\ stage = "compare" =>
          /\ NothingElse
          /\ ~p.mismatch => \A x \in Paths : x < p.position => worktree.evidence[x] = Shown(p, x)
    /\ p.mode = "write" /\ stage \in Active \ {"clean", "unexpected"} =>
          \A x \in Paths : x >= p.position => worktree.evidence[x] = Tip.evidence[x]

Seen(stage, p, f) ==
    /\ SeenSources(stage, p) /\ SeenFiles(stage, p)
    /\ stage = "replace" => f \in {Absent, Shown(p, p.position)}

VInv ==
    /\ PassedMeansVerifiable
    /\ \A r \in Runs : alone[r] => Seen(pc[r], local[r], temporary[r])

(* The last commit that changed the pipeline is the only one of its kind,  *)
(* and a commit that does not change the pipeline leaves it so.            *)
IsPipelineRevision(i, h) ==
    /\ i \in 1..Len(h)
    /\ i = 1 \/ h[i].pipeline # h[i - 1].pipeline
    /\ \A j \in (i + 1)..Len(h) : h[j].pipeline = h[i].pipeline

LEMMA OneRevision ==
  ASSUME NEW h, Len(h) \in Nat, NEW i, NEW k, IsPipelineRevision(i, h), IsPipelineRevision(k, h)
  PROVE  i = k
<1>1. ASSUME NEW a, NEW b, IsPipelineRevision(a, h), IsPipelineRevision(b, h), a < b PROVE FALSE
  <2>1. a \in Nat /\ b \in Nat /\ a >= 1 /\ b <= Len(h)
    BY <1>1 DEF IsPipelineRevision
  <2>2. b # 1 /\ b \in (a + 1)..Len(h) /\ (b - 1 = a \/ b - 1 \in (a + 1)..Len(h))
    BY <1>1, <2>1
  <2>3. h[b].pipeline = h[a].pipeline /\ h[b - 1].pipeline = h[a].pipeline
    BY <1>1, <2>2 DEF IsPipelineRevision
  <2> QED  BY <1>1, <2>2, <2>3 DEF IsPipelineRevision
<1>2. i \in Nat /\ k \in Nat
  BY DEF IsPipelineRevision
<1>3. i < k \/ k < i \/ i = k
  BY <1>2
<1> QED  BY <1>1, <1>3

LEMMA RevisionIsRevision ==
  ASSUME Stored
  PROVE  IsPipelineRevision(PipelineRevision, history)
  BY PipelineRevisionExists, LenProperties DEF IsPipelineRevision, Stored

LEMMA NextRevisionIsRevision == Stored' => IsPipelineRevision(PipelineRevision, history)'
<1>1. Stored => IsPipelineRevision(PipelineRevision, history)
  BY RevisionIsRevision
<1> QED  BY <1>1, PTL

LEMMA RevisionStays ==
  ASSUME Stored, NEW h, h = Append(history, worktree),
         worktree.pipeline = history[PipelineRevision].pipeline
  PROVE  IsPipelineRevision(PipelineRevision, h)
<1> DEFINE n == Len(history)
           q == PipelineRevision
<1>1. n \in Nat /\ history \in Seq(Tree) /\ worktree \in Tree
  BY LenProperties DEF Stored
<1>2. Len(h) = n + 1 /\ h[n + 1] = worktree /\ \A i \in 1..n : h[i] = history[i]
  BY <1>1, AppendProperties
<1>3. IsPipelineRevision(q, history)
  BY RevisionIsRevision
<1>4. q \in 1..n /\ q \in 1..(n + 1) /\ (q = 1 \/ q - 1 \in 1..n)
  BY <1>1, <1>3 DEF IsPipelineRevision
<1> HIDE DEF n, q
<1>5. \A j \in (q + 1)..(n + 1) : j # n + 1 => j \in (q + 1)..n /\ j \in 1..n
  <2>1. n \in Nat /\ q \in Nat /\ q >= 1
    BY <1>1, <1>4
  <2> QED  BY <2>1
<1>6. q = 1 \/ h[q].pipeline # h[q - 1].pipeline
  BY <1>2, <1>3, <1>4 DEF IsPipelineRevision
<1>7. \A j \in (q + 1)..(n + 1) : h[j].pipeline = h[q].pipeline
  BY <1>2, <1>3, <1>4, <1>5 DEF IsPipelineRevision, n, q
<1> QED  BY <1>2, <1>4, <1>6, <1>7 DEF IsPipelineRevision, n, q

-----------------------------------------------------------------------------
LEMMA NothingSeen ==
  ASSUME NEW stage \in Ended \cup {"idle"}, NEW p, NEW f
  PROVE  Seen(stage, p, f)
  BY DEF Ended, Active, Publishing, Seen, SeenSources, SeenFiles

(* What a check would find depends on nothing but the worktree, the        *)
(* history and whether a temporary file is left.                           *)
LEMMA CheckStays ==
  ASSUME CheckWouldPass, worktree' = worktree, history' = history, NothingElse'
  PROVE  CheckWouldPass'
<1>1. PipelineRevision' = PipelineRevision
  BY DEF PipelineRevision
<1> QED  BY <1>1 DEF CheckWouldPass

(* Run r reads, and goes on with other variables.                          *)
LEMMA ReadingKeepsVerdict ==
  ASSUME IInv, VInv, NEW r \in Runs, UNCHANGED shared, UNCHANGED verified,
         NEW stage, NEW v, pc' = [pc EXCEPT ![r] = stage], local' = [local EXCEPT ![r] = v],
         alone' = [x \in Runs |-> x = r /\ alone[x]],
         alone[r] => Seen(stage, v, temporary[r])
  PROVE  VInv'
<1>1. pc \in [Runs -> Stages] /\ local \in [Runs -> Process]
  BY DEF IInv, Processes
<1>2. PassedMeansVerifiable'
  BY CheckStays DEF VInv, PassedMeansVerifiable, shared, NothingElse, NoLeftovers,
         CheckWouldPass
<1>3. \A p, s, f : Seen(s, p, f) => Seen(s, p, f)'
  BY DEF shared, Seen, SeenSources, SeenFiles, Shown, PayloadOf, PipelineRevision,
         NothingElse, NoLeftovers, Tip
<1>4. ASSUME NEW x \in Runs, alone'[x] PROVE Seen(pc[x], local[x], temporary[x])'
  <2>1. x = r /\ alone[r]
    BY <1>4
  <2>2. PICK f : f = temporary[r]
    OBVIOUS
  <2>3. Seen(stage, v, f)'
    BY <1>3, <2>1, <2>2
  <2>4. pc'[r] = stage /\ local'[r] = v /\ temporary'[r] = f
    BY <1>1, <2>2 DEF shared
  <2> QED  BY <2>1, <2>3, <2>4 DEF Seen, SeenSources, SeenFiles, Shown
<1> QED  BY <1>2, <1>4 DEF VInv

(* Run r ends without a PASS, and removes its temporary file or leaves it. *)
LEMMA EndingKeepsVerdict ==
  ASSUME IInv, VInv, NEW r \in Runs, NEW verdict \in Ended, Exit(r, verdict),
         UNCHANGED <<history, worktree, verified>>,
         \A x \in Runs : temporary'[x] \in {temporary[x], Absent}
  PROVE  VInv'
<1>1. pc \in [Runs -> Stages] /\ local \in [Runs -> Process]
  BY DEF IInv, Processes
<1>2. PassedMeansVerifiable'
  <2>1. NothingElse => NothingElse'
    BY DEF NothingElse, NoLeftovers
  <2> QED  BY <2>1, CheckStays DEF VInv, PassedMeansVerifiable, CheckWouldPass
<1>3. ASSUME NEW x \in Runs, alone'[x] PROVE Seen(pc[x], local[x], temporary[x])'
  <2>1. pc'[x] = verdict
    BY <1>1, <1>3 DEF Exit, GoTo
  <2> QED  BY <2>1 DEF Ended, Active, Publishing, Seen, SeenSources, SeenFiles
<1> QED  BY <1>2, <1>3 DEF VInv

(* A run that is alone and has seen the whole bundle on disk.              *)
LEMMA SeenMeansVerifiable ==
  ASSUME IInv, OInv, NEW r \in Runs, pc[r] \in Publishing, SeenSources(pc[r], local[r]),
         NothingElse, \A x \in Paths : worktree.evidence[x] = Shown(local[r], x)
  PROVE  CheckWouldPass
<1> DEFINE v == local[r]
<1>1. v \in Process /\ Fits(pc[r], v) /\ Holds(pc[r], v) /\ worktree \in Tree
  BY Knows DEF OInv, IInv, Stored
<1>2. /\ v.code = worktree.pipeline /\ v.subject \in DOMAIN history
      /\ worktree.sources = history[v.subject].sources /\ v.captured = history[v.subject].sources
      /\ v.named = PipelineRevision /\ worktree.pipeline = history[v.named].pipeline
  BY <1>1 DEF SeenSources, Publishing, Active, Fits, Holds
<1>3. worktree.evidence[Manifest].subject = v.subject
  <2>1. Manifest \in Paths /\ Manifest \notin Raw
    BY PathsAssumption
  <2>2. Shown(v, Manifest).subject = v.subject
    BY <2>1 DEF Shown, PayloadOf
  <2> QED  BY <2>1, <2>2
<1>4. worktree.evidence[Manifest] \notin {Absent, Foreign, Torn}
  <2>1. Shown(v, Manifest) \in Payload
    BY <1>1, ValuesAssumption DEF Shown, PayloadOf, Payload, Process
  <2> QED  BY <2>1, PathsAssumption, ValuesAssumption
<1>5. worktree.evidence = BundleOf(v.captured, v.subject, v.named, v.code)
  BY <1>1 DEF BundleOf, Shown, Tree
<1> QED  BY <1>2, <1>3, <1>4, <1>5 DEF CheckWouldPass

(* Run r prints PASS.                                                      *)
LEMMA PassingKeepsVerdict ==
  ASSUME IInv, VInv, NEW r \in Runs, Pass(r), UNCHANGED shared, alone[r] => CheckWouldPass
  PROVE  VInv'
<1>1. pc \in [Runs -> Stages] /\ local \in [Runs -> Process]
  BY DEF IInv, Processes
<1>2. PassedMeansVerifiable'
  <2>1. verified' => CheckWouldPass
    BY DEF Pass, VInv, PassedMeansVerifiable
  <2> QED  BY <2>1, CheckStays DEF PassedMeansVerifiable, shared, NothingElse, NoLeftovers,
         CheckWouldPass
<1>3. ASSUME NEW x \in Runs, alone'[x] PROVE Seen(pc[x], local[x], temporary[x])'
  <2>1. pc'[x] = "passed"
    BY <1>1, <1>3 DEF Pass, Exit, GoTo
  <2> QED  BY <2>1 DEF Active, Publishing, Seen, SeenSources, SeenFiles
<1> QED  BY <1>2, <1>3 DEF VInv

(* The steps up to the finished bundle: each adds to what was seen.        *)
LEMMA PreparationKeepsVerdict ==
  ASSUME IInv, VInv, NEW r \in Runs,
         \/ Start(r) \/ RequireCleanWorktree(r) \/ ManifestSubject(r) \/ RequireSubject(r)
         \/ VerifyCurrentSubject(r) \/ FindPipelineRevision(r) \/ PipelineRecords(r)
         \/ CaptureSubject(r)
  PROVE  VInv'
<1>1. UNCHANGED shared
  BY DEF Start, RequireCleanWorktree, ManifestSubject, RequireSubject, VerifyCurrentSubject,
         FindPipelineRevision, PipelineRecords, Require, CaptureSubject
<1>2. local[r] \in Process /\ Fits(pc[r], local[r]) /\ pc \in [Runs -> Stages]
      /\ local \in [Runs -> Process]
  BY Knows DEF IInv, Processes
<1>3. alone[r] => SeenSources(pc[r], local[r]) /\ SeenFiles(pc[r], local[r])
  BY DEF VInv, Seen
<1>4. CASE Start(r)
  <2>1. PICK mode \in {"write", "check"} :
           /\ pc' = [pc EXCEPT ![r] = IF mode = "write" THEN "clean" ELSE "manifest"]
           /\ local' = [local EXCEPT ![r] = [NoProcess EXCEPT !.mode = mode,
                                                             !.code = worktree.pipeline]]
    BY <1>4 DEF Start
  <2>2. alone' = [x \in Runs |-> x = r] /\ verified' = verified
    BY <1>4 DEF Start
  <2>3. PICK v : v = [NoProcess EXCEPT !.mode = mode, !.code = worktree.pipeline]
    OBVIOUS
  <2>4. PICK stage : stage = IF mode = "write" THEN "clean" ELSE "manifest"
    OBVIOUS
  <2>5. v.mode = mode /\ v.code = worktree.pipeline /\ v.position = 1 /\ v.mismatch = FALSE
    BY <2>3 DEF NoProcess
  <2>6. pc'[r] = stage /\ local'[r] = v
    BY <1>2, <2>1, <2>3, <2>4
  <2>7. Seen(stage, v, temporary[r])
    BY <2>4, <2>5 DEF Seen, SeenSources, SeenFiles, Active, Publishing
  <2>8. Seen(pc[r], local[r], temporary[r])'
    BY <1>1, <2>6, <2>7 DEF shared, Seen, SeenSources, SeenFiles, Shown, PayloadOf,
                            PipelineRevision, NothingElse, NoLeftovers, Tip
  <2>9. PassedMeansVerifiable'
    BY <1>1, <2>2, CheckStays DEF VInv, PassedMeansVerifiable, shared, NothingElse, NoLeftovers,
         CheckWouldPass
  <2> QED  BY <2>2, <2>8, <2>9 DEF VInv
<1>5. CASE Fail(r)
  BY <1>1, <1>5, EndingKeepsVerdict DEF Fail, shared, Ended
<1>6. CASE ~Start(r) /\ ~Fail(r)
  <2>1. PICK stage, v :
           /\ pc' = [pc EXCEPT ![r] = stage] /\ local' = [local EXCEPT ![r] = v]
           /\ alone' = [x \in Runs |-> x = r /\ alone[x]] /\ verified' = verified
           /\ alone[r] => Seen(stage, v, temporary[r])
    <3>1. PICK p : p = local[r]
      OBVIOUS
    <3>2. local' = local => local' = [local EXCEPT ![r] = p]
      BY <1>2, <3>1
    <3>3. p \in Process
      BY <1>2, <3>1
    <3>4. CASE RequireCleanWorktree(r)
      <4>1. PICK s : local' = [local EXCEPT ![r].subject = s]
        BY <1>6, <3>4 DEF RequireCleanWorktree, TakeSubject
      <4>2. PICK v : v = [p EXCEPT !.subject = s]
        OBVIOUS
      <4>3. local' = [local EXCEPT ![r] = v]
        BY <3>1, <4>1, <4>2
      <4>4. /\ v.mode = p.mode /\ v.code = p.code /\ v.position = p.position
            /\ v.mismatch = p.mismatch
        BY <3>3, <4>2 DEF Process
      <4>5. worktree.evidence = Tip.evidence /\ pc[r] = "clean"
        BY <1>6, <3>4 DEF RequireCleanWorktree, IsClean
      <4>6. alone[r] => Seen("subject", v, temporary[r])
        BY <1>3, <3>1, <4>4, <4>5 DEF Seen, SeenSources, SeenFiles, Active, Publishing
      <4> QED  BY <1>6, <3>4, <4>3, <4>6 DEF RequireCleanWorktree, TakeSubject, GoTo
    <3>5. CASE ManifestSubject(r)
      <4>1. PICK s : local' = [local EXCEPT ![r].subject = s]
        BY <1>6, <3>5 DEF ManifestSubject
      <4>2. PICK v : v = [p EXCEPT !.subject = s]
        OBVIOUS
      <4>3. local' = [local EXCEPT ![r] = v]
        BY <3>1, <4>1, <4>2
      <4>4. /\ v.mode = p.mode /\ v.code = p.code /\ v.position = p.position
            /\ v.mismatch = p.mismatch
        BY <3>3, <4>2 DEF Process
      <4>5. pc[r] = "manifest" /\ p.mode = "check"
        BY <1>2, <3>1, <3>5 DEF ManifestSubject, Fits
      <4>6. alone[r] => Seen("subject", v, temporary[r])
        BY <1>3, <3>1, <4>4, <4>5 DEF Seen, SeenSources, SeenFiles, Active, Publishing
      <4> QED  BY <1>6, <3>5, <4>3, <4>6 DEF ManifestSubject, GoTo
    <3>6. CASE RequireSubject(r)
      <4>1. alone[r] => Seen("sources", p, temporary[r])
        BY <1>3, <3>1, <3>6 DEF RequireSubject, Require, Seen, SeenSources, SeenFiles, Active,
                                Publishing
      <4> QED  BY <1>6, <3>2, <3>6, <4>1 DEF RequireSubject, Require, Keep, GoTo
    <3>7. CASE VerifyCurrentSubject(r)
      <4>1. worktree.sources = history[p.subject].sources
        BY <1>6, <3>1, <3>7 DEF VerifyCurrentSubject, Require
      <4>2. alone[r] => Seen("revision", p, temporary[r])
        BY <1>3, <3>1, <3>7, <4>1 DEF VerifyCurrentSubject, Require, Seen, SeenSources, SeenFiles,
                                      Active, Publishing
      <4> QED  BY <1>6, <3>2, <3>7, <4>2 DEF VerifyCurrentSubject, Require, Keep, GoTo
    <3>8. CASE FindPipelineRevision(r)
      <4>1. PICK v : v = [p EXCEPT !.named = PipelineRevision]
        OBVIOUS
      <4>2. local' = [local EXCEPT ![r] = v]
        BY <3>1, <3>8, <4>1 DEF FindPipelineRevision
      <4>3. /\ v.mode = p.mode /\ v.code = p.code /\ v.position = p.position
            /\ v.mismatch = p.mismatch /\ v.subject = p.subject /\ v.named = PipelineRevision
        BY <3>3, <4>1 DEF Process
      <4>4. alone[r] => Seen("pipeline", v, temporary[r])
        BY <1>3, <3>1, <3>8, <4>3 DEF FindPipelineRevision, Seen, SeenSources, SeenFiles, Active,
                                      Publishing
      <4> QED  BY <3>8, <4>2, <4>4 DEF FindPipelineRevision, GoTo
    <3>9. CASE PipelineRecords(r)
      <4>1. worktree.pipeline = history[p.named].pipeline
        BY <1>6, <3>1, <3>9 DEF PipelineRecords, Require
      <4>2. alone[r] => Seen("build", p, temporary[r])
        BY <1>3, <3>1, <3>9, <4>1 DEF PipelineRecords, Require, Seen, SeenSources, SeenFiles,
                                      Active, Publishing
      <4> QED  BY <1>6, <3>2, <3>9, <4>2 DEF PipelineRecords, Require, Keep, GoTo
    <3>10. CASE CaptureSubject(r)
      <4>1. PICK program : local' = [local EXCEPT ![r].captured = program]
        BY <1>6, <3>10 DEF CaptureSubject
      <4>2. PICK v : v = [p EXCEPT !.captured = program]
        OBVIOUS
      <4>3. local' = [local EXCEPT ![r] = v]
        BY <3>1, <4>1, <4>2
      <4>4. /\ v.mode = p.mode /\ v.code = p.code /\ v.position = p.position
            /\ v.mismatch = p.mismatch /\ v.subject = p.subject /\ v.named = p.named
        BY <3>3, <4>2 DEF Process
      <4>5. PICK stage : stage = IF p.mode = "write" THEN "make" ELSE "list"
        OBVIOUS
      <4>6. \A x \in Paths : ~(x < 1)
        BY DEF Paths
      <4>7. p.mode \in {"write", "check"} /\ pc[r] = "build"
        BY <3>3, <3>10 DEF Process, CaptureSubject
      <4>8. alone[r] => SeenSources(stage, v)
        BY <1>3, <3>1, <4>4, <4>5, <4>7 DEF SeenSources, Active, Publishing
      <4>9. alone[r] => SeenFiles(stage, v)
        BY <1>3, <3>1, <4>4, <4>5, <4>6, <4>7 DEF SeenFiles, Active, Publishing
      <4>10. alone[r] => Seen(stage, v, temporary[r])
        BY <4>5, <4>8, <4>9 DEF Seen
      <4> QED  BY <1>6, <3>1, <3>10, <4>3, <4>5, <4>10 DEF CaptureSubject, GoTo
    <3> QED  BY <1>6, <3>4, <3>5, <3>6, <3>7, <3>8, <3>9, <3>10
  <2> QED  BY <1>1, <2>1, ReadingKeepsVerdict
<1> QED  BY <1>4, <1>5, <1>6

(* A write step that fails has changed nothing that is published.          *)
LEMMA FailingLeavesTheFile ==
  ASSUME IInv, NEW r \in Runs, WriteStep(r), Fail(r)
  PROVE  worktree' = worktree /\ \A x \in Runs : temporary'[x] \in {temporary[x], Absent}
<1>1. pc \in [Runs -> Stages] /\ temporary \in [Runs -> Temporary] /\ pc'[r] = "failed"
  BY DEF IInv, Processes, Temporaries, Fail, Exit, GoTo
<1>2. ASSUME NEW stage \in {"fill", "replace", "make", "unexpected"} PROVE ~GoTo(r, stage)
  BY <1>1 DEF GoTo
<1>3. CASE MakeTemporary(r)
  BY <1>1, <1>2, <1>3 DEF MakeTemporary, Keep
<1>4. CASE FillTemporary(r)
  BY <1>1, <1>2, <1>4 DEF FillTemporary, Keep
<1>5. CASE ReplaceTarget(r)
  BY <1>1, <1>2, <1>5 DEF ReplaceTarget, Advance, Keep
<1>6. CASE RefuseUnexpected(r)
  BY <1>1, <1>6 DEF RefuseUnexpected, shared
<1> QED  BY <1>3, <1>4, <1>5, <1>6 DEF WriteStep

(* The steps that write: the files before the position are the run's own,  *)
(* those from it on are as they were committed.                            *)
LEMMA WriteKeepsVerdict ==
  ASSUME IInv, OInv, VInv, NEW r \in Runs, WriteStep(r)
  PROVE  VInv'
<1>1. /\ local[r] \in Process /\ Fits(pc[r], local[r]) /\ worktree \in Tree
      /\ pc \in [Runs -> Stages] /\ local \in [Runs -> Process]
      /\ temporary \in [Runs -> Temporary]
  BY Knows DEF IInv, Processes, Temporaries, Stored
<1>2. alone[r] => Seen(pc[r], local[r], temporary[r])
  BY DEF VInv
<1>3. \A p, x : Shown(p, x)' = Shown(p, x)
  BY DEF Shown, PayloadOf
<1>4. history' = history /\ PipelineRevision' = PipelineRevision /\ Tip' = Tip
  BY DEF WriteStep, MakeTemporary, FillTemporary, ReplaceTarget, RefuseUnexpected, shared,
         PipelineRevision, Tip
<1>5. CASE Fail(r)
  <2>1. \A x \in Runs : temporary'[x] \in {temporary[x], Absent}
    BY <1>1, <1>5, FailingLeavesTheFile
  <2>2. worktree' = worktree
    BY <1>1, <1>5, FailingLeavesTheFile
  <2> QED  BY <1>4, <1>5, <2>1, <2>2, EndingKeepsVerdict DEF Fail, Ended
<1>6. CASE ~Fail(r) /\ MakeTemporary(r)
  <2>1. /\ pc'[r] = "fill" /\ local' = local /\ worktree' = worktree /\ verified' = FALSE
        /\ pc[r] = "make" /\ alone' = [x \in Runs |-> x = r /\ alone[x]]
    BY <1>1, <1>6 DEF MakeTemporary, Keep, GoTo
  <2>2. alone[r] => SeenSources("fill", local[r])' /\ SeenFiles("fill", local[r])'
    BY <1>2, <1>3, <1>4, <2>1 DEF Seen, SeenSources, SeenFiles, Active, Publishing
  <2>3. alone[r] => Seen(pc[r], local[r], temporary[r])'
    BY <2>1, <2>2 DEF Seen, SeenSources, SeenFiles
  <2> QED  BY <2>1, <2>3 DEF VInv, PassedMeansVerifiable
<1>7. CASE ~Fail(r) /\ FillTemporary(r)
  <2>1. /\ pc'[r] = "replace" /\ local' = local /\ worktree' = worktree /\ verified' = verified
        /\ pc[r] = "fill" /\ alone' = [x \in Runs |-> x = r /\ alone[x]]
        /\ temporary' = [temporary EXCEPT ![r] = IF @ = Absent THEN Absent ELSE Computed(r)]
    BY <1>1, <1>7 DEF FillTemporary, Keep, GoTo
  <2>2. alone[r] => SeenSources("replace", local[r])' /\ SeenFiles("replace", local[r])'
    BY <1>2, <1>3, <1>4, <2>1 DEF Seen, SeenSources, SeenFiles, Active, Publishing
  <2>3. temporary'[r] \in {Absent, Shown(local[r], local[r].position)}
    BY <1>1, <2>1 DEF Computed, Shown
  <2>4. PassedMeansVerifiable'
    <3>1. NothingElse => NothingElse'
      BY <1>1, <2>1 DEF NothingElse, NoLeftovers
    <3> QED  BY <1>4, <2>1, <3>1, CheckStays DEF VInv, PassedMeansVerifiable, CheckWouldPass
  <2>5. Shown(local[r], local[r].position)' = Shown(local[r], local[r].position)
    BY <2>1 DEF Shown, PayloadOf
  <2>6. alone[r] => Seen(pc[r], local[r], temporary[r])'
    BY <2>1, <2>2, <2>3, <2>5 DEF Seen, SeenSources, SeenFiles
  <2> QED  BY <2>1, <2>4, <2>6 DEF VInv
<1>8. CASE ~Fail(r) /\ ReplaceTarget(r)
  <2> DEFINE p == local[r]
  <2>1. /\ worktree' = [worktree EXCEPT !.evidence[p.position] = temporary[r]]
        /\ temporary[r] # Absent /\ verified' = FALSE /\ pc[r] = "replace"
        /\ Advance(r, "make", "unexpected")
    BY <1>8 DEF ReplaceTarget
  <2>2. alone' = [x \in Runs |-> x = r /\ alone[x]]
    BY <2>1 DEF Advance, GoTo, Keep
  <2>3. /\ p.position \in Paths /\ p.position \in Nat /\ Last \in Nat
        /\ \A x \in Paths : x \in Nat /\ x <= Last
    BY <1>1, PathsAssumption DEF Process, Paths
  <2>4. /\ worktree'.sources = worktree.sources /\ worktree'.pipeline = worktree.pipeline
        /\ \A x \in Paths : worktree'.evidence[x] =
               IF x = p.position THEN temporary[r] ELSE worktree.evidence[x]
    BY <1>1, <2>1 DEF Tree
  <2>5. ASSUME alone[r]
        PROVE  /\ SeenSources("make", p) /\ temporary[r] = Shown(p, p.position)
               /\ \A x \in Paths : x < p.position => worktree.evidence[x] = Shown(p, x)
               /\ \A x \in Paths : x >= p.position => worktree.evidence[x] = Tip.evidence[x]
    BY <1>1, <1>2, <2>1, <2>5 DEF Seen, SeenSources, SeenFiles, Active, Publishing, Fits
  <2>6. PICK stage, v :
           /\ pc'[r] = stage /\ local'[r] = v
           /\ v.code = p.code /\ v.subject = p.subject /\ v.named = p.named
           /\ v.captured = p.captured /\ v.mode = p.mode
           /\ \/ stage = "make" /\ v.position = p.position + 1
              \/ stage = "unexpected" /\ v.position = p.position /\ p.position = Last
    <3>1. CASE p.position < Last
      <4>1. pc'[r] = "make" /\ local' = [local EXCEPT ![r].position = @ + 1]
        BY <1>1, <2>1, <3>1 DEF Advance, GoTo
      <4>2. PICK v : v = [p EXCEPT !.position = @ + 1]
        OBVIOUS
      <4>3. local'[r] = v
        BY <1>1, <4>1, <4>2
      <4>4. /\ v.code = p.code /\ v.subject = p.subject /\ v.named = p.named
            /\ v.captured = p.captured /\ v.mode = p.mode /\ v.position = p.position + 1
        BY <1>1, <4>2 DEF Process
      <4> QED  BY <4>1, <4>3, <4>4
    <3>2. CASE ~(p.position < Last)
      <4>1. pc'[r] = "unexpected" /\ local' = local
        BY <1>1, <2>1, <3>2 DEF Advance, Keep, GoTo
      <4>2. p.position = Last
        BY <2>3, <3>2
      <4> QED  BY <4>1, <4>2
    <3> QED  BY <3>1, <3>2
  <2>7. \A x : Shown(v, x) = Shown(p, x)
    BY <2>6 DEF Shown
  <2>8. ASSUME alone[r] PROVE SeenSources(stage, v)' /\ SeenFiles(stage, v)'
    <3>1. SeenSources(stage, v)'
      BY <1>4, <2>4, <2>5, <2>6, <2>8 DEF SeenSources, Active, Publishing
    <3>2. CASE stage = "make"
      <4>1. \A x \in Paths : x < v.position => x < p.position \/ x = p.position
        BY <2>3, <2>6, <3>2
      <4>2. \A x \in Paths : x >= v.position => x >= p.position /\ x # p.position
        BY <2>3, <2>6, <3>2
      <4>3. \A x \in Paths : x < v.position => worktree'.evidence[x] = Shown(v, x)'
        BY <1>3, <2>4, <2>5, <2>7, <2>8, <4>1
      <4>4. \A x \in Paths : x >= v.position => worktree'.evidence[x] = Tip'.evidence[x]
        BY <1>4, <2>4, <2>5, <2>8, <4>2
      <4> QED  BY <3>1, <3>2, <4>3, <4>4 DEF SeenFiles, Publishing, Active
    <3>3. CASE stage = "unexpected"
      <4>1. \A x \in Paths : x < p.position \/ x = p.position
        BY <2>3, <2>6, <3>3
      <4>2. \A x \in Paths : worktree'.evidence[x] = Shown(v, x)'
        BY <1>3, <2>4, <2>5, <2>7, <2>8, <4>1
      <4> QED  BY <3>1, <3>3, <4>2 DEF SeenFiles, Publishing, Active
    <3> QED  BY <2>6, <3>1, <3>2, <3>3
  <2>9. alone[r] => Seen(pc[r], local[r], temporary[r])'
    BY <2>6, <2>8 DEF Seen, SeenSources, SeenFiles
  <2> QED  BY <2>1, <2>2, <2>9 DEF VInv, PassedMeansVerifiable
<1>9. CASE ~Fail(r) /\ RefuseUnexpected(r)
  <2>1. Pass(r) /\ NothingElse /\ UNCHANGED shared /\ pc[r] = "unexpected"
    BY <1>9 DEF RefuseUnexpected
  <2>2. alone[r] => CheckWouldPass
    BY <1>2, <2>1, SeenMeansVerifiable DEF Seen, SeenFiles, Publishing
  <2> QED  BY <2>1, <2>2, PassingKeepsVerdict
<1> QED  BY <1>5, <1>6, <1>7, <1>8, <1>9 DEF WriteStep

(* The steps that check: what has been compared is as it was computed, or  *)
(* the difference is remembered.                                           *)
LEMMA CheckKeepsVerdict ==
  ASSUME IInv, OInv, VInv, NEW r \in Runs, RequireMembership(r) \/ CompareFile(r)
  PROVE  VInv'
<1> DEFINE p == local[r]
<1>1. /\ p \in Process /\ Fits(pc[r], p) /\ UNCHANGED shared
      /\ pc \in [Runs -> Stages] /\ local \in [Runs -> Process]
  BY Knows DEF IInv, Processes, RequireMembership, Require, CompareFile
<1>2. alone[r] => SeenSources(pc[r], p) /\ SeenFiles(pc[r], p)
  BY DEF VInv, Seen
<1>3. pc[r] \in {"list", "compare"} /\ p.mode = "check"
  BY <1>1 DEF Fits, RequireMembership, Require, CompareFile
<1>4. p.position \in Paths /\ p.position \in Nat /\ Last \in Nat
      /\ \A x \in Paths : x \in Nat /\ x >= 1 /\ x <= Last
  BY <1>1, PathsAssumption DEF Process, Paths
<1>5. CASE Fail(r)
  BY <1>1, <1>5, EndingKeepsVerdict DEF Fail, shared, Ended
<1>6. CASE ~Fail(r) /\ RequireMembership(r)
  <2>1. /\ pc[r] = "list" /\ NothingElse /\ Keep(r, "compare") /\ verified' = verified
    BY <1>6 DEF RequireMembership, Require
  <2>2. pc' = [pc EXCEPT ![r] = "compare"] /\ alone' = [x \in Runs |-> x = r /\ alone[x]]
        /\ local' = [local EXCEPT ![r] = p]
    BY <1>1, <2>1 DEF Keep, GoTo
  <2>3. alone[r] => SeenSources("compare", p)
    BY <1>2, <2>1 DEF SeenSources, Active, Publishing
  <2>4. alone[r] => SeenFiles("compare", p)
    <3>1. \A x \in Paths : ~(x < 1)
      BY <1>4
    <3> QED  BY <1>2, <1>3, <2>1, <3>1 DEF SeenFiles, Active, Publishing
  <2>5. alone[r] => Seen("compare", p, temporary[r])
    BY <2>3, <2>4 DEF Seen
  <2> QED  BY <1>1, <2>1, <2>2, <2>5, ReadingKeepsVerdict
<1>7. CASE ~Fail(r) /\ CompareFile(r)
  <2> DEFINE observed == worktree.evidence[p.position]
             differs  == p.mismatch \/ observed # Computed(r)
  <2>1. pc[r] = "compare" /\ Computed(r) = Shown(p, p.position)
    BY <1>7 DEF CompareFile, Computed, Shown
  <2>2. alone[r] => /\ NothingElse
                    /\ ~p.mismatch =>
                          \A x \in Paths : x < p.position => worktree.evidence[x] = Shown(p, x)
    BY <1>2, <2>1 DEF SeenFiles
  <2>3. alone[r] /\ ~differs =>
           \A x \in Paths : x <= p.position => worktree.evidence[x] = Shown(p, x)
    <3>1. \A x \in Paths : x <= p.position => x < p.position \/ x = p.position
      BY <1>4
    <3> QED  BY <2>1, <2>2, <3>1
  <2>4. CASE p.position = Last /\ ~differs /\ Pass(r)
    <3>1. alone[r] => \A x \in Paths : worktree.evidence[x] = Shown(p, x)
      BY <1>4, <2>3, <2>4
    <3>2. pc[r] \in Publishing
      BY <2>1 DEF Publishing
    <3>3. alone[r] => CheckWouldPass
      BY <1>2, <2>2, <3>1, <3>2, SeenMeansVerifiable
    <3> QED  BY <1>1, <2>4, <3>3, PassingKeepsVerdict
  <2>5. CASE /\ local' = [local EXCEPT ![r].position = @ + 1, ![r].mismatch = differs]
             /\ GoTo(r, "compare") /\ UNCHANGED verified
    <3>1. PICK v : v = [p EXCEPT !.position = @ + 1, !.mismatch = differs]
      OBVIOUS
    <3>2. local' = [local EXCEPT ![r] = v]
      BY <1>1, <2>5, <3>1
    <3>3. /\ v.code = p.code /\ v.subject = p.subject /\ v.named = p.named
          /\ v.captured = p.captured /\ v.mode = p.mode
          /\ v.position = p.position + 1 /\ v.mismatch = differs
      BY <1>1, <3>1 DEF Process
    <3> HIDE DEF differs, observed
    <3>4. \A x : Shown(v, x) = Shown(p, x)
      BY <3>3 DEF Shown
    <3>5. \A x \in Paths : x < v.position => x <= p.position
      BY <1>4, <3>3
    <3>6. alone[r] => SeenSources("compare", v)
      BY <1>2, <2>1, <3>3 DEF SeenSources, Active, Publishing
    <3>7. alone[r] => SeenFiles("compare", v)
      BY <1>3, <2>2, <2>3, <3>3, <3>4, <3>5 DEF SeenFiles, Active, Publishing
    <3>8. alone[r] => Seen("compare", v, temporary[r])
      BY <3>6, <3>7 DEF Seen
    <3>9. pc' = [pc EXCEPT ![r] = "compare"] /\ alone' = [x \in Runs |-> x = r /\ alone[x]]
      BY <2>5 DEF GoTo
    <3> QED  BY <1>1, <2>5, <3>2, <3>8, <3>9, ReadingKeepsVerdict
  <2> QED  BY <1>7, <2>4, <2>5 DEF CompareFile
<1> QED  BY <1>5, <1>6, <1>7

(* Nobody is alone after a step of the maintainer.  An edit takes back     *)
(* what a PASS said; a commit keeps it, since it does not change the       *)
(* pipeline's revision.                                                    *)
LEMMA MaintainerKeepsVerdict ==
  ASSUME IInv, IInv', VInv, Maintainer
  PROVE  VInv'
<1>1. alone' = [r \in Runs |-> FALSE]
  BY DEF Maintainer, Edit, Commit, Restore, Maintain
<1>2. PassedMeansVerifiable'
  <2>1. CASE Edit \/ Restore
    BY <2>1 DEF Edit, Restore, PassedMeansVerifiable
  <2>2. CASE Commit
    <3>1. /\ history' = Append(history, worktree) /\ worktree' = worktree
          /\ temporary' = temporary /\ verified' = verified
      BY <2>2 DEF Commit
    <3> SUFFICES ASSUME CheckWouldPass PROVE CheckWouldPass'
      BY <3>1 DEF VInv, PassedMeansVerifiable
    <3>2. PICK q : q = PipelineRevision
      OBVIOUS
    <3>3. PICK h : h = history'
      OBVIOUS
    <3>4. PICK k : k = PipelineRevision'
      OBVIOUS
    <3>5. IsPipelineRevision(q, h)
      BY <3>1, <3>2, <3>3, RevisionStays DEF CheckWouldPass, IInv
    <3>6. IsPipelineRevision(k, h)
      <4>1. IsPipelineRevision(PipelineRevision, history)'
        BY NextRevisionIsRevision DEF IInv
      <4> QED  BY <3>3, <3>4, <4>1 DEF IsPipelineRevision
    <3>7. Len(h) \in Nat
      BY <3>3, LenProperties DEF IInv, Stored
    <3>8. PipelineRevision' = PipelineRevision
      BY <3>2, <3>4, <3>5, <3>6, <3>7, OneRevision
    <3>9. /\ \A i \in DOMAIN history : i \in DOMAIN history' /\ history'[i] = history[i]
          /\ PipelineRevision \in DOMAIN history
      BY <3>1, GenuineStays, PipelineRevisionExists DEF IInv
    <3> QED  BY <3>1, <3>8, <3>9 DEF CheckWouldPass, NothingElse, NoLeftovers, BundleOf, PayloadOf
  <2> QED  BY <2>1, <2>2 DEF Maintainer
<1> QED  BY <1>1, <1>2 DEF VInv

LEMMA VerdictInductive == IInv /\ IInv' /\ OInv /\ VInv /\ [Next]_vars => VInv'
<1> SUFFICES ASSUME IInv, IInv', OInv, VInv, [Next]_vars PROVE VInv'
  OBVIOUS
<1>1. CASE Maintainer
  BY <1>1, MaintainerKeepsVerdict
<1>2. ASSUME NEW r \in Runs, Start(r) \/ Step(r) PROVE VInv'
  BY <1>2, PreparationKeepsVerdict, WriteKeepsVerdict, CheckKeepsVerdict DEF Step
<1>3. ASSUME NEW r \in Runs, Crash(r) PROVE VInv'
  BY <1>3, EndingKeepsVerdict DEF Crash, Ended, shared
<1>4. CASE UNCHANGED vars
  <2>1. CheckWouldPass => CheckWouldPass'
    BY <1>4, CheckStays DEF vars, shared, NothingElse, NoLeftovers,
         CheckWouldPass
  <2>2. \A r \in Runs : Seen(pc[r], local[r], temporary[r]) => Seen(pc[r], local[r], temporary[r])'
    BY <1>4 DEF vars, shared, Seen, SeenSources, SeenFiles, Shown, PayloadOf, PipelineRevision,
                NothingElse, NoLeftovers, Tip
  <2> QED  BY <1>4, <2>1, <2>2 DEF vars, VInv, PassedMeansVerifiable
<1> QED  BY <1>1, <1>2, <1>3, <1>4 DEF Next

LEMMA NobodyHasSeen == Init => VInv
  BY DEF Init, VInv, PassedMeansVerifiable

LEMMA VerdictInvariance == Spec => [](IInv /\ OInv /\ VInv)
  BY NobodyHasSeen, VerdictInductive, InitiallyGenuine, OriginInductive, Invariance, PTL DEF Spec

(* PASS is worth something: when a run that nobody disturbed has printed   *)
(* it, the worktree holds one whole bundle of one existing subject, drawn  *)
(* by the pipeline its manifest names, and until someone edits a file or   *)
(* writes a bundle that remains so, whatever is committed, crashes or is   *)
(* checked in between.                                                     *)
THEOREM PassIsVerifiable == Spec => []PassedMeansVerifiable
<1>1. VInv => PassedMeansVerifiable
  BY DEF VInv
<1> QED  BY <1>1, VerdictInvariance, PTL

(* A write never destroys what Git does not have: an undisturbed run       *)
(* replaces only files that are as they were last committed.               *)
THEOREM NothingIsLost == Spec => NothingUncommittedIsLost
<1> DEFINE Kept == \A r \in Runs :
                      alone[r] /\ worktree'.evidence # worktree.evidence /\ ReplaceTarget(r)
                         => worktree.evidence[local[r].position] = Tip.evidence[local[r].position]
<1>1. IInv /\ VInv => Kept
  <2> SUFFICES ASSUME IInv, VInv, NEW r \in Runs, alone[r], ReplaceTarget(r)
               PROVE  worktree.evidence[local[r].position] = Tip.evidence[local[r].position]
    OBVIOUS
  <2>1. local[r] \in Process /\ local[r].mode = "write" /\ pc[r] = "replace"
    BY Knows DEF Fits, ReplaceTarget
  <2>2. local[r].position \in Paths /\ local[r].position >= local[r].position
    BY <2>1 DEF Process, Paths
  <2>3. SeenFiles(pc[r], local[r])
    BY DEF VInv, Seen
  <2> QED  BY <2>1, <2>2, <2>3 DEF SeenFiles, Active
<1>2. IInv /\ VInv => [Kept]_vars
  BY <1>1
<1> QED  BY <1>2, VerdictInvariance, PTL DEF NothingUncommittedIsLost
=============================================================================
