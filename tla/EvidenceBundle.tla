--------------------------- MODULE EvidenceBundle ---------------------------
(***************************************************************************)
(* tools/generate_analysis_evidence.py: how the published bundle is        *)
(* written and checked.  Several runs of the tool and a maintainer share   *)
(* one worktree and one linear Git history; a run may crash between any    *)
(* two of its steps.                                                       *)
(*                                                                         *)
(* A revision is the position of a commit.  The content of the subject's   *)
(* sources and of the pipeline's is a number; a published file is what it  *)
(* was computed from.  What happens between the pipeline's check and the   *)
(* finished bundle (wheel, virtual environment, executions, drawing) is    *)
(* one step, whose outcomes SubjectCapture defines.                        *)
(***************************************************************************)
EXTENDS SubjectCapture

CONSTANTS Runs,      \* invocations of the tool
          Last,      \* the bundle's paths are 1..Last, in sorted order
          Manifest,  \* the path of manifest.json
          Raw,       \* paths whose bytes depend on the subject's content alone
          Absent,    \* no such file
          Torn,      \* a file whose writing was not completed
          MaxEdits   \* bound: what the maintainer does

Paths == 1..Last

ASSUME PathsAssumption == Last \in Nat /\ Manifest \in Paths /\ Raw \subseteq Paths \ {Manifest}

(* What the files of a bundle hold.                                        *)
Payload == [content : Programs, subject : Nat, code : Contents, pipeline : Nat]

ASSUME ValuesAssumption ==
    /\ 0 \in Contents \cap Sound
    /\ Torn \notin {Absent, Foreign} /\ \A v \in {Absent, Torn, Foreign} : v \notin Payload

ASSUME BoundAssumption == MaxEdits \in Nat

VARIABLES
    history,    \* Git: a sequence of commits
    worktree,   \* sources, pipeline, the files of the bundle, and whether
                \* there is a stray file beside them in its directory
    temporary,  \* run |-> its temporary file in the bundle's directories, or Absent
    edits,      \* what the maintainer did so far
    pc,
    local,      \* run |-> the variables of its process
    \* history variables
    alone,      \* run |-> nobody else acted since it started
    verified    \* a run that nobody disturbed has passed, and nothing changed since

shared == <<history, worktree, temporary, edits>>
vars == <<shared, pc, local, alone, verified>>

Ended == {"passed", "failed", "crashed"}

Active == {"clean", "manifest", "subject", "sources", "revision", "pipeline",
           "build", "make", "fill", "replace", "unexpected", "list", "compare"}

-----------------------------------------------------------------------------
(* What a bundle is.                                                       *)

(* The bytes of one file: captured output, a drawing or the run receipts,  *)
(* or the manifest, which also names the pipeline's revision.  All show    *)
(* what the captured program did.                                          *)
PayloadOf(p, program, s, q, c) ==
    [content  |-> program,
     subject  |-> IF p \in Raw THEN 0 ELSE s,
     code     |-> IF p \in Raw THEN 0 ELSE c,
     pipeline |-> IF p = Manifest THEN q ELSE 0]

BundleOf(program, s, q, c) == [p \in Paths |-> PayloadOf(p, program, s, q, c)]

(* git log -1 -- PIPELINE_SOURCE_PATHS: the last commit that changed them. *)
PipelineRevision ==
    CHOOSE i \in 1..Len(history) :
        /\ i = 1 \/ history[i].pipeline # history[i - 1].pipeline
        /\ \A j \in (i + 1)..Len(history) : history[j].pipeline = history[i].pipeline

Tip == history[Len(history)]

NoLeftovers == \A r \in Runs : temporary[r] = Absent

(* _bundle_files: nothing else lies in the bundle's directory.             *)
NothingElse == NoLeftovers /\ ~worktree.stray

IsClean == worktree = Tip /\ NoLeftovers

-----------------------------------------------------------------------------
(* The variables of a process before it has come to know any, and after    *)
(* it has ended.                                                           *)
NoProcess == [mode |-> "check", code |-> 0, subject |-> 0, named |-> 0,
              captured |-> Foreign, position |-> 1, mismatch |-> FALSE]

(* The first commit holds sources and pipeline, the second publishes the   *)
(* evidence made of it.                                                    *)
Init ==
    LET first == [sources |-> 0, pipeline |-> 0, evidence |-> [p \in Paths |-> Absent],
                  stray |-> FALSE]
        payload(p) == [content |-> 0, subject |-> IF p \in Raw THEN 0 ELSE 1, code |-> 0,
                       pipeline |-> IF p = Manifest THEN 1 ELSE 0]
    IN  /\ history = <<first, [first EXCEPT !.evidence = [p \in Paths |-> payload(p)]]>>
        /\ worktree = history[2]
        /\ temporary = [r \in Runs |-> Absent]
        /\ edits = 0
        /\ pc = [r \in Runs |-> "idle"]
        /\ local = [r \in Runs |-> NoProcess]
        /\ alone = [r \in Runs |-> FALSE]
        /\ verified = FALSE

(* Run r goes on; whoever else is running is no longer alone.              *)
GoTo(r, next) ==
    /\ pc' = [pc EXCEPT ![r] = next]
    /\ alone' = [x \in Runs |-> x = r /\ alone[x]]

Keep(r, next) == GoTo(r, next) /\ UNCHANGED local

Exit(r, verdict) == GoTo(r, verdict) /\ local' = [local EXCEPT ![r] = NoProcess]

Fail(r) == Exit(r, "failed") /\ UNCHANGED verified

(* PASS is printed; what that is worth is remembered.                      *)
Pass(r) == Exit(r, "passed") /\ verified' = (verified \/ alone[r])

(* Python has loaded the generator when main is entered.                   *)
Start(r) ==
    /\ pc[r] = "idle"
    /\ \E mode \in {"write", "check"} :
          /\ pc' = [pc EXCEPT ![r] = IF mode = "write" THEN "clean" ELSE "manifest"]
          /\ local' = [local EXCEPT ![r] = [NoProcess EXCEPT !.mode = mode,
                                                            !.code = worktree.pipeline]]
    /\ alone' = [x \in Runs |-> x = r]
    /\ UNCHANGED <<shared, verified>>

(* --subject may be no commit at all.                                      *)
TakeSubject(r) ==
    /\ \E s \in 1..(Len(history) + 1) : local' = [local EXCEPT ![r].subject = s]
    /\ GoTo(r, "subject")
    /\ UNCHANGED verified

RequireNothing(r) == pc[r] = "clean" /\ TakeSubject(r) /\ UNCHANGED shared

(* --write: git status shows nothing.                                      *)
RequireCleanWorktree(r) ==
    /\ pc[r] = "clean"
    /\ IF IsClean THEN TakeSubject(r) ELSE Fail(r)
    /\ UNCHANGED shared

(* --check: the subject comes from the manifest in the worktree.           *)
ManifestSubject(r) ==
    /\ pc[r] = "manifest"
    /\ LET manifest == worktree.evidence[Manifest]
       IN  IF manifest \in {Absent, Foreign, Torn}
           THEN Fail(r)
           ELSE /\ local' = [local EXCEPT ![r].subject = manifest.subject]
                /\ GoTo(r, "subject") /\ UNCHANGED verified
    /\ UNCHANGED shared

(* A step that reads, and goes on if ok holds.                             *)
Require(r, here, ok, next) ==
    /\ pc[r] = here
    /\ IF ok THEN Keep(r, next) /\ UNCHANGED verified ELSE Fail(r)
    /\ UNCHANGED shared

RequireSubjectUnchecked(r) == pc[r] = "subject" /\ Keep(r, "sources") /\ UNCHANGED <<shared, verified>>

RequireSubject(r) == Require(r, "subject", local[r].subject \in 1..Len(history), "sources")

VerifyCurrentSubject(r) ==
    Require(r, "sources", worktree.sources = history[local[r].subject].sources, "revision")

FindPipelineRevision(r) ==
    /\ pc[r] = "revision"
    /\ local' = [local EXCEPT ![r].named = PipelineRevision]
    /\ GoTo(r, "pipeline")
    /\ UNCHANGED <<shared, verified>>

PipelineRecords(r) ==
    Require(r, "pipeline", worktree.pipeline = history[local[r].named].pipeline, "build")

(* Whatever was built and found, what is captured passed every check.      *)
CaptureSubject(r) ==
    /\ pc[r] = "build"
    /\ \/ \E program \in Captures[history[local[r].subject].sources] :
             /\ local' = [local EXCEPT ![r].captured = program]
             /\ GoTo(r, IF local[r].mode = "write" THEN "make" ELSE "list")
             /\ UNCHANGED verified
       \/ Fail(r)
    /\ UNCHANGED shared

-----------------------------------------------------------------------------
(* --write: one file after the other in sorted order, each through a       *)
(* temporary file in its directory that replaces it.                       *)

(* What run r computed for the file it has come to.                        *)
Computed(r) ==
    PayloadOf(local[r].position, local[r].captured, local[r].subject, local[r].named, local[r].code)

MakeTemporaryOnly(r) ==
    /\ pc[r] = "make"
    /\ \/ /\ temporary' = [temporary EXCEPT ![r] = Torn]
          /\ Keep(r, "replace")
          /\ verified' = FALSE
       \/ Fail(r) /\ UNCHANGED temporary
    /\ UNCHANGED <<history, worktree, edits>>

MakeTemporary(r) ==
    /\ pc[r] = "make"
    /\ \/ /\ temporary' = [temporary EXCEPT ![r] = Torn]
          /\ Keep(r, "fill")
          /\ verified' = FALSE
       \/ Fail(r) /\ UNCHANGED temporary
    /\ UNCHANGED <<history, worktree, edits>>

(* The maintainer may have deleted the temporary file in the meantime:     *)
(* the descriptor takes the bytes, the name stays away.  After a failure   *)
(* the finally clause deletes it.                                          *)
FillTemporary(r) ==
    /\ pc[r] = "fill"
    /\ \/ /\ temporary' = [temporary EXCEPT ![r] = IF @ = Absent THEN Absent ELSE Computed(r)]
          /\ Keep(r, "replace") /\ UNCHANGED verified
       \/ temporary' = [temporary EXCEPT ![r] = Absent] /\ Fail(r)
    /\ UNCHANGED <<history, worktree, edits>>

(* The next file of the sorted bundle, or on to what follows the loop.     *)
Advance(r, again, done) ==
    IF local[r].position < Last
    THEN GoTo(r, again) /\ local' = [local EXCEPT ![r].position = @ + 1]
    ELSE Keep(r, done)

ReplaceTarget(r) ==
    /\ pc[r] = "replace"
    /\ \/ /\ temporary[r] # Absent
          /\ worktree' = [worktree EXCEPT !.evidence[local[r].position] = temporary[r]]
          /\ Advance(r, "make", "unexpected")
          /\ verified' = FALSE
       \/ Fail(r) /\ UNCHANGED worktree
    /\ temporary' = [temporary EXCEPT ![r] = Absent]
    /\ UNCHANGED <<history, edits>>

RefuseUnexpected(r) ==
    /\ pc[r] = "unexpected"
    /\ IF NothingElse THEN Pass(r) ELSE Fail(r)
    /\ UNCHANGED shared

-----------------------------------------------------------------------------
(* --check: membership first, then every file.                             *)

RequirePresence(r) ==
    Require(r, "list", \A p \in Paths : worktree.evidence[p] # Absent, "compare")

RequireMembership(r) ==
    Require(r, "list",
            NothingElse /\ \A p \in Paths : worktree.evidence[p] # Absent, "compare")

(* Reading a file that has disappeared since raises; a difference is       *)
(* remembered until all files have been compared.                          *)
CompareFile(r) ==
    /\ pc[r] = "compare"
    /\ LET observed == worktree.evidence[local[r].position]
           differs  == local[r].mismatch \/ observed # Computed(r)
           isLast   == local[r].position = Last
       IN  \/ (observed = Absent \/ (isLast /\ differs)) /\ Fail(r)
           \/ isLast /\ ~differs /\ Pass(r)
           \/ /\ ~isLast /\ observed # Absent
              /\ local' = [local EXCEPT ![r].position = @ + 1, ![r].mismatch = differs]
              /\ GoTo(r, "compare") /\ UNCHANGED verified
    /\ UNCHANGED shared

(* The machine stops, or the process is killed: no finally clause runs.    *)
Crash(r) ==
    /\ pc[r] \in Active
    /\ Exit(r, "crashed")
    /\ UNCHANGED <<shared, verified>>

-----------------------------------------------------------------------------
(* The maintainer.  A stray file may be made, deleted and committed.       *)

Maintain ==
    /\ edits < MaxEdits
    /\ edits' = edits + 1
    /\ alone' = [r \in Runs |-> FALSE]
    /\ UNCHANGED <<pc, local>>

Edit ==
    /\ Maintain
    /\ \/ \E v \in Contents \ {worktree.sources} : worktree' = [worktree EXCEPT !.sources = v]
       \/ \E v \in Contents \ {worktree.pipeline} : worktree' = [worktree EXCEPT !.pipeline = v]
       \/ \E p \in Paths, v \in {Absent, Foreign} :
              worktree' = [worktree EXCEPT !.evidence[p] = v]
       \/ worktree' = [worktree EXCEPT !.stray = ~@]
    /\ verified' = FALSE
    /\ UNCHANGED <<history, temporary>>

Commit ==
    /\ Maintain
    /\ worktree # Tip
    /\ history' = Append(history, worktree)
    /\ UNCHANGED <<worktree, temporary, verified>>

(* git checkout . and git clean                                            *)
Restore ==
    /\ Maintain
    /\ ~IsClean
    /\ worktree' = Tip
    /\ temporary' = [r \in Runs |-> Absent]
    /\ verified' = FALSE
    /\ UNCHANGED history

Maintainer == Edit \/ Commit \/ Restore

-----------------------------------------------------------------------------
WriteStep(r) == MakeTemporary(r) \/ FillTemporary(r) \/ ReplaceTarget(r) \/ RefuseUnexpected(r)

Step(r) ==
    \/ RequireCleanWorktree(r) \/ ManifestSubject(r)
    \/ RequireSubject(r) \/ VerifyCurrentSubject(r)
    \/ FindPipelineRevision(r) \/ PipelineRecords(r) \/ CaptureSubject(r)
    \/ WriteStep(r)
    \/ RequireMembership(r) \/ CompareFile(r)

Next == Maintainer \/ \E r \in Runs : Start(r) \/ Step(r) \/ Crash(r)

Spec == Init /\ [][Next]_vars

-----------------------------------------------------------------------------
(* Every run knows what it is about to use: a subject and a pipeline       *)
(* revision that exist and a file of the bundle.                           *)
TypeOK ==
    /\ Len(history) \in 2..(2 + MaxEdits)
    /\ \A r \in Runs :
          /\ pc[r] \in {"idle"} \cup Active \cup Ended
          /\ local[r].position \in Paths
          /\ pc[r] \in Active \ {"clean", "manifest", "subject"} => local[r].subject \in DOMAIN history
          /\ pc[r] \in Active \ {"clean", "manifest", "subject", "sources", "revision"}
                => local[r].named \in DOMAIN history
          /\ pc[r] \in {"clean", "make", "fill", "replace", "unexpected"} => local[r].mode = "write"
          /\ pc[r] \in {"manifest", "list", "compare"} => local[r].mode = "check"
    /\ edits \in 0..MaxEdits

(* No file of the bundle is ever half written: whatever crashes, fails or  *)
(* runs at the same time, a published name holds complete bytes.           *)
PublishedIsWhole ==
    /\ \A p \in Paths : worktree.evidence[p] # Torn
    /\ \A i \in DOMAIN history, p \in Paths : history[i].evidence[p] # Torn

Genuine(p, file) ==
    file \in {Absent, Foreign} \/
        /\ file.content \in Sound
        /\ p \notin Raw => /\ file.subject \in DOMAIN history
                           /\ file.content = history[file.subject].sources

(* Nothing is published that was not observed, and nothing is said of a    *)
(* commit that another program did: whatever the builder put in the wheel  *)
(* and wherever the interpreter looked, a file of the bundle, on disk or   *)
(* in any commit, shows a program that keeps the contract, and every file  *)
(* that names a subject shows what that subject's own sources do.          *)
EvidenceIsOfItsSubject ==
    /\ \A p \in Paths : Genuine(p, worktree.evidence[p])
    /\ \A i \in DOMAIN history, p \in Paths : Genuine(p, history[i].evidence[p])

(* What a check started in this state would have to compute.               *)
CheckWouldPass ==
    /\ NothingElse
    /\ worktree.evidence[Manifest] \notin {Absent, Foreign, Torn}
    /\ LET s == worktree.evidence[Manifest].subject
           q == PipelineRevision
       IN  /\ s \in DOMAIN history
           /\ worktree.sources = history[s].sources
           /\ worktree.pipeline = history[q].pipeline
           /\ worktree.evidence = BundleOf(history[s].sources, s, q, worktree.pipeline)

(* PASS is worth something: when a run that nobody disturbed, writing or   *)
(* checking, has printed it, the worktree holds one whole bundle of one    *)
(* existing subject, drawn by the pipeline its manifest names; and until   *)
(* someone edits a file or writes a bundle that remains so, whatever is    *)
(* committed, crashes or is checked in between.                            *)
PassedMeansVerifiable == verified => CheckWouldPass

(* A write never destroys what Git does not have: an undisturbed run       *)
(* replaces only files that are as they were last committed.               *)
NothingUncommittedIsLost ==
    [][\A r \in Runs : alone[r] /\ worktree'.evidence # worktree.evidence /\ ReplaceTarget(r)
          => worktree.evidence[local[r].position] = Tip.evidence[local[r].position]]_vars
=============================================================================
