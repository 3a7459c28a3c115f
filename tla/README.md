# tctravel in TLA+

`tctravel` decides whether a plan of timed activities still works when
durations vary. A JSON itinerary is decoded, validated, compiled to a temporal
graph and analysed in two forward passes; a command line wraps the four and
answers with a report and a process status. Around the library stand three
maintenance tools: a verifier of a quarantined legacy snapshot and two
generators of committed evidence.

This directory holds the TLA+ models of that code, the TLC configurations that
check them on small instances, and TLAPS proofs for every value of the
constants. Source paths below are relative to `src/`.

## Inventory

| Component | State | Operations | Hard behaviour |
| --- | --- | --- | --- |
| Model, `tctravel/model.py` | none; frozen records | - | - |
| Errors, `tctravel/errors.py` | none; the closed vocabulary of refusals | - | - |
| Validation, `tctravel/validation.py` | per call: dictionaries of activities, pairs, successors, incoming transfers, indegrees, a heap, the order, finish times | `validate_itinerary` | which of several faults is answered; Kahn's algorithm counting over a set while its counters count a list; a verdict of infeasibility that must be final; every index of a late stage resting on an early one |
| Codec, `tctravel/codec.py` | per call: a depth scanner, the parsed document | `decode_itinerary_json`, `canonical_itinerary_bytes`, `itinerary_digest` | a scanner and a parser that must agree; the order of refusals |
| Compiler, `tctravel/compiler.py` | none beyond the call | `compile_temporal_graph` and its canonical bytes | bytes that depend on nothing but the meaning |
| Analysis, `tctravel/analysis.py` | per pass: timings, the walk along the witnesses | `analyze_interval_feasibility` and its canonical bytes | two vectors of durations answering for all of them; slack of exactly zero; a walk along stored pointers |
| Command line, `tctravel/cli.py`, `__main__.py` | one process: the file descriptor it owns, the streams' buffers, the exit status | `_read_path_bounded`, `_read_stream_bounded`, `main` | other processes changing the file between system calls; who closes the descriptor; failed writes and what the interpreter flushes afterwards |
| Legacy verifier, `tools/verify_legacy.py` | the byte budget, the contents read | `verify` | files examined three times while they may change; a budget charged after it is checked |
| Analysis evidence, `tools/generate_analysis_evidence.py` | the worktree, the bundle on disk | `--write`, `--check` | a wheel or an environment that is not what the commit holds; crash between two files of a bundle; a failed write that has already changed things; leftovers |
| Visual evidence, `tools/generate_visuals.py` | the bundle on disk | generate, `--check` | files truncated and filled in place, runs without a lock, sources read before and named after the pictures are made |

The calls go one way. `main` reads bytes (a path or standard input), calls the
codec, which ends in the validator; `analyze_interval_feasibility` calls the
compiler, which validates again and hands over the activity order; the result
is rendered and written. Nothing is shared between calls. Concurrency comes from outside only: other
processes writing to, truncating or replacing the file that is read, and the
two ends of the standard streams. The generators run the installed command as
a subprocess and keep their results in files.

What makes each component correct:

- validation: it accepts exactly the well-formed, acyclic itineraries some
  schedule can satisfy, and returns the lexically least topological order;
- analysis: for every mixture of durations the plan lies between the two
  passes, "robust" means that no mixture misses a deadline, and the witness
  chain really explains the tightest deadline;
- path reader: what is returned is one version of the file that was named,
  within the limit, and no descriptor is left open;
- command: a status of success comes with a complete report, a refusal with
  its diagnostic alone;
- evidence generators: what is published shows the committed program and the
  documented contract; a bundle on disk is the one that was built, or a later
  check says it is not;
- legacy verifier: PASS is true of the bytes it read, within its byte budget.

## Modules

| Module | Models | Checked by |
| --- | --- | --- |
| `Faults` | a check and what follows it: `Blame`, `??` | - |
| `Itineraries` | the records of `model.py`; the graph of an itinerary, its schedules, and everything there is to object to in one | all that use it |
| `ItineraryContract` | what `validate_itinerary` promises: one step from an itinerary to a verdict | as the refinement target of `Validation` |
| `Validation` | `validate_itinerary`, one action per loop iteration | `MCValidation`; `ValidationProofs` |
| `Analysis` | `_analyze_scenario` and `analyze_interval_feasibility`, one action per loop iteration | `MCAnalysis`; `AnalysisProofs` |
| `PathReader` | `_read_path_bounded`, one action per system call, against other processes | `PathReader.cfg`; `CliProofs` |
| `JsonText` | `_decode_json`: the depth scan and `json.loads` with its hooks, a character a step | `MCJsonText`; `JsonTextProofs` |
| `Codec` | `decode_itinerary_json` from the bytes to the validated itinerary, and `_itinerary_document` | `MCCodec`; `CompilerProofs` |
| `Compiler` | `compile_temporal_graph`, one action per loop iteration | `MCCompiler`; `CompilerProofs` |
| `Cli` | `main`, from the start of the process to the status it exits with | `Cli.cfg`, `CliExitOne.cfg`, `CliFailedWrite.cfg`; `CliProofs` |
| `SubjectCapture` | `_capture_subject` of `generate_analysis_evidence.py`: what may come out of building, installing and running a commit, as operators | with `EvidenceBundle` |
| `EvidenceBundle` | how the same tool writes and checks the bundle: several runs, crashes, a maintainer | `MCEvidenceBundle`; `EvidenceBundleProofs` |
| `VisualBundle` | `generate_visuals.py`: the probes, writing in place, checking, against other runs, kills and a maintainer | `MCVisualBundle`; `VisualBundleProofs` |
| `LegacyContracts` | the checks of `verify_legacy.py` on the manifest and the bytes read, as faults | with `LegacyVerifier` |
| `LegacyVerifier` | `verify`, one action per system call, against other processes | `MCLegacyVerifier`; `LegacyVerifierProofs` |

### Data

An identifier is a natural number: the code uses identifiers only as keys and
in lexical order. `Malformed` stands for whatever fails a check on its own (a
value of the wrong Python type, an identifier the grammar refuses); a check
that finds something wrong is `Blame(bad, code)`, and `f ?? g` is a check
followed by another that runs only if the first passed. Python integers do not
overflow, so times are integers. The anchor timestamp is never computed with
and is a Boolean (valid or not).

### Validation

`pc` is the stage: `header`, `activities`, `transfers`, `ordering`, then
`start` and `relax` for the forward pass. `activityById`, `pairs`,
`successors`, `incoming`, `indegree`, `ready` and `earliestFinish` are the
variables of the same names in the function, and the fault operators keep the
order of its checks. The heap is the set of its members; `Least` is
`heappop`. The inner loop over `sorted(successors[...])` only decrements
counters and pushes on the heap, so its order does not show and `PopReady` does
it in one step.

### Analysis

Init takes an itinerary to which `Objections` finds nothing, with the order
the validator returns: `MCValidation` checks that this is what it does.
`StartActivity`, `RelaxTransfer` and `FinishActivity` are the body of the loop
over the order, `Summarise` the minimum over the slacks, `FollowWitness` and
`EndWalk` the `while` loop with its guard against a cycle. The two calls
of `_analyze_scenario` are the two values of `scenario`.

### PathReader

Contents are sequences of cells, each naming the change that wrote it, so every
mixture of versions shows. `Lstat`, `Open`, `FstatOpened`, `Adopt`
(`os.fdopen`), `ReadSome`/`ReadEnds` and `FstatAfter` are the system calls in
order; each may fail for a reason of its own. `holders` says who will close the
descriptor: the function as long as its variable is not -1, the stream from
`Adopt` on (`HandedOver` is `descriptor = -1`). Every way out of the `try`
(`Leave`) goes through `CloseStream`, the end of the `with`, and `Finally`, each
of which closes only what it holds; `fdopen` may fail before it has taken the
descriptor or after, and a close may fail as well. `ChangeContent`, `ReplaceName`
and `CreateAnew` are the other processes: writes, truncation, rename, unlink,
and a new file that takes the inode number of an unlinked one. A change sets
the modification time to the kernel's clock, whose tick may equal the last one.
`seen` records the versions the named file went through since `lstat`, and
exists for the properties only, like `taken` and `twice`: when `fdopen` fails
with the descriptor already its own, it has closed it, and the function's
`finally` closes the number once more. `DescriptorIsClosed` excludes a second
close in every other case.

### JsonText and Codec

The scan reads the whole text before the parser does; both read the same
characters, so `JsonText` reads them side by side and lets the scan's refusal
win at the end. The alphabet is what the two tell apart. An integer is one character with a sign,
a number of digits and a value: `ParseInteger` decides by what is written, as
`_parse_integer` does, and the history `flaws` records what the value is, so that
`DecodedTextIsClean` can compare the two. A key's content is
chosen when its closing quote is read, because only equality of keys matters.
Where a string's characters decide (a control character, an unfinished `\u`
escape) the parser may go on or refuse, so that the properties hold for either.

`Codec` takes a text to be its verdict and its value, and goes through the
checks in the code's order: type, size, UTF-8, JSON, root object, arrays,
every activity, every transfer, sorting, and the validator, which is
`Objections`. The second document is what the properties compare with: the same
content rearranged or written by the encoder.

### Compiler

`AddNodes`, `AddActivityEdges` and `AddTransferEdge` are the loops;
`SortEdges` sorts by the key of the code: source position, target position,
kind, activity, bounds. In an accepted itinerary (source, target) already
determines an edge, so the rest of the key never decides. An edge is a
constraint on times, and the graph's meaning is the set of times that satisfy
all of them.

### Cli

A record is two pieces, so that a short write shows. A failed write may have
delivered the first piece and may leave the rest in the stream's buffer;
`Finalize` is the interpreter's own flush at exit, with the statuses it
substitutes. The reading of a path and the decoding are single steps that end
in any of the ways `PathReader` and the library can. Status 0 is complete whatever
streams were open; status 1 is a report only if all three were, as
`ExitOneIsAModeledResult` shows, and `SuccessIsComplete` says so.

### SubjectCapture

`_capture_subject` works on one commit, which cannot change, in a private
temporary directory, so that only its result matters: `Captured(v)` is the set
of programs that a capture of version `v` may find itself to have run. The
builder, the installer and the interpreter are not part of the repository and
may do as they like: any wheel of `Wheels`, a sequence of archive entries in
which a name may occur twice, and any environment, which is one Boolean for each
thing the two probes look at and the settings of the host (`HostSettings`) that
change where Python looks for modules. `Installed` says what the command then
runs; of two entries with one name an installer may take either, and a file the
package does not have may be a start-up hook. `Ran` adds the environment: the
probes run with `-I`, the command does not, so a host setting the probes do not
see reaches the command unless the fixed variables of
`_minimal_subprocess_environment` keep it out (`PassedOn`). `WheelContract`,
`FreshVenv`, `RuntimeContract`, `Executed` and `ValidateExecutions` are the
checks in between, translated from the code and knowing nothing of what
`Installed` does. `KeepsTheContract` is what `docs/cli.md` says of the command.

### EvidenceBundle

The state is a linear Git history, the worktree with the files of the bundle and
perhaps a stray one beside them (`stray`), one temporary file per run and the local variables of each run. A file
of the bundle is what it was computed from, so two bundles that agree in what
matters are equal. `MakeTemporary`, `FillTemporary` and `ReplaceTarget` are
`_atomic_write`; `RefuseUnexpected` is the look for other files after the loop;
`RequireMembership` and `CompareFile` are the check. `Crash` ends a run without
its `finally` clauses. `Edit`, `Commit` and `Restore` are the maintainer.
`CaptureSubject` is the one step from the checked pipeline to the finished
bundle; it fails, or ends with any program `SubjectCapture` lets through.

What the model shows about the code, beyond its properties: the manifest sorts
between `generated/` and `raw/`, so a crash can leave a new manifest over old
raw files (`--check` then fails); a leftover temporary file makes every later
check and write fail until it is cleaned away, and so does a stray file, even a
committed one, the write only after it has replaced everything; there is no lock, and two writers at once can both print
PASS over a mixed bundle. What a PASS is worth is therefore said of runs that
nobody disturbs; that files are whole and of their subject is said of all.

### VisualBundle

Python loads the generator and the library when a run starts; the fixture is
read next, the nine probes are answered in memory, and only then are the
sources read again for the manifest (`RecordFixture`, `RecordProgram`). So a
process keeps what it `shown` apart from what it `named`. `TruncateTarget` and
`FillTarget` are the two halves of `write_bytes`; a kill or a failed write in
between leaves the file empty or torn. Several runs may have one file open: the
later bytes go over the earlier ones, and a file that was replaced meanwhile
takes none (`attached`). `CompareFile` remembers a mismatch up to the verdict.

### LegacyVerifier

A content is a sequence of fragments that carry what the checks look for (a
data URI with its payload, a visible contact, a field of `site.json`), its
digest is itself. `Lstat`, `Open`, `Fstat`, `ReadSome` and `ReadEnds` are
`_read_regular_file_bounded`, `ExamineEntry` the inventory loop's own `lstat`,
`CompareEntry` the rest of its body. `Write`, `Replace` and `Connect` are other
processes. Unlike the command line's reader, this one compares no identities
and opens without `O_NONBLOCK`: a file swapped after `lstat` is read, a
symbolic link followed, a FIFO waited at for as long as no writer comes (so there
is no promise that a verdict is ever reached; `WaitsOnlyIfRaced` says that a FIFO
that was there from the start is refused instead). The properties are about what that
leaves standing: the digest is taken of the bytes in memory, so PASS is true of
them. What it says of the JPEGs is less than that all of them stand in the
settings: the tool counts them in the bytes of every file and, apart from that,
in the decoded settings, so that one outside the settings and one written with
escapes inside make up for each other. `CompareTotal` and the loop's check of the total never decide, because
the schema has already compared the sum.

## Runs

| Run | Question | Instance |
| --- | --- | --- |
| `validation` | does the sort count right and accept exactly the acyclic graphs; are the finish times the earliest, and the refusals final; is the first stage with a fault the one that answers, and does nothing malformed get further? | four activities in three declaration orders with all sequences of at most two transfers and all graphs of three to six; three activities in four timing profiles each with all pairs of timed transfers and the triangles; every field on, inside and outside its bounds or of the wrong type, several at once |
| `analysis_envelope` | do two passes answer for every duration vector? | three activities, three profiles each, 27 graphs |
| `path_reader` | is the payload one version of the file named? | two inodes, files of at most three cells with a limit of two, two changes anywhere |
| `json_text` | do scan and parser agree, and what gets past both? | all texts of up to sixteen characters, depth limit three, two keys, integers on either side of zero and of a limit of two digits |
| `codec` | is nothing handed on unchecked, and does representation matter? | documents with up to two places missing, extra, of another type or out of range |
| `compiler` | does the graph mean the itinerary, and is its order determined? | three activities in three profiles, all pairs of transfers, triangles |
| `cli` | does the status tell the truth? | all arguments, all sets of open streams (status 1 is vouched for with all of them open), every failure of a write |
| `cli_exit_one`, `cli_failed_write` | two sentences of `docs/cli.md` the process does not keep | as `cli` |
| `evidence_bundle` | can crashes, failures and edits leave a bundle that passes and is not one, or destroy what Git does not have; can a wheel or an environment make the tool publish another program than the subject's? | two runs, each writing or checking, three files, two edits, three versions of the sources of which one breaks the contract, twenty-one wheels, every environment by seven observations and three host settings |
| `visual_bundle` | is the verdict of a run right, do overlapping runs need a lock, and can a picture show a broken contract? | two runs, each generating or checking, three files, two edits, three programs and two fixtures, one program breaking the contract in a different way on each |
| `legacy_verifier` | is the verdict right, what holds when the files change meanwhile, and when does the tool wait? | two files and a third name, some 140 damaged directories and manifests left alone, the intact one with two changes anywhere |

`ImplementsContract` is the refinement: `Validation` with `verdict <- [code |->
result, order |-> ...]` implements `ItineraryContract`, whose verdicts are
defined without any algorithm (a cycle is a set in which everyone waits for
someone; an infeasible itinerary is one no schedule satisfies; the order is the
lexically least of all topological orders).

Bounds. Four activities are the least on which the heap's order, a diamond and a
cycle beside an acyclic part all occur, and six transfers make the cyclic and
the acyclic graphs both dense. A horizon of five lets three activities be early,
exactly on time and late along a chain. `Times` is the set the schedules of the
properties range over; it reaches past the latest start the inputs can produce,
so no schedule that matters is left out, and the proofs take it to be any set of
integers. In `PathReader` two changes are what it takes to change something and
to change it back; a limit of two cells with files of up to three puts a file on
each side of it and one on it. In `JsonText` sixteen characters
hold objects nested past the limit of three, two keys each, and strings with
escapes. In `EvidenceBundle` three files put one before the manifest and one
after it; two edits are a change and its commit, or a change in each of two
places; the wheels are the good one of each version and one for each way in
which a check of `_wheel_contract` may be needed. In `VisualBundle` three files
are a first, a middle and a last one, and two edits change something and change
it back. In `LegacyVerifier` a file limit of three fragments with contents of up
to five goes past the limit and past the one byte more that is read, and the
total limit is met exactly; three fragments are the least with which
`site.json` holds one JPEG outside its settings, the same one inside them
written with JSON escapes, and something else. In `Cli` an input of `MaxInput + 1` pieces is the
first too long one. The limits 100/500/31 days/64 KiB of the code are constants
and stand wherever the code uses them.

Fairness. Every library call and the process are sequential and nothing holds
them up: `WF_vars(Next)`. `Cli` assumes that standard input delivers data, ends
or breaks; a reader waits for as long as its writer is silent. In `PathReader`
only the reader is fair; the other processes may stop at any time or interfere
until their bound is used up. The calls end, so no run checks deadlock: a state
of a finished call has no successor. That the calls do end is checked as a
liveness property instead (`ImplementsContract` includes it for validation;
`ReportIsProduced`, `CallReturns`, `ProcessExits`). `JsonText`, `Codec`,
`Compiler`, `EvidenceBundle`, `VisualBundle` and `LegacyVerifier` check safety
only and assume no fairness: a run of a generator may be killed at any
time, and what is left then is what the properties are about; the legacy tool may
wait for a writer that never comes.

The type invariants of `PathReader`, `Cli`, `VisualBundle` and `Codec` are
proved and not run.

## Two sentences the code does not keep

- `docs/cli.md:66`, "Exit 1 is a modeled result, not a malformed-input or
  internal-error signal." `main` looks up `sys.stdin.buffer` and the other
  streams before its `try` (`cli.py:186`). A stream closed at start is `None`,
  the `AttributeError` escapes, and the process exits 1. `CliExitOne.cfg`.
- `docs/cli.md:84`, "Exit 5 also covers a failed or short output write", the
  status being authoritative. After a failed flush the record is still in the
  buffer (`cli.py:145`); the interpreter flushes again, fails again and exits
  120 instead. `CliFailedWrite.cfg`.

## Proofs

Eight modules prove their theorems for every set of inputs and every value of
the constants, from the assumptions the modules state. In the library:
`Malformed`, `Nobody` and `None` are not integers, the limits are naturals (the number
of activities, the horizon and a chunk of input positive), inputs are
itineraries, the schedules of the properties have integer times, and `Nothing`
is no inode; an integer has no more digits than are permitted exactly if its value
is within the largest of that many; the arguments of the decoder are texts of JSON values, among which
`WrongType` is none of an expected type. In the tools: the values that stand for
an absent, empty, torn or foreign file are no bundle's files and differ where the code can tell; a wheel
is indexed by naturals; RECORD is no file of the package, which has one; and
version 0 of the sources, the one first published, keeps the contract. For the
legacy verifier: names of files are naturals, the manifest's name apart from the
others; the limits are naturals, the manifest's positive; and files hold what `IsContent` says, a
manifest being any JSON value with numbers and lists, or values of a wrong type,
where the tool looks for numbers and lists.

**Validation.** The properties the runs check are not inductive: that the order
is topological says nothing about a heap in the middle of the sort. `IInv` is
the conjunction of five layers, each preserved by every step given the ones
before:

1. `ReadInv`: after `k - 1` activities and transfers the dictionaries hold
   exactly what the input says, without duplicates, and everything read is well
   typed;
2. `Ordering`: indegrees count the predecessors still to be ordered, the heap is
   the frontier, and the order is closed under predecessors. A nonempty
   remainder with an empty heap is then itself the set in which everyone
   waits, hence the cycle;
3. `Forward`: finish times are final, minimal over all schedules and attained;
4. `Verdicts`: the verdict follows from the three;
5. `Unobjected`: what the stages already passed would have objected to is not
   there, so the first objection is one of the stage that refuses.

From it: `TypeCorrect`, `FrontierExact`, `OrderTopological`, `CycleJust`,
`FinishLowerBound`, `InfeasibleJust`, `EarliestAttained`.

The same invariant carries the safety part of the refinement,
`KeepsContractSafely`: every step of `Validation` is a stutter of
`ItineraryContract` or its one step. A refusal while reading is the first
objection (`ReadRefusal`), a nonempty remainder is a cycle (`CycleRefusal`), a
missed deadline leaves no schedule (`DeadlineRefusal`), and the order accepted
is the least of all topological orders (`AcceptedLeast`): where another order
first differs, its activity was in the heap when the least was taken. That a
verdict is ever given is the liveness part and stays with TLC.

**Analysis.** `IInv` is `Typed`, which holds the types and that each pass has
covered a prefix of the order, and `Passes`, which says that every settled
activity starts at its release or at the bound of one of its transfers and at
none less. `AlongTheOrder` turns this into induction over the topological
order: a set that contains every activity whose predecessors it contains has
them all. From it: `TypeCorrect` (no predecessor's timing is missing when it is
read), `EnvelopeEncloses` (all duration vectors, all schedules), `RobustMeaning`
(which needs `Times = Int`, so that the worst-case schedule is among those the
property ranges over) and `BestCaseMeets`. The walk back along the witnesses is
not inductive by itself either: `CInv` adds that every witness explains its
activity's start (`Witnesses`) and that the chain so far, read backwards, is the
explanation (`Told`). A witness comes strictly earlier in the order, so the walk
meets no activity twice: `ChainExplains`, `GuardNeverFires`.

**JsonText.** `ScanFollowsParser` alone is not inductive: once one reader has
refused, the other goes on. `IInv` adds that the parser's stack and expectation
fit (`Grammar`), that the scan's refusals have a reason the parser shares
(`Refusals`), that a repeated key leaves its object open until
`_reject_duplicate_keys` sees it (`Twins`), and that the parser refused for the
digits exactly if it met an integer too large (`Sized`). `ParserMoves` says what a character
does to the parser's nesting and strings whatever the grammar makes of it, and
`ReadLemma` sets that beside the scan. From it, for texts of any length and every
limit: `Agreement`, `NestingBounded`, `RefusalsJust`, `DecodedClean`,
`TypeCorrect`.

**Compiler.** Init is an itinerary to which `Objections` finds nothing
(`NoObjections` says what that means of its records). `IInv` says which nodes
and edges are there after each loop iteration (`NodesAre`, `EdgesAre`), and
`Positions` that the two nodes of an activity stand beside each other. Since a
transfer joins two activities, joins them once and goes along the order, two
edges that differ have different ends (`NoSharedEnds`), all of them forward
(`ForwardEdges`). `Ranking` says that sorting by a key no two elements share
gives every element the place that its rank is, and `SortedByTwo` that what is
sorted by keys whose first two numbers tell the elements apart is sorted by
these two alone: kind, activity and bounds never decide (`SortedEdges`). `SameMeaning` is that the edges,
as constraints, are exactly what a schedule must satisfy.

**Codec.** Proved in `CompilerProofs` as well, which has the lemmas on sorting.
`DataAssumption` says what a JSON value is: an object with fields, an array, or
a value of a type that is expected or not, to any depth the decoder looks at.
`DInv` says how far the document has been read (`Reading`: the lists hold what
the fields of the first `k - 1` elements say), what a verdict implies (`Judged`)
and what the second document is (`Remembered`). Two strictly sorted
rearrangements of the same elements are one list (`SortedOnce`). So what the
decoder builds from a document and from its rearrangement differ in nothing the
validator looks at (`DecodedAlike`) and are equal once it accepts, since then no
two activities share an identifier and no two transfers their ends
(`ValidIsApart`); and an accepted document has no field but those of the
canonical one (`CanonicalContent`). From these, for documents of any length:
`AcceptedIsCanonical` and `RepresentationIsFree`. `ValidatorIsCalledRight` is the
type invariant: the validator is called with numbers wherever it compares, and
with no more elements than the limits permit.

**EvidenceBundle.** `PublishedIsWhole` depends on where complete bytes are kept:
`IInv` types the worktree and every commit with files that are complete
(`Stored`), says that the temporary file of a run about to replace a target is
complete (`Temporaries`), and that a process computes only with a subject and a
pipeline revision of the history (`Processes`), so that what it writes is a
file's payload. That some commit is the last to change the pipeline is a
minimum argument, `PipelineRevisionExists`. From it, for any number of runs,
files and edits: `PublishedWhole`, `TypeCorrect`. Assumed: the torn file is no
complete one.

**SubjectCapture and EvidenceBundle: where the evidence comes from.** A wheel
that holds every name once leaves an installer no choice, so the checks on what
is read are checks on what is installed (`AcceptedWheelIsTheSubject`); with the
checks on the environment and the executions an accepted capture of a commit ran
that commit's sources, and they keep the contract (`CaptureIsTheSubject`). `OInv`
follows that program through the process and its temporary file (`Holds`) to the
worktree and the commits: `EvidenceOrigin`. What a PASS is worth is `VInv`: a
process that is alone has seen the subject's sources, the pipeline and the files
before its position as they still are (`Seen`), since whoever else takes a step
ends its being alone. From it `PassIsVerifiable`; and because such a writer
found the worktree clean, the files it has not come to are as committed:
`NothingIsLost`.

**VisualBundle.** `IInv` says that what a process draws has kept the contract by
the time it draws (`Knows`): `MatrixIsTrue`, `TypeCorrect`. `VInv` says what a
run that is alone has seen of the disk (`Sees`): `VerdictIsRight`. Overlapping
runs need more than any one of them knows: `QInv` says, while no source or file
is edited and nobody is stopped, that all compute the same files, and that a
file one of them is done with is right unless another is about to fill it.
Once all have passed nobody is: `RunsAgree`.

**PathReader.** Proved in `CliProofs`, beside the other half of `cli.py`. What the call returns was never looked at as a whole, so the
invariant, `ReaderInv`, says what can be concluded from the stamps (`Followed`): the
descriptor stays on the inode `lstat` found, and as long as its stamp is the one
seen after opening, and no change shared a tick with another, what has been read
is a prefix of what the file holds. `Found` places that content among the
versions the path has named. `Held` is that an open descriptor has exactly one
holder, so that whichever of `CloseStream` and `Finally` finds it closes it, and
the other finds nothing: `NoDescriptorLeaks`, in which the only second close is
the one after `fdopen` failed late. From them `OutcomeIsTrue`,
`ReaderTypeCorrect`; `UInv` is the same for a call nobody disturbs:
`UndisturbedIsFaithful`.

**Cli.** Two parties write to a stream: `main` and the interpreter's last flush.
`IInv` says that what either delivers are the two halves of one record
(`Streamed`), that `main` writes a second record only to a stream that carried
none, and then with status 5 (`Planned`), and that a chosen status is either that
of a record delivered whole, or `INTERNAL_ERROR`, or that of a process with a
closed stream (`Settled`). From it `SuccessIsTrue` (for status 0 with any streams
open, for status 1 with the three open at the start), `RefusalQuiet`, `OneRecord`,
`TypeCorrect`.

**LegacyVerifier.** Two invariants, for the two things a verdict may be worth.
`IInv` holds whoever interferes: the files may be any files by the time they are
opened, so it speaks of what is in memory only. The manifest that is followed has
passed its own checks (`Listed`), the contents up to the loop's position are those
it lists (`Collected`), and the total is the number of fragments held, with room
for those of the entry being read (`Counted`). The check before the read is what
makes that room: an entry whose size is not the declared one is refused before
it is charged. From it `BudgetIsKept`; and, once the contract checks have found
nothing (`Passed`), `PassIsTrue`: both collections of `_validate_jpeg_contract`,
that of the bytes and that of the settings, equal what the manifest declares, all
of which is in `site.json` and no digest of which occurs twice, so that every
JPEG has its entry (`EveryJpegIsListed`) and every entry its count
(`EveryJpegIsCounted`). `AInv` holds while nobody interferes: what was read is the beginning of
what there is (`Followed`), and what the loop has come to agrees with the
manifest (`Matched`). So a check fails only in a directory that is not in order,
and when all have passed nothing is left that could be wrong: `VerdictIsRight`,
in both directions. A file that passed `lstat` and was not touched is no FIFO when
it is opened: `NeverWaitsAlone`.

Model-checked only: liveness and everything with fairness, which is out of the
prover's reach here, `<>Decided` of `ImplementsContract` among it (`ReportIsProduced`,
`CallReturns`, `ProcessExits`). Every invariant a run checks is also a theorem.

## Not modelled

- Rendering to JSON and digests: functions of the value encoded, without control
  of their own.
- The drawing of SVG, PNG and GIF in both generators, and the contracts the
  analysis generator checks on its own drawings: layout. That every picture shows
  one program's answers is modelled.
- The materialisation of the subject by `git archive`, the versions of Python,
  Git, pip and the renderer (`_validate_pipeline_versions` and the like): each
  ends the run before anything is written, which `CaptureSubject` may do anyway.
- Wording of messages; interrupts (`KeyboardInterrupt`) and adapters a caller of
  the library may pass to `main`.
- The HTML text parser and the patterns of the legacy verifier, whose findings
  are part of a content.
- The legacy data, the examples, tests, packaging and CI.

## Plan

What is left, most important first.

1. `Pipeline`: the outcomes of `PathReader`, `Codec`, `Validation` and
   `Analysis` behind the single steps of `Cli`, with `Cli` as its abstraction.
2. Proofs about `Pipeline`: that its steps are steps of `Cli`.
