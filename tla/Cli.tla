-------------------------------- MODULE Cli --------------------------------
(***************************************************************************)
(* cli.py, main: one process of the command, from its start to the status  *)
(* it exits with.  The standard streams may be closed, full or broken; the *)
(* interpreter flushes them once more when the process ends.               *)
(*                                                                         *)
(* What a stream receives is a sequence of pieces of records: a write that *)
(* fails may have delivered the first piece, and may have left the rest in *)
(* the stream's buffer.                                                    *)
(***************************************************************************)
EXTENDS Integers, Sequences, FiniteSets

CONSTANTS MaxInput,   \* MAX_INPUT_BYTES, in the pieces standard input comes in
          MaxPieces   \* _READ_CHUNK_BYTES, in the same pieces

ASSUME BoundsAssumption == MaxInput \in Nat /\ MaxPieces \in Nat \ {0}

VARIABLES
    argument,     \* "help", "invalid", "stdin" or "path"
    attached,     \* the standard streams that are open
    source,       \* standard input "ends", "breaks" or is "endless"
    pc,
    size,         \* how much of standard input has been read
    verdict,      \* the status of the report: "NONE", "ROBUST" or "SENSITIVE"
    record,       \* what is to be written, to which stream, and the status then
    sunk,         \* stream |-> the pieces that have left the process
    held,         \* stream |-> the pieces still in its buffer
    status,       \* the exit status, or Unknown
    writeFailed   \* history: a write of main failed

input   == <<argument, attached, source>>
streams == <<sunk, held>>
vars == <<argument, attached, source, pc, size, verdict, record, sunk, held,
          status, writeFailed>>

Streams == {"stdin", "stdout", "stderr"}

(* CliExitCode; 120 is the interpreter's own.                              *)
ROBUST             == 0
DURATION_SENSITIVE == 1
INVALID_INVOCATION == 2
CONTRACT_REJECTED  == 3
INPUT_UNAVAILABLE  == 4
INTERNAL_ERROR     == 5
Unknown            == -1
UncaughtException  == 1
FlushFailed        == 120

Pieces(name) == <<<<name, 1>>, <<name, 2>>>>

Record(stream, name, code) == [stream |-> stream, name |-> name, code |-> code]

NoRecord == Record("stderr", "nothing", Unknown)

(* main goes on to write a record ...                                      *)
Emit(stream, name, code) == /\ record' = Record(stream, name, code)
                            /\ pc' = "write"

(* ... of which the diagnostics are one JSON line on stderr.               *)
EmitError(name, code) == Emit("stderr", name, code)

EmitInternalError == EmitError("internal_error", INTERNAL_ERROR)

Init ==
    /\ argument \in {"help", "invalid", "stdin", "path"}
    /\ attached \in SUBSET Streams
    /\ source \in {"ends", "breaks", "endless"}
    /\ pc = "streams" /\ size = 0 /\ verdict = "NONE" /\ record = NoRecord
    /\ sunk = [s \in Streams |-> << >>] /\ held = [s \in Streams |-> << >>]
    /\ status = Unknown /\ writeFailed = FALSE

(* sys.stdin is None when the descriptor is closed, and has no buffer: the *)
(* interpreter prints the traceback if it can, and the status is 1.        *)
LookUpStreams ==
    /\ pc = "streams"
    /\ \/ /\ attached = Streams /\ pc' = "arguments"
          /\ UNCHANGED <<streams, status>>
       \/ /\ attached # Streams /\ pc' = "finalize"
          /\ status' = UncaughtException
          /\ \/ UNCHANGED streams
             \/ /\ "stderr" \in attached
                /\ sunk' = [sunk EXCEPT !["stderr"] = Pieces("traceback")]
                /\ UNCHANGED held
             \/ /\ "stderr" \in attached
                /\ held' = [held EXCEPT !["stderr"] = Pieces("traceback")]
                /\ UNCHANGED sunk
    /\ UNCHANGED <<input, size, verdict, record, writeFailed>>

ParseArguments ==
    /\ pc = "arguments"
    /\ \/ argument = "help" /\ Emit("stdout", "usage", ROBUST)
       \/ argument = "invalid" /\ EmitError("invalid_invocation", INVALID_INVOCATION)
       \/ argument \in {"stdin", "path"} /\ pc' = argument /\ UNCHANGED record
    /\ UNCHANGED <<input, size, verdict, streams, status, writeFailed>>

(* _read_stream_bounded: read until the end or until one piece too many.   *)
UnboundedLoop == TRUE

MayReadMore == size <= MaxInput

Smaller(m, n) == IF m <= n THEN m ELSE n

ReadChunk ==
    /\ pc = "stdin" /\ MayReadMore
    /\ \/ \E n \in 1..Smaller(MaxPieces, MaxInput + 1) :
             /\ size' = Smaller(size + n, MaxInput + 1)
             /\ UNCHANGED <<pc, record>>
       \/ /\ source = "ends" /\ pc' = "decode"
          /\ UNCHANGED <<size, record>>
       \/ /\ source = "breaks" /\ EmitError("input_unavailable", INPUT_UNAVAILABLE)
          /\ UNCHANGED size
    /\ UNCHANGED <<input, verdict, streams, status, writeFailed>>

RefuseLongInput ==
    /\ pc = "stdin" /\ ~MayReadMore
    /\ EmitError("input_too_large", CONTRACT_REJECTED)
    /\ UNCHANGED <<input, size, verdict, streams, status, writeFailed>>

(* _read_path_bounded ends in one of the ways PathReader shows.            *)
ReadPath ==
    /\ pc = "path"
    /\ \/ pc' = "decode" /\ UNCHANGED record
       \/ EmitError("input_too_large", CONTRACT_REJECTED)
       \/ EmitError("input_unavailable", INPUT_UNAVAILABLE)
       \/ EmitInternalError
    /\ UNCHANGED <<input, size, verdict, streams, status, writeFailed>>

Decode ==
    /\ pc = "decode"
    /\ \/ pc' = "analyze" /\ UNCHANGED record
       \/ EmitError("contract_error", CONTRACT_REJECTED)
       \/ EmitInternalError
    /\ UNCHANGED <<input, size, verdict, streams, status, writeFailed>>

StatusSwapped(v) == IF v = "ROBUST" THEN DURATION_SENSITIVE ELSE ROBUST

StatusOf(v) == IF v = "ROBUST" THEN ROBUST ELSE DURATION_SENSITIVE

(* analyze_interval_feasibility, the rendering and the check of its size.  *)
Analyze ==
    /\ pc = "analyze"
    /\ \/ \E v \in {"ROBUST", "SENSITIVE"} :
             verdict' = v /\ Emit("stdout", "report", StatusOf(v))
       \/ EmitError("contract_error", CONTRACT_REJECTED) /\ UNCHANGED verdict
       \/ EmitInternalError /\ UNCHANGED verdict
    /\ UNCHANGED <<input, size, streams, status, writeFailed>>

(* What comes of a record whose write failed: nothing more on stdout, one  *)
(* attempt at a diagnostic on stderr.                                      *)
TryAgain == pc' = "write" /\ UNCHANGED <<record, status>>

ReportAnyway == /\ status' = record.code /\ pc' = "finalize"
                /\ UNCHANGED record

AfterFailedWrite ==
    IF record.stream = "stdout"
      THEN EmitInternalError /\ UNCHANGED status
      ELSE status' = INTERNAL_ERROR /\ pc' = "finalize" /\ UNCHANGED record

(* _write and _try_write: the whole record is written and flushed, or the  *)
(* write or the flush fails on the way.                                    *)
WriteRecord ==
    /\ pc = "write"
    /\ LET s == record.stream
           p == Pieces(record.name)
       IN \/ /\ sunk' = [sunk EXCEPT ![s] = @ \o p]
             /\ status' = record.code /\ pc' = "finalize"
             /\ UNCHANGED <<held, record, writeFailed>>
          \/ /\ \E n \in 0..1, keeps \in BOOLEAN :
                   /\ sunk' = [sunk EXCEPT ![s] = @ \o SubSeq(p, 1, n)]
                   /\ held' = [held EXCEPT ![s] = IF keeps THEN SubSeq(p, n + 1, 2)
                                                           ELSE << >>]
             /\ writeFailed' = TRUE
             /\ AfterFailedWrite
    /\ UNCHANGED <<input, size, verdict>>

(* The interpreter flushes stdout, then stderr.                            *)
Finalize ==
    /\ pc = "finalize"
    /\ \E flushed \in SUBSET {s \in Streams : held[s] # << >>} :
          /\ sunk' = [s \in Streams |-> IF s \in flushed THEN sunk[s] \o held[s]
                                                         ELSE sunk[s]]
          /\ held' = [s \in Streams |-> << >>]
          /\ status' = IF \E s \in Streams \ flushed : held[s] # << >>
                         THEN FlushFailed ELSE status
    /\ pc' = "exited"
    /\ UNCHANGED <<input, size, verdict, record, writeFailed>>

Next ==
    \/ LookUpStreams \/ ParseArguments
    \/ ReadChunk \/ RefuseLongInput \/ ReadPath
    \/ Decode \/ Analyze
    \/ WriteRecord \/ Finalize

(* One process nothing holds up; standard input delivers data, ends or     *)
(* breaks.                                                                 *)
Spec == Init /\ [][Next]_vars /\ WF_vars(Next)

-----------------------------------------------------------------------------
(* Properties.                                                             *)

Exited == pc = "exited"

Names == {"nothing", "usage", "report", "traceback", "invalid_invocation",
          "input_unavailable", "input_too_large", "contract_error",
          "internal_error"}

(* Every variable has its type, a status is known exactly when the         *)
(* function has returned, and standard input is read to one piece past the *)
(* limit at most.                                                          *)
TypeOK ==
    /\ argument \in {"help", "invalid", "stdin", "path"}
    /\ attached \subseteq Streams /\ source \in {"ends", "breaks", "endless"}
    /\ pc \in {"streams", "arguments", "stdin", "path", "decode", "analyze",
               "write", "finalize", "exited"}
    /\ size \in 0..(MaxInput + 1)
    /\ pc \in {"decode", "analyze"} => size <= MaxInput
    /\ verdict \in {"NONE", "ROBUST", "SENSITIVE"}
    /\ record \in [stream: {"stdout", "stderr"}, name: Names, code: -1..5]
    /\ \A s \in Streams : {sunk[s], held[s]} \subseteq Seq(Names \X {1, 2})
    /\ status \in -1..5 \cup {FlushFailed}
    /\ status = Unknown <=> pc \notin {"finalize", "exited"}
    /\ writeFailed \in BOOLEAN

(* A status of success tells the truth, whatever reads and writes failed   *)
(* on the way: 0 comes with the complete usage text or a complete robust   *)
(* report, and 1 with a complete duration-sensitive report.  The exception *)
(* is 1 of a process that began with a standard stream closed: main then   *)
(* fails outside its try statement, and 1 is the status of the uncaught    *)
(* AttributeError too (ExitOneIsAModeledResult).                           *)
SuccessIsComplete ==
    Exited =>
    /\ status = ROBUST =>
          \/ sunk["stdout"] = Pieces("usage")
          \/ sunk["stdout"] = Pieces("report") /\ verdict = "ROBUST"
    /\ status = DURATION_SENSITIVE /\ attached = Streams =>
          sunk["stdout"] = Pieces("report") /\ verdict = "SENSITIVE"

(* The statuses 2, 3 and 4 come with a diagnostic that is complete, and    *)
(* nothing on stdout.                                                      *)
RefusalIsQuiet ==
    Exited /\ status \in {INVALID_INVOCATION, CONTRACT_REJECTED, INPUT_UNAVAILABLE} =>
    /\ sunk["stdout"] = << >>
    /\ sunk["stderr"] = Pieces(record.name)

IsPieceOf(s, name) == s \in {SubSeq(Pieces(name), 1, n) : n \in 0..2}

(* No stream ever carries more than one record, or the pieces of one in    *)
(* the wrong order: not even when a buffer left over from a failed write   *)
(* is flushed at the end, after the diagnostic.                            *)
OneRecordPerStream ==
    \A s \in Streams : \E name \in Names : IsPieceOf(sunk[s] \o held[s], name)

(* The process always ends, even when standard input does not.             *)
ProcessExits == <>Exited

(* docs/cli.md, line 66: "Exit 1 is a modeled result, not a malformed-     *)
(* input or internal-error signal."                                        *)
ExitOneIsAModeledResult ==
    Exited /\ status = DURATION_SENSITIVE => verdict = "SENSITIVE"

(* docs/cli.md, line 84: "Exit 5 also covers a failed or short output      *)
(* write", and the process status is authoritative.                        *)
FailedWriteIsExitFive == Exited /\ writeFailed => status = INTERNAL_ERROR
=============================================================================
