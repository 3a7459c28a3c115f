----------------------------- MODULE CliProofs ------------------------------
(***************************************************************************)
(* Proofs about cli.py.  Of Cli: what the exit status and the streams say  *)
(* about each other, for every limit and every chunk size.  A stream ends  *)
(* up with what two parties write to it, main and the interpreter's last   *)
(* flush, so the invariant keeps track of the one record that both pieces  *)
(* are of.                                                                 *)
(*                                                                         *)
(* Of PathReader, for any number of files, any limit and any changes by    *)
(* the other processes: the types, that no descriptor is left open, that   *)
(* what the call reports was true of one version of the file, and that an  *)
(* undisturbed call reports what is there.  ReaderInv follows the          *)
(* descriptor and the stamp: once it is open, the file that lstat found    *)
(* keeps its inode; a stamp that is as it was when the file was opened     *)
(* means, unless a change went unstamped, that the cells read so far are   *)
(* still the first ones of the file.                                       *)
(***************************************************************************)
EXTENDS Cli, PathReader, SequenceTheorems, TLAPS

-----------------------------------------------------------------------------
(* The two pieces of a record.                                             *)

Sent(name, n) == SubSeq(Pieces(name), 1, n)
Rest(name, n) == SubSeq(Pieces(name), n + 1, 2)

LEMMA PiecesSplit ==
  ASSUME NEW name \in Names, NEW n \in 0..2
  PROVE  /\ {Sent(name, n), Rest(name, n), Pieces(name), << >>} \subseteq Seq(Names \X {1, 2})
         /\ Sent(name, n) \o Rest(name, n) = Pieces(name)
         /\ Sent(name, n) \o << >> = Sent(name, n)
         /\ << >> \o Sent(name, n) = Sent(name, n)
         /\ << >> \o Pieces(name) = Pieces(name)
         /\ Sent(name, 0) = << >>
         /\ Sent(name, 2) = Pieces(name) /\ Rest(name, 0) = Pieces(name)
<1> DEFINE p == Pieces(name)
           S == Names \X {1, 2}
<1>1. p \in Seq(S) /\ Len(p) = 2
  BY DEF Pieces
<1>2. \A i \in 1..2 : p[i] \in S
  BY <1>1, ElementOfSeq
<1>3. SubSeq(p, 1, n) \in Seq(S) /\ SubSeq(p, n + 1, 2) \in Seq(S)
  <2>1. n \in Int /\ n + 1 \in Int /\ 1 \in Int /\ 2 \in Int
    OBVIOUS
  <2>2. (\A i \in 1..n : p[i] \in S) /\ (\A i \in (n + 1)..2 : p[i] \in S)
    BY <1>2
  <2> HIDE DEF p, S
  <2> QED  BY <2>1, <2>2, SubSeqProperties
<1>4. SubSeq(p, 1, n) \o SubSeq(p, n + 1, 2) = SubSeq(p, 1, 2)
  <2>1. 1 \in 1..(Len(p) + 1) /\ n \in (1 - 1)..Len(p) /\ 2 \in n..Len(p)
    BY <1>1
  <2> HIDE DEF p, S
  <2> QED  BY <1>1, <2>1, ConcatAdjacentSubSeq
<1>5. SubSeq(p, 1, 2) = p
  BY <1>1, SubSeqFull
<1>6. SubSeq(p, 1, 0) = << >>
  BY SubSeqEmpty
<1>7. << >> \in Seq(S)
  BY EmptySeq
<1>8. \A s \in Seq(S) : s \o << >> = s /\ << >> \o s = s
  BY ConcatEmptySeq
<1>9. SubSeq(p, 0 + 1, 2) = p
  BY <1>5
<1> QED  BY <1>1, <1>3, <1>4, <1>5, <1>6, <1>7, <1>8, <1>9 DEF Sent, Rest

-----------------------------------------------------------------------------
(* The invariant.                                                          *)

Traffic == Seq(Names \X {1, 2})

Buffers == sunk \in [Streams -> Traffic] /\ held \in [Streams -> Traffic]

Silent(s) == sunk[s] = << >> /\ held[s] = << >>

(* What a stream carries are the two halves of one record, of which the    *)
(* second may have been lost.                                              *)
Streamed(s) == \E name \in Names, n \in 0..2 : /\ sunk[s] = Sent(name, n)
                                               /\ held[s] \in {<< >>, Rest(name, n)}

Early == {"streams", "arguments", "stdin", "path", "decode", "analyze"}

(* A record on stdout is the usage or a report, with the status for it.    *)
Successful ==
    \/ record.name = "usage" /\ record.code = ROBUST
    \/ record.name = "report" /\ verdict # "NONE" /\ record.code = StatusOf(verdict)

(* main is about to write: either nothing has been written yet, or a       *)
(* record on stdout has failed and this is the diagnostic.                 *)
Planned ==
    /\ attached = Streams /\ Silent("stdin") /\ Silent("stderr")
    /\ \/ record.stream = "stdout" /\ Successful /\ Silent("stdout")
       \/ /\ record.stream = "stderr" /\ record.code \in 2..INTERNAL_ERROR
          /\ Silent("stdout") \/ record.code = INTERNAL_ERROR

Delivered ==
    /\ status = record.code
    /\ sunk[record.stream] = Pieces(record.name)
    /\ \A s \in Streams : held[s] = << >>
    /\ \/ record.stream = "stdout" /\ Successful
       \/ record.stream = "stderr" /\ sunk["stdout"] = << >> /\ status \in 2..INTERNAL_ERROR

(* main has chosen its status.                                             *)
Settled == \/ status = UncaughtException /\ attached # Streams
           \/ status \in {INTERNAL_ERROR, FlushFailed}
           \/ Delivered

Told == /\ \A s \in Streams : Streamed(s)
        /\ pc \in Early => /\ \A s \in Streams : Silent(s)
                           /\ pc # "streams" => attached = Streams
        /\ pc \in {"streams", "arguments", "path"} => size = 0
        /\ pc = "write" => Planned
        /\ pc \in {"finalize", "exited"} => Settled

IInv == TypeOK /\ Buffers /\ Told

LEMMA Initially == Init => IInv
<1> SUFFICES ASSUME Init PROVE IInv
  OBVIOUS
<1>1. << >> \in Traffic
  BY EmptySeq DEF Traffic
<1>2. \A s \in Streams : Silent(s)
  BY DEF Init, Silent, Streams
<1>3. Streams = {"stdin", "stdout", "stderr"} /\ "nothing" \in Names
  BY DEF Streams, Names
<1>4. TypeOK
  <2>1. record \in [stream : {"stdout", "stderr"}, name : Names, code : -1..5]
    BY <1>3 DEF Init, NoRecord, Record, Unknown
  <2>2. \A s \in Streams : {sunk[s], held[s]} \subseteq Traffic
    BY <1>1 DEF Init
  <2>3. size \in 0..(MaxInput + 1) /\ status \in -1..5 \cup {FlushFailed}
    BY BoundsAssumption DEF Init, Unknown
  <2> QED  BY <2>1, <2>2, <2>3 DEF Init, TypeOK, Traffic
<1>5. Buffers
  BY <1>1 DEF Init, Buffers
<1>6. \A s \in Streams : Streamed(s)
  BY <1>2, <1>3, PiecesSplit DEF Streamed, Silent
<1> QED  BY <1>2, <1>4, <1>5, <1>6 DEF IInv, Told, Init

-----------------------------------------------------------------------------
(* The steps.                                                              *)

(* main goes on without touching a stream, perhaps with a record to write. *)
LEMMA NothingWritten ==
  ASSUME IInv, pc \in Early \ {"streams"}, TypeOK', UNCHANGED <<attached, streams, status>>,
         pc' # "arguments", pc' = "path" => size' = 0,
         \/ pc' \in Early \ {"streams"}
         \/ pc' = "write" /\ record'.stream = "stdout" /\ Successful'
         \/ pc' = "write" /\ record'.stream = "stderr" /\ record'.code \in 2..INTERNAL_ERROR
  PROVE  IInv'
<1>1. attached = Streams /\ (\A s \in Streams : Silent(s))
  BY DEF IInv, Told
<1>2. attached' = Streams /\ (\A s \in Streams : Silent(s)' /\ Streamed(s)') /\ Buffers'
  BY <1>1 DEF streams, IInv, Told, Buffers, Streamed, Silent
<1>3. pc' \notin {"finalize", "exited"}
  BY DEF Early
<1>4. pc' = "write" => Planned'
  BY <1>2 DEF Planned, Streams, Early
<1> QED  BY <1>2, <1>3, <1>4 DEF IInv, Told

LEMMA EmitErrorPlans ==
  ASSUME NEW name \in Names, NEW code \in 2..INTERNAL_ERROR, EmitError(name, code)
  PROVE  /\ pc' = "write" /\ record'.stream = "stderr" /\ record'.code \in 2..INTERNAL_ERROR
         /\ record' \in [stream : {"stdout", "stderr"}, name : Names, code : -1..5]
  BY DEF EmitError, Emit, Record, INTERNAL_ERROR

LEMMA Diagnostics ==
  /\ {"invalid_invocation", "input_too_large", "input_unavailable", "contract_error",
      "internal_error"} \subseteq Names
  /\ {INVALID_INVOCATION, CONTRACT_REJECTED, INPUT_UNAVAILABLE, INTERNAL_ERROR}
        \subseteq 2..INTERNAL_ERROR
  BY DEF Names, INVALID_INVOCATION, CONTRACT_REJECTED, INPUT_UNAVAILABLE, INTERNAL_ERROR

(* TypeOK where nothing but the state of main's own progress changes.      *)
LEMMA TypesKept ==
  ASSUME TypeOK, UNCHANGED <<input, streams, status, writeFailed>>,
         pc \notin {"finalize", "exited"},
         pc' \in {"arguments", "stdin", "path", "decode", "analyze", "write"},
         size' \in 0..(MaxInput + 1), pc' \in {"decode", "analyze"} => size' <= MaxInput,
         verdict' \in {"NONE", "ROBUST", "SENSITIVE"},
         record' \in [stream : {"stdout", "stderr"}, name : Names, code : -1..5]
  PROVE  TypeOK'
  BY DEF TypeOK, input, streams

LEMMA ParseArgumentsKeeps == IInv /\ ParseArguments => IInv'
<1> SUFFICES ASSUME IInv, ParseArguments PROVE IInv'
  OBVIOUS
<1>1. UNCHANGED <<input, size, verdict, streams, status, writeFailed>> /\ pc = "arguments"
  BY DEF ParseArguments
<1>2. \/ /\ pc' = "write" /\ record'.stream = "stdout" /\ Successful'
         /\ record' \in [stream : {"stdout", "stderr"}, name : Names, code : -1..5]
      \/ /\ pc' = "write" /\ record'.stream = "stderr" /\ record'.code \in 2..INTERNAL_ERROR
         /\ record' \in [stream : {"stdout", "stderr"}, name : Names, code : -1..5]
      \/ pc' \in {"stdin", "path"} /\ record' = record
  <2>1. CASE argument = "help" /\ Emit("stdout", "usage", ROBUST)
    BY <2>1 DEF Emit, Record, Successful, ROBUST, Names
  <2>2. CASE EmitError("invalid_invocation", INVALID_INVOCATION)
    BY <2>2, Diagnostics, EmitErrorPlans
  <2> QED  BY <2>1, <2>2 DEF ParseArguments
<1>3. TypeOK'
  BY <1>1, <1>2, TypesKept DEF IInv, TypeOK
<1> QED  BY <1>1, <1>2, <1>3, NothingWritten DEF Early, input, IInv, Told

LEMMA ReadChunkKeeps == IInv /\ ReadChunk => IInv'
<1> SUFFICES ASSUME IInv, ReadChunk PROVE IInv'
  OBVIOUS
<1>1. UNCHANGED <<input, verdict, streams, status, writeFailed>> /\ pc = "stdin" /\ size <= MaxInput
  BY DEF ReadChunk, MayReadMore
<1>2. size \in Nat /\ MaxInput \in Nat /\ MaxPieces \in Nat
  BY BoundsAssumption DEF IInv, TypeOK
<1>3. /\ size' \in 0..(MaxInput + 1)
      /\ \/ pc' = pc /\ record' = record
         \/ pc' = "decode" /\ record' = record /\ size' = size
         \/ /\ pc' = "write" /\ record'.stream = "stderr" /\ record'.code \in 2..INTERNAL_ERROR
            /\ record' \in [stream : {"stdout", "stderr"}, name : Names, code : -1..5]
  <2>1. CASE \E n \in 1..Smaller(MaxPieces, MaxInput + 1) :
                /\ size' = Smaller(size + n, MaxInput + 1)
                /\ UNCHANGED <<pc, record>>
    <3>1. PICK n \in 1..Smaller(MaxPieces, MaxInput + 1) : size' = Smaller(size + n, MaxInput + 1)
      BY <2>1
    <3>2. size' \in 0..(MaxInput + 1)
      BY <1>2, <3>1 DEF Smaller
    <3> QED  BY <2>1, <3>2
  <2>2. CASE UNCHANGED <<size, record>> /\ pc' = "decode"
    BY <1>1, <1>2, <2>2
  <2>3. CASE EmitError("input_unavailable", INPUT_UNAVAILABLE) /\ UNCHANGED size
    BY <1>1, <1>2, <2>3, Diagnostics, EmitErrorPlans
  <2> QED  BY <2>1, <2>2, <2>3 DEF ReadChunk
<1>4. TypeOK'
  BY <1>1, <1>3, TypesKept DEF IInv, TypeOK
<1> QED  BY <1>1, <1>3, <1>4, NothingWritten DEF Early, input

(* The steps that end in a single diagnostic or hand on.                   *)
LEMMA RefuseLongInputKeeps == IInv /\ RefuseLongInput => IInv'
<1> SUFFICES ASSUME IInv, RefuseLongInput PROVE IInv'
  OBVIOUS
<1>1. /\ UNCHANGED <<input, size, verdict, streams, status, writeFailed>> /\ pc = "stdin"
      /\ EmitError("input_too_large", CONTRACT_REJECTED)
  BY DEF RefuseLongInput
<1>2. /\ pc' = "write" /\ record'.stream = "stderr" /\ record'.code \in 2..INTERNAL_ERROR
      /\ record' \in [stream : {"stdout", "stderr"}, name : Names, code : -1..5]
  BY <1>1, Diagnostics, EmitErrorPlans
<1>3. TypeOK'
  BY <1>1, <1>2, TypesKept DEF IInv, TypeOK
<1> QED  BY <1>1, <1>2, <1>3, NothingWritten DEF Early, input

LEMMA ReadPathKeeps == IInv /\ ReadPath => IInv'
<1> SUFFICES ASSUME IInv, ReadPath PROVE IInv'
  OBVIOUS
<1>1. UNCHANGED <<input, size, verdict, streams, status, writeFailed>> /\ pc = "path"
  BY DEF ReadPath
<1>2. \/ pc' = "decode" /\ record' = record
      \/ /\ pc' = "write" /\ record'.stream = "stderr" /\ record'.code \in 2..INTERNAL_ERROR
         /\ record' \in [stream : {"stdout", "stderr"}, name : Names, code : -1..5]
  BY Diagnostics, EmitErrorPlans DEF ReadPath, EmitInternalError
<1>3. size' = 0 /\ size' <= MaxInput
  BY <1>1, BoundsAssumption DEF IInv, Told
<1>4. TypeOK'
  BY <1>1, <1>2, <1>3, TypesKept DEF IInv, TypeOK
<1> QED  BY <1>1, <1>2, <1>4, NothingWritten DEF Early, input

LEMMA DecodeKeeps == IInv /\ Decode => IInv'
<1> SUFFICES ASSUME IInv, Decode PROVE IInv'
  OBVIOUS
<1>1. UNCHANGED <<input, size, verdict, streams, status, writeFailed>> /\ pc = "decode"
  BY DEF Decode
<1>2. \/ pc' = "analyze" /\ record' = record
      \/ /\ pc' = "write" /\ record'.stream = "stderr" /\ record'.code \in 2..INTERNAL_ERROR
         /\ record' \in [stream : {"stdout", "stderr"}, name : Names, code : -1..5]
  BY Diagnostics, EmitErrorPlans DEF Decode, EmitInternalError
<1>3. TypeOK'
  BY <1>1, <1>2, TypesKept DEF IInv, TypeOK
<1> QED  BY <1>1, <1>2, <1>3, NothingWritten DEF Early, input

LEMMA AnalyzeKeeps == IInv /\ Analyze => IInv'
<1> SUFFICES ASSUME IInv, Analyze PROVE IInv'
  OBVIOUS
<1>1. UNCHANGED <<input, size, streams, status, writeFailed>> /\ pc = "analyze"
  BY DEF Analyze
<1>2. /\ pc' = "write" /\ verdict' \in {"NONE", "ROBUST", "SENSITIVE"}
      /\ record' \in [stream : {"stdout", "stderr"}, name : Names, code : -1..5]
      /\ \/ record'.stream = "stdout" /\ Successful'
         \/ record'.stream = "stderr" /\ record'.code \in 2..INTERNAL_ERROR
  <2>1. CASE \E v \in {"ROBUST", "SENSITIVE"} :
                verdict' = v /\ Emit("stdout", "report", StatusOf(v))
    BY <2>1 DEF Emit, Record, Successful, StatusOf, ROBUST, DURATION_SENSITIVE, Names
  <2>2. CASE UNCHANGED verdict /\ \/ EmitError("contract_error", CONTRACT_REJECTED)
                                  \/ EmitInternalError
    BY <2>2, Diagnostics, EmitErrorPlans DEF EmitInternalError, IInv, TypeOK
  <2> QED  BY <2>1, <2>2 DEF Analyze
<1>3. TypeOK'
  BY <1>1, <1>2, TypesKept DEF IInv, TypeOK
<1> QED  BY <1>1, <1>2, <1>3, NothingWritten DEF Early, input

LEMMA LookUpStreamsKeeps == IInv /\ LookUpStreams => IInv'
<1> SUFFICES ASSUME IInv, LookUpStreams PROVE IInv'
  OBVIOUS
<1>1. /\ UNCHANGED <<input, size, verdict, record, writeFailed>> /\ pc = "streams" /\ size = 0
      /\ \A s \in Streams : Silent(s)
  BY DEF LookUpStreams, IInv, Told, Early
<1>2. "stderr" \in Streams /\ "traceback" \in Names /\ << >> \in Traffic
  BY EmptySeq DEF Streams, Names, Traffic
<1>3. Sent("traceback", 0) = << >> /\ Rest("traceback", 0) = Pieces("traceback")
      /\ Sent("traceback", 2) = Pieces("traceback") /\ Pieces("traceback") \in Traffic
  BY <1>2, PiecesSplit DEF Traffic
<1>4. \A s \in Streams : Silent(s)' => Streamed(s)'
  BY <1>2, PiecesSplit DEF Silent, Streamed
<1>5. CASE attached = Streams /\ pc' = "arguments" /\ UNCHANGED <<streams, status>>
  <2>1. (\A s \in Streams : Silent(s)') /\ Buffers' /\ TypeOK'
    BY <1>1, <1>5 DEF streams, input, IInv, TypeOK, Buffers, Silent
  <2> QED  BY <1>1, <1>4, <1>5, <2>1 DEF input, IInv, Told, Early
<1>6. CASE attached # Streams /\ pc' = "finalize" /\ status' = UncaughtException
           /\ \/ UNCHANGED streams
              \/ sunk' = [sunk EXCEPT !["stderr"] = Pieces("traceback")] /\ UNCHANGED held
              \/ held' = [held EXCEPT !["stderr"] = Pieces("traceback")] /\ UNCHANGED sunk
  <2>1. Buffers'
    BY <1>2, <1>3, <1>6 DEF Buffers, IInv, streams
  <2>2. \A s \in Streams : Streamed(s)'
    <3> SUFFICES ASSUME NEW s \in Streams PROVE Streamed(s)'
      OBVIOUS
    <3>1. sunk[s] = << >> /\ held[s] = << >>
      BY <1>1 DEF Silent
    <3>2. \/ sunk'[s] = << >> /\ held'[s] \in {<< >>, Pieces("traceback")}
          \/ sunk'[s] = Pieces("traceback") /\ held'[s] = << >>
      BY <1>6, <3>1 DEF IInv, Buffers, streams
    <3>3. 0 \in 0..2 /\ 2 \in 0..2
      OBVIOUS
    <3> QED  BY <1>2, <1>3, <3>2, <3>3 DEF Streamed
  <2>3. TypeOK'
    <3>1. \A s \in Streams : {sunk'[s], held'[s]} \subseteq Traffic
      BY <2>1 DEF Buffers
    <3>2. status' \in -1..5 /\ status' # Unknown
      BY <1>6 DEF UncaughtException, Unknown
    <3> QED  BY <1>1, <1>6, <3>1, <3>2 DEF IInv, TypeOK, input, Traffic
  <2> QED  BY <1>1, <1>6, <2>1, <2>2, <2>3 DEF IInv, Told, Settled, Early, input
<1> QED  BY <1>5, <1>6 DEF LookUpStreams

(* A record that is written whole settles the status; one that is not is   *)
(* followed by a diagnostic, or ends the process with INTERNAL_ERROR.      *)
LEMMA WriteRecordKeeps == IInv /\ WriteRecord => IInv'
<1> SUFFICES ASSUME IInv, WriteRecord PROVE IInv'
  OBVIOUS
<1>0. PICK s, name : s = record.stream /\ name = record.name
  OBVIOUS
<1>1. UNCHANGED <<input, size, verdict>> /\ pc = "write" /\ Planned
  BY DEF WriteRecord, IInv, Told
<1>2. /\ s \in {"stdout", "stderr"} /\ name \in Names /\ record.code \in -1..5
      /\ s \in Streams /\ "stdout" \in Streams /\ Silent(s)
  BY <1>0, <1>1 DEF IInv, TypeOK, Planned, Streams
<1>3. /\ sunk[s] = << >> /\ held[s] = << >>
      /\ \A n \in 0..2 : /\ {Sent(name, n), Rest(name, n), Pieces(name), << >>} \subseteq Traffic
                         /\ << >> \o Sent(name, n) = Sent(name, n)
      /\ << >> \o Pieces(name) = Pieces(name) /\ Sent(name, 2) = Pieces(name)
  BY <1>2, PiecesSplit DEF Silent, Traffic
<1>4. ASSUME NEW n \in 0..2, sunk'[s] = Sent(name, n), held'[s] \in {<< >>, Rest(name, n)},
             \A x \in Streams \ {s} : sunk'[x] = sunk[x] /\ held'[x] = held[x]
      PROVE  \A x \in Streams : Streamed(x)'
  <2>1. Streamed(s)'
    BY <1>2, <1>4 DEF Streamed
  <2>2. \A x \in Streams \ {s} : Streamed(x)'
    BY <1>4 DEF Streamed, IInv, Told
  <2> QED  BY <2>1, <2>2
<1>5. CASE /\ sunk' = [sunk EXCEPT ![s] = @ \o Pieces(name)]
           /\ status' = record.code /\ pc' = "finalize"
           /\ UNCHANGED <<held, record, writeFailed>>
  <2>1. /\ sunk'[s] = Pieces(name) /\ held'[s] = << >>
        /\ \A x \in Streams \ {s} : sunk'[x] = sunk[x] /\ held'[x] = held[x]
    BY <1>2, <1>3, <1>5 DEF IInv, Buffers
  <2>2. Buffers'
    BY <1>2, <1>3, <1>5 DEF IInv, Buffers
  <2>3. \A x \in Streams : Streamed(x)'
    BY <1>3, <1>4, <2>1
  <2>4. record.code # Unknown
    BY <1>0, <1>1 DEF Planned, Successful, StatusOf, Unknown, ROBUST, DURATION_SENSITIVE
  <2>5. TypeOK'
    <3>1. \A x \in Streams : {sunk'[x], held'[x]} \subseteq Traffic
      BY <2>2 DEF Buffers
    <3> QED  BY <1>0, <1>1, <1>2, <1>5, <2>4, <3>1 DEF IInv, TypeOK, input, Traffic
  <2>6. Settled'
    <3>1. CASE s = "stdout"
      <4>1. \A x \in Streams : held[x] = << >>
        BY <1>0, <1>1, <3>1 DEF Planned, Silent, Streams
      <4>2. Delivered'
        BY <1>0, <1>1, <1>5, <2>1, <3>1, <4>1 DEF Planned, Delivered, Successful
      <4> QED  BY <4>2 DEF Settled
    <3>2. CASE s = "stderr" /\ Silent("stdout")
      <4>1. \A x \in Streams : held[x] = << >>
        BY <1>0, <1>1, <3>2 DEF Planned, Silent, Streams
      <4>2. sunk'["stdout"] = << >> /\ record.code \in 2..INTERNAL_ERROR
        BY <1>0, <1>1, <1>2, <2>1, <3>2 DEF Planned, Silent
      <4>3. Delivered'
        BY <1>0, <1>5, <2>1, <3>2, <4>1, <4>2 DEF Delivered
      <4> QED  BY <4>3 DEF Settled
    <3>3. CASE record.code = INTERNAL_ERROR
      BY <1>5, <3>3 DEF Settled
    <3> QED  BY <1>0, <1>1, <3>1, <3>2, <3>3 DEF Planned
  <2> QED  BY <1>0, <1>5, <2>2, <2>3, <2>5, <2>6 DEF IInv, Told, Early
<1>6. CASE /\ \E n \in 0..1, keeps \in BOOLEAN :
                 /\ sunk' = [sunk EXCEPT ![s] = @ \o SubSeq(Pieces(name), 1, n)]
                 /\ held' = [held EXCEPT ![s] = IF keeps THEN SubSeq(Pieces(name), n + 1, 2)
                                                         ELSE << >>]
           /\ writeFailed' = TRUE
           /\ AfterFailedWrite
  <2>1. PICK n \in 0..1, keeps \in BOOLEAN :
                 /\ sunk' = [sunk EXCEPT ![s] = @ \o Sent(name, n)]
                 /\ held' = [held EXCEPT ![s] = IF keeps THEN Rest(name, n) ELSE << >>]
    BY <1>6 DEF Sent, Rest
  <2>2. n \in 0..2
    OBVIOUS
  <2>3. /\ sunk'[s] = Sent(name, n) /\ held'[s] \in {<< >>, Rest(name, n)}
        /\ \A x \in Streams \ {s} : sunk'[x] = sunk[x] /\ held'[x] = held[x]
    BY <1>2, <1>3, <2>1, <2>2 DEF IInv, Buffers
  <2>4. Buffers'
    BY <1>2, <1>3, <2>1, <2>2, <2>3 DEF IInv, Buffers
  <2>5. \A x \in Streams : Streamed(x)'
    BY <1>4, <2>2, <2>3
  <2>6. \/ /\ s = "stdout" /\ pc' = "write" /\ record'.stream = "stderr"
           /\ record'.code = INTERNAL_ERROR /\ status' = status
           /\ record' \in [stream : {"stdout", "stderr"}, name : Names, code : -1..5]
        \/ s = "stderr" /\ pc' = "finalize" /\ status' = INTERNAL_ERROR /\ record' = record
    BY <1>0, <1>2, <1>6 DEF AfterFailedWrite, EmitInternalError, EmitError, Emit, Record, Names,
                      INTERNAL_ERROR
  <2>7. TypeOK'
    <3>1. \A x \in Streams : {sunk'[x], held'[x]} \subseteq Traffic
      BY <2>4 DEF Buffers
    <3>2. INTERNAL_ERROR \in -1..5 /\ INTERNAL_ERROR # Unknown
      BY DEF INTERNAL_ERROR, Unknown
    <3> QED  BY <1>0, <1>1, <1>6, <2>6, <3>1, <3>2 DEF IInv, TypeOK, input, Traffic
  <2>8. pc' = "write" => Planned'
    <3>1. INTERNAL_ERROR \in 2..INTERNAL_ERROR
      BY DEF INTERNAL_ERROR
    <3> QED  BY <1>0, <1>1, <2>3, <2>6, <3>1 DEF Planned, Silent, Streams, input
  <2>9. pc' = "finalize" => Settled'
    BY <2>6 DEF Settled
  <2> QED  BY <2>4, <2>5, <2>6, <2>7, <2>8, <2>9 DEF IInv, Told, Early
<1> QED  BY <1>0, <1>5, <1>6 DEF WriteRecord

(* The last flush leaves a settled status alone or replaces it by its own. *)
LEMMA FinalizeKeeps == IInv /\ Finalize => IInv'
<1> SUFFICES ASSUME IInv, Finalize PROVE IInv'
  OBVIOUS
<1>1. /\ UNCHANGED <<input, size, verdict, record, writeFailed>> /\ pc = "finalize"
      /\ pc' = "exited" /\ Settled
  BY DEF Finalize, IInv, Told
<1>2. PICK flushed \in SUBSET {s \in Streams : held[s] # << >>} :
        /\ sunk' = [s \in Streams |-> IF s \in flushed THEN sunk[s] \o held[s] ELSE sunk[s]]
        /\ held' = [s \in Streams |-> << >>]
        /\ status' = IF \E s \in Streams \ flushed : held[s] # << >>
                       THEN FlushFailed ELSE status
  BY DEF Finalize
<1>3. ASSUME NEW s \in Streams
      PROVE  Streamed(s)' /\ sunk'[s] \in Traffic /\ held'[s] = << >> /\ << >> \in Traffic
  <2>1. PICK name \in Names, n \in 0..2 : /\ sunk[s] = Sent(name, n)
                                          /\ held[s] \in {<< >>, Rest(name, n)}
    BY DEF IInv, Told, Streamed
  <2>2. held'[s] = << >> /\ sunk'[s] \in {Sent(name, n), Pieces(name)}
    BY <1>2, <2>1, PiecesSplit
  <2>3. sunk'[s] = Sent(name, n) \/ sunk'[s] = Sent(name, 2)
    BY <2>2, PiecesSplit
  <2>4. n \in 0..2 /\ 2 \in 0..2
    OBVIOUS
  <2>5. Streamed(s)'
    BY <2>2, <2>3, <2>4 DEF Streamed
  <2> QED  BY <2>2, <2>5, PiecesSplit DEF Traffic
<1>4. Buffers'
  BY <1>2, <1>3 DEF Buffers
<1>5. status' \in {status, FlushFailed}
  BY <1>2
<1>6. TypeOK'
  <2>1. \A s \in Streams : {sunk'[s], held'[s]} \subseteq Traffic
    BY <1>3
  <2>2. FlushFailed # Unknown
    BY DEF FlushFailed, Unknown
  <2> QED  BY <1>1, <1>5, <2>1, <2>2 DEF IInv, TypeOK, input, Traffic
<1>7. Settled'
  <2>1. CASE status' = FlushFailed
    BY <2>1 DEF Settled
  <2>2. CASE status' = status /\ Delivered
    <3>1. \A s \in Streams : s \notin flushed
      BY <2>2 DEF Delivered
    <3>2. \A s \in Streams : sunk'[s] = sunk[s] /\ held'[s] = << >>
      BY <1>2, <3>1
    <3>3. record.stream \in Streams /\ "stdout" \in Streams
      BY DEF IInv, TypeOK, Streams
    <3>4. Delivered'
      BY <1>1, <2>2, <3>2, <3>3 DEF Delivered, Successful
    <3> QED  BY <3>4 DEF Settled
  <2>3. CASE status' = status /\ ~Delivered
    BY <1>1, <2>3 DEF Settled, input
  <2> QED  BY <1>5, <2>1, <2>2, <2>3
<1> QED  BY <1>1, <1>3, <1>4, <1>6, <1>7 DEF IInv, Told, Early

LEMMA Inductive == IInv /\ [Next]_vars => IInv'
<1> SUFFICES ASSUME IInv, [Next]_vars PROVE IInv'
  OBVIOUS
<1>1. CASE UNCHANGED vars
  BY <1>1 DEF vars, IInv, TypeOK, Buffers, Told, Streamed, Silent, Planned, Settled, Delivered,
              Successful
<1> QED  BY <1>1, LookUpStreamsKeeps, ParseArgumentsKeeps, ReadChunkKeeps, RefuseLongInputKeeps,
            ReadPathKeeps, DecodeKeeps, AnalyzeKeeps, WriteRecordKeeps, FinalizeKeeps DEF Next

LEMMA Invariance == Spec => []IInv
  BY Initially, Inductive, PTL DEF Spec

-----------------------------------------------------------------------------
(* What follows.                                                           *)

(* Every variable has its type; standard input is read to one piece past   *)
(* the limit at most, and no more than the limit of it is decoded.         *)
THEOREM TypeCorrect == Spec => []TypeOK
<1>1. IInv => TypeOK
  BY DEF IInv
<1> QED  BY <1>1, Invariance, PTL

(* No stream carries more than one record, or a record's pieces in the     *)
(* wrong order, whatever is flushed when.                                  *)
THEOREM OneRecord == Spec => []OneRecordPerStream
<1>1. IInv => OneRecordPerStream
  <2> SUFFICES ASSUME IInv, NEW s \in Streams
               PROVE  \E name \in Names : IsPieceOf(sunk[s] \o held[s], name)
    BY DEF OneRecordPerStream
  <2>1. PICK name \in Names, n \in 0..2 : /\ sunk[s] = Sent(name, n)
                                          /\ held[s] \in {<< >>, Rest(name, n)}
    BY DEF IInv, Told, Streamed
  <2>2. sunk[s] \o held[s] = Sent(name, n) \/ sunk[s] \o held[s] = Sent(name, 2)
    BY <2>1, PiecesSplit
  <2>3. n \in 0..2 /\ 2 \in 0..2
    OBVIOUS
  <2> QED  BY <2>2, <2>3 DEF IsPieceOf, Sent
<1> QED  BY <1>1, Invariance, PTL

LEMMA StatusesDiffer ==
  /\ INTERNAL_ERROR = 5 /\ FlushFailed = 120 /\ UncaughtException = 1
  /\ ROBUST = 0 /\ DURATION_SENSITIVE = 1
  /\ INVALID_INVOCATION = 2 /\ CONTRACT_REJECTED = 3 /\ INPUT_UNAVAILABLE = 4
  BY DEF INTERNAL_ERROR, FlushFailed, UncaughtException, ROBUST, DURATION_SENSITIVE,
         INVALID_INVOCATION, CONTRACT_REJECTED, INPUT_UNAVAILABLE

(* Status 0 tells the truth about a complete record on stdout whatever     *)
(* streams were open, and status 1 when all three were.                    *)
THEOREM SuccessIsTrue == Spec => []SuccessIsComplete
<1>1. IInv => SuccessIsComplete
  <2> SUFFICES ASSUME IInv, Exited,
                      status = ROBUST \/ (status = DURATION_SENSITIVE /\ attached = Streams)
               PROVE  /\ status = ROBUST =>
                            \/ sunk["stdout"] = Pieces("usage")
                            \/ sunk["stdout"] = Pieces("report") /\ verdict = "ROBUST"
                      /\ status = DURATION_SENSITIVE =>
                            sunk["stdout"] = Pieces("report") /\ verdict = "SENSITIVE"
    BY DEF SuccessIsComplete
  <2>1. Delivered
    BY StatusesDiffer DEF IInv, Told, Exited, Settled
  <2>2. /\ status = record.code /\ Successful
        /\ sunk["stdout"] = Pieces(record.name)
    BY <2>1, StatusesDiffer DEF Delivered
  <2>3. verdict \in {"NONE", "ROBUST", "SENSITIVE"}
    BY DEF IInv, TypeOK
  <2> QED  BY <2>2, <2>3, StatusesDiffer DEF Successful, StatusOf
<1> QED  BY <1>1, Invariance, PTL

(* A refusal comes with its complete diagnostic, and nothing on stdout.    *)
THEOREM RefusalQuiet == Spec => []RefusalIsQuiet
<1>1. IInv => RefusalIsQuiet
  <2> SUFFICES ASSUME IInv, Exited,
                      status \in {INVALID_INVOCATION, CONTRACT_REJECTED, INPUT_UNAVAILABLE}
               PROVE  sunk["stdout"] = << >> /\ sunk["stderr"] = Pieces(record.name)
    BY DEF RefusalIsQuiet
  <2>1. Delivered
    BY StatusesDiffer DEF IInv, Told, Exited, Settled
  <2>2. ~Successful \/ record.stream = "stderr"
    BY <2>1, StatusesDiffer DEF Delivered, Successful, StatusOf
  <2> QED  BY <2>1, <2>2 DEF Delivered
<1> QED  BY <1>1, Invariance, PTL

-----------------------------------------------------------------------------
(* PathReader: what the reader has found and followed.                     *)

IsPrefixOf(s, t) == Len(s) <= Len(t) /\ \A c \in 1..Len(s) : s[c] = t[c]

Looking == {"open", "fstat", "adopt", "read", "compare"}

Reading == {"adopt", "read", "compare"}

(* The file that was found, as long as nobody replaced it.                 *)
Found ==
    /\ call = "lstat" => fd = Nothing /\ payload = << >>
    /\ call \in Looking =>
            /\ before \in Inodes
            /\ files[before].kind = "regular" => files[before].data \in seen
    /\ call \in {"open", "fstat", "adopt"} => payload = << >>
    /\ call \in {"fstat"} \cup Reading => fd \in Inodes
    /\ call \notin {"exit", "done"} => result = "PENDING"

(* The file that was opened and what has been read of it.                  *)
Followed ==
    /\ \A i \in Inodes : files[i].stamp <= changes
    /\ call \in Reading =>
            /\ fd = before /\ files[fd].kind = "regular"
            /\ opened.stamp <= files[fd].stamp
            /\ ~sameTick /\ files[fd].stamp = opened.stamp => IsPrefixOf(payload, files[fd].data)
            /\ TooLarge(Len(payload)) => \E d \in seen : TooLarge(Len(d))

(* Who closes the descriptor, at every point of the call.                  *)
Held ==
    /\ call \in {"lstat", "open"} => holders = {} /\ fd = Nothing
    /\ call \in {"fstat", "adopt"} => holders = {"function"}
    /\ call \in {"read", "compare"} => holders = {"stream"}
    /\ call = "exit" => \/ holders = {} /\ fd = Nothing
                        \/ holders = {"stream"}
                        \/ holders = {"function"} /\ (fd = Nothing => taken)
    /\ call = "done" => fd = Nothing
    /\ twice => taken
    /\ taken => failed

ReaderInv == ReaderTypeOK /\ Held /\ OutcomeWasTrue /\ Found /\ Followed

-----------------------------------------------------------------------------
(* Contents of files.                                                      *)

LEMMA ContentIsSequence ==
  ASSUME NEW n \in Nat, NEW d \in Contents(n)
  PROVE  d \in Seq(0..n) /\ Len(d) \in 0..(MaxCells + 1) /\ DOMAIN d = 1..Len(d)
<1>1. PICK l \in 0..(MaxCells + 1) : d \in [1..l -> 0..n]
  BY DEF Contents
<1>2. l \in Nat
  BY <1>1, CellsAssumption
<1>3. d \in Seq(0..n) /\ Len(d) = l
  BY <1>1, <1>2
<1> QED  BY <1>1, <1>3

LEMMA SequenceIsContent ==
  ASSUME NEW n \in Nat, NEW d \in Seq(0..n), Len(d) <= MaxCells + 1
  PROVE  d \in Contents(n)
<1>1. Len(d) \in 0..(MaxCells + 1) /\ d \in [1..Len(d) -> 0..n]
  BY CellsAssumption, LenProperties
<1> QED  BY <1>1 DEF Contents

LEMMA ContentsGrow ==
  ASSUME NEW m \in Nat, NEW n \in Nat, m <= n
  PROVE  Contents(m) \subseteq Contents(n)
<1> SUFFICES ASSUME NEW d \in Contents(m) PROVE d \in Contents(n)
  OBVIOUS
<1>1. PICK l \in 0..(MaxCells + 1) : d \in [1..l -> 0..m]
  BY DEF Contents
<1>2. d \in [1..l -> 0..n]
  BY <1>1
<1> QED  BY <1>2 DEF Contents

(* What a change makes of a content is a content.                          *)
LEMMA RewritesAreContents ==
  ASSUME NEW n \in 1..MaxChanges, NEW d, NEW e \in Rewrites(d, n)
  PROVE  e \in Contents(MaxChanges)
<1>1. e \in Contents(n) /\ n \in Nat /\ MaxChanges \in Nat /\ n <= MaxChanges
  BY CellsAssumption DEF Rewrites
<1> QED  BY <1>1, ContentsGrow

LEMMA EmptyIsContent == << >> \in Contents(MaxChanges)
<1>1. PICK d : d = << >>
  OBVIOUS
<1>2. d \in Seq(0..MaxChanges) /\ Len(d) = 0
  BY <1>1, EmptySeq
<1>3. Len(d) <= MaxCells + 1 /\ MaxChanges \in Nat
  BY <1>2, CellsAssumption
<1>4. d \in Contents(MaxChanges)
  BY <1>2, <1>3, SequenceIsContent
<1> QED  BY <1>1, <1>4

(* A read appends the next cells of the file.                              *)
LEMMA ReadExtendsPrefix ==
  ASSUME NEW s \in Seq(0..MaxChanges), NEW t \in Seq(0..MaxChanges), NEW n \in Nat,
         Len(s) < n, n <= Len(t)
  PROVE  LET u == s \o SubSeq(t, Len(s) + 1, n)
         IN  /\ u \in Seq(0..MaxChanges) /\ Len(u) = n
             /\ IsPrefixOf(s, t) => IsPrefixOf(u, t)
<1> DEFINE m == Len(s)
           rest == SubSeq(t, m + 1, n)
           u == s \o rest
<1>1. m \in Nat /\ Len(t) \in Nat /\ m + 1 \in 1..Len(t) /\ n \in 1..Len(t)
  BY LenProperties
<1>2. rest \in Seq(0..MaxChanges) /\ Len(rest) = n - m
      /\ \A c \in 1..(n - m) : rest[c] = t[m + c]
  <2>1. \A c \in (m + 1)..n : t[c] \in 0..MaxChanges
    <3>1. \A c \in (m + 1)..n : c \in 1..Len(t)
      BY <1>1
    <3> QED  BY <3>1, ElementOfSeq
  <2>2. m + 1 \in Int /\ n \in Int /\ m + 1 <= n /\ n - (m + 1) + 1 = n - m
        /\ \A c \in 1..(n - m) : m + 1 + c - 1 = m + c
    BY <1>1
  <2>3. /\ rest \in Seq(0..MaxChanges)
        /\ Len(rest) = n - (m + 1) + 1
        /\ \A c \in 1..(n - (m + 1) + 1) : rest[c] = t[m + 1 + c - 1]
    BY <2>1, <2>2, SubSeqProperties
  <2> QED  BY <2>2, <2>3
<1>3. u \in Seq(0..MaxChanges) /\ Len(u) = n
  BY <1>1, <1>2
<1>4. ASSUME IsPrefixOf(s, t), NEW c \in 1..n PROVE u[c] = t[c]
  <2>1. CASE c <= m
    <3>1. c \in 1..m /\ u[c] = s[c]
      BY <1>1, <1>2, <2>1
    <3> QED  BY <1>4, <3>1 DEF IsPrefixOf
  <2>2. CASE c > m
    <3>1. c - m \in 1..(n - m) /\ u[c] = rest[c - m] /\ m + (c - m) = c
      BY <1>1, <1>2, <2>2
    <3> QED  BY <1>2, <3>1
  <2> QED  BY <1>1, <2>1, <2>2
<1>5. IsPrefixOf(s, t) => IsPrefixOf(u, t)
  <2> HIDE DEF u
  <2> QED  BY <1>1, <1>3, <1>4 DEF IsPrefixOf
<1> QED  BY <1>3, <1>5

LEMMA WholePrefix ==
  ASSUME NEW s \in Seq(0..MaxChanges), NEW t \in Seq(0..MaxChanges), IsPrefixOf(s, t),
         Len(s) = Len(t)
  PROVE  s = t
  BY LenProperties DEF IsPrefixOf

(* The types of what the steps use.                                        *)
LEMMA Types ==
  ASSUME ReaderTypeOK
  PROVE  /\ changes \in Nat /\ changes <= MaxChanges /\ MaxChanges \in Nat /\ MaxCells \in Nat
         /\ \A i \in Inodes : /\ files[i].data \in Contents(MaxChanges)
                              /\ files[i].data \in Seq(0..MaxChanges)
                              /\ SizeOf(i) \in Nat /\ SizeOf(i) <= MaxCells + 1
                              /\ files[i].stamp \in Nat /\ files[i].kind \in Kinds
         /\ payload \in Seq(0..MaxChanges) /\ Len(payload) \in Nat
         /\ opened.stamp \in Nat /\ opened.size \in Nat
<1>1. changes \in Nat /\ changes <= MaxChanges /\ MaxChanges \in Nat /\ MaxCells \in Nat
  BY CellsAssumption DEF ReaderTypeOK
<1>2. ASSUME NEW i \in Inodes
      PROVE  /\ files[i].data \in Contents(MaxChanges) /\ files[i].stamp \in Nat
             /\ files[i].kind \in Kinds
  BY DEF ReaderTypeOK
<1>3. payload \in Contents(MaxChanges) /\ opened.stamp \in Nat /\ opened.size \in Nat
  BY DEF ReaderTypeOK
<1>4. \A d \in Contents(MaxChanges) : /\ d \in Seq(0..MaxChanges)
                                      /\ Len(d) \in Nat /\ Len(d) <= MaxCells + 1
  BY <1>1, ContentIsSequence
<1> QED  BY <1>1, <1>2, <1>3, <1>4 DEF SizeOf

-----------------------------------------------------------------------------
(* The other processes.  The file behind the descriptor keeps its kind,    *)
(* and its content unless the change shows in the stamp or goes unstamped. *)
LEMMA OthersMove ==
  ASSUME ReaderInv, changes < MaxChanges, changes' = changes + 1,
         UNCHANGED <<call, before, fd, holders, opened, payload, result, failed, taken, twice>>,
         files' \in [Inodes -> [kind: Kinds, data: Contents(MaxChanges), stamp: 0..MaxChanges]],
         named' \in Inodes \cup {Nothing},
         seen \subseteq seen', seen' \subseteq Contents(MaxChanges),
         sameTick => sameTick', sameTick' \in BOOLEAN,
         \A i \in Inodes : files'[i].stamp \in {files[i].stamp, changes + 1},
         call \in Looking /\ files'[before].kind = "regular" => files'[before].data \in seen',
         fd \in Inodes => /\ files'[fd].kind = files[fd].kind
                          /\ \/ files'[fd].data = files[fd].data
                             \/ files'[fd].stamp = changes + 1
                             \/ sameTick'
  PROVE  ReaderInv'
<1>1. changes \in Nat /\ changes' \in 0..MaxChanges
      /\ \A i \in Inodes : files[i].stamp \in Nat /\ files[i].stamp <= changes
  BY Types DEF ReaderInv, Followed
<1>2. ReaderTypeOK'
  BY <1>1 DEF ReaderInv, ReaderTypeOK
<1>3. Held' /\ OutcomeWasTrue' /\ Found'
  BY DEF ReaderInv, Held, OutcomeWasTrue, Found, Looking
<1>4. \A i \in Inodes : files'[i].stamp <= changes'
  BY <1>1
<1>5. ASSUME call \in Reading
      PROVE  /\ fd = before /\ files'[fd].kind = "regular"
             /\ opened.stamp <= files'[fd].stamp
             /\ ~sameTick' /\ files'[fd].stamp = opened.stamp => IsPrefixOf(payload, files'[fd].data)
             /\ TooLarge(Len(payload)) => \E d \in seen' : TooLarge(Len(d))
  <2>1. /\ fd \in Inodes /\ opened.stamp \in Nat /\ opened.stamp <= files[fd].stamp
        /\ fd = before /\ files[fd].kind = "regular"
        /\ ~sameTick /\ files[fd].stamp = opened.stamp => IsPrefixOf(payload, files[fd].data)
        /\ TooLarge(Len(payload)) => \E d \in seen : TooLarge(Len(d))
    BY <1>5, Types DEF ReaderInv, Found, Followed
  <2>2. files[fd].stamp <= changes /\ files'[fd].stamp \in {files[fd].stamp, changes + 1}
    BY <1>1, <2>1
  <2>3. opened.stamp < changes + 1 /\ opened.stamp <= files'[fd].stamp
    BY <1>1, <2>1, <2>2
  <2>4. ~sameTick' /\ files'[fd].stamp = opened.stamp =>
           files'[fd].data = files[fd].data /\ files[fd].stamp = opened.stamp /\ ~sameTick
    BY <1>1, <2>1, <2>2, <2>3
  <2> QED  BY <2>1, <2>3, <2>4
<1>6. Followed'
  BY <1>4, <1>5 DEF Followed, Reading, TooLarge
<1> QED  BY <1>2, <1>3, <1>6 DEF ReaderInv

LEMMA OthersKeep ==
  ASSUME ReaderInv, Others
  PROVE  ReaderInv'
<1>1. /\ changes \in Nat /\ MaxChanges \in Nat /\ changes < MaxChanges
      /\ changes + 1 \in 1..MaxChanges
      /\ files \in [Inodes -> [kind: Kinds, data: Contents(MaxChanges), stamp: 0..MaxChanges]]
      /\ named \in Inodes \cup {Nothing} /\ seen \subseteq Contents(MaxChanges)
      /\ sameTick \in BOOLEAN
  <2>1. changes < MaxChanges
    BY DEF Others, ChangeContent, ReplaceName, CreateAnew
  <2>2. ReaderTypeOK
    BY DEF ReaderInv
  <2>3. changes \in Nat /\ MaxChanges \in Nat /\ changes + 1 \in 1..MaxChanges
    BY <2>1, <2>2, Types
  <2> QED  BY <2>1, <2>2, <2>3 DEF ReaderTypeOK
<1>2. /\ call \in Looking => before \in Inodes
      /\ call \in Looking /\ files[before].kind = "regular" => files[before].data \in seen
      /\ before \in Inodes \cup {Nothing} /\ fd \in Inodes \cup {Nothing}
  BY DEF ReaderInv, ReaderTypeOK, Found
<1>3. CASE ChangeContent
  <2>1. PICK i, data, stamp :
           /\ i \in Inodes /\ data \in Rewrites(files[i].data, changes + 1)
           /\ stamp \in {files[i].stamp, changes + 1}
           /\ files[i].kind = "regular"
           /\ files' = [files EXCEPT ![i].data = data, ![i].stamp = stamp]
           /\ sameTick' = (sameTick \/ (i = fd /\ stamp = files[i].stamp))
           /\ seen' = IF i = before THEN seen \cup {data} ELSE seen
    BY <1>3 DEF ChangeContent
  <2>2. data \in Contents(MaxChanges)
    BY <1>1, <2>1, RewritesAreContents
  <2>8. stamp \in 0..MaxChanges
    BY <1>1, <2>1
  <2>3. /\ files' \in [Inodes -> [kind: Kinds, data: Contents(MaxChanges), stamp: 0..MaxChanges]]
        /\ files'[i].kind = files[i].kind /\ files'[i].data = data /\ files'[i].stamp = stamp
        /\ \A j \in Inodes : j # i => files'[j] = files[j]
    BY <1>1, <2>1, <2>2, <2>8
  <2>4. call \in Looking /\ files'[before].kind = "regular" => files'[before].data \in seen'
    BY <1>2, <2>1, <2>3
  <2>5. fd \in Inodes => /\ files'[fd].kind = files[fd].kind
                         /\ \/ files'[fd].data = files[fd].data
                            \/ files'[fd].stamp = changes + 1
                            \/ sameTick'
    BY <2>1, <2>3
  <2>6. UNCHANGED <<named, call, before, fd, holders, opened, payload, result,
                     failed, taken, twice>>
        /\ changes' = changes + 1
    BY <1>3 DEF ChangeContent
  <2>7. /\ seen \subseteq seen' /\ seen' \subseteq Contents(MaxChanges)
        /\ sameTick' \in BOOLEAN /\ (sameTick => sameTick')
        /\ \A j \in Inodes : files'[j].stamp \in {files[j].stamp, changes + 1}
    BY <1>1, <2>1, <2>2, <2>3
  <2>9. changes < MaxChanges /\ named' \in Inodes \cup {Nothing}
    BY <1>1, <2>6
  <2> QED  BY <2>3, <2>4, <2>5, <2>6, <2>7, <2>9, OthersMove
<1>4. CASE ReplaceName
  <2>1. /\ UNCHANGED <<call, before, fd, holders, opened, payload, result, history>>
        /\ changes' = changes + 1 /\ named' \in Inodes \cup {Nothing}
    BY <1>4 DEF ReplaceName
  <2>2. /\ files' \in [Inodes -> [kind: Kinds, data: Contents(MaxChanges), stamp: 0..MaxChanges]]
        /\ \A j \in Inodes : /\ files'[j].kind = files[j].kind /\ files'[j].data = files[j].data
                             /\ files'[j].stamp \in {files[j].stamp, changes + 1}
    <3>1. CASE files' = files
      BY <1>1, <3>1
    <3>2. CASE named \in Inodes /\ files' = [files EXCEPT ![named].stamp = changes + 1]
      BY <1>1, <3>2
    <3> QED  BY <1>1, <1>4, <3>1, <3>2 DEF ReplaceName
  <2> QED  BY <1>1, <1>2, <2>1, <2>2, OthersMove DEF history
<1>5. CASE CreateAnew
  <2>1. PICK i, kind, data :
           /\ i \in Inodes \ {fd} /\ kind \in Kinds
           /\ data \in IF kind = "regular" THEN Rewrites(<< >>, changes + 1) ELSE {<< >>}
           /\ named' = i
           /\ files' = [files EXCEPT ![i] = [kind |-> kind, data |-> data, stamp |-> changes + 1]]
           /\ seen' = IF i = before /\ kind = "regular" THEN seen \cup {data} ELSE seen
    BY <1>5 DEF CreateAnew
  <2>2. data \in Contents(MaxChanges)
    BY <1>1, <2>1, RewritesAreContents, EmptyIsContent
  <2>3. /\ files' \in [Inodes -> [kind: Kinds, data: Contents(MaxChanges), stamp: 0..MaxChanges]]
        /\ files'[i].kind = kind /\ files'[i].data = data /\ files'[i].stamp = changes + 1
        /\ \A j \in Inodes : j # i => files'[j] = files[j]
    BY <1>1, <2>1, <2>2
  <2>4. call \in Looking /\ files'[before].kind = "regular" => files'[before].data \in seen'
    BY <1>2, <2>1, <2>3
  <2>5. UNCHANGED <<call, before, fd, holders, opened, payload, result, sameTick,
                     failed, taken, twice>>
        /\ changes' = changes + 1
    BY <1>5 DEF CreateAnew
  <2>6. /\ seen \subseteq seen' /\ seen' \subseteq Contents(MaxChanges)
        /\ \A j \in Inodes : files'[j].stamp \in {files[j].stamp, changes + 1}
    BY <1>1, <2>1, <2>2, <2>3
  <2> QED  BY <1>1, <2>1, <2>3, <2>4, <2>5, <2>6, OthersMove
<1> QED  BY <1>3, <1>4, <1>5 DEF Others

-----------------------------------------------------------------------------
(* The reader ends the call.                                               *)
Codes == {"PAYLOAD", "INPUT_UNAVAILABLE", "INPUT_TOO_LARGE"}

LEMMA Leaves ==
  ASSUME ReaderInv, call \in {"lstat"} \cup Looking, NEW code \in Codes, Leave(code),
         UNCHANGED <<files, named, changes, opened, payload, taken, twice>>,
         before' \in Inodes \cup {Nothing}, seen' \subseteq Contents(MaxChanges),
         sameTick' = sameTick, failed' \in BOOLEAN, failed => failed',
         code = "PAYLOAD" => sameTick \/ payload \in {d \in seen' : Len(d) <= MaxCells},
         code = "INPUT_TOO_LARGE" => \E d \in seen' : Len(d) > MaxCells
  PROVE  ReaderInv'
<1>1. ReaderTypeOK'
  BY DEF ReaderInv, ReaderTypeOK, Leave, Codes
<1>2. fd \in Inodes \/ call \in {"lstat", "open"}
  BY DEF ReaderInv, Found, Looking, Reading
<1>4. Held' /\ OutcomeWasTrue'
  BY <1>2, NothingAssumption DEF ReaderInv, Leave, Held, OutcomeWasTrue, Looking
<1>3. Found' /\ Followed'
  BY DEF ReaderInv, Found, Followed, Leave, Looking, Reading
<1> QED  BY <1>1, <1>3, <1>4 DEF ReaderInv

(* The reader goes on.                                                     *)
LEMMA Goes ==
  ASSUME ReaderInv, call' \in Looking,
         UNCHANGED <<files, named, changes, result, sameTick, failed, taken, twice>>,
         result = "PENDING", before' \in Inodes, fd' \in Inodes \cup {Nothing}, Held',
         opened' \in [size: Nat, stamp: 0..MaxChanges], payload' \in Contents(MaxChanges),
         seen' \subseteq Contents(MaxChanges),
         files[before'].kind = "regular" => files[before'].data \in seen',
         call' \in {"open", "fstat", "adopt"} => payload' = << >>,
         call' \in {"fstat"} \cup Reading => fd' \in Inodes,
         call' \in Reading =>
            /\ fd' = before' /\ files[fd'].kind = "regular"
            /\ opened'.stamp <= files[fd'].stamp
            /\ ~sameTick /\ files[fd'].stamp = opened'.stamp =>
                  IsPrefixOf(payload', files[fd'].data)
            /\ TooLarge(Len(payload')) => \E d \in seen' : TooLarge(Len(d))
  PROVE  ReaderInv'
<1>2. holders' \subseteq {"function", "stream"} /\ OutcomeWasTrue'
  BY DEF Held, OutcomeWasTrue, Looking
<1>1. ReaderTypeOK'
  BY <1>2 DEF ReaderInv, ReaderTypeOK, Looking
<1>3. Found'
  BY DEF Found, Looking
<1>4. Followed'
  BY DEF ReaderInv, Followed, TooLarge, IsPrefixOf
<1> QED  BY <1>1, <1>2, <1>3, <1>4 DEF ReaderInv

LEMMA Unavailable ==
  ASSUME ReaderInv, call \in {"lstat"} \cup Looking, Leave("INPUT_UNAVAILABLE"),
         UNCHANGED <<files, named, changes, before, opened, payload, seen, sameTick, taken, twice>>,
         failed' \in BOOLEAN, failed => failed'
  PROVE  ReaderInv'
<1>1. before \in Inodes \cup {Nothing} /\ seen \subseteq Contents(MaxChanges)
  BY DEF ReaderInv, ReaderTypeOK
<1> QED  BY <1>1, Leaves DEF Codes

LEMMA FailingKeeps ==
  ASSUME ReaderInv, call \in {"lstat"} \cup Looking, SystemFails, UNCHANGED fileSystem
  PROVE  ReaderInv'
  BY Unavailable DEF SystemFails, fileSystem

LEMMA LstatKeeps ==
  ASSUME ReaderInv, Lstat
  PROVE  ReaderInv'
<1>1. /\ UNCHANGED <<files, named, changes>> /\ call = "lstat" /\ fd = Nothing /\ payload = << >>
      /\ result = "PENDING"
  BY DEF Lstat, fileSystem, ReaderInv, Found
<1>2. /\ before \in Inodes \cup {Nothing} /\ seen \subseteq Contents(MaxChanges)
      /\ failed \in BOOLEAN /\ holders = {} /\ (twice => taken) /\ (taken => failed)
      /\ opened \in [size: Nat, stamp: 0..MaxChanges] /\ payload \in Contents(MaxChanges)
      /\ named \in Inodes \cup {Nothing}
  BY <1>1 DEF ReaderInv, ReaderTypeOK, Held
<1>3. CASE SystemFails
  BY <1>1, <1>3, FailingKeeps DEF fileSystem
<1>4. CASE named = Nothing
  <2>1. SystemFails \/ (Leave("INPUT_UNAVAILABLE") /\ UNCHANGED <<before, opened, payload, history>>)
    BY <1>4 DEF Lstat
  <2> QED  BY <1>1, <1>2, <1>3, <2>1, Unavailable DEF history
<1>5. CASE ~SystemFails /\ named # Nothing
  <2>1. /\ before' = named /\ seen' = {files[named].data} /\ named \in Inodes
        /\ UNCHANGED <<opened, payload, sameTick, failed, taken, twice>>
    BY <1>2, <1>5 DEF Lstat
  <2>2. seen' \subseteq Contents(MaxChanges) /\ files[named].data \in seen'
    BY <2>1, Types DEF ReaderInv
  <2>3. CASE Leave("INPUT_UNAVAILABLE")
    BY <1>1, <1>2, <2>1, <2>2, <2>3, Leaves DEF Codes
  <2>4. CASE TooLarge(SizeOf(named)) /\ Leave("INPUT_TOO_LARGE")
    <3>1. \E d \in seen' : Len(d) > MaxCells
      BY <2>2, <2>4 DEF TooLarge, SizeOf
    <3> QED  BY <1>1, <1>2, <2>1, <2>2, <2>4, <3>1, Leaves DEF Codes
  <2>5. CASE call' = "open" /\ UNCHANGED <<fd, holders, result>>
    <3>1. Held'
      BY <1>1, <1>2, <2>1, <2>5 DEF Held
    <3> QED  BY <1>1, <1>2, <2>1, <2>2, <2>5, <3>1, Goes DEF Looking, Reading
  <2> QED  BY <1>5, <2>3, <2>4, <2>5 DEF Lstat
<1> QED  BY <1>3, <1>4, <1>5

(* What is known of the variables while the file is looked at.             *)
LEMMA LookingKnows ==
  ASSUME ReaderInv, call \in Looking
  PROVE  /\ before \in Inodes /\ seen \subseteq Contents(MaxChanges) /\ failed \in BOOLEAN
         /\ files[before].kind = "regular" => files[before].data \in seen
         /\ holders = IF call = "open" THEN {}
                      ELSE IF call \in {"fstat", "adopt"} THEN {"function"} ELSE {"stream"}
         /\ (twice => taken) /\ (taken => failed)
         /\ opened \in [size: Nat, stamp: 0..MaxChanges] /\ payload \in Contents(MaxChanges)
         /\ named \in Inodes \cup {Nothing} /\ fd \in Inodes \cup {Nothing}
         /\ result = "PENDING" /\ Nothing \notin Inodes
         /\ call \in {"open", "fstat", "adopt"} => payload = << >>
         /\ call # "open" => fd \in Inodes
  BY NothingAssumption DEF ReaderInv, ReaderTypeOK, Held, Found, Looking, Reading

LEMMA OpenKeeps ==
  ASSUME ReaderInv, Open
  PROVE  ReaderInv'
<1>1. /\ UNCHANGED <<files, named, changes>> /\ call = "open" /\ call \in Looking
  BY DEF Open, fileSystem, Looking
<1>2. CASE SystemFails
  BY <1>1, <1>2, FailingKeeps DEF fileSystem
<1>3. CASE Leave("INPUT_UNAVAILABLE") /\ UNCHANGED <<before, opened, payload, history>>
  BY <1>1, <1>3, LookingKnows, Unavailable DEF history
<1>4. CASE /\ named # Nothing /\ fd' = named /\ holders' = {"function"} /\ call' = "fstat"
           /\ UNCHANGED <<before, opened, payload, result, history>>
  <2>1. named \in Inodes
    BY <1>1, <1>4, LookingKnows
  <2>2. Held'
    BY <1>1, <1>4, LookingKnows DEF Held, history
  <2> QED  BY <1>1, <1>4, <2>1, <2>2, LookingKnows, Goes DEF history, Looking, Reading
<1> QED  BY <1>2, <1>3, <1>4 DEF Open

LEMMA FstatOpenedKeeps ==
  ASSUME ReaderInv, FstatOpened
  PROVE  ReaderInv'
<1>1. /\ UNCHANGED <<files, named, changes>> /\ call = "fstat" /\ call \in Looking
  BY DEF FstatOpened, fileSystem, Looking
<1>2. CASE SystemFails
  BY <1>1, <1>2, FailingKeeps DEF fileSystem
<1>3. CASE Leave("INPUT_UNAVAILABLE") /\ UNCHANGED <<before, opened, payload, history>>
  BY <1>1, <1>3, LookingKnows, Unavailable DEF history
<1>4. CASE /\ SameFile /\ TooLarge(SizeOf(fd)) /\ Leave("INPUT_TOO_LARGE")
           /\ UNCHANGED <<before, opened, payload, history>>
  <2>1. \E d \in seen : Len(d) > MaxCells
    BY <1>1, <1>4, LookingKnows DEF SameFile, TooLarge, SizeOf
  <2> QED  BY <1>1, <1>4, <2>1, LookingKnows, Leaves DEF history, Codes
<1>5. CASE /\ SameFile /\ opened' = [size |-> SizeOf(fd), stamp |-> files[fd].stamp]
           /\ call' = "adopt" /\ UNCHANGED <<before, fd, holders, payload, result, history>>
  <2>1. /\ fd \in Inodes /\ fd = before /\ files[fd].kind = "regular" /\ payload = << >>
    BY <1>1, <1>5, LookingKnows DEF SameFile
  <2>2. /\ opened' \in [size: Nat, stamp: 0..MaxChanges] /\ opened'.stamp = files[fd].stamp
        /\ files[fd].stamp \in Nat
    <3>1. SizeOf(fd) \in Nat /\ files[fd].stamp \in 0..MaxChanges
      BY <2>1, Types DEF ReaderInv, ReaderTypeOK
    <3> QED  BY <1>5, <3>1
  <2>3. Len(payload) = 0 /\ IsPrefixOf(payload, files[fd].data) /\ ~TooLarge(Len(payload))
    <3>1. Len(payload) = 0
      BY <2>1, EmptySeq
    <3>2. Len(files[fd].data) \in Nat
      BY <2>1, Types, LenProperties DEF ReaderInv
    <3> QED  BY <3>1, <3>2, CellsAssumption DEF IsPrefixOf, TooLarge
  <2>4. Held'
    BY <1>1, <1>5, LookingKnows DEF Held, history
  <2> QED  BY <1>1, <1>5, <2>1, <2>2, <2>3, <2>4, LookingKnows, Goes DEF history, Looking, Reading
<1> QED  BY <1>2, <1>3, <1>4, <1>5 DEF FstatOpened

(* What is known of the file while it is read.                             *)
LEMMA ReadingKnows ==
  ASSUME ReaderInv, call \in Reading
  PROVE  /\ call \in Looking /\ fd \in Inodes
         /\ fd = before /\ files[fd].kind = "regular" /\ files[fd].data \in seen
         /\ opened.stamp <= files[fd].stamp
         /\ ~sameTick /\ files[fd].stamp = opened.stamp => IsPrefixOf(payload, files[fd].data)
         /\ TooLarge(Len(payload)) => \E d \in seen : TooLarge(Len(d))
  BY DEF ReaderInv, Found, Followed, Looking, Reading

LEMMA AdoptKeeps ==
  ASSUME ReaderInv, Adopt
  PROVE  ReaderInv'
<1>1. /\ UNCHANGED <<files, named, changes>> /\ call = "adopt" /\ call \in Reading
      /\ call \in Looking
  BY DEF Adopt, fileSystem, Reading, Looking
<1>2. CASE SystemFails
  BY <1>1, <1>2, FailingKeeps DEF fileSystem
<1>3. CASE /\ failed' = TRUE /\ taken' = TRUE /\ fd' = Nothing
           /\ result' = "INPUT_UNAVAILABLE" /\ call' = "exit"
           /\ UNCHANGED <<before, holders, opened, payload, seen, sameTick, twice>>
  <2>1. ReaderTypeOK'
    BY <1>1, <1>3 DEF ReaderInv, ReaderTypeOK
  <2>2. Held' /\ OutcomeWasTrue'
    BY <1>1, <1>3, LookingKnows DEF Held, OutcomeWasTrue
  <2>3. Found' /\ Followed'
    BY <1>1, <1>3 DEF ReaderInv, Found, Followed, Looking, Reading
  <2> QED  BY <2>1, <2>2, <2>3 DEF ReaderInv
<1>4. CASE /\ holders' = HandedOver /\ call' = "read"
           /\ UNCHANGED <<before, fd, opened, payload, result, history>>
  <2>1. Held'
    BY <1>1, <1>4, LookingKnows DEF Held, HandedOver, history
  <2> QED  BY <1>1, <1>4, <2>1, LookingKnows, ReadingKnows, Goes DEF history, Looking, Reading
<1> QED  BY <1>2, <1>3, <1>4 DEF Adopt

LEMMA ReadSomeKeeps ==
  ASSUME ReaderInv, ReadSome
  PROVE  ReaderInv'
<1>1. /\ UNCHANGED <<files, named, changes>> /\ call = "read" /\ call \in Reading
      /\ call \in Looking
  BY DEF ReadSome, fileSystem, Reading, Looking
<1>2. CASE SystemFails
  BY <1>1, <1>2, FailingKeeps DEF fileSystem
<1>3. CASE ~SystemFails
  <2>1. PICK n \in (Len(payload) + 1)..SizeOf(fd) :
           /\ n <= MaxCells + 1
           /\ payload' = payload \o SubSeq(files[fd].data, Len(payload) + 1, n)
           /\ UNCHANGED <<call, before, fd, holders, opened, result, history>>
    BY <1>3 DEF ReadSome
  <2>2. PICK s, t, u : s = payload /\ t = files[fd].data /\ u = payload'
    OBVIOUS
  <2>3. /\ s \in Seq(0..MaxChanges) /\ t \in Seq(0..MaxChanges) /\ Len(s) \in Nat
        /\ SizeOf(fd) = Len(t) /\ Len(t) \in Nat /\ MaxChanges \in Nat /\ MaxCells \in Nat
    BY <1>1, <2>2, ReadingKnows, Types DEF ReaderInv, SizeOf
  <2>4. n \in Nat /\ Len(s) < n /\ n <= Len(t)
    BY <2>1, <2>2, <2>3
  <2>5. u = s \o SubSeq(t, Len(s) + 1, n)
    BY <2>1, <2>2
  <2>6. u \in Seq(0..MaxChanges) /\ Len(u) = n /\ (IsPrefixOf(s, t) => IsPrefixOf(u, t))
    BY <2>3, <2>4, <2>5, ReadExtendsPrefix
  <2>7. payload' \in Contents(MaxChanges)
    BY <2>1, <2>2, <2>3, <2>6, SequenceIsContent
  <2>8. TooLarge(Len(payload')) => TooLarge(Len(files[fd].data))
    BY <2>2, <2>3, <2>4, <2>6 DEF TooLarge
  <2>9. ~sameTick /\ files[fd].stamp = opened.stamp => IsPrefixOf(payload', files[fd].data)
    BY <1>1, <2>2, <2>6, ReadingKnows
  <2>10. Held'
    BY <1>1, <2>1, LookingKnows, ReadingKnows DEF Held, history
  <2> QED  BY <1>1, <2>1, <2>7, <2>8, <2>9, <2>10, LookingKnows, ReadingKnows, Goes
              DEF history, Looking, Reading
<1> QED  BY <1>2, <1>3

LEMMA ReadEndsKeeps ==
  ASSUME ReaderInv, ReadEnds
  PROVE  ReaderInv'
<1>1. /\ UNCHANGED <<files, named, changes, before, opened, payload, history>>
      /\ call = "read" /\ call \in Reading
  BY DEF ReadEnds, fileSystem, Reading, history
<1>2. CASE TooLarge(Len(payload)) /\ Leave("INPUT_TOO_LARGE")
  <2>1. \E d \in seen : Len(d) > MaxCells
    BY <1>1, <1>2, ReadingKnows DEF TooLarge
  <2> QED  BY <1>1, <1>2, <2>1, LookingKnows, ReadingKnows, Leaves DEF Codes, history
<1>3. CASE call' = "compare" /\ UNCHANGED <<fd, holders, result>>
  <2>1. Held'
    BY <1>1, <1>3, LookingKnows, ReadingKnows DEF Held, history
  <2> QED  BY <1>1, <1>3, <2>1, LookingKnows, ReadingKnows, Goes DEF history, Looking, Reading
<1> QED  BY <1>2, <1>3 DEF ReadEnds

LEMMA FstatAfterKeeps ==
  ASSUME ReaderInv, FstatAfter
  PROVE  ReaderInv'
<1>1. /\ UNCHANGED <<files, named, changes>> /\ call = "compare" /\ call \in Reading
      /\ call \in Looking
  BY DEF FstatAfter, fileSystem, Reading, Looking
<1>2. CASE SystemFails
  BY <1>1, <1>2, FailingKeeps DEF fileSystem
<1>3. CASE ~SystemFails
  <2>1. UNCHANGED <<before, opened, payload, seen, sameTick, failed, taken, twice>>
    BY <1>3 DEF FstatAfter, history
  <2>2. CASE TooLarge(SizeOf(fd)) /\ Leave("INPUT_TOO_LARGE")
    <3>1. \E d \in seen : Len(d) > MaxCells
      BY <1>1, <2>2, ReadingKnows DEF TooLarge, SizeOf
    <3> QED  BY <1>1, <2>1, <2>2, <3>1, LookingKnows, ReadingKnows, Leaves DEF Codes
  <2>3. CASE Leave("INPUT_UNAVAILABLE")
    BY <1>1, <2>1, <2>3, LookingKnows, ReadingKnows, Unavailable
  <2>4. CASE ~TooLarge(SizeOf(fd)) /\ UnchangedSinceOpened /\ Leave("PAYLOAD")
    <3>1. PICK s, t : s = payload /\ t = files[fd].data
      OBVIOUS
    <3>2. /\ s \in Seq(0..MaxChanges) /\ t \in Seq(0..MaxChanges) /\ Len(s) = Len(t)
          /\ Len(t) \in Nat /\ MaxCells \in Nat /\ SizeOf(fd) = Len(t)
      BY <1>1, <2>4, <3>1, ReadingKnows, Types DEF ReaderInv, SizeOf, UnchangedSinceOpened
    <3>3. ~sameTick => IsPrefixOf(s, t)
      BY <1>1, <2>4, <3>1, ReadingKnows DEF UnchangedSinceOpened
    <3>4. ~sameTick => s = t
      BY <3>2, <3>3, WholePrefix
    <3>5. Len(t) <= MaxCells
      BY <2>4, <3>2 DEF TooLarge
    <3>6. sameTick \/ payload \in {d \in seen : Len(d) <= MaxCells}
      BY <1>1, <3>1, <3>4, <3>5, ReadingKnows
    <3> QED  BY <1>1, <2>1, <2>4, <3>6, LookingKnows, ReadingKnows, Leaves DEF Codes
  <2> QED  BY <1>3, <2>2, <2>3, <2>4 DEF FstatAfter
<1> QED  BY <1>2, <1>3

(* The two closes.                                                         *)
LEMMA ClosingKeeps ==
  ASSUME ReaderInv, CloseStream \/ Finally
  PROVE  ReaderInv'
<1>1. /\ UNCHANGED <<files, named, changes, before, opened, payload, seen, sameTick, taken>>
      /\ call = "exit"
  BY DEF CloseStream, Finally, fileSystem
<1>2. Held'
  <2>1. CASE CloseStream
    BY <1>1, <2>1 DEF CloseStream, ReaderInv, Held
  <2>2. CASE Finally
    BY <1>1, <2>2 DEF Finally, ReaderInv, Held
  <2> QED  BY <2>1, <2>2
<1>3. /\ call' \in {"exit", "done"} /\ fd' \in Inodes \cup {Nothing}
      /\ holders' \subseteq {"function", "stream"}
      /\ failed' \in BOOLEAN /\ twice' \in BOOLEAN
      /\ result' \in {result, "INPUT_UNAVAILABLE", "OS_ERROR"}
  BY <1>1 DEF CloseStream, Finally, ReaderInv, ReaderTypeOK
<1>4. ReaderTypeOK'
  BY <1>1, <1>3 DEF ReaderInv, ReaderTypeOK
<1>5. OutcomeWasTrue'
  BY <1>1, <1>3 DEF ReaderInv, OutcomeWasTrue
<1>6. Found' /\ Followed'
  BY <1>1, <1>3 DEF ReaderInv, Found, Followed, Looking, Reading
<1> QED  BY <1>2, <1>4, <1>5, <1>6 DEF ReaderInv

-----------------------------------------------------------------------------
LEMMA ReaderInitially == ReaderInit => ReaderInv
<1> SUFFICES ASSUME ReaderInit PROVE ReaderInv
  OBVIOUS
<1>1. ASSUME NEW l \in 0..(MaxCells + 1)
      PROVE  [c \in 1..l |-> 0] \in Contents(MaxChanges)
  <2>1. [c \in 1..l |-> 0] \in [1..l -> 0..MaxChanges]
    BY CellsAssumption
  <2> QED  BY <2>1 DEF Contents
<1>2. files \in [Inodes -> [kind: Kinds, data: Contents(MaxChanges), stamp: 0..MaxChanges]]
      /\ \A i \in Inodes : files[i].stamp = 0
  <2>1. files \in [Inodes -> [kind: Kinds, stamp: {0},
                              data: {[c \in 1..l |-> 0] : l \in 0..(MaxCells + 1)}]]
    BY DEF ReaderInit
  <2>2. {[c \in 1..l |-> 0] : l \in 0..(MaxCells + 1)} \subseteq Contents(MaxChanges)
        /\ 0 \in 0..MaxChanges
    BY <1>1, CellsAssumption
  <2>3. ASSUME NEW i \in Inodes
        PROVE  files[i] \in [kind: Kinds, data: Contents(MaxChanges), stamp: 0..MaxChanges]
               /\ files[i].stamp = 0
    <3>1. files[i] \in [kind: Kinds, stamp: {0},
                        data: {[c \in 1..l |-> 0] : l \in 0..(MaxCells + 1)}]
      BY <2>1
    <3>2. PICK D : D = {[c \in 1..l |-> 0] : l \in 0..(MaxCells + 1)}
      OBVIOUS
    <3>3. files[i] \in [kind: Kinds, stamp: {0}, data: D] /\ D \subseteq Contents(MaxChanges)
      BY <2>2, <3>1, <3>2
    <3> QED  BY <2>2, <3>3
  <2> QED  BY <2>1, <2>3
<1>3. ReaderTypeOK
  <2>1. << >> \in Contents(MaxChanges) /\ 0 \in 0..MaxChanges /\ 0 \in Nat
    BY EmptyIsContent, CellsAssumption
  <2> QED  BY <1>2, <2>1 DEF ReaderInit, ReaderTypeOK
<1>4. Held /\ OutcomeWasTrue /\ Found
  BY DEF ReaderInit, Held, OutcomeWasTrue, Found, Looking, Reading
<1>5. Followed
  BY <1>2 DEF ReaderInit, Followed, Reading
<1> QED  BY <1>3, <1>4, <1>5 DEF ReaderInv

LEMMA ReaderInductive == ReaderInv /\ [ReaderNext]_readerVars => ReaderInv'
<1> SUFFICES ASSUME ReaderInv, [ReaderNext]_readerVars PROVE ReaderInv'
  OBVIOUS
<1>1. CASE UNCHANGED readerVars
  BY <1>1 DEF readerVars, ReaderInv, ReaderTypeOK, Held, OutcomeWasTrue,
              Found, Followed, TooLarge
<1> QED  BY <1>1, OthersKeep, LstatKeeps, OpenKeeps, FstatOpenedKeeps, AdoptKeeps, ReadSomeKeeps,
            ReadEndsKeeps, FstatAfterKeeps, ClosingKeeps DEF ReaderNext, Read

LEMMA ReaderInvariance == ReaderSpec => []ReaderInv
  BY ReaderInitially, ReaderInductive, PTL DEF ReaderSpec

(* Every variable has its type.                                            *)
THEOREM ReaderTypeCorrect == ReaderSpec => []ReaderTypeOK
<1>1. ReaderInv => ReaderTypeOK
  BY DEF ReaderInv
<1> QED  BY <1>1, ReaderInvariance, PTL

(* However the call ends, the descriptor it opened is closed, and closed   *)
(* once, unless fdopen failed with the descriptor already taken.           *)
THEOREM NoDescriptorLeaks == ReaderSpec => []DescriptorIsClosed
<1>1. ReaderInv => DescriptorIsClosed
  BY DEF ReaderInv, Held, DescriptorIsClosed, Done
<1> QED  BY <1>1, ReaderInvariance, PTL

(* What the call reports was true, at one instant of the call, of the      *)
(* regular file the path named when it began, whatever other processes     *)
(* write, truncate or put in its place; only changes within one tick of    *)
(* the clock can go unnoticed.                                             *)
THEOREM OutcomeIsTrue == ReaderSpec => []OutcomeWasTrue
<1>1. ReaderInv => OutcomeWasTrue
  BY DEF ReaderInv
<1> QED  BY <1>1, ReaderInvariance, PTL

-----------------------------------------------------------------------------
(* The call that nobody and nothing disturbs.                              *)
FaithfulSoFar ==
    call \in {"exit", "done"} =>
    IF named = Nothing \/ files[named].kind # "regular" THEN result = "INPUT_UNAVAILABLE"
    ELSE IF Len(files[named].data) > MaxCells THEN result = "INPUT_TOO_LARGE"
    ELSE result = "PAYLOAD" /\ payload = files[named].data

UInv ==
    changes = 0 /\ ~failed =>
        /\ ~sameTick
        /\ call \in Looking =>
                /\ named = before /\ files[before].kind = "regular" /\ ~TooLarge(SizeOf(before))
                /\ call # "open" => fd = before
        /\ call \in Reading => opened.size = SizeOf(fd) /\ opened.stamp = files[fd].stamp
        /\ call = "compare" => Len(payload) >= SizeOf(fd)
        /\ FaithfulSoFar

LEMMA ReadKeepsUndisturbed ==
  ASSUME ReaderInv, UInv, Read
  PROVE  UInv'
<1> SUFFICES ASSUME changes' = 0, ~failed' PROVE UInv'
  BY DEF UInv
<1>1. UNCHANGED <<files, named, changes>>
  BY DEF Read, Lstat, Open, FstatOpened, Adopt, ReadSome, ReadEnds, FstatAfter, CloseStream,
         Finally, fileSystem
<1>2. ~SystemFails
  BY DEF SystemFails
<1>3. /\ changes = 0 /\ ~failed /\ sameTick' = sameTick
  BY <1>1, <1>2 DEF Read, Lstat, Open, FstatOpened, Adopt, ReadSome, ReadEnds, FstatAfter,
                     CloseStream, Finally, history
<1>4. /\ ~sameTick
      /\ call \in Looking =>
              /\ named = before /\ files[before].kind = "regular" /\ ~TooLarge(SizeOf(before))
              /\ call # "open" => fd = before
      /\ call \in Reading => opened.size = SizeOf(fd) /\ opened.stamp = files[fd].stamp
      /\ call = "compare" => Len(payload) >= SizeOf(fd)
  BY <1>3 DEF UInv
<1>5. call \in Looking => named \in Inodes /\ named # Nothing
  BY <1>4, LookingKnows
<1>6. CASE Lstat
  <2>1. call = "lstat" /\ fd = Nothing
    BY <1>6 DEF Lstat, ReaderInv, Found
  <2>2. CASE named = Nothing
    <3>1. Leave("INPUT_UNAVAILABLE")
      BY <1>2, <1>6, <2>2 DEF Lstat
    <3> QED  BY <1>1, <1>3, <1>4, <2>2, <3>1
             DEF Leave, UInv, Looking, Reading, FaithfulSoFar
  <2>3. CASE named # Nothing
    <3>1. before' = named
          /\ \/ files[named].kind # "regular" /\ Leave("INPUT_UNAVAILABLE")
             \/ files[named].kind = "regular" /\ TooLarge(SizeOf(named)) /\ Leave("INPUT_TOO_LARGE")
             \/ /\ files[named].kind = "regular" /\ ~TooLarge(SizeOf(named))
                /\ call' = "open"
      BY <1>2, <1>6, <2>3 DEF Lstat
    <3> QED  BY <1>1, <1>3, <1>4, <2>3, <3>1
             DEF Leave, UInv, Looking, Reading, FaithfulSoFar, TooLarge, SizeOf
  <2> QED  BY <2>2, <2>3
<1>7. CASE Open
  <2>1. call = "open" /\ call \in Looking
    BY <1>7 DEF Open, Looking
  <2>2. ~OpenRefuses(named)
    BY <1>4, <2>1 DEF OpenRefuses
  <2>3. fd' = named /\ call' = "fstat" /\ before' = before
    BY <1>2, <1>5, <1>7, <2>1, <2>2 DEF Open
  <2> QED  BY <1>1, <1>3, <1>4, <2>1, <2>3
           DEF UInv, Looking, Reading, FaithfulSoFar, TooLarge, SizeOf
<1>8. CASE FstatOpened
  <2>1. call = "fstat" /\ call \in Looking
    BY <1>8 DEF FstatOpened, Looking
  <2>2. SameFile /\ ~TooLarge(SizeOf(fd))
    BY <1>4, <2>1 DEF SameFile
  <2>3. /\ opened' = [size |-> SizeOf(fd), stamp |-> files[fd].stamp]
        /\ call' = "adopt" /\ fd' = fd /\ before' = before
    BY <1>2, <1>8, <2>2 DEF FstatOpened
  <2> QED  BY <1>1, <1>3, <1>4, <2>1, <2>3
           DEF UInv, Looking, Reading, FaithfulSoFar, TooLarge, SizeOf
<1>9. CASE Adopt
  <2>1. call = "adopt" /\ call \in Looking /\ call \in Reading
    BY <1>9 DEF Adopt, Looking, Reading
  <2>2. call' = "read" /\ fd' = fd /\ before' = before /\ opened' = opened
    BY <1>2, <1>9 DEF Adopt
  <2> QED  BY <1>1, <1>3, <1>4, <2>1, <2>2
           DEF UInv, Looking, Reading, FaithfulSoFar, TooLarge, SizeOf
<1>10. CASE ReadSome
  <2>1. call = "read" /\ call \in Looking /\ call \in Reading
    BY <1>10 DEF ReadSome, Looking, Reading
  <2>2. call' = call /\ fd' = fd /\ before' = before /\ opened' = opened
    BY <1>2, <1>10 DEF ReadSome
  <2> QED  BY <1>1, <1>3, <1>4, <2>1, <2>2
           DEF UInv, Looking, Reading, FaithfulSoFar, TooLarge, SizeOf
<1>11. ASSUME call \in Reading
       PROVE  /\ IsPrefixOf(payload, files[named].data) /\ fd = named /\ named \in Inodes
              /\ files[named].kind = "regular" /\ SizeOf(fd) = Len(files[named].data)
              /\ payload \in Seq(0..MaxChanges) /\ files[named].data \in Seq(0..MaxChanges)
              /\ Len(payload) <= Len(files[named].data) /\ ~TooLarge(Len(files[named].data))
              /\ Len(payload) \in Nat /\ Len(files[named].data) \in Nat
  <2>1. call \in Looking /\ call # "open"
    BY <1>11 DEF Looking, Reading
  <2>2. fd = named /\ named \in Inodes /\ files[named].kind = "regular" /\ ~TooLarge(SizeOf(named))
    BY <1>4, <1>5, <2>1
  <2>3. IsPrefixOf(payload, files[named].data)
    BY <1>4, <1>11, <2>2, ReadingKnows
  <2>4. payload \in Seq(0..MaxChanges) /\ files[named].data \in Seq(0..MaxChanges)
    BY <2>2, Types DEF ReaderInv
  <2>5. Len(payload) \in Nat /\ Len(files[named].data) \in Nat
    BY <2>4, LenProperties
  <2> QED  BY <2>2, <2>3, <2>4, <2>5 DEF IsPrefixOf, SizeOf
<1>12. CASE ReadEnds
  <2>1. call = "read" /\ call \in Looking /\ call \in Reading
    BY <1>12 DEF ReadEnds, Looking, Reading
  <2>2. ~TooLarge(Len(payload))
    BY <1>11, <2>1, CellsAssumption DEF TooLarge
  <2>3. call' = "compare" /\ fd' = fd /\ before' = before /\ opened' = opened /\ payload' = payload
        /\ Len(payload) >= SizeOf(fd)
    BY <1>12, <2>2 DEF ReadEnds
  <2> QED  BY <1>1, <1>3, <1>4, <2>1, <2>3
           DEF UInv, Looking, Reading, FaithfulSoFar, TooLarge, SizeOf
<1>13. CASE FstatAfter
  <2>1. call = "compare" /\ call \in Reading
    BY <1>13 DEF FstatAfter, Reading
  <2>2. Len(payload) = Len(files[named].data) /\ Len(payload) = SizeOf(fd)
        /\ ~TooLarge(SizeOf(fd))
    BY <1>4, <1>11, <2>1
  <2>3. UnchangedSinceOpened
    BY <1>4, <2>1, <2>2 DEF UnchangedSinceOpened
  <2>4. Leave("PAYLOAD") /\ payload' = payload
    BY <1>2, <1>13, <2>2, <2>3 DEF FstatAfter
  <2>5. payload = files[named].data
    <3>1. PICK s, t : s = payload /\ t = files[named].data
      OBVIOUS
    <3>2. s \in Seq(0..MaxChanges) /\ t \in Seq(0..MaxChanges) /\ IsPrefixOf(s, t) /\ Len(s) = Len(t)
      BY <1>11, <2>1, <2>2, <3>1
    <3> QED  BY <3>1, <3>2, WholePrefix
  <2>6. named # Nothing /\ files[named].kind = "regular" /\ ~(Len(files[named].data) > MaxCells)
    BY <1>11, <2>1, NothingAssumption DEF TooLarge
  <2>7. FaithfulSoFar'
    BY <1>1, <2>4, <2>5, <2>6 DEF FaithfulSoFar, Leave
  <2> QED  BY <1>3, <1>4, <2>4, <2>7 DEF UInv, Looking, Reading, Leave
<1>14. CASE CloseStream \/ Finally
  <2>1. call = "exit" /\ payload' = payload /\ call' \in {"exit", "done"}
    BY <1>14 DEF CloseStream, Finally
  <2>2. result' = result
    BY <1>2, <1>3, <1>14 DEF CloseStream, Finally, ReaderInv, Held
  <2> QED  BY <1>1, <1>3, <1>4, <2>1, <2>2 DEF UInv, Looking, Reading, FaithfulSoFar
<1> QED  BY <1>6, <1>7, <1>8, <1>9, <1>10, <1>12, <1>13, <1>14 DEF Read

LEMMA UndisturbedInductive == ReaderInv /\ UInv /\ [ReaderNext]_readerVars => UInv'
<1> SUFFICES ASSUME ReaderInv, UInv, [ReaderNext]_readerVars PROVE UInv'
  OBVIOUS
<1>1. CASE Others
  <2>1. changes' = changes + 1 /\ changes \in Nat
    BY <1>1, Types DEF Others, ChangeContent, ReplaceName, CreateAnew, ReaderInv
  <2> QED  BY <2>1 DEF UInv
<1>2. CASE UNCHANGED readerVars
  BY <1>2 DEF readerVars, UInv, FaithfulSoFar, TooLarge, SizeOf
<1> QED  BY <1>1, <1>2, ReadKeepsUndisturbed DEF ReaderNext

(* The outcome of a call nobody and nothing disturbs is the file's.        *)
THEOREM UndisturbedIsFaithful == ReaderSpec => []UndisturbedReadIsFaithful
<1>1. ReaderInit => UInv
  BY DEF ReaderInit, UInv, Looking, Reading, FaithfulSoFar
<1>2. UInv => UndisturbedReadIsFaithful
  BY DEF UInv, FaithfulSoFar, UndisturbedReadIsFaithful, Done
<1> QED  BY <1>1, <1>2, UndisturbedInductive, ReaderInvariance, PTL DEF ReaderSpec
=============================================================================
