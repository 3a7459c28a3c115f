----------------------------- MODULE PathReader -----------------------------
(***************************************************************************)
(* cli.py, _read_path_bounded: how the command reads the file it is given, *)
(* one system call at a time, while other processes write to the file,     *)
(* truncate it, or put another file in its place.                          *)
(*                                                                         *)
(* The content of a file is a sequence of cells, each holding the number   *)
(* of the change that wrote it, so that every mixture of two versions      *)
(* shows.  A file's stamp stands for st_mtime_ns and st_ctime_ns: a change *)
(* sets it to the kernel's clock, and two changes may find the clock at    *)
(* the same tick.                                                          *)
(***************************************************************************)
EXTENDS Integers, Sequences

CONSTANTS Inodes,      \* (st_dev, st_ino)
          Nothing,     \* no such file; no descriptor
          MaxCells,    \* MAX_INPUT_BYTES, in cells
          MaxChanges   \* bound: the changes the other processes make

ASSUME NothingAssumption == Nothing \notin Inodes

ASSUME CellsAssumption == MaxCells \in Nat /\ MaxChanges \in Nat

VARIABLES
    \* the file system, changed by the other processes
    files,     \* inode |-> kind, data, stamp
    named,     \* the inode the path names, or Nothing
    changes,   \* how many changes so far
    \* the reader
    call,
    before,    \* the inode lstat found
    fd,        \* the inode behind the open descriptor, or Nothing
    holders,   \* who closes the descriptor: the function while the variable
               \* descriptor is not -1, the stream in its with statement
    opened,    \* size and stamp at the first fstat
    payload,   \* the cells read so far
    result,    \* "PENDING", "PAYLOAD", or what is raised
    \* history
    seen,      \* the contents of the file named at lstat, since then
    sameTick,  \* a change left the stamp of the open file as it was
    failed,    \* the system failed a call
    taken,     \* fdopen failed after it had made the descriptor the stream's
    twice      \* the descriptor was closed when it was closed already

fileSystem == <<files, named, changes>>
history    == <<seen, sameTick, failed, taken, twice>>
readerVars == <<files, named, changes, call, before, fd, holders, opened, payload, result,
                seen, sameTick, failed, taken, twice>>

Kinds == {"regular", "symlink", "fifo", "directory"}

(* O_NOFOLLOW and O_NONBLOCK are set.                                      *)
BlockingFlags == [nofollow |-> TRUE, nonblock |-> FALSE]

Flags == [nofollow |-> TRUE, nonblock |-> TRUE]

SizeOf(i) == Len(files[i].data)

TooLargeAtLimit(n) == n >= MaxCells

TooLarge(n) == n > MaxCells

-----------------------------------------------------------------------------
(* The other processes.                                                    *)

Contents(n) == UNION {[1..l -> 0..n] : l \in 0..(MaxCells + 1)}

(* What one change can make of a content: a cell overwritten, cells        *)
(* appended or cut off, or everything replaced.                            *)
Rewrites(d, n) ==
    {e \in Contents(n) :
        \A c \in DOMAIN e : e[c] = n \/ (c \in DOMAIN d /\ e[c] = d[c])} \ {d}

ChangeContent ==
    /\ changes < MaxChanges
    /\ \E i \in Inodes :
       \E data \in Rewrites(files[i].data, changes + 1) :
       \E stamp \in {files[i].stamp, changes + 1} :
          /\ files[i].kind = "regular"
          /\ files' = [files EXCEPT ![i].data = data, ![i].stamp = stamp]
          /\ sameTick' = (sameTick \/ (i = fd /\ stamp = files[i].stamp))
          /\ seen' = IF i = before THEN seen \cup {data} ELSE seen
    /\ changes' = changes + 1
    /\ UNCHANGED <<named, call, before, fd, holders, opened, payload, result,
                   failed, taken, twice>>

(* Unlink the path or rename another file over it.  That may count as a    *)
(* change of the file that loses the name.                                 *)
ReplaceName ==
    /\ changes < MaxChanges
    /\ \E i \in (Inodes \cup {Nothing}) \ {named} : named' = i
    /\ \/ UNCHANGED files
       \/ named # Nothing /\ files' = [files EXCEPT ![named].stamp = changes + 1]
    /\ changes' = changes + 1
    /\ UNCHANGED <<call, before, fd, holders, opened, payload, result, history>>

(* Unlink the path and create another file under its name.  The new file   *)
(* may get an inode number that is free again, and a stat result does not  *)
(* tell the two apart; an open file keeps its number.                      *)
CreateAnew ==
    /\ changes < MaxChanges
    /\ \E i \in Inodes \ {fd}, kind \in Kinds :
       \E data \in IF kind = "regular" THEN Rewrites(<< >>, changes + 1) ELSE {<< >>} :
          /\ named' = i
          /\ files' = [files EXCEPT ![i] = [kind |-> kind, data |-> data,
                                           stamp |-> changes + 1]]
          /\ seen' = IF i = before /\ kind = "regular" THEN seen \cup {data} ELSE seen
    /\ changes' = changes + 1
    /\ UNCHANGED <<call, before, fd, holders, opened, payload, result, sameTick,
                   failed, taken, twice>>

-----------------------------------------------------------------------------
(* The reader.                                                             *)

ReaderInit ==
    /\ files \in [Inodes -> [kind: Kinds, data: {[c \in 1..l |-> 0] : l \in 0..(MaxCells + 1)},
                             stamp: {0}]]
    /\ \A i \in Inodes : files[i].kind # "regular" => files[i].data = << >>
    /\ named \in Inodes \cup {Nothing}
    /\ changes = 0
    /\ call = "lstat" /\ before = Nothing /\ fd = Nothing /\ holders = {}
    /\ opened = [size |-> 0, stamp |-> 0] /\ payload = << >>
    /\ result = "PENDING"
    /\ seen = {} /\ sameTick = FALSE /\ failed = FALSE /\ taken = FALSE /\ twice = FALSE

(* raise or return: out of the function before the try statement, through *)
(* the with and the finally inside it.                                     *)
Leave(code) ==
    /\ result' = code
    /\ call' = IF call \in {"lstat", "open"} THEN "done" ELSE "exit"
    /\ UNCHANGED <<fd, holders>>

(* Any system call may fail for a reason of its own.                       *)
SystemFails ==
    /\ failed' = TRUE
    /\ Leave("INPUT_UNAVAILABLE")
    /\ UNCHANGED <<before, opened, payload, seen, sameTick, taken, twice>>

Lstat ==
    /\ call = "lstat"
    /\ \/ SystemFails
       \/ /\ named = Nothing
          /\ Leave("INPUT_UNAVAILABLE")
          /\ UNCHANGED <<before, opened, payload, history>>
       \/ /\ named # Nothing
          /\ before' = named /\ seen' = {files[named].data}
          /\ \/ /\ files[named].kind # "regular"
                /\ Leave("INPUT_UNAVAILABLE")
             \/ /\ files[named].kind = "regular" /\ TooLarge(SizeOf(named))
                /\ Leave("INPUT_TOO_LARGE")
             \/ /\ files[named].kind = "regular" /\ ~TooLarge(SizeOf(named))
                /\ call' = "open"
                /\ UNCHANGED <<fd, holders, result>>
          /\ UNCHANGED <<opened, payload, sameTick, failed, taken, twice>>
    /\ UNCHANGED fileSystem

(* Without O_NONBLOCK an open of a FIFO waits for a writer.                *)
OpenReturns(i) == files[i].kind = "fifo" => Flags.nonblock

OpenRefuses(i) == files[i].kind = "symlink" /\ Flags.nofollow

Open ==
    /\ call = "open"
    /\ named # Nothing => OpenReturns(named)
    /\ \/ SystemFails
       \/ /\ named # Nothing => OpenRefuses(named)
          /\ Leave("INPUT_UNAVAILABLE")
          /\ UNCHANGED <<before, opened, payload, history>>
       \/ /\ named # Nothing /\ ~OpenRefuses(named)
          /\ fd' = named /\ holders' = {"function"} /\ call' = "fstat"
          /\ UNCHANGED <<before, opened, payload, result, history>>
    /\ UNCHANGED fileSystem

SameFile == files[fd].kind = "regular" /\ before = fd

FstatOpened ==
    /\ call = "fstat"
    /\ \/ SystemFails
       \/ /\ ~SameFile /\ Leave("INPUT_UNAVAILABLE")
          /\ UNCHANGED <<before, opened, payload, history>>
       \/ /\ SameFile /\ TooLarge(SizeOf(fd)) /\ Leave("INPUT_TOO_LARGE")
          /\ UNCHANGED <<before, opened, payload, history>>
       \/ /\ SameFile /\ ~TooLarge(SizeOf(fd))
          /\ opened' = [size |-> SizeOf(fd), stamp |-> files[fd].stamp]
          /\ call' = "adopt"
          /\ UNCHANGED <<before, fd, holders, payload, result, history>>
    /\ UNCHANGED fileSystem

HandedOverStill == holders \cup {"stream"}

(* with os.fdopen(...) as stream: descriptor = -1                          *)
HandedOver == (holders \cup {"stream"}) \ {"function"}

(* fdopen may fail before the descriptor is the stream's, which leaves it  *)
(* to the function, or after: then it closes the descriptor itself.        *)
Adopt ==
    /\ call = "adopt"
    /\ \/ SystemFails
       \/ /\ failed' = TRUE /\ taken' = TRUE /\ fd' = Nothing
          /\ result' = "INPUT_UNAVAILABLE" /\ call' = "exit"
          /\ UNCHANGED <<before, holders, opened, payload, seen, sameTick, twice>>
       \/ /\ holders' = HandedOver /\ call' = "read"
          /\ UNCHANGED <<before, fd, opened, payload, result, history>>
    /\ UNCHANGED fileSystem

(* The stream reads some of the cells that are there ...                   *)
ReadSome ==
    /\ call = "read"
    /\ ~TooLarge(Len(payload))
    /\ \/ SystemFails
       \/ \E n \in (Len(payload) + 1)..SizeOf(fd) :
             /\ n <= MaxCells + 1
             /\ payload' = payload \o SubSeq(files[fd].data, Len(payload) + 1, n)
             /\ UNCHANGED <<call, before, fd, holders, opened, result, history>>
    /\ UNCHANGED fileSystem

(* ... and the loop ends with an empty chunk or with a cell too many.      *)
ReadEnds ==
    /\ call = "read"
    /\ \/ /\ TooLarge(Len(payload)) /\ Leave("INPUT_TOO_LARGE")
       \/ /\ ~TooLarge(Len(payload)) /\ Len(payload) >= SizeOf(fd)
          /\ call' = "compare"
          /\ UNCHANGED <<fd, holders, result>>
    /\ UNCHANGED <<fileSystem, before, opened, payload, history>>

UnchangedSizeOnly ==
    SizeOf(fd) = opened.size /\ Len(payload) = opened.size

UnchangedSinceOpened ==
    /\ SizeOf(fd) = opened.size /\ files[fd].stamp = opened.stamp
    /\ Len(payload) = opened.size

FstatAfter ==
    /\ call = "compare"
    /\ \/ SystemFails
       \/ /\ \/ TooLarge(SizeOf(fd)) /\ Leave("INPUT_TOO_LARGE")
             \/ /\ ~TooLarge(SizeOf(fd)) /\ ~UnchangedSinceOpened
                /\ Leave("INPUT_UNAVAILABLE")
             \/ /\ ~TooLarge(SizeOf(fd)) /\ UnchangedSinceOpened
                /\ Leave("PAYLOAD")
          /\ UNCHANGED <<before, opened, payload, history>>
    /\ UNCHANGED fileSystem

(* The end of the with statement.  An error of this close replaces what is *)
(* raised or returned.                                                     *)
CloseStream ==
    /\ call = "exit" /\ "stream" \in holders
    /\ fd' = Nothing /\ holders' = holders \ {"stream"}
    /\ \/ UNCHANGED <<result, failed>>
       \/ failed' = TRUE /\ result' = "INPUT_UNAVAILABLE"
    /\ UNCHANGED <<fileSystem, call, before, opened, payload, seen, sameTick, taken, twice>>

(* finally: an error of this close, as of closing what is closed already,  *)
(* goes out of the function as it is.                                      *)
Finally ==
    /\ call = "exit" /\ "stream" \notin holders
    /\ call' = "done" /\ holders' = {}
    /\ \/ "function" \notin holders /\ UNCHANGED <<fd, result, failed, twice>>
       \/ /\ "function" \in holders /\ fd # Nothing /\ fd' = Nothing
          /\ \/ UNCHANGED <<result, failed>>
             \/ result' = "OS_ERROR" /\ failed' = TRUE
          /\ UNCHANGED twice
       \/ /\ "function" \in holders /\ fd = Nothing
          /\ result' = "OS_ERROR" /\ twice' = TRUE
          /\ UNCHANGED <<fd, failed>>
    /\ UNCHANGED <<fileSystem, before, opened, payload, seen, sameTick, taken>>

Read == \/ Lstat \/ Open \/ FstatOpened \/ Adopt \/ ReadSome \/ ReadEnds \/ FstatAfter
        \/ CloseStream \/ Finally

Others == ChangeContent \/ ReplaceName \/ CreateAnew

ReaderNext == Others \/ Read

(* A call that can return returns, whatever the other processes do.        *)
ReaderSpec == ReaderInit /\ [][ReaderNext]_readerVars /\ WF_readerVars(Read)

-----------------------------------------------------------------------------
(* Properties.                                                             *)

Done == call = "done"

(* Every variable has its type.                                            *)
ReaderTypeOK ==
    /\ files \in [Inodes -> [kind: Kinds, data: Contents(MaxChanges),
                             stamp: 0..MaxChanges]]
    /\ named \in Inodes \cup {Nothing}
    /\ changes \in 0..MaxChanges
    /\ call \in {"lstat", "open", "fstat", "adopt", "read", "compare", "exit", "done"}
    /\ before \in Inodes \cup {Nothing}
    /\ fd \in Inodes \cup {Nothing}
    /\ holders \subseteq {"function", "stream"}
    /\ opened \in [size: Nat, stamp: 0..MaxChanges]
    /\ payload \in Contents(MaxChanges)
    /\ result \in {"PENDING", "PAYLOAD", "INPUT_UNAVAILABLE", "INPUT_TOO_LARGE", "OS_ERROR"}
    /\ seen \subseteq Contents(MaxChanges)
    /\ sameTick \in BOOLEAN /\ failed \in BOOLEAN /\ taken \in BOOLEAN /\ twice \in BOOLEAN

(* What the call reports was true, at one instant of the call, of the      *)
(* regular file the path named when it began.  A payload was its whole     *)
(* content: never a mixture of two versions, a prefix, or another file put *)
(* in its place; only changes that fall within one tick of the clock can   *)
(* go unnoticed.  And a file that is called too large was.                 *)
OutcomeWasTrue ==
    /\ result = "PAYLOAD" => sameTick \/ payload \in {d \in seen : Len(d) <= MaxCells}
    /\ result = "INPUT_TOO_LARGE" => \E d \in seen : Len(d) > MaxCells

(* The outcome of a call nobody and nothing disturbs is the file's.        *)
UndisturbedReadIsFaithful ==
    Done /\ changes = 0 /\ ~failed =>
    IF named = Nothing \/ files[named].kind # "regular" THEN result = "INPUT_UNAVAILABLE"
    ELSE IF Len(files[named].data) > MaxCells THEN result = "INPUT_TOO_LARGE"
    ELSE result = "PAYLOAD" /\ payload = files[named].data

(* However the call ends, the descriptor it opened is closed, and closed   *)
(* once: the function and the stream do not both close it.  Only when      *)
(* fdopen fails with the descriptor already taken does the function close  *)
(* it a second time.                                                       *)
DescriptorIsClosed ==
    /\ Done => fd = Nothing
    /\ twice => taken

(* The call returns whatever takes the file's place: a FIFO nobody writes  *)
(* to does not hold it up.                                                 *)
CallReturns == <>Done
=============================================================================
