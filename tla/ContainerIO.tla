---------------------------- MODULE ContainerIO ----------------------------
(***************************************************************************)
(* The way of a line that a container writes (daemon/containerio, the      *)
(* streams and the loggers): a goroutine copies the fifo to the writers of *)
(* the stream, which are the pipe of the log copier and the pipes of       *)
(* attached clients; the copier gives the lines to the log driver, in      *)
(* non-blocking mode through a ring buffer that a goroutine empties; the   *)
(* json-file driver rotates its files.  IO.Close ends all of it, when the  *)
(* task has exited.  One stream is modelled; lines are numbered.           *)
(***************************************************************************)
EXTENDS Integers, SequencesExt, FiniteSets, Scenario

CONSTANTS
    MaxLines,   \* bound: lines the container writes
    LongLines,  \* the ones longer than the ring buffer
    MaxBytes,   \* the size of the ring buffer; any other line has length 1
    MaxSize,    \* lines of a log file before it is rotated
    MaxFile     \* how many log files are kept

(* The cases: "nonBlock" the mode of the logger; "slow" the copying may    *)
(* take longer than IO.Close waits; "stuckClient" a client that attached   *)
(* may stop reading; "rotateFails" a rename or an open may fail.           *)

VARIABLES
    sent,     \* how many lines the container has written
    exited,   \* the task has exited
    copy,     \* the goroutine of CopyPipes
    pipe,     \* the pipe of the log copier is open
    client,   \* the attached client
    copier,   \* LogCopier.copy
    line,     \* the line it has read
    ring,     \* RingBuffer.q
    bytes,    \* RingBuffer.currentBytes
    closed,   \* RingBuffer.closed
    runner,   \* LogBuffer.run
    held,     \* the line it has popped
    closer,   \* IO.Close
    drained,  \* what Drain has returned and is not written yet
    files,    \* the log files, the current one first
    driver,   \* the file of the log driver is open
    lost      \* lines the driver did not write

copyVars == <<sent, exited, copy, pipe, client>>
ringVars == <<ring, bytes, closed, runner, held>>
fileVars == <<files, driver, lost>>
ioVars == <<copyVars, copier, line, ringVars, closer, drained, fileVars>>

Length(n) == IF n \in LongLines THEN MaxBytes + 1 ELSE 1

-----------------------------------------------------------------------------
(* The json-file driver *)

MutantRotateOneLess == SubSeq(<<(<<>>)>> \o files, 1, MaxFile - 1)

\* The oldest file is overwritten; with one file, it is truncated.
Rotate == SubSeq(<<(<<>>)>> \o files, 1, MaxFile)

Full == Len(files[1]) >= MaxSize

\* WriteLogMessage: a file that is closed, by Close or by a rotation that has
\* failed in its renames or in the open after them, takes no line; the error
\* is logged at most.
WriteLog(n) ==
    \/ /\ driver
       /\ files' = [IF Full THEN Rotate ELSE files EXCEPT ![1] = Append(@, n)]
       /\ UNCHANGED <<driver, lost>>
    \/ /\ ~driver \/ (Full /\ On("rotateFails"))
       /\ driver' = FALSE /\ lost' = lost \cup {n}
       /\ files' \in IF driver THEN {files, Rotate} ELSE {files}

-----------------------------------------------------------------------------
(* The stream *)

Exit ==
    /\ ~exited /\ exited' = TRUE
    /\ UNCHANGED <<sent, copy, pipe, client, copier, line, ringVars, closer, drained,
                   fileVars>>

CopyRead ==
    /\ copy = "read"
    /\ \/ ~exited /\ sent < MaxLines /\ sent' = sent + 1 /\ copy' = "lock"
       \/ exited /\ copy' = "done" /\ UNCHANGED sent
    /\ UNCHANGED <<exited, pipe, client, copier, line, ringVars, closer, drained, fileVars>>

\* multiWriter.Write takes the lock; after Close it has no writers.
CopyLock ==
    /\ copy = "lock"
    /\ copy' = IF pipe THEN "toLog" ELSE "read"
    /\ UNCHANGED <<sent, exited, pipe, client, copier, line, ringVars, closer, drained,
                   fileVars>>

\* The pipe hands the line to the copier, which has read the one before.
ToLog ==
    /\ copy = "toLog" /\ copier = "read"
    /\ copy' = "toClient" /\ copier' = "write" /\ line' = sent
    /\ UNCHANGED <<sent, exited, pipe, client, ringVars, closer, drained, fileVars>>

\* A client that is gone is evicted.
ToClient ==
    /\ copy = "toClient" /\ client # "stuck"
    /\ copy' = "read" /\ client' = IF client = "gone" THEN "none" ELSE client
    /\ UNCHANGED <<sent, exited, pipe, copier, line, ringVars, closer, drained, fileVars>>

Locked == copy \in {"toLog", "toClient"}

Attach ==
    /\ client = "none" /\ pipe /\ ~Locked /\ client' = "attached"
    /\ UNCHANGED <<sent, exited, copy, pipe, copier, line, ringVars, closer, drained,
                   fileVars>>

ClientSticks ==
    /\ client = "attached" /\ On("stuckClient") /\ client' = "stuck"
    /\ UNCHANGED <<sent, exited, copy, pipe, copier, line, ringVars, closer, drained,
                   fileVars>>

Detach ==
    /\ client \in {"attached", "stuck"} /\ client' = "gone"
    /\ UNCHANGED <<sent, exited, copy, pipe, copier, line, ringVars, closer, drained,
                   fileVars>>

-----------------------------------------------------------------------------
(* The copier and the ring buffer *)

\* Push drops the new line when it does not fit, and never an older one.
\* currentBytes is not increased, so that it is at most zero and the lines in
\* the ring do not count: a ring that is full takes more.
Push ==
    /\ copier = "write" /\ On("nonBlock") /\ copier' = "read"
    /\ IF closed \/ bytes + Length(line) > MaxBytes
       THEN UNCHANGED ring ELSE ring' = Append(ring, line)
    /\ UNCHANGED <<copyVars, line, bytes, closed, runner, held, closer, drained, fileVars>>

WriteDirectly ==
    /\ copier = "write" /\ ~On("nonBlock") /\ copier' = "read"
    /\ WriteLog(line)
    /\ UNCHANGED <<copyVars, line, ringVars, closer, drained>>

CopierEOF ==
    /\ copier = "read" /\ ~pipe /\ copier' = "done"
    /\ UNCHANGED <<copyVars, line, ringVars, closer, drained, fileVars>>

Pop ==
    /\ runner = "pop" /\ On("nonBlock")
    /\ \/ /\ ~closed /\ ring # <<>>
          /\ held' = Head(ring) /\ ring' = Tail(ring) /\ runner' = "write"
          /\ bytes' = bytes - Length(Head(ring))
       \/ closed /\ runner' = "done" /\ UNCHANGED <<held, ring, bytes>>
    /\ UNCHANGED <<copyVars, copier, line, closed, closer, drained, fileVars>>

RunWrite ==
    /\ runner = "write"
    /\ WriteLog(held) /\ held' = 0 /\ runner' = "pop"
    /\ UNCHANGED <<copyVars, copier, line, ring, bytes, closed, closer, drained>>

-----------------------------------------------------------------------------
(* IO.Close *)

TimedOut == On("slow") \/ On("stuckClient")

CloseIO ==
    /\ closer = "idle" /\ exited /\ closer' = "wait"
    /\ UNCHANGED <<copyVars, copier, line, ringVars, drained, fileVars>>

WaitStream ==
    /\ closer = "wait" /\ (copy = "done" \/ TimedOut)
    /\ closer' = "closeStream"
    /\ UNCHANGED <<copyVars, copier, line, ringVars, drained, fileVars>>

MutantCloseKeepsPipe ==
    /\ closer = "closeStream" /\ ~Locked
    /\ client' = "none" /\ closer' = "waitCopier"
    /\ UNCHANGED <<sent, exited, copy, pipe, copier, line, ringVars, drained, fileVars>>

\* multiWriter.Close needs the lock of the writers.
CloseStream ==
    /\ closer = "closeStream" /\ ~Locked
    /\ pipe' = FALSE /\ client' = "none" /\ closer' = "waitCopier"
    /\ UNCHANGED <<sent, exited, copy, copier, line, ringVars, drained, fileVars>>

WaitCopier ==
    /\ closer = "waitCopier" /\ (copier = "done" \/ TimedOut)
    /\ closer' = IF On("nonBlock") THEN "closeRing" ELSE "closeDriver"
    /\ UNCHANGED <<copyVars, copier, line, ringVars, drained, fileVars>>

CloseRing ==
    /\ closer = "closeRing" /\ closed' = TRUE /\ closer' = "drain"
    /\ UNCHANGED <<copyVars, copier, line, ring, bytes, runner, held, drained, fileVars>>

Drain ==
    /\ closer = "drain" /\ closer' = "writeDrained"
    /\ drained' = ring /\ ring' = <<>> /\ bytes' = 0
    /\ UNCHANGED <<copyVars, copier, line, closed, runner, held, fileVars>>

WriteDrained ==
    /\ closer = "writeDrained" /\ drained # <<>>
    /\ WriteLog(Head(drained)) /\ drained' = Tail(drained)
    /\ UNCHANGED <<copyVars, copier, line, ringVars, closer>>

CloseDriver ==
    /\ closer = "closeDriver" \/ (closer = "writeDrained" /\ drained = <<>>)
    /\ driver' = FALSE /\ closer' = "done"
    /\ UNCHANGED <<copyVars, copier, line, ringVars, drained, files, lost>>

IOInit ==
    /\ sent = 0 /\ exited = FALSE /\ copy = "read" /\ pipe = TRUE /\ client = "none"
    /\ copier = "read" /\ line = 0
    /\ ring = <<>> /\ bytes = 0 /\ closed = FALSE /\ runner = "pop" /\ held = 0
    /\ closer = "idle" /\ drained = <<>>
    /\ files = <<(<<>>)>> /\ driver = TRUE /\ lost = {}

CopyStep == CopyRead \/ CopyLock \/ ToLog \/ ToClient
CopierStep == Push \/ WriteDirectly \/ CopierEOF
RingStep == Pop \/ RunWrite
CloseStep == WaitStream \/ CloseStream \/ WaitCopier \/ CloseRing \/ Drain \/ WriteDrained \/ CloseDriver

IONext ==
    \/ CopyStep \/ CopierStep \/ RingStep \/ CloseIO \/ CloseStep
    \/ Exit \/ Attach \/ ClientSticks \/ Detach

\* The goroutines go on; the container and its clients owe nothing.
IOFairness ==
    /\ WF_ioVars(On("io") /\ CopyStep) /\ WF_ioVars(On("io") /\ CopierStep)
    /\ WF_ioVars(On("io") /\ RingStep) /\ WF_ioVars(On("io") /\ CloseStep)

-----------------------------------------------------------------------------
(* Properties *)

Lines == 1..MaxLines

\* All log files, the oldest line first.
Log == FoldLeft(LAMBDA log, file : file \o log, <<>>, files)

\* Every variable has its type.
IOTypeOK ==
    /\ sent \in 0..MaxLines /\ exited \in BOOLEAN /\ pipe \in BOOLEAN
    /\ copy \in {"read", "lock", "toLog", "toClient", "done"}
    /\ client \in {"none", "attached", "stuck", "gone"}
    /\ copier \in {"read", "write", "done"} /\ line \in 0..sent
    /\ ring \in Seq(Lines) /\ drained \in Seq(Lines) /\ bytes <= 0 /\ closed \in BOOLEAN
    /\ runner \in {"pop", "write", "done"} /\ held \in 0..sent /\ (held # 0 <=> runner = "write")
    /\ closer \in {"idle", "wait", "closeStream", "waitCopier", "closeRing", "drain",
                   "writeDrained", "closeDriver", "done"}
    /\ Len(files) \in 1..MaxFile /\ \A i \in DOMAIN files : Len(files[i]) <= MaxSize
    /\ lost \subseteq Lines /\ driver \in BOOLEAN

\* The log has the lines in the order the container wrote them, whichever
\* files it is spread over: without the ring buffer it is a run of
\* consecutive lines, and with it at most one line is out of order, the one
\* LogBuffer.run held while Close wrote what it had drained.
LogKeepsOrder ==
    LET late == {i \in 1..(Len(Log) - 1) : Log[i + 1] <= Log[i]}
    IN /\ ~On("nonBlock") => \A i \in 1..(Len(Log) - 1) : Log[i + 1] = Log[i] + 1
       /\ Cardinality(late) <= IF closer \in {"writeDrained", "done"} THEN 1 ELSE 0

\* When IO.Close has returned, and none of its waits has timed out, every
\* line is in the log, except one that is larger than the whole ring buffer,
\* the oldest ones when the files that are kept are full, and in non-blocking
\* mode the single line LogBuffer.run held when Close closed the driver under
\* it.  The ring buffer loses no other line, however many it holds: Push does
\* not bound it.  (Whether the text of a line is still its own is not
\* modelled: the ring keeps slices of the copier's read buffer.)
LogIsComplete ==
    LET late == IF On("nonBlock") THEN 1 ELSE 0
    IN  (closer = "done" /\ runner # "write" /\ NoneOf({"slow", "stuckClient", "rotateFails"})) =>
            /\ Cardinality(lost) <= late
            /\ \A n \in (1..sent) \ (lost \cup LongLines \cup ToSet(Log)) :
                   /\ Len(Log) > (MaxFile - 1) * MaxSize
                   /\ Cardinality({i \in DOMAIN Log : Log[i] < n}) <= late

\* IO.Close returns and the goroutine of the ring buffer ends, whatever the
\* container wrote, unless an attached client has stopped reading: Write
\* holds the lock of the writers while it waits for the client, and Close
\* needs it, after its time-outs.
CloseReturns ==
    (On("io") /\ closer = "wait") ~>
        (client = "stuck" \/ (closer = "done" /\ (On("nonBlock") => runner = "done")))

\* The log of a container has what the container wrote: in order, and all of it.
LogIsKept == IOTypeOK /\ LogKeepsOrder /\ LogIsComplete
=============================================================================
