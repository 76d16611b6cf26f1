----------------------------- MODULE LogFollow -----------------------------
(***************************************************************************)
(* Reading the log of a container: ContainerManager.Logs and the reader of *)
(* the json-file log driver (daemon/mgr/container_logs.go, daemon/logger/  *)
(* jsonfile).  The reader goroutine finds the last lines, reads on to the  *)
(* end of the file and then follows it with fsnotify; the goroutine of     *)
(* Logs passes the lines to the client, and ends a follow when a timer     *)
(* finds that the container no longer runs.  A line is its number.         *)
(***************************************************************************)
EXTENDS Integers, SequencesExt, Scenario

CONSTANTS
    MaxLogged,   \* bound: the lines the container writes
    BlockSize,   \* blockSize, in bytes
    BufSize,     \* defaultBufSize, the capacity of watcher.Msgs
    TailLines,   \* cfg.Tail in the case "tail"
    UntilLine    \* the last line before cfg.Until in the case "until"

(* The cases: "follow", "tail" and "until" are options of the client;      *)
(* "rotate" the log is rotated, and "truncate" it is rotated with max-file *)
(* 1, which empties it; "errors" a line is read that is written only in    *)
(* part, or the file cannot be watched; "drains" the logger has lines left *)
(* when the container exits; "slow" a goroutine, IO.Close or the client is *)
(* held up for longer than the timers.                                     *)

VARIABLES
    logged,     \* the lines written so far
    cut,        \* the lines in the file before it was rotated, 0 before that
    box,        \* the container: "running", "draining" when Running is unset and
                \* IO.Close writes what is buffered, "stopped" or "removed"
    follower,   \* the goroutine of ReadLogMessages
    fsEvents,   \* the events of its fileWatcher
    msgs,       \* watcher.Msgs
    errs,       \* the errors in watcher.Err, which has room for one
    logs,       \* the goroutine of Logs
    out,        \* the lines the client has got
    left        \* the client has cancelled its request

logVars == <<logged, cut, box, follower, fsEvents, msgs, errs, logs, out, left>>

Truncated == cut # 0 /\ On("truncate")

File == IF cut = 0 \/ Truncated THEN 1 ELSE 2
FirstLine(f) == IF f = 1 /\ ~Truncated THEN 1 ELSE cut + 1
LastLine(f) == IF f = 1 /\ cut # 0 /\ ~Truncated THEN cut ELSE logged

\* cfg.Follow, and the lines that were there when the file was opened, from start
\* to seen; file and watch are the files that are read and watched, torn says
\* that the next read starts within a line.  ahead is the last line the decoder
\* had read when the file was truncated.
NoReader == [at |-> "none", pos |-> 1, file |-> 1, watch |-> 0, torn |-> FALSE, ahead |-> 0,
             follow |-> FALSE, first |-> 1, start |-> 1, seen |-> 0]

RGoto(at) == follower' = [follower EXCEPT !.at = at]
Closed == logs.at = "returned"       \* watcher.WatchClose is closed

-----------------------------------------------------------------------------
(* The container *)

Notify(event) ==
    fsEvents' = IF follower.watch # File \/ (fsEvents # <<>> /\ Last(fsEvents) = event)
                THEN fsEvents ELSE Append(fsEvents, event)

WriteLine ==
    /\ box \in {"running", "draining"} /\ logged < MaxLogged
    /\ logged' = logged + 1 /\ Notify("write")
    /\ UNCHANGED <<cut, box, follower, msgs, errs, logs, out, left>>

RotateLog ==
    /\ On("rotate") /\ box \in {"running", "draining"} /\ cut = 0 /\ logged > 0
    /\ cut' = logged /\ Notify("rename")
    /\ UNCHANGED <<logged, box, follower, msgs, errs, logs, out, left>>

Sending == follower.at \in {"tailSend", "followSend"}

\* The line after n: a reader keeps its offset in a file that was truncated.
LineAfter(n) == IF n = follower.ahead THEN cut + n + 1 ELSE n + 1

\* With max-file 1 the file is opened again with O_TRUNC.  A reader that has
\* read up to some line goes on at its offset, which need not be the beginning
\* of a line.
TruncateLog ==
    /\ On("truncate") /\ box \in {"running", "draining"} /\ cut = 0 /\ logged > 0
    /\ cut' = logged /\ Notify("write")
    /\ IF follower.at \in {"none", "seek", "end", "closed"} THEN UNCHANGED follower
       ELSE \E n \in (IF Sending THEN follower.pos ELSE follower.pos - 1)..logged, torn \in BOOLEAN :
               follower' = [follower EXCEPT !.ahead = n, !.torn = torn,
                                            !.pos = IF n < @ THEN logged + n + 1 ELSE @]
    /\ UNCHANGED <<logged, box, msgs, errs, logs, out, left>>

\* markStoppedAndRelease and markExitedAndRelease unset Running and then close
\* the IO, which writes what the logger still has.
BoxStops ==
    /\ box = "running" /\ box' = IF On("drains") THEN "draining" ELSE "stopped"
    /\ UNCHANGED <<logged, cut, follower, fsEvents, msgs, errs, logs, out, left>>

BoxDrained ==
    /\ box = "draining" /\ box' = "stopped"
    /\ UNCHANGED <<logged, cut, follower, fsEvents, msgs, errs, logs, out, left>>

\* The container is removed, with its log.
BoxGoes ==
    /\ box = "stopped" /\ follower.at # "none" /\ box' = "removed"
    /\ UNCHANGED <<logged, cut, follower, fsEvents, msgs, errs, logs, out, left>>

-----------------------------------------------------------------------------
(* seekOffsetByTailLines *)

EOL == "n"
Bytes(f) ==
    FlattenSeq([i \in 1..(LastLine(f) - FirstLine(f) + 1) |->
                   [j \in 1..(i % 3) |-> "x"] \o <<EOL>>])

Count(b) == Len(SelectSeq(b, LAMBDA c : c = EOL))

\* The blocks are read from the last to the first until more than n lines have
\* begun in them; cnt - n lines are then dropped from the last block read.
SeekOffsetByTailLines(bytes, n) ==
    LET Left(k) == IF Len(bytes) > k * BlockSize THEN Len(bytes) - k * BlockSize ELSE 0
        Cnt(k) == Count(SubSeq(bytes, Left(k) + 1, Len(bytes)))
        Enough(k) == Cnt(k) > n \/ Left(k) = 0
        k == CHOOSE j \in 1..(Len(bytes) + 1) : Enough(j) /\ \A i \in 1..(j - 1) : ~Enough(i)
        Dropped(l) == Count(SubSeq(bytes, Left(k) + 1, l)) = Cnt(k) - n
    IN IF Cnt(k) <= n THEN Left(k)
       ELSE CHOOSE l \in Left(k)..Len(bytes) :
                Dropped(l) /\ \A m \in Left(k)..(l - 1) : ~Dropped(m)

-----------------------------------------------------------------------------
(* ReadLogMessages *)

\* A follow is unset when the container does not run.
Logs ==
    /\ follower.at = "none"
    /\ follower' = [NoReader EXCEPT !.at = "seek", !.follow = On("follow") /\ box = "running"]
    /\ logs' = [logs EXCEPT !.at = "select"]
    /\ UNCHANGED <<logged, cut, box, fsEvents, msgs, errs, out, left>>

ReaderFails == errs = 0 /\ errs' = 1 /\ RGoto("end")

\* The file is opened, unless the container has gone, and its last lines found.
Read ==
    /\ follower.at = "seek"
    /\ \/ box = "removed" /\ ReaderFails
       \/ /\ box # "removed" /\ UNCHANGED errs
          /\ LET bytes == Bytes(File)
                 offset == IF On("tail") THEN SeekOffsetByTailLines(bytes, TailLines) ELSE 0
                 line == FirstLine(File) + Count(SubSeq(bytes, 1, offset))
             IN follower' = [follower EXCEPT !.at = "tail", !.file = File, !.pos = line,
                                             !.first = line, !.start = FirstLine(File),
                                             !.seen = logged]
    /\ UNCHANGED <<logged, cut, box, fsEvents, msgs, logs, out, left>>

AtEOF == follower.pos > LastLine(follower.file)

\* The last line is there in part, or the reader is in the middle of a line; of a
\* file that was truncated, it finds nothing there until the file is that long.
CutShort == On("errors") /\ follower.pos = LastLine(follower.file)
Torn == follower.torn /\ (Truncated => ~AtEOF /\ follower.pos > cut)

AfterTail == IF follower.follow THEN "watch" ELSE "end"

\* The loop ends here; its decoder may have read further, up to the middle of a
\* line.
ReadPast ==
    \E pos \in follower.pos..LastLine(follower.file), torn \in BOOLEAN :
        follower' = [follower EXCEPT !.at = AfterTail, !.pos = pos + 1, !.torn = torn]

\* A line past Until ends the loop.  The error of a line in parts is sent, and
\* the follow begins all the same.
TailFile ==
    /\ follower.at = "tail"
    /\ \/ AtEOF /\ RGoto(AfterTail) /\ UNCHANGED errs
       \/ /\ ~AtEOF /\ ~Torn /\ On("until") /\ follower.pos > UntilLine
          /\ ReadPast /\ UNCHANGED errs
       \/ /\ ~AtEOF /\ ~Torn /\ ~(On("until") /\ follower.pos > UntilLine)
          /\ RGoto("tailSend") /\ UNCHANGED errs
       \/ Torn /\ errs = 0 /\ errs' = 1 /\ ReadPast
       \/ /\ CutShort /\ errs = 0 /\ errs' = 1
          /\ follower' = [follower EXCEPT !.at = AfterTail, !.torn = TRUE]
    /\ UNCHANGED <<logged, cut, box, fsEvents, msgs, logs, out, left>>

\* The file is watched by its name.
WatchFileChange ==
    /\ follower.at = "watch"
    /\ \/ /\ box # "removed" /\ UNCHANGED errs
          /\ follower' = [follower EXCEPT !.at = "follow", !.watch = File]
       \/ (On("errors") \/ box = "removed") /\ ReaderFails
    /\ UNCHANGED <<logged, cut, box, fsEvents, msgs, logs, out, left>>

\* At the end of the file the reader waits for an event; any other error is the
\* end of the follow.
FollowFile ==
    /\ follower.at = "follow"
    /\ \/ ~Torn /\ AtEOF /\ RGoto("wait") /\ UNCHANGED errs
       \/ /\ ~Torn /\ ~AtEOF /\ UNCHANGED errs
          /\ RGoto(IF On("until") /\ follower.pos > UntilLine THEN "end" ELSE "followSend")
       \/ (Torn \/ CutShort) /\ ReaderFails
    /\ UNCHANGED <<logged, cut, box, fsEvents, msgs, logs, out, left>>

MutantSendBlocks ==
    /\ Sending
    /\ Len(msgs) < BufSize /\ msgs' = Append(msgs, follower.pos)
    /\ follower' = [follower EXCEPT !.at = IF @ = "tailSend" THEN "tail" ELSE "follow", !.pos = LineAfter(@)]
    /\ UNCHANGED <<logged, cut, box, fsEvents, errs, logs, out, left>>

SendMsg ==
    /\ Sending
    /\ LET back == IF follower.at = "tailSend" THEN "tail" ELSE "follow"
       IN \/ /\ Len(msgs) < BufSize /\ msgs' = Append(msgs, follower.pos)
             /\ follower' = [follower EXCEPT !.at = back, !.pos = LineAfter(@)]
          \/ /\ Closed /\ UNCHANGED msgs
             /\ RGoto(IF back = "tail" THEN AfterTail ELSE "end")
    /\ UNCHANGED <<logged, cut, box, fsEvents, errs, logs, out, left>>

\* A write is read; a rename ends the follow, and so do the timer that no longer
\* finds the file and an error of the watcher.
HandleEvent ==
    /\ follower.at = "wait"
    /\ \/ /\ UNCHANGED errs
          /\ \/ fsEvents # <<>> /\ RGoto(IF Head(fsEvents) = "write" THEN "follow" ELSE "end")
             \/ Closed /\ RGoto("end")
             \/ box = "removed" /\ (fsEvents = <<>> \/ On("slow")) /\ RGoto("end")
       \/ On("errors") /\ ReaderFails
    /\ fsEvents' = IF fsEvents = <<>> THEN <<>> ELSE Tail(fsEvents)
    /\ UNCHANGED <<logged, cut, box, msgs, logs, out, left>>

CloseMsgs ==
    /\ follower.at = "end"
    /\ follower' = [follower EXCEPT !.at = "closed", !.watch = 0]
    /\ UNCHANGED <<logged, cut, box, fsEvents, msgs, errs, logs, out, left>>

-----------------------------------------------------------------------------
(* The goroutine of Logs *)

LogsReturn(why) == logs' = [at |-> "returned", line |-> 0, why |-> why]

\* select takes what is ready, in no order.
LogsSelect ==
    /\ logs.at = "select"
    /\ \/ left /\ LogsReturn("left") /\ UNCHANGED <<msgs, errs>>
       \/ /\ msgs # <<>> /\ logs' = [logs EXCEPT !.at = "send", !.line = Head(msgs)]
          /\ msgs' = Tail(msgs) /\ UNCHANGED errs
       \/ msgs = <<>> /\ follower.at = "closed" /\ LogsReturn("end") /\ UNCHANGED <<msgs, errs>>
       \/ errs > 0 /\ errs' = errs - 1 /\ LogsReturn("error") /\ UNCHANGED msgs
    /\ UNCHANGED <<logged, cut, box, follower, fsEvents, out, left>>

Quiet == msgs = <<>> /\ errs = 0 /\ follower.at = "wait" /\ fsEvents = <<>>

\* The timer fires when nothing has happened for a while, or when the goroutine
\* was held up: then other channels may be ready as well.
LogsTimer ==
    /\ logs.at = "select"
    /\ (box = "stopped" /\ Quiet) \/ (box \in {"draining", "stopped"} /\ On("slow"))
    /\ LogsReturn("stopped")
    /\ UNCHANGED <<logged, cut, box, follower, fsEvents, msgs, errs, out, left>>

LogsSend ==
    /\ logs.at = "send"
    /\ \/ out' = Append(out, logs.line) /\ logs' = [logs EXCEPT !.at = "select", !.line = 0]
       \/ left /\ LogsReturn("left") /\ UNCHANGED out
    /\ UNCHANGED <<logged, cut, box, follower, fsEvents, msgs, errs, left>>

ClientLeaves ==
    /\ follower.at # "none" /\ ~left /\ left' = TRUE
    /\ UNCHANGED <<logged, cut, box, follower, fsEvents, msgs, errs, logs, out>>

-----------------------------------------------------------------------------
LogInit ==
    /\ logged = 0 /\ cut = 0 /\ box = "running" /\ follower = NoReader /\ fsEvents = <<>>
    /\ msgs = <<>> /\ errs = 0 /\ logs = [at |-> "none", line |-> 0, why |-> ""]
    /\ out = <<>> /\ left = FALSE

ReaderStep ==
    \/ Read \/ TailFile \/ WatchFileChange \/ FollowFile \/ SendMsg \/ HandleEvent \/ CloseMsgs
LogsStep == LogsSelect \/ LogsTimer \/ LogsSend

LogNext ==
    \/ WriteLine \/ RotateLog \/ TruncateLog \/ BoxStops \/ BoxDrained \/ BoxGoes
    \/ Logs \/ ReaderStep \/ LogsStep \/ ClientLeaves

\* Both goroutines go on, the timers fire, and the client reads until it leaves.
LogFairness == WF_logVars(On("logs") /\ ReaderStep) /\ WF_logVars(On("logs") /\ LogsStep)

-----------------------------------------------------------------------------
(* Properties *)

\* Every variable has its type.
LogTypeOK ==
    /\ logged \in 0..MaxLogged /\ cut \in 0..logged /\ box \in {"running", "draining", "stopped", "removed"}
    /\ follower.at \in {"none", "seek", "tail", "tailSend", "watch", "follow", "followSend",
                      "wait", "end", "closed"}
    /\ Len(msgs) <= BufSize /\ errs \in 0..1
    /\ logs.at \in {"none", "select", "send", "returned"}

\* The client gets the lines in order and none twice, and without a gap from the
\* line the tail asks for: blocks that split lines, the hand-over from tailFile
\* to followFile and events that were merged lose and repeat nothing.  (A file
\* that is truncated under its reader leaves a gap that nobody reports: the
\* reader waits until the file is as long as before, and goes on from there.)
LinesAreInOrder ==
    /\ \A i \in 1..(Len(out) - 1) : out[i] < out[i + 1]
    /\ ~On("truncate") => \A i \in DOMAIN out : out[i] = follower.first + i - 1
    /\ follower.at \notin {"none", "seek"} =>
           LET n == follower.seen - follower.start + 1
           IN follower.first = IF On("tail") /\ n > TailLines THEN follower.seen - TailLines + 1
                             ELSE follower.start

\* When Logs has ended by itself, the client has every line that was in the file
\* when it was opened, and after a follow every line the container has written,
\* those included that IO.Close writes when Running is unset.  (A timer that
\* fires late, a rotation or a line read in parts cut it short; Until means to.
\* An error that is still in its channel is never shown: select took the close
\* of Msgs first.)
LogIsWhole ==
    /\ NoneOf({"slow", "rotate", "truncate", "errors", "until"})
    /\ logs.why \in {"end", "stopped"} /\ errs = 0
    => follower.first + Len(out) - 1 >= IF follower.follow THEN logged ELSE follower.seen

\* Logs and its reader end once the client leaves or the container has stopped.
\* (A second error, when nobody reads the first, keeps the reader for ever.)
LogsEnd ==
    /\ NoneOf({"errors", "truncate"})
    /\ On("logs") /\ logs.at # "none" /\ (left \/ box \in {"stopped", "removed"})
    ~> logs.at = "returned" /\ follower.at = "closed"

\* A client that follows catches up, again and again, with what a running
\* container has written: the file is watched before it is read to its end, so
\* no write goes unnoticed.
LinesArrive ==
    []<>(NoneOf({"rotate", "truncate", "until"}) /\ follower.follow =>
            Closed \/ follower.first + Len(out) > logged)

\* Logs returns the log it is asked for, and returns.
LogsAreRead == [](LogTypeOK /\ LinesAreInOrder /\ LogIsWhole) /\ LogsEnd /\ LinesArrive
=============================================================================
