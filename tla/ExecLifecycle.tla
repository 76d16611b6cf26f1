--------------------------- MODULE ExecLifecycle ---------------------------
(***************************************************************************)
(* One exec: a process that clients start in a running container, from its *)
(* entry in ExecProcesses (CreateExec, StartExec, the exit hook, the       *)
(* collector of old entries) to the process in containerd (execContainer). *)
(* Sections under the lock of the exec's config are one step.              *)
(***************************************************************************)
EXTENDS Scenario

CONSTANTS
    Starters,   \* calls of StartExec for the exec
    None

ASSUME ExecAssumption == None \notin Starters

(* The cases: "twice" the exec is started more than once; "inspect"        *)
(* somebody else inspects it; "attachError" the client goes away, and its  *)
(* attach ends in an error; "waitFails" containerd refuses the wait for a  *)
(* process it has made; "killFails" a process that has timed out cannot be *)
(* killed.                                                                 *)

VARIABLES
    up,       \* the container runs
    reg,      \* the exec's entry in mgr.ExecProcesses
    config,   \* what the entry says of the process
    ios,      \* the starter whose IO is in mgr.IOs
    proc,     \* per starter: its process in containerd
    pc,       \* per starter: the next step of StartExec
    reaper,   \* per starter: the next step of the clean-up after its process
    detach,   \* per starter: whether it does not wait for the process
    got       \* per starter: the exit code its client has read

execVars == <<up, reg, config, ios, proc, pc, reaper, detach, got>>

CreateExec ==
    /\ reg = "none" /\ up
    /\ reg' = "listed"
    /\ UNCHANGED <<up, config, ios, proc, pc, reaper, detach, got>>

\* GetExecConfig takes note that the end of the process was seen.
GetExecConfig == config' = [config EXCEPT !.used = @ \/ config.exited]

Inspect ==
    /\ On("inspect") /\ reg = "listed" /\ GetExecConfig
    /\ UNCHANGED <<up, reg, ios, proc, pc, reaper, detach, got>>

-----------------------------------------------------------------------------
(* StartExec *)

StartExec(s) ==
    /\ pc[s] = "idle" /\ reg = "listed" /\ GetExecConfig
    /\ On("twice") \/ \A t \in Starters : pc[t] = "idle"
    /\ \E d \in BOOLEAN : detach' = [detach EXCEPT ![s] = d]
    /\ pc' = [pc EXCEPT ![s] = "begin"]
    /\ UNCHANGED <<up, reg, ios, proc, reaper, got>>

\* Refused if the container, its user or its limits are not in order, or if the
\* exec has an IO already.
Refuse(s) ==
    /\ pc[s] = "begin"
    /\ pc' = [pc EXCEPT ![s] = "fail"]
    /\ UNCHANGED <<up, reg, config, ios, proc, reaper, detach, got>>

InitExecIO(s) ==
    /\ pc[s] = "begin" /\ ios = None
    /\ ios' = s
    /\ config' = [config EXCEPT !.running = TRUE]
    /\ pc' = [pc EXCEPT ![s] = "exec"]
    /\ UNCHANGED <<up, reg, proc, reaper, detach, got>>

\* containerd takes one process per id.
Exec(s) ==
    /\ pc[s] = "exec"
    /\ \/ /\ up /\ \A t \in Starters : proc[t] = "none"
          /\ proc' = [proc EXCEPT ![s] = "created"]
          /\ pc' = [pc EXCEPT ![s] = "start"]
       \/ pc' = [pc EXCEPT ![s] = "abort"] /\ UNCHANGED proc
       \/ /\ On("waitFails") /\ up /\ \A t \in Starters : proc[t] = "none"
          /\ proc' = [proc EXCEPT ![s] = "created"]
          /\ pc' = [pc EXCEPT ![s] = "abort"]
    /\ UNCHANGED <<up, reg, config, ios, reaper, detach, got>>

StartProcess(s) ==
    /\ pc[s] = "start"
    /\ \/ /\ up
          /\ proc' = [proc EXCEPT ![s] = "running"]
          /\ reaper' = [reaper EXCEPT ![s] = "wait"]
          /\ pc' = [pc EXCEPT ![s] = IF detach[s] THEN "attach" ELSE "reap"]
       \/ /\ proc' = [proc EXCEPT ![s] = "none"]
          /\ pc' = [pc EXCEPT ![s] = "abort"] /\ UNCHANGED reaper
    /\ UNCHANGED <<up, reg, config, ios, detach, got>>

\* The process ends by itself or by SIGKILL after the timeout.
ProcessExit(s) ==
    /\ proc[s] = "running"
    /\ proc' = [proc EXCEPT ![s] = "exited"]
    /\ UNCHANGED <<up, reg, config, ios, pc, reaper, detach, got>>

\* With the container all of its processes end.
ContainerExit ==
    /\ up /\ up' = FALSE
    /\ proc' = [s \in Starters |-> IF proc[s] = "running" THEN "exited" ELSE proc[s]]
    /\ UNCHANGED <<reg, config, ios, pc, reaper, detach, got>>

\* Neither SIGKILL nor SIGTERM can be sent: there is no message for the hooks.
KillFails(s) ==
    /\ On("killFails") /\ pc[s] = "reap" /\ proc[s] = "running"
    /\ reaper' = [reaper EXCEPT ![s] = "none"]
    /\ pc' = [pc EXCEPT ![s] = "abort"]
    /\ UNCHANGED <<up, reg, config, ios, proc, detach, got>>

Reaped(s) ==
    /\ pc[s] = "reap" /\ reaper[s] = "done"
    /\ pc' = [pc EXCEPT ![s] = "attach"]
    /\ UNCHANGED <<up, reg, config, ios, proc, reaper, detach, got>>

\* <-attachErrCh
AttachReturns(s) ==
    /\ pc[s] = "attach"
    /\ \/ pc' = [pc EXCEPT ![s] = "read"]
       \/ On("attachError") /\ ~detach[s] /\ pc' = [pc EXCEPT ![s] = "abort"]
    /\ UNCHANGED <<up, reg, config, ios, proc, reaper, detach, got>>

\* The deferred functions of a StartExec that fails: the inner one, then the
\* outer one, which a StartExec that was refused runs too.
Abort(s) ==
    /\ pc[s] = "abort"
    /\ ios' = None
    /\ pc' = [pc EXCEPT ![s] = "fail"]
    /\ UNCHANGED <<up, reg, config, proc, reaper, detach, got>>

Fail(s) ==
    /\ pc[s] = "fail"
    /\ config' = [config EXCEPT !.running = FALSE, !.code = "failed",
                                !.exited = TRUE, !.used = TRUE]
    /\ pc' = [pc EXCEPT ![s] = "end"]
    /\ UNCHANGED <<up, reg, ios, proc, reaper, detach, got>>

\* ExecSync asks for the exit code as soon as StartExec has returned.
ReadExitCode(s) ==
    /\ pc[s] = "read"
    /\ IF reg = "listed"
       THEN GetExecConfig /\ got' = [got EXCEPT ![s] = config.code]
       ELSE UNCHANGED config /\ got' = [got EXCEPT ![s] = "notFound"]
    /\ pc' = [pc EXCEPT ![s] = "end"]
    /\ UNCHANGED <<up, reg, ios, proc, reaper, detach>>

-----------------------------------------------------------------------------
(* The clean-up in execContainer, run by the starter or, if it does not    *)
(* wait, by a goroutine, and the collector                                 *)

Reap(s) ==
    /\ reaper[s] = "wait" /\ proc[s] = "exited"
    /\ reaper' = [reaper EXCEPT ![s] = "hook"]
    /\ UNCHANGED <<up, reg, config, ios, proc, pc, detach, got>>

MutantHookReturns(s) ==
    /\ reaper[s] = "hook"
    /\ config' = IF reg = "listed"
                 THEN [config EXCEPT !.code = "own", !.running = FALSE, !.exited = TRUE]
                 ELSE config
    /\ reaper' = [reaper EXCEPT ![s] = IF reg = "listed" THEN "close" ELSE "done"]
    /\ UNCHANGED <<up, reg, ios, proc, pc, detach, got>>

\* execExitedAndRelease; without an entry it fails and closes nothing.
ExitHook(s) ==
    /\ reaper[s] = "hook"
    /\ config' = IF reg = "listed"
                 THEN [config EXCEPT !.code = "own", !.running = FALSE, !.exited = TRUE]
                 ELSE config
    /\ reaper' = [reaper EXCEPT ![s] = IF reg = "listed" THEN "close" ELSE "delete"]
    /\ UNCHANGED <<up, reg, ios, proc, pc, detach, got>>

HookCloseIO(s) ==
    /\ reaper[s] = "close"
    /\ ios' = None
    /\ reaper' = [reaper EXCEPT ![s] = "delete"]
    /\ UNCHANGED <<up, reg, config, proc, pc, detach, got>>

DeleteProcess(s) ==
    /\ reaper[s] = "delete"
    /\ proc' = [proc EXCEPT ![s] = "none"]
    /\ reaper' = [reaper EXCEPT ![s] = "done"]
    /\ UNCHANGED <<up, reg, config, ios, pc, detach, got>>

MutantGCUnused ==
    /\ reg = "listed"
    /\ \/ config.clean /\ reg' = "collected" /\ UNCHANGED config
       \/ /\ ~config.clean /\ config.exited
          /\ config' = [config EXCEPT !.clean = TRUE] /\ UNCHANGED reg
    /\ UNCHANGED <<up, ios, proc, pc, reaper, detach, got>>

\* execProcessGC: an entry that has exited and was seen is tagged in one round
\* and removed in the next.
ExecProcessGC ==
    /\ reg = "listed"
    /\ \/ config.clean /\ reg' = "collected" /\ UNCHANGED config
       \/ /\ ~config.clean /\ config.exited /\ config.used
          /\ config' = [config EXCEPT !.clean = TRUE] /\ UNCHANGED reg
    /\ UNCHANGED <<up, ios, proc, pc, reaper, detach, got>>

ExecInit ==
    /\ up = TRUE /\ reg = "none" /\ ios = None
    /\ config = [running |-> FALSE, exited |-> FALSE, used |-> FALSE, clean |-> FALSE,
                 code |-> "unset"]
    /\ proc = [s \in Starters |-> "none"]
    /\ pc = [s \in Starters |-> "idle"]
    /\ reaper = [s \in Starters |-> "none"]
    /\ detach = [s \in Starters |-> FALSE]
    /\ got = [s \in Starters |-> "nothing"]

StartStep(s) ==
    \/ Refuse(s) \/ InitExecIO(s) \/ Exec(s) \/ StartProcess(s) \/ Reaped(s)
    \/ AttachReturns(s) \/ Abort(s) \/ Fail(s) \/ ReadExitCode(s)

CleanUp(s) == Reap(s) \/ ExitHook(s) \/ HookCloseIO(s) \/ DeleteProcess(s)

ExecNext ==
    \/ CreateExec \/ ContainerExit \/ Inspect \/ ExecProcessGC
    \/ \E s \in Starters :
          StartExec(s) \/ StartStep(s) \/ CleanUp(s) \/ ProcessExit(s) \/ KillFails(s)

ExecSpec == ExecInit /\ [][ExecNext /\ UNCHANGED cases]_<<execVars, cases>>

\* Goroutines that can go on do; nothing is assumed of the process.
ExecFairness ==
    \A s \in Starters : /\ WF_execVars(On("exec") /\ StartStep(s))
                        /\ WF_execVars(On("exec") /\ CleanUp(s))

-----------------------------------------------------------------------------
(* Properties *)

\* Every variable has its type.
ExecTypeOK ==
    /\ up \in BOOLEAN
    /\ reg \in {"none", "listed", "collected"} /\ ios \in Starters \cup {None}
    /\ config \in [running : BOOLEAN, exited : BOOLEAN, used : BOOLEAN, clean : BOOLEAN,
                   code : {"unset", "own", "failed"}]
    /\ proc \in [Starters -> {"none", "created", "running", "exited"}]
    /\ pc \in [Starters -> {"idle", "begin", "exec", "start", "reap", "attach", "abort",
                            "fail", "read", "end"}]
    /\ reaper \in [Starters -> {"none", "wait", "hook", "close", "delete", "done"}]
    /\ detach \in [Starters -> BOOLEAN]
    /\ got \in [Starters -> {"nothing", "unset", "own", "failed", "notFound"}]

\* "Running represents whether the exec process is running inside container":
\* the entry never denies a process that runs, except that a second start which
\* is refused, or a kill that fails, takes the process for ended.
RunningIsShown ==
    NoneOf({"twice", "killFails"}) => \A s \in Starters : proc[s] = "running" => config.running

\* "ExitCode records the exit code of a exec process": once the exit hook has
\* stored the code of the process, nothing else takes its place, except after a
\* second start or an attach that fails.
ExitCodeIsKept ==
    NoneOf({"twice", "attachError"}) =>
        \A s \in Starters : reaper[s] \in {"close", "delete", "done"} => config.code = "own"

\* The collector leaves the entry until its exit code was read: a client that
\* waited for the process reads the code of the process, however long it takes.  A second start, or
\* somebody else who inspects the exec, makes it collectable too early.
WaiterReadsItsCode ==
    NoneOf({"twice", "inspect"}) => \A s \in Starters : ~detach[s] => got[s] \in {"nothing", "own"}

\* When nobody works on the exec any more, its IO is closed and forgotten.
NoIOLeft ==
    NoneOf({"twice"}) /\ (\A s \in Starters : pc[s] \in {"idle", "end"} /\ reaper[s] \in {"none", "done"})
       => ios = None

\* A process whose clean-up has begun is deleted in containerd and shown as ended
\* after its end, even if the exec was started again, its entry was collected, or
\* its client has gone.  Only a process that could not be killed has no clean-up.
ExitIsRecorded ==
    \A s \in Starters :
       (proc[s] = "exited" /\ reaper[s] # "none") ~> (proc[s] = "none" /\ config.exited)

\* The entry of an exec tells the truth about its process while anyone may ask,
\* and nothing of the exec is left when nobody works on it.
ExecIsShown ==
    ExecTypeOK /\ RunningIsShown /\ ExitCodeIsKept /\ WaiterReadsItsCode /\ NoIOLeft
=============================================================================
