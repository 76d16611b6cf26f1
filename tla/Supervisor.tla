----------------------------- MODULE Supervisor -----------------------------
(***************************************************************************)
(* The supervisor of containerd (ctrd/supervisord/daemon.go): Start runs   *)
(* containerd, or adopts the one the pid file names, checks its health and *)
(* starts the monitor, which restarts a containerd that has died and gives *)
(* up, with the whole daemon, after too many failures in a row; Stop ends  *)
(* the monitor and kills containerd.  One goroutine at a time runs Start   *)
(* and then the monitor; Stop runs beside it.                              *)
(***************************************************************************)
EXTENDS Integers, FiniteSets, Scenario

CONSTANTS
    MaxPid,     \* bound: how many containerd processes are ever started
    MaxRetry,   \* maxRetryCount of the monitor (10 in the code)
    MaxBad      \* bound: failures in all

(* The cases: "adopt" a containerd runs when the daemon starts;            *)
(* "pouchCrash" the daemon may be killed and started again; "crashInSave"  *)
(* also while it writes the pid file.                                      *)

VARIABLES
    alive,     \* the containerd processes that run
    made,      \* how many were started
    pidFile,   \* the pid in the pid file; 0: no file, or an empty one
    pid,       \* Daemon.pid; 0 for -1
    child,     \* the process waitCh is about; 0: waitCh is nil
    found,     \* the pid that runContainerd has adopted or started
    sup,       \* where Start or the monitor is
    started,   \* Start has returned
    count,     \* the failures the monitor has counted
    stopping,  \* stopCh is closed
    stopper,   \* where Stop is
    bad, bads  \* failures since containerd was healthy, and in all

supVars == <<alive, made, pidFile, pid, child, found, sup, started, count, stopping, stopper,
             bad, bads>>

Failure == bads < MaxBad /\ bads' = bads + 1 /\ bad' = bad + 1

NoFailure == UNCHANGED <<bad, bads>>

\* getContainerdPid: the process of the pid file if it runs; 0 for -1.
\* Otherwise the pid file is deleted.
ContainerdPid == IF pidFile \in alive THEN pidFile ELSE 0

\* What follows when runContainerd (cost 0) or healthPostCheck (cost 1) fails.
GiveUp(cost) ==
    /\ sup' = IF started THEN "check" ELSE "failed"
    /\ count' = IF started THEN count + cost ELSE count

-----------------------------------------------------------------------------
(* Start and runContainerd *)

RunContainerd ==
    /\ sup = "run"
    /\ \/ /\ ContainerdPid # 0
          /\ found' = ContainerdPid /\ sup' = "save"
          /\ NoFailure /\ UNCHANGED <<alive, made, pidFile, child, count>>
       \/ /\ ContainerdPid = 0 /\ made < MaxPid
          /\ made' = made + 1 /\ alive' = alive \cup {made + 1}
          /\ found' = made + 1 /\ child' = made + 1 /\ pidFile' = 0 /\ sup' = "save"
          /\ NoFailure /\ UNCHANGED count
       \/ /\ Failure /\ GiveUp(0)
          /\ pidFile' \in {pidFile, ContainerdPid} /\ UNCHANGED <<alive, made, found, child>>
    /\ UNCHANGED <<pid, started, stopping, stopper>>

\* setContainerdPid; a pid that cannot be saved is killed.
SavePid ==
    /\ sup = "save"
    /\ pid' = found /\ found' = 0
    /\ \/ pidFile' = found /\ sup' = "health" /\ NoFailure /\ UNCHANGED <<alive, count>>
       \/ Failure /\ pidFile' = 0 /\ alive' = alive \ {found} /\ GiveUp(0)
    /\ UNCHANGED <<made, child, started, stopping, stopper>>

HealthPostCheck ==
    /\ sup = "health" /\ pid \in alive
    /\ started' = TRUE /\ sup' = "check" /\ count' = 0 /\ bad' = 0
    /\ UNCHANGED <<alive, made, pidFile, pid, child, found, stopping, stopper, bads>>

\* After all retries, a containerd that does not serve is killed.
HealthPostCheckFails ==
    /\ sup = "health"
    /\ IF pid \in alive THEN Failure ELSE NoFailure
    /\ alive' = alive \ {pid} /\ GiveUp(1)
    /\ UNCHANGED <<made, pidFile, pid, child, found, started, stopping, stopper>>

-----------------------------------------------------------------------------
(* The monitor *)

CheckContainerd ==
    /\ sup = "check"
    /\ \/ stopping /\ sup' = "stopped" /\ NoFailure /\ UNCHANGED <<pidFile, count>>
       \/ ~stopping /\ count > MaxRetry /\ sup' = "exited" /\ NoFailure /\ UNCHANGED <<pidFile, count>>
       \/ /\ ~stopping /\ count <= MaxRetry
          /\ \/ /\ sup' = IF ContainerdPid # 0 THEN "health" ELSE "wait"
                /\ pidFile' = ContainerdPid /\ NoFailure /\ UNCHANGED count
             \/ Failure /\ count' = count + 1 /\ UNCHANGED <<sup, pidFile>>
    /\ UNCHANGED <<alive, made, pid, child, found, started, stopping, stopper>>

MutantWaitForStop ==
    /\ sup = "wait" /\ stopping /\ sup' = "stopped" /\ UNCHANGED count
    /\ UNCHANGED <<alive, made, pidFile, pid, child, found, started, stopping, stopper, bad, bads>>

\* A child is waited for before the next one is started.
WaitContainerd ==
    /\ sup = "wait"
    /\ \/ /\ child # 0 /\ stopping /\ sup' = "stopped" /\ UNCHANGED count
       \/ /\ child = 0 \/ (child \notin alive /\ ~stopping)
          /\ sup' = "run" /\ count' = count + 1
    /\ UNCHANGED <<alive, made, pidFile, pid, child, found, started, stopping, stopper, bad, bads>>

-----------------------------------------------------------------------------
(* Stop *)

StopContainerd ==
    /\ stopper = "idle" /\ started /\ sup # "exited"
    /\ stopping' = TRUE /\ stopper' = "kill"
    /\ UNCHANGED <<alive, made, pidFile, pid, child, found, sup, started, count, bad, bads>>

\* SIGTERM, and SIGKILL when it has not helped for stopTimeout.
KillContainerd ==
    /\ stopper = "kill" /\ alive' = alive \ {pid} /\ stopper' = "clean"
    /\ UNCHANGED <<made, pidFile, pid, child, found, sup, started, count, stopping, bad, bads>>

RemovePidFile ==
    /\ stopper = "clean" /\ pidFile' = 0 /\ stopper' = "done"
    /\ UNCHANGED <<alive, made, pid, child, found, sup, started, count, stopping, bad, bads>>

-----------------------------------------------------------------------------
(* What happens to the processes *)

ContainerdDies ==
    /\ Failure /\ \E p \in alive : alive' = alive \ {p}
    /\ UNCHANGED <<made, pidFile, pid, child, found, sup, started, count, stopping, stopper>>

\* The daemon is killed and starts anew; Pdeathsig kills its child with it.
\* A pid file that was being written may be left empty.
PouchCrash ==
    /\ On("pouchCrash") /\ Failure
    /\ sup = "save" => On("crashInSave")
    /\ stopper = "idle"
    /\ alive' = alive \ {child}
    /\ pidFile' \in IF sup = "save" THEN {0, pidFile, found} ELSE {pidFile}
    /\ pid' = 0 /\ child' = 0 /\ found' = 0 /\ sup' = "run" /\ started' = FALSE /\ count' = 0
    /\ UNCHANGED <<made, stopping, stopper>>

SupInit ==
    /\ made = IF On("adopt") THEN 1 ELSE 0
    /\ alive = 1..made /\ pidFile = made
    /\ pid = 0 /\ child = 0 /\ found = 0 /\ sup = "run" /\ started = FALSE /\ count = 0
    /\ stopping = FALSE /\ stopper = "idle" /\ bad = 0 /\ bads = 0

Supervise ==
    \/ RunContainerd \/ SavePid \/ HealthPostCheck \/ HealthPostCheckFails
    \/ CheckContainerd \/ WaitContainerd

SupNext ==
    \/ Supervise \/ StopContainerd \/ KillContainerd \/ RemovePidFile
    \/ ContainerdDies \/ PouchCrash

\* The goroutine goes on, and so does Stop once it is called.
SupFairness ==
    /\ WF_supVars(On("supervisor") /\ Supervise)
    /\ WF_supVars(On("supervisor") /\ (KillContainerd \/ RemovePidFile))

-----------------------------------------------------------------------------
(* Properties *)

Pids == 0..MaxPid

\* Every variable has its type.
SupTypeOK ==
    /\ alive \subseteq 1..made /\ made \in Pids /\ {pidFile, pid, child, found} \subseteq Pids
    /\ sup \in {"run", "save", "health", "check", "wait", "stopped", "failed", "exited"}
    /\ started \in BOOLEAN /\ stopping \in BOOLEAN /\ count \in 0..(MaxRetry + 2)
    /\ stopper \in {"idle", "kill", "clean", "done"} /\ bad <= bads /\ bads \in 0..MaxBad

\* Two containerd never run at the same time on the same root directory,
\* whichever of the processes dies when.  (A daemon killed while it rewrites
\* the pid file of a containerd it has adopted forgets that one.)
OneContainerd ==
    NoneOf({"crashInSave"}) => Cardinality(alive) <= 1

\* A containerd that runs after Stop has returned is a child of the daemon,
\* which the monitor was about to start and which ends with the daemon.
LeftoverIsChild ==
    stopper = "done" /\ NoneOf({"crashInSave"}) => alive \subseteq {child}

\* The monitor ends the whole daemon only when more than half as many
\* failures as maxRetryCount have come in a row: a healthy containerd resets
\* its count, and one failure costs two counts at most.
GivesUpLate ==
    sup = "exited" => 2 * bad > MaxRetry

\* A containerd that has died is replaced, unless the monitor gives up or is
\* stopped.
DeadIsReplaced ==
    (On("supervisor") /\ started /\ pid \notin alive) ~>
        (pid \in alive \/ sup \in {"stopped", "exited", "failed"})

\* The daemon runs one containerd, takes it along when it stops, gives it up only
\* after failures in a row, and else replaces it when it dies.
ContainerdIsKept == [](SupTypeOK /\ OneContainerd /\ LeftoverIsChild /\ GivesUpLate) /\ DeadIsReplaced
=============================================================================
