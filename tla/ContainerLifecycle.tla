------------------------- MODULE ContainerLifecycle -------------------------
(***************************************************************************)
(* The life of one container of pouchd: the container manager             *)
(* (daemon/mgr/container.go), the per-task watch goroutines and the       *)
(* destroy protocol of the containerd client (ctrd/watch.go,              *)
(* ctrd/container.go), the restart monitor (container_monitor.go), the    *)
(* containerd event handler (events.go) and a restart of the daemon.      *)
(*                                                                         *)
(* An API call finds the container in the cache without a lock, then      *)
(* takes c.Lock; a critical section whose intermediate states no other    *)
(* goroutine can tell apart is one step.  Each started task has a         *)
(* containerPack, and with it a goroutine that waits for the exit.        *)
(***************************************************************************)
EXTENDS Naturals

CONSTANTS
    Clients,        \* goroutines serving API and CRI calls
    Monitor,        \* the goroutine of NewContainerMonitor
    Events,         \* the goroutine of collectContainerdEvents
    Packs,          \* containerPacks (one per task started); bounds the starts
    None,
    Ops,            \* the handlers enabled in this instance
    RestartAlways,  \* whether HostConfig.RestartPolicy is not "none"
    MayAbort,       \* whether a destroy may end early (context done, RPC error)
    HasTimeout,     \* whether the stop timeout is positive
    QueueCap,       \* capacity of the monitor's channel
    MaxCrashes      \* bound on the restarts of the daemon

Procs == Clients \cup {Monitor, Events}

ASSUME ProcsDistinct ==
    /\ Monitor # Events /\ Monitor \notin Clients /\ Events \notin Clients
    /\ Procs \cap Packs = {}
    /\ None \notin Procs \cup Packs

Handlers == {"start", "stop", "kill", "restart", "pause", "unpause", "remove",
             "forceRemove", "wait", "update", "connect", "disconnect", "oom"}

\* The handlers that leave the container alone once it is removed: they check
\* the Dead flag, the name or the watched pack before they write.
GuardedOps == {"start", "stop", "kill", "pause", "unpause", "remove", "forceRemove",
               "wait"}

ASSUME ParametersTyped ==
    /\ Ops \subseteq Handlers
    /\ RestartAlways \in BOOLEAN /\ MayAbort \in BOOLEAN
    /\ HasTimeout \in BOOLEAN
    /\ QueueCap \in Nat \ {0} /\ MaxCrashes \in Nat

VARIABLES
    st,       \* c.State: its Status and the set of its boolean flags
    cache,    \* whether mgr.cache maps the ID to the container
    names,    \* whether mgr.NameToID maps the name to the ID
    meta,     \* meta.json on disk: a copy of c.State, or None
    snap,     \* whether containerd holds the container's snapshot
    lock,     \* the holder of c.Lock
    pc, op,   \* per caller: where it is, and in which handler
    pk,       \* per caller: the pack it destroys or waits for
    buf,      \* per caller: the State a c.Write has marshalled
    task,     \* containerd's task of each pack
    ctr,      \* whether containerd has a container object for the ID
    watch,    \* watch.containers[ID]
    skip,     \* pack.skipStopHooks
    msg,      \* whether pack.ch holds the exit message
    wpc,      \* where the watch goroutine of each pack is
    queue,    \* exit events in the monitor's channel
    up,       \* whether the daemon serves
    crashes

object    == <<st, cache, names>>
disk      == <<meta, snap>>
callers   == <<pc, op, pk, buf>>
runtime   == <<task, ctr>>
watcher   == <<watch, skip, msg, wpc>>
daemon    == <<up, crashes>>
vars == <<object, disk, lock, callers, runtime, watcher, queue, daemon>>

-----------------------------------------------------------------------------
(* container_state.go *)

Statuses == {"created", "running", "paused", "stopped", "exited"}
Flags == {"running", "paused", "exited", "dead"}
State == [status : Statuses, flags : SUBSET Flags]

\* SetStatusX: sets Status, raises the flag of that name if there is one and
\* clears every other flag, Dead included (setStatusFlags).
SetStatus(s) == [status |-> s, flags |-> {s} \cap Flags]

IsRunningOrPaused == st.flags \cap {"running", "paused"} # {}
Dead == "dead" \in st.flags

\* mgr.container(c.Name) resolves.  A lookup by ID only needs the cache.
FoundByName == cache /\ names

MutantMarkAlwaysWrites(s) == st' = SetStatus(s) /\ meta' = SetStatus(s)
MutantMarkNeverWrites(s)  == st' = SetStatus(s) /\ meta' = meta

\* markStoppedAndRelease, markExitedAndRelease: the status changes in memory
\* at once, meta.json is written only if the name still resolves.
MarkAndRelease(s) ==
    /\ st' = SetStatus(s)
    /\ meta' = IF FoundByName THEN SetStatus(s) ELSE meta

-----------------------------------------------------------------------------
(* containerd, as ctrd uses it *)

TaskAlive == \E k \in Packs : task[k] = "running"

\* task.Delete and container.Delete address the task and the container by ID:
\* a stopped task is deleted, a running one is refused and keeps the container.
DeleteTaskAndContainer ==
    /\ task' = [k \in Packs |-> IF task[k] = "exited" THEN "deleted" ELSE task[k]]
    /\ ctr' = (ctr /\ TaskAlive)

\* The task's process ends, by itself or by a signal.
TaskExit(k) ==
    /\ task[k] = "running"
    /\ task' = [task EXCEPT ![k] = "exited"]
    /\ UNCHANGED <<object, disk, lock, callers, ctr, watcher, queue, daemon>>

-----------------------------------------------------------------------------
(* Entering a handler *)

Goto(p, l) == pc' = [pc EXCEPT ![p] = l]

\* The handler returns; its local variables are gone.
Return(p) ==
    /\ pc' = [pc EXCEPT ![p] = "idle"] /\ op' = [op EXCEPT ![p] = "none"]
    /\ pk' = [pk EXCEPT ![p] = None]   /\ buf' = [buf EXCEPT ![p] = None]

\* mgr.container finds c; the caller then waits for c.Lock.  Restart reads
\* the status before it takes the lock and skips the stop of a stopped one.
Call(p, o) ==
    /\ up /\ cache /\ pc[p] = "idle"
    /\ op' = [op EXCEPT ![p] =
                IF o # "restart" THEN o
                ELSE IF IsRunningOrPaused THEN "restartStop" ELSE "restartStart"]
    /\ Goto(p, "lock")
    /\ UNCHANGED <<object, disk, lock, pk, buf, runtime, watcher, queue, daemon>>

\* Wait takes no lock: a container that is not running is answered at once,
\* the others wait on the channel of the current pack (watch.notify).
CallWait(p) ==
    /\ up /\ cache /\ pc[p] = "idle"
    /\ IsRunningOrPaused /\ watch # None
    /\ pk' = [pk EXCEPT ![p] = watch]
    /\ Goto(p, "wait")
    /\ UNCHANGED <<object, disk, lock, op, buf, runtime, watcher, queue, daemon>>

\* The client has gone and the context of its Wait is done; without a timeout
\* the receive in ProbeContainer does not look at the context.
WaitCancel(p) ==
    /\ pc[p] = "wait"
    /\ Goto(p, "cancelled")
    /\ UNCHANGED <<object, disk, lock, op, pk, buf, runtime, watcher, queue, daemon>>

MutantWaitKeepsMessage(p) ==
    /\ pc[p] \in {"wait", "cancelled"} /\ msg[pk[p]]
    /\ msg' = [msg EXCEPT ![pk[p]] = FALSE]
    /\ Return(p)
    /\ UNCHANGED <<object, disk, lock, runtime, watch, skip, wpc, queue,
                   daemon>>

\* ProbeContainer takes the message and puts it back for the next waiter.
WaitReturn(p) ==
    /\ pc[p] \in {"wait", "cancelled"} /\ msg[pk[p]]
    /\ Return(p)
    /\ UNCHANGED <<object, disk, lock, runtime, watcher, queue, daemon>>

\* The monitor takes an exit event and runs its handler, which reads the
\* Exited flag and the policy without the lock and then calls mgr.Start.
HandleExitEvent ==
    /\ pc[Monitor] = "idle" /\ queue > 0
    /\ queue' = queue - 1
    /\ IF "exited" \in st.flags /\ RestartAlways /\ cache
       THEN Goto(Monitor, "lock") /\ op' = [op EXCEPT ![Monitor] = "start"]
       ELSE UNCHANGED <<pc, op>>
    /\ UNCHANGED <<object, disk, lock, pk, buf, runtime, watcher, daemon>>

\* An oom event of a live task reaches updateContainerState.
OomEvent ==
    /\ TaskAlive
    /\ Call(Events, "oom")

\* c.Lock is free for caller p, which runs one of the handlers in os.
Locks(p, os) == pc[p] = "lock" /\ lock = None /\ op[p] \in os

\* The handler gives up without a change of state: an early return, or an
\* error of containerd, the network, a volume or a plugin, or a signal that
\* does not end the task.  Only the removal of a container that is not running
\* and the oom update cannot end so; Restart goes on if there is nothing to stop.
Refuse(p) ==
    /\ Locks(p, Ops \cup {"start", "restartStop", "restartStart"})
    /\ op[p] \in {"remove", "forceRemove"} => IsRunningOrPaused \/ Dead
    /\ op[p] = "restartStop" => IsRunningOrPaused
    /\ op[p] # "oom"
    /\ Return(p)
    /\ UNCHANGED <<object, disk, lock, runtime, watcher, queue, daemon>>

-----------------------------------------------------------------------------
(* start, createContainerdContainer *)

CanStart(p) ==
    /\ Locks(p, {"start", "restartStart"})
    /\ ~IsRunningOrPaused /\ ~Dead

\* ctrd.CreateContainer: the snapshot must exist and containerd must not have
\* a container of that ID; the task is started and its pack is watched.
StartCreate(p) ==
    /\ CanStart(p) /\ snap /\ ~ctr
    /\ \E k \in Packs :
          /\ task[k] = "none"
          /\ task' = [task EXCEPT ![k] = "running"]
          /\ watch' = k
          /\ wpc' = [wpc EXCEPT ![k] = "watch"]
    /\ ctr' = TRUE
    /\ lock' = p
    /\ Goto(p, "mark")
    /\ UNCHANGED <<object, disk, op, pk, buf, skip, msg, queue, daemon>>

\* CreateContainer fails: markStoppedAndRelease, whatever the status was.
StartFail(p) ==
    /\ CanStart(p)
    /\ MarkAndRelease("stopped")
    /\ Return(p)
    /\ UNCHANGED <<cache, names, snap, lock, runtime, watcher, queue,
                   daemon>>

\* SetStatusRunning and c.Write end the critical section of start.
StartMark(p) ==
    /\ pc[p] = "mark"
    /\ st' = SetStatus("running") /\ meta' = st'
    /\ lock' = None
    /\ IF op[p] = "restartStart"
       THEN Goto(p, "count") /\ UNCHANGED <<op, pk, buf>>
       ELSE Return(p)
    /\ UNCHANGED <<cache, names, snap, runtime, watcher, queue, daemon>>

\* Restart, after start has released the lock: c.Write marshals c ...
RestartMarshal(p) ==
    /\ pc[p] = "count"
    /\ buf' = [buf EXCEPT ![p] = st]
    /\ Goto(p, "put")
    /\ UNCHANGED <<object, disk, lock, op, pk, runtime, watcher, queue, daemon>>

\* ... and the store writes what was marshalled.
RestartPut(p) ==
    /\ pc[p] = "put"
    /\ meta' = buf[p]
    /\ Return(p)
    /\ UNCHANGED <<object, snap, lock, runtime, watcher, queue, daemon>>

-----------------------------------------------------------------------------
(* ctrd.destroyContainer, and the handlers built on it *)

NeedsDestroy(p) ==
    /\ Locks(p, {"stop", "restartStop", "forceRemove"})
    /\ IsRunningOrPaused
    /\ op[p] = "forceRemove" => ~Dead

\* The watched pack is told to skip the stop hooks.
DestroyBegin(p) ==
    /\ NeedsDestroy(p) /\ watch # None
    /\ skip' = [skip EXCEPT ![watch] = TRUE]
    /\ pk' = [pk EXCEPT ![p] = watch]
    /\ lock' = p
    /\ Goto(p, "term")
    /\ UNCHANGED <<object, disk, op, buf, runtime, watch, msg, wpc, queue, daemon>>

\* Remove ignores that ctrd no longer watches the container.
DestroyNotFound(p) ==
    /\ NeedsDestroy(p) /\ op[p] = "forceRemove" /\ watch = None
    /\ lock' = p
    /\ Goto(p, "unlink")
    /\ UNCHANGED <<object, disk, op, pk, buf, runtime, watcher, queue, daemon>>

\* task.Kill, first with SIGTERM and then with SIGKILL: not found for a task
\* that is gone, sent to a live one; for a stopped task containerd may answer
\* either way.
DestroyKill(p) ==
    /\ pc[p] \in {"term", "kill"}
    /\ \/ /\ task[pk[p]] \in {"running", "exited"}
          /\ Goto(p, IF pc[p] = "term" THEN "wait1" ELSE "wait2")
       \/ /\ task[pk[p]] \in {"exited", "deleted"}
          /\ Goto(p, "clean")
    /\ UNCHANGED <<object, disk, lock, op, pk, buf, runtime, watcher, queue, daemon>>

\* waitExit returns the exit message, or times out: the first time SIGKILL
\* follows, the second time the timeout is ignored.
DestroyWait(p) ==
    /\ \/ pc[p] \in {"wait1", "wait2"} /\ msg[pk[p]] /\ Goto(p, "clean")
       \/ pc[p] = "wait1" /\ HasTimeout /\ Goto(p, "kill")
       \/ pc[p] = "wait2" /\ HasTimeout /\ Goto(p, "clean")
    /\ UNCHANGED <<object, disk, lock, op, pk, buf, runtime, watcher, queue, daemon>>

\* Kill fails, the context is done, or container.Delete refuses because the
\* task still runs: the handler returns the error, the status stays.
DestroyAbort(p) ==
    /\ \/ pc[p] \in {"term", "kill", "wait1", "wait2"} /\ MayAbort
       \/ pc[p] = "clean" /\ TaskAlive
    /\ skip' = [skip EXCEPT ![pk[p]] = FALSE]
    /\ lock' = None
    /\ Return(p)
    /\ UNCHANGED <<object, disk, runtime, watch, msg, wpc, queue, daemon>>

MutantCleanIgnoresError(p) ==
    /\ pc[p] = "clean"
    /\ DeleteTaskAndContainer
    /\ watch' = None
    /\ skip' = [skip EXCEPT ![pk[p]] = FALSE]
    /\ UNCHANGED <<msg, wpc>>

\* The clean label: delete task and container, forget the pack.
DestroyClean(p) ==
    /\ pc[p] = "clean" /\ ~TaskAlive
    /\ DeleteTaskAndContainer
    /\ watch' = None
    /\ skip' = [skip EXCEPT ![pk[p]] = FALSE]
    /\ UNCHANGED <<msg, wpc>>

\* stop, and the first half of Restart, which goes on to start unless the
\* release of the container's resources failed.
StopFinish(p) ==
    /\ op[p] \in {"stop", "restartStop"}
    /\ DestroyClean(p)
    /\ MarkAndRelease("stopped")
    /\ lock' = None
    /\ \/ Return(p)
       \/ /\ op[p] = "restartStop"
          /\ Goto(p, "lock") /\ op' = [op EXCEPT ![p] = "restartStart"]
          /\ pk' = [pk EXCEPT ![p] = None] /\ UNCHANGED buf
    /\ UNCHANGED <<cache, names, snap, queue, daemon>>

\* stopping a non-running container is valid, and Restart starts it.
RestartNotRunning(p) ==
    /\ Locks(p, {"restartStop"}) /\ ~IsRunningOrPaused
    /\ op' = [op EXCEPT ![p] = "restartStart"]
    /\ UNCHANGED <<object, disk, lock, pc, pk, buf, runtime, watcher, queue, daemon>>

RemoveDestroyed(p) ==
    /\ op[p] = "forceRemove"
    /\ DestroyClean(p)
    /\ Goto(p, "unlink") /\ pk' = [pk EXCEPT ![p] = None]
    /\ UNCHANGED <<object, disk, lock, op, buf, queue, daemon>>

-----------------------------------------------------------------------------
(* Remove *)

RemoveIdle(p) ==
    /\ Locks(p, {"remove", "forceRemove"})
    /\ ~IsRunningOrPaused /\ ~Dead
    /\ lock' = p
    /\ Goto(p, "unlink")
    /\ UNCHANGED <<object, disk, op, pk, buf, runtime, watcher, queue, daemon>>

\* The snapshot goes (an error is only logged), then the container leaves the
\* name map and the cache and gets the Dead flag; no other flag is cleared.
RemoveUnlink(p) ==
    /\ pc[p] = "unlink"
    /\ snap' \in {FALSE, snap}
    /\ names' = FALSE /\ cache' = FALSE
    /\ st' = [st EXCEPT !.flags = @ \cup {"dead"}]
    /\ Goto(p, "erase")
    /\ UNCHANGED <<meta, lock, op, pk, buf, runtime, watcher, queue, daemon>>

\* Store.Remove deletes meta.json.
RemoveErase(p) ==
    /\ pc[p] = "erase"
    /\ meta' = None
    /\ lock' = None
    /\ Return(p)
    /\ UNCHANGED <<object, snap, runtime, watcher, queue, daemon>>

-----------------------------------------------------------------------------
(* Handlers that are one critical section *)

\* KillContainer signals the watched task; the hooks are not skipped.
Kill(p) ==
    /\ Locks(p, {"kill"})
    /\ "running" \in st.flags /\ "paused" \notin st.flags
    /\ watch # None /\ task[watch] = "running"
    /\ task' = [task EXCEPT ![watch] = "exited"]
    /\ Return(p)
    /\ UNCHANGED <<object, disk, lock, ctr, watcher, queue, daemon>>

\* doPause, doUnpause: task.Pause and task.Resume of a deleted task answer
\* not found, which counts as success.
PauseOrUnpause(p, o, from, to) ==
    /\ Locks(p, {o})
    /\ from \in st.flags
    /\ watch # None /\ task[watch] \in {"running", "deleted"}
    /\ st' = SetStatus(to) /\ meta' = st'
    /\ Return(p)
    /\ UNCHANGED <<cache, names, snap, lock, runtime, watcher, queue,
                   daemon>>

Pause(p)   == PauseOrUnpause(p, "pause", "running", "paused")
Unpause(p) == PauseOrUnpause(p, "unpause", "paused", "running")

\* Update, Connect, Disconnect and the oom update change settings the model
\* does not hold and write meta.json.
WriteMeta(p) ==
    /\ meta' = st
    /\ Return(p)
    /\ UNCHANGED <<st, names, snap, lock, runtime, watcher, queue, daemon>>

\* A running container's resources are updated through the watched task.
Update(p) ==
    /\ Locks(p, {"update"})
    /\ ~Dead
    /\ "running" \in st.flags => watch # None
    /\ WriteMeta(p) /\ UNCHANGED cache

\* Only a container that is not running is checked for Dead.
Connect(p) ==
    /\ Locks(p, {"connect"})
    /\ "running" \in st.flags \/ ~Dead
    /\ WriteMeta(p) /\ UNCHANGED cache

\* Disconnect refreshes the cache as well.
Disconnect(p) ==
    /\ Locks(p, {"disconnect"})
    /\ cache' = TRUE
    /\ WriteMeta(p)

\* updateContainerState: IsDead tests the Status, never set to "dead".
Oom(p) ==
    /\ Locks(p, {"oom"})
    /\ IF st.status = "dead"
       THEN Return(p) /\ UNCHANGED <<object, disk, lock, runtime, watcher, queue, daemon>>
       ELSE WriteMeta(p) /\ UNCHANGED cache

-----------------------------------------------------------------------------
(* The watch goroutine of pack k (watch.add), and exitedAndRelease, its hook *)

MutantWatchNoHook(k) ==
    /\ wpc[k] = "watch" /\ task[k] \in {"exited", "deleted"}
    /\ wpc' = [wpc EXCEPT ![k] = "send"]
    /\ UNCHANGED <<object, disk, lock, callers, runtime, watch, skip, msg, queue, daemon>>

MutantWatchSkipsSend(k) ==
    /\ wpc[k] = "watch" /\ task[k] \in {"exited", "deleted"}
    /\ wpc' = [wpc EXCEPT ![k] = IF skip[k] THEN "done" ELSE "hook"]
    /\ UNCHANGED <<object, disk, lock, callers, runtime, watch, skip, msg, queue, daemon>>

\* The exit status arrives; the goroutine reads skipStopHooks once.
WatchExit(k) ==
    /\ wpc[k] = "watch" /\ task[k] \in {"exited", "deleted"}
    /\ wpc' = [wpc EXCEPT ![k] = IF skip[k] THEN "send" ELSE "hook"]
    /\ UNCHANGED <<object, disk, lock, callers, runtime, watch, skip, msg, queue, daemon>>

\* The hook looks the container up by ID, then waits for c.Lock.
HookFind(k) ==
    /\ wpc[k] = "hook"
    /\ IF cache
       THEN wpc' = [wpc EXCEPT ![k] = "hooklock"] /\ UNCHANGED runtime
       ELSE wpc' = [wpc EXCEPT ![k] = "send"] /\ DeleteTaskAndContainer
    /\ UNCHANGED <<object, disk, lock, callers, watch, skip, msg, queue, daemon>>

\* markExitedAndRelease and cleanup; an event follows if the name resolves
\* and the release of the resources did not fail.
HookMark(k) ==
    /\ wpc[k] = "hooklock" /\ lock = None
    /\ MarkAndRelease("exited")
    /\ DeleteTaskAndContainer
    /\ \/ FoundByName /\ lock' = k /\ wpc' = [wpc EXCEPT ![k] = "post"]
       \/ UNCHANGED lock /\ wpc' = [wpc EXCEPT ![k] = "send"]
    /\ UNCHANGED <<cache, names, snap, callers, watch, skip, msg, queue, daemon>>

MutantPostKeepsLock(k) ==
    /\ wpc[k] = "post" /\ queue < QueueCap
    /\ queue' = queue + 1
    /\ wpc' = [wpc EXCEPT ![k] = "send"]
    /\ UNCHANGED <<object, disk, lock, callers, runtime, watch, skip, msg, daemon>>

\* PostEvent blocks, with c.Lock held, while the channel is full.
HookPost(k) ==
    /\ wpc[k] = "post" /\ queue < QueueCap
    /\ queue' = queue + 1
    /\ lock' = None
    /\ wpc' = [wpc EXCEPT ![k] = "send"]
    /\ UNCHANGED <<object, disk, callers, runtime, watch, skip, msg, daemon>>

\* pack.ch <- msg
WatchSend(k) ==
    /\ wpc[k] = "send"
    /\ msg' = [msg EXCEPT ![k] = TRUE]
    /\ wpc' = [wpc EXCEPT ![k] = "done"]
    /\ UNCHANGED <<object, disk, lock, callers, runtime, watch, skip, queue, daemon>>

-----------------------------------------------------------------------------
(* Restart of the daemon: Load and Restore *)

\* The process dies; disk and containerd stay.
Crash ==
    /\ up /\ crashes < MaxCrashes
    /\ up' = FALSE /\ crashes' = crashes + 1
    /\ cache' = FALSE /\ names' = FALSE /\ lock' = None
    /\ pc' = [p \in Procs |-> "idle"] /\ op' = [p \in Procs |-> "none"]
    /\ pk' = [p \in Procs |-> None] /\ buf' = [p \in Procs |-> None]
    /\ watch' = None /\ queue' = 0
    /\ skip' = [k \in Packs |-> FALSE] /\ msg' = [k \in Packs |-> FALSE]
    /\ wpc' = [k \in Packs |-> "none"]
    /\ UNCHANGED <<st, disk, runtime>>

\* Load: what is on disk is in memory again.
Load ==
    /\ ~up /\ up' = TRUE
    /\ cache' = (meta # None) /\ names' = (meta # None)
    /\ UNCHANGED <<crashes, snap, lock, callers, skip, msg>>

MetaRunning == meta # None /\ meta.flags \cap {"running", "paused"} # {}

\* Nothing to recover, or RecoverContainer failed with an unknown error.
RestoreKeep ==
    /\ Load
    /\ st' = IF meta = None THEN st ELSE meta
    /\ UNCHANGED <<meta, runtime, watch, wpc, queue>>

\* RecoverContainer finds the task, running or stopped, and watches it.
RestoreRecover ==
    /\ Load /\ MetaRunning /\ ctr
    /\ st' = meta
    /\ \E k \in Packs :
          /\ task[k] \in {"running", "exited"}
          /\ watch' = k
          /\ wpc' = [wpc EXCEPT ![k] = "watch"]
    /\ UNCHANGED <<meta, runtime, queue>>

\* The container or its task is not found: exitedAndRelease, whose event is
\* posted unless the release of the resources fails.
RestoreLost ==
    /\ Load /\ MetaRunning
    /\ ctr => \A k \in Packs : task[k] \notin {"running", "exited"}
    /\ ctr' = FALSE
    /\ st' = SetStatus("exited") /\ meta' = st'
    /\ queue' \in {0, 1}
    /\ UNCHANGED <<task, watch, wpc>>

-----------------------------------------------------------------------------

Init ==
    /\ st = SetStatus("created") /\ meta = st
    /\ cache = TRUE /\ names = TRUE /\ snap = TRUE
    /\ lock = None
    /\ pc = [p \in Procs |-> "idle"] /\ op = [p \in Procs |-> "none"]
    /\ pk = [p \in Procs |-> None] /\ buf = [p \in Procs |-> None]
    /\ task = [k \in Packs |-> "none"] /\ ctr = FALSE
    /\ watch = None
    /\ skip = [k \in Packs |-> FALSE] /\ msg = [k \in Packs |-> FALSE]
    /\ wpc = [k \in Packs |-> "none"]
    /\ queue = 0
    /\ up = TRUE /\ crashes = 0

\* What p does once it has found the container and c.Lock is free.
Acquire(p) ==
    \/ Refuse(p) \/ StartCreate(p) \/ StartFail(p)
    \/ DestroyBegin(p) \/ DestroyNotFound(p) \/ RestartNotRunning(p) \/ RemoveIdle(p)
    \/ Kill(p) \/ Pause(p) \/ Unpause(p)
    \/ Update(p) \/ Connect(p) \/ Disconnect(p) \/ Oom(p)

\* What p does after that.
Proceed(p) ==
    \/ StartMark(p) \/ RestartMarshal(p) \/ RestartPut(p)
    \/ DestroyKill(p) \/ DestroyWait(p) \/ DestroyAbort(p)
    \/ StopFinish(p) \/ RemoveDestroyed(p) \/ RemoveUnlink(p) \/ RemoveErase(p)
    \/ WaitReturn(p)

Watch(k) == WatchExit(k) \/ HookFind(k) \/ HookPost(k) \/ WatchSend(k)

Enter ==
    \/ \E p \in Clients, o \in Ops \ {"wait", "oom"} : Call(p, o)
    \/ "wait" \in Ops /\ \E p \in Clients : CallWait(p) \/ WaitCancel(p)
    \/ "oom" \in Ops /\ OomEvent

Restore == RestoreKeep \/ RestoreRecover \/ RestoreLost

Next ==
    \/ Enter \/ HandleExitEvent
    \/ \E p \in Procs : Acquire(p) \/ Proceed(p)
    \/ \E k \in Packs : TaskExit(k) \/ Watch(k) \/ HookMark(k)
    \/ Crash \/ Restore

Spec == Init /\ [][Next]_vars

\* Every goroutine runs on; a goroutine waiting for c.Lock gets it in the end
\* (sync.Mutex does not starve a waiter).  Nothing makes a client call, a task
\* exit or the daemon crash.
Fairness ==
    /\ \A p \in Procs : SF_vars(Acquire(p)) /\ WF_vars(Proceed(p))
    /\ \A k \in Packs : WF_vars(Watch(k)) /\ SF_vars(HookMark(k))
    /\ WF_vars(HandleExitEvent)
    /\ WF_vars(Restore)

FairSpec == Spec /\ Fairness

-----------------------------------------------------------------------------
(* Properties *)

Labels == {"idle", "lock", "wait", "cancelled", "mark", "count", "put", "term", "kill", "wait1",
           "wait2", "clean", "unlink", "erase"}
\* Where a caller holds c.Lock.
Critical == {"mark", "term", "kill", "wait1", "wait2", "clean", "unlink", "erase"}
WatchLabels == {"none", "watch", "hook", "hooklock", "post", "send", "done"}

\* Every variable has its type.
TypeOK ==
    /\ st \in State /\ meta \in State \cup {None}
    /\ cache \in BOOLEAN /\ names \in BOOLEAN /\ snap \in BOOLEAN
    /\ lock \in Procs \cup Packs \cup {None}
    /\ pc \in [Procs -> Labels]
    /\ op \in [Procs -> Handlers \cup {"none", "restartStop", "restartStart"}]
    /\ pk \in [Procs -> Packs \cup {None}] /\ buf \in [Procs -> State \cup {None}]
    /\ task \in [Packs -> {"none", "running", "exited", "deleted"}]
    /\ ctr \in BOOLEAN
    /\ watch \in Packs \cup {None}
    /\ skip \in [Packs -> BOOLEAN] /\ msg \in [Packs -> BOOLEAN]
    /\ wpc \in [Packs -> WatchLabels]
    /\ queue \in 0 .. QueueCap
    /\ up \in BOOLEAN /\ crashes \in 0 .. MaxCrashes

\* The container has been removed, its snapshot too, and no removal is under way.
Removed == up /\ ~cache /\ ~snap /\ \A p \in Procs : pc[p] # "erase"

\* No goroutine that still holds the container object writes the meta.json of
\* a removed container again (the purpose of the checks by name in
\* markStoppedAndRelease and markExitedAndRelease, and of the one in
\* updateContainerState).
NoResurrection == Removed => meta = None

\* Whenever c.Lock is free, meta.json records the status the container has in
\* memory, so that a daemon restarted at that moment restores that status.
MetaIsFresh == up /\ cache /\ lock = None => meta = st

\* As long as the daemon has not been restarted, a live task is the one ctrd
\* watches: its exit will be noticed, Stop will reach it, and there is never a
\* second one.
LiveTaskIsWatched ==
    crashes = 0 => \A k \in Packs : task[k] = "running" => watch = k

\* The inductive strengthening of LiveTaskIsWatched: containerd keeps the
\* container object of a live task, which keeps start and destroy off it.
WatchInv ==
    /\ ~up => crashes # 0
    /\ TaskAlive => ctr
    /\ LiveTaskIsWatched

\* c.Lock is held exactly by the goroutine inside a critical section, and no
\* goroutine runs before a restarted daemon has restored the container.
LockInv ==
    /\ \A p \in Procs : pc[p] \in Critical <=> lock = p
    /\ \A k \in Packs : wpc[k] = "post" <=> lock = k
    /\ ~up => /\ watch = None /\ queue = 0
              /\ \A p \in Procs : pc[p] = "idle"
              /\ \A k \in Packs : wpc[k] = "none"

\* The inductive strengthening of NoResurrection and MetaIsFresh, for an
\* instance whose handlers are guarded ones.
GuardedInv ==
    /\ \A p \in Procs :
          /\ op[p] \in GuardedOps \cup {"none"}
          /\ pc[p] \notin {"count", "put"}
          /\ pc[p] = "mark" => snap
          /\ pc[p] \in {"unlink", "erase"} => (IsRunningOrPaused => watch = None)
          /\ pc[p] = "erase" => ~cache
    /\ cache = names
    /\ up /\ cache => meta = st
    /\ Removed => meta = None /\ (IsRunningOrPaused => watch = None)

\* When the exit message of the current task can be received (Wait returns),
\* the container is no longer shown as running, except to a stop in progress.
ExitShownBeforeReply ==
    \A k \in Packs :
        msg[k] /\ watch = k /\ up /\ cache =>
            \/ ~IsRunningOrPaused
            \/ \E p \in Procs : lock = p /\ pk[p] = k

\* c.Lock is always released: a stop waiting for the exit message, the exit hook
\* waiting for c.Lock and the monitor never wait on each other for good.  Whoever
\* takes it finds it free, so it is enough that it is free again and again.
LockIsReleased == []<>(lock = None)

\* The exit of a watched task is reported on the pack's channel in the end.
ExitIsReported ==
    \A k \in Packs : wpc[k] = "watch" /\ task[k] # "running" ~> msg[k]

\* Every caller of Wait is answered once the task it waits for is gone, however
\* many wait.
WaitIsAnswered ==
    \A p \in Clients :
        pc[p] \in {"wait", "cancelled"} /\ task[pk[p]] # "running" ~> pc[p] = "idle"
=============================================================================
