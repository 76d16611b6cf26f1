---------------------- MODULE ContainerLifecycleProofs ----------------------
(***************************************************************************)
(* Proofs about ContainerLifecycle, for every number of clients and of    *)
(* tasks started, and every bound.                                        *)
(***************************************************************************)
EXTENDS ContainerLifecycle, TLAPS

\* setStatusFlags leaves at most one flag, one of those the State has.
LEMMA SetStatusIsState ==
    ASSUME NEW s \in Statuses
    PROVE  SetStatus(s) \in State
  BY Zenon DEF SetStatus, State, Statuses, Flags

\* Remove raises the Dead flag and clears none.
LEMMA UnlinkIsState ==
    ASSUME st \in State, NEW p, RemoveUnlink(p)
    PROVE  /\ st' \in State
           /\ st'.flags \cap {"running", "paused"} = st.flags \cap {"running", "paused"}
<1>1. st' = [status |-> st.status, flags |-> st.flags \cup {"dead"}]
  BY Zenon DEF RemoveUnlink, State
<1> QED
  BY <1>1, Zenon DEF State, Flags

\* Every step keeps every variable in its type.
LEMMA TypeStep == TypeOK /\ [Next]_vars => TypeOK'
<1> SUFFICES ASSUME TypeOK, [Next]_vars
             PROVE  TypeOK'
    BY Zenon
<1> USE ProcsDistinct, ParametersTyped, SetStatusIsState
        DEF TypeOK, object, disk, callers, runtime, watcher, daemon, Labels,
            WatchLabels, Procs, Statuses
<1>1. CASE Enter
  BY <1>1 DEF Enter, Call, CallWait, WaitCancel, OomEvent, Goto, Handlers
<1>2. CASE HandleExitEvent
  BY <1>2 DEF HandleExitEvent, Goto, Handlers
<1>3. ASSUME NEW p \in Procs, Acquire(p)
      PROVE  TypeOK'
  <2>1. CASE Refuse(p)
    BY <2>1 DEF Refuse, Return
  <2>2. CASE StartCreate(p)
    BY <2>2 DEF StartCreate, Goto
  <2>3. CASE StartFail(p)
    BY <2>3 DEF StartFail, MarkAndRelease, Return
  <2>4. CASE DestroyBegin(p)
    BY <2>4 DEF DestroyBegin, Goto
  <2>5. CASE DestroyNotFound(p) \/ RemoveIdle(p)
    BY <2>5 DEF DestroyNotFound, RemoveIdle, Goto
  <2>6. CASE RestartNotRunning(p)
    BY <2>6 DEF RestartNotRunning
  <2>7. CASE Kill(p)
    BY <2>7 DEF Kill, Return
  <2>8. CASE Pause(p) \/ Unpause(p)
    BY <2>8 DEF Pause, Unpause, PauseOrUnpause, Return
  <2>9. CASE Update(p) \/ Connect(p) \/ Disconnect(p) \/ Oom(p)
    <3>1. CASE WriteMeta(p) /\ cache' \in BOOLEAN
      BY <3>1 DEF WriteMeta, Return
    <3>2. CASE Oom(p) /\ st.status = "dead"
      BY <3>2 DEF Oom, Return
    <3> QED
      BY <2>9, <3>1, <3>2, Zenon DEF Update, Connect, Disconnect, Oom
  <2> QED
    BY <1>3, <2>1, <2>2, <2>3, <2>4, <2>5, <2>6, <2>7, <2>8, <2>9, Zenon DEF Acquire
<1>4. ASSUME NEW p \in Procs, Proceed(p)
      PROVE  TypeOK'
  <2>1. CASE StartMark(p)
    BY <2>1 DEF StartMark, Goto, Return
  <2>2. CASE RestartMarshal(p)
    BY <2>2 DEF RestartMarshal, Goto
  <2>3. CASE RestartPut(p)
    BY <2>3 DEF RestartPut, Return
  <2>4. CASE DestroyKill(p) \/ DestroyWait(p)
    BY <2>4 DEF DestroyKill, DestroyWait, Goto
  <2>5. CASE DestroyAbort(p)
    BY <2>5, Zenon DEF DestroyAbort, Return
  <2>6. CASE StopFinish(p)
    <3>1. st' \in State /\ meta' \in State \cup {None}
      BY <2>6, Zenon DEF StopFinish, MarkAndRelease
    <3>2. /\ pc' \in [Procs -> Labels]
          /\ op' \in [Procs -> Handlers \cup {"none", "restartStop", "restartStart"}]
          /\ pk' \in [Procs -> Packs \cup {None}]
          /\ buf' \in [Procs -> State \cup {None}]
      BY <2>6 DEF StopFinish, Goto, Return
    <3>3. /\ task' \in [Packs -> {"none", "running", "exited", "deleted"}]
          /\ ctr' \in BOOLEAN
          /\ skip' \in [Packs -> BOOLEAN]
      BY <2>6, Zenon DEF StopFinish, DestroyClean, DeleteTaskAndContainer, TaskAlive
    <3> QED
      BY <2>6, <3>1, <3>2, <3>3, Zenon DEF StopFinish, DestroyClean
  <2>7. CASE RemoveDestroyed(p)
    BY <2>7 DEF RemoveDestroyed, DestroyClean, DeleteTaskAndContainer, TaskAlive, Goto
  <2>8. CASE RemoveUnlink(p)
    <3>1. st' \in State
      BY <2>8, UnlinkIsState, Zenon
    <3> QED
      BY <2>8, <3>1 DEF RemoveUnlink, Goto
  <2>9. CASE RemoveErase(p) \/ WaitReturn(p)
    BY <2>9 DEF RemoveErase, WaitReturn, Return
  <2> QED
    BY <1>4, <2>1, <2>2, <2>3, <2>4, <2>5, <2>6, <2>7, <2>8, <2>9, Zenon DEF Proceed
<1>5. ASSUME NEW k \in Packs, TaskExit(k) \/ Watch(k) \/ HookMark(k)
      PROVE  TypeOK'
  <2>1. CASE TaskExit(k)
    BY <2>1 DEF TaskExit
  <2>2. CASE Watch(k)
    <3>1. CASE WatchExit(k)
      BY <3>1 DEF WatchExit
    <3>4. CASE WatchSend(k)
      BY <3>4 DEF WatchSend
    <3>2. CASE HookFind(k)
      BY <3>2 DEF HookFind, DeleteTaskAndContainer, TaskAlive
    <3>3. CASE HookPost(k)
      BY <3>3 DEF HookPost
    <3> QED
      BY <2>2, <3>1, <3>2, <3>3, <3>4, Zenon DEF Watch
  <2>3. CASE HookMark(k)
    BY <2>3 DEF HookMark, MarkAndRelease, DeleteTaskAndContainer, TaskAlive
  <2> QED
    BY <1>5, <2>1, <2>2, <2>3, Zenon
<1>6. CASE Crash
  <2>1. /\ pc' \in [Procs -> Labels]
        /\ op' \in [Procs -> Handlers \cup {"none", "restartStop", "restartStart"}]
        /\ pk' \in [Procs -> Packs \cup {None}]
        /\ buf' \in [Procs -> State \cup {None}]
    BY <1>6, Zenon DEF Crash
  <2>2. /\ skip' \in [Packs -> BOOLEAN] /\ msg' \in [Packs -> BOOLEAN]
        /\ wpc' \in [Packs -> WatchLabels]
    BY <1>6, Zenon DEF Crash
  <2>3. queue' \in 0 .. QueueCap /\ crashes' \in 0 .. MaxCrashes
    BY <1>6 DEF Crash
  <2> QED
    BY <1>6, <2>1, <2>2, <2>3, Zenon DEF Crash
<1>7. CASE Restore
  <2>1. CASE RestoreKeep
    BY <2>1, Zenon DEF RestoreKeep, Load
  <2>2. CASE RestoreRecover
    BY <2>2, Zenon DEF RestoreRecover, Load, MetaRunning
  <2>3. CASE RestoreLost
    <3>1. st' \in State /\ meta' \in State
      BY <2>3, Zenon DEF RestoreLost
    <3>2. queue' \in 0 .. QueueCap
      BY <2>3 DEF RestoreLost
    <3> QED
      BY <2>3, <3>1, <3>2, Zenon DEF RestoreLost, Load
  <2> QED
    BY <1>7, <2>1, <2>2, <2>3, Zenon DEF Restore
<1>8. CASE UNCHANGED vars
  BY <1>8 DEF vars
<1> QED
  BY <1>1, <1>2, <1>3, <1>4, <1>5, <1>6, <1>7, <1>8, Zenon DEF Next

\* Every variable of the container manager, of ctrd and of containerd always
\* has its type; in particular the monitor's channel never exceeds its capacity.
THEOREM TypeCorrect == Spec => []TypeOK
<1>1. Init => TypeOK
  <2> SUFFICES ASSUME Init PROVE TypeOK
    BY Zenon
  <2>1. st \in State /\ meta \in State \cup {None}
    BY SetStatusIsState, Zenon DEF Init, Statuses
  <2>2. /\ pc \in [Procs -> Labels]
        /\ op \in [Procs -> Handlers \cup {"none", "restartStop", "restartStart"}]
        /\ pk \in [Procs -> Packs \cup {None}]
        /\ buf \in [Procs -> State \cup {None}]
    BY Zenon DEF Init, Labels
  <2>3. /\ task \in [Packs -> {"none", "running", "exited", "deleted"}]
        /\ skip \in [Packs -> BOOLEAN] /\ msg \in [Packs -> BOOLEAN]
        /\ wpc \in [Packs -> WatchLabels]
    BY Zenon DEF Init, WatchLabels
  <2>4. queue \in 0 .. QueueCap /\ crashes \in 0 .. MaxCrashes
    BY ParametersTyped DEF Init
  <2> QED
    BY <2>1, <2>2, <2>3, <2>4, Zenon DEF Init, TypeOK
<1> QED
  BY <1>1, TypeStep, PTL DEF Spec

-----------------------------------------------------------------------------

\* A step that leaves containerd, the watched pack and the daemon alone keeps
\* the live task watched.
LEMMA WatchUntouched ==
    WatchInv /\ UNCHANGED <<task, ctr, watch, up, crashes>> => WatchInv'
  BY DEF WatchInv, LiveTaskIsWatched, TaskAlive

\* start adds a task only when there is none, destroy forgets a pack only when
\* its task is gone.
LEMMA WatchStep == TypeOK /\ WatchInv /\ [Next]_vars => WatchInv'
<1> SUFFICES ASSUME TypeOK, WatchInv, [Next]_vars
             PROVE  WatchInv'
    BY Zenon
<1> USE DEF object, disk, callers, runtime, watcher, daemon
<1>1. CASE Enter \/ HandleExitEvent
  BY <1>1, WatchUntouched, Zenon DEF Enter, HandleExitEvent, Call, CallWait, WaitCancel, OomEvent
<1>2. ASSUME NEW p \in Procs, Acquire(p)
      PROVE  WatchInv'
  <2>1. CASE StartCreate(p)
    BY <2>1 DEF StartCreate, WatchInv, LiveTaskIsWatched, TaskAlive, TypeOK
  <2>2. CASE Kill(p)
    BY <2>2, Zenon DEF Kill, WatchInv, LiveTaskIsWatched, TaskAlive, TypeOK
  <2>3. CASE \/ Refuse(p) \/ StartFail(p) \/ DestroyBegin(p) \/ DestroyNotFound(p)
             \/ RestartNotRunning(p) \/ RemoveIdle(p) \/ Pause(p) \/ Unpause(p)
    BY <2>3, WatchUntouched, Zenon DEF Refuse, StartFail, DestroyBegin, DestroyNotFound,
       RestartNotRunning, RemoveIdle, Pause, Unpause, PauseOrUnpause
  <2>4. CASE Update(p) \/ Connect(p) \/ Disconnect(p) \/ Oom(p)
    BY <2>4, WatchUntouched, Zenon DEF Update, Connect, Disconnect, Oom, WriteMeta
  <2> QED
    BY <1>2, <2>1, <2>2, <2>3, <2>4, Zenon DEF Acquire
<1>3. ASSUME NEW p \in Procs, Proceed(p)
      PROVE  WatchInv'
  <2>1. CASE StopFinish(p) \/ RemoveDestroyed(p)
    <3>1. ~TaskAlive /\ DeleteTaskAndContainer /\ UNCHANGED <<up, crashes>>
      BY <2>1, Zenon DEF StopFinish, RemoveDestroyed, DestroyClean
    <3>2. ~TaskAlive'
      BY <3>1, Zenon DEF DeleteTaskAndContainer, TaskAlive, TypeOK
    <3> QED
      BY <3>1, <3>2, Zenon DEF WatchInv, LiveTaskIsWatched, TaskAlive
  <2>2. CASE \/ StartMark(p) \/ RestartMarshal(p) \/ RestartPut(p) \/ DestroyKill(p)
             \/ DestroyWait(p) \/ DestroyAbort(p) \/ RemoveUnlink(p) \/ RemoveErase(p)
             \/ WaitReturn(p)
    BY <2>2, WatchUntouched, Zenon DEF StartMark, RestartMarshal, RestartPut, DestroyKill,
       DestroyWait, DestroyAbort, RemoveUnlink, RemoveErase, WaitReturn
  <2> QED
    BY <1>3, <2>1, <2>2, Zenon DEF Proceed
<1>4. ASSUME NEW k \in Packs, TaskExit(k) \/ Watch(k) \/ HookMark(k)
      PROVE  WatchInv'
  <2>1. CASE TaskExit(k)
    BY <2>1, Zenon DEF TaskExit, WatchInv, LiveTaskIsWatched, TaskAlive, TypeOK
  <2>2. CASE DeleteTaskAndContainer /\ UNCHANGED <<watch, up, crashes>>
    BY <2>2, Zenon DEF DeleteTaskAndContainer, WatchInv, LiveTaskIsWatched, TaskAlive, TypeOK
  <2>3. CASE Watch(k) \/ HookMark(k)
    BY <2>2, <2>3, WatchUntouched, Zenon DEF Watch, WatchExit, HookFind, HookMark, HookPost,
       WatchSend
  <2> QED
    BY <1>4, <2>1, <2>3, Zenon
<1>5. CASE Crash
  BY <1>5 DEF Crash, WatchInv, LiveTaskIsWatched, TaskAlive, TypeOK
<1>6. CASE Restore
  <2>1. crashes # 0 /\ crashes' = crashes /\ up' = TRUE
    BY <1>6, Zenon DEF Restore, RestoreKeep, RestoreRecover, RestoreLost, Load, WatchInv
  <2>2. TaskAlive' => ctr'
    BY <1>6, Zenon DEF Restore, RestoreKeep, RestoreRecover, RestoreLost, WatchInv, TaskAlive
  <2> QED
    BY <2>1, <2>2, Zenon DEF WatchInv, LiveTaskIsWatched, TaskAlive
<1>7. CASE UNCHANGED vars
  BY <1>7, WatchUntouched, Zenon DEF vars
<1> QED
  BY <1>1, <1>2, <1>3, <1>4, <1>5, <1>6, <1>7, Zenon DEF Next

\* Whatever the handlers, goroutines and task exits do, a daemon that has not
\* been restarted watches every live task, so there is at most one: concurrent
\* starts and restarts do not start the container twice, and a destroy that gives
\* up does not lose the task.
THEOREM LiveTaskWatched == Spec => []LiveTaskIsWatched
<1>1. Init => WatchInv
  BY Zenon DEF Init, WatchInv, LiveTaskIsWatched, TaskAlive
<1>2. WatchInv => LiveTaskIsWatched
  BY Zenon DEF WatchInv
<1> QED
  BY <1>1, <1>2, TypeCorrect, WatchStep, PTL DEF Spec

-----------------------------------------------------------------------------

\* Only a goroutine that finds c.Lock free enters a critical section, and each
\* way out of one releases it.
LEMMA LockStep == TypeOK /\ LockInv /\ [Next]_vars => LockInv'
<1> SUFFICES ASSUME TypeOK, LockInv, [Next]_vars
             PROVE  LockInv'
    BY Zenon
<1>0. pc \in [Procs -> Labels] /\ wpc \in [Packs -> WatchLabels] /\ queue \in Nat
  BY ParametersTyped DEF TypeOK
<1> USE <1>0, ProcsDistinct
        DEF LockInv, Critical, object, disk, callers, runtime, watcher, daemon
<1>1. CASE Enter
  <2>1. ASSUME NEW p \in Procs, NEW o, Call(p, o)
        PROVE  LockInv'
    BY <2>1, Zenon DEF Call, Goto
  <2>2. ASSUME NEW p \in Procs, CallWait(p) \/ WaitCancel(p)
        PROVE  LockInv'
    BY <2>2, Zenon DEF CallWait, WaitCancel, Goto
  <2> QED
    BY <1>1, <2>1, <2>2, Zenon DEF Enter, OomEvent, Procs
<1>8. CASE HandleExitEvent
  <2>1. up /\ UNCHANGED <<lock, wpc, up>>
    BY <1>8 DEF HandleExitEvent
  <2>2. \A q \in Procs : pc'[q] \in Critical <=> pc[q] \in Critical
    BY <1>8 DEF HandleExitEvent, Goto, Procs
  <2> QED
    BY <2>1, <2>2, Zenon
<1>2. ASSUME NEW p \in Procs, Acquire(p)
      PROVE  LockInv'
  <2>1. CASE StartCreate(p)
    BY <2>1 DEF StartCreate, CanStart, Locks, Goto
  <2>2. CASE DestroyBegin(p) \/ DestroyNotFound(p) \/ RemoveIdle(p)
    BY <2>2 DEF DestroyBegin, DestroyNotFound, NeedsDestroy, RemoveIdle, Locks, Goto
  <2>3. CASE Refuse(p) \/ StartFail(p) \/ Kill(p) \/ Pause(p) \/ Unpause(p)
    BY <2>3 DEF Refuse, StartFail, CanStart, Kill, Pause, Unpause, PauseOrUnpause, Locks, Return
  <2>4. CASE Update(p) \/ Connect(p) \/ Disconnect(p) \/ Oom(p)
    <3>1. /\ pc[p] = "lock" /\ pc' = [pc EXCEPT ![p] = "idle"]
          /\ UNCHANGED <<lock, watcher, queue, up>>
      BY <2>4, Zenon DEF Update, Connect, Disconnect, Oom, WriteMeta, Locks, Return
    <3> QED
      BY <3>1, Zenon
  <2>5. CASE RestartNotRunning(p)
    BY <2>5, Zenon DEF RestartNotRunning
  <2> QED
    BY <1>2, <2>1, <2>2, <2>3, <2>4, <2>5, Zenon DEF Acquire
<1>3. ASSUME NEW p \in Procs, Proceed(p)
      PROVE  LockInv'
  <2>1. CASE StartMark(p)
    BY <2>1 DEF StartMark, Goto, Return
  <2>2. CASE RestartMarshal(p) \/ RestartPut(p) \/ WaitReturn(p)
    BY <2>2 DEF RestartMarshal, RestartPut, WaitReturn, Goto, Return
  <2>3. CASE DestroyKill(p) \/ DestroyWait(p)
    BY <2>3 DEF DestroyKill, DestroyWait, Goto
  <2>4. CASE DestroyAbort(p) \/ RemoveErase(p)
    BY <2>4 DEF DestroyAbort, RemoveErase, Return
  <2>5. CASE StopFinish(p)
    BY <2>5 DEF StopFinish, DestroyClean, Goto, Return
  <2>6. CASE RemoveDestroyed(p) \/ RemoveUnlink(p)
    BY <2>6, Zenon DEF RemoveDestroyed, RemoveUnlink, DestroyClean, Goto
  <2> QED
    BY <1>3, <2>1, <2>2, <2>3, <2>4, <2>5, <2>6, Zenon DEF Proceed
<1>4. ASSUME NEW k \in Packs, TaskExit(k) \/ Watch(k) \/ HookMark(k)
      PROVE  LockInv'
  <2>1. CASE TaskExit(k) \/ WatchExit(k) \/ HookFind(k) \/ WatchSend(k)
    BY <2>1 DEF TaskExit, WatchExit, HookFind, WatchSend
  <2>2. CASE HookMark(k) \/ HookPost(k)
    BY <2>2 DEF HookMark, HookPost
  <2> QED
    BY <1>4, <2>1, <2>2, Zenon DEF Watch
<1>5. CASE Crash
  BY <1>5, Zenon DEF Crash
<1>6. CASE Restore
  BY <1>6, Zenon DEF Restore, RestoreKeep, RestoreRecover, RestoreLost, Load
<1>7. CASE UNCHANGED vars
  BY <1>7, Zenon DEF vars
<1> QED
  BY <1>1, <1>2, <1>3, <1>4, <1>5, <1>6, <1>7, <1>8, Zenon DEF Next

-----------------------------------------------------------------------------

\* What most steps do: the container, its files and the watched pack stay, the
\* callers run guarded handlers, and the labels that GuardedInv constrains are
\* neither entered nor, in the case of a removal, left.
Quiet ==
    /\ UNCHANGED <<object, disk, watch, up>>
    /\ \A q \in Procs : op'[q] \in GuardedOps \cup {"none"}
    /\ \A q \in Procs :
          \/ pc'[q] = pc[q]
          \/ /\ pc[q] # "erase"
             /\ pc'[q] \notin {"count", "put", "mark", "unlink", "erase"}

\* A quiet step keeps the guarded invariant.
LEMMA GuardedQuiet ==
    ASSUME GuardedInv, Quiet
    PROVE  GuardedInv'
<1>1. UNCHANGED <<st, cache, names, meta, snap, watch, up>>
  BY Zenon DEF Quiet, object, disk
<1>2. Removed' => Removed
  <2>1. \A q \in Procs : pc'[q] # "erase" => pc[q] # "erase"
    BY Zenon DEF Quiet
  <2> QED
    BY <1>1, <2>1, Zenon DEF Removed
<1>3. IsRunningOrPaused' = IsRunningOrPaused
  BY <1>1, Zenon DEF IsRunningOrPaused
<1>4. ASSUME NEW q \in Procs
      PROVE  /\ op'[q] \in GuardedOps \cup {"none"}
             /\ pc'[q] \notin {"count", "put"}
             /\ pc'[q] = "mark" => snap'
             /\ pc'[q] \in {"unlink", "erase"} => (IsRunningOrPaused' => watch' = None)
             /\ pc'[q] = "erase" => ~cache'
  BY <1>1, <1>3, Zenon DEF Quiet, GuardedInv
<1> QED
  BY <1>1, <1>2, <1>3, <1>4, Zenon DEF GuardedInv

\* An instance whose handlers are guarded stays within them.
LEMMA GuardedStep ==
    ASSUME Ops \subseteq GuardedOps
    PROVE  TypeOK /\ LockInv /\ GuardedInv /\ [Next]_vars => GuardedInv'
<1> SUFFICES ASSUME TypeOK, LockInv, GuardedInv, [Next]_vars
             PROVE  GuardedInv'
    BY Zenon
<1>0. /\ st \in State
      /\ pc \in [Procs -> Labels]
      /\ op \in [Procs -> Handlers \cup {"none", "restartStop", "restartStart"}]
      /\ \A q \in Procs : op[q] \in GuardedOps \cup {"none"}
  BY Zenon DEF TypeOK, GuardedInv
<1>q. Quiet => GuardedInv'
  BY GuardedQuiet, Zenon
<1> USE <1>0 DEF object, disk, callers, runtime, watcher, daemon
<1>1. CASE Enter
  <2>1. CASE \E p \in Clients : CallWait(p) \/ WaitCancel(p)
    BY <2>1, <1>q DEF CallWait, WaitCancel, Goto, Quiet
  <2>2. ASSUME NEW p \in Procs, NEW o \in GuardedOps, Call(p, o)
        PROVE  GuardedInv'
    <3>1. op'[p] \in GuardedOps
      BY <2>2, Zenon DEF Call, GuardedOps
    <3> QED
      BY <2>2, <3>1, <1>q, Zenon DEF Call, Goto, Quiet
  <2>3. "oom" \notin Ops
    BY Zenon DEF GuardedOps
  <2> QED
    BY <1>1, <2>1, <2>2, <2>3, Zenon DEF Enter, Procs
<1>2. CASE HandleExitEvent
  BY <1>2, <1>q DEF HandleExitEvent, Goto, Quiet, GuardedOps
<1>3. ASSUME NEW p \in Procs, Acquire(p)
      PROVE  GuardedInv'
  <2>1. CASE Refuse(p)
    BY <2>1, <1>q, Zenon DEF Refuse, Locks, Return, Quiet
  <2>2. CASE StartCreate(p)
    BY <2>2, Zenon DEF StartCreate, CanStart, Locks, Goto, GuardedInv, Removed, IsRunningOrPaused
  <2>3. CASE StartFail(p)
    BY <2>3, Zenon DEF StartFail, CanStart, MarkAndRelease, FoundByName, SetStatus, Flags, Locks,
       Return, GuardedInv, Removed, IsRunningOrPaused
  <2>4. CASE DestroyBegin(p)
    BY <2>4, <1>q, Zenon DEF DestroyBegin, NeedsDestroy, Locks, Goto, Quiet
  <2>5. CASE DestroyNotFound(p) \/ RemoveIdle(p)
    <3>1. /\ UNCHANGED <<object, disk, op, watch, up>>
          /\ pc[p] = "lock" /\ pc' = [pc EXCEPT ![p] = "unlink"]
          /\ IsRunningOrPaused => watch = None
      BY <2>5, Zenon DEF DestroyNotFound, NeedsDestroy, RemoveIdle, Locks, Goto
    <3> QED
      BY <3>1, Zenon DEF GuardedInv, Removed, IsRunningOrPaused
  <2>6. CASE Kill(p)
    BY <2>6, <1>q, Zenon DEF Kill, Locks, Return, Quiet
  <2>7. CASE Pause(p) \/ Unpause(p)
    <3>1. /\ UNCHANGED <<cache, names, snap, watch, up>> /\ meta' = st'
          /\ pc' = [pc EXCEPT ![p] = "idle"] /\ op' = [op EXCEPT ![p] = "none"]
          /\ lock = None /\ pc[p] = "lock"
          /\ watch # None /\ IsRunningOrPaused
      BY <2>7, Zenon DEF Pause, Unpause, PauseOrUnpause, Locks, Return, IsRunningOrPaused
    <3>2. \A q \in Procs : pc[q] \notin {"unlink", "erase"}
      BY <3>1, ProcsDistinct, Zenon DEF LockInv, Critical
    <3>3. ~Removed
      BY <3>1, Zenon DEF GuardedInv
    <3>4. ~Removed'
      BY <3>1, <3>2, <3>3, Zenon DEF Removed
    <3> QED
      BY <3>1, <3>2, <3>4, Zenon DEF GuardedInv
  <2> QED
    BY <1>3, <2>1, <2>2, <2>3, <2>4, <2>5, <2>6, <2>7, Zenon DEF Acquire, RestartNotRunning,
       Update, Connect, Disconnect, Oom, Locks, GuardedOps
<1>4. ASSUME NEW p \in Procs, Proceed(p)
      PROVE  GuardedInv'
  <2>1. CASE StartMark(p)
    <3>1. /\ pc[p] = "mark" /\ snap
          /\ UNCHANGED <<cache, names, snap, watch>> /\ meta' = st'
          /\ pc' = [pc EXCEPT ![p] = "idle"] /\ op' = [op EXCEPT ![p] = "none"]
      BY <2>1, Zenon DEF StartMark, Return, GuardedInv, GuardedOps
    <3>2. ~Removed'
      BY <3>1, Zenon DEF Removed
    <3>3. \A q \in Procs : q # p => pc[q] \notin {"unlink", "erase"}
      BY <3>1, ProcsDistinct, Zenon DEF LockInv, Critical
    <3> QED
      BY <3>1, <3>2, <3>3, Zenon DEF GuardedInv
  <2>2. CASE DestroyKill(p) \/ DestroyWait(p)
    BY <2>2, <1>q DEF DestroyKill, DestroyWait, Goto, Quiet
  <2>3. CASE DestroyAbort(p) \/ WaitReturn(p)
    BY <2>3, <1>q, Zenon DEF DestroyAbort, WaitReturn, Return, Quiet
  <2>4. CASE StopFinish(p)
    <3>1. op[p] # "restartStop"
      BY Zenon DEF GuardedOps
    <3>2. /\ \A q \in Procs : op'[q] \in GuardedOps \cup {"none"}
          /\ pc[p] = "clean" /\ pc' = [pc EXCEPT ![p] = "idle"]
          /\ UNCHANGED <<cache, names, snap, up>> /\ watch' = None
      BY <2>4, <3>1, Zenon DEF StopFinish, DestroyClean, Return
    <3>3. Removed' => Removed
      BY <3>2, Zenon DEF Removed
    <3>4. IF FoundByName THEN st' = meta' ELSE meta' = meta
      BY <2>4, Zenon DEF StopFinish, MarkAndRelease
    <3> QED
      BY <3>2, <3>3, <3>4, Zenon DEF GuardedInv, FoundByName, Removed
  <2>5. CASE RemoveDestroyed(p)
    BY <2>5, Zenon DEF RemoveDestroyed, DestroyClean, Goto, GuardedInv, Removed, IsRunningOrPaused
  <2>6. CASE RemoveUnlink(p)
    <3>1. /\ cache' = FALSE /\ names' = FALSE
          /\ pc[p] = "unlink" /\ pc' = [pc EXCEPT ![p] = "erase"]
          /\ UNCHANGED <<op, watch>>
      BY <2>6, Zenon DEF RemoveUnlink, Goto
    <3>2. IsRunningOrPaused' = IsRunningOrPaused
      BY <2>6, UnlinkIsState, Zenon DEF IsRunningOrPaused
    <3>3. ~Removed'
      BY <3>1, Zenon DEF Removed
    <3>4. \A q \in Procs : q # p => pc[q] # "mark"
      BY <3>1, ProcsDistinct, Zenon DEF LockInv, Critical
    <3> QED
      BY <3>1, <3>2, <3>3, <3>4, Zenon DEF GuardedInv, IsRunningOrPaused
  <2>7. CASE RemoveErase(p)
    BY <2>7, Zenon DEF RemoveErase, Return, GuardedInv, Removed, IsRunningOrPaused
  <2> QED
    BY <1>4, <2>1, <2>2, <2>3, <2>4, <2>5, <2>6, <2>7, Zenon DEF Proceed, RestartMarshal,
       RestartPut, GuardedInv
<1>5. ASSUME NEW k \in Packs, TaskExit(k) \/ Watch(k) \/ HookMark(k)
      PROVE  GuardedInv'
  <2>1. CASE TaskExit(k) \/ WatchExit(k) \/ HookFind(k) \/ HookPost(k) \/ WatchSend(k)
    BY <2>1, <1>q, Zenon DEF TaskExit, WatchExit, HookFind, HookPost, WatchSend, Quiet
  <2>2. CASE HookMark(k)
    BY <2>2, Zenon DEF HookMark, MarkAndRelease, FoundByName, SetStatus, Flags, GuardedInv,
       Removed, IsRunningOrPaused, LockInv, Critical
  <2> QED
    BY <1>5, <2>1, <2>2, Zenon DEF Watch
<1>6. CASE Crash
  BY <1>6, Zenon DEF Crash, GuardedInv, GuardedOps, Removed, IsRunningOrPaused
<1>7. CASE Restore
  <2>1. ~up /\ \A q \in Procs : pc[q] = "idle"
    BY <1>7, Zenon DEF Restore, RestoreKeep, RestoreRecover, RestoreLost, Load, LockInv
  <2> USE <2>1 DEF LockInv, Load, GuardedInv, GuardedOps, Removed, IsRunningOrPaused
  <2>2. CASE RestoreKeep
    BY <2>2, Zenon DEF RestoreKeep
  <2>3. CASE RestoreRecover
    BY <2>3, Zenon DEF RestoreRecover, MetaRunning
  <2>4. CASE RestoreLost
    BY <2>4, Zenon DEF RestoreLost, MetaRunning
  <2> QED
    BY <1>7, <2>2, <2>3, <2>4, Zenon DEF Restore
<1>8. CASE UNCHANGED vars
  BY <1>8, <1>q, Zenon DEF vars, Quiet
<1> QED
  BY <1>1, <1>2, <1>3, <1>4, <1>5, <1>6, <1>7, <1>8, Zenon DEF Next

\* Both invariants hold throughout such an instance.
LEMMA GuardedAlways ==
    ASSUME Ops \subseteq GuardedOps
    PROVE  Spec => []GuardedInv
<1>1. Init => LockInv /\ GuardedInv
  BY ProcsDistinct DEF Init, LockInv, GuardedInv, Critical, Removed
<1>2. TypeOK /\ LockInv /\ GuardedInv /\ [Next]_vars => GuardedInv'
  BY GuardedStep, Zenon
<1> QED
  BY <1>1, <1>2, TypeCorrect, LockStep, PTL DEF Spec

\* In an instance whose handlers are guarded, no goroutine that still holds a
\* removed container writes its meta.json again: the checks by name in
\* markStoppedAndRelease and markExitedAndRelease, the Dead flag and the missing
\* snapshot suffice together, although the exit hook clears the Dead flag.
THEOREM RemovedStaysRemoved ==
    ASSUME Ops \subseteq GuardedOps
    PROVE  Spec => []NoResurrection
<1>1. GuardedInv => NoResurrection
  BY Zenon DEF GuardedInv, NoResurrection
<1> QED
  BY <1>1, GuardedAlways, PTL

\* Under the same condition meta.json agrees with c.State whenever c.Lock is
\* free: every handler writes what it changed before it releases the lock.
THEOREM MetaStaysFresh ==
    ASSUME Ops \subseteq GuardedOps
    PROVE  Spec => []MetaIsFresh
<1>1. GuardedInv => MetaIsFresh
  BY Zenon DEF GuardedInv, MetaIsFresh
<1> QED
  BY <1>1, GuardedAlways, PTL
=============================================================================
