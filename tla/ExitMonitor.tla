---------------------------- MODULE ExitMonitor ----------------------------
(***************************************************************************)
(* The channel that all exit hooks share (daemon/mgr/container_monitor.go, *)
(* and exitedAndRelease in container.go): the hook of a container posts an *)
(* exit event while it holds the lock of the container, and the goroutine  *)
(* of the monitor restarts the container, for which it needs that lock.    *)
(* All containers here have a restart policy.  What a start and a stop do  *)
(* to one container is the subject of module ContainerLifecycle.           *)
(***************************************************************************)
EXTENDS Integers, Sequences, FiniteSets, Scenario

CONSTANTS
    Monitored,  \* containers
    ChanCap,    \* capacity of the channel (1000 in the code)
    MaxExits    \* bound: exits of a container

(* The cases: "overflow" more exits may be pending than the channel holds; *)
(* "releaseFails" the release of an exited container's resources may fail; *)
(* "startFails" the start of the monitor may fail; "removes" clients also  *)
(* remove containers.                                                      *)

VARIABLES
    running,   \* the containers that run
    exits,     \* exits[c]: how often the task of c has exited
    owner,     \* owner[c]: who holds the lock of c
    hook,      \* hook[c]: where the exit hook of c is
    channel,   \* ContainerMonitor.c
    handling,  \* where the monitor is; the container, in a tuple, whose lock it waits for
    gone,      \* the containers that were removed
    dropped    \* history: the containers whose last exit was given up after an error

monVars == <<running, exits, owner, hook, channel, handling, gone, dropped>>

Pending == Len(channel) + Cardinality({c \in Monitored : hook[c] \in {"lock", "post"}})

\* The task of a running container exits; its watcher calls the hook.
MonTaskExits(c) ==
    /\ c \in running /\ hook[c] = "none" /\ exits[c] < MaxExits
    /\ On("overflow") \/ Pending < ChanCap
    /\ exits' = [exits EXCEPT ![c] = @ + 1] /\ hook' = [hook EXCEPT ![c] = "lock"]
    /\ UNCHANGED <<running, owner, channel, handling, gone, dropped>>

\* exitedAndRelease up to PostEvent.  When the release fails, the hook returns
\* the error, which its caller logs, and posts nothing.
MarkExited(c) ==
    /\ hook[c] = "lock" /\ owner[c] = "none" /\ c \notin gone
    /\ owner' = [owner EXCEPT ![c] = "hook"] /\ running' = running \ {c}
    /\ \/ hook' = [hook EXCEPT ![c] = "post"] /\ UNCHANGED dropped
       \/ /\ On("releaseFails")
          /\ hook' = [hook EXCEPT ![c] = "unlock"] /\ dropped' = dropped \cup {c}
    /\ UNCHANGED <<exits, channel, handling, gone>>

\* The hook of a container that was removed before it got the lock finds no
\* container, at its start or before PostEvent, and returns.
FindRemoved(c) ==
    /\ hook[c] = "lock" /\ owner[c] = "none" /\ c \in gone
    /\ hook' = [hook EXCEPT ![c] = "none"]
    /\ UNCHANGED <<running, exits, owner, channel, handling, gone, dropped>>

PostEvent(c) ==
    /\ hook[c] = "post" /\ Len(channel) < ChanCap
    /\ channel' = Append(channel, c) /\ hook' = [hook EXCEPT ![c] = "unlock"]
    /\ UNCHANGED <<running, exits, owner, handling, gone, dropped>>

MutantUnlockForgotten(c) ==
    /\ hook[c] = "unlock" /\ hook' = [hook EXCEPT ![c] = "none"]
    /\ UNCHANGED <<running, exits, owner, channel, handling, gone, dropped>>

HookReturns(c) ==
    /\ hook[c] = "unlock" /\ hook' = [hook EXCEPT ![c] = "none"]
    /\ owner' = [owner EXCEPT ![c] = "none"]
    /\ UNCHANGED <<running, exits, channel, handling, gone, dropped>>

\* The handler reads the state without the lock.
HandleEvent ==
    /\ handling = <<>> /\ channel # <<>>
    /\ channel' = Tail(channel)
    /\ handling' = IF Head(channel) \in running \cup gone THEN <<>> ELSE <<Head(channel)>>
    /\ UNCHANGED <<running, exits, owner, hook, gone, dropped>>

\* mgr.Start, in the goroutine of the monitor; a running container is left.
\* The monitor only logs the error of a start that fails, and that of a
\* container that is no longer there.
MonitorStarts ==
    /\ handling # <<>> /\ owner[handling[1]] = "none" /\ handling' = <<>>
    /\ LET c == handling[1]
       IN \/ /\ c \notin gone
             /\ running' = running \cup {c} /\ dropped' = dropped \ {c}
          \/ c \in gone /\ UNCHANGED <<running, dropped>>
          \/ /\ On("startFails") /\ c \notin running \cup gone
             /\ dropped' = dropped \cup {c} /\ UNCHANGED running
    /\ UNCHANGED <<exits, owner, hook, channel, gone>>

\* A client starts the container before the monitor does.
ClientStarts(c) ==
    /\ c \notin running \cup gone /\ owner[c] = "none"
    /\ running' = running \cup {c} /\ dropped' = dropped \ {c}
    /\ UNCHANGED <<exits, owner, hook, channel, handling, gone>>

\* A client removes the container, by force if its exit is not yet recorded.
ClientRemoves(c) ==
    /\ On("removes") /\ c \notin gone /\ owner[c] = "none"
    /\ c \notin running \/ hook[c] = "lock"
    /\ gone' = gone \cup {c} /\ running' = running \ {c} /\ dropped' = dropped \ {c}
    /\ UNCHANGED <<exits, owner, hook, channel, handling>>

MonInit ==
    /\ running = Monitored /\ exits = [c \in Monitored |-> 0]
    /\ owner = [c \in Monitored |-> "none"] /\ hook = [c \in Monitored |-> "none"]
    /\ channel = <<>> /\ handling = <<>> /\ gone = {} /\ dropped = {}

Hook(c) == MarkExited(c) \/ FindRemoved(c) \/ PostEvent(c) \/ HookReturns(c)

MonNext ==
    \/ HandleEvent \/ MonitorStarts
    \/ \E c \in Monitored :
           Hook(c) \/ MonTaskExits(c) \/ ClientStarts(c) \/ ClientRemoves(c)

\* The hooks and the monitor go on; a mutex that is free is got in the end.
MonFairness ==
    /\ SF_monVars(On("monitor") /\ (HandleEvent \/ MonitorStarts))
    /\ \A c \in Monitored : SF_monVars(On("monitor") /\ Hook(c))

-----------------------------------------------------------------------------
(* Properties *)

\* Every variable has its type.
MonTypeOK ==
    /\ running \subseteq Monitored /\ exits \in [Monitored -> 0..MaxExits]
    /\ owner \in [Monitored -> {"none", "hook"}]
    /\ hook \in [Monitored -> {"none", "lock", "post", "unlock"}]
    /\ Len(channel) <= ChanCap /\ Len(handling) <= 1
    /\ gone \subseteq Monitored \ running /\ dropped \subseteq Monitored \ running

\* The monitor waits for the lock of a container whose hook holds it and
\* waits for a place in the channel, which only the monitor can make.
Blocked ==
    handling # <<>> /\ hook[handling[1]] = "post" /\ Len(channel) = ChanCap

\* An exited container runs again and its hook returns, unless the container
\* was removed, or its release or its restart failed: the hooks that wait for
\* the channel and the monitor that waits for their locks do not wait on each
\* other, except in one way, that the channel is full and the monitor needs
\* the lock of a hook which waits for a place in it.
ExitedRunsAgain ==
    \A c \in Monitored :
        (On("monitor") /\ hook[c] # "none") ~>
            ((On("overflow") /\ Blocked) \/ (c \in running \cup gone \cup dropped /\ hook[c] = "none"))

\* Every exited container has an event or a handler that will restart it: no
\* exit is forgotten, also when a client starts the container in between and
\* it exits again before its first event is handled, or when an event of an
\* exit before comes after the error that gave the exit up.
ExitIsPending ==
    \A c \in Monitored \ (gone \cup dropped) :
        c \in running \/ hook[c] \in {"lock", "post"} \/ handling = <<c>>
            \/ \E i \in DOMAIN channel : channel[i] = c

\* No exit is forgotten, and every exited container runs again.
ExitIsHandled == [](MonTypeOK /\ ExitIsPending) /\ ExitedRunsAgain
=============================================================================
