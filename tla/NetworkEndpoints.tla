------------------------- MODULE NetworkEndpoints -------------------------
(***************************************************************************)
(* The networks of one container: the endpoints and the sandbox that       *)
(* libnetwork keeps for it, and what the container's NetworkSettings say   *)
(* of them, through start, exit, stop, remove, Connect, Disconnect, the    *)
(* removal of networks and a restart of the daemon.  The container's       *)
(* operations hold its lock, so there is one of them at a time; each call  *)
(* of EndpointCreate and EndpointRemove is a step of it.  Case "removed":  *)
(* a network in use by nobody's endpoint may be removed.                   *)
(***************************************************************************)
EXTENDS Integers, FiniteSets, Scenario

CONSTANT Networks

VARIABLES
    networks,  \* the networks that exist
    lib,       \* libnetwork: per network the endpoint of the container (0: none),
               \* its sandbox, and the networks whose endpoint is in the sandbox
    netCtr,       \* the container in memory: state, Networks with their EndpointID,
               \* SandboxID and NetworkDisabled
    saved,     \* the container in its meta.json
    task,      \* its task in containerd: none, running, exited with its exit hook
               \* waiting for the lock, cleaning when the hook has returned and its
               \* watcher deletes it, or left over and watched by nobody
    netOp      \* the operation that has the lock, the networks it has still to do,
               \* and whether all went well so far

netVars == <<networks, lib, netCtr, saved, task, netOp>>

EmptyLib == [eps |-> [n \in Networks |-> 0], sb |-> 0, joined |-> {}]
NetIdle == [at |-> "idle", todo |-> {}, ok |-> TRUE]
Op(at, todo) == netOp' = [at |-> at, todo |-> todo, ok |-> TRUE]

\* Ids are random: some id that is in use nowhere.
Fresh(used) == CHOOSE i \in 1..(Cardinality(used) + 1) : i \notin used
NewEndpoint ==
    Fresh(UNION {{lib.eps[n], netCtr.ep[n], saved.ep[n]} : n \in Networks})
NewSandbox == Fresh({lib.sb, netCtr.sid, saved.sid})

-----------------------------------------------------------------------------
(* The network manager *)

\* What EndpointCreate may do: an endpoint of the same name is deleted first; id
\* is 0 if it fails.  None of the errors after CreateEndpoint reaches the err of
\* the deferred function, so the endpoint stays.
EndpointCreate(n) ==
    LET gone == [lib EXCEPT !.eps[n] = 0, !.joined = @ \ {n}]
        id == NewEndpoint
        made == [gone EXCEPT !.eps[n] = id]
        sb == IF lib.sb = 0 THEN NewSandbox ELSE lib.sb
        boxed == [made EXCEPT !.sb = sb]
        Failed(l, sid) == [lib |-> l, sid |-> sid, id |-> 0]
    IN IF n \notin networks THEN {Failed(lib, netCtr.sid)}
       ELSE {[lib |-> [boxed EXCEPT !.joined = @ \cup {n}], sid |-> sb, id |-> id]}
            \cup {r \in {Failed(lib, netCtr.sid), Failed(gone, netCtr.sid), Failed(boxed, sb)}
                        \cup {Failed(made, netCtr.sid) : s \in {lib.sb} \cap {0}} :
                    On(IF netOp.at = "create" THEN "createFails" ELSE "connectFails")}

\* What EndpointRemove may do.  It goes by the SandboxID and the EndpointID that
\* the container has; its callers take "not found" for success.
EndpointRemove(n) ==
    LET left == [lib EXCEPT !.joined = @ \ {n}]
        deleted == [left EXCEPT !.eps[n] = 0]
        Result(l, ep, ok) == [lib |-> l, ep |-> ep, ok |-> ok]
    IN IF netCtr.sid = 0 \/ netCtr.sid # lib.sb THEN {Result(lib, netCtr.ep[n], TRUE)}
       ELSE IF n \notin lib.joined \/ lib.eps[n] # netCtr.ep[n] THEN {Result(lib, netCtr.ep[n], FALSE)}
       ELSE {Result(IF left.joined = {} THEN [deleted EXCEPT !.sb = 0] ELSE deleted, 0, TRUE)}
            \cup {r \in {Result(lib, netCtr.ep[n], FALSE), Result(left, netCtr.ep[n], FALSE)}
                        \cup {Result(deleted, 0, FALSE) : s \in {left.joined} \cap {{}}} :
                    On("removeFails")}

\* Create
NetworkCreate(n) ==
    /\ n \notin networks /\ networks' = networks \cup {n}
    /\ UNCHANGED <<lib, netCtr, saved, task, netOp>>

\* Remove; libnetwork refuses it while the network has an endpoint.
NetworkRemove(n) ==
    /\ On("removed") /\ n \in networks /\ lib.eps[n] = 0
    /\ networks' = networks \ {n}
    /\ UNCHANGED <<lib, netCtr, saved, task, netOp>>

-----------------------------------------------------------------------------
(* start *)

NetStart ==
    /\ netOp = NetIdle /\ netCtr.state = "stopped"
    /\ Op("create", netCtr.nets)
    /\ UNCHANGED <<networks, lib, netCtr, saved, task>>

\* prepareContainerNetwork takes the networks in any order; after an error the
\* deferred function of start releases all of them.
PrepareNetwork(n) ==
    /\ netOp.at = "create" /\ n \in netOp.todo
    /\ \E r \in EndpointCreate(n) :
          /\ lib' = r.lib
          /\ netCtr' = [netCtr EXCEPT !.sid = r.sid, !.ep[n] = IF r.id = 0 THEN @ ELSE r.id]
          /\ IF r.id = 0 THEN Op("rollback", netCtr.nets) ELSE Op("create", netOp.todo \ {n})
    /\ UNCHANGED <<networks, saved, task>>

\* createContainerdContainer fails before or in CreateContainer; in the latter
\* case, which is also that of a task left over, it marks the container stopped
\* and releases it, before start does.
Launch ==
    /\ netOp.at = "create" /\ netOp.todo = {}
    /\ \/ task = "none" /\ task' = "running" /\ Op("launched", {})
       \/ On("launchFails") /\ UNCHANGED task /\ Op("rollback", netCtr.nets)
       \/ (task # "none" \/ On("launchFails")) /\ UNCHANGED task /\ Op("markFailed", netCtr.nets)
    /\ UNCHANGED <<networks, lib, netCtr, saved>>

\* The pid and the meta.json of the running container; if either fails, start
\* releases the network of a container that runs.
SetRunning ==
    /\ netOp.at = "launched"
    /\ \/ /\ netCtr' = [netCtr EXCEPT !.state = "running"] /\ saved' = netCtr'
          /\ netOp' = NetIdle
       \/ /\ On("saveFails") /\ UNCHANGED saved
          /\ netCtr' \in {netCtr, [netCtr EXCEPT !.state = "running"]}
          /\ Op("rollback", netCtr.nets)
    /\ UNCHANGED <<networks, lib, task>>

-----------------------------------------------------------------------------
(* The end of a container *)

TaskExits ==
    /\ task = "running" /\ task' = "exited"
    /\ UNCHANGED <<networks, lib, netCtr, saved, netOp>>

\* A container that was removed is not found, and the hook returns.
ExitedAndRelease ==
    /\ netOp = NetIdle /\ task = "exited"
    /\ IF netCtr.state = "dead" THEN task' = "cleaning" /\ UNCHANGED <<netCtr, netOp>>
       ELSE netCtr' = [netCtr EXCEPT !.state = "stopped"] /\ Op("exited", netCtr.nets) /\ UNCHANGED task
    /\ UNCHANGED <<networks, lib, saved>>

\* stop, with its DestroyContainer and markStoppedAndRelease.
StopTask ==
    /\ netOp = NetIdle /\ netCtr.state = "running" /\ task = "running"
    /\ task' = "none"
    /\ netCtr' = [netCtr EXCEPT !.state = "stopped"] /\ Op("stopped", netCtr.nets)
    /\ UNCHANGED <<networks, lib, saved>>

Releasing == {"rollback", "markFailed", "stopped", "exited", "remove"}

\* releaseContainerNetwork takes the networks in any order and gives up at the
\* first error.
ReleaseNetwork(n) ==
    /\ netOp.at \in Releasing /\ n \in netOp.todo
    /\ \E r \in EndpointRemove(n) :
          /\ lib' = r.lib /\ netCtr' = [netCtr EXCEPT !.ep[n] = r.ep]
          /\ netOp' = [netOp EXCEPT !.todo = IF r.ok THEN @ \ {n} ELSE {}, !.ok = r.ok]
    /\ UNCHANGED <<networks, saved, task>>

MutantCleanupByHookOnly ==
    /\ netOp.at \in Releasing /\ netOp.todo = {}
    /\ netCtr' = IF netOp.at = "remove" THEN [netCtr EXCEPT !.state = "dead"] ELSE netCtr
    /\ saved' = IF netOp.at = "rollback" THEN saved ELSE netCtr'
    /\ task' = IF netOp.at # "exited" THEN task ELSE IF netOp.ok THEN "none" ELSE "left"
    /\ IF netOp.at = "markFailed" THEN Op("rollback", netCtr.nets) ELSE netOp' = NetIdle
    /\ UNCHANGED <<networks, lib>>

\* What follows the release.  The status is written in any case.  After a
\* release that succeeded the exit hook deletes the container in containerd;
\* after one that failed it returns and frees the lock, and its caller does.
AfterRelease ==
    /\ netOp.at \in Releasing /\ netOp.todo = {}
    /\ netCtr' = IF netOp.at = "remove" THEN [netCtr EXCEPT !.state = "dead"] ELSE netCtr
    /\ saved' = IF netOp.at = "rollback" THEN saved ELSE netCtr'
    /\ task' = IF netOp.at # "exited" THEN task ELSE IF netOp.ok THEN "none" ELSE "cleaning"
    /\ IF netOp.at = "markFailed" THEN Op("rollback", netCtr.nets) ELSE netOp' = NetIdle
    /\ UNCHANGED <<networks, lib>>

\* The watcher of the task, when the hooks have returned; it has no lock.
Cleanup ==
    /\ task = "cleaning" /\ task' = "none"
    /\ UNCHANGED <<networks, lib, netCtr, saved, netOp>>

\* Remove releases the network of a container only if it runs.
RemoveContainer ==
    /\ netOp = NetIdle
    /\ \/ /\ netCtr.state = "running" /\ task = "running"
          /\ task' = "none" /\ Op("remove", netCtr.nets)
       \/ netCtr.state = "stopped" /\ UNCHANGED task /\ Op("remove", {})
    /\ UNCHANGED <<networks, lib, netCtr, saved>>

-----------------------------------------------------------------------------
(* Connect and Disconnect *)

\* On a running container the endpoint is there before updateNetworkConfig may
\* refuse it (also case "connectFails").
Connect(n) ==
    /\ netOp = NetIdle /\ netCtr.state # "dead" /\ n \in networks
    /\ \/ /\ netCtr.state # "running" /\ UNCHANGED lib
          /\ netCtr' = [netCtr EXCEPT !.nets = @ \cup {n}, !.ep[n] = 0]
          /\ Op("write", {})
       \/ /\ netCtr.state = "running"
          /\ \E r \in EndpointCreate(n) :
                /\ lib' = r.lib
                /\ \/ /\ r.id # 0
                      /\ netCtr' = [netCtr EXCEPT !.sid = r.sid, !.nets = @ \cup {n}, !.ep[n] = r.id]
                      /\ Op("write", {})
                   \/ /\ r.id = 0 \/ On("connectFails")
                      /\ netCtr' = [netCtr EXCEPT !.sid = r.sid] /\ UNCHANGED netOp
    /\ UNCHANGED <<networks, saved, task>>

\* Without case "last" the last network stays.
Disconnect(n) ==
    /\ netOp = NetIdle /\ netCtr.state # "dead" /\ n \in networks \cap netCtr.nets
    /\ On("last") \/ netCtr.nets # {n}
    /\ \E r \in EndpointRemove(n) :
          /\ lib' = r.lib
          /\ IF r.ok
             THEN /\ netCtr' = [netCtr EXCEPT !.nets = @ \ {n}, !.ep[n] = 0,
                                        !.disabled = @ \/ netCtr.nets = {n}]
                  /\ Op("write", {})
             ELSE netCtr' = [netCtr EXCEPT !.ep[n] = r.ep] /\ UNCHANGED netOp
    /\ UNCHANGED <<networks, saved, task>>

WriteContainer ==
    /\ netOp.at = "write" /\ saved' = netCtr /\ netOp' = NetIdle
    /\ UNCHANGED <<networks, lib, netCtr, task>>

-----------------------------------------------------------------------------
(* The daemon dies and starts again.  Restore runs before there is a       *)
(* network manager; libnetwork keeps the sandboxes of the containers that  *)
(* run, with their endpoints, and deletes what else it finds.              *)

NetRestart(runs) ==
    /\ On("crash") /\ (netOp.at = "write" => On("crashInWrite"))
    /\ netOp' = NetIdle
    /\ task' = IF task = "running" /\ saved.state = "running" /\ runs THEN "running"
               ELSE IF task = "none" \/ saved.state = "running" THEN "none" ELSE "left"
    /\ netCtr' = [saved EXCEPT !.state =
                 IF saved.state = "running" /\ task' = "none" THEN "stopped" ELSE saved.state]
    /\ saved' = netCtr'
    /\ lib' = IF netCtr'.state = "running" /\ lib.sb = netCtr'.sid
              THEN [lib EXCEPT !.eps = [n \in Networks |-> IF n \in lib.joined THEN @[n] ELSE 0]]
              ELSE EmptyLib
    /\ UNCHANGED networks

-----------------------------------------------------------------------------

\* The container is created on all networks; Disconnect leads to the others.
NetInit ==
    /\ networks = Networks /\ lib = EmptyLib
    /\ netCtr = [state |-> "stopped", nets |-> Networks, ep |-> EmptyLib.eps, sid |-> 0,
                 disabled |-> FALSE]
    /\ saved = netCtr
    /\ task = "none" /\ netOp = NetIdle

NetNext ==
    \/ \E n \in Networks :
          \/ NetworkCreate(n) \/ NetworkRemove(n) \/ PrepareNetwork(n) \/ ReleaseNetwork(n)
          \/ Connect(n) \/ Disconnect(n)
    \/ NetStart \/ Launch \/ SetRunning \/ TaskExits \/ ExitedAndRelease \/ StopTask
    \/ AfterRelease \/ Cleanup \/ RemoveContainer \/ WriteContainer
    \/ \E runs \in BOOLEAN : NetRestart(runs)

-----------------------------------------------------------------------------
(* Properties *)

\* Every variable has its type, and only an endpoint that exists is in a sandbox.
NetTypeOK ==
    /\ networks \subseteq Networks
    /\ lib.eps \in [Networks -> Nat] /\ lib.sb \in Nat
    /\ \A n \in lib.joined : lib.eps[n] # 0
    /\ \A c \in {netCtr, saved} :
          /\ c.state \in {"stopped", "running", "dead"} /\ c.nets \subseteq Networks
          /\ c.ep \in [Networks -> Nat] /\ c.sid \in Nat /\ c.disabled \in BOOLEAN
    /\ task \in {"none", "running", "exited", "cleaning", "left"}
    /\ netOp.todo \subseteq Networks

Settled == netOp = NetIdle /\ task # "exited"

\* A running container has an endpoint in each of its networks and in no other,
\* all in the sandbox that it names, under the ids that it names; this is what
\* EndpointRemove goes by at its end.  It survives starts that fail half way, the
\* removal of networks and a restart of the daemon, but not an EndpointRemove
\* that fails, a Connect that fails after the endpoint was replaced or whose
\* meta.json is not written, or a start that fails after the task runs.
RunningIsConnected ==
    NoneOf({"removeFails", "connectFails", "saveFails", "crashInWrite"}) =>
       (Settled /\ netCtr.state = "running" =>
          /\ lib.joined = netCtr.nets
          /\ \A n \in netCtr.nets : lib.eps[n] = netCtr.ep[n] /\ lib.sb = netCtr.sid)

\* A container that does not run, or was removed, keeps neither endpoint nor
\* sandbox, so that its networks can be removed: the releases find everything by
\* the ids the container has.  A start that fails between two networks breaks it
\* (the release gives up at the network that has no endpoint), and so does an
\* endpoint that EndpointCreate leaves.
NothingIsLeaked ==
    NoneOf({"createFails", "removeFails", "connectFails", "removed", "saveFails",
            "crashInWrite"}) =>
       (Settled /\ netCtr.state # "running" => lib = EmptyLib)

\* Nothing of a stopped container is left in containerd, which would refuse its
\* next start, unless its watcher is about to delete it: also when the release
\* of its networks has failed, or networks were removed under it.  Only a start
\* that fails after the task runs, and the death of the daemon in a start or
\* before a clean-up, leave a task that nobody deletes.
StoppedCanStart ==
    NoneOf({"saveFails", "crash"}) =>
       (Settled /\ netCtr.state = "stopped" => task \in {"none", "cleaning"})

\* What libnetwork and containerd hold for a container is what its state says.
EndpointsMatchState == NetTypeOK /\ RunningIsConnected /\ NothingIsLeaked /\ StoppedCanStart
=============================================================================
