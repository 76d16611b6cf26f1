----------------------------- MODULE PodSandbox -----------------------------
(***************************************************************************)
(* One pod sandbox of the CRI manager (cri/v1alpha2/cri.go): its metadata  *)
(* in the sandbox store, its network namespace and pod network, its        *)
(* container, its directory and the containers in it, as the handlers of   *)
(* the kubelet's requests build them up, roll them back and take them      *)
(* down.  A sandbox id is generated for each RunPodSandbox and no handler  *)
(* touches what belongs to another id, so one sandbox is modelled.         *)
(*                                                                         *)
(* A handler is a sequence of steps, one per call that changes something   *)
(* outside the handler.  A call may fail, the daemon may crash between two *)
(* calls, and the host may reboot.                                         *)
(***************************************************************************)
EXTENDS Naturals, FiniteSets, Scenario

CONSTANTS
    Apps,         \* the containers the kubelet may create in the sandbox
    Workers,      \* requests that are served at the same time
    MaxFaults,    \* bound on the calls that fail, one less where requests overlap
    MaxCrashes,   \* bound on crashes of the daemon and reboots of the host
    MaxStarts     \* bound on StartPodSandbox requests

(* The cases: "crash" the daemon crashes or the host reboots; "storeFails" *)
(* the sandbox store refuses a Put or a Remove; "undoFails" a call that a  *)
(* rollback makes fails; "removeFirst" a sandbox is removed that was not   *)
(* stopped; "startRunning" StartPodSandbox is called for a running         *)
(* sandbox; "overlap" requests for one sandbox overlap.                    *)

NoMeta == [stored |-> FALSE, netns |-> FALSE, config |-> FALSE]
Meta(ns, cfg) == [stored |-> TRUE, netns |-> ns, config |-> cfg]

VARIABLES
    hostNet,   \* the pod asks for the network of the host
    meta,      \* the SandboxMeta in the store: are NetNS and Config in it?
    netns,     \* the network namespace exists under /var/run/netns
    net,       \* the pod network is set up
    sandbox,   \* the sandbox container
    dir,       \* the root directory of the sandbox
    apps,      \* the containers in the sandbox
    job,       \* per worker the request and its next step
    kubelet,   \* what the kubelet has asked for: "", "run", "stopped", "gone"
    killing,   \* the kubelet wants the pod to go away
    faults, crashes, starts

resources == <<netns, net, sandbox, dir, apps>>
bounds == <<faults, crashes, starts>>
podVars == <<hostNet, meta, resources, job, kubelet, killing, bounds>>

Status == {"none", "created", "running", "stopped"}
Idle == [op |-> "idle", step |-> "", todo |-> {}, meta |-> NoMeta,
         recovered |-> FALSE, removeContainerErr |-> FALSE]

At(w, step) == job[w].step = step
Goto(w, step) == job' = [job EXCEPT ![w].step = step]
Return(w) == job' = [job EXCEPT ![w] = Idle]

\* One more call fails.
Fault == faults < MaxFaults - (IF On("overlap") THEN 1 ELSE 0) /\ faults' = faults + 1
StoreFault == On("storeFails") /\ Fault
UndoFault == On("undoFails") /\ Fault

\* What every step of a handler leaves alone.
Frame == UNCHANGED <<hostNet, killing, crashes, starts>>

\* A request begins.  The kubelet's pod worker serves one at a time.
MayBegin(w) == At(w, "") /\ (On("overlap") \/ \A v \in Workers : At(v, ""))

\* sandboxNetworkMode of the metadata: a missing Config reads as POD.
IsNode(m) == hostNet /\ m.config

\* ListPodSandbox leaves out metadata that has neither a container nor a Config.
Listed == meta.stored /\ (sandbox # "none" \/ meta.config)

-----------------------------------------------------------------------------
(* RunPodSandbox.  The deferred functions undo the steps in reverse order. *)

\* Where the deferred functions start; the host network has no network to undo.
Undo(w, step) ==
    Goto(w, IF step \in {"undoNetwork", "undoNetNS"} /\ hostNet THEN "undoMeta" ELSE step)

RunPodSandbox(w) ==
    /\ MayBegin(w) /\ kubelet = "" /\ ~killing
    /\ meta' = Meta(FALSE, FALSE)
    /\ kubelet' = "run"
    /\ job' = [job EXCEPT ![w] = [Idle EXCEPT !.op = "run",
                  !.step = IF hostNet THEN "applyRuntime" ELSE "newNetNS"]]
    /\ Frame /\ UNCHANGED <<resources, faults>>

NewNetNS(w) ==
    /\ At(w, "newNetNS")
    /\ \/ netns' = TRUE /\ Goto(w, "setupNetwork") /\ UNCHANGED faults
       \/ Fault /\ Undo(w, "undoMeta") /\ UNCHANGED netns
    /\ Frame /\ UNCHANGED <<meta, net, sandbox, dir, apps, kubelet>>

\* SetUpPodNetwork tears down what a failing plugin has set up.
SetupPodNetwork(w) ==
    /\ At(w, "setupNetwork")
    /\ \/ net' = TRUE /\ UNCHANGED faults
          /\ Goto(w, IF job[w].op = "run" THEN "applyRuntime" ELSE "startSandbox")
       \/ Fault /\ net' = FALSE /\ Undo(w, "undoNetNS")
    /\ Frame /\ UNCHANGED <<meta, netns, sandbox, dir, apps, kubelet>>

\* The Put of applySandboxRuntimeHandler is the first with the NetNS in it.
ApplyRuntimeHandler(w) ==
    /\ At(w, "applyRuntime")
    /\ \/ meta' = Meta(~hostNet, FALSE) /\ Goto(w, "createSandbox") /\ UNCHANGED faults
       \/ StoreFault /\ Undo(w, "undoNetwork") /\ UNCHANGED meta
    /\ Frame /\ UNCHANGED <<resources, kubelet>>

CreateSandbox(w) ==
    /\ At(w, "createSandbox")
    /\ \/ sandbox' = "created" /\ Goto(w, "putConfig") /\ UNCHANGED faults
       \/ Fault /\ Undo(w, "undoNetwork") /\ UNCHANGED sandbox
    /\ Frame /\ UNCHANGED <<meta, netns, net, dir, apps, kubelet>>

\* The function that removes the container is deferred after this Put only.
PutConfig(w) ==
    /\ At(w, "putConfig")
    /\ \/ meta' = Meta(~hostNet, TRUE) /\ Goto(w, "startSandbox") /\ UNCHANGED faults
       \/ StoreFault /\ Undo(w, "undoNetwork") /\ UNCHANGED meta
    /\ Frame /\ UNCHANGED <<resources, kubelet>>

\* ContainerMgr.Start refuses a container that is missing or runs.  A restart
\* then continues with the files, since the directory exists from the first run.
StartSandbox(w) ==
    LET run == job[w].op = "run"
    IN  /\ At(w, "startSandbox")
        /\ \/ sandbox \in {"created", "stopped"}
              /\ sandbox' = "running" /\ UNCHANGED faults
              /\ Goto(w, IF run THEN "mkdir" ELSE "setupFiles")
           \/ /\ IF sandbox \in {"none", "running"} THEN UNCHANGED faults ELSE Fault
              /\ IF run THEN Undo(w, "undoContainer")
                 ELSE IF job[w].recovered THEN Undo(w, "undoNetwork") ELSE Return(w)
              /\ UNCHANGED sandbox
        /\ Frame /\ UNCHANGED <<meta, netns, net, dir, apps, kubelet>>

MkdirAll(w) ==
    /\ At(w, "mkdir")
    /\ \/ dir' = TRUE /\ Goto(w, "setupFiles") /\ UNCHANGED faults
       \/ Fault /\ Undo(w, "undoContainer") /\ UNCHANGED dir
    /\ Frame /\ UNCHANGED <<meta, netns, net, sandbox, apps, kubelet>>

MutantFilesLeaveDir(w) ==
    /\ At(w, "setupFiles")
    /\ \/ dir /\ Return(w) /\ UNCHANGED faults
       \/ /\ IF dir THEN Fault ELSE UNCHANGED faults
          /\ Undo(w, IF job[w].op = "run" THEN "undoContainer" ELSE "undoStart")
    /\ Frame /\ UNCHANGED <<meta, resources, kubelet>>

\* setupSandboxFiles writes resolv.conf, into a directory that must be there.
SetupSandboxFiles(w) ==
    /\ At(w, "setupFiles")
    /\ \/ dir /\ Return(w) /\ UNCHANGED faults
       \/ /\ IF dir THEN Fault ELSE UNCHANGED faults
          /\ Undo(w, IF job[w].op = "run" THEN "undoDir" ELSE "undoStart")
    /\ Frame /\ UNCHANGED <<meta, resources, kubelet>>

UndoDir(w) ==
    /\ At(w, "undoDir")
    /\ \/ dir' = FALSE /\ UNCHANGED faults
       \/ UndoFault /\ UNCHANGED dir
    /\ Undo(w, "undoContainer")
    /\ Frame /\ UNCHANGED <<meta, netns, net, sandbox, apps, kubelet>>

MutantUndoForgetsError(w) ==
    /\ At(w, "undoContainer")
    /\ \/ sandbox # "none" /\ sandbox' = "none" /\ UNCHANGED faults
       \/ /\ IF sandbox = "none" THEN UNCHANGED faults ELSE UndoFault
          /\ UNCHANGED sandbox
    /\ job' = [job EXCEPT ![w].step = IF hostNet THEN "undoMeta" ELSE "undoNetwork"]
    /\ Frame /\ UNCHANGED <<meta, netns, net, dir, apps, kubelet>>

\* removeContainerErr is set by any error, a missing container too,
\* and keeps the metadata.
UndoContainer(w) ==
    LET next == IF hostNet THEN "undoMeta" ELSE "undoNetwork"
    IN  /\ At(w, "undoContainer")
        /\ \/ sandbox # "none" /\ sandbox' = "none" /\ Goto(w, next) /\ UNCHANGED faults
           \/ /\ IF sandbox = "none" THEN UNCHANGED faults ELSE UndoFault
              /\ job' = [job EXCEPT ![w].step = next, ![w].removeContainerErr = TRUE]
              /\ UNCHANGED sandbox
        /\ Frame /\ UNCHANGED <<meta, netns, net, dir, apps, kubelet>>

\* TearDownPodNetwork reports an error only if the namespace is still there.
UndoNetwork(w) ==
    /\ At(w, "undoNetwork")
    /\ \/ net' = FALSE /\ UNCHANGED faults
       \/ UndoFault /\ UNCHANGED net
    /\ Goto(w, "undoNetNS")
    /\ Frame /\ UNCHANGED <<meta, netns, sandbox, dir, apps, kubelet>>

\* A namespace takes the interfaces in it along.
UndoNetNS(w) ==
    /\ At(w, "undoNetNS")
    /\ \/ netns' = FALSE /\ net' = FALSE /\ UNCHANGED faults
       \/ UndoFault /\ UNCHANGED <<netns, net>>
    /\ IF job[w].op = "run" THEN Goto(w, "undoMeta") ELSE Return(w)
    /\ Frame /\ UNCHANGED <<meta, sandbox, dir, apps, kubelet>>

UndoMeta(w) ==
    /\ At(w, "undoMeta")
    /\ \/ job[w].removeContainerErr /\ UNCHANGED <<meta, faults>>
       \/ ~job[w].removeContainerErr /\ meta' = NoMeta /\ UNCHANGED faults
       \/ ~job[w].removeContainerErr /\ StoreFault /\ UNCHANGED meta
    /\ Return(w)
    /\ Frame /\ UNCHANGED <<resources, kubelet>>

-----------------------------------------------------------------------------
(* StartPodSandbox *)

\* It recovers the network only if GetPodNetworkStatus yields no address, and
\* the error of that call is ignored.
StartPodSandbox(w) ==
    /\ MayBegin(w) /\ Listed /\ ~killing /\ starts < MaxStarts
    /\ sandbox # "none"
    /\ sandbox # "running" \/ On("startRunning")
    /\ \E ip \in {net /\ netns, FALSE} :
          /\ IF ip = (net /\ netns) THEN UNCHANGED faults ELSE Fault
          /\ job' = [job EXCEPT ![w] = [Idle EXCEPT !.op = "start", !.meta = meta,
                  !.step = IF hostNet \/ ip THEN "startSandbox" ELSE "recoverNetNS"]]
    /\ starts' = starts + 1
    /\ kubelet' = "run"
    /\ UNCHANGED <<hostNet, killing, crashes, meta, resources>>

RecoverNetNS(w) ==
    /\ At(w, "recoverNetNS")
    /\ \/ netns' = TRUE /\ UNCHANGED faults
          /\ job' = [job EXCEPT ![w].step = "setupNetwork", ![w].recovered = TRUE]
       \/ Fault /\ Return(w) /\ UNCHANGED netns
    /\ Frame /\ UNCHANGED <<meta, net, sandbox, dir, apps, kubelet>>

\* The container is stopped again, then what was recovered is taken down.
UndoStart(w) ==
    /\ At(w, "undoStart")
    /\ \/ sandbox' = (IF sandbox = "running" THEN "stopped" ELSE sandbox) /\ UNCHANGED faults
       \/ sandbox = "running" /\ UndoFault /\ UNCHANGED sandbox
    /\ IF job[w].recovered THEN Goto(w, "undoNetwork") ELSE Return(w)
    /\ Frame /\ UNCHANGED <<meta, netns, net, dir, apps, kubelet>>

-----------------------------------------------------------------------------
(* StopPodSandbox and RemovePodSandbox *)

AppsPresent == {a \in Apps : apps[a] # "none"}

\* The metadata and the list of containers are read once.
StopPodSandbox(w) ==
    /\ MayBegin(w) /\ Listed /\ (killing => kubelet # "stopped")
    /\ job' = [job EXCEPT ![w] = [Idle EXCEPT !.op = "stop", !.step = "stopApps",
                                              !.meta = meta, !.todo = AppsPresent]]
    /\ Frame /\ UNCHANGED <<meta, resources, kubelet, faults>>

\* Stopping a container that does not run, or is gone, succeeds.
StopApp(w) ==
    /\ At(w, "stopApps")
    /\ \E a \in job[w].todo :
          \/ /\ apps' = [apps EXCEPT ![a] = IF @ = "running" THEN "stopped" ELSE @]
             /\ job' = [job EXCEPT ![w].todo = @ \ {a}]
             /\ UNCHANGED faults
          \/ apps[a] = "running" /\ Fault /\ Return(w) /\ UNCHANGED apps
    /\ Frame /\ UNCHANGED <<meta, netns, net, sandbox, dir, kubelet>>

\* Without a NetNS in the metadata the sandbox is taken for a legacy one, whose
\* network lives in the container; that container has to be there.
TeardownLegacy(w) ==
    LET m == job[w].meta
        legacy == ~IsNode(m) /\ ~m.netns
    IN  /\ At(w, "stopApps") /\ job[w].todo = {}
        /\ \/ ~legacy /\ Goto(w, "stopSandbox") /\ UNCHANGED faults
           \/ legacy /\ sandbox # "none" /\ Goto(w, "stopSandbox") /\ UNCHANGED faults
           \/ legacy /\ sandbox = "none" /\ Return(w) /\ UNCHANGED faults
           \/ legacy /\ sandbox = "running" /\ Fault /\ Return(w)
        /\ Frame /\ UNCHANGED <<meta, resources, kubelet>>

MutantStopNeedsSandbox(w) ==
    /\ At(w, "stopSandbox")
    /\ IF sandbox = "none" THEN Return(w) /\ UNCHANGED <<sandbox, kubelet>>
       ELSE /\ sandbox' = IF sandbox = "running" THEN "stopped" ELSE sandbox
            /\ IF hostNet THEN Return(w) /\ kubelet' = "stopped"
               ELSE Goto(w, "teardown") /\ UNCHANGED kubelet
    /\ Frame /\ UNCHANGED <<meta, netns, net, dir, apps, faults>>

\* A sandbox container that was removed by 'pouch rm' is treated as stopped.
StopSandbox(w) ==
    LET m == job[w].meta
    IN  /\ At(w, "stopSandbox")
        /\ \/ /\ sandbox' = IF sandbox = "running" THEN "stopped" ELSE sandbox
              /\ IF ~IsNode(m) /\ m.netns
                 THEN Goto(w, "teardown") /\ UNCHANGED kubelet
                 ELSE Return(w) /\ kubelet' = "stopped"
              /\ UNCHANGED faults
           \/ sandbox = "running" /\ Fault /\ Return(w) /\ UNCHANGED <<sandbox, kubelet>>
        /\ Frame /\ UNCHANGED <<meta, netns, net, dir, apps>>

TeardownNetwork(w) ==
    /\ At(w, "teardown")
    /\ \/ net' = FALSE /\ Goto(w, "removeNetNS") /\ UNCHANGED faults
       \/ netns /\ Fault /\ Return(w) /\ UNCHANGED net
    /\ Frame /\ UNCHANGED <<meta, netns, sandbox, dir, apps, kubelet>>

\* CloseNetNS and RemoveNetNS succeed if the namespace is gone already.
RemoveNetNS(w) ==
    /\ At(w, "removeNetNS")
    /\ \/ netns' = FALSE /\ net' = FALSE /\ kubelet' = "stopped" /\ UNCHANGED faults
       \/ netns /\ Fault /\ UNCHANGED <<netns, net, kubelet>>
    /\ Return(w)
    /\ Frame /\ UNCHANGED <<meta, sandbox, dir, apps>>

RemovePodSandbox(w) ==
    /\ MayBegin(w) /\ Listed
    /\ kubelet = "stopped" \/ On("removeFirst")
    /\ job' = [job EXCEPT ![w] = [Idle EXCEPT !.op = "remove", !.step = "removeApps",
                                              !.todo = AppsPresent]]
    /\ Frame /\ UNCHANGED <<meta, resources, kubelet, faults>>

RemoveApp(w) ==
    /\ At(w, "removeApps")
    /\ \E a \in job[w].todo :
          \/ /\ apps' = [apps EXCEPT ![a] = "none"]
             /\ job' = [job EXCEPT ![w].todo = @ \ {a}]
             /\ UNCHANGED faults
          \/ apps[a] # "none" /\ Fault /\ Return(w) /\ UNCHANGED apps
    /\ Frame /\ UNCHANGED <<meta, netns, net, sandbox, dir, kubelet>>

RemoveSandbox(w) ==
    /\ At(w, "removeApps") /\ job[w].todo = {}
    /\ \/ sandbox' = "none" /\ Goto(w, "removeDir") /\ UNCHANGED faults
       \/ sandbox # "none" /\ Fault /\ Return(w) /\ UNCHANGED sandbox
    /\ Frame /\ UNCHANGED <<meta, netns, net, dir, apps, kubelet>>

RemoveDir(w) ==
    /\ At(w, "removeDir")
    /\ \/ dir' = FALSE /\ Goto(w, "removeMeta") /\ UNCHANGED faults
       \/ dir /\ Fault /\ Return(w) /\ UNCHANGED dir
    /\ Frame /\ UNCHANGED <<meta, netns, net, sandbox, apps, kubelet>>

RemoveMeta(w) ==
    /\ At(w, "removeMeta")
    /\ \/ meta' = NoMeta /\ kubelet' = "gone" /\ UNCHANGED faults
       \/ StoreFault /\ UNCHANGED <<meta, kubelet>>
    /\ Return(w)
    /\ Frame /\ UNCHANGED resources

-----------------------------------------------------------------------------
(* The containers in the sandbox *)

\* The sandbox and its metadata are looked up before the container is created.
CreateContainer(w, a) ==
    /\ MayBegin(w) /\ kubelet = "run" /\ ~killing
    /\ sandbox # "none" /\ meta.stored /\ apps[a] = "none"
    /\ job' = [job EXCEPT ![w] = [Idle EXCEPT !.op = "create", !.step = "create", !.todo = {a}]]
    /\ Frame /\ UNCHANGED <<meta, resources, kubelet, faults>>

CreateApp(w) ==
    /\ At(w, "create")
    /\ \E a \in job[w].todo :
          \/ apps[a] = "none" /\ apps' = [apps EXCEPT ![a] = "created"]
             /\ Goto(w, "attachLog") /\ UNCHANGED faults
          \/ /\ IF apps[a] = "none" THEN Fault ELSE UNCHANGED faults
             /\ Return(w) /\ UNCHANGED apps
    /\ Frame /\ UNCHANGED <<meta, netns, net, sandbox, dir, kubelet>>

\* The deferred clean-up looks at an err that the error of AttachCRILog shadows:
\* the container stays when the request fails here.
AttachCRILog(w) ==
    /\ At(w, "attachLog")
    /\ Fault \/ UNCHANGED faults
    /\ Return(w)
    /\ Frame /\ UNCHANGED <<meta, resources, kubelet>>

\* StartContainer, StopContainer and RemoveContainer pass on one call each.
StartContainer(a) ==
    /\ kubelet = "run" /\ ~killing /\ \A w \in Workers : At(w, "") \/ On("overlap")
    /\ apps[a] \in {"created", "stopped"}
    /\ apps' = [apps EXCEPT ![a] = "running"]
    /\ Frame /\ UNCHANGED <<meta, netns, net, sandbox, dir, job, kubelet, faults>>

StopContainer(a) ==
    /\ apps[a] = "running" \* by request, or because its process ends
    /\ apps' = [apps EXCEPT ![a] = "stopped"]
    /\ Frame /\ UNCHANGED <<meta, netns, net, sandbox, dir, job, kubelet, faults>>

RemoveContainer(a) ==
    /\ apps[a] # "none"
    /\ apps' = [apps EXCEPT ![a] = "none"]
    /\ Frame /\ UNCHANGED <<meta, netns, net, sandbox, dir, job, kubelet, faults>>

-----------------------------------------------------------------------------
(* Around the CRI manager *)

\* The kubelet decides that the pod has to go; it acts on sandboxes it is shown.
KillPod ==
    /\ ~killing /\ Listed
    /\ killing' = TRUE
    /\ UNCHANGED <<hostNet, meta, resources, job, kubelet, bounds>>

\* The process of the sandbox container ends.
SandboxDies ==
    /\ sandbox = "running" /\ sandbox' = "stopped"
    /\ Frame /\ UNCHANGED <<meta, netns, net, dir, apps, job, kubelet, faults>>

\* 'pouch rm' removes the sandbox container beside the CRI manager.
PouchRm ==
    /\ sandbox \in {"created", "stopped"}
    /\ sandbox' = "none"
    /\ Frame /\ UNCHANGED <<meta, netns, net, dir, apps, job, kubelet, faults>>

\* The daemon restarts: requests are lost, the store and the containers stay.
\* A reboot of the host also ends every process and empties /var/run/netns.
Crash(reboot) ==
    /\ On("crash") /\ crashes < MaxCrashes
    /\ crashes' = crashes + 1
    /\ job' = [w \in Workers |-> Idle]
    /\ IF reboot
       THEN /\ sandbox' = (IF sandbox = "running" THEN "stopped" ELSE sandbox)
            /\ apps' = [a \in Apps |-> IF apps[a] = "running" THEN "stopped" ELSE apps[a]]
            /\ netns' = FALSE /\ net' = FALSE
       ELSE UNCHANGED <<sandbox, apps, netns, net>>
    /\ UNCHANGED <<hostNet, meta, dir, kubelet, killing, faults, starts>>

-----------------------------------------------------------------------------
PodInit ==
    /\ hostNet \in {FALSE, On("pod")}
    /\ meta = NoMeta /\ netns = FALSE /\ net = FALSE
    /\ sandbox = "none" /\ dir = FALSE /\ apps = [a \in Apps |-> "none"]
    /\ job = [w \in Workers |-> Idle]
    /\ kubelet = "" /\ killing = FALSE
    /\ faults = 0 /\ crashes = 0 /\ starts = 0

\* A step of a request that is being served.
Step(w) ==
    \/ NewNetNS(w) \/ SetupPodNetwork(w) \/ ApplyRuntimeHandler(w) \/ CreateSandbox(w)
    \/ PutConfig(w) \/ StartSandbox(w) \/ MkdirAll(w) \/ SetupSandboxFiles(w)
    \/ UndoDir(w) \/ UndoContainer(w) \/ UndoNetwork(w) \/ UndoNetNS(w) \/ UndoMeta(w)
    \/ RecoverNetNS(w) \/ UndoStart(w)
    \/ StopApp(w) \/ TeardownLegacy(w) \/ StopSandbox(w) \/ TeardownNetwork(w) \/ RemoveNetNS(w)
    \/ RemoveApp(w) \/ RemoveSandbox(w) \/ RemoveDir(w) \/ RemoveMeta(w)
    \/ CreateApp(w) \/ AttachCRILog(w)

PodNext ==
    \/ \E w \in Workers :
          \/ RunPodSandbox(w) \/ StartPodSandbox(w) \/ StopPodSandbox(w) \/ RemovePodSandbox(w)
          \/ Step(w)
          \/ \E a \in Apps : CreateContainer(w, a)
    \/ \E a \in Apps : StartContainer(a) \/ StopContainer(a) \/ RemoveContainer(a)
    \/ KillPod \/ SandboxDies \/ PouchRm
    \/ \E reboot \in BOOLEAN : Crash(reboot)

\* A handler runs to its end, and a kubelet that kills a pod repeats its requests
\* until they succeed: first StopPodSandbox, then RemovePodSandbox.
PodFairness ==
    /\ \A w \in Workers : WF_podVars(On("pod") /\ Step(w))
    /\ WF_podVars(On("pod") /\ \E w \in Workers : killing /\ StopPodSandbox(w))
    /\ WF_podVars(On("pod") /\ \E w \in Workers : killing /\ RemovePodSandbox(w))

-----------------------------------------------------------------------------
\* Every variable has its type.
PodTypeOK ==
    /\ hostNet \in BOOLEAN
    /\ meta \in [stored : BOOLEAN, netns : BOOLEAN, config : BOOLEAN]
    /\ netns \in BOOLEAN /\ net \in BOOLEAN /\ dir \in BOOLEAN
    /\ sandbox \in Status /\ apps \in [Apps -> Status]
    /\ \A w \in Workers : job[w].todo \subseteq Apps
    /\ kubelet \in {"", "run", "stopped", "gone"} /\ killing \in BOOLEAN

Running(op) == \E w \in Workers : job[w].op = op

\* A sandbox container is always shown to the kubelet, so it can be removed:
\* the rollback of RunPodSandbox and RemovePodSandbox give up the metadata last,
\* whatever fails and whenever the daemon crashes.
SandboxIsListed ==
    NoneOf({"storeFails"}) /\ sandbox # "none" => Listed

\* The network namespace of a running sandbox exists: it is made before the
\* container and removed after the container has stopped.
RunningHasNetNS ==
    NoneOf({"undoFails", "startRunning", "overlap"}) /\ sandbox = "running" /\ ~hostNet => netns

\* A network namespace, and the pod network in it, can be found through the
\* metadata, except while the request that makes or removes it is served.
NetNSIsKnown ==
    NoneOf({"crash", "undoFails", "removeFirst", "overlap"}) /\ (netns \/ net) =>
        \/ meta.stored /\ meta.netns
        \/ Running("run")

\* A RunPodSandbox or StartPodSandbox that has failed leaves the host as it was:
\* no namespace, no pod network, no directory and no container without metadata.
\* And once RemovePodSandbox has succeeded nothing of the sandbox is left.
GoneIsGone ==
    NoneOf({"storeFails", "undoFails", "removeFirst", "overlap"})
    /\ ~Running("run") /\ ~meta.stored =>
        /\ ~netns /\ ~net /\ ~dir /\ sandbox = "none"
        /\ \A a \in Apps : apps[a] = "none"

\* A pod the kubelet kills goes away, through any failures and crashes: what a
\* StopPodSandbox or RemovePodSandbox that failed has done does not stand in the
\* way of the next one.
KilledPodGoes == killing ~> (kubelet = "gone" \/ ~Listed)

\* Whatever RunPodSandbox has made can be found again: the container by the
\* kubelet, the namespace through the metadata, and a running sandbox has one.
SandboxIsFound == PodTypeOK /\ SandboxIsListed /\ NetNSIsKnown /\ RunningHasNetNS
=============================================================================
