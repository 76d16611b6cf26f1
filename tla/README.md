# A TLA+ model of pouchd

pouchd is the daemon of PouchContainer. It serves the container API and the CRI of Kubernetes, keeps containers in
memory and on disk, and drives containerd. This directory models the parts of it where goroutines, crashes and partial
failures meet, checks them with TLC on small instances, and proves the most important properties with TLAPS for
every size. Paths below are relative to `src/`.

## 1. The system and its parts

| Part | Code | What it keeps | Module |
|---|---|---|---|
| Container manager | `daemon/mgr/container*.go` | cache, names, IOs, one `Container` per id with its lock, `meta.json` | `ContainerLifecycle`, `ContainerRegistry`, `Upgrade` |
| Restart monitor | `daemon/mgr/container_monitor.go` | a bounded channel of exit events | `ContainerLifecycle`, `ExitMonitor` |
| Exec manager | `daemon/mgr/container_exec.go`, `ctrd/container.go` | `ExecProcesses`, exec IOs | `ExecLifecycle` |
| containerd client | `ctrd/container.go`, `ctrd/watch.go`, `ctrd/client.go` | a pack and a goroutine per task, stream quotas | `ContainerLifecycle`, `ClientPool` |
| Supervisor | `ctrd/supervisord` | the containerd process and its pid file | `Supervisor` |
| Keyed mutex | `pkg/kmutex` | a channel per key, collected by a ticker | `KMutex`, `KeyedMutex` |
| Metadata store | `pkg/meta` | the files under every store, a cache, a trie | `MetaStore`, `DurableMap` |
| Volumes | `daemon/mgr/volume.go`, `storage/volume` | volumes, their records, and the containers that refer to each | `VolumeRefs`, `VolumeCatalog` |
| Mount points | `daemon/mgr/container_storage.go`, `apis/opts/mountpoint.go` | `c.Mounts` and the files below them | `MountPoints` |
| Plugins | `storage/plugins`, `storage/volume/driver` | loaded plugins, the table of drivers | `Plugins` |
| Disk quota | `storage/quota` | the ids given out | `DiskQuota` |
| Images | `daemon/mgr/image*.go` | indexes of ids, tags and digests | `ImageStore` |
| Commit | `daemon/mgr/container_commit.go`, `ctrd/image_commit.go` | nothing; content in containerd, under a lease | `Commit` |
| Pull and push | `ctrd/image.go`, `pkg/jsonstream` | the stream of progress | `JSONStream` |
| Network | `daemon/mgr/network.go`, `network` | endpoints and sandboxes in libnetwork | `NetworkEndpoints` |
| Container IO, loggers | `daemon/containerio`, `pkg/streams`, `daemon/logger` | pipes, ring buffer, log files | `ContainerIO`, `LogFollow` |
| Events service | `daemon/events` | backlog and subscribers | `Events` |
| CRI | `cri/v1alpha2`, `cri/ocicni` | sandboxes, network namespaces | `PodSandbox` |
| CRI streaming | `cri/stream` | request tokens, sessions, stream pairs | `RemoteCommand`, `PortForward` |
| Daemon | `daemon/daemon.go`, `cri/criservice.go`, `apis/server`, `main.go` | the services it starts and waits for | `DaemonRun` |
| API handlers, CLI, Go client, spec generation, option parsing, generated types | | no state of their own, or I/O | not modelled (section 7) |

`PROJECT.json` lists every part with the reason when it is left out, and the hazards of the code at the line where each bites.

How they interact. A request finds its container in the cache without a lock, then takes the lock of the container. To
start it, the manager asks ctrd for a task; ctrd keeps a *pack* for the task and a goroutine that waits for its exit. When the
task ends, that goroutine runs the exit hook of the manager, which takes the lock, marks the container and posts an event
to the restart monitor; the monitor calls Start. Stop and a forced Remove hold the lock while they wait for the same
exit, so they tell the goroutine to skip the hook. Every handler that changes the state writes `meta.json`; a restarted
daemon reads the files, asks containerd what still runs, and watches it again. Volumes are attached when a container is
created and again when it is started, and detached when it is stopped or removed; endpoints are made when it is started
and released when it ends. The keyed mutex serialises Core's operations on one volume. The image manager and a commit
keep references in containerd beside those in memory. The CRI manager is a client of the container manager, and the
kubelet a client of the CRI manager. The supervisor keeps containerd alive under all of them.

## 2. The modules

A module models one component: its state as variables, one action for each step another goroutine can see, and its properties.
The lifecycle and the mutex are specifications of their own. The other modules extend `Scenario`: a behaviour has a fixed
set `cases`, which names the component and the difficult cases that may happen in it (a failure, an overlap, a crash); guards ask
for a case with `On`, and a property that the code does not keep in some case says so with `NoneOf`. So one run explores many
mixtures of cases, each exhaustively, and every exclusion can be read off the property. The MC modules put several components that share no state
into one run: a behaviour is about one of them and the others rest.

### ContainerLifecycle

One container and everything that works on it. Variables: `st` (Status and the flags), `cache`, `names`, `meta` (a copy of
the state, or None), `snap`; `lock`; for each caller `pc`, `op`, `pk` and `buf`; for each pack its task, `skip`, `msg` and `wpc`; `ctr` and
`watch`; `queue` of the monitor; `up` and `crashes`.

| Action | Code |
|---|---|
| `Call`, `CallWait`, `WaitCancel`, `WaitReturn` | a handler looks the container up; `Wait` and its shared channel |
| `Refuse` | the early returns of the handlers under the lock; a lock of ctrd that is taken is one of them |
| `StartCreate`, `StartMark`, `StartFail` | `start` and `createContainerdContainer`; `markStoppedAndRelease` on failure |
| `DestroyBegin`, `DestroyKill`, `DestroyWait`, `DestroyAbort`, `DestroyNotFound` | `destroyContainer` in ctrd: SIGTERM, timeout, SIGKILL, timeout, clean |
| `StopFinish`, `RemoveDestroyed`, `RemoveIdle`, `RemoveUnlink`, `RemoveErase` | the rest of `Stop` and `Remove` |
| `RestartNotRunning`, `RestartMarshal`, `RestartPut` | `Restart`, whose last write comes after the lock was released |
| `Kill`, `Pause`, `Unpause`, `Update`, `Connect`, `Disconnect` | the handlers that are one critical section |
| `WatchExit`, `HookFind`, `HookMark`, `HookPost`, `WatchSend` | the goroutine of a pack and `exitedAndRelease` |
| `OomEvent`, `Oom` | `updateContainerState` |
| `HandleExitEvent` | the monitor |
| `TaskExit` | containerd |
| `Crash`, `RestoreKeep`, `RestoreRecover`, `RestoreLost` | the daemon dies at any step; `Load`, `Restore` |

A critical section is one step unless another goroutine can see its middle: the wait for the exit in a destroy, the gap
between containerd's start and the write of Running, and the order in which Remove takes the container apart are steps of
their own. What is assumed: a write or a removal of a local file succeeds and is atomic; containerd itself does not die;
the clean-up in containerd after a failed start succeeds; the pid of a started task can be read; containers with a
root file system of their own and checkpoints are left out; upgrades have a module of their own. The data in a container is its Status and flags.
`Ops` names the handlers of an instance, `GuardedOps` those that look at the Dead flag, the name or the pack before
they write.

### ExitMonitor

Several containers and the channel they share, with the lock of each: the hook of a container posts while it holds the lock
(`Hook`), the monitor takes an event (`HandleEvent`) and starts the container (`MonitorStarts`), clients start containers too, and remove them (`ClientRemoves`). A release that fails ends the hook before it posts,
and a start of the monitor that fails is only logged; `dropped` remembers both.

### ContainerRegistry

Several containers and the five places that know them: `cache`, `nameToID`, `ios`, `meta`, `snap`. Create, Rename, Remove and the
start of the daemon take one step for each access to one of them, since Create holds no lock at all; a Create that fails
undoes in `UndoCache` and `UndoSnapshot` what its deferred functions undo. Every client creates one container.

### Upgrade

One container, its `meta.json` and its snapshots. `Upgrade`, `MergeImageConfig`, `CheckRunning`, `StopOld`, `PrepareSnapshot`, `InitContainerStorage`, `StartNew` and
then `RemoveOld`, `WriteUpgraded` are the steps between which the lock is free; `RemoveNew`, `RestoreOld`, `Rollback` are the deferred functions.

### Commit

Commits of containers of one image. `CommitContainer` pauses a running container under its lock; `ExportLayer` to `WriteConfig` are the calls
of `Client.Commit`, in order, each of which may fail; `RemoveNewSnapshot`, `ReleaseLease` and `ResumeContainer` are the deferred functions. `CollectGarbage` (external) is
containerd's collector, which may run between any two steps and keeps what an image or a lease leads to. Content is named by
its digest: equal changes give equal layers and one snapshot, while a manifest and a config hold the time and belong to one commit.

### ImageStore

The five maps of `imageStore`, beside the references of containerd. `PullImage`, `AddTag`, `RemoveByID`, `RemoveByRef` are the requests; the steps that follow are the
accesses to the store (each under its lock) and the calls of containerd. `Restart` and `LoadNext` build the store from containerd.

### VolumeRefs, VolumeCatalog, MountPoints, Plugins, DiskQuota

`VolumeRefs` has one volume, the containers created with it and clients that remove it. The manager reads the `ref` option and then calls Core with what
it computed, in two steps (`AttachGet`, `AttachVolume`; `DetachGet`, `DetachVolume`; `RemoveGet`, `RemoveVolume`).
The ref string, ids joined by commas, is a set: an id is added only if it is absent, and ids are not reused. `Remote` is a driver
that implements Getter, which loses the references.

`VolumeCatalog` has one volume name, its record in Core's store, the directory of the local driver and the volume of a plugin;
`ListStore`, `ListDrivers`, `StoreNew` are ListVolumes, which takes no lock.

`MountPoints` has one container. `GetMountPointFromContainers`, `GetMountPointFromBinds` and `GetMountPointFromVolumes` add the mount points of the four sources in
their order (`NextSource`), each attaching its volume; `PopulateVolume` copies files of the image into empty volumes, in the order of `sortMountPoint`; `UpgradeStorage` does
it again for another image, and `DetachVolumes` ends it. A path is a sequence of components, so that one destination can lie in another.

`Plugins` has one plugin name: requests look the driver up, load the plugin (`NewPlugin`, `StorePlugin`), probe it (`Probe`, `Handshake`), and delete it or add the driver, while
the plugin itself comes and goes. `DiskQuota` has the ids of the project quota driver: given out, put on directories, limited, loaded again after a restart.

### MetaStore and DurableMap

`MetaStore` has, per key, the file, a temporary file and the entry of the cache, and the trie of Store. Put is `StorePut`, `OpenTemp`, `WriteTemp`, `RenameTemp`, `PutCache`, `TrieInsert`; Remove is
`StoreRemove`, `RemoveAll`, `RemoveCache`, `TrieDelete`; the daemon may die between any two, and `NewStore` is the next start. `DurableMap` is what the other modules assume: a map whose Put and
Remove are atomic and last.

### NetworkEndpoints

One container, the networks, and what libnetwork has of the container. `PrepareNetwork` and `ReleaseNetwork` are the calls of EndpointCreate and EndpointRemove, one per network, of the operation that
holds the lock: start, exit hook, stop, remove; when the hooks are over, the watcher of ctrd deletes task and container in any case (`Cleanup`); `Connect`, `Disconnect`, `NetworkCreate`, `NetworkRemove` and `NetRestart` are the others.

### ExecLifecycle

One exec id: its entry in `ExecProcesses` (`reg`, `config`), its IO, and for each call of StartExec the process in containerd, the
step of the call (`pc`) and the step of the goroutine that reaps the process (`reaper`). `ExecProcessGC` is the collector, `ContainerExit` ends the container;
a client that waited reads the exit code, as the CRI's ExecSync does. The IO that is closed belongs to the id.

### ContainerIO and LogFollow

`ContainerIO` follows the lines of one output stream: `CopyStep` copies the fifo to the log pipe and to an attached client, `CopierStep` gives lines to the driver or to
the ring buffer, `RingStep` empties the ring, `CloseStep` is IO.Close with its time-outs; the json-file driver rotates. A line is its number: that the ring keeps slices of a buffer which
later lines overwrite is not modelled. `LogFollow` is the other side: `ReaderStep` finds the tail, reads on and follows the file,
`LogsStep` passes the lines on and ends a follow when the container has stopped; meanwhile the container may have lines left in its logger (`drains`), and the log is rotated or,
when only one file is kept, truncated under its reader (`TruncateLog`).

### Events, Supervisor, DaemonRun, ClientPool

`Events`: Publish in its three steps, Subscribe in its two (it copies the backlog, then adds its queue to the broadcaster), the queue and the goroutine of a subscription. `Supervisor`: Start and the monitor (`Supervise`), Stop beside them, a containerd that dies, a daemon that
is killed. `DaemonRun`: Run, RunCriService, the HTTP server and main as four goroutines over unbuffered channels. `ClientPool`: the choice of a connection and its stream quota.

### PodSandbox

One sandbox with its metadata, namespace, pod network, container, directory and the containers in it. A handler is a sequence of steps, one per call that may fail; the steps of a
roll-back come in reverse order. The kubelet calls the handlers, may call two at once (`overlap`), and calls stop and remove again until they succeed.

### RemoteCommand, PortForward, JSONStream

`RemoteCommand`: the cache of tokens, and one session from the creation of its streams to the status. The handler counts the replies it has sent and compares
the number with the streams it expects; an `odd` client opens a second stream of a kind, or one of a kind nobody knows. `PortForward`: one connection, whose streams are paired by request id, with a goroutine and a
timer per pair. `JSONStream`: a pull or push, the goroutine that reports the layers, and the goroutine that writes the stream; a pull has two steps
left after the stream was closed, `PostPull` and `StoreImageReference`.

### KMutex and KeyedMutex

`KMutex` is the mutex of one key: `cur` is the value in the map, with a token in its channel, a count of waiters and a closed flag;
`Tick` is the collector, which deletes a value without waiters. `KeyedMutex` is the promise: one holder, who alone
releases. `Values` bounds the values alive at once: a value that nobody refers to is used again. A behaviour chooses `late` from `GcWhileHeld`: whether a tick may
fall into a hold (a tick comes every minute).

## 3. What the runs show

Run TLC here with `tlc -workers 2 -config X.cfg M`; each run takes less than five minutes.

| Run | cfg, module | Part | Shows |
|---|---|---|---|
| `lifecycle_guarded` | `LifecycleGuarded`, `MCContainerLifecycle` | lifecycle | two clients with start, stop, kill, pause, unpause, remove and wait, the monitor, exits, aborted stops and one crash: a removed container's file stays removed (`NoResurrection`), file and memory agree whenever the lock is free (`MetaIsFresh`), a live task is watched and alone (`LiveTaskIsWatched`) |
| `lifecycle_live` | `LifecycleLive` | lifecycle | restart, update, connect, disconnect and the oom event as well: the lock is always released (`LockIsReleased`), every exit reaches its channel (`ExitIsReported`), and not before the container shows it (`ExitShownBeforeReply`) |
| `lifecycle_waiters` | `LifecycleWaiters` | lifecycle | clients that wait at once share the one-message channel, and each is answered (`WaitIsAnswered`) |
| `kmutex_all` | `KMutexAll`, `MCKMutex` | mutex | `OneOwnerInTime` and the refinement `ImplementsKeyedMutex` if no tick falls into a hold; `WaiterProceeds` whenever ticks come |
| `kmutex_long` | `KMutexLong` | mutex | *violation* of `OneOwner`, see below |
| `records` | `Records`, `MCRecords` | registry | `RegistryAgrees`: a cached container has its name, IO, snapshot and file, a stored one is cached, a name leads to its container |
| | | volume | `UsedVolumeIsKept`: no removal of a volume a container has; `RefsAreExact`: no reference outlives its container, and the driver never keeps the volume attached without a reference |
| | | mounts | `MountsAreSound`: one mount point per destination, from the source that comes first; its volume has a reference while the container exists and none afterwards; nested destinations all get the files of the image; host paths get none |
| `volume_shared` | `VolumeShared`, `MCRecords` | volume | *violation* of `UsedVolumeExists`, see below |
| `images` | `Images`, `MCImageStore` | store | `StoreIsSound`: the five maps are one relation, a digest names its own image, a listed image can be removed; `StoreMatchesContainerd` between requests; `LoadRepairs`: the load after a restart repairs what overlaps have left |
| | | commit | `CommitIsSound`: the image of a commit that succeeded keeps its content and its snapshot whenever the collector runs, its layer is what the container had at one moment, it is shown, and the container runs again |
| `pods` | `Pods`, `MCPodSandbox` | pods | `SandboxIsFound`: the kubelet is shown whatever exists, a namespace is known to the metadata, a running sandbox has one; `GoneIsGone`: failed runs and removals leave nothing; `KilledPodGoes`: repeated stops and removals succeed in the end, through failures and crashes |
| `services` | `Services`, `MCServices` | exec | `ExecIsShown`: the entry tells the truth, the client reads its own code, no IO is left; `ExitIsRecorded`: every end is recorded and the process deleted |
| | | io | `LogIsKept`: the log has the lines in order and, when Close has returned, all that the files have room for: the ring loses only a line that is larger than itself; `CloseReturns` |
| | | monitor | `ExitIsHandled`: exits are pending until handled, and every container runs again that was not removed or given up after an error; hooks and monitor can wait on each other in one way only (`Blocked`) |
| | | events | `SubscriptionIsServed`: the filter is exact; between backlog and queue no event is missed as long as none is published between the two steps of Subscribe (`gap`: such an event is lost); events arrive, a cancelled subscription ends |
| | | supervisor | `ContainerdIsKept`: one containerd, taken along by Stop, replaced when it dies, given up only after failures in a row |
| | | daemon | `ServicesEnd`: start and end come to their ends, systemd hears of a start only when there is one |
| `stores` | `Stores`, `MCStores` | upgrade | `UpgradeIsWhole`: container, file and snapshot belong together after every failure of a step |
| | | meta | `StoreIsDurable`: `MetaStore` implements `DurableMap` under crashes, and the trie has the keys |
| | | pool | `StreamsAreCounted`: no stream is lost, none is used above the quota |
| | | net | `EndpointsMatchState`: a running container is connected, an ended one leaks nothing, and can be started even when the release of its networks has failed |
| | | quota | `QuotaIsInForce`: an id belongs to one directory, and a marked directory is limited |
| | | catalog | `CatalogIsExact`: a recorded local volume has its directory, also under listings that overlap; without them the records match what the drivers have |
| | | plugin | `PluginIsLoaded`: a plugin that works is found, one that failed is forgotten, a driver has answered |
| `streams` | `Streams`, `MCStreams` | remote | `SessionIsServed`: a token is good once, a session starts when its streams are complete, and ends |
| | | portforward | `PairsAreServed`: streams of one request are paired and forwarded once, and every entry is removed by its own monitor |
| | | logs | `LogsAreRead`: lines come in order, without a gap, all of them, those written while the IO is closed included, and Logs returns |
| | | progress | `ProgressIsShown`: nobody writes to a closed stream, what is called done is stored, the client sees the outcome of the transfer, the request ends |

Each property has a mutant of the code, a definition whose name begins with `Mutant`, that breaks it. Each module's type invariant is a conjunct of one of its properties;
those of `ContainerLifecycle` (`TypeOK`) and `KMutex` are proved.

### Where the code disagrees with what it says

- `kmutex_long`: the ticker deletes every key with no waiters, and the holder is not a waiter. A hold that lasts over a tick loses
  its key, and the next Lock does not wait (`pkg/kmutex/kmutex.go:35`; line 14 says "One key can acquire only one lock").
- `volume_shared`: Attach of a container that is in `ref` already stores that container alone (`daemon/mgr/volume.go:183`). A start
  attaches what Create has attached, so starting one of two containers that share a volume lets `volume rm` remove it under
  the other (`test/cli_volume_test.go:154-155` expects the removal of a used volume to fail).

Two more are part of the models and of passing runs, which state what the code does instead:

- `daemon/logger/logbuffer/ringbuff.go:17` calls the ring "a fixed-size buffer which will drop oldest data if full". `Push` (lines 58-66) never adds to
  `currentBytes`, which Pop lowers: the ring is not bounded, nothing in it is ever dropped, and only a new line that is larger than the whole ring is refused.
  `LogIsComplete` shows it in `services` (`MaxBytes` is 1, and two ordinary lines can be in the ring).
- `apis/server/image_bridge.go:59` says of a failed pull "Error information has be sent to client". `PullImage` closes the stream before PostPull and
  StoreImageReference (`daemon/mgr/image.go:248-262`); when one of them fails the client has seen every layer done and no error. `OutcomeIsShown` names this end (`"unstored"`).

### Cases the properties leave out

The models contain these behaviours of the code; the properties exclude them by name, because there they do not hold.

| Property | Excluded | Because |
|---|---|---|
| `NoResurrection`, `MetaIsFresh` | restart, oom, connect, disconnect (not in `GuardedOps`) | they write the file after the lock was free, or test Dead late, by the Status or not at all |
| `LiveTaskIsWatched` | after a crash | a crash between the start of a task and the write of Running leaves a task nobody watches |
| `RegistryAgrees` | parts of it after a crash | a container half removed comes back without its name and snapshot |
| `UsedVolumeIsKept`, `RefsAreExact` | `overlap`, `sharedStart`, `startFails`, `copy`, `createFails`, `detachFails` | references are computed from a copy read before; failed handlers drop or leave references |
| `MountsAreSound` | `replace`, `fromReplaced`, `badMode`, `storageFails`, `fromHost` | a replacement does not name its volume; a mode is parsed after the attach; late errors detach nothing; a host path inherited from another container is filled like a volume |
| `StoreIsSound`, `StoreMatchesContainerd` | `overlap`, `fault`, `moveTag` | store and containerd change one after the other; references by digest follow a moved tag |
| `CommitIsSound` | `same` together with `sameRef`, `removes`, `commitFails` or `commitCrash` | the lease does not hold a snapshot that existed already; a failed commit removes a snapshot that another image shares |
| | `commitFails`, `commitCrash`, and two requests on one reference | an image record is made before its content; a pause whose write fails is not undone; references have no lock |
| `SandboxIsFound`, `GoneIsGone` | `storeFails`, `undoFails`, `removeFirst`, `startRunning`, `crash`, `overlap`, each in the part it concerns | a roll-back that fails itself; a start of a running sandbox that fails takes its network down; a container created while the sandbox is removed |
| `ExecIsShown` | `twice`, `attachError`, `inspect`, `killFails`, each in its part | a refused second start, or an attach that fails, writes its failure into the entry |
| `LogIsKept`, `CloseReturns` | `slow`, `stuckClient`, `rotateFails` | time-outs of Close; a client that does not read holds the lock of the writers |
| `ExitIsHandled` | `Blocked`, under `overflow` | a full channel blocks a hook that holds the lock the monitor needs |
| | an exit whose release or restart failed (`releaseFails`, `startFails`) | the error is logged, and no event is left |
| `SubscriptionIsServed` | events published in the `gap` | Subscribe reads the backlog before its queue is in the broadcaster |
| `ContainerdIsKept` | `crashInSave` | a containerd whose pid was never written is not found |
| `ServicesEnd` | the CRI service, for an HTTP server that dies alone | Run waits for the CRI service first |
| `UpgradeIsWhole` | `writeFails`, `upgradeCrash`, `upgradeOverlap`, each in its part | the old snapshot goes before the file is written; the lock is free between the steps |
| | `releaseFails`, for the image in `meta.json` | Stop has marked the container and written the new image when its release fails; the old image comes back in memory only |
| `StoreIsDurable` | `sameKey`, `removeFails` | the trie and the backend change one after the other |
| `StreamsAreCounted` | `poolOverlap`, `broken` | the quota is read before it is consumed; a broken watch does not give it back |
| `EndpointsMatchState` | `removeFails`, `connectFails`, `createFails`, `saveFails`, `crash`, `crashInWrite`, `removed`, each in its part (that a stopped container can start: `saveFails`, `crash`) | deferred deletions look at an `err` that later errors do not set; the release stops at the first failure |
| `QuotaIsInForce` | `explicit`, `wraps`, `fails`, `restart`, each in its part | ids given out are in memory only |
| `CatalogIsExact`, `PluginIsLoaded` | `listOverlap`, `sameName`, `storeFails`; `probes`, `otherType` | ListVolumes stores without the lock, so that a directory can lose its record (never a record its directory); a plugin is in the map before it was probed |
| `SessionIsServed`, `PairsAreServed` | `attach`, `createFails` for sizes; `odd` for the streams a command starts with; `oldClient`, `repeats` | nobody reads the sizes; only the number of streams is compared; request ids tell nothing |
| `LogsAreRead` | `slow`, `rotate`, `truncate`, `until`, `errors`, each in its part | the timer ends the log of a stopped container; a rotation ends a follow; a reader of a truncated file waits at its old offset; an error finds the channel full |
| `ProgressIsShown` | the end `"unstored"` | the stream is closed before the last steps of a pull |

The cases `sameID` and `sameName` of the registry (requests that check before they reserve) and `twoUpgrades` are in the modules but in no run.

## 4. Bounds

| Constants | Value | Why it is enough |
|---|---|---|
| `Clients`, `Packs` (lifecycle) | 1 to 3, 1 or 2 | two handlers that overlap beside the monitor and two exit hooks, three so that two wait while one starts; a task and its successor: an old hook meets a new start |
| `QueueCap` | 3 | the channel holds 1000 events, which one container cannot fill; the full channel is the subject of `ExitMonitor` (`Monitored` 2, `ChanCap` 2, `MaxExits` 3) |
| `MaxCrashes`, `MaxRestarts` | 0 or 1 | one restart at each step of every handler; the start of the daemon itself ends before the next request |
| `IDs`, `Names` (registry) | 2, 3 | two containers and a free name to rename to |
| `Containers`, `Removers`, `MaxOverlap` | 3, 1, 2 | one reference is dropped while another stays; two operations suffice for a lost update (the cases that are not run together with an overlap are in the theorems) |
| `MaxFrom`, `MaxBinds` | 2, 2 | two mount points of a source meet: the same destination, spelled in two ways, or one inside the other |
| `Names`, `Tags`, `Images`, `Clients`, `MaxRequests` (images) | 2, 1, 2, 2, 4 | a tag moves between two images, with an alias under another name; pull, tag, pull and remove are four; three where any requests overlap |
| `Commits`, `Boxes`, `Targets`, `Changes` | 2 each | two commits with equal or different layers to one or two references |
| `Apps`, `Workers`, `MaxFaults`, `MaxStarts` | 1, 2, 2, 1 | a handler and its overlap; a failure and a failure of its undo, and one failure where requests overlap |
| `Starters` | 2 | the accepted start and the refused one |
| `MaxLines`, `LongLines`, `MaxBytes`, `MaxSize`, `MaxFile` | 3, {2}, 1, 1, 2 | one line is longer than the ring, the two others together are too, and a file is rotated out |
| `Publishers`, `Subscribers`, `EventsLimit`, `MaxEvents` | 2, 1, 2, 3 | the backlog has two events for the filter to choose from, and overflows; two publishers buffer and broadcast in either order; subscribers do not meet except in the broadcaster |
| `MaxPid`, `MaxRetry`, `MaxBad` | 5, 3, 4 | more failures than it takes to give up |
| `Upgraders`, `Images`, `MaxSnapshots` | 1, 2, 2 | one upgrade to another image and its failure |
| `Keys`, `Values`, `Writers` | 2 each | overlapping writers on one key and on two |
| `Watched`, `PoolSize`, `MaxStreams` | 3, 2, 1 | more containers than streams |
| `Networks`, `Dirs`, `MaxQuotaID` | 2, 2, 4 | a release that stops at the first of two; ids wrap (2^32 in the code) |
| `Listers`, `Askers`, `MaxCalls` | 2, 2, 3 | two that overlap, and one that comes later |
| `Tokens`, `MaxInFlight`, `CacheTTL`, `MaxTime` | 3, 2, 1, 3 | the cache is full, and entries expire |
| `MaxSizes`, `Forwards` | 2, 2 | one size is delivered and one is not; two connections |
| `MaxLogged`, `BlockSize`, `BufSize`, `TailLines`, `UntilLine` | 3, 2, 1, 2, 2 | a tail that crosses a block, a channel that is full |
| `Layers`, `Cached`, `CacheSize` | 2, one, 1 | a layer that exists and one that is fetched; a full channel |
| `Procs`, `Values` (mutex) | 3, 4 | one holder, one waiter, one that gives up; one value each and the current one |

Symmetry is used in the runs without liveness, over values that are interchangeable. Where two parts of a run never meet, one set of model values serves both.
`CHECK_DEADLOCK FALSE` stands where the system may stop: requests are used up, or every container is gone. The mutex never stops.

## 5. Fairness

Every goroutine of the daemon that can go on does; nothing makes a client call or leave, a task exit, a plugin answer, a timer win a race, or anything fail.

- `ContainerLifecycle`: `WF` of `Proceed`, `Watch`, `HandleExitEvent`, `Restore`; a goroutine that waits for the container lock
  gets it in the end (`SF` of `Acquire` and `HookMark`), since Go's `sync.Mutex` hands itself to a goroutine that has waited too long.
  A SIGKILL that is not answered is left by the second timeout. The liveness runs take a positive stop timeout
  (`HasTimeout`), since without one a destroy and the hook of its task can wait on each other, and no aborted stop (`MayAbort`).
- `KMutex`: a holder unlocks, a deferred decrement happens, and a goroutine that waits while the token comes by again and
  again receives it (`SF` of `Receive`): a Go channel serves its receivers in the order of their arrival. Timeouts and ticks are not forced.
- `ExitMonitor`: `SF` of the monitor and of each hook, which wait for a `sync.Mutex` and for a channel, with the same argument.
- `PodSandbox`: `WF` of the steps of each request; the kubelet that kills a pod calls StopPodSandbox and RemovePodSandbox again as long as they have not succeeded. Failures are bounded by `MaxFaults`.
- `ExecLifecycle`, `ContainerIO`, `Events`, `Supervisor`, `DaemonRun`: `WF` of each goroutine. A client that is stuck has no fairness.
- `RemoteCommand`, `PortForward`, `LogFollow`, `JSONStream`: `WF` of each goroutine; `SF` of `SeeDone`, since a `select` that finds the context done again and again chooses it in the end (Go picks among ready cases at random).
- `MCRecords`, `MCImageStore`, `MCStores` have no fairness: their properties are about safety.

## 6. What is proved

`tlapm` checks the modules whose names end in `Proofs` and `ContainerRegistryInv`, which has the invariant of the registry and the first half of its proof. Every theorem holds for all values of the
constants, under the assumptions the component's module names: goroutines, containers and connections are finite sets where they are counted, `None` and the like differ from the names of things,
and bounds are numbers. A component that extends `Scenario` has a specification of its own in which `cases` is any fixed set; a property's `NoneOf` is part of what is proved, so a theorem
says for every mixture of cases what the run says for the ones it enumerates.

| Theorem | States | Argument |
|---|---|---|
| `TypeCorrect` | `Spec => []TypeOK` | one case per action |
| `LiveTaskWatched` | `Spec => []LiveTaskIsWatched`, any handlers | `WatchInv` adds that containerd keeps the container object of a live task: start is refused while the object is there, and a destroy that ends early keeps the pack as long as the object stays |
| `RemovedStaysRemoved` | `Ops \subseteq GuardedOps`: `Spec => []NoResurrection` | `LockInv`: the lock is held exactly by the goroutine in a critical section. `GuardedInv`: cache and names change together, a start that is about to write has its snapshot, and a removed container that still shows Running has no watched pack |
| `MetaStaysFresh` | under the same condition `Spec => []MetaIsFresh` | `GuardedInv` again: file and memory are equal as long as the container is in the cache |
| `WaitersStayCurrent` | `KMutex`: `Spec => []WaitersAreCurrent` | `CountInv`: `waits` is the number of goroutines that refer to the value, so the ticker leaves a value with a waiter |
| `NoLostWakeup` | `Spec => []TokenOrOwner` | from `CountInv`: whoever takes the token owns the lock, and the ticker only deletes whole values |
| `MutualExclusion` | `Spec => []OneOwnerInTime`: one owner in a behaviour where no tick falls into a hold | `OwnerInv`: the token and an owner exclude each other |
| `Refinement` | `Spec => ImplementsKeyedMutex`, for those behaviours | `Holder` is the goroutine that owns the key; taking the token is Acquire, returning it Release, anything else a stutter |
| `ReferencesAreExact` | `VolumeRefs`, `~Remote`: `RefSpec => []RefsAreExact` | `SerialInv`: without overlap one process is at work and what it has read is current. `StaleInv`: where in its handler a container can be among the references |
| `UsedVolumeKept` | `VolumeRefs`, `~Remote`: `RefSpec => []UsedVolumeIsKept` | `KeptInv`: a container that has the volume is among the references, and one that starts is the only one, since an attach writes the list it has read without the others |
| `MountHasReference` | `RefSpec => []MountHasRef`, plugins and all cases included | `RefsInv`: a detach that leaves no reference unmounts in the same step |
| `RegistryStaysInAgreement` | without `"sameID"`, `"sameName"`: `RegSpec => []RegistryAgrees` | `IdsInv`: what is kept under an id is its owner's. `LockInv`: who holds a container's lock, and that a request that waits for it gets a container that is cached or dead. `CompleteInv`: what Create has made so far. `WantedInv`, `NamesInv`: a name found free stays free until its request takes it |
| `UpgradeStaysWhole` | `UpgradeSpec => []UpgradeIsWhole` | `SnapshotInv`: until the new snapshot is in its place the old one is there to go back to. `StoredInv`: `meta.json` is the old one until the last write, unless the container was stopped; then the rollback writes it. `RootInv`: nothing runs while the snapshots change. The image on disk is left out after a release that failed |
| `StoreImplementsMap` | `MetaSpec => StoreIsDurable` | `WriterInv`: between the temporary file and the cache a request has the lock, and its file is complete. `CacheInv`, `TrieInv`: cache and trie differ from the disk only at the key at work. The rename is the Put of `DurableMap`, `RemoveAll` its Remove, the rest stutters |
| `StreamsStayCounted` | `ClientPool`: `PoolSpec => []StreamsAreCounted` | quota and streams of a connection change together (`UsesGrow`, `UsesShrink`, on cardinalities); `ChoiceInv`: without overlap the connection that was chosen has not fewer streams left than when it was read |
| `CatalogStaysExact` | `VolumeCatalog`: `CatSpec => []CatalogIsExact` | `DirInv`, for any listings that overlap: a record of a local volume has its directory, and a listing stores no local one. `RecordInv`, without overlap: what a listing has read is current; the plugin has what is attached of it, and no volume of the name of a local one |
| `ExecStaysShown` | `ExecSpec => []ExecIsShown` | `ProcInv`: how a starter, its process and the clean-up keep in step. `EntryInv`: the entry stays until the end was told and seen. `OnceInv`, `RunningInv`, `CodeInv`, `ReadInv`: what one start writes into it |

`NoResurrection` is not inductive: the exit hook clears the Dead flag (`setStatusFlags`), so Dead alone does not protect a removed container;
it is the missing name that keeps the hook from writing, the missing snapshot that keeps a start from it, and the missing pack that keeps Stop, Pause and Unpause from it.

None of the other invariants is inductive either. Each needs what a handler that is half done may rely on: which lock it holds, what it has read, and which of its effects are there already. That is
what the strengthenings say, step by step. TLC checked each of them before it was proved. Two conditions are in the statements because the code needs them: with `Remote` (a plugin whose Get returns no
references) the attach of a second container overwrites the reference of the first, and with `"sameID"` or `"sameName"` the checks of two requests pass before either has written.

Only model-checked:
- every liveness property, which is out of the prover's reach;
- what sequences and folds compute (`ContainerIO`, `LogFollow`, `Events`, `MountPoints`, `JSONStream`), which needs induction over data;
- `ExitShownBeforeReply`, and the invariants of `ImageStore`, `Commit`, `PodSandbox`, `NetworkEndpoints`, `DiskQuota`, `Plugins` and the streaming modules.

## 7. What is not modelled, and why

- Generated code: `cri/apis` (protocol buffers) and `apis/types` (swagger), together nearly half of the lines of the repository. There is nothing in it to state.
- Translations without state: spec generation (`daemon/mgr/spec*.go`), conversions between CRI and API types, filters, option parsing other than the modes of mount points, configuration, validation.
- Reading only: inspect, list, top, stats, history, searches by id prefix; the handlers of the API, which decode a request and call a manager; the CLI and the Go client, which are other processes.
- Effects outside of the daemon, which the modules call and let fail: containerd, libnetwork, CNI plugins, the quota tools, the registry, the kernel. The initialisation of the bridge network is a sequence of such calls at the start.
- Load and save of image archives, checkpoint, the rich mode of containers, the group quota driver (the same steps as the project quota), the syslog and CRI log formats, input of a container, the boltdb backend of the metadata store (it is the library's), the cache of snapshot usage (nothing depends on it).

The modules of one run share no state; the interactions between components are inside the modules, where one component appears as the steps its callers see (an atomic store, a driver, a task).
A composition of `ContainerRegistry` with `ContainerLifecycle` is beyond TLC at sizes where both are interesting.

Candidates for further theorems: `QuotaIsInForce`, `PluginIsLoaded`, `EndpointsMatchState`, `IndexesAgree` of `ImageStore`, `LayerIsConsistent` of `Commit`.
