------------------------------ MODULE Upgrade ------------------------------
(***************************************************************************)
(* ContainerManager.Upgrade: a container gets another image.  Its Config   *)
(* and Image are replaced, a running container is stopped, a snapshot of   *)
(* the new image is made, and the container is started on it.  The lock of *)
(* the container is held inside stop, start and the two assignments of the *)
(* Config, not between them; a failure puts back what Upgrade found.       *)
(***************************************************************************)
EXTENDS Naturals, Scenario

CONSTANTS
    Upgraders,     \* the clients that upgrade
    Images,
    MaxSnapshots   \* bound: snapshots that are made

ASSUME UpgradeAssumption == Images # {} /\ MaxSnapshots \in Nat

(* The cases: "stepFails" containerd or the storage may fail;              *)
(* "releaseFails" the resources of a stopped container may not be released;*)
(* "upgradeCrash" the daemon may die; "upgradeOverlap" the container is    *)
(* started, stopped or removed while an upgrade is under way;              *)
(* "writeFails" the store refuses the upgraded container; "twoUpgrades"    *)
(* upgrades overlap.                                                       *)

VARIABLES
    ctr,       \* the container in memory: its image, SnapshotID and state, and
               \* the snapshot it was last started on
    stored,    \* its meta.json
    cached,    \* it is in mgr.cache
    snapshots, \* the snapshots containerd has, with the image of each
    made,      \* how many were made
    upc,       \* per upgrader: its next step
    old,       \* per upgrader: oldImage and oldSnapID
    fresh,     \* per upgrader: config.Image, and then newSnapID
    needRollback \* per upgrader: the container ran, and stop has returned

upgradeVars == <<ctr, stored, cached, snapshots, made, upc, old, fresh, needRollback>>

NoMeta == <<>>
Ref(c) == [image |-> c.image, snap |-> c.snap]
HasSnapshot(s) == \E e \in snapshots : e.snap = s
Idle == \A u \in Upgraders : upc[u] = "idle"
UGoto(u, step) == upc' = [upc EXCEPT ![u] = step]

-----------------------------------------------------------------------------
(* start, stop and Remove, each under the lock of the container            *)

StartSucceeds ==
    /\ ~ctr.running /\ ~ctr.dead /\ HasSnapshot(ctr.snap)
    /\ ctr' = [ctr EXCEPT !.running = TRUE, !.root = ctr.snap] /\ stored' = Ref(ctr)

MayNotStart ==
    ctr.running \/ ctr.dead \/ ~HasSnapshot(ctr.snap) \/ On("stepFails")

\* A failure of CreateContainer, and no earlier one, is written to disk.
StartFails ==
    /\ MayNotStart
    /\ stored' \in {stored} \cup IF ctr.running \/ ctr.dead \/ ~cached THEN {} ELSE {Ref(ctr)}
    /\ UNCHANGED ctr

\* markStoppedAndRelease: a container that was removed is not written again.
MarkStopped ==
    /\ ctr' = [ctr EXCEPT !.running = FALSE]
    /\ stored' = IF cached THEN Ref(ctr) ELSE stored

\* Other requests for the container, by their outcome.
Quiet == Idle \/ On("upgradeOverlap")

Start ==
    /\ Quiet /\ cached /\ StartSucceeds
    /\ UNCHANGED <<cached, snapshots, made, upc, old, fresh, needRollback>>

Stop ==
    /\ Quiet /\ cached /\ ctr.running /\ MarkStopped
    /\ UNCHANGED <<cached, snapshots, made, upc, old, fresh, needRollback>>

Remove ==
    /\ Quiet /\ cached /\ ~ctr.running /\ ~ctr.dead
    /\ ctr' = [ctr EXCEPT !.dead = TRUE]
    /\ cached' = FALSE /\ stored' = NoMeta
    /\ snapshots' = {e \in snapshots : e.snap # ctr.snap}
    /\ UNCHANGED <<made, upc, old, fresh, needRollback>>

-----------------------------------------------------------------------------
(* Upgrade *)

Upgrade(u, i) ==
    /\ upc[u] = "idle" /\ (Idle \/ On("twoUpgrades")) /\ cached
    /\ old' = [old EXCEPT ![u] = Ref(ctr)]
    /\ fresh' = [fresh EXCEPT ![u] = [image |-> i, snap |-> 0]]
    /\ needRollback' = [needRollback EXCEPT ![u] = FALSE]
    /\ UGoto(u, "merge")
    /\ UNCHANGED <<ctr, stored, cached, snapshots, made>>

\* mergeImageConfigForUpgrade fails if the image is the one the container has.
MergeImageConfig(u) ==
    /\ upc[u] = "merge"
    /\ \/ /\ fresh[u].image # ctr.image
          /\ ctr' = [ctr EXCEPT !.image = fresh[u].image] /\ UGoto(u, "isRunning")
       \/ /\ fresh[u].image = ctr.image \/ On("stepFails")
          /\ UNCHANGED ctr /\ UGoto(u, "restore")
    /\ UNCHANGED <<stored, cached, snapshots, made, old, fresh, needRollback>>

\* State.Running is read without the lock.
CheckRunning(u) ==
    /\ upc[u] = "isRunning"
    /\ UGoto(u, IF ctr.running THEN "stop" ELSE "snapshot")
    /\ UNCHANGED <<ctr, stored, cached, snapshots, made, old, fresh, needRollback>>

\* A container that does not run any more is not stopped, nor written.  When
\* the release of its resources fails, stop returns the error after it has
\* marked the container as stopped and written it, with the new image.
StopOld(u) ==
    /\ upc[u] = "stop"
    /\ \/ /\ IF ctr.running THEN MarkStopped ELSE UNCHANGED <<ctr, stored>>
          /\ needRollback' = [needRollback EXCEPT ![u] = TRUE]
          /\ UGoto(u, "snapshot")
       \/ /\ On("stepFails") /\ ctr.running
          /\ UNCHANGED <<ctr, stored, needRollback>> /\ UGoto(u, "restore")
       \/ /\ On("releaseFails") /\ ctr.running /\ cached
          /\ MarkStopped /\ UNCHANGED needRollback /\ UGoto(u, "restore")
    /\ UNCHANGED <<cached, snapshots, made, old, fresh>>

\* prepareSnapshotForUpgrade makes a snapshot with a new random id, and the
\* SnapshotID is assigned without the lock.
PrepareSnapshot(u) ==
    /\ upc[u] = "snapshot"
    /\ \/ /\ made < MaxSnapshots /\ made' = made + 1
          /\ snapshots' = snapshots \cup {[snap |-> made + 1, image |-> fresh[u].image]}
          /\ fresh' = [fresh EXCEPT ![u].snap = made + 1]
          /\ ctr' = [ctr EXCEPT !.snap = made + 1] /\ UGoto(u, "storage")
       \/ /\ made = MaxSnapshots \/ On("stepFails")
          /\ UGoto(u, "restore") /\ UNCHANGED <<ctr, snapshots, made, fresh>>
    /\ UNCHANGED <<stored, cached, old, needRollback>>

InitContainerStorage(u) ==
    /\ upc[u] = "storage"
    /\ \/ UGoto(u, IF needRollback[u] THEN "start" ELSE "removeOld")
       \/ (On("stepFails") \/ ~HasSnapshot(ctr.snap)) /\ UGoto(u, "restore")
    /\ UNCHANGED <<ctr, stored, cached, snapshots, made, old, fresh, needRollback>>

\* The upgrade of a running container ends here if start succeeds: the old
\* snapshot stays.
StartNew(u) ==
    /\ upc[u] = "start"
    /\ \/ StartSucceeds /\ UGoto(u, "idle")
       \/ StartFails /\ UGoto(u, "removeNew")
    /\ UNCHANGED <<cached, snapshots, made, old, fresh, needRollback>>

RemoveNew(u) ==
    /\ upc[u] = "removeNew"
    /\ snapshots' \in {{e \in snapshots : e.snap # fresh[u].snap}}
                         \cup IF On("stepFails") THEN {snapshots} ELSE {}
    /\ UGoto(u, "restore")
    /\ UNCHANGED <<ctr, stored, cached, made, old, fresh, needRollback>>

RemoveOld(u) ==
    /\ upc[u] = "removeOld"
    /\ snapshots' \in {{e \in snapshots : e.snap # old[u].snap}}
                         \cup IF On("stepFails") THEN {snapshots} ELSE {}
    /\ UGoto(u, "write")
    /\ UNCHANGED <<ctr, stored, cached, made, old, fresh, needRollback>>

\* cache.Put and Write.  Its error is one of an inner scope: the deferred function
\* does not see it, and nothing is put back.
WriteUpgraded(u) ==
    /\ upc[u] = "write"
    /\ cached' = TRUE
    /\ stored' = Ref(ctr) \/ (On("writeFails") /\ UNCHANGED stored)
    /\ UGoto(u, "idle")
    /\ UNCHANGED <<ctr, snapshots, made, old, fresh, needRollback>>

MutantRestoreKeepsSnapshot(u) ==
    /\ upc[u] = "restore"
    /\ ctr' = [ctr EXCEPT !.image = old[u].image]
    /\ UGoto(u, IF needRollback[u] THEN "rollback" ELSE "idle")
    /\ UNCHANGED <<stored, cached, snapshots, made, old, fresh, needRollback>>

\* The deferred function of an upgrade that fails.  Nothing is started again,
\* and nothing written, if the container did not run or stop has failed.
RestoreOld(u) ==
    /\ upc[u] = "restore"
    /\ ctr' = [ctr EXCEPT !.image = old[u].image, !.snap = old[u].snap]
    /\ UGoto(u, IF needRollback[u] THEN "rollback" ELSE "idle")
    /\ UNCHANGED <<stored, cached, snapshots, made, old, fresh, needRollback>>

Rollback(u) ==
    /\ upc[u] = "rollback"
    /\ StartSucceeds \/ (MayNotStart /\ MarkStopped)
    /\ UGoto(u, "idle")
    /\ UNCHANGED <<cached, snapshots, made, old, fresh, needRollback>>

-----------------------------------------------------------------------------
\* The daemon dies, and starts again with what is on disk; containerd and what
\* runs in it go on.
UpgradeCrash ==
    /\ On("upgradeCrash") /\ cached /\ stored # NoMeta
    /\ ctr' = [ctr EXCEPT !.image = stored.image, !.snap = stored.snap, !.dead = FALSE]
    /\ upc' = [u \in Upgraders |-> "idle"]
    /\ UNCHANGED <<stored, cached, snapshots, made, old, fresh, needRollback>>

UpgradeInit ==
    /\ stored = [image |-> CHOOSE i \in Images : TRUE, snap |-> 0]
    /\ ctr = [image |-> stored.image, snap |-> 0, running |-> FALSE, root |-> 0, dead |-> FALSE]
    /\ snapshots = {stored}
    /\ old = [u \in Upgraders |-> stored] /\ fresh = old
    /\ cached = TRUE /\ made = 0
    /\ upc = [u \in Upgraders |-> "idle"]
    /\ needRollback = [u \in Upgraders |-> FALSE]

UpgradeNext ==
    \/ Start \/ Stop \/ Remove \/ UpgradeCrash
    \/ \E u \in Upgraders :
          \/ \E i \in Images : Upgrade(u, i)
          \/ MergeImageConfig(u) \/ CheckRunning(u) \/ StopOld(u) \/ PrepareSnapshot(u)
          \/ InitContainerStorage(u) \/ StartNew(u) \/ RemoveNew(u) \/ RemoveOld(u)
          \/ WriteUpgraded(u) \/ RestoreOld(u) \/ Rollback(u)

UpgradeSpec == UpgradeInit /\ [][UpgradeNext /\ UNCHANGED cases]_<<upgradeVars, cases>>

-----------------------------------------------------------------------------
(* Properties *)

\* Every variable has its type.
UpgradeTypeOK ==
    LET Refs == [image : Images, snap : 0..MaxSnapshots]
    IN /\ Ref(ctr) \in Refs /\ ctr.root \in 0..MaxSnapshots
       /\ ctr.running \in BOOLEAN /\ ctr.dead \in BOOLEAN
       /\ stored \in Refs \cup {NoMeta} /\ cached \in BOOLEAN
       /\ snapshots \subseteq Refs /\ made \in 0..MaxSnapshots
       /\ upc \in [Upgraders -> {"idle", "merge", "isRunning", "stop", "snapshot", "storage",
                                 "start", "removeNew", "removeOld", "write", "restore",
                                 "rollback"}]
       /\ old \in [Upgraders -> Refs] /\ fresh \in [Upgraders -> Refs]
       /\ needRollback \in [Upgraders -> BOOLEAN]

\* Whatever step of an upgrade has failed, and however the upgrade before it has
\* ended: the container's SnapshotID is a snapshot containerd has, made of the
\* image the container has.
SnapshotIsOfImage ==
    Idle /\ ~ctr.dead /\ NoneOf({"upgradeCrash", "twoUpgrades"}) => Ref(ctr) \in snapshots

\* What is on disk names that snapshot and that image too, so the container can
\* be started after a restart of the daemon.  (When stop has failed in the
\* release, it has stored the new image, and only memory gets the old one back:
\* the snapshot on disk is then still the right one, the image is not.)
StoredIsUpgraded ==
    Idle /\ ~ctr.dead /\ NoneOf({"writeFails", "upgradeOverlap", "twoUpgrades"}) =>
        /\ stored \in [image : Images, snap : {ctr.snap}]
        /\ ~On("releaseFails") => stored.image = ctr.image

\* A container runs on a snapshot that containerd has.
RootIsKept ==
    ctr.running /\ NoneOf({"upgradeOverlap", "twoUpgrades"}) => HasSnapshot(ctr.root)

\* An upgrade is done as a whole or not at all: the container, what is on disk
\* and the snapshots it has or runs on belong together.
UpgradeIsWhole == UpgradeTypeOK /\ SnapshotIsOfImage /\ StoredIsUpgraded /\ RootIsKept
=============================================================================
