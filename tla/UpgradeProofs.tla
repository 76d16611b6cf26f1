---------------------------- MODULE UpgradeProofs ----------------------------
(***************************************************************************)
(* Proofs about ContainerManager.Upgrade, for any clients, images and      *)
(* number of snapshots.                                                    *)
(***************************************************************************)
EXTENDS Upgrade, TLAPS

Refs == [image : Images, snap : 0..MaxSnapshots]

Ctrs == [image : Images, snap : 0..MaxSnapshots, running : BOOLEAN, root : 0..MaxSnapshots,
         dead : BOOLEAN]

UpType == UpgradeTypeOK /\ ctr \in Ctrs

\* What is numbered higher than made is new.
MadeInv ==
    /\ \A e \in snapshots : e.snap <= made
    /\ ctr.snap <= made
    /\ stored # NoMeta => stored.snap <= made
    /\ \A u \in Upgraders : old[u].snap <= made

\* Upgrades do not overlap.
OneUpgrade == \A u, v \in Upgraders : upc[u] # "idle" /\ upc[v] # "idle" => u = v

\* What an upgrade can go on with, or back to, is there: the old snapshot until
\* the new one is in its place.  A container that is removed meanwhile is dead.
SnapshotInv ==
    ~ctr.dead =>
       /\ Idle => Ref(ctr) \in snapshots
       /\ \A u \in Upgraders :
             /\ upc[u] \notin {"idle", "write"} => old[u] \in snapshots
             /\ upc[u] = "merge" => Ref(ctr) = old[u]
             /\ upc[u] \in {"isRunning", "stop", "snapshot"} => ctr.image = fresh[u].image
             /\ upc[u] \in {"storage", "start", "removeOld", "write"} =>
                   Ref(ctr) = fresh[u] /\ fresh[u] \in snapshots
             /\ upc[u] \in {"storage", "start", "removeOld", "write", "removeNew"} =>
                   fresh[u].snap # old[u].snap
             /\ upc[u] = "rollback" => Ref(ctr) = old[u]

\* The snapshot on disk is the one an upgrade goes back to, unless stop has
\* returned: then a start or the rollback writes the container.
StoredSnapInv ==
    /\ ctr.dead <=> ~cached
    /\ ~ctr.dead => stored \in Refs
    /\ Idle /\ ~ctr.dead => stored.snap = ctr.snap
    /\ \A u \in Upgraders :
          /\ upc[u] # "idle" => cached /\ (~needRollback[u] => stored.snap = old[u].snap)
          /\ upc[u] \in {"merge", "isRunning", "stop"} => ctr.snap = old[u].snap /\ ~needRollback[u]
          /\ upc[u] \in {"start", "removeNew", "rollback"} => needRollback[u]
          /\ upc[u] \in {"removeOld", "write"} => ~needRollback[u]

\* Before the write of an upgrade, meta.json is the old one unless the container
\* was stopped, and then a start or the rollback writes it.
StoredInv ==
    /\ ctr.dead <=> ~cached
    /\ Idle /\ ~ctr.dead => stored = Ref(ctr)
    /\ \A u \in Upgraders :
          /\ upc[u] # "idle" => cached /\ (~needRollback[u] => stored = old[u])
          /\ upc[u] \in {"start", "removeNew", "rollback"} => needRollback[u]
          /\ upc[u] \in {"removeOld", "write"} => ~needRollback[u]

\* The container does not run once the snapshots change.
RootInv ==
    /\ ctr.running => HasSnapshot(ctr.root)
    /\ \A u \in Upgraders :
          /\ upc[u] \in {"snapshot", "storage", "start", "removeNew", "removeOld", "write",
                         "rollback"} => ~ctr.running
          /\ upc[u] = "restore" /\ needRollback[u] => ~ctr.running
          /\ upc[u] \in {"merge", "isRunning", "stop"} => ~needRollback[u]

UpInv ==
    /\ UpType /\ MadeInv
    /\ ~On("twoUpgrades") => OneUpgrade
    /\ NoneOf({"upgradeCrash", "twoUpgrades"}) => SnapshotInv
    /\ NoneOf({"writeFails", "upgradeOverlap", "twoUpgrades"}) =>
          StoredSnapInv /\ (~On("releaseFails") => StoredInv)
    /\ NoneOf({"upgradeOverlap", "twoUpgrades"}) => RootInv

-----------------------------------------------------------------------------
\* The time each leaf of the proofs may take.
USE SMTT(60)

\* What start, a start that fails and stop do to the container and its meta.json.
LEMMA StartEffect ==
    ASSUME UpType, StartSucceeds
    PROVE  /\ ctr' \in Ctrs /\ stored' = Ref(ctr) /\ stored' \in Refs /\ ~ctr.running /\ ~ctr.dead
           /\ ctr'.image = ctr.image /\ ctr'.snap = ctr.snap /\ ctr'.dead = ctr.dead
           /\ ctr'.running = TRUE /\ ctr'.root = ctr.snap
           /\ Ref(ctr)' = Ref(ctr) /\ stored'.snap = ctr.snap
           /\ \E e \in snapshots : e.snap = ctr.snap
  BY Zenon DEF UpType, Ctrs, Refs, Ref, StartSucceeds, HasSnapshot

\* What a Start that fails leaves: the container as it was.
LEMMA StartFailsEffect ==
    ASSUME UpType, StartFails
    PROVE  /\ ctr' = ctr /\ stored' \in {stored, Ref(ctr)} /\ stored' \in Refs \cup {NoMeta}
  BY Zenon DEF UpType, UpgradeTypeOK, Ctrs, Refs, Ref, StartFails

\* What markStoppedAndRelease does: the container stops, and its record is written.
LEMMA StopEffect ==
    ASSUME UpType, MarkStopped
    PROVE  /\ ctr' \in Ctrs /\ stored' = (IF cached THEN Ref(ctr) ELSE stored)
           /\ stored' \in Refs \cup {NoMeta}
           /\ ctr'.image = ctr.image /\ ctr'.snap = ctr.snap /\ ctr'.dead = ctr.dead
           /\ ctr'.running = FALSE /\ ctr'.root = ctr.root
           /\ Ref(ctr)' = Ref(ctr) /\ (stored' = stored \/ stored'.snap = ctr.snap)
           /\ cached => stored' \in Refs /\ stored'.snap = ctr.snap
  BY Zenon DEF UpType, UpgradeTypeOK, Ctrs, Refs, Ref, MarkStopped

\* What taking over the configuration of the image does to the container.
LEMMA MergeEffect ==
    ASSUME UpType, NEW u \in Upgraders, MergeImageConfig(u)
    PROVE  ctr' \in Ctrs
<1>1. CASE ctr' = [ctr EXCEPT !.image = fresh[u].image]
  BY <1>1, Zenon DEF UpType, UpgradeTypeOK, Ctrs, Refs
<1>2. CASE UNCHANGED ctr
  BY <1>2, Zenon DEF UpType
<1> QED
  BY <1>1, <1>2, Zenon DEF MergeImageConfig

\* Every step keeps the types.
LEMMA UpTypeStep ==
    ASSUME UpType, [UpgradeNext]_upgradeVars
    PROVE  UpType'
<1> USE UpgradeAssumption DEF UpType, UpgradeTypeOK, Refs, Ctrs, Ref, UGoto, NoMeta
<1>1. CASE Start
  BY <1>1, Zenon DEF Start, StartSucceeds
<1>2. CASE Stop
  BY <1>2, Zenon DEF Stop, MarkStopped
<1>3. CASE Remove
  BY <1>3, Zenon DEF Remove
<1>4. CASE UpgradeCrash
  BY <1>4, Zenon DEF UpgradeCrash
<1>5. ASSUME NEW u \in Upgraders, NEW i \in Images, Upgrade(u, i)
      PROVE  UpType'
  BY <1>5 DEF Upgrade
<1>6. ASSUME NEW u \in Upgraders, MergeImageConfig(u)
      PROVE  UpType'
  <2>1. UNCHANGED <<stored, cached, snapshots, made, old, fresh, needRollback>>
    BY <1>6, Zenon DEF MergeImageConfig
  <2>2. upc' = [upc EXCEPT ![u] = "isRunning"] \/ upc' = [upc EXCEPT ![u] = "restore"]
    BY <1>6, Zenon DEF MergeImageConfig
  <2>3. upc' \in [Upgraders -> {"idle", "merge", "isRunning", "stop", "snapshot", "storage",
                               "start", "removeNew", "removeOld", "write", "restore",
                               "rollback"}]
    <3>1. CASE upc' = [upc EXCEPT ![u] = "isRunning"]
      BY <3>1, Zenon
    <3>2. CASE upc' = [upc EXCEPT ![u] = "restore"]
      BY <3>2, Zenon
    <3> QED
      BY <2>2, <3>1, <3>2, Zenon
  <2>4. ctr' \in Ctrs
    BY <1>6, MergeEffect, Zenon
  <2> QED
    BY <2>1, <2>3, <2>4, ZenonT(60)
<1>7. ASSUME NEW u \in Upgraders, CheckRunning(u)
      PROVE  UpType'
  BY <1>7, Zenon DEF CheckRunning
<1>8. ASSUME NEW u \in Upgraders, StopOld(u)
      PROVE  UpType'
  <2>1. CASE ctr.running /\ MarkStopped /\ UGoto(u, "snapshot")
    BY <1>8, <2>1, StopEffect, Zenon DEF StopOld
  <2>2. CASE ~ctr.running /\ UNCHANGED <<ctr, stored>>
    BY <1>8, <2>2, ZenonT(60) DEF StopOld
  <2>3. CASE ctr.running /\ UNCHANGED <<ctr, stored, needRollback>> /\ UGoto(u, "restore")
    BY <1>8, <2>3, Zenon DEF StopOld
  <2>4. CASE ctr.running /\ MarkStopped /\ UNCHANGED needRollback /\ UGoto(u, "restore")
    BY <1>8, <2>4, StopEffect, Zenon DEF StopOld
  <2> QED
    BY <1>8, <2>1, <2>2, <2>3, <2>4, Zenon DEF StopOld
<1>9. ASSUME NEW u \in Upgraders, PrepareSnapshot(u)
      PROVE  UpType'
  <2>1. CASE UGoto(u, "storage")
    <3>1. made + 1 \in 0..MaxSnapshots
      BY <1>9, <2>1 DEF PrepareSnapshot
    <3>2. ctr' \in Ctrs /\ Ref(ctr)' \in Refs
      BY <1>9, <2>1, <3>1, ZenonT(60) DEF PrepareSnapshot
    <3>3. /\ [fresh[u] EXCEPT !.snap = made + 1] \in Refs
          /\ [snap |-> made + 1, image |-> fresh[u].image] \in Refs
      BY <3>1, Zenon
    <3>4. fresh' = [fresh EXCEPT ![u] = [fresh[u] EXCEPT !.snap = made + 1]]
      BY <1>9, <2>1, Zenon DEF PrepareSnapshot
    <3>5. snapshots' \subseteq Refs /\ fresh' \in [Upgraders -> Refs]
      BY <1>9, <2>1, <3>3, <3>4, Zenon DEF PrepareSnapshot
    <3> QED
      BY <1>9, <2>1, <3>1, <3>2, <3>5 DEF PrepareSnapshot
  <2>2. CASE UGoto(u, "restore")
    BY <1>9, <2>2 DEF PrepareSnapshot
  <2> QED
    BY <1>9, <2>1, <2>2, Zenon DEF PrepareSnapshot
<1>10. ASSUME NEW u \in Upgraders, InitContainerStorage(u)
       PROVE  UpType'
  BY <1>10, ZenonT(60) DEF InitContainerStorage
<1>11. ASSUME NEW u \in Upgraders, StartNew(u)
       PROVE  UpType'
  <2>1. CASE StartSucceeds /\ UGoto(u, "idle")
    BY <1>11, <2>1, StartEffect, Zenon DEF StartNew
  <2>2. CASE StartFails /\ UGoto(u, "removeNew")
    BY <1>11, <2>2, StartFailsEffect DEF StartNew
  <2> QED
    BY <1>11, <2>1, <2>2, Zenon DEF StartNew
<1>12. ASSUME NEW u \in Upgraders, RemoveNew(u)
       PROVE  UpType'
  BY <1>12, Zenon DEF RemoveNew
<1>13. ASSUME NEW u \in Upgraders, RemoveOld(u)
       PROVE  UpType'
  BY <1>13, Zenon DEF RemoveOld
<1>14. ASSUME NEW u \in Upgraders, WriteUpgraded(u)
       PROVE  UpType'
  BY <1>14 DEF WriteUpgraded
<1>15. ASSUME NEW u \in Upgraders, RestoreOld(u)
       PROVE  UpType'
  BY <1>15, Zenon DEF RestoreOld
<1>16. ASSUME NEW u \in Upgraders, Rollback(u)
       PROVE  UpType'
  <2>1. CASE StartSucceeds
    BY <1>16, <2>1, StartEffect, Zenon DEF Rollback
  <2>2. CASE MarkStopped
    BY <1>16, <2>2, StopEffect, Zenon DEF Rollback
  <2> QED
    BY <1>16, <2>1, <2>2, Zenon DEF Rollback
<1>17. CASE UNCHANGED upgradeVars
  BY <1>17, Zenon DEF upgradeVars
<1> QED
  BY <1>1, <1>2, <1>3, <1>4, <1>5, <1>6, <1>7, <1>8, <1>9, <1>10, <1>11, <1>12, <1>13, <1>14,
     <1>15, <1>16, <1>17, Zenon DEF UpgradeNext

\* Snapshots are numbered as they are made.
LEMMA MadeStep ==
    ASSUME UpType, MadeInv, [UpgradeNext]_upgradeVars
    PROVE  MadeInv'
<1> USE UpgradeAssumption DEF UpType, UpgradeTypeOK, Refs, Ctrs, Ref, NoMeta, MadeInv
<1>1. CASE Start
  BY <1>1, Zenon DEF Start, StartSucceeds
<1>2. CASE Stop
  BY <1>2, Zenon DEF Stop, MarkStopped
<1>3. CASE Remove
  BY <1>3, Zenon DEF Remove
<1>4. CASE UpgradeCrash
  BY <1>4, Zenon DEF UpgradeCrash
<1>5. ASSUME NEW u \in Upgraders, NEW i \in Images, Upgrade(u, i)
      PROVE  MadeInv'
  BY <1>5, Zenon DEF Upgrade
<1>6. ASSUME NEW u \in Upgraders, MergeImageConfig(u)
      PROVE  MadeInv'
  BY <1>6, Zenon DEF MergeImageConfig
<1>7. ASSUME NEW u \in Upgraders, CheckRunning(u)
      PROVE  MadeInv'
  BY <1>7, Zenon DEF CheckRunning
<1>8. ASSUME NEW u \in Upgraders, StopOld(u)
      PROVE  MadeInv'
  <2>1. CASE ctr.running /\ MarkStopped /\ UGoto(u, "snapshot")
    <3>1. /\ ctr'.snap = ctr.snap /\ (stored' = stored \/ stored'.snap = ctr.snap)
          /\ UNCHANGED <<snapshots, made, old>>
      BY <1>8, <2>1, StopEffect, Zenon DEF StopOld
    <3> QED
      BY <3>1, Zenon
  <2>2. CASE ~ctr.running /\ UNCHANGED <<ctr, stored>>
    BY <1>8, <2>2, Zenon DEF StopOld
  <2>3. CASE ctr.running /\ UNCHANGED <<ctr, stored, needRollback>> /\ UGoto(u, "restore")
    BY <1>8, <2>3, Zenon DEF StopOld
  <2>4. CASE ctr.running /\ MarkStopped /\ UNCHANGED needRollback /\ UGoto(u, "restore")
    BY <1>8, <2>4, StopEffect, Zenon DEF StopOld
  <2> QED
    BY <1>8, <2>1, <2>2, <2>3, <2>4, Zenon DEF StopOld
<1>9. ASSUME NEW u \in Upgraders, PrepareSnapshot(u)
      PROVE  MadeInv'
  BY <1>9 DEF PrepareSnapshot
<1>10. ASSUME NEW u \in Upgraders, InitContainerStorage(u)
       PROVE  MadeInv'
  BY <1>10, Zenon DEF InitContainerStorage
<1>11. ASSUME NEW u \in Upgraders, StartNew(u)
       PROVE  MadeInv'
  <2>1. CASE StartSucceeds /\ UGoto(u, "idle")
    <3>1. /\ ctr'.snap = ctr.snap /\ (stored' = stored \/ stored'.snap = ctr.snap)
          /\ UNCHANGED <<snapshots, made, old>>
      BY <1>11, <2>1, StartEffect, Zenon DEF StartNew
    <3> QED
      BY <3>1
  <2>2. CASE StartFails /\ UGoto(u, "removeNew")
    BY <1>11, <2>2, StartFailsEffect DEF StartNew
  <2> QED
    BY <1>11, <2>1, <2>2, Zenon DEF StartNew
<1>12. ASSUME NEW u \in Upgraders, RemoveNew(u)
       PROVE  MadeInv'
  BY <1>12, Zenon DEF RemoveNew
<1>13. ASSUME NEW u \in Upgraders, RemoveOld(u)
       PROVE  MadeInv'
  BY <1>13, Zenon DEF RemoveOld
<1>14. ASSUME NEW u \in Upgraders, WriteUpgraded(u)
       PROVE  MadeInv'
  BY <1>14 DEF WriteUpgraded
<1>15. ASSUME NEW u \in Upgraders, RestoreOld(u)
       PROVE  MadeInv'
  BY <1>15, Zenon DEF RestoreOld
<1>16. ASSUME NEW u \in Upgraders, Rollback(u)
       PROVE  MadeInv'
  <2>1. CASE StartSucceeds
    <3>1. /\ ctr'.snap = ctr.snap /\ (stored' = stored \/ stored'.snap = ctr.snap)
          /\ UNCHANGED <<snapshots, made, old>>
      BY <1>16, <2>1, StartEffect, Zenon DEF Rollback
    <3> QED
      BY <3>1
  <2>2. CASE MarkStopped
    <3>1. /\ ctr'.snap = ctr.snap /\ (stored' = stored \/ stored'.snap = ctr.snap)
          /\ UNCHANGED <<snapshots, made, old>>
      BY <1>16, <2>2, StopEffect, Zenon DEF Rollback
    <3> QED
      BY <3>1
  <2> QED
    BY <1>16, <2>1, <2>2, Zenon DEF Rollback
<1>17. CASE UNCHANGED upgradeVars
  BY <1>17, Zenon DEF upgradeVars
<1> QED
  BY <1>1, <1>2, <1>3, <1>4, <1>5, <1>6, <1>7, <1>8, <1>9, <1>10, <1>11, <1>12, <1>13, <1>14,
     <1>15, <1>16, <1>17, ZenonT(60) DEF UpgradeNext

\* An upgrade begins only when there is none.
LEMMA OneUpgradeStep ==
    ASSUME UpType, OneUpgrade, ~On("twoUpgrades"), [UpgradeNext]_upgradeVars
    PROVE  OneUpgrade'
<1> USE DEF UpType, UpgradeTypeOK, OneUpgrade, Idle, UGoto
<1>1. CASE Start
  BY <1>1, Zenon DEF Start, StartSucceeds
<1>2. CASE Stop
  BY <1>2, Zenon DEF Stop, MarkStopped
<1>3. CASE Remove
  BY <1>3, Zenon DEF Remove
<1>4. CASE UpgradeCrash
  BY <1>4, Zenon DEF UpgradeCrash
<1>5. ASSUME NEW u \in Upgraders, NEW i \in Images, Upgrade(u, i)
      PROVE  OneUpgrade'
  BY <1>5, Zenon DEF Upgrade
<1>6. ASSUME NEW u \in Upgraders, MergeImageConfig(u)
      PROVE  OneUpgrade'
  BY <1>6 DEF MergeImageConfig
<1>7. ASSUME NEW u \in Upgraders, CheckRunning(u)
      PROVE  OneUpgrade'
  BY <1>7 DEF CheckRunning
<1>8. ASSUME NEW u \in Upgraders, StopOld(u)
      PROVE  OneUpgrade'
  BY <1>8 DEF StopOld, MarkStopped
<1>9. ASSUME NEW u \in Upgraders, PrepareSnapshot(u)
      PROVE  OneUpgrade'
  BY <1>9 DEF PrepareSnapshot
<1>10. ASSUME NEW u \in Upgraders, InitContainerStorage(u)
       PROVE  OneUpgrade'
  BY <1>10 DEF InitContainerStorage
<1>11. ASSUME NEW u \in Upgraders, StartNew(u)
       PROVE  OneUpgrade'
  BY <1>11 DEF StartNew, StartSucceeds, StartFails, MayNotStart
<1>12. ASSUME NEW u \in Upgraders, RemoveNew(u)
       PROVE  OneUpgrade'
  BY <1>12 DEF RemoveNew
<1>13. ASSUME NEW u \in Upgraders, RemoveOld(u)
       PROVE  OneUpgrade'
  BY <1>13 DEF RemoveOld
<1>14. ASSUME NEW u \in Upgraders, WriteUpgraded(u)
       PROVE  OneUpgrade'
  BY <1>14 DEF WriteUpgraded
<1>15. ASSUME NEW u \in Upgraders, RestoreOld(u)
       PROVE  OneUpgrade'
  BY <1>15 DEF RestoreOld
<1>16. ASSUME NEW u \in Upgraders, Rollback(u)
       PROVE  OneUpgrade'
  BY <1>16, Zenon DEF Rollback, StartSucceeds, MayNotStart, MarkStopped
<1>17. CASE UNCHANGED upgradeVars
  BY <1>17, Zenon DEF upgradeVars
<1> QED
  BY <1>1, <1>2, <1>3, <1>4, <1>5, <1>6, <1>7, <1>8, <1>9, <1>10, <1>11, <1>12, <1>13, <1>14,
     <1>15, <1>16, <1>17, ZenonT(60) DEF UpgradeNext

\* The snapshots that are still needed stay.
LEMMA SnapshotStep ==
    ASSUME UpType, MadeInv, OneUpgrade, SnapshotInv,
           ~On("upgradeCrash"), ~On("twoUpgrades"), [UpgradeNext]_upgradeVars
    PROVE  SnapshotInv'
<1> USE UpgradeAssumption DEF UpType, UpgradeTypeOK, Refs, Ctrs, Ref, UGoto, Idle, MadeInv,
            OneUpgrade, SnapshotInv
<1>1. CASE Start
  BY <1>1 DEF Start, StartSucceeds
<1>2. CASE Stop
  BY <1>2 DEF Stop, MarkStopped
<1>3. CASE Remove
  BY <1>3, Zenon DEF Remove
<1>4. CASE UpgradeCrash
  BY <1>4, Zenon DEF UpgradeCrash
<1>5. ASSUME NEW u \in Upgraders, NEW i \in Images, Upgrade(u, i)
      PROVE  SnapshotInv'
  BY <1>5 DEF Upgrade
<1>6. ASSUME NEW u \in Upgraders, MergeImageConfig(u)
      PROVE  SnapshotInv'
  <2>1. CASE UGoto(u, "isRunning")
    BY <1>6, <2>1 DEF MergeImageConfig
  <2>2. CASE UGoto(u, "restore")
    BY <1>6, <2>2 DEF MergeImageConfig
  <2> QED
    BY <1>6, <2>1, <2>2, Zenon DEF MergeImageConfig
<1>7. ASSUME NEW u \in Upgraders, CheckRunning(u)
      PROVE  SnapshotInv'
  BY <1>7 DEF CheckRunning
<1>8. ASSUME NEW u \in Upgraders, StopOld(u)
      PROVE  SnapshotInv'
  <2>1. CASE ctr.running /\ MarkStopped /\ UGoto(u, "snapshot")
    <3>1. /\ ctr'.dead = ctr.dead /\ ctr'.image = ctr.image /\ upc' = [upc EXCEPT ![u] = "snapshot"]
          /\ UNCHANGED <<snapshots, old, fresh>>
      BY <1>8, <2>1, StopEffect, ZenonT(60) DEF StopOld
    <3>2. \A v \in Upgraders \ {u} : upc'[v] = "idle"
      BY <1>8, <3>1 DEF StopOld
    <3>3. ~ctr.dead => old[u] \in snapshots /\ ctr.image = fresh[u].image
      BY <1>8, Zenon DEF StopOld
    <3> HIDE DEF Ref
    <3> QED
      BY <3>1, <3>2, <3>3
  <2>2. CASE ~ctr.running /\ UNCHANGED <<ctr, stored>>
    BY <1>8, <2>2 DEF StopOld
  <2>3. CASE ctr.running /\ UNCHANGED <<ctr, stored, needRollback>> /\ UGoto(u, "restore")
    BY <1>8, <2>3 DEF StopOld
  <2>4. CASE ctr.running /\ MarkStopped /\ UNCHANGED needRollback /\ UGoto(u, "restore")
    <3>1. /\ ctr'.dead = ctr.dead /\ upc' = [upc EXCEPT ![u] = "restore"]
          /\ UNCHANGED <<snapshots, old, fresh>>
      BY <1>8, <2>4, StopEffect, ZenonT(60) DEF StopOld
    <3>2. \A v \in Upgraders \ {u} : upc'[v] = "idle"
      BY <1>8, <3>1 DEF StopOld
    <3>3. ~ctr.dead => old[u] \in snapshots
      BY <1>8, Zenon DEF StopOld
    <3> HIDE DEF Ref
    <3> QED
      BY <3>1, <3>2, <3>3
  <2> QED
    BY <1>8, <2>1, <2>2, <2>3, <2>4, Zenon DEF StopOld
<1>9. ASSUME NEW u \in Upgraders, PrepareSnapshot(u)
      PROVE  SnapshotInv'
  BY <1>9 DEF PrepareSnapshot
<1>10. ASSUME NEW u \in Upgraders, InitContainerStorage(u)
       PROVE  SnapshotInv'
  BY <1>10 DEF InitContainerStorage
<1>11. ASSUME NEW u \in Upgraders, StartNew(u)
       PROVE  SnapshotInv'
  <2>1. CASE StartSucceeds /\ UGoto(u, "idle")
    <3>1. ctr'.dead = ctr.dead /\ Ref(ctr)' = Ref(ctr) /\ snapshots' = snapshots
      BY <1>11, <2>1, StartEffect, Zenon DEF StartNew
    <3>2. \A v \in Upgraders : upc'[v] = "idle"
      BY <1>11, <2>1 DEF StartNew
    <3>3. ~ctr.dead => Ref(ctr) \in snapshots
      BY <1>11 DEF StartNew
    <3> HIDE DEF Ref
    <3> QED
      BY <3>1, <3>2, <3>3, Zenon
  <2>2. CASE StartFails /\ UGoto(u, "removeNew")
    BY <1>11, <2>2, StartFailsEffect DEF StartNew
  <2> QED
    BY <1>11, <2>1, <2>2, Zenon DEF StartNew
<1>12. ASSUME NEW u \in Upgraders, RemoveNew(u)
       PROVE  SnapshotInv'
  BY <1>12 DEF RemoveNew
<1>13. ASSUME NEW u \in Upgraders, RemoveOld(u)
       PROVE  SnapshotInv'
  BY <1>13 DEF RemoveOld
<1>14. ASSUME NEW u \in Upgraders, WriteUpgraded(u)
       PROVE  SnapshotInv'
  BY <1>14 DEF WriteUpgraded
<1>15. ASSUME NEW u \in Upgraders, RestoreOld(u)
       PROVE  SnapshotInv'
  BY <1>15 DEF RestoreOld
<1>16. ASSUME NEW u \in Upgraders, Rollback(u)
       PROVE  SnapshotInv'
  <2>1. CASE StartSucceeds
    <3>1. ctr'.dead = ctr.dead /\ Ref(ctr)' = Ref(ctr) /\ snapshots' = snapshots
      BY <1>16, <2>1, StartEffect, Zenon DEF Rollback
    <3>2. \A v \in Upgraders : upc'[v] = "idle"
      BY <1>16, <2>1, Zenon DEF Rollback
    <3>3. ~ctr.dead => Ref(ctr) \in snapshots
      BY <1>16 DEF Rollback
    <3> HIDE DEF Ref
    <3> QED
      BY <3>1, <3>2, <3>3
  <2>2. CASE MarkStopped
    <3>1. ctr'.dead = ctr.dead /\ Ref(ctr)' = Ref(ctr) /\ snapshots' = snapshots
      BY <1>16, <2>2, StopEffect, Zenon DEF Rollback
    <3>2. \A v \in Upgraders : upc'[v] = "idle"
      BY <1>16, <2>2, Zenon DEF Rollback
    <3>3. ~ctr.dead => Ref(ctr) \in snapshots
      BY <1>16 DEF Rollback
    <3> HIDE DEF Ref
    <3> QED
      BY <3>1, <3>2, <3>3
  <2> QED
    BY <1>16, <2>1, <2>2, Zenon DEF Rollback
<1>17. CASE UNCHANGED upgradeVars
  BY <1>17 DEF upgradeVars
<1> QED
  BY <1>1, <1>2, <1>3, <1>4, <1>5, <1>6, <1>7, <1>8, <1>9, <1>10, <1>11, <1>12, <1>13, <1>14,
     <1>15, <1>16, <1>17, Zenon DEF UpgradeNext

\* The snapshot in meta.json follows that of the container.
LEMMA StoredSnapStep ==
    ASSUME UpType, OneUpgrade, StoredSnapInv,
           ~On("writeFails"), ~On("upgradeOverlap"), ~On("twoUpgrades"), [UpgradeNext]_upgradeVars
    PROVE  StoredSnapInv'
<1> USE UpgradeAssumption DEF UpType, UpgradeTypeOK, Refs, Ctrs, Ref, UGoto, Idle, Quiet, NoMeta, OneUpgrade,
            StoredSnapInv
<1>1. CASE Start
  BY <1>1, Zenon DEF Start, StartSucceeds
<1>2. CASE Stop
  BY <1>2, Zenon DEF Stop, MarkStopped
<1>3. CASE Remove
  BY <1>3, Zenon DEF Remove
<1>4. CASE UpgradeCrash
  BY <1>4, Zenon DEF UpgradeCrash
<1>5. ASSUME NEW u \in Upgraders, NEW i \in Images, Upgrade(u, i)
      PROVE  StoredSnapInv'
  BY <1>5 DEF Upgrade
<1>6. ASSUME NEW u \in Upgraders, MergeImageConfig(u)
      PROVE  StoredSnapInv'
  <2>1. CASE UGoto(u, "isRunning")
    <3>1. /\ UNCHANGED <<stored, cached, old, needRollback>> /\ upc[u] = "merge"
          /\ upc' = [upc EXCEPT ![u] = "isRunning"]
      BY <1>6, <2>1, Zenon DEF MergeImageConfig
    <3>2. ctr'.dead = ctr.dead /\ ctr'.snap = ctr.snap
      BY <1>6, Zenon DEF MergeImageConfig
    <3>3. \A v \in Upgraders : v # u => upc[v] = "idle" /\ upc'[v] = "idle"
      BY <3>1, Zenon
    <3>4. upc'[u] = "isRunning"
      BY <3>1
    <3> HIDE DEF Ref, Refs
    <3> QED
      BY <3>1, <3>2, <3>3, <3>4
  <2>2. CASE UGoto(u, "restore")
    BY <1>6, <2>2 DEF MergeImageConfig
  <2> QED
    BY <1>6, <2>1, <2>2, Zenon DEF MergeImageConfig
<1>7. ASSUME NEW u \in Upgraders, CheckRunning(u)
      PROVE  StoredSnapInv'
  BY <1>7 DEF CheckRunning
<1>8. ASSUME NEW u \in Upgraders, StopOld(u)
      PROVE  StoredSnapInv'
  <2>1. CASE ctr.running /\ MarkStopped /\ UGoto(u, "snapshot")
    <3>1. /\ UNCHANGED <<cached, old>> /\ upc[u] = "stop"
          /\ needRollback' = [needRollback EXCEPT ![u] = TRUE]
          /\ upc' = [upc EXCEPT ![u] = "snapshot"]
      BY <1>8, <2>1, Zenon DEF StopOld
    <3>2. \A v \in Upgraders : v # u => upc[v] = "idle" /\ upc'[v] = "idle"
      BY <3>1, Zenon
    <3>3. upc'[u] = "snapshot" /\ needRollback'[u]
      BY <3>1
    <3>4. ctr'.dead = ctr.dead /\ (~ctr.dead => stored' \in Refs)
      BY <2>1, StopEffect, Zenon
    <3> HIDE DEF Ref, Refs
    <3> QED
      BY <3>1, <3>2, <3>3, <3>4
  <2>2. CASE ~ctr.running /\ UNCHANGED <<ctr, stored>>
    <3>1. /\ UNCHANGED <<cached, old>> /\ upc[u] = "stop"
          /\ needRollback' = [needRollback EXCEPT ![u] = TRUE]
          /\ upc' = [upc EXCEPT ![u] = "snapshot"]
      BY <1>8, <2>2, Zenon DEF StopOld
    <3>2. \A v \in Upgraders : v # u => upc[v] = "idle" /\ upc'[v] = "idle"
      BY <3>1
    <3>3. upc'[u] = "snapshot" /\ needRollback'[u]
      BY <3>1
    <3> QED
      BY <2>2, <3>1, <3>2, <3>3
  <2>3. CASE ctr.running /\ UNCHANGED <<ctr, stored, needRollback>> /\ UGoto(u, "restore")
    BY <1>8, <2>3 DEF StopOld
  <2>4. CASE ctr.running /\ MarkStopped /\ UNCHANGED needRollback /\ UGoto(u, "restore")
    <3>1. /\ UNCHANGED <<cached, old, needRollback>> /\ upc[u] = "stop" /\ cached
          /\ upc' = [upc EXCEPT ![u] = "restore"]
      BY <1>8, <2>4, Zenon DEF StopOld
    <3>2. \A v \in Upgraders : v # u => upc[v] = "idle" /\ upc'[v] = "idle"
      BY <3>1, Zenon
    <3>3. upc'[u] = "restore"
      BY <3>1
    <3>4. ctr'.dead = ctr.dead /\ stored' \in Refs /\ stored'.snap = ctr.snap
      BY <2>4, <3>1, StopEffect, Zenon
    <3>5. ctr.snap = old[u].snap
      BY <3>1, Zenon
    <3> HIDE DEF Ref, Refs
    <3> QED
      BY <3>1, <3>2, <3>3, <3>4, <3>5
  <2> QED
    BY <1>8, <2>1, <2>2, <2>3, <2>4, Zenon DEF StopOld
<1>9. ASSUME NEW u \in Upgraders, PrepareSnapshot(u)
      PROVE  StoredSnapInv'
  <2>1. CASE UGoto(u, "storage")
    BY <1>9, <2>1, ZenonT(60) DEF PrepareSnapshot
  <2>2. CASE UGoto(u, "restore")
    BY <1>9, <2>2 DEF PrepareSnapshot
  <2> QED
    BY <1>9, <2>1, <2>2, Zenon DEF PrepareSnapshot
<1>10. ASSUME NEW u \in Upgraders, InitContainerStorage(u)
       PROVE  StoredSnapInv'
  BY <1>10 DEF InitContainerStorage
<1>11. ASSUME NEW u \in Upgraders, StartNew(u)
       PROVE  StoredSnapInv'
  <2>1. CASE StartSucceeds /\ UGoto(u, "idle")
    BY <1>11, <2>1, StartEffect, ZenonT(60) DEF StartNew
  <2>2. CASE StartFails /\ UGoto(u, "removeNew")
    BY <1>11, <2>2, StartFailsEffect DEF StartNew
  <2> QED
    BY <1>11, <2>1, <2>2, Zenon DEF StartNew
<1>12. ASSUME NEW u \in Upgraders, RemoveNew(u)
       PROVE  StoredSnapInv'
  BY <1>12 DEF RemoveNew
<1>13. ASSUME NEW u \in Upgraders, RemoveOld(u)
       PROVE  StoredSnapInv'
  BY <1>13 DEF RemoveOld
<1>14. ASSUME NEW u \in Upgraders, WriteUpgraded(u)
       PROVE  StoredSnapInv'
  BY <1>14 DEF WriteUpgraded
<1>15. ASSUME NEW u \in Upgraders, RestoreOld(u)
       PROVE  StoredSnapInv'
  BY <1>15 DEF RestoreOld
<1>16. ASSUME NEW u \in Upgraders, Rollback(u)
       PROVE  StoredSnapInv'
  <2>1. CASE StartSucceeds
    BY <1>16, <2>1, StartEffect, ZenonT(60) DEF Rollback
  <2>2. CASE MarkStopped
    <3>1. /\ UNCHANGED <<cached, old, needRollback>> /\ upc[u] = "rollback" /\ cached
          /\ upc' = [upc EXCEPT ![u] = "idle"]
      BY <1>16, <2>2, Zenon DEF Rollback
    <3>2. \A v \in Upgraders : upc'[v] = "idle"
      BY <3>1, Zenon
    <3>3. /\ ctr'.dead = ctr.dead /\ ctr'.snap = ctr.snap
          /\ stored' \in Refs /\ stored'.snap = ctr.snap
      BY <2>2, <3>1, StopEffect, Zenon
    <3> HIDE DEF Ref, Refs
    <3> QED
      BY <3>1, <3>2, <3>3
  <2> QED
    BY <1>16, <2>1, <2>2, Zenon DEF Rollback
<1>17. CASE UNCHANGED upgradeVars
  BY <1>17, Zenon DEF upgradeVars
<1> QED
  BY <1>1, <1>2, <1>3, <1>4, <1>5, <1>6, <1>7, <1>8, <1>9, <1>10, <1>11, <1>12, <1>13, <1>14,
     <1>15, <1>16, <1>17, ZenonT(60) DEF UpgradeNext

\* meta.json follows the container.
LEMMA StoredStep ==
    ASSUME UpType, OneUpgrade, StoredInv,
           ~On("writeFails"), ~On("upgradeOverlap"), ~On("twoUpgrades"), ~On("releaseFails"),
           [UpgradeNext]_upgradeVars
    PROVE  StoredInv'
<1> USE DEF UpType, UpgradeTypeOK, Refs, Ctrs, Ref, UGoto, Idle, Quiet, NoMeta, OneUpgrade,
            StoredInv
<1>1. CASE Start
  BY <1>1, Zenon DEF Start, StartSucceeds
<1>2. CASE Stop
  BY <1>2, Zenon DEF Stop, MarkStopped
<1>3. CASE Remove
  BY <1>3, Zenon DEF Remove
<1>4. CASE UpgradeCrash
  BY <1>4, Zenon DEF UpgradeCrash
<1>5. ASSUME NEW u \in Upgraders, NEW i \in Images, Upgrade(u, i)
      PROVE  StoredInv'
  BY <1>5 DEF Upgrade
<1>6. ASSUME NEW u \in Upgraders, MergeImageConfig(u)
      PROVE  StoredInv'
  <2>1. CASE UGoto(u, "isRunning")
    BY <1>6, <2>1, ZenonT(60) DEF MergeImageConfig
  <2>2. CASE UGoto(u, "restore")
    BY <1>6, <2>2 DEF MergeImageConfig
  <2> QED
    BY <1>6, <2>1, <2>2, Zenon DEF MergeImageConfig
<1>7. ASSUME NEW u \in Upgraders, CheckRunning(u)
      PROVE  StoredInv'
  BY <1>7 DEF CheckRunning
<1>8. ASSUME NEW u \in Upgraders, StopOld(u)
      PROVE  StoredInv'
  <2>1. CASE ctr.running /\ MarkStopped /\ UGoto(u, "snapshot")
    <3>1. /\ UNCHANGED <<cached, old>> /\ upc[u] = "stop"
          /\ needRollback' = [needRollback EXCEPT ![u] = TRUE]
          /\ upc' = [upc EXCEPT ![u] = "snapshot"]
      BY <1>8, <2>1, Zenon DEF StopOld
    <3>2. \A v \in Upgraders : v # u => upc[v] = "idle" /\ upc'[v] = "idle"
      BY <3>1, Zenon
    <3>3. upc'[u] = "snapshot" /\ needRollback'[u]
      BY <3>1
    <3>4. ctr'.dead = ctr.dead
      BY <2>1, StopEffect, Zenon
    <3> QED
      BY <3>1, <3>2, <3>3, <3>4
  <2>2. CASE ~ctr.running /\ UNCHANGED <<ctr, stored>>
    <3>1. /\ UNCHANGED <<cached, old>> /\ upc[u] = "stop"
          /\ needRollback' = [needRollback EXCEPT ![u] = TRUE]
          /\ upc' = [upc EXCEPT ![u] = "snapshot"]
      BY <1>8, <2>2, Zenon DEF StopOld
    <3>2. \A v \in Upgraders : v # u => upc[v] = "idle" /\ upc'[v] = "idle"
      BY <3>1
    <3>3. upc'[u] = "snapshot" /\ needRollback'[u]
      BY <3>1
    <3> QED
      BY <2>2, <3>1, <3>2, <3>3
  <2>3. CASE ctr.running /\ UNCHANGED <<ctr, stored, needRollback>> /\ UGoto(u, "restore")
    BY <1>8, <2>3 DEF StopOld
  <2> QED
    BY <1>8, <2>1, <2>2, <2>3, Zenon DEF StopOld
<1>9. ASSUME NEW u \in Upgraders, PrepareSnapshot(u)
      PROVE  StoredInv'
  <2>1. CASE UGoto(u, "storage")
    BY <1>9, <2>1, ZenonT(60) DEF PrepareSnapshot
  <2>2. CASE UGoto(u, "restore")
    BY <1>9, <2>2 DEF PrepareSnapshot
  <2> QED
    BY <1>9, <2>1, <2>2, Zenon DEF PrepareSnapshot
<1>10. ASSUME NEW u \in Upgraders, InitContainerStorage(u)
       PROVE  StoredInv'
  BY <1>10 DEF InitContainerStorage
<1>11. ASSUME NEW u \in Upgraders, StartNew(u)
       PROVE  StoredInv'
  <2>1. CASE StartSucceeds /\ UGoto(u, "idle")
    BY <1>11, <2>1, StartEffect, ZenonT(60) DEF StartNew
  <2>2. CASE StartFails /\ UGoto(u, "removeNew")
    BY <1>11, <2>2, StartFailsEffect DEF StartNew
  <2> QED
    BY <1>11, <2>1, <2>2, Zenon DEF StartNew
<1>12. ASSUME NEW u \in Upgraders, RemoveNew(u)
       PROVE  StoredInv'
  BY <1>12 DEF RemoveNew
<1>13. ASSUME NEW u \in Upgraders, RemoveOld(u)
       PROVE  StoredInv'
  BY <1>13 DEF RemoveOld
<1>14. ASSUME NEW u \in Upgraders, WriteUpgraded(u)
       PROVE  StoredInv'
  BY <1>14 DEF WriteUpgraded
<1>15. ASSUME NEW u \in Upgraders, RestoreOld(u)
       PROVE  StoredInv'
  BY <1>15 DEF RestoreOld
<1>16. ASSUME NEW u \in Upgraders, Rollback(u)
       PROVE  StoredInv'
  <2>1. CASE StartSucceeds
    BY <1>16, <2>1, StartEffect, ZenonT(60) DEF Rollback
  <2>2. CASE MarkStopped
    BY <1>16, <2>2, StopEffect, ZenonT(60) DEF Rollback
  <2> QED
    BY <1>16, <2>1, <2>2, Zenon DEF Rollback
<1>17. CASE UNCHANGED upgradeVars
  BY <1>17, Zenon DEF upgradeVars
<1> QED
  BY <1>1, <1>2, <1>3, <1>4, <1>5, <1>6, <1>7, <1>8, <1>9, <1>10, <1>11, <1>12, <1>13, <1>14,
     <1>15, <1>16, <1>17, ZenonT(60) DEF UpgradeNext

\* No snapshot goes under a container that runs.
LEMMA RootStep ==
    ASSUME UpType, OneUpgrade, RootInv,
           ~On("upgradeOverlap"), ~On("twoUpgrades"), [UpgradeNext]_upgradeVars
    PROVE  RootInv'
<1> USE DEF UpType, UpgradeTypeOK, Refs, Ctrs, UGoto, Idle, Quiet, HasSnapshot, OneUpgrade,
            RootInv
<1>1. CASE Start
  BY <1>1, Zenon DEF Start, StartSucceeds
<1>2. CASE Stop
  BY <1>2, Zenon DEF Stop, MarkStopped
<1>3. CASE Remove
  BY <1>3, Zenon DEF Remove
<1>4. CASE UpgradeCrash
  BY <1>4, Zenon DEF UpgradeCrash
<1>5. ASSUME NEW u \in Upgraders, NEW i \in Images, Upgrade(u, i)
      PROVE  RootInv'
  BY <1>5, Zenon DEF Upgrade
<1>6. ASSUME NEW u \in Upgraders, MergeImageConfig(u)
      PROVE  RootInv'
  BY <1>6 DEF MergeImageConfig
<1>7. ASSUME NEW u \in Upgraders, CheckRunning(u)
      PROVE  RootInv'
  BY <1>7 DEF CheckRunning
<1>8. ASSUME NEW u \in Upgraders, StopOld(u)
      PROVE  RootInv'
  <2>1. CASE ctr.running /\ MarkStopped /\ UGoto(u, "snapshot")
    BY <1>8, <2>1, StopEffect, ZenonT(60) DEF StopOld
  <2>2. CASE ~ctr.running /\ UNCHANGED <<ctr, stored>>
    BY <1>8, <2>2 DEF StopOld
  <2>3. CASE ctr.running /\ UNCHANGED <<ctr, stored, needRollback>> /\ UGoto(u, "restore")
    BY <1>8, <2>3 DEF StopOld
  <2>4. CASE ctr.running /\ MarkStopped /\ UNCHANGED needRollback /\ UGoto(u, "restore")
    BY <1>8, <2>4, StopEffect, ZenonT(60) DEF StopOld
  <2> QED
    BY <1>8, <2>1, <2>2, <2>3, <2>4, Zenon DEF StopOld
<1>9. ASSUME NEW u \in Upgraders, PrepareSnapshot(u)
      PROVE  RootInv'
  BY <1>9 DEF PrepareSnapshot
<1>10. ASSUME NEW u \in Upgraders, InitContainerStorage(u)
       PROVE  RootInv'
  BY <1>10 DEF InitContainerStorage
<1>11. ASSUME NEW u \in Upgraders, StartNew(u)
       PROVE  RootInv'
  <2>1. CASE StartSucceeds /\ UGoto(u, "idle")
    BY <1>11, <2>1, StartEffect, ZenonT(60) DEF StartNew
  <2>2. CASE StartFails /\ UGoto(u, "removeNew")
    BY <1>11, <2>2, StartFailsEffect DEF StartNew
  <2> QED
    BY <1>11, <2>1, <2>2, Zenon DEF StartNew
<1>12. ASSUME NEW u \in Upgraders, RemoveNew(u)
       PROVE  RootInv'
  BY <1>12 DEF RemoveNew
<1>13. ASSUME NEW u \in Upgraders, RemoveOld(u)
       PROVE  RootInv'
  BY <1>13 DEF RemoveOld
<1>14. ASSUME NEW u \in Upgraders, WriteUpgraded(u)
       PROVE  RootInv'
  BY <1>14 DEF WriteUpgraded
<1>15. ASSUME NEW u \in Upgraders, RestoreOld(u)
       PROVE  RootInv'
  BY <1>15 DEF RestoreOld
<1>16. ASSUME NEW u \in Upgraders, Rollback(u)
       PROVE  RootInv'
  <2>1. CASE StartSucceeds
    BY <1>16, <2>1, StartEffect, ZenonT(60) DEF Rollback
  <2>2. CASE MarkStopped
    BY <1>16, <2>2, StopEffect, ZenonT(60) DEF Rollback
  <2> QED
    BY <1>16, <2>1, <2>2, Zenon DEF Rollback
<1>17. CASE UNCHANGED upgradeVars
  BY <1>17, Zenon DEF upgradeVars
<1> QED
  BY <1>1, <1>2, <1>3, <1>4, <1>5, <1>6, <1>7, <1>8, <1>9, <1>10, <1>11, <1>12, <1>13, <1>14,
     <1>15, <1>16, <1>17, ZenonT(60) DEF UpgradeNext

\* Whatever step of an upgrade fails, and however it is interleaved with a start,
\* a stop or a removal, or cut off by a crash of the daemon: an upgrade is done as
\* a whole or not at all, but for the cases the parts of UpgradeIsWhole name (a
\* stop that fails in its release leaves the new image on disk, for one).
THEOREM UpgradeStaysWhole == UpgradeSpec => []UpgradeIsWhole
<1>1. UpgradeInit => UpInv
  <2> SUFFICES ASSUME UpgradeInit
               PROVE  UpInv
    BY Zenon
  <2>1. stored.image \in Images /\ stored \in Refs
    BY UpgradeAssumption DEF UpgradeInit, Refs
  <2>2. UpType
    BY <2>1, UpgradeAssumption, Zenon DEF UpgradeInit, UpType, UpgradeTypeOK, Refs, Ctrs, Ref
  <2>3. MadeInv /\ OneUpgrade
    BY <2>1 DEF UpgradeInit, MadeInv, OneUpgrade, Refs
  <2>4. Ref(ctr) = stored
    BY <2>1, Zenon DEF UpgradeInit, Ref, Refs
  <2>5. SnapshotInv /\ StoredSnapInv /\ StoredInv /\ RootInv
    BY <2>1, <2>4 DEF UpgradeInit, SnapshotInv, StoredSnapInv, StoredInv, RootInv, HasSnapshot
  <2> QED
    BY <2>2, <2>3, <2>5, Zenon DEF UpInv
<1>2. UpInv /\ [UpgradeNext /\ UNCHANGED cases]_<<upgradeVars, cases>> => UpInv'
  <2> SUFFICES ASSUME UpInv, [UpgradeNext /\ UNCHANGED cases]_<<upgradeVars, cases>>
               PROVE  UpInv'
    BY Zenon
  <2>1. [UpgradeNext]_upgradeVars /\ cases' = cases
    BY Zenon
  <2>2. /\ NoneOf({"upgradeCrash", "twoUpgrades"}) => ~On("upgradeCrash") /\ ~On("twoUpgrades")
        /\ NoneOf({"upgradeOverlap", "twoUpgrades"}) => ~On("upgradeOverlap") /\ ~On("twoUpgrades")
        /\ NoneOf({"writeFails", "upgradeOverlap", "twoUpgrades"}) =>
              ~On("writeFails") /\ ~On("upgradeOverlap") /\ ~On("twoUpgrades")
    BY Zenon DEF NoneOf, On
  <2>3. UpType' /\ MadeInv' /\ (~On("twoUpgrades") => OneUpgrade')
    BY <2>1, UpTypeStep, MadeStep, OneUpgradeStep, Zenon DEF UpInv
  <2>4. NoneOf({"upgradeCrash", "twoUpgrades"}) => SnapshotInv'
    BY <2>1, <2>2, SnapshotStep, Zenon DEF UpInv
  <2>5. NoneOf({"writeFails", "upgradeOverlap", "twoUpgrades"}) =>
           StoredSnapInv' /\ (~On("releaseFails") => StoredInv')
    BY <2>1, <2>2, StoredSnapStep, StoredStep, Zenon DEF UpInv
  <2>6. NoneOf({"upgradeOverlap", "twoUpgrades"}) => RootInv'
    BY <2>1, <2>2, RootStep, Zenon DEF UpInv
  <2> QED
    BY <2>1, <2>3, <2>4, <2>5, <2>6, Zenon DEF UpInv, NoneOf, On
<1>3. UpInv => UpgradeIsWhole
  <2> SUFFICES ASSUME UpInv
               PROVE  UpgradeIsWhole
    BY Zenon
  <2>1. UpgradeTypeOK /\ SnapshotIsOfImage /\ RootIsKept
    BY Zenon DEF UpInv, UpType, SnapshotInv, RootInv, SnapshotIsOfImage, RootIsKept
  <2>2. ASSUME Idle, ~ctr.dead, NoneOf({"writeFails", "upgradeOverlap", "twoUpgrades"})
        PROVE  stored \in Refs /\ stored.snap = ctr.snap
    BY <2>2, Zenon DEF UpInv, StoredSnapInv
  <2>3. ASSUME Idle, ~ctr.dead, NoneOf({"writeFails", "upgradeOverlap", "twoUpgrades"}),
               ~On("releaseFails")
        PROVE  stored.image = ctr.image
    <3>1. stored = Ref(ctr)
      BY <2>3, Zenon DEF UpInv, StoredInv
    <3> QED
      BY <3>1, Zenon DEF Ref
  <2>4. StoredIsUpgraded
    BY <2>2, <2>3 DEF StoredIsUpgraded, Refs
  <2> QED
    BY <2>1, <2>4, Zenon DEF UpgradeIsWhole
<1> QED
  BY <1>1, <1>2, <1>3, PTL DEF UpgradeSpec
=============================================================================
