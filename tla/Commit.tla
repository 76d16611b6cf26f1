------------------------------- MODULE Commit -------------------------------
(***************************************************************************)
(* Images committed from containers: daemon/mgr/container_commit.go on top *)
(* of ctrd/image_commit.go, beside the garbage collector of containerd.    *)
(*                                                                         *)
(* Content is named by its digest.  The layer of a commit is what the      *)
(* container has changed, so equal changes give equal layers, and since    *)
(* the containers have one parent image the layer also names the snapshot  *)
(* (the chain id).  The config and the manifest hold the time, so they are *)
(* those of one commit and are named by it.                                *)
(***************************************************************************)
EXTENDS Naturals, FiniteSets, Scenario

CONSTANTS
    Commits,    \* requests to commit
    Boxes,      \* containers of one image
    Targets,    \* references to commit to
    Changes     \* what a container may have changed

(* The cases: "same" two commits may find equal changes, in one container  *)
(* or two; "sameRef" they may have the same reference; "twoAtOnce" they    *)
(* overlap; "commitFails" a call to containerd or a write of meta.json may *)
(* fail; "removes" committed images are removed; "commitCrash" the daemon  *)
(* dies.                                                                   *)

NoCommit == "none"
NoLayer == <<>>
TornLayer == <<"torn">>   \* a diff of files that changed while it was made

VARIABLES
    commit,   \* per commit: where it is and what it has found out
    box,      \* per container: its changes, its state, the holder of its lock
    blobs,    \* content store of containerd
    snaps,    \* committed snapshots, by layer
    temps,    \* views and active snapshots that commits made
    lease,    \* per commit: what its lease protects
    target,   \* per reference: the commit whose manifest its image is
    pinned,   \* commits whose manifest has a reference by digest
    local     \* per reference: the commit whose image the image manager shows

commitVars == <<commit, box, blobs, snaps, temps, lease, target, pinned, local>>
ctrdVars == <<blobs, snaps, temps, lease, target, pinned>>

LayersOf(b) == (IF On("same") THEN {"any"} ELSE {b}) \X Changes

Layer(l) == <<"layer", l>>
Snapshot(l) == <<"snapshot", l>>
Manifest(k) == <<"manifest", k>>
ImageConfig(k) == <<"config", k>>
View(k) == <<"view", k>>
Active(k) == <<"active", k>>

AtStep(k, step) == commit[k].at = step
Ended(k) == commit[k].at \in {"ok", "failed", "crashed"}
Leave(k, step) == commit' = [commit EXCEPT ![k].at = step]

\* Any call may fail; the deferred functions then run.
FailTo(k, step) == On("commitFails") /\ Leave(k, step)

\* The commit's content is there, as Config and Size of an image need it.
HasContent(k) == {Manifest(k), ImageConfig(k), Layer(commit[k].layer)} \subseteq blobs

-----------------------------------------------------------------------------
(* ContainerManager.Commit, under the lock of the container *)

MutantNoPause(k, b, r) ==
    /\ AtStep(k, "idle") /\ box[b].lock = NoCommit
    /\ On("twoAtOnce") \/ \A j \in Commits : AtStep(j, "idle") \/ Ended(j)
    /\ \A j \in Commits : (On("sameRef") \/ commit[j].ref # r) /\ (On("same") \/ commit[j].box # b)
    /\ commit' = [commit EXCEPT ![k] = [@ EXCEPT !.at = "export", !.box = b, !.ref = r]]
    /\ box' = [box EXCEPT ![b].lock = k]
    /\ UNCHANGED <<ctrdVars, local>>

\* A running container is paused, and resumed at the end.  If meta.json cannot
\* be written it stays paused.  The image of the container is looked up.
CommitContainer(k, b, r) ==
    /\ AtStep(k, "idle") /\ box[b].lock = NoCommit
    /\ On("twoAtOnce") \/ \A j \in Commits : AtStep(j, "idle") \/ Ended(j)
    /\ \A j \in Commits : (On("sameRef") \/ commit[j].ref # r) /\ (On("same") \/ commit[j].box # b)
    /\ LET running == box[b].state = "running"
           at(step) == commit' = [commit EXCEPT ![k] =
               [@ EXCEPT !.at = step, !.box = b, !.ref = r, !.resume = running]]
           held == IF running THEN [box[b] EXCEPT !.state = "paused", !.lock = k]
                              ELSE [box[b] EXCEPT !.lock = k]
       IN  \/ at("export") /\ box' = [box EXCEPT ![b] = held]
           \/ On("commitFails") /\ at("resume") /\ box' = [box EXCEPT ![b] = held]
           \/ /\ On("commitFails") /\ running /\ at("failed")
              /\ box' = [box EXCEPT ![b].state = "paused"]
    /\ UNCHANGED <<ctrdVars, local>>

\* Client.Commit: a lease is made, and a view of the parent snapshot in it.
ExportLayer(k) ==
    /\ AtStep(k, "export")
    /\ \/ /\ temps' = temps \cup {View(k)}
          /\ lease' = [lease EXCEPT ![k] = {View(k)}]
          /\ commit' = [commit EXCEPT ![k].at = "diff", ![k].layer = box[commit[k].box].layer]
       \/ FailTo(k, "release") /\ UNCHANGED <<temps, lease>>
    /\ UNCHANGED <<box, blobs, snaps, target, pinned, local>>

\* The layer is the difference of the two snapshots; the view is removed, which
\* may fail.
CreateDiff(k) ==
    /\ AtStep(k, "diff")
    /\ \E l \in {IF box[commit[k].box].layer = commit[k].layer THEN commit[k].layer ELSE TornLayer} :
          \/ /\ commit' = [commit EXCEPT ![k].at = "prepare", ![k].layer = l]
             /\ blobs' = blobs \cup {Layer(l)}
             /\ lease' = [lease EXCEPT ![k] = @ \cup {Layer(l)}]
          \/ FailTo(k, "release") /\ UNCHANGED <<blobs, lease>>
    /\ \/ temps' = temps \ {View(k)}
       \/ On("commitFails") /\ UNCHANGED temps
    /\ UNCHANGED <<box, snaps, target, pinned, local>>

\* newSnapshot: an active snapshot is prepared and the layer applied to it.
PrepareSnapshot(k) ==
    /\ AtStep(k, "prepare")
    /\ \/ /\ temps' = temps \cup {Active(k)}
          /\ lease' = [lease EXCEPT ![k] = @ \cup {Active(k)}]
          /\ Leave(k, "snapshot") \/ FailTo(k, "release")
       \/ FailTo(k, "release") /\ UNCHANGED <<temps, lease>>
    /\ UNCHANGED <<box, blobs, snaps, target, pinned, local>>

\* ... and committed under the chain id.  A snapshot that exists is taken as it
\* is, outside of the lease.
CommitSnapshot(k) ==
    /\ AtStep(k, "snapshot")
    /\ LET l == commit[k].layer IN
       \/ /\ temps' = temps \ {Active(k)} /\ snaps' = snaps \cup {l}
          /\ lease' = [lease EXCEPT ![k] = IF l \in snaps THEN @ ELSE @ \cup {Snapshot(l)}]
          /\ Leave(k, "register")
       \/ FailTo(k, "release") /\ UNCHANGED <<temps, snaps, lease>>
    /\ UNCHANGED <<box, blobs, target, pinned, local>>

\* The image record is made, or changed, before its content is written.
RegisterImage(k) ==
    /\ AtStep(k, "register")
    /\ \/ target' = [target EXCEPT ![commit[k].ref] = k] /\ Leave(k, "manifest")
       \/ FailTo(k, "undo") /\ UNCHANGED target
    /\ UNCHANGED <<box, blobs, snaps, temps, lease, pinned, local>>

WriteManifest(k) ==
    /\ AtStep(k, "manifest")
    /\ \/ /\ blobs' = blobs \cup {Manifest(k)}
          /\ lease' = [lease EXCEPT ![k] = @ \cup {Manifest(k)}] /\ Leave(k, "config")
       \/ FailTo(k, "undo") /\ UNCHANGED <<blobs, lease>>
    /\ UNCHANGED <<box, snaps, temps, target, pinned, local>>

WriteConfig(k) ==
    /\ AtStep(k, "config")
    /\ \/ /\ blobs' = blobs \cup {ImageConfig(k)}
          /\ lease' = [lease EXCEPT ![k] = @ \cup {ImageConfig(k)}]
          /\ commit' = [commit EXCEPT ![k].at = "release", ![k].whole = TRUE]
       \/ FailTo(k, "undo") /\ UNCHANGED <<blobs, lease>>
    /\ UNCHANGED <<box, snaps, temps, target, pinned, local>>

\* After an error the snapshot of the new layer is removed; that error is lost.
RemoveNewSnapshot(k) ==
    /\ AtStep(k, "undo") /\ Leave(k, "release")
    /\ snaps' \in {snaps, snaps \ {commit[k].layer}}
    /\ UNCHANGED <<box, blobs, temps, lease, target, pinned, local>>

ReleaseLease(k) ==
    /\ AtStep(k, "release")
    /\ lease' = [lease EXCEPT ![k] = {}]
    /\ Leave(k, IF commit[k].whole THEN "lookup" ELSE "resume")
    /\ UNCHANGED <<box, blobs, snaps, temps, target, pinned, local>>

\* The image is asked for by its reference, which may have moved on or be gone.
GetNewImage(k) ==
    /\ AtStep(k, "lookup")
    /\ LET j == target[commit[k].ref] IN
       \/ /\ j # NoCommit
          /\ commit' = [commit EXCEPT ![k].at = "store", ![k].found = j]
       \/ j = NoCommit /\ commit' = [commit EXCEPT ![k].at = "resume", ![k].whole = FALSE]
       \/ On("commitFails") /\ commit' = [commit EXCEPT ![k].at = "resume", ![k].whole = FALSE]
    /\ UNCHANGED <<box, ctrdVars, local>>

\* StoreImageReference, which also makes a reference by digest; an error is
\* ignored.
StoreCommitted(k) ==
    /\ AtStep(k, "store") /\ Leave(k, "resume")
    /\ LET j == commit[k].found IN
       \/ /\ HasContent(j)
          /\ local' = [local EXCEPT ![commit[k].ref] = j] /\ pinned' = pinned \cup {j}
       \/ ~HasContent(j) /\ UNCHANGED <<local, pinned>>
       \/ On("commitFails") /\ UNCHANGED <<local, pinned>>
    /\ UNCHANGED <<box, blobs, snaps, temps, lease, target>>

\* The deferred functions: the container runs again, unless that fails, and its
\* lock is released.
ResumeContainer(k) ==
    /\ AtStep(k, "resume")
    /\ LET b == commit[k].box
           free == [box[b] EXCEPT !.lock = NoCommit]
       IN  \/ box' = [box EXCEPT ![b] = IF commit[k].resume THEN [free EXCEPT !.state = "running"] ELSE free]
           \/ On("commitFails") /\ box' = [box EXCEPT ![b] = free]
    /\ Leave(k, IF commit[k].whole THEN "ok" ELSE "failed")
    /\ UNCHANGED <<ctrdVars, local>>

-----------------------------------------------------------------------------
(* What happens beside it *)

\* A container that runs writes files.
WriteFiles(b) ==
    /\ box[b].state = "running"
    /\ \E l \in LayersOf(b) \ {box[b].layer} : box' = [box EXCEPT ![b].layer = l]
    /\ UNCHANGED <<commit, ctrdVars, local>>

\* RemoveImage, of an image that is shown, with the reference by digest of what
\* containerd has; as one step, since ImageStore has its steps.
RemoveCommitted(r) ==
    /\ On("removes") /\ local[r] # NoCommit
    /\ local' = [local EXCEPT ![r] = NoCommit]
    /\ target' = [target EXCEPT ![r] = NoCommit]
    /\ pinned' = pinned \ {target[r]}
    /\ UNCHANGED <<commit, box, blobs, snaps, temps, lease>>

\* What the labels of manifests and configs keep of the images.
Rooted == {k \in Commits : k \in pinned \/ \E r \in Targets : target[r] = k}
KeptBlobs ==
    {Manifest(k) : k \in Rooted} \cup
    UNION {{ImageConfig(k), Layer(commit[k].layer)} : k \in {j \in Rooted : Manifest(j) \in blobs}}
KeptSnaps == {commit[k].layer : k \in {j \in Rooted : {Manifest(j), ImageConfig(j)} \subseteq blobs}}
Leased == UNION {lease[k] : k \in Commits}

\* containerd's garbage collector.
CollectGarbage ==
    /\ blobs' = blobs \cap (KeptBlobs \cup Leased)
    /\ snaps' = {l \in snaps : l \in KeptSnaps \/ Snapshot(l) \in Leased}
    /\ temps' = temps \cap Leased
    /\ <<blobs', snaps', temps'>> # <<blobs, snaps, temps>>
    /\ UNCHANGED <<commit, box, lease, target, pinned, local>>

\* The daemon dies and loads the images of containerd.  Leases stay for a day,
\* and so do pauses.
CrashInCommit ==
    /\ On("commitCrash")
    /\ \E k \in Commits : ~AtStep(k, "idle") /\ ~Ended(k)
    /\ commit' = [k \in Commits |->
          IF AtStep(k, "idle") \/ Ended(k) THEN commit[k] ELSE [commit[k] EXCEPT !.at = "crashed"]]
    /\ box' = [b \in Boxes |-> [box[b] EXCEPT !.lock = NoCommit]]
    /\ local' = [r \in Targets |->
          IF target[r] # NoCommit /\ HasContent(target[r]) THEN target[r] ELSE NoCommit]
    /\ pinned' = pinned \cup {local'[r] : r \in {s \in Targets : local'[s] # NoCommit}}
    /\ UNCHANGED <<blobs, snaps, temps, lease, target>>

LeaseExpires(k) ==
    /\ AtStep(k, "crashed") /\ lease[k] # {}
    /\ lease' = [lease EXCEPT ![k] = {}]
    /\ UNCHANGED <<commit, box, blobs, snaps, temps, target, pinned, local>>

InitialBoxes(b) ==
    IF On("commit") THEN [layer : LayersOf(b), state : {"running", "stopped"}, lock : {NoCommit}]
                    ELSE {[layer |-> NoLayer, state |-> "stopped", lock |-> NoCommit]}

CommitInit ==
    /\ commit = [k \in Commits |-> [at |-> "idle", box |-> NoCommit, ref |-> NoCommit, layer |-> NoLayer,
                                    found |-> NoCommit, resume |-> FALSE, whole |-> FALSE]]
    /\ box \in {f \in [Boxes -> UNION {InitialBoxes(b) : b \in Boxes}] : \A b \in Boxes : f[b] \in InitialBoxes(b)}
    /\ blobs = {} /\ snaps = {} /\ temps = {} /\ pinned = {}
    /\ lease = [k \in Commits |-> {}]
    /\ target = [r \in Targets |-> NoCommit] /\ local = [r \in Targets |-> NoCommit]

CommitNext ==
    \/ \E k \in Commits :
          \/ \E b \in Boxes, r \in Targets : CommitContainer(k, b, r)
          \/ ExportLayer(k) \/ CreateDiff(k) \/ PrepareSnapshot(k) \/ CommitSnapshot(k)
          \/ RegisterImage(k) \/ WriteManifest(k) \/ WriteConfig(k) \/ RemoveNewSnapshot(k)
          \/ ReleaseLease(k) \/ GetNewImage(k) \/ StoreCommitted(k) \/ ResumeContainer(k)
          \/ LeaseExpires(k)
    \/ \E b \in Boxes : WriteFiles(b)
    \/ \E r \in Targets : RemoveCommitted(r)
    \/ CollectGarbage \/ CrashInCommit

-----------------------------------------------------------------------------
(* Properties *)

CommitTypeOK ==
    /\ \A b \in Boxes : box[b].layer \in LayersOf(b) \cup {NoLayer} /\ box[b].lock \in Commits \cup {NoCommit}
    /\ target \in [Targets -> Commits \cup {NoCommit}] /\ local \in [Targets -> Commits \cup {NoCommit}]
    /\ pinned \subseteq Commits /\ DOMAIN lease = Commits

\* The image of a commit that has succeeded has all its content and its
\* snapshot for as long as a reference leads to it, whenever the garbage
\* collector runs.  (The lease does not hold a snapshot that existed: it may
\* go with the image or the failed commit it came from.)
CommittedIsWhole ==
    ~On("same") \/ NoneOf({"removes", "sameRef", "commitFails", "commitCrash"}) =>
    \A k \in Rooted : AtStep(k, "ok") => HasContent(k) /\ commit[k].layer \in snaps

\* A committed layer is what the container had at one moment.
LayerIsConsistent == \A k \in Commits : commit[k].layer # TornLayer

\* Between commits the image manager shows the images containerd has.  (A
\* reference has no lock: two requests on it at once may leave them apart.)
CommittedIsShown ==
    (\A k \in Commits : AtStep(k, "idle") \/ AtStep(k, "ok")) /\
    NoneOf({"commitFails"}) /\ (On("sameRef") => NoneOf({"twoAtOnce", "removes"})) => local = target

\* No commit leaves its container paused.
ContainerIsResumed ==
    NoneOf({"commitFails", "commitCrash"}) =>
    \A b \in Boxes : box[b].lock = NoCommit => box[b].state # "paused"

\* A commit gives an image that is whole, consistent and shown, and leaves the
\* container as it was.
CommitIsSound ==
    CommitTypeOK /\ CommittedIsWhole /\ LayerIsConsistent /\ CommittedIsShown /\ ContainerIsResumed
=============================================================================
