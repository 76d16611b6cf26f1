----------------------------- MODULE VolumeRefs -----------------------------
(***************************************************************************)
(* The references containers hold on one volume: daemon/mgr/volume.go on   *)
(* top of storage/volume/core.go, as the container handlers use them.      *)
(*                                                                         *)
(* Every Core operation is one step, under the volume's lock.  A manager   *)
(* operation is two: Attach, Detach and Remove read the volume's "ref"     *)
(* option with Get, release the lock, and call Core with what they         *)
(* computed.  The ref string, ids joined by commas, is a set here: an id   *)
(* is appended only if it is not in it.                                    *)
(***************************************************************************)
EXTENDS Naturals, FiniteSets, Scenario

CONSTANTS
    Containers,    \* containers created with the volume, each with its own id
    Removers,      \* clients that remove the volume
    Remote,        \* whether the driver is a plugin, which implements Getter
    MaxOverlap     \* bound on the operations that overlap

(* The cases: "overlap" operations of several processes overlap;           *)
(* "sharedStart" a container starts while another one has the volume;      *)
(* "createFails" or "startFails" Create or start fails after it attached   *)
(* the volume; "detachFails" the driver's Detach fails; "copy" files of a  *)
(* stopped container are copied.                                           *)

ASSUME VolumeAssumption ==
    /\ Containers \cap Removers = {} /\ IsFiniteSet(Containers \cup Removers)
    /\ Remote \in BOOLEAN

VARIABLES
    exists,   \* the volume is in Core's store, and the driver has it
    refs,     \* option "ref" in the store
    mounted,  \* the driver has attached the volume to the host
    status,   \* per container
    read,     \* per container: the refs its manager operation has read
    op,       \* per container: the handler that works on it
    stage     \* per process: the next step of its operation

refVars == <<exists, refs, mounted, status, read, op, stage>>

Procs == Containers \cup Removers

\* getVolume returns the stored volume, except that a Getter returns what the
\* plugin says of the volume, which knows nothing of "ref".
RefsSeen == IF Remote THEN {} ELSE refs

\* A container has the volume among its Mounts, and is not being removed.
Uses(c) == status[c] \in {"created", "running"} /\ op[c] # "remove"

\* Operations on one container exclude each other, since they hold its lock.
MayBegin(p) ==
    /\ stage[p] = "idle"
    /\ LET busy == Cardinality({q \in Procs : stage[q] # "idle"})
       IN  busy < IF On("overlap") THEN MaxOverlap ELSE 1

Enter(p, step) == stage' = [stage EXCEPT ![p] = step]

Begin(c, handler, step) ==
    /\ MayBegin(c) /\ Enter(c, step)
    /\ op' = [op EXCEPT ![c] = handler]
    /\ UNCHANGED <<exists, refs, mounted, status, read>>

-----------------------------------------------------------------------------
(* VolumeManager.Attach and Detach, within a handler of a container *)

AttachGet(c) ==
    /\ stage[c] = "attachGet"
    /\ IF exists
       THEN read' = [read EXCEPT ![c] = RefsSeen] /\ Enter(c, "attach")
       ELSE Enter(c, "return") /\ UNCHANGED read
    /\ UNCHANGED <<exists, refs, mounted, status, op>>

\* Where the handler goes on.
AfterAttach(handler) ==
    CASE handler = "create" -> "path"
      [] handler = "start"  -> "run"
      [] handler = "copy"   -> "detachGet"

MutantAttachForgets(c) ==
    /\ stage[c] = "attach"
    /\ \/ /\ exists
          /\ refs' = {c}
          /\ mounted' = TRUE /\ Enter(c, AfterAttach(op[c]))
       \/ Enter(c, "return") /\ UNCHANGED <<refs, mounted>>
    /\ UNCHANGED <<exists, status, read, op>>

\* The ref option is only completed if the container is not in it yet: if it is,
\* the option that goes to Core is the container's id alone.  Core fails if the
\* volume is gone, or if the driver does.
AttachVolume(c) ==
    /\ stage[c] = "attach"
    /\ \/ /\ exists
          /\ refs' = IF c \in read[c] THEN {c} ELSE read[c] \cup {c}
          /\ mounted' = TRUE /\ Enter(c, AfterAttach(op[c]))
       \/ Enter(c, "return") /\ UNCHANGED <<refs, mounted>>
    /\ UNCHANGED <<exists, status, read, op>>

\* Only the removal of a container goes on after Detach, whatever it returned.
AfterDetach(handler) == IF handler = "remove" THEN "removeGet" ELSE "return"

\* Detach does nothing if the volume is gone or the container not in ref.
DetachGet(c) ==
    /\ stage[c] = "detachGet"
    /\ IF exists /\ c \in RefsSeen
       THEN read' = [read EXCEPT ![c] = RefsSeen] /\ Enter(c, "detach")
       ELSE Enter(c, AfterDetach(op[c])) /\ UNCHANGED read
    /\ UNCHANGED <<exists, refs, mounted, status, op>>

MutantDetachKeepsMount(c) ==
    /\ stage[c] = "detach"
    /\ refs' = IF exists THEN read[c] \ {c} ELSE refs
    /\ Enter(c, AfterDetach(op[c]))
    /\ UNCHANGED <<exists, mounted, status, read, op>>

\* The driver detaches when the last reference goes.
DetachVolume(c) ==
    /\ stage[c] = "detach"
    /\ \/ /\ exists
          /\ refs' = read[c] \ {c}
          /\ mounted' = (mounted /\ read[c] \ {c} # {})
       \/ /\ ~exists \/ (On("detachFails") /\ read[c] = {c})
          /\ UNCHANGED <<refs, mounted>>
    /\ Enter(c, AfterDetach(op[c]))
    /\ UNCHANGED <<exists, status, read, op>>

-----------------------------------------------------------------------------
(* The container handlers *)

\* Create: attachVolume gets the volume, and makes it if it is not there.
CreateContainer(c) == status[c] = "none" /\ Begin(c, "create", IF exists THEN "attachGet" ELSE "make")

CreateVolume(c) ==
    /\ stage[c] = "make"
    /\ \/ /\ exists' = TRUE
          /\ refs' = (IF exists THEN refs ELSE {}) /\ Enter(c, "attachGet")
       \/ ~exists /\ Enter(c, "return") /\ UNCHANGED <<exists, refs>>
    /\ UNCHANGED <<mounted, status, read, op>>

\* Path fails if the volume is gone.  A later failure within generateMountPoints
\* detaches the volume, one after it does not.
CreatePath(c) ==
    /\ stage[c] = "path"
    /\ \/ exists /\ status' = [status EXCEPT ![c] = "created"] /\ Enter(c, "return")
       \/ /\ ~exists \/ On("createFails")
          /\ UNCHANGED status /\ Enter(c, "return")
       \/ /\ exists /\ On("createFails")
          /\ UNCHANGED status /\ Enter(c, "detachGet")
    /\ UNCHANGED <<exists, refs, mounted, read, op>>

Start(c) ==
    /\ status[c] = "created"
    /\ On("sharedStart") \/ \A d \in Containers \ {c} : ~Uses(d)
    /\ Begin(c, "start", "attachGet")

\* If start fails after it attached the volume, its rollback detaches it.
Run(c) ==
    /\ stage[c] = "run"
    /\ \/ status' = [status EXCEPT ![c] = "running"] /\ Enter(c, "return")
       \/ On("startFails") /\ UNCHANGED status /\ Enter(c, "detachGet")
    /\ UNCHANGED <<exists, refs, mounted, read, op>>

Stop(c) ==
    /\ status[c] = "running" /\ MayBegin(c)
    /\ status' = [status EXCEPT ![c] = "created"]
    /\ UNCHANGED <<exists, refs, mounted, read, op, stage>>

\* StatPath, ArchivePath and ExtractToDir attach the volumes of a container that
\* does not run, and detach them when they are done.
Copy(c) == On("copy") /\ status[c] = "created" /\ Begin(c, "copy", "attachGet")

RemoveContainer(c) == Uses(c) /\ Begin(c, "remove", "detachGet")

\* The handler returns: a Create that failed leaves no container.
Return(c) ==
    /\ stage[c] = "return"
    /\ status' = IF op[c] = "remove" \/ (op[c] = "create" /\ status[c] = "none")
                 THEN [status EXCEPT ![c] = "gone"] ELSE status
    /\ Enter(c, "idle")
    /\ UNCHANGED <<exists, refs, mounted, read, op>>

-----------------------------------------------------------------------------
(* VolumeManager.Remove, for a client, or for a container that is removed   *)
(* together with its anonymous volumes                                      *)

\* Refused if the volume has references.
RemoveGet(p) ==
    /\ \/ /\ (p \in Removers /\ MayBegin(p)) \/ stage[p] = "removeGet"
          /\ exists /\ RefsSeen = {}
          /\ Enter(p, "remove")
       \/ stage[p] = "removeGet" /\ Enter(p, "return")
    /\ UNCHANGED <<exists, refs, mounted, status, read, op>>

\* Core looks the volume up again, but not its references; the driver may fail.
RemoveVolume(p) ==
    /\ stage[p] = "remove"
    /\ exists' \in {FALSE, exists}
    /\ refs' = IF exists' THEN refs ELSE {}
    /\ mounted' = (mounted /\ exists')
    /\ Enter(p, IF p \in Removers THEN "idle" ELSE "return")
    /\ UNCHANGED <<status, read, op>>

RefInit ==
    /\ exists = FALSE /\ refs = {} /\ mounted = FALSE
    /\ status = [c \in Containers |-> "none"]
    /\ read = [c \in Containers |-> {}]
    /\ op = [c \in Containers |-> "none"]
    /\ stage = [p \in Procs |-> "idle"]

RefNext ==
    \/ \E c \in Containers :
          \/ CreateContainer(c) \/ CreateVolume(c) \/ CreatePath(c)
          \/ AttachGet(c) \/ AttachVolume(c) \/ DetachGet(c) \/ DetachVolume(c)
          \/ Start(c) \/ Run(c) \/ Stop(c) \/ Copy(c) \/ RemoveContainer(c) \/ Return(c)
    \/ \E p \in Procs : RemoveGet(p) \/ RemoveVolume(p)

RefSpec == RefInit /\ [][RefNext /\ UNCHANGED cases]_<<refVars, cases>>

-----------------------------------------------------------------------------
(* Properties *)

\* Every variable has its type.
RefTypeOK ==
    /\ exists \in BOOLEAN /\ mounted \in BOOLEAN
    /\ refs \subseteq Containers
    /\ status \in [Containers -> {"none", "created", "running", "gone"}]
    /\ read \in [Containers -> SUBSET Containers]
    /\ op \in [Containers -> {"none", "create", "start", "copy", "remove"}]
    /\ stage \in [Procs -> {"idle", "make", "attachGet", "attach", "path", "run",
                         "detachGet", "detach", "removeGet", "remove", "return"}]

\* A volume that a container was created with is not removed: "volume rm" of a
\* volume in use fails.
UsedVolumeExists == \A c \in Containers : Uses(c) => exists

\* The same where the reference of a container is not lost: no two operations
\* overlap, no other container is started, no start fails after the attach, and
\* nothing is copied.
UsedVolumeIsKept == NoneOf({"overlap", "sharedStart", "startFails", "copy"}) => UsedVolumeExists

\* A container whose handlers have returned is among the references only if it
\* has the volume: after the removal of its containers, a volume can be removed.
\* Operations that overlap, a Create or a driver that fails do leave one behind.
NoStaleRef ==
    NoneOf({"overlap", "createFails", "detachFails"}) => \A c \in Containers : stage[c] = "idle" /\ c \in refs => Uses(c)

\* However the operations interleave and fail, the driver does not keep the
\* volume attached once the last recorded reference is gone.  With NoStaleRef:
\* it is attached only while a container has it, or a handler is at work.
MountHasRef == mounted => refs # {}

\* The references of the volume are exact, as far as NoStaleRef and MountHasRef
\* say: what Attach and Detach write into "ref" is what volume rm goes by.
RefsAreExact == RefTypeOK /\ NoStaleRef /\ MountHasRef
=============================================================================
