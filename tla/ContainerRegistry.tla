------------------------- MODULE ContainerRegistry -------------------------
(***************************************************************************)
(* Where the container manager keeps its containers: the cache, the names, *)
(* the IOs, the meta.json files and the snapshots, and how Create, Rename, *)
(* Remove and the start of the daemon (Load, Restore) change them.  Create *)
(* holds no lock; Rename and Remove hold the lock of the container.  Every *)
(* access to one of the maps or stores is a step.                          *)
(***************************************************************************)
EXTENDS Naturals, Scenario

CONSTANTS
    Clients,     \* each creates one container, which is known by its creator
    IDs, Names, None,
    MaxCrashes   \* bound: restarts of the daemon

(* The cases: "sameID" clients ask for specific ids, possibly the same     *)
(* ones; "sameName" overlapping requests ask for the same name; "fails"    *)
(* Create fails on its way.                                                *)

ASSUME RegistryAssumption ==
    /\ None \notin Clients \cup IDs \cup Names /\ "reserved" \notin Clients \cup {None}
    /\ MaxCrashes \in Nat

VARIABLES
    cache,     \* mgr.cache: per id nothing, a reservation or a container
    nameToID,  \* mgr.NameToID
    ios,       \* mgr.IOs
    meta,      \* per id the meta.json: whose it is, and the name in it
    snap,      \* per id whose snapshot containerd has
    id, name,  \* per container: its id and, in memory, its name
    dead,      \* per container: State.Dead
    lock,      \* per container: the client that holds its lock
    pc,        \* per client: the next step of its request
    target,    \* per client: the container it renames or removes
    new,       \* per client: the name it gives
    crashes

registry == <<cache, nameToID, ios, meta, snap>>
request == <<pc, target, new>>
container == <<id, name, dead, lock>>
regVars == <<registry, container, request, crashes>>

Goto(c, step) == pc' = [pc EXCEPT ![c] = step]

\* A request is under way for name n.
Wanted(n) == \E c \in Clients : pc[c] # "idle" /\ new[c] = n

-----------------------------------------------------------------------------
(* Create *)

\* generateContainerID: a specific id must not be in the cache, a random one is
\* nobody's.
Create(c, i, n) ==
    /\ pc[c] = "idle" /\ id[c] = None
    /\ IF On("sameID") THEN cache[i] = None ELSE \A d \in Clients : id[d] # i
    /\ On("sameName") \/ ~Wanted(n)
    /\ id' = [id EXCEPT ![c] = i] /\ name' = [name EXCEPT ![c] = n]
    /\ new' = [new EXCEPT ![c] = n] /\ Goto(c, "reserve")
    /\ UNCHANGED <<registry, dead, lock, target, crashes>>

Reserve(c) ==
    /\ pc[c] = "reserve"
    /\ cache' = [cache EXCEPT ![id[c]] = "reserved"]
    /\ Goto(c, "checkName")
    /\ UNCHANGED <<nameToID, ios, meta, snap, container, target, new, crashes>>

CheckName(c) ==
    /\ pc[c] = "checkName"
    /\ Goto(c, IF nameToID[name[c]] = None THEN "snapshot" ELSE "undo")
    /\ UNCHANGED <<registry, container, target, new, crashes>>

\* containerd refuses a second snapshot of one key.
CreateSnapshot(c) ==
    /\ pc[c] = "snapshot"
    /\ \/ /\ snap[id[c]] = None
          /\ snap' = [snap EXCEPT ![id[c]] = c] /\ Goto(c, "io")
       \/ /\ snap[id[c]] # None \/ On("fails")
          /\ UNCHANGED snap /\ Goto(c, "undo")
    /\ UNCHANGED <<cache, nameToID, ios, meta, container, target, new, crashes>>

InitContainerIO(c) ==
    /\ pc[c] = "io"
    /\ IF ios[id[c]] = None
       THEN ios' = [ios EXCEPT ![id[c]] = c] /\ Goto(c, "write")
       ELSE UNCHANGED ios /\ Goto(c, "undoAll")
    /\ UNCHANGED <<cache, nameToID, meta, snap, container, target, new, crashes>>

\* Any of the checks in between may fail, or Write.
Write(c) ==
    /\ pc[c] = "write"
    /\ \/ /\ meta' = [meta EXCEPT ![id[c]] = [of |-> c, name |-> name[c]]]
          /\ Goto(c, "putName")
       \/ On("fails") /\ UNCHANGED meta /\ Goto(c, "undoAll")
    /\ UNCHANGED <<cache, nameToID, ios, snap, container, target, new, crashes>>

PutName(c) ==
    /\ pc[c] = "putName"
    /\ nameToID' = [nameToID EXCEPT ![name[c]] = id[c]]
    /\ Goto(c, "putCache")
    /\ UNCHANGED <<cache, ios, meta, snap, container, target, new, crashes>>

PutCache(c) ==
    /\ pc[c] = "putCache"
    /\ cache' = [cache EXCEPT ![id[c]] = c]
    /\ Goto(c, "idle")
    /\ UNCHANGED <<nameToID, ios, meta, snap, container, target, new, crashes>>

\* The deferred functions of a Create that fails.  Here and in Remove containerd
\* may keep the snapshot: the error is only logged.
UndoCache(c) ==
    /\ pc[c] \in {"undo", "undoAll"}
    /\ cache' = [cache EXCEPT ![id[c]] = None]
    /\ Goto(c, IF pc[c] = "undo" THEN "idle" ELSE "undoSnapshot")
    /\ UNCHANGED <<nameToID, ios, meta, snap, container, target, new, crashes>>

UndoSnapshot(c) ==
    /\ pc[c] = "undoSnapshot"
    /\ snap' \in {snap, [snap EXCEPT ![id[c]] = None]}
    /\ Goto(c, "idle")
    /\ UNCHANGED <<cache, nameToID, ios, meta, container, target, new, crashes>>

-----------------------------------------------------------------------------
(* Rename and Remove *)

Found(o) == id[o] # None /\ cache[id[o]] = o

Rename(c, o, n) ==
    /\ pc[c] = "idle" /\ nameToID[n] = None
    /\ On("sameName") \/ ~Wanted(n)
    /\ target' = [target EXCEPT ![c] = o] /\ new' = [new EXCEPT ![c] = n]
    /\ Goto(c, "renameFind")
    /\ UNCHANGED <<registry, container, crashes>>

RenameFind(c) ==
    /\ pc[c] = "renameFind"
    /\ Goto(c, IF Found(target[c]) THEN "rename" ELSE "idle")
    /\ UNCHANGED <<registry, container, target, new, crashes>>

\* A dead container is not renamed.
RenameRemove(c) ==
    LET o == target[c]
    IN /\ pc[c] = "rename" /\ lock[o] = None
       /\ IF dead[o]
          THEN Goto(c, "idle") /\ UNCHANGED <<nameToID, name, lock>>
          ELSE /\ name' = [name EXCEPT ![o] = new[c]]
               /\ nameToID' = [nameToID EXCEPT ![name[o]] = None]
               /\ lock' = [lock EXCEPT ![o] = c] /\ Goto(c, "renamePut")
       /\ UNCHANGED <<cache, ios, meta, snap, id, dead, target, new, crashes>>

RenamePut(c) ==
    /\ pc[c] = "renamePut"
    /\ nameToID' = [nameToID EXCEPT ![new[c]] = id[target[c]]]
    /\ Goto(c, "renameWrite")
    /\ UNCHANGED <<cache, ios, meta, snap, container, target, new, crashes>>

RenameWrite(c) ==
    LET o == target[c]
    IN /\ pc[c] = "renameWrite"
       /\ meta' = [meta EXCEPT ![id[o]] = [of |-> o, name |-> name[o]]]
       /\ lock' = [lock EXCEPT ![o] = None] /\ Goto(c, "idle")
       /\ UNCHANGED <<cache, nameToID, ios, snap, id, name, dead, target, new, crashes>>

Remove(c, o) ==
    /\ pc[c] = "idle" /\ Found(o)
    /\ target' = [target EXCEPT ![c] = o] /\ new' = [new EXCEPT ![c] = None]
    /\ Goto(c, "remove")
    /\ UNCHANGED <<registry, container, crashes>>

RemoveSnapshot(c) ==
    LET o == target[c]
    IN /\ pc[c] = "remove" /\ lock[o] = None
       /\ IF dead[o]
          THEN Goto(c, "idle") /\ UNCHANGED <<snap, lock>>
          ELSE /\ snap' \in {snap, [snap EXCEPT ![id[o]] = None]}
               /\ lock' = [lock EXCEPT ![o] = c] /\ Goto(c, "removeName")
       /\ UNCHANGED <<cache, nameToID, ios, meta, id, name, dead, target, new, crashes>>

RemoveName(c) ==
    /\ pc[c] = "removeName"
    /\ nameToID' = [nameToID EXCEPT ![name[target[c]]] = None]
    /\ Goto(c, "removeCache")
    /\ UNCHANGED <<cache, ios, meta, snap, container, target, new, crashes>>

RemoveCache(c) ==
    /\ pc[c] = "removeCache"
    /\ cache' = [cache EXCEPT ![id[target[c]]] = None]
    /\ Goto(c, "removeIO")
    /\ UNCHANGED <<nameToID, ios, meta, snap, container, target, new, crashes>>

RemoveIO(c) ==
    /\ pc[c] = "removeIO"
    /\ ios' = [ios EXCEPT ![id[target[c]]] = None]
    /\ dead' = [dead EXCEPT ![target[c]] = TRUE]
    /\ Goto(c, "removeMeta")
    /\ UNCHANGED <<cache, nameToID, meta, snap, id, name, lock, target, new, crashes>>

MutantRemoveKeepsMeta(c) ==
    LET o == target[c]
    IN /\ pc[c] = "removeMeta"
       /\ lock' = [lock EXCEPT ![o] = None] /\ Goto(c, "idle")
       /\ UNCHANGED <<registry, id, name, dead, target, new, crashes>>

RemoveMeta(c) ==
    LET o == target[c]
    IN /\ pc[c] = "removeMeta"
       /\ meta' = [meta EXCEPT ![id[o]] = None]
       /\ lock' = [lock EXCEPT ![o] = None] /\ Goto(c, "idle")
       /\ UNCHANGED <<cache, nameToID, ios, snap, id, name, dead, target, new, crashes>>

-----------------------------------------------------------------------------
(* The daemon dies and starts again: Load fills the cache and the names    *)
(* from the meta.json files, Restore makes the IOs, and drops the IO of a  *)
(* running container that it cannot recover.                               *)

Loaded(i) == IF meta[i] = None THEN None ELSE meta[i].of

Restart ==
    /\ crashes < MaxCrashes /\ crashes' = crashes + 1
    /\ cache' = [i \in IDs |-> Loaded(i)]
    /\ \E I \in SUBSET IDs : ios' = [i \in IDs |-> IF i \in I THEN Loaded(i) ELSE None]
    /\ nameToID' \in [Names -> IDs \cup {None}]
    /\ \A n \in Names :
          LET I == {i \in IDs : meta[i] # None /\ meta[i].name = n}
          IN IF I = {} THEN nameToID'[n] = None ELSE nameToID'[n] \in I
    /\ name' = [o \in Clients |->
                  IF \E i \in IDs : Loaded(i) = o
                  THEN meta[id[o]].name ELSE name[o]]
    /\ dead' = [o \in Clients |-> FALSE]
    /\ lock' = [o \in Clients |-> None]
    /\ pc' = [c \in Clients |-> "idle"]
    /\ UNCHANGED <<meta, snap, id, target, new>>

RegInit ==
    /\ cache = [i \in IDs |-> None] /\ ios = cache /\ meta = cache /\ snap = cache
    /\ nameToID = [n \in Names |-> None]
    /\ id = [c \in Clients |-> None] /\ name = id /\ lock = id /\ target = id /\ new = id
    /\ dead = [c \in Clients |-> FALSE]
    /\ pc = [c \in Clients |-> "idle"]
    /\ crashes = 0

RegNext ==
    \/ \E c \in Clients :
          \/ \E i \in IDs, n \in Names : Create(c, i, n)
          \/ Reserve(c) \/ CheckName(c) \/ CreateSnapshot(c) \/ InitContainerIO(c)
          \/ Write(c) \/ PutName(c) \/ PutCache(c) \/ UndoCache(c) \/ UndoSnapshot(c)
          \/ \E o \in Clients : Remove(c, o) \/ \E n \in Names : Rename(c, o, n)
          \/ RenameFind(c) \/ RenameRemove(c) \/ RenamePut(c) \/ RenameWrite(c)
          \/ RemoveSnapshot(c) \/ RemoveName(c) \/ RemoveCache(c) \/ RemoveIO(c)
          \/ RemoveMeta(c)
    \/ Restart

RegSpec == RegInit /\ [][RegNext /\ UNCHANGED cases]_<<regVars, cases>>

-----------------------------------------------------------------------------
(* Properties *)

\* Some request is working on container o.
Busy(o) ==
    \/ pc[o] \in {"reserve", "checkName", "snapshot", "io", "write", "putName", "putCache",
                  "undo", "undoAll", "undoSnapshot"}
    \/ lock[o] # None

\* Every variable has its type.
RegTypeOK ==
    /\ cache \in [IDs -> Clients \cup {None, "reserved"}]
    /\ ios \in [IDs -> Clients \cup {None}] /\ snap \in [IDs -> Clients \cup {None}]
    /\ meta \in [IDs -> [of : Clients, name : Names] \cup {None}]
    /\ nameToID \in [Names -> IDs \cup {None}]
    /\ id \in [Clients -> IDs \cup {None}] /\ name \in [Clients -> Names \cup {None}]
    /\ dead \in [Clients -> BOOLEAN] /\ lock \in [Clients -> Clients \cup {None}]
    /\ target \in [Clients -> Clients \cup {None}] /\ new \in [Clients -> Names \cup {None}]
    /\ pc \in [Clients -> {"idle", "reserve", "checkName", "snapshot", "io", "write", "putName",
                           "putCache", "undo", "undoAll", "undoSnapshot", "renameFind",
                           "rename", "renamePut", "renameWrite", "remove", "removeName",
                           "removeCache", "removeIO", "removeMeta"}]
    /\ crashes \in 0..MaxCrashes

\* As long as the daemon was not restarted, a container in the cache that no
\* request works on has its snapshot, its IO and its meta.json, all of them its
\* own: neither a Create that fails nor a Remove touches what another one has.
CachedIsComplete ==
    crashes = 0 =>
       \A o \in Clients : Found(o) /\ ~Busy(o) =>
          /\ snap[id[o]] = o /\ ios[id[o]] = o
          /\ meta[id[o]] = [of |-> o, name |-> name[o]]

\* A container on disk is in the cache, unless a request works on it: the daemon
\* never forgets a container whose Create has succeeded, and a container that it
\* has removed does not come back when the daemon is restarted.
StoredIsCached ==
    \A i \in IDs : meta[i] # None => cache[i] = meta[i].of \/ Busy(meta[i].of)

\* As long as the daemon was not restarted, a container that no request works on
\* is found by its name, whatever names Rename and Remove have freed meanwhile.
NameResolves ==
    crashes = 0 =>
       \A o \in Clients : Found(o) /\ ~Busy(o) => nameToID[name[o]] = id[o]

\* The cache, the names, the IOs, the snapshots and the meta.json files tell of
\* the same containers, in the ways CachedIsComplete, StoredIsCached and
\* NameResolves say.
RegistryAgrees == RegTypeOK /\ CachedIsComplete /\ StoredIsCached /\ NameResolves
=============================================================================
