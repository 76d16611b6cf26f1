----------------------- MODULE ContainerRegistryInv ------------------------
(***************************************************************************)
(* The inductive invariant of ContainerRegistry, and the part of its proof *)
(* that is about requests: their types, ids, targets and locks.            *)
(***************************************************************************)
EXTENDS ContainerRegistry, TLAPS

\* The steps of Create, up to its return; it holds no lock.
CreateSteps == {"reserve", "checkName", "snapshot", "io", "write", "putName", "putCache",
                "undo", "undoAll", "undoSnapshot"}

\* The steps of Rename and Remove that hold the lock of the container.
LockedSteps == {"renamePut", "renameWrite", "removeName", "removeCache", "removeIO",
                "removeMeta"}

\* No two containers have one id, and what is kept under an id belongs to the
\* container that has it.
IdsInv ==
    /\ \A c, d \in Clients : id[c] # None /\ id[c] = id[d] => c = d
    /\ \A i \in IDs : /\ cache[i] \in Clients => id[cache[i]] = i
                      /\ meta[i] # None => id[meta[i].of] = i

\* What a request of client c knows of its container.
RequestInv ==
    \A c \in Clients :
       /\ id[c] # None => name[c] # None
       /\ pc[c] \in CreateSteps =>
             id[c] # None /\ new[c] = name[c] /\ lock[c] = None /\ cache[id[c]] \notin Clients
       /\ pc[c] \in CreateSteps \ {"putName", "putCache"} => meta[id[c]] = None
       /\ pc[c] \notin CreateSteps \cup {"idle"} => target[c] # None
       /\ pc[c] \in {"renameFind", "rename", "renamePut"} => new[c] # None
       /\ pc[c] \in LockedSteps \cup {"rename", "remove"} =>
             id[target[c]] # None /\ pc[target[c]] \notin CreateSteps

\* Who holds the lock of a container, and when it is in the cache: a request that
\* waits for the lock gets a container that is in the cache, or dead.
LockInv ==
    \A c \in Clients :
       /\ lock[c] # None => pc[lock[c]] \in LockedSteps /\ target[lock[c]] = c
       /\ pc[c] \in LockedSteps => lock[target[c]] = c
       /\ pc[c] \in {"renamePut", "renameWrite", "removeName", "removeCache"} => Found(target[c])
       /\ pc[c] \in {"removeIO", "removeMeta"} => ~Found(target[c])
       /\ pc[c] \in {"rename", "remove"} =>
             LET o == target[c]
             IN Found(o) \/ dead[o] \/ (lock[o] # None /\ pc[lock[o]] = "removeIO")
       /\ pc[c] = "removeMeta" => dead[target[c]]

\* What Create has made so far, and what a container has until Remove takes it.
Complete(o) ==
    /\ pc[o] \in {"io", "write", "putName", "putCache"} => snap[id[o]] = o
    /\ pc[o] \in {"write", "putName", "putCache"} => ios[id[o]] = o
    /\ pc[o] \in {"putName", "putCache"} => meta[id[o]] = [of |-> o, name |-> name[o]]
    /\ Found(o) /\ (lock[o] # None => pc[lock[o]] \in {"renamePut", "renameWrite"}) =>
          snap[id[o]] = o /\ ios[id[o]] = o
    /\ Found(o) /\ lock[o] = None => meta[id[o]] = [of |-> o, name |-> name[o]]

CompleteInv == \A o \in Clients : Complete(o)

\* Requests under way ask for different names.
WantedInv ==
    \A c, d \in Clients :
       pc[c] # "idle" /\ pc[d] # "idle" /\ new[c] # None /\ new[c] = new[d] => c = d

\* A name that a request found free stays free until it takes it, and then it
\* is the container's until Rename or Remove gives it up.
NamesInv ==
    \A c \in Clients :
       /\ pc[c] \in {"snapshot", "io", "write", "putName"} => nameToID[name[c]] = None
       /\ pc[c] = "putCache" => nameToID[name[c]] = id[c]
       /\ pc[c] \in {"renameFind", "rename", "renamePut"} => nameToID[new[c]] = None
       /\ pc[c] \in {"renamePut", "renameWrite"} => name[target[c]] = new[c]
       /\ Found(c) /\ (lock[c] # None => pc[lock[c]] \in {"renameWrite", "removeName"}) =>
             nameToID[name[c]] = id[c]

Inv ==
    /\ RegTypeOK /\ StoredIsCached
    /\ IdsInv /\ RequestInv /\ LockInv /\ WantedInv
    /\ crashes = 0 => CompleteInv /\ NamesInv

-----------------------------------------------------------------------------
\* The time each leaf of the proofs may take.
USE SMTT(60)

\* The types, with what a request knows of its container.
LEMMA TypeStep ==
    ASSUME RegTypeOK, RequestInv, IdsInv, [RegNext]_regVars
    PROVE  RegTypeOK'
<1>1. ASSUME NEW c \in Clients, NEW i \in IDs, NEW n \in Names, Create(c, i, n)
      PROVE  RegTypeOK'
  BY <1>1, RegistryAssumption, Zenon DEF Create, RegTypeOK, RequestInv, CreateSteps, Goto,
     registry
<1>2. ASSUME NEW c \in Clients, NEW o \in Clients, NEW n \in Names, Rename(c, o, n)
      PROVE  RegTypeOK'
  BY <1>2, RegistryAssumption, Zenon DEF Rename, RegTypeOK, RequestInv, Goto, registry, container
<1>3. ASSUME NEW c \in Clients, NEW o \in Clients, Remove(c, o)
      PROVE  RegTypeOK'
  BY <1>3, RegistryAssumption, Zenon DEF Remove, RegTypeOK, RequestInv, Goto, registry, container
<1>4. ASSUME NEW c \in Clients, Reserve(c)
      PROVE  RegTypeOK'
  BY <1>4, Zenon DEF Reserve, RegTypeOK, RequestInv, CreateSteps, LockedSteps, Goto, container
<1>5. ASSUME NEW c \in Clients, CheckName(c)
      PROVE  RegTypeOK'
  BY <1>5, RegistryAssumption, Zenon DEF CheckName, RegTypeOK, Goto, registry, container
<1>6. ASSUME NEW c \in Clients, CreateSnapshot(c)
      PROVE  RegTypeOK'
  BY <1>6, RegistryAssumption DEF CreateSnapshot, RegTypeOK, RequestInv, CreateSteps, LockedSteps,
     Goto, container
<1>7. ASSUME NEW c \in Clients, InitContainerIO(c)
      PROVE  RegTypeOK'
  BY <1>7 DEF InitContainerIO, RegTypeOK, Goto, container
<1>8. ASSUME NEW c \in Clients, Write(c)
      PROVE  RegTypeOK'
  BY <1>8, RegistryAssumption DEF Write, RegTypeOK, RequestInv, LockedSteps, Goto, container
<1>9. ASSUME NEW c \in Clients, PutName(c)
      PROVE  RegTypeOK'
  BY <1>9, Zenon DEF PutName, RegTypeOK, RequestInv, CreateSteps, LockedSteps, Goto, container
<1>10. ASSUME NEW c \in Clients, PutCache(c)
      PROVE  RegTypeOK'
  BY <1>10, Zenon DEF PutCache, RegTypeOK, RequestInv, CreateSteps, LockedSteps, Goto, container
<1>11. ASSUME NEW c \in Clients, UndoCache(c)
      PROVE  RegTypeOK'
  BY <1>11, Zenon DEF UndoCache, RegTypeOK, RequestInv, CreateSteps, LockedSteps, Goto, container
<1>12. ASSUME NEW c \in Clients, UndoSnapshot(c)
      PROVE  RegTypeOK'
  BY <1>12, Zenon DEF UndoSnapshot, RegTypeOK, Goto, container
<1>13. ASSUME NEW c \in Clients, RenameFind(c)
      PROVE  RegTypeOK'
  BY <1>13, RegistryAssumption, Zenon DEF RenameFind, RegTypeOK, Goto, registry, container
<1>14. ASSUME NEW c \in Clients, RenameRemove(c)
      PROVE  RegTypeOK'
  BY <1>14, RegistryAssumption DEF RenameRemove, RegTypeOK, RequestInv, CreateSteps, LockedSteps,
     Goto
<1>15. ASSUME NEW c \in Clients, RenamePut(c)
      PROVE  RegTypeOK'
  BY <1>15 DEF RenamePut, RegTypeOK, RequestInv, CreateSteps, Goto, container
<1>16. ASSUME NEW c \in Clients, RenameWrite(c)
      PROVE  RegTypeOK'
  BY <1>16 DEF RenameWrite, RegTypeOK, RequestInv, CreateSteps, LockedSteps, Goto
<1>17. ASSUME NEW c \in Clients, RemoveSnapshot(c)
      PROVE  RegTypeOK'
  BY <1>17, RegistryAssumption DEF RemoveSnapshot, RegTypeOK, RequestInv, CreateSteps,
     LockedSteps, Goto
<1>18. ASSUME NEW c \in Clients, RemoveName(c)
      PROVE  RegTypeOK'
  BY <1>18, Zenon DEF RemoveName, RegTypeOK, RequestInv, CreateSteps, LockedSteps, Goto, container
<1>19. ASSUME NEW c \in Clients, RemoveCache(c)
      PROVE  RegTypeOK'
  BY <1>19, RegistryAssumption, Zenon DEF RemoveCache, RegTypeOK, RequestInv, CreateSteps,
     LockedSteps, Goto, container
<1>20. ASSUME NEW c \in Clients, RemoveIO(c)
      PROVE  RegTypeOK'
  BY <1>20, RegistryAssumption, Zenon DEF RemoveIO, RegTypeOK, RequestInv, CreateSteps,
     LockedSteps, Goto
<1>21. ASSUME NEW c \in Clients, RemoveMeta(c)
      PROVE  RegTypeOK'
  BY <1>21, RegistryAssumption, Zenon DEF RemoveMeta, RegTypeOK, RequestInv, CreateSteps,
     LockedSteps, Goto
<1>22. CASE Restart
  <2>1. \A o \in Clients : (\E i \in IDs : Loaded(i) = o) => meta[id[o]].name \in Names
    BY RegistryAssumption DEF Loaded, IdsInv, RegTypeOK
  <2>2. \A i \in IDs : Loaded(i) \in Clients \cup {None}
    BY Zenon DEF Loaded, RegTypeOK
  <2> QED
    BY <1>22, <2>1, <2>2, RegistryAssumption DEF Restart, RegTypeOK, RequestInv
<1>23. CASE UNCHANGED regVars
  BY <1>23, Zenon DEF regVars, RegTypeOK, registry, container, request
<1> QED
  BY <1>1, <1>2, <1>3, <1>4, <1>5, <1>6, <1>7, <1>8, <1>9, <1>10, <1>11, <1>12, <1>13, <1>14,
     <1>15, <1>16, <1>17, <1>18, <1>19, <1>20, <1>21, <1>22, <1>23, RegistryAssumption, ZenonT(60)
     DEF RegNext

\* An id is given once, and only its container is kept under it.
LEMMA IdsStep ==
    ASSUME RegTypeOK, IdsInv, RequestInv, LockInv, ~On("sameID"), [RegNext]_regVars
    PROVE  IdsInv'
<1>1. ASSUME NEW c \in Clients, NEW i \in IDs, NEW n \in Names, Create(c, i, n)
      PROVE  IdsInv'
  BY <1>1, RegistryAssumption DEF Create, IdsInv, registry
<1>2. ASSUME NEW c \in Clients, NEW o \in Clients, NEW n \in Names, Rename(c, o, n)
      PROVE  IdsInv'
  BY <1>2, Zenon DEF Rename, IdsInv, registry, container
<1>3. ASSUME NEW c \in Clients, NEW o \in Clients, Remove(c, o)
      PROVE  IdsInv'
  BY <1>3, Zenon DEF Remove, RegTypeOK, IdsInv, Goto, registry, container
<1>4. ASSUME NEW c \in Clients,
             CheckName(c) \/ CreateSnapshot(c) \/ InitContainerIO(c) \/ PutName(c) \/
             UndoSnapshot(c) \/ RenameFind(c) \/ RenameRemove(c) \/ RenamePut(c) \/
             RemoveSnapshot(c) \/ RemoveName(c) \/ RemoveIO(c)
      PROVE  IdsInv'
  <2>1. UNCHANGED <<cache, meta, id>>
    BY <1>4, Zenon DEF CheckName, CreateSnapshot, InitContainerIO, PutName, UndoSnapshot,
       RenameFind, RenameRemove, RenamePut, RemoveSnapshot, RemoveName, RemoveIO, registry,
       container
  <2> QED
    BY <2>1, Zenon DEF IdsInv
<1>5. ASSUME NEW c \in Clients, Reserve(c)
      PROVE  IdsInv'
  BY <1>5, RegistryAssumption DEF Reserve, IdsInv, container
<1>6. ASSUME NEW c \in Clients, Write(c)
      PROVE  IdsInv'
  BY <1>6 DEF Write, RegTypeOK, IdsInv, container
<1>7. ASSUME NEW c \in Clients, PutCache(c)
      PROVE  IdsInv'
  BY <1>7 DEF PutCache, IdsInv, Goto, container
<1>8. ASSUME NEW c \in Clients, UndoCache(c)
      PROVE  IdsInv'
  BY <1>8, RegistryAssumption DEF UndoCache, IdsInv, Goto, container
<1>9. ASSUME NEW c \in Clients,
             RemoveCache(c) \/ RemoveMeta(c)
      PROVE  IdsInv'
  BY <1>9, RegistryAssumption DEF RemoveCache, RemoveMeta, RequestInv, RegTypeOK, IdsInv, Goto,
     container
<1>10. ASSUME NEW c \in Clients, RenameWrite(c)
      PROVE  IdsInv'
  BY <1>10 DEF RenameWrite, RegTypeOK, IdsInv
<1>11. CASE Restart
  BY <1>11, RegistryAssumption, Zenon DEF Restart, Loaded, IdsInv
<1>12. CASE UNCHANGED regVars
  BY <1>12, Zenon DEF regVars, IdsInv, registry, container
<1> QED
  BY <1>1, <1>2, <1>3, <1>4, <1>5, <1>6, <1>7, <1>8, <1>9, <1>10, <1>11, <1>12,
     RegistryAssumption, ZenonT(60) DEF RegNext

\* A request works on a container that Create has finished.
LEMMA RequestStep ==
    ASSUME RegTypeOK, IdsInv, RequestInv, LockInv, ~On("sameID"), [RegNext]_regVars
    PROVE  RequestInv'
<1>1. ASSUME NEW c \in Clients, NEW i \in IDs, NEW n \in Names, Create(c, i, n)
      PROVE  RequestInv'
  <2>1. cache[i] \notin Clients /\ meta[i] = None
    BY <1>1 DEF Create, RegTypeOK, IdsInv
  <2>2. lock[c] = None
    BY <1>1 DEF Create, LockInv, RegTypeOK, RequestInv
  <2>3. \A d \in Clients : pc[d] \in LockedSteps \cup {"rename", "remove"} => target[d] # c
    BY <1>1, Zenon DEF Create, IdsInv, RequestInv, CreateSteps
  <2> QED
    BY <1>1, <2>2, <2>3, RegistryAssumption DEF Create, RegTypeOK, IdsInv, RequestInv,
       CreateSteps, LockedSteps, Goto, registry
<1>2. ASSUME NEW c \in Clients, NEW o \in Clients, NEW n \in Names, Rename(c, o, n)
      PROVE  RequestInv'
  BY <1>2, RegistryAssumption DEF Rename, RegTypeOK, IdsInv, RequestInv, CreateSteps, LockedSteps,
     Goto, registry, container
<1>3. ASSUME NEW c \in Clients, NEW o \in Clients, Remove(c, o)
      PROVE  RequestInv'
  BY <1>3, RegistryAssumption DEF Remove, Found, RegTypeOK, RequestInv, CreateSteps, Goto,
     registry, container
<1>4. ASSUME NEW c \in Clients, Reserve(c)
      PROVE  RequestInv'
  BY <1>4, RegistryAssumption DEF Reserve, RequestInv, CreateSteps, LockedSteps, Goto, container
<1>5. ASSUME NEW c \in Clients, CheckName(c)
      PROVE  RequestInv'
  BY <1>5 DEF CheckName, RequestInv, CreateSteps, LockedSteps, Goto, registry, container
<1>6. ASSUME NEW c \in Clients, CreateSnapshot(c)
      PROVE  RequestInv'
  BY <1>6 DEF CreateSnapshot, RegTypeOK, IdsInv, RequestInv, CreateSteps, LockedSteps, Goto,
     container
<1>7. ASSUME NEW c \in Clients, InitContainerIO(c)
      PROVE  RequestInv'
  BY <1>7 DEF InitContainerIO, RegTypeOK, RequestInv, CreateSteps, LockedSteps, Goto, container
<1>8. ASSUME NEW c \in Clients, Write(c)
      PROVE  RequestInv'
  BY <1>8 DEF Write, RegTypeOK, IdsInv, RequestInv, CreateSteps, LockedSteps, Goto, container
<1>9. ASSUME NEW c \in Clients, PutName(c)
      PROVE  RequestInv'
  BY <1>9, RegistryAssumption DEF PutName, RequestInv, CreateSteps, LockedSteps, Goto, container
<1>10. ASSUME NEW c \in Clients, PutCache(c)
      PROVE  RequestInv'
  BY <1>10, RegistryAssumption DEF PutCache, RegTypeOK, IdsInv, RequestInv, CreateSteps,
     LockedSteps, Goto, container
<1>11. ASSUME NEW c \in Clients, UndoCache(c)
      PROVE  RequestInv'
  BY <1>11, RegistryAssumption DEF UndoCache, RequestInv, CreateSteps, LockedSteps, Goto,
     container
<1>12. ASSUME NEW c \in Clients, UndoSnapshot(c)
      PROVE  RequestInv'
  BY <1>12 DEF UndoSnapshot, RegTypeOK, IdsInv, RequestInv, CreateSteps, LockedSteps, Goto,
     container
<1>13. ASSUME NEW c \in Clients, RenameFind(c)
      PROVE  RequestInv'
  BY <1>13 DEF RenameFind, Found, RegTypeOK, RequestInv, CreateSteps, LockedSteps, Goto, registry,
     container
<1>14. ASSUME NEW c \in Clients, RenameRemove(c)
      PROVE  RequestInv'
  BY <1>14, RegistryAssumption DEF RenameRemove, LockInv, RegTypeOK, IdsInv, RequestInv,
     CreateSteps, LockedSteps, Goto
<1>15. ASSUME NEW c \in Clients, RenamePut(c)
      PROVE  RequestInv'
  BY <1>15, RegistryAssumption DEF RenamePut, LockInv, IdsInv, RequestInv, CreateSteps,
     LockedSteps, Goto, container
<1>16. ASSUME NEW c \in Clients, RenameWrite(c)
      PROVE  RequestInv'
  BY <1>16, RegistryAssumption DEF RenameWrite, LockInv, Found, RegTypeOK, IdsInv, RequestInv,
     CreateSteps, Goto
<1>17. ASSUME NEW c \in Clients, RemoveSnapshot(c)
      PROVE  RequestInv'
  <2>1. CASE dead[target[c]]
    BY <1>17, <2>1 DEF RemoveSnapshot, RegTypeOK, IdsInv, RequestInv, CreateSteps, LockedSteps,
       Goto
  <2>2. CASE ~dead[target[c]]
    BY <1>17, <2>2, RegistryAssumption DEF RemoveSnapshot, RegTypeOK, IdsInv, RequestInv,
       CreateSteps, LockedSteps, Goto
  <2> QED
    BY <2>1, <2>2, Zenon DEF IdsInv, RequestInv, LockedSteps
<1>18. ASSUME NEW c \in Clients, RemoveName(c)
      PROVE  RequestInv'
  BY <1>18, RegistryAssumption DEF RemoveName, RegTypeOK, IdsInv, RequestInv, CreateSteps,
     LockedSteps, Goto, container
<1>19. ASSUME NEW c \in Clients, RemoveCache(c)
      PROVE  RequestInv'
  BY <1>19, RegistryAssumption DEF RemoveCache, LockInv, RegTypeOK, IdsInv, RequestInv,
     CreateSteps, LockedSteps, Goto, container
<1>20. ASSUME NEW c \in Clients, RemoveIO(c)
      PROVE  RequestInv'
  BY <1>20 DEF RemoveIO, RegTypeOK, RequestInv, CreateSteps, LockedSteps, Goto
<1>21. ASSUME NEW c \in Clients, RemoveMeta(c)
      PROVE  RequestInv'
  BY <1>21 DEF RemoveMeta, LockInv, RegTypeOK, IdsInv, RequestInv, CreateSteps, LockedSteps, Goto
<1>22. CASE Restart
  BY <1>22, RegistryAssumption DEF Restart, Loaded, RegTypeOK, IdsInv, RequestInv, CreateSteps,
     LockedSteps
<1>23. CASE UNCHANGED regVars
  BY <1>23, Zenon DEF regVars, RequestInv, registry, container, request
<1> QED
  BY <1>1, <1>2, <1>3, <1>4, <1>5, <1>6, <1>7, <1>8, <1>9, <1>10, <1>11, <1>12, <1>13, <1>14,
     <1>15, <1>16, <1>17, <1>18, <1>19, <1>20, <1>21, <1>22, <1>23, RegistryAssumption, ZenonT(60)
     DEF RegNext

\* The holder of a lock, and what a request finds when it gets the lock.
LEMMA LockStep ==
    ASSUME RegTypeOK, IdsInv, RequestInv, LockInv, ~On("sameID"), [RegNext]_regVars
    PROVE  LockInv'
<1>1. ASSUME NEW c \in Clients, NEW i \in IDs, NEW n \in Names, Create(c, i, n)
      PROVE  LockInv'
  BY <1>1, RegistryAssumption DEF Create, RegTypeOK, IdsInv, RequestInv, LockInv, CreateSteps,
     LockedSteps, Found, Goto, registry
<1>2. ASSUME NEW c \in Clients, NEW o \in Clients, NEW n \in Names, Rename(c, o, n)
      PROVE  LockInv'
  BY <1>2, RegistryAssumption DEF Rename, RegTypeOK, IdsInv, RequestInv, LockInv, CreateSteps,
     LockedSteps, Found, Goto, registry, container
<1>3. ASSUME NEW c \in Clients, NEW o \in Clients, Remove(c, o)
      PROVE  LockInv'
  BY <1>3 DEF Remove, RegTypeOK, IdsInv, RequestInv, LockInv, CreateSteps, LockedSteps, Found,
     Goto, registry, container
<1>4. ASSUME NEW c \in Clients, Reserve(c)
      PROVE  LockInv'
  BY <1>4 DEF Reserve, RegTypeOK, IdsInv, RequestInv, LockInv, CreateSteps, LockedSteps, Found,
     Goto, container
<1>5. ASSUME NEW c \in Clients, CheckName(c)
      PROVE  LockInv'
  BY <1>5, RegistryAssumption DEF CheckName, RegTypeOK, IdsInv, LockInv, LockedSteps, Found, Goto,
     registry, container
<1>6. ASSUME NEW c \in Clients, CreateSnapshot(c)
      PROVE  LockInv'
  BY <1>6 DEF CreateSnapshot, RegTypeOK, RequestInv, LockInv, CreateSteps, LockedSteps, Found,
     Goto, container
<1>7. ASSUME NEW c \in Clients, InitContainerIO(c)
      PROVE  LockInv'
  BY <1>7, RegistryAssumption DEF InitContainerIO, RegTypeOK, IdsInv, RequestInv, LockInv,
     CreateSteps, LockedSteps, Found, Goto, container
<1>8. ASSUME NEW c \in Clients, Write(c)
      PROVE  LockInv'
  BY <1>8 DEF Write, RegTypeOK, RequestInv, LockInv, CreateSteps, LockedSteps, Found, Goto,
     container
<1>9. ASSUME NEW c \in Clients, PutName(c)
      PROVE  LockInv'
  BY <1>9, RegistryAssumption DEF PutName, IdsInv, LockInv, LockedSteps, Found, Goto, container
<1>10. ASSUME NEW c \in Clients, PutCache(c)
      PROVE  LockInv'
  BY <1>10, RegistryAssumption DEF PutCache, RegTypeOK, IdsInv, RequestInv, LockInv, CreateSteps,
     LockedSteps, Found, Goto, container
<1>11. ASSUME NEW c \in Clients, UndoCache(c)
      PROVE  LockInv'
  BY <1>11, RegistryAssumption DEF UndoCache, RegTypeOK, IdsInv, RequestInv, LockInv, CreateSteps,
     LockedSteps, Found, Goto, container
<1>12. ASSUME NEW c \in Clients, UndoSnapshot(c)
      PROVE  LockInv'
  BY <1>12, RegistryAssumption DEF UndoSnapshot, IdsInv, LockInv, LockedSteps, Found, Goto,
     container
<1>13. ASSUME NEW c \in Clients, RenameFind(c)
      PROVE  LockInv'
  BY <1>13 DEF RenameFind, LockInv, LockedSteps, Found, Goto, registry, container
<1>14. ASSUME NEW c \in Clients, RenameRemove(c)
      PROVE  LockInv'
  <2>1. CASE dead[target[c]]
    BY <1>14, <2>1, RegistryAssumption DEF RenameRemove, RegTypeOK, IdsInv, RequestInv, LockInv,
       CreateSteps, LockedSteps, Found, Goto
  <2>2. CASE ~dead[target[c]]
    <3>1. Found(target[c])
      BY <1>14, <2>2, Zenon DEF RenameRemove, RegTypeOK, IdsInv, RequestInv, LockInv, CreateSteps,
         LockedSteps
    <3> QED
      BY <1>14, <3>1, RegistryAssumption DEF RenameRemove, RegTypeOK, RequestInv, LockInv,
         CreateSteps, LockedSteps, Found, Goto
  <2> QED
    BY <2>1, <2>2, RegistryAssumption, Zenon DEF IdsInv, RequestInv, LockInv, LockedSteps
<1>15. ASSUME NEW c \in Clients, RenamePut(c)
      PROVE  LockInv'
  BY <1>15 DEF RenamePut, RegTypeOK, IdsInv, RequestInv, LockInv, CreateSteps, LockedSteps, Found,
     Goto, container
<1>16. ASSUME NEW c \in Clients, RenameWrite(c)
      PROVE  LockInv'
  BY <1>16 DEF RenameWrite, RegTypeOK, IdsInv, LockInv, LockedSteps, Found, Goto
<1>17. ASSUME NEW c \in Clients, RemoveSnapshot(c)
      PROVE  LockInv'
  <2>1. CASE dead[target[c]]
    BY <1>17, <2>1, RegistryAssumption DEF RemoveSnapshot, RegTypeOK, IdsInv, RequestInv, LockInv,
       CreateSteps, LockedSteps, Found, Goto
  <2>2. CASE ~dead[target[c]]
    <3>1. Found(target[c])
      BY <1>17, <2>2, Zenon DEF RemoveSnapshot, IdsInv, RequestInv, LockInv, CreateSteps,
         LockedSteps
    <3> QED
      BY <1>17, <3>1, RegistryAssumption DEF RemoveSnapshot, RegTypeOK, RequestInv, LockInv,
         CreateSteps, LockedSteps, Found, Goto
  <2> QED
    BY <2>1, <2>2, Zenon
<1>18. ASSUME NEW c \in Clients, RemoveName(c)
      PROVE  LockInv'
  BY <1>18 DEF RemoveName, RegTypeOK, IdsInv, RequestInv, LockInv, CreateSteps, LockedSteps,
     Found, Goto, container
<1>19. ASSUME NEW c \in Clients, RemoveCache(c)
      PROVE  LockInv'
  BY <1>19, RegistryAssumption DEF RemoveCache, RegTypeOK, IdsInv, RequestInv, LockInv,
     CreateSteps, LockedSteps, Found, Goto, container
<1>20. ASSUME NEW c \in Clients, RemoveIO(c)
      PROVE  LockInv'
  BY <1>20 DEF RemoveIO, RegTypeOK, IdsInv, RequestInv, LockInv, CreateSteps, LockedSteps, Found,
     Goto
<1>21. ASSUME NEW c \in Clients, RemoveMeta(c)
      PROVE  LockInv'
  BY <1>21, RegistryAssumption DEF RemoveMeta, RegTypeOK, LockInv, LockedSteps, Found, Goto
<1>22. CASE Restart
  BY <1>22, Zenon DEF Restart, RegTypeOK, IdsInv, LockInv, LockedSteps
<1>23. CASE UNCHANGED regVars
  BY <1>23, Zenon DEF regVars, LockInv, Found, registry, container, request
<1> QED
  BY <1>1, <1>2, <1>3, <1>4, <1>5, <1>6, <1>7, <1>8, <1>9, <1>10, <1>11, <1>12, <1>13, <1>14,
     <1>15, <1>16, <1>17, <1>18, <1>19, <1>20, <1>21, <1>22, <1>23, RegistryAssumption, ZenonT(60)
     DEF RegNext, IdsInv
=============================================================================
