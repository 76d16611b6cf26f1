---------------------- MODULE ContainerRegistryProofs ----------------------
(***************************************************************************)
(* Proofs about ContainerRegistry, for any number of clients, ids, names   *)
(* and restarts.                                                           *)
(***************************************************************************)
EXTENDS ContainerRegistryInv

\* The time each leaf of the proofs may take.
USE SMTT(60)

\* A container on disk is cached, or a request works on it.
LEMMA StoredStep ==
    ASSUME RegTypeOK, IdsInv, RequestInv, LockInv, StoredIsCached, [RegNext]_regVars
    PROVE  StoredIsCached'
<1>1. ASSUME NEW c \in Clients, NEW i \in IDs, NEW n \in Names, Create(c, i, n)
      PROVE  StoredIsCached'
  BY <1>1, RegistryAssumption DEF Create, StoredIsCached, Busy, Goto, registry
<1>2. ASSUME NEW c \in Clients, NEW o \in Clients, NEW n \in Names, Rename(c, o, n)
      PROVE  StoredIsCached'
  BY <1>2, RegistryAssumption DEF Rename, RegTypeOK, IdsInv, RequestInv, StoredIsCached, Busy,
     CreateSteps, LockedSteps, Goto, registry, container
<1>3. ASSUME NEW c \in Clients, NEW o \in Clients, Remove(c, o)
      PROVE  StoredIsCached'
  BY <1>3, RegistryAssumption DEF Remove, RegTypeOK, IdsInv, RequestInv, LockInv, StoredIsCached,
     Busy, CreateSteps, LockedSteps, Found, Goto, registry, container
<1>4. ASSUME NEW c \in Clients, Reserve(c)
      PROVE  StoredIsCached'
  BY <1>4, RegistryAssumption DEF Reserve, RegTypeOK, IdsInv, RequestInv, LockInv, StoredIsCached,
     Busy, LockedSteps, Goto, container
<1>5. ASSUME NEW c \in Clients, CheckName(c)
      PROVE  StoredIsCached'
  BY <1>5 DEF CheckName, RegTypeOK, IdsInv, RequestInv, LockInv, StoredIsCached, Busy,
     LockedSteps, Goto, registry, container
<1>6. ASSUME NEW c \in Clients, CreateSnapshot(c)
      PROVE  StoredIsCached'
  BY <1>6 DEF CreateSnapshot, RegTypeOK, IdsInv, RequestInv, LockInv, StoredIsCached, Busy,
     LockedSteps, Goto, container
<1>7. ASSUME NEW c \in Clients, InitContainerIO(c)
      PROVE  StoredIsCached'
  BY <1>7, RegistryAssumption DEF InitContainerIO, RegTypeOK, IdsInv, RequestInv, LockInv,
     StoredIsCached, Busy, LockedSteps, Found, Goto, container
<1>8. ASSUME NEW c \in Clients, Write(c)
      PROVE  StoredIsCached'
  BY <1>8 DEF Write, RegTypeOK, RequestInv, StoredIsCached, Busy, CreateSteps, Goto, container
<1>9. ASSUME NEW c \in Clients, PutName(c)
      PROVE  StoredIsCached'
  BY <1>9, RegistryAssumption DEF PutName, IdsInv, RequestInv, LockInv, StoredIsCached, Busy,
     CreateSteps, LockedSteps, Found, Goto, container
<1>10. ASSUME NEW c \in Clients, PutCache(c)
      PROVE  StoredIsCached'
  BY <1>10, RegistryAssumption DEF PutCache, RegTypeOK, IdsInv, RequestInv, LockInv,
     StoredIsCached, Busy, CreateSteps, LockedSteps, Found, Goto, container
<1>11. ASSUME NEW c \in Clients, UndoCache(c)
      PROVE  StoredIsCached'
  BY <1>11, RegistryAssumption DEF UndoCache, IdsInv, RequestInv, LockInv, StoredIsCached, Busy,
     CreateSteps, LockedSteps, Found, Goto, container
<1>12. ASSUME NEW c \in Clients, UndoSnapshot(c)
      PROVE  StoredIsCached'
  BY <1>12, RegistryAssumption DEF UndoSnapshot, RegTypeOK, IdsInv, RequestInv, LockInv,
     StoredIsCached, Busy, CreateSteps, LockedSteps, Found, Goto, container
<1>13. ASSUME NEW c \in Clients, RenameFind(c)
      PROVE  StoredIsCached'
  BY <1>13, RegistryAssumption DEF RenameFind, RegTypeOK, RequestInv, LockInv, StoredIsCached,
     Busy, LockedSteps, Found, Goto, registry, container
<1>14. ASSUME NEW c \in Clients, RenameRemove(c)
      PROVE  StoredIsCached'
  BY <1>14, RegistryAssumption DEF RenameRemove, RegTypeOK, IdsInv, RequestInv, LockInv,
     StoredIsCached, Busy, CreateSteps, LockedSteps, Found, Goto
<1>15. ASSUME NEW c \in Clients, RenamePut(c)
      PROVE  StoredIsCached'
  BY <1>15, RegistryAssumption DEF RenamePut, IdsInv, RequestInv, LockInv, StoredIsCached, Busy,
     CreateSteps, LockedSteps, Found, Goto, container
<1>16. ASSUME NEW c \in Clients, RenameWrite(c)
      PROVE  StoredIsCached'
  BY <1>16, RegistryAssumption DEF RenameWrite, RegTypeOK, IdsInv, RequestInv, LockInv,
     StoredIsCached, Busy, CreateSteps, LockedSteps, Found, Goto
<1>17. ASSUME NEW c \in Clients, RemoveSnapshot(c)
      PROVE  StoredIsCached'
  BY <1>17, RegistryAssumption DEF RemoveSnapshot, RegTypeOK, RequestInv, StoredIsCached, Busy,
     CreateSteps, LockedSteps, Goto
<1>18. ASSUME NEW c \in Clients, RemoveName(c)
      PROVE  StoredIsCached'
  BY <1>18, RegistryAssumption DEF RemoveName, IdsInv, RequestInv, LockInv, StoredIsCached, Busy,
     CreateSteps, LockedSteps, Goto, container
<1>19. ASSUME NEW c \in Clients, RemoveCache(c)
      PROVE  StoredIsCached'
  BY <1>19, RegistryAssumption DEF RemoveCache, LockInv, StoredIsCached, Busy, LockedSteps, Found,
     Goto, container
<1>20. ASSUME NEW c \in Clients, RemoveIO(c)
      PROVE  StoredIsCached'
  BY <1>20 DEF RemoveIO, RegTypeOK, IdsInv, StoredIsCached, Busy, Goto
<1>21. ASSUME NEW c \in Clients, RemoveMeta(c)
      PROVE  StoredIsCached'
  BY <1>21 DEF RemoveMeta, RegTypeOK, IdsInv, StoredIsCached, Busy, Goto
<1>22. CASE Restart
  BY <1>22, Zenon DEF Restart, Loaded, IdsInv, RequestInv, StoredIsCached
<1>23. CASE UNCHANGED regVars
  BY <1>23, Zenon DEF regVars, StoredIsCached, Busy, registry, container, request
<1> QED
  BY <1>1, <1>2, <1>3, <1>4, <1>5, <1>6, <1>7, <1>8, <1>9, <1>10, <1>11, <1>12, <1>13, <1>14,
     <1>15, <1>16, <1>17, <1>18, <1>19, <1>20, <1>21, <1>22, <1>23, RegistryAssumption, ZenonT(60)
     DEF RegNext, RegTypeOK, IdsInv, RequestInv

\* No two requests are under way for one name.
LEMMA WantedStep ==
    ASSUME RegTypeOK, RequestInv, WantedInv, ~On("sameName"), [RegNext]_regVars
    PROVE  WantedInv'
<1>1. ASSUME NEW c \in Clients, NEW i \in IDs, NEW n \in Names, Create(c, i, n)
      PROVE  WantedInv'
  BY <1>1, Zenon DEF Create, Wanted, RegTypeOK, WantedInv, Goto
<1>2. ASSUME NEW c \in Clients, NEW o \in Clients, NEW n \in Names, Rename(c, o, n)
      PROVE  WantedInv'
  BY <1>2 DEF Rename, Wanted, RegTypeOK, WantedInv, Goto, container
<1>3. ASSUME NEW c \in Clients, NEW o \in Clients, Remove(c, o)
      PROVE  WantedInv'
  BY <1>3 DEF Remove, RegTypeOK, WantedInv, Goto, registry, container
<1>4. ASSUME NEW c \in Clients,
             Reserve(c) \/ CheckName(c) \/ CreateSnapshot(c) \/ InitContainerIO(c) \/ Write(c) \/
             PutName(c) \/ PutCache(c) \/ UndoCache(c) \/ UndoSnapshot(c)
      PROVE  WantedInv'
  BY <1>4, RegistryAssumption DEF Reserve, CheckName, CreateSnapshot, InitContainerIO, Write,
     PutName, PutCache, UndoCache, UndoSnapshot, RegTypeOK, WantedInv, Goto
<1>5. ASSUME NEW c \in Clients,
             RenameFind(c) \/ RenameRemove(c) \/ RenamePut(c) \/ RenameWrite(c) \/
             RemoveSnapshot(c) \/ RemoveName(c) \/ RemoveCache(c) \/ RemoveIO(c) \/
             RemoveMeta(c)
      PROVE  WantedInv'
  <2>1. UNCHANGED new
    BY <1>5, Zenon DEF RenameFind, RenameRemove, RenamePut, RenameWrite, RemoveSnapshot,
       RemoveName, RemoveCache, RemoveIO, RemoveMeta
  <2>2. pc[c] # "idle" /\ \A d \in Clients \ {c} : pc'[d] = pc[d]
    BY <1>5 DEF RenameFind, RenameRemove, RenamePut, RenameWrite, RemoveSnapshot, RemoveName,
       RemoveCache, RemoveIO, RemoveMeta, RegTypeOK, Goto
  <2> QED
    BY <2>1, <2>2, Zenon DEF WantedInv
<1>6. CASE Restart
  BY <1>6, Zenon DEF Restart, WantedInv
<1>7. CASE UNCHANGED regVars
  BY <1>7, Zenon DEF regVars, WantedInv, request
<1> QED
  BY <1>1, <1>2, <1>3, <1>4, <1>5, <1>6, <1>7, RegistryAssumption, Zenon DEF RegNext, RegTypeOK

\* A restart is counted.
LEMMA RestartCounts == RegTypeOK /\ Restart => crashes' # 0
  BY DEF RegTypeOK, Restart

\* Nothing else changes the count.
LEMMA CrashesCounted == RegTypeOK /\ [RegNext]_regVars /\ crashes' = 0 => crashes = 0
<1>1. ASSUME NEW c \in Clients, \E i \in IDs, n \in Names : Create(c, i, n)
      PROVE  crashes' = crashes
  BY <1>1, Zenon DEF Create
<1>2. ASSUME NEW c \in Clients, NEW o \in Clients,
             Remove(c, o) \/ \E n \in Names : Rename(c, o, n)
      PROVE  crashes' = crashes
  BY <1>2, Zenon DEF Remove, Rename
<1>3. ASSUME NEW c \in Clients,
             Reserve(c) \/ CheckName(c) \/ CreateSnapshot(c) \/ InitContainerIO(c) \/ Write(c)
             \/ PutName(c) \/ PutCache(c) \/ UndoCache(c) \/ UndoSnapshot(c)
      PROVE  crashes' = crashes
  BY <1>3, Zenon DEF Reserve, CheckName, CreateSnapshot, InitContainerIO, Write, PutName,
     PutCache, UndoCache, UndoSnapshot
<1>4. ASSUME NEW c \in Clients,
             RenameFind(c) \/ RenameRemove(c) \/ RenamePut(c) \/ RenameWrite(c)
      PROVE  crashes' = crashes
  BY <1>4, Zenon DEF RenameFind, RenameRemove, RenamePut, RenameWrite
<1>5. ASSUME NEW c \in Clients,
             RemoveSnapshot(c) \/ RemoveName(c) \/ RemoveCache(c) \/ RemoveIO(c) \/ RemoveMeta(c)
      PROVE  crashes' = crashes
  BY <1>5, Zenon DEF RemoveSnapshot, RemoveName, RemoveCache, RemoveIO, RemoveMeta
<1> QED
  BY <1>1, <1>2, <1>3, <1>4, <1>5, RestartCounts, Zenon DEF RegNext, regVars

\* Until a restart, what a container needs is there, and its own.
LEMMA CompleteStep ==
    ASSUME RegTypeOK, IdsInv, RequestInv, LockInv, CompleteInv, ~On("sameID"),
           crashes' = 0, [RegNext]_regVars
    PROVE  CompleteInv'
<1>1. ASSUME NEW c \in Clients, NEW i \in IDs, NEW n \in Names, Create(c, i, n)
      PROVE  CompleteInv'
  BY <1>1, RegistryAssumption DEF Create, IdsInv, CompleteInv, Complete, Found, Goto, registry
<1>2. ASSUME NEW c \in Clients, NEW o \in Clients, NEW n \in Names, Rename(c, o, n)
      PROVE  CompleteInv'
  BY <1>2, RegistryAssumption DEF Rename, RequestInv, LockInv, CompleteInv, Complete, CreateSteps,
     LockedSteps, Found, Goto, registry, container
<1>3. ASSUME NEW c \in Clients, NEW o \in Clients, Remove(c, o)
      PROVE  CompleteInv'
  BY <1>3, RegistryAssumption DEF Remove, RequestInv, LockInv, CompleteInv, Complete, CreateSteps,
     LockedSteps, Found, Goto, registry, container
<1>4. ASSUME NEW c \in Clients, Reserve(c)
      PROVE  CompleteInv'
  BY <1>4, RegistryAssumption DEF Reserve, RegTypeOK, IdsInv, CompleteInv, Complete, Found, Goto,
     container
<1>5. ASSUME NEW c \in Clients, CheckName(c)
      PROVE  CompleteInv'
  BY <1>5 DEF CheckName, RegTypeOK, IdsInv, LockInv, CompleteInv, Complete, LockedSteps, Found,
     Goto, registry, container
<1>6. ASSUME NEW c \in Clients, CreateSnapshot(c)
      PROVE  CompleteInv'
  BY <1>6 DEF CreateSnapshot, RegTypeOK, IdsInv, RequestInv, LockInv, CompleteInv, Complete,
     CreateSteps, LockedSteps, Found, Goto, container
<1>7. ASSUME NEW c \in Clients, InitContainerIO(c)
      PROVE  CompleteInv'
  BY <1>7, RegistryAssumption DEF InitContainerIO, RegTypeOK, IdsInv, RequestInv, LockInv,
     CompleteInv, Complete, CreateSteps, LockedSteps, Found, Goto, container
<1>8. ASSUME NEW c \in Clients, Write(c)
      PROVE  CompleteInv'
  BY <1>8, RegistryAssumption DEF Write, RegTypeOK, IdsInv, RequestInv, LockInv, CompleteInv,
     Complete, CreateSteps, LockedSteps, Found, Goto, container
<1>9. ASSUME NEW c \in Clients, PutName(c)
      PROVE  CompleteInv'
  BY <1>9, RegistryAssumption DEF PutName, IdsInv, LockInv, CompleteInv, Complete, LockedSteps,
     Found, Goto, container
<1>10. ASSUME NEW c \in Clients, PutCache(c)
      PROVE  CompleteInv'
  BY <1>10, RegistryAssumption DEF PutCache, IdsInv, RequestInv, LockInv, CompleteInv, Complete,
     LockedSteps, Found, Goto, container
<1>11. ASSUME NEW c \in Clients, UndoCache(c)
      PROVE  CompleteInv'
  BY <1>11, RegistryAssumption DEF UndoCache, RegTypeOK, IdsInv, LockInv, CompleteInv, Complete,
     LockedSteps, Found, Goto, container
<1>12. ASSUME NEW c \in Clients, UndoSnapshot(c)
      PROVE  CompleteInv'
  BY <1>12 DEF UndoSnapshot, RegTypeOK, IdsInv, RequestInv, LockInv, CompleteInv, Complete,
     CreateSteps, LockedSteps, Found, Goto, container
<1>13. ASSUME NEW c \in Clients, RenameFind(c)
      PROVE  CompleteInv'
  BY <1>13, RegistryAssumption DEF RenameFind, CompleteInv, Complete, Found, Goto, registry,
     container
<1>14. ASSUME NEW c \in Clients, RenameRemove(c)
      PROVE  CompleteInv'
  <2>1. CASE dead[target[c]]
    BY <1>14, <2>1, RegistryAssumption DEF RenameRemove, RegTypeOK, CompleteInv, Complete, Found,
       Goto
  <2>2. CASE ~dead[target[c]]
    <3> PICK o \in Clients : o = target[c]
      BY <1>14 DEF RenameRemove, RegTypeOK, RequestInv, CreateSteps, LockedSteps
    <3>1. Found(o) /\ pc[o] \notin CreateSteps /\ lock[o] = None
      BY <1>14, <2>2, Zenon DEF RenameRemove, IdsInv, RequestInv, LockInv, LockedSteps, Found
    <3>2. lock'[o] = c /\ pc'[c] = "renamePut" /\ pc'[o] \notin CreateSteps
      BY <1>14, <2>2, <3>1, RegistryAssumption DEF RenameRemove, RegTypeOK, CompleteInv,
         CreateSteps, Found, Goto
    <3>3. \A x \in Clients \ {o} :
             /\ lock'[x] = lock[x] /\ lock[x] # c /\ name'[x] = name[x]
             /\ lock[x] # None => pc'[lock[x]] = pc[lock[x]]
             /\ pc'[x] = pc[x] \/ pc'[x] = "renamePut"
      BY <1>14, <2>2, RegistryAssumption DEF RenameRemove, RegTypeOK, IdsInv, LockInv,
         LockedSteps, Found, Goto
    <3>4. UNCHANGED <<cache, ios, snap, meta, id>>
      BY <1>14, Zenon DEF RenameRemove, IdsInv, RequestInv, LockedSteps
    <3>5. Complete(o)'
      <4>1. snap'[id'[o]] = o /\ ios'[id'[o]] = o
        BY <3>1, <3>4, ZenonT(60) DEF IdsInv, RequestInv, CompleteInv, Complete, Found
      <4> QED
        BY <3>2, <4>1, RegistryAssumption, Zenon DEF Complete, CreateSteps
    <3>6. ASSUME NEW x \in Clients \ {o}
          PROVE  Complete(x)'
      BY <3>3, <3>4, RegistryAssumption DEF RegTypeOK, LockInv, CompleteInv, Complete, Found
    <3> QED
      BY <3>5, <3>6, ZenonT(60) DEF CompleteInv
  <2> QED
    BY <2>1, <2>2, Zenon DEF CompleteInv
<1>15. ASSUME NEW c \in Clients, RenamePut(c)
      PROVE  CompleteInv'
  BY <1>15, RegistryAssumption DEF RenamePut, CompleteInv, Complete, Found, Goto, container
<1>16. ASSUME NEW c \in Clients, RenameWrite(c)
      PROVE  CompleteInv'
  BY <1>16, RegistryAssumption DEF RenameWrite, RegTypeOK, IdsInv, RequestInv, LockInv,
     CompleteInv, Complete, CreateSteps, LockedSteps, Found, Goto
<1>17. ASSUME NEW c \in Clients, RemoveSnapshot(c)
      PROVE  CompleteInv'
  BY <1>17, RegistryAssumption DEF RemoveSnapshot, RegTypeOK, RequestInv, LockInv, CompleteInv,
     Complete, CreateSteps, Found, Goto
<1>18. ASSUME NEW c \in Clients, RemoveName(c)
      PROVE  CompleteInv'
  BY <1>18 DEF RemoveName, IdsInv, LockInv, CompleteInv, Complete, LockedSteps, Found, Goto,
     container
<1>19. ASSUME NEW c \in Clients, RemoveCache(c)
      PROVE  CompleteInv'
  BY <1>19, RegistryAssumption DEF RemoveCache, CompleteInv, Complete, Found, Goto, container
<1>20. ASSUME NEW c \in Clients, RemoveIO(c)
      PROVE  CompleteInv'
  <2> PICK o \in Clients : o = target[c]
    BY <1>20 DEF RemoveIO, RegTypeOK, RequestInv, CreateSteps
  <2>1. ~Found(o) /\ pc[o] \notin CreateSteps
    BY <1>20, Zenon DEF RemoveIO, RequestInv, LockInv, LockedSteps
  <2>2. /\ UNCHANGED <<cache, meta, snap, id, name, lock>>
        /\ \A x \in Clients : pc'[x] = pc[x] \/ (pc[x] = "removeIO" /\ pc'[x] = "removeMeta")
    BY <1>20, RegistryAssumption DEF RemoveIO, RegTypeOK, Goto
  <2>3. Complete(o)'
    BY <2>1, <2>2 DEF Complete, CreateSteps, Found
  <2>4. ASSUME NEW x \in Clients \ {o}
        PROVE  Complete(x)'
    <3>1. id[x] # None => id[x] # id[o] /\ ios'[id[x]] = ios[id[x]]
      BY <1>20, Zenon DEF RemoveIO, RegTypeOK, IdsInv
    <3>2. Complete(x) /\ (Found(x) => id[x] # None) /\ (Found(x)' <=> Found(x))
      BY <2>2, Zenon DEF CompleteInv, Found
    <3>3. /\ pc[x] \in CreateSteps => id[x] # None
          /\ lock[x] # None => lock[x] \in Clients
      BY Zenon DEF RequestInv, RegTypeOK
    <3> QED
      BY <2>2, <3>1, <3>2, <3>3 DEF Complete, CreateSteps
  <2> QED
    BY <2>3, <2>4, ZenonT(60) DEF CompleteInv
<1>21. ASSUME NEW c \in Clients, RemoveMeta(c)
      PROVE  CompleteInv'
  <2> PICK o \in Clients : o = target[c]
    BY <1>21 DEF RemoveMeta, RegTypeOK, RequestInv, CreateSteps
  <2>1. ~Found(o) /\ lock[o] = c /\ pc[o] \notin CreateSteps
    BY <1>21, Zenon DEF RemoveMeta, RegTypeOK, RequestInv, LockInv, LockedSteps
  <2>2. UNCHANGED <<cache, ios, snap, id, name>> /\ pc'[o] \notin CreateSteps
    BY <1>21, <2>1, RegistryAssumption, Zenon DEF RemoveMeta, RegTypeOK, CreateSteps, Found, Goto
  <2>3. Complete(o)'
    BY <2>1, <2>2, Zenon DEF IdsInv, Complete, CreateSteps, Found
  <2>4. ASSUME NEW x \in Clients \ {o}
        PROVE  Complete(x)'
    <3>1. id[x] # None => id[x] # id[o] /\ meta'[id[x]] = meta[id[x]]
      BY <1>21, Zenon DEF RemoveMeta, RegTypeOK, IdsInv
    <3>2. /\ lock'[x] = lock[x] /\ lock[x] # c
          /\ lock[x] # None => pc'[lock[x]] = pc[lock[x]]
          /\ pc'[x] = pc[x] \/ pc'[x] = "idle"
      BY <1>21, RegistryAssumption DEF RemoveMeta, RegTypeOK, LockInv, Found, Goto
    <3>3. Complete(x) /\ (Found(x) => id[x] # None) /\ (Found(x)' <=> Found(x))
      BY <2>2, Zenon DEF CompleteInv, Found
    <3>4. pc[x] \in CreateSteps => id[x] # None
      BY Zenon DEF RequestInv
    <3> QED
      BY <2>2, <3>1, <3>2, <3>3, <3>4 DEF Complete, CreateSteps
  <2> QED
    BY <2>3, <2>4, ZenonT(60) DEF CompleteInv
<1>22. CASE Restart
  BY <1>22, RestartCounts, Zenon DEF IdsInv, RequestInv
<1>23. CASE UNCHANGED regVars
  BY <1>23, Zenon DEF regVars, CompleteInv, Complete, Found, registry, container, request
<1> QED
  BY <1>1, <1>2, <1>3, <1>4, <1>5, <1>6, <1>7, <1>8, <1>9, <1>10, <1>11, <1>12, <1>13, <1>14,
     <1>15, <1>16, <1>17, <1>18, <1>19, <1>20, <1>21, <1>22, <1>23, RegistryAssumption, ZenonT(60)
     DEF RegNext

\* Until a restart, a name resolves to the container that has it.
LEMMA NamesStep ==
    ASSUME RegTypeOK, IdsInv, RequestInv, LockInv, WantedInv, NamesInv,
           ~On("sameID"), ~On("sameName"), crashes' = 0, [RegNext]_regVars
    PROVE  NamesInv'
<1>1. ASSUME NEW c \in Clients, NEW i \in IDs, NEW n \in Names, Create(c, i, n)
      PROVE  NamesInv'
  BY <1>1, RegistryAssumption DEF Create, RegTypeOK, IdsInv, RequestInv, NamesInv, LockedSteps,
     Found, Goto, registry
<1>2. ASSUME NEW c \in Clients, NEW o \in Clients, NEW n \in Names, Rename(c, o, n)
      PROVE  NamesInv'
  BY <1>2, RegistryAssumption DEF Rename, RegTypeOK, LockInv, NamesInv, Found, Goto, registry,
     container
<1>3. ASSUME NEW c \in Clients, NEW o \in Clients, Remove(c, o)
      PROVE  NamesInv'
  BY <1>3 DEF Remove, RegTypeOK, IdsInv, RequestInv, LockInv, WantedInv, NamesInv, Found, Goto,
     registry, container
<1>4. ASSUME NEW c \in Clients, Reserve(c)
      PROVE  NamesInv'
  BY <1>4, RegistryAssumption DEF Reserve, RegTypeOK, IdsInv, RequestInv, LockInv, WantedInv,
     NamesInv, Found, Goto, container
<1>5. ASSUME NEW c \in Clients, CheckName(c)
      PROVE  NamesInv'
  BY <1>5 DEF CheckName, RegTypeOK, IdsInv, RequestInv, LockInv, WantedInv, NamesInv, LockedSteps,
     Found, Goto, registry, container
<1>6. ASSUME NEW c \in Clients, CreateSnapshot(c)
      PROVE  NamesInv'
  BY <1>6 DEF CreateSnapshot, RegTypeOK, IdsInv, RequestInv, WantedInv, NamesInv, CreateSteps,
     Found, Goto, container
<1>7. ASSUME NEW c \in Clients, InitContainerIO(c)
      PROVE  NamesInv'
  BY <1>7 DEF InitContainerIO, RegTypeOK, IdsInv, NamesInv, Found, Goto, container
<1>8. ASSUME NEW c \in Clients, Write(c)
      PROVE  NamesInv'
  BY <1>8 DEF Write, RegTypeOK, LockInv, NamesInv, LockedSteps, Found, Goto, container
<1>9. ASSUME NEW c \in Clients, PutName(c)
      PROVE  NamesInv'
  BY <1>9 DEF PutName, RegTypeOK, RequestInv, LockInv, WantedInv, NamesInv, CreateSteps, Found,
     Goto, container
<1>10. ASSUME NEW c \in Clients, PutCache(c)
      PROVE  NamesInv'
  BY <1>10, RegistryAssumption DEF PutCache, IdsInv, LockInv, NamesInv, LockedSteps, Found, Goto,
     container
<1>11. ASSUME NEW c \in Clients, UndoCache(c)
      PROVE  NamesInv'
  BY <1>11, RegistryAssumption DEF UndoCache, IdsInv, LockInv, NamesInv, LockedSteps, Found, Goto,
     container
<1>12. ASSUME NEW c \in Clients, UndoSnapshot(c)
      PROVE  NamesInv'
  BY <1>12 DEF UndoSnapshot, IdsInv, LockInv, NamesInv, LockedSteps, Found, Goto, container
<1>13. ASSUME NEW c \in Clients, RenameFind(c)
      PROVE  NamesInv'
  BY <1>13 DEF RenameFind, LockInv, NamesInv, LockedSteps, Found, Goto, registry, container
<1>14. ASSUME NEW c \in Clients, RenameRemove(c)
      PROVE  NamesInv'
  BY <1>14, RegistryAssumption DEF RenameRemove, RegTypeOK, IdsInv, RequestInv, LockInv,
     WantedInv, NamesInv, CreateSteps, LockedSteps, Found, Goto
<1>15. ASSUME NEW c \in Clients, RenamePut(c)
      PROVE  NamesInv'
  BY <1>15 DEF RenamePut, RegTypeOK, IdsInv, RequestInv, LockInv, WantedInv, NamesInv,
     CreateSteps, Found, Goto, container
<1>16. ASSUME NEW c \in Clients, RenameWrite(c)
      PROVE  NamesInv'
  BY <1>16, RegistryAssumption DEF RenameWrite, IdsInv, LockInv, NamesInv, LockedSteps, Found,
     Goto
<1>17. ASSUME NEW c \in Clients, RemoveSnapshot(c)
      PROVE  NamesInv'
  BY <1>17, RegistryAssumption DEF RemoveSnapshot, RegTypeOK, IdsInv, RequestInv, LockInv,
     NamesInv, Found, Goto
<1>18. ASSUME NEW c \in Clients, RemoveName(c)
      PROVE  NamesInv'
  <2>1. \A d \in Clients : pc'[d] \in CreateSteps => d # target[c]
    BY <1>18, RegistryAssumption DEF RemoveName, RegTypeOK, IdsInv, RequestInv, WantedInv,
       CreateSteps, LockedSteps, Goto
  <2>2. nameToID[name[target[c]]] = id[target[c]]
    BY <1>18, RegistryAssumption DEF RemoveName, RegTypeOK, IdsInv, RequestInv, LockInv, NamesInv,
       CreateSteps, LockedSteps, container
  <2>3. \A d \in Clients : id[d] # None /\ nameToID[name[d]] = id[d] /\ d # target[c] =>
           nameToID'[name[d]] = id[d]
    BY <1>18, <2>2, RegistryAssumption DEF RemoveName, RegTypeOK, IdsInv, RequestInv, WantedInv,
       CreateSteps, container
  <2> QED
    BY <1>18, <2>1, <2>3, RegistryAssumption DEF RemoveName, RegTypeOK, IdsInv, RequestInv,
       LockInv, WantedInv, NamesInv, CreateSteps, LockedSteps, Found, Goto, container
<1>19. ASSUME NEW c \in Clients, RemoveCache(c)
      PROVE  NamesInv'
  BY <1>19, RegistryAssumption DEF RemoveCache, WantedInv, NamesInv, Found, Goto, container
<1>20. ASSUME NEW c \in Clients, RemoveIO(c)
      PROVE  NamesInv'
  BY <1>20 DEF RemoveIO, LockInv, WantedInv, NamesInv, Found, Goto
<1>21. ASSUME NEW c \in Clients, RemoveMeta(c)
      PROVE  NamesInv'
  BY <1>21, RegistryAssumption DEF RemoveMeta, RegTypeOK, LockInv, WantedInv, NamesInv,
     LockedSteps, Found, Goto
<1>22. CASE Restart
  BY <1>22, RestartCounts, RegistryAssumption, Zenon DEF IdsInv, RequestInv, LockInv, NamesInv
<1>23. CASE UNCHANGED regVars
  BY <1>23, Zenon DEF regVars, NamesInv, Found, registry, container, request
<1> QED
  BY <1>1, <1>2, <1>3, <1>4, <1>5, <1>6, <1>7, <1>8, <1>9, <1>10, <1>11, <1>12, <1>13, <1>14,
     <1>15, <1>16, <1>17, <1>18, <1>19, <1>20, <1>21, <1>22, <1>23, RegistryAssumption, ZenonT(60)
     DEF RegNext, LockInv, WantedInv

-----------------------------------------------------------------------------

\* The invariant holds in every behaviour in which no two clients ask for one id
\* or, at the same time, for one name.
LEMMA RegistryInvariant ==
    RegSpec /\ NoneOf({"sameID", "sameName"}) => [](Inv /\ NoneOf({"sameID", "sameName"}))
<1>1. RegInit => Inv
  BY RegistryAssumption DEF RegInit, Inv, RegTypeOK, StoredIsCached, IdsInv, RequestInv, LockInv,
     WantedInv, CompleteInv, Complete, NamesInv, CreateSteps, LockedSteps, Found
<1>2. ASSUME Inv, NoneOf({"sameID", "sameName"}),
             [RegNext /\ UNCHANGED cases]_<<regVars, cases>>
      PROVE  Inv' /\ NoneOf({"sameID", "sameName"})'
  <2>1. [RegNext]_regVars /\ cases' = cases /\ ~On("sameID") /\ ~On("sameName")
    BY <1>2, Zenon DEF NoneOf, On
  <2>2. RegTypeOK' /\ IdsInv' /\ RequestInv' /\ LockInv'
    BY <1>2, <2>1, TypeStep, IdsStep, RequestStep, LockStep, Zenon DEF Inv
  <2>3. StoredIsCached' /\ WantedInv'
    BY <1>2, <2>1, StoredStep, WantedStep, Zenon DEF Inv
  <2>4. ASSUME crashes' = 0
        PROVE  CompleteInv' /\ NamesInv'
    <3>1. crashes = 0
      BY <1>2, <2>4, CrashesCounted, Zenon DEF Inv
    <3> QED
      BY <1>2, <2>1, <2>4, <3>1, CompleteStep, NamesStep, Zenon DEF Inv
  <2> QED
    BY <1>2, <2>2, <2>3, <2>4, Zenon DEF Inv, NoneOf
<1> QED
  BY <1>1, <1>2, PTL DEF RegSpec

\* The cache, the names, the IOs, the snapshots and the meta.json files tell of
\* the same containers: for any number of clients, whatever Create, Rename and
\* Remove do at the same time, wherever Create fails and, for what is on disk,
\* whenever the daemon dies and loads its containers again.
THEOREM RegistryStaysInAgreement ==
    RegSpec /\ NoneOf({"sameID", "sameName"}) => []RegistryAgrees
<1>1. Inv => RegistryAgrees
  <2> SUFFICES ASSUME Inv
               PROVE  RegistryAgrees
    BY Zenon
  <2>1. CachedIsComplete
    BY Zenon DEF Inv, CachedIsComplete, CompleteInv, Complete, Busy
  <2>2. NameResolves
    BY Zenon DEF Inv, NameResolves, NamesInv, Busy
  <2> QED
    BY <2>1, <2>2, Zenon DEF Inv, RegistryAgrees
<1> QED
  BY <1>1, RegistryInvariant, PTL
=============================================================================
