-------------------------- MODULE VolumeRefsProofs --------------------------
(***************************************************************************)
(* Proofs about VolumeRefs, for every finite set of containers and of      *)
(* clients, and every choice of the cases.                                 *)
(***************************************************************************)
EXTENDS VolumeRefs, FiniteSetTheorems, TLAPS

\* Which handler is at work at which step, and what its container is then.
HandlerOf(c) ==
    /\ stage[c] \in {"make", "path"} => op[c] = "create"
    /\ stage[c] \in {"attachGet", "attach"} => op[c] \in {"create", "start", "copy"}
    /\ stage[c] = "run" => op[c] = "start"
    /\ stage[c] \in {"removeGet", "remove"} => op[c] = "remove"
    /\ stage[c] # "idle" =>
          \/ /\ op[c] = "create"
             /\ status[c] = "none" \/ (stage[c] = "return" /\ status[c] = "created")
          \/ op[c] \in {"start", "copy", "remove"} /\ status[c] \in {"created", "running"}
    /\ stage[c] = "idle" /\ op[c] = "remove" => status[c] = "gone"

\* Whatever the cases: a volume that does not exist has neither references nor
\* a mount.
RefsInv ==
    /\ RefTypeOK /\ MountHasRef
    /\ ~exists => refs = {} /\ ~mounted
    /\ \A c \in Containers : HandlerOf(c)

\* Without "overlap" one process is at work, and what it has read is current.
SerialInv ==
    /\ \A p, q \in Procs : stage[p] # "idle" /\ stage[q] # "idle" => p = q
    /\ \A c \in Containers : stage[c] \in {"attach", "detach"} => read[c] = RefsSeen
    /\ \A p \in Procs : stage[p] = "remove" => RefsSeen = {}

\* A container is not among the references before Create attaches the volume,
\* after Create failed, and after its removal detached the volume.
StaleInv ==
    \A c \in Containers : c \in refs =>
       /\ stage[c] = "idle" => Uses(c)
       /\ stage[c] \notin {"make", "removeGet", "remove"}
       /\ stage[c] \in {"attachGet", "attach", "detachGet", "detach"} => op[c] # "create"
       /\ stage[c] = "return" => Uses(c)

\* A container that has the volume, or is about to have it, is among the
\* references, and one that starts is the only one.
KeptInv ==
    \A c \in Containers :
       /\ Uses(c) \/ stage[c] = "path" => c \in refs
       /\ stage[c] \in {"make", "attachGet", "attach"} /\ op[c] = "create" => c \notin refs
       /\ status[c] = "none" /\ stage[c] = "idle" => c \notin refs
       /\ op[c] = "start" /\ stage[c] # "idle" =>
             stage[c] \in {"attachGet", "attach", "run", "return"}
       /\ op[c] = "start" /\ stage[c] \in {"attachGet", "attach"} =>
             \A d \in Containers \ {c} : ~Uses(d)
       /\ op[c] # "copy"

Inv ==
    /\ RefsInv
    /\ ~On("overlap") => SerialInv
    /\ NoneOf({"overlap", "createFails", "detachFails"}) /\ ~Remote => StaleInv
    /\ NoneOf({"overlap", "sharedStart", "startFails", "copy"}) /\ ~Remote => KeptInv

-----------------------------------------------------------------------------
\* The time each leaf of the proofs may take.
USE SMTT(60)

\* MayBegin without "overlap": nobody else is at work.
LEMMA SerialBegin ==
    ASSUME ~On("overlap"), NEW p \in Procs, MayBegin(p)
    PROVE  \A q \in Procs : stage[q] = "idle"
<1> DEFINE busy == {q \in Procs : stage[q] # "idle"}
<1>1. IsFiniteSet(busy)
  BY VolumeAssumption, FS_Subset, Zenon DEF Procs
<1>2. Cardinality(busy) \in Nat /\ Cardinality(busy) < 1
  BY <1>1, FS_CardinalityType, Zenon DEF MayBegin
<1>3. busy = {}
  BY <1>1, <1>2, FS_EmptySet
<1> QED
  BY <1>3, Zenon

\* The types, the mount and the order of a handler's steps, in every case.
LEMMA RefsStep == RefsInv /\ [RefNext]_refVars => RefsInv'
<1> SUFFICES ASSUME RefsInv, [RefNext]_refVars
             PROVE  RefsInv'
    BY Zenon
<1> USE VolumeAssumption
        DEF RefsInv, RefTypeOK, MountHasRef, HandlerOf, Enter, Procs
<1>1. ASSUME NEW c \in Containers,
             CreateContainer(c) \/ Start(c) \/ Copy(c) \/ RemoveContainer(c)
      PROVE  RefsInv'
  BY <1>1 DEF CreateContainer, Start, Copy, RemoveContainer, Begin, MayBegin, Uses
<1>2. ASSUME NEW c \in Containers, CreateVolume(c)
      PROVE  RefsInv'
  <2>1. \A d \in Containers : HandlerOf(d)'
    BY <1>2 DEF CreateVolume
  <2>2. CASE exists
    <3>1. exists' = TRUE /\ refs' = refs
      BY <1>2, <2>2, Zenon DEF CreateVolume
    <3> QED
      BY <1>2, <2>1, <3>1, ZenonT(60) DEF CreateVolume
  <2>3. CASE ~exists
    <3>1. exists' \in BOOLEAN /\ refs' = {} /\ ~mounted'
      BY <1>2, <2>3, Zenon DEF CreateVolume
    <3> QED
      BY <1>2, <2>1, <3>1 DEF CreateVolume
  <2> QED
    BY <2>2, <2>3, Zenon
<1>3. ASSUME NEW c \in Containers, CreatePath(c)
      PROVE  RefsInv'
  BY <1>3 DEF CreatePath
<1>4. ASSUME NEW c \in Containers, AttachGet(c)
      PROVE  RefsInv'
  BY <1>4 DEF AttachGet, RefsSeen
<1>5. ASSUME NEW c \in Containers, AttachVolume(c)
      PROVE  RefsInv'
  <2>1. CASE exists /\ Enter(c, AfterAttach(op[c])) /\ mounted' = TRUE
              /\ refs' = IF c \in read[c] THEN {c} ELSE read[c] \cup {c}
    <3>1. op[c] \in {"create", "start", "copy"}
      BY <1>5, Zenon DEF AttachVolume
    <3>2. RefTypeOK' /\ \A d \in Containers : HandlerOf(d)'
      BY <1>5, <2>1, <3>1 DEF AttachVolume, AfterAttach
    <3>3. c \in refs' /\ exists'
      BY <1>5, <2>1, Zenon DEF AttachVolume
    <3> QED
      BY <3>2, <3>3, Zenon
  <2>2. CASE Enter(c, "return") /\ UNCHANGED <<refs, mounted>>
    BY <1>5, <2>2 DEF AttachVolume
  <2> QED
    BY <1>5, <2>1, <2>2, Zenon DEF AttachVolume
<1>6. ASSUME NEW c \in Containers, DetachGet(c)
      PROVE  RefsInv'
  BY <1>6 DEF DetachGet, RefsSeen, AfterDetach
<1>7. ASSUME NEW c \in Containers, DetachVolume(c)
      PROVE  RefsInv'
  <2>1. RefTypeOK' /\ \A d \in Containers : HandlerOf(d)'
    BY <1>7, ZenonT(60) DEF DetachVolume, AfterDetach
  <2>2. CASE exists /\ refs' = read[c] \ {c}
              /\ mounted' = (mounted /\ read[c] \ {c} # {})
    BY <1>7, <2>1, <2>2, Zenon DEF DetachVolume
  <2>3. CASE UNCHANGED <<refs, mounted>>
    BY <1>7, <2>1, <2>3, Zenon DEF DetachVolume
  <2> QED
    BY <1>7, <2>2, <2>3, Zenon DEF DetachVolume
<1>8. ASSUME NEW c \in Containers, Run(c)
      PROVE  RefsInv'
  BY <1>8 DEF Run
<1>9. ASSUME NEW c \in Containers, Stop(c)
      PROVE  RefsInv'
  BY <1>9 DEF Stop, MayBegin
<1>10. ASSUME NEW c \in Containers, Return(c)
      PROVE  RefsInv'
  BY <1>10 DEF Return
<1>11. ASSUME NEW p \in Procs, RemoveGet(p)
      PROVE  RefsInv'
  BY <1>11 DEF RemoveGet, MayBegin
<1>12. ASSUME NEW p \in Procs, RemoveVolume(p)
      PROVE  RefsInv'
  <2>1. \A d \in Containers : HandlerOf(d)'
    BY <1>12 DEF RemoveVolume
  <2>2. CASE exists' = exists
    <3>1. refs' = refs /\ mounted' = mounted
      BY <1>12, <2>2, Zenon DEF RemoveVolume
    <3> QED
      BY <1>12, <2>1, <2>2, <3>1, Zenon DEF RemoveVolume
  <2>3. CASE exists' = FALSE
    <3>1. refs' = {} /\ mounted' = FALSE
      BY <1>12, <2>3, Zenon DEF RemoveVolume
    <3> QED
      BY <1>12, <2>1, <2>3, <3>1, Zenon DEF RemoveVolume
  <2> QED
    BY <1>12, <2>2, <2>3, Zenon DEF RemoveVolume
<1>13. CASE UNCHANGED refVars
  BY <1>13, Zenon DEF refVars
<1> QED
  BY <1>1, <1>2, <1>3, <1>4, <1>5, <1>6, <1>7, <1>8, <1>9, <1>10, <1>11, <1>12, <1>13, ZenonT(60)
     DEF RefNext

\* Without "overlap" one process is at work, and what it has read is current.
LEMMA SerialStep ==
    ASSUME RefsInv, SerialInv, ~On("overlap"), [RefNext]_refVars
    PROVE  SerialInv'
<1> USE VolumeAssumption DEF RefsInv, RefTypeOK, SerialInv, RefsSeen, Enter, Procs
<1>1. ASSUME NEW c \in Containers,
             CreateContainer(c) \/ Start(c) \/ Copy(c) \/ RemoveContainer(c)
      PROVE  SerialInv'
  <2>1. MayBegin(c) /\ \E step \in {"make", "attachGet", "detachGet"} : Enter(c, step)
    BY <1>1, Zenon DEF CreateContainer, Start, Copy, RemoveContainer, Begin
  <2>2. \A q \in Procs : stage[q] = "idle"
    BY <2>1, SerialBegin, Zenon
  <2>3. UNCHANGED <<exists, refs, mounted, status, read>>
    BY <1>1, Zenon DEF CreateContainer, Start, Copy, RemoveContainer, Begin
  <2> QED
    BY <2>1, <2>2, <2>3
<1>2. ASSUME NEW c \in Containers, CreateVolume(c)
      PROVE  SerialInv'
  BY <1>2 DEF CreateVolume
<1>3. ASSUME NEW c \in Containers, CreatePath(c)
      PROVE  SerialInv'
  BY <1>3 DEF CreatePath
<1>4. ASSUME NEW c \in Containers, AttachGet(c)
      PROVE  SerialInv'
  <2>1. \A q \in Procs : q # c => stage[q] = "idle" /\ stage'[q] = "idle"
    BY <1>4 DEF AttachGet
  <2>2. /\ UNCHANGED refs
        /\ stage'[c] = "return" \/ (stage'[c] = "attach" /\ read'[c] = RefsSeen)
    <3>1. CASE exists
      BY <1>4, <3>1 DEF AttachGet
    <3>2. CASE ~exists
      BY <1>4, <3>2 DEF AttachGet
    <3> QED
      BY <3>1, <3>2, Zenon
  <2> QED
    BY <2>1, <2>2, Zenon
<1>5. ASSUME NEW c \in Containers, AttachVolume(c)
      PROVE  SerialInv'
  <2>1. AfterAttach(op[c]) \in {"path", "run", "detachGet"}
    BY <1>5, Zenon DEF AttachVolume, AfterAttach, HandlerOf
  <2> QED
    BY <1>5, <2>1 DEF AttachVolume
<1>6. ASSUME NEW c \in Containers, DetachGet(c)
      PROVE  SerialInv'
  BY <1>6 DEF DetachGet, AfterDetach
<1>7. ASSUME NEW c \in Containers, DetachVolume(c)
      PROVE  SerialInv'
  <2>1. AfterDetach(op[c]) \in {"removeGet", "return"}
    BY Zenon DEF AfterDetach
  <2>2. \A q \in Procs : q # c => stage[q] = "idle" /\ stage'[q] = "idle"
    BY <1>7, Zenon DEF DetachVolume
  <2>3. stage'[c] \in {"removeGet", "return"}
    BY <1>7, <2>1, Zenon DEF DetachVolume
  <2> QED
    BY <1>7, <2>2, <2>3, Zenon DEF DetachVolume
<1>8. ASSUME NEW c \in Containers, Run(c)
      PROVE  SerialInv'
  BY <1>8 DEF Run
<1>9. ASSUME NEW c \in Containers, Stop(c)
      PROVE  SerialInv'
  BY <1>9, Zenon DEF Stop
<1>10. ASSUME NEW c \in Containers, Return(c)
      PROVE  SerialInv'
  BY <1>10, Zenon DEF Return
<1>11. ASSUME NEW p \in Procs, RemoveGet(p)
      PROVE  SerialInv'
  <2>1. stage[p] = "removeGet" \/ \A q \in Procs : stage[q] = "idle"
    BY <1>11, SerialBegin, Zenon DEF RemoveGet
  <2> QED
    BY <1>11, <2>1 DEF RemoveGet
<1>12. ASSUME NEW p \in Procs, RemoveVolume(p)
      PROVE  SerialInv'
  BY <1>12, Zenon DEF RemoveVolume
<1>13. CASE UNCHANGED refVars
  BY <1>13, Zenon DEF refVars
<1> QED
  BY <1>1, <1>2, <1>3, <1>4, <1>5, <1>6, <1>7, <1>8, <1>9, <1>10, <1>11, <1>12, <1>13, ZenonT(60)
     DEF RefNext

\* No reference is stale if no operations overlap and neither Create nor the
\* driver fails.
LEMMA StaleStep ==
    ASSUME RefsInv, SerialInv, StaleInv, ~Remote, [RefNext]_refVars,
           NoneOf({"overlap", "createFails", "detachFails"})
    PROVE  StaleInv'
<1>0. ~On("overlap") /\ ~On("createFails") /\ ~On("detachFails")
  BY Zenon DEF NoneOf, On
<1> USE VolumeAssumption DEF RefsInv, RefTypeOK, StaleInv, Uses, Enter, Procs, HandlerOf
<1>1. ASSUME NEW c \in Containers,
             CreateContainer(c) \/ Start(c) \/ Copy(c) \/ RemoveContainer(c)
      PROVE  StaleInv'
  BY <1>1 DEF CreateContainer, Start, Copy, RemoveContainer, Begin, MayBegin
<1>2. ASSUME NEW c \in Containers, CreateVolume(c)
      PROVE  StaleInv'
  BY <1>2 DEF CreateVolume
<1>3. ASSUME NEW c \in Containers, CreatePath(c)
      PROVE  StaleInv'
  BY <1>0, <1>3 DEF CreatePath
<1>4. ASSUME NEW c \in Containers, AttachGet(c)
      PROVE  StaleInv'
  BY <1>4 DEF AttachGet
<1>5. ASSUME NEW c \in Containers, AttachVolume(c)
      PROVE  StaleInv'
  <2>1. refs' \subseteq refs \cup {c}
    BY <1>5 DEF AttachVolume, SerialInv, RefsSeen
  <2>2. \A d \in Containers \ {c} : stage'[d] = stage[d]
    BY <1>5 DEF AttachVolume
  <2>3. \/ stage'[c] = "return" /\ refs' = refs
        \/ op[c] = "create" /\ stage'[c] = "path"
        \/ op[c] = "start" /\ stage'[c] = "run"
        \/ op[c] = "copy" /\ stage'[c] = "detachGet"
    BY <1>5 DEF AttachVolume, AfterAttach
  <2> QED
    BY <1>5, <2>1, <2>2, <2>3 DEF AttachVolume
<1>6. ASSUME NEW c \in Containers, DetachGet(c)
      PROVE  StaleInv'
  BY <1>6 DEF DetachGet, AfterDetach, RefsSeen
<1>7. ASSUME NEW c \in Containers, DetachVolume(c)
      PROVE  StaleInv'
  <2>1. refs' \subseteq refs \ {c}
    BY <1>0, <1>7 DEF DetachVolume, SerialInv, RefsSeen
  <2>2. \A d \in Containers \ {c} : stage'[d] = stage[d]
    BY <1>7, Zenon DEF DetachVolume
  <2> QED
    BY <1>7, <2>1, <2>2 DEF DetachVolume
<1>8. ASSUME NEW c \in Containers, Run(c)
      PROVE  StaleInv'
  BY <1>8 DEF Run
<1>9. ASSUME NEW c \in Containers, Stop(c)
      PROVE  StaleInv'
  BY <1>9 DEF Stop, MayBegin
<1>10. ASSUME NEW c \in Containers, Return(c)
      PROVE  StaleInv'
  BY <1>10 DEF Return
<1>11. ASSUME NEW p \in Procs, RemoveGet(p)
      PROVE  StaleInv'
  BY <1>11 DEF RemoveGet
<1>12. ASSUME NEW p \in Procs, RemoveVolume(p)
      PROVE  StaleInv'
  <2>1. refs' = {} \/ refs' = refs
    BY <1>12, Zenon DEF RemoveVolume
  <2>2. p \in Containers => p \notin refs
    BY <1>12, Zenon DEF RemoveVolume
  <2> QED
    BY <1>12, <2>1, <2>2 DEF RemoveVolume
<1>13. CASE UNCHANGED refVars
  BY <1>13, Zenon DEF refVars
<1> QED
  BY <1>1, <1>2, <1>3, <1>4, <1>5, <1>6, <1>7, <1>8, <1>9, <1>10, <1>11, <1>12, <1>13, ZenonT(60)
     DEF RefNext

\* The references of the containers that have the volume are kept, if nothing
\* overlaps, starts beside another container, fails to start or is copied.
LEMMA KeptStep ==
    ASSUME RefsInv, SerialInv, KeptInv, ~Remote, [RefNext]_refVars,
           NoneOf({"overlap", "sharedStart", "startFails", "copy"})
    PROVE  KeptInv'
<1>0. ~On("overlap") /\ ~On("sharedStart") /\ ~On("startFails") /\ ~On("copy")
  BY Zenon DEF NoneOf, On
<1> USE VolumeAssumption DEF RefsInv, RefTypeOK, KeptInv, Uses, Enter, Procs, HandlerOf
<1>1. ASSUME NEW c \in Containers,
             CreateContainer(c) \/ Start(c) \/ Copy(c) \/ RemoveContainer(c)
      PROVE  KeptInv'
  <2>1. MayBegin(c) /\ UNCHANGED <<refs, status>> /\ ~Copy(c)
    BY <1>0, <1>1, Zenon DEF CreateContainer, Start, Copy, RemoveContainer, Begin
  <2>2. \A q \in Procs : stage[q] = "idle"
    BY <1>0, <2>1, SerialBegin, Zenon
  <2>3. \A d \in Containers \ {c} : op'[d] = op[d] /\ stage'[d] = "idle"
    BY <1>1, <2>2 DEF CreateContainer, Start, Copy, RemoveContainer, Begin
  <2>4. CASE CreateContainer(c)
    BY <2>1, <2>2, <2>3, <2>4 DEF CreateContainer, Begin
  <2>5. CASE Start(c)
    BY <1>0, <2>1, <2>2, <2>3, <2>5 DEF Start, Begin
  <2>6. CASE RemoveContainer(c)
    BY <2>1, <2>2, <2>3, <2>6 DEF RemoveContainer, Begin
  <2> QED
    BY <1>1, <2>1, <2>4, <2>5, <2>6, Zenon
<1>2. ASSUME NEW c \in Containers, CreateVolume(c)
      PROVE  KeptInv'
  BY <1>2 DEF CreateVolume
<1>3. ASSUME NEW c \in Containers, CreatePath(c)
      PROVE  KeptInv'
  BY <1>3 DEF CreatePath, SerialInv
<1>4. ASSUME NEW c \in Containers, AttachGet(c)
      PROVE  KeptInv'
  BY <1>4 DEF AttachGet
<1>5. ASSUME NEW c \in Containers, AttachVolume(c)
      PROVE  KeptInv'
  <2>1. \A d \in Containers \ {c} : stage[d] = "idle" /\ stage'[d] = "idle"
    BY <1>5 DEF AttachVolume, SerialInv
  <2>2. \/ stage'[c] = "return" /\ refs' = refs
        \/ op[c] = "create" /\ stage'[c] = "path" /\ refs' = refs \cup {c}
        \/ op[c] = "start" /\ stage'[c] = "run" /\ c \in refs' /\ refs' \subseteq refs
    BY <1>5 DEF AttachVolume, AfterAttach, SerialInv, RefsSeen
  <2> QED
    BY <1>5, <2>1, <2>2 DEF AttachVolume
<1>6. ASSUME NEW c \in Containers, DetachGet(c)
      PROVE  KeptInv'
  BY <1>6 DEF DetachGet, AfterDetach
<1>7. ASSUME NEW c \in Containers, DetachVolume(c)
      PROVE  KeptInv'
  <2>1. refs' = refs \ {c} \/ refs' = refs
    BY <1>7 DEF DetachVolume, SerialInv, RefsSeen
  <2>2. \A d \in Containers \ {c} : stage'[d] = stage[d]
    BY <1>7, Zenon DEF DetachVolume
  <2>3. stage'[c] \in {"removeGet", "return"} /\ ~Uses(c)
    BY <1>7, Zenon DEF DetachVolume, AfterDetach
  <2> QED
    BY <1>7, <2>1, <2>2, <2>3 DEF DetachVolume
<1>8. ASSUME NEW c \in Containers, Run(c)
      PROVE  KeptInv'
  BY <1>0, <1>8 DEF Run, SerialInv
<1>9. ASSUME NEW c \in Containers, Stop(c)
      PROVE  KeptInv'
  BY <1>9 DEF Stop, MayBegin
<1>10. ASSUME NEW c \in Containers, Return(c)
      PROVE  KeptInv'
  BY <1>10 DEF Return
<1>11. ASSUME NEW p \in Procs, RemoveGet(p)
      PROVE  KeptInv'
  BY <1>11 DEF RemoveGet
<1>12. ASSUME NEW p \in Procs, RemoveVolume(p)
      PROVE  KeptInv'
  <2>1. refs = {} /\ refs' = {}
    BY <1>12, Zenon DEF RemoveVolume, SerialInv, RefsSeen
  <2> QED
    BY <1>12, <2>1 DEF RemoveVolume
<1>13. CASE UNCHANGED refVars
  BY <1>13, Zenon DEF refVars
<1> QED
  BY <1>1, <1>2, <1>3, <1>4, <1>5, <1>6, <1>7, <1>8, <1>9, <1>10, <1>11, <1>12, <1>13, ZenonT(60)
     DEF RefNext

-----------------------------------------------------------------------------

\* The invariant holds in every behaviour, in whatever cases.
LEMMA RefInvariant == RefSpec => []Inv
<1>1. RefInit => Inv
  BY VolumeAssumption, ZenonT(60) DEF RefInit, Inv, RefsInv, RefTypeOK, MountHasRef, HandlerOf,
     SerialInv, StaleInv, KeptInv, Uses, Procs
<1>2. Inv /\ [RefNext /\ UNCHANGED cases]_<<refVars, cases>> => Inv'
  <2> SUFFICES ASSUME Inv, [RefNext /\ UNCHANGED cases]_<<refVars, cases>>
               PROVE  Inv'
    BY Zenon
  <2>1. [RefNext]_refVars /\ cases' = cases
    BY Zenon
  <2>2. RefsInv'
    BY <2>1, RefsStep, Zenon DEF Inv
  <2>3. ~On("overlap") => SerialInv'
    BY <2>1, SerialStep, Zenon DEF Inv
  <2>4. NoneOf({"overlap", "createFails", "detachFails"}) /\ ~Remote => StaleInv'
    BY <2>1, StaleStep, Zenon DEF Inv, NoneOf, On
  <2>5. NoneOf({"overlap", "sharedStart", "startFails", "copy"}) /\ ~Remote => KeptInv'
    BY <2>1, KeptStep, Zenon DEF Inv, NoneOf, On
  <2> QED
    BY <2>1, <2>2, <2>3, <2>4, <2>5, Zenon DEF Inv, NoneOf, On
<1> QED
  BY <1>1, <1>2, PTL DEF RefSpec

\* What Attach and Detach write into "ref" is what the containers have: however
\* their Get and Core halves interleave the driver keeps nothing attached
\* without a reference, and without failures and overlaps no reference outlives
\* its container.  A plugin's volume, of which Get does not return the
\* references, is left out.
THEOREM ReferencesAreExact == ASSUME ~Remote PROVE RefSpec => []RefsAreExact
<1>1. Inv => RefsAreExact
  BY Zenon DEF Inv, RefsInv, RefsAreExact, NoStaleRef, StaleInv
<1> QED
  BY <1>1, RefInvariant, PTL

\* "volume rm" of a volume that a container was created with is refused, for any
\* number of containers, as long as Attach overwrites no reference: nothing
\* overlaps, no second container is started, no start fails after its attach,
\* nothing is copied, and the references are those of the local driver.
THEOREM UsedVolumeKept == ASSUME ~Remote PROVE RefSpec => []UsedVolumeIsKept
<1>1. Inv => UsedVolumeIsKept
  BY Zenon DEF Inv, RefsInv, KeptInv, UsedVolumeIsKept, UsedVolumeExists
<1> QED
  BY <1>1, RefInvariant, PTL

\* Also with a plugin, and however the operations overlap and fail, the driver
\* does not keep the volume attached without a recorded reference.
THEOREM MountHasReference == RefSpec => []MountHasRef
<1>1. Inv => MountHasRef
  BY Zenon DEF Inv, RefsInv
<1> QED
  BY <1>1, RefInvariant, PTL
=============================================================================
