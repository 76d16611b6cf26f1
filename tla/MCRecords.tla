------------------------------ MODULE MCRecords ------------------------------
(***************************************************************************)
(* The records of containers, of their mount points and of the references  *)
(* to a volume, for TLC.  They share no state: a behaviour is about the    *)
(* one its scenario names, and the others rest.                            *)
(***************************************************************************)
EXTENDS ContainerRegistry, VolumeRefs, MountPoints, TLC

\* The part of the mount points at rest: nothing is asked for.
NoMounts ==
    /\ want = [from |-> <<>>, binds |-> <<>>, image |-> {}, volumes |-> {}, content |-> {}]
    /\ mounts = {} /\ had = {} /\ volumeSet = {} /\ attached = {} /\ old = {} /\ dirs = {}
    /\ files = <<>> /\ todo = <<>> /\ phase = "containers"

Init ==
    /\ cases \in Scenarios /\ RegInit /\ RefInit
    /\ IF On("mounts") THEN MountInit ELSE NoMounts

Next ==
    /\ UNCHANGED cases
    /\ \/ On("registry") /\ RegNext /\ UNCHANGED <<refVars, mountVars>>
       \/ On("volume") /\ RefNext /\ UNCHANGED <<regVars, mountVars>>
       \/ On("mounts") /\ MountNext /\ UNCHANGED <<regVars, refVars>>

Spec == Init /\ [][Next]_<<regVars, refVars, mountVars, cases>>

\* The names are interchangeable, and so are the containers that share the
\* volume.  One set of values stands for both, as the parts never meet.
Symmetry == Permutations(Names)
=============================================================================
