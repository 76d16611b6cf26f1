----------------------------- MODULE KeyedMutex -----------------------------
(***************************************************************************)
(* What a lock on one key promises: at most one goroutine holds it, and    *)
(* only its holder releases it.                                            *)
(***************************************************************************)

CONSTANTS Procs, None

VARIABLE holder

Acquire(p) == holder = None /\ holder' = p

Release(p) == holder = p /\ holder' = None

Init == holder = None
Next == \E p \in Procs : Acquire(p) \/ Release(p)
Spec == Init /\ [][Next]_holder
=============================================================================
