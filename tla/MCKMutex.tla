------------------------------ MODULE MCKMutex ------------------------------
(* Instances of KMutex for TLC. *)
EXTENDS KMutex, TLC

\* These values are interchangeable; used in the runs that check invariants only.
Symmetry == Permutations(Procs) \cup Permutations(Values)
=============================================================================
