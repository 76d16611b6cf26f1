------------------------ MODULE MCContainerLifecycle ------------------------
(* Instances of ContainerLifecycle for TLC. *)
EXTENDS ContainerLifecycle, TLC

\* Clients are interchangeable; used in the runs that check invariants only.
Symmetry == Permutations(Clients)
=============================================================================
