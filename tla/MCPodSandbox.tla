---------------------------- MODULE MCPodSandbox ----------------------------
(* An instance of PodSandbox for TLC. *)
EXTENDS PodSandbox

Init == cases \in Scenarios /\ PodInit

Next == PodNext /\ UNCHANGED cases

Spec == Init /\ [][Next]_<<podVars, cases>> /\ PodFairness
=============================================================================
