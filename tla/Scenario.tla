------------------------------ MODULE Scenario ------------------------------
(***************************************************************************)
(* What the modules of the smaller components share: a behaviour is about  *)
(* one component, in some of the cases it distinguishes.  The set cases is *)
(* chosen at the start; it names the component and the cases, and the      *)
(* guards of the actions and the properties refer to it.                   *)
(***************************************************************************)
CONSTANT Scenarios  \* the sets of cases that are explored

VARIABLE cases      \* the one of this behaviour

On(case) == case \in cases

NoneOf(C) == cases \cap C = {}
=============================================================================
