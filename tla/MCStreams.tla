------------------------------ MODULE MCStreams ------------------------------
(***************************************************************************)
(* What the daemon streams to its clients, for TLC: remote commands and    *)
(* forwarded ports of the CRI, logs, and the progress of pulls and pushes. *)
(* They share no state: a behaviour is about the one its scenario names,   *)
(* and the others rest.                                                    *)
(***************************************************************************)
EXTENDS RemoteCommand, PortForward, LogFollow, JSONStream

Init == cases \in Scenarios /\ RCInit /\ PFInit /\ LogInit /\ StreamInit

Next ==
    /\ UNCHANGED cases
    /\ \/ On("remote") /\ RCNext /\ UNCHANGED <<pfVars, logVars, streamVars>>
       \/ On("portforward") /\ PFNext /\ UNCHANGED <<rcVars, logVars, streamVars>>
       \/ On("logs") /\ LogNext /\ UNCHANGED <<rcVars, pfVars, streamVars>>
       \/ On("progress") /\ StreamNext /\ UNCHANGED <<rcVars, pfVars, logVars>>

Spec ==
    /\ Init /\ [][Next]_<<rcVars, pfVars, logVars, streamVars, cases>>
    /\ RCFairness /\ PFFairness /\ LogFairness /\ StreamFairness
=============================================================================
