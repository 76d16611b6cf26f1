----------------------------- MODULE MCServices -----------------------------
(***************************************************************************)
(* The parts of the daemon that are shown to make progress, for TLC.  They *)
(* share no state: a behaviour is about the one its scenario names, and    *)
(* the others rest.                                                        *)
(***************************************************************************)
EXTENDS ExecLifecycle, ContainerIO, Events, Supervisor, ExitMonitor, DaemonRun

Init ==
    /\ cases \in Scenarios
    /\ ExecInit /\ IOInit /\ EventsInit /\ SupInit /\ MonInit /\ DaemonInit

Next ==
    /\ UNCHANGED cases
    /\ \/ /\ On("exec") /\ ExecNext
          /\ UNCHANGED <<ioVars, eventVars, supVars, monVars, daemonVars>>
       \/ /\ On("io") /\ IONext
          /\ UNCHANGED <<execVars, eventVars, supVars, monVars, daemonVars>>
       \/ /\ On("events") /\ EventsNext
          /\ UNCHANGED <<execVars, ioVars, supVars, monVars, daemonVars>>
       \/ /\ On("supervisor") /\ SupNext
          /\ UNCHANGED <<execVars, ioVars, eventVars, monVars, daemonVars>>
       \/ /\ On("monitor") /\ MonNext
          /\ UNCHANGED <<execVars, ioVars, eventVars, supVars, daemonVars>>
       \/ /\ On("daemon") /\ DaemonNext
          /\ UNCHANGED <<execVars, ioVars, eventVars, supVars, monVars>>

vars == <<execVars, ioVars, eventVars, supVars, monVars, daemonVars, cases>>

Spec ==
    /\ Init /\ [][Next]_vars
    /\ ExecFairness /\ IOFairness /\ EventsFairness /\ SupFairness /\ MonFairness
    /\ DaemonFairness
=============================================================================
