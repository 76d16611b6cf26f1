---------------------------- MODULE MCImageStore ----------------------------
(***************************************************************************)
(* The images of the daemon for TLC: the references to them, and the       *)
(* commit of new ones.  A behaviour is about the one its scenario names,   *)
(* and the other rests.                                                    *)
(***************************************************************************)
EXTENDS ImageStore, Commit, TLC

Init == cases \in Scenarios /\ ImageInit /\ CommitInit

Next ==
    /\ UNCHANGED cases
    /\ \/ On("store") /\ ImageNext /\ UNCHANGED commitVars
       \/ On("commit") /\ CommitNext /\ UNCHANGED imageVars

Spec == Init /\ [][Next]_<<imageVars, commitVars, cases>>

\* These values are interchangeable; used in runs that check safety only.  The
\* sets of the commits have the same values, as the parts never meet.
Symmetry == Permutations(Images) \cup Permutations(Clients) \cup Permutations(Names) \cup Permutations(Tags)
=============================================================================
