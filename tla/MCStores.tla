------------------------------ MODULE MCStores ------------------------------
(***************************************************************************)
(* The parts of the daemon that keep records of things outside of it, for  *)
(* TLC.  They share no state: a behaviour is about the one its scenario    *)
(* names, and the others rest.                                             *)
(***************************************************************************)
EXTENDS Upgrade, MetaStore, ClientPool, NetworkEndpoints, DiskQuota, VolumeCatalog,
        Plugins, TLC

Init ==
    /\ cases \in Scenarios
    /\ UpgradeInit /\ MetaInit /\ PoolInit /\ NetInit /\ QuotaInit /\ CatInit /\ PluginInit

Next ==
    /\ UNCHANGED cases
    /\ \/ /\ On("upgrade") /\ UpgradeNext
          /\ UNCHANGED <<metaVars, poolVars, netVars, quotaVars, catVars, pluginVars>>
       \/ /\ On("meta") /\ MetaNext
          /\ UNCHANGED <<upgradeVars, poolVars, netVars, quotaVars, catVars, pluginVars>>
       \/ /\ On("pool") /\ PoolNext
          /\ UNCHANGED <<upgradeVars, metaVars, netVars, quotaVars, catVars, pluginVars>>
       \/ /\ On("net") /\ NetNext
          /\ UNCHANGED <<upgradeVars, metaVars, poolVars, quotaVars, catVars, pluginVars>>
       \/ /\ On("quota") /\ QuotaNext
          /\ UNCHANGED <<upgradeVars, metaVars, poolVars, netVars, catVars, pluginVars>>
       \/ /\ On("catalog") /\ CatNext
          /\ UNCHANGED <<upgradeVars, metaVars, poolVars, netVars, quotaVars, pluginVars>>
       \/ /\ On("plugin") /\ PluginNext
          /\ UNCHANGED <<upgradeVars, metaVars, poolVars, netVars, quotaVars, catVars>>

vars ==
    <<upgradeVars, metaVars, poolVars, netVars, quotaVars, catVars, pluginVars, cases>>

Spec == Init /\ [][Next]_vars

\* The networks are interchangeable, and so are the writers, the directories, the
\* listers and the askers.  One set of values stands for all, as the parts never
\* meet.
Symmetry == Permutations(Networks)
=============================================================================
