------------------------------- MODULE Plugins -------------------------------
(***************************************************************************)
(* A volume driver that is a plugin: the table of drivers                  *)
(* (storage/volume/driver/driver.go), the plugin manager that loads and    *)
(* probes it (storage/plugins/manager.go, plugin.go), and the plugin       *)
(* itself, which comes, answers and goes as it likes.  There is one name;  *)
(* a Plugin value of the manager is the number of its making.              *)
(***************************************************************************)
EXTENDS Naturals, FiniteSets, Scenario

CONSTANTS
    Askers,      \* the requests that need the driver
    MaxCalls     \* bound on the calls of Get and GetAll

(* The cases: "probes" calls overlap, "otherType" the plugin is of another *)
(* type.                                                                   *)

VARIABLES
    server,      \* the plugin: "absent", "deaf" (there, but no answer) or "up"
    objects,     \* per Plugin that was made: whether it is probed, and answered
    prober,      \* per Plugin who holds its lock
    loaded,      \* m.plugins[name], 0 when there is none
    driver,      \* t.drivers[name], the Plugin of the driver
    asker,       \* per request: its step
    calls        \* how many calls there have been

pluginVars == <<server, objects, prober, loaded, driver, asker, calls>>

Made == 1..MaxCalls
NoPlugin == 0
NotMade == [made |-> FALSE, probed |-> FALSE, answered |-> FALSE]

\* steady: the plugin has been up since the call began.
Resting == [at |-> "idle", all |-> FALSE, p |-> NoPlugin, steady |-> FALSE, result |-> "none"]

Step(a, at) == asker' = [asker EXCEPT ![a].at = at]
Return(a, result) == asker' = [asker EXCEPT ![a].at = "idle", ![a].p = NoPlugin, ![a].result = result]

\* implement: the types are known only after a handshake.
Implements(p) == objects[p].answered /\ NoneOf({"otherType"})

-----------------------------------------------------------------------------
\* The plugin is started, stopped, installed or removed.
ServerChanges ==
    /\ server' \in {"absent", "deaf", "up"} \ {server}
    /\ asker' = [a \in Askers |-> [asker[a] EXCEPT !.steady = FALSE]]
    /\ UNCHANGED <<objects, prober, loaded, driver, calls>>

\* driverTable.Get returns a driver it has, and asks the plugin manager for one it
\* has not; GetAll asks it for all, those it has included.
Ask(a, all) ==
    /\ asker[a].at = "idle" /\ calls < MaxCalls /\ calls' = calls + 1
    /\ On("probes") \/ \A b \in Askers : asker[b].at = "idle"
    /\ LET call == [Resting EXCEPT !.all = all, !.steady = (server = "up")]
       IN asker' = [asker EXCEPT ![a] =
              CASE driver # NoPlugin /\ ~all -> [call EXCEPT !.result = "found"]
                [] all /\ server = "absent"  -> [call EXCEPT !.result = "notFound"]
                [] OTHER                     -> [call EXCEPT !.at = "lookup"]]
    /\ UNCHANGED <<server, objects, prober, loaded, driver>>

\* getPluginByName, getAllPlugins: the plugin that is in the map, or a new one.
Lookup(a) ==
    /\ asker[a].at = "lookup"
    /\ asker' = [asker EXCEPT ![a].at = IF loaded = NoPlugin THEN "new" ELSE "implement",
                              ![a].p = loaded]
    /\ UNCHANGED <<server, objects, prober, loaded, driver, calls>>

\* newPlugin.  When nothing is found Get tries again, until a time-out.
NewPlugin(a) ==
    /\ asker[a].at = "new"
    /\ \/ /\ server # "absent"
          /\ \E p \in Made :
                /\ ~objects[p].made /\ (\A q \in Made : ~objects[q].made => p <= q)
                /\ objects' = [objects EXCEPT ![p].made = TRUE]
                /\ asker' = [asker EXCEPT ![a].at = "store", ![a].p = p]
       \/ server = "absent" /\ Return(a, "notFound") /\ UNCHANGED objects
    /\ UNCHANGED <<server, prober, loaded, driver, calls>>

\* The plugin is put into the map before it is probed; one that is there stays.
StorePlugin(a) ==
    /\ asker[a].at = "store"
    /\ LET p == IF loaded = NoPlugin THEN asker[a].p ELSE loaded
       IN loaded' = p /\ asker' = [asker EXCEPT ![a].at = "probe", ![a].p = p]
    /\ UNCHANGED <<server, objects, prober, driver, calls>>

\* probe takes the lock of the plugin; one that is probed keeps its error.
Probe(a) ==
    LET p == asker[a].p
    IN /\ asker[a].at = "probe" /\ prober[p] = {}
       /\ IF objects[p].probed
          THEN Step(a, IF objects[p].answered THEN "implement" ELSE "delete") /\ UNCHANGED prober
          ELSE Step(a, "handshake") /\ prober' = [prober EXCEPT ![p] = {a}]
       /\ UNCHANGED <<server, objects, loaded, driver, calls>>

\* The handshake is repeated until it is answered or times out, which it may do
\* when the plugin has just come up.
Handshake(a) ==
    /\ asker[a].at = "handshake"
    /\ \E answered \in {server = "up", asker[a].steady} :
          /\ answered => server = "up"
          /\ objects' = [objects EXCEPT ![asker[a].p].probed = TRUE,
                                        ![asker[a].p].answered = answered]
          /\ Step(a, IF answered THEN "implement" ELSE "delete")
    /\ prober' = [prober EXCEPT ![asker[a].p] = {}]
    /\ UNCHANGED <<server, loaded, driver, calls>>

MutantDeleteNothing(a) ==
    /\ asker[a].at = "delete" /\ Return(a, "failed")
    /\ UNCHANGED <<server, objects, prober, loaded, driver, calls>>

\* What is in the map under the name goes, be it this plugin or another.
DeletePlugin(a) ==
    /\ asker[a].at = "delete" /\ loaded' = NoPlugin /\ Return(a, "failed")
    /\ UNCHANGED <<server, objects, prober, driver, calls>>

Implement(a) ==
    /\ asker[a].at = "implement"
    /\ IF Implements(asker[a].p) THEN Step(a, "table") ELSE Return(a, "notImplemented")
    /\ UNCHANGED <<server, objects, prober, loaded, driver, calls>>

\* The first driver that comes into the table stays.
AddDriver(a) ==
    /\ asker[a].at = "table"
    /\ driver' = IF driver = NoPlugin THEN asker[a].p ELSE driver
    /\ Return(a, "found")
    /\ UNCHANGED <<server, objects, prober, loaded, calls>>

-----------------------------------------------------------------------------
PluginInit ==
    /\ server = "absent" /\ loaded = NoPlugin /\ driver = NoPlugin /\ calls = 0
    /\ objects = [p \in Made |-> NotMade] /\ prober = [p \in Made |-> {}]
    /\ asker = [a \in Askers |-> Resting]

PluginNext ==
    \/ ServerChanges
    \/ \E a \in Askers :
        \/ \E all \in BOOLEAN : Ask(a, all)
        \/ Lookup(a) \/ NewPlugin(a) \/ StorePlugin(a) \/ Probe(a) \/ Handshake(a)
        \/ DeletePlugin(a) \/ Implement(a) \/ AddDriver(a)

-----------------------------------------------------------------------------
(* Properties *)

\* Every variable has its type.
PluginTypeOK ==
    /\ server \in {"absent", "deaf", "up"} /\ objects \in [Made -> [DOMAIN NotMade -> BOOLEAN]]
    /\ prober \in [Made -> SUBSET Askers] /\ {loaded, driver} \subseteq Made \cup {NoPlugin}
    /\ \A a \in Askers : asker[a].result \in {"none", "found", "notFound", "failed", "notImplemented"}

\* A plugin that did not answer is not left in the map, and one that was never
\* asked is about to be: either would hide a plugin that works until the daemon
\* is restarted, however the loads and the failed probes of it overlap.
FailedIsForgotten ==
    loaded # NoPlugin /\ ~objects[loaded].answered =>
        \E a \in Askers : /\ asker[a].p = loaded
                          /\ asker[a].at \in IF objects[loaded].probed THEN {"delete"}
                                             ELSE {"probe", "handshake"}

\* Only one request shakes hands with a plugin, and only a plugin that has
\* answered, as a volume driver, becomes the driver.
DriverHasAnswered ==
    /\ driver # NoPlugin => Implements(driver)
    /\ \A p \in Made : prober[p] = {a \in Askers : asker[a].at = "handshake" /\ asker[a].p = p}

\* A call finds a plugin that is up from its beginning to its end, whatever loads
\* failed before.  (One that overlaps a load may find the plugin before it is
\* probed and take it for one of another type, or get the error of a probe that
\* began before the plugin was up.)
UpIsFound ==
    NoneOf({"probes", "otherType"}) =>
        \A a \in Askers :
            asker[a].at = "idle" /\ asker[a].steady => asker[a].result = "found"

\* A volume plugin is loaded when it is there and works.
PluginIsLoaded == PluginTypeOK /\ FailedIsForgotten /\ DriverHasAnswered /\ UpIsFound
=============================================================================
