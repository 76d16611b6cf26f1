---------------------------- MODULE VolumeCatalog ----------------------------
(***************************************************************************)
(* The record of one volume name in the store of storage/volume/core.go,   *)
(* against what the drivers hold: the local driver, and a plugin, which    *)
(* can be asked for its volumes (Getter, Lister) and whose volumes others  *)
(* make and remove as well.                                                *)
(*                                                                         *)
(* Core's operations on a name hold the lock of the name, and are one      *)
(* step.  ListVolumes takes no lock: it reads the store, asks the drivers, *)
(* and then stores what it takes for new volumes.                          *)
(***************************************************************************)
EXTENDS Scenario

CONSTANT Listers  \* clients that list the volumes

VARIABLES
    record,    \* what the store has under the name
    dir,       \* the local driver has the directory
    plugged,   \* the plugin has a volume of the name
    attached,  \* the driver that has the volume attached for the container
    lister     \* per lister: where it is, the record and the plugin's volume it read

catVars == <<record, dir, plugged, attached, lister>>

Drivers == {"local", "plugin"}

Record(driver, ref) == [driver |-> driver, ref |-> ref]

NoRecord == Record("none", FALSE)

\* What the plugin says of a volume: it knows nothing of "ref".
PluginVolume == Record("plugin", FALSE)

Listing(at, meta, real) == [at |-> at, meta |-> meta, real |-> real]

NotListing == Listing("idle", NoRecord, FALSE)

\* The cases: a listing overlaps other steps; the plugin gets a volume of a name
\* that has a record; the store refuses a write.
StoreFails == On("storeFails")

ListQuiet == On("listOverlap") \/ \A l \in Listers : lister[l].at = "idle"

-----------------------------------------------------------------------------
(* Core's operations on the name *)

\* The volume getVolume returns: the plugin is asked for a volume of its own,
\* and for any that has no record, which is stored when it is found.
getVolume ==
    CASE record.driver = "local" -> record
      [] record.driver # "local" /\ plugged -> PluginVolume
      [] OTHER -> NoRecord

StoredByGet == IF record = NoRecord THEN getVolume ELSE record

GetVolume ==
    /\ ListQuiet /\ record' = StoredByGet
    /\ UNCHANGED <<dir, plugged, attached, lister>>

\* A volume that is found is returned.  Otherwise the driver makes one.
CreateVolume(driver) ==
    /\ ListQuiet
    /\ IF getVolume # NoRecord
       THEN record' = StoredByGet /\ UNCHANGED <<dir, plugged>>
       ELSE /\ dir' = (dir \/ driver = "local") /\ plugged' = (plugged \/ driver = "plugin")
            /\ \/ record' = Record(driver, FALSE)
               \/ StoreFails /\ UNCHANGED record
    /\ UNCHANGED <<attached, lister>>

\* Attach merges the option "ref" into the volume it got, attaches it, and stores
\* it.  The local driver makes the directory again if it is gone.
AttachVolume ==
    /\ ListQuiet /\ getVolume # NoRecord
    /\ attached' = getVolume.driver
    /\ dir' = (dir \/ getVolume.driver = "local")
    /\ \/ record' = Record(getVolume.driver, TRUE)
       \/ StoreFails /\ record' = StoredByGet
    /\ UNCHANGED <<plugged, lister>>

\* The manager detaches only if Get shows the container in "ref", which it never
\* does for a volume of the plugin.
DetachVolume ==
    /\ ListQuiet /\ getVolume.ref
    /\ attached' = IF attached = getVolume.driver THEN "none" ELSE attached
    /\ \/ record' = Record(getVolume.driver, FALSE)
       \/ StoreFails /\ UNCHANGED record
    /\ UNCHANGED <<dir, plugged, lister>>

\* The manager refuses a volume that Get shows in use; the driver removes it, then
\* the record goes.
RemoveVolume ==
    /\ ListQuiet /\ getVolume # NoRecord /\ ~getVolume.ref
    /\ dir' = (dir /\ getVolume.driver # "local")
    /\ plugged' = (plugged /\ getVolume.driver # "plugin")
    /\ attached' = IF attached = getVolume.driver THEN "none" ELSE attached
    /\ \/ record' = NoRecord
       \/ StoreFails /\ record' = StoredByGet
    /\ UNCHANGED lister

-----------------------------------------------------------------------------
(* ListVolumes *)

ListStore(l) ==
    /\ ListQuiet /\ lister[l].at = "idle"
    /\ lister' = [lister EXCEPT ![l] = Listing("drivers", record, FALSE)]
    /\ UNCHANGED <<record, dir, plugged, attached>>

\* A plugin that cannot list is skipped.
ListDrivers(l) ==
    /\ lister[l].at = "drivers"
    /\ \E real \in {plugged, FALSE} :
          lister' = [lister EXCEPT ![l] = Listing("store", lister[l].meta, real)]
    /\ UNCHANGED <<record, dir, plugged, attached>>

MutantListStoresAll(l) ==
    /\ lister[l].at = "store"
    /\ record' = IF lister[l].real THEN PluginVolume ELSE record
    /\ lister' = [lister EXCEPT ![l] = NotListing]
    /\ UNCHANGED <<dir, plugged, attached>>

\* A volume of the plugin is known if the record read was one of the plugin; any
\* other is stored as a new volume, also when the record read was a local one.
StoreNew(l) ==
    /\ lister[l].at = "store"
    /\ record' = IF lister[l].real /\ lister[l].meta.driver # "plugin"
                 THEN PluginVolume ELSE record
    /\ lister' = [lister EXCEPT ![l] = NotListing]
    /\ UNCHANGED <<dir, plugged, attached>>

-----------------------------------------------------------------------------
(* The plugin's volumes change without the daemon *)

PluginCreates ==
    /\ ListQuiet /\ ~plugged /\ (record.driver # "local" \/ On("sameName"))
    /\ plugged' = TRUE
    /\ UNCHANGED <<record, dir, attached, lister>>

PluginRemoves ==
    /\ ListQuiet /\ plugged /\ attached # "plugin" /\ plugged' = FALSE
    /\ UNCHANGED <<record, dir, attached, lister>>

CatInit ==
    /\ record = NoRecord /\ dir = FALSE /\ attached = "none" /\ plugged = FALSE
    /\ lister = [l \in Listers |-> NotListing]

CatNext ==
    \/ GetVolume \/ AttachVolume \/ DetachVolume \/ RemoveVolume
    \/ \E driver \in Drivers : CreateVolume(driver)
    \/ \E l \in Listers : ListStore(l) \/ ListDrivers(l) \/ StoreNew(l)
    \/ PluginCreates \/ PluginRemoves

CatSpec == CatInit /\ [][CatNext /\ UNCHANGED cases]_<<catVars, cases>>

-----------------------------------------------------------------------------
(* Properties *)

\* Every variable has its type.
CatTypeOK ==
    /\ record \in [driver : Drivers \cup {"none"}, ref : BOOLEAN]
    /\ dir \in BOOLEAN /\ plugged \in BOOLEAN
    /\ attached \in Drivers \cup {"none"}
    /\ \A l \in Listers : lister[l].at \in {"idle", "drivers", "store"}

\* A record of the local driver has its directory, as long as the store takes its
\* writes, and however listings overlap: what ListVolumes stores late is never a
\* local volume.  And a directory has its record, so that no volume is left that
\* neither "volume ls" shows nor "volume rm" can remove; this needs also that no
\* listing overlaps and that the plugin has no volume of the same name.
LocalIsRecorded ==
    /\ ~On("storeFails") => (record.driver = "local" => dir)
    /\ NoneOf({"storeFails", "sameName", "listOverlap"}) => (dir => record.driver = "local")

\* A volume that is attached for a container is recorded as in use, with the
\* driver that attached it, before and after any listing that does not overlap:
\* RemoveVolume refuses it, if Get reads the record.
AttachedIsRecorded ==
    /\ NoneOf({"storeFails", "sameName", "listOverlap"}) /\ attached # "none"
    => record = Record(attached, TRUE)

\* The records of the volumes match what the drivers have.
CatalogIsExact == CatTypeOK /\ LocalIsRecorded /\ AttachedIsRecorded
=============================================================================
