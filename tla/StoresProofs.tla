---------------------------- MODULE StoresProofs ----------------------------
(***************************************************************************)
(* Proofs about the smaller stores of the daemon, for every size of each:  *)
(* the pool of containerd clients, the catalog of volumes, and the store   *)
(* of the meta.json files, which implements DurableMap.                    *)
(***************************************************************************)
EXTENDS ClientPool, VolumeCatalog, MetaStore, FiniteSetTheorems, TLAPS

(***************************************************************************)
(* ClientPool                                                              *)
(***************************************************************************)

UseType == [at : {"idle", "scan", "create", "watched", "lost"},
            client : PoolClients, upto : 0..PoolSize, least : Nat]

PoolType == quota \in [PoolClients -> Nat] /\ use \in [Watched -> UseType]

\* Without "poolOverlap" one container is on its way, and the client it has
\* chosen has not fewer streams than when its quota was read.
ChoiceInv ==
    /\ \A v, w \in Watched :
          use[v].at \in {"scan", "create"} /\ use[w].at \in {"scan", "create"} => v = w
    /\ \A w \in Watched :
          /\ use[w].at = "scan" => quota[use[w].client] >= use[w].least
          /\ use[w].at = "create" => quota[use[w].client] > 0

PoolInv == PoolType /\ (~On("poolOverlap") => ChoiceInv)

(***************************************************************************)
(* VolumeCatalog                                                           *)
(***************************************************************************)

CatType ==
    /\ CatTypeOK
    /\ lister \in [Listers -> [at : {"idle", "drivers", "store"}, real : BOOLEAN,
                               meta : [driver : Drivers \cup {"none"}, ref : BOOLEAN]]]

\* What a listing has read is current, as nothing overlaps it; the plugin has
\* what is attached of it, and no volume of the name of a local one.
RecordInv ==
    /\ dir <=> record.driver = "local"
    /\ attached # "none" => record = Record(attached, TRUE)
    /\ plugged => record.driver # "local"
    /\ attached = "plugin" => plugged
    /\ \A k, l \in Listers : lister[k].at # "idle" /\ lister[l].at # "idle" => k = l
    /\ \A l \in Listers :
          lister[l].at # "idle" => lister[l].meta = record /\ (lister[l].real => plugged)

\* What is recorded as local is there, also when listings overlap.
DirInv == record.driver = "local" => dir

CatInv ==
    /\ CatType /\ (~On("storeFails") => DirInv)
    /\ NoneOf({"storeFails", "sameName", "listOverlap"}) => RecordInv

-----------------------------------------------------------------------------
\* The time each leaf of the proofs may take.
USE SMTT(60)

(* ClientPool *)

\* The containers that have a stream of client i are finitely many.
LEMMA UsesFinite ==
    ASSUME NEW i
    PROVE  IsFiniteSet(Uses(i)) /\ Cardinality(Uses(i)) \in Nat
<1>1. Uses(i) \subseteq Watched
  BY Zenon DEF Uses
<1> QED
  BY <1>1, PoolAssumption, FS_Subset, FS_CardinalityType, Zenon

\* One that is watched from now on is one more.
LEMMA UsesGrow ==
    ASSUME PoolInv, NEW w \in Watched, WatchAdd(w), NEW i \in PoolClients
    PROVE  Cardinality(Uses(i)') = IF i = use[w].client THEN Cardinality(Uses(i)) + 1
                                                       ELSE Cardinality(Uses(i))
<1>1. CASE i = use[w].client
  <2>1. Uses(i)' = Uses(i) \cup {w} /\ w \notin Uses(i)
    BY <1>1, Zenon DEF Uses, WatchAdd, PoolInv, PoolType, UseType
  <2> QED
    BY <1>1, <2>1, UsesFinite, FS_AddElement, ZenonT(60)
<1>2. CASE i # use[w].client
  <2>1. Uses(i)' = Uses(i)
    BY <1>2, Zenon DEF Uses, WatchAdd, PoolInv, PoolType, UseType
  <2> QED
    BY <1>2, <2>1, Zenon
<1> QED
  BY <1>1, <1>2, Zenon

\* One that quits is one less.
LEMMA UsesShrink ==
    ASSUME PoolInv, NEW w \in Watched, TaskQuits(w), NEW i \in PoolClients
    PROVE  Cardinality(Uses(i)') = IF i = use[w].client THEN Cardinality(Uses(i)) - 1
                                                       ELSE Cardinality(Uses(i))
<1>1. CASE i = use[w].client
  <2>1. Uses(i)' = Uses(i) \ {w} /\ w \in Uses(i)
    BY <1>1, Zenon DEF Uses, TaskQuits, PoolInv, PoolType, UseType, NoUse, Use
  <2>2. Cardinality(Uses(i) \ {w}) = Cardinality(Uses(i)) - 1
    BY <2>1, UsesFinite, FS_RemoveElement, Zenon
  <2> QED
    BY <1>1, <2>1, <2>2, Zenon
<1>2. CASE i # use[w].client
  <2>1. Uses(i)' = Uses(i)
    BY <1>2, Zenon DEF Uses, TaskQuits, PoolInv, PoolType, UseType, NoUse, Use
  <2> QED
    BY <1>2, <2>1, Zenon
<1> QED
  BY <1>1, <1>2, Zenon

\* Every step keeps the types.
LEMMA PoolTypeStep ==
    ASSUME PoolType, [PoolNext]_poolVars
    PROVE  PoolType'
<1> USE PoolAssumption DEF PoolType, UseType, Use, NoUse, PoolClients
<1>1. ASSUME NEW w \in Watched, Get(w)
      PROVE  PoolType'
  BY <1>1 DEF Get
<1>2. ASSUME NEW w \in Watched, Schedule(w)
      PROVE  PoolType'
  <2>1. /\ use[w].upto + 1 \in PoolClients /\ use[w].upto + 1 \in 0..PoolSize
        /\ quota[use[w].upto + 1] \in Nat
    BY <1>2 DEF Schedule
  <2>2. CASE quota[use[w].upto + 1] > use[w].least
    BY <1>2, <2>1, <2>2, Zenon DEF Schedule
  <2>3. CASE ~(quota[use[w].upto + 1] > use[w].least)
    <3>1. use' = [use EXCEPT ![w] = [use[w] EXCEPT !.upto = use[w].upto + 1]]
      BY <1>2, <2>3, Zenon DEF Schedule
    <3>2. [use[w] EXCEPT !.upto = use[w].upto + 1] \in UseType
      BY <2>1, Zenon
    <3> QED
      BY <1>2, <3>1, <3>2 DEF Schedule
  <2> QED
    BY <2>2, <2>3, Zenon
<1>3. ASSUME NEW w \in Watched, Scheduled(w)
      PROVE  PoolType'
  BY <1>3 DEF Scheduled
<1>4. ASSUME NEW w \in Watched, CreateFails(w)
      PROVE  PoolType'
  BY <1>4 DEF CreateFails
<1>5. ASSUME NEW w \in Watched, WatchAdd(w)
      PROVE  PoolType'
  <2>1. use' \in [Watched -> UseType]
    BY <1>5, ZenonT(60) DEF WatchAdd
  <2>2. use[w].client \in PoolClients
    BY Zenon
  <2>3. (IF quota[use[w].client] < 1 THEN quota[use[w].client]
                                    ELSE quota[use[w].client] - 1) \in Nat
    BY <2>2
  <2> QED
    BY <1>5, <2>1, <2>2, <2>3, Zenon DEF WatchAdd
<1>6. ASSUME NEW w \in Watched, TaskQuits(w)
      PROVE  PoolType'
  BY <1>6 DEF TaskQuits
<1>7. ASSUME NEW w \in Watched, ChannelBreaks(w)
      PROVE  PoolType'
  BY <1>7, ZenonT(60) DEF ChannelBreaks
<1>8. CASE UNCHANGED poolVars
  BY <1>8, Zenon DEF poolVars
<1> QED
  BY <1>1, <1>2, <1>3, <1>4, <1>5, <1>6, <1>7, <1>8, Zenon DEF PoolNext

\* One container on its way is as good as its choice.
LEMMA OneChoice ==
    ASSUME NEW w \in Watched,
           \A v \in Watched \ {w} : use'[v].at \notin {"scan", "create"},
           use'[w].at = "scan" => quota'[use'[w].client] >= use'[w].least,
           use'[w].at = "create" => quota'[use'[w].client] > 0
    PROVE  ChoiceInv'
  BY Zenon DEF ChoiceInv

\* Without "poolOverlap" the quota that Schedule goes by is still there for Consume.
LEMMA ChoiceStep ==
    ASSUME PoolType, ChoiceInv, ~On("poolOverlap"), [PoolNext]_poolVars
    PROVE  ChoiceInv'
<1> USE PoolAssumption DEF PoolType, UseType, Use, NoUse, PoolClients, ChoiceInv
<1>1. ASSUME NEW w \in Watched, Get(w)
      PROVE  ChoiceInv'
  <2>1. \A v \in Watched \ {w} : use'[v] = use[v] /\ use[v].at \in {"idle", "watched"}
    BY <1>1, Zenon DEF Get
  <2>2. use'[w] = Use("scan", 1, 1, quota[1]) /\ quota' = quota
    BY <1>1, Zenon DEF Get
  <2>3. use'[w].at = "scan" /\ use'[w].client = 1 /\ use'[w].least = quota[1] /\ quota[1] \in Nat
    BY <2>2
  <2>4. quota'[use'[w].client] >= use'[w].least
    BY <2>2, <2>3
  <2>5. \A v \in Watched \ {w} : use'[v].at \notin {"scan", "create"}
    BY <2>1, Zenon
  <2> QED
    BY <2>3, <2>4, <2>5, OneChoice, Zenon
<1>2. ASSUME NEW w \in Watched, Schedule(w)
      PROVE  ChoiceInv'
  <2>1. \A v \in Watched \ {w} : use'[v] = use[v] /\ use[v].at \notin {"scan", "create"}
    BY <1>2, Zenon DEF Schedule
  <2>2. use[w].upto + 1 \in PoolClients /\ quota[use[w].upto + 1] \in Nat /\ quota' = quota
    BY <1>2 DEF Schedule
  <2>3. CASE quota[use[w].upto + 1] > use[w].least
    <3>1. use'[w] = Use("scan", use[w].upto + 1, use[w].upto + 1, quota[use[w].upto + 1])
      BY <1>2, <2>3, Zenon DEF Schedule
    <3>2. /\ use'[w].at = "scan" /\ use'[w].client = use[w].upto + 1
          /\ use'[w].least = quota[use[w].upto + 1]
      BY <3>1
    <3>3. quota'[use'[w].client] >= use'[w].least
      BY <2>2, <3>2
    <3>4. \A v \in Watched \ {w} : use'[v].at \notin {"scan", "create"}
      BY <2>1, Zenon
    <3> QED
      BY <3>2, <3>3, <3>4, OneChoice, Zenon
  <2>4. CASE ~(quota[use[w].upto + 1] > use[w].least)
    <3>1. use'[w] = [use[w] EXCEPT !.upto = use[w].upto + 1]
      BY <1>2, <2>4, Zenon DEF Schedule
    <3>2. use'[w].at = "scan" /\ use'[w].client = use[w].client /\ use'[w].least = use[w].least
      BY <1>2, <3>1 DEF Schedule
    <3>3. quota[use[w].client] >= use[w].least
      BY <1>2, Zenon DEF Schedule
    <3> QED
      BY <2>1, <2>2, <3>2, <3>3, ZenonT(60)
  <2> QED
    BY <2>3, <2>4, Zenon
<1>3. ASSUME NEW w \in Watched, Scheduled(w)
      PROVE  ChoiceInv'
  <2>1. \A v \in Watched \ {w} : use'[v] = use[v] /\ use[v].at \notin {"scan", "create"}
    BY <1>3, Zenon DEF Scheduled
  <2>2. quota' = quota /\ quota[use[w].client] >= use[w].least
    BY <1>3, Zenon DEF Scheduled
  <2>3. CASE use[w].least <= 0
    <3>1. use'[w].at = "idle"
      BY <1>3, <2>3, Zenon DEF Scheduled
    <3> QED
      BY <2>1, <2>2, <3>1, Zenon
  <2>4. CASE ~(use[w].least <= 0)
    <3>1. use'[w] = Use("create", use[w].client, 0, 0)
      BY <1>3, <2>4, Zenon DEF Scheduled
    <3>2. use'[w].at = "create" /\ use'[w].client = use[w].client /\ quota[use[w].client] > 0
      BY <2>2, <2>4, <3>1
    <3> QED
      BY <2>1, <2>2, <3>2, ZenonT(60)
  <2> QED
    BY <2>3, <2>4, Zenon
<1>4. ASSUME NEW w \in Watched, CreateFails(w)
      PROVE  ChoiceInv'
  BY <1>4, Zenon DEF CreateFails
<1>5. ASSUME NEW w \in Watched, WatchAdd(w)
      PROVE  ChoiceInv'
  BY <1>5 DEF WatchAdd
<1>6. ASSUME NEW w \in Watched, TaskQuits(w)
      PROVE  ChoiceInv'
  <2>1. \A v \in Watched \ {w} : use'[v] = use[v]
    BY <1>6, Zenon DEF TaskQuits
  <2>2. use'[w].at = "idle"
    BY <1>6, Zenon DEF TaskQuits
  <2>3. \A i \in PoolClients : quota[i] \in Nat /\ quota'[i] \in Nat /\ quota'[i] >= quota[i]
    BY <1>6 DEF TaskQuits
  <2>4. \A v \in Watched : use[v].client \in PoolClients /\ use[v].least \in Nat
    BY Zenon
  <2> QED
    <3>1. ASSUME NEW v \in Watched
          PROVE  /\ use'[v].at = "scan" => quota'[use'[v].client] >= use'[v].least
                 /\ use'[v].at = "create" => quota'[use'[v].client] > 0
      <4>1. CASE v = w
        BY <2>2, <4>1, Zenon
      <4>2. CASE v # w
        <5>1. use'[v] = use[v]
          BY <2>1, <4>2, Zenon
        <5>2. /\ use[v].at = "scan" => quota'[use[v].client] >= use[v].least
              /\ use[v].at = "create" => quota'[use[v].client] > 0
          <6> DEFINE i == use[v].client
          <6>1. /\ quota[i] \in Nat /\ quota'[i] \in Nat /\ quota'[i] >= quota[i]
                /\ use[v].least \in Nat
            BY <2>3, <2>4, Zenon
          <6>2. /\ use[v].at = "scan" => quota[i] >= use[v].least
                /\ use[v].at = "create" => quota[i] > 0
            BY Zenon
          <6> HIDE DEF i
          <6>3. /\ use[v].at = "scan" => quota'[i] >= use[v].least
                /\ use[v].at = "create" => quota'[i] > 0
            BY <6>1, <6>2
          <6> QED
            BY <6>3, Zenon DEF i
        <5> QED
          BY <5>1, <5>2, Zenon
      <4> QED
        BY <4>1, <4>2, Zenon
    <3>2. \A v, u \in Watched :
             use'[v].at \in {"scan", "create"} /\ use'[u].at \in {"scan", "create"} => v = u
      BY <2>1, <2>2, Zenon
    <3> QED
      BY <3>1, <3>2, Zenon
<1>7. ASSUME NEW w \in Watched, ChannelBreaks(w)
      PROVE  ChoiceInv'
  BY <1>7 DEF ChannelBreaks
<1>8. CASE UNCHANGED poolVars
  BY <1>8, Zenon DEF poolVars
<1> QED
  BY <1>1, <1>2, <1>3, <1>4, <1>5, <1>6, <1>7, <1>8, ZenonT(60) DEF PoolNext

\* No step but the loss of a connection loses a stream.
LEMMA StreamsStep ==
    ASSUME PoolInv, PoolInv', NoStreamIsLost, StreamsAreBounded, [PoolNext]_poolVars, cases' = cases
    PROVE  NoStreamIsLost' /\ StreamsAreBounded'
<1> USE PoolAssumption
<1>0. \A i \in PoolClients : quota[i] \in Nat /\ Cardinality(Uses(i)) \in Nat
  BY UsesFinite, Zenon DEF PoolInv, PoolType
<1>1. ASSUME NEW w \in Watched, WatchAdd(w)
      PROVE  NoStreamIsLost' /\ StreamsAreBounded'
  <2>1. \A i \in PoolClients :
           /\ i # use[w].client => quota'[i] = quota[i]
           /\ i = use[w].client => quota'[i] = IF quota[i] < 1 THEN quota[i] ELSE quota[i] - 1
    BY <1>1, Zenon DEF WatchAdd, PoolInv, PoolType, UseType
  <2>2. ~On("poolOverlap") => quota[use[w].client] > 0
    BY <1>1, Zenon DEF WatchAdd, PoolInv, ChoiceInv
  <2>3. NoneOf({"poolOverlap", "broken"}) => ~On("poolOverlap")
    BY Zenon DEF NoneOf, On
  <2>4. \A i \in PoolClients :
           Cardinality(Uses(i)') = IF i = use[w].client THEN Cardinality(Uses(i)) + 1
                                                       ELSE Cardinality(Uses(i))
    BY <1>1, UsesGrow, Zenon
  <2>5. NoStreamIsLost'
    BY <1>0, <2>1, <2>4 DEF NoStreamIsLost, NoneOf
  <2>6. StreamsAreBounded'
    BY <1>0, <2>1, <2>2, <2>3, <2>4 DEF StreamsAreBounded, NoneOf
  <2> QED
    BY <2>5, <2>6, Zenon
<1>2. ASSUME NEW w \in Watched, TaskQuits(w)
      PROVE  NoStreamIsLost' /\ StreamsAreBounded'
  <2>1. \A i \in PoolClients :
           quota'[i] = IF i = use[w].client THEN quota[i] + 1 ELSE quota[i]
    BY <1>2, Zenon DEF TaskQuits, PoolInv, PoolType, UseType
  <2>2. \A i \in PoolClients :
           Cardinality(Uses(i)') = IF i = use[w].client THEN Cardinality(Uses(i)) - 1
                                                       ELSE Cardinality(Uses(i))
    BY <1>2, UsesShrink, Zenon
  <2> QED
    BY <1>0, <2>1, <2>2 DEF NoStreamIsLost, StreamsAreBounded, NoneOf
<1>3. ASSUME NEW w \in Watched,
             Get(w) \/ Schedule(w) \/ Scheduled(w) \/ CreateFails(w)
      PROVE  NoStreamIsLost' /\ StreamsAreBounded'
  <2>1. \A i \in PoolClients : Uses(i)' = Uses(i)
    BY <1>3 DEF Get, Schedule, Scheduled, CreateFails, Uses, PoolInv, PoolType, UseType, NoUse,
       Use
  <2>2. quota' = quota
    BY <1>3, Zenon DEF Get, Schedule, Scheduled, CreateFails
  <2> QED
    BY <2>1, <2>2, Zenon DEF NoStreamIsLost, StreamsAreBounded, NoneOf
<1>4. ASSUME NEW w \in Watched, ChannelBreaks(w)
      PROVE  NoStreamIsLost' /\ StreamsAreBounded'
  BY <1>4, Zenon DEF ChannelBreaks, NoStreamIsLost, StreamsAreBounded, NoneOf, On
<1>5. CASE UNCHANGED poolVars
  BY <1>5, Zenon DEF poolVars, NoStreamIsLost, StreamsAreBounded, NoneOf, Uses
<1> QED
  BY <1>1, <1>2, <1>3, <1>4, <1>5, Zenon DEF PoolNext

\* The quotas of the pool count the streams in use, for any number of clients,
\* containers and streams: no order of creations and exits loses one, though
\* Schedule reads the quotas one by one and the error of Consume is ignored, and
\* without overlap no client is given more than it can carry.
THEOREM StreamsStayCounted == PoolSpec => []StreamsAreCounted
<1> DEFINE I == PoolInv /\ NoStreamIsLost /\ StreamsAreBounded
<1>1. PoolInit => I
  <2> SUFFICES ASSUME PoolInit
               PROVE  I
    BY Zenon
  <2>1. PoolInv
    BY PoolAssumption DEF PoolInit, PoolInv, PoolType, UseType, ChoiceInv, PoolClients, NoUse, Use
  <2>2. \A i \in PoolClients : Uses(i) = {}
    BY Zenon DEF PoolInit, Uses, NoUse, Use
  <2> QED
    BY <2>1, <2>2, PoolAssumption, FS_EmptySet DEF PoolInit, NoStreamIsLost, StreamsAreBounded
<1>2. I /\ [PoolNext /\ UNCHANGED cases]_<<poolVars, cases>> => I'
  <2> SUFFICES ASSUME I, [PoolNext /\ UNCHANGED cases]_<<poolVars, cases>>
               PROVE  I'
    BY Zenon
  <2>1. [PoolNext]_poolVars /\ cases' = cases
    BY Zenon
  <2>2. PoolInv'
    BY <2>1, PoolTypeStep, ChoiceStep, Zenon DEF PoolInv, On
  <2> QED
    BY <2>1, <2>2, StreamsStep, Zenon
<1>3. I => StreamsAreCounted
  BY Zenon DEF PoolInv, PoolType, UseType, StreamsAreCounted, PoolTypeOK
<1> QED
  BY <1>1, <1>2, <1>3, PTL DEF PoolSpec

(* VolumeCatalog *)

RecordType == [driver : Drivers \cup {"none"}, ref : BOOLEAN]

\* The records, and what is in them.
LEMMA Records ==
    /\ NoRecord \in RecordType /\ NoRecord.driver = "none" /\ ~NoRecord.ref
    /\ PluginVolume \in RecordType /\ PluginVolume.driver = "plugin" /\ ~PluginVolume.ref
    /\ \A d \in Drivers : \A b \in BOOLEAN :
          Record(d, b) \in RecordType /\ Record(d, b).driver = d /\ Record(d, b).ref = b
    /\ \A r \in RecordType : r.ref \in BOOLEAN /\ r.driver \in Drivers \cup {"none"}
  BY Zenon DEF NoRecord, PluginVolume, Record, RecordType, Drivers

\* What getVolume returns, and stores.
LEMMA GetVolumeIs ==
    ASSUME CatType
    PROVE  /\ record.driver = "local" => getVolume = record
           /\ record.driver # "local" /\ plugged => getVolume = PluginVolume
           /\ record.driver # "local" /\ ~plugged => getVolume = NoRecord
           /\ getVolume \in RecordType /\ StoredByGet \in RecordType
           /\ getVolume # NoRecord => getVolume.driver \in Drivers
           /\ StoredByGet = record \/ (record = NoRecord /\ StoredByGet = getVolume)
<1>1. record.driver = "local" => getVolume = record
  BY Zenon DEF getVolume
<1>2. record.driver # "local" /\ plugged => getVolume = PluginVolume
  BY Zenon DEF getVolume
<1>3. record.driver # "local" /\ ~plugged => getVolume = NoRecord
  BY Zenon DEF getVolume
<1>4. record \in RecordType
  BY Zenon DEF CatType, CatTypeOK, RecordType
<1>5. getVolume \in {record, PluginVolume, NoRecord} /\ getVolume \in RecordType
  BY <1>1, <1>2, <1>3, <1>4, Records, Zenon
<1>6. getVolume # NoRecord => getVolume.driver \in Drivers
  BY <1>1, <1>2, <1>3, Records, Zenon DEF Drivers
<1>7. StoredByGet = record \/ (record = NoRecord /\ StoredByGet = getVolume)
  BY Zenon DEF StoredByGet
<1> QED
  BY <1>1, <1>2, <1>3, <1>4, <1>5, <1>6, <1>7, Zenon

\* Every step keeps the types.
LEMMA CatTypeStep ==
    ASSUME CatType, [CatNext]_catVars
    PROVE  CatType'
<1> USE GetVolumeIs, Records DEF CatType, CatTypeOK, RecordType, Drivers, Listing, NotListing
<1>1. CASE GetVolume
  BY <1>1, Zenon DEF GetVolume
<1>2. CASE AttachVolume
  <2>1. record' \in RecordType
    <3>1. CASE record' = Record(getVolume.driver, TRUE)
      BY <1>2, <3>1, Zenon DEF AttachVolume
    <3> QED
      BY <1>2, <3>1, Zenon DEF AttachVolume
  <2>2. dir' \in BOOLEAN
    <3>1. dir' = (dir \/ getVolume.driver = "local")
      BY <1>2, Zenon DEF AttachVolume
    <3> HIDE DEF Drivers
    <3> QED
      BY <3>1, Zenon
  <2> QED
    BY <1>2, <2>1, <2>2, Zenon DEF AttachVolume
<1>3. CASE DetachVolume
  <2>1. getVolume # NoRecord /\ getVolume.driver \in Drivers
    BY <1>3, Zenon DEF DetachVolume
  <2>2. Record(getVolume.driver, FALSE) \in RecordType /\ record \in RecordType
    BY <2>1, Records, Zenon DEF CatType, CatTypeOK, RecordType
  <2>3. record' \in RecordType
    BY <1>3, <2>2, ZenonT(60) DEF DetachVolume
  <2> QED
    BY <1>3, <2>1, <2>3, Zenon DEF DetachVolume
<1>4. CASE RemoveVolume
  BY <1>4, Zenon DEF RemoveVolume
<1>5. ASSUME NEW driver \in Drivers, CreateVolume(driver)
      PROVE  CatType'
  <2>1. CASE getVolume # NoRecord
    BY <1>5, <2>1, Zenon DEF CreateVolume
  <2>2. CASE getVolume = NoRecord
    <3>0. Record(driver, FALSE) \in RecordType /\ record \in RecordType
      BY Records, Zenon DEF CatType, CatTypeOK, RecordType
    <3>1. record' \in RecordType
      BY <1>5, <2>2, <3>0, ZenonT(60) DEF CreateVolume
    <3>2. dir' = (dir \/ driver = "local") /\ plugged' = (plugged \/ driver = "plugin")
      BY <1>5, <2>2, Zenon DEF CreateVolume
    <3>3. dir' \in BOOLEAN /\ plugged' \in BOOLEAN
      BY <3>2, Zenon
    <3> QED
      BY <1>5, <3>1, <3>3, Zenon DEF CreateVolume
  <2> QED
    BY <2>1, <2>2, Zenon
<1>6. ASSUME NEW l \in Listers, ListStore(l)
      PROVE  CatType'
  BY <1>6 DEF ListStore
<1>7. ASSUME NEW l \in Listers, ListDrivers(l)
      PROVE  CatType'
  <2> PICK real \in {plugged, FALSE} :
             lister' = [lister EXCEPT ![l] = Listing("store", lister[l].meta, real)]
    BY <1>7, Zenon DEF ListDrivers
  <2>1. real \in BOOLEAN
    <3>1. plugged \in BOOLEAN
      BY Zenon
    <3>2. real = plugged \/ real = FALSE
      BY Zenon
    <3> QED
      BY <3>1, <3>2, Zenon
  <2>2. lister[l].meta \in RecordType
    BY Zenon
  <2>3. Listing("store", lister[l].meta, real)
           \in [at : {"idle", "drivers", "store"}, real : BOOLEAN, meta : RecordType]
    BY <2>1, <2>2, Zenon DEF Listing
  <2>4. lister' \in [Listers -> [at : {"idle", "drivers", "store"}, real : BOOLEAN,
                                  meta : RecordType]]
    BY <2>3, Zenon
  <2> QED
    BY <1>7, <2>4, Zenon DEF ListDrivers
<1>8. ASSUME NEW l \in Listers, StoreNew(l)
      PROVE  CatType'
  BY <1>8 DEF StoreNew
<1>9. CASE PluginCreates \/ PluginRemoves
  BY <1>9, ZenonT(60) DEF PluginCreates, PluginRemoves
<1>10. CASE UNCHANGED catVars
  BY <1>10, Zenon DEF catVars
<1> QED
  BY <1>1, <1>2, <1>3, <1>4, <1>5, <1>6, <1>7, <1>8, <1>9, <1>10, ZenonT(60) DEF CatNext

\* Every step keeps the records and the drivers in agreement.
LEMMA RecordStep ==
    ASSUME CatType, RecordInv, [CatNext]_catVars,
           ~On("storeFails"), ~On("sameName"), ~On("listOverlap")
    PROVE  RecordInv'
<1> USE GetVolumeIs
        DEF CatType, CatTypeOK, RecordInv, StoreFails, ListQuiet,
            Drivers, Record, NoRecord, PluginVolume, Listing, NotListing
<1>1. CASE GetVolume
  BY <1>1 DEF GetVolume
<1>2. CASE AttachVolume
  BY <1>2 DEF AttachVolume
<1>3. CASE DetachVolume
  BY <1>3 DEF DetachVolume
<1>4. CASE RemoveVolume
  BY <1>4 DEF RemoveVolume
<1>5. ASSUME NEW driver \in Drivers, CreateVolume(driver)
      PROVE  RecordInv'
  <2>1. \A l \in Listers : lister'[l].at = "idle"
    BY <1>5, Zenon DEF CreateVolume
  <2>2. CASE getVolume # NoRecord
    BY <1>5, <2>1, <2>2 DEF CreateVolume
  <2>3. CASE getVolume = NoRecord
    <3>1. record.driver # "local" /\ ~plugged /\ ~dir /\ attached = "none"
      BY <2>3
    <3>2. CASE driver = "local"
      <4>1. /\ dir' = TRUE /\ plugged' = FALSE
            /\ record' = Record("local", FALSE) /\ attached' = "none"
        BY <1>5, <2>3, <3>1, <3>2, Zenon DEF CreateVolume
      <4> QED
        BY <2>1, <4>1, Zenon
    <3>3. CASE driver = "plugin"
      <4>1. /\ dir' = FALSE /\ plugged' = TRUE
            /\ record' = Record("plugin", FALSE) /\ attached' = "none"
        BY <1>5, <2>3, <3>1, <3>3, Zenon DEF CreateVolume
      <4> QED
        BY <2>1, <4>1, Zenon
    <3> QED
      BY <3>2, <3>3, Zenon
  <2> QED
    BY <2>2, <2>3, Zenon
<1>6. ASSUME NEW l \in Listers, ListStore(l)
      PROVE  RecordInv'
  BY <1>6 DEF ListStore
<1>7. ASSUME NEW l \in Listers, ListDrivers(l)
      PROVE  RecordInv'
  <2> PICK real \in {plugged, FALSE} :
             lister' = [lister EXCEPT ![l] = Listing("store", lister[l].meta, real)]
    BY <1>7, Zenon DEF ListDrivers
  <2>1. real => plugged
    <3>1. real = plugged \/ real = FALSE
      BY Zenon
    <3> QED
      BY <3>1, Zenon
  <2>2. /\ lister'[l].real = real /\ lister'[l].meta = lister[l].meta /\ lister[l].at # "idle"
        /\ \A k \in Listers \ {l} : lister'[k] = lister[k]
    BY <1>7, Zenon DEF ListDrivers
  <2>3. lister'[l].real => plugged
    BY <2>1, <2>2, Zenon
  <2> QED
    BY <1>7, <2>2, <2>3 DEF ListDrivers
<1>8. ASSUME NEW l \in Listers, StoreNew(l)
      PROVE  RecordInv'
  <2>1. \A k \in Listers : lister'[k].at = "idle"
    BY <1>8, Zenon DEF StoreNew
  <2>2. CASE lister[l].real /\ lister[l].meta.driver # "plugin"
    <3>1. plugged /\ record.driver = "none" /\ ~dir /\ attached = "none"
      BY <1>8, <2>2 DEF StoreNew
    <3>2. record' = PluginVolume /\ UNCHANGED <<dir, plugged, attached>>
      BY <1>8, <2>2, Zenon DEF StoreNew
    <3> QED
      BY <2>1, <3>1, <3>2, Zenon
  <2>3. CASE ~(lister[l].real /\ lister[l].meta.driver # "plugin")
    BY <1>8, <2>1, <2>3, Zenon DEF StoreNew
  <2> QED
    BY <2>2, <2>3, Zenon
<1>9. CASE PluginCreates \/ PluginRemoves
  BY <1>9 DEF PluginCreates, PluginRemoves
<1>10. CASE UNCHANGED catVars
  BY <1>10, Zenon DEF catVars
<1> QED
  BY <1>1, <1>2, <1>3, <1>4, <1>5, <1>6, <1>7, <1>8, <1>9, <1>10, ZenonT(60) DEF CatNext

\* No step of an operation or of a listing records a local volume that is not there.
LEMMA DirStep ==
    ASSUME CatType, DirInv, [CatNext]_catVars, ~On("storeFails")
    PROVE  DirInv'
<1> USE GetVolumeIs
        DEF CatType, CatTypeOK, DirInv, StoreFails, Drivers, Record, NoRecord, PluginVolume
<1>1. CASE GetVolume
  BY <1>1 DEF GetVolume
<1>2. CASE AttachVolume
  BY <1>2 DEF AttachVolume
<1>3. CASE DetachVolume
  BY <1>3 DEF DetachVolume
<1>4. CASE RemoveVolume
  BY <1>4 DEF RemoveVolume
<1>5. ASSUME NEW driver \in Drivers, CreateVolume(driver)
      PROVE  DirInv'
  <2>1. CASE getVolume # NoRecord
    BY <1>5, <2>1 DEF CreateVolume
  <2>2. CASE getVolume = NoRecord
    <3>1. record' = Record(driver, FALSE) /\ dir' = (dir \/ driver = "local")
      BY <1>5, <2>2, Zenon DEF CreateVolume
    <3>2. record'.driver = driver
      BY <3>1
    <3> QED
      BY <3>1, <3>2, Zenon
  <2> QED
    BY <2>1, <2>2, Zenon
<1>6. ASSUME NEW l \in Listers, ListStore(l) \/ ListDrivers(l)
      PROVE  DirInv'
  BY <1>6, Zenon DEF ListStore, ListDrivers
<1>7. ASSUME NEW l \in Listers, StoreNew(l)
      PROVE  DirInv'
  BY <1>7 DEF StoreNew
<1>8. CASE PluginCreates \/ PluginRemoves
  BY <1>8, Zenon DEF PluginCreates, PluginRemoves
<1>9. CASE UNCHANGED catVars
  BY <1>9, Zenon DEF catVars
<1> QED
  BY <1>1, <1>2, <1>3, <1>4, <1>5, <1>6, <1>7, <1>8, <1>9, ZenonT(60) DEF CatNext

\* No record of a local volume is without its directory, however many listings
\* overlap with each other and with the operations.  When a listing overlaps
\* with nothing, the records and the drivers agree: no directory is without its
\* record, and a volume that is attached is recorded as in use.
THEOREM CatalogStaysExact == CatSpec => []CatalogIsExact
<1>1. CatInit => CatInv
  <2> SUFFICES ASSUME CatInit
               PROVE  CatInv
    BY Zenon
  <2>1. CatType
    BY Records, ZenonT(60) DEF CatInit, CatType, CatTypeOK, NotListing, Listing, RecordType
  <2>2. RecordInv /\ DirInv
    BY Records, Zenon DEF CatInit, RecordInv, DirInv, NotListing, Listing
  <2> QED
    BY <2>1, <2>2, Zenon DEF CatInv
<1>2. CatInv /\ [CatNext /\ UNCHANGED cases]_<<catVars, cases>> => CatInv'
  <2> SUFFICES ASSUME CatInv, [CatNext /\ UNCHANGED cases]_<<catVars, cases>>
               PROVE  CatInv'
    BY Zenon
  <2>1. [CatNext]_catVars /\ cases' = cases
    BY Zenon
  <2>2. NoneOf({"storeFails", "sameName", "listOverlap"}) =>
           ~On("storeFails") /\ ~On("sameName") /\ ~On("listOverlap")
    BY Zenon DEF NoneOf, On
  <2> QED
    BY <2>1, <2>2, CatTypeStep, RecordStep, DirStep, Zenon DEF CatInv, NoneOf, On
<1>3. CatInv => CatalogIsExact
  BY Zenon DEF CatInv, CatType, RecordInv, DirInv, CatalogIsExact, LocalIsRecorded, AttachedIsRecorded
<1> QED
  BY <1>1, <1>2, <1>3, PTL DEF CatSpec

(***************************************************************************)
(* MetaStore                                                               *)
(***************************************************************************)

\* A request between opening the temporary file and the cache, or between
\* RemoveAll and the cache, has the lock of localStore; before the rename its
\* temporary file is complete.
WriterInv ==
    \A w \in Writers :
       /\ work[w].step \in {"write", "rename", "cache", "uncache"} => mlock = w
       /\ work[w].step \in {"open", "write", "rename", "cache", "insert"} => work[w].val \in Values
       /\ At(w, "rename") => temp[work[w].key] = work[w].val
       /\ At(w, "cache") => file[work[w].key] = work[w].val
       /\ At(w, "uncache") => file[work[w].key] = NoValue

\* The cache has what is on disk, except for the key that is being changed.
CacheInv ==
    \A k \in Keys : \/ mcache[k] = file[k]
                    \/ \E w \in Writers : work[w].key = k /\ work[w].step \in {"cache", "uncache"}

\* Requests that overlap are for different keys.
KeysInv == \A w, x \in Writers : work[w] # NoWork /\ work[w].key = work[x].key => w = x

\* The trie has the keys of the cache, except for the key that is about to be
\* inserted or deleted.
TrieInv ==
    /\ \A k \in Keys : \/ k \in trie <=> mcache[k] # NoValue
                       \/ \E w \in Writers :
                             work[w].key = k /\ work[w].step \in {"insert", "delete"}
    /\ \A w \in Writers : /\ At(w, "insert") => mcache[work[w].key] # NoValue
                          /\ At(w, "delete") => mcache[work[w].key] = NoValue

MetaInv ==
    /\ MetaTypeOK /\ WriterInv
    /\ NoneOf({"removeFails"}) => CacheInv
    /\ NoneOf({"sameKey"}) => KeysInv
    /\ NoneOf({"sameKey", "removeFails"}) => TrieInv

-----------------------------------------------------------------------------

\* Types, and what the holder of the lock has on disk, whatever fails.
LEMMA WriterStep ==
    ASSUME MetaTypeOK, WriterInv, [MetaNext]_metaVars
    PROVE  MetaTypeOK' /\ WriterInv'
<1>1. ASSUME NEW w \in Writers, NEW k \in Keys, NEW v \in Values, StorePut(w, k, v)
      PROVE  MetaTypeOK' /\ WriterInv'
  BY <1>1, Zenon DEF StorePut, MetaTypeOK, WriterInv, At, Work, disk
<1>2. ASSUME NEW w \in Writers, NEW k \in Keys, StoreRemove(w, k)
      PROVE  MetaTypeOK' /\ WriterInv'
  BY <1>2, Zenon DEF StoreRemove, MetaTypeOK, WriterInv, At, Work, NoWork, disk
<1>3. ASSUME NEW w \in Writers, OpenTemp(w)
      PROVE  MetaTypeOK' /\ WriterInv'
  BY <1>3, MetaAssumption DEF OpenTemp, MetaTypeOK, WriterInv, At, MGoto, Work, NoWork
<1>4. ASSUME NEW w \in Writers, FailPut(w)
      PROVE  MetaTypeOK' /\ WriterInv'
  BY <1>4, Zenon DEF FailPut, MetaTypeOK, WriterInv, At, Done, Work, NoWork, disk
<1>5. ASSUME NEW w \in Writers, WriteTemp(w)
      PROVE  MetaTypeOK' /\ WriterInv'
  BY <1>5 DEF WriteTemp, MetaTypeOK, WriterInv, At, MGoto, Work, NoWork
<1>6. ASSUME NEW w \in Writers, RenameTemp(w)
      PROVE  MetaTypeOK' /\ WriterInv'
  BY <1>6 DEF RenameTemp, MetaTypeOK, WriterInv, At, MGoto, Work, NoWork
<1>7. ASSUME NEW w \in Writers, PutCache(w)
      PROVE  MetaTypeOK' /\ WriterInv'
  BY <1>7 DEF PutCache, MetaTypeOK, WriterInv, At, MGoto, Work, NoWork, disk
<1>8. ASSUME NEW w \in Writers, TrieInsert(w)
      PROVE  MetaTypeOK' /\ WriterInv'
  BY <1>8 DEF TrieInsert, MetaTypeOK, WriterInv, At, Done, Work, NoWork, disk
<1>9. ASSUME NEW w \in Writers, RemoveAll(w)
      PROVE  MetaTypeOK' /\ WriterInv'
  BY <1>9, MetaAssumption DEF RemoveAll, MetaTypeOK, WriterInv, At, MGoto, Done, Work, NoWork
<1>10. ASSUME NEW w \in Writers, RemoveCache(w)
       PROVE  MetaTypeOK' /\ WriterInv'
  BY <1>10 DEF RemoveCache, MetaTypeOK, WriterInv, At, MGoto, Work, NoWork, disk
<1>11. ASSUME NEW w \in Writers, TrieDelete(w)
       PROVE  MetaTypeOK' /\ WriterInv'
  BY <1>11, Zenon DEF TrieDelete, MetaTypeOK, WriterInv, At, Done, Work, NoWork, disk
<1>12. ASSUME NEW k \in Keys, StoreGet(k)
       PROVE  MetaTypeOK' /\ WriterInv'
  BY <1>12, Zenon DEF StoreGet, MetaTypeOK, WriterInv, At, disk
<1>13. CASE NewStore
  BY <1>13, Zenon DEF NewStore, MetaTypeOK, WriterInv, At, Work, NoWork, disk
<1>14. CASE UNCHANGED metaVars
  BY <1>14, Zenon DEF metaVars, MetaTypeOK, WriterInv, At
<1> QED
  BY <1>1, <1>2, <1>3, <1>4, <1>5, <1>6, <1>7, <1>8, <1>9, <1>10, <1>11, <1>12, <1>13, <1>14,
     MetaAssumption, ZenonT(60) DEF MetaNext

\* Two requests that overlap are for different keys.
LEMMA KeysStep ==
    ASSUME MetaTypeOK, KeysInv, ~On("sameKey"), [MetaNext]_metaVars
    PROVE  KeysInv'
<1>1. ASSUME NEW w \in Writers, NEW k \in Keys, NEW v \in Values, StorePut(w, k, v)
      PROVE  KeysInv'
  BY <1>1 DEF StorePut, KeysInv, MayWork, Work
<1>2. ASSUME NEW w \in Writers, NEW k \in Keys, StoreRemove(w, k)
      PROVE  KeysInv'
  BY <1>2 DEF StoreRemove, KeysInv, MayWork, Work
<1>3. ASSUME NEW w \in Writers, OpenTemp(w)
      PROVE  KeysInv'
  BY <1>3 DEF OpenTemp, KeysInv, At, MGoto, Work, NoWork
<1>4. ASSUME NEW w \in Writers, FailPut(w)
      PROVE  KeysInv'
  BY <1>4, MetaAssumption DEF FailPut, MetaTypeOK, KeysInv, Done, Work, NoWork
<1>5. ASSUME NEW w \in Writers, WriteTemp(w)
      PROVE  KeysInv'
  BY <1>5 DEF WriteTemp, KeysInv, At, MGoto, Work, NoWork
<1>6. ASSUME NEW w \in Writers, RenameTemp(w)
      PROVE  KeysInv'
  BY <1>6 DEF RenameTemp, KeysInv, At, MGoto, Work, NoWork
<1>7. ASSUME NEW w \in Writers, PutCache(w)
      PROVE  KeysInv'
  BY <1>7 DEF PutCache, KeysInv, At, MGoto, Work, NoWork
<1>8. ASSUME NEW w \in Writers, TrieInsert(w)
      PROVE  KeysInv'
  BY <1>8, MetaAssumption DEF TrieInsert, MetaTypeOK, KeysInv, Done, Work, NoWork
<1>9. ASSUME NEW w \in Writers, RemoveAll(w)
      PROVE  KeysInv'
  BY <1>9, MetaAssumption DEF RemoveAll, MetaTypeOK, KeysInv, At, MGoto, Done, Work, NoWork
<1>10. ASSUME NEW w \in Writers, RemoveCache(w)
       PROVE  KeysInv'
  BY <1>10 DEF RemoveCache, KeysInv, At, MGoto, Work, NoWork
<1>11. ASSUME NEW w \in Writers, TrieDelete(w)
       PROVE  KeysInv'
  BY <1>11, MetaAssumption DEF TrieDelete, MetaTypeOK, KeysInv, Done, Work, NoWork
<1>12. ASSUME NEW k \in Keys, StoreGet(k)
       PROVE  KeysInv'
  BY <1>12, Zenon DEF StoreGet, KeysInv
<1>13. CASE NewStore
  BY <1>13, Zenon DEF NewStore, KeysInv
<1>14. CASE UNCHANGED metaVars
  BY <1>14, Zenon DEF metaVars, KeysInv
<1> QED
  BY <1>1, <1>2, <1>3, <1>4, <1>5, <1>6, <1>7, <1>8, <1>9, <1>10, <1>11, <1>12, <1>13, <1>14,
     MetaAssumption, ZenonT(60) DEF MetaNext, MetaTypeOK

\* The cache follows the disk, if RemoveAll does not fail.
LEMMA CacheStep ==
    ASSUME MetaTypeOK, WriterInv, CacheInv, ~On("removeFails"), [MetaNext]_metaVars
    PROVE  CacheInv'
<1>1. ASSUME NEW w \in Writers, NEW k \in Keys, NEW v \in Values, StorePut(w, k, v)
      PROVE  CacheInv'
  BY <1>1 DEF StorePut, Work, NoWork, disk, CacheInv, MayWork
<1>2. ASSUME NEW w \in Writers, NEW k \in Keys, StoreRemove(w, k)
      PROVE  CacheInv'
  BY <1>2 DEF StoreRemove, Work, NoWork, disk, CacheInv, MayWork
<1>3. ASSUME NEW w \in Writers, OpenTemp(w)
      PROVE  CacheInv'
  BY <1>3 DEF OpenTemp, At, MGoto, CacheInv
<1>4. ASSUME NEW w \in Writers, FailPut(w)
      PROVE  CacheInv'
  BY <1>4 DEF FailPut, At, Done, disk, CacheInv
<1>5. ASSUME NEW w \in Writers, WriteTemp(w)
      PROVE  CacheInv'
  BY <1>5 DEF WriteTemp, At, MGoto, CacheInv
<1>6. ASSUME NEW w \in Writers, RenameTemp(w)
      PROVE  CacheInv'
  BY <1>6 DEF RenameTemp, MetaTypeOK, MGoto, CacheInv
<1>7. ASSUME NEW w \in Writers, PutCache(w)
      PROVE  CacheInv'
  BY <1>7 DEF PutCache, MetaTypeOK, WriterInv, MGoto, disk, CacheInv
<1>8. ASSUME NEW w \in Writers, TrieInsert(w)
      PROVE  CacheInv'
  BY <1>8 DEF TrieInsert, At, Done, disk, CacheInv
<1>9. ASSUME NEW w \in Writers, RemoveAll(w)
      PROVE  CacheInv'
  BY <1>9 DEF RemoveAll, MetaTypeOK, MGoto, Work, NoWork, CacheInv
<1>10. ASSUME NEW w \in Writers, RemoveCache(w)
       PROVE  CacheInv'
  BY <1>10 DEF RemoveCache, MetaTypeOK, WriterInv, MGoto, disk, CacheInv
<1>11. ASSUME NEW w \in Writers, TrieDelete(w)
       PROVE  CacheInv'
  BY <1>11 DEF TrieDelete, At, Done, disk, CacheInv
<1>12. ASSUME NEW k \in Keys, StoreGet(k)
       PROVE  CacheInv'
  BY <1>12 DEF StoreGet, disk, CacheInv
<1>13. CASE NewStore
  BY <1>13, Zenon DEF NewStore, disk, CacheInv
<1>14. CASE UNCHANGED metaVars
  BY <1>14, Zenon DEF metaVars, CacheInv
<1> QED
  BY <1>1, <1>2, <1>3, <1>4, <1>5, <1>6, <1>7, <1>8, <1>9, <1>10, <1>11, <1>12, <1>13, <1>14,
     MetaAssumption, ZenonT(60) DEF MetaNext

\* The trie follows the cache, if moreover requests for one key do not overlap.
LEMMA TrieStep ==
    ASSUME MetaTypeOK, WriterInv, CacheInv, KeysInv, TrieInv,
           ~On("removeFails"), ~On("sameKey"), [MetaNext]_metaVars
    PROVE  TrieInv'
<1>1. ASSUME NEW w \in Writers, NEW k \in Keys, NEW v \in Values, StorePut(w, k, v)
      PROVE  TrieInv'
  BY <1>1 DEF StorePut, At, Work, NoWork, TrieInv, MayWork
<1>2. ASSUME NEW w \in Writers, NEW k \in Keys, StoreRemove(w, k)
      PROVE  TrieInv'
  BY <1>2 DEF StoreRemove, At, Work, NoWork, TrieInv, MayWork
<1>3. ASSUME NEW w \in Writers, OpenTemp(w)
      PROVE  TrieInv'
  BY <1>3 DEF OpenTemp, MetaTypeOK, At, MGoto, TrieInv
<1>4. ASSUME NEW w \in Writers, FailPut(w)
      PROVE  TrieInv'
  BY <1>4 DEF FailPut, MetaTypeOK, At, Done, Work, NoWork, TrieInv
<1>5. ASSUME NEW w \in Writers, WriteTemp(w)
      PROVE  TrieInv'
  BY <1>5 DEF WriteTemp, MetaTypeOK, At, MGoto, TrieInv
<1>6. ASSUME NEW w \in Writers, RenameTemp(w)
      PROVE  TrieInv'
  BY <1>6 DEF RenameTemp, MetaTypeOK, At, MGoto, KeysInv, TrieInv
<1>7. ASSUME NEW w \in Writers, PutCache(w)
      PROVE  TrieInv'
  BY <1>7, MetaAssumption DEF PutCache, MetaTypeOK, WriterInv, At, MGoto, CacheInv, KeysInv,
     TrieInv
<1>8. ASSUME NEW w \in Writers, TrieInsert(w)
      PROVE  TrieInv'
  BY <1>8 DEF TrieInsert, At, Done, Work, NoWork, TrieInv
<1>9. ASSUME NEW w \in Writers, RemoveAll(w)
      PROVE  TrieInv'
  BY <1>9 DEF RemoveAll, MetaTypeOK, WriterInv, At, MGoto, Work, NoWork, TrieInv
<1>10. ASSUME NEW w \in Writers, RemoveCache(w)
       PROVE  TrieInv'
  BY <1>10 DEF RemoveCache, MetaTypeOK, At, MGoto, Work, NoWork, KeysInv, TrieInv
<1>11. ASSUME NEW w \in Writers, TrieDelete(w)
       PROVE  TrieInv'
  BY <1>11 DEF TrieDelete, At, Done, Work, NoWork, TrieInv
<1>12. ASSUME NEW k \in Keys, StoreGet(k)
       PROVE  TrieInv'
  BY <1>12, MetaAssumption DEF StoreGet, WriterInv, At, CacheInv, TrieInv
<1>13. CASE NewStore
  BY <1>13, Zenon DEF NewStore, At, Work, NoWork, TrieInv
<1>14. CASE UNCHANGED metaVars
  BY <1>14, Zenon DEF metaVars, At, TrieInv
<1> QED
  BY <1>1, <1>2, <1>3, <1>4, <1>5, <1>6, <1>7, <1>8, <1>9, <1>10, <1>11, <1>12, <1>13, <1>14,
     MetaAssumption, ZenonT(60) DEF MetaNext

-----------------------------------------------------------------------------

\* Every step changes the disk and the last answer as the map would: only the
\* rename of a complete temporary file puts a value, and Get answers the value.
LEMMA MapStep ==
    ASSUME MetaTypeOK, WriterInv, CacheInv, ~On("removeFails"), [MetaNext]_metaVars
    PROVE  [Durable!Next]_<<file, got>>
<1>1. ASSUME NEW w \in Writers, RenameTemp(w)
      PROVE  Durable!Next
  <2>1. work[w].key \in Keys /\ work[w].val \in Values
    BY <1>1 DEF RenameTemp, NoWork, Work, MetaTypeOK, WriterInv, At
  <2>2. file' = [file EXCEPT ![work[w].key] = work[w].val] /\ UNCHANGED got
    BY <1>1, Zenon DEF RenameTemp, WriterInv
  <2> QED
    BY <2>1, <2>2, Zenon DEF Durable!Put, Durable!Next
<1>2. ASSUME NEW w \in Writers, RemoveAll(w)
      PROVE  Durable!Next
  <2>1. work[w].key \in Keys
    BY <1>2 DEF RemoveAll, NoWork, Work, MetaTypeOK, At
  <2> QED
    BY <1>2, <2>1, Zenon DEF RemoveAll, Durable!Remove, Durable!Next
<1>3. ASSUME NEW k \in Keys, StoreGet(k)
      PROVE  Durable!Next
  <2>1. mcache[k] = file[k]
    BY <1>3, MetaAssumption, Zenon DEF StoreGet, CacheInv, WriterInv
  <2> QED
    BY <1>3, <2>1, Zenon DEF StoreGet, disk, Durable!Get, Durable!Next
<1>4. ASSUME NEW w \in Writers, NEW k \in Keys,
             StoreRemove(w, k) \/ \E v \in Values : StorePut(w, k, v)
      PROVE  UNCHANGED <<file, got>>
  BY <1>4, Zenon DEF StoreRemove, StorePut, disk
<1>5. ASSUME NEW w \in Writers,
             OpenTemp(w) \/ WriteTemp(w) \/ FailPut(w) \/ PutCache(w) \/ TrieInsert(w)
             \/ RemoveCache(w) \/ TrieDelete(w)
      PROVE  UNCHANGED <<file, got>>
  BY <1>5, Zenon DEF OpenTemp, WriteTemp, FailPut, PutCache, TrieInsert, RemoveCache, TrieDelete,
     disk
<1>6. CASE NewStore \/ UNCHANGED metaVars
  BY <1>6, Zenon DEF NewStore, disk, metaVars
<1> QED
  BY <1>1, <1>2, <1>3, <1>4, <1>5, <1>6, Zenon DEF MetaNext

\* The invariant holds in every behaviour, in whatever cases.
LEMMA MetaInvariant == MetaSpec => []MetaInv
<1>1. MetaInit => MetaInv
  BY DEF MetaInit, MetaInv, MetaTypeOK, WriterInv, CacheInv, KeysInv, TrieInv, At, NoWork, Work
<1>2. MetaInv /\ [MetaNext /\ UNCHANGED cases]_<<metaVars, cases>> => MetaInv'
  <2> SUFFICES ASSUME MetaInv, [MetaNext /\ UNCHANGED cases]_<<metaVars, cases>>
               PROVE  MetaInv'
    BY Zenon
  <2>1. [MetaNext]_metaVars /\ cases' = cases
    BY Zenon
  <2>2. MetaTypeOK' /\ WriterInv'
    BY WriterStep, Zenon DEF MetaInv
  <2>3. NoneOf({"removeFails"}) => CacheInv'
    BY CacheStep, Zenon DEF MetaInv, NoneOf, On
  <2>4. NoneOf({"sameKey"}) => KeysInv'
    BY KeysStep, Zenon DEF MetaInv, NoneOf, On
  <2>5. NoneOf({"sameKey", "removeFails"}) => TrieInv'
    BY TrieStep, Zenon DEF MetaInv, NoneOf, On
  <2> QED
    BY <2>2, <2>3, <2>4, <2>5, Zenon DEF MetaInv, NoneOf
<1> QED
  BY <1>1, <1>2, PTL DEF MetaSpec

\* Put and Remove of the local backend are atomic and durable, and Get answers
\* what was put last, for any number of keys and of requests at the same time,
\* wherever a write fails or the daemon dies: the store implements DurableMap,
\* and its trie finds what the map has.
THEOREM StoreImplementsMap == MetaSpec => StoreIsDurable
<1>1. MetaInv => MetaTypeOK /\ TrieHasTheKeys
  <2> SUFFICES ASSUME MetaInv, \A w \in Writers : work[w] = NoWork,
                      NoneOf({"sameKey", "removeFails"})
               PROVE  trie = {k \in Keys : mcache[k] # NoValue}
    BY Zenon DEF MetaInv, TrieHasTheKeys
  <2>1. \A k \in Keys : k \in trie <=> mcache[k] # NoValue
    BY DEF MetaInv, TrieInv, NoWork, Work
  <2> QED
    BY <2>1, Zenon DEF MetaInv, MetaTypeOK
<1>2. MetaInit => Durable!Init
  BY Zenon DEF MetaInit, Durable!Init
<1>3. MetaInv /\ [MetaNext /\ UNCHANGED cases]_<<metaVars, cases>>
        => [NoneOf({"removeFails"}) => Durable!Next]_<<file, got>>
  <2> SUFFICES ASSUME MetaInv, [MetaNext /\ UNCHANGED cases]_<<metaVars, cases>>,
                      NoneOf({"removeFails"})
               PROVE  [Durable!Next]_<<file, got>>
    BY Zenon
  <2>1. [MetaNext]_metaVars /\ ~On("removeFails")
    BY Zenon DEF NoneOf, On
  <2> QED
    BY <2>1, MapStep, Zenon DEF MetaInv
<1> QED
  BY <1>1, <1>2, <1>3, MetaInvariant, PTL DEF MetaSpec, StoreIsDurable, ImplementsDurableMap
=============================================================================
