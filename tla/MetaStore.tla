----------------------------- MODULE MetaStore -----------------------------
(***************************************************************************)
(* pkg/meta: the metadata store of the containers and of the pod           *)
(* sandboxes, with the local backend.  An object is the file meta.json in  *)
(* the directory of its key.  The backend writes a temporary file and      *)
(* renames it, and keeps a cache, all under its lock; Store keeps the keys *)
(* in a trie with a lock of its own.                                       *)
(***************************************************************************)
EXTENDS Scenario

CONSTANTS Keys, Values, NoValue, Writers

(* A write or a rename may fail, and the daemon may die, at any step.  The *)
(* cases: "removeFails" RemoveAll may fail; "sameKey" requests for one key *)
(* overlap.                                                                *)

ASSUME MetaAssumption == NoValue \notin Keys \cup Values \cup Writers

VARIABLES
    file,    \* per key the content of meta.json
    temp,    \* per key the content of a temporary file beside it
    mcache,  \* per key localStore.cache
    trie,    \* the keys in Store.trie
    mlock,   \* who holds the lock of localStore, NoValue if nobody does
    work,    \* per writer: its next step, the key and the value
    got      \* what the last Get has returned

disk == <<file, temp>>
metaVars == <<file, temp, mcache, trie, mlock, work, got>>

Torn == "torn"

Work(step, k, v) == [step |-> step, key |-> k, val |-> v]
NoWork == Work("idle", NoValue, NoValue)
At(w, step) == work[w].step = step
MGoto(w, step) == work' = [work EXCEPT ![w].step = step]
Done(w) == work' = [work EXCEPT ![w] = NoWork]
MayWork(w, k) ==
    /\ work[w] = NoWork
    /\ On("sameKey") \/ \A x \in Writers : work[x].key # k

-----------------------------------------------------------------------------
(* Put *)

StorePut(w, k, v) ==
    /\ MayWork(w, k)
    /\ work' = [work EXCEPT ![w] = Work("open", k, v)]
    /\ UNCHANGED <<disk, mcache, trie, mlock, got>>

\* The temporary file is named after the time, so one that was left is never read.
OpenTemp(w) ==
    /\ At(w, "open") /\ mlock = NoValue
    /\ mlock' = w /\ temp' = [temp EXCEPT ![work[w].key] = Torn]
    /\ MGoto(w, "write")
    /\ UNCHANGED <<file, mcache, trie, got>>

\* Put returns the error, and the temporary file stays.
FailPut(w) ==
    /\ At(w, "write") \/ At(w, "rename")
    /\ mlock' = NoValue /\ Done(w)
    /\ UNCHANGED <<disk, mcache, trie, got>>

WriteTemp(w) ==
    /\ At(w, "write")
    /\ temp' = [temp EXCEPT ![work[w].key] = work[w].val]
    /\ MGoto(w, "rename")
    /\ UNCHANGED <<file, mcache, trie, mlock, got>>

RenameTemp(w) ==
    /\ At(w, "rename")
    /\ file' = [file EXCEPT ![work[w].key] = temp[work[w].key]]
    /\ temp' = [temp EXCEPT ![work[w].key] = NoValue]
    /\ MGoto(w, "cache")
    /\ UNCHANGED <<mcache, trie, mlock, got>>

MutantCacheOnce(w) ==
    /\ At(w, "cache")
    /\ mcache' = [mcache EXCEPT ![work[w].key] = IF @ = NoValue THEN work[w].val ELSE @]
    /\ mlock' = NoValue /\ MGoto(w, "insert")
    /\ UNCHANGED <<disk, trie, got>>

PutCache(w) ==
    /\ At(w, "cache")
    /\ mcache' = [mcache EXCEPT ![work[w].key] = work[w].val]
    /\ mlock' = NoValue /\ MGoto(w, "insert")
    /\ UNCHANGED <<disk, trie, got>>

TrieInsert(w) ==
    /\ At(w, "insert")
    /\ trie' = trie \cup {work[w].key} /\ Done(w)
    /\ UNCHANGED <<disk, mcache, mlock, got>>

-----------------------------------------------------------------------------
(* Remove *)

StoreRemove(w, k) ==
    /\ MayWork(w, k)
    /\ work' = [work EXCEPT ![w] = Work("removeAll", k, NoValue)]
    /\ UNCHANGED <<disk, mcache, trie, mlock, got>>

\* RemoveAll that fails may have removed meta.json.
RemoveAll(w) ==
    LET k == work[w].key
    IN /\ At(w, "removeAll") /\ mlock = NoValue
       /\ \/ /\ file' = [file EXCEPT ![k] = NoValue] /\ temp' = [temp EXCEPT ![k] = NoValue]
             /\ mlock' = w /\ MGoto(w, "uncache")
          \/ /\ On("removeFails") /\ file' \in {file, [file EXCEPT ![k] = NoValue]}
             /\ UNCHANGED <<temp, mlock>> /\ Done(w)
       /\ UNCHANGED <<mcache, trie, got>>

RemoveCache(w) ==
    /\ At(w, "uncache")
    /\ mcache' = [mcache EXCEPT ![work[w].key] = NoValue]
    /\ mlock' = NoValue /\ MGoto(w, "delete")
    /\ UNCHANGED <<disk, trie, got>>

TrieDelete(w) ==
    /\ At(w, "delete")
    /\ trie' = trie \ {work[w].key} /\ Done(w)
    /\ UNCHANGED <<disk, mcache, mlock, got>>

-----------------------------------------------------------------------------
\* Get reads the cache, and the file of a key that is not there.
StoreGet(k) ==
    LET v == IF mcache[k] = NoValue THEN file[k] ELSE mcache[k]
    IN /\ mlock = NoValue
       /\ got' = v /\ mcache' = [mcache EXCEPT ![k] = v]
       /\ UNCHANGED <<disk, trie, mlock, work>>

\* The daemon dies and starts again: NewLocalStore reads every meta.json, and
\* skips a directory without one; NewStore makes the trie of the cached keys.
NewStore ==
    /\ mcache' = file
    /\ trie' = {k \in Keys : mcache'[k] # NoValue}
    /\ mlock' = NoValue /\ work' = [w \in Writers |-> NoWork]
    /\ UNCHANGED <<disk, got>>

MetaInit ==
    /\ file = [k \in Keys |-> NoValue] /\ temp = file /\ mcache = file /\ trie = {}
    /\ mlock = NoValue /\ got = NoValue
    /\ work = [w \in Writers |-> NoWork]

MetaNext ==
    \/ \E w \in Writers :
          \/ \E k \in Keys : StoreRemove(w, k) \/ \E v \in Values : StorePut(w, k, v)
          \/ OpenTemp(w) \/ WriteTemp(w) \/ FailPut(w) \/ RenameTemp(w) \/ PutCache(w)
          \/ TrieInsert(w) \/ RemoveAll(w) \/ RemoveCache(w) \/ TrieDelete(w)
    \/ \E k \in Keys : StoreGet(k)
    \/ NewStore

MetaSpec == MetaInit /\ [][MetaNext /\ UNCHANGED cases]_<<metaVars, cases>>

-----------------------------------------------------------------------------
(* Properties *)

\* Every variable has its type; no meta.json is ever torn.
MetaTypeOK ==
    LET Contents == [Keys -> Values \cup {NoValue}]
    IN /\ file \in Contents /\ temp \in [Keys -> Values \cup {NoValue, Torn}]
       /\ mcache \in Contents /\ trie \subseteq Keys
       /\ mlock \in Writers \cup {NoValue} /\ got \in Values \cup {NoValue}
       /\ work \in [Writers -> [step : {"open", "write", "rename", "cache", "insert",
                                       "removeAll", "uncache", "delete"},
                               key : Keys, val : Values \cup {NoValue}] \cup {NoWork}]

\* Whenever no request is under way, KeysWithPrefix finds the keys that Get
\* finds, and only those: GetWithPrefix, which fails if one of the keys is
\* missing, works.
TrieHasTheKeys ==
    (\A w \in Writers : work[w] = NoWork) /\ NoneOf({"sameKey", "removeFails"})
       => trie = {k \in Keys : mcache[k] # NoValue}

Durable == INSTANCE DurableMap WITH val <- file, reply <- got

\* Put and Remove are atomic and durable, and Get answers what was put last:
\* whatever fails, however the daemon dies in between, the store implements a
\* map that a crash does not change.  A RemoveAll that fails after it has removed
\* meta.json leaves the value in the cache.
ImplementsDurableMap == Durable!Init /\ [][NoneOf({"removeFails"}) => Durable!Next]_<<file, got>>

\* The store implements the durable map, and its trie finds what the map has.
StoreIsDurable == [](MetaTypeOK /\ TrieHasTheKeys) /\ ImplementsDurableMap
=============================================================================
