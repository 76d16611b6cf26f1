----------------------------- MODULE ImageStore -----------------------------
(***************************************************************************)
(* The image manager: the reference store it keeps in memory               *)
(* (daemon/mgr/image_store.go) beside the image database of containerd,    *)
(* as pull, load, tag and remove change both, and as a restart of the      *)
(* daemon builds the first from the second (daemon/mgr/image.go).          *)
(*                                                                         *)
(* A reference is a pair: a name with a tag, or a name with the digest of  *)
(* an image.  An image stands for its id and for its digest.  Every        *)
(* operation of the store is one step, under the store's lock, and so is   *)
(* every call of containerd.                                               *)
(***************************************************************************)
EXTENDS Naturals, FiniteSets, Scenario

CONSTANTS
    Names, Tags, Images,
    Clients,       \* requests that are served at the same time
    MaxRequests,   \* bound on the requests, one less where any may overlap
    MaxRestarts    \* bound on the restarts of the daemon

(* The cases: "pulls" pulls overlap, and those of one reference bring the  *)
(* same image; "overlap" requests of any kind overlap; "moveTag" a pull    *)
(* moves a tag that AddTag made, or whose digest was removed; "fault" a    *)
(* call of containerd fails.                                               *)

None == "none"
NoRef == <<>>
Daemon == "daemon"   \* the process that loads the store at the start

TagRefs == Names \X Tags
DigRefs == Names \X Images
Refs == TagRefs \cup DigRefs
Procs == Clients \cup {Daemon}

\* reference.WithDigest, which drops the tag when it is written out
WithDigest(r, i) == <<r[1], i>>

VARIABLES
    store,     \* the maps of imageStore
    ctrd,      \* containerd's database: per reference the image, and the label
    job,       \* per process: its request and the next step of it
    requests,  \* how many requests there have been
    restarts   \* how often the daemon was restarted

imageVars == <<store, ctrd, job, requests, restarts>>

Absent == [img |-> None, managed |-> FALSE]
Idle == [step |-> "idle", kind |-> None, ref |-> NoRef, img |-> None, todo |-> {}]

EmptyStore ==
    [idSet                 |-> {},
     primaryRefIndexByRef  |-> [r \in Refs |-> NoRef],
     idIndexByPrimaryRef   |-> [r \in Refs |-> None],
     refsIndexByPrimaryRef |-> [r \in Refs |-> {}],
     primaryRefsIndexByID  |-> [i \in Images |-> {}],
     imageInfoCache        |-> {}]

-----------------------------------------------------------------------------
(* The operations of imageStore *)

Primary(s, r) == s.primaryRefIndexByRef[r]

\* The image a reference leads to, if any.
Search(s, r) == IF Primary(s, r) = NoRef THEN None ELSE s.idIndexByPrimaryRef[Primary(s, r)]

\* All references that lead to an image through one of its primary references.
GetReferences(s, i) == UNION {s.refsIndexByPrimaryRef[p] : p \in s.primaryRefsIndexByID[i]}

\* A primary reference is not made a searchable reference of another one.
Refused(s, p, r) == Primary(s, r) = r /\ r # p

\* AddReference for primary reference p and reference r of image i.  Both leave
\* the places where they were before.
AddReference(s, i, p, r) ==
    LET old == Primary(s, r)
        oldID == s.idIndexByPrimaryRef[p]
    IN  [s EXCEPT
          !.idSet = @ \cup {i},
          !.primaryRefIndexByRef[r] = p,
          !.idIndexByPrimaryRef[p] = i,
          !.refsIndexByPrimaryRef =
              [q \in Refs |-> (@[q] \ {x \in {r} : q = old}) \cup {x \in {r} : q = p}],
          !.primaryRefsIndexByID =
              [j \in Images |-> (@[j] \ {x \in {p} : j = oldID}) \cup {x \in {p} : j = i}]]

\* RemoveReference: a primary reference takes its searchable references along,
\* and the last one the image.  idIndexByPrimaryRef keeps its entry.
RemoveReference(s, i, r) ==
    LET p == Primary(s, r)
        gone == IF r = p THEN s.refsIndexByPrimaryRef[p] \cup {r} ELSE {r}
    IN  IF i \notin s.idSet \/ p = NoRef THEN s
        ELSE [s EXCEPT
          !.primaryRefIndexByRef = [q \in Refs |-> IF q \in gone THEN NoRef ELSE @[q]],
          !.refsIndexByPrimaryRef[p] = @ \ gone,
          !.primaryRefsIndexByID[i] = IF r = p THEN @ \ {p} ELSE @,
          !.idSet = IF r = p /\ s.primaryRefsIndexByID[i] \subseteq {p} THEN @ \ {i} ELSE @]

-----------------------------------------------------------------------------
(* Requests *)

At(p, step) == job[p].step = step
Goto(p, step) == job' = [job EXCEPT ![p].step = step]
Return(p) == job' = [job EXCEPT ![p] = Idle]
Fault == On("fault")

\* A request of this kind may begin beside the ones that are being served.
MayBegin(c, kind, r, i) ==
    /\ At(c, "idle") /\ At(Daemon, "idle") /\ requests < MaxRequests - (IF On("overlap") THEN 1 ELSE 0)
    /\ \A d \in Clients \ {c} :
          \/ At(d, "idle")
          \/ On("overlap")
          \/ On("pulls") /\ kind = "pull" /\ job[d].kind = "pull"
             /\ (job[d].ref = r => job[d].img = i)

Begin(c, kind, step, r, i, todo) ==
    /\ MayBegin(c, kind, r, i)
    /\ requests' = requests + 1
    /\ job' = [job EXCEPT ![c] = [step |-> step, kind |-> kind, ref |-> r, img |-> i, todo |-> todo]]
    /\ UNCHANGED restarts

\* The rest of a request leaves the bookkeeping alone.
Within == UNCHANGED <<requests, restarts>>

\* A pull takes the tag from an image without a reference by digest.
MovesTag(r, i) ==
    LET old == Search(store, r)
    IN  r \in TagRefs /\ old \notin {None, i} /\ ctrd[WithDigest(r, old)] = Absent

\* PullImage and LoadImage: containerd stores the image under the reference,
\* whatever it had there.  The unpacking may fail afterwards.
PullImage(c, r, i) ==
    /\ r \in DigRefs => r[2] = i
    /\ MovesTag(r, i) => On("moveTag")
    /\ ctrd' = [ctrd EXCEPT ![r] = [img |-> i, managed |-> FALSE]]
    /\ UNCHANGED store
    /\ \/ Begin(c, "pull", "add", r, i, {})
       \/ Fault /\ MayBegin(c, "pull", r, i) /\ requests' = requests + 1
                /\ UNCHANGED <<job, restarts>>

\* addReferenceIntoStore, for a pull, a load, a tag or the start of the daemon.
AddPrimary(p) ==
    /\ At(p, "add")
    /\ LET r == job[p].ref IN
       /\ store' = AddReference(store, job[p].img, r, r)
       /\ Goto(p, IF r \in TagRefs THEN "search"
                  ELSE IF job[p].kind = "tag" THEN "create" ELSE "cache")
    /\ UNCHANGED ctrd /\ Within

\* The digest is made a searchable reference of the tag unless it is known.
SearchDigest(p) ==
    /\ At(p, "search")
    /\ Goto(p, IF Search(store, WithDigest(job[p].ref, job[p].img)) = None
               THEN "addDigest" ELSE "create")
    /\ UNCHANGED <<store, ctrd>> /\ Within

\* StoreImageReference and AddTag end with the error of AddReference.
Fail(p) == IF p = Daemon THEN Goto(p, "next") ELSE Return(p)

AddDigest(p) ==
    /\ At(p, "addDigest")
    /\ LET r == job[p].ref
           d == WithDigest(r, job[p].img)
       IN  \/ /\ ~Refused(store, r, d)
              /\ store' = AddReference(store, job[p].img, r, d) /\ Goto(p, "create")
           \/ Refused(store, r, d) /\ Fail(p) /\ UNCHANGED store
    /\ UNCHANGED ctrd /\ Within

\* StoreImageReference gives containerd a reference by digest, with the label
\* that says it is managed; an existing one is left alone.
CreateDigest(p) ==
    /\ At(p, "create") /\ job[p].kind # "tag"
    /\ LET d == WithDigest(job[p].ref, job[p].img) IN
       \/ /\ ctrd' = IF ctrd[d] # Absent THEN ctrd
                     ELSE [ctrd EXCEPT ![d] = [img |-> job[p].img, managed |-> TRUE]]
          /\ Goto(p, "addSelf")
       \/ Fault /\ UNCHANGED ctrd /\ Fail(p)
    /\ UNCHANGED store /\ Within

MutantDigestNotPrimary(p) ==
    /\ At(p, "addSelf")
    /\ Goto(p, "cache")
    /\ UNCHANGED <<store, ctrd>> /\ Within

\* That reference becomes a primary one in the store.
AddDigestPrimary(p) ==
    /\ At(p, "addSelf")
    /\ LET d == WithDigest(job[p].ref, job[p].img) IN
       store' = AddReference(store, job[p].img, d, d)
    /\ Goto(p, "cache")
    /\ UNCHANGED ctrd /\ Within

CacheCtrdImageInfo(p) ==
    /\ At(p, "cache")
    /\ store' = [store EXCEPT !.imageInfoCache = @ \cup {job[p].img}]
    /\ IF p = Daemon THEN Goto(p, "next") ELSE Return(p)
    /\ UNCHANGED ctrd /\ Within

-----------------------------------------------------------------------------
(* AddTag *)

\* The tag is not a primary reference yet, and the source leads to an image that
\* containerd has.  validateTagReference, CheckReference and GetImage only read.
AddTag(c, source, r) ==
    LET p == Primary(store, source)
    IN  /\ Primary(store, r) # r
        /\ p # NoRef /\ ctrd[p] # Absent
        /\ Begin(c, "tag", "add", r, ctrd[p].img, {})
        /\ UNCHANGED <<store, ctrd>>

\* containerd refuses a reference that it has; the store keeps the tag.
CreateTag(p) ==
    /\ At(p, "create") /\ job[p].kind = "tag"
    /\ LET r == job[p].ref IN
       \/ /\ ctrd[r] = Absent
          /\ ctrd' = [ctrd EXCEPT ![r] = [img |-> job[p].img, managed |-> FALSE]]
       \/ (ctrd[r] # Absent \/ Fault) /\ UNCHANGED ctrd
    /\ Return(p)
    /\ UNCHANGED store /\ Within

-----------------------------------------------------------------------------
(* RemoveImage *)

\* By id: without force all references must have the same name.
RemoveByID(c, i, force) ==
    /\ i \in store.idSet /\ store.primaryRefsIndexByID[i] # {}
    /\ force \/ \A r, q \in GetReferences(store, i) : r[1] = q[1]
    /\ Begin(c, "remove", "list", NoRef, i, {})
    /\ UNCHANGED <<store, ctrd>>

ListPrimaries(c) ==
    /\ At(c, "list")
    /\ job' = [job EXCEPT ![c].todo = store.primaryRefsIndexByID[job[c].img], ![c].step = "each"]
    /\ UNCHANGED <<store, ctrd>> /\ Within

\* containerd first, then the store; the first error ends the request.
DeleteEach(c) ==
    /\ At(c, "each")
    /\ \/ job[c].todo = {} /\ Goto(c, "defer") /\ UNCHANGED ctrd
       \/ \E r \in job[c].todo :
             \/ /\ ctrd[r] # Absent
                /\ ctrd' = [ctrd EXCEPT ![r] = Absent]
                /\ job' = [job EXCEPT ![c].ref = r, ![c].todo = @ \ {r}, ![c].step = "forget"]
             \/ (ctrd[r] = Absent \/ Fault) /\ Goto(c, "defer") /\ UNCHANGED ctrd
    /\ UNCHANGED store /\ Within

ForgetEach(c) ==
    /\ At(c, "forget")
    /\ store' = RemoveReference(store, job[c].img, job[c].ref)
    /\ Goto(c, "each")
    /\ UNCHANGED ctrd /\ Within

MutantRemoveUntags(c, r) ==
    /\ Search(store, r) # None
    /\ Begin(c, "remove", "untag", r, Search(store, r), {})
    /\ UNCHANGED <<store, ctrd>>

\* By reference: one that is not primary is only untagged.
RemoveByRef(c, r) ==
    /\ Search(store, r) # None
    /\ Begin(c, "remove", IF Primary(store, r) = r THEN "primary" ELSE "untag",
             r, Search(store, r), {})
    /\ UNCHANGED <<store, ctrd>>

Untag(c) ==
    /\ At(c, "untag")
    /\ store' = RemoveReference(store, job[c].img, job[c].ref)
    /\ Goto(c, "defer")
    /\ UNCHANGED ctrd /\ Within

RemovePrimary(c) ==
    /\ At(c, "primary")
    /\ store' = RemoveReference(store, job[c].img, job[c].ref)
    /\ Goto(c, "delete")
    /\ UNCHANGED ctrd /\ Within

\* GetImage and RemoveImage of containerd; the digest of the image that is
\* removed is kept for the reference by digest.
DeletePrimary(c) ==
    /\ At(c, "delete")
    /\ LET r == job[c].ref IN
       \/ /\ ctrd[r] # Absent
          /\ ctrd' = [ctrd EXCEPT ![r] = Absent]
          /\ job' = IF r \in DigRefs THEN [job EXCEPT ![c].step = "defer"]
                    ELSE [job EXCEPT ![c].step = "digest", ![c].ref = WithDigest(r, ctrd[r].img)]
       \/ (ctrd[r] = Absent \/ Fault) /\ Goto(c, "defer") /\ UNCHANGED ctrd
    /\ UNCHANGED store /\ Within

\* The reference by digest goes too, if it is a managed one.
RemoveDigest(c) ==
    /\ At(c, "digest")
    /\ \/ /\ ctrd[job[c].ref].managed
          /\ store' = RemoveReference(store, job[c].img, job[c].ref)
          /\ Goto(c, "deleteDigest")
       \/ (~ctrd[job[c].ref].managed \/ Fault) /\ Goto(c, "defer") /\ UNCHANGED store
    /\ UNCHANGED ctrd /\ Within

DeleteDigest(c) ==
    /\ At(c, "deleteDigest")
    /\ \/ ctrd' = [ctrd EXCEPT ![job[c].ref] = Absent]
       \/ Fault /\ UNCHANGED ctrd
    /\ Goto(c, "defer")
    /\ UNCHANGED store /\ Within

\* The deferred function drops the cached information of an image without
\* primary references, in two operations of the store.
Defer(c) ==
    /\ At(c, "defer")
    /\ IF store.primaryRefsIndexByID[job[c].img] = {} THEN Goto(c, "clear") ELSE Return(c)
    /\ UNCHANGED <<store, ctrd>> /\ Within

ClearCtrdImageInfo(c) ==
    /\ At(c, "clear")
    /\ store' = [store EXCEPT !.imageInfoCache = @ \ {job[c].img}]
    /\ Return(c)
    /\ UNCHANGED ctrd /\ Within

-----------------------------------------------------------------------------
(* Restart: NewImageManager makes an empty store and updateLocalStore stores *)
(* every image of containerd's list; an error is only logged.                *)

Restart ==
    /\ restarts < MaxRestarts /\ At(Daemon, "idle")
    /\ restarts' = restarts + 1
    /\ store' = EmptyStore
    /\ job' = [p \in Procs |->
                 IF p = Daemon THEN [Idle EXCEPT !.step = "next", !.kind = "load",
                                                 !.todo = {r \in Refs : ctrd[r] # Absent}]
                 ELSE Idle]
    /\ UNCHANGED <<ctrd, requests>>

MutantLoadOncePerImage ==
    /\ At(Daemon, "next")
    /\ \/ job[Daemon].todo = {} /\ Return(Daemon)
       \/ \E r \in job[Daemon].todo :
             job' = [job EXCEPT ![Daemon].step = "add", ![Daemon].ref = r, ![Daemon].img = ctrd[r].img,
                                ![Daemon].todo = {q \in @ : ctrd[q].img # ctrd[r].img}]
    /\ UNCHANGED <<store, ctrd>> /\ Within

LoadNext ==
    /\ At(Daemon, "next")
    /\ \/ job[Daemon].todo = {} /\ Return(Daemon)
       \/ \E r \in job[Daemon].todo :
             job' = [job EXCEPT ![Daemon].step = "add", ![Daemon].ref = r,
                                ![Daemon].img = ctrd[r].img, ![Daemon].todo = @ \ {r}]
    /\ UNCHANGED <<store, ctrd>> /\ Within

ImageInit ==
    /\ store = EmptyStore
    /\ ctrd = [r \in Refs |-> Absent]
    /\ job = [p \in Procs |-> Idle]
    /\ requests = 0 /\ restarts = 0

ImageNext ==
    \/ \E c \in Clients :
          \/ \E r \in Refs, i \in Images : PullImage(c, r, i)
          \/ \E s \in Refs, r \in TagRefs : AddTag(c, s, r)
          \/ \E i \in Images, force \in BOOLEAN : RemoveByID(c, i, force)
          \/ \E r \in Refs : RemoveByRef(c, r)
          \/ ListPrimaries(c) \/ DeleteEach(c) \/ ForgetEach(c) \/ Untag(c)
          \/ RemovePrimary(c) \/ DeletePrimary(c) \/ RemoveDigest(c) \/ DeleteDigest(c)
          \/ Defer(c) \/ ClearCtrdImageInfo(c)
    \/ \E p \in Procs :
          \/ AddPrimary(p) \/ SearchDigest(p) \/ AddDigest(p) \/ CreateDigest(p)
          \/ AddDigestPrimary(p) \/ CacheCtrdImageInfo(p) \/ CreateTag(p)
    \/ Restart \/ LoadNext

-----------------------------------------------------------------------------
(* Properties *)

Quiet == \A p \in Procs : At(p, "idle")

\* Every variable has its type.
ImageTypeOK ==
    /\ store.idSet \subseteq Images /\ store.imageInfoCache \subseteq Images
    /\ store.primaryRefIndexByRef \in [Refs -> Refs \cup {NoRef}]
    /\ store.idIndexByPrimaryRef \in [Refs -> Images \cup {None}]
    /\ store.refsIndexByPrimaryRef \in [Refs -> SUBSET Refs]
    /\ store.primaryRefsIndexByID \in [Images -> SUBSET Refs]
    /\ ctrd \in [Refs -> [img : Images \cup {None}, managed : BOOLEAN]]
    /\ \A p \in Procs : job[p].todo \subseteq Refs /\ job[p].img \in Images \cup {None}

\* The five maps describe one relation: the searchable references of a primary
\* one lead back to it, it is one of them, and it is listed under its image,
\* which can be found.
Agree ==
    /\ \A r, p \in Refs : Primary(store, r) = p <=> r \in store.refsIndexByPrimaryRef[p]
    /\ \A r \in Refs : Primary(store, r) # NoRef => Primary(store, Primary(store, r)) = Primary(store, r)
    /\ \A i \in Images : store.primaryRefsIndexByID[i] =
          {p \in Refs : Primary(store, p) = p /\ store.idIndexByPrimaryRef[p] = i}
    /\ \A i \in Images : store.primaryRefsIndexByID[i] # {} => i \in store.idSet

\* The primary references of the store are the references of containerd, with
\* the same images.
Matches ==
    \A r \in Refs : ctrd[r].img = IF Primary(store, r) = r THEN Search(store, r) ELSE None

\* The maps of the store agree after every operation on it.
IndexesAgree == NoneOf({"overlap", "fault"}) => Agree

\* Between requests, a reference by digest leads to the image with this digest.
DigestNamesItsImage ==
    NoneOf({"overlap", "moveTag", "fault"}) /\ Quiet =>
    \A d \in DigRefs : Search(store, d) \in {None, d[2]}

\* Between requests, an image that ListImages shows has a primary reference, and
\* so can be removed.
ListedHasPrimary ==
    NoneOf({"overlap", "moveTag", "fault"}) /\ Quiet =>
    \A i \in store.imageInfoCache : store.primaryRefsIndexByID[i] # {}

\* Between requests the store and containerd agree: no request leaves a reference
\* in one of them only.
StoreMatchesContainerd == NoneOf({"overlap", "fault"}) /\ Quiet => Matches

\* However the requests before a crash overlapped, a restarted daemon ends the
\* loading with a store that is consistent and agrees with containerd.
LoadRepairs ==
    [][~Fault /\ At(Daemon, "next") /\ At(Daemon, "idle")' => Agree' /\ Matches']_imageVars

\* The in-memory image store is sound: its maps agree, a digest names its own
\* image, and every image that is listed can be removed.
StoreIsSound == ImageTypeOK /\ IndexesAgree /\ DigestNamesItsImage /\ ListedHasPrimary
=============================================================================
