---------------------------- MODULE MountPoints ----------------------------
(***************************************************************************)
(* The mount points of one container: initContainerStorage of              *)
(* daemon/mgr/container_storage.go with the modes of apis/opts, for a      *)
(* container that is created, upgraded and removed.                        *)
(*                                                                         *)
(* A path is the sequence of its components, with an empty one for a       *)
(* trailing slash.  A directory of the host is a volume (or the bound host *)
(* path) and a path below it.  The order of c.Mounts is left out, since    *)
(* populateVolumes sorts them and the others do not depend on it.          *)
(***************************************************************************)
EXTENDS Naturals, Sequences, Scenario

LOCAL INSTANCE SequencesExt

CONSTANTS
    MaxFrom,    \* mount points of other containers (--volumes-from)
    MaxBinds    \* binds

(* The cases: "fromOthers" mount points come from other containers;        *)
(* "binds" they come from binds; "replace" a bind replaces a directory     *)
(* below its volume; "fromReplaced" another container has such a mount     *)
(* point; "fromHost" it has one of the host; "badMode" a mode of           *)
(* --volumes-from is invalid; "attachFails" an attach fails;               *)
(* "storageFails" a step after an attach fails; "upgrades" the container   *)
(* is upgraded.                                                            *)

A == <<"a">>
AB == <<"a", "b">>
ASlash == <<"a", "">>
Dests == {A, AB}
Spelled == {A, AB, ASlash}

Vol == <<"volume">>
Host == <<"host">>
NoName == <<>>
Anon(dest) == <<"anonymous", dest>>   \* a random name

Dir(root, sub) == [root |-> root, sub |-> sub]
Inside(d, e) == d.root = e.root /\ IsPrefix(e.sub, d.sub)

VARIABLES
    want,      \* what the request, other containers and the image ask for
    mounts,    \* c.Mounts
    had,       \* c.Mounts when the storage was initialised last
    volumeSet, \* volumes attached in this pass
    attached,  \* volumes that have this container among their references
    files,     \* per directory with files: whose they are
    dirs,      \* directories that exist
    old,       \* directories that had files before
    todo,      \* what is left of the current step
    phase

mountVars == <<want, mounts, had, volumeSet, attached, files, dirs, old, todo, phase>>

Clean(dest) == SelectSeq(dest, LAMBDA x : x # "")

CheckDuplicateMountPoint(ms, dest) == \E m \in ms : Clean(m.dest) = Clean(dest)

\* ParseBindMode of a set of flags; it keeps what mp has of a mode, if it is
\* empty, and of a replacement.
ParseBindMode(mp, mode) ==
    [mp EXCEPT !.rw = "ro" \notin mode, !.copy = "nocopy" \notin mode,
               !.replace = @ \/ "dr" \in mode, !.mode = IF mode = {} THEN @ ELSE mode]
BadMode(mode) == "bad" \in mode \/ {"ro", "rw"} \subseteq mode

MountPoint(dest, name, source, named) ==
    [dest |-> dest, name |-> name, source |-> source, named |-> named,
     rw |-> TRUE, copy |-> TRUE, replace |-> FALSE, mode |-> {}]

-----------------------------------------------------------------------------
(* generateMountPoints *)

MoveOn(next) == todo' = next /\ UNCHANGED phase
Unchanged == UNCHANGED <<want, had, files, dirs, old>>

\* An error detaches the volumes that c.Mounts names.
NamesOf(ms) == {m.name : m \in ms} \ {NoName}
FailMounts(refs) ==
    /\ phase' = "failed" /\ attached' = refs \ NamesOf(mounts)
    /\ UNCHANGED <<mounts, volumeSet, todo>>

\* attachVolume makes the volume if it has to, and attaches it.  Path may fail
\* after that.
Attached(name) == IF name \in {NoName} \cup volumeSet THEN attached ELSE attached \cup {name}
AttachError(name) ==
    /\ name \notin {NoName} \cup volumeSet
    /\ \/ On("attachFails") /\ FailMounts(attached)
       \/ On("storageFails") /\ FailMounts(Attached(name))

AddMount(mp, name, next) ==
    /\ mounts' = mounts \cup {mp} /\ attached' = Attached(name)
    /\ volumeSet' = volumeSet \cup ({name} \ {NoName})
    /\ MoveOn(next)

Skip(next) == MoveOn(next) /\ UNCHANGED <<mounts, volumeSet, attached>>

\* Read-write and copy are inherited, unless the mode has them.
Inherit(mp, o, mode) ==
    [mp EXCEPT !.rw = IF mode \cap {"ro", "rw"} = {} THEN o.rw ELSE @,
               !.copy = IF "nocopy" \in mode THEN @ ELSE "nocopy" \notin o.mode]

\* A volume that is in volumeSet is not attached again, and has no name here.
GetMountPointFromContainers ==
    /\ phase = "containers" /\ todo # <<>>
    /\ LET o == Head(todo).mount
           mode == Head(todo).mode
           name == IF o.name \in volumeSet THEN NoName ELSE o.name
           mp == [o EXCEPT !.name = name]
       IN  IF CheckDuplicateMountPoint(mounts, o.dest)
           THEN Skip(Tail(todo))
           ELSE \/ AttachError(name)
                \/ BadMode(mode) /\ FailMounts(Attached(name))
                \/ ~BadMode(mode) /\ AddMount(Inherit(ParseBindMode(mp, mode), o, mode), name, Tail(todo))
    /\ Unchanged

\* The directory of a bind: that of the volume, or one below it in mode dr, in
\* which case the mount point does not name the volume.  (Mode rr differs in the
\* name of this directory only.)
Bound(b) ==
    LET name == IF b.source = <<>> THEN Anon(b.dest) ELSE b.source
        mp == ParseBindMode(MountPoint(b.dest, name, Dir(name, <<>>), b.source # <<>>), b.mode)
    IN  IF name = Host THEN [mp EXCEPT !.name = NoName, !.copy = FALSE]
        ELSE IF mp.replace
             THEN [mp EXCEPT !.name = NoName, !.named = FALSE, !.source = Dir(name, Clean(b.dest))]
             ELSE mp

GetMountPointFromBinds ==
    /\ phase = "binds" /\ todo # <<>>
    /\ LET b == Head(todo)
           name == IF b.source = Host THEN NoName ELSE Bound(b).source.root
       IN  IF CheckDuplicateMountPoint(mounts, b.dest)
           THEN Skip(Tail(todo))
           ELSE \/ AttachError(name)
                \/ BadMode(b.mode) /\ FailMounts(attached)
                \/ ~BadMode(b.mode) /\ AddMount(Bound(b), name, Tail(todo))
    /\ Unchanged

\* getMountPointFromImage and getMountPointFromVolumes go through a map, in any
\* order.
GetMountPointFromVolumes ==
    /\ phase \in {"image", "volumes"}
    /\ \E dest \in todo :
          LET mp == MountPoint(dest, Anon(dest), Dir(Anon(dest), <<>>), FALSE)
          IN  IF CheckDuplicateMountPoint(mounts, dest)
              THEN Skip(todo \ {dest})
              ELSE AttachError(mp.name) \/ AddMount(mp, mp.name, todo \ {dest})
    /\ Unchanged

\* The next source of mount points; at the end the destinations are cleaned.
NextSource ==
    /\ \/ phase \in {"containers", "binds"} /\ todo = <<>>
       \/ phase \in {"image", "volumes"} /\ todo = {}
    /\ CASE phase = "containers" -> phase' = "binds" /\ todo' = want.binds /\ UNCHANGED mounts
         [] phase = "binds" -> phase' = "image" /\ todo' = want.image /\ UNCHANGED mounts
         [] phase = "image" -> phase' = "volumes" /\ todo' = want.volumes \cup want.image /\ UNCHANGED mounts
         [] phase = "volumes" ->
                /\ phase' = "populate" /\ mounts' = {[m EXCEPT !.dest = Clean(@)] : m \in mounts}
                /\ todo' = mounts'
    /\ UNCHANGED <<want, had, volumeSet, attached, files, dirs, old>>

-----------------------------------------------------------------------------
(* populateVolumes *)

HasFiles(d) == \E e \in DOMAIN files : Inside(e, d)
IsEmpty(d) == ~HasFiles(d) /\ \A e \in dirs : Inside(e, d) => e = d
ImageBelow(dest) == {x \in want.content : IsPrefix(dest, x)}

MutantUnsorted(mp) == TRUE

\* sortMountPoint: the shortest destination first, so a directory comes before
\* those below it; the order of others is left open.
ComesFirst(mp) == \A m \in todo : ~IsStrictPrefix(m.dest, mp.dest)

\* copyImageContent: the files of the image below the destination, if there are
\* any and the directory is empty.
Filled(mp) ==
    LET below == ImageBelow(mp.dest)
        place(x) == Dir(mp.source.root, mp.source.sub \o SubSeq(x, Len(mp.dest) + 1, Len(x)))
        new == {place(x) : x \in below}
    IN  IF mp.copy /\ below # {} /\ IsEmpty(mp.source)
        THEN [d \in DOMAIN files \cup new |->
                 IF d \in new THEN CHOOSE x \in below : place(x) = d ELSE files[d]]
        ELSE files

PopulateVolume ==
    /\ phase = "populate"
    /\ \E mp \in todo :
          /\ ComesFirst(mp) /\ todo' = todo \ {mp}
          /\ files' = Filled(mp)
          /\ dirs' = IF mp.copy /\ ImageBelow(mp.dest) # {} THEN dirs \cup {mp.source} ELSE dirs
    /\ UNCHANGED <<want, mounts, had, volumeSet, attached, old, phase>>

\* The sources that are missing are made.  The working directory, the quotas and
\* the mtab file follow, and the root file system is unmounted; an error of these
\* steps, or of the quota map before them, does not detach the volumes.
FinishStorage ==
    /\ phase = "populate"
    /\ \/ todo = {} /\ phase' = "done" /\ dirs' = dirs \cup {m.source : m \in mounts}
       \/ On("storageFails") /\ phase' = "failed" /\ UNCHANGED dirs
    /\ UNCHANGED <<want, mounts, had, volumeSet, attached, files, old, todo>>

-----------------------------------------------------------------------------
(* The callers *)

\* Upgrade: the storage is initialised again, for a new image.
UpgradeStorage ==
    /\ phase = "done" /\ On("upgrades") /\ had = {}
    /\ \E image, content \in {{}, Dests} : want' = [want EXCEPT !.image = image, !.content = content]
    /\ had' = mounts /\ volumeSet' = {} /\ old' = DOMAIN files
    /\ phase' = "containers" /\ todo' = want.from
    /\ UNCHANGED <<mounts, attached, files, dirs>>

\* Remove detaches the volumes that are named.
DetachVolumes ==
    /\ phase = "done" /\ phase' = "removed" /\ attached' = attached \ NamesOf(mounts)
    /\ UNCHANGED <<want, mounts, had, volumeSet, files, dirs, old, todo>>

\* Mount points of other containers, as this module makes them.
OthersMounts ==
    LET plain(d) == MountPoint(d, Vol, Dir(Vol, <<>>), TRUE)
        replaced(d) == [MountPoint(d, NoName, Dir(Vol, d), FALSE) EXCEPT !.replace = TRUE, !.mode = {"dr"}]
        host == [MountPoint(A, NoName, Dir(Host, <<>>), TRUE) EXCEPT !.copy = FALSE]
    IN  {plain(d) : d \in Dests} \cup {MountPoint(A, Anon(AB), Dir(Anon(AB), <<>>), FALSE)}
        \cup {[plain(d) EXCEPT !.rw = FALSE, !.mode = {"ro"}] : d \in Dests}
        \cup {[plain(d) EXCEPT !.copy = FALSE, !.mode = {"nocopy"}] : d \in Dests}
        \cup (IF On("fromReplaced") THEN {replaced(d) : d \in Dests} ELSE {})
        \cup (IF On("fromHost") THEN {host} ELSE {})

FromModes == {{}, {"ro"}, {"rw"}, {"nocopy"}} \cup (IF On("badMode") THEN {{"bad"}} ELSE {})
BindModes == {{}, {"nocopy"}, {"ro", "rw"}} \cup (IF On("replace") THEN {{"dr"}} ELSE {})

Froms == [mount : OthersMounts, mode : FromModes]
Binds == [source : {<<>>, Vol, Host}, dest : Spelled, mode : BindModes]

\* What a container may ask for.
Wants ==
    IF On("fromOthers")
    THEN [from : BoundedSeq(Froms, MaxFrom),
          binds : {<<>>, <<[source |-> Vol, dest |-> ASlash, mode |-> {}]>>},
          image : {{}, Dests}, volumes : {{}}, content : {Dests}]
    ELSE [from : {<<>>}, binds : BoundedSeq(Binds, IF On("binds") THEN MaxBinds ELSE 0),
          image : {{}, Dests}, volumes : {{ASlash}}, content : {{}, Dests}]

MountInit ==
    /\ want \in Wants /\ old \in {{}, {Dir(Vol, AB)}}
    /\ files = [d \in old |-> <<"user">>] /\ dirs = old
    /\ mounts = {} /\ had = {} /\ volumeSet = {} /\ attached = {}
    /\ phase = "containers" /\ todo = want.from

MountNext ==
    \/ GetMountPointFromContainers \/ GetMountPointFromBinds \/ GetMountPointFromVolumes \/ NextSource
    \/ PopulateVolume \/ FinishStorage
    \/ UpgradeStorage \/ DetachVolumes

-----------------------------------------------------------------------------
(* Properties *)

MountTypeOK ==
    /\ phase \in {"containers", "binds", "image", "volumes", "populate", "done", "failed", "removed"}
    /\ \A m \in mounts : Clean(m.dest) \in Dests /\ m.rw \in BOOLEAN /\ m.copy \in BOOLEAN
    /\ DOMAIN files \subseteq dirs \cup {d \in DOMAIN files : \E e \in dirs : Inside(d, e)}

Ready == phase = "done"

\* Each destination that is asked for has one mount point, from the first of
\* these that has it: the mount points before an upgrade, the other containers,
\* the binds, the image and the volumes of the config.
Expected(d, m) ==
    LET from == SelectSeq(want.from, LAMBDA x : x.mount.dest = d)
        binds == SelectSeq(want.binds, LAMBDA x : Clean(x.dest) = d)
    IN  IF \E h \in had : h.dest = d THEN m \in had
        ELSE IF from # <<>>
        THEN LET o == from[1].mount
                 mode == from[1].mode
             IN  /\ m.source = o.source
                 /\ m.rw = ("rw" \in mode \/ (o.rw /\ "ro" \notin mode))
                 /\ m.copy => {"nocopy"} \cap (mode \cup o.mode) = {}
        ELSE IF binds # <<>>
        THEN m.source.root = IF binds[1].source = <<>> THEN Anon(binds[1].dest) ELSE binds[1].source
        ELSE m.source = Dir(m.name, <<>>) /\ ~m.named

OneMountEach ==
    Ready => \A d \in Dests :
        LET here == {m \in mounts : m.dest = d}
            asked == \/ \E i \in DOMAIN want.from : want.from[i].mount.dest = d
                     \/ \E i \in DOMAIN want.binds : Clean(want.binds[i].dest) = d
                     \/ d \in want.image \/ \E v \in want.volumes : Clean(v) = d
                     \/ \E h \in had : h.dest = d
        IN  IF asked THEN \E m \in here : here = {m} /\ Expected(d, m) ELSE here = {}

\* A volume that a mount point lies in has this container among its references.
\* (Not if another container has replaced a directory in it, and not after a
\* failed upgrade, which detaches the volumes.)
MountedIsAttached ==
    Ready /\ NoneOf({"fromReplaced"}) =>
    \A m \in mounts : m.source.root = Host \/ m.source.root \in attached

\* A container that is gone, or whose creation failed, is no reference of any
\* volume.  (A replacement does not name its volume; a mode of --volumes-from is
\* parsed after the volume is attached.)
NoReferenceLeft ==
    /\ phase = "removed" \/ (phase = "failed" /\ had = {})
    /\ NoneOf({"replace", "badMode", "storageFails"})
    => attached = {}

\* A mount point that copies has the files the image has there, if nothing else
\* lies in its directory, or only the image's own files of mount points around
\* it: however the destinations are nested, sorting them leaves none empty.
Alone(m) ==
    /\ ~\E d \in old : Inside(d, m.source)
    /\ \A n \in mounts \ {m} :
          \/ n.source.root # m.source.root
          \/ n.replace /\ m.replace
VolumeIsPopulated ==
    Ready => \A m \in mounts :
        m.copy /\ Alone(m) /\ m.dest \in want.content =>
            m.source \in DOMAIN files /\ files[m.source] = m.dest

\* A path of the host gets no files of the image.  (Except through another
\* container, from which it is inherited like a volume.)
HostIsKept == NoneOf({"fromHost"}) => \A d \in DOMAIN files : d.root # Host

\* The mount points of a container are those it asks for, with references to
\* their volumes while it exists and with the files of its image.
MountsAreSound ==
    MountTypeOK /\ OneMountEach /\ MountedIsAttached /\ NoReferenceLeft /\ VolumeIsPopulated /\ HostIsKept
=============================================================================
