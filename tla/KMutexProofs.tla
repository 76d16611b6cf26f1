---------------------------- MODULE KMutexProofs ----------------------------
(***************************************************************************)
(* Proofs about KMutex, for every finite set of goroutines.               *)
(***************************************************************************)
EXTENDS KMutex, FiniteSetTheorems, TLAPS

\* The goroutines that refer to value v.
Refs(v) == {p \in Procs : ref[p] = v}

\* They are finitely many, and v.waits = 0 means that there are none.
LEMMA RefsFinite ==
    ASSUME NEW v
    PROVE  /\ IsFiniteSet(Refs(v)) /\ Cardinality(Refs(v)) \in Nat
           /\ Cardinality(Refs(v)) = 0 => Refs(v) = {}
<1>1. Refs(v) \subseteq Procs
  BY Zenon DEF Refs
<1>2. IsFiniteSet(Refs(v))
  BY <1>1, ProcsAssumption, FS_Subset, Zenon
<1> QED
  BY <1>2, FS_CardinalityType, FS_EmptySet, Zenon

\* A goroutine that starts to wait on v raises the count of v by one.
LEMMA RefsGrow ==
    ASSUME ref \in [Procs -> Values \cup {None}], NEW p \in Procs, NEW v \in Values,
           ref[p] = None, ref' = [ref EXCEPT ![p] = v], NEW w \in Values
    PROVE  Cardinality(Refs(w)') = IF w = v THEN Cardinality(Refs(w)) + 1
                                            ELSE Cardinality(Refs(w))
<1>1. CASE w = v
  <2>1. Refs(w)' = Refs(w) \cup {p} /\ p \notin Refs(w)
    BY <1>1, ProcsAssumption, Zenon DEF Refs
  <2> QED
    BY <1>1, <2>1, RefsFinite, FS_AddElement
<1>2. CASE w # v
  <2>1. Refs(w)' = Refs(w)
    BY <1>2, ProcsAssumption, Zenon DEF Refs
  <2> QED
    BY <1>2, <2>1, Zenon
<1> QED
  BY <1>1, <1>2, Zenon

\* One that leaves v lowers it by one.
LEMMA RefsShrink ==
    ASSUME ref \in [Procs -> Values \cup {None}], NEW p \in Procs, NEW v \in Values,
           ref[p] = v, ref' = [ref EXCEPT ![p] = None], NEW w \in Values
    PROVE  Cardinality(Refs(w)') = IF w = v THEN Cardinality(Refs(w)) - 1
                                            ELSE Cardinality(Refs(w))
<1>1. CASE w = v
  <2>1. Refs(w)' = Refs(w) \ {p} /\ p \in Refs(w)
    BY <1>1, ProcsAssumption, Zenon DEF Refs
  <2>2. IsFiniteSet(Refs(w))
    BY RefsFinite, Zenon
  <2>3. Cardinality(Refs(w) \ {p}) = Cardinality(Refs(w)) - 1
    BY <2>1, <2>2, FS_RemoveElement, Zenon
  <2> QED
    BY <1>1, <2>1, <2>3, Zenon
<1>2. CASE w # v
  <2>1. Refs(w)' = Refs(w)
    BY <1>2, ProcsAssumption, Zenon DEF Refs
  <2> QED
    BY <1>2, <2>1, Zenon
<1> QED
  BY <1>1, <1>2, Zenon

\* A goroutine that leaves was counted, so the count does not become negative.
LEMMA LeaveCounted ==
    ASSUME TypeOK, CountInv, NEW p \in Procs, Leave(p)
    PROVE  ref[p] \in Values /\ ref[p] = cur /\ waits[ref[p]] - 1 \in Nat
<1>1. ref[p] \in Values /\ ref[p] = cur
  BY Zenon DEF TypeOK, CountInv, Leave
<1>2. p \in Refs(ref[p])
  BY Zenon DEF Refs
<1>3. Cardinality(Refs(ref[p])) # 0
  BY <1>2, RefsFinite, Zenon
<1> QED
  BY <1>1, <1>3 DEF TypeOK, CountInv, Refs

\* The types and the count are kept by every step, ticks included.
LEMMA CountStep == TypeOK /\ CountInv /\ [Next]_vars => TypeOK' /\ CountInv'
<1> SUFFICES ASSUME TypeOK, CountInv, [Next]_vars
             PROVE  TypeOK' /\ CountInv'
    BY Zenon
<1>0. \A v \in Values : waits[v] = Cardinality(Refs(v))
  BY Zenon DEF CountInv, Refs
<1>a. (\A v \in Values : waits'[v] = Cardinality(Refs(v)')) =>
        \A v \in Values : waits'[v] = Cardinality({p \in Procs : ref'[p] = v})
  BY Zenon DEF Refs
<1>b. ref' = ref => \A v \in Values : Refs(v)' = Refs(v)
  BY Zenon DEF Refs
<1> USE ProcsAssumption
<1>1. ASSUME NEW p \in Procs, LockNew(p)
      PROVE  TypeOK' /\ CountInv'
  <2> PICK v \in Values : /\ Fresh(v) /\ cur' = v
                          /\ token' = [token EXCEPT ![v] = FALSE]
                          /\ waits' = [waits EXCEPT ![v] = 0]
                          /\ closed' = [closed EXCEPT ![v] = FALSE]
    BY <1>1, Zenon DEF LockNew
  <2>1. Cardinality(Refs(v)) = 0
    <3>1. Refs(v) = {}
      BY Zenon DEF Refs, Fresh
    <3> QED
      BY <3>1, FS_EmptySet, Zenon
  <2>2. \A w \in Values : waits'[w] = Cardinality(Refs(w)')
    BY <1>0, <1>b, <1>1, <2>1 DEF LockNew, TypeOK
  <2>3. \A q \in Procs : ref[q] = None
    BY <1>1, Zenon DEF LockNew, CountInv
  <2> QED
    BY <1>1, <1>a, <2>2, <2>3 DEF TypeOK, CountInv, LockNew
<1>2. ASSUME NEW p \in Procs, LockWait(p)
      PROVE  TypeOK' /\ CountInv'
  <2>1. cur \in Values /\ ref[p] = None
    BY <1>2, Zenon DEF LockWait, TypeOK, CountInv
  <2>2. \A w \in Values : waits'[w] = Cardinality(Refs(w)')
    <3> TAKE w \in Values
    <3> PICK v \in Values : v = cur
      BY <2>1, Zenon
    <3>1. ref[p] = None /\ ref' = [ref EXCEPT ![p] = v]
      BY <1>2, <2>1, Zenon DEF LockWait
    <3>2. Cardinality(Refs(w)') = IF w = v THEN Cardinality(Refs(w)) + 1
                                           ELSE Cardinality(Refs(w))
      BY <3>1, RefsGrow, Zenon DEF TypeOK
    <3>3. waits'[w] = IF w = v THEN waits[w] + 1 ELSE waits[w]
      BY <1>2, <2>1, Zenon DEF LockWait, TypeOK
    <3> QED
      BY <1>0, <3>2, <3>3, Zenon
  <2> QED
    BY <1>2, <1>a, <2>1, <2>2 DEF TypeOK, CountInv, LockWait
<1>3. ASSUME NEW p \in Procs, Leave(p)
      PROVE  TypeOK' /\ CountInv'
  <2>1. ref[p] \in Values /\ ref[p] = cur /\ waits[ref[p]] - 1 \in Nat
    BY <1>3, LeaveCounted, Zenon
  <2>2. \A w \in Values : waits'[w] = Cardinality(Refs(w)')
    <3> TAKE w \in Values
    <3> PICK v \in Values : v = ref[p]
      BY <2>1, Zenon
    <3>1. ref[p] = v /\ ref' = [ref EXCEPT ![p] = None]
      BY <1>3, <2>1, Zenon DEF Leave
    <3>2. Cardinality(Refs(w)') = IF w = v THEN Cardinality(Refs(w)) - 1
                                           ELSE Cardinality(Refs(w))
      BY <3>1, RefsShrink, Zenon DEF TypeOK
    <3>3. waits'[w] = IF w = v THEN waits[w] - 1 ELSE waits[w]
      BY <1>3, <2>1, Zenon DEF Leave, TypeOK
    <3> QED
      BY <1>0, <3>2, <3>3, Zenon
  <2> QED
    BY <1>3, <1>a, <2>1, <2>2 DEF TypeOK, CountInv, Leave
<1>4. ASSUME NEW p \in Procs,
             Trylock(p) \/ Receive(p) \/ Timeout(p) \/ Unlock(p)
      PROVE  TypeOK' /\ CountInv'
  <2>1. TypeOK'
    BY <1>4, ZenonT(60) DEF TypeOK, CountInv, Trylock, Receive, Timeout, Unlock
  <2>2. /\ UNCHANGED <<cur, waits, closed, ref>>
        /\ \A q \in Procs : pc'[q] \in {"waiting", "timedout", "got"} <=>
                               pc[q] \in {"waiting", "timedout", "got"}
    BY <1>4 DEF TypeOK, Trylock, Receive, Timeout, Unlock
  <2> QED
    BY <2>1, <2>2, Zenon DEF CountInv
<1>5. CASE Tick
  <2>1. Refs(cur) = {}
    BY <1>0, <1>5, RefsFinite, Zenon DEF Tick, TypeOK
  <2>2. \A p \in Procs : ref[p] = None
    BY <2>1, Zenon DEF CountInv, Refs
  <2> QED
    BY <1>5, <2>2 DEF TypeOK, CountInv, Tick
<1>6. CASE UNCHANGED vars
  BY <1>6 DEF vars, TypeOK, CountInv
<1> QED
  BY <1>1, <1>2, <1>3, <1>4, <1>5, <1>6, Zenon DEF Next

\* The types and the count hold from the start.
LEMMA CountAlways == Spec => [](TypeOK /\ CountInv)
<1>1. Init => TypeOK /\ CountInv
  <2> SUFFICES ASSUME Init PROVE TypeOK /\ CountInv
    BY Zenon
  <2>1. \A v \in Values : {p \in Procs : ref[p] = v} = {}
    BY ProcsAssumption, Zenon DEF Init
  <2>2. \A v \in Values : waits[v] = Cardinality({p \in Procs : ref[p] = v})
    BY <2>1, FS_EmptySet, Zenon DEF Init
  <2> QED
    BY <2>2, ProcsAssumption, Zenon DEF Init, TypeOK, CountInv
<1> QED
  BY <1>1, CountStep, PTL DEF Spec

\* WaitersAreCurrent: the ticker never takes the value, or its channel, from
\* under a goroutine that waits in Lock or LockWithTimeout.
THEOREM WaitersStayCurrent == Spec => []WaitersAreCurrent
<1>1. CountInv => WaitersAreCurrent
  BY Zenon DEF CountInv, WaitersAreCurrent
<1> QED
  BY <1>1, CountAlways, PTL

-----------------------------------------------------------------------------
\* The time each leaf of the proofs may take.
USE SMTT(60)

\* Every step keeps the token or an owner: Unlock gives the token to the value
\* the key has by then, and only an owner takes it.
LEMMA TokenStep ==
    TypeOK /\ CountInv /\ TokenOrOwner /\ [Next]_vars => TokenOrOwner'
<1> SUFFICES ASSUME TypeOK, CountInv, TokenOrOwner, [Next]_vars
             PROVE  TokenOrOwner'
    BY Zenon
<1> USE ProcsAssumption DEF TypeOK, TokenOrOwner, Owns
<1>1. ASSUME NEW p \in Procs, LockNew(p) \/ Trylock(p) \/ Receive(p)
      PROVE  TokenOrOwner'
  BY <1>1 DEF LockNew, Trylock, Receive
<1>2. ASSUME NEW p \in Procs, LockWait(p) \/ Timeout(p) \/ Leave(p)
      PROVE  TokenOrOwner'
  BY <1>2 DEF LockWait, Timeout, Leave
<1>3. ASSUME NEW p \in Procs, Unlock(p)
      PROVE  TokenOrOwner'
  BY <1>3, Zenon DEF Unlock
<1>4. CASE Tick
  BY <1>4, Zenon DEF Tick
<1>5. CASE UNCHANGED vars
  BY <1>5, Zenon DEF vars
<1> QED
  BY <1>1, <1>2, <1>3, <1>4, <1>5, Zenon DEF Next

\* TokenOrOwner: no wake-up is lost, whenever the ticker deletes the value.
THEOREM NoLostWakeup == Spec => []TokenOrOwner
<1>1. Init => TokenOrOwner
  BY Zenon DEF Init, TokenOrOwner
<1> QED
  BY <1>1, CountAlways, TokenStep, PTL DEF Spec

-----------------------------------------------------------------------------

\* Without a tick while the lock is held, a step keeps token and owner apart.
LEMMA OwnerStep == TypeOK /\ CountInv /\ OwnerInv /\ [Next]_vars => OwnerInv'
<1> SUFFICES ASSUME TypeOK, CountInv, OwnerInv, [Next]_vars, ~late'
             PROVE  OwnerInv'
    BY Zenon DEF OwnerInv
<1>0. ~late
  BY Zenon DEF Next, vars, LockNew, Trylock, LockWait, Receive, Timeout, Leave, Unlock, Tick
<1> USE ProcsAssumption DEF TypeOK, OwnerInv, OneOwner, Owns
<1>1. ASSUME NEW p \in Procs, LockNew(p)
      PROVE  OwnerInv'
  BY <1>0, <1>1 DEF LockNew
<1>2. ASSUME NEW p \in Procs, Trylock(p)
      PROVE  OwnerInv'
  BY <1>0, <1>2 DEF Trylock
<1>3. ASSUME NEW p \in Procs, Receive(p)
      PROVE  OwnerInv'
  <2>1. ref[p] = cur /\ cur \in Values /\ token[cur]
    BY <1>0, <1>3, Zenon DEF Receive, CountInv
  <2> QED
    BY <1>0, <1>3, <2>1 DEF Receive
<1>4. ASSUME NEW p \in Procs, LockWait(p) \/ Timeout(p) \/ Leave(p)
      PROVE  OwnerInv'
  BY <1>0, <1>4 DEF LockWait, Timeout, Leave
<1>5. ASSUME NEW p \in Procs, Unlock(p)
      PROVE  OwnerInv'
  BY <1>0, <1>5, Zenon DEF Unlock
<1>6. CASE Tick
  BY <1>0, <1>6, Zenon DEF Tick
<1>7. CASE UNCHANGED vars
  BY <1>0, <1>7, Zenon DEF vars
<1> QED
  BY <1>1, <1>2, <1>3, <1>4, <1>5, <1>6, <1>7, Zenon DEF Next

\* All three invariants hold throughout.
LEMMA OwnerAlways == Spec => [](TypeOK /\ CountInv /\ OwnerInv)
<1>1. Init => OwnerInv
  BY Zenon DEF Init, OwnerInv, OneOwner, Owns
<1>2. TypeOK /\ CountInv /\ OwnerInv /\ [Next]_vars => OwnerInv'
  BY OwnerStep, Zenon
<1> QED
  BY <1>1, <1>2, CountAlways, PTL DEF Spec

\* OneOwnerInTime: "One key can acquire only one lock", for any number of goroutines,
\* if no tick comes while the lock is held.
THEOREM MutualExclusion == Spec => []OneOwnerInTime
<1>1. OwnerInv => OneOwnerInTime
  BY Zenon DEF OwnerInv, OneOwnerInTime
<1> QED
  BY <1>1, OwnerAlways, PTL

-----------------------------------------------------------------------------

\* With one owner at most, Holder is that owner.
LEMMA HolderIsOwner ==
    ASSUME OneOwner
    PROVE  /\ \A p \in Procs : Owns(p) => Holder = p
           /\ (\A p \in Procs : ~Owns(p)) => Holder = None
  BY Zenon DEF OneOwner, Holder

\* Each step of KMutex is a step of the abstract lock or leaves its holder.
LEMMA RefinementStep ==
    ASSUME TypeOK, CountInv, OwnerInv, OwnerInv', ~late, [Next]_vars
    PROVE  [Keyed!Next]_Holder
<1>0. OneOwner /\ OneOwner'
  <2>1. ~late'
    BY Zenon DEF Next, vars, LockNew, Trylock, LockWait, Receive, Timeout, Leave, Unlock, Tick
  <2> QED
    BY <2>1, Zenon DEF OwnerInv
<1> USE ProcsAssumption DEF TypeOK, OwnerInv, Owns
<1>1. \A p \in Procs : Owns(p)' => Holder' = p
  BY <1>0, HolderIsOwner, Zenon DEF OneOwner, Holder
<1>2. (\A p \in Procs : ~Owns(p)') => Holder' = None
  BY Zenon DEF Holder
<1>3. /\ \A p \in Procs : Owns(p) => Holder = p
      /\ (\A p \in Procs : ~Owns(p)) => Holder = None
  BY <1>0, HolderIsOwner, Zenon
<1>4. ASSUME NEW p \in Procs, LockNew(p) \/ Trylock(p) \/ Receive(p)
      PROVE  Keyed!Acquire(p)
  <2>1. \A q \in Procs : ~Owns(q)
    BY <1>0, <1>4, Zenon DEF LockNew, Trylock, Receive, CountInv
  <2>2. Owns(p)'
    BY <1>4 DEF LockNew, Trylock, Receive
  <2> QED
    BY <1>1, <1>3, <2>1, <2>2, Zenon DEF Keyed!Acquire
<1>5. ASSUME NEW p \in Procs, Unlock(p)
      PROVE  Keyed!Release(p)
  <2>1. \A q \in Procs : ~Owns(q)'
    BY <1>0, <1>5, Zenon DEF Unlock, OneOwner
  <2> QED
    BY <1>2, <1>3, <1>5, <2>1, Zenon DEF Keyed!Release, Unlock
<1>6. ASSUME \/ Tick \/ UNCHANGED vars
             \/ \E p \in Procs : LockWait(p) \/ Timeout(p) \/ Leave(p)
      PROVE  UNCHANGED Holder
  <2>1. \A q \in Procs : Owns(q)' <=> Owns(q)
    BY <1>6 DEF Tick, vars, LockWait, Timeout, Leave
  <2> QED
    BY <1>1, <1>2, <1>3, <2>1, Zenon
<1> QED
  BY <1>4, <1>5, <1>6, Zenon DEF Next, Keyed!Next

\* ImplementsKeyedMutex: seen through its owner, KMutex is the abstract lock, if
\* no tick comes while the lock is held.
THEOREM Refinement == Spec => ImplementsKeyedMutex
<1>1. Init => Keyed!Init
  BY Zenon DEF Init, Keyed!Init, Holder, Owns
<1>2. TypeOK /\ CountInv /\ OwnerInv /\ OwnerInv' /\ [Next]_vars
         => [~late => Keyed!Next]_Holder
  BY RefinementStep, Zenon
<1> QED
  BY <1>1, <1>2, OwnerAlways, PTL DEF Spec, ImplementsKeyedMutex
=============================================================================
