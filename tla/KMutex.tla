------------------------------- MODULE KMutex -------------------------------
(***************************************************************************)
(* pkg/kmutex: a lock per key, for one key (the keys share nothing but the *)
(* mutex of the map, which is never held while a goroutine blocks).  Every *)
(* section under that mutex is one step.                                   *)
(*                                                                         *)
(* The key's value holds a channel of capacity one: a token in it means    *)
(* that the lock is free.  The value is made by the first goroutine that   *)
(* locks the key, and a ticker deletes it when nobody waits on it.         *)
(***************************************************************************)
EXTENDS Integers, FiniteSets

CONSTANTS
    Procs,        \* goroutines that lock the key
    Values,       \* value structs; one nobody refers to is garbage, and reused
    None,
    GcWhileHeld   \* the choices for whether a tick may come while the lock is held

ASSUME ProcsAssumption ==
    /\ IsFiniteSet(Procs)
    /\ None \notin Procs /\ None \notin Values
    /\ GcWhileHeld \subseteq BOOLEAN

VARIABLES
    cur,     \* m.keys[k]
    token,   \* per value: whether v.c holds a token
    waits,   \* per value: v.waits
    closed,  \* per value: whether v.c is closed
    ref,     \* per goroutine: the value it waits on
    pc,
    late     \* whether a tick may come while the lock is held, in this behaviour

vars == <<cur, token, waits, closed, ref, pc, late>>

\* A goroutine owns the lock from the moment it took the token, even while its
\* deferred decrement of waits is to come.
Owns(p) == pc[p] \in {"got", "held"}

Fresh(v) == v # cur /\ \A p \in Procs : ref[p] # v

MutantLockLeavesToken(p) ==
    /\ pc[p] = "idle" /\ cur = None
    /\ \E v \in Values :
          /\ Fresh(v)
          /\ cur' = v
          /\ token' = [token EXCEPT ![v] = TRUE]
          /\ waits' = [waits EXCEPT ![v] = 0]
          /\ closed' = [closed EXCEPT ![v] = FALSE]
    /\ pc' = [pc EXCEPT ![p] = "held"]
    /\ UNCHANGED <<ref, late>>

\* lock: the key has no value yet; whoever makes it has the lock.
LockNew(p) ==
    /\ pc[p] = "idle" /\ cur = None
    /\ \E v \in Values :
          /\ Fresh(v)
          /\ cur' = v
          /\ token' = [token EXCEPT ![v] = FALSE]
          /\ waits' = [waits EXCEPT ![v] = 0]
          /\ closed' = [closed EXCEPT ![v] = FALSE]
    /\ pc' = [pc EXCEPT ![p] = "held"]
    /\ UNCHANGED <<ref, late>>

\* Trylock takes the token if there is one and returns at once otherwise.
Trylock(p) ==
    /\ pc[p] = "idle" /\ cur # None /\ token[cur]
    /\ token' = [token EXCEPT ![cur] = FALSE]
    /\ pc' = [pc EXCEPT ![p] = "held"]
    /\ UNCHANGED <<cur, waits, closed, ref, late>>

\* Lock and LockWithTimeout count themselves in before they let go of the map.
LockWait(p) ==
    /\ pc[p] = "idle" /\ cur # None
    /\ ref' = [ref EXCEPT ![p] = cur]
    /\ waits' = [waits EXCEPT ![cur] = @ + 1]
    /\ pc' = [pc EXCEPT ![p] = "waiting"]
    /\ UNCHANGED <<cur, token, closed, late>>

\* <-v.c: the token, or the zero value of a closed channel.
Receive(p) ==
    /\ pc[p] = "waiting" /\ (token[ref[p]] \/ closed[ref[p]])
    /\ token' = [token EXCEPT ![ref[p]] = FALSE]
    /\ pc' = [pc EXCEPT ![p] = "got"]
    /\ UNCHANGED <<cur, waits, closed, ref, late>>

\* LockWithTimeout: time.After(to)
Timeout(p) ==
    /\ pc[p] = "waiting"
    /\ pc' = [pc EXCEPT ![p] = "timedout"]
    /\ UNCHANGED <<cur, token, waits, closed, ref, late>>

\* The deferred decrement, on both ways out.
Leave(p) ==
    /\ pc[p] \in {"got", "timedout"}
    /\ waits' = [waits EXCEPT ![ref[p]] = @ - 1]
    /\ ref' = [ref EXCEPT ![p] = None]
    /\ pc' = [pc EXCEPT ![p] = IF @ = "got" THEN "held" ELSE "idle"]
    /\ UNCHANGED <<cur, token, closed, late>>

MutantUnlockNoToken(p) ==
    /\ pc[p] = "held"
    /\ pc' = [pc EXCEPT ![p] = "idle"]
    /\ UNCHANGED <<cur, token, waits, closed, ref, late>>

\* Unlock puts the token back into whatever value the key has by now.
Unlock(p) ==
    /\ pc[p] = "held"
    /\ token' = IF cur = None THEN token ELSE [token EXCEPT ![cur] = TRUE]
    /\ pc' = [pc EXCEPT ![p] = "idle"]
    /\ UNCHANGED <<cur, waits, closed, ref, late>>

\* The ticker: a value nobody waits on is deleted and its channel closed.
Tick ==
    /\ cur # None /\ waits[cur] = 0
    /\ late \/ ~ \E p \in Procs : Owns(p)
    /\ cur' = None
    /\ closed' = [closed EXCEPT ![cur] = TRUE]
    /\ UNCHANGED <<token, waits, ref, pc, late>>

Init ==
    /\ late \in GcWhileHeld
    /\ cur = None
    /\ token = [v \in Values |-> FALSE]
    /\ waits = [v \in Values |-> 0]
    /\ closed = [v \in Values |-> FALSE]
    /\ ref = [p \in Procs |-> None]
    /\ pc = [p \in Procs |-> "idle"]

Next ==
    \/ \E p \in Procs : \/ LockNew(p) \/ Trylock(p) \/ LockWait(p)
                        \/ Receive(p) \/ Timeout(p) \/ Leave(p) \/ Unlock(p)
    \/ Tick

Spec == Init /\ [][Next]_vars

\* A holder unlocks in the end, and a goroutine that waits long enough is the
\* one that receives.
Fairness ==
    \A p \in Procs : /\ WF_vars(Leave(p)) /\ WF_vars(Unlock(p))
                     /\ SF_vars(Receive(p))

FairSpec == Spec /\ Fairness

-----------------------------------------------------------------------------
(* Properties *)

\* Every variable has its type.
TypeOK ==
    /\ late \in BOOLEAN
    /\ cur \in Values \cup {None}
    /\ token \in [Values -> BOOLEAN] /\ closed \in [Values -> BOOLEAN]
    /\ waits \in [Values -> Nat]
    /\ ref \in [Procs -> Values \cup {None}]
    /\ pc \in [Procs -> {"idle", "waiting", "timedout", "got", "held"}]

\* "One key can acquire only one lock": no two goroutines own the key.
OneOwner == \A p, q \in Procs : Owns(p) /\ Owns(q) => p = q

\* The same, as far as KMutex keeps it: no tick comes while the lock is held.
OneOwnerInTime == ~late => OneOwner

\* While the key has a value without a token, some goroutine owns the lock and
\* will bring the token back: a wake-up is never lost, whatever the ticker does.
TokenOrOwner == cur # None => token[cur] \/ \E p \in Procs : Owns(p)

\* A goroutine only waits on the key's current value: the ticker never deletes
\* the value, or closes the channel, under a waiter.
WaitersAreCurrent == \A p \in Procs : pc[p] = "waiting" => ref[p] = cur

\* v.waits counts the goroutines that refer to the value: the inductive
\* strengthening of WaitersAreCurrent.
CountInv ==
    /\ \A v \in Values : waits[v] = Cardinality({p \in Procs : ref[p] = v})
    /\ \A p \in Procs : pc[p] \in {"waiting", "timedout", "got"} <=> ref[p] # None
    /\ \A p \in Procs : ref[p] # None => ref[p] = cur
    /\ cur # None => ~closed[cur]

\* The inductive strengthening of OneOwner, when no tick comes while the lock is
\* held: the token and the owner exclude each other.
OwnerInv ==
    ~late => /\ OneOwner
             /\ cur = None \/ token[cur] => \A p \in Procs : ~Owns(p)

\* A goroutine that waits either gets the lock or gives up, however the ticker
\* and the other goroutines interleave.
WaiterProceeds == \A p \in Procs : pc[p] = "waiting" ~> pc[p] # "waiting"

\* The lock of the key as its users see it.
Holder ==
    IF \E p \in Procs : Owns(p) THEN CHOOSE p \in Procs : Owns(p) ELSE None

Keyed == INSTANCE KeyedMutex WITH holder <- Holder

\* The promise KMutex keeps as long as no tick comes while the lock is held.
ImplementsKeyedMutex ==
    /\ ~late => Keyed!Init
    /\ [][~late => Keyed!Next]_Holder
=============================================================================
