----------------------------- MODULE DurableMap -----------------------------
(***************************************************************************)
(* What a metadata store promises: a map from keys to values, of which the *)
(* changes are atomic, and that a crash of the daemon does not change.     *)
(***************************************************************************)
CONSTANTS Keys, Values, NoValue

VARIABLES
    val,    \* per key its value, or NoValue
    reply   \* what the last Get has answered

Init == val = [k \in Keys |-> NoValue] /\ reply = NoValue

Put(k, v) == val' = [val EXCEPT ![k] = v] /\ UNCHANGED reply

Remove(k) == val' = [val EXCEPT ![k] = NoValue] /\ UNCHANGED reply

Get(k) == reply' = val[k] /\ UNCHANGED val

Next == \E k \in Keys : Remove(k) \/ Get(k) \/ \E v \in Values : Put(k, v)

Spec == Init /\ [][Next]_<<val, reply>>
=============================================================================
