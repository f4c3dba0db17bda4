----------------------------- MODULE DurableMap -----------------------------
(***************************************************************************)
(* What a collection of NovaDB promises (NovaDB.md): a map that a write    *)
(* changes at once or not at all, for all of its keys, and that nothing    *)
(* else changes - no flush, no compaction, no crash and no recovery.  A    *)
(* crash may let a write that was not answered yet take effect or drop it. *)
(***************************************************************************)
EXTENDS Naturals, TLC

CONSTANTS Key, Value

VARIABLES
    store,   \* store[k]: the value of k, 0 when it has none
    offered  \* the write under way: a value for some of the keys

Nothing == [k \in {} |-> 0]

Init == store = [k \in Key |-> 0] /\ offered = Nothing

Begin == /\ offered = Nothing
         /\ \E S \in SUBSET Key : offered' \in [S -> Value \cup {0}]
         /\ UNCHANGED store

Apply == /\ store' = offered @@ store
         /\ offered' = Nothing

Drop == offered' = Nothing /\ UNCHANGED store

Spec == Init /\ [][Begin \/ Apply \/ Drop]_<<store, offered>>
=============================================================================
