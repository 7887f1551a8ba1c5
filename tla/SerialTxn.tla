----------------------------- MODULE SerialTxn -----------------------------
(***************************************************************************)
(* What transactions promise to their callers: a transaction works on the  *)
(* map as it is when the transaction begins, sees its own changes and      *)
(* nobody else's, and its changes become visible to others all at once,    *)
(* when it ends.  An aborted transaction keeps its changes (txn.h: there   *)
(* is no rollback).                                                        *)
(***************************************************************************)
CONSTANTS
    Txns,       \* the transactions
    Keys, Vals, NoVal,
    NoMap       \* the map of a transaction that is not under way

VARIABLES
    kv,         \* the map outside transactions
    work,       \* txn -> the map it works on, or NoMap
    rw,         \* txn -> may it write?
    ans         \* txn -> the answer to its last call

vars == <<kv, work, rw, ans>>

Init ==
    /\ kv = [k \in Keys |-> NoVal]
    /\ work = [t \in Txns |-> NoMap]
    /\ rw \in [Txns -> BOOLEAN]
    /\ ans = [t \in Txns |-> "none"]

Begin(t) ==
    /\ work[t] = NoMap
    /\ work' = [work EXCEPT ![t] = kv]
    /\ UNCHANGED <<kv, rw, ans>>

Read(t, k) ==
    /\ work[t] # NoMap
    /\ ans' = [ans EXCEPT ![t] = IF work[t][k] = NoVal THEN "BTREE_NOT_FOUND" ELSE work[t][k]]
    /\ UNCHANGED <<kv, work, rw>>

\* v = NoVal deletes the key.
Write(t, k, v) ==
    /\ work[t] # NoMap /\ rw[t]
    /\ work' = [work EXCEPT ![t][k] = v]
    /\ ans' = [ans EXCEPT ![t] = IF v = NoVal /\ work[t][k] = NoVal
                                 THEN "BTREE_NOT_FOUND" ELSE "BTREE_OK"]
    /\ UNCHANGED <<kv, rw>>

Reject(t) ==
    /\ work[t] # NoMap /\ ~rw[t]
    /\ ans' = [ans EXCEPT ![t] = "BTREE_CORRUPTED"]
    /\ UNCHANGED <<kv, work, rw>>

\* A writer ends only on the map it began with: no other writer came between.
End(t) ==
    /\ work[t] # NoMap
    /\ kv' = IF rw[t] THEN work[t] ELSE kv
    /\ work' = [work EXCEPT ![t] = NoMap]
    /\ rw[t] => \A u \in Txns \ {t} : work[u] # NoMap => ~rw[u]
    /\ UNCHANGED <<rw, ans>>

Next ==
    \E t \in Txns :
        \/ Begin(t) \/ Reject(t) \/ End(t)
        \/ \E k \in Keys : Read(t, k) \/ \E v \in Vals \cup {NoVal} : Write(t, k, v)

Spec == Init /\ [][Next]_vars
=============================================================================
