------------------------------- MODULE KVMap -------------------------------
(***************************************************************************)
(* What the storage engine promises to a caller: an ordered map from keys  *)
(* to values that answers one call at a time.  A call takes effect at the  *)
(* moment it returns.  This is the contract the README and the unit tests  *)
(* describe for btree_put, btree_get and btree_delete when no I/O fails;   *)
(* module BTree is shown to implement it.                                  *)
(***************************************************************************)
CONSTANTS
    Keys,       \* the keys
    Vals,       \* the values
    NoVal,      \* the absence of a value
    Ops         \* the calls the client makes, records [op, key, val]

VARIABLES
    kv,         \* the map: key -> value or NoVal
    call,       \* the call being served, or NoCall
    ret         \* the answer to the last call, or NoRet while one is served

vars == <<kv, call, ret>>

NoCall == [op |-> "none"]
NoRet == [status |-> "none", val |-> NoVal]

OK(v) == [status |-> "BTREE_OK", val |-> v]
NOT_FOUND == [status |-> "BTREE_NOT_FOUND", val |-> NoVal]

\* The map after call c has been served on map m.
Apply(m, c) ==
    CASE c.op = "put"    -> [m EXCEPT ![c.key] = c.val]
      [] c.op = "delete" -> [m EXCEPT ![c.key] = NoVal]
      [] c.op = "get"    -> m

\* The answer to call c served on map m.
Answer(m, c) ==
    IF c.op = "put" THEN OK(NoVal)
    ELSE IF m[c.key] = NoVal THEN NOT_FOUND
    ELSE OK(IF c.op = "get" THEN m[c.key] ELSE NoVal)

Init ==
    /\ kv = [k \in Keys |-> NoVal]
    /\ call = NoCall
    /\ ret = NoRet

Invoke(c) ==
    /\ call = NoCall
    /\ call' = c
    /\ ret' = NoRet
    /\ UNCHANGED kv

Respond ==
    /\ call # NoCall
    /\ ret' = Answer(kv, call)
    /\ kv' = Apply(kv, call)
    /\ call' = NoCall

Next == (\E c \in Ops : Invoke(c)) \/ Respond

Spec == Init /\ [][Next]_vars
=============================================================================
