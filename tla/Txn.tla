-------------------------------- MODULE Txn --------------------------------
(***************************************************************************)
(* txn.c: transactions of several threads on one tree, guarded by the      *)
(* tree's read-write lock.  Each thread runs one transaction, as the       *)
(* threads of the concurrency tests do: it begins, makes a few calls, and  *)
(* commits or aborts.                                                      *)
(*                                                                         *)
(* The tree is the map of its contents; a put or delete takes two steps,   *)
(* and what a get reads in between is anything (the page writes are in     *)
(* module BTree).  Nothing but the lock keeps a get from coming between.   *)
(* pthread_rwlock_t is external: any number of readers or one writer, and  *)
(* like the default of glibc it lets a reader pass a waiting writer.       *)
(***************************************************************************)
EXTENDS Integers, FiniteSets

CONSTANTS
    Txns,       \* the transactions, one per thread
    Keys, Vals, \* keys and values
    NoVal,      \* the absence of a value
    NoTxn,      \* nobody
    NoMap,      \* no map (for the abstract specification)
    MaxOps      \* bound: calls per transaction

ASSUME NoValAssumption == NoVal \notin Vals
ASSUME NoTxnAssumption == NoTxn \notin Txns
ASSUME MaxOpsAssumption == MaxOps \in Nat
ASSUME NoMapAssumption == NoMap \notin [Keys -> Vals \cup {NoVal}]

VARIABLES
    rwlock,     \* tree->rwlock: [readers, writer]
    kv,         \* the contents of the tree
    op,         \* the put or delete that has begun and not ended, or NoOp
    phase,      \* txn -> how far the thread is
    type,       \* txn -> txn->type
    ans,        \* txn -> the answer to the last call
    ops,        \* txn -> calls so far
    base        \* history: the contents when the last writer got the lock

vars == <<rwlock, kv, op, phase, type, ans, ops, base>>

TXN_READ_ONLY == "TXN_READ_ONLY"
TXN_READ_WRITE == "TXN_READ_WRITE"
Values == Vals \cup {NoVal}
NoOp == [txn |-> NoTxn]

txn_active(t) == phase[t] = "active"

Init ==
    /\ rwlock = [readers |-> {}, writer |-> NoTxn]
    /\ kv = [k \in Keys |-> NoVal] /\ base = kv
    /\ op = NoOp
    /\ phase = [t \in Txns |-> "new"]
    /\ type \in [Txns -> {TXN_READ_ONLY, TXN_READ_WRITE}]
    /\ ans = [t \in Txns |-> "none"]
    /\ ops = [t \in Txns |-> 0]

-----------------------------------------------------------------------------
(***************************************************************************)
(* The lock.                                                               *)
(***************************************************************************)

\* Mutant of btree_lock_read: a reader does not wait.
btree_lock_read_NoWait(t) ==
    rwlock' = [rwlock EXCEPT !.readers = @ \cup {t}]

btree_lock_read(t) ==
    /\ rwlock.writer = NoTxn
    /\ rwlock' = [rwlock EXCEPT !.readers = @ \cup {t}]

btree_lock_write(t) ==
    /\ rwlock.writer = NoTxn /\ rwlock.readers = {}
    /\ rwlock' = [rwlock EXCEPT !.writer = t]

\* Mutant of btree_unlock: only the lock of a reader is given back.
btree_unlock_Reader(t) ==
    rwlock' = [rwlock EXCEPT !.readers = @ \ {t}]

btree_unlock(t) ==
    rwlock' = [readers |-> rwlock.readers \ {t},
               writer |-> IF rwlock.writer = t THEN NoTxn ELSE rwlock.writer]

-----------------------------------------------------------------------------
(***************************************************************************)
(* Beginning and ending.                                                   *)
(***************************************************************************)

\* txn_begin up to the lock.  Without memory it returns NULL, and the thread ends.
txn_begin(t) ==
    /\ phase[t] = "new"
    /\ \E p \in {"waiting", "done"} : phase' = [phase EXCEPT ![t] = p]
    /\ UNCHANGED <<rwlock, kv, op, type, ans, ops, base>>

Locked(t) ==
    /\ phase[t] = "waiting"
    /\ \/ type[t] = TXN_READ_ONLY /\ btree_lock_read(t) /\ UNCHANGED base
       \/ type[t] = TXN_READ_WRITE /\ btree_lock_write(t) /\ base' = kv
    /\ phase' = [phase EXCEPT ![t] = "active"]
    /\ UNCHANGED <<kv, op, type, ans, ops>>

\* txn_commit and txn_abort do the same: nothing is rolled back.
txn_commit(t) ==
    /\ txn_active(t) /\ op.txn # t
    /\ phase' = [phase EXCEPT ![t] = "done"]
    /\ btree_unlock(t)
    /\ UNCHANGED <<kv, op, type, ans, ops, base>>

-----------------------------------------------------------------------------
(***************************************************************************)
(* The calls of an active transaction; a thread makes one at a time.       *)
(***************************************************************************)
Calls(t) ==
    /\ txn_active(t) /\ op.txn # t /\ ops[t] < MaxOps
    /\ ops' = [ops EXCEPT ![t] = @ + 1]

\* Also what a cursor of the transaction (txn_cursor_create) reads at key k.
txn_get(t, k) ==
    /\ Calls(t)
    /\ \E v \in IF op = NoOp THEN {kv[k]} ELSE Values :
         ans' = [ans EXCEPT ![t] = IF v = NoVal THEN "BTREE_NOT_FOUND" ELSE v]
    /\ UNCHANGED <<rwlock, kv, op, phase, type, base>>

MayWrite(t) == type[t] = TXN_READ_WRITE

\* txn_put, and with v = NoVal txn_delete, until the tree is being changed.
txn_put(t, k, v) ==
    /\ Calls(t) /\ MayWrite(t)
    /\ op = NoOp
    /\ op' = [txn |-> t, key |-> k, val |-> v]
    /\ UNCHANGED <<rwlock, kv, phase, type, ans, base>>

PutEnds(t) ==
    /\ op.txn = t
    /\ kv' = [kv EXCEPT ![op.key] = op.val]
    /\ ans' = [ans EXCEPT ![t] = IF op.val = NoVal /\ kv[op.key] = NoVal
                                 THEN "BTREE_NOT_FOUND" ELSE "BTREE_OK"]
    /\ op' = NoOp
    /\ UNCHANGED <<rwlock, phase, type, ops, base>>

\* A put or delete in a read-only transaction.
PutRejected(t) ==
    /\ Calls(t) /\ ~MayWrite(t)
    /\ ans' = [ans EXCEPT ![t] = "BTREE_CORRUPTED"]
    /\ UNCHANGED <<rwlock, kv, op, phase, type, base>>

Ends(t) == PutEnds(t) \/ txn_commit(t)

Next ==
    \E t \in Txns :
        \/ txn_begin(t) \/ Locked(t) \/ Ends(t) \/ PutRejected(t)
        \/ \E k \in Keys : txn_get(t, k) \/ \E v \in Values : txn_put(t, k, v)

\* The scheduler runs every thread, a thread ends its calls and its transaction, and a
\* lock that stays free is got at last.  As there are finitely many transactions, readers
\* cannot keep a writer out for ever.
Fairness ==
    \A t \in Txns : WF_vars(txn_begin(t)) /\ WF_vars(Locked(t)) /\ WF_vars(Ends(t))

Spec == Init /\ [][Next]_vars /\ Fairness

-----------------------------------------------------------------------------
(***************************************************************************)
(* Properties.                                                             *)
(***************************************************************************)

\* Type correctness; the lock is held by exactly the active transactions.
TypeOK ==
    /\ rwlock \in [readers : SUBSET Txns, writer : Txns \cup {NoTxn}]
    /\ rwlock.readers = {t \in Txns : txn_active(t) /\ type[t] = TXN_READ_ONLY}
    /\ \A t \in Txns : rwlock.writer = t <=> (txn_active(t) /\ type[t] = TXN_READ_WRITE)
    /\ kv \in [Keys -> Values] /\ base \in [Keys -> Values]
    /\ op \in [txn : Txns, key : Keys, val : Values] \cup {NoOp}
    /\ phase \in [Txns -> {"new", "waiting", "active", "done"}]
    /\ type \in [Txns -> {TXN_READ_ONLY, TXN_READ_WRITE}]
    /\ ops \in [Txns -> 0..MaxOps]

\* Transactions are isolated: whatever the threads interleave, each works on the map as it
\* was when it got the lock, and the changes of a writer appear at once when it ends.
Serial ==
    INSTANCE SerialTxn WITH
        kv <- IF rwlock.writer = NoTxn THEN kv ELSE base,
        work <- [t \in Txns |-> IF txn_active(t) THEN kv ELSE NoMap],
        rw <- [t \in Txns |-> type[t] = TXN_READ_WRITE]

ImplementsSerial == Serial!Spec

\* Every transaction ends: nobody waits for the lock for ever.
EveryTxnEnds == \A t \in Txns : <>(phase[t] = "done")
=============================================================================
