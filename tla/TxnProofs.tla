----------------------------- MODULE TxnProofs -----------------------------
(***************************************************************************)
(* Proofs about module Txn: for any set of threads, keys and values and    *)
(* any number of calls, the lock is held by exactly the active             *)
(* transactions, and transactions are isolated.                            *)
(***************************************************************************)
EXTENDS Txn, TLAPS

\* A writer is alone, and a put or delete that has begun belongs to it.
WriterIsAlone ==
    /\ rwlock.writer # NoTxn => rwlock.readers = {}
    /\ op # NoOp => op.txn \in Txns /\ rwlock.writer = op.txn

\* The inductive invariant.
IInv == TypeOK /\ WriterIsAlone

\* Whoever is active while somebody writes is the writer: no other transaction has the
\* tree while a put or delete is under way.
LEMMA AloneWithTheTree ==
    ASSUME IInv, NEW t \in Txns, txn_active(t), NEW u \in Txns, txn_active(u),
           rwlock.writer = u
    PROVE  t = u
<1>1. CASE type[t] = TXN_READ_ONLY
  <2>1. t \in rwlock.readers
    BY <1>1 DEF IInv, TypeOK
  <2>2. rwlock.writer # NoTxn
    BY NoTxnAssumption
  <2> QED
    BY <2>1, <2>2 DEF IInv, WriterIsAlone
<1>2. CASE type[t] = TXN_READ_WRITE
  BY <1>2 DEF IInv, TypeOK
<1> QED
  BY <1>1, <1>2 DEF IInv, TypeOK

\* In the first state nobody holds the lock.
LEMMA InitInv == Init => IInv
<1> SUFFICES ASSUME Init PROVE IInv
  OBVIOUS
<1>1. TypeOK
  BY NoTxnAssumption, MaxOpsAssumption
  DEF Init, TypeOK, txn_active, TXN_READ_ONLY, TXN_READ_WRITE, Values, NoOp
<1>2. WriterIsAlone
  BY DEF Init, WriterIsAlone
<1> QED
  BY <1>1, <1>2 DEF IInv

\* Every step keeps the invariant.
LEMMA StepInv == IInv /\ [Next]_vars => IInv'
<1> SUFFICES ASSUME IInv, [Next]_vars PROVE IInv'
  OBVIOUS
<1> USE DEF IInv
<1>1. ASSUME NEW t \in Txns, txn_begin(t) PROVE IInv'
  <2>1. \A u \in Txns : txn_active(u)' <=> txn_active(u)
    BY <1>1 DEF txn_begin, txn_active, TypeOK
  <2>2. phase' \in [Txns -> {"new", "waiting", "active", "done"}]
    BY <1>1 DEF txn_begin, TypeOK
  <2>3. TypeOK'
    BY <1>1, <2>1, <2>2 DEF txn_begin, TypeOK
  <2>4. WriterIsAlone'
    BY <1>1 DEF txn_begin, WriterIsAlone
  <2> QED
    BY <2>3, <2>4
<1>2. ASSUME NEW t \in Txns, Locked(t) PROVE IInv'
  <2>1. phase' = [phase EXCEPT ![t] = "active"] /\ ~txn_active(t)
    BY <1>2 DEF Locked, txn_active
  <2>2. \A u \in Txns : txn_active(u)' <=> (txn_active(u) \/ u = t)
    BY <2>1 DEF txn_active, TypeOK
  <2>3. UNCHANGED <<kv, op, type, ops>> /\ base' \in [Keys -> Values]
    BY <1>2 DEF Locked, TypeOK
  <2>4. /\ rwlock' \in [readers : SUBSET Txns, writer : Txns \cup {NoTxn}]
        /\ rwlock'.readers = {u \in Txns : txn_active(u)' /\ type'[u] = TXN_READ_ONLY}
        /\ \A u \in Txns : rwlock'.writer = u <=> (txn_active(u)' /\ type'[u] = TXN_READ_WRITE)
        /\ WriterIsAlone'
    <3>1. CASE type[t] = TXN_READ_ONLY
      <4>1. rwlock.writer = NoTxn /\ rwlock' = [rwlock EXCEPT !.readers = @ \cup {t}]
        BY <1>2, <3>1 DEF Locked, btree_lock_read, TXN_READ_ONLY, TXN_READ_WRITE
      <4>2. rwlock'.readers = rwlock.readers \cup {t} /\ rwlock'.writer = NoTxn
        BY <4>1 DEF TypeOK
      <4>3. rwlock' \in [readers : SUBSET Txns, writer : Txns \cup {NoTxn}]
        BY <4>1 DEF TypeOK
      <4>4. op = NoOp
        BY <4>1, NoTxnAssumption DEF WriterIsAlone
      <4> QED
        BY <4>2, <4>3, <4>4, <4>1, <3>1, <2>2, <2>3, NoTxnAssumption
        DEF TypeOK, WriterIsAlone, TXN_READ_ONLY, TXN_READ_WRITE
    <3>2. CASE type[t] = TXN_READ_WRITE
      <4>1. /\ rwlock.writer = NoTxn /\ rwlock.readers = {}
            /\ rwlock' = [rwlock EXCEPT !.writer = t]
        BY <1>2, <3>2 DEF Locked, btree_lock_write, TXN_READ_ONLY, TXN_READ_WRITE
      <4>2. rwlock'.readers = {} /\ rwlock'.writer = t
        BY <4>1 DEF TypeOK
      <4>3. rwlock' \in [readers : SUBSET Txns, writer : Txns \cup {NoTxn}]
        BY <4>1 DEF TypeOK
      <4>4. op = NoOp
        BY <4>1, NoTxnAssumption DEF WriterIsAlone
      <4> QED
        BY <4>2, <4>3, <4>4, <4>1, <3>2, <2>2, <2>3, NoTxnAssumption
        DEF TypeOK, WriterIsAlone, TXN_READ_ONLY, TXN_READ_WRITE
    <3> QED
      BY <3>1, <3>2 DEF TypeOK
  <2>5. phase' \in [Txns -> {"new", "waiting", "active", "done"}]
    BY <2>1 DEF TypeOK
  <2> QED
    BY <2>3, <2>4, <2>5 DEF TypeOK
<1>3. ASSUME NEW t \in Txns, txn_commit(t) PROVE IInv'
  <2>1. phase' = [phase EXCEPT ![t] = "done"] /\ txn_active(t) /\ op.txn # t
    BY <1>3 DEF txn_commit
  <2>2. \A u \in Txns : txn_active(u)' <=> (txn_active(u) /\ u # t)
    BY <2>1 DEF txn_active, TypeOK
  <2>3. UNCHANGED <<kv, op, type, ops, base>>
    BY <1>3 DEF txn_commit
  <2>4. /\ rwlock'.readers = rwlock.readers \ {t}
        /\ rwlock'.writer = IF rwlock.writer = t THEN NoTxn ELSE rwlock.writer
        /\ rwlock' \in [readers : SUBSET Txns, writer : Txns \cup {NoTxn}]
    BY <1>3 DEF txn_commit, btree_unlock, TypeOK
  <2>5. rwlock'.readers = {u \in Txns : txn_active(u)' /\ type'[u] = TXN_READ_ONLY}
    BY <2>2, <2>3, <2>4 DEF TypeOK
  <2>6. \A u \in Txns : rwlock'.writer = u <=> (txn_active(u)' /\ type'[u] = TXN_READ_WRITE)
    BY <2>2, <2>3, <2>4, NoTxnAssumption DEF TypeOK
  <2>7. WriterIsAlone'
    BY <2>1, <2>3, <2>4 DEF WriterIsAlone
  <2>8. phase' \in [Txns -> {"new", "waiting", "active", "done"}]
    BY <2>1 DEF TypeOK
  <2> QED
    BY <2>3, <2>4, <2>5, <2>6, <2>7, <2>8 DEF TypeOK
<1>4. ASSUME NEW t \in Txns, NEW k \in Keys, txn_get(t, k) PROVE IInv'
  <2>1. ops' \in [Txns -> 0..MaxOps]
    BY <1>4, MaxOpsAssumption DEF txn_get, Calls, TypeOK
  <2> QED
    BY <1>4, <2>1 DEF txn_get, TypeOK, WriterIsAlone, txn_active
<1>5. ASSUME NEW t \in Txns, PutRejected(t) PROVE IInv'
  <2>1. ops' \in [Txns -> 0..MaxOps]
    BY <1>5, MaxOpsAssumption DEF PutRejected, Calls, TypeOK
  <2> QED
    BY <1>5, <2>1 DEF PutRejected, TypeOK, WriterIsAlone, txn_active
<1>6. ASSUME NEW t \in Txns, NEW k \in Keys, NEW v \in Values, txn_put(t, k, v) PROVE IInv'
  <2>1. ops' \in [Txns -> 0..MaxOps]
    BY <1>6, MaxOpsAssumption DEF txn_put, Calls, TypeOK
  <2>2. op' = [txn |-> t, key |-> k, val |-> v] /\ UNCHANGED <<rwlock, kv, phase, type, base>>
    BY <1>6 DEF txn_put
  <2>3. rwlock.writer = t
    BY <1>6 DEF txn_put, Calls, MayWrite, TypeOK
  <2>4. TypeOK'
    BY <2>1, <2>2 DEF TypeOK, txn_active
  <2>5. WriterIsAlone'
    BY <2>2, <2>3 DEF WriterIsAlone
  <2> QED
    BY <2>4, <2>5
<1>7. ASSUME NEW t \in Txns, PutEnds(t) PROVE IInv'
  <2>1. op' = NoOp /\ UNCHANGED <<rwlock, phase, type, ops, base>>
    BY <1>7 DEF PutEnds
  <2>2. op \in [txn : Txns, key : Keys, val : Values]
    BY <1>7, NoTxnAssumption DEF PutEnds, TypeOK, NoOp
  <2>3. kv' \in [Keys -> Values]
    BY <1>7, <2>2 DEF PutEnds, TypeOK
  <2> QED
    BY <2>1, <2>3 DEF TypeOK, WriterIsAlone, txn_active
<1>8. CASE UNCHANGED vars
  BY <1>8 DEF vars, TypeOK, WriterIsAlone, txn_active
<1> QED
  BY <1>1, <1>2, <1>3, <1>4, <1>5, <1>6, <1>7, <1>8 DEF Next, Ends

\* Any run of the transactions keeps the invariant.
LEMMA AlwaysInv == Spec => []IInv
<1>1. Init => IInv
  BY InitInv
<1>2. IInv /\ [Next]_vars => IInv'
  BY StepInv
<1> QED
  BY <1>1, <1>2, PTL DEF Spec

\* The lock is held by exactly the active transactions: shared by the read-only ones, by
\* a read-write one alone (txn_begin, txn_commit, txn_abort).
THEOREM TxnTypeOK == Spec => []TypeOK
<1>1. IInv => TypeOK
  BY DEF IInv
<1> QED
  BY <1>1, AlwaysInv, PTL

-----------------------------------------------------------------------------
(***************************************************************************)
(* The refinement.                                                         *)
(***************************************************************************)

\* The map outside transactions, and the map each transaction works on, as Serial sees them.
SKv == IF rwlock.writer = NoTxn THEN kv ELSE base
SWork == [t \in Txns |-> IF txn_active(t) THEN kv ELSE NoMap]
SRw == [t \in Txns |-> type[t] = TXN_READ_WRITE]

\* The first state of the threads is the first state of Serial.
LEMMA InitSerial == Init => Serial!Init
<1> SUFFICES ASSUME Init PROVE Serial!Init
  OBVIOUS
<1>1. SKv = [k \in Keys |-> NoVal]
  BY DEF Init, SKv
<1>2. SWork = [t \in Txns |-> NoMap]
  BY DEF Init, SWork, txn_active
<1>3. SRw \in [Txns -> BOOLEAN]
  BY DEF SRw
<1>4. ans = [t \in Txns |-> "none"]
  BY DEF Init
<1> QED
  BY <1>1, <1>2, <1>3, <1>4 DEF Serial!Init, SKv, SWork, SRw

\* Every step of the threads is a step of Serial or leaves it as it is.
LEMMA StepSerial == IInv /\ [Next]_vars => [Serial!Next]_(Serial!vars)
<1> SUFFICES ASSUME IInv, [Next]_vars PROVE [Serial!Next]_(Serial!vars)
  OBVIOUS
<1>kv. kv # NoMap
  BY NoMapAssumption DEF IInv, TypeOK, Values
<1>1. ASSUME NEW t \in Txns, txn_begin(t) PROVE UNCHANGED Serial!vars
  <2>1. \A u \in Txns : txn_active(u)' <=> txn_active(u)
    BY <1>1 DEF txn_begin, txn_active, IInv, TypeOK
  <2>2. UNCHANGED <<SKv, SWork, SRw, ans>>
    BY <1>1, <2>1 DEF txn_begin, SKv, SWork, SRw
  <2> QED
    BY <2>2 DEF Serial!vars, SKv, SWork, SRw
<1>2. ASSUME NEW t \in Txns, Locked(t) PROVE Serial!Begin(t)
  <2>1. /\ phase' = [phase EXCEPT ![t] = "active"] /\ ~txn_active(t)
        /\ UNCHANGED <<kv, type, ans>>
    BY <1>2 DEF Locked, txn_active
  <2>2. \A u \in Txns : txn_active(u)' <=> (txn_active(u) \/ u = t)
    BY <2>1 DEF txn_active, IInv, TypeOK
  <2>3. SKv = kv /\ SKv' = kv
    <3>1. CASE type[t] = TXN_READ_ONLY
      <4>1. rwlock.writer = NoTxn /\ rwlock' = [rwlock EXCEPT !.readers = @ \cup {t}]
        BY <1>2, <3>1 DEF Locked, btree_lock_read, TXN_READ_ONLY, TXN_READ_WRITE
      <4>2. rwlock'.writer = NoTxn
        BY <4>1 DEF IInv, TypeOK
      <4> QED
        BY <4>1, <4>2, <2>1 DEF SKv
    <3>2. CASE type[t] = TXN_READ_WRITE
      BY <1>2, <3>2, <2>1 DEF Locked, btree_lock_write, SKv, TXN_READ_ONLY, TXN_READ_WRITE
    <3> QED
      BY <3>1, <3>2 DEF IInv, TypeOK
  <2>4. SWork[t] = NoMap /\ SWork' = [SWork EXCEPT ![t] = SKv]
    BY <2>1, <2>2, <2>3 DEF SWork
  <2>5. SRw' = SRw
    BY <2>1 DEF SRw
  <2> QED
    BY <2>1, <2>3, <2>4, <2>5 DEF Serial!Begin, SKv, SWork, SRw
<1>3. ASSUME NEW t \in Txns, txn_commit(t) PROVE Serial!End(t)
  <2>1. /\ phase' = [phase EXCEPT ![t] = "done"] /\ txn_active(t)
        /\ UNCHANGED <<kv, type, ans, base>>
    BY <1>3 DEF txn_commit
  <2>2. \A u \in Txns : txn_active(u)' <=> (txn_active(u) /\ u # t)
    BY <2>1 DEF txn_active, IInv, TypeOK
  <2>3. rwlock'.writer = IF rwlock.writer = t THEN NoTxn ELSE rwlock.writer
    BY <1>3 DEF txn_commit, btree_unlock
  <2>4. rwlock.writer = t <=> SRw[t]
    BY <2>1 DEF SRw, IInv, TypeOK
  <2>5. SWork[t] = kv /\ SWork' = [SWork EXCEPT ![t] = NoMap]
    BY <2>1, <2>2 DEF SWork
  <2>6. SKv' = IF SRw[t] THEN SWork[t] ELSE SKv
    BY <2>1, <2>3, <2>4, <2>5, NoTxnAssumption DEF SKv
  <2>7. SRw[t] => \A u \in Txns \ {t} : SWork[u] # NoMap => ~SRw[u]
    BY <2>4 DEF SWork, SRw, IInv, TypeOK
  <2>8. SRw' = SRw
    BY <2>1 DEF SRw
  <2> QED
    BY <1>kv, <2>1, <2>5, <2>6, <2>7, <2>8 DEF Serial!End, SKv, SWork, SRw
<1>4. ASSUME NEW t \in Txns, NEW k \in Keys, txn_get(t, k) PROVE Serial!Read(t, k)
  <2>1. txn_active(t) /\ op.txn # t /\ UNCHANGED <<rwlock, kv, phase, type, base>>
    BY <1>4 DEF txn_get, Calls
  <2>2. op = NoOp
    <3> SUFFICES ASSUME op # NoOp PROVE FALSE
      OBVIOUS
    <3>1. op.txn \in Txns /\ rwlock.writer = op.txn
      BY DEF IInv, WriterIsAlone
    <3>2. txn_active(op.txn)
      BY <3>1 DEF IInv, TypeOK
    <3> QED
      BY <2>1, <3>1, <3>2, AloneWithTheTree
  <2>3. SWork[t] = kv
    BY <2>1 DEF SWork
  <2>4. ans' = [ans EXCEPT ![t] = IF kv[k] = NoVal THEN "BTREE_NOT_FOUND" ELSE kv[k]]
    BY <1>4, <2>2 DEF txn_get
  <2>5. UNCHANGED <<SKv, SWork, SRw>>
    BY <2>1 DEF SKv, SWork, SRw, txn_active
  <2> QED
    BY <1>kv, <2>3, <2>4, <2>5 DEF Serial!Read, SKv, SWork, SRw
<1>5. ASSUME NEW t \in Txns, PutRejected(t) PROVE Serial!Reject(t)
  <2>1. /\ txn_active(t) /\ ~MayWrite(t) /\ UNCHANGED <<rwlock, kv, phase, type, base>>
        /\ ans' = [ans EXCEPT ![t] = "BTREE_CORRUPTED"]
    BY <1>5 DEF PutRejected, Calls
  <2>2. SWork[t] = kv /\ ~SRw[t]
    BY <2>1 DEF SWork, SRw, MayWrite
  <2>3. UNCHANGED <<SKv, SWork, SRw>>
    BY <2>1 DEF SKv, SWork, SRw, txn_active
  <2> QED
    BY <1>kv, <2>1, <2>2, <2>3 DEF Serial!Reject, SKv, SWork, SRw
<1>6. ASSUME NEW t \in Txns, NEW k \in Keys, NEW v \in Values, txn_put(t, k, v)
      PROVE  UNCHANGED Serial!vars
  <2>1. UNCHANGED <<rwlock, kv, phase, type, base, ans>>
    BY <1>6 DEF txn_put
  <2>2. UNCHANGED <<SKv, SWork, SRw, ans>>
    BY <2>1 DEF SKv, SWork, SRw, txn_active
  <2> QED
    BY <2>2 DEF Serial!vars, SKv, SWork, SRw
<1>7. ASSUME NEW t \in Txns, PutEnds(t)
      PROVE  \E k \in Keys : \E v \in Vals \cup {NoVal} : Serial!Write(t, k, v)
  <2>1. /\ op.txn = t /\ kv' = [kv EXCEPT ![op.key] = op.val]
        /\ ans' = [ans EXCEPT ![t] = IF op.val = NoVal /\ kv[op.key] = NoVal
                                     THEN "BTREE_NOT_FOUND" ELSE "BTREE_OK"]
        /\ UNCHANGED <<rwlock, phase, type, base>>
    BY <1>7 DEF PutEnds
  <2>2. op.key \in Keys /\ op.val \in Vals \cup {NoVal} /\ op # NoOp
    BY <2>1, NoTxnAssumption DEF IInv, TypeOK, NoOp, Values
  <2>3. rwlock.writer = t
    BY <2>1, <2>2 DEF IInv, WriterIsAlone
  <2>4. txn_active(t) /\ SRw[t]
    BY <2>3 DEF IInv, TypeOK, SRw
  <2>5. \A u \in Txns : txn_active(u) => u = t
    BY <2>3, <2>4, AloneWithTheTree
  <2>6. SWork[t] = kv
    BY <2>4 DEF SWork
  <2>7. SWork' = [SWork EXCEPT ![t] = [kv EXCEPT ![op.key] = op.val]]
    BY <2>1, <2>4, <2>5 DEF SWork, txn_active
  <2>8. UNCHANGED <<SKv, SRw>>
    BY <2>1, <2>3, NoTxnAssumption DEF SKv, SRw
  <2>9. Serial!Write(t, op.key, op.val)
    BY <1>kv, <2>1, <2>4, <2>6, <2>7, <2>8 DEF Serial!Write, SKv, SWork, SRw
  <2> QED
    BY <2>2, <2>9
<1>8. CASE UNCHANGED vars
  <2>1. UNCHANGED <<SKv, SWork, SRw, ans>>
    BY <1>8 DEF vars, SKv, SWork, SRw, txn_active
  <2> QED
    BY <2>1 DEF Serial!vars, SKv, SWork, SRw
<1> QED
  BY <1>1, <1>2, <1>3, <1>4, <1>5, <1>6, <1>7, <1>8 DEF Next, Ends, Serial!Next

\* Transactions of any number of threads are isolated: txn.c with the tree's read-write
\* lock implements transactions that work on the map as it was when they began, and
\* whose changes appear at once when they end.
THEOREM TxnsAreSerial == Spec => ImplementsSerial
<1>1. Init => Serial!Init
  BY InitSerial
<1>2. IInv /\ [Next]_vars => [Serial!Next]_(Serial!vars)
  BY StepSerial
<1> QED
  BY <1>1, <1>2, AlwaysInv, PTL DEF Spec, ImplementsSerial, Serial!Spec
=============================================================================
