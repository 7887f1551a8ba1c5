---------------------------- MODULE BTreeProofs ----------------------------
(***************************************************************************)
(* Proofs about the tree of BTree, for any keys, values, record lengths    *)
(* and number of pages, and for failures at any step of a get or a delete. *)
(*                                                                         *)
(* The inductive invariant says that the pages can be given heights: a     *)
(* leaf has height 0, and every child of an internal page, reachable or    *)
(* not, is one below it.  Splits, merges, a new root and a shrinking root  *)
(* only ever combine pages and records of one height.  Well-typed pages,   *)
(* one depth for all leaves and the place of a node in its parent follow.  *)
(*                                                                         *)
(* The theorems hold until a callback or malloc fails in a put: its page   *)
(* writes are not checked, and a lost write of a new internal page leaves  *)
(* it with first_child_id 0, the first leaf, at whatever height it is.     *)
(***************************************************************************)
EXTENDS BTreeProps, TLAPS, FiniteSetTheorems, SequenceTheorems, WellFoundedInduction

-----------------------------------------------------------------------------
(***************************************************************************)
(* Pages at a height.                                                      *)
(***************************************************************************)

\* The records of a node of height n, when h gives the height of each page of P.
Recs(P, h, n) ==
    IF n = 0 THEN LeafRec ELSE {r \in InternalRec(P) : h[r.child] = n - 1}

\* A node of height n: a leaf, or an internal node whose children are one level below.
Nodes(P, h, n) ==
    [type : {IF n = 0 THEN "PAGE_LEAF" ELSE "PAGE_INTERNAL"},
     slots : Seq(Recs(P, h, n)),
     parent_id : P, prev_id : P, next_id : P,
     first_child_id : {c \in P : n = 0 \/ h[c] = n - 1}]

-----------------------------------------------------------------------------
(***************************************************************************)
(* Sequences of records.                                                   *)
(***************************************************************************)

\* A nonempty set of numbers has a least one.
LEMMA LeastNumber ==
    ASSUME NEW D \in SUBSET Nat, D # {}
    PROVE  \E m \in D : \A k \in D : m <= k
  <1>1. \E m \in D : \A k \in D : ~(<<k, m>> \in OpToRel(<, Nat))
    BY NatLessThanWellFounded, WFMin
  <1>2. \A m, k \in Nat : ~(<<k, m>> \in OpToRel(<, Nat)) => m <= k
    BY DEF OpToRel
  <1> QED
    BY <1>1, <1>2

\* A part of a sequence is a sequence.
LEMMA SubSeqType ==
    ASSUME NEW S, NEW s \in Seq(S), NEW a \in Int, NEW b \in Int, 1 <= a, b <= Len(s)
    PROVE  /\ SubSeq(s, a, b) \in Seq(S)
           /\ Len(SubSeq(s, a, b)) = IF a <= b THEN b - a + 1 ELSE 0
  <1>1. ASSUME NEW i \in a..b PROVE s[i] \in S
    <2>1. i \in 1..Len(s)
      BY LenProperties
    <2> QED
      BY <2>1, ElementOfSeq
  <1> QED
    BY <1>1, SubSeqProperties

\* InsertAt puts one element more into a sequence.
LEMMA InsertAtType ==
    ASSUME NEW S, NEW s \in Seq(S), NEW e \in S, NEW i \in 1..(Len(s) + 1)
    PROVE  InsertAt(s, i, e) \in Seq(S) /\ Len(InsertAt(s, i, e)) = Len(s) + 1
  <1>1. Len(s) \in Nat
    BY LenProperties
  <1>2. /\ SubSeq(s, 1, i - 1) \in Seq(S) /\ Len(SubSeq(s, 1, i - 1)) = i - 1
        /\ SubSeq(s, i, Len(s)) \in Seq(S) /\ Len(SubSeq(s, i, Len(s))) = Len(s) - i + 1
    BY <1>1, SubSeqType
  <1>3. <<e>> \in Seq(S) /\ Len(<<e>>) = 1
    OBVIOUS
  <1> DEFINE a == SubSeq(s, 1, i - 1)
             c == SubSeq(s, i, Len(s))
  <1> HIDE DEF a, c
  <1>4. a \in Seq(S) /\ Len(a) = i - 1 /\ c \in Seq(S) /\ Len(c) = Len(s) - i + 1
    BY <1>2 DEF a, c
  <1> DEFINE b == a \o <<e>>
  <1>5. b \in Seq(S) /\ Len(b) = i
    BY <1>3, <1>4, <1>1, ConcatProperties
  <1> HIDE DEF b
  <1>6. b \o c \in Seq(S) /\ Len(b \o c) = Len(b) + Len(c)
    BY <1>4, <1>5, ConcatProperties
  <1>7. Len(b \o c) = Len(s) + 1
    BY <1>1, <1>4, <1>5, <1>6
  <1> QED
    BY <1>6, <1>7 DEF InsertAt, a, b, c

\* RemoveAt takes one out.
LEMMA RemoveAtType ==
    ASSUME NEW S, NEW s \in Seq(S), NEW i \in 1..Len(s)
    PROVE  RemoveAt(s, i) \in Seq(S)
  <1>1. Len(s) \in Nat
    BY LenProperties
  <1> DEFINE a == SubSeq(s, 1, i - 1)
             c == SubSeq(s, i + 1, Len(s))
  <1>2. a \in Seq(S) /\ c \in Seq(S)
    BY <1>1, SubSeqType
  <1> HIDE DEF a, c
  <1>3. a \o c \in Seq(S)
    BY <1>2, ConcatProperties
  <1> QED
    BY <1>3 DEF RemoveAt, a, c

\* The tail of a sequence, and a sequence with one element more.
LEMMA TailAppendType ==
    ASSUME NEW S, NEW s \in Seq(S)
    PROVE  /\ s # << >> => Head(s) \in S /\ Tail(s) \in Seq(S)
           /\ \A e \in S : Append(s, e) \in Seq(S)
           /\ \A i \in 1..Len(s) : s[i] \in S
           /\ Len(s) \in Nat /\ DOMAIN s = 1..Len(s)
  BY HeadTailProperties, AppendProperties, ElementOfSeq, LenProperties

\* The searches find a slot, or the place before the first one.
LEMMA RankType ==
    ASSUME NEW S, NEW s \in Seq(S), NEW k
    PROVE  Rank(s, k) \in 0..Len(s)
  <1> DEFINE R == {i \in DOMAIN s : s[i].key <= k}
  <1>1. DOMAIN s = 1..Len(s) /\ Len(s) \in Nat
    BY LenProperties
  <1>2. R \in SUBSET (1..Len(s))
    BY <1>1
  <1>3. IsFiniteSet(1..Len(s)) /\ Cardinality(1..Len(s)) = Len(s)
    BY <1>1, FS_Interval
  <1> HIDE DEF R
  <1>4. Cardinality(R) <= Len(s) /\ Cardinality(R) \in Nat
    BY <1>2, <1>3, FS_Subset, FS_CardinalityType
  <1> QED
    BY <1>1, <1>4 DEF Rank, R

\* A key that is there is found.
LEMMA RankOfKey ==
    ASSUME NEW S, NEW s \in Seq(S), NEW k \in Keys, \E i \in DOMAIN s : s[i].key = k
    PROVE  Rank(s, k) \in 1..Len(s)
  <1> DEFINE R == {i \in DOMAIN s : s[i].key <= k}
  <1>1. DOMAIN s = 1..Len(s) /\ Len(s) \in Nat
    BY LenProperties
  <1>2. R # {} /\ R \in SUBSET (1..Len(s))
    BY <1>1, KeysAssumption
  <1>3. IsFiniteSet(1..Len(s))
    BY <1>1, FS_Interval
  <1> HIDE DEF R
  <1>4. Cardinality(R) # 0
    BY <1>2, <1>3, FS_Subset, FS_EmptySet
  <1>5. Rank(s, k) # 0
    BY <1>4 DEF Rank, R
  <1> QED
    BY <1>1, <1>5, RankType

-----------------------------------------------------------------------------
(***************************************************************************)
(* Operations on pages keep the height.                                    *)
(***************************************************************************)

\* A node is a page; one of height 0 is a leaf.
LEMMA NodeIsPage ==
    ASSUME NEW P, NEW h, NEW n, NEW p \in Nodes(P, h, n)
    PROVE  /\ p \in Page(P)
           /\ p.type = "PAGE_LEAF" <=> n = 0
           /\ p.type = "PAGE_INTERNAL" <=> n # 0
           /\ p.slots \in Seq(Recs(P, h, n))
           /\ p.next_id \in P /\ p.prev_id \in P /\ p.parent_id \in P /\ p.first_child_id \in P
  <1>1. CASE n = 0
    BY <1>1 DEF Nodes, Page, Recs
  <1>2. CASE n # 0
    <2>1. Recs(P, h, n) \subseteq InternalRec(P)
      BY <1>2 DEF Recs
    <2>2. p.slots \in Seq(InternalRec(P))
      BY <2>1, SeqMonotonic DEF Nodes
    <2> QED
      BY <1>2, <2>2 DEF Nodes, Page
  <1> QED
    BY <1>1, <1>2

\* Records are typed.
LEMMA RecIsRecord ==
    ASSUME NEW P, NEW h, NEW n
    PROVE  Recs(P, h, n) \subseteq LeafRec \cup InternalRec(P)
  BY DEF Recs

\* Another sequence of records of the same height may be put into a node.
LEMMA SetSlots ==
    ASSUME NEW P, NEW h, NEW n, NEW p \in Nodes(P, h, n), NEW s \in Seq(Recs(P, h, n))
    PROVE  [p EXCEPT !.slots = s] \in Nodes(P, h, n)
  BY DEF Nodes

\* Siblings and parent do not matter.
LEMMA SetLinks ==
    ASSUME NEW P, NEW h, NEW n, NEW p \in Nodes(P, h, n), NEW q \in P
    PROVE  /\ [p EXCEPT !.parent_id = q] \in Nodes(P, h, n)
           /\ [p EXCEPT !.prev_id = q] \in Nodes(P, h, n)
           /\ [p EXCEPT !.next_id = q] \in Nodes(P, h, n)
  BY DEF Nodes

\* page_alloc_slot appends a record, or leaves it out.
LEMMA AllocSlot ==
    ASSUME NEW P, NEW h, NEW n, NEW p \in Nodes(P, h, n), NEW r \in Recs(P, h, n)
    PROVE  page_alloc_slot(p, r) \in Nodes(P, h, n)
  <1>1. p.slots \in Seq(Recs(P, h, n))
    BY NodeIsPage
  <1>2. Append(p.slots, r) \in Seq(Recs(P, h, n))
    BY <1>1, AppendProperties
  <1> QED
    BY <1>2, SetSlots DEF page_alloc_slot

\* page_insert_slot at the place of a key.
LEMMA InsertSlot ==
    ASSUME NEW P, NEW h, NEW n, NEW p \in Nodes(P, h, n), NEW r \in Recs(P, h, n), NEW k
    PROVE  page_insert_slot(p, Rank(p.slots, k) + 1, r) \in Nodes(P, h, n)
  <1>1. p.slots \in Seq(Recs(P, h, n)) /\ Len(p.slots) \in Nat
    BY NodeIsPage, LenProperties
  <1>2. Rank(p.slots, k) + 1 \in 1..(Len(p.slots) + 1)
    BY <1>1, RankType
  <1>3. InsertAt(p.slots, Rank(p.slots, k) + 1, r) \in Seq(Recs(P, h, n))
    BY <1>1, <1>2, InsertAtType
  <1> QED
    BY <1>3, SetSlots DEF page_insert_slot

\* page_remove_slot of a slot that is there.
LEMMA RemoveSlot ==
    ASSUME NEW P, NEW h, NEW n, NEW p \in Nodes(P, h, n), NEW i \in 1..Len(p.slots)
    PROVE  page_remove_slot(p, i) \in Nodes(P, h, n)
  <1>1. p.slots \in Seq(Recs(P, h, n))
    BY NodeIsPage
  <1>2. RemoveAt(p.slots, i) \in Seq(Recs(P, h, n))
    BY <1>1, RemoveAtType
  <1> QED
    BY <1>2, SetSlots DEF page_remove_slot

\* The children of an internal node of height n have height n - 1.
LEMMA ChildHeight ==
    ASSUME NEW P, NEW h, NEW n \in Nat, n # 0, NEW p \in Nodes(P, h, n),
           NEW i \in 1..NumChildren(p)
    PROVE  Child(p, i) \in P /\ h[Child(p, i)] = n - 1
  <1>1. CASE i = 1
    BY <1>1 DEF Nodes, Child
  <1>2. CASE i # 1
    <2>1. p.slots \in Seq(Recs(P, h, n)) /\ Len(p.slots) \in Nat
      BY NodeIsPage, LenProperties
    <2>2. i - 1 \in 1..Len(p.slots)
      BY <1>2, <2>1 DEF NumChildren
    <2>3. p.slots[i - 1] \in Recs(P, h, n)
      BY <2>1, <2>2, ElementOfSeq
    <2> QED
      BY <1>2, <2>3 DEF Recs, InternalRec, Child
  <1> QED
    BY <1>1, <1>2

\* internal_find_child answers a child.
LEMMA FindChild ==
    ASSUME NEW P, NEW h, NEW n \in Nat, n # 0, NEW p \in Nodes(P, h, n), NEW k
    PROVE  /\ IsChild(p, internal_find_child(p, k))
           /\ internal_find_child(p, k) \in P
           /\ h[internal_find_child(p, k)] = n - 1
  <1>1. p.slots \in Seq(Recs(P, h, n)) /\ Len(p.slots) \in Nat
    BY NodeIsPage, LenProperties
  <1>2. Rank(p.slots, k) \in 0..Len(p.slots)
    BY <1>1, RankType
  <1>3. Rank(p.slots, k) + 1 \in 1..NumChildren(p)
    BY <1>1, <1>2 DEF NumChildren
  <1>4. internal_find_child(p, k) = Child(p, Rank(p.slots, k) + 1)
    BY <1>2 DEF internal_find_child, Child
  <1> QED
    BY <1>3, <1>4, ChildHeight DEF IsChild

\* find_pos_in_parent finds a child that is there.
LEMMA FindPos ==
    ASSUME NEW p, NumChildren(p) \in Nat, NEW pid, IsChild(p, pid)
    PROVE  /\ find_pos_in_parent(p, pid) \in 1..NumChildren(p)
           /\ Child(p, find_pos_in_parent(p, pid)) = pid
  <1> DEFINE D == {i \in 1..NumChildren(p) : Child(p, i) = pid}
  <1>1. PICK m \in D : \A k \in D : m <= k
    <2>1. D \in SUBSET Nat /\ D # {}
      BY DEF IsChild
    <2> QED
      BY <2>1, LeastNumber
  <1>2. \A j \in 1..(m - 1) : Child(p, j) # pid
    BY <1>1
  <1>3. \E i \in 1..NumChildren(p) :
            Child(p, i) = pid /\ \A j \in 1..(i - 1) : Child(p, j) # pid
    BY <1>1, <1>2
  <1> QED
    BY <1>3 DEF find_pos_in_parent

\* More pages make no difference to the nodes there are.
LEMMA MorePages ==
    ASSUME NEW P, NEW Q, P \subseteq Q, NEW h \in [P -> Nat], NEW g \in [Q -> Nat],
           \A c \in P : g[c] = h[c], NEW n
    PROVE  /\ Recs(P, h, n) \subseteq Recs(Q, g, n)
           /\ Nodes(P, h, n) \subseteq Nodes(Q, g, n)
  <1>1. Recs(P, h, n) \subseteq Recs(Q, g, n)
    BY DEF Recs, InternalRec
  <1>2. ASSUME NEW p \in Nodes(P, h, n) PROVE p \in Nodes(Q, g, n)
    <2>1. p.slots \in Seq(Recs(Q, g, n))
      BY <1>1, SeqMonotonic, NodeIsPage
    <2> QED
      BY <2>1 DEF Nodes
  <1> QED
    BY <1>1, <1>2

\* More page ids make no difference to the pages there are.
LEMMA MoreIds ==
    ASSUME NEW P, NEW Q, P \subseteq Q
    PROVE  /\ Page(P) \subseteq Page(Q) /\ InternalRec(P) \subseteq InternalRec(Q)
           /\ Seq(P) \subseteq Seq(Q)
           /\ Seq(LeafRec \cup InternalRec(P)) \subseteq Seq(LeafRec \cup InternalRec(Q))
  <1>1. InternalRec(P) \subseteq InternalRec(Q)
    BY DEF InternalRec
  <1>2. Seq(InternalRec(P)) \subseteq Seq(InternalRec(Q))
    BY <1>1, SeqMonotonic
  <1>3. Page(P) \subseteq Page(Q)
    BY <1>2 DEF Page
  <1> QED
    BY <1>1, <1>3, SeqMonotonic

-----------------------------------------------------------------------------
(***************************************************************************)
(* The inductive invariant.                                                *)
(***************************************************************************)
LeafSplitting == {"split_alloc", "split_left", "split_right", "split_next", "split_prev"}
ParentSplitting == {"parent_left", "parent_alloc", "parent_median", "parent_right"}
RootBuilding == {"root_left", "root_right", "root_write"}
Merging == {"merge_next", "merge_left", "merge_parent"}

\* The page that has been allocated and is being built: it still is as page_init left it.
Unwritten ==
    IF pc \in {"parent_median", "parent_right"} \cup RootBuilding THEN {new_pid} ELSE {}

\* Every other page is a node of its height; page 0, the first leaf, stays a leaf.
Shape(h) ==
    /\ h \in [Pids -> Nat] /\ h[0] = 0
    /\ \A pid \in Pids \ Unwritten : pages[pid] \in Nodes(Pids, h, h[pid])

\* The path goes down from the root, one level with every step.
Walked(h) ==
    pc \notin {"idle", "return"} =>
        /\ path # << >>
        /\ \A i \in 1..(Len(path) - 1) : h[path[i]] = h[path[i + 1]] + 1
        /\ pc # "shrink_write" => path[1] = root_id
        /\ pc # "descend" => h[Last(path)] = 0

\* The call that is being served.
Served ==
    /\ pc \notin {"idle", "return"} => call \in Ops
    /\ pc \in {"get", "put", "delete"} => call.op = pc
    /\ pc \in {"propagate"} \cup LeafSplitting \cup ParentSplitting \cup RootBuilding =>
           call.op = "put"

\* Each page of the path is a child of the one before; in a rebalance up to its level.
Linked ==
    /\ pc \in {"descend", "delete"} =>
           \A i \in 1..(Len(path) - 1) : IsChild(pages[path[i]], path[i + 1])
    /\ pc \in {"rebalance"} \cup Merging =>
           /\ level \in 1..Len(path)
           /\ \A i \in 1..(level - 1) : IsChild(pages[path[i]], path[i + 1])

\* The split of a leaf works on leaves and their records, the right half is a leaf.
SplitsLeaf(h) ==
    /\ pc \in LeafSplitting => buf \in Nodes(Pids, h, 0) /\ todo \in Seq(LeafRec)
    /\ pc = "split_alloc" => ra \in Seq(LeafRec) /\ ra # << >>
    /\ pc \in LeafSplitting \ {"split_alloc"} =>
           /\ level = Len(path) - 1 /\ left \in Nodes(Pids, h, 0)
           /\ h[new_pid] = 0
           /\ sep \in InternalRec(Pids) /\ h[sep.child] = 0

\* The separator that goes up leads to a node as high as the one that was split.
GoesUp(h) ==
    pc = "propagate" =>
        /\ level \in 0..(Len(path) - 1)
        /\ sep \in InternalRec(Pids) /\ h[sep.child] = h[path[level + 1]]

\* The split of an internal node works on records of its height.
SplitsParent(h) ==
    pc \in ParentSplitting =>
        /\ level \in 1..(Len(path) - 1)
        /\ buf \in Nodes(Pids, h, h[path[level]])
        /\ todo \in Seq(Recs(Pids, h, h[path[level]]))
        /\ pc \in {"parent_left", "parent_alloc"} =>
               ra \in Seq(Recs(Pids, h, h[path[level]])) /\ ra # << >>
        /\ pc \in {"parent_median", "parent_right"} =>
               /\ h[new_pid] = h[path[level]]
               /\ sep \in InternalRec(Pids) /\ sep.child = new_pid

\* The new root is one level above the old one, which is as high as its new sibling.
BuildsRoot(h) ==
    pc \in RootBuilding =>
        /\ h[new_pid] = h[root_id] + 1
        /\ buf \in Nodes(Pids, h, h[new_pid])
        /\ sep \in InternalRec(Pids) /\ h[sep.child] = h[root_id]

\* A merge works on siblings, records of their height.
Merges(h) ==
    pc \in Merging =>
        /\ level > 1 /\ HasSibling
        /\ buf \in Nodes(Pids, h, h[path[level]])
        /\ pc = "merge_next" => todo \in Seq(Recs(Pids, h, h[path[level]]))

Tall(h) ==
    /\ Shape(h) /\ Walked(h) /\ Served /\ Linked
    /\ SplitsLeaf(h) /\ GoesUp(h) /\ SplitsParent(h) /\ BuildsRoot(h) /\ Merges(h)

IInv == TypeOK /\ (pc # "undefined" => \E h : Tall(h))

\* No callback or malloc has failed in a put.
NoPutFailed == faults = 0 \/ "put" \notin FaultyOps

-----------------------------------------------------------------------------
(***************************************************************************)
(* What a step does to the pages.                                          *)
(***************************************************************************)

\* The page ids in use are allocated.
LEMMA PidsType ==
    ASSUME TypeOK
    PROVE  Pids = 0..(num_pages - 1) /\ 0 \in Pids /\ num_pages \notin Pids
           /\ Pids \cup {num_pages} = 0..num_pages
  BY DEF TypeOK, Pids

\* A page that has been written is a node of its height.
LEMMA NodeAt ==
    ASSUME NEW h, TypeOK, Shape(h), NEW pid \in Pids, pid \notin Unwritten
    PROVE  /\ h[pid] \in Nat
           /\ pages[pid] \in Nodes(Pids, h, h[pid])
           /\ pages[pid] \in Page(Pids)
           /\ pages[pid].type = "PAGE_LEAF" <=> h[pid] = 0
  <1>1. h[pid] \in Nat /\ pages[pid] \in Nodes(Pids, h, h[pid])
    BY DEF Shape
  <1> QED
    BY <1>1, NodeIsPage

\* A write keeps the shape if what is written is a node of the height of the page.
LEMMA WriteKeepsShape ==
    ASSUME NEW h, TypeOK, Shape(h), NEW pid \in Pids, NEW p \in Nodes(Pids, h, h[pid]),
           WritePage(pid, p), num_pages' = num_pages, Unwritten \ {pid} \subseteq Unwritten'
    PROVE  Shape(h)' /\ pages' \in [Pids -> Page(Pids)] /\ Pids' = Pids
  <1>1. Pids' = Pids
    BY DEF Pids
  <1>2. p \in Page(Pids)
    BY NodeIsPage
  <1>3. pages' = [pages EXCEPT ![pid] = p] /\ pages \in [Pids -> Page(Pids)]
    BY DEF WritePage, TypeOK
  <1>4. pages' \in [Pids -> Page(Pids)]
    BY <1>2, <1>3
  <1>5. ASSUME NEW q \in Pids, q \notin Unwritten' PROVE pages'[q] \in Nodes(Pids, h, h[q])
    <2>1. CASE q = pid
      BY <1>3, <2>1
    <2>2. CASE q # pid
      <3>1. q \notin Unwritten
        BY <1>5, <2>2
      <3> QED
        BY <1>3, <2>2, <3>1 DEF Shape
    <2> QED
      BY <2>1, <2>2
  <1> QED
    BY <1>1, <1>4, <1>5 DEF Shape

\* So does a change of a link of a page that is written.
LEMMA SetParentKeepsShape ==
    ASSUME NEW h, TypeOK, Shape(h), NEW pid \in Pids, pid \notin Unwritten, NEW q \in Pids,
           WritePage(pid, [pages[pid] EXCEPT !.parent_id = q])
             \/ WritePage(pid, [pages[pid] EXCEPT !.prev_id = q])
             \/ WritePage(pid, [pages[pid] EXCEPT !.next_id = q]),
           num_pages' = num_pages, Unwritten \subseteq Unwritten'
    PROVE  Shape(h)' /\ pages' \in [Pids -> Page(Pids)] /\ Pids' = Pids
  <1>1. pages[pid] \in Nodes(Pids, h, h[pid])
    BY NodeAt
  <1> QED
    BY <1>1, SetLinks, WriteKeepsShape

\* Without a write the shape stays.
LEMMA NoWriteKeepsShape ==
    ASSUME NEW h, TypeOK, Shape(h), UNCHANGED <<pages, num_pages>>, Unwritten \subseteq Unwritten'
    PROVE  Shape(h)' /\ pages' \in [Pids -> Page(Pids)] /\ Pids' = Pids
  <1>1. Pids' = Pids
    BY DEF Pids
  <1> QED
    BY <1>1 DEF Shape, TypeOK

\* The writes of a put happen, if none has failed after it.
LEMMA PutWrites ==
    ASSUME TypeOK, NoPutFailed', call.op = "put", NEW pid, NEW p, WriteUnchecked(pid, p)
    PROVE  WritePage(pid, p) /\ faults' = faults
  BY DEF WriteUnchecked, Fail, NoPutFailed, TypeOK

-----------------------------------------------------------------------------
(***************************************************************************)
(* The steps: a call begins, goes down and ends.                           *)
(***************************************************************************)

\* The first page of a path is the root.
LEMMA StepInvoke ==
    ASSUME NEW h, TypeOK, Tall(h), NEW c \in Ops, Invoke(c)
    PROVE  TypeOK' /\ Tall(h)'
  <1>1. /\ pc = "idle" /\ pc' = "descend" /\ call' = c /\ ret' = NoRet /\ path' = <<root_id>>
        /\ UNCHANGED <<pages, num_pages, root_id, view, level, buf, todo, left, ra, new_pid>>
        /\ UNCHANGED <<sep, faults>>
    BY DEF Invoke, store
  <1>2. Shape(h)' /\ pages' \in [Pids -> Page(Pids)] /\ Pids' = Pids
    BY <1>1, NoWriteKeepsShape DEF Tall, Unwritten, RootBuilding
  <1>3. root_id \in Pids /\ path' \in Seq(Pids) /\ Len(path') = 1
    BY <1>1 DEF TypeOK
  <1>4. TypeOK'
    BY <1>1, <1>2, <1>3 DEF TypeOK, Controls, NoRet, Records
  <1>5. Walked(h)'
    BY <1>1, <1>3 DEF Walked
  <1>6. Served' /\ Linked'
    BY <1>1, <1>3
    DEF Served, Linked, LeafSplitting, ParentSplitting, RootBuilding, Merging
  <1>7. SplitsLeaf(h)' /\ GoesUp(h)' /\ SplitsParent(h)' /\ BuildsRoot(h)' /\ Merges(h)'
    BY <1>1
    DEF SplitsLeaf, GoesUp, SplitsParent, BuildsRoot, Merges, LeafSplitting, ParentSplitting,
        RootBuilding, Merging
  <1> QED
    BY <1>2, <1>4, <1>5, <1>6, <1>7 DEF Tall

\* The path and its last page.
LEMMA PathType ==
    ASSUME NEW h, TypeOK, Shape(h), Walked(h), pc \notin {"idle", "return"}
    PROVE  /\ Len(path) \in Nat \ {0} /\ DOMAIN path = 1..Len(path)
           /\ \A i \in 1..Len(path) : path[i] \in Pids
           /\ Last(path) = path[Len(path)] /\ Last(path) \in Pids
  <1>1. path \in Seq(Pids) /\ path # << >>
    BY DEF TypeOK, Walked
  <1>2. Len(path) \in Nat \ {0} /\ DOMAIN path = 1..Len(path)
    BY <1>1, EmptySeq, LenProperties
  <1>3. \A i \in 1..Len(path) : path[i] \in Pids
    BY <1>1, ElementOfSeq
  <1> QED
    BY <1>2, <1>3 DEF Last

\* build_path goes to a child.
LEMMA StepDescend ==
    ASSUME NEW h, TypeOK, Tall(h), Descend
    PROVE  TypeOK' /\ Tall(h)'
  <1> DEFINE p == pages[Last(path)]
             n == Len(path)
  <1>1. /\ pc = "descend"
        /\ UNCHANGED <<pages, num_pages, root_id, call, ret, view, level, buf, todo, left, ra>>
        /\ UNCHANGED <<new_pid, sep, faults>>
    BY DEF Descend, store
  <1>2. /\ n \in Nat \ {0} /\ DOMAIN path = 1..n
        /\ \A i \in 1..n : path[i] \in Pids
        /\ Last(path) = path[n] /\ Last(path) \in Pids
    BY <1>1, PathType DEF Tall
  <1>3. Unwritten = {}
    BY <1>1 DEF Unwritten, RootBuilding
  <1>4. /\ h[Last(path)] \in Nat
        /\ p \in Nodes(Pids, h, h[Last(path)])
        /\ p.type = "PAGE_LEAF" <=> h[Last(path)] = 0
    BY <1>2, <1>3, NodeAt DEF Tall
  <1>5. call \in Ops /\ call.op \in {"get", "put", "delete"}
    BY <1>1, OpsAssumption DEF Tall, Served
  <1>6. CASE p.type = "PAGE_LEAF"
    <2>1. pc' = call.op /\ path' = path
      BY <1>6 DEF Descend
    <2>2. Shape(h)' /\ pages' \in [Pids -> Page(Pids)] /\ Pids' = Pids
      BY <1>1, <1>3, NoWriteKeepsShape DEF Tall
    <2>3. TypeOK'
      BY <1>1, <1>5, <2>1, <2>2 DEF TypeOK, Controls, Records
    <2>4. Walked(h)'
      BY <1>1, <1>4, <1>5, <1>6, <2>1 DEF Tall, Walked, Last
    <2>5. Served' /\ Linked'
      BY <1>1, <1>5, <2>1
      DEF Tall, Served, Linked, LeafSplitting, ParentSplitting, RootBuilding, Merging
    <2>6. SplitsLeaf(h)' /\ GoesUp(h)' /\ SplitsParent(h)' /\ BuildsRoot(h)' /\ Merges(h)'
      BY <1>5, <2>1
      DEF SplitsLeaf, GoesUp, SplitsParent, BuildsRoot, Merges, LeafSplitting,
          ParentSplitting, RootBuilding, Merging
    <2> QED
      BY <2>2, <2>3, <2>4, <2>5, <2>6 DEF Tall
  <1>7. CASE p.type # "PAGE_LEAF"
    <2> DEFINE c == internal_find_child(p, call.key)
    <2>1. pc' = "descend" /\ path' = Append(path, c)
      BY <1>1, <1>7 DEF Descend
    <2>2. IsChild(p, c) /\ c \in Pids /\ h[c] = h[Last(path)] - 1
      BY <1>4, <1>7, FindChild
    <2> HIDE DEF c
    <2>3. path \in Seq(Pids)
      BY DEF TypeOK
    <2>4. /\ path' \in Seq(Pids) /\ Len(path') = n + 1
          /\ \A i \in 1..n : path'[i] = path[i]
          /\ path'[n + 1] = c
      BY <2>1, <2>2, <2>3, AppendProperties
    <2>5. Shape(h)' /\ pages' \in [Pids -> Page(Pids)] /\ Pids' = Pids
      BY <1>1, <1>3, NoWriteKeepsShape DEF Tall
    <2>6. TypeOK'
      BY <1>1, <2>1, <2>4, <2>5 DEF TypeOK, Controls, Records
    <2>7. ASSUME NEW i \in 1..n
          PROVE  /\ h[path'[i]] = h[path'[i + 1]] + 1
                 /\ IsChild(pages[path'[i]], path'[i + 1])
      <3>1. CASE i = n
        BY <1>2, <1>4, <2>2, <2>4, <3>1
      <3>2. CASE i # n
        <4>1. n \in Nat \ {0}
          BY <1>2
        <4>2. i \in 1..(n - 1) /\ i + 1 \in 1..n
          BY <3>2, <4>1
        <4> QED
          BY <1>1, <2>4, <4>2 DEF Tall, Walked, Linked
      <3> QED
        BY <3>1, <3>2
    <2>8. Walked(h)'
      BY <1>1, <1>2, <2>1, <2>4, <2>7 DEF Tall, Walked
    <2>9. Served' /\ Linked'
      BY <1>1, <1>2, <2>1, <2>4, <2>7
      DEF Tall, Served, Linked, LeafSplitting, ParentSplitting, RootBuilding, Merging
    <2>10. SplitsLeaf(h)' /\ GoesUp(h)' /\ SplitsParent(h)' /\ BuildsRoot(h)' /\ Merges(h)'
      BY <2>1
      DEF SplitsLeaf, GoesUp, SplitsParent, BuildsRoot, Merges, LeafSplitting,
          ParentSplitting, RootBuilding, Merging
    <2> QED
      BY <2>5, <2>6, <2>8, <2>9, <2>10 DEF Tall
  <1> QED
    BY <1>6, <1>7

-----------------------------------------------------------------------------
(***************************************************************************)
(* What a caller could read.                                               *)
(***************************************************************************)

Maps(S) == [S -> S]

\* f is g applied to a again and again.
Iterates(f, S, g, a, n) ==
    f \in [0..n -> S] /\ f[0] = a /\ \A d \in 1..n : f[d] = g[f[d - 1]]

\* A function can be iterated, and the iteration is a function of the number of steps.
LEMMA Iteration ==
    ASSUME NEW S, NEW g \in Maps(S), NEW a \in S, NEW n \in Nat
    PROVE  \E f : Iterates(f, S, g, a, n)
  <1> USE DEF Maps, Iterates
  <1> DEFINE Good(m, f) == Iterates(f, S, g, a, m)
             Bad == {m \in Nat : ~\E f : Good(m, f)}
  <1>1. ASSUME Bad # {} PROVE FALSE
    <2>1. PICK m \in Bad : \A k \in Bad : m <= k
      BY <1>1, LeastNumber, Bad \in SUBSET Nat
    <2>2. CASE m = 0
      <3>1. Good(0, [d \in 0..0 |-> a])
        OBVIOUS
      <3> QED
        BY <2>1, <2>2, <3>1
    <2>3. CASE m # 0
      <3>1. m - 1 \in Nat /\ m - 1 \notin Bad
        <4>1. m \in Nat /\ Bad \in SUBSET Nat
          BY <2>1
        <4> HIDE DEF Bad
        <4> QED
          BY <2>1, <2>3, <4>1
      <3>2. PICK f : Good(m - 1, f)
        BY <3>1
      <3> DEFINE e == [d \in 0..m |-> IF d = m THEN g[f[m - 1]] ELSE f[d]]
      <3>3. e \in [0..m -> S] /\ e[0] = a
        BY <3>1, <3>2, <2>3
      <3>4. ASSUME NEW d \in 1..m PROVE e[d] = g[e[d - 1]]
        <4>1. CASE d = m
          BY <4>1, <3>1
        <4>2. CASE d # m
          BY <4>2, <3>1, <3>2
        <4> QED
          BY <4>1, <4>2
      <3> QED
        BY <2>1, <3>3, <3>4
    <2> QED
      BY <2>2, <2>3
  <1> QED
    BY <1>1

\* internal_find_child answers a page.
LEMMA FindChildType ==
    ASSUME NEW P, NEW p \in Page(P), p.type # "PAGE_LEAF", NEW k
    PROVE  internal_find_child(p, k) \in P
  <1>1. p.slots \in Seq(InternalRec(P)) /\ p.first_child_id \in P
    BY DEF Page
  <1>2. Rank(p.slots, k) \in 0..Len(p.slots) /\ Len(p.slots) \in Nat
    BY <1>1, RankType, LenProperties
  <1>3. ASSUME Rank(p.slots, k) # 0 PROVE p.slots[Rank(p.slots, k)] \in InternalRec(P)
    <2>1. Rank(p.slots, k) \in 1..Len(p.slots)
      BY <1>2, <1>3
    <2> QED
      BY <1>1, <2>1, ElementOfSeq
  <1> QED
    BY <1>1, <1>3 DEF internal_find_child, InternalRec

\* The pages and the root, which is all that outlives a call.
StoreOK == num_pages \in Nat \ {0} /\ pages \in [Pids -> Page(Pids)] /\ root_id \in Pids

\* The walk of build_path from a page r: the page it comes to after d steps.
NextPage(P, pid, k) ==
    IF P[pid].type = "PAGE_LEAF" THEN pid ELSE internal_find_child(P[pid], k)

WalkFrom(P, n, r, k, w) ==
    w = [d \in 0..n |-> IF d = 0 THEN r ELSE NextPage(P, w[d - 1], k)]

LeafFrom(P, n, r, k) == (CHOOSE w : WalkFrom(P, n, r, k, w))[n]

\* The walk of a lookup is the one from the root.
LEMMA LeafForIsLeafFrom == \A k : LeafFor(k) = LeafFrom(pages, num_pages, root_id, k)
  BY DEF LeafFor, LeafFrom, WalkFrom, NextPage

\* The walk goes from page to page.
LEMMA WalkType ==
    ASSUME StoreOK, NEW r \in Pids, NEW k
    PROVE  \E w \in [0..num_pages -> Pids] :
               /\ LeafFrom(pages, num_pages, r, k) = w[num_pages]
               /\ w[0] = r
               /\ \A d \in 1..num_pages : w[d] = NextPage(pages, w[d - 1], k)
  <1> DEFINE Body(pid) == NextPage(pages, pid, k)
             g == [pid \in Pids |-> Body(pid)]
             n == num_pages
             Walk(f) == WalkFrom(pages, n, r, k, f)
  <1>1. n \in Nat /\ \A pid \in Pids : pages[pid] \in Page(Pids)
    BY DEF StoreOK
  <1>2. ASSUME NEW pid \in Pids PROVE Body(pid) \in Pids
    BY <1>1, FindChildType DEF NextPage
  <1> HIDE DEF Body, n
  <1>3. g \in Maps(Pids)
    BY <1>2 DEF Maps
  <1>4. PICK f : Iterates(f, Pids, g, r, n)
    <2> HIDE DEF g
    <2> QED
      BY <1>1, <1>3, Iteration
  <1>5. Walk(f)
    <2>1. ASSUME NEW d \in 0..n PROVE f[d] = IF d = 0 THEN r ELSE Body(f[d - 1])
      <3>1. CASE d = 0
        BY <1>4, <3>1 DEF Iterates
      <3>2. CASE d # 0
        <4>1. d \in 1..n /\ d - 1 \in 0..n
          BY <1>1, <3>2
        <4>2. f[d] = g[f[d - 1]] /\ f[d - 1] \in Pids
          BY <1>4, <4>1 DEF Iterates
        <4> QED
          BY <3>2, <4>2
      <3> QED
        BY <3>1, <3>2
    <2> QED
      BY <1>4, <2>1 DEF Iterates, WalkFrom, Body
  <1> DEFINE w == CHOOSE f_1 : Walk(f_1)
  <1>6. Walk(w)
    BY <1>5
  <1>7. LeafFrom(pages, n, r, k) = w[n]
    BY DEF LeafFrom
  <1> HIDE DEF w
  <1>8. w = [d \in 0..n |-> IF d = 0 THEN r ELSE Body(w[d - 1])]
    BY <1>6 DEF WalkFrom, Body
  <1> HIDE DEF Walk
  <1>9. ASSUME NEW d \in 0..n PROVE w[d] = IF d = 0 THEN r ELSE Body(w[d - 1])
    BY <1>8
  <1> DEFINE Bad == {d \in 0..n : w[d] \notin Pids}
  <1>10. ASSUME Bad # {} PROVE FALSE
    <2>1. Bad \in SUBSET Nat
      OBVIOUS
    <2>2. PICK d \in Bad : \A e \in Bad : d <= e
      BY <1>10, <2>1, LeastNumber
    <2>3. d \in 0..n /\ d # 0
      BY <1>1, <1>9, <2>2
    <2>4. d - 1 \in 0..n /\ d - 1 \notin Bad
      BY <1>1, <2>2, <2>3
    <2>5. w[d - 1] \in Pids
      BY <2>4
    <2> QED
      BY <1>2, <1>9, <2>2, <2>3, <2>5
  <1>11. w \in [0..n -> Pids]
    BY <1>8, <1>10
  <1>12. w[0] = r /\ \A d \in 1..n : w[d] = Body(w[d - 1])
    BY <1>1, <1>9
  <1> QED
    BY <1>7, <1>11, <1>12 DEF n, Body

\* The walk of a lookup ends at a page.
LEMMA LeafForType ==
    ASSUME StoreOK, NEW k
    PROVE  LeafFor(k) \in Pids
  <1>1. LeafFor(k) = LeafFrom(pages, num_pages, root_id, k)
    BY LeafForIsLeafFrom
  <1>2. root_id \in Pids /\ num_pages \in 0..num_pages
    BY DEF StoreOK
  <1> QED
    BY <1>1, <1>2, WalkType

\* A search in a leaf answers the value of a record, or nothing.
LEMMA ValueInType ==
    ASSUME NEW P, NEW p \in Page(P), p.type = "PAGE_LEAF", NEW k \in Keys
    PROVE  ValueIn(p, k) \in Vals \cup {NoVal} /\ (HasKey(p, k) => ValueIn(p, k) \in Vals)
  <1>1. p.slots \in Seq(LeafRec)
    BY DEF Page
  <1>2. ASSUME HasKey(p, k) PROVE p.slots[Rank(p.slots, k)] \in LeafRec
    <2>1. Rank(p.slots, k) \in 1..Len(p.slots)
      BY <1>1, <1>2, RankOfKey DEF HasKey
    <2> QED
      BY <1>1, <2>1, ElementOfSeq
  <1> QED
    BY <1>2 DEF ValueIn, LeafRec

\* btree_get would answer a value, or nothing.
LEMMA LookupType ==
    ASSUME StoreOK, NEW k \in Keys
    PROVE  Lookup(k) \in Vals \cup {NoVal}
  <1>1. pages[LeafFor(k)] \in Page(Pids)
    BY LeafForType DEF StoreOK
  <1> QED
    BY <1>1, ValueInType DEF Lookup

-----------------------------------------------------------------------------
(***************************************************************************)
(* The steps that end a call, and the writes of one page.                  *)
(***************************************************************************)
Answers ==
    [status : {"none", "BTREE_OK", "BTREE_NOT_FOUND", "BTREE_IO_ERROR",
               "BTREE_OUT_OF_MEMORY", "BTREE_CORRUPTED"},
     val : Vals \cup {NoVal}]

\* The answers of the calls.
LEMMA AnswersType ==
    /\ NOT_FOUND \in Answers /\ IO_ERROR \in Answers /\ OUT_OF_MEMORY \in Answers
    /\ CORRUPTED \in Answers
    /\ \A v \in Vals \cup {NoVal} : OK(v) \in Answers
  BY DEF NOT_FOUND, IO_ERROR, OUT_OF_MEMORY, CORRUPTED, OK, Answers

\* A step that ends the call, whatever it writes, has only to keep the shape.
LEMMA EndsCall ==
    ASSUME NEW h, TypeOK, Shape(h)', pages' \in [Pids -> Page(Pids)], Pids' = Pids,
           UNCHANGED <<num_pages, call, view, locals>>, root_id' \in Pids,
           faults' \in 0..MaxFaults, NEW r \in Answers, ReturnWith(r)
    PROVE  TypeOK' /\ Tall(h)'
  <1>1. pc' = "return" /\ ret' = r
    BY DEF ReturnWith
  <1>2. UNCHANGED <<path, level, buf, todo, left, ra, new_pid, sep>>
    BY DEF locals
  <1>3. TypeOK'
    BY <1>1, <1>2 DEF TypeOK, Controls, Records, Answers
  <1>4. Walked(h)' /\ Served' /\ Linked'
    BY <1>1
    DEF Walked, Served, Linked, LeafSplitting, ParentSplitting, RootBuilding, Merging
  <1>5. SplitsLeaf(h)' /\ GoesUp(h)' /\ SplitsParent(h)' /\ BuildsRoot(h)' /\ Merges(h)'
    BY <1>1
    DEF SplitsLeaf, GoesUp, SplitsParent, BuildsRoot, Merges, LeafSplitting, ParentSplitting,
        RootBuilding, Merging
  <1> QED
    BY <1>3, <1>4, <1>5 DEF Tall

\* A step that ends the call and writes nothing.
LEMMA EndsCallUnwritten ==
    ASSUME NEW h, TypeOK, Tall(h), Unwritten = {}, UNCHANGED <<store, call, view, locals>>,
           faults' \in 0..MaxFaults, NEW r \in Answers, ReturnWith(r)
    PROVE  TypeOK' /\ Tall(h)'
  <1>1. UNCHANGED <<pages, num_pages, root_id, call, view, locals>> /\ root_id \in Pids
    BY DEF store, TypeOK
  <1>2. Shape(h)' /\ pages' \in [Pids -> Page(Pids)] /\ Pids' = Pids
    BY <1>1, NoWriteKeepsShape DEF Tall
  <1> QED
    BY <1>1, <1>2, EndsCall

\* A failure is counted up to the bound.
LEMMA FailType ==
    ASSUME TypeOK, Fail
    PROVE  faults' \in 0..MaxFaults
  BY BoundsAssumption DEF TypeOK, Fail

\* A page is being built in these steps only.
LEMMA NoneUnwritten ==
    ASSUME pc \notin {"parent_median", "parent_right", "root_left", "root_right", "root_write"}
    PROVE  Unwritten = {}
  BY DEF Unwritten, RootBuilding

\* A callback whose result is tested fails.
LEMMA StepIOError ==
    ASSUME NEW h, TypeOK, Tall(h), IOError
    PROVE  TypeOK' /\ Tall(h)'
  <1>1. Unwritten = {}
    BY NoneUnwritten DEF IOError, CheckedIO
  <1> QED
    BY <1>1, FailType, EndsCallUnwritten, AnswersType DEF IOError

\* At the end of a descent the leaf is a leaf.
LEMMA LeafAtEnd ==
    ASSUME NEW h, TypeOK, Tall(h),
           pc \in {"get", "put", "delete"} \cup LeafSplitting
    PROVE  /\ Last(path) \in Pids /\ h[Last(path)] = 0 /\ Unwritten = {}
           /\ pages[Last(path)] \in Nodes(Pids, h, 0)
           /\ pages[Last(path)] \in Page(Pids) /\ pages[Last(path)].type = "PAGE_LEAF"
  <1>1. pc \notin {"idle", "return", "descend"}
    BY DEF LeafSplitting
  <1>2. Last(path) \in Pids /\ h[Last(path)] = 0
    BY <1>1, PathType DEF Tall, Walked
  <1>3. Unwritten = {}
    BY NoneUnwritten DEF LeafSplitting
  <1>4. pages[Last(path)] \in Nodes(Pids, h, 0) /\ pages[Last(path)] \in Page(Pids)
    BY <1>2, <1>3, NodeAt DEF Tall
  <1> QED
    BY <1>2, <1>3, <1>4, NodeIsPage

\* The call that is served has a key; a put has a value.
LEMMA CallType ==
    ASSUME Served, pc \notin {"idle", "return"}
    PROVE  call \in Ops /\ call.key \in Keys /\ (call.op = "put" => NewRec \in LeafRec)
  BY OpsAssumption DEF Served, NewRec, LeafRec

\* The leaf without the record of the key is a leaf.
LEMMA LeafWithoutKeyType ==
    ASSUME NEW h, TypeOK, Tall(h), pc \in {"put", "delete"}
    PROVE  LeafWithoutKey \in Nodes(Pids, h, 0)
  <1> DEFINE p == pages[Last(path)]
  <1>1. p \in Nodes(Pids, h, 0) /\ call.key \in Keys
    BY LeafAtEnd, CallType DEF Tall
  <1> HIDE DEF p
  <1>2. CASE HasKey(p, call.key)
    <2>1. p.slots \in Seq(Recs(Pids, h, 0))
      BY <1>1, NodeIsPage
    <2>2. Rank(p.slots, call.key) \in 1..Len(p.slots)
      BY <1>1, <1>2, <2>1, RankOfKey DEF HasKey
    <2>3. page_remove_slot(p, Rank(p.slots, call.key)) \in Nodes(Pids, h, 0)
      BY <1>1, <2>2, RemoveSlot
    <2> QED
      BY <1>2, <2>3 DEF LeafWithoutKey, p
  <1>3. CASE ~HasKey(p, call.key)
    BY <1>1, <1>3 DEF LeafWithoutKey, p
  <1> QED
    BY <1>2, <1>3

\* btree_get and a delete of a key that is not there answer.
LEMMA StepAnswer ==
    ASSUME NEW h, TypeOK, Tall(h), GetLeaf \/ DeleteMissing
    PROVE  TypeOK' /\ Tall(h)'
  <1>1. pc \in {"get", "delete"} /\ Unwritten = {} /\ faults' \in 0..MaxFaults
    BY NoneUnwritten DEF GetLeaf, DeleteMissing, TypeOK
  <1>2. UNCHANGED <<store, call, view, locals>>
    BY DEF GetLeaf, DeleteMissing
  <1>3. CASE GetLeaf
    <2> DEFINE p == pages[Last(path)]
               r == IF HasKey(p, call.key) THEN OK(ValueIn(p, call.key)) ELSE NOT_FOUND
    <2>1. p \in Page(Pids) /\ p.type = "PAGE_LEAF" /\ call.key \in Keys
      BY <1>1, LeafAtEnd, CallType DEF Tall
    <2>2. r \in Answers
      BY <2>1, ValueInType, AnswersType
    <2>3. ReturnWith(r)
      BY <1>3 DEF GetLeaf
    <2> HIDE DEF r
    <2> QED
      BY <1>1, <1>2, <2>2, <2>3, EndsCallUnwritten
  <1>4. CASE DeleteMissing
    <2>1. ReturnWith(NOT_FOUND)
      BY <1>4 DEF DeleteMissing
    <2> QED
      BY <1>1, <1>2, <2>1, AnswersType, EndsCallUnwritten
  <1> QED
    BY <1>3, <1>4

\* The new record fits in the leaf.
LEMMA StepPutInPlace ==
    ASSUME NEW h, TypeOK, Tall(h), PutInPlace
    PROVE  TypeOK' /\ Tall(h)'
  <1> DEFINE p == page_insert_slot(LeafWithoutKey,
                                   Rank(LeafWithoutKey.slots, call.key) + 1, NewRec)
  <1>1. /\ pc = "put" /\ WritePage(Last(path), p) /\ ReturnWith(OK(NoVal))
        /\ UNCHANGED <<num_pages, root_id, call, view, locals, faults>>
    BY DEF PutInPlace
  <1>2. LeafWithoutKey \in Nodes(Pids, h, 0)
    BY <1>1, LeafWithoutKeyType
  <1>3. NewRec \in Recs(Pids, h, 0)
    BY <1>1, CallType DEF Recs, Tall, Served
  <1>4. p \in Nodes(Pids, h, 0)
    BY <1>2, <1>3, InsertSlot
  <1> HIDE DEF p
  <1>5. Last(path) \in Pids /\ h[Last(path)] = 0 /\ Unwritten = {}
    BY <1>1, LeafAtEnd
  <1>6. Shape(h)' /\ pages' \in [Pids -> Page(Pids)] /\ Pids' = Pids
    BY <1>1, <1>4, <1>5, WriteKeepsShape DEF Tall
  <1>7. root_id' \in Pids /\ faults' \in 0..MaxFaults
    BY <1>1 DEF TypeOK
  <1> QED
    BY <1>1, <1>6, <1>7, AnswersType, EndsCall

\* The call returns: everything is readable as before.
LEMMA StepReturn ==
    ASSUME NEW h, TypeOK, Tall(h), Return
    PROVE  TypeOK' /\ Tall(h)'
  <1>1. /\ pc = "return" /\ call' = NoCall /\ view' = [k \in Keys |-> Lookup(k)]
        /\ pc' = "idle" /\ UNCHANGED <<pages, num_pages, root_id, ret, faults>>
        /\ path' = << >> /\ level' = 0 /\ buf' = EmptyPage /\ todo' = << >>
        /\ left' = EmptyPage /\ ra' = << >> /\ new_pid' = INVALID_PAGE_ID /\ sep' = NoSep
    BY DEF Return, ResetLocals, store
  <1>2. Shape(h)' /\ pages' \in [Pids -> Page(Pids)] /\ Pids' = Pids
    BY <1>1, NoneUnwritten, NoWriteKeepsShape DEF Tall
  <1>3. EmptyPage \in Page(Pids) /\ INVALID_PAGE_ID \in Pids
    BY PidsType DEF EmptyPage, page_init, Page, INVALID_PAGE_ID
  <1>4. view' \in [Keys -> Vals \cup {NoVal}]
    BY <1>1, LookupType DEF StoreOK, TypeOK
  <1>5. TypeOK'
    BY <1>1, <1>2, <1>3, <1>4 DEF TypeOK, Controls
  <1>6. Walked(h)' /\ Served' /\ Linked'
    BY <1>1
    DEF Walked, Served, Linked, LeafSplitting, ParentSplitting, RootBuilding, Merging
  <1>7. SplitsLeaf(h)' /\ GoesUp(h)' /\ SplitsParent(h)' /\ BuildsRoot(h)' /\ Merges(h)'
    BY <1>1
    DEF SplitsLeaf, GoesUp, SplitsParent, BuildsRoot, Merges, LeafSplitting, ParentSplitting,
        RootBuilding, Merging
  <1> QED
    BY <1>2, <1>5, <1>6, <1>7 DEF Tall

-----------------------------------------------------------------------------
(***************************************************************************)
(* The steps of a put that splits a leaf.                                  *)
(***************************************************************************)

\* Every phase of a call has an invariant of its own; the others say nothing about it.
LEMMA OtherPhases ==
    ASSUME NEW h
    PROVE  /\ pc' \in LeafSplitting =>
                  Linked' /\ GoesUp(h)' /\ SplitsParent(h)' /\ BuildsRoot(h)' /\ Merges(h)'
           /\ pc' = "propagate" =>
                  Linked' /\ SplitsLeaf(h)' /\ SplitsParent(h)' /\ BuildsRoot(h)' /\ Merges(h)'
           /\ pc' \in ParentSplitting =>
                  Linked' /\ SplitsLeaf(h)' /\ GoesUp(h)' /\ BuildsRoot(h)' /\ Merges(h)'
           /\ pc' \in RootBuilding =>
                  Linked' /\ SplitsLeaf(h)' /\ GoesUp(h)' /\ SplitsParent(h)' /\ Merges(h)'
           /\ pc' \in {"rebalance", "shrink_write"} \cup Merging =>
                  SplitsLeaf(h)' /\ GoesUp(h)' /\ SplitsParent(h)' /\ BuildsRoot(h)'
           /\ pc' \in {"rebalance", "shrink_write"} => Merges(h)'
           /\ pc' = "shrink_write" => Linked'
  BY DEF Linked, SplitsLeaf, GoesUp, SplitsParent, BuildsRoot, Merges,
         LeafSplitting, ParentSplitting, RootBuilding, Merging

\* The path keeps its heights, also when there are more pages.
LEMMA StillWalked ==
    ASSUME NEW h, NEW g, TypeOK, Shape(h), Walked(h), \A pid \in Pids : g[pid] = h[pid],
           pc \notin {"idle", "return", "descend", "shrink_write"}, path' = path,
           root_id' = root_id \/ pc' = "shrink_write"
    PROVE  Walked(g)'
  <1>1. /\ Len(path) \in Nat \ {0} /\ \A i \in 1..Len(path) : path[i] \in Pids
        /\ Last(path) \in Pids
    BY PathType
  <1>2. \A i \in 1..(Len(path) - 1) : path[i] \in Pids /\ path[i + 1] \in Pids
    BY <1>1
  <1>3. \A i \in 1..(Len(path) - 1) : g[path[i]] = g[path[i + 1]] + 1
    BY <1>2 DEF Walked
  <1>4. path # << >> /\ g[Last(path)] = 0 /\ path[1] = root_id
    BY <1>1 DEF Walked
  <1> QED
    BY <1>3, <1>4 DEF Walked, Last

\* The call goes on.
LEMMA StillServed ==
    ASSUME Served, pc \notin {"idle", "return"}, call' = call, pc' \notin {"get", "delete"},
           call.op = "put"
             \/ pc' \notin {"put", "propagate"} \cup LeafSplitting \cup ParentSplitting
                             \cup RootBuilding
    PROVE  Served'
  BY DEF Served

\* A put works on its own call.
LEMMA OfPut ==
    ASSUME NEW h, Tall(h),
           pc \in {"put", "propagate"} \cup LeafSplitting \cup ParentSplitting \cup RootBuilding
    PROVE  call.op = "put" /\ Served /\ pc \notin {"idle", "return", "descend", "shrink_write"}
  BY DEF Tall, Served, LeafSplitting, ParentSplitting, RootBuilding

\* The records of a page and a new one.
LEMMA MergeSortedType ==
    ASSUME NEW S, NEW s \in Seq(S), NEW r \in S
    PROVE  MergeSorted(s, r) \in Seq(S) /\ Len(MergeSorted(s, r)) = Len(s) + 1
  <1>1. Len(s) \in Nat
    BY LenProperties
  <1>2. Rank(s, r.key) \in 0..Len(s)
    BY RankType
  <1>3. Rank(s, r.key) + 1 \in 1..(Len(s) + 1)
    BY <1>1, <1>2
  <1> QED
    BY <1>3, InsertAtType DEF MergeSorted

\* The two halves of a split; the right one is not empty.
LEMMA HalvesType ==
    ASSUME NEW S, NEW s \in Seq(S), Len(s) # 0
    PROVE  /\ SubSeq(s, 1, Len(s) \div 2) \in Seq(S)
           /\ SubSeq(s, Len(s) \div 2 + 1, Len(s)) \in Seq(S) \ {<< >>}
  <1> DEFINE m == Len(s) \div 2
  <1>1. Len(s) \in Nat \ {0}
    BY LenProperties
  <1>2. m \in Nat /\ m < Len(s)
    BY <1>1
  <1> HIDE DEF m
  <1>3. SubSeq(s, 1, m) \in Seq(S)
    BY <1>1, <1>2, SubSeqType
  <1>4. SubSeq(s, m + 1, Len(s)) \in Seq(S) /\ Len(SubSeq(s, m + 1, Len(s))) = Len(s) - m
    BY <1>1, <1>2, SubSeqType
  <1>5. SubSeq(s, m + 1, Len(s)) # << >>
    <2> DEFINE c == SubSeq(s, m + 1, Len(s))
    <2>1. Len(s) - m # 0
      BY <1>1, <1>2
    <2>2. Len(c) # 0
      BY <1>4, <2>1
    <2> HIDE DEF c
    <2>3. c # << >>
      BY <2>2, EmptySeq
    <2> QED
      BY <2>3 DEF c
  <1> QED
    BY <1>3, <1>4, <1>5 DEF m

\* A put that does not fail collects every record.
LEMMA CollectsAll ==
    ASSUME TypeOK, NoPutFailed', call.op = "put", NEW s, NEW r, NEW all,
           Collect(s, r, all)
    PROVE  all = MergeSorted(s, r) /\ faults' = faults
  BY DEF Collect, Fail, NoPutFailed, TypeOK

\* Records of one height are records.
LEMMA SeqOfRecs ==
    ASSUME NEW P, NEW h, NEW n
    PROVE  /\ Seq(Recs(P, h, n)) \subseteq Seq(LeafRec \cup InternalRec(P))
           /\ Recs(P, h, 0) = LeafRec
  BY RecIsRecord, SeqMonotonic DEF Recs

\* What page_init writes.
LEMMA LeafInit ==
    ASSUME NEW P, 0 \in P, NEW h, NEW a \in P, NEW b \in P, NEW c \in P
    PROVE  /\ page_init("PAGE_LEAF") \in Nodes(P, h, 0)
           /\ [EmptyPage EXCEPT !.parent_id = a, !.prev_id = b, !.next_id = c]
                  \in Nodes(P, h, 0)
  <1>1. << >> \in Seq(Recs(P, h, 0))
    BY EmptySeq
  <1> QED
    BY <1>1 DEF EmptyPage, page_init, INVALID_PAGE_ID, Nodes

\* An internal node without a slot.
LEMMA InternalInit ==
    ASSUME NEW P, 0 \in P, NEW h, NEW n \in Nat, n # 0, NEW a \in P, NEW c \in P, h[c] = n - 1
    PROVE  /\ [page_init("PAGE_INTERNAL") EXCEPT !.first_child_id = c] \in Nodes(P, h, n)
           /\ [page_init("PAGE_INTERNAL") EXCEPT !.parent_id = a, !.first_child_id = c]
                  \in Nodes(P, h, n)
  <1>1. << >> \in Seq(Recs(P, h, n))
    BY EmptySeq
  <1> QED
    BY <1>1 DEF page_init, INVALID_PAGE_ID, Nodes

\* The leaf is divided into two halves.
LEMMA StepPutSplit ==
    ASSUME NEW h, NoPutFailed', TypeOK, Tall(h), PutSplit
    PROVE  TypeOK' /\ Tall(h)'
  <1> DEFINE s == LeafWithoutKey.slots
             leaf == pages[Last(path)]
  <1>1. /\ pc = "put" /\ pc' = "split_alloc"
        /\ UNCHANGED <<pages, num_pages, root_id, call, ret, view, path, level, left>>
        /\ UNCHANGED <<new_pid, sep>>
    BY DEF PutSplit, store
  <1>2. /\ call.op = "put" /\ Served /\ Unwritten = {} /\ NewRec \in LeafRec
        /\ Last(path) \in Pids /\ leaf \in Page(Pids) /\ LeafWithoutKey \in Nodes(Pids, h, 0)
    BY <1>1, OfPut, LeafAtEnd, CallType, LeafWithoutKeyType
  <1>3. s \in Seq(LeafRec)
    BY <1>2, NodeIsPage, SeqOfRecs
  <1>4. PICK all :
            /\ Collect(s, NewRec, all)
            /\ buf' = [EmptyPage EXCEPT !.parent_id = leaf.parent_id,
                                        !.prev_id = leaf.prev_id,
                                        !.next_id = Last(path)]
            /\ todo' = SubSeq(all, 1, Len(all) \div 2)
            /\ ra' = SubSeq(all, Len(all) \div 2 + 1, Len(all))
    BY DEF PutSplit
  <1>5. all = MergeSorted(s, NewRec) /\ faults' = faults
    BY <1>2, <1>4, CollectsAll
  <1>6. all \in Seq(LeafRec) /\ Len(all) = Len(s) + 1 /\ Len(s) \in Nat
    BY <1>2, <1>3, <1>5, MergeSortedType, LenProperties
  <1>7. todo' \in Seq(LeafRec) /\ ra' \in Seq(LeafRec) \ {<< >>}
    <2>1. Len(all) # 0
      BY <1>6
    <2>2. SubSeq(all, 1, Len(all) \div 2) \in Seq(LeafRec)
      BY <1>6, <2>1, HalvesType
    <2>3. SubSeq(all, Len(all) \div 2 + 1, Len(all)) \in Seq(LeafRec) \ {<< >>}
      BY <1>6, <2>1, HalvesType
    <2> QED
      BY <1>4, <2>2, <2>3
  <1>8. buf' \in Nodes(Pids, h, 0)
    <2>1. leaf.parent_id \in Pids /\ leaf.prev_id \in Pids /\ 0 \in Pids
      BY <1>2, PidsType DEF Page
    <2> QED
      BY <1>2, <1>4, <2>1, LeafInit
  <1>9. Shape(h)' /\ pages' \in [Pids -> Page(Pids)] /\ Pids' = Pids
    BY <1>1, <1>2, NoWriteKeepsShape DEF Tall
  <1>10. TypeOK'
    <2>1. buf' \in Page(Pids) /\ todo' \in Seq(Records) /\ ra' \in Seq(Records)
      BY <1>7, <1>8, NodeIsPage, SeqMonotonic DEF Records
    <2> QED
      BY <1>1, <1>5, <1>9, <2>1 DEF TypeOK, Controls, Records
  <1>11. Walked(h)' /\ Served'
    BY <1>1, <1>2, StillWalked, StillServed DEF Tall
  <1>12. SplitsLeaf(h)'
    BY <1>1, <1>7, <1>8, <1>9 DEF SplitsLeaf, LeafSplitting
  <1> QED
    BY <1>1, <1>9, <1>10, <1>11, <1>12, OtherPhases DEF Tall, LeafSplitting

\* One more record in the page that is filled.
LEMMA StepPlaceRecord ==
    ASSUME NEW h, TypeOK, Tall(h), PlaceRecord
    PROVE  TypeOK' /\ (pc' # "undefined" => Tall(h)')
  <1> DEFINE n == IF pc \in LeafSplitting THEN 0 ELSE h[path[level]]
  <1>1. /\ pc \in Filling /\ todo # << >> /\ pc' \in {pc, "undefined"}
        /\ buf' = page_alloc_slot(buf, Head(todo)) /\ todo' = Tail(todo)
        /\ UNCHANGED <<pages, num_pages, root_id, call, ret, view, path, level, left, ra>>
        /\ UNCHANGED <<new_pid, sep, faults>>
    BY DEF PlaceRecord, store
  <1>2. buf \in Nodes(Pids, h, n) /\ todo \in Seq(Recs(Pids, h, n))
    BY <1>1, SeqOfRecs
    DEF Filling, Tall, SplitsLeaf, SplitsParent, Merges, LeafSplitting, ParentSplitting, Merging
  <1>3. buf' \in Nodes(Pids, h, n) /\ todo' \in Seq(Recs(Pids, h, n))
    <2> HIDE DEF n
    <2> QED
      BY <1>1, <1>2, TailAppendType, AllocSlot
  <1>4. Unwritten = {}
    BY <1>1, NoneUnwritten DEF Filling
  <1>5. Shape(h)' /\ pages' \in [Pids -> Page(Pids)] /\ Pids' = Pids
    BY <1>1, <1>4, NoWriteKeepsShape DEF Tall
  <1>6. TypeOK'
    <2>1. buf' \in Page(Pids) /\ todo' \in Seq(Records)
      <3> HIDE DEF n
      <3> QED
        BY <1>3, NodeIsPage, SeqOfRecs DEF Records
    <2>2. pc' \in Controls
      BY <1>1 DEF Filling, Controls
    <2> QED
      BY <1>1, <1>5, <2>1, <2>2 DEF TypeOK, Records
  <1>7. ASSUME pc' = pc PROVE Tall(h)'
    <2>1. Walked(h)' /\ Served' /\ Linked'
      BY <1>1, <1>7 DEF Tall, Walked, Served, Linked
    <2>2. SplitsLeaf(h)'
      BY <1>1, <1>3, <1>5, <1>7, SeqOfRecs DEF Tall, SplitsLeaf
    <2>3. SplitsParent(h)'
      BY <1>1, <1>3, <1>5, <1>7 DEF Tall, SplitsParent, ParentSplitting, LeafSplitting
    <2>4. Merges(h)'
      BY <1>1, <1>3, <1>5, <1>7
      DEF Tall, Merges, HasSibling, Parent, Merging, LeafSplitting
    <2>5. GoesUp(h)' /\ BuildsRoot(h)'
      BY <1>1, <1>7 DEF Filling, GoesUp, BuildsRoot, RootBuilding
    <2> QED
      BY <1>5, <2>1, <2>2, <2>3, <2>4, <2>5 DEF Tall
  <1> QED
    BY <1>1, <1>6, <1>7

\* A page of height n has been allocated; g is the height of the pages then.
Grown(h, g, n) ==
    /\ Shape(g)' /\ Pids' = 0..num_pages /\ pages' \in [Pids' -> Page(Pids')]
    /\ Pids \subseteq Pids' /\ num_pages \in Pids' /\ 0 \in Pids'
    /\ num_pages' \in Nat \ {0} /\ new_pid' = num_pages
    /\ g[num_pages] = n /\ \A pid \in Pids : g[pid] = h[pid]
    /\ \A m : Nodes(Pids, h, m) \subseteq Nodes(Pids', g, m)
              /\ Recs(Pids, h, m) \subseteq Recs(Pids', g, m)

\* A page is allocated.
LEMMA AllocKeepsShape ==
    ASSUME NEW h, TypeOK, Shape(h), Unwritten = {}, NEW type, AllocPage(type), NEW n \in Nat,
           NEW g, g = [p \in 0..num_pages |-> IF p = num_pages THEN n ELSE h[p]],
           type \in {"PAGE_LEAF", "PAGE_INTERNAL"},
           num_pages \in Unwritten' \/ (type = "PAGE_LEAF" /\ n = 0)
    PROVE  Grown(h, g, n)
  <1>1. /\ new_pid' = num_pages /\ num_pages' = num_pages + 1 /\ num_pages \in Nat \ {0}
        /\ pages' = [pid \in 0..num_pages |->
                        IF pid = num_pages THEN page_init(type) ELSE pages[pid]]
        /\ pages \in [Pids -> Page(Pids)] /\ h \in [Pids -> Nat]
    BY DEF AllocPage, TypeOK, Shape
  <1>2. Pids' = 0..num_pages
    BY <1>1 DEF Pids
  <1>3. Pids \subseteq Pids' /\ num_pages \in Pids' /\ 0 \in Pids' /\ Pids' = Pids \cup {num_pages}
        /\ num_pages \notin Pids
    BY <1>1, <1>2 DEF Pids
  <1>4. g \in [Pids' -> Nat] /\ g[num_pages] = n /\ \A pid \in Pids : g[pid] = h[pid]
    BY <1>1, <1>2, <1>3
  <1>5. ASSUME NEW m
        PROVE  /\ Nodes(Pids, h, m) \subseteq Nodes(Pids', g, m)
               /\ Recs(Pids, h, m) \subseteq Recs(Pids', g, m)
    BY <1>1, <1>3, <1>4, MorePages
  <1>6. page_init(type) \in Page(Pids')
    <2>1. << >> \in Seq(LeafRec) /\ << >> \in Seq(InternalRec(Pids'))
      BY EmptySeq
    <2> QED
      BY <1>3, <2>1 DEF page_init, INVALID_PAGE_ID, Page
  <1>7. ASSUME NEW pid \in Pids PROVE pages'[pid] = pages[pid] /\ pages[pid] \in Page(Pids')
    <2>1. pages'[pid] = pages[pid] /\ pages[pid] \in Page(Pids)
      BY <1>1, <1>2, <1>3, <1>7
    <2> QED
      BY <1>3, <2>1, MoreIds
  <1>8. pages'[num_pages] = page_init(type) /\ DOMAIN pages' = Pids'
    BY <1>1, <1>2, <1>3
  <1>9. pages' \in [Pids' -> Page(Pids')]
    <2>1. \A pid \in Pids' : pages'[pid] \in Page(Pids')
      BY <1>3, <1>6, <1>7, <1>8
    <2>2. pages' = [pid \in Pids' |-> pages'[pid]]
      BY <1>1, <1>2
    <2> QED
      BY <2>1, <2>2
  <1>10. ASSUME NEW pid \in Pids', pid \notin Unwritten'
         PROVE  pages'[pid] \in Nodes(Pids', g, g[pid])
    <2>1. CASE pid = num_pages
      <3>1. type = "PAGE_LEAF" /\ n = 0
        BY <1>10, <2>1
      <3>2. page_init("PAGE_LEAF") \in Nodes(Pids', g, 0)
        BY <1>3, LeafInit
      <3> QED
        BY <1>4, <1>8, <2>1, <3>1, <3>2
    <2>2. CASE pid # num_pages
      <3>1. pid \in Pids
        BY <1>3, <2>2
      <3>2. pages[pid] \in Nodes(Pids, h, h[pid])
        BY <3>1 DEF Shape
      <3> QED
        BY <1>4, <1>5, <1>7, <3>1, <3>2
    <2> QED
      BY <2>1, <2>2
  <1>11. Shape(g)'
    <2>1. 0 \in Pids /\ h[0] = 0
      BY PidsType DEF Shape
    <2> QED
      BY <1>4, <1>10, <2>1 DEF Shape
  <1>12. num_pages' \in Nat \ {0} /\ new_pid' = num_pages
    BY <1>1
  <1> QED
    BY <1>2, <1>3, <1>4, <1>5, <1>9, <1>11, <1>12 DEF Grown

\* The page for the right half of a leaf is allocated.
LEMMA StepSplitAlloc ==
    ASSUME NEW h, TypeOK, Tall(h), SplitAlloc
    PROVE  \E g : TypeOK' /\ Tall(g)'
  <1>1. /\ pc = "split_alloc" /\ todo = << >> /\ AllocPage("PAGE_LEAF")
        /\ left' = [buf EXCEPT !.next_id = num_pages]
        /\ buf' = [EmptyPage EXCEPT !.parent_id = buf.parent_id,
                                    !.prev_id = Last(path),
                                    !.next_id = pages[Last(path)].next_id]
        /\ todo' = ra
        /\ sep' = [key |-> Head(ra).key, child |-> num_pages]
        /\ level' = Len(path) - 1
        /\ pc' = "split_left"
        /\ UNCHANGED <<root_id, call, ret, view, path, ra, faults>>
    BY DEF SplitAlloc
  <1>2. /\ Last(path) \in Pids /\ h[Last(path)] = 0 /\ Unwritten = {}
        /\ pages[Last(path)] \in Page(Pids)
    BY <1>1, LeafAtEnd DEF LeafSplitting
  <1>3. call.op = "put" /\ Served
    BY <1>1, OfPut DEF LeafSplitting
  <1>4. buf \in Nodes(Pids, h, 0) /\ ra \in Seq(LeafRec) /\ ra # << >>
    BY <1>1 DEF Tall, SplitsLeaf, LeafSplitting
  <1>5. PICK g : g = [p \in 0..num_pages |-> IF p = num_pages THEN 0 ELSE h[p]]
    OBVIOUS
  <1>6. /\ Shape(g)' /\ Pids' = 0..num_pages /\ pages' \in [Pids' -> Page(Pids')]
        /\ Pids \subseteq Pids' /\ num_pages \in Pids' /\ 0 \in Pids'
        /\ num_pages' \in Nat \ {0} /\ new_pid' = num_pages
        /\ g[num_pages] = 0 /\ \A pid \in Pids : g[pid] = h[pid]
        /\ \A m : Nodes(Pids, h, m) \subseteq Nodes(Pids', g, m)
                  /\ Recs(Pids, h, m) \subseteq Recs(Pids', g, m)
    <2>1. Shape(h) /\ "PAGE_LEAF" \in {"PAGE_LEAF", "PAGE_INTERNAL"} /\ 0 \in Nat
      BY DEF Tall
    <2>2. Grown(h, g, 0)
      BY <1>1, <1>2, <1>5, <2>1, AllocKeepsShape
    <2> QED
      BY <2>2 DEF Grown
  <1>7. left' \in Nodes(Pids', g, 0)
    BY <1>1, <1>4, <1>6, SetLinks
  <1>8. buf' \in Nodes(Pids', g, 0)
    <2>1. /\ buf.parent_id \in Pids' /\ Last(path) \in Pids'
          /\ pages[Last(path)].next_id \in Pids'
      BY <1>2, <1>4, <1>6, NodeIsPage DEF Page
    <2> QED
      BY <1>1, <1>6, <2>1, LeafInit
  <1>9. Head(ra) \in LeafRec
    BY <1>4, TailAppendType
  <1>10. sep' \in InternalRec(Pids') /\ sep'.child = num_pages
    BY <1>1, <1>6, <1>9 DEF LeafRec, InternalRec
  <1>11. /\ Len(path) \in Nat \ {0} /\ path \in Seq(Pids)
    BY <1>1, PathType DEF Tall, TypeOK
  <1>12. TypeOK'
    <2>1. buf' \in Page(Pids') /\ left' \in Page(Pids')
      BY <1>7, <1>8, NodeIsPage
    <2>2. path' \in Seq(Pids')
      BY <1>1, <1>6, <1>11, SeqMonotonic
    <2>3. todo' \in Seq(Records') /\ ra' \in Seq(Records')
      BY <1>1, <1>4, SeqMonotonic DEF Records
    <2>4. /\ root_id' \in Pids' /\ call' \in Ops \cup {NoCall} /\ ret' = ret /\ view' = view
          /\ pc' \in Controls /\ level' \in Nat /\ faults' \in 0..MaxFaults
      BY <1>1, <1>6, <1>11 DEF TypeOK, Controls
    <2> QED
      BY <1>6, <1>10, <2>1, <2>2, <2>3, <2>4 DEF TypeOK
  <1>13. Walked(g)' /\ Served'
    <2>1. pc \notin {"idle", "return", "descend", "shrink_write"} /\ root_id' = root_id
      BY <1>1
    <2>2. Walked(g)'
      BY <1>1, <1>6, <2>1, StillWalked DEF Tall
    <2> QED
      BY <1>1, <1>3, <2>1, <2>2, StillServed
  <1>14. SplitsLeaf(g)'
    BY <1>1, <1>4, <1>6, <1>7, <1>8, <1>10 DEF SplitsLeaf, LeafSplitting
  <1>15. pc' \in LeafSplitting
    BY <1>1 DEF LeafSplitting
  <1> QED
    BY <1>6, <1>12, <1>13, <1>14, <1>15, OtherPhases DEF Tall

\* The writes of a leaf split: the halves, then the links of the neighbours.
LEMMA LeafSplitGoesOn ==
    ASSUME NEW h, TypeOK, Tall(h), pc \in LeafSplitting \ {"split_alloc"},
           pc' \in (LeafSplitting \ {"split_alloc"}) \cup {"propagate"},
           Shape(h)', pages' \in [Pids -> Page(Pids)], Pids' = Pids,
           UNCHANGED <<num_pages, root_id, call, ret, view, locals, faults>>
    PROVE  TypeOK' /\ Tall(h)'
  <1>1. UNCHANGED <<path, level, buf, todo, left, ra, new_pid, sep>>
    BY DEF locals
  <1>2. TypeOK'
    BY <1>1 DEF TypeOK, Controls, Records, LeafSplitting
  <1>3. pc \notin {"idle", "return", "descend", "shrink_write"} /\ call.op = "put" /\ Served
    BY OfPut
  <1>4. Walked(h)'
    BY <1>1, <1>3, StillWalked DEF Tall
  <1>5. Served'
    BY <1>3, StillServed DEF LeafSplitting
  <1>6. CASE pc' \in LeafSplitting \ {"split_alloc"}
    <2>1. SplitsLeaf(h)'
      BY <1>1, <1>6 DEF Tall, SplitsLeaf
    <2> QED
      BY <1>2, <1>4, <1>5, <1>6, <2>1, OtherPhases DEF Tall
  <1>7. CASE pc' = "propagate"
    <2>1. /\ Len(path) \in Nat \ {0} /\ h[path[Len(path)]] = 0
      BY <1>3, PathType DEF Tall, Walked
    <2>2. level = Len(path) - 1 /\ sep \in InternalRec(Pids) /\ h[sep.child] = 0
      BY DEF Tall, SplitsLeaf
    <2>3. level \in 0..(Len(path) - 1) /\ level + 1 = Len(path)
      BY <2>1, <2>2
    <2>4. GoesUp(h)'
      BY <1>1, <2>1, <2>2, <2>3 DEF GoesUp
    <2> QED
      BY <1>2, <1>4, <1>5, <1>7, <2>4, OtherPhases DEF Tall
  <1> QED
    BY <1>6, <1>7

\* The left half goes to the page of the leaf, the right half to the new page.
LEMMA StepSplitWrite ==
    ASSUME NEW h, NoPutFailed', TypeOK, Tall(h), SplitWriteLeft \/ SplitWriteRight
    PROVE  TypeOK' /\ Tall(h)'
  <1> DEFINE pid == IF SplitWriteLeft THEN Last(path) ELSE new_pid
             p == IF SplitWriteLeft THEN left ELSE buf
  <1>1. /\ pc \in {"split_left", "split_right"} /\ pc' \in {"split_right", "split_next"}
        /\ WriteUnchecked(pid, p)
        /\ UNCHANGED <<num_pages, root_id, call, ret, view, locals>>
    BY DEF SplitWriteLeft, SplitWriteRight
  <1>2. /\ call.op = "put" /\ Last(path) \in Pids /\ h[Last(path)] = 0 /\ Unwritten = {}
    BY <1>1, OfPut, LeafAtEnd DEF LeafSplitting
  <1>3. /\ left \in Nodes(Pids, h, 0) /\ buf \in Nodes(Pids, h, 0)
        /\ new_pid \in Pids /\ h[new_pid] = 0
    BY <1>1 DEF Tall, TypeOK, SplitsLeaf, LeafSplitting
  <1>4. pid \in Pids /\ p \in Nodes(Pids, h, h[pid])
    BY <1>2, <1>3
  <1> HIDE DEF pid, p
  <1>5. WritePage(pid, p) /\ faults' = faults
    BY <1>1, <1>2, PutWrites
  <1>6. Shape(h)' /\ pages' \in [Pids -> Page(Pids)] /\ Pids' = Pids
    BY <1>1, <1>2, <1>4, <1>5, WriteKeepsShape DEF Tall
  <1> QED
    BY <1>1, <1>5, <1>6, LeafSplitGoesOn DEF LeafSplitting

\* The neighbours of a split leaf are told.
LEMMA StepSplitFix ==
    ASSUME NEW h, NoPutFailed', TypeOK, Tall(h), SplitFixNext \/ SplitFixPrev
    PROVE  TypeOK' /\ Tall(h)'
  <1>1. /\ pc \in {"split_next", "split_prev"} /\ pc' \in {"split_prev", "propagate"}
        /\ UNCHANGED <<num_pages, root_id, call, ret, view, locals>>
    BY DEF SplitFixNext, SplitFixPrev
  <1>2. /\ call.op = "put" /\ Last(path) \in Pids /\ Unwritten = {}
    BY <1>1, OfPut, LeafAtEnd DEF LeafSplitting
  <1>3. /\ left \in Nodes(Pids, h, 0) /\ buf \in Nodes(Pids, h, 0) /\ new_pid \in Pids
    BY <1>1 DEF Tall, TypeOK, SplitsLeaf, LeafSplitting
  <1>4. left.prev_id \in Pids /\ buf.next_id \in Pids
    BY <1>3, NodeIsPage
  <1>5. CASE UNCHANGED <<pages, faults>>
    <2>1. Shape(h)' /\ pages' \in [Pids -> Page(Pids)] /\ Pids' = Pids
      BY <1>1, <1>2, <1>5, NoWriteKeepsShape DEF Tall
    <2> QED
      BY <1>1, <1>5, <2>1, LeafSplitGoesOn DEF LeafSplitting
  <1>6. CASE WriteUnchecked(buf.next_id, [pages[buf.next_id] EXCEPT !.prev_id = new_pid])
    <2>1. WritePage(buf.next_id, [pages[buf.next_id] EXCEPT !.prev_id = new_pid])
          /\ faults' = faults
      BY <1>2, <1>6, PutWrites
    <2>2. Shape(h)' /\ pages' \in [Pids -> Page(Pids)] /\ Pids' = Pids
      BY <1>1, <1>2, <1>3, <1>4, <2>1, SetParentKeepsShape DEF Tall
    <2> QED
      BY <1>1, <2>1, <2>2, LeafSplitGoesOn DEF LeafSplitting
  <1>7. CASE WriteUnchecked(left.prev_id, [pages[left.prev_id] EXCEPT !.next_id = Last(path)])
    <2>1. WritePage(left.prev_id, [pages[left.prev_id] EXCEPT !.next_id = Last(path)])
          /\ faults' = faults
      BY <1>2, <1>7, PutWrites
    <2>2. Shape(h)' /\ pages' \in [Pids -> Page(Pids)] /\ Pids' = Pids
      BY <1>1, <1>2, <1>4, <2>1, SetParentKeepsShape DEF Tall
    <2> QED
      BY <1>1, <2>1, <2>2, LeafSplitGoesOn DEF LeafSplitting
  <1> QED
    BY <1>5, <1>6, <1>7 DEF SplitFixNext, SplitFixPrev

\* These are failures in a put.
LEMMA PutNeverFails ==
    ASSUME NEW h, NoPutFailed', TypeOK, Tall(h), GarbageRead \/ OutOfMemory \/ CollectFailed
    PROVE  FALSE
  <1>1. Fail
    BY DEF GarbageRead, OutOfMemory, CollectFailed
  <1>2. pc \in {"put", "propagate"} \cup LeafSplitting
    BY DEF GarbageRead, OutOfMemory, CollectFailed, SplitCases, LeafSplitting
  <1>3. call.op = "put"
    BY <1>2, OfPut
  <1> QED
    BY <1>1, <1>3 DEF Fail, NoPutFailed, TypeOK

-----------------------------------------------------------------------------
(***************************************************************************)
(* The steps of a put that go up.                                          *)
(***************************************************************************)

\* The separator fits the height of the parent it goes into.
LEMMA SepFits ==
    ASSUME NEW h, TypeOK, Tall(h), pc = "propagate", level > 0
    PROVE  /\ path[level] \in Pids /\ level \in 1..(Len(path) - 1) /\ Unwritten = {}
           /\ h[path[level]] \in Nat \ {0}
           /\ pages[path[level]] \in Nodes(Pids, h, h[path[level]])
           /\ sep \in Recs(Pids, h, h[path[level]])
  <1>1. /\ level \in 0..(Len(path) - 1) /\ sep \in InternalRec(Pids)
        /\ h[sep.child] = h[path[level + 1]]
    BY DEF Tall, GoesUp
  <1>2. /\ Len(path) \in Nat \ {0} /\ \A i \in 1..Len(path) : path[i] \in Pids
    BY PathType DEF Tall
  <1>3. level \in 1..(Len(path) - 1) /\ level + 1 \in 1..Len(path) /\ level \in 1..Len(path)
    BY <1>1, <1>2
  <1>4. h[path[level]] = h[path[level + 1]] + 1
    BY <1>3 DEF Tall, Walked
  <1>5. path[level] \in Pids /\ path[level + 1] \in Pids
    BY <1>2, <1>3
  <1>6. h[path[level]] \in Nat /\ h[path[level + 1]] \in Nat
    BY <1>5 DEF Tall, Shape
  <1>7. h[path[level]] \in Nat \ {0} /\ h[sep.child] = h[path[level]] - 1
    BY <1>1, <1>4, <1>6
  <1>8. Unwritten = {}
    BY NoneUnwritten
  <1>9. pages[path[level]] \in Nodes(Pids, h, h[path[level]])
    BY <1>5, <1>8, NodeAt DEF Tall
  <1> QED
    BY <1>1, <1>3, <1>5, <1>7, <1>8, <1>9 DEF Recs

\* The parent has room for the separator.
LEMMA StepParentInsert ==
    ASSUME NEW h, TypeOK, Tall(h), ParentInsert
    PROVE  TypeOK' /\ Tall(h)'
  <1> DEFINE parent == pages[path[level]]
             p == page_insert_slot(parent, Rank(parent.slots, sep.key) + 1, sep)
  <1>1. /\ pc = "propagate" /\ level > 0 /\ WritePage(path[level], p) /\ ReturnWith(OK(NoVal))
        /\ UNCHANGED <<num_pages, root_id, call, view, locals, faults>>
    BY DEF ParentInsert
  <1>2. /\ path[level] \in Pids /\ Unwritten = {}
        /\ parent \in Nodes(Pids, h, h[path[level]])
        /\ sep \in Recs(Pids, h, h[path[level]])
    BY <1>1, SepFits
  <1>3. p \in Nodes(Pids, h, h[path[level]])
    BY <1>2, InsertSlot
  <1> HIDE DEF p
  <1>4. Shape(h)' /\ pages' \in [Pids -> Page(Pids)] /\ Pids' = Pids
    BY <1>1, <1>2, <1>3, WriteKeepsShape DEF Tall
  <1>5. root_id' \in Pids /\ faults' \in 0..MaxFaults
    BY <1>1 DEF TypeOK
  <1> QED
    BY <1>1, <1>4, <1>5, AnswersType, EndsCall

\* The parent is divided into two halves.
LEMMA StepParentSplit ==
    ASSUME NEW h, NoPutFailed', TypeOK, Tall(h), ParentSplit
    PROVE  TypeOK' /\ Tall(h)'
  <1> DEFINE parent == pages[path[level]]
             n == h[path[level]]
  <1>1. /\ pc = "propagate" /\ level > 0 /\ pc' = "parent_left"
        /\ UNCHANGED <<pages, num_pages, root_id, call, ret, view, path, level, left>>
        /\ UNCHANGED <<new_pid, sep>>
    BY DEF ParentSplit, store
  <1>2. /\ path[level] \in Pids /\ level \in 1..(Len(path) - 1) /\ Unwritten = {}
        /\ n \in Nat \ {0} /\ parent \in Nodes(Pids, h, n) /\ sep \in Recs(Pids, h, n)
    BY <1>1, SepFits
  <1>3. call.op = "put" /\ Served
    BY <1>1, OfPut
  <1>4. PICK all :
            /\ Collect(parent.slots, sep, all)
            /\ buf' = [page_init("PAGE_INTERNAL") EXCEPT
                         !.parent_id = parent.parent_id,
                         !.first_child_id = parent.first_child_id]
            /\ todo' = SubSeq(all, 1, Len(all) \div 2)
            /\ ra' = SubSeq(all, Len(all) \div 2 + 1, Len(all))
    BY DEF ParentSplit
  <1>5. all = MergeSorted(parent.slots, sep) /\ faults' = faults
    BY <1>3, <1>4, CollectsAll
  <1> HIDE DEF n, parent
  <1>6. /\ parent.slots \in Seq(Recs(Pids, h, n)) /\ Len(parent.slots) \in Nat
        /\ parent.parent_id \in Pids
    BY <1>2, NodeIsPage, LenProperties
  <1>7. all \in Seq(Recs(Pids, h, n)) /\ Len(all) = Len(parent.slots) + 1
    BY <1>2, <1>5, <1>6, MergeSortedType
  <1>8. todo' \in Seq(Recs(Pids, h, n)) /\ ra' \in Seq(Recs(Pids, h, n)) /\ ra' # << >>
    <2>1. Len(all) # 0
      BY <1>6, <1>7
    <2>2. SubSeq(all, 1, Len(all) \div 2) \in Seq(Recs(Pids, h, n))
      BY <1>7, <2>1, HalvesType
    <2>3. SubSeq(all, Len(all) \div 2 + 1, Len(all)) \in Seq(Recs(Pids, h, n)) \ {<< >>}
      BY <1>7, <2>1, HalvesType
    <2> QED
      BY <1>4, <2>2, <2>3
  <1>9. buf' \in Nodes(Pids, h, n)
    <2>1. parent.first_child_id \in Pids /\ h[parent.first_child_id] = n - 1
      BY <1>2 DEF Nodes
    <2> QED
      BY <1>2, <1>4, <1>6, <2>1, PidsType, InternalInit
  <1>10. Shape(h)' /\ pages' \in [Pids -> Page(Pids)] /\ Pids' = Pids
    BY <1>1, <1>2, NoWriteKeepsShape DEF Tall
  <1>11. TypeOK'
    <2>1. buf' \in Page(Pids) /\ todo' \in Seq(Records) /\ ra' \in Seq(Records)
      BY <1>8, <1>9, NodeIsPage, SeqOfRecs DEF Records
    <2> QED
      BY <1>1, <1>5, <1>10, <2>1 DEF TypeOK, Controls, Records
  <1>12. Walked(h)' /\ Served'
    BY <1>1, <1>3, StillWalked, StillServed DEF Tall
  <1>13. SplitsParent(h)'
    BY <1>1, <1>2, <1>8, <1>9, <1>10 DEF SplitsParent, n
  <1> QED
    BY <1>1, <1>10, <1>11, <1>12, <1>13, OtherPhases DEF Tall, ParentSplitting

\* What the steps of a parent split work on.
LEMMA ParentSplitType ==
    ASSUME NEW h, TypeOK, Tall(h), pc \in ParentSplitting
    PROVE  /\ path[level] \in Pids /\ level \in 1..(Len(path) - 1)
           /\ h[path[level]] \in Nat \ {0}
           /\ call.op = "put" /\ Served /\ pc \notin {"idle", "return", "descend", "shrink_write"}
  <1>1. level \in 1..(Len(path) - 1) /\ pc \notin {"idle", "return", "descend", "shrink_write"}
    BY DEF Tall, SplitsParent, ParentSplitting
  <1>2. /\ Len(path) \in Nat \ {0} /\ \A i \in 1..Len(path) : path[i] \in Pids
    BY <1>1, PathType DEF Tall
  <1>3. level \in 1..Len(path) /\ level + 1 \in 1..Len(path)
    BY <1>1, <1>2
  <1>4. path[level] \in Pids /\ path[level + 1] \in Pids
    BY <1>2, <1>3
  <1>5. h[path[level]] \in Nat /\ h[path[level + 1]] \in Nat
        /\ h[path[level]] = h[path[level + 1]] + 1
    BY <1>1, <1>4 DEF Tall, Shape, Walked
  <1>6. h[path[level]] \in Nat \ {0}
    BY <1>5
  <1> QED
    BY <1>1, <1>4, <1>6, OfPut

\* The left half replaces the parent.
LEMMA StepParentWriteLeft ==
    ASSUME NEW h, NoPutFailed', TypeOK, Tall(h), ParentWriteLeft
    PROVE  TypeOK' /\ Tall(h)'
  <1>1. /\ pc = "parent_left" /\ pc' = "parent_alloc" /\ WriteUnchecked(path[level], buf)
        /\ UNCHANGED <<num_pages, root_id, call, ret, view>>
        /\ UNCHANGED <<path, level, buf, todo, left, ra, new_pid, sep>>
    BY DEF ParentWriteLeft, locals
  <1>2. /\ path[level] \in Pids /\ call.op = "put" /\ Served
    BY <1>1, ParentSplitType DEF ParentSplitting
  <1>3. buf \in Nodes(Pids, h, h[path[level]])
    BY <1>1 DEF Tall, SplitsParent, ParentSplitting
  <1>4. Unwritten = {} /\ WritePage(path[level], buf) /\ faults' = faults
    BY <1>1, <1>2, NoneUnwritten, PutWrites
  <1>5. Shape(h)' /\ pages' \in [Pids -> Page(Pids)] /\ Pids' = Pids
    BY <1>1, <1>2, <1>3, <1>4, WriteKeepsShape DEF Tall
  <1>6. TypeOK'
    BY <1>1, <1>4, <1>5 DEF TypeOK, Controls, Records
  <1>7. Walked(h)' /\ Served'
    BY <1>1, <1>2, StillWalked, StillServed DEF Tall
  <1>8. SplitsParent(h)'
    BY <1>1, <1>5 DEF Tall, SplitsParent, ParentSplitting
  <1> QED
    BY <1>1, <1>5, <1>6, <1>7, <1>8, OtherPhases DEF Tall, ParentSplitting

\* The page for the right half of a parent is allocated.
LEMMA StepParentAlloc ==
    ASSUME NEW h, TypeOK, Tall(h), ParentAlloc
    PROVE  \E g : TypeOK' /\ Tall(g)'
  <1> DEFINE n == h[path[level]]
  <1>1. /\ pc = "parent_alloc" /\ AllocPage("PAGE_INTERNAL")
        /\ buf' = [page_init("PAGE_INTERNAL") EXCEPT
                     !.parent_id = buf.parent_id,
                     !.first_child_id = Head(ra).child]
        /\ todo' = Tail(ra)
        /\ sep' = [key |-> Head(ra).key, child |-> num_pages]
        /\ pc' = "parent_median"
        /\ UNCHANGED <<root_id, call, ret, view, path, level, left, ra, faults>>
    BY DEF ParentAlloc
  <1>2. /\ path[level] \in Pids /\ level \in 1..(Len(path) - 1) /\ n \in Nat \ {0}
        /\ call.op = "put" /\ Served
    BY <1>1, ParentSplitType DEF ParentSplitting
  <1>3. buf \in Nodes(Pids, h, n) /\ ra \in Seq(Recs(Pids, h, n)) /\ ra # << >>
    BY <1>1 DEF Tall, SplitsParent, ParentSplitting
  <1> HIDE DEF n
  <1>4. PICK g : g = [p \in 0..num_pages |-> IF p = num_pages THEN n ELSE h[p]]
    OBVIOUS
  <1>5. /\ Shape(g)' /\ Pids' = 0..num_pages /\ pages' \in [Pids' -> Page(Pids')]
        /\ Pids \subseteq Pids' /\ num_pages \in Pids' /\ 0 \in Pids'
        /\ num_pages' \in Nat \ {0} /\ new_pid' = num_pages
        /\ g[num_pages] = n /\ \A pid \in Pids : g[pid] = h[pid]
        /\ \A m : Nodes(Pids, h, m) \subseteq Nodes(Pids', g, m)
                  /\ Recs(Pids, h, m) \subseteq Recs(Pids', g, m)
    <2>1. /\ Shape(h) /\ "PAGE_INTERNAL" \in {"PAGE_LEAF", "PAGE_INTERNAL"} /\ n \in Nat
          /\ Unwritten = {}
      BY <1>1, <1>2, NoneUnwritten DEF Tall
    <2>2. num_pages \in Unwritten'
      BY <1>1 DEF AllocPage, Unwritten
    <2>3. Grown(h, g, n)
      BY <1>1, <1>4, <2>1, <2>2, AllocKeepsShape
    <2> QED
      BY <2>3 DEF Grown
  <1>6. Head(ra) \in Recs(Pids, h, n) /\ Tail(ra) \in Seq(Recs(Pids, h, n))
    BY <1>3, TailAppendType
  <1>7. /\ Head(ra).key \in Keys /\ Head(ra).child \in Pids /\ h[Head(ra).child] = n - 1
    BY <1>2, <1>6 DEF Recs, InternalRec
  <1>8. buf' \in Nodes(Pids', g, n)
    <2>1. buf.parent_id \in Pids' /\ Head(ra).child \in Pids' /\ g[Head(ra).child] = n - 1
      BY <1>3, <1>5, <1>7, NodeIsPage
    <2> QED
      BY <1>1, <1>2, <1>5, <2>1, InternalInit
  <1>9. todo' \in Seq(Recs(Pids', g, n))
    <2>1. Recs(Pids, h, n) \subseteq Recs(Pids', g, n)
      BY <1>5
    <2> QED
      BY <1>1, <1>6, <2>1, SeqMonotonic
  <1>10. sep' \in InternalRec(Pids') /\ sep'.child = num_pages
    BY <1>1, <1>5, <1>7 DEF InternalRec
  <1>11. TypeOK'
    <2>1. buf' \in Page(Pids') /\ todo' \in Seq(Records')
      BY <1>8, <1>9, NodeIsPage, SeqOfRecs DEF Records
    <2>2. path' \in Seq(Pids') /\ left' \in Page(Pids') /\ ra' \in Seq(Records')
      BY <1>1, <1>5, MoreIds DEF TypeOK, Records
    <2>3. /\ root_id' \in Pids' /\ call' \in Ops \cup {NoCall} /\ ret' = ret /\ view' = view
          /\ pc' \in Controls /\ level' \in Nat /\ faults' \in 0..MaxFaults
      BY <1>1, <1>5 DEF TypeOK, Controls
    <2> QED
      BY <1>5, <1>10, <2>1, <2>2, <2>3 DEF TypeOK
  <1>12. Walked(g)' /\ Served'
    <2>1. pc \notin {"idle", "return", "descend", "shrink_write"} /\ root_id' = root_id
      BY <1>1
    <2>2. Walked(g)'
      BY <1>1, <1>5, <2>1, StillWalked DEF Tall
    <2> QED
      BY <1>1, <1>2, <2>1, <2>2, StillServed
  <1>13. g[path[level]] = n
    BY <1>2, <1>5 DEF n
  <1>14. SplitsParent(g)'
    BY <1>1, <1>2, <1>5, <1>8, <1>9, <1>10, <1>13 DEF SplitsParent
  <1>15. pc' \in ParentSplitting
    BY <1>1 DEF ParentSplitting
  <1> QED
    BY <1>5, <1>11, <1>12, <1>14, <1>15, OtherPhases DEF Tall

\* A page one level below the right half is not the right half.
LEMMA StepSetParent ==
    ASSUME NEW h, NoPutFailed', TypeOK, Tall(h), pc \in {"parent_median", "parent_right"},
           pc' \in {"parent_median", "parent_right", "undefined"},
           NEW c \in Pids, h[c] = h[path[level]] - 1, SetParent(c, new_pid),
           UNCHANGED <<num_pages, root_id, call, ret, view>>,
           UNCHANGED <<path, level, left, ra, new_pid, sep>>,
           buf' \in Nodes(Pids, h, h[path[level]]),
           todo' \in Seq(Recs(Pids, h, h[path[level]]))
    PROVE  TypeOK' /\ (pc' # "undefined" => Tall(h)')
  <1> DEFINE n == h[path[level]]
  <1>1. /\ path[level] \in Pids /\ level \in 1..(Len(path) - 1) /\ n \in Nat \ {0}
        /\ call.op = "put" /\ Served /\ pc \notin {"idle", "return", "descend", "shrink_write"}
    BY ParentSplitType DEF ParentSplitting
  <1>2. Unwritten = {new_pid} /\ new_pid \in Pids /\ h[new_pid] = n
    BY DEF Unwritten, TypeOK, Tall, SplitsParent, ParentSplitting
  <1>3. c \notin Unwritten
    BY <1>1, <1>2
  <1>4. WritePage(c, [pages[c] EXCEPT !.parent_id = new_pid]) /\ faults' = faults
    BY <1>1, PutWrites DEF SetParent
  <1>5. pages' \in [Pids -> Page(Pids)] /\ Pids' = Pids
    <2>1. pages[c] \in Page(Pids) /\ Pids' = Pids
      BY DEF TypeOK, Pids
    <2>2. [pages[c] EXCEPT !.parent_id = new_pid] \in Page(Pids)
      BY <1>2, <2>1 DEF Page
    <2> QED
      BY <1>4, <2>1, <2>2 DEF TypeOK, WritePage
  <1>6. TypeOK'
    <2>1. buf' \in Page(Pids) /\ todo' \in Seq(Records)
      BY NodeIsPage, SeqOfRecs DEF Records
    <2> QED
      BY <1>4, <1>5, <2>1 DEF TypeOK, Controls, Records
  <1>7. ASSUME pc' # "undefined" PROVE Tall(h)'
    <2>1. Unwritten' = {new_pid}
      BY <1>7 DEF Unwritten
    <2>2. Shape(h)'
      BY <1>2, <1>3, <1>4, <2>1, SetParentKeepsShape DEF Tall
    <2>3. Walked(h)' /\ Served'
      BY <1>1, <1>7, StillWalked, StillServed DEF Tall
    <2>4. SplitsParent(h)'
      BY <1>1, <1>2, <1>5, <1>7 DEF Tall, SplitsParent, ParentSplitting
    <2> QED
      BY <1>7, <2>2, <2>3, <2>4, OtherPhases DEF Tall, ParentSplitting
  <1> QED
    BY <1>6, <1>7

\* The child of the median, and the children in the right half.
LEMMA StepPlaceChild ==
    ASSUME NEW h, NoPutFailed', TypeOK, Tall(h), ParentSetMedian \/ PlaceChild
    PROVE  TypeOK' /\ (pc' # "undefined" => Tall(h)')
  <1> DEFINE n == h[path[level]]
  <1>1. /\ pc \in {"parent_median", "parent_right"}
        /\ pc' \in {"parent_median", "parent_right", "undefined"}
        /\ UNCHANGED <<num_pages, root_id, call, ret, view>>
        /\ UNCHANGED <<path, level, left, ra, new_pid, sep>>
    BY DEF ParentSetMedian, PlaceChild, locals
  <1>2. n \in Nat \ {0} /\ buf \in Nodes(Pids, h, n) /\ todo \in Seq(Recs(Pids, h, n))
    BY <1>1, ParentSplitType DEF ParentSplitting, Tall, SplitsParent
  <1>3. CASE ParentSetMedian
    <2>1. /\ SetParent(buf.first_child_id, new_pid) /\ buf' = buf /\ todo' = todo
      BY <1>3 DEF ParentSetMedian, locals
    <2>2. buf.first_child_id \in Pids /\ h[buf.first_child_id] = n - 1
      BY <1>2 DEF Nodes
    <2> QED
      BY <1>1, <1>2, <2>1, <2>2, StepSetParent
  <1>4. CASE PlaceChild
    <2>1. /\ SetParent(Head(todo).child, new_pid) /\ todo # << >>
          /\ buf' = page_alloc_slot(buf, Head(todo)) /\ todo' = Tail(todo)
      BY <1>4 DEF PlaceChild
    <2>2. Head(todo) \in Recs(Pids, h, n) /\ Tail(todo) \in Seq(Recs(Pids, h, n))
      <3> HIDE DEF n
      <3> QED
        BY <1>2, <2>1, TailAppendType
    <2>3. Head(todo).child \in Pids /\ h[Head(todo).child] = n - 1
      BY <1>2, <2>2 DEF Recs, InternalRec
    <2>4. buf' \in Nodes(Pids, h, n)
      <3> HIDE DEF n
      <3> QED
        BY <1>2, <2>1, <2>2, AllocSlot
    <2> QED
      BY <1>1, <2>1, <2>2, <2>3, <2>4, StepSetParent
  <1> QED
    BY <1>3, <1>4

\* The right half is written: it is a node as high as the left one.
LEMMA StepParentWriteRight ==
    ASSUME NEW h, NoPutFailed', TypeOK, Tall(h), ParentWriteRight
    PROVE  TypeOK' /\ Tall(h)'
  <1>1. /\ pc = "parent_right" /\ pc' = "propagate" /\ WriteUnchecked(new_pid, buf)
        /\ level' = level - 1
        /\ UNCHANGED <<num_pages, root_id, call, ret, view>>
        /\ UNCHANGED <<path, buf, todo, left, ra, new_pid, sep>>
    BY DEF ParentWriteRight
  <1>2. /\ path[level] \in Pids /\ level \in 1..(Len(path) - 1) /\ call.op = "put" /\ Served
    BY <1>1, ParentSplitType DEF ParentSplitting
  <1>3. /\ buf \in Nodes(Pids, h, h[path[level]]) /\ new_pid \in Pids
        /\ h[new_pid] = h[path[level]] /\ sep \in InternalRec(Pids) /\ sep.child = new_pid
    BY <1>1 DEF Tall, SplitsParent, ParentSplitting, TypeOK
  <1>4. WritePage(new_pid, buf) /\ faults' = faults
    BY <1>1, <1>2, PutWrites
  <1>5. Unwritten \ {new_pid} \subseteq Unwritten'
    BY <1>1 DEF Unwritten, RootBuilding
  <1>6. Shape(h)' /\ pages' \in [Pids -> Page(Pids)] /\ Pids' = Pids
    BY <1>1, <1>3, <1>4, <1>5, WriteKeepsShape DEF Tall
  <1>7. /\ level' \in 0..(Len(path) - 1) /\ level' + 1 = level /\ level' \in Nat
    <2>1. path \in Seq(Pids) /\ Len(path) \in Nat
      BY LenProperties DEF TypeOK
    <2> QED
      BY <1>1, <1>2, <2>1
  <1>8. TypeOK'
    BY <1>1, <1>4, <1>6, <1>7 DEF TypeOK, Controls, Records
  <1>9. Walked(h)' /\ Served'
    BY <1>1, <1>2, StillWalked, StillServed DEF Tall
  <1>10. GoesUp(h)'
    BY <1>1, <1>3, <1>6, <1>7 DEF GoesUp
  <1> QED
    BY <1>1, <1>6, <1>8, <1>9, <1>10, OtherPhases DEF Tall

\* The page for a new root is allocated above the old one.
LEMMA StepNewRootAlloc ==
    ASSUME NEW h, TypeOK, Tall(h), NewRootAlloc
    PROVE  \E g : TypeOK' /\ Tall(g)'
  <1> DEFINE n == h[root_id] + 1
  <1>1. /\ pc = "propagate" /\ level = 0 /\ AllocPage("PAGE_INTERNAL")
        /\ buf' = [page_init("PAGE_INTERNAL") EXCEPT !.first_child_id = root_id]
        /\ pc' = "root_left"
        /\ UNCHANGED <<root_id, call, ret, view, path, level, todo, left, ra, sep, faults>>
    BY DEF NewRootAlloc
  <1>2. root_id \in Pids /\ h[root_id] \in Nat
    BY DEF TypeOK, Tall, Shape
  <1>3. n \in Nat \ {0} /\ h[root_id] = n - 1
    BY <1>2
  <1>4. call.op = "put" /\ Served
    BY <1>1, OfPut
  <1>5. sep \in InternalRec(Pids) /\ sep.child \in Pids /\ h[sep.child] = n - 1
    <2>1. sep \in InternalRec(Pids) /\ h[sep.child] = h[path[level + 1]]
      BY <1>1 DEF Tall, GoesUp
    <2>2. level + 1 = 1 /\ path[1] = root_id
      BY <1>1 DEF Tall, Walked
    <2> QED
      BY <1>3, <2>1, <2>2 DEF InternalRec
  <1> HIDE DEF n
  <1>6. PICK g : g = [p \in 0..num_pages |-> IF p = num_pages THEN n ELSE h[p]]
    OBVIOUS
  <1>7. /\ Shape(g)' /\ Pids' = 0..num_pages /\ pages' \in [Pids' -> Page(Pids')]
        /\ Pids \subseteq Pids' /\ num_pages \in Pids' /\ 0 \in Pids'
        /\ num_pages' \in Nat \ {0} /\ new_pid' = num_pages
        /\ g[num_pages] = n /\ \A pid \in Pids : g[pid] = h[pid]
    <2>1. /\ Shape(h) /\ "PAGE_INTERNAL" \in {"PAGE_LEAF", "PAGE_INTERNAL"} /\ n \in Nat
          /\ Unwritten = {}
      BY <1>1, <1>3, NoneUnwritten DEF Tall
    <2>2. num_pages \in Unwritten'
      BY <1>1 DEF AllocPage, Unwritten, RootBuilding
    <2>3. Grown(h, g, n)
      BY <1>1, <1>6, <2>1, <2>2, AllocKeepsShape
    <2> QED
      BY <2>3 DEF Grown
  <1>8. buf' \in Nodes(Pids', g, n)
    <2>1. root_id \in Pids' /\ g[root_id] = n - 1
      BY <1>2, <1>3, <1>7
    <2> QED
      BY <1>1, <1>3, <1>7, <2>1, InternalInit
  <1>9. sep' \in InternalRec(Pids') /\ g[sep'.child] = n - 1
    BY <1>1, <1>5, <1>7, MoreIds
  <1>10. TypeOK'
    <2>1. buf' \in Page(Pids')
      BY <1>8, NodeIsPage
    <2>2. /\ path' \in Seq(Pids') /\ left' \in Page(Pids') /\ ra' \in Seq(Records')
          /\ todo' \in Seq(Records')
      BY <1>1, <1>7, MoreIds DEF TypeOK, Records
    <2>3. /\ root_id' \in Pids' /\ call' \in Ops \cup {NoCall} /\ ret' = ret /\ view' = view
          /\ pc' \in Controls /\ level' \in Nat /\ faults' \in 0..MaxFaults
      BY <1>1, <1>7 DEF TypeOK, Controls
    <2> QED
      BY <1>7, <1>9, <2>1, <2>2, <2>3 DEF TypeOK
  <1>11. Walked(g)' /\ Served'
    <2>1. pc \notin {"idle", "return", "descend", "shrink_write"} /\ root_id' = root_id
      BY <1>1
    <2>2. Walked(g)'
      BY <1>1, <1>7, <2>1, StillWalked DEF Tall
    <2> QED
      BY <1>1, <1>4, <2>1, <2>2, StillServed
  <1>12. g[root_id] = n - 1
    BY <1>2, <1>3, <1>7
  <1>13. BuildsRoot(g)'
    BY <1>1, <1>3, <1>7, <1>8, <1>9, <1>12 DEF BuildsRoot
  <1>14. pc' \in RootBuilding
    BY <1>1 DEF RootBuilding
  <1> QED
    BY <1>7, <1>10, <1>11, <1>13, <1>14, OtherPhases DEF Tall

\* The two children of the new root get it as their parent; it is not written yet.
LEMMA StepNewRootSet ==
    ASSUME NEW h, NoPutFailed', TypeOK, Tall(h), NewRootSetLeft \/ NewRootSetRight
    PROVE  TypeOK' /\ (pc' # "undefined" => Tall(h)')
  <1> DEFINE c == IF pc = "root_left" THEN root_id ELSE sep.child
             n == h[new_pid]
  <1>1. /\ pc \in {"root_left", "root_right"} /\ pc' \in {"root_right", "root_write", "undefined"}
        /\ SetParent(c, new_pid) /\ buf' \in {buf, page_alloc_slot(buf, sep)}
        /\ UNCHANGED <<num_pages, root_id, call, ret, view>>
        /\ UNCHANGED <<path, level, todo, left, ra, new_pid, sep>>
    BY DEF NewRootSetLeft, NewRootSetRight, locals
  <1>2. call.op = "put" /\ Served /\ pc \notin {"idle", "return", "descend", "shrink_write"}
    BY <1>1, OfPut DEF RootBuilding
  <1>3. /\ n = h[root_id] + 1 /\ buf \in Nodes(Pids, h, n)
        /\ sep \in InternalRec(Pids) /\ h[sep.child] = h[root_id]
        /\ root_id \in Pids /\ new_pid \in Pids
    BY <1>1 DEF Tall, BuildsRoot, RootBuilding, TypeOK
  <1>4. h[root_id] \in Nat /\ sep.child \in Pids
    BY <1>3 DEF Tall, Shape, InternalRec
  <1>5. Unwritten = {new_pid}
    BY <1>1 DEF Unwritten, RootBuilding
  <1>6. c \in Pids /\ c \notin Unwritten
    BY <1>3, <1>4, <1>5
  <1> HIDE DEF c
  <1>7. WritePage(c, [pages[c] EXCEPT !.parent_id = new_pid]) /\ faults' = faults
    BY <1>1, <1>2, PutWrites DEF SetParent
  <1>8. pages' \in [Pids -> Page(Pids)] /\ Pids' = Pids
    <2>1. pages[c] \in Page(Pids) /\ Pids' = Pids
      BY <1>1, <1>6 DEF TypeOK, Pids
    <2>2. [pages[c] EXCEPT !.parent_id = new_pid] \in Page(Pids)
      BY <1>3, <2>1 DEF Page
    <2> QED
      BY <1>7, <2>1, <2>2 DEF TypeOK, WritePage
  <1>9. buf' \in Nodes(Pids, h, n)
    <2>1. sep \in Recs(Pids, h, n)
      BY <1>3, <1>4 DEF Recs
    <2> HIDE DEF n
    <2> QED
      BY <1>1, <1>3, <2>1, AllocSlot
  <1>10. TypeOK'
    <2>1. buf' \in Page(Pids)
      BY <1>9, NodeIsPage
    <2> QED
      BY <1>1, <1>7, <1>8, <2>1 DEF TypeOK, Controls, Records
  <1>11. ASSUME pc' # "undefined" PROVE Tall(h)'
    <2>1. pc' \in RootBuilding /\ Unwritten' = {new_pid}
      BY <1>1, <1>11 DEF Unwritten, RootBuilding
    <2>2. Shape(h)'
      BY <1>1, <1>3, <1>5, <1>6, <1>7, <2>1, SetParentKeepsShape DEF Tall
    <2>3. Walked(h)' /\ Served'
      BY <1>1, <1>2, <1>11, StillWalked, StillServed DEF Tall
    <2>4. BuildsRoot(h)'
      BY <1>1, <1>3, <1>8, <1>9 DEF BuildsRoot
    <2> QED
      BY <2>1, <2>2, <2>3, <2>4, OtherPhases DEF Tall
  <1> QED
    BY <1>10, <1>11

\* The new root is written and becomes the root.
LEMMA StepNewRootWrite ==
    ASSUME NEW h, NoPutFailed', TypeOK, Tall(h), NewRootWrite
    PROVE  TypeOK' /\ Tall(h)'
  <1>1. /\ pc = "root_write" /\ WriteUnchecked(new_pid, buf) /\ root_id' = new_pid
        /\ ReturnWith(OK(NoVal)) /\ UNCHANGED <<num_pages, call, view, locals>>
    BY DEF NewRootWrite
  <1>2. new_pid \in Pids /\ buf \in Nodes(Pids, h, h[new_pid]) /\ call.op = "put"
    BY <1>1, OfPut DEF Tall, BuildsRoot, RootBuilding, TypeOK
  <1>3. WritePage(new_pid, buf) /\ faults' = faults
    BY <1>1, <1>2, PutWrites
  <1>4. Unwritten \ {new_pid} \subseteq Unwritten'
    BY DEF Unwritten
  <1>5. Shape(h)' /\ pages' \in [Pids -> Page(Pids)] /\ Pids' = Pids
    BY <1>1, <1>2, <1>3, <1>4, WriteKeepsShape DEF Tall
  <1>6. root_id' \in Pids /\ faults' \in 0..MaxFaults
    BY <1>1, <1>2, <1>3 DEF TypeOK
  <1> QED
    BY <1>1, <1>5, <1>6, AnswersType, EndsCall

-----------------------------------------------------------------------------
(***************************************************************************)
(* The steps of a delete.                                                  *)
(***************************************************************************)

\* The pages of a path are at falling heights.
LEMMA PathFalls ==
    ASSUME NEW h, TypeOK, Shape(h), Walked(h), pc \notin {"idle", "return"},
           NEW j \in 1..Len(path), NEW i \in 1..(j - 1)
    PROVE  h[path[i]] > h[path[j]] /\ path[i] # path[j]
  <1> DEFINE D == {d \in 1..(j - 1) : h[path[j - d]] # h[path[j]] + d}
  <1>1. /\ Len(path) \in Nat \ {0} /\ \A k \in 1..Len(path) : path[k] \in Pids
        /\ \A k \in 1..(Len(path) - 1) : h[path[k]] = h[path[k + 1]] + 1
    BY PathType DEF Walked
  <1>2. ASSUME NEW k \in 1..Len(path) PROVE h[path[k]] \in Nat
    BY <1>1 DEF Shape
  <1>3. j \in Nat /\ j <= Len(path) /\ D \in SUBSET Nat
    BY <1>1
  <1>4. ASSUME D # {} PROVE FALSE
    <2>1. PICK d \in D : \A e \in D : d <= e
      BY <1>3, <1>4, LeastNumber
    <2>2. d \in 1..(j - 1) /\ h[path[j - d]] # h[path[j]] + d
      BY <2>1
    <2>3. j - d \in 1..(Len(path) - 1)
      BY <1>1, <1>3, <2>2
    <2>4. h[path[j - d]] = h[path[j - d + 1]] + 1
      BY <1>1, <2>3
    <2>5. CASE d = 1
      <3>1. j - d + 1 = j
        BY <1>3, <2>5
      <3> QED
        BY <2>2, <2>4, <2>5, <3>1
    <2>6. CASE d # 1
      <3>1. d - 1 \in 1..(j - 1) /\ ~(d <= d - 1)
        BY <2>2, <2>6, <1>3
      <3>2. d - 1 \notin D
        BY <2>1, <3>1
      <3>3. h[path[j - (d - 1)]] = h[path[j]] + (d - 1)
        BY <3>1, <3>2
      <3>4. j - (d - 1) = j - d + 1 /\ h[path[j]] \in Nat
        BY <1>2, <1>3, <2>2
      <3> QED
        BY <2>2, <2>4, <3>3, <3>4
    <2> QED
      BY <2>5, <2>6
  <1>5. j - i \in 1..(j - 1) /\ j - (j - i) = i
    BY <1>3
  <1>6. h[path[i]] = h[path[j]] + (j - i)
    BY <1>4, <1>5
  <1>7. h[path[j]] \in Nat /\ j - i > 0
    BY <1>2, <1>3
  <1>8. h[path[i]] > h[path[j]]
    BY <1>6, <1>7
  <1> QED
    BY <1>7, <1>8

\* What is said of the children of a page is said of its slots and first child.
LEMMA SameChildren ==
    ASSUME NEW p, NEW q, p.slots = q.slots, p.first_child_id = q.first_child_id
    PROVE  NumChildren(p) = NumChildren(q) /\ \A c : IsChild(p, c) <=> IsChild(q, c)
  BY DEF NumChildren, IsChild, Child

\* The record goes out of its leaf; the pages above are as they were.
LEMMA StepDeleteLeaf ==
    ASSUME NEW h, TypeOK, Tall(h), DeleteLeaf
    PROVE  TypeOK' /\ Tall(h)'
  <1>1. /\ pc = "delete" /\ pc' = "rebalance" /\ WritePage(Last(path), LeafWithoutKey)
        /\ level' = Len(path)
        /\ UNCHANGED <<num_pages, root_id, call, ret, view, path, buf, todo, left, ra>>
        /\ UNCHANGED <<new_pid, sep, faults>>
    BY DEF DeleteLeaf
  <1>2. /\ Last(path) \in Pids /\ h[Last(path)] = 0 /\ Unwritten = {}
        /\ LeafWithoutKey \in Nodes(Pids, h, 0)
    BY <1>1, LeafAtEnd, LeafWithoutKeyType
  <1>3. Shape(h)' /\ pages' \in [Pids -> Page(Pids)] /\ Pids' = Pids
    BY <1>1, <1>2, WriteKeepsShape DEF Tall
  <1>4. Len(path) \in Nat \ {0} /\ Last(path) = path[Len(path)]
    BY <1>1, PathType DEF Tall
  <1>5. TypeOK'
    BY <1>1, <1>3, <1>4 DEF TypeOK, Controls, Records
  <1>6. pc \notin {"idle", "return", "descend", "shrink_write"} /\ Served
    BY <1>1 DEF Tall
  <1>7. Walked(h)' /\ Served'
    <2>1. pc' \notin {"put", "propagate"} \cup LeafSplitting \cup ParentSplitting \cup RootBuilding
      BY <1>1 DEF LeafSplitting, ParentSplitting, RootBuilding
    <2> QED
      BY <1>1, <1>6, <2>1, StillWalked, StillServed DEF Tall
  <1>8. Linked'
    <2>1. ASSUME NEW i \in 1..(Len(path) - 1) PROVE IsChild(pages'[path[i]], path[i + 1])
      <3>1. path[i] # Last(path)
        BY <1>4, <1>6, PathFalls DEF Tall
      <3>2. pages'[path[i]] = pages[path[i]]
        BY <1>1, <3>1 DEF WritePage, TypeOK
      <3>3. IsChild(pages[path[i]], path[i + 1])
        BY <1>1 DEF Tall, Linked
      <3> QED
        BY <3>2, <3>3
    <2>2. level' \in 1..Len(path)
      BY <1>1, <1>4
    <2> QED
      BY <1>1, <2>1, <2>2 DEF Linked
  <1> QED
    BY <1>1, <1>3, <1>5, <1>7, <1>8, OtherPhases DEF Tall

\* What the loop of rebalance_after_delete looks at.
LEMMA RebalanceType ==
    ASSUME NEW h, TypeOK, Tall(h), pc \in {"rebalance"} \cup Merging, level > 1
    PROVE  /\ level \in 2..Len(path) /\ Len(path) \in Nat \ {0} /\ Unwritten = {}
           /\ path[level] \in Pids /\ path[level - 1] \in Pids
           /\ h[path[level]] \in Nat /\ h[path[level - 1]] = h[path[level]] + 1
           /\ Parent \in Nodes(Pids, h, h[path[level]] + 1)
           /\ IsChild(Parent, path[level])
           /\ pc \notin {"idle", "return", "descend", "shrink_write"} /\ Served
           /\ \A i \in 1..(level - 1) : IsChild(pages[path[i]], path[i + 1])
  <1>1. pc \notin {"idle", "return", "descend", "shrink_write"} /\ Unwritten = {}
    BY NoneUnwritten DEF Merging
  <1>2. Len(path) \in Nat \ {0} /\ \A i \in 1..Len(path) : path[i] \in Pids
    BY <1>1, PathType DEF Tall
  <1>3. /\ level \in 1..Len(path)
        /\ \A i \in 1..(level - 1) : IsChild(pages[path[i]], path[i + 1])
    BY DEF Tall, Linked
  <1>4. /\ level \in 2..Len(path) /\ level - 1 \in 1..(Len(path) - 1)
        /\ level - 1 \in 1..(level - 1) /\ level - 1 \in 1..Len(path) /\ level - 1 + 1 = level
    BY <1>2, <1>3
  <1>5. path[level] \in Pids /\ path[level - 1] \in Pids
    BY <1>2, <1>3, <1>4
  <1>6. h[path[level]] \in Nat
    BY <1>5 DEF Tall, Shape
  <1>7. h[path[level - 1]] = h[path[level - 1 + 1]] + 1
    BY <1>1, <1>4 DEF Tall, Walked
  <1>8. Parent \in Nodes(Pids, h, h[path[level - 1]])
    BY <1>1, <1>5, NodeAt DEF Tall, Parent
  <1>9. IsChild(pages[path[level - 1]], path[level - 1 + 1])
    BY <1>3, <1>4
  <1> QED
    BY <1>1, <1>2, <1>3, <1>4, <1>5, <1>6, <1>7, <1>8, <1>9 DEF Parent, Tall

\* The siblings that are merged are next to each other, and as high as the node.
LEMMA Siblings ==
    ASSUME NEW h, TypeOK, Tall(h), pc \in {"rebalance"} \cup Merging, level > 1, HasSibling
    PROVE  /\ LeftIndex \in 1..Len(Parent.slots)
           /\ LeftPid \in Pids /\ RightPid \in Pids
           /\ h[LeftPid] = h[path[level]] /\ h[RightPid] = h[path[level]]
           /\ pages[LeftPid] \in Nodes(Pids, h, h[path[level]])
           /\ pages[RightPid] \in Nodes(Pids, h, h[path[level]])
  <1> DEFINE n == h[path[level]] + 1
             pos == find_pos_in_parent(Parent, path[level])
  <1>1. /\ Parent \in Nodes(Pids, h, n) /\ n \in Nat \ {0} /\ IsChild(Parent, path[level])
        /\ Unwritten = {} /\ h[path[level]] = n - 1
    BY RebalanceType
  <1> HIDE DEF n
  <1>2. Parent.slots \in Seq(Recs(Pids, h, n)) /\ Len(Parent.slots) \in Nat
    BY <1>1, NodeIsPage, LenProperties
  <1>3. NumChildren(Parent) = Len(Parent.slots) + 1 /\ NumChildren(Parent) > 1
    BY DEF NumChildren, HasSibling
  <1>4. pos \in 1..NumChildren(Parent)
    BY <1>1, <1>2, <1>3, FindPos
  <1> HIDE DEF pos
  <1>5. LeftIndex = IF pos = 1 THEN 1 ELSE pos - 1
    BY DEF LeftIndex, pos
  <1>6. /\ LeftIndex \in 1..Len(Parent.slots) /\ LeftIndex \in 1..NumChildren(Parent)
        /\ LeftIndex + 1 \in 1..NumChildren(Parent)
    BY <1>2, <1>3, <1>4, <1>5
  <1>7. /\ LeftPid \in Pids /\ RightPid \in Pids /\ h[LeftPid] = n - 1 /\ h[RightPid] = n - 1
    BY <1>1, <1>6, ChildHeight DEF LeftPid, RightPid
  <1>8. /\ pages[LeftPid] \in Nodes(Pids, h, n - 1) /\ pages[RightPid] \in Nodes(Pids, h, n - 1)
    BY <1>1, <1>7, NodeAt DEF Tall
  <1> QED
    BY <1>1, <1>6, <1>7, <1>8

\* The loop ends.
LEMMA StepRebalanceEnd ==
    ASSUME NEW h, TypeOK, Tall(h), RebalanceEnd
    PROVE  TypeOK' /\ Tall(h)'
  <1>1. /\ pc = "rebalance" /\ UNCHANGED <<store, call, view, locals, faults>>
        /\ ReturnWith(CORRUPTED) \/ ReturnWith(OK(NoVal))
    BY DEF RebalanceEnd
  <1>2. Unwritten = {} /\ faults' \in 0..MaxFaults
    BY <1>1, NoneUnwritten DEF TypeOK
  <1> QED
    BY <1>1, <1>2, AnswersType, EndsCallUnwritten

\* The null pointer: nothing is said from here on but the types.
LEMMA StepRebalanceNull ==
    ASSUME TypeOK, RebalanceNull
    PROVE  TypeOK' /\ pc' = "undefined"
  BY DEF RebalanceNull, TypeOK, Controls, Records, Pids, store, locals

\* A merge begins with the left node and the records of the right one.
LEMMA StepMergeStart ==
    ASSUME NEW h, TypeOK, Tall(h), MergeStart
    PROVE  TypeOK' /\ Tall(h)'
  <1> DEFINE n == h[path[level]]
  <1>1. /\ pc = "rebalance" /\ level > 1 /\ HasSibling /\ pc' = "merge_next"
        /\ buf' = pages[LeftPid] /\ todo' = pages[RightPid].slots
        /\ UNCHANGED <<pages, num_pages, root_id, call, ret, view, path, level, left, ra>>
        /\ UNCHANGED <<new_pid, sep, faults>>
    BY DEF MergeStart, store
  <1>2. /\ Unwritten = {} /\ Served /\ level \in 2..Len(path) /\ Len(path) \in Nat \ {0}
        /\ pc \notin {"idle", "return", "descend", "shrink_write"}
    BY <1>1, RebalanceType
  <1>3. pages[LeftPid] \in Nodes(Pids, h, n) /\ pages[RightPid] \in Nodes(Pids, h, n)
    BY <1>1, Siblings
  <1>4. buf' \in Nodes(Pids, h, n) /\ todo' \in Seq(Recs(Pids, h, n))
    <2> HIDE DEF n
    <2> QED
      BY <1>1, <1>3, NodeIsPage
  <1>5. Shape(h)' /\ pages' \in [Pids -> Page(Pids)] /\ Pids' = Pids
    BY <1>1, <1>2, NoWriteKeepsShape DEF Tall
  <1>6. TypeOK'
    <2>1. buf' \in Page(Pids) /\ todo' \in Seq(Records)
      <3> HIDE DEF n
      <3> QED
        BY <1>4, NodeIsPage, SeqOfRecs DEF Records
    <2> QED
      BY <1>1, <1>5, <2>1 DEF TypeOK, Controls, Records
  <1>7. Walked(h)' /\ Served'
    <2>1. pc' \notin {"put", "propagate"} \cup LeafSplitting \cup ParentSplitting \cup RootBuilding
      BY <1>1 DEF LeafSplitting, ParentSplitting, RootBuilding
    <2> QED
      BY <1>1, <1>2, <2>1, StillWalked, StillServed DEF Tall
  <1>8. Linked'
    BY <1>1 DEF Tall, Linked, Merging
  <1>9. Merges(h)'
    BY <1>1, <1>4, <1>5 DEF Merges, HasSibling, Parent
  <1>10. pc' \in Merging
    BY <1>1 DEF Merging
  <1> QED
    BY <1>5, <1>6, <1>7, <1>8, <1>9, <1>10, OtherPhases DEF Tall

\* A merge and the loop around it keep the call and the path.
LEMMA RebalanceGoesOn ==
    ASSUME NEW h, TypeOK, Tall(h), pc \in {"rebalance"} \cup Merging,
           pc' \in {"rebalance", "shrink_write"} \cup Merging, path' = path, call' = call,
           root_id' = root_id \/ pc' = "shrink_write"
    PROVE  Walked(h)' /\ Served'
  <1>1. pc \notin {"idle", "return", "descend", "shrink_write"} /\ Served
    BY DEF Merging, Tall
  <1>2. /\ pc' \notin {"put", "propagate"} \cup LeafSplitting \cup ParentSplitting \cup RootBuilding
        /\ pc' \notin {"get", "delete"}
    BY DEF LeafSplitting, ParentSplitting, RootBuilding, Merging
  <1> QED
    BY <1>1, <1>2, StillWalked, StillServed DEF Tall

\* The links of a merge do not change the children of any page.
LEMMA StepMergeFixNext ==
    ASSUME NEW h, TypeOK, Tall(h), MergeFixNext
    PROVE  TypeOK' /\ Tall(h)'
  <1> DEFINE n == h[path[level]]
             next == pages[RightPid].next_id
  <1>1. /\ pc = "merge_next" /\ pc' = "merge_left" /\ buf' = [buf EXCEPT !.next_id = next]
        /\ UNCHANGED <<num_pages, root_id, call, ret, view, path, level, todo, left, ra>>
        /\ UNCHANGED <<new_pid, sep, faults>>
        /\ UNCHANGED pages \/ WritePage(next, [pages[next] EXCEPT !.prev_id = LeftPid])
    BY DEF MergeFixNext
  <1>2. level > 1 /\ HasSibling /\ buf \in Nodes(Pids, h, n)
    BY <1>1 DEF Tall, Merges, Merging
  <1>3. /\ level \in 2..Len(path) /\ Len(path) \in Nat \ {0} /\ Unwritten = {}
        /\ \A i \in 1..(level - 1) : IsChild(pages[path[i]], path[i + 1])
    BY <1>1, <1>2, RebalanceType DEF Merging
  <1>4. /\ LeftPid \in Pids /\ pages[RightPid] \in Nodes(Pids, h, n)
    BY <1>1, <1>2, Siblings DEF Merging
  <1>5. next \in Pids /\ buf' \in Nodes(Pids, h, n)
    <2> HIDE DEF n
    <2> QED
      BY <1>1, <1>2, <1>4, NodeIsPage, SetLinks
  <1> HIDE DEF next
  <1>6. Shape(h)' /\ pages' \in [Pids -> Page(Pids)] /\ Pids' = Pids
    <2>1. CASE UNCHANGED pages
      BY <1>1, <1>3, <2>1, NoWriteKeepsShape DEF Tall
    <2>2. CASE WritePage(next, [pages[next] EXCEPT !.prev_id = LeftPid])
      BY <1>1, <1>3, <1>4, <1>5, <2>2, SetParentKeepsShape DEF Tall
    <2> QED
      BY <1>1, <2>1, <2>2
  <1>7. ASSUME NEW pid \in Pids
        PROVE  /\ NumChildren(pages'[pid]) = NumChildren(pages[pid])
               /\ \A c : IsChild(pages'[pid], c) <=> IsChild(pages[pid], c)
    <2>1. pages'[pid].slots = pages[pid].slots
          /\ pages'[pid].first_child_id = pages[pid].first_child_id
      <3>1. CASE UNCHANGED pages
        BY <3>1
      <3>2. CASE WritePage(next, [pages[next] EXCEPT !.prev_id = LeftPid])
        <4>1. pages[pid] \in Page(Pids) /\ pages \in [Pids -> Page(Pids)]
          BY DEF TypeOK
        <4>2. CASE pid = next
          <5>1. pages'[pid] = [pages[pid] EXCEPT !.prev_id = LeftPid]
            BY <3>2, <4>1, <4>2 DEF WritePage
          <5> QED
            BY <4>1, <5>1 DEF Page
        <4>3. CASE pid # next
          BY <3>2, <4>1, <4>3 DEF WritePage
        <4> QED
          BY <4>2, <4>3
      <3> QED
        BY <1>1, <3>1, <3>2
    <2> QED
      BY <2>1, SameChildren
  <1>8. TypeOK'
    <2>1. buf' \in Page(Pids)
      BY <1>5, NodeIsPage
    <2> QED
      BY <1>1, <1>6, <2>1 DEF TypeOK, Controls, Records
  <1>9. pc \in Merging /\ pc' \in Merging
    BY <1>1 DEF Merging
  <1>10. Walked(h)' /\ Served'
    BY <1>1, <1>9, RebalanceGoesOn
  <1>11. \A i \in 1..Len(path) : path[i] \in Pids
    BY <1>1, PathType DEF Tall
  <1>12. Linked'
    <2>1. ASSUME NEW i \in 1..(level - 1) PROVE IsChild(pages'[path[i]], path[i + 1])
      <3>1. path[i] \in Pids
        BY <1>3, <1>11
      <3> QED
        BY <1>3, <1>7, <3>1
    <2>2. level \in 1..Len(path)
      BY <1>3
    <2> QED
      BY <1>1, <2>1, <2>2 DEF Linked
  <1>13. Merges(h)'
    <2>1. path[level - 1] \in Pids
      BY <1>3, <1>11
    <2>2. HasSibling'
      BY <1>1, <1>2, <1>7, <2>1 DEF HasSibling, Parent
    <2> QED
      BY <1>1, <1>2, <1>5, <1>6, <2>2 DEF Merges
  <1> QED
    BY <1>6, <1>8, <1>9, <1>10, <1>12, <1>13, OtherPhases DEF Tall

\* The left node is no page of the path above the level.
LEMMA StepMergeWriteLeft ==
    ASSUME NEW h, TypeOK, Tall(h), MergeWriteLeft
    PROVE  TypeOK' /\ Tall(h)'
  <1> DEFINE n == h[path[level]]
  <1>1. /\ pc = "merge_left" /\ pc' = "merge_parent" /\ WritePage(LeftPid, buf)
        /\ UNCHANGED <<num_pages, root_id, call, ret, view, faults>>
        /\ UNCHANGED <<path, level, buf, todo, left, ra, new_pid, sep>>
    BY DEF MergeWriteLeft, locals
  <1>2. level > 1 /\ HasSibling /\ buf \in Nodes(Pids, h, n)
    BY <1>1 DEF Tall, Merges, Merging
  <1>3. /\ level \in 2..Len(path) /\ Len(path) \in Nat \ {0} /\ Unwritten = {}
        /\ \A i \in 1..(level - 1) : IsChild(pages[path[i]], path[i + 1])
    BY <1>1, <1>2, RebalanceType DEF Merging
  <1>4. /\ LeftPid \in Pids /\ h[LeftPid] = n
    BY <1>1, <1>2, Siblings DEF Merging
  <1>5. Shape(h)' /\ pages' \in [Pids -> Page(Pids)] /\ Pids' = Pids
    BY <1>1, <1>2, <1>3, <1>4, WriteKeepsShape DEF Tall
  <1>6. ASSUME NEW i \in 1..(level - 1) PROVE pages'[path[i]] = pages[path[i]]
    <2>1. level \in 1..Len(path)
      BY <1>3
    <2>2. h[path[i]] > h[path[level]] /\ h[path[level]] \in Nat
      BY <1>1, <1>2, <2>1, PathFalls, RebalanceType DEF Tall, Merging
    <2>3. path[i] # LeftPid
      BY <1>4, <2>2
    <2> QED
      BY <1>1, <2>3 DEF WritePage, TypeOK
  <1>7. TypeOK'
    BY <1>1, <1>5 DEF TypeOK, Controls, Records
  <1>8. pc \in Merging /\ pc' \in Merging
    BY <1>1 DEF Merging
  <1>9. Walked(h)' /\ Served'
    BY <1>1, <1>8, RebalanceGoesOn
  <1>10. Linked'
    <2>1. level \in 1..Len(path)
      BY <1>3
    <2> QED
      BY <1>1, <1>3, <1>6, <2>1 DEF Linked
  <1>11. Merges(h)'
    <2>1. level - 1 \in 1..(level - 1)
      BY <1>3
    <2>2. pages'[path[level - 1]] = pages[path[level - 1]]
      BY <1>6, <2>1
    <2>3. HasSibling'
      BY <1>1, <1>2, <2>2 DEF HasSibling, Parent
    <2> QED
      BY <1>1, <1>2, <1>5, <2>3 DEF Merges
  <1> QED
    BY <1>5, <1>7, <1>8, <1>9, <1>10, <1>11, OtherPhases DEF Tall

\* The parent loses the right node; the loop goes on above.
LEMMA StepMergeWriteParent ==
    ASSUME NEW h, TypeOK, Tall(h), MergeWriteParent
    PROVE  TypeOK' /\ Tall(h)'
  <1> DEFINE p == page_remove_slot(Parent, LeftIndex)
  <1>1. /\ pc = "merge_parent" /\ pc' = "rebalance" /\ WritePage(path[level - 1], p)
        /\ level' = level - 1
        /\ UNCHANGED <<num_pages, root_id, call, ret, view, faults>>
        /\ UNCHANGED <<path, buf, todo, left, ra, new_pid, sep>>
    BY DEF MergeWriteParent
  <1>2. level > 1 /\ HasSibling
    BY <1>1 DEF Tall, Merges, Merging
  <1>3. /\ level \in 2..Len(path) /\ Len(path) \in Nat \ {0} /\ Unwritten = {}
        /\ path[level - 1] \in Pids /\ h[path[level]] \in Nat
        /\ h[path[level - 1]] = h[path[level]] + 1
        /\ Parent \in Nodes(Pids, h, h[path[level]] + 1)
        /\ \A i \in 1..(level - 1) : IsChild(pages[path[i]], path[i + 1])
    BY <1>1, <1>2, RebalanceType DEF Merging
  <1>4. LeftIndex \in 1..Len(Parent.slots)
    BY <1>1, <1>2, Siblings DEF Merging
  <1>5. p \in Nodes(Pids, h, h[path[level - 1]])
    BY <1>3, <1>4, RemoveSlot
  <1> HIDE DEF p
  <1>6. Shape(h)' /\ pages' \in [Pids -> Page(Pids)] /\ Pids' = Pids
    BY <1>1, <1>3, <1>5, WriteKeepsShape DEF Tall
  <1>7. level' \in 1..Len(path) /\ level' \in Nat
    BY <1>1, <1>3
  <1>8. TypeOK'
    BY <1>1, <1>6, <1>7 DEF TypeOK, Controls, Records
  <1>9. pc \in Merging
    BY <1>1 DEF Merging
  <1>10. Walked(h)' /\ Served'
    BY <1>1, <1>9, RebalanceGoesOn
  <1>11. Linked'
    <2>1. ASSUME NEW i \in 1..(level' - 1) PROVE IsChild(pages'[path[i]], path[i + 1])
      <3>1. level - 1 \in 1..Len(path) /\ i \in 1..(level - 1 - 1) /\ i \in 1..(level - 1)
        BY <1>1, <1>3
      <3>2. path[i] # path[level - 1]
        BY <1>1, <3>1, PathFalls DEF Tall
      <3>3. pages'[path[i]] = pages[path[i]]
        BY <1>1, <3>2 DEF WritePage, TypeOK
      <3> QED
        BY <1>3, <3>1, <3>3
    <2> QED
      BY <1>1, <1>7, <2>1 DEF Linked
  <1> QED
    BY <1>1, <1>6, <1>8, <1>10, <1>11, OtherPhases DEF Tall

\* At the root the delete ends, or the root gives way to its only child.
LEMMA StepShrinkRoot ==
    ASSUME NEW h, TypeOK, Tall(h), ShrinkRoot
    PROVE  TypeOK' /\ Tall(h)'
  <1>1. /\ pc = "rebalance" /\ level = 1
        /\ UNCHANGED <<pages, num_pages, call, view, locals, faults>>
    BY DEF ShrinkRoot
  <1>2. Unwritten = {} /\ faults' \in 0..MaxFaults
    BY <1>1, NoneUnwritten DEF TypeOK
  <1>3. CASE ReturnWith(OK(NoVal)) /\ UNCHANGED root_id
    BY <1>1, <1>2, <1>3, AnswersType, EndsCallUnwritten DEF store
  <1>4. CASE /\ root_id' = pages[path[1]].first_child_id
             /\ pc' = "shrink_write" /\ UNCHANGED ret
    <2>1. UNCHANGED <<path, level, buf, todo, left, ra, new_pid, sep>>
      BY <1>1 DEF locals
    <2>2. path[1] \in Pids
      <3>1. Len(path) \in Nat \ {0} /\ \A i \in 1..Len(path) : path[i] \in Pids
        BY <1>1, PathType DEF Tall
      <3> QED
        BY <3>1
    <2>3. root_id' \in Pids
      BY <1>4, <2>2 DEF TypeOK, Page
    <2>4. Shape(h)' /\ pages' \in [Pids -> Page(Pids)] /\ Pids' = Pids
      BY <1>1, <1>2, NoWriteKeepsShape DEF Tall
    <2>5. TypeOK'
      BY <1>1, <1>4, <2>1, <2>3, <2>4 DEF TypeOK, Controls, Records
    <2>6. Walked(h)' /\ Served'
      BY <1>1, <1>4, <2>1, RebalanceGoesOn
    <2> QED
      BY <1>4, <2>4, <2>5, <2>6, OtherPhases DEF Tall
  <1> QED
    BY <1>3, <1>4 DEF ShrinkRoot

\* The new root has no parent.
LEMMA StepShrinkWrite ==
    ASSUME NEW h, TypeOK, Tall(h), ShrinkWrite
    PROVE  TypeOK' /\ Tall(h)'
  <1>1. /\ pc = "shrink_write" /\ ReturnWith(OK(NoVal))
        /\ WritePage(root_id, [pages[root_id] EXCEPT !.parent_id = INVALID_PAGE_ID])
        /\ UNCHANGED <<num_pages, root_id, call, view, locals, faults>>
    BY DEF ShrinkWrite
  <1>2. Unwritten = {} /\ root_id \in Pids /\ INVALID_PAGE_ID \in Pids
    BY <1>1, NoneUnwritten, PidsType DEF TypeOK, INVALID_PAGE_ID
  <1>3. Shape(h)' /\ pages' \in [Pids -> Page(Pids)] /\ Pids' = Pids
    BY <1>1, <1>2, SetParentKeepsShape DEF Tall
  <1>4. root_id' \in Pids /\ faults' \in 0..MaxFaults
    BY <1>1 DEF TypeOK
  <1> QED
    BY <1>1, <1>3, <1>4, AnswersType, EndsCall

-----------------------------------------------------------------------------
(***************************************************************************)
(* The invariant.                                                          *)
(***************************************************************************)

\* btree_create makes a tree of one leaf.
LEMMA InitIInv == Init => IInv
  <1> SUFFICES ASSUME Init PROVE IInv
    OBVIOUS
  <1>1. Pids = {0}
    BY DEF Init, Pids
  <1> DEFINE h == [pid \in Pids |-> 0]
  <1>2. page_init("PAGE_LEAF") \in Nodes(Pids, h, 0)
    BY <1>1, LeafInit
  <1>3. page_init("PAGE_LEAF") \in Page(Pids) /\ EmptyPage \in Page(Pids)
    BY <1>2, NodeIsPage DEF EmptyPage
  <1>4. pages \in [Pids -> Page(Pids)]
    BY <1>1, <1>3 DEF Init
  <1>5. /\ << >> \in Seq(Pids) /\ << >> \in Seq(Records) /\ INVALID_PAGE_ID \in Pids
    BY <1>1, EmptySeq DEF INVALID_PAGE_ID
  <1>6. TypeOK
    BY <1>1, <1>3, <1>4, <1>5, BoundsAssumption DEF Init, TypeOK, Controls, NoRet
  <1>7. Unwritten = {}
    BY NoneUnwritten DEF Init
  <1>8. Shape(h)
    BY <1>1, <1>2, <1>7 DEF Init, Shape
  <1>9. Walked(h) /\ Served /\ Linked
    BY DEF Init, Walked, Served, Linked, LeafSplitting, ParentSplitting, RootBuilding, Merging
  <1>10. SplitsLeaf(h) /\ GoesUp(h) /\ SplitsParent(h) /\ BuildsRoot(h) /\ Merges(h)
    BY DEF Init, SplitsLeaf, GoesUp, SplitsParent, BuildsRoot, Merges, LeafSplitting,
           ParentSplitting, RootBuilding, Merging
  <1>11. Tall(h)
    BY <1>8, <1>9, <1>10 DEF Tall
  <1> QED
    BY <1>6, <1>11 DEF IInv

\* Nothing happens after undefined behaviour.
LEMMA UndefinedStops ==
    ASSUME TypeOK, Next, pc = "undefined"
    PROVE  FALSE
  <1>1. ~Step
    BY DEF Step, Descend, GetLeaf, IOError, Return, CheckedIO, PutStep, PutInPlace, PutSplit,
           PlaceRecord, Filling, SplitAlloc, SplitWriteLeft, SplitWriteRight, SplitFixNext,
           SplitFixPrev, GarbageRead, ParentInsert, ParentSplit, ParentWriteLeft, ParentAlloc,
           ParentSetMedian, PlaceChild, ParentWriteRight, NewRootAlloc, NewRootSetLeft,
           NewRootSetRight, NewRootWrite, OutOfMemory, CollectFailed, SplitCases, DeleteStep,
           DeleteMissing, DeleteLeaf, RebalanceEnd, RebalanceNull, MergeStart, MergeFixNext,
           MergeWriteLeft, MergeWriteParent, ShrinkRoot, ShrinkWrite
  <1>2. \A c \in Ops : ~Invoke(c)
    BY DEF Invoke
  <1> QED
    BY <1>1, <1>2 DEF Next

\* Between two calls only the pages count.
LEMMA IdleIsTall ==
    ASSUME NEW h, Shape(h)', pc' = "idle"
    PROVE  Tall(h)'
  <1>1. Walked(h)' /\ Served' /\ Linked'
    BY DEF Walked, Served, Linked, LeafSplitting, ParentSplitting, RootBuilding, Merging
  <1>2. SplitsLeaf(h)' /\ GoesUp(h)' /\ SplitsParent(h)' /\ BuildsRoot(h)' /\ Merges(h)'
    BY DEF SplitsLeaf, GoesUp, SplitsParent, BuildsRoot, Merges, LeafSplitting,
           ParentSplitting, RootBuilding, Merging
  <1> QED
    BY <1>1, <1>2 DEF Tall

\* The invariant is about the variables of the tree only.
LEMMA SameVarsTall ==
    ASSUME TypeOK, UNCHANGED vars
    PROVE  TypeOK' /\ pc' = pc /\ \A h : Tall(h) => Tall(h)'
  <1>1. UNCHANGED <<pages, num_pages, root_id, call, ret, view, pc, faults>>
        /\ UNCHANGED <<path, level, buf, todo, left, ra, new_pid, sep>>
    BY DEF vars, store, locals
  <1>2. TypeOK' /\ pc' = pc
    BY <1>1 DEF TypeOK, Records, Pids
  <1>3. ASSUME NEW h, Tall(h) PROVE Tall(h)'
    BY <1>1, <1>3
    DEF Tall, Shape, Walked, Served, Linked, SplitsLeaf, GoesUp, SplitsParent, BuildsRoot,
        Merges, Unwritten, Pids, HasSibling, Parent
  <1> QED
    BY <1>2, <1>3

LEMMA SameVarsIInv ==
    ASSUME IInv, UNCHANGED vars
    PROVE  IInv'
  BY SameVarsTall DEF IInv

\* Every step of the specification keeps the invariant, when it is no failure in a put.
LEMMA NextIInv ==
    ASSUME NoPutFailed', IInv, [Next]_vars
    PROVE  IInv'
  <1>1. CASE UNCHANGED vars
    BY <1>1, SameVarsIInv
  <1>2. CASE Next
    <2>1. TypeOK /\ pc # "undefined"
      BY <1>2, UndefinedStops DEF IInv
    <2>2. PICK h : Tall(h)
      BY <2>1 DEF IInv
    <2>3. CASE \E c \in Ops : Invoke(c)
      BY <2>1, <2>2, <2>3, StepInvoke DEF IInv
    <2>4. CASE Descend \/ GetLeaf \/ IOError \/ Return
      BY <2>1, <2>2, <2>4, StepDescend, StepAnswer, StepIOError, StepReturn DEF IInv
    <2>5. CASE PutStep
      <3>1. CASE PutInPlace \/ PutSplit \/ PlaceRecord \/ SplitAlloc
        BY <2>1, <2>2, <3>1, StepPutInPlace, StepPutSplit, StepPlaceRecord, StepSplitAlloc
        DEF IInv
      <3>2. CASE \/ SplitWriteLeft \/ SplitWriteRight \/ SplitFixNext \/ SplitFixPrev
                 \/ GarbageRead \/ OutOfMemory \/ CollectFailed
        BY <2>1, <2>2, <3>2, StepSplitWrite, StepSplitFix, PutNeverFails DEF IInv
      <3>3. CASE ParentInsert \/ ParentSplit \/ ParentWriteLeft \/ ParentAlloc
        BY <2>1, <2>2, <3>3, StepParentInsert, StepParentSplit, StepParentWriteLeft,
           StepParentAlloc
        DEF IInv
      <3>4. CASE ParentSetMedian \/ PlaceChild \/ ParentWriteRight
        BY <2>1, <2>2, <3>4, StepPlaceChild, StepParentWriteRight DEF IInv
      <3>5. CASE NewRootAlloc \/ NewRootSetLeft \/ NewRootSetRight \/ NewRootWrite
        BY <2>1, <2>2, <3>5, StepNewRootAlloc, StepNewRootSet, StepNewRootWrite DEF IInv
      <3> QED
        BY <2>5, <3>1, <3>2, <3>3, <3>4, <3>5 DEF PutStep
    <2>6. CASE DeleteStep
      <3>1. CASE DeleteMissing \/ DeleteLeaf \/ RebalanceEnd \/ RebalanceNull
        BY <2>1, <2>2, <3>1, StepAnswer, StepDeleteLeaf, StepRebalanceEnd, StepRebalanceNull
        DEF IInv
      <3>2. CASE MergeStart \/ MergeFixNext \/ MergeWriteLeft \/ MergeWriteParent
        BY <2>1, <2>2, <3>2, StepMergeStart, StepMergeFixNext, StepMergeWriteLeft,
           StepMergeWriteParent
        DEF IInv
      <3>3. CASE ShrinkRoot \/ ShrinkWrite
        BY <2>1, <2>2, <3>3, StepShrinkRoot, StepShrinkWrite DEF IInv
      <3> QED
        BY <2>6, <3>1, <3>2, <3>3 DEF DeleteStep
    <2> QED
      BY <1>2, <2>3, <2>4, <2>5, <2>6 DEF Next, Step
  <1> QED
    BY <1>1, <1>2

\* Failures are only ever added up.
LEMMA FailuresAddUp ==
    ASSUME [Next]_vars
    PROVE  faults' \in {faults, faults + 1}
  <1>1. CASE UNCHANGED vars
    BY <1>1 DEF vars
  <1>2. CASE \E c \in Ops : Invoke(c)
    BY <1>2 DEF Invoke
  <1>3. CASE Descend \/ GetLeaf \/ IOError \/ Return
    BY <1>3 DEF Descend, GetLeaf, IOError, Return, Fail
  <1>4. CASE DeleteStep
    BY <1>4
    DEF DeleteStep, DeleteMissing, DeleteLeaf, RebalanceEnd, RebalanceNull, MergeStart,
        MergeFixNext, MergeWriteLeft, MergeWriteParent, ShrinkRoot, ShrinkWrite
  <1>5. CASE PutStep
    <2>1. CASE PutInPlace \/ PutSplit \/ PlaceRecord \/ SplitAlloc \/ SplitWriteLeft
               \/ SplitWriteRight \/ SplitFixNext \/ SplitFixPrev \/ GarbageRead
      BY <2>1
      DEF PutInPlace, PutSplit, PlaceRecord, SplitAlloc, SplitWriteLeft, SplitWriteRight,
          SplitFixNext, SplitFixPrev, GarbageRead, Collect, WriteUnchecked, Fail
    <2>2. CASE ParentInsert \/ ParentSplit \/ ParentWriteLeft \/ ParentAlloc
               \/ ParentSetMedian \/ PlaceChild \/ ParentWriteRight
      BY <2>2
      DEF ParentInsert, ParentSplit, ParentWriteLeft, ParentAlloc, ParentSetMedian, PlaceChild,
          ParentWriteRight, SetParent, Collect, WriteUnchecked, Fail
    <2>3. CASE NewRootAlloc \/ NewRootSetLeft \/ NewRootSetRight \/ NewRootWrite
               \/ OutOfMemory \/ CollectFailed
      BY <2>3
      DEF NewRootAlloc, NewRootSetLeft, NewRootSetRight, NewRootWrite, OutOfMemory,
          CollectFailed, SetParent, WriteUnchecked, Fail
    <2> QED
      BY <1>5, <2>1, <2>2, <2>3 DEF PutStep
  <1> QED
    BY <1>1, <1>2, <1>3, <1>4, <1>5 DEF Next, Step

\* The inductive invariant holds as long as no callback or malloc has failed in a put.
LEMMA AlwaysIInv == Spec => [](NoPutFailed => IInv)
  <1> DEFINE Inv == faults \in Nat /\ (NoPutFailed => IInv)
  <1>1. Init => Inv
    BY InitIInv DEF Init
  <1>2. Inv /\ [Next]_vars => Inv'
    <2> SUFFICES ASSUME Inv, [Next]_vars PROVE Inv'
      OBVIOUS
    <2>1. faults' \in {faults, faults + 1}
      BY FailuresAddUp
    <2>2. faults' \in Nat /\ (NoPutFailed' => NoPutFailed)
      BY <2>1 DEF NoPutFailed
    <2>3. ASSUME NoPutFailed' PROVE IInv'
      BY <2>2, <2>3, NextIInv
    <2> QED
      BY <2>2, <2>3
  <1>3. Inv => (NoPutFailed => IInv)
    OBVIOUS
  <1> QED
    BY <1>1, <1>2, <1>3, PTL DEF Spec

\* Every page is well formed and every page id of the tree is allocated, at every step of
\* every call (TypeOK), as long as no put has met a failing callback or malloc, and up to
\* the undefined behaviour of a slot that is written over its record (SlotOverlaysRecord),
\* from where there is no step.
THEOREM TreeTypeOK == Spec => [](NoPutFailed => TypeOK)
  <1>1. IInv => TypeOK
    BY DEF IInv
  <1> QED
    BY <1>1, AlwaysIInv, PTL

\* The loop of rebalance_after_delete finds the node it looks at in its parent: the code
\* for a corrupted tree is never reached, whichever callback fails in a get or a delete,
\* by any steps the program takes before a behaviour that C does not define.
THEOREM DeleteNeverCorrupted == Spec => [](NoPutFailed => NodeIsChildOfParent)
  <1>1. IInv => NodeIsChildOfParent
    BY RebalanceType DEF IInv, NodeIsChildOfParent
  <1> QED
    BY <1>1, AlwaysIInv, PTL

-----------------------------------------------------------------------------
(***************************************************************************)
(* All leaves are at the same depth.                                       *)
(***************************************************************************)

\* The children of an internal page.
LEMMA ChildrenType ==
    ASSUME NEW P, NEW p \in Page(P), p.type = "PAGE_INTERNAL"
    PROVE  Children(p) \subseteq P
  <1>1. p.slots \in Seq(InternalRec(P)) /\ p.first_child_id \in P /\ Len(p.slots) \in Nat
    BY LenProperties DEF Page
  <1>2. ASSUME NEW i \in 1..NumChildren(p) PROVE Child(p, i) \in P
    <2>1. CASE i = 1
      BY <1>1, <2>1 DEF Child
    <2>2. CASE i # 1
      <3>1. i - 1 \in 1..Len(p.slots)
        BY <1>1, <2>2 DEF NumChildren
      <3>2. p.slots[i - 1] \in InternalRec(P)
        BY <1>1, <3>1, ElementOfSeq
      <3> QED
        BY <2>2, <3>2 DEF Child, InternalRec
    <2> QED
      BY <2>1, <2>2
  <1> QED
    BY <1>2 DEF Children

\* The pages one level below the pages of X.
Below(X) == UNION {Children(pages[pid]) : pid \in {q \in X : pages[q].type = "PAGE_INTERNAL"}}

\* The levels of the tree are what their definition says.
LEMMA LevelSetsType ==
    ASSUME TypeOK
    PROVE  /\ LevelSets[0] = {root_id}
           /\ \A d \in 1..num_pages : LevelSets[d] = Below(LevelSets[d - 1])
  <1> DEFINE n == num_pages
             g == [X \in SUBSET Pids |-> Below(X)]
             Walk(f) == f = [d \in 0..n |-> IF d = 0 THEN {root_id} ELSE Below(f[d - 1])]
  <1>1. n \in Nat \ {0} /\ {root_id} \in SUBSET Pids
    BY DEF TypeOK
  <1>2. ASSUME NEW X \in SUBSET Pids PROVE Below(X) \in SUBSET Pids
    BY ChildrenType DEF TypeOK, Below
  <1> HIDE DEF n
  <1>3. g \in Maps(SUBSET Pids)
    BY <1>2 DEF Maps
  <1>4. PICK f : Iterates(f, SUBSET Pids, g, {root_id}, n)
    <2> HIDE DEF g
    <2> QED
      BY <1>1, <1>3, Iteration
  <1>5. Walk(f)
    <2>1. f \in [0..n -> SUBSET Pids]
      BY <1>4 DEF Iterates
    <2>2. ASSUME NEW d \in 0..n PROVE f[d] = IF d = 0 THEN {root_id} ELSE Below(f[d - 1])
      <3>1. CASE d = 0
        BY <1>4, <3>1 DEF Iterates
      <3>2. CASE d # 0
        <4>1. d \in 1..n /\ d - 1 \in 0..n
          BY <1>1, <3>2
        <4>2. f[d] = g[f[d - 1]] /\ f[d - 1] \in SUBSET Pids
          BY <1>4, <2>1, <4>1 DEF Iterates
        <4>3. g[f[d - 1]] = Below(f[d - 1])
          BY <4>2
        <4> QED
          BY <3>2, <4>2, <4>3
      <3> QED
        BY <3>1, <3>2
    <2> QED
      BY <2>1, <2>2
  <1> DEFINE w == CHOOSE f_1 : Walk(f_1)
  <1>6. Walk(w)
    BY <1>5
  <1>7. LevelSets = w
    BY DEF LevelSets, Below, n
  <1> HIDE DEF w
  <1>8. \A d \in 0..n : w[d] = IF d = 0 THEN {root_id} ELSE Below(w[d - 1])
    BY <1>6
  <1>9. 0 \in 0..n /\ \A d \in 1..n : d \in 0..n /\ d # 0
    BY <1>1
  <1> HIDE DEF Walk
  <1> QED
    BY <1>7, <1>8, <1>9 DEF n

\* Every page of a level is at the height of the level.
LEMMA LevelHeight ==
    ASSUME NEW h, TypeOK, Shape(h), Unwritten = {}, NEW d \in 0..num_pages,
           NEW p \in LevelSets[d]
    PROVE  p \in Pids /\ h[p] = h[root_id] - d
  <1> DEFINE At(e) == \A q \in LevelSets[e] : q \in Pids /\ h[q] = h[root_id] - e
             Bad == {e \in 0..num_pages : ~At(e)}
  <1>1. num_pages \in Nat /\ root_id \in Pids /\ h[root_id] \in Nat
    BY DEF TypeOK, Shape
  <1>2. At(0)
    BY <1>1, LevelSetsType
  <1>3. ASSUME NEW e \in 1..num_pages, At(e - 1) PROVE At(e)
    <2> SUFFICES ASSUME NEW q \in LevelSets[e] PROVE q \in Pids /\ h[q] = h[root_id] - e
      OBVIOUS
    <2>1. q \in Below(LevelSets[e - 1])
      BY LevelSetsType
    <2>2. PICK r \in LevelSets[e - 1] :
              pages[r].type = "PAGE_INTERNAL" /\ q \in Children(pages[r])
      BY <2>1 DEF Below
    <2>3. r \in Pids /\ h[r] = h[root_id] - (e - 1)
      BY <1>3, <2>2
    <2>4. h[r] \in Nat /\ pages[r] \in Nodes(Pids, h, h[r])
      BY <2>3, NodeAt
    <2>5. h[r] # 0
      BY <2>2, <2>4, NodeIsPage
    <2>6. PICK i \in 1..NumChildren(pages[r]) : q = Child(pages[r], i)
      BY <2>2 DEF Children
    <2>7. q \in Pids /\ h[q] = h[r] - 1
      BY <2>4, <2>5, <2>6, ChildHeight
    <2> QED
      BY <1>1, <2>3, <2>7
  <1> HIDE DEF At
  <1>4. ASSUME Bad # {} PROVE FALSE
    <2>1. Bad \in SUBSET Nat
      BY <1>1
    <2>2. PICK e \in Bad : \A k \in Bad : e <= k
      BY <1>4, <2>1, LeastNumber
    <2>3. e \in 0..num_pages /\ ~At(e) /\ e # 0
      BY <1>2, <2>2
    <2>4. e \in 1..num_pages /\ e - 1 \in 0..num_pages /\ ~(e <= e - 1)
      BY <1>1, <2>3
    <2>5. e - 1 \notin Bad
      BY <2>2, <2>4
    <2> QED
      BY <1>3, <2>3, <2>4, <2>5
  <1> QED
    BY <1>4 DEF At

\* A tree has fewer levels above the leaves than it has pages.
LEMMA FewLevels ==
    ASSUME NEW h, TypeOK, Shape(h), Unwritten = {}, NEW top \in Pids
    PROVE  h[top] < num_pages
  <1> DEFINE n == h[top]
             Bad == {d \in 0..n : ~\E p \in Pids : h[p] = n - d}
             F == [m \in 0..n |-> CHOOSE p \in Pids : h[p] = m]
  <1>1. top \in Pids /\ n \in Nat /\ num_pages \in Nat
    BY DEF TypeOK, Shape
  <1> HIDE DEF n
  <1>2. ASSUME Bad # {} PROVE FALSE
    <2>1. PICK d \in Bad : \A k \in Bad : d <= k
      <3>1. Bad \in SUBSET Nat
        BY <1>1
      <3> HIDE DEF Bad
      <3> QED
        BY <1>2, <3>1, LeastNumber
    <2>2. d \in 0..n /\ d # 0
      BY <1>1, <2>1 DEF n
    <2>3. d - 1 \in 0..n /\ ~(d <= d - 1)
      BY <1>1, <2>2
    <2>4. PICK p \in Pids : h[p] = n - (d - 1)
      BY <2>1, <2>3
    <2>5. h[p] \in Nat \ {0} /\ pages[p] \in Nodes(Pids, h, h[p])
      BY <1>1, <2>2, <2>4, NodeAt
    <2>6. pages[p].first_child_id \in Pids /\ h[pages[p].first_child_id] = h[p] - 1
      BY <2>5 DEF Nodes
    <2>7. h[p] - 1 = n - d
      BY <1>1, <2>2, <2>4
    <2> QED
      BY <2>1, <2>6, <2>7
  <1>3. ASSUME NEW m \in 0..n PROVE \E p \in Pids : h[p] = m
    <2>1. n - m \in 0..n /\ n - (n - m) = m
      BY <1>1
    <2> QED
      BY <1>2, <2>1
  <1>4. ASSUME NEW m \in 0..n PROVE F[m] \in Pids /\ h[F[m]] = m
    BY <1>3
  <1> HIDE DEF F
  <1>5. F \in [0..n -> Pids]
    BY <1>4 DEF F
  <1>6. F \in Injection(0..n, Pids)
    BY <1>4, <1>5 DEF Injection, IsInjective
  <1>7. IsFiniteSet(Pids) /\ Cardinality(Pids) = num_pages
    BY <1>1, FS_Interval DEF Pids
  <1>8. Cardinality(0..n) = n + 1
    BY <1>1, FS_Interval
  <1>9. Cardinality(0..n) <= Cardinality(Pids)
    BY <1>6, <1>7, FS_Injection
  <1> QED
    BY <1>1, <1>7, <1>8, <1>9 DEF n

\* The pages at a distance from the root are at a height of their own.
LEMMA OneDepth == IInv => UniformDepth
  <1>1. ASSUME IInv, Idle PROVE UniformDepth
    <2>1. PICK h : Tall(h)
      BY <1>1 DEF IInv, Idle
    <2>2. TypeOK /\ Shape(h) /\ Unwritten = {}
      BY <1>1, <2>1, NoneUnwritten DEF IInv, Idle, Tall
    <2>3. num_pages \in Nat /\ root_id \in Pids /\ h[root_id] \in Nat
      BY <2>2 DEF TypeOK, Shape
    <2>4. LevelSets[num_pages] = {}
      <3>1. ASSUME NEW p \in LevelSets[num_pages] PROVE FALSE
        <4>1. num_pages \in 0..num_pages
          BY <2>3
        <4>2. p \in Pids /\ h[p] = h[root_id] - num_pages
          BY <2>2, <4>1, LevelHeight
        <4>3. h[p] \in Nat
          BY <2>2, <4>2 DEF Shape
        <4> QED
          BY <2>2, <2>3, <4>2, <4>3, FewLevels
      <3> QED
        BY <3>1
    <2>5. ASSUME NEW d \in 0..num_pages, NEW p \in LevelSets[d], NEW q \in LevelSets[d]
          PROVE  pages[p].type = pages[q].type
      <3>1. p \in Pids /\ q \in Pids /\ h[p] = h[q]
        BY <2>2, LevelHeight
      <3>2. /\ pages[p] \in Nodes(Pids, h, h[p]) /\ pages[q] \in Nodes(Pids, h, h[q])
        BY <2>2, <3>1, NodeAt
      <3> QED
        BY <3>1, <3>2 DEF Nodes
    <2> QED
      BY <2>4, <2>5 DEF UniformDepth
  <1> QED
    BY <1>1 DEF UniformDepth

\* Between two calls all leaves are at the same depth and no page is below itself
\* (UniformDepth), as long as no put has met a failing callback or malloc: splits, merges
\* and the shrinking root keep it, whatever fails in a delete.  A program that has written
\* a slot over its record (SlotOverlaysRecord) does not come to such a state any more.
THEOREM LeavesAtOneDepth == Spec => [](NoPutFailed => UniformDepth)
  BY OneDepth, AlwaysIInv, PTL
=============================================================================
