----------------------------- MODULE BTreeProps -----------------------------
(***************************************************************************)
(* The properties of the tree of module BTree.                             *)
(***************************************************************************)
EXTENDS BTree

(***************************************************************************)
(* The shape of the tree, read from the root.                              *)
(***************************************************************************)
Children(p) == {Child(p, i) : i \in 1..NumChildren(p)}

\* The pages at distance d from the root.
LevelSets ==
    LET at[d \in 0..num_pages] ==
            IF d = 0 THEN {root_id}
            ELSE UNION {Children(pages[pid]) :
                            pid \in {q \in at[d - 1] : pages[q].type = "PAGE_INTERNAL"}}
    IN  at

Reachable == LET levels == LevelSets IN UNION {levels[d] : d \in 0..num_pages}
Leaves == {pid \in Reachable : pages[pid].type = "PAGE_LEAF"}

\* The leaves met when next_id is followed from the leftmost leaf.
Chain ==
    LET down[d \in 0..num_pages] ==
            IF d = 0 THEN root_id
            ELSE LET pid == down[d - 1]
                 IN  IF pages[pid].type = "PAGE_LEAF" THEN pid
                     ELSE pages[pid].first_child_id
        from[d \in 0..num_pages] ==
            IF d = 0 THEN <<down[num_pages]>>
            ELSE LET met == from[d - 1]
                     next == pages[Last(met)].next_id
                 IN  IF next = INVALID_PAGE_ID THEN met ELSE Append(met, next)
    IN  from[num_pages]

ScanRecords ==
    FoldLeft(LAMBDA s, pid : s \o pages[pid].slots, << >>, Chain)

Idle == pc = "idle"

\* Between two calls, as long as no callback or malloc has failed.
Intact == Idle /\ faults = 0

-----------------------------------------------------------------------------
(***************************************************************************)
(* Type correctness of btree.c's state: every page is a well-formed leaf   *)
(* or internal node, and every page id anywhere - root_id, child and       *)
(* sibling pointers, the path, the page being built, the separator going   *)
(* up - is an allocated page, at every step of every call.                 *)
(***************************************************************************)
Controls ==
    {"idle", "descend", "return", "undefined", "get", "put", "split_alloc",
     "split_left", "split_right", "split_next", "split_prev", "propagate",
     "parent_left", "parent_alloc", "parent_median", "parent_right", "root_left",
     "root_right", "root_write", "delete", "rebalance", "merge_next",
     "merge_left", "merge_parent", "shrink_write"}

Records == LeafRec \cup InternalRec(Pids)

TypeOK ==
    /\ num_pages \in Nat \ {0}
    /\ pages \in [Pids -> Page(Pids)]
    /\ root_id \in Pids
    /\ call \in Ops \cup {NoCall}
    /\ ret \in [status : {"none", "BTREE_OK", "BTREE_NOT_FOUND", "BTREE_IO_ERROR",
                          "BTREE_OUT_OF_MEMORY", "BTREE_CORRUPTED"},
                val : Vals \cup {NoVal}]
    /\ view \in [Keys -> Vals \cup {NoVal}]
    /\ pc \in Controls
    /\ path \in Seq(Pids)
    /\ level \in Nat
    /\ buf \in Page(Pids) /\ left \in Page(Pids)
    /\ todo \in Seq(Records) /\ ra \in Seq(Records)
    /\ new_pid \in Pids
    /\ sep \in InternalRec(Pids) \cup {NoSep}
    /\ faults \in 0..MaxFaults

\* As long as no callback fails, slots stay in strict key order in every page at every
\* step: this is what the binary searches of leaf_find_key and internal_find_child rely on.
\* (A merge that is repeated after its last write failed puts records in a page twice.)
AllSlotsSorted == faults = 0 => \A pid \in Pids : SlotsSorted(pages[pid])

\* Even after a callback or a malloc has failed in a put: the leaves are in strict order
\* and the separators never descend (a lost leaf write can promote one twice), so that
\* the binary searches still work.
StillSearchable ==
    \A pid \in Pids :
        /\ pages[pid].type = "PAGE_LEAF" => SlotsSorted(pages[pid])
        /\ \A i, j \in DOMAIN pages[pid].slots :
               i < j => pages[pid].slots[i].key <= pages[pid].slots[j].key

\* All leaves are at the same depth (README, section on the B+ tree) and no page is
\* its own descendant, between any two calls, through splits, merges and root shrink.
UniformDepth ==
    Idle =>
        LET levels == LevelSets
        IN  /\ levels[num_pages] = {}
            /\ \A d \in 0..num_pages :
                   \A p, q \in levels[d] : pages[p].type = pages[q].type

\* Following next_id from the leftmost leaf (what cursors do) meets every leaf of the
\* tree and no other page, and yields exactly the map that btree_get reads, in
\* strictly ascending key order.
ScanIsTheMap ==
    Intact =>
        LET recs == ScanRecords
        IN  /\ ToSet(Chain) = Leaves
            /\ \A i, j \in DOMAIN recs : i < j => recs[i].key < recs[j].key
            /\ ToSet(recs) = {[key |-> k, val |-> view[k]] :
                                  k \in {x \in Keys : view[x] # NoVal}}

\* prev_id mirrors next_id along the chain, and the first leaf has no predecessor.
PrevMirrorsNext ==
    Intact =>
        LET chain == Chain
        IN  /\ pages[Head(chain)].prev_id = INVALID_PAGE_ID
            /\ \A i \in 1..(Len(chain) - 1) : pages[chain[i + 1]].prev_id = chain[i]

\* parent_id of every node is the node it hangs from, and the root has none: what
\* set_parent_id is called for in the splits, the new root and the root shrink.
ParentLinks ==
    Intact =>
        /\ pages[root_id].parent_id = INVALID_PAGE_ID
        /\ \A pid \in Reachable \ Leaves :
               \A c \in Children(pages[pid]) : pages[c].parent_id = pid

\* While the upward loop of rebalance_after_delete runs, the node it looks at is a
\* child of the parent above it: BTREE_CORRUPTED is never returned by a delete.
NodeIsChildOfParent ==
    pc = "rebalance" /\ level > 1 => IsChild(Parent, path[level])

\* btree_put, btree_get and btree_delete implement an ordered map.
KV == INSTANCE KVMap WITH kv <- view, ret <- IF pc = "return" THEN NoRet ELSE ret

ImplementsMap == KV!Spec

\* Every call returns, whichever callback or malloc fails on the way: neither the
\* descent, nor the split going up, nor the rebalancing loops forever.  A call that has
\* run into undefined behaviour promises nothing.
EveryCallReturns == (pc \notin {"idle", "undefined"}) ~> (pc \in {"idle", "undefined"})

\* A delete that returns BTREE_IO_ERROR half-way through its page writes changes the
\* value of no other key: the record is out of its leaf before anything else, and the
\* sibling's records are in the left page before the parent drops the right one.  Merges
\* above the leaves are left out: they lose keys without a failure (DeleteKeepsOthers).
FailedDeleteIsolated ==
    [][Return /\ call.op = "delete" /\ ret = IO_ERROR /\ Len(path) <= 2
        => \A k \in Keys \ {call.key} : view'[k] = view[k]]_vars

-----------------------------------------------------------------------------
(***************************************************************************)
(* What comments and tests of the repository say and the code does not do. *)
(***************************************************************************)

\* test_btree_delete_massive: after deletes through several levels of merges, the
\* keys that were not deleted are still found.
DeleteKeepsOthers ==
    [][Return /\ call.op = "delete"
        => \A k \in Keys \ {call.key} : view'[k] = view[k]]_vars

\* README, split: the records are divided over the two pages.  A put that returned
\* BTREE_OK is found, and every other key keeps its value.
SplitKeepsRecords ==
    [][Return /\ call.op = "put" /\ ret = OK(NoVal) /\ faults = 0
        => view' = [view EXCEPT ![call.key] = call.val]]_vars
=============================================================================
