------------------------------- MODULE BTree -------------------------------
(***************************************************************************)
(* btree.c: btree_put, btree_get and btree_delete of one tree, called one  *)
(* after the other by one client (the calls of a writer under the tree's   *)
(* write lock).                                                            *)
(*                                                                         *)
(* Every call is a sequence of steps.  A step ends where the code reads,   *)
(* writes or allocates a page through its I/O callbacks, so the states     *)
(* between two page writes are states of the model.  The loops that fill a *)
(* page with page_alloc_slot are one step per record.                      *)
(*                                                                         *)
(* pages is what the callbacks read.  An I/O callback may fail, at most    *)
(* MaxFaults times: where the code tests the result the call returns       *)
(* BTREE_IO_ERROR (IOError), where it does not the write is simply lost.   *)
(* A failed malloc counts as a failure, too (OutOfMemory).                 *)
(* pc = "undefined" is a state in which the C program has no meaning any   *)
(* more; no step leaves it.                                                *)
(***************************************************************************)
EXTENDS PageSlots

CONSTANTS
    NoVal,      \* the absence of a value
    Ops,        \* the calls the client makes: records [op, key, val]
    MaxPages,   \* bound: no put is called once more pages are allocated
    MaxFaults,  \* bound: how many I/O callbacks or mallocs fail
    FaultyOps,  \* bound: the operations they fail in
    GiveUp      \* bound: the client makes no call after that many failures

ASSUME NoValAssumption == NoVal \notin Vals
ASSUME OpsAssumption ==
    Ops \subseteq [op : {"put"}, key : Keys, val : Vals]
                    \cup [op : {"get", "delete"}, key : Keys, val : {NoVal}]
ASSUME BoundsAssumption ==
    /\ MaxPages \in Nat /\ MaxFaults \in Nat /\ GiveUp \in Nat
    /\ FaultyOps \subseteq {"put", "get", "delete"}

VARIABLES
    pages,      \* the pages behind the I/O callbacks: page id -> page
    num_pages,  \* the number of allocated pages; the next page id
    root_id,    \* tree->root_id
    call, ret,  \* the call being served and its answer
    view,       \* the map a caller could read when the last call returned
    pc,         \* the next step of the call
    path,       \* path_t: the page ids from the root down
    level,      \* the level of path the upward loops are at
    buf,        \* the page being filled
    todo,       \* the records still to be placed in buf
    left,       \* the finished left half of a leaf split
    ra,         \* the records of the right half of a split (rec_array_t)
    new_pid,    \* the page allocated last
    sep,        \* the separator going up: [key, child] (cur_sep, cur_pid)
    faults      \* I/O failures so far

store == <<pages, num_pages, root_id>>
locals == <<path, level, buf, todo, left, ra, new_pid, sep>>
vars == <<store, call, ret, view, pc, locals, faults>>

Pids == 0..(num_pages - 1)

NoCall == [op |-> "none"]
NoRet == [status |-> "none", val |-> NoVal]
OK(v) == [status |-> "BTREE_OK", val |-> v]
NOT_FOUND == [status |-> "BTREE_NOT_FOUND", val |-> NoVal]
IO_ERROR == [status |-> "BTREE_IO_ERROR", val |-> NoVal]
OUT_OF_MEMORY == [status |-> "BTREE_OUT_OF_MEMORY", val |-> NoVal]
CORRUPTED == [status |-> "BTREE_CORRUPTED", val |-> NoVal]

\* The values of the locals between two calls.
EmptyPage == page_init("PAGE_LEAF")
NoSep == [key |-> NoVal, child |-> INVALID_PAGE_ID]

ResetLocals ==
    /\ path' = << >> /\ level' = 0
    /\ buf' = EmptyPage /\ todo' = << >> /\ left' = EmptyPage
    /\ ra' = << >> /\ new_pid' = INVALID_PAGE_ID /\ sep' = NoSep

-----------------------------------------------------------------------------
(***************************************************************************)
(* What btree_get would answer for a key in the current pages: the walk of *)
(* build_path, then the search of the leaf.  The walk is a function of the *)
(* number of steps; a tree never has more levels than pages.               *)
(***************************************************************************)
LeafFor(k) ==
    LET walk[d \in 0..num_pages] ==
            IF d = 0 THEN root_id
            ELSE LET pid == walk[d - 1]
                 IN  IF pages[pid].type = "PAGE_LEAF" THEN pid
                     ELSE internal_find_child(pages[pid], k)
    IN  walk[num_pages]

ValueIn(p, k) ==
    IF HasKey(p, k) THEN p.slots[Rank(p.slots, k)].val ELSE NoVal

Lookup(k) ==
    LET leaf == pages[LeafFor(k)]
    IN  IF leaf.type = "PAGE_LEAF" THEN ValueIn(leaf, k) ELSE NoVal

-----------------------------------------------------------------------------
(***************************************************************************)
(* The I/O callbacks.                                                      *)
(***************************************************************************)
\* A callback, or a malloc, fails.
Fail ==
    /\ faults < MaxFaults /\ call.op \in FaultyOps
    /\ faults' = faults + 1

WritePage(pid, p) == pages' = [pages EXCEPT ![pid] = p]

\* A write whose result the code does not look at.
WriteUnchecked(pid, p) ==
    \/ WritePage(pid, p) /\ UNCHANGED faults
    \/ Fail /\ UNCHANGED pages

\* Mutant of AllocPage: the page count after the increment is taken as the id.
AllocPage_PreIncrement(type) ==
    /\ new_pid' = num_pages + 1
    /\ num_pages' = num_pages + 1
    /\ pages' = [pid \in 0..num_pages |->
                    IF pid = num_pages THEN page_init(type) ELSE pages[pid]]

\* alloc_page: the new page is initialised behind the callback.
AllocPage(type) ==
    /\ new_pid' = num_pages
    /\ num_pages' = num_pages + 1
    /\ pages' = [pid \in 0..num_pages |->
                    IF pid = num_pages THEN page_init(type) ELSE pages[pid]]

\* set_parent_id; its result is never looked at.
SetParent(child, parent) ==
    WriteUnchecked(child, [pages[child] EXCEPT !.parent_id = parent])

ReturnWith(r) == pc' = "return" /\ ret' = r

-----------------------------------------------------------------------------
(***************************************************************************)
(* btree_create, the calls and their return.                               *)
(***************************************************************************)
Init ==
    /\ pages = [pid \in 0..0 |-> page_init("PAGE_LEAF")]
    /\ num_pages = 1
    /\ root_id = 0
    /\ call = NoCall /\ ret = NoRet
    /\ view = [k \in Keys |-> NoVal]
    /\ pc = "idle"
    /\ path = << >> /\ level = 0
    /\ buf = EmptyPage /\ todo = << >> /\ left = EmptyPage
    /\ ra = << >> /\ new_pid = INVALID_PAGE_ID /\ sep = NoSep
    /\ faults = 0

Invoke(c) ==
    /\ pc = "idle" /\ faults < GiveUp
    /\ c.op = "put" => num_pages <= MaxPages
    /\ call' = c
    /\ ret' = NoRet
    /\ path' = <<root_id>>
    /\ pc' = "descend"
    /\ UNCHANGED <<store, view, level, buf, todo, left, ra, new_pid, sep, faults>>

Return ==
    /\ pc = "return"
    /\ call' = NoCall
    /\ view' = [k \in Keys |-> Lookup(k)]
    /\ pc' = "idle"
    /\ ResetLocals
    /\ UNCHANGED <<store, ret, faults>>

\* One iteration of build_path.
Descend ==
    /\ pc = "descend"
    /\ LET p == pages[Last(path)]
       IN  IF p.type = "PAGE_LEAF"
           THEN pc' = call.op /\ UNCHANGED path
           ELSE path' = Append(path, internal_find_child(p, call.key)) /\ UNCHANGED pc
    /\ UNCHANGED <<store, call, ret, view, level, buf, todo, left, ra, new_pid, sep, faults>>

\* Where the code tests the result of an I/O callback, a failure ends the call.
CheckedIO ==
    {"descend", "put", "split_alloc", "propagate", "parent_alloc", "delete",
     "rebalance", "merge_next", "merge_left", "merge_parent", "shrink_write"}

IOError ==
    /\ pc \in CheckedIO /\ todo = << >>
    /\ Fail
    /\ ReturnWith(IO_ERROR)
    /\ UNCHANGED <<store, call, view, locals>>

GetLeaf ==
    /\ pc = "get"
    /\ LET leaf == pages[Last(path)]
       IN  ReturnWith(IF HasKey(leaf, call.key)
                      THEN OK(ValueIn(leaf, call.key)) ELSE NOT_FOUND)
    /\ UNCHANGED <<store, call, view, locals, faults>>

-----------------------------------------------------------------------------
(***************************************************************************)
(* btree_put on the leaf: remove the old record, insert the new one, split *)
(* when it does not fit.                                                   *)
(***************************************************************************)
NewRec == [key |-> call.key, val |-> call.val]

\* Mutant of LeafWithoutKey: the old record of the key stays in the leaf.
LeafWithoutKey_Kept == pages[Last(path)]

\* The target leaf without the old record of the key.
LeafWithoutKey ==
    LET leaf == pages[Last(path)]
    IN  IF HasKey(leaf, call.key)
        THEN page_remove_slot(leaf, Rank(leaf.slots, call.key)) ELSE leaf

\* Mutant of MergeSorted: the new record goes to the end.
MergeSorted_AtEnd(s, r) == Append(s, r)

\* Insert a record behind the records with a key that is not greater
\* (rec_array_merge_sorted, and the slot position passed to page_insert_slot).
MergeSorted(s, r) == InsertAt(s, Rank(s, r.key) + 1, r)

PutInPlace ==
    /\ pc = "put"
    /\ InsertFits(LeafWithoutKey, NewRec)
    /\ WritePage(Last(path),
                 page_insert_slot(LeafWithoutKey,
                                  Rank(LeafWithoutKey.slots, call.key) + 1, NewRec))
    /\ ReturnWith(OK(NoVal))
    /\ UNCHANGED <<num_pages, root_id, call, view, locals, faults>>

\* What a split collects: the records s of the page and the new one.  Every record is
\* copied with a malloc of its own whose result is not looked at: one failure leaves
\* one record out.
Lossy(s, r) ==
    {MergeSorted(RemoveAt(s, i), r) : i \in DOMAIN s}
        \cup (IF s # << >> /\ Rank(s, r.key) >= Len(s) - 1 THEN {s} ELSE {})

Collect(s, r, all) ==
    \/ all = MergeSorted(s, r) /\ UNCHANGED faults
    \/ all \in Lossy(s, r) /\ Fail

\* Collect, cut in the middle and start to rewrite the left half.
PutSplit ==
    /\ pc = "put"
    /\ ~InsertFits(LeafWithoutKey, NewRec)
    /\ LET s == LeafWithoutKey.slots
           leaf == pages[Last(path)]
       IN  \E all \in {MergeSorted(s, NewRec)} \cup Lossy(s, NewRec) :
             /\ Collect(s, NewRec, all)
             /\ buf' = [EmptyPage EXCEPT !.parent_id = leaf.parent_id,
                                         !.prev_id = leaf.prev_id,
                                         !.next_id = Last(path)]
             /\ todo' = SubSeq(all, 1, Len(all) \div 2)
             /\ ra' = SubSeq(all, Len(all) \div 2 + 1, Len(all))
    /\ pc' = "split_alloc"
    /\ UNCHANGED <<store, call, ret, view, path, level, left, new_pid, sep>>

\* One iteration of a loop around page_alloc_slot: leaf split (both halves), left
\* half of a parent split, merge.
Filling == {"split_alloc", "split_left", "parent_left", "merge_next"}

\* Mutant of PlaceRecord: the loop counter is not advanced.
PlaceRecord_NoAdvance ==
    /\ pc \in Filling
    /\ todo # << >>
    /\ buf' = page_alloc_slot(buf, Head(todo))
    /\ UNCHANGED <<store, call, ret, view, pc, path, level, todo, left, ra, new_pid, sep, faults>>

PlaceRecord ==
    /\ pc \in Filling
    /\ todo # << >>
    /\ buf' = page_alloc_slot(buf, Head(todo))
    /\ todo' = Tail(todo)
    /\ pc' = IF SlotOverlaysRecord(buf, Head(todo)) THEN "undefined" ELSE pc
    /\ UNCHANGED <<store, call, ret, view, path, level, left, ra, new_pid, sep, faults>>

\* Mutant of SplitAlloc: the right half does not inherit next_id.
SplitAlloc_DropNext ==
    /\ pc = "split_alloc" /\ todo = << >>
    /\ AllocPage("PAGE_LEAF")
    /\ left' = [buf EXCEPT !.next_id = num_pages]
    /\ buf' = [EmptyPage EXCEPT !.parent_id = buf.parent_id, !.prev_id = Last(path)]
    /\ todo' = ra
    /\ sep' = [key |-> Head(ra).key, child |-> num_pages]
    /\ level' = Len(path) - 1
    /\ pc' = "split_left"
    /\ UNCHANGED <<root_id, call, ret, view, path, ra, faults>>

SplitAlloc ==
    /\ pc = "split_alloc" /\ todo = << >>
    /\ AllocPage("PAGE_LEAF")
    /\ left' = [buf EXCEPT !.next_id = num_pages]
    /\ buf' = [EmptyPage EXCEPT !.parent_id = buf.parent_id,
                                !.prev_id = Last(path),
                                !.next_id = pages[Last(path)].next_id]
    /\ todo' = ra
    /\ sep' = [key |-> Head(ra).key, child |-> num_pages]
    /\ level' = Len(path) - 1
    /\ pc' = "split_left"
    /\ UNCHANGED <<root_id, call, ret, view, path, ra, faults>>

SplitWriteLeft ==
    /\ pc = "split_left" /\ todo = << >>
    /\ WriteUnchecked(Last(path), left)
    /\ pc' = "split_right"
    /\ UNCHANGED <<num_pages, root_id, call, ret, view, locals>>

SplitWriteRight ==
    /\ pc = "split_right"
    /\ WriteUnchecked(new_pid, buf)
    /\ pc' = "split_next"
    /\ UNCHANGED <<num_pages, root_id, call, ret, view, locals>>

\* The unchecked read of a neighbour failed: an uninitialised page is written back.
GarbageRead ==
    /\ \/ pc = "split_next" /\ buf.next_id # INVALID_PAGE_ID
       \/ pc = "split_prev" /\ left.prev_id # INVALID_PAGE_ID
    /\ Fail
    /\ pc' = "undefined"
    /\ UNCHANGED <<store, call, ret, view, locals>>

\* Mutant of SplitFixNext: the right neighbour is not told.
SplitFixNext_Skip ==
    /\ pc = "split_next"
    /\ pc' = "split_prev"
    /\ UNCHANGED <<store, call, ret, view, locals, faults>>

\* The two neighbours of a split leaf.  A prev_id of 0 means "none", although
\* page 0 is a page: it is then the page whose next_id already is this leaf.
SplitFixNext ==
    /\ pc = "split_next"
    /\ IF buf.next_id = INVALID_PAGE_ID THEN UNCHANGED <<pages, faults>>
       ELSE WriteUnchecked(buf.next_id, [pages[buf.next_id] EXCEPT !.prev_id = new_pid])
    /\ pc' = "split_prev"
    /\ UNCHANGED <<num_pages, root_id, call, ret, view, locals>>

SplitFixPrev ==
    /\ pc = "split_prev"
    /\ IF left.prev_id = INVALID_PAGE_ID THEN UNCHANGED <<pages, faults>>
       ELSE WriteUnchecked(left.prev_id,
                           [pages[left.prev_id] EXCEPT !.next_id = Last(path)])
    /\ pc' = "propagate"
    /\ UNCHANGED <<num_pages, root_id, call, ret, view, locals>>

-----------------------------------------------------------------------------
(***************************************************************************)
(* The separator goes up: into the parent, splitting it when it is full,   *)
(* into a new root above the old one.                                      *)
(***************************************************************************)
ParentInsert ==
    /\ pc = "propagate" /\ level > 0
    /\ LET parent == pages[path[level]]
       IN  /\ InsertFits(parent, sep)
           /\ WritePage(path[level],
                        page_insert_slot(parent, Rank(parent.slots, sep.key) + 1, sep))
    /\ ReturnWith(OK(NoVal))
    /\ UNCHANGED <<num_pages, root_id, call, view, locals, faults>>

ParentSplit ==
    /\ pc = "propagate" /\ level > 0
    /\ LET parent == pages[path[level]]
       IN  /\ ~InsertFits(parent, sep)
           /\ \E all \in {MergeSorted(parent.slots, sep)} \cup Lossy(parent.slots, sep) :
                /\ Collect(parent.slots, sep, all)
                /\ buf' = [page_init("PAGE_INTERNAL") EXCEPT
                             !.parent_id = parent.parent_id,
                             !.first_child_id = parent.first_child_id]
                /\ todo' = SubSeq(all, 1, Len(all) \div 2)
                /\ ra' = SubSeq(all, Len(all) \div 2 + 1, Len(all))
    /\ pc' = "parent_left"
    /\ UNCHANGED <<store, call, ret, view, path, level, left, new_pid, sep>>

\* The left half is on disk before the page for the right half exists.
ParentWriteLeft ==
    /\ pc = "parent_left" /\ todo = << >>
    /\ WriteUnchecked(path[level], buf)
    /\ pc' = "parent_alloc"
    /\ UNCHANGED <<num_pages, root_id, call, ret, view, locals>>

\* The median goes up as the new separator; its child becomes first_child.
ParentAlloc ==
    /\ pc = "parent_alloc"
    /\ AllocPage("PAGE_INTERNAL")
    /\ buf' = [page_init("PAGE_INTERNAL") EXCEPT
                 !.parent_id = buf.parent_id,
                 !.first_child_id = Head(ra).child]
    /\ todo' = Tail(ra)
    /\ sep' = [key |-> Head(ra).key, child |-> num_pages]
    /\ pc' = "parent_median"
    /\ UNCHANGED <<root_id, call, ret, view, path, level, left, ra, faults>>

ParentSetMedian ==
    /\ pc = "parent_median"
    /\ SetParent(buf.first_child_id, new_pid)
    /\ pc' = "parent_right"
    /\ UNCHANGED <<num_pages, root_id, call, ret, view, locals>>

\* Mutant of PlaceChild: the children that move to the right half keep their parent.
PlaceChild_NoReparent ==
    /\ pc = "parent_right" /\ todo # << >>
    /\ buf' = page_alloc_slot(buf, Head(todo))
    /\ todo' = Tail(todo)
    /\ UNCHANGED <<store, call, ret, view, pc, path, level, left, ra, new_pid, sep, faults>>

\* One iteration of the loop that fills the right half and re-parents its children.
PlaceChild ==
    /\ pc = "parent_right" /\ todo # << >>
    /\ buf' = page_alloc_slot(buf, Head(todo))
    /\ todo' = Tail(todo)
    /\ SetParent(Head(todo).child, new_pid)
    /\ pc' = IF SlotOverlaysRecord(buf, Head(todo)) THEN "undefined" ELSE pc
    /\ UNCHANGED <<num_pages, root_id, call, ret, view, path, level, left, ra, new_pid, sep>>

ParentWriteRight ==
    /\ pc = "parent_right" /\ todo = << >>
    /\ WriteUnchecked(new_pid, buf)
    /\ level' = level - 1
    /\ pc' = "propagate"
    /\ UNCHANGED <<num_pages, root_id, call, ret, view, path, buf, todo, left, ra, new_pid, sep>>

\* Mutant of NewRootAlloc: the split leaf instead of the old root becomes first_child.
NewRootAlloc_LeafFirst ==
    /\ pc = "propagate" /\ level = 0
    /\ AllocPage("PAGE_INTERNAL")
    /\ buf' = [page_init("PAGE_INTERNAL") EXCEPT !.first_child_id = Last(path)]
    /\ pc' = "root_left"
    /\ UNCHANGED <<root_id, call, ret, view, path, level, todo, left, ra, sep, faults>>

NewRootAlloc ==
    /\ pc = "propagate" /\ level = 0
    /\ AllocPage("PAGE_INTERNAL")
    /\ buf' = [page_init("PAGE_INTERNAL") EXCEPT !.first_child_id = root_id]
    /\ pc' = "root_left"
    /\ UNCHANGED <<root_id, call, ret, view, path, level, todo, left, ra, sep, faults>>

NewRootSetLeft ==
    /\ pc = "root_left"
    /\ SetParent(root_id, new_pid)
    /\ buf' = page_alloc_slot(buf, sep)
    /\ pc' = IF SlotOverlaysRecord(buf, sep) THEN "undefined" ELSE "root_right"
    /\ UNCHANGED <<num_pages, root_id, call, ret, view, path, level, todo, left, ra, new_pid, sep>>

NewRootSetRight ==
    /\ pc = "root_right"
    /\ SetParent(sep.child, new_pid)
    /\ pc' = "root_write"
    /\ UNCHANGED <<num_pages, root_id, call, ret, view, locals>>

NewRootWrite ==
    /\ pc = "root_write"
    /\ WriteUnchecked(new_pid, buf)
    /\ root_id' = new_pid
    /\ ReturnWith(OK(NoVal))
    /\ UNCHANGED <<num_pages, call, view, locals>>

-----------------------------------------------------------------------------
(***************************************************************************)
(* btree_delete: remove the record, then rebalance_after_delete.           *)
(***************************************************************************)
DeleteMissing ==
    /\ pc = "delete"
    /\ ~HasKey(pages[Last(path)], call.key)
    /\ ReturnWith(NOT_FOUND)
    /\ UNCHANGED <<store, call, view, locals, faults>>

DeleteLeaf ==
    /\ pc = "delete"
    /\ HasKey(pages[Last(path)], call.key)
    /\ WritePage(Last(path), LeafWithoutKey)
    /\ level' = Len(path)
    /\ pc' = "rebalance"
    /\ UNCHANGED <<num_pages, root_id, call, ret, view, path, buf, todo, left, ra, new_pid, sep, faults>>

\* The node at the current level and its parent, while level > 1.
Node == pages[path[level]]
Parent == pages[path[level - 1]]

Underfull(p) == Len(p.slots) < (IF p.type = "PAGE_LEAF" THEN 2 ELSE 1)

\* The two siblings to merge, as indices of children: a node that is not the
\* first child goes into its left sibling, the first child takes its right sibling.
LeftIndex ==
    LET pos == find_pos_in_parent(Parent, path[level])
    IN  IF pos = 1 THEN 1 ELSE pos - 1
LeftPid == Child(Parent, LeftIndex)
RightPid == Child(Parent, LeftIndex + 1)

\* "the right sibling is in slot[0]": the parent of a first child has a slot.
HasSibling == NumChildren(Parent) > 1

MergeFits ==
    LET l == pages[LeftPid]
        r == pages[RightPid]
    IN  SLOT_SIZE * (Len(l.slots) + Len(r.slots)) + data_size(l) + data_size(r)
            <= PAGE_SIZE - PAGE_HEADER_SIZE

\* Nothing to do, no room to merge, or a parent that does not know the node.
RebalanceEnd ==
    /\ pc = "rebalance" /\ level > 1
    /\ Underfull(Node) /\ IsChild(Parent, path[level]) => HasSibling /\ ~MergeFits
    /\ ReturnWith(IF Underfull(Node) /\ ~IsChild(Parent, path[level])
                  THEN CORRUPTED ELSE OK(NoVal))
    /\ UNCHANGED <<store, call, view, locals, faults>>

\* The parent of a first child has no slot: internal_child_id(NULL).
RebalanceNull ==
    /\ pc = "rebalance" /\ level > 1
    /\ Underfull(Node) /\ IsChild(Parent, path[level]) /\ ~HasSibling
    /\ pc' = "undefined"
    /\ UNCHANGED <<store, call, ret, view, locals, faults>>

MergeStart ==
    /\ pc = "rebalance" /\ level > 1
    /\ Underfull(Node) /\ IsChild(Parent, path[level]) /\ HasSibling /\ MergeFits
    /\ buf' = pages[LeftPid]
    /\ todo' = pages[RightPid].slots
    /\ pc' = "merge_next"
    /\ UNCHANGED <<store, call, ret, view, path, level, left, ra, new_pid, sep, faults>>

\* Mutants of MergeFixNext: the left node keeps its next_id; the right neighbour is
\* not told.
MergeFixNext_KeepNext ==
    /\ pc = "merge_next" /\ todo = << >>
    /\ pc' = "merge_left"
    /\ UNCHANGED <<store, call, ret, view, locals, faults>>

MergeFixNext_KeepPrev ==
    /\ pc = "merge_next" /\ todo = << >>
    /\ buf' = [buf EXCEPT !.next_id = pages[RightPid].next_id]
    /\ pc' = "merge_left"
    /\ UNCHANGED <<store, call, ret, view, path, level, todo, left, ra, new_pid, sep, faults>>

MergeFixNext ==
    /\ pc = "merge_next" /\ todo = << >>
    /\ LET right_next == pages[RightPid].next_id
       IN  /\ buf' = [buf EXCEPT !.next_id = right_next]
           /\ IF right_next = INVALID_PAGE_ID THEN UNCHANGED pages
              ELSE WritePage(right_next, [pages[right_next] EXCEPT !.prev_id = LeftPid])
    /\ pc' = "merge_left"
    /\ UNCHANGED <<num_pages, root_id, call, ret, view, path, level, todo, left, ra, new_pid, sep, faults>>

\* Mutant of MergeWriteLeft: the write of the merged node is forgotten.
MergeWriteLeft_Skip ==
    /\ pc = "merge_left"
    /\ pc' = "merge_parent"
    /\ UNCHANGED <<store, call, ret, view, locals, faults>>

MergeWriteLeft ==
    /\ pc = "merge_left"
    /\ WritePage(LeftPid, buf)
    /\ pc' = "merge_parent"
    /\ UNCHANGED <<num_pages, root_id, call, ret, view, locals, faults>>

\* Mutant of MergeWriteParent: the loop stays at the level.
MergeWriteParent_SameLevel ==
    /\ pc = "merge_parent"
    /\ WritePage(path[level - 1], page_remove_slot(Parent, LeftIndex))
    /\ pc' = "rebalance"
    /\ UNCHANGED <<num_pages, root_id, call, ret, view, locals, faults>>

\* The slot of the right node goes; the loop continues one level up.
MergeWriteParent ==
    /\ pc = "merge_parent"
    /\ WritePage(path[level - 1], page_remove_slot(Parent, LeftIndex))
    /\ level' = level - 1
    /\ pc' = "rebalance"
    /\ UNCHANGED <<num_pages, root_id, call, ret, view, path, buf, todo, left, ra, new_pid, sep, faults>>

\* Root reached.  An internal root without a slot gives way to its only child;
\* root_id changes before that child is read and written.
ShrinkRoot ==
    /\ pc = "rebalance" /\ level = 1
    /\ LET root == pages[path[1]]
       IN  IF root.type = "PAGE_INTERNAL" /\ root.slots = << >>
           THEN root_id' = root.first_child_id /\ pc' = "shrink_write" /\ UNCHANGED ret
           ELSE ReturnWith(OK(NoVal)) /\ UNCHANGED root_id
    /\ UNCHANGED <<pages, num_pages, call, view, locals, faults>>

\* Mutant of ShrinkWrite: the new root keeps the id of its old parent.
ShrinkWrite_KeepParent ==
    /\ pc = "shrink_write"
    /\ ReturnWith(OK(NoVal))
    /\ UNCHANGED <<store, call, view, locals, faults>>

ShrinkWrite ==
    /\ pc = "shrink_write"
    /\ WritePage(root_id, [pages[root_id] EXCEPT !.parent_id = INVALID_PAGE_ID])
    /\ ReturnWith(OK(NoVal))
    /\ UNCHANGED <<num_pages, root_id, call, view, locals, faults>>

-----------------------------------------------------------------------------
\* The page and the record of a put that is about to split a leaf, or an internal node
\* on the way up.
SplitCases ==
    IF pc = "put" THEN {[page |-> LeafWithoutKey, rec |-> NewRec]}
    ELSE IF pc = "propagate" /\ level > 0 THEN {[page |-> pages[path[level]], rec |-> sep]}
    ELSE {}

\* No memory for the arrays of a split: the put ends where it is.
OutOfMemory ==
    /\ \E c \in SplitCases : ~InsertFits(c.page, c.rec)
    /\ Fail
    /\ ReturnWith(OUT_OF_MEMORY)
    /\ UNCHANGED <<store, call, view, locals>>

\* No memory for the copy of the new record, after rec_array_merge_sorted has moved the
\* records behind it: two entries are the same copy and both are freed.  With no other
\* record, the separator is read from a null pointer.
CollectFailed ==
    /\ \E c \in SplitCases :
        /\ ~InsertFits(c.page, c.rec)
        /\ c.page.slots = << >> \/ Rank(c.page.slots, c.rec.key) < Len(c.page.slots) - 1
    /\ Fail
    /\ pc' = "undefined"
    /\ UNCHANGED <<store, call, ret, view, locals>>

PutStep ==
    \/ PutInPlace \/ PutSplit \/ PlaceRecord \/ SplitAlloc \/ SplitWriteLeft
    \/ SplitWriteRight \/ SplitFixNext \/ SplitFixPrev \/ GarbageRead
    \/ ParentInsert \/ ParentSplit \/ ParentWriteLeft \/ ParentAlloc
    \/ ParentSetMedian \/ PlaceChild \/ ParentWriteRight
    \/ NewRootAlloc \/ NewRootSetLeft \/ NewRootSetRight \/ NewRootWrite
    \/ OutOfMemory \/ CollectFailed

DeleteStep ==
    \/ DeleteMissing \/ DeleteLeaf \/ RebalanceEnd
    \/ RebalanceNull \/ MergeStart \/ MergeFixNext \/ MergeWriteLeft
    \/ MergeWriteParent \/ ShrinkRoot \/ ShrinkWrite

Step == Descend \/ GetLeaf \/ PutStep \/ DeleteStep \/ IOError \/ Return

Next == (\E c \in Ops : Invoke(c)) \/ Step

Spec == Init /\ [][Next]_vars
=============================================================================
