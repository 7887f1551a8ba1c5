------------------------------- MODULE Cursor -------------------------------
(***************************************************************************)
(* cursor.c: one cursor on the tree of module BTree, used between the      *)
(* calls that change the tree.                                             *)
(*                                                                         *)
(* A cursor keeps a copy of the leaf it is at, so its next move goes by    *)
(* records and links that may be out of date by then.  A move reads pages  *)
(* of a tree that stands still and is one step.  slot counts from 1; 0 is  *)
(* "not positioned" (-1 in the code), and then a move answers              *)
(* BTREE_NOT_FOUND and changes nothing.                                    *)
(***************************************************************************)
EXTENDS BTreeProps, FiniteSetsExt

VARIABLES
    cur,            \* the cursor: [page_id, page, slot]
    dir,            \* history: what the cursor has been doing since its last positioning
    owed            \* history: keys ahead of a forward scan that were never deleted

cursorVars == <<cur, dir, owed>>
allVars == <<vars, cursorVars>>

Present == {k \in Keys : view[k] # NoVal}

btree_cursor_create == [page_id |-> INVALID_PAGE_ID, page |-> EmptyPage, slot |-> 0]
At(pid, slot) == [page_id |-> pid, page |-> pages[pid], slot |-> slot]

\* btree_cursor_get: the record in the copy of the leaf.
btree_cursor_get(c) == c.page.slots[c.slot]
btree_cursor_valid(c) == c.slot > 0

-----------------------------------------------------------------------------
(***************************************************************************)
(* Finding a leaf.                                                         *)
(***************************************************************************)

\* From the root down to a leaf, to the child that Pick takes at every internal node.
Leaf(Pick(_)) ==
    LET walk[d \in 0..num_pages] ==
            IF d = 0 THEN root_id
            ELSE LET pid == walk[d - 1]
                 IN  IF pages[pid].type = "PAGE_LEAF" THEN pid ELSE Pick(pages[pid])
    IN  walk[num_pages]

descend_to_leaf(k) == Leaf(LAMBDA p : internal_find_child(p, k))
LeftmostLeaf == Leaf(LAMBDA p : p.first_child_id)
RightmostLeaf == Leaf(LAMBDA p : Child(p, NumChildren(p)))

\* The first page with records when Link is followed from page p, or 0.
FollowToRecords(p, Link(_)) ==
    LET at[d \in 0..num_pages] ==
            IF d = 0 THEN Link(p)
            ELSE LET pid == at[d - 1]
                 IN  IF pid = INVALID_PAGE_ID \/ pages[pid].slots # << >> THEN pid
                     ELSE Link(pages[pid])
    IN  at[num_pages]

\* Mutant of advance_to_next: a leaf with records is passed over.
advance_to_next_Skip(p) ==
    LET pid == FollowToRecords(p, LAMBDA q : q.next_id)
        far == IF pid = INVALID_PAGE_ID THEN pid ELSE pages[pid].next_id
    IN  IF far = INVALID_PAGE_ID THEN btree_cursor_create ELSE At(far, 1)

\* The cursor behind the last record of page p: a next_id of 0 ends the scan.
advance_to_next(p) ==
    LET pid == FollowToRecords(p, LAMBDA q : q.next_id)
    IN  IF pid = INVALID_PAGE_ID THEN btree_cursor_create ELSE At(pid, 1)

\* Mutant of advance_to_prev: the number of slots is taken for the last slot.
advance_to_prev_PastEnd(p) ==
    LET pid == FollowToRecords(p, LAMBDA q : q.prev_id)
    IN  IF pid = INVALID_PAGE_ID THEN btree_cursor_create
        ELSE At(pid, Len(pages[pid].slots) + 1)

\* The same backwards, where 0 is also the id of the first leaf.
advance_to_prev(p) ==
    LET pid == FollowToRecords(p, LAMBDA q : q.prev_id)
    IN  IF pid = INVALID_PAGE_ID THEN btree_cursor_create
        ELSE At(pid, Len(pages[pid].slots))

-----------------------------------------------------------------------------
(***************************************************************************)
(* The operations.                                                         *)
(***************************************************************************)

\* leaf_search: the slot of the first record that is not below k.
LowerBound(p, k) == Cardinality({i \in DOMAIN p.slots : p.slots[i].key < k}) + 1

\* Mutant of SeekFrom: a key behind the last record of its leaf is not looked for further.
SeekFrom_OneLeaf(pid, k) ==
    LET i == LowerBound(pages[pid], k)
    IN  IF i <= Len(pages[pid].slots) THEN At(pid, i) ELSE btree_cursor_create

SeekFrom(pid, k) ==
    LET i == LowerBound(pages[pid], k)
    IN  IF i <= Len(pages[pid].slots) THEN At(pid, i) ELSE advance_to_next(pages[pid])

\* A forward scan begins: every key from the position on is still to be visited.
StartScan(keys) ==
    /\ dir' = "forward"
    /\ owed' = {k \in keys : ~(btree_cursor_valid(cur') /\ btree_cursor_get(cur').key = k)}
    /\ UNCHANGED vars

btree_cursor_seek(k) ==
    /\ Idle
    /\ cur' = SeekFrom(descend_to_leaf(k), k)
    /\ StartScan({x \in Present : x >= k})

btree_cursor_first ==
    /\ Idle
    /\ LET pid == LeftmostLeaf
       IN  cur' = IF pages[pid].slots # << >> THEN At(pid, 1) ELSE advance_to_next(pages[pid])
    /\ StartScan(Present)

btree_cursor_last ==
    /\ Idle
    /\ LET pid == RightmostLeaf
           n == Len(pages[pid].slots)
       IN  cur' = IF n > 0 THEN At(pid, n) ELSE btree_cursor_create
    /\ dir' = "backward" /\ owed' = {}
    /\ UNCHANGED vars

\* Mutant of btree_cursor_next: the copy of the leaf is refreshed before the move.
btree_cursor_next_Reread ==
    /\ Idle /\ btree_cursor_valid(cur)
    /\ LET now == pages[cur.page_id]
       IN  cur' = IF cur.slot < Len(now.slots) THEN At(cur.page_id, cur.slot + 1)
                  ELSE advance_to_next(now)
    /\ owed' = IF btree_cursor_valid(cur') THEN owed \ {btree_cursor_get(cur').key} ELSE owed
    /\ UNCHANGED <<vars, dir>>

btree_cursor_next ==
    /\ Idle /\ btree_cursor_valid(cur)
    /\ cur' = IF cur.slot < Len(cur.page.slots) THEN [cur EXCEPT !.slot = @ + 1]
              ELSE advance_to_next(cur.page)
    /\ owed' = IF btree_cursor_valid(cur') THEN owed \ {btree_cursor_get(cur').key} ELSE owed
    /\ UNCHANGED <<vars, dir>>

btree_cursor_prev ==
    /\ Idle /\ btree_cursor_valid(cur)
    /\ cur' = IF cur.slot > 1 THEN [cur EXCEPT !.slot = @ - 1] ELSE advance_to_prev(cur.page)
    /\ dir' = "backward" /\ owed' = {}
    /\ UNCHANGED vars

\* A page read fails: while positioning (BTREE_IO_ERROR), or in a move that leaves the
\* leaf, which then answers BTREE_NOT_FOUND as at the end of the scan.
CursorReadFails ==
    /\ Idle
    /\ cur' = btree_cursor_create
    /\ dir' = "failed" /\ owed' = {}
    /\ UNCHANGED vars

CursorStep ==
    \/ \E k \in Keys : btree_cursor_seek(k)
    \/ btree_cursor_first \/ btree_cursor_last
    \/ btree_cursor_next \/ btree_cursor_prev
    \/ CursorReadFails

\* A key that is deleted is no longer owed.
TreeStep ==
    /\ Next
    /\ owed' = IF pc = "return" THEN {k \in owed : view'[k] # NoVal} ELSE owed
    /\ UNCHANGED <<cur, dir>>

CursorInit ==
    /\ Init
    /\ cur = btree_cursor_create
    /\ dir = "none" /\ owed = {}

CursorNext == TreeStep \/ CursorStep

CursorSpec == CursorInit /\ [][CursorNext]_allVars

-----------------------------------------------------------------------------
(***************************************************************************)
(* Properties.                                                             *)
(***************************************************************************)

\* Type correctness of the cursor: it is unpositioned, or at a record of a leaf.
CursorTypeOK ==
    /\ cur.page_id \in Pids /\ cur.page \in Page(Pids)
    /\ cur.slot \in 0..Len(cur.page.slots)
    /\ btree_cursor_valid(cur) => cur.page.type = "PAGE_LEAF"
    /\ dir \in {"none", "forward", "backward", "failed"}
    /\ owed \subseteq Keys

\* Where the cursor lands: on key k with its value, or nowhere if there is no key.
LandsOn(keys, Pick(_)) ==
    IF keys = {} THEN ~btree_cursor_valid(cur')
    ELSE /\ btree_cursor_valid(cur')
         /\ btree_cursor_get(cur') = [key |-> Pick(keys), val |-> view[Pick(keys)]]

\* cursor.h: seek finds the first key >= the given one, first the smallest and last the
\* greatest key, whatever splits and merges the tree has been through.
PositionsRight ==
    [][/\ \A k \in Keys : btree_cursor_seek(k) => LandsOn({x \in Present : x >= k}, Min)
       /\ btree_cursor_first => LandsOn(Present, Min)
       /\ btree_cursor_last => LandsOn(Present, Max)]_allVars

\* The copy is what the tree holds, so the cursor is not behind.
UpToDate == cur.page_id \in Leaves /\ cur.page = pages[cur.page_id]

\* cursor.h: next moves to the following key.  It suffices that the leaf the cursor is
\* at has not changed; the rest of the tree may have.
NextIsSuccessor ==
    [][btree_cursor_next /\ UpToDate
        => LandsOn({x \in Present : x > btree_cursor_get(cur).key}, Min)]_allVars

\* A forward scan never goes back, although leaves are split, merged and retired while
\* it is under way: no key is visited twice.
ScanAscends ==
    [][btree_cursor_next /\ btree_cursor_valid(cur')
        => btree_cursor_get(cur').key > btree_cursor_get(cur).key]_allVars

\* A forward scan visits every key that was there when it began and has not been
\* deleted since, also when the records have moved to other leaves.
ScanMissesNothing ==
    dir = "forward" =>
        IF btree_cursor_valid(cur) THEN \A k \in owed : k > btree_cursor_get(cur).key
        ELSE owed = {}

\* cursor.h: prev moves to the preceding key ("by descending key").
PrevIsPredecessor ==
    [][btree_cursor_prev /\ UpToDate
        => LandsOn({x \in Present : x < btree_cursor_get(cur).key}, Max)]_allVars
=============================================================================
