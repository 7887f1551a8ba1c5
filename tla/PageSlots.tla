----------------------------- MODULE PageSlots -----------------------------
(***************************************************************************)
(* The slotted page of page.h / page.c, seen as a sequence of records.     *)
(*                                                                         *)
(* A page holds its records in slot order.  The code keeps the records     *)
(* packed against the end of the page (page_insert_slot and                *)
(* page_alloc_slot take the bytes just below free_offset, page_remove_slot *)
(* repacks), so free_offset is PAGE_SIZE minus the bytes of all records    *)
(* and is computed here instead of stored.  The contents of a key or a     *)
(* value never matter, only the order of the keys and the lengths: a key   *)
(* is an integer (its rank under the tree's comparator), KeyLen and ValLen *)
(* give the lengths in bytes.  All sizes are the ones of the code.         *)
(***************************************************************************)
EXTENDS Integers, Sequences, FiniteSets, SequencesExt

CONSTANTS
    Keys,       \* the keys, ordered like the comparator orders them
    Vals,       \* the values
    KeyLen,     \* bytes of each key
    ValLen      \* bytes of each value

ASSUME KeysAssumption == Keys \subseteq Int
ASSUME LenAssumption == KeyLen \in [Keys -> Nat] /\ ValLen \in [Vals -> Nat]

PAGE_SIZE == 4096
PAGE_HEADER_SIZE == 32
SLOT_SIZE == 4
INVALID_PAGE_ID == 0

LeafRec == [key : Keys, val : Vals]
InternalRec(Pids) == [key : Keys, child : Pids]

\* A page whose page pointers are all in Pids.  A leaf never uses first_child_id,
\* an internal node never uses prev_id and next_id: they keep what page_init wrote.
Page(Pids) ==
    [type : {"PAGE_LEAF"}, slots : Seq(LeafRec), parent_id : Pids,
     prev_id : Pids, next_id : Pids, first_child_id : Pids]
        \cup
    [type : {"PAGE_INTERNAL"}, slots : Seq(InternalRec(Pids)), parent_id : Pids,
     prev_id : Pids, next_id : Pids, first_child_id : Pids]

page_init(type) ==
    [type |-> type, slots |-> << >>, parent_id |-> INVALID_PAGE_ID,
     prev_id |-> INVALID_PAGE_ID, next_id |-> INVALID_PAGE_ID,
     first_child_id |-> INVALID_PAGE_ID]

-----------------------------------------------------------------------------
(***************************************************************************)
(* Record sizes and the free space between the slots and the records.      *)
(***************************************************************************)
leaf_rec_size(r) == 2 + KeyLen[r.key] + 2 + ValLen[r.val] + 1
internal_rec_size(r) == 2 + KeyLen[r.key] + 4

rec_size(type, r) ==
    IF type = "PAGE_LEAF" THEN leaf_rec_size(r) ELSE internal_rec_size(r)

data_size(p) == FoldLeft(LAMBDA n, r : n + rec_size(p.type, r), 0, p.slots)

free_offset(p) == PAGE_SIZE - data_size(p)
front_end(p) == PAGE_HEADER_SIZE + Len(p.slots) * SLOT_SIZE

-----------------------------------------------------------------------------
(***************************************************************************)
(* Slot operations.                                                        *)
(***************************************************************************)

\* page_alloc_slot returns -1 exactly when this is false.  Its test counts the bytes
\* of the record but not the four bytes of the slot it is about to add.
AllocFits(p, r) == free_offset(p) >= front_end(p) + rec_size(p.type, r)

\* The record is accepted, but its slot is written over its first bytes.
SlotOverlaysRecord(p, r) ==
    /\ AllocFits(p, r)
    /\ free_offset(p) < front_end(p) + SLOT_SIZE + rec_size(p.type, r)

\* Every caller ignores a -1: the record is then silently left out.
page_alloc_slot(p, r) ==
    IF AllocFits(p, r) THEN [p EXCEPT !.slots = Append(@, r)] ELSE p

\* page_insert_slot succeeds: here the slot is counted.
InsertFits(p, r) == free_offset(p) >= front_end(p) + SLOT_SIZE + rec_size(p.type, r)

page_insert_slot(p, i, r) == [p EXCEPT !.slots = InsertAt(@, i, r)]

page_remove_slot(p, i) == [p EXCEPT !.slots = RemoveAt(@, i)]

-----------------------------------------------------------------------------
(***************************************************************************)
(* Searches.  The code's binary searches over sorted slots all compute the *)
(* number of slots whose key is not greater than the key looked for.       *)
(***************************************************************************)
Rank(s, k) == Cardinality({i \in DOMAIN s : s[i].key <= k})

\* leaf_find_key returns an index (>= 0).
HasKey(p, k) == \E i \in DOMAIN p.slots : p.slots[i].key = k

\* Mutant of internal_find_child: a key equal to a separator goes left of it.
internal_find_child_Strict(p, k) ==
    LET n == Cardinality({i \in DOMAIN p.slots : p.slots[i].key < k})
    IN  IF n = 0 THEN p.first_child_id ELSE p.slots[n].child

internal_find_child(p, k) ==
    LET n == Rank(p.slots, k)
    IN  IF n = 0 THEN p.first_child_id ELSE p.slots[n].child

\* The children of an internal node from left to right; find_pos_in_parent returns
\* the index of a child in it minus two (-1 is first_child), or -2 if it is absent.
NumChildren(p) == Len(p.slots) + 1
Child(p, i) == IF i = 1 THEN p.first_child_id ELSE p.slots[i - 1].child

IsChild(p, pid) == \E i \in 1..NumChildren(p) : Child(p, i) = pid

find_pos_in_parent(p, pid) ==
    CHOOSE i \in 1..NumChildren(p) :
        Child(p, i) = pid /\ \A j \in 1..(i - 1) : Child(p, j) # pid

SlotsSorted(p) ==
    \A i, j \in DOMAIN p.slots : i < j => p.slots[i].key < p.slots[j].key
=============================================================================
