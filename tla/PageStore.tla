----------------------------- MODULE PageStore -----------------------------
(***************************************************************************)
(* What btree.c assumes of its I/O callbacks (btree_read_page_t,           *)
(* btree_write_page_t, btree_alloc_page_t): an array of pages that grows   *)
(* by one page per alloc, where a read that succeeds returns what was      *)
(* written last.  A read may fail; it then changes nothing.                *)
(***************************************************************************)
EXTENDS Naturals

CONSTANTS
    PageIds,    \* the page ids the client uses
    Data,       \* the contents of a page
    InitData    \* the contents page_init gives a new page

VARIABLES
    mem,        \* page id -> contents
    num_pages,  \* allocated pages
    out         \* the answer to the last read: [pid, status, data]

vars == <<mem, num_pages, out>>

Init ==
    /\ mem = [pid \in {} |-> InitData]
    /\ num_pages = 0
    /\ out = [pid |-> 0, status |-> "none", data |-> InitData]

ReadOK(pid) ==
    /\ pid < num_pages
    /\ out' = [pid |-> pid, status |-> "BTREE_OK", data |-> mem[pid]]
    /\ UNCHANGED <<mem, num_pages>>

ReadError(pid) ==
    /\ out' = [pid |-> pid, status |-> "BTREE_IO_ERROR", data |-> InitData]
    /\ UNCHANGED <<mem, num_pages>>

Write(pid, d) ==
    /\ pid < num_pages
    /\ mem' = [mem EXCEPT ![pid] = d]
    /\ UNCHANGED <<num_pages, out>>

Alloc ==
    /\ num_pages' = num_pages + 1
    /\ mem' = [pid \in 0..num_pages |-> IF pid = num_pages THEN InitData ELSE mem[pid]]
    /\ UNCHANGED out

Next ==
    \/ \E pid \in PageIds : ReadOK(pid) \/ ReadError(pid)
    \/ \E pid \in PageIds, d \in Data : Write(pid, d)
    \/ Alloc

Spec == Init /\ [][Next]_vars
=============================================================================
