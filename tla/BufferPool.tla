---------------------------- MODULE BufferPool ----------------------------
(***************************************************************************)
(* buffer_pool.c: a write-back cache of pages between the tree and the     *)
(* storage layer.  Pages sit in frames; an open-addressing hash table with *)
(* linear probing and tombstones finds the frame of a page; the frame with *)
(* the smallest access stamp is evicted when all are used.                 *)
(*                                                                         *)
(* One action per outcome of an operation.  The pool has no lock of its    *)
(* own: operations do not overlap when callers hold the tree's write lock. *)
(* disk is the storage layer below: its read may fail at any time, its     *)
(* write may fail in bp_flush and bp_flush_all, which report it, and - if  *)
(* EvictWriteFails - in evict_one and bp_destroy, which do not.            *)
(***************************************************************************)
EXTENDS Integers, FiniteSets, Sequences, SequencesExt

CONSTANTS
    Capacity,           \* number of frames
    HashSize,           \* slots of the hash table: next_pow2(2 * capacity)
    HashMult,           \* 2654435761 modulo HashSize (a power of two)
    StampMod,           \* access_counter wraps at this value (2^32 in the code)
    MaxPid,             \* bound: the last page that is allocated
    PageIds,            \* the pages the client reads, writes and flushes
    MaxStamp,           \* bound: no access once the counter has reached it
    Data,               \* the contents of a page
    InitData,           \* the contents page_init gives a new page
    EvictWriteFails     \* may the unchecked storage writes fail?

ASSUME CapacityAssumption == Capacity \in Nat \ {0}
ASSUME HashAssumption == HashSize \in Nat /\ HashSize >= 2 * Capacity /\ HashMult \in Nat
ASSUME StampAssumption == StampMod \in Nat \ {0} /\ MaxStamp \in Nat
ASSUME DataAssumption == InitData \in Data /\ MaxPid \in Nat /\ PageIds \subseteq 0..MaxPid
ASSUME FaultAssumption == EvictWriteFails \in BOOLEAN

VARIABLES
    frames,             \* bp_frame_t[capacity]
    hash_table,         \* bp_hash_slot_t[hash_size]
    access_counter,
    disk, num_pages,    \* the storage layer: contents and number of pages
    out,                \* the answer to the last bp_read
    recent              \* history: frames in the order of their last access

vars == <<frames, hash_table, access_counter, disk, num_pages, out, recent>>

Frames == 0..(Capacity - 1)
Slots == 0..(HashSize - 1)

\* bp_frame_t
Frame(page, pid, used, dirty, stamp) ==
    [page |-> page, pid |-> pid, used |-> used, dirty |-> dirty, access_stamp |-> stamp]

\* calloc: everything is zero.
FreeFrame == Frame(InitData, 0, FALSE, FALSE, 0)
EmptySlot == [state |-> "BP_EMPTY", pid |-> 0, frame_idx |-> 0]

-----------------------------------------------------------------------------
(***************************************************************************)
(* The hash table.                                                         *)
(***************************************************************************)
bp_hash(pid) == (pid * HashMult) % HashSize

\* The i-th slot probed for pid.
Probe(pid, i) == (bp_hash(pid) + i) % HashSize

Hit(ht, pid, i) ==
    ht[Probe(pid, i)].state = "BP_OCCUPIED" /\ ht[Probe(pid, i)].pid = pid

\* The search of ht_lookup and ht_remove stops at probe i with a hit.
FoundAt(ht, pid, i) ==
    /\ Hit(ht, pid, i)
    /\ \A j \in 0..(i - 1) : ht[Probe(pid, j)].state # "BP_EMPTY" /\ ~Hit(ht, pid, j)

InTable(ht, pid) == \E i \in Slots : FoundAt(ht, pid, i)

FoundSlot(ht, pid) == Probe(pid, CHOOSE i \in Slots : FoundAt(ht, pid, i))

\* ht_lookup; -1 when the page is not cached.
ht_lookup(pid) ==
    IF InTable(hash_table, pid)
    THEN hash_table[FoundSlot(hash_table, pid)].frame_idx ELSE -1

\* ht_insert: the first slot that is not occupied, tombstone or empty.
FreeAt(ht, pid, i) ==
    /\ ht[Probe(pid, i)].state # "BP_OCCUPIED"
    /\ \A j \in 0..(i - 1) : ht[Probe(pid, j)].state = "BP_OCCUPIED"

ht_insert(ht, pid, f) ==
    IF \E i \in Slots : FreeAt(ht, pid, i)
    THEN [ht EXCEPT ![Probe(pid, CHOOSE i \in Slots : FreeAt(ht, pid, i))] =
             [state |-> "BP_OCCUPIED", pid |-> pid, frame_idx |-> f]]
    ELSE ht

\* Mutant of ht_remove: the slot is emptied instead of marked with a tombstone.
ht_remove_NoTomb(ht, pid) ==
    IF InTable(ht, pid)
    THEN [ht EXCEPT ![FoundSlot(ht, pid)].state = "BP_EMPTY"] ELSE ht

ht_remove(ht, pid) ==
    IF InTable(ht, pid)
    THEN [ht EXCEPT ![FoundSlot(ht, pid)].state = "BP_TOMB"] ELSE ht

-----------------------------------------------------------------------------
(***************************************************************************)
(* evict_one: the first unused frame, else the first frame with the        *)
(* smallest stamp, whose page is saved if dirty and dropped.               *)
(***************************************************************************)
IsVictim(f) ==
    IF \E g \in Frames : ~frames[g].used
    THEN ~frames[f].used /\ \A g \in 0..(f - 1) : frames[g].used
    ELSE \A g \in Frames :
            IF g < f THEN frames[f].access_stamp < frames[g].access_stamp
            ELSE frames[f].access_stamp <= frames[g].access_stamp

\* Frames, hash table and storage after evict_one has returned f.
EvictedFrames(f) ==
    IF frames[f].used
    THEN [frames EXCEPT ![f] = Frame(@.page, @.pid, FALSE, FALSE, 0)]
    ELSE frames

EvictedTable(f) ==
    IF frames[f].used THEN ht_remove(hash_table, frames[f].pid) ELSE hash_table

SavedDisk(f) ==
    IF frames[f].used /\ frames[f].dirty
    THEN [disk EXCEPT ![frames[f].pid] = frames[f].page] ELSE disk

\* Mutant of EvictedDisks: a dirty victim is dropped unsaved.
EvictedDisks_Unsaved(f) == {disk}

EvictedDisks(f) == {SavedDisk(f)} \cup (IF EvictWriteFails THEN {disk} ELSE {})

-----------------------------------------------------------------------------
(***************************************************************************)
(* Accesses.                                                               *)
(***************************************************************************)
NextStamp == (access_counter + 1) % StampMod

\* Frame f is stamped: the counter moves on, the history puts f last.
Stamp(f) ==
    /\ access_counter < MaxStamp
    /\ access_counter' = NextStamp
    /\ recent' = Append(RemoveFirst(recent, f), f)

\* Page pid with contents d takes frame f.
Install(f, pid, d, dirty) ==
    /\ frames' = [EvictedFrames(f) EXCEPT ![f] = Frame(d, pid, TRUE, dirty, NextStamp)]
    /\ hash_table' = ht_insert(EvictedTable(f), pid, f)
    /\ Stamp(f)

Init ==
    /\ frames = [f \in Frames |-> FreeFrame]
    /\ hash_table = [s \in Slots |-> EmptySlot]
    /\ access_counter = 0
    /\ disk = [pid \in {} |-> InitData]
    /\ num_pages = 0
    /\ out = [pid |-> 0, status |-> "none", data |-> InitData]
    /\ recent = << >>

\* Mutant of ReadHit: a read hit does not refresh the stamp of its frame.
ReadHit_NoStamp(pid) ==
    /\ ht_lookup(pid) >= 0
    /\ Stamp(ht_lookup(pid))
    /\ out' = [pid |-> pid, status |-> "BTREE_OK", data |-> frames[ht_lookup(pid)].page]
    /\ UNCHANGED <<frames, hash_table, disk, num_pages>>

ReadHit(pid) ==
    /\ ht_lookup(pid) >= 0
    /\ LET f == ht_lookup(pid)
       IN  /\ frames' = [frames EXCEPT ![f] = Frame(@.page, @.pid, @.used, @.dirty, NextStamp)]
           /\ Stamp(f)
           /\ out' = [pid |-> pid, status |-> "BTREE_OK", data |-> frames[f].page]
    /\ UNCHANGED <<hash_table, disk, num_pages>>

ReadMiss(pid) ==
    /\ ht_lookup(pid) < 0
    /\ pid < num_pages
    /\ \E f \in Frames :
        /\ IsVictim(f)
        /\ disk' \in EvictedDisks(f)
        /\ Install(f, pid, disk'[pid], FALSE)
        /\ out' = [pid |-> pid, status |-> "BTREE_OK", data |-> disk'[pid]]
    /\ UNCHANGED num_pages

\* The storage read fails after the victim is gone: the frame stays unused.
ReadError(pid) ==
    /\ ht_lookup(pid) < 0
    /\ \E f \in Frames :
        /\ IsVictim(f)
        /\ disk' \in EvictedDisks(f)
        /\ frames' = EvictedFrames(f)
        /\ hash_table' = EvictedTable(f)
        /\ recent' = RemoveFirst(recent, f)
    /\ out' = [pid |-> pid, status |-> "BTREE_IO_ERROR", data |-> InitData]
    /\ UNCHANGED <<access_counter, num_pages>>

\* Mutant of WriteHit: a page that was clean stays clean.
WriteHit_KeepClean(pid, d) ==
    /\ ht_lookup(pid) >= 0
    /\ LET f == ht_lookup(pid)
       IN  /\ frames' = [frames EXCEPT ![f] = Frame(d, @.pid, @.used, @.dirty, NextStamp)]
           /\ Stamp(f)
    /\ UNCHANGED <<hash_table, disk, num_pages, out>>

WriteHit(pid, d) ==
    /\ ht_lookup(pid) >= 0
    /\ LET f == ht_lookup(pid)
       IN  /\ frames' = [frames EXCEPT ![f] = Frame(d, @.pid, @.used, TRUE, NextStamp)]
           /\ Stamp(f)
    /\ UNCHANGED <<hash_table, disk, num_pages, out>>

\* The tree only writes pages it has allocated.
WriteMiss(pid, d) ==
    /\ ht_lookup(pid) < 0
    /\ pid < num_pages
    /\ \E f \in Frames :
        /\ IsVictim(f)
        /\ disk' \in EvictedDisks(f)
        /\ Install(f, pid, d, TRUE)
    /\ UNCHANGED <<num_pages, out>>

\* Mutant of Alloc: the new page is counted but not written.
Alloc_Unwritten ==
    /\ num_pages <= MaxPid
    /\ num_pages' = num_pages + 1
    /\ UNCHANGED <<frames, hash_table, access_counter, disk, out, recent>>

\* bp_alloc goes straight to the storage layer.
Alloc ==
    /\ num_pages <= MaxPid
    /\ num_pages' = num_pages + 1
    /\ disk' = [pid \in 0..num_pages |->
                    IF pid = num_pages THEN InitData ELSE disk[pid]]
    /\ UNCHANGED <<frames, hash_table, access_counter, out, recent>>

\* bp_flush; when the storage write fails the frame stays dirty and nothing changes.
Flush(pid) ==
    /\ ht_lookup(pid) >= 0
    /\ LET f == ht_lookup(pid)
       IN  /\ disk' = SavedDisk(f)
           /\ frames' = [frames EXCEPT ![f] = Frame(@.page, @.pid, @.used, FALSE, @.access_stamp)]
    /\ UNCHANGED <<hash_table, access_counter, num_pages, out, recent>>

\* bp_flush_all saves the dirty frames below n; n < Capacity when the storage
\* write of frame n failed and the rest is skipped.
DirtyBelow(n) == {f \in Frames : f < n /\ frames[f].used /\ frames[f].dirty}

DiskAfterFlush(n) ==
    [pid \in DOMAIN disk |->
        IF \E f \in DirtyBelow(n) : frames[f].pid = pid
        THEN frames[CHOOSE f \in DirtyBelow(n) : frames[f].pid = pid].page
        ELSE disk[pid]]

FlushAll(n) ==
    /\ disk' = DiskAfterFlush(n)
    /\ frames' = [f \in Frames |->
                    IF f \in DirtyBelow(n)
                    THEN Frame(frames[f].page, frames[f].pid, TRUE, FALSE, frames[f].access_stamp)
                    ELSE frames[f]]
    /\ UNCHANGED <<hash_table, access_counter, num_pages, out, recent>>

\* bp_destroy (its bp_flush_all is not checked) and a new bp_create on the same storage.
Restart ==
    /\ \E n \in IF EvictWriteFails THEN 0..Capacity ELSE {Capacity} :
            disk' = DiskAfterFlush(n)
    /\ frames' = [f \in Frames |-> FreeFrame]
    /\ hash_table' = [s \in Slots |-> EmptySlot]
    /\ access_counter' = 0
    /\ recent' = << >>
    /\ UNCHANGED <<num_pages, out>>

Next ==
    \/ \E pid \in PageIds : ReadHit(pid) \/ ReadMiss(pid) \/ ReadError(pid) \/ Flush(pid)
    \/ \E pid \in PageIds, d \in Data : WriteHit(pid, d) \/ WriteMiss(pid, d)
    \/ Alloc
    \/ \E n \in 0..Capacity : FlushAll(n)
    \/ Restart

Spec == Init /\ [][Next]_vars

-----------------------------------------------------------------------------
(***************************************************************************)
(* Properties.                                                             *)
(***************************************************************************)

\* Type correctness: stamps stay below the wrap-around, slots point to frames, and
\* every cached page has been allocated in the storage layer.
TypeOK ==
    /\ num_pages \in Nat
    /\ disk \in [0..(num_pages - 1) -> Data]
    /\ frames \in [Frames -> [page : Data, pid : Nat, used : BOOLEAN, dirty : BOOLEAN,
                              access_stamp : 0..(StampMod - 1)]]
    /\ hash_table \in [Slots -> [state : {"BP_EMPTY", "BP_TOMB", "BP_OCCUPIED"},
                                 pid : Nat, frame_idx : Frames]]
    /\ access_counter \in 0..(StampMod - 1)
    /\ out \in [pid : Nat, status : {"none", "BTREE_OK", "BTREE_IO_ERROR"}, data : Data]
    /\ \A f \in Frames : frames[f].used => frames[f].pid < num_pages

\* The probe sequence of a cached page reaches its slot although other pages have
\* been inserted and removed in between, before any empty slot and any other hit.
EveryFrameFound ==
    \A f \in Frames : frames[f].used =>
        \E i \in Slots : /\ FoundAt(hash_table, frames[f].pid, i)
                         /\ hash_table[Probe(frames[f].pid, i)].frame_idx = f

\* An occupied slot names a used frame that holds the slot's page, and no two
\* occupied slots name the same frame: no lookup ends in a recycled frame.
EverySlotUsed ==
    /\ \A s \in Slots : hash_table[s].state = "BP_OCCUPIED" =>
            /\ frames[hash_table[s].frame_idx].used
            /\ frames[hash_table[s].frame_idx].pid = hash_table[s].pid
    /\ \A s, t \in Slots :
            /\ hash_table[s].state = "BP_OCCUPIED" /\ hash_table[t].state = "BP_OCCUPIED"
            /\ hash_table[s].frame_idx = hash_table[t].frame_idx
            => s = t

\* A page is cached at most once.
OneFramePerPage ==
    \A f, g \in Frames :
        frames[f].used /\ frames[g].used /\ frames[f].pid = frames[g].pid => f = g

\* The hash table and the frames agree: what ht_lookup relies on.
TableMatchesFrames == EveryFrameFound /\ EverySlotUsed /\ OneFramePerPage

\* A frame that is not dirty holds what the storage layer holds: dropping it, or
\* skipping it in a flush, loses nothing.
CleanIsSaved ==
    \A f \in Frames :
        frames[f].used /\ ~frames[f].dirty => frames[f].page = disk[frames[f].pid]

\* The contents of a page as the pool's client should see them.
Contents(pid) ==
    IF \E f \in Frames : frames[f].used /\ frames[f].pid = pid
    THEN frames[CHOOSE f \in Frames : frames[f].used /\ frames[f].pid = pid].page
    ELSE disk[pid]

\* The pool is transparent: through hits, misses, evictions, failed reads, flushes and
\* restarts, the client of bp_read, bp_write and bp_alloc sees plain page storage.
Store == INSTANCE PageStore WITH mem <- [pid \in 0..(num_pages - 1) |-> Contents(pid)]

ImplementsStore == Store!Spec

\* README: LRU.  When no frame is free, the frame evict_one picks is the one whose
\* last access lies furthest back.
VictimIsLeastRecent ==
    (\A g \in Frames : frames[g].used) =>
        \A f \in Frames : IsVictim(f) => f = Head(recent)
=============================================================================
