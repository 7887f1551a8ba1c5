# TLA+ verification of the B+ tree storage engine

This directory holds the TLA+ models of the B+ tree storage engine in `src/`, the TLC
configurations that check them on small instances, and TLAPS proofs. It is meant to be read beside the
code: every definition that stands for code keeps the name of its C function where TLA+ allows
it, and `PROJECT.json` ("map") gives the lines it translates.

## 1. The system

```
 leaderboard.c      main.c (CLI)
      |   \
      |    cursor.c ----.            one cursor = a copy of one leaf + a slot index
   txn.c                |            read-write lock of the tree
      \                 v
       `--------->  btree.c          get / put / delete, splits and merges
                        | read_page / write_page / alloc_page (callbacks)
                        v
        buffer_pool.c  or  wal.c     write-back page cache / page-level redo log
                        |
                        v
                    storage.c        file: header (num_pages, root_id) + pages
```

| Component | State | Operations | What makes it correct |
|---|---|---|---|
| slotted page (`page.h`, `page.c`) | header, slot directory, records packed against the page end | init, alloc / insert / remove slot | a record that is accepted is stored whole; slots keep their order |
| B+ tree (`btree.c`) | `root_id`, the pages behind the callbacks, per call: path, level, page under construction | create, open, get, put, delete | an ordered map; leaves at one depth; leaf chain in both directions; parent links; calls end; a failed call does not harm other keys |
| buffer pool (`buffer_pool.c`) | frames, hash table with tombstones, access counter | read, write, alloc, flush, flush_all, destroy | transparent: a read returns what was written last; LRU |
| storage (`storage.c`) | file header and pages | create, open, read, write, alloc, root id | what was written is read after a reopen |
| write-ahead log (`wal.c`) | log file, entry count | create, write, recover | after a crash, recovery restores every acknowledged page write |
| transactions (`txn.c`) | the tree's rwlock, one handle per transaction | begin, commit, abort, get, put, delete | many readers or one writer |
| cursor (`cursor.c`) | a leaf copy and a slot index | seek, first, last, next, prev, get | visits every key once, in order |
| leaderboard (`leaderboard.c`, `main.c`) | a tree from names to wealth, the file with its header | create (open or seed), upsert, delete, get, top-n, rank | lists and ranks follow wealth, then name; edits survive restarts |
| comparators (`comparator.c`) | none | compare | a total order |

Hard behaviours: multi-page updates (a split writes up to five pages, a merge up to four) with a
failure possible at every one of them, cascades over several levels, page id 0 that is both the
first leaf and "no page", records of different lengths against a fixed page size, evictions and
tombstones in a full pool, a wrapping counter, crashes at any point of writing and recovering the
log, a root id that is saved after the pages, cursors that keep a copy of a leaf while the tree
changes, threads on one lock. `PROJECT.json` ("hazards") lists each with its line and the
properties that watch it, or why none does.

## 2. Modules

| Module | Models | Role |
|---|---|---|
| `PageSlots` | `page.h`, `page.c`, the searches and `find_pos_in_parent` of `btree.c` | operators only |
| `BTree` | `btree_create`, `btree_get`, `btree_put`, `btree_delete` | state machine over `PageSlots` |
| `KVMap` | the contract of the tree | abstract specification |
| `BTreeProps` | - | properties of `BTree`, and the refinement to `KVMap` |
| `BTreeProofs` | - | TLAPS proofs about `BTree` |
| `BTreeOrderProofs` | - | TLAPS proofs about the order of the keys, on top of `BTreeProofs` |
| `BTreeMapProofs` | - | TLAPS proofs that the tree is the map of `KVMap`, on top of `BTreeOrderProofs` |
| `MCBTree` | - | instances of the tree for TLC |
| `Cursor` | `cursor.c`: one cursor on the pages of `BTree` | composition of cursor and tree |
| `MCCursor` | - | instance of the cursor |
| `Restart` | `btree_open`, the root id in the storage header, `leaderboard.c` as far as it saves it | composition of tree and storage header, with kills |
| `RestartProofs` | - | TLAPS proofs about `Restart`, on top of `BTreeProofs` |
| `MCRestart` | - | instances of the restarts |
| `PageStore` | the contract of the I/O callbacks, and `storage.c` as a page array | abstract specification |
| `BufferPool` | `buffer_pool.c` | state machine, properties, and the refinement to `PageStore` |
| `BufferPoolProofs` | - | TLAPS proofs about `BufferPool` |
| `DurableStore` | the contract of log and storage: written pages survive crashes | abstract specification |
| `Wal` | `wal.c` over `storage.c` | state machine with crashes, properties, and the refinement to `DurableStore` |
| `WalProofs` | - | TLAPS proofs about `Wal` |
| `SerialTxn` | the contract of transactions | abstract specification |
| `Txn` | `txn.c` and the lock of `btree.c` | state machine of several threads, and the refinement to `SerialTxn` |
| `TxnProofs` | - | TLAPS proofs about `Txn` |
| `Leaderboard` | `leaderboard.c`, `main.c`, `comparator.c` | state machine on the map level |
| `LeaderboardProofs` | - | TLAPS proofs about `Leaderboard` and the comparators |
| `MCLeaderboard` | - | instances of the leaderboard |

Definitions whose comment begins with "Mutant of" are wrong on purpose: each is a plausible slip
in the operator that follows it, and putting it in place of that operator makes TLC report the
property paired with it in `PROJECT.json`. Nothing else uses them.

### Tree: state and actions

`pages`, `num_pages` are what the callbacks read and write; `root_id` is `tree->root_id`. `path`,
`level`, `buf`, `todo`, `left`, `ra`, `new_pid`, `sep` are the locals of the call being served;
`pc` says where it is. `level` counts from 1 (the code from 0). A step ends at each page access,
so that a failure can strike between any two writes; the loops around `page_alloc_slot` take one
step per record. `view` records the map that `btree_get` would read when the last call returned.

| Code | Actions |
|---|---|
| `build_path` | `Invoke`, `Descend` |
| `btree_get` | `GetLeaf` |
| `btree_put` in place | `PutInPlace` |
| leaf split | `PutSplit`, `PlaceRecord`, `SplitAlloc`, `SplitWriteLeft`, `SplitWriteRight`, `SplitFixNext`, `SplitFixPrev` |
| separator going up | `ParentInsert`, `ParentSplit`, `ParentWriteLeft`, `ParentAlloc`, `ParentSetMedian`, `PlaceChild`, `ParentWriteRight` |
| new root | `NewRootAlloc`, `NewRootSetLeft`, `NewRootSetRight`, `NewRootWrite` |
| `btree_delete` | `DeleteMissing`, `DeleteLeaf` |
| `rebalance_after_delete` | `RebalanceEnd`, `RebalanceNull`, `MergeStart`, `PlaceRecord`, `MergeFixNext`, `MergeWriteLeft`, `MergeWriteParent`, `ShrinkRoot`, `ShrinkWrite` |
| error paths | `IOError` (a checked callback fails), lost writes (`WriteUnchecked`), `GarbageRead`, `OutOfMemory`, `Lossy` records and `CollectFailed` |

Abstractions. A key is its rank under the comparator and a value an atom; both have a length in
bytes, and all space tests use the byte sizes of the code (page 4096, header 32, slot 4, leaf
record 5 + key + value, internal record 6 + key). Records are always packed against the page end,
so `free_offset` is computed from the records. Slots are sorted (`AllSlotsSorted`), so a binary
search is the count of keys not greater than the one looked for. The `is_deleted` byte is always
0 (deletes are physical) and is left out. `pc = "undefined"` marks undefined behaviour of C (a
null pointer, an uninitialised page, a double free, a slot written over its record in a split
half or in a new root); no step leaves it, not even a kill in `Restart`, and the properties say
nothing about what a program does from there.

### Pool: state and actions

`frames`, `hash_table`, `access_counter` are the fields of the struct, `disk` and `num_pages` the
storage below, `out` the answer of the last `bp_read`, `recent` a history variable (frames in the
order of last access). `bp_read` is `ReadHit`, `ReadMiss`, `ReadError`; `bp_write` is `WriteHit`,
`WriteMiss`; then `Alloc`, `Flush`, `FlushAll(n)` (the storage write of frame n failed, or n is
the capacity and none did) and `Restart` (`bp_destroy`, `bp_create` on the same storage). The
table size is a constant with the property `next_pow2(2 * capacity)` has (at least twice the
capacity); the hash is `pid * HashMult % HashSize`, which for a power of two is the code's
masked 32-bit product with `HashMult = 2654435761 % HashSize` (1 for the sizes used here, as the
multiplier ends in the bits `0001`). Stamps are modulo `StampMod` (2^32 in the code). The buffer of
an unused frame is never read, so the model does not follow what a failed read leaves in it.

### Cursor

`cur` is the struct (page id, copy of the page, slot; slots count from 1, and 0 is the code's -1).
A move reads only pages of a tree that stands still between two calls, so each operation is one
step: `btree_cursor_seek`, `_first`, `_last`, `_next`, `_prev`, and `CursorReadFails` for a page
read that fails. `TreeStep` is any step of `BTree`. A move of an unpositioned cursor changes
nothing and is left out. `dir` and `owed` are history: `owed` are the keys that were ahead when
the forward scan began, less those visited or deleted since.

### Restart

Every step of the tree, plus `SaveRoot` (`btree_storage_set_root_id` after a successful put or
delete), `lb_destroy`, `Kill` and `btree_open`. What was written to a page stays: tearing and
loss of single pages are the subject of `Wal`. `KillInCall` says whether `Kill` may come in the
middle of a call. `FaultyOps` are the operations in which callbacks may fail, and the client of a
tree makes no further call after `GiveUp` failures.

### Log and storage

`file` is the storage file (page count in its header, pages), `num_pages` the count in memory,
`hdr`, `log`, `tail` the log file: its header (none, short, full), the whole entries, and what a
cut-off append left (part of a page number, or a page number and part of a page). `pc` is the
place in `wal_recover` or `wal_write`; a step ends wherever a crash would leave something else.

| Code | Actions |
|---|---|
| `btree_storage_open`, `wal_create` | `wal_create`, `CrashInCreate` |
| `wal_recover` | `RecoverStart`, `ReplayExtend`, `ReplayExtendFail`, `ReplayWrite`, `ReplayFail`, `ReplayTorn`, `ReplayEnd`, `RecoverHeader`, `RecoverHeaderFail`; `SkipRecover` for a client that finds no entries in the log |
| `wal_read`, `wal_alloc` | `wal_read`, `wal_alloc`, `AllocFail` |
| `wal_write` | `wal_write`, `LogAppend`, `AppendFail`, `StoreWrite`, `StoreFail` |
| `wal_destroy`, `btree_storage_close` | `wal_destroy` |
| - | `Crash` (process), `PowerLoss` (machine: unsynced storage writes may be lost) |

`mem` and `doubt` are history, and the variables of `DurableStore`: what was written last, and the
writes that began and did not return successfully.

Whether the log stays readable depends on its client, which `wal.c` does not constrain; three
constants say which client, and which loss of power, an instance has.

| Constant | `FALSE` | `TRUE` |
|---|---|---|
| `SkipsByCount` | recovers every log file that existed with contents (`wal.h:17`) | leaves `wal_recover` out when `wal_num_entries` is 0 (`test.c:1052`), a number that is rounded down |
| `WritesOn` | closes the store after a `wal_write` that failed, and recovers | goes on (`buffer_pool.c:165` and `btree.c:590` ignore the answer) |
| `LateLoss` | power is lost before the log is first cleared only | at any time, also when clearing the log has made the unsynced storage file the only copy (README of the repository, line 289) |

What is appended behind part of an entry, or of the header, starts at a wrong offset: `AppendedWhole`
and `AppendedPart` then give the piece that is full a `Garbage` page for any page id, and leave the
rest as `tail`. In all instances the client does not use a store whose recovery failed.

### Transactions

Each thread runs one transaction: `txn_begin`, `Locked` (the lock is granted), calls, `txn_commit`
(`txn_abort` does the same). `txn_put` and `txn_delete` take two steps, and a get that comes
between them may answer anything: only the lock prevents it. The `pthread_rwlock_t` is external:
many readers or one writer, readers may pass waiting writers. `base` is the map when the last
writer got the lock; the refinement shows it to others until the writer ends.

### Leaderboard

`board` maps names to wealth; a name is a sequence of bytes, so that the order of the tree's keys
(`compare_default`: `memcmp`, then length) and the order of the ranking (`strcmp`) are two
definitions that the properties set against each other. `Scan` is what a cursor collects, in the
order of the tree's keys; `qsort` may leave any rearrangement without an inversion, and `Sorted`
is the array after it, for every content the uninitialised end may have. The list has `Limit(n)`
entries: 10 when the user asks for none, and never more than 200. Commands are `show_top_n`,
`lookup_person`, `add_or_update`, `delete_person`, `Exit`; `lb_create` opens the file, or creates
and seeds it when it is missing or cannot be opened (`openFaults` counts the latter). `edits` is
history: what the user did, whatever became of the file. A start that fails altogether leaves the
program down and the file as it is, and is left out; so are commands with an empty line.

## 3. What TLC checks

| Run | Instance | Shows |
|---|---|---|
| `cursor` | 4 keys, two records per leaf, up to two levels, a cursor that moves between any two calls | positions are right; next goes to the successor; forward scans ascend and miss nothing under changes; ordered map, leaf chain, parent links |
| `tree_tall_puts` | 7 keys put in every order, three levels, one failing callback or malloc | without failure: map, chain, parent links through internal splits; with it: pages searchable, depth uniform |
| `restart` | 4 keys, two records per leaf, one separator per internal node, a failing callback in a delete, restarts | reopening yields the same map; a failed delete leaves other keys alone; `BTREE_CORRUPTED` unreachable; order, depth, page ids; every call returns |
| `pool` | 2 frames, 4 hash slots, pages 0, 1 and 4 of five, 2 contents | the pool is plain page storage; table and frames agree; the victim is the least recently used frame |
| `wal` | 2 pages, 2 contents, 2 crashes, 1 failing write, all three switches `FALSE` | for a client that recovers and closes as told, and as long as power is not lost after the log was cleared: written pages survive, entries stay aligned, a torn log restores its whole entries |
| `txn` | 3 threads, 2 keys, 2 calls each | isolation; every transaction ends |
| `board` | 4 names, wealth 1, 2 and 300, one failing open | list and rank are what the header promises; seeds come once, as long as the existing file can be opened |
| `tree_tall_loss` | 5 keys, three levels, deletes | **violated**: a delete loses other keys |
| `tree_mixed_drop` | 3 keys, values of 1 and 2487 bytes | **violated**: a put loses a record |
| `cursor_back` | 3 keys, two leaves | **violated**: prev does not reach page 0 |
| `crash_split` | 3 keys, a kill in the middle of a call | **violated**: other keys are lost |
| `board_long_names` | as `board`, one name of 64 bytes or more | **violated**: the list shows uninitialised memory |

The five violated runs are disagreements between the code and its comments, tests or README;
`PROJECT.json` ("findings") quotes both sides. More of them are in the models without a run of their
own:

- a null pointer when a first child's parent has no slot (`RebalanceNull`; comment at `btree.c:276`);
- a slot written over its record (`SlotOverlaysRecord`, in `PlaceRecord`, `PlaceChild` and
  `NewRootSetLeft`; comment at `page.c:43`);
- an evicted dirty page whose storage write failed (`EvictWriteFails`; comment at `buffer_pool.c:139`);
- what the constants of `Wal` switch on, against "data can be recovered after a crash" (README of the
  repository, line 31). With any one of them `TRUE` in `Wal.cfg`, TLC finds `ImplementsDurable`
  violated: behind a header that a crash cut off a successful write fills the header up and is lost
  (`SkipsByCount`); behind a fragment recovery reads a mixture of two entries and puts it over a page
  (`WritesOn`); and pages that were replayed are in neither file (`LateLoss`);
- a start that cannot open the existing file truncates and seeds it, against `leaderboard.h:26` ("if
  the file does not exist"): `ExistingBoardKept`, which `EditsOutliveSeeds` has as its conclusion, is
  violated in the instance of `board`.

**Bounds.** `MaxPages` stops puts once that many pages exist, because merged pages are never
reused and the state space would be infinite; a put that has begun finishes. Key and value
lengths decide how many records a page holds: with two per leaf every kind of leaf split and
merge happens with four keys. Three levels - the smallest tree in which internal nodes split and
merge - need five keys with two separators per node (`tree_tall_puts` has seven, so that the
right half of an internal node splits again), and three with one separator per node
(`restart`), where nodes with a single child appear too. `cursor` stays at two levels because
with three a cascade of merges loses keys (`tree_tall_loss`), which is a finding of its own.
`MaxFaults` bounds failures per behaviour; one suffices to fail at each step, and `GiveUp = 2` in
`tree_tall_puts` lets the client go on after it. In `pool`, pages 0 and 4 share a hash slot and 1
is the next one, so collisions, tombstones and their reuse happen; five accesses between restarts
are two more than the pool needs to evict. `VictimIsLeastRecent` is checked without a wrap of the
counter; it is false after one, because `evict_one` compares raw stamps, which costs speed and
nothing else. In `wal`, two crashes give a crash during the recovery from a crash, and three log
entries two writes of one page around one of another. In `txn`, three threads give two readers
and a writer, and two writers and a reader; two keys and two calls let a reader see half of a
writer's changes if it could.

**Deadlock** is checked except where the model has `"undefined"` states, where all allowed puts
are used up by bound, or where all transactions have ended (`CHECK_DEADLOCK FALSE`).

**Fairness.** `RestartFairSpec` is weak fairness of the steps of a running call: the code never
waits inside a call (no lock is taken, callbacks return), so it keeps executing unless the
process is killed. New calls are not fair: the client may stop. `Txn` has weak fairness of each
thread's own steps, and of getting a lock that stays free; it does not assume that the lock is
fair. That suffices for `EveryTxnEnds` because each thread runs one transaction: with an endless
supply of readers a writer could wait for ever (glibc's default prefers readers).

## 4. What is proved

`BufferPoolProofs` proves, for every capacity, table size of at least twice the capacity, hash
multiplier, stamp width, page contents and bound:

- `PoolTypeOK`: `Spec => []TypeOK`;
- `TableAlwaysMatches`: `Spec => []TableMatchesFrames`;
- `CleanAlwaysSaved`: `Spec => []CleanIsSaved`, also when unchecked storage writes fail;
- `PoolImplementsStore`: `Spec => ImplementsStore`, assuming `EvictWriteFails = FALSE` (with failing
  writes an evicted page is lost, so the assumption is needed);
- `VictimIsAlwaysLeastRecent`: `Spec => []VictimIsLeastRecent`, assuming `MaxStamp < StampMod`: the
  counter does not wrap between two restarts (after a wrap it is false, see section 3).

The inductive invariant is `IInv == TypeOK /\ TableMatchesFrames /\ CleanIsSaved`. None of the
three is inductive alone: whether an insertion creates a duplicate depends on `ht_lookup` having
missed (table), whether the table has a free slot on occupied slots naming different used frames
(pigeonhole, `TableNeverFull`), and what an eviction may drop on clean frames being saved. The
argument for the table has three lemmas: a search succeeds exactly for cached pages
(`LookupFinds`); a tombstone keeps every other probe sequence alive (`RemoveMatches`); an
insertion into the first slot that is not occupied is found again, and lengthens no other search
(`InsertMatches`). The refinement maps `mem` to the frame's page for cached pages and the disk's
otherwise; evictions, flushes and restarts are stuttering steps. For LRU, `Recency` says that the
history names every used frame, in the strict order of the stamps, and that no stamp is ahead of
the counter: an access then takes the one stamp that is larger than all others.

`TxnProofs` proves, for any threads, keys and values and any number of calls:

- `TxnTypeOK`: `Spec => []TypeOK`, which says that the lock is held by exactly the active
  transactions, in the mode of their type;
- `TxnsAreSerial`: `Spec => ImplementsSerial`.

Its inductive invariant is `IInv == TypeOK /\ WriterIsAlone`: while a transaction writes there are
no readers, and a put or delete that has begun is the writer's. Without the second part a get
could meet a half-done put and answer anything, and without the first a writer's changes would
appear in the map of a reader. `AloneWithTheTree` is what both parts are for: whoever is active
while somebody writes is the writer. The refinement maps the committed map to the contents when
the writer got the lock (`base`) while there is a writer, and to the contents otherwise.
`Locked` is `Begin`, `PutEnds` is `Write`, `txn_commit` is `End`; asking for the lock and the start
of a put are stuttering steps.

`WalProofs` proves, for any number of pages, log entries, crashes and failed writes, where `Careful`
is `~SkipsByCount /\ ~WritesOn`:

- `WalTypeOK`: `Spec => []TypeOK`, for every client;
- `LogStaysAligned`: `Spec => []AppendsAligned`; the property itself is about a `Careful` client;
- `TornLogLosesNothing`: `Spec => []CorruptStillRestored`; the property is about a `Careful` client
  and `~LateLoss`;
- `AlignedIsDurable`: `Spec /\ []InPlace => ImplementsDurable`, assuming `~LateLoss`, where `InPlace`
  says that every append starts behind a whole header and a whole entry;
- `WalIsDurable`: `Spec => ImplementsDurable`, assuming `Careful` and `~LateLoss`.

The code does not enforce the assumptions, and durability is false without any one of them (section
3). `AlignedIsDurable` puts the condition on the behaviour
instead of on the client: whoever uses the log, nothing else can go wrong but an entry that is
appended behind part of another. `LogStaysAligned` has an invariant of its own (`AlignInv`: a store in
use has a log that ends with a whole entry).

Call contents of a page *good* when they are those of the last successful write, or of one that
began after it and did not succeed. The inductive invariant is `TypeOK` with six parts, each needed
by another: the last entry of a page in the log is good (`LogIsGood`), or else replaying it would
bring back an older write; a written page without an entry is good in the storage file
(`FileIsGood`), since recovery leaves it alone; before the log is first cleared it has every written
page (`LogIsComplete`), since a power loss may take the unsynced storage file; during the replay the
entries before `pos` are in the file (`Replayed`); while the store is in use every written page can
be read (`UseIsCurrent`); and `ControlOK`, what holds at each control point. The refinement maps
opening the store to the step of `DurableStore` that settles the writes in doubt: each page then has
the contents it was found with, and the invariant says that these are good.

`LeaderboardProofs` proves, for any names, seeds, inputs and failing opens:

- `OneOrderOfNames`: `compare_default` (`memcmp`, then length) and `strcmp` order names alike;
- `BoardTypeOK`: `Spec => []TypeOK`;
- `SeedsComeInOnce`: `Spec => []EditsOutliveSeeds`, where `EditsOutliveSeeds` speaks of the time until a
  start first fails to open the existing file (afterwards it may be false, section 3);
- `TopIsBeginningOfRanking`: `Spec => []TopIsRanking`, and `RankIsNumberAhead`:
  `Spec => []RankCountsThoseAhead`, both assuming `LongNames = {}` (with a name that does not fit an
  entry both are false: run `board_long_names`).

The invariant is `TypeOK`, that finitely many people are on the board, that only names are edited, and
none before there is a file, and `EditsOutliveSeeds`. What the list is rests on lemmas about the orders: the ranking is a strict
total order, so an arrangement without inversions is unique, and its n-th entry is the one with
n - 1 people ahead. `OneOrderOfNames` is what makes `lb_rank`, which counts in the order of the
tree's keys, agree with the sorted list, which compares names with `strcmp`.

`BTreeProofs` proves, for any keys, values, record lengths, number of pages and failures in gets and
deletes:

- `TreeTypeOK`: `Spec => [](NoPutFailed => TypeOK)`;
- `DeleteNeverCorrupted`: `Spec => [](NoPutFailed => NodeIsChildOfParent)`;
- `LeavesAtOneDepth`: `Spec => [](NoPutFailed => UniformDepth)`.

`NoPutFailed` says that no callback or malloc has failed in a put. The invariant needs it: a put
does not check its page writes, and a new internal page whose write was lost keeps first child 0, the
first leaf, at whatever height it stands. In gets and deletes anything may fail. Record lengths are free:
where `page_alloc_slot` writes a slot over its record (`SlotOverlaysRecord`: for a separator in a new root,
a key of 4055 to 4058 bytes) the model is in the state `"undefined"`, which has no successor, and the
theorems say nothing about what the program does then. With `RecordsFit` and `EvenRecords` (below) that
state is not reached by a put until a callback or malloc fails.

`TypeOK` alone is not inductive, since a merge combines the slots of two siblings and reads them as
being of one type. The inductive invariant `IInv` adds that the pages, reachable or not, can be given
heights (`\E h : Tall(h)`): a leaf has height 0, and every child of an internal page is one below it.
The parts of `Tall` carry the heights through a running call: the path goes down one by one
(`Walked`), the page being built and its records are of one height (`SplitsLeaf`, `SplitsParent`,
`Merges`), the separator on its way up belongs one level above its child (`GoesUp`), the new root is
one above the old (`BuildsRoot`). The witness changes only where a page is allocated.
`NodeIsChildOfParent` follows because `find_pos_in_parent` is called with a node and the page above
it on the path. For `UniformDepth` the height of the root bounds the walk, which must be
shorter than the number of pages (`num_pages`): a pigeonhole argument, as the pages on a way down have
different heights.

`BTreeOrderProofs` proves, for any keys, values and number of pages:

- `SlotsStaySorted`: `Spec => []AllSlotsSorted`, assuming `RecordsFit`: every record a caller may put,
  and every separator, fits in an empty page.

The code does not enforce `RecordsFit` (`leaf_rec_size` is not compared with the page size), and without
it the theorem is false: a record that does not fit in an empty leaf splits it all the same, the left half
has no record, and the separator is the key of the first record, which the next such split repeats. Every
run satisfies it.

That slots stay sorted is not a property of single pages. The separator that a split sends up has to
fit between two slots of the parent, and the records of merged neighbours have to follow one another; both
are so because the pages are a search tree. The inductive invariant `OInv`, used together with `IInv`, says
that there are nodes `N` of a set `A` of pages, and bounds `K` on the keys that may be at a page or below it,
that are `InOrder`:

| part | what it says | which step needs it |
|---|---|---|
| `Tree` | the keys of a page are within its bound (`Holds`), a child's bound lies between the separators around it (`Routes`), no page hangs from two places (`Unshared`) | all |
| `Mirrors` | `N` is what is on disk, except at the one page whose split or merge is half-written (`Changing`) | all |
| `Down`, `Looks` | the path is a path of the tree as far as the call still uses it (`Live`), and the key of the call belongs at its end | insertion in a leaf |
| `CutsLeaf`, `CutsParent` | the halves of the page being split are in order, with the separator between them | split of a leaf, of an internal node |
| `Rises` | the separator going up and its page fit to the right of the page that was split (`Raised`, `FitsAbove`) | insertion in the parent, new root |
| `Joins` | what a merge has collected are records of the two neighbours, in order | merge |

The first part of the module proves, about search trees as such, that each change the code makes gives a
search tree again: `InsertSep`, `CutNode`, `MergeNodes`, `NewRootTree`, `DropRootTree`; the second that each
step of a call is one of them, or changes nothing a search sees (`Quiet`). The bounds say where a key may be
and not that it is there: a merge of internal nodes loses the first child of the right one (run
`tree_tall_loss`), and the tree is in order afterwards. The theorem holds until the first failure, as
`AllSlotsSorted` does: a delete that fails between two writes of a merge leaves both pages with the records,
and the merge that is repeated puts them in twice.

`BTreeMapProofs` proves, for any number of keys, values, pages and levels:

- `PutsReachTheMap`: `Spec => SplitKeepsRecords`: a put that returned `BTREE_OK` is found, and every other
  key keeps its value, whatever deletes came before, until a callback or malloc fails;
- `TreeIsTheMap`: `Spec /\ [](faults = 0 /\ LeafMergesOnly) => ImplementsMap`;
- `PutsAndGetsImplementMap`: `Spec /\ [](faults = 0) => ImplementsMap` for a client that does not delete;
- `FailedDeletesAreIsolated`: `Spec => FailedDeleteIsolated` with `GiveUp <= 1`: on a tree of at most two
  levels, a delete whose first failing page access ends it has changed the value of no other key;

all four assuming `RecordsFit` and `EvenRecords`: all keys are of one length and all values are of one.
The code does not enforce `EvenRecords`, and it is needed: a split by the number of records may leave one
half with more bytes than a page has, and `page_alloc_slot` then drops records (run `tree_mixed_drop`).
`LeafMergesOnly` says that a merge is of two leaves, which is so in every tree of one or two levels: a
merge of internal nodes loses keys, so that `ImplementsMap` is false with it (run `tree_tall_loss`). It is a
hypothesis on the behaviour and not on the constants, so that the theorem covers taller trees as long as
their internal nodes are not merged. With a failing callback the map is not kept either, since a put does not
check its page writes. `tree_tall_puts` satisfies the hypotheses with three levels, `cursor` with merges.

The inductive invariant is `WholeInv == IInv /\ OInv /\ FInv /\ MInv`, with the invariants of the two
modules before. In `FInv` the records of every page are counted, and `Room` says that this many fit: it is
what rules out a dropped record, in a split because each half has fewer than the page had (`RecordsFit`),
in a merge because `merge_fits` counts the bytes. `MInv` is what the map needs:

| part | what it says | which step needs it |
|---|---|---|
| `Exact` (in `Mapped`) | `D[p]` is the set of keys whose lookup goes through page `p`, neither more nor fewer | all |
| `Contents` | a leaf has the record of a key in its part exactly if that is the value wanted (`Want`) | all |
| `Way`, `Aim` | the path is a path of this tree, and the leaf at its end is the one of the call's key | search, insertion and removal in a leaf |
| `Fresh` | the page just allocated is not in the tree yet | second half of a split |
| `Joined` | what a merge has collected are all records of the two leaves | merge |
| `AnswersRight` | the answer of a call that returns is the one of `KVMap` | return |

`Exact` and `Contents` are not about the pages on disk, which lack records between the writes of a split,
but about the tree as it is meant (`VN`): the one page that is being changed (`Place`) has the records of both
halves, and then the separator of its new neighbour before that has been written; `Top`, a place above the root,
takes the separator for which a new root has yet to be built. Each action of the code then changes `VN` in
one step: a split cuts a node when its second half is written, the new root comes when `root_id` is set.
`Want` is the map before the call until the leaf is written or cut, and the map after it from then on. The
refinement maps `kv` to what could be read when the last call returned: `Invoke` is `Invoke`, `Return` is
`Respond`, and all other steps stutter.

`FailedDeletesAreIsolated` goes through the failure. Until then `WholeInv` holds, and `DeleteInv` besides:
a delete on at most two levels has its map at every step, and before the parent is written, with the
records already on both leaves, a lookup that still ends at the right one reads the same there. All page
accesses of a delete are checked, so that a failure ends the call with the tree as it is at that step, and
what is read of every other key is what was read before. `GiveUp <= 1` lets a client make no call after a
failure, as in the run `restart`: the merge that a later call repeats puts records in twice. The theorem is
about a tree that is not closed in between; the run checks the property across restarts, too. That
merges of internal nodes are left out is said by the property itself (`Len(path) <= 2`), so the theorem needs
no hypothesis on the behaviour.

`RestartProofs` proves, for any keys, values, record lengths, number of pages and any number of restarts:

- `CrashTypeOK`: `RestartSpec => [](NoPutFailed => TypeOK)`;
- `CrashKeepsDepth`: `RestartSpec => [](NoPutFailed => UniformDepth)`;
- `CrashNeverCorrupts`: `RestartSpec => [](NoPutFailed => NodeIsChildOfParent)`, these three with kills at
  any step of any call (the run `restart` checks the same invariants with kills between calls);
- `ReopenAlwaysKeepsMap`: `RestartSpec => ReopenKeepsMap`, assuming `KillInCall = FALSE` (a kill in the
  middle of a split loses keys: run `crash_split`) and `"put" \notin FaultyOps` (a put that fails
  half-way has the same effect).

A kill keeps the pages as they are and forgets the call. For the first three theorems the invariant `CInv`
is therefore the one of `BTreeProofs` and what makes the pages of any moment a tree to start from.
`Fresh` is about the page that is allocated and not yet written: it is an internal page without a slot
whose first child is page 0, and no page leads to it; page 0 never stops being a leaf, so the page is
a node of height 1, whatever height it was allocated for, and the reopened tree has heights again
(`TallIsSound`). The root id in the header names a page, and any page is a sound root: what a crash costs
is keys, not the shape.

`ReopenAlwaysKeepsMap` needs more, since a delete may replace the root in memory and then fail, and
nobody saves its id. `Leads(h, C)` says that the page in the header is the root, or an internal page without a
slot whose only child leads there: a root is given up only when its last slot is gone. `C` is the set of
pages given up; the heights make the chain finite and keep it apart from the tree below the root, so that no
later merge writes to it, and a lookup from the header's page ends at the leaf that a lookup from the
root ends at (`LeadsToLeaf`). `RInv` adds that between two calls `view` is what can be read
(`ViewIsMap`), and that a put that returns has succeeded (`Answered`), after which the root is saved.

Assumptions on constants are the named `ASSUME`s of `PageSlots`, `BTree`, `BufferPool`, `Wal`, `Txn`
and `Leaderboard`.

Only model-checked: what a scan meets (`ScanIsTheMap`), the order of the tree after a failed put
(`StillSearchable`), the leaf chain backwards (`PrevMirrorsNext`) and parent links; the cursor; and liveness
(`EveryCallReturns`, `EveryTxnEnds`), which is outside the prover's reach as it needs fairness and `ENABLED`.

## 5. Not modelled

- The tests, the printing and reading of lines in `main.c`, hit and miss counters, magic numbers
  and versions of the files.
- Page layout below records and sizes; lengths beyond a page, where `rec_buf` and the 16-bit
  record size overflow.
- Threads inside the buffer pool: readers share the tree's lock and change the pool without one,
  a data race without a defined outcome.
- Failing header writes in `Restart` (they are in `Wal`), a kill while the seeds are put
  (`leaderboard.c:191`), and memory failures in cursor and leaderboard, where the call just
  answers as if there were nothing.
- Calls that txn.h rules out: a transaction used after its end, or calls on the tree without one.

## 6. Plan

1. `ScanIsTheMap`, `ParentLinks` and `PrevMirrorsNext`, which hold as long as no internal nodes are
   merged; and the cursor's `CursorTypeOK`, for which the leaves, the retired ones included, need an order
   that every `next_id` follows, also past a leaf that such a merge has lost.
2. The byte layout of a page (offsets, overlap, repacking) against `PageSlots`.
