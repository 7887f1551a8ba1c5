-------------------------------- MODULE Wal --------------------------------
(***************************************************************************)
(* wal.c over storage.c: every page is appended to the log, and the log is *)
(* fsynced, before it is written to the storage file; after a crash        *)
(* wal_recover replays the log into the storage file and clears it.        *)
(*                                                                         *)
(* file is the storage file as the operating system sees it.  The log file *)
(* is a header hdr and, behind it, pieces of the length of an entry, as     *)
(* wal_recover reads them: log the whole pieces, tail what is left over.   *)
(* A handler ends a step at every point where a crash would leave          *)
(* something else behind.                                                  *)
(*                                                                         *)
(* A write that fails or is cut off leaves part of an entry behind.  What  *)
(* is appended to such a log starts at a wrong offset: the pieces read     *)
(* back mix two entries (Garbage).  wal.c does not prevent it, so that it  *)
(* depends on the client, which two constants describe:                    *)
(*   SkipsByCount  the client leaves wal_recover out when wal_num_entries  *)
(*                 is 0, as the tests of the repository do, also where     *)
(*                 that is 0 because the only entry is cut off; otherwise  *)
(*                 it follows wal.h and recovers whenever the log file     *)
(*                 existed with contents                                   *)
(*   WritesOn      the client goes on after a wal_write that failed, as    *)
(*                 buffer_pool.c and btree.c do, which ignore the answer;  *)
(*                 otherwise it closes the store and recovers              *)
(* In any case it does not use a store whose recovery failed.              *)
(*                                                                         *)
(* A crash of the process (Crash) keeps what was written to the storage    *)
(* file.  A crash of the machine (PowerLoss), which also stands for a lost *)
(* storage file, does not: storage.c never calls fsync.  Clearing the log  *)
(* makes the storage file the only copy of the pages replayed; LateLoss    *)
(* says whether a PowerLoss may come after it, too.                        *)
(***************************************************************************)
EXTENDS Integers, Sequences, FiniteSets, SequencesExt

CONSTANTS
    MaxPid,         \* bound: page ids used by the client
    Data,           \* the contents the client writes to a page
    InitData,       \* the contents page_init gives a new page
    ZeroData,       \* a page of zeros, written when the file is extended
    NoData,         \* no contents
    Garbage,        \* bytes of several pages, or of part of one
    SkipsByCount,   \* BOOLEAN: the client recovers only if wal_num_entries > 0
    WritesOn,       \* BOOLEAN: the client writes on after a failed wal_write
    LateLoss,       \* BOOLEAN: power may also be lost after the log was cleared
    MaxLog,         \* bound: no write is called with more entries in the log
    MaxCrash,       \* bound: crashes
    MaxFaults       \* bound: failed writes to the log or the storage file

Tails == {"none", "short_pid", "short_page"}
PageIds == 0..MaxPid

Blanks == {InitData, ZeroData, NoData, Garbage}
Pages == Data \cup Blanks

ASSUME PagesAssumption == MaxPid \in Nat /\ Data # {} /\ Data \cap Blanks = {}
ASSUME BlanksAssumption == NoData \notin {InitData, ZeroData, Garbage}
ASSUME BoundsAssumption == MaxLog \in Nat /\ MaxCrash \in Nat /\ MaxFaults \in Nat
ASSUME SwitchesAssumption == {SkipsByCount, WritesOn, LateLoss} \subseteq BOOLEAN

VARIABLES
    file,           \* the storage file: num_pages of its header, and the pages
    num_pages,      \* store->num_pages, the count in memory
    hdr, log, tail, \* the log file
    cleared,        \* history: wal_recover has cleared the log before
    pc,             \* what the client does, and the step of the call it waits for
    req,            \* the arguments of wal_write
    pos,            \* wal_recover: the next entry to replay
    out,            \* the answer to the last wal_read
    mem, doubt,     \* history: contents written last; writes that did not succeed
    crashes, faults

logfile == <<hdr, log, tail, cleared>>
history == <<mem, doubt>>
bounds == <<crashes, faults>>
storage == <<file, num_pages>>
vars == <<storage, logfile, pc, req, pos, out, history, bounds>>

Request == [pid : PageIds, data : Data]
Entry == [pid : PageIds, data : Data \cup {Garbage}]
NoReq == [pid |-> 0, data |-> NoData]

-----------------------------------------------------------------------------
(***************************************************************************)
(* The storage file.  A page behind the end of the file is NoData.         *)
(***************************************************************************)
btree_storage_create == [num_pages |-> 0, pages |-> [pid \in PageIds |-> NoData]]

btree_storage_open == num_pages' = file.num_pages
btree_storage_close == file' = [file EXCEPT !.num_pages = num_pages]

\* btree_storage_read fails behind the last page, and where the file is too short.
Readable(pid) == pid < num_pages /\ file.pages[pid] # NoData
Contents(pid) == IF Readable(pid) THEN file.pages[pid] ELSE NoData

\* fwrite at a page; the operating system fills a gap before it with zeros.
PagesWith(pid, d) ==
    [p \in PageIds |-> IF p = pid THEN d
                       ELSE IF p < pid /\ file.pages[p] = NoData THEN ZeroData
                       ELSE file.pages[p]]

Stored(pid, d) == [file EXCEPT !.pages = PagesWith(pid, d)]

\* The extension in btree_storage_write: zeros from the old count up to pid, then the
\* header, with the count the storage has in memory by then.
Extended(pid) ==
    [num_pages |-> pid + 1,
     pages |-> [p \in PageIds |-> IF p \in num_pages..pid THEN ZeroData ELSE file.pages[p]]]

-----------------------------------------------------------------------------
Durable == INSTANCE DurableStore

Init ==
    /\ file = btree_storage_create /\ num_pages = 0
    /\ hdr = "none" /\ log = << >> /\ tail = "none" /\ cleared = FALSE
    /\ pc = "down"
    /\ req = NoReq /\ pos = 0
    /\ out = Durable!NoAnswer
    /\ mem = [pid \in PageIds |-> NoData] /\ doubt = {}
    /\ crashes = 0 /\ faults = 0

(***************************************************************************)
(* Stopping loses what the process has in memory.                          *)
(***************************************************************************)
Stopped ==
    /\ pc' = "down"
    /\ num_pages' = 0 /\ req' = NoReq /\ pos' = 0 /\ out' = Durable!NoAnswer
    /\ UNCHANGED history

(***************************************************************************)
(* Opening: btree_storage_open, then wal_create, which writes the header   *)
(* of a log file of length 0 and leaves any other file as it is.  Whether  *)
(* there was one with contents ("open") or not ("new") the client sees.    *)
(***************************************************************************)
wal_create ==
    /\ pc = "down"
    /\ hdr' = IF hdr = "none" THEN "full" ELSE hdr
    /\ btree_storage_open
    /\ pc' = IF hdr = "none" THEN "new" ELSE "open"
    /\ UNCHANGED <<file, log, tail, cleared, req, pos, out, history, bounds>>

\* A crash while the header of a new log is written, or a failure (wal_create returns NULL).
CrashInCreate ==
    /\ pc = "down" /\ hdr = "none"
    /\ crashes < MaxCrash /\ crashes' = crashes + 1
    /\ hdr' \in {"short", "full"}
    /\ UNCHANGED <<storage, log, tail, cleared, pc, req, pos, out, history, faults>>

wal_num_entries == Len(log)

\* The store is open for use; what the restart made of the writes in doubt is settled.
Opened ==
    /\ pc' = "ready"
    /\ mem' = [pid \in PageIds |->
                 IF mem[pid] # NoData \/ <<pid, Contents(pid)>> \in doubt
                 THEN Contents(pid) ELSE NoData]
    /\ doubt' = {}

\* The client leaves recovery out: for a new log, or by the number of entries, which is
\* rounded down.
SkipRecover ==
    /\ pc \in {"new", "open"}
    /\ SkipsByCount \/ pc = "new"
    /\ wal_num_entries = 0
    /\ Opened
    /\ UNCHANGED <<storage, logfile, req, pos, out, bounds>>

-----------------------------------------------------------------------------
(***************************************************************************)
(* wal_recover.                                                            *)
(***************************************************************************)
\* Mutant of RecoverStart: the read position is not moved behind the header.
RecoverStart_AtHeader ==
    /\ pc \in {"new", "open"}
    /\ pos' = 0
    /\ pc' = "replay"
    /\ UNCHANGED <<storage, logfile, req, out, history, bounds>>

RecoverStart ==
    /\ pc \in {"new", "open"}
    /\ pos' = 1
    /\ pc' = "replay"
    /\ UNCHANGED <<storage, logfile, req, out, history, bounds>>

Extending == pc = "replay" /\ pos <= Len(log) /\ log[pos].pid >= num_pages

\* Mutant of ReplayExtend: a page behind the end of the file is passed over.
ReplayExtend_Skip ==
    /\ Extending
    /\ pos' = pos + 1
    /\ UNCHANGED <<storage, logfile, pc, req, out, history, bounds>>

\* btree_storage_write first extends the file.
ReplayExtend ==
    /\ Extending
    /\ file' = Extended(log[pos].pid)
    /\ num_pages' = log[pos].pid + 1
    /\ UNCHANGED <<logfile, pc, req, pos, out, history, bounds>>

\* The header cannot be written; the count in memory has been changed before.
ReplayExtendFail ==
    /\ Extending
    /\ faults < MaxFaults /\ faults' = faults + 1
    /\ file' = [Extended(log[pos].pid) EXCEPT !.num_pages = file.num_pages]
    /\ num_pages' = log[pos].pid + 1
    /\ pc' = "failed"
    /\ UNCHANGED <<logfile, req, pos, out, history, crashes>>

ReplayWrite ==
    /\ pc = "replay" /\ pos <= Len(log)
    /\ log[pos].pid < num_pages
    /\ file' = Stored(log[pos].pid, log[pos].data)
    /\ pos' = pos + 1
    /\ UNCHANGED <<num_pages, logfile, pc, req, out, history, bounds>>

\* A storage write fails, or - with everything replayed - the log cannot be reopened.
ReplayFail ==
    /\ pc = "replay"
    /\ faults < MaxFaults /\ faults' = faults + 1
    /\ pc' = "failed"
    /\ UNCHANGED <<storage, logfile, req, pos, out, history, crashes>>

\* Mutant of ReplayTorn: the cut-off entry is taken for the end of the log, which stays.
ReplayTorn_Accept ==
    /\ pc = "replay" /\ pos = Len(log) + 1 /\ tail = "short_page"
    /\ Opened /\ pos' = 0
    /\ UNCHANGED <<storage, logfile, req, out, bounds>>

\* Mutant of ReplayTorn: the log is checked before it is replayed.
ReplayTorn_First ==
    /\ pc = "replay" /\ tail = "short_page"
    /\ pc' = "corrupt"
    /\ UNCHANGED <<storage, logfile, req, pos, out, history, bounds>>

\* The page of the last entry is incomplete: BTREE_CORRUPTED, the log stays.
ReplayTorn ==
    /\ pc = "replay" /\ pos = Len(log) + 1 /\ tail = "short_page"
    /\ pc' = "corrupt"
    /\ UNCHANGED <<storage, logfile, req, pos, out, history, bounds>>

\* The loop ends at the end of the file; an incomplete page number looks the same.
\* fopen(path, "wb+") cuts the log to length 0.
ReplayEnd ==
    /\ pc = "replay" /\ pos = Len(log) + 1 /\ tail # "short_page"
    /\ hdr' = "none" /\ log' = << >> /\ tail' = "none" /\ cleared' = TRUE
    /\ pc' = "truncated" /\ pos' = 0
    /\ UNCHANGED <<storage, req, out, history, bounds>>

RecoverHeader ==
    /\ pc = "truncated"
    /\ hdr' = "full"
    /\ Opened
    /\ UNCHANGED <<storage, log, tail, cleared, req, pos, out, bounds>>

RecoverHeaderFail ==
    /\ pc = "truncated"
    /\ faults < MaxFaults /\ faults' = faults + 1
    /\ hdr' \in {"none", "short"}
    /\ pc' = "failed"
    /\ UNCHANGED <<storage, log, tail, cleared, req, pos, out, history, crashes>>

-----------------------------------------------------------------------------
(***************************************************************************)
(* The I/O callbacks.                                                      *)
(***************************************************************************)
wal_read(pid) ==
    /\ pc = "ready"
    /\ out' = [pid |-> pid, data |-> Contents(pid),
               status |-> IF Readable(pid) THEN "BTREE_OK" ELSE "BTREE_IO_ERROR"]
    /\ UNCHANGED <<storage, logfile, pc, req, pos, history, bounds>>

\* btree_storage_alloc.  Not logged.
wal_alloc ==
    /\ pc = "ready" /\ num_pages <= MaxPid
    /\ file' = [num_pages |-> num_pages + 1, pages |-> PagesWith(num_pages, InitData)]
    /\ num_pages' = num_pages + 1
    /\ UNCHANGED <<logfile, pc, req, pos, out, history, bounds>>

\* The page cannot be written, or the header, when the page has been counted.
AllocFail ==
    /\ pc = "ready" /\ num_pages <= MaxPid
    /\ faults < MaxFaults /\ faults' = faults + 1
    /\ \/ UNCHANGED storage
       \/ /\ file' = Stored(num_pages, InitData)
          /\ num_pages' = num_pages + 1
    /\ UNCHANGED <<logfile, pc, req, pos, out, history, crashes>>

\* The tree only writes pages it has allocated.
wal_write(pid, d) ==
    /\ pc = "ready" /\ pid < num_pages /\ Len(log) < MaxLog
    /\ req' = [pid |-> pid, data |-> d]
    /\ doubt' = doubt \cup {<<pid, d>>}
    /\ pc' = "append"
    /\ UNCHANGED <<storage, logfile, pos, out, mem, bounds>>

Aligned == hdr = "full" /\ tail = "none"

\* A piece that mixes two entries; bound: its page number is one of the client's.
Mixed == [pid : PageIds, data : {Garbage}]

\* The entry is in the log file as a whole.  Behind part of an entry the piece that is
\* full now mixes both, and as much as before is left over; behind part of a header
\* the entry fills the header up and is cut off at its end.
AppendedWhole ==
    \/ Aligned /\ log' = Append(log, req) /\ UNCHANGED <<hdr, tail>>
    \/ /\ hdr = "full" /\ tail # "none"
       /\ \E e \in Mixed : log' = Append(log, e)
       /\ UNCHANGED <<hdr, tail>>
    \/ hdr # "full" /\ hdr' = "full" /\ tail' = "short_page" /\ UNCHANGED log

\* Some bytes of the entry are.
AppendedPart ==
    \/ Aligned /\ tail' \in Tails \ {"none"} /\ UNCHANGED <<hdr, log>>
    \/ hdr = "full" /\ tail # "none" /\ tail' \in {tail, "short_page"} /\ UNCHANGED <<hdr, log>>
    \/ /\ hdr = "full" /\ tail # "none" /\ tail' \in Tails
       /\ \E e \in Mixed : log' = Append(log, e)
       /\ UNCHANGED hdr
    \/ hdr # "full" /\ hdr' \in {"short", "full"} /\ UNCHANGED log
       /\ tail' \in IF hdr' = "full" THEN Tails ELSE {"none"}

\* fwrite, fflush and fsync of the entry.
LogAppend ==
    /\ pc = "append"
    /\ AppendedWhole
    /\ pc' = "store"
    /\ UNCHANGED <<storage, cleared, req, pos, out, history, bounds>>

\* What the client does after a failed wal_write.
AfterFailure == IF WritesOn THEN "ready" ELSE "failed"

\* The call fails: the entry is not in the log, is if only fsync failed, or is in part.
AppendFail ==
    /\ pc = "append"
    /\ faults < MaxFaults /\ faults' = faults + 1
    /\ UNCHANGED <<hdr, log, tail>> \/ AppendedWhole \/ AppendedPart
    /\ pc' = AfterFailure /\ req' = NoReq
    /\ UNCHANGED <<storage, cleared, pos, out, history, crashes>>

StoreWrite ==
    /\ pc = "store"
    /\ file' = Stored(req.pid, req.data)
    /\ mem' = [mem EXCEPT ![req.pid] = req.data]
    /\ doubt' = {w \in doubt : w[1] # req.pid}
    /\ pc' = "ready" /\ req' = NoReq
    /\ UNCHANGED <<num_pages, logfile, pos, out, bounds>>

StoreFail ==
    /\ pc = "store"
    /\ faults < MaxFaults /\ faults' = faults + 1
    /\ pc' = AfterFailure /\ req' = NoReq
    /\ UNCHANGED <<storage, logfile, pos, out, history, crashes>>

\* wal_destroy and btree_storage_close, which writes the header once more.  The log is
\* left for the next start; a client that met a failure stops this way too.
wal_destroy ==
    /\ pc \in {"ready", "failed", "corrupt"}
    /\ btree_storage_close
    /\ Stopped
    /\ UNCHANGED <<logfile, bounds>>

-----------------------------------------------------------------------------
(***************************************************************************)
(* Crashes.  An entry or a header that was being written is there, not     *)
(* there, or there in part.                                                *)
(***************************************************************************)
LogAfterCrash ==
    /\ UNCHANGED cleared
    /\ \/ UNCHANGED <<hdr, log, tail>>
       \/ pc = "append" /\ (AppendedWhole \/ AppendedPart)
       \/ pc = "truncated" /\ hdr' \in {"short", "full"} /\ UNCHANGED <<log, tail>>

Crash ==
    /\ pc # "down"
    /\ crashes < MaxCrash /\ crashes' = crashes + 1
    /\ LogAfterCrash
    /\ Stopped
    /\ UNCHANGED <<file, faults>>

\* What a page may hold that was never synced: any earlier contents, or nothing.
OldContents(pid) ==
    {file.pages[pid]} \cup Blanks \cup {e.data : e \in {f \in Range(log) : f.pid = pid}}

PowerLoss ==
    /\ pc # "down" /\ (LateLoss \/ ~cleared)
    /\ crashes < MaxCrash /\ crashes' = crashes + 1
    /\ \E n \in 0..file.num_pages :
         \E old \in {f \in [PageIds -> Pages] : \A p \in PageIds : f[p] \in OldContents(p)} :
            file' = [num_pages |-> n, pages |-> old]
    /\ LogAfterCrash
    /\ Stopped
    /\ UNCHANGED faults

Recover ==
    \/ RecoverStart \/ ReplayExtend \/ ReplayExtendFail \/ ReplayWrite \/ ReplayFail
    \/ ReplayTorn \/ ReplayEnd \/ RecoverHeader \/ RecoverHeaderFail

Write == LogAppend \/ AppendFail \/ StoreWrite \/ StoreFail

Next ==
    \/ wal_create \/ CrashInCreate \/ SkipRecover \/ Recover
    \/ \E pid \in PageIds : wal_read(pid)
    \/ \E pid \in PageIds, d \in Data : wal_write(pid, d)
    \/ wal_alloc \/ AllocFail \/ Write \/ wal_destroy
    \/ Crash \/ PowerLoss

Spec == Init /\ [][Next]_vars

-----------------------------------------------------------------------------
(***************************************************************************)
(* Properties.                                                             *)
(***************************************************************************)

\* Type correctness; the replay position of wal_recover is in the log or just behind it.
TypeOK ==
    /\ file \in [num_pages : 0..(MaxPid + 1), pages : [PageIds -> Pages]]
    /\ num_pages \in 0..(MaxPid + 1)
    /\ hdr \in {"none", "short", "full"}
    /\ log \in Seq(Entry)
    /\ tail \in Tails
    /\ cleared \in BOOLEAN
    /\ pc \in {"down", "new", "open", "replay", "truncated", "failed", "corrupt", "ready",
               "append", "store"}
    /\ req \in Request \cup {NoReq} /\ (pc \in {"append", "store"} => req \in Request)
    /\ pos \in Nat /\ (pc = "replay" => pos \in 1..(Len(log) + 1))
    /\ mem \in [PageIds -> Pages]
    /\ doubt \subseteq PageIds \X Data
    /\ crashes \in 0..MaxCrash /\ faults \in 0..MaxFaults

\* The client follows wal.h: it recovers every log file that has contents, and does not go
\* on after a wal_write that failed.  Nothing in wal.c sees to either.
Careful == ~SkipsByCount /\ ~WritesOn

\* For a Careful client a new entry starts behind a whole header and a whole entry, whatever
\* crashes and failed writes have cut off: otherwise wal_recover would read pages at the
\* wrong offsets.  For any other client this is false.
AppendsAligned == Careful /\ pc = "append" => Aligned

\* When wal_recover gives up with BTREE_CORRUPTED because the last entry is torn, every
\* whole entry has been replayed: no page that was written successfully is lost.  It needs
\* a Careful client, and a storage file that is not lost once the log has been cleared.
CorruptStillRestored ==
    Careful /\ ~LateLoss /\ pc = "corrupt" =>
        \A pid \in PageIds :
            mem[pid] # NoData =>
                Contents(pid) = mem[pid] \/ <<pid, Contents(pid)>> \in doubt

\* Pages survive: log, storage file and recovery together are a store that keeps what
\* was written, through crashes of the process at any point, also during recovery, and
\* crashes of the machine before the log is cleared for the first time.  It holds only
\* with Careful and ~LateLoss, and is checked and proved with them.
ImplementsDurable == Durable!Spec
=============================================================================
