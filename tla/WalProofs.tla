----------------------------- MODULE WalProofs -----------------------------
(***************************************************************************)
(* Proofs about module Wal, for any number of pages, entries, crashes and  *)
(* failed writes.  The log stays aligned when the client is Careful, which *)
(* wal.c leaves to it; as long as the log is aligned, and no power is lost *)
(* once it has been cleared, no page that was written successfully is lost.*)
(***************************************************************************)
EXTENDS Wal, TLAPS

\* Whatever is appended starts behind a whole header and a whole entry.
InPlace == pc = "append" => Aligned

\* The client may read and write.
InUse == pc \in {"ready", "append", "store"}

\* Page pid has an entry among the first n of the log.
EntryBelow(pid, n) == \E i \in 1..n : log[i].pid = pid
HasEntry(pid) == EntryBelow(pid, Len(log))

\* Contents d of page pid are those of the last successful write, or of one that began
\* after it and did not succeed.
Good(pid, d) == d = mem[pid] \/ <<pid, d>> \in doubt

\* The last entry of a page in the log is good: replaying it does no harm.
LogIsGood ==
    \A pid \in PageIds, i \in 1..Len(log) :
        log[i].pid = pid /\ (\A j \in (i + 1)..Len(log) : log[j].pid # pid)
            => Good(pid, log[i].data)

\* A written page without an entry is good in the storage file.
FileIsGood ==
    \A pid \in PageIds :
        mem[pid] # NoData /\ ~HasEntry(pid) =>
            /\ pid < file.num_pages /\ file.pages[pid] # NoData
            /\ Good(pid, file.pages[pid])

\* Before the log is cleared for the first time it has every page that was written, so
\* that the storage file may be lost.
LogIsComplete ==
    ~cleared =>
        \A pid \in PageIds : mem[pid] # NoData \/ file.pages[pid] \in Data => HasEntry(pid)

\* wal_recover has put the last of the first n entries of page pid into the storage file.
Restored(pid, n) ==
    \E i \in 1..n : /\ log[i].pid = pid
                    /\ \A j \in (i + 1)..n : log[j].pid # pid
                    /\ file.pages[pid] = log[i].data

\* So it has with the entries before the place it has reached.
Replayed ==
    pc \in {"replay", "corrupt"} =>
        \A pid \in PageIds :
            EntryBelow(pid, pos - 1) => pid < num_pages /\ Restored(pid, pos - 1)

\* While the store is in use, every written page can be read.
UseIsCurrent ==
    InUse => \A pid \in PageIds :
                mem[pid] # NoData => pid < num_pages /\ file.pages[pid] = mem[pid]

\* What holds at each control point.
ControlOK ==
    /\ pc # "down" => file.num_pages <= num_pages
    /\ pc \in {"new", "open", "replay", "corrupt", "truncated"} => file.num_pages = num_pages
    /\ pc = "truncated" => log = << >> /\ cleared
    /\ pc = "corrupt" => pos = Len(log) + 1
    /\ pc \in {"append", "store"} =>
          req \in Request /\ <<req.pid, req.data>> \in doubt /\ req.pid < num_pages
    /\ pc = "store" => log # << >> /\ log[Len(log)] = req

\* Every page the client relies on was written by it.
MemOK == mem \in [PageIds -> Data \cup {NoData}]

\* The inductive invariant, while the log is aligned.
IInv ==
    /\ TypeOK /\ MemOK /\ ControlOK
    /\ LogIsGood /\ FileIsGood /\ LogIsComplete /\ Replayed /\ UseIsCurrent

-----------------------------------------------------------------------------
(***************************************************************************)
(* Facts about the log and the storage file.                               *)
(***************************************************************************)

\* A log that stays as it is, or gets the entry that is being written, keeps its entries
\* and stays good: the write of a new entry is in doubt.
LEMMA LogStep ==
    ASSUME IInv, UNCHANGED history,
           log' = log \/ (pc = "append" /\ log' = Append(log, req))
    PROVE  /\ log' \in Seq(Entry) /\ LogIsGood'
           /\ \A pid \in PageIds : HasEntry(pid) => HasEntry(pid)'
<1>1. CASE log' = log
  BY <1>1 DEF IInv, TypeOK, history, LogIsGood, Good, HasEntry, EntryBelow
<1>2. CASE pc = "append" /\ log' = Append(log, req)
  <2>1. req \in Entry /\ <<req.pid, req.data>> \in doubt /\ log \in Seq(Entry)
    BY <1>2 DEF IInv, ControlOK, TypeOK, Entry, Request
  <2>2. /\ log' \in Seq(Entry) /\ Len(log') = Len(log) + 1 /\ Len(log) \in Nat
        /\ \A i \in 1..Len(log) : log'[i] = log[i]
        /\ log'[Len(log) + 1] = req
    BY <1>2, <2>1
  <2>3. ASSUME NEW pid \in PageIds, NEW i \in 1..Len(log'),
               log'[i].pid = pid, \A j \in (i + 1)..Len(log') : log'[j].pid # pid
        PROVE  Good(pid, log[i].data)'
    <3>1. CASE i = Len(log) + 1
      BY <3>1, <2>1, <2>2, <2>3 DEF Good, history
    <3>2. CASE i \in 1..Len(log)
      <4>1. log[i].pid = pid /\ \A j \in (i + 1)..Len(log) : log[j].pid # pid
        BY <3>2, <2>2, <2>3
      <4>2. Good(pid, log[i].data)
        BY <3>2, <4>1 DEF IInv, LogIsGood
      <4> QED
        BY <3>2, <4>2, <2>2 DEF Good, history
    <3> QED
      BY <3>1, <3>2, <2>2
  <2>4. LogIsGood'
    BY <2>3 DEF LogIsGood
  <2>5. \A pid \in PageIds : HasEntry(pid) => HasEntry(pid)'
    BY <2>2 DEF HasEntry, EntryBelow
  <2> QED
    BY <2>2, <2>4, <2>5
<1> QED
  BY <1>1, <1>2

\* Written pages without an entry stay good when the storage file keeps them.
LEMMA FileStep ==
    ASSUME IInv, UNCHANGED history,
           \A pid \in PageIds : HasEntry(pid) => HasEntry(pid)',
           file'.num_pages \in Nat, file.num_pages <= file'.num_pages,
           \A pid \in PageIds :
                mem[pid] # NoData /\ ~HasEntry(pid) /\ pid < file.num_pages
                    /\ file.pages[pid] # NoData
                => file'.pages[pid] = file.pages[pid]
    PROVE  FileIsGood'
<1> SUFFICES ASSUME NEW pid \in PageIds, mem'[pid] # NoData, ~HasEntry(pid)'
             PROVE  /\ pid < file'.num_pages /\ file'.pages[pid] # NoData
                    /\ Good(pid, file.pages[pid])'
  BY DEF FileIsGood
<1>1. mem[pid] # NoData /\ ~HasEntry(pid)
  BY DEF history
<1>2. pid < file.num_pages /\ file.pages[pid] # NoData /\ Good(pid, file.pages[pid])
  BY <1>1 DEF IInv, FileIsGood
<1>3. file'.pages[pid] = file.pages[pid]
  BY <1>1, <1>2
<1>4. file.num_pages \in Nat /\ pid \in Nat
  BY DEF IInv, TypeOK, PageIds
<1> QED
  BY <1>2, <1>3, <1>4 DEF Good, history

\* fwrite at a page changes no other page that has contents, and brings no contents
\* but its own.
LEMMA WriteAt ==
    ASSUME TypeOK, NEW pid \in PageIds, NEW d \in Pages
    PROVE  /\ PagesWith(pid, d) \in [PageIds -> Pages]
           /\ PagesWith(pid, d)[pid] = d
           /\ \A p \in PageIds : p # pid /\ file.pages[p] # NoData
                                    => PagesWith(pid, d)[p] = file.pages[p]
           /\ \A p \in PageIds : p # pid /\ PagesWith(pid, d)[p] \in Data
                                    => file.pages[p] \in Data
<1>1. file.pages \in [PageIds -> Pages] /\ ZeroData \in Pages /\ ZeroData \notin Data
  BY PagesAssumption DEF TypeOK, Pages, Blanks
<1> QED
  BY <1>1 DEF PagesWith

\* The extension of the file keeps the pages that were counted before.
LEMMA ExtendBy ==
    ASSUME TypeOK, Extending
    PROVE  LET pid == log[pos].pid
           IN  /\ pid \in PageIds /\ pid + 1 \in 0..(MaxPid + 1) /\ num_pages < pid + 1
               /\ Extended(pid).num_pages = pid + 1
               /\ Extended(pid).pages \in [PageIds -> Pages]
               /\ Extended(pid) \in [num_pages : 0..(MaxPid + 1), pages : [PageIds -> Pages]]
               /\ \A p \in PageIds : p < num_pages
                                        => Extended(pid).pages[p] = file.pages[p]
               /\ \A p \in PageIds : Extended(pid).pages[p] \in Data
                                        => file.pages[p] \in Data
<1>1. pos \in 1..Len(log) /\ log \in Seq(Entry) /\ num_pages \in 0..(MaxPid + 1)
  BY DEF Extending, TypeOK
<1>2. log[pos].pid \in PageIds /\ num_pages <= log[pos].pid
  <2>1. log[pos] \in Entry
    BY <1>1
  <2> QED
    BY <1>1, <2>1 DEF Extending, Entry, PageIds
<1>3. log[pos].pid + 1 \in 0..(MaxPid + 1) /\ num_pages < log[pos].pid + 1
  BY <1>1, <1>2, PagesAssumption DEF PageIds
<1>4. file.pages \in [PageIds -> Pages] /\ ZeroData \in Pages /\ ZeroData \notin Data
  BY PagesAssumption DEF TypeOK, Pages, Blanks
<1>5. Extended(log[pos].pid).pages \in [PageIds -> Pages]
  BY <1>4 DEF Extended
<1>6. \A p \in PageIds : p < num_pages
                            => Extended(log[pos].pid).pages[p] = file.pages[p]
  BY <1>1, <1>2 DEF Extended, PageIds
<1>7. \A p \in PageIds : Extended(log[pos].pid).pages[p] \in Data => file.pages[p] \in Data
  BY <1>4 DEF Extended
<1>8. Extended(log[pos].pid) \in [num_pages : 0..(MaxPid + 1), pages : [PageIds -> Pages]]
  BY <1>3, <1>5 DEF Extended
<1> QED
  BY <1>2, <1>3, <1>5, <1>6, <1>7, <1>8 DEF Extended

\* A page that has been replayed, or needs no replay, is good in the file.
LEMMA AllReplayed ==
    ASSUME IInv, pc \in {"replay", "corrupt"}, pos = Len(log) + 1,
           NEW pid \in PageIds, mem[pid] # NoData
    PROVE  /\ pid < num_pages /\ file.pages[pid] # NoData
           /\ Good(pid, file.pages[pid])
<1>0. file.num_pages = num_pages /\ log \in Seq(Entry) /\ Len(log) \in Nat
  BY DEF IInv, ControlOK, TypeOK
<1>1. CASE ~HasEntry(pid)
  BY <1>0, <1>1 DEF IInv, FileIsGood
<1>2. CASE HasEntry(pid)
  <2>1. pos - 1 = Len(log)
    BY <1>0
  <2>2. pid < num_pages /\ Restored(pid, Len(log))
    BY <1>2, <2>1 DEF IInv, Replayed, HasEntry
  <2>3. PICK i \in 1..Len(log) : /\ log[i].pid = pid
                                 /\ \A j \in (i + 1)..Len(log) : log[j].pid # pid
                                 /\ file.pages[pid] = log[i].data
    BY <2>2 DEF Restored
  <2>4. Good(pid, log[i].data)
    BY <2>3 DEF IInv, LogIsGood
  <2>5. log[i] \in Entry
    BY <1>0, <2>3
  <2> QED
    BY <2>2, <2>3, <2>4, <2>5, PagesAssumption, BlanksAssumption DEF Blanks, Entry
<1> QED
  BY <1>1, <1>2

\* When the store is opened, every written page is good in the storage file, and what the
\* history becomes is what is there.
LEMMA OpenedMem ==
    ASSUME IInv, Opened, UNCHANGED storage, file.num_pages = num_pages,
           \A pid \in PageIds : mem[pid] # NoData =>
                /\ pid < num_pages /\ file.pages[pid] # NoData
                /\ Good(pid, file.pages[pid])
    PROVE  /\ MemOK' /\ doubt' = {}
           /\ \A pid \in PageIds : mem'[pid] = mem[pid] \/ <<pid, mem'[pid]>> \in doubt
           /\ \A pid \in PageIds : mem'[pid] # NoData =>
                    pid < num_pages /\ file.pages[pid] = mem'[pid]
           /\ \A pid \in PageIds : mem'[pid] # NoData =>
                    mem[pid] # NoData \/ file.pages[pid] \in Data
<1>1. \A pid \in PageIds :
         mem'[pid] = IF mem[pid] # NoData \/ <<pid, Contents(pid)>> \in doubt
                     THEN Contents(pid) ELSE NoData
  BY DEF Opened
<1>2. ASSUME NEW pid \in PageIds
      PROVE  /\ mem'[pid] \in Data \cup {NoData}
             /\ mem'[pid] = mem[pid] \/ <<pid, mem'[pid]>> \in doubt
             /\ mem'[pid] # NoData => pid < num_pages /\ file.pages[pid] = mem'[pid]
             /\ mem'[pid] # NoData => mem[pid] # NoData \/ file.pages[pid] \in Data
  <2>0. mem[pid] \in Data \cup {NoData} /\ doubt \subseteq PageIds \X Data
    BY DEF IInv, TypeOK, MemOK
  <2>1. CASE mem[pid] # NoData
    <3>1. Contents(pid) = file.pages[pid] /\ pid < num_pages
      BY <2>1 DEF Contents, Readable
    <3>2. mem'[pid] = file.pages[pid] /\ Good(pid, file.pages[pid])
      BY <1>1, <2>1, <3>1
    <3> QED
      BY <2>0, <2>1, <3>1, <3>2 DEF Good
  <2>2. CASE mem[pid] = NoData /\ <<pid, Contents(pid)>> \in doubt
    <3>1. mem'[pid] = Contents(pid) /\ Contents(pid) \in Data
      BY <1>1, <2>2, <2>0
    <3>2. Contents(pid) # NoData
      BY <3>1, PagesAssumption DEF Blanks
    <3>3. pid < num_pages /\ Contents(pid) = file.pages[pid]
      BY <3>2 DEF Contents, Readable
    <3> QED
      BY <2>2, <3>1, <3>3
  <2>3. CASE mem[pid] = NoData /\ <<pid, Contents(pid)>> \notin doubt
    BY <1>1, <2>3
  <2> QED
    BY <2>1, <2>2, <2>3
<1>3. mem' = [pid \in PageIds |-> mem'[pid]] /\ doubt' = {}
  BY DEF Opened
<1> QED
  BY <1>2, <1>3 DEF MemOK

\* Every step keeps the types, whatever the client does.
LEMMA TypeStep == TypeOK /\ [Next]_vars => TypeOK'
<1> SUFFICES ASSUME TypeOK, [Next]_vars PROVE TypeOK'
  OBVIOUS
<1>a. req \in Request => req \in Entry
  BY DEF Request, Entry
<1>b. ASSUME AppendedWhole \/ AppendedPart, pc = "append"
      PROVE  log' \in Seq(Entry) /\ hdr' \in {"none", "short", "full"} /\ tail' \in Tails
  <2>1. log \in Seq(Entry) /\ req \in Entry /\ Mixed \subseteq Entry
    BY <1>a, <1>b DEF TypeOK, Mixed, Entry
  <2>2. log' = log \/ \E e \in Entry : log' = Append(log, e)
    BY <1>b, <2>1 DEF AppendedWhole, AppendedPart
  <2>3. hdr' \in {"none", "short", "full"} /\ tail' \in Tails
    BY <1>b DEF AppendedWhole, AppendedPart, TypeOK, Tails
  <2> QED
    BY <2>1, <2>2, <2>3
<1>c. ASSUME Opened PROVE mem' \in [PageIds -> Pages] /\ doubt' = {}
  <2>1. \A pid \in PageIds : Contents(pid) \in Pages /\ NoData \in Pages
    BY DEF Contents, TypeOK, Pages, Blanks
  <2> QED
    BY <1>c, <2>1 DEF Opened
<1>d. ASSUME NEW pid \in PageIds, NEW d \in Pages
      PROVE  /\ Stored(pid, d) \in [num_pages : 0..(MaxPid + 1), pages : [PageIds -> Pages]]
             /\ PagesWith(pid, d) \in [PageIds -> Pages]
  BY <1>d, WriteAt DEF Stored, TypeOK
<1>e. ASSUME LogAfterCrash
      PROVE  /\ log' \in Seq(Entry) /\ hdr' \in {"none", "short", "full"} /\ tail' \in Tails
             /\ cleared' \in BOOLEAN
  BY <1>b, <1>e DEF LogAfterCrash, TypeOK
<1>1. CASE \/ wal_create \/ CrashInCreate \/ RecoverStart \/ ReplayFail \/ ReplayTorn
           \/ RecoverHeaderFail \/ StoreFail
  BY <1>1, BoundsAssumption
  DEF wal_create, CrashInCreate, RecoverStart, ReplayFail, ReplayTorn, RecoverHeaderFail,
      StoreFail, AfterFailure, btree_storage_open, storage, logfile, history, bounds, TypeOK
<1>2. CASE SkipRecover \/ RecoverHeader
  <2>1. mem' \in [PageIds -> Pages] /\ doubt' = {}
    BY <1>2, <1>c DEF SkipRecover, RecoverHeader
  <2> QED
    BY <1>2, <2>1 DEF SkipRecover, RecoverHeader, Opened, storage, logfile, bounds, TypeOK
<1>3. CASE ReplayExtend \/ ReplayExtendFail
  <2>1. LET pid == log[pos].pid
        IN  /\ pid + 1 \in 0..(MaxPid + 1)
            /\ Extended(pid).pages \in [PageIds -> Pages]
            /\ Extended(pid) \in [num_pages : 0..(MaxPid + 1), pages : [PageIds -> Pages]]
    BY <1>3, ExtendBy DEF ReplayExtend, ReplayExtendFail
  <2>2. [Extended(log[pos].pid) EXCEPT !.num_pages = file.num_pages]
            \in [num_pages : 0..(MaxPid + 1), pages : [PageIds -> Pages]]
    BY <2>1 DEF TypeOK
  <2> QED
    BY <1>3, <2>1, <2>2, BoundsAssumption
    DEF ReplayExtend, ReplayExtendFail, logfile, history, bounds, TypeOK
<1>4. CASE ReplayWrite
  <2>1. pos \in 1..Len(log) /\ log \in Seq(Entry) /\ Len(log) \in Nat
    BY <1>4 DEF ReplayWrite, TypeOK
  <2>2. log[pos] \in Entry
    BY <2>1
  <2>3. file' \in [num_pages : 0..(MaxPid + 1), pages : [PageIds -> Pages]]
    BY <1>4, <1>d, <2>2 DEF ReplayWrite, Entry, Pages, Blanks
  <2> QED
    BY <1>4, <2>1, <2>3 DEF ReplayWrite, logfile, history, bounds, TypeOK
<1>5. CASE ReplayEnd
  BY <1>5 DEF ReplayEnd, storage, history, bounds, TypeOK, Tails
<1>6. CASE wal_alloc \/ AllocFail
  <2>1. /\ num_pages \in PageIds /\ num_pages + 1 \in 0..(MaxPid + 1) /\ InitData \in Pages
        /\ num_pages \in 0..(MaxPid + 1)
    BY <1>6, PagesAssumption DEF wal_alloc, AllocFail, TypeOK, PageIds, Pages, Blanks
  <2>2. file' \in [num_pages : 0..(MaxPid + 1), pages : [PageIds -> Pages]]
        /\ num_pages' \in 0..(MaxPid + 1)
    <3>1. /\ PagesWith(num_pages, InitData) \in [PageIds -> Pages]
          /\ Stored(num_pages, InitData)
                \in [num_pages : 0..(MaxPid + 1), pages : [PageIds -> Pages]]
      BY <1>d, <2>1
    <3>2. CASE wal_alloc
      BY <2>1, <3>1, <3>2 DEF wal_alloc
    <3>3. CASE AllocFail
      BY <2>1, <3>1, <3>3 DEF AllocFail, storage, TypeOK
    <3> QED
      BY <1>6, <3>2, <3>3
  <2> QED
    BY <1>6, <2>2, BoundsAssumption
    DEF wal_alloc, AllocFail, logfile, history, bounds, TypeOK
<1>7. CASE LogAppend \/ AppendFail
  <2>1. log' \in Seq(Entry) /\ hdr' \in {"none", "short", "full"} /\ tail' \in Tails
    BY <1>7, <1>b DEF LogAppend, AppendFail, TypeOK
  <2> QED
    BY <1>7, <2>1, BoundsAssumption
    DEF LogAppend, AppendFail, AfterFailure, storage, history, bounds, TypeOK
<1>8. CASE StoreWrite
  <2>1. req.pid \in PageIds /\ req.data \in Pages
    BY <1>8 DEF StoreWrite, TypeOK, Request, Pages
  <2>2. /\ file' \in [num_pages : 0..(MaxPid + 1), pages : [PageIds -> Pages]]
        /\ mem' \in [PageIds -> Pages] /\ doubt' \subseteq PageIds \X Data
    BY <1>8, <1>d, <2>1 DEF StoreWrite, TypeOK
  <2> QED
    BY <1>8, <2>2 DEF StoreWrite, logfile, bounds, TypeOK
<1>9. CASE wal_destroy
  <2>1. file' \in [num_pages : 0..(MaxPid + 1), pages : [PageIds -> Pages]]
    BY <1>9 DEF wal_destroy, btree_storage_close, TypeOK
  <2> QED
    BY <1>9, <2>1, PagesAssumption DEF wal_destroy, Stopped, logfile, history, bounds, TypeOK
<1>10. CASE Crash \/ PowerLoss
  <2>1. file' \in [num_pages : 0..(MaxPid + 1), pages : [PageIds -> Pages]]
    <3>1. CASE Crash
      BY <3>1 DEF Crash, TypeOK
    <3>2. CASE PowerLoss
      <4>1. PICK n \in 0..file.num_pages,
                 old \in {f \in [PageIds -> Pages] : \A p \in PageIds : f[p] \in OldContents(p)} :
                    file' = [num_pages |-> n, pages |-> old]
        BY <3>2 DEF PowerLoss
      <4>2. n \in 0..(MaxPid + 1)
        BY <4>1, PagesAssumption DEF TypeOK
      <4> QED
        BY <4>1, <4>2
    <3> QED
      BY <1>10, <3>1, <3>2
  <2>2. /\ log' \in Seq(Entry) /\ hdr' \in {"none", "short", "full"} /\ tail' \in Tails
        /\ cleared' \in BOOLEAN
    BY <1>10, <1>e DEF Crash, PowerLoss
  <2> QED
    BY <1>10, <2>1, <2>2, PagesAssumption, BoundsAssumption
    DEF Crash, PowerLoss, Stopped, history, TypeOK
<1>11. ASSUME NEW pid \in PageIds, wal_read(pid) PROVE TypeOK'
  BY <1>11 DEF wal_read, storage, logfile, history, bounds, TypeOK
<1>12. ASSUME NEW pid \in PageIds, NEW d \in Data, wal_write(pid, d) PROVE TypeOK'
  BY <1>12 DEF wal_write, storage, logfile, bounds, TypeOK, Request
<1>13. CASE UNCHANGED vars
  BY <1>13 DEF vars, storage, logfile, history, bounds, TypeOK
<1> QED
  BY <1>1, <1>2, <1>3, <1>4, <1>5, <1>6, <1>7, <1>8, <1>9, <1>10, <1>11, <1>12, <1>13
  DEF Next, Recover, Write

\* Every step behind a whole header and a whole entry keeps the invariant.
LEMMA StepInv ==
    ASSUME ~LateLoss, IInv, InPlace, [Next]_vars
    PROVE  IInv'
<1>0. TypeOK'
  BY TypeStep DEF IInv
<1>t. TypeOK
  BY DEF IInv
<1>1. CASE wal_create
  <2>1. MemOK'
    BY <1>1 DEF wal_create, history, IInv, MemOK
  <2>2. ControlOK'
    BY <1>1 DEF wal_create, IInv, TypeOK, ControlOK, InUse, btree_storage_open
  <2>3. LogIsGood'
    BY <1>1 DEF wal_create, history, IInv, LogIsGood, Good
  <2>4. FileIsGood'
    BY <1>1 DEF wal_create, history, IInv, FileIsGood, HasEntry, EntryBelow, Good
  <2>5. LogIsComplete'
    BY <1>1 DEF wal_create, history, IInv, LogIsComplete, HasEntry, EntryBelow
  <2>6. Replayed'
    BY <1>1 DEF wal_create, Replayed
  <2>7. UseIsCurrent'
    BY <1>1 DEF wal_create, UseIsCurrent, InUse
  <2> QED
    BY <1>0, <2>1, <2>2, <2>3, <2>4, <2>5, <2>6, <2>7 DEF IInv
<1>2. CASE CrashInCreate
  <2>1. MemOK'
    BY <1>2 DEF CrashInCreate, history, IInv, MemOK
  <2>2. ControlOK'
    BY <1>2 DEF CrashInCreate, ControlOK, InUse
  <2>3. LogIsGood'
    BY <1>2 DEF CrashInCreate, history, IInv, LogIsGood, Good
  <2>4. FileIsGood'
    BY <1>2
    DEF CrashInCreate, storage, history, IInv, FileIsGood, HasEntry, EntryBelow, Good
  <2>5. LogIsComplete'
    BY <1>2 DEF CrashInCreate, storage, history, IInv, LogIsComplete, HasEntry, EntryBelow
  <2>6. Replayed'
    BY <1>2 DEF CrashInCreate, Replayed
  <2>7. UseIsCurrent'
    BY <1>2 DEF CrashInCreate, UseIsCurrent, InUse
  <2> QED
    BY <1>0, <2>1, <2>2, <2>3, <2>4, <2>5, <2>6, <2>7 DEF IInv
<1>3. CASE SkipRecover
  <2>a. /\ log = << >> /\ file.num_pages = num_pages /\ Opened
        /\ UNCHANGED <<storage, log, tail, cleared, req, pos, out, bounds>>
    BY <1>3 DEF SkipRecover, wal_num_entries, logfile, IInv, ControlOK
  <2>b. \A pid \in PageIds : ~HasEntry(pid)
    BY <2>a DEF HasEntry, EntryBelow
  <2>c. \A pid \in PageIds : mem[pid] # NoData =>
            pid < num_pages /\ file.pages[pid] # NoData /\ Good(pid, file.pages[pid])
    BY <2>a, <2>b DEF IInv, FileIsGood
  <2>d. /\ MemOK' /\ doubt' = {}
        /\ \A pid \in PageIds : mem'[pid] # NoData =>
                pid < num_pages /\ file.pages[pid] = mem'[pid]
        /\ \A pid \in PageIds : mem'[pid] # NoData =>
                mem[pid] # NoData \/ file.pages[pid] \in Data
    BY <2>a, <2>c, OpenedMem
  <2>1. MemOK'
    BY <2>d
  <2>2. ControlOK'
    BY <1>3 DEF SkipRecover, Opened, storage, logfile, IInv, ControlOK
  <2>3. LogIsGood'
    BY <2>a DEF LogIsGood
  <2>4. FileIsGood'
    BY <2>a, <2>d DEF FileIsGood, Good, storage
  <2>5. LogIsComplete'
    BY <2>a, <2>b, <2>d DEF LogIsComplete, storage, IInv
  <2>6. Replayed'
    BY <1>3 DEF SkipRecover, Opened, Replayed
  <2>7. UseIsCurrent'
    BY <2>a, <2>d DEF UseIsCurrent, storage
  <2> QED
    BY <1>0, <2>1, <2>2, <2>3, <2>4, <2>5, <2>6, <2>7 DEF IInv
<1>4. CASE RecoverStart
  <2>1. MemOK'
    BY <1>4 DEF RecoverStart, history, IInv, MemOK
  <2>2. ControlOK'
    BY <1>4 DEF RecoverStart, storage, IInv, ControlOK, InUse
  <2>3. LogIsGood'
    BY <1>4 DEF RecoverStart, logfile, history, IInv, LogIsGood, Good
  <2>4. FileIsGood'
    BY <1>4
    DEF RecoverStart, storage, logfile, history, IInv, FileIsGood, HasEntry, EntryBelow,
        Good
  <2>5. LogIsComplete'
    BY <1>4
    DEF RecoverStart, storage, logfile, history, IInv, LogIsComplete, HasEntry, EntryBelow
  <2>6. Replayed'
    BY <1>4 DEF RecoverStart, Replayed, EntryBelow
  <2>7. UseIsCurrent'
    BY <1>4 DEF RecoverStart, UseIsCurrent, InUse
  <2> QED
    BY <1>0, <2>1, <2>2, <2>3, <2>4, <2>5, <2>6, <2>7 DEF IInv
<1>5. CASE ReplayExtend
  <2>a. LET pid == log[pos].pid
        IN  /\ pid \in PageIds /\ pid + 1 \in 0..(MaxPid + 1) /\ num_pages < pid + 1
            /\ Extended(pid).num_pages = pid + 1
            /\ Extended(pid) \in [num_pages : 0..(MaxPid + 1), pages : [PageIds -> Pages]]
            /\ \A p \in PageIds : p < num_pages
                                     => Extended(pid).pages[p] = file.pages[p]
            /\ \A p \in PageIds : Extended(pid).pages[p] \in Data
                                     => file.pages[p] \in Data
    BY <1>5, <1>t, ExtendBy DEF ReplayExtend
  <2>b. /\ pc = "replay" /\ file' = Extended(log[pos].pid) /\ num_pages' = log[pos].pid + 1
        /\ file.num_pages = num_pages /\ num_pages \in Nat
        /\ UNCHANGED <<logfile, pc, req, pos, out, history, bounds>>
    BY <1>5 DEF ReplayExtend, Extending, IInv, ControlOK, TypeOK
  <2>1. MemOK'
    BY <1>5 DEF ReplayExtend, history, IInv, MemOK
  <2>2. ControlOK'
    BY <2>a, <2>b DEF logfile, history, IInv, ControlOK, InUse
  <2>3. LogIsGood'
    BY <1>5 DEF ReplayExtend, logfile, history, IInv, LogIsGood, Good
  <2>4. FileIsGood'
    <3>1. \A pid \in PageIds : HasEntry(pid) => HasEntry(pid)'
      BY <2>b DEF logfile, HasEntry, EntryBelow
    <3> QED
      BY <2>a, <2>b, <3>1, FileStep
  <2>5. LogIsComplete'
    BY <2>a, <2>b DEF logfile, history, IInv, LogIsComplete, HasEntry, EntryBelow
  <2>6. Replayed'
    <3> SUFFICES ASSUME NEW pid \in PageIds, EntryBelow(pid, pos - 1)
                 PROVE  pid < num_pages' /\ Restored(pid, pos - 1)'
      BY <2>b DEF Replayed, EntryBelow, logfile
    <3>1. pid < num_pages /\ Restored(pid, pos - 1)
      BY <2>b DEF IInv, Replayed
    <3>2. file'.pages[pid] = file.pages[pid] /\ pid < num_pages'
      BY <2>a, <2>b, <3>1 DEF PageIds
    <3> QED
      BY <2>b, <3>1, <3>2 DEF Restored, logfile
  <2>7. UseIsCurrent'
    BY <2>b DEF UseIsCurrent, InUse
  <2> QED
    BY <1>0, <2>1, <2>2, <2>3, <2>4, <2>5, <2>6, <2>7 DEF IInv
<1>6. CASE ReplayExtendFail
  <2>a. LET pid == log[pos].pid
        IN  /\ pid \in PageIds /\ pid + 1 \in 0..(MaxPid + 1) /\ num_pages < pid + 1
            /\ Extended(pid).num_pages = pid + 1
            /\ Extended(pid) \in [num_pages : 0..(MaxPid + 1), pages : [PageIds -> Pages]]
            /\ \A p \in PageIds : p < num_pages
                                     => Extended(pid).pages[p] = file.pages[p]
            /\ \A p \in PageIds : Extended(pid).pages[p] \in Data
                                     => file.pages[p] \in Data
    BY <1>6, <1>t, ExtendBy DEF ReplayExtendFail
  <2>b. /\ file' = [Extended(log[pos].pid) EXCEPT !.num_pages = file.num_pages]
        /\ pc' = "failed"  /\ num_pages' = log[pos].pid + 1
        /\ file.num_pages = num_pages /\ num_pages \in Nat
        /\ faults' \in 0..MaxFaults
        /\ UNCHANGED <<logfile, req, pos, out, history, crashes>>
    BY <1>6, BoundsAssumption DEF ReplayExtendFail, Extending, IInv, ControlOK, TypeOK
  <2>c. /\ file'.num_pages = file.num_pages /\ file'.pages = Extended(log[pos].pid).pages
        /\ file' \in [num_pages : 0..(MaxPid + 1), pages : [PageIds -> Pages]]
    BY <2>a, <2>b DEF IInv, TypeOK, Extended
  <2>1. MemOK'
    BY <1>6 DEF ReplayExtendFail, history, IInv, MemOK
  <2>2. ControlOK'
    BY <2>a, <2>b DEF ControlOK, InUse
  <2>3. LogIsGood'
    BY <1>6 DEF ReplayExtendFail, logfile, history, IInv, LogIsGood, Good
  <2>4. FileIsGood'
    <3>1. \A pid \in PageIds : HasEntry(pid) => HasEntry(pid)'
      BY <2>b DEF logfile, HasEntry, EntryBelow
    <3> QED
      BY <2>a, <2>b, <2>c, <3>1, FileStep
  <2>5. LogIsComplete'
    BY <2>a, <2>b DEF logfile, history, IInv, LogIsComplete, HasEntry, EntryBelow
  <2>6. Replayed'
    BY <2>b DEF Replayed
  <2>7. UseIsCurrent'
    BY <2>b DEF UseIsCurrent, InUse
  <2> QED
    BY <1>0, <2>1, <2>2, <2>3, <2>4, <2>5, <2>6, <2>7 DEF IInv
<1>7. CASE ReplayWrite
  <2>a. /\ pc = "replay" /\ pos \in 1..Len(log) /\ log \in Seq(Entry) /\ pos' = pos + 1
        /\ log[pos].pid < num_pages
        /\ file' = Stored(log[pos].pid, log[pos].data)
        /\ UNCHANGED <<num_pages, logfile, pc, req, out, history, bounds>>
    BY <1>7 DEF ReplayWrite, IInv, TypeOK
  <2>b. log[pos] \in Entry
    BY <2>a
  <2>c. log[pos].pid \in PageIds /\ log[pos].data \in Pages
    BY <2>b DEF Entry, Pages, Blanks
  <2>d. /\ file'.num_pages = file.num_pages
        /\ file'.pages = PagesWith(log[pos].pid, log[pos].data)
        /\ file' \in [num_pages : 0..(MaxPid + 1), pages : [PageIds -> Pages]]
    BY <2>a, <2>c, <1>t, WriteAt DEF Stored, IInv, TypeOK
  <2>e. /\ file'.pages[log[pos].pid] = log[pos].data
        /\ \A p \in PageIds : p # log[pos].pid /\ file.pages[p] # NoData
                                  => file'.pages[p] = file.pages[p]
        /\ \A p \in PageIds : p # log[pos].pid /\ file'.pages[p] \in Data
                                  => file.pages[p] \in Data
    BY <2>c, <2>d, <1>t, WriteAt
  <2>f. \A pid \in PageIds : HasEntry(pid) <=> HasEntry(pid)'
    BY <2>a DEF logfile, HasEntry, EntryBelow
  <2>g. HasEntry(log[pos].pid)
    BY <2>a DEF HasEntry, EntryBelow
  <2>1. MemOK'
    BY <1>7 DEF ReplayWrite, history, IInv, MemOK
  <2>2. ControlOK'
    BY <2>a, <2>d DEF logfile, history, IInv, ControlOK, InUse
  <2>3. LogIsGood'
    BY <1>7 DEF ReplayWrite, logfile, history, IInv, LogIsGood, Good
  <2>4. FileIsGood'
    <3>1. file.num_pages \in Nat /\ file'.num_pages \in Nat
      BY <2>d DEF IInv, TypeOK
    <3> QED
      BY <2>a, <2>d, <2>e, <2>f, <2>g, <3>1, FileStep
  <2>5. LogIsComplete'
    BY <2>a, <2>e, <2>f, <2>g DEF logfile, history, IInv, LogIsComplete
  <2>6. Replayed'
    <3> SUFFICES ASSUME NEW pid \in PageIds, \E i \in 1..pos : log[i].pid = pid
                 PROVE  /\ pid < num_pages
                        /\ \E i \in 1..pos : /\ log[i].pid = pid
                                             /\ \A j \in (i + 1)..pos : log[j].pid # pid
                                             /\ file'.pages[pid] = log[i].data
      BY <2>a DEF Replayed, EntryBelow, Restored, logfile
    <3>1. CASE log[pos].pid = pid
      BY <2>a, <2>e, <3>1
    <3>2. CASE log[pos].pid # pid
      <4>1. EntryBelow(pid, pos - 1)
        BY <2>a, <3>2 DEF EntryBelow
      <4>2. pid < num_pages /\ Restored(pid, pos - 1)
        BY <4>1, <2>a DEF IInv, Replayed
      <4>3. PICK i \in 1..(pos - 1) : /\ log[i].pid = pid
                                      /\ \A j \in (i + 1)..(pos - 1) : log[j].pid # pid
                                      /\ file.pages[pid] = log[i].data
        BY <4>2 DEF Restored
      <4>4. i \in 1..Len(log) /\ i \in 1..pos
        BY <2>a, <4>3
      <4>5. log[i] \in Entry
        BY <2>a, <4>4
      <4>6. file'.pages[pid] = log[i].data
        BY <2>e, <3>2, <4>3, <4>5, PagesAssumption, BlanksAssumption DEF Entry, Blanks
      <4>7. \A j \in (i + 1)..pos : log[j].pid # pid
        BY <2>a, <3>2, <4>3
      <4> QED
        BY <4>2, <4>3, <4>4, <4>6, <4>7
    <3> QED
      BY <3>1, <3>2
  <2>7. UseIsCurrent'
    BY <2>a DEF UseIsCurrent, InUse
  <2> QED
    BY <1>0, <2>1, <2>2, <2>3, <2>4, <2>5, <2>6, <2>7 DEF IInv
<1>8. CASE ReplayFail
  <2>1. MemOK'
    BY <1>8 DEF ReplayFail, history, IInv, MemOK
  <2>2. ControlOK'
    BY <1>8 DEF ReplayFail, storage, IInv, ControlOK, InUse
  <2>3. LogIsGood'
    BY <1>8 DEF ReplayFail, logfile, history, IInv, LogIsGood, Good
  <2>4. FileIsGood'
    BY <1>8
    DEF ReplayFail, storage, logfile, history, IInv, FileIsGood, HasEntry, EntryBelow, Good
  <2>5. LogIsComplete'
    BY <1>8
    DEF ReplayFail, storage, logfile, history, IInv, LogIsComplete, HasEntry, EntryBelow
  <2>6. Replayed'
    BY <1>8 DEF ReplayFail, Replayed
  <2>7. UseIsCurrent'
    BY <1>8 DEF ReplayFail, UseIsCurrent, InUse
  <2> QED
    BY <1>0, <2>1, <2>2, <2>3, <2>4, <2>5, <2>6, <2>7 DEF IInv
<1>9. CASE ReplayTorn
  <2>1. MemOK'
    BY <1>9 DEF ReplayTorn, history, IInv, MemOK
  <2>2. ControlOK'
    BY <1>9 DEF ReplayTorn, storage, logfile, IInv, ControlOK, InUse
  <2>3. LogIsGood'
    BY <1>9 DEF ReplayTorn, logfile, history, IInv, LogIsGood, Good
  <2>4. FileIsGood'
    BY <1>9
    DEF ReplayTorn, storage, logfile, history, IInv, FileIsGood, HasEntry, EntryBelow, Good
  <2>5. LogIsComplete'
    BY <1>9
    DEF ReplayTorn, storage, logfile, history, IInv, LogIsComplete, HasEntry, EntryBelow
  <2>6. Replayed'
    BY <1>9 DEF ReplayTorn, storage, logfile, IInv, Replayed, Restored, EntryBelow
  <2>7. UseIsCurrent'
    BY <1>9 DEF ReplayTorn, UseIsCurrent, InUse
  <2> QED
    BY <1>0, <2>1, <2>2, <2>3, <2>4, <2>5, <2>6, <2>7 DEF IInv
<1>10. CASE ReplayEnd
  <2>1. MemOK'
    BY <1>10 DEF ReplayEnd, history, IInv, MemOK
  <2>2. ControlOK'
    BY <1>10 DEF ReplayEnd, storage, IInv, ControlOK, InUse
  <2>3. LogIsGood'
    BY <1>10 DEF ReplayEnd, LogIsGood
  <2>4. FileIsGood'
    <3>1. pc = "replay" /\ pos = Len(log) + 1 /\ UNCHANGED <<storage, history>>
      BY <1>10 DEF ReplayEnd
    <3>2. file.num_pages = num_pages
      BY <3>1 DEF IInv, ControlOK
    <3> QED
      BY <3>1, <3>2, AllReplayed DEF FileIsGood, Good, storage, history
  <2>5. LogIsComplete'
    BY <1>10 DEF ReplayEnd, LogIsComplete
  <2>6. Replayed'
    BY <1>10 DEF ReplayEnd, Replayed
  <2>7. UseIsCurrent'
    BY <1>10 DEF ReplayEnd, UseIsCurrent, InUse
  <2> QED
    BY <1>0, <2>1, <2>2, <2>3, <2>4, <2>5, <2>6, <2>7 DEF IInv
<1>11. CASE RecoverHeader
  <2>a. /\ log = << >> /\ file.num_pages = num_pages /\ Opened
        /\ UNCHANGED <<storage, log, tail, cleared, req, pos, out, bounds>>
    BY <1>11 DEF RecoverHeader, IInv, ControlOK
  <2>b. \A pid \in PageIds : ~HasEntry(pid)
    BY <2>a DEF HasEntry, EntryBelow
  <2>c. \A pid \in PageIds : mem[pid] # NoData =>
            pid < num_pages /\ file.pages[pid] # NoData /\ Good(pid, file.pages[pid])
    BY <2>a, <2>b DEF IInv, FileIsGood
  <2>d. /\ MemOK' /\ doubt' = {}
        /\ \A pid \in PageIds : mem'[pid] # NoData =>
                pid < num_pages /\ file.pages[pid] = mem'[pid]
        /\ \A pid \in PageIds : mem'[pid] # NoData =>
                mem[pid] # NoData \/ file.pages[pid] \in Data
    BY <2>a, <2>c, OpenedMem
  <2>1. MemOK'
    BY <2>d
  <2>2. ControlOK'
    BY <1>11 DEF RecoverHeader, Opened, storage, IInv, ControlOK
  <2>3. LogIsGood'
    BY <2>a DEF LogIsGood
  <2>4. FileIsGood'
    BY <2>a, <2>d DEF FileIsGood, Good, storage
  <2>5. LogIsComplete'
    BY <2>a, <2>b, <2>d DEF LogIsComplete, storage, IInv
  <2>6. Replayed'
    BY <1>11 DEF RecoverHeader, Opened, Replayed
  <2>7. UseIsCurrent'
    BY <2>a, <2>d DEF UseIsCurrent, storage
  <2> QED
    BY <1>0, <2>1, <2>2, <2>3, <2>4, <2>5, <2>6, <2>7 DEF IInv
<1>12. CASE RecoverHeaderFail
  <2>1. MemOK'
    BY <1>12 DEF RecoverHeaderFail, history, IInv, MemOK
  <2>2. ControlOK'
    BY <1>12 DEF RecoverHeaderFail, storage, IInv, ControlOK, InUse
  <2>3. LogIsGood'
    BY <1>12 DEF RecoverHeaderFail, IInv, LogIsGood, ControlOK
  <2>4. FileIsGood'
    BY <1>12
    DEF RecoverHeaderFail, storage, history, IInv, FileIsGood, HasEntry, EntryBelow, Good
  <2>5. LogIsComplete'
    BY <1>12
    DEF RecoverHeaderFail, storage, history, IInv, LogIsComplete, HasEntry, EntryBelow
  <2>6. Replayed'
    BY <1>12 DEF RecoverHeaderFail, Replayed
  <2>7. UseIsCurrent'
    BY <1>12 DEF RecoverHeaderFail, UseIsCurrent, InUse
  <2> QED
    BY <1>0, <2>1, <2>2, <2>3, <2>4, <2>5, <2>6, <2>7 DEF IInv
<1>13. CASE wal_alloc
  <2>a. /\ pc = "ready" /\ num_pages \in PageIds /\ num_pages' = num_pages + 1
        /\ file' = [num_pages |-> num_pages + 1, pages |-> PagesWith(num_pages, InitData)]
        /\ file.num_pages \in Nat /\ file.num_pages <= num_pages
        /\ num_pages + 1 \in 0..(MaxPid + 1)
        /\ UNCHANGED <<logfile, pc, req, pos, out, history, bounds>>
    BY <1>13, PagesAssumption DEF wal_alloc, IInv, TypeOK, ControlOK, PageIds
  <2>b. InitData \in Pages /\ InitData \notin Data
    BY PagesAssumption DEF Pages, Blanks
  <2>c. /\ file'.pages \in [PageIds -> Pages] /\ file'.pages[num_pages] = InitData
        /\ \A p \in PageIds : p # num_pages /\ file.pages[p] # NoData
                                  => file'.pages[p] = file.pages[p]
        /\ \A p \in PageIds : p # num_pages /\ file'.pages[p] \in Data
                                  => file.pages[p] \in Data
    BY <2>a, <2>b, <1>t, WriteAt
  <2>d. \A pid \in PageIds : HasEntry(pid) <=> HasEntry(pid)'
    BY <2>a DEF logfile, HasEntry, EntryBelow
  <2>e. \A pid \in PageIds : mem[pid] # NoData =>
            /\ pid < num_pages /\ file.pages[pid] = mem[pid] /\ pid # num_pages
    BY <2>a DEF IInv, UseIsCurrent, InUse, PageIds
  <2>1. MemOK'
    BY <1>13 DEF wal_alloc, history, IInv, MemOK
  <2>2. ControlOK'
    BY <2>a DEF logfile, history, IInv, ControlOK, InUse
  <2>3. LogIsGood'
    BY <1>13 DEF wal_alloc, logfile, history, IInv, LogIsGood, Good
  <2>4. FileIsGood'
    <3>1. file'.num_pages \in Nat /\ file.num_pages <= file'.num_pages
      BY <2>a DEF PageIds
    <3> QED
      BY <2>a, <2>c, <2>d, <2>e, <3>1, FileStep
  <2>5. LogIsComplete'
    BY <2>a, <2>b, <2>c, <2>d DEF logfile, history, IInv, LogIsComplete
  <2>6. Replayed'
    BY <2>a DEF Replayed
  <2>7. UseIsCurrent'
    BY <2>a, <2>c, <2>e DEF UseIsCurrent, history, PageIds
  <2> QED
    BY <1>0, <2>1, <2>2, <2>3, <2>4, <2>5, <2>6, <2>7 DEF IInv
<1>14. CASE AllocFail
  <2>a. /\ pc = "ready" /\ num_pages \in PageIds /\ num_pages + 1 \in 0..(MaxPid + 1)
        /\ faults' \in 0..MaxFaults
        /\ UNCHANGED <<logfile, pc, req, pos, out, history, crashes>>
    BY <1>14, PagesAssumption, BoundsAssumption DEF AllocFail, IInv, TypeOK, PageIds
  <2>b. \A pid \in PageIds : HasEntry(pid) <=> HasEntry(pid)'
    BY <2>a DEF logfile, HasEntry, EntryBelow
  <2>c. \A pid \in PageIds : mem[pid] # NoData =>
            /\ pid < num_pages /\ file.pages[pid] = mem[pid] /\ pid # num_pages
    BY <2>a DEF IInv, UseIsCurrent, InUse, PageIds
  <2>d. file.num_pages \in Nat /\ file.num_pages <= num_pages
    BY <2>a DEF IInv, TypeOK, ControlOK
  <2>e. /\ file' \in [num_pages : 0..(MaxPid + 1), pages : [PageIds -> Pages]]
        /\ file'.num_pages = file.num_pages
        /\ num_pages' \in {num_pages, num_pages + 1}
        /\ \A p \in PageIds : p # num_pages /\ file.pages[p] # NoData
                                  => file'.pages[p] = file.pages[p]
        /\ \A p \in PageIds : file'.pages[p] \in Data => file.pages[p] \in Data
    <3>1. CASE UNCHANGED storage
      BY <3>1 DEF storage, IInv, TypeOK
    <3>2. CASE file' = Stored(num_pages, InitData) /\ num_pages' = num_pages + 1
      <4>1. InitData \in Pages /\ InitData \notin Data
        BY PagesAssumption DEF Pages, Blanks
      <4>2. /\ file'.num_pages = file.num_pages
            /\ file'.pages = PagesWith(num_pages, InitData)
        BY <3>2 DEF Stored, IInv, TypeOK
      <4>3. /\ file'.pages \in [PageIds -> Pages] /\ file'.pages[num_pages] = InitData
            /\ \A p \in PageIds : p # num_pages /\ file.pages[p] # NoData
                                      => file'.pages[p] = file.pages[p]
            /\ \A p \in PageIds : p # num_pages /\ file'.pages[p] \in Data
                                      => file.pages[p] \in Data
        BY <2>a, <4>1, <4>2, <1>t, WriteAt
      <4>4. file' \in [num_pages : 0..(MaxPid + 1), pages : [PageIds -> Pages]]
        BY <3>2, <4>2, <4>3 DEF Stored, IInv, TypeOK
      <4> QED
        BY <3>2, <4>1, <4>2, <4>3, <4>4
    <3> QED
      BY <1>14, <3>1, <3>2 DEF AllocFail
  <2>1. MemOK'
    BY <1>14 DEF AllocFail, history, IInv, MemOK
  <2>2. ControlOK'
    BY <2>a, <2>e DEF logfile, IInv, ControlOK, InUse, PageIds
  <2>3. LogIsGood'
    BY <2>a DEF logfile, history, IInv, LogIsGood, Good
  <2>4. FileIsGood'
    BY <2>a, <2>b, <2>c, <2>d, <2>e, FileStep
  <2>5. LogIsComplete'
    BY <2>a, <2>b, <2>e DEF logfile, history, IInv, LogIsComplete
  <2>6. Replayed'
    BY <2>a DEF Replayed
  <2>7. UseIsCurrent'
    <3> SUFFICES ASSUME NEW pid \in PageIds, mem[pid] # NoData
                 PROVE  pid < num_pages' /\ file'.pages[pid] = mem[pid]
      BY <2>a DEF UseIsCurrent, history
    <3>1. mem[pid] # NoData /\ pid \in Nat
      BY DEF PageIds
    <3> QED
      BY <2>a, <2>c, <2>e, <3>1 DEF PageIds
  <2> QED
    BY <1>0, <2>1, <2>2, <2>3, <2>4, <2>5, <2>6, <2>7 DEF IInv
<1>15. CASE LogAppend
  <2>a. /\ pc = "append" /\ log' = Append(log, req) /\ pc' = "store"
        /\ UNCHANGED <<storage, cleared, req, pos, out, history, bounds>>
    BY <1>15 DEF LogAppend, AppendedWhole, InPlace, Aligned
  <2>b. /\ log' \in Seq(Entry) /\ LogIsGood'
        /\ \A pid \in PageIds : HasEntry(pid) => HasEntry(pid)'
    BY <2>a, LogStep
  <2>1. MemOK'
    BY <1>15 DEF LogAppend, history, IInv, MemOK
  <2>2. ControlOK'
    BY <2>a DEF storage, history, IInv, TypeOK, ControlOK, InUse, Request, Entry
  <2>3. LogIsGood'
    BY <2>b
  <2>4. FileIsGood'
    <3>1. file'.num_pages \in Nat /\ file' = file
      BY <2>a DEF storage, IInv, TypeOK
    <3> QED
      BY <2>a, <2>b, <3>1, FileStep
  <2>5. LogIsComplete'
    BY <2>a, <2>b DEF storage, history, IInv, LogIsComplete
  <2>6. Replayed'
    BY <1>15 DEF LogAppend, Replayed
  <2>7. UseIsCurrent'
    BY <1>15 DEF LogAppend, storage, history, IInv, UseIsCurrent, InUse
  <2> QED
    BY <1>0, <2>1, <2>2, <2>3, <2>4, <2>5, <2>6, <2>7 DEF IInv
<1>16. CASE AppendFail
  <2>a. /\ pc = "append" /\ req' = NoReq /\ pc' \in {"ready", "failed"}
        /\ UNCHANGED <<storage, cleared, pos, out, history, crashes>>
    BY <1>16 DEF AppendFail, AfterFailure
  <2>b. log' = log \/ (pc = "append" /\ log' = Append(log, req))
    BY <1>16 DEF AppendFail, AppendedWhole, AppendedPart, InPlace, Aligned
  <2>c. /\ log' \in Seq(Entry) /\ LogIsGood'
        /\ \A pid \in PageIds : HasEntry(pid) => HasEntry(pid)'
    BY <2>a, <2>b, LogStep
  <2>1. MemOK'
    BY <1>16 DEF AppendFail, history, IInv, MemOK
  <2>2. ControlOK'
    BY <2>a DEF storage, IInv, ControlOK, InUse
  <2>3. LogIsGood'
    BY <2>c
  <2>4. FileIsGood'
    <3>1. file'.num_pages \in Nat /\ file' = file
      BY <2>a DEF storage, IInv, TypeOK
    <3> QED
      BY <2>a, <2>c, <3>1, FileStep
  <2>5. LogIsComplete'
    BY <2>a, <2>c DEF storage, history, IInv, LogIsComplete
  <2>6. Replayed'
    BY <2>a DEF Replayed
  <2>7. UseIsCurrent'
    BY <2>a DEF storage, history, IInv, UseIsCurrent, InUse
  <2> QED
    BY <1>0, <2>1, <2>2, <2>3, <2>4, <2>5, <2>6, <2>7 DEF IInv
<1>17. CASE StoreWrite
  <2>1. MemOK'
    BY <1>17 DEF StoreWrite, IInv, MemOK, ControlOK, Request
  <2>2. ControlOK'
    BY <1>17 DEF StoreWrite, Stored, logfile, IInv, ControlOK, InUse
  <2>3. LogIsGood'
    BY <1>17 DEF StoreWrite, logfile, IInv, LogIsGood, Good, TypeOK, ControlOK
  <2>4. FileIsGood'
    BY <1>17, PagesAssumption
    DEF StoreWrite, Stored, PagesWith, storage, logfile, history, bounds, IInv, FileIsGood,
        HasEntry, EntryBelow, Good, TypeOK, ControlOK, InUse, UseIsCurrent,
        btree_storage_open
  <2>5. LogIsComplete'
    BY <1>17, PagesAssumption
    DEF StoreWrite, Stored, PagesWith, logfile, IInv, LogIsComplete, HasEntry, EntryBelow,
        ControlOK, Blanks
  <2>6. Replayed'
    BY <1>17 DEF StoreWrite, Replayed
  <2>7. UseIsCurrent'
    BY <1>17 DEF StoreWrite, Stored, PagesWith, IInv, UseIsCurrent, InUse, TypeOK, ControlOK
  <2> QED
    BY <1>0, <2>1, <2>2, <2>3, <2>4, <2>5, <2>6, <2>7 DEF IInv
<1>18. CASE StoreFail
  <2>1. MemOK'
    BY <1>18 DEF StoreFail, AfterFailure, history, IInv, MemOK
  <2>2. ControlOK'
    BY <1>18 DEF StoreFail, AfterFailure, storage, logfile, IInv, ControlOK, InUse
  <2>3. LogIsGood'
    BY <1>18 DEF StoreFail, AfterFailure, logfile, history, IInv, LogIsGood, Good
  <2>4. FileIsGood'
    BY <1>18
    DEF StoreFail, AfterFailure, storage, logfile, history, IInv, FileIsGood, HasEntry, EntryBelow, Good
  <2>5. LogIsComplete'
    BY <1>18
    DEF StoreFail, AfterFailure, storage, logfile, history, IInv, LogIsComplete, HasEntry, EntryBelow
  <2>6. Replayed'
    BY <1>18 DEF StoreFail, AfterFailure, Replayed
  <2>7. UseIsCurrent'
    BY <1>18 DEF StoreFail, AfterFailure, storage, history, IInv, UseIsCurrent, InUse
  <2> QED
    BY <1>0, <2>1, <2>2, <2>3, <2>4, <2>5, <2>6, <2>7 DEF IInv
<1>19. CASE wal_destroy
  <2>a. /\ pc' = "down" /\ num_pages' = 0 /\ req' = NoReq /\ pos' = 0
        /\ pc # "down" /\ file' = [file EXCEPT !.num_pages = num_pages]
        /\ UNCHANGED <<logfile, history, bounds>>
    BY <1>19 DEF wal_destroy, btree_storage_close, Stopped
  <2>b. /\ file'.num_pages = num_pages /\ file'.pages = file.pages
        /\ file.num_pages <= num_pages /\ num_pages \in Nat
        /\ file' \in [num_pages : 0..(MaxPid + 1), pages : [PageIds -> Pages]]
    BY <2>a DEF IInv, TypeOK, ControlOK
  <2>c. \A pid \in PageIds : HasEntry(pid) <=> HasEntry(pid)'
    BY <2>a DEF logfile, HasEntry, EntryBelow
  <2>1. MemOK'
    BY <1>19 DEF wal_destroy, Stopped, history, IInv, MemOK
  <2>2. ControlOK'
    BY <2>a DEF ControlOK, InUse
  <2>3. LogIsGood'
    BY <1>19 DEF wal_destroy, Stopped, logfile, history, IInv, LogIsGood, Good
  <2>4. FileIsGood'
    BY <2>a, <2>b, <2>c, FileStep
  <2>5. LogIsComplete'
    BY <2>a, <2>b, <2>c DEF logfile, history, IInv, LogIsComplete
  <2>6. Replayed'
    BY <2>a DEF Replayed
  <2>7. UseIsCurrent'
    BY <2>a DEF UseIsCurrent, InUse
  <2> QED
    BY <1>0, <2>1, <2>2, <2>3, <2>4, <2>5, <2>6, <2>7 DEF IInv
<1>20. CASE Crash
  <2>a. /\ pc' = "down" /\ num_pages' = 0 /\ req' = NoReq /\ pos' = 0
        /\ UNCHANGED <<file, history, cleared, faults>>
    BY <1>20 DEF Crash, LogAfterCrash, Stopped
  <2>b. log' = log \/ (pc = "append" /\ log' = Append(log, req))
    BY <1>20 DEF Crash, LogAfterCrash, AppendedWhole, AppendedPart, InPlace, Aligned
  <2>c. /\ log' \in Seq(Entry) /\ LogIsGood'
        /\ \A pid \in PageIds : HasEntry(pid) => HasEntry(pid)'
    BY <2>a, <2>b, LogStep
  <2>1. MemOK'
    BY <2>a DEF history, IInv, MemOK
  <2>2. ControlOK'
    BY <2>a DEF ControlOK, InUse
  <2>3. LogIsGood'
    BY <2>c
  <2>4. FileIsGood'
    <3>1. file'.num_pages \in Nat
      BY <2>a DEF IInv, TypeOK
    <3> QED
      BY <2>a, <2>c, <3>1, FileStep
  <2>5. LogIsComplete'
    BY <2>a, <2>c DEF history, IInv, LogIsComplete
  <2>6. Replayed'
    BY <2>a DEF Replayed
  <2>7. UseIsCurrent'
    BY <2>a DEF UseIsCurrent, InUse
  <2> QED
    BY <1>0, <2>1, <2>2, <2>3, <2>4, <2>5, <2>6, <2>7 DEF IInv
<1>21. CASE PowerLoss
  <2>a. /\ pc' = "down" /\ num_pages' = 0 /\ req' = NoReq /\ pos' = 0
        /\ UNCHANGED <<history, cleared, faults>>
    BY <1>21 DEF PowerLoss, LogAfterCrash, Stopped
  <2>b. log' = log \/ (pc = "append" /\ log' = Append(log, req))
    BY <1>21 DEF PowerLoss, LogAfterCrash, AppendedWhole, AppendedPart, InPlace, Aligned
  <2>c. /\ log' \in Seq(Entry) /\ LogIsGood'
        /\ \A pid \in PageIds : HasEntry(pid) => HasEntry(pid)'
    BY <2>a, <2>b, LogStep
  <2>d. PICK n \in 0..file.num_pages,
             old \in {f \in [PageIds -> Pages] : \A p \in PageIds : f[p] \in OldContents(p)} :
                file' = [num_pages |-> n, pages |-> old]
    BY <1>21 DEF PowerLoss
  <2>f. ~cleared /\ \A pid \in PageIds : mem[pid] # NoData => HasEntry(pid)
    BY <1>21 DEF PowerLoss, IInv, LogIsComplete
  <2>1. MemOK'
    BY <2>a DEF history, IInv, MemOK
  <2>2. ControlOK'
    BY <2>a DEF ControlOK, InUse
  <2>3. LogIsGood'
    BY <2>c
  <2>4. FileIsGood'
    BY <2>a, <2>c, <2>f DEF FileIsGood, history
  <2>5. LogIsComplete'
    <3> SUFFICES ASSUME NEW pid \in PageIds, file'.pages[pid] \in Data PROVE HasEntry(pid)
      BY <2>a, <2>c, <2>f DEF LogIsComplete, history
    <3>1. file'.pages[pid] \in OldContents(pid) /\ file'.pages[pid] \notin Blanks
      BY <2>d, PagesAssumption
    <3>2. CASE file'.pages[pid] = file.pages[pid]
      BY <2>f, <3>2 DEF IInv, LogIsComplete
    <3>3. CASE file'.pages[pid] \in {e.data : e \in {f \in Range(log) : f.pid = pid}}
      <4>1. \E f \in Range(log) : f.pid = pid
        BY <3>3
      <4>2. log \in Seq(Entry)
        BY DEF IInv, TypeOK
      <4> QED
        BY <4>1, <4>2 DEF Range, HasEntry, EntryBelow
    <3> QED
      BY <3>1, <3>2, <3>3 DEF OldContents
  <2>6. Replayed'
    BY <2>a DEF Replayed
  <2>7. UseIsCurrent'
    BY <2>a DEF UseIsCurrent, InUse
  <2> QED
    BY <1>0, <2>1, <2>2, <2>3, <2>4, <2>5, <2>6, <2>7 DEF IInv
<1>22. ASSUME NEW pid \in PageIds, wal_read(pid) PROVE IInv'
  <2>1. MemOK'
    BY <1>22 DEF wal_read, history, IInv, MemOK
  <2>2. ControlOK'
    BY <1>22 DEF wal_read, storage, logfile, IInv, ControlOK, InUse
  <2>3. LogIsGood'
    BY <1>22 DEF wal_read, logfile, history, IInv, LogIsGood, Good
  <2>4. FileIsGood'
    BY <1>22
    DEF wal_read, storage, logfile, history, IInv, FileIsGood, HasEntry, EntryBelow, Good
  <2>5. LogIsComplete'
    BY <1>22
    DEF wal_read, storage, logfile, history, IInv, LogIsComplete, HasEntry, EntryBelow
  <2>6. Replayed'
    BY <1>22 DEF wal_read, Replayed
  <2>7. UseIsCurrent'
    BY <1>22 DEF wal_read, storage, history, IInv, UseIsCurrent, InUse
  <2> QED
    BY <1>0, <2>1, <2>2, <2>3, <2>4, <2>5, <2>6, <2>7 DEF IInv
<1>23. ASSUME NEW pid \in PageIds, NEW d \in Data, wal_write(pid, d) PROVE IInv'
  <2>1. MemOK'
    BY <1>23 DEF wal_write, history, IInv, MemOK
  <2>2. ControlOK'
    BY <1>23 DEF wal_write, storage, logfile, IInv, ControlOK, InUse, Request
  <2>3. LogIsGood'
    BY <1>23 DEF wal_write, logfile, IInv, LogIsGood, Good
  <2>4. FileIsGood'
    BY <1>23 DEF wal_write, storage, logfile, IInv, FileIsGood, HasEntry, EntryBelow, Good
  <2>5. LogIsComplete'
    BY <1>23 DEF wal_write, storage, logfile, IInv, LogIsComplete, HasEntry, EntryBelow
  <2>6. Replayed'
    BY <1>23 DEF wal_write, Replayed
  <2>7. UseIsCurrent'
    BY <1>23 DEF wal_write, storage, IInv, UseIsCurrent, InUse
  <2> QED
    BY <1>0, <2>1, <2>2, <2>3, <2>4, <2>5, <2>6, <2>7 DEF IInv
<1>24. CASE UNCHANGED vars
  <2>1. MemOK'
    BY <1>24 DEF vars, history, IInv, MemOK
  <2>2. ControlOK'
    BY <1>24 DEF vars, storage, logfile, history, IInv, ControlOK, InUse
  <2>3. LogIsGood'
    BY <1>24 DEF vars, logfile, history, IInv, LogIsGood, Good
  <2>4. FileIsGood'
    BY <1>24
    DEF vars, storage, logfile, history, IInv, FileIsGood, HasEntry, EntryBelow, Good
  <2>5. LogIsComplete'
    BY <1>24 DEF vars, storage, logfile, history, IInv, LogIsComplete, HasEntry, EntryBelow
  <2>6. Replayed'
    BY <1>24 DEF vars, storage, logfile, IInv, Replayed, Restored, EntryBelow
  <2>7. UseIsCurrent'
    BY <1>24 DEF vars, storage, history, IInv, UseIsCurrent, InUse
  <2> QED
    BY <1>0, <2>1, <2>2, <2>3, <2>4, <2>5, <2>6, <2>7 DEF IInv
<1> QED
  BY <1>1, <1>2, <1>3, <1>4, <1>5, <1>6, <1>7, <1>8, <1>9, <1>10, <1>11, <1>12, <1>13,
     <1>14, <1>15, <1>16, <1>17, <1>18, <1>19, <1>20, <1>21, <1>22, <1>23, <1>24
  DEF Next, Recover, Write

\* A new storage file and no log.
LEMMA InitInv == Init => IInv
<1> SUFFICES ASSUME Init PROVE IInv
  OBVIOUS
<1>1. TypeOK
  <2>1. file \in [num_pages : 0..(MaxPid + 1), pages : [PageIds -> Pages]]
    BY PagesAssumption DEF Init, btree_storage_create, Pages, Blanks
  <2>2. mem \in [PageIds -> Pages] /\ num_pages \in 0..(MaxPid + 1)
    BY PagesAssumption DEF Init, Pages, Blanks
  <2>3. /\ crashes \in 0..MaxCrash /\ faults \in 0..MaxFaults
        /\ req \in Request \cup {NoReq} /\ doubt \subseteq PageIds \X Data
        /\ pos \in Nat /\ log \in Seq(Entry)
    BY BoundsAssumption DEF Init
  <2> QED
    BY <2>1, <2>2, <2>3 DEF Init, TypeOK, Tails, Pages, Blanks
<1>m. MemOK
  BY DEF Init, MemOK
<1>2. ControlOK
  BY DEF Init, ControlOK, InUse
<1>3. LogIsGood /\ FileIsGood /\ Replayed /\ UseIsCurrent
  BY DEF Init, LogIsGood, FileIsGood, Replayed, UseIsCurrent
<1>4. LogIsComplete
  BY PagesAssumption DEF Init, LogIsComplete, btree_storage_create, Blanks
<1> QED
  BY <1>1, <1>m, <1>2, <1>3, <1>4 DEF IInv

\* The types hold in every state.
LEMMA AlwaysTyped == Spec => []TypeOK
<1>1. Init => TypeOK
  BY InitInv DEF IInv
<1> QED
  BY <1>1, TypeStep, PTL DEF Spec

\* The invariant holds in every state, as long as the log is aligned.
LEMMA AlwaysInv ==
    ASSUME ~LateLoss
    PROVE  Spec /\ []InPlace => []IInv
<1>1. IInv /\ InPlace /\ [Next]_vars => IInv'
  BY StepInv
<1> QED
  BY InitInv, <1>1, PTL DEF Spec

-----------------------------------------------------------------------------
(***************************************************************************)
(* The log is aligned whenever a Careful client uses the store.            *)
(***************************************************************************)
AlignInv ==
    /\ hdr # "full" \/ pc \in {"new", "truncated"} => log = << >> /\ tail = "none"
    /\ pc = "new" \/ InUse => hdr = "full"
    /\ InUse => tail = "none"

\* Every step of a Careful client keeps the log aligned.
LEMMA StepAligned ==
    ASSUME Careful
    PROVE  AlignInv /\ [Next]_vars => AlignInv'
<1> SUFFICES ASSUME AlignInv, [Next]_vars PROVE AlignInv'
  OBVIOUS
<1>1. CASE wal_create \/ CrashInCreate
  BY <1>1 DEF wal_create, CrashInCreate, AlignInv, InUse
<1>2. CASE SkipRecover
  BY <1>2 DEF SkipRecover, Opened, Careful, logfile, AlignInv, InUse
<1>3. CASE \/ RecoverStart \/ ReplayExtend \/ ReplayExtendFail \/ ReplayWrite \/ ReplayFail
           \/ ReplayTorn \/ wal_alloc \/ AllocFail \/ UNCHANGED vars
           \/ (\E pid \in PageIds : wal_read(pid))
           \/ (\E pid \in PageIds, d \in Data : wal_write(pid, d))
  BY <1>3
  DEF RecoverStart, ReplayExtend, ReplayExtendFail, Extending, ReplayWrite, ReplayFail,
      ReplayTorn, wal_alloc, AllocFail, vars, wal_read, wal_write, logfile, AlignInv, InUse
<1>4. CASE ReplayEnd \/ RecoverHeader \/ RecoverHeaderFail
  BY <1>4 DEF ReplayEnd, RecoverHeader, RecoverHeaderFail, Opened, AlignInv, InUse
<1>5. CASE LogAppend \/ AppendFail
  BY <1>5
  DEF LogAppend, AppendFail, AfterFailure, AppendedWhole, AppendedPart, Aligned, Careful,
      AlignInv, InUse
<1>6. CASE StoreWrite \/ StoreFail \/ wal_destroy
  BY <1>6
  DEF StoreWrite, StoreFail, wal_destroy, Stopped, AfterFailure, Careful, logfile, AlignInv,
      InUse
<1>7. CASE Crash \/ PowerLoss
  BY <1>7
  DEF Crash, PowerLoss, LogAfterCrash, AppendedWhole, AppendedPart, Aligned, Stopped,
      AlignInv, InUse
<1> QED
  BY <1>1, <1>2, <1>3, <1>4, <1>5, <1>6, <1>7 DEF Next, Recover, Write

-----------------------------------------------------------------------------
(***************************************************************************)
(* The theorems.                                                           *)
(***************************************************************************)

\* The state of log, storage file and recovery is well-typed, whatever the client does;
\* wal_recover never reads behind the entries of the log.
THEOREM WalTypeOK == Spec => []TypeOK
<1> QED
  BY AlwaysTyped, PTL

\* A Careful client only ever appends behind a whole header and a whole entry, whatever
\* crashes and power losses cut off.
THEOREM LogStaysAligned == Spec => []AppendsAligned
<1>1. CASE ~Careful
  <2>1. AppendsAligned
    BY <1>1 DEF AppendsAligned
  <2> QED
    BY <2>1, PTL
<1>2. CASE Careful
  <2>1. Init => AlignInv
    BY DEF Init, AlignInv, InUse
  <2>2. AlignInv => AppendsAligned
    BY DEF AlignInv, AppendsAligned, Aligned, InUse
  <2>3. AlignInv /\ [Next]_vars => AlignInv'
    BY <1>2, StepAligned
  <2> QED
    BY <2>1, <2>2, <2>3, PTL DEF Spec
<1> QED
  BY <1>1, <1>2

\* The same without the condition: for a Careful client every append is in place.
LEMMA CarefulInPlace ==
    ASSUME Careful
    PROVE  Spec => []InPlace
<1>1. AppendsAligned => InPlace
  BY DEF AppendsAligned, InPlace
<1> QED
  BY <1>1, LogStaysAligned, PTL

\* For a Careful client, and if no power is lost once the log has been cleared, a torn last
\* entry costs nothing that was written successfully, although wal_recover answers
\* BTREE_CORRUPTED.
THEOREM TornLogLosesNothing == Spec => []CorruptStillRestored
<1>1. CASE ~(Careful /\ ~LateLoss)
  <2>1. CorruptStillRestored
    BY <1>1 DEF CorruptStillRestored
  <2> QED
    BY <2>1, PTL
<1>2. CASE Careful /\ ~LateLoss
  <2>1. IInv => CorruptStillRestored
    <3> SUFFICES ASSUME IInv, pc = "corrupt", NEW pid \in PageIds, mem[pid] # NoData
                 PROVE  Contents(pid) = mem[pid] \/ <<pid, Contents(pid)>> \in doubt
      BY DEF CorruptStillRestored
    <3>1. pos = Len(log) + 1
      BY DEF IInv, ControlOK
    <3>2. pid < num_pages /\ file.pages[pid] # NoData /\ Good(pid, file.pages[pid])
      BY <3>1, AllReplayed
    <3> QED
      BY <3>2 DEF Contents, Readable, Good
  <2>2. Spec /\ []InPlace => []IInv
    BY <1>2, AlwaysInv
  <2>3. Spec => []InPlace
    BY <1>2, CarefulInPlace
  <2> QED
    BY <2>1, <2>2, <2>3, PTL
<1> QED
  BY <1>1, <1>2

\* Opening the store settles the writes in doubt.
LEMMA OpenedIsRestart ==
    ASSUME IInv, log = << >>, file.num_pages = num_pages, Opened,
           UNCHANGED <<storage, out>>
    PROVE  Durable!Restart
<1>1. \A pid \in PageIds : ~HasEntry(pid)
  BY DEF HasEntry, EntryBelow
<1>2. \A pid \in PageIds : mem[pid] # NoData =>
          pid < num_pages /\ file.pages[pid] # NoData /\ Good(pid, file.pages[pid])
  BY <1>1 DEF IInv, FileIsGood
<1>3. /\ mem' \in [PageIds -> Data \cup {NoData}] /\ doubt' = {}
      /\ \A pid \in PageIds : mem'[pid] = mem[pid] \/ <<pid, mem'[pid]>> \in doubt
  BY <1>2, OpenedMem DEF MemOK
<1> QED
  BY <1>3 DEF Durable!Restart

\* Every step of log and storage is a step of DurableStore or leaves it as it is.
LEMMA StepDurable == IInv /\ [Next]_vars => [Durable!Next]_(Durable!vars)
<1> SUFFICES ASSUME IInv, [Next]_vars PROVE [Durable!Next]_(Durable!vars)
  OBVIOUS
<1>1. CASE \/ wal_create \/ CrashInCreate \/ RecoverStart \/ ReplayExtend
           \/ ReplayExtendFail \/ ReplayWrite \/ ReplayFail \/ ReplayTorn \/ ReplayEnd
           \/ RecoverHeaderFail \/ wal_alloc \/ AllocFail \/ LogAppend \/ AppendFail
           \/ StoreFail \/ UNCHANGED vars
  <2>1. UNCHANGED <<mem, doubt, out>>
    BY <1>1
    DEF wal_create, CrashInCreate, RecoverStart, ReplayExtend, ReplayExtendFail,
        ReplayWrite, ReplayFail, ReplayTorn, ReplayEnd, RecoverHeaderFail, wal_alloc,
        AllocFail, LogAppend, AppendFail, StoreFail, vars, history
  <2> QED
    BY <2>1 DEF Durable!vars
<1>2. CASE SkipRecover \/ RecoverHeader
  <2>1. /\ log = << >> /\ file.num_pages = num_pages /\ Opened
        /\ UNCHANGED <<storage, out>>
    BY <1>2 DEF SkipRecover, RecoverHeader, wal_num_entries, IInv, TypeOK, ControlOK
  <2> QED
    BY <2>1, OpenedIsRestart DEF Durable!Next
<1>3. ASSUME NEW pid \in PageIds, wal_read(pid) PROVE Durable!Read(pid)
  <2>1. /\ out' = [pid |-> pid, data |-> Contents(pid),
                   status |-> IF Readable(pid) THEN "BTREE_OK" ELSE "BTREE_IO_ERROR"]
        /\ UNCHANGED <<mem, doubt>> /\ pc = "ready"
    BY <1>3 DEF wal_read, history
  <2>2. Contents(pid) \in Data \cup Blanks
    BY DEF Contents, IInv, TypeOK, Pages, Blanks
  <2>3. out' \in [pid : {pid}, status : {"BTREE_OK", "BTREE_IO_ERROR"},
                  data : Data \cup Blanks]
    BY <2>1, <2>2
  <2>4. ASSUME mem[pid] # NoData PROVE out'.status = "BTREE_OK" /\ out'.data = mem[pid]
    <3>1. pid < num_pages /\ file.pages[pid] = mem[pid]
      BY <2>1, <2>4 DEF IInv, UseIsCurrent, InUse
    <3> QED
      BY <2>1, <2>4, <3>1 DEF Readable, Contents
  <2> QED
    BY <2>1, <2>3, <2>4 DEF Durable!Read
<1>4. ASSUME NEW pid \in PageIds, NEW d \in Data, wal_write(pid, d) PROVE Durable!Begin(pid, d)
  BY <1>4 DEF wal_write, Durable!Begin
<1>5. CASE StoreWrite
  <2>1. req \in Request /\ <<req.pid, req.data>> \in doubt
    BY <1>5 DEF StoreWrite, IInv, ControlOK
  <2>2. req.pid \in PageIds /\ req.data \in Data
    BY <2>1 DEF Request
  <2>3. Durable!Done(req.pid, req.data)
    BY <1>5, <2>1 DEF StoreWrite, Durable!Done
  <2> QED
    BY <2>2, <2>3 DEF Durable!Next
<1>6. CASE wal_destroy \/ Crash \/ PowerLoss
  <2>1. Durable!Stop
    BY <1>6 DEF wal_destroy, Crash, PowerLoss, Stopped, history, Durable!Stop
  <2> QED
    BY <2>1 DEF Durable!Next
<1> QED
  BY <1>1, <1>2, <1>3, <1>4, <1>5, <1>6 DEF Next, Recover, Write, Durable!Next

\* As long as appends are in place, and no power is lost once the log has been cleared,
\* wal.c over storage.c keeps what was written through any number of crashes, also during
\* recovery, whatever writes fail.
THEOREM AlignedIsDurable ==
    ASSUME ~LateLoss
    PROVE  Spec /\ []InPlace => ImplementsDurable
<1>1. Init => Durable!Init
  BY DEF Init, Durable!Init
<1> QED
  BY <1>1, StepDurable, AlwaysInv, PTL DEF Spec, ImplementsDurable, Durable!Spec

\* So a Careful client loses nothing, if no power is lost once the log has been cleared.
THEOREM WalIsDurable ==
    ASSUME Careful, ~LateLoss
    PROVE  Spec => ImplementsDurable
<1> QED
  BY CarefulInPlace, AlignedIsDurable, PTL
=============================================================================
