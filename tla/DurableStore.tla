---------------------------- MODULE DurableStore ----------------------------
(***************************************************************************)
(* What the write-ahead log promises to the layers above it (wal.h, README *)
(* "WAL"): a page that was written successfully keeps its contents through *)
(* crashes and restarts.  A write that failed, or was cut off by a crash,  *)
(* may or may not take effect at a later restart.  Nothing is promised for *)
(* a page that was allocated and never written.                            *)
(***************************************************************************)
CONSTANTS
    PageIds,    \* the page ids the client uses
    Data,       \* the contents of a page
    NoData,     \* a page that was never written
    Blanks      \* what else a read of such a page may return

VARIABLES
    mem,        \* page id -> contents written last, or NoData
    doubt,      \* writes <<pid, data>> that began and did not succeed (yet)
    out         \* the answer to the last read: [pid, status, data]

vars == <<mem, doubt, out>>

NoAnswer == [pid |-> 0, status |-> "none", data |-> NoData]

Init ==
    /\ mem = [pid \in PageIds |-> NoData]
    /\ doubt = {}
    /\ out = NoAnswer

Begin(pid, d) ==
    /\ doubt' = doubt \cup {<<pid, d>>}
    /\ UNCHANGED <<mem, out>>

\* A later write of the page settles every earlier one.
Done(pid, d) ==
    /\ <<pid, d>> \in doubt
    /\ mem' = [mem EXCEPT ![pid] = d]
    /\ doubt' = {w \in doubt : w[1] # pid}
    /\ UNCHANGED out

\* A written page is always readable.
Read(pid) ==
    /\ out' \in [pid : {pid}, status : {"BTREE_OK", "BTREE_IO_ERROR"}, data : Data \cup Blanks]
    /\ mem[pid] # NoData => out'.status = "BTREE_OK" /\ out'.data = mem[pid]
    /\ UNCHANGED <<mem, doubt>>

\* The process ends, in a crash or not.
Stop ==
    /\ out' = NoAnswer
    /\ UNCHANGED <<mem, doubt>>

\* After a restart the writes in doubt have happened or not.
Restart ==
    /\ mem' \in [PageIds -> Data \cup {NoData}]
    /\ \A pid \in PageIds : mem'[pid] = mem[pid] \/ <<pid, mem'[pid]>> \in doubt
    /\ doubt' = {}
    /\ UNCHANGED out

Next ==
    \/ \E pid \in PageIds, d \in Data : Begin(pid, d) \/ Done(pid, d)
    \/ \E pid \in PageIds : Read(pid)
    \/ Stop \/ Restart

Spec == Init /\ [][Next]_vars
=============================================================================
