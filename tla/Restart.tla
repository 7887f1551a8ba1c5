------------------------------ MODULE Restart ------------------------------
(***************************************************************************)
(* The tree in a program that ends and starts again: leaderboard.c keeps   *)
(* the id of the root in the header of the storage file.  It stores it     *)
(* after every put and delete that returned BTREE_OK (SaveRoot) and when   *)
(* it closes the file; after a restart btree_open begins with what the     *)
(* header says.                                                            *)
(*                                                                         *)
(* A page that was written is there after a restart, torn by no crash:     *)
(* this is what the write-ahead log adds to the storage file (module Wal). *)
(* Neither layer knows which pages and which root belong to one call.      *)
(***************************************************************************)
EXTENDS BTreeProps

CONSTANT KillInCall     \* may the process be killed in the middle of a call?
ASSUME KillAssumption == KillInCall \in BOOLEAN

VARIABLES
    proc,           \* the process: "up", "save" (a call returned, the root is not saved), "down"
    saved_root      \* root_id in the header of the storage file

restartVars == <<vars, proc, saved_root>>

RestartInit ==
    /\ Init
    /\ proc = "up" /\ saved_root = root_id

\* lb_upsert and lb_delete store the root id only when the call succeeded.
CallStep ==
    /\ proc = "up" /\ Step
    /\ proc' = IF pc = "return" /\ call.op # "get" /\ ret.status = "BTREE_OK"
               THEN "save" ELSE "up"
    /\ UNCHANGED saved_root

StartCall ==
    /\ proc = "up"
    /\ \E c \in Ops : Invoke(c)
    /\ UNCHANGED <<proc, saved_root>>

\* Mutant of SaveRoot: the call is left out.
SaveRoot_Forgotten ==
    /\ proc = "save"
    /\ proc' = "up"
    /\ UNCHANGED <<vars, saved_root>>

\* btree_storage_set_root_id(lb->store, btree_root_id(lb->tree))
SaveRoot ==
    /\ proc = "save"
    /\ saved_root' = root_id
    /\ proc' = "up"
    /\ UNCHANGED vars

lb_destroy ==
    /\ proc = "up" /\ Idle
    /\ saved_root' = root_id
    /\ proc' = "down"
    /\ UNCHANGED vars

\* The process is killed.  call remembers the call that was cut off.  After undefined
\* behaviour nothing is known of the program or its file, so there is no step from there.
Kill ==
    /\ pc # "undefined"
    /\ IF KillInCall THEN proc # "down" ELSE proc = "up" /\ Idle
    /\ proc' = "down"
    /\ pc' = "idle"
    /\ ResetLocals
    /\ UNCHANGED <<store, call, ret, view, faults, saved_root>>

\* lb_create on an existing file: btree_storage_open, btree_storage_get_root_id, btree_open.
btree_open ==
    /\ proc = "down"
    /\ root_id' = saved_root
    /\ proc' = "up"
    /\ call' = NoCall /\ ret' = NoRet
    /\ UNCHANGED <<pages, num_pages, pc, locals, faults, saved_root>>
    /\ view' = [k \in Keys |-> Lookup(k)']

RestartNext == CallStep \/ StartCall \/ SaveRoot \/ lb_destroy \/ Kill \/ btree_open

RestartSpec == RestartInit /\ [][RestartNext]_restartVars

\* A call that is being served keeps running.
RestartFairSpec == RestartSpec /\ WF_restartVars(CallStep)

-----------------------------------------------------------------------------
(***************************************************************************)
(* Properties.                                                             *)
(***************************************************************************)

\* README: data is there after closing and opening again.  It also is when the process is
\* killed between two calls, and after a delete that failed when it had already replaced
\* the root in memory.
ReopenKeepsMap == [][btree_open => view' = view]_restartVars

\* README: with the write-ahead log, data can be recovered after a crash, and the system
\* opens in a consistent state.  So a crash in the middle of a call costs at most the
\* effect of that call: every other key keeps its value.
CrashKeepsOthers ==
    [][btree_open =>
        \A k \in Keys : view'[k] = view[k] \/ (call # NoCall /\ k = call.key)]_restartVars
=============================================================================
