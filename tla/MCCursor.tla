------------------------------ MODULE MCCursor ------------------------------
(***************************************************************************)
(* Instances of Cursor for TLC.                                            *)
(***************************************************************************)
EXTENDS Cursor, MCBTree
=============================================================================
