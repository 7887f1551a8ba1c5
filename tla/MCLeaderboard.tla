--------------------------- MODULE MCLeaderboard ---------------------------
(***************************************************************************)
(* Instances of Leaderboard: names of which one is the beginning of        *)
(* another, two seeds, and numbers on both sides of every limit.           *)
(***************************************************************************)
EXTENDS Leaderboard

MCNames == {<<1>>, <<1, 1>>, <<1, 2>>, <<2>>}
MCLong == {<<1, 2>>}
MCNone == {}
MCSeeds == (<<1>> :> 2) @@ (<<2>> :> 1)
MCInputs == {-1, 1, 2, 300}
MCGarbage == {[name |-> <<>>, wealth |-> 0], [name |-> <<1>>, wealth |-> 300]}
=============================================================================
