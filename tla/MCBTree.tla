------------------------------ MODULE MCBTree ------------------------------
(***************************************************************************)
(* Instances of BTree for TLC.  Page and header sizes are those of the     *)
(* code; the lengths of keys and values decide how many records a page     *)
(* takes and so how soon it splits.                                        *)
(***************************************************************************)
EXTENDS BTreeProps

CONSTANTS
    NKeys,      \* keys 1..NKeys
    Calls       \* which operations the client calls

MCKeys == 1..NKeys

\* Two records in a leaf, and more separators in an internal node than there are
\* leaves: the tree has at most two levels.
WideKeyLen == [k \in MCKeys |-> 10]
WideValLen == [v \in Vals |-> 2000]

\* Two records in a leaf and two separators in an internal node: three levels.
TallKeyLen == [k \in MCKeys |-> 2000]
TallValLen == [v \in Vals |-> 10]

\* Two records in a leaf, empty values, and one separator in an internal node (which has
\* one byte more than a record): nodes with a single child appear, and three levels soon.
SlimKeyLen == [k \in MCKeys |-> 2023]
SlimValLen == [v \in Vals |-> 0]

\* Short keys and values of very different lengths: a value is its length.
MixedKeyLen == [k \in MCKeys |-> 8]
MixedValLen == [v \in Vals |-> v]

PutOps == [op : {"put"} \cap Calls, key : MCKeys, val : Vals]
OtherOps == [op : {"get", "delete"} \cap Calls, key : MCKeys, val : {NoVal}]
MCOps == PutOps \cup OtherOps

\* A client that only puts.
PutsNext == (\E c \in Ops : Invoke(c)) \/ Descend \/ PutStep \/ IOError \/ Return
PutsSpec == Init /\ [][PutsNext]_vars
=============================================================================
