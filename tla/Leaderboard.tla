---------------------------- MODULE Leaderboard ----------------------------
(***************************************************************************)
(* The application: leaderboard.c keeps people and their wealth in a tree  *)
(* whose keys are names, ordered by compare_default, and main.c serves one *)
(* command of its menu after the other.                                    *)
(*                                                                         *)
(* The tree and the cursor are the map and the ascending scan that modules *)
(* BTree and Cursor describe; their calls succeed here.  A name is the     *)
(* sequence of its bytes, none of them 0.  Every command leaves the file   *)
(* complete (Restart), so board is also what the file holds.               *)
(***************************************************************************)
EXTENDS Integers, SequencesExt

CONSTANTS
    Names,          \* the names users type
    LongNames,      \* those of 64 bytes and more: they do not fit lb_entry_t.name
    Inputs,         \* the numbers users type
    seed_data,      \* what a new board starts with: a function from names to wealth
    Garbage,        \* entries that freshly allocated memory may look like
    MaxOpenFaults,  \* bound: how often opening an existing file fails
    NoWealth        \* the absence of a person

ASSUME NamesAssumption == LongNames \subseteq Names /\ Names \subseteq Seq(1..255)
ASSUME InputsAssumption == Inputs \subseteq Int
ASSUME SeedAssumption ==
    /\ IsFiniteSet(DOMAIN seed_data)
    /\ seed_data \in [DOMAIN seed_data -> Nat] /\ DOMAIN seed_data \subseteq Names
ASSUME OpenFaultsAssumption == MaxOpenFaults \in Nat
ASSUME NoWealthAssumption == NoWealth \notin Int

VARIABLES
    proc,           \* the program: "down", or "menu" (waiting for a command)
    file,           \* does the file exist?
    board,          \* name -> wealth, or NoWealth
    out,            \* what the last command has shown
    openFaults,     \* how often opening the file has failed
    edits           \* history: name -> what the user did last with it

vars == <<proc, file, board, out, openFaults, edits>>

Wealths == {w \in Inputs : w >= 0} \cup Range(seed_data)
NoOut == [cmd |-> "none"]
People == {p \in Names : board[p] # NoWealth}

\* Function f where it is defined, and g elsewhere.
Over(f, g) ==
    [x \in DOMAIN f \cup DOMAIN g |-> IF x \in DOMAIN f THEN f[x] ELSE g[x]]

NewBoard == Over(seed_data, [p \in Names |-> NoWealth])

-----------------------------------------------------------------------------
(***************************************************************************)
(* The two orders of names.                                                *)
(***************************************************************************)

\* compare_default(a, b) < 0: memcmp of the common length, then the shorter name.
compare_default(a, b) ==
    LET Common == 1..(IF Len(a) < Len(b) THEN Len(a) ELSE Len(b))
        Differ == {i \in Common : a[i] # b[i]}
    IN  IF Differ = {} THEN Len(a) < Len(b)
        ELSE \E i \in Differ : (\A j \in Differ : i <= j) /\ a[i] < b[i]

\* strcmp(a, b) < 0: both names end with a byte 0, which their first difference may be.
strcmp(a, b) ==
    LET byte(s, i) == IF i <= Len(s) THEN s[i] ELSE 0
    IN  \E i \in 1..(Len(b) + 1) :
            byte(a, i) < byte(b, i) /\ \A j \in 1..(i - 1) : byte(a, j) = byte(b, j)

\* Mutant of entry_cmp_desc: the names are compared the other way round.
entry_cmp_desc_Reversed(e, f) ==
    e.wealth > f.wealth \/ (e.wealth = f.wealth /\ strcmp(f.name, e.name))

\* Entry e comes before entry f: more wealth, and for the same wealth the smaller name.
entry_cmp_desc(e, f) ==
    e.wealth > f.wealth \/ (e.wealth = f.wealth /\ strcmp(e.name, f.name))

-----------------------------------------------------------------------------
(***************************************************************************)
(* Ranking.  lb_count counts every record, collect_all leaves out those    *)
(* whose name is too long, and the array has room for all of them: its end *)
(* keeps whatever malloc returned, and qsort sorts that too.               *)
(***************************************************************************)
lb_count == Cardinality(People)

\* The names of S as the cursor meets them, in the order of the tree.
Scan(S) ==
    CHOOSE s \in Bijection(1..Cardinality(S), S) :
        \A i, j \in DOMAIN s : i < j => compare_default(s[i], s[j])

collect_all ==
    LET s == Scan(People \ LongNames)
    IN  [i \in DOMAIN s |-> [name |-> s[i], wealth |-> board[s[i]]]]

\* What the C library may make of array s: its entries in an order without an inversion.
qsort(s) ==
    {t \in {[i \in DOMAIN s |-> s[f[i]]] : f \in Bijection(DOMAIN s, DOMAIN s)} :
        \A i, j \in DOMAIN s : i < j => ~entry_cmp_desc(t[j], t[i])}

\* The array after qsort, for each possible content of its end.
Sorted ==
    LET all == collect_all
    IN  UNION {qsort(all \o g) : g \in [1..(lb_count - Len(all)) -> Garbage]}

lb_top_n(n) ==
    {SubSeq(all, 1, IF n < lb_count THEN n ELSE lb_count) : all \in Sorted}

\* Mutant of lb_rank: the first entry with the same wealth is taken.
lb_rank_Wealth(p) ==
    {SelectInSeq(all, LAMBDA e : e.wealth = board[p]) : all \in Sorted}

\* The position of the first entry with the name and the wealth; 0 stands for -1.
lb_rank(p) ==
    {SelectInSeq(all, LAMBDA e : e.name = p /\ e.wealth = board[p]) : all \in Sorted}

-----------------------------------------------------------------------------
(***************************************************************************)
(* Starting and ending.                                                    *)
(***************************************************************************)
Init ==
    /\ proc = "down" /\ file = FALSE
    /\ board = [p \in Names |-> NoWealth]
    /\ out = NoOut
    /\ openFaults = 0
    /\ edits = <<>>

\* btree_storage_create truncates the file, and all seeds are put into the new tree.  What
\* the user did before stays in the history, although it is gone from the file.
CreateAndSeed ==
    /\ file' = TRUE
    /\ board' = NewBoard
    /\ UNCHANGED edits

\* Mutant of OpenBoard: the seeds are put into an existing tree as well.
OpenBoard_Reseed ==
    /\ board' = Over(seed_data, board)
    /\ UNCHANGED <<file, edits>>

OpenBoard == UNCHANGED <<file, board, edits>>

\* lb_create creates the file whenever it cannot be opened, whatever the reason.
lb_create ==
    /\ proc = "down"
    /\ \/ file /\ OpenBoard /\ UNCHANGED openFaults
       \/ ~file /\ CreateAndSeed /\ UNCHANGED openFaults
       \/ /\ file /\ openFaults < MaxOpenFaults
          /\ CreateAndSeed
          /\ openFaults' = openFaults + 1
    /\ proc' = "menu"
    /\ out' = NoOut

\* Command 5 (lb_destroy), or the program is killed while it waits for a command.
Exit ==
    /\ proc = "menu"
    /\ proc' = "down"
    /\ out' = NoOut
    /\ UNCHANGED <<file, board, openFaults, edits>>

-----------------------------------------------------------------------------
(***************************************************************************)
(* The commands of the menu.                                               *)
(***************************************************************************)
Command == proc = "menu" /\ UNCHANGED <<proc, file, openFaults>>

Limit(n) == IF n <= 0 THEN 10 ELSE IF n > 200 THEN 200 ELSE n

show_top_n(n) ==
    /\ Command
    /\ \E top \in lb_top_n(Limit(n)) : out' = [cmd |-> "top", n |-> n, list |-> top]
    /\ UNCHANGED <<board, edits>>

lookup_person(p) ==
    /\ Command
    /\ IF board[p] = NoWealth
       THEN out' = [cmd |-> "unknown", name |-> p]
       ELSE \E r \in lb_rank(p) :
              out' = [cmd |-> "person", name |-> p, wealth |-> board[p], rank |-> r]
    /\ UNCHANGED <<board, edits>>

\* Mutant of add_or_update: any number is taken.
add_or_update_Any(p, w) ==
    /\ Command
    /\ board' = [board EXCEPT ![p] = w]
    /\ edits' = Over([q \in {p} |-> w], edits)
    /\ out' = NoOut

\* lb_upsert, after the number has been read: a negative one is rejected.
add_or_update(p, w) ==
    /\ Command
    /\ IF w < 0
       THEN UNCHANGED <<board, edits>>
       ELSE /\ board' = [board EXCEPT ![p] = w]
            /\ edits' = Over([q \in {p} |-> w], edits)
    /\ out' = NoOut

delete_person(p) ==
    /\ Command
    /\ board' = [board EXCEPT ![p] = NoWealth]
    /\ edits' = Over([q \in {p} |-> NoWealth], edits)
    /\ out' = [cmd |-> IF board[p] = NoWealth THEN "unknown" ELSE "deleted", name |-> p]

Next ==
    \/ lb_create \/ Exit
    \/ \E n \in Inputs : show_top_n(n)
    \/ \E p \in Names :
          lookup_person(p) \/ delete_person(p) \/ \E w \in Inputs : add_or_update(p, w)

Spec == Init /\ [][Next]_vars

-----------------------------------------------------------------------------
(***************************************************************************)
(* Properties.                                                             *)
(***************************************************************************)

\* Type correctness; only an existing file holds people.
TypeOK ==
    /\ proc \in {"down", "menu"} /\ file \in BOOLEAN
    /\ board \in [Names -> Wealths \cup {NoWealth}]
    /\ (proc = "menu" \/ People # {}) => file
    /\ openFaults \in 0..MaxOpenFaults

\* p is ahead of q: richer, or as rich with the name that comes first.
Ahead(p, q) == board[p] > board[q] \/ (board[p] = board[q] /\ compare_default(p, q))

Shown == {out.list[i].name : i \in DOMAIN out.list}

\* leaderboard.h: lb_top_n delivers the first n people by descending wealth.  The list has
\* as many people of the board, with their wealth, as the menu asks for, or all there are,
\* each ahead of the next, and nobody left out is ahead of somebody in it.
TopIsRanking ==
    out.cmd = "top" =>
        /\ \A i \in DOMAIN out.list :
              /\ out.list[i].name \in People
              /\ out.list[i].wealth = board[out.list[i].name]
              /\ \A j \in 1..(i - 1) : Ahead(out.list[j].name, out.list[i].name)
        /\ Len(out.list) = (IF Limit(out.n) < lb_count THEN Limit(out.n) ELSE lb_count)
        /\ \A p \in People \ Shown, q \in Shown : Ahead(q, p)

\* leaderboard.h: the rank of a person counts from 1, people of the same wealth by name.
\* It is one more than the number of people ahead, in the order in which the tree keeps
\* the names, although lb_rank sorts them by another one.
RankCountsThoseAhead ==
    out.cmd = "person" =>
        /\ out.wealth = board[out.name]
        /\ out.rank = 1 + Cardinality({p \in People : Ahead(p, out.name)})

\* leaderboard.h: lb_create creates and seeds the board when the file does not exist.  So
\* with an existing file a name has what the user last gave it, through any number of
\* restarts, and only the others have their seed.  (A file that cannot be opened is
\* created anew, too: this is false of lb_create.)
ExistingBoardKept == file => board = Over(edits, NewBoard)

\* As long as the existing file could be opened at every start, that is true: no restart
\* brings a seed back over an update or a deletion.
EditsOutliveSeeds == openFaults = 0 => ExistingBoardKept
=============================================================================
