--------------------------- MODULE RestartProofs ---------------------------
(***************************************************************************)
(* Proofs about the restarts of Restart, for any keys, values, record      *)
(* lengths and number of pages.                                            *)
(*                                                                         *)
(* A process may be killed between any two page writes of a call.  What    *)
(* the heights of BTreeProofs say of the pages survives that: a page which *)
(* was allocated but not written is an internal page without a slot whose  *)
(* first child is page 0, the first leaf, and no page leads to it, so that *)
(* it is a node one level above the leaves like any other.                 *)
(*                                                                         *)
(* When no call is cut off, the root in the header leads to the root of    *)
(* the tree through roots that a failed delete has given up.               *)
(***************************************************************************)
EXTENDS Restart, BTreeProofs

-----------------------------------------------------------------------------
(***************************************************************************)
(* The pages a crash leaves behind.                                        *)
(***************************************************************************)

\* The page that has been allocated and not been written is a node above page 0, and
\* below no other page.
Fresh ==
    \A u \in Unwritten :
        /\ u \in Pids \ {0}
        /\ \A g : g \in [Pids -> Nat] /\ g[0] = 0 => pages[u] \in Nodes(Pids, g, 1)
        /\ \A pid \in Pids \ {u} :
               pages[pid].type = "PAGE_INTERNAL" => ~IsChild(pages[pid], u)

\* Every page, written or not, is a node of some height.
Sound(g) ==
    /\ g \in [Pids -> Nat] /\ g[0] = 0
    /\ \A pid \in Pids : pages[pid] \in Nodes(Pids, g, g[pid])

CInv ==
    /\ IInv /\ Fresh
    /\ saved_root \in Pids
    /\ proc \in {"up", "save", "down"}
    /\ proc # "up" => pc = "idle"

\* The page that is not written yet gets the height above the first leaf.
LEMMA TallIsSound ==
    ASSUME NEW h, TypeOK, Shape(h), Fresh
    PROVE  \E g : Sound(g)
  <1>1. h \in [Pids -> Nat] /\ h[0] = 0
    BY DEF Shape
  <1>2. CASE Unwritten = {}
    <2>1. Sound(h)
      BY <1>1, <1>2 DEF Sound, Shape
    <2> QED
      BY <2>1
  <1>3. CASE Unwritten # {}
    <2>1. PICK u \in Unwritten : Unwritten = {u}
      BY <1>3 DEF Unwritten
    <2> DEFINE g == [h EXCEPT ![u] = 1]
    <2>2. u \in Pids \ {0}
      BY DEF Fresh
    <2>3. g \in [Pids -> Nat] /\ g[0] = 0 /\ g[u] = 1 /\ \A q \in Pids \ {u} : g[q] = h[q]
      BY <1>1, <2>2, PidsType
    <2> HIDE DEF g
    <2>4. pages[u] \in Nodes(Pids, g, g[u])
      BY <2>3 DEF Fresh
    <2>5. ASSUME NEW pid \in Pids \ {u} PROVE pages[pid] \in Nodes(Pids, g, g[pid])
      <3> DEFINE p == pages[pid]
                 n == h[pid]
      <3>1. /\ n \in Nat /\ p \in Nodes(Pids, h, n) /\ g[pid] = n
        BY <1>1, <2>1, <2>3 DEF Shape
      <3> HIDE DEF n
      <3>2. CASE n = 0
        BY <3>1, <3>2 DEF Nodes, Recs
      <3>3. CASE n # 0
        <4>1. p.type = "PAGE_INTERNAL" /\ ~IsChild(p, u)
          BY <3>1, <3>3, NodeIsPage DEF Fresh
        <4>2. p.slots \in Seq(Recs(Pids, h, n)) /\ Len(p.slots) \in Nat
          BY <3>1, NodeIsPage, LenProperties
        <4>3. p.first_child_id \in Pids /\ h[p.first_child_id] = n - 1
          BY <3>1, <3>3 DEF Nodes
        <4>4. p.first_child_id # u
          <5>1. 1 \in 1..NumChildren(p)
            BY <4>2 DEF NumChildren
          <5> QED
            BY <4>1, <5>1 DEF IsChild, Child
        <4>5. ASSUME NEW i \in 1..Len(p.slots) PROVE p.slots[i] \in Recs(Pids, g, n)
          <5>1. p.slots[i] \in Recs(Pids, h, n)
            BY <4>2, ElementOfSeq
          <5>2. i + 1 \in 1..NumChildren(p) /\ i + 1 # 1 /\ i + 1 - 1 = i
            BY <4>2 DEF NumChildren
          <5>3. p.slots[i].child # u
            BY <4>1, <5>2 DEF IsChild, Child
          <5> QED
            BY <2>3, <3>3, <5>1, <5>3 DEF Recs, InternalRec
        <4>6. p.slots \in Seq(Recs(Pids, g, n))
          BY <4>2, <4>5, LenProperties
        <4>7. g[p.first_child_id] = n - 1
          BY <2>3, <4>3, <4>4
        <4> QED
          BY <3>1, <3>3, <4>6, <4>7 DEF Nodes
      <3> QED
        BY <3>2, <3>3
    <2>6. Sound(g)
      BY <2>3, <2>4, <2>5 DEF Sound
    <2> QED
      BY <2>6
  <1> QED
    BY <1>2, <1>3

\* The parent link of at most one page changes.
Relinked ==
    /\ UNCHANGED num_pages
    /\ \/ UNCHANGED pages
       \/ \E c, q \in Pids : pages' = [pages EXCEPT ![c] = [pages[c] EXCEPT !.parent_id = q]]

\* A node stays a node, with the children it has.
LEMMA RelinkedNode ==
    ASSUME TypeOK, Relinked, NEW pid \in Pids
    PROVE  /\ \A g : \A n : pages[pid] \in Nodes(Pids, g, n) => pages'[pid] \in Nodes(Pids, g, n)
           /\ pages'[pid].type = pages[pid].type
           /\ \A c : IsChild(pages'[pid], c) <=> IsChild(pages[pid], c)
  <1>1. CASE UNCHANGED pages
    BY <1>1
  <1>2. ASSUME NEW c \in Pids, NEW q \in Pids,
               pages' = [pages EXCEPT ![c] = [pages[c] EXCEPT !.parent_id = q]]
        PROVE  /\ \A g : \A n : pages[pid] \in Nodes(Pids, g, n)
                                    => pages'[pid] \in Nodes(Pids, g, n)
               /\ pages'[pid].type = pages[pid].type
               /\ \A d : IsChild(pages'[pid], d) <=> IsChild(pages[pid], d)
    <2> DEFINE p == pages[pid]
               r == [p EXCEPT !.parent_id = q]
    <2>1. pages'[pid] \in {p, r} /\ p \in Page(Pids)
      BY <1>2 DEF TypeOK
    <2>2. ASSUME NEW g, NEW n, p \in Nodes(Pids, g, n) PROVE r \in Nodes(Pids, g, n)
      BY <2>2, SetLinks
    <2>3. r.type = p.type /\ r.slots = p.slots /\ r.first_child_id = p.first_child_id
      BY <2>1 DEF Page
    <2>4. \A d : IsChild(r, d) <=> IsChild(p, d)
      BY <2>3, SameChildren
    <2> HIDE DEF r
    <2> QED
      BY <2>1, <2>2, <2>3, <2>4
  <1> QED
    BY <1>1, <1>2 DEF Relinked

\* set_parent_id, done or not.
LEMMA SetParentRelinks ==
    ASSUME TypeOK, NEW c \in Pids, NEW q \in Pids, SetParent(c, q), UNCHANGED num_pages
    PROVE  Relinked
  BY DEF SetParent, WriteUnchecked, WritePage, Relinked

\* So does the page that is not written yet.
LEMMA RelinkedFresh ==
    ASSUME TypeOK, Relinked, Fresh, Unwritten' \subseteq Unwritten
    PROVE  Fresh'
  <1>1. Pids' = Pids
    BY DEF Relinked, Pids
  <1> SUFFICES ASSUME NEW u \in Unwritten'
               PROVE  /\ u \in Pids \ {0}
                      /\ \A g : g \in [Pids -> Nat] /\ g[0] = 0
                                    => pages'[u] \in Nodes(Pids, g, 1)
                      /\ \A pid \in Pids \ {u} :
                             pages'[pid].type = "PAGE_INTERNAL" => ~IsChild(pages'[pid], u)
    BY <1>1 DEF Fresh
  <1>2. u \in Pids \ {0}
    BY DEF Fresh
  <1>3. ASSUME NEW g, g \in [Pids -> Nat], g[0] = 0 PROVE pages'[u] \in Nodes(Pids, g, 1)
    BY <1>2, <1>3, RelinkedNode DEF Fresh
  <1>4. ASSUME NEW pid \in Pids \ {u}, pages'[pid].type = "PAGE_INTERNAL"
        PROVE  ~IsChild(pages'[pid], u)
    BY <1>4, RelinkedNode DEF Fresh
  <1> QED
    BY <1>2, <1>3, <1>4

\* alloc_page puts a fresh page behind the pages there are.
LEMMA AllocFresh ==
    ASSUME TypeOK, AllocPage("PAGE_INTERNAL"), Unwritten' \subseteq {new_pid'}
    PROVE  Fresh'
  <1> DEFINE u == num_pages
  <1>1. /\ u \in Nat \ {0} /\ Pids = 0..(u - 1) /\ num_pages' = u + 1 /\ new_pid' = u
        /\ pages' = [pid \in 0..u |-> IF pid = u THEN page_init("PAGE_INTERNAL") ELSE pages[pid]]
    BY DEF AllocPage, TypeOK, Pids
  <1> HIDE DEF u
  <1>2. Pids' = 0..u
    BY <1>1 DEF Pids
  <1>3. u \in Pids' \ {0} /\ Pids' = Pids \cup {u} /\ u \notin Pids /\ 0 \in Pids'
    BY <1>1, <1>2
  <1>4. ASSUME NEW g, g \in [Pids' -> Nat], g[0] = 0 PROVE pages'[u] \in Nodes(Pids', g, 1)
    <2>1. pages'[u] = page_init("PAGE_INTERNAL")
      BY <1>1, <1>2, <1>3
    <2>2. << >> \in Seq(Recs(Pids', g, 1))
      BY EmptySeq
    <2> QED
      BY <1>3, <1>4, <2>1, <2>2 DEF Nodes, page_init, INVALID_PAGE_ID
  <1>5. ASSUME NEW pid \in Pids' \ {u}, pages'[pid].type = "PAGE_INTERNAL"
        PROVE  ~IsChild(pages'[pid], u)
    <2>1. pid \in Pids /\ pages'[pid] = pages[pid] /\ pages[pid] \in Page(Pids)
      BY <1>1, <1>2, <1>3 DEF TypeOK
    <2>2. Children(pages[pid]) \subseteq Pids
      BY <1>5, <2>1, ChildrenType
    <2> QED
      BY <1>3, <2>1, <2>2 DEF Children, IsChild
  <1> QED
    BY <1>1, <1>3, <1>4, <1>5 DEF Fresh

-----------------------------------------------------------------------------
(***************************************************************************)
(* The steps of a call.                                                    *)
(***************************************************************************)
BuildsPage == {"parent_median", "parent_right", "root_left", "root_right", "root_write"}

\* The steps that begin or go on with a new internal page.
BuildStep ==
    ParentAlloc \/ NewRootAlloc \/ ParentSetMedian \/ PlaceChild \/ NewRootSetLeft
        \/ NewRootSetRight

\* After every other step there is no page that is allocated and not written.
LEMMA OtherSteps ==
    ASSUME NEW h, Tall(h), Next, ~BuildStep
    PROVE  pc' \notin BuildsPage
  <1>1. CASE \E c \in Ops : Invoke(c)
    BY <1>1 DEF Invoke, BuildsPage
  <1>2. CASE Descend
    <2>1. call.op \in {"get", "put", "delete"}
      BY <1>2, OpsAssumption DEF Tall, Served, Descend
    <2> QED
      BY <1>2, <2>1 DEF Descend, BuildsPage
  <1>3. CASE GetLeaf \/ IOError \/ Return
    BY <1>3 DEF GetLeaf, IOError, Return, ReturnWith, BuildsPage
  <1>4. CASE PutStep
    <2>1. CASE PutInPlace \/ PutSplit \/ PlaceRecord \/ SplitAlloc \/ SplitWriteLeft
               \/ SplitWriteRight \/ SplitFixNext \/ SplitFixPrev \/ GarbageRead
      BY <2>1
      DEF PutInPlace, PutSplit, PlaceRecord, Filling, SplitAlloc, SplitWriteLeft,
          SplitWriteRight, SplitFixNext, SplitFixPrev, GarbageRead, ReturnWith, BuildsPage
    <2>2. CASE ParentInsert \/ ParentSplit \/ ParentWriteLeft \/ ParentWriteRight
               \/ NewRootWrite \/ OutOfMemory \/ CollectFailed
      BY <2>2
      DEF ParentInsert, ParentSplit, ParentWriteLeft, ParentWriteRight, NewRootWrite,
          OutOfMemory, CollectFailed, ReturnWith, BuildsPage
    <2> QED
      BY <1>4, <2>1, <2>2 DEF PutStep, BuildStep
  <1>5. CASE DeleteStep
    BY <1>5
    DEF DeleteStep, DeleteMissing, DeleteLeaf, RebalanceEnd, RebalanceNull, MergeStart,
        MergeFixNext, MergeWriteLeft, MergeWriteParent, ShrinkRoot, ShrinkWrite, ReturnWith,
        BuildsPage
  <1> QED
    BY <1>1, <1>2, <1>3, <1>4, <1>5 DEF Next, Step

\* The children whose parent is set are pages.
LEMMA BuildStepPages ==
    ASSUME NEW h, TypeOK, Tall(h),
           ParentSetMedian \/ PlaceChild \/ NewRootSetLeft \/ NewRootSetRight
    PROVE  Relinked /\ new_pid' = new_pid
  <1>1. new_pid \in Pids /\ root_id \in Pids /\ buf \in Page(Pids)
    BY DEF TypeOK
  <1>2. CASE ParentSetMedian
    <2>1. buf.first_child_id \in Pids
      BY <1>1 DEF Page
    <2> QED
      BY <1>1, <1>2, <2>1, SetParentRelinks DEF ParentSetMedian, locals
  <1>3. CASE PlaceChild
    <2>1. pc \in ParentSplitting /\ todo # << >> /\ pc = "parent_right"
      BY <1>3 DEF PlaceChild, ParentSplitting
    <2>2. Head(todo).child \in Pids
      <3> DEFINE n == h[path[level]]
      <3>1. todo \in Seq(Recs(Pids, h, n)) /\ n # 0
        BY <2>1, ParentSplitType DEF Tall, SplitsParent
      <3> HIDE DEF n
      <3>2. Head(todo) \in Recs(Pids, h, n)
        BY <2>1, <3>1, HeadTailProperties
      <3> QED
        BY <3>1, <3>2 DEF Recs, InternalRec
    <2> QED
      BY <1>1, <1>3, <2>2, SetParentRelinks DEF PlaceChild
  <1>4. CASE NewRootSetLeft
    BY <1>1, <1>4, SetParentRelinks DEF NewRootSetLeft
  <1>5. CASE NewRootSetRight
    <2>1. sep \in InternalRec(Pids)
      BY <1>5 DEF NewRootSetRight, Tall, BuildsRoot, RootBuilding
    <2>2. sep.child \in Pids
      BY <2>1 DEF InternalRec
    <2> QED
      BY <1>1, <1>5, <2>2, SetParentRelinks DEF NewRootSetRight, locals
  <1> QED
    BY <1>2, <1>3, <1>4, <1>5

\* A step allocates one page at most.
LEMMA CountGrows ==
    ASSUME Next
    PROVE  num_pages' \in {num_pages, num_pages + 1}
  <1>1. CASE \E c \in Ops : Invoke(c)
    BY <1>1 DEF Invoke, store
  <1>2. CASE Descend \/ GetLeaf \/ IOError \/ Return
    BY <1>2 DEF Descend, GetLeaf, IOError, Return, store
  <1>3. CASE PutStep
    <2>1. CASE PutInPlace \/ PutSplit \/ PlaceRecord \/ SplitAlloc \/ SplitWriteLeft
               \/ SplitWriteRight \/ SplitFixNext \/ SplitFixPrev \/ GarbageRead
      BY <2>1
      DEF PutInPlace, PutSplit, PlaceRecord, SplitAlloc, AllocPage, SplitWriteLeft,
          SplitWriteRight, SplitFixNext, SplitFixPrev, GarbageRead, store
    <2>2. CASE ParentInsert \/ ParentSplit \/ ParentWriteLeft \/ ParentAlloc
               \/ ParentSetMedian \/ PlaceChild \/ ParentWriteRight
      BY <2>2
      DEF ParentInsert, ParentSplit, ParentWriteLeft, ParentAlloc, AllocPage,
          ParentSetMedian, PlaceChild, ParentWriteRight, store
    <2>3. CASE NewRootAlloc \/ NewRootSetLeft \/ NewRootSetRight \/ NewRootWrite
               \/ OutOfMemory \/ CollectFailed
      BY <2>3
      DEF NewRootAlloc, AllocPage, NewRootSetLeft, NewRootSetRight, NewRootWrite,
          OutOfMemory, CollectFailed, store
    <2> QED
      BY <1>3, <2>1, <2>2, <2>3 DEF PutStep
  <1>4. CASE DeleteStep
    BY <1>4
    DEF DeleteStep, DeleteMissing, DeleteLeaf, RebalanceEnd, RebalanceNull, MergeStart,
        MergeFixNext, MergeWriteLeft, MergeWriteParent, ShrinkRoot, ShrinkWrite, store
  <1> QED
    BY <1>1, <1>2, <1>3, <1>4 DEF Next, Step

\* A page that is allocated stays allocated.
LEMMA PagesGrow ==
    ASSUME TypeOK, Next
    PROVE  Pids \subseteq Pids'
  <1>1. num_pages \in Nat \ {0}
    BY DEF TypeOK
  <1>2. num_pages' \in {num_pages, num_pages + 1}
    BY CountGrows
  <1>3. num_pages \in Nat /\ num_pages' \in Nat /\ num_pages <= num_pages'
    BY <1>1, <1>2
  <1>4. Pids = 0..(num_pages - 1) /\ Pids' = 0..(num_pages' - 1)
    BY DEF Pids
  <1>5. \A m, n \in Nat : m <= n => 0..(m - 1) \subseteq 0..(n - 1)
    OBVIOUS
  <1> QED
    BY <1>3, <1>4, <1>5

\* A call that has its answer only returns.
LEMMA OnlyReturns ==
    ASSUME Step, pc = "return"
    PROVE  Return
  BY DEF Step, Descend, GetLeaf, IOError, CheckedIO, PutStep, PutInPlace, PutSplit,
         PlaceRecord, Filling, SplitAlloc, SplitWriteLeft, SplitWriteRight, SplitFixNext,
         SplitFixPrev, GarbageRead, ParentInsert, ParentSplit, ParentWriteLeft, ParentAlloc,
         ParentSetMedian, PlaceChild, ParentWriteRight, NewRootAlloc, NewRootSetLeft,
         NewRootSetRight, NewRootWrite, OutOfMemory, CollectFailed, SplitCases, DeleteStep,
         DeleteMissing, DeleteLeaf, RebalanceEnd, RebalanceNull, MergeStart, MergeFixNext,
         MergeWriteLeft, MergeWriteParent, ShrinkRoot, ShrinkWrite

\* A step of a call that is no failure of a put keeps what a crash relies on.
LEMMA CallKeepsCInv ==
    ASSUME CInv, NoPutFailed', Next
    PROVE  IInv' /\ Fresh' /\ saved_root \in Pids'
  <1>1. TypeOK /\ Fresh /\ saved_root \in Pids /\ pc # "undefined"
    BY UndefinedStops DEF CInv, IInv
  <1>2. PICK h : Tall(h)
    BY <1>1 DEF CInv, IInv
  <1>3. IInv'
    BY NextIInv DEF CInv
  <1>4. Fresh'
    <2>1. CASE ParentAlloc \/ NewRootAlloc
      <3>1. AllocPage("PAGE_INTERNAL")
        BY <2>1 DEF ParentAlloc, NewRootAlloc
      <3>2. Unwritten' \subseteq {new_pid'}
        BY DEF Unwritten
      <3> QED
        BY <1>1, <3>1, <3>2, AllocFresh
    <2>2. CASE ParentSetMedian \/ PlaceChild \/ NewRootSetLeft \/ NewRootSetRight
      <3>1. Relinked /\ new_pid' = new_pid
        BY <1>1, <1>2, <2>2, BuildStepPages
      <3>2. Unwritten = {new_pid}
        BY <2>2
        DEF ParentSetMedian, PlaceChild, NewRootSetLeft, NewRootSetRight, Unwritten,
            RootBuilding
      <3>3. Unwritten' \subseteq Unwritten
        BY <3>1, <3>2 DEF Unwritten
      <3> QED
        BY <1>1, <3>1, <3>3, RelinkedFresh
    <2>3. CASE ~BuildStep
      <3>1. pc' \notin BuildsPage
        BY <1>2, <2>3, OtherSteps
      <3>2. Unwritten' = {}
        BY <3>1 DEF Unwritten, BuildsPage, RootBuilding
      <3> QED
        BY <3>2 DEF Fresh
    <2> QED
      BY <2>1, <2>2, <2>3 DEF BuildStep
  <1>5. saved_root \in Pids'
    BY <1>1, PagesGrow
  <1> QED
    BY <1>3, <1>4, <1>5

\* After a kill nothing is left of the call but what is in the pages.
LEMMA KillKeepsCInv ==
    ASSUME CInv, Kill
    PROVE  CInv'
  <1>1. /\ pc' = "idle" /\ proc' = "down" /\ saved_root' = saved_root
        /\ UNCHANGED <<pages, num_pages, root_id, call, ret, view, faults>>
        /\ path' = << >> /\ level' = 0 /\ buf' = EmptyPage /\ todo' = << >>
        /\ left' = EmptyPage /\ ra' = << >> /\ new_pid' = INVALID_PAGE_ID /\ sep' = NoSep
    BY DEF Kill, ResetLocals, store
  <1>2. TypeOK /\ saved_root \in Pids
    BY DEF CInv, IInv
  <1>3. Pids' = Pids /\ Unwritten' = {}
    BY <1>1 DEF Pids, Unwritten, RootBuilding
  <1>4. PICK g : Sound(g)
    <2>1. PICK h : Tall(h)
      BY DEF Kill, CInv, IInv
    <2> QED
      BY <1>2, <2>1, TallIsSound DEF Tall, CInv
  <1>5. Shape(g)'
    BY <1>1, <1>3, <1>4 DEF Sound, Shape
  <1>6. TypeOK'
    <2>1. EmptyPage \in Page(Pids) /\ INVALID_PAGE_ID \in Pids
      BY <1>2, PidsType DEF EmptyPage, page_init, Page, INVALID_PAGE_ID
    <2> QED
      BY <1>1, <1>2, <1>3, <2>1 DEF TypeOK, Controls
  <1>7. IInv'
    BY <1>1, <1>5, <1>6, IdleIsTall DEF IInv
  <1> QED
    BY <1>1, <1>2, <1>3, <1>7 DEF CInv, Fresh

\* What a caller could read in the pages is a value, or nothing.
LEMMA LookupTypeNext == (StoreOK => \A k \in Keys : Lookup(k) \in Vals \cup {NoVal})'
  <1>1. StoreOK => \A k \in Keys : Lookup(k) \in Vals \cup {NoVal}
    BY LookupType
  <1> QED
    BY <1>1, PTL

\* After a restart the tree begins at the root of the header.
LEMMA OpenKeepsTall ==
    ASSUME TypeOK, saved_root \in Pids, pc = "idle", btree_open
    PROVE  TypeOK' /\ \A h : Shape(h) => Tall(h)'
  <1>1. /\ root_id' = saved_root /\ call' = NoCall /\ ret' = NoRet
        /\ UNCHANGED <<pages, num_pages, pc, path, level, buf, todo, left, ra, new_pid, sep>>
        /\ UNCHANGED faults
        /\ view' = [k \in Keys |-> Lookup(k)']
    BY DEF btree_open, locals
  <1>2. Pids' = Pids /\ Unwritten = {} /\ Unwritten' = {}
    BY <1>1 DEF Pids, Unwritten, RootBuilding
  <1>3. StoreOK'
    BY <1>1, <1>2 DEF TypeOK, StoreOK
  <1>4. view' \in [Keys -> Vals \cup {NoVal}]
    BY <1>1, <1>3, LookupTypeNext
  <1>5. TypeOK'
    BY <1>1, <1>2, <1>4 DEF TypeOK, NoRet, Records
  <1>6. ASSUME NEW h, Shape(h) PROVE Tall(h)'
    <2>1. Shape(h)'
      BY <1>1, <1>2, <1>6 DEF Shape
    <2> QED
      BY <1>1, <2>1, IdleIsTall
  <1> QED
    BY <1>5, <1>6

\* Steps that leave the tree alone.
LEMMA SameVarsCInv ==
    ASSUME CInv, UNCHANGED vars, saved_root' \in {saved_root, root_id},
           proc' \in {"up", "save", "down"}, proc' = proc \/ pc = "idle"
    PROVE  CInv'
  <1>1. UNCHANGED <<pages, num_pages, root_id, call, ret, view, pc, faults>>
        /\ UNCHANGED <<path, level, buf, todo, left, ra, new_pid, sep>>
    BY DEF vars, store, locals
  <1>2. Pids' = Pids /\ Unwritten' = Unwritten
    BY <1>1 DEF Pids, Unwritten
  <1>3. IInv'
    BY SameVarsIInv DEF CInv
  <1>4. Fresh'
    BY <1>1, <1>2 DEF Fresh, CInv
  <1>5. saved_root' \in Pids /\ (proc' # "up" => pc' = "idle")
    BY <1>1 DEF CInv, IInv, TypeOK
  <1> QED
    BY <1>1, <1>2, <1>3, <1>4, <1>5 DEF CInv

\* The invariant of a program that may be killed anywhere.
LEMMA RestartNextCInv ==
    ASSUME NoPutFailed', CInv, [RestartNext]_restartVars
    PROVE  CInv'
  <1>1. CASE UNCHANGED restartVars
    <2>1. UNCHANGED vars /\ UNCHANGED <<proc, saved_root>>
      BY <1>1 DEF restartVars
    <2> QED
      BY <2>1, SameVarsCInv DEF CInv
  <1>2. CASE CallStep
    <2>1. Next /\ proc = "up" /\ saved_root' = saved_root /\ proc' \in {"up", "save"}
      BY <1>2 DEF CallStep, Next
    <2>2. ASSUME proc' # "up" PROVE pc' = "idle"
      <3>1. pc = "return"
        BY <1>2, <2>2 DEF CallStep
      <3> QED
        BY <1>2, <3>1, OnlyReturns DEF CallStep, Return
    <2> QED
      BY <2>1, <2>2, CallKeepsCInv DEF CInv
  <1>3. CASE StartCall
    <2>1. Next /\ proc = "up" /\ saved_root' = saved_root /\ proc' = "up"
      BY <1>3 DEF StartCall, Next
    <2> QED
      BY <2>1, CallKeepsCInv DEF CInv
  <1>4. CASE SaveRoot \/ lb_destroy
    <2>1. /\ UNCHANGED vars /\ saved_root' = root_id /\ proc' \in {"up", "down"}
          /\ pc = "idle"
      BY <1>4 DEF SaveRoot, lb_destroy, CInv, Idle
    <2> QED
      BY <2>1, SameVarsCInv
  <1>5. CASE Kill
    BY <1>5, KillKeepsCInv
  <1>6. CASE btree_open
    <2>1. /\ proc = "down" /\ pc = "idle" /\ pc' = "idle" /\ proc' = "up"
          /\ saved_root' = saved_root /\ TypeOK /\ saved_root \in Pids /\ Pids' = Pids
      BY <1>6 DEF CInv, IInv, btree_open, Pids
    <2>2. PICK h : Tall(h)
      BY <2>1 DEF CInv, IInv
    <2>3. TypeOK' /\ Tall(h)'
      BY <1>6, <2>1, <2>2, OpenKeepsTall DEF Tall
    <2>4. Fresh'
      BY <2>1 DEF Fresh, Unwritten, RootBuilding
    <2> QED
      BY <2>1, <2>3, <2>4 DEF CInv, IInv
  <1> QED
    BY <1>1, <1>2, <1>3, <1>4, <1>5, <1>6 DEF RestartNext

\* Failures are only ever added up, across restarts, too.
LEMMA RestartFailuresAddUp ==
    ASSUME [RestartNext]_restartVars
    PROVE  faults' \in {faults, faults + 1}
  <1>1. CASE CallStep \/ StartCall
    BY <1>1, FailuresAddUp DEF CallStep, StartCall, Next
  <1>2. CASE ~(CallStep \/ StartCall)
    BY <1>2 DEF RestartNext, restartVars, vars, SaveRoot, lb_destroy, Kill, btree_open
  <1> QED
    BY <1>1, <1>2

\* A kill anywhere, and a failure anywhere but in a put, keep the invariant.
LEMMA AlwaysCInv == RestartSpec => [](NoPutFailed => CInv)
  <1> DEFINE Inv == faults \in Nat /\ (NoPutFailed => CInv)
  <1>1. RestartInit => Inv
    <2> SUFFICES ASSUME RestartInit PROVE Inv
      OBVIOUS
    <2>1. Init /\ proc = "up" /\ saved_root = root_id /\ pc = "idle" /\ faults = 0
      BY DEF RestartInit, Init
    <2>2. IInv
      BY <2>1, InitIInv
    <2>3. Fresh
      BY <2>1 DEF Fresh, Unwritten, RootBuilding
    <2> QED
      BY <2>1, <2>2, <2>3 DEF CInv, IInv, TypeOK
  <1>2. Inv /\ [RestartNext]_restartVars => Inv'
    <2> SUFFICES ASSUME Inv, [RestartNext]_restartVars PROVE Inv'
      OBVIOUS
    <2>1. faults' \in {faults, faults + 1}
      BY RestartFailuresAddUp
    <2>2. faults' \in Nat /\ (NoPutFailed' => NoPutFailed)
      BY <2>1 DEF NoPutFailed
    <2>3. ASSUME NoPutFailed' PROVE CInv'
      BY <2>2, <2>3, RestartNextCInv
    <2> QED
      BY <2>2, <2>3
  <1>3. Inv => (NoPutFailed => CInv)
    OBVIOUS
  <1> QED
    BY <1>1, <1>2, <1>3, PTL DEF RestartSpec

\* Pages and page ids are well formed at every step, also after a process was killed
\* between any two page writes of a put, a get or a delete and the file opened again.
THEOREM CrashTypeOK == RestartSpec => [](NoPutFailed => TypeOK)
  <1>1. CInv => TypeOK
    BY DEF CInv, IInv
  <1> QED
    BY <1>1, AlwaysCInv, PTL

\* Whatever page writes a kill cuts off, after it all leaves of the tree that btree_open
\* finds are at one depth, and no page is below itself: a lookup ends at a leaf.
THEOREM CrashKeepsDepth == RestartSpec => [](NoPutFailed => UniformDepth)
  <1>1. CInv => UniformDepth
    BY OneDepth DEF CInv
  <1> QED
    BY <1>1, AlwaysCInv, PTL

\* After a restart in the middle of a split or a merge a delete still finds every node in
\* its parent: btree_delete reports no corrupted tree.
THEOREM CrashNeverCorrupts == RestartSpec => [](NoPutFailed => NodeIsChildOfParent)
  <1>1. CInv => NodeIsChildOfParent
    BY RebalanceType DEF CInv, IInv, NodeIsChildOfParent
  <1> QED
    BY <1>1, AlwaysCInv, PTL

-----------------------------------------------------------------------------
(***************************************************************************)
(* What is read from a page that leads to the root.                        *)
(***************************************************************************)

\* The walk of a lookup comes one level down with every step, and stays at a leaf.
LEMMA WalkHeight ==
    ASSUME NEW h, TypeOK, Shape(h), Unwritten = {}, NEW k, NEW w \in [0..num_pages -> Pids],
           \A d \in 1..num_pages : w[d] = NextPage(pages, w[d - 1], k)
    PROVE  pages[w[num_pages - 1]].type = "PAGE_LEAF"
  <1> DEFINE n == num_pages
             At(d) == h[w[d]] = IF d <= h[w[0]] THEN h[w[0]] - d ELSE 0
             Bad == {d \in 0..n : ~At(d)}
  <1>1. n \in Nat \ {0} /\ \A d \in 0..n : w[d] \in Pids /\ h[w[d]] \in Nat
    BY DEF TypeOK, Shape
  <1>2. At(0) /\ 0 \in 0..n
    BY <1>1
  <1>3. ASSUME NEW d \in 1..n, At(d - 1) PROVE At(d)
    <2>1. d - 1 \in 0..n /\ d \in 0..n
      BY <1>1
    <2> DEFINE q == w[d - 1]
    <2>2. q \in Pids /\ h[q] \in Nat /\ pages[q] \in Nodes(Pids, h, h[q])
          /\ (pages[q].type = "PAGE_LEAF" <=> h[q] = 0)
      BY <1>1, <2>1, NodeAt
    <2>3. w[d] = NextPage(pages, q, k)
      OBVIOUS
    <2> HIDE DEF q
    <2>4. CASE h[q] = 0
      <3>1. w[d] = q
        BY <2>2, <2>3, <2>4 DEF NextPage
      <3>2. h[w[d]] = 0 /\ h[w[d - 1]] = 0 /\ h[w[0]] \in Nat
        BY <1>1, <1>2, <2>4, <3>1 DEF q
      <3>3. d >= h[w[0]] + 1 \/ d - 1 = h[w[0]]
        BY <1>1, <1>3, <3>2
      <3> QED
        BY <1>1, <3>2, <3>3
    <2>5. CASE h[q] # 0
      <3>1. w[d] = internal_find_child(pages[q], k)
        BY <2>2, <2>3, <2>5 DEF NextPage
      <3>2. h[w[d]] = h[q] - 1
        BY <2>2, <2>5, <3>1, FindChild
      <3>3. h[w[d - 1]] # 0 /\ h[w[d]] = h[w[d - 1]] - 1 /\ h[w[0]] \in Nat
        BY <1>1, <1>2, <2>5, <3>2 DEF q
      <3> QED
        BY <1>1, <1>3, <3>3
    <2> QED
      BY <2>4, <2>5
  <1> HIDE DEF At
  <1>4. ASSUME Bad # {} PROVE FALSE
    <2>1. Bad \in SUBSET Nat
      BY <1>1
    <2>2. PICK d \in Bad : \A e \in Bad : d <= e
      BY <1>4, <2>1, LeastNumber
    <2>3. d \in 0..n /\ ~At(d) /\ d # 0
      BY <1>2, <2>2
    <2>4. d \in 1..n /\ d - 1 \in 0..n /\ ~(d <= d - 1)
      BY <1>1, <2>3
    <2>5. d - 1 \notin Bad
      BY <2>2, <2>4
    <2> QED
      BY <1>3, <2>3, <2>4, <2>5
  <1>5. n - 1 \in 0..n
    BY <1>1
  <1>6. At(n - 1)
    BY <1>4, <1>5
  <1>7. h[w[0]] < n
    BY <1>1, <1>2, FewLevels
  <1>8. h[w[n - 1]] = 0
    BY <1>1, <1>2, <1>6, <1>7 DEF At
  <1>9. w[n - 1] \in Pids
    BY <1>1, <1>5
  <1> QED
    BY <1>8, <1>9, NodeAt

\* The search in an internal page without a slot ends at its first child.
LEMMA NoSlotFirstChild ==
    ASSUME NEW p, p.slots = << >>, NEW k
    PROVE  internal_find_child(p, k) = p.first_child_id
  <1>1. << >> \in Seq(Nat) /\ Len(<< >>) = 0
    BY EmptySeq
  <1>2. Rank(<< >>, k) \in 0..Len(<< >>)
    BY <1>1, RankType
  <1>3. Rank(p.slots, k) = 0
    BY <1>1, <1>2
  <1> QED
    BY <1>3 DEF internal_find_child

\* A lookup from an internal page without a slot ends where one from its first child does.
LEMMA SkipPage ==
    ASSUME NEW h, TypeOK, Shape(h), Unwritten = {}, NEW k, NEW a \in Pids,
           pages[a].type = "PAGE_INTERNAL", pages[a].slots = << >>,
           pages[a].first_child_id \in Pids
    PROVE  LeafFrom(pages, num_pages, a, k)
               = LeafFrom(pages, num_pages, pages[a].first_child_id, k)
  <1> DEFINE n == num_pages
             b == pages[a].first_child_id
  <1>1. n \in Nat \ {0} /\ StoreOK
    BY DEF TypeOK, StoreOK
  <1>2. PICK w \in [0..n -> Pids] :
            /\ LeafFrom(pages, n, a, k) = w[n]
            /\ w[0] = a
            /\ \A d \in 1..n : w[d] = NextPage(pages, w[d - 1], k)
    BY <1>1, WalkType
  <1>3. PICK v \in [0..n -> Pids] :
            /\ LeafFrom(pages, n, b, k) = v[n]
            /\ v[0] = b
            /\ \A d \in 1..n : v[d] = NextPage(pages, v[d - 1], k)
    BY <1>1, WalkType
  <1> DEFINE Bad == {d \in 1..n : w[d] # v[d - 1]}
  <1>4. w[1] = v[0]
    <2>1. 1 \in 1..n /\ 1 - 1 = 0
      BY <1>1
    <2>2. w[1] = NextPage(pages, a, k)
      BY <1>2, <2>1
    <2> QED
      BY <1>3, <2>2, NoSlotFirstChild DEF NextPage
  <1>5. ASSUME Bad # {} PROVE FALSE
    <2>1. Bad \in SUBSET Nat
      BY <1>1
    <2>2. PICK d \in Bad : \A e \in Bad : d <= e
      BY <1>5, <2>1, LeastNumber
    <2>3. d \in 1..n /\ w[d] # v[d - 1] /\ d # 1
      BY <1>1, <1>4, <2>2
    <2>4. d - 1 \in 1..n /\ ~(d <= d - 1)
      BY <1>1, <2>3
    <2>5. w[d - 1] = v[d - 1 - 1]
      BY <2>2, <2>4
    <2>6. w[d] = NextPage(pages, w[d - 1], k) /\ v[d - 1] = NextPage(pages, v[d - 1 - 1], k)
      BY <1>2, <1>3, <2>3, <2>4
    <2> QED
      BY <2>3, <2>5, <2>6
  <1>6. n \in 1..n
    BY <1>1
  <1>7. w[n] = v[n - 1]
    BY <1>5, <1>6
  <1>8. pages[v[n - 1]].type = "PAGE_LEAF"
    BY <1>3, WalkHeight
  <1>9. v[n] = NextPage(pages, v[n - 1], k)
    BY <1>3, <1>6
  <1> QED
    BY <1>2, <1>3, <1>7, <1>8, <1>9 DEF NextPage

\* The root in the header leads to the root of the tree: through pages above it that have
\* no slot, each of which was the root until a delete gave it up.
Leads(h, C) ==
    /\ C \subseteq Pids
    /\ saved_root \in C \cup {root_id}
    /\ \A c \in C :
           /\ h[c] > h[root_id]
           /\ pages[c].type = "PAGE_INTERNAL" /\ pages[c].slots = << >>
           /\ pages[c].first_child_id \in C \cup {root_id}

\* So a lookup from it ends at the same leaf.
LEMMA LeadsToLeaf ==
    ASSUME NEW h, TypeOK, Shape(h), Unwritten = {}, NEW C, Leads(h, C), NEW k
    PROVE  LeafFrom(pages, num_pages, saved_root, k) = LeafFrom(pages, num_pages, root_id, k)
  <1> DEFINE At(c) == LeafFrom(pages, num_pages, c, k)
             Bad == {c \in C : At(c) # At(root_id)}
             Heights == {h[c] : c \in Bad}
  <1>1. root_id \in Pids /\ C \subseteq Pids /\ \A c \in Pids : h[c] \in Nat
    BY DEF TypeOK, Shape, Leads
  <1> HIDE DEF At
  <1>2. ASSUME Heights # {} PROVE FALSE
    <2>1. Heights \in SUBSET Nat
      BY <1>1
    <2>2. PICK m \in Heights : \A e \in Heights : m <= e
      BY <1>2, <2>1, LeastNumber
    <2>3. PICK c \in Bad : m = h[c]
      BY <2>2
    <2> DEFINE b == pages[c].first_child_id
    <2>4. /\ c \in Pids /\ pages[c].type = "PAGE_INTERNAL" /\ pages[c].slots = << >>
          /\ b \in C \cup {root_id} /\ b \in Pids
      BY <1>1, <2>3 DEF Leads
    <2>5. At(c) = At(b)
      BY <2>4, SkipPage DEF At
    <2>6. h[c] \in Nat \ {0} /\ pages[c] \in Nodes(Pids, h, h[c])
      BY <2>4, NodeAt, NodeIsPage
    <2>7. h[b] = h[c] - 1
      BY <2>6 DEF Nodes
    <2> HIDE DEF b
    <2>8. b \notin Bad
      <3>1. ASSUME b \in Bad PROVE FALSE
        <4>1. h[b] \in Heights
          BY <3>1
        <4> QED
          BY <2>2, <2>3, <2>6, <2>7, <4>1
      <3> QED
        BY <3>1
    <2>9. At(b) = At(root_id)
      BY <2>4, <2>8
    <2> QED
      BY <2>3, <2>5, <2>9
  <1>3. Bad = {}
    BY <1>2
  <1>4. saved_root \in C \cup {root_id}
    BY DEF Leads
  <1>5. At(saved_root) = At(root_id)
    BY <1>3, <1>4
  <1> QED
    BY <1>5 DEF At

\* What a caller reads, from a root.
Reads(P, n, r, k) ==
    IF P[LeafFrom(P, n, r, k)].type = "PAGE_LEAF" THEN ValueIn(P[LeafFrom(P, n, r, k)], k)
    ELSE NoVal

LEMMA LookupReads == \A k \in Keys : Lookup(k) = Reads(pages, num_pages, root_id, k)
  BY LeafForIsLeafFrom DEF Lookup, Reads

\* The same holds in the next state.
LEMMA LookupReadsNext == (\A k \in Keys : Lookup(k) = Reads(pages, num_pages, root_id, k))'
  BY LookupReads, PTL

\* Without a write everything reads as before.
LEMMA SameLookup ==
    ASSUME UNCHANGED <<pages, num_pages, root_id>>
    PROVE  \A k \in Keys : Lookup(k)' = Lookup(k)
  <1>1. \A k \in Keys : Lookup(k)' = Reads(pages', num_pages', root_id', k)
    BY LookupReadsNext
  <1>2. pages' = pages /\ num_pages' = num_pages /\ root_id' = root_id
    OBVIOUS
  <1> QED
    BY <1>1, <1>2, LookupReads

-----------------------------------------------------------------------------
(***************************************************************************)
(* The header of the file while a delete rewrites the tree.                *)
(***************************************************************************)

\* What is above the root stays as it is.
SameAbove(h) ==
    \A c \in Pids :
        h[c] > h[root_id] =>
            /\ pages'[c].type = pages[c].type /\ pages'[c].slots = pages[c].slots
            /\ pages'[c].first_child_id = pages[c].first_child_id

\* Then the root in the header leads where it did.
LEMMA SameAboveLeads ==
    ASSUME NEW h, NEW C, Leads(h, C), SameAbove(h), UNCHANGED <<num_pages, root_id, saved_root>>
    PROVE  Leads(h, C)'
  <1>1. Pids' = Pids
    BY DEF Pids
  <1>2. ASSUME NEW c \in C
        PROVE  /\ h[c] > h[root_id']
               /\ pages'[c].type = "PAGE_INTERNAL" /\ pages'[c].slots = << >>
               /\ pages'[c].first_child_id \in C \cup {root_id'}
    BY DEF Leads, SameAbove
  <1> QED
    BY <1>1, <1>2 DEF Leads

\* A write to a page that is not above the root.
LEMMA WriteSameAbove ==
    ASSUME NEW h, TypeOK, NEW pid \in Pids, ~(h[pid] > h[root_id]), NEW p, WritePage(pid, p)
    PROVE  SameAbove(h)
  BY DEF SameAbove, WritePage, TypeOK

\* A write that changes a link of a page only.
LEMMA LinkSameAbove ==
    ASSUME NEW h, TypeOK, NEW pid \in Pids, NEW q,
           WritePage(pid, [pages[pid] EXCEPT !.parent_id = q])
             \/ WritePage(pid, [pages[pid] EXCEPT !.prev_id = q])
    PROVE  SameAbove(h)
  <1>1. pages[pid] \in Page(Pids)
    BY DEF TypeOK
  <1>2. ASSUME NEW p, /\ p.type = pages[pid].type /\ p.slots = pages[pid].slots
                      /\ p.first_child_id = pages[pid].first_child_id,
               WritePage(pid, p)
        PROVE  SameAbove(h)
    BY <1>2 DEF SameAbove, WritePage, TypeOK
  <1>3. CASE WritePage(pid, [pages[pid] EXCEPT !.parent_id = q])
    <2> DEFINE p == [pages[pid] EXCEPT !.parent_id = q]
    <2>1. /\ p.type = pages[pid].type /\ p.slots = pages[pid].slots
          /\ p.first_child_id = pages[pid].first_child_id
      BY <1>1 DEF Page
    <2>2. WritePage(pid, p)
      BY <1>3
    <2> HIDE DEF p
    <2> QED
      BY <1>2, <2>1, <2>2
  <1>4. CASE WritePage(pid, [pages[pid] EXCEPT !.prev_id = q])
    <2> DEFINE p == [pages[pid] EXCEPT !.prev_id = q]
    <2>1. /\ p.type = pages[pid].type /\ p.slots = pages[pid].slots
          /\ p.first_child_id = pages[pid].first_child_id
      BY <1>1 DEF Page
    <2>2. WritePage(pid, p)
      BY <1>4
    <2> HIDE DEF p
    <2> QED
      BY <1>2, <2>1, <2>2
  <1> QED
    BY <1>3, <1>4

\* No page of the path is above the root.
LEMMA PathBelowRoot ==
    ASSUME NEW h, TypeOK, Tall(h), pc \notin {"idle", "return", "shrink_write"},
           NEW j \in 1..Len(path)
    PROVE  path[j] \in Pids /\ ~(h[path[j]] > h[root_id])
  <1>1. Len(path) \in Nat \ {0} /\ \A i \in 1..Len(path) : path[i] \in Pids
    BY PathType DEF Tall
  <1>2. path[1] = root_id
    BY DEF Tall, Walked
  <1>3. path[j] \in Pids /\ root_id \in Pids /\ h[path[j]] \in Nat /\ h[root_id] \in Nat
    BY <1>1 DEF TypeOK, Tall, Shape
  <1>4. CASE j = 1
    BY <1>2, <1>3, <1>4
  <1>5. CASE j # 1
    <2>1. 1 \in 1..(j - 1)
      BY <1>1, <1>5
    <2>2. h[path[1]] > h[path[j]]
      BY <2>1, PathFalls DEF Tall
    <2> QED
      BY <1>2, <1>3, <2>2
  <1> QED
    BY <1>4, <1>5

\* The writes of a delete are at the root or below; a new root is below the old one, which
\* has no slot any more.
LEMMA DeleteLeads ==
    ASSUME NEW h, TypeOK, Tall(h), DeleteStep, NEW C, Leads(h, C), UNCHANGED saved_root
    PROVE  \E D : Leads(h, D)'
  <1>1. CASE DeleteMissing \/ RebalanceEnd \/ RebalanceNull \/ MergeStart
    <2>1. UNCHANGED <<pages, num_pages, root_id>>
      BY <1>1 DEF DeleteMissing, RebalanceEnd, RebalanceNull, MergeStart, store
    <2> QED
      BY <2>1, SameAboveLeads DEF SameAbove
  <1>2. CASE DeleteLeaf
    <2>1. /\ pc = "delete" /\ WritePage(Last(path), LeafWithoutKey)
          /\ UNCHANGED <<num_pages, root_id>>
      BY <1>2 DEF DeleteLeaf
    <2>2. Len(path) \in 1..Len(path) /\ Last(path) = path[Len(path)]
      BY <2>1, PathType DEF Tall
    <2>3. SameAbove(h)
      BY <2>1, <2>2, PathBelowRoot, WriteSameAbove
    <2> QED
      BY <2>1, <2>3, SameAboveLeads
  <1>3. CASE MergeFixNext
    <2> DEFINE next == pages[RightPid].next_id
    <2>1. /\ pc = "merge_next" /\ UNCHANGED <<num_pages, root_id>>
          /\ UNCHANGED pages \/ WritePage(next, [pages[next] EXCEPT !.prev_id = LeftPid])
      BY <1>3 DEF MergeFixNext
    <2>2. RightPid \in Pids
      BY <2>1, Siblings DEF Tall, Merges, Merging
    <2>3. next \in Pids
      BY <2>2 DEF TypeOK, Page
    <2> HIDE DEF next
    <2>4. SameAbove(h)
      <3>1. CASE UNCHANGED pages
        BY <3>1 DEF SameAbove
      <3>2. CASE WritePage(next, [pages[next] EXCEPT !.prev_id = LeftPid])
        BY <2>3, <3>2, LinkSameAbove
      <3> QED
        BY <2>1, <3>1, <3>2
    <2> QED
      BY <2>1, <2>4, SameAboveLeads
  <1>4. CASE MergeWriteLeft \/ MergeWriteParent
    <2>1. /\ pc \in Merging /\ pc \notin {"idle", "return", "shrink_write"}
          /\ UNCHANGED <<num_pages, root_id>>
          /\ \/ WritePage(LeftPid, buf)
             \/ WritePage(path[level - 1], page_remove_slot(Parent, LeftIndex))
      BY <1>4 DEF MergeWriteLeft, MergeWriteParent, locals, Merging
    <2>2. level > 1 /\ HasSibling
      BY <2>1 DEF Tall, Merges
    <2>3. level \in 2..Len(path) /\ Len(path) \in Nat
      BY <2>1, <2>2, RebalanceType
    <2>4. LeftPid \in Pids /\ h[LeftPid] = h[path[level]]
      BY <2>1, <2>2, Siblings
    <2>5. level \in 1..Len(path) /\ level - 1 \in 1..Len(path)
      BY <2>3
    <2>6. /\ ~(h[LeftPid] > h[root_id])
          /\ path[level - 1] \in Pids /\ ~(h[path[level - 1]] > h[root_id])
      BY <2>1, <2>4, <2>5, PathBelowRoot
    <2>7. SameAbove(h)
      BY <2>1, <2>4, <2>6, WriteSameAbove
    <2> QED
      BY <2>1, <2>7, SameAboveLeads
  <1>5. CASE ShrinkRoot
    <2> DEFINE b == pages[root_id].first_child_id
    <2>1. /\ pc = "rebalance" /\ UNCHANGED <<pages, num_pages>> /\ path[1] = root_id
          /\ \/ UNCHANGED root_id
             \/ /\ pages[root_id].type = "PAGE_INTERNAL" /\ pages[root_id].slots = << >>
                /\ root_id' = b
      BY <1>5 DEF ShrinkRoot, Tall, Walked
    <2>2. CASE UNCHANGED root_id
      BY <2>1, <2>2, SameAboveLeads DEF SameAbove
    <2>3. CASE /\ pages[root_id].type = "PAGE_INTERNAL" /\ pages[root_id].slots = << >>
               /\ root_id' = b
      <3>0. PICK D : D = C \cup {root_id}
        OBVIOUS
      <3> DEFINE n == h[root_id]
      <3>1. root_id \in Pids /\ Unwritten = {} /\ Pids' = Pids
        BY <2>1, NoneUnwritten DEF TypeOK, Pids
      <3>2. n \in Nat /\ pages[root_id] \in Nodes(Pids, h, n)
        BY <3>1, NodeAt DEF Tall
      <3> HIDE DEF n
      <3>3. n # 0 /\ b \in Pids /\ h[b] = n - 1
        BY <2>3, <3>2, NodeIsPage DEF Nodes
      <3> HIDE DEF b
      <3>4. n > h[b] /\ \A c \in C : h[c] \in Nat /\ h[c] > h[b]
        <4>1. \A c \in C : h[c] \in Nat /\ h[c] > n
          BY DEF Leads, Tall, Shape, n
        <4> QED
          BY <3>2, <3>3, <4>1
      <3>5. saved_root' \in D \cup {b} /\ D \subseteq Pids
        BY <3>0, <3>1 DEF Leads
      <3>6. ASSUME NEW c \in D
            PROVE  /\ h[c] > h[b] /\ pages[c].type = "PAGE_INTERNAL" /\ pages[c].slots = << >>
                   /\ pages[c].first_child_id \in D \cup {b}
        BY <2>3, <3>0, <3>4 DEF Leads, n, b
      <3>7. Leads(h, D)'
        BY <2>1, <2>3, <3>1, <3>5, <3>6 DEF Leads
      <3> QED
        BY <3>7
    <2> QED
      BY <2>1, <2>2, <2>3
  <1>6. CASE ShrinkWrite
    <2>1. /\ WritePage(root_id, [pages[root_id] EXCEPT !.parent_id = INVALID_PAGE_ID])
          /\ UNCHANGED <<num_pages, root_id>> /\ root_id \in Pids
      BY <1>6 DEF ShrinkWrite, TypeOK
    <2>2. SameAbove(h)
      BY <2>1, LinkSameAbove
    <2> QED
      BY <2>1, <2>2, SameAboveLeads
  <1> QED
    BY <1>1, <1>2, <1>3, <1>4, <1>5, <1>6 DEF DeleteStep

-----------------------------------------------------------------------------
(***************************************************************************)
(* Restarts between the calls.                                             *)
(***************************************************************************)

\* A put that has its answer succeeded; the upward loop belongs to a delete.
Answered ==
    /\ pc \in {"rebalance", "shrink_write"} \cup Merging => call.op = "delete"
    /\ pc = "return" /\ call.op = "put" => ret.status = "BTREE_OK"

\* Between two calls view is what can be read.
ViewIsMap == pc = "idle" => view = [k \in Keys |-> Lookup(k)]

\* But for a put, and until its root is saved, the header leads to the root.
Known ==
    pc # "undefined" /\ proc # "save" /\ (pc = "idle" \/ call.op # "put") =>
        \E h, C : Tall(h) /\ Leads(h, C)

RInv == CInv /\ Answered /\ ViewIsMap /\ Known

\* A put that no callback or malloc fails in returns BTREE_OK.
LEMMA StepAnswered ==
    ASSUME NEW h, NoPutFailed', TypeOK, Tall(h), Answered, Next
    PROVE  Answered'
  <1>1. CASE \E c \in Ops : Invoke(c)
    BY <1>1 DEF Invoke, Answered, Merging
  <1>2. CASE Descend
    <2>1. call.op \in {"get", "put", "delete"} /\ pc' \in {"descend", call.op}
      BY <1>2, OpsAssumption DEF Tall, Served, Descend
    <2> QED
      BY <2>1 DEF Answered, Merging
  <1>3. CASE GetLeaf
    BY <1>3 DEF GetLeaf, ReturnWith, Answered, Merging, Tall, Served
  <1>4. CASE Return
    BY <1>4 DEF Return, Answered, Merging
  <1>5. CASE IOError
    BY <1>5 DEF IOError, Fail, ReturnWith, NoPutFailed, TypeOK, Answered, Merging
  <1>6. CASE PutStep
    <2>1. CASE PlaceRecord
      BY <2>1 DEF PlaceRecord, Filling, Answered, Merging
    <2>2. CASE GarbageRead \/ OutOfMemory \/ CollectFailed
      BY <2>2, PutNeverFails
    <2>3. CASE PutInPlace \/ ParentInsert \/ NewRootWrite
      BY <2>3 DEF PutInPlace, ParentInsert, NewRootWrite, ReturnWith, OK, Answered, Merging
    <2>4. CASE PutSplit \/ SplitAlloc \/ SplitWriteLeft \/ SplitWriteRight \/ SplitFixNext
               \/ SplitFixPrev
      BY <2>4
      DEF PutSplit, SplitAlloc, SplitWriteLeft, SplitWriteRight, SplitFixNext, SplitFixPrev,
          Answered, Merging
    <2>5. CASE ParentSplit \/ ParentWriteLeft \/ ParentAlloc \/ ParentSetMedian
               \/ ParentWriteRight \/ NewRootAlloc \/ NewRootSetLeft \/ NewRootSetRight
      BY <2>5
      DEF ParentSplit, ParentWriteLeft, ParentAlloc, ParentSetMedian, ParentWriteRight,
          NewRootAlloc, NewRootSetLeft, NewRootSetRight, Answered, Merging
    <2>6. CASE PlaceChild
      BY <2>6 DEF PlaceChild, Answered, Merging
    <2> QED
      BY <1>6, <2>1, <2>2, <2>3, <2>4, <2>5, <2>6 DEF PutStep
  <1>7. CASE DeleteStep
    <2>1. /\ call' = call /\ call.op = "delete"
      BY <1>7
      DEF DeleteStep, DeleteMissing, DeleteLeaf, RebalanceEnd, RebalanceNull, MergeStart,
          MergeFixNext, MergeWriteLeft, MergeWriteParent, ShrinkRoot, ShrinkWrite,
          Answered, Merging, Tall, Served
    <2> QED
      BY <2>1 DEF Answered
  <1> QED
    BY <1>1, <1>2, <1>3, <1>4, <1>5, <1>6, <1>7 DEF Next, Step

\* A call ends with Return.
LEMMA ReturnsToIdle ==
    ASSUME NEW h, Tall(h), Next, pc' = "idle"
    PROVE  Return
  <1>1. CASE \E c \in Ops : Invoke(c)
    BY <1>1 DEF Invoke
  <1>2. CASE Descend
    <2>1. call.op \in {"get", "put", "delete"} /\ pc' \in {"descend", call.op}
      BY <1>2, OpsAssumption DEF Tall, Served, Descend
    <2> QED
      BY <2>1
  <1>3. CASE GetLeaf \/ IOError
    BY <1>3 DEF GetLeaf, IOError, ReturnWith
  <1>4. CASE PutStep
    <2>1. CASE PutInPlace \/ PutSplit \/ PlaceRecord \/ SplitAlloc \/ SplitWriteLeft
               \/ SplitWriteRight \/ SplitFixNext \/ SplitFixPrev \/ GarbageRead
      BY <2>1
      DEF PutInPlace, PutSplit, PlaceRecord, Filling, SplitAlloc, SplitWriteLeft,
          SplitWriteRight, SplitFixNext, SplitFixPrev, GarbageRead, ReturnWith
    <2>2. CASE ParentInsert \/ ParentSplit \/ ParentWriteLeft \/ ParentAlloc
               \/ ParentSetMedian \/ PlaceChild \/ ParentWriteRight
      BY <2>2
      DEF ParentInsert, ParentSplit, ParentWriteLeft, ParentAlloc, ParentSetMedian,
          PlaceChild, ParentWriteRight, ReturnWith
    <2>3. CASE NewRootAlloc \/ NewRootSetLeft \/ NewRootSetRight \/ NewRootWrite
               \/ OutOfMemory \/ CollectFailed
      BY <2>3
      DEF NewRootAlloc, NewRootSetLeft, NewRootSetRight, NewRootWrite, OutOfMemory,
          CollectFailed, ReturnWith
    <2> QED
      BY <1>4, <2>1, <2>2, <2>3 DEF PutStep
  <1>5. CASE DeleteStep
    BY <1>5
    DEF DeleteStep, DeleteMissing, DeleteLeaf, RebalanceEnd, RebalanceNull, MergeStart,
        MergeFixNext, MergeWriteLeft, MergeWriteParent, ShrinkRoot, ShrinkWrite, ReturnWith
  <1> QED
    BY <1>1, <1>2, <1>3, <1>4, <1>5 DEF Next, Step

\* What can be read only matters when the call has returned.
LEMMA StepViewIsMap ==
    ASSUME NEW h, Tall(h), Next
    PROVE  ViewIsMap'
  <1> SUFFICES ASSUME pc' = "idle" PROVE view' = [k \in Keys |-> Lookup(k)']
    BY DEF ViewIsMap
  <1>1. view' = [k \in Keys |-> Lookup(k)] /\ UNCHANGED <<pages, num_pages, root_id>>
    BY ReturnsToIdle DEF Return, store
  <1>2. \A k \in Keys : Lookup(k)' = Lookup(k)
    BY <1>1, SameLookup
  <1> QED
    BY <1>1, <1>2

\* A get or a delete, and its return, keep the header and the tree together.
LEMMA StepLeads ==
    ASSUME NEW h, NoPutFailed', TypeOK, Tall(h), NEW C, Leads(h, C), UNCHANGED saved_root,
           (\E c \in Ops : Invoke(c)) \/ (Step /\ call.op # "put"), pc' # "undefined"
    PROVE  \E D : Tall(h)' /\ Leads(h, D)'
  <1>1. ASSUME UNCHANGED <<pages, num_pages, root_id>>, Tall(h)'
        PROVE  \E D : Tall(h)' /\ Leads(h, D)'
    BY <1>1, SameAboveLeads DEF SameAbove
  <1>2. CASE \E c \in Ops : Invoke(c)
    BY <1>1, <1>2, StepInvoke DEF Invoke, store
  <1>3. CASE Descend
    BY <1>1, <1>3, StepDescend DEF Descend, store
  <1>4. CASE GetLeaf \/ IOError \/ Return
    BY <1>1, <1>4, StepAnswer, StepIOError, StepReturn DEF GetLeaf, IOError, Return, store
  <1>5. CASE PutStep /\ call.op # "put"
    <2>1. CASE PlaceRecord
      BY <1>1, <2>1, StepPlaceRecord DEF PlaceRecord, store
    <2>2. CASE GarbageRead \/ OutOfMemory \/ CollectFailed
      BY <2>2, PutNeverFails
    <2>3. CASE ~(PlaceRecord \/ GarbageRead \/ OutOfMemory \/ CollectFailed)
      <3>1. pc \in {"put", "propagate"} \cup LeafSplitting \cup ParentSplitting
                      \cup RootBuilding
        BY <1>5, <2>3
        DEF PutStep, PutInPlace, PutSplit, SplitAlloc, SplitWriteLeft, SplitWriteRight,
            SplitFixNext, SplitFixPrev, ParentInsert, ParentSplit, ParentWriteLeft,
            ParentAlloc, ParentSetMedian, PlaceChild, ParentWriteRight, NewRootAlloc,
            NewRootSetLeft, NewRootSetRight, NewRootWrite, LeafSplitting, ParentSplitting,
            RootBuilding
      <3> QED
        BY <1>5, <3>1, OfPut
    <2> QED
      BY <2>1, <2>2, <2>3
  <1>6. CASE DeleteStep
    <2>1. Tall(h)'
      <3>1. CASE DeleteMissing \/ DeleteLeaf \/ RebalanceEnd
        BY <3>1, StepAnswer, StepDeleteLeaf, StepRebalanceEnd
      <3>2. CASE RebalanceNull
        BY <3>2, StepRebalanceNull
      <3>3. CASE MergeStart \/ MergeFixNext \/ MergeWriteLeft \/ MergeWriteParent
        BY <3>3, StepMergeStart, StepMergeFixNext, StepMergeWriteLeft, StepMergeWriteParent
      <3>4. CASE ShrinkRoot \/ ShrinkWrite
        BY <3>4, StepShrinkRoot, StepShrinkWrite
      <3> QED
        BY <1>6, <3>1, <3>2, <3>3, <3>4 DEF DeleteStep
    <2> QED
      BY <1>6, <2>1, DeleteLeads
  <1> QED
    BY <1>2, <1>3, <1>4, <1>5, <1>6 DEF Step

\* Only Return ends a call.
LEMMA SameCall ==
    ASSUME Step, ~Return
    PROVE  call' = call
  <1>1. CASE Descend \/ GetLeaf \/ IOError
    BY <1>1 DEF Descend, GetLeaf, IOError
  <1>2. CASE PutStep
    <2>1. CASE PutInPlace \/ PutSplit \/ PlaceRecord \/ SplitAlloc \/ SplitWriteLeft
               \/ SplitWriteRight \/ SplitFixNext \/ SplitFixPrev \/ GarbageRead
      BY <2>1
      DEF PutInPlace, PutSplit, PlaceRecord, SplitAlloc, SplitWriteLeft, SplitWriteRight,
          SplitFixNext, SplitFixPrev, GarbageRead
    <2>2. CASE ParentInsert \/ ParentSplit \/ ParentWriteLeft \/ ParentAlloc
               \/ ParentSetMedian \/ PlaceChild \/ ParentWriteRight
      BY <2>2
      DEF ParentInsert, ParentSplit, ParentWriteLeft, ParentAlloc, ParentSetMedian, PlaceChild,
          ParentWriteRight
    <2>3. CASE NewRootAlloc \/ NewRootSetLeft \/ NewRootSetRight \/ NewRootWrite
               \/ OutOfMemory \/ CollectFailed
      BY <2>3
      DEF NewRootAlloc, NewRootSetLeft, NewRootSetRight, NewRootWrite, OutOfMemory,
          CollectFailed
    <2> QED
      BY <1>2, <2>1, <2>2, <2>3 DEF PutStep
  <1>3. CASE DeleteStep
    BY <1>3
    DEF DeleteStep, DeleteMissing, DeleteLeaf, RebalanceEnd, RebalanceNull, MergeStart,
        MergeFixNext, MergeWriteLeft, MergeWriteParent, ShrinkRoot, ShrinkWrite
  <1> QED
    BY <1>1, <1>2, <1>3 DEF Step

\* A root that is saved is known.
LEMMA SavedIsKnown ==
    ASSUME NEW h, Tall(h)', saved_root' = root_id'
    PROVE  Known'
  <1>1. Leads(h, {})'
    BY DEF Leads
  <1> QED
    BY <1>1 DEF Known

\* The invariant of a program that is killed between two calls only.
LEMMA RestartNextRInv ==
    ASSUME KillInCall = FALSE, NoPutFailed', RInv, [RestartNext]_restartVars
    PROVE  RInv'
  <1>1. CInv' /\ TypeOK
    BY RestartNextCInv DEF RInv, CInv, IInv
  <1>2. ASSUME UNCHANGED <<pages, num_pages, root_id, view>>, pc = "idle" \/ pc' # "idle"
        PROVE  ViewIsMap'
    BY <1>2, SameLookup DEF RInv, ViewIsMap
  <1>3. CASE UNCHANGED restartVars
    <2>1. UNCHANGED vars /\ UNCHANGED <<proc, saved_root>>
      BY <1>3 DEF restartVars
    <2>2. UNCHANGED <<pages, num_pages, root_id, view, pc, call, ret>>
      BY <2>1 DEF vars, store
    <2>3. Answered' /\ ViewIsMap'
      BY <1>2, <2>2 DEF RInv, Answered
    <2>4. Known'
      <3>1. \A h : Tall(h) => Tall(h)'
        BY <1>1, <2>1, SameVarsTall
      <3>2. \A h, C : Leads(h, C) => Leads(h, C)'
        BY <2>1, <2>2, SameAboveLeads DEF SameAbove
      <3> QED
        BY <2>1, <2>2, <3>1, <3>2 DEF RInv, Known
    <2> QED
      BY <1>1, <2>3, <2>4 DEF RInv
  <1>4. CASE CallStep
    <2>1. /\ Step /\ Next /\ proc = "up" /\ saved_root' = saved_root
          /\ pc = "return" /\ call.op # "get" /\ ret.status = "BTREE_OK" => proc' = "save"
      BY <1>4 DEF CallStep, Next
    <2>2. pc # "undefined"
      BY <1>1, <2>1, UndefinedStops
    <2>3. PICK h : Tall(h)
      BY <2>2 DEF RInv, CInv, IInv
    <2>4. Answered' /\ ViewIsMap'
      BY <1>1, <2>1, <2>3, StepAnswered, StepViewIsMap DEF RInv
    <2>5. ASSUME pc' # "undefined", proc' # "save", pc' = "idle" \/ call'.op # "put"
          PROVE  \E g, C : Tall(g)' /\ Leads(g, C)'
      <3>1. call.op # "put"
        <4>1. ASSUME call.op = "put" PROVE FALSE
          <5>1. Return
            BY <2>1, <2>3, <2>5, <4>1, SameCall, ReturnsToIdle
          <5>2. pc = "return" /\ ret.status = "BTREE_OK"
            BY <4>1, <5>1 DEF Return, RInv, Answered
          <5> QED
            BY <2>1, <2>5, <4>1, <5>2
        <4> QED
          BY <4>1
      <3>2. PICK g, C : Tall(g) /\ Leads(g, C)
        BY <2>1, <2>2, <3>1 DEF RInv, Known
      <3> QED
        BY <1>1, <2>1, <2>5, <3>1, <3>2, StepLeads
    <2>6. Known'
      BY <2>5 DEF Known
    <2> QED
      BY <1>1, <2>4, <2>6 DEF RInv
  <1>5. CASE StartCall
    <2>1. PICK c \in Ops : Invoke(c)
      BY <1>5 DEF StartCall
    <2>2. /\ pc = "idle" /\ pc' = "descend" /\ proc = "up" /\ saved_root' = saved_root /\ Next
      BY <1>5, <2>1 DEF StartCall, Invoke, Next
    <2>3. PICK h, C : Tall(h) /\ Leads(h, C)
      BY <2>2 DEF RInv, Known
    <2>4. Answered' /\ ViewIsMap'
      BY <1>1, <2>2, <2>3, StepAnswered, StepViewIsMap DEF RInv
    <2>5. \E D : Tall(h)' /\ Leads(h, D)'
      BY <1>1, <2>1, <2>2, <2>3, StepLeads
    <2> QED
      BY <1>1, <2>4, <2>5 DEF RInv, Known
  <1>6. CASE SaveRoot \/ lb_destroy
    <2>1. /\ UNCHANGED vars /\ saved_root' = root_id /\ pc = "idle"
      BY <1>6 DEF SaveRoot, lb_destroy, RInv, CInv, Idle
    <2>2. UNCHANGED <<pages, num_pages, root_id, view, pc, call, ret>>
      BY <2>1 DEF vars, store
    <2>3. PICK h : Tall(h)
      BY <2>1 DEF RInv, CInv, IInv
    <2>4. Tall(h)'
      BY <1>1, <2>1, <2>3, SameVarsTall
    <2>5. Known' /\ Answered' /\ ViewIsMap'
      BY <1>2, <2>1, <2>2, <2>4, SavedIsKnown DEF RInv, Answered
    <2> QED
      BY <1>1, <2>5 DEF RInv
  <1>7. CASE Kill
    <2>1. /\ proc = "up" /\ pc = "idle" /\ pc' = "idle"
          /\ UNCHANGED <<pages, num_pages, root_id, view, saved_root>>
      BY <1>7 DEF Kill, Idle, store
    <2>2. PICK h, C : Tall(h) /\ Leads(h, C)
      BY <2>1 DEF RInv, Known
    <2>3. Unwritten = {}
      BY <2>1, NoneUnwritten
    <2>4. Shape(h)'
      BY <1>1, <2>1, <2>2, <2>3, NoWriteKeepsShape DEF Tall
    <2>5. Tall(h)' /\ Leads(h, C)'
      BY <2>1, <2>2, <2>4, IdleIsTall, SameAboveLeads DEF SameAbove
    <2>6. Answered' /\ ViewIsMap'
      BY <1>2, <2>1 DEF Answered, Merging
    <2> QED
      BY <1>1, <2>5, <2>6 DEF RInv, Known
  <1>8. CASE btree_open
    <2>1. /\ proc = "down" /\ pc = "idle" /\ pc' = "idle" /\ saved_root' = root_id'
          /\ view' = [k \in Keys |-> Lookup(k)']
      BY <1>8 DEF btree_open, RInv, CInv
    <2>2. PICK h : Tall(h)
      BY <2>1 DEF RInv, CInv, IInv
    <2>3. Tall(h)'
      BY <1>1, <1>8, <2>1, <2>2, OpenKeepsTall DEF Tall, RInv, CInv
    <2>4. Known' /\ Answered' /\ ViewIsMap'
      BY <2>1, <2>3, SavedIsKnown DEF Answered, ViewIsMap, Merging
    <2> QED
      BY <1>1, <2>4 DEF RInv
  <1> QED
    BY <1>3, <1>4, <1>5, <1>6, <1>7, <1>8 DEF RestartNext

\* Nothing can be read from a new tree.
LEMMA InitViewIsMap ==
    ASSUME Init
    PROVE  ViewIsMap
  <1>1. pages[0] = page_init("PAGE_LEAF") /\ view = [k \in Keys |-> NoVal]
        /\ Pids = {0} /\ StoreOK
    BY InitIInv DEF Init, Pids, IInv, TypeOK, StoreOK
  <1>2. ASSUME NEW k \in Keys PROVE Lookup(k) = NoVal
    <2>1. LeafFor(k) = 0
      BY <1>1, LeafForType
    <2>2. ~HasKey(page_init("PAGE_LEAF"), k)
      <3>1. page_init("PAGE_LEAF").slots = << >>
        BY DEF page_init
      <3>2. DOMAIN << >> = {}
        BY EmptySeq
      <3> QED
        BY <3>1, <3>2 DEF HasKey
    <2> QED
      BY <1>1, <2>1, <2>2 DEF Lookup, ValueIn
  <1> QED
    BY <1>1, <1>2 DEF ViewIsMap

\* A file that is closed, or whose process is killed between two calls, opens with the map
\* that could be read before, also when a delete failed after it had replaced the root in
\* memory and had not saved it (ReopenKeepsMap): for any tree and any number of restarts,
\* provided that no callback and no malloc fails in a put.
THEOREM ReopenAlwaysKeepsMap ==
    ASSUME KillInCall = FALSE, "put" \notin FaultyOps
    PROVE  RestartSpec => ReopenKeepsMap
  <1>1. RestartInit => RInv
    <2> SUFFICES ASSUME RestartInit PROVE RInv
      OBVIOUS
    <2>1. Init /\ proc = "up" /\ saved_root = root_id /\ pc = "idle"
      BY DEF RestartInit, Init
    <2>2. IInv /\ ViewIsMap
      BY <2>1, InitIInv, InitViewIsMap
    <2>3. CInv
      BY <2>1, <2>2 DEF CInv, IInv, TypeOK, Fresh, Unwritten, RootBuilding
    <2>4. PICK h : Tall(h)
      BY <2>1, <2>2 DEF IInv
    <2>5. Leads(h, {})
      BY <2>1 DEF Leads
    <2> QED
      BY <2>1, <2>2, <2>3, <2>4, <2>5 DEF RInv, Answered, Known, Merging
  <1>2. RInv /\ [RestartNext]_restartVars => RInv'
    BY RestartNextRInv DEF NoPutFailed
  <1>3. RInv /\ btree_open => view' = view
    <2> SUFFICES ASSUME RInv, btree_open PROVE view' = view
      OBVIOUS
    <2>1. /\ proc = "down" /\ pc = "idle" /\ root_id' = saved_root /\ TypeOK
          /\ UNCHANGED <<pages, num_pages>>
          /\ view' = [k \in Keys |-> Lookup(k)']
      BY DEF btree_open, RInv, CInv, IInv
    <2>2. PICK h, C : Tall(h) /\ Leads(h, C)
      BY <2>1 DEF RInv, Known
    <2>3. Unwritten = {}
      BY <2>1, NoneUnwritten
    <2>4. ASSUME NEW k \in Keys PROVE Lookup(k)' = Lookup(k)
      <3>1. LeafFrom(pages, num_pages, saved_root, k) = LeafFrom(pages, num_pages, root_id, k)
        BY <2>1, <2>2, <2>3, LeadsToLeaf DEF Tall
      <3>2. Reads(pages, num_pages, saved_root, k) = Reads(pages, num_pages, root_id, k)
        BY <3>1 DEF Reads
      <3>3. Lookup(k)' = Reads(pages', num_pages', root_id', k)
        BY LookupReadsNext
      <3> QED
        BY <2>1, <3>2, <3>3, LookupReads
    <2>5. view = [k \in Keys |-> Lookup(k)]
      BY <2>1 DEF RInv, ViewIsMap
    <2> QED
      BY <2>1, <2>4, <2>5
  <1> QED
    BY <1>1, <1>2, <1>3, PTL DEF RestartSpec, ReopenKeepsMap
=============================================================================
