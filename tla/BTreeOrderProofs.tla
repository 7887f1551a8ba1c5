------------------------- MODULE BTreeOrderProofs -------------------------
(***************************************************************************)
(* Proofs about the order of the keys in the tree of BTree, for any keys,  *)
(* values and number of pages, and any record lengths that fit in a page,  *)
(* as long as nothing fails.                                               *)
(*                                                                         *)
(* That the slots of a page stay sorted is no property of the page alone:  *)
(* the separator that a split sends up has to fit between the slots of the *)
(* parent, and the records of two nodes that are merged have to follow one *)
(* another.  Both follow from the tree being a search tree.  The first     *)
(* part is about search trees as such: nodes with records and links,       *)
(* whatever the pages are like.  The second part says which search tree    *)
(* the pages are at each step of a call, also where a split or a merge is  *)
(* half-way through its writes, and that every step keeps it.              *)
(*                                                                         *)
(* A merge of internal nodes forgets the first child of the right one, so  *)
(* a tree may lose a part.  No lemma here says that keys are kept: the     *)
(* bounds K of a tree say where a key may be, not that it is there.        *)
(***************************************************************************)
EXTENDS BTreeProofs

-----------------------------------------------------------------------------
(***************************************************************************)
(* Search trees.                                                           *)
(***************************************************************************)

\* A page without the order of its slots, and what leads from it to other pages: low holds
\* the separator of a child, and nothing for the first one.
NodeOf(p) == [type |-> p.type, recs |-> ToSet(p.slots), first |-> p.first_child_id]

Links(n) ==
    IF n.type = "PAGE_LEAF" THEN {}
    ELSE {[low |-> {}, child |-> n.first]}
             \cup {[low |-> {t.key}, child |-> t.child] : t \in n.recs}

\* A lookup of k among the records T takes the child with separator low.
Within(T, low, k) ==
    /\ \A x \in low : x <= k
    /\ \A t \in T : (\A x \in low : x < t.key) => k < t.key

\* The keys of a part of the tree go to it, and no part hangs from two places.
Holds(N, A, K) == \A p \in A : \A t \in N[p].recs : t.key \in K[p]

Routes(N, A, K, r) ==
    \A p \in A : \A l \in Links(N[p]) :
        /\ l.child \in A \ {r}
        /\ K[l.child] \subseteq K[p]
        /\ \A k \in K[l.child] : Within(N[p].recs, l.low, k)

Unshared(N, A) ==
    \A p, q \in A : \A l \in Links(N[p]), m \in Links(N[q]) :
        l.child = m.child => p = q /\ l = m

\* The nodes N of A are a search tree with root r, and parts that have come loose: K bounds
\* the keys that are at a node or below it.
Tree(N, A, K, r) ==
    /\ r \in A /\ K \in [A -> SUBSET Int]
    /\ Holds(N, A, K) /\ Routes(N, A, K, r) /\ Unshared(N, A)

OneKeyEach(T) == \A t, u \in T : t.key = u.key => t = u

Loose(N, A, n) == \A p \in A : \A l \in Links(N[p]) : l.child # n

\* The records matter only at the nodes of the tree.
LEMMA SameTree ==
    ASSUME NEW N, NEW A, NEW K, NEW r, Tree(N, A, K, r), NEW M, \A q \in A : M[q] = N[q]
    PROVE  Tree(M, A, K, r)
  BY DEF Tree, Holds, Routes, Unshared

\* Nodes without some of their records.
LEMMA FewerRecs ==
    ASSUME NEW N, NEW A, NEW K, NEW r, Tree(N, A, K, r), NEW M,
           \A q \in A : /\ M[q].type = N[q].type /\ M[q].first = N[q].first
                        /\ M[q].recs \subseteq N[q].recs
    PROVE  Tree(M, A, K, r)
  <1>1. \A q \in A : Links(M[q]) \subseteq Links(N[q])
    BY DEF Links
  <1>2. Holds(M, A, K)
    BY DEF Tree, Holds
  <1>3. Routes(M, A, K, r)
    BY <1>1 DEF Tree, Routes, Within
  <1>4. Unshared(M, A)
    <2>1. ASSUME NEW p \in A, NEW q \in A, NEW l \in Links(M[p]), NEW m \in Links(M[q]),
                 l.child = m.child
          PROVE  p = q /\ l = m
      <3>1. l \in Links(N[p]) /\ m \in Links(N[q])
        BY <1>1
      <3> QED
        BY <2>1, <3>1 DEF Tree, Unshared
    <2> QED
      BY <2>1 DEF Unshared
  <1>5. r \in A /\ K \in [A -> SUBSET Int]
    BY DEF Tree
  <1> QED
    BY <1>2, <1>3, <1>4, <1>5 DEF Tree

\* A leaf with other records.
LEMMA LeafRecs ==
    ASSUME NEW N, NEW A, NEW K, NEW r, Tree(N, A, K, r), NEW M, NEW p \in A,
           N[p].type = "PAGE_LEAF", M[p].type = "PAGE_LEAF",
           \A t \in M[p].recs : t.key \in K[p],
           \A q \in A \ {p} : M[q] = N[q]
    PROVE  Tree(M, A, K, r)
  <1>1. \A q \in A : Links(M[q]) = Links(N[q])
    BY DEF Links
  <1>2. Links(M[p]) = {}
    BY DEF Links
  <1>3. Holds(M, A, K)
    BY DEF Tree, Holds
  <1>4. Routes(M, A, K, r)
    BY <1>1, <1>2 DEF Tree, Routes
  <1>5. Unshared(M, A)
    BY <1>1 DEF Tree, Unshared
  <1> QED
    BY <1>3, <1>4, <1>5 DEF Tree

\* A key more may be at the root or below.
LEMMA RootKey ==
    ASSUME NEW N, NEW A, NEW K, NEW r, Tree(N, A, K, r), NEW k \in Int
    PROVE  Tree(N, A, [K EXCEPT ![r] = K[r] \cup {k}], r)
  <1> DEFINE J == [K EXCEPT ![r] = K[r] \cup {k}]
  <1>1. J \in [A -> SUBSET Int] /\ J[r] = K[r] \cup {k} /\ \A q \in A \ {r} : J[q] = K[q]
    BY DEF Tree
  <1> HIDE DEF J
  <1>2. Holds(N, A, J)
    BY <1>1 DEF Tree, Holds
  <1>3. Routes(N, A, J, r)
    BY <1>1 DEF Tree, Routes
  <1>4. Tree(N, A, J, r)
    BY <1>1, <1>2, <1>3 DEF Tree
  <1> QED
    BY <1>4 DEF J

\* A key that belongs to a link may be below its child.
LEMMA ChildKey ==
    ASSUME NEW N, NEW A, NEW K, NEW r, Tree(N, A, K, r), NEW p \in A, NEW l \in Links(N[p]),
           NEW k \in K[p], Within(N[p].recs, l.low, k), l.child # p
    PROVE  Tree(N, A, [K EXCEPT ![l.child] = K[l.child] \cup {k}], r)
  <1> DEFINE c == l.child
             J == [K EXCEPT ![c] = K[c] \cup {k}]
  <1>1. c \in A \ {r} /\ K[p] \subseteq Int
    BY DEF Tree, Routes
  <1>2. J \in [A -> SUBSET Int] /\ J[c] = K[c] \cup {k} /\ \A q \in A \ {c} : J[q] = K[q]
    BY <1>1 DEF Tree
  <1> HIDE DEF J
  <1>3. Holds(N, A, J)
    BY <1>2 DEF Tree, Holds
  <1>4. ASSUME NEW q \in A, NEW m \in Links(N[q])
        PROVE  /\ m.child \in A \ {r}
               /\ J[m.child] \subseteq J[q]
               /\ \A x \in J[m.child] : Within(N[q].recs, m.low, x)
    <2>1. /\ m.child \in A \ {r} /\ K[m.child] \subseteq K[q]
          /\ \A x \in K[m.child] : Within(N[q].recs, m.low, x)
      BY DEF Tree, Routes
    <2>2. CASE m.child = c
      <3>1. q = p /\ m = l
        BY <2>2 DEF Tree, Unshared
      <3> QED
        BY <1>2, <2>1, <3>1
    <2>3. CASE m.child # c
      <3>1. J[m.child] = K[m.child] /\ K[q] \subseteq J[q]
        BY <1>2, <2>1, <2>3
      <3> QED
        BY <2>1, <3>1
    <2> QED
      BY <2>2, <2>3
  <1>5. Routes(N, A, J, r)
    BY <1>4 DEF Routes
  <1>6. Tree(N, A, J, r)
    BY <1>2, <1>3, <1>5 DEF Tree
  <1> QED
    BY <1>6 DEF J

-----------------------------------------------------------------------------
(***************************************************************************)
(* A node is cut in two, and the separator goes to the node above.         *)
(***************************************************************************)

\* Where separator e is to go: right of c, with a node that hangs nowhere yet.
Raised(N, A, K, r, c, e) ==
    /\ e.child \in A \ {r} /\ Loose(N, A, e.child)
    /\ c \in A /\ c # e.child
    /\ \A k \in K[c] : k < e.key
    /\ \A k \in K[e.child] : e.key <= k

Strictly(T, low, k) ==
    /\ \A x \in low : x < k
    /\ \A t \in T : (\A x \in low : x < t.key) => k < t.key

FitsAbove(N, A, K, p, c, e) ==
    /\ K[e.child] \subseteq K[p] /\ e.key \in K[p]
    /\ \A l \in Links(N[p]) : l.child = c =>
           /\ Strictly(N[p].recs, l.low, e.key)
           /\ \A k \in K[e.child] : Within(N[p].recs, l.low, k)

\* The separator in the node above.
LEMMA InsertSep ==
    ASSUME NEW N, NEW A, NEW K, NEW r, Tree(N, A, K, r), NEW p \in A, NEW l \in Links(N[p]),
           NEW e, e.key \in Int, Raised(N, A, K, r, l.child, e),
           FitsAbove(N, A, K, p, l.child, e),
           OneKeyEach(N[p].recs), \A t \in N[p].recs : t.key \in Int,
           N[p].type # "PAGE_LEAF",
           NEW M, \A q \in A \ {p} : M[q] = N[q],
           M[p].type = N[p].type, M[p].first = N[p].first, M[p].recs = N[p].recs \cup {e}
    PROVE  Tree(M, A, K, r)
  <1> DEFINE n == e.child
             c == l.child
             T == N[p].recs
             new == [low |-> {e.key}, child |-> n]
  <1>1. Links(M[p]) = Links(N[p]) \cup {new}
    BY DEF Links
  <1>2. \A q \in A \ {p} : Links(M[q]) = Links(N[q])
    OBVIOUS
  <1>3. Holds(M, A, K)
    BY DEF Tree, Holds, FitsAbove
  <1>4. \A m \in Links(N[p]) : m.low = {} \/ \E t \in T : m.low = {t.key} /\ m.child = t.child
    BY DEF Links
  <1>5. Strictly(T, l.low, e.key) /\ \A k \in K[n] : Within(T, l.low, k)
    BY DEF FitsAbove
  <1>6. /\ \A k \in K[c] : k < e.key
        /\ \A k \in K[n] : e.key <= k
        /\ n \in A \ {r} /\ c # n
    BY DEF Raised
  <1>7. \A q \in A : K[q] \subseteq Int
    BY DEF Tree
  <1>8. ASSUME NEW m \in Links(N[p]), NEW k \in K[m.child] PROVE Within(M[p].recs, m.low, k)
    <2>1. Within(T, m.low, k) /\ m.child \in A
      BY DEF Tree, Routes
    <2>2. k \in Int
      BY <1>7, <2>1
    <2>3. ASSUME \A x \in m.low : x < e.key PROVE k < e.key
      <3>1. CASE m = l
        BY <1>6, <3>1
      <3>2. CASE m # l
        <4>1. m.low # l.low
          <5>1. CASE m.low = {}
            <6>1. \A x \in Links(N[p]) :
                      x.low = {} => x = [low |-> {}, child |-> N[p].first]
              <7>1. ASSUME NEW x \in Links(N[p]), x.low = {}
                    PROVE  x = [low |-> {}, child |-> N[p].first]
                <8>1. \A t \in T : x # [low |-> {t.key}, child |-> t.child]
                  BY <7>1
                <8> QED
                  BY <8>1 DEF Links
              <7> QED
                BY <7>1
            <6> QED
              BY <3>2, <5>1, <6>1
          <5>2. CASE m.low # {}
            <6>1. PICK t \in T : m = [low |-> {t.key}, child |-> t.child]
              BY <5>2 DEF Links
            <6>2. ASSUME l.low = {t.key} PROVE FALSE
              <7>1. PICK u \in T : l = [low |-> {u.key}, child |-> u.child]
                BY <6>2 DEF Links
              <7>2. u = t
                BY <6>2, <7>1 DEF OneKeyEach
              <7> QED
                BY <3>2, <6>1, <7>1, <7>2
            <6> QED
              BY <6>1, <6>2
          <5> QED
            BY <5>1, <5>2
        <4>2. CASE l.low = {}
          <5>1. PICK t \in T : m.low = {t.key}
            BY <1>4, <4>1, <4>2
          <5>2. e.key < t.key
            BY <1>5, <4>2 DEF Strictly
          <5>3. t.key < e.key
            BY <2>3, <5>1
          <5> QED
            BY <5>2, <5>3
        <4>3. CASE l.low # {}
          <5>1. PICK t \in T : l.low = {t.key}
            BY <1>4, <4>3
          <5>2. t.key < e.key /\ t.key \in Int
            BY <1>5, <5>1 DEF Strictly
          <5>3. CASE \A x \in m.low : x < t.key
            <6>1. k < t.key
              BY <2>1, <5>3 DEF Within
            <6> QED
              BY <2>2, <5>2, <6>1
          <5>4. CASE ~(\A x \in m.low : x < t.key)
            <6>1. PICK u \in T : m.low = {u.key} /\ ~(u.key < t.key)
              BY <1>4, <5>4
            <6>2. u.key \in Int /\ u.key # t.key
              BY <4>1, <5>1, <6>1
            <6>3. t.key < u.key
              BY <5>2, <6>1, <6>2
            <6>4. e.key < u.key
              BY <1>5, <5>1, <6>3 DEF Strictly
            <6>5. u.key < e.key
              BY <2>3, <6>1
            <6> QED
              BY <6>2, <6>4, <6>5
          <5> QED
            BY <5>3, <5>4
        <4> QED
          BY <4>2, <4>3
      <3> QED
        BY <3>1, <3>2
    <2> QED
      BY <2>1, <2>3 DEF Within
  <1>9. ASSUME NEW k \in K[n] PROVE Within(M[p].recs, new.low, k)
    <2>1. e.key <= k /\ k \in Int
      BY <1>6, <1>7
    <2>2. ASSUME NEW t \in T, e.key < t.key PROVE k < t.key
      <3>1. \A x \in l.low : x < t.key
        <4>1. \A x \in l.low : x < e.key /\ x \in Int
          BY <1>4, <1>5 DEF Strictly
        <4> QED
          BY <2>2, <4>1
      <3> QED
        BY <1>5, <3>1 DEF Within
    <2> QED
      BY <2>1, <2>2 DEF Within
  <1>10. Routes(M, A, K, r)
    <2>1. ASSUME NEW m \in Links(M[p])
          PROVE  /\ m.child \in A \ {r} /\ K[m.child] \subseteq K[p]
                 /\ \A k \in K[m.child] : Within(M[p].recs, m.low, k)
      <3>1. CASE m = new
        BY <1>6, <1>9, <3>1 DEF FitsAbove
      <3>2. CASE m # new
        <4>1. m \in Links(N[p])
          BY <1>1, <3>2
        <4> QED
          BY <1>8, <4>1 DEF Tree, Routes
      <3> QED
        BY <3>1, <3>2
    <2> HIDE DEF new
    <2>2. ASSUME NEW q \in A \ {p}, NEW m \in Links(M[q])
          PROVE  /\ m.child \in A \ {r} /\ K[m.child] \subseteq K[q]
                 /\ \A k \in K[m.child] : Within(M[q].recs, m.low, k)
      BY <1>2, <2>2 DEF Tree, Routes
    <2> QED
      BY <2>1, <2>2 DEF Routes
  <1>11. Unshared(M, A)
    <2>1. \A q \in A : \A m \in Links(M[q]) :
              \/ q = p /\ m = new
              \/ m \in Links(N[q]) /\ m.child # n
      BY <1>1, <1>2 DEF Raised, Loose
    <2>2. new.child = n
      OBVIOUS
    <2> HIDE DEF new
    <2> QED
      BY <2>1, <2>2 DEF Tree, Unshared
  <1> QED
    BY <1>3, <1>10, <1>11 DEF Tree

\* A node is cut at a key that is above another one below it.
LEMMA CutNode ==
    ASSUME NEW N, NEW A, NEW K, NEW r, Tree(N, A, K, r), NEW p \in A, NEW n, n \notin A,
           NEW key \in K[p], \E k \in K[p] : k < key,
           NEW M, \A q \in A \ {p} : M[q] = N[q],
           M[p].type = N[p].type, M[p].first = N[p].first, M[n].type = N[p].type,
           M[p].recs \subseteq N[p].recs, M[n].recs \subseteq N[p].recs,
           \A t \in M[p].recs : t.key < key,
           \A t \in M[n].recs : key <= t.key,
           M[n].type # "PAGE_LEAF" =>
               /\ \A t \in M[n].recs : key < t.key
               /\ \E t \in N[p].recs : t.key = key /\ t.child = M[n].first,
           \A t \in N[p].recs : t.key \in Int,
           \A l \in Links(N[p]) : l.child # p
    PROVE  \E J :
              LET e == [key |-> key, child |-> n]
              IN  /\ Tree(M, A \cup {n}, J, r)
                  /\ Raised(M, A \cup {n}, J, r, p, e)
                  /\ \A g \in A : (\E l \in Links(N[g]) : l.child = p)
                                     => FitsAbove(M, A \cup {n}, J, g, p, e)
  <1> DEFINE B == A \cup {n}
             J == [q \in B |-> IF q = p THEN {k \in K[p] : k < key}
                               ELSE IF q = n THEN {k \in K[p] : key <= k} ELSE K[q]]
             e == [key |-> key, child |-> n]
  <1>1. \A q \in A : K[q] \subseteq Int
    BY DEF Tree
  <1>2. /\ J \in [B -> SUBSET Int] /\ p # n
        /\ J[p] = {k \in K[p] : k < key} /\ J[n] = {k \in K[p] : key <= k}
        /\ \A q \in A \ {p} : J[q] = K[q]
    BY <1>1
  <1> HIDE DEF J
  <1>3. key \in Int
    BY <1>1
  <1>4. Holds(M, B, J)
    <2>1. \A t \in N[p].recs : t.key \in K[p]
      BY DEF Tree, Holds
    <2>2. \A q \in A \ {p} : \A t \in M[q].recs : t.key \in J[q]
      BY <1>2 DEF Tree, Holds
    <2>3. \A t \in M[p].recs : t.key \in J[p]
      BY <1>2, <2>1
    <2>4. \A t \in M[n].recs : t.key \in J[n]
      BY <1>2, <2>1
    <2> QED
      BY <2>2, <2>3, <2>4 DEF Holds
  <1>5. \A q \in A \ {p} : Links(M[q]) = Links(N[q])
    OBVIOUS
  <1>6. Links(M[p]) \subseteq Links(N[p])
    BY DEF Links
  <1>7. \A l \in Links(M[p]) : l.low = {} \/ \E t \in M[p].recs : l.low = {t.key}
    BY DEF Links
  <1>8. \A l \in Links(M[n]) :
            \/ /\ l.low = {}
               /\ [low |-> {key}, child |-> l.child] \in Links(N[p])
            \/ /\ l \in Links(N[p])
               /\ \E t \in M[n].recs : l.low = {t.key}
    BY DEF Links
  <1>9. \A l \in Links(N[p]) :
            /\ l.child \in A \ {r, p, n} /\ K[l.child] \subseteq K[p]
            /\ \A k \in K[l.child] : Within(N[p].recs, l.low, k)
    BY DEF Tree, Routes
  <1>10. ASSUME NEW l \in Links(M[p])
         PROVE  /\ l.child \in B \ {r} /\ J[l.child] \subseteq J[p]
                /\ \A k \in J[l.child] : Within(M[p].recs, l.low, k)
    <2>1. /\ l.child \in A \ {r, p, n} /\ K[l.child] \subseteq K[p]
          /\ \A k \in K[l.child] : Within(N[p].recs, l.low, k)
      BY <1>6, <1>9
    <2>2. J[l.child] = K[l.child]
      BY <1>2, <2>1
    <2>3. ASSUME NEW k \in K[l.child] PROVE k < key
      <3>1. M[p].type # "PAGE_LEAF"
        BY DEF Links
      <3>2. PICK t \in N[p].recs : t.key = key
        BY <3>1
      <3>3. \A x \in l.low : x < key
        BY <1>7
      <3> QED
        BY <2>1, <3>2, <3>3 DEF Within
    <2>4. J[l.child] \subseteq J[p]
      BY <1>2, <2>1, <2>2, <2>3
    <2> QED
      BY <2>1, <2>2, <2>4 DEF Within
  <1>11. ASSUME NEW l \in Links(M[n])
         PROVE  /\ l.child \in B \ {r} /\ J[l.child] \subseteq J[n]
                /\ \A k \in J[l.child] : Within(M[n].recs, l.low, k)
    <2>0. M[n].type # "PAGE_LEAF"
      BY DEF Links
    <2>1. CASE l.low = {} /\ [low |-> {key}, child |-> l.child] \in Links(N[p])
      <3> DEFINE m == [low |-> {key}, child |-> l.child]
      <3>1. m \in Links(N[p]) /\ m.low = {key} /\ m.child = l.child
        BY <2>1
      <3> HIDE DEF m
      <3>2. /\ l.child \in A \ {r, p, n} /\ K[l.child] \subseteq K[p]
            /\ \A k \in K[l.child] : Within(N[p].recs, {key}, k)
        BY <1>9, <3>1
      <3>3. J[l.child] = K[l.child]
        BY <1>2, <3>2
      <3>4. ASSUME NEW k \in K[l.child] PROVE key <= k /\ Within(M[n].recs, l.low, k)
        BY <2>0, <2>1, <3>2 DEF Within
      <3> QED
        BY <1>2, <3>2, <3>3, <3>4
    <2>2. CASE l \in Links(N[p]) /\ \E t \in M[n].recs : l.low = {t.key}
      <3>1. /\ l.child \in A \ {r, p, n} /\ K[l.child] \subseteq K[p]
            /\ \A k \in K[l.child] : Within(N[p].recs, l.low, k)
        BY <1>9, <2>2
      <3>2. J[l.child] = K[l.child]
        BY <1>2, <3>1
      <3>3. PICK t \in M[n].recs : l.low = {t.key}
        BY <2>2
      <3>4. key < t.key /\ t.key \in Int
        BY <2>0
      <3>5. ASSUME NEW k \in K[l.child] PROVE key <= k /\ Within(M[n].recs, l.low, k)
        <4>1. k \in Int /\ t.key <= k
          BY <1>1, <3>1, <3>3 DEF Within
        <4> QED
          BY <1>3, <3>1, <3>4, <4>1 DEF Within
      <3> QED
        BY <1>2, <3>1, <3>2, <3>5
    <2> QED
      BY <1>8, <2>1, <2>2
  <1>12. ASSUME NEW q \in A \ {p}, NEW l \in Links(M[q])
         PROVE  /\ l.child \in B \ {r} /\ J[l.child] \subseteq J[q]
                /\ \A k \in J[l.child] : Within(M[q].recs, l.low, k)
    <2>1. /\ l.child \in A \ {r} /\ K[l.child] \subseteq K[q]
          /\ \A k \in K[l.child] : Within(N[q].recs, l.low, k)
      BY <1>5 DEF Tree, Routes
    <2>2. J[l.child] \subseteq K[l.child]
      BY <1>2, <2>1
    <2> QED
      BY <1>2, <2>1, <2>2
  <1>13. Routes(M, B, J, r)
    BY <1>10, <1>11, <1>12 DEF Routes
  <1>14. ASSUME NEW q \in B, NEW l \in Links(M[q])
         PROVE  \E o \in A : \E m \in Links(N[o]) :
                    /\ m.child = l.child
                    /\ \/ q # n /\ o = q /\ m = l
                       \/ q = n /\ o = p /\ m = l /\ \E t \in M[n].recs : l.low = {t.key}
                       \/ q = n /\ o = p /\ l.low = {} /\ m = [low |-> {key}, child |-> l.child]
    <2>1. CASE q # n
      BY <1>5, <1>6, <2>1
    <2>2. CASE q = n
      <3>1. CASE l.low = {} /\ [low |-> {key}, child |-> l.child] \in Links(N[p])
        BY <2>2, <3>1
      <3>2. CASE l \in Links(N[p]) /\ \E t \in M[n].recs : l.low = {t.key}
        BY <2>2, <3>2
      <3> QED
        BY <1>8, <2>2, <3>1, <3>2
    <2> QED
      BY <2>1, <2>2
  <1>15. ASSUME NEW q \in A, NEW l \in Links(M[q]), NEW t \in M[n].recs, l.low = {t.key},
                M[n].type # "PAGE_LEAF"
         PROVE  q # p
    <2>1. ASSUME q = p PROVE FALSE
      <3>1. PICK u \in M[p].recs : l.low = {u.key}
        BY <1>7, <1>15, <2>1
      <3>2. u.key = t.key /\ u.key < key /\ key < t.key
        BY <1>15, <3>1
      <3>3. u.key \in Int
        OBVIOUS
      <3> QED
        BY <1>3, <3>2, <3>3
    <2> QED
      BY <2>1
  <1>16. \A l \in Links(M[p]) : l.low # {key}
    <2>1. ASSUME NEW l \in Links(M[p]), l.low = {key} PROVE FALSE
      <3>1. PICK u \in M[p].recs : l.low = {u.key}
        BY <1>7, <2>1
      <3>2. u.key = key /\ u.key < key
        BY <2>1, <3>1
      <3> QED
        BY <1>3, <3>2
    <2> QED
      BY <2>1
  <1>17. \A l \in Links(M[n]) : l.low # {key}
    <2>1. ASSUME NEW l \in Links(M[n]), l.low = {key} PROVE FALSE
      <3>1. M[n].type # "PAGE_LEAF"
        BY DEF Links
      <3>2. PICK u \in M[n].recs : l.low = {u.key}
        BY <1>8, <2>1
      <3>3. u.key = key /\ key < u.key
        BY <2>1, <3>1, <3>2
      <3> QED
        BY <1>3, <3>3
    <2> QED
      BY <2>1
  <1>18. Unshared(M, B)
    <2> SUFFICES ASSUME NEW q1 \in B, NEW q2 \in B, NEW l1 \in Links(M[q1]),
                        NEW l2 \in Links(M[q2]), l1.child = l2.child
                 PROVE  q1 = q2 /\ l1 = l2
      BY DEF Unshared
    <2>1. PICK o1 \in A : \E m1 \in Links(N[o1]) :
              /\ m1.child = l1.child
              /\ \/ q1 # n /\ o1 = q1 /\ m1 = l1
                 \/ q1 = n /\ o1 = p /\ m1 = l1 /\ \E t \in M[n].recs : l1.low = {t.key}
                 \/ q1 = n /\ o1 = p /\ l1.low = {} /\ m1 = [low |-> {key}, child |-> l1.child]
      BY <1>14
    <2>11. PICK m1 \in Links(N[o1]) :
              /\ m1.child = l1.child
              /\ \/ q1 # n /\ o1 = q1 /\ m1 = l1
                 \/ q1 = n /\ o1 = p /\ m1 = l1 /\ \E t \in M[n].recs : l1.low = {t.key}
                 \/ q1 = n /\ o1 = p /\ l1.low = {} /\ m1 = [low |-> {key}, child |-> l1.child]
      BY <2>1
    <2>2. PICK o2 \in A : \E m2 \in Links(N[o2]) :
              /\ m2.child = l2.child
              /\ \/ q2 # n /\ o2 = q2 /\ m2 = l2
                 \/ q2 = n /\ o2 = p /\ m2 = l2 /\ \E t \in M[n].recs : l2.low = {t.key}
                 \/ q2 = n /\ o2 = p /\ l2.low = {} /\ m2 = [low |-> {key}, child |-> l2.child]
      BY <1>14
    <2>22. PICK m2 \in Links(N[o2]) :
              /\ m2.child = l2.child
              /\ \/ q2 # n /\ o2 = q2 /\ m2 = l2
                 \/ q2 = n /\ o2 = p /\ m2 = l2 /\ \E t \in M[n].recs : l2.low = {t.key}
                 \/ q2 = n /\ o2 = p /\ l2.low = {} /\ m2 = [low |-> {key}, child |-> l2.child]
      BY <2>2
    <2>3. o1 = o2 /\ m1 = m2
      BY <2>11, <2>22 DEF Tree, Unshared
    <2>4. \A l \in Links(M[n]) : M[n].type # "PAGE_LEAF"
      BY DEF Links
    <2>5. \A q \in B : \A l \in Links(M[q]) : l = [low |-> l.low, child |-> l.child]
      BY DEF Links
    <2>6. CASE q1 # n /\ q2 # n
      BY <2>11, <2>22, <2>3, <2>6
    <2>7. CASE q1 # n /\ q2 = n
      <3>1. q1 = p /\ m1 = l1
        BY <2>11, <2>22, <2>3, <2>7
      <3>2. CASE m2 = l2 /\ \E t \in M[n].recs : l2.low = {t.key}
        BY <1>15, <2>3, <2>4, <2>7, <3>1, <3>2
      <3>3. CASE m2.low = {key}
        BY <1>16, <2>3, <3>1, <3>3
      <3> QED
        BY <2>22, <2>7, <3>2, <3>3
    <2>8. CASE q1 = n /\ q2 # n
      <3>1. q2 = p /\ m2 = l2
        BY <2>11, <2>22, <2>3, <2>8
      <3>2. CASE m1 = l1 /\ \E t \in M[n].recs : l1.low = {t.key}
        BY <1>15, <2>3, <2>4, <2>8, <3>1, <3>2
      <3>3. CASE m1.low = {key}
        BY <1>16, <2>3, <3>1, <3>3
      <3> QED
        BY <2>11, <2>8, <3>2, <3>3
    <2>9. CASE q1 = n /\ q2 = n
      <3>1. CASE m1 = l1
        <4>1. m2.low # {key}
          BY <1>17, <2>3, <2>9, <3>1
        <4> QED
          BY <2>22, <2>3, <2>9, <3>1, <4>1
      <3>2. CASE l1.low = {} /\ m1.low = {key}
        <4>1. m2 # l2
          BY <1>17, <2>3, <2>9, <3>2
        <4>2. l2.low = {}
          BY <2>22, <2>9, <4>1
        <4> QED
          BY <2>5, <2>9, <3>2, <4>2
      <3> QED
        BY <2>11, <2>9, <3>1, <3>2
    <2> QED
      BY <2>6, <2>7, <2>8, <2>9
  <1>19. Tree(M, B, J, r)
    BY <1>2, <1>4, <1>13, <1>18 DEF Tree
  <1>20. Raised(M, B, J, r, p, e)
    <2>1. Loose(M, B, n)
      <3>1. \A q \in B : \A l \in Links(M[q]) : l.child \in A
        BY <1>14 DEF Tree, Routes
      <3> QED
        BY <3>1 DEF Loose
    <2>2. n # r /\ e.child = n /\ e.key = key
      BY DEF Tree
    <2> HIDE DEF e
    <2> QED
      BY <1>2, <2>1, <2>2 DEF Raised
  <1>21. ASSUME NEW g \in A, NEW l0 \in Links(N[g]), l0.child = p
         PROVE  FitsAbove(M, B, J, g, p, e)
    <2>0. g # p
      BY <1>21
    <2>1. J[n] \subseteq K[p] /\ K[p] \subseteq K[g] /\ J[g] = K[g]
      BY <1>2, <1>21, <2>0 DEF Tree, Routes
    <2>2. ASSUME NEW l \in Links(M[g]), l.child = p
          PROVE  Strictly(M[g].recs, l.low, key) /\ \A k \in J[n] : Within(M[g].recs, l.low, k)
      <3>1. \A k \in K[p] : Within(M[g].recs, l.low, k)
        BY <1>5, <2>0, <2>2 DEF Tree, Routes
      <3>2. PICK k \in K[p] : k < key
        OBVIOUS
      <3>3. \A x \in l.low : x \in Int
        <4>1. \A t \in N[g].recs : t.key \in Int
          BY <1>1 DEF Tree, Holds
        <4> QED
          BY <2>0, <2>2, <4>1 DEF Links
      <3>4. \A x \in l.low : x < key
        BY <1>1, <1>3, <3>1, <3>2, <3>3 DEF Within
      <3> QED
        BY <2>1, <3>1, <3>4 DEF Within, Strictly
    <2>3. e.child = n /\ e.key = key
      OBVIOUS
    <2> HIDE DEF e
    <2> QED
      BY <2>1, <2>2, <2>3 DEF FitsAbove
  <1> QED
    BY <1>19, <1>20, <1>21

\* A new root above the old one and the node that was raised.
LEMMA NewRootTree ==
    ASSUME NEW N, NEW A, NEW K, NEW r, Tree(N, A, K, r), NEW e, e.key \in Int,
           Raised(N, A, K, r, r, e), NEW n, n \notin A,
           NEW M, \A q \in A : M[q] = N[q],
           M[n].type # "PAGE_LEAF", M[n].first = r, M[n].recs \subseteq {e}
    PROVE  \E J : Tree(M, A \cup {n}, J, n)
  <1> DEFINE B == A \cup {n}
             J == [q \in B |-> IF q = n THEN K[r] \cup K[e.child] \cup {e.key} ELSE K[q]]
  <1>1. /\ e.child \in A \ {r} /\ Loose(N, A, e.child) /\ r \in A
        /\ \A k \in K[r] : k < e.key
        /\ \A k \in K[e.child] : e.key <= k
    BY DEF Raised
  <1>2. \A q \in A : K[q] \subseteq Int
    BY DEF Tree
  <1>3. /\ J \in [B -> SUBSET Int] /\ J[n] = K[r] \cup K[e.child] \cup {e.key}
        /\ \A q \in A : J[q] = K[q]
    BY <1>1, <1>2
  <1> HIDE DEF J
  <1>4. \A q \in A : Links(M[q]) = Links(N[q])
    OBVIOUS
  <1>5. \A l \in Links(M[n]) :
            \/ l = [low |-> {}, child |-> r]
            \/ l = [low |-> {e.key}, child |-> e.child]
    BY DEF Links
  <1>6. Holds(M, B, J)
    BY <1>3 DEF Tree, Holds
  <1>7. ASSUME NEW l \in Links(M[n])
        PROVE  /\ l.child \in B \ {n} /\ J[l.child] \subseteq J[n]
               /\ \A k \in J[l.child] : Within(M[n].recs, l.low, k)
    <2>1. CASE l = [low |-> {}, child |-> r]
      BY <1>1, <1>3, <2>1 DEF Within
    <2>2. CASE l = [low |-> {e.key}, child |-> e.child]
      BY <1>1, <1>3, <2>2 DEF Within
    <2> QED
      BY <1>5, <2>1, <2>2
  <1>8. ASSUME NEW q \in A, NEW l \in Links(M[q])
        PROVE  /\ l.child \in B \ {n} /\ l.child \notin {r, e.child} /\ J[l.child] \subseteq J[q]
               /\ \A k \in J[l.child] : Within(M[q].recs, l.low, k)
    <2>1. l \in Links(N[q])
      BY <1>4
    <2>2. /\ l.child \in A \ {r} /\ K[l.child] \subseteq K[q]
          /\ \A k \in K[l.child] : Within(N[q].recs, l.low, k)
      BY <2>1 DEF Tree, Routes
    <2> QED
      BY <1>1, <1>3, <2>1, <2>2 DEF Loose
  <1>9. Routes(M, B, J, n)
    BY <1>7, <1>8 DEF Routes
  <1>10. \A q1, q2 \in A : \A l \in Links(M[q1]), m \in Links(M[q2]) :
             l.child = m.child => q1 = q2 /\ l = m
    BY <1>4 DEF Tree, Unshared
  <1>11. \A l, m \in Links(M[n]) : l.child = m.child => l = m
    BY <1>1, <1>5
  <1>12. \A l \in Links(M[n]) : l.child \in {r, e.child}
    BY <1>5
  <1>13. Unshared(M, B)
    BY <1>8, <1>10, <1>11, <1>12 DEF Unshared
  <1> QED
    BY <1>3, <1>6, <1>9, <1>13 DEF Tree

\* The first child of the root becomes the root.
LEMMA DropRootTree ==
    ASSUME NEW N, NEW A, NEW K, NEW r, Tree(N, A, K, r), N[r].type # "PAGE_LEAF"
    PROVE  \E J : Tree(N, A \ {r}, J, N[r].first)
  <1> DEFINE B == A \ {r}
             c == N[r].first
             l0 == [low |-> {}, child |-> c]
             J == [q \in B |-> K[q]]
  <1>1. J \in [B -> SUBSET Int] /\ \A q \in B : J[q] = K[q]
    BY DEF Tree
  <1> HIDE DEF J
  <1>2. l0 \in Links(N[r]) /\ l0.child = c
    BY DEF Links
  <1> HIDE DEF l0
  <1>3. r \in A /\ c \in B
    BY <1>2 DEF Tree, Routes
  <1>4. Holds(N, B, J)
    BY <1>1 DEF Tree, Holds
  <1>5. ASSUME NEW q \in B, NEW l \in Links(N[q])
        PROVE  /\ l.child \in B \ {c} /\ J[l.child] \subseteq J[q]
               /\ \A k \in J[l.child] : Within(N[q].recs, l.low, k)
    <2>1. l.child # c
      BY <1>2, <1>3 DEF Tree, Unshared
    <2> QED
      BY <1>1, <2>1 DEF Tree, Routes
  <1>6. Routes(N, B, J, c)
    BY <1>5 DEF Routes
  <1>7. Unshared(N, B)
    BY DEF Tree, Unshared
  <1>8. Tree(N, B, J, c)
    BY <1>1, <1>3, <1>4, <1>6, <1>7 DEF Tree
  <1> QED
    BY <1>8

\* Two neighbours become one.
LEMMA MergeNodes ==
    ASSUME NEW N, NEW A, NEW K, NEW r, Tree(N, A, K, r), NEW p \in A,
           NEW l \in Links(N[p]), NEW s \in N[p].recs, N[p].type # "PAGE_LEAF",
           \A x \in l.low : x < s.key,
           \A t \in N[p].recs : (\A x \in l.low : x < t.key) => t = s \/ s.key < t.key,
           OneKeyEach(N[p].recs), \A t \in N[p].recs : t.key \in Int,
           p # l.child, p # s.child, N[s.child].type = N[l.child].type,
           NEW M, \A q \in A \ {p, l.child} : M[q] = N[q],
           M[p].type = N[p].type, M[p].first = N[p].first, M[p].recs = N[p].recs \ {s},
           M[l.child].type = N[l.child].type, M[l.child].first = N[l.child].first,
           M[l.child].recs \subseteq N[l.child].recs \cup N[s.child].recs
    PROVE  \E J : Tree(M, A \ {s.child}, J, r)
  <1> DEFINE a == l.child
             c == s.child
             ls == [low |-> {s.key}, child |-> c]
             B == A \ {c}
             J == [q \in B |-> IF q = a THEN K[a] \cup K[c] ELSE K[q]]
  <1>1. ls \in Links(N[p]) /\ ls.low = {s.key} /\ ls.child = c
    BY DEF Links
  <1>2. l # ls
    <2>1. s.key \in Int
      OBVIOUS
    <2>2. s.key \notin l.low
      BY <2>1
    <2> QED
      BY <1>1, <2>2
  <1> HIDE DEF ls
  <1>3. a # c /\ a \in A \ {r} /\ c \in A \ {r}
    BY <1>1, <1>2 DEF Tree, Routes, Unshared
  <1>4. \A q \in A : K[q] \subseteq Int
    BY DEF Tree
  <1>5. /\ J \in [B -> SUBSET Int] /\ J[a] = K[a] \cup K[c]
        /\ \A q \in B \ {a} : J[q] = K[q]
    BY <1>3, <1>4
  <1> HIDE DEF J
  <1>6. /\ \A k \in K[a] : Within(N[p].recs, l.low, k) /\ k < s.key
        /\ \A k \in K[c] : Within(N[p].recs, {s.key}, k) /\ s.key <= k
        /\ K[a] \subseteq K[p] /\ K[c] \subseteq K[p]
    BY <1>1 DEF Tree, Routes, Within
  <1>7. \A q \in A : \A t \in N[q].recs : t.key \in K[q]
    BY DEF Tree, Holds
  <1>8. Holds(M, B, J)
    <2>1. \A t \in M[a].recs : t.key \in J[a]
      BY <1>3, <1>5, <1>7
    <2>2. \A t \in M[p].recs : t.key \in J[p]
      BY <1>5, <1>7
    <2>3. \A q \in B \ {p, a} : \A t \in M[q].recs : t.key \in J[q]
      BY <1>5, <1>7
    <2> QED
      BY <2>1, <2>2, <2>3 DEF Holds
  <1>9. \A m \in Links(M[a]) :
            \/ m \in Links(N[a])
            \/ m \in Links(N[c]) /\ \E t \in N[c].recs : m.low = {t.key}
    BY DEF Links
  <1>10. \A m \in Links(N[a]) : m.low = {} \/ \E t \in N[a].recs : m.low = {t.key}
    BY DEF Links
  <1>11. Links(M[p]) \subseteq Links(N[p]) \ {ls}
    <2>1. ASSUME NEW m \in Links(M[p]) PROVE m \in Links(N[p]) /\ m # ls
      <3>1. CASE m.low = {}
        BY <1>1, <3>1 DEF Links
      <3>2. CASE m.low # {}
        <4>1. PICK t \in M[p].recs : m = [low |-> {t.key}, child |-> t.child]
          BY <3>2 DEF Links
        <4>2. t \in N[p].recs /\ t # s
          BY <4>1
        <4>3. t.key # s.key
          BY <4>2 DEF OneKeyEach
        <4>4. m # ls
          <5>1. m.low = {t.key}
            BY <4>1
          <5> QED
            BY <1>1, <4>3, <5>1
        <4>5. m \in Links(N[p])
          BY <4>1, <4>2 DEF Links
        <4> QED
          BY <4>4, <4>5
      <3> QED
        BY <3>1, <3>2
    <2> QED
      BY <2>1
  <1>12. \A q \in B \ {p, a} : Links(M[q]) = Links(N[q])
    OBVIOUS
  <1>13. \A q \in A : \A m \in Links(N[q]) :
             /\ m.child \in A \ {r} /\ K[m.child] \subseteq K[q]
             /\ \A k \in K[m.child] : Within(N[q].recs, m.low, k)
    BY DEF Tree, Routes
  <1>14. \A q \in A : \A m \in Links(N[q]) : m.child = c => q = p /\ m = ls
    BY <1>1 DEF Tree, Unshared
  <1>15. \A q \in A : \A m \in Links(N[q]) : m.child = a => q = p /\ m = l
    BY DEF Tree, Unshared
  <1>16. ASSUME NEW m \in Links(M[a])
         PROVE  /\ m.child \in B \ {r} /\ J[m.child] \subseteq J[a]
                /\ \A k \in J[m.child] : Within(M[a].recs, m.low, k)
    <2>1. PICK o \in {a, c} : m \in Links(N[o])
      BY <1>9
    <2>2. /\ m.child \in A \ {r} /\ K[m.child] \subseteq K[o]
          /\ \A k \in K[m.child] : Within(N[o].recs, m.low, k)
      BY <1>3, <1>13, <2>1
    <2>3. m.child \in B /\ J[m.child] = K[m.child]
      BY <1>3, <1>5, <1>14, <1>15, <2>1, <2>2
    <2>4. ASSUME NEW k \in K[m.child] PROVE Within(M[a].recs, m.low, k)
      <3>1. k \in Int
        BY <1>4, <2>2
      <3>2. CASE m \in Links(N[a])
        <4>1. k \in K[a] /\ Within(N[a].recs, m.low, k)
          BY <1>3, <1>13, <2>4, <3>2
        <4>2. ASSUME NEW t \in N[c].recs PROVE k < t.key
          <5>1. t.key \in K[c] /\ t.key \in Int
            BY <1>3, <1>4, <1>7
          <5>2. k < s.key /\ s.key <= t.key
            BY <1>6, <4>1, <5>1
          <5> QED
            BY <3>1, <5>1, <5>2
        <4> QED
          BY <4>1, <4>2 DEF Within
      <3>3. CASE m \in Links(N[c]) /\ \E t \in N[c].recs : m.low = {t.key}
        <4>1. PICK u \in N[c].recs : m.low = {u.key}
          BY <3>3
        <4>2. Within(N[c].recs, m.low, k)
          BY <1>3, <1>13, <2>4, <3>3
        <4>3. s.key <= u.key /\ u.key \in Int
          BY <1>3, <1>4, <1>6, <1>7
        <4>4. ASSUME NEW t \in N[a].recs PROVE ~(u.key < t.key)
          <5>1. t.key \in K[a] /\ t.key \in Int
            BY <1>3, <1>4, <1>7
          <5>2. t.key < s.key
            BY <1>6, <5>1
          <5> QED
            BY <4>3, <5>1, <5>2
        <4> QED
          BY <4>1, <4>2, <4>4 DEF Within
      <3> QED
        BY <1>9, <3>2, <3>3
    <2> QED
      BY <1>5, <2>1, <2>2, <2>3, <2>4
  <1>17. ASSUME NEW m \in Links(M[p])
         PROVE  /\ m.child \in B \ {r} /\ J[m.child] \subseteq J[p]
                /\ \A k \in J[m.child] : Within(M[p].recs, m.low, k)
    <2>1. m \in Links(N[p]) /\ m # ls
      BY <1>11
    <2>2. /\ m.child \in B \ {r} /\ K[m.child] \subseteq K[p]
          /\ \A k \in K[m.child] : Within(M[p].recs, m.low, k)
      BY <1>13, <1>14, <2>1 DEF Within
    <2>3. CASE m.child # a
      BY <1>5, <2>2, <2>3
    <2>4. CASE m.child = a
      <3>1. m = l
        BY <1>15, <2>1, <2>4
      <3>2. ASSUME NEW k \in K[c] PROVE Within(M[p].recs, l.low, k)
        <4>1. k \in Int /\ s.key <= k /\ Within(N[p].recs, {s.key}, k) /\ s.key \in Int
          BY <1>3, <1>4, <1>6
        <4>2. \A x \in l.low : x \in Int
          BY DEF Links
        <4>3. ASSUME NEW t \in M[p].recs, \A x \in l.low : x < t.key PROVE k < t.key
          <5>1. s.key < t.key
            BY <4>3
          <5> QED
            BY <4>1, <5>1 DEF Within
        <4> QED
          BY <4>1, <4>2, <4>3 DEF Within
      <3> QED
        BY <1>5, <1>6, <2>2, <2>4, <3>1, <3>2
    <2> QED
      BY <2>3, <2>4
  <1>18. ASSUME NEW q \in B \ {p, a}, NEW m \in Links(M[q])
         PROVE  /\ m.child \in B \ {r} /\ J[m.child] \subseteq J[q]
                /\ \A k \in J[m.child] : Within(M[q].recs, m.low, k)
    <2>1. m \in Links(N[q]) /\ m.child # a /\ m.child # c
      BY <1>12, <1>14, <1>15
    <2>2. /\ m.child \in A \ {r} /\ K[m.child] \subseteq K[q]
          /\ \A k \in K[m.child] : Within(N[q].recs, m.low, k)
      BY <1>13, <2>1
    <2> QED
      BY <1>5, <2>1, <2>2
  <1>19. Routes(M, B, J, r)
    BY <1>16, <1>17, <1>18 DEF Routes
  <1>20. \A q \in B : \A m \in Links(M[q]) :
             \E o \in A : /\ m \in Links(N[o])
                          /\ o = q \/ (q = a /\ o = c)
    BY <1>3, <1>9, <1>11, <1>12
  <1>21. Unshared(M, B)
    <2> SUFFICES ASSUME NEW q1 \in B, NEW q2 \in B, NEW m1 \in Links(M[q1]),
                        NEW m2 \in Links(M[q2]), m1.child = m2.child
                 PROVE  q1 = q2 /\ m1 = m2
      BY DEF Unshared
    <2>1. PICK o1 \in A : m1 \in Links(N[o1]) /\ (o1 = q1 \/ (q1 = a /\ o1 = c))
      BY <1>20
    <2>2. PICK o2 \in A : m2 \in Links(N[o2]) /\ (o2 = q2 \/ (q2 = a /\ o2 = c))
      BY <1>20
    <2>3. o1 = o2 /\ m1 = m2
      BY <2>1, <2>2 DEF Tree, Unshared
    <2> QED
      BY <2>1, <2>2, <2>3
  <1>22. Tree(M, B, J, r)
    BY <1>3, <1>5, <1>8, <1>19, <1>21 DEF Tree
  <1> QED
    BY <1>22

-----------------------------------------------------------------------------
(***************************************************************************)
(* Sequences of records in the order of their keys.                        *)
(***************************************************************************)

Ordered(s) == \A i, j \in DOMAIN s : i < j => s[i].key < s[j].key

Before(S, T) == \A a \in S, b \in T : a.key < b.key

\* Sequences of records with a key.
Keyed(s, R) == s \in Seq(R) /\ \A x \in R : x.key \in Int

\* A search in ordered slots finds the last one whose key is not greater.
LEMMA OrderedRank ==
    ASSUME NEW R, NEW s, Keyed(s, R), Ordered(s), NEW k \in Int
    PROVE  \A i \in 1..Len(s) : s[i].key <= k <=> i <= Rank(s, k)
  <1> DEFINE n == Len(s)
             Low == {i \in DOMAIN s : s[i].key <= k}
             High == {j \in 1..(n + 1) : j \notin Low}
  <1>1. n \in Nat /\ DOMAIN s = 1..n /\ \A i \in 1..n : s[i].key \in Int
    BY LenProperties, ElementOfSeq DEF Keyed
  <1>2. n + 1 \in High /\ High \in SUBSET Nat
    BY <1>1
  <1>3. PICK m \in High : \A j \in High : m <= j
    BY <1>2, LeastNumber
  <1>4. m \in 1..(n + 1)
    OBVIOUS
  <1>5. ASSUME NEW i \in 1..n PROVE s[i].key <= k <=> i < m
    <2>1. CASE i < m
      <3>1. i \notin High
        BY <1>1, <1>3, <1>4, <2>1
      <3> QED
        BY <1>1, <2>1, <3>1
    <2>2. CASE ~(i < m)
      <3>1. m \in 1..n
        BY <1>1, <1>4, <2>2
      <3>2. m \notin Low /\ k < s[m].key
        BY <1>1, <3>1
      <3>3. s[m].key <= s[i].key
        <4>1. m = i \/ m < i
          BY <2>2, <3>1
        <4> QED
          BY <1>1, <3>1, <4>1 DEF Ordered
      <3> QED
        BY <1>1, <2>2, <3>1, <3>2, <3>3
    <2> QED
      BY <2>1, <2>2
  <1>6. Low = 1..(m - 1)
    BY <1>1, <1>4, <1>5
  <1>7. Cardinality(1..(m - 1)) = m - 1
    BY <1>4, FS_Interval
  <1>8. Rank(s, k) = m - 1
    BY <1>6, <1>7 DEF Rank
  <1> QED
    BY <1>1, <1>4, <1>5, <1>8

\* Concatenations.
LEMMA OrderedConcat ==
    ASSUME NEW R, NEW s \in Seq(R), NEW t \in Seq(R)
    PROVE  /\ ToSet(s \o t) = ToSet(s) \cup ToSet(t)
           /\ Ordered(s) /\ Ordered(t) /\ Before(ToSet(s), ToSet(t)) => Ordered(s \o t)
  <1> DEFINE n == Len(s)
             m == Len(t)
             u == s \o t
  <1>1. /\ n \in Nat /\ m \in Nat /\ DOMAIN s = 1..n /\ DOMAIN t = 1..m
        /\ DOMAIN u = 1..(n + m)
        /\ \A i \in 1..n : u[i] = s[i]
        /\ \A i \in (n + 1)..(n + m) : u[i] = t[i - n]
    BY LenProperties, ConcatProperties
  <1> HIDE DEF u, n, m
  <1>2. \A i \in 1..m : i + n \in (n + 1)..(n + m) /\ u[i + n] = t[i]
    BY <1>1
  <1>3. \A i \in 1..(n + m) : i \in 1..n \/ (i \in (n + 1)..(n + m) /\ i - n \in 1..m)
    BY <1>1
  <1>4. ToSet(u) \subseteq ToSet(s) \cup ToSet(t)
    BY <1>1, <1>3 DEF ToSet
  <1>5. ToSet(s) \subseteq ToSet(u)
    <2>1. \A i \in 1..n : i \in 1..(n + m)
      BY <1>1
    <2> QED
      BY <1>1, <2>1 DEF ToSet
  <1>6. ToSet(t) \subseteq ToSet(u)
    <2>1. ASSUME NEW i \in 1..m PROVE t[i] \in ToSet(u)
      <3>1. i + n \in DOMAIN u /\ u[i + n] = t[i]
        BY <1>1, <1>2
      <3> QED
        BY <3>1 DEF ToSet
    <2> QED
      BY <1>1, <2>1 DEF ToSet
  <1>7. ASSUME Ordered(s), Ordered(t), Before(ToSet(s), ToSet(t)),
               NEW i \in 1..(n + m), NEW j \in 1..(n + m), i < j
        PROVE  u[i].key < u[j].key
    <2>1. CASE i \in 1..n /\ j \in 1..n
      BY <1>1, <1>7, <2>1 DEF Ordered
    <2>2. CASE i \in 1..n /\ j - n \in 1..m /\ j \in (n + 1)..(n + m)
      <3>1. s[i] \in ToSet(s) /\ t[j - n] \in ToSet(t)
        BY <1>1, <2>2 DEF ToSet
      <3> QED
        BY <1>1, <1>7, <2>2, <3>1 DEF Before
    <2>3. CASE i \in (n + 1)..(n + m) /\ i - n \in 1..m /\ j - n \in 1..m
      <3>1. i - n < j - n /\ j \in (n + 1)..(n + m)
        BY <1>1, <1>7, <2>3
      <3> QED
        BY <1>1, <1>7, <2>3, <3>1 DEF Ordered
    <2> QED
      BY <1>1, <1>3, <1>7, <2>1, <2>2, <2>3
  <1>8. Ordered(s) /\ Ordered(t) /\ Before(ToSet(s), ToSet(t)) => Ordered(u)
    BY <1>1, <1>7 DEF Ordered
  <1> QED
    BY <1>4, <1>5, <1>6, <1>8 DEF u

\* Parts.
LEMMA OrderedPart ==
    ASSUME NEW R, NEW s \in Seq(R), NEW a \in Int, NEW b \in Int, 1 <= a, b <= Len(s)
    PROVE  /\ ToSet(SubSeq(s, a, b)) = {s[i] : i \in a..b}
           /\ Ordered(s) => Ordered(SubSeq(s, a, b))
  <1> DEFINE u == SubSeq(s, a, b)
             m == IF a <= b THEN b - a + 1 ELSE 0
  <1>1. Len(s) \in Nat /\ DOMAIN s = 1..Len(s)
    BY LenProperties
  <1>2. \A i \in a..b : s[i] \in R
    BY <1>1, ElementOfSeq
  <1>3. DOMAIN u = 1..m /\ \A i \in 1..m : u[i] = s[a + i - 1]
    BY <1>2, SubSeqProperties
  <1> HIDE DEF u
  <1>4. \A i \in 1..m : a + i - 1 \in a..b /\ a + i - 1 \in DOMAIN s
    BY <1>1
  <1>5. \A i \in a..b : i - a + 1 \in 1..m /\ a + (i - a + 1) - 1 = i
    BY <1>1
  <1>6. ToSet(u) = {s[i] : i \in a..b}
    <2>1. ToSet(u) \subseteq {s[i] : i \in a..b}
      BY <1>3, <1>4 DEF ToSet
    <2>2. \A i \in a..b : s[i] \in ToSet(u)
      BY <1>3, <1>5 DEF ToSet
    <2> QED
      BY <2>1, <2>2
  <1>7. Ordered(s) => Ordered(u)
    <2>1. ASSUME Ordered(s), NEW i \in 1..m, NEW j \in 1..m, i < j PROVE u[i].key < u[j].key
      <3>1. a + i - 1 < a + j - 1
        BY <2>1
      <3> QED
        BY <1>3, <1>4, <2>1, <3>1 DEF Ordered
    <2> QED
      BY <1>3, <2>1 DEF Ordered
  <1> QED
    BY <1>6, <1>7 DEF u

\* One record less.
LEMMA OrderedRemove ==
    ASSUME NEW R, NEW s \in Seq(R), NEW i \in 1..Len(s)
    PROVE  /\ ToSet(RemoveAt(s, i)) = {s[j] : j \in (1..Len(s)) \ {i}}
           /\ Ordered(s) => Ordered(RemoveAt(s, i))
  <1> DEFINE n == Len(s)
             a == SubSeq(s, 1, i - 1)
             c == SubSeq(s, i + 1, n)
  <1>1. n \in Nat /\ DOMAIN s = 1..n
    BY LenProperties
  <1>2. /\ a \in Seq(R) /\ c \in Seq(R)
        /\ ToSet(a) = {s[j] : j \in 1..(i - 1)} /\ ToSet(c) = {s[j] : j \in (i + 1)..n}
        /\ Ordered(s) => Ordered(a) /\ Ordered(c)
    BY <1>1, SubSeqType, OrderedPart
  <1>3. RemoveAt(s, i) = a \o c
    BY DEF RemoveAt
  <1> HIDE DEF a, c
  <1>4. ToSet(a \o c) = {s[j] : j \in (1..n) \ {i}}
    <2>1. ToSet(a \o c) = {s[j] : j \in 1..(i - 1)} \cup {s[j] : j \in (i + 1)..n}
      BY <1>2, OrderedConcat
    <2>2. (1..n) \ {i} = (1..(i - 1)) \cup ((i + 1)..n)
      BY <1>1
    <2> QED
      BY <2>1, <2>2
  <1>5. ASSUME Ordered(s) PROVE Before(ToSet(a), ToSet(c))
    <2>1. \A j \in 1..(i - 1) : \A k \in (i + 1)..n : j < k /\ j \in 1..n /\ k \in 1..n
      BY <1>1
    <2> QED
      BY <1>1, <1>2, <1>5, <2>1 DEF Before, Ordered
  <1>6. Ordered(s) => Ordered(a \o c)
    BY <1>2, <1>5, OrderedConcat
  <1> QED
    BY <1>3, <1>4, <1>6

\* InsertAt is a concatenation.
LEMMA InsertAtIs ==
    \A s, i, e : InsertAt(s, i, e) = SubSeq(s, 1, i - 1) \o <<e>> \o SubSeq(s, i, Len(s))
  BY DEF InsertAt

\* A record put in its place.
LEMMA OrderedMerge ==
    ASSUME NEW R, NEW s, Keyed(s, R), Ordered(s), NEW e \in R,
           \A i \in 1..Len(s) : s[i].key # e.key
    PROVE  /\ Ordered(MergeSorted(s, e))
           /\ ToSet(MergeSorted(s, e)) = ToSet(s) \cup {e}
           /\ MergeSorted(s, e) \in Seq(R) /\ Len(MergeSorted(s, e)) = Len(s) + 1
  <1> DEFINE n == Len(s)
             k == Rank(s, e.key)
             a == SubSeq(s, 1, k)
             c == SubSeq(s, k + 1, n)
             one == <<e>>
  <1>1. /\ n \in Nat /\ DOMAIN s = 1..n /\ s \in Seq(R) /\ e.key \in Int
        /\ \A i \in 1..n : s[i].key \in Int
    BY LenProperties, ElementOfSeq DEF Keyed
  <1>2. k \in 0..n
    BY <1>1, RankType
  <1>3. \A i \in 1..n : s[i].key <= e.key <=> i <= k
    BY <1>1, OrderedRank
  <1> HIDE DEF k
  <1>4. /\ a \in Seq(R) /\ c \in Seq(R) /\ Ordered(a) /\ Ordered(c)
        /\ ToSet(a) = {s[i] : i \in 1..k} /\ ToSet(c) = {s[i] : i \in (k + 1)..n}
    BY <1>1, <1>2, SubSeqType, OrderedPart
  <1>5. one \in Seq(R) /\ ToSet(one) = {e} /\ Ordered(one)
    BY DEF ToSet, Ordered
  <1>6. MergeSorted(s, e) = a \o one \o c
    <2> DEFINE j == k + 1
    <2>1. j - 1 = k /\ MergeSorted(s, e) = InsertAt(s, j, e) /\ c = SubSeq(s, j, Len(s))
      BY <1>2 DEF MergeSorted, k
    <2> HIDE DEF j, c
    <2>2. InsertAt(s, j, e) = SubSeq(s, 1, j - 1) \o <<e>> \o SubSeq(s, j, Len(s))
      BY InsertAtIs
    <2> QED
      BY <2>1, <2>2
  <1> HIDE DEF a, c, one
  <1>7. \A i \in 1..k : i \in 1..n /\ s[i].key < e.key
    BY <1>1, <1>2, <1>3
  <1>8. \A i \in (k + 1)..n : i \in 1..n /\ e.key < s[i].key
    BY <1>1, <1>2, <1>3
  <1> DEFINE b == a \o one
  <1>9. b \in Seq(R) /\ ToSet(b) = ToSet(a) \cup {e} /\ Ordered(b)
    <2>1. Before(ToSet(a), ToSet(one))
      BY <1>4, <1>5, <1>7 DEF Before
    <2>2. b \in Seq(R)
      BY <1>4, <1>5, ConcatProperties
    <2>3. /\ ToSet(a \o one) = ToSet(a) \cup ToSet(one)
          /\ Ordered(a) /\ Ordered(one) /\ Before(ToSet(a), ToSet(one)) => Ordered(a \o one)
      BY <1>4, <1>5, OrderedConcat
    <2> QED
      BY <1>4, <1>5, <2>1, <2>2, <2>3
  <1> HIDE DEF b
  <1>10. Before(ToSet(b), ToSet(c))
    <2>1. ASSUME NEW x \in ToSet(b), NEW y \in ToSet(c) PROVE x.key < y.key
      <3>1. PICK j \in (k + 1)..n : y = s[j]
        BY <1>4
      <3>2. CASE x = e
        BY <1>8, <3>1, <3>2
      <3>3. CASE x # e
        <4>1. PICK i \in 1..k : x = s[i]
          BY <1>4, <1>9, <3>3
        <4> QED
          BY <1>1, <1>7, <1>8, <3>1, <4>1
      <3> QED
        BY <3>2, <3>3
    <2> QED
      BY <2>1 DEF Before
  <1>11. Ordered(b \o c) /\ ToSet(b \o c) = ToSet(b) \cup ToSet(c)
    BY <1>4, <1>9, <1>10, OrderedConcat
  <1>12. ToSet(a) \cup ToSet(c) = ToSet(s)
    <2>1. 1..n = (1..k) \cup ((k + 1)..n)
      BY <1>1, <1>2
    <2> QED
      BY <1>1, <1>4, <2>1 DEF ToSet
  <1>13. MergeSorted(s, e) \in Seq(R) /\ Len(MergeSorted(s, e)) = Len(s) + 1
    BY <1>1, <1>2, InsertAtType DEF MergeSorted, k
  <1> QED
    BY <1>6, <1>9, <1>11, <1>12, <1>13 DEF b

\* A record less at the beginning, a record more at the end.
LEMMA OrderedHeadTail ==
    ASSUME NEW R, NEW s \in Seq(R), s # << >>
    PROVE  /\ Head(s) \in R /\ Tail(s) \in Seq(R)
           /\ ToSet(s) = {Head(s)} \cup ToSet(Tail(s))
           /\ Ordered(s) => Ordered(Tail(s)) /\ Before({Head(s)}, ToSet(Tail(s)))
  <1> DEFINE n == Len(s)
             u == Tail(s)
  <1>1. n \in Nat /\ n # 0 /\ DOMAIN s = 1..n
    BY LenProperties, EmptySeq
  <1>2. /\ Head(s) = s[1] /\ Head(s) \in R /\ u \in Seq(R)
        /\ DOMAIN u = 1..(n - 1) /\ \A i \in 1..(n - 1) : u[i] = s[i + 1]
    BY <1>1, HeadTailProperties, LenProperties
  <1> HIDE DEF u
  <1>3. /\ \A i \in 1..(n - 1) : i + 1 \in 1..n /\ 1 < i + 1
        /\ \A i \in 1..n : i = 1 \/ (i - 1 \in 1..(n - 1) /\ i - 1 + 1 = i)
        /\ 1 \in 1..n
    BY <1>1
  <1>4. ToSet(s) = {Head(s)} \cup ToSet(u)
    <2>1. ToSet(s) \subseteq {Head(s)} \cup ToSet(u)
      <3>1. ASSUME NEW i \in 1..n PROVE s[i] \in {Head(s)} \cup ToSet(u)
        <4>1. CASE i = 1
          BY <1>2, <4>1
        <4>2. CASE i # 1
          <5>1. i - 1 \in 1..(n - 1) /\ u[i - 1] = s[i]
            BY <1>2, <1>3, <4>2
          <5> QED
            BY <1>2, <5>1 DEF ToSet
        <4> QED
          BY <4>1, <4>2
      <3> QED
        BY <1>1, <3>1 DEF ToSet
    <2>2. {Head(s)} \cup ToSet(u) \subseteq ToSet(s)
      BY <1>1, <1>2, <1>3 DEF ToSet
    <2> QED
      BY <2>1, <2>2
  <1>5. ASSUME Ordered(s) PROVE Ordered(u) /\ Before({Head(s)}, ToSet(u))
    <2>1. \A i, j \in 1..(n - 1) : i < j => i + 1 < j + 1
      BY <1>1
    <2>2. ASSUME NEW i \in 1..(n - 1), NEW j \in 1..(n - 1), i < j PROVE u[i].key < u[j].key
      <3>1. s[i + 1].key < s[j + 1].key
        BY <1>1, <1>3, <1>5, <2>1, <2>2 DEF Ordered
      <3> QED
        BY <1>2, <3>1
    <2>3. ASSUME NEW x \in ToSet(u) PROVE Head(s).key < x.key
      <3>1. PICK i \in 1..(n - 1) : x = s[i + 1]
        BY <1>2 DEF ToSet
      <3> QED
        BY <1>1, <1>2, <1>3, <1>5, <3>1 DEF Ordered
    <2> QED
      BY <1>2, <2>2, <2>3 DEF Before, Ordered
  <1> QED
    BY <1>2, <1>4, <1>5 DEF u

\* A record at the end of others.
LEMMA OrderedAppend ==
    ASSUME NEW R, NEW s \in Seq(R), NEW e \in R
    PROVE  /\ ToSet(Append(s, e)) = ToSet(s) \cup {e}
           /\ Ordered(s) /\ Before(ToSet(s), {e}) => Ordered(Append(s, e))
  <1> DEFINE one == <<e>>
  <1>1. one \in Seq(R) /\ ToSet(one) = {e} /\ Ordered(one)
    BY DEF ToSet, Ordered
  <1>2. Append(s, e) = s \o one
    OBVIOUS
  <1> HIDE DEF one
  <1>3. /\ ToSet(s \o one) = ToSet(s) \cup ToSet(one)
        /\ Ordered(s) /\ Ordered(one) /\ Before(ToSet(s), ToSet(one)) => Ordered(s \o one)
    BY <1>1, OrderedConcat
  <1> QED
    BY <1>1, <1>2, <1>3

\* No records are in order.
LEMMA OrderedEmpty == ToSet(<< >>) = {} /\ Ordered(<< >>)
  BY DEF ToSet, Ordered

-----------------------------------------------------------------------------
(***************************************************************************)
(* The inductive invariant.                                                *)
(***************************************************************************)

\* Every record a caller may put, and every separator, fits in a page of its own.
RecordsFit ==
    /\ \A r \in LeafRec : PAGE_HEADER_SIZE + SLOT_SIZE + leaf_rec_size(r) <= PAGE_SIZE
    /\ \A k \in Keys : PAGE_HEADER_SIZE + SLOT_SIZE + 2 + KeyLen[k] + 4 <= PAGE_SIZE

Sorted == \A pid \in Pids : Ordered(pages[pid].slots)

\* The page whose records on disk are not those of its node in the tree.
Changing ==
    IF pc \in ParentSplitting THEN {path[level]}
    ELSE IF pc = "merge_parent" THEN {path[level - 1]} ELSE {}

\* The tree N of the pages A is the one on disk.
Mirrors(N, A) ==
    /\ A \subseteq Pids
    /\ \A q \in A \ Changing : N[q] = NodeOf(pages[q])
    /\ \A q \in A \cap Changing :
           N[q].type = pages[q].type /\ N[q].first = pages[q].first_child_id

\* How far the path still is a path of the tree.
Live ==
    IF pc \in {"descend", "get", "put", "delete"} \cup LeafSplitting THEN Len(path)
    ELSE IF pc = "propagate" THEN level + 1
    ELSE IF pc \in ParentSplitting \cup {"rebalance", "merge_next", "merge_left"} THEN level
    ELSE IF pc = "merge_parent" THEN level - 1 ELSE 0

IsLink(N, p, c) == \E l \in Links(N[p]) : l.child = c

Down(N, A) ==
    /\ \A i \in 1..Live : path[i] \in A
    /\ \A i \in 1..(Live - 1) : IsLink(N, path[i], path[i + 1])

\* The key of the call belongs to the last page of the path.
Looks(K) == pc \in {"descend", "put"} => call.key \in K[Last(path)]

\* What is placed in buf comes in order.
InLine == Ordered(buf.slots) /\ Ordered(todo) /\ Before(ToSet(buf.slots), ToSet(todo))

KeysIn(T, Z) == \A t \in T : t.key \in Z

\* The split of a leaf.
CutsLeaf(A, K) ==
    /\ pc = "split_alloc" =>
           /\ InLine /\ Ordered(ra) /\ Before(ToSet(buf.slots) \cup ToSet(todo), ToSet(ra))
           /\ KeysIn(ToSet(buf.slots) \cup ToSet(todo) \cup ToSet(ra), K[Last(path)])
           /\ \E k \in K[Last(path)] : \A t \in ToSet(ra) : k < t.key
    /\ pc = "split_left" =>
           /\ InLine /\ Ordered(left.slots)
           /\ KeysIn(ToSet(left.slots) \cup ToSet(buf.slots) \cup ToSet(todo), K[Last(path)])
           /\ \A t \in ToSet(left.slots) : t.key < sep.key
           /\ \A t \in ToSet(buf.slots) \cup ToSet(todo) : sep.key <= t.key
    /\ pc = "split_right" =>
           /\ Ordered(buf.slots) /\ KeysIn(ToSet(buf.slots), K[Last(path)])
           /\ \A t \in ToSet(pages[Last(path)].slots) : t.key < sep.key
           /\ \A t \in ToSet(buf.slots) : sep.key <= t.key
    /\ pc \in {"split_left", "split_right"} =>
           /\ sep.child = new_pid /\ new_pid \notin A
           /\ sep.key \in K[Last(path)] /\ \E k \in K[Last(path)] : k < sep.key

\* The separator and its node belong to the right of the node that was split.
Rises(N, A, K) ==
    /\ pc \in {"split_next", "split_prev", "propagate"} =>
           /\ Raised(N, A, K, root_id, path[level + 1], sep)
           /\ level > 0 => FitsAbove(N, A, K, path[level], path[level + 1], sep)
    /\ pc \in RootBuilding =>
           /\ Raised(N, A, K, root_id, root_id, sep)
           /\ new_pid \notin A /\ buf.first_child_id = root_id
           /\ ToSet(buf.slots) \subseteq {sep} /\ Ordered(buf.slots)
           /\ pc = "root_left" => buf.slots = << >>

\* The split of an internal node.
CutsParent(N, A, K) ==
    /\ pc \in ParentSplitting => \A l \in Links(N[path[level]]) : l.child # path[level]
    /\ pc \in {"parent_left", "parent_alloc"} =>
           /\ Ordered(ra) /\ ToSet(ra) \subseteq N[path[level]].recs
           /\ \E k \in K[path[level]] : \A t \in ToSet(ra) : k < t.key
    /\ pc = "parent_left" =>
           /\ InLine /\ Before(ToSet(buf.slots) \cup ToSet(todo), ToSet(ra))
           /\ ToSet(buf.slots) \cup ToSet(todo) \subseteq N[path[level]].recs
           /\ buf.first_child_id = pages[path[level]].first_child_id
    /\ pc = "parent_alloc" =>
           /\ ToSet(pages[path[level]].slots) \subseteq N[path[level]].recs
           /\ Before(ToSet(pages[path[level]].slots), ToSet(ra))
    /\ pc \in {"parent_median", "parent_right"} =>
           /\ ToSet(pages[path[level]].slots) \subseteq N[path[level]].recs
           /\ \A t \in ToSet(pages[path[level]].slots) : t.key < sep.key
           /\ InLine /\ ToSet(buf.slots) \cup ToSet(todo) \subseteq N[path[level]].recs
           /\ \A t \in ToSet(buf.slots) \cup ToSet(todo) : sep.key < t.key
           /\ \E t \in N[path[level]].recs : t.key = sep.key /\ t.child = buf.first_child_id
           /\ \E k \in K[path[level]] : k < sep.key
           /\ new_pid \notin A

\* A merge of two neighbours.
Joins(N) ==
    /\ pc \in {"merge_next", "merge_left"} =>
           /\ Ordered(buf.slots) /\ buf.first_child_id = pages[LeftPid].first_child_id
           /\ ToSet(buf.slots) \subseteq
                  ToSet(pages[LeftPid].slots) \cup ToSet(pages[RightPid].slots)
    /\ pc = "merge_next" =>
           /\ InLine
           /\ ToSet(todo) \subseteq ToSet(pages[LeftPid].slots) \cup ToSet(pages[RightPid].slots)
    /\ pc = "merge_parent" =>
           N[path[level - 1]].recs = ToSet(RemoveAt(Parent.slots, LeftIndex))

InOrder(N, A, K) ==
    /\ Tree(N, A, K, root_id) /\ Mirrors(N, A) /\ Down(N, A) /\ Looks(K)
    /\ CutsLeaf(A, K) /\ Rises(N, A, K) /\ CutsParent(N, A, K) /\ Joins(N)

OInv == Sorted /\ (pc # "undefined" => \E N, A, K : InOrder(N, A, K))

-----------------------------------------------------------------------------
(***************************************************************************)
(* What a step does to the pages.                                          *)
(***************************************************************************)

\* Without a failure every write happens and every record is collected.
LEMMA NothingFails ==
    ASSUME TypeOK, faults' = 0
    PROVE  /\ ~Fail
           /\ \A pid, p : WriteUnchecked(pid, p) => WritePage(pid, p) /\ faults' = faults
           /\ \A s, r, all : Collect(s, r, all) => all = MergeSorted(s, r) /\ faults' = faults
  BY DEF Fail, WriteUnchecked, Collect, TypeOK

\* The records of pages and of the locals have keys that are numbers.
LEMMA HaveKeys ==
    ASSUME TypeOK
    PROVE  /\ \A r \in Records : r.key \in Int
           /\ \A p \in Page(Pids) : Keyed(p.slots, Records)
           /\ \A pid \in Pids : Keyed(pages[pid].slots, Records)
           /\ Keyed(buf.slots, Records) /\ Keyed(left.slots, Records)
           /\ Keyed(todo, Records) /\ Keyed(ra, Records)
  <1>1. \A r \in Records : r.key \in Int
    BY KeysAssumption DEF Records, LeafRec, InternalRec
  <1>2. ASSUME NEW p \in Page(Pids) PROVE p.slots \in Seq(Records)
    <2>1. Seq(LeafRec) \subseteq Seq(Records) /\ Seq(InternalRec(Pids)) \subseteq Seq(Records)
      BY SeqMonotonic DEF Records
    <2> QED
      BY <2>1 DEF Page
  <1> QED
    BY <1>1, <1>2 DEF TypeOK, Keyed

\* The keys of a set of records of a sequence.
LEMMA KeyOfSet ==
    ASSUME NEW R, NEW s, Keyed(s, R)
    PROVE  s \in Seq(R) /\ \A t \in ToSet(s) : t \in R /\ t.key \in Int
  <1>1. s \in Seq(R) /\ DOMAIN s = 1..Len(s)
    BY LenProperties DEF Keyed
  <1>2. \A i \in 1..Len(s) : s[i] \in R
    BY <1>1, ElementOfSeq
  <1> QED
    BY <1>1, <1>2 DEF ToSet, Keyed

\* The elements of a sequence.
LEMMA SetOfSeq ==
    ASSUME NEW S, NEW s \in Seq(S)
    PROVE  \A t \in ToSet(s) : t \in S
  BY ElementOfSeq, LenProperties DEF ToSet

\* Only links of pages change that no search follows.
Quiet ==
    /\ num_pages' = num_pages
    /\ \A q \in Pids : /\ pages'[q].type = pages[q].type
                       /\ pages'[q].slots = pages[q].slots
                       /\ pages'[q].first_child_id = pages[q].first_child_id

\* A write of a parent or a neighbour is such a change.
LEMMA QuietWrite ==
    ASSUME TypeOK, num_pages' = num_pages, NEW pid, NEW x,
           \/ pages' = pages
           \/ WritePage(pid, [pages[pid] EXCEPT !.parent_id = x])
           \/ WritePage(pid, [pages[pid] EXCEPT !.prev_id = x])
           \/ WritePage(pid, [pages[pid] EXCEPT !.next_id = x])
    PROVE  Quiet
  <1>1. /\ pages \in [Pids -> Page(Pids)]
    BY DEF TypeOK
  <1>2. CASE pages' = pages
    BY <1>2 DEF Quiet
  <1>3. CASE pages' # pages
    <2>1. PICK p : /\ pages' = [pages EXCEPT ![pid] = p]
                   /\ \/ p = [pages[pid] EXCEPT !.parent_id = x]
                      \/ p = [pages[pid] EXCEPT !.prev_id = x]
                      \/ p = [pages[pid] EXCEPT !.next_id = x]
      BY <1>3 DEF WritePage
    <2>2. pid \in Pids =>
              /\ p.type = pages[pid].type /\ p.slots = pages[pid].slots
              /\ p.first_child_id = pages[pid].first_child_id
      BY <1>1, <2>1 DEF Page
    <2> QED
      BY <1>1, <2>1, <2>2 DEF Quiet
  <1> QED
    BY <1>2, <1>3

\* It keeps the nodes as they are,
LEMMA QuietKeeps ==
    ASSUME Quiet
    PROVE  /\ Pids' = Pids /\ (Sorted => Sorted')
           /\ \A q \in Pids : NodeOf(pages'[q]) = NodeOf(pages[q])
  BY DEF Quiet, Sorted, NodeOf, Pids

\* and the tree.
LEMMA QuietTree ==
    ASSUME Quiet, NEW N, NEW A, NEW K, InOrder(N, A, K), Changing' = Changing, root_id' = root_id
    PROVE  Tree(N, A, K, root_id)' /\ Mirrors(N, A)'
  <1>1. /\ Pids' = Pids /\ \A q \in Pids : NodeOf(pages'[q]) = NodeOf(pages[q])
    BY QuietKeeps
  <1>2. Tree(N, A, K, root_id)'
    BY DEF InOrder
  <1>3. Mirrors(N, A)'
    BY <1>1 DEF InOrder, Mirrors, Quiet
  <1> QED
    BY <1>2, <1>3

\* Every phase of a call has an invariant of its own.
LEMMA OtherOrders ==
    ASSUME NEW N, NEW A, NEW K
    PROVE  /\ pc' \notin {"descend", "put"} => Looks(K)'
           /\ pc' \notin {"split_alloc", "split_left", "split_right"} => CutsLeaf(A, K)'
           /\ pc' \notin {"split_next", "split_prev", "propagate"} \cup RootBuilding =>
                  Rises(N, A, K)'
           /\ pc' \notin ParentSplitting => CutsParent(N, A, K)'
           /\ pc' \notin Merging => Joins(N)'
  BY DEF Looks, CutsLeaf, Rises, CutsParent, Joins, ParentSplitting, Merging

\* Between two phases nothing is said but what the tree is.
LEMMA RestsInOrder ==
    ASSUME NEW N, NEW A, NEW K, pc' \in {"idle", "return", "shrink_write"},
           Tree(N, A, K, root_id)', A \subseteq Pids', \A q \in A : N[q] = NodeOf(pages'[q])
    PROVE  InOrder(N, A, K)'
  <1>1. /\ pc' \notin {"descend", "put", "split_alloc", "split_left", "split_right"}
        /\ pc' \notin {"split_next", "split_prev", "propagate"} \cup RootBuilding
        /\ pc' \notin ParentSplitting /\ pc' \notin Merging
        /\ Changing' = {} /\ Live' = 0
    BY DEF RootBuilding, ParentSplitting, Merging, LeafSplitting, Changing, Live
  <1>2. Mirrors(N, A)' /\ Down(N, A)'
    BY <1>1 DEF Mirrors, Down
  <1> QED
    BY <1>1, <1>2, OtherOrders DEF InOrder

-----------------------------------------------------------------------------
(***************************************************************************)
(* The steps: a call begins, goes down and ends.                           *)
(***************************************************************************)

\* The call ends and leaves the tree.
LEMMA OrderEnds ==
    ASSUME NEW N, NEW A, NEW K, Sorted, InOrder(N, A, K), Quiet,
           pc \notin ParentSplitting \cup {"merge_parent"},
           pc' \in {"idle", "return"}, root_id' = root_id
    PROVE  Sorted' /\ InOrder(N, A, K)'
  <1>1. Changing = {}
    BY DEF Changing
  <1>2. A \subseteq Pids' /\ \A q \in A : N[q] = NodeOf(pages'[q])
    BY <1>1, QuietKeeps DEF InOrder, Mirrors
  <1>3. Tree(N, A, K, root_id)'
    BY DEF InOrder
  <1> QED
    BY <1>2, <1>3, QuietKeeps, RestsInOrder

\* These steps end a call, or a delete that had a new root.
LEMMA OrderAnswer ==
    ASSUME NEW N, NEW A, NEW K, TypeOK, Sorted, InOrder(N, A, K), faults' = 0,
           GetLeaf \/ DeleteMissing \/ RebalanceEnd \/ Return \/ ShrinkWrite
    PROVE  Sorted' /\ InOrder(N, A, K)'
  <1>1. /\ pc \in {"get", "delete", "rebalance", "return", "shrink_write"}
        /\ pc' \in {"idle", "return"} /\ root_id' = root_id /\ num_pages' = num_pages
        /\ pages' = pages \/ WritePage(root_id, [pages[root_id] EXCEPT !.parent_id = INVALID_PAGE_ID])
    BY DEF GetLeaf, DeleteMissing, RebalanceEnd, Return, ShrinkWrite, ReturnWith, store
  <1>2. Quiet
    BY <1>1, QuietWrite
  <1> QED
    BY <1>1, <1>2, OrderEnds DEF ParentSplitting

\* A call may look for any key.
LEMMA OrderInvoke ==
    ASSUME NEW N, NEW A, NEW K, TypeOK, Sorted, InOrder(N, A, K), NEW c \in Ops, Invoke(c)
    PROVE  Sorted' /\ \E J : InOrder(N, A, J)'
  <1>1. /\ pc = "idle" /\ pc' = "descend" /\ call' = c /\ path' = <<root_id>>
        /\ num_pages' = num_pages /\ root_id' = root_id /\ pages' = pages
    BY DEF Invoke, store
  <1>2. Quiet /\ Changing = {} /\ Changing' = {} /\ Live' = 1
    BY <1>1 DEF Quiet, Changing, ParentSplitting, Live
  <1>3. Mirrors(N, A)'
    BY <1>1, <1>2, QuietTree
  <1>4. c.key \in Int
    BY OpsAssumption, KeysAssumption
  <1>5. Tree(N, A, K, root_id) /\ K \in [A -> SUBSET Int] /\ root_id \in A
    BY DEF InOrder, Tree
  <1>6. PICK J : J = [K EXCEPT ![root_id] = K[root_id] \cup {c.key}]
    OBVIOUS
  <1>7. Tree(N, A, J, root_id) /\ c.key \in J[root_id]
    BY <1>4, <1>5, <1>6, RootKey
  <1>8. Down(N, A)'
    BY <1>1, <1>2, <1>5 DEF Down
  <1>9. Looks(J)'
    <2>1. Last(path') = root_id
      BY <1>1 DEF Last
    <2> QED
      BY <1>1, <1>7, <2>1 DEF Looks
  <1>10. /\ pc' \notin {"split_alloc", "split_left", "split_right"}
         /\ pc' \notin {"split_next", "split_prev", "propagate"} \cup RootBuilding
         /\ pc' \notin ParentSplitting /\ pc' \notin Merging
    BY <1>1 DEF RootBuilding, ParentSplitting, Merging
  <1>11. InOrder(N, A, J)'
    BY <1>1, <1>3, <1>7, <1>8, <1>9, <1>10, OtherOrders DEF InOrder
  <1> QED
    BY <1>2, <1>11, QuietKeeps

\* internal_find_child takes the link that a key belongs to.
LEMMA FindLink ==
    ASSUME NEW R, NEW p, Keyed(p.slots, R), Ordered(p.slots), p.type # "PAGE_LEAF",
           NEW k \in Int
    PROVE  \E l \in Links(NodeOf(p)) :
               l.child = internal_find_child(p, k) /\ Within(ToSet(p.slots), l.low, k)
  <1> DEFINE s == p.slots
             n == Rank(s, k)
  <1>1. /\ s \in Seq(R) /\ Len(s) \in Nat /\ DOMAIN s = 1..Len(s)
        /\ \A i \in 1..Len(s) : s[i].key \in Int
    BY LenProperties, ElementOfSeq DEF Keyed
  <1>2. n \in 0..Len(s)
    BY <1>1, RankType
  <1>3. \A i \in 1..Len(s) : s[i].key <= k <=> i <= n
    BY OrderedRank
  <1>4. internal_find_child(p, k) = IF n = 0 THEN p.first_child_id ELSE s[n].child
    BY DEF internal_find_child
  <1>5. Links(NodeOf(p)) = {[low |-> {}, child |-> p.first_child_id]}
                             \cup {[low |-> {t.key}, child |-> t.child] : t \in ToSet(s)}
    BY DEF Links, NodeOf
  <1> HIDE DEF n
  <1>6. CASE n = 0
    <2>1. ASSUME NEW t \in ToSet(s) PROVE k < t.key
      <3>1. PICK i \in 1..Len(s) : t = s[i]
        BY <1>1 DEF ToSet
      <3> QED
        BY <1>1, <1>3, <1>6, <3>1
    <2>2. Within(ToSet(s), {}, k)
      BY <2>1 DEF Within
    <2>3. [low |-> {}, child |-> p.first_child_id] \in Links(NodeOf(p))
      BY <1>5
    <2> QED
      BY <1>4, <1>6, <2>2, <2>3
  <1>7. CASE n # 0
    <2>1. n \in 1..Len(s) /\ s[n] \in ToSet(s) /\ s[n].key <= k
      BY <1>1, <1>2, <1>3, <1>7 DEF ToSet
    <2>2. ASSUME NEW t \in ToSet(s), s[n].key < t.key PROVE k < t.key
      <3>1. PICK i \in 1..Len(s) : t = s[i]
        BY <1>1 DEF ToSet
      <3>2. ~(i <= n)
        <4>1. i < n => s[i].key < s[n].key
          BY <1>1, <2>1, <3>1 DEF Ordered
        <4>2. s[i].key \in Int /\ s[n].key \in Int
          BY <1>1, <2>1, <3>1
        <4> QED
          BY <2>1, <2>2, <3>1, <4>1, <4>2
      <3> QED
        BY <1>1, <1>3, <3>1, <3>2
    <2>3. Within(ToSet(s), {s[n].key}, k)
      BY <2>1, <2>2 DEF Within
    <2>4. [low |-> {s[n].key}, child |-> s[n].child] \in Links(NodeOf(p))
      BY <1>5, <2>1
    <2> QED
      BY <1>4, <1>7, <2>3, <2>4
  <1> QED
    BY <1>6, <1>7

\* The leaf without the key of the call.
LEMMA WithoutKey ==
    ASSUME NEW h, TypeOK, Tall(h), Sorted, pc \in {"put", "delete"}
    PROVE  /\ Keyed(LeafWithoutKey.slots, Records) /\ Ordered(LeafWithoutKey.slots)
           /\ ToSet(LeafWithoutKey.slots) \subseteq ToSet(pages[Last(path)].slots)
           /\ \A i \in 1..Len(LeafWithoutKey.slots) : LeafWithoutKey.slots[i].key # call.key
           /\ LeafWithoutKey.type = pages[Last(path)].type
           /\ LeafWithoutKey.first_child_id = pages[Last(path)].first_child_id
           /\ LeafWithoutKey \in Page(Pids)
  <1> DEFINE p == pages[Last(path)]
             s == p.slots
             k == call.key
             i == Rank(s, k)
  <1>1. /\ p \in Page(Pids) /\ Last(path) \in Pids /\ LeafWithoutKey \in Page(Pids)
        /\ k \in Keys /\ k \in Int
    BY LeafAtEnd, CallType, LeafWithoutKeyType, NodeIsPage, KeysAssumption DEF Tall
  <1>2. Keyed(s, Records) /\ Ordered(s) /\ Keyed(LeafWithoutKey.slots, Records)
    BY <1>1, HaveKeys DEF Sorted
  <1> HIDE DEF p
  <1>3. /\ s \in Seq(Records) /\ Len(s) \in Nat /\ DOMAIN s = 1..Len(s)
        /\ \A j \in 1..Len(s) : s[j].key \in Int
    BY <1>2, LenProperties, ElementOfSeq DEF Keyed
  <1>4. CASE ~HasKey(p, k)
    <2>1. LeafWithoutKey = p
      BY <1>4 DEF LeafWithoutKey, p
    <2>2. \A j \in 1..Len(s) : s[j].key # k
      BY <1>3, <1>4 DEF HasKey
    <2> QED
      BY <1>1, <1>2, <2>1, <2>2 DEF p
  <1>5. CASE HasKey(p, k)
    <2>1. LeafWithoutKey = [p EXCEPT !.slots = RemoveAt(@, i)]
      BY <1>5 DEF LeafWithoutKey, page_remove_slot, p
    <2>2. i \in 1..Len(s)
      BY <1>1, <1>3, <1>5, RankOfKey DEF HasKey
    <2>3. \A j \in 1..Len(s) : s[j].key <= k <=> j <= i
      BY <1>1, <1>2, OrderedRank
    <2>4. PICK m \in 1..Len(s) : s[m].key = k
      BY <1>3, <1>5 DEF HasKey
    <2> HIDE DEF i
    <2>5. m = i
      <3>1. m <= i /\ s[i].key <= k
        BY <1>1, <2>2, <2>3, <2>4
      <3>2. m < i => s[m].key < s[i].key
        BY <1>2, <1>3, <2>2 DEF Ordered
      <3> QED
        BY <1>1, <1>3, <2>2, <2>4, <3>1, <3>2
    <2>6. ASSUME NEW j \in 1..Len(s), j # i PROVE s[j].key # k
      <3>1. j < i \/ i < j
        BY <2>2, <2>6
      <3>2. s[j].key < k \/ k < s[j].key
        BY <1>2, <1>3, <2>2, <2>4, <2>5, <3>1 DEF Ordered
      <3> QED
        BY <1>1, <1>3, <3>2
    <2> DEFINE u == RemoveAt(s, i)
    <2>7. ToSet(u) = {s[j] : j \in (1..Len(s)) \ {i}} /\ Ordered(u)
      BY <1>2, <1>3, <2>2, OrderedRemove
    <2>8. /\ LeafWithoutKey.slots = u /\ LeafWithoutKey.type = p.type
          /\ LeafWithoutKey.first_child_id = p.first_child_id
      BY <1>1, <2>1 DEF Page, p
    <2> HIDE DEF u
    <2>9. ToSet(u) \subseteq ToSet(s) /\ \A t \in ToSet(u) : t.key # k
      BY <1>3, <2>6, <2>7 DEF ToSet
    <2>10. \A j \in 1..Len(u) : u[j] \in ToSet(u)
      <3>1. DOMAIN u = 1..Len(u)
        BY <1>2, <2>8, LenProperties DEF Keyed
      <3> QED
        BY <3>1 DEF ToSet
    <2> QED
      BY <1>1, <1>2, <2>7, <2>8, <2>9, <2>10 DEF p
  <1> QED
    BY <1>4, <1>5

\* The key of the call belongs to the child that build_path goes to.
LEMMA OrderDescend ==
    ASSUME NEW h, NEW N, NEW A, NEW K, TypeOK, Tall(h), Sorted, InOrder(N, A, K), Descend
    PROVE  Sorted' /\ \E J : InOrder(N, A, J)'
  <1> DEFINE n == Len(path)
             p == pages[Last(path)]
             k == call.key
  <1>1. /\ pc = "descend" /\ call' = call /\ num_pages' = num_pages /\ root_id' = root_id
        /\ pages' = pages
    BY DEF Descend, store
  <1>2. /\ n \in Nat \ {0} /\ DOMAIN path = 1..n /\ \A i \in 1..n : path[i] \in Pids
        /\ Last(path) = path[n] /\ Last(path) \in Pids
    BY <1>1, PathType DEF Tall
  <1>3. /\ call \in Ops /\ call.op \in {"get", "put", "delete"} /\ k \in Int
    BY <1>1, OpsAssumption, KeysAssumption DEF Tall, Served
  <1>4. pc' \in {"descend", "get", "put", "delete"}
    BY <1>1, <1>3 DEF Descend
  <1>5. Quiet /\ Changing = {} /\ Changing' = {} /\ Live = n /\ Live' = Len(path')
    BY <1>1, <1>4 DEF Quiet, Changing, ParentSplitting, Live
  <1>6. Mirrors(N, A)' /\ Sorted'
    BY <1>1, <1>5, QuietTree, QuietKeeps
  <1>7. /\ pc' \notin {"split_alloc", "split_left", "split_right"}
        /\ pc' \notin {"split_next", "split_prev", "propagate"} \cup RootBuilding
        /\ pc' \notin ParentSplitting /\ pc' \notin Merging
    BY <1>4 DEF RootBuilding, ParentSplitting, Merging
  <1>8. /\ Tree(N, A, K, root_id) /\ \A i \in 1..n : path[i] \in A
        /\ \A i \in 1..(n - 1) : IsLink(N, path[i], path[i + 1])
        /\ k \in K[Last(path)] /\ Last(path) \in A /\ N[Last(path)] = NodeOf(p)
    BY <1>1, <1>2, <1>5 DEF InOrder, Down, Looks, Mirrors
  <1>9. CASE p.type = "PAGE_LEAF"
    <2>1. path' = path
      BY <1>9 DEF Descend
    <2>2. Down(N, A)' /\ Looks(K)'
      BY <1>1, <1>5, <1>8, <2>1 DEF Down, Looks
    <2>3. InOrder(N, A, K)'
      BY <1>1, <1>6, <1>7, <1>8, <2>2, OtherOrders DEF InOrder
    <2> QED
      BY <1>6, <2>3
  <1>10. CASE p.type # "PAGE_LEAF"
    <2> DEFINE c == internal_find_child(p, k)
    <2>1. path' = Append(path, c)
      BY <1>10 DEF Descend
    <2>2. Keyed(p.slots, Records) /\ Ordered(p.slots)
      BY <1>2, HaveKeys DEF Sorted
    <2>3. PICK l \in Links(NodeOf(p)) : l.child = c /\ Within(ToSet(p.slots), l.low, k)
      BY <1>3, <1>10, <2>2, FindLink
    <2>4. NodeOf(p).recs = ToSet(p.slots)
      BY DEF NodeOf
    <2>5. c # Last(path) /\ c \in Pids
      <3>1. /\ h[Last(path)] \in Nat /\ p \in Nodes(Pids, h, h[Last(path)])
            /\ p.type = "PAGE_LEAF" <=> h[Last(path)] = 0
        BY <1>1, <1>2, NodeAt DEF Tall, Unwritten, RootBuilding
      <3>2. h[c] = h[Last(path)] - 1 /\ c \in Pids
        BY <1>10, <3>1, FindChild
      <3> QED
        BY <3>1, <3>2
    <2>6. path \in Seq(Pids)
      BY DEF TypeOK
    <2> HIDE DEF c
    <2>7. /\ path' \in Seq(Pids) /\ Len(path') = n + 1
          /\ \A i \in 1..n : path'[i] = path[i]
          /\ path'[n + 1] = c /\ Last(path') = c
      BY <2>1, <2>5, <2>6, AppendProperties DEF Last
    <2>8. c \in A
      BY <1>8, <2>3 DEF Tree, Routes
    <2>9. PICK J : J = [K EXCEPT ![c] = K[c] \cup {k}]
      OBVIOUS
    <2>10. Tree(N, A, J, root_id)
      <3> DEFINE x == Last(path)
      <3>1. /\ x \in A /\ l \in Links(N[x]) /\ k \in K[x] /\ l.child # x
            /\ Within(N[x].recs, l.low, k)
        BY <1>8, <2>3, <2>4, <2>5
      <3> HIDE DEF x
      <3>2. Tree(N, A, [K EXCEPT ![l.child] = K[l.child] \cup {k}], root_id)
        BY <1>8, <3>1, ChildKey
      <3> QED
        BY <2>3, <2>9, <3>2
    <2>11. k \in J[c]
      BY <1>8, <2>8, <2>9 DEF Tree
    <2>12. Looks(J)'
      BY <1>1, <2>7, <2>11 DEF Looks
    <2>13. Down(N, A)'
      <3>1. ASSUME NEW i \in 1..(n + 1) PROVE path'[i] \in A
        BY <1>2, <1>8, <2>7, <2>8, <3>1
      <3>2. ASSUME NEW i \in 1..n PROVE IsLink(N, path'[i], path'[i + 1])
        <4>1. CASE i = n
          BY <1>2, <1>8, <2>3, <2>7, <4>1 DEF IsLink
        <4>2. CASE i # n
          <5> n \in Nat \ {0}
            BY <1>2
          <5>1. i \in 1..(n - 1) /\ i + 1 \in 1..n
            BY <4>2
          <5>2. path'[i] = path[i] /\ path'[i + 1] = path[i + 1]
            BY <2>7, <5>1
          <5>3. IsLink(N, path[i], path[i + 1])
            BY <1>8, <5>1
          <5> QED
            BY <5>2, <5>3
        <4> QED
          BY <4>1, <4>2
      <3>3. Live' = n + 1 /\ Live' - 1 = n
        BY <1>2, <1>5, <2>7
      <3> QED
        BY <3>1, <3>2, <3>3 DEF Down
    <2>14. InOrder(N, A, J)'
      BY <1>1, <1>6, <1>7, <2>10, <2>12, <2>13, OtherOrders DEF InOrder
    <2> QED
      BY <1>6, <2>14
  <1> QED
    BY <1>9, <1>10

\* A page that is written is one of the tree; what is written has its records in order.
LEMMA WriteSorted ==
    ASSUME TypeOK, Sorted, NEW pid \in Pids, NEW p, WritePage(pid, p), num_pages' = num_pages,
           Ordered(p.slots)
    PROVE  /\ Sorted' /\ Pids' = Pids /\ pages'[pid] = p
           /\ \A q \in Pids \ {pid} : pages'[q] = pages[q]
  BY DEF TypeOK, WritePage, Sorted, Pids

\* A leaf is written: its keys are keys that belong to it.
LEMMA LeafWriteTree ==
    ASSUME TypeOK, NEW N, NEW A, NEW K, Tree(N, A, K, root_id), Mirrors(N, A), Changing = {},
           NEW pid \in A, NEW p, WritePage(pid, p), num_pages' = num_pages,
           pages[pid].type = "PAGE_LEAF", p.type = "PAGE_LEAF", KeysIn(ToSet(p.slots), K[pid])
    PROVE  \E M : /\ Tree(M, A, K, root_id) /\ \A q \in A : M[q] = NodeOf(pages'[q])
                  /\ \A q \in A : Links(M[q]) = Links(N[q])
  <1>1. A \subseteq Pids /\ \A q \in A : N[q] = NodeOf(pages[q])
    BY DEF Mirrors
  <1>2. pages'[pid] = p /\ \A q \in A \ {pid} : pages'[q] = pages[q]
    BY <1>1 DEF WritePage, TypeOK
  <1>3. PICK M : M = [q \in A |-> NodeOf(pages'[q])]
    OBVIOUS
  <1>4. /\ \A q \in A : M[q] = NodeOf(pages'[q])
        /\ \A q \in A \ {pid} : M[q] = N[q]
    BY <1>1, <1>2, <1>3
  <1>5. /\ N[pid].type = "PAGE_LEAF" /\ M[pid].type = "PAGE_LEAF"
        /\ \A t \in M[pid].recs : t.key \in K[pid]
    <2>1. N[pid] = NodeOf(pages[pid]) /\ M[pid] = NodeOf(p)
      BY <1>1, <1>2, <1>4
    <2> QED
      BY <2>1 DEF NodeOf, KeysIn
  <1>6. Tree(M, A, K, root_id)
    BY <1>4, <1>5, LeafRecs
  <1>7. \A q \in A : Links(M[q]) = Links(N[q])
    BY <1>4, <1>5 DEF Links
  <1> QED
    BY <1>4, <1>6, <1>7

\* The leaf a call has come to.
LEMMA AtLeaf ==
    ASSUME NEW h, NEW N, NEW A, NEW K, TypeOK, Tall(h), Sorted, InOrder(N, A, K),
           pc \in {"put", "delete"}
    PROVE  /\ Tree(N, A, K, root_id) /\ Mirrors(N, A) /\ Changing = {} /\ Down(N, A)
           /\ Live = Len(path) /\ Len(path) \in Nat \ {0} /\ Last(path) = path[Len(path)]
           /\ Last(path) \in A /\ Last(path) \in Pids
           /\ pages[Last(path)].type = "PAGE_LEAF"
           /\ \A q \in A : N[q] = NodeOf(pages[q])
           /\ KeysIn(ToSet(LeafWithoutKey.slots), K[Last(path)])
  <1>1. /\ Tree(N, A, K, root_id) /\ Mirrors(N, A) /\ Down(N, A)
        /\ Changing = {} /\ Live = Len(path)
    BY DEF InOrder, Changing, Live, ParentSplitting
  <1>2. Len(path) \in Nat \ {0} /\ Last(path) = path[Len(path)]
    BY PathType DEF Tall
  <1>3. Last(path) \in A /\ Last(path) \in Pids /\ pages[Last(path)].type = "PAGE_LEAF"
    BY <1>1, <1>2, LeafAtEnd DEF Down
  <1>4. \A q \in A : N[q] = NodeOf(pages[q])
    BY <1>1 DEF Mirrors
  <1>5. N[Last(path)].recs = ToSet(pages[Last(path)].slots)
    <2>1. N[Last(path)] = NodeOf(pages[Last(path)])
      BY <1>3, <1>4
    <2> QED
      BY <2>1 DEF NodeOf
  <1>6. KeysIn(ToSet(LeafWithoutKey.slots), K[Last(path)])
    BY <1>1, <1>3, <1>5, WithoutKey DEF Tree, Holds, KeysIn
  <1> QED
    BY <1>1, <1>2, <1>3, <1>4, <1>6

\* The new record between the others.
LEMMA WithNewRec ==
    ASSUME NEW h, NEW N, NEW A, NEW K, TypeOK, Tall(h), Sorted, InOrder(N, A, K), pc = "put"
    PROVE  LET s == MergeSorted(LeafWithoutKey.slots, NewRec)
           IN  /\ s \in Seq(Records) /\ Ordered(s) /\ KeysIn(ToSet(s), K[Last(path)])
               /\ Len(s) = Len(LeafWithoutKey.slots) + 1
  <1> DEFINE u == LeafWithoutKey.slots
  <1>1. NewRec \in Records /\ NewRec.key = call.key /\ call.key \in K[Last(path)]
    <2>1. call.op = "put" /\ Served
      BY DEF Tall, Served
    <2>2. NewRec \in LeafRec
      BY <2>1, CallType
    <2> QED
      BY <2>2 DEF Records, NewRec, InOrder, Looks
  <1>2. /\ Keyed(u, Records) /\ Ordered(u) /\ KeysIn(ToSet(u), K[Last(path)])
        /\ \A i \in 1..Len(u) : u[i].key # NewRec.key
    BY <1>1, WithoutKey, AtLeaf
  <1> HIDE DEF u
  <1>3. /\ Ordered(MergeSorted(u, NewRec)) /\ ToSet(MergeSorted(u, NewRec)) = ToSet(u) \cup {NewRec}
        /\ MergeSorted(u, NewRec) \in Seq(Records)
        /\ Len(MergeSorted(u, NewRec)) = Len(u) + 1
    BY <1>1, <1>2, OrderedMerge
  <1>4. KeysIn(ToSet(MergeSorted(u, NewRec)), K[Last(path)])
    BY <1>1, <1>2, <1>3 DEF KeysIn
  <1> QED
    BY <1>3, <1>4 DEF u

\* The leaf gets the new record.
LEMMA OrderPutInPlace ==
    ASSUME NEW h, NEW N, NEW A, NEW K, TypeOK, Tall(h), Sorted, InOrder(N, A, K), PutInPlace
    PROVE  Sorted' /\ \E M : InOrder(M, A, K)'
  <1> DEFINE p == page_insert_slot(LeafWithoutKey, Rank(LeafWithoutKey.slots, call.key) + 1, NewRec)
  <1>1. /\ pc = "put" /\ pc' = "return" /\ WritePage(Last(path), p)
        /\ num_pages' = num_pages /\ root_id' = root_id
    BY DEF PutInPlace, ReturnWith
  <1>2. p.slots = MergeSorted(LeafWithoutKey.slots, NewRec) /\ p.type = LeafWithoutKey.type
    BY <1>1, WithoutKey DEF page_insert_slot, MergeSorted, NewRec, Page
  <1>3. Ordered(p.slots) /\ KeysIn(ToSet(p.slots), K[Last(path)])
    BY <1>1, <1>2, WithNewRec
  <1>4. p.type = "PAGE_LEAF" /\ Last(path) \in Pids
    BY <1>1, <1>2, WithoutKey, AtLeaf
  <1> HIDE DEF p
  <1>5. PICK M : Tree(M, A, K, root_id) /\ \A q \in A : M[q] = NodeOf(pages'[q])
    BY <1>1, <1>3, <1>4, AtLeaf, LeafWriteTree
  <1>6. Sorted' /\ Pids' = Pids
    BY <1>1, <1>3, <1>4, WriteSorted
  <1>7. A \subseteq Pids'
    BY <1>6 DEF InOrder, Mirrors
  <1>8. Tree(M, A, K, root_id)'
    BY <1>1, <1>5
  <1>9. InOrder(M, A, K)'
    BY <1>1, <1>5, <1>7, <1>8, RestsInOrder
  <1> QED
    BY <1>6, <1>9

\* The leaf loses the record of the key.
LEMMA OrderDeleteLeaf ==
    ASSUME NEW h, NEW N, NEW A, NEW K, TypeOK, Tall(h), Sorted, InOrder(N, A, K), DeleteLeaf
    PROVE  Sorted' /\ \E M : InOrder(M, A, K)'
  <1>1. /\ pc = "delete" /\ pc' = "rebalance" /\ WritePage(Last(path), LeafWithoutKey)
        /\ num_pages' = num_pages /\ root_id' = root_id /\ path' = path /\ level' = Len(path)
    BY DEF DeleteLeaf
  <1>2. LeafWithoutKey.type = "PAGE_LEAF" /\ Last(path) \in Pids /\ Ordered(LeafWithoutKey.slots)
    BY <1>1, WithoutKey, AtLeaf
  <1>3. PICK M : /\ Tree(M, A, K, root_id) /\ \A q \in A : M[q] = NodeOf(pages'[q])
                 /\ \A q \in A : Links(M[q]) = Links(N[q])
    BY <1>1, <1>2, AtLeaf, LeafWriteTree
  <1>4. Sorted' /\ Pids' = Pids
    BY <1>1, <1>2, WriteSorted
  <1>5. Mirrors(M, A)' /\ Live' = Live
    BY <1>1, <1>3, <1>4, AtLeaf
    DEF InOrder, Mirrors, Changing, Live, ParentSplitting, LeafSplitting
  <1>6. Down(M, A)'
    <2>1. ASSUME NEW i \in 1..(Live - 1) PROVE IsLink(M, path[i], path[i + 1])
      <3>1. i \in 1..Live
        BY <1>1, AtLeaf
      <3>2. path[i] \in A /\ IsLink(N, path[i], path[i + 1])
        BY <3>1 DEF InOrder, Down
      <3> QED
        BY <1>3, <3>2 DEF IsLink
    <2> QED
      BY <1>1, <1>5, <2>1 DEF InOrder, Down
  <1>7. /\ pc' \notin {"descend", "put", "split_alloc", "split_left", "split_right"}
        /\ pc' \notin {"split_next", "split_prev", "propagate"} \cup RootBuilding
        /\ pc' \notin ParentSplitting /\ pc' \notin Merging
    BY <1>1 DEF RootBuilding, ParentSplitting, Merging
  <1>8. Tree(M, A, K, root_id)'
    BY <1>1, <1>3
  <1>9. InOrder(M, A, K)'
    BY <1>5, <1>6, <1>7, <1>8, OtherOrders DEF InOrder
  <1> QED
    BY <1>4, <1>9

-----------------------------------------------------------------------------
(***************************************************************************)
(* The split of a leaf.                                                    *)
(***************************************************************************)

\* Nothing is in an empty page.
LEMMA EmptyData ==
    ASSUME NEW p, p.slots = << >>
    PROVE  data_size(p) = 0
  <1>1. DOMAIN p.slots = {}
    OBVIOUS
  <1> QED
    BY <1>1 DEF data_size, FoldLeft, MapThenFoldSet

\* A record fits in it.
LEMMA EmptyFits ==
    ASSUME RecordsFit, NEW p, p.slots = << >>, NEW r,
           IF p.type = "PAGE_LEAF" THEN r \in LeafRec ELSE r.key \in Keys
    PROVE  InsertFits(p, r)
  <1>1. data_size(p) = 0 /\ Len(p.slots) = 0
    BY EmptyData
  <1>2. PAGE_HEADER_SIZE + SLOT_SIZE + rec_size(p.type, r) <= PAGE_SIZE
    <2>1. CASE p.type = "PAGE_LEAF"
      BY <2>1 DEF RecordsFit, rec_size
    <2>2. CASE p.type # "PAGE_LEAF"
      <3>1. PICK k \in Keys : k = r.key
        BY <2>2
      <3>2. PAGE_HEADER_SIZE + SLOT_SIZE + 2 + KeyLen[k] + 4 <= PAGE_SIZE
        BY DEF RecordsFit
      <3>3. KeyLen[k] \in Nat
        BY LenAssumption
      <3>4. PAGE_HEADER_SIZE + SLOT_SIZE + (2 + KeyLen[k] + 4) <= PAGE_SIZE
        BY <3>2, <3>3 DEF PAGE_HEADER_SIZE, SLOT_SIZE, PAGE_SIZE
      <3> QED
        BY <2>2, <3>1, <3>4 DEF rec_size, internal_rec_size
    <2> QED
      BY <2>1, <2>2
  <1> QED
    BY <1>1, <1>2
    DEF InsertFits, free_offset, front_end, PAGE_HEADER_SIZE, SLOT_SIZE, PAGE_SIZE

\* The halves of records in order: the first is not empty when there are two records.
LEMMA OrderedHalves ==
    ASSUME NEW R, NEW s \in Seq(R), Ordered(s), Len(s) \in Nat, Len(s) > 1
    PROVE  LET a == SubSeq(s, 1, Len(s) \div 2)
               c == SubSeq(s, Len(s) \div 2 + 1, Len(s))
           IN  /\ a \in Seq(R) /\ c \in Seq(R) /\ Ordered(a) /\ Ordered(c)
               /\ Before(ToSet(a), ToSet(c))
               /\ ToSet(a) \cup ToSet(c) \subseteq ToSet(s)
               /\ \E t \in ToSet(s) : \A u \in ToSet(c) : t.key < u.key
  <1> DEFINE n == Len(s)
             m == n \div 2
             a == SubSeq(s, 1, m)
             c == SubSeq(s, m + 1, n)
  <1>1. n \in Nat /\ n > 1 /\ m \in Nat /\ 1 <= m /\ m < n /\ DOMAIN s = 1..n
    BY LenProperties
  <1> HIDE DEF m
  <1>2. /\ a \in Seq(R) /\ c \in Seq(R) /\ Ordered(a) /\ Ordered(c)
        /\ ToSet(a) = {s[i] : i \in 1..m} /\ ToSet(c) = {s[i] : i \in (m + 1)..n}
    BY <1>1, SubSeqType, OrderedPart
  <1> HIDE DEF a, c
  <1>3. ASSUME NEW i \in 1..m, NEW j \in (m + 1)..n PROVE s[i].key < s[j].key
    <2>1. i \in 1..n /\ j \in 1..n /\ i < j
      BY <1>1
    <2> QED
      BY <1>1, <2>1 DEF Ordered
  <1>4. Before(ToSet(a), ToSet(c))
    BY <1>2, <1>3 DEF Before
  <1>5. ToSet(a) \cup ToSet(c) \subseteq ToSet(s)
    <2>1. (1..m) \cup ((m + 1)..n) \subseteq 1..n
      BY <1>1
    <2> QED
      BY <1>1, <1>2, <2>1 DEF ToSet
  <1>6. s[1] \in ToSet(s) /\ \A u \in ToSet(c) : s[1].key < u.key
    <2>1. 1 \in 1..m /\ 1 \in 1..n
      BY <1>1
    <2> QED
      BY <1>1, <1>2, <1>3, <2>1 DEF ToSet
  <1> QED
    BY <1>2, <1>4, <1>5, <1>6 DEF a, c, m

\* Only the way matters to Down.
LEMMA StillDown ==
    ASSUME NEW N, NEW A, NEW K, InOrder(N, A, K), path' = path, Live' = Live
    PROVE  Down(N, A)'
  BY DEF InOrder, Down

\* The records of the leaf and the new one are cut in two; the left half is not empty.
LEMMA OrderPutSplit ==
    ASSUME RecordsFit, faults' = 0, NEW h, NEW N, NEW A, NEW K,
           TypeOK, Tall(h), Sorted, InOrder(N, A, K), PutSplit
    PROVE  Sorted' /\ InOrder(N, A, K)'
  <1> DEFINE u == LeafWithoutKey.slots
             s == MergeSorted(u, NewRec)
             Z == K[Last(path)]
  <1>1. /\ pc = "put" /\ pc' = "split_alloc" /\ path' = path /\ root_id' = root_id
        /\ pages' = pages /\ num_pages' = num_pages
        /\ ~InsertFits(LeafWithoutKey, NewRec)
    BY DEF PutSplit, store
  <1>2. PICK all : /\ all = s /\ buf'.slots = << >>
                   /\ todo' = SubSeq(all, 1, Len(all) \div 2)
                   /\ ra' = SubSeq(all, Len(all) \div 2 + 1, Len(all))
    BY NothingFails DEF PutSplit, EmptyPage, page_init
  <1>3. Len(u) # 0
    <2>1. u # << >>
      <3>1. LeafWithoutKey.type = "PAGE_LEAF" /\ NewRec \in LeafRec
        BY <1>1, WithoutKey, AtLeaf, CallType DEF Tall, Served
      <3> QED
        BY <1>1, <3>1, EmptyFits
    <2>2. u \in Seq(Records)
      BY <1>1, WithoutKey DEF Keyed
    <2> HIDE DEF u
    <2> QED
      BY <2>1, <2>2, EmptySeq
  <1>4. /\ s \in Seq(Records) /\ Ordered(s) /\ KeysIn(ToSet(s), Z)
        /\ Len(s) = Len(u) + 1 /\ u \in Seq(Records)
    BY <1>1, WithNewRec, WithoutKey DEF Keyed
  <1>5. Len(s) \in Nat /\ Len(s) > 1
    <2>1. Len(u) \in Nat
      BY <1>4, LenProperties
    <2> HIDE DEF u, s
    <2> QED
      BY <1>3, <1>4, <2>1
  <1> HIDE DEF s, u
  <1>6. /\ Ordered(todo') /\ Ordered(ra') /\ Before(ToSet(todo'), ToSet(ra'))
        /\ ToSet(todo') \cup ToSet(ra') \subseteq ToSet(s)
        /\ \E t \in ToSet(s) : \A e \in ToSet(ra') : t.key < e.key
    BY <1>2, <1>4, <1>5, OrderedHalves
  <1>7. ToSet(buf'.slots) = {} /\ Ordered(buf'.slots)
    BY <1>2, OrderedEmpty
  <1>8. InLine' /\ Before(ToSet(buf'.slots) \cup ToSet(todo'), ToSet(ra'))
    BY <1>6, <1>7 DEF InLine, Before
  <1>9. KeysIn(ToSet(buf'.slots) \cup ToSet(todo') \cup ToSet(ra'), Z)
    BY <1>4, <1>6, <1>7 DEF KeysIn
  <1>10. \E k \in Z : \A e \in ToSet(ra') : k < e.key
    BY <1>4, <1>6 DEF KeysIn
  <1>11. CutsLeaf(A, K)'
    BY <1>1, <1>6, <1>8, <1>9, <1>10 DEF CutsLeaf
  <1>12. /\ pc' \notin {"descend", "put"}
         /\ pc' \notin {"split_next", "split_prev", "propagate"} \cup RootBuilding
         /\ pc' \notin ParentSplitting /\ pc' \notin Merging
    BY <1>1 DEF RootBuilding, ParentSplitting, Merging
  <1>13. Changing' = Changing /\ Live' = Live /\ Quiet
    BY <1>1 DEF Changing, Live, ParentSplitting, LeafSplitting, Quiet
  <1>14. Tree(N, A, K, root_id)' /\ Mirrors(N, A)' /\ Down(N, A)'
    BY <1>1, <1>13, QuietTree, StillDown
  <1> QED
    BY <1>11, <1>12, <1>13, <1>14, OtherOrders, QuietKeeps DEF InOrder

\* A record more at the end of buf.
LEMMA PlaceInLine ==
    ASSUME TypeOK, InLine, todo # << >>, buf' = page_alloc_slot(buf, Head(todo)),
           todo' = Tail(todo)
    PROVE  /\ InLine' /\ buf'.first_child_id = buf.first_child_id
           /\ ToSet(buf'.slots) \subseteq ToSet(buf.slots) \cup ToSet(todo)
           /\ ToSet(todo') \subseteq ToSet(todo)
  <1> DEFINE b == buf.slots
             e == Head(todo)
             u == Tail(todo)
  <1>1. buf \in Page(Pids) /\ b \in Seq(Records) /\ todo \in Seq(Records)
    BY HaveKeys DEF TypeOK, Keyed
  <1>2. /\ Ordered(b) /\ Ordered(todo) /\ Before(ToSet(b), ToSet(todo))
    BY DEF InLine
  <1>3. /\ e \in Records /\ u \in Seq(Records) /\ ToSet(todo) = {e} \cup ToSet(u)
        /\ Ordered(u) /\ Before({e}, ToSet(u))
    BY <1>1, <1>2, OrderedHeadTail
  <1>4. /\ buf'.slots = b \/ buf'.slots = Append(b, e)
        /\ buf'.first_child_id = buf.first_child_id
    BY <1>1 DEF page_alloc_slot, Page
  <1> HIDE DEF b, e, u
  <1>5. ToSet(Append(b, e)) = ToSet(b) \cup {e} /\ Ordered(Append(b, e))
    <2>1. Before(ToSet(b), {e})
      BY <1>2, <1>3 DEF Before
    <2>2. ToSet(Append(b, e)) = ToSet(b) \cup {e}
          /\ (Ordered(b) /\ Before(ToSet(b), {e}) => Ordered(Append(b, e)))
      BY <1>1, <1>3, OrderedAppend
    <2> QED
      BY <1>2, <2>1, <2>2
  <1>6. Ordered(buf'.slots) /\ ToSet(buf'.slots) \subseteq ToSet(b) \cup {e}
    BY <1>2, <1>4, <1>5
  <1>7. Before(ToSet(buf'.slots), ToSet(u))
    BY <1>2, <1>3, <1>6 DEF Before
  <1>8. todo' = u
    BY DEF u
  <1> QED
    BY <1>3, <1>4, <1>6, <1>7, <1>8 DEF InLine, b

\* The loops around page_alloc_slot keep the order.
LEMMA OrderPlaceRecord ==
    ASSUME NEW N, NEW A, NEW K, TypeOK, Sorted, InOrder(N, A, K), PlaceRecord
    PROVE  Sorted' /\ (pc' # "undefined" => InOrder(N, A, K)')
  <1>1. /\ pc \in Filling /\ todo # << >> /\ pc' \in {pc, "undefined"}
        /\ buf' = page_alloc_slot(buf, Head(todo)) /\ todo' = Tail(todo)
        /\ pages' = pages /\ num_pages' = num_pages /\ root_id' = root_id /\ path' = path
        /\ level' = level /\ left' = left /\ ra' = ra /\ new_pid' = new_pid /\ sep' = sep
    BY DEF PlaceRecord, store
  <1>2. Quiet
    BY <1>1 DEF Quiet
  <1>3. ASSUME pc' = pc PROVE InOrder(N, A, K)'
    <2>1. InLine
      BY <1>1 DEF Filling, InOrder, CutsLeaf, CutsParent, Joins
    <2>2. /\ InLine' /\ buf'.first_child_id = buf.first_child_id
          /\ ToSet(buf'.slots) \subseteq ToSet(buf.slots) \cup ToSet(todo)
          /\ ToSet(todo') \subseteq ToSet(todo)
      BY <1>1, <2>1, PlaceInLine
    <2>3. CutsLeaf(A, K)'
      <3>1. CutsLeaf(A, K)
        BY DEF InOrder
      <3>2. CASE pc = "split_alloc"
        BY <1>1, <1>3, <2>2, <3>1, <3>2 DEF CutsLeaf, Before, KeysIn
      <3>3. CASE pc = "split_left"
        BY <1>1, <1>3, <2>2, <3>1, <3>3 DEF CutsLeaf, KeysIn
      <3> QED
        BY <1>1, <1>3, <3>2, <3>3, OtherOrders DEF Filling
    <2>4. CutsParent(N, A, K)'
      <3>1. CutsParent(N, A, K)
        BY DEF InOrder
      <3>2. CASE pc = "parent_left"
        BY <1>1, <1>3, <2>2, <3>1, <3>2 DEF CutsParent, Before
      <3> QED
        BY <1>1, <1>3, <3>2, OtherOrders DEF Filling, ParentSplitting
    <2>5. Joins(N)'
      <3>1. Joins(N)
        BY DEF InOrder
      <3>2. CASE pc = "merge_next"
        <4>1. LeftPid' = LeftPid /\ RightPid' = RightPid
          BY <1>1 DEF LeftPid, RightPid, LeftIndex, Parent
        <4>2. Ordered(buf'.slots)
          BY <2>2 DEF InLine
        <4> QED
          BY <1>1, <1>3, <2>2, <3>1, <3>2, <4>1, <4>2 DEF Joins
      <3> QED
        BY <1>1, <1>3, <3>2, OtherOrders DEF Filling, Merging
    <2>6. Looks(K)' /\ Rises(N, A, K)'
      BY <1>1, <1>3, OtherOrders DEF Filling, RootBuilding
    <2>7. Changing' = Changing /\ Live' = Live
      BY <1>1, <1>3 DEF Changing, Live
    <2> QED
      BY <1>1, <1>2, <2>3, <2>4, <2>5, <2>6, <2>7, QuietTree, StillDown DEF InOrder
  <1> QED
    BY <1>1, <1>2, <1>3, QuietKeeps

\* A new page is not in the tree.
LEMMA AllocTree ==
    ASSUME TypeOK, Sorted, NEW N, NEW A, NEW K, InOrder(N, A, K), NEW type, AllocPage(type),
           Changing' = Changing, root_id' = root_id
    PROVE  /\ Tree(N, A, K, root_id)' /\ Mirrors(N, A)' /\ Sorted'
           /\ new_pid' = num_pages /\ num_pages \notin A
           /\ \A q \in Pids : pages'[q] = pages[q]
  <1>1. /\ new_pid' = num_pages /\ num_pages' = num_pages + 1
        /\ pages' = [pid \in 0..num_pages |->
                        IF pid = num_pages THEN page_init(type) ELSE pages[pid]]
    BY DEF AllocPage
  <1>2. /\ num_pages \in Nat /\ Pids = 0..(num_pages - 1) /\ Pids' = 0..num_pages
        /\ num_pages \notin Pids /\ Pids \subseteq Pids'
    BY <1>1 DEF TypeOK, Pids
  <1>3. \A q \in Pids : pages'[q] = pages[q]
    BY <1>1, <1>2
  <1>4. pages'[num_pages].slots = << >> /\ \A q \in Pids' : q \in Pids \/ q = num_pages
    BY <1>1, <1>2 DEF page_init
  <1>5. Sorted'
    BY <1>3, <1>4, OrderedEmpty DEF Sorted
  <1>6. Tree(N, A, K, root_id)'
    BY DEF InOrder
  <1>7. Mirrors(N, A)' /\ num_pages \notin A
    BY <1>2, <1>3 DEF InOrder, Mirrors
  <1> QED
    BY <1>1, <1>3, <1>5, <1>6, <1>7

\* The separator is the first key of the right half.
LEMMA OrderSplitAlloc ==
    ASSUME NEW h, NEW N, NEW A, NEW K, TypeOK, Tall(h), Sorted, InOrder(N, A, K), SplitAlloc
    PROVE  Sorted' /\ InOrder(N, A, K)'
  <1> DEFINE Z == K[Last(path)]
  <1>1. /\ pc = "split_alloc" /\ pc' = "split_left" /\ todo = << >> /\ AllocPage("PAGE_LEAF")
        /\ path' = path /\ root_id' = root_id /\ todo' = ra
        /\ left' = [buf EXCEPT !.next_id = num_pages]
        /\ sep' = [key |-> Head(ra).key, child |-> num_pages]
        /\ buf'.slots = << >>
    BY DEF SplitAlloc, EmptyPage, page_init
  <1>2. Changing' = Changing /\ Live' = Live
    BY <1>1 DEF Changing, Live, ParentSplitting, LeafSplitting
  <1>3. /\ Tree(N, A, K, root_id)' /\ Mirrors(N, A)' /\ Sorted' /\ Down(N, A)'
        /\ new_pid' = num_pages /\ num_pages \notin A
    BY <1>1, <1>2, AllocTree, StillDown
  <1>4. /\ Ordered(buf.slots) /\ Ordered(ra)
        /\ Before(ToSet(buf.slots) \cup ToSet(todo), ToSet(ra))
        /\ KeysIn(ToSet(buf.slots) \cup ToSet(todo) \cup ToSet(ra), Z)
        /\ \E k \in Z : \A t \in ToSet(ra) : k < t.key
    BY <1>1 DEF InOrder, CutsLeaf, InLine
  <1>5. left'.slots = buf.slots
    BY <1>1 DEF TypeOK, Page
  <1>6. ra \in Seq(Records) /\ ra # << >> /\ \A t \in Records : t.key \in Int
    BY <1>1, HaveKeys DEF Tall, SplitsLeaf, Keyed
  <1>7. Head(ra) \in Records /\ Head(ra) \in ToSet(ra) /\ \A t \in ToSet(ra) : sep'.key <= t.key
    <2>1. /\ Head(ra) \in Records /\ Tail(ra) \in Seq(Records)
          /\ ToSet(ra) = {Head(ra)} \cup ToSet(Tail(ra))
          /\ Before({Head(ra)}, ToSet(Tail(ra)))
      BY <1>4, <1>6, OrderedHeadTail
    <2> DEFINE e == Head(ra)
    <2>2. sep'.key = e.key /\ e.key \in Int
      BY <1>1, <1>6, <2>1
    <2>3. \A t \in ToSet(Tail(ra)) : e.key < t.key
      BY <2>1 DEF Before
    <2>4. \A t \in ToSet(Tail(ra)) : t.key \in Int
      BY <1>6, <2>1, KeyOfSet DEF Keyed
    <2> HIDE DEF e
    <2>5. \A t \in ToSet(ra) : e.key <= t.key
      <3>1. ToSet(ra) = {e} \cup ToSet(Tail(ra))
        BY <2>1 DEF e
      <3> QED
        BY <2>2, <2>3, <2>4, <3>1
    <2> QED
      BY <2>1, <2>2, <2>5
  <1>8. /\ InLine' /\ Ordered(left'.slots) /\ ToSet(buf'.slots) = {}
    BY <1>1, <1>4, <1>5, OrderedEmpty DEF InLine, Before
  <1>9. /\ KeysIn(ToSet(left'.slots) \cup ToSet(buf'.slots) \cup ToSet(todo'), Z)
        /\ \A t \in ToSet(left'.slots) : t.key < sep'.key
        /\ \A t \in ToSet(buf'.slots) \cup ToSet(todo') : sep'.key <= t.key
    <2>1. \A t \in ToSet(buf.slots) : t.key < Head(ra).key
      BY <1>4, <1>7 DEF Before
    <2> QED
      BY <1>1, <1>4, <1>5, <1>7, <1>8, <2>1 DEF KeysIn
  <1>10. /\ sep'.child = new_pid' /\ new_pid' \notin A /\ sep'.key \in Z
         /\ \E k \in Z : k < sep'.key
    BY <1>1, <1>3, <1>4, <1>7 DEF KeysIn
  <1>11. CutsLeaf(A, K)'
    BY <1>1, <1>8, <1>9, <1>10 DEF CutsLeaf
  <1>12. /\ pc' \notin {"descend", "put"}
         /\ pc' \notin {"split_next", "split_prev", "propagate"} \cup RootBuilding
         /\ pc' \notin ParentSplitting /\ pc' \notin Merging
    BY <1>1 DEF RootBuilding, ParentSplitting, Merging
  <1> QED
    BY <1>3, <1>11, <1>12, OtherOrders DEF InOrder

\* Nor does it matter how much more there is, or whether less of the path is looked at.
LEMMA MoreDown ==
    ASSUME NEW N, NEW A, NEW K, InOrder(N, A, K), path' = path, Live \in Int, Live' \in Int,
           Live' <= Live, NEW M, NEW B,
           \A i \in 1..Live' : path[i] \in A => path[i] \in B,
           \A i \in 1..(Live' - 1) : path[i] \in A => Links(N[path[i]]) \subseteq Links(M[path[i]])
    PROVE  Down(M, B)'
  <1> DEFINE a == Live
             b == Live'
  <1>1. a \in Int /\ b \in Int /\ b <= a
    OBVIOUS
  <1> HIDE DEF a, b
  <1>2. /\ \A i \in 1..(b - 1) : i \in 1..a /\ i \in 1..(a - 1)
        /\ \A i \in 1..b : i \in 1..a
    BY <1>1
  <1>3. ASSUME NEW i \in 1..(Live' - 1) PROVE IsLink(M, path[i], path[i + 1])
    <2>1. i \in 1..Live /\ i \in 1..(Live - 1)
      BY <1>2 DEF a, b
    <2>2. path[i] \in A /\ IsLink(N, path[i], path[i + 1])
      BY <2>1 DEF InOrder, Down
    <2> QED
      BY <2>2 DEF IsLink
  <1>4. ASSUME NEW i \in 1..Live' PROVE path[i] \in B
    <2>1. i \in 1..Live
      BY <1>2 DEF a, b
    <2> QED
      BY <2>1 DEF InOrder, Down
  <1>5. path' = path
    OBVIOUS
  <1> QED
    BY <1>3, <1>4, <1>5 DEF Down

\* What the split of a leaf knows about the path and the leaf.
LEMMA InLeafSplit ==
    ASSUME NEW h, NEW N, NEW A, NEW K, TypeOK, Tall(h), InOrder(N, A, K), pc \in LeafSplitting
    PROVE  /\ Tree(N, A, K, root_id) /\ Mirrors(N, A) /\ Changing = {}
           /\ Len(path) \in Nat \ {0} /\ Last(path) = path[Len(path)]
           /\ \A i \in 1..Len(path) : path[i] \in A
           /\ \A i \in 1..(Len(path) - 1) : IsLink(N, path[i], path[i + 1])
           /\ Last(path) \in A /\ Last(path) \in Pids
           /\ pages[Last(path)].type = "PAGE_LEAF" /\ pages[Last(path)].slots \in Seq(Records)
           /\ \A q \in A : N[q] = NodeOf(pages[q])
  <1>1. pc \notin {"idle", "return"} /\ pc \notin ParentSplitting \cup {"merge_parent"}
    BY DEF LeafSplitting, ParentSplitting
  <1>2. Tree(N, A, K, root_id) /\ Mirrors(N, A) /\ Down(N, A) /\ Changing = {}
    BY <1>1 DEF InOrder, Changing
  <1>3. Len(path) \in Nat \ {0} /\ Last(path) = path[Len(path)]
    BY <1>1, PathType DEF Tall
  <1>4. Last(path) \in Pids /\ pages[Last(path)].type = "PAGE_LEAF"
    BY LeafAtEnd
  <1>5. pages[Last(path)].slots \in Seq(Records)
    BY <1>4, HaveKeys DEF Keyed
  <1>6. pc # "split_next" /\ pc # "split_prev" => Live = Len(path)
    BY DEF LeafSplitting, Live
  <1>7. Live = Len(path)
    BY DEF Live
  <1>8. Last(path) \in A
    BY <1>2, <1>3, <1>7 DEF Down
  <1> QED
    BY <1>2, <1>3, <1>4, <1>5, <1>7, <1>8 DEF Down, Mirrors

\* The leaf keeps the left half.
LEMMA OrderSplitWriteLeft ==
    ASSUME faults' = 0, NEW h, NEW N, NEW A, NEW K,
           TypeOK, Tall(h), Sorted, InOrder(N, A, K), SplitWriteLeft
    PROVE  Sorted' /\ \E M : InOrder(M, A, K)'
  <1>1. /\ pc = "split_left" /\ pc' = "split_right" /\ todo = << >>
        /\ num_pages' = num_pages /\ root_id' = root_id /\ path' = path /\ buf' = buf
        /\ new_pid' = new_pid /\ sep' = sep /\ WritePage(Last(path), left)
    BY NothingFails DEF SplitWriteLeft, locals
  <1>2. pc \in LeafSplitting /\ Changing' = {} /\ Live' = Len(path) /\ Live = Len(path)
    BY <1>1 DEF LeafSplitting, Changing, Live, ParentSplitting
  <1>3. /\ CutsLeaf(A, K) /\ Last(path) \in Pids /\ Last(path) \in A
        /\ Len(path) \in Nat
    BY <1>2, InLeafSplit DEF InOrder
  <1>4. /\ InLine /\ Ordered(left.slots) /\ KeysIn(ToSet(left.slots), K[Last(path)])
        /\ KeysIn(ToSet(buf.slots), K[Last(path)])
    BY <1>1, <1>3 DEF CutsLeaf, KeysIn
  <1>5. left.type = "PAGE_LEAF"
    BY <1>1, <1>2, NodeIsPage DEF Tall, SplitsLeaf
  <1>6. PICK M : /\ Tree(M, A, K, root_id) /\ \A q \in A : M[q] = NodeOf(pages'[q])
                 /\ \A q \in A : Links(M[q]) = Links(N[q])
    BY <1>1, <1>2, <1>3, <1>4, <1>5, InLeafSplit, LeafWriteTree
  <1>7. Sorted' /\ Pids' = Pids /\ pages'[Last(path)] = left
    BY <1>1, <1>3, <1>4, WriteSorted
  <1>8. Mirrors(M, A)'
    BY <1>2, <1>6, <1>7 DEF InOrder, Mirrors
  <1>9. Down(M, A)'
    <2>1. Live \in Int /\ Live' \in Int /\ Live' <= Live
      BY <1>2, <1>3
    <2>2. \A i \in 1..(Live' - 1) : path[i] \in A => Links(N[path[i]]) \subseteq Links(M[path[i]])
      BY <1>6
    <2> QED
      BY <1>1, <2>1, <2>2, MoreDown
  <1>10. Tree(M, A, K, root_id)'
    BY <1>1, <1>6
  <1>11. CutsLeaf(A, K)'
    BY <1>1, <1>3, <1>4, <1>7 DEF CutsLeaf, InLine
  <1>12. /\ pc' \notin {"descend", "put"}
         /\ pc' \notin {"split_next", "split_prev", "propagate"} \cup RootBuilding
         /\ pc' \notin ParentSplitting /\ pc' \notin Merging
    BY <1>1 DEF RootBuilding, ParentSplitting, Merging
  <1>13. InOrder(M, A, K)'
    BY <1>8, <1>9, <1>10, <1>11, <1>12, OtherOrders DEF InOrder
  <1> QED
    BY <1>7, <1>13

\* The new leaf is part of the tree, but hangs from no node yet.
LEMMA OrderSplitWriteRight ==
    ASSUME faults' = 0, NEW h, NEW N, NEW A, NEW K,
           TypeOK, Tall(h), Sorted, InOrder(N, A, K), SplitWriteRight
    PROVE  Sorted' /\ \E M, B, J : InOrder(M, B, J)'
  <1> DEFINE p == Last(path)
             n == new_pid
  <1>1. /\ pc = "split_right" /\ pc' = "split_next"
        /\ num_pages' = num_pages /\ root_id' = root_id /\ path' = path /\ level' = level
        /\ sep' = sep /\ WritePage(n, buf)
    BY NothingFails DEF SplitWriteRight, locals
  <1>2. /\ pc \in LeafSplitting /\ Changing' = {} /\ Live' = Len(path) /\ Live = Len(path)
        /\ pc # "split_alloc"
    BY <1>1 DEF LeafSplitting, Changing, Live, ParentSplitting
  <1>3. /\ Tree(N, A, K, root_id) /\ Len(path) \in Nat \ {0} /\ p = path[Len(path)] /\ p \in A
        /\ pages[p].type = "PAGE_LEAF" /\ \A q \in A : N[q] = NodeOf(pages[q])
        /\ A \subseteq Pids
    BY <1>2, InLeafSplit DEF Mirrors
  <1>4. /\ Ordered(buf.slots) /\ KeysIn(ToSet(buf.slots), K[p])
        /\ \A t \in ToSet(pages[p].slots) : t.key < sep.key
        /\ \A t \in ToSet(buf.slots) : sep.key <= t.key
        /\ sep.child = n /\ n \notin A /\ sep.key \in K[p] /\ \E k \in K[p] : k < sep.key
    BY <1>1 DEF InOrder, CutsLeaf
  <1>5. /\ level = Len(path) - 1 /\ buf.type = "PAGE_LEAF" /\ sep \in InternalRec(Pids)
        /\ n \in Pids
    BY <1>2, NodeIsPage DEF Tall, SplitsLeaf, TypeOK
  <1>6. Sorted' /\ Pids' = Pids /\ pages'[n] = buf /\ \A q \in Pids \ {n} : pages'[q] = pages[q]
    BY <1>1, <1>4, <1>5, WriteSorted
  <1>7. /\ \A t \in ToSet(buf.slots) : t.key \in Int
        /\ \A t \in ToSet(pages[p].slots) : t.key \in Int
    BY <1>3, HaveKeys, KeyOfSet
  <1> HIDE DEF p, n
  <1> DEFINE both == [type |-> "PAGE_LEAF", recs |-> ToSet(pages[p].slots) \cup ToSet(buf.slots),
                      first |-> pages[p].first_child_id]
  <1>8. PICK V : V = [q \in A |-> IF q = p THEN both ELSE N[q]]
    OBVIOUS
  <1> PICK B : B = A \cup {n}
    OBVIOUS
  <1>9. PICK M : M = [q \in B |-> NodeOf(pages'[q])]
    OBVIOUS
  <1>10. /\ V[p] = both /\ \A q \in A \ {p} : V[q] = N[q]
    BY <1>3, <1>8
  <1>11. N[p].type = "PAGE_LEAF" /\ N[p].recs = ToSet(pages[p].slots)
         /\ N[p].first = pages[p].first_child_id
    <2>1. N[p] = NodeOf(pages[p])
      BY <1>3
    <2> QED
      BY <1>3, <2>1 DEF NodeOf
  <1>12. M[n].type = "PAGE_LEAF" /\ M[n].recs = ToSet(buf.slots)
    <2>1. M[n] = NodeOf(buf)
      BY <1>6, <1>9
    <2> QED
      BY <1>5, <2>1 DEF NodeOf
  <1>13. \A q \in A : M[q] = N[q]
    BY <1>3, <1>4, <1>6, <1>9
  <1>14. Tree(V, A, K, root_id)
    <2>1. \A t \in N[p].recs : t.key \in K[p]
      BY <1>3 DEF Tree, Holds
    <2>2. /\ V[p].type = "PAGE_LEAF"
          /\ \A t \in V[p].recs : t.key \in K[p]
      BY <1>4, <1>10, <1>11, <2>1 DEF KeysIn
    <2> QED
      BY <1>3, <1>10, <1>11, <2>2, LeafRecs
  <1>15. \A q \in A : Links(V[q]) = Links(N[q])
    BY <1>10, <1>11 DEF Links
  <1>16. Links(V[p]) = {}
    BY <1>10 DEF Links
  <1>17. PICK J :
             LET e == [key |-> sep.key, child |-> n]
             IN  /\ Tree(M, B, J, root_id)
                 /\ Raised(M, B, J, root_id, p, e)
                 /\ \A g \in A : (\E l \in Links(V[g]) : l.child = p)
                                    => FitsAbove(M, B, J, g, p, e)
    <2>1. /\ M[p].type = V[p].type /\ M[p].first = V[p].first /\ M[n].type = V[p].type
          /\ M[p].recs \subseteq V[p].recs /\ M[n].recs \subseteq V[p].recs
          /\ \A t \in M[p].recs : t.key < sep.key
          /\ \A t \in M[n].recs : sep.key <= t.key
          /\ M[n].type = "PAGE_LEAF"
          /\ \A t \in V[p].recs : t.key \in Int
      BY <1>3, <1>4, <1>7, <1>10, <1>11, <1>12, <1>13
    <2>2. \A q \in A \ {p} : M[q] = V[q]
      BY <1>10, <1>13
    <2> HIDE DEF both
    <2>3. /\ p \in A /\ n \notin A /\ sep.key \in K[p] /\ \E k \in K[p] : k < sep.key
          /\ \A l \in Links(V[p]) : l.child # p
      BY <1>3, <1>4, <1>16
    <2> QED
      BY <1>14, <2>1, <2>2, <2>3, CutNode
  <1>18. sep = [key |-> sep.key, child |-> n]
    BY <1>4, <1>5 DEF InternalRec
  <1>19. Tree(M, B, J, root_id)'
    BY <1>1, <1>17
  <1>20. Mirrors(M, B)'
    BY <1>2, <1>3, <1>5, <1>6, <1>9 DEF Mirrors
  <1>21. Down(M, B)'
    <2>1. \A q \in A : Links(M[q]) = Links(N[q])
      BY <1>13
    <2>2. Live \in Int /\ Live' \in Int /\ Live' <= Live
      BY <1>2, <1>3
    <2>3. \A i \in 1..Live' : path[i] \in A => path[i] \in B
      OBVIOUS
    <2>4. \A i \in 1..(Live' - 1) : path[i] \in A => Links(N[path[i]]) \subseteq Links(M[path[i]])
      BY <2>1
    <2> QED
      BY <1>1, <2>2, <2>3, <2>4, MoreDown
  <1>22. level + 1 = Len(path) /\ path[level + 1] = p
    BY <1>3, <1>5
  <1>23. ASSUME level > 0 PROVE FitsAbove(M, B, J, path[level], p, sep)
    <2>1. level \in 1..(Len(path) - 1) /\ level \in 1..Len(path)
      BY <1>3, <1>5, <1>23
    <2>2. path[level] \in A /\ IsLink(N, path[level], path[level + 1])
      BY <1>2, <2>1, InLeafSplit
    <2>3. \E l \in Links(V[path[level]]) : l.child = p
      BY <1>15, <1>22, <2>2 DEF IsLink
    <2> QED
      BY <1>17, <1>18, <2>2, <2>3
  <1>24. Rises(M, B, J)'
    BY <1>1, <1>17, <1>18, <1>22, <1>23 DEF Rises, RootBuilding
  <1>25. /\ pc' \notin {"descend", "put", "split_alloc", "split_left", "split_right"}
         /\ pc' \notin ParentSplitting /\ pc' \notin Merging
    BY <1>1 DEF RootBuilding, ParentSplitting, Merging
  <1>26. InOrder(M, B, J)'
    BY <1>19, <1>20, <1>21, <1>24, <1>25, OtherOrders DEF InOrder
  <1> QED
    BY <1>6, <1>26

\* The links between the leaves are not the tree's.
LEMMA OrderSplitFix ==
    ASSUME faults' = 0, NEW h, NEW N, NEW A, NEW K, TypeOK, Tall(h), Sorted,
           InOrder(N, A, K), SplitFixNext \/ SplitFixPrev
    PROVE  Sorted' /\ InOrder(N, A, K)'
  <1>1. /\ pc \in {"split_next", "split_prev"} /\ pc' \in {"split_prev", "propagate"}
        /\ num_pages' = num_pages /\ root_id' = root_id /\ path' = path /\ level' = level
        /\ sep' = sep
    BY DEF SplitFixNext, SplitFixPrev, locals
  <1>2. Quiet
    <2>1. CASE SplitFixNext
      BY <2>1, NothingFails, QuietWrite DEF SplitFixNext
    <2>2. CASE SplitFixPrev
      BY <2>2, NothingFails, QuietWrite DEF SplitFixPrev
    <2> QED
      BY <2>1, <2>2
  <1>3. Changing' = Changing
    BY <1>1 DEF Changing, ParentSplitting
  <1>4. Live' = Live
    <2>1. pc \in LeafSplitting /\ level = Len(path) - 1 /\ Len(path) \in Nat
      BY <1>1, InLeafSplit DEF LeafSplitting, Tall, SplitsLeaf
    <2>2. level + 1 = Len(path)
      BY <2>1
    <2> QED
      BY <1>1, <2>1, <2>2 DEF Live, LeafSplitting
  <1>5. Rises(N, A, K)'
    BY <1>1 DEF InOrder, Rises, RootBuilding
  <1>6. /\ pc' \notin {"descend", "put", "split_alloc", "split_left", "split_right"}
        /\ pc' \notin ParentSplitting /\ pc' \notin Merging
    BY <1>1 DEF ParentSplitting, Merging
  <1> QED
    BY <1>1, <1>2, <1>3, <1>4, <1>5, <1>6, QuietTree, QuietKeeps, StillDown, OtherOrders
    DEF InOrder

-----------------------------------------------------------------------------
(***************************************************************************)
(* The separator goes up.                                                  *)
(***************************************************************************)

\* Records in order have different keys.
LEMMA OrderedKeys ==
    ASSUME NEW R, NEW s, Keyed(s, R), Ordered(s)
    PROVE  OneKeyEach(ToSet(s))
  <1>1. DOMAIN s = 1..Len(s) /\ Len(s) \in Nat /\ \A i \in 1..Len(s) : s[i].key \in Int
    BY LenProperties, ElementOfSeq DEF Keyed
  <1>2. ASSUME NEW i \in 1..Len(s), NEW j \in 1..Len(s), s[i].key = s[j].key PROVE i = j
    <2>1. i < j \/ j < i \/ i = j
      BY <1>1
    <2> QED
      BY <1>1, <1>2, <2>1 DEF Ordered
  <1> QED
    BY <1>1, <1>2 DEF OneKeyEach, ToSet

\* The parent and the separator, in it.
LEMMA SepInParent ==
    ASSUME NEW h, NEW N, NEW A, NEW K, TypeOK, Tall(h), Sorted, InOrder(N, A, K),
           pc = "propagate", level > 0
    PROVE  LET p == path[level]
               parent == pages[p]
               s == MergeSorted(parent.slots, sep)
           IN  /\ level \in Nat /\ p \in A /\ p \in Pids /\ parent.type = "PAGE_INTERNAL"
               /\ parent \in Page(Pids)
               /\ N[p] = NodeOf(parent) /\ sep.key \in Keys
               /\ s \in Seq(Records) /\ Ordered(s) /\ ToSet(s) = ToSet(parent.slots) \cup {sep}
               /\ Len(s) = Len(parent.slots) + 1 /\ parent.slots \in Seq(Records)
               /\ \A M : (/\ \A q \in A \ {p} : M[q] = N[q]
                          /\ M[p].type = N[p].type /\ M[p].first = N[p].first
                          /\ M[p].recs = ToSet(parent.slots) \cup {sep})
                      => Tree(M, A, K, root_id)
  <1> DEFINE p == path[level]
             parent == pages[p]
             c == path[level + 1]
             T == ToSet(parent.slots)
  <1>1. /\ p \in Pids /\ level \in 1..(Len(path) - 1) /\ h[p] \in Nat \ {0}
        /\ parent \in Nodes(Pids, h, h[p]) /\ sep \in InternalRec(Pids)
    BY SepFits DEF Tall, GoesUp
  <1>2. parent \in Page(Pids) /\ parent.type = "PAGE_INTERNAL" /\ parent.type # "PAGE_LEAF"
    BY <1>1, NodeIsPage
  <1>3. Keyed(parent.slots, Records) /\ Ordered(parent.slots)
    BY <1>1, HaveKeys DEF Sorted
  <1>4. /\ level \in Nat /\ level \in 1..(level + 1) /\ level \in 1..((level + 1) - 1)
    <2>1. level \in Nat \ {0}
      BY <1>1
    <2> QED
      BY <2>1
  <1>5. /\ Live = level + 1 /\ Changing = {}
    BY DEF Live, Changing, LeafSplitting, ParentSplitting
  <1>6. p \in A /\ IsLink(N, p, c)
    BY <1>4, <1>5 DEF InOrder, Down
  <1>7. N[p] = NodeOf(parent)
    BY <1>5, <1>6 DEF InOrder, Mirrors
  <1>8. /\ Tree(N, A, K, root_id) /\ Raised(N, A, K, root_id, c, sep)
        /\ FitsAbove(N, A, K, p, c, sep)
    BY DEF InOrder, Rises
  <1>9. sep.key \in Keys /\ sep.key \in Int /\ sep \in Records
    BY <1>1, KeysAssumption DEF InternalRec, Records
  <1> HIDE DEF p, parent, c, T
  <1>10. PICK l \in Links(N[p]) : l.child = c
    BY <1>6 DEF IsLink
  <1>11. N[p].type = parent.type /\ N[p].recs = T /\ N[p].first = parent.first_child_id
    BY <1>7 DEF NodeOf, T
  <1>12. \A t \in T : t.key \in Int
    BY <1>3, KeyOfSet DEF T
  <1>13. ASSUME NEW t \in T, t.key = sep.key PROVE FALSE
    <2>1. Strictly(T, l.low, sep.key)
      BY <1>8, <1>10, <1>11 DEF FitsAbove
    <2>2. sep.key < t.key
      BY <1>13, <2>1 DEF Strictly
    <2> QED
      BY <1>9, <1>13, <2>2
  <1>14. \A i \in 1..Len(parent.slots) : parent.slots[i].key # sep.key
    <2>1. DOMAIN parent.slots = 1..Len(parent.slots)
      BY <1>3, LenProperties DEF Keyed
    <2> QED
      BY <1>13, <2>1 DEF T, ToSet
  <1>15. /\ Ordered(MergeSorted(parent.slots, sep))
         /\ ToSet(MergeSorted(parent.slots, sep)) = T \cup {sep}
         /\ MergeSorted(parent.slots, sep) \in Seq(Records)
         /\ Len(MergeSorted(parent.slots, sep)) = Len(parent.slots) + 1
    BY <1>3, <1>9, <1>14, OrderedMerge DEF T
  <1>16. OneKeyEach(T)
    BY <1>3, OrderedKeys DEF T
  <1>17. ASSUME NEW M, \A q \in A \ {p} : M[q] = N[q],
                M[p].type = N[p].type, M[p].first = N[p].first, M[p].recs = T \cup {sep}
         PROVE  Tree(M, A, K, root_id)
    <2>1. Raised(N, A, K, root_id, l.child, sep) /\ FitsAbove(N, A, K, p, l.child, sep)
      BY <1>8, <1>10
    <2>2. /\ OneKeyEach(N[p].recs) /\ \A t \in N[p].recs : t.key \in Int
          /\ N[p].type # "PAGE_LEAF" /\ M[p].recs = N[p].recs \cup {sep}
      BY <1>2, <1>11, <1>12, <1>16, <1>17 DEF parent
    <2> QED
      BY <1>6, <1>8, <1>9, <1>10, <1>17, <2>1, <2>2, InsertSep
  <1> QED
    BY <1>1, <1>2, <1>3, <1>4, <1>6, <1>7, <1>9, <1>15, <1>17 DEF p, parent, T, Keyed

\* The separator goes into the parent, which has room.
LEMMA OrderParentInsert ==
    ASSUME NEW h, NEW N, NEW A, NEW K, TypeOK, Tall(h), Sorted, InOrder(N, A, K), ParentInsert
    PROVE  Sorted' /\ \E M : InOrder(M, A, K)'
  <1> DEFINE p == path[level]
             parent == pages[p]
             new == page_insert_slot(parent, Rank(parent.slots, sep.key) + 1, sep)
             s == MergeSorted(parent.slots, sep)
  <1>1. /\ pc = "propagate" /\ level > 0 /\ pc' = "return" /\ WritePage(p, new)
        /\ num_pages' = num_pages /\ root_id' = root_id
    BY DEF ParentInsert, ReturnWith
  <1>2. /\ p \in A /\ p \in Pids /\ parent \in Page(Pids) /\ N[p] = NodeOf(parent)
        /\ Ordered(s) /\ ToSet(s) = ToSet(parent.slots) \cup {sep}
    BY <1>1, SepInParent
  <1>3. /\ new.slots = s /\ new.type = parent.type
        /\ new.first_child_id = parent.first_child_id
    BY <1>2 DEF page_insert_slot, MergeSorted, Page
  <1> HIDE DEF s, new
  <1>4. Sorted' /\ Pids' = Pids /\ pages'[p] = new /\ \A q \in Pids \ {p} : pages'[q] = pages[q]
    BY <1>1, <1>2, <1>3, WriteSorted
  <1>5. A \subseteq Pids /\ \A q \in A : N[q] = NodeOf(pages[q])
    BY <1>1 DEF InOrder, Mirrors, Changing, ParentSplitting
  <1>6. PICK M : M = [q \in A |-> NodeOf(pages'[q])]
    OBVIOUS
  <1>7. \A q \in A : M[q] = NodeOf(pages'[q])
    BY <1>6
  <1>8. \A q \in A \ {p} : M[q] = N[q]
    BY <1>4, <1>5, <1>7
  <1>9. /\ M[p].type = N[p].type /\ M[p].first = N[p].first
        /\ M[p].recs = ToSet(parent.slots) \cup {sep}
    <2>1. M[p] = NodeOf(new)
      BY <1>2, <1>4, <1>7
    <2> QED
      BY <1>2, <1>3, <2>1 DEF NodeOf
  <1>10. Tree(M, A, K, root_id)
    BY <1>1, <1>8, <1>9, SepInParent
  <1>11. Tree(M, A, K, root_id)'
    BY <1>1, <1>10
  <1>12. InOrder(M, A, K)'
    BY <1>1, <1>4, <1>5, <1>7, <1>11, RestsInOrder
  <1> QED
    BY <1>4, <1>12

\* The tree already has the separator in the parent that is about to be split.
LEMMA OrderParentSplit ==
    ASSUME RecordsFit, faults' = 0, NEW h, NEW N, NEW A, NEW K,
           TypeOK, Tall(h), Sorted, InOrder(N, A, K), ParentSplit
    PROVE  Sorted' /\ \E M : InOrder(M, A, K)'
  <1> DEFINE p == path[level]
             parent == pages[p]
             s == MergeSorted(parent.slots, sep)
             T == ToSet(parent.slots) \cup {sep}
             with == [type |-> N[p].type, recs |-> T, first |-> N[p].first]
  <1>1. /\ pc = "propagate" /\ level > 0 /\ pc' = "parent_left" /\ path' = path
        /\ level' = level /\ pages' = pages /\ num_pages' = num_pages /\ root_id' = root_id
        /\ ~InsertFits(parent, sep)
    BY DEF ParentSplit, store
  <1>2. PICK all : /\ all = s /\ buf'.slots = << >>
                   /\ buf'.first_child_id = parent.first_child_id
                   /\ todo' = SubSeq(all, 1, Len(all) \div 2)
                   /\ ra' = SubSeq(all, Len(all) \div 2 + 1, Len(all))
    BY NothingFails DEF ParentSplit, page_init
  <1>3. /\ p \in A /\ p \in Pids /\ parent.type = "PAGE_INTERNAL" /\ sep.key \in Keys
        /\ N[p] = NodeOf(parent) /\ level \in Nat
        /\ s \in Seq(Records) /\ Ordered(s) /\ ToSet(s) = T
        /\ Len(s) = Len(parent.slots) + 1 /\ parent.slots \in Seq(Records)
    BY <1>1, SepInParent
  <1>4. Len(s) \in Nat /\ Len(s) > 1
    <2>1. parent.slots # << >>
      BY <1>1, <1>3, EmptyFits
    <2>2. Len(parent.slots) # 0 /\ Len(parent.slots) \in Nat
      BY <1>3, <2>1, EmptySeq, LenProperties
    <2> HIDE DEF s, parent
    <2> QED
      BY <1>3, <2>2
  <1> HIDE DEF s
  <1>5. /\ Ordered(todo') /\ Ordered(ra') /\ Before(ToSet(todo'), ToSet(ra'))
        /\ ToSet(todo') \cup ToSet(ra') \subseteq T
        /\ \E t \in T : \A e \in ToSet(ra') : t.key < e.key
    BY <1>2, <1>3, <1>4, OrderedHalves
  <1>6. PICK M : M = [q \in A |-> IF q = p THEN with ELSE N[q]]
    OBVIOUS
  <1>7. /\ \A q \in A \ {p} : M[q] = N[q]
        /\ M[p] = with
    BY <1>3, <1>6
  <1>8. /\ M[p].type = N[p].type /\ M[p].first = N[p].first /\ M[p].recs = T
        /\ N[p].type = parent.type /\ N[p].first = parent.first_child_id
        /\ N[p].recs = ToSet(parent.slots)
    <2>1. /\ N[p].type = parent.type /\ N[p].first = parent.first_child_id
          /\ N[p].recs = ToSet(parent.slots)
      BY <1>3 DEF NodeOf
    <2> QED
      BY <1>7, <2>1
  <1> HIDE DEF T, with
  <1>20. ASSUME NEW l \in Links(M[p]), l.child = p PROVE FALSE
    <2>1. /\ h[p] \in Nat \ {0} /\ parent \in Nodes(Pids, h, h[p])
          /\ sep \in Recs(Pids, h, h[p])
      BY <1>1, SepFits
    <2>2. parent.slots \in Seq(Recs(Pids, h, h[p])) /\ h[parent.first_child_id] = h[p] - 1
      BY <2>1, NodeIsPage DEF Nodes
    <2>3. \A t \in ToSet(parent.slots) : t \in Recs(Pids, h, h[p])
      BY <2>2, SetOfSeq
    <2>4. \A t \in T : h[t.child] = h[p] - 1
      BY <2>1, <2>3 DEF T, Recs
    <2>5. l.child = parent.first_child_id \/ \E t \in T : l.child = t.child
      BY <1>3, <1>8 DEF Links
    <2>6. h[l.child] = h[p] - 1
      BY <2>2, <2>4, <2>5
    <2> QED
      BY <1>20, <2>1, <2>6
  <1>9. Tree(M, A, K, root_id)
    BY <1>1, <1>7, <1>8, SepInParent DEF T
  <1>10. \A t \in T : t.key \in K[p]
    BY <1>3, <1>8, <1>9 DEF Tree, Holds
  <1>11. ToSet(buf'.slots) = {} /\ Ordered(buf'.slots)
    BY <1>2, OrderedEmpty
  <1>12. /\ InLine' /\ Before(ToSet(buf'.slots) \cup ToSet(todo'), ToSet(ra'))
    BY <1>5, <1>11 DEF InLine, Before
  <1>13. CutsParent(M, A, K)'
    <2>1. \E k \in K[p] : \A t \in ToSet(ra') : k < t.key
      BY <1>5, <1>10
    <2> QED
      BY <1>1, <1>2, <1>5, <1>8, <1>11, <1>12, <1>20, <2>1 DEF CutsParent
  <1>14. Tree(M, A, K, root_id)'
    BY <1>1, <1>9
  <1>15. Changing = {} /\ Changing' = {p} /\ Live = level + 1 /\ Live' = level
    BY <1>1 DEF Changing, Live, ParentSplitting, LeafSplitting
  <1>16. Mirrors(M, A)'
    <2>1. Pids' = Pids
      BY <1>1 DEF Pids
    <2> QED
      BY <1>1, <1>7, <1>8, <1>15, <2>1 DEF InOrder, Mirrors
  <1>17. Down(M, A)'
    <2>1. \A q \in A : Links(N[q]) \subseteq Links(M[q])
      BY <1>7, <1>8 DEF Links, T
    <2>2. Live \in Int /\ Live' \in Int /\ Live' <= Live
      BY <1>3, <1>15
    <2>3. \A i \in 1..(Live' - 1) : path[i] \in A => Links(N[path[i]]) \subseteq Links(M[path[i]])
      BY <2>1
    <2> QED
      BY <1>1, <2>2, <2>3, MoreDown
  <1>18. /\ pc' \notin {"descend", "put", "split_alloc", "split_left", "split_right"}
         /\ pc' \notin {"split_next", "split_prev", "propagate"} \cup RootBuilding
         /\ pc' \notin Merging
    BY <1>1 DEF RootBuilding, Merging
  <1>19. InOrder(M, A, K)'
    BY <1>13, <1>14, <1>16, <1>17, <1>18, OtherOrders DEF InOrder
  <1>21. Sorted'
    BY <1>1 DEF Sorted, Pids
  <1> QED
    BY <1>19, <1>21

\* What the steps of a parent split work on.
LEMMA InParentSplit ==
    ASSUME NEW h, NEW N, NEW A, NEW K, TypeOK, Tall(h), InOrder(N, A, K), pc \in ParentSplitting
    PROVE  /\ Tree(N, A, K, root_id) /\ A \subseteq Pids /\ CutsParent(N, A, K)
           /\ Changing = {path[level]} /\ Live = level /\ level \in Nat \ {0}
           /\ path[level] \in A /\ path[level] \in Pids
           /\ N[path[level]].type = "PAGE_INTERNAL" /\ N[path[level]].type = pages[path[level]].type
           /\ N[path[level]].first = pages[path[level]].first_child_id
           /\ \A q \in A \ {path[level]} : N[q] = NodeOf(pages[q])
           /\ buf.type = "PAGE_INTERNAL" /\ buf \in Nodes(Pids, h, h[path[level]])
           /\ \A t \in N[path[level]].recs : t.key \in Int
           /\ \A l \in Links(N[path[level]]) : l.child # path[level]
  <1> DEFINE p == path[level]
  <1>1. /\ Tree(N, A, K, root_id) /\ Mirrors(N, A) /\ Down(N, A) /\ CutsParent(N, A, K)
        /\ Changing = {p} /\ Live = level
    BY DEF InOrder, Changing, Live, ParentSplitting, LeafSplitting
  <1>2. p \in Pids /\ level \in 1..(Len(path) - 1) /\ h[p] \in Nat \ {0}
    BY ParentSplitType
  <1>3. level \in Nat \ {0} /\ level \in 1..level
    BY <1>2
  <1>4. p \in A
    BY <1>1, <1>3 DEF Down
  <1>5. /\ N[p].type = pages[p].type /\ N[p].first = pages[p].first_child_id
        /\ \A q \in A \ {p} : N[q] = NodeOf(pages[q]) /\ A \subseteq Pids
    BY <1>1, <1>4 DEF Mirrors
  <1>6. p \notin Unwritten
    <2>1. pc \in {"parent_median", "parent_right"} => new_pid \notin A
      BY <1>1 DEF CutsParent
    <2> QED
      BY <1>4, <2>1 DEF Unwritten, ParentSplitting, RootBuilding
  <1>7. pages[p].type = "PAGE_INTERNAL"
    <2>1. pages[p] \in Nodes(Pids, h, h[p])
      BY <1>2, <1>6, NodeAt DEF Tall
    <2> QED
      BY <1>2, <2>1, NodeIsPage
  <1>8. buf \in Nodes(Pids, h, h[p]) /\ buf.type = "PAGE_INTERNAL"
    <2>1. buf \in Nodes(Pids, h, h[p])
      BY DEF Tall, SplitsParent
    <2> QED
      BY <1>2, <2>1, NodeIsPage
  <1>9. \A t \in N[p].recs : t.key \in Int
    BY <1>1, <1>4 DEF Tree, Holds
  <1>10. \A l \in Links(N[p]) : l.child # p
    BY <1>1 DEF CutsParent
  <1> QED
    BY <1>1, <1>2, <1>3, <1>4, <1>5, <1>7, <1>8, <1>9, <1>10

\* The left half of the parent is on disk.
LEMMA OrderParentWriteLeft ==
    ASSUME faults' = 0, NEW h, NEW N, NEW A, NEW K,
           TypeOK, Tall(h), Sorted, InOrder(N, A, K), ParentWriteLeft
    PROVE  Sorted' /\ InOrder(N, A, K)'
  <1> DEFINE p == path[level]
  <1>1. /\ pc = "parent_left" /\ pc' = "parent_alloc" /\ todo = << >>
        /\ WritePage(p, buf) /\ path' = path /\ level' = level /\ ra' = ra
        /\ num_pages' = num_pages /\ root_id' = root_id
    BY NothingFails DEF ParentWriteLeft, locals
  <1>2. pc \in ParentSplitting
    BY <1>1 DEF ParentSplitting
  <1>3. /\ Tree(N, A, K, root_id) /\ A \subseteq Pids /\ CutsParent(N, A, K)
        /\ Changing = {p} /\ Live = level /\ p \in A /\ p \in Pids
        /\ N[p].type = "PAGE_INTERNAL" /\ N[p].first = pages[p].first_child_id
        /\ \A q \in A \ {p} : N[q] = NodeOf(pages[q])
        /\ buf.type = "PAGE_INTERNAL"
    BY <1>2, InParentSplit
  <1>4. /\ Ordered(buf.slots) /\ Before(ToSet(buf.slots) \cup ToSet(todo), ToSet(ra))
        /\ ToSet(buf.slots) \cup ToSet(todo) \subseteq N[p].recs
        /\ buf.first_child_id = pages[p].first_child_id
        /\ Ordered(ra) /\ ToSet(ra) \subseteq N[p].recs
        /\ \E k \in K[p] : \A t \in ToSet(ra) : k < t.key
        /\ \A l \in Links(N[p]) : l.child # p
    BY <1>1, <1>2, <1>3 DEF CutsParent, InLine
  <1>5. /\ Sorted' /\ Pids' = Pids /\ pages'[p] = buf
        /\ \A q \in Pids \ {p} : pages'[q] = pages[q]
    BY <1>1, <1>3, <1>4, WriteSorted
  <1>6. Changing' = {p} /\ Live' = level
    BY <1>1 DEF Changing, Live, ParentSplitting, LeafSplitting
  <1>7. Mirrors(N, A)'
    BY <1>3, <1>4, <1>5, <1>6 DEF Mirrors
  <1>8. Tree(N, A, K, root_id)' /\ Down(N, A)'
    BY <1>1, <1>3, <1>6, StillDown
  <1>9. CutsParent(N, A, K)'
    <2>1. Before(ToSet(buf.slots), ToSet(ra))
      BY <1>4 DEF Before
    <2> QED
      BY <1>1, <1>4, <1>5, <2>1 DEF CutsParent
  <1>10. /\ pc' \notin {"descend", "put", "split_alloc", "split_left", "split_right"}
         /\ pc' \notin {"split_next", "split_prev", "propagate"} \cup RootBuilding
         /\ pc' \notin Merging
    BY <1>1 DEF RootBuilding, Merging
  <1> QED
    BY <1>5, <1>7, <1>8, <1>9, <1>10, OtherOrders DEF InOrder

\* The median is the new separator, its child the first child of the right half.
LEMMA OrderParentAlloc ==
    ASSUME NEW h, NEW N, NEW A, NEW K, TypeOK, Tall(h), Sorted, InOrder(N, A, K), ParentAlloc
    PROVE  Sorted' /\ InOrder(N, A, K)'
  <1> DEFINE p == path[level]
             R == N[p].recs
             e == Head(ra)
  <1>1. /\ pc = "parent_alloc" /\ pc' = "parent_median" /\ AllocPage("PAGE_INTERNAL")
        /\ path' = path /\ level' = level /\ root_id' = root_id /\ todo' = Tail(ra)
        /\ sep' = [key |-> Head(ra).key, child |-> num_pages]
        /\ buf'.slots = << >> /\ buf'.first_child_id = Head(ra).child
    BY DEF ParentAlloc, page_init
  <1>2. pc \in ParentSplitting
    BY <1>1 DEF ParentSplitting
  <1>3. p \in A /\ p \in Pids /\ level \in Nat \ {0} /\ A \subseteq Pids
    BY <1>2, InParentSplit
  <1>4. /\ Ordered(ra) /\ ToSet(ra) \subseteq R
        /\ \E k \in K[p] : \A t \in ToSet(ra) : k < t.key
        /\ ToSet(pages[p].slots) \subseteq R /\ Before(ToSet(pages[p].slots), ToSet(ra))
        /\ \A l \in Links(N[p]) : l.child # p
    BY <1>1, <1>2 DEF InOrder, CutsParent
  <1>5. Changing' = Changing /\ Live' = Live
    BY <1>1 DEF Changing, Live, ParentSplitting, LeafSplitting
  <1>6. /\ Tree(N, A, K, root_id)' /\ Mirrors(N, A)' /\ Sorted' /\ Down(N, A)'
        /\ new_pid' = num_pages /\ num_pages \notin A
        /\ pages'[p] = pages[p]
    BY <1>1, <1>3, <1>5, AllocTree, StillDown
  <1>7. ra \in Seq(Records) /\ ra # << >>
    BY <1>1, <1>2, HaveKeys DEF Tall, SplitsParent, Keyed
  <1>8. /\ ToSet(ra) = {e} \cup ToSet(Tail(ra)) /\ Ordered(Tail(ra))
        /\ Before({e}, ToSet(Tail(ra)))
    BY <1>4, <1>7, OrderedHeadTail
  <1>9. /\ e \in R /\ ToSet(Tail(ra)) \subseteq R /\ e \in ToSet(ra)
        /\ \A t \in ToSet(pages[p].slots) : t.key < e.key
        /\ \A t \in ToSet(Tail(ra)) : e.key < t.key
        /\ \E k \in K[p] : k < e.key
    BY <1>4, <1>8 DEF Before
  <1>10. sep'.key = e.key /\ buf'.first_child_id = e.child /\ todo' = Tail(ra)
    BY <1>1
  <1>11. ToSet(buf'.slots) = {} /\ Ordered(buf'.slots)
    BY <1>1, OrderedEmpty
  <1> HIDE DEF e
  <1>12. InLine'
    BY <1>8, <1>10, <1>11 DEF InLine, Before
  <1>13. CutsParent(N, A, K)'
    BY <1>1, <1>4, <1>6, <1>9, <1>10, <1>11, <1>12 DEF CutsParent
  <1>14. /\ pc' \notin {"descend", "put", "split_alloc", "split_left", "split_right"}
         /\ pc' \notin {"split_next", "split_prev", "propagate"} \cup RootBuilding
         /\ pc' \notin Merging
    BY <1>1 DEF RootBuilding, Merging
  <1> QED
    BY <1>6, <1>13, <1>14, OtherOrders DEF InOrder

\* The right half is filled; only parents of pages change.
LEMMA OrderPlaceChild ==
    ASSUME faults' = 0, NEW h, NEW N, NEW A, NEW K,
           TypeOK, Tall(h), Sorted, InOrder(N, A, K), ParentSetMedian \/ PlaceChild
    PROVE  Sorted' /\ (pc' # "undefined" => InOrder(N, A, K)')
  <1> DEFINE p == path[level]
             R == N[p].recs
  <1>1. /\ pc \in {"parent_median", "parent_right"} /\ path' = path /\ level' = level
        /\ pc' \in {"parent_right", "undefined"} /\ sep' = sep /\ new_pid' = new_pid
        /\ root_id' = root_id /\ num_pages' = num_pages
    BY DEF ParentSetMedian, PlaceChild, locals
  <1>2. pc \in ParentSplitting
    BY <1>1 DEF ParentSplitting
  <1>3. p \in A /\ p \in Pids /\ A \subseteq Pids
    BY <1>2, InParentSplit
  <1>4. /\ ToSet(pages[p].slots) \subseteq R
        /\ \A t \in ToSet(pages[p].slots) : t.key < sep.key
        /\ InLine /\ ToSet(buf.slots) \cup ToSet(todo) \subseteq R
        /\ \A t \in ToSet(buf.slots) \cup ToSet(todo) : sep.key < t.key
        /\ \E t \in R : t.key = sep.key /\ t.child = buf.first_child_id
        /\ \E k \in K[p] : k < sep.key
        /\ new_pid \notin A
        /\ \A l \in Links(N[p]) : l.child # p
    BY <1>1, <1>2 DEF InOrder, CutsParent
  <1>5. Quiet
    <2>1. PICK c : SetParent(c, new_pid)
      BY DEF ParentSetMedian, PlaceChild
    <2>2. WritePage(c, [pages[c] EXCEPT !.parent_id = new_pid])
      BY <2>1, NothingFails DEF SetParent
    <2> QED
      BY <1>1, <2>2, QuietWrite
  <1>6. /\ InLine' /\ buf'.first_child_id = buf.first_child_id
        /\ ToSet(buf'.slots) \subseteq ToSet(buf.slots) \cup ToSet(todo)
        /\ ToSet(todo') \subseteq ToSet(todo)
    <2>1. CASE ParentSetMedian
      <3>1. buf' = buf /\ todo' = todo
        BY <2>1 DEF ParentSetMedian, locals
      <3> QED
        BY <1>4, <3>1 DEF InLine
    <2>2. CASE PlaceChild
      BY <1>4, <2>2, PlaceInLine DEF PlaceChild
    <2> QED
      BY <2>1, <2>2
  <1>7. Sorted' /\ pages'[p].slots = pages[p].slots
    BY <1>3, <1>5, QuietKeeps DEF Quiet
  <1>8. ASSUME pc' # "undefined" PROVE InOrder(N, A, K)'
    <2>1. pc' = "parent_right"
      BY <1>1, <1>8
    <2>2. Changing' = Changing /\ Live' = Live
      BY <1>1, <2>1 DEF Changing, Live, ParentSplitting, LeafSplitting
    <2>3. Tree(N, A, K, root_id)' /\ Mirrors(N, A)' /\ Down(N, A)'
      BY <1>1, <1>5, <2>2, QuietTree, StillDown
    <2>4. /\ ToSet(buf'.slots) \cup ToSet(todo') \subseteq R
          /\ \A t \in ToSet(buf'.slots) \cup ToSet(todo') : sep.key < t.key
      BY <1>4, <1>6
    <2>5. CutsParent(N, A, K)'
      BY <1>1, <1>4, <1>6, <1>7, <2>1, <2>4 DEF CutsParent
    <2>6. /\ pc' \notin {"descend", "put", "split_alloc", "split_left", "split_right"}
          /\ pc' \notin {"split_next", "split_prev", "propagate"} \cup RootBuilding
          /\ pc' \notin Merging
      BY <2>1 DEF RootBuilding, Merging
    <2> QED
      BY <2>3, <2>5, <2>6, OtherOrders DEF InOrder
  <1> QED
    BY <1>7, <1>8

\* The right half is on disk: the tree has a node more, and its separator goes up.
LEMMA OrderParentWriteRight ==
    ASSUME faults' = 0, NEW h, NEW N, NEW A, NEW K,
           TypeOK, Tall(h), Sorted, InOrder(N, A, K), ParentWriteRight
    PROVE  Sorted' /\ \E M, B, J : InOrder(M, B, J)'
  <1> DEFINE p == path[level]
             n == new_pid
  <1>1. /\ pc = "parent_right" /\ pc' = "propagate" /\ todo = << >>
        /\ num_pages' = num_pages /\ root_id' = root_id /\ path' = path /\ level' = level - 1
        /\ sep' = sep /\ WritePage(n, buf)
    BY NothingFails DEF ParentWriteRight
  <1>2. pc \in ParentSplitting
    BY <1>1 DEF ParentSplitting
  <1>3. /\ Tree(N, A, K, root_id) /\ A \subseteq Pids /\ Live = level
        /\ level \in Nat \ {0} /\ p \in A /\ p \in Pids
        /\ N[p].type = "PAGE_INTERNAL" /\ N[p].type = pages[p].type
        /\ N[p].first = pages[p].first_child_id
        /\ \A q \in A \ {p} : N[q] = NodeOf(pages[q])
        /\ buf.type = "PAGE_INTERNAL"
        /\ \A t \in N[p].recs : t.key \in Int
        /\ \A l \in Links(N[p]) : l.child # p
    BY <1>2, InParentSplit
  <1>4. /\ ToSet(pages[p].slots) \subseteq N[p].recs
        /\ \A t \in ToSet(pages[p].slots) : t.key < sep.key
        /\ Ordered(buf.slots) /\ ToSet(buf.slots) \subseteq N[p].recs
        /\ \A t \in ToSet(buf.slots) : sep.key < t.key
        /\ \E t \in N[p].recs : t.key = sep.key /\ t.child = buf.first_child_id
        /\ \E k \in K[p] : k < sep.key
        /\ n \notin A
    BY <1>1 DEF InOrder, CutsParent, InLine
  <1>5. /\ level \in 1..(Len(path) - 1) /\ sep \in InternalRec(Pids) /\ sep.child = n
        /\ n \in Pids
    BY <1>1, <1>2 DEF Tall, SplitsParent, TypeOK
  <1>6. /\ Sorted' /\ Pids' = Pids /\ pages'[n] = buf
        /\ \A q \in Pids \ {n} : pages'[q] = pages[q]
    BY <1>1, <1>4, <1>5, WriteSorted
  <1>7. Changing' = {} /\ Live' = level
    <2>1. (level - 1) + 1 = level
      BY <1>3
    <2> QED
      BY <1>1, <2>1 DEF Changing, Live, ParentSplitting, LeafSplitting
  <1>8. ASSUME NEW i \in 1..(level - 1) PROVE path[i] # p
    <2>1. pc \notin {"idle", "return"}
      BY <1>1
    <2>2. level \in 1..Len(path) /\ Len(path) \in Nat
      BY <1>5, LenProperties DEF TypeOK
    <2> QED
      BY <1>8, <2>1, <2>2, PathFalls DEF Tall
  <1> HIDE DEF p, n
  <1> PICK B : B = A \cup {n}
    OBVIOUS
  <1>9. PICK M : M = [q \in B |-> NodeOf(pages'[q])]
    OBVIOUS
  <1>10. \A q \in A \ {p} : M[q] = N[q]
    BY <1>3, <1>4, <1>6, <1>9
  <1>11. /\ M[p].type = N[p].type /\ M[p].first = N[p].first
         /\ M[p].recs = ToSet(pages[p].slots)
    <2>1. M[p] = NodeOf(pages[p])
      BY <1>3, <1>4, <1>6, <1>9
    <2> QED
      BY <1>3, <2>1 DEF NodeOf
  <1>12. /\ M[n].type = "PAGE_INTERNAL" /\ M[n].recs = ToSet(buf.slots)
         /\ M[n].first = buf.first_child_id
    <2>1. M[n] = NodeOf(buf)
      BY <1>6, <1>9
    <2> QED
      BY <1>3, <2>1 DEF NodeOf
  <1>13. sep.key \in K[p] /\ sep.key \in Int
    BY <1>3, <1>4 DEF Tree, Holds
  <1>14. PICK J :
             LET e == [key |-> sep.key, child |-> n]
             IN  /\ Tree(M, B, J, root_id)
                 /\ Raised(M, B, J, root_id, p, e)
                 /\ \A g \in A : (\E l \in Links(N[g]) : l.child = p)
                                    => FitsAbove(M, B, J, g, p, e)
    <2>1. /\ M[n].type = N[p].type
          /\ M[p].recs \subseteq N[p].recs /\ M[n].recs \subseteq N[p].recs
          /\ \A t \in M[p].recs : t.key < sep.key
      BY <1>3, <1>4, <1>11, <1>12
    <2>2. /\ \A t \in M[n].recs : sep.key < t.key
          /\ \E t \in N[p].recs : t.key = sep.key /\ t.child = M[n].first
      BY <1>4, <1>12
    <2>3. \A t \in M[n].recs : sep.key <= t.key
      <3>1. \A t \in M[n].recs : t.key \in Int
        BY <1>3, <2>1
      <3> QED
        BY <1>13, <2>2, <3>1
    <2> QED
      BY <1>3, <1>4, <1>10, <1>11, <1>13, <2>1, <2>2, <2>3, CutNode
  <1>15. sep = [key |-> sep.key, child |-> n]
    BY <1>5 DEF InternalRec
  <1>16. Tree(M, B, J, root_id)'
    BY <1>1, <1>14
  <1>17. Mirrors(M, B)'
    BY <1>3, <1>5, <1>6, <1>7, <1>9 DEF Mirrors
  <1>18. Down(M, B)'
    <2>1. \A i \in 1..(level - 1) : path[i] \in A => M[path[i]] = N[path[i]]
      BY <1>8, <1>10
    <2>2. Live \in Int /\ Live' \in Int /\ Live' <= Live
      BY <1>3, <1>7
    <2>3. \A i \in 1..Live' : path[i] \in A => path[i] \in B
      OBVIOUS
    <2>4. \A i \in 1..(Live' - 1) : path[i] \in A => Links(N[path[i]]) \subseteq Links(M[path[i]])
      BY <1>7, <2>1
    <2> QED
      BY <1>1, <2>2, <2>3, <2>4, MoreDown
  <1>19. path[level' + 1] = p
    <2>1. (level - 1) + 1 = level
      BY <1>3
    <2> QED
      BY <1>1, <2>1 DEF p
  <1>20. ASSUME level' > 0 PROVE FitsAbove(M, B, J, path[level'], p, sep)
    <2>1. level - 1 \in 1..(level - 1) /\ level - 1 \in 1..level
      BY <1>1, <1>3, <1>20
    <2>2. path[level - 1] \in A /\ IsLink(N, path[level - 1], path[level - 1 + 1])
      BY <1>3, <2>1 DEF InOrder, Down
    <2>3. \E l \in Links(N[path[level - 1]]) : l.child = p
      BY <1>1, <1>19, <2>2 DEF IsLink
    <2> QED
      BY <1>1, <1>14, <1>15, <2>2, <2>3
  <1>21. Rises(M, B, J)'
    BY <1>1, <1>14, <1>15, <1>19, <1>20 DEF Rises, RootBuilding
  <1>22. /\ pc' \notin {"descend", "put", "split_alloc", "split_left", "split_right"}
         /\ pc' \notin ParentSplitting /\ pc' \notin Merging
    BY <1>1 DEF RootBuilding, ParentSplitting, Merging
  <1>23. InOrder(M, B, J)'
    BY <1>16, <1>17, <1>18, <1>21, <1>22, OtherOrders DEF InOrder
  <1> QED
    BY <1>6, <1>23

-----------------------------------------------------------------------------
(***************************************************************************)
(* The steps: a new root.                                                  *)
(***************************************************************************)

\* The page of the new root is not in the tree yet.
LEMMA OrderNewRootAlloc ==
    ASSUME NEW h, NEW N, NEW A, NEW K, TypeOK, Tall(h), Sorted, InOrder(N, A, K), NewRootAlloc
    PROVE  Sorted' /\ InOrder(N, A, K)'
  <1>1. /\ pc = "propagate" /\ pc' = "root_left" /\ level = 0 /\ AllocPage("PAGE_INTERNAL")
        /\ root_id' = root_id /\ sep' = sep
        /\ buf'.slots = << >> /\ buf'.first_child_id = root_id
    BY DEF NewRootAlloc, page_init
  <1>2. Changing = {} /\ Changing' = {} /\ Live' = 0
    BY <1>1 DEF Changing, Live, ParentSplitting, LeafSplitting
  <1>3. /\ Tree(N, A, K, root_id)' /\ Mirrors(N, A)' /\ Sorted'
        /\ new_pid' = num_pages /\ num_pages \notin A
    BY <1>1, <1>2, AllocTree
  <1>4. Down(N, A)'
    BY <1>2 DEF Down
  <1>5. Raised(N, A, K, root_id, root_id, sep)
    <2>1. path[1] = root_id
      BY <1>1 DEF Tall, Walked
    <2>2. Raised(N, A, K, root_id, path[level + 1], sep) /\ level + 1 = 1
      BY <1>1 DEF InOrder, Rises
    <2> QED
      BY <2>1, <2>2
  <1>6. ToSet(buf'.slots) = {} /\ Ordered(buf'.slots)
    BY <1>1, OrderedEmpty
  <1>7. Rises(N, A, K)'
    BY <1>1, <1>3, <1>5, <1>6 DEF Rises, RootBuilding
  <1>8. /\ pc' \notin {"descend", "put", "split_alloc", "split_left", "split_right"}
        /\ pc' \notin ParentSplitting /\ pc' \notin Merging
    BY <1>1 DEF ParentSplitting, Merging
  <1> QED
    BY <1>3, <1>4, <1>7, <1>8, OtherOrders DEF InOrder

\* The children of the new root are told; the separator goes into it.
LEMMA OrderNewRootSet ==
    ASSUME faults' = 0, NEW N, NEW A, NEW K,
           TypeOK, Sorted, InOrder(N, A, K), NewRootSetLeft \/ NewRootSetRight
    PROVE  Sorted' /\ (pc' # "undefined" => InOrder(N, A, K)')
  <1>1. /\ pc \in {"root_left", "root_right"}
        /\ pc' \in {"root_right", "root_write", "undefined"}
        /\ root_id' = root_id /\ num_pages' = num_pages /\ sep' = sep /\ new_pid' = new_pid
    BY DEF NewRootSetLeft, NewRootSetRight, locals
  <1>2. /\ Raised(N, A, K, root_id, root_id, sep)
        /\ new_pid \notin A /\ buf.first_child_id = root_id
        /\ ToSet(buf.slots) \subseteq {sep} /\ Ordered(buf.slots)
        /\ pc = "root_left" => buf.slots = << >>
    BY <1>1 DEF InOrder, Rises, RootBuilding
  <1>3. Quiet
    <2>1. PICK c : SetParent(c, new_pid)
      BY DEF NewRootSetLeft, NewRootSetRight
    <2>2. WritePage(c, [pages[c] EXCEPT !.parent_id = new_pid])
      BY <2>1, NothingFails DEF SetParent
    <2> QED
      BY <1>1, <2>2, QuietWrite
  <1>4. /\ buf'.first_child_id = root_id
        /\ ToSet(buf'.slots) \subseteq {sep} /\ Ordered(buf'.slots)
    <2>1. CASE NewRootSetRight
      BY <1>2, <2>1 DEF NewRootSetRight, locals
    <2>2. CASE NewRootSetLeft
      <3>1. buf' = page_alloc_slot(buf, sep) /\ buf.slots = << >>
        BY <1>2, <2>2 DEF NewRootSetLeft
      <3>2. CASE buf' = buf
        BY <1>2, <3>2
      <3>3. CASE buf' = [buf EXCEPT !.slots = Append(@, sep)]
        <4>1. buf'.slots = Append(<< >>, sep) /\ buf'.first_child_id = buf.first_child_id
          BY <3>1, <3>3 DEF TypeOK, Page
        <4>2. << >> \in Seq({sep}) /\ Before({}, {sep})
          BY DEF Before
        <4>3. ToSet(Append(<< >>, sep)) = {sep} /\ Ordered(Append(<< >>, sep))
          <5>1. ToSet(<< >>) = {} /\ Ordered(<< >>)
            BY OrderedEmpty
          <5>2. /\ ToSet(Append(<< >>, sep)) = ToSet(<< >>) \cup {sep}
                /\ Ordered(<< >>) /\ Before(ToSet(<< >>), {sep}) => Ordered(Append(<< >>, sep))
            BY <4>2, OrderedAppend
          <5> QED
            BY <4>2, <5>1, <5>2
        <4> QED
          BY <1>2, <4>1, <4>3
      <3> QED
        BY <3>1, <3>2, <3>3 DEF page_alloc_slot
    <2> QED
      BY <2>1, <2>2
  <1>5. Sorted'
    BY <1>3, QuietKeeps
  <1>6. ASSUME pc' # "undefined" PROVE InOrder(N, A, K)'
    <2>1. pc' \in {"root_right", "root_write"}
      BY <1>1, <1>6
    <2>2. Changing' = Changing /\ Live' = 0
      BY <1>1, <2>1 DEF Changing, Live, ParentSplitting, LeafSplitting
    <2>3. Tree(N, A, K, root_id)' /\ Mirrors(N, A)' /\ Down(N, A)'
      BY <1>1, <1>3, <2>1, <2>2, QuietTree DEF Down
    <2>4. Rises(N, A, K)'
      BY <1>1, <1>2, <1>4, <2>1 DEF Rises, RootBuilding
    <2>5. /\ pc' \notin {"descend", "put", "split_alloc", "split_left", "split_right"}
          /\ pc' \notin ParentSplitting /\ pc' \notin Merging
      BY <2>1 DEF ParentSplitting, Merging
    <2> QED
      BY <2>3, <2>4, <2>5, OtherOrders DEF InOrder
  <1> QED
    BY <1>5, <1>6

\* The new root is on disk, and it is the root.
LEMMA OrderNewRootWrite ==
    ASSUME faults' = 0, NEW h, NEW N, NEW A, NEW K,
           TypeOK, Tall(h), Sorted, InOrder(N, A, K), NewRootWrite
    PROVE  Sorted' /\ \E M, B, J : InOrder(M, B, J)'
  <1> DEFINE n == new_pid
  <1>1. /\ pc = "root_write" /\ pc' = "return" /\ num_pages' = num_pages /\ root_id' = n
        /\ WritePage(n, buf)
    BY NothingFails DEF NewRootWrite, ReturnWith
  <1>2. /\ Raised(N, A, K, root_id, root_id, sep)
        /\ n \notin A /\ buf.first_child_id = root_id
        /\ ToSet(buf.slots) \subseteq {sep} /\ Ordered(buf.slots)
        /\ Tree(N, A, K, root_id) /\ Mirrors(N, A)
    BY <1>1 DEF InOrder, Rises, RootBuilding
  <1>3. A \subseteq Pids /\ \A q \in A : N[q] = NodeOf(pages[q])
    BY <1>1, <1>2 DEF Mirrors, Changing, ParentSplitting
  <1>4. n \in Pids /\ root_id \in Pids
    BY DEF TypeOK
  <1>5. buf.type = "PAGE_INTERNAL" /\ sep.key \in Int
    <2>1. /\ h[n] = h[root_id] + 1 /\ buf \in Nodes(Pids, h, h[n]) /\ sep \in InternalRec(Pids)
          /\ h \in [Pids -> Nat]
      BY <1>1 DEF Tall, BuildsRoot, RootBuilding, Shape
    <2>2. h[n] # 0
      BY <1>4, <2>1
    <2>3. sep.key \in Int
      BY <2>1, KeysAssumption DEF InternalRec
    <2> QED
      BY <2>1, <2>2, <2>3, NodeIsPage
  <1>6. /\ Sorted' /\ Pids' = Pids /\ pages'[n] = buf
        /\ \A q \in Pids \ {n} : pages'[q] = pages[q]
    BY <1>1, <1>2, <1>4, WriteSorted
  <1> HIDE DEF n
  <1> PICK B : B = A \cup {n}
    OBVIOUS
  <1>7. PICK M : M = [q \in B |-> NodeOf(pages'[q])]
    OBVIOUS
  <1>8. \A q \in A : M[q] = N[q]
    BY <1>2, <1>3, <1>6, <1>7
  <1>9. M[n].type # "PAGE_LEAF" /\ M[n].first = root_id /\ M[n].recs \subseteq {sep}
    <2>1. M[n] = NodeOf(buf)
      BY <1>6, <1>7
    <2> QED
      BY <1>2, <1>5, <2>1 DEF NodeOf
  <1>10. PICK J : Tree(M, B, J, n)
    BY <1>2, <1>5, <1>8, <1>9, NewRootTree
  <1>11. /\ Tree(M, B, J, root_id)' /\ B \subseteq Pids'
         /\ \A q \in B : M[q] = NodeOf(pages'[q])
    BY <1>1, <1>3, <1>4, <1>6, <1>7, <1>10 DEF n
  <1>12. InOrder(M, B, J)'
    BY <1>1, <1>11, RestsInOrder
  <1> QED
    BY <1>6, <1>12

-----------------------------------------------------------------------------
(***************************************************************************)
(* The steps: two neighbours become one.                                   *)
(***************************************************************************)

\* The place of a child in a page is a matter of its slots and first child.
LEMMA SamePos ==
    ASSUME NEW p, NEW q, p.slots = q.slots, p.first_child_id = q.first_child_id, NEW c
    PROVE  /\ find_pos_in_parent(p, c) = find_pos_in_parent(q, c)
           /\ \A i : Child(p, i) = Child(q, i)
  <1>1. NumChildren(p) = NumChildren(q) /\ \A i : Child(p, i) = Child(q, i)
    BY DEF NumChildren, Child
  <1>2. find_pos_in_parent(p, c) = find_pos_in_parent(q, c)
    BY <1>1 DEF find_pos_in_parent
  <1> QED
    BY <1>1, <1>2

\* So are the siblings of a merge.
LEMMA SameSiblings ==
    ASSUME path' = path, level' = level, Parent'.slots = Parent.slots,
           Parent'.first_child_id = Parent.first_child_id
    PROVE  LeftIndex' = LeftIndex /\ LeftPid' = LeftPid /\ RightPid' = RightPid
  <1>1. /\ find_pos_in_parent(Parent', path[level]) = find_pos_in_parent(Parent, path[level])
        /\ \A i : Child(Parent', i) = Child(Parent, i)
    BY SamePos
  <1>2. LeftIndex' = LeftIndex
    BY <1>1 DEF LeftIndex
  <1> QED
    BY <1>1, <1>2 DEF LeftPid, RightPid

\* The link to the left node of a merge.
LeftLink ==
    [low |-> IF LeftIndex = 1 THEN {} ELSE {Parent.slots[LeftIndex - 1].key}, child |-> LeftPid]

\* The nodes of a merge in the tree.
LEMMA InMerge ==
    ASSUME NEW h, NEW N, NEW A, NEW K, TypeOK, Tall(h), Sorted, InOrder(N, A, K),
           pc \in {"rebalance", "merge_next", "merge_left"}, level > 1, HasSibling
    PROVE  LET P == path[level - 1]
               s == Parent.slots[LeftIndex]
           IN  /\ Tree(N, A, K, root_id) /\ A \subseteq Pids /\ Live = level
               /\ level \in Nat /\ P \in A /\ Parent.type = "PAGE_INTERNAL"
               /\ \A q \in A : N[q] = NodeOf(pages[q])
               /\ LeftPid \in A /\ RightPid \in A /\ P # LeftPid /\ P # RightPid
               /\ LeftPid # RightPid /\ pages[LeftPid].type = pages[RightPid].type
               /\ LeftLink \in Links(N[P]) /\ s \in N[P].recs /\ s.child = RightPid
               /\ \A x \in LeftLink.low : x < s.key
               /\ \A t \in N[P].recs :
                      (\A x \in LeftLink.low : x < t.key) => t = s \/ s.key < t.key
               /\ OneKeyEach(N[P].recs) /\ \A t \in N[P].recs : t.key \in Int
               /\ ToSet(RemoveAt(Parent.slots, LeftIndex)) = N[P].recs \ {s}
               /\ Ordered(RemoveAt(Parent.slots, LeftIndex))
               /\ Before(ToSet(pages[LeftPid].slots), ToSet(pages[RightPid].slots))
  <1> DEFINE P == path[level - 1]
             u == Parent.slots
             i == LeftIndex
             s == u[i]
             l == LeftLink
  <1>1. /\ Tree(N, A, K, root_id) /\ Mirrors(N, A) /\ Down(N, A)
        /\ Changing = {} /\ Live = level
    BY DEF InOrder, Changing, Live, ParentSplitting, LeafSplitting
  <1>2. A \subseteq Pids /\ \A q \in A : N[q] = NodeOf(pages[q])
    BY <1>1 DEF Mirrors
  <1>3. /\ level \in 2..Len(path) /\ Len(path) \in Nat /\ P \in Pids
        /\ h[path[level]] \in Nat /\ h[P] = h[path[level]] + 1
        /\ Parent \in Nodes(Pids, h, h[path[level]] + 1)
    BY RebalanceType DEF Merging
  <1>4. /\ i \in 1..Len(u) /\ LeftPid \in Pids /\ RightPid \in Pids
        /\ h[LeftPid] = h[path[level]] /\ h[RightPid] = h[path[level]]
        /\ pages[LeftPid] \in Nodes(Pids, h, h[path[level]])
        /\ pages[RightPid] \in Nodes(Pids, h, h[path[level]])
    BY Siblings DEF Merging
  <1>5. level - 1 \in 1..Live /\ level \in Nat
    BY <1>1, <1>3
  <1>6. P \in A /\ N[P] = NodeOf(Parent)
    <2>1. P \in A
      BY <1>1, <1>5 DEF Down
    <2> QED
      BY <1>2, <2>1 DEF Parent
  <1>7. Parent.type = "PAGE_INTERNAL" /\ pages[LeftPid].type = pages[RightPid].type
    <2>1. h[path[level]] + 1 # 0
      BY <1>3
    <2>2. Parent.type = "PAGE_INTERNAL"
      BY <1>3, <2>1, NodeIsPage
    <2> QED
      BY <1>4, <2>2 DEF Nodes
  <1>8. P # LeftPid /\ P # RightPid
    BY <1>3, <1>4
  <1>9. Ordered(u) /\ Keyed(u, Records)
    BY <1>3, HaveKeys DEF Sorted, Parent
  <1>10. /\ u \in Seq(Records) /\ Len(u) \in Nat /\ DOMAIN u = 1..Len(u)
         /\ \A j \in 1..Len(u) : u[j].key \in Int
    BY <1>9, LenProperties, ElementOfSeq DEF Keyed
  <1>11. /\ LeftPid = IF i = 1 THEN Parent.first_child_id ELSE u[i - 1].child
         /\ RightPid = s.child
    <2>1. i + 1 # 1 /\ (i + 1) - 1 = i
      BY <1>4, <1>10
    <2> QED
      BY <2>1 DEF LeftPid, RightPid, Child
  <1>12. /\ N[P].type = "PAGE_INTERNAL" /\ N[P].recs = ToSet(u)
         /\ N[P].first = Parent.first_child_id
    BY <1>6, <1>7 DEF NodeOf
  <1> HIDE DEF u, i
  <1>13. s \in N[P].recs
    BY <1>4, <1>10, <1>12 DEF ToSet
  <1>14. /\ l.child = LeftPid
         /\ l.low = IF i = 1 THEN {} ELSE {u[i - 1].key}
    BY DEF LeftLink, i, u
  <1>15. l \in Links(N[P])
    <2>1. CASE i = 1
      <3>1. l = [low |-> {}, child |-> N[P].first]
        BY <1>11, <1>12, <2>1 DEF LeftLink, i
      <3> QED
        BY <1>12, <3>1 DEF Links
    <2>2. CASE i # 1
      <3>1. i - 1 \in 1..Len(u)
        BY <1>4, <1>10, <2>2
      <3>2. u[i - 1] \in N[P].recs
        BY <1>10, <1>12, <3>1 DEF ToSet
      <3>3. l = [low |-> {u[i - 1].key}, child |-> u[i - 1].child]
        BY <1>11, <2>2 DEF LeftLink, i, u
      <3> QED
        BY <1>12, <3>2, <3>3 DEF Links
    <2> QED
      BY <2>1, <2>2
  <1>16. \A x \in l.low : x < s.key
    <2>1. CASE i = 1
      BY <1>14, <2>1
    <2>2. CASE i # 1
      <3>1. i - 1 \in 1..Len(u) /\ i - 1 < i
        BY <1>4, <1>10, <2>2
      <3>2. u[i - 1].key < u[i].key
        BY <1>4, <1>9, <1>10, <3>1 DEF Ordered
      <3> QED
        BY <1>14, <2>2, <3>2
    <2> QED
      BY <2>1, <2>2
  <1>17. ASSUME NEW t \in N[P].recs, \A x \in l.low : x < t.key
         PROVE  t = s \/ s.key < t.key
    <2>1. PICK j \in 1..Len(u) : t = u[j]
      BY <1>10, <1>12 DEF ToSet
    <2>2. ~(j < i)
      <3>1. SUFFICES ASSUME j < i PROVE FALSE
        OBVIOUS
      <3>2. i # 1 /\ i - 1 \in 1..Len(u) /\ (j < i - 1 \/ j = i - 1)
        BY <1>4, <1>10, <2>1, <3>1
      <3>3. u[i - 1].key < t.key
        BY <1>14, <1>17, <3>2
      <3>4. j < i - 1 => t.key < u[i - 1].key
        BY <1>9, <1>10, <2>1, <3>2 DEF Ordered
      <3>5. t.key \in Int /\ u[i - 1].key \in Int
        BY <1>10, <2>1, <3>2
      <3> QED
        BY <2>1, <3>2, <3>3, <3>4, <3>5
    <2>3. j = i \/ i < j
      BY <1>4, <1>10, <2>1, <2>2
    <2>4. i < j => u[i].key < u[j].key
      BY <1>4, <1>9, <1>10, <2>1 DEF Ordered
    <2> QED
      BY <2>1, <2>3, <2>4
  <1>18. OneKeyEach(N[P].recs) /\ \A t \in N[P].recs : t.key \in Int
    BY <1>9, <1>12, OrderedKeys, KeyOfSet
  <1> DEFINE r == [low |-> {s.key}, child |-> s.child]
  <1>19. r \in Links(N[P]) /\ r.low = {s.key} /\ r.child = RightPid
    BY <1>11, <1>12, <1>13 DEF Links
  <1> HIDE DEF l, r, P
  <1>20. LeftPid \in A /\ RightPid \in A
    BY <1>1, <1>6, <1>14, <1>15, <1>19 DEF Tree, Routes
  <1>21. l # r
    <2>1. s.key \in Int
      BY <1>13, <1>18
    <2> QED
      BY <1>16, <1>19, <2>1
  <1>22. LeftPid # RightPid
    BY <1>1, <1>6, <1>14, <1>15, <1>19, <1>21 DEF Tree, Unshared
  <1>23. Before(ToSet(pages[LeftPid].slots), ToSet(pages[RightPid].slots))
    <2>1. ASSUME NEW t \in ToSet(pages[LeftPid].slots) PROVE t.key < s.key /\ t.key \in Int
      <3>1. N[LeftPid] = NodeOf(pages[LeftPid])
        BY <1>2, <1>20
      <3>2. t \in N[LeftPid].recs
        BY <3>1 DEF NodeOf
      <3>3. t.key \in K[LeftPid] /\ K[LeftPid] \subseteq Int
        BY <1>1, <1>20, <3>2 DEF Tree, Holds
      <3>4. Within(N[P].recs, l.low, t.key)
        BY <1>1, <1>6, <1>14, <1>15, <3>3 DEF Tree, Routes
      <3> QED
        BY <1>13, <1>16, <3>3, <3>4 DEF Within
    <2>2. ASSUME NEW t \in ToSet(pages[RightPid].slots) PROVE s.key <= t.key /\ t.key \in Int
      <3>1. N[RightPid] = NodeOf(pages[RightPid])
        BY <1>2, <1>20
      <3>2. t \in N[RightPid].recs
        BY <3>1 DEF NodeOf
      <3>3. t.key \in K[RightPid] /\ K[RightPid] \subseteq Int
        BY <1>1, <1>20, <3>2 DEF Tree, Holds
      <3>4. Within(N[P].recs, r.low, t.key)
        BY <1>1, <1>6, <1>19, <3>3 DEF Tree, Routes
      <3> QED
        BY <1>19, <3>3, <3>4 DEF Within
    <2>3. s.key \in Int
      BY <1>13, <1>18
    <2>4. ASSUME NEW a \in ToSet(pages[LeftPid].slots), NEW b \in ToSet(pages[RightPid].slots)
          PROVE  a.key < b.key
      <3>1. a.key < s.key /\ a.key \in Int /\ s.key <= b.key /\ b.key \in Int
        BY <2>1, <2>2
      <3> QED
        BY <2>3, <3>1
    <2> QED
      BY <2>4 DEF Before
  <1>24. ToSet(RemoveAt(u, i)) = N[P].recs \ {s} /\ Ordered(RemoveAt(u, i))
    <2>1. ToSet(RemoveAt(u, i)) = {u[j] : j \in (1..Len(u)) \ {i}} /\ Ordered(RemoveAt(u, i))
      BY <1>4, <1>9, <1>10, OrderedRemove
    <2>2. ToSet(u) = {u[j] : j \in 1..Len(u)}
      BY <1>10 DEF ToSet
    <2>3. \A j \in (1..Len(u)) \ {i} : u[j] # u[i]
      <3>1. ASSUME NEW j \in (1..Len(u)) \ {i} PROVE u[j] # u[i]
        <4>1. u[j].key < u[i].key \/ u[i].key < u[j].key
          <5>1. j < i \/ i < j
            BY <1>4, <1>10
          <5> QED
            BY <1>4, <1>9, <1>10, <5>1 DEF Ordered
        <4> QED
          BY <1>4, <1>10, <4>1
      <3> QED
        BY <3>1
    <2> QED
      BY <1>12, <2>1, <2>2, <2>3
  <1> QED
    BY <1>1, <1>2, <1>5, <1>6, <1>7, <1>8, <1>11, <1>13, <1>14, <1>15, <1>16, <1>17, <1>18,
       <1>20, <1>22, <1>23, <1>24 DEF l, P, i, u

\* A merge starts with the records of both nodes, which are in line.
LEMMA OrderMergeStart ==
    ASSUME NEW h, NEW N, NEW A, NEW K, TypeOK, Tall(h), Sorted, InOrder(N, A, K), MergeStart
    PROVE  Sorted' /\ InOrder(N, A, K)'
  <1>1. /\ pc = "rebalance" /\ pc' = "merge_next" /\ level > 1 /\ HasSibling
        /\ buf' = pages[LeftPid] /\ todo' = pages[RightPid].slots
        /\ pages' = pages /\ num_pages' = num_pages /\ root_id' = root_id
        /\ path' = path /\ level' = level
    BY DEF MergeStart, store
  <1>2. /\ LeftPid \in A /\ RightPid \in A /\ A \subseteq Pids
        /\ Before(ToSet(pages[LeftPid].slots), ToSet(pages[RightPid].slots))
    BY <1>1, InMerge
  <1>3. Quiet /\ Changing' = Changing /\ Live' = Live
    BY <1>1 DEF Quiet, Changing, Live, ParentSplitting, LeafSplitting
  <1>4. Tree(N, A, K, root_id)' /\ Mirrors(N, A)' /\ Down(N, A)' /\ Sorted'
    BY <1>1, <1>3, QuietTree, QuietKeeps, StillDown
  <1>5. LeftPid' = LeftPid /\ RightPid' = RightPid
    <2>1. Parent' = Parent
      BY <1>1 DEF Parent
    <2> QED
      BY <1>1, <2>1, SameSiblings
  <1>6. Ordered(pages[LeftPid].slots) /\ Ordered(pages[RightPid].slots)
    BY <1>2 DEF Sorted
  <1>7. Joins(N)'
    BY <1>1, <1>2, <1>5, <1>6 DEF Joins, InLine
  <1>8. /\ pc' \notin {"descend", "put", "split_alloc", "split_left", "split_right"}
        /\ pc' \notin {"split_next", "split_prev", "propagate"} \cup RootBuilding
        /\ pc' \notin ParentSplitting
    BY <1>1 DEF RootBuilding, ParentSplitting
  <1> QED
    BY <1>4, <1>7, <1>8, OtherOrders DEF InOrder

\* The neighbour behind the right node is told.
LEMMA OrderMergeFixNext ==
    ASSUME NEW h, NEW N, NEW A, NEW K, TypeOK, Tall(h), Sorted, InOrder(N, A, K), MergeFixNext
    PROVE  Sorted' /\ InOrder(N, A, K)'
  <1>1. /\ pc = "merge_next" /\ pc' = "merge_left" /\ num_pages' = num_pages
        /\ root_id' = root_id /\ path' = path /\ level' = level
        /\ buf' = [buf EXCEPT !.next_id = pages[RightPid].next_id]
    BY DEF MergeFixNext
  <1>2. level > 1 /\ HasSibling
    BY <1>1 DEF Tall, Merges, Merging
  <1>3. /\ LeftPid \in Pids /\ RightPid \in Pids /\ path[level - 1] \in Pids
    BY <1>1, <1>2, InMerge
  <1>4. Quiet
    BY <1>1, QuietWrite DEF MergeFixNext
  <1>5. Changing' = Changing /\ Live' = Live
    BY <1>1 DEF Changing, Live, ParentSplitting, LeafSplitting
  <1>6. Tree(N, A, K, root_id)' /\ Mirrors(N, A)' /\ Down(N, A)' /\ Sorted'
    BY <1>1, <1>4, <1>5, QuietTree, QuietKeeps, StillDown
  <1>7. LeftPid' = LeftPid /\ RightPid' = RightPid
    <2>1. Parent'.slots = Parent.slots /\ Parent'.first_child_id = Parent.first_child_id
      BY <1>1, <1>3, <1>4 DEF Parent, Quiet
    <2> QED
      BY <1>1, <2>1, SameSiblings
  <1>8. buf'.slots = buf.slots /\ buf'.first_child_id = buf.first_child_id
    BY <1>1 DEF TypeOK, Page
  <1>9. Joins(N)'
    <2>1. /\ Ordered(buf.slots) /\ buf.first_child_id = pages[LeftPid].first_child_id
          /\ ToSet(buf.slots) \subseteq
                 ToSet(pages[LeftPid].slots) \cup ToSet(pages[RightPid].slots)
      BY <1>1 DEF InOrder, Joins
    <2>2. /\ pages'[LeftPid].slots = pages[LeftPid].slots
          /\ pages'[LeftPid].first_child_id = pages[LeftPid].first_child_id
          /\ pages'[RightPid].slots = pages[RightPid].slots
      BY <1>3, <1>4 DEF Quiet
    <2> QED
      BY <1>1, <1>7, <1>8, <2>1, <2>2 DEF Joins
  <1>10. /\ pc' \notin {"descend", "put", "split_alloc", "split_left", "split_right"}
         /\ pc' \notin {"split_next", "split_prev", "propagate"} \cup RootBuilding
         /\ pc' \notin ParentSplitting
    BY <1>1 DEF RootBuilding, ParentSplitting
  <1> QED
    BY <1>6, <1>9, <1>10, OtherOrders DEF InOrder

\* The left node has the records of both; the tree no longer has the right one.
LEMMA OrderMergeWriteLeft ==
    ASSUME NEW h, NEW N, NEW A, NEW K, TypeOK, Tall(h), Sorted, InOrder(N, A, K), MergeWriteLeft
    PROVE  Sorted' /\ \E M, B, J : InOrder(M, B, J)'
  <1> DEFINE P == path[level - 1]
             s == Parent.slots[LeftIndex]
             L == LeftPid
             less == [type |-> N[P].type, recs |-> N[P].recs \ {s}, first |-> N[P].first]
  <1>1. /\ pc = "merge_left" /\ pc' = "merge_parent" /\ num_pages' = num_pages
        /\ root_id' = root_id /\ path' = path /\ level' = level /\ WritePage(L, buf)
    BY DEF MergeWriteLeft, locals
  <1>2. level > 1 /\ HasSibling /\ buf \in Nodes(Pids, h, h[path[level]])
    BY <1>1 DEF Tall, Merges, Merging
  <1>3. /\ Tree(N, A, K, root_id) /\ A \subseteq Pids /\ Live = level
        /\ level \in Nat /\ P \in A /\ Parent.type = "PAGE_INTERNAL"
        /\ \A q \in A : N[q] = NodeOf(pages[q])
        /\ L \in A /\ RightPid \in A /\ P # L /\ P # RightPid /\ L # RightPid
        /\ pages[L].type = pages[RightPid].type
        /\ LeftLink \in Links(N[P]) /\ s \in N[P].recs /\ s.child = RightPid
        /\ \A x \in LeftLink.low : x < s.key
        /\ \A t \in N[P].recs : (\A x \in LeftLink.low : x < t.key) => t = s \/ s.key < t.key
        /\ OneKeyEach(N[P].recs)
        /\ \A t \in N[P].recs : t.key \in Int
        /\ ToSet(RemoveAt(Parent.slots, LeftIndex)) = N[P].recs \ {s}
    BY <1>1, <1>2, InMerge
  <1>4. /\ Ordered(buf.slots) /\ buf.first_child_id = pages[L].first_child_id
        /\ ToSet(buf.slots) \subseteq ToSet(pages[L].slots) \cup ToSet(pages[RightPid].slots)
    BY <1>1 DEF InOrder, Joins
  <1>5. /\ Sorted' /\ Pids' = Pids /\ pages'[L] = buf
        /\ \A q \in Pids \ {L} : pages'[q] = pages[q]
    BY <1>1, <1>3, <1>4, WriteSorted
  <1>6. buf.type = pages[L].type
    <2>1. pages[L] \in Nodes(Pids, h, h[path[level]])
      BY <1>1, <1>2, Siblings DEF Merging
    <2> QED
      BY <1>2, <2>1 DEF Nodes
  <1>7. Changing' = {P} /\ Live' = level - 1
    BY <1>1 DEF Changing, Live, ParentSplitting, LeafSplitting
  <1>8. ASSUME NEW i \in 1..(level - 1)
        PROVE  path[i] # L /\ path[i] # RightPid /\ (i # level - 1 => path[i] # P)
    <2>1. pc \notin {"idle", "return"}
      BY <1>1
    <2>2. level \in 1..Len(path) /\ level - 1 \in 1..Len(path) /\ Len(path) \in Nat
      BY <1>1, <1>2, RebalanceType DEF Merging
    <2>3. h[path[i]] > h[path[level]]
      BY <1>8, <2>1, <2>2, PathFalls DEF Tall
    <2>4. i # level - 1 => path[i] # P
      <3>1. i # level - 1 => i \in 1..((level - 1) - 1)
        BY <1>3
      <3> QED
        BY <2>1, <2>2, <3>1, PathFalls DEF Tall
    <2>5. /\ h[L] = h[path[level]] /\ h[RightPid] = h[path[level]] /\ h[path[level]] \in Nat
      BY <1>1, <1>2, Siblings, RebalanceType DEF Merging
    <2>6. path[i] \in Pids
      BY <2>1, <2>2, PathType DEF Tall
    <2>7. h[path[i]] \in Nat
      BY <2>6 DEF Tall, Shape
    <2> QED
      BY <2>3, <2>4, <2>5, <2>7
  <1> PICK B : B = A \ {RightPid}
    OBVIOUS
  <1>9. PICK M : M = [q \in A |-> IF q = P THEN less ELSE NodeOf(pages'[q])]
    OBVIOUS
  <1>10. LeftLink.child = L
    BY DEF LeftLink
  <1> HIDE DEF P, s, L
  <1>11. /\ M[P].type = N[P].type /\ M[P].first = N[P].first /\ M[P].recs = N[P].recs \ {s}
    BY <1>3, <1>9
  <1>12. \A q \in A \ {P, L} : M[q] = N[q]
    BY <1>3, <1>5, <1>9
  <1>13. /\ M[L].type = N[L].type /\ M[L].first = N[L].first
         /\ M[L].recs \subseteq N[L].recs \cup N[RightPid].recs
         /\ N[RightPid].type = N[L].type
    <2>1. M[L] = NodeOf(buf) /\ N[L] = NodeOf(pages[L]) /\ N[RightPid] = NodeOf(pages[RightPid])
      BY <1>3, <1>5, <1>9
    <2> QED
      BY <1>3, <1>4, <1>6, <2>1 DEF NodeOf
  <1>14. PICK J : Tree(M, B, J, root_id)
    <2>1. N[P].type # "PAGE_LEAF"
      <3>1. N[P] = NodeOf(pages[P]) /\ Parent = pages[P]
        BY <1>3 DEF Parent, P
      <3> QED
        BY <1>3, <3>1 DEF NodeOf
    <2> QED
      BY <1>3, <1>10, <1>11, <1>12, <1>13, <2>1, MergeNodes
  <1>15. Tree(M, B, J, root_id)'
    BY <1>1, <1>14
  <1>16. Mirrors(M, B)'
    <2>1. \A q \in B \ {P} : M[q] = NodeOf(pages'[q])
      BY <1>9
    <2>2. M[P].type = pages'[P].type /\ M[P].first = pages'[P].first_child_id
      <3>1. pages'[P] = pages[P] /\ N[P] = NodeOf(pages[P])
        BY <1>3, <1>5
      <3> QED
        BY <1>11, <3>1 DEF NodeOf
    <2> QED
      BY <1>3, <1>5, <1>7, <2>1, <2>2 DEF Mirrors
  <1>17. Down(M, B)'
    <2>1. Live' \in Int /\ Live \in Int /\ Live' <= Live
      BY <1>3, <1>7
    <2>2. \A i \in 1..Live' : path[i] \in A => path[i] \in B
      BY <1>7, <1>8
    <2>3. ASSUME NEW i \in 1..(Live' - 1), path[i] \in A PROVE M[path[i]] = N[path[i]]
      <3>1. i \in 1..(level - 1) /\ i # level - 1
        BY <1>3, <1>7
      <3> QED
        BY <1>8, <1>12, <2>3, <3>1
    <2>4. \A i \in 1..(Live' - 1) : path[i] \in A => Links(N[path[i]]) \subseteq Links(M[path[i]])
      BY <2>3
    <2> QED
      BY <1>1, <2>1, <2>2, <2>4, MoreDown
  <1>18. Joins(M)'
    <2>1. Parent' = Parent
      BY <1>1, <1>3, <1>5 DEF Parent, P
    <2>2. LeftIndex' = LeftIndex
      BY <1>1, <2>1, SameSiblings
    <2>3. M[path'[level' - 1]].recs = ToSet(RemoveAt(Parent'.slots, LeftIndex'))
      BY <1>1, <1>3, <1>11, <2>1, <2>2 DEF P
    <2> QED
      BY <1>1, <2>3 DEF Joins
  <1>19. /\ pc' \notin {"descend", "put", "split_alloc", "split_left", "split_right"}
         /\ pc' \notin {"split_next", "split_prev", "propagate"} \cup RootBuilding
         /\ pc' \notin ParentSplitting
    BY <1>1 DEF RootBuilding, ParentSplitting
  <1>20. InOrder(M, B, J)'
    BY <1>15, <1>16, <1>17, <1>18, <1>19, OtherOrders DEF InOrder
  <1> QED
    BY <1>5, <1>20

\* The parent is written as the tree has it.
LEMMA OrderMergeWriteParent ==
    ASSUME NEW h, NEW N, NEW A, NEW K, TypeOK, Tall(h), Sorted, InOrder(N, A, K), MergeWriteParent
    PROVE  Sorted' /\ \E M : InOrder(M, A, K)'
  <1> DEFINE P == path[level - 1]
             u == RemoveAt(Parent.slots, LeftIndex)
  <1>1. /\ pc = "merge_parent" /\ pc' = "rebalance" /\ num_pages' = num_pages
        /\ root_id' = root_id /\ path' = path /\ level' = level - 1
        /\ WritePage(P, page_remove_slot(Parent, LeftIndex))
    BY DEF MergeWriteParent
  <1>2. level > 1 /\ HasSibling
    BY <1>1 DEF Tall, Merges, Merging
  <1>3. /\ level \in 2..Len(path) /\ P \in Pids /\ Parent \in Page(Pids)
        /\ LeftIndex \in 1..Len(Parent.slots) /\ Len(path) \in Nat
    BY <1>1, <1>2, RebalanceType, Siblings, NodeIsPage DEF Merging
  <1>4. Ordered(u)
    <2>1. Parent.slots \in Seq(Records) /\ Ordered(Parent.slots)
      BY <1>3, HaveKeys DEF Keyed, Sorted, Parent
    <2> QED
      BY <1>3, <2>1, OrderedRemove
  <1> DEFINE p == page_remove_slot(Parent, LeftIndex)
  <1>5. /\ p.slots = u /\ p.type = Parent.type /\ p.first_child_id = Parent.first_child_id
    BY <1>3 DEF page_remove_slot, Page
  <1> HIDE DEF u
  <1>6. /\ Sorted' /\ Pids' = Pids /\ pages'[P] = p
        /\ \A q \in Pids \ {P} : pages'[q] = pages[q]
    BY <1>1, <1>3, <1>4, <1>5, WriteSorted
  <1>7. Changing = {P} /\ Changing' = {} /\ Live' = Live
    BY <1>1 DEF Changing, Live, ParentSplitting, LeafSplitting
  <1>8. /\ A \subseteq Pids /\ Tree(N, A, K, root_id)
        /\ \A q \in A \ {P} : N[q] = NodeOf(pages[q])
        /\ P \in A => N[P].type = Parent.type /\ N[P].first = Parent.first_child_id
    BY <1>7 DEF InOrder, Mirrors, Parent
  <1>9. N[P].recs = ToSet(u)
    BY <1>1 DEF InOrder, Joins, u
  <1> HIDE DEF P, p
  <1>10. PICK M : M = [q \in A |-> NodeOf(pages'[q])]
    OBVIOUS
  <1>11. \A q \in A \ {P} : M[q] = N[q]
    BY <1>6, <1>8, <1>10
  <1>12. P \in A => M[P].type = N[P].type /\ M[P].first = N[P].first /\ M[P].recs = N[P].recs
    <2>1. P \in A => M[P] = NodeOf(p)
      BY <1>6, <1>10
    <2> QED
      BY <1>5, <1>8, <1>9, <2>1 DEF NodeOf
  <1>13. \A q \in A : /\ M[q].type = N[q].type /\ M[q].first = N[q].first
                      /\ M[q].recs = N[q].recs
    BY <1>11, <1>12
  <1>14. Tree(M, A, K, root_id)
    BY <1>8, <1>13, FewerRecs
  <1>15. Tree(M, A, K, root_id)'
    BY <1>1, <1>14
  <1>16. Mirrors(M, A)'
    BY <1>6, <1>7, <1>8, <1>10 DEF Mirrors
  <1>17. Down(M, A)'
    <2>1. \A q \in A : Links(M[q]) = Links(N[q])
      BY <1>13 DEF Links
    <2>2. Live \in Int /\ Live' \in Int /\ Live' <= Live
      <3>1. Live = level - 1
        BY <1>1 DEF Live, ParentSplitting, LeafSplitting
      <3> QED
        BY <1>3, <1>7, <3>1
    <2>3. \A i \in 1..(Live' - 1) : path[i] \in A => Links(N[path[i]]) \subseteq Links(M[path[i]])
      BY <2>1
    <2> QED
      BY <1>1, <2>2, <2>3, MoreDown
  <1>18. /\ pc' \notin {"descend", "put", "split_alloc", "split_left", "split_right"}
         /\ pc' \notin {"split_next", "split_prev", "propagate"} \cup RootBuilding
         /\ pc' \notin ParentSplitting /\ pc' \notin Merging
    BY <1>1 DEF RootBuilding, ParentSplitting, Merging
  <1>19. InOrder(M, A, K)'
    BY <1>15, <1>16, <1>17, <1>18, OtherOrders DEF InOrder
  <1> QED
    BY <1>6, <1>19

\* The root gives way to its only child, or the delete ends.
LEMMA OrderShrinkRoot ==
    ASSUME NEW h, NEW N, NEW A, NEW K, TypeOK, Tall(h), Sorted, InOrder(N, A, K), ShrinkRoot
    PROVE  Sorted' /\ \E B, J : InOrder(N, B, J)'
  <1>1. /\ pc = "rebalance" /\ level = 1 /\ pages' = pages /\ num_pages' = num_pages
        /\ \/ pages[path[1]].type = "PAGE_INTERNAL" /\ root_id' = pages[path[1]].first_child_id
              /\ pc' = "shrink_write"
           \/ root_id' = root_id /\ pc' = "return"
    BY DEF ShrinkRoot, ReturnWith
  <1>2. Quiet
    BY <1>1 DEF Quiet
  <1>3. Sorted' /\ Pids' = Pids
    BY <1>2, QuietKeeps
  <1>4. CASE root_id' = root_id /\ pc' = "return"
    <2>1. InOrder(N, A, K)'
      BY <1>1, <1>2, <1>4, OrderEnds DEF ParentSplitting
    <2> QED
      BY <1>3, <2>1
  <1>5. CASE /\ pages[path[1]].type = "PAGE_INTERNAL"
             /\ root_id' = pages[path[1]].first_child_id /\ pc' = "shrink_write"
    <2>1. path[1] = root_id
      BY <1>1 DEF Tall, Walked
    <2>2. Changing = {}
      BY <1>1 DEF Changing, ParentSplitting
    <2>3. Tree(N, A, K, root_id) /\ A \subseteq Pids /\ \A q \in A : N[q] = NodeOf(pages[q])
      BY <2>2 DEF InOrder, Mirrors
    <2>4. N[root_id].type # "PAGE_LEAF" /\ N[root_id].first = root_id'
      <3>1. N[root_id] = NodeOf(pages[root_id])
        BY <2>3 DEF Tree
      <3> QED
        BY <1>5, <2>1, <3>1 DEF NodeOf
    <2>5. PICK B : B = A \ {root_id}
      OBVIOUS
    <2>6. PICK J : Tree(N, B, J, N[root_id].first)
      BY <2>3, <2>4, <2>5, DropRootTree
    <2>7. Tree(N, B, J, root_id)' /\ B \subseteq Pids' /\ \A q \in B : N[q] = NodeOf(pages'[q])
      BY <1>1, <1>3, <2>3, <2>4, <2>5, <2>6
    <2>8. InOrder(N, B, J)'
      BY <1>5, <2>7, RestsInOrder
    <2> QED
      BY <1>3, <2>8
  <1> QED
    BY <1>1, <1>4, <1>5

-----------------------------------------------------------------------------
(***************************************************************************)
(* All steps together.                                                     *)
(***************************************************************************)

\* btree_create makes a tree of one node.
LEMMA InitOrder == Init => OInv
  <1> SUFFICES ASSUME Init PROVE OInv
    OBVIOUS
  <1>1. /\ Pids = {0} /\ pages[0].slots = << >> /\ pages[0].type = "PAGE_LEAF" /\ root_id = 0
        /\ pc = "idle" /\ path = << >>
    BY DEF Init, Pids, page_init
  <1>2. Sorted
    BY <1>1, OrderedEmpty DEF Sorted
  <1>3. PICK N : N = [q \in {0} |-> NodeOf(pages[q])]
    OBVIOUS
  <1>4. PICK K : K = [q \in {0} |-> {}]
    OBVIOUS
  <1>5. N[0] = NodeOf(pages[0]) /\ N[0].type = "PAGE_LEAF" /\ N[0].recs = {}
    <2>1. N[0] = NodeOf(pages[0])
      BY <1>3
    <2> QED
      BY <1>1, <2>1, OrderedEmpty DEF NodeOf
  <1>6. Links(N[0]) = {}
    BY <1>5 DEF Links
  <1>7. Tree(N, {0}, K, root_id)
    BY <1>1, <1>4, <1>5, <1>6 DEF Tree, Holds, Routes, Unshared
  <1>8. Mirrors(N, {0}) /\ Down(N, {0})
    <2>1. Changing = {} /\ Live = 0
      BY <1>1 DEF Changing, Live, ParentSplitting, LeafSplitting
    <2> QED
      BY <1>1, <1>5, <2>1 DEF Mirrors, Down
  <1>9. Looks(K) /\ CutsLeaf({0}, K) /\ Rises(N, {0}, K) /\ CutsParent(N, {0}, K) /\ Joins(N)
    BY <1>1 DEF Looks, CutsLeaf, Rises, CutsParent, Joins, ParentSplitting, RootBuilding
  <1>10. InOrder(N, {0}, K)
    BY <1>7, <1>8, <1>9 DEF InOrder
  <1> QED
    BY <1>2, <1>10 DEF OInv

\* The invariant is about the variables of the tree only.
LEMMA SameVarsOInv ==
    ASSUME OInv, UNCHANGED vars
    PROVE  OInv'
  <1>1. /\ pages' = pages /\ num_pages' = num_pages /\ root_id' = root_id /\ pc' = pc
        /\ call' = call /\ path' = path /\ level' = level /\ buf' = buf /\ todo' = todo
        /\ left' = left /\ ra' = ra /\ new_pid' = new_pid /\ sep' = sep
    BY DEF vars, store, locals
  <1>2. Pids' = Pids /\ Sorted'
    BY <1>1 DEF Pids, OInv, Sorted
  <1>3. /\ Parent' = Parent
    BY <1>1 DEF Parent
  <1>4. LeftIndex' = LeftIndex /\ LeftPid' = LeftPid /\ RightPid' = RightPid
    BY <1>1, <1>3, SameSiblings
  <1>5. Changing' = Changing /\ Live' = Live
    BY <1>1 DEF Changing, Live
  <1>6. ASSUME NEW N, NEW A, NEW K, InOrder(N, A, K) PROVE InOrder(N, A, K)'
    <2>1. Tree(N, A, K, root_id)' /\ Mirrors(N, A)'
      BY <1>1, <1>2, <1>5, <1>6 DEF InOrder, Mirrors
    <2>2. Down(N, A)' /\ Looks(K)'
      BY <1>1, <1>5, <1>6 DEF InOrder, Down, Looks
    <2>3. CutsLeaf(A, K)'
      BY <1>1, <1>6 DEF InOrder, CutsLeaf, InLine
    <2>4. Rises(N, A, K)'
      BY <1>1, <1>6 DEF InOrder, Rises
    <2>5. CutsParent(N, A, K)'
      BY <1>1, <1>6 DEF InOrder, CutsParent, InLine
    <2>6. Joins(N)'
      BY <1>1, <1>3, <1>4, <1>6 DEF InOrder, Joins, InLine
    <2> QED
      BY <2>1, <2>2, <2>3, <2>4, <2>5, <2>6 DEF InOrder
  <1> QED
    BY <1>1, <1>2, <1>6 DEF OInv

\* Every step keeps the tree a search tree and the slots of every page in order, as long as
\* nothing fails.
LEMMA NextOInv ==
    ASSUME RecordsFit, faults' = 0, IInv, OInv, [Next]_vars
    PROVE  OInv'
  <1>1. CASE UNCHANGED vars
    BY <1>1, SameVarsOInv
  <1>2. CASE Next
    <2>1. TypeOK /\ Sorted /\ pc # "undefined"
      BY <1>2, UndefinedStops DEF IInv, OInv
    <2>2. PICK h : Tall(h)
      BY <2>1 DEF IInv
    <2>3. PICK N, A, K : InOrder(N, A, K)
      BY <2>1 DEF OInv
    <2>4. ~Fail
      BY <2>1, NothingFails
    <2>5. CASE \E c \in Ops : Invoke(c)
      BY <2>1, <2>3, <2>5, OrderInvoke DEF OInv
    <2>6. CASE Descend
      BY <2>1, <2>2, <2>3, <2>6, OrderDescend DEF OInv
    <2>7. CASE GetLeaf \/ DeleteMissing \/ RebalanceEnd \/ Return \/ ShrinkWrite
      BY <2>1, <2>3, <2>7, OrderAnswer DEF OInv
    <2>8. CASE IOError \/ GarbageRead \/ OutOfMemory \/ CollectFailed
      BY <2>4, <2>8 DEF IOError, GarbageRead, OutOfMemory, CollectFailed
    <2>9. CASE PutInPlace \/ PutSplit \/ PlaceRecord
      BY <2>1, <2>2, <2>3, <2>9, OrderPutInPlace, OrderPutSplit, OrderPlaceRecord DEF OInv
    <2>10. CASE SplitAlloc \/ SplitWriteLeft \/ SplitWriteRight
      BY <2>1, <2>2, <2>3, <2>10, OrderSplitAlloc, OrderSplitWriteLeft, OrderSplitWriteRight
      DEF OInv
    <2>11. CASE SplitFixNext \/ SplitFixPrev
      BY <2>1, <2>2, <2>3, <2>11, OrderSplitFix DEF OInv
    <2>12. CASE ParentInsert \/ ParentSplit \/ ParentWriteLeft
      BY <2>1, <2>2, <2>3, <2>12, OrderParentInsert, OrderParentSplit, OrderParentWriteLeft
      DEF OInv
    <2>13. CASE ParentAlloc \/ ParentSetMedian \/ PlaceChild \/ ParentWriteRight
      BY <2>1, <2>2, <2>3, <2>13, OrderParentAlloc, OrderPlaceChild, OrderParentWriteRight
      DEF OInv
    <2>14. CASE NewRootAlloc \/ NewRootSetLeft \/ NewRootSetRight \/ NewRootWrite
      BY <2>1, <2>2, <2>3, <2>14, OrderNewRootAlloc, OrderNewRootSet, OrderNewRootWrite
      DEF OInv
    <2>15. CASE DeleteLeaf \/ ShrinkRoot
      BY <2>1, <2>2, <2>3, <2>15, OrderDeleteLeaf, OrderShrinkRoot DEF OInv
    <2>16. CASE RebalanceNull
      <3>1. pages' = pages /\ num_pages' = num_pages /\ pc' = "undefined"
        BY <2>16 DEF RebalanceNull, store
      <3> QED
        BY <2>1, <3>1 DEF OInv, Sorted, Pids
    <2>17. CASE MergeStart \/ MergeFixNext
      BY <2>1, <2>2, <2>3, <2>17, OrderMergeStart, OrderMergeFixNext DEF OInv
    <2>18. CASE MergeWriteLeft \/ MergeWriteParent
      BY <2>1, <2>2, <2>3, <2>18, OrderMergeWriteLeft, OrderMergeWriteParent DEF OInv
    <2> QED
      BY <1>2, <2>5, <2>6, <2>7, <2>8, <2>9, <2>10, <2>11, <2>12, <2>13, <2>14, <2>15, <2>16,
         <2>17, <2>18
      DEF Next, Step, PutStep, DeleteStep
  <1> QED
    BY <1>1, <1>2

\* At every step of every call the keys of each page are in strictly ascending order
\* (AllSlotsSorted), until a callback or malloc fails: the binary searches of btree.c find
\* what is there.  Without RecordsFit it is not so: a record that does not fit in an empty
\* leaf splits it all the same, and the left half then has no record.
THEOREM SlotsStaySorted ==
    ASSUME RecordsFit
    PROVE  Spec => []AllSlotsSorted
  <1> DEFINE Inv == faults \in Nat /\ (faults = 0 => IInv /\ OInv)
  <1>1. Init => Inv
    BY InitIInv, InitOrder DEF Init
  <1>2. Inv /\ [Next]_vars => Inv'
    <2> SUFFICES ASSUME Inv, [Next]_vars PROVE Inv'
      OBVIOUS
    <2>1. faults' \in {faults, faults + 1}
      BY FailuresAddUp
    <2>2. faults' \in Nat /\ (faults' = 0 => faults = 0)
      BY <2>1
    <2>3. ASSUME faults' = 0 PROVE IInv' /\ OInv'
      <3>1. NoPutFailed'
        BY <2>3 DEF NoPutFailed
      <3> QED
        BY <2>2, <2>3, <3>1, NextIInv, NextOInv
    <2> QED
      BY <2>2, <2>3
  <1>3. Inv => AllSlotsSorted
    BY DEF OInv, Sorted, Ordered, AllSlotsSorted, SlotsSorted
  <1> QED
    BY <1>1, <1>2, <1>3, PTL DEF Spec
=============================================================================
