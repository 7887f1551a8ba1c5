-------------------------- MODULE BTreeMapProofs --------------------------
(***************************************************************************)
(* Proofs that the tree of BTree is a map: a put is found, every other key *)
(* keeps its value, and every call answers what the map has, for any       *)
(* number of keys, values, pages and levels, as long as nothing fails.     *)
(*                                                                         *)
(* Module BTreeOrderProofs bounds where a key may be.  Here the bounds are *)
(* exact: D[p] is the set of keys whose lookup comes to page p, so that a  *)
(* leaf holds all records of the keys in its part.  A split or a merge has *)
(* steps at which the tree on disk lacks some of them; VN is the tree as   *)
(* it is meant at each step, with the records that are still in memory in  *)
(* their place.                                                            *)
(*                                                                         *)
(* All keys have one length and all values have one (EvenRecords): a split *)
(* by the number of records may not fit otherwise, and loses records.  The *)
(* lemmas about Room count the records of each page for that.  Merges of   *)
(* internal nodes forget a child and its keys: what is said of deletes     *)
(* says where it leaves them out (LeafMergesOnly).                         *)
(***************************************************************************)
EXTENDS BTreeOrderProofs

-----------------------------------------------------------------------------
(***************************************************************************)
(* Search trees with exact bounds.                                         *)
(***************************************************************************)

\* A key that a lookup takes to a child is in the bound of the child.
Cover(N, A, D) ==
    \A p \in A : \A l \in Links(N[p]) : \A k \in D[p] :
        Within(N[p].recs, l.low, k) => k \in D[l.child]

\* D[p] is the set of the keys whose lookup comes to p.
Exact(N, A, D, r) == Tree(N, A, D, r) /\ Cover(N, A, D) /\ D[r] = Int

\* The records matter only at the nodes of the tree.
LEMMA SameExact ==
    ASSUME NEW N, NEW A, NEW D, NEW r, Exact(N, A, D, r), NEW M, \A q \in A : M[q] = N[q]
    PROVE  Exact(M, A, D, r)
  BY SameTree DEF Exact, Cover

\* The keys of a child are those of the node that a lookup takes there.
LEMMA ExactLink ==
    ASSUME NEW N, NEW A, NEW D, NEW r, Exact(N, A, D, r), NEW p \in A, NEW l \in Links(N[p])
    PROVE  /\ l.child \in A \ {r} /\ D[p] \subseteq Int
           /\ \A k : k \in D[l.child] <=> k \in D[p] /\ Within(N[p].recs, l.low, k)
  BY DEF Exact, Cover, Tree, Routes

\* A leaf with other records.
LEMMA LeafExact ==
    ASSUME NEW N, NEW A, NEW D, NEW r, Exact(N, A, D, r), NEW M, NEW p \in A,
           N[p].type = "PAGE_LEAF", M[p].type = "PAGE_LEAF",
           \A t \in M[p].recs : t.key \in D[p],
           \A q \in A \ {p} : M[q] = N[q]
    PROVE  Exact(M, A, D, r)
  <1>1. Tree(M, A, D, r)
    BY LeafRecs DEF Exact
  <1>2. Links(M[p]) = {}
    BY DEF Links
  <1>3. Cover(M, A, D)
    BY <1>2 DEF Exact, Cover
  <1> QED
    BY <1>1, <1>3 DEF Exact

\* A node p below g is cut in two at a key, and the separator of the new node n goes to g:
\* the nodes N become M.
SplitInto(N, M, A, p, g, n, key) ==
    /\ p \in A /\ g \in A /\ g # p /\ n \notin A
    /\ \E l \in Links(N[g]) : l.child = p
    /\ \A l \in Links(N[p]) : l.child # p
    /\ N[g].type # "PAGE_LEAF" /\ OneKeyEach(N[g].recs)
    /\ \A t \in N[g].recs \cup N[p].recs : t.key \in Int
    /\ \A q \in A \ {g, p} : M[q] = N[q]
    /\ M[g].type = N[g].type /\ M[g].first = N[g].first
    /\ M[g].recs = N[g].recs \cup {[key |-> key, child |-> n]}
    /\ M[p].type = N[p].type /\ M[p].first = N[p].first /\ M[n].type = N[p].type
    /\ M[p].recs = {t \in N[p].recs : t.key < key}
    /\ N[p].type = "PAGE_LEAF" => M[n].recs = {t \in N[p].recs : key <= t.key}
    /\ N[p].type # "PAGE_LEAF" =>
           /\ M[n].recs = {t \in N[p].recs : key < t.key}
           /\ \E t \in N[p].recs : t.key = key /\ t.child = M[n].first

\* Each half takes its part of the keys.
CutBounds(A, D, J, p, n, key) ==
    /\ J[p] = {k \in D[p] : k < key} /\ J[n] = {k \in D[p] : key <= k}
    /\ \A q \in A \ {p} : J[q] = D[q]

\* The bounds of a tree with a node that is cut.
LEMMA SplitExact ==
    ASSUME NEW N, NEW A, NEW D, NEW r, Exact(N, A, D, r), NEW M, NEW p, NEW g, NEW n, NEW key,
           SplitInto(N, M, A, p, g, n, key), key \in D[p], \E k \in D[p] : k < key
    PROVE  \E J : Exact(M, A \cup {n}, J, r) /\ CutBounds(A, D, J, p, n, key)
  <1> SUFFICES
        ASSUME p \in A, g \in A, g # p,
           NEW l \in Links(N[g]), l.child = p, N[g].type # "PAGE_LEAF",
           OneKeyEach(N[g].recs), \A t \in N[g].recs : t.key \in Int,
           n \notin A,
           \A t \in N[p].recs : t.key \in Int, \A m \in Links(N[p]) : m.child # p,
           \A q \in A \ {g, p} : M[q] = N[q],
           M[g].type = N[g].type, M[g].first = N[g].first,
           M[g].recs = N[g].recs \cup {[key |-> key, child |-> n]},
           M[p].type = N[p].type, M[p].first = N[p].first, M[n].type = N[p].type,
           M[p].recs = {t \in N[p].recs : t.key < key},
           M[n].type = "PAGE_LEAF" => M[n].recs = {t \in N[p].recs : key <= t.key},
           M[n].type # "PAGE_LEAF" =>
               /\ M[n].recs = {t \in N[p].recs : key < t.key}
               /\ \E t \in N[p].recs : t.key = key /\ t.child = M[n].first
        PROVE  \E J : Exact(M, A \cup {n}, J, r) /\ CutBounds(A, D, J, p, n, key)
    BY DEF SplitInto
  <1> DEFINE B == A \cup {n}
             e == [key |-> key, child |-> n]
             M0 == [q \in B |-> IF q = g THEN N[g] ELSE M[q]]
             J == [q \in B |-> IF q = n THEN {k \in D[p] : key <= k}
                               ELSE IF q = p THEN {k \in D[p] : k < key} ELSE D[q]]
  <1>1. /\ Tree(N, A, D, r) /\ D \in [A -> SUBSET Int] /\ r \in A /\ D[r] = Int
        /\ \A q \in A : D[q] \subseteq Int
    BY DEF Exact, Tree
  <1>2. /\ M0[g] = N[g] /\ M0[p] = M[p] /\ M0[n] = M[n]
        /\ \A q \in A \ {p} : M0[q] = N[q]
    OBVIOUS
  <1>3. PICK J0 : /\ Tree(M0, B, J0, r) /\ Raised(M0, B, J0, r, p, e)
                  /\ FitsAbove(M0, B, J0, g, p, e)
    <2> HIDE DEF M0
    <2>1. M0[p].recs \subseteq N[p].recs /\ M0[n].recs \subseteq N[p].recs
      BY <1>2
    <2>2. /\ M0[p].type = N[p].type /\ M0[p].first = N[p].first /\ M0[n].type = N[p].type
          /\ \A t \in M0[p].recs : t.key < key
          /\ \A t \in M0[n].recs : key <= t.key
      <3>1. \A t \in N[p].recs : key < t.key => key <= t.key
        BY <1>1
      <3> QED
        BY <1>2, <3>1
    <2>3. M0[n].type # "PAGE_LEAF" =>
               /\ \A t \in M0[n].recs : key < t.key
               /\ \E t \in N[p].recs : t.key = key /\ t.child = M0[n].first
      BY <1>2
    <2>4. \E l_1 \in Links(N[g]) : l_1.child = p
      OBVIOUS
    <2> QED
      BY <1>1, <1>2, <2>1, <2>2, <2>3, <2>4, CutNode
  <1> HIDE DEF M0
  <1>4. /\ M[n].type = M0[n].type /\ M[n] = M0[n] /\ l \in Links(M0[g])
        /\ \A q \in B \ {g} : M[q] = M0[q]
    <2>1. \A q \in B \ {g} : M0[q] = M[q]
      BY DEF M0
    <2> QED
      BY <1>2, <2>1
  <1>5. Tree(M, B, J0, r)
    <2>1. e.key \in Int
      BY <1>1
    <2>2. /\ OneKeyEach(M0[g].recs) /\ \A t \in M0[g].recs : t.key \in Int
          /\ M0[g].type # "PAGE_LEAF" /\ M[g].type = M0[g].type /\ M[g].first = M0[g].first
          /\ M[g].recs = M0[g].recs \cup {e} /\ g \in B
      BY <1>2
    <2> HIDE DEF B, e
    <2> QED
      BY <1>3, <1>4, <2>1, <2>2, InsertSep
  <1>6. Unshared(M, B) /\ \A q \in B : \A m \in Links(M[q]) : m.child \in B \ {r}
    BY <1>5 DEF Tree, Routes
  <1>7. /\ J \in [B -> SUBSET Int] /\ J[n] = {k \in D[p] : key <= k}
        /\ J[p] = {k \in D[p] : k < key} /\ \A q \in A \ {p} : J[q] = D[q]
    BY <1>1
  <1> HIDE DEF J
  <1>8. p # r /\ n # p /\ n # g /\ n # r
    BY <1>1 DEF Tree, Routes
  <1>9. \A k : k \in D[p] <=> k \in D[g] /\ Within(N[g].recs, l.low, k)
    BY ExactLink
  <1>10. /\ key \in Int /\ key \in D[g] /\ \A x \in l.low : x < key
         /\ \A t \in N[g].recs : (\A x \in l.low : x < t.key) => key < t.key
         /\ \A x \in l.low : x \in Int
    <2>1. key \in D[g] /\ Within(N[g].recs, l.low, key) /\ key \in Int
      BY <1>1, <1>9
    <2>2. PICK k \in D[p] : k < key
      OBVIOUS
    <2>3. Within(N[g].recs, l.low, k) /\ k \in Int
      BY <1>1, <1>9
    <2>4. \A x \in l.low : x \in Int
      BY DEF Links
    <2> QED
      BY <2>1, <2>2, <2>3, <2>4 DEF Within
  <1>11. Holds(M, B, J)
    <2>1. ASSUME NEW t \in M[p].recs PROVE t.key \in J[p]
      BY <1>7 DEF Exact, Tree, Holds
    <2>2. ASSUME NEW t \in M[n].recs PROVE t.key \in J[n]
      <3>1. t \in N[p].recs /\ key <= t.key
        BY <1>10
      <3> QED
        BY <1>7, <3>1 DEF Exact, Tree, Holds
    <2>3. ASSUME NEW t \in M[g].recs PROVE t.key \in J[g]
      BY <1>7, <1>10 DEF Exact, Tree, Holds
    <2>4. ASSUME NEW q \in A \ {p, g}, NEW t \in M[q].recs PROVE t.key \in J[q]
      BY <1>7 DEF Exact, Tree, Holds
    <2> QED
      BY <2>1, <2>2, <2>3, <2>4 DEF Holds
  <1> DEFINE Fit(q, m) == \A k : k \in J[m.child] <=> k \in J[q] /\ Within(M[q].recs, m.low, k)
  <1>12. ASSUME NEW q \in A, NEW m \in Links(N[q]), q # g \/ m # l
         PROVE  m.child \in A \ {p, r, n}
    <2>1. m.child \in A \ {r}
      BY ExactLink
    <2>2. Unshared(N, A)
      BY DEF Exact, Tree
    <2>3. m.child = l.child => q = g /\ m = l
      BY <2>2 DEF Unshared
    <2>4. m.child # p
      BY <1>12, <2>3
    <2> QED
      BY <2>1, <2>4
  <1>13. ASSUME NEW q \in A \ {p, g}, NEW m \in Links(M[q]) PROVE Fit(q, m)
    <2>1. m \in Links(N[q]) /\ M[q] = N[q]
      OBVIOUS
    <2>2. m.child \in A \ {p, n}
      BY <1>12, <2>1
    <2> QED
      BY <1>7, <2>1, <2>2, ExactLink
  <1>14. ASSUME NEW m \in Links(M[g]) PROVE Fit(g, m)
    <2>1. J[g] = D[g] /\ D[g] \subseteq Int
      BY <1>1, <1>7
    <2>2. m \in Links(N[g]) \/ m = [low |-> {key}, child |-> n]
      BY DEF Links
    <2>3. \A T, k : Within(T \cup {e}, m.low, k) <=>
                        Within(T, m.low, k) /\ ((\A x \in m.low : x < key) => k < key)
      <3>1. ASSUME NEW T, NEW k
            PROVE  Within(T \cup {e}, m.low, k) <=>
                       Within(T, m.low, k) /\ ((\A x \in m.low : x < key) => k < key)
        <4>1. e.key = key
          OBVIOUS
        <4> HIDE DEF e
        <4> QED
          BY <4>1 DEF Within
      <3> QED
        BY <3>1
    <2>4. CASE m = [low |-> {key}, child |-> n]
      <3>1. ASSUME NEW k \in D[g], key <= k
            PROVE  Within(N[g].recs, l.low, k) <=> Within(N[g].recs \cup {e}, {key}, k)
        <4>1. k \in Int
          BY <2>1
        <4>2. \A x \in l.low : x <= k
          BY <1>10, <3>1, <4>1
        <4>3. \A t \in N[g].recs : (\A x \in l.low : x < t.key) <=> key < t.key
          BY <1>10
        <4> QED
          BY <3>1, <4>1, <4>2, <4>3, <1>10 DEF Within
      <3>2. \A k : Within(N[g].recs \cup {e}, {key}, k) => key <= k
        BY DEF Within
      <3> QED
        BY <1>7, <1>9, <2>1, <2>4, <3>1, <3>2
    <2>5. CASE m = l
      <3>1. \A k : k \in J[p] <=> k \in D[p] /\ k < key
        BY <1>7
      <3> QED
        BY <1>9, <1>10, <2>1, <2>3, <2>5, <3>1
    <2>6. CASE m \in Links(N[g]) /\ m # l
      <3>1. m.child \in A \ {p, n} /\ J[m.child] = D[m.child]
        BY <1>7, <1>12, <2>6
      <3>2. ASSUME NEW k \in D[g], Within(N[g].recs, m.low, k), \A x \in m.low : x < key
            PROVE  k < key
        <4>1. k \in Int
          BY <2>1
        <4>2. CASE l.low = {}
          <5>1. m.low # {}
            <6>1. l = [low |-> {}, child |-> N[g].first]
              BY <4>2 DEF Links
            <6> QED
              BY <2>6, <6>1 DEF Links
          <5>2. PICK t \in N[g].recs : m.low = {t.key}
            BY <2>6, <5>1 DEF Links
          <5>3. key < t.key /\ t.key < key /\ t.key \in Int
            BY <1>10, <3>2, <4>2, <5>2
          <5> QED
            BY <1>10, <5>3
        <4>3. CASE l.low # {}
          <5>1. PICK u \in N[g].recs : l = [low |-> {u.key}, child |-> u.child]
            BY <4>3 DEF Links
          <5>2. CASE \A x \in m.low : x < u.key
            <6>1. k < u.key /\ u.key < key /\ u.key \in Int
              BY <1>10, <3>2, <5>1, <5>2 DEF Within
            <6> QED
              BY <1>10, <4>1, <6>1
          <5>3. CASE ~ \A x \in m.low : x < u.key
            <6>1. PICK t \in N[g].recs : m = [low |-> {t.key}, child |-> t.child]
              BY <2>6, <5>3 DEF Links
            <6>2. t # u
              BY <2>6, <5>1, <6>1
            <6>3. t.key # u.key /\ t.key \in Int /\ u.key \in Int /\ ~(t.key < u.key)
              BY <5>3, <6>1, <6>2 DEF OneKeyEach
            <6>4. u.key < t.key
              BY <6>3
            <6>5. key < t.key /\ t.key < key
              BY <1>10, <3>2, <5>1, <6>1, <6>4
            <6> QED
              BY <1>10, <6>3, <6>5
          <5> QED
            BY <5>2, <5>3
        <4> QED
          BY <4>2, <4>3
      <3> QED
        BY <2>1, <2>3, <2>6, <3>1, <3>2, ExactLink
    <2> QED
      BY <2>2, <2>4, <2>5, <2>6
  <1>15. ASSUME NEW m \in Links(M[p]) PROVE Fit(p, m)
    <2>1. m \in Links(N[p]) /\ N[p].type # "PAGE_LEAF"
      BY DEF Links
    <2>2. J[m.child] = D[m.child]
      BY <1>7, <1>12, <2>1
    <2>3. PICK t \in N[p].recs : t.key = key
      BY <2>1
    <2>4. \A x \in m.low : x < key
      BY DEF Links
    <2>5. ASSUME NEW k \in D[p]
          PROVE  Within(N[p].recs, m.low, k) <=> k < key /\ Within(M[p].recs, m.low, k)
      <3>1. k \in Int /\ key \in Int /\ \A u \in N[p].recs : u.key \in Int
        BY <1>1
      <3>2. Within(N[p].recs, m.low, k) => k < key
        BY <2>3, <2>4 DEF Within
      <3>3. \A u \in N[p].recs : u \in M[p].recs \/ key <= u.key
        BY <3>1
      <3> QED
        BY <3>1, <3>2, <3>3 DEF Within
    <2> QED
      BY <1>7, <2>1, <2>2, <2>5, ExactLink
  <1>16. ASSUME NEW m \in Links(M[n]) PROVE Fit(n, m)
    <2>1. M[n].type # "PAGE_LEAF" /\ N[p].type # "PAGE_LEAF"
      BY DEF Links
    <2>2. PICK s \in N[p].recs : s.key = key /\ s.child = M[n].first
      BY <2>1
    <2>3. PICK o \in Links(N[p]) :
              /\ o.child = m.child
              /\ (m.low = {} /\ o.low = {key}) \/ (m.low = o.low /\ \A x \in m.low : key < x)
              /\ \A x \in o.low : key <= x /\ x \in Int
              /\ o.low # {}
      <3>1. CASE m = [low |-> {}, child |-> M[n].first]
        <4>1. [low |-> {s.key}, child |-> s.child] \in Links(N[p])
          BY <2>1 DEF Links
        <4> QED
          BY <1>10, <2>2, <3>1, <4>1
      <3>2. CASE \E t \in M[n].recs : m = [low |-> {t.key}, child |-> t.child]
        <4>1. PICK t \in N[p].recs : m = [low |-> {t.key}, child |-> t.child] /\ key < t.key
          BY <2>1, <3>2
        <4>2. m \in Links(N[p]) /\ t.key \in Int
          BY <2>1, <4>1 DEF Links
        <4> QED
          BY <1>10, <4>1, <4>2
      <3> QED
        BY <2>1, <3>1, <3>2 DEF Links
    <2>4. J[m.child] = D[m.child]
      BY <1>7, <1>12, <2>3
    <2>5. ASSUME NEW k \in D[p]
          PROVE  Within(N[p].recs, o.low, k) <=> key <= k /\ Within(M[n].recs, m.low, k)
      <3>1. k \in Int /\ key \in Int /\ \A u \in N[p].recs : u.key \in Int
        BY <1>1
      <3>2. (\A x \in o.low : x <= k) <=> key <= k /\ \A x \in m.low : x <= k
        BY <2>3, <3>1
      <3>3. ASSUME NEW u \in N[p].recs
            PROVE  (\A x \in o.low : x < u.key) <=>
                       u \in M[n].recs /\ \A x \in m.low : x < u.key
        <4>1. u.key \in Int /\ (u \in M[n].recs <=> key < u.key)
          BY <2>1, <3>1
        <4> QED
          BY <2>3, <3>1, <4>1
      <3> QED
        BY <2>1, <3>2, <3>3 DEF Within
    <2> QED
      BY <1>7, <2>3, <2>4, <2>5, ExactLink
  <1>17. ASSUME NEW q \in B, NEW m \in Links(M[q]) PROVE Fit(q, m)
    <2>1. CASE q = p
      BY <1>15, <2>1
    <2>2. CASE q = g
      BY <1>14, <2>2
    <2>3. CASE q = n
      BY <1>16, <2>3
    <2>4. CASE q \notin {p, g, n}
      BY <1>13, <2>4
    <2> QED
      BY <2>1, <2>2, <2>3, <2>4
  <1>18. Routes(M, B, J, r)
    <2>1. ASSUME NEW q \in B, NEW m \in Links(M[q])
          PROVE  J[m.child] \subseteq J[q] /\ \A k \in J[m.child] : Within(M[q].recs, m.low, k)
      BY <1>17
    <2> QED
      BY <1>6, <2>1 DEF Routes
  <1>19. Cover(M, B, J)
    <2>1. ASSUME NEW q \in B, NEW m \in Links(M[q]), NEW k \in J[q],
                 Within(M[q].recs, m.low, k)
          PROVE  k \in J[m.child]
      BY <1>17, <2>1
    <2> QED
      BY <2>1 DEF Cover
  <1>20. J[r] = Int /\ r \in B
    BY <1>1, <1>7, <1>8
  <1> HIDE DEF Fit
  <1>21. Exact(M, B, J, r)
    BY <1>6, <1>7, <1>11, <1>18, <1>19, <1>20 DEF Exact, Tree
  <1> QED
    BY <1>7, <1>21 DEF CutBounds

\* The bounds are exact when each link takes what is within it.
LEMMA ExactIf ==
    ASSUME NEW M, NEW B, NEW J, NEW r, r \in B, J \in [B -> SUBSET Int], J[r] = Int,
           Holds(M, B, J), Unshared(M, B),
           \A q \in B : \A m \in Links(M[q]) :
               /\ m.child \in B \ {r}
               /\ \A k : k \in J[m.child] <=> k \in J[q] /\ Within(M[q].recs, m.low, k)
    PROVE  Exact(M, B, J, r)
  <1>1. Routes(M, B, J, r)
    BY DEF Routes
  <1>2. Cover(M, B, J)
    BY DEF Cover
  <1> QED
    BY <1>1, <1>2 DEF Exact, Tree

\* A node n comes between the root r of a tree and its children: the nodes N become M.
NewTop(N, M, A, r, n) ==
    /\ N[r].type # "PAGE_LEAF" /\ n \notin A /\ \A q \in A \ {r} : M[q] = N[q]
    /\ M[r].type # "PAGE_LEAF" /\ M[r].recs = {} /\ M[r].first = n
    /\ M[n].type # "PAGE_LEAF" /\ M[n].recs = N[r].recs /\ M[n].first = N[r].first

\* It takes every key.
NewTopBounds(A, D, J, n) == J[n] = Int /\ \A q \in A : J[q] = D[q]

\* A new root between the place above the root and the tree: its links are those of the place.
LEMMA NewRootExact ==
    ASSUME NEW N, NEW A, NEW D, NEW r, Exact(N, A, D, r), NEW M, NEW n, NewTop(N, M, A, r, n)
    PROVE  \E J : Exact(M, A \cup {n}, J, r) /\ NewTopBounds(A, D, J, n)
  <1> SUFFICES
        ASSUME N[r].type # "PAGE_LEAF", n \notin A, \A q \in A \ {r} : M[q] = N[q],
               M[r].type # "PAGE_LEAF", M[r].recs = {}, M[r].first = n,
               M[n].type # "PAGE_LEAF", M[n].recs = N[r].recs, M[n].first = N[r].first
        PROVE  \E J : /\ Exact(M, A \cup {n}, J, r) /\ J[n] = Int
                      /\ \A q \in A : J[q] = D[q]
    BY DEF NewTop, NewTopBounds
  <1> DEFINE B == A \cup {n}
             J == [q \in B |-> IF q = n THEN Int ELSE D[q]]
  <1>1. /\ Tree(N, A, D, r) /\ D \in [A -> SUBSET Int] /\ r \in A /\ D[r] = Int /\ n # r
    BY DEF Exact, Tree
  <1>2. J \in [B -> SUBSET Int] /\ J[n] = Int /\ \A q \in A : J[q] = D[q]
    BY <1>1
  <1> HIDE DEF J
  <1>3. Links(M[n]) = Links(N[r]) /\ Links(M[r]) = {[low |-> {}, child |-> n]}
    BY DEF Links
  <1>4. Holds(M, B, J)
    BY <1>1, <1>2 DEF Tree, Holds
  <1>5. ASSUME NEW q \in B, NEW m \in Links(M[q])
        PROVE  /\ m.child \in B \ {r}
               /\ \A k : k \in J[m.child] <=> k \in J[q] /\ Within(M[q].recs, m.low, k)
    <2>1. CASE q = n
      <3>1. m \in Links(N[r]) /\ M[q].recs = N[r].recs /\ J[q] = D[r]
        BY <1>1, <1>2, <1>3, <2>1
      <3> QED
        BY <1>1, <1>2, <3>1, ExactLink
    <2>2. CASE q = r
      <3>1. m.child = n /\ m.low = {} /\ M[q].recs = {}
        BY <1>3, <2>2
      <3>2. \A k : Within({}, {}, k)
        BY DEF Within
      <3> QED
        BY <1>1, <1>2, <2>2, <3>1, <3>2
    <2>3. CASE q \in A \ {r}
      <3>1. m \in Links(N[q]) /\ M[q].recs = N[q].recs
        BY <2>3
      <3> QED
        BY <1>2, <2>3, <3>1, ExactLink
    <2> QED
      BY <2>1, <2>2, <2>3
  <1>6. Unshared(M, B)
    <2> DEFINE At(q) == IF q = n THEN r ELSE q
    <2>1. ASSUME NEW q \in B, NEW m \in Links(M[q]), q # r
          PROVE  At(q) \in A /\ m \in Links(N[At(q)]) /\ m.child # n
      <3>1. At(q) \in A /\ m \in Links(N[At(q)])
        BY <1>1, <1>3, <2>1
      <3> QED
        BY <3>1, ExactLink
    <2>2. ASSUME NEW p \in B, NEW q \in B, NEW l \in Links(M[p]), NEW m \in Links(M[q]),
                 l.child = m.child
          PROVE  p = q /\ l = m
      <3>1. CASE p = r \/ q = r
        <4>1. \A m_1 \in Links(M[r]) : m_1.child = n
          BY <1>3
        <4>2. p = r /\ q = r
          BY <2>1, <2>2, <3>1, <4>1
        <4> QED
          BY <1>3, <4>2
      <3>2. CASE p # r /\ q # r
        <4>1. /\ At(p) \in A /\ l \in Links(N[At(p)])
              /\ At(q) \in A /\ m \in Links(N[At(q)])
          BY <2>1, <3>2
        <4>2. At(p) = At(q) /\ l = m
          <5> HIDE DEF At
          <5> QED
            BY <1>1, <2>2, <4>1 DEF Tree, Unshared
        <4> QED
          BY <3>2, <4>2
      <3> QED
        BY <3>1, <3>2
    <2> QED
      BY <2>2 DEF Unshared
  <1>7. r \in B /\ J[r] = Int
    BY <1>1, <1>2
  <1> HIDE DEF B
  <1>8. Exact(M, B, J, r)
    BY <1>2, <1>4, <1>5, <1>6, <1>7, ExactIf
  <1> QED
    BY <1>2, <1>8 DEF B

\* A root c without a slot gives way to its only child.
LEMMA DropRootExact ==
    ASSUME NEW N, NEW A, NEW D, NEW r, Exact(N, A, D, r), N[r].type # "PAGE_LEAF",
           NEW c, N[r].recs = {}, N[r].first = c, N[c].type # "PAGE_LEAF", N[c].recs = {},
           NEW M, \A q \in A \ {r} : M[q] = N[q],
           M[r].type # "PAGE_LEAF", M[r].recs = {}, M[r].first = N[c].first
    PROVE  \E J : /\ Exact(M, A \ {c}, J, r)
                  /\ \A q \in A \ {c} : J[q] = D[q]
  <1> DEFINE B == A \ {c}
             J == [q \in B |-> D[q]]
             o == [low |-> {}, child |-> N[c].first]
  <1>1. /\ Tree(N, A, D, r) /\ D \in [A -> SUBSET Int] /\ r \in A /\ D[r] = Int
    BY DEF Exact, Tree
  <1>2. /\ Links(N[r]) = {[low |-> {}, child |-> c]} /\ Links(N[c]) = {o} /\ Links(M[r]) = {o}
    BY DEF Links
  <1>3. \A k : Within({}, {}, k)
    BY DEF Within
  <1>4. c \in A \ {r} /\ D[c] = Int
    <2> DEFINE u == [low |-> {}, child |-> c]
    <2>2. u \in Links(N[r]) /\ u.child = c /\ u.low = {}
      BY <1>2
    <2> HIDE DEF u
    <2>1. c \in A \ {r} /\ \A k : k \in D[c] <=> k \in D[r] /\ Within(N[r].recs, {}, k)
      <3>1. r \in A
        BY <1>1
      <3>2. u.child \in A \ {r} /\ \A k : k \in D[u.child] <=> k \in D[r] /\ Within(N[r].recs, u.low, k)
        BY <2>2, <3>1, ExactLink
      <3> QED
        BY <2>2, <3>2
    <2> QED
      BY <1>1, <1>3, <2>1
  <1>5. o.child \in A \ {r} /\ D[o.child] = Int
    <2>1. o \in Links(N[c]) /\ o.low = {}
      BY <1>2
    <2> HIDE DEF o
    <2>2. o.child \in A \ {r} /\ \A k : k \in D[o.child] <=> k \in D[c] /\ Within(N[c].recs, {}, k)
      <3>1. c \in A
        BY <1>4
      <3>2. ASSUME NEW m \in Links(N[c])
            PROVE  /\ m.child \in A \ {r}
                   /\ \A k : k \in D[m.child] <=> k \in D[c] /\ Within(N[c].recs, m.low, k)
        <4>1. c \in A /\ Exact(N, A, D, r) /\ m \in Links(N[c])
          BY <3>1
        <4> HIDE DEF B, J
        <4> QED
          BY ONLY <4>1, ExactLink
      <3> QED
        BY <2>1, <3>2
    <2> QED
      BY <1>1, <1>3, <1>4, <2>2
  <1>6. J \in [B -> SUBSET Int] /\ \A q \in B : J[q] = D[q]
    BY <1>1
  <1> HIDE DEF J
  <1>7. Holds(M, B, J)
    BY <1>1, <1>6 DEF Tree, Holds
  <1>8. o.child # c
    <2>1. [low |-> {}, child |-> c] \in Links(N[r]) /\ o \in Links(N[c])
      BY <1>2
    <2> QED
      BY <1>1, <1>4, <2>1 DEF Tree, Unshared
  <1>9. ASSUME NEW q \in B, NEW m \in Links(M[q])
        PROVE  /\ m.child \in B \ {r}
               /\ \A k : k \in J[m.child] <=> k \in J[q] /\ Within(M[q].recs, m.low, k)
    <2>1. CASE q = r
      <3>1. m = o /\ m.low = {} /\ M[q].recs = {} /\ J[q] = Int
        BY <1>1, <1>2, <1>6, <2>1
      <3>2. m.child \in B \ {r} /\ J[m.child] = Int
        BY <1>5, <1>6, <1>8, <3>1
      <3> QED
        BY <1>3, <3>1, <3>2
    <2>2. CASE q # r
      <3>1. q \in A /\ m \in Links(N[q]) /\ M[q].recs = N[q].recs
        BY <2>2
      <3>2. m.child # c
        <4>1. [low |-> {}, child |-> c] \in Links(N[r])
          BY <1>2
        <4> QED
          BY <1>1, <2>2, <3>1, <4>1 DEF Tree, Unshared
      <3>3. m.child \in A \ {r}
        BY <3>1, ExactLink
      <3> QED
        BY <1>6, <3>1, <3>2, <3>3, ExactLink
    <2> QED
      BY <2>1, <2>2
  <1>10. Unshared(M, B)
    <2> DEFINE At(q) == IF q = r THEN c ELSE q
    <2>1. \A q \in B : At(q) \in A /\ \A m \in Links(M[q]) : m \in Links(N[At(q)])
      BY <1>2, <1>4
    <2>2. \A p, q \in B : At(p) = At(q) => p = q
      BY <1>4
    <2> HIDE DEF At, B
    <2>3. ASSUME NEW p \in B, NEW q \in B, NEW l \in Links(M[p]), NEW m \in Links(M[q]),
                 l.child = m.child
          PROVE  p = q /\ l = m
      <3>1. At(p) = At(q) /\ l = m
        BY <1>1, <2>1, <2>3 DEF Tree, Unshared
      <3> QED
        BY <2>2, <3>1
    <2> QED
      BY <2>3 DEF Unshared
  <1>11. r \in B /\ J[r] = Int
    BY <1>1, <1>4, <1>6
  <1> HIDE DEF B
  <1>12. Exact(M, B, J, r)
    BY <1>6, <1>7, <1>9, <1>10, <1>11, ExactIf
  <1> QED
    BY <1>6, <1>12 DEF B

\* The leaves below a link l and the next slot s of a node p become one, and the slot goes:
\* the nodes N become M.
JoinInto(N, M, A, p, l, s) ==
    /\ p \in A /\ l \in Links(N[p]) /\ s \in N[p].recs /\ N[p].type # "PAGE_LEAF"
    /\ \A x \in l.low : x < s.key
    /\ \A t \in N[p].recs : (\A x \in l.low : x < t.key) => t = s \/ s.key < t.key
    /\ OneKeyEach(N[p].recs) /\ \A t \in N[p].recs : t.key \in Int
    /\ p # l.child /\ p # s.child /\ s.child # l.child
    /\ N[s.child].type = "PAGE_LEAF" /\ N[l.child].type = "PAGE_LEAF"
    /\ \A q \in A \ {p, l.child} : M[q] = N[q]
    /\ M[p].type = N[p].type /\ M[p].first = N[p].first /\ M[p].recs = N[p].recs \ {s}
    /\ M[l.child].type = "PAGE_LEAF"
    /\ M[l.child].recs = N[l.child].recs \cup N[s.child].recs

\* The left one takes the keys of both.
JoinBounds(A, D, J, c, d) ==
    J[c] = D[c] \cup D[d] /\ \A q \in A \ {c, d} : J[q] = D[q]

\* The bounds of a tree with two leaves that become one.
LEMMA MergeExact ==
    ASSUME NEW N, NEW A, NEW D, NEW r, Exact(N, A, D, r), NEW M, NEW p, NEW l, NEW s,
           JoinInto(N, M, A, p, l, s)
    PROVE  \E J : Exact(M, A \ {s.child}, J, r) /\ JoinBounds(A, D, J, l.child, s.child)
  <1> SUFFICES
        ASSUME p \in A, l \in Links(N[p]), s \in N[p].recs, N[p].type # "PAGE_LEAF",
               \A x \in l.low : x < s.key,
               \A t \in N[p].recs : (\A x \in l.low : x < t.key) => t = s \/ s.key < t.key,
               OneKeyEach(N[p].recs), \A t \in N[p].recs : t.key \in Int,
               p # l.child, p # s.child, s.child # l.child,
               N[s.child].type = "PAGE_LEAF", N[l.child].type = "PAGE_LEAF",
               \A q \in A \ {p, l.child} : M[q] = N[q],
               M[p].type = N[p].type, M[p].first = N[p].first, M[p].recs = N[p].recs \ {s},
               M[l.child].type = "PAGE_LEAF",
               M[l.child].recs = N[l.child].recs \cup N[s.child].recs
        PROVE  \E J : Exact(M, A \ {s.child}, J, r) /\ JoinBounds(A, D, J, l.child, s.child)
    BY DEF JoinInto
  <1> DEFINE c == l.child
             d == s.child
             o == [low |-> {s.key}, child |-> d]
             B == A \ {d}
             J == [q \in B |-> IF q = c THEN D[c] \cup D[d] ELSE D[q]]
  <1>1. /\ Tree(N, A, D, r) /\ D \in [A -> SUBSET Int] /\ r \in A /\ D[r] = Int
    BY DEF Exact, Tree
  <1>2. /\ o \in Links(N[p]) /\ o.low = {s.key} /\ o.child = d
    BY DEF Links
  <1> HIDE DEF o
  <1>3. ASSUME NEW q \in A, NEW m \in Links(N[q])
        PROVE  /\ m.child \in A \ {r} /\ D[q] \subseteq Int
               /\ \A k : k \in D[m.child] <=> k \in D[q] /\ Within(N[q].recs, m.low, k)
    BY ExactLink
  <1>4. c \in A \ {r} /\ d \in A \ {r} /\ c # d /\ p # c /\ p # d
    <2>1. c \in A \ {r}
      BY <1>3
    <2>2. d \in A \ {r}
      BY <1>2, <1>3
    <2> QED
      BY <2>1, <2>2
  <1>5. /\ J \in [B -> SUBSET Int] /\ J[c] = D[c] \cup D[d]
        /\ \A q \in A \ {c, d} : J[q] = D[q]
    BY <1>1, <1>4
  <1> HIDE DEF J
  <1>6. Links(M[c]) = {}
    BY DEF Links
  <1>7. Links(N[p]) = Links(M[p]) \cup {o}
    BY DEF Links, o
  <1>8. Holds(M, B, J)
    <2>1. \A q \in A : \A t \in N[q].recs : t.key \in D[q]
      BY <1>1 DEF Tree, Holds
    <2>2. \A t \in M[c].recs : t.key \in J[c]
      BY <1>4, <1>5, <2>1
    <2>3. \A q \in A \ {c, d} : \A t \in M[q].recs : t \in N[q].recs
      BY <1>4
    <2>4. \A q \in A \ {c, d} : \A t \in M[q].recs : t.key \in J[q]
      BY <1>5, <2>1, <2>3
    <2> QED
      BY <2>2, <2>4 DEF Holds
  <1>9. ASSUME NEW q \in B, NEW m \in Links(M[q]) PROVE m \in Links(N[q]) /\ m.child # d
    <2>1. m \in Links(N[q])
      BY <1>6, <1>7
    <2>2. CASE m.child = d
      <3>1. q = p /\ m = o
        BY <1>1, <1>2, <2>1, <2>2 DEF Tree, Unshared
      <3>2. PICK t \in M[p].recs \cup {s} : m = [low |-> {t.key}, child |-> t.child] /\ t # s
        BY <3>1 DEF Links, o
      <3>3. t \in N[p].recs /\ t.key = s.key
        BY <3>1, <3>2 DEF o
      <3>4. \A x \in l.low : x < t.key
        BY <3>3
      <3>5. t = s \/ s.key < t.key
        BY <3>3, <3>4
      <3> QED
        BY <3>2, <3>3, <3>5
    <2> QED
      BY <2>1, <2>2
  <1>10. ASSUME NEW k \in D[p]
         PROVE  Within(M[p].recs, l.low, k) <=>
                    Within(N[p].recs, l.low, k) \/ Within(N[p].recs, {s.key}, k)
    <2>1. k \in Int /\ s.key \in Int /\ \A t \in N[p].recs : t.key \in Int
      BY <1>1
    <2>2. \A x \in l.low : x \in Int
      BY <2>1 DEF Links
    <2>3. ASSUME NEW t \in N[p].recs
          PROVE  (\A x \in l.low : x < t.key) <=> t = s \/ s.key < t.key
      BY <2>1, <2>2
    <2>4. Within(N[p].recs, l.low, k) <=>
              (\A x \in l.low : x <= k) /\ k < s.key
      <3>1. \A t \in N[p].recs : s.key < t.key /\ k < s.key => k < t.key
        BY <2>1
      <3> QED
        BY <2>3, <3>1 DEF Within
    <2>5. Within(N[p].recs, {s.key}, k) <=>
              s.key <= k /\ \A t \in N[p].recs : s.key < t.key => k < t.key
      BY DEF Within
    <2>6. Within(M[p].recs, l.low, k) <=>
              (\A x \in l.low : x <= k) /\ \A t \in N[p].recs : s.key < t.key => k < t.key
      <3>1. ~(s.key < s.key)
        BY <2>1
      <3>2. \A t \in M[p].recs : (\A x \in l.low : x < t.key) <=> s.key < t.key
        BY <2>3
      <3>3. \A t \in N[p].recs : s.key < t.key => t \in M[p].recs
        BY <3>1
      <3> QED
        BY <3>2, <3>3 DEF Within
    <2>7. s.key <= k => \A x \in l.low : x <= k
      BY <2>1, <2>2
    <2>8. \A t \in N[p].recs : s.key < t.key /\ k < s.key => k < t.key
      BY <2>1
    <2>9. k < s.key \/ s.key <= k
      BY <2>1
    <2> QED
      BY <2>4, <2>5, <2>6, <2>7, <2>8, <2>9
  <1>11. ASSUME NEW q \in B, NEW m \in Links(M[q])
         PROVE  /\ m.child \in B \ {r}
                /\ \A k : k \in J[m.child] <=> k \in J[q] /\ Within(M[q].recs, m.low, k)
    <2>1. m \in Links(N[q]) /\ m.child \in B \ {r} /\ q # c /\ J[q] = D[q]
      BY <1>3, <1>5, <1>6, <1>9
    <2>2. CASE m.child = c
      <3>1. q = p /\ m = l
        BY <1>1, <2>1, <2>2 DEF Tree, Unshared
      <3>2. \A k : k \in D[c] <=> k \in D[p] /\ Within(N[p].recs, l.low, k)
        BY <1>3
      <3>3. \A k : k \in D[d] <=> k \in D[p] /\ Within(N[p].recs, {s.key}, k)
        <4>1. /\ \A k : k \in D[o.child] <=> k \in D[p] /\ Within(N[p].recs, o.low, k)
          BY <1>2, <1>3
        <4> QED
          BY <1>2, <4>1
      <3>4. ASSUME NEW k PROVE k \in J[c] <=> k \in D[p] /\ Within(M[p].recs, l.low, k)
        <4>1. k \in J[c] <=> k \in D[c] \/ k \in D[d]
          BY <1>5
        <4>2. k \in D[p] => (Within(M[p].recs, l.low, k) <=>
                    Within(N[p].recs, l.low, k) \/ Within(N[p].recs, {s.key}, k))
          BY <1>10
        <4>3. /\ k \in D[c] <=> k \in D[p] /\ Within(N[p].recs, l.low, k)
              /\ k \in D[d] <=> k \in D[p] /\ Within(N[p].recs, {s.key}, k)
          BY <3>2, <3>3
        <4> QED
          BY <4>1, <4>2, <4>3
      <3> QED
        BY <2>1, <2>2, <3>1, <3>4
    <2>3. CASE m.child # c /\ q # p
      <3>1. M[q].recs = N[q].recs /\ J[m.child] = D[m.child]
        BY <1>5, <2>1, <2>3
      <3> QED
        BY <1>3, <2>1, <3>1
    <2>4. CASE m.child # c /\ q = p
      <3>1. J[m.child] = D[m.child]
        BY <1>5, <2>1, <2>4
      <3>2. m \in Links(M[p]) /\ m # l /\ m \in Links(N[p])
        BY <2>1, <2>4
      <3>3. ASSUME NEW k \in D[p]
            PROVE  Within(M[p].recs, m.low, k) <=> Within(N[p].recs, m.low, k)
        <4>1. /\ k \in Int /\ s.key \in Int /\ \A t \in N[p].recs : t.key \in Int
          BY <1>1
        <4>2. ASSUME Within(M[p].recs, m.low, k), \A x \in m.low : x < s.key
              PROVE  k < s.key
          <5>1. CASE l.low = {}
            <6>1. PICK t \in N[p].recs : m = [low |-> {t.key}, child |-> t.child]
              <7>1. l = [low |-> {}, child |-> N[p].first]
                BY <5>1 DEF Links
              <7>2. m # [low |-> {}, child |-> N[p].first]
                BY <3>2, <7>1
              <7> QED
                BY <3>2, <7>2 DEF Links
            <6>2. m.low = {t.key}
              BY <6>1
            <6>3. t = s \/ s.key < t.key
              BY <5>1
            <6>4. t.key < s.key
              BY <4>2, <6>2
            <6> QED
              BY <4>1, <6>3, <6>4
          <5>2. CASE l.low # {}
            <6>1. PICK u \in N[p].recs : l = [low |-> {u.key}, child |-> u.child]
              BY <5>2 DEF Links
            <6>2. u.key < s.key /\ u # s /\ u \in M[p].recs
              BY <4>1, <6>1
            <6>3. CASE \A x \in m.low : x < u.key
              <7>1. k < u.key
                BY <4>2, <6>2, <6>3 DEF Within
              <7> QED
                BY <4>1, <6>2, <7>1
            <6>4. CASE ~ \A x \in m.low : x < u.key
              <7>1. PICK t \in M[p].recs : m = [low |-> {t.key}, child |-> t.child]
                BY <3>2, <6>4 DEF Links
              <7>2. t \in N[p].recs /\ t.key < s.key /\ ~(t.key < u.key)
                BY <4>2, <6>4, <7>1
              <7>3. t.key # u.key
                BY <3>2, <6>1, <6>2, <7>1, <7>2 DEF OneKeyEach
              <7>4. CASE u.key < t.key
                <8>1. t = s \/ s.key < t.key
                  BY <6>1, <7>2, <7>4
                <8> QED
                  BY <4>1, <7>2, <8>1
              <7> QED
                BY <4>1, <7>2, <7>3, <7>4
            <6> QED
              BY <6>3, <6>4
          <5> QED
            BY <5>1, <5>2
        <4> QED
          BY <4>2 DEF Within
      <3> QED
        BY <1>3, <2>1, <2>4, <3>1, <3>2, <3>3
    <2> QED
      BY <2>2, <2>3, <2>4
  <1>12. Unshared(M, B)
    <2> HIDE DEF B
    <2>1. \A q \in B : q \in A
      BY DEF B
    <2>2. \A q \in B : \A m \in Links(M[q]) : m \in Links(N[q])
      BY <1>9
    <2> QED
      BY <1>1, <2>1, <2>2 DEF Tree, Unshared
  <1>13. r \in B /\ J[r] = Int
    BY <1>1, <1>4, <1>5
  <1> HIDE DEF B
  <1>14. Exact(M, B, J, r)
    BY <1>5, <1>8, <1>11, <1>12, <1>13, ExactIf
  <1> QED
    BY <1>5, <1>14 DEF B, JoinBounds

\* The nodes M are those of N and a place t above the root r.
HangsFrom(N, M, A, r, t) ==
    /\ t \notin A /\ \A q \in A : M[q].recs = N[q].recs /\ Links(M[q]) = Links(N[q])
    /\ M[t].type # "PAGE_LEAF" /\ M[t].recs = {} /\ M[t].first = r

\* A tree seen from a place above its root.
LEMMA TreeFromAbove ==
    ASSUME NEW N, NEW A, NEW K, NEW r, Tree(N, A, K, r), NEW M, NEW t, HangsFrom(N, M, A, r, t)
    PROVE  \E J : Tree(M, A \cup {t}, J, t)
  <1> SUFFICES
        ASSUME t \notin A, \A q \in A : M[q].recs = N[q].recs /\ Links(M[q]) = Links(N[q]),
               M[t].type # "PAGE_LEAF", M[t].recs = {}, M[t].first = r
        PROVE  \E J : Tree(M, A \cup {t}, J, t)
    BY DEF HangsFrom
  <1> DEFINE B == A \cup {t}
             J == [q \in B |-> IF q = t THEN Int ELSE K[q]]
  <1>1. r \in A /\ K \in [A -> SUBSET Int]
    BY DEF Tree
  <1>2. J \in [B -> SUBSET Int] /\ J[t] = Int /\ \A q \in A : J[q] = K[q]
    BY <1>1
  <1> HIDE DEF J
  <1>3. Links(M[t]) = {[low |-> {}, child |-> r]}
    BY DEF Links
  <1>4. Holds(M, B, J)
    BY <1>2 DEF Tree, Holds
  <1>5. Routes(M, B, J, t)
    <2>1. ASSUME NEW m \in Links(M[t])
          PROVE  /\ m.child \in B \ {t} /\ J[m.child] \subseteq J[t]
                 /\ \A k \in J[m.child] : Within(M[t].recs, m.low, k)
      <3>1. m.child = r /\ m.low = {}
        BY <1>3
      <3> QED
        BY <1>1, <1>2, <3>1 DEF Within
    <2>2. ASSUME NEW q \in A, NEW m \in Links(M[q])
          PROVE  /\ m.child \in B \ {t} /\ J[m.child] \subseteq J[q]
                 /\ \A k \in J[m.child] : Within(M[q].recs, m.low, k)
      <3>1. /\ m \in Links(N[q]) /\ m.child \in A /\ J[q] = K[q] /\ J[m.child] = K[m.child]
        BY <1>2 DEF Tree, Routes
      <3> QED
        BY <3>1 DEF Tree, Routes
    <2> QED
      BY <2>1, <2>2 DEF Routes
  <1>6. Unshared(M, B)
    <2>1. \A q \in A : \A m \in Links(M[q]) : m \in Links(N[q]) /\ m.child # r
      BY DEF Tree, Routes
    <2>2. \A m \in Links(M[t]) : m.child = r
      BY <1>3
    <2>3. \A l, m \in Links(M[t]) : l = m
      BY <1>3
    <2>4. ASSUME NEW p \in B, NEW q \in B, NEW l \in Links(M[p]), NEW m \in Links(M[q]),
                 l.child = m.child
          PROVE  p = q /\ l = m
      <3>1. CASE p = t \/ q = t
        <4>1. p = t /\ q = t
          BY <2>1, <2>2, <2>4, <3>1
        <4> QED
          BY <2>3, <4>1
      <3>2. CASE p \in A /\ q \in A
        <4>1. l \in Links(N[p]) /\ m \in Links(N[q])
          BY <2>1, <3>2
        <4> QED
          BY <2>4, <3>2, <4>1 DEF Tree, Unshared
      <3> QED
        BY <3>1, <3>2
    <2> QED
      BY <2>4 DEF Unshared
  <1>7. Tree(M, B, J, t)
    BY <1>2, <1>4, <1>5, <1>6 DEF Tree
  <1> QED
    BY <1>7

\* A set of nodes that a lookup of k does not leave.
Trail(N, S, k) ==
    \A q \in S : \A l \in Links(N[q]) : Within(N[q].recs, l.low, k) => l.child \in S

\* The part of a tree that hangs together has exact bounds: the keys whose lookup comes to
\* a node, which are those of every trail from the root.
LEMMA ExactPart ==
    ASSUME NEW N, NEW A, NEW K, NEW r, Tree(N, A, K, r)
    PROVE  \E B, D : /\ B \subseteq A /\ Exact(N, B, D, r)
                     /\ \A p \in B : \A k \in D[p] : \A S \in SUBSET A :
                            r \in S /\ Trail(N, S, k) => p \in S
  <1> DEFINE Whole(S) == r \in S /\ \A q \in S : \A l \in Links(N[q]) : l.child \in S
             From(S, k) == r \in S /\ Trail(N, S, k)
             B == {p \in A : \A S \in SUBSET A : Whole(S) => p \in S}
             D == [p \in B |-> {k \in Int : \A S \in SUBSET A : From(S, k) => p \in S}]
  <1>1. /\ r \in A /\ \A q \in A : K[q] \subseteq Int
        /\ \A q \in A : \A l \in Links(N[q]) : l.child \in A \ {r}
    BY DEF Tree, Routes
  <1>2. r \in B /\ B \subseteq A /\ \A S \in SUBSET A : Whole(S) => B \subseteq S
    BY <1>1
  <1>3. ASSUME NEW q \in B, NEW l \in Links(N[q]) PROVE l.child \in B
    <2>1. l.child \in A
      BY <1>1, <1>2
    <2>2. ASSUME NEW S \in SUBSET A, Whole(S) PROVE l.child \in S
      BY <1>2, <2>2
    <2> QED
      BY <2>1, <2>2
  <1>4. /\ D \in [B -> SUBSET Int]
        /\ \A p \in B : \A k : k \in D[p] <=>
               k \in Int /\ \A S \in SUBSET A : From(S, k) => p \in S
    OBVIOUS
  <1>5. D[r] = Int
    BY <1>2, <1>4
  <1> HIDE DEF B, D
  <1>6. ASSUME NEW q \in B, NEW l \in Links(N[q]), NEW k \in D[q], Within(N[q].recs, l.low, k)
        PROVE  k \in D[l.child]
    <2>1. ASSUME NEW S \in SUBSET A, From(S, k) PROVE l.child \in S
      BY <1>4, <1>6, <2>1 DEF Trail
    <2> QED
      BY <1>3, <1>4, <2>1
  <1>7. ASSUME NEW q \in B, NEW l \in Links(N[q]), NEW k \in D[l.child]
        PROVE  k \in D[q] /\ Within(N[q].recs, l.low, k)
    <2> DEFINE c == l.child
    <2>1. c \in B /\ k \in Int /\ c # r
      BY <1>1, <1>2, <1>3, <1>4
    <2>2. ASSUME NEW S \in SUBSET A, From(S, k), ~(q \in S /\ Within(N[q].recs, l.low, k))
          PROVE  FALSE
      <3> DEFINE R == S \ {c}
      <3>1. ASSUME NEW p \in R, NEW m \in Links(N[p]), Within(N[p].recs, m.low, k)
            PROVE  m.child \in R
        <4>1. m.child \in S
          BY <2>2, <3>1 DEF Trail
        <4>2. CASE m.child = c
          <5>1. p = q /\ m = l
            BY <1>2, <4>2 DEF Tree, Unshared
          <5> QED
            BY <2>2, <3>1, <5>1
        <4> QED
          BY <4>1, <4>2
      <3>2. From(R, k)
        BY <2>1, <2>2, <3>1 DEF Trail
      <3>3. R \in SUBSET A /\ c \notin R
        OBVIOUS
      <3> HIDE DEF R
      <3> QED
        BY <1>4, <2>1, <3>2, <3>3
    <2>3. From(A, k)
      BY <1>1 DEF Trail
    <2>4. Within(N[q].recs, l.low, k)
      BY <2>2, <2>3
    <2>5. \A S \in SUBSET A : From(S, k) => q \in S
      BY <2>2
    <2> QED
      BY <1>4, <2>1, <2>4, <2>5
  <1>8. \A p \in B : K[p] \subseteq D[p]
    <2> DEFINE S == {p \in B : K[p] \subseteq D[p]}
    <2>1. r \in S
      BY <1>1, <1>2, <1>5
    <2>2. ASSUME NEW q \in S, NEW l \in Links(N[q]) PROVE l.child \in S
      <3>1. l.child \in B
        BY <1>3
      <3>2. ASSUME NEW k \in K[l.child] PROVE k \in D[l.child]
        <4>1. k \in K[q] /\ Within(N[q].recs, l.low, k)
          BY <1>2 DEF Tree, Routes
        <4>2. k \in D[q]
          BY <4>1
        <4> QED
          BY <1>6, <4>1, <4>2
      <3> QED
        BY <3>1, <3>2
    <2>3. Whole(S) /\ S \in SUBSET A
      BY <1>2, <2>1, <2>2
    <2> HIDE DEF S
    <2>4. B \subseteq S
      BY <1>2, <2>3
    <2> QED
      BY <2>4 DEF S
  <1>9. Holds(N, B, D)
    BY <1>2, <1>8 DEF Tree, Holds
  <1>10. Unshared(N, B)
    BY <1>2 DEF Tree, Unshared
  <1>11. \A q \in B : \A m \in Links(N[q]) :
               /\ m.child \in B \ {r}
               /\ \A k : k \in D[m.child] <=> k \in D[q] /\ Within(N[q].recs, m.low, k)
    <2>1. ASSUME NEW q \in B, NEW m \in Links(N[q])
          PROVE  /\ m.child \in B \ {r}
                 /\ \A k : k \in D[m.child] <=> k \in D[q] /\ Within(N[q].recs, m.low, k)
      <3>1. m.child \in B \ {r}
        BY <1>1, <1>2, <1>3
      <3> QED
        BY <1>6, <1>7, <3>1
    <2> QED
      BY <2>1
  <1>12. Exact(N, B, D, r)
    BY <1>2, <1>4, <1>5, <1>9, <1>10, <1>11, ExactIf
  <1>13. \A p \in B : \A k \in D[p] : \A S \in SUBSET A : From(S, k) => p \in S
    BY <1>4
  <1> QED
    BY <1>2, <1>12, <1>13

-----------------------------------------------------------------------------
(***************************************************************************)
(* The walk of a lookup in the tree.                                       *)
(***************************************************************************)

\* What holds at 0 and goes from each number to the next holds up to n.
LEMMA CountUp ==
    ASSUME NEW n \in Nat, NEW S, 0 \in S, \A d \in 1..n : d - 1 \in S => d \in S
    PROVE  0..n \subseteq S
  <1> DEFINE Bad == {d \in 0..n : d \notin S}
  <1>1. ASSUME Bad # {} PROVE FALSE
    <2>1. Bad \in SUBSET Nat
      OBVIOUS
    <2>2. PICK d \in Bad : \A e \in Bad : d <= e
      BY <1>1, <2>1, LeastNumber
    <2>3. d \in 1..n /\ d - 1 \in 0..n /\ ~(d <= d - 1)
      BY <2>2
    <2>4. d - 1 \in S
      BY <2>2, <2>3
    <2> QED
      BY <2>2, <2>3, <2>4
  <1> QED
    BY <1>1

\* A lookup takes the link that the key is within, and there is one only.
LEMMA LinkTaken ==
    ASSUME NEW R, NEW p, Keyed(p.slots, R), Ordered(p.slots), p.type # "PAGE_LEAF",
           NEW k \in Int, NEW l \in Links(NodeOf(p)), Within(ToSet(p.slots), l.low, k)
    PROVE  l.child = internal_find_child(p, k)
  <1> DEFINE T == ToSet(p.slots)
  <1>1. /\ T \subseteq R /\ OneKeyEach(T) /\ \A t \in T : t.key \in Int
    BY KeyOfSet, OrderedKeys
  <1>2. PICK m \in Links(NodeOf(p)) :
            m.child = internal_find_child(p, k) /\ Within(T, m.low, k)
    BY FindLink
  <1>3. Within(T, l.low, k)
    OBVIOUS
  <1>4. \A o \in Links(NodeOf(p)) :
            \/ o = [low |-> {}, child |-> p.first_child_id]
            \/ \E t \in T : o = [low |-> {t.key}, child |-> t.child]
    BY DEF Links, NodeOf
  <1> HIDE DEF T
  <1>5. ASSUME NEW t \in T, Within(T, {}, k), Within(T, {t.key}, k) PROVE FALSE
    <2>1. k < t.key /\ t.key <= k /\ t.key \in Int
      BY <1>1, <1>5 DEF Within
    <2> QED
      BY <2>1
  <1>6. ASSUME NEW t \in T, NEW u \in T, Within(T, {t.key}, k), Within(T, {u.key}, k)
        PROVE  t = u
    <2>1. t.key \in Int /\ u.key \in Int /\ t.key <= k /\ u.key <= k
      BY <1>1, <1>6 DEF Within
    <2>2. (t.key < u.key => k < u.key) /\ (u.key < t.key => k < t.key)
      BY <1>6 DEF Within
    <2>3. t.key = u.key
      BY <2>1, <2>2
    <2> QED
      BY <1>1, <2>3 DEF OneKeyEach
  <1>7. l = m
    <2>1. CASE l = [low |-> {}, child |-> p.first_child_id]
      <3>1. l.low = {}
        BY <2>1
      <3>2. ~ \E t \in T : m = [low |-> {t.key}, child |-> t.child]
        BY <1>2, <1>3, <1>5, <3>1
      <3> QED
        BY <1>4, <2>1, <3>2
    <2>2. CASE \E t \in T : l = [low |-> {t.key}, child |-> t.child]
      <3>1. PICK t \in T : l = [low |-> {t.key}, child |-> t.child]
        BY <2>2
      <3>2. l.low = {t.key} /\ Within(T, {t.key}, k)
        BY <1>3, <3>1
      <3>3. m # [low |-> {}, child |-> p.first_child_id]
        BY <1>2, <1>5, <3>2
      <3>4. PICK u \in T : m = [low |-> {u.key}, child |-> u.child]
        BY <1>4, <3>3
      <3>5. Within(T, {u.key}, k)
        BY <1>2, <3>4
      <3>6. t = u
        BY <1>6, <3>2, <3>5
      <3> QED
        BY <3>1, <3>4, <3>6
    <2> QED
      BY <1>4, <2>1, <2>2
  <1> QED
    BY <1>2, <1>7

\* A lookup ends at a leaf, and comes through no other one.
LEMMA WalkEnds ==
    ASSUME NEW h, TypeOK, Shape(h), Unwritten = {}, NEW k
    PROVE  /\ LeafFor(k) \in Pids /\ pages[LeafFor(k)].type = "PAGE_LEAF"
           /\ \A R : root_id \in R /\ (\A q \in R \cap Pids : NextPage(pages, q, k) \in R)
                  => LeafFor(k) \in R
           /\ \E S \in SUBSET Pids :
                  /\ root_id \in S /\ \A q \in S : NextPage(pages, q, k) \in S
                  /\ \A q \in S : pages[q].type = "PAGE_LEAF" => q = LeafFor(k)
  <1> DEFINE n == num_pages
             H == h[root_id]
  <1>1. /\ StoreOK /\ root_id \in Pids /\ n \in Nat \ {0} /\ H \in Nat /\ H < n
        /\ \A pid \in Pids : h[pid] \in Nat /\ (pages[pid].type = "PAGE_LEAF" <=> h[pid] = 0)
    <2>1. StoreOK
      BY DEF TypeOK, StoreOK
    <2> QED
      BY <2>1, FewLevels, NodeAt DEF StoreOK
  <1>2. PICK w \in [0..num_pages -> Pids] :
               /\ LeafFrom(pages, num_pages, root_id, k) = w[num_pages]
               /\ w[0] = root_id
               /\ \A d \in 1..num_pages : w[d] = NextPage(pages, w[d - 1], k)
    BY <1>1, WalkType
  <1>3. LeafFor(k) = w[n] /\ \A d \in 0..n : w[d] \in Pids
    BY <1>2, LeafForIsLeafFrom
  <1>4. ASSUME NEW q \in Pids, h[q] # 0 PROVE h[NextPage(pages, q, k)] = h[q] - 1
    <2>1. pages[q] \in Nodes(Pids, h, h[q]) /\ pages[q].type # "PAGE_LEAF"
      BY <1>1, <1>4, NodeAt
    <2> QED
      BY <1>1, <1>4, <2>1, FindChild DEF NextPage
  <1>5. ASSUME NEW q \in Pids, h[q] = 0 PROVE NextPage(pages, q, k) = q
    BY <1>1, <1>5 DEF NextPage
  <1> HIDE DEF n, H
  <1>6. h[w[n]] = 0
    <2> DEFINE S == {d \in 0..n : h[w[d]] = IF d <= H THEN H - d ELSE 0}
    <2>1. 0 \in S
      BY <1>1, <1>2 DEF H
    <2>2. ASSUME NEW d \in 1..n, d - 1 \in S PROVE d \in S
      <3>1. d \in 0..n /\ d - 1 \in 0..n /\ w[d] = NextPage(pages, w[d - 1], k)
        BY <1>1, <1>2 DEF n
      <3>2. w[d - 1] \in Pids /\ h[w[d - 1]] = IF d - 1 <= H THEN H - (d - 1) ELSE 0
        BY <1>3, <2>2, <3>1
      <3>3. CASE h[w[d - 1]] = 0
        <4>1. h[w[d]] = 0 /\ d > H
          BY <1>1, <1>5, <3>1, <3>2, <3>3
        <4> QED
          BY <1>1, <3>1, <4>1
      <3>4. CASE h[w[d - 1]] # 0
        <4>1. h[w[d]] = H - (d - 1) - 1 /\ d - 1 <= H /\ d - 1 # H
          BY <1>1, <1>4, <3>1, <3>2, <3>4
        <4> QED
          BY <1>1, <3>1, <4>1
      <3> QED
        BY <3>3, <3>4
    <2>3. 0..n \subseteq S
      <3> HIDE DEF S
      <3> QED
        BY <1>1, <2>1, <2>2, CountUp
    <2>4. n \in S
      BY <1>1, <2>3
    <2> QED
      BY <1>1, <2>4
  <1>7. LeafFor(k) \in Pids /\ pages[LeafFor(k)].type = "PAGE_LEAF"
    <2>1. n \in 0..n
      BY <1>1
    <2> QED
      BY <1>1, <1>3, <1>6, <2>1
  <1>8. ASSUME NEW R, root_id \in R, \A q \in R \cap Pids : NextPage(pages, q, k) \in R
        PROVE  LeafFor(k) \in R
    <2> DEFINE S == {d \in 0..n : w[d] \in R}
    <2>1. 0 \in S
      BY <1>1, <1>2, <1>8
    <2>2. ASSUME NEW d \in 1..n, d - 1 \in S PROVE d \in S
      <3>1. d \in 0..n /\ d - 1 \in 0..n /\ w[d] = NextPage(pages, w[d - 1], k)
        BY <1>1, <1>2 DEF n
      <3>2. w[d - 1] \in Pids \cap R
        BY <1>3, <2>2, <3>1
      <3> QED
        BY <1>8, <3>1, <3>2
    <2>3. 0..n \subseteq S
      <3> HIDE DEF S
      <3> QED
        BY <1>1, <2>1, <2>2, CountUp
    <2>4. n \in S
      BY <1>1, <2>3
    <2> QED
      BY <1>3, <2>4
  <1>9. \E S \in SUBSET Pids :
                  /\ root_id \in S /\ \A q \in S : NextPage(pages, q, k) \in S
                  /\ \A q \in S : pages[q].type = "PAGE_LEAF" => q = LeafFor(k)
    <2> DEFINE S == {w[d] : d \in 0..n}
    <2>1. S \in SUBSET Pids /\ root_id \in S
      BY <1>1, <1>2, <1>3
    <2>2. ASSUME NEW q \in S PROVE NextPage(pages, q, k) \in S
      <3>1. PICK d \in 0..n : q = w[d]
        BY <2>2
      <3>2. CASE d = n
        BY <1>3, <1>5, <1>6, <3>1, <3>2
      <3>3. CASE d # n
        <4>1. d + 1 \in 1..n /\ d + 1 \in 0..n /\ (d + 1) - 1 = d
          BY <1>1, <3>3
        <4>2. w[d + 1] = NextPage(pages, w[d], k)
          BY <1>2, <4>1 DEF n
        <4> QED
          BY <3>1, <4>1, <4>2
      <3> QED
        BY <3>2, <3>3
    <2>3. ASSUME NEW q \in S, pages[q].type = "PAGE_LEAF" PROVE q = LeafFor(k)
      <3>1. PICK d \in 0..n : q = w[d]
        BY <2>3
      <3>2. NextPage(pages, q, k) = q
        BY <1>1, <1>3, <1>5, <2>3, <3>1
      <3> DEFINE E == {e \in 0..n : e < d \/ w[e] = q}
      <3>3. 0 \in E
        BY <1>1, <3>1
      <3>4. ASSUME NEW e \in 1..n, e - 1 \in E PROVE e \in E
        <4>1. w[e] = NextPage(pages, w[e - 1], k)
          BY <1>2 DEF n
        <4>2. e < d \/ e = d \/ w[e - 1] = q
          BY <3>4
        <4> QED
          BY <1>1, <3>1, <3>2, <4>1, <4>2
      <3>5. 0..n \subseteq E
        <4> HIDE DEF E
        <4> QED
          BY <1>1, <3>3, <3>4, CountUp
      <3>6. n \in E /\ ~(n < d)
        BY <1>1, <3>1, <3>5
      <3> QED
        BY <1>3, <3>6
    <2> QED
      BY <2>1, <2>2, <2>3
  <1> QED
    BY <1>7, <1>8, <1>9

-----------------------------------------------------------------------------
(***************************************************************************)
(* Records of one length.                                                  *)
(***************************************************************************)

\* A nonempty set of numbers up to n has a greatest one.
LEMMA GreatestNumber ==
    ASSUME NEW n \in Nat, NEW s \in SUBSET (1..n), s # {}
    PROVE  Max(s) \in s /\ \A y \in s : Max(s) >= y
  <1> DEFINE D == {n - x : x \in s}
  <1>1. PICK m \in D : \A k \in D : m <= k
    <2>1. D \in SUBSET Nat /\ D # {}
      <3>1. \A x \in s : n - x \in Nat
        OBVIOUS
      <3> QED
        BY <3>1
    <2> HIDE DEF D
    <2> QED
      BY <2>1, LeastNumber
  <1>2. PICK x \in s : m = n - x
    BY <1>1
  <1>3. ASSUME NEW y \in s PROVE x >= y
    <2>1. n - y \in D /\ x \in Nat /\ y \in Nat
      OBVIOUS
    <2>2. n - x <= n - y
      BY <1>1, <1>2, <2>1
    <2> QED
      BY <2>1, <2>2
  <1> QED
    BY <1>3 DEF Max

\* Records of c bytes each.
LEMMA DataSize ==
    ASSUME NEW R, NEW p, p.slots \in Seq(R), NEW c \in Nat,
           \A r \in R : rec_size(p.type, r) = c
    PROVE  data_size(p) = Len(p.slots) * c
  <1> DEFINE S == DOMAIN p.slots
             n == Len(p.slots)
             Size(x) == rec_size(p.type, p.slots[x])
             Sums(f) == f = [s \in SUBSET S |->
                                IF s = {} THEN 0
                                ELSE LET x == Max(s) IN f[s \ {x}] + rec_size(p.type, p.slots[x])]
             g == [s \in SUBSET S |-> Cardinality(s) * c]
  <1>1. data_size(p) = (CHOOSE f : Sums(f))[S]
    BY DEF data_size, FoldLeft, MapThenFoldSet
  <1>2. n \in Nat /\ S = 1..n /\ \A x \in S : Size(x) = c
    <2>1. n \in Nat /\ S = 1..n
      BY LenProperties
    <2> QED
      BY <2>1, ElementOfSeq
  <1> HIDE DEF n, Size
  <1>3. ASSUME NEW s \in SUBSET S
        PROVE  /\ IsFiniteSet(s) /\ Cardinality(s) \in Nat /\ (Cardinality(s) = 0 <=> s = {})
               /\ s # {} => /\ Max(s) \in s /\ s \ {Max(s)} \in SUBSET S
                            /\ Cardinality(s \ {Max(s)}) = Cardinality(s) - 1
    <2>1. IsFiniteSet(S)
      BY <1>2, FS_Interval
    <2>2. IsFiniteSet(s) /\ Cardinality(s) \in Nat
      BY <2>1, FS_Subset, FS_CardinalityType
    <2>3. s # {} => Max(s) \in s
      BY <1>2, GreatestNumber
    <2> QED
      BY <2>2, <2>3, FS_EmptySet, FS_RemoveElement
  <1>4. ASSUME NEW s \in SUBSET S, s # {}
        PROVE  /\ g[s \ {Max(s)}] + Size(Max(s)) = g[s] /\ Size(Max(s)) = c
    <2>1. /\ Cardinality(s) \in Nat \ {0} /\ Max(s) \in S /\ s \ {Max(s)} \in SUBSET S
          /\ Cardinality(s \ {Max(s)}) = Cardinality(s) - 1
      BY <1>3, <1>4
    <2>2. Size(Max(s)) = c
      BY <1>2, <2>1
    <2>3. g[s \ {Max(s)}] = (Cardinality(s) - 1) * c /\ g[s] = Cardinality(s) * c
      BY <2>1
    <2>4. \A m \in Nat : (m - 1) * c + c = m * c
      OBVIOUS
    <2> QED
      BY <2>1, <2>2, <2>3, <2>4
  <1>5. Sums(g)
    <2>1. ASSUME NEW s \in SUBSET S
          PROVE  g[s] = IF s = {} THEN 0
                        ELSE LET x == Max(s) IN g[s \ {x}] + rec_size(p.type, p.slots[x])
      <3>1. CASE s = {}
        BY <3>1, FS_EmptySet
      <3>2. CASE s # {}
        <4>1. g[s \ {Max(s)}] + Size(Max(s)) = g[s]
          BY <1>4, <3>2
        <4> HIDE DEF g
        <4> QED
          BY <3>2, <4>1 DEF Size
      <3> QED
        BY <3>1, <3>2
    <2>2. g = [s \in SUBSET S |-> g[s]]
      OBVIOUS
    <2> HIDE DEF g
    <2> QED
      BY <2>1, <2>2
  <1> DEFINE f == CHOOSE f_1 : Sums(f_1)
  <1>6. Sums(f)
    <2> HIDE DEF g, Sums
    <2> QED
      BY <1>5
  <1> HIDE DEF f
  <1>7. \A s \in SUBSET S :
            f[s] = IF s = {} THEN 0
                   ELSE LET x == Max(s) IN f[s \ {x}] + rec_size(p.type, p.slots[x])
    BY <1>6
  <1> HIDE DEF Sums, g
  <1> DEFINE Bad == {s \in SUBSET S : f[s] # g[s]}
  <1>8. ASSUME NEW t \in Bad PROVE FALSE
    <2> DEFINE C == {Cardinality(s) : s \in Bad}
    <2>1. C \in SUBSET Nat /\ C # {}
      <3>1. ASSUME NEW s \in Bad PROVE Cardinality(s) \in Nat
        <4>1. s \in SUBSET S
          OBVIOUS
        <4> HIDE DEF Bad
        <4> QED
          BY <1>3, <4>1
      <3> HIDE DEF Bad
      <3> QED
        BY <3>1
    <2>2. PICK m \in C : \A k \in C : m <= k
      <3> HIDE DEF C
      <3> QED
        BY <2>1, LeastNumber
    <2>3. PICK s \in Bad : m = Cardinality(s)
      BY <2>2
    <2>4. s \in SUBSET S /\ f[s] # g[s] /\ Cardinality(s) \in Nat
      BY <1>3, <2>3
    <2>5. s # {}
      <3>1. g[{}] = 0
        BY FS_EmptySet DEF g
      <3>2. f[{}] = 0
        BY <1>7
      <3> QED
        BY <2>4, <3>1, <3>2
    <2> DEFINE d == s \ {Max(s)}
    <2>6. d \in SUBSET S /\ Cardinality(d) = Cardinality(s) - 1
      BY <1>3, <2>4, <2>5
    <2> HIDE DEF d
    <2>7. d \notin Bad
      <3>1. d \in Bad => Cardinality(d) \in C
        OBVIOUS
      <3> HIDE DEF C
      <3> QED
        BY <2>2, <2>3, <2>4, <2>6, <3>1
    <2>8. f[d] = g[d]
      BY <2>6, <2>7
    <2>9. f[s] = f[d] + Size(Max(s))
      BY <1>7, <2>4, <2>5 DEF Size, d
    <2>10. g[d] + Size(Max(s)) = g[s]
      BY <1>4, <2>4, <2>5 DEF d
    <2> QED
      BY <2>4, <2>8, <2>9, <2>10
  <1>9. f[S] = g[S]
    BY <1>8
  <1>10. g[S] = n * c
    <2>1. Cardinality(S) = n
      BY <1>2, FS_Interval
    <2> QED
      BY <2>1 DEF g
  <1> QED
    BY <1>1, <1>9, <1>10 DEF f, n, Sums

\* All records of a leaf have one length, and all separators have.
EvenRecords ==
    /\ \A r, s \in LeafRec : leaf_rec_size(r) = leaf_rec_size(s)
    /\ \A k, l \in Keys : KeyLen[k] = KeyLen[l]

\* The bytes of a record.
Bytes(type) ==
    IF type = "PAGE_LEAF" THEN CHOOSE n \in Nat : \A r \in LeafRec : leaf_rec_size(r) = n
    ELSE CHOOSE n \in Nat : \A k \in Keys : 2 + KeyLen[k] + 4 = n

\* A record that may be in a page of the type.
Suits(type, r) == IF type = "PAGE_LEAF" THEN r \in LeafRec ELSE r.key \in Keys

\* There is room for n records in a page.
Room(type, n) == PAGE_HEADER_SIZE + n * (SLOT_SIZE + Bytes(type)) <= PAGE_SIZE

\* The records of a page have this many bytes.
LEMMA BytesAre ==
    ASSUME EvenRecords, NEW type
    PROVE  Bytes(type) \in Nat /\ \A r : Suits(type, r) => rec_size(type, r) = Bytes(type)
  <1>1. CASE type = "PAGE_LEAF"
    <2>1. \E n \in Nat : \A r \in LeafRec : leaf_rec_size(r) = n
      <3>1. CASE LeafRec = {}
        BY <3>1
      <3>2. CASE LeafRec # {}
        <4>1. PICK s \in LeafRec : TRUE
          BY <3>2
        <4>2. leaf_rec_size(s) \in Nat
          BY <4>1, LenAssumption DEF leaf_rec_size, LeafRec
        <4> QED
          BY <4>2 DEF EvenRecords
      <3> QED
        BY <3>1, <3>2
    <2>2. Bytes(type) \in Nat /\ \A r \in LeafRec : leaf_rec_size(r) = Bytes(type)
      BY <1>1, <2>1 DEF Bytes
    <2> QED
      BY <1>1, <2>2 DEF Suits, rec_size
  <1>2. CASE type # "PAGE_LEAF"
    <2>1. \E n \in Nat : \A k \in Keys : 2 + KeyLen[k] + 4 = n
      <3>1. CASE Keys = {}
        BY <3>1
      <3>2. CASE Keys # {}
        <4>1. PICK l \in Keys : TRUE
          BY <3>2
        <4>2. 2 + KeyLen[l] + 4 \in Nat
          BY <4>1, LenAssumption
        <4>3. \A k \in Keys : 2 + KeyLen[k] + 4 = 2 + KeyLen[l] + 4
          BY <4>1 DEF EvenRecords
        <4> QED
          BY <4>2, <4>3
      <3> QED
        BY <3>1, <3>2
    <2>2. Bytes(type) \in Nat /\ \A k \in Keys : 2 + KeyLen[k] + 4 = Bytes(type)
      BY <1>2, <2>1 DEF Bytes
    <2> QED
      BY <1>2, <2>2 DEF Suits, rec_size, internal_rec_size
  <1> QED
    BY <1>1, <1>2

\* Fewer records have room, too; one record has.
LEMMA LessRoom ==
    ASSUME EvenRecords, NEW type, NEW n \in Nat, Room(type, n), NEW m \in Nat, m <= n
    PROVE  Room(type, m)
  <1> DEFINE w == SLOT_SIZE + Bytes(type)
  <1>1. w \in Nat
    BY BytesAre DEF SLOT_SIZE
  <1> HIDE DEF w
  <1>2. m * w <= n * w
    <2>1. (n - m) * w >= 0 /\ n * w = m * w + (n - m) * w
      BY <1>1
    <2>2. m * w \in Nat /\ n * w \in Nat /\ (n - m) * w \in Int
      BY <1>1
    <2> QED
      BY <2>1, <2>2
  <1>3. m * w \in Nat /\ n * w \in Nat
    BY <1>1
  <1>4. PAGE_HEADER_SIZE + n * w <= PAGE_SIZE
    BY DEF Room, w
  <1>5. PAGE_HEADER_SIZE + m * w <= PAGE_SIZE
    BY <1>2, <1>3, <1>4 DEF PAGE_HEADER_SIZE, PAGE_SIZE
  <1> QED
    BY <1>5 DEF Room, w

\* An empty page has room, one record has.
LEMMA SomeRoom ==
    ASSUME EvenRecords, NEW type
    PROVE  Room(type, 0) /\ (RecordsFit /\ (\E r : Suits(type, r)) => Room(type, 1))
  <1>1. Bytes(type) \in Nat
    BY BytesAre
  <1>2. Room(type, 0)
    BY <1>1 DEF Room, PAGE_HEADER_SIZE, PAGE_SIZE, SLOT_SIZE
  <1>3. ASSUME RecordsFit, NEW r, Suits(type, r) PROVE Room(type, 1)
    <2>1. rec_size(type, r) = Bytes(type)
      BY <1>3, BytesAre
    <2>2. PAGE_HEADER_SIZE + SLOT_SIZE + rec_size(type, r) <= PAGE_SIZE
      <3>1. CASE type = "PAGE_LEAF"
        BY <1>3, <3>1 DEF RecordsFit, Suits, rec_size
      <3>2. CASE type # "PAGE_LEAF"
        <4>1. r.key \in Keys /\ KeyLen[r.key] \in Nat
          BY <1>3, <3>2, LenAssumption DEF Suits
        <4>2. PAGE_HEADER_SIZE + SLOT_SIZE + 2 + KeyLen[r.key] + 4 <= PAGE_SIZE
          BY <1>3, <4>1 DEF RecordsFit
        <4> QED
          BY <3>2, <4>1, <4>2 DEF rec_size, internal_rec_size, PAGE_HEADER_SIZE, PAGE_SIZE, SLOT_SIZE
      <3> QED
        BY <3>1, <3>2
    <2> QED
      BY <1>1, <2>1, <2>2 DEF Room, PAGE_HEADER_SIZE, PAGE_SIZE, SLOT_SIZE
  <1> QED
    BY <1>2, <1>3

\* The records of a page suit its type.
LEMMA PageSuits ==
    ASSUME NEW P, NEW p \in Page(P)
    PROVE  \E R : p.slots \in Seq(R) /\ \A r \in R : Suits(p.type, r)
  <1>1. CASE p.type = "PAGE_LEAF"
    <2>1. p.slots \in Seq(LeafRec)
      BY <1>1 DEF Page
    <2> QED
      BY <1>1, <2>1 DEF Suits
  <1>2. CASE p.type # "PAGE_LEAF"
    <2>1. p.slots \in Seq(InternalRec(P))
      BY <1>2 DEF Page
    <2>2. \A r \in InternalRec(P) : Suits(p.type, r)
      BY <1>2 DEF Suits, InternalRec
    <2> QED
      BY <2>1, <2>2
  <1> QED
    BY <1>1, <1>2

\* What the free-space tests of a page mean when all records have one length.
LEMMA FitsMeansRoom ==
    ASSUME EvenRecords, NEW P, NEW p \in Page(P)
    PROVE  /\ Len(p.slots) \in Nat /\ Bytes(p.type) \in Nat
           /\ data_size(p) = Len(p.slots) * Bytes(p.type)
           /\ \A r : Suits(p.type, r) =>
                  /\ InsertFits(p, r) <=> Room(p.type, Len(p.slots) + 1)
                  /\ Room(p.type, Len(p.slots) + 1) =>
                         AllocFits(p, r) /\ ~SlotOverlaysRecord(p, r)
  <1> DEFINE n == Len(p.slots)
             c == Bytes(p.type)
  <1>1. PICK R : p.slots \in Seq(R) /\ \A r \in R : Suits(p.type, r)
    BY PageSuits
  <1>2. c \in Nat /\ \A r : Suits(p.type, r) => rec_size(p.type, r) = c
    BY BytesAre
  <1>3. n \in Nat
    BY <1>1, LenProperties
  <1>4. data_size(p) = n * c
    <2>1. \A r \in R : rec_size(p.type, r) = c
      BY <1>1, <1>2
    <2> QED
      BY <1>1, <1>2, <2>1, DataSize
  <1> HIDE DEF n, c
  <1>5. ASSUME NEW r, Suits(p.type, r)
        PROVE  /\ InsertFits(p, r) <=> Room(p.type, n + 1)
               /\ Room(p.type, n + 1) => AllocFits(p, r) /\ ~SlotOverlaysRecord(p, r)
    <2>1. rec_size(p.type, r) = c
      BY <1>2, <1>5
    <2>2. /\ free_offset(p) = 4096 - n * c /\ front_end(p) = 32 + n * 4
      BY <1>4 DEF free_offset, front_end, PAGE_SIZE, PAGE_HEADER_SIZE, SLOT_SIZE, n
    <2>3. Room(p.type, n + 1) <=> 32 + (n + 1) * (4 + c) <= 4096
      BY DEF Room, PAGE_SIZE, PAGE_HEADER_SIZE, SLOT_SIZE, c
    <2>4. (n + 1) * (4 + c) = n * c + n * 4 + 4 + c /\ n * c \in Nat
      BY <1>2, <1>3
    <2>5. /\ InsertFits(p, r) <=> 4096 - n * c >= 32 + n * 4 + 4 + c
          /\ AllocFits(p, r) <=> 4096 - n * c >= 32 + n * 4 + c
          /\ SlotOverlaysRecord(p, r) => 4096 - n * c < 32 + n * 4 + 4 + c
      BY <2>1, <2>2 DEF InsertFits, AllocFits, SlotOverlaysRecord, SLOT_SIZE
    <2> QED
      BY <1>2, <1>3, <2>3, <2>4, <2>5
  <1> QED
    BY <1>2, <1>3, <1>4, <1>5 DEF n, c

\* A record is placed in a page that has room for it.
LEMMA PlacedRecord ==
    ASSUME EvenRecords, NEW P, NEW p \in Page(P), NEW r, Suits(p.type, r),
           Room(p.type, Len(p.slots) + 1)
    PROVE  page_alloc_slot(p, r) = [p EXCEPT !.slots = Append(p.slots, r)]
  BY FitsMeansRoom DEF page_alloc_slot

\* A sequence without one of its elements.
LEMMA RemoveAtLen ==
    ASSUME NEW S, NEW s \in Seq(S), NEW i \in 1..Len(s)
    PROVE  Len(RemoveAt(s, i)) = Len(s) - 1
  <1>1. Len(s) \in Nat
    BY LenProperties
  <1>2. /\ SubSeq(s, 1, i - 1) \in Seq(S) /\ Len(SubSeq(s, 1, i - 1)) = i - 1
        /\ SubSeq(s, i + 1, Len(s)) \in Seq(S) /\ Len(SubSeq(s, i + 1, Len(s))) = Len(s) - i
    <2>1. /\ 1 \in Int /\ i - 1 \in Int /\ 1 <= 1 /\ i - 1 <= Len(s)
          /\ i + 1 \in Int /\ Len(s) \in Int /\ 1 <= i + 1 /\ Len(s) <= Len(s)
      BY <1>1
    <2>2. /\ SubSeq(s, 1, i - 1) \in Seq(S)
          /\ Len(SubSeq(s, 1, i - 1)) = IF 1 <= i - 1 THEN i - 1 - 1 + 1 ELSE 0
      BY <2>1, SubSeqType
    <2>3. /\ SubSeq(s, i + 1, Len(s)) \in Seq(S)
          /\ Len(SubSeq(s, i + 1, Len(s))) = IF i + 1 <= Len(s) THEN Len(s) - (i + 1) + 1 ELSE 0
      BY <2>1, SubSeqType
    <2> QED
      BY <1>1, <2>2, <2>3
  <1> DEFINE a == SubSeq(s, 1, i - 1)
             c == SubSeq(s, i + 1, Len(s))
  <1>3. a \in Seq(S) /\ c \in Seq(S) /\ Len(a) = i - 1 /\ Len(c) = Len(s) - i
    BY <1>2
  <1>4. RemoveAt(s, i) = a \o c
    BY DEF RemoveAt
  <1> HIDE DEF a, c
  <1>5. Len(a \o c) = Len(a) + Len(c)
    BY <1>3, ConcatProperties
  <1> QED
    BY <1>1, <1>3, <1>4, <1>5

\* No page holds more records than it has room for,
AllRoomy == \A pid \in Pids : Room(pages[pid].type, Len(pages[pid].slots))

\* and neither will the pages that are being filled; what is left of a page that was split
\* has a record.
Counted ==
    /\ pc \in {"split_alloc", "parent_left"} =>
           /\ Len(buf.slots) + Len(todo) > 0 /\ Room(buf.type, Len(buf.slots) + Len(todo))
           /\ Room(buf.type, Len(ra))
    /\ pc = "split_left" =>
           /\ Len(left.slots) > 0 /\ Room(left.type, Len(left.slots))
           /\ Room(buf.type, Len(buf.slots) + Len(todo))
    /\ pc = "split_right" =>
           Len(pages[Last(path)].slots) > 0 /\ Room(buf.type, Len(buf.slots))
    /\ pc = "parent_alloc" =>
           Len(pages[path[level]].slots) > 0 /\ Room("PAGE_INTERNAL", Len(ra))
    /\ pc \in {"parent_median", "parent_right"} =>
           /\ Len(pages[path[level]].slots) > 0
           /\ Room(buf.type, Len(buf.slots) + Len(todo))
    /\ pc = "root_left" => buf.slots = << >>
    /\ pc \in {"root_right", "root_write"} => buf.slots = <<sep>>
    /\ pc = "merge_next" => Room(buf.type, Len(buf.slots) + Len(todo))
    /\ pc = "merge_left" => Room(buf.type, Len(buf.slots))

FInv == AllRoomy /\ Counted

\* The phases with such counts.
Counting ==
    {"split_alloc", "split_left", "split_right", "merge_next", "merge_left"}
        \cup ParentSplitting \cup RootBuilding

\* Outside of them nothing is counted.
LEMMA RestCounts ==
    ASSUME pc' \notin Counting
    PROVE  Counted'
  BY DEF Counted, Counting, ParentSplitting, RootBuilding

\* A write of a page that has room for its records,
LEMMA WriteRoomy ==
    ASSUME TypeOK, AllRoomy, NEW pid, NEW p, WritePage(pid, p), num_pages' = num_pages,
           pid \in Pids => Room(p.type, Len(p.slots))
    PROVE  AllRoomy'
  BY DEF TypeOK, AllRoomy, WritePage, Pids

\* a write of a link,
LEMMA QuietRoomy ==
    ASSUME AllRoomy, Quiet
    PROVE  AllRoomy'
  BY DEF AllRoomy, Quiet, Pids

\* and a new page.
LEMMA AllocRoomy ==
    ASSUME EvenRecords, TypeOK, AllRoomy, NEW type, AllocPage(type)
    PROVE  AllRoomy'
  <1>1. Room(type, 0) /\ Len(<< >>) = 0
    BY SomeRoom
  <1>2. page_init(type).type = type /\ page_init(type).slots = << >>
    BY DEF page_init
  <1>3. \A pid \in Pids' : pid # num_pages => pid \in Pids
    BY DEF AllocPage, Pids, TypeOK
  <1>4. \A pid \in Pids' : pages'[pid] = IF pid = num_pages THEN page_init(type) ELSE pages[pid]
    BY DEF AllocPage, Pids, TypeOK
  <1>5. Room(page_init(type).type, Len(page_init(type).slots))
    BY <1>1, <1>2
  <1> QED
    BY <1>3, <1>4, <1>5 DEF AllRoomy

\* A record of a height suits a node of that height.
LEMMA RecSuits ==
    ASSUME NEW P, NEW h, NEW n, NEW p \in Nodes(P, h, n), NEW r \in Recs(P, h, n)
    PROVE  Suits(p.type, r)
  <1>1. CASE n = 0
    BY <1>1 DEF Nodes, Recs, Suits
  <1>2. CASE n # 0
    <2>1. p.type # "PAGE_LEAF" /\ r.key \in Keys
      BY <1>2 DEF Nodes, Recs, InternalRec
    <2> QED
      BY <2>1 DEF Suits
  <1> QED
    BY <1>1, <1>2

\* What is placed in buf suits it.
LEMMA FillType ==
    ASSUME NEW h, TypeOK, Tall(h), pc \in Filling \cup {"parent_right"}
    PROVE  /\ buf \in Page(Pids) /\ Len(buf.slots) \in Nat /\ Len(todo) \in Nat
           /\ todo # << >> => Suits(buf.type, Head(todo)) /\ Len(Tail(todo)) = Len(todo) - 1
           /\ todo = << >> => Len(todo) = 0
  <1>1. PICK n : buf \in Nodes(Pids, h, n) /\ todo \in Seq(Recs(Pids, h, n))
    <2>1. CASE pc \in {"split_alloc", "split_left"}
      BY <2>1, SeqOfRecs DEF Tall, SplitsLeaf, LeafSplitting
    <2>2. CASE pc \in {"parent_left", "parent_right"}
      BY <2>2 DEF Tall, SplitsParent, ParentSplitting
    <2>3. CASE pc = "merge_next"
      BY <2>3 DEF Tall, Merges, Merging
    <2> QED
      BY <2>1, <2>2, <2>3 DEF Filling
  <1>2. buf \in Page(Pids) /\ buf.slots \in Seq(Recs(Pids, h, n))
    BY <1>1, NodeIsPage
  <1>3. Len(buf.slots) \in Nat /\ Len(todo) \in Nat
    BY <1>1, <1>2, LenProperties
  <1>4. todo # << >> =>
            /\ Head(todo) \in Recs(Pids, h, n) /\ Len(Tail(todo)) = Len(todo) - 1
    BY <1>1, HeadTailProperties
  <1>5. todo = << >> => Len(todo) = 0
    OBVIOUS
  <1> QED
    BY <1>1, <1>2, <1>3, <1>4, <1>5, RecSuits

\* No record is left out, and no slot is written over a record.
LEMMA FillPlaces ==
    ASSUME NEW h, EvenRecords, TypeOK, Tall(h), pc \in Filling \cup {"parent_right"},
           todo # << >>, Room(buf.type, Len(buf.slots) + Len(todo))
    PROVE  /\ page_alloc_slot(buf, Head(todo))
                  = [buf EXCEPT !.slots = Append(buf.slots, Head(todo))]
           /\ ~SlotOverlaysRecord(buf, Head(todo))
           /\ page_alloc_slot(buf, Head(todo)).type = buf.type
           /\ Len(page_alloc_slot(buf, Head(todo)).slots) + Len(Tail(todo))
                  = Len(buf.slots) + Len(todo)
  <1>1. /\ buf \in Page(Pids) /\ Len(buf.slots) \in Nat /\ Len(todo) \in Nat
        /\ Suits(buf.type, Head(todo)) /\ Len(Tail(todo)) = Len(todo) - 1
    BY FillType
  <1>2. Len(todo) # 0
    <2>1. todo \in Seq(Records)
      BY DEF TypeOK
    <2> QED
      BY <2>1, EmptySeq
  <1>3. Room(buf.type, Len(buf.slots) + 1)
    <2>1. Len(buf.slots) + 1 <= Len(buf.slots) + Len(todo)
      BY <1>1, <1>2
    <2>2. Len(buf.slots) + Len(todo) \in Nat /\ Len(buf.slots) + 1 \in Nat
      BY <1>1
    <2> QED
      BY <2>1, <2>2, LessRoom
  <1>4. /\ page_alloc_slot(buf, Head(todo))
               = [buf EXCEPT !.slots = Append(buf.slots, Head(todo))]
        /\ ~SlotOverlaysRecord(buf, Head(todo))
    BY <1>1, <1>3, PlacedRecord, FitsMeansRoom
  <1>5. \E R : buf.slots \in Seq(R)
    BY <1>1, PageSuits
  <1>6. Len(Append(buf.slots, Head(todo))) = Len(buf.slots) + 1
    BY <1>5
  <1> DEFINE a == Append(buf.slots, Head(todo))
             c == [buf EXCEPT !.slots = a]
  <1>7. c.type = buf.type /\ c.slots = a
    BY <1>1 DEF Page
  <1>8. page_alloc_slot(buf, Head(todo)) = c /\ Len(a) = Len(buf.slots) + 1
    BY <1>4, <1>6
  <1>9. Len(c.slots) + Len(Tail(todo)) = Len(buf.slots) + Len(todo)
    <2>1. Len(c.slots) = Len(buf.slots) + 1
      BY <1>7, <1>8
    <2> HIDE DEF c
    <2> QED
      BY <1>1, <2>1
  <1> HIDE DEF c
  <1>10. /\ page_alloc_slot(buf, Head(todo)).type = buf.type
         /\ Len(page_alloc_slot(buf, Head(todo)).slots) + Len(Tail(todo))
                  = Len(buf.slots) + Len(todo)
    BY <1>7, <1>8, <1>9
  <1> QED
    BY <1>4, <1>10

\* A page that is split has a record, and both halves of the records and the new one are
\* smaller than it.
LEMMA HalvesCount ==
    ASSUME EvenRecords, RecordsFit, NEW P, NEW p \in Page(P), Room(p.type, Len(p.slots)),
           NEW r, Suits(p.type, r), ~InsertFits(p, r),
           NEW S, NEW s \in Seq(S), Len(s) = Len(p.slots) + 1
    PROVE  LET a == SubSeq(s, 1, Len(s) \div 2)
               b == SubSeq(s, Len(s) \div 2 + 1, Len(s))
           IN  Len(a) \in Nat /\ Len(a) > 0 /\ Room(p.type, Len(a)) /\ Room(p.type, Len(b))
  <1> DEFINE n == Len(p.slots)
             m == Len(s) \div 2
             a == SubSeq(s, 1, m)
             b == SubSeq(s, m + 1, Len(s))
  <1>1. n \in Nat /\ ~Room(p.type, n + 1) /\ Room(p.type, n)
    BY FitsMeansRoom
  <1>2. Room(p.type, 1)
    BY SomeRoom
  <1>3. n # 0
    BY <1>1, <1>2
  <1> HIDE DEF n
  <1>4. Len(s) = n + 1
    BY DEF n
  <1>5. m \in Nat /\ m >= 1 /\ m <= n /\ n + 1 - m <= n /\ n + 1 - m \in Nat /\ m + 1 <= n + 1
    <2>1. m = (n + 1) \div 2
      BY <1>4
    <2>2. n \in Nat /\ n >= 1
      BY <1>1, <1>3
    <2> HIDE DEF m
    <2> QED
      BY <2>1, <2>2
  <1> HIDE DEF m
  <1>6. Len(a) = m
    <2>1. 1 \in Int /\ m \in Int /\ 1 <= 1 /\ m <= Len(s)
      BY <1>1, <1>4, <1>5
    <2>2. Len(SubSeq(s, 1, m)) = IF 1 <= m THEN m - 1 + 1 ELSE 0
      BY <2>1, SubSeqType
    <2> QED
      BY <1>5, <2>2
  <1>7. Len(b) = n + 1 - m
    <2>1. m + 1 \in Int /\ Len(s) \in Int /\ 1 <= m + 1 /\ Len(s) <= Len(s)
      BY <1>1, <1>4, <1>5
    <2>2. Len(SubSeq(s, m + 1, Len(s))) = IF m + 1 <= Len(s) THEN Len(s) - (m + 1) + 1 ELSE 0
      BY <2>1, SubSeqType
    <2> QED
      BY <1>1, <1>4, <1>5, <2>2
  <1>8. Room(p.type, m) /\ Room(p.type, n + 1 - m)
    BY <1>1, <1>5, LessRoom
  <1>9. Len(a) \in Nat /\ Len(a) > 0 /\ Room(p.type, Len(a)) /\ Room(p.type, Len(b))
    BY <1>5, <1>6, <1>7, <1>8
  <1> QED
    BY <1>9 DEF m

\* The leaf without the record of the key has room for its records.
LEMMA LeafCount ==
    ASSUME NEW h, EvenRecords, TypeOK, Tall(h), AllRoomy, pc \in {"put", "delete"}
    PROVE  /\ LeafWithoutKey \in Page(Pids) /\ LeafWithoutKey.type = "PAGE_LEAF"
           /\ LeafWithoutKey.slots \in Seq(LeafRec) /\ Len(LeafWithoutKey.slots) \in Nat
           /\ Room("PAGE_LEAF", Len(LeafWithoutKey.slots))
  <1> DEFINE p == pages[Last(path)]
  <1>1. /\ p \in Nodes(Pids, h, 0) /\ p \in Page(Pids) /\ p.type = "PAGE_LEAF"
        /\ Last(path) \in Pids /\ call.key \in Keys
    BY LeafAtEnd, CallType DEF Tall
  <1>2. LeafWithoutKey \in Nodes(Pids, h, 0)
    BY LeafWithoutKeyType
  <1>3. /\ LeafWithoutKey \in Page(Pids) /\ LeafWithoutKey.type = "PAGE_LEAF"
        /\ LeafWithoutKey.slots \in Seq(LeafRec)
    BY <1>2, NodeIsPage, SeqOfRecs
  <1>4. Room("PAGE_LEAF", Len(p.slots)) /\ p.slots \in Seq(LeafRec) /\ Len(p.slots) \in Nat
    <2>1. p.slots \in Seq(Recs(Pids, h, 0))
      BY <1>1, NodeIsPage
    <2>2. p.slots \in Seq(LeafRec)
      BY <2>1, SeqOfRecs
    <2>3. Len(p.slots) \in Nat
      BY <2>2, LenProperties
    <2> QED
      BY <1>1, <2>2, <2>3 DEF AllRoomy
  <1> HIDE DEF p
  <1>5. CASE HasKey(p, call.key)
    <2>1. LeafWithoutKey = page_remove_slot(p, Rank(p.slots, call.key))
      BY <1>5 DEF LeafWithoutKey, p
    <2>2. LeafWithoutKey.slots = RemoveAt(p.slots, Rank(p.slots, call.key))
      BY <1>1, <2>1 DEF page_remove_slot, Page
    <2>3. Rank(p.slots, call.key) \in 1..Len(p.slots)
      BY <1>1, <1>4, <1>5, RankOfKey DEF HasKey
    <2>4. Len(LeafWithoutKey.slots) = Len(p.slots) - 1
      BY <1>4, <2>2, <2>3, RemoveAtLen
    <2>5. Len(LeafWithoutKey.slots) \in Nat
      BY <1>3, LenProperties
    <2>6. Len(LeafWithoutKey.slots) <= Len(p.slots)
      BY <1>4, <2>4, <2>5
    <2>7. Room("PAGE_LEAF", Len(LeafWithoutKey.slots))
      BY <1>4, <2>5, <2>6, LessRoom
    <2> QED
      BY <1>3, <2>5, <2>7
  <1>6. CASE ~HasKey(p, call.key)
    BY <1>3, <1>4, <1>6 DEF LeafWithoutKey, p
  <1> QED
    BY <1>5, <1>6

\* Steps that write no record of a page, outside of the counted phases.
LEMMA CountRests ==
    ASSUME TypeOK, FInv, faults' = 0,
           (\E c \in Ops : Invoke(c)) \/ Descend \/ GetLeaf \/ DeleteMissing \/ RebalanceEnd
             \/ RebalanceNull \/ Return \/ ShrinkRoot \/ ShrinkWrite \/ SplitFixNext
             \/ SplitFixPrev
    PROVE  FInv'
  <1>1. /\ num_pages' = num_pages
        /\ pc' \in {"descend", "idle", "return", "undefined", "shrink_write", "split_prev",
                    "propagate"}
                    \cup {call.op}
    BY DEF Invoke, Descend, GetLeaf, DeleteMissing, RebalanceEnd, RebalanceNull, Return,
           ShrinkRoot, ShrinkWrite, SplitFixNext, SplitFixPrev, ReturnWith, store
  <1>2. call.op \notin Counting
    <2>1. call.op \in {"put", "get", "delete", "none"}
      BY OpsAssumption DEF TypeOK, NoCall
    <2> QED
      BY <2>1 DEF Counting, ParentSplitting, RootBuilding
  <1>3. pc' \notin Counting
    BY <1>1, <1>2 DEF Counting, ParentSplitting, RootBuilding
  <1>4. Quiet
    <2>1. CASE SplitFixNext
      <3>1. \/ pages' = pages
            \/ WritePage(buf.next_id, [pages[buf.next_id] EXCEPT !.prev_id = new_pid])
        BY <2>1, NothingFails DEF SplitFixNext
      <3> QED
        BY <1>1, <3>1, QuietWrite
    <2>2. CASE SplitFixPrev
      <3>1. \/ pages' = pages
            \/ WritePage(left.prev_id, [pages[left.prev_id] EXCEPT !.next_id = Last(path)])
        BY <2>2, NothingFails DEF SplitFixPrev
      <3> QED
        BY <1>1, <3>1, QuietWrite
    <2>3. CASE ShrinkWrite
      <3>1. WritePage(root_id, [pages[root_id] EXCEPT !.parent_id = INVALID_PAGE_ID])
        BY <2>3 DEF ShrinkWrite
      <3> QED
        BY <1>1, <3>1, QuietWrite
    <2>4. CASE ~SplitFixNext /\ ~SplitFixPrev /\ ~ShrinkWrite
      <3>1. pages' = pages
        BY <2>4 DEF Invoke, Descend, GetLeaf, DeleteMissing, RebalanceEnd, RebalanceNull, Return,
           ShrinkRoot, store
      <3> QED
        BY <1>1, <3>1 DEF Quiet
    <2> QED
      BY <2>1, <2>2, <2>3, <2>4
  <1> QED
    BY <1>3, <1>4, QuietRoomy, RestCounts DEF FInv

\* The leaf of a put or a delete is written.
LEMMA CountLeafWrite ==
    ASSUME NEW h, EvenRecords, TypeOK, Tall(h), FInv, PutInPlace \/ DeleteLeaf
    PROVE  FInv'
  <1>1. pc \in {"put", "delete"} /\ num_pages' = num_pages /\ pc' \in {"return", "rebalance"}
    BY DEF PutInPlace, DeleteLeaf, ReturnWith
  <1>2. pc' \notin Counting
    BY <1>1 DEF Counting, ParentSplitting, RootBuilding
  <1> DEFINE q == LeafWithoutKey
  <1>3. /\ q \in Page(Pids) /\ q.type = "PAGE_LEAF" /\ q.slots \in Seq(LeafRec)
        /\ Len(q.slots) \in Nat /\ Room("PAGE_LEAF", Len(q.slots))
    BY <1>1, LeafCount DEF FInv
  <1> HIDE DEF q
  <1>4. CASE DeleteLeaf
    <2>1. WritePage(Last(path), q)
      BY <1>4 DEF DeleteLeaf, q
    <2> QED
      BY <1>1, <1>2, <1>3, <2>1, WriteRoomy, RestCounts DEF FInv
  <1>5. CASE PutInPlace
    <2> DEFINE p == page_insert_slot(q, Rank(q.slots, call.key) + 1, NewRec)
    <2>1. /\ pc = "put" /\ WritePage(Last(path), p) /\ InsertFits(q, NewRec)
      BY <1>5 DEF PutInPlace, q
    <2>2. NewRec \in LeafRec
      BY <2>1, CallType DEF Tall, Served
    <2>3. p.type = "PAGE_LEAF" /\ p.slots = MergeSorted(q.slots, NewRec)
      BY <1>3 DEF page_insert_slot, MergeSorted, NewRec, Page
    <2>4. Len(p.slots) = Len(q.slots) + 1
      BY <1>3, <2>2, <2>3, MergeSortedType
    <2>5. Suits(q.type, NewRec)
      BY <1>3, <2>2 DEF Suits
    <2>6. Room("PAGE_LEAF", Len(q.slots) + 1)
      BY <1>3, <2>1, <2>5, FitsMeansRoom
    <2> HIDE DEF p
    <2>7. Room(p.type, Len(p.slots))
      BY <2>3, <2>4, <2>6
    <2> QED
      BY <1>1, <1>2, <2>1, <2>7, WriteRoomy, RestCounts DEF FInv
  <1> QED
    BY <1>4, <1>5

\* A leaf is cut in two halves that have room.
LEMMA CountPutSplit ==
    ASSUME NEW h, EvenRecords, RecordsFit, faults' = 0, TypeOK, Tall(h), FInv, PutSplit
    PROVE  FInv'
  <1> DEFINE q == LeafWithoutKey
             s == MergeSorted(q.slots, NewRec)
  <1>1. /\ pc = "put" /\ pc' = "split_alloc" /\ pages' = pages /\ num_pages' = num_pages
        /\ ~InsertFits(q, NewRec)
    BY DEF PutSplit, store
  <1>2. PICK all : /\ all = s /\ buf'.slots = << >> /\ buf'.type = "PAGE_LEAF"
                   /\ todo' = SubSeq(all, 1, Len(all) \div 2)
                   /\ ra' = SubSeq(all, Len(all) \div 2 + 1, Len(all))
    BY NothingFails DEF PutSplit, EmptyPage, page_init
  <1>3. /\ q \in Page(Pids) /\ q.type = "PAGE_LEAF" /\ q.slots \in Seq(LeafRec)
        /\ Len(q.slots) \in Nat /\ Room("PAGE_LEAF", Len(q.slots))
    BY <1>1, LeafCount DEF FInv
  <1>4. NewRec \in LeafRec
    BY <1>1, CallType DEF Tall, Served
  <1> HIDE DEF q
  <1>5. s \in Seq(LeafRec) /\ Len(s) = Len(q.slots) + 1
    BY <1>3, <1>4, MergeSortedType
  <1>6. Suits(q.type, NewRec)
    BY <1>3, <1>4 DEF Suits
  <1> HIDE DEF s
  <1>7. /\ Len(todo') \in Nat /\ Len(todo') > 0
        /\ Room("PAGE_LEAF", Len(todo')) /\ Room("PAGE_LEAF", Len(ra'))
    BY <1>1, <1>2, <1>3, <1>5, <1>6, HalvesCount
  <1>8. Len(buf'.slots) = 0
    BY <1>2
  <1>9. Len(buf'.slots) + Len(todo') = Len(todo')
    BY <1>7, <1>8
  <1>10. Counted'
    BY <1>1, <1>2, <1>7, <1>9 DEF Counted, ParentSplitting
  <1> QED
    BY <1>1, <1>10, QuietRoomy DEF FInv, Quiet

\* Every record finds its place: nothing is undefined.
LEMMA CountPlace ==
    ASSUME NEW h, EvenRecords, faults' = 0, TypeOK, Tall(h), FInv, PlaceRecord \/ PlaceChild
    PROVE  FInv' /\ pc' = pc
  <1>1. /\ pc \in Filling \cup {"parent_right"} /\ todo # << >>
        /\ buf' = page_alloc_slot(buf, Head(todo)) /\ todo' = Tail(todo)
        /\ pc' = (IF SlotOverlaysRecord(buf, Head(todo)) THEN "undefined" ELSE pc)
        /\ num_pages' = num_pages /\ path' = path /\ level' = level /\ left' = left /\ ra' = ra
    BY DEF PlaceRecord, PlaceChild, store
  <1>2. Room(buf.type, Len(buf.slots) + Len(todo))
    BY <1>1 DEF FInv, Counted, Filling
  <1>3. /\ pc' = pc /\ buf'.type = buf.type
        /\ Len(buf'.slots) + Len(todo') = Len(buf.slots) + Len(todo)
    BY <1>1, <1>2, FillPlaces
  <1>4. Quiet
    <2>1. CASE PlaceRecord
      BY <2>1 DEF PlaceRecord, Quiet, store
    <2>2. CASE PlaceChild
      <3>1. WritePage(Head(todo).child, [pages[Head(todo).child] EXCEPT !.parent_id = new_pid])
        BY <2>2, NothingFails DEF PlaceChild, SetParent
      <3> QED
        BY <1>1, <3>1, QuietWrite
    <2> QED
      BY <2>1, <2>2
  <1>5. pc = "parent_right" => Len(pages'[path[level]].slots) = Len(pages[path[level]].slots)
    <2>1. pc = "parent_right" => path[level] \in Pids
      <3> SUFFICES ASSUME pc = "parent_right" PROVE path[level] \in Pids
        OBVIOUS
      <3>1. level \in 1..Len(path)
        BY PathType DEF Tall, SplitsParent, ParentSplitting
      <3> QED
        BY <3>1, PathType DEF Tall
    <2> QED
      BY <1>4, <2>1 DEF Quiet
  <1>6. Counted'
    BY <1>1, <1>3, <1>5 DEF FInv, Counted, Filling, ParentSplitting
  <1> QED
    BY <1>3, <1>4, <1>6, QuietRoomy DEF FInv

\* The new page is allocated, the right half gets its records.
LEMMA CountSplitAlloc ==
    ASSUME NEW h, EvenRecords, TypeOK, Tall(h), FInv, SplitAlloc
    PROVE  FInv'
  <1>1. /\ pc = "split_alloc" /\ pc' = "split_left" /\ todo = << >>
        /\ AllocPage("PAGE_LEAF") /\ todo' = ra
        /\ left' = [buf EXCEPT !.next_id = num_pages]
    BY DEF SplitAlloc
  <1>2. buf'.slots = << >> /\ buf'.type = "PAGE_LEAF"
    BY DEF SplitAlloc, EmptyPage, page_init
  <1>3. buf \in Nodes(Pids, h, 0)
    BY <1>1 DEF Tall, SplitsLeaf, LeafSplitting
  <1>4. buf \in Page(Pids) /\ buf.type = "PAGE_LEAF" /\ Len(buf.slots) \in Nat
    BY <1>1, <1>3, NodeIsPage, FillType DEF Filling
  <1>5. left'.type = buf.type /\ left'.slots = buf.slots
    BY <1>1, <1>4 DEF Page
  <1>6. /\ Len(buf.slots) + Len(todo) > 0 /\ Room(buf.type, Len(buf.slots) + Len(todo))
        /\ Room(buf.type, Len(ra)) /\ Len(todo) = 0
    BY <1>1, FillType DEF FInv, Counted, Filling
  <1>7. Len(buf.slots) + Len(todo) = Len(buf.slots)
    BY <1>4, <1>6
  <1>8. Len(ra) \in Nat /\ Len(buf'.slots) = 0
    <2>1. ra \in Seq(Records)
      BY DEF TypeOK
    <2> QED
      BY <1>2, <2>1, LenProperties
  <1>9. Len(buf'.slots) + Len(todo') = Len(ra)
    BY <1>1, <1>8
  <1>10. Counted'
    BY <1>1, <1>2, <1>4, <1>5, <1>6, <1>7, <1>9 DEF Counted, ParentSplitting
  <1> QED
    BY <1>1, <1>10, AllocRoomy DEF FInv

\* The two halves of a leaf are written.
LEMMA CountSplitWrite ==
    ASSUME NEW h, faults' = 0, TypeOK, Tall(h), FInv, SplitWriteLeft \/ SplitWriteRight
    PROVE  FInv'
  <1>1. /\ pc \in LeafSplitting /\ num_pages' = num_pages /\ path' = path /\ buf' = buf
        /\ Last(path) \in Pids
    BY LeafAtEnd DEF SplitWriteLeft, SplitWriteRight, LeafSplitting, locals
  <1>2. CASE SplitWriteLeft
    <2>1. /\ pc = "split_left" /\ pc' = "split_right" /\ todo = << >>
          /\ WritePage(Last(path), left)
      BY <1>2, NothingFails DEF SplitWriteLeft
    <2>2. /\ Len(left.slots) > 0 /\ Room(left.type, Len(left.slots))
          /\ Room(buf.type, Len(buf.slots) + Len(todo))
      BY <2>1 DEF FInv, Counted
    <2>3. Len(buf.slots) \in Nat /\ Len(todo) = 0
      BY <2>1, FillType DEF Filling
    <2>4. Len(buf.slots) + Len(todo) = Len(buf.slots)
      BY <2>3
    <2>5. pages'[Last(path)] = left
      BY <1>1, <2>1 DEF WritePage, TypeOK
    <2>6. Counted'
      BY <1>1, <2>1, <2>2, <2>4, <2>5 DEF Counted, ParentSplitting
    <2> QED
      BY <1>1, <2>1, <2>2, <2>6, WriteRoomy DEF FInv
  <1>3. CASE SplitWriteRight
    <2>1. pc = "split_right" /\ pc' = "split_next" /\ WritePage(new_pid, buf)
      BY <1>3, NothingFails DEF SplitWriteRight
    <2>2. Room(buf.type, Len(buf.slots)) /\ pc' \notin Counting
      BY <2>1 DEF FInv, Counted, Counting, ParentSplitting, RootBuilding
    <2> QED
      BY <1>1, <2>1, <2>2, WriteRoomy, RestCounts DEF FInv
  <1> QED
    BY <1>2, <1>3

\* The parent of a split and the separator.
LEMMA ParentCount ==
    ASSUME NEW h, TypeOK, Tall(h), FInv, pc = "propagate", level > 0
    PROVE  /\ path[level] \in Pids /\ pages[path[level]] \in Page(Pids)
           /\ pages[path[level]].type = "PAGE_INTERNAL"
           /\ pages[path[level]].slots \in Seq(InternalRec(Pids)) /\ sep \in InternalRec(Pids)
           /\ Len(pages[path[level]].slots) \in Nat
           /\ Room("PAGE_INTERNAL", Len(pages[path[level]].slots))
           /\ Suits("PAGE_INTERNAL", sep)
  <1>1. level \in 1..(Len(path) - 1) /\ sep \in InternalRec(Pids)
    BY DEF Tall, GoesUp, TypeOK
  <1>2. path[level] \in Pids /\ path[level + 1] \in Pids /\ h[path[level]] = h[path[level + 1]] + 1
    <2>1. /\ Len(path) \in Nat \ {0} /\ \A i \in 1..Len(path) : path[i] \in Pids
      BY PathType DEF Tall
    <2>2. level \in 1..Len(path) /\ level + 1 \in 1..Len(path)
      BY <1>1, <2>1
    <2> QED
      BY <1>1, <2>1, <2>2 DEF Tall, Walked
  <1>3. Unwritten = {}
    BY NoneUnwritten
  <1>4. h[path[level + 1]] \in Nat
    BY <1>2, <1>3, NodeAt DEF Tall
  <1>5. h[path[level]] # 0
    BY <1>2, <1>4
  <1>6. /\ pages[path[level]] \in Nodes(Pids, h, h[path[level]]) /\ pages[path[level]] \in Page(Pids)
        /\ pages[path[level]].type = "PAGE_INTERNAL"
    BY <1>2, <1>3, <1>5, NodeAt, NodeIsPage DEF Tall
  <1>7. pages[path[level]].slots \in Seq(InternalRec(Pids))
    BY <1>6 DEF Page
  <1>8. Len(pages[path[level]].slots) \in Nat
    BY <1>7, LenProperties
  <1> QED
    BY <1>1, <1>2, <1>6, <1>7, <1>8 DEF FInv, AllRoomy, Suits, InternalRec

\* The separator fits in the parent.
LEMMA CountParentInsert ==
    ASSUME NEW h, EvenRecords, TypeOK, Tall(h), FInv, ParentInsert
    PROVE  FInv'
  <1> DEFINE q == pages[path[level]]
             p == page_insert_slot(q, Rank(q.slots, sep.key) + 1, sep)
  <1>1. /\ pc = "propagate" /\ level > 0 /\ num_pages' = num_pages /\ pc' = "return"
        /\ WritePage(path[level], p) /\ InsertFits(q, sep)
    BY DEF ParentInsert, ReturnWith
  <1>2. pc' \notin Counting
    BY <1>1 DEF Counting, ParentSplitting, RootBuilding
  <1>3. /\ q \in Page(Pids) /\ q.type = "PAGE_INTERNAL" /\ q.slots \in Seq(InternalRec(Pids))
        /\ Len(q.slots) \in Nat /\ Suits("PAGE_INTERNAL", sep) /\ sep \in InternalRec(Pids)
    BY <1>1, ParentCount
  <1> HIDE DEF q
  <1>4. p.type = "PAGE_INTERNAL" /\ p.slots = MergeSorted(q.slots, sep)
    BY <1>3 DEF page_insert_slot, MergeSorted, Page
  <1>5. Len(p.slots) = Len(q.slots) + 1
    BY <1>3, <1>4, MergeSortedType
  <1>6. Room("PAGE_INTERNAL", Len(q.slots) + 1)
    BY <1>1, <1>3, FitsMeansRoom
  <1> HIDE DEF p
  <1>7. Room(p.type, Len(p.slots))
    BY <1>4, <1>5, <1>6
  <1> QED
    BY <1>1, <1>2, <1>7, WriteRoomy, RestCounts DEF FInv

\* The parent is cut in two halves that have room.
LEMMA CountParentSplit ==
    ASSUME NEW h, EvenRecords, RecordsFit, faults' = 0, TypeOK, Tall(h), FInv, ParentSplit
    PROVE  FInv'
  <1> DEFINE q == pages[path[level]]
             s == MergeSorted(q.slots, sep)
  <1>1. /\ pc = "propagate" /\ level > 0 /\ pc' = "parent_left"
        /\ pages' = pages /\ num_pages' = num_pages /\ ~InsertFits(q, sep)
    BY DEF ParentSplit, store
  <1>2. PICK all : /\ all = s /\ buf'.slots = << >> /\ buf'.type = "PAGE_INTERNAL"
                   /\ todo' = SubSeq(all, 1, Len(all) \div 2)
                   /\ ra' = SubSeq(all, Len(all) \div 2 + 1, Len(all))
    BY NothingFails DEF ParentSplit, page_init
  <1>3. /\ q \in Page(Pids) /\ q.type = "PAGE_INTERNAL" /\ q.slots \in Seq(InternalRec(Pids))
        /\ Len(q.slots) \in Nat /\ Room("PAGE_INTERNAL", Len(q.slots))
        /\ Suits("PAGE_INTERNAL", sep) /\ sep \in InternalRec(Pids)
    BY <1>1, ParentCount
  <1> HIDE DEF q
  <1>5. s \in Seq(InternalRec(Pids)) /\ Len(s) = Len(q.slots) + 1
    BY <1>3, MergeSortedType
  <1> HIDE DEF s
  <1>7. /\ Len(todo') \in Nat /\ Len(todo') > 0
        /\ Room("PAGE_INTERNAL", Len(todo')) /\ Room("PAGE_INTERNAL", Len(ra'))
    BY <1>1, <1>2, <1>3, <1>5, HalvesCount
  <1>8. Len(buf'.slots) = 0
    BY <1>2
  <1>9. Len(buf'.slots) + Len(todo') = Len(todo')
    BY <1>7, <1>8
  <1>10. Counted'
    BY <1>1, <1>2, <1>7, <1>9 DEF Counted, ParentSplitting
  <1> QED
    BY <1>1, <1>10, QuietRoomy DEF FInv, Quiet

\* The node that is split.
LEMMA CutCount ==
    ASSUME NEW h, TypeOK, Tall(h), pc \in ParentSplitting
    PROVE  /\ path[level] \in Pids /\ buf \in Page(Pids) /\ buf.type = "PAGE_INTERNAL"
           /\ Len(buf.slots) \in Nat
           /\ pc = "parent_alloc" => ra # << >> /\ ra \in Seq(Records)
  <1>1. /\ level \in 1..(Len(path) - 1) /\ buf \in Nodes(Pids, h, h[path[level]])
    BY DEF Tall, SplitsParent
  <1>2. path[level] \in Pids /\ path[level + 1] \in Pids /\ h[path[level]] = h[path[level + 1]] + 1
    <2>1. /\ Len(path) \in Nat \ {0} /\ \A i \in 1..Len(path) : path[i] \in Pids
      BY PathType DEF Tall, ParentSplitting
    <2>2. level \in 1..Len(path) /\ level + 1 \in 1..Len(path)
      BY <1>1, <2>1
    <2> QED
      BY <1>1, <2>1, <2>2 DEF Tall, Walked, ParentSplitting
  <1>3. h[path[level + 1]] \in Nat
    BY <1>2 DEF Tall, Shape
  <1>4. h[path[level]] # 0
    BY <1>2, <1>3
  <1>5. buf.slots \in Seq(Recs(Pids, h, h[path[level]]))
    BY <1>1, NodeIsPage
  <1>6. Len(buf.slots) \in Nat
    BY <1>5, LenProperties
  <1>7. pc = "parent_alloc" => ra # << >> /\ ra \in Seq(Records)
    BY DEF Tall, SplitsParent, TypeOK
  <1> QED
    BY <1>1, <1>2, <1>4, <1>6, <1>7, NodeIsPage

\* The halves of the parent are written, the page for the right one allocated.
LEMMA CountParentWrite ==
    ASSUME NEW h, EvenRecords, faults' = 0, TypeOK, Tall(h), FInv,
           ParentWriteLeft \/ ParentAlloc \/ ParentSetMedian \/ ParentWriteRight
    PROVE  FInv'
  <1>1. pc \in ParentSplitting /\ path' = path
    BY DEF ParentWriteLeft, ParentAlloc, ParentSetMedian, ParentWriteRight, ParentSplitting, locals
  <1>2. /\ path[level] \in Pids /\ buf \in Page(Pids) /\ buf.type = "PAGE_INTERNAL"
        /\ Len(buf.slots) \in Nat
    BY <1>1, CutCount
  <1>3. CASE ParentWriteLeft
    <2>1. /\ pc = "parent_left" /\ pc' = "parent_alloc" /\ todo = << >> /\ level' = level
          /\ WritePage(path[level], buf) /\ num_pages' = num_pages /\ ra' = ra
      BY <1>3, NothingFails DEF ParentWriteLeft, locals
    <2>2. /\ Len(buf.slots) + Len(todo) > 0 /\ Room(buf.type, Len(buf.slots) + Len(todo))
          /\ Room("PAGE_INTERNAL", Len(ra))
      BY <1>2, <2>1 DEF FInv, Counted
    <2>3. Len(todo) = 0
      BY <2>1
    <2>4. Len(buf.slots) + Len(todo) = Len(buf.slots)
      BY <1>2, <2>3
    <2>5. pages'[path[level]] = buf
      BY <1>2, <2>1 DEF WritePage, TypeOK
    <2>6. Counted'
      BY <1>1, <2>1, <2>2, <2>4, <2>5 DEF Counted, ParentSplitting
    <2> QED
      BY <2>1, <2>2, <2>4, <2>6, WriteRoomy DEF FInv
  <1>4. CASE ParentAlloc
    <2>1. /\ pc = "parent_alloc" /\ pc' = "parent_median" /\ level' = level
          /\ AllocPage("PAGE_INTERNAL") /\ todo' = Tail(ra)
          /\ buf'.type = "PAGE_INTERNAL" /\ buf'.slots = << >>
      BY <1>4 DEF ParentAlloc, page_init
    <2>2. Len(pages[path[level]].slots) > 0 /\ Room("PAGE_INTERNAL", Len(ra))
      BY <2>1 DEF FInv, Counted
    <2>3. Len(buf'.slots) = 0 /\ Len(ra) \in Nat /\ Len(Tail(ra)) \in Nat /\ Len(Tail(ra)) <= Len(ra)
      <3>1. ra # << >> /\ ra \in Seq(Records)
        BY <1>1, <2>1, CutCount
      <3>2. Len(ra) \in Nat \ {0}
        BY <3>1, EmptySeq
      <3>3. Len(Tail(ra)) = Len(ra) - 1
        BY <3>1, HeadTailProperties
      <3> QED
        BY <2>1, <3>2, <3>3
    <2>4. Room("PAGE_INTERNAL", Len(Tail(ra)))
      BY <2>2, <2>3, LessRoom
    <2>5. Len(buf'.slots) + Len(todo') = Len(Tail(ra))
      BY <2>1, <2>3
    <2>6. pages'[path[level]] = pages[path[level]]
      BY <1>2, <2>1, PidsType DEF AllocPage
    <2>7. Counted'
      BY <1>1, <2>1, <2>2, <2>4, <2>5, <2>6 DEF Counted, ParentSplitting
    <2> QED
      BY <2>1, <2>7, AllocRoomy DEF FInv
  <1>5. CASE ParentSetMedian
    <2>1. /\ pc = "parent_median" /\ pc' = "parent_right" /\ level' = level /\ buf' = buf
          /\ todo' = todo /\ num_pages' = num_pages
          /\ WritePage(buf.first_child_id, [pages[buf.first_child_id] EXCEPT !.parent_id = new_pid])
      BY <1>5, NothingFails DEF ParentSetMedian, SetParent, locals
    <2>2. Quiet
      BY <2>1, QuietWrite
    <2>3. Counted'
      BY <1>1, <1>2, <2>1, <2>2 DEF FInv, Counted, ParentSplitting, Quiet
    <2> QED
      BY <2>2, <2>3, QuietRoomy DEF FInv
  <1>6. CASE ParentWriteRight
    <2>1. /\ pc = "parent_right" /\ pc' = "propagate" /\ todo = << >>
          /\ WritePage(new_pid, buf) /\ num_pages' = num_pages
      BY <1>6, NothingFails DEF ParentWriteRight
    <2>2. Room(buf.type, Len(buf.slots) + Len(todo)) /\ Len(todo) = 0 /\ pc' \notin Counting
      BY <2>1 DEF FInv, Counted, Counting, ParentSplitting, RootBuilding
    <2>3. Len(buf.slots) + Len(todo) = Len(buf.slots)
      BY <1>2, <2>2
    <2> QED
      BY <2>1, <2>2, <2>3, WriteRoomy, RestCounts DEF FInv
  <1> QED
    BY <1>3, <1>4, <1>5, <1>6

\* The new root gets its one separator.
LEMMA CountNewRoot ==
    ASSUME NEW h, EvenRecords, RecordsFit, faults' = 0, TypeOK, Tall(h), FInv,
           NewRootAlloc \/ NewRootSetLeft \/ NewRootSetRight \/ NewRootWrite
    PROVE  FInv'
  <1>1. CASE NewRootAlloc
    <2>1. AllocPage("PAGE_INTERNAL") /\ buf'.slots = << >> /\ pc' = "root_left"
      BY <1>1 DEF NewRootAlloc, page_init
    <2>2. Counted'
      BY <2>1 DEF Counted, ParentSplitting
    <2> QED
      BY <2>1, <2>2, AllocRoomy DEF FInv
  <1>2. CASE ~NewRootAlloc
    <2>1. pc \in RootBuilding
      BY <1>2 DEF NewRootSetLeft, NewRootSetRight, NewRootWrite, RootBuilding
    <2>2. /\ buf \in Nodes(Pids, h, h[new_pid]) /\ h[new_pid] = h[root_id] + 1
          /\ sep \in InternalRec(Pids) /\ h[root_id] \in Nat
      BY <2>1 DEF Tall, BuildsRoot, Shape, TypeOK
    <2>3. h[new_pid] # 0
      BY <2>2
    <2>4. buf \in Page(Pids) /\ buf.type = "PAGE_INTERNAL"
      BY <2>2, <2>3, NodeIsPage
    <2>5. Suits(buf.type, sep) /\ Room(buf.type, 1)
      <3>1. Suits(buf.type, sep)
        BY <2>2, <2>4 DEF Suits, InternalRec
      <3> QED
        BY <3>1, SomeRoom
    <2>6. CASE NewRootSetLeft
      <3>1. /\ pc = "root_left" /\ buf' = page_alloc_slot(buf, sep)
            /\ pc' = (IF SlotOverlaysRecord(buf, sep) THEN "undefined" ELSE "root_right")
            /\ num_pages' = num_pages /\ sep' = sep
            /\ WritePage(root_id, [pages[root_id] EXCEPT !.parent_id = new_pid])
        BY <2>6, NothingFails DEF NewRootSetLeft, SetParent
      <3>2. Quiet
        BY <3>1, QuietWrite
      <3>3. buf.slots = << >> /\ Len(buf.slots) = 0 /\ Len(buf.slots) + 1 = 1
        BY <3>1 DEF FInv, Counted
      <3>4. /\ buf' = [buf EXCEPT !.slots = Append(buf.slots, sep)]
            /\ pc' = "root_right"
        <4>1. Room(buf.type, Len(buf.slots) + 1)
          BY <2>5, <3>3
        <4>2. ~SlotOverlaysRecord(buf, sep)
          BY <2>4, <2>5, <4>1, FitsMeansRoom
        <4>3. page_alloc_slot(buf, sep) = [buf EXCEPT !.slots = Append(buf.slots, sep)]
          BY <2>4, <2>5, <4>1, PlacedRecord
        <4> QED
          BY <3>1, <4>2, <4>3
      <3>5. buf'.slots = <<sep>>
        <4>1. buf'.slots = Append(buf.slots, sep)
          BY <2>4, <3>4 DEF Page
        <4> QED
          BY <3>3, <4>1
      <3>6. Counted'
        BY <3>1, <3>4, <3>5 DEF Counted, ParentSplitting
      <3> QED
        BY <3>2, <3>6, QuietRoomy DEF FInv
    <2>7. CASE NewRootSetRight
      <3>1. /\ pc = "root_right" /\ pc' = "root_write" /\ buf' = buf
            /\ num_pages' = num_pages /\ sep' = sep
            /\ WritePage(sep.child, [pages[sep.child] EXCEPT !.parent_id = new_pid])
        BY <2>7, NothingFails DEF NewRootSetRight, SetParent, locals
      <3>2. Quiet
        BY <3>1, QuietWrite
      <3>3. Counted'
        BY <3>1 DEF FInv, Counted, ParentSplitting
      <3> QED
        BY <3>2, <3>3, QuietRoomy DEF FInv
    <2>8. CASE NewRootWrite
      <3>1. /\ pc = "root_write" /\ pc' = "return" /\ WritePage(new_pid, buf)
            /\ num_pages' = num_pages
        BY <2>8, NothingFails DEF NewRootWrite, ReturnWith
      <3>2. buf.slots = <<sep>> /\ pc' \notin Counting
        BY <3>1 DEF FInv, Counted, Counting, ParentSplitting, RootBuilding
      <3>3. Len(buf.slots) = 1
        BY <3>2
      <3>4. Room(buf.type, Len(buf.slots))
        BY <2>5, <3>3
      <3> QED
        BY <3>1, <3>2, <3>4, WriteRoomy, RestCounts DEF FInv
    <2> QED
      BY <1>2, <2>6, <2>7, <2>8
  <1> QED
    BY <1>1, <1>2

\* Two siblings that fit in a page have no more records than it has room for.
LEMMA CountMergeStart ==
    ASSUME NEW h, EvenRecords, TypeOK, Tall(h), FInv, MergeStart
    PROVE  FInv'
  <1> DEFINE l == pages[LeftPid]
             r == pages[RightPid]
             a == Len(l.slots)
             b == Len(r.slots)
             c == Bytes(l.type)
  <1>1. /\ pc = "rebalance" /\ level > 1 /\ HasSibling /\ pc' = "merge_next" /\ MergeFits
        /\ buf' = l /\ todo' = r.slots /\ pages' = pages /\ num_pages' = num_pages
    BY DEF MergeStart, store
  <1>2. l \in Nodes(Pids, h, h[path[level]]) /\ r \in Nodes(Pids, h, h[path[level]])
    BY <1>1, Siblings
  <1>3. l \in Page(Pids) /\ r \in Page(Pids) /\ l.type = r.type
    <2>1. l.type = r.type
      BY <1>2 DEF Nodes
    <2> QED
      BY <1>2, <2>1, NodeIsPage
  <1>4. SLOT_SIZE * (a + b) + data_size(l) + data_size(r) <= PAGE_SIZE - PAGE_HEADER_SIZE
    BY <1>1 DEF MergeFits
  <1> HIDE DEF l, r
  <1>5. /\ a \in Nat /\ b \in Nat /\ c \in Nat
        /\ data_size(l) = a * c /\ data_size(r) = b * c
    BY <1>3, FitsMeansRoom
  <1> HIDE DEF a, b, c
  <1>6. 4 * (a + b) + a * c + b * c <= 4096 - 32
    BY <1>4, <1>5 DEF SLOT_SIZE, PAGE_SIZE, PAGE_HEADER_SIZE
  <1>7. (a + b) * (4 + c) = 4 * (a + b) + a * c + b * c /\ a * c \in Nat /\ b * c \in Nat
    BY <1>5
  <1>8. 32 + (a + b) * (4 + c) <= 4096
    BY <1>5, <1>6, <1>7
  <1>9. Room(l.type, a + b)
    BY <1>8 DEF Room, SLOT_SIZE, PAGE_SIZE, PAGE_HEADER_SIZE, c
  <1>10. Room(buf'.type, Len(buf'.slots) + Len(todo'))
    BY <1>1, <1>9 DEF a, b
  <1>11. Counted'
    BY <1>1, <1>10 DEF Counted, ParentSplitting
  <1> QED
    BY <1>1, <1>11, QuietRoomy DEF FInv, Quiet

\* The merged node is written, the parent loses a slot.
LEMMA CountMerge ==
    ASSUME NEW h, EvenRecords, TypeOK, Tall(h), FInv,
           MergeFixNext \/ MergeWriteLeft \/ MergeWriteParent
    PROVE  FInv'
  <1>1. num_pages' = num_pages /\ pc \in Merging
    BY DEF MergeFixNext, MergeWriteLeft, MergeWriteParent, Merging
  <1>2. CASE MergeFixNext
    <2> DEFINE next == pages[RightPid].next_id
    <2>1. /\ pc = "merge_next" /\ pc' = "merge_left" /\ todo = << >>
          /\ buf' = [buf EXCEPT !.next_id = next]
          /\ pages' = pages \/ WritePage(next, [pages[next] EXCEPT !.prev_id = LeftPid])
      BY <1>2 DEF MergeFixNext
    <2>2. Quiet
      BY <1>1, <2>1, QuietWrite
    <2>3. /\ Room(buf.type, Len(buf.slots) + Len(todo)) /\ Len(todo) = 0
          /\ Len(buf.slots) \in Nat /\ buf \in Page(Pids)
      BY <2>1, FillType DEF FInv, Counted, Filling
    <2>4. Len(buf.slots) + Len(todo) = Len(buf.slots)
      BY <2>3
    <2>5. buf'.type = buf.type /\ buf'.slots = buf.slots
      BY <2>1, <2>3 DEF Page
    <2>6. Counted'
      BY <2>1, <2>3, <2>4, <2>5 DEF Counted, ParentSplitting
    <2> QED
      BY <2>2, <2>6, QuietRoomy DEF FInv
  <1>3. CASE MergeWriteLeft
    <2>1. pc = "merge_left" /\ pc' = "merge_parent" /\ WritePage(LeftPid, buf)
      BY <1>3 DEF MergeWriteLeft
    <2>2. Room(buf.type, Len(buf.slots)) /\ pc' \notin Counting
      BY <2>1 DEF FInv, Counted, Counting, ParentSplitting, RootBuilding
    <2> QED
      BY <1>1, <2>1, <2>2, WriteRoomy, RestCounts DEF FInv
  <1>4. CASE MergeWriteParent
    <2> DEFINE p == page_remove_slot(Parent, LeftIndex)
    <2>1. pc' = "rebalance" /\ WritePage(path[level - 1], p)
      BY <1>4 DEF MergeWriteParent
    <2>2. pc' \notin Counting
      BY <2>1 DEF Counting, ParentSplitting, RootBuilding
    <2>3. level > 1 /\ HasSibling
      BY <1>1 DEF Tall, Merges
    <2>4. LeftIndex \in 1..Len(Parent.slots)
      BY <1>1, <2>3, Siblings
    <2>5. Parent \in Nodes(Pids, h, h[path[level]] + 1) /\ path[level - 1] \in Pids
      BY <1>1, <2>3, RebalanceType
    <2>6. Parent.slots \in Seq(Recs(Pids, h, h[path[level]] + 1)) /\ Parent \in Page(Pids)
      BY <2>5, NodeIsPage
    <2>7. Len(RemoveAt(Parent.slots, LeftIndex)) = Len(Parent.slots) - 1
      BY <2>4, <2>6, RemoveAtLen
    <2>8. Room(Parent.type, Len(Parent.slots)) /\ Len(Parent.slots) \in Nat
      BY <2>5, <2>6, LenProperties DEF FInv, AllRoomy, Parent
    <2>9. Len(Parent.slots) - 1 \in Nat /\ Len(Parent.slots) - 1 <= Len(Parent.slots)
      BY <2>4, <2>8
    <2>10. Room(Parent.type, Len(Parent.slots) - 1)
      BY <2>8, <2>9, LessRoom
    <2>11. p.type = Parent.type /\ p.slots = RemoveAt(Parent.slots, LeftIndex)
      BY <2>6 DEF page_remove_slot, Page
    <2> HIDE DEF p
    <2>12. Room(p.type, Len(p.slots))
      BY <2>7, <2>10, <2>11
    <2> QED
      BY <1>1, <2>1, <2>2, <2>12, WriteRoomy, RestCounts DEF FInv
  <1> QED
    BY <1>2, <1>3, <1>4

\* Every step keeps the pages within their room.
LEMMA NextFInv ==
    ASSUME NEW h, EvenRecords, RecordsFit, faults' = 0, TypeOK, Tall(h), FInv, Next
    PROVE  FInv'
  <1>1. ~Fail
    BY NothingFails
  <1>2. CASE IOError \/ GarbageRead \/ OutOfMemory \/ CollectFailed
    BY <1>1, <1>2 DEF IOError, GarbageRead, OutOfMemory, CollectFailed
  <1>3. CASE (\E c \in Ops : Invoke(c)) \/ Descend \/ GetLeaf \/ Return \/ SplitFixNext \/ SplitFixPrev
    BY <1>3, CountRests
  <1>4. CASE DeleteMissing \/ RebalanceEnd \/ RebalanceNull \/ ShrinkRoot \/ ShrinkWrite
    BY <1>4, CountRests
  <1>5. CASE PutInPlace \/ DeleteLeaf \/ PutSplit \/ PlaceRecord \/ PlaceChild
    BY <1>5, CountLeafWrite, CountPutSplit, CountPlace
  <1>6. CASE SplitAlloc \/ SplitWriteLeft \/ SplitWriteRight
    BY <1>6, CountSplitAlloc, CountSplitWrite
  <1>7. CASE ParentInsert \/ ParentSplit
    BY <1>7, CountParentInsert, CountParentSplit
  <1>8. CASE ParentWriteLeft \/ ParentAlloc \/ ParentSetMedian \/ ParentWriteRight
    BY <1>8, CountParentWrite
  <1>9. CASE NewRootAlloc \/ NewRootSetLeft \/ NewRootSetRight \/ NewRootWrite
    BY <1>9, CountNewRoot
  <1>10. CASE MergeStart \/ MergeFixNext \/ MergeWriteLeft \/ MergeWriteParent
    BY <1>10, CountMergeStart, CountMerge
  <1> QED
    BY <1>2, <1>3, <1>4, <1>5, <1>6, <1>7, <1>8, <1>9, <1>10
    DEF Next, Step, PutStep, DeleteStep

\* A new tree is one empty page.
LEMMA InitFInv ==
    ASSUME EvenRecords, Init
    PROVE  FInv
  <1>1. Room("PAGE_LEAF", 0) /\ Len(<< >>) = 0
    BY SomeRoom
  <1>2. \A pid \in Pids : pages[pid] = page_init("PAGE_LEAF")
    BY DEF Init, Pids
  <1>3. page_init("PAGE_LEAF").type = "PAGE_LEAF" /\ page_init("PAGE_LEAF").slots = << >>
    BY DEF page_init
  <1>4. AllRoomy
    BY <1>1, <1>2, <1>3 DEF AllRoomy
  <1> QED
    BY <1>4 DEF Init, FInv, Counted, ParentSplitting

\* Nor do they when nothing changes.
LEMMA SameVarsFInv ==
    ASSUME FInv, UNCHANGED vars
    PROVE  FInv'
  <1>1. /\ pages' = pages /\ num_pages' = num_pages /\ pc' = pc
        /\ path' = path /\ level' = level /\ buf' = buf /\ todo' = todo
        /\ left' = left /\ ra' = ra /\ sep' = sep
    BY DEF vars, store, locals
  <1>2. AllRoomy'
    BY <1>1 DEF FInv, AllRoomy, Pids
  <1>3. Counted'
    BY <1>1 DEF FInv, Counted
  <1> QED
    BY <1>2, <1>3 DEF FInv

-----------------------------------------------------------------------------
(***************************************************************************)
(* The tree as it is meant at each step of a call, and what it maps the    *)
(* keys to.                                                                *)
(***************************************************************************)

\* The place above the root: the tree hangs from it by root_id.
Top == -1

\* The separator has not been put above the nodes it separates yet.
Raising == {"split_next", "split_prev", "propagate"} \cup RootBuilding

Above == IF level = 0 \/ pc \in RootBuilding THEN Top ELSE path[level]

\* The node that is not on disk as it is meant to be.
Place ==
    IF pc \in Raising THEN Above
    ELSE IF pc \in {"split_alloc", "split_left", "split_right"} THEN Last(path)
    ELSE IF pc \in ParentSplitting THEN path[level]
    ELSE IF pc = "merge_parent" THEN path[level - 1] ELSE -2

\* The records of a page on disk,
Own(q) == IF q = Top THEN {} ELSE ToSet(pages[q].slots)

\* and those that are meant: some are in memory, or in a page no other knows.
Median == [key |-> sep.key, child |-> buf.first_child_id]

PlaceRecs ==
    IF pc \in Raising THEN Own(Place) \cup {sep}
    ELSE IF pc \in {"split_alloc", "parent_left"}
         THEN ToSet(buf.slots) \cup ToSet(todo) \cup ToSet(ra)
    ELSE IF pc = "split_left" THEN ToSet(left.slots) \cup ToSet(buf.slots) \cup ToSet(todo)
    ELSE IF pc = "split_right" THEN Own(Place) \cup ToSet(buf.slots)
    ELSE IF pc = "parent_alloc" THEN Own(Place) \cup ToSet(ra)
    ELSE IF pc \in {"parent_median", "parent_right"}
         THEN Own(Place) \cup {Median} \cup ToSet(buf.slots) \cup ToSet(todo)
    ELSE ToSet(RemoveAt(Parent.slots, LeftIndex))

VRecs(q) == IF q = Place THEN PlaceRecs ELSE Own(q)

VNode(q) ==
    [type |-> IF q = Top THEN "PAGE_INTERNAL" ELSE pages[q].type,
     recs |-> VRecs(q),
     first |-> IF q = Top THEN root_id
               ELSE IF pages[q].type = "PAGE_LEAF" THEN INVALID_PAGE_ID
               ELSE pages[q].first_child_id]

\* The tree as it is meant at each step of a call.
VN == [q \in Pids \cup {Top} |-> VNode(q)]

\* What it maps the keys to: a put counts when the leaf is split or written.
Want ==
    IF pc \in {"descend", "get", "put", "delete"} \/ call.op = "get" THEN view
    ELSE [view EXCEPT ![call.key] = IF call.op = "put" THEN call.val ELSE NoVal]

Contents(N, B, D, W) ==
    \A p \in B : N[p].type = "PAGE_LEAF" =>
        \A k \in D[p] \cap Keys, v \in Vals : [key |-> k, val |-> v] \in N[p].recs <=> W[k] = v

\* The path goes down from the place above the root.
Way(N, B) ==
    \A i \in 1..Live : path[i] \in B /\ IsLink(N, IF i = 1 THEN Top ELSE path[i - 1], path[i])

\* The page a call has come to is where a lookup of its key comes, and no other leaf is.
Aim(B, D) ==
    pc \in {"descend", "get", "put", "delete"} =>
        /\ call.key \in D[Last(path)]
        /\ \A p \in B \cap Pids : pages[p].type = "PAGE_LEAF" /\ call.key \in D[p]
                                  => p = LeafFor(call.key)

\* The new page of a split is not in the tree before it is written.
Fresh(B) ==
    /\ pc \in {"split_left", "split_right", "parent_median", "parent_right"} \cup RootBuilding =>
           new_pid \notin B
    /\ pc \in {"split_left", "split_right"} => \E t \in PlaceRecs : t.key = sep.key

Mapped(B, D) ==
    /\ Top \in B /\ B \subseteq Pids \cup {Top}
    /\ Exact(VN, B, D, Top) /\ Contents(VN, B, D, Want)
    /\ Way(VN, B) /\ Aim(B, D) /\ Fresh(B)

\* The ids of pages are numbers from 0 on.
LEMMA TopType ==
    ASSUME TypeOK
    PROVE  /\ Top \notin Pids /\ -2 \notin Pids /\ Top # -2 /\ num_pages \notin Pids /\ num_pages # Top
           /\ Top \in Int /\ num_pages \in Nat
  BY DEF TypeOK, Pids, Top

\* The length of the part of the path that is in the tree.
LEMMA LiveType ==
    ASSUME TypeOK
    PROVE  Live \in Int
  <1>1. level \in Nat /\ Len(path) \in Nat
    BY LenProperties DEF TypeOK
  <1> QED
    BY <1>1 DEF Live

\* A tree that keeps its nodes is still the map.
LEMMA SameMapped ==
    ASSUME NEW B, NEW D, Mapped(B, D), B \subseteq Pids' \cup {Top},
           \A q \in B : VNode(q)' = VNode(q), Want' = Want, path' = path,
           Live \in Int, Live' \in Int, Live' <= Live, Aim(B, D)', Fresh(B)'
    PROVE  Mapped(B, D)'
  <1>1. \A q \in B : VN'[q] = VN[q]
    BY DEF Mapped, VN
  <1>2. Exact(VN', B, D, Top)
    BY <1>1, SameExact DEF Mapped
  <1>3. Contents(VN', B, D, Want')
    BY <1>1 DEF Mapped, Contents
  <1>4. Way(VN, B)'
    <2>1. ASSUME NEW i \in 1..Live'
          PROVE  path[i] \in B /\ IsLink(VN', IF i = 1 THEN Top ELSE path[i - 1], path[i])
      <3> DEFINE g == IF i = 1 THEN Top ELSE path[i - 1]
      <3>1. i \in 1..Live /\ (i # 1 => i - 1 \in 1..Live)
        BY <2>1
      <3>2. path[i] \in B /\ g \in B /\ IsLink(VN, g, path[i])
        BY <3>1 DEF Mapped, Way
      <3> HIDE DEF g
      <3>3. IsLink(VN', g, path[i])
        BY <1>1, <3>2 DEF IsLink
      <3> QED
        BY <3>2, <3>3 DEF g
    <2> QED
      BY <2>1 DEF Way
  <1> QED
    BY <1>2, <1>3, <1>4 DEF Mapped

\* The nodes stay when their records, types and first children do.
LEMMA SameNodes ==
    ASSUME NEW B, NEW D, TypeOK, Mapped(B, D), root_id' = root_id, Pids \subseteq Pids',
           \A q \in Pids \cap B :
               /\ pages'[q].type = pages[q].type
               /\ pages[q].type # "PAGE_LEAF" =>
                      pages'[q].first_child_id = pages[q].first_child_id,
           \A q \in B : VRecs(q)' = VRecs(q), Want' = Want, path' = path,
           Live' \in Int, Live' <= Live, Aim(B, D)', Fresh(B)'
    PROVE  Mapped(B, D)'
  <1>1. B \subseteq Pids' \cup {Top}
    BY DEF Mapped
  <1>2. ASSUME NEW q \in B PROVE VNode(q)' = VNode(q)
    <2>1. q = Top \/ q \in Pids \cap B
      BY DEF Mapped
    <2> QED
      BY <2>1 DEF VNode
  <1> QED
    BY <1>1, <1>2, LiveType, SameMapped

\* A quiet change leaves the records on disk.
LEMMA QuietOwn ==
    ASSUME Quiet, NEW q \in Pids \cup {Top}
    PROVE  Own(q)' = Own(q)
  BY DEF Quiet, Own

\* Steps that change no record.
LEMMA QuietMapped ==
    ASSUME NEW B, NEW D, TypeOK, Mapped(B, D), Quiet, root_id' = root_id,
           Place' = Place, Place \in B => PlaceRecs' = PlaceRecs,
           Want' = Want, path' = path, Live' \in Int, Live' <= Live, Aim(B, D)', Fresh(B)'
    PROVE  Mapped(B, D)'
  <1>1. \A q \in Pids : /\ pages'[q].type = pages[q].type
                        /\ pages'[q].first_child_id = pages[q].first_child_id
    BY DEF Quiet
  <1>2. Pids \subseteq Pids'
    BY QuietKeeps
  <1>3. ASSUME NEW q \in B PROVE VRecs(q)' = VRecs(q)
    <2>1. q \in Pids \cup {Top}
      BY DEF Mapped
    <2>2. Own(q)' = Own(q)
      BY <2>1, QuietOwn
    <2> QED
      BY <2>2 DEF VRecs
  <1> QED
    BY <1>1, <1>2, <1>3, SameNodes

\* A node of the tree that is on disk.
LEMMA OnDisk ==
    ASSUME NEW q \in Pids, TypeOK, q # Place
    PROVE  /\ VN[q].type = pages[q].type /\ VN[q].recs = ToSet(pages[q].slots)
           /\ pages[q].type # "PAGE_LEAF" => VN[q].first = pages[q].first_child_id
           /\ Links(VN[q]) = Links(NodeOf(pages[q]))
  <1>1. q # Top /\ q \in Pids \cup {Top}
    BY TopType
  <1>2. VN[q] = VNode(q)
    BY <1>1 DEF VN
  <1>3. /\ VN[q].type = pages[q].type /\ VN[q].recs = ToSet(pages[q].slots)
        /\ pages[q].type # "PAGE_LEAF" => VN[q].first = pages[q].first_child_id
    BY <1>1, <1>2 DEF VNode, VRecs, Own
  <1>4. /\ NodeOf(pages[q]).type = pages[q].type /\ NodeOf(pages[q]).recs = ToSet(pages[q].slots)
        /\ NodeOf(pages[q]).first = pages[q].first_child_id
    BY DEF NodeOf
  <1>5. Links(VN[q]) = Links(NodeOf(pages[q]))
    <2>1. CASE pages[q].type = "PAGE_LEAF"
      BY <1>3, <1>4, <2>1 DEF Links
    <2>2. CASE pages[q].type # "PAGE_LEAF"
      BY <1>3, <1>4, <2>2 DEF Links
    <2> QED
      BY <2>1, <2>2
  <1> QED
    BY <1>3, <1>5

\* The place above the root is no leaf; there is one link from it unless a new root is built.
LEMMA AtTop ==
    ASSUME TypeOK
    PROVE  /\ VN[Top].type = "PAGE_INTERNAL" /\ VN[Top].first = root_id
           /\ VN[Top].recs = IF Place = Top THEN PlaceRecs ELSE {}
           /\ [low |-> {}, child |-> root_id] \in Links(VN[Top])
  <1>1. VN[Top] = VNode(Top)
    BY DEF VN
  <1>2. VN[Top].type = "PAGE_INTERNAL" /\ VN[Top].first = root_id
    BY <1>1 DEF VNode
  <1>3. VN[Top].recs = IF Place = Top THEN PlaceRecs ELSE {}
    BY <1>1 DEF VNode, VRecs, Own
  <1> QED
    BY <1>2, <1>3 DEF Links

-----------------------------------------------------------------------------
(***************************************************************************)
(* The steps that leave the tree as it is meant alone.                     *)
(***************************************************************************)

\* What is wanted changes only where a call takes effect.
LEMMA WantStays ==
    ASSUME view' = view, call' = call,
           \/ call.op = "get"
           \/ pc \notin {"descend", "get", "put", "delete"}
                  /\ pc' \notin {"descend", "get", "put", "delete"}
           \/ pc \in {"descend", "get", "put", "delete"}
                  /\ pc' \in {"descend", "get", "put", "delete"}
    PROVE  Want' = Want
  BY DEF Want

\* Records go from todo to buf one by one.
LEMMA PlacedSet ==
    ASSUME NEW h, EvenRecords, TypeOK, Tall(h), FInv, pc \in Filling \cup {"parent_right"},
           todo # << >>, buf' = page_alloc_slot(buf, Head(todo)), todo' = Tail(todo)
    PROVE  /\ ToSet(buf'.slots) \cup ToSet(todo') = ToSet(buf.slots) \cup ToSet(todo)
           /\ buf'.first_child_id = buf.first_child_id
           /\ ~SlotOverlaysRecord(buf, Head(todo))
  <1>1. Room(buf.type, Len(buf.slots) + Len(todo))
    BY DEF FInv, Counted, Filling
  <1>2. /\ buf' = [buf EXCEPT !.slots = Append(buf.slots, Head(todo))]
        /\ ~SlotOverlaysRecord(buf, Head(todo))
    BY <1>1, FillPlaces
  <1>3. buf \in Page(Pids) /\ Keyed(buf.slots, Records) /\ Keyed(todo, Records)
    BY HaveKeys DEF TypeOK
  <1>4. buf'.slots = Append(buf.slots, Head(todo)) /\ buf'.first_child_id = buf.first_child_id
    BY <1>2, <1>3 DEF Page
  <1>5. /\ todo \in Seq(Records) /\ buf.slots \in Seq(Records)
    BY <1>3 DEF Keyed
  <1>6. ToSet(todo) = {Head(todo)} \cup ToSet(Tail(todo)) /\ Head(todo) \in Records
    <2>1. /\ Head(todo) \in Records /\ Tail(todo) \in Seq(Records)
          /\ Len(Tail(todo)) = Len(todo) - 1 /\ Len(todo) \in Nat \ {0}
          /\ \A i \in 1..Len(Tail(todo)) : Tail(todo)[i] = todo[i + 1]
      BY <1>5, HeadTailProperties, EmptySeq
    <2>2. DOMAIN todo = 1..Len(todo) /\ DOMAIN Tail(todo) = 1..(Len(todo) - 1) /\ Head(todo) = todo[1]
      BY <1>5, <2>1, LenProperties
    <2> DEFINE n == Len(todo)
               u == Tail(todo)
    <2>3. n \in Nat \ {0} /\ DOMAIN todo = 1..n /\ DOMAIN u = 1..(n - 1) /\ Head(todo) = todo[1]
          /\ \A i \in 1..(n - 1) : u[i] = todo[i + 1]
      BY <2>1, <2>2
    <2> HIDE DEF n, u
    <2>4. ASSUME NEW i \in 1..n PROVE todo[i] \in {Head(todo)} \cup {u[j] : j \in 1..(n - 1)}
      <3>1. CASE i = 1
        BY <2>3, <3>1
      <3>2. CASE i # 1
        <4>1. i - 1 \in 1..(n - 1) /\ i - 1 + 1 = i
          BY <2>3, <3>2
        <4> QED
          BY <2>3, <4>1
      <3> QED
        BY <3>1, <3>2
    <2>5. \A j \in 1..(n - 1) : j + 1 \in 1..n
      BY <2>3
    <2>6. 1 \in 1..n
      BY <2>3
    <2>7. ToSet(u) = {u[j] : j \in 1..(n - 1)} /\ ToSet(todo) = {todo[i] : i \in 1..n}
      BY <2>3 DEF ToSet
    <2>8. ToSet(todo) = {Head(todo)} \cup ToSet(u)
      BY <2>3, <2>4, <2>5, <2>6, <2>7
    <2> QED
      BY <2>1, <2>8 DEF u
  <1>7. ToSet(Append(buf.slots, Head(todo))) = ToSet(buf.slots) \cup {Head(todo)}
    <2> DEFINE s == buf.slots
               e == Head(todo)
    <2>1. /\ Append(s, e) \in Seq(Records) /\ Len(Append(s, e)) = Len(s) + 1
          /\ \A i \in 1..Len(s) : Append(s, e)[i] = s[i]
          /\ Append(s, e)[Len(s) + 1] = e
      BY <1>5, <1>6, AppendProperties
    <2> DEFINE n == Len(s)
               a == Append(s, e)
    <2>2. n \in Nat /\ DOMAIN s = 1..n /\ DOMAIN a = 1..(n + 1)
      BY <1>5, <2>1, LenProperties
    <2>3. (\A i \in 1..n : a[i] = s[i]) /\ a[n + 1] = e
      BY <2>1
    <2> HIDE DEF s, e, n, a
    <2>4. 1..(n + 1) = (1..n) \cup {n + 1}
      BY <2>2
    <2>5. {a[i] : i \in 1..(n + 1)} = {s[i] : i \in 1..n} \cup {e}
      BY <2>3, <2>4
    <2>6. ToSet(a) = ToSet(s) \cup {e}
      BY <2>2, <2>5 DEF ToSet
    <2> QED
      BY <2>6 DEF a, s, e
  <1> QED
    BY <1>2, <1>4, <1>6, <1>7

\* Steps that end a call and change nothing but the links of pages.
LEMMA MapEnds ==
    ASSUME NEW h, NEW B, NEW D, faults' = 0, TypeOK, Tall(h), Mapped(B, D),
           GetLeaf \/ RebalanceEnd \/ ShrinkWrite
    PROVE  Mapped(B, D)'
  <1>1. /\ pc \in {"get", "rebalance", "shrink_write"} /\ pc' = "return"
        /\ num_pages' = num_pages /\ root_id' = root_id /\ view' = view /\ call' = call
        /\ path' = path
        /\ pages' = pages \/ WritePage(root_id, [pages[root_id] EXCEPT !.parent_id = INVALID_PAGE_ID])
    BY DEF GetLeaf, RebalanceEnd, ShrinkWrite, ReturnWith, store, locals
  <1>2. Quiet
    BY <1>1, QuietWrite
  <1>3. pc = "get" => call.op = "get"
    BY DEF Tall, Served
  <1>4. Want' = Want
    BY <1>1, <1>3, WantStays
  <1>5. Place' = -2 /\ Place = -2 /\ -2 \notin B
    BY <1>1, TopType DEF Place, Raising, RootBuilding, ParentSplitting, Mapped
  <1>6. Live' = 0 /\ Live \in Nat
    <2>1. Live' = 0
      BY <1>1 DEF Live, LeafSplitting, ParentSplitting
    <2>2. Len(path) \in Nat /\ level \in Nat
      BY LenProperties DEF TypeOK
    <2>3. Live \in Nat
      BY <1>1, <2>2 DEF Live, LeafSplitting, ParentSplitting
    <2> QED
      BY <2>1, <2>3
  <1>7. Aim(B, D)' /\ Fresh(B)'
    BY <1>1 DEF Aim, Fresh, RootBuilding
  <1> QED
    BY <1>1, <1>2, <1>4, <1>5, <1>6, <1>7, QuietMapped

\* The neighbours of a split leaf are told.
LEMMA MapSplitFix ==
    ASSUME NEW h, NEW B, NEW D, faults' = 0, TypeOK, Tall(h), Mapped(B, D),
           SplitFixNext \/ SplitFixPrev
    PROVE  Mapped(B, D)'
  <1>1. /\ pc \in {"split_next", "split_prev"} /\ pc' \in {"split_prev", "propagate"}
        /\ num_pages' = num_pages /\ root_id' = root_id /\ view' = view /\ call' = call
        /\ path' = path /\ level' = level /\ sep' = sep
        /\ \/ pages' = pages
           \/ WritePage(buf.next_id, [pages[buf.next_id] EXCEPT !.prev_id = new_pid])
           \/ WritePage(left.prev_id, [pages[left.prev_id] EXCEPT !.next_id = Last(path)])
    BY NothingFails DEF SplitFixNext, SplitFixPrev, store, locals
  <1>2. Quiet
    BY <1>1, QuietWrite
  <1>3. Want' = Want
    BY <1>1, WantStays
  <1>4. Place' = Place
    BY <1>1 DEF Place, Raising, Above, RootBuilding
  <1>5. Place \in B => PlaceRecs' = PlaceRecs
    <2>1. Place \in B => Own(Place)' = Own(Place)
      <3>1. Place \in B => Place \in Pids \cup {Top}
        BY DEF Mapped
      <3> QED
        BY <1>2, <1>4, <3>1 DEF Quiet, Own
    <2> QED
      BY <1>1, <2>1 DEF PlaceRecs, Raising
  <1>6. Live' = Live /\ Live \in Int
    <2>1. level = Len(path) - 1 /\ Len(path) \in Nat
      BY <1>1, LenProperties DEF Tall, SplitsLeaf, LeafSplitting, TypeOK
    <2> QED
      BY <1>1, <2>1 DEF Live, LeafSplitting
  <1>7. Aim(B, D)' /\ Fresh(B)'
    BY <1>1 DEF Aim, Fresh, RootBuilding
  <1> QED
    BY <1>1, <1>2, <1>3, <1>4, <1>5, <1>6, <1>7, QuietMapped

\* A record is placed in the page that is filled.
LEMMA MapPlace ==
    ASSUME NEW h, NEW B, NEW D, EvenRecords, faults' = 0, TypeOK, Tall(h), FInv, Mapped(B, D),
           PlaceRecord \/ PlaceChild
    PROVE  Mapped(B, D)'
  <1>1. /\ pc \in Filling \cup {"parent_right"} /\ todo # << >>
        /\ buf' = page_alloc_slot(buf, Head(todo)) /\ todo' = Tail(todo)
        /\ pc' = (IF SlotOverlaysRecord(buf, Head(todo)) THEN "undefined" ELSE pc)
        /\ num_pages' = num_pages /\ root_id' = root_id /\ view' = view /\ call' = call
        /\ path' = path /\ level' = level /\ left' = left /\ ra' = ra /\ sep' = sep
        /\ new_pid' = new_pid
        /\ \/ pages' = pages
           \/ WritePage(Head(todo).child, [pages[Head(todo).child] EXCEPT !.parent_id = new_pid])
    BY NothingFails DEF PlaceRecord, PlaceChild, SetParent, store
  <1>2. Quiet
    BY <1>1, QuietWrite
  <1>3. /\ ToSet(buf'.slots) \cup ToSet(todo') = ToSet(buf.slots) \cup ToSet(todo)
        /\ buf'.first_child_id = buf.first_child_id /\ pc' = pc
    BY <1>1, PlacedSet
  <1>4. Want' = Want
    BY <1>1, <1>3 DEF Want
  <1>5. Place' = Place
    BY <1>1, <1>3 DEF Place, Raising, Above
  <1>6. Place \in B => PlaceRecs' = PlaceRecs
    <2> SUFFICES ASSUME Place \in B PROVE PlaceRecs' = PlaceRecs
      OBVIOUS
    <2>1. Own(Place)' = Own(Place)
      <3>1. Place \in Pids \cup {Top}
        BY DEF Mapped
      <3> QED
        BY <1>2, <1>5, <3>1 DEF Quiet, Own
    <2>2. Median' = Median
      BY <1>1, <1>3 DEF Median
    <2>3. pc # "merge_next"
      <3>1. pc = "merge_next" => Place = -2
        BY DEF Place, Raising, RootBuilding, ParentSplitting
      <3> QED
        BY <3>1, TopType DEF Mapped
    <2>4. CASE pc \in {"split_alloc", "parent_left"}
      BY <1>1, <1>3, <2>4 DEF PlaceRecs, Raising, RootBuilding
    <2>5. CASE pc = "split_left"
      BY <1>1, <1>3, <2>5 DEF PlaceRecs, Raising, RootBuilding
    <2>6. CASE pc = "parent_right"
      BY <1>1, <1>3, <2>1, <2>2, <2>6 DEF PlaceRecs, Raising, RootBuilding
    <2> QED
      BY <1>1, <2>3, <2>4, <2>5, <2>6 DEF Filling
  <1>7. Live' = Live /\ Live \in Int
    BY <1>1, <1>3, LiveType DEF Live
  <1>8. Aim(B, D)'
    BY <1>1, <1>3 DEF Aim, Filling
  <1>9. Fresh(B)'
    <2>1. pc \in {"split_left", "split_right"} => PlaceRecs' = PlaceRecs
      <3>1. pc \in {"split_left", "split_right"} => pc = "split_left"
        BY <1>1 DEF Filling
      <3> QED
        BY <1>1, <1>3, <3>1 DEF PlaceRecs, Raising, RootBuilding
    <2> QED
      BY <1>1, <1>3, <2>1 DEF Fresh, Mapped
  <1> QED
    BY <1>1, <1>2, <1>4, <1>5, <1>6, <1>7, <1>8, <1>9, QuietMapped

\* A new page leaves the others.
LEMMA AllocOwn ==
    ASSUME TypeOK, NEW type, AllocPage(type)
    PROVE  /\ Pids \subseteq Pids' /\ \A q \in Pids : pages'[q] = pages[q]
           /\ \A q \in Pids \cup {Top} : Own(q)' = Own(q)
           /\ \A B : B \subseteq Pids \cup {Top} => num_pages \notin B
  <1>1. Pids \subseteq Pids'
    BY DEF AllocPage, Pids, TypeOK
  <1>2. ASSUME NEW q \in Pids PROVE pages'[q] = pages[q]
    BY PidsType DEF AllocPage
  <1>3. \A q \in Pids \cup {Top} : Own(q)' = Own(q)
    BY <1>2 DEF Own
  <1>4. \A B : B \subseteq Pids \cup {Top} => num_pages \notin B
    BY TopType
  <1> QED
    BY <1>1, <1>2, <1>3, <1>4

\* A write leaves the other pages.
LEMMA WriteOwn ==
    ASSUME TypeOK, NEW pid, NEW p, WritePage(pid, p), num_pages' = num_pages
    PROVE  /\ Pids' = Pids /\ \A q \in Pids \ {pid} : pages'[q] = pages[q]
           /\ pid \in Pids => pages'[pid] = p /\ Own(pid)' = ToSet(p.slots)
           /\ \A q \in (Pids \cup {Top}) \ {pid} : Own(q)' = Own(q)
  <1>1. pages' = [pages EXCEPT ![pid] = p] /\ DOMAIN pages = Pids
    BY DEF WritePage, TypeOK
  <1>2. Pids' = Pids
    BY DEF Pids
  <1>3. pid \in Pids => Own(pid)' = ToSet(p.slots)
    BY <1>1, TopType DEF Own
  <1>4. \A q \in Pids \ {pid} : pages'[q] = pages[q]
    BY <1>1
  <1>5. \A q \in (Pids \cup {Top}) \ {pid} : Own(q)' = Own(q)
    BY <1>4 DEF Own
  <1> QED
    BY <1>1, <1>2, <1>3, <1>4, <1>5

\* The page for the right half of a leaf is there.
LEMMA MapSplitAlloc ==
    ASSUME NEW h, NEW B, NEW D, TypeOK, Tall(h), Mapped(B, D), SplitAlloc
    PROVE  Mapped(B, D)'
  <1>1. /\ pc = "split_alloc" /\ pc' = "split_left" /\ todo = << >> /\ todo' = ra
        /\ AllocPage("PAGE_LEAF") /\ root_id' = root_id /\ view' = view /\ call' = call
        /\ path' = path /\ new_pid' = num_pages
        /\ left' = [buf EXCEPT !.next_id = num_pages]
        /\ sep' = [key |-> Head(ra).key, child |-> num_pages]
    BY DEF SplitAlloc, AllocPage
  <1>2. buf'.slots = << >>
    BY DEF SplitAlloc, EmptyPage, page_init
  <1>3. /\ Pids \subseteq Pids' /\ \A q \in Pids : pages'[q] = pages[q]
        /\ \A q \in Pids \cup {Top} : Own(q)' = Own(q) /\ num_pages \notin B
    BY <1>1, AllocOwn DEF Mapped
  <1>4. left'.slots = buf.slots
    BY <1>1 DEF TypeOK, Page
  <1>5. Place' = Place
    BY <1>1 DEF Place, Raising, RootBuilding
  <1>6. PlaceRecs' = PlaceRecs
    BY <1>1, <1>2, <1>4, OrderedEmpty DEF PlaceRecs, Raising, RootBuilding
  <1>7. \A q \in B : VRecs(q)' = VRecs(q)
    BY <1>3, <1>5, <1>6 DEF VRecs, Mapped
  <1>8. Want' = Want
    BY <1>1, WantStays
  <1>9. Live' = Live /\ Live \in Int
    BY <1>1, LiveType DEF Live, LeafSplitting
  <1>10. Aim(B, D)'
    BY <1>1 DEF Aim
  <1>11. \E t \in PlaceRecs' : t.key = sep'.key
    <2>1. ra # << >> /\ ra \in Seq(Records)
      BY <1>1 DEF Tall, SplitsLeaf, TypeOK
    <2>2. Head(ra) \in ToSet(ra)
      <3>1. Len(ra) \in Nat \ {0} /\ DOMAIN ra = 1..Len(ra) /\ Head(ra) = ra[1]
        BY <2>1, EmptySeq, LenProperties, HeadTailProperties
      <3>2. 1 \in DOMAIN ra
        BY <3>1
      <3> QED
        BY <3>1, <3>2 DEF ToSet
    <2>3. Head(ra) \in PlaceRecs'
      BY <1>1, <2>2 DEF PlaceRecs, Raising, RootBuilding
    <2> QED
      BY <1>1, <2>3
  <1>12. Fresh(B)'
    BY <1>1, <1>3, <1>11 DEF Fresh
  <1> QED
    BY <1>1, <1>3, <1>7, <1>8, <1>9, <1>10, <1>12, SameNodes

\* The left half of a leaf is on disk.
LEMMA MapSplitWriteLeft ==
    ASSUME NEW h, NEW B, NEW D, faults' = 0, TypeOK, Tall(h), Mapped(B, D), SplitWriteLeft
    PROVE  Mapped(B, D)'
  <1>1. /\ pc = "split_left" /\ pc' = "split_right" /\ todo = << >>
        /\ WritePage(Last(path), left) /\ num_pages' = num_pages /\ root_id' = root_id
        /\ view' = view /\ call' = call /\ path' = path /\ buf' = buf /\ new_pid' = new_pid
        /\ sep' = sep
    BY NothingFails DEF SplitWriteLeft, locals
  <1>2. /\ Last(path) \in Pids /\ pages[Last(path)].type = "PAGE_LEAF"
    BY <1>1, LeafAtEnd DEF LeafSplitting
  <1>3. left.type = "PAGE_LEAF"
    BY <1>1, NodeIsPage DEF Tall, SplitsLeaf, LeafSplitting
  <1>4. /\ Pids' = Pids /\ \A q \in Pids \ {Last(path)} : pages'[q] = pages[q]
        /\ pages'[Last(path)] = left /\ Own(Last(path))' = ToSet(left.slots)
        /\ \A q \in (Pids \cup {Top}) \ {Last(path)} : Own(q)' = Own(q)
    BY <1>1, <1>2, WriteOwn
  <1>5. Place = Last(path) /\ Place' = Last(path)
    BY <1>1 DEF Place, Raising, RootBuilding
  <1>6. PlaceRecs' = PlaceRecs
    <2>1. PlaceRecs = ToSet(left.slots) \cup ToSet(buf.slots)
      BY <1>1, OrderedEmpty DEF PlaceRecs, Raising, RootBuilding
    <2>2. PlaceRecs' = ToSet(left.slots) \cup ToSet(buf.slots)
      BY <1>1, <1>4, <1>5 DEF PlaceRecs, Raising, RootBuilding, Own
    <2> QED
      BY <2>1, <2>2
  <1>7. \A q \in B : VRecs(q)' = VRecs(q)
    BY <1>4, <1>5, <1>6 DEF VRecs, Mapped
  <1>8. \A q \in Pids : /\ pages'[q].type = pages[q].type
                        /\ pages[q].type # "PAGE_LEAF" =>
                               pages'[q].first_child_id = pages[q].first_child_id
    BY <1>2, <1>3, <1>4
  <1>9. Want' = Want
    BY <1>1, WantStays
  <1>10. Live' = Live /\ Live \in Int
    BY <1>1, LiveType DEF Live, LeafSplitting
  <1>11. Aim(B, D)' /\ Fresh(B)'
    BY <1>1, <1>6 DEF Aim, Fresh, Mapped
  <1> QED
    BY <1>1, <1>4, <1>7, <1>8, <1>9, <1>10, <1>11, SameNodes

\* The records of a sequence are those of its halves.
LEMMA HalvesSet ==
    ASSUME NEW R, NEW s \in Seq(R)
    PROVE  ToSet(SubSeq(s, 1, Len(s) \div 2)) \cup ToSet(SubSeq(s, Len(s) \div 2 + 1, Len(s)))
               = ToSet(s)
  <1> DEFINE n == Len(s)
             m == n \div 2
  <1>1. n \in Nat /\ DOMAIN s = 1..n
    BY LenProperties
  <1>2. m \in Nat /\ m <= n
    <2> HIDE DEF n
    <2> QED
      BY <1>1
  <1> HIDE DEF m
  <1>3. ToSet(SubSeq(s, 1, m)) = {s[i] : i \in 1..m}
    BY <1>1, <1>2, OrderedPart
  <1>4. ToSet(SubSeq(s, m + 1, n)) = {s[i] : i \in (m + 1)..n}
    BY <1>1, <1>2, OrderedPart
  <1>5. 1..n = (1..m) \cup ((m + 1)..n)
    <2> HIDE DEF n
    <2> QED
      BY <1>1, <1>2
  <1>6. {s[i] : i \in 1..m} \cup {s[i] : i \in (m + 1)..n} = {s[i] : i \in 1..n}
    <2> HIDE DEF n
    <2> QED
      BY <1>5
  <1>7. ToSet(s) = {s[i] : i \in 1..n}
    BY <1>1 DEF ToSet
  <1> QED
    BY <1>3, <1>4, <1>6, <1>7 DEF m

\* The separator is in the parent.
LEMMA MapParentInsert ==
    ASSUME NEW h, NEW N, NEW A, NEW K, NEW B, NEW D, TypeOK, Tall(h), Sorted, InOrder(N, A, K),
           Mapped(B, D), ParentInsert
    PROVE  Mapped(B, D)'
  <1> DEFINE P == path[level]
             parent == pages[P]
             p == page_insert_slot(parent, Rank(parent.slots, sep.key) + 1, sep)
  <1>1. /\ pc = "propagate" /\ level > 0 /\ pc' = "return" /\ WritePage(P, p)
        /\ num_pages' = num_pages /\ root_id' = root_id /\ view' = view /\ call' = call
        /\ path' = path /\ level' = level
    BY DEF ParentInsert, ReturnWith, locals
  <1>2. /\ P \in Pids /\ parent.type = "PAGE_INTERNAL" /\ parent \in Page(Pids) /\ level \in Nat
        /\ ToSet(MergeSorted(parent.slots, sep)) = ToSet(parent.slots) \cup {sep}
    BY <1>1, SepInParent
  <1>3. /\ p.type = parent.type /\ p.first_child_id = parent.first_child_id
        /\ p.slots = MergeSorted(parent.slots, sep)
    <2>1. p = page_insert_slot(parent, Rank(parent.slots, sep.key) + 1, sep)
      OBVIOUS
    <2> HIDE DEF parent, p
    <2>2. parent = [parent EXCEPT !.slots = parent.slots] /\ DOMAIN parent = DOMAIN parent
      BY <1>2 DEF Page
    <2> QED
      BY <1>2, <2>1 DEF page_insert_slot, MergeSorted, Page
  <1> HIDE DEF p
  <1>4. /\ Pids' = Pids /\ \A q \in Pids \ {P} : pages'[q] = pages[q]
        /\ pages'[P] = p /\ Own(P)' = ToSet(p.slots)
        /\ \A q \in (Pids \cup {Top}) \ {P} : Own(q)' = Own(q)
    BY <1>1, <1>2, WriteOwn
  <1>5. Place = P /\ Place' = -2 /\ P # Top /\ P # -2 /\ -2 \notin B
    <2>1. Place = P
      BY <1>1, <1>2 DEF Place, Raising, RootBuilding, Above
    <2>2. Place' = -2
      BY <1>1 DEF Place, Raising, RootBuilding, ParentSplitting
    <2> QED
      BY <1>2, <2>1, <2>2, TopType DEF Mapped
  <1>6. PlaceRecs = ToSet(parent.slots) \cup {sep}
    BY <1>1, <1>5 DEF PlaceRecs, Raising, Own
  <1>7. \A q \in Pids : q = P => Own(q)' = PlaceRecs
    BY <1>1, <1>2, <1>3, <1>4, <1>6
  <1> HIDE DEF P
  <1>8. ASSUME NEW q \in B PROVE VRecs(q)' = VRecs(q)
    <2>1. q \in Pids \cup {Top} /\ q # -2
      BY <1>5 DEF Mapped
    <2>2. VRecs(q)' = Own(q)'
      BY <1>5, <2>1 DEF VRecs
    <2> QED
      BY <1>4, <1>5, <1>7, <2>1, <2>2 DEF VRecs
  <1>9. \A q \in Pids : /\ pages'[q].type = pages[q].type
                        /\ pages[q].type # "PAGE_LEAF" =>
                               pages'[q].first_child_id = pages[q].first_child_id
    BY <1>3, <1>4
  <1>10. Want' = Want
    BY <1>1, WantStays
  <1>11. Live' = 0 /\ Live \in Nat
    BY <1>1, <1>2 DEF Live, LeafSplitting, ParentSplitting
  <1>12. Aim(B, D)' /\ Fresh(B)'
    BY <1>1 DEF Aim, Fresh, RootBuilding
  <1> QED
    BY <1>1, <1>4, <1>8, <1>9, <1>10, <1>11, <1>12, SameNodes

\* The records of a parent that is split and the separator are in memory.
LEMMA MapParentSplit ==
    ASSUME NEW h, NEW N, NEW A, NEW K, NEW B, NEW D, faults' = 0, TypeOK, Tall(h), Sorted,
           InOrder(N, A, K), Mapped(B, D), ParentSplit
    PROVE  Mapped(B, D)'
  <1> DEFINE P == path[level]
             s == MergeSorted(pages[P].slots, sep)
  <1>1. /\ pc = "propagate" /\ level > 0 /\ pc' = "parent_left" /\ pages' = pages
        /\ num_pages' = num_pages /\ root_id' = root_id /\ view' = view /\ call' = call
        /\ path' = path /\ level' = level /\ sep' = sep
    BY DEF ParentSplit, store
  <1>2. PICK all : /\ all = s /\ buf'.slots = << >>
                   /\ todo' = SubSeq(all, 1, Len(all) \div 2)
                   /\ ra' = SubSeq(all, Len(all) \div 2 + 1, Len(all))
    BY NothingFails DEF ParentSplit, page_init
  <1>3. /\ P \in Pids /\ level \in Nat /\ s \in Seq(Records)
        /\ ToSet(s) = ToSet(pages[P].slots) \cup {sep}
    BY <1>1, SepInParent
  <1> HIDE DEF s
  <1>4. ToSet(todo') \cup ToSet(ra') = ToSet(s)
    BY <1>2, <1>3, HalvesSet
  <1>5. Place = P /\ Place' = P /\ P # Top
    BY <1>1, <1>3, TopType DEF Place, Raising, RootBuilding, Above, ParentSplitting
  <1>6. PlaceRecs = ToSet(pages[P].slots) \cup {sep}
    BY <1>1, <1>5 DEF PlaceRecs, Raising, Own
  <1>7. PlaceRecs' = ToSet(s)
    <2>1. PlaceRecs' = ToSet(buf'.slots) \cup ToSet(todo') \cup ToSet(ra')
      BY <1>1 DEF PlaceRecs, Raising, RootBuilding
    <2> QED
      BY <1>2, <1>4, <2>1, OrderedEmpty
  <1>8. Quiet
    BY <1>1 DEF Quiet
  <1>9. Want' = Want
    BY <1>1, WantStays
  <1>10. Live' = level /\ Live = level + 1
    BY <1>1 DEF Live, LeafSplitting, ParentSplitting
  <1>11. Aim(B, D)' /\ Fresh(B)'
    BY <1>1 DEF Aim, Fresh, RootBuilding
  <1> QED
    BY <1>1, <1>3, <1>5, <1>6, <1>7, <1>8, <1>9, <1>10, <1>11, QuietMapped

\* The left half of a parent is on disk.
LEMMA MapParentWriteLeft ==
    ASSUME NEW h, NEW N, NEW A, NEW K, NEW B, NEW D, faults' = 0, TypeOK, Tall(h),
           InOrder(N, A, K), Mapped(B, D), ParentWriteLeft
    PROVE  Mapped(B, D)'
  <1> DEFINE P == path[level]
  <1>1. /\ pc = "parent_left" /\ pc' = "parent_alloc" /\ todo = << >> /\ WritePage(P, buf)
        /\ num_pages' = num_pages /\ root_id' = root_id /\ view' = view /\ call' = call
        /\ path' = path /\ level' = level /\ buf' = buf /\ ra' = ra /\ sep' = sep
    BY NothingFails DEF ParentWriteLeft, locals
  <1>2. pc \in ParentSplitting
    BY <1>1 DEF ParentSplitting
  <1>3. /\ P \in Pids /\ level \in Nat /\ pages[P].type = "PAGE_INTERNAL"
        /\ buf.type = "PAGE_INTERNAL" /\ buf.first_child_id = pages[P].first_child_id
    BY <1>1, <1>2, InParentSplit DEF CutsParent
  <1>4. /\ Pids' = Pids /\ \A q \in Pids \ {P} : pages'[q] = pages[q]
        /\ pages'[P] = buf /\ Own(P)' = ToSet(buf.slots)
        /\ \A q \in (Pids \cup {Top}) \ {P} : Own(q)' = Own(q)
    BY <1>1, <1>3, WriteOwn
  <1>5. Place = P /\ Place' = P
    BY <1>1, <1>2 DEF Place, Raising, RootBuilding, ParentSplitting
  <1>6. PlaceRecs' = PlaceRecs
    <2>1. PlaceRecs = ToSet(buf.slots) \cup ToSet(ra)
      BY <1>1, OrderedEmpty DEF PlaceRecs, Raising, RootBuilding
    <2>2. PlaceRecs' = ToSet(buf.slots) \cup ToSet(ra)
      BY <1>1, <1>4, <1>5 DEF PlaceRecs, Raising, RootBuilding, Own
    <2> QED
      BY <2>1, <2>2
  <1>7. \A q \in B : VRecs(q)' = VRecs(q)
    BY <1>4, <1>5, <1>6 DEF VRecs, Mapped
  <1>8. \A q \in Pids : /\ pages'[q].type = pages[q].type
                        /\ pages[q].type # "PAGE_LEAF" =>
                               pages'[q].first_child_id = pages[q].first_child_id
    BY <1>3, <1>4
  <1>9. Want' = Want
    BY <1>1, WantStays
  <1>10. Live' = level /\ Live = level
    BY <1>1 DEF Live, LeafSplitting, ParentSplitting
  <1>11. Aim(B, D)' /\ Fresh(B)'
    BY <1>1 DEF Aim, Fresh, RootBuilding
  <1> QED
    BY <1>1, <1>3, <1>4, <1>7, <1>8, <1>9, <1>10, <1>11, SameNodes

\* The page for the right half of a parent is there, the median in the separator.
LEMMA MapParentAlloc ==
    ASSUME NEW h, NEW B, NEW D, TypeOK, Tall(h), Mapped(B, D), ParentAlloc
    PROVE  Mapped(B, D)'
  <1> DEFINE P == path[level]
  <1>1. /\ pc = "parent_alloc" /\ pc' = "parent_median" /\ AllocPage("PAGE_INTERNAL")
        /\ root_id' = root_id /\ view' = view /\ call' = call /\ path' = path /\ level' = level
        /\ todo' = Tail(ra) /\ new_pid' = num_pages
        /\ sep' = [key |-> Head(ra).key, child |-> num_pages]
    BY DEF ParentAlloc, AllocPage
  <1>2. buf'.slots = << >> /\ buf'.first_child_id = Head(ra).child
    BY DEF ParentAlloc, page_init
  <1>3. pc \in ParentSplitting
    BY <1>1 DEF ParentSplitting
  <1>4. P \in Pids /\ ra # << >> /\ ra \in Seq(Records) /\ level \in Nat
    BY <1>1, <1>3, CutCount DEF TypeOK
  <1>5. Head(ra) \in InternalRec(Pids)
    <2>1. /\ level \in 1..(Len(path) - 1) /\ ra \in Seq(Recs(Pids, h, h[P]))
          /\ buf \in Nodes(Pids, h, h[P])
      BY <1>1, <1>3 DEF Tall, SplitsParent
    <2>2. Head(ra) \in Recs(Pids, h, h[P])
      BY <1>4, <2>1, OrderedHeadTail
    <2>3. buf.type = "PAGE_INTERNAL"
      BY <1>3, CutCount
    <2>4. h[P] # 0
      BY <2>1, <2>3 DEF Nodes
    <2> QED
      BY <2>2, <2>4 DEF Recs
  <1>6. Median' = Head(ra)
    BY <1>1, <1>2, <1>5 DEF Median, InternalRec
  <1>7. /\ Pids \subseteq Pids' /\ \A q \in Pids : pages'[q] = pages[q]
        /\ \A q \in Pids \cup {Top} : Own(q)' = Own(q) /\ num_pages \notin B
    BY <1>1, AllocOwn DEF Mapped
  <1>8. Place = P /\ Place' = P
    BY <1>1, <1>3 DEF Place, Raising, RootBuilding, ParentSplitting
  <1>9. ToSet(ra) = {Head(ra)} \cup ToSet(Tail(ra))
    BY <1>4, OrderedHeadTail
  <1>10. PlaceRecs' = PlaceRecs
    <2>1. PlaceRecs = Own(P) \cup ToSet(ra)
      BY <1>1, <1>8 DEF PlaceRecs, Raising, RootBuilding
    <2>2. PlaceRecs' = Own(P)' \cup {Median'} \cup ToSet(buf'.slots) \cup ToSet(todo')
      BY <1>1, <1>8 DEF PlaceRecs, Raising, RootBuilding
    <2>3. Own(P)' = Own(P)
      BY <1>1, <1>4, <1>7
    <2> QED
      BY <1>1, <1>2, <1>6, <1>9, <2>1, <2>2, <2>3, OrderedEmpty
  <1>11. \A q \in B : VRecs(q)' = VRecs(q)
    BY <1>7, <1>8, <1>10 DEF VRecs, Mapped
  <1>12. Want' = Want
    BY <1>1, WantStays
  <1>13. Live' = level /\ Live = level
    BY <1>1 DEF Live, LeafSplitting, ParentSplitting
  <1>14. Aim(B, D)' /\ Fresh(B)'
    BY <1>1, <1>7 DEF Aim, Fresh
  <1> QED
    BY <1>1, <1>4, <1>7, <1>11, <1>12, <1>13, <1>14, SameNodes

\* The child of the median is told.
LEMMA MapParentMedian ==
    ASSUME NEW h, NEW B, NEW D, faults' = 0, TypeOK, Tall(h), Mapped(B, D), ParentSetMedian
    PROVE  Mapped(B, D)'
  <1>1. /\ pc = "parent_median" /\ pc' = "parent_right" /\ root_id' = root_id
        /\ num_pages' = num_pages /\ view' = view /\ call' = call /\ path' = path
        /\ level' = level /\ todo' = todo /\ new_pid' = new_pid /\ sep' = sep /\ buf' = buf
        /\ WriteUnchecked(buf.first_child_id,
                          [pages[buf.first_child_id] EXCEPT !.parent_id = new_pid])
    BY DEF ParentSetMedian, SetParent, locals
  <1>2. Quiet
    BY <1>1, NothingFails, QuietWrite
  <1>3. pc \in ParentSplitting
    BY <1>1 DEF ParentSplitting
  <1>4. path[level] \in Pids /\ level \in Nat
    BY <1>1, <1>3, CutCount DEF TypeOK
  <1>5. Place = path[level] /\ Place' = Place
    BY <1>1, <1>3 DEF Place, Raising, RootBuilding, ParentSplitting
  <1>6. Own(path[level])' = Own(path[level])
    BY <1>1, <1>2, <1>4, QuietOwn
  <1>7. PlaceRecs' = PlaceRecs
    <2>1. PlaceRecs = Own(path[level]) \cup {Median} \cup ToSet(buf.slots) \cup ToSet(todo)
      BY <1>1, <1>5 DEF PlaceRecs, Raising, RootBuilding
    <2>2. PlaceRecs' = Own(path[level])' \cup {Median'} \cup ToSet(buf'.slots) \cup ToSet(todo')
      BY <1>1, <1>5 DEF PlaceRecs, Raising, RootBuilding
    <2>3. Median' = Median
      BY <1>1 DEF Median
    <2> QED
      BY <1>1, <1>6, <2>1, <2>2, <2>3
  <1>8. Want' = Want
    BY <1>1, WantStays
  <1>9. Live' = level /\ Live = level
    BY <1>1 DEF Live, LeafSplitting, ParentSplitting
  <1>10. Aim(B, D)' /\ Fresh(B)'
    BY <1>1 DEF Aim, Fresh, Mapped
  <1> QED
    BY <1>1, <1>2, <1>4, <1>5, <1>7, <1>8, <1>9, <1>10, QuietMapped

\* A new root is begun: its separator is already above the tree.
LEMMA MapNewRootAlloc ==
    ASSUME NEW B, NEW D, TypeOK, Mapped(B, D), NewRootAlloc
    PROVE  Mapped(B, D)'
  <1>1. /\ pc = "propagate" /\ level = 0 /\ pc' = "root_left" /\ AllocPage("PAGE_INTERNAL")
        /\ root_id' = root_id /\ view' = view /\ call' = call /\ path' = path /\ level' = level
        /\ sep' = sep /\ new_pid' = num_pages
    BY DEF NewRootAlloc, AllocPage
  <1>2. /\ Pids \subseteq Pids' /\ \A q \in Pids : pages'[q] = pages[q]
        /\ \A q \in Pids \cup {Top} : Own(q)' = Own(q) /\ num_pages \notin B
    BY <1>1, AllocOwn DEF Mapped
  <1>3. Place = Top /\ Place' = Top
    BY <1>1 DEF Place, Raising, RootBuilding, Above
  <1>4. PlaceRecs = {sep} /\ PlaceRecs' = {sep}
    BY <1>1, <1>3 DEF PlaceRecs, Raising, RootBuilding, Own
  <1>5. \A q \in B : VRecs(q)' = VRecs(q)
    BY <1>2, <1>3, <1>4 DEF VRecs, Mapped
  <1>6. Want' = Want
    BY <1>1, WantStays
  <1>7. Live' = 0 /\ Live = 1
    BY <1>1 DEF Live, LeafSplitting, ParentSplitting, RootBuilding
  <1>8. Aim(B, D)' /\ Fresh(B)'
    BY <1>1, <1>2 DEF Aim, Fresh, RootBuilding
  <1> QED
    BY <1>1, <1>2, <1>5, <1>6, <1>7, <1>8, SameNodes

\* The children of the new root are told.
LEMMA MapNewRootSet ==
    ASSUME NEW h, NEW B, NEW D, faults' = 0, TypeOK, Tall(h), Mapped(B, D),
           NewRootSetLeft \/ NewRootSetRight, pc' # "undefined"
    PROVE  Mapped(B, D)'
  <1>1. /\ pc \in RootBuilding /\ pc' \in RootBuilding /\ root_id' = root_id
        /\ num_pages' = num_pages /\ view' = view /\ call' = call /\ path' = path
        /\ new_pid' = new_pid /\ sep' = sep
    BY DEF NewRootSetLeft, NewRootSetRight, RootBuilding, locals
  <1>2. Quiet
    <2>1. \E q : WriteUnchecked(q, [pages[q] EXCEPT !.parent_id = new_pid])
      BY DEF NewRootSetLeft, NewRootSetRight, SetParent
    <2> QED
      BY <1>1, <2>1, NothingFails, QuietWrite
  <1>3. Place = Top /\ Place' = Top
    BY <1>1 DEF Place, Raising, RootBuilding, Above
  <1>4. PlaceRecs = {sep} /\ PlaceRecs' = {sep}
    BY <1>1, <1>3 DEF PlaceRecs, Raising, Own
  <1>5. Want' = Want
    BY <1>1, WantStays DEF RootBuilding
  <1>6. Live' = 0 /\ Live = 0
    BY <1>1 DEF Live, LeafSplitting, ParentSplitting, RootBuilding
  <1>7. Aim(B, D)' /\ Fresh(B)'
    BY <1>1 DEF Aim, Fresh, Mapped, RootBuilding
  <1> QED
    BY <1>1, <1>2, <1>3, <1>4, <1>5, <1>6, <1>7, QuietMapped

\* A merge is begun.
LEMMA MapMergeStart ==
    ASSUME NEW B, NEW D, TypeOK, Mapped(B, D), MergeStart
    PROVE  Mapped(B, D)'
  <1>1. /\ pc = "rebalance" /\ pc' = "merge_next" /\ pages' = pages /\ num_pages' = num_pages
        /\ root_id' = root_id /\ view' = view /\ call' = call /\ path' = path /\ level' = level
    BY DEF MergeStart, store
  <1>2. Quiet
    BY <1>1 DEF Quiet
  <1>3. Place = -2 /\ Place' = -2 /\ -2 \notin B
    BY <1>1, TopType DEF Place, Raising, RootBuilding, ParentSplitting, Mapped
  <1>4. Want' = Want
    BY <1>1, WantStays
  <1>5. Live' = level /\ Live = level /\ level \in Nat
    BY <1>1 DEF Live, LeafSplitting, ParentSplitting, TypeOK
  <1>6. Aim(B, D)' /\ Fresh(B)'
    BY <1>1 DEF Aim, Fresh, RootBuilding
  <1> QED
    BY <1>1, <1>2, <1>3, <1>4, <1>5, <1>6, QuietMapped

\* The neighbour behind the right node is told.
LEMMA MapMergeFixNext ==
    ASSUME NEW B, NEW D, TypeOK, Mapped(B, D), MergeFixNext
    PROVE  Mapped(B, D)'
  <1>1. /\ pc = "merge_next" /\ pc' = "merge_left" /\ num_pages' = num_pages
        /\ root_id' = root_id /\ view' = view /\ call' = call /\ path' = path /\ level' = level
        /\ \/ pages' = pages
           \/ \E q, x : WritePage(q, [pages[q] EXCEPT !.prev_id = x])
    BY DEF MergeFixNext
  <1>2. Quiet
    BY <1>1, QuietWrite
  <1>3. Place = -2 /\ Place' = -2 /\ -2 \notin B
    BY <1>1, TopType DEF Place, Raising, RootBuilding, ParentSplitting, Mapped
  <1>4. Want' = Want
    BY <1>1, WantStays
  <1>5. Live' = level /\ Live = level /\ level \in Nat
    BY <1>1 DEF Live, LeafSplitting, ParentSplitting, TypeOK
  <1>6. Aim(B, D)' /\ Fresh(B)'
    BY <1>1 DEF Aim, Fresh, RootBuilding
  <1> QED
    BY <1>1, <1>2, <1>3, <1>4, <1>5, <1>6, QuietMapped

\* The parent loses the slot that the tree no longer has.
LEMMA MapMergeWriteParent ==
    ASSUME NEW h, NEW B, NEW D, TypeOK, Tall(h), Mapped(B, D), MergeWriteParent
    PROVE  Mapped(B, D)'
  <1>0. PICK P : P = path[level - 1]
    OBVIOUS
  <1> DEFINE u == RemoveAt(Parent.slots, LeftIndex)
             p == page_remove_slot(Parent, LeftIndex)
  <1>1. /\ pc = "merge_parent" /\ pc' = "rebalance" /\ num_pages' = num_pages
        /\ root_id' = root_id /\ path' = path /\ level' = level - 1
        /\ view' = view /\ call' = call /\ WritePage(P, p)
    BY <1>0 DEF MergeWriteParent
  <1>2. level > 1 /\ HasSibling
    BY <1>1 DEF Tall, Merges, Merging
  <1>3. /\ level \in 2..Len(path) /\ P \in Pids /\ Parent \in Page(Pids)
        /\ LeftIndex \in 1..Len(Parent.slots) /\ Len(path) \in Nat
    BY <1>0, <1>1, <1>2, RebalanceType, Siblings, NodeIsPage DEF Merging
  <1>4. /\ p.slots = u /\ p.type = Parent.type /\ p.first_child_id = Parent.first_child_id
    BY <1>3 DEF page_remove_slot, Page
  <1> HIDE DEF u, p
  <1>5. /\ Pids' = Pids /\ \A q \in Pids \ {P} : pages'[q] = pages[q]
        /\ pages'[P] = p /\ Own(P)' = ToSet(p.slots)
        /\ \A q \in (Pids \cup {Top}) \ {P} : Own(q)' = Own(q)
    BY <1>1, <1>3, WriteOwn
  <1>6. Place = P /\ Place' = -2 /\ -2 \notin B
    BY <1>0, <1>1, TopType DEF Place, Raising, RootBuilding, ParentSplitting, Mapped
  <1>7. PlaceRecs = ToSet(u)
    BY <1>1 DEF PlaceRecs, Raising, RootBuilding, u
  <1>8. ASSUME NEW q \in B PROVE VRecs(q)' = VRecs(q)
    <2>1. q \in Pids \cup {Top} /\ VRecs(q)' = Own(q)'
      BY <1>6 DEF VRecs, Mapped
    <2> QED
      BY <1>4, <1>5, <1>6, <1>7, <2>1 DEF VRecs
  <1>9. \A q \in Pids : /\ pages'[q].type = pages[q].type
                        /\ pages[q].type # "PAGE_LEAF" =>
                               pages'[q].first_child_id = pages[q].first_child_id
    BY <1>0, <1>4, <1>5 DEF Parent
  <1>10. Want' = Want
    BY <1>1, WantStays
  <1>11. Live' = level - 1 /\ Live = level - 1
    BY <1>1 DEF Live, LeafSplitting, ParentSplitting
  <1>12. Aim(B, D)' /\ Fresh(B)'
    BY <1>1 DEF Aim, Fresh, RootBuilding
  <1> QED
    BY <1>1, <1>3, <1>5, <1>8, <1>9, <1>10, <1>11, <1>12, SameNodes

\* The leaf without the record of the key has all the others.
LEMMA OtherRecs ==
    ASSUME NEW h, TypeOK, Tall(h), Sorted, pc \in {"put", "delete"}
    PROVE  /\ ToSet(LeafWithoutKey.slots)
                  = {t \in ToSet(pages[Last(path)].slots) : t.key # call.key}
           /\ ~HasKey(pages[Last(path)], call.key)
                  => \A t \in ToSet(pages[Last(path)].slots) : t.key # call.key
           /\ HasKey(pages[Last(path)], call.key)
                  => \E t \in ToSet(pages[Last(path)].slots) : t.key = call.key
  <1> DEFINE p == pages[Last(path)]
             s == p.slots
             k == call.key
             i == Rank(s, k)
             w == LeafWithoutKey
  <1>1. p \in Page(Pids) /\ Last(path) \in Pids /\ k \in Keys /\ k \in Int
    BY LeafAtEnd, CallType, NodeIsPage, KeysAssumption DEF Tall
  <1>2. Keyed(s, Records)
    BY <1>1, HaveKeys
  <1>3. /\ Keyed(w.slots, Records) /\ ToSet(w.slots) \subseteq ToSet(s)
        /\ \A j \in 1..Len(w.slots) : w.slots[j].key # k
    BY WithoutKey
  <1>4. s \in Seq(Records) /\ Len(s) \in Nat /\ DOMAIN s = 1..Len(s)
    BY <1>2, LenProperties DEF Keyed
  <1>5. DOMAIN w.slots = 1..Len(w.slots)
    BY <1>3, LenProperties DEF Keyed
  <1>6. ToSet(s) = {s[j] : j \in 1..Len(s)}
    BY <1>4 DEF ToSet
  <1>7. \A t \in ToSet(w.slots) : t.key # k
    BY <1>3, <1>5 DEF ToSet
  <1>8. HasKey(p, k) <=> \E t \in ToSet(s) : t.key = k
    BY <1>4, <1>6 DEF HasKey
  <1>9. ASSUME NEW t \in ToSet(s), t.key # k PROVE t \in ToSet(w.slots)
    <2>1. CASE ~HasKey(p, k)
      BY <1>9, <2>1 DEF LeafWithoutKey
    <2>2. CASE HasKey(p, k)
      <3>1. w = [p EXCEPT !.slots = RemoveAt(@, i)]
        BY <2>2 DEF LeafWithoutKey, page_remove_slot
      <3>2. i \in 1..Len(s)
        BY <1>1, <1>4, <2>2, RankOfKey DEF HasKey
      <3> HIDE DEF p, w
      <3> DEFINE u == RemoveAt(s, i)
      <3>3. w.slots = u
        BY <1>1, <3>1 DEF Page
      <3> HIDE DEF i
      <3>4. ToSet(u) = {s[j] : j \in (1..Len(s)) \ {i}}
        BY <1>4, <3>2, OrderedRemove
      <3>5. PICK m \in 1..Len(s) : s[m].key = k
        BY <1>4, <2>2 DEF HasKey
      <3>6. m = i
        BY <1>7, <3>3, <3>4, <3>5
      <3>7. PICK j \in 1..Len(s) : t = s[j]
        BY <1>6
      <3>8. j # i
        BY <1>9, <3>5, <3>6, <3>7
      <3> QED
        BY <3>3, <3>4, <3>7, <3>8
    <2> QED
      BY <2>1, <2>2
  <1> QED
    BY <1>3, <1>7, <1>8, <1>9

-----------------------------------------------------------------------------
(***************************************************************************)
(* Puts: a record is written, nodes are cut, and a new root is made.       *)
(***************************************************************************)

\* A place in a part of a sequence.
LEMMA IndexBefore ==
    ASSUME NEW m \in Int, NEW n \in Int, m <= n, NEW i \in 1..m
    PROVE  i \in 1..n /\ (i # 1 => i - 1 \in 1..n /\ i - 1 \in 1..(m - 1))
  OBVIOUS

\* The path stays a way down when its nodes keep their links.
LEMMA WayStays ==
    ASSUME NEW B, NEW D, Mapped(B, D), NEW C, path' = path, Live \in Int, Live' \in Int,
           Live' <= Live, \A i \in 1..Live' : path[i] \in B => path[i] \in C,
           \A g \in B : (g = Top \/ \E i \in 1..(Live' - 1) : g = path[i])
                            => Links(VN[g]) \subseteq Links(VN'[g])
    PROVE  Way(VN, C)'
  <1>1. ASSUME NEW i \in 1..Live'
        PROVE  path[i] \in C /\ IsLink(VN', IF i = 1 THEN Top ELSE path[i - 1], path[i])
    <2> DEFINE g == IF i = 1 THEN Top ELSE path[i - 1]
    <2>1. i \in 1..Live /\ (i # 1 => i - 1 \in 1..Live /\ i - 1 \in 1..(Live' - 1))
      BY <1>1, IndexBefore
    <2>2. path[i] \in B /\ g \in B /\ IsLink(VN, g, path[i])
      BY <2>1 DEF Mapped, Way
    <2>3. g = Top \/ \E j \in 1..(Live' - 1) : g = path[j]
      BY <2>1
    <2> HIDE DEF g
    <2>4. Links(VN[g]) \subseteq Links(VN'[g])
      BY <2>2, <2>3
    <2>5. IsLink(VN', g, path[i])
      BY <2>2, <2>4 DEF IsLink
    <2> QED
      BY <1>1, <2>2, <2>5 DEF g
  <1> QED
    BY <1>1 DEF Way

\* The leaf a call has come to, in the tree as it is meant.
LEMMA LeafNow ==
    ASSUME NEW h, NEW B, NEW D, TypeOK, Tall(h), Mapped(B, D), pc \in {"put", "delete"}
    PROVE  /\ Last(path) \in B /\ Last(path) \in Pids /\ Last(path) # Top
           /\ pages[Last(path)].type = "PAGE_LEAF"
           /\ VN[Last(path)].type = "PAGE_LEAF"
           /\ VN[Last(path)].recs = ToSet(pages[Last(path)].slots)
           /\ Place = -2 /\ Place \notin B /\ Live = Len(path) /\ Len(path) \in Nat
           /\ call.op = pc /\ call.key \in Keys /\ call.key \in D[Last(path)]
           /\ pc = "put" => NewRec \in LeafRec
           /\ \A p \in B : VN[p].type = "PAGE_LEAF" /\ call.key \in D[p] => p = Last(path)
  <1>1. Last(path) \in Pids /\ pages[Last(path)].type = "PAGE_LEAF"
    BY LeafAtEnd
  <1>2. Place = -2
    BY DEF Place, Raising, RootBuilding, ParentSplitting
  <1>3. Last(path) # Top /\ -2 \notin B /\ Top \notin Pids /\ Last(path) # -2
    BY <1>1, TopType DEF Mapped
  <1>4. /\ VN[Last(path)].type = "PAGE_LEAF"
        /\ VN[Last(path)].recs = ToSet(pages[Last(path)].slots)
    BY <1>1, <1>2, <1>3, OnDisk
  <1>5. Live = Len(path)
    BY DEF Live
  <1>6. Len(path) \in Nat \ {0} /\ Last(path) = path[Len(path)]
    BY PathType DEF Tall
  <1>7. Last(path) \in B
    BY <1>5, <1>6 DEF Mapped, Way
  <1>8. call.op = pc /\ call.key \in Keys /\ (pc = "put" => NewRec \in LeafRec)
    BY CallType DEF Tall, Served
  <1>9. call.key \in D[Last(path)]
    BY DEF Mapped, Aim
  <1>10. ASSUME NEW p \in B, VN[p].type = "PAGE_LEAF", call.key \in D[p]
         PROVE  p = Last(path)
    <2>1. p \in Pids
      BY <1>10, AtTop DEF Mapped
    <2>2. pages[p].type = "PAGE_LEAF"
      BY <1>2, <1>3, <1>10, <2>1, TopType, OnDisk
    <2> QED
      BY <1>1, <1>7, <1>9, <1>10, <2>1, <2>2 DEF Mapped, Aim
  <1> QED
    BY <1>1, <1>2, <1>3, <1>4, <1>5, <1>6, <1>7, <1>8, <1>9, <1>10

\* The leaf of a put or a delete gets other records, in the tree as it is meant.
LEMMA LeafMapped ==
    ASSUME NEW h, NEW B, NEW D, TypeOK, Tall(h), Mapped(B, D), pc \in {"put", "delete"},
           NEW E, E = IF pc = "put" THEN {NewRec} ELSE {},
           root_id' = root_id, Pids' = Pids, path' = path, view' = view, call' = call,
           pc' \notin {"descend", "get", "put", "delete"}, Live' \in Int, Live' <= Live,
           Fresh(B)',
           \A q \in Pids :
               /\ pages'[q].type = pages[q].type
               /\ pages[q].type # "PAGE_LEAF" =>
                      pages'[q].first_child_id = pages[q].first_child_id,
           \A q \in B \ {Last(path)} : VRecs(q)' = VRecs(q),
           \A q \in B : q = Last(path) =>
               VRecs(q)' = {t \in ToSet(pages[q].slots) : t.key # call.key} \cup E
    PROVE  Mapped(B, D)'
  <1>0. PICK z : z = Last(path)
    OBVIOUS
  <1>1. /\ z \in B /\ z \in Pids /\ z # Top /\ pages[z].type = "PAGE_LEAF"
        /\ VN[z].type = "PAGE_LEAF" /\ VN[z].recs = ToSet(pages[z].slots)
        /\ Live = Len(path) /\ Len(path) \in Nat
        /\ call.op = pc /\ call.key \in Keys /\ call.key \in D[z]
        /\ pc = "put" => NewRec \in LeafRec
        /\ \A p \in B : VN[p].type = "PAGE_LEAF" /\ call.key \in D[p] => p = z
    BY <1>0, LeafNow
  <1>2. B \subseteq Pids \cup {Top} /\ Exact(VN, B, D, Top) /\ Contents(VN, B, D, Want)
    BY DEF Mapped
  <1>3. ASSUME NEW q \in B \ {z} PROVE VN'[q] = VN[q]
    <2>1. VNode(q)' = VNode(q)
      BY <1>0, <1>2 DEF VNode
    <2> QED
      BY <1>2, <2>1 DEF VN
  <1>4. /\ VN'[z].type = "PAGE_LEAF"
        /\ VN'[z].recs = {t \in VN[z].recs : t.key # call.key} \cup E
    <2>1. VN'[z] = VNode(z)'
      BY <1>1 DEF VN
    <2>2. VNode(z)'.type = "PAGE_LEAF" /\ VNode(z)'.recs = VRecs(z)'
      BY <1>1 DEF VNode
    <2> QED
      BY <1>0, <1>1, <2>1, <2>2
  <1>5. \A t \in E : t = NewRec /\ t.key = call.key /\ t.val = call.val /\ pc = "put"
    BY DEF NewRec
  <1>6. Exact(VN', B, D, Top)
    <2>1. \A t \in VN'[z].recs : t.key \in D[z]
      BY <1>1, <1>2, <1>4, <1>5 DEF Exact, Tree, Holds
    <2> QED
      BY <1>1, <1>2, <1>3, <1>4, <2>1, LeafExact
  <1>7. /\ Want = view
        /\ Want' = [view EXCEPT ![call.key] = IF pc = "put" THEN call.val ELSE NoVal]
    BY <1>1 DEF Want
  <1>8. view \in [Keys -> Vals \cup {NoVal}]
    BY DEF TypeOK
  <1>9. ASSUME NEW p \in B, VN'[p].type = "PAGE_LEAF", NEW k \in D[p] \cap Keys, NEW v \in Vals
        PROVE  [key |-> k, val |-> v] \in VN'[p].recs <=> Want'[k] = v
    <2> DEFINE r == [key |-> k, val |-> v]
    <2>1. VN[p].type = "PAGE_LEAF"
      BY <1>1, <1>3, <1>9
    <2>2. r \in VN[p].recs <=> view[k] = v
      BY <1>2, <1>7, <2>1 DEF Contents
    <2>3. CASE k # call.key
      <3>1. Want'[k] = view[k]
        BY <1>7, <1>8, <1>9, <2>3
      <3>2. r \notin E
        BY <1>5, <2>3
      <3>3. r \in VN'[p].recs <=> r \in VN[p].recs
        BY <1>3, <1>4, <2>3, <3>2
      <3> QED
        BY <2>2, <3>1, <3>3
    <2>4. CASE k = call.key
      <3>1. p = z
        BY <1>1, <2>1, <2>4
      <3>2. r \in VN'[p].recs <=> r \in E
        BY <1>4, <2>4, <3>1
      <3>3. r \in E <=> pc = "put" /\ v = call.val
        BY <2>4 DEF NewRec
      <3>4. Want'[k] = IF pc = "put" THEN call.val ELSE NoVal
        BY <1>7, <1>8, <2>4
      <3>5. v # NoVal
        BY NoValAssumption
      <3> QED
        BY <3>2, <3>3, <3>4, <3>5
    <2> QED
      BY <2>3, <2>4
  <1>10. Contents(VN', B, D, Want')
    BY <1>9 DEF Contents
  <1>11. Way(VN, B)'
    <2>1. \A g \in B : Links(VN'[g]) = Links(VN[g])
      BY <1>1, <1>3, <1>4 DEF Links
    <2>2. Live \in Int
      BY LiveType
    <2>3. \A i \in 1..Live' : path[i] \in B => path[i] \in B
      OBVIOUS
    <2>4. \A g \in B : (g = Top \/ \E i \in 1..(Live' - 1) : g = path[i])
                           => Links(VN[g]) \subseteq Links(VN'[g])
      BY <2>1
    <2> QED
      BY <2>2, <2>3, <2>4, WayStays
  <1>12. Aim(B, D)'
    BY DEF Aim
  <1>13. Top \in B /\ B \subseteq Pids' \cup {Top}
    BY <1>2 DEF Mapped
  <1> QED
    BY <1>6, <1>10, <1>11, <1>12, <1>13 DEF Mapped

\* The records of a put: the others and the new one.
LEMMA PutRecs ==
    ASSUME NEW h, TypeOK, Tall(h), Sorted, pc = "put"
    PROVE  LET s == MergeSorted(LeafWithoutKey.slots, NewRec)
           IN  /\ s \in Seq(Records)
               /\ ToSet(s) = {t \in ToSet(pages[Last(path)].slots) : t.key # call.key} \cup {NewRec}
  <1>1. /\ Keyed(LeafWithoutKey.slots, Records) /\ Ordered(LeafWithoutKey.slots)
        /\ \A i \in 1..Len(LeafWithoutKey.slots) : LeafWithoutKey.slots[i].key # call.key
    BY WithoutKey
  <1>2. NewRec \in Records /\ NewRec.key = call.key
    <2>1. NewRec \in LeafRec
      BY CallType DEF Tall, Served
    <2> QED
      BY <2>1 DEF Records, NewRec
  <1>3. ToSet(LeafWithoutKey.slots) = {t \in ToSet(pages[Last(path)].slots) : t.key # call.key}
    BY OtherRecs
  <1> QED
    BY <1>1, <1>2, <1>3, OrderedMerge

\* The leaf gets the new record.
LEMMA MapPutInPlace ==
    ASSUME NEW h, NEW B, NEW D, TypeOK, Tall(h), Sorted, Mapped(B, D), PutInPlace
    PROVE  Mapped(B, D)'
  <1> DEFINE w == LeafWithoutKey
             p == page_insert_slot(w, Rank(w.slots, call.key) + 1, NewRec)
  <1>0. PICK z : z = Last(path)
    OBVIOUS
  <1>1. /\ pc = "put" /\ pc' = "return" /\ WritePage(z, p) /\ num_pages' = num_pages
        /\ root_id' = root_id /\ view' = view /\ call' = call /\ path' = path
    BY <1>0 DEF PutInPlace, ReturnWith, locals
  <1>2. w \in Page(Pids) /\ w.type = pages[z].type
    BY <1>0, <1>1, WithoutKey
  <1>3. p.slots = MergeSorted(w.slots, NewRec) /\ p.type = pages[z].type
    <2>1. NewRec.key = call.key
      BY DEF NewRec
    <2> HIDE DEF w
    <2> QED
      BY <1>2, <2>1 DEF page_insert_slot, MergeSorted, Page
  <1>4. ToSet(p.slots) = {t \in ToSet(pages[z].slots) : t.key # call.key} \cup {NewRec}
    BY <1>0, <1>1, <1>3, PutRecs
  <1> HIDE DEF p
  <1>5. /\ z \in B /\ z \in Pids /\ z # Top /\ pages[z].type = "PAGE_LEAF" /\ Place = -2
        /\ Place \notin B /\ Live = Len(path) /\ Len(path) \in Nat
    BY <1>0, <1>1, LeafNow
  <1>6. /\ Pids' = Pids /\ \A q \in Pids \ {z} : pages'[q] = pages[q]
        /\ pages'[z] = p /\ Own(z)' = ToSet(p.slots)
        /\ \A q \in (Pids \cup {Top}) \ {z} : Own(q)' = Own(q)
    BY <1>1, <1>5, WriteOwn
  <1>7. Place' = -2
    BY <1>1 DEF Place, Raising, RootBuilding, ParentSplitting
  <1>8. ASSUME NEW q \in B PROVE VRecs(q)' = Own(q)' /\ VRecs(q) = Own(q) /\ q \in Pids \cup {Top}
    BY <1>5, <1>7 DEF VRecs, Mapped
  <1>9. \A q \in B \ {z} : VRecs(q)' = VRecs(q)
    BY <1>6, <1>8
  <1>10. \A q \in B : q = z =>
             VRecs(q)' = {t \in ToSet(pages[q].slots) : t.key # call.key} \cup {NewRec}
    BY <1>4, <1>6, <1>8
  <1>11. \A q \in Pids : /\ pages'[q].type = pages[q].type
                         /\ pages[q].type # "PAGE_LEAF" =>
                                pages'[q].first_child_id = pages[q].first_child_id
    BY <1>3, <1>5, <1>6
  <1>12. Live' = 0
    BY <1>1 DEF Live, LeafSplitting, ParentSplitting
  <1>13. Fresh(B)'
    BY <1>1 DEF Fresh, RootBuilding
  <1>14. PICK E : E = IF pc = "put" THEN {NewRec} ELSE {}
    OBVIOUS
  <1>15. \A q \in B : q = Last(path) =>
             VRecs(q)' = {t \in ToSet(pages[q].slots) : t.key # call.key} \cup E
    BY <1>0, <1>1, <1>10, <1>14
  <1>16. /\ pc \in {"put", "delete"} /\ pc' \notin {"descend", "get", "put", "delete"}
         /\ Live' \in Int /\ Live' <= Live
    BY <1>1, <1>5, <1>12
  <1>17. \A q \in B \ {Last(path)} : VRecs(q)' = VRecs(q)
    BY <1>0, <1>9
  <1> QED
    BY <1>1, <1>6, <1>11, <1>13, <1>14, <1>15, <1>16, <1>17, LeafMapped

\* The leaf loses the record of the key.
LEMMA MapDeleteLeaf ==
    ASSUME NEW h, NEW B, NEW D, TypeOK, Tall(h), Sorted, Mapped(B, D), DeleteLeaf
    PROVE  Mapped(B, D)'
  <1> DEFINE w == LeafWithoutKey
  <1>0. PICK z : z = Last(path)
    OBVIOUS
  <1>1. /\ pc = "delete" /\ pc' = "rebalance" /\ WritePage(z, w) /\ num_pages' = num_pages
        /\ root_id' = root_id /\ view' = view /\ call' = call /\ path' = path
        /\ level' = Len(path)
    BY <1>0 DEF DeleteLeaf
  <1>2. w.type = pages[z].type
    BY <1>0, <1>1, WithoutKey
  <1>3. ToSet(w.slots) = {t \in ToSet(pages[z].slots) : t.key # call.key}
    BY <1>0, <1>1, OtherRecs
  <1> HIDE DEF w
  <1>5. /\ z \in B /\ z \in Pids /\ z # Top /\ pages[z].type = "PAGE_LEAF" /\ Place = -2
        /\ Place \notin B /\ Live = Len(path) /\ Len(path) \in Nat
    BY <1>0, <1>1, LeafNow
  <1>6. /\ Pids' = Pids /\ \A q \in Pids \ {z} : pages'[q] = pages[q]
        /\ pages'[z] = w /\ Own(z)' = ToSet(w.slots)
        /\ \A q \in (Pids \cup {Top}) \ {z} : Own(q)' = Own(q)
    BY <1>1, <1>5, WriteOwn
  <1>7. Place' = -2
    BY <1>1 DEF Place, Raising, RootBuilding, ParentSplitting
  <1>8. ASSUME NEW q \in B PROVE VRecs(q)' = Own(q)' /\ VRecs(q) = Own(q) /\ q \in Pids \cup {Top}
    BY <1>5, <1>7 DEF VRecs, Mapped
  <1>9. \A q \in B \ {z} : VRecs(q)' = VRecs(q)
    BY <1>6, <1>8
  <1>10. \A q \in B : q = z =>
             VRecs(q)' = {t \in ToSet(pages[q].slots) : t.key # call.key} \cup {}
    BY <1>3, <1>6, <1>8
  <1>11. \A q \in Pids : /\ pages'[q].type = pages[q].type
                         /\ pages[q].type # "PAGE_LEAF" =>
                                pages'[q].first_child_id = pages[q].first_child_id
    BY <1>2, <1>5, <1>6
  <1>12. Live' = Len(path)
    BY <1>1 DEF Live, LeafSplitting, ParentSplitting
  <1>13. Fresh(B)'
    BY <1>1 DEF Fresh, RootBuilding
  <1>14. PICK E : E = IF pc = "put" THEN {NewRec} ELSE {}
    OBVIOUS
  <1>15. \A q \in B : q = Last(path) =>
             VRecs(q)' = {t \in ToSet(pages[q].slots) : t.key # call.key} \cup E
    BY <1>0, <1>1, <1>10, <1>14
  <1>16. /\ pc \in {"put", "delete"} /\ pc' \notin {"descend", "get", "put", "delete"}
         /\ Live' \in Int /\ Live' <= Live
    BY <1>1, <1>5, <1>12
  <1>17. \A q \in B \ {Last(path)} : VRecs(q)' = VRecs(q)
    BY <1>0, <1>9
  <1> QED
    BY <1>1, <1>6, <1>11, <1>13, <1>14, <1>15, <1>16, <1>17, LeafMapped

\* There is nothing to delete.
LEMMA MapDeleteMissing ==
    ASSUME NEW h, NEW B, NEW D, TypeOK, Tall(h), Sorted, Mapped(B, D), DeleteMissing
    PROVE  Mapped(B, D)'
  <1>0. PICK z : z = Last(path)
    OBVIOUS
  <1>1. /\ pc = "delete" /\ pc' = "return" /\ pages' = pages /\ num_pages' = num_pages
        /\ root_id' = root_id /\ view' = view /\ call' = call /\ path' = path
        /\ ~HasKey(pages[z], call.key)
    BY <1>0 DEF DeleteMissing, ReturnWith, locals, store
  <1>3. ToSet(pages[z].slots) = {t \in ToSet(pages[z].slots) : t.key # call.key}
    BY <1>0, <1>1, OtherRecs
  <1>5. /\ z \in B /\ z \in Pids /\ z # Top /\ Place = -2
        /\ Place \notin B /\ Live = Len(path) /\ Len(path) \in Nat
    BY <1>0, <1>1, LeafNow
  <1>6. Pids' = Pids
    BY <1>1 DEF Pids
  <1>7. Place' = -2
    BY <1>1 DEF Place, Raising, RootBuilding, ParentSplitting
  <1>8. ASSUME NEW q \in B
        PROVE  VRecs(q)' = Own(q) /\ VRecs(q) = Own(q) /\ q \in Pids \cup {Top}
    BY <1>1, <1>5, <1>7 DEF VRecs, Mapped, Own
  <1>9. \A q \in B \ {z} : VRecs(q)' = VRecs(q)
    BY <1>8
  <1>10. \A q \in B : q = z =>
             VRecs(q)' = {t \in ToSet(pages[q].slots) : t.key # call.key} \cup {}
    BY <1>3, <1>5, <1>8 DEF Own
  <1>12. Live' = 0
    BY <1>1 DEF Live, LeafSplitting, ParentSplitting
  <1>13. Fresh(B)'
    BY <1>1 DEF Fresh, RootBuilding
  <1>11. \A q \in Pids : /\ pages'[q].type = pages[q].type
                         /\ pages[q].type # "PAGE_LEAF" =>
                                pages'[q].first_child_id = pages[q].first_child_id
    BY <1>1
  <1>14. PICK E : E = IF pc = "put" THEN {NewRec} ELSE {}
    OBVIOUS
  <1>15. \A q \in B : q = Last(path) =>
             VRecs(q)' = {t \in ToSet(pages[q].slots) : t.key # call.key} \cup E
    BY <1>0, <1>1, <1>10, <1>14
  <1>16. /\ pc \in {"put", "delete"} /\ pc' \notin {"descend", "get", "put", "delete"}
         /\ Live' \in Int /\ Live' <= Live
    BY <1>1, <1>5, <1>12
  <1>17. \A q \in B \ {Last(path)} : VRecs(q)' = VRecs(q)
    BY <1>0, <1>9
  <1> QED
    BY <1>1, <1>6, <1>11, <1>13, <1>14, <1>15, <1>16, <1>17, LeafMapped

\* The records of the leaf and the new one are in memory.
LEMMA MapPutSplit ==
    ASSUME NEW h, NEW B, NEW D, faults' = 0, TypeOK, Tall(h), Sorted, Mapped(B, D), PutSplit
    PROVE  Mapped(B, D)'
  <1> DEFINE s == MergeSorted(LeafWithoutKey.slots, NewRec)
  <1>0. PICK z : z = Last(path)
    OBVIOUS
  <1>1. /\ pc = "put" /\ pc' = "split_alloc" /\ pages' = pages /\ num_pages' = num_pages
        /\ root_id' = root_id /\ view' = view /\ call' = call /\ path' = path
    BY DEF PutSplit, store
  <1>2. PICK all : /\ all = s /\ buf'.slots = << >>
                   /\ todo' = SubSeq(all, 1, Len(all) \div 2)
                   /\ ra' = SubSeq(all, Len(all) \div 2 + 1, Len(all))
    BY NothingFails DEF PutSplit, EmptyPage, page_init
  <1>3. /\ s \in Seq(Records)
        /\ ToSet(s) = {t \in ToSet(pages[z].slots) : t.key # call.key} \cup {NewRec}
    BY <1>0, <1>1, PutRecs
  <1> HIDE DEF s
  <1>4. ToSet(todo') \cup ToSet(ra') = ToSet(s)
    BY <1>2, <1>3, HalvesSet
  <1>5. /\ z \in B /\ z \in Pids /\ z # Top /\ Place = -2
        /\ Place \notin B /\ Live = Len(path) /\ Len(path) \in Nat
    BY <1>0, <1>1, LeafNow
  <1>6. Pids' = Pids
    BY <1>1 DEF Pids
  <1>7. Place' = z
    BY <1>0, <1>1 DEF Place, Raising, RootBuilding
  <1>8. PlaceRecs' = ToSet(s)
    <2>1. PlaceRecs' = ToSet(buf'.slots) \cup ToSet(todo') \cup ToSet(ra')
      BY <1>1 DEF PlaceRecs, Raising, RootBuilding
    <2> QED
      BY <1>2, <1>4, <2>1, OrderedEmpty
  <1>9. \A q \in B \ {z} : VRecs(q)' = VRecs(q)
    BY <1>1, <1>5, <1>7 DEF VRecs, Own
  <1>10. \A q \in B : q = z =>
             VRecs(q)' = {t \in ToSet(pages[q].slots) : t.key # call.key} \cup {NewRec}
    BY <1>3, <1>7, <1>8 DEF VRecs
  <1>12. Live' = Len(path)
    BY <1>1 DEF Live, LeafSplitting
  <1>13. Fresh(B)'
    BY <1>1 DEF Fresh, RootBuilding
  <1>11. \A q \in Pids : /\ pages'[q].type = pages[q].type
                         /\ pages[q].type # "PAGE_LEAF" =>
                                pages'[q].first_child_id = pages[q].first_child_id
    BY <1>1
  <1>14. PICK E : E = IF pc = "put" THEN {NewRec} ELSE {}
    OBVIOUS
  <1>15. \A q \in B : q = Last(path) =>
             VRecs(q)' = {t \in ToSet(pages[q].slots) : t.key # call.key} \cup E
    BY <1>0, <1>1, <1>10, <1>14
  <1>16. /\ pc \in {"put", "delete"} /\ pc' \notin {"descend", "get", "put", "delete"}
         /\ Live' \in Int /\ Live' <= Live
    BY <1>1, <1>5, <1>12
  <1>17. \A q \in B \ {Last(path)} : VRecs(q)' = VRecs(q)
    BY <1>0, <1>9
  <1> QED
    BY <1>1, <1>6, <1>11, <1>13, <1>14, <1>15, <1>16, <1>17, LeafMapped

\* The halves of a leaf hold what the leaf has held.
LEMMA SplitContents ==
    ASSUME NEW N, NEW B, NEW D, NEW W, Contents(N, B, D, W), NEW M, NEW z, NEW g, NEW n, NEW key,
           SplitInto(N, M, B, z, g, n, key), NEW J, CutBounds(B, D, J, z, n, key)
    PROVE  Contents(M, B \cup {n}, J, W)
  <1>1. ASSUME NEW p \in B \cup {n}, M[p].type = "PAGE_LEAF", NEW k \in J[p] \cap Keys, NEW v \in Vals
        PROVE  [key |-> k, val |-> v] \in M[p].recs <=> W[k] = v
    <2> DEFINE r == [key |-> k, val |-> v]
    <2>1. r.key = k
      OBVIOUS
    <2>2. CASE p \in B \ {z}
      <3>1. N[p].type = "PAGE_LEAF" /\ M[p] = N[p] /\ k \in D[p]
        BY <1>1, <2>2 DEF SplitInto, CutBounds
      <3> QED
        BY <1>1, <2>2, <3>1 DEF Contents
    <2>3. CASE p = z
      <3>1. z \in B /\ N[z].type = "PAGE_LEAF" /\ k \in D[z] /\ k < key
        BY <1>1, <2>3 DEF SplitInto, CutBounds
      <3>2. r \in N[z].recs <=> W[k] = v
        BY <1>1, <3>1 DEF Contents
      <3> HIDE DEF r
      <3>3. r \in M[z].recs <=> r \in N[z].recs
        BY <2>1, <3>1 DEF SplitInto
      <3> QED
        BY <2>3, <3>2, <3>3 DEF r
    <2>4. CASE p = n
      <3>1. z \in B /\ N[z].type = "PAGE_LEAF" /\ k \in D[z] /\ key <= k
        BY <1>1, <2>4 DEF SplitInto, CutBounds
      <3>2. r \in N[z].recs <=> W[k] = v
        BY <1>1, <3>1 DEF Contents
      <3> HIDE DEF r
      <3>3. r \in M[n].recs <=> r \in N[z].recs
        BY <2>1, <3>1 DEF SplitInto
      <3> QED
        BY <2>4, <3>2, <3>3 DEF r
    <2> QED
      BY <1>1, <2>2, <2>3, <2>4
  <1> QED
    BY <1>1 DEF Contents

\* A node of the tree is split, and the separator goes into the node above.
LEMMA SplitMapped ==
    ASSUME NEW B, NEW D, Mapped(B, D), NEW z, NEW g, NEW n, NEW key,
           SplitInto(VN, VN', B, z, g, n, key),
           \E t \in VN[z].recs : t.key = key, \E t \in VN[z].recs : t.key < key,
           B \cup {n} \subseteq Pids' \cup {Top}, Want' = Want, path' = path,
           Live \in Int, Live' \in Int, Live' <= Live, \A i \in 1..(Live' - 1) : path[i] # z, z # Top,
           \A C, J : Aim(C, J)', \A C : Fresh(C)'
    PROVE  \E C, J : Mapped(C, J)'
  <1>1. Exact(VN, B, D, Top) /\ Contents(VN, B, D, Want) /\ Top \in B
    BY DEF Mapped
  <1>2. Holds(VN, B, D) /\ D \in [B -> SUBSET Int] /\ z \in B
    BY <1>1 DEF Exact, Tree, SplitInto
  <1>3. key \in D[z] /\ \E k \in D[z] : k < key
    BY <1>2 DEF Holds
  <1>4. PICK J : Exact(VN', B \cup {n}, J, Top) /\ CutBounds(B, D, J, z, n, key)
    BY <1>1, <1>3, SplitExact
  <1>5. Contents(VN', B \cup {n}, J, Want')
    BY <1>1, <1>4, SplitContents
  <1>6. Way(VN, B \cup {n})'
    <2>1. \A q \in B : q # z => Links(VN[q]) \subseteq Links(VN'[q])
      <3>1. Links(VN[g]) \subseteq Links(VN'[g])
        BY DEF Links, SplitInto
      <3> QED
        BY <3>1 DEF SplitInto
    <2>2. \A q \in B : (q = Top \/ \E i \in 1..(Live' - 1) : q = path[i])
                           => Links(VN[q]) \subseteq Links(VN'[q])
      BY <2>1
    <2>3. \A i \in 1..Live' : path[i] \in B => path[i] \in B \cup {n}
      OBVIOUS
    <2> QED
      BY <2>2, <2>3, WayStays
  <1>7. Top \in B \cup {n} /\ Aim(B \cup {n}, J)' /\ Fresh(B \cup {n})'
    BY <1>1
  <1>8. Mapped(B \cup {n}, J)'
    BY <1>4, <1>5, <1>6, <1>7 DEF Mapped
  <1> QED
    BY <1>8

\* What a node of the tree as it is meant has.
LEMMA NodeFields ==
    ASSUME NEW q \in Pids \cup {Top}
    PROVE  /\ VN[q].recs = VRecs(q)
           /\ VN[q].type = IF q = Top THEN "PAGE_INTERNAL" ELSE pages[q].type
           /\ VN[q].first = IF q = Top THEN root_id
                            ELSE IF pages[q].type = "PAGE_LEAF" THEN INVALID_PAGE_ID
                            ELSE pages[q].first_child_id
  <1>1. VN[q] = VNode(q)
    BY DEF VN
  <1> QED
    BY <1>1 DEF VNode

\* And in the next state.
LEMMA NodeFieldsNext ==
    ASSUME NEW q \in Pids' \cup {Top}
    PROVE  /\ VN'[q].recs = VRecs(q)'
           /\ VN'[q].type = IF q = Top THEN "PAGE_INTERNAL" ELSE pages'[q].type
           /\ VN'[q].first = IF q = Top THEN root_id'
                             ELSE IF pages'[q].type = "PAGE_LEAF" THEN INVALID_PAGE_ID
                             ELSE pages'[q].first_child_id
  <1>1. VN'[q] = VNode(q)'
    BY DEF VN
  <1> QED
    BY <1>1 DEF VNode

\* The right half n of node z is written: the tree as it is meant has it, and its separator is
\* in node g above.
LEMMA CutWritten ==
    ASSUME NEW B, NEW D, TypeOK, Sorted, Mapped(B, D), NEW z \in B \cap Pids, NEW g \in B,
           NEW n \in Pids, n \notin B, sep' = sep, sep = [key |-> sep.key, child |-> n],
           WritePage(n, buf), num_pages' = num_pages, root_id' = root_id,
           pc' \in Raising, Place = z, Place' = g, IsLink(VN, g, z), ~IsLink(VN, z, z),
           buf.type = pages[z].type, \A t \in PlaceRecs : t.key \in Int,
           Own(z) = {t \in PlaceRecs : t.key < sep.key},
           buf.type = "PAGE_LEAF" => ToSet(buf.slots) = {t \in PlaceRecs : sep.key <= t.key},
           buf.type # "PAGE_LEAF" =>
               /\ ToSet(buf.slots) = {t \in PlaceRecs : sep.key < t.key}
               /\ \E t \in PlaceRecs : t.key = sep.key /\ t.child = buf.first_child_id
    PROVE  SplitInto(VN, VN', B, z, g, n, sep.key) /\ VN[z].recs = PlaceRecs
  <1>1. /\ Pids' = Pids /\ \A q \in Pids \ {n} : pages'[q] = pages[q]
        /\ pages'[n] = buf /\ Own(n)' = ToSet(buf.slots)
        /\ \A q \in (Pids \cup {Top}) \ {n} : Own(q)' = Own(q)
    BY WriteOwn
  <1>2. B \subseteq Pids \cup {Top} /\ Top \notin Pids
    BY TopType DEF Mapped
  <1>3. g # z /\ n # g /\ n # z /\ n # Top
    BY <1>2
  <1>4. VN[g].type # "PAGE_LEAF"
    BY DEF IsLink, Links
  <1>5. /\ z \in Pids \cup {Top} /\ g \in Pids \cup {Top} /\ n \in Pids \cup {Top} /\ z # Top
        /\ Pids' \cup {Top} = Pids \cup {Top}
    BY <1>1, <1>2
  <1>6. ASSUME NEW q \in B \ {g, z} PROVE VN'[q] = VN[q]
    <2>1. VRecs(q)' = VRecs(q)
      BY <1>1, <1>2 DEF VRecs
    <2>2. q = Top \/ (q \in Pids /\ pages'[q] = pages[q])
      BY <1>1, <1>2
    <2>3. VNode(q)' = VNode(q)
      BY <1>2, <2>1, <2>2 DEF VNode
    <2> QED
      BY <1>1, <1>2, <2>3 DEF VN
  <1>7. VRecs(z) = PlaceRecs /\ VRecs(g) = Own(g)
    BY <1>3 DEF VRecs
  <1>8. VRecs(z)' = Own(z) /\ VRecs(n)' = ToSet(buf.slots)
    <2>1. VRecs(z)' = Own(z)' /\ VRecs(n)' = Own(n)'
      BY <1>3 DEF VRecs
    <2> QED
      BY <1>1, <1>3, <1>5, <2>1
  <1>9. VRecs(g)' = Own(g) \cup {sep}
    <2>1. Own(Place)' = Own(g)
      <3>1. Own(Place)' = Own(g)'
        OBVIOUS
      <3> QED
        BY <1>1, <1>3, <1>5, <3>1
    <2>2. PlaceRecs' = Own(Place)' \cup {sep'}
      BY DEF PlaceRecs
    <2>3. VRecs(g)' = PlaceRecs'
      BY DEF VRecs
    <2> QED
      BY <2>1, <2>2, <2>3
  <1>10. VN[z].recs = PlaceRecs /\ VN[z].type = pages[z].type
    BY <1>5, <1>7, NodeFields
  <1>11. VN'[z].recs = Own(z) /\ VN'[z].type = VN[z].type /\ VN'[z].first = VN[z].first
    <2>1. pages'[z] = pages[z]
      BY <1>1, <1>3
    <2> QED
      BY <1>5, <1>8, <2>1, NodeFields, NodeFieldsNext
  <1>12. /\ VN[g].recs = Own(g) /\ VN'[g].recs = Own(g) \cup {sep}
         /\ VN'[g].type = VN[g].type /\ VN'[g].first = VN[g].first
    <2>1. g = Top \/ (g \in Pids /\ pages'[g] = pages[g])
      BY <1>1, <1>2, <1>3
    <2> QED
      BY <1>5, <1>7, <1>9, <2>1, NodeFields, NodeFieldsNext
  <1>13. /\ VN'[n].recs = ToSet(buf.slots) /\ VN'[n].type = buf.type
         /\ buf.type # "PAGE_LEAF" => VN'[n].first = buf.first_child_id
    BY <1>1, <1>3, <1>5, <1>8, NodeFieldsNext
  <1>14. OneKeyEach(Own(g)) /\ \A t \in Own(g) : t.key \in Int
    <2>1. CASE g = Top
      BY <2>1 DEF Own, OneKeyEach
    <2>2. CASE g # Top
      <3>1. g \in Pids /\ Own(g) = ToSet(pages[g].slots)
        BY <1>2, <2>2 DEF Own
      <3>2. Keyed(pages[g].slots, Records) /\ Ordered(pages[g].slots)
        BY <3>1, HaveKeys DEF Sorted
      <3> QED
        BY <3>1, <3>2, OrderedKeys, KeyOfSet
    <2> QED
      BY <2>1, <2>2
  <1>15. \A l \in Links(VN[z]) : l.child # z
    BY DEF IsLink
  <1>16. \E l \in Links(VN[g]) : l.child = z
    BY DEF IsLink
  <1> QED
    BY <1>3, <1>4, <1>6, <1>10, <1>11, <1>12, <1>13, <1>14, <1>15, <1>16 DEF SplitInto

\* What is meant of the records of a node that is cut is split between the halves.
LEMMA Halves ==
    ASSUME NEW S, NEW T, NEW key \in Int, \A t \in S : t.key \in Int /\ t.key < key,
           \A t \in T : t.key \in Int
    PROVE  /\ (\A t \in T : key <= t.key) =>
                  /\ S = {t \in S \cup T : t.key < key} /\ T = {t \in S \cup T : key <= t.key}
           /\ \A m : m.key = key /\ (\A t \in T : key < t.key) =>
                  /\ S = {t \in S \cup {m} \cup T : t.key < key}
                  /\ T = {t \in S \cup {m} \cup T : key < t.key}
  <1>1. \A t \in S : t.key < key /\ ~(key <= t.key) /\ ~(key < t.key)
    OBVIOUS
  <1>2. \A t \in T : key <= t.key => ~(t.key < key)
    OBVIOUS
  <1>3. ~(key < key)
    OBVIOUS
  <1>4. \A t \in T : key < t.key => ~(t.key < key)
    OBVIOUS
  <1>5. (\A t \in T : key <= t.key) =>
            /\ S = {t \in S \cup T : t.key < key} /\ T = {t \in S \cup T : key <= t.key}
    BY <1>1, <1>2
  <1>6. \A m : m.key = key /\ (\A t \in T : key < t.key) =>
            /\ S = {t \in S \cup {m} \cup T : t.key < key}
            /\ T = {t \in S \cup {m} \cup T : key < t.key}
    BY <1>1, <1>3, <1>4
  <1> QED
    BY <1>5, <1>6

\* A sequence that is not empty has an element.
LEMMA SomeElement ==
    ASSUME NEW S, NEW s \in Seq(S), Len(s) > 0
    PROVE  \E t : t \in ToSet(s)
  <1>1. Len(s) \in Nat /\ DOMAIN s = 1..Len(s)
    BY LenProperties
  <1>2. 1 \in DOMAIN s
    BY <1>1
  <1> QED
    BY <1>2 DEF ToSet

\* The right half of a leaf is on disk: the tree as it is meant has it.
LEMMA MapSplitWriteRight ==
    ASSUME NEW h, NEW N, NEW A, NEW K, NEW B, NEW D, faults' = 0, TypeOK, Tall(h), Sorted,
           InOrder(N, A, K), FInv, Mapped(B, D), SplitWriteRight
    PROVE  \E C, J : Mapped(C, J)'
  <1>0. PICK z, n, g : /\ z = Last(path) /\ n = new_pid
                       /\ g = IF level = 0 THEN Top ELSE path[level]
    OBVIOUS
  <1>1. /\ pc = "split_right" /\ pc' = "split_next" /\ WritePage(n, buf)
        /\ num_pages' = num_pages /\ root_id' = root_id /\ view' = view /\ call' = call
        /\ path' = path /\ level' = level /\ sep' = sep
    BY <1>0, NothingFails DEF SplitWriteRight, locals
  <1>2. pc \in LeafSplitting
    BY <1>1 DEF LeafSplitting
  <1>3. /\ level = Len(path) - 1 /\ buf \in Nodes(Pids, h, 0) /\ sep \in InternalRec(Pids)
    BY <1>1, <1>2 DEF Tall, SplitsLeaf
  <1>4. /\ Len(path) \in Nat \ {0} /\ z = path[Len(path)] /\ z \in Pids
        /\ pages[z].type = "PAGE_LEAF" /\ pages[z].slots \in Seq(Records)
    BY <1>0, <1>2, InLeafSplit
  <1>5. /\ sep.child = n /\ \A t \in ToSet(pages[z].slots) : t.key < sep.key
        /\ \A t \in ToSet(buf.slots) : sep.key <= t.key
    BY <1>0, <1>1 DEF InOrder, CutsLeaf
  <1>6. n \in Pids /\ sep = [key |-> sep.key, child |-> n] /\ sep.key \in Int
    BY <1>3, <1>5, KeysAssumption DEF InternalRec
  <1>7. n \notin B /\ \E t \in PlaceRecs : t.key = sep.key
    BY <1>0, <1>1 DEF Mapped, Fresh
  <1>8. Live = Len(path) /\ Live' = Len(path)
    BY <1>1 DEF Live, LeafSplitting
  <1>9. z \in B /\ g \in B /\ IsLink(VN, g, z)
    <2>1. Len(path) \in 1..Live
      BY <1>4, <1>8
    <2>2. path[Len(path)] \in B
      BY <2>1 DEF Mapped, Way
    <2>3. IsLink(VN, IF Len(path) = 1 THEN Top ELSE path[Len(path) - 1], path[Len(path)])
      BY <2>1 DEF Mapped, Way
    <2>4. g = IF Len(path) = 1 THEN Top ELSE path[Len(path) - 1]
      BY <1>0, <1>3, <1>4
    <2>5. Len(path) # 1 => Len(path) - 1 \in 1..Live
      BY <1>4, <1>8
    <2>6. g \in B
      BY <2>4, <2>5 DEF Mapped, Way
    <2> QED
      BY <1>4, <2>2, <2>3, <2>4, <2>6
  <1>10. Place = z
    BY <1>0, <1>1 DEF Place, Raising, RootBuilding
  <1>11. Place' = g /\ pc' \in Raising
    BY <1>0, <1>1 DEF Place, Raising, RootBuilding, Above
  <1>12. PlaceRecs = Own(z) \cup ToSet(buf.slots) /\ Own(z) = ToSet(pages[z].slots)
    BY <1>1, <1>4, <1>10, TopType DEF PlaceRecs, Raising, RootBuilding, Own
  <1>13. (\A t \in Own(z) : t.key \in Int) /\ \A t \in ToSet(buf.slots) : t.key \in Int
    BY <1>4, <1>12, HaveKeys, KeyOfSet
  <1>14. buf.type = "PAGE_LEAF"
    BY <1>3, NodeIsPage
  <1>15. /\ Own(z) = {t \in PlaceRecs : t.key < sep.key}
         /\ ToSet(buf.slots) = {t \in PlaceRecs : sep.key <= t.key}
         /\ \A t \in PlaceRecs : t.key \in Int
    BY <1>5, <1>6, <1>12, <1>13, Halves
  <1>16. VN[z].type = "PAGE_LEAF" /\ z # Top
    BY <1>4, TopType, NodeFields
  <1>17. ~IsLink(VN, z, z)
    BY <1>16 DEF IsLink, Links
  <1>18. SplitInto(VN, VN', B, z, g, n, sep.key) /\ VN[z].recs = PlaceRecs
    BY <1>1, <1>4, <1>6, <1>7, <1>9, <1>10, <1>11, <1>14, <1>15, <1>17, CutWritten
  <1>19. \E t \in VN[z].recs : t.key < sep.key
    <2>1. Len(pages[z].slots) > 0
      BY <1>0, <1>1 DEF FInv, Counted
    <2>2. PICK t : t \in Own(z)
      BY <1>4, <1>12, <2>1, SomeElement
    <2> QED
      BY <1>5, <1>12, <1>18, <2>2
  <1>20. \A i \in 1..(Live' - 1) : path[i] # z
    <2>1. ASSUME NEW i \in 1..(Live' - 1) PROVE path[i] # z
      <3>1. pc \notin {"idle", "return"} /\ Len(path) \in 1..Len(path) /\ i \in 1..(Len(path) - 1)
        BY <1>1, <1>4, <1>8
      <3> QED
        BY <1>4, <3>1, PathFalls DEF Tall
    <2> QED
      BY <2>1
  <1>21. Want' = Want
    BY <1>1, WantStays
  <1>22. (\A C, J : Aim(C, J)') /\ \A C : Fresh(C)'
    BY <1>1 DEF Aim, Fresh, RootBuilding
  <1>23. B \cup {n} \subseteq Pids' \cup {Top}
    BY <1>1, <1>6 DEF Mapped, Pids
  <1>24. Live \in Int /\ Live' \in Int /\ Live' <= Live
    BY <1>4, <1>8
  <1> QED
    BY <1>1, <1>7, <1>16, <1>18, <1>19, <1>20, <1>21, <1>22, <1>23, <1>24, SplitMapped

\* The right half of a parent is on disk: the tree as it is meant has it.
LEMMA MapParentWriteRight ==
    ASSUME NEW h, NEW N, NEW A, NEW K, NEW B, NEW D, faults' = 0, TypeOK, Tall(h), Sorted,
           InOrder(N, A, K), FInv, Mapped(B, D), ParentWriteRight
    PROVE  \E C, J : Mapped(C, J)'
  <1>0. PICK z, n, g : /\ z = path[level] /\ n = new_pid
                       /\ g = IF level = 1 THEN Top ELSE path[level - 1]
    OBVIOUS
  <1>1. /\ pc = "parent_right" /\ pc' = "propagate" /\ todo = << >> /\ WritePage(n, buf)
        /\ num_pages' = num_pages /\ root_id' = root_id /\ view' = view /\ call' = call
        /\ path' = path /\ level' = level - 1 /\ sep' = sep
    BY <1>0, NothingFails DEF ParentWriteRight
  <1>2. pc \in ParentSplitting
    BY <1>1 DEF ParentSplitting
  <1>3. /\ level \in 1..(Len(path) - 1) /\ sep \in InternalRec(Pids) /\ sep.child = n
    BY <1>0, <1>1, <1>2 DEF Tall, SplitsParent
  <1>4. /\ level \in Nat \ {0} /\ z \in Pids /\ CutsParent(N, A, K)
        /\ pages[z].type = "PAGE_INTERNAL" /\ buf.type = "PAGE_INTERNAL"
        /\ N[z].type = "PAGE_INTERNAL" /\ N[z].first = pages[z].first_child_id
        /\ \A t \in N[z].recs : t.key \in Int
        /\ \A l \in Links(N[z]) : l.child # z
    BY <1>0, <1>2, InParentSplit
  <1>5. /\ ToSet(pages[z].slots) \subseteq N[z].recs /\ ToSet(buf.slots) \subseteq N[z].recs
        /\ \A t \in ToSet(pages[z].slots) : t.key < sep.key
        /\ \A t \in ToSet(buf.slots) : sep.key < t.key
        /\ \E t \in N[z].recs : t.key = sep.key /\ t.child = buf.first_child_id
    BY <1>0, <1>1, <1>4 DEF CutsParent
  <1>6. n \in Pids /\ sep = [key |-> sep.key, child |-> n] /\ sep.key \in Int
    BY <1>3, KeysAssumption DEF InternalRec
  <1>7. n \notin B
    BY <1>0, <1>1 DEF Mapped, Fresh
  <1>8. Live = level /\ Live' = level
    BY <1>1, <1>4 DEF Live, LeafSplitting, ParentSplitting
  <1>9. z \in B /\ g \in B /\ IsLink(VN, g, z)
    <2>1. level \in 1..Live
      BY <1>4, <1>8
    <2>2. path[level] \in B
      BY <2>1 DEF Mapped, Way
    <2>3. IsLink(VN, IF level = 1 THEN Top ELSE path[level - 1], path[level])
      BY <2>1 DEF Mapped, Way
    <2>4. level # 1 => level - 1 \in 1..Live
      BY <1>4, <1>8
    <2>5. g \in B
      BY <1>0, <2>4 DEF Mapped, Way
    <2> QED
      BY <1>0, <2>2, <2>3, <2>5
  <1>10. Place = z
    BY <1>0, <1>1, <1>2 DEF Place, Raising, RootBuilding, ParentSplitting
  <1>11. Place' = g /\ pc' \in Raising
    <2>1. level - 1 = 0 <=> level = 1
      BY <1>4
    <2> QED
      BY <1>0, <1>1, <2>1 DEF Place, Raising, RootBuilding, Above
  <1>12. Own(z) = ToSet(pages[z].slots)
    BY <1>4, TopType DEF Own
  <1>13. PlaceRecs = Own(z) \cup {Median} \cup ToSet(buf.slots)
    <2>1. ToSet(todo) = {}
      BY <1>1, OrderedEmpty
    <2> QED
      BY <1>1, <1>10, <2>1 DEF PlaceRecs, Raising, RootBuilding
  <1>14. Median.key = sep.key /\ Median.child = buf.first_child_id
    BY DEF Median
  <1>15. /\ \A t \in Own(z) : t.key \in Int /\ t.key < sep.key
         /\ \A t \in ToSet(buf.slots) : t.key \in Int /\ sep.key < t.key
    BY <1>4, <1>5, <1>12
  <1>16. /\ Own(z) = {t \in PlaceRecs : t.key < sep.key}
         /\ ToSet(buf.slots) = {t \in PlaceRecs : sep.key < t.key}
    BY <1>6, <1>13, <1>14, <1>15, Halves
  <1>17. /\ \A t \in PlaceRecs : t.key \in Int
         /\ Median \in PlaceRecs
    BY <1>6, <1>13, <1>14, <1>15
  <1>18. z # Top /\ z \in Pids \cup {Top}
    BY <1>4, TopType
  <1>19. VN[z].recs = PlaceRecs /\ VN[z].first = pages[z].first_child_id
    <2>1. VRecs(z) = PlaceRecs
      BY <1>10 DEF VRecs
    <2> QED
      BY <1>4, <1>18, <2>1, NodeFields
  <1>20. ~IsLink(VN, z, z)
    <2>1. ASSUME NEW l \in Links(VN[z]) PROVE l.child # z
      <3>1. CASE l = [low |-> {}, child |-> VN[z].first]
        <4>1. [low |-> {}, child |-> N[z].first] \in Links(N[z])
          BY <1>4 DEF Links
        <4> QED
          BY <1>4, <1>19, <3>1, <4>1
      <3>2. CASE \E t \in VN[z].recs : l = [low |-> {t.key}, child |-> t.child]
        <4>1. PICK t \in PlaceRecs : l = [low |-> {t.key}, child |-> t.child]
          BY <1>19, <3>2
        <4>2. \A u \in N[z].recs : u.child # z
          <5>1. ASSUME NEW u \in N[z].recs PROVE u.child # z
            <6>1. [low |-> {u.key}, child |-> u.child] \in Links(N[z])
              BY <1>4 DEF Links
            <6> QED
              BY <1>4, <6>1
          <5> QED
            BY <5>1
        <4>3. t.child # z
          BY <1>5, <1>12, <1>13, <1>14, <4>2
        <4> QED
          BY <4>1, <4>3
      <3> QED
        BY <3>1, <3>2 DEF Links
    <2> QED
      BY <2>1 DEF IsLink
  <1>21. buf.type = pages[z].type /\ buf.type # "PAGE_LEAF"
    BY <1>4
  <1>22. \E t \in PlaceRecs : t.key = sep.key /\ t.child = buf.first_child_id
    BY <1>14, <1>17
  <1>23. SplitInto(VN, VN', B, z, g, n, sep.key) /\ VN[z].recs = PlaceRecs
    <2>1. z \in B \cap Pids
      BY <1>4, <1>9
    <2> QED
      BY <1>1, <1>6, <1>7, <1>9, <1>10, <1>11, <1>16, <1>17, <1>20, <1>21, <1>22, <2>1, CutWritten
  <1>24. \E t \in VN[z].recs : t.key < sep.key
    <2>1. Len(pages[z].slots) > 0 /\ pages[z].slots \in Seq(Records)
      BY <1>0, <1>1, <1>4, HaveKeys DEF FInv, Counted, Keyed
    <2>2. PICK t : t \in Own(z)
      BY <1>12, <2>1, SomeElement
    <2> QED
      BY <1>13, <1>15, <1>23, <2>2
  <1>25. \E t \in VN[z].recs : t.key = sep.key
    BY <1>22, <1>23
  <1>26. \A i \in 1..(Live' - 1) : path[i] # z
    <2>1. ASSUME NEW i \in 1..(Live' - 1) PROVE path[i] # z
      <3>1. pc \notin {"idle", "return"} /\ level \in 1..Len(path) /\ i \in 1..(level - 1)
        BY <1>1, <1>3, <1>8
      <3> QED
        BY <1>0, <3>1, PathFalls DEF Tall
    <2> QED
      BY <2>1
  <1>27. Want' = Want
    BY <1>1, WantStays
  <1>28. (\A C, J : Aim(C, J)') /\ \A C : Fresh(C)'
    BY <1>1 DEF Aim, Fresh, RootBuilding
  <1>29. B \cup {n} \subseteq Pids' \cup {Top}
    BY <1>1, <1>6 DEF Mapped, Pids
  <1>30. Live \in Int /\ Live' \in Int /\ Live' <= Live
    BY <1>4, <1>8
  <1> QED
    BY <1>1, <1>18, <1>23, <1>24, <1>25, <1>26, <1>27, <1>28, <1>29, <1>30, SplitMapped

\* The leaves that a tree keeps have their contents.
LEMMA SameContents ==
    ASSUME NEW N, NEW B, NEW D, NEW W, Contents(N, B, D, W), NEW M, NEW C, NEW J,
           \A q \in C : M[q].type = "PAGE_LEAF" => q \in B /\ M[q] = N[q] /\ J[q] = D[q]
    PROVE  Contents(M, C, J, W)
  <1>1. ASSUME NEW p \in C, M[p].type = "PAGE_LEAF", NEW k \in J[p] \cap Keys, NEW v \in Vals
        PROVE  [key |-> k, val |-> v] \in M[p].recs <=> W[k] = v
    <2>1. p \in B /\ N[p].type = "PAGE_LEAF" /\ k \in D[p] \cap Keys /\ M[p].recs = N[p].recs
      BY <1>1
    <2>2. \A i \in D[p] \cap Keys, w \in Vals : [key |-> i, val |-> w] \in N[p].recs <=> W[i] = w
      BY <2>1 DEF Contents
    <2> QED
      BY <2>1, <2>2
  <1> QED
    BY <1>1 DEF Contents

\* The new root is on disk and known: what was above the tree is in it.
LEMMA MapNewRootWrite ==
    ASSUME NEW h, NEW N, NEW A, NEW K, NEW B, NEW D, faults' = 0, TypeOK, Tall(h),
           InOrder(N, A, K), FInv, Mapped(B, D), NewRootWrite
    PROVE  \E C, J : Mapped(C, J)'
  <1>0. PICK n : n = new_pid
    OBVIOUS
  <1>1. /\ pc = "root_write" /\ pc' = "return" /\ WritePage(n, buf)
        /\ num_pages' = num_pages /\ root_id' = n /\ view' = view /\ call' = call
        /\ path' = path
    BY <1>0, NothingFails DEF NewRootWrite, ReturnWith, locals
  <1>2. pc \in RootBuilding
    BY <1>1 DEF RootBuilding
  <1>3. /\ h[n] = h[root_id] + 1 /\ buf \in Nodes(Pids, h, h[n]) /\ root_id \in Pids
    BY <1>0, <1>2 DEF Tall, BuildsRoot, TypeOK
  <1>4. buf.type # "PAGE_LEAF"
    <2>1. h[root_id] \in Nat
      BY <1>3 DEF Tall, Shape
    <2>2. h[n] # 0
      BY <1>3, <2>1
    <2> QED
      BY <1>3, <2>2, NodeIsPage
  <1>5. buf.first_child_id = root_id
    BY <1>2 DEF InOrder, Rises
  <1>6. buf.slots = <<sep>>
    BY <1>1 DEF FInv, Counted
  <1>7. n \notin B
    BY <1>0, <1>2 DEF Mapped, Fresh
  <1>8. ToSet(buf.slots) = {sep}
    BY <1>6 DEF ToSet
  <1>9. n \in Pids
    BY <1>0 DEF TypeOK
  <1>10. /\ Pids' = Pids /\ \A q \in Pids \ {n} : pages'[q] = pages[q]
         /\ pages'[n] = buf /\ Own(n)' = ToSet(buf.slots)
         /\ \A q \in (Pids \cup {Top}) \ {n} : Own(q)' = Own(q)
    BY <1>1, <1>9, WriteOwn
  <1>11. Place = Top /\ Place' = -2
    BY <1>1, <1>2 DEF Place, Raising, RootBuilding, Above, ParentSplitting
  <1>12. PlaceRecs = {sep}
    BY <1>2, <1>11 DEF PlaceRecs, Raising, Own
  <1>13. /\ Top \notin Pids /\ -2 \notin Pids /\ Top # -2 /\ B \subseteq Pids \cup {Top} /\ Top \in B
         /\ n # Top /\ Pids' \cup {Top} = Pids \cup {Top}
    BY <1>9, <1>10, TopType DEF Mapped
  <1>14. \A q \in Pids \cup {Top} : VRecs(q)' = Own(q)'
    BY <1>11, <1>13 DEF VRecs
  <1>15. ASSUME NEW q \in B \ {Top} PROVE VN'[q] = VN[q]
    <2>1. q \in Pids /\ q # n
      BY <1>7, <1>13
    <2>2. VRecs(q)' = VRecs(q)
      BY <1>10, <1>11, <1>14, <2>1 DEF VRecs
    <2>3. VNode(q)' = VNode(q)
      BY <1>10, <1>13, <2>1, <2>2 DEF VNode
    <2> QED
      BY <1>10, <2>1, <2>3 DEF VN
  <1>16. VN[Top].type = "PAGE_INTERNAL" /\ VN[Top].recs = {sep} /\ VN[Top].first = root_id
    BY <1>11, <1>12, AtTop
  <1>17. VN'[Top].type = "PAGE_INTERNAL" /\ VN'[Top].recs = {} /\ VN'[Top].first = n
    BY <1>1, <1>10, <1>13, <1>14, NodeFieldsNext DEF Own
  <1>18. VN'[n].type # "PAGE_LEAF" /\ VN'[n].recs = {sep} /\ VN'[n].first = root_id
    BY <1>4, <1>5, <1>8, <1>9, <1>10, <1>13, <1>14, NodeFieldsNext
  <1>19. Exact(VN, B, D, Top) /\ Contents(VN, B, D, Want)
    BY DEF Mapped
  <1>20. PICK J : /\ Exact(VN', B \cup {n}, J, Top) /\ J[n] = Int
                  /\ \A q \in B : J[q] = D[q]
    <2>1. /\ VN[Top].type # "PAGE_LEAF" /\ VN'[Top].type # "PAGE_LEAF"
          /\ VN'[n].recs = VN[Top].recs /\ VN'[n].first = VN[Top].first
      BY <1>16, <1>17, <1>18
    <2>2. \A q \in B \ {Top} : VN'[q] = VN[q]
      BY <1>15
    <2>3. NewTop(VN, VN', B, Top, n)
      BY <1>7, <1>17, <1>18, <2>1, <2>2 DEF NewTop
    <2>4. \E J : Exact(VN', B \cup {n}, J, Top) /\ NewTopBounds(B, D, J, n)
      BY <1>19, <2>3, NewRootExact
    <2> QED
      BY <2>4 DEF NewTopBounds
  <1>21. Contents(VN', B \cup {n}, J, Want)
    <2>1. ASSUME NEW q \in B \cup {n}, VN'[q].type = "PAGE_LEAF"
          PROVE  q \in B /\ VN'[q] = VN[q] /\ J[q] = D[q]
      BY <1>15, <1>17, <1>18, <1>20, <2>1
    <2> QED
      BY <1>19, <2>1, SameContents
  <1>22. Want' = Want
    BY <1>1, WantStays
  <1>23. Live' = 0
    BY <1>1 DEF Live, LeafSplitting, ParentSplitting
  <1>24. Way(VN, B \cup {n})'
    BY <1>23 DEF Way
  <1>25. Aim(B \cup {n}, J)' /\ Fresh(B \cup {n})'
    BY <1>1 DEF Aim, Fresh, RootBuilding
  <1>26. Mapped(B \cup {n}, J)'
    BY <1>9, <1>10, <1>13, <1>20, <1>21, <1>22, <1>24, <1>25 DEF Mapped
  <1> QED
    BY <1>26

\* A root without a slot gives way to its only child.
LEMMA MapShrinkRoot ==
    ASSUME NEW h, NEW B, NEW D, TypeOK, Tall(h), Mapped(B, D), ShrinkRoot
    PROVE  \E C, J : Mapped(C, J)'
  <1>0. PICK c : c = root_id
    OBVIOUS
  <1>1. /\ pc = "rebalance" /\ level = 1 /\ pc' \in {"shrink_write", "return"}
        /\ pages' = pages /\ num_pages' = num_pages /\ view' = view /\ call' = call
        /\ path' = path
    BY DEF ShrinkRoot, ReturnWith, locals
  <1>2. path[1] = c
    BY <1>0, <1>1 DEF Tall, Walked
  <1>3. Place = -2 /\ Place' = -2 /\ -2 \notin B
    BY <1>1, TopType DEF Place, Raising, RootBuilding, ParentSplitting, Mapped
  <1>4. Want' = Want
    BY <1>1, WantStays
  <1>5. Live' = 0 /\ Live = 1
    BY <1>1 DEF Live, LeafSplitting, ParentSplitting
  <1>6. (\A C, J : Aim(C, J)') /\ \A C : Fresh(C)'
    BY <1>1 DEF Aim, Fresh, RootBuilding
  <1>7. CASE root_id' = root_id
    <2>1. Quiet
      BY <1>1 DEF Quiet
    <2> QED
      BY <1>1, <1>3, <1>4, <1>5, <1>6, <1>7, <2>1, QuietMapped
  <1>8. CASE root_id' # root_id
    <2>1. /\ pages[c].type = "PAGE_INTERNAL" /\ pages[c].slots = << >>
          /\ root_id' = pages[c].first_child_id
      BY <1>2, <1>8 DEF ShrinkRoot
    <2>2. c \in Pids /\ Pids' = Pids /\ Top \notin Pids /\ c # Top
      BY <1>0, <1>1, TopType DEF TypeOK, Pids
    <2>3. \A q \in Pids \cup {Top} : Own(q)' = Own(q)
      BY <1>1 DEF Own
    <2>4. B \subseteq Pids \cup {Top} /\ Top \in B
      BY DEF Mapped
    <2>5. -2 \notin Pids /\ Top # -2
      BY TopType
    <2>6. \A q \in Pids \cup {Top} : VRecs(q)' = Own(q) /\ VRecs(q) = Own(q)
      BY <1>3, <2>3, <2>5 DEF VRecs
    <2>7. ASSUME NEW q \in B \ {Top} PROVE VN'[q] = VN[q]
      <3>1. q \in Pids /\ q # Top
        BY <2>2, <2>4
      <3>2. VNode(q)' = VNode(q)
        BY <1>1, <2>6, <3>1 DEF VNode
      <3> QED
        BY <2>2, <3>1, <3>2 DEF VN
    <2>8. Own(Top) = {} /\ Own(c) = {}
      BY <2>1, <2>2, OrderedEmpty DEF Own
    <2>9. VN[Top].type # "PAGE_LEAF" /\ VN[Top].recs = {} /\ VN[Top].first = c
      BY <1>0, <2>6, <2>8, NodeFields
    <2>10. VN'[Top].type # "PAGE_LEAF" /\ VN'[Top].recs = {} /\ VN'[Top].first = root_id'
      BY <2>6, <2>8, NodeFieldsNext
    <2>11. VN[c].type # "PAGE_LEAF" /\ VN[c].recs = {} /\ VN[c].first = root_id'
      BY <2>1, <2>2, <2>6, <2>8, NodeFields
    <2>12. Exact(VN, B, D, Top) /\ Contents(VN, B, D, Want)
      BY DEF Mapped
    <2>13. PICK J : Exact(VN', B \ {c}, J, Top) /\ \A q \in B \ {c} : J[q] = D[q]
      BY <2>7, <2>9, <2>10, <2>11, <2>12, DropRootExact
    <2>14. Contents(VN', B \ {c}, J, Want)
      <3>1. ASSUME NEW q \in B \ {c}, VN'[q].type = "PAGE_LEAF"
            PROVE  q \in B /\ VN'[q] = VN[q] /\ J[q] = D[q]
        BY <2>7, <2>10, <2>13, <3>1
      <3> QED
        BY <2>12, <3>1, SameContents
    <2>15. Way(VN, B \ {c})'
      BY <1>5 DEF Way
    <2>16. Mapped(B \ {c}, J)'
      BY <1>4, <1>6, <2>2, <2>4, <2>13, <2>14, <2>15 DEF Mapped
    <2> QED
      BY <2>16
  <1> QED
    BY <1>7, <1>8

-----------------------------------------------------------------------------
(***************************************************************************)
(* Merges of leaves.                                                       *)
(***************************************************************************)

\* The leaf that two leaves became maps the keys of both.
LEMMA JoinContents ==
    ASSUME NEW N, NEW A, NEW D, NEW r, Exact(N, A, D, r), NEW W, Contents(N, A, D, W),
           NEW M, NEW p, NEW l, NEW s, JoinInto(N, M, A, p, l, s), s.child \in A, l.child \in A,
           NEW J, JoinBounds(A, D, J, l.child, s.child)
    PROVE  Contents(M, A \ {s.child}, J, W)
  <1> DEFINE c == l.child
             d == s.child
  <1>1. /\ N[c].type = "PAGE_LEAF" /\ N[d].type = "PAGE_LEAF" /\ M[c].recs = N[c].recs \cup N[d].recs
        /\ \A q \in A \ {p, c} : M[q] = N[q]
        /\ M[p].type # "PAGE_LEAF"
        /\ J[c] = D[c] \cup D[d] /\ \A q \in A \ {c, d} : J[q] = D[q]
    BY DEF JoinInto, JoinBounds
  <1>2. \A q \in A : \A t \in N[q].recs : t.key \in D[q]
    BY DEF Exact, Tree, Holds
  <1> HIDE DEF c, d
  <1>3. c \in A /\ d \in A
    BY DEF c, d
  <1>4. ASSUME NEW q \in A, N[q].type = "PAGE_LEAF", NEW k \in D[q] \cap Keys, NEW v \in Vals
        PROVE  [key |-> k, val |-> v] \in N[q].recs <=> W[k] = v
    BY <1>4 DEF Contents
  <1>5. ASSUME NEW q \in A \ {d}, M[q].type = "PAGE_LEAF", NEW k \in J[q] \cap Keys, NEW v \in Vals
        PROVE  [key |-> k, val |-> v] \in M[q].recs <=> W[k] = v
    <2>1. CASE q # c
      <3>1. q # p /\ M[q] = N[q] /\ J[q] = D[q]
        BY <1>1, <1>5, <2>1
      <3> QED
        BY <1>4, <1>5, <3>1
    <2>2. CASE q = c
      <3> DEFINE t == [key |-> k, val |-> v]
      <3>1. t.key = k /\ (t \in M[q].recs <=> t \in N[c].recs \/ t \in N[d].recs)
        BY <1>1, <2>2
      <3>2. k \in D[c] \/ k \in D[d]
        BY <1>1, <1>5, <2>2
      <3>3. t \in N[c].recs => k \in D[c]
        BY <1>2, <1>3, <3>1
      <3>4. t \in N[d].recs => k \in D[d]
        BY <1>2, <1>3, <3>1
      <3>5. k \in D[c] => (t \in N[c].recs <=> W[k] = v)
        BY <1>1, <1>3, <1>4
      <3>6. k \in D[d] => (t \in N[d].recs <=> W[k] = v)
        BY <1>1, <1>3, <1>4
      <3> HIDE DEF t
      <3>7. t \in M[q].recs <=> W[k] = v
        BY <3>1, <3>2, <3>3, <3>4, <3>5, <3>6
      <3> QED
        BY <3>7 DEF t
    <2> QED
      BY <2>1, <2>2
  <1> QED
    BY <1>5 DEF Contents, d

\* What the merged node has been given.
Joined ==
    /\ pc = "merge_next" => ToSet(buf.slots) \cup ToSet(todo)
                                = ToSet(pages[LeftPid].slots) \cup ToSet(pages[RightPid].slots)
    /\ pc = "merge_left" => ToSet(buf.slots)
                                = ToSet(pages[LeftPid].slots) \cup ToSet(pages[RightPid].slots)

\* Two leaves become one.
LEMMA MapMergeWriteLeft ==
    ASSUME NEW h, NEW N, NEW A, NEW K, NEW B, NEW D, faults' = 0, TypeOK, Tall(h), Sorted,
           InOrder(N, A, K), Mapped(B, D), Joined, level = Len(path), MergeWriteLeft
    PROVE  \E C, J : Mapped(C, J)'
  <1>0. PICK P, L, R : P = path[level - 1] /\ L = LeftPid /\ R = RightPid
    OBVIOUS
  <1>1. /\ pc = "merge_left" /\ pc' = "merge_parent" /\ num_pages' = num_pages
        /\ root_id' = root_id /\ path' = path /\ level' = level
        /\ view' = view /\ call' = call /\ WritePage(L, buf)
    BY <1>0 DEF MergeWriteLeft, locals
  <1>2. level > 1 /\ HasSibling /\ buf \in Nodes(Pids, h, h[path[level]])
    BY <1>1 DEF Tall, Merges, Merging
  <1>3. PICK s : s = Parent.slots[LeftIndex]
    OBVIOUS
  <1>4. PICK l : l = LeftLink
    OBVIOUS
  <1>5. /\ Tree(N, A, K, root_id) /\ A \subseteq Pids
        /\ level \in Nat /\ P \in A /\ Parent.type = "PAGE_INTERNAL"
        /\ N[P] = NodeOf(pages[P])
        /\ L \in A /\ R \in A /\ P # L /\ P # R /\ L # R
        /\ l \in Links(N[P]) /\ s \in N[P].recs /\ s.child = R
        /\ \A x \in l.low : x < s.key
        /\ \A t \in N[P].recs : (\A x \in l.low : x < t.key) => t = s \/ s.key < t.key
        /\ OneKeyEach(N[P].recs) /\ \A t \in N[P].recs : t.key \in Int
        /\ ToSet(RemoveAt(Parent.slots, LeftIndex)) = N[P].recs \ {s}
    BY <1>0, <1>1, <1>2, <1>3, <1>4, InMerge
  <1>6. l.child = L
    BY <1>0, <1>4 DEF LeftLink
  <1>7. /\ h[L] = 0 /\ h[R] = 0 /\ h[path[level]] = 0 /\ buf.type = "PAGE_LEAF"
        /\ pages[L].type = "PAGE_LEAF" /\ pages[R].type = "PAGE_LEAF"
    <2>1. h[Last(path)] = 0 /\ Len(path) \in Nat \ {0} /\ Last(path) = path[Len(path)]
      BY <1>1, PathType DEF Tall, Walked
    <2>2. h[path[level]] = 0
      BY <2>1
    <2> QED
      BY <1>0, <1>1, <1>2, <2>2, Siblings, NodeIsPage DEF Merging
  <1>8. /\ Pids' = Pids /\ \A q \in Pids \ {L} : pages'[q] = pages[q]
        /\ pages'[L] = buf /\ Own(L)' = ToSet(buf.slots)
        /\ \A q \in (Pids \cup {Top}) \ {L} : Own(q)' = Own(q)
    BY <1>1, <1>5, WriteOwn
  <1>9. /\ Top \notin Pids /\ -2 \notin Pids /\ Top # -2
    BY TopType
  <1>10. Place = -2 /\ Place' = P
    BY <1>0, <1>1 DEF Place, Raising, RootBuilding, ParentSplitting
  <1>11. /\ B \subseteq Pids \cup {Top} /\ Top \in B
         /\ Exact(VN, B, D, Top) /\ Contents(VN, B, D, Want) /\ Way(VN, B)
    BY DEF Mapped
  <1>12. level - 1 \in 1..level /\ Live = level /\ Live' = level - 1 /\ Live' \in Int /\ Live \in Int
         /\ Live' <= Live
    BY <1>1, <1>2, <1>5 DEF Live, LeafSplitting, ParentSplitting
  <1>13. P \in B /\ P \in Pids /\ L \in Pids /\ R \in Pids /\ P # Top /\ L # Top /\ R # Top
    BY <1>0, <1>5, <1>9, <1>11, <1>12 DEF Way
  <1>14. \A q \in Pids \cup {Top} : VRecs(q) = Own(q)
    BY <1>9, <1>10 DEF VRecs
  <1>15. PlaceRecs' = VN[P].recs \ {s} /\ VN[P].recs = N[P].recs
    <2>1. pages[P] = Parent /\ Parent' = Parent
      BY <1>0, <1>1, <1>5, <1>8, <1>13 DEF Parent
    <2>2. LeftIndex' = LeftIndex
      BY <1>1, <2>1, SameSiblings
    <2>3. PlaceRecs' = ToSet(RemoveAt(Parent'.slots, LeftIndex'))
      BY <1>1 DEF PlaceRecs, Raising, RootBuilding
    <2>4. N[P].recs = ToSet(pages[P].slots)
      BY <1>5 DEF NodeOf
    <2>5. VN[P].recs = Own(P) /\ Own(P) = ToSet(pages[P].slots)
      BY <1>13, <1>14, NodeFields DEF Own
    <2> QED
      BY <1>5, <2>1, <2>2, <2>3, <2>4, <2>5
  <1>16. /\ \A q \in (Pids \cup {Top}) \ {P} : VRecs(q)' = Own(q)'
         /\ VRecs(P)' = PlaceRecs'
    BY <1>10 DEF VRecs
  <1>17. \A q \in B \ {P, L} : VN'[q] = VN[q]
    <2> TAKE q \in B \ {P, L}
    <2>1. q \in Pids \cup {Top} /\ q # P /\ q # L /\ (q \in Pids => pages'[q] = pages[q])
      BY <1>8, <1>11
    <2>2. VRecs(q)' = VRecs(q)
      BY <1>8, <1>14, <1>16, <2>1
    <2>3. VNode(q)' = VNode(q)
      BY <1>1, <2>1, <2>2 DEF VNode
    <2> QED
      BY <1>8, <2>1, <2>3 DEF VN
  <1>18. /\ VN'[P].type = VN[P].type /\ VN'[P].first = VN[P].first
         /\ VN'[P].recs = VN[P].recs \ {s}
    <2>1. pages'[P] = pages[P]
      BY <1>5, <1>8, <1>13
    <2> QED
      BY <1>8, <1>13, <1>15, <1>16, <2>1, NodeFields, NodeFieldsNext
  <1>19. /\ VN'[L].type = "PAGE_LEAF" /\ VN'[L].recs = ToSet(buf.slots)
         /\ VN[L].type = "PAGE_LEAF" /\ VN[R].type = "PAGE_LEAF"
         /\ VN[L].recs = ToSet(pages[L].slots) /\ VN[R].recs = ToSet(pages[R].slots)
    <2>1. VRecs(L)' = ToSet(buf.slots)
      BY <1>5, <1>8, <1>13, <1>16
    <2>2. VRecs(L) = ToSet(pages[L].slots) /\ VRecs(R) = ToSet(pages[R].slots)
      BY <1>13, <1>14 DEF Own
    <2> QED
      BY <1>7, <1>8, <1>13, <2>1, <2>2, NodeFields, NodeFieldsNext
  <1>20. VN'[L].recs = VN[L].recs \cup VN[R].recs
    BY <1>0, <1>1, <1>19 DEF Joined
  <1>21. Links(VN[P]) = Links(N[P]) /\ VN[P].type # "PAGE_LEAF"
    <2>1. pages[P] = Parent /\ P # Place
      BY <1>0, <1>9, <1>10, <1>13 DEF Parent
    <2> QED
      BY <1>5, <1>13, <2>1, OnDisk
  <1>22. JoinInto(VN, VN', B, P, l, s)
    BY <1>5, <1>6, <1>13, <1>15, <1>17, <1>18, <1>19, <1>20, <1>21 DEF JoinInto
  <1>23. L \in B /\ R \in B
    <2> DEFINE o == [low |-> {s.key}, child |-> s.child]
    <2>1. o \in Links(VN[P])
      BY <1>5, <1>15, <1>21 DEF Links
    <2>2. o.child = R
      BY <1>5
    <2> HIDE DEF o
    <2>3. R \in B
      BY <1>11, <1>13, <2>1, <2>2, ExactLink
    <2>4. l.child \in B
      BY <1>5, <1>11, <1>13, <1>21, ExactLink
    <2> QED
      BY <1>6, <2>3, <2>4
  <1>24. PICK J : Exact(VN', B \ {R}, J, Top) /\ JoinBounds(B, D, J, L, R)
    <2>1. \E J : Exact(VN', B \ {s.child}, J, Top) /\ JoinBounds(B, D, J, l.child, s.child)
      BY <1>11, <1>22, MergeExact
    <2> QED
      BY <1>5, <1>6, <2>1
  <1>25. Contents(VN', B \ {R}, J, Want)
    <2>1. JoinBounds(B, D, J, l.child, s.child) /\ s.child \in B /\ l.child \in B
      BY <1>5, <1>6, <1>23, <1>24
    <2>2. Contents(VN', B \ {s.child}, J, Want)
      BY <1>11, <1>22, <2>1, JoinContents
    <2> QED
      BY <1>5, <2>2
  <1>26. Want' = Want
    BY <1>1, WantStays
  <1>27. ASSUME NEW i \in 1..(level - 1) PROVE path[i] # R /\ path[i] # L
    <2>1. h[path[i]] > h[path[level]]
      <3>1. level \in 1..Len(path) /\ i \in 1..(level - 1)
        BY <1>2, <1>5
      <3> QED
        BY <1>1, <3>1, PathFalls DEF Tall
    <2>2. ~(0 > 0)
      OBVIOUS
    <2> QED
      BY <1>7, <2>1, <2>2
  <1>28. ASSUME NEW i \in 1..(level - 2) PROVE path[i] # P /\ i \in 1..(level - 1)
    <2>1. level - 1 \in 1..Len(path) /\ i \in 1..((level - 1) - 1) /\ i \in 1..(level - 1)
      BY <1>2, <1>5
    <2> QED
      BY <1>0, <1>1, <2>1, PathFalls DEF Tall
  <1>29. Way(VN, B \ {R})'
    <2>1. \A i \in 1..Live' : path[i] \in B => path[i] \in B \ {R}
      BY <1>12, <1>27
    <2>2. ASSUME NEW g \in B, g = Top \/ \E i \in 1..(Live' - 1) : g = path[i]
          PROVE  Links(VN[g]) \subseteq Links(VN'[g])
      <3>1. Live' - 1 = level - 2
        BY <1>5, <1>12
      <3>2. g # P /\ g # L
        BY <1>13, <1>27, <1>28, <2>2, <3>1
      <3> QED
        BY <1>17, <3>2
    <2> QED
      BY <1>1, <1>12, <2>1, <2>2, WayStays
  <1>30. Aim(B \ {R}, J)' /\ Fresh(B \ {R})'
    BY <1>1 DEF Aim, Fresh, RootBuilding
  <1>31. Top \in B \ {R} /\ B \ {R} \subseteq Pids' \cup {Top}
    BY <1>8, <1>11, <1>13
  <1>32. Mapped(B \ {R}, J)'
    BY <1>24, <1>25, <1>26, <1>29, <1>30, <1>31 DEF Mapped
  <1> QED
    BY <1>32

-----------------------------------------------------------------------------
(***************************************************************************)
(* Lookups: what is read in the tree is what it maps the keys to.          *)
(***************************************************************************)

\* What a search in a leaf answers is the value of the record with the key.
LEMMA ValueRecs ==
    ASSUME NEW p, p.slots \in Seq(LeafRec), Ordered(p.slots), NEW k \in Keys
    PROVE  /\ \A v \in Vals : [key |-> k, val |-> v] \in ToSet(p.slots) <=> ValueIn(p, k) = v
           /\ ValueIn(p, k) \in Vals \cup {NoVal} /\ (HasKey(p, k) <=> ValueIn(p, k) # NoVal)
  <1> DEFINE s == p.slots
             n == Len(s)
             i == Rank(s, k)
  <1>1. n \in Nat /\ DOMAIN s = 1..n /\ ToSet(s) = {s[j] : j \in 1..n} /\ \A j \in 1..n : s[j] \in LeafRec
    BY LenProperties, ElementOfSeq DEF ToSet
  <1>2. \A j, m \in 1..n : s[j].key = s[m].key => j = m
    <2>1. \A j \in 1..n : s[j].key \in Int
      BY <1>1, KeysAssumption DEF LeafRec
    <2>2. \A j, m \in 1..n : j < m => s[j].key < s[m].key
      BY <1>1 DEF Ordered
    <2> QED
      BY <1>1, <2>1, <2>2
  <1>3. \A t \in LeafRec : t = [key |-> t.key, val |-> t.val] /\ t.val \in Vals /\ t.val # NoVal
    BY NoValAssumption DEF LeafRec
  <1>4. CASE HasKey(p, k)
    <2>1. \E j \in DOMAIN s : s[j].key = k
      BY <1>4 DEF HasKey
    <2>2. i \in 1..n
      BY <2>1, RankOfKey
    <2>3. s[i].key = k
      <3>1. PICK j \in 1..n : s[j].key = k
        BY <1>1, <2>1
      <3>2. Keyed(s, LeafRec) /\ Ordered(s) /\ k \in Int
        BY KeysAssumption DEF Keyed, LeafRec
      <3>3. \A m \in 1..n : s[m].key <= k <=> m <= i
        BY <3>2, OrderedRank
      <3>4. k \in Int /\ s[i].key \in Int
        BY <1>1, <2>2, <3>2 DEF Keyed
      <3> HIDE DEF i, n, s
      <3>5. s[i].key <= k /\ j <= i
        BY <1>1, <2>2, <3>1, <3>3, <3>4
      <3>6. j < i => s[j].key < s[i].key
        BY <1>1, <2>2, <3>1, <3>2 DEF Ordered
      <3>7. ~(j < i)
        BY <3>1, <3>4, <3>5, <3>6
      <3> QED
        BY <1>1, <2>2, <3>1, <3>5, <3>7
    <2>4. ValueIn(p, k) = s[i].val
      BY <1>4 DEF ValueIn
    <2> HIDE DEF i, n, s
    <2>5. ASSUME NEW v \in Vals
          PROVE  [key |-> k, val |-> v] \in ToSet(s) <=> s[i].val = v
      <3>1. ASSUME [key |-> k, val |-> v] \in ToSet(s) PROVE s[i].val = v
        <4>1. PICK j \in 1..n : s[j] = [key |-> k, val |-> v]
          BY <1>1, <3>1
        <4>2. s[j].key = k /\ s[j].val = v
          BY <4>1
        <4> QED
          BY <1>2, <2>2, <2>3, <4>2
      <3>2. ASSUME s[i].val = v PROVE [key |-> k, val |-> v] \in ToSet(s)
        <4>1. s[i] = [key |-> k, val |-> v]
          BY <1>1, <1>3, <2>2, <2>3, <3>2
        <4> QED
          BY <1>1, <2>2, <4>1
      <3> QED
        BY <3>1, <3>2
    <2>6. s[i].val \in Vals /\ s[i].val # NoVal
      BY <1>1, <1>3, <2>2
    <2> QED
      BY <1>4, <2>4, <2>5, <2>6 DEF s
  <1>5. CASE ~HasKey(p, k)
    <2>1. ValueIn(p, k) = NoVal
      BY <1>5 DEF ValueIn
    <2>2. \A j \in 1..n : s[j].key # k
      BY <1>1, <1>5 DEF HasKey
    <2> HIDE DEF i, n, s
    <2>3. ASSUME NEW v \in Vals PROVE [key |-> k, val |-> v] \notin ToSet(s)
      <3>1. [key |-> k, val |-> v].key = k
        OBVIOUS
      <3> QED
        BY <1>1, <2>2, <3>1
    <2> QED
      BY <1>5, <2>1, <2>3, NoValAssumption DEF s
  <1> QED
    BY <1>4, <1>5

\* A leaf on disk has records of keys and values, in order.
LEMMA LeafOnDisk ==
    ASSUME NEW h, TypeOK, Shape(h), Unwritten = {}, Sorted, NEW q \in Pids,
           pages[q].type = "PAGE_LEAF"
    PROVE  pages[q].slots \in Seq(LeafRec) /\ Ordered(pages[q].slots)
  <1>1. pages[q] \in Nodes(Pids, h, h[q]) /\ h[q] = 0
    BY NodeAt
  <1>2. pages[q].slots \in Seq(Recs(Pids, h, 0))
    BY <1>1, NodeIsPage
  <1> QED
    BY <1>2 DEF Recs, Sorted


\* Two answers that are the same value or none.
LEMMA SameValue ==
    ASSUME NEW a \in Vals \cup {NoVal}, NEW b \in Vals \cup {NoVal}, \A v \in Vals : a = v <=> b = v
    PROVE  a = b
  OBVIOUS

\* A tree with exact bounds maps a key to what a lookup of it finds.
LEMMA LookupMapped ==
    ASSUME NEW h, NEW B, NEW D, NEW W, TypeOK, Shape(h), Unwritten = {}, Sorted, Place = -2,
           B \subseteq Pids \cup {Top}, Exact(VN, B, D, Top), Contents(VN, B, D, W), NEW k \in Keys,
           W[k] \in Vals \cup {NoVal}
    PROVE  Lookup(k) = W[k]
  <1>1. k \in Int /\ Top \notin Pids /\ -2 \notin Pids /\ Top # -2
    BY TopType, KeysAssumption
  <1>2. \A q \in Pids : /\ VN[q].type = pages[q].type /\ VN[q].recs = ToSet(pages[q].slots)
                        /\ Links(VN[q]) = Links(NodeOf(pages[q]))
    BY <1>1, OnDisk
  <1> DEFINE R == {q \in B : k \in D[q]}
  <1>3. Top \in R
    BY <1>1 DEF Exact, Tree
  <1>4. root_id \in R
    <2>1. [low |-> {}, child |-> root_id] \in Links(VN[Top]) /\ VN[Top].recs = {}
      BY <1>1, AtTop
    <2> DEFINE l == [low |-> {}, child |-> root_id]
    <2>2. l.child = root_id /\ Within(VN[Top].recs, l.low, k) /\ l \in Links(VN[Top])
      BY <2>1 DEF Within
    <2> HIDE DEF l
    <2>3. Top \in B /\ k \in D[Top]
      BY <1>3
    <2>4. l.child \in B /\ k \in D[l.child]
      BY <2>2, <2>3, ExactLink
    <2> QED
      BY <2>2, <2>4
  <1>5. ASSUME NEW q \in R \cap Pids PROVE NextPage(pages, q, k) \in R
    <2>1. CASE pages[q].type = "PAGE_LEAF"
      BY <2>1 DEF NextPage
    <2>2. CASE pages[q].type # "PAGE_LEAF"
      <3>1. Keyed(pages[q].slots, Records) /\ Ordered(pages[q].slots)
        BY HaveKeys DEF Sorted
      <3>2. PICK l \in Links(NodeOf(pages[q])) :
                /\ l.child = internal_find_child(pages[q], k)
                /\ Within(ToSet(pages[q].slots), l.low, k)
        BY <1>1, <2>2, <3>1, FindLink
      <3>3. l \in Links(VN[q]) /\ Within(VN[q].recs, l.low, k)
        BY <1>2, <3>2
      <3>4. q \in B /\ k \in D[q]
        BY <1>5
      <3>5. l.child \in B /\ k \in D[l.child]
        BY <3>3, <3>4, ExactLink
      <3> QED
        BY <2>2, <3>2, <3>5 DEF NextPage
    <2> QED
      BY <2>1, <2>2
  <1>6. PICK z : z = LeafFor(k)
    OBVIOUS
  <1>7. z \in Pids /\ pages[z].type = "PAGE_LEAF" /\ z \in R
    <2> HIDE DEF R
    <2> QED
      BY <1>4, <1>5, <1>6, WalkEnds
  <1>8. /\ \A v \in Vals : [key |-> k, val |-> v] \in ToSet(pages[z].slots) <=> ValueIn(pages[z], k) = v
        /\ ValueIn(pages[z], k) \in Vals \cup {NoVal}
    <2>1. pages[z].slots \in Seq(LeafRec) /\ Ordered(pages[z].slots)
      BY <1>7, LeafOnDisk
    <2> QED
      BY <2>1, ValueRecs
  <1>9. ASSUME NEW v \in Vals PROVE ValueIn(pages[z], k) = v <=> W[k] = v
    <2>1. z \in B /\ k \in D[z] \cap Keys /\ VN[z].type = "PAGE_LEAF"
      BY <1>2, <1>7
    <2>2. [key |-> k, val |-> v] \in VN[z].recs <=> W[k] = v
      BY <2>1 DEF Contents
    <2>3. VN[z].recs = ToSet(pages[z].slots)
      BY <1>2, <1>7
    <2> QED
      BY <1>8, <2>2, <2>3
  <1>10. ValueIn(pages[z], k) = W[k]
    BY <1>8, <1>9, SameValue
  <1> QED
    BY <1>6, <1>7, <1>10 DEF Lookup

\* The path of a lookup in a search tree on disk is a trail from the place above the root.
LEMMA LookupTrail ==
    ASSUME NEW h, NEW N, NEW A, NEW K, TypeOK, Shape(h), Unwritten = {}, Sorted, Place = -2,
           Tree(N, A, K, root_id), A \subseteq Pids, \A q \in A : N[q] = NodeOf(pages[q]),
           NEW k \in Int
    PROVE  \E S \in SUBSET (A \cup {Top}) :
               /\ Top \in S /\ Trail(VN, S, k)
               /\ \A q \in S \cap Pids : pages[q].type = "PAGE_LEAF" => q = LeafFor(k)
  <1>1. PICK T \in SUBSET Pids :
            /\ root_id \in T /\ \A q \in T : NextPage(pages, q, k) \in T
            /\ \A q \in T : pages[q].type = "PAGE_LEAF" => q = LeafFor(k)
    BY WalkEnds
  <1>2. Top \notin Pids /\ -2 \notin Pids /\ Top # -2 /\ root_id \in A
    BY TopType DEF Tree
  <1> DEFINE S == (T \cap A) \cup {Top}
  <1>3. ASSUME NEW q \in S, NEW l \in Links(VN[q]), Within(VN[q].recs, l.low, k)
        PROVE  l.child \in S
    <2>1. CASE q = Top
      <3>1. VN[Top].recs = {} /\ VN[Top].first = root_id
        BY <1>2, AtTop
      <3>2. l.child = root_id
        BY <1>3, <2>1, <3>1 DEF Links
      <3> QED
        BY <1>1, <1>2, <3>2
    <2>2. CASE q \in T \cap A
      <3>1. q \in Pids /\ q # Place
        BY <1>2, <2>2
      <3>2. /\ VN[q].type = pages[q].type /\ VN[q].recs = ToSet(pages[q].slots)
            /\ Links(VN[q]) = Links(NodeOf(pages[q])) /\ N[q] = NodeOf(pages[q])
        BY <2>2, <3>1, OnDisk
      <3>3. pages[q].type # "PAGE_LEAF"
        BY <1>3, <3>2 DEF Links
      <3>4. Keyed(pages[q].slots, Records) /\ Ordered(pages[q].slots)
        BY <3>1, HaveKeys DEF Sorted
      <3>5. l \in Links(NodeOf(pages[q])) /\ Within(ToSet(pages[q].slots), l.low, k)
        BY <1>3, <3>2
      <3>6. l.child = internal_find_child(pages[q], k)
        BY <3>3, <3>4, <3>5, LinkTaken
      <3>7. l.child \in T
        <4>1. NextPage(pages, q, k) \in T
          BY <1>1, <2>2
        <4> QED
          BY <3>3, <3>6, <4>1 DEF NextPage
      <3>8. l.child \in A
        BY <2>2, <3>2, <3>5 DEF Tree, Routes
      <3> QED
        BY <3>7, <3>8
    <2> QED
      BY <2>1, <2>2
  <1>4. S \in SUBSET (A \cup {Top}) /\ Top \in S
    BY <1>1
  <1>5. Trail(VN, S, k)
    BY <1>3 DEF Trail
  <1>6. \A q \in S \cap Pids : pages[q].type = "PAGE_LEAF" => q = LeafFor(k)
    BY <1>1, <1>2
  <1> HIDE DEF S
  <1> QED
    BY <1>4, <1>5, <1>6

\* What can be read from a search tree on disk is what its part below the root maps.
LEMMA TreeMapped ==
    ASSUME NEW h, NEW N, NEW A, NEW K, NEW W, TypeOK, Shape(h), Unwritten = {}, Sorted, Place = -2,
           Tree(N, A, K, root_id), A \subseteq Pids, \A q \in A : N[q] = NodeOf(pages[q]),
           \A k \in Keys : W[k] = Lookup(k)
    PROVE  \E B, D : /\ Top \in B /\ B \subseteq Pids \cup {Top} /\ root_id \in B
                     /\ Exact(VN, B, D, Top) /\ Contents(VN, B, D, W)
                     /\ \A p \in B \cap Pids : \A k \in D[p] :
                            pages[p].type = "PAGE_LEAF" => p = LeafFor(k)
                     /\ D[root_id] = Int
                     /\ IsLink(VN, Top, root_id)
  <1>1. Top \notin Pids /\ -2 \notin Pids /\ Top # -2 /\ Top \notin A
    BY TopType
  <1>2. \A q \in Pids : /\ VN[q].type = pages[q].type /\ VN[q].recs = ToSet(pages[q].slots)
                        /\ Links(VN[q]) = Links(NodeOf(pages[q]))
    BY <1>1, OnDisk
  <1>3. /\ VN[Top].type # "PAGE_LEAF" /\ VN[Top].recs = {} /\ VN[Top].first = root_id
        /\ [low |-> {}, child |-> root_id] \in Links(VN[Top])
    BY <1>1, AtTop
  <1>4. \A q \in A : VN[q].recs = N[q].recs /\ Links(VN[q]) = Links(N[q])
    <2> TAKE q \in A
    <2>1. q \in Pids /\ N[q] = NodeOf(pages[q])
      OBVIOUS
    <2>2. N[q].recs = ToSet(pages[q].slots)
      BY <2>1 DEF NodeOf
    <2> QED
      BY <1>2, <2>1, <2>2
  <1>5. PICK J : Tree(VN, A \cup {Top}, J, Top)
    <2>1. HangsFrom(N, VN, A, root_id, Top)
      BY <1>1, <1>3, <1>4 DEF HangsFrom
    <2> QED
      BY <2>1, TreeFromAbove
  <1>6. PICK B, D : /\ B \subseteq A \cup {Top} /\ Exact(VN, B, D, Top)
                    /\ \A p \in B : \A k \in D[p] : \A S \in SUBSET (A \cup {Top}) :
                           Top \in S /\ Trail(VN, S, k) => p \in S
    BY <1>5, ExactPart
  <1>7. Top \in B /\ B \subseteq Pids \cup {Top} /\ \A p \in B : D[p] \subseteq Int
    BY <1>6 DEF Exact, Tree
  <1>8. root_id \in B /\ IsLink(VN, Top, root_id) /\ D[root_id] = Int
    <2> DEFINE l == [low |-> {}, child |-> root_id]
    <2>1. l \in Links(VN[Top]) /\ l.child = root_id /\ l.low = {}
      BY <1>3
    <2>2. \A k : Within(VN[Top].recs, l.low, k)
      BY <1>3, <2>1 DEF Within
    <2>3. D[Top] = Int
      BY <1>6 DEF Exact
    <2> HIDE DEF l
    <2>4. l.child \in B /\ \A k : k \in D[l.child] <=> k \in D[Top] /\ Within(VN[Top].recs, l.low, k)
      BY <1>6, <1>7, <2>1, ExactLink
    <2>5. D[root_id] = Int
      BY <2>1, <2>2, <2>3, <2>4
    <2> QED
      BY <2>1, <2>4, <2>5 DEF IsLink
  <1>9. ASSUME NEW p \in B \cap Pids, NEW k \in D[p], pages[p].type = "PAGE_LEAF"
        PROVE  p = LeafFor(k)
    <2>1. k \in Int
      BY <1>7, <1>9
    <2>2. PICK S \in SUBSET (A \cup {Top}) :
              /\ Top \in S /\ Trail(VN, S, k)
              /\ \A q \in S \cap Pids : pages[q].type = "PAGE_LEAF" => q = LeafFor(k)
      BY <2>1, LookupTrail
    <2>3. p \in S
      BY <1>6, <1>9, <2>2
    <2> QED
      BY <1>9, <2>2, <2>3
  <1>10. Contents(VN, B, D, W)
    <2>1. ASSUME NEW p \in B, VN[p].type = "PAGE_LEAF", NEW k \in D[p] \cap Keys, NEW v \in Vals
          PROVE  [key |-> k, val |-> v] \in VN[p].recs <=> W[k] = v
      <3>1. p \in Pids
        BY <1>3, <1>7, <2>1
      <3>2. pages[p].type = "PAGE_LEAF" /\ VN[p].recs = ToSet(pages[p].slots)
        BY <1>2, <2>1, <3>1
      <3>3. p = LeafFor(k)
        BY <1>9, <2>1, <3>1, <3>2
      <3>4. Lookup(k) = ValueIn(pages[p], k)
        BY <3>2, <3>3 DEF Lookup
      <3>5. pages[p].slots \in Seq(LeafRec) /\ Ordered(pages[p].slots)
        BY <3>1, <3>2, LeafOnDisk
      <3>6. [key |-> k, val |-> v] \in ToSet(pages[p].slots) <=> ValueIn(pages[p], k) = v
        BY <2>1, <3>5, ValueRecs
      <3> QED
        BY <2>1, <3>2, <3>4, <3>6
    <2> QED
      BY <2>1 DEF Contents
  <1>11. \A p \in B \cap Pids : \A k \in D[p] : pages[p].type = "PAGE_LEAF" => p = LeafFor(k)
    BY <1>9
  <1> QED
    BY <1>6, <1>7, <1>8, <1>10, <1>11

\* The leaf of the key of the call.
LEMMA CallLeaf == LeafFor(call.key) = LeafFrom(pages, num_pages, root_id, call.key)
  BY LeafForIsLeafFrom

\* And in the next state.
LEMMA CallLeafNext == (LeafFor(call.key) = LeafFrom(pages, num_pages, root_id, call.key))'
  BY CallLeaf, PTL

\* A call is begun: what it finds is the tree below the root.
LEMMA MapInvoke ==
    ASSUME NEW h, NEW N, NEW A, NEW K, TypeOK, Tall(h), Sorted, InOrder(N, A, K),
           pc = "idle" => view = [k \in Keys |-> Lookup(k)],
           NEW c \in Ops, Invoke(c)
    PROVE  \E B, D : Mapped(B, D)'
  <1>1. /\ pc = "idle" /\ pc' = "descend" /\ pages' = pages /\ num_pages' = num_pages
        /\ root_id' = root_id /\ view' = view /\ call' = c /\ path' = <<root_id>>
    BY DEF Invoke, store
  <1>2. Unwritten = {} /\ Shape(h)
    BY <1>1, NoneUnwritten DEF Tall
  <1>3. Place = -2 /\ Place' = -2
    BY <1>1 DEF Place, Raising, RootBuilding, ParentSplitting
  <1>4. Tree(N, A, K, root_id) /\ A \subseteq Pids /\ \A q \in A : N[q] = NodeOf(pages[q])
    <2>1. Changing = {}
      BY <1>1 DEF Changing, ParentSplitting
    <2> QED
      BY <2>1 DEF InOrder, Mirrors
  <1>5. \A k \in Keys : view[k] = Lookup(k)
    BY <1>1
  <1>6. PICK B, D : /\ Top \in B /\ B \subseteq Pids \cup {Top} /\ root_id \in B
                    /\ Exact(VN, B, D, Top) /\ Contents(VN, B, D, view)
                    /\ \A p \in B \cap Pids : \A k \in D[p] :
                           pages[p].type = "PAGE_LEAF" => p = LeafFor(k)
                    /\ D[root_id] = Int
                    /\ IsLink(VN, Top, root_id)
    <2> PICK W : W = view
      OBVIOUS
    <2>1. \A k \in Keys : W[k] = Lookup(k)
      BY <1>5
    <2> QED
      BY <1>2, <1>3, <1>4, <2>1, TreeMapped
  <1>7. Pids' = Pids
    BY <1>1 DEF Pids
  <1>8. ASSUME NEW q \in B PROVE VN'[q] = VN[q]
    <2>1. q \in Pids \cup {Top} /\ q # -2
      BY <1>6, TopType
    <2>2. VRecs(q)' = VRecs(q)
      BY <1>1, <1>3, <2>1 DEF VRecs, Own
    <2>3. VNode(q)' = VNode(q)
      BY <1>1, <2>2 DEF VNode
    <2> QED
      BY <1>7, <2>1, <2>3 DEF VN
  <1>9. Exact(VN', B, D, Top)
    BY <1>6, <1>8, SameExact
  <1>10. Want' = view
    BY <1>1 DEF Want
  <1>11. Contents(VN', B, D, view)
    BY <1>6, <1>8, SameContents
  <1>12. Way(VN, B)'
    <2>1. Live' = 1
      BY <1>1 DEF Live
    <2>2. IsLink(VN', Top, root_id)
      BY <1>6, <1>8 DEF IsLink
    <2> QED
      BY <1>1, <1>6, <2>1, <2>2 DEF Way
  <1>13. Aim(B, D)'
    <2>1. c.key \in Int /\ call'.key = c.key
      BY <1>1, OpsAssumption, KeysAssumption
    <2>2. Last(path') = root_id
      BY <1>1 DEF Last
    <2>3. LeafFor(call.key)' = LeafFor(c.key)
      BY <1>1, <2>1, CallLeafNext, LeafForIsLeafFrom
    <2> QED
      BY <1>1, <1>6, <1>7, <2>1, <2>2, <2>3 DEF Aim
  <1>14. Fresh(B)'
    BY <1>1 DEF Fresh, RootBuilding
  <1>15. Mapped(B, D)'
    BY <1>6, <1>7, <1>9, <1>10, <1>11, <1>12, <1>13, <1>14 DEF Mapped
  <1> QED
    BY <1>15

\* The descent takes the link that the key belongs to.
LEMMA MapDescend ==
    ASSUME NEW h, NEW B, NEW D, TypeOK, Tall(h), Sorted, Mapped(B, D), Descend
    PROVE  Mapped(B, D)'
  <1>0. PICK z, k : z = Last(path) /\ k = call.key
    OBVIOUS
  <1>1. /\ pc = "descend" /\ pages' = pages /\ num_pages' = num_pages
        /\ root_id' = root_id /\ view' = view /\ call' = call
    BY DEF Descend, store
  <1>2. /\ Len(path) \in Nat \ {0} /\ path[Len(path)] = z /\ z \in Pids /\ path \in Seq(Pids)
    BY <1>0, <1>1, PathType DEF Tall, TypeOK
  <1>3. call.op \in {"get", "put", "delete"} /\ k \in Keys /\ k \in Int
    BY <1>0, <1>1, CallType, OpsAssumption, KeysAssumption DEF Tall
  <1>4. pc' \in {"descend", "get", "put", "delete"}
    BY <1>1, <1>3 DEF Descend
  <1>5. Place = -2 /\ Place' = -2 /\ Pids' = Pids /\ Live = Len(path) /\ Live' = Len(path')
    BY <1>1, <1>4 DEF Place, Raising, RootBuilding, ParentSplitting, Live, Pids
  <1>6. /\ Top \in B /\ B \subseteq Pids \cup {Top} /\ Exact(VN, B, D, Top)
        /\ Contents(VN, B, D, Want) /\ Way(VN, B) /\ Aim(B, D)
    BY DEF Mapped
  <1>7. \A q \in B : VN'[q] = VN[q]
    <2> TAKE q \in B
    <2>1. q \in Pids \cup {Top} /\ q # -2
      BY <1>6, TopType
    <2>2. VRecs(q)' = VRecs(q)
      BY <1>1, <1>5, <2>1 DEF VRecs, Own
    <2>3. VNode(q)' = VNode(q)
      BY <1>1, <2>2 DEF VNode
    <2> QED
      BY <1>5, <2>1, <2>3 DEF VN
  <1>8. Exact(VN', B, D, Top)
    BY <1>6, <1>7, SameExact
  <1>9. Want' = Want
    BY <1>1, <1>4, WantStays
  <1>10. Contents(VN', B, D, Want)
    BY <1>6, <1>7, SameContents
  <1>11. z \in B /\ k \in D[z]
    BY <1>0, <1>1, <1>2, <1>5, <1>6 DEF Way, Aim
  <1>12. LeafFor(call.key)' = LeafFor(k)
    BY <1>0, <1>1, CallLeafNext, LeafForIsLeafFrom
  <1>13. \A p \in B \cap Pids : pages[p].type = "PAGE_LEAF" /\ k \in D[p] => p = LeafFor(k)
    BY <1>0, <1>1, <1>6 DEF Aim
  <1>14. Fresh(B)'
    BY <1>4 DEF Fresh, RootBuilding
  <1>15. CASE pages[z].type = "PAGE_LEAF"
    <2>1. path' = path
      BY <1>0, <1>15 DEF Descend
    <2>2. Way(VN, B)'
      <3>1. \A g \in B : Links(VN'[g]) = Links(VN[g])
        BY <1>7
      <3>2. Live' = Live /\ Live \in Int
        BY <1>2, <1>5, <2>1
      <3> QED
        BY <2>1, <3>1, <3>2, WayStays
    <2>3. Aim(B, D)'
      BY <1>0, <1>1, <1>5, <1>11, <1>12, <1>13, <2>1 DEF Aim
    <2> QED
      BY <1>5, <1>6, <1>8, <1>9, <1>10, <1>14, <2>2, <2>3 DEF Mapped
  <1>16. CASE pages[z].type # "PAGE_LEAF"
    <2>1. PICK c : c = internal_find_child(pages[z], k)
      OBVIOUS
    <2>2. path' = Append(path, c) /\ pc' = pc
      BY <1>0, <1>16, <2>1 DEF Descend
    <2>3. Keyed(pages[z].slots, Records) /\ Ordered(pages[z].slots)
      BY <1>2, HaveKeys DEF Sorted
    <2>4. PICK l \in Links(NodeOf(pages[z])) : l.child = c /\ Within(ToSet(pages[z].slots), l.low, k)
      BY <1>3, <1>16, <2>1, <2>3, FindLink
    <2>5. l \in Links(VN[z]) /\ Within(VN[z].recs, l.low, k)
      BY <1>2, <1>5, <2>4, TopType, OnDisk
    <2>6. c \in B /\ k \in D[c] /\ c # Top
      <3>1. l.child \in B \ {Top} /\ k \in D[l.child]
        BY <1>6, <1>11, <2>5, ExactLink
      <3> QED
        BY <2>4, <3>1
    <2>7. c \in Pids
      BY <1>6, <2>6
    <2> DEFINE n == Len(path)
    <2>8. /\ Len(path') = n + 1 /\ path'[n + 1] = c /\ \A i \in 1..n : path'[i] = path[i]
          /\ path' \in Seq(Pids)
      BY <1>2, <2>2, <2>7, AppendProperties
    <2>9. Last(path') = c
      BY <2>8 DEF Last
    <2>10. Way(VN, B)'
      <3>1. ASSUME NEW i \in 1..(n + 1)
            PROVE  path'[i] \in B /\ IsLink(VN', IF i = 1 THEN Top ELSE path'[i - 1], path'[i])
        <4>1. CASE i = n + 1
          <5>1. i # 1 /\ path'[i - 1] = z /\ path'[i] = c
            BY <1>2, <2>8, <4>1
          <5>2. IsLink(VN', z, c)
            BY <1>7, <1>11, <2>4, <2>5 DEF IsLink
          <5> QED
            BY <2>6, <5>1, <5>2
        <4>2. CASE i # n + 1
          <5> DEFINE g == IF i = 1 THEN Top ELSE path[i - 1]
          <5>1. i \in 1..n /\ (i # 1 => i - 1 \in 1..n)
            BY <1>2, <3>1, <4>2
          <5>2. path'[i] = path[i] /\ g = IF i = 1 THEN Top ELSE path'[i - 1]
            BY <2>8, <5>1
          <5>3. path[i] \in B /\ g \in B /\ IsLink(VN, g, path[i])
            BY <1>5, <1>6, <5>1 DEF Way
          <5> HIDE DEF g
          <5>4. IsLink(VN', g, path[i])
            BY <1>7, <5>3 DEF IsLink
          <5> QED
            BY <5>2, <5>3, <5>4
        <4> QED
          BY <4>1, <4>2
      <3>2. Live' = n + 1
        BY <1>5, <2>8
      <3> QED
        BY <3>1, <3>2 DEF Way
    <2>11. Aim(B, D)'
      BY <1>0, <1>1, <1>5, <1>12, <1>13, <2>6, <2>9 DEF Aim
    <2> QED
      BY <1>5, <1>6, <1>8, <1>9, <1>10, <1>14, <2>10, <2>11 DEF Mapped
  <1> QED
    BY <1>15, <1>16

-----------------------------------------------------------------------------
(***************************************************************************)
(* Every step.                                                             *)
(***************************************************************************)

\* Every step of a call keeps the map, or is undefined, or ends it.
LEMMA StepMapped ==
    ASSUME NEW h, NEW N, NEW A, NEW K, NEW B, NEW D, EvenRecords, faults' = 0, TypeOK, Tall(h),
           Sorted, InOrder(N, A, K), FInv, Mapped(B, D), Step, pc' \notin {"idle", "undefined"},
           pc = "merge_left" => Joined /\ level = Len(path)
    PROVE  \E C, J : Mapped(C, J)'
  <1>1. ~Fail
    BY NothingFails
  <1>2. CASE Descend
    BY <1>2, MapDescend
  <1>3. CASE GetLeaf \/ RebalanceEnd \/ ShrinkWrite
    BY <1>3, MapEnds
  <1>4. CASE IOError \/ GarbageRead \/ OutOfMemory \/ CollectFailed \/ RebalanceNull \/ Return
    BY <1>1, <1>4 DEF IOError, GarbageRead, OutOfMemory, CollectFailed, RebalanceNull, Return
  <1>5. CASE PutInPlace \/ PutSplit
    BY <1>5, MapPutInPlace, MapPutSplit
  <1>6. CASE PlaceRecord \/ PlaceChild
    BY <1>6, MapPlace
  <1>7. CASE SplitAlloc \/ SplitWriteLeft
    BY <1>7, MapSplitAlloc, MapSplitWriteLeft
  <1>8. CASE SplitWriteRight
    BY <1>8, MapSplitWriteRight
  <1>9. CASE SplitFixNext \/ SplitFixPrev
    BY <1>9, MapSplitFix
  <1>10. CASE ParentInsert
    BY <1>10, MapParentInsert
  <1>11. CASE ParentSplit
    BY <1>11, MapParentSplit
  <1>12. CASE ParentWriteLeft
    BY <1>12, MapParentWriteLeft
  <1>13. CASE ParentAlloc \/ ParentSetMedian
    BY <1>13, MapParentAlloc, MapParentMedian
  <1>14. CASE ParentWriteRight
    BY <1>14, MapParentWriteRight
  <1>15. CASE NewRootAlloc
    BY <1>15, MapNewRootAlloc
  <1>16. CASE NewRootSetLeft \/ NewRootSetRight
    BY <1>16, MapNewRootSet
  <1>17. CASE NewRootWrite
    BY <1>17, MapNewRootWrite
  <1>18. CASE DeleteMissing \/ DeleteLeaf
    BY <1>18, MapDeleteMissing, MapDeleteLeaf
  <1>19. CASE MergeStart \/ MergeFixNext
    BY <1>19, MapMergeStart, MapMergeFixNext
  <1>20. CASE MergeWriteLeft
    <2>1. pc = "merge_left"
      BY <1>20 DEF MergeWriteLeft
    <2> QED
      BY <1>20, <2>1, MapMergeWriteLeft
  <1>21. CASE MergeWriteParent
    BY <1>21, MapMergeWriteParent
  <1>22. CASE ShrinkRoot
    BY <1>22, MapShrinkRoot
  <1> QED
    BY <1>2, <1>3, <1>4, <1>5, <1>6, <1>7, <1>8, <1>9, <1>10, <1>11, <1>12, <1>13, <1>14,
       <1>15, <1>16, <1>17, <1>18, <1>19, <1>20, <1>21, <1>22
    DEF Step, PutStep, DeleteStep

\* A merge is begun, a record placed in the merged node, and its neighbour told.
LEMMA MergeSteps ==
    ASSUME NEW h, TypeOK, Tall(h), Next, pc' \in {"merge_next", "merge_left"}
    PROVE  MergeStart \/ MergeFixNext \/ (PlaceRecord /\ pc = "merge_next")
  <1>1. CASE \E c \in Ops : Invoke(c)
    BY <1>1 DEF Invoke
  <1>2. CASE Descend
    <2>1. call.op \in {"get", "put", "delete"} /\ pc' \in {"descend", call.op}
      BY <1>2, OpsAssumption DEF Tall, Served, Descend
    <2> QED
      BY <2>1
  <1>3. CASE GetLeaf \/ IOError \/ Return
    BY <1>3 DEF GetLeaf, IOError, Return, ReturnWith
  <1>4. CASE PutStep
    <2>1. CASE PutInPlace \/ PutSplit \/ PlaceRecord \/ SplitAlloc \/ SplitWriteLeft
               \/ SplitWriteRight \/ SplitFixNext \/ SplitFixPrev \/ GarbageRead
      BY <2>1
      DEF PutInPlace, PutSplit, PlaceRecord, Filling, SplitAlloc, SplitWriteLeft,
          SplitWriteRight, SplitFixNext, SplitFixPrev, GarbageRead, ReturnWith
    <2>2. CASE ParentInsert \/ ParentSplit \/ ParentWriteLeft \/ ParentAlloc
               \/ ParentSetMedian \/ PlaceChild \/ ParentWriteRight
      BY <2>2
      DEF ParentInsert, ParentSplit, ParentWriteLeft, ParentAlloc, ParentSetMedian,
          PlaceChild, ParentWriteRight, ReturnWith
    <2>3. CASE NewRootAlloc \/ NewRootSetLeft \/ NewRootSetRight \/ NewRootWrite
               \/ OutOfMemory \/ CollectFailed
      BY <2>3
      DEF NewRootAlloc, NewRootSetLeft, NewRootSetRight, NewRootWrite, OutOfMemory,
          CollectFailed, ReturnWith
    <2> QED
      BY <1>4, <2>1, <2>2, <2>3 DEF PutStep
  <1>5. CASE DeleteStep
    BY <1>5
    DEF DeleteStep, DeleteMissing, DeleteLeaf, RebalanceEnd, RebalanceNull, MergeStart,
        MergeFixNext, MergeWriteLeft, MergeWriteParent, ShrinkRoot, ShrinkWrite, ReturnWith
  <1> QED
    BY <1>1, <1>2, <1>3, <1>4, <1>5 DEF Next, Step

\* The merged node has what its two halves have.
LEMMA StepJoined ==
    ASSUME NEW h, EvenRecords, faults' = 0, TypeOK, Tall(h), FInv, Joined, Next
    PROVE  Joined'
  <1> SUFFICES ASSUME pc' \in {"merge_next", "merge_left"} PROVE Joined'
    BY DEF Joined
  <1>1. CASE MergeStart
    <2>1. /\ pages' = pages /\ path' = path /\ level' = level /\ pc' = "merge_next"
          /\ buf' = pages[LeftPid] /\ todo' = pages[RightPid].slots
      BY <1>1 DEF MergeStart, store
    <2>2. Parent' = Parent
      BY <2>1 DEF Parent
    <2>3. LeftPid' = LeftPid /\ RightPid' = RightPid
      BY <2>1, <2>2, SameSiblings
    <2> QED
      BY <2>1, <2>3 DEF Joined
  <1>2. ASSUME pc = "merge_next", Quiet, path' = path, level' = level
        PROVE  /\ LeftPid \in Pids /\ LeftPid' = LeftPid /\ RightPid' = RightPid
               /\ pages'[LeftPid].slots = pages[LeftPid].slots
               /\ pages'[RightPid].slots = pages[RightPid].slots
    <2>1. level > 1 /\ HasSibling
      BY <1>2 DEF Tall, Merges, Merging
    <2>2. path[level - 1] \in Pids /\ LeftPid \in Pids /\ RightPid \in Pids
      BY <1>2, <2>1, RebalanceType, Siblings DEF Merging
    <2>3. \A q \in Pids : /\ pages'[q].slots = pages[q].slots
                          /\ pages'[q].first_child_id = pages[q].first_child_id
      BY <1>2 DEF Quiet
    <2>4. Parent'.slots = Parent.slots /\ Parent'.first_child_id = Parent.first_child_id
      BY <1>2, <2>2, <2>3 DEF Parent
    <2> QED
      BY <1>2, <2>2, <2>3, <2>4, SameSiblings
  <1>3. CASE PlaceRecord /\ pc = "merge_next"
    <2>1. /\ pages' = pages /\ num_pages' = num_pages /\ path' = path /\ level' = level
          /\ todo # << >> /\ buf' = page_alloc_slot(buf, Head(todo)) /\ todo' = Tail(todo)
          /\ pc \in Filling \cup {"parent_right"}
          /\ pc' = (IF SlotOverlaysRecord(buf, Head(todo)) THEN "undefined" ELSE pc)
      BY <1>3 DEF PlaceRecord, store, Filling
    <2>2. Quiet
      BY <2>1 DEF Quiet
    <2>3. /\ ToSet(buf'.slots) \cup ToSet(todo') = ToSet(buf.slots) \cup ToSet(todo)
          /\ pc' = "merge_next"
      BY <1>3, <2>1, PlacedSet
    <2> QED
      BY <1>2, <1>3, <2>1, <2>2, <2>3 DEF Joined
  <1>4. CASE MergeFixNext
    <2>1. /\ pc = "merge_next" /\ pc' = "merge_left" /\ num_pages' = num_pages
          /\ path' = path /\ level' = level /\ todo = << >>
          /\ \/ pages' = pages
             \/ \E q, x : WritePage(q, [pages[q] EXCEPT !.prev_id = x])
      BY <1>4 DEF MergeFixNext
    <2>2. Quiet
      BY <2>1, QuietWrite
    <2>3. buf'.slots = buf.slots
      BY <1>4 DEF MergeFixNext, TypeOK, Page
    <2>4. ToSet(todo) = {}
      BY <2>1, OrderedEmpty
    <2> QED
      BY <1>2, <2>1, <2>2, <2>3, <2>4 DEF Joined
  <1> QED
    BY <1>1, <1>3, <1>4, MergeSteps

\* The leaf a call has come to answers what the map has.
LEMMA AtKey ==
    ASSUME NEW h, NEW B, NEW D, TypeOK, Tall(h), Sorted, Mapped(B, D), pc \in {"get", "put", "delete"}
    PROVE  /\ ValueIn(pages[Last(path)], call.key) = view[call.key]
           /\ HasKey(pages[Last(path)], call.key) <=> view[call.key] # NoVal
  <1>0. PICK z, k, w : z = Last(path) /\ k = call.key /\ w = view
    OBVIOUS
  <1>1. z \in Pids /\ pages[z].type = "PAGE_LEAF" /\ Unwritten = {}
    BY <1>0, LeafAtEnd
  <1>2. k \in Keys
    BY <1>0, CallType DEF Tall
  <1>3. Place = -2 /\ Live = Len(path)
    BY DEF Place, Raising, RootBuilding, ParentSplitting, Live
  <1>4. VN[z].type = "PAGE_LEAF" /\ VN[z].recs = ToSet(pages[z].slots)
    BY <1>1, <1>3, TopType, OnDisk
  <1>5. Len(path) \in Nat \ {0} /\ z = path[Len(path)]
    BY <1>0, PathType DEF Tall
  <1>6. z \in B /\ k \in D[z]
    BY <1>0, <1>3, <1>5 DEF Mapped, Way, Aim
  <1>7. Contents(VN, B, D, w)
    <2>1. Want = view
      BY DEF Want
    <2> QED
      BY <1>0, <2>1 DEF Mapped
  <1>8. pages[z].slots \in Seq(LeafRec) /\ Ordered(pages[z].slots)
    BY <1>1, LeafOnDisk DEF Tall
  <1>9. /\ \A v \in Vals : [key |-> k, val |-> v] \in ToSet(pages[z].slots) <=> ValueIn(pages[z], k) = v
        /\ ValueIn(pages[z], k) \in Vals \cup {NoVal}
        /\ HasKey(pages[z], k) <=> ValueIn(pages[z], k) # NoVal
    BY <1>2, <1>8, ValueRecs
  <1>10. \A v \in Vals : ValueIn(pages[z], k) = v <=> w[k] = v
    <2> TAKE v \in Vals
    <2>1. [key |-> k, val |-> v] \in VN[z].recs <=> w[k] = v
      BY <1>2, <1>4, <1>6, <1>7 DEF Contents
    <2> QED
      BY <1>4, <1>9, <2>1
  <1>11. w[k] \in Vals \cup {NoVal}
    BY <1>0, <1>2 DEF TypeOK
  <1>12. ValueIn(pages[z], k) = w[k]
    BY <1>9, <1>10, <1>11, SameValue
  <1> QED
    BY <1>0, <1>9, <1>12

\* What is known of the answer while a call is served: of every call, or of those that are
\* no delete.
AnswersRight(all) ==
    /\ pc \in {"rebalance", "shrink_write"} \cup Merging =>
           call.op = "delete" /\ (all => view[call.key] # NoVal)
    /\ pc = "return" => call \in Ops /\ (all => ret = KV!Answer(view, call))

\* The answers of the three operations.
LEMMA AnswerIs ==
    /\ call.op = "put" => KV!Answer(view, call) = OK(NoVal)
    /\ call.op = "delete" =>
           KV!Answer(view, call) = IF view[call.key] = NoVal THEN NOT_FOUND ELSE OK(NoVal)
    /\ call.op = "get" =>
           KV!Answer(view, call) = IF view[call.key] = NoVal THEN NOT_FOUND ELSE OK(view[call.key])
  BY DEF KV!Answer, KV!OK, KV!NOT_FOUND, OK, NOT_FOUND

\* A call that returns answers as the map does.
LEMMA StepAnswers ==
    ASSUME NEW h, NEW all \in BOOLEAN, faults' = 0, TypeOK, Tall(h), Sorted, AnswersRight(all), Next,
           all /\ pc \notin {"idle", "undefined"} => \E B, D : Mapped(B, D)
    PROVE  AnswersRight(all)'
  <1>1. ~Fail
    BY NothingFails
  <1>2. CASE \E c \in Ops : Invoke(c)
    BY <1>2 DEF Invoke, AnswersRight, Merging
  <1>3. CASE Descend
    <2>1. call.op \in {"get", "put", "delete"} /\ pc' \in {"descend", call.op}
      BY <1>3, OpsAssumption DEF Tall, Served, Descend
    <2> QED
      BY <2>1 DEF AnswersRight, Merging
  <1>4. CASE IOError \/ GarbageRead \/ OutOfMemory \/ CollectFailed
    BY <1>1, <1>4 DEF IOError, GarbageRead, OutOfMemory, CollectFailed
  <1>5. CASE Return
    BY <1>5 DEF Return, AnswersRight, Merging
  <1>6. ASSUME pc \notin {"idle", "return"}, pc' = "return", view' = view, call' = call,
               all => ret' = KV!Answer(view, call)
        PROVE  AnswersRight(all)'
    <2>1. call \in Ops
      BY <1>6 DEF Tall, Served
    <2>2. KV!Answer(view, call)' = KV!Answer(view, call)
      BY <1>6 DEF KV!Answer, KV!OK, KV!NOT_FOUND
    <2> QED
      BY <1>6, <2>1, <2>2 DEF AnswersRight, Merging
  <1>7. CASE GetLeaf
    <2>1. /\ pc = "get" /\ pc' = "return" /\ view' = view /\ call' = call
          /\ ret' = IF HasKey(pages[Last(path)], call.key)
                    THEN OK(ValueIn(pages[Last(path)], call.key)) ELSE NOT_FOUND
      BY <1>7 DEF GetLeaf, ReturnWith
    <2>2. call.op = "get"
      BY <2>1 DEF Tall, Served
    <2>3. ASSUME all PROVE ret' = KV!Answer(view, call)
      <3>1. PICK B, D : Mapped(B, D)
        BY <2>1, <2>3
      <3>2. /\ ValueIn(pages[Last(path)], call.key) = view[call.key]
            /\ HasKey(pages[Last(path)], call.key) <=> view[call.key] # NoVal
        BY <2>1, <3>1, AtKey
      <3> QED
        BY <2>1, <2>2, <3>2, AnswerIs
    <2> QED
      BY <1>6, <2>1, <2>3
  <1>8. CASE PutInPlace \/ ParentInsert \/ NewRootWrite
    <2>1. /\ pc \in {"put", "propagate", "root_write"} /\ pc' = "return"
          /\ view' = view /\ call' = call /\ ret' = OK(NoVal)
      BY <1>8 DEF PutInPlace, ParentInsert, NewRootWrite, ReturnWith
    <2>2. call.op = "put"
      BY <2>1 DEF Tall, Served, RootBuilding
    <2> QED
      BY <1>6, <2>1, <2>2, AnswerIs
  <1>9. CASE PlaceRecord
    <2>1. pc \in Filling /\ pc' \in {pc, "undefined"} /\ view' = view /\ call' = call
      BY <1>9 DEF PlaceRecord
    <2> QED
      BY <2>1 DEF AnswersRight, Merging, Filling
  <1>10. CASE PutSplit \/ SplitAlloc \/ SplitWriteLeft \/ SplitWriteRight \/ SplitFixNext
              \/ SplitFixPrev \/ RebalanceNull
    BY <1>10
    DEF PutSplit, SplitAlloc, SplitWriteLeft, SplitWriteRight, SplitFixNext, SplitFixPrev,
        RebalanceNull, AnswersRight, Merging
  <1>11. CASE ParentSplit \/ ParentWriteLeft \/ ParentAlloc \/ ParentSetMedian
              \/ ParentWriteRight \/ NewRootAlloc \/ NewRootSetLeft \/ NewRootSetRight
    BY <1>11
    DEF ParentSplit, ParentWriteLeft, ParentAlloc, ParentSetMedian, ParentWriteRight,
        NewRootAlloc, NewRootSetLeft, NewRootSetRight, AnswersRight, Merging
  <1>12. CASE PlaceChild
    BY <1>12 DEF PlaceChild, AnswersRight, Merging
  <1>13. CASE DeleteMissing
    <2>1. /\ pc = "delete" /\ pc' = "return" /\ view' = view /\ call' = call
          /\ ~HasKey(pages[Last(path)], call.key) /\ ret' = NOT_FOUND
      BY <1>13 DEF DeleteMissing, ReturnWith
    <2>2. call.op = "delete"
      BY <2>1 DEF Tall, Served
    <2>3. all => view[call.key] = NoVal
      BY <2>1, AtKey
    <2> QED
      BY <1>6, <2>1, <2>2, <2>3, AnswerIs
  <1>14. CASE DeleteLeaf
    <2>1. /\ pc = "delete" /\ pc' = "rebalance" /\ view' = view /\ call' = call
          /\ HasKey(pages[Last(path)], call.key)
      BY <1>14 DEF DeleteLeaf
    <2>2. call.op = "delete"
      BY <2>1 DEF Tall, Served
    <2>3. all => view[call.key] # NoVal
      BY <2>1, AtKey
    <2> QED
      BY <2>1, <2>2, <2>3 DEF AnswersRight, Merging
  <1>15. CASE RebalanceEnd \/ ShrinkRoot \/ ShrinkWrite
    <2>1. /\ pc \in {"rebalance", "shrink_write"} /\ pc' \in {"return", "shrink_write"}
          /\ view' = view /\ call' = call
      BY <1>15 DEF RebalanceEnd, ShrinkRoot, ShrinkWrite, ReturnWith
    <2>2. call.op = "delete" /\ (all => view[call.key] # NoVal)
      BY <2>1 DEF AnswersRight
    <2>3. pc' = "return" => ret' = OK(NoVal)
      <3>1. CASE RebalanceEnd
        <4>1. pc = "rebalance" /\ level > 1 /\ level \in Nat
          BY <3>1 DEF RebalanceEnd, TypeOK
        <4>2. level - 1 \in 1..(level - 1) /\ level - 1 + 1 = level
          BY <4>1
        <4>3. IsChild(pages[path[level - 1]], path[level - 1 + 1])
          BY <4>1, <4>2 DEF Tall, Linked
        <4> QED
          BY <3>1, <4>2, <4>3 DEF RebalanceEnd, ReturnWith, Parent
      <3>2. CASE ShrinkRoot \/ ShrinkWrite
        BY <3>2 DEF ShrinkRoot, ShrinkWrite, ReturnWith
      <3> QED
        BY <1>15, <3>1, <3>2
    <2>4. CASE pc' = "return"
      BY <1>6, <2>1, <2>2, <2>3, <2>4, AnswerIs
    <2>5. CASE pc' = "shrink_write"
      BY <2>1, <2>2, <2>5 DEF AnswersRight
    <2> QED
      BY <2>1, <2>4, <2>5
  <1>16. CASE MergeStart \/ MergeFixNext \/ MergeWriteLeft \/ MergeWriteParent
    <2>1. /\ pc \in {"rebalance"} \cup Merging /\ pc' \in {"rebalance"} \cup Merging
          /\ view' = view /\ call' = call
      BY <1>16 DEF MergeStart, MergeFixNext, MergeWriteLeft, MergeWriteParent, Merging
    <2> QED
      BY <2>1 DEF AnswersRight, Merging
  <1> QED
    BY <1>2, <1>3, <1>4, <1>5, <1>7, <1>8, <1>9, <1>10, <1>11, <1>12, <1>13, <1>14, <1>15, <1>16
    DEF Next, Step, PutStep, DeleteStep

\* Only Return ends a call; before, the answer is not given until the last step.
LEMMA StepServes ==
    ASSUME NEW h, TypeOK, Tall(h), Step, ~Return
    PROVE  /\ call' = call /\ view' = view
           /\ pc \notin {"idle", "return"} /\ pc' # "idle" /\ (pc' = "return" \/ ret' = ret)
  <1>1. CASE Descend
    <2>1. call.op \in {"get", "put", "delete"} /\ pc' \in {"descend", call.op}
      BY <1>1, OpsAssumption DEF Tall, Served, Descend
    <2> QED
      BY <1>1, <2>1 DEF Descend
  <1>2. CASE GetLeaf
    BY <1>2 DEF GetLeaf, ReturnWith
  <1>3. CASE IOError
    BY <1>3 DEF IOError, ReturnWith, CheckedIO
  <1>4. CASE PutStep
    <2>1. CASE PutInPlace \/ PutSplit \/ SplitAlloc \/ SplitWriteLeft
               \/ SplitWriteRight \/ SplitFixNext \/ SplitFixPrev \/ GarbageRead
      BY <2>1
      DEF PutInPlace, PutSplit, SplitAlloc, SplitWriteLeft, SplitWriteRight, SplitFixNext,
          SplitFixPrev, GarbageRead, ReturnWith
    <2>2. CASE PlaceRecord
      BY <2>2 DEF PlaceRecord, Filling
    <2>3. CASE ParentInsert \/ ParentSplit \/ ParentWriteLeft \/ ParentAlloc
               \/ ParentSetMedian \/ PlaceChild \/ ParentWriteRight
      BY <2>3
      DEF ParentInsert, ParentSplit, ParentWriteLeft, ParentAlloc, ParentSetMedian,
          PlaceChild, ParentWriteRight, ReturnWith
    <2>4. CASE NewRootAlloc \/ NewRootSetLeft \/ NewRootSetRight \/ NewRootWrite
      BY <2>4
      DEF NewRootAlloc, NewRootSetLeft, NewRootSetRight, NewRootWrite, ReturnWith
    <2>5. CASE OutOfMemory \/ CollectFailed
      <3>1. SplitCases # {} /\ call' = call /\ view' = view
            /\ pc' \in {"return", "undefined"} /\ (pc' = "return" \/ ret' = ret)
        BY <2>5 DEF OutOfMemory, CollectFailed, ReturnWith
      <3> QED
        BY <3>1 DEF SplitCases
    <2> QED
      BY <1>4, <2>1, <2>2, <2>3, <2>4, <2>5 DEF PutStep
  <1>5. CASE DeleteStep
    BY <1>5
    DEF DeleteStep, DeleteMissing, DeleteLeaf, RebalanceEnd, RebalanceNull, MergeStart,
        MergeFixNext, MergeWriteLeft, MergeWriteParent, ShrinkRoot, ShrinkWrite, ReturnWith
  <1> QED
    BY <1>1, <1>2, <1>3, <1>4, <1>5 DEF Step

\* What a lookup reads, as a function of the tree.
ReadFrom(P, n, r, k) ==
    IF P[LeafFrom(P, n, r, k)].type = "PAGE_LEAF" THEN ValueIn(P[LeafFrom(P, n, r, k)], k)
    ELSE NoVal

\* A lookup reads that.
LEMMA LookupIsReadFrom == \A k : Lookup(k) = ReadFrom(pages, num_pages, root_id, k)
  BY LeafForIsLeafFrom DEF Lookup, ReadFrom

\* And in the next state.
LEMMA LookupNext == (\A k : Lookup(k) = ReadFrom(pages, num_pages, root_id, k))'
  BY LookupIsReadFrom, PTL

\* Without a write everything reads as before.
LEMMA ReadsStay ==
    ASSUME UNCHANGED <<pages, num_pages, root_id>>
    PROVE  \A k : Lookup(k)' = Lookup(k)
  <1>1. \A k : Lookup(k)' = ReadFrom(pages', num_pages', root_id', k)
    BY LookupNext
  <1>2. pages' = pages /\ num_pages' = num_pages /\ root_id' = root_id
    OBVIOUS
  <1> QED
    BY <1>1, <1>2, LookupIsReadFrom

\* What can be read when a call returns is what it was to do.
LEMMA ReturnReads ==
    ASSUME NEW h, NEW B, NEW D, TypeOK, Tall(h), Sorted, Mapped(B, D), call \in Ops, Return
    PROVE  view' = Want
  <1>1. pc = "return" /\ view' = [k \in Keys |-> Lookup(k)]
    BY DEF Return
  <1>2. Unwritten = {} /\ Place = -2 /\ Shape(h)
    BY <1>1, NoneUnwritten DEF Place, Raising, RootBuilding, ParentSplitting, Tall
  <1>3. PICK W : W = Want
    OBVIOUS
  <1>4. W \in [Keys -> Vals \cup {NoVal}]
    <2>1. call.op = "put" => call.val \in Vals
      BY OpsAssumption
    <2> QED
      BY <1>1, <1>3, <2>1 DEF Want, TypeOK
  <1>5. B \subseteq Pids \cup {Top} /\ Exact(VN, B, D, Top) /\ Contents(VN, B, D, W)
    BY <1>3 DEF Mapped
  <1>6. ASSUME NEW k \in Keys PROVE Lookup(k) = W[k]
    BY <1>2, <1>4, <1>5, LookupMapped
  <1>7. view' = W
    BY <1>1, <1>4, <1>6
  <1> QED
    BY <1>3, <1>7

\* The invariant of the map: for all calls, or for those that are no delete.
MInv(all) ==
    /\ AnswersRight(all) /\ Joined
    /\ pc = "idle" => view = [k \in Keys |-> Lookup(k)]
    /\ pc = "idle" => call = NoCall
    /\ pc \notin {"idle", "return"} => ret = NoRet
    /\ pc \notin {"idle", "undefined"} /\ (all \/ call.op # "delete") =>
           \E B, D : Mapped(B, D)

\* No internal nodes are merged: only the leaves of the tree ever become fewer.
LeafMergesOnly == pc \in Merging => level = Len(path)

\* Every step keeps the map.
LEMMA StepMInv ==
    ASSUME NEW h, NEW N, NEW A, NEW K, NEW all \in BOOLEAN, EvenRecords, faults' = 0,
           TypeOK, Tall(h), Sorted, InOrder(N, A, K), FInv, MInv(all), all => LeafMergesOnly, Next
    PROVE  MInv(all)'
  <1>1. pc # "undefined"
    BY UndefinedStops
  <1>2. AnswersRight(all)' /\ Joined'
    BY <1>1, StepAnswers, StepJoined DEF MInv
  <1>3. CASE \E c \in Ops : Invoke(c)
    <2>1. PICK c \in Ops : Invoke(c)
      BY <1>3
    <2>2. pc' = "descend" /\ ret' = NoRet
      BY <2>1 DEF Invoke
    <2>3. \E B, D : Mapped(B, D)'
      BY <2>1, MapInvoke DEF MInv
    <2> QED
      BY <1>2, <2>2, <2>3 DEF MInv
  <1>4. CASE Return
    <2>1. /\ pc' = "idle" /\ call' = NoCall /\ view' = [k \in Keys |-> Lookup(k)]
          /\ UNCHANGED <<pages, num_pages, root_id>>
      BY <1>4 DEF Return, store
    <2>2. view' = [k \in Keys |-> Lookup(k)']
      BY <2>1, ReadsStay
    <2> QED
      BY <1>2, <2>1, <2>2 DEF MInv
  <1>5. CASE Step /\ ~Return
    <2>1. /\ call' = call /\ pc \notin {"idle", "return"} /\ pc' # "idle"
          /\ pc' = "return" \/ ret' = ret
      BY <1>5, StepServes
    <2>2. ASSUME pc' # "undefined", all \/ call.op # "delete"
          PROVE  \E B, D : Mapped(B, D)'
      <3>1. PICK B, D : Mapped(B, D)
        BY <1>1, <2>1, <2>2 DEF MInv
      <3>2. pc = "merge_left" => Joined /\ level = Len(path)
        BY <2>2 DEF MInv, AnswersRight, LeafMergesOnly, Merging
      <3>3. pc' \notin {"idle", "undefined"} /\ Step
        BY <1>5, <2>1, <2>2
      <3> QED
        BY <3>1, <3>2, <3>3, StepMapped
    <2>3. pc' \notin {"idle", "return"} => ret' = NoRet
      BY <2>1 DEF MInv
    <2> QED
      BY <1>2, <2>1, <2>2, <2>3 DEF MInv
  <1> QED
    BY <1>3, <1>4, <1>5 DEF Next

-----------------------------------------------------------------------------
(***************************************************************************)
(* The theorems.                                                           *)
(***************************************************************************)

\* The map does not change while nothing does.
LEMMA SameVarsMapped ==
    ASSUME NEW B, NEW D, TypeOK, Mapped(B, D), UNCHANGED vars
    PROVE  Mapped(B, D)'
  <1>1. /\ pages' = pages /\ num_pages' = num_pages /\ root_id' = root_id /\ pc' = pc
        /\ call' = call /\ view' = view /\ path' = path /\ level' = level /\ buf' = buf
        /\ todo' = todo /\ left' = left /\ ra' = ra /\ new_pid' = new_pid /\ sep' = sep
    BY DEF vars, store, locals
  <1>2. Quiet
    BY <1>1 DEF Quiet
  <1>3. Pids' = Pids /\ Parent' = Parent
    BY <1>1 DEF Pids, Parent
  <1>4. LeftIndex' = LeftIndex
    BY <1>1, <1>3, SameSiblings
  <1>5. Place' = Place
    BY <1>1 DEF Place, Raising, RootBuilding, ParentSplitting, Above, Last
  <1>6. \A q : Own(q)' = Own(q)
    BY <1>1 DEF Own
  <1>7. Own(Place)' = Own(Place) /\ Median' = Median
    BY <1>1, <1>5 DEF Own, Median
  <1>8. PlaceRecs' = PlaceRecs
    BY <1>1, <1>3, <1>4, <1>7 DEF PlaceRecs, Raising, RootBuilding
  <1>9. Want' = Want
    BY <1>1 DEF Want
  <1>10. Live' = Live /\ Live \in Int
    BY <1>1 DEF Live, LeafSplitting, ParentSplitting, TypeOK
  <1>11. \A k : LeafFor(k)' = LeafFrom(pages', num_pages', root_id', k)
    <2>1. (\A k : LeafFor(k) = LeafFrom(pages, num_pages, root_id, k))'
      BY LeafForIsLeafFrom, PTL
    <2> QED
      BY <2>1
  <1>12. LeafFor(call.key)' = LeafFor(call.key)
    BY <1>1, CallLeaf, CallLeafNext
  <1>13. Aim(B, D)'
    BY <1>1, <1>3, <1>12 DEF Mapped, Aim, Last
  <1>14. Fresh(B)'
    BY <1>1, <1>8 DEF Mapped, Fresh, RootBuilding
  <1> QED
    BY <1>1, <1>2, <1>5, <1>8, <1>9, <1>10, <1>13, <1>14, QuietMapped

\* Nor does the invariant of the map.
LEMMA SameVarsMInv ==
    ASSUME NEW all \in BOOLEAN, TypeOK, MInv(all), UNCHANGED vars
    PROVE  MInv(all)'
  <1>1. /\ pages' = pages /\ num_pages' = num_pages /\ root_id' = root_id /\ pc' = pc
        /\ call' = call /\ ret' = ret /\ view' = view /\ path' = path /\ level' = level
        /\ buf' = buf /\ todo' = todo
    BY DEF vars, store, locals
  <1>2. AnswersRight(all)'
    <2>1. KV!Answer(view, call)' = KV!Answer(view, call)
      BY <1>1 DEF KV!Answer, KV!OK, KV!NOT_FOUND
    <2> QED
      BY <1>1, <2>1 DEF MInv, AnswersRight, Merging
  <1>3. Joined'
    <2>1. Parent' = Parent
      BY <1>1 DEF Parent
    <2>2. LeftPid' = LeftPid /\ RightPid' = RightPid
      BY <1>1, <2>1, SameSiblings
    <2> QED
      BY <1>1, <2>2 DEF MInv, Joined
  <1>4. (pc = "idle" => view = [k \in Keys |-> Lookup(k)])'
    <2>1. \A k : Lookup(k)' = Lookup(k)
      BY <1>1, ReadsStay
    <2> QED
      BY <1>1, <2>1 DEF MInv
  <1>5. ASSUME pc' \notin {"idle", "undefined"}, all \/ call'.op # "delete"
        PROVE  \E B, D : Mapped(B, D)'
    <2>1. PICK B, D : Mapped(B, D)
      BY <1>1, <1>5 DEF MInv
    <2>2. Mapped(B, D)'
      BY <2>1, SameVarsMapped
    <2> QED
      BY <2>2
  <1> QED
    BY <1>1, <1>2, <1>3, <1>4, <1>5 DEF MInv

\* A new tree maps no key to a value.
LEMMA InitMInv ==
    ASSUME NEW all \in BOOLEAN, Init
    PROVE  MInv(all)
  <1>1. /\ pages[0] = page_init("PAGE_LEAF") /\ view = [k \in Keys |-> NoVal]
        /\ Pids = {0} /\ StoreOK /\ pc = "idle" /\ call = NoCall
    BY InitIInv DEF Init, Pids, IInv, TypeOK, StoreOK
  <1>2. ASSUME NEW k \in Keys PROVE Lookup(k) = NoVal
    <2>1. LeafFor(k) = 0
      BY <1>1, LeafForType
    <2>2. ~HasKey(page_init("PAGE_LEAF"), k)
      <3>1. page_init("PAGE_LEAF").slots = << >>
        BY DEF page_init
      <3>2. DOMAIN << >> = {}
        BY EmptySeq
      <3> QED
        BY <3>1, <3>2 DEF HasKey
    <2> QED
      BY <1>1, <2>1, <2>2 DEF Lookup, ValueIn
  <1>3. view = [k \in Keys |-> Lookup(k)]
    BY <1>1, <1>2
  <1>4. AnswersRight(all) /\ Joined
    BY <1>1 DEF AnswersRight, Joined, Merging
  <1> QED
    BY <1>1, <1>3, <1>4 DEF MInv

\* All that is known of a tree in which nothing has failed.
WholeInv(all) == IInv /\ OInv /\ FInv /\ MInv(all)

\* It holds of a new tree.
LEMMA InitWholeInv ==
    ASSUME NEW all \in BOOLEAN, EvenRecords, Init
    PROVE  WholeInv(all)
  BY InitIInv, InitOrder, InitFInv, InitMInv DEF WholeInv

\* Every step keeps it.
LEMMA NextWholeInv ==
    ASSUME NEW all \in BOOLEAN, RecordsFit, EvenRecords, faults' = 0, WholeInv(all),
           all => LeafMergesOnly, [Next]_vars
    PROVE  WholeInv(all)'
  <1>1. IInv' /\ OInv'
    <2>1. NoPutFailed'
      BY DEF NoPutFailed
    <2> QED
      BY <2>1, NextIInv, NextOInv DEF WholeInv
  <1>2. TypeOK /\ IInv /\ OInv /\ FInv /\ MInv(all)
    BY DEF WholeInv, IInv
  <1>3. FInv' /\ MInv(all)'
    <2>1. CASE UNCHANGED vars
      BY <1>2, <2>1, SameVarsFInv, SameVarsMInv
    <2>2. CASE Next
      <3>1. pc # "undefined"
        BY <1>2, <2>2, UndefinedStops
      <3>2. PICK h : Tall(h)
        BY <1>2, <3>1 DEF IInv
      <3>3. Sorted
        BY <1>2 DEF OInv
      <3>4. PICK N, A, K : InOrder(N, A, K)
        BY <1>2, <3>1 DEF OInv
      <3> QED
        BY <1>2, <2>2, <3>2, <3>3, <3>4, NextFInv, StepMInv
    <2> QED
      BY <2>1, <2>2
  <1> QED
    BY <1>1, <1>3 DEF WholeInv

\* What a caller can read when a put has returned is what it was to do.
LEMMA PutReads ==
    ASSUME WholeInv(FALSE), Return, call.op = "put"
    PROVE  view' = [view EXCEPT ![call.key] = call.val]
  <1>1. pc = "return" /\ TypeOK /\ Sorted /\ call \in Ops
    BY DEF WholeInv, IInv, OInv, MInv, AnswersRight, Return
  <1>2. PICK h : Tall(h)
    BY <1>1 DEF WholeInv, IInv
  <1>3. PICK B, D : Mapped(B, D)
    BY <1>1 DEF WholeInv, MInv
  <1>4. view' = Want
    BY <1>1, <1>2, <1>3, ReturnReads
  <1> QED
    BY <1>1, <1>4 DEF Want

\* A put that returned BTREE_OK is found, and every other key keeps its value
\* (SplitKeepsRecords): through any number of splits of leaves and of internal nodes and
\* new roots, and whatever deletes came before, as long as no callback and no malloc has
\* failed.
THEOREM PutsReachTheMap ==
    ASSUME RecordsFit, EvenRecords
    PROVE  Spec => SplitKeepsRecords
  <1> DEFINE Inv == faults \in Nat /\ (faults = 0 => WholeInv(FALSE))
  <1>1. Init => Inv
    BY InitWholeInv DEF Init
  <1>2. Inv /\ [Next]_vars => Inv'
    <2> SUFFICES ASSUME Inv, [Next]_vars PROVE Inv'
      OBVIOUS
    <2>1. faults' \in {faults, faults + 1}
      BY FailuresAddUp
    <2>2. faults' \in Nat /\ (faults' = 0 => faults = 0)
      BY <2>1
    <2>3. ASSUME faults' = 0 PROVE WholeInv(FALSE)'
      BY <2>2, <2>3, NextWholeInv
    <2> QED
      BY <2>2, <2>3
  <1>3. Inv /\ [Next]_vars
        => [Return /\ call.op = "put" /\ ret = OK(NoVal) /\ faults = 0
            => view' = [view EXCEPT ![call.key] = call.val]]_vars
    BY PutReads
  <1> QED
    BY <1>1, <1>2, <1>3, PTL DEF Spec, SplitKeepsRecords

\* A step of the tree is a step of the map, or is none.
LEMMA StepIsMapStep ==
    ASSUME WholeInv(TRUE), [Next]_vars
    PROVE  [KV!Next]_(KV!vars)
  <1>1. CASE UNCHANGED vars
    BY <1>1 DEF vars, KV!vars
  <1>2. CASE \E c \in Ops : Invoke(c)
    <2>1. PICK c \in Ops : Invoke(c)
      BY <1>2
    <2>2. /\ pc = "idle" /\ pc' = "descend" /\ call = NoCall /\ call' = c /\ ret' = NoRet
          /\ view' = view
      BY <2>1 DEF Invoke, WholeInv, MInv
    <2>3. KV!Invoke(c)
      BY <2>2 DEF KV!Invoke, KV!NoCall, KV!NoRet, NoCall, NoRet
    <2> QED
      BY <2>1, <2>3 DEF KV!Next
  <1>3. CASE Return
    <2>1. /\ pc = "return" /\ pc' = "idle" /\ call' = NoCall /\ ret' = ret
          /\ call \in Ops /\ ret = KV!Answer(view, call) /\ TypeOK /\ Sorted
      BY <1>3 DEF Return, WholeInv, MInv, AnswersRight, IInv, OInv
    <2>2. PICK h : Tall(h)
      BY <2>1 DEF WholeInv, IInv
    <2>3. PICK B, D : Mapped(B, D)
      BY <2>1 DEF WholeInv, MInv
    <2>4. view' = Want
      BY <1>3, <2>1, <2>2, <2>3, ReturnReads
    <2>5. call.op \in {"put", "get", "delete"}
      BY <2>1, OpsAssumption
    <2>6. Want = KV!Apply(view, call)
      BY <2>1, <2>5 DEF Want, KV!Apply
    <2>7. call # NoCall
      BY <2>5 DEF NoCall
    <2>8. KV!Respond
      BY <2>1, <2>4, <2>6, <2>7 DEF KV!Respond, KV!NoCall, NoCall
    <2> QED
      BY <2>8 DEF KV!Next
  <1>4. CASE Step /\ ~Return
    <2>1. TypeOK /\ pc # "undefined"
      BY <1>4, UndefinedStops DEF WholeInv, IInv, Next
    <2>2. PICK h : Tall(h)
      BY <2>1 DEF WholeInv, IInv
    <2>3. /\ call' = call /\ view' = view /\ pc \notin {"idle", "return"}
          /\ pc' = "return" \/ ret' = ret
      BY <1>4, <2>1, <2>2, StepServes
    <2>4. ret = NoRet
      BY <2>3 DEF WholeInv, MInv
    <2>5. UNCHANGED KV!vars
      BY <2>3, <2>4 DEF KV!vars, KV!NoRet, NoRet
    <2> QED
      BY <2>5
  <1> QED
    BY <1>1, <1>2, <1>3, <1>4 DEF Next

\* As long as no callback and no malloc fails and no internal nodes are merged, btree_put,
\* btree_get and btree_delete implement the map (ImplementsMap): every call answers what
\* the map has, and takes effect when it returns.  Merges of internal nodes are left out
\* because they lose keys.
THEOREM TreeIsTheMap ==
    ASSUME RecordsFit, EvenRecords
    PROVE  Spec /\ [](faults = 0 /\ LeafMergesOnly) => ImplementsMap
  <1>1. Init => WholeInv(TRUE) /\ KV!Init
    <2>1. Init => KV!Init
      BY DEF Init, KV!Init, KV!NoCall, KV!NoRet, NoCall, NoRet
    <2> QED
      BY <2>1, InitWholeInv
  <1>2. WholeInv(TRUE) /\ [Next]_vars /\ LeafMergesOnly /\ (faults = 0)' => WholeInv(TRUE)'
    BY NextWholeInv
  <1>3. WholeInv(TRUE) /\ [Next]_vars => [KV!Next]_(KV!vars)
    BY StepIsMapStep
  <1> QED
    BY <1>1, <1>2, <1>3, PTL DEF Spec, ImplementsMap, KV!Spec

\* A client that only puts and gets has an ordered map (ImplementsMap), however tall the tree
\* grows, as long as nothing fails.
THEOREM PutsAndGetsImplementMap ==
    ASSUME RecordsFit, EvenRecords, \A c \in Ops : c.op # "delete"
    PROVE  Spec /\ [](faults = 0) => ImplementsMap
  <1>1. WholeInv(TRUE) => LeafMergesOnly
    <2> SUFFICES ASSUME WholeInv(TRUE), pc \in Merging PROVE FALSE
      BY DEF LeafMergesOnly
    <2>1. call.op = "delete" /\ pc \notin {"idle", "undefined"}
      BY DEF WholeInv, MInv, AnswersRight, Merging
    <2>2. PICK h : Tall(h)
      BY <2>1 DEF WholeInv, IInv
    <2>3. call \in Ops
      BY <2>1, <2>2 DEF Tall, Served, Merging
    <2> QED
      BY <2>1, <2>3
  <1>2. Init => WholeInv(TRUE)
    BY InitWholeInv
  <1>3. WholeInv(TRUE) /\ [Next]_vars /\ (faults = 0)' => WholeInv(TRUE)'
    BY <1>1, NextWholeInv
  <1>4. Spec /\ [](faults = 0) => [](faults = 0 /\ LeafMergesOnly)
    BY <1>1, <1>2, <1>3, PTL DEF Spec
  <1> QED
    BY <1>4, TreeIsTheMap, PTL

-----------------------------------------------------------------------------
(***************************************************************************)
(* A delete that fails.                                                    *)
(***************************************************************************)
\* The walk of a lookup, bundled for the next state.
WalkWith(P, n, r, k, w) ==
    /\ w \in [0..n -> 0..(n - 1)] /\ LeafFrom(P, n, r, k) = w[n] /\ w[0] = r
    /\ \A d \in 1..n : w[d] = NextPage(P, w[d - 1], k)

\* Every lookup has such a walk.
LEMMA LookupWalk ==
    ASSUME StoreOK
    PROVE  \A k : \E w : WalkWith(pages, num_pages, root_id, k, w)
  <1>1. root_id \in Pids /\ Pids = 0..(num_pages - 1)
    BY DEF StoreOK, Pids
  <1> QED
    BY <1>1, WalkType DEF WalkWith

\* And in the next state.
LEMMA LookupWalkNext ==
    (StoreOK => \A k : \E w : WalkWith(pages, num_pages, root_id, k, w))'
  <1>1. StoreOK => \A k : \E w : WalkWith(pages, num_pages, root_id, k, w)
    BY LookupWalk
  <1> QED
    BY <1>1, PTL

\* The leaf a lookup ends at, in the next state.
LEMMA LeafForNext == (\A k : LeafFor(k) = LeafFrom(pages, num_pages, root_id, k))'
  BY LeafForIsLeafFrom, PTL

\* A lookup that goes on from each page as before ends at the same page.
LEMMA SameWalk ==
    ASSUME StoreOK, StoreOK', num_pages' = num_pages, root_id' = root_id, NEW k,
           \A q \in Pids : NextPage(pages', q, k) = NextPage(pages, q, k)
    PROVE  LeafFor(k)' = LeafFor(k)
  <1>1. PICK w : WalkWith(pages, num_pages, root_id, k, w)
    BY LookupWalk
  <1>2. PICK v : WalkWith(pages', num_pages, root_id, k, v)
    <2>1. \A j : \E u : WalkWith(pages', num_pages', root_id', j, u)
      BY LookupWalkNext
    <2>2. \E u : WalkWith(pages', num_pages', root_id', k, u)
      BY <2>1
    <2> QED
      BY <2>2
  <1> DEFINE n == num_pages
             S == {d \in 0..n : w[d] = v[d]}
  <1>3. n \in Nat /\ Pids = 0..(n - 1)
    BY DEF StoreOK, Pids
  <1>4. 0 \in S
    BY <1>1, <1>2, <1>3 DEF WalkWith
  <1>5. \A d \in 1..n : d - 1 \in S => d \in S
    <2> TAKE d \in 1..n
    <2> HAVE d - 1 \in S
    <2>1. d \in 0..n /\ d - 1 \in 0..n /\ w[d - 1] = v[d - 1]
      BY <1>3
    <2>2. w[d - 1] \in Pids
      BY <1>1, <1>3, <2>1 DEF WalkWith
    <2>3. w[d] = NextPage(pages, w[d - 1], k) /\ v[d] = NextPage(pages', v[d - 1], k)
      BY <1>1, <1>2 DEF WalkWith
    <2> QED
      BY <2>1, <2>2, <2>3
  <1> HIDE DEF S, n
  <1>6. 0..n \subseteq S
    BY <1>3, <1>4, <1>5, CountUp
  <1>7. w[n] = v[n]
    BY <1>3, <1>6 DEF S
  <1>8. LeafFor(k) = w[n]
    BY <1>1, LeafForIsLeafFrom DEF WalkWith, n
  <1>9. LeafFor(k)' = v[n]
    <2>1. LeafFor(k)' = LeafFrom(pages', num_pages', root_id', k)
      BY LeafForNext
    <2> QED
      BY <1>2, <2>1 DEF WalkWith, n
  <1> QED
    BY <1>7, <1>8, <1>9

\* The left leaf has the records of both before the parent has lost the right one: every
\* key is still found where it was, with the same value.
LEMMA MergedReads ==
    ASSUME NEW h, NEW N, NEW A, NEW K, NEW B, NEW D, TypeOK, TypeOK', Tall(h), Sorted, Sorted',
           InOrder(N, A, K), Mapped(B, D), Joined, level = Len(path), MergeWriteLeft
    PROVE  \A k \in Keys : Lookup(k) = Want[k] /\ Lookup(k)' = Want[k]
  <1>0. PICK P, L, R, W : P = path[level - 1] /\ L = LeftPid /\ R = RightPid /\ W = Want
    OBVIOUS
  <1>1. /\ pc = "merge_left" /\ num_pages' = num_pages /\ root_id' = root_id
        /\ WritePage(L, buf) /\ call \in Ops
    BY <1>0 DEF MergeWriteLeft, Tall, Served
  <1>2. level > 1 /\ HasSibling /\ buf \in Nodes(Pids, h, h[path[level]])
    BY <1>1 DEF Tall, Merges, Merging
  <1>3. PICK s : s = Parent.slots[LeftIndex]
    OBVIOUS
  <1>4. /\ Tree(N, A, K, root_id) /\ A \subseteq Pids /\ Live = level /\ level \in Nat
        /\ P \in A /\ Parent.type = "PAGE_INTERNAL" /\ N[P] = NodeOf(pages[P])
        /\ L \in A /\ R \in A /\ s \in N[P].recs /\ s.child = R
    BY <1>0, <1>1, <1>2, <1>3, InMerge
  <1>5. /\ buf.type = "PAGE_LEAF" /\ pages[L].type = "PAGE_LEAF" /\ pages[R].type = "PAGE_LEAF"
    <2>1. h[Last(path)] = 0 /\ Len(path) \in Nat \ {0} /\ Last(path) = path[Len(path)]
      BY <1>1, PathType DEF Tall, Walked
    <2>2. h[path[level]] = 0
      BY <2>1
    <2> QED
      BY <1>0, <1>1, <1>2, <2>2, Siblings, NodeIsPage DEF Merging
  <1>6. /\ Pids' = Pids /\ \A q \in Pids \ {L} : pages'[q] = pages[q]
        /\ pages'[L] = buf
    BY <1>1, <1>4, WriteOwn
  <1>7. Place = -2 /\ Top \notin Pids /\ -2 \notin Pids /\ Unwritten = {} /\ Shape(h)
    BY <1>1, TopType, NoneUnwritten DEF Place, Raising, RootBuilding, ParentSplitting, Tall
  <1>8. B \subseteq Pids \cup {Top} /\ Exact(VN, B, D, Top) /\ Contents(VN, B, D, W)
    BY <1>0 DEF Mapped
  <1>9. W \in [Keys -> Vals \cup {NoVal}]
    <2>1. call.op = "put" => call.val \in Vals
      BY <1>1, OpsAssumption
    <2> QED
      BY <1>0, <1>1, <2>1 DEF Want, TypeOK
  <1>10. R \in B
    <2>1. P \in B
      <3>1. level - 1 \in 1..Live
        BY <1>2, <1>4
      <3> QED
        BY <1>0, <3>1 DEF Mapped, Way
    <2>2. Links(VN[P]) = Links(N[P]) /\ VN[P].recs = N[P].recs
      BY <1>4, <1>7, OnDisk DEF NodeOf
    <2> DEFINE o == [low |-> {s.key}, child |-> s.child]
    <2>3. o \in Links(VN[P]) /\ o.child = R
      <3>1. N[P].type # "PAGE_LEAF"
        BY <1>0, <1>4 DEF NodeOf, Parent
      <3>2. o \in Links(N[P])
        BY <1>4, <3>1 DEF Links
      <3> QED
        BY <1>4, <2>2, <3>2
    <2> HIDE DEF o
    <2> QED
      BY <1>8, <2>1, <2>3, ExactLink
  <1>11. \A q \in {L, R} : VN[q].recs = ToSet(pages[q].slots) /\ VN[q].type = pages[q].type
    BY <1>4, <1>7, OnDisk
  <1>12. /\ pages[L].slots \in Seq(LeafRec) /\ Ordered(pages[L].slots)
         /\ pages[R].slots \in Seq(LeafRec)
    BY <1>4, <1>5, <1>7, LeafOnDisk
  <1>13. /\ buf.slots \in Seq(LeafRec) /\ Ordered(buf.slots)
         /\ ToSet(buf.slots) = ToSet(pages[L].slots) \cup ToSet(pages[R].slots)
    <2>1. buf.slots \in Seq(LeafRec)
      <3>1. h[path[level]] = 0
        BY <1>1, PathType DEF Tall, Walked
      <3> QED
        BY <1>2, <3>1, NodeIsPage DEF Recs
    <2>2. Ordered(buf.slots)
      BY <1>4, <1>6 DEF Sorted
    <2> QED
      BY <1>0, <1>1, <2>1, <2>2 DEF Joined
  <1>14. ASSUME NEW k \in Keys PROVE Lookup(k) = W[k] /\ Lookup(k)' = W[k]
    <2>1. Lookup(k) = W[k]
      BY <1>7, <1>8, <1>9, LookupMapped
    <2>2. StoreOK /\ StoreOK'
      BY DEF StoreOK, TypeOK
    <2>3. PICK z : z = LeafFor(k)
      OBVIOUS
    <2>4. \A q \in Pids : NextPage(pages', q, k) = NextPage(pages, q, k)
      BY <1>5, <1>6 DEF NextPage
    <2>5. LeafFor(k)' = z /\ z \in Pids
      BY <1>1, <2>2, <2>3, <2>4, SameWalk, LeafForType
    <2>6. Lookup(k)' = IF pages'[z].type = "PAGE_LEAF" THEN ValueIn(pages'[z], k) ELSE NoVal
      BY <2>5 DEF Lookup, ValueIn, HasKey
    <2>7. Lookup(k) = IF pages[z].type = "PAGE_LEAF" THEN ValueIn(pages[z], k) ELSE NoVal
      BY <2>3 DEF Lookup
    <2>8. CASE z # L
      BY <1>6, <2>1, <2>5, <2>6, <2>7, <2>8
    <2>9. CASE z = L
      <3>1. Lookup(k)' = ValueIn(buf, k) /\ ValueIn(pages[L], k) = W[k]
        BY <1>5, <1>6, <2>1, <2>6, <2>7, <2>9
      <3>2. /\ ValueIn(buf, k) \in Vals \cup {NoVal} /\ W[k] \in Vals \cup {NoVal}
            /\ \A v \in Vals : [key |-> k, val |-> v] \in ToSet(buf.slots) <=> ValueIn(buf, k) = v
        BY <1>9, <1>13, ValueRecs
      <3>3. \A v \in Vals : [key |-> k, val |-> v] \in ToSet(pages[L].slots) <=> W[k] = v
        BY <1>12, <3>1, ValueRecs
      <3>4. ASSUME NEW v \in Vals, [key |-> k, val |-> v] \in ToSet(pages[R].slots)
            PROVE  W[k] = v
        <4>1. [key |-> k, val |-> v] \in VN[R].recs /\ [key |-> k, val |-> v].key = k
          BY <1>11, <3>4
        <4>2. Tree(VN, B, D, Top)
          BY <1>8 DEF Exact
        <4>3. [key |-> k, val |-> v].key \in D[R]
          BY <1>10, <4>1, <4>2 DEF Tree, Holds
        <4>4. k \in D[R] \cap Keys
          BY <4>1, <4>3
        <4> QED
          BY <1>5, <1>8, <1>10, <1>11, <4>1, <4>4 DEF Contents
      <3>5. \A v \in Vals : ValueIn(buf, k) = v <=> W[k] = v
        BY <1>13, <3>2, <3>3, <3>4
      <3>6. ValueIn(buf, k) = W[k]
        BY <3>2, <3>5, SameValue
      <3> QED
        BY <2>1, <3>1, <3>6
    <2> QED
      BY <2>8, <2>9
  <1> QED
    BY <1>0, <1>14

\* A delete on a tree of at most two levels keeps the map, with the record still on both
\* pages of a merge before the parent is written.
DeleteInv ==
    call.op = "delete" /\ Len(path) <= 2 /\ pc \notin {"idle", "undefined"} =>
        /\ \E B, D : Mapped(B, D)
        /\ pc = "merge_parent" => \A k \in Keys : Lookup(k) = Want[k]

\* Only the descent makes the path longer, and the parent is written when the left node
\* has been.
LEMMA StepPaths ==
    ASSUME NEW h, TypeOK, Tall(h), Step, ~Return
    PROVE  (path' = path \/ Descend) /\ (pc' = "merge_parent" => MergeWriteLeft)
  <1>1. CASE Descend
    <2>1. call.op \in {"get", "put", "delete"} /\ pc' \in {"descend", call.op}
      BY <1>1, OpsAssumption DEF Tall, Served, Descend
    <2> QED
      BY <1>1, <2>1
  <1>2. CASE GetLeaf \/ IOError
    BY <1>2 DEF GetLeaf, IOError, ReturnWith, locals
  <1>3. CASE PutStep
    <2>1. CASE PutInPlace \/ PutSplit \/ SplitAlloc \/ SplitWriteLeft
               \/ SplitWriteRight \/ SplitFixNext \/ SplitFixPrev \/ GarbageRead
      BY <2>1
      DEF PutInPlace, PutSplit, SplitAlloc, SplitWriteLeft, SplitWriteRight, SplitFixNext,
          SplitFixPrev, GarbageRead, ReturnWith, locals
    <2>2. CASE PlaceRecord
      BY <2>2 DEF PlaceRecord, Filling
    <2>3. CASE ParentInsert \/ ParentSplit \/ ParentWriteLeft \/ ParentAlloc
               \/ ParentSetMedian \/ PlaceChild \/ ParentWriteRight
      BY <2>3
      DEF ParentInsert, ParentSplit, ParentWriteLeft, ParentAlloc, ParentSetMedian,
          PlaceChild, ParentWriteRight, ReturnWith, locals
    <2>4. CASE NewRootAlloc \/ NewRootSetLeft \/ NewRootSetRight \/ NewRootWrite
      BY <2>4
      DEF NewRootAlloc, NewRootSetLeft, NewRootSetRight, NewRootWrite, ReturnWith, locals
    <2>5. CASE OutOfMemory \/ CollectFailed
      BY <2>5 DEF OutOfMemory, CollectFailed, ReturnWith, locals
    <2> QED
      BY <1>3, <2>1, <2>2, <2>3, <2>4, <2>5 DEF PutStep
  <1>4. CASE DeleteStep
    BY <1>4
    DEF DeleteStep, DeleteMissing, DeleteLeaf, RebalanceEnd, RebalanceNull, MergeStart,
        MergeFixNext, MergeWriteLeft, MergeWriteParent, ShrinkRoot, ShrinkWrite, ReturnWith,
        locals
  <1> QED
    BY <1>1, <1>2, <1>3, <1>4 DEF Step

\* Every step keeps what is known of a delete.
LEMMA StepDeleteInv ==
    ASSUME NEW h, NEW N, NEW A, NEW K, EvenRecords, faults' = 0, TypeOK, TypeOK', Tall(h),
           Sorted, Sorted', InOrder(N, A, K), FInv, MInv(FALSE), DeleteInv, Next
    PROVE  DeleteInv'
  <1>1. pc # "undefined"
    BY UndefinedStops
  <1>2. CASE \E c \in Ops : Invoke(c)
    <2>1. PICK c \in Ops : Invoke(c)
      BY <1>2
    <2>2. pc' = "descend"
      BY <2>1 DEF Invoke
    <2>3. \E B, D : Mapped(B, D)'
      BY <2>1, MapInvoke DEF MInv
    <2> QED
      BY <2>2, <2>3 DEF DeleteInv
  <1>3. CASE Return
    BY <1>3 DEF Return, DeleteInv
  <1>4. CASE Step /\ ~Return
    <2> SUFFICES ASSUME call'.op = "delete", Len(path') <= 2, pc' \notin {"idle", "undefined"}
                 PROVE  /\ \E B, D : Mapped(B, D)'
                        /\ pc' = "merge_parent" => \A k \in Keys : Lookup(k)' = Want'[k]
      BY DEF DeleteInv
    <2>1. call' = call /\ view' = view /\ pc \notin {"idle", "return"}
      BY <1>4, StepServes
    <2>2. (path' = path \/ Descend) /\ (pc' = "merge_parent" => MergeWriteLeft)
      BY <1>4, StepPaths
    <2>3. Len(path) <= 2
      <3>1. CASE Descend
        <4>1. \/ path' = path
              \/ \E c : path' = Append(path, c)
          BY <3>1 DEF Descend
        <4>2. path' \in Seq(Pids') /\ path \in Seq(Pids)
          BY DEF TypeOK
        <4>3. Len(path) \in Nat /\ Len(path') \in Nat
          BY <4>2, LenProperties
        <4>4. \A c : Len(Append(path, c)) = Len(path) + 1
          BY <4>2
        <4> QED
          BY <4>1, <4>3, <4>4
      <3> QED
        BY <2>2, <3>1
    <2>4. PICK B, D : Mapped(B, D)
      BY <1>1, <2>1, <2>3 DEF DeleteInv
    <2>5. pc = "merge_left" => Joined /\ level = Len(path)
      <3>1. ASSUME pc = "merge_left" PROVE level = Len(path)
        <4>1. level > 1 /\ level \in 1..Len(path) /\ Len(path) \in Nat
          BY <3>1, RebalanceType DEF Tall, Merges, Merging
        <4> QED
          BY <2>3, <4>1
      <3> QED
        BY <3>1 DEF MInv
    <2>6. \E B_1, D_1 : Mapped(B_1, D_1)'
      <3>1. pc' \notin {"idle", "undefined"} /\ Step
        BY <1>4
      <3> QED
        BY <2>4, <2>5, <3>1, StepMapped
    <2>7. ASSUME pc' = "merge_parent" PROVE \A k \in Keys : Lookup(k)' = Want'[k]
      <3>1. MergeWriteLeft /\ pc = "merge_left"
        BY <2>2, <2>7 DEF MergeWriteLeft
      <3>2. Want' = Want
        BY <2>1, <2>7, <3>1, WantStays
      <3>3. \A k \in Keys : Lookup(k) = Want[k] /\ Lookup(k)' = Want[k]
        BY <2>4, <2>5, <3>1, MergedReads
      <3> QED
        BY <3>2, <3>3
    <2> QED
      BY <2>6, <2>7
  <1> QED
    BY <1>2, <1>3, <1>4 DEF Next

\* A callback that fails in a delete finds every other key as it was.
LEMMA FailedReads ==
    ASSUME NEW h, TypeOK, Tall(h), Sorted, DeleteInv, IOError, call.op = "delete", Len(path) <= 2
    PROVE  \A k \in Keys \ {call.key} : Lookup(k) = view[k]
  <1>1. /\ pc \in {"descend", "delete", "rebalance", "merge_next", "merge_left", "merge_parent",
                   "shrink_write"}
        /\ call \in Ops
    BY DEF IOError, CheckedIO, Tall, Served, LeafSplitting, ParentSplitting, RootBuilding
  <1>2. PICK B, D : Mapped(B, D)
    BY <1>1 DEF DeleteInv
  <1>3. PICK W : W = Want
    OBVIOUS
  <1>4. /\ W \in [Keys -> Vals \cup {NoVal}] /\ \A k \in Keys \ {call.key} : W[k] = view[k]
    BY <1>1, <1>3 DEF Want, TypeOK
  <1>5. \A k \in Keys : Lookup(k) = W[k]
    <2>1. CASE pc = "merge_parent"
      BY <1>3, <2>1 DEF DeleteInv
    <2>2. CASE pc # "merge_parent"
      <3>1. Unwritten = {} /\ Place = -2 /\ Shape(h)
        BY <1>1, <2>2, NoneUnwritten DEF Place, Raising, RootBuilding, ParentSplitting, Tall
      <3>2. B \subseteq Pids \cup {Top} /\ Exact(VN, B, D, Top) /\ Contents(VN, B, D, W)
        BY <1>2, <1>3 DEF Mapped
      <3> QED
        BY <1>4, <3>1, <3>2, LookupMapped
    <2> QED
      BY <2>1, <2>2
  <1> QED
    BY <1>4, <1>5

\* In a delete a failure always ends the call: all its writes are checked.
LEMMA OnlyIOFails ==
    ASSUME NEW h, TypeOK, Tall(h), Step, call.op = "delete", faults' # faults
    PROVE  IOError
  <1>1. CASE Descend \/ GetLeaf \/ Return
    BY <1>1 DEF Descend, GetLeaf, Return
  <1>2. CASE PutStep
    <2>1. /\ pc \notin {"put", "propagate"} /\ pc \notin LeafSplitting
          /\ pc \notin ParentSplitting /\ pc \notin RootBuilding
      BY DEF Tall, Served
    <2>2. CASE PutInPlace \/ PutSplit \/ SplitAlloc \/ SplitWriteLeft
               \/ SplitWriteRight \/ SplitFixNext \/ SplitFixPrev \/ GarbageRead
      BY <2>1, <2>2
      DEF PutInPlace, PutSplit, SplitAlloc, SplitWriteLeft, SplitWriteRight, SplitFixNext,
          SplitFixPrev, GarbageRead, LeafSplitting
    <2>3. CASE PlaceRecord
      BY <2>3 DEF PlaceRecord
    <2>4. CASE ParentInsert \/ ParentSplit \/ ParentWriteLeft \/ ParentAlloc
               \/ ParentSetMedian \/ PlaceChild \/ ParentWriteRight
      BY <2>1, <2>4
      DEF ParentInsert, ParentSplit, ParentWriteLeft, ParentAlloc, ParentSetMedian,
          PlaceChild, ParentWriteRight, ParentSplitting
    <2>5. CASE NewRootAlloc \/ NewRootSetLeft \/ NewRootSetRight \/ NewRootWrite
      BY <2>1, <2>5
      DEF NewRootAlloc, NewRootSetLeft, NewRootSetRight, NewRootWrite, RootBuilding
    <2>6. CASE OutOfMemory \/ CollectFailed
      <3>1. SplitCases # {}
        BY <2>6 DEF OutOfMemory, CollectFailed
      <3> QED
        BY <2>1, <3>1 DEF SplitCases
    <2> QED
      BY <1>2, <2>2, <2>3, <2>4, <2>5, <2>6 DEF PutStep
  <1>3. CASE DeleteStep
    BY <1>3
    DEF DeleteStep, DeleteMissing, DeleteLeaf, RebalanceEnd, RebalanceNull, MergeStart,
        MergeFixNext, MergeWriteLeft, MergeWriteParent, ShrinkRoot, ShrinkWrite
  <1> QED
    BY <1>1, <1>2, <1>3 DEF Step

\* A call is served until it returns, whatever fails.
LEMMA StepKeepsCall ==
    ASSUME Step
    PROVE  call' \in {call, NoCall} /\ (pc = "return" => Return)
  <1>1. CASE Descend \/ GetLeaf \/ IOError \/ Return
    BY <1>1 DEF Descend, GetLeaf, IOError, CheckedIO, Return
  <1>2. CASE PutStep
    <2>1. CASE PutInPlace \/ PutSplit \/ PlaceRecord \/ SplitAlloc \/ SplitWriteLeft
               \/ SplitWriteRight \/ SplitFixNext \/ SplitFixPrev \/ GarbageRead
      BY <2>1
      DEF PutInPlace, PutSplit, PlaceRecord, Filling, SplitAlloc, SplitWriteLeft,
          SplitWriteRight, SplitFixNext, SplitFixPrev, GarbageRead
    <2>2. CASE ParentInsert \/ ParentSplit \/ ParentWriteLeft \/ ParentAlloc
               \/ ParentSetMedian \/ PlaceChild \/ ParentWriteRight
      BY <2>2
      DEF ParentInsert, ParentSplit, ParentWriteLeft, ParentAlloc, ParentSetMedian,
          PlaceChild, ParentWriteRight
    <2>3. CASE NewRootAlloc \/ NewRootSetLeft \/ NewRootSetRight \/ NewRootWrite
               \/ OutOfMemory \/ CollectFailed
      BY <2>3
      DEF NewRootAlloc, NewRootSetLeft, NewRootSetRight, NewRootWrite, OutOfMemory,
          CollectFailed, SplitCases
    <2> QED
      BY <1>2, <2>1, <2>2, <2>3 DEF PutStep
  <1>3. CASE DeleteStep
    BY <1>3
    DEF DeleteStep, DeleteMissing, DeleteLeaf, RebalanceEnd, RebalanceNull, MergeStart,
        MergeFixNext, MergeWriteLeft, MergeWriteParent, ShrinkRoot, ShrinkWrite
  <1> QED
    BY <1>1, <1>2, <1>3 DEF Step

\* What a failing delete leaves behind, until it returns.
OthersKept ==
    pc = "return"
    /\ (Len(path) <= 2 => \A k \in Keys \ {call.key} : Lookup(k) = view[k])

\* Before the first failure all is known of the tree; after it, that a delete only
\* returns, with every other key as it was.
IsolationInv ==
    /\ faults \in Nat
    /\ faults = 0 => WholeInv(FALSE) /\ DeleteInv
    /\ faults > 0 /\ call.op = "delete" => OthersKept

\* Every step keeps what is known before the first failure.
LEMMA NextUnfailed ==
    ASSUME RecordsFit, EvenRecords, faults' = 0, WholeInv(FALSE), DeleteInv, [Next]_vars
    PROVE  WholeInv(FALSE)' /\ DeleteInv'
  <1>1. WholeInv(FALSE)'
    BY NextWholeInv
  <1>2. TypeOK /\ TypeOK' /\ Sorted /\ Sorted' /\ FInv /\ MInv(FALSE)
    BY <1>1 DEF WholeInv, IInv, OInv
  <1>3. CASE UNCHANGED vars
    <2>1. DeleteInv'
      <3> SUFFICES ASSUME call'.op = "delete", Len(path') <= 2, pc' \notin {"idle", "undefined"}
                   PROVE  /\ \E B, D : Mapped(B, D)'
                          /\ pc' = "merge_parent" => \A k \in Keys : Lookup(k)' = Want'[k]
        BY DEF DeleteInv
      <3>1. /\ pc' = pc /\ call' = call /\ path' = path /\ view' = view
            /\ UNCHANGED <<pages, num_pages, root_id>>
        BY <1>3 DEF vars, store, locals
      <3>2. PICK B, D : Mapped(B, D)
        BY <3>1 DEF DeleteInv
      <3>3. Mapped(B, D)'
        BY <1>2, <1>3, <3>2, SameVarsMapped
      <3>4. Want' = Want
        BY <3>1 DEF Want
      <3>5. \A k : Lookup(k)' = Lookup(k)
        BY <3>1, ReadsStay
      <3>6. pc' = "merge_parent" => \A k \in Keys : Lookup(k)' = Want'[k]
        BY <3>1, <3>4, <3>5 DEF DeleteInv
      <3> QED
        BY <3>3, <3>6
    <2> QED
      BY <1>1, <2>1
  <1>4. CASE Next
    <2>1. pc # "undefined"
      BY <1>2, <1>4, UndefinedStops
    <2>2. PICK h : Tall(h)
      BY <2>1 DEF WholeInv, IInv
    <2>3. PICK N, A, K : InOrder(N, A, K)
      BY <2>1 DEF WholeInv, OInv
    <2> QED
      BY <1>1, <1>2, <1>4, <2>2, <2>3, StepDeleteInv
  <1> QED
    BY <1>3, <1>4

\* The first failure of a delete leaves every other key as it was.
LEMMA FirstFailure ==
    ASSUME WholeInv(FALSE), DeleteInv, [Next]_vars, faults = 0, faults' # 0, call'.op = "delete"
    PROVE  OthersKept'
  <1>1. Step
    <2>1. \A c \in Ops : ~Invoke(c)
      BY DEF Invoke
    <2>2. Next
      BY DEF vars
    <2> QED
      BY <2>1, <2>2 DEF Next
  <1>2. TypeOK /\ Sorted
    BY DEF WholeInv, IInv, OInv
  <1>3. pc # "undefined"
    BY <1>1, <1>2, UndefinedStops DEF Next
  <1>4. PICK h : Tall(h)
    BY <1>3 DEF WholeInv, IInv
  <1>5. call' = call
    BY <1>1, StepKeepsCall DEF NoCall
  <1>6. IOError
    BY <1>1, <1>2, <1>4, <1>5, OnlyIOFails
  <1>7. /\ pc' = "return" /\ path' = path /\ view' = view
        /\ UNCHANGED <<pages, num_pages, root_id>>
    BY <1>6 DEF IOError, ReturnWith, store, locals
  <1>8. \A k : Lookup(k)' = Lookup(k)
    BY <1>7, ReadsStay
  <1>9. Len(path) <= 2 => \A k \in Keys \ {call.key} : Lookup(k) = view[k]
    BY <1>2, <1>4, <1>5, <1>6, FailedReads
  <1> QED
    BY <1>5, <1>7, <1>8, <1>9 DEF OthersKept

\* Every step keeps the isolation of a failed delete: the client, which gives up after the
\* first failure, makes no call any more.
LEMMA NextIsolation ==
    ASSUME RecordsFit, EvenRecords, GiveUp <= 1, IsolationInv, [Next]_vars
    PROVE  IsolationInv'
  <1>1. faults' \in {faults, faults + 1} /\ faults \in Nat
    BY FailuresAddUp DEF IsolationInv
  <1>2. faults' \in Nat /\ (faults' = 0 => faults = 0)
    BY <1>1
  <1>3. ASSUME faults' = 0 PROVE WholeInv(FALSE)' /\ DeleteInv'
    BY <1>2, <1>3, NextUnfailed DEF IsolationInv
  <1>4. ASSUME faults' > 0, call'.op = "delete" PROVE OthersKept'
    <2>1. CASE faults = 0
      BY <1>4, <2>1, FirstFailure DEF IsolationInv
    <2>2. CASE faults > 0
      <3>1. \A c \in Ops : ~Invoke(c)
        <4>1. ~(faults < GiveUp)
          BY <1>1, <2>2, BoundsAssumption
        <4> QED
          BY <4>1 DEF Invoke
      <3>2. CASE Step
        <4>1. call' = call /\ (pc = "return" => Return)
          BY <1>4, <3>2, StepKeepsCall DEF NoCall
        <4>2. Return
          BY <1>4, <2>2, <4>1 DEF IsolationInv, OthersKept
        <4> QED
          BY <1>4, <4>2 DEF Return, NoCall
      <3>3. CASE UNCHANGED vars
        <4>1. /\ pc' = pc /\ call' = call /\ path' = path /\ view' = view
              /\ UNCHANGED <<pages, num_pages, root_id>>
          BY <3>3 DEF vars, store, locals
        <4>2. \A k : Lookup(k)' = Lookup(k)
          BY <4>1, ReadsStay
        <4> QED
          BY <1>4, <2>2, <4>1, <4>2 DEF IsolationInv, OthersKept
      <3> QED
        BY <3>1, <3>2, <3>3 DEF Next
    <2> QED
      BY <1>1, <2>1, <2>2
  <1> QED
    BY <1>2, <1>3, <1>4 DEF IsolationInv

\* What can be read when a delete has returned, failed or not, is at every other key what
\* could be read before.
LEMMA DeleteReturns ==
    ASSUME IsolationInv, Return, call.op = "delete", Len(path) <= 2,
           NEW k \in Keys \ {call.key}
    PROVE  view'[k] = view[k]
  <1>1. CASE faults = 0
    <2>1. pc = "return" /\ TypeOK /\ Sorted /\ WholeInv(FALSE) /\ DeleteInv
      BY <1>1 DEF IsolationInv, WholeInv, IInv, OInv, Return
    <2>2. PICK h : Tall(h)
      BY <2>1 DEF WholeInv, IInv
    <2>3. PICK B, D : Mapped(B, D)
      BY <2>1 DEF DeleteInv
    <2>4. call \in Ops
      BY <2>1 DEF WholeInv, MInv, AnswersRight
    <2>5. view' = Want
      BY <2>1, <2>2, <2>3, <2>4, ReturnReads
    <2> QED
      BY <2>1, <2>5 DEF Want, TypeOK
  <1>2. CASE faults # 0
    <2>1. OthersKept
      BY <1>2 DEF IsolationInv
    <2> QED
      BY <2>1 DEF OthersKept, Return
  <1> QED
    BY <1>1, <1>2

\* A delete that returns BTREE_IO_ERROR has changed the value of no other key
\* (FailedDeleteIsolated), whichever of its page accesses failed and whatever calls came
\* before: on a tree of at most two levels, and for a client that gives up after the first
\* failure.
THEOREM FailedDeletesAreIsolated ==
    ASSUME RecordsFit, EvenRecords, GiveUp <= 1
    PROVE  Spec => FailedDeleteIsolated
  <1>1. Init => IsolationInv
    <2> SUFFICES ASSUME Init PROVE IsolationInv
      OBVIOUS
    <2>1. faults = 0 /\ DeleteInv
      BY DEF Init, DeleteInv
    <2>2. WholeInv(FALSE)
      BY InitWholeInv
    <2>3. faults \in Nat /\ ~(faults > 0)
      BY <2>1
    <2> QED
      BY <2>1, <2>2, <2>3, Zenon DEF IsolationInv
  <1>2. IsolationInv /\ [Next]_vars => IsolationInv'
    BY NextIsolation
  <1>3. IsolationInv /\ [Next]_vars
        => [Return /\ call.op = "delete" /\ ret = IO_ERROR /\ Len(path) <= 2
            => \A k \in Keys \ {call.key} : view'[k] = view[k]]_vars
    BY DeleteReturns
  <1> QED
    BY <1>1, <1>2, <1>3, PTL DEF Spec, FailedDeleteIsolated
=============================================================================
