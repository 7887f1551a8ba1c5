------------------------- MODULE LeaderboardProofs -------------------------
(***************************************************************************)
(* Proofs about Leaderboard: the two orders of names are one, and total;   *)
(* what qsort leaves is the ranking of the people on the board; top-n list *)
(* and rank follow it as long as no name is too long for an entry; and the *)
(* seeds never come back over what the user did, while the file opens.     *)
(***************************************************************************)
EXTENDS Leaderboard, TLAPS, FiniteSetTheorems, FunctionTheorems, SequenceTheorems,
        WellFoundedInduction

-----------------------------------------------------------------------------
(***************************************************************************)
(* The order of names.                                                     *)
(***************************************************************************)

\* The i-th byte of s in memory: behind its end there is a 0.
Byte(s, i) == IF i <= Len(s) THEN s[i] ELSE 0

\* A nonempty set of numbers has a least one.
LEMMA LeastNumber ==
    ASSUME NEW D \in SUBSET Nat, D # {}
    PROVE  \E m \in D : \A k \in D : m <= k
  <1>1. \E m \in D : \A k \in D : ~(<<k, m>> \in OpToRel(<, Nat))
    BY NatLessThanWellFounded, WFMin
  <1>2. \A m, k \in Nat : ~(<<k, m>> \in OpToRel(<, Nat)) => m <= k
    BY DEF OpToRel
  <1> QED
    BY <1>1, <1>2

\* A name has a length.
LEMMA LenType ==
    ASSUME NEW a \in Names
    PROVE  Len(a) \in Nat
  BY NamesAssumption

\* A name has bytes from 1 to 255.
LEMMA ByteIn ==
    ASSUME NEW a \in Names, NEW i \in 1..Len(a)
    PROVE  Byte(a, i) = a[i] /\ Byte(a, i) \in 1..255
  <1>1. a \in Seq(1..255)
    BY NamesAssumption
  <1>2. a[i] \in 1..255
    BY <1>1, ElementOfSeq
  <1>3. Byte(a, i) = a[i]
    BY LenType DEF Byte
  <1> QED
    BY <1>2, <1>3

\* Behind the end of a name there is a 0.
LEMMA ByteType ==
    ASSUME NEW a \in Names, NEW i \in Nat \ {0}
    PROVE  Byte(a, i) \in Nat /\ (Byte(a, i) = 0 <=> i > Len(a))
  <1>1. CASE i \in 1..Len(a)
    <2>1. Byte(a, i) \in 1..255
      BY <1>1, ByteIn
    <2>2. ~(i > Len(a))
      BY <1>1, LenType
    <2>3. Byte(a, i) \in Nat /\ Byte(a, i) # 0
      BY <2>1
    <2> QED
      BY <2>2, <2>3
  <1>2. CASE i > Len(a)
    BY <1>2, LenType DEF Byte
  <1> QED
    BY <1>1, <1>2, LenType

\* strcmp(a, b) < 0: at their first difference a has the smaller byte.
LEMMA FirstDifference ==
    ASSUME NEW a \in Names, NEW b \in Names
    PROVE  strcmp(a, b) <=>
             \E i \in Nat \ {0} :
                /\ Byte(a, i) < Byte(b, i)
                /\ \A j \in 1..(i - 1) : Byte(a, j) = Byte(b, j)
  <1>1. a \in Seq(1..255) /\ b \in Seq(1..255)
    BY NamesAssumption
  <1>2. ASSUME NEW i \in Nat \ {0}, Byte(a, i) < Byte(b, i) PROVE i \in 1..(Len(b) + 1)
    BY <1>2, ByteType, LenType
  <1>3. strcmp(a, b) <=>
          \E i \in 1..(Len(b) + 1) :
             Byte(a, i) < Byte(b, i) /\ \A j \in 1..(i - 1) : Byte(a, j) = Byte(b, j)
    BY DEF strcmp, Byte
  <1>4. 1..(Len(b) + 1) \subseteq Nat \ {0}
    BY <1>1
  <1> QED
    BY <1>2, <1>3, <1>4

\* Different names have different bytes somewhere.
LEMMA NamesDiffer ==
    ASSUME NEW a \in Names, NEW b \in Names, a # b
    PROVE  \E i \in Nat \ {0} : Byte(a, i) # Byte(b, i)
  <1>1. a \in Seq(1..255) /\ b \in Seq(1..255)
    BY NamesAssumption
  <1>2. CASE Len(a) = Len(b)
    <2>1. PICK i \in 1..Len(a) : a[i] # b[i]
      BY <1>1, <1>2
    <2> QED
      BY <1>1, <1>2, <2>1 DEF Byte
  <1>3. CASE Len(a) # Len(b)
    <2>1. PICK n \in {Len(a), Len(b)} : \A m \in {Len(a), Len(b)} : n <= m
      BY <1>1
    <2>2. n + 1 \in Nat \ {0}
      BY <1>1
    <2> QED
      BY <1>1, <1>3, <2>1, <2>2, ByteType DEF Byte
  <1> QED
    BY <1>2, <1>3

\* No name comes before itself.
LEMMA NameIrreflexive ==
    ASSUME NEW a \in Names
    PROVE  ~strcmp(a, a)
  BY FirstDifference, ByteType

\* Of two names one comes first.
LEMMA NamesTotal ==
    ASSUME NEW a \in Names, NEW b \in Names, a # b
    PROVE  strcmp(a, b) \/ strcmp(b, a)
  <1> DEFINE D == {i \in Nat \ {0} : Byte(a, i) # Byte(b, i)}
  <1>1. PICK m \in D : \A k \in D : m <= k
    BY NamesDiffer, LeastNumber, D \in SUBSET Nat
  <1>2. ASSUME NEW j \in 1..(m - 1) PROVE Byte(a, j) = Byte(b, j)
    BY <1>1, <1>2
  <1>3. Byte(a, m) < Byte(b, m) \/ Byte(b, m) < Byte(a, m)
    BY <1>1, ByteType
  <1> QED
    BY <1>1, <1>2, <1>3, FirstDifference

\* The order of names is transitive.
LEMMA NamesTransitive ==
    ASSUME NEW a \in Names, NEW b \in Names, NEW c \in Names, strcmp(a, b), strcmp(b, c)
    PROVE  strcmp(a, c)
  <1>1. PICK i \in Nat \ {0} :
            Byte(a, i) < Byte(b, i) /\ \A k \in 1..(i - 1) : Byte(a, k) = Byte(b, k)
    BY FirstDifference
  <1>2. PICK j \in Nat \ {0} :
            Byte(b, j) < Byte(c, j) /\ \A k \in 1..(j - 1) : Byte(b, k) = Byte(c, k)
    BY FirstDifference
  <1>3. PICK m \in {i, j} : m <= i /\ m <= j
    OBVIOUS
  <1>4. Byte(a, m) < Byte(c, m)
    <2>1. Byte(a, m) \in Nat /\ Byte(b, m) \in Nat /\ Byte(c, m) \in Nat
      BY ByteType
    <2>2. m = i \/ m \in 1..(i - 1)
      BY <1>3
    <2>3. m = j \/ m \in 1..(j - 1)
      BY <1>3
    <2>4. Byte(a, m) < Byte(b, m) \/ Byte(a, m) = Byte(b, m)
      BY <1>1, <2>2
    <2>5. Byte(b, m) < Byte(c, m) \/ Byte(b, m) = Byte(c, m)
      BY <1>2, <2>3
    <2>6. Byte(a, m) < Byte(b, m) \/ Byte(b, m) < Byte(c, m)
      BY <1>1, <1>2, <1>3
    <2> QED
      BY <2>1, <2>4, <2>5, <2>6
  <1>5. ASSUME NEW k \in 1..(m - 1) PROVE Byte(a, k) = Byte(c, k)
    BY <1>1, <1>2, <1>3, <1>5
  <1> QED
    BY <1>3, <1>4, <1>5, FirstDifference

\* The tree and the ranking order names in the same way: compare_default compares lengths
\* and bytes, strcmp runs into the 0 behind the shorter name.
THEOREM OneOrderOfNames ==
    ASSUME NEW a \in Names, NEW b \in Names
    PROVE  compare_default(a, b) <=> strcmp(a, b)
  <1>1. a \in Seq(1..255) /\ b \in Seq(1..255)
    BY NamesAssumption
  <1> DEFINE Common == 1..(IF Len(a) < Len(b) THEN Len(a) ELSE Len(b))
             Differ == {i \in Common : a[i] # b[i]}
  <1>2. ASSUME NEW i \in Common
        PROVE  i \in Nat \ {0} /\ Byte(a, i) = a[i] /\ Byte(b, i) = b[i]
    BY <1>1, <1>2 DEF Byte
  <1>3. compare_default(a, b) <=>
          IF Differ = {} THEN Len(a) < Len(b)
          ELSE \E i \in Differ : (\A j \in Differ : i <= j) /\ a[i] < b[i]
    BY DEF compare_default
  <1>4. ASSUME compare_default(a, b) PROVE strcmp(a, b)
    <2>1. CASE Differ = {}
      <3>1. Len(a) < Len(b)
        BY <1>3, <1>4, <2>1
      <3>2. Len(a) + 1 \in Nat \ {0}
        BY <1>1
      <3>3. Byte(a, Len(a) + 1) < Byte(b, Len(a) + 1)
        BY <3>1, <3>2, ByteType
      <3>4. ASSUME NEW j \in 1..(Len(a) + 1 - 1) PROVE Byte(a, j) = Byte(b, j)
        <4>1. j \in Common
          BY <1>1, <3>1, <3>4
        <4> QED
          BY <4>1, <1>2, <2>1
      <3> QED
        BY <3>2, <3>3, <3>4, FirstDifference
    <2>2. CASE Differ # {}
      <3>1. PICK i \in Differ : (\A j \in Differ : i <= j) /\ a[i] < b[i]
        BY <1>3, <1>4, <2>2
      <3>2. ASSUME NEW j \in 1..(i - 1) PROVE Byte(a, j) = Byte(b, j)
        <4>1. j \in Common /\ ~(i <= j)
          BY <1>1, <3>2
        <4> QED
          BY <4>1, <3>1, <1>2
      <3>3. i \in Nat \ {0} /\ Byte(a, i) < Byte(b, i)
        BY <3>1, <1>2
      <3> QED
        BY <3>2, <3>3, FirstDifference
    <2> QED
      BY <2>1, <2>2
  <1>5. ASSUME strcmp(a, b) PROVE compare_default(a, b)
    <2>1. PICK i \in Nat \ {0} :
              Byte(a, i) < Byte(b, i) /\ \A j \in 1..(i - 1) : Byte(a, j) = Byte(b, j)
      BY <1>5, FirstDifference
    <2>2. i <= Len(b)
      BY <2>1, ByteType, <1>1
    <2>3. CASE i <= Len(a)
      <3>1. i \in Common
        BY <1>1, <2>2, <2>3
      <3>2. i \in Differ /\ a[i] < b[i]
        BY <3>1, <1>2, <2>1, ByteType
      <3>3. ASSUME NEW j \in Differ PROVE i <= j
        <4>1. j \in Common /\ a[j] # b[j]
          OBVIOUS
        <4>2. j \notin 1..(i - 1)
          BY <4>1, <1>2, <2>1
        <4> QED
          BY <4>1, <4>2, <1>1
      <3> QED
        BY <3>2, <3>3, <1>3
    <2>4. CASE i > Len(a)
      <3>1. i = Len(a) + 1
        <4>1. CASE Len(a) + 1 \in 1..(i - 1)
          BY <4>1, <2>1, <2>2, ByteType
        <4> QED
          BY <4>1, <2>4, <1>1
      <3>2. ASSUME NEW j \in Common PROVE a[j] = b[j]
        <4>1. j \in 1..(i - 1)
          BY <3>1, <1>1
        <4> QED
          BY <4>1, <2>1, <1>2
      <3> QED
        BY <3>1, <3>2, <2>2, <1>1, <1>3
    <2> QED
      BY <2>3, <2>4, <1>1
  <1> QED
    BY <1>4, <1>5

\* The order in which the tree keeps names is a strict total order.
LEMMA TreeOrder ==
    /\ \A a \in Names : ~compare_default(a, a)
    /\ \A a, b \in Names : a # b => compare_default(a, b) \/ compare_default(b, a)
    /\ \A a, b, c \in Names :
          compare_default(a, b) /\ compare_default(b, c) => compare_default(a, c)
  BY OneOrderOfNames, NameIrreflexive, NamesTotal, NamesTransitive

-----------------------------------------------------------------------------
(***************************************************************************)
(* The scan and the sorted array.                                          *)
(***************************************************************************)

\* Counting the names of S up to each one numbers them in ascending order.
LEMMA NumberNames ==
    ASSUME NEW S \in SUBSET Names, IsFiniteSet(S)
    PROVE  LET r == [p \in S |-> 1 + Cardinality({q \in S : compare_default(q, p)})]
           IN  /\ r \in Bijection(S, 1..Cardinality(S))
               /\ \A p, q \in S : compare_default(p, q) => r[p] < r[q]
  <1> DEFINE B(p) == {q \in S : compare_default(q, p)}
             r == [p \in S |-> 1 + Cardinality(B(p))]
             n == Cardinality(S)
  <1>1. n \in Nat
    BY FS_CardinalityType
  <1>2. ASSUME NEW p \in S
        PROVE  /\ IsFiniteSet(B(p)) /\ IsFiniteSet(B(p) \cup {p})
               /\ Cardinality(B(p)) \in Nat
               /\ Cardinality(B(p) \cup {p}) = Cardinality(B(p)) + 1
    <2>1. B(p) \in SUBSET S /\ p \notin B(p)
      BY TreeOrder
    <2>2. IsFiniteSet(B(p))
      BY <2>1, FS_Subset
    <2> QED
      BY <2>1, <2>2, FS_AddElement, FS_CardinalityType
  <1>3. ASSUME NEW p \in S PROVE r[p] = 1 + Cardinality(B(p))
    OBVIOUS
  <1>4. ASSUME NEW p \in S PROVE r[p] \in 1..n
    <2>1. B(p) \cup {p} \in SUBSET S
      BY <1>4
    <2>2. Cardinality(B(p) \cup {p}) <= n
      BY <2>1, FS_Subset
    <2> HIDE DEF B, r, n
    <2> QED
      BY <1>1, <1>2, <1>3, <2>2
  <1>5. ASSUME NEW p \in S, NEW q \in S, compare_default(p, q) PROVE r[p] < r[q]
    <2>1. B(p) \cup {p} \in SUBSET B(q)
      BY <1>5, TreeOrder
    <2>2. Cardinality(B(p) \cup {p}) <= Cardinality(B(q))
      BY <2>1, <1>2, FS_Subset
    <2>3. /\ Cardinality(B(p)) \in Nat /\ Cardinality(B(q)) \in Nat
          /\ Cardinality(B(p) \cup {p}) = Cardinality(B(p)) + 1
      BY <1>2
    <2>4. r[p] = 1 + Cardinality(B(p)) /\ r[q] = 1 + Cardinality(B(q))
      BY <1>3
    <2> HIDE DEF B, r
    <2> QED
      BY <2>2, <2>3, <2>4
  <1>6. r \in Injection(S, 1..n)
    <2>1. r \in [S -> 1..n]
      BY <1>4
    <2>2. ASSUME NEW p \in S, NEW q \in S, r[p] = r[q], p # q PROVE FALSE
      <3>1. compare_default(p, q) \/ compare_default(q, p)
        BY <2>2, TreeOrder
      <3>2. r[p] < r[q] \/ r[q] < r[p]
        BY <3>1, <1>5
      <3>3. r[p] \in Nat /\ r[q] \in Nat
        BY <1>4, <1>1
      <3> QED
        BY <2>2, <3>2, <3>3
    <2>3. \A p, q \in S : r[p] = r[q] => p = q
      BY <2>2
    <2> HIDE DEF r
    <2> QED
      BY <2>1, <2>3 DEF Injection, IsInjective
  <1>7. IsFiniteSet(1..n) /\ Cardinality(1..n) = n
    BY <1>1, FS_Interval
  <1>8. r \in Surjection(S, 1..n)
    <2> HIDE DEF r, n
    <2>1. Cardinality(S) = Cardinality(1..n)
      BY <1>7 DEF n
    <2> QED
      BY <1>6, <1>7, <2>1, FS_Injection
  <1> QED
    BY <1>5, <1>6, <1>8 DEF Bijection

\* A cursor that meets the names of S in ascending order meets each of them once.
LEMMA ScanIsAscending ==
    ASSUME NEW S \in SUBSET Names, IsFiniteSet(S)
    PROVE  /\ Scan(S) \in Bijection(1..Cardinality(S), S)
           /\ \A i, j \in 1..Cardinality(S) :
                 i < j => compare_default(Scan(S)[i], Scan(S)[j])
  <1> DEFINE n == Cardinality(S)
             r == [p \in S |-> 1 + Cardinality({q \in S : compare_default(q, p)})]
             s == Inverse(r, S, 1..n)
             Asc(t) == \A i, j \in DOMAIN t : i < j => compare_default(t[i], t[j])
  <1>1. r \in Bijection(S, 1..n) /\ \A p, q \in S : compare_default(p, q) => r[p] < r[q]
    BY NumberNames
  <1> HIDE DEF r
  <1>2. n \in Nat
    BY FS_CardinalityType
  <1>3. s \in Bijection(1..n, S) /\ \A i \in 1..n : s[i] \in S /\ r[s[i]] = i
    <2> HIDE DEF n
    <2>1. s \in Bijection(1..n, S)
      BY <1>1, Fun_BijInverse
    <2>2. r \in [S -> 1..n] /\ r \in Surjection(S, 1..n)
      BY <1>1, Fun_BijectionProperties
    <2>3. Range(r) = 1..n
      BY <2>2, Fun_SurjectionProperties
    <2>4. \A y \in Range(r) : r[s[y]] = y
      BY <2>2, Fun_InverseProperties
    <2> HIDE DEF s
    <2>5. s \in [1..n -> S]
      BY <2>1, Fun_BijectionProperties
    <2> QED
      BY <2>1, <2>3, <2>4, <2>5
  <1>4. DOMAIN s = 1..n
    BY <1>3 DEF Bijection, Injection
  <1> HIDE DEF s
  <1>5. ASSUME NEW i \in 1..n, NEW j \in 1..n, i < j PROVE compare_default(s[i], s[j])
    <2>1. s[i] \in S /\ s[j] \in S /\ r[s[i]] = i /\ r[s[j]] = j
      BY <1>3
    <2>2. ~compare_default(s[j], s[i])
      BY <2>1, <1>1, <1>5, <1>2
    <2>3. s[i] # s[j]
      BY <2>1, <1>5, <1>2
    <2> QED
      BY <2>1, <2>2, <2>3, TreeOrder
  <1>6. \E t \in Bijection(1..n, S) : Asc(t)
    BY <1>3, <1>4, <1>5
  <1>7. Scan(S) = CHOOSE t \in Bijection(1..n, S) : Asc(t)
    BY DEF Scan
  <1>8. Scan(S) \in Bijection(1..n, S) /\ Asc(Scan(S))
    BY <1>6, <1>7
  <1>9. DOMAIN Scan(S) = 1..n
    BY <1>8 DEF Bijection, Injection
  <1> QED
    BY <1>8, <1>9

\* What the functions of the leaderboard take for granted about the board.
BoardOK == board \in [Names -> Int \cup {NoWealth}] /\ IsFiniteSet(People)

Entries == [name : Names, wealth : Int]

\* t has one entry for each person, the richest first, and by name for the same wealth.
IsRanking(t) ==
    /\ t \in [1..lb_count -> Entries]
    /\ \A i \in 1..lb_count : t[i].name \in People /\ t[i].wealth = board[t[i].name]
    /\ \A i, j \in 1..lb_count : i < j => Ahead(t[i].name, t[j].name)
    /\ \A p \in People : \E i \in 1..lb_count : t[i].name = p

\* People have a wealth, and there is a number of them.
LEMMA PeopleType ==
    ASSUME BoardOK
    PROVE  /\ People \in SUBSET Names /\ lb_count \in Nat
           /\ \A p \in People : board[p] \in Int
  <1>1. lb_count \in Nat
    BY FS_CardinalityType DEF BoardOK, lb_count
  <1> QED
    BY <1>1 DEF BoardOK, People

\* Being ahead is a strict total order of the people on the board.
LEMMA AheadOrder ==
    ASSUME BoardOK
    PROVE  /\ \A p \in People : ~Ahead(p, p)
           /\ \A p, q \in People : p # q => Ahead(p, q) \/ Ahead(q, p)
           /\ \A p, q \in People : ~(Ahead(p, q) /\ Ahead(q, p))
  <1>1. ASSUME NEW p \in People, NEW q \in People
        PROVE  /\ board[p] \in Int /\ board[q] \in Int
               /\ ~compare_default(p, p)
               /\ ~(compare_default(p, q) /\ compare_default(q, p))
               /\ p # q => compare_default(p, q) \/ compare_default(q, p)
    <2>1. p \in Names /\ q \in Names
      BY PeopleType
    <2> QED
      BY <2>1, PeopleType, TreeOrder
  <1> QED
    BY <1>1 DEF Ahead

\* When no name is too long, collect_all fills the array with one entry for each person.
LEMMA AllCollected ==
    ASSUME BoardOK, LongNames = {}
    PROVE  /\ collect_all \in [1..lb_count -> Entries]
           /\ \A i \in 1..lb_count :
                 /\ collect_all[i].name \in People
                 /\ collect_all[i].wealth = board[collect_all[i].name]
           /\ \A i, j \in 1..lb_count : collect_all[i].name = collect_all[j].name => i = j
           /\ \A p \in People : \E i \in 1..lb_count : collect_all[i].name = p
  <1> DEFINE s == Scan(People)
  <1>1. s \in Bijection(1..lb_count, People)
    BY PeopleType, ScanIsAscending DEF BoardOK, lb_count
  <1> HIDE DEF s
  <1>2. /\ s \in [1..lb_count -> People]
        /\ \A i, j \in 1..lb_count : s[i] = s[j] => i = j
        /\ \A p \in People : \E i \in 1..lb_count : s[i] = p
    BY <1>1 DEF Bijection, Injection, Surjection, IsInjective
  <1>3. People \ LongNames = People
    OBVIOUS
  <1>4. collect_all = [i \in DOMAIN s |-> [name |-> s[i], wealth |-> board[s[i]]]]
    BY <1>3 DEF collect_all, s
  <1>5. collect_all = [i \in 1..lb_count |-> [name |-> s[i], wealth |-> board[s[i]]]]
    BY <1>2, <1>4
  <1>6. ASSUME NEW i \in 1..lb_count PROVE s[i] \in Names /\ board[s[i]] \in Int
    BY <1>2, PeopleType
  <1> QED
    BY <1>2, <1>5, <1>6 DEF Entries

\* entry_cmp_desc puts the entries of two people in the order of the ranking.
LEMMA EntryOrder ==
    ASSUME BoardOK,
           NEW e \in Entries, e.name \in People, e.wealth = board[e.name],
           NEW f \in Entries, f.name \in People, f.wealth = board[f.name]
    PROVE  entry_cmp_desc(e, f) <=> Ahead(e.name, f.name)
  <1>1. e.name \in Names /\ f.name \in Names
    BY DEF Entries
  <1>2. compare_default(e.name, f.name) <=> strcmp(e.name, f.name)
    BY <1>1, OneOrderOfNames
  <1> QED
    BY <1>2 DEF entry_cmp_desc, Ahead

\* The end of the array that collect_all has not filled is empty.
LEMMA NothingAppended ==
    ASSUME BoardOK, LongNames = {}, NEW t \in Sorted
    PROVE  t \in qsort(collect_all)
  <1>1. collect_all \in [1..lb_count -> Entries] /\ lb_count \in Nat
    BY AllCollected, PeopleType
  <1>2. Len(collect_all) = lb_count /\ collect_all \in Seq(Entries)
    BY <1>1
  <1>3. PICK g \in [1..(lb_count - Len(collect_all)) -> Garbage] :
            t \in qsort(collect_all \o g)
    BY DEF Sorted
  <1>4. g \in Seq(Garbage) /\ Len(g) = 0
    BY <1>1, <1>2, <1>3
  <1>5. g = << >>
    BY <1>4
  <1>6. collect_all \o g = collect_all
    BY <1>2, <1>5, ConcatEmptySeq
  <1> QED
    BY <1>3, <1>6

\* As long as no name is too long, what qsort leaves is the ranking of all people.
LEMMA SortedIsRanking ==
    ASSUME BoardOK, LongNames = {}, NEW t \in Sorted
    PROVE  IsRanking(t)
  <1> DEFINE all == collect_all
             n == lb_count
  <1>1. /\ all \in [1..n -> Entries]
        /\ \A i \in 1..n : all[i].name \in People /\ all[i].wealth = board[all[i].name]
        /\ \A i, j \in 1..n : all[i].name = all[j].name => i = j
        /\ \A p \in People : \E i \in 1..n : all[i].name = p
        /\ n \in Nat
    BY AllCollected, PeopleType
  <1>2. t \in qsort(all)
    BY NothingAppended
  <1> HIDE DEF all, n
  <1>3. DOMAIN all = 1..n
    BY <1>1
  <1>4. PICK f \in Bijection(1..n, 1..n) : t = [i \in 1..n |-> all[f[i]]]
    BY <1>2, <1>3 DEF qsort
  <1>5. /\ f \in [1..n -> 1..n]
        /\ \A i, j \in 1..n : f[i] = f[j] => i = j
        /\ \A k \in 1..n : \E i \in 1..n : f[i] = k
    BY <1>4, Fun_BijectionProperties
  <1>6. \A i, j \in 1..n : i < j => ~entry_cmp_desc(t[j], t[i])
    BY <1>2, <1>3 DEF qsort
  <1>7. t \in [1..n -> Entries]
    BY <1>1, <1>4, <1>5
  <1>8. ASSUME NEW i \in 1..n
        PROVE  t[i] \in Entries /\ t[i].name \in People /\ t[i].wealth = board[t[i].name]
    BY <1>1, <1>4, <1>5, <1>7
  <1>9. ASSUME NEW i \in 1..n, NEW j \in 1..n, i < j PROVE Ahead(t[i].name, t[j].name)
    <2>1. ~Ahead(t[j].name, t[i].name)
      BY <1>6, <1>8, <1>9, EntryOrder
    <2>2. f[i] # f[j] /\ f[i] \in 1..n /\ f[j] \in 1..n
      BY <1>5, <1>9, <1>1
    <2>3. t[i].name # t[j].name
      BY <2>2, <1>1, <1>4
    <2> QED
      BY <2>1, <2>3, <1>8, AheadOrder
  <1>10. ASSUME NEW p \in People PROVE \E i \in 1..n : t[i].name = p
    <2>1. PICK k \in 1..n : all[k].name = p
      BY <1>1
    <2>2. PICK i \in 1..n : f[i] = k
      BY <1>5
    <2> QED
      BY <1>4, <2>1, <2>2
  <1> QED
    BY <1>7, <1>8, <1>9, <1>10 DEF IsRanking, n

\* The place of a person in the ranking is one more than the number of those ahead.
LEMMA PlaceCountsThoseAhead ==
    ASSUME BoardOK, NEW t, IsRanking(t), NEW i \in 1..lb_count
    PROVE  i = 1 + Cardinality({p \in People : Ahead(p, t[i].name)})
  <1> DEFINE A == {p \in People : Ahead(p, t[i].name)}
             f == [j \in 1..(i - 1) |-> t[j].name]
  <1>1. lb_count \in Nat
    BY PeopleType
  <1>2. ASSUME NEW j \in 1..(i - 1) PROVE j \in 1..lb_count /\ j < i
    BY <1>1, <1>2
  <1>3. f \in [1..(i - 1) -> A]
    BY <1>2 DEF IsRanking
  <1>4. ASSUME NEW j \in 1..(i - 1), NEW k \in 1..(i - 1), f[j] = f[k], j # k PROVE FALSE
    <2>1. j \in 1..lb_count /\ k \in 1..lb_count /\ t[j].name = t[k].name
      BY <1>2, <1>4
    <2>2. j < k \/ k < j
      BY <1>4, <1>1
    <2>3. t[j].name \in People /\ Ahead(t[j].name, t[j].name)
      BY <2>1, <2>2 DEF IsRanking
    <2> QED
      BY <2>3, AheadOrder
  <1>5. ASSUME NEW p \in A PROVE \E j \in 1..(i - 1) : f[j] = p
    <2>1. PICK j \in 1..lb_count : t[j].name = p
      BY DEF IsRanking
    <2>2. t[i].name \in People /\ p \in People /\ Ahead(p, t[i].name)
      BY DEF IsRanking
    <2>3. ~(i < j) /\ i # j
      BY <2>1, <2>2, AheadOrder DEF IsRanking
    <2>4. j \in 1..(i - 1)
      BY <2>3, <1>1
    <2> QED
      BY <2>1, <2>4
  <1>6. f \in Bijection(1..(i - 1), A)
    <2> HIDE DEF f, A
    <2> QED
      BY <1>3, <1>4, <1>5, Fun_IsBij
  <1>7. IsFiniteSet(1..(i - 1)) /\ Cardinality(1..(i - 1)) = i - 1
    BY FS_Interval, <1>1
  <1>8. Cardinality(A) = i - 1
    <2> HIDE DEF f, A
    <2>1. ExistsBijection(1..(i - 1), A)
      BY <1>6 DEF ExistsBijection
    <2> QED
      BY <1>7, <2>1, FS_Bijection
  <1> HIDE DEF A
  <1>9. i = 1 + Cardinality(A)
    BY <1>8, <1>1
  <1> QED
    BY <1>9 DEF A

\* The list that lb_top_n answers is the beginning of the ranking.
LEMMA TopIsBeginning ==
    ASSUME BoardOK, LongNames = {}, NEW n \in Nat, NEW top \in lb_top_n(n)
    PROVE  \E t : /\ IsRanking(t)
                  /\ LET k == IF n < lb_count THEN n ELSE lb_count
                     IN  /\ Len(top) = k /\ DOMAIN top = 1..k
                         /\ \A i \in 1..k : top[i] = t[i]
  <1>1. PICK t \in Sorted : top = SubSeq(t, 1, IF n < lb_count THEN n ELSE lb_count)
    BY DEF lb_top_n
  <1>2. IsRanking(t)
    BY SortedIsRanking
  <1> DEFINE k == IF n < lb_count THEN n ELSE lb_count
  <1>3. k \in Nat /\ k <= lb_count /\ lb_count \in Nat
    BY PeopleType
  <1>4. \A i \in 1..k : t[i] \in Entries
    BY <1>2, <1>3 DEF IsRanking
  <1> HIDE DEF k
  <1>5. top = SubSeq(t, 1, k)
    BY <1>1 DEF k
  <1>6. /\ top \in Seq(Entries) /\ Len(top) = (IF 1 <= k THEN k - 1 + 1 ELSE 0)
        /\ \A i \in 1..(k - 1 + 1) : top[i] = t[1 + i - 1]
    BY <1>3, <1>4, <1>5, SubSeqProperties
  <1>7. Len(top) = k /\ DOMAIN top = 1..k
    BY <1>3, <1>6
  <1>8. ASSUME NEW i \in 1..k PROVE top[i] = t[i]
    BY <1>3, <1>6
  <1> QED
    BY <1>2, <1>7, <1>8 DEF k

\* lb_rank answers the place of a person in the ranking.
LEMMA RankIsPlace ==
    ASSUME BoardOK, LongNames = {}, NEW p \in People, NEW r \in lb_rank(p)
    PROVE  r = 1 + Cardinality({q \in People : Ahead(q, p)})
  <1>1. PICK t \in Sorted :
            r = SelectInSeq(t, LAMBDA e : e.name = p /\ e.wealth = board[p])
    BY DEF lb_rank
  <1>2. IsRanking(t)
    BY SortedIsRanking
  <1>3. PICK i \in 1..lb_count : t[i].name = p
    BY <1>2 DEF IsRanking
  <1>4. Len(t) = lb_count /\ lb_count \in Nat
    BY <1>2, PeopleType DEF IsRanking
  <1> DEFINE I == {j \in 1..Len(t) : t[j].name = p /\ t[j].wealth = board[p]}
  <1>5. I = {i}
    <2>1. i \in I
      BY <1>2, <1>3, <1>4 DEF IsRanking
    <2>2. ASSUME NEW j \in 1..lb_count, t[j].name = p, j # i PROVE FALSE
      <3>1. Ahead(p, p)
        BY <1>2, <1>3, <1>4, <2>2 DEF IsRanking
      <3> QED
        BY <3>1, AheadOrder
    <2> QED
      BY <1>4, <2>1, <2>2
  <1>6. r = IF I # {} THEN Min(I) ELSE 0
    BY <1>1 DEF SelectInSeq
  <1>7. r = i
    BY <1>4, <1>5, <1>6 DEF Min
  <1> QED
    BY <1>2, <1>3, <1>7, PlaceCountsThoseAhead

-----------------------------------------------------------------------------
(***************************************************************************)
(* The board, and what survives a restart.                                 *)
(***************************************************************************)

\* The inductive invariant: the board has finitely many people, and the history is one of
\* names, empty until there is a file.
IInv ==
    /\ TypeOK
    /\ IsFiniteSet(People)
    /\ DOMAIN edits \subseteq Names
    /\ file \/ edits = << >>
    /\ EditsOutliveSeeds

\* A wealth is a number and differs from the absence of a person.
LEMMA WealthType ==
    /\ Wealths \subseteq Int
    /\ NoWealth \notin Wealths
    /\ \A p \in DOMAIN seed_data : seed_data[p] \in Wealths
    /\ DOMAIN seed_data \subseteq Names
  <1>1. /\ Range(seed_data) \subseteq Int
        /\ \A p \in DOMAIN seed_data : seed_data[p] \in Range(seed_data)
    BY SeedAssumption DEF Range
  <1> QED
    BY <1>1, SeedAssumption, InputsAssumption, NoWealthAssumption DEF Wealths

\* A new board holds exactly the seeds.
LEMMA NewBoardType ==
    /\ NewBoard \in [Names -> Wealths \cup {NoWealth}]
    /\ {p \in Names : NewBoard[p] # NoWealth} = DOMAIN seed_data
    /\ Over(<< >>, NewBoard) = NewBoard
  <1>1. NewBoard =
          [p \in Names |-> IF p \in DOMAIN seed_data THEN seed_data[p] ELSE NoWealth]
    BY WealthType DEF NewBoard, Over
  <1> HIDE DEF NewBoard
  <1>2. DOMAIN << >> = {}
    OBVIOUS
  <1>3. Over(<< >>, NewBoard) = [p \in Names |-> NewBoard[p]]
    BY <1>1, <1>2 DEF Over
  <1> QED
    BY <1>1, <1>3, WealthType

\* The invariant says of the board what its functions take for granted.
LEMMA BoardIsOK ==
    ASSUME IInv
    PROVE  BoardOK
  BY WealthType DEF IInv, TypeOK, BoardOK

\* One command that writes a person: the board and its history change in the same place.
LEMMA WritePerson ==
    ASSUME IInv, proc = "menu", NEW p \in Names, NEW w \in Wealths \cup {NoWealth},
           board' = [board EXCEPT ![p] = w],
           edits' = Over([q \in {p} |-> w], edits),
           UNCHANGED <<proc, file, openFaults>>
    PROVE  IInv'
  <1>1. file /\ board \in [Names -> Wealths \cup {NoWealth}] /\ IsFiniteSet(People)
    BY DEF IInv, TypeOK
  <1>2. TypeOK'
    BY <1>1 DEF IInv, TypeOK
  <1>3. IsFiniteSet(People')
    <2>1. People' \in SUBSET (People \cup {p})
      BY <1>1 DEF People
    <2>2. IsFiniteSet(People \cup {p})
      BY <1>1, FS_AddElement
    <2> QED
      BY <2>1, <2>2, FS_Subset
  <1>4. (DOMAIN edits)' \subseteq Names
    BY DEF IInv, Over
  <1>5. EditsOutliveSeeds'
    <2> SUFFICES ASSUME openFaults' = 0
                 PROVE  board' = Over(edits', NewBoard)
      BY DEF EditsOutliveSeeds, ExistingBoardKept, NewBoard
    <2>1. board = Over(edits, NewBoard)
      BY <1>1 DEF IInv, EditsOutliveSeeds, ExistingBoardKept
    <2>2. DOMAIN NewBoard = Names /\ DOMAIN edits \subseteq Names
      BY NewBoardType DEF IInv
    <2> QED
      BY <2>1, <2>2 DEF Over
  <1>6. file' \/ edits' = << >>
    BY <1>1
  <1> QED
    BY <1>2, <1>3, <1>4, <1>5, <1>6 DEF IInv

\* What is not about the answer shown is as it was.
LEMMA SameBoard ==
    ASSUME IInv, UNCHANGED <<proc, file, board, openFaults, edits>>
    PROVE  IInv'
  BY DEF IInv, TypeOK, People, EditsOutliveSeeds, ExistingBoardKept, NewBoard

\* Init establishes the invariant.
LEMMA InitIInv ==
    ASSUME Init
    PROVE  IInv
  <1>1. People = {}
    BY DEF Init, People
  <1>2. edits = << >> /\ DOMAIN edits = {} /\ file = FALSE
    BY DEF Init
  <1>3. TypeOK
    <2>1. proc = "down" /\ file = FALSE /\ board \in [Names -> Wealths \cup {NoWealth}]
      BY DEF Init
    <2>2. openFaults \in 0..MaxOpenFaults
      BY OpenFaultsAssumption DEF Init
    <2> QED
      BY <1>1, <2>1, <2>2 DEF TypeOK
  <1>4. IsFiniteSet(People)
    BY <1>1, FS_EmptySet
  <1>5. EditsOutliveSeeds
    BY <1>2 DEF EditsOutliveSeeds, ExistingBoardKept
  <1>6. DOMAIN edits \subseteq Names
    BY <1>2
  <1> QED
    BY <1>2, <1>3, <1>4, <1>5, <1>6 DEF IInv

\* Every step keeps the invariant.
LEMMA NextIInv ==
    ASSUME IInv, [Next]_vars
    PROVE  IInv'
  <1>1. CASE lb_create
    <2>1. CASE CreateAndSeed /\ ~(file /\ OpenBoard /\ UNCHANGED openFaults)
      <3>1. People' = DOMAIN seed_data
        BY <2>1, NewBoardType DEF CreateAndSeed, People
      <3>2. board' \in [Names -> Wealths \cup {NoWealth}]
        BY <2>1, NewBoardType DEF CreateAndSeed
      <3>3. openFaults' \in 0..MaxOpenFaults /\ (openFaults' = 0 => edits = << >>)
        <4>1. openFaults \in 0..MaxOpenFaults /\ (file \/ edits = << >>)
          BY DEF IInv, TypeOK
        <4>2. CASE ~file /\ UNCHANGED openFaults
          BY <4>1, <4>2
        <4>3. CASE openFaults < MaxOpenFaults /\ openFaults' = openFaults + 1
          BY <4>1, <4>3, OpenFaultsAssumption
        <4> QED
          BY <1>1, <2>1, <4>2, <4>3 DEF lb_create
      <3>4. file' = TRUE /\ proc' = "menu" /\ edits' = edits
        BY <1>1, <2>1 DEF lb_create, CreateAndSeed
      <3>5. TypeOK'
        BY <3>2, <3>3, <3>4 DEF TypeOK
      <3>6. EditsOutliveSeeds'
        <4> SUFFICES ASSUME openFaults' = 0
                     PROVE  board' = Over(edits', NewBoard)
          BY DEF EditsOutliveSeeds, ExistingBoardKept, NewBoard
        <4>1. edits' = << >>
          BY <3>3, <3>4
        <4> QED
          BY <2>1, <4>1, NewBoardType DEF CreateAndSeed
      <3> QED
        BY <3>1, <3>4, <3>5, <3>6, SeedAssumption DEF IInv
    <2>2. CASE file /\ OpenBoard /\ UNCHANGED openFaults
      BY <1>1, <2>2
      DEF lb_create, OpenBoard, IInv, TypeOK, People, EditsOutliveSeeds, ExistingBoardKept,
          NewBoard
    <2> QED
      BY <1>1, <2>1, <2>2 DEF lb_create
  <1>2. CASE Exit
    BY <1>2 DEF Exit, IInv, TypeOK, People, EditsOutliveSeeds, ExistingBoardKept, NewBoard
  <1>3. ASSUME NEW n \in Inputs, show_top_n(n) PROVE IInv'
    BY <1>3, SameBoard DEF show_top_n, Command
  <1>4. ASSUME NEW p \in Names, lookup_person(p) PROVE IInv'
    BY <1>4, SameBoard DEF lookup_person, Command
  <1>5. ASSUME NEW p \in Names, delete_person(p) PROVE IInv'
    BY <1>5, WritePerson DEF delete_person, Command
  <1>6. ASSUME NEW p \in Names, NEW w \in Inputs, add_or_update(p, w) PROVE IInv'
    <2>1. CASE w < 0
      BY <1>6, <2>1, SameBoard DEF add_or_update, Command
    <2>2. CASE ~(w < 0)
      <3>1. w \in Wealths
        BY <1>6, <2>2, InputsAssumption DEF Wealths
      <3> QED
        BY <1>6, <2>2, <3>1, WritePerson DEF add_or_update, Command
    <2> QED
      BY <2>1, <2>2
  <1>7. CASE UNCHANGED vars
    BY <1>7, SameBoard DEF vars
  <1> QED
    BY <1>1, <1>2, <1>3, <1>4, <1>5, <1>6, <1>7 DEF Next

\* In every reachable state the invariant holds.
LEMMA AlwaysIInv == Spec => []IInv
  <1>1. Init => IInv
    BY InitIInv
  <1>2. IInv /\ [Next]_vars => IInv'
    BY NextIInv
  <1> QED
    BY <1>1, <1>2, PTL DEF Spec

\* Every state is of the form the model describes, and only an existing file holds people.
THEOREM BoardTypeOK == Spec => []TypeOK
  <1>1. IInv => TypeOK
    BY DEF IInv
  <1> QED
    BY <1>1, AlwaysIInv, PTL

\* Through any number of commands and restarts the board is the seeds under the edits of
\* the user, as long as no start failed to open an existing file, which lb_create then
\* creates anew.
THEOREM SeedsComeInOnce == Spec => []EditsOutliveSeeds
  <1>1. IInv => EditsOutliveSeeds
    BY DEF IInv
  <1> QED
    BY <1>1, AlwaysIInv, PTL

-----------------------------------------------------------------------------
(***************************************************************************)
(* What the menu shows.                                                    *)
(***************************************************************************)

\* The menu asks for 1 to 200 entries.
LEMMA LimitType ==
    ASSUME NEW n \in Int
    PROVE  Limit(n) \in Nat
  BY DEF Limit

\* A list shown by show_top_n is the ranking of the board it was made from.
LEMMA ShowsRanking ==
    ASSUME BoardOK, LongNames = {}, NEW n \in Inputs, show_top_n(n)
    PROVE  TopIsRanking'
  <1>1. PICK top \in lb_top_n(Limit(n)) : out' = [cmd |-> "top", n |-> n, list |-> top]
    BY DEF show_top_n
  <1> DEFINE k == IF Limit(n) < lb_count THEN Limit(n) ELSE lb_count
  <1>2. Limit(n) \in Nat /\ lb_count \in Nat
    BY InputsAssumption, LimitType, PeopleType
  <1>3. k \in Nat /\ k <= lb_count
    BY <1>2
  <1>4. PICK t : /\ IsRanking(t)
                 /\ Len(top) = k /\ DOMAIN top = 1..k
                 /\ \A i \in 1..k : top[i] = t[i]
    BY <1>2, TopIsBeginning
  <1> HIDE DEF k
  <1>5. \A i \in 1..k : i \in 1..lb_count
    BY <1>2, <1>3
  <1>6. ASSUME NEW i \in 1..k
        PROVE  /\ top[i].name \in People /\ top[i].wealth = board[top[i].name]
               /\ \A j \in 1..(i - 1) : Ahead(top[j].name, top[i].name)
    <2>1. i \in 1..lb_count /\ top[i] = t[i]
      BY <1>4, <1>5
    <2>2. ASSUME NEW j \in 1..(i - 1) PROVE Ahead(top[j].name, top[i].name)
      <3>1. j \in 1..k /\ j < i
        BY <1>3
      <3> QED
        BY <3>1, <2>1, <1>4, <1>5 DEF IsRanking
    <2> QED
      BY <2>1, <2>2, <1>4 DEF IsRanking
  <1>7. ASSUME NEW p \in People, p \notin {top[i].name : i \in 1..k}, NEW j \in 1..k
        PROVE  Ahead(top[j].name, p)
    <2>1. PICK i \in 1..lb_count : t[i].name = p
      BY <1>4 DEF IsRanking
    <2>2. i \notin 1..k
      BY <1>4, <1>7, <2>1
    <2>3. j < i /\ j \in 1..lb_count
      BY <2>1, <2>2, <1>2, <1>3
    <2> QED
      BY <2>1, <2>3, <1>4 DEF IsRanking
  <1>8. board' = board
    BY DEF show_top_n
  <1>9. /\ out'.list = top /\ out'.n = n /\ People' = People /\ lb_count' = lb_count
        /\ Shown' = {top[i].name : i \in 1..k}
        /\ \A p, q : Ahead(p, q)' <=> Ahead(p, q)
    BY <1>1, <1>4, <1>8 DEF People, lb_count, Shown, Ahead
  <1> QED
    BY <1>4, <1>6, <1>7, <1>8, <1>9 DEF TopIsRanking, k

\* A rank shown by lookup_person counts those ahead.
LEMMA ShowsRank ==
    ASSUME BoardOK, LongNames = {}, NEW p \in Names, lookup_person(p)
    PROVE  RankCountsThoseAhead'
  <1>1. CASE board[p] = NoWealth
    BY <1>1 DEF lookup_person, RankCountsThoseAhead
  <1>2. CASE board[p] # NoWealth
    <2>1. PICK r \in lb_rank(p) :
              out' = [cmd |-> "person", name |-> p, wealth |-> board[p], rank |-> r]
      BY <1>2 DEF lookup_person
    <2>2. p \in People
      BY <1>2 DEF People
    <2>3. r = 1 + Cardinality({q \in People : Ahead(q, p)})
      BY <2>1, <2>2, RankIsPlace
    <2>4. board' = board
      BY DEF lookup_person
    <2>5. {q \in People : Ahead(q, p)}' = {q \in People : Ahead(q, p)}
      BY <2>4 DEF People, Ahead
    <2> QED
      BY <2>1, <2>3, <2>4, <2>5 DEF RankCountsThoseAhead
  <1> QED
    BY <1>1, <1>2

\* Every step leaves list and rank right: the other commands show neither.
LEMMA NextShown ==
    ASSUME LongNames = {}, IInv, TopIsRanking, RankCountsThoseAhead, [Next]_vars
    PROVE  TopIsRanking' /\ RankCountsThoseAhead'
  <1>1. BoardOK
    BY BoardIsOK
  <1>2. CASE lb_create
    BY <1>2 DEF lb_create, NoOut, TopIsRanking, RankCountsThoseAhead
  <1>3. CASE Exit
    BY <1>3 DEF Exit, NoOut, TopIsRanking, RankCountsThoseAhead
  <1>4. ASSUME NEW n \in Inputs, show_top_n(n) PROVE TopIsRanking' /\ RankCountsThoseAhead'
    <2>1. out'.cmd = "top"
      BY <1>4 DEF show_top_n
    <2> QED
      BY <1>1, <1>4, <2>1, ShowsRanking DEF RankCountsThoseAhead
  <1>5. ASSUME NEW p \in Names, lookup_person(p)
        PROVE  TopIsRanking' /\ RankCountsThoseAhead'
    <2>1. out'.cmd \in {"unknown", "person"}
      BY <1>5 DEF lookup_person
    <2> QED
      BY <1>1, <1>5, <2>1, ShowsRank DEF TopIsRanking
  <1>6. ASSUME NEW p \in Names, delete_person(p)
        PROVE  TopIsRanking' /\ RankCountsThoseAhead'
    <2>1. out'.cmd \in {"unknown", "deleted"}
      BY <1>6 DEF delete_person
    <2> QED
      BY <2>1 DEF TopIsRanking, RankCountsThoseAhead
  <1>7. ASSUME NEW p \in Names, NEW w \in Inputs, add_or_update(p, w)
        PROVE  TopIsRanking' /\ RankCountsThoseAhead'
    BY <1>7 DEF add_or_update, NoOut, TopIsRanking, RankCountsThoseAhead
  <1>8. CASE UNCHANGED vars
    BY <1>8 DEF vars, TopIsRanking, RankCountsThoseAhead, People, lb_count, Shown, Ahead
  <1> QED
    BY <1>2, <1>3, <1>4, <1>5, <1>6, <1>7, <1>8 DEF Next

\* Nothing has been shown in the beginning.
LEMMA InitShown ==
    ASSUME Init
    PROVE  TopIsRanking /\ RankCountsThoseAhead
  BY DEF Init, NoOut, TopIsRanking, RankCountsThoseAhead

\* As long as no name is too long for an entry, the top-n list is the beginning of the
\* ranking, and complete: collecting the records in the order of the tree and sorting them
\* with another comparison leaves nobody out and puts nobody in a wrong place.
THEOREM TopIsBeginningOfRanking ==
    ASSUME LongNames = {}
    PROVE  Spec => []TopIsRanking
  <1> DEFINE J == IInv /\ TopIsRanking /\ RankCountsThoseAhead
  <1>1. Init => J
    BY InitIInv, InitShown
  <1>2. J /\ [Next]_vars => J'
    BY NextIInv, NextShown
  <1>3. J => TopIsRanking
    OBVIOUS
  <1> HIDE DEF J
  <1> QED
    BY <1>1, <1>2, <1>3, PTL DEF Spec

\* As long as no name is too long for an entry, the rank of a person is one more than the
\* number of the people ahead.
THEOREM RankIsNumberAhead ==
    ASSUME LongNames = {}
    PROVE  Spec => []RankCountsThoseAhead
  <1> DEFINE J == IInv /\ TopIsRanking /\ RankCountsThoseAhead
  <1>1. Init => J
    BY InitIInv, InitShown
  <1>2. J /\ [Next]_vars => J'
    BY NextIInv, NextShown
  <1>3. J => RankCountsThoseAhead
    OBVIOUS
  <1> HIDE DEF J
  <1> QED
    BY <1>1, <1>2, <1>3, PTL DEF Spec
=============================================================================
