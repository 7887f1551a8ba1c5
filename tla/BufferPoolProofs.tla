-------------------------- MODULE BufferPoolProofs --------------------------
(***************************************************************************)
(* Proofs about BufferPool, for every capacity, table size of at least     *)
(* twice the capacity, hash multiplier, stamp width and set of page        *)
(* contents.  The inductive invariant IInv is the conjunction of TypeOK,   *)
(* TableMatchesFrames and CleanIsSaved: a hit is right because the table   *)
(* matches the frames, a page is still found after an insertion because it *)
(* was cached once and the table is never full, and an evicted page is not *)
(* lost because a clean frame equals the storage layer.                    *)
(***************************************************************************)
EXTENDS BufferPool, TLAPS, FiniteSetTheorems, SequenceTheorems, WellFoundedInduction

\* A non-empty set of naturals has a least element: the first probe that succeeds.
LEMMA LeastElement ==
    ASSUME NEW S, S \subseteq Nat, S # {}
    PROVE  \E x \in S : \A y \in S : x <= y
<1>1. \E x \in S : \A y \in S : ~(<<y, x>> \in OpToRel(<, Nat))
  BY NatLessThanWellFounded, WFMin
<1>2. \A x, y \in Nat : ~(<<y, x>> \in OpToRel(<, Nat)) => x <= y
  BY DEF OpToRel
<1>. QED BY <1>1, <1>2

\* A remainder modulo the table size is a slot.
LEMMA ModType ==
    ASSUME NEW a \in Nat
    PROVE  a % HashSize \in Slots
BY CapacityAssumption, HashAssumption DEF Slots

\* bp_hash answers a slot.
LEMMA HashType ==
    ASSUME NEW pid \in Nat
    PROVE  bp_hash(pid) \in Slots
<1>1. pid * HashMult \in Nat
  BY HashAssumption
<1>. QED BY <1>1, ModType DEF bp_hash

\* Every probe of ht_lookup, ht_insert and ht_remove is a slot.
LEMMA ProbeType ==
    ASSUME NEW pid \in Nat, NEW i \in Nat
    PROVE  Probe(pid, i) \in Slots
<1>1. bp_hash(pid) + i \in Nat
  BY HashType, CapacityAssumption, HashAssumption DEF Slots
<1>. QED BY <1>1, ModType DEF Probe

\* Linear probing visits every slot within one round of the table.
LEMMA ProbeCovers ==
    ASSUME NEW pid \in Nat, NEW s \in Slots
    PROVE  \E i \in Slots : Probe(pid, i) = s
<1>. DEFINE h == bp_hash(pid)
<1>1. h \in Slots
  BY HashType
<1>2. CASE s >= h
  <2>1. s - h \in Slots /\ h + (s - h) = s
    BY <1>1, <1>2, CapacityAssumption, HashAssumption DEF Slots
  <2>2. s % HashSize = s
    BY CapacityAssumption, HashAssumption DEF Slots
  <2>. QED BY <2>1, <2>2 DEF Probe
<1>3. CASE s < h
  <2>1. s - h + HashSize \in Slots /\ h + (s - h + HashSize) = s + HashSize
    BY <1>1, <1>3, CapacityAssumption, HashAssumption DEF Slots
  <2>2. (s + HashSize) % HashSize = s
    BY CapacityAssumption, HashAssumption DEF Slots
  <2>. QED BY <2>1, <2>2 DEF Probe
<1>. QED BY <1>1, <1>2, <1>3, HashAssumption, CapacityAssumption DEF Slots

-----------------------------------------------------------------------------
\* The types of frames and hash table in TypeOK.
FrameType ==
    [Frames -> [page : Data, pid : Nat, used : BOOLEAN, dirty : BOOLEAN,
                access_stamp : 0..(StampMod - 1)]]
TableType ==
    [Slots -> [state : {"BP_EMPTY", "BP_TOMB", "BP_OCCUPIED"}, pid : Nat, frame_idx : Frames]]

Occupied(ht, s) == ht[s].state = "BP_OCCUPIED"

\* TableMatchesFrames for a given table and given frames.
Found(ht, fr) ==
    \A f \in Frames : fr[f].used =>
        \E i \in Slots : FoundAt(ht, fr[f].pid, i) /\ ht[Probe(fr[f].pid, i)].frame_idx = f

Backed(ht, fr) ==
    \A s \in Slots : Occupied(ht, s) =>
        fr[ht[s].frame_idx].used /\ fr[ht[s].frame_idx].pid = ht[s].pid

Injective(ht) ==
    \A s, t \in Slots :
        Occupied(ht, s) /\ Occupied(ht, t) /\ ht[s].frame_idx = ht[t].frame_idx => s = t

Once(fr) ==
    \A f, g \in Frames : fr[f].used /\ fr[g].used /\ fr[f].pid = fr[g].pid => f = g

Match(ht, fr) == Found(ht, fr) /\ Backed(ht, fr) /\ Injective(ht) /\ Once(fr)

\* Match on the current table and frames is TableMatchesFrames.
LEMMA MatchIsTable == TableMatchesFrames <=> Match(hash_table, frames)
BY DEF TableMatchesFrames, EveryFrameFound, EverySlotUsed, OneFramePerPage,
       Match, Found, Backed, Injective, Once, Occupied

\* Cached(fr, pid): some used frame holds the page.
Cached(fr, pid) == \E f \in Frames : fr[f].used /\ fr[f].pid = pid

\* The search of ht_lookup and ht_remove succeeds exactly for cached pages, and ends at a
\* slot that names the page and its frame.
LEMMA LookupFinds ==
    ASSUME NEW ht \in TableType, NEW fr \in FrameType, NEW pid \in Nat, Match(ht, fr)
    PROVE  /\ InTable(ht, pid) <=> Cached(fr, pid)
           /\ InTable(ht, pid) =>
                /\ FoundSlot(ht, pid) \in Slots
                /\ Occupied(ht, FoundSlot(ht, pid))
                /\ ht[FoundSlot(ht, pid)].pid = pid
                /\ ht[FoundSlot(ht, pid)].frame_idx \in Frames
                /\ fr[ht[FoundSlot(ht, pid)].frame_idx].used
                /\ fr[ht[FoundSlot(ht, pid)].frame_idx].pid = pid
<1>1. ASSUME InTable(ht, pid)
      PROVE  /\ FoundSlot(ht, pid) \in Slots
             /\ Occupied(ht, FoundSlot(ht, pid))
             /\ ht[FoundSlot(ht, pid)].pid = pid
  <2>. DEFINE i == CHOOSE j \in Slots : FoundAt(ht, pid, j)
  <2>1. i \in Slots /\ FoundAt(ht, pid, i)
    BY <1>1 DEF InTable
  <2>2. Probe(pid, i) \in Slots
    BY <2>1, ProbeType DEF Slots
  <2>3. FoundSlot(ht, pid) = Probe(pid, i)
    BY DEF FoundSlot
  <2>. HIDE DEF i
  <2>. QED BY <2>1, <2>2, <2>3 DEF FoundAt, Hit, Occupied
<1>2. ASSUME InTable(ht, pid)
      PROVE  /\ ht[FoundSlot(ht, pid)].frame_idx \in Frames
             /\ fr[ht[FoundSlot(ht, pid)].frame_idx].used
             /\ fr[ht[FoundSlot(ht, pid)].frame_idx].pid = pid
  BY <1>1, <1>2 DEF Match, Backed, TableType
<1>3. Cached(fr, pid) => InTable(ht, pid)
  BY DEF Cached, Match, Found, InTable
<1>. QED BY <1>1, <1>2, <1>3 DEF Cached

\* Removing the page of a used frame: other pages are still found, across the tombstone.
LEMMA RemoveMatches ==
    ASSUME NEW ht \in TableType, NEW fr \in FrameType, NEW fr2 \in FrameType,
           NEW f \in Frames, Match(ht, fr), fr[f].used, ~fr2[f].used,
           \A g \in Frames \ {f} : fr2[g].used = fr[g].used /\ fr2[g].pid = fr[g].pid
    PROVE  ht_remove(ht, fr[f].pid) \in TableType /\ Match(ht_remove(ht, fr[f].pid), fr2)
<1>. DEFINE p == fr[f].pid
            s == FoundSlot(ht, p)
            h2 == ht_remove(ht, p)
<1>1. p \in Nat /\ Cached(fr, p)
  BY DEF FrameType, Cached
<1>2. /\ InTable(ht, p)
      /\ s \in Slots /\ Occupied(ht, s) /\ ht[s].pid = p /\ ht[s].frame_idx = f
  BY <1>1, LookupFinds DEF Match, Once
<1>. HIDE DEF s
<1>3. h2 = [ht EXCEPT ![s].state = "BP_TOMB"]
  BY <1>2 DEF ht_remove, s
<1>. HIDE DEF h2
<1>4. /\ h2 \in TableType
      /\ h2[s].state = "BP_TOMB"
      /\ \A t \in Slots \ {s} : h2[t] = ht[t]
      /\ \A t \in Slots : h2[t].frame_idx = ht[t].frame_idx /\ h2[t].pid = ht[t].pid
  BY <1>2, <1>3 DEF TableType
<1>5. Backed(h2, fr2)
  <2>. SUFFICES ASSUME NEW t \in Slots, Occupied(h2, t)
                PROVE  fr2[h2[t].frame_idx].used /\ fr2[h2[t].frame_idx].pid = h2[t].pid
    BY DEF Backed
  <2>1. t # s /\ Occupied(ht, t) /\ h2[t] = ht[t]
    BY <1>4 DEF Occupied
  <2>2. ht[t].frame_idx \in Frames \ {f}
    BY <2>1, <1>2 DEF Match, Injective, TableType
  <2>. QED BY <2>1, <2>2 DEF Match, Backed
<1>6. Injective(h2)
  BY <1>4 DEF Match, Injective, Occupied
<1>7. Once(fr2)
  BY DEF Match, Once
<1>8. Found(h2, fr2)
  <2>. SUFFICES ASSUME NEW g \in Frames, fr2[g].used
                PROVE  \E i \in Slots : /\ FoundAt(h2, fr2[g].pid, i)
                                        /\ h2[Probe(fr2[g].pid, i)].frame_idx = g
    BY DEF Found
  <2>1. g # f /\ fr[g].used /\ fr2[g].pid = fr[g].pid
    OBVIOUS
  <2>. DEFINE q == fr[g].pid
  <2>2. q \in Nat /\ q # p
    BY <2>1 DEF FrameType, Match, Once
  <2>3. PICK i \in Slots : FoundAt(ht, q, i) /\ ht[Probe(q, i)].frame_idx = g
    BY <2>1 DEF Match, Found
  <2>. HIDE DEF q, p
  <2>4. \A j \in 0..i : Probe(q, j) \in Slots
    BY <2>2, ProbeType
  <2>5. Probe(q, i) # s /\ i \in 0..i
    BY <2>1, <2>3, <1>2 DEF Slots
  <2>6. Hit(h2, q, i)
    BY <2>3, <2>4, <2>5, <1>4 DEF FoundAt, Hit
  <2>7. ASSUME NEW j \in 0..(i - 1)
        PROVE  h2[Probe(q, j)].state # "BP_EMPTY" /\ ~Hit(h2, q, j)
    <3>1. Probe(q, j) \in Slots
      BY <2>4 DEF Slots
    <3>2. ht[Probe(q, j)].state # "BP_EMPTY" /\ ~Hit(ht, q, j)
      BY <2>3 DEF FoundAt
    <3>. QED BY <3>1, <3>2, <1>4, <1>2, <2>2 DEF Hit
  <2>8. h2[Probe(q, i)].frame_idx = g
    BY <2>3, <2>4, <2>5, <1>4
  <2>. QED BY <2>1, <2>6, <2>7, <2>8 DEF FoundAt, q
<1>. QED BY <1>4, <1>5, <1>6, <1>7, <1>8 DEF Match, h2

\* The comment at the end of ht_insert, "the table is full: does not happen": with a
\* frame unused, the occupied slots cannot fill a table larger than the pool.
LEMMA TableNeverFull ==
    ASSUME NEW ht \in TableType, NEW fr \in FrameType, NEW pid \in Nat, Match(ht, fr)
    PROVE  \E i \in Slots : FreeAt(ht, pid, i)
<1>1. \E s \in Slots : ~Occupied(ht, s)
  <2>. SUFFICES ASSUME \A s \in Slots : Occupied(ht, s) PROVE FALSE
    OBVIOUS
  <2>. DEFINE F == [s \in Slots |-> ht[s].frame_idx]
  <2>1. F \in [Slots -> Frames]
    BY DEF TableType
  <2>2. /\ IsFiniteSet(Slots) /\ Cardinality(Slots) = HashSize
        /\ IsFiniteSet(Frames) /\ Cardinality(Frames) = Capacity
    <3>1. /\ 0 \in Int /\ HashSize - 1 \in Int /\ Capacity - 1 \in Int
          /\ ~(0 > HashSize - 1) /\ ~(0 > Capacity - 1)
          /\ (HashSize - 1) - 0 + 1 = HashSize /\ (Capacity - 1) - 0 + 1 = Capacity
      BY HashAssumption, CapacityAssumption
    <3>. QED BY <3>1, FS_Interval DEF Slots, Frames
  <2>3. Cardinality(Frames) < Cardinality(Slots)
    BY <2>2, HashAssumption, CapacityAssumption
  <2>. HIDE DEF F
  <2>4. \E s, t \in Slots : s # t /\ F[s] = F[t]
    BY <2>1, <2>2, <2>3, FS_PigeonHole
  <2>. QED BY <2>4 DEF F, Match, Injective
<1>2. PICK s \in Slots : ~Occupied(ht, s)
  BY <1>1
<1>. DEFINE Open == {i \in Slots : ~Occupied(ht, Probe(pid, i))}
<1>3. Open \subseteq Nat /\ Open # {}
  <2>1. PICK i \in Slots : Probe(pid, i) = s
    BY ProbeCovers
  <2>2. i \in Open
    BY <1>2, <2>1
  <2>. QED BY <2>2 DEF Slots
<1>4. PICK i \in Open : \A j \in Open : i <= j
  BY <1>3, LeastElement
<1>5. i \in Slots /\ ht[Probe(pid, i)].state # "BP_OCCUPIED"
  BY <1>4 DEF Occupied
<1>6. ASSUME NEW j \in 0..(i - 1)
      PROVE  ht[Probe(pid, j)].state = "BP_OCCUPIED"
  <2>1. j \in Slots /\ j < i
    BY <1>5, HashAssumption DEF Slots
  <2>2. j \notin Open
    BY <1>4, <2>1, <1>5 DEF Slots
  <2>. QED BY <2>1, <2>2 DEF Occupied
<1>. QED BY <1>5, <1>6 DEF FreeAt

\* Inserting a page that is not cached, for a frame that is not used.
LEMMA InsertMatches ==
    ASSUME NEW ht \in TableType, NEW fr \in FrameType, NEW fr2 \in FrameType,
           NEW f \in Frames, NEW p \in Nat, Match(ht, fr), ~fr[f].used, ~Cached(fr, p),
           fr2[f].used, fr2[f].pid = p,
           \A g \in Frames \ {f} : fr2[g].used = fr[g].used /\ fr2[g].pid = fr[g].pid
    PROVE  ht_insert(ht, p, f) \in TableType /\ Match(ht_insert(ht, p, f), fr2)
<1>. DEFINE k == CHOOSE i \in Slots : FreeAt(ht, p, i)
            s == Probe(p, k)
            h2 == ht_insert(ht, p, f)
<1>1. \E i \in Slots : FreeAt(ht, p, i)
  BY TableNeverFull
<1>2. k \in Slots /\ FreeAt(ht, p, k)
  BY <1>1
<1>3. h2 = [ht EXCEPT ![s] = [state |-> "BP_OCCUPIED", pid |-> p, frame_idx |-> f]]
  BY <1>1 DEF ht_insert
<1>. HIDE DEF k
<1>4. s \in Slots /\ ~Occupied(ht, s)
  BY <1>2, ProbeType DEF FreeAt, Occupied, Slots
<1>. HIDE DEF h2
<1>5. /\ h2 \in TableType
      /\ h2[s] = [state |-> "BP_OCCUPIED", pid |-> p, frame_idx |-> f]
      /\ \A t \in Slots \ {s} : h2[t] = ht[t]
  BY <1>3, <1>4 DEF TableType
<1>6. \A t \in Slots : Occupied(ht, t) => ht[t].frame_idx \in Frames \ {f} /\ ht[t].pid # p
  <2>. SUFFICES ASSUME NEW t \in Slots, Occupied(ht, t)
                PROVE  ht[t].frame_idx \in Frames \ {f} /\ ht[t].pid # p
    OBVIOUS
  <2>1. /\ ht[t].frame_idx \in Frames
        /\ fr[ht[t].frame_idx].used /\ fr[ht[t].frame_idx].pid = ht[t].pid
    BY DEF Match, Backed, TableType
  <2>. QED BY <2>1 DEF Cached
<1>7. Backed(h2, fr2)
  <2>. SUFFICES ASSUME NEW t \in Slots, Occupied(h2, t)
                PROVE  fr2[h2[t].frame_idx].used /\ fr2[h2[t].frame_idx].pid = h2[t].pid
    BY DEF Backed
  <2>1. CASE t = s
    BY <2>1, <1>5
  <2>2. CASE t # s
    <3>1. h2[t] = ht[t] /\ Occupied(ht, t)
      BY <2>2, <1>5 DEF Occupied
    <3>. QED BY <3>1, <1>6 DEF Match, Backed
  <2>. QED BY <2>1, <2>2
<1>8. Injective(h2)
  <2>. SUFFICES ASSUME NEW t \in Slots, NEW u \in Slots, Occupied(h2, t), Occupied(h2, u),
                       h2[t].frame_idx = h2[u].frame_idx, t # u
                PROVE  FALSE
    BY DEF Injective
  <2>1. \A x \in {t, u} : x # s => h2[x] = ht[x] /\ Occupied(ht, x) /\ ht[x].frame_idx # f
    BY <1>5, <1>6 DEF Occupied
  <2>. QED BY <2>1, <1>5 DEF Match, Injective
<1>9. Once(fr2)
  BY DEF Match, Once, Cached
<1>10. Found(h2, fr2)
  <2>. SUFFICES ASSUME NEW g \in Frames, fr2[g].used
                PROVE  \E i \in Slots : /\ FoundAt(h2, fr2[g].pid, i)
                                        /\ h2[Probe(fr2[g].pid, i)].frame_idx = g
    BY DEF Found
  <2>1. CASE g = f
    <3>1. Hit(h2, p, k) /\ h2[Probe(p, k)].frame_idx = f
      BY <1>5 DEF Hit
    <3>2. ASSUME NEW j \in 0..(k - 1)
          PROVE  h2[Probe(p, j)].state # "BP_EMPTY" /\ ~Hit(h2, p, j)
      <4>1. ht[Probe(p, j)].state = "BP_OCCUPIED" /\ Probe(p, j) \in Slots
        <5>1. j \in Nat
          BY <1>2 DEF Slots
        <5>. QED BY <5>1, <1>2, ProbeType DEF FreeAt
      <4>2. Probe(p, j) # s
        BY <4>1, <1>4 DEF Occupied
      <4>3. ht[Probe(p, j)].pid # p
        BY <4>1, <1>6 DEF Occupied
      <4>. QED BY <4>1, <4>2, <4>3, <1>5 DEF Hit
    <3>. QED BY <2>1, <3>1, <3>2, <1>2 DEF FoundAt
  <2>2. CASE g # f
    <3>. DEFINE q == fr[g].pid
    <3>1. fr[g].used /\ fr2[g].pid = q
      BY <2>2
    <3>2. q \in Nat /\ q # p
      BY <3>1 DEF FrameType, Cached
    <3>3. PICK i \in Slots : FoundAt(ht, q, i) /\ ht[Probe(q, i)].frame_idx = g
      BY <3>1 DEF Match, Found
    <3>. HIDE DEF q
    <3>4. \A j \in 0..i : Probe(q, j) \in Slots
      BY <3>2, ProbeType
    <3>5. Probe(q, i) # s /\ Probe(q, i) \in Slots
      BY <3>3, <3>4, <1>4 DEF FoundAt, Hit, Occupied, Slots
    <3>6. Hit(h2, q, i) /\ h2[Probe(q, i)].frame_idx = g
      BY <3>3, <3>5, <1>5 DEF FoundAt, Hit
    <3>7. ASSUME NEW j \in 0..(i - 1)
          PROVE  h2[Probe(q, j)].state # "BP_EMPTY" /\ ~Hit(h2, q, j)
      <4>1. Probe(q, j) \in Slots
        BY <3>4 DEF Slots
      <4>2. ht[Probe(q, j)].state # "BP_EMPTY" /\ ~Hit(ht, q, j)
        BY <3>3 DEF FoundAt
      <4>. QED BY <4>1, <4>2, <1>5, <3>2 DEF Hit
    <3>. QED BY <3>1, <3>6, <3>7 DEF FoundAt
  <2>. QED BY <2>1, <2>2
<1>. QED BY <1>5, <1>7, <1>8, <1>9, <1>10 DEF Match, h2

-----------------------------------------------------------------------------
(***************************************************************************)
(* The invariant.                                                          *)
(***************************************************************************)
IInv == TypeOK /\ TableMatchesFrames /\ CleanIsSaved

\* The parts of TypeOK about frames and hash table, by name.
LEMMA TypeParts ==
    ASSUME TypeOK
    PROVE  frames \in FrameType /\ hash_table \in TableType
BY DEF TypeOK, FrameType, TableType

\* ht_lookup answers a frame exactly for the cached pages, and the right one.
LEMMA LookupIsRight ==
    ASSUME TypeOK, TableMatchesFrames, NEW pid \in Nat
    PROVE  /\ ht_lookup(pid) >= 0 <=> Cached(frames, pid)
           /\ ht_lookup(pid) < 0 <=> ~Cached(frames, pid)
           /\ ht_lookup(pid) >= 0 =>
                /\ ht_lookup(pid) \in Frames
                /\ frames[ht_lookup(pid)].used
                /\ frames[ht_lookup(pid)].pid = pid
<1>1. Match(hash_table, frames)
  BY MatchIsTable
<1>2. CASE InTable(hash_table, pid)
  <2>1. ht_lookup(pid) = hash_table[FoundSlot(hash_table, pid)].frame_idx
    BY <1>2 DEF ht_lookup
  <2>2. /\ Cached(frames, pid)
        /\ ht_lookup(pid) \in Frames
        /\ frames[ht_lookup(pid)].used
        /\ frames[ht_lookup(pid)].pid = pid
    BY <1>1, <1>2, <2>1, LookupFinds, TypeParts
  <2>3. ht_lookup(pid) >= 0 /\ ~(ht_lookup(pid) < 0)
    BY <2>2 DEF Frames
  <2>. QED BY <2>2, <2>3
<1>3. CASE ~InTable(hash_table, pid)
  <2>1. ht_lookup(pid) = -1
    BY <1>3 DEF ht_lookup
  <2>2. ~Cached(frames, pid)
    BY <1>1, <1>3, LookupFinds, TypeParts
  <2>. QED BY <2>1, <2>2
<1>. QED BY <1>2, <1>3

\* evict_one leaves a pool that is in order, with the chosen frame unused, and
\* leaves alone what the storage layer holds of the other cached pages.
LEMMA EvictionIsSafe ==
    ASSUME IInv, NEW f \in Frames, NEW d \in EvictedDisks(f)
    PROVE  /\ EvictedFrames(f) \in FrameType
           /\ ~EvictedFrames(f)[f].used
           /\ \A g \in Frames \ {f} : EvictedFrames(f)[g] = frames[g]
           /\ EvictedTable(f) \in TableType
           /\ Match(EvictedTable(f), EvictedFrames(f))
           /\ d \in [0..(num_pages - 1) -> Data]
           /\ \A g \in Frames \ {f} : frames[g].used => d[frames[g].pid] = disk[frames[g].pid]
<1>1. Match(hash_table, frames) /\ frames \in FrameType /\ hash_table \in TableType
  BY MatchIsTable, TypeParts DEF IInv
<1>2. /\ EvictedFrames(f) \in FrameType
      /\ ~EvictedFrames(f)[f].used
      /\ \A g \in Frames \ {f} : EvictedFrames(f)[g] = frames[g]
  <2>1. CASE ~frames[f].used
    BY <2>1, <1>1 DEF EvictedFrames
  <2>2. CASE frames[f].used
    <3>1. EvictedFrames(f) = [frames EXCEPT ![f] =
                                 Frame(frames[f].page, frames[f].pid, FALSE, FALSE, 0)]
      BY <2>2 DEF EvictedFrames
    <3>2. 0 \in 0..(StampMod - 1)
      BY StampAssumption
    <3>. QED BY <3>1, <3>2, <1>1 DEF FrameType, Frame
  <2>. QED BY <2>1, <2>2
<1>3. EvictedTable(f) \in TableType /\ Match(EvictedTable(f), EvictedFrames(f))
  <2>1. CASE ~frames[f].used
    BY <2>1, <1>1 DEF EvictedFrames, EvictedTable
  <2>2. CASE frames[f].used
    BY <2>2, <1>1, <1>2, RemoveMatches DEF EvictedTable
  <2>. QED BY <2>1, <2>2
<1>4. /\ d \in [0..(num_pages - 1) -> Data]
      /\ \A g \in Frames \ {f} : frames[g].used => d[frames[g].pid] = disk[frames[g].pid]
  <2>1. d = disk \/ (frames[f].used /\ d = [disk EXCEPT ![frames[f].pid] = frames[f].page])
    BY DEF EvictedDisks, SavedDisk
  <2>2. \A g \in Frames \ {f} : frames[f].used /\ frames[g].used => frames[g].pid # frames[f].pid
    BY <1>1 DEF Match, Once
  <2>3. disk \in [0..(num_pages - 1) -> Data] /\ frames[f].page \in Data
    BY <1>1 DEF IInv, TypeOK, FrameType
  <2>4. \A g \in Frames : frames[g].used => frames[g].pid \in 0..(num_pages - 1)
    BY <1>1 DEF IInv, TypeOK, FrameType
  <2>. QED BY <2>1, <2>2, <2>3, <2>4
<1>. QED BY <1>2, <1>3, <1>4

\* access_counter++ stays below its wrap-around.
LEMMA StampType ==
    ASSUME TypeOK
    PROVE  NextStamp \in 0..(StampMod - 1)
<1>1. access_counter + 1 \in Nat
  BY StampAssumption DEF TypeOK
<1>2. \A a \in Nat : a % StampMod \in 0..(StampMod - 1)
  BY StampAssumption
<1>. QED BY <1>1, <1>2 DEF NextStamp

\* A step that keeps the table and keeps page id and use of every frame.
LEMMA SameFramesMatch ==
    ASSUME NEW ht, NEW fr, NEW fr2,
           \A f \in Frames : fr2[f].used = fr[f].used /\ fr2[f].pid = fr[f].pid,
           ht \in TableType, Match(ht, fr)
    PROVE  Match(ht, fr2)
<1>1. Found(ht, fr2)
  BY DEF Match, Found
<1>2. Backed(ht, fr2)
  BY DEF Match, Backed, TableType
<1>3. Once(fr2)
  BY DEF Match, Once
<1>. QED BY <1>1, <1>2, <1>3 DEF Match

\* bp_create: nothing cached, no slot occupied.
LEMMA EmptyPool ==
    /\ [f \in Frames |-> FreeFrame] \in FrameType
    /\ [s \in Slots |-> EmptySlot] \in TableType
    /\ Match([s \in Slots |-> EmptySlot], [f \in Frames |-> FreeFrame])
<1>1. 0 \in 0..(StampMod - 1) /\ 0 \in Frames
  BY StampAssumption, CapacityAssumption DEF Frames
<1>2. /\ [f \in Frames |-> FreeFrame] \in FrameType
      /\ [s \in Slots |-> EmptySlot] \in TableType
  BY <1>1, DataAssumption DEF FreeFrame, Frame, FrameType, EmptySlot, TableType
<1>3. Match([s \in Slots |-> EmptySlot], [f \in Frames |-> FreeFrame])
  BY DEF Match, Found, Backed, Injective, Once, Occupied, FreeFrame, Frame, EmptySlot
<1>. QED BY <1>2, <1>3

\* A pool fresh from bp_create satisfies the invariant.
LEMMA InitIInv == Init => IInv
<1>. SUFFICES ASSUME Init PROVE IInv
  OBVIOUS
<1>1. TypeOK
  <2>1. frames \in FrameType /\ hash_table \in TableType
    BY EmptyPool DEF Init
  <2>2. \A f \in Frames : ~frames[f].used
    BY DEF Init, FreeFrame, Frame
  <2>3. num_pages \in Nat /\ disk \in [0..(num_pages - 1) -> Data]
    BY DEF Init
  <2>4. access_counter \in 0..(StampMod - 1)
    BY StampAssumption DEF Init
  <2>5. out \in [pid : Nat, status : {"none", "BTREE_OK", "BTREE_IO_ERROR"}, data : Data]
    BY DataAssumption DEF Init
  <2>. QED BY <2>1, <2>2, <2>3, <2>4, <2>5 DEF TypeOK, FrameType, TableType
<1>2. TableMatchesFrames
  BY EmptyPool, MatchIsTable DEF Init
<1>3. CleanIsSaved
  BY DEF Init, CleanIsSaved, FreeFrame, Frame
<1>. QED BY <1>1, <1>2, <1>3 DEF IInv

\* The parts of the invariant after a step, from the facts each step establishes.
LEMMA IInvFromParts ==
    ASSUME num_pages' \in Nat, disk' \in [0..(num_pages' - 1) -> Data],
           frames' \in FrameType, hash_table' \in TableType,
           access_counter' \in 0..(StampMod - 1),
           out' \in [pid : Nat, status : {"none", "BTREE_OK", "BTREE_IO_ERROR"}, data : Data],
           \A f \in Frames : frames'[f].used => frames'[f].pid < num_pages',
           Match(hash_table', frames'),
           \A f \in Frames : frames'[f].used /\ ~frames'[f].dirty
                => frames'[f].page = disk'[frames'[f].pid]
    PROVE  IInv'
<1>1. TypeOK'
  BY DEF TypeOK, FrameType, TableType
<1>2. TableMatchesFrames'
  BY DEF TableMatchesFrames, EveryFrameFound, EverySlotUsed, OneFramePerPage,
         Match, Found, Backed, Injective, Once, Occupied, FoundAt, Hit, Probe, bp_hash
<1>3. CleanIsSaved'
  BY DEF CleanIsSaved
<1>. QED BY <1>1, <1>2, <1>3 DEF IInv

\* A miss in bp_read or bp_write: a page that is not cached takes the frame evict_one
\* has freed.
LEMMA InstallKeepsIInv ==
    ASSUME IInv, NEW f \in Frames, NEW pid \in Nat, NEW dat \in Data, NEW dirty \in BOOLEAN,
           disk' \in EvictedDisks(f), Install(f, pid, dat, dirty),
           ~Cached(frames, pid), pid < num_pages, UNCHANGED num_pages,
           ~dirty => dat = disk'[pid],
           out' \in [pid : Nat, status : {"none", "BTREE_OK", "BTREE_IO_ERROR"}, data : Data]
    PROVE  IInv'
<1>. DEFINE ef == EvictedFrames(f)
            et == EvictedTable(f)
<1>1. /\ ef \in FrameType /\ ~ef[f].used
      /\ \A g \in Frames \ {f} : ef[g] = frames[g]
      /\ et \in TableType /\ Match(et, ef)
      /\ disk' \in [0..(num_pages - 1) -> Data]
      /\ \A g \in Frames \ {f} : frames[g].used => disk'[frames[g].pid] = disk[frames[g].pid]
  BY EvictionIsSafe
<1>2. ~Cached(ef, pid)
  BY <1>1 DEF Cached
<1>. HIDE DEF ef, et
<1>3. /\ frames' = [ef EXCEPT ![f] = Frame(dat, pid, TRUE, dirty, NextStamp)]
      /\ hash_table' = ht_insert(et, pid, f)
      /\ access_counter' = NextStamp
  BY DEF Install, Stamp, ef, et
<1>4. NextStamp \in 0..(StampMod - 1)
  BY StampType DEF IInv
<1>5. /\ frames' \in FrameType
      /\ frames'[f] = Frame(dat, pid, TRUE, dirty, NextStamp)
      /\ \A g \in Frames \ {f} : frames'[g] = ef[g]
  BY <1>1, <1>3, <1>4 DEF FrameType, Frame
<1>6. /\ frames'[f].used /\ frames'[f].pid = pid
      /\ frames'[f].page = dat /\ frames'[f].dirty = dirty
  BY <1>5 DEF Frame
<1>7. hash_table' \in TableType /\ Match(hash_table', frames')
  BY <1>1, <1>2, <1>3, <1>5, <1>6, InsertMatches
<1>8. num_pages \in Nat /\ \A g \in Frames : frames[g].used => frames[g].pid < num_pages
  BY DEF IInv, TypeOK
<1>9. \A g \in Frames : frames'[g].used => frames'[g].pid < num_pages'
  BY <1>1, <1>5, <1>6, <1>8
<1>10. \A g \in Frames : frames'[g].used /\ ~frames'[g].dirty
            => frames'[g].page = disk'[frames'[g].pid]
  <2>. SUFFICES ASSUME NEW g \in Frames, frames'[g].used, ~frames'[g].dirty
                PROVE  frames'[g].page = disk'[frames'[g].pid]
    OBVIOUS
  <2>1. CASE g = f
    BY <2>1, <1>6
  <2>2. CASE g # f
    <3>1. g \in Frames \ {f} /\ frames'[g] = frames[g]
      BY <2>2, <1>1, <1>5
    <3>2. frames[g].page = disk[frames[g].pid]
      BY <3>1 DEF IInv, CleanIsSaved
    <3>. QED BY <3>1, <3>2, <1>1
  <2>. QED BY <2>1, <2>2
<1>. QED BY <1>1, <1>3, <1>4, <1>5, <1>7, <1>8, <1>9, <1>10, IInvFromParts

\* bp_flush_all saves the pages of the dirty frames it gets to and nothing else.
LEMMA FlushSaves ==
    ASSUME IInv, NEW n \in Nat
    PROVE  /\ DiskAfterFlush(n) \in [0..(num_pages - 1) -> Data]
           /\ \A f \in DirtyBelow(n) : DiskAfterFlush(n)[frames[f].pid] = frames[f].page
           /\ \A pid \in 0..(num_pages - 1) :
                (\A f \in DirtyBelow(n) : frames[f].pid # pid) => DiskAfterFlush(n)[pid] = disk[pid]
<1>1. /\ frames \in FrameType /\ Once(frames) /\ disk \in [0..(num_pages - 1) -> Data]
      /\ \A f \in Frames : frames[f].used => frames[f].pid \in 0..(num_pages - 1)
  BY TypeParts, MatchIsTable DEF IInv, TypeOK, Match, FrameType
<1>. DEFINE pick(pid) == CHOOSE f \in DirtyBelow(n) : frames[f].pid = pid
<1>2. ASSUME NEW pid, \E f \in DirtyBelow(n) : frames[f].pid = pid
      PROVE  pick(pid) \in DirtyBelow(n) /\ frames[pick(pid)].pid = pid
  BY <1>2
<1>3. \A f \in DirtyBelow(n) : f \in Frames /\ frames[f].used /\ frames[f].page \in Data
  BY <1>1 DEF DirtyBelow, FrameType
<1>4. ASSUME NEW f \in DirtyBelow(n) PROVE pick(frames[f].pid) = f
  BY <1>1, <1>2, <1>3 DEF Once
<1>5. DiskAfterFlush(n) = [pid \in 0..(num_pages - 1) |->
                              IF \E f \in DirtyBelow(n) : frames[f].pid = pid
                              THEN frames[pick(pid)].page ELSE disk[pid]]
  BY <1>1 DEF DiskAfterFlush
<1>. HIDE DEF pick
<1>6. DiskAfterFlush(n) \in [0..(num_pages - 1) -> Data]
  BY <1>1, <1>2, <1>3, <1>5
<1>7. \A f \in DirtyBelow(n) : DiskAfterFlush(n)[frames[f].pid] = frames[f].page
  BY <1>1, <1>3, <1>4, <1>5
<1>8. \A pid \in 0..(num_pages - 1) :
        (\A f \in DirtyBelow(n) : frames[f].pid # pid) => DiskAfterFlush(n)[pid] = disk[pid]
  BY <1>5
<1>. QED BY <1>6, <1>7, <1>8

\* Every operation of the pool preserves the invariant.
LEMMA StepIInv == IInv /\ [Next]_vars => IInv'
<1>. SUFFICES ASSUME IInv, [Next]_vars PROVE IInv'
  OBVIOUS
<1>1. /\ frames \in FrameType /\ hash_table \in TableType /\ Match(hash_table, frames)
      /\ num_pages \in Nat /\ disk \in [0..(num_pages - 1) -> Data]
      /\ access_counter \in 0..(StampMod - 1)
      /\ out \in [pid : Nat, status : {"none", "BTREE_OK", "BTREE_IO_ERROR"}, data : Data]
      /\ \A f \in Frames : frames[f].used => frames[f].pid < num_pages
      /\ \A f \in Frames : frames[f].used /\ ~frames[f].dirty
            => frames[f].page = disk[frames[f].pid]
  BY TypeParts, MatchIsTable DEF IInv, TypeOK, CleanIsSaved
<1>2. NextStamp \in 0..(StampMod - 1)
  BY StampType DEF IInv
<1>3. ASSUME NEW pid \in PageIds, ReadHit(pid) PROVE IInv'
  <2>. DEFINE f == ht_lookup(pid)
  <2>1. pid \in Nat
    BY DataAssumption
  <2>2. f \in Frames
    BY <1>3, <2>1, LookupIsRight DEF IInv, ReadHit
  <2>3. /\ frames' = [frames EXCEPT ![f] = Frame(frames[f].page, frames[f].pid, frames[f].used,
                                                 frames[f].dirty, NextStamp)]
        /\ access_counter' = NextStamp
        /\ out' = [pid |-> pid, status |-> "BTREE_OK", data |-> frames[f].page]
        /\ UNCHANGED <<hash_table, disk, num_pages>>
    BY <1>3 DEF ReadHit, Stamp
  <2>. HIDE DEF f
  <2>4. /\ frames' \in FrameType
        /\ \A g \in Frames : /\ frames'[g].page = frames[g].page /\ frames'[g].pid = frames[g].pid
                             /\ frames'[g].used = frames[g].used
                             /\ frames'[g].dirty = frames[g].dirty
    BY <2>2, <2>3, <1>1, <1>2 DEF FrameType, Frame
  <2>5. Match(hash_table', frames')
    BY <2>3, <2>4, <1>1, SameFramesMatch
  <2>6. out' \in [pid : Nat, status : {"none", "BTREE_OK", "BTREE_IO_ERROR"}, data : Data]
    BY <2>1, <2>2, <2>3, <1>1 DEF FrameType
  <2>. QED BY <2>3, <2>4, <2>5, <2>6, <1>1, <1>2, IInvFromParts
<1>4. ASSUME NEW pid \in PageIds, ReadMiss(pid) PROVE IInv'
  <2>1. pid \in Nat
    BY DataAssumption
  <2>2. ~Cached(frames, pid)
    BY <1>4, <2>1, LookupIsRight DEF IInv, ReadMiss
  <2>3. PICK f \in Frames : /\ disk' \in EvictedDisks(f)
                            /\ Install(f, pid, disk'[pid], FALSE)
                            /\ out' = [pid |-> pid, status |-> "BTREE_OK", data |-> disk'[pid]]
    BY <1>4 DEF ReadMiss
  <2>4. pid < num_pages /\ UNCHANGED num_pages
    BY <1>4 DEF ReadMiss
  <2>5. disk'[pid] \in Data
    BY <2>1, <2>3, <2>4, <1>1, EvictionIsSafe
  <2>6. out' \in [pid : Nat, status : {"none", "BTREE_OK", "BTREE_IO_ERROR"}, data : Data]
    BY <2>1, <2>3, <2>5
  <2>. QED BY <2>1, <2>2, <2>3, <2>4, <2>5, <2>6, InstallKeepsIInv
<1>5. ASSUME NEW pid \in PageIds, ReadError(pid) PROVE IInv'
  <2>1. PICK f \in Frames : /\ disk' \in EvictedDisks(f)
                            /\ frames' = EvictedFrames(f)
                            /\ hash_table' = EvictedTable(f)
    BY <1>5 DEF ReadError
  <2>2. /\ out' = [pid |-> pid, status |-> "BTREE_IO_ERROR", data |-> InitData]
        /\ UNCHANGED <<access_counter, num_pages>>
    BY <1>5 DEF ReadError
  <2>3. /\ frames' \in FrameType /\ ~frames'[f].used
        /\ \A g \in Frames \ {f} : frames'[g] = frames[g]
        /\ hash_table' \in TableType /\ Match(hash_table', frames')
        /\ disk' \in [0..(num_pages - 1) -> Data]
        /\ \A g \in Frames \ {f} : frames[g].used => disk'[frames[g].pid] = disk[frames[g].pid]
    BY <2>1, EvictionIsSafe
  <2>4. out' \in [pid : Nat, status : {"none", "BTREE_OK", "BTREE_IO_ERROR"}, data : Data]
    BY <2>2, DataAssumption
  <2>5. ASSUME NEW g \in Frames, frames'[g].used
        PROVE  /\ frames'[g].pid < num_pages'
               /\ ~frames'[g].dirty => frames'[g].page = disk'[frames'[g].pid]
    <3>1. g \in Frames \ {f} /\ frames'[g] = frames[g] /\ frames[g].used
      BY <2>3, <2>5
    <3>. QED BY <3>1, <2>2, <2>3, <1>1
  <2>. QED BY <2>2, <2>3, <2>4, <2>5, <1>1, IInvFromParts
<1>6. ASSUME NEW pid \in PageIds, NEW d \in Data, WriteHit(pid, d) PROVE IInv'
  <2>. DEFINE f == ht_lookup(pid)
  <2>1. f \in Frames
    BY <1>6, LookupIsRight, DataAssumption DEF IInv, WriteHit
  <2>2. /\ frames' = [frames EXCEPT ![f] =
                        Frame(d, frames[f].pid, frames[f].used, TRUE, NextStamp)]
        /\ access_counter' = NextStamp
        /\ UNCHANGED <<hash_table, disk, num_pages, out>>
    BY <1>6 DEF WriteHit, Stamp
  <2>. HIDE DEF f
  <2>3. /\ frames' \in FrameType
        /\ \A g \in Frames : frames'[g].pid = frames[g].pid /\ frames'[g].used = frames[g].used
        /\ frames'[f].dirty
        /\ \A g \in Frames \ {f} : frames'[g] = frames[g]
    BY <2>1, <2>2, <1>1, <1>2 DEF FrameType, Frame
  <2>4. Match(hash_table', frames')
    <3>1. \A g \in Frames : frames'[g].used = frames[g].used /\ frames'[g].pid = frames[g].pid
      BY <2>3
    <3>2. Match(hash_table, frames')
      BY <3>1, <1>1, SameFramesMatch
    <3>. QED BY <3>2, <2>2
  <2>5. ASSUME NEW g \in Frames, frames'[g].used, ~frames'[g].dirty
        PROVE  frames'[g].page = disk'[frames'[g].pid]
    <3>1. g \in Frames \ {f} /\ frames'[g] = frames[g]
      BY <2>3, <2>5
    <3>. QED BY <3>1, <2>2, <2>5, <1>1
  <2>. QED BY <2>2, <2>3, <2>4, <2>5, <1>1, <1>2, IInvFromParts
<1>7. ASSUME NEW pid \in PageIds, NEW d \in Data, WriteMiss(pid, d) PROVE IInv'
  <2>1. pid \in Nat
    BY DataAssumption
  <2>2. ~Cached(frames, pid)
    BY <1>7, <2>1, LookupIsRight DEF IInv, WriteMiss
  <2>3. PICK f \in Frames : disk' \in EvictedDisks(f) /\ Install(f, pid, d, TRUE)
    BY <1>7 DEF WriteMiss
  <2>4. pid < num_pages /\ UNCHANGED <<num_pages, out>>
    BY <1>7 DEF WriteMiss
  <2>. QED BY <2>1, <2>2, <2>3, <2>4, <1>1, InstallKeepsIInv
<1>8. CASE Alloc
  <2>1. /\ num_pages' = num_pages + 1
        /\ disk' = [pid \in 0..num_pages |-> IF pid = num_pages THEN InitData ELSE disk[pid]]
        /\ UNCHANGED <<frames, hash_table, access_counter, out>>
    BY <1>8 DEF Alloc
  <2>2. num_pages' \in Nat /\ disk' \in [0..(num_pages' - 1) -> Data]
    BY <2>1, <1>1, DataAssumption
  <2>3. ASSUME NEW f \in Frames, frames'[f].used
        PROVE  /\ frames'[f].pid < num_pages'
               /\ disk'[frames[f].pid] = disk[frames[f].pid]
    <3>1. frames[f].pid \in Nat /\ frames[f].pid < num_pages
      BY <2>1, <2>3, <1>1 DEF FrameType
    <3>. QED BY <3>1, <2>1, <1>1
  <2>. QED BY <2>1, <2>2, <2>3, <1>1, IInvFromParts
<1>9. ASSUME NEW pid \in PageIds, Flush(pid) PROVE IInv'
  <2>. DEFINE f == ht_lookup(pid)
  <2>1. f \in Frames /\ frames[f].used
    BY <1>9, LookupIsRight, DataAssumption DEF IInv, Flush
  <2>2. /\ frames' = [frames EXCEPT ![f] = Frame(frames[f].page, frames[f].pid, frames[f].used,
                                                 FALSE, frames[f].access_stamp)]
        /\ disk' = SavedDisk(f)
        /\ UNCHANGED <<hash_table, access_counter, num_pages, out>>
    BY <1>9 DEF Flush
  <2>. HIDE DEF f
  <2>3. /\ frames' \in FrameType
        /\ \A g \in Frames : /\ frames'[g].pid = frames[g].pid /\ frames'[g].used = frames[g].used
                             /\ frames'[g].page = frames[g].page
        /\ \A g \in Frames \ {f} : frames'[g] = frames[g]
    BY <2>1, <2>2, <1>1 DEF FrameType, Frame
  <2>4. Match(hash_table', frames')
    BY <2>2, <2>3, <1>1, SameFramesMatch
  <2>5. disk' \in EvictedDisks(f)
    BY <2>2 DEF EvictedDisks
  <2>6. /\ disk' \in [0..(num_pages - 1) -> Data]
        /\ \A g \in Frames \ {f} : frames[g].used => disk'[frames[g].pid] = disk[frames[g].pid]
    BY <2>1, <2>5, EvictionIsSafe
  <2>7. disk'[frames[f].pid] = frames[f].page
    <3>1. frames[f].pid \in 0..(num_pages - 1)
      BY <2>1, <1>1 DEF FrameType
    <3>2. CASE frames[f].dirty
      BY <3>1, <3>2, <2>1, <2>2, <1>1 DEF SavedDisk
    <3>3. CASE ~frames[f].dirty
      BY <3>3, <2>1, <2>2, <1>1 DEF SavedDisk
    <3>. QED BY <3>2, <3>3
  <2>8. ASSUME NEW g \in Frames, frames'[g].used, ~frames'[g].dirty
        PROVE  frames'[g].page = disk'[frames'[g].pid]
    <3>1. CASE g = f
      BY <3>1, <2>3, <2>7
    <3>2. CASE g # f
      BY <3>2, <2>3, <2>6, <2>8, <1>1
    <3>. QED BY <3>1, <3>2
  <2>. QED BY <2>2, <2>3, <2>4, <2>6, <2>8, <1>1, IInvFromParts
<1>10. ASSUME NEW n \in 0..Capacity, FlushAll(n) PROVE IInv'
  <2>1. n \in Nat
    BY CapacityAssumption
  <2>2. /\ disk' = DiskAfterFlush(n)
        /\ frames' = [f \in Frames |->
                IF f \in DirtyBelow(n)
                THEN Frame(frames[f].page, frames[f].pid, TRUE, FALSE, frames[f].access_stamp)
                ELSE frames[f]]
        /\ UNCHANGED <<hash_table, access_counter, num_pages, out>>
    BY <1>10 DEF FlushAll
  <2>3. \A f \in DirtyBelow(n) : f \in Frames /\ frames[f].used
    BY DEF DirtyBelow
  <2>4. /\ frames' \in FrameType
        /\ \A g \in Frames : /\ frames'[g].pid = frames[g].pid
                             /\ frames'[g].page = frames[g].page
        /\ \A g \in Frames \ DirtyBelow(n) : frames'[g] = frames[g]
    BY <2>2, <2>3, <1>1 DEF FrameType, Frame
  <2>5. \A g \in Frames : frames'[g].used = frames[g].used
    BY <2>2, <2>3, <1>1 DEF FrameType, Frame
  <2>6. Match(hash_table', frames')
    <3>1. \A g \in Frames : frames'[g].used = frames[g].used /\ frames'[g].pid = frames[g].pid
      BY <2>4, <2>5
    <3>2. Match(hash_table, frames')
      BY <3>1, <1>1, SameFramesMatch
    <3>. QED BY <3>2, <2>2
  <2>7. disk' \in [0..(num_pages - 1) -> Data]
    BY <2>1, <2>2, FlushSaves
  <2>8. ASSUME NEW g \in Frames, frames'[g].used, ~frames'[g].dirty
        PROVE  frames'[g].page = disk'[frames'[g].pid]
    <3>1. CASE g \in DirtyBelow(n)
      BY <3>1, <2>1, <2>2, <2>4, FlushSaves
    <3>2. CASE g \notin DirtyBelow(n)
      <4>1. frames'[g] = frames[g] /\ frames[g].used /\ ~frames[g].dirty
        BY <3>2, <2>4, <2>8
      <4>2. \A f \in DirtyBelow(n) : frames[f].pid # frames[g].pid
        BY <4>1, <3>2, <2>3, <1>1 DEF Match, Once
      <4>3. frames[g].pid \in 0..(num_pages - 1)
        BY <4>1, <1>1 DEF FrameType
      <4>. QED BY <4>1, <4>2, <4>3, <2>1, <2>2, <1>1, FlushSaves
    <3>. QED BY <3>1, <3>2
  <2>9. \A g \in Frames : frames'[g].used => frames'[g].pid < num_pages'
    BY <2>2, <2>4, <2>5, <1>1
  <2>. QED BY <2>2, <2>4, <2>6, <2>7, <2>8, <2>9, <1>1, IInvFromParts
<1>11. CASE Restart
  <2>1. PICK n \in 0..Capacity : disk' = DiskAfterFlush(n)
    BY <1>11, CapacityAssumption DEF Restart
  <2>2. /\ frames' = [f \in Frames |-> FreeFrame]
        /\ hash_table' = [s \in Slots |-> EmptySlot]
        /\ access_counter' = 0
        /\ UNCHANGED <<num_pages, out>>
    BY <1>11 DEF Restart
  <2>3. n \in Nat /\ 0 \in 0..(StampMod - 1)
    BY CapacityAssumption, StampAssumption
  <2>4. disk' \in [0..(num_pages - 1) -> Data]
    BY <2>1, <2>3, FlushSaves
  <2>5. frames' \in FrameType /\ hash_table' \in TableType /\ Match(hash_table', frames')
    BY <2>2, EmptyPool
  <2>6. \A f \in Frames : ~frames'[f].used
    BY <2>2 DEF FreeFrame, Frame
  <2>. QED BY <2>2, <2>3, <2>4, <2>5, <2>6, <1>1, IInvFromParts
<1>12. CASE UNCHANGED vars
  <2>1. UNCHANGED <<frames, hash_table, access_counter, disk, num_pages, out>>
    BY <1>12 DEF vars
  <2>. QED BY <2>1, <1>1, IInvFromParts
<1>. QED BY <1>3, <1>4, <1>5, <1>6, <1>7, <1>8, <1>9, <1>10, <1>11, <1>12 DEF Next

-----------------------------------------------------------------------------
(***************************************************************************)
(* The theorems, for every capacity, table size, hash multiplier, stamp    *)
(* width and set of page contents.                                         *)
(***************************************************************************)

\* The state of the pool is always well-typed.
THEOREM PoolTypeOK == Spec => []TypeOK
<1>1. IInv => TypeOK
  BY DEF IInv
<1>. QED BY InitIInv, StepIInv, <1>1, PTL DEF Spec

\* The hash table always finds exactly the cached pages, each in its one frame: probing
\* works across tombstones, and ht_insert always has a free slot.
THEOREM TableAlwaysMatches == Spec => []TableMatchesFrames
<1>1. IInv => TableMatchesFrames
  BY DEF IInv
<1>. QED BY InitIInv, StepIInv, <1>1, PTL DEF Spec

\* A clean frame always equals the storage layer, whether or not the unchecked writes
\* of evict_one fail.
THEOREM CleanAlwaysSaved == Spec => []CleanIsSaved
<1>1. IInv => CleanIsSaved
  BY DEF IInv
<1>. QED BY InitIInv, StepIInv, <1>1, PTL DEF Spec

-----------------------------------------------------------------------------
(***************************************************************************)
(* Refinement: the pool is transparent, as long as the storage writes of   *)
(* evict_one and bp_destroy do not fail.                                   *)
(***************************************************************************)
\* Contents and the mapped mem, for given frames and storage.
ContentsOf(fr, d, pid) ==
    IF Cached(fr, pid)
    THEN fr[CHOOSE f \in Frames : fr[f].used /\ fr[f].pid = pid].page ELSE d[pid]

Mem(fr, d, n) == [pid \in 0..(n - 1) |-> ContentsOf(fr, d, pid)]

\* A cached page shows the page in its frame.
LEMMA ContentsCached ==
    ASSUME NEW fr, NEW d, NEW f \in Frames, fr[f].used, Once(fr)
    PROVE  ContentsOf(fr, d, fr[f].pid) = fr[f].page
<1>. DEFINE g == CHOOSE x \in Frames : fr[x].used /\ fr[x].pid = fr[f].pid
<1>1. g \in Frames /\ fr[g].used /\ fr[g].pid = fr[f].pid
  OBVIOUS
<1>2. g = f
  BY <1>1 DEF Once
<1>3. Cached(fr, fr[f].pid)
  BY DEF Cached
<1>. QED BY <1>2, <1>3 DEF ContentsOf

\* A page that is not cached shows what the storage layer holds.
LEMMA ContentsUncached ==
    ASSUME NEW fr, NEW d, NEW pid, ~Cached(fr, pid)
    PROVE  ContentsOf(fr, d, pid) = d[pid]
BY DEF ContentsOf

\* Frames whose use, page id and page stay the same show the same contents wherever
\* the storage layer agrees on the pages that are not cached.
LEMMA SameContents ==
    ASSUME NEW fr, NEW fr2, NEW d, NEW d2, NEW n, Once(fr),
           \A f \in Frames : /\ fr2[f].used = fr[f].used
                             /\ fr2[f].pid = fr[f].pid /\ fr2[f].page = fr[f].page,
           \A pid \in 0..(n - 1) : ~Cached(fr, pid) => d2[pid] = d[pid]
    PROVE  Mem(fr2, d2, n) = Mem(fr, d, n)
<1>1. Once(fr2)
  BY DEF Once
<1>2. ASSUME NEW pid \in 0..(n - 1)
      PROVE  ContentsOf(fr2, d2, pid) = ContentsOf(fr, d, pid)
  <2>1. CASE Cached(fr, pid)
    <3>1. PICK f \in Frames : fr[f].used /\ fr[f].pid = pid
      BY <2>1 DEF Cached
    <3>2. ContentsOf(fr, d, pid) = fr[f].page
      BY <3>1, ContentsCached
    <3>3. fr2[f].used /\ fr2[f].pid = pid /\ fr2[f].page = fr[f].page
      BY <3>1
    <3>4. ContentsOf(fr2, d2, pid) = fr2[f].page
      BY <3>3, <1>1, ContentsCached
    <3>. QED BY <3>2, <3>3, <3>4
  <2>2. CASE ~Cached(fr, pid)
    <3>1. ~Cached(fr2, pid)
      BY <2>2 DEF Cached
    <3>. QED BY <3>1, <2>2, ContentsUncached
  <2>. QED BY <2>1, <2>2
<1>. QED BY <1>2 DEF Mem

\* Nothing is lost when evict_one drops a page it has saved.
LEMMA EvictionKeepsContents ==
    ASSUME IInv, EvictWriteFails = FALSE, NEW f \in Frames, NEW d \in EvictedDisks(f)
    PROVE  /\ \A pid \in 0..(num_pages - 1) :
                ContentsOf(EvictedFrames(f), d, pid) = ContentsOf(frames, disk, pid)
           /\ Once(EvictedFrames(f))
<1>. DEFINE ef == EvictedFrames(f)
<1>1. /\ frames \in FrameType /\ Once(frames) /\ disk \in [0..(num_pages - 1) -> Data]
      /\ \A g \in Frames : frames[g].used => frames[g].pid \in 0..(num_pages - 1)
  BY TypeParts, MatchIsTable DEF IInv, TypeOK, Match, FrameType
<1>2. /\ ~ef[f].used /\ \A g \in Frames \ {f} : ef[g] = frames[g]
  BY EvictionIsSafe
<1>3. Once(ef)
  BY EvictionIsSafe DEF Match
<1>4. d = SavedDisk(f)
  BY DEF EvictedDisks
<1>5. frames[f].used => d[frames[f].pid] = frames[f].page
  <2>1. CASE frames[f].used /\ frames[f].dirty
    BY <2>1, <1>1, <1>4 DEF SavedDisk
  <2>2. CASE frames[f].used /\ ~frames[f].dirty
    BY <2>2, <1>4 DEF SavedDisk, IInv, CleanIsSaved
  <2>. QED BY <2>1, <2>2
<1>6. \A pid \in 0..(num_pages - 1) :
         (frames[f].used => pid # frames[f].pid) => d[pid] = disk[pid]
  BY <1>1, <1>4 DEF SavedDisk
<1>. HIDE DEF ef
<1>7. ASSUME NEW pid \in 0..(num_pages - 1)
      PROVE  ContentsOf(ef, d, pid) = ContentsOf(frames, disk, pid)
  <2>1. CASE frames[f].used /\ frames[f].pid = pid
    <3>1. ContentsOf(frames, disk, pid) = frames[f].page
      BY <2>1, <1>1, ContentsCached
    <3>2. ~Cached(ef, pid)
      BY <2>1, <1>1, <1>2 DEF Cached, Once
    <3>. QED BY <3>1, <3>2, <2>1, <1>5, ContentsUncached
  <2>2. CASE ~(frames[f].used /\ frames[f].pid = pid) /\ Cached(frames, pid)
    <3>1. PICK g \in Frames : frames[g].used /\ frames[g].pid = pid
      BY <2>2 DEF Cached
    <3>2. g # f /\ ef[g] = frames[g]
      BY <2>2, <3>1, <1>2
    <3>3. ContentsOf(frames, disk, pid) = frames[g].page
      BY <3>1, <1>1, ContentsCached
    <3>4. ef[g].used /\ ef[g].pid = pid
      BY <3>1, <3>2
    <3>5. ContentsOf(ef, d, ef[g].pid) = ef[g].page
      BY <3>4, <1>3, ContentsCached
    <3>. QED BY <3>2, <3>3, <3>4, <3>5
  <2>3. CASE ~Cached(frames, pid)
    <3>1. ~Cached(ef, pid)
      BY <2>3, <1>2 DEF Cached
    <3>2. d[pid] = disk[pid]
      BY <2>3, <1>6 DEF Cached
    <3>. QED BY <3>1, <3>2, <2>3, ContentsUncached
  <2>. QED BY <2>1, <2>2, <2>3
<1>. QED BY <1>3, <1>7 DEF ef

\* A page that takes the freed frame shows its new contents, the others theirs.
LEMMA InstallContents ==
    ASSUME IInv, EvictWriteFails = FALSE, NEW f \in Frames, NEW p \in Nat, NEW dat,
           NEW dirty, disk' \in EvictedDisks(f), Install(f, p, dat, dirty),
           ~Cached(frames, p), p < num_pages
    PROVE  Mem(frames', disk', num_pages) = [Mem(frames, disk, num_pages) EXCEPT ![p] = dat]
<1>. DEFINE ef == EvictedFrames(f)
<1>1. /\ \A pid \in 0..(num_pages - 1) :
            ContentsOf(ef, disk', pid) = ContentsOf(frames, disk, pid)
      /\ Once(ef)
  BY EvictionKeepsContents
<1>2. /\ ef \in FrameType /\ ~ef[f].used /\ \A g \in Frames \ {f} : ef[g] = frames[g]
  BY EvictionIsSafe
<1>. HIDE DEF ef
<1>3. frames' = [ef EXCEPT ![f] = Frame(dat, p, TRUE, dirty, NextStamp)]
  BY DEF Install, ef
<1>4. /\ frames'[f].used /\ frames'[f].pid = p /\ frames'[f].page = dat
      /\ \A g \in Frames \ {f} : frames'[g] = ef[g]
  BY <1>2, <1>3 DEF Frame, FrameType
<1>5. ~Cached(ef, p)
  BY <1>2 DEF Cached
<1>6. Once(frames')
  BY <1>1, <1>4, <1>5 DEF Once, Cached
<1>7. ContentsOf(frames', disk', p) = dat
  BY <1>4, <1>6, ContentsCached
<1>8. ASSUME NEW pid \in 0..(num_pages - 1), pid # p
      PROVE  ContentsOf(frames', disk', pid) = ContentsOf(frames, disk, pid)
  <2>1. CASE Cached(ef, pid)
    <3>1. PICK g \in Frames : ef[g].used /\ ef[g].pid = pid
      BY <2>1 DEF Cached
    <3>2. g # f /\ frames'[g] = ef[g]
      BY <3>1, <1>2, <1>4
    <3>3. ContentsOf(frames', disk', pid) = frames'[g].page
      BY <3>1, <3>2, <1>6, ContentsCached
    <3>4. ContentsOf(ef, disk', pid) = ef[g].page
      BY <3>1, <1>1, ContentsCached
    <3>. QED BY <3>2, <3>3, <3>4, <1>1
  <2>2. CASE ~Cached(ef, pid)
    <3>1. ~Cached(frames', pid)
      BY <2>2, <1>4, <1>8 DEF Cached
    <3>. QED BY <3>1, <2>2, <1>1, ContentsUncached
  <2>. QED BY <2>1, <2>2
<1>9. p \in 0..(num_pages - 1)
  BY DEF IInv, TypeOK
<1>. QED BY <1>7, <1>8, <1>9 DEF Mem
\* The mapped variable mem of PageStore, before and after a step.
LEMMA MappedMem ==
    /\ [pid \in 0..(num_pages - 1) |-> Contents(pid)] = Mem(frames, disk, num_pages)
    /\ [pid \in 0..(num_pages - 1) |-> Contents(pid)]' = Mem(frames', disk', num_pages')
BY DEF Mem, Contents, ContentsOf, Cached

\* A hit shows what the client wrote last: the page in the frame ht_lookup finds.
LEMMA HitContents ==
    ASSUME IInv, NEW pid \in Nat, ht_lookup(pid) >= 0
    PROVE  /\ ht_lookup(pid) \in Frames
           /\ frames[ht_lookup(pid)].used /\ frames[ht_lookup(pid)].pid = pid
           /\ pid \in 0..(num_pages - 1)
           /\ Mem(frames, disk, num_pages)[pid] = frames[ht_lookup(pid)].page
<1>. DEFINE f == ht_lookup(pid)
<1>1. f \in Frames /\ frames[f].used /\ frames[f].pid = pid
  BY LookupIsRight DEF IInv
<1>2. Once(frames) /\ pid \in 0..(num_pages - 1)
  BY <1>1, TypeParts, MatchIsTable DEF IInv, TypeOK, Match
<1>3. ContentsOf(frames, disk, frames[f].pid) = frames[f].page
  BY <1>1, <1>2, ContentsCached
<1>. QED BY <1>1, <1>2, <1>3 DEF Mem

\* Every step of the pool is a step of the plain page storage or leaves it unchanged.
LEMMA StepImplementsStore ==
    ASSUME EvictWriteFails = FALSE, IInv, [Next]_vars
    PROVE  [Store!Next]_(Store!vars)
<1>. DEFINE m == Mem(frames, disk, num_pages)
            m2 == Mem(frames', disk', num_pages')
<1>1. /\ [pid \in 0..(num_pages - 1) |-> Contents(pid)] = m
      /\ [pid \in 0..(num_pages - 1) |-> Contents(pid)]' = m2
  BY MappedMem
<1>2. /\ Once(frames) /\ frames \in FrameType /\ num_pages \in Nat
      /\ disk \in [0..(num_pages - 1) -> Data]
      /\ \A f \in Frames : frames[f].used => frames[f].pid \in 0..(num_pages - 1)
  BY TypeParts, MatchIsTable DEF IInv, TypeOK, Match, FrameType
<1>3. PageIds \subseteq Nat
  BY DataAssumption
<1>4. ASSUME NEW pid \in PageIds, pid < num_pages, m2 = m, num_pages' = num_pages,
             out' = [pid |-> pid, status |-> "BTREE_OK", data |-> m[pid]]
      PROVE  Store!Next
  BY <1>1, <1>4 DEF Store!Next, Store!ReadOK
<1>5. ASSUME NEW pid \in PageIds, NEW d \in Data, pid < num_pages,
             m2 = [m EXCEPT ![pid] = d], num_pages' = num_pages, out' = out
      PROVE  Store!Next
  BY <1>1, <1>5 DEF Store!Next, Store!Write
<1>6. ASSUME m2 = m, num_pages' = num_pages, out' = out
      PROVE  UNCHANGED Store!vars
  BY <1>1, <1>6 DEF Store!vars
<1>. HIDE DEF m, m2
<1>7. ASSUME NEW pid \in PageIds, ReadHit(pid) PROVE Store!Next
  <2>. DEFINE f == ht_lookup(pid)
  <2>1. f \in Frames /\ pid \in 0..(num_pages - 1) /\ m[pid] = frames[f].page
    BY <1>3, <1>7, HitContents DEF ReadHit, m
  <2>2. /\ frames' = [frames EXCEPT ![f] = Frame(frames[f].page, frames[f].pid, frames[f].used,
                                                 frames[f].dirty, NextStamp)]
        /\ out' = [pid |-> pid, status |-> "BTREE_OK", data |-> frames[f].page]
        /\ UNCHANGED <<disk, num_pages>>
    BY <1>7 DEF ReadHit
  <2>. HIDE DEF f
  <2>3. \A g \in Frames : frames'[g].pid = frames[g].pid /\ frames'[g].page = frames[g].page
    BY <2>1, <2>2, <1>2 DEF FrameType, Frame
  <2>4. \A g \in Frames : frames'[g].used = frames[g].used
    BY <2>1, <2>2, <1>2 DEF FrameType, Frame
  <2>5. \A q \in 0..(num_pages - 1) : ~Cached(frames, q) => disk'[q] = disk[q]
    BY <2>2
  <2>6. \A g \in Frames : /\ frames'[g].used = frames[g].used
                             /\ frames'[g].pid = frames[g].pid
                             /\ frames'[g].page = frames[g].page
    BY <2>3, <2>4
  <2>7. Mem(frames', disk', num_pages) = Mem(frames, disk, num_pages)
    BY <2>5, <2>6, <1>2, SameContents
  <2>8. m2 = m
    BY <2>2, <2>7 DEF m, m2
  <2>. QED BY <2>1, <2>2, <2>8, <1>2, <1>4
<1>8. ASSUME NEW pid \in PageIds, ReadMiss(pid) PROVE Store!Next
  <2>1. pid \in Nat /\ ~Cached(frames, pid) /\ pid < num_pages /\ num_pages' = num_pages
    BY <1>3, <1>8, LookupIsRight DEF IInv, ReadMiss
  <2>2. PICK f \in Frames : /\ disk' \in EvictedDisks(f)
                            /\ Install(f, pid, disk'[pid], FALSE)
                            /\ out' = [pid |-> pid, status |-> "BTREE_OK", data |-> disk'[pid]]
    BY <1>8 DEF ReadMiss
  <2>3. m2 = [m EXCEPT ![pid] = disk'[pid]]
    BY <2>1, <2>2, InstallContents DEF m, m2
  <2>4. pid \in 0..(num_pages - 1)
    BY <2>1, <1>2
  <2>5. disk'[pid] = m[pid]
    <3>1. ContentsOf(EvictedFrames(f), disk', pid) = ContentsOf(frames, disk, pid)
      BY <2>2, <2>4, EvictionKeepsContents
    <3>2. ~Cached(EvictedFrames(f), pid)
      BY <2>1, <2>2, EvictionIsSafe DEF Cached
    <3>3. ContentsOf(EvictedFrames(f), disk', pid) = disk'[pid]
      BY <3>2, ContentsUncached
    <3>. QED BY <3>1, <3>3, <2>4 DEF m, Mem
  <2>6. m2 = m
    BY <2>3, <2>4, <2>5 DEF m, Mem
  <2>. QED BY <2>1, <2>2, <2>5, <2>6, <1>4
<1>9. ASSUME NEW pid \in PageIds, ReadError(pid) PROVE Store!Next
  <2>1. PICK f \in Frames : disk' \in EvictedDisks(f) /\ frames' = EvictedFrames(f)
    BY <1>9 DEF ReadError
  <2>2. /\ out' = [pid |-> pid, status |-> "BTREE_IO_ERROR", data |-> InitData]
        /\ num_pages' = num_pages
    BY <1>9 DEF ReadError
  <2>3. m2 = m
    BY <2>1, <2>2, EvictionKeepsContents DEF m, m2, Mem
  <2>. QED BY <2>2, <2>3, <1>1 DEF Store!Next, Store!ReadError
<1>10. ASSUME NEW pid \in PageIds, NEW d \in Data, WriteHit(pid, d) PROVE Store!Next
  <2>. DEFINE f == ht_lookup(pid)
  <2>1. f \in Frames /\ pid \in 0..(num_pages - 1) /\ frames[f].used /\ frames[f].pid = pid
    BY <1>3, <1>10, HitContents DEF WriteHit
  <2>2. /\ frames' = [frames EXCEPT ![f] = Frame(d, frames[f].pid, frames[f].used, TRUE, NextStamp)]
        /\ UNCHANGED <<disk, num_pages, out>>
    BY <1>10 DEF WriteHit
  <2>. HIDE DEF f
  <2>3. /\ frames'[f].used /\ frames'[f].pid = pid /\ frames'[f].page = d
        /\ \A g \in Frames \ {f} : frames'[g] = frames[g]
    BY <2>1, <2>2, <1>2 DEF FrameType, Frame
  <2>4. Once(frames')
    BY <2>1, <2>3, <1>2 DEF Once
  <2>5. ContentsOf(frames', disk', pid) = d
    <3>1. ContentsOf(frames', disk', frames'[f].pid) = frames'[f].page
      BY <2>1, <2>3, <2>4, ContentsCached
    <3>. QED BY <3>1, <2>3
  <2>6. ASSUME NEW q \in 0..(num_pages - 1), q # pid
        PROVE  ContentsOf(frames', disk', q) = ContentsOf(frames, disk, q)
    <3>1. CASE Cached(frames, q)
      <4>1. PICK g \in Frames : frames[g].used /\ frames[g].pid = q
        BY <3>1 DEF Cached
      <4>2. frames'[g] = frames[g] /\ frames'[g].used /\ frames'[g].pid = q
        BY <4>1, <2>1, <2>3, <2>6
      <4>3. ContentsOf(frames, disk, frames[g].pid) = frames[g].page
        BY <4>1, <1>2, ContentsCached
      <4>4. ContentsOf(frames', disk', frames'[g].pid) = frames'[g].page
        BY <4>2, <2>4, ContentsCached
      <4>. QED BY <4>1, <4>2, <4>3, <4>4
    <3>2. CASE ~Cached(frames, q)
      <4>1. ~Cached(frames', q)
        BY <3>2, <2>1, <2>3, <2>6 DEF Cached
      <4>. QED BY <4>1, <3>2, <2>2, ContentsUncached
    <3>. QED BY <3>1, <3>2
  <2>7. m2 = [m EXCEPT ![pid] = d]
    BY <2>1, <2>2, <2>5, <2>6 DEF m, m2, Mem
  <2>8. pid < num_pages /\ num_pages' = num_pages /\ out' = out
    BY <2>1, <2>2, <1>2
  <2>. QED BY <2>7, <2>8, <1>5
<1>11. ASSUME NEW pid \in PageIds, NEW d \in Data, WriteMiss(pid, d) PROVE Store!Next
  <2>1. pid \in Nat /\ ~Cached(frames, pid) /\ pid < num_pages /\ UNCHANGED <<num_pages, out>>
    BY <1>3, <1>11, LookupIsRight DEF IInv, WriteMiss
  <2>2. PICK f \in Frames : disk' \in EvictedDisks(f) /\ Install(f, pid, d, TRUE)
    BY <1>11 DEF WriteMiss
  <2>3. m2 = [m EXCEPT ![pid] = d]
    BY <2>1, <2>2, InstallContents DEF m, m2
  <2>. QED BY <2>1, <2>3, <1>5
<1>12. CASE Alloc
  <2>1. /\ num_pages' = num_pages + 1
        /\ disk' = [pid \in 0..num_pages |-> IF pid = num_pages THEN InitData ELSE disk[pid]]
        /\ UNCHANGED <<frames, out>>
    BY <1>12 DEF Alloc
  <2>2. ASSUME NEW q \in 0..(num_pages - 1)
        PROVE  ContentsOf(frames', disk', q) = m[q]
    <3>1. disk'[q] = disk[q]
      BY <2>1, <1>2
    <3>. QED BY <3>1, <2>1 DEF m, Mem, ContentsOf
  <2>3. ~Cached(frames', num_pages)
    BY <2>1, <1>2 DEF Cached
  <2>4. ContentsOf(frames', disk', num_pages) = InitData
    BY <2>1, <2>3, <1>2, ContentsUncached
  <2>5. m2 = [pid \in 0..num_pages |-> IF pid = num_pages THEN InitData ELSE m[pid]]
    BY <2>1, <2>2, <2>4, <1>2 DEF m2, Mem
  <2>. QED BY <2>1, <2>5, <1>1 DEF Store!Next, Store!Alloc
<1>13. ASSUME NEW pid \in PageIds, Flush(pid) PROVE UNCHANGED Store!vars
  <2>. DEFINE f == ht_lookup(pid)
  <2>1. f \in Frames /\ frames[f].used
    BY <1>3, <1>13, HitContents DEF Flush
  <2>2. /\ frames' = [frames EXCEPT ![f] = Frame(frames[f].page, frames[f].pid, frames[f].used,
                                                 FALSE, frames[f].access_stamp)]
        /\ disk' = SavedDisk(f)
        /\ UNCHANGED <<num_pages, out>>
    BY <1>13 DEF Flush
  <2>. HIDE DEF f
  <2>3. \A g \in Frames : frames'[g].pid = frames[g].pid /\ frames'[g].page = frames[g].page
    BY <2>1, <2>2, <1>2 DEF FrameType, Frame
  <2>4. \A g \in Frames : frames'[g].used = frames[g].used
    BY <2>1, <2>2, <1>2 DEF FrameType, Frame
  <2>5. \A q \in 0..(num_pages - 1) : ~Cached(frames, q) => disk'[q] = disk[q]
    BY <2>1, <2>2, <1>2 DEF SavedDisk, Cached
  <2>6. \A g \in Frames : /\ frames'[g].used = frames[g].used
                             /\ frames'[g].pid = frames[g].pid
                             /\ frames'[g].page = frames[g].page
    BY <2>3, <2>4
  <2>7. Mem(frames', disk', num_pages) = Mem(frames, disk, num_pages)
    BY <2>5, <2>6, <1>2, SameContents
  <2>8. m2 = m
    BY <2>2, <2>7 DEF m, m2
  <2>. QED BY <2>2, <2>8, <1>6
<1>14. ASSUME NEW n \in 0..Capacity, FlushAll(n) PROVE UNCHANGED Store!vars
  <2>1. /\ disk' = DiskAfterFlush(n)
        /\ frames' = [f \in Frames |->
                IF f \in DirtyBelow(n)
                THEN Frame(frames[f].page, frames[f].pid, TRUE, FALSE, frames[f].access_stamp)
                ELSE frames[f]]
        /\ UNCHANGED <<num_pages, out>>
    BY <1>14 DEF FlushAll
  <2>2. n \in Nat /\ \A f \in DirtyBelow(n) : f \in Frames /\ frames[f].used
    BY CapacityAssumption DEF DirtyBelow
  <2>3. \A g \in Frames : frames'[g].pid = frames[g].pid /\ frames'[g].page = frames[g].page
    BY <2>1, <2>2, <1>2 DEF FrameType, Frame
  <2>4. \A g \in Frames : frames'[g].used = frames[g].used
    BY <2>1, <2>2, <1>2 DEF FrameType, Frame
  <2>5. \A q \in 0..(num_pages - 1) : ~Cached(frames, q) => disk'[q] = disk[q]
    BY <2>1, <2>2, FlushSaves DEF Cached
  <2>6. \A g \in Frames : /\ frames'[g].used = frames[g].used
                             /\ frames'[g].pid = frames[g].pid
                             /\ frames'[g].page = frames[g].page
    BY <2>3, <2>4
  <2>7. Mem(frames', disk', num_pages) = Mem(frames, disk, num_pages)
    BY <2>5, <2>6, <1>2, SameContents
  <2>8. m2 = m
    BY <2>1, <2>7 DEF m, m2
  <2>. QED BY <2>1, <2>8, <1>6
<1>15. CASE Restart
  <2>1. /\ disk' = DiskAfterFlush(Capacity)
        /\ frames' = [f \in Frames |-> FreeFrame]
        /\ UNCHANGED <<num_pages, out>>
    BY <1>15 DEF Restart
  <2>2. Capacity \in Nat /\ DirtyBelow(Capacity) = {f \in Frames : frames[f].used /\ frames[f].dirty}
    BY CapacityAssumption DEF DirtyBelow, Frames
  <2>3. \A q : ~Cached(frames', q)
    BY <2>1 DEF Cached, FreeFrame, Frame
  <2>4. ASSUME NEW q \in 0..(num_pages - 1)
        PROVE  ContentsOf(frames', disk', q) = ContentsOf(frames, disk, q)
    <3>1. ContentsOf(frames', disk', q) = disk'[q]
      BY <2>3, ContentsUncached
    <3>2. CASE Cached(frames, q)
      <4>1. PICK g \in Frames : frames[g].used /\ frames[g].pid = q
        BY <3>2 DEF Cached
      <4>2. ContentsOf(frames, disk, frames[g].pid) = frames[g].page
        BY <4>1, <1>2, ContentsCached
      <4>3. CASE frames[g].dirty
        <5>1. g \in DirtyBelow(Capacity)
          BY <4>1, <4>3, <2>2
        <5>. QED BY <5>1, <4>1, <4>2, <3>1, <2>1, <2>2, FlushSaves
      <4>4. CASE ~frames[g].dirty
        <5>1. \A f \in DirtyBelow(Capacity) : frames[f].pid # q
          BY <4>1, <4>4, <2>2, <1>2 DEF Once
        <5>2. frames[g].page = disk[q]
          BY <4>1, <4>4 DEF IInv, CleanIsSaved
        <5>. QED BY <5>1, <5>2, <4>1, <4>2, <3>1, <2>1, <2>2, FlushSaves
      <4>. QED BY <4>3, <4>4
    <3>3. CASE ~Cached(frames, q)
      <4>1. \A f \in DirtyBelow(Capacity) : frames[f].pid # q
        BY <3>3, <2>2 DEF Cached
      <4>2. disk'[q] = disk[q]
        BY <4>1, <2>1, <2>2, FlushSaves
      <4>. QED BY <4>2, <3>1, <3>3, ContentsUncached
    <3>. QED BY <3>2, <3>3
  <2>5. m2 = m
    BY <2>1, <2>4 DEF m, m2, Mem
  <2>. QED BY <2>1, <2>5, <1>6
<1>16. CASE UNCHANGED vars
  <2>1. UNCHANGED <<frames, disk, num_pages, out>>
    BY <1>16 DEF vars
  <2>. QED BY <2>1, <1>6 DEF m, m2
<1>. QED BY <1>7, <1>8, <1>9, <1>10, <1>11, <1>12, <1>13, <1>14, <1>15, <1>16 DEF Next

\* The pool implements plain page storage: every bp_read that succeeds returns what was
\* written last, through evictions, failed reads, flushes and restarts.
THEOREM PoolImplementsStore ==
    ASSUME EvictWriteFails = FALSE
    PROVE  Spec => ImplementsStore
<1>1. Init => Store!Init
  <2>. SUFFICES ASSUME Init PROVE Store!Init
    OBVIOUS
  <2>1. /\ num_pages = 0 /\ out = [pid |-> 0, status |-> "none", data |-> InitData]
    BY DEF Init
  <2>2. [pid \in 0..(num_pages - 1) |-> Contents(pid)] = [pid \in {} |-> InitData]
    BY <2>1
  <2>. QED BY <2>1, <2>2 DEF Store!Init
<1>2. IInv /\ [Next]_vars => [Store!Next]_(Store!vars)
  BY StepImplementsStore
<1>. QED BY InitIInv, StepIInv, <1>1, <1>2, PTL DEF Spec, ImplementsStore, Store!Spec

-----------------------------------------------------------------------------
(***************************************************************************)
(* Replacement: without a wrap of the counter, stamps order the frames as  *)
(* the history does.                                                       *)
(***************************************************************************)

\* The frames of s are in the order of the stamps t.
InOrder(s, t) == \A i, j \in 1..Len(s) : i < j => t[s[i]] < t[s[j]]

Stamps(fr) == [f \in Frames |-> fr[f].access_stamp]

\* The history has every used frame, in the order of the stamps, and none was stamped
\* after the counter stood where it stands.
Recency ==
    /\ recent \in Seq(Frames)
    /\ InOrder(recent, Stamps(frames))
    /\ \A i \in 1..Len(recent) : frames[recent[i]].access_stamp <= access_counter
    /\ \A f \in Frames : frames[f].used => \E i \in 1..Len(recent) : recent[i] = f

\* RemoveFirst takes one place out of a sequence, or leaves one alone without the element.
LEMMA RemoveFirstIs ==
    ASSUME NEW S, NEW s \in Seq(S), NEW e
    PROVE  \/ \E i \in 1..Len(s) : s[i] = e /\ RemoveFirst(s, e) = RemoveAt(s, i)
           \/ (\A i \in 1..Len(s) : s[i] # e) /\ RemoveFirst(s, e) = s
<1>1. CASE \A i \in 1..Len(s) : s[i] # e
  BY <1>1 DEF RemoveFirst
<1>2. CASE \E i \in 1..Len(s) : s[i] = e
  <2>. DEFINE I == {i \in 1..Len(s) : s[i] = e}
  <2>1. Len(s) \in Nat /\ I \subseteq Nat /\ I # {}
    BY <1>2
  <2>2. \E m \in I : \A k \in I : m <= k
    BY <2>1, LeastElement
  <2>3. Min(I) \in I
    BY <2>2 DEF Min
  <2>4. RemoveFirst(s, e) = RemoveAt(s, Min(I))
    BY <1>2, <2>1 DEF RemoveFirst, SelectInSeq
  <2>. QED BY <2>3, <2>4
<1>. QED BY <1>1, <1>2

\* Where the elements of RemoveAt(s, k) come from.
LEMMA RemoveAtIs ==
    ASSUME NEW S, NEW s \in Seq(S), NEW k \in 1..Len(s)
    PROVE  /\ RemoveAt(s, k) \in Seq(S) /\ Len(RemoveAt(s, k)) = Len(s) - 1
           /\ \A i \in 1..(Len(s) - 1) : RemoveAt(s, k)[i] = IF i < k THEN s[i] ELSE s[i + 1]
<1>1. Len(s) \in Nat
  OBVIOUS
<1>. DEFINE a == SubSeq(s, 1, k - 1)
            b == SubSeq(s, k + 1, Len(s))
<1>2. /\ a \in Seq(S) /\ Len(a) = k - 1
      /\ \A i \in 1..(k - 1) : a[i] = s[i]
  BY <1>1
<1>3. /\ b \in Seq(S) /\ Len(b) = Len(s) - k
      /\ \A i \in 1..(Len(s) - k) : b[i] = s[k + i]
  BY <1>1
<1>. HIDE DEF a, b
<1>. DEFINE c == a \o b
<1>4. /\ c \in Seq(S) /\ Len(c) = Len(a) + Len(b)
      /\ \A i \in 1..(Len(a) + Len(b)) : c[i] = IF i <= Len(a) THEN a[i] ELSE b[i - Len(a)]
  BY <1>2, <1>3, ConcatProperties
<1>5. RemoveAt(s, k) = c
  BY DEF RemoveAt, a, b
<1>. HIDE DEF c
<1>6. ASSUME NEW i \in 1..(Len(s) - 1) PROVE c[i] = IF i < k THEN s[i] ELSE s[i + 1]
  <2>1. i \in 1..(Len(a) + Len(b)) /\ (i < k \/ i >= k)
    BY <1>1, <1>2, <1>3
  <2>2. CASE i < k
    <3>1. i \in 1..(k - 1) /\ i <= Len(a)
      BY <2>2, <1>1, <1>2
    <3>. QED BY <3>1, <2>1, <2>2, <1>2, <1>4
  <2>3. CASE i >= k
    <3>1. i - Len(a) \in 1..(Len(s) - k) /\ k + (i - Len(a)) = i + 1 /\ ~(i <= Len(a))
      BY <2>3, <1>1, <1>2
    <3>2. c[i] = b[i - Len(a)] /\ b[i - Len(a)] = s[k + (i - Len(a))]
      BY <3>1, <2>1, <1>3, <1>4
    <3>3. ~(i < k)
      BY <2>3
    <3>. QED BY <3>1, <3>2, <3>3
  <2>. QED BY <2>1, <2>2, <2>3
<1>7. Len(c) = Len(s) - 1
  BY <1>1, <1>2, <1>3, <1>4
<1>. QED BY <1>4, <1>5, <1>6, <1>7

\* The history without a frame keeps the others, in their order.
LEMMA RemovalKeepsOrder ==
    ASSUME NEW s \in Seq(Frames), NEW e \in Frames, NEW t \in [Frames -> Int], InOrder(s, t)
    PROVE  LET r == RemoveFirst(s, e)
           IN  /\ r \in Seq(Frames) /\ InOrder(r, t)
               /\ \A i \in 1..Len(r) : r[i] # e /\ \E j \in 1..Len(s) : r[i] = s[j]
               /\ \A j \in 1..Len(s) : s[j] # e => \E i \in 1..Len(r) : r[i] = s[j]
<1>. DEFINE r == RemoveFirst(s, e)
<1>1. Len(s) \in Nat /\ \A i \in 1..Len(s) : s[i] \in Frames /\ t[s[i]] \in Int
  OBVIOUS
<1>2. ASSUME \A i \in 1..Len(s) : s[i] # e, r = s
      PROVE  /\ r \in Seq(Frames) /\ InOrder(r, t)
             /\ \A i \in 1..Len(r) : r[i] # e /\ \E j \in 1..Len(s) : r[i] = s[j]
             /\ \A j \in 1..Len(s) : s[j] # e => \E i \in 1..Len(r) : r[i] = s[j]
  BY <1>2
<1>3. ASSUME NEW k \in 1..Len(s), s[k] = e, r = RemoveAt(s, k)
      PROVE  /\ r \in Seq(Frames) /\ InOrder(r, t)
             /\ \A i \in 1..Len(r) : r[i] # e /\ \E j \in 1..Len(s) : r[i] = s[j]
             /\ \A j \in 1..Len(s) : s[j] # e => \E i \in 1..Len(r) : r[i] = s[j]
  <2>1. /\ r \in Seq(Frames) /\ Len(r) = Len(s) - 1
        /\ \A i \in 1..(Len(s) - 1) : r[i] = IF i < k THEN s[i] ELSE s[i + 1]
    BY <1>3, RemoveAtIs
  <2>. HIDE DEF r
  <2>2. InOrder(r, t)
    <3>. SUFFICES ASSUME NEW i \in 1..Len(r), NEW j \in 1..Len(r), i < j
                  PROVE  t[r[i]] < t[r[j]]
      BY DEF InOrder
    <3>. DEFINE x == IF i < k THEN i ELSE i + 1
                y == IF j < k THEN j ELSE j + 1
    <3>1. i \in 1..(Len(s) - 1) /\ j \in 1..(Len(s) - 1)
      BY <2>1
    <3>2. x \in 1..Len(s) /\ y \in 1..Len(s) /\ x < y
      BY <3>1, <1>1
    <3>3. r[i] = s[x] /\ r[j] = s[y]
      BY <3>1, <2>1
    <3>. HIDE DEF x, y
    <3>. QED BY <3>2, <3>3 DEF InOrder
  <2>3. ASSUME NEW i \in 1..Len(r) PROVE r[i] # e /\ \E j \in 1..Len(s) : r[i] = s[j]
    <3>. DEFINE x == IF i < k THEN i ELSE i + 1
    <3>1. x \in 1..Len(s) /\ x # k /\ r[i] = s[x]
      <4>1. i \in 1..(Len(s) - 1)
        BY <2>1
      <4>2. r[i] = s[x]
        BY <4>1, <2>1
      <4>3. x \in 1..Len(s) /\ x # k
        BY <4>1, <1>1
      <4>. QED BY <4>2, <4>3
    <3>. HIDE DEF x
    <3>2. x < k \/ k < x
      BY <3>1, <1>1
    <3>3. t[s[x]] < t[s[k]] \/ t[s[k]] < t[s[x]]
      BY <3>1, <3>2 DEF InOrder
    <3>4. t[s[x]] \in Int
      BY <3>1, <1>1
    <3>5. s[x] # s[k]
      BY <3>3, <3>4
    <3>. QED BY <3>1, <3>5, <1>3
  <2>4. ASSUME NEW j \in 1..Len(s), s[j] # e PROVE \E i \in 1..Len(r) : r[i] = s[j]
    <3>. DEFINE x == IF j < k THEN j ELSE j - 1
    <3>1. j # k
      BY <1>3, <2>4
    <3>2. x \in 1..(Len(s) - 1) /\ (IF x < k THEN x ELSE x + 1) = j
      BY <1>1, <3>1
    <3>. HIDE DEF x
    <3>3. r[x] = s[j] /\ x \in 1..Len(r)
      BY <3>2, <2>1
    <3>. QED BY <3>3
  <2>. QED BY <2>1, <2>2, <2>3, <2>4
<1>4. \/ \E k \in 1..Len(s) : s[k] = e /\ r = RemoveAt(s, k)
      \/ (\A i \in 1..Len(s) : s[i] # e) /\ r = s
  BY RemoveFirstIs
<1>. HIDE DEF r
<1>5. /\ r \in Seq(Frames) /\ InOrder(r, t)
      /\ \A i \in 1..Len(r) : r[i] # e /\ \E j \in 1..Len(s) : r[i] = s[j]
      /\ \A j \in 1..Len(s) : s[j] # e => \E i \in 1..Len(r) : r[i] = s[j]
  BY <1>2, <1>3, <1>4
<1>. QED BY <1>5 DEF r

\* The order depends on the stamps of the frames in the history only.
LEMMA SameOrder ==
    ASSUME NEW s \in Seq(Frames), NEW t, NEW u, InOrder(s, t),
           \A i \in 1..Len(s) : u[s[i]] = t[s[i]]
    PROVE  InOrder(s, u)
BY DEF InOrder

\* An access stamps its frame with the next number and puts it last.
LEMMA AccessKeepsRecency ==
    ASSUME MaxStamp < StampMod, IInv, Recency, NEW f \in Frames, Stamp(f),
           frames' \in FrameType, frames'[f].access_stamp = NextStamp,
           \A g \in Frames \ {f} : /\ frames'[g].access_stamp = frames[g].access_stamp
                                   /\ frames'[g].used => frames[g].used
    PROVE  Recency'
<1>. DEFINE r == RemoveFirst(recent, f)
            t == Stamps(frames)
            u == Stamps(frames')
<1>1. /\ access_counter \in Nat /\ access_counter' = access_counter + 1
      /\ NextStamp = access_counter + 1
      /\ recent' = Append(r, f)
  <2>1. access_counter \in Nat /\ access_counter < MaxStamp /\ access_counter' = NextStamp
    BY StampAssumption DEF IInv, TypeOK, Stamp
  <2>2. access_counter + 1 \in 0..(StampMod - 1)
    BY <2>1, StampAssumption
  <2>3. NextStamp = access_counter + 1
    BY <2>1, <2>2, StampAssumption DEF NextStamp
  <2>. QED BY <2>1, <2>3 DEF Stamp
<1>2. /\ t \in [Frames -> Int] /\ u \in [Frames -> Int]
      /\ \A g \in Frames : t[g] = frames[g].access_stamp /\ u[g] = frames'[g].access_stamp
  <2>1. frames \in FrameType
    BY TypeParts DEF IInv
  <2>. QED BY <2>1 DEF Stamps, FrameType
<1>3. /\ r \in Seq(Frames) /\ InOrder(r, t)
      /\ \A i \in 1..Len(r) : r[i] # f /\ \E j \in 1..Len(recent) : r[i] = recent[j]
      /\ \A j \in 1..Len(recent) : recent[j] # f => \E i \in 1..Len(r) : r[i] = recent[j]
  BY <1>2, RemovalKeepsOrder DEF Recency
<1>. HIDE DEF r, t, u
<1>4. /\ recent' \in Seq(Frames) /\ Len(recent') = Len(r) + 1 /\ Len(r) \in Nat
      /\ \A i \in 1..Len(r) : recent'[i] = r[i]
      /\ recent'[Len(r) + 1] = f
  BY <1>1, <1>3
<1>5. \A i \in 1..Len(r) : /\ r[i] \in Frames \ {f} /\ u[r[i]] = t[r[i]]
                           /\ t[r[i]] \in Int /\ t[r[i]] <= access_counter
  <2>. SUFFICES ASSUME NEW i \in 1..Len(r)
                PROVE  /\ r[i] \in Frames \ {f} /\ u[r[i]] = t[r[i]]
                       /\ t[r[i]] \in Int /\ t[r[i]] <= access_counter
    OBVIOUS
  <2>1. PICK j \in 1..Len(recent) : r[i] = recent[j]
    BY <1>3
  <2>2. r[i] \in Frames \ {f}
    BY <1>3
  <2>3. u[r[i]] = t[r[i]] /\ t[r[i]] \in Int
    BY <2>2, <1>2
  <2>4. t[r[i]] <= access_counter
    BY <2>1, <2>2, <1>2 DEF Recency
  <2>. QED BY <2>2, <2>3, <2>4
<1>6. u[f] = access_counter + 1
  BY <1>1, <1>2
<1>7. InOrder(recent', u)
  <2>. SUFFICES ASSUME NEW i \in 1..Len(recent'), NEW j \in 1..Len(recent'), i < j
                PROVE  u[recent'[i]] < u[recent'[j]]
    BY DEF InOrder
  <2>1. i \in 1..Len(r) /\ (j \in 1..Len(r) \/ j = Len(r) + 1)
    <3>1. Len(r) \in Nat /\ i \in 1..(Len(r) + 1) /\ j \in 1..(Len(r) + 1)
      BY <1>4
    <3>. QED BY <3>1
  <2>2. CASE j \in 1..Len(r)
    <3>1. t[r[i]] < t[r[j]]
      BY <2>1, <2>2, <1>3 DEF InOrder
    <3>. QED BY <3>1, <2>1, <2>2, <1>4, <1>5
  <2>3. CASE j = Len(r) + 1
    BY <2>1, <2>3, <1>1, <1>4, <1>5, <1>6
  <2>. QED BY <2>1, <2>2, <2>3
<1>8. \A i \in 1..Len(recent') : frames'[recent'[i]].access_stamp <= access_counter'
  <2>. SUFFICES ASSUME NEW i \in 1..Len(recent')
                PROVE  frames'[recent'[i]].access_stamp <= access_counter'
    OBVIOUS
  <2>1. recent'[i] \in Frames /\ (i \in 1..Len(r) \/ i = Len(r) + 1)
    BY <1>4
  <2>2. u[recent'[i]] <= access_counter + 1
    BY <2>1, <1>1, <1>4, <1>5, <1>6
  <2>. QED BY <2>1, <2>2, <1>1, <1>2
<1>9. ASSUME NEW g \in Frames, frames'[g].used PROVE \E i \in 1..Len(recent') : recent'[i] = g
  <2>1. CASE g = f
    BY <2>1, <1>4
  <2>2. CASE g # f
    <3>1. PICK j \in 1..Len(recent) : recent[j] = g
      BY <2>2, <1>9 DEF Recency
    <3>2. PICK i \in 1..Len(r) : r[i] = g
      BY <2>2, <3>1, <1>3
    <3>. QED BY <3>2, <1>4
  <2>. QED BY <2>1, <2>2
<1>. QED BY <1>4, <1>7, <1>8, <1>9 DEF Recency, u

\* What changes neither stamps nor history, and uses no frame anew, keeps their order.
LEMMA QuietKeepsRecency ==
    ASSUME Recency, UNCHANGED <<access_counter, recent>>,
           \A g \in Frames : /\ frames'[g].access_stamp = frames[g].access_stamp
                             /\ frames'[g].used => frames[g].used
    PROVE  Recency'
<1>1. Stamps(frames') = Stamps(frames)
  BY DEF Stamps
<1>2. \A i \in 1..Len(recent) : recent[i] \in Frames
  BY DEF Recency
<1>. QED BY <1>1, <1>2 DEF Recency

\* The order of stamps and history holds in every state.
LEMMA StepRecency ==
    ASSUME MaxStamp < StampMod, IInv, IInv', Recency, [Next]_vars
    PROVE  Recency'
<1>1. frames \in FrameType /\ frames' \in FrameType /\ StampMod \in Nat
  BY StampAssumption, TypeParts DEF IInv, TypeOK, FrameType
<1>2. ASSUME NEW f \in Frames, NEW pid, NEW d, NEW dirty, Install(f, pid, d, dirty)
      PROVE  Recency'
  <2>1. /\ frames' = [EvictedFrames(f) EXCEPT ![f] = Frame(d, pid, TRUE, dirty, NextStamp)]
        /\ Stamp(f)
    BY <1>2 DEF Install
  <2>2. /\ frames'[f].access_stamp = NextStamp
        /\ \A g \in Frames \ {f} : frames'[g] = frames[g]
    BY <1>1, <2>1 DEF FrameType, EvictedFrames, Frame
  <2>. QED BY <1>1, <2>1, <2>2, AccessKeepsRecency
<1>3. ASSUME NEW f \in Frames, NEW fr, frames' = [frames EXCEPT ![f] = fr],
             fr.access_stamp = NextStamp, Stamp(f)
      PROVE  Recency'
  <2>1. /\ frames'[f].access_stamp = NextStamp
        /\ \A g \in Frames \ {f} : frames'[g] = frames[g]
    BY <1>1, <1>3 DEF FrameType
  <2>. QED BY <1>1, <1>3, <2>1, AccessKeepsRecency
<1>4. ASSUME NEW pid \in PageIds, ReadHit(pid) PROVE Recency'
  <2>1. ht_lookup(pid) \in Frames
    BY <1>4, LookupIsRight, DataAssumption DEF IInv, ReadHit
  <2>2. Frame(frames[ht_lookup(pid)].page, frames[ht_lookup(pid)].pid,
              frames[ht_lookup(pid)].used, frames[ht_lookup(pid)].dirty,
              NextStamp).access_stamp = NextStamp
    BY DEF Frame
  <2>. QED BY <1>3, <1>4, <2>1, <2>2 DEF ReadHit
<1>5. ASSUME NEW pid \in PageIds, ReadMiss(pid) PROVE Recency'
  BY <1>2, <1>5 DEF ReadMiss
<1>6. ASSUME NEW pid \in PageIds, ReadError(pid) PROVE Recency'
  <2>1. PICK f \in Frames : /\ frames' = EvictedFrames(f)
                            /\ recent' = RemoveFirst(recent, f)
    BY <1>6 DEF ReadError
  <2>2. UNCHANGED access_counter
    BY <1>6 DEF ReadError
  <2>3. ~frames'[f].used /\ \A g \in Frames \ {f} : frames'[g] = frames[g]
    BY <1>1, <2>1 DEF FrameType, EvictedFrames, Frame
  <2>. DEFINE t == Stamps(frames)
              u == Stamps(frames')
  <2>4. /\ t \in [Frames -> Int]
        /\ \A g \in Frames : t[g] = frames[g].access_stamp /\ u[g] = frames'[g].access_stamp
    BY <1>1 DEF Stamps, FrameType
  <2>5. /\ recent' \in Seq(Frames) /\ InOrder(recent', t)
        /\ \A i \in 1..Len(recent') :
              recent'[i] # f /\ \E j \in 1..Len(recent) : recent'[i] = recent[j]
        /\ \A j \in 1..Len(recent) :
              recent[j] # f => \E i \in 1..Len(recent') : recent'[i] = recent[j]
    <3>1. recent \in Seq(Frames) /\ InOrder(recent, t)
      BY DEF Recency
    <3>. HIDE DEF t
    <3>. QED BY <3>1, <2>1, <2>4, RemovalKeepsOrder
  <2>. HIDE DEF t, u
  <2>6. \A i \in 1..Len(recent') : recent'[i] \in Frames /\ u[recent'[i]] = t[recent'[i]]
    BY <2>3, <2>4, <2>5
  <2>7. InOrder(recent', u)
    BY <2>5, <2>6, SameOrder
  <2>8. \A i \in 1..Len(recent') : frames'[recent'[i]].access_stamp <= access_counter'
    BY <2>2, <2>3, <2>5, <2>6 DEF Recency
  <2>9. \A g \in Frames : frames'[g].used => \E i \in 1..Len(recent') : recent'[i] = g
    BY <2>3, <2>5 DEF Recency
  <2>. QED BY <2>5, <2>7, <2>8, <2>9 DEF Recency, u
<1>7. ASSUME NEW pid \in PageIds, NEW d \in Data, WriteHit(pid, d) PROVE Recency'
  <2>1. ht_lookup(pid) \in Frames
    BY <1>7, LookupIsRight, DataAssumption DEF IInv, WriteHit
  <2>2. Frame(d, frames[ht_lookup(pid)].pid, frames[ht_lookup(pid)].used, TRUE,
              NextStamp).access_stamp = NextStamp
    BY DEF Frame
  <2>. QED BY <1>3, <1>7, <2>1, <2>2 DEF WriteHit
<1>8. ASSUME NEW pid \in PageIds, NEW d \in Data, WriteMiss(pid, d) PROVE Recency'
  BY <1>2, <1>8 DEF WriteMiss
<1>9. CASE Alloc
  BY <1>9, QuietKeepsRecency DEF Alloc
<1>10. ASSUME NEW pid \in PageIds, Flush(pid) PROVE Recency'
  <2>1. ht_lookup(pid) \in Frames
    BY <1>10, LookupIsRight, DataAssumption DEF IInv, Flush
  <2>2. \A g \in Frames : /\ frames'[g].access_stamp = frames[g].access_stamp
                          /\ frames'[g].used = frames[g].used
    BY <1>1, <1>10, <2>1 DEF Flush, Frame, FrameType
  <2>. QED BY <1>10, <2>2, QuietKeepsRecency DEF Flush
<1>11. ASSUME NEW n \in 0..Capacity, FlushAll(n) PROVE Recency'
  <2>1. \A g \in Frames : /\ frames'[g].access_stamp = frames[g].access_stamp
                          /\ frames'[g].used = frames[g].used
    BY <1>1, <1>11 DEF FlushAll, DirtyBelow, Frame, FrameType
  <2>. QED BY <1>11, <2>1, QuietKeepsRecency DEF FlushAll
<1>12. CASE Restart
  <2>1. /\ frames' = [f \in Frames |-> FreeFrame]
        /\ recent' = << >>
    BY <1>12 DEF Restart
  <2>2. \A f \in Frames : ~frames'[f].used
    BY <2>1 DEF FreeFrame, Frame
  <2>. QED BY <2>1, <2>2 DEF Recency, InOrder
<1>13. CASE UNCHANGED vars
  BY <1>13, QuietKeepsRecency DEF vars
<1>. QED
  BY <1>4, <1>5, <1>6, <1>7, <1>8, <1>9, <1>10, <1>11, <1>12, <1>13 DEF Next

\* README: LRU.  As long as the counter does not wrap, evict_one picks the frame whose last
\* access lies furthest back.
THEOREM VictimIsAlwaysLeastRecent ==
    ASSUME MaxStamp < StampMod
    PROVE  Spec => []VictimIsLeastRecent
<1>1. Init => Recency
  <2>. SUFFICES ASSUME Init PROVE Recency
    OBVIOUS
  <2>1. \A f \in Frames : ~frames[f].used
    BY DEF Init, FreeFrame, Frame
  <2>. QED BY <2>1 DEF Init, Recency, InOrder
<1>2. IInv /\ Recency /\ [Next]_vars => IInv' /\ Recency'
  BY StepIInv, StepRecency
<1>3. IInv /\ Recency => VictimIsLeastRecent
  <2>. SUFFICES ASSUME IInv, Recency, \A g \in Frames : frames[g].used,
                       NEW f \in Frames, IsVictim(f)
                PROVE  f = Head(recent)
    BY DEF VictimIsLeastRecent
  <2>1. PICK i \in 1..Len(recent) : recent[i] = f
    BY DEF Recency
  <2>2. recent \in Seq(Frames) /\ Len(recent) \in Nat /\ 1 \in 1..Len(recent)
    BY <2>1 DEF Recency
  <2>3. recent[1] \in Frames /\ Head(recent) = recent[1]
    BY <2>2
  <2>4. frames[f].access_stamp \in Int /\ frames[recent[1]].access_stamp \in Int
    BY <2>3, TypeParts, StampAssumption DEF IInv, FrameType
  <2>5. frames[f].access_stamp <= frames[recent[1]].access_stamp
    <3>1. \A g \in Frames :
            IF g < f THEN frames[f].access_stamp < frames[g].access_stamp
            ELSE frames[f].access_stamp <= frames[g].access_stamp
      BY DEF IsVictim
    <3>. QED BY <3>1, <2>3, <2>4
  <2>6. i # 1 => frames[recent[1]].access_stamp < frames[f].access_stamp
    <3>1. i # 1 => 1 < i
      BY <2>1, <2>2
    <3>2. i # 1 => Stamps(frames)[recent[1]] < Stamps(frames)[recent[i]]
      BY <3>1, <2>1, <2>2 DEF Recency, InOrder
    <3>. QED BY <3>2, <2>1, <2>3 DEF Stamps
  <2>. QED BY <2>1, <2>3, <2>4, <2>5, <2>6
<1>. QED BY <1>1, <1>2, <1>3, InitIInv, PTL DEF Spec
=============================================================================
