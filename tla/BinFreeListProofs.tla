--------------------------- MODULE BinFreeListProofs ---------------------------
(***************************************************************************)
(* Proofs about the free list of Bin: it has exactly the slots that had a  *)
(* value and have none, each once.  The argument has no sequence: the free *)
(* slots are ranked, the head is the one of the highest rank, and each     *)
(* slot names the next lower one.  A sweep gives the slots that it frees   *)
(* ranks above all others, in the order in which it frees them.            *)
(***************************************************************************)
EXTENDS BinProofs

-----------------------------------------------------------------------------
(* The inductive invariant.                                                *)

\* The slots that had a value and have none.
Freed == {p \in {At(o) : o \in 1..Stored} : ~slots[p].allocated}

\* Of the slots of S, bin is that of the highest rank; none if S has none.
Top(rank, S, bin) ==
    IF S = {} THEN bin = NoBin
    ELSE \E q \in S : bin = BinId(q[1], q[2]) /\ \A p \in S : rank[p] <= rank[q]

Ranked(rank, bound) ==
    /\ \A p \in Positions : rank[p] <= bound
    /\ \A p, q \in Freed : rank[p] = rank[q] => p = q
    /\ Top(rank, Freed, freeHead)
    /\ \A p \in Freed : Top(rank, {q \in Freed : rank[q] < rank[p]}, slots[p].free)

FreeListOK == \E rank \in [Positions -> Nat], bound \in Nat : Ranked(rank, bound)

-----------------------------------------------------------------------------
(* The free slots.                                                         *)

LEMMA FreedPositions == BinInv => Freed \in SUBSET Positions
PROOF
  BY DEF BinInv, RefsOK, Freed

\* A step that leaves the free slots and their links alone keeps the ranks.
LEMMA SameFreeList ==
    ASSUME FreeListOK, Freed' = Freed, freeHead' = freeHead, Freed \in SUBSET Positions,
           \A p \in Freed : slots'[p].free = slots[p].free
    PROVE  FreeListOK'
PROOF
<1>1. PICK rank \in [Positions -> Nat], bound \in Nat : Ranked(rank, bound)
  BY DEF FreeListOK
<1>2. Ranked(rank, bound)'
  BY <1>1 DEF Ranked, Top
<1> QED
  BY <1>2 DEF FreeListOK

\* Storing a value takes its slot out of the free ones, if it was one.
LEMMA StoreFreed ==
    ASSUME BinInv, BinInv', NEW p, NEW b, NEW g, NEW r, NEW to, Store(p, b, g, r, to),
           Promise!New(Stored + 1, r, to)
    PROVE  /\ Freed' = Freed \ {p}
           /\ \A q \in Positions \ {p} : slots'[q].free = slots[q].free
PROOF
<1>1. /\ TypeOK /\ RefsOK /\ Stored \in Nat /\ Stored' = Stored + 1
  BY StoredIsNat DEF BinInv, Promise!New
<1>n. PICK n \in Nat : n = Stored + 1
  BY <1>1
<1>2. /\ \A q \in Positions \ {p} : slots'[q] = slots[q]
      /\ p \in Positions => slots'[p].allocated
  BY <1>1 DEF Store, TypeOK
<1>3. \A o \in 1..Stored : refs'[o] = refs[o]
  <2> DEFINE Ref == [bin : BinIds, generation : 0..(GenMod - 1)]
             ref == [bin |-> b, generation |-> g]
  <2>1. refs \in Seq(Ref) /\ refs' = Append(refs, ref)
    BY <1>1 DEF TypeOK, Store
  <2>2. refs \in Seq(Ref \cup {ref}) /\ ref \in Ref \cup {ref}
    <3> HIDE DEF Ref, ref
    <3> QED
      BY <2>1
  <2> HIDE DEF Ref, ref
  <2> QED
    BY <2>1, <2>2, AppendProperties DEF Stored
<1>4. \A o \in 1..Stored : At(o)' = At(o) /\ At(o) \in Positions
  BY <1>1, <1>3 DEF At, RefsOK
<1>5. slots'[At(n)'].allocated
  <2>1. n \in Loadable'
    BY <1>n DEF Promise!New
  <2>2. Loadable' = {o \in 1..Stored' : Loads(o)'}
    BY LoadablesNext
  <2>3. Loads(n)'
    BY <2>1, <2>2
  <2> QED
    BY <2>3 DEF Loads
<1>6. 1..Stored' = 1..Stored \cup {n}
  BY <1>1, <1>n
<1>7. Freed' = {q \in {At(o)' : o \in 1..Stored'} : ~slots'[q].allocated}
  BY DEF Freed
<1>8. \A q \in Freed' : \E o \in 1..Stored : q = At(o)
  BY <1>4, <1>5, <1>6, <1>7
<1>9. \A o \in 1..Stored : At(o) \in Freed' <=> ~slots'[At(o)].allocated
  BY <1>4, <1>6, <1>7
<1>10. \A o \in 1..Stored : At(o) \in Freed <=> ~slots[At(o)].allocated
  BY DEF Freed
<1>11. \A q \in Freed : \E o \in 1..Stored : q = At(o)
  BY DEF Freed
<1>12. Freed' = Freed \ {p}
  BY <1>2, <1>4, <1>8, <1>9, <1>10, <1>11
<1> QED
  BY <1>2, <1>12

-----------------------------------------------------------------------------
(* Allocating.                                                             *)

\* The head is taken off the list.
LEMMA AdoptFreeRanks ==
    ASSUME BinInv, FreeListOK, NEW r \in 0..1, NEW to \in 0..Stored, AdoptFree(r, to)
    PROVE  FreeListOK'
PROOF
<1>1. BinInv' /\ Promise!New(Stored + 1, r, to)
  BY AdoptFreeKeeps
<1>2. PICK rank \in [Positions -> Nat], bound \in Nat : Ranked(rank, bound)
  BY DEF FreeListOK
<1>3. Freed \in SUBSET Positions
  BY FreedPositions
<1>4. PICK p \in Freed : freeHead = BinId(p[1], p[2]) /\ \A q \in Freed : rank[q] <= rank[p]
  BY <1>2 DEF Ranked, Top, AdoptFree
<1>5. p \in Positions /\ PositionOf(freeHead) = p
  BY <1>3, <1>4, BinIdOfPosition
<1>6. Store(p, freeHead, NextGeneration(p), r, to) /\ freeHead' = slots[p].free
  BY <1>5 DEF AdoptFree
<1>7. /\ Freed' = Freed \ {p}
      /\ \A q \in Freed' : slots'[q].free = slots[q].free
  BY <1>1, <1>3, <1>6, StoreFreed
<1>8. \A q \in Freed : rank[q] \in Nat
  BY <1>3
<1>9. {q \in Freed : rank[q] < rank[p]} = Freed'
  BY <1>2, <1>4, <1>7, <1>8 DEF Ranked
<1>10. \A q \in Freed' : {o \in Freed : rank[o] < rank[q]} = {o \in Freed' : rank[o] < rank[q]}
  BY <1>4, <1>7, <1>8
<1>11. Top(rank, Freed', freeHead')
  BY <1>2, <1>4, <1>6, <1>9 DEF Ranked
<1>12. \A q \in Freed' : Top(rank, {o \in Freed' : rank[o] < rank[q]}, slots'[q].free)
  BY <1>2, <1>7, <1>10 DEF Ranked
<1>13. Ranked(rank, bound)'
  <2>1. /\ \A q \in Positions : rank[q] <= bound
        /\ \A q, o \in Freed' : rank[q] = rank[o] => q = o
    BY <1>2, <1>7 DEF Ranked
  <2> QED
    BY <1>11, <1>12, <2>1 DEF Ranked, Top
<1> QED
  BY <1>13 DEF FreeListOK

\* A slot that never had a value is taken only when the list is empty.
LEMMA AdoptNewRanks ==
    ASSUME OneLink, BinInv, FreeListOK, NEW r \in 0..1, NEW to \in 0..Stored,
           AdoptBump(r, to) \/ AdoptNewSlab(r, to) \/ AdoptNewChunk(r, to)
    PROVE  FreeListOK'
PROOF
<1>1. BinInv' /\ Promise!New(Stored + 1, r, to)
  BY AdoptBumpKeeps, AdoptNewKeeps
<1>2. freeHead = NoBin /\ freeHead' = freeHead
  BY DEF AdoptBump, AdoptNewSlab, AdoptNewChunk
<1>3. \E p, b, g : Store(p, b, g, r, to)
  BY DEF AdoptBump, AdoptNewSlab, AdoptNewChunk
<1>4. Freed \in SUBSET Positions
  BY FreedPositions
<1>5. Freed = {}
  <2>1. PICK rank \in [Positions -> Nat], bound \in Nat : Ranked(rank, bound)
    BY DEF FreeListOK
  <2>2. \A q \in Freed : BinId(q[1], q[2]) # NoBin
    BY <1>4, BinIdOfPosition
  <2> QED
    BY <1>2, <2>1, <2>2 DEF Ranked, Top
<1>6. Freed' = {}
  BY <1>1, <1>3, <1>5, StoreFreed
<1> QED
  BY <1>2, <1>5, <1>6, SameFreeList

-----------------------------------------------------------------------------
(* Steps that free nothing.                                                *)

LEMMA OtherStepsRank ==
    ASSUME OneLink, BinInv, FreeListOK,
           \/ \E o \in Objects : Upgrade(o) \/ CloneRoot(o) \/ DropRoot(o)
           \/ \E o \in Objects, to \in 0..Stored : Relink(o, to)
           \/ Abort
           \/ Mark
           \/ UNCHANGED vars
    PROVE  FreeListOK'
PROOF
<1>1. TypeOK /\ Freed \in SUBSET Positions
  BY FreedPositions DEF BinInv
<1>2. ASSUME refs' = refs, freeHead' = freeHead,
             \A p \in Positions : /\ slots'[p].allocated = slots[p].allocated
                                  /\ slots'[p].free = slots[p].free
      PROVE  FreeListOK'
  <2>1. Freed' = Freed
    <3>1. Stored' = Stored /\ \A o : At(o)' = At(o)
      BY <1>2 DEF Stored, At
    <3>2. \A o \in 1..Stored : At(o) \in Positions
      BY DEF BinInv, RefsOK
    <3> QED
      BY <1>2, <3>1, <3>2 DEF Freed
  <2> QED
    BY <1>1, <1>2, <2>1, SameFreeList
<1>3. ASSUME NEW o, NEW n, NEW h, CountRoots(o, n, h) PROVE FreeListOK'
  <2>1. /\ refs' = refs /\ freeHead' = freeHead
        /\ slots' = [slots EXCEPT ![At(o)].roots = n % (MaxRoots + 1)]
    BY <1>3 DEF CountRoots, At
  <2>2. PICK m : m = n % (MaxRoots + 1)
    OBVIOUS
  <2>3. \A p \in Positions : /\ slots'[p].allocated = slots[p].allocated
                             /\ slots'[p].free = slots[p].free
    <3>1. slots' = [slots EXCEPT ![At(o)].roots = m]
      BY <2>1, <2>2
    <3> QED
      BY <1>1, <3>1 DEF TypeOK, Slot
  <2> QED
    BY <1>2, <2>1, <2>3
<1>4. CASE \E o \in Objects : Upgrade(o) \/ CloneRoot(o) \/ DropRoot(o)
  BY <1>3, <1>4 DEF Upgrade, CloneRoot, DropRoot
<1>5. CASE \E o \in Objects, to \in 0..Stored : Relink(o, to)
  BY <1>2, <1>5 DEF Relink, slotVars
<1>6. CASE Abort
  BY <1>2, <1>6 DEF Abort, slotVars, programVars
<1>7. CASE Mark
  BY <1>2, <1>7, MarkEffect DEF BinInv, Mark, programVars
<1>8. CASE UNCHANGED vars
  BY <1>2, <1>8 DEF vars, slotVars, programVars
<1> QED
  BY <1>4, <1>5, <1>6, <1>7, <1>8

-----------------------------------------------------------------------------
(* Sweeping.                                                               *)

LEMMA Products ==
    \A a, b, s \in Nat : a <= b => a * s <= b * s /\ (a + 1) * s = a * s + s
PROOF
<1> TAKE a, b, s \in Nat
<1>1. (a + 1) * s = a * s + s
  OBVIOUS
<1>2. ASSUME a <= b PROVE a * s <= b * s
  <2>1. PICK d \in Nat : b = a + d
    BY <1>2
  <2>2. b * s = a * s + d * s
    BY <2>1
  <2>3. a * s \in Nat /\ d * s \in Nat
    OBVIOUS
  <2> QED
    BY <2>2, <2>3
<1> QED
  BY <1>1, <1>2

\* A sweep visits the slots in the order of their BinIds.
LEMMA BinIdOrder ==
    ASSUME NEW p \in Positions, NEW q \in Positions
    PROVE  /\ Before(p, q) <=> BinId(p[1], p[2]) < BinId(q[1], q[2])
           /\ BinId(p[1], p[2]) = BinId(q[1], q[2]) => p = q
           /\ BinId(p[1], p[2]) \in Nat \ {0}
           /\ BinId(p[1], p[2]) <= MaxSlabs * SlabSize + SlabSize
PROOF
<1>1. SlabSize \in Nat \ {0} /\ MaxSlabs \in Nat
  BY Sizes
<1>2. ASSUME NEW o \in Positions
      PROVE  /\ o[1] \in Nat /\ o[1] + 1 <= MaxSlabs /\ o[2] \in Nat /\ o[2] < SlabSize
             /\ o[1] * SlabSize \in Nat
             /\ BinId(o[1], o[2]) = o[1] * SlabSize + SlabSize + o[2]
  <2>1. o[1] \in Nat /\ o[1] + 1 <= MaxSlabs /\ o[2] \in Nat /\ o[2] < SlabSize
    BY <1>1, Pairs DEF Slabs, SlotIndex
  <2>2. (o[1] + 1) * SlabSize = o[1] * SlabSize + SlabSize
    BY <1>1, <2>1, Products
  <2>3. o[1] * SlabSize \in Nat
    BY <1>1, <2>1
  <2> QED
    BY <1>1, <2>1, <2>2, <2>3 DEF BinId
<1>3. ASSUME NEW o \in Positions, NEW w \in Positions, o[1] < w[1]
      PROVE  BinId(o[1], o[2]) < BinId(w[1], w[2])
  <2>1. (o[1] + 1) * SlabSize <= w[1] * SlabSize
    BY <1>1, <1>2, <1>3, Products
  <2>2. (o[1] + 1) * SlabSize = o[1] * SlabSize + SlabSize
    BY <1>1, <1>2, Products
  <2>3. o[1] * SlabSize + SlabSize <= w[1] * SlabSize
    BY <2>1, <2>2
  <2>4. \A a, c, i, j, s \in Nat : a + s <= c /\ i < s => a + s + i < c + s + j
    OBVIOUS
  <2> QED
    BY <1>1, <1>2, <2>3, <2>4
<1>4. p[1] = q[1] => (BinId(p[1], p[2]) < BinId(q[1], q[2]) <=> p[2] < q[2])
  <2>1. \A a, s, i, j \in Nat : a + s + i < a + s + j <=> i < j
    OBVIOUS
  <2> QED
    BY <1>1, <1>2, <2>1
<1>5. Before(p, q) <=> BinId(p[1], p[2]) < BinId(q[1], q[2])
  <2>1. BinId(p[1], p[2]) \in Nat /\ BinId(q[1], q[2]) \in Nat
    BY <1>1, <1>2
  <2>2. p[1] < q[1] \/ p[1] = q[1] \/ q[1] < p[1]
    BY <1>2
  <2> QED
    BY <1>2, <1>3, <1>4, <2>1, <2>2 DEF Before
<1>6. BinId(p[1], p[2]) = BinId(q[1], q[2]) => p = q
  BY BinIdOfPosition
<1>7. BinId(p[1], p[2]) \in Nat \ {0}
  BY <1>1, <1>2
<1>8. BinId(p[1], p[2]) <= MaxSlabs * SlabSize + SlabSize
  <2>1. (p[1] + 1) * SlabSize <= MaxSlabs * SlabSize
    BY <1>1, <1>2, Products
  <2>2. (p[1] + 1) * SlabSize \in Nat /\ MaxSlabs * SlabSize \in Nat
    BY <1>1, <1>2
  <2> QED
    BY <1>1, <1>2, <2>1, <2>2 DEF BinId
<1> QED
  BY <1>5, <1>6, <1>7, <1>8

LEMMA SweepRanks ==
    ASSUME OneLink, BinInv, FreeListOK, Sweep
    PROVE  FreeListOK'
PROOF
<1>1. /\ \A p \in Positions \ Swept : slots'[p] = slots[p]
      /\ \A p \in Swept : /\ ~slots'[p].allocated
                          /\ slots'[p].free = HeadAfter({q \in Swept : Before(q, p)})
  BY SweepEffect DEF BinInv
<1>2. /\ Swept = {p \in Positions : slots[p].allocated /\ slots[p].mark # markBits}
      /\ Freed \in SUBSET Positions
  BY SweptSlots, FreedPositions
<1>3. freeHead' = HeadAfter(Swept)
  BY DEF Sweep
<1>4. PICK old \in [Positions -> Nat], bound \in Nat : Ranked(old, bound)
  BY DEF FreeListOK
<1>5. PICK id \in [Positions -> Nat \ {0}] :
          /\ \A p \in Positions : id[p] = BinId(p[1], p[2])
          /\ \A p, q \in Positions : (Before(p, q) <=> id[p] < id[q]) /\ (id[p] = id[q] => p = q)
  <2> DEFINE f == [p \in Positions |-> BinId(p[1], p[2])]
  <2>1. f \in [Positions -> Nat \ {0}] /\ \A p \in Positions : f[p] = BinId(p[1], p[2])
    BY BinIdOrder
  <2>2. \A p, q \in Positions : (Before(p, q) <=> f[p] < f[q]) /\ (f[p] = f[q] => p = q)
    <3> TAKE p, q \in Positions
    <3> HIDE DEF f
    <3> QED
      BY <2>1, BinIdOrder
  <2> HIDE DEF f
  <2> QED
    BY <2>1, <2>2
<1>6. PICK rank \in [Positions -> Nat] :
          /\ \A p \in Swept : rank[p] = bound + id[p]
          /\ \A p \in Positions \ Swept : rank[p] = old[p]
  <2> DEFINE f == [p \in Positions |-> IF p \in Swept THEN bound + id[p] ELSE old[p]]
  <2>1. f \in [Positions -> Nat]
    OBVIOUS
  <2>2. /\ \A p \in Swept : f[p] = bound + id[p]
        /\ \A p \in Positions \ Swept : f[p] = old[p]
    BY <1>2
  <2> HIDE DEF f
  <2> QED
    BY <2>1, <2>2
<1>7. Freed' = Freed \cup Swept /\ Freed \cap Swept = {}
  <2>1. Stored' = Stored /\ \A o : At(o)' = At(o)
    BY DEF Sweep, programVars, Stored, At
  <2>2. \A o \in 1..Stored : At(o) \in Positions
    BY DEF BinInv, RefsOK
  <2>3. \A p \in Swept : \E o \in 1..Stored : p = At(o)
    BY <1>2 DEF BinInv, SlotsOK
  <2>4. Freed' = {p \in {At(o) : o \in 1..Stored} : ~slots'[p].allocated}
    BY <2>1 DEF Freed
  <2>5. Freed \cap Swept = {}
    BY <1>2 DEF Freed
  <2>6. \A p \in Freed : p \in {At(o) : o \in 1..Stored} /\ ~slots'[p].allocated
    BY <1>1, <1>2, <2>5 DEF Freed
  <2>7. \A p \in Swept : p \in {At(o) : o \in 1..Stored} /\ ~slots'[p].allocated
    BY <1>1, <2>3
  <2>8. ASSUME NEW p \in Freed', p \notin Swept PROVE p \in Freed
    <3>1. p \in {At(o) : o \in 1..Stored} /\ ~slots'[p].allocated /\ p \in Positions
      BY <2>2, <2>4
    <3>2. slots'[p] = slots[p]
      BY <1>1, <2>8, <3>1
    <3> QED
      BY <3>1, <3>2 DEF Freed
  <2> QED
    BY <2>4, <2>5, <2>6, <2>7, <2>8
<1>8. /\ \A p \in Freed : p \in Positions \ Swept /\ rank[p] = old[p]
      /\ \A p \in Freed : rank[p] <= bound
      /\ \A p \in Swept : bound < rank[p]
      /\ \A p \in Positions : rank[p] \in Nat
  <2>1. \A p \in Freed : p \in Positions \ Swept /\ rank[p] = old[p]
    BY <1>2, <1>6, <1>7
  <2>2. \A p \in Freed : rank[p] <= bound
    BY <1>4, <2>1 DEF Ranked
  <2>3. \A p \in Swept : bound < rank[p]
    BY <1>2, <1>6
  <2> QED
    BY <1>6, <2>1, <2>2, <2>3
<1>9. \A p, q \in Swept : rank[p] < rank[q] <=> Before(p, q)
  BY <1>2, <1>5, <1>6
<1>10. ASSUME NEW T \in SUBSET Swept
       PROVE  Top(rank, Freed \cup T, HeadAfter(T))
  <2>1. CASE T = {}
    <3>1. HeadAfter(T) = freeHead
      BY <2>1 DEF HeadAfter
    <3>2. Top(old, Freed, freeHead)
      BY <1>4 DEF Ranked
    <3>3. Top(rank, Freed, freeHead)
      BY <1>8, <3>2 DEF Top
    <3> QED
      BY <2>1, <3>1, <3>3
  <2>2. CASE T # {}
    <3>1. PICK q \in T : HeadAfter(T) = BinId(q[1], q[2]) /\ \A p \in T \ {q} : Before(p, q)
      <4>1. T \in SUBSET Positions
        BY <1>2
      <4>2. \E q \in T : \A p \in T \ {q} : Before(p, q)
        BY <2>2, <4>1, LastPosition
      <4> QED
        BY <2>2, <4>2 DEF HeadAfter
    <3>2. \A p \in T : rank[p] <= rank[q]
      BY <1>2, <1>8, <1>9, <3>1
    <3>3. \A p \in Freed : rank[p] <= rank[q]
      BY <1>2, <1>8
    <3> QED
      BY <3>1, <3>2, <3>3 DEF Top
  <2> QED
    BY <2>1, <2>2
<1>11. Top(rank, Freed', freeHead')
  BY <1>3, <1>7, <1>10
<1>12. ASSUME NEW p \in Freed'
       PROVE  Top(rank, {q \in Freed' : rank[q] < rank[p]}, slots'[p].free)
  <2>1. CASE p \in Swept
    <3> DEFINE T == {q \in Swept : Before(q, p)}
    <3>1. {q \in Freed' : rank[q] < rank[p]} = Freed \cup T
      <4>1. \A q \in Freed : rank[q] < rank[p]
        BY <1>2, <1>8, <2>1
      <4>2. \A q \in Swept : rank[q] < rank[p] <=> Before(q, p)
        BY <1>9, <2>1
      <4> QED
        BY <1>7, <4>1, <4>2
    <3>2. slots'[p].free = HeadAfter(T)
      BY <1>1, <2>1
    <3>3. T \in SUBSET Swept
      OBVIOUS
    <3> HIDE DEF T
    <3> QED
      BY <1>10, <3>1, <3>2, <3>3
  <2>2. CASE p \in Freed
    <3>1. {q \in Freed' : rank[q] < rank[p]} = {q \in Freed : old[q] < old[p]}
      <4>1. \A q \in Swept : ~(rank[q] < rank[p])
        BY <1>2, <1>8, <2>2
      <4>2. \A q \in Freed : rank[q] = old[q] /\ rank[p] = old[p]
        BY <1>8, <2>2
      <4> QED
        BY <1>7, <4>1, <4>2
    <3>2. Top(old, {q \in Freed : old[q] < old[p]}, slots[p].free)
      BY <1>4, <2>2 DEF Ranked
    <3>3. Top(rank, {q \in Freed : old[q] < old[p]}, slots[p].free)
      BY <1>8, <3>2 DEF Top
    <3>4. slots'[p].free = slots[p].free
      BY <1>1, <1>8, <2>2
    <3> QED
      BY <3>1, <3>3, <3>4
  <2> QED
    BY <1>7, <2>1, <2>2
<1>13. \A p, q \in Freed' : rank[p] = rank[q] => p = q
  <2> SUFFICES ASSUME NEW p \in Freed', NEW q \in Freed', rank[p] = rank[q] PROVE p = q
    OBVIOUS
  <2>1. CASE p \in Freed /\ q \in Freed
    BY <1>4, <1>8, <2>1 DEF Ranked
  <2>2. CASE p \in Swept /\ q \in Swept
    <3>1. bound + id[p] = bound + id[q] /\ id[p] \in Nat /\ id[q] \in Nat
      BY <1>2, <1>5, <1>6, <2>2
    <3>2. id[p] = id[q] /\ p \in Positions /\ q \in Positions
      BY <1>2, <2>2, <3>1
    <3> QED
      BY <1>5, <3>2
  <2>3. p \in Freed <=> q \in Freed
    BY <1>2, <1>7, <1>8
  <2> QED
    BY <1>7, <2>1, <2>2, <2>3
<1>14. PICK top \in Nat : \A p \in Positions : rank[p] <= top
  <2>1. PICK top \in Nat : top = bound + (MaxSlabs * SlabSize + SlabSize)
    <3>1. MaxSlabs * SlabSize + SlabSize \in Nat
      BY Sizes
    <3> QED
      BY <3>1
  <2>2. ASSUME NEW p \in Positions PROVE rank[p] <= top
    <3>1. PICK m \in Nat : m = MaxSlabs * SlabSize + SlabSize /\ top = bound + m
      BY Sizes, <2>1
    <3>2. id[p] <= m /\ id[p] \in Nat
      BY <1>5, <3>1, BinIdOrder
    <3>3. old[p] <= bound /\ old[p] \in Nat
      BY <1>4 DEF Ranked
    <3>4. rank[p] = bound + id[p] \/ rank[p] = old[p]
      BY <1>6
    <3> QED
      BY <3>1, <3>2, <3>3, <3>4
  <2> QED
    BY <2>2
<1>15. Ranked(rank, top)'
  BY <1>11, <1>12, <1>13, <1>14 DEF Ranked, Top
<1> QED
  BY <1>15 DEF FreeListOK

-----------------------------------------------------------------------------
(* The invariant holds in every state, and says what the free list is.     *)

LEMMA FreeListInvariant ==
    ASSUME OneLink
    PROVE  Spec => []FreeListOK
PROOF
<1>1. Init => FreeListOK
  <2> SUFFICES ASSUME Init PROVE FreeListOK
    OBVIOUS
  <2>1. Freed = {} /\ freeHead = NoBin
    BY DEF Init, Stored, Freed
  <2>2. PICK rank : rank = [p \in Positions |-> 0]
    OBVIOUS
  <2>3. rank \in [Positions -> Nat] /\ \A p \in Positions : rank[p] <= 0
    BY <2>2
  <2>4. Ranked(rank, 0)
    BY <2>1, <2>3 DEF Ranked, Top
  <2> QED
    BY <2>3, <2>4 DEF FreeListOK
<1>2. ASSUME BinInv, FreeListOK, [Next]_vars PROVE FreeListOK'
  <2>1. ASSUME NEW r \in 0..1, NEW to \in 0..Stored, AdoptFree(r, to) PROVE FreeListOK'
    BY <1>2, <2>1, AdoptFreeRanks
  <2>2. ASSUME NEW r \in 0..1, NEW to \in 0..Stored,
               AdoptBump(r, to) \/ AdoptNewSlab(r, to) \/ AdoptNewChunk(r, to)
        PROVE  FreeListOK'
    BY <1>2, <2>2, AdoptNewRanks
  <2>3. CASE Sweep
    BY <1>2, <2>3, SweepRanks
  <2>4. CASE \/ \E o \in Objects : Upgrade(o) \/ CloneRoot(o) \/ DropRoot(o)
             \/ \E o \in Objects, to \in 0..Stored : Relink(o, to)
             \/ Abort
             \/ Mark
             \/ UNCHANGED vars
    BY <1>2, <2>4, OtherStepsRank
  <2> QED
    BY <1>2, <2>1, <2>2, <2>3, <2>4 DEF Next
<1>3. BinInv /\ FreeListOK /\ [Next]_vars => FreeListOK'
  BY <1>2
<1> QED
  BY <1>1, <1>3, BinInvariant, PTL DEF Spec

\* Bin::adopt finds each slot that a sweep freed, once, and its loop never meets
\* a slot with a value, on which it would spin.
THEOREM FreeListIsSound ==
    ASSUME OneLink
    PROVE  Spec => []FreeListSound
PROOF
<1>1. ASSUME BinInv, FreeListOK PROVE FreeListSound
  <2>1. PICK rank \in [Positions -> Nat], bound \in Nat : Ranked(rank, bound)
    BY <1>1 DEF FreeListOK
  <2>2. Freed \in SUBSET Positions /\ \A p \in Freed : rank[p] \in 0..bound
    BY <1>1, <2>1, FreedPositions DEF Ranked
  <2>3. \A p \in Positions : BinId(p[1], p[2]) # NoBin /\ PositionOf(BinId(p[1], p[2])) = p
    BY BinIdOfPosition
  <2>4. FollowsFreeList(Freed)
    <3>1. freeHead # NoBin => PositionOf(freeHead) \in Freed
      BY <2>1, <2>2, <2>3 DEF Ranked, Top
    <3>2. ASSUME NEW p \in Freed, slots[p].free # NoBin PROVE PositionOf(slots[p].free) \in Freed
      BY <2>1, <2>2, <2>3, <3>2 DEF Ranked, Top
    <3> QED
      BY <3>1, <3>2 DEF FollowsFreeList
  <2>5. ASSUME NEW C \in SUBSET Positions, FollowsFreeList(C) PROVE Freed \subseteq C
    <3> SUFFICES ASSUME Freed \ C # {} PROVE FALSE
      OBVIOUS
    <3>1. PICK p \in Freed \ C : \A q \in Freed \ C : rank[q] <= rank[p]
      <4> DEFINE R == {rank[q] : q \in Freed \ C}
      <4>1. R \in SUBSET (0..bound) /\ R # {}
        BY <2>2
      <4>2. PICK m \in R : \A k \in R : k <= m
        <5> HIDE DEF R
        <5> QED
          BY <4>1, MaxOfNaturals
      <4> QED
        BY <4>2
    <3>2. CASE \A q \in Freed : rank[q] <= rank[p]
      <4>1. PICK q \in Freed : freeHead = BinId(q[1], q[2]) /\ \A o \in Freed : rank[o] <= rank[q]
        BY <2>1 DEF Ranked, Top
      <4>2. q = p
        <5>1. rank[q] <= rank[p] /\ rank[p] <= rank[q] /\ rank[p] \in Nat /\ rank[q] \in Nat
          BY <2>2, <3>2, <4>1
        <5> QED
          BY <2>1, <5>1 DEF Ranked
      <4>3. q \in C
        BY <2>2, <2>3, <2>5, <4>1 DEF FollowsFreeList
      <4> QED
        BY <4>2, <4>3
    <3>3. CASE \E q \in Freed : ~(rank[q] <= rank[p])
      <4>1. PICK q \in Freed : rank[p] < rank[q] /\ \A o \in Freed : rank[p] < rank[o] => rank[q] <= rank[o]
        <5> DEFINE R == {rank[o] : o \in {w \in Freed : rank[p] < rank[w]}}
        <5>1. R \in SUBSET Nat /\ R # {}
          BY <2>2, <3>3
        <5>2. PICK m \in R : \A k \in R : m <= k
          <6> HIDE DEF R
          <6> QED
            BY <5>1, LeastNatural
        <5> QED
          BY <5>2
      <4>2. q \in C
        <5>1. rank[q] \in Nat /\ rank[p] \in Nat
          BY <2>2
        <5> QED
          BY <3>1, <4>1, <5>1
      <4>3. PICK o \in {w \in Freed : rank[w] < rank[q]} :
                /\ slots[q].free = BinId(o[1], o[2])
                /\ \A w \in {v \in Freed : rank[v] < rank[q]} : rank[w] <= rank[o]
        BY <2>1, <4>1 DEF Ranked, Top
      <4>4. o = p
        <5>1. rank[o] \in Nat /\ rank[p] \in Nat /\ rank[q] \in Nat
          BY <2>2
        <5>2. rank[p] <= rank[o] /\ rank[o] < rank[q]
          BY <4>1, <4>3
        <5>3. ~(rank[p] < rank[o])
          BY <4>1, <5>1, <5>2
        <5>4. rank[p] = rank[o]
          BY <5>1, <5>2, <5>3
        <5> QED
          BY <2>1, <5>4 DEF Ranked
      <4>5. o \in C
        BY <2>2, <2>3, <2>5, <4>2, <4>3 DEF FollowsFreeList
      <4> QED
        BY <4>4, <4>5
    <3> QED
      BY <3>2, <3>3
  <2>6. FreeList = Freed
    BY <2>2, <2>4, <2>5 DEF FreeList
  <2>7. Freed # {} => \E p \in Freed : slots[p].free = NoBin
    <3> SUFFICES ASSUME Freed # {} PROVE \E p \in Freed : slots[p].free = NoBin
      OBVIOUS
    <3>1. PICK p \in Freed : \A q \in Freed : rank[p] <= rank[q]
      <4> DEFINE R == {rank[q] : q \in Freed}
      <4>1. R \in SUBSET Nat /\ R # {}
        BY <2>2
      <4>2. PICK m \in R : \A k \in R : m <= k
        <5> HIDE DEF R
        <5> QED
          BY <4>1, LeastNatural
      <4> QED
        BY <4>2
    <3>2. {q \in Freed : rank[q] < rank[p]} = {}
      BY <2>2, <3>1
    <3>3. slots[p].free = NoBin
      BY <2>1, <3>2 DEF Ranked, Top
    <3> QED
      BY <3>3
  <2>8. Freed = {p \in {PositionOf(refs[o].bin) : o \in 1..Stored} : ~slots[p].allocated}
    BY DEF Freed, At
  <2> QED
    BY <2>6, <2>7, <2>8 DEF FreeListSound
<1>2. BinInv /\ FreeListOK => FreeListSound
  BY <1>1
<1> QED
  BY <1>2, BinInvariant, FreeListInvariant, PTL
===============================================================================
