------------------------------- MODULE BinProofs -------------------------------
(***************************************************************************)
(* Proofs about Bin, for any sizes and bounds, of a chain with one link:   *)
(* a Ref loads its own value or none, a Root's value is there, the slots   *)
(* implement Heap.  (With a second link they do not: Bin's SlabsIter does  *)
(* not reach it and BinIds repeat.)                                        *)
(***************************************************************************)
EXTENDS Bin, SequenceTheorems, FiniteSetTheorems, TLAPS

-----------------------------------------------------------------------------
(* The inductive invariant.                                                *)

\* Where the Ref of value o points to, and whether it loads.
At(o) == PositionOf(refs[o].bin)
Loads(o) == slots[At(o)].allocated /\ slots[At(o)].generation = refs[o].generation

\* A Ref is of a slot that there is, of its generation or an earlier one; no
\* two Refs are of the same slot and generation.
RefsOK ==
    /\ Stored <= MaxObjects
    /\ \A o \in 1..Stored :
          /\ At(o) \in Positions /\ At(o)[1] < slabs
          /\ refs[o].generation <= slots[At(o)].generation
          /\ \A w \in 1..Stored :
                At(w) = At(o) /\ refs[w].generation = refs[o].generation => w = o

\* Generations do not outnumber the values stored, so they do not wrap.
GenerationsOK == \A p \in Positions : slots[p].generation <= Stored

\* No call drops a Root that it does not give up (Root::try_from_any does).
Counting == "try_from_any" \notin Calls

\* A value in a slot is the one whose Ref loads it, and its Roots are counted.
SlotsOK ==
    \A p \in Positions : slots[p].allocated =>
        /\ p[1] < slabs /\ p[2] <= lastAllocated[p[1]]
        /\ \E o \in 1..Stored : /\ slots[p].value = o /\ At(o) = p
                                /\ refs[o].generation = slots[p].generation
                                /\ Counting => slots[p].roots = handles[o]

HandlesOK ==
    /\ \A o \in Objects : handles[o] > 0 => o \in 1..Stored /\ (Counting => Loads(o))
    /\ \A o \in Objects : link[o] \in 0..Stored

\* The free list stays in the slabs that there are.
FreeOK ==
    /\ freeHead # NoBin => PositionOf(freeHead)[1] < slabs
    /\ \A p \in Positions :
          slots[p].free # NoBin => PositionOf(slots[p].free)[1] < slabs

\* Outside of a collection a slot has the mark bits of the last collection, from
\* which "aborts" steps, never through 0, led to those of today, or has 0.
MarksOK ==
    ~marking => \A p \in Positions : slots[p].allocated =>
        \/ slots[p].mark = 0
        \/ slots[p].mark = markBits - aborts
        \/ slots[p].mark = markBits - aborts + (MarkMod - 1)

\* Between mark and sweep every value with a root is marked, and so is what the
\* Refs of marked values load.
MarkedOK ==
    marking =>
        /\ aborts = 0
        /\ Counting => \A p \in Positions :
              slots[p].allocated /\ slots[p].roots > 0 => slots[p].mark = markBits
        /\ \A p \in Positions, o \in 1..Stored :
              /\ slots[p].allocated /\ slots[p].mark = markBits
              /\ link[slots[p].value] = o /\ Loads(o)
              => slots[At(o)].mark = markBits

BinInv ==
    /\ TypeOK
    /\ RefsOK
    /\ GenerationsOK
    /\ SlotsOK
    /\ HandlesOK
    /\ FreeOK
    /\ MarksOK
    /\ MarkedOK

-----------------------------------------------------------------------------
(* Numbers.                                                                *)

\* The slabs that the bins of all programs stay within that the code is right
\* for: the chain has one link.
OneLink == MaxSlabs <= SlabsPerChunk

LEMMA Sizes ==
    /\ SlabSize \in Nat \ {0} /\ SlabsPerChunk \in Nat \ {0} /\ MaxSlabs \in Nat \ {0}
    /\ MaxRoots \in Nat \ {0} /\ MaxAborts \in Nat /\ MaxObjects \in Nat
    /\ GenMod \in Nat /\ GenMod > MaxObjects
    /\ MarkMod \in Nat /\ MarkMod > MaxAborts + 2
PROOF
  BY BinConstants

LEMMA Pairs ==
    /\ \A i \in Slabs, j \in SlotIndex :
          <<i, j>> \in Positions /\ <<i, j>>[1] = i /\ <<i, j>>[2] = j
    /\ \A p \in Positions : p = <<p[1], p[2]>> /\ p[1] \in Slabs /\ p[2] \in SlotIndex
    /\ Slabs \subseteq Nat /\ SlotIndex \subseteq Nat
PROOF
  BY Sizes DEF Positions, Slabs, SlotIndex

\* BinId::new is undone by BinId::slab and BinId::slot, and is never 0.
LEMMA BinIdOfPosition ==
    ASSUME NEW p \in Positions
    PROVE  /\ BinId(p[1], p[2]) \in BinIds /\ BinId(p[1], p[2]) # NoBin
           /\ PositionOf(BinId(p[1], p[2])) = p
PROOF
<1>1. /\ p = <<p[1], p[2]>> /\ p[1] \in Nat /\ p[2] \in 0..(SlabSize - 1)
      /\ SlabSize \in Nat \ {0}
  BY Sizes DEF Positions, Slabs, SlotIndex
<1>2. /\ ((p[1] + 1) * SlabSize + p[2]) \div SlabSize = p[1] + 1
      /\ ((p[1] + 1) * SlabSize + p[2]) % SlabSize = p[2]
      /\ (p[1] + 1) * SlabSize + p[2] # 0
  BY <1>1
<1> QED
  BY <1>1, <1>2 DEF BinId, PositionOf, BinIds, NoBin

LEMMA PositionOfBinId ==
    ASSUME NEW b \in BinIds, b # NoBin
    PROVE  PositionOf(b) \in Positions /\ b = BinId(PositionOf(b)[1], PositionOf(b)[2])
PROOF
<1>1. PICK p \in Positions : b = BinId(p[1], p[2])
  BY DEF BinIds
<1> QED
  BY <1>1, BinIdOfPosition

\* A set of numbers has a least one.
LEMMA LeastNatural ==
    ASSUME NEW S \in SUBSET Nat, S # {}
    PROVE  \E n \in S : \A m \in S : n <= m
PROOF
<1> DEFINE T == {I \in FiniteSubsetsOf(Nat) : \E n \in S : I = 0..n}
           R == StrictSubsetOrdering(Nat)
<1>1. \A n \in Nat : 0..n \in FiniteSubsetsOf(Nat)
  <2> TAKE n \in Nat
  <2>1. IsFiniteSet(0..n)
    BY FS_Interval
  <2> QED
    BY <2>1 DEF FiniteSubsetsOf
<1>2. T # {} /\ T \subseteq FiniteSubsetsOf(Nat)
  BY <1>1
<1>3. IsWellFoundedOn(R, FiniteSubsetsOf(Nat))
  BY FS_StrictSubsetOrderingWellFounded
<1>4. \E I \in T : \A J \in T : <<J, I>> \notin R
  <2> HIDE DEF T, R
  <2> QED
    BY <1>2, <1>3, WFMin
<1>5. PICK n \in S : \A J \in T : <<J, 0..n>> \notin R
  BY <1>4
<1>6. ASSUME NEW m \in S, m < n PROVE FALSE
  <2>1. 0..m \in T
    BY <1>1
  <2>2. 0..m \subseteq 0..n /\ 0..m # 0..n /\ 0..m \subseteq Nat /\ 0..n \subseteq Nat
    <3>1. n \in 0..n /\ n \notin 0..m
      BY <1>6
    <3> QED
      BY <1>6, <3>1
  <2> QED
    BY <1>5, <2>1, <2>2 DEF StrictSubsetOrdering
<1> QED
  BY <1>6

LEMMA MinOfNaturals ==
    ASSUME NEW S \in SUBSET Nat, S # {}
    PROVE  Min(S) \in S /\ \A m \in S : Min(S) <= m
PROOF
  BY LeastNatural DEF Min

\* A set of numbers up to b has a greatest one.
LEMMA MaxOfNaturals ==
    ASSUME NEW b \in Nat, NEW S \in SUBSET (0..b), S # {}
    PROVE  Max(S) \in S /\ \A m \in S : m <= Max(S)
PROOF
<1> DEFINE T == {b - m : m \in S}
<1>1. T \in SUBSET Nat /\ T # {}
  OBVIOUS
<1>2. PICK n \in S : \A k \in T : b - n <= k
  <2> HIDE DEF T
  <2>1. PICK j \in T : \A k \in T : j <= k
    BY <1>1, LeastNatural
  <2>2. PICK n \in S : j = b - n
    BY <2>1 DEF T
  <2> QED
    BY <2>1, <2>2
<1>3. \A m \in S : m <= n
  BY <1>2
<1>4. \E x \in S : \A y \in S : x >= y
  BY <1>3
<1>5. Max(S) \in S /\ \A y \in S : Max(S) >= y
  BY <1>4 DEF Max
<1> QED
  BY <1>5

\* In a chain of one link the last Slabs is the first, and the sweep sees all of it.
LEMMA OneLinkChain ==
    ASSUME OneLink, TypeOK
    PROVE  /\ IteratedSlabs = {s \in Slabs : s < slabs}
           /\ slabs > 0 => TailLink = 0 /\ TailSize = slabs
           /\ 0 \in Chunks
           /\ slabs \in Nat /\ slabs <= MaxSlabs /\ slabs <= SlabsPerChunk
PROOF
<1>1. slabs \in Nat /\ slabs <= MaxSlabs /\ slabs <= SlabsPerChunk
  BY Sizes DEF TypeOK, OneLink
<1>2. IteratedSlabs = {s \in Slabs : s < slabs}
  BY <1>1, Sizes DEF IteratedSlabs, Slabs
<1>3. slabs > 0 => TailLink = 0 /\ TailSize = slabs
  <2> SUFFICES ASSUME slabs > 0 PROVE TailLink = 0 /\ TailSize = slabs
    OBVIOUS
  <2>1. \A n, m \in Nat : n < m => n \div m = 0
    OBVIOUS
  <2>2. TailLink = 0
    BY <1>1, <2>1, Sizes DEF TailLink
  <2> QED
    BY <1>1, <2>2, Sizes DEF TailSize
<1>4. 0 \in Chunks
  BY Sizes DEF Chunks
<1> QED
  BY <1>1, <1>2, <1>3, <1>4

LEMMA SlotFields ==
    ASSUME TypeOK, NEW p \in Positions
    PROVE  /\ slots[p] \in Slot
           /\ slots[p].allocated \in BOOLEAN
           /\ slots[p].generation \in Nat /\ slots[p].generation < GenMod
           /\ slots[p].mark \in 0..(MarkMod - 1)
           /\ slots[p].value \in 0..MaxObjects
           /\ slots[p].roots \in 0..MaxRoots
           /\ slots[p].free \in BinIds
PROOF
  BY Sizes DEF TypeOK, Slot

LEMMA RefFields ==
    ASSUME TypeOK, NEW o \in 1..Stored
    PROVE  /\ refs[o] \in [bin : BinIds, generation : 0..(GenMod - 1)]
           /\ refs[o].bin \in BinIds /\ refs[o].generation \in Nat
           /\ Stored \in Nat
PROOF
<1>1. refs \in Seq([bin : BinIds, generation : 0..(GenMod - 1)])
  BY DEF TypeOK
<1>2. Stored \in Nat /\ refs[o] \in [bin : BinIds, generation : 0..(GenMod - 1)]
  BY <1>1, LenProperties DEF Stored
<1> QED
  BY <1>2

LEMMA StoredIsNat == TypeOK => Stored \in Nat
PROOF
  BY LenProperties DEF TypeOK, Stored

-----------------------------------------------------------------------------
(* Loading.                                                                *)

\* What a Ref loads is its value or nothing.
LEMMA LoadOfRef ==
    ASSUME BinInv, NEW o \in 1..Stored
    PROVE  /\ Load(refs[o]) = IF Loads(o) THEN o ELSE 0
           /\ Loads(o) => slots[At(o)].value = o
PROOF
<1>1. At(o) \in Positions /\ At(o)[1] < slabs
  BY DEF BinInv, RefsOK
<1>2. ASSUME Loads(o) PROVE slots[At(o)].value = o
  BY <1>1, <1>2 DEF BinInv, RefsOK, SlotsOK, Loads
<1> QED
  BY <1>1, <1>2 DEF Load, Loads, At

LoadsRight == Loadable = {o \in 1..Stored : Loads(o)}

LEMMA Loadables == BinInv => LoadsRight
PROOF
<1> SUFFICES ASSUME BinInv PROVE LoadsRight
  OBVIOUS
<1>1. \A o \in 1..Stored : Load(refs[o]) = o <=> Loads(o)
  <2> TAKE o \in 1..Stored
  <2>1. Load(refs[o]) = IF Loads(o) THEN o ELSE 0
    BY LoadOfRef
  <2>2. o # 0
    BY StoredIsNat DEF BinInv
  <2> QED
    BY <2>1, <2>2
<1> QED
  BY <1>1 DEF Loadable, LoadsRight

LEMMA LoadablesNext == BinInv' => Loadable' = {o \in 1..Stored' : Loads(o)'}
PROOF
<1>1. BinInv' => LoadsRight'
  BY Loadables, PTL
<1> QED
  BY <1>1 DEF LoadsRight

-----------------------------------------------------------------------------
(* Allocating.                                                             *)

\* What Store does to each slot and to the program's variables.
LEMMA StoreEffect ==
    ASSUME TypeOK, NEW p \in Positions, NEW b \in BinIds, NEW g \in 0..(GenMod - 1),
           NEW r \in 0..1, NEW to \in 0..Stored, MayStore(to), Store(p, b, g, r, to)
    PROVE  /\ slots' \in [Positions -> Slot]
           /\ \A q \in Positions \ {p} : slots'[q] = slots[q]
           /\ slots'[p].allocated /\ slots'[p].generation = g /\ slots'[p].mark = 0
           /\ slots'[p].value = Stored + 1 /\ slots'[p].roots = r
           /\ slots'[p].free = NoBin
           /\ refs' \in Seq([bin : BinIds, generation : 0..(GenMod - 1)])
           /\ Stored' = Stored + 1 /\ Stored + 1 \in Objects
           /\ \A o \in 1..Stored : refs'[o] = refs[o]
           /\ refs'[Stored + 1].bin = b /\ refs'[Stored + 1].generation = g
           /\ link' \in [Objects -> 0..MaxObjects]
           /\ \A o \in Objects \ {Stored + 1} : link'[o] = link[o]
           /\ link'[Stored + 1] = to
           /\ handles' \in [Objects -> 0..MaxRoots]
           /\ \A o \in Objects \ {Stored + 1} : handles'[o] = handles[o]
           /\ handles'[Stored + 1] = r
PROOF
<1> DEFINE Ref == [bin : BinIds, generation : 0..(GenMod - 1)]
           ref == [bin |-> b, generation |-> g]
<1>1. Stored \in Nat /\ Stored + 1 \in Objects /\ Stored + 1 \in 0..MaxObjects
      /\ 0 \in 0..(MarkMod - 1) /\ r \in 0..MaxRoots /\ to \in 0..MaxObjects
      /\ NoBin \in BinIds
  <2>1. Stored \in Nat /\ Stored < MaxObjects
    BY StoredIsNat DEF MayStore
  <2> QED
    BY <2>1, Sizes DEF Objects, BinIds
<1> DEFINE slot == [allocated |-> TRUE, generation |-> g, mark |-> 0,
                    value |-> Stored + 1, roots |-> r, free |-> NoBin]
<1>2. slot \in Slot
  BY <1>1 DEF Slot
<1>3. /\ slots' \in [Positions -> Slot] /\ slots'[p] = slot
      /\ \A q \in Positions \ {p} : slots'[q] = slots[q]
  <2> HIDE DEF slot
  <2>1. slots' = [slots EXCEPT ![p] = slot]
    BY DEF Store, slot
  <2> QED
    BY <1>2, <2>1 DEF TypeOK
<1>4. /\ refs' \in Seq(Ref) /\ Len(refs') = Stored + 1
      /\ \A o \in 1..Stored : refs'[o] = refs[o]
      /\ refs'[Stored + 1] = ref
  <2>1. refs \in Seq(Ref) /\ ref \in Ref /\ refs' = Append(refs, ref)
    BY DEF TypeOK, Store
  <2> HIDE DEF Ref, ref
  <2> QED
    BY <2>1, AppendProperties DEF Stored
<1>5. /\ link' \in [Objects -> 0..MaxObjects]
      /\ \A o \in Objects \ {Stored + 1} : link'[o] = link[o]
      /\ link'[Stored + 1] = to
      /\ handles' \in [Objects -> 0..MaxRoots]
      /\ \A o \in Objects \ {Stored + 1} : handles'[o] = handles[o]
      /\ handles'[Stored + 1] = r
  BY <1>1 DEF TypeOK, Store
<1>6. Stored' = Stored + 1
  BY <1>4 DEF Stored
<1> QED
  BY <1>1, <1>3, <1>4, <1>5, <1>6

\* A slot without a value, of a generation that no Ref of it has, gets the next
\* value.
LEMMA StoreKeeps ==
    ASSUME BinInv, NEW p \in Positions, NEW g \in 0..(GenMod - 1),
           NEW r \in 0..1, NEW to \in 0..Stored,
           MayStore(to), Store(p, BinId(p[1], p[2]), g, r, to),
           ~slots[p].allocated,
           g <= Stored + 1, \A o \in 1..Stored : At(o) = p => refs[o].generation < g,
           slabs' \in 0..MaxSlabs, slabs <= slabs', p[1] < slabs',
           lastAllocated' \in [Slabs -> SlotIndex],
           \A s \in Slabs : lastAllocated[s] <= lastAllocated'[s],
           p[2] <= lastAllocated'[p[1]],
           firstFree' \in [Chunks -> 0..(SlabsPerChunk - 1)],
           freeHead' \in BinIds,
           freeHead' # NoBin => PositionOf(freeHead')[1] < slabs,
           UNCHANGED collectVars
    PROVE  BinInv' /\ Promise!New(Stored + 1, r, to)
PROOF
<1> DEFINE b == BinId(p[1], p[2])
<1>1. b \in BinIds /\ b # NoBin /\ PositionOf(b) = p
  BY BinIdOfPosition
<1>2. /\ TypeOK /\ RefsOK /\ GenerationsOK /\ SlotsOK /\ HandlesOK /\ FreeOK /\ MarksOK
      /\ MarkedOK /\ Stored \in Nat /\ ~marking
  BY StoredIsNat DEF BinInv, MayStore
<1>n. PICK n \in Nat : n = Stored + 1
  BY <1>2
<1>3. /\ slots' \in [Positions -> Slot]
      /\ \A q \in Positions \ {p} : slots'[q] = slots[q]
      /\ slots'[p].allocated /\ slots'[p].generation = g /\ slots'[p].mark = 0
      /\ slots'[p].value = n /\ slots'[p].roots = r
      /\ slots'[p].free = NoBin
      /\ refs' \in Seq([bin : BinIds, generation : 0..(GenMod - 1)])
      /\ Stored' = n /\ n \in Objects
      /\ \A o \in 1..Stored : refs'[o] = refs[o]
      /\ refs'[n].bin = b /\ refs'[n].generation = g
      /\ link' \in [Objects -> 0..MaxObjects]
      /\ \A o \in Objects \ {n} : link'[o] = link[o]
      /\ link'[n] = to
      /\ handles' \in [Objects -> 0..MaxRoots]
      /\ \A o \in Objects \ {n} : handles'[o] = handles[o]
      /\ handles'[n] = r
  <2>1. Store(p, b, g, r, to)
    OBVIOUS
  <2> HIDE DEF b
  <2> QED
    BY <1>1, <1>2, <1>n, <2>1, StoreEffect
<1>4. /\ \A o \in 1..Stored : At(o)' = At(o)
      /\ At(n)' = p
      /\ \A o \in 1..Stored' : o \in 1..Stored \/ o = n
      /\ \A o \in 1..Stored : o \in 1..Stored' /\ o \in Objects \ {n}
  <2>1. \A o \in 1..Stored : At(o)' = At(o)
    BY <1>3 DEF At
  <2>2. At(n)' = PositionOf(refs'[n].bin)
    BY <1>3 DEF At
  <2>3. At(n)' = p
    BY <1>1, <1>3, <2>2
  <2>4. 1..Stored' = 1..Stored \cup {n} /\ n \notin 1..Stored
    BY <1>2, <1>n, <1>3
  <2>5. 1..Stored' \subseteq Objects
    BY <1>2, <1>n, <1>3, Sizes DEF Objects
  <2> QED
    BY <2>1, <2>3, <2>4, <2>5
<1> HIDE DEF b
<1>s. /\ \A q \in Positions \ {p} : slots'[q] = slots[q]
      /\ slots'[p].allocated /\ slots'[p].generation = g
      /\ slots'[p].value = n /\ slots'[p].roots = r
  BY <1>3
<1>r. /\ \A o \in 1..Stored : /\ refs'[o] = refs[o] /\ At(o)' = At(o)
                             /\ refs[o].generation \in Nat /\ At(o) \in Positions
      /\ refs'[n].generation = g /\ At(n)' = p
      /\ 1..Stored' = 1..Stored \cup {n} /\ n \notin 1..Stored /\ g \in Nat
  <2>1. \A o \in 1..Stored : refs[o].generation \in Nat /\ At(o) \in Positions
    BY <1>2, RefFields DEF RefsOK
  <2>2. g \in Nat
    BY Sizes
  <2>3. 1..Stored' = 1..Stored \cup {n} /\ n \notin 1..Stored
    BY <1>2, <1>n, <1>3
  <2>4. \A o \in 1..Stored : refs'[o] = refs[o] /\ At(o)' = At(o)
    BY <1>3, <1>4
  <2>5. refs'[n].generation = g /\ At(n)' = p
    BY <1>3, <1>4
  <2> QED
    BY <2>1, <2>2, <2>3, <2>4, <2>5
<1>5. TypeOK'
  BY <1>2, <1>3 DEF TypeOK, collectVars
<1>6. RefsOK'
  <2>1. ASSUME NEW o \in 1..Stored
        PROVE  /\ At(o)' \in Positions /\ At(o)'[1] < slabs'
               /\ refs'[o].generation <= slots'[At(o)'].generation
               /\ \A w \in 1..Stored' :
                    At(w)' = At(o)' /\ refs'[w].generation = refs'[o].generation => w = o
    <3>1. /\ At(o) \in Positions /\ At(o)[1] < slabs /\ At(o)[1] \in Nat
          /\ refs[o].generation <= slots[At(o)].generation
          /\ \A w \in 1..Stored :
                At(w) = At(o) /\ refs[w].generation = refs[o].generation => w = o
      BY <1>2 DEF RefsOK, Positions, Slabs
    <3>2. refs[o].generation \in Nat /\ slabs \in Nat /\ slabs' \in Nat
      BY <1>2, RefFields, Sizes DEF TypeOK
    <3>3. refs'[o].generation <= slots'[At(o)'].generation
      <4>1. CASE At(o) = p
        BY <1>s, <1>r, <4>1
      <4>2. CASE At(o) # p
        BY <1>s, <1>r, <3>1, <4>2
      <4> QED
        BY <4>1, <4>2
    <3>4. ASSUME NEW w \in 1..Stored', At(w)' = At(o)', refs'[w].generation = refs'[o].generation
          PROVE  w = o
      BY <1>r, <3>1, <3>2, <3>4
    <3> QED
      BY <1>4, <3>1, <3>2, <3>3, <3>4
  <2>3. Stored' <= MaxObjects
    BY <1>3, Sizes DEF Objects
  <2>2. /\ At(n)' \in Positions /\ At(n)'[1] < slabs'
        /\ refs'[n].generation <= slots'[At(n)'].generation
        /\ \A w \in 1..Stored' :
              At(w)' = At(n)' /\ refs'[w].generation = refs'[n].generation => w = n
    <3>1. refs'[n].generation <= slots'[At(n)'].generation
      BY <1>s, <1>r
    <3> QED
      BY <1>r, <3>1
  <2> QED
    BY <1>4, <2>1, <2>2, <2>3 DEF RefsOK
<1>7. GenerationsOK'
  <2>1. ASSUME NEW q \in Positions PROVE slots'[q].generation <= Stored'
    <3>1. slots[q].generation \in Nat /\ slots[q].generation <= Stored
      BY <1>2, SlotFields DEF GenerationsOK
    <3>2. Stored' = Stored + 1
      BY <1>n, <1>3
    <3>3. CASE q = p
      BY <1>2, <1>s, <3>2, <3>3
    <3>4. CASE q # p
      BY <1>2, <1>s, <3>1, <3>2, <3>4
    <3> QED
      BY <3>3, <3>4
  <2> QED
    BY <2>1 DEF GenerationsOK
<1>8. SlotsOK'
  <2>1. ASSUME NEW q \in Positions \ {p}, slots'[q].allocated
        PROVE  /\ q[1] < slabs' /\ q[2] <= lastAllocated'[q[1]]
               /\ \E o \in 1..Stored' : /\ slots'[q].value = o /\ At(o)' = q
                                        /\ refs'[o].generation = slots'[q].generation
                                        /\ Counting => slots'[q].roots = handles'[o]
    <3>1. slots'[q] = slots[q] /\ q[1] < slabs /\ q[2] <= lastAllocated[q[1]]
      BY <1>2, <1>s, <2>1 DEF SlotsOK
    <3>2. PICK o \in 1..Stored : /\ slots[q].value = o /\ At(o) = q
                                 /\ refs[o].generation = slots[q].generation
                                 /\ Counting => slots[q].roots = handles[o]
      <4>1. SlotsOK /\ q \in Positions /\ slots[q].allocated
        BY <1>2, <2>1, <3>1
      <4> QED
        BY <4>1 DEF SlotsOK
    <3>3. q[1] \in Slabs /\ q[1] \in Nat /\ q[2] \in Nat /\ slabs \in Nat /\ slabs' \in Nat
      <4>1. q[1] \in Slabs /\ q[1] \in Nat /\ q[2] \in Nat
        BY Pairs
      <4>2. slabs \in Nat /\ slabs' \in Nat
        BY <1>2, Sizes DEF TypeOK
      <4> QED
        BY <4>1, <4>2
    <3>4. /\ lastAllocated[q[1]] \in Nat /\ lastAllocated'[q[1]] \in Nat
          /\ lastAllocated[q[1]] <= lastAllocated'[q[1]]
      BY <1>2, <3>3, Sizes DEF TypeOK, SlotIndex
    <3>5. q[1] < slabs' /\ q[2] <= lastAllocated'[q[1]]
      BY <3>1, <3>3, <3>4
    <3>6. handles'[o] = handles[o]
      BY <1>3, <1>4
    <3> QED
      BY <1>r, <3>1, <3>2, <3>5, <3>6 DEF Counting
  <2>2. /\ p[1] < slabs' /\ p[2] <= lastAllocated'[p[1]]
        /\ \E o \in 1..Stored' : /\ slots'[p].value = o /\ At(o)' = p
                                 /\ refs'[o].generation = slots'[p].generation
                                 /\ Counting => slots'[p].roots = handles'[o]
    BY <1>3, <1>s, <1>r
  <2> QED
    BY <2>1, <2>2 DEF SlotsOK
<1>9. HandlesOK'
  <2>1. ASSUME NEW o \in Objects \ {n}, handles'[o] > 0
        PROVE  o \in 1..Stored' /\ (Counting => Loads(o)')
    <3>1. o \in 1..Stored /\ (Counting => Loads(o)) /\ At(o) \in Positions
      BY <1>2, <1>3, <2>1 DEF HandlesOK, RefsOK
    <3>2. Counting => At(o) # p
      BY <3>1 DEF Loads
    <3>3. o \in 1..Stored'
      BY <1>r, <3>1
    <3> QED
      BY <1>s, <1>r, <3>1, <3>2, <3>3 DEF Loads
  <2>2. n \in 1..Stored' /\ Loads(n)'
    <3>1. n \in 1..Stored'
      BY <1>2, <1>n, <1>3
    <3> QED
      BY <1>3, <1>4, <3>1 DEF Loads
  <2>3. \A o \in Objects : link'[o] \in 0..Stored'
    <3>1. \A k \in 0..Stored : k \in 0..Stored'
      BY <1>2, <1>n, <1>3
    <3> QED
      BY <1>2, <1>3, <3>1 DEF HandlesOK
  <2> QED
    BY <2>1, <2>2, <2>3 DEF HandlesOK
<1>10. FreeOK'
  <2>1. \A q \in BinIds : q # NoBin /\ PositionOf(q)[1] < slabs => PositionOf(q)[1] < slabs'
    <3>1. \A q \in BinIds : q # NoBin => PositionOf(q)[1] \in Nat
      BY PositionOfBinId DEF Positions, Slabs
    <3>2. slabs \in Nat /\ slabs' \in Nat
      BY <1>2, Sizes DEF TypeOK
    <3> QED
      BY <3>1, <3>2
  <2>2. \A q \in Positions \ {p} : slots'[q].free = slots[q].free /\ slots[q].free \in BinIds
    BY <1>2, <1>3, SlotFields
  <2> QED
    BY <1>2, <1>3, <2>1, <2>2 DEF FreeOK
<1>11. MarksOK' /\ MarkedOK'
  BY <1>2, <1>3 DEF MarksOK, MarkedOK, collectVars
<1>12. BinInv'
  BY <1>5, <1>6, <1>7, <1>8, <1>9, <1>10, <1>11 DEF BinInv
<1>13. Promise!New(n, r, to)
  <2>1. \A o \in 1..Stored : Loads(o)' <=> Loads(o)
    <3> TAKE o \in 1..Stored
    <3>1. CASE At(o) = p
      <4>1. ~Loads(o)
        BY <3>1 DEF Loads
      <4>2. ~Loads(o)'
        BY <1>s, <1>r, <3>1 DEF Loads
      <4> QED
        BY <4>1, <4>2
    <3>2. CASE At(o) # p
      BY <1>s, <1>r, <3>2 DEF Loads
    <3> QED
      BY <3>1, <3>2
  <2>2. Loads(n)'
    BY <1>s, <1>r DEF Loads
  <2>3. Loadable = {o \in 1..Stored : Loads(o)}
    BY Loadables DEF LoadsRight
  <2>4. Loadable' = {o \in 1..Stored' : Loads(o)'}
    BY <1>12, LoadablesNext
  <2>5. Loadable' = Loadable \cup {n}
    BY <1>r, <2>1, <2>2, <2>3, <2>4
  <2>6. MarkedValues = {0} /\ MarkedValues' = {0}
    BY <1>2 DEF MarkedValues, collectVars
  <2>7. /\ Stored' = n /\ link' = [link EXCEPT ![n] = to]
        /\ handles' = [handles EXCEPT ![n] = r]
    BY <1>n, <1>3 DEF Store
  <2> QED
    BY <1>n, <2>5, <2>6, <2>7 DEF Promise!New, Promise!NotMarking
<1> QED
  BY <1>n, <1>12, <1>13

LEMMA MaxOfTwo ==
    \A a, b \in Nat : Max({a, b}) = IF a < b THEN b ELSE a
PROOF
<1> TAKE a, b \in Nat
<1>1. \E x \in {a, b} : \A y \in {a, b} : x >= y
  OBVIOUS
<1>2. Max({a, b}) \in {a, b} /\ \A y \in {a, b} : Max({a, b}) >= y
  BY <1>1 DEF Max
<1> QED
  BY <1>2

\* The next generation is in range, and newer than those of all Refs of the slot.
LEMMA NextIsGreater ==
    ASSUME BinInv, NEW p \in Positions, NEW to, MayStore(to)
    PROVE  /\ NextGeneration(p) = slots[p].generation + 1
           /\ NextGeneration(p) \in 0..(GenMod - 1)
           /\ NextGeneration(p) <= Stored + 1
PROOF
<1>1. /\ slots[p].generation \in Nat /\ slots[p].generation <= Stored
      /\ Stored \in Nat /\ Stored < MaxObjects
  BY SlotFields, StoredIsNat DEF BinInv, GenerationsOK, MayStore
<1>2. \A g \in Nat : g + 1 < GenMod => (g + 1) % GenMod = g + 1
  BY Sizes
<1>3. slots[p].generation + 1 < GenMod
  BY <1>1, Sizes
<1> QED
  BY <1>1, <1>2, <1>3, Sizes DEF NextGeneration

LEMMA OlderRefs ==
    ASSUME BinInv, NEW p \in Positions, NEW g, g = slots[p].generation + 1
    PROVE  \A o \in 1..Stored : At(o) = p => refs[o].generation < g
PROOF
<1> TAKE o \in 1..Stored
<1>1. refs[o].generation \in Nat /\ slots[p].generation \in Nat
  BY RefFields, SlotFields DEF BinInv
<1>2. At(o) = p => refs[o].generation <= slots[p].generation
  BY DEF BinInv, RefsOK
<1> QED
  BY <1>1, <1>2

LEMMA AdoptFreeKeeps ==
    ASSUME BinInv, NEW r \in 0..1, NEW to \in 0..Stored, AdoptFree(r, to)
    PROVE  BinInv' /\ Promise!New(Stored + 1, r, to)
PROOF
<1>1. PICK p \in Positions :
          /\ p = PositionOf(freeHead) /\ freeHead = BinId(p[1], p[2])
          /\ p[1] < slabs /\ p[1] \in Slabs /\ p[2] \in SlotIndex
  <2>1. freeHead \in BinIds /\ freeHead # NoBin
    BY DEF BinInv, TypeOK, AdoptFree
  <2> QED
    BY <2>1, PositionOfBinId DEF BinInv, FreeOK, Positions
<1>2. /\ MayStore(to) /\ ~slots[p].allocated
      /\ Store(p, BinId(p[1], p[2]), NextGeneration(p), r, to)
      /\ freeHead' = slots[p].free
      /\ lastAllocated' = [lastAllocated EXCEPT ![p[1]] = Max({@, p[2]})]
      /\ UNCHANGED <<slabs, firstFree, collectVars>>
  BY <1>1 DEF AdoptFree
<1>3. NextGeneration(p) = slots[p].generation + 1 /\ NextGeneration(p) \in 0..(GenMod - 1)
      /\ NextGeneration(p) <= Stored + 1
  BY <1>2, NextIsGreater
<1>4. \A o \in 1..Stored : At(o) = p => refs[o].generation < NextGeneration(p)
  BY <1>3, OlderRefs
<1>5. /\ lastAllocated' \in [Slabs -> SlotIndex]
      /\ \A s \in Slabs : lastAllocated[s] <= lastAllocated'[s]
      /\ p[2] <= lastAllocated'[p[1]]
  <2>1. Max({lastAllocated[p[1]], p[2]}) = IF lastAllocated[p[1]] < p[2] THEN p[2]
                                           ELSE lastAllocated[p[1]]
    <3>1. lastAllocated[p[1]] \in Nat /\ p[2] \in Nat
      BY <1>1, Sizes DEF BinInv, TypeOK, SlotIndex
    <3> QED
      BY <3>1, MaxOfTwo
  <2> DEFINE m == IF lastAllocated[p[1]] < p[2] THEN p[2] ELSE lastAllocated[p[1]]
  <2>2. lastAllocated' = [lastAllocated EXCEPT ![p[1]] = m]
    BY <1>1, <1>2, <2>1 DEF BinInv, TypeOK
  <2>3. /\ m \in SlotIndex /\ lastAllocated[p[1]] <= m /\ p[2] <= m
        /\ \A s \in Slabs : lastAllocated[s] <= lastAllocated[s]
    BY <1>1, Sizes DEF BinInv, TypeOK, SlotIndex
  <2> HIDE DEF m
  <2> QED
    BY <1>1, <2>2, <2>3 DEF BinInv, TypeOK
<1>6. freeHead' \in BinIds /\ (freeHead' # NoBin => PositionOf(freeHead')[1] < slabs)
  BY <1>1, <1>2, SlotFields DEF BinInv, FreeOK
<1>7. /\ slabs' \in 0..MaxSlabs /\ slabs <= slabs' /\ p[1] < slabs'
      /\ firstFree' \in [Chunks -> 0..(SlabsPerChunk - 1)]
      /\ UNCHANGED collectVars
  BY <1>1, <1>2, Sizes DEF BinInv, TypeOK
<1> QED
  BY <1>2, <1>3, <1>4, <1>5, <1>6, <1>7, StoreKeeps

LEMMA AdoptBumpKeeps ==
    ASSUME OneLink, BinInv, NEW r \in 0..1, NEW to \in 0..Stored, AdoptBump(r, to)
    PROVE  BinInv' /\ Promise!New(Stored + 1, r, to)
PROOF
<1>1. /\ slabs > 0 /\ OpenSlabs # {} /\ TypeOK
      /\ TailLink = 0 /\ TailSize = slabs /\ 0 \in Chunks
      /\ slabs \in Nat /\ slabs <= MaxSlabs /\ slabs <= SlabsPerChunk
  BY OneLinkChain DEF AdoptBump, BinInv
<1>2. OpenSlabs = {i \in firstFree[0]..(slabs - 1) : lastAllocated[0 * SlabsPerChunk + i] < SlabSize - 1}
  BY <1>1 DEF OpenSlabs
<1>3. firstFree[0] \in Nat /\ 0 * SlabsPerChunk = 0
  BY <1>1, Sizes DEF TypeOK
<1>4. OpenSlabs \in SUBSET Nat
  BY <1>1, <1>2, <1>3
<1>5. PICK i \in OpenSlabs : i = Min(OpenSlabs)
  BY <1>1, <1>4, MinOfNaturals
<1>6. i \in Slabs /\ i < slabs /\ i \in Nat /\ i \in 0..(SlabsPerChunk - 1)
      /\ lastAllocated[i] < SlabSize - 1 /\ TailLink * SlabsPerChunk + i = i
  BY <1>1, <1>2, <1>3, <1>4, <1>5, Sizes DEF Slabs
<1>7. lastAllocated[i] \in Nat /\ lastAllocated[i] + 1 \in SlotIndex
  <2>1. lastAllocated[i] \in SlotIndex
    BY <1>1, <1>6 DEF TypeOK
  <2>2. \A j \in SlotIndex : j < SlabSize - 1 => j \in Nat /\ j + 1 \in SlotIndex
    BY Sizes DEF SlotIndex
  <2> QED
    BY <1>6, <2>1, <2>2
<1>8. PICK p \in Positions : p = <<i, lastAllocated[i] + 1>> /\ p[1] = i /\ p[2] = lastAllocated[i] + 1
  BY <1>6, <1>7, Pairs
<1>9. /\ MayStore(to)
      /\ Store(p, BinId(p[1], p[2]), NextGeneration(p), r, to)
      /\ lastAllocated' = [lastAllocated EXCEPT ![i] = p[2]]
      /\ firstFree' = [firstFree EXCEPT ![0] = i]
      /\ UNCHANGED <<slabs, freeHead, collectVars>>
  BY <1>1, <1>5, <1>6, <1>8 DEF AdoptBump
<1>10. ~slots[p].allocated
  BY <1>7, <1>8 DEF BinInv, SlotsOK
<1>11. NextGeneration(p) \in 0..(GenMod - 1) /\ NextGeneration(p) <= Stored + 1
       /\ NextGeneration(p) = slots[p].generation + 1
  BY <1>9, NextIsGreater
<1>12. \A o \in 1..Stored : At(o) = p => refs[o].generation < NextGeneration(p)
  BY <1>11, OlderRefs
<1>13. /\ lastAllocated' \in [Slabs -> SlotIndex]
       /\ \A s \in Slabs : lastAllocated[s] <= lastAllocated'[s]
       /\ p[2] <= lastAllocated'[p[1]]
  <2>1. lastAllocated \in [Slabs -> SlotIndex] /\ SlotIndex \subseteq Nat
    BY <1>1, Sizes DEF TypeOK, SlotIndex
  <2>2. p[2] \in SlotIndex /\ p[2] = lastAllocated[i] + 1
    BY <1>7, <1>8
  <2>3. \A j \in SlotIndex : j <= j /\ j <= j + 1
    BY <2>1
  <2>4. lastAllocated'[i] = p[2] /\ \A s \in Slabs \ {i} : lastAllocated'[s] = lastAllocated[s]
    BY <1>6, <1>9, <2>1
  <2>5. \A s \in Slabs : lastAllocated[s] <= lastAllocated'[s]
    BY <1>6, <2>1, <2>2, <2>3, <2>4
  <2>6. lastAllocated' \in [Slabs -> SlotIndex]
    BY <1>9, <2>1, <2>2
  <2>7. p[2] <= lastAllocated'[p[1]]
    BY <1>8, <2>1, <2>2, <2>3, <2>4
  <2> QED
    BY <2>5, <2>6, <2>7
<1>14. freeHead' \in BinIds /\ (freeHead' # NoBin => PositionOf(freeHead')[1] < slabs)
  BY <1>1, <1>9 DEF BinInv, FreeOK, TypeOK
<1>15. /\ slabs' \in 0..MaxSlabs /\ slabs <= slabs' /\ p[1] < slabs'
       /\ firstFree' \in [Chunks -> 0..(SlabsPerChunk - 1)]
       /\ UNCHANGED collectVars
  BY <1>1, <1>6, <1>8, <1>9, Sizes DEF TypeOK
<1> QED
  BY <1>9, <1>10, <1>11, <1>12, <1>13, <1>14, <1>15, StoreKeeps

LEMMA AdoptNewKeeps ==
    ASSUME OneLink, BinInv, NEW r \in 0..1, NEW to \in 0..Stored,
           AdoptNewSlab(r, to) \/ AdoptNewChunk(r, to)
    PROVE  BinInv' /\ Promise!New(Stored + 1, r, to)
PROOF
<1>1. /\ TypeOK /\ slabs \in Nat /\ slabs < MaxSlabs
      /\ slabs > 0 => TailSize = slabs
      /\ MayStore(to) /\ slabs' = slabs + 1
      /\ UNCHANGED <<lastAllocated, firstFree, freeHead, collectVars>>
  <2>1. /\ TypeOK /\ slabs \in Nat /\ slabs <= MaxSlabs /\ MaxSlabs \in Nat
        /\ slabs > 0 => TailSize = slabs
    BY OneLinkChain, Sizes DEF BinInv
  <2>2. CASE AdoptNewSlab(r, to)
    <3>1. slabs < MaxSlabs
      BY <2>1, <2>2 DEF AdoptNewSlab
    <3> QED
      BY <2>1, <2>2, <3>1 DEF AdoptNewSlab
  <2>3. CASE AdoptNewChunk(r, to)
    BY <2>1, <2>3 DEF AdoptNewChunk
  <2> QED
    BY <2>2, <2>3
<1>2. PICK p \in Positions : p = <<slabs, 0>> /\ p[1] = slabs /\ p[2] = 0
  <2>1. slabs \in Slabs /\ 0 \in SlotIndex
    BY <1>1, Sizes DEF Slabs, SlotIndex
  <2> QED
    BY <2>1, Pairs
<1>3. Store(p, BinId(p[1], p[2]), 0, r, to)
  BY <1>1, <1>2 DEF AdoptNewSlab, AdoptNewChunk
<1>4. ~slots[p].allocated /\ \A o \in 1..Stored : At(o) # p
  <2>1. ~(p[1] < slabs)
    BY <1>1, <1>2
  <2> QED
    BY <2>1 DEF BinInv, SlotsOK, RefsOK
<1>5. 0 \in 0..(GenMod - 1) /\ 0 <= Stored + 1
  BY <1>1, StoredIsNat, Sizes
<1>6. /\ lastAllocated' \in [Slabs -> SlotIndex]
      /\ \A s \in Slabs : lastAllocated[s] <= lastAllocated'[s]
      /\ p[2] <= lastAllocated'[p[1]]
  <2>1. lastAllocated \in [Slabs -> SlotIndex] /\ SlotIndex \subseteq Nat /\ p[1] \in Slabs
    BY <1>1, Sizes DEF TypeOK, SlotIndex, Positions
  <2>2. \A s \in Slabs : lastAllocated[s] \in Nat
    BY <2>1
  <2> QED
    BY <1>1, <1>2, <2>1, <2>2
<1>7. freeHead' \in BinIds /\ (freeHead' # NoBin => PositionOf(freeHead')[1] < slabs)
  BY <1>1 DEF BinInv, FreeOK, TypeOK
<1>8. /\ slabs' \in 0..MaxSlabs /\ slabs <= slabs' /\ p[1] < slabs'
      /\ firstFree' \in [Chunks -> 0..(SlabsPerChunk - 1)]
      /\ UNCHANGED collectVars
  BY <1>1, <1>2, Sizes DEF TypeOK
<1> QED
  BY <1>1, <1>3, <1>4, <1>5, <1>6, <1>7, <1>8, StoreKeeps

-----------------------------------------------------------------------------
(* Roots.                                                                  *)

\* A root count follows its handles, if the value is there.  A Root that was not
\* counted may outlive its value, and counts in a slot of another value then.
LEMMA CountKeeps ==
    ASSUME BinInv, NEW o \in 1..Stored, NEW h \in 0..MaxRoots, NEW n \in Nat,
           CountRoots(o, n, h),
           Counting => /\ Loads(o)
                       /\ n % (MaxRoots + 1) = h
                       /\ marking => handles[o] > 0
    PROVE  BinInv' /\ UNCHANGED <<Stored, Loadable, link, MarkedValues>>
PROOF
<1>1. /\ TypeOK /\ RefsOK /\ GenerationsOK /\ SlotsOK /\ HandlesOK /\ FreeOK /\ MarksOK
      /\ MarkedOK /\ Stored \in Nat
  BY StoredIsNat DEF BinInv
<1>2. PICK p \in Positions : p = At(o)
  BY <1>1 DEF RefsOK
<1>c. PICK c \in 0..MaxRoots : c = n % (MaxRoots + 1)
  BY Sizes
<1>3. /\ slots' = [slots EXCEPT ![p].roots = c]
      /\ handles' = [handles EXCEPT ![o] = h]
      /\ UNCHANGED <<slabs, lastAllocated, firstFree, freeHead, markBits, marking, aborts,
                     refs, link>>
  BY <1>2, <1>c DEF CountRoots, At, collectVars
<1>4. /\ o \in Objects
      /\ Counting => slots[p].value = o /\ slots[p].allocated
      /\ \A q \in Positions : slots[q].allocated /\ slots[q].value = o => q = p
  <2>1. o \in Objects
    BY <1>1, Sizes DEF Objects, RefsOK
  <2>2. Counting => slots[p].value = o /\ slots[p].allocated
    BY <1>2, LoadOfRef DEF Loads
  <2>3. \A q \in Positions : slots[q].allocated /\ slots[q].value = o => q = p
    BY <1>1, <1>2 DEF SlotsOK
  <2> QED
    BY <2>1, <2>2, <2>3
<1>5. /\ slots' \in [Positions -> Slot] /\ slots'[p].roots = c
      /\ \A q \in Positions \ {p} : slots'[q] = slots[q]
      /\ \A q \in Positions :
            /\ slots'[q].allocated = slots[q].allocated
            /\ slots'[q].generation = slots[q].generation
            /\ slots'[q].mark = slots[q].mark
            /\ slots'[q].value = slots[q].value
            /\ slots'[q].free = slots[q].free
  BY <1>1, <1>3 DEF TypeOK, Slot
<1>6. /\ handles' \in [Objects -> 0..MaxRoots] /\ handles'[o] = h
      /\ \A w \in Objects \ {o} : handles'[w] = handles[w]
  BY <1>1, <1>3, <1>4 DEF TypeOK
<1>7. /\ \A w : At(w)' = At(w)
      /\ \A w \in 1..Stored : Loads(w)' = Loads(w)
      /\ Stored' = Stored
  <2>1. \A w : At(w)' = At(w)
    BY <1>3 DEF At
  <2>2. \A w \in 1..Stored : At(w) \in Positions
    BY <1>1 DEF RefsOK
  <2> QED
    BY <1>3, <1>5, <2>1, <2>2 DEF Loads, Stored
<1>8. TypeOK'
  BY <1>1, <1>3, <1>5, <1>6 DEF TypeOK
<1>9. RefsOK' /\ GenerationsOK' /\ FreeOK' /\ MarksOK'
  BY <1>1, <1>3, <1>5, <1>7 DEF RefsOK, GenerationsOK, FreeOK, MarksOK
<1>10. SlotsOK'
  <2> SUFFICES ASSUME NEW q \in Positions, slots'[q].allocated
               PROVE  /\ q[1] < slabs' /\ q[2] <= lastAllocated'[q[1]]
                      /\ \E w \in 1..Stored' :
                            /\ slots'[q].value = w /\ At(w)' = q
                            /\ refs'[w].generation = slots'[q].generation
                            /\ Counting => slots'[q].roots = handles'[w]
    BY DEF SlotsOK
  <2>1. q[1] < slabs /\ q[2] <= lastAllocated[q[1]]
    BY <1>1, <1>5 DEF SlotsOK
  <2>2. PICK w \in 1..Stored : /\ slots[q].value = w /\ At(w) = q
                               /\ refs[w].generation = slots[q].generation
                               /\ Counting => slots[q].roots = handles[w]
    BY <1>1, <1>5 DEF SlotsOK
  <2>3. ASSUME Counting PROVE slots'[q].roots = handles'[w]
    <3>1. CASE q = p
      BY <1>c, <1>4, <1>5, <1>6, <2>2, <2>3, <3>1
    <3>2. CASE q # p
      <4>1. w \in Objects
        BY <1>1, <1>4, <2>2, Sizes DEF Objects, RefsOK, TypeOK
      <4>2. w # o
        BY <1>2, <2>2, <3>2
      <4> QED
        BY <1>5, <1>6, <2>2, <2>3, <3>2, <4>1, <4>2 DEF Counting
    <3> QED
      BY <3>1, <3>2
  <2> QED
    BY <1>3, <1>5, <1>7, <2>1, <2>2, <2>3 DEF Counting
<1>11. HandlesOK'
  <2>1. ASSUME NEW w \in Objects, handles'[w] > 0
        PROVE  w \in 1..Stored /\ (Counting => Loads(w))
    BY <1>1, <1>6, <2>1 DEF HandlesOK
  <2> QED
    BY <1>1, <1>3, <1>7, <2>1 DEF HandlesOK
<1>12. MarkedOK'
  <2>1. ASSUME Counting, marking, NEW q \in Positions, slots[q].allocated,
               slots'[q].roots > 0
        PROVE  slots[q].mark = markBits
    <3>1. slots[q].roots > 0
      <4>1. CASE q # p
        BY <1>5, <2>1, <4>1
      <4>2. CASE q = p
        <5>1. slots[p].roots = handles[o]
          BY <1>1, <1>4, <2>1 DEF SlotsOK
        <5> QED
          BY <2>1, <4>2, <5>1
      <4> QED
        BY <4>1, <4>2
    <3> QED
      BY <1>1, <2>1, <3>1 DEF MarkedOK
  <2>2. \A w \in 1..Stored : At(w) \in Positions
    BY <1>1 DEF RefsOK
  <2> QED
    BY <1>1, <1>3, <1>5, <1>7, <2>1, <2>2 DEF MarkedOK
<1>13. BinInv'
  BY <1>8, <1>9, <1>10, <1>11, <1>12 DEF BinInv
<1>14. Loadable' = Loadable
  <2>1. Loadable = {w \in 1..Stored : Loads(w)}
    BY Loadables DEF LoadsRight
  <2>2. Loadable' = {w \in 1..Stored' : Loads(w)'}
    BY <1>13, LoadablesNext
  <2> QED
    BY <1>7, <2>1, <2>2
<1>15. MarkedValues' = MarkedValues
  <2> DEFINE P == {q \in Positions : slots[q].allocated /\ slots[q].mark = markBits}
  <2>1. {q \in Positions : slots'[q].allocated /\ slots'[q].mark = markBits'} = P
    BY <1>3, <1>5
  <2>2. {slots'[q].value : q \in P} = {slots[q].value : q \in P}
    BY <1>5
  <2>3. MarkedValues' = IF ~marking' THEN {0} ELSE {slots'[q].value : q \in P}
    BY <2>1, Zenon DEF MarkedValues
  <2> QED
    BY <1>3, <2>2, <2>3 DEF MarkedValues
<1> QED
  BY <1>3, <1>7, <1>13, <1>14, <1>15

\* The root count of a value that loads is the number of its Root handles.
LEMMA Counted ==
    ASSUME BinInv, NEW o \in 1..Stored
    PROVE  /\ RootCount(o) \in 0..MaxRoots
           /\ o \in Objects /\ handles[o] \in 0..MaxRoots
           /\ Counting /\ Loads(o) => RootCount(o) = handles[o]
PROOF
<1>1. TypeOK /\ RefsOK /\ SlotsOK /\ Stored \in Nat
  BY StoredIsNat DEF BinInv
<1>2. o \in Objects /\ At(o) \in Positions /\ RootCount(o) = slots[At(o)].roots
  BY <1>1, Sizes DEF RefsOK, Objects, RootCount, At
<1>3. RootCount(o) \in 0..MaxRoots
  BY <1>1, <1>2, SlotFields
<1>4. ASSUME Counting, Loads(o) PROVE slots[At(o)].roots = handles[o]
  <2>1. slots[At(o)].value = o /\ slots[At(o)].allocated
    BY <1>4, LoadOfRef DEF Loads
  <2> QED
    BY <1>1, <1>2, <1>4, <2>1 DEF SlotsOK
<1> QED
  BY <1>1, <1>2, <1>3, <1>4 DEF TypeOK

LEMMA UpgradeKeeps ==
    ASSUME BinInv, NEW o \in Objects, Upgrade(o)
    PROVE  BinInv' /\ Promise!Upgrade(o)
PROOF
<1>1. o \in 1..Stored /\ ~marking /\ Load(refs[o]) # 0 /\ handles[o] < MaxRoots
      /\ CountRoots(o, RootCount(o) + 1, handles[o] + 1)
  BY StoredIsNat DEF BinInv, Upgrade, Objects
<1>2. Loads(o)
  BY <1>1, LoadOfRef
<1>3. /\ RootCount(o) \in 0..MaxRoots /\ handles[o] \in 0..MaxRoots
      /\ Counting => RootCount(o) = handles[o]
  BY <1>1, <1>2, Counted
<1>4. PICK n \in Nat, h \in 0..MaxRoots : n = RootCount(o) + 1 /\ h = handles[o] + 1
  BY <1>1, <1>3, Sizes
<1>5. Counting => n % (MaxRoots + 1) = h
  BY <1>3, <1>4, Sizes
<1>6. BinInv' /\ UNCHANGED <<Stored, Loadable, link, MarkedValues>>
  BY <1>1, <1>2, <1>4, <1>5, CountKeeps
<1>7. o \in Loadable /\ MarkedValues = {0}
  BY <1>1, <1>2, Loadables DEF LoadsRight, MarkedValues
<1>8. handles' = [handles EXCEPT ![o] = handles[o] + 1]
  BY <1>1 DEF CountRoots
<1> QED
  BY <1>6, <1>7, <1>8 DEF Promise!Upgrade, Promise!NotMarking

LEMMA CloneRootKeeps ==
    ASSUME BinInv, NEW o \in Objects, CloneRoot(o)
    PROVE  BinInv' /\ Promise!Clone(o)
PROOF
<1>1. o \in 1..Stored /\ (Counting => Loads(o)) /\ handles[o] \in 1..(MaxRoots - 1)
      /\ CountRoots(o, RootCount(o) + 1, handles[o] + 1)
  BY Sizes DEF BinInv, HandlesOK, CloneRoot
<1>2. /\ RootCount(o) \in 0..MaxRoots
      /\ Counting => RootCount(o) = handles[o]
  BY <1>1, Counted
<1>3. PICK n \in Nat, h \in 0..MaxRoots :
          n = RootCount(o) + 1 /\ h = handles[o] + 1 /\ handles[o] > 0
  BY <1>1, <1>2, Sizes
<1>4. Counting => n % (MaxRoots + 1) = h
  BY <1>2, <1>3, Sizes
<1>5. BinInv' /\ UNCHANGED <<Stored, Loadable, link, MarkedValues>>
  BY <1>1, <1>3, <1>4, CountKeeps
<1>6. handles' = [handles EXCEPT ![o] = handles[o] + 1]
  BY <1>1 DEF CountRoots
<1> QED
  BY <1>3, <1>5, <1>6 DEF Promise!Clone

\* When a Root is dropped that was counted, the count wraps around, once.
LEMMA DropRootKeeps ==
    ASSUME BinInv, NEW o \in Objects, DropRoot(o)
    PROVE  BinInv' /\ (Counting => Promise!Drop(o))
PROOF
<1>1. PICK k \in 0..1 : /\ CountRoots(o, RootCount(o) + MaxRoots, handles[o] - 1 + k)
                        /\ Counting => k = 0
  BY DEF DropRoot, Returned, Counting
<1>2. handles[o] \in 0..MaxRoots /\ handles[o] > 0
  BY DEF BinInv, TypeOK, DropRoot
<1>3. o \in 1..Stored /\ (Counting => Loads(o))
  BY <1>2 DEF BinInv, HandlesOK
<1>4. /\ RootCount(o) \in 0..MaxRoots
      /\ Counting => RootCount(o) = handles[o]
  BY <1>3, Counted
<1>5. PICK h \in 0..MaxRoots : h = handles[o] - 1 + k
  BY <1>1, <1>2, Sizes
<1>6. Counting => handles[o] = h + 1 /\ h = handles[o] - 1
  BY <1>1, <1>2, <1>5, Sizes
<1>7. PICK n \in Nat : n = RootCount(o) + MaxRoots
  BY <1>4, Sizes
<1>8. Counting => n % (MaxRoots + 1) = h
  <2> SUFFICES ASSUME Counting PROVE n % (MaxRoots + 1) = h
    OBVIOUS
  <2>1. \A m \in Nat, i \in Nat : i < m => (i + m) % m = i
    OBVIOUS
  <2>2. MaxRoots + 1 \in Nat /\ h \in Nat /\ h < MaxRoots + 1
    BY Sizes
  <2>3. n = h + (MaxRoots + 1)
    BY <1>4, <1>6, <1>7, Sizes
  <2> QED
    BY <2>1, <2>2, <2>3
<1>9. CountRoots(o, n, h)
  BY <1>1, <1>5, <1>7
<1>10. BinInv' /\ UNCHANGED <<Stored, Loadable, link, MarkedValues>>
  BY <1>2, <1>3, <1>8, <1>9, CountKeeps
<1>11. Counting => handles' = [handles EXCEPT ![o] = handles[o] - 1]
  <2>1. handles' = [handles EXCEPT ![o] = h]
    BY <1>9 DEF CountRoots
  <2> QED
    BY <1>6, <2>1
<1> QED
  BY <1>2, <1>10, <1>11 DEF Promise!Drop

LEMMA RelinkKeeps ==
    ASSUME BinInv, NEW o \in Objects, NEW to \in 0..Stored, Relink(o, to)
    PROVE  BinInv' /\ Promise!Relink(o, to)
PROOF
<1>1. /\ TypeOK /\ RefsOK /\ GenerationsOK /\ SlotsOK /\ HandlesOK /\ FreeOK /\ MarksOK
      /\ Stored \in Nat
  BY StoredIsNat DEF BinInv
<1>2. /\ ~marking /\ link' = [link EXCEPT ![o] = to]
      /\ UNCHANGED <<slots, slabs, lastAllocated, firstFree, freeHead, markBits, marking,
                     aborts, refs, handles>>
  BY DEF Relink, slotVars, collectVars
<1>3. /\ \A w : At(w)' = At(w) /\ (Loads(w)' <=> Loads(w))
      /\ Stored' = Stored /\ to \in 0..MaxObjects
  <2>1. \A w : At(w)' = At(w)
    BY <1>2 DEF At
  <2>2. to \in 0..MaxObjects
    BY <1>1, Sizes DEF RefsOK
  <2> QED
    BY <1>2, <2>1, <2>2 DEF Loads, Stored
<1>4. TypeOK'
  BY <1>1, <1>2, <1>3 DEF TypeOK
<1>5. RefsOK' /\ GenerationsOK' /\ SlotsOK' /\ FreeOK'
  BY <1>1, <1>2, <1>3 DEF RefsOK, GenerationsOK, SlotsOK, FreeOK
<1>6. HandlesOK' /\ MarksOK' /\ MarkedOK'
  BY <1>1, <1>2, <1>3 DEF HandlesOK, MarksOK, MarkedOK, TypeOK
<1>7. BinInv'
  BY <1>4, <1>5, <1>6 DEF BinInv
<1>8. Loadable' = Loadable /\ o \in Loadable /\ MarkedValues = {0} /\ MarkedValues' = {0}
  <2>1. Loadable' = Loadable
    BY <1>2, <1>3 DEF Loadable, Load
  <2>2. o \in Loadable
    BY <1>1 DEF Relink, Loadable, Objects
  <2> QED
    BY <1>2, <2>1, <2>2 DEF MarkedValues
<1> QED
  BY <1>2, <1>3, <1>7, <1>8 DEF Promise!Relink, Promise!NotMarking

-----------------------------------------------------------------------------
(* Collecting.                                                             *)

\* The next mark bits are in range, and no slot has them.
LEMMA NextMarksAreNew ==
    ASSUME BinInv, ~marking
    PROVE  /\ NextMarkBits \in 1..(MarkMod - 1)
           /\ \A p \in Positions : slots[p].allocated => slots[p].mark # NextMarkBits
PROOF
<1>1. /\ TypeOK /\ MarksOK /\ markBits \in Nat /\ markBits <= MarkMod - 1
      /\ aborts \in Nat /\ aborts < MarkMod - 2 /\ MarkMod \in Nat /\ MarkMod > 2
  BY Sizes DEF BinInv, TypeOK
<1>2. NextMarkBits \in 1..(MarkMod - 1)
  BY <1>1 DEF NextMarkBits
<1>3. ASSUME NEW p \in Positions, slots[p].allocated
      PROVE  slots[p].mark # NextMarkBits
  <2>1. slots[p].mark \in Nat /\ slots[p].mark <= MarkMod - 1
    BY <1>1, SlotFields, Sizes
  <2>2. \/ slots[p].mark = 0
        \/ slots[p].mark = markBits - aborts
        \/ slots[p].mark = markBits - aborts + (MarkMod - 1)
    BY <1>1, <1>3 DEF MarksOK
  <2> QED
    BY <1>1, <2>1, <2>2 DEF NextMarkBits
<1> QED
  BY <1>2, <1>3

LEMMA AbortKeeps ==
    ASSUME BinInv, Abort
    PROVE  BinInv' /\ UNCHANGED Promise!heapVars
PROOF
<1>1. /\ TypeOK /\ RefsOK /\ GenerationsOK /\ SlotsOK /\ HandlesOK /\ FreeOK /\ MarksOK
      /\ Stored \in Nat
  BY StoredIsNat DEF BinInv
<1>2. /\ ~marking /\ ~marking' /\ aborts < MaxAborts /\ aborts' = aborts + 1
      /\ markBits' = NextMarkBits
      /\ UNCHANGED <<slots, slabs, lastAllocated, firstFree, freeHead, marking, refs, link,
                     handles>>
  BY DEF Abort, slotVars, programVars
<1>3. /\ \A w : At(w)' = At(w) /\ (Loads(w)' <=> Loads(w))
      /\ Stored' = Stored
  <2>1. \A w : At(w)' = At(w)
    BY <1>2 DEF At
  <2> QED
    BY <1>2, <2>1 DEF Loads, Stored
<1>4. TypeOK'
  <2>1. markBits' \in 0..(MarkMod - 1)
    BY <1>2, NextMarksAreNew, Sizes
  <2>2. aborts' \in 0..MaxAborts
    BY <1>1, <1>2, Sizes DEF TypeOK
  <2> QED
    BY <1>1, <1>2, <2>1, <2>2 DEF TypeOK
<1>5. RefsOK' /\ GenerationsOK' /\ SlotsOK' /\ FreeOK' /\ HandlesOK'
  BY <1>1, <1>2, <1>3 DEF RefsOK, GenerationsOK, SlotsOK, FreeOK, HandlesOK
<1>6. MarksOK'
  <2>1. /\ markBits \in Nat /\ markBits <= MarkMod - 1 /\ aborts \in Nat
        /\ aborts < MarkMod - 3 /\ MarkMod \in Nat /\ MarkMod > 2
    BY <1>1, <1>2, Sizes DEF TypeOK
  <2>2. ASSUME NEW p \in Positions, slots[p].allocated
        PROVE  \/ slots[p].mark = 0
               \/ slots[p].mark = NextMarkBits - (aborts + 1)
               \/ slots[p].mark = NextMarkBits - (aborts + 1) + (MarkMod - 1)
    <3>1. slots[p].mark \in Nat /\ slots[p].mark <= MarkMod - 1
      BY <1>1, SlotFields, Sizes
    <3>2. \/ slots[p].mark = 0
          \/ slots[p].mark = markBits - aborts
          \/ slots[p].mark = markBits - aborts + (MarkMod - 1)
      BY <1>1, <1>2, <2>2 DEF MarksOK
    <3> QED
      BY <2>1, <3>1, <3>2 DEF NextMarkBits
  <2> QED
    BY <1>2, <2>2 DEF MarksOK
<1>7. MarkedOK'
  BY <1>2 DEF MarkedOK
<1>8. Loadable' = Loadable /\ MarkedValues' = MarkedValues
  BY <1>2, <1>3 DEF Loadable, Load, MarkedValues
<1> QED
  BY <1>2, <1>3, <1>4, <1>5, <1>6, <1>7, <1>8 DEF BinInv, Promise!heapVars

\* A mark request before a marking marks the slot that the Ref loads from.
LEMMA MarkedByRef ==
    ASSUME BinInv, ~marking, NEW o \in 1..Stored
    PROVE  MarkedBy(refs[o]) = IF Loads(o) THEN {At(o)} ELSE {}
PROOF
<1>1. At(o) \in Positions /\ At(o)[1] < slabs
  BY DEF BinInv, RefsOK
<1>2. slots[At(o)].allocated => slots[At(o)].mark # NextMarkBits
  BY <1>1, NextMarksAreNew
<1> QED
  BY <1>1, <1>2 DEF MarkedBy, Loads, At

\* Bin::trace finds every slot with a root count.
LEMMA RootSlotsAreAll ==
    ASSUME OneLink, BinInv, ~marking
    PROVE  RootSlots = {p \in Positions : slots[p].allocated /\ slots[p].roots > 0}
PROOF
<1> DEFINE ref(p) == [bin |-> BinId(p[1], p[2]), generation |-> slots[p].generation]
           R == {q \in IteratedSlabs \X SlotIndex : slots[q].allocated /\ slots[q].roots > 0}
<1>1. R = {q \in Positions : slots[q].allocated /\ slots[q].roots > 0}
  <2>1. IteratedSlabs = {s \in Slabs : s < slabs}
    BY OneLinkChain DEF BinInv
  <2>2. \A q \in Positions : slots[q].allocated => q[1] < slabs
    BY DEF BinInv, SlotsOK
  <2> QED
    BY <2>1, <2>2 DEF Positions
<1>2. ASSUME NEW p \in R PROVE MarkedBy(ref(p)) = {p}
  <2>1. /\ p \in Positions /\ slots[p].allocated /\ p[1] < slabs
        /\ PositionOf(BinId(p[1], p[2])) = p /\ slots[p].mark # NextMarkBits
    BY <1>1, BinIdOfPosition, NextMarksAreNew DEF BinInv, SlotsOK
  <2> QED
    BY <2>1 DEF MarkedBy
<1>3. RootSlots = UNION {MarkedBy(ref(p)) : p \in R}
  BY DEF RootSlots
<1> HIDE DEF R, ref
<1>4. RootSlots = UNION {{p} : p \in R}
  BY <1>2, <1>3
<1> QED
  BY <1>1, <1>4

\* What the Ref of a value traces.
LEMMA TracedFromSlot ==
    ASSUME BinInv, ~marking, NEW p \in Positions, slots[p].allocated
    PROVE  LET to == link[slots[p].value]
           IN  /\ slots[p].value \in Objects /\ to \in 0..Stored
               /\ TracedFrom(p) = {At(o) : o \in {w \in 1..Stored : w = to /\ Loads(w)}}
PROOF
<1>1. RefsOK /\ SlotsOK /\ HandlesOK /\ Stored \in Nat
  BY StoredIsNat DEF BinInv
<1>2. slots[p].value \in Objects
  <2>1. PICK o \in 1..Stored : slots[p].value = o
    BY <1>1 DEF SlotsOK
  <2> QED
    BY <1>1, <2>1, Sizes DEF RefsOK, Objects
<1>3. PICK to \in 0..Stored : to = link[slots[p].value]
  BY <1>1, <1>2 DEF HandlesOK
<1>4. CASE to = 0
  BY <1>1, <1>2, <1>3, <1>4 DEF TracedFrom
<1>5. CASE to # 0
  <2>1. to \in 1..Stored
    BY <1>1, <1>5
  <2>2. TracedFrom(p) = MarkedBy(refs[to])
    BY <1>3, <1>5 DEF TracedFrom
  <2>3. TracedFrom(p) = IF Loads(to) THEN {At(to)} ELSE {}
    BY <2>1, <2>2, MarkedByRef
  <2> QED
    BY <1>2, <1>3, <2>1, <2>3
<1> QED
  BY <1>4, <1>5

\* The marked slots are the least set with the root slots that is closed under
\* tracing.
LEMMA MarkedSlotsClosed ==
    ASSUME OneLink, BinInv, ~marking
    PROVE  /\ MarkedSlots \subseteq {p \in Positions : slots[p].allocated}
           /\ RootSlots \subseteq MarkedSlots
           /\ \A q \in MarkedSlots : TracedFrom(q) \subseteq MarkedSlots
           /\ \A C \in SUBSET {p \in Positions : slots[p].allocated} :
                 RootSlots \subseteq C /\ (\A q \in C : TracedFrom(q) \subseteq C)
                 => MarkedSlots \subseteq C
PROOF
<1> DEFINE used == {p \in Positions : slots[p].allocated}
           Closes(C) == RootSlots \subseteq C /\ (\A q \in C : TracedFrom(q) \subseteq C)
<1>1. RootSlots \subseteq used
  BY RootSlotsAreAll
<1>2. \A q \in used : TracedFrom(q) \subseteq used
  <2> TAKE q \in used
  <2>1. TracedFrom(q) = {At(o) : o \in {w \in 1..Stored : w = link[slots[q].value] /\ Loads(w)}}
    BY TracedFromSlot
  <2>2. \A w \in 1..Stored : Loads(w) => At(w) \in used
    BY DEF BinInv, RefsOK, Loads
  <2> QED
    BY <2>1, <2>2
<1>3. MarkedSlots = {p \in used : \A C \in SUBSET used : Closes(C) => p \in C}
  BY DEF MarkedSlots
<1> HIDE DEF used
<1>4. RootSlots \subseteq MarkedSlots
  BY <1>1, <1>3
<1>5. ASSUME NEW q \in MarkedSlots, NEW p \in TracedFrom(q) PROVE p \in MarkedSlots
  <2>1. q \in used /\ \A C \in SUBSET used : Closes(C) => q \in C
    BY <1>3
  <2>2. p \in used
    BY <1>2, <1>5, <2>1
  <2>3. \A C \in SUBSET used : Closes(C) => p \in C
    BY <1>5, <2>1
  <2> QED
    BY <1>3, <2>2, <2>3
<1>6. \A C \in SUBSET used : Closes(C) => MarkedSlots \subseteq C
  BY <1>3
<1> QED
  BY <1>3, <1>4, <1>5, <1>6 DEF used

\* Every slot with a value is that of one loadable value, and has its root count.
LEMMA SlotOfValue ==
    ASSUME BinInv
    PROVE  /\ \A p \in Positions : slots[p].allocated =>
                 /\ slots[p].value \in Loadable /\ At(slots[p].value) = p
                 /\ Counting => slots[p].roots = handles[slots[p].value]
           /\ \A o \in Loadable : /\ o \in Objects /\ o \in 1..Stored /\ Loads(o)
                                  /\ At(o) \in Positions /\ slots[At(o)].allocated
                                  /\ slots[At(o)].value = o
           /\ \A o \in Objects : Counting /\ handles[o] > 0 => o \in Loadable
PROOF
<1>1. /\ TypeOK /\ RefsOK /\ SlotsOK /\ HandlesOK /\ Stored \in Nat
      /\ Loadable = {o \in 1..Stored : Loads(o)}
  BY StoredIsNat, Loadables DEF BinInv, LoadsRight
<1>2. ASSUME NEW p \in Positions, slots[p].allocated
      PROVE  /\ slots[p].value \in Loadable /\ At(slots[p].value) = p
             /\ Counting => slots[p].roots = handles[slots[p].value]
  <2>1. PICK o \in 1..Stored : /\ slots[p].value = o /\ At(o) = p
                               /\ refs[o].generation = slots[p].generation
                               /\ Counting => slots[p].roots = handles[o]
    BY <1>1, <1>2 DEF SlotsOK
  <2>2. Loads(o)
    BY <1>2, <2>1 DEF Loads, Counting
  <2> QED
    BY <1>1, <2>1, <2>2 DEF Counting
<1>3. ASSUME NEW o \in Loadable
      PROVE  /\ o \in Objects /\ o \in 1..Stored /\ Loads(o)
             /\ At(o) \in Positions /\ slots[At(o)].allocated
             /\ slots[At(o)].value = o
  <2>1. o \in 1..Stored /\ Loads(o)
    BY <1>1
  <2>2. o \in Objects
    BY <1>1, <2>1, Sizes DEF RefsOK, Objects
  <2>3. At(o) \in Positions /\ slots[At(o)].allocated
    BY <1>1, <2>1 DEF RefsOK, Loads
  <2> QED
    BY <2>1, <2>2, <2>3, LoadOfRef
<1>4. \A o \in Objects : Counting /\ handles[o] > 0 => o \in Loadable
  BY <1>1 DEF HandlesOK
<1> QED
  BY <1>2, <1>3, <1>4

\* The slots that a marking marks are those of the values that Roots reach.
LEMMA MarkedAreReachable ==
    ASSUME OneLink, Counting, BinInv, ~marking
    PROVE  {slots[p].value : p \in MarkedSlots} = Promise!Reachable
PROOF
<1> DEFINE used == {p \in Positions : slots[p].allocated}
           W == {slots[p].value : p \in MarkedSlots}
<1>1. /\ MarkedSlots \subseteq used /\ RootSlots \subseteq MarkedSlots
      /\ \A q \in MarkedSlots : TracedFrom(q) \subseteq MarkedSlots
      /\ \A C \in SUBSET used :
            RootSlots \subseteq C /\ (\A q \in C : TracedFrom(q) \subseteq C)
            => MarkedSlots \subseteq C
  BY MarkedSlotsClosed
<1>2. /\ \A p \in used : /\ slots[p].value \in Loadable /\ At(slots[p].value) = p
                         /\ slots[p].roots = handles[slots[p].value]
                         /\ slots[p].value \in Objects
      /\ \A o \in Loadable : /\ o \in Objects /\ o \in 1..Stored /\ Loads(o)
                             /\ At(o) \in used /\ slots[At(o)].value = o
      /\ \A o \in Objects : handles[o] > 0 => o \in Loadable
  BY SlotOfValue
<1>3. RootSlots = {p \in used : slots[p].roots > 0}
  BY RootSlotsAreAll
<1>4. \A p \in used : TracedFrom(p) =
          {At(o) : o \in {w \in 1..Stored : w = link[slots[p].value] /\ Loads(w)}}
  BY TracedFromSlot
<1>5. \A w \in 1..Stored : Loads(w) => w \in Loadable
  BY Loadables DEF LoadsRight
<1> HIDE DEF used
<1>6. W \in SUBSET Objects /\ Promise!Closed(W)
  <2>1. W \in SUBSET Objects
    BY <1>1, <1>2
  <2>2. ASSUME NEW o \in Objects, handles[o] > 0 PROVE o \in W
    <3>1. o \in Loadable /\ At(o) \in used /\ slots[At(o)].value = o
      BY <1>2, <2>2
    <3>2. At(o) \in RootSlots
      BY <1>2, <1>3, <2>2, <3>1
    <3> QED
      BY <1>1, <3>1, <3>2
  <2>3. ASSUME NEW o \in W, link[o] \in Loadable PROVE link[o] \in W
    <3>1. PICK p \in MarkedSlots : o = slots[p].value
      OBVIOUS
    <3>2. PICK w \in Loadable : w = link[o]
      BY <2>3
    <3>3. w \in 1..Stored /\ Loads(w) /\ slots[At(w)].value = w
      BY <1>2
    <3>4. At(w) \in TracedFrom(p)
      BY <1>1, <1>4, <3>1, <3>2, <3>3
    <3>5. At(w) \in MarkedSlots
      BY <1>1, <3>4
    <3> QED
      BY <3>2, <3>3, <3>5
  <2> QED
    BY <2>1, <2>2, <2>3 DEF Promise!Closed, Promise!Objects, Objects
<1>7. ASSUME NEW C \in SUBSET Objects, Promise!Closed(C) PROVE W \subseteq C
  <2> DEFINE D == {p \in used : slots[p].value \in C}
  <2>1. RootSlots \subseteq D
    BY <1>2, <1>3, <1>7 DEF Promise!Closed, Promise!Objects, Objects
  <2>2. ASSUME NEW q \in D, NEW p \in TracedFrom(q) PROVE p \in D
    <3>1. PICK w \in 1..Stored : w = link[slots[q].value] /\ Loads(w) /\ p = At(w)
      BY <1>4, <2>2
    <3>2. w \in Loadable /\ w \in C
      BY <1>5, <1>7, <3>1 DEF Promise!Closed
    <3> QED
      BY <1>2, <3>1, <3>2
  <2>3. D \in SUBSET used
    OBVIOUS
  <2>4. MarkedSlots \subseteq D
    <3> HIDE DEF D
    <3> QED
      BY <1>1, <2>1, <2>2, <2>3
  <2> QED
    BY <2>4
<1>8. W \subseteq Promise!Reachable
  BY <1>6, <1>7 DEF Promise!Reachable, Promise!Objects, Objects
<1>9. Promise!Reachable \subseteq W
  BY <1>6 DEF Promise!Reachable, Promise!Objects, Objects
<1> QED
  BY <1>8, <1>9

\* What marking does to each slot.
LEMMA MarkEffect ==
    ASSUME TypeOK, Mark
    PROVE  /\ slots' \in [Positions -> Slot]
           /\ \A p \in Positions :
                 /\ slots'[p].allocated = slots[p].allocated
                 /\ slots'[p].generation = slots[p].generation
                 /\ slots'[p].value = slots[p].value
                 /\ slots'[p].roots = slots[p].roots
                 /\ slots'[p].free = slots[p].free
           /\ \A p \in MarkedSlots : slots'[p].mark = NextMarkBits
           /\ \A p \in Positions \ MarkedSlots : slots'[p].mark = slots[p].mark
PROOF
<1>1. TypeOK /\ NextMarkBits \in 0..(MarkMod - 1)
  BY Sizes DEF NextMarkBits, TypeOK
<1>2. PICK m : m = MarkedSlots
  OBVIOUS
<1>3. slots' = [p \in Positions |->
                  IF p \in m THEN [slots[p] EXCEPT !.mark = NextMarkBits] ELSE slots[p]]
  BY <1>2 DEF Mark
<1>4. m \subseteq Positions
  BY <1>2 DEF MarkedSlots
<1>5. \A p \in Positions : slots[p] \in Slot
  BY <1>1 DEF TypeOK
<1>6. /\ slots' \in [Positions -> Slot]
      /\ \A p \in Positions :
            /\ slots'[p].allocated = slots[p].allocated
            /\ slots'[p].generation = slots[p].generation
            /\ slots'[p].value = slots[p].value
            /\ slots'[p].roots = slots[p].roots
            /\ slots'[p].free = slots[p].free
  BY <1>1, <1>3, <1>5 DEF Slot
<1>7. /\ \A p \in m : slots'[p].mark = NextMarkBits
      /\ \A p \in Positions \ m : slots'[p].mark = slots[p].mark
  BY <1>3, <1>4, <1>5 DEF Slot
<1> QED
  BY <1>2, <1>6, <1>7

LEMMA MarkKeeps ==
    ASSUME OneLink, BinInv, Mark
    PROVE  BinInv' /\ (Counting => Promise!Mark)
PROOF
<1>1. /\ TypeOK /\ RefsOK /\ GenerationsOK /\ SlotsOK /\ HandlesOK /\ FreeOK
      /\ Stored \in Nat
  BY StoredIsNat DEF BinInv
<1>2. /\ ~marking /\ marking' = TRUE /\ aborts' = 0 /\ markBits' = NextMarkBits
      /\ UNCHANGED <<slabs, lastAllocated, firstFree, freeHead, refs, link, handles>>
  BY DEF Mark, programVars
<1>3. /\ slots' \in [Positions -> Slot]
      /\ \A p \in Positions :
            /\ slots'[p].allocated = slots[p].allocated
            /\ slots'[p].generation = slots[p].generation
            /\ slots'[p].value = slots[p].value
            /\ slots'[p].roots = slots[p].roots
            /\ slots'[p].free = slots[p].free
  BY MarkEffect DEF BinInv
<1>4. /\ \A p \in MarkedSlots : slots'[p].mark = NextMarkBits
      /\ \A p \in Positions \ MarkedSlots : slots'[p].mark = slots[p].mark
  BY MarkEffect DEF BinInv
<1>5. /\ \A w : At(w)' = At(w)
      /\ \A w \in 1..Stored : Loads(w)' = Loads(w)
      /\ Stored' = Stored
  <2>1. \A w : At(w)' = At(w)
    BY <1>2 DEF At
  <2>2. \A w \in 1..Stored : At(w) \in Positions
    BY <1>1 DEF RefsOK
  <2> QED
    BY <1>2, <1>3, <2>1, <2>2 DEF Loads, Stored
<1>6. TypeOK'
  <2>1. markBits' \in 0..(MarkMod - 1)
    BY <1>2, NextMarksAreNew, Sizes
  <2>2. aborts' \in 0..MaxAborts
    BY <1>2, Sizes
  <2> QED
    BY <1>1, <1>2, <1>3, <2>1, <2>2 DEF TypeOK
<1>7. RefsOK' /\ GenerationsOK' /\ FreeOK'
  BY <1>1, <1>2, <1>3, <1>5 DEF RefsOK, GenerationsOK, FreeOK
<1>8. SlotsOK'
  BY <1>1, <1>2, <1>3, <1>5 DEF SlotsOK
<1>9. HandlesOK'
  BY <1>1, <1>2, <1>5 DEF HandlesOK
<1>10. MarksOK'
  BY <1>2 DEF MarksOK
<1>11. MarkedOK'
  <2>1. ASSUME NEW p \in Positions, slots[p].allocated, slots[p].roots > 0
        PROVE  slots'[p].mark = NextMarkBits
    BY <1>2, <1>4, <2>1, RootSlotsAreAll, MarkedSlotsClosed
  <2>2. ASSUME NEW p \in Positions, NEW o \in 1..Stored, slots[p].allocated,
               slots'[p].mark = NextMarkBits, link[slots[p].value] = o, Loads(o)
        PROVE  slots'[At(o)].mark = NextMarkBits
    <3>1. p \in MarkedSlots
      BY <1>2, <1>4, <2>2, NextMarksAreNew
    <3>2. At(o) \in TracedFrom(p)
      BY <1>2, <2>2, TracedFromSlot
    <3>3. At(o) \in MarkedSlots
      BY <1>2, <3>1, <3>2, MarkedSlotsClosed
    <3> QED
      BY <1>4, <3>3
  <2> QED
    BY <1>2, <1>3, <1>5, <2>1, <2>2 DEF MarkedOK
<1>12. BinInv'
  BY <1>6, <1>7, <1>8, <1>9, <1>10, <1>11 DEF BinInv
<1>13. Loadable' = Loadable
  <2>1. Loadable = {w \in 1..Stored : Loads(w)}
    BY Loadables DEF LoadsRight
  <2>2. Loadable' = {w \in 1..Stored' : Loads(w)'}
    BY <1>12, LoadablesNext
  <2> QED
    BY <1>5, <2>1, <2>2
<1>14. MarkedValues = {0}
  BY <1>2 DEF MarkedValues
<1>15. ASSUME Counting PROVE MarkedValues' = Promise!Reachable
  <2>1. PICK m \in SUBSET {p \in Positions : slots[p].allocated} : m = MarkedSlots
    BY <1>2, MarkedSlotsClosed
  <2>2. {q \in Positions : slots'[q].allocated /\ slots'[q].mark = markBits'} = m
    <3>1. \A q \in m : slots'[q].allocated /\ slots'[q].mark = markBits'
      BY <1>2, <1>3, <1>4, <2>1
    <3>2. \A q \in Positions \ m : ~(slots'[q].allocated /\ slots'[q].mark = markBits')
      <4> TAKE q \in Positions \ m
      <4>1. slots'[q].mark = slots[q].mark /\ slots'[q].allocated = slots[q].allocated
        BY <1>3, <1>4, <2>1
      <4> QED
        BY <1>2, <4>1, NextMarksAreNew
    <3> QED
      BY <2>1, <3>1, <3>2
  <2>3. MarkedValues' = {slots'[q].value : q \in m}
    BY <1>2, <2>2, Zenon DEF MarkedValues
  <2>4. {slots'[q].value : q \in m} = {slots[q].value : q \in m}
    BY <1>3
  <2>5. {slots[q].value : q \in m} = Promise!Reachable
    BY <1>2, <1>15, <2>1, MarkedAreReachable, Zenon
  <2> QED
    BY <2>3, <2>4, <2>5
<1> QED
  BY <1>2, <1>5, <1>12, <1>13, <1>14, <1>15 DEF Promise!Mark, Promise!NotMarking

\* Of some positions one is the last in the order of the sweep.
LEMMA LastPosition ==
    ASSUME NEW S \in SUBSET Positions, S # {}
    PROVE  \E q \in S : \A p \in S \ {q} : Before(p, q)
PROOF
<1>1. /\ \A p \in S : /\ p = <<p[1], p[2]>> /\ p[1] \in 0..MaxSlabs
                      /\ p[2] \in 0..SlabSize
      /\ MaxSlabs \in Nat /\ SlabSize \in Nat
  BY Sizes, Pairs DEF Slabs, SlotIndex
<1>2. PICK a \in S : \A p \in S : p[1] <= a[1]
  <2> DEFINE A == {p[1] : p \in S}
  <2>1. A \in SUBSET (0..MaxSlabs) /\ A # {}
    BY <1>1
  <2>2. PICK n \in A : \A m \in A : m <= n
    <3> HIDE DEF A
    <3> QED
      BY <1>1, <2>1, MaxOfNaturals
  <2> QED
    BY <2>2
<1>3. PICK q \in S : q[1] = a[1] /\ \A p \in S : p[1] = a[1] => p[2] <= q[2]
  <2> DEFINE B == {p[2] : p \in {r \in S : r[1] = a[1]}}
  <2>1. B \in SUBSET (0..SlabSize) /\ B # {}
    BY <1>1
  <2>2. PICK n \in B : \A m \in B : m <= n
    <3> HIDE DEF B
    <3> QED
      BY <1>1, <2>1, MaxOfNaturals
  <2> QED
    BY <2>2
<1>4. ASSUME NEW p \in S \ {q} PROVE Before(p, q)
  <2>1. p[1] \in Nat /\ q[1] \in Nat /\ p[2] \in Nat /\ q[2] \in Nat
    BY <1>1
  <2>2. p[1] <= q[1] /\ (p[1] = q[1] => p[2] <= q[2])
    BY <1>2, <1>3
  <2>3. p[1] # q[1] \/ p[2] # q[2]
    <3>1. p = <<p[1], p[2]>> /\ q = <<q[1], q[2]>> /\ p # q
      BY <1>1
    <3> QED
      BY <3>1
  <2> QED
    BY <2>1, <2>2, <2>3 DEF Before
<1> QED
  BY <1>4

\* The free head after sweeping some slots is one of them, or the old one.
LEMMA HeadIsSwept ==
    ASSUME NEW S \in SUBSET Positions
    PROVE  \/ HeadAfter(S) = freeHead
           \/ \E q \in S : HeadAfter(S) = BinId(q[1], q[2])
PROOF
<1>1. CASE S = {}
  BY <1>1 DEF HeadAfter
<1>2. CASE S # {}
  BY <1>2, LastPosition DEF HeadAfter
<1> QED
  BY <1>1, <1>2

\* What a sweep finds: every slot with a value.
LEMMA SweptSlots ==
    ASSUME OneLink, BinInv
    PROVE  /\ Swept = {p \in Positions : slots[p].allocated /\ slots[p].mark # markBits}
           /\ \A s \in Slabs : Kept(s) = {i \in SlotIndex : /\ slots[<<s, i>>].allocated
                                                            /\ slots[<<s, i>>].mark = markBits}
           /\ \A p \in Swept : p[1] < slabs
PROOF
<1>1. IteratedSlabs = {s \in Slabs : s < slabs}
  BY OneLinkChain DEF BinInv
<1>2. \A p \in Positions : slots[p].allocated => p[1] < slabs /\ p[2] <= lastAllocated[p[1]]
  BY DEF BinInv, SlotsOK
<1>3. \A p \in Positions : slots[p].allocated => p \in Scanned
  BY <1>1, <1>2, Pairs DEF Scanned, Positions
<1>4. Scanned \subseteq Positions /\ \A p \in Scanned : p[1] < slabs
  BY <1>1 DEF Scanned, Positions
<1>5. \A s \in Slabs, i \in SlotIndex : <<s, i>> \in Positions
  BY Pairs
<1> QED
  BY <1>3, <1>4, <1>5 DEF Swept, Kept

\* What a sweep does to each slot.
LEMMA SweepEffect ==
    ASSUME TypeOK, Sweep
    PROVE  /\ slots' \in [Positions -> Slot]
           /\ \A p \in Positions \ Swept : slots'[p] = slots[p]
           /\ \A p \in Swept : /\ ~slots'[p].allocated
                               /\ slots'[p].generation = slots[p].generation
                               /\ slots'[p].free = HeadAfter({q \in Swept : Before(q, p)})
                               /\ \/ slots'[p].free = freeHead
                                  \/ \E q \in Swept : slots'[p].free = BinId(q[1], q[2])
PROOF
<1> DEFINE head(p) == HeadAfter({q \in Swept : Before(q, p)})
           slot(p) == [ZeroedSlot EXCEPT !.generation = slots[p].generation, !.free = head(p)]
<1>1. TypeOK /\ Swept \subseteq Positions /\ NoBin \in BinIds
  BY DEF Swept, Scanned, IteratedSlabs, Positions, BinIds
<1>2. slots' = [p \in Positions |-> IF p \in Swept THEN slot(p) ELSE slots[p]]
  BY DEF Sweep
<1>3. ASSUME NEW p \in Swept
      PROVE  /\ head(p) \in BinIds
             /\ \/ head(p) = freeHead
                \/ \E q \in Swept : head(p) = BinId(q[1], q[2])
  <2>1. {q \in Swept : Before(q, p)} \in SUBSET Positions
    BY <1>1
  <2>2. \/ head(p) = freeHead
        \/ \E q \in {r \in Swept : Before(r, p)} : head(p) = BinId(q[1], q[2])
    BY <2>1, HeadIsSwept
  <2> HIDE DEF head
  <2> QED
    BY <1>1, <2>2, BinIdOfPosition DEF TypeOK
<1>4. ASSUME NEW p \in Swept
      PROVE  /\ slot(p) \in Slot /\ ~slot(p).allocated
             /\ slot(p).generation = slots[p].generation /\ slot(p).free = head(p)
  <2>1. head(p) \in BinIds
    BY <1>3
  <2>2. slots[p].generation \in 0..(GenMod - 1)
    BY <1>1, SlotFields, Sizes
  <2>3. 0 \in 0..(MarkMod - 1) /\ 0 \in 0..MaxObjects /\ 0 \in 0..MaxRoots
    BY Sizes
  <2> HIDE DEF head
  <2>4. ZeroedSlot \in Slot /\ ~ZeroedSlot.allocated
    BY <1>1, <2>3, Sizes DEF ZeroedSlot, Slot
  <2>5. PICK y : y = [ZeroedSlot EXCEPT !.generation = slots[p].generation]
    OBVIOUS
  <2>6. y \in Slot /\ ~y.allocated /\ y.generation = slots[p].generation
    <3>1. \A z \in Slot, g \in 0..(GenMod - 1) :
              /\ [z EXCEPT !.generation = g] \in Slot
              /\ [z EXCEPT !.generation = g].allocated = z.allocated
              /\ [z EXCEPT !.generation = g].generation = g
      BY DEF Slot
    <3> QED
      BY <2>2, <2>4, <2>5, <3>1
  <2>7. slot(p) = [y EXCEPT !.free = head(p)]
    BY <2>5, Zenon
  <2>8. \A z \in Slot, h \in BinIds :
            /\ [z EXCEPT !.free = h] \in Slot
            /\ [z EXCEPT !.free = h].allocated = z.allocated
            /\ [z EXCEPT !.free = h].generation = z.generation
            /\ [z EXCEPT !.free = h].free = h
    BY DEF Slot
  <2> HIDE DEF slot
  <2> QED
    BY <2>1, <2>6, <2>7, <2>8
<1> HIDE DEF slot, head
<1>5. \A p \in Positions : slots[p] \in Slot
  BY <1>1 DEF TypeOK
<1>6. slots' \in [Positions -> Slot]
  BY <1>2, <1>4, <1>5
<1>7. \A p \in Positions \ Swept : slots'[p] = slots[p]
  BY <1>2
<1>8. \A p \in Swept : slots'[p] = slot(p)
  BY <1>1, <1>2
<1>9. \A p \in Swept : head(p) = HeadAfter({q \in Swept : Before(q, p)})
  BY DEF head
<1> QED
  BY <1>3, <1>4, <1>6, <1>7, <1>8, <1>9

\* No slot with a value stays behind the lowered last_allocated.
LEMMA SweepLowers ==
    ASSUME OneLink, BinInv, Sweep
    PROVE  /\ lastAllocated' \in [Slabs -> SlotIndex]
           /\ \A p \in Positions \ Swept : slots[p].allocated => p[2] <= lastAllocated'[p[1]]
PROOF
<1>1. /\ TypeOK /\ SlotIndex = 0..(SlabSize - 1) /\ SlabSize - 1 \in Nat /\ 0 \in SlotIndex
      /\ IteratedSlabs = {s \in Slabs : s < slabs}
  BY OneLinkChain, Sizes DEF SlotIndex, BinInv
<1>2. lastAllocated' = [s \in Slabs |-> IF s \in IteratedSlabs THEN Max(Kept(s) \cup {0})
                                         ELSE lastAllocated[s]]
  BY DEF Sweep
<1>3. ASSUME NEW s \in Slabs
      PROVE  /\ Max(Kept(s) \cup {0}) \in SlotIndex
             /\ \A i \in Kept(s) : i <= Max(Kept(s) \cup {0})
  <2>1. PICK K \in SUBSET (0..(SlabSize - 1)) : K = Kept(s) \cup {0} /\ K # {}
    BY <1>1 DEF Kept
  <2>2. Max(K) \in K /\ \A i \in K : i <= Max(K)
    BY <1>1, <2>1, MaxOfNaturals
  <2> QED
    BY <1>1, <2>1, <2>2
<1>4. lastAllocated' \in [Slabs -> SlotIndex]
  BY <1>1, <1>2, <1>3 DEF TypeOK
<1>5. ASSUME NEW p \in Positions \ Swept, slots[p].allocated
      PROVE  p[2] <= lastAllocated'[p[1]]
  <2>1. /\ p[1] \in Slabs /\ p[2] \in SlotIndex /\ p = <<p[1], p[2]>>
        /\ p[1] < slabs /\ slots[p].mark = markBits
    BY <1>5, Pairs, SweptSlots DEF BinInv, SlotsOK
  <2>2. p[2] \in Kept(p[1])
    BY <1>5, <2>1, SweptSlots
  <2>3. lastAllocated'[p[1]] = Max(Kept(p[1]) \cup {0})
    BY <1>1, <1>2, <2>1
  <2> QED
    BY <1>3, <2>1, <2>2, <2>3
<1> QED
  BY <1>4, <1>5

LEMMA SweepKeeps ==
    ASSUME OneLink, BinInv, Sweep
    PROVE  BinInv' /\ Promise!Sweep
PROOF
<1>1. /\ TypeOK /\ RefsOK /\ GenerationsOK /\ SlotsOK /\ HandlesOK /\ FreeOK /\ MarkedOK
      /\ Stored \in Nat
  BY StoredIsNat DEF BinInv
<1>2. /\ marking /\ marking' = FALSE /\ aborts = 0 /\ freeHead' = HeadAfter(Swept)
      /\ UNCHANGED <<slabs, firstFree, markBits, aborts, refs, link, handles>>
  BY <1>1 DEF Sweep, MarkedOK, programVars
<1>3. /\ slots' \in [Positions -> Slot]
      /\ \A p \in Positions \ Swept : slots'[p] = slots[p]
      /\ \A p \in Swept : /\ ~slots'[p].allocated
                          /\ slots'[p].generation = slots[p].generation
                          /\ \/ slots'[p].free = freeHead
                             \/ \E q \in Swept : slots'[p].free = BinId(q[1], q[2])
  BY SweepEffect DEF BinInv
<1>4. /\ Swept = {p \in Positions : slots[p].allocated /\ slots[p].mark # markBits}
      /\ \A p \in Swept : p[1] < slabs
  BY SweptSlots
<1>5. /\ \A w : At(w)' = At(w)
      /\ Stored' = Stored
      /\ \A p \in Positions : slots'[p].generation = slots[p].generation
  BY <1>2, <1>3 DEF At, Stored
<1>6. \A q \in Positions : BinId(q[1], q[2]) \in BinIds /\ PositionOf(BinId(q[1], q[2])) = q
  BY BinIdOfPosition
<1>7. /\ freeHead' \in BinIds
      /\ freeHead' = freeHead \/ \E q \in Swept : freeHead' = BinId(q[1], q[2])
  <2>1. Swept \in SUBSET Positions
    BY <1>4
  <2>2. \/ HeadAfter(Swept) = freeHead
        \/ \E q \in Swept : HeadAfter(Swept) = BinId(q[1], q[2])
    BY <2>1, HeadIsSwept
  <2> QED
    BY <1>1, <1>2, <1>6, <2>1, <2>2 DEF TypeOK
<1>8. TypeOK'
  BY <1>1, <1>2, <1>3, <1>7, SweepLowers DEF TypeOK
<1>9. RefsOK' /\ GenerationsOK'
  BY <1>1, <1>2, <1>5 DEF RefsOK, GenerationsOK
<1>10. SlotsOK'
  <2> SUFFICES ASSUME NEW p \in Positions, slots'[p].allocated
               PROVE  /\ p[1] < slabs' /\ p[2] <= lastAllocated'[p[1]]
                      /\ \E o \in 1..Stored' :
                            /\ slots'[p].value = o /\ At(o)' = p
                            /\ refs'[o].generation = slots'[p].generation
                            /\ Counting => slots'[p].roots = handles'[o]
    BY DEF SlotsOK
  <2>1. p \notin Swept /\ slots'[p] = slots[p]
    BY <1>3
  <2>2. p[2] <= lastAllocated'[p[1]]
    BY <2>1, SweepLowers
  <2> QED
    BY <1>1, <1>2, <1>5, <2>1, <2>2 DEF SlotsOK
<1>11. HandlesOK'
  <2>1. ASSUME NEW o \in Objects, handles[o] > 0
        PROVE  /\ o \in 1..Stored
               /\ Counting => Loads(o) /\ slots'[At(o)] = slots[At(o)]
    <3>1. o \in 1..Stored /\ (Counting => Loads(o)) /\ At(o) \in Positions
      BY <1>1, <2>1 DEF HandlesOK, RefsOK
    <3>2. Counting => slots[At(o)].roots > 0 /\ slots[At(o)].allocated
      BY <2>1, <3>1, Counted DEF RootCount, At, Loads
    <3>3. Counting => At(o) \notin Swept
      BY <1>1, <1>2, <1>4, <3>1, <3>2 DEF MarkedOK
    <3> QED
      BY <1>3, <3>1, <3>3
  <2> QED
    BY <1>1, <1>2, <1>5, <2>1 DEF HandlesOK, Loads
<1>12. FreeOK'
  <2>1. \A p \in Positions : slots'[p].free # NoBin => PositionOf(slots'[p].free)[1] < slabs
    <3>1. \A p \in Positions \ Swept :
              slots'[p].free # NoBin => PositionOf(slots'[p].free)[1] < slabs
      BY <1>1, <1>3 DEF FreeOK
    <3>2. \A p \in Swept : slots'[p].free # NoBin => PositionOf(slots'[p].free)[1] < slabs
      <4> TAKE p \in Swept
      <4>1. CASE slots'[p].free = freeHead
        BY <1>1, <4>1 DEF FreeOK
      <4>2. CASE \E q \in Swept : slots'[p].free = BinId(q[1], q[2])
        BY <1>4, <1>6, <4>2
      <4> QED
        BY <1>3, <4>1, <4>2
    <3> QED
      BY <3>1, <3>2
  <2>2. freeHead' # NoBin => PositionOf(freeHead')[1] < slabs
    <3>1. CASE freeHead' = freeHead
      BY <1>1, <3>1 DEF FreeOK
    <3>2. CASE \E q \in Swept : freeHead' = BinId(q[1], q[2])
      BY <1>4, <1>6, <3>2
    <3> QED
      BY <1>7, <3>1, <3>2
  <2> QED
    BY <1>2, <2>1, <2>2 DEF FreeOK
<1>13. MarksOK' /\ MarkedOK'
  <2>1. ASSUME NEW p \in Positions, slots'[p].allocated
        PROVE  slots'[p].mark = markBits - aborts
    <3>1. slots'[p] = slots[p] /\ slots[p].mark = markBits
      BY <1>3, <1>4, <2>1
    <3>2. markBits - aborts = markBits
      BY <1>1, <1>2, Sizes DEF TypeOK
    <3> QED
      BY <3>1, <3>2
  <2> QED
    BY <1>2, <2>1 DEF MarksOK, MarkedOK
<1>14. BinInv'
  BY <1>8, <1>9, <1>10, <1>11, <1>12, <1>13 DEF BinInv
<1>15. MarkedValues' = {0} /\ MarkedValues # {0}
  <2>1. MarkedValues = {slots[p].value : p \in {q \in Positions :
                            slots[q].allocated /\ slots[q].mark = markBits}}
    BY <1>2 DEF MarkedValues
  <2>2. \A p \in Positions : slots[p].allocated => slots[p].value # 0
    BY SlotOfValue DEF Objects
  <2> QED
    BY <1>2, <2>1, <2>2 DEF MarkedValues
<1>16. Loadable' = Loadable \cap MarkedValues
  <2>1. Loadable = {w \in 1..Stored : Loads(w)}
    BY Loadables DEF LoadsRight
  <2>2. Loadable' = {w \in 1..Stored' : Loads(w)'}
    BY <1>14, LoadablesNext
  <2>3. ASSUME NEW w \in Loadable, w \in MarkedValues PROVE w \in 1..Stored /\ Loads(w)'
    <3>1. w \in 1..Stored /\ Loads(w) /\ At(w) \in Positions /\ slots[At(w)].value = w
      BY SlotOfValue
    <3>2. PICK p \in Positions : slots[p].allocated /\ slots[p].mark = markBits
                                 /\ w = slots[p].value
      BY <1>2, <2>3 DEF MarkedValues
    <3>3. At(w) = p
      BY <3>2, SlotOfValue
    <3>4. slots'[At(w)] = slots[At(w)]
      BY <1>3, <1>4, <3>1, <3>2, <3>3
    <3> QED
      BY <1>2, <1>5, <3>1, <3>4 DEF Loads
  <2>4. ASSUME NEW w \in 1..Stored, Loads(w)' PROVE w \in Loadable /\ w \in MarkedValues
    <3>1. At(w) \in Positions
      BY <1>1 DEF RefsOK
    <3>2. At(w) \notin Swept /\ slots'[At(w)] = slots[At(w)]
      BY <1>3, <1>5, <2>4, <3>1 DEF Loads
    <3>3. Loads(w) /\ w \in Loadable
      BY <1>2, <1>5, <2>1, <2>4, <3>2 DEF Loads
    <3>4. slots[At(w)].value = w /\ slots[At(w)].allocated /\ slots[At(w)].mark = markBits
      BY <1>4, <3>1, <3>2, <3>3, SlotOfValue
    <3> QED
      BY <1>2, <3>1, <3>3, <3>4 DEF MarkedValues
  <2>5. Loadable \subseteq 1..Stored /\ Loadable' \subseteq 1..Stored
    BY <1>5, <2>1, <2>2
  <2> QED
    BY <1>5, <2>2, <2>3, <2>4, <2>5
<1> QED
  BY <1>2, <1>5, <1>14, <1>15, <1>16 DEF Promise!Sweep, Promise!NotMarking

-----------------------------------------------------------------------------
(* The invariant holds in every state.                                     *)

LEMMA InitBin == Init => BinInv
PROOF
<1> SUFFICES ASSUME Init PROVE BinInv
  OBVIOUS
<1>1. Stored = 0 /\ refs = <<>> /\ 1..Stored = {}
  BY DEF Init, Stored
<1>2. ZeroedSlot \in Slot /\ NoBin \in BinIds /\ 0 \in SlotIndex
  BY Sizes DEF ZeroedSlot, Slot, BinIds, SlotIndex
<1>3. /\ slots = [p \in Positions |-> ZeroedSlot]
      /\ \A p \in Positions : slots[p] = ZeroedSlot
  BY DEF Init
<1>4. TypeOK
  <2>1. slots \in [Positions -> Slot]
    BY <1>2, <1>3
  <2>2. refs \in Seq([bin : BinIds, generation : 0..(GenMod - 1)])
    BY <1>1
  <2>3. /\ lastAllocated \in [Slabs -> SlotIndex]
        /\ firstFree \in [Chunks -> 0..(SlabsPerChunk - 1)]
        /\ link \in [Objects -> 0..MaxObjects]
        /\ handles \in [Objects -> 0..MaxRoots]
    <3>1. 0 \in 0..(SlabsPerChunk - 1) /\ 0 \in 0..MaxObjects /\ 0 \in 0..MaxRoots
      BY Sizes
    <3> QED
      BY <1>2, <3>1 DEF Init
  <2>4. /\ slabs \in 0..MaxSlabs /\ freeHead \in BinIds /\ markBits \in 0..(MarkMod - 1)
        /\ marking \in BOOLEAN /\ aborts \in 0..MaxAborts
    <3>1. slabs = 0 /\ freeHead = NoBin /\ markBits = 0 /\ marking = FALSE /\ aborts = 0
      BY DEF Init
    <3>2. 0 \in 0..MaxSlabs /\ 0 \in 0..(MarkMod - 1) /\ 0 \in 0..MaxAborts
      BY Sizes
    <3> QED
      BY <1>2, <3>1, <3>2
  <2> QED
    BY <1>2, <2>1, <2>2, <2>3, <2>4 DEF TypeOK
<1>5. RefsOK
  BY <1>1, Sizes DEF RefsOK
<1>6. GenerationsOK /\ SlotsOK
  BY <1>1, <1>3 DEF ZeroedSlot, GenerationsOK, SlotsOK
<1>7. HandlesOK
  BY <1>1 DEF Init, HandlesOK
<1>8. FreeOK /\ MarksOK /\ MarkedOK
  BY <1>3 DEF Init, ZeroedSlot, FreeOK, MarksOK, MarkedOK
<1> QED
  BY <1>4, <1>5, <1>6, <1>7, <1>8 DEF BinInv

LEMMA StutterKeeps == BinInv /\ UNCHANGED vars => BinInv' /\ UNCHANGED Promise!heapVars
PROOF
<1> SUFFICES ASSUME BinInv, UNCHANGED vars PROVE BinInv' /\ UNCHANGED Promise!heapVars
  OBVIOUS
<1>1. UNCHANGED <<slots, slabs, lastAllocated, firstFree, freeHead, markBits, marking,
                  aborts, refs, link, handles>>
  BY DEF vars, slotVars, collectVars, programVars
<1>2. BinInv'
  BY <1>1 DEF BinInv, TypeOK, RefsOK, GenerationsOK, SlotsOK, HandlesOK, FreeOK, MarksOK,
              MarkedOK, Loads, At, Stored
<1>3. UNCHANGED Promise!heapVars
  BY <1>1 DEF Promise!heapVars, Stored, Loadable, Load, MarkedValues
<1> QED
  BY <1>2, <1>3

\* Each step of the slots keeps the invariant and is a step of Heap, or none.
LEMMA NextBin ==
    ASSUME OneLink, BinInv, [Next]_vars
    PROVE  BinInv' /\ (Counting => [Promise!Next]_(Promise!heapVars))
PROOF
<1>1. /\ Promise!Objects = Objects /\ Stored \in Nat
      /\ 0..Stored \subseteq 0..MaxObjects
  BY StoredIsNat, Sizes DEF BinInv, RefsOK, Promise!Objects, Objects
<1>2. ASSUME NEW r \in 0..1, NEW to \in 0..Stored, BinInv', Promise!New(Stored + 1, r, to)
      PROVE  BinInv' /\ Promise!Next
  <2>1. Stored + 1 \in Objects
    <3>1. Stored' = Stored + 1 /\ Stored' <= MaxObjects
      BY <1>2 DEF Promise!New, BinInv, RefsOK
    <3> QED
      BY <1>1, <3>1, Sizes DEF Objects
  <2>2. to \in 0..MaxObjects
    BY <1>1
  <2> QED
    BY <1>1, <1>2, <2>1, <2>2 DEF Promise!Next
<1>3. ASSUME NEW r \in 0..1, NEW to \in 0..Stored, AdoptFree(r, to)
      PROVE  BinInv' /\ Promise!Next
  BY <1>2, <1>3, AdoptFreeKeeps
<1>4. ASSUME NEW r \in 0..1, NEW to \in 0..Stored, AdoptBump(r, to)
      PROVE  BinInv' /\ Promise!Next
  BY <1>2, <1>4, AdoptBumpKeeps
<1>5. ASSUME NEW r \in 0..1, NEW to \in 0..Stored,
             AdoptNewSlab(r, to) \/ AdoptNewChunk(r, to)
      PROVE  BinInv' /\ Promise!Next
  BY <1>2, <1>5, AdoptNewKeeps
<1>6. ASSUME NEW o \in Objects, Upgrade(o) PROVE BinInv' /\ Promise!Next
  BY <1>1, <1>6, UpgradeKeeps DEF Promise!Next
<1>7. ASSUME NEW o \in Objects, CloneRoot(o) PROVE BinInv' /\ Promise!Next
  BY <1>1, <1>7, CloneRootKeeps DEF Promise!Next
<1>8. ASSUME NEW o \in Objects, DropRoot(o) PROVE BinInv' /\ (Counting => Promise!Next)
  BY <1>1, <1>8, DropRootKeeps DEF Promise!Next
<1>9. ASSUME NEW o \in Objects, NEW to \in 0..Stored, Relink(o, to)
      PROVE  BinInv' /\ Promise!Next
  BY <1>1, <1>9, RelinkKeeps DEF Promise!Next
<1>10. CASE Abort
  BY <1>10, AbortKeeps
<1>11. CASE Mark
  BY <1>11, MarkKeeps DEF Promise!Next
<1>12. CASE Sweep
  BY <1>12, SweepKeeps DEF Promise!Next
<1>13. CASE UNCHANGED vars
  BY <1>13, StutterKeeps
<1> QED
  BY <1>3, <1>4, <1>5, <1>6, <1>7, <1>8, <1>9, <1>10, <1>11, <1>12, <1>13 DEF Next

\* BinInv holds in every state of a bin of one link.
THEOREM BinInvariant ==
    ASSUME OneLink
    PROVE  Spec => []BinInv
PROOF
<1>1. BinInv /\ [Next]_vars => BinInv'
  BY NextBin
<1> QED
  BY <1>1, InitBin, PTL DEF Spec

-----------------------------------------------------------------------------
(* What the slots promise.                                                 *)

\* No value is stored behind Slab::last_allocated, where no sweep looks and the
\* next allocation would overwrite it.
THEOREM SweepSeesEveryValue ==
    ASSUME OneLink
    PROVE  Spec => []LastAllocatedCovers
PROOF
<1>1. BinInv => LastAllocatedCovers
  BY DEF BinInv, SlotsOK, LastAllocatedCovers
<1> QED
  BY <1>1, BinInvariant, PTL

\* Ref::load and AnyRef::load_slot return the Ref's own value or None, however
\* often its slot was reused.
THEOREM RefsAreExact ==
    ASSUME OneLink
    PROVE  Spec => []LoadIsExact
PROOF
<1>1. BinInv => LoadIsExact
  <2> SUFFICES ASSUME BinInv, NEW o \in 1..Stored PROVE Load(refs[o]) \in {0, o}
    BY DEF LoadIsExact
  <2> QED
    BY LoadOfRef
<1> QED
  BY <1>1, BinInvariant, PTL

\* A Root's value is there and Bin::trace counts its Roots, during a collection
\* too: Root::deref needs no check.
THEOREM RootsAreSafe ==
    ASSUME OneLink, "try_from_any" \notin Calls
    PROVE  Spec => []RootPointsToItsValue
PROOF
<1>1. BinInv => RootPointsToItsValue
  <2> SUFFICES ASSUME BinInv, NEW o \in Objects, handles[o] > 0
               PROVE  Load(refs[o]) = o /\ slots[PositionOf(refs[o].bin)].roots = handles[o]
    BY DEF RootPointsToItsValue
  <2>1. o \in 1..Stored /\ Loads(o)
    BY DEF BinInv, HandlesOK, Counting
  <2> QED
    BY <2>1, LoadOfRef, Counted DEF RootCount, Counting
<1> QED
  BY <1>1, BinInvariant, PTL

\* Slots, generations, root counts, mark bits and sweeps implement Heap: a
\* collection takes away the values that no Root reaches, and only those.
THEOREM SlotsImplementHeap ==
    ASSUME OneLink, "try_from_any" \notin Calls
    PROVE  Spec => ImplementsHeap
PROOF
<1>1. Init => Promise!Init
  <2> SUFFICES ASSUME Init PROVE Promise!Init
    OBVIOUS
  <2>1. Stored = 0 /\ Loadable = {} /\ MarkedValues = {0}
    BY DEF Init, Stored, Loadable, MarkedValues
  <2>2. link = [o \in Objects |-> 0] /\ handles = [o \in Objects |-> 0]
    BY DEF Init
  <2> QED
    BY <2>1, <2>2 DEF Promise!Init, Promise!NotMarking, Promise!Objects, Objects
<1>2. BinInv /\ [Next]_vars => [Promise!Next]_(Promise!heapVars)
  BY NextBin DEF Counting
<1> QED
  BY <1>1, <1>2, BinInvariant, PTL DEF Spec, ImplementsHeap, Promise!Spec

\* What the Roots reach loads, and while a marking is not swept it is marked.
LEMMA ReachableIsSafe ==
    ASSUME Counting, BinInv
    PROVE  /\ Promise!Reachable \subseteq Loadable
           /\ marking => Promise!Reachable \subseteq MarkedValues
PROOF
<1>1. Promise!Closed(Loadable) /\ Loadable \in SUBSET Promise!Objects
  BY SlotOfValue DEF Promise!Closed, Promise!Objects, Objects
<1>2. ASSUME marking
      PROVE  Promise!Closed(MarkedValues) /\ MarkedValues \in SUBSET Promise!Objects
  <2>1. MarkedValues = {slots[p].value : p \in {q \in Positions :
                            slots[q].allocated /\ slots[q].mark = markBits}}
    BY <1>2 DEF MarkedValues
  <2>2. ASSUME NEW o \in Loadable, slots[At(o)].mark = markBits PROVE o \in MarkedValues
    BY <2>1, <2>2, SlotOfValue
  <2>3. ASSUME NEW o \in Objects, handles[o] > 0 PROVE o \in MarkedValues
    <3>1. /\ o \in Loadable /\ At(o) \in Positions /\ slots[At(o)].allocated
          /\ slots[At(o)].roots > 0
      BY <2>3, SlotOfValue
    <3>2. slots[At(o)].mark = markBits
      BY <1>2, <3>1 DEF BinInv, MarkedOK
    <3> QED
      BY <2>2, <3>1, <3>2
  <2>4. ASSUME NEW o \in MarkedValues, link[o] \in Loadable PROVE link[o] \in MarkedValues
    <3>1. PICK p \in Positions : slots[p].allocated /\ slots[p].mark = markBits
                                 /\ o = slots[p].value
      BY <2>1
    <3>2. PICK w \in Loadable : w = link[o]
      BY <2>4
    <3>3. w \in 1..Stored /\ Loads(w)
      BY SlotOfValue
    <3>4. slots[At(w)].mark = markBits
      BY <1>2, <3>1, <3>2, <3>3 DEF BinInv, MarkedOK
    <3> QED
      BY <2>2, <3>2, <3>4
  <2>5. MarkedValues \subseteq Objects
    BY <2>1, SlotOfValue
  <2> QED
    BY <2>3, <2>4, <2>5 DEF Promise!Closed, Promise!Objects, Objects
<1> QED
  BY <1>1, <1>2 DEF Promise!Reachable

\* No step takes away a value that a Root reaches (the doc of Root).
THEOREM ReachableIsKept ==
    ASSUME OneLink, "try_from_any" \notin Calls
    PROVE  Spec => ReachableStaysLoadable
PROOF
<1>1. ASSUME BinInv, BinInv', [Next]_vars
      PROVE  \A o \in Promise!Reachable : Load(refs[o])' = o
  <2> TAKE o \in Promise!Reachable
  <2>1. o \in Loadable /\ (marking => o \in MarkedValues)
    BY <1>1, ReachableIsSafe DEF Counting
  <2>2. [Promise!Next]_(Promise!heapVars)
    BY <1>1, NextBin DEF Counting
  <2>3. o \in Loadable'
    <3>1. ASSUME Promise!Sweep PROVE o \in Loadable'
      <4>1. MarkedValues # {0} /\ Loadable' = Loadable \cap MarkedValues
        BY <3>1 DEF Promise!Sweep, Promise!NotMarking
      <4>2. marking
        BY <4>1 DEF MarkedValues
      <4> QED
        BY <2>1, <4>1, <4>2
    <3>2. ASSUME ~Promise!Sweep PROVE Loadable \subseteq Loadable'
      BY <2>2, <3>2 DEF Promise!Next, Promise!New, Promise!Relink, Promise!Upgrade,
                        Promise!Clone, Promise!Drop, Promise!Mark, Promise!heapVars
    <3> QED
      BY <2>1, <3>1, <3>2
  <2>4. Load(refs[o])' = o
    BY <2>3 DEF Loadable
  <2> QED
    BY <2>4
<1>2. BinInv /\ BinInv' /\ [Next]_vars
      => [\A o \in Promise!Reachable : Load(refs[o])' = o]_vars
  BY <1>1
<1> QED
  BY <1>2, BinInvariant, PTL DEF Spec, ReachableStaysLoadable
===============================================================================
