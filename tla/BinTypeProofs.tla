----------------------------- MODULE BinTypeProofs -----------------------------
(***************************************************************************)
(* Type correctness of Bin for a chain of any length and for all calls,    *)
(* where what BinProofs shows of the values no longer holds: whatever the  *)
(* slots hold, nothing that the code stores leaves its range.              *)
(***************************************************************************)
EXTENDS BinProofs

-----------------------------------------------------------------------------
(* Allocating.                                                             *)

\* The last link of a chain is one that there is.
LEMMA LastLink ==
    ASSUME TypeOK, slabs > 0
    PROVE  /\ slabs \in Nat /\ slabs <= MaxSlabs
           /\ TailLink \in Chunks /\ TailLink * SlabsPerChunk \in Nat
           /\ TailLink * SlabsPerChunk < slabs
           /\ TailSize \in 1..slabs /\ TailSize <= SlabsPerChunk
           /\ TailLink * SlabsPerChunk + TailSize = slabs
PROOF
<1>1. /\ slabs \in Nat /\ slabs <= MaxSlabs /\ slabs - 1 \in Nat
      /\ SlabsPerChunk \in Nat \ {0} /\ MaxSlabs \in Nat
  BY Sizes DEF TypeOK
<1>2. PICK n \in Nat, c \in Nat \ {0} : n = slabs - 1 /\ c = SlabsPerChunk
  BY <1>1
<1>3. PICK q, m \in Int : q = n \div c /\ m = MaxSlabs \div c
  BY <1>1, <1>2
<1>4. /\ q \in Nat /\ q * c \in Nat /\ q * c <= n /\ n < q * c + c
      /\ m * c + c > MaxSlabs
  BY <1>1, <1>2, <1>3
<1>5. q <= m
  <2> SUFFICES ASSUME q > m PROVE FALSE
    BY <1>3
  <2>1. q * c >= (m + 1) * c /\ (m + 1) * c = m * c + c
    BY <1>2, <1>3
  <2> QED
    BY <1>1, <1>2, <1>3, <1>4, <2>1
<1>6. TailLink = q /\ TailLink * SlabsPerChunk = q * c /\ q \in Chunks
  BY <1>2, <1>3, <1>4, <1>5 DEF TailLink, Chunks
<1>7. TailSize = slabs - q * c
  BY <1>6 DEF TailSize
<1> QED
  BY <1>1, <1>2, <1>4, <1>6, <1>7

\* A store of a Ref with any BinId, in a slot that there is.
LEMMA StoreTyped ==
    ASSUME TypeOK, NEW p \in Positions, NEW b \in BinIds, NEW g \in 0..(GenMod - 1),
           NEW r \in 0..1, NEW to \in 0..Stored, MayStore(to), Store(p, b, g, r, to),
           slabs' \in 0..MaxSlabs,
           lastAllocated' \in [Slabs -> SlotIndex],
           firstFree' \in [Chunks -> 0..(SlabsPerChunk - 1)],
           freeHead' \in BinIds,
           UNCHANGED collectVars
    PROVE  TypeOK'
PROOF
<1>1. /\ slots' \in [Positions -> Slot]
      /\ refs' \in Seq([bin : BinIds, generation : 0..(GenMod - 1)])
      /\ link' \in [Objects -> 0..MaxObjects]
      /\ handles' \in [Objects -> 0..MaxRoots]
  BY StoreEffect
<1> QED
  BY <1>1 DEF TypeOK, collectVars

LEMMA NextGenerationTyped ==
    ASSUME TypeOK, NEW p \in Positions
    PROVE  NextGeneration(p) \in 0..(GenMod - 1)
PROOF
<1>1. PICK g \in Nat : g = slots[p].generation
  BY SlotFields
<1>2. \A m \in Nat : m > 0 => (g + 1) % m \in 0..(m - 1)
  OBVIOUS
<1> QED
  BY <1>1, <1>2, Sizes DEF NextGeneration

LEMMA AdoptFreeTyped ==
    ASSUME TypeOK, NEW r \in 0..1, NEW to \in 0..Stored, AdoptFree(r, to)
    PROVE  TypeOK'
PROOF
<1>1. PICK p \in Positions :
          p = PositionOf(freeHead) /\ p[1] \in Slabs /\ p[2] \in SlotIndex
  <2>1. freeHead \in BinIds /\ freeHead # NoBin
    BY DEF TypeOK, AdoptFree
  <2> QED
    BY <2>1, PositionOfBinId, Pairs
<1>2. /\ MayStore(to) /\ Store(p, freeHead, NextGeneration(p), r, to)
      /\ freeHead \in BinIds /\ freeHead' = slots[p].free
      /\ lastAllocated' = [lastAllocated EXCEPT ![p[1]] = Max({@, p[2]})]
      /\ UNCHANGED <<slabs, firstFree, collectVars>>
  BY <1>1 DEF AdoptFree, TypeOK
<1>3. lastAllocated' \in [Slabs -> SlotIndex]
  <2>1. lastAllocated \in [Slabs -> SlotIndex] /\ SlotIndex \subseteq Nat
    BY Pairs DEF TypeOK
  <2>2. PICK m \in SlotIndex : m = Max({lastAllocated[p[1]], p[2]})
    BY <1>1, <2>1, MaxOfTwo
  <2>3. lastAllocated' = [lastAllocated EXCEPT ![p[1]] = m]
    BY <1>1, <1>2, <2>1, <2>2
  <2> QED
    BY <2>1, <2>2, <2>3
<1>4. /\ freeHead' \in BinIds /\ slabs' \in 0..MaxSlabs
      /\ firstFree' \in [Chunks -> 0..(SlabsPerChunk - 1)]
  BY <1>2, SlotFields DEF TypeOK
<1> QED
  BY <1>2, <1>3, <1>4, NextGenerationTyped, StoreTyped

LEMMA AdoptBumpTyped ==
    ASSUME TypeOK, NEW r \in 0..1, NEW to \in 0..Stored, AdoptBump(r, to)
    PROVE  TypeOK'
PROOF
<1>1. PICK l \in Nat, c \in Chunks :
          /\ c = TailLink /\ l = TailLink * SlabsPerChunk
          /\ slabs \in Nat /\ slabs <= MaxSlabs
          /\ TailSize \in Nat /\ TailSize <= SlabsPerChunk /\ l + TailSize = slabs
  <2>1. slabs > 0
    BY DEF AdoptBump
  <2> QED
    BY <2>1, LastLink
<1>2. /\ firstFree \in [Chunks -> 0..(SlabsPerChunk - 1)] /\ firstFree[c] \in Nat
      /\ OpenSlabs = {i \in firstFree[c]..(TailSize - 1) :
                          lastAllocated[l + i] < SlabSize - 1}
  BY <1>1, Sizes DEF TypeOK, OpenSlabs
<1>3. OpenSlabs \in SUBSET Nat /\ OpenSlabs # {}
  BY <1>1, <1>2 DEF AdoptBump
<1>4. PICK i \in OpenSlabs : i = Min(OpenSlabs)
  BY <1>3, MinOfNaturals
<1>5. /\ i \in Nat /\ i \in 0..(SlabsPerChunk - 1) /\ l + i \in Slabs
      /\ lastAllocated[l + i] < SlabSize - 1
  BY <1>1, <1>2, <1>3, <1>4, Sizes DEF Slabs
<1>6. lastAllocated \in [Slabs -> SlotIndex] /\ lastAllocated[l + i] + 1 \in SlotIndex
  <2>1. lastAllocated \in [Slabs -> SlotIndex] /\ lastAllocated[l + i] \in SlotIndex
    BY <1>5 DEF TypeOK
  <2>2. \A j \in SlotIndex : j < SlabSize - 1 => j + 1 \in SlotIndex
    BY Sizes DEF SlotIndex
  <2> QED
    BY <1>5, <2>1, <2>2
<1>7. PICK p \in Positions :
          /\ p = <<l + i, lastAllocated[l + i] + 1>>
          /\ p[1] = l + i /\ p[2] = lastAllocated[l + i] + 1
  BY <1>5, <1>6, Pairs
<1>8. /\ MayStore(to)
      /\ Store(p, BinId(p[1], p[2]), NextGeneration(p), r, to)
      /\ lastAllocated' = [lastAllocated EXCEPT ![l + i] = p[2]]
      /\ firstFree' = [firstFree EXCEPT ![c] = i]
      /\ UNCHANGED <<slabs, freeHead, collectVars>>
  BY <1>1, <1>4, <1>7 DEF AdoptBump
<1>9. /\ lastAllocated' \in [Slabs -> SlotIndex]
      /\ firstFree' \in [Chunks -> 0..(SlabsPerChunk - 1)]
      /\ slabs' \in 0..MaxSlabs /\ freeHead' \in BinIds
  BY <1>2, <1>5, <1>6, <1>7, <1>8 DEF TypeOK
<1> QED
  BY <1>8, <1>9, BinIdOfPosition, NextGenerationTyped, StoreTyped

\* The BinId of a new slab may be that of a slot of an earlier link of the chain,
\* but it is the BinId of a slot.
LEMMA AdoptNewTyped ==
    ASSUME TypeOK, NEW r \in 0..1, NEW to \in 0..Stored,
           AdoptNewSlab(r, to) \/ AdoptNewChunk(r, to)
    PROVE  TypeOK'
PROOF
<1>1. /\ slabs \in Nat /\ slabs < MaxSlabs /\ MaxSlabs \in Nat /\ MayStore(to)
      /\ slabs' = slabs + 1
      /\ UNCHANGED <<lastAllocated, firstFree, freeHead, collectVars>>
  BY Sizes DEF TypeOK, AdoptNewSlab, AdoptNewChunk
<1>2. PICK p \in Positions : p = <<slabs, 0>>
  <2>1. slabs \in Slabs /\ 0 \in SlotIndex
    BY <1>1, Sizes DEF Slabs, SlotIndex
  <2> QED
    BY <2>1, Pairs
<1>3. PICK b \in BinIds : Store(p, b, 0, r, to)
  <2>1. \A s \in Slabs : BinId(s, 0) \in BinIds
    <3>1. ASSUME NEW s \in Slabs PROVE BinId(s, 0) \in BinIds
      <4>1. 0 \in SlotIndex
        BY Sizes DEF SlotIndex
      <4>2. <<s, 0>> \in Positions /\ <<s, 0>>[1] = s /\ <<s, 0>>[2] = 0
        BY <4>1, Pairs
      <4> QED
        BY <4>2, BinIdOfPosition
    <3> QED
      BY <3>1
  <2>2. CASE AdoptNewSlab(r, to)
    <3>1. slabs > 0
      BY <1>1, <2>2 DEF AdoptNewSlab
    <3>2. TailSize \in Slabs
      BY <1>1, <3>1, LastLink DEF Slabs
    <3> QED
      BY <1>2, <2>1, <2>2, <3>2 DEF AdoptNewSlab
  <2>3. CASE AdoptNewChunk(r, to)
    <3>1. slabs \in Slabs
      BY <1>1 DEF Slabs
    <3> QED
      BY <1>2, <2>1, <2>3, <3>1 DEF AdoptNewChunk
  <2> QED
    BY <2>2, <2>3
<1>4. /\ 0 \in 0..(GenMod - 1) /\ slabs' \in 0..MaxSlabs
      /\ lastAllocated' \in [Slabs -> SlotIndex]
      /\ firstFree' \in [Chunks -> 0..(SlabsPerChunk - 1)]
      /\ freeHead' \in BinIds
  BY <1>1, Sizes DEF TypeOK
<1> QED
  BY <1>1, <1>3, <1>4, StoreTyped

-----------------------------------------------------------------------------
(* Roots.                                                                  *)

\* A root count wraps around, also in a slot of another value.
LEMMA CountTyped ==
    ASSUME TypeOK, NEW o \in Objects, NEW h \in 0..MaxRoots, NEW k \in Nat,
           CountRoots(o, RootCount(o) + k, h)
    PROVE  TypeOK'
PROOF
<1>1. PICK p : p = PositionOf(refs[o].bin)
  OBVIOUS
<1>2. PICK n : n = (RootCount(o) + k) % (MaxRoots + 1)
  OBVIOUS
<1>3. /\ slots' = [slots EXCEPT ![p].roots = n]
      /\ handles' = [handles EXCEPT ![o] = h]
      /\ UNCHANGED <<slabs, lastAllocated, firstFree, freeHead, markBits, marking, aborts,
                     refs, link>>
  BY <1>1, <1>2 DEF CountRoots, collectVars
<1>4. slots' \in [Positions -> Slot]
  <2>1. slots \in [Positions -> Slot]
    BY DEF TypeOK
  <2>2. CASE p \notin Positions
    <3>1. slots' = slots
      BY <1>3, <2>1, <2>2
    <3> QED
      BY <2>1, <3>1
  <2>3. CASE p \in Positions
    <3>1. PICK c \in Nat : c = RootCount(o) + k
      BY <1>1, <2>1, <2>3, Sizes DEF Slot, RootCount
    <3>2. n \in 0..MaxRoots
      BY <1>2, <3>1, Sizes
    <3> QED
      BY <1>3, <2>1, <2>3, <3>2 DEF Slot
  <2> QED
    BY <2>2, <2>3
<1>5. handles' \in [Objects -> 0..MaxRoots]
  BY <1>3 DEF TypeOK
<1> QED
  BY <1>3, <1>4, <1>5 DEF TypeOK

LEMMA RootsTyped ==
    ASSUME TypeOK, NEW o \in Objects, Upgrade(o) \/ CloneRoot(o) \/ DropRoot(o)
    PROVE  TypeOK'
PROOF
<1>1. handles[o] \in Nat /\ handles[o] <= MaxRoots /\ MaxRoots \in Nat
  BY Sizes DEF TypeOK
<1>2. CASE Upgrade(o) \/ CloneRoot(o)
  <2>1. handles[o] + 1 \in 0..MaxRoots /\ CountRoots(o, RootCount(o) + 1, handles[o] + 1)
    BY <1>1, <1>2 DEF Upgrade, CloneRoot
  <2> QED
    BY <2>1, CountTyped
<1>3. CASE DropRoot(o)
  <2>1. PICK n \in {0, 1} : CountRoots(o, RootCount(o) + MaxRoots, handles[o] - 1 + n)
    BY <1>3 DEF DropRoot, Returned
  <2>2. handles[o] - 1 + n \in 0..MaxRoots
    BY <1>1, <1>3 DEF DropRoot
  <2> QED
    BY <1>1, <2>1, <2>2, CountTyped
<1> QED
  BY <1>2, <1>3

\* A Ref of a value that there was is stored in another.
LEMMA RelinkTyped ==
    ASSUME TypeOK, Stored <= MaxObjects, NEW o \in Objects, NEW to \in 0..Stored, Relink(o, to)
    PROVE  TypeOK'
PROOF
<1>1. to \in 0..MaxObjects
  BY StoredIsNat, Sizes
<1>2. link' \in [Objects -> 0..MaxObjects]
  BY <1>1 DEF Relink, TypeOK
<1> QED
  BY <1>2 DEF Relink, TypeOK, slotVars, collectVars

-----------------------------------------------------------------------------
(* Collecting.                                                             *)

LEMMA MarkTyped ==
    ASSUME TypeOK, Abort \/ Mark
    PROVE  TypeOK'
PROOF
<1>1. NextMarkBits \in 0..(MarkMod - 1)
  BY Sizes DEF NextMarkBits, TypeOK
<1>2. CASE Abort
  <2>1. aborts' \in 0..MaxAborts
    BY <1>2, Sizes DEF Abort, TypeOK
  <2> QED
    BY <1>1, <1>2, <2>1 DEF Abort, TypeOK, slotVars, programVars
<1>3. CASE Mark
  <2>1. slots' \in [Positions -> Slot] /\ aborts' \in 0..MaxAborts
    BY <1>3, MarkEffect, Sizes DEF Mark
  <2> QED
    BY <1>1, <1>3, <2>1 DEF Mark, TypeOK, programVars
<1> QED
  BY <1>2, <1>3

LEMMA SweepTyped ==
    ASSUME TypeOK, Sweep
    PROVE  TypeOK'
PROOF
<1>1. slots' \in [Positions -> Slot]
  BY SweepEffect
<1>2. freeHead' \in BinIds
  <2>1. Swept \in SUBSET Positions
    BY DEF Swept, Scanned, IteratedSlabs, Positions
  <2>2. HeadAfter(Swept) \in BinIds
    BY <2>1, HeadIsSwept, BinIdOfPosition DEF TypeOK
  <2> QED
    BY <2>2 DEF Sweep
<1>3. lastAllocated' \in [Slabs -> SlotIndex]
  <2>1. ASSUME NEW s \in Slabs PROVE Max(Kept(s) \cup {0}) \in SlotIndex
    <3> DEFINE S == Kept(s) \cup {0}
    <3>1. S \in SUBSET (0..(SlabSize - 1)) /\ S # {} /\ SlabSize - 1 \in Nat
      BY Sizes DEF Kept, SlotIndex
    <3> HIDE DEF S
    <3>2. Max(S) \in S
      BY <3>1, MaxOfNaturals
    <3> QED
      BY <3>1, <3>2 DEF S, SlotIndex
  <2>2. \A s \in Slabs : lastAllocated[s] \in SlotIndex
    BY DEF TypeOK
  <2> QED
    BY <2>1, <2>2 DEF Sweep
<1> QED
  BY <1>1, <1>2, <1>3 DEF Sweep, TypeOK, programVars

-----------------------------------------------------------------------------
(* The theorem.                                                            *)

\* There are no more values than are counted, so a Ref that is stored is of one.
TypeInv == TypeOK /\ Stored <= MaxObjects

LEMMA NextTyped == TypeInv /\ [Next]_vars => TypeInv'
PROOF
<1> SUFFICES ASSUME TypeInv, [Next]_vars PROVE TypeInv'
  OBVIOUS
<1>0. TypeOK /\ Stored \in Nat /\ Stored <= MaxObjects
  BY StoredIsNat DEF TypeInv
<1>1. ASSUME NEW r \in 0..1, NEW to \in 0..Stored,
             \/ AdoptFree(r, to) \/ AdoptBump(r, to)
             \/ AdoptNewSlab(r, to) \/ AdoptNewChunk(r, to)
      PROVE  TypeInv'
  <2>1. TypeOK'
    BY <1>0, <1>1, AdoptFreeTyped, AdoptBumpTyped, AdoptNewTyped
  <2>2. Stored < MaxObjects /\ \E ref : refs' = Append(refs, ref)
    BY <1>1 DEF AdoptFree, AdoptBump, AdoptNewSlab, AdoptNewChunk, MayStore, Store
  <2>3. Stored' = Stored + 1
    <3>1. PICK ref : refs' = Append(refs, ref)
      BY <2>2
    <3>2. PICK R : refs \in Seq(R)
      BY <1>0 DEF TypeOK
    <3>3. refs \in Seq(R \cup {ref})
      BY <3>2
    <3>4. ref \in R \cup {ref}
      OBVIOUS
    <3> QED
      BY <3>1, <3>3, <3>4, AppendProperties DEF Stored
  <2> QED
    BY <1>0, <2>1, <2>2, <2>3, Sizes DEF TypeInv
<1>2. ASSUME NEW o \in Objects, Upgrade(o) \/ CloneRoot(o) \/ DropRoot(o)
      PROVE  TypeInv'
  <2>1. Stored' = Stored
    BY <1>2 DEF Upgrade, CloneRoot, DropRoot, CountRoots, Stored
  <2> QED
    BY <1>0, <1>2, <2>1, RootsTyped DEF TypeInv
<1>3. ASSUME NEW o \in Objects, NEW to \in 0..Stored, Relink(o, to) PROVE TypeInv'
  <2>1. Stored' = Stored
    BY <1>3 DEF Relink, Stored
  <2> QED
    BY <1>0, <1>3, <2>1, RelinkTyped DEF TypeInv
<1>4. CASE Abort \/ Mark \/ Sweep
  <2>1. Stored' = Stored
    BY <1>4 DEF Abort, Mark, Sweep, programVars, Stored
  <2> QED
    BY <1>0, <1>4, <2>1, MarkTyped, SweepTyped DEF TypeInv
<1>5. CASE UNCHANGED vars
  BY <1>0, <1>5 DEF vars, slotVars, collectVars, programVars, TypeInv, TypeOK, Stored
<1> QED
  BY <1>1, <1>2, <1>3, <1>4, <1>5 DEF Next

\* Every slot, slab, link of the chain, mark and Ref keeps its range, also where
\* the BinIds of a second link repeat those of the first.
THEOREM TypeCorrect == Spec => []TypeOK
PROOF
<1>1. Init => TypeInv
  <2> SUFFICES ASSUME Init PROVE TypeInv
    OBVIOUS
  <2>1. TypeOK
    BY InitBin DEF BinInv
  <2>2. Stored = 0
    BY DEF Init, Stored
  <2> QED
    BY <2>1, <2>2, Sizes DEF TypeInv
<1>2. TypeInv => TypeOK
  BY DEF TypeInv
<1> QED
  BY <1>1, <1>2, NextTyped, PTL DEF Spec
===============================================================================
