---------------------------------- MODULE Bin ----------------------------------
(***************************************************************************)
(* Bin, Slabs, Slab and SlotState: where a pool keeps its values of one    *)
(* type (src/src/lib.rs).                                                  *)
(*                                                                         *)
(* A Bin is a chain of Slabs, each of SlabsPerChunk slabs, each of         *)
(* SlabSize slots.  A slot is taken from the free list that the sweeps     *)
(* thread through the slots, else behind the last allocated slot of a slab *)
(* of the chain's tail, else in a new slab, else in a new link of the      *)
(* chain.  A Ref names its slot by a BinId and a generation.               *)
(*                                                                         *)
(* Only the thread of the pool allocates, and it has a guard; the          *)
(* collector marks and sweeps when nobody has one (CollectionGuards).  So  *)
(* each of adopt, mark and sweep is one step, and between mark and sweep   *)
(* only Roots are cloned and dropped.  The order of the marking is left    *)
(* out; so are the types and pools other than this one.  A value is its    *)
(* number, in the order of storing, and the Ref it holds, if any.          *)
(***************************************************************************)
EXTENDS Integers, Sequences, FiniteSetsExt

CONSTANTS
    SlabSize,       \* slots of a slab, 256 in the source
    SlabsPerChunk,  \* slabs of a Slabs, 256 in the source
    MaxSlabs,       \* bound: slabs of the bin
    GenMod,         \* generations, 2^32 in the source
    MarkMod,        \* values of the mark bits, 2^8 in the source
    MaxAborts,      \* attempts that may fail in a row
    MaxObjects,     \* bound: values stored
    MaxRoots,       \* bound: Root handles to one value
    Calls           \* calls of the program beside those of every program

ASSUME BinConstants ==
    /\ {SlabSize, SlabsPerChunk, MaxSlabs, MaxRoots} \subseteq Nat \ {0}
    /\ {MaxAborts, MaxObjects} \subseteq Nat
    /\ Calls \subseteq {"try_from_any"}
    /\ GenMod \in Nat /\ GenMod > MaxObjects   \* generations do not wrap
    /\ MarkMod \in Nat /\ MarkMod > MaxAborts + 2

VARIABLES
    slots,          \* the Slot of each position
    slabs,          \* how many slabs there are
    lastAllocated,  \* Slab::last_allocated of each slab
    firstFree,      \* Slabs::first_free_slab of each link of the chain
    freeHead,       \* Bin::free_head
    markBits,       \* Collector::mark_bits
    marking,        \* the slots are marked and not yet swept
    aborts,         \* attempts that failed since the last collection
    refs,           \* the Ref returned for each value stored, in order
    link,           \* the value whose Ref each value holds, 0 if none
    handles         \* Root handles of each value

slotVars == <<slots, slabs, lastAllocated, firstFree, freeHead>>
collectVars == <<markBits, marking, aborts>>
programVars == <<refs, link, handles>>
vars == <<slotVars, collectVars, programVars>>

Slabs == 0..(MaxSlabs - 1)
SlotIndex == 0..(SlabSize - 1)
Positions == Slabs \X SlotIndex
Objects == 1..MaxObjects
Chunks == 0..(MaxSlabs \div SlabsPerChunk)

-----------------------------------------------------------------------------
(* BinId.                                                                  *)

\* BinId::new; 0 is the invalid BinId that ends the free list.
BinId(slab, slot) == (slab + 1) * SlabSize + slot
NoBin == 0

\* BinId::slab and BinId::slot.
PositionOf(bin) == <<(bin \div SlabSize) - 1, bin % SlabSize>>

BinIds == {NoBin} \cup {BinId(p[1], p[2]) : p \in Positions}

-----------------------------------------------------------------------------
(* State.                                                                  *)

\* Slot and SlotState; the union of value and free link has the one that
\* "allocated" says.
Slot == [allocated : BOOLEAN, generation : 0..(GenMod - 1),
         mark : 0..(MarkMod - 1), value : 0..MaxObjects,
         roots : 0..MaxRoots, free : BinIds]

\* alloc_zeroed of Slab::new.
ZeroedSlot == [allocated |-> FALSE, generation |-> 0, mark |-> 0, value |-> 0,
               roots |-> 0, free |-> NoBin]

TypeOK ==
    /\ slots \in [Positions -> Slot]
    /\ slabs \in 0..MaxSlabs
    /\ lastAllocated \in [Slabs -> SlotIndex]
    /\ firstFree \in [Chunks -> 0..(SlabsPerChunk - 1)]
    /\ freeHead \in BinIds
    /\ markBits \in 0..(MarkMod - 1)
    /\ marking \in BOOLEAN
    /\ aborts \in 0..MaxAborts
    /\ refs \in Seq([bin : BinIds, generation : 0..(GenMod - 1)])
    /\ link \in [Objects -> 0..MaxObjects]
    /\ handles \in [Objects -> 0..MaxRoots]

Init ==
    /\ slots = [p \in Positions |-> ZeroedSlot]
    /\ slabs = 0
    /\ lastAllocated = [s \in Slabs |-> 0]
    /\ firstFree = [c \in Chunks |-> 0]
    /\ freeHead = NoBin
    /\ markBits = 0
    /\ marking = FALSE
    /\ aborts = 0
    /\ refs = <<>>
    /\ link = [o \in Objects |-> 0]
    /\ handles = [o \in Objects |-> 0]

-----------------------------------------------------------------------------
(* Loading: Bin::load and load_root.                                       *)

\* The value that a Ref loads, 0 for None.
Load(ref) ==
    LET p == PositionOf(ref.bin)
    IN  IF /\ p[1] < slabs
           /\ slots[p].allocated
           /\ slots[p].generation = ref.generation
        THEN slots[p].value
        ELSE 0

-----------------------------------------------------------------------------
(* Allocating: Bins::adopt, Bin::adopt, Slabs::adopt and Slab::try_adopt.  *)

Stored == Len(refs)

\* The slot at p gets the next value, with r roots and a Ref to value "to";
\* the caller gets a Ref with this generation and BinId.
Store(p, bin, generation, r, to) ==
    /\ slots' = [slots EXCEPT ![p] =
                    [allocated |-> TRUE, generation |-> generation, mark |-> 0,
                     value |-> Stored + 1, roots |-> r, free |-> NoBin]]
    /\ refs' = Append(refs, [bin |-> bin, generation |-> generation])
    /\ link' = [link EXCEPT ![Stored + 1] = to]
    /\ handles' = [handles EXCEPT ![Stored + 1] = r]

\* A call of Root::new or Ref::new that the model still has room for.  The Ref
\* in the value may be of a value that was collected.
MayStore(to) ==
    /\ ~marking
    /\ Stored < MaxObjects
    /\ to <= Stored

\* Faulty variant of NextGeneration: a reused slot keeps its generation.
SameGeneration(p) == slots[p].generation

\* SlotState::try_allocate and allocate.
NextGeneration(p) == (slots[p].generation + 1) % GenMod

\* Faulty variant of AdoptFree: last_allocated is not raised again.
AdoptFreeUnraised(r, to) ==
    LET p == PositionOf(freeHead)
    IN  /\ MayStore(to)
        /\ freeHead # NoBin
        /\ ~slots[p].allocated
        /\ Store(p, freeHead, NextGeneration(p), r, to)
        /\ freeHead' = slots[p].free
        /\ UNCHANGED <<slabs, lastAllocated, firstFree, collectVars>>

\* A slot of the free list.
AdoptFree(r, to) ==
    LET p == PositionOf(freeHead)
    IN  /\ MayStore(to)
        /\ freeHead # NoBin
        /\ ~slots[p].allocated
        /\ Store(p, freeHead, NextGeneration(p), r, to)
        /\ freeHead' = slots[p].free
        /\ lastAllocated' = [lastAllocated EXCEPT ![p[1]] = Max({@, p[2]})]
        /\ UNCHANGED <<slabs, firstFree, collectVars>>

\* The last Slabs of the chain: slabs_tail.
TailLink == (slabs - 1) \div SlabsPerChunk
TailSize == slabs - TailLink * SlabsPerChunk

\* The slabs of the tail, from first_free_slab on, that are not full.
OpenSlabs ==
    {i \in firstFree[TailLink]..(TailSize - 1) :
        lastAllocated[TailLink * SlabsPerChunk + i] < SlabSize - 1}

\* The slot behind the last allocated one of the first open slab.
AdoptBump(r, to) ==
    LET i == Min(OpenSlabs)
        slab == TailLink * SlabsPerChunk + i
        p == <<slab, lastAllocated[slab] + 1>>
    IN  /\ MayStore(to)
        /\ freeHead = NoBin
        /\ slabs > 0
        /\ OpenSlabs # {}
        /\ Store(p, BinId(p[1], p[2]), NextGeneration(p), r, to)
        /\ lastAllocated' = [lastAllocated EXCEPT ![slab] = p[2]]
        /\ firstFree' = [firstFree EXCEPT ![TailLink] = i]
        /\ UNCHANGED <<slabs, freeHead, collectVars>>

\* A new slab of the tail.  Its BinId leaves out the offset of the tail.
AdoptNewSlab(r, to) ==
    /\ MayStore(to)
    /\ freeHead = NoBin
    /\ slabs \in 1..(MaxSlabs - 1)
    /\ OpenSlabs = {}
    /\ TailSize < SlabsPerChunk
    /\ Store(<<slabs, 0>>, BinId(TailSize, 0), 0, r, to)
    /\ slabs' = slabs + 1
    /\ UNCHANGED <<lastAllocated, firstFree, freeHead, collectVars>>

\* A new link of the chain, with its first slab; also the new Bin of the first
\* value of its type.
AdoptNewChunk(r, to) ==
    /\ MayStore(to)
    /\ freeHead = NoBin
    /\ slabs < MaxSlabs
    /\ slabs > 0 => OpenSlabs = {} /\ TailSize = SlabsPerChunk
    /\ Store(<<slabs, 0>>, BinId(slabs, 0), 0, r, to)
    /\ slabs' = slabs + 1
    /\ UNCHANGED <<lastAllocated, firstFree, freeHead, collectVars>>

-----------------------------------------------------------------------------
(* Roots.                                                                  *)

\* The root count behind the pointer of a Root of value o.
RootCount(o) == slots[PositionOf(refs[o].bin)].roots

\* The count is set to n, and the program has h handles.  The count wraps
\* around, at 2^64 in the source.
CountRoots(o, n, h) ==
    /\ slots' = [slots EXCEPT
                    ![PositionOf(refs[o].bin)].roots = n % (MaxRoots + 1)]
    /\ handles' = [handles EXCEPT ![o] = h]
    /\ UNCHANGED <<slabs, lastAllocated, firstFree, freeHead, collectVars, refs,
                   link>>

\* Ref::as_root and AnyRef::upgrade, of a Ref that loads.
Upgrade(o) ==
    /\ ~marking
    /\ o <= Stored
    /\ Load(refs[o]) # 0
    /\ handles[o] < MaxRoots
    /\ CountRoots(o, RootCount(o) + 1, handles[o] + 1)

\* Root::clone, AnyRoot::clone, to_any_root and downcast_root.
CloneRoot(o) ==
    /\ handles[o] \in 1..(MaxRoots - 1)
    /\ CountRoots(o, RootCount(o) + 1, handles[o] + 1)

\* Who drops a Root: the program; or Root::try_from_any, under a guard, of the
\* AnyRoot it was given, and returns a Root that it did not count.
Returned(o) ==
    IF "try_from_any" \in Calls /\ ~marking /\ Load(refs[o]) = o
    THEN 0..1 ELSE {0}

\* Dropping a Root or an AnyRoot.
DropRoot(o) ==
    /\ handles[o] > 0
    /\ \E n \in Returned(o) :
          CountRoots(o, RootCount(o) + MaxRoots, handles[o] - 1 + n)

\* A value behind a lock gets another Ref, under a guard.
Relink(o, to) ==
    /\ ~marking
    /\ o <= Stored /\ to <= Stored
    /\ Load(refs[o]) = o
    /\ link' = [link EXCEPT ![o] = to]
    /\ UNCHANGED <<slotVars, collectVars, refs, handles>>

-----------------------------------------------------------------------------
(* Collecting.                                                             *)

\* Faulty variants of NextMarkBits: wider than a byte; 0 is not skipped.
NextMarkBitsUnwrapped == markBits + 1
NextMarkBitsThroughZero == (markBits + 1) % MarkMod

\* Collector::collect: the next mark bits, 0 skipped.
NextMarkBits == IF markBits = MarkMod - 1 THEN 1 ELSE markBits + 1

\* An attempt that does not get exclusive access has changed the mark bits.
Abort ==
    /\ ~marking
    /\ aborts < MaxAborts
    /\ aborts' = aborts + 1
    /\ markBits' = NextMarkBits
    /\ UNCHANGED <<slotVars, marking, programVars>>

\* SlabsIter: the slabs it visits.  At the end of a Slabs it moves on to the
\* next one without restarting its slice iterator.
IteratedSlabs == {s \in Slabs : s < slabs /\ s < SlabsPerChunk}

\* The positions that a mark request for a Ref marks: SlotState::mark.
MarkedBy(ref) ==
    {p \in {PositionOf(ref.bin)} :
        /\ p[1] < slabs
        /\ slots[p].allocated
        /\ slots[p].generation = ref.generation
        /\ slots[p].mark # NextMarkBits}

\* Faulty variant of RootSlots: a slot with a single Root is not a root.
RootSlotsOffByOne ==
    UNION {MarkedBy([bin |-> BinId(p[1], p[2]),
                     generation |-> slots[p].generation]) :
           p \in {q \in IteratedSlabs \X SlotIndex :
                     slots[q].allocated /\ slots[q].roots > 1}}

\* Bin::trace: the slots with a root count.
RootSlots ==
    UNION {MarkedBy([bin |-> BinId(p[1], p[2]),
                     generation |-> slots[p].generation]) :
           p \in {q \in IteratedSlabs \X SlotIndex :
                     slots[q].allocated /\ slots[q].roots > 0}}

\* Bin::trace_one: what the Ref of the value in slot p marks.
TracedFrom(p) ==
    LET to == link[slots[p].value]
    IN  IF to = 0 THEN {} ELSE MarkedBy(refs[to])

\* Faulty variant of MarkedSlots: what tracing finds is marked, not traced.
MarkedSlotsUntraced ==
    RootSlots \cup UNION {TracedFrom(p) : p \in RootSlots}

\* Marking goes on until all Refs that are found are marked and traced.
MarkedSlots ==
    LET used == {p \in Positions : slots[p].allocated}
    IN  {p \in used : \A C \in SUBSET used :
            RootSlots \subseteq C /\ (\A q \in C : TracedFrom(q) \subseteq C) => p \in C}

Mark ==
    /\ ~marking
    /\ marking' = TRUE
    /\ markBits' = NextMarkBits
    /\ aborts' = 0
    /\ LET m == MarkedSlots
       IN  slots' = [p \in Positions |->
                        IF p \in m THEN [slots[p] EXCEPT !.mark = NextMarkBits]
                        ELSE slots[p]]
    /\ UNCHANGED <<slabs, lastAllocated, firstFree, freeHead, programVars>>

\* What Bin::sweep scans, in this order, and what it finds.
Scanned == {p \in IteratedSlabs \X SlotIndex : p[2] <= lastAllocated[p[1]]}
Before(p, q) == p[1] < q[1] \/ (p[1] = q[1] /\ p[2] < q[2])
Swept == {p \in Scanned : slots[p].allocated /\ slots[p].mark # markBits}
Kept(slab) == {i \in SlotIndex : /\ <<slab, i>> \in Scanned
                                 /\ slots[<<slab, i>>].allocated
                                 /\ slots[<<slab, i>>].mark = markBits}

\* Faulty variant of HeadAfter: a sweep begins with an empty free list.
HeadAfterReset(S) ==
    IF S = {} THEN NoBin
    ELSE LET q == CHOOSE q \in S : \A p \in S \ {q} : Before(p, q)
         IN  BinId(q[1], q[2])

\* The free head after sweeping the slots of S, in order.
HeadAfter(S) ==
    IF S = {} THEN freeHead
    ELSE LET q == CHOOSE q \in S : \A p \in S \ {q} : Before(p, q)
         IN  BinId(q[1], q[2])

\* Bin::sweep: the slots that are not marked are freed and threaded into the
\* free list, and last_allocated goes down to the last slot that is left.
Sweep ==
    /\ marking
    /\ marking' = FALSE
    /\ slots' = [p \in Positions |->
                    IF p \in Swept
                    THEN [ZeroedSlot EXCEPT
                             !.generation = slots[p].generation,
                             !.free = HeadAfter({q \in Swept : Before(q, p)})]
                    ELSE slots[p]]
    /\ freeHead' = HeadAfter(Swept)
    /\ lastAllocated' =
          [s \in Slabs |-> IF s \in IteratedSlabs THEN Max(Kept(s) \cup {0})
                           ELSE lastAllocated[s]]
    /\ UNCHANGED <<slabs, firstFree, markBits, aborts, programVars>>

-----------------------------------------------------------------------------
Next ==
    \/ \E r \in 0..1, to \in 0..Stored :
          \/ AdoptFree(r, to)
          \/ AdoptBump(r, to)
          \/ AdoptNewSlab(r, to)
          \/ AdoptNewChunk(r, to)
    \/ \E o \in Objects : Upgrade(o) \/ CloneRoot(o) \/ DropRoot(o)
    \/ \E o \in Objects, to \in 0..Stored : Relink(o, to)
    \/ Abort
    \/ Mark
    \/ Sweep

Spec == Init /\ [][Next]_vars

-----------------------------------------------------------------------------
(* Safety.                                                                 *)

\* A Ref loads its own value or None, never the value that got its slot later
\* or a value of another slot (Ref::load, AnyRef::load_slot).
LoadIsExact == \A o \in 1..Stored : Load(refs[o]) \in {0, o}

\* What a Root points to is there, although Root::deref never checks, and its
\* root count is the number of Root handles (Root::as_rooted, Bin::trace).
RootPointsToItsValue ==
    \A o \in Objects : handles[o] > 0 =>
        /\ Load(refs[o]) = o
        /\ slots[PositionOf(refs[o].bin)].roots = handles[o]

\* A set of slots that has the head of the free list and the successors of its
\* members.  The slots of the list are those of the smallest such set.
FollowsFreeList(C) ==
    /\ freeHead # NoBin => PositionOf(freeHead) \in C
    /\ \A p \in C : slots[p].free # NoBin => PositionOf(slots[p].free) \in C
FreeList == {p \in Positions : \A C \in SUBSET Positions : FollowsFreeList(C) => p \in C}

\* The free list has exactly the slots of the scanned slabs that had a value and
\* have none, and it ends, so no slot is in it twice: Bin::adopt finds each of
\* them, and its loop never meets an allocated slot, on which it would spin.
FreeListSound ==
    LET used == {PositionOf(refs[o].bin) : o \in 1..Stored}
    IN  /\ FreeList = {p \in used : ~slots[p].allocated}
        /\ FreeList # {} => \E p \in FreeList : slots[p].free = NoBin

\* No value is behind last_allocated, where the sweep does not look and where
\* Slab::try_adopt stores the next one (the assertion of SlotState::allocate).
LastAllocatedCovers ==
    \A p \in Positions : slots[p].allocated => p[2] <= lastAllocated[p[1]]

\* What the slots promise: Heap, of the values whose Refs load.
Loadable == {o \in 1..Stored : Load(refs[o]) = o}

\* The values found by the marking that is not yet swept, {0} if there is none.
MarkedValues ==
    IF ~marking THEN {0}
    ELSE {slots[p].value : p \in {q \in Positions :
             slots[q].allocated /\ slots[q].mark = markBits}}

Promise == INSTANCE Heap WITH
    stored <- Stored,
    live <- Loadable,
    marked <- MarkedValues

\* Slots, generations, root counts, mark bits and sweeps implement that promise:
\* a collection frees what no Root reaches and nothing else.
ImplementsHeap == Promise!Spec

\* No step takes a value away that a Root reaches (the doc of Root).
ReachableStaysLoadable ==
    [][\A o \in Promise!Reachable : Load(refs[o])' = o]_vars
===============================================================================
