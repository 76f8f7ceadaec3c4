------------------------ MODULE CollectionGuardsProofs ------------------------
(***************************************************************************)
(* Proofs about CollectionGuards, for any set of threads and any bounds.   *)
(***************************************************************************)
EXTENDS CollectionGuards, FiniteSetTheorems, SequenceTheorems, TLAPS

-----------------------------------------------------------------------------
(* One more guard, one less.                                               *)

\* Counting one more guard of a thread adds exactly one numbered guard.
LEMMA GuardAdded ==
    ASSUME NEW h \in [Threads -> 0..MaxDepth], NEW t \in Threads,
           h[t] < MaxDepth, IsFiniteSet(GuardsOf(h))
    PROVE  /\ [h EXCEPT ![t] = @ + 1] \in [Threads -> 0..MaxDepth]
           /\ IsFiniteSet(GuardsOf([h EXCEPT ![t] = @ + 1]))
           /\ Cardinality(GuardsOf([h EXCEPT ![t] = @ + 1]))
                = Cardinality(GuardsOf(h)) + 1
PROOF
<1> DEFINE g == <<t, h[t] + 1>>
<1> DEFINE k == [h EXCEPT ![t] = @ + 1]
<1>1. k \in [Threads -> 0..MaxDepth]
  BY ConstantsAssumption
<1>2. g \notin GuardsOf(h)
  BY ConstantsAssumption DEF GuardsOf
<1>3. GuardsOf(k) = GuardsOf(h) \cup {g}
  <2>1. ASSUME NEW x \in GuardsOf(k) PROVE x \in GuardsOf(h) \cup {g}
    <3>1. PICK u \in Threads, i \in 1..MaxDepth : x = <<u, i>> /\ i <= k[u]
      BY DEF GuardsOf
    <3>2. CASE u = t /\ i = h[t] + 1
      BY <3>1, <3>2
    <3>3. CASE ~(u = t /\ i = h[t] + 1)
      <4>1. i <= h[u]
        BY <3>1, <3>3, ConstantsAssumption
      <4> QED
        BY <3>1, <4>1 DEF GuardsOf
    <3> QED
      BY <3>2, <3>3
  <2>2. ASSUME NEW x \in GuardsOf(h) \cup {g} PROVE x \in GuardsOf(k)
    BY ConstantsAssumption DEF GuardsOf
  <2> QED
    BY <2>1, <2>2
<1>4. /\ IsFiniteSet(GuardsOf(k))
      /\ Cardinality(GuardsOf(k)) = Cardinality(GuardsOf(h)) + 1
  <2> HIDE DEF g, k
  <2> QED
    BY <1>2, <1>3, FS_AddElement
<1> QED
  BY <1>1, <1>4

\* Counting one guard less of a thread removes exactly one numbered guard.
LEMMA GuardRemoved ==
    ASSUME NEW h \in [Threads -> 0..MaxDepth], NEW t \in Threads,
           h[t] > 0, IsFiniteSet(GuardsOf(h))
    PROVE  /\ [h EXCEPT ![t] = @ - 1] \in [Threads -> 0..MaxDepth]
           /\ IsFiniteSet(GuardsOf([h EXCEPT ![t] = @ - 1]))
           /\ Cardinality(GuardsOf([h EXCEPT ![t] = @ - 1]))
                = Cardinality(GuardsOf(h)) - 1
           /\ Cardinality(GuardsOf(h)) \in Nat \ {0}
PROOF
<1> DEFINE g == <<t, h[t]>>
<1> DEFINE k == [h EXCEPT ![t] = @ - 1]
<1>1. k \in [Threads -> 0..MaxDepth]
  BY ConstantsAssumption
<1>2. g \in GuardsOf(h)
  BY ConstantsAssumption DEF GuardsOf
<1>3. GuardsOf(k) = GuardsOf(h) \ {g}
  <2>1. ASSUME NEW x \in GuardsOf(k) PROVE x \in GuardsOf(h) \ {g}
    BY ConstantsAssumption DEF GuardsOf
  <2>2. ASSUME NEW x \in GuardsOf(h) \ {g} PROVE x \in GuardsOf(k)
    <3>1. PICK u \in Threads, i \in 1..MaxDepth :
                 x = <<u, i>> /\ i <= h[u] /\ <<u, i>> # g
      BY DEF GuardsOf
    <3>2. i <= k[u]
      BY <3>1, ConstantsAssumption
    <3> QED
      BY <3>1, <3>2 DEF GuardsOf
  <2> QED
    BY <2>1, <2>2
<1>4. /\ IsFiniteSet(GuardsOf(k))
      /\ Cardinality(GuardsOf(k)) = Cardinality(GuardsOf(h)) - 1
  <2> HIDE DEF g, k
  <2> QED
    BY <1>2, <1>3, FS_RemoveElement
<1>5. Cardinality(GuardsOf(h)) \in Nat \ {0}
  BY <1>2, FS_CardinalityType, FS_EmptySet
<1> QED
  BY <1>1, <1>4, <1>5

-----------------------------------------------------------------------------
(* Typing and counting.                                                    *)

\* A guard that is released, and one that is being acquired, is in the depth
\* of its thread beside the counted ones; try_acquire may leave more there.
Claim(t) == IF out[t] \/ pc[t] \in Acquiring THEN 1 ELSE 0

DepthCoversGuards == \A t \in Threads : held[t] + Claim(t) <= depth[t]

CountInv ==
    /\ TypeOK
    /\ IsFiniteSet(GuardsOf(held))
    /\ ReadersCounted
    /\ DepthCoversGuards

\* The part of CountInv that the reader word and the guards counted make up.
WordInv ==
    /\ readers \in Nat
    /\ held \in [Threads -> 0..MaxDepth]
    /\ IsFiniteSet(GuardsOf(held))
    /\ ReadersCounted

\* ReaderState::read and read_recursive keep the word right.
LEMMA CountReaderKeepsWord ==
    ASSUME WordInv, NEW t \in Threads, held[t] < MaxDepth, CountReader(t)
    PROVE  WordInv'
PROOF
<1>1. /\ [held EXCEPT ![t] = @ + 1] \in [Threads -> 0..MaxDepth]
      /\ IsFiniteSet(GuardsOf([held EXCEPT ![t] = @ + 1]))
      /\ Cardinality(GuardsOf([held EXCEPT ![t] = @ + 1]))
           = Cardinality(GuardsOf(held)) + 1
  BY GuardAdded DEF WordInv
<1>2. held' = [held EXCEPT ![t] = @ + 1] /\ readers' = readers + 1
  BY DEF CountReader
<1>3. GuardsOf(held)' = GuardsOf([held EXCEPT ![t] = @ + 1])
  BY <1>2 DEF GuardsOf
<1> QED
  BY <1>1, <1>2, <1>3 DEF WordInv, ReadersCounted

\* The releases keep the word right, and never take it below zero.
LEMMA UncountReaderKeepsWord ==
    ASSUME WordInv, NEW t \in Threads, held[t] > 0, NEW label,
           UncountReader(t, label)
    PROVE  WordInv'
PROOF
<1>1. /\ [held EXCEPT ![t] = @ - 1] \in [Threads -> 0..MaxDepth]
      /\ IsFiniteSet(GuardsOf([held EXCEPT ![t] = @ - 1]))
      /\ Cardinality(GuardsOf([held EXCEPT ![t] = @ - 1]))
           = Cardinality(GuardsOf(held)) - 1
      /\ Cardinality(GuardsOf(held)) \in Nat \ {0}
  BY GuardRemoved DEF WordInv
<1>2. held' = [held EXCEPT ![t] = @ - 1] /\ readers' = readers - 1
  BY DEF UncountReader
<1>3. GuardsOf(held)' = GuardsOf([held EXCEPT ![t] = @ - 1])
  BY <1>2 DEF GuardsOf
<1> QED
  BY <1>1, <1>2, <1>3 DEF WordInv, ReadersCounted

\* A step that leaves the word alone.
LEMMA WordUnchanged ==
    ASSUME WordInv, UNCHANGED <<readers, held>>
    PROVE  WordInv'
PROOF
BY DEF WordInv, ReadersCounted, GuardsOf

LEMMA InitCounts == Init => CountInv
PROOF
<1> SUFFICES ASSUME Init PROVE CountInv
  OBVIOUS
<1>1. TypeOK
  <2>1. commands \in Seq(Command)
    BY EmptySeq DEF Init
  <2>2. /\ depth \in [Threads -> 0..MaxDepth]
        /\ held \in [Threads -> 0..MaxDepth]
        /\ requestedAt \in [Threads -> 0..MaxRequests]
        /\ readers \in Nat
        /\ pauseFailures \in Nat
        /\ clock \in 0..MaxRequests
        /\ lastRun \in 0..MaxRequests
        /\ gcFinish \in 0..MaxRequests
    BY ConstantsAssumption DEF Init
  <2>3. /\ out \in [Threads -> BOOLEAN]
        /\ pc \in [Threads -> ThreadPc]
        /\ then \in [Threads -> {"user", "send"}]
        /\ cpc \in CollectorPc
        /\ infoLock \in Threads \cup {NoOne}
    BY DEF Init, ThreadPc, CollectorPc
  <2>4. {collecting, signalled, token, nextGc} \subseteq BOOLEAN
    BY DEF Init
  <2> QED
    BY <2>1, <2>2, <2>3, <2>4 DEF TypeOK
<1>2. GuardsOf(held) = {}
  BY ConstantsAssumption DEF Init, GuardsOf
<1>3. IsFiniteSet(GuardsOf(held)) /\ ReadersCounted
  BY <1>2, FS_EmptySet DEF Init, ReadersCounted
<1>4. DepthCoversGuards
  BY DEF Init, DepthCoversGuards, Claim, Acquiring
<1> QED
  BY <1>1, <1>3, <1>4 DEF CountInv

\* What the two numbers of a thread say of each other.
LEMMA HeldWithinDepth ==
    ASSUME TypeOK, DepthCoversGuards, NEW t \in Threads
    PROVE  /\ held[t] \in Nat /\ depth[t] \in Nat /\ MaxDepth \in Nat
           /\ held[t] <= depth[t]
           /\ depth[t] <= MaxDepth
           /\ out[t] \/ pc[t] \in Acquiring => held[t] < depth[t]
PROOF
<1>1. /\ held[t] \in 0..MaxDepth
      /\ depth[t] \in 0..MaxDepth
      /\ MaxDepth \in Nat
  BY ConstantsAssumption DEF TypeOK
<1>2. held[t] + Claim(t) <= depth[t]
  BY DEF DepthCoversGuards
<1> QED
  BY <1>1, <1>2 DEF Claim

\* Every step keeps the variables in their types and the guards counted.
LEMMA NextCounts == CountInv /\ [Next]_vars => CountInv'
PROOF
<1> SUFFICES ASSUME CountInv, [Next]_vars PROVE CountInv'
  OBVIOUS
<1> USE DEF Goto, CGoto, wordVars, threadVars, collectorVars, ThreadPc,
           Acquiring, Requesting
<1>1. TypeOK /\ WordInv /\ DepthCoversGuards
  BY DEF CountInv, TypeOK, WordInv
<1>2. ASSUME TypeOK', WordInv', DepthCoversGuards' PROVE CountInv'
  BY <1>2 DEF CountInv, WordInv
<1>3. ASSUME NEW t \in Threads, Unpark(t) PROVE CountInv'
  <2>1. WordInv'
    BY <1>1, <1>3, WordUnchanged DEF Unpark
  <2>2. TypeOK'
    BY <1>1, <1>3, <2>1, ConstantsAssumption DEF Unpark, TypeOK, WordInv
  <2>3. DepthCoversGuards'
    BY <1>1, <1>3, <2>1, <2>2, ConstantsAssumption
       DEF Unpark, DepthCoversGuards, Claim, TypeOK
  <2> QED
    BY <1>2, <2>1, <2>2, <2>3
<1>4. ASSUME NEW t \in Threads, Read(t) PROVE CountInv'
  <2>1. held[t] < MaxDepth
    BY <1>1, <1>4, HeldWithinDepth DEF Read, Enter, Acquiring
  <2>2. WordInv'
    BY <1>1, <1>4, <2>1, CountReaderKeepsWord, WordUnchanged DEF Read, Enter
  <2>3. TypeOK'
    BY <1>1, <1>4, <2>2, ConstantsAssumption
       DEF Read, Enter, CountReader, TypeOK, WordInv
  <2>4. DepthCoversGuards'
    BY <1>1, <1>4, <2>2, <2>3, ConstantsAssumption
       DEF Read, Enter, CountReader, DepthCoversGuards, Claim, TypeOK
  <2> QED
    BY <1>2, <2>2, <2>3, <2>4
<1>5. ASSUME NEW t \in Threads, LockInfo(t) PROVE CountInv'
  <2>1. WordInv'
    BY <1>1, <1>5, WordUnchanged DEF LockInfo
  <2>2. TypeOK'
    BY <1>1, <1>5, <2>1, ConstantsAssumption DEF LockInfo, TypeOK, WordInv
  <2>3. DepthCoversGuards'
    BY <1>1, <1>5, <2>1, <2>2, ConstantsAssumption
       DEF LockInfo, DepthCoversGuards, Claim, TypeOK
  <2> QED
    BY <1>2, <2>1, <2>2, <2>3
<1>6. ASSUME NEW t \in Threads, Reread(t) PROVE CountInv'
  <2>1. held[t] < MaxDepth
    BY <1>1, <1>6, HeldWithinDepth DEF Reread, Enter, Acquiring
  <2>2. WordInv'
    BY <1>1, <1>6, <2>1, CountReaderKeepsWord, WordUnchanged DEF Reread, Enter
  <2>3. TypeOK'
    BY <1>1, <1>6, <2>2, ConstantsAssumption
       DEF Reread, Enter, CountReader, TypeOK, WordInv
  <2>4. DepthCoversGuards'
    BY <1>1, <1>6, <2>2, <2>3, ConstantsAssumption
       DEF Reread, Enter, CountReader, DepthCoversGuards, Claim, TypeOK
  <2> QED
    BY <1>2, <2>2, <2>3, <2>4
<1>7. ASSUME NEW t \in Threads, Wait(t) PROVE CountInv'
  <2>1. WordInv'
    BY <1>1, <1>7, WordUnchanged DEF Wait
  <2>2. TypeOK'
    BY <1>1, <1>7, <2>1, ConstantsAssumption DEF Wait, TypeOK, WordInv
  <2>3. DepthCoversGuards'
    BY <1>1, <1>7, <2>1, <2>2, ConstantsAssumption
       DEF Wait, DepthCoversGuards, Claim, TypeOK
  <2> QED
    BY <1>2, <2>1, <2>2, <2>3
<1>8. ASSUME NEW t \in Threads, SendCollect(t) PROVE CountInv'
  <2>1. WordInv'
    BY <1>1, <1>8, WordUnchanged DEF SendCollect, Collect
  <2>2. Collect(requestedAt[t]) \in Command
    BY <1>1 DEF TypeOK, Command
  <2>3. commands' \in Seq(Command)
    BY <1>1, <1>8, <2>2, AppendProperties DEF SendCollect, TypeOK
  <2>4. TypeOK'
    BY <1>1, <1>8, <2>1, <2>3, ConstantsAssumption
       DEF SendCollect, TypeOK, WordInv
  <2>5. DepthCoversGuards'
    BY <1>1, <1>8, <2>1, <2>4, ConstantsAssumption
       DEF SendCollect, Collect, DepthCoversGuards, Claim, TypeOK
  <2> QED
    BY <1>2, <2>1, <2>4, <2>5
<1>9. ASSUME NEW t \in Threads, AwaitCollection(t) PROVE CountInv'
  <2>1. WordInv'
    BY <1>1, <1>9, WordUnchanged DEF AwaitCollection
  <2>2. TypeOK'
    BY <1>1, <1>9, <2>1, ConstantsAssumption
       DEF AwaitCollection, TypeOK, WordInv
  <2>3. DepthCoversGuards'
    BY <1>1, <1>9, <2>1, <2>2, ConstantsAssumption
       DEF AwaitCollection, DepthCoversGuards, Claim, TypeOK
  <2> QED
    BY <1>2, <2>1, <2>2, <2>3
<1>10. ASSUME NEW t \in Threads, SendSchedule(t) PROVE CountInv'
  <2>1. WordInv'
    BY <1>1, <1>10, WordUnchanged DEF SendSchedule, ScheduleCollect
  <2>2. ScheduleCollect \in Command
    BY <1>1 DEF TypeOK, Command
  <2>3. commands' \in Seq(Command)
    BY <1>1, <1>10, <2>2, AppendProperties DEF SendSchedule, TypeOK
  <2>4. TypeOK'
    BY <1>1, <1>10, <2>1, <2>3, ConstantsAssumption
       DEF SendSchedule, TypeOK, WordInv
  <2>5. DepthCoversGuards'
    BY <1>1, <1>10, <2>1, <2>4, ConstantsAssumption
       DEF SendSchedule, ScheduleCollect, DepthCoversGuards, Claim, TypeOK
  <2> QED
    BY <1>2, <2>1, <2>4, <2>5
<1>11. ASSUME NEW t \in Threads, Acquire(t) PROVE CountInv'
  <2>1. held[t] < MaxDepth
    BY <1>1, <1>11, HeldWithinDepth DEF Acquire, Acquiring
  <2>2. WordInv'
    BY <1>1, <1>11, <2>1, CountReaderKeepsWord, WordUnchanged DEF Acquire
  <2>3. depth' \in [Threads -> 0..MaxDepth]
    BY <1>1, <1>11, HeldWithinDepth DEF Acquire, TypeOK
  <2>4. pc' \in [Threads -> ThreadPc]
    BY <1>1, <1>11 DEF Acquire, CountReader, TypeOK
  <2>5. collecting' \in BOOLEAN
    BY <1>1, <1>11 DEF Acquire, CountReader, TypeOK
  <2>6. TypeOK'
    BY <1>1, <1>11, <2>2, <2>3, <2>4, <2>5 DEF Acquire, TypeOK, WordInv
  <2>7. DepthCoversGuards'
    <3>1. ASSUME NEW u \in Threads, u # t
          PROVE (held[u] + Claim(u) <= depth[u])'
      BY <1>1, <1>11, <3>1
         DEF Acquire, CountReader, DepthCoversGuards, Claim, TypeOK
    <3>2. (held[t] + Claim(t) <= depth[t])'
      <4>1. CASE depth[t] = 0
        BY <1>1, <1>11, <4>1, HeldWithinDepth
           DEF Acquire, CountReader, Claim, TypeOK
      <4>2. CASE depth[t] > 0
        BY <1>1, <1>11, <4>2, HeldWithinDepth
           DEF Acquire, CountReader, DepthCoversGuards, Claim, TypeOK
      <4> QED
        BY <1>1, <4>1, <4>2, HeldWithinDepth
    <3> QED
      BY <3>1, <3>2 DEF DepthCoversGuards
  <2> QED
    BY <1>2, <2>2, <2>6, <2>7
<1>12. ASSUME NEW t \in Threads, AllocatingIn(t) PROVE CountInv'
  <2>1. held[t] < MaxDepth
    BY <1>1, <1>12, HeldWithinDepth DEF AllocatingIn
  <2>2. WordInv'
    BY <1>1, <1>12, <2>1, CountReaderKeepsWord DEF AllocatingIn
  <2>3. TypeOK'
    BY <1>1, <1>12, <2>2, ConstantsAssumption
       DEF AllocatingIn, CountReader, TypeOK, WordInv
  <2>4. DepthCoversGuards'
    BY <1>1, <1>12, <2>2, <2>3, ConstantsAssumption
       DEF AllocatingIn, CountReader, DepthCoversGuards, Claim, TypeOK
  <2> QED
    BY <1>2, <2>2, <2>3, <2>4
<1>13. ASSUME NEW t \in Threads, TryAcquire(t) PROVE CountInv'
  <2>1. held[t] < MaxDepth
    BY <1>1, <1>13, HeldWithinDepth DEF TryAcquire, Acquiring
  <2>2. WordInv'
    BY <1>1, <1>13, <2>1, CountReaderKeepsWord, WordUnchanged DEF TryAcquire
  <2>3. depth' \in [Threads -> 0..MaxDepth]
    BY <1>1, <1>13, HeldWithinDepth DEF TryAcquire, TypeOK
  <2>4. pc' \in [Threads -> ThreadPc]
    BY <1>1, <1>13 DEF TryAcquire, CountReader, TypeOK
  <2>5. collecting' \in BOOLEAN
    BY <1>1, <1>13 DEF TryAcquire, CountReader, TypeOK
  <2>6. TypeOK'
    BY <1>1, <1>13, <2>2, <2>3, <2>4, <2>5 DEF TryAcquire, TypeOK, WordInv
  <2>7. DepthCoversGuards'
    BY <1>1, <1>13, <2>2, <2>6, ConstantsAssumption
       DEF TryAcquire, CountReader, DepthCoversGuards, Claim, TypeOK
  <2> QED
    BY <1>2, <2>2, <2>6, <2>7
<1>14. ASSUME NEW t \in Threads, DropGuard(t) PROVE CountInv'
  <2>1. WordInv'
    BY <1>1, <1>14, UncountReaderKeepsWord DEF DropGuard
  <2>2. depth' \in [Threads -> 0..MaxDepth]
    BY <1>1, <1>14, HeldWithinDepth DEF DropGuard, TypeOK
  <2>3. /\ pc' \in [Threads -> ThreadPc]
        /\ then' \in [Threads -> {"user", "send"}]
    BY <1>1, <1>14 DEF DropGuard, UncountReader, TypeOK
  <2>4. collecting' \in BOOLEAN
    BY <1>1, <1>14 DEF DropGuard, UncountReader, TypeOK
  <2>5. TypeOK'
    BY <1>1, <1>14, <2>1, <2>2, <2>3, <2>4 DEF DropGuard, TypeOK, WordInv
  <2>6. DepthCoversGuards'
    BY <1>1, <1>14, <2>1, <2>5, ConstantsAssumption
       DEF DropGuard, UncountReader, DepthCoversGuards, Claim, TypeOK
  <2> QED
    BY <1>2, <2>1, <2>5, <2>6
<1>15. ASSUME NEW t \in Threads, WhileUnlocked(t) PROVE CountInv'
  <2>1. WordInv'
    BY <1>1, <1>15, UncountReaderKeepsWord DEF WhileUnlocked, Release
  <2>2. TypeOK'
    BY <1>1, <1>15, <2>1, ConstantsAssumption
       DEF WhileUnlocked, Release, UncountReader, TypeOK, WordInv
  <2>3. DepthCoversGuards'
    BY <1>1, <1>15, <2>1, <2>2, ConstantsAssumption
       DEF WhileUnlocked, Release, UncountReader, DepthCoversGuards, Claim,
           TypeOK
  <2> QED
    BY <1>2, <2>1, <2>2, <2>3
<1>16. ASSUME NEW t \in Threads, YieldToCollector(t) PROVE CountInv'
  <2>1. WordInv'
    BY <1>1, <1>16, UncountReaderKeepsWord DEF YieldToCollector, Release
  <2>2. TypeOK'
    BY <1>1, <1>16, <2>1, ConstantsAssumption
       DEF YieldToCollector, Release, UncountReader, TypeOK, WordInv
  <2>3. DepthCoversGuards'
    BY <1>1, <1>16, <2>1, <2>2, ConstantsAssumption
       DEF YieldToCollector, Release, UncountReader, DepthCoversGuards, Claim,
           TypeOK
  <2> QED
    BY <1>2, <2>1, <2>2, <2>3
<1>17. ASSUME NEW t \in Threads, Relock(t) PROVE CountInv'
  <2>1. WordInv'
    BY <1>1, <1>17, WordUnchanged DEF Relock
  <2>2. TypeOK'
    BY <1>1, <1>17, <2>1, ConstantsAssumption DEF Relock, TypeOK, WordInv
  <2>3. DepthCoversGuards'
    BY <1>1, <1>17, <2>1, <2>2, ConstantsAssumption
       DEF Relock, DepthCoversGuards, Claim, TypeOK
  <2> QED
    BY <1>2, <2>1, <2>2, <2>3
<1>18. ASSUME NEW t \in Threads, CollectUnguarded(t) PROVE CountInv'
  <2>1. WordInv'
    BY <1>1, <1>18, WordUnchanged DEF CollectUnguarded, TakeInstant
  <2>2. TypeOK'
    BY <1>1, <1>18, <2>1, ConstantsAssumption
       DEF CollectUnguarded, TakeInstant, TypeOK, WordInv
  <2>3. DepthCoversGuards'
    BY <1>1, <1>18, <2>1, <2>2, ConstantsAssumption
       DEF CollectUnguarded, TakeInstant, DepthCoversGuards, Claim, TypeOK
  <2> QED
    BY <1>2, <2>1, <2>2, <2>3
<1>19. ASSUME NEW t \in Threads, CollectGuarded(t) PROVE CountInv'
  <2>1. WordInv'
    BY <1>1, <1>19, UncountReaderKeepsWord
       DEF CollectGuarded, Release, TakeInstant
  <2>2. TypeOK'
    BY <1>1, <1>19, <2>1, ConstantsAssumption
       DEF CollectGuarded, Release, TakeInstant, UncountReader, TypeOK,
           WordInv
  <2>3. DepthCoversGuards'
    BY <1>1, <1>19, <2>1, <2>2, ConstantsAssumption
       DEF CollectGuarded, Release, TakeInstant, UncountReader,
           DepthCoversGuards, Claim, TypeOK
  <2> QED
    BY <1>2, <2>1, <2>2, <2>3
<1>20. ASSUME NEW t \in Threads, RequestSchedule(t) PROVE CountInv'
  <2>1. WordInv'
    BY <1>1, <1>20, WordUnchanged DEF RequestSchedule
  <2>2. TypeOK'
    BY <1>1, <1>20, <2>1, ConstantsAssumption
       DEF RequestSchedule, TypeOK, WordInv
  <2>3. DepthCoversGuards'
    BY <1>1, <1>20, <2>1, <2>2, ConstantsAssumption
       DEF RequestSchedule, DepthCoversGuards, Claim, TypeOK
  <2> QED
    BY <1>2, <2>1, <2>2, <2>3
<1>21. ASSUME RecvCollect PROVE CountInv'
  <2>1. WordInv'
    BY <1>1, <1>21, WordUnchanged DEF RecvCollect
  <2>2. commands' \in Seq(Command)
    BY <1>1, <1>21, HeadTailProperties DEF RecvCollect, TypeOK
  <2>3. TypeOK'
    BY <1>1, <1>21, <2>1, <2>2, ConstantsAssumption
       DEF RecvCollect, TypeOK, CollectorPc, WordInv
  <2>4. DepthCoversGuards'
    BY <1>1, <1>21, <2>3 DEF RecvCollect, DepthCoversGuards, Claim, TypeOK
  <2> QED
    BY <1>2, <2>1, <2>3, <2>4
<1>22. ASSUME RecvSchedule PROVE CountInv'
  <2>1. WordInv'
    BY <1>1, <1>22, WordUnchanged DEF RecvSchedule
  <2>2. commands' \in Seq(Command)
    BY <1>1, <1>22, HeadTailProperties DEF RecvSchedule, TypeOK
  <2>3. TypeOK'
    BY <1>1, <1>22, <2>1, <2>2, ConstantsAssumption
       DEF RecvSchedule, TypeOK, CollectorPc, WordInv
  <2>4. DepthCoversGuards'
    BY <1>1, <1>22, <2>3 DEF RecvSchedule, DepthCoversGuards, Claim, TypeOK
  <2> QED
    BY <1>2, <2>1, <2>3, <2>4
<1>23. ASSUME TimerFires PROVE CountInv'
  <2>1. WordInv'
    BY <1>1, <1>23, WordUnchanged DEF TimerFires
  <2>2. TypeOK'
    BY <1>1, <1>23, <2>1, ConstantsAssumption
       DEF TimerFires, TypeOK, CollectorPc, WordInv
  <2>3. DepthCoversGuards'
    BY <1>1, <1>23, <2>2 DEF TimerFires, DepthCoversGuards, Claim, TypeOK
  <2> QED
    BY <1>2, <2>1, <2>2, <2>3
<1>24. ASSUME StartAttempt PROVE CountInv'
  <2>1. WordInv'
    BY <1>1, <1>24, WordUnchanged DEF StartAttempt
  <2>2. TypeOK'
    BY <1>1, <1>24, <2>1, ConstantsAssumption
       DEF StartAttempt, TypeOK, CollectorPc, WordInv
  <2>3. DepthCoversGuards'
    BY <1>1, <1>24, <2>2 DEF StartAttempt, DepthCoversGuards, Claim, TypeOK
  <2> QED
    BY <1>2, <2>1, <2>2, <2>3
<1>25. ASSUME CheckReaders PROVE CountInv'
  <2>1. WordInv'
    BY <1>1, <1>25, WordUnchanged DEF CheckReaders
  <2>2. TypeOK'
    BY <1>1, <1>25, <2>1, ConstantsAssumption
       DEF CheckReaders, TypeOK, CollectorPc, WordInv
  <2>3. DepthCoversGuards'
    BY <1>1, <1>25, <2>2 DEF CheckReaders, DepthCoversGuards, Claim, TypeOK
  <2> QED
    BY <1>2, <2>1, <2>2, <2>3
<1>26. ASSUME ParkUnparked PROVE CountInv'
  <2>1. WordInv'
    BY <1>1, <1>26, WordUnchanged DEF ParkUnparked
  <2>2. TypeOK'
    BY <1>1, <1>26, <2>1, ConstantsAssumption
       DEF ParkUnparked, TypeOK, CollectorPc, WordInv
  <2>3. DepthCoversGuards'
    BY <1>1, <1>26, <2>2 DEF ParkUnparked, DepthCoversGuards, Claim, TypeOK
  <2> QED
    BY <1>2, <2>1, <2>2, <2>3
<1>27. ASSUME ParkTimeout PROVE CountInv'
  <2>1. WordInv'
    BY <1>1, <1>27, WordUnchanged DEF ParkTimeout
  <2>2. TypeOK'
    BY <1>1, <1>27, <2>1, ConstantsAssumption
       DEF ParkTimeout, TypeOK, CollectorPc, WordInv
  <2>3. DepthCoversGuards'
    BY <1>1, <1>27, <2>2 DEF ParkTimeout, DepthCoversGuards, Claim, TypeOK
  <2> QED
    BY <1>2, <2>1, <2>2, <2>3
<1>28. ASSUME DeadlinePassed PROVE CountInv'
  <2>1. WordInv'
    BY <1>1, <1>28, WordUnchanged DEF DeadlinePassed
  <2>2. TypeOK'
    BY <1>1, <1>28, <2>1, ConstantsAssumption
       DEF DeadlinePassed, TypeOK, CollectorPc, WordInv
  <2>3. DepthCoversGuards'
    BY <1>1, <1>28, <2>2 DEF DeadlinePassed, DepthCoversGuards, Claim, TypeOK
  <2> QED
    BY <1>2, <2>1, <2>2, <2>3
<1>29. ASSUME AbortRelease PROVE CountInv'
  <2>1. WordInv'
    BY <1>1, <1>29, WordUnchanged DEF AbortRelease
  <2>2. TypeOK'
    BY <1>1, <1>29, <2>1, ConstantsAssumption
       DEF AbortRelease, TypeOK, CollectorPc, WordInv
  <2>3. DepthCoversGuards'
    BY <1>1, <1>29, <2>2 DEF AbortRelease, DepthCoversGuards, Claim, TypeOK
  <2> QED
    BY <1>2, <2>1, <2>2, <2>3
<1>30. ASSUME AbortNotify PROVE CountInv'
  <2>1. WordInv'
    BY <1>1, <1>30, WordUnchanged DEF AbortNotify
  <2>2. TypeOK'
    BY <1>1, <1>30, <2>1, ConstantsAssumption
       DEF AbortNotify, NotifyAll, TypeOK, CollectorPc, WordInv
  <2>3. DepthCoversGuards'
    BY <1>1, <1>30, <2>2
       DEF AbortNotify, NotifyAll, DepthCoversGuards, Claim, TypeOK
  <2> QED
    BY <1>2, <2>1, <2>2, <2>3
<1>31. ASSUME FinishCollection PROVE CountInv'
  <2>1. WordInv'
    BY <1>1, <1>31, WordUnchanged DEF FinishCollection
  <2>2. TypeOK'
    BY <1>1, <1>31, <2>1, ConstantsAssumption
       DEF FinishCollection, TypeOK, CollectorPc, WordInv
  <2>3. DepthCoversGuards'
    BY <1>1, <1>31, <2>2 DEF FinishCollection, DepthCoversGuards, Claim, TypeOK
  <2> QED
    BY <1>2, <2>1, <2>2, <2>3
<1>32. ASSUME SweepDropsRoot PROVE CountInv'
  <2>1. WordInv'
    BY <1>1, <1>32, WordUnchanged DEF SweepDropsRoot
  <2>2. TypeOK'
    BY <1>1, <1>32, <2>1, ConstantsAssumption
       DEF SweepDropsRoot, TypeOK, CollectorPc, WordInv
  <2>3. DepthCoversGuards'
    BY <1>1, <1>32, <2>2 DEF SweepDropsRoot, DepthCoversGuards, Claim, TypeOK
  <2> QED
    BY <1>2, <2>1, <2>2, <2>3
<1>33. ASSUME SweepSendsSchedule PROVE CountInv'
  <2>1. WordInv'
    BY <1>1, <1>33, WordUnchanged DEF SweepSendsSchedule, ScheduleCollect
  <2>2. ScheduleCollect \in Command
    BY DEF Command
  <2>3. commands' \in Seq(Command)
    BY <1>1, <1>33, <2>2, AppendProperties DEF SweepSendsSchedule, TypeOK
  <2>4. TypeOK'
    BY <1>1, <1>33, <2>1, <2>3, ConstantsAssumption
       DEF SweepSendsSchedule, TypeOK, CollectorPc, WordInv
  <2>5. DepthCoversGuards'
    BY <1>1, <1>33, <2>4
       DEF SweepSendsSchedule, DepthCoversGuards, Claim, TypeOK
  <2> QED
    BY <1>2, <2>1, <2>4, <2>5
<1>34. ASSUME StampLastRun PROVE CountInv'
  <2>1. WordInv'
    BY <1>1, <1>34, WordUnchanged DEF StampLastRun
  <2>2. TypeOK'
    BY <1>1, <1>34, <2>1, ConstantsAssumption
       DEF StampLastRun, TypeOK, CollectorPc, WordInv
  <2>3. DepthCoversGuards'
    BY <1>1, <1>34, <2>2 DEF StampLastRun, DepthCoversGuards, Claim, TypeOK
  <2> QED
    BY <1>2, <2>1, <2>2, <2>3
<1>35. ASSUME ReleaseWrite PROVE CountInv'
  <2>1. WordInv'
    BY <1>1, <1>35, WordUnchanged DEF ReleaseWrite
  <2>2. TypeOK'
    BY <1>1, <1>35, <2>1, ConstantsAssumption
       DEF ReleaseWrite, TypeOK, CollectorPc, WordInv
  <2>3. DepthCoversGuards'
    BY <1>1, <1>35, <2>2 DEF ReleaseWrite, DepthCoversGuards, Claim, TypeOK
  <2> QED
    BY <1>2, <2>1, <2>2, <2>3
<1>36. ASSUME Notify PROVE CountInv'
  <2>1. WordInv'
    BY <1>1, <1>36, WordUnchanged DEF Notify
  <2>2. TypeOK'
    BY <1>1, <1>36, <2>1, ConstantsAssumption
       DEF Notify, NotifyAll, TypeOK, CollectorPc, WordInv
  <2>3. DepthCoversGuards'
    BY <1>1, <1>36, <2>2
       DEF Notify, NotifyAll, DepthCoversGuards, Claim, TypeOK
  <2> QED
    BY <1>2, <2>1, <2>2, <2>3
<1>37. ASSUME ClearSignal PROVE CountInv'
  <2>1. WordInv'
    BY <1>1, <1>37, WordUnchanged DEF ClearSignal
  <2>2. TypeOK'
    BY <1>1, <1>37, <2>1, ConstantsAssumption
       DEF ClearSignal, TypeOK, CollectorPc, WordInv
  <2>3. DepthCoversGuards'
    BY <1>1, <1>37, <2>2 DEF ClearSignal, DepthCoversGuards, Claim, TypeOK
  <2> QED
    BY <1>2, <2>1, <2>2, <2>3
<1>38. CASE UNCHANGED vars
  <2>1. WordInv'
    BY <1>1, <1>38, WordUnchanged DEF vars
  <2>2. TypeOK' /\ DepthCoversGuards'
    BY <1>1, <1>38 DEF vars, TypeOK, DepthCoversGuards, Claim
  <2> QED
    BY <1>2, <2>1, <2>2
<1> QED
  BY <1>3, <1>4, <1>5, <1>6, <1>7, <1>8, <1>9, <1>10, <1>11, <1>12, <1>13,
     <1>14, <1>15, <1>16, <1>17, <1>18, <1>19, <1>20, <1>21, <1>22, <1>23,
     <1>24, <1>25, <1>26, <1>27, <1>28, <1>29, <1>30, <1>31, <1>32, <1>33,
     <1>34, <1>35, <1>36, <1>37, <1>38
     DEF Next, InCall, Call, CollectorStep

\* Every variable keeps its type: no release takes the reader count below
\* zero, and no thread counts more guards than it nested.
THEOREM TypeCorrect == Spec => []TypeOK
PROOF
<1>1. CountInv => TypeOK
  BY DEF CountInv
<1> QED
  BY <1>1, InitCounts, NextCounts, PTL DEF Spec

\* The reader word is the number of guards held, whatever calls the program
\* makes: the count neither drifts nor forgets a guard.
THEOREM ReadersAlwaysCounted == Spec => []ReadersCounted
PROOF
<1>1. CountInv => ReadersCounted
  BY DEF CountInv
<1> QED
  BY <1>1, InitCounts, NextCounts, PTL DEF Spec

-----------------------------------------------------------------------------
(* The unpark of the last reader.                                          *)

\* The collecting bit is set from write() to the end of the attempt, and clear
\* from release_write() to the next attempt.
BitFollowsCollector ==
    /\ cpc \in {"check", "park", "deadline", "abort", "exclusive",
               "sweepSignal"} =>
            collecting
    /\ cpc \in {"recv", "attempt", "abortNotify", "notify", "unsignal"} =>
            ~collecting

WakeInv == BitFollowsCollector /\ CollectorWillWake

\* No step lets the last reader leave without its unpark.
LEMMA NextWakes ==
    ASSUME TypeOK, TypeOK', WakeInv, [Next]_vars
    PROVE  WakeInv'
PROOF
<1> USE DEF Goto, CGoto, wordVars, threadVars, collectorVars,
           WakeInv, BitFollowsCollector, CollectorWillWake, TypeOK
<1>1. ASSUME NEW t \in Threads, Unpark(t) PROVE WakeInv'
  BY <1>1 DEF Unpark
<1>2. ASSUME NEW t \in Threads, Read(t) PROVE WakeInv'
  BY <1>2 DEF Read, Enter, CountReader
<1>3. ASSUME NEW t \in Threads, LockInfo(t) PROVE WakeInv'
  BY <1>3 DEF LockInfo
<1>4. ASSUME NEW t \in Threads, Reread(t) PROVE WakeInv'
  BY <1>4 DEF Reread, Enter, CountReader
<1>5. ASSUME NEW t \in Threads, Wait(t) PROVE WakeInv'
  BY <1>5 DEF Wait
<1>6. ASSUME NEW t \in Threads, SendCollect(t) PROVE WakeInv'
  BY <1>6 DEF SendCollect, Collect
<1>7. ASSUME NEW t \in Threads, AwaitCollection(t) PROVE WakeInv'
  BY <1>7 DEF AwaitCollection
<1>8. ASSUME NEW t \in Threads, SendSchedule(t) PROVE WakeInv'
  BY <1>8 DEF SendSchedule, ScheduleCollect
<1>9. ASSUME NEW t \in Threads, Acquire(t) PROVE WakeInv'
  BY <1>9 DEF Acquire, CountReader
<1>10. ASSUME NEW t \in Threads, AllocatingIn(t) PROVE WakeInv'
  BY <1>10 DEF AllocatingIn, CountReader
<1>11. ASSUME NEW t \in Threads, TryAcquire(t) PROVE WakeInv'
  BY <1>11 DEF TryAcquire, CountReader
<1>12. ASSUME NEW t \in Threads, DropGuard(t) PROVE WakeInv'
  BY <1>12 DEF DropGuard, UncountReader
<1>13. ASSUME NEW t \in Threads, WhileUnlocked(t) PROVE WakeInv'
  BY <1>13 DEF WhileUnlocked, Release, UncountReader
<1>14. ASSUME NEW t \in Threads, YieldToCollector(t) PROVE WakeInv'
  BY <1>14 DEF YieldToCollector, Release, UncountReader
<1>15. ASSUME NEW t \in Threads, Relock(t) PROVE WakeInv'
  BY <1>15 DEF Relock
<1>16. ASSUME NEW t \in Threads, CollectUnguarded(t) PROVE WakeInv'
  BY <1>16 DEF CollectUnguarded, TakeInstant
<1>17. ASSUME NEW t \in Threads, CollectGuarded(t) PROVE WakeInv'
  BY <1>17 DEF CollectGuarded, Release, TakeInstant, UncountReader
<1>18. ASSUME NEW t \in Threads, RequestSchedule(t) PROVE WakeInv'
  BY <1>18 DEF RequestSchedule
<1>19. ASSUME RecvCollect PROVE WakeInv'
  BY <1>19 DEF RecvCollect
<1>20. ASSUME RecvSchedule PROVE WakeInv'
  BY <1>20 DEF RecvSchedule
<1>21. ASSUME TimerFires PROVE WakeInv'
  BY <1>21 DEF TimerFires
<1>22. ASSUME StartAttempt PROVE WakeInv'
  BY <1>22 DEF StartAttempt
<1>23. ASSUME CheckReaders PROVE WakeInv'
  BY <1>23 DEF CheckReaders
<1>24. ASSUME ParkUnparked PROVE WakeInv'
  BY <1>24 DEF ParkUnparked
<1>25. ASSUME ParkTimeout PROVE WakeInv'
  BY <1>25 DEF ParkTimeout
<1>26. ASSUME DeadlinePassed PROVE WakeInv'
  BY <1>26 DEF DeadlinePassed
<1>27. ASSUME AbortRelease PROVE WakeInv'
  BY <1>27 DEF AbortRelease
<1>28. ASSUME AbortNotify PROVE WakeInv'
  BY <1>28 DEF AbortNotify, NotifyAll
<1>29. ASSUME FinishCollection PROVE WakeInv'
  BY <1>29 DEF FinishCollection
<1>30. ASSUME SweepDropsRoot PROVE WakeInv'
  BY <1>30 DEF SweepDropsRoot
<1>31. ASSUME SweepSendsSchedule PROVE WakeInv'
  BY <1>31 DEF SweepSendsSchedule
<1>32. ASSUME StampLastRun PROVE WakeInv'
  BY <1>32 DEF StampLastRun
<1>33. ASSUME ReleaseWrite PROVE WakeInv'
  BY <1>33 DEF ReleaseWrite
<1>34. ASSUME Notify PROVE WakeInv'
  BY <1>34 DEF Notify, NotifyAll
<1>35. ASSUME ClearSignal PROVE WakeInv'
  BY <1>35 DEF ClearSignal
<1>36. CASE UNCHANGED vars
  BY <1>36 DEF vars
<1> QED
  BY <1>1, <1>2, <1>3, <1>4, <1>5, <1>6, <1>7, <1>8, <1>9, <1>10, <1>11,
     <1>12, <1>13, <1>14, <1>15, <1>16, <1>17, <1>18, <1>19, <1>20, <1>21,
     <1>22, <1>23, <1>24, <1>25, <1>26, <1>27, <1>28, <1>29, <1>30, <1>31,
     <1>32, <1>33, <1>34, <1>35, <1>36
     DEF Next, InCall, Call, CollectorStep

\* A collector that sleeps until the last reader leaves is woken when it does:
\* the token is there, or a thread is at its unpark.
THEOREM CollectorIsWoken == Spec => []CollectorWillWake
PROOF
<1>1. Init => WakeInv
  BY DEF Init, WakeInv, BitFollowsCollector, CollectorWillWake
<1>2. TypeOK /\ TypeOK' /\ WakeInv /\ [Next]_vars => WakeInv'
  BY NextWakes
<1>3. WakeInv => CollectorWillWake
  BY DEF WakeInv
<1> QED
  BY <1>1, <1>2, <1>3, TypeCorrect, PTL DEF Spec

-----------------------------------------------------------------------------
(* The mutex, and the sleep in wait_for_collection.                        *)

\* Who is between lock() and the wait that releases it holds the mutex, and
\* what it read of last_run still holds.
MutexInv ==
    \A t \in Threads :
        /\ pc[t] \in {"reread", "park", "wait"} => infoLock = t
        /\ pc[t] = "wait" => lastRun < requestedAt[t]

NotifyInv == MutexInv /\ WaiterWillBeNotified

\* No step lets a thread sleep through the end of the run it waits for.
LEMMA NextNotifies ==
    ASSUME TypeOK, TypeOK', NotifyInv, [Next]_vars
    PROVE  NotifyInv'
PROOF
<1> USE DEF Goto, CGoto, wordVars, threadVars, collectorVars,
           NotifyInv, MutexInv, WaiterWillBeNotified, TypeOK, ThreadPc,
           Acquiring, Requesting
<1>1. ASSUME NEW t \in Threads, Unpark(t) PROVE NotifyInv'
  BY <1>1, ConstantsAssumption DEF Unpark
<1>2. ASSUME NEW t \in Threads, Read(t) PROVE NotifyInv'
  BY <1>2, ConstantsAssumption DEF Read, Enter, CountReader
<1>3. ASSUME NEW t \in Threads, LockInfo(t) PROVE NotifyInv'
  BY <1>3, ConstantsAssumption DEF LockInfo
<1>4. ASSUME NEW t \in Threads, Reread(t) PROVE NotifyInv'
  BY <1>4, ConstantsAssumption DEF Reread, Enter, CountReader
<1>5. ASSUME NEW t \in Threads, Wait(t) PROVE NotifyInv'
  <2>1. infoLock = t /\ (pc[t] = "wait" => lastRun < requestedAt[t])
    BY <1>5 DEF Wait, NotifyInv, MutexInv
  <2>2. \A u \in Threads \ {t} :
           pc'[u] = pc[u] /\ pc[u] \notin {"reread", "park", "wait"}
    BY <1>5, <2>1 DEF Wait, NotifyInv, MutexInv, TypeOK
  <2>3. pc'[t] \notin {"reread", "park", "wait"}
    BY <1>5 DEF Wait, TypeOK
  <2>4. MutexInv'
    BY <2>2, <2>3 DEF MutexInv
  <2>5. WaiterWillBeNotified'
    <3>1. ASSUME NEW u \in Threads, pc'[u] = "awaiting",
                 lastRun' >= requestedAt'[u]
          PROVE  cpc' \in {"release", "notify"}
      <4>1. lastRun' = lastRun /\ requestedAt' = requestedAt /\ cpc' = cpc
        BY <1>5 DEF Wait
      <4>2. CASE u = t
        <5>1. pc[t] = "wait"
          BY <1>5, <3>1, <4>2 DEF Wait, TypeOK
        <5>2. lastRun \in Nat /\ requestedAt[t] \in Nat
          BY ConstantsAssumption DEF TypeOK
        <5> QED
          BY <2>1, <3>1, <4>1, <4>2, <5>1, <5>2
      <4>3. CASE u # t
        BY <1>5, <2>2, <3>1, <4>1, <4>3 DEF NotifyInv, WaiterWillBeNotified
      <4> QED
        BY <4>2, <4>3
    <3> QED
      BY <3>1 DEF WaiterWillBeNotified
  <2> QED
    BY <2>4, <2>5 DEF NotifyInv
<1>6. ASSUME NEW t \in Threads, SendCollect(t) PROVE NotifyInv'
  BY <1>6, ConstantsAssumption DEF SendCollect, Collect
<1>7. ASSUME NEW t \in Threads, AwaitCollection(t) PROVE NotifyInv'
  BY <1>7, ConstantsAssumption DEF AwaitCollection
<1>8. ASSUME NEW t \in Threads, SendSchedule(t) PROVE NotifyInv'
  BY <1>8, ConstantsAssumption DEF SendSchedule, ScheduleCollect
<1>9. ASSUME NEW t \in Threads, Acquire(t) PROVE NotifyInv'
  BY <1>9, ConstantsAssumption DEF Acquire, CountReader
<1>10. ASSUME NEW t \in Threads, AllocatingIn(t) PROVE NotifyInv'
  BY <1>10, ConstantsAssumption DEF AllocatingIn, CountReader
<1>11. ASSUME NEW t \in Threads, TryAcquire(t) PROVE NotifyInv'
  BY <1>11, ConstantsAssumption DEF TryAcquire, CountReader
<1>12. ASSUME NEW t \in Threads, DropGuard(t) PROVE NotifyInv'
  BY <1>12, ConstantsAssumption DEF DropGuard, UncountReader
<1>13. ASSUME NEW t \in Threads, WhileUnlocked(t) PROVE NotifyInv'
  BY <1>13, ConstantsAssumption DEF WhileUnlocked, Release, UncountReader
<1>14. ASSUME NEW t \in Threads, YieldToCollector(t) PROVE NotifyInv'
  BY <1>14, ConstantsAssumption DEF YieldToCollector, Release, UncountReader
<1>15. ASSUME NEW t \in Threads, Relock(t) PROVE NotifyInv'
  BY <1>15, ConstantsAssumption DEF Relock
<1>16. ASSUME NEW t \in Threads, CollectUnguarded(t) PROVE NotifyInv'
  BY <1>16, ConstantsAssumption DEF CollectUnguarded, TakeInstant
<1>17. ASSUME NEW t \in Threads, CollectGuarded(t) PROVE NotifyInv'
  BY <1>17, ConstantsAssumption
     DEF CollectGuarded, Release, TakeInstant, UncountReader
<1>18. ASSUME NEW t \in Threads, RequestSchedule(t) PROVE NotifyInv'
  BY <1>18, ConstantsAssumption DEF RequestSchedule
<1>19. ASSUME RecvCollect PROVE NotifyInv'
  BY <1>19, ConstantsAssumption DEF RecvCollect
<1>20. ASSUME RecvSchedule PROVE NotifyInv'
  BY <1>20, ConstantsAssumption DEF RecvSchedule
<1>21. ASSUME TimerFires PROVE NotifyInv'
  BY <1>21, ConstantsAssumption DEF TimerFires
<1>22. ASSUME StartAttempt PROVE NotifyInv'
  BY <1>22, ConstantsAssumption DEF StartAttempt
<1>23. ASSUME CheckReaders PROVE NotifyInv'
  BY <1>23, ConstantsAssumption DEF CheckReaders
<1>24. ASSUME ParkUnparked PROVE NotifyInv'
  BY <1>24, ConstantsAssumption DEF ParkUnparked
<1>25. ASSUME ParkTimeout PROVE NotifyInv'
  BY <1>25, ConstantsAssumption DEF ParkTimeout
<1>26. ASSUME DeadlinePassed PROVE NotifyInv'
  BY <1>26, ConstantsAssumption DEF DeadlinePassed
<1>27. ASSUME AbortRelease PROVE NotifyInv'
  BY <1>27, ConstantsAssumption DEF AbortRelease
<1>28. ASSUME AbortNotify PROVE NotifyInv'
  BY <1>28, ConstantsAssumption DEF AbortNotify, NotifyAll
<1>29. ASSUME FinishCollection PROVE NotifyInv'
  BY <1>29, ConstantsAssumption DEF FinishCollection
<1>30. ASSUME SweepDropsRoot PROVE NotifyInv'
  BY <1>30, ConstantsAssumption DEF SweepDropsRoot
<1>31. ASSUME SweepSendsSchedule PROVE NotifyInv'
  BY <1>31, ConstantsAssumption DEF SweepSendsSchedule
<1>32. ASSUME StampLastRun PROVE NotifyInv'
  BY <1>32, ConstantsAssumption DEF StampLastRun
<1>33. ASSUME ReleaseWrite PROVE NotifyInv'
  BY <1>33, ConstantsAssumption DEF ReleaseWrite
<1>34. ASSUME Notify PROVE NotifyInv'
  BY <1>34, ConstantsAssumption DEF Notify, NotifyAll
<1>35. ASSUME ClearSignal PROVE NotifyInv'
  BY <1>35, ConstantsAssumption DEF ClearSignal
<1>36. CASE UNCHANGED vars
  BY <1>36, ConstantsAssumption DEF vars
<1> QED
  BY <1>1, <1>2, <1>3, <1>4, <1>5, <1>6, <1>7, <1>8, <1>9, <1>10, <1>11,
     <1>12, <1>13, <1>14, <1>15, <1>16, <1>17, <1>18, <1>19, <1>20, <1>21,
     <1>22, <1>23, <1>24, <1>25, <1>26, <1>27, <1>28, <1>29, <1>30, <1>31,
     <1>32, <1>33, <1>34, <1>35, <1>36
     DEF Next, InCall, Call, CollectorStep

\* collect() misses no notification: whoever sleeps in wait_for_collection
\* though last_run has passed its request is about to be notified.
THEOREM WaitersAreNotified == Spec => []WaiterWillBeNotified
PROOF
<1>1. Init => NotifyInv
  BY DEF Init, NotifyInv, MutexInv, WaiterWillBeNotified
<1>2. TypeOK /\ TypeOK' /\ NotifyInv /\ [Next]_vars => NotifyInv'
  BY NextNotifies
<1>3. NotifyInv => WaiterWillBeNotified
  BY DEF NotifyInv
<1> QED
  BY <1>1, <1>2, <1>3, TypeCorrect, PTL DEF Spec

-----------------------------------------------------------------------------
(* The command channel.                                                    *)

\* Sending a command queues it and leaves the queued ones queued.
LEMMA QueuedAfterSend ==
    ASSUME commands \in Seq(Command), NEW c \in Command,
           commands' = Append(commands, c)
    PROVE  /\ \E i \in DOMAIN commands' : commands'[i] = c
           /\ \A d : (\E i \in DOMAIN commands : commands[i] = d) =>
                        \E i \in DOMAIN commands' : commands'[i] = d
PROOF
<1>1. /\ commands' \in Seq(Command)
      /\ Len(commands') = Len(commands) + 1
      /\ \A i \in 1..Len(commands) : commands'[i] = commands[i]
      /\ commands'[Len(commands) + 1] = c
  BY AppendProperties
<1>2. /\ Len(commands) \in Nat
      /\ DOMAIN commands = 1..Len(commands)
      /\ DOMAIN commands' = 1..Len(commands')
  BY <1>1, LenProperties
<1> QED
  BY <1>1, <1>2

\* Receiving the first command leaves the others queued.
LEMMA QueuedAfterRecv ==
    ASSUME commands \in Seq(Command), commands # <<>>,
           commands' = Tail(commands)
    PROVE  \A d : /\ \E i \in DOMAIN commands : commands[i] = d
                  /\ d # Head(commands)
                  => \E i \in DOMAIN commands' : commands'[i] = d
PROOF
<1>1. /\ commands' \in Seq(Command)
      /\ Len(commands') = Len(commands) - 1
      /\ \A i \in 1..Len(commands') : commands'[i] = commands[i + 1]
  BY HeadTailProperties
<1>2. /\ Len(commands) \in Nat
      /\ DOMAIN commands = 1..Len(commands)
      /\ DOMAIN commands' = 1..Len(commands')
  BY <1>1, LenProperties
<1>3. ASSUME NEW d, NEW i \in DOMAIN commands, commands[i] = d,
             d # Head(commands)
      PROVE  \E j \in DOMAIN commands' : commands'[j] = d
  <2>1. i # 1
    BY <1>3
  <2>2. i - 1 \in DOMAIN commands' /\ (i - 1) + 1 = i
    BY <1>1, <1>2, <1>3, <2>1
  <2>3. commands'[i - 1] = d
    BY <1>1, <1>2, <1>3, <2>2
  <2> QED
    BY <2>2, <2>3
<1> QED
  BY <1>3

\* What a command says.
LEMMA CommandFields ==
    /\ \A at : Collect(at).op = "Collect" /\ Collect(at).at = at
    /\ ScheduleCollect.op = "ScheduleCollect"
PROOF
BY DEF Collect, ScheduleCollect

\* No Instant is in the future, and an attempt ends after the last run did.
InstantsInOrder ==
    /\ \A t \in Threads : requestedAt[t] <= clock
    /\ lastRun <= gcFinish
    /\ gcFinish <= clock

ServedInv == InstantsInOrder /\ RequestIsServed

\* No step forgets a request: only an attempt that ends after it, or a run
\* that did, takes the place of its command.
LEMMA NextServes ==
    ASSUME TypeOK, TypeOK', ServedInv, [Next]_vars
    PROVE  ServedInv'
PROOF
<1> USE DEF Goto, CGoto, wordVars, threadVars, collectorVars,
           ServedInv, InstantsInOrder, RequestIsServed, Served, Queued, TypeOK,
           ThreadPc, Acquiring, Requesting
<1>1. ASSUME NEW t \in Threads, Unpark(t) PROVE ServedInv'
  BY <1>1, ConstantsAssumption DEF Unpark
<1>2. ASSUME NEW t \in Threads, Read(t) PROVE ServedInv'
  BY <1>2, ConstantsAssumption DEF Read, Enter, CountReader
<1>3. ASSUME NEW t \in Threads, LockInfo(t) PROVE ServedInv'
  BY <1>3, ConstantsAssumption DEF LockInfo
<1>4. ASSUME NEW t \in Threads, Reread(t) PROVE ServedInv'
  BY <1>4, ConstantsAssumption DEF Reread, Enter, CountReader
<1>5. ASSUME NEW t \in Threads, Wait(t) PROVE ServedInv'
  BY <1>5, ConstantsAssumption DEF Wait
<1>6. ASSUME NEW t \in Threads, SendCollect(t) PROVE ServedInv'
  <2>1. Collect(requestedAt[t]) \in Command
    BY <1>6 DEF SendCollect, Command, TypeOK
  <2>2. /\ \E i \in DOMAIN commands' : commands'[i] = Collect(requestedAt[t])
        /\ \A d : (\E i \in DOMAIN commands : commands[i] = d) =>
                     \E i \in DOMAIN commands' : commands'[i] = d
    BY <1>6, <2>1, QueuedAfterSend DEF SendCollect, TypeOK
  <2>3. InstantsInOrder'
    BY <1>6 DEF SendCollect, ServedInv, InstantsInOrder
  <2>4. ASSUME NEW u \in Threads, pc'[u] \in {"await", "wait", "awaiting"},
               lastRun' < requestedAt'[u]
        PROVE  Served(u)'
    <3>1. /\ lastRun' = lastRun
          /\ requestedAt' = requestedAt
          /\ gcFinish' = gcFinish
      BY <1>6 DEF SendCollect
    <3>2. CASE u = t
      BY <2>2, <3>1, <3>2 DEF Served, Queued
    <3>3. CASE u # t
      <4>1. pc'[u] = pc[u] /\ cpc' = cpc
        BY <1>6, <3>3 DEF SendCollect, TypeOK
      <4>2. Served(u)
        BY <2>4, <3>1, <4>1 DEF ServedInv, RequestIsServed
      <4> QED
        BY <2>2, <3>1, <4>1, <4>2 DEF Served, Queued
    <3> QED
      BY <3>2, <3>3
  <2> QED
    BY <2>3, <2>4 DEF ServedInv, RequestIsServed
<1>7. ASSUME NEW t \in Threads, AwaitCollection(t) PROVE ServedInv'
  BY <1>7, ConstantsAssumption DEF AwaitCollection
<1>8. ASSUME NEW t \in Threads, SendSchedule(t) PROVE ServedInv'
  <2>1. ScheduleCollect \in Command
    BY <1>8 DEF SendSchedule, Command, TypeOK
  <2>2. /\ \E i \in DOMAIN commands' : commands'[i] = ScheduleCollect
        /\ \A d : (\E i \in DOMAIN commands : commands[i] = d) =>
                     \E i \in DOMAIN commands' : commands'[i] = d
    BY <1>8, <2>1, QueuedAfterSend DEF SendSchedule, TypeOK
  <2>3. InstantsInOrder'
    BY <1>8 DEF SendSchedule, ServedInv, InstantsInOrder
  <2>4. ASSUME NEW u \in Threads, pc'[u] \in {"await", "wait", "awaiting"},
               lastRun' < requestedAt'[u]
        PROVE  Served(u)'
    <3>1. /\ lastRun' = lastRun
          /\ requestedAt' = requestedAt
          /\ gcFinish' = gcFinish
      BY <1>8 DEF SendSchedule
    <3>2. pc[u] \in {"await", "wait", "awaiting"} /\ cpc' = cpc
      BY <1>8, <2>4 DEF SendSchedule, TypeOK
    <3>3. Served(u)
      BY <2>4, <3>1, <3>2 DEF ServedInv, RequestIsServed
    <3> QED
      BY <2>2, <3>1, <3>2, <3>3 DEF Served, Queued
  <2> QED
    BY <2>3, <2>4 DEF ServedInv, RequestIsServed
<1>9. ASSUME NEW t \in Threads, Acquire(t) PROVE ServedInv'
  BY <1>9, ConstantsAssumption DEF Acquire, CountReader
<1>10. ASSUME NEW t \in Threads, AllocatingIn(t) PROVE ServedInv'
  BY <1>10, ConstantsAssumption DEF AllocatingIn, CountReader
<1>11. ASSUME NEW t \in Threads, TryAcquire(t) PROVE ServedInv'
  BY <1>11, ConstantsAssumption DEF TryAcquire, CountReader
<1>12. ASSUME NEW t \in Threads, DropGuard(t) PROVE ServedInv'
  BY <1>12, ConstantsAssumption DEF DropGuard, UncountReader
<1>13. ASSUME NEW t \in Threads, WhileUnlocked(t) PROVE ServedInv'
  BY <1>13, ConstantsAssumption DEF WhileUnlocked, Release, UncountReader
<1>14. ASSUME NEW t \in Threads, YieldToCollector(t) PROVE ServedInv'
  BY <1>14, ConstantsAssumption DEF YieldToCollector, Release, UncountReader
<1>15. ASSUME NEW t \in Threads, Relock(t) PROVE ServedInv'
  BY <1>15, ConstantsAssumption DEF Relock
<1>16. ASSUME NEW t \in Threads, CollectUnguarded(t) PROVE ServedInv'
  BY <1>16, ConstantsAssumption DEF CollectUnguarded, TakeInstant
<1>17. ASSUME NEW t \in Threads, CollectGuarded(t) PROVE ServedInv'
  BY <1>17, ConstantsAssumption
     DEF CollectGuarded, Release, TakeInstant, UncountReader
<1>18. ASSUME NEW t \in Threads, RequestSchedule(t) PROVE ServedInv'
  BY <1>18, ConstantsAssumption DEF RequestSchedule
<1>19. ASSUME RecvCollect PROVE ServedInv'
  <2>1. \A d : /\ \E i \in DOMAIN commands : commands[i] = d
               /\ d # Head(commands)
               => \E i \in DOMAIN commands' : commands'[i] = d
    BY <1>19, QueuedAfterRecv DEF RecvCollect, TypeOK
  <2>2. InstantsInOrder'
    BY <1>19 DEF RecvCollect, ServedInv, InstantsInOrder
  <2>3. ASSUME NEW u \in Threads, pc'[u] \in {"await", "wait", "awaiting"},
               lastRun' < requestedAt'[u]
        PROVE  Served(u)'
    <3>1. /\ lastRun' = lastRun
          /\ requestedAt' = requestedAt
          /\ gcFinish' = gcFinish
      BY <1>19 DEF RecvCollect
    <3>2. Queued(Collect(requestedAt[u]))
      BY <1>19, <2>3, <3>1
         DEF RecvCollect, ServedInv, RequestIsServed, Served, threadVars
    <3>3. CASE Collect(requestedAt[u]) = Head(commands)
      <4>1. cpc' = "attempt"
        BY <1>19, <2>3, <3>1, <3>3, CommandFields DEF RecvCollect
      <4> QED
        BY <4>1 DEF Served
    <3>4. CASE Collect(requestedAt[u]) # Head(commands)
      BY <2>1, <3>1, <3>2, <3>4 DEF Served, Queued
    <3> QED
      BY <3>3, <3>4
  <2> QED
    BY <2>2, <2>3 DEF ServedInv, RequestIsServed
<1>20. ASSUME RecvSchedule PROVE ServedInv'
  <2>1. \A d : /\ \E i \in DOMAIN commands : commands[i] = d
               /\ d # Head(commands)
               => \E i \in DOMAIN commands' : commands'[i] = d
    BY <1>20, QueuedAfterRecv DEF RecvSchedule, TypeOK
  <2>2. InstantsInOrder'
    BY <1>20 DEF RecvSchedule, ServedInv, InstantsInOrder
  <2>3. ASSUME NEW u \in Threads, pc'[u] \in {"await", "wait", "awaiting"},
               lastRun' < requestedAt'[u]
        PROVE  Served(u)'
    <3>1. /\ lastRun' = lastRun
          /\ requestedAt' = requestedAt
          /\ gcFinish' = gcFinish
      BY <1>20 DEF RecvSchedule
    <3>2. Queued(Collect(requestedAt[u]))
      BY <1>20, <2>3, <3>1
         DEF RecvSchedule, ServedInv, RequestIsServed, Served, threadVars
    <3>3. Collect(requestedAt[u]) # Head(commands)
      BY <1>20, CommandFields DEF RecvSchedule
    <3> QED
      BY <2>1, <3>1, <3>2, <3>3 DEF Served, Queued
  <2> QED
    BY <2>2, <2>3 DEF ServedInv, RequestIsServed
<1>21. ASSUME TimerFires PROVE ServedInv'
  BY <1>21, ConstantsAssumption DEF TimerFires
<1>22. ASSUME StartAttempt PROVE ServedInv'
  BY <1>22, ConstantsAssumption DEF StartAttempt
<1>23. ASSUME CheckReaders PROVE ServedInv'
  BY <1>23, ConstantsAssumption DEF CheckReaders
<1>24. ASSUME ParkUnparked PROVE ServedInv'
  BY <1>24, ConstantsAssumption DEF ParkUnparked
<1>25. ASSUME ParkTimeout PROVE ServedInv'
  BY <1>25, ConstantsAssumption DEF ParkTimeout
<1>26. ASSUME DeadlinePassed PROVE ServedInv'
  BY <1>26, ConstantsAssumption DEF DeadlinePassed
<1>27. ASSUME AbortRelease PROVE ServedInv'
  BY <1>27, ConstantsAssumption DEF AbortRelease
<1>28. ASSUME AbortNotify PROVE ServedInv'
  BY <1>28, ConstantsAssumption DEF AbortNotify, NotifyAll
<1>29. ASSUME FinishCollection PROVE ServedInv'
  BY <1>29, ConstantsAssumption DEF FinishCollection
<1>30. ASSUME SweepDropsRoot PROVE ServedInv'
  BY <1>30, ConstantsAssumption DEF SweepDropsRoot
<1>31. ASSUME SweepSendsSchedule PROVE ServedInv'
  BY <1>31, ConstantsAssumption DEF SweepSendsSchedule
<1>32. ASSUME StampLastRun PROVE ServedInv'
  <2>1. InstantsInOrder'
    BY <1>32, ConstantsAssumption
       DEF StampLastRun, ServedInv, InstantsInOrder, TypeOK
  <2>2. ASSUME NEW u \in Threads, pc'[u] \in {"await", "wait", "awaiting"},
               lastRun' < requestedAt'[u]
        PROVE  Queued(Collect(requestedAt[u]))'
    <3>1. /\ cpc = "stamp" /\ lastRun' = gcFinish
          /\ UNCHANGED <<pc, requestedAt, commands>>
      BY <1>32 DEF StampLastRun
    <3>2. ~(gcFinish >= requestedAt[u])
      BY <2>2, <3>1, ConstantsAssumption DEF TypeOK
    <3>3. lastRun < requestedAt[u] => Queued(Collect(requestedAt[u]))
      BY <2>2, <3>1, <3>2 DEF ServedInv, RequestIsServed, Served
    <3>4. lastRun < requestedAt[u]
      BY <2>2, <3>1, ConstantsAssumption DEF TypeOK, ServedInv, InstantsInOrder
    <3> QED
      BY <3>1, <3>3, <3>4 DEF Queued
  <2> QED
    BY <2>1, <2>2 DEF ServedInv, RequestIsServed, Served
<1>33. ASSUME ReleaseWrite PROVE ServedInv'
  BY <1>33, ConstantsAssumption DEF ReleaseWrite
<1>34. ASSUME Notify PROVE ServedInv'
  BY <1>34, ConstantsAssumption DEF Notify, NotifyAll
<1>35. ASSUME ClearSignal PROVE ServedInv'
  BY <1>35, ConstantsAssumption DEF ClearSignal
<1>36. CASE UNCHANGED vars
  BY <1>36, ConstantsAssumption DEF vars
<1> QED
  BY <1>1, <1>2, <1>3, <1>4, <1>5, <1>6, <1>7, <1>8, <1>9, <1>10, <1>11,
     <1>12, <1>13, <1>14, <1>15, <1>16, <1>17, <1>18, <1>19, <1>20, <1>21,
     <1>22, <1>23, <1>24, <1>25, <1>26, <1>27, <1>28, <1>29, <1>30, <1>31,
     <1>32, <1>33, <1>34, <1>35, <1>36
     DEF Next, InCall, Call, CollectorStep

\* Every collect call that waits has its command queued or an attempt under way
\* that ends after it, so no call waits for a run that nobody will start.
THEOREM RequestsAreServed == Spec => []RequestIsServed
PROOF
<1>1. Init => ServedInv
  BY ConstantsAssumption
     DEF Init, ServedInv, InstantsInOrder, RequestIsServed
<1>2. TypeOK /\ TypeOK' /\ ServedInv /\ [Next]_vars => ServedInv'
  BY NextServes
<1>3. ServedInv => RequestIsServed
  BY DEF ServedInv
<1> QED
  BY <1>1, <1>2, <1>3, TypeCorrect, PTL DEF Spec

\* No step leaves the flag set with nothing to come.
LEMMA NextSignals ==
    ASSUME TypeOK, SignalStandsForWork, [Next]_vars
    PROVE  SignalStandsForWork'
PROOF
<1> USE DEF Goto, CGoto, wordVars, threadVars, collectorVars,
           SignalStandsForWork, Queued, TypeOK
<1>1. ASSUME NEW t \in Threads, Unpark(t) PROVE SignalStandsForWork'
  BY <1>1 DEF Unpark
<1>2. ASSUME NEW t \in Threads, Read(t) PROVE SignalStandsForWork'
  BY <1>2 DEF Read, Enter, CountReader
<1>3. ASSUME NEW t \in Threads, LockInfo(t) PROVE SignalStandsForWork'
  BY <1>3 DEF LockInfo
<1>4. ASSUME NEW t \in Threads, Reread(t) PROVE SignalStandsForWork'
  BY <1>4 DEF Reread, Enter, CountReader
<1>5. ASSUME NEW t \in Threads, Wait(t) PROVE SignalStandsForWork'
  BY <1>5 DEF Wait
<1>6. ASSUME NEW t \in Threads, SendCollect(t) PROVE SignalStandsForWork'
  <2>1. Collect(requestedAt[t]) \in Command
    BY <1>6 DEF SendCollect, Command, TypeOK
  <2>2. /\ \E i \in DOMAIN commands' : commands'[i] = Collect(requestedAt[t])
        /\ \A d : (\E i \in DOMAIN commands : commands[i] = d) =>
                     \E i \in DOMAIN commands' : commands'[i] = d
    BY <1>6, <2>1, QueuedAfterSend DEF SendCollect, TypeOK
  <2> QED
    BY <1>6, <2>2 DEF SendCollect
<1>7. ASSUME NEW t \in Threads, AwaitCollection(t) PROVE SignalStandsForWork'
  BY <1>7 DEF AwaitCollection
<1>8. ASSUME NEW t \in Threads, SendSchedule(t) PROVE SignalStandsForWork'
  <2>1. ScheduleCollect \in Command
    BY <1>8 DEF SendSchedule, Command, TypeOK
  <2>2. /\ \E i \in DOMAIN commands' : commands'[i] = ScheduleCollect
        /\ \A d : (\E i \in DOMAIN commands : commands[i] = d) =>
                     \E i \in DOMAIN commands' : commands'[i] = d
    BY <1>8, <2>1, QueuedAfterSend DEF SendSchedule, TypeOK
  <2> QED
    BY <1>8, <2>2 DEF SendSchedule
<1>9. ASSUME NEW t \in Threads, Acquire(t) PROVE SignalStandsForWork'
  BY <1>9 DEF Acquire, CountReader
<1>10. ASSUME NEW t \in Threads, AllocatingIn(t) PROVE SignalStandsForWork'
  BY <1>10 DEF AllocatingIn, CountReader
<1>11. ASSUME NEW t \in Threads, TryAcquire(t) PROVE SignalStandsForWork'
  BY <1>11 DEF TryAcquire, CountReader
<1>12. ASSUME NEW t \in Threads, DropGuard(t) PROVE SignalStandsForWork'
  BY <1>12 DEF DropGuard, UncountReader
<1>13. ASSUME NEW t \in Threads, WhileUnlocked(t) PROVE SignalStandsForWork'
  BY <1>13 DEF WhileUnlocked, Release, UncountReader
<1>14. ASSUME NEW t \in Threads, YieldToCollector(t) PROVE SignalStandsForWork'
  BY <1>14 DEF YieldToCollector, Release, UncountReader
<1>15. ASSUME NEW t \in Threads, Relock(t) PROVE SignalStandsForWork'
  BY <1>15 DEF Relock
<1>16. ASSUME NEW t \in Threads, CollectUnguarded(t) PROVE SignalStandsForWork'
  BY <1>16 DEF CollectUnguarded, TakeInstant
<1>17. ASSUME NEW t \in Threads, CollectGuarded(t) PROVE SignalStandsForWork'
  BY <1>17 DEF CollectGuarded, Release, TakeInstant, UncountReader
<1>18. ASSUME NEW t \in Threads, RequestSchedule(t) PROVE SignalStandsForWork'
  BY <1>18 DEF RequestSchedule
<1>19. ASSUME RecvCollect PROVE SignalStandsForWork'
  <2>1. \A d : /\ \E i \in DOMAIN commands : commands[i] = d
               /\ d # Head(commands)
               => \E i \in DOMAIN commands' : commands'[i] = d
    BY <1>19, QueuedAfterRecv DEF RecvCollect, TypeOK
  <2>2. Queued(ScheduleCollect) => Queued(ScheduleCollect)'
    BY <1>19, <2>1, CommandFields DEF RecvCollect, Queued
  <2> QED
    BY <1>19, <2>2 DEF RecvCollect, SignalStandsForWork
<1>20. ASSUME RecvSchedule PROVE SignalStandsForWork'
  <2>1. \A d : /\ \E i \in DOMAIN commands : commands[i] = d
               /\ d # Head(commands)
               => \E i \in DOMAIN commands' : commands'[i] = d
    BY <1>20, QueuedAfterRecv DEF RecvSchedule, TypeOK
  <2> QED
    BY <1>20, <2>1 DEF RecvSchedule
<1>21. ASSUME TimerFires PROVE SignalStandsForWork'
  BY <1>21 DEF TimerFires
<1>22. ASSUME StartAttempt PROVE SignalStandsForWork'
  BY <1>22 DEF StartAttempt
<1>23. ASSUME CheckReaders PROVE SignalStandsForWork'
  BY <1>23 DEF CheckReaders
<1>24. ASSUME ParkUnparked PROVE SignalStandsForWork'
  BY <1>24 DEF ParkUnparked
<1>25. ASSUME ParkTimeout PROVE SignalStandsForWork'
  BY <1>25 DEF ParkTimeout
<1>26. ASSUME DeadlinePassed PROVE SignalStandsForWork'
  BY <1>26 DEF DeadlinePassed
<1>27. ASSUME AbortRelease PROVE SignalStandsForWork'
  BY <1>27 DEF AbortRelease
<1>28. ASSUME AbortNotify PROVE SignalStandsForWork'
  BY <1>28 DEF AbortNotify, NotifyAll
<1>29. ASSUME FinishCollection PROVE SignalStandsForWork'
  BY <1>29 DEF FinishCollection
<1>30. ASSUME SweepDropsRoot PROVE SignalStandsForWork'
  BY <1>30 DEF SweepDropsRoot
<1>31. ASSUME SweepSendsSchedule PROVE SignalStandsForWork'
  BY <1>31 DEF SweepSendsSchedule
<1>32. ASSUME StampLastRun PROVE SignalStandsForWork'
  BY <1>32 DEF StampLastRun
<1>33. ASSUME ReleaseWrite PROVE SignalStandsForWork'
  BY <1>33 DEF ReleaseWrite
<1>34. ASSUME Notify PROVE SignalStandsForWork'
  BY <1>34 DEF Notify, NotifyAll
<1>35. ASSUME ClearSignal PROVE SignalStandsForWork'
  BY <1>35 DEF ClearSignal
<1>36. CASE UNCHANGED vars
  BY <1>36 DEF vars
<1> QED
  BY <1>1, <1>2, <1>3, <1>4, <1>5, <1>6, <1>7, <1>8, <1>9, <1>10, <1>11,
     <1>12, <1>13, <1>14, <1>15, <1>16, <1>17, <1>18, <1>19, <1>20, <1>21,
     <1>22, <1>23, <1>24, <1>25, <1>26, <1>27, <1>28, <1>29, <1>30, <1>31,
     <1>32, <1>33, <1>34, <1>35, <1>36
     DEF Next, InCall, Call, CollectorStep

\* signalled_collector is set only while a collection is asked for, scheduled
\* or running: the compare_exchange that drops a request drops a redundant one.
THEOREM SignalAlwaysStandsForWork == Spec => []SignalStandsForWork
PROOF
<1>1. Init => SignalStandsForWork
  BY DEF Init, SignalStandsForWork
<1> QED
  BY <1>1, NextSignals, TypeCorrect, PTL DEF Spec

-----------------------------------------------------------------------------
(* Mutual exclusion, for a program that makes the usual calls.             *)

\* With no reader counted, no thread has a counted guard.
LEMMA NoReaderNoGuard ==
    ASSUME CountInv, readers = 0
    PROVE  \A t \in Threads : held[t] = 0
PROOF
<1>1. GuardsOf(held) = {}
  BY FS_EmptySet DEF CountInv, ReadersCounted
<1>2. ASSUME NEW t \in Threads PROVE held[t] = 0
  <2>1. held[t] \in 0..MaxDepth
    BY DEF CountInv, TypeOK
  <2>2. ASSUME held[t] > 0 PROVE FALSE
    <3>1. <<t, 1>> \in GuardsOf(held)
      BY <2>1, <2>2, ConstantsAssumption DEF GuardsOf
    <3> QED
      BY <1>1, <3>1
  <2> QED
    BY <2>1, <2>2, ConstantsAssumption
<1> QED
  BY <1>2

\* With the usual calls a thread's depth is exactly its counted guards and the
\* one it has released or is acquiring, and then it has no other.
DepthIsExact ==
    \A t \in Threads :
        /\ depth[t] = held[t] + Claim(t)
        /\ Claim(t) = 1 => held[t] = 0

AloneInv == DepthIsExact /\ (Exclusive => readers = 0)

\* No step lets a guard meet the collector's exclusive access.
LEMMA NextAlone ==
    ASSUME Calls \subseteq UsualCalls,
           CountInv, CountInv', WakeInv, AloneInv, [Next]_vars
    PROVE  AloneInv'
PROOF
<1> USE DEF Goto, CGoto, wordVars, threadVars, collectorVars,
           AloneInv, DepthIsExact, Claim, BitFollowsCollector, Acquiring,
           Exclusive
<1>1. /\ held \in [Threads -> 0..MaxDepth] /\ depth \in [Threads -> 0..MaxDepth]
      /\ pc \in [Threads -> ThreadPc] /\ out \in [Threads -> BOOLEAN]
      /\ then \in [Threads -> {"user", "send"}]
      /\ readers \in Nat
      /\ readers = 0 => \A t \in Threads : held[t] = 0
      /\ BitFollowsCollector
  <2>1. readers = 0 => \A t \in Threads : held[t] = 0
    BY NoReaderNoGuard
  <2> QED
    BY <2>1 DEF CountInv, TypeOK, WakeInv
<1>2. \A t \in Threads : held[t] \in Nat /\ depth[t] \in Nat
  BY <1>1, ConstantsAssumption
<1>3. ASSUME NEW t \in Threads, Unpark(t) PROVE AloneInv'
  BY <1>3, <1>1, <1>2 DEF Unpark
<1>4. ASSUME NEW t \in Threads, Read(t) PROVE AloneInv'
  <2>1. CASE Enter(t)
    <3>1. pc[t] = "read" /\ ~collecting /\ UNCHANGED <<depth, cpc>>
      BY <1>4, <2>1 DEF Read, Enter
    <3>2. ~Exclusive
      BY <3>1, <1>1
    <3>3. /\ held' = [held EXCEPT ![t] = @ + 1]
          /\ out' = [out EXCEPT ![t] = FALSE]
          /\ pc' = [pc EXCEPT ![t] = "user"]
      BY <2>1 DEF Enter, CountReader
    <3>4. held[t] = 0 /\ depth[t] = 1
      BY <3>1, <1>2
    <3> QED
      BY <1>1, <1>2, <3>1, <3>2, <3>3, <3>4
  <2>2. CASE Goto(t, "lock") /\ UNCHANGED <<wordVars, held, out>>
    BY <1>4, <2>2, <1>1, <1>2 DEF Read
  <2> QED
    BY <1>4, <2>1, <2>2 DEF Read
<1>5. ASSUME NEW t \in Threads, LockInfo(t) PROVE AloneInv'
  BY <1>5, <1>1, <1>2 DEF LockInfo
<1>6. ASSUME NEW t \in Threads, Reread(t) PROVE AloneInv'
  BY <1>6, <1>1, <1>2 DEF Reread, Enter, CountReader
<1>7. ASSUME NEW t \in Threads, Wait(t) PROVE AloneInv'
  BY <1>7, <1>1, <1>2 DEF Wait
<1>8. ASSUME NEW t \in Threads, SendCollect(t) PROVE AloneInv'
  BY <1>8, <1>1, <1>2 DEF SendCollect, Collect
<1>9. ASSUME NEW t \in Threads, AwaitCollection(t) PROVE AloneInv'
  <2>1. UNCHANGED <<depth, held, out, cpc, readers>>
    BY <1>9 DEF AwaitCollection
  <2>2. Claim(t)' = Claim(t)
    BY <1>9, <1>1, <2>1 DEF AwaitCollection, Claim, TypeOK, Acquiring
  <2>3. ASSUME NEW u \in Threads, u # t PROVE Claim(u)' = Claim(u)
    BY <1>9, <1>1, <2>1, <2>3 DEF AwaitCollection, Claim, TypeOK
  <2> QED
    BY <2>1, <2>2, <2>3 DEF AloneInv, DepthIsExact
<1>10. ASSUME NEW t \in Threads, SendSchedule(t) PROVE AloneInv'
  BY <1>10, <1>1, <1>2 DEF SendSchedule, ScheduleCollect
<1>11. ASSUME NEW t \in Threads, Acquire(t) PROVE AloneInv'
  <2> HIDE DEF AloneInv, DepthIsExact, Claim, BitFollowsCollector
  <2>1. ~out[t] /\ pc[t] = "user" /\ Claim(t) = 0 /\ held[t] = depth[t]
    BY <1>11, <1>2
       DEF Acquire, UsualCalls, AloneInv, DepthIsExact, Claim, Acquiring
  <2>2. ASSUME NEW u \in Threads, u # t
        PROVE  /\ Claim(u)' = Claim(u)
               /\ held'[u] = held[u]
               /\ depth'[u] = depth[u]
    BY <1>11, <1>1, <2>2 DEF Acquire, CountReader, Claim, TypeOK
  <2>3. CASE depth[t] = 0
    <3>1. /\ Claim(t)' = 1
          /\ held'[t] = 0
          /\ depth'[t] = 1
          /\ UNCHANGED <<cpc, readers>>
      BY <1>11, <1>1, <1>2, <2>1, <2>3 DEF Acquire, Claim, Acquiring, TypeOK
    <3> QED
      BY <2>2, <3>1 DEF AloneInv, DepthIsExact
  <2>4. CASE depth[t] > 0
    <3>1. /\ Claim(t)' = 0
          /\ held'[t] = held[t] + 1
          /\ depth'[t] = depth[t] + 1
          /\ cpc' = cpc
      BY <1>11, <1>1, <1>2, <2>1, <2>4
         DEF Acquire, CountReader, Claim, Acquiring, TypeOK
    <3>2. ~Exclusive
      BY <1>1, <2>1, <2>4 DEF AloneInv
    <3> QED
      BY <1>2, <2>1, <2>2, <3>1, <3>2 DEF AloneInv, DepthIsExact
  <2> QED
    BY <1>2, <2>3, <2>4
<1>12. ASSUME NEW t \in Threads, AllocatingIn(t) PROVE AloneInv'
  BY <1>12, <1>1, <1>2 DEF AllocatingIn, CountReader
<1>13. ASSUME NEW t \in Threads, TryAcquire(t) PROVE AloneInv'
  BY <1>13 DEF TryAcquire, UsualCalls
<1>14. ASSUME NEW t \in Threads, DropGuard(t) PROVE AloneInv'
  BY <1>14, <1>1, <1>2 DEF DropGuard, UncountReader
<1>15. ASSUME NEW t \in Threads, WhileUnlocked(t) PROVE AloneInv'
  BY <1>15, <1>1, <1>2 DEF WhileUnlocked, Release, UncountReader
<1>16. ASSUME NEW t \in Threads, YieldToCollector(t) PROVE AloneInv'
  BY <1>16, <1>1, <1>2 DEF YieldToCollector, Release, UncountReader
<1>17. ASSUME NEW t \in Threads, Relock(t) PROVE AloneInv'
  BY <1>17, <1>1, <1>2 DEF Relock
<1>18. ASSUME NEW t \in Threads, CollectUnguarded(t) PROVE AloneInv'
  BY <1>18, <1>1, <1>2 DEF CollectUnguarded, TakeInstant
<1>19. ASSUME NEW t \in Threads, CollectGuarded(t) PROVE AloneInv'
  BY <1>19, <1>1, <1>2 DEF CollectGuarded, Release, TakeInstant, UncountReader
<1>20. ASSUME NEW t \in Threads, RequestSchedule(t) PROVE AloneInv'
  BY <1>20, <1>1, <1>2 DEF RequestSchedule
<1>21. ASSUME RecvCollect PROVE AloneInv'
  BY <1>21, <1>1, <1>2 DEF RecvCollect
<1>22. ASSUME RecvSchedule PROVE AloneInv'
  BY <1>22, <1>1, <1>2 DEF RecvSchedule
<1>23. ASSUME TimerFires PROVE AloneInv'
  BY <1>23, <1>1, <1>2 DEF TimerFires
<1>24. ASSUME StartAttempt PROVE AloneInv'
  BY <1>24, <1>1, <1>2 DEF StartAttempt
<1>25. ASSUME CheckReaders PROVE AloneInv'
  BY <1>25, <1>1, <1>2 DEF CheckReaders
<1>26. ASSUME ParkUnparked PROVE AloneInv'
  BY <1>26, <1>1, <1>2 DEF ParkUnparked
<1>27. ASSUME ParkTimeout PROVE AloneInv'
  BY <1>27, <1>1, <1>2 DEF ParkTimeout
<1>28. ASSUME DeadlinePassed PROVE AloneInv'
  BY <1>28, <1>1, <1>2 DEF DeadlinePassed
<1>29. ASSUME AbortRelease PROVE AloneInv'
  BY <1>29, <1>1, <1>2 DEF AbortRelease
<1>30. ASSUME AbortNotify PROVE AloneInv'
  BY <1>30, <1>1, <1>2 DEF AbortNotify, NotifyAll
<1>31. ASSUME FinishCollection PROVE AloneInv'
  BY <1>31, <1>1, <1>2 DEF FinishCollection
<1>32. ASSUME SweepDropsRoot PROVE AloneInv'
  BY <1>32, <1>1, <1>2 DEF SweepDropsRoot
<1>33. ASSUME SweepSendsSchedule PROVE AloneInv'
  BY <1>33, <1>1, <1>2 DEF SweepSendsSchedule
<1>34. ASSUME StampLastRun PROVE AloneInv'
  BY <1>34, <1>1, <1>2 DEF StampLastRun
<1>35. ASSUME ReleaseWrite PROVE AloneInv'
  BY <1>35, <1>1, <1>2 DEF ReleaseWrite
<1>36. ASSUME Notify PROVE AloneInv'
  BY <1>36, <1>1, <1>2 DEF Notify, NotifyAll
<1>37. ASSUME ClearSignal PROVE AloneInv'
  BY <1>37, <1>1, <1>2 DEF ClearSignal
<1>38. CASE UNCHANGED vars
  BY <1>38, <1>1, <1>2 DEF vars
<1> QED
  BY <1>3, <1>4, <1>5, <1>6, <1>7, <1>8, <1>9, <1>10, <1>11, <1>12, <1>13,
     <1>14, <1>15, <1>16, <1>17, <1>18, <1>19, <1>20, <1>21, <1>22, <1>23,
     <1>24, <1>25, <1>26, <1>27, <1>28, <1>29, <1>30, <1>31, <1>32, <1>33,
     <1>34, <1>35, <1>36, <1>37, <1>38
     DEF Next, InCall, Call, CollectorStep

\* In a program that makes the usual calls, the collector marks and sweeps only
\* while no thread has a guard, whatever the guards, yields, requests and
\* aborted attempts before.
THEOREM Exclusion ==
    ASSUME Calls \subseteq UsualCalls
    PROVE  Spec => []GuardExcludesCollector
PROOF
<1>1. Init => AloneInv /\ WakeInv
  BY DEF Init, AloneInv, DepthIsExact, Claim, Acquiring, WakeInv,
         BitFollowsCollector, CollectorWillWake
<1>2. CountInv /\ CountInv' /\ WakeInv /\ AloneInv /\ [Next]_vars => AloneInv'
  BY NextAlone
<1>3. CountInv /\ CountInv' /\ WakeInv /\ [Next]_vars => WakeInv'
  BY NextWakes DEF CountInv
<1>4. CountInv /\ AloneInv => GuardExcludesCollector
  BY NoReaderNoGuard DEF AloneInv, GuardExcludesCollector
<1> QED
  BY <1>1, <1>2, <1>3, <1>4, InitCounts, NextCounts, PTL DEF Spec

-----------------------------------------------------------------------------
(* The guards implement the gate of ExclusiveAccess.                       *)

Inside == {t \in Threads : held[t] > 0}

\* The collector's test of the reader count is a test that nobody is inside.
LEMMA NoReaderNobodyInside ==
    ASSUME CountInv
    PROVE  readers = 0 <=> Inside = {}
PROOF
<1>1. readers = 0 => Inside = {}
  BY NoReaderNoGuard DEF Inside
<1>2. ASSUME readers # 0 PROVE Inside # {}
  <2>1. PICK g \in GuardsOf(held) : TRUE
    BY <1>2, FS_EmptySet DEF CountInv, ReadersCounted
  <2>2. g[1] \in Threads /\ g[2] >= 1 /\ g[2] <= held[g[1]] /\ g[2] \in Nat
    BY <2>1, ConstantsAssumption DEF GuardsOf
  <2>3. held[g[1]] > 0
    BY <2>2, ConstantsAssumption DEF CountInv, TypeOK
  <2> QED
    BY <2>2, <2>3 DEF Inside
<1> QED
  BY <1>1, <1>2

GateInv == CountInv /\ WakeInv /\ AloneInv

\* A step that counts a guard of a thread that is inside changes nothing there.
LEMMA NestedStaysInside ==
    ASSUME CountInv, NEW t \in Threads, held[t] > 0, CountReader(t)
    PROVE  Inside' = Inside
PROOF
<1>1. held[t] \in Nat
  BY ConstantsAssumption DEF CountInv, TypeOK
<1> QED
  BY <1>1 DEF CountReader, Inside, CountInv, TypeOK

\* A release takes its thread out, or leaves it inside with its other guards.
LEMMA ReleaseLeaves ==
    ASSUME CountInv, NEW t \in Threads, NEW label, UncountReader(t, label),
           UNCHANGED cpc
    PROVE  Gate!Leave(t) \/ (Inside' = Inside /\ UNCHANGED <<collecting, cpc>>)
PROOF
<1>1. held[t] \in Nat /\ held \in [Threads -> 0..MaxDepth]
  BY ConstantsAssumption DEF CountInv, TypeOK
<1>2. held' = [held EXCEPT ![t] = @ - 1] /\ UNCHANGED collecting
  BY DEF UncountReader
<1>3. CASE held[t] > 1
  BY <1>1, <1>2, <1>3 DEF Inside
<1>4. CASE ~(held[t] > 1)
  <2>1. Inside' = Inside \ {t}
    BY <1>1, <1>2, <1>4 DEF Inside
  <2> QED
    BY <1>2, <2>1 DEF Inside, Gate!Leave, Exclusive
<1> QED
  BY <1>3, <1>4

\* read() succeeds only while the gate is open.
LEMMA ReadEnters ==
    ASSUME CountInv, NEW t \in Threads, Enter(t), UNCHANGED cpc
    PROVE  Gate!Enter(t)
PROOF
<1>1. held[t] \in Nat /\ held \in [Threads -> 0..MaxDepth]
  BY ConstantsAssumption DEF CountInv, TypeOK
<1>2. ~collecting /\ held' = [held EXCEPT ![t] = @ + 1] /\ UNCHANGED collecting
  BY DEF Enter, CountReader
<1>3. Inside' = Inside \cup {t}
  BY <1>1, <1>2 DEF Inside
<1> QED
  BY <1>2, <1>3 DEF Inside, Gate!Enter, Exclusive

\* Every step is a step of the gate, or leaves the gate alone.
LEMMA StepOfGate ==
    ASSUME Calls \subseteq UsualCalls, GateInv, [Next]_vars
    PROVE  [Gate!Next]_(Gate!gateVars)
PROOF
<1> USE DEF Goto, CGoto, wordVars, threadVars, collectorVars, Exclusive
<1>1. CountInv /\ WakeInv /\ AloneInv
  BY DEF GateInv
<1>2. readers = 0 <=> Inside = {}
  BY <1>1, NoReaderNobodyInside
<1>3. ASSUME NEW t \in Threads, Unpark(t) PROVE [Gate!Next]_(Gate!gateVars)
  BY <1>3 DEF Unpark, Gate!gateVars
<1>4. ASSUME NEW t \in Threads, Read(t) PROVE [Gate!Next]_(Gate!gateVars)
  <2>1. CASE Enter(t)
    BY <1>4, <1>1, <2>1, ReadEnters DEF Read, Gate!Next
  <2>2. CASE collecting /\ UNCHANGED <<held, collecting, cpc>>
    BY <2>2 DEF Gate!gateVars
  <2> QED
    BY <1>4, <2>1, <2>2 DEF Read
<1>5. ASSUME NEW t \in Threads, LockInfo(t) PROVE [Gate!Next]_(Gate!gateVars)
  BY <1>5 DEF LockInfo, Gate!gateVars
<1>6. ASSUME NEW t \in Threads, Reread(t) PROVE [Gate!Next]_(Gate!gateVars)
  <2>1. CASE Enter(t)
    BY <1>6, <1>1, <2>1, ReadEnters DEF Reread, Gate!Next
  <2>2. CASE collecting /\ UNCHANGED <<held, collecting, cpc>>
    BY <2>2 DEF Gate!gateVars
  <2> QED
    BY <1>6, <2>1, <2>2 DEF Reread
<1>7. ASSUME NEW t \in Threads, Wait(t) PROVE [Gate!Next]_(Gate!gateVars)
  BY <1>7 DEF Wait, Gate!gateVars
<1>8. ASSUME NEW t \in Threads, SendCollect(t)
      PROVE [Gate!Next]_(Gate!gateVars)
  BY <1>8 DEF SendCollect, Collect, Gate!gateVars
<1>9. ASSUME NEW t \in Threads, AwaitCollection(t)
      PROVE [Gate!Next]_(Gate!gateVars)
  BY <1>9 DEF AwaitCollection, Gate!gateVars
<1>10. ASSUME NEW t \in Threads, SendSchedule(t)
       PROVE [Gate!Next]_(Gate!gateVars)
  BY <1>10 DEF SendSchedule, ScheduleCollect, Gate!gateVars
<1>11. ASSUME NEW t \in Threads, Acquire(t) PROVE [Gate!Next]_(Gate!gateVars)
  <2>1. CASE depth[t] = 0
    BY <1>11, <2>1 DEF Acquire, Gate!gateVars
  <2>2. CASE depth[t] > 0
    <3>1. CountReader(t) /\ UNCHANGED <<collecting, cpc>>
      BY <1>11, <2>2 DEF Acquire, CountReader
    <3>2. held[t] > 0
      <4>1. Claim(t) = 0 /\ depth[t] = held[t] + Claim(t)
        BY <1>11, <1>1
           DEF Acquire, UsualCalls, AloneInv, DepthIsExact, Claim, Acquiring
      <4>2. held[t] \in Nat
        BY <1>1, ConstantsAssumption DEF CountInv, TypeOK
      <4> QED
        BY <2>2, <4>1, <4>2
    <3> QED
      BY <1>1, <3>1, <3>2, NestedStaysInside DEF Gate!gateVars, Inside
  <2>3. depth[t] \in Nat
    BY <1>1, ConstantsAssumption DEF CountInv, TypeOK
  <2> QED
    BY <2>1, <2>2, <2>3
<1>12. ASSUME NEW t \in Threads, AllocatingIn(t)
       PROVE [Gate!Next]_(Gate!gateVars)
  <2>1. held[t] > 0 /\ CountReader(t) /\ UNCHANGED <<collecting, cpc>>
    BY <1>12 DEF AllocatingIn, CountReader
  <2> QED
    BY <1>1, <2>1, NestedStaysInside DEF Gate!gateVars, Inside
<1>13. ASSUME NEW t \in Threads, TryAcquire(t)
       PROVE [Gate!Next]_(Gate!gateVars)
  BY <1>13 DEF TryAcquire, UsualCalls
<1>14. ASSUME NEW t \in Threads, DropGuard(t) PROVE [Gate!Next]_(Gate!gateVars)
  <2>1. UncountReader(t, "user") /\ UNCHANGED cpc
    BY <1>14 DEF DropGuard
  <2> QED
    BY <1>1, <2>1, ReleaseLeaves DEF Gate!Next, Gate!gateVars, Inside
<1>15. ASSUME NEW t \in Threads, WhileUnlocked(t)
       PROVE [Gate!Next]_(Gate!gateVars)
  <2>1. UncountReader(t, "user") /\ UNCHANGED cpc
    BY <1>15 DEF WhileUnlocked, Release
  <2> QED
    BY <1>1, <2>1, ReleaseLeaves DEF Gate!Next, Gate!gateVars, Inside
<1>16. ASSUME NEW t \in Threads, YieldToCollector(t)
       PROVE [Gate!Next]_(Gate!gateVars)
  <2>1. UncountReader(t, "user") /\ UNCHANGED cpc
    BY <1>16 DEF YieldToCollector, Release
  <2> QED
    BY <1>1, <2>1, ReleaseLeaves DEF Gate!Next, Gate!gateVars, Inside
<1>17. ASSUME NEW t \in Threads, Relock(t) PROVE [Gate!Next]_(Gate!gateVars)
  BY <1>17 DEF Relock, Gate!gateVars
<1>18. ASSUME NEW t \in Threads, CollectUnguarded(t)
       PROVE [Gate!Next]_(Gate!gateVars)
  BY <1>18 DEF CollectUnguarded, TakeInstant, Gate!gateVars
<1>19. ASSUME NEW t \in Threads, CollectGuarded(t)
       PROVE [Gate!Next]_(Gate!gateVars)
  <2>1. UncountReader(t, "send") /\ UNCHANGED cpc
    BY <1>19 DEF CollectGuarded, Release
  <2> QED
    BY <1>1, <2>1, ReleaseLeaves DEF Gate!Next, Gate!gateVars, Inside
<1>20. ASSUME NEW t \in Threads, RequestSchedule(t)
       PROVE [Gate!Next]_(Gate!gateVars)
  BY <1>20 DEF RequestSchedule, Gate!gateVars
<1>21. ASSUME RecvCollect PROVE [Gate!Next]_(Gate!gateVars)
  BY <1>21 DEF RecvCollect, Gate!gateVars
<1>22. ASSUME RecvSchedule PROVE [Gate!Next]_(Gate!gateVars)
  BY <1>22 DEF RecvSchedule, Gate!gateVars
<1>23. ASSUME TimerFires PROVE [Gate!Next]_(Gate!gateVars)
  BY <1>23 DEF TimerFires, Gate!gateVars
<1>24. ASSUME StartAttempt PROVE [Gate!Next]_(Gate!gateVars)
  <2>1. ~collecting
    BY <1>24, <1>1 DEF StartAttempt, WakeInv, BitFollowsCollector
  <2> QED
    BY <1>24, <1>2, <2>1 DEF StartAttempt, Gate!Next, Gate!Close, Inside
<1>25. ASSUME CheckReaders PROVE [Gate!Next]_(Gate!gateVars)
  <2>1. collecting
    BY <1>25, <1>1 DEF CheckReaders, WakeInv, BitFollowsCollector
  <2>2. CASE readers = 0
    BY <1>25, <1>2, <2>1, <2>2 DEF CheckReaders, Gate!Next, Gate!Begin, Inside
  <2>3. CASE readers # 0
    BY <1>25, <2>3 DEF CheckReaders, Gate!gateVars
  <2> QED
    BY <2>2, <2>3
<1>26. ASSUME ParkUnparked PROVE [Gate!Next]_(Gate!gateVars)
  BY <1>26 DEF ParkUnparked, Gate!gateVars
<1>27. ASSUME ParkTimeout PROVE [Gate!Next]_(Gate!gateVars)
  BY <1>27 DEF ParkTimeout, Gate!gateVars
<1>28. ASSUME DeadlinePassed PROVE [Gate!Next]_(Gate!gateVars)
  BY <1>28 DEF DeadlinePassed, Gate!gateVars
<1>29. ASSUME AbortRelease PROVE [Gate!Next]_(Gate!gateVars)
  <2>1. collecting
    BY <1>29, <1>1 DEF AbortRelease, WakeInv, BitFollowsCollector
  <2> QED
    BY <1>29, <2>1 DEF AbortRelease, Gate!Next, Gate!Open
<1>30. ASSUME AbortNotify PROVE [Gate!Next]_(Gate!gateVars)
  BY <1>30 DEF AbortNotify, NotifyAll, Gate!gateVars
<1>31. ASSUME FinishCollection PROVE [Gate!Next]_(Gate!gateVars)
  BY <1>31 DEF FinishCollection, Gate!Next, Gate!End
<1>32. ASSUME SweepDropsRoot PROVE [Gate!Next]_(Gate!gateVars)
  BY <1>32 DEF SweepDropsRoot, Gate!gateVars
<1>33. ASSUME SweepSendsSchedule PROVE [Gate!Next]_(Gate!gateVars)
  BY <1>33 DEF SweepSendsSchedule, Gate!gateVars
<1>34. ASSUME StampLastRun PROVE [Gate!Next]_(Gate!gateVars)
  BY <1>34 DEF StampLastRun, Gate!gateVars
<1>35. ASSUME ReleaseWrite PROVE [Gate!Next]_(Gate!gateVars)
  <2>1. CASE collecting
    BY <1>35, <2>1 DEF ReleaseWrite, Gate!Next, Gate!Open
  <2>2. CASE ~collecting
    <3>1. collecting' = collecting
      BY <1>35, <1>1, <2>2 DEF ReleaseWrite, CountInv, TypeOK
    <3> QED
      BY <1>35, <3>1 DEF ReleaseWrite, Gate!gateVars
  <2> QED
    BY <2>1, <2>2
<1>36. ASSUME Notify PROVE [Gate!Next]_(Gate!gateVars)
  BY <1>36 DEF Notify, NotifyAll, Gate!gateVars
<1>37. ASSUME ClearSignal PROVE [Gate!Next]_(Gate!gateVars)
  BY <1>37 DEF ClearSignal, Gate!gateVars
<1>38. CASE UNCHANGED vars
  BY <1>38 DEF vars, Gate!gateVars
<1> QED
  BY <1>3, <1>4, <1>5, <1>6, <1>7, <1>8, <1>9, <1>10, <1>11, <1>12, <1>13,
     <1>14, <1>15, <1>16, <1>17, <1>18, <1>19, <1>20, <1>21, <1>22, <1>23,
     <1>24, <1>25, <1>26, <1>27, <1>28, <1>29, <1>30, <1>31, <1>32, <1>33,
     <1>34, <1>35, <1>36, <1>37, <1>38
     DEF Next, InCall, Call, CollectorStep

\* CollectionGuards implements ExclusiveAccess: behind a set collecting bit no
\* thread takes a first guard, the collector's access begins when the last
\* thread inside has left, and it ends before the bit is cleared.
THEOREM GuardsImplementGate ==
    ASSUME Calls \subseteq UsualCalls
    PROVE  Spec => ImplementsGate
PROOF
<1>1. Init => GateInv
  <2>1. Init => AloneInv /\ WakeInv
    BY DEF Init, AloneInv, DepthIsExact, Claim, Acquiring, WakeInv,
           BitFollowsCollector, CollectorWillWake
  <2> QED
    BY <2>1, InitCounts DEF GateInv
<1>2. GateInv /\ [Next]_vars => GateInv'
  <2> SUFFICES ASSUME GateInv, [Next]_vars PROVE GateInv'
    OBVIOUS
  <2>1. CountInv'
    BY NextCounts DEF GateInv
  <2>2. WakeInv'
    BY <2>1, NextWakes DEF GateInv, CountInv
  <2>3. AloneInv'
    BY <2>1, NextAlone DEF GateInv
  <2> QED
    BY <2>1, <2>2, <2>3 DEF GateInv
<1>3. Init => Gate!Init
  BY DEF Init, Gate!Init, Exclusive
<1>4. GateInv /\ [Next]_vars => [Gate!Next]_(Gate!gateVars)
  BY StepOfGate
<1> QED
  BY <1>1, <1>2, <1>3, <1>4, PTL DEF Spec, ImplementsGate, Gate!Spec
===============================================================================
