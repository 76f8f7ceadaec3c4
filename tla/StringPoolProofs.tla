--------------------------- MODULE StringPoolProofs ---------------------------
(***************************************************************************)
(* Proofs about StringPool, for any threads and any bounds: one allocation *)
(* per string, exact root counts, and a drop that nests at most twice.     *)
(***************************************************************************)
EXTENDS StringPool, FunctionTheorems, FiniteSetTheorems, SequenceTheorems, TLAPS

-----------------------------------------------------------------------------
(* Drops in progress.                                                      *)

\* The root that the entry of v holds.
EntryRoot(v) == IF entry[v] = "rooted" THEN 1 ELSE 0

\* Two sets of drops are the same if they have the same pairs.
LEMMA SameDrops ==
    \A A, B \in SUBSET (Threads \X Levels) :
        (\A u \in Threads, i \in Levels : <<u, i>> \in A <=> <<u, i>> \in B) => A = B
PROOF
<1> SUFFICES ASSUME NEW A \in SUBSET (Threads \X Levels), NEW B \in SUBSET (Threads \X Levels),
                    \A u \in Threads, i \in Levels : <<u, i>> \in A <=> <<u, i>> \in B
             PROVE  A = B
  OBVIOUS
<1>1. ASSUME NEW d \in Threads \X Levels PROVE d \in A <=> d \in B
  <2>1. d = <<d[1], d[2]>> /\ d[1] \in Threads /\ d[2] \in Levels
    OBVIOUS
  <2> QED
    BY <2>1
<1> QED
  BY <1>1

LEMMA AccountedInParts ==
    RootsAccounted <=>
        \A v \in Values : roots[v] = handles[v] + EntryRoot(v) + Cardinality(Drops(v))
PROOF
  BY DEF RootsAccounted, EntryRoot

LEMMA PairsFinite == IsFiniteSet(Threads \X Levels)
PROOF
<1>1. IsFiniteSet(Levels)
  <2>1. Levels \in SUBSET Nat /\ 4 \in Nat /\ \A i \in Levels : i <= 4
    BY DEF Levels
  <2> QED
    BY <2>1, FS_BoundedSetOfNaturals
<1>2. IsFiniteSet(Threads)
  BY PoolConstants
<1> QED
  BY <1>1, <1>2, FS_Product

LEMMA DropsFinite ==
    ASSUME NEW v
    PROVE  IsFiniteSet(Drops(v)) /\ Cardinality(Drops(v)) \in Nat
PROOF
<1>1. Drops(v) \subseteq Threads \X Levels
  BY DEF Drops
<1> QED
  BY <1>1, PairsFinite, FS_Subset, FS_CardinalityType

LEMMA SmallLength ==
    /\ \A n \in Nat : n # 0 => 1 \in 1..n
    /\ \A n \in Nat : n # 0 /\ n <= 3 => n \in Levels
    /\ \A n \in Nat : n = 0 => 1..n = {}
PROOF
  BY DEF Levels

\* A stack of drops of one value.
OneValue(s) == \A i, j \in 1..Len(s) : s[i] = s[j]

\* A drop begins: of a value that the others of the thread are of, too.
LEMMA PushDrop ==
    ASSUME TypeOK, NEW t \in Threads, NEW w \in Values,
           Len(dropping[t]) <= 3,
           \A i \in 1..Len(dropping[t]) : dropping[t][i] = w,
           dropping' = [dropping EXCEPT ![t] = <<w>> \o @]
    PROVE  /\ dropping' \in [Threads -> Seq(Values)]
           /\ Len(dropping'[t]) = Len(dropping[t]) + 1
           /\ \A i \in 1..Len(dropping'[t]) : dropping'[t][i] = w
           /\ \A u \in Threads \ {t} : dropping'[u] = dropping[u]
           /\ Cardinality(Drops(w)') = Cardinality(Drops(w)) + 1
           /\ \A v \in Values \ {w} : Drops(v)' = Drops(v)
PROOF
<1> DEFINE s == dropping[t]
<1>1. s \in Seq(Values) /\ <<w>> \in Seq(Values) /\ Len(<<w>>) = 1 /\ <<w>>[1] = w
  BY DEF TypeOK
<1>2. /\ <<w>> \o s \in Seq(Values)
      /\ Len(<<w>> \o s) = 1 + Len(s)
      /\ \A i \in 1..(1 + Len(s)) :
            (<<w>> \o s)[i] = IF i <= 1 THEN <<w>>[i] ELSE s[i - 1]
      /\ Len(s) \in Nat
  <2> HIDE DEF s
  <2> QED
    BY <1>1, ConcatProperties, LenProperties
<1>3. /\ dropping'[t] = <<w>> \o s
      /\ \A u \in Threads \ {t} : dropping'[u] = dropping[u]
      /\ dropping' \in [Threads -> Seq(Values)]
  BY <1>2 DEF TypeOK
<1>4. \A i \in 1..(1 + Len(s)) : dropping'[t][i] = w
  BY <1>1, <1>2, <1>3
<1>5. DOMAIN s = 1..Len(s) /\ DOMAIN dropping'[t] = 1..(1 + Len(s))
  BY <1>1, <1>2, <1>3, LenProperties
<1>6. Drops(w)' = Drops(w) \cup {<<t, Len(s) + 1>>} /\ <<t, Len(s) + 1>> \notin Drops(w)
  <2>1. ASSUME NEW u \in Threads, NEW i \in Levels
        PROVE  <<u, i>> \in Drops(w)' <=> <<u, i>> \in Drops(w) \/ <<u, i>> = <<t, Len(s) + 1>>
    <3>1. CASE u # t
      BY <1>3, <3>1 DEF Drops, Levels
    <3>2. CASE u = t
      <4>1. <<u, i>> \in Drops(w)' <=> i \in 1..(1 + Len(s))
        BY <1>4, <1>5, <3>2 DEF Drops, Levels
      <4>2. <<u, i>> \in Drops(w) <=> i \in 1..Len(s)
        BY <1>5, <3>2 DEF Drops, Levels
      <4> QED
        BY <4>1, <4>2, <3>2, <1>2
    <3> QED
      BY <3>1, <3>2
  <2>2. Len(s) + 1 \in Levels /\ Len(s) + 1 \notin 1..Len(s)
    BY <1>2 DEF Levels
  <2>3. <<t, Len(s) + 1>> \notin Drops(w)
    BY <2>2, <1>5 DEF Drops, Levels
  <2>4. <<t, Len(s) + 1>> \in Threads \X Levels
    BY <2>2
  <2>5. Drops(w)' = Drops(w) \cup {<<t, Len(s) + 1>>}
    <3> DEFINE A == Drops(w) \cup {<<t, Len(s) + 1>>}
    <3>1. A \in SUBSET (Threads \X Levels) /\ Drops(w)' \in SUBSET (Threads \X Levels)
      BY <2>4 DEF Drops
    <3>2. \A u \in Threads, i \in Levels : <<u, i>> \in Drops(w)' <=> <<u, i>> \in A
      BY <2>1
    <3>3. Drops(w)' = A
      <4> HIDE DEF A
      <4> QED
        BY <3>1, <3>2, SameDrops
    <3> QED
      BY <3>3
  <2> QED
    BY <2>3, <2>5
<1>7. Cardinality(Drops(w)') = Cardinality(Drops(w)) + 1
  BY <1>6, DropsFinite, FS_AddElement
<1>8. ASSUME NEW v \in Values \ {w} PROVE Drops(v)' = Drops(v)
  <2>1. ASSUME NEW u \in Threads, NEW i \in Levels
        PROVE  <<u, i>> \in Drops(v)' <=> <<u, i>> \in Drops(v)
    <3>1. CASE u # t
      BY <1>3, <3>1 DEF Drops, Levels
    <3>2. CASE u = t
      BY <1>4, <1>5, <3>2 DEF Drops, Levels
    <3> QED
      BY <3>1, <3>2
  <2>2. Drops(v) \in SUBSET (Threads \X Levels) /\ Drops(v)' \in SUBSET (Threads \X Levels)
    BY DEF Drops
  <2> QED
    BY <2>1, <2>2, SameDrops
<1> QED
  BY <1>2, <1>3, <1>4, <1>7, <1>8

\* A drop ends.
LEMMA PopDrop ==
    ASSUME TypeOK, NEW t \in Threads, NEW w \in Values,
           Len(dropping[t]) \in Levels,
           \A i \in 1..Len(dropping[t]) : dropping[t][i] = w,
           dropping' = [dropping EXCEPT ![t] = Tail(@)]
    PROVE  /\ dropping' \in [Threads -> Seq(Values)]
           /\ Len(dropping'[t]) = Len(dropping[t]) - 1
           /\ \A i \in 1..Len(dropping'[t]) : dropping'[t][i] = w
           /\ \A u \in Threads \ {t} : dropping'[u] = dropping[u]
           /\ Cardinality(Drops(w)') = Cardinality(Drops(w)) - 1
           /\ \A v \in Values \ {w} : Drops(v)' = Drops(v)
PROOF
<1> DEFINE s == dropping[t]
<1>1. s \in Seq(Values) /\ s # <<>>
  <2>1. s \in Seq(Values)
    BY DEF TypeOK
  <2>2. Len(s) # 0
    BY DEF Levels
  <2> HIDE DEF s
  <2> QED
    BY <2>1, <2>2, EmptySeq
<1>2. /\ Tail(s) \in Seq(Values)
      /\ Len(Tail(s)) = Len(s) - 1
      /\ \A i \in 1..Len(Tail(s)) : Tail(s)[i] = s[i + 1]
      /\ Len(s) \in Nat
  <2> HIDE DEF s
  <2> QED
    BY <1>1, HeadTailProperties, LenProperties
<1>3. /\ dropping'[t] = Tail(s)
      /\ \A u \in Threads \ {t} : dropping'[u] = dropping[u]
      /\ dropping' \in [Threads -> Seq(Values)]
  BY <1>2 DEF TypeOK
<1>4. \A i \in 1..(Len(s) - 1) : dropping'[t][i] = w
  BY <1>2, <1>3
<1>5. DOMAIN s = 1..Len(s) /\ DOMAIN dropping'[t] = 1..(Len(s) - 1)
  BY <1>1, <1>2, <1>3, LenProperties
<1>6. Drops(w)' = Drops(w) \ {<<t, Len(s)>>} /\ <<t, Len(s)>> \in Drops(w)
  <2>1. ASSUME NEW u \in Threads, NEW i \in Levels
        PROVE  <<u, i>> \in Drops(w)' <=> <<u, i>> \in Drops(w) /\ <<u, i>> # <<t, Len(s)>>
    <3>1. CASE u # t
      BY <1>3, <3>1 DEF Drops, Levels
    <3>2. CASE u = t
      <4>1. <<u, i>> \in Drops(w)' <=> i \in 1..(Len(s) - 1)
        BY <1>4, <1>5, <3>2 DEF Drops, Levels
      <4>2. <<u, i>> \in Drops(w) <=> i \in 1..Len(s)
        BY <1>5, <3>2 DEF Drops, Levels
      <4> QED
        BY <4>1, <4>2, <3>2, <1>2
    <3> QED
      BY <3>1, <3>2
  <2>2. Len(s) \in Levels /\ Len(s) \in 1..Len(s)
    BY <1>2 DEF Levels
  <2>3. <<t, Len(s)>> \in Drops(w)
    BY <2>2, <1>5 DEF Drops, Levels
  <2>4. Drops(w)' = Drops(w) \ {<<t, Len(s)>>}
    <3> DEFINE A == Drops(w) \ {<<t, Len(s)>>}
    <3>1. A \in SUBSET (Threads \X Levels) /\ Drops(w)' \in SUBSET (Threads \X Levels)
      BY DEF Drops
    <3>2. \A u \in Threads, i \in Levels : <<u, i>> \in Drops(w)' <=> <<u, i>> \in A
      BY <2>1
    <3>3. Drops(w)' = A
      <4> HIDE DEF A
      <4> QED
        BY <3>1, <3>2, SameDrops
    <3> QED
      BY <3>3
  <2> QED
    BY <2>3, <2>4
<1>7. Cardinality(Drops(w)') = Cardinality(Drops(w)) - 1
  <2> DEFINE d == <<t, Len(s)>>
  <2>1. Drops(w)' = Drops(w) \ {d} /\ d \in Drops(w) /\ IsFiniteSet(Drops(w))
    BY <1>6, DropsFinite
  <2> HIDE DEF d
  <2>2. Cardinality(Drops(w) \ {d}) = Cardinality(Drops(w)) - 1
    BY <2>1, FS_RemoveElement
  <2> QED
    BY <2>1, <2>2
<1>8. ASSUME NEW v \in Values \ {w} PROVE Drops(v)' = Drops(v)
  <2>1. ASSUME NEW u \in Threads, NEW i \in Levels
        PROVE  <<u, i>> \in Drops(v)' <=> <<u, i>> \in Drops(v)
    <3>1. CASE u # t
      BY <1>3, <3>1 DEF Drops, Levels
    <3>2. CASE u = t
      BY <1>4, <1>5, <3>2 DEF Drops, Levels
    <3> QED
      BY <3>1, <3>2
  <2>2. Drops(v) \in SUBSET (Threads \X Levels) /\ Drops(v)' \in SUBSET (Threads \X Levels)
    BY DEF Drops
  <2> QED
    BY <2>1, <2>2, SameDrops
<1> QED
  BY <1>2, <1>3, <1>4, <1>7, <1>8

\* The drops of a thread count for the value that they are of.
LEMMA DropsCount ==
    ASSUME TypeOK, NEW t \in Threads, NEW w \in Values,
           Len(dropping[t]) <= 4,
           \A i \in 1..Len(dropping[t]) : dropping[t][i] = w
    PROVE  Len(dropping[t]) <= Cardinality(Drops(w))
PROOF
<1> DEFINE n == Len(dropping[t])
<1>1. dropping[t] \in Seq(Values) /\ n \in 0..4 /\ DOMAIN dropping[t] = 1..n
  <2>1. dropping[t] \in Seq(Values)
    BY DEF TypeOK
  <2>2. n \in Nat /\ DOMAIN dropping[t] = 1..n
    BY <2>1, LenProperties
  <2>3. n <= 4
    OBVIOUS
  <2> HIDE DEF n
  <2> QED
    BY <2>1, <2>2, <2>3
<1>2. {<<t, i>> : i \in 1..n} \subseteq Drops(w)
  BY <1>1 DEF Drops, Levels
<1> DEFINE f == [i \in 1..n |-> <<t, i>>]
<1>3. f \in Injection(1..n, Drops(w))
  BY <1>2, Fun_IsInj
<1>4. n <= Cardinality(Drops(w))
  <2>1. Cardinality(1..n) = n
    BY <1>1, FS_Interval
  <2>2. Cardinality(1..n) <= Cardinality(Drops(w))
    <3> HIDE DEF f, n
    <3> QED
      BY <1>3, DropsFinite, FS_Injection
  <2> QED
    BY <2>1, <2>2
<1> QED
  BY <1>4

-----------------------------------------------------------------------------
(* The inductive invariant.                                                *)

\* A thread drops RootStrings of one value at a time, it has none to drop when
\* it is idle, and it takes the mutex for the first or the second only.
StackOK ==
    \A t \in Threads :
        /\ Len(dropping[t]) <= 3
        /\ pc[t] = "idle" <=> Len(dropping[t]) = 0
        /\ pc[t] = "lock" => Len(dropping[t]) <= 2
        /\ OneValue(dropping[t])

\* One value is live at most, the pool knows it, and what has a root is live.
LiveOK ==
    /\ \A u, v \in live : u = v
    /\ \A v \in live : entry[v] # "none" /\ v <= stored
    /\ \A v \in Values : roots[v] > 0 => v \in live

PoolInv == TypeOK /\ StackOK /\ LiveOK /\ RootsAccounted

LEMMA InitPool == Init => PoolInv
PROOF
<1> SUFFICES ASSUME Init PROVE PoolInv
  OBVIOUS
<1>1. \A t \in Threads : /\ dropping[t] \in Seq(Values) /\ Len(dropping[t]) = 0
                         /\ DOMAIN dropping[t] = {}
  <2>1. <<>> \in Seq(Values) /\ Len(<<>>) = 0
    BY EmptySeq
  <2>2. DOMAIN <<>> = {}
    OBVIOUS
  <2> QED
    BY <2>1, <2>2 DEF Init
<1>2. TypeOK
  BY <1>1, PoolConstants DEF Init, TypeOK
<1>3. StackOK
  BY <1>1 DEF Init, StackOK, OneValue
<1>4. LiveOK
  BY DEF Init, LiveOK
<1>5. \A v \in Values : Drops(v) = {}
  BY <1>1 DEF Drops
<1>6. \A v \in Values : roots[v] = 0 /\ handles[v] = 0 /\ EntryRoot(v) = 0
  BY DEF Init, EntryRoot
<1>7. \A v \in Values : Cardinality(Drops(v)) = 0
  BY <1>5, FS_EmptySet
<1>8. RootsAccounted
  BY <1>6, <1>7, AccountedInParts
<1> QED
  BY <1>2, <1>3, <1>4, <1>8 DEF PoolInv

LEMMA SameDropping ==
    ASSUME dropping' = dropping, NEW v
    PROVE  Drops(v)' = Drops(v)
PROOF
  BY DEF Drops

\* Who interns finds the one value that is live, or makes it.
LEMMA InternKeeps ==
    ASSUME PoolInv, NEW n \in 0..1, Intern(n), UNCHANGED <<guarded, dropping, pc>>
    PROVE  PoolInv'
PROOF
<1> USE DEF Values
<1>1. /\ TypeOK /\ StackOK /\ LiveOK /\ MaxValues \in Nat /\ MaxHandles \in Nat \ {0}
      /\ \A v \in Values : roots[v] = handles[v] + EntryRoot(v) + Cardinality(Drops(v))
      /\ \A v \in Values : Cardinality(Drops(v)) \in Nat /\ Drops(v)' = Drops(v)
  BY PoolConstants, DropsFinite, SameDropping, AccountedInParts DEF PoolInv
<1>2. StackOK'
  BY <1>1 DEF StackOK, OneValue
<1>3. CASE \E v \in Interned :
              /\ handles[v] + n <= MaxHandles
              /\ entry' = [entry EXCEPT ![v] = "rooted"]
              /\ roots' = [roots EXCEPT
                              ![v] = @ + n + IF entry[v] = "weak" THEN 1 ELSE 0]
              /\ handles' = [handles EXCEPT ![v] = @ + n]
              /\ UNCHANGED <<live, stored>>
  <2>1. PICK v \in Interned :
              /\ handles[v] + n <= MaxHandles
              /\ entry' = [entry EXCEPT ![v] = "rooted"]
              /\ roots' = [roots EXCEPT
                              ![v] = @ + n + IF entry[v] = "weak" THEN 1 ELSE 0]
              /\ handles' = [handles EXCEPT ![v] = @ + n]
              /\ UNCHANGED <<live, stored>>
    BY <1>3
  <2>2. v \in live /\ v \in Values /\ entry[v] \in {"rooted", "weak"}
    BY <1>1 DEF Interned, TypeOK
  <2>3. TypeOK'
    <3>1. handles[v] + n \in 0..MaxHandles /\ roots[v] + n \in Nat /\ roots[v] + n + 1 \in Nat
      BY <1>1, <2>1, <2>2 DEF TypeOK
    <3> DEFINE k == roots[v] + n + IF entry[v] = "weak" THEN 1 ELSE 0
    <3>2. k \in Nat /\ roots' = [roots EXCEPT ![v] = k]
      BY <2>1, <3>1
    <3> HIDE DEF k
    <3>3. roots' \in [Values -> Nat] /\ handles' \in [Values -> 0..MaxHandles]
      BY <1>1, <2>1, <2>2, <3>1, <3>2 DEF TypeOK
    <3> QED
      BY <1>1, <2>1, <2>2, <3>3 DEF TypeOK
  <2>4. LiveOK'
    BY <1>1, <2>1, <2>2 DEF LiveOK, TypeOK
  <2>5. ASSUME NEW w \in Values
        PROVE  roots'[w] = handles'[w] + EntryRoot(w)' + Cardinality(Drops(w))
    <3>1. CASE w # v
      BY <1>1, <2>1, <2>2, <3>1 DEF EntryRoot, TypeOK
    <3>2. CASE w = v
      <4>1. /\ roots'[v] = roots[v] + n + IF entry[v] = "weak" THEN 1 ELSE 0
            /\ handles'[v] = handles[v] + n
            /\ EntryRoot(v)' = 1
            /\ EntryRoot(v) = IF entry[v] = "weak" THEN 0 ELSE 1
        BY <1>1, <2>1, <2>2 DEF EntryRoot, TypeOK
      <4>2. roots[v] = handles[v] + EntryRoot(v) + Cardinality(Drops(v))
            /\ Cardinality(Drops(v)) \in Nat /\ handles[v] \in Nat /\ roots[v] \in Nat
        BY <1>1, <2>2 DEF TypeOK
      <4> QED
        BY <3>2, <4>1, <4>2
    <3> QED
      BY <3>1, <3>2
  <2> QED
    BY <1>1, <1>2, <2>3, <2>4, <2>5 DEF PoolInv, RootsAccounted, EntryRoot
<1>4. CASE /\ Interned = {}
           /\ stored < MaxValues
           /\ stored' = stored + 1
           /\ live' = live \cup {stored'}
           /\ entry' = [entry EXCEPT ![stored'] = "rooted"]
           /\ roots' = [roots EXCEPT ![stored'] = 1 + n]
           /\ handles' = [handles EXCEPT ![stored'] = n]
  <2>1. live = {} /\ stored' \in Values /\ stored' \notin live
    <3>1. live = {}
      BY <1>1, <1>4 DEF Interned, LiveOK
    <3>2. stored' \in Values
      BY <1>1, <1>4 DEF TypeOK
    <3> QED
      BY <3>1, <3>2
  <2>2. TypeOK'
    BY <1>1, <1>4, <2>1 DEF TypeOK
  <2>3. LiveOK'
    BY <1>1, <1>4, <2>1 DEF LiveOK, TypeOK
  <2>4. roots[stored'] = 0
    BY <1>1, <2>1 DEF LiveOK, TypeOK
  <2>5. Cardinality(Drops(stored')) = 0
    BY <1>1, <2>1, <2>4 DEF EntryRoot, TypeOK
  <2>6. ASSUME NEW w \in Values
        PROVE  roots'[w] = handles'[w] + EntryRoot(w)' + Cardinality(Drops(w))
    <3>1. CASE w # stored'
      BY <1>1, <1>4, <2>1, <3>1 DEF EntryRoot, TypeOK
    <3>2. CASE w = stored'
      <4>1. roots'[w] = 1 + n /\ handles'[w] = n /\ EntryRoot(w)' = 1
        BY <1>1, <1>4, <2>1, <3>2 DEF EntryRoot, TypeOK
      <4> QED
        BY <3>2, <4>1, <2>5
    <3> QED
      BY <3>1, <3>2
  <2> QED
    BY <1>1, <1>2, <2>2, <2>3, <2>6 DEF PoolInv, RootsAccounted, EntryRoot
<1> QED
  BY <1>3, <1>4 DEF Intern

\* What is dropped, and what a rooted entry keeps, is the live value.
LEMMA DroppedIsLive ==
    ASSUME PoolInv
    PROVE  /\ \A t \in Threads : \A i \in 1..Len(dropping[t]) : dropping[t][i] \in live
           /\ \A v \in Values : entry[v] = "rooted" \/ handles[v] > 0 => v \in live
PROOF
<1>1. /\ TypeOK /\ StackOK /\ LiveOK
      /\ \A v \in Values : roots[v] = handles[v] + EntryRoot(v) + Cardinality(Drops(v))
      /\ \A v \in Values : Cardinality(Drops(v)) \in Nat /\ IsFiniteSet(Drops(v))
  BY DropsFinite, AccountedInParts DEF PoolInv
<1>2. ASSUME NEW t \in Threads, NEW i \in 1..Len(dropping[t])
      PROVE  dropping[t][i] \in live
  <2>1. dropping[t] \in Seq(Values)
    BY <1>1 DEF TypeOK
  <2>2. DOMAIN dropping[t] = 1..Len(dropping[t]) /\ Len(dropping[t]) \in Nat
        /\ dropping[t][i] \in Values
    BY <2>1, LenProperties
  <2>3. i \in Levels
    BY <1>1, <2>2 DEF StackOK, Levels
  <2>4. <<t, i>> \in Drops(dropping[t][i])
    BY <2>2, <2>3 DEF Drops
  <2>5. Cardinality(Drops(dropping[t][i])) # 0
    BY <1>1, <2>2, <2>4, FS_EmptySet
  <2> DEFINE v == dropping[t][i]
  <2>6. roots[v] > 0
    <3>1. handles[v] \in Nat /\ EntryRoot(v) \in Nat /\ Cardinality(Drops(v)) \in Nat \ {0}
      BY <1>1, <2>2, <2>5 DEF EntryRoot, TypeOK
    <3>2. roots[v] = handles[v] + EntryRoot(v) + Cardinality(Drops(v))
      BY <1>1, <2>2
    <3> HIDE DEF v
    <3> QED
      BY <3>1, <3>2
  <2> QED
    BY <1>1, <2>2, <2>6 DEF LiveOK
<1>3. ASSUME NEW v \in Values, entry[v] = "rooted" \/ handles[v] > 0
      PROVE  v \in live
  BY <1>1, <1>3 DEF LiveOK, TypeOK, EntryRoot
<1> QED
  BY <1>2, <1>3

\* Another RootString of a value that is live.
LEMMA CopyKeeps ==
    ASSUME PoolInv, NEW v \in Values, v \in live, handles[v] < MaxHandles,
           roots' = [roots EXCEPT ![v] = @ + 1],
           handles' = [handles EXCEPT ![v] = @ + 1],
           UNCHANGED <<entry, live, stored, guarded, dropping, pc>>
    PROVE  PoolInv'
PROOF
<1>1. /\ TypeOK /\ StackOK /\ LiveOK /\ MaxHandles \in Nat
      /\ \A w \in Values : roots[w] = handles[w] + EntryRoot(w) + Cardinality(Drops(w))
      /\ \A w \in Values : Cardinality(Drops(w)) \in Nat /\ Drops(w)' = Drops(w)
  BY PoolConstants, DropsFinite, SameDropping, AccountedInParts DEF PoolInv
<1>2. StackOK'
  BY <1>1 DEF StackOK, OneValue
<1>3. TypeOK' /\ LiveOK'
  BY <1>1 DEF TypeOK, LiveOK
<1>4. ASSUME NEW w \in Values
      PROVE  roots'[w] = handles'[w] + EntryRoot(w)' + Cardinality(Drops(w))
  <2>1. EntryRoot(w)' = EntryRoot(w) /\ EntryRoot(w) \in Nat
    BY DEF EntryRoot
  <2>2. /\ roots[w] \in Nat /\ handles[w] \in Nat
        /\ roots'[w] = roots[w] + (IF w = v THEN 1 ELSE 0)
        /\ handles'[w] = handles[w] + (IF w = v THEN 1 ELSE 0)
    BY <1>1 DEF TypeOK
  <2> QED
    BY <1>1, <2>1, <2>2
<1> QED
  BY <1>1, <1>2, <1>3, <1>4 DEF PoolInv, RootsAccounted, EntryRoot

LEMMA UpgradeKeeps ==
    ASSUME PoolInv, NEW t \in Threads, NEW v \in Values, Upgrade(t, v)
    PROVE  PoolInv'
PROOF
  BY CopyKeeps DEF Upgrade

LEMMA CloneKeeps ==
    ASSUME PoolInv, NEW v \in Values, Clone(v)
    PROVE  PoolInv'
PROOF
<1>1. handles[v] > 0 /\ handles[v] < MaxHandles
  BY PoolConstants DEF Clone, PoolInv, TypeOK
<1>2. v \in live
  BY <1>1, DroppedIsLive
<1> QED
  BY <1>1, <1>2, CopyKeeps DEF Clone

\* The RootString that is dropped is not counted among the handles any more.
LEMMA DropKeeps ==
    ASSUME PoolInv, NEW t \in Threads, NEW v \in Values, Drop(t, v)
    PROVE  PoolInv'
PROOF
<1>1. /\ TypeOK /\ StackOK /\ LiveOK /\ MaxHandles \in Nat
      /\ \A w \in Values : roots[w] = handles[w] + EntryRoot(w) + Cardinality(Drops(w))
      /\ \A w \in Values : Cardinality(Drops(w)) \in Nat
  BY PoolConstants, DropsFinite, AccountedInParts DEF PoolInv
<1>2. dropping[t] = <<>> /\ Len(dropping[t]) = 0
  <2>1. Len(dropping[t]) = 0 /\ dropping[t] \in Seq(Values)
    BY <1>1 DEF Drop, StackOK, TypeOK
  <2> QED
    BY <2>1, EmptySeq
<1>3. <<v>> \o dropping[t] = <<v>>
  BY <1>2
<1>4. dropping' = [dropping EXCEPT ![t] = <<v>> \o @]
  BY <1>3 DEF Drop
<1>5. /\ dropping' \in [Threads -> Seq(Values)]
      /\ Len(dropping'[t]) = Len(dropping[t]) + 1
      /\ \A i \in 1..Len(dropping'[t]) : dropping'[t][i] = v
      /\ \A u \in Threads \ {t} : dropping'[u] = dropping[u]
      /\ Cardinality(Drops(v)') = Cardinality(Drops(v)) + 1
      /\ \A w \in Values \ {v} : Drops(w)' = Drops(w)
  <2>1. Len(dropping[t]) <= 3
    BY <1>2
  <2>2. \A i \in 1..Len(dropping[t]) : dropping[t][i] = v
    BY <1>2, SmallLength
  <2>3. TypeOK
    BY <1>1
  <2> QED
    BY <2>1, <2>2, <2>3, <1>4, PushDrop
<1>6. TypeOK'
  BY <1>1, <1>5 DEF Drop, poolVars, TypeOK
<1>7. StackOK'
  BY <1>1, <1>5 DEF Drop, StackOK, OneValue, TypeOK
<1>8. LiveOK'
  BY <1>1 DEF Drop, poolVars, LiveOK
<1>9. ASSUME NEW w \in Values
      PROVE  roots'[w] = handles'[w] + EntryRoot(w)' + Cardinality(Drops(w)')
  <2>1. EntryRoot(w)' = EntryRoot(w) /\ EntryRoot(w) \in Nat /\ roots'[w] = roots[w]
    BY DEF EntryRoot, Drop, poolVars
  <2>2. /\ handles[w] \in Nat
        /\ handles'[w] = handles[w] - (IF w = v THEN 1 ELSE 0)
    BY <1>1 DEF TypeOK, Drop
  <2>3. Cardinality(Drops(w)') = Cardinality(Drops(w)) + (IF w = v THEN 1 ELSE 0)
    BY <1>1, <1>5
  <2> QED
    BY <1>1, <2>1, <2>2, <2>3
<1> QED
  BY <1>6, <1>7, <1>8, <1>9 DEF PoolInv, RootsAccounted, EntryRoot

\* A root count of 2 allows two nested drops at most.
LEMMA CheckKeeps ==
    ASSUME PoolInv, NEW t \in Threads, CheckCount(t)
    PROVE  PoolInv'
PROOF
<1>1. /\ TypeOK /\ StackOK /\ LiveOK
      /\ \A w \in Values : roots[w] = handles[w] + EntryRoot(w) + Cardinality(Drops(w))
      /\ \A w \in Values : Cardinality(Drops(w)) \in Nat
  BY DropsFinite, AccountedInParts DEF PoolInv
<1>2. TypeOK' /\ LiveOK' /\ RootsAccounted'
  BY <1>1 DEF PoolInv, CheckCount, poolVars, TypeOK, LiveOK, RootsAccounted, Drops
<1>3. ASSUME roots[Head(dropping[t])] = 2 PROVE Len(dropping[t]) <= 2
  <2>1. dropping[t] \in Seq(Values) /\ Len(dropping[t]) # 0 /\ Len(dropping[t]) <= 4
    BY <1>1 DEF CheckCount, StackOK, TypeOK
  <2>2. Len(dropping[t]) \in Nat
    BY <2>1, LenProperties
  <2>3. Head(dropping[t]) = dropping[t][1] /\ Head(dropping[t]) \in Values
    <3>1. dropping[t] # <<>>
      BY <2>1, EmptySeq
    <3> QED
      BY <2>1, <3>1, HeadTailProperties
  <2>4. \A i \in 1..Len(dropping[t]) : dropping[t][i] = Head(dropping[t])
    <3>1. 1 \in 1..Len(dropping[t])
      BY <2>1, <2>2
    <3> QED
      BY <1>1, <2>3, <3>1 DEF StackOK, OneValue
  <2>5. Len(dropping[t]) <= Cardinality(Drops(Head(dropping[t])))
    BY <1>1, <2>1, <2>3, <2>4, DropsCount
  <2>6. Cardinality(Drops(Head(dropping[t]))) <= roots[Head(dropping[t])]
    BY <1>1, <2>3 DEF EntryRoot, TypeOK
  <2> QED
    BY <1>1, <1>3, <2>2, <2>3, <2>5, <2>6
<1>4. StackOK'
  BY <1>1, <1>3 DEF CheckCount, StackOK, OneValue, TypeOK
<1> QED
  BY <1>2, <1>4 DEF PoolInv

\* The entry that is taken is of the value that is dropped.
LEMMA DowngradeKeeps ==
    ASSUME PoolInv, NEW t \in Threads, Downgrade(t)
    PROVE  PoolInv'
PROOF
<1>1. /\ TypeOK /\ StackOK /\ LiveOK
      /\ \A w \in Values : roots[w] = handles[w] + EntryRoot(w) + Cardinality(Drops(w))
      /\ \A w \in Values : Cardinality(Drops(w)) \in Nat
  BY DropsFinite, AccountedInParts DEF PoolInv
<1>2. CASE \E w \in Found(Head(dropping[t])) :
             /\ entry[w] = "rooted"
             /\ entry' = [entry EXCEPT ![w] = "weak"]
             /\ dropping' = [dropping EXCEPT ![t] = <<w>> \o @]
             /\ pc' = [pc EXCEPT ![t] = "check"]
  <2>1. PICK w \in Values :
             /\ entry[w] = "rooted"
             /\ entry' = [entry EXCEPT ![w] = "weak"]
             /\ dropping' = [dropping EXCEPT ![t] = <<w>> \o @]
             /\ pc' = [pc EXCEPT ![t] = "check"]
    BY <1>2 DEF Found
  <2>2. w \in live /\ \A i \in 1..Len(dropping[t]) : dropping[t][i] = w
    BY <1>1, <2>1, DroppedIsLive DEF LiveOK
  <2>3. Len(dropping[t]) <= 2 /\ Len(dropping[t]) \in Nat
    <3>1. dropping[t] \in Seq(Values) /\ Len(dropping[t]) <= 2
      BY <1>1 DEF Downgrade, StackOK, TypeOK
    <3> QED
      BY <3>1, LenProperties
  <2>4. /\ dropping' \in [Threads -> Seq(Values)]
        /\ Len(dropping'[t]) = Len(dropping[t]) + 1
        /\ \A i \in 1..Len(dropping'[t]) : dropping'[t][i] = w
        /\ \A u \in Threads \ {t} : dropping'[u] = dropping[u]
        /\ Cardinality(Drops(w)') = Cardinality(Drops(w)) + 1
        /\ \A v \in Values \ {w} : Drops(v)' = Drops(v)
    <3>1. Len(dropping[t]) <= 3
      BY <2>3
    <3>2. TypeOK /\ \A i \in 1..Len(dropping[t]) : dropping[t][i] = w
      BY <1>1, <2>2
    <3>3. dropping' = [dropping EXCEPT ![t] = <<w>> \o @]
      BY <2>1
    <3> QED
      BY <3>1, <3>2, <3>3, PushDrop
  <2>5. TypeOK'
    BY <1>1, <2>1, <2>4 DEF Downgrade, TypeOK
  <2>6. StackOK'
    <3>1. /\ pc'[t] = "check" /\ Len(dropping'[t]) <= 3 /\ Len(dropping'[t]) # 0
          /\ OneValue(dropping'[t])
      <4>1. pc'[t] = "check"
        BY <1>1, <2>1 DEF TypeOK
      <4>2. OneValue(dropping'[t])
        BY <2>4 DEF OneValue
      <4>3. Len(dropping'[t]) = Len(dropping[t]) + 1
        BY <2>4
      <4> QED
        BY <2>3, <4>1, <4>2, <4>3
    <3>2. \A u \in Threads \ {t} : pc'[u] = pc[u] /\ dropping'[u] = dropping[u]
      BY <1>1, <2>1, <2>4 DEF TypeOK
    <3> QED
      BY <1>1, <3>1, <3>2 DEF StackOK
  <2>7. LiveOK'
    BY <1>1, <2>1 DEF Downgrade, LiveOK, TypeOK
  <2>8. ASSUME NEW v \in Values
        PROVE  roots'[v] = handles'[v] + EntryRoot(v)' + Cardinality(Drops(v)')
    <3>1. EntryRoot(v) \in Nat /\ EntryRoot(v)' = EntryRoot(v) - (IF v = w THEN 1 ELSE 0)
      BY <1>1, <2>1 DEF EntryRoot, TypeOK
    <3>2. handles[v] \in Nat /\ handles'[v] = handles[v] /\ roots'[v] = roots[v]
      BY <1>1 DEF TypeOK, Downgrade
    <3>3. Cardinality(Drops(v)') = Cardinality(Drops(v)) + (IF v = w THEN 1 ELSE 0)
      BY <1>1, <2>4
    <3> QED
      BY <1>1, <3>1, <3>2, <3>3
  <2> QED
    BY <2>5, <2>6, <2>7, <2>8 DEF PoolInv, RootsAccounted, EntryRoot
<1>3. CASE pc' = [pc EXCEPT ![t] = "dec"] /\ UNCHANGED <<entry, dropping>>
  <2>1. TypeOK' /\ LiveOK'
    BY <1>1, <1>3 DEF Downgrade, TypeOK, LiveOK
  <2>3. RootsAccounted'
    <3>1. \A v \in Values : Drops(v)' = Drops(v)
      BY <1>3, SameDropping
    <3> QED
      BY <1>3, <3>1 DEF PoolInv, RootsAccounted, Downgrade
  <2>2. StackOK'
    BY <1>1, <1>3 DEF Downgrade, StackOK, OneValue, TypeOK
  <2> QED
    BY <2>1, <2>2, <2>3 DEF PoolInv
<1> QED
  BY <1>2, <1>3 DEF Downgrade

\* The root that a drop gives back was counted for it.
LEMMA DecrementKeeps ==
    ASSUME PoolInv, NEW t \in Threads, Decrement(t)
    PROVE  PoolInv'
PROOF
<1>1. /\ TypeOK /\ StackOK /\ LiveOK
      /\ \A w \in Values : roots[w] = handles[w] + EntryRoot(w) + Cardinality(Drops(w))
      /\ \A w \in Values : Cardinality(Drops(w)) \in Nat
  BY DropsFinite, AccountedInParts DEF PoolInv
<1>2. dropping[t] \in Seq(Values) /\ Len(dropping[t]) # 0 /\ Len(dropping[t]) <= 3
  BY <1>1 DEF Decrement, StackOK, TypeOK
<1>3. Len(dropping[t]) \in Nat /\ Len(dropping[t]) \in Levels /\ 1 \in 1..Len(dropping[t])
  <2>1. Len(dropping[t]) \in Nat
    BY <1>2, LenProperties
  <2> QED
    BY <1>2, <2>1, SmallLength
<1>4. PICK v \in Values : /\ v = Head(dropping[t])
                         /\ \A i \in 1..Len(dropping[t]) : dropping[t][i] = v
  <2>1. dropping[t] # <<>>
    BY <1>2, EmptySeq
  <2>2. Head(dropping[t]) = dropping[t][1] /\ Head(dropping[t]) \in Values
    BY <1>2, <2>1, HeadTailProperties
  <2> QED
    BY <1>1, <1>3, <2>2 DEF StackOK, OneValue
<1>5. dropping' = [dropping EXCEPT ![t] = Tail(@)]
  BY DEF Decrement
<1>6. /\ dropping' \in [Threads -> Seq(Values)]
      /\ Len(dropping'[t]) = Len(dropping[t]) - 1
      /\ \A i \in 1..Len(dropping'[t]) : dropping'[t][i] = v
      /\ \A u \in Threads \ {t} : dropping'[u] = dropping[u]
      /\ Cardinality(Drops(v)') = Cardinality(Drops(v)) - 1
      /\ \A w \in Values \ {v} : Drops(w)' = Drops(w)
  <2>1. TypeOK /\ Len(dropping[t]) \in Levels
    BY <1>1, <1>3
  <2>2. v \in Values
    BY <1>4
  <2>3. \A i \in 1..Len(dropping[t]) : dropping[t][i] = v
    BY <1>4
  <2> QED
    BY <2>1, <2>2, <2>3, <1>5, PopDrop
<1>7. Cardinality(Drops(v)') \in Nat /\ v \in live
  <2>1. IsFiniteSet(Drops(v)')
    <3>1. IsFiniteSet(Threads \X Levels)
      BY PairsFinite
    <3>2. Drops(v)' \subseteq Threads \X Levels
      BY DEF Drops
    <3> QED
      BY <3>1, <3>2, FS_Subset
  <2>2. Cardinality(Drops(v)') \in Nat
    BY <2>1, FS_CardinalityType
  <2>4. v \in live
    BY <1>3, <1>4, DroppedIsLive
  <2> QED
    BY <2>2, <2>4
<1>8. roots[v] > 0 /\ roots[v] \in Nat
  <2>1. EntryRoot(v) \in Nat /\ handles[v] \in Nat /\ roots[v] \in Nat
    BY <1>1, <1>4 DEF TypeOK, EntryRoot
  <2> QED
    BY <1>1, <1>4, <1>6, <1>7, <2>1
<1>9. roots' = [roots EXCEPT ![v] = @ - 1] /\ UNCHANGED <<entry, live, stored, handles, guarded>>
  BY <1>4 DEF Decrement
<1>10. TypeOK'
  <2>1. pc' \in [Threads -> {"idle", "check", "lock", "dec"}]
    BY <1>1 DEF TypeOK, Decrement
  <2> QED
    BY <1>1, <1>4, <1>6, <1>8, <1>9, <2>1 DEF TypeOK
<1>11. StackOK'
  <2>1. pc' = [pc EXCEPT ![t] = IF Len(dropping[t]) = 1 THEN "idle" ELSE "dec"]
    BY DEF Decrement
  <2>2. /\ pc'[t] = (IF Len(dropping[t]) = 1 THEN "idle" ELSE "dec")
        /\ Len(dropping'[t]) <= 3
        /\ Len(dropping'[t]) = 0 <=> Len(dropping[t]) = 1
        /\ OneValue(dropping'[t])
    <3>1. pc'[t] = (IF Len(dropping[t]) = 1 THEN "idle" ELSE "dec")
      BY <1>1, <2>1 DEF TypeOK
    <3>2. OneValue(dropping'[t])
      BY <1>6 DEF OneValue
    <3>3. /\ Len(dropping'[t]) = Len(dropping[t]) - 1
          /\ Len(dropping[t]) \in Nat /\ Len(dropping[t]) <= 3
      BY <1>2, <1>3, <1>6
    <3> QED
      BY <3>1, <3>2, <3>3
  <2>3. \A u \in Threads \ {t} : pc'[u] = pc[u] /\ dropping'[u] = dropping[u]
    BY <1>1, <1>6, <2>1 DEF TypeOK
  <2> QED
    BY <1>1, <2>2, <2>3 DEF StackOK
<1>12. LiveOK'
  <2> QED
    BY <1>1, <1>4, <1>7, <1>8, <1>9 DEF LiveOK, TypeOK
<1>13. ASSUME NEW w \in Values
       PROVE  roots'[w] = handles'[w] + EntryRoot(w)' + Cardinality(Drops(w)')
  <2>1. EntryRoot(w)' = EntryRoot(w) /\ EntryRoot(w) \in Nat
    BY <1>9 DEF EntryRoot
  <2>2. /\ handles[w] \in Nat /\ handles'[w] = handles[w] /\ roots[w] \in Nat
        /\ roots'[w] = roots[w] - (IF w = v THEN 1 ELSE 0)
    BY <1>1, <1>9 DEF TypeOK
  <2>3. Cardinality(Drops(w)') = Cardinality(Drops(w)) - (IF w = v THEN 1 ELSE 0)
    BY <1>1, <1>6
  <2> QED
    BY <1>1, <2>1, <2>2, <2>3
<1> QED
  BY <1>10, <1>11, <1>12, <1>13 DEF PoolInv, RootsAccounted, EntryRoot

LEMMA NextPool == PoolInv /\ [Next]_vars => PoolInv'
PROOF
<1> SUFFICES ASSUME PoolInv, [Next]_vars PROVE PoolInv'
  OBVIOUS
<1>1. ASSUME NEW t \in Threads, NewRoot(t) \/ NewRef(t) PROVE PoolInv'
  BY <1>1, InternKeeps DEF NewRoot, NewRef
<1>2. ASSUME NEW t \in Threads, NEW v \in Values, Upgrade(t, v) \/ Drop(t, v)
      PROVE  PoolInv'
  BY <1>2, UpgradeKeeps, DropKeeps
<1>3. ASSUME NEW t \in Threads, DropStep(t) PROVE PoolInv'
  BY <1>3, CheckKeeps, DowngradeKeeps, DecrementKeeps DEF DropStep
<1>4. ASSUME NEW t \in Threads, ToggleGuard(t) PROVE PoolInv'
  BY <1>4 DEF ToggleGuard, PoolInv, TypeOK, StackOK, OneValue, LiveOK, RootsAccounted,
              Drops, poolVars
<1>5. ASSUME NEW v \in Values, Clone(v) PROVE PoolInv'
  BY <1>5, CloneKeeps
<1>6. CASE Collect
  BY <1>6 DEF Collect, PoolInv, TypeOK, StackOK, OneValue, LiveOK, RootsAccounted, Drops
<1>7. CASE UNCHANGED vars
  BY <1>7 DEF vars, PoolInv, TypeOK, StackOK, OneValue, LiveOK, RootsAccounted, Drops,
              poolVars
<1> QED
  BY <1>1, <1>2, <1>3, <1>4, <1>5, <1>6, <1>7 DEF Next

LEMMA PoolInvariant == Spec => []PoolInv
PROOF
  BY InitPool, NextPool, PTL DEF Spec

-----------------------------------------------------------------------------
(* The theorems.                                                           *)

\* The type invariant, for any threads and bounds.
THEOREM TypeCorrect == Spec => []TypeOK
PROOF
<1>1. PoolInv => TypeOK
  BY DEF PoolInv
<1> QED
  BY <1>1, PoolInvariant, PTL

\* There is never a second value of a string, so RootString::eq may compare
\* pointers, however many threads intern it and whatever is collected meanwhile.
THEOREM AllocationIsUnique == Spec => []OneAllocation
PROOF
<1>1. PoolInv => OneAllocation
  <2> SUFFICES ASSUME PoolInv PROVE Cardinality(live) <= 1
    BY DEF OneAllocation
  <2>1. \A u, v \in live : u = v
    BY DEF PoolInv, LiveOK
  <2>2. CASE live = {}
    BY <2>2, FS_EmptySet
  <2>3. CASE live # {}
    <3>1. PICK v \in live : live = {v}
      BY <2>1, <2>3
    <3>2. \A x : Cardinality({x}) = 1
      BY FS_Singleton
    <3> QED
      BY <3>1, <3>2
  <2> QED
    BY <2>2, <2>3
<1> QED
  BY <1>1, PoolInvariant, PTL

\* No nested drop of any thread loses a root or gives one back twice.
THEOREM RootsAlwaysAccounted == Spec => []RootsAccounted
PROOF
<1>1. PoolInv => RootsAccounted
  BY DEF PoolInv
<1> QED
  BY <1>1, PoolInvariant, PTL

\* RootString::drop re-enters itself twice at most, however many threads drop and
\* intern the string.
THEOREM DropsNestTwice == Spec => []NestingIsBounded
PROOF
<1>1. PoolInv => NestingIsBounded
  BY DEF PoolInv, StackOK, NestingIsBounded
<1> QED
  BY <1>1, PoolInvariant, PTL
===============================================================================
