---------------------------- MODULE MarkPhaseProofs ----------------------------
(***************************************************************************)
(* Proofs about MarkPhase, for any values, Bins, contents, tracers and     *)
(* capacities: marking is complete when it stops, and it implements        *)
(* Collection, for types that keep the contract of Trace.                  *)
(***************************************************************************)
EXTENDS MarkPhase, FiniteSetTheorems, SequenceTheorems, TLAPS

-----------------------------------------------------------------------------
(* Channels as sets.                                                       *)

\* What is in a channel.
Items(s) == {s[i] : i \in 1..Len(s)}

\* Sending adds an item.
LEMMA ItemsOfAppend ==
    ASSUME NEW S, NEW s \in Seq(S), NEW e \in S
    PROVE  Items(Append(s, e)) = Items(s) \cup {e}
PROOF
<1>1. /\ Len(s) \in Nat
      /\ Len(Append(s, e)) = Len(s) + 1
      /\ \A i \in 1..Len(s) : Append(s, e)[i] = s[i]
      /\ Append(s, e)[Len(s) + 1] = e
  BY AppendProperties, LenProperties
<1>2. ASSUME NEW x \in Items(Append(s, e)) PROVE x \in Items(s) \cup {e}
  <2>1. PICK i \in 1..(Len(s) + 1) : x = Append(s, e)[i]
    BY <1>1 DEF Items
  <2>2. i \in 1..Len(s) \/ i = Len(s) + 1
    BY <1>1
  <2> QED
    BY <1>1, <2>1, <2>2 DEF Items
<1>3. ASSUME NEW x \in Items(s) PROVE x \in Items(Append(s, e))
  <2>1. PICK i \in 1..Len(s) : x = s[i]
    BY DEF Items
  <2>2. i \in 1..(Len(s) + 1) /\ x = Append(s, e)[i]
    BY <1>1, <2>1
  <2> QED
    BY <1>1, <2>2 DEF Items
<1>4. e \in Items(Append(s, e))
  <2>1. Len(s) + 1 \in 1..(Len(s) + 1)
    BY <1>1
  <2> QED
    BY <1>1, <2>1 DEF Items
<1> QED
  BY <1>2, <1>3, <1>4

\* Receiving takes the first item out; it may be there again.
LEMMA ItemsOfTail ==
    ASSUME NEW S, NEW s \in Seq(S), s # <<>>
    PROVE  /\ Head(s) \in S
           /\ Tail(s) \in Seq(S)
           /\ Len(Tail(s)) = Len(s) - 1
           /\ Items(s) = Items(Tail(s)) \cup {Head(s)}
PROOF
<1>1. /\ Len(s) \in Nat \ {0}
      /\ Head(s) = s[1] /\ Head(s) \in S
      /\ Tail(s) \in Seq(S)
      /\ Len(Tail(s)) = Len(s) - 1
      /\ \A i \in 1..Len(Tail(s)) : Tail(s)[i] = s[i + 1]
  BY HeadTailProperties, EmptySeq, LenProperties
<1>2. ASSUME NEW x \in Items(s) PROVE x \in Items(Tail(s)) \cup {Head(s)}
  <2>1. PICK i \in 1..Len(s) : x = s[i]
    BY DEF Items
  <2>2. CASE i = 1
    BY <1>1, <2>1, <2>2
  <2>3. CASE i # 1
    <3>1. i - 1 \in 1..Len(Tail(s)) /\ (i - 1) + 1 = i
      BY <1>1, <2>3
    <3>2. Tail(s)[i - 1] = x
      BY <1>1, <2>1, <3>1
    <3> QED
      BY <3>1, <3>2 DEF Items
  <2> QED
    BY <2>2, <2>3
<1>3. ASSUME NEW x \in Items(Tail(s)) PROVE x \in Items(s)
  <2>1. PICK i \in 1..Len(Tail(s)) : x = Tail(s)[i]
    BY DEF Items
  <2>2. i + 1 \in 1..Len(s) /\ x = s[i + 1]
    BY <1>1, <2>1
  <2> QED
    BY <2>2 DEF Items
<1>4. Head(s) \in Items(s)
  <2>1. 1 \in 1..Len(s)
    BY <1>1
  <2> QED
    BY <1>1, <2>1 DEF Items
<1> QED
  BY <1>1, <1>2, <1>3, <1>4

\* Nothing is in an empty channel, and only then.
LEMMA ItemsOfEmpty ==
    ASSUME NEW S, NEW s \in Seq(S)
    PROVE  /\ Len(s) \in Nat
           /\ Len(s) = 0 <=> s = <<>>
           /\ s = <<>> => Items(s) = {}
PROOF
<1>1. Len(s) \in Nat /\ (Len(s) = 0 <=> s = <<>>)
  BY EmptySeq, LenProperties
<1>2. ASSUME s = <<>> PROVE Items(s) = {}
  <2>1. 1..Len(s) = {}
    BY <1>1, <1>2
  <2> QED
    BY <2>1 DEF Items
<1> QED
  BY <1>1, <1>2

-----------------------------------------------------------------------------
(* Type correctness.                                                       *)

LEMMA InitTypes == Init => TypeOK
PROOF
<1> SUFFICES ASSUME Init PROVE TypeOK
  OBVIOUS
<1>1. content \in [Objects -> Content]
  BY MarkPhaseConstants DEF Init
<1>2. /\ live \in SUBSET Objects /\ rooted \in SUBSET Objects
      /\ atStart \in SUBSET Objects /\ marked \in SUBSET Objects
  BY DEF Init
<1>3. nextBin \in 1..(NumBins + 1)
  BY MarkPhaseConstants DEF Init
<1>4. /\ traceQ \in Seq(Bins) /\ Len(traceQ) = 0
      /\ markQ \in Seq(Objects) /\ Len(markQ) = 0
      /\ sends \in Seq(Objects)
  BY EmptySeq DEF Init
<1>5. TraceCap \in Nat /\ MarkCap \in Nat
  BY MarkPhaseConstants
<1>6. /\ bin \in [Tracers -> Bins \cup {Idle}]
      /\ at \in [Tracers -> Nat \ {0}]
      /\ found \in [Tracers -> BOOLEAN]
      /\ cpc \in CollectorPc
  BY DEF Init, CollectorPc
<1> QED
  BY <1>1, <1>2, <1>3, <1>4, <1>5, <1>6 DEF TypeOK

\* What is known of the values and Bins that an action handles.
LEMMA BinFacts ==
    /\ NumBins \in Nat /\ TraceCap \in Nat \ {0} /\ MarkCap \in Nat \ {0}
    /\ Idle \notin Bins
    /\ \A o \in Objects : BinOf[o] \in Bins
    /\ \A b \in Bins : /\ Slots[b] \in Seq(Objects)
                       /\ Len(Slots[b]) \in Nat
                       /\ \A i \in 1..Len(Slots[b]) : Slots[b][i] \in Objects
PROOF
<1>1. /\ NumBins \in Nat /\ TraceCap \in Nat \ {0} /\ MarkCap \in Nat \ {0}
      /\ \A o \in Objects : BinOf[o] \in Bins
  BY MarkPhaseConstants
<1>2. Idle \notin Bins
  BY <1>1 DEF Bins, Idle
<1>3. ASSUME NEW b \in Bins
      PROVE  /\ Slots[b] \in Seq(Objects)
             /\ Len(Slots[b]) \in Nat
             /\ \A i \in 1..Len(Slots[b]) : Slots[b][i] \in Objects
  <2>1. Slots[b] \in Seq(Objects)
    BY MarkPhaseConstants
  <2> QED
    BY <2>1, LenProperties, ElementOfSeq
<1> QED
  BY <1>1, <1>2, <1>3

\* A tracer that has found a value is at a slot of a Bin.
FoundOK ==
    \A t \in Tracers : found[t] =>
        bin[t] \in Bins /\ at[t] \in 1..Len(Slots[bin[t]])

\* Every step of the program and the tracers keeps the types.
LEMMA TracerTypes ==
    ASSUME TypeOK, FoundOK,
           \/ \E o \in Objects : DropRoot(o)
           \/ \E t \in Tracers : TracerStep(t)
    PROVE  TypeOK' /\ FoundOK'
PROOF
<1>1. /\ markQ \in Seq(Objects) /\ Len(markQ) \in Nat
      /\ traceQ \in Seq(Bins) /\ Len(traceQ) \in Nat
      /\ bin \in [Tracers -> Bins \cup {Idle}]
      /\ at \in [Tracers -> Nat \ {0}]
      /\ found \in [Tracers -> BOOLEAN]
  BY LenProperties DEF TypeOK
<1>2. ASSUME NEW o \in Objects, DropRoot(o) PROVE TypeOK' /\ FoundOK'
  <2>1. rooted' \in SUBSET Objects
    BY <1>2 DEF TypeOK, DropRoot
  <2> QED
    BY <1>2, <2>1 DEF TypeOK, FoundOK, DropRoot, tracerVars, collectorVars
<1>3. ASSUME NEW t \in Tracers, TakeTraceRequest(t) PROVE TypeOK' /\ FoundOK'
  <2>1. /\ Head(traceQ) \in Bins
        /\ traceQ' \in Seq(Bins)
        /\ Len(traceQ') = Len(traceQ) - 1
    BY <1>1, <1>3, ItemsOfTail DEF TakeTraceRequest
  <2>2. bin' \in [Tracers -> Bins \cup {Idle}] /\ at' \in [Tracers -> Nat \ {0}]
    BY <1>1, <1>3, <2>1 DEF TakeTraceRequest
  <2>3. Len(traceQ') <= TraceCap
    BY <1>1, <2>1, BinFacts DEF TypeOK
  <2>4. ~found[t]
    BY <1>3, BinFacts DEF FoundOK, TakeTraceRequest
  <2>5. FoundOK'
    BY <1>1, <1>3, <2>4 DEF FoundOK, TakeTraceRequest
  <2> QED
    BY <1>3, <2>1, <2>2, <2>3, <2>5
    DEF TypeOK, TakeTraceRequest, programVars, collectorVars
<1>4. ASSUME NEW t \in Tracers, ScanSlot(t) PROVE TypeOK' /\ FoundOK'
  <2>1. at' \in [Tracers -> Nat \ {0}] /\ found' \in [Tracers -> BOOLEAN]
    <3>1. CASE found' = [found EXCEPT ![t] = TRUE] /\ at' = at
      BY <1>1, <3>1
    <3>2. CASE at' = [at EXCEPT ![t] = @ + 1] /\ found' = found
      BY <1>1, <3>2
    <3> QED
      BY <1>4, <3>1, <3>2 DEF ScanSlot
  <2>2. bin[t] \in Bins /\ (at[t] \in 1..Len(Slots[bin[t]]))
    BY <1>1, <1>4, BinFacts DEF ScanSlot
  <2>3. FoundOK'
    BY <1>1, <1>4, <2>2 DEF FoundOK, ScanSlot
  <2> QED
    BY <1>4, <2>1, <2>3 DEF TypeOK, ScanSlot, programVars, collectorVars
<1>5. ASSUME NEW t \in Tracers, SendRooted(t) PROVE TypeOK' /\ FoundOK'
  <2>1. Slots[bin[t]][at[t]] \in Objects
    BY <1>5, BinFacts DEF FoundOK, SendRooted
  <2>2. markQ' \in Seq(Objects) /\ Len(markQ') = Len(markQ) + 1
    BY <1>1, <1>5, <2>1, AppendProperties DEF SendRooted
  <2>3. at' \in [Tracers -> Nat \ {0}] /\ found' \in [Tracers -> BOOLEAN]
    BY <1>1, <1>5 DEF SendRooted
  <2>4. Len(markQ') <= MarkCap
    BY <1>1, <1>5, <2>2, BinFacts DEF SendRooted
  <2>5. FoundOK'
    BY <1>1, <1>5 DEF FoundOK, SendRooted
  <2> QED
    BY <1>5, <2>2, <2>3, <2>4, <2>5
    DEF TypeOK, SendRooted, programVars, collectorVars
<1>6. ASSUME NEW t \in Tracers, FinishTrace(t) PROVE TypeOK' /\ FoundOK'
  <2>1. bin' \in [Tracers -> Bins \cup {Idle}]
    BY <1>1, <1>6 DEF FinishTrace
  <2>2. FoundOK'
    BY <1>1, <1>6 DEF FoundOK, FinishTrace
  <2> QED
    BY <1>6, <2>1, <2>2 DEF TypeOK, FinishTrace, programVars, collectorVars
<1> QED
  BY <1>2, <1>3, <1>4, <1>5, <1>6 DEF TracerStep

\* So does every step of the collector.
LEMMA CollectorTypes ==
    ASSUME TypeOK, FoundOK, CollectorStep
    PROVE  TypeOK' /\ FoundOK'
PROOF
<1>1. /\ markQ \in Seq(Objects) /\ Len(markQ) \in Nat
      /\ traceQ \in Seq(Bins) /\ Len(traceQ) \in Nat
      /\ sends \in Seq(Objects)
      /\ nextBin \in 1..(NumBins + 1)
  BY LenProperties DEF TypeOK
<1>2. bin' = bin /\ at' = at /\ found' = found
  BY DEF CollectorStep, SendTraceRequest, AllRequestsSent, CheckSenders, RecvTimeout,
         StopMarking, ReceiveMark, SendTraced, FinishTraceOne, Sweep, tracerVars
<1>3. FoundOK'
  BY <1>2 DEF FoundOK
<1>4. ASSUME SendTraceRequest PROVE TypeOK'
  <2>1. nextBin \in Bins /\ nextBin' \in 1..(NumBins + 1)
    BY <1>1, <1>4, BinFacts DEF SendTraceRequest, Bins
  <2>2. traceQ' \in Seq(Bins) /\ Len(traceQ') = Len(traceQ) + 1
    BY <1>1, <1>4, <2>1, AppendProperties DEF SendTraceRequest
  <2>3. Len(traceQ') <= TraceCap
    BY <1>1, <1>4, <2>2, BinFacts DEF SendTraceRequest
  <2> QED
    BY <1>4, <2>1, <2>2, <2>3 DEF TypeOK, SendTraceRequest, programVars, tracerVars
<1>5. ASSUME AllRequestsSent \/ CheckSenders \/ RecvTimeout \/ StopMarking \/ FinishTraceOne
      PROVE  TypeOK'
  <2>1. cpc' \in CollectorPc
    BY <1>5 DEF AllRequestsSent, CheckSenders, RecvTimeout, StopMarking, FinishTraceOne,
                CollectorPc
  <2>2. UNCHANGED <<content, live, rooted, atStart, bin, at, found, nextBin, sends,
                    marked, traceQ, markQ>>
    BY <1>5 DEF AllRequestsSent, CheckSenders, RecvTimeout, StopMarking, FinishTraceOne,
                programVars, tracerVars
  <2> QED
    BY <2>1, <2>2 DEF TypeOK
<1>6. ASSUME ReceiveMark PROVE TypeOK'
  <2>1. /\ Head(markQ) \in Objects
        /\ markQ' \in Seq(Objects)
        /\ Len(markQ') = Len(markQ) - 1
    BY <1>1, <1>6, ItemsOfTail DEF ReceiveMark
  <2>2. Len(markQ') <= MarkCap
    BY <1>1, <2>1, BinFacts DEF TypeOK
  <2>3. content[Head(markQ)].traced \in Seq(Objects)
    BY <2>1 DEF TypeOK, Content
  <2>4. sends' \in Seq(Objects) /\ cpc' \in CollectorPc
    BY <1>1, <1>6, <2>3 DEF ReceiveMark, CollectorPc
  <2>5. marked' \in SUBSET Objects
    BY <1>6, <2>1 DEF ReceiveMark, TypeOK
  <2> QED
    BY <1>6, <2>1, <2>2, <2>4, <2>5 DEF TypeOK, ReceiveMark, programVars, tracerVars
<1>7. ASSUME SendTraced PROVE TypeOK'
  <2>1. Head(sends) \in Objects /\ sends' \in Seq(Objects)
    BY <1>1, <1>7, ItemsOfTail DEF SendTraced
  <2>2. markQ' \in Seq(Objects) /\ Len(markQ') = Len(markQ) + 1
    BY <1>1, <1>7, <2>1, AppendProperties DEF SendTraced
  <2>3. Len(markQ') <= MarkCap
    BY <1>1, <1>7, <2>2, BinFacts DEF SendTraced
  <2> QED
    BY <1>7, <2>1, <2>2, <2>3 DEF TypeOK, SendTraced, programVars, tracerVars
<1>8. ASSUME Sweep PROVE TypeOK'
  <2>1. live' \in SUBSET Objects /\ cpc' \in CollectorPc
    BY <1>8 DEF Sweep, TypeOK, CollectorPc
  <2> QED
    BY <1>8, <2>1 DEF TypeOK, Sweep, tracerVars
<1> QED
  BY <1>3, <1>4, <1>5, <1>6, <1>7, <1>8 DEF CollectorStep

LEMMA NextTypes == TypeOK /\ FoundOK /\ [Next]_vars => TypeOK' /\ FoundOK'
PROOF
<1> SUFFICES ASSUME TypeOK, FoundOK, [Next]_vars PROVE TypeOK' /\ FoundOK'
  OBVIOUS
<1>1. CASE UNCHANGED vars
  BY <1>1 DEF TypeOK, FoundOK, vars, programVars, tracerVars, collectorVars
<1> QED
  BY <1>1, TracerTypes, CollectorTypes DEF Next, Terminated

\* The type invariant, for every heap, any number of tracers and any capacities.
THEOREM TypeCorrect == Spec => []TypeOK
PROOF
<1>1. Init => TypeOK /\ FoundOK
  BY InitTypes DEF Init, FoundOK
<1>2. TypeOK /\ FoundOK /\ [Next]_vars => (TypeOK /\ FoundOK)'
  BY NextTypes
<1> QED
  BY <1>1, <1>2, PTL DEF Spec

-----------------------------------------------------------------------------
(* The end of marking: the count of the senders.                           *)

\* The contents are those of their Bins, no Root is added, and what is marked
\* was allocated.
HeapOK ==
    /\ \A o \in Objects : content[o] \in ValuesOf[BinOf[o]]
    /\ rooted \subseteq atStart
    /\ marked \subseteq live

\* All requests are sent before the collector looks at the count, it looks only
\* when it has nothing left to send itself, and once it has been the only owner
\* of a sender there is no request and no tracer at work any more.
Quiet ==
    /\ cpc # "send" => nextBin > NumBins
    /\ cpc # "trace" => sends = <<>>
    /\ cpc \in {"try", "sweep", "done"} =>
        /\ traceQ = <<>>
        /\ markQ = <<>>
        /\ \A t \in Tracers : bin[t] = Idle

LEMMA InitHeapQuiet == Init => HeapOK /\ Quiet
PROOF
  BY DEF Init, HeapOK, Quiet

LEMMA NextHeapOK == TypeOK /\ HeapOK /\ [Next]_vars => HeapOK'
PROOF
<1> SUFFICES ASSUME TypeOK, HeapOK, [Next]_vars PROVE HeapOK'
  OBVIOUS
<1>1. ASSUME NEW o \in Objects, DropRoot(o) PROVE HeapOK'
  BY <1>1 DEF HeapOK, DropRoot, collectorVars
<1>2. ASSUME NEW t \in Tracers, TracerStep(t) PROVE HeapOK'
  BY <1>2 DEF HeapOK, TracerStep, TakeTraceRequest, ScanSlot, SendRooted, FinishTrace,
              programVars, collectorVars
<1>3. ASSUME SendTraceRequest \/ AllRequestsSent \/ CheckSenders \/ RecvTimeout
             \/ StopMarking \/ SendTraced \/ FinishTraceOne
      PROVE  HeapOK'
  BY <1>3 DEF HeapOK, SendTraceRequest, AllRequestsSent, CheckSenders, RecvTimeout,
              StopMarking, SendTraced, FinishTraceOne, programVars
<1>4. ASSUME ReceiveMark PROVE HeapOK'
  BY <1>4 DEF HeapOK, ReceiveMark, programVars
<1>5. ASSUME Sweep PROVE HeapOK'
  BY <1>5 DEF HeapOK, Sweep
<1>6. CASE UNCHANGED vars
  BY <1>6 DEF HeapOK, vars, programVars, collectorVars
<1> QED
  BY <1>1, <1>2, <1>3, <1>4, <1>5, <1>6 DEF Next, CollectorStep, Terminated

\* The collector has the only sender: nothing is left to do.
LEMMA LastSender ==
    ASSUME TypeOK, StrongCount = 1
    PROVE  traceQ = <<>> /\ markQ = <<>> /\ \A t \in Tracers : bin[t] = Idle
PROOF
<1> DEFINE Busy == {t \in Tracers : bin[t] # Idle}
<1>1. IsFiniteSet(Busy)
  BY MarkPhaseConstants, FS_Subset
<1>2. Cardinality(Busy) \in Nat /\ (Cardinality(Busy) = 0 <=> Busy = {})
  BY <1>1, FS_CardinalityType, FS_EmptySet
<1>3. /\ Len(traceQ) \in Nat /\ (Len(traceQ) = 0 <=> traceQ = <<>>)
      /\ Len(markQ) \in Nat /\ (Len(markQ) = 0 <=> markQ = <<>>)
  BY ItemsOfEmpty DEF TypeOK
<1>4. 1 + Len(traceQ) + Cardinality(Busy) + Len(markQ) = 1
  BY DEF StrongCount
<1> HIDE DEF Busy
<1>5. Len(traceQ) = 0 /\ Cardinality(Busy) = 0 /\ Len(markQ) = 0
  BY <1>2, <1>3, <1>4
<1>6. Busy = {}
  BY <1>2, <1>5
<1> QED
  BY <1>3, <1>5, <1>6 DEF Busy

LEMMA NextQuiet == TypeOK /\ FoundOK /\ Quiet /\ [Next]_vars => Quiet'
PROOF
<1> SUFFICES ASSUME TypeOK, FoundOK, Quiet, [Next]_vars PROVE Quiet'
  OBVIOUS
<1>1. NumBins \in Nat /\ nextBin \in Nat /\ Idle \notin Bins
  BY BinFacts DEF TypeOK
<1>2. ASSUME NEW o \in Objects, DropRoot(o) PROVE Quiet'
  BY <1>2 DEF Quiet, DropRoot, collectorVars, tracerVars
<1>3. ASSUME NEW t \in Tracers, TracerStep(t) PROVE Quiet'
  <2>1. UNCHANGED <<nextBin, cpc, sends>>
    BY <1>3 DEF TracerStep, TakeTraceRequest, ScanSlot, SendRooted, FinishTrace,
                collectorVars
  <2>2. ASSUME cpc \in {"try", "sweep", "done"} PROVE FALSE
    <3>1. traceQ = <<>> /\ bin[t] = Idle /\ ~found[t]
      BY <2>2, <1>1 DEF Quiet, FoundOK
    <3> QED
      BY <1>3, <3>1 DEF TracerStep, TakeTraceRequest, ScanSlot, SendRooted, FinishTrace
  <2> QED
    BY <2>1, <2>2 DEF Quiet
<1>4. ASSUME SendTraceRequest PROVE Quiet'
  BY <1>4 DEF Quiet, SendTraceRequest
<1>5. ASSUME AllRequestsSent PROVE Quiet'
  BY <1>5 DEF Quiet, AllRequestsSent
<1>6. ASSUME CheckSenders PROVE Quiet'
  BY <1>6, LastSender DEF Quiet, CheckSenders, tracerVars
<1>7. ASSUME RecvTimeout PROVE Quiet'
  BY <1>7 DEF Quiet, RecvTimeout
<1>8. ASSUME StopMarking PROVE Quiet'
  BY <1>8 DEF Quiet, StopMarking, tracerVars
<1>9. ASSUME ReceiveMark PROVE Quiet'
  BY <1>9 DEF Quiet, ReceiveMark
<1>10. ASSUME SendTraced PROVE Quiet'
  BY <1>10 DEF Quiet, SendTraced
<1>11. ASSUME FinishTraceOne PROVE Quiet'
  BY <1>11 DEF Quiet, FinishTraceOne
<1>12. ASSUME Sweep PROVE Quiet'
  BY <1>12 DEF Quiet, Sweep, tracerVars
<1>13. CASE UNCHANGED vars
  BY <1>13 DEF Quiet, vars, tracerVars, collectorVars
<1> QED
  BY <1>2, <1>3, <1>4, <1>5, <1>6, <1>7, <1>8, <1>9, <1>10, <1>11, <1>12, <1>13
  DEF Next, CollectorStep, Terminated

-----------------------------------------------------------------------------
(* Completeness: nothing that a Root reaches is forgotten.                 *)

\* A mark request for the value is handled or under way.
Seen(o) == o \in marked \/ o \in Items(markQ)

\* A tracer is still to come to the slot of the value.
Pending(o) ==
    \/ nextBin <= BinOf[o]
    \/ BinOf[o] \in Items(traceQ)
    \/ \E t \in Tracers :
        /\ bin[t] = BinOf[o]
        /\ \E i \in 1..Len(Slots[BinOf[o]]) : i >= at[t] /\ Slots[BinOf[o]][i] = o

RootsSeen == \A o \in rooted \cap live : Seen(o) \/ Pending(o)

\* The Refs of a marked value have been sent, except the ones that the collector
\* is about to send.
RefsSeen ==
    \A o \in marked : \A q \in content[o].refs \cap live :
        Seen(q) \/ q \in Items(sends)

LEMMA InitSeen == Init => RootsSeen /\ RefsSeen
PROOF
<1> SUFFICES ASSUME Init PROVE RootsSeen /\ RefsSeen
  OBVIOUS
<1>1. ASSUME NEW o \in rooted \cap live PROVE nextBin <= BinOf[o]
  BY BinFacts DEF Init, Bins
<1> QED
  BY <1>1 DEF Init, RootsSeen, RefsSeen, Pending

\* A step of a tracer loses no root: it finds each one in the slots it passes.
LEMMA TracerSeesRoots ==
    ASSUME TypeOK, FoundOK, RootsSeen, NEW t \in Tracers, TracerStep(t)
    PROVE  RootsSeen'
PROOF
<1> SUFFICES ASSUME NEW o \in rooted' \cap live' PROVE (Seen(o) \/ Pending(o))'
  BY DEF RootsSeen
<1>1. /\ bin \in [Tracers -> Bins \cup {Idle}] /\ at \in [Tracers -> Nat \ {0}]
      /\ markQ \in Seq(Objects) /\ traceQ \in Seq(Bins)
      /\ o \in Objects /\ BinOf[o] \in Bins /\ Idle \notin Bins
      /\ Len(Slots[BinOf[o]]) \in Nat
  BY BinFacts DEF TypeOK, TracerStep, TakeTraceRequest, ScanSlot, SendRooted,
                  FinishTrace, programVars
<1>2. UNCHANGED <<live, rooted, nextBin, marked>>
  BY DEF TracerStep, TakeTraceRequest, ScanSlot, SendRooted, FinishTrace, programVars,
         collectorVars
<1>3. Seen(o) \/ Pending(o)
  BY <1>2 DEF RootsSeen
<1>4. CASE nextBin <= BinOf[o]
  BY <1>2, <1>4 DEF Pending
<1>5. ASSUME Items(markQ) \subseteq Items(markQ') PROVE Seen(o) => Seen(o)'
  BY <1>2, <1>5 DEF Seen
<1> DEFINE At(u, i) == bin[u] = BinOf[o] /\ i >= at[u] /\ Slots[BinOf[o]][i] = o
<1>6. CASE TakeTraceRequest(t)
  <2>1. markQ' = markQ /\ bin[t] = Idle
    BY <1>6 DEF TakeTraceRequest
  <2>2. CASE Seen(o)
    BY <1>5, <2>1, <2>2
  <2>3. CASE BinOf[o] \in Items(traceQ)
    <3>1. BinOf[o] \in Items(traceQ') \/ BinOf[o] = Head(traceQ)
      BY <1>1, <1>6, <2>3, ItemsOfTail DEF TakeTraceRequest
    <3>2. CASE BinOf[o] = Head(traceQ)
      <4>1. bin'[t] = BinOf[o] /\ at'[t] = 1
        BY <1>1, <1>6, <3>2 DEF TakeTraceRequest
      <4>2. PICK i \in 1..Len(Slots[BinOf[o]]) : Slots[BinOf[o]][i] = o
        BY <1>1, MarkPhaseConstants
      <4>3. i >= at'[t]
        BY <1>1, <4>1, <4>2
      <4> QED
        BY <4>1, <4>2, <4>3 DEF Pending
    <3> QED
      BY <3>1, <3>2 DEF Pending
  <2>4. ASSUME NEW u \in Tracers, NEW i \in 1..Len(Slots[BinOf[o]]), At(u, i)
        PROVE  Pending(o)'
    <3>1. u # t
      BY <1>1, <2>1, <2>4
    <3>2. bin'[u] = bin[u] /\ at'[u] = at[u]
      BY <1>1, <1>6, <3>1 DEF TakeTraceRequest
    <3> QED
      BY <2>4, <3>2 DEF Pending
  <2> QED
    BY <1>3, <1>4, <2>2, <2>3, <2>4 DEF Pending
<1>7. CASE ScanSlot(t)
  <2>1. UNCHANGED <<markQ, traceQ, bin>>
    BY <1>7 DEF ScanSlot
  <2>2. CASE Seen(o)
    BY <1>5, <2>1, <2>2
  <2>3. CASE BinOf[o] \in Items(traceQ)
    BY <2>1, <2>3 DEF Pending
  <2>4. ASSUME NEW u \in Tracers, NEW i \in 1..Len(Slots[BinOf[o]]), At(u, i)
        PROVE  Pending(o)'
    <3>1. CASE at' = at
      BY <2>1, <2>4, <3>1 DEF Pending
    <3>2. CASE at' # at
      <4>1. /\ at' = [at EXCEPT ![t] = @ + 1]
            /\ Slots[bin[t]][at[t]] \notin live \cap rooted
        BY <1>7, <3>2 DEF ScanSlot
      <4>2. u = t => i # at[t]
        BY <1>2, <2>4, <4>1
      <4>3. i >= at'[u]
        BY <1>1, <2>4, <4>1, <4>2
      <4> QED
        BY <2>1, <2>4, <4>3 DEF Pending
    <3> QED
      BY <3>1, <3>2
  <2> QED
    BY <1>3, <1>4, <2>2, <2>3, <2>4 DEF Pending
<1>8. CASE SendRooted(t)
  <2>1. UNCHANGED <<traceQ, bin>> /\ at' = [at EXCEPT ![t] = @ + 1]
    BY <1>8 DEF SendRooted
  <2>2. Slots[bin[t]][at[t]] \in Objects
    BY <1>8, BinFacts DEF FoundOK, SendRooted
  <2>3. Items(markQ') = Items(markQ) \cup {Slots[bin[t]][at[t]]}
    BY <1>1, <1>8, <2>2, ItemsOfAppend DEF SendRooted
  <2>4. CASE Seen(o)
    BY <1>5, <2>3, <2>4
  <2>5. CASE BinOf[o] \in Items(traceQ)
    BY <2>1, <2>5 DEF Pending
  <2>6. ASSUME NEW u \in Tracers, NEW i \in 1..Len(Slots[BinOf[o]]), At(u, i)
        PROVE  (Seen(o) \/ Pending(o))'
    <3>1. CASE u = t /\ i = at[t]
      BY <2>3, <2>6, <3>1 DEF Seen
    <3>2. CASE ~(u = t /\ i = at[t])
      <4>1. i >= at'[u]
        BY <1>1, <2>1, <2>6, <3>2
      <4> QED
        BY <2>1, <2>6, <4>1 DEF Pending
    <3> QED
      BY <3>1, <3>2
  <2> QED
    BY <1>3, <1>4, <2>4, <2>5, <2>6 DEF Pending
<1>9. CASE FinishTrace(t)
  <2>1. UNCHANGED <<markQ, traceQ, at>>
    BY <1>9 DEF FinishTrace
  <2>2. CASE Seen(o)
    BY <1>5, <2>1, <2>2
  <2>3. CASE BinOf[o] \in Items(traceQ)
    BY <2>1, <2>3 DEF Pending
  <2>4. ASSUME NEW u \in Tracers, NEW i \in 1..Len(Slots[BinOf[o]]), At(u, i)
        PROVE  Pending(o)'
    <3>1. u # t
      BY <1>1, <1>9, <2>4 DEF FinishTrace
    <3>2. bin'[u] = bin[u]
      BY <1>1, <1>9, <3>1 DEF FinishTrace
    <3> QED
      BY <2>1, <2>4, <3>2 DEF Pending
  <2> QED
    BY <1>3, <1>4, <2>2, <2>3, <2>4 DEF Pending
<1> QED
  BY <1>6, <1>7, <1>8, <1>9 DEF TracerStep

\* What the collector receives it has seen; and the requests for a value that is
\* not live are of no use.
LEMMA ReceiveSees ==
    ASSUME TypeOK, ReceiveMark, NEW o \in live, Seen(o)
    PROVE  Seen(o)'
PROOF
<1>1. Items(markQ) = Items(markQ') \cup {Head(markQ)}
  BY ItemsOfTail DEF TypeOK, ReceiveMark
<1>2. marked \subseteq marked' /\ (Head(markQ) \in live => Head(markQ) \in marked')
  BY DEF ReceiveMark
<1> QED
  BY <1>1, <1>2 DEF Seen

\* Everything else that the collector does leaves what is seen as it is.
LEMMA CollectorSees ==
    ASSUME TypeOK, CollectorStep
    PROVE  /\ live' \subseteq live
           /\ content' = content /\ rooted' = rooted
           /\ \A o \in live : Seen(o) => Seen(o)'
PROOF
<1>1. CASE ReceiveMark
  BY <1>1, ReceiveSees DEF ReceiveMark, programVars
<1>2. CASE SendTraced
  <2>1. Items(markQ') = Items(markQ) \cup {Head(sends)}
    BY <1>2, ItemsOfTail, ItemsOfAppend DEF TypeOK, SendTraced
  <2> QED
    BY <1>2, <2>1 DEF SendTraced, Seen, programVars
<1>3. CASE Sweep
  BY <1>3 DEF Sweep, Seen
<1>4. CASE SendTraceRequest \/ AllRequestsSent \/ CheckSenders \/ RecvTimeout
           \/ StopMarking \/ FinishTraceOne
  BY <1>4 DEF SendTraceRequest, AllRequestsSent, CheckSenders, RecvTimeout,
              StopMarking, FinishTraceOne, Seen, programVars
<1> QED
  BY <1>1, <1>2, <1>3, <1>4 DEF CollectorStep

\* No step of the collector takes a Bin out of its way to the tracers.
LEMMA CollectorKeepsPending ==
    ASSUME TypeOK, CollectorStep, NEW o \in Objects, Pending(o)
    PROVE  Pending(o)'
PROOF
<1>1. CASE SendTraceRequest
  <2>1. /\ nextBin \in Bins /\ nextBin \in Nat /\ BinOf[o] \in Nat
        /\ traceQ \in Seq(Bins)
    BY <1>1, BinFacts DEF TypeOK, SendTraceRequest, Bins
  <2>2. Items(traceQ') = Items(traceQ) \cup {nextBin} /\ nextBin' = nextBin + 1
    BY <1>1, <2>1, ItemsOfAppend DEF SendTraceRequest
  <2>3. UNCHANGED <<bin, at>>
    BY <1>1 DEF SendTraceRequest, tracerVars
  <2>4. CASE nextBin <= BinOf[o]
    <3>1. BinOf[o] = nextBin \/ nextBin + 1 <= BinOf[o]
      BY <2>1, <2>4
    <3> QED
      BY <2>2, <3>1 DEF Pending
  <2>5. CASE ~(nextBin <= BinOf[o])
    BY <2>2, <2>3, <2>5 DEF Pending
  <2> QED
    BY <2>4, <2>5
<1>2. CASE ~SendTraceRequest
  <2>1. UNCHANGED <<nextBin, traceQ, bin, at>>
    BY <1>2 DEF CollectorStep, AllRequestsSent, CheckSenders, RecvTimeout, StopMarking,
                ReceiveMark, SendTraced, FinishTraceOne, Sweep, tracerVars
  <2> QED
    BY <2>1 DEF Pending
<1> QED
  BY <1>1, <1>2

LEMMA NextRootsSeen == TypeOK /\ FoundOK /\ RootsSeen /\ [Next]_vars => RootsSeen'
PROOF
<1> SUFFICES ASSUME TypeOK, FoundOK, RootsSeen, [Next]_vars PROVE RootsSeen'
  OBVIOUS
<1>1. ASSUME NEW o \in Objects, DropRoot(o) PROVE RootsSeen'
  BY <1>1 DEF DropRoot, RootsSeen, Seen, Pending, tracerVars, collectorVars
<1>2. ASSUME CollectorStep PROVE RootsSeen'
  BY <1>2, CollectorSees, CollectorKeepsPending DEF RootsSeen, TypeOK
<1>3. CASE UNCHANGED vars
  BY <1>3 DEF RootsSeen, Seen, Pending, vars, programVars, tracerVars, collectorVars
<1> QED
  BY <1>1, <1>2, <1>3, TracerSeesRoots DEF Next, Terminated

\* What Trace::trace sends of a value is all that the value refers to.
LEMMA TracedIsRefs ==
    ASSUME TraceContract, TypeOK, HeapOK, NEW o \in Objects
    PROVE  /\ content[o].refs \subseteq Objects
           /\ content[o].traced \in Seq(Objects)
           /\ Items(content[o].traced) = content[o].refs
           /\ ~MayContain[BinOf[o]] => content[o].refs = {}
PROOF
<1>1. content[o] \in ValuesOf[BinOf[o]]
  BY DEF HeapOK
<1>2. content[o] \in Content
  BY DEF TypeOK
<1> QED
  BY <1>1, <1>2 DEF TraceContract, Items, Content

LEMMA NextRefsSeen ==
    TraceContract /\ TypeOK /\ FoundOK /\ HeapOK /\ Quiet /\ RefsSeen /\ [Next]_vars
        => RefsSeen'
PROOF
<1> SUFFICES ASSUME TraceContract, TypeOK, FoundOK, HeapOK, Quiet, RefsSeen, [Next]_vars
             PROVE  RefsSeen'
  OBVIOUS
<1>1. ASSUME NEW o \in Objects, DropRoot(o) PROVE RefsSeen'
  BY <1>1 DEF DropRoot, RefsSeen, Seen, collectorVars
<1>2. ASSUME NEW t \in Tracers, TracerStep(t) PROVE RefsSeen'
  <2>1. UNCHANGED <<content, live, sends, marked>>
    BY <1>2 DEF TracerStep, TakeTraceRequest, ScanSlot, SendRooted, FinishTrace,
                programVars, collectorVars
  <2>2. Items(markQ) \subseteq Items(markQ')
    <3>1. CASE SendRooted(t)
      <4>1. Slots[bin[t]][at[t]] \in Objects
        BY <1>2, <3>1, BinFacts DEF FoundOK, SendRooted
      <4> QED
        BY <3>1, <4>1, ItemsOfAppend DEF SendRooted, TypeOK
    <3>2. CASE ~SendRooted(t)
      BY <1>2, <3>2 DEF TracerStep, TakeTraceRequest, ScanSlot, FinishTrace
    <3> QED
      BY <3>1, <3>2
  <2> QED
    BY <2>1, <2>2 DEF RefsSeen, Seen
<1>3. ASSUME ReceiveMark PROVE RefsSeen'
  <2>1. /\ sends = <<>> /\ Items(sends) = {}
        /\ UNCHANGED <<content, live>>
    BY <1>3, ItemsOfEmpty DEF Quiet, TypeOK, ReceiveMark, programVars
  <2>2. ASSUME NEW o \in marked, NEW q \in content[o].refs \cap live PROVE Seen(q)'
    BY <1>3, <2>1, <2>2, ReceiveSees DEF RefsSeen
  <2>3. ASSUME NEW o \in marked', o \notin marked,
               NEW q \in content[o].refs \cap live
        PROVE  q \in Items(sends')
    <3>1. o = Head(markQ) /\ o \in live \ marked /\ o \in Objects
      BY <1>3, <2>3 DEF ReceiveMark, TypeOK
    <3>2. MayContain[BinOf[o]]
      BY <2>3, <3>1, TracedIsRefs
    <3>3. sends' = content[o].traced
      BY <1>3, <3>1, <3>2 DEF ReceiveMark
    <3> QED
      BY <2>3, <3>1, <3>3, TracedIsRefs
  <2> QED
    BY <2>1, <2>2, <2>3 DEF RefsSeen
<1>4. ASSUME SendTraced PROVE RefsSeen'
  <2>1. /\ Items(sends) = Items(sends') \cup {Head(sends)}
        /\ Items(markQ') = Items(markQ) \cup {Head(sends)}
    BY <1>4, ItemsOfTail, ItemsOfAppend DEF TypeOK, SendTraced
  <2> QED
    BY <1>4, <2>1 DEF RefsSeen, Seen, SendTraced, programVars
<1>5. ASSUME CollectorStep, ~ReceiveMark, ~SendTraced PROVE RefsSeen'
  <2>1. UNCHANGED <<content, sends, marked, markQ>> /\ live' \subseteq live
    BY <1>5 DEF CollectorStep, SendTraceRequest, AllRequestsSent, CheckSenders,
                RecvTimeout, StopMarking, FinishTraceOne, Sweep, programVars
  <2> QED
    BY <2>1 DEF RefsSeen, Seen
<1>6. CASE UNCHANGED vars
  BY <1>6 DEF RefsSeen, Seen, vars, programVars, collectorVars
<1> QED
  BY <1>1, <1>2, <1>3, <1>4, <1>5, <1>6 DEF Next, Terminated

\* The invariant of completeness.
CompleteInv == TypeOK /\ FoundOK /\ HeapOK /\ Quiet /\ RootsSeen /\ RefsSeen

LEMMA CompleteInvariant == TraceContract => (Spec => []CompleteInv)
PROOF
<1> SUFFICES ASSUME TraceContract PROVE Spec => []CompleteInv
  OBVIOUS
<1>1. Init => CompleteInv
  <2>1. Init => FoundOK
    BY DEF Init, FoundOK
  <2> QED
    BY <2>1, InitTypes, InitHeapQuiet, InitSeen DEF CompleteInv
<1>2. CompleteInv /\ [Next]_vars => CompleteInv'
  BY NextTypes, NextHeapOK, NextQuiet, NextRootsSeen, NextRefsSeen DEF CompleteInv
<1> QED
  BY <1>1, <1>2, PTL DEF Spec

\* With one owner of a sender left, what is marked is a set of live values that
\* contains the roots and that no Ref leads out of.
LEMMA MarkedIsClosed ==
    ASSUME CompleteInv, cpc \in {"try", "sweep"}
    PROVE  Promise!Closed(marked, rooted)
PROOF
<1>1. /\ traceQ = <<>> /\ markQ = <<>> /\ sends = <<>>
      /\ nextBin > NumBins
      /\ \A t \in Tracers : bin[t] = Idle
  BY DEF CompleteInv, Quiet
<1>2. Items(traceQ) = {} /\ Items(markQ) = {} /\ Items(sends) = {}
  BY <1>1, ItemsOfEmpty DEF CompleteInv, TypeOK
<1>3. ASSUME NEW o \in rooted \cap live PROVE o \in marked
  <2>1. /\ BinOf[o] \in Bins /\ Idle \notin Bins
        /\ NumBins \in Nat /\ nextBin \in Nat
    BY BinFacts DEF CompleteInv, TypeOK
  <2>2. ~Pending(o)
    BY <1>1, <1>2, <2>1 DEF Pending, Bins
  <2> QED
    BY <1>2, <2>2 DEF CompleteInv, RootsSeen, Seen
<1>4. ASSUME NEW o \in marked PROVE content[o].refs \cap live \subseteq marked
  BY <1>2 DEF CompleteInv, RefsSeen, Seen
<1>5. marked \subseteq live /\ live \subseteq Objects
  BY DEF CompleteInv, HeapOK, TypeOK
<1> QED
  BY <1>3, <1>4, <1>5 DEF Promise!Closed

LEMMA MarkedIsComplete == CompleteInv => EndIsComplete
PROOF
<1> SUFFICES ASSUME CompleteInv, cpc \in {"try", "sweep"}
             PROVE  Promise!Reachable(rooted) \subseteq marked
  BY DEF EndIsComplete
<1>1. marked \in SUBSET live
  BY DEF CompleteInv, HeapOK
<1> QED
  BY <1>1, MarkedIsClosed DEF Promise!Reachable

\* For types that keep the contract of Trace: when the collector stops marking,
\* everything that a Root reaches is marked, whatever the tracers did in whatever
\* order and however small the channels are (Collector::collect).
THEOREM MarkingIsComplete == TraceContract => (Spec => []EndIsComplete)
PROOF
  BY CompleteInvariant, MarkedIsComplete, PTL

-----------------------------------------------------------------------------
(* Precision: nothing that no Root reached is marked.                      *)

Reached == Promise!Reachable(atStart)

\* Until the sweep, only values that the first Roots reached are marked or sent;
\* a request for a value that is not live may be sent too.
OnlyReached ==
    cpc # "done" =>
        /\ marked \subseteq Reached
        /\ Items(markQ) \cap live \subseteq Reached
        /\ Items(sends) \cap live \subseteq Reached
        /\ \A t \in Tracers : found[t] => Slots[bin[t]][at[t]] \in Reached

\* What the Roots reach contains their values and what its values refer to.
LEMMA ReachedIsClosed ==
    ASSUME TypeOK
    PROVE  /\ Reached \subseteq live
           /\ atStart \cap live \subseteq Reached
           /\ \A o \in Reached : content[o].refs \cap live \subseteq Reached
PROOF
<1>1. Reached \subseteq live /\ live \subseteq Objects
  BY DEF Reached, Promise!Reachable, TypeOK
<1>2. atStart \cap live \subseteq Reached
  BY DEF Reached, Promise!Reachable, Promise!Closed
<1>3. ASSUME NEW o \in Reached, NEW q \in content[o].refs \cap live PROVE q \in Reached
  <2>1. SUFFICES ASSUME NEW C \in SUBSET live, Promise!Closed(C, atStart)
                 PROVE  q \in C
    BY DEF Reached, Promise!Reachable
  <2>2. o \in C
    BY <2>1 DEF Reached, Promise!Reachable
  <2>3. o \in Objects
    BY <1>1
  <2> QED
    BY <2>1, <2>2, <2>3 DEF Promise!Closed
<1> QED
  BY <1>1, <1>2, <1>3

\* What the first Roots reach is the same until the sweep.
LEMMA ReachedIsConstant ==
    ASSUME UNCHANGED <<content, live, atStart>>
    PROVE  Reached' = Reached
PROOF
  BY DEF Reached, Promise!Reachable, Promise!Closed

LEMMA InitOnlyReached == Init => OnlyReached
PROOF
<1> SUFFICES ASSUME Init PROVE OnlyReached
  OBVIOUS
<1>1. Items(markQ) = {} /\ Items(sends) = {}
  BY ItemsOfEmpty, InitTypes DEF Init, TypeOK
<1> QED
  BY <1>1 DEF Init, OnlyReached

LEMMA NextOnlyReached ==
    TraceContract /\ TypeOK /\ FoundOK /\ HeapOK /\ OnlyReached /\ [Next]_vars
        => OnlyReached'
PROOF
<1> SUFFICES ASSUME TraceContract, TypeOK, FoundOK, HeapOK, OnlyReached, [Next]_vars,
                    cpc' # "done"
             PROVE  OnlyReached'
  BY DEF OnlyReached
<1>1. cpc # "done" /\ UNCHANGED <<content, live, atStart>>
  BY DEF Next, DropRoot, TracerStep, TakeTraceRequest, ScanSlot, SendRooted,
         FinishTrace, CollectorStep, SendTraceRequest, AllRequestsSent, CheckSenders,
         RecvTimeout, StopMarking, ReceiveMark, SendTraced, FinishTraceOne, Sweep,
         Terminated, vars, programVars, collectorVars
<1>2. Reached' = Reached
  BY <1>1, ReachedIsConstant
<1>3. /\ marked \subseteq Reached
      /\ Items(markQ) \cap live \subseteq Reached
      /\ Items(sends) \cap live \subseteq Reached
      /\ \A t \in Tracers : found[t] => Slots[bin[t]][at[t]] \in Reached
  BY <1>1 DEF OnlyReached
<1>4. SUFFICES /\ marked' \subseteq Reached
               /\ Items(markQ') \cap live \subseteq Reached
               /\ Items(sends') \cap live \subseteq Reached
               /\ \A t \in Tracers : found'[t] => Slots[bin'[t]][at'[t]] \in Reached
  BY <1>1, <1>2 DEF OnlyReached
<1> DEFINE Goal ==
      /\ marked' \subseteq Reached
      /\ Items(markQ') \cap live \subseteq Reached
      /\ Items(sends') \cap live \subseteq Reached
      /\ \A t \in Tracers : found'[t] => Slots[bin'[t]][at'[t]] \in Reached
<1>5. ASSUME NEW o \in Objects, DropRoot(o) PROVE Goal
  BY <1>3, <1>5 DEF DropRoot, tracerVars, collectorVars
<1>6. ASSUME NEW t \in Tracers, TracerStep(t) PROVE Goal
  <2>1. /\ bin \in [Tracers -> Bins \cup {Idle}] /\ at \in [Tracers -> Nat \ {0}]
        /\ found \in [Tracers -> BOOLEAN] /\ Idle \notin Bins
    BY BinFacts DEF TypeOK
  <2>2. marked' = marked /\ sends' = sends
    BY <1>6 DEF TracerStep, TakeTraceRequest, ScanSlot, SendRooted, FinishTrace,
                collectorVars
  <2>3. CASE TakeTraceRequest(t)
    <3>1. ~found[t] /\ UNCHANGED <<found, markQ>>
      BY <2>1, <2>3 DEF FoundOK, TakeTraceRequest
    <3>2. ASSUME NEW u \in Tracers, found'[u] PROVE bin'[u] = bin[u] /\ at'[u] = at[u]
      BY <2>1, <2>3, <3>1, <3>2 DEF TakeTraceRequest
    <3> QED
      BY <1>3, <2>2, <3>1, <3>2
  <2>4. CASE ScanSlot(t)
    <3>1. UNCHANGED <<markQ, bin>> /\ ~found[t]
      BY <2>4 DEF ScanSlot
    <3>2. CASE Slots[bin[t]][at[t]] \in live \cap rooted
      <4>1. Slots[bin[t]][at[t]] \in Reached
        BY <3>2, ReachedIsClosed DEF HeapOK
      <4>2. found' = [found EXCEPT ![t] = TRUE] /\ at' = at
        BY <2>4, <3>2 DEF ScanSlot
      <4> QED
        BY <1>3, <2>1, <2>2, <3>1, <4>1, <4>2
    <3>3. CASE Slots[bin[t]][at[t]] \notin live \cap rooted
      <4>1. found' = found /\ at' = [at EXCEPT ![t] = @ + 1]
        BY <2>4, <3>3 DEF ScanSlot
      <4>2. ASSUME NEW u \in Tracers, found'[u] PROVE at'[u] = at[u]
        BY <2>1, <3>1, <4>1, <4>2
      <4> QED
        BY <1>3, <2>2, <3>1, <4>1, <4>2
    <3> QED
      BY <3>2, <3>3
  <2>5. CASE SendRooted(t)
    <3>1. Slots[bin[t]][at[t]] \in Objects
      BY <2>5, BinFacts DEF FoundOK, SendRooted
    <3>2. Items(markQ') = Items(markQ) \cup {Slots[bin[t]][at[t]]}
      BY <2>5, <3>1, ItemsOfAppend DEF SendRooted, TypeOK
    <3>3. /\ Slots[bin[t]][at[t]] \in Reached
          /\ found' = [found EXCEPT ![t] = FALSE]
          /\ at' = [at EXCEPT ![t] = @ + 1]
          /\ bin' = bin
      BY <1>3, <2>5 DEF SendRooted
    <3>4. ASSUME NEW u \in Tracers, found'[u] PROVE found[u] /\ at'[u] = at[u]
      BY <2>1, <3>3, <3>4
    <3> QED
      BY <1>3, <2>2, <3>2, <3>3, <3>4
  <2>6. CASE FinishTrace(t)
    <3>1. UNCHANGED <<at, found, markQ>> /\ ~found[t]
      BY <2>6 DEF FinishTrace
    <3>2. ASSUME NEW u \in Tracers, found'[u] PROVE bin'[u] = bin[u]
      BY <2>1, <2>6, <3>1, <3>2 DEF FinishTrace
    <3> QED
      BY <1>3, <2>2, <3>1, <3>2
  <2> QED
    BY <1>6, <2>3, <2>4, <2>5, <2>6 DEF TracerStep
<1>7. ASSUME ReceiveMark PROVE Goal
  <2>1. /\ Items(markQ) = Items(markQ') \cup {Head(markQ)}
        /\ Head(markQ) \in Objects
        /\ UNCHANGED <<bin, at, found>>
    BY <1>7, ItemsOfTail DEF ReceiveMark, TypeOK, tracerVars
  <2>2. marked' \subseteq Reached
    BY <1>3, <1>7, <2>1 DEF ReceiveMark
  <2>3. Items(sends') \cap live \subseteq Reached
    <3>1. CASE sends' = sends
      BY <1>3, <3>1
    <3>2. CASE sends' # sends
      <4>1. Head(markQ) \in live /\ sends' = content[Head(markQ)].traced
        BY <1>7, <3>2 DEF ReceiveMark
      <4>2. Head(markQ) \in Reached
        BY <1>3, <2>1, <4>1
      <4>3. Items(sends') = content[Head(markQ)].refs
        BY <2>1, <4>1, TracedIsRefs
      <4> QED
        BY <4>2, <4>3, ReachedIsClosed
    <3> QED
      BY <3>1, <3>2
  <2> QED
    BY <1>3, <2>1, <2>2, <2>3
<1>8. ASSUME SendTraced PROVE Goal
  <2>1. /\ Items(sends) = Items(sends') \cup {Head(sends)}
        /\ Items(markQ') = Items(markQ) \cup {Head(sends)}
    BY <1>8, ItemsOfTail, ItemsOfAppend DEF TypeOK, SendTraced
  <2> QED
    BY <1>3, <1>8, <2>1 DEF SendTraced, tracerVars
<1>9. ASSUME CollectorStep, ~ReceiveMark, ~SendTraced PROVE Goal
  <2>1. UNCHANGED <<marked, sends, markQ, bin, at, found>>
    BY <1>9 DEF CollectorStep, SendTraceRequest, AllRequestsSent, CheckSenders,
                RecvTimeout, StopMarking, FinishTraceOne, Sweep, tracerVars
  <2> QED
    BY <1>3, <2>1
<1>10. CASE UNCHANGED vars
  BY <1>3, <1>10 DEF vars, tracerVars, collectorVars
<1> QED
  BY <1>5, <1>6, <1>7, <1>8, <1>9, <1>10 DEF Next, Terminated

-----------------------------------------------------------------------------
(* The phase implements Collection.                                        *)

LEMMA InitImplements == Init => Promise!Init
PROOF
<1> SUFFICES ASSUME Init PROVE Promise!Init
  OBVIOUS
<1>1. ASSUME NEW o \in Objects PROVE content[o].refs \in SUBSET Objects
  BY InitTypes DEF TypeOK, Content
<1> QED
  BY <1>1 DEF Init, Promise!Init

\* Only the sweep and the program do what Collection sees.
LEMMA NextImplements ==
    ASSUME CompleteInv, OnlyReached, [Next]_vars
    PROVE  [Promise!Next]_Promise!collectionVars
PROOF
<1>1. ASSUME NEW o \in Objects, DropRoot(o) PROVE Promise!DropRoot(o)
  BY <1>1 DEF DropRoot, collectorVars, Promise!DropRoot
<1>2. ASSUME Sweep PROVE Promise!Collect
  <2>1. live' = marked /\ marked \subseteq live
    BY <1>2 DEF CompleteInv, HeapOK, Sweep
  <2>2. Promise!Reachable(rooted) \subseteq marked
    BY <1>2, MarkedIsComplete DEF EndIsComplete, Sweep
  <2>3. marked \subseteq Promise!Reachable(atStart)
    BY <1>2 DEF OnlyReached, Reached, Sweep
  <2> QED
    BY <1>2, <2>1, <2>2, <2>3 DEF Sweep, Promise!Collect
<1>3. ASSUME NEW t \in Tracers, TracerStep(t) PROVE UNCHANGED Promise!collectionVars
  BY <1>3 DEF TracerStep, TakeTraceRequest, ScanSlot, SendRooted, FinishTrace,
              programVars, collectorVars, Promise!collectionVars
<1>4. ASSUME CollectorStep, ~Sweep PROVE UNCHANGED Promise!collectionVars
  BY <1>4 DEF CollectorStep, SendTraceRequest, AllRequestsSent, CheckSenders,
              RecvTimeout, StopMarking, ReceiveMark, SendTraced, FinishTraceOne,
              programVars, Promise!collectionVars
<1>5. CASE UNCHANGED vars
  BY <1>5 DEF vars, programVars, collectorVars, Promise!collectionVars
<1> QED
  BY <1>1, <1>2, <1>3, <1>4, <1>5 DEF Next, Terminated, Promise!Next

\* For types that keep the contract of Trace, the collector and its tracers
\* together do what Collection promises: the sweep frees every value that no Root
\* reached when the phase began, and none that one still reaches.
THEOREM MarkingImplementsCollection == TraceContract => (Spec => ImplementsCollection)
PROOF
<1> SUFFICES ASSUME TraceContract PROVE Spec => ImplementsCollection
  OBVIOUS
<1>1. Spec => []CompleteInv
  BY CompleteInvariant
<1>2. Spec => []OnlyReached
  <2>1. Init => OnlyReached
    BY InitOnlyReached
  <2>2. CompleteInv /\ OnlyReached /\ [Next]_vars => OnlyReached'
    BY NextOnlyReached DEF CompleteInv
  <2> QED
    BY <1>1, <2>1, <2>2, PTL DEF Spec
<1>3. Init => Promise!Init
  BY InitImplements
<1>4. CompleteInv /\ OnlyReached /\ [Next]_vars
          => [Promise!Next]_Promise!collectionVars
  BY NextImplements
<1> QED
  BY <1>1, <1>2, <1>3, <1>4, PTL DEF Spec, Promise!Spec, ImplementsCollection

===============================================================================
