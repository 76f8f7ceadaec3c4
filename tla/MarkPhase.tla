------------------------------- MODULE MarkPhase -------------------------------
(***************************************************************************)
(* The mark phase of a collection (src/src/lib.rs): how the collector and  *)
(* its tracer threads find what the roots reach, and how the collector     *)
(* learns that nothing is left to find.                                    *)
(*                                                                         *)
(* The collector sends each Bin to the tracers over a bounded channel.  A  *)
(* tracer scans its Bin for root counts and sends each rooted value back   *)
(* over a second bounded channel.  The collector marks what it receives    *)
(* and traces it, which sends the Refs of the value to that same channel.  *)
(* Every trace request, every mark request and the collector hold a clone  *)
(* of one Arc; when the collector has the only one, marking is over.       *)
(*                                                                         *)
(* Threads have no guard during a collection, but they may drop Roots.     *)
(* A value is an allocation: a slot and a generation, so a Ref of a value  *)
(* that is not live is stale.  What Trace::trace does for a type is given  *)
(* by constants (Traceable).  How slots store marks is in Bin.             *)
(***************************************************************************)
EXTENDS Naturals, Sequences, FiniteSets

CONSTANTS
    Objects,    \* the values that were ever allocated
    NumBins,    \* the Bins of all pools, in the order of the map
    BinOf,      \* the Bin of each value
    Slots,      \* the values of each Bin, in the order of their slots
    ValuesOf,   \* the contents that the type of each Bin admits
    MayContain, \* Trace::MAY_CONTAIN_REFERENCES of the type of each Bin
    Tracers,    \* the tracer threads
    TraceCap,   \* capacity of the channel to the tracers, 128 in the source
    MarkCap     \* capacity of the channel to the collector, 1024 in the source

Bins == 1..NumBins
Idle == 0   \* in place of a Bin

\* What matters of the content of a value: the Refs that Trace::trace marks,
\* in order, and the values that it has Refs of.
Content == [traced : Seq(Objects), refs : SUBSET Objects]

ASSUME MarkPhaseConstants ==
    /\ NumBins \in Nat
    /\ BinOf \in [Objects -> Bins]
    /\ Slots \in [Bins -> Seq(Objects)]
    /\ \A o \in Objects : \E i \in 1..Len(Slots[BinOf[o]]) : Slots[BinOf[o]][i] = o
    /\ \A b \in Bins : \A i \in 1..Len(Slots[b]) : BinOf[Slots[b][i]] = b
    /\ \A b \in Bins : \A v \in ValuesOf[b] : v \in Content
    /\ MayContain \in [Bins -> BOOLEAN]
    /\ IsFiniteSet(Tracers)
    /\ {TraceCap, MarkCap} \subseteq Nat \ {0}

\* What the documentation of Trace asks of every implementation: trace marks
\* each Ref, and a type that may contain none contains none.
TraceContract ==
    \A o \in Objects : \A v \in ValuesOf[BinOf[o]] :
        /\ v.refs = {v.traced[i] : i \in 1..Len(v.traced)}
        /\ ~MayContain[BinOf[o]] => v.refs = {}

VARIABLES
    content,   \* the content of each value
    live,      \* the allocated values
    rooted,    \* the values with a root count
    atStart,   \* rooted, when the collection began
    nextBin,   \* collector: the next Bin to send
    traceQ,    \* the channel to the tracers
    bin,       \* the Bin of the request that each tracer works on, or Idle
    at,        \* the slot that each tracer is at
    found,     \* each tracer is about to send the value of that slot
    markQ,     \* the channel to the collector
    cpc,       \* where the collector is
    sends,     \* collector: the Refs of the traced value that are left to send
    marked     \* the values that carry the current mark bits

programVars == <<content, live, rooted, atStart>>
tracerVars == <<bin, at, found>>
collectorVars == <<nextBin, cpc, sends, marked>>
vars == <<programVars, tracerVars, collectorVars, traceQ, markQ>>

CollectorPc == {"send", "check", "try", "recv", "trace", "sweep", "done"}

TypeOK ==
    /\ content \in [Objects -> Content]
    /\ live \in SUBSET Objects
    /\ rooted \in SUBSET Objects
    /\ atStart \in SUBSET Objects
    /\ nextBin \in 1..(NumBins + 1)
    /\ traceQ \in Seq(Bins) /\ Len(traceQ) <= TraceCap
    /\ bin \in [Tracers -> Bins \cup {Idle}]
    /\ at \in [Tracers -> Nat \ {0}]
    /\ found \in [Tracers -> BOOLEAN]
    /\ markQ \in Seq(Objects) /\ Len(markQ) <= MarkCap
    /\ cpc \in CollectorPc
    /\ sends \in Seq(Objects)
    /\ marked \in SUBSET Objects

Init ==
    /\ content \in [Objects -> UNION {ValuesOf[b] : b \in Bins}]
    /\ \A o \in Objects : content[o] \in ValuesOf[BinOf[o]]
    /\ live \in SUBSET Objects
    /\ rooted \in SUBSET live
    /\ atStart = rooted
    /\ nextBin = 1
    /\ traceQ = <<>>
    /\ bin = [t \in Tracers |-> Idle]
    /\ at = [t \in Tracers |-> 1]
    /\ found = [t \in Tracers |-> FALSE]
    /\ markQ = <<>>
    /\ cpc = "send"
    /\ sends = <<>>
    /\ marked = {}

-----------------------------------------------------------------------------
(* The program.                                                            *)

\* The last Root of a value is dropped; this needs no guard.
DropRoot(o) ==
    /\ o \in rooted
    /\ rooted' = rooted \ {o}
    /\ UNCHANGED <<content, live, atStart, tracerVars, collectorVars, traceQ, markQ>>

-----------------------------------------------------------------------------
(* The tracers: the closure that Collector::run spawns, and Bin::trace.    *)

TakeTraceRequest(t) ==
    /\ bin[t] = Idle
    /\ traceQ # <<>>
    /\ bin' = [bin EXCEPT ![t] = Head(traceQ)]
    /\ at' = [at EXCEPT ![t] = 1]
    /\ traceQ' = Tail(traceQ)
    /\ UNCHANGED <<programVars, collectorVars, found, markQ>>

\* Faulty variant of ScanSlot: the root count is not asked.
ScanAllocatedSlot(t) ==
    /\ bin[t] # Idle
    /\ ~found[t]
    /\ at[t] <= Len(Slots[bin[t]])
    /\ IF Slots[bin[t]][at[t]] \in live
       THEN /\ found' = [found EXCEPT ![t] = TRUE]
            /\ UNCHANGED at
       ELSE /\ at' = [at EXCEPT ![t] = @ + 1]
            /\ UNCHANGED found
    /\ UNCHANGED <<programVars, collectorVars, bin, traceQ, markQ>>

\* The generation and the root count of the next slot are read.
ScanSlot(t) ==
    /\ bin[t] # Idle
    /\ ~found[t]
    /\ at[t] <= Len(Slots[bin[t]])
    /\ IF Slots[bin[t]][at[t]] \in live \cap rooted
       THEN /\ found' = [found EXCEPT ![t] = TRUE]
            /\ UNCHANGED at
       ELSE /\ at' = [at EXCEPT ![t] = @ + 1]
            /\ UNCHANGED found
    /\ UNCHANGED <<programVars, collectorVars, bin, traceQ, markQ>>

\* Tracer::mark; it waits for a place in the channel.
SendRooted(t) ==
    /\ found[t]
    /\ Len(markQ) < MarkCap
    /\ markQ' = Append(markQ, Slots[bin[t]][at[t]])
    /\ found' = [found EXCEPT ![t] = FALSE]
    /\ at' = [at EXCEPT ![t] = @ + 1]
    /\ UNCHANGED <<programVars, collectorVars, bin, traceQ>>

\* The request is dropped, and its clone of the Arc with it.
FinishTrace(t) ==
    /\ bin[t] # Idle
    /\ ~found[t]
    /\ at[t] > Len(Slots[bin[t]])
    /\ bin' = [bin EXCEPT ![t] = Idle]
    /\ UNCHANGED <<programVars, collectorVars, at, found, traceQ, markQ>>

-----------------------------------------------------------------------------
(* The collector: Collector::collect.                                      *)

\* Faulty variant of SendTraceRequest: the channel is not bounded.
SendTraceRequestUnbounded ==
    /\ cpc = "send"
    /\ nextBin <= NumBins
    /\ traceQ' = Append(traceQ, nextBin)
    /\ nextBin' = nextBin + 1
    /\ UNCHANGED <<programVars, tracerVars, cpc, sends, marked, markQ>>

SendTraceRequest ==
    /\ cpc = "send"
    /\ nextBin <= NumBins
    /\ Len(traceQ) < TraceCap
    /\ traceQ' = Append(traceQ, nextBin)
    /\ nextBin' = nextBin + 1
    /\ UNCHANGED <<programVars, tracerVars, cpc, sends, marked, markQ>>

AllRequestsSent ==
    /\ cpc = "send"
    /\ nextBin > NumBins
    /\ cpc' = "check"
    /\ UNCHANGED <<programVars, tracerVars, nextBin, sends, marked, traceQ, markQ>>

\* Faulty variants of StrongCount: a tracer has no clone while it traces; the
\* collector has a second one.
StrongCountOfChannels == 1 + Len(traceQ) + Len(markQ)
StrongCountWithSpare ==
    2 + Len(traceQ) + Cardinality({t \in Tracers : bin[t] # Idle}) + Len(markQ)

\* Arc::strong_count(&mark_one_sender), when the last request is dropped.
StrongCount ==
    1 + Len(traceQ) + Cardinality({t \in Tracers : bin[t] # Idle}) + Len(markQ)

CheckSenders ==
    /\ cpc = "check"
    /\ cpc' = IF StrongCount = 1 THEN "try" ELSE "recv"
    /\ UNCHANGED <<programVars, tracerVars, nextBin, sends, marked, traceQ, markQ>>

\* recv_timeout of one microsecond ends without a request.
RecvTimeout ==
    /\ cpc = "recv"
    /\ markQ = <<>>
    /\ cpc' = "check"
    /\ UNCHANGED <<programVars, tracerVars, nextBin, sends, marked, traceQ, markQ>>

\* try_recv finds nothing: the break out of the loop.
StopMarking ==
    /\ cpc = "try"
    /\ markQ = <<>>
    /\ cpc' = "sweep"
    /\ UNCHANGED <<programVars, tracerVars, nextBin, sends, marked, traceQ, markQ>>

\* recv_timeout or try_recv, mark_one, and the beginning of trace_one.
ReceiveMark ==
    /\ cpc \in {"try", "recv"}
    /\ markQ # <<>>
    /\ markQ' = Tail(markQ)
    /\ LET o == Head(markQ)
           isNew == o \in live \ marked
       IN  /\ marked' = IF isNew THEN marked \cup {o} ELSE marked
           /\ IF isNew /\ MayContain[BinOf[o]]
              THEN cpc' = "trace" /\ sends' = content[o].traced
              ELSE cpc' = "check" /\ UNCHANGED sends
    /\ UNCHANGED <<programVars, tracerVars, nextBin, traceQ>>

\* Tracer::mark, by the collector, which is the only receiver of the channel.
SendTraced ==
    /\ cpc = "trace"
    /\ sends # <<>>
    /\ Len(markQ) < MarkCap
    /\ markQ' = Append(markQ, Head(sends))
    /\ sends' = Tail(sends)
    /\ UNCHANGED <<programVars, tracerVars, nextBin, cpc, marked, traceQ>>

FinishTraceOne ==
    /\ cpc = "trace"
    /\ sends = <<>>
    /\ cpc' = "check"
    /\ UNCHANGED <<programVars, tracerVars, nextBin, sends, marked, traceQ, markQ>>

\* All Bins are swept.
Sweep ==
    /\ cpc = "sweep"
    /\ cpc' = "done"
    /\ live' = live \cap marked
    /\ UNCHANGED <<content, rooted, atStart, tracerVars, nextBin, sends, marked, traceQ, markQ>>

-----------------------------------------------------------------------------
TracerStep(t) ==
    \/ TakeTraceRequest(t)
    \/ ScanSlot(t)
    \/ SendRooted(t)
    \/ FinishTrace(t)

CollectorStep ==
    \/ SendTraceRequest
    \/ AllRequestsSent
    \/ CheckSenders
    \/ RecvTimeout
    \/ StopMarking
    \/ ReceiveMark
    \/ SendTraced
    \/ FinishTraceOne
    \/ Sweep

\* This collection is over; the collector waits for a command.
Terminated == cpc = "done" /\ UNCHANGED vars

Next ==
    \/ \E o \in Objects : DropRoot(o)
    \/ \E t \in Tracers : TracerStep(t)
    \/ CollectorStep
    \/ Terminated

Spec == Init /\ [][Next]_vars

\* The collector and the tracers are scheduled.
Fairness ==
    /\ WF_vars(CollectorStep)
    /\ \A t \in Tracers : WF_vars(TracerStep(t))

FairSpec == Spec /\ Fairness

-----------------------------------------------------------------------------
Promise == INSTANCE Collection WITH
    refs <- [o \in Objects |-> content[o].refs],
    over <- cpc = "done"

\* When the collector finds that it has the last clone of the Arc, everything
\* that a Root reaches is marked: no tracer has a value that it has found and
\* not sent, no channel has a request (the loop of Collector::collect).
EndIsComplete ==
    cpc \in {"try", "sweep"} => Promise!Reachable(rooted) \subseteq marked

\* The phase keeps what Collection promises: the sweep frees every value that no
\* Root reached when the phase began, and none that one still reaches.
ImplementsCollection == Promise!Spec

\* Marking ends: tracers and collector never wait for each other for ever (the
\* doc of the architecture: the process continues until all found references are
\* marked and traced).
MarkingEnds == <>(cpc = "done")
===============================================================================
