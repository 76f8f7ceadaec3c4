--------------------------------- MODULE Pools ---------------------------------
(***************************************************************************)
(* The pools that values are allocated in (src/src/lib.rs): how they are   *)
(* registered with the collector and in the map in which the other threads *)
(* look them up, and what becomes of their values when they are dropped.   *)
(*                                                                         *)
(* Each thread has a pool from its first guard on until it ends; any       *)
(* thread may make LocalPools.  The bins of a pool are shared by reference *)
(* counting, and go, with their values, when the last of these lets them   *)
(* go: the pool, the NewThread command, the collector's thread_bins, and   *)
(* threads that load a value of the pool at the moment.                    *)
(*                                                                         *)
(* NewThread is a message: a thread allocates in its pool, and others keep *)
(* Refs of its values, before the collector knows the pool.                *)
(*                                                                         *)
(* The guards appear as the gate of ExclusiveAccess, one guard per thread. *)
(* An attempt that gives up is left out: it changes no pool, and schedules *)
(* the next (CollectionGuards).  Marking and sweeping are one step         *)
(* (MarkPhase, Bin).  A value has at most one Ref in it; a program may     *)
(* keep the Ref of any value, at any time, but it loads no value twice     *)
(* under a guard, as that changes nothing.  When the collector thread has  *)
(* panicked the model stops, and nothing is claimed of what follows.       *)
(***************************************************************************)
EXTENDS Naturals, Sequences, FiniteSets

CONSTANTS
    Threads,     \* the threads of the program; each is the id of its pool, too
    LocalPools,  \* bound: the LocalPools it makes
    Kept,        \* pools that are registered at first and never dropped
    Callers,     \* bound: the threads that call collect
    MaxValues,   \* bound: values stored
    ChannelCap,  \* capacity of the command channel, 1024 in the source
    Calls        \* what the program does besides the usual

Pools == Threads \cup LocalPools
NoPool == "no pool"
Values == 1..MaxValues
NoValue == 0

\* Dropping a pool while another thread loads a value of it.
UnusualCalls == {"drop_during_load"}

ASSUME PoolsConstants ==
    /\ NoPool \notin Pools
    /\ Kept \subseteq Pools
    /\ Callers \subseteq Threads
    /\ IsFiniteSet(Pools)
    /\ MaxValues \in Nat
    /\ ChannelCap \in Nat \ {0}
    /\ Calls \subseteq UnusualCalls

VARIABLES
    made,        \* the pools there were
    open,        \* the pools that are not dropped
    allThreads,  \* CollectorInfo::all_threads: the pools that can be looked up
    commands,    \* the command channel
    threadBins,  \* Collector::thread_bins
    alive,       \* the entries of thread_bins with the flag alive
    active,      \* Collector::active_threads
    cpc,         \* where the collector is
    scheduled,   \* whether Collector::next_gc is set
    signalled,   \* CollectorInfo::signalled_collector
    sending,     \* the command that each thread is about to send, or NoCommand
    guard,       \* the pool that each thread has a guard of, or NoPool
    loading,     \* the value that each thread loads at the moment, or NoValue
    loaded,      \* the values that each thread has a reference to
    waiting,     \* the threads in collect_unchecked that no run has served
    home,        \* the pool of each value
    link,        \* the value that each value has a Ref of, or NoValue
    allocated,   \* the values that have a slot
    rooted,      \* the values that the program has a Root of
    missed       \* history: values whose Ref the collector need not have followed:
                 \* it was stale when stored, or a collection went by their pool

poolVars == <<made, open, allThreads>>
binVars == <<threadBins, alive, active>>
requestVars == <<scheduled, signalled, waiting>>
threadVars == <<sending, guard, loading, loaded>>
valueVars == <<home, link, allocated, missed>>
vars == <<poolVars, commands, binVars, cpc, requestVars, threadVars, valueVars, rooted>>

NewThread(p) == [op |-> "NewThread", pool |-> p]
ThreadShutdown(p) == [op |-> "ThreadShutdown", pool |-> p]
CollectCommand == [op |-> "Collect"]
\* A Collect command sent before the last run ended: last_run >= requested_at.
ServedCommand == [op |-> "Served"]
ScheduleCollect == [op |-> "ScheduleCollect"]
PoolCommand == {NewThread(p) : p \in Pools} \cup {ThreadShutdown(p) : p \in Pools}
Command == PoolCommand \cup {CollectCommand, ServedCommand, ScheduleCollect}
NoCommand == [op |-> "none"]
Queued(command) == \E i \in DOMAIN commands : commands[i] = command
HeadIs(op) == commands # <<>> /\ Head(commands).op = op

TypeOK ==
    /\ made \subseteq Pools
    /\ open \subseteq made
    /\ allThreads \subseteq made
    /\ commands \in Seq(Command)
    /\ threadBins \subseteq made
    /\ alive \subseteq threadBins
    /\ active \in 0..Cardinality(Pools)
    /\ cpc \in {"recv", "begin", "lock", "collect", "release", "panicked"}
    /\ scheduled \in BOOLEAN
    /\ signalled \in BOOLEAN
    /\ sending \in [Threads -> PoolCommand \cup {NoCommand}]
    /\ guard \in [Threads -> open \cup {NoPool}]
    /\ loading \in [Threads -> Values \cup {NoValue}]
    /\ loaded \in [Threads -> SUBSET Values]
    /\ waiting \subseteq Threads
    /\ home \in [Values -> made \cup {NoPool}]
    /\ link \in [Values -> Values \cup {NoValue}]
    /\ allocated \subseteq Values
    /\ rooted \subseteq Values
    /\ missed \subseteq Values

Init ==
    /\ made = Kept
    /\ open = Kept
    /\ allThreads = Kept
    /\ commands = <<>>
    /\ threadBins = Kept
    /\ alive = Kept
    /\ active = Cardinality(Kept)
    /\ cpc = "recv"
    /\ scheduled = FALSE
    /\ signalled = FALSE
    /\ sending = [t \in Threads |-> NoCommand]
    /\ guard = [t \in Threads |-> NoPool]
    /\ loading = [t \in Threads |-> NoValue]
    /\ loaded = [t \in Threads |-> {}]
    /\ waiting = {}
    /\ home = [o \in Values |-> NoPool]
    /\ link = [o \in Values |-> NoValue]
    /\ allocated = {}
    /\ rooted = {}
    /\ missed = {}

Gate == INSTANCE ExclusiveAccess WITH
    inside <- {t \in Threads : guard[t] # NoPool},
    closed <- cpc \notin {"recv", "begin"},
    exclusive <- cpc = "collect"

-----------------------------------------------------------------------------
(* What keeps the bins of a pool: Arc::strong_count and Weak::upgrade.     *)

Creating(p) == \E t \in Threads : sending[t] = NewThread(p)
Dropping(p) == \E t \in Threads : sending[t] = ThreadShutdown(p)
Loaders(p) == {t \in Threads : loading[t] # NoValue /\ home[loading[t]] = p}

\* The collector has the bins, or will have received them.
WithCollector(p) == p \in threadBins \/ Queued(NewThread(p))

BinsExist(p) ==
    p \in open \/ Creating(p) \/ Dropping(p) \/ WithCollector(p) \/ Loaders(p) # {}

\* The values whose memory there is.
Stored == {o \in allocated : BinsExist(home[o])}

\* The collector thread has not panicked.
Running == cpc # "panicked"

\* A thread that has not ended and is not in one of the calls below.
Idle(t) ==
    /\ Running
    /\ t \notin made \ open
    /\ sending[t] = NoCommand /\ loading[t] = NoValue /\ t \notin waiting

\* LocalPool::default has the lock of all_threads while it sends.
AllThreadsIsLocked == \E p \in Pools : Creating(p)

-----------------------------------------------------------------------------
(* Pools.                                                                  *)

\* LocalPool::default, also for ThreadPool::map_current of a new thread, up to
\* the send.  A thread that loads has the lock for reading.
NewPool(t, p) ==
    /\ Idle(t)
    /\ p \notin made
    /\ p \in Threads => p = t
    /\ ~AllThreadsIsLocked
    /\ \A u \in Threads : loading[u] = NoValue
    /\ made' = made \cup {p}
    /\ sending' = [sending EXCEPT ![t] = NewThread(p)]
    /\ UNCHANGED <<open, allThreads, commands, binVars, cpc, requestVars, guard,
                   loading, loaded, valueVars, rooted>>

\* Faulty variant of DropPool: the collector's Arc is not counted.
DropLonePool(t, p) ==
    /\ Idle(t)
    /\ p \in open \ Kept
    /\ p \in Threads => p = t /\ guard[t] = NoPool
    /\ \A u \in Threads : guard[u] # p
    /\ "drop_during_load" \in Calls \/ Loaders(p) = {}
    /\ open' = open \ {p}
    /\ sending' = IF ~WithCollector(p) /\ Loaders(p) = {}
                  THEN [sending EXCEPT ![t] = ThreadShutdown(p)] ELSE sending
    /\ UNCHANGED <<made, allThreads, commands, binVars, cpc, requestVars, guard,
                   loading, loaded, valueVars, rooted>>

\* LocalPool::drop, also at the end of a thread: if the pool and the collector
\* are the only ones that have the bins, the collector is told.
DropPool(t, p) ==
    /\ Idle(t)
    /\ p \in open \ Kept
    /\ p \in Threads => p = t /\ guard[t] = NoPool
    /\ \A u \in Threads : guard[u] # p
    /\ "drop_during_load" \in Calls \/ Loaders(p) = {}
    /\ open' = open \ {p}
    /\ sending' = IF WithCollector(p) /\ Loaders(p) = {}
                  THEN [sending EXCEPT ![t] = ThreadShutdown(p)] ELSE sending
    /\ UNCHANGED <<made, allThreads, commands, binVars, cpc, requestVars, guard,
                   loading, loaded, valueVars, rooted>>

\* CollectorCommand::send blocks while the channel is full; then both calls end.
Send(t) ==
    /\ Running
    /\ sending[t] # NoCommand
    /\ Len(commands) < ChannelCap
    /\ commands' = Append(commands, sending[t])
    /\ LET new == {p \in Pools : sending[t] = NewThread(p)}
       IN  open' = open \cup new /\ allThreads' = allThreads \cup new
    /\ sending' = [sending EXCEPT ![t] = NoCommand]
    /\ UNCHANGED <<made, binVars, cpc, requestVars, guard, loading, loaded, valueVars,
                   rooted>>

-----------------------------------------------------------------------------
(* Guards and values.                                                      *)

\* CollectionGuard::acquire and LocalPool::enter.
Enter(t, p) ==
    /\ Idle(t)
    /\ guard[t] = NoPool
    /\ t \in open
    /\ p \in open \cap (LocalPools \cup {t})
    /\ guard' = [guard EXCEPT ![t] = p]
    /\ cpc' = cpc
    /\ Gate!Enter(t)
    /\ UNCHANGED <<poolVars, commands, binVars, requestVars, sending, loading, loaded,
                   valueVars, rooted>>

\* Dropping the guard, and with it all references that it gave.
DropGuard(t) ==
    /\ Idle(t)
    /\ guard[t] # NoPool
    /\ guard' = [guard EXCEPT ![t] = NoPool]
    /\ cpc' = cpc
    /\ Gate!Leave(t)
    /\ loaded' = [loaded EXCEPT ![t] = {}]
    /\ UNCHANGED <<poolVars, commands, binVars, requestVars, sending, loading, valueVars,
                   rooted>>

\* Root::new and Ref::new of a value that has the Ref of value "to", or none;
\* nothing keeps a program from storing a Ref of a value that is gone.
Allocate(t, o, to, asRoot) ==
    /\ Idle(t)
    /\ guard[t] # NoPool
    /\ home[o] = NoPool
    /\ o > 1 => home[o - 1] # NoPool
    /\ to = NoValue \/ to \in {x \in Values : home[x] # NoPool}
    /\ home' = [home EXCEPT ![o] = guard[t]]
    /\ link' = [link EXCEPT ![o] = to]
    /\ allocated' = allocated \cup {o}
    /\ rooted' = IF asRoot THEN rooted \cup {o} ELSE rooted
    /\ missed' = IF to \in Stored \cup {NoValue} THEN missed ELSE missed \cup {o}
    /\ UNCHANGED <<poolVars, commands, binVars, cpc, requestVars, threadVars>>

\* Ref::load and AnyRef::load of a value of the guard's pool.
LoadOwn(t, o) ==
    /\ Idle(t)
    /\ guard[t] # NoPool
    /\ home[o] = guard[t]
    /\ o \in allocated \ loaded[t]
    /\ loaded' = [loaded EXCEPT ![t] = @ \cup {o}]
    /\ UNCHANGED <<poolVars, commands, binVars, cpc, requestVars, sending, guard,
                   loading, valueVars, rooted>>

\* The same of a value of another pool: the Weak of its bins is upgraded.
BeginLoad(t, o) ==
    /\ Idle(t)
    /\ guard[t] # NoPool
    /\ o \notin loaded[t]
    /\ home[o] \in allThreads \ {guard[t]}
    /\ BinsExist(home[o])
    /\ ~AllThreadsIsLocked
    /\ loading' = [loading EXCEPT ![t] = o]
    /\ UNCHANGED <<poolVars, commands, binVars, cpc, requestVars, sending, guard, loaded,
                   valueVars, rooted>>

\* The slot is read and the upgraded Weak is dropped.
EndLoad(t) ==
    /\ loading[t] # NoValue
    /\ loaded' = [loaded EXCEPT ![t] = @ \cup ({loading[t]} \cap allocated)]
    /\ loading' = [loading EXCEPT ![t] = NoValue]
    /\ UNCHANGED <<poolVars, commands, binVars, cpc, requestVars, sending, guard,
                   valueVars, rooted>>

\* Ref::as_root and AnyRef::upgrade.
AsRoot(t, o) ==
    /\ Idle(t)
    /\ o \in loaded[t] \ rooted
    /\ rooted' = rooted \cup {o}
    /\ UNCHANGED <<poolVars, commands, binVars, cpc, requestVars, threadVars, valueVars>>

\* The last Root of a value is dropped: schedule_collect_if_needed.
DropRoot(o) ==
    /\ Running
    /\ o \in rooted
    /\ rooted' = rooted \ {o}
    /\ signalled' = TRUE
    /\ \/ signalled /\ commands' = commands
       \/ /\ ~signalled /\ Len(commands) < ChannelCap
          /\ commands' = Append(commands, ScheduleCollect)
    /\ UNCHANGED <<poolVars, binVars, cpc, scheduled, waiting, threadVars, valueVars>>

\* collect by a thread without a guard, up to the wait for a run.
RequestCollect(t) ==
    /\ Idle(t)
    /\ t \in Callers
    /\ t \in open /\ guard[t] = NoPool
    /\ Len(commands) < ChannelCap
    /\ commands' = Append(commands, CollectCommand)
    /\ waiting' = waiting \cup {t}
    /\ UNCHANGED <<poolVars, binVars, cpc, scheduled, signalled, threadVars, valueVars,
                   rooted>>

-----------------------------------------------------------------------------
(* The collector: Collector::run and collect.                              *)

\* The assertion that the pool is new: see CommandsAreExpected.
RecvNewThread ==
    /\ cpc = "recv"
    /\ HeadIs("NewThread")
    /\ LET p == Head(commands).pool
       IN  /\ threadBins' = threadBins \cup {p}
           /\ alive' = alive \cup {p}
    /\ active' = active + 1
    /\ commands' = Tail(commands)
    /\ UNCHANGED <<poolVars, cpc, requestVars, threadVars, valueVars, rooted>>

\* Of an unknown pool: expect("unknown thread").
RecvThreadShutdown ==
    /\ cpc = "recv"
    /\ HeadIs("ThreadShutdown")
    /\ LET p == Head(commands).pool
       IN  IF p \notin threadBins
           THEN cpc' = "panicked" /\ UNCHANGED binVars
           ELSE /\ active' = active - 1
                /\ threadBins' = IF active = 1 THEN {} ELSE threadBins
                /\ alive' = IF active = 1 THEN {} ELSE alive \ {p}
                /\ UNCHANGED cpc
    /\ commands' = Tail(commands)
    /\ UNCHANGED <<poolVars, requestVars, threadVars, valueVars, rooted>>

RecvScheduleCollect ==
    /\ cpc = "recv"
    /\ HeadIs("ScheduleCollect")
    /\ scheduled' = TRUE
    /\ commands' = Tail(commands)
    /\ UNCHANGED <<poolVars, binVars, cpc, signalled, waiting, threadVars, valueVars,
                   rooted>>

\* A run begins, unless one has ended since the call.
RecvCollect ==
    /\ cpc = "recv"
    /\ \/ HeadIs("Collect") /\ cpc' = "begin" /\ scheduled' = FALSE
       \/ HeadIs("Served") /\ UNCHANGED <<cpc, scheduled>>
    /\ commands' = Tail(commands)
    /\ UNCHANGED <<poolVars, binVars, signalled, waiting, threadVars, valueVars, rooted>>

\* recv_deadline: the time of next_gc comes and no command is there.
TimerFires ==
    /\ cpc = "recv"
    /\ scheduled /\ commands = <<>>
    /\ cpc' = "begin"
    /\ scheduled' = FALSE
    /\ UNCHANGED <<poolVars, commands, binVars, signalled, waiting, threadVars,
                   valueVars, rooted>>

\* acquire_all_locks: the collecting bit is set.
StartAttempt ==
    /\ cpc = "begin"
    /\ guard' = guard
    /\ cpc' = IF \A t \in Threads : guard[t] = NoPool THEN "collect" ELSE "lock"
    /\ Gate!Close
    /\ UNCHANGED <<poolVars, commands, binVars, requestVars, sending, loading, loaded,
                   valueVars, rooted>>

\* The last reader has left.
AcquireAllLocks ==
    /\ cpc = "lock"
    /\ guard' = guard
    /\ cpc' = "collect"
    /\ Gate!Begin
    /\ UNCHANGED <<poolVars, commands, binVars, requestVars, sending, loading, loaded,
                   valueVars, rooted>>

\* No Ref leads from C to a value of S that is not in C.
Closed(C, S) == \A o \in C : link[o] \in S => link[o] \in C

\* The values of S that these roots lead to, through values of S.
ReachedIn(S, roots) ==
    {o \in S : \A C \in SUBSET S : roots \cap S \subseteq C /\ Closed(C, S) => o \in C}

\* The slots of the pools that the collector knows.
Known == {o \in allocated : home[o] \in threadBins}

\* What their roots reach through Refs that are not stale.
Marked == ReachedIn(Known, rooted)

\* Mark requests name pools that are not in all_bins: its Index panics.
UnknownRequests ==
    {link[o] : o \in {m \in Marked : link[m] # NoValue /\ home[link[m]] \notin threadBins}}
RequestsUnknownPool == UnknownRequests # {}

\* Faulty variants of Emptied: no value is counted; only rooted ones are.
EmptiedUncounted == threadBins
EmptiedOfRoots == {p \in threadBins : \A o \in rooted : home[o] # p}

\* Pools that have no value left; they are forgotten if they are dropped, too.
\* The lock of all_threads is taken as soon as there is one.
Emptied == {p \in threadBins : \A o \in Marked : home[o] # p}

\* The end of the run: the next one is scheduled if there are pools, and last_run
\* is set, which ends the waits and makes queued Collect commands void.
Stamp ==
    /\ scheduled' = (threadBins' # {})
    /\ waiting' = {}
    /\ commands' = [i \in DOMAIN commands |->
                       IF commands[i] = CollectCommand THEN ServedCommand
                       ELSE commands[i]]

\* Faulty variants of Collect: it forgets pools that are alive; it leaves the
\* pools that it forgets in all_threads.
CollectAndForgetAlive ==
    /\ cpc = "collect"
    /\ RequestsUnknownPool \/ Emptied = {} \/ ~AllThreadsIsLocked
    /\ IF RequestsUnknownPool
       THEN /\ cpc' = "panicked"
            /\ UNCHANGED <<allocated, missed, threadBins, allThreads, scheduled, waiting,
                           commands>>
       ELSE /\ cpc' = "release"
            /\ allocated' = allocated \ (Known \ Marked)
            /\ missed' = missed \cup (allocated \ Known)
            /\ threadBins' = threadBins \ Emptied
            /\ allThreads' = allThreads \ Emptied
            /\ Stamp
    /\ guard' = guard
    /\ Gate!End
    /\ UNCHANGED <<made, open, alive, active, signalled, sending, loading, loaded, home,
                   link, rooted>>
CollectAndKeepEntry ==
    /\ cpc = "collect"
    /\ RequestsUnknownPool \/ Emptied = {} \/ ~AllThreadsIsLocked
    /\ IF RequestsUnknownPool
       THEN /\ cpc' = "panicked"
            /\ UNCHANGED <<allocated, missed, threadBins, allThreads, scheduled, waiting,
                           commands>>
       ELSE /\ cpc' = "release"
            /\ allocated' = allocated \ (Known \ Marked)
            /\ missed' = missed \cup (allocated \ Known)
            /\ threadBins' = threadBins \ (Emptied \ alive)
            /\ UNCHANGED allThreads
            /\ Stamp
    /\ guard' = guard
    /\ Gate!End
    /\ UNCHANGED <<made, open, alive, active, signalled, sending, loading, loaded, home,
                   link, rooted>>

Collect ==
    /\ cpc = "collect"
    /\ RequestsUnknownPool \/ Emptied = {} \/ ~AllThreadsIsLocked
    /\ IF RequestsUnknownPool
       THEN /\ cpc' = "panicked"
            /\ UNCHANGED <<allocated, missed, threadBins, allThreads, scheduled, waiting,
                           commands>>
       ELSE /\ cpc' = "release"
            /\ allocated' = allocated \ (Known \ Marked)
            /\ missed' = missed \cup (allocated \ Known)
            /\ threadBins' = threadBins \ (Emptied \ alive)
            /\ allThreads' = allThreads \ (Emptied \ alive)
            /\ Stamp
    /\ guard' = guard
    /\ Gate!End
    /\ UNCHANGED <<made, open, alive, active, signalled, sending, loading, loaded, home,
                   link, rooted>>

\* release_write and notify_all; signalled_collector is cleared.
ReleaseWrite ==
    /\ cpc = "release"
    /\ guard' = guard
    /\ cpc' = "recv"
    /\ Gate!Open
    /\ signalled' = FALSE
    /\ UNCHANGED <<poolVars, commands, binVars, scheduled, waiting, sending, loading,
                   loaded, valueVars, rooted>>

-----------------------------------------------------------------------------
CollectorStep ==
    \/ RecvNewThread
    \/ RecvThreadShutdown
    \/ RecvScheduleCollect
    \/ RecvCollect
    \/ TimerFires
    \/ StartAttempt
    \/ AcquireAllLocks
    \/ Collect
    \/ ReleaseWrite

\* The collector thread is gone; the model stops here.
Dead == ~Running /\ UNCHANGED vars

Next ==
    \/ \E t \in Threads :
          \/ \E p \in Pools : NewPool(t, p) \/ DropPool(t, p) \/ Enter(t, p)
          \/ Send(t)
          \/ DropGuard(t)
          \/ EndLoad(t)
          \/ RequestCollect(t)
          \/ \E o \in Values :
                \/ \E to \in 0..MaxValues, asRoot \in BOOLEAN :
                      Allocate(t, o, to, asRoot)
                \/ LoadOwn(t, o)
                \/ BeginLoad(t, o)
                \/ AsRoot(t, o)
    \/ \E o \in Values : DropRoot(o)
    \/ CollectorStep
    \/ Dead

Spec == Init /\ [][Next]_vars

\* The collector is scheduled, calls come to an end, and no thread keeps a guard
\* for ever.
Fairness ==
    /\ WF_vars(CollectorStep)
    /\ \A t \in Threads : WF_vars(EndLoad(t) \/ Send(t)) /\ SF_vars(DropGuard(t))

FairSpec == Spec /\ Fairness

-----------------------------------------------------------------------------
(* Safety.                                                                 *)

Referenced == rooted \cup UNION {loaded[t] : t \in Threads}

\* The values that Roots and references under guards reach through Refs.
Reachable == ReachedIn(Values, Referenced)

\* The same through the Refs that every collection there was could follow.
FollowedRefs(C) == \A o \in C \ missed : link[o] \in Values => link[o] \in C
Followed ==
    {o \in Values : \A C \in SUBSET Values :
                        Referenced \subseteq C /\ FollowedRefs(C) => o \in C}

\* While a Root or a guarded reference leads to a value, its memory is there and
\* its Ref loads, whatever becomes of its pool: "While any root references exist
\* for a given allocation, the garbage collector will not collect the
\* allocation" (the doc of Root).  Only what is reached through a value of a pool
\* that the collector did not know yet may be lost.
ReachableStays ==
    Running => \A o \in Followed : o \in Stored /\ home[o] \in allThreads

\* The collector thread never dies of a mark request of a pool that it does not
\* know (the Index in collect): "This process continues until all found
\* references are marked and traced" (architecture).  The code does not keep this,
\* see the README; the next property says what it dies of.
CollectorNeverPanics == Running

\* It dies of nothing but a Ref of a pool whose NewThread is still in the channel,
\* or a Ref in a value that it need not have followed.
OnlyUnreceivedPoolsAreUnknown ==
    cpc = "collect" =>
        \A o \in Marked \ missed :
            link[o] # NoValue =>
                home[link[o]] \in threadBins \/ Queued(NewThread(home[link[o]]))

\* The first command of a pool is its NewThread, and its only ThreadShutdown comes
\* while the collector still has it: the assert and the expect of run hold.
CommandsAreExpected ==
    cpc = "recv" =>
        /\ HeadIs("NewThread") => Head(commands).pool \notin threadBins
        /\ HeadIs("ThreadShutdown") => Head(commands).pool \in threadBins \cap alive

\* The collector is not mistaken about who is alive: each open pool is alive or
\* on its way, the others are not counted once their ThreadShutdown is received.
ActivePoolsCounted ==
    Running =>
        /\ active = Cardinality(alive)
        /\ \A p \in open : p \in alive \/ Queued(NewThread(p))
        /\ \A p \in alive \ open : Dropping(p) \/ Queued(ThreadShutdown(p))

\* No Ref that a pool's values are still needed for, and the pool is dropped.
Unused(p) == p \in made \ open /\ ~Creating(p) /\ \A o \in Reachable : home[o] # p

\* A Root has been dropped or a thread has called collect; before, next_gc is None.
Requested == signalled \/ waiting # {}

\* "When a thread is shut down and all of its data is no longer reachable, the
\* thread storage will be cleaned up" (README), if there is ever a reason to
\* collect.
ThreadStorageIsCleanedUp ==
    [](Running) /\ <>Requested =>
        \A p \in Pools \ Kept :
            <>[]Unused(p) => <>[](p \notin allThreads /\ ~BinsExist(p))
===============================================================================
