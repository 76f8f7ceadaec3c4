--------------------------- MODULE CollectionGuards ---------------------------
(***************************************************************************)
(* How the threads of a program and the collector thread of refuse agree   *)
(* on who may touch the heap (src/src/lib.rs).                             *)
(*                                                                         *)
(* A thread reads and allocates while it holds a CollectionGuard; the      *)
(* collector marks and sweeps while nobody does.  The two meet in          *)
(*   - ReaderState, one atomic word: a collecting bit and a reader count;  *)
(*   - the mutex CollectorInfo::info, its field last_run and the condition *)
(*     variable collection_sync, on which threads wait for a collection;   *)
(*   - the Parker on which the collector waits for the last reader;        *)
(*   - the bounded command channel and the flag signalled_collector.       *)
(* Every atomic operation, lock, wait, send and unpark is a step of its    *)
(* own, so the steps of the actors interleave as they do in the program.   *)
(*                                                                         *)
(* Abstracted: what mark and sweep do (they are the one state "exclusive"  *)
(* here, but for Roots that swept values hold), durations (a deadline may  *)
(* pass at any time), and Instants, which are counted: the clock ticks at  *)
(* each collect call, so that two Instants compare as in the program       *)
(* whenever a comparison is made.                                          *)
(***************************************************************************)
EXTENDS Naturals, Sequences, FiniteSets

CONSTANTS
    Threads,      \* the threads of the program; the collector is not one
    MaxDepth,     \* bound: guards one thread nests
    MaxRequests,  \* bound: explicit collect calls of a behaviour
    ChannelCap,   \* capacity of the command channel, 1024 in the source
    Calls         \* which calls of the library the program makes

\* The calls a program is documented to make.
UsualCalls == {"acquire", "allocating_in", "while_unlocked", "yield",
               "collect", "guard_collect", "drop_root", "root_in_value"}

\* Legal ones that the README and the tests never make: try_acquire, and
\* acquiring a guard while the thread's other guard is unlocked.
AllCalls == UsualCalls \cup {"try_acquire", "acquire_while_unlocked"}

\* The holder of a mutex that is free.
NoOne == "no one"

ASSUME ConstantsAssumption ==
    /\ NoOne \notin Threads
    /\ MaxDepth \in Nat
    /\ MaxRequests \in Nat
    /\ ChannelCap \in Nat \ {0}
    /\ Calls \subseteq AllCalls

VARIABLES
    collecting,     \* ReaderState: COLLECTING_BIT
    readers,        \* ReaderState: the remaining bits
    depth,          \* ThreadPool::guard_depth of each thread
    held,           \* guards of each thread that are counted in readers
    out,            \* a guard of the thread is released: its closure runs
    pc,             \* where each thread is
    then,           \* where the thread goes on after unparking the collector
    infoLock,       \* holder of the mutex CollectorInfo::info
    clock,          \* the last Instant taken
    lastRun,        \* CollectorInfoData::last_run
    requestedAt,    \* Instant of each thread's last collect call
    commands,       \* the command channel
    signalled,      \* CollectorInfo::signalled_collector
    token,          \* the Parker's token
    cpc,            \* where the collector is
    gcFinish,       \* collector: gc_finish of the current attempt
    nextGc,         \* collector: next_gc is Some
    pauseFailures   \* collector: pause_failures

wordVars == <<collecting, readers>>
threadVars == <<depth, held, out, pc, then, requestedAt>>
collectorVars == <<cpc, gcFinish, nextGc, pauseFailures>>
vars == <<wordVars, threadVars, infoLock, clock, lastRun, commands, signalled,
          token, collectorVars>>

Collect(at) == [op |-> "Collect", at |-> at]
ScheduleCollect == [op |-> "ScheduleCollect"]
Command == {Collect(at) : at \in 0..MaxRequests} \cup {ScheduleCollect}

\* In acquire_reader, or waiting in it.
Acquiring == {"read", "lock", "reread", "park", "parked"}
\* In collect_unchecked.
Requesting == {"send", "await", "wait", "awaiting"}
ThreadPc == {"user", "unpark", "signal"} \cup Acquiring \cup Requesting
CollectorPc == {"recv", "attempt", "check", "park", "deadline", "abort",
                "abortNotify", "exclusive", "sweepSignal", "stamp", "release",
                "notify", "unsignal"}

TypeOK ==
    /\ collecting \in BOOLEAN
    /\ readers \in Nat
    /\ depth \in [Threads -> 0..MaxDepth]
    /\ held \in [Threads -> 0..MaxDepth]
    /\ out \in [Threads -> BOOLEAN]
    /\ pc \in [Threads -> ThreadPc]
    /\ then \in [Threads -> {"user", "send"}]
    /\ infoLock \in Threads \cup {NoOne}
    /\ clock \in 0..MaxRequests
    /\ lastRun \in 0..MaxRequests
    /\ requestedAt \in [Threads -> 0..MaxRequests]
    /\ commands \in Seq(Command)
    /\ signalled \in BOOLEAN
    /\ token \in BOOLEAN
    /\ cpc \in CollectorPc
    /\ gcFinish \in 0..MaxRequests
    /\ nextGc \in BOOLEAN
    /\ pauseFailures \in Nat

Init ==
    /\ collecting = FALSE
    /\ readers = 0
    /\ depth = [t \in Threads |-> 0]
    /\ held = [t \in Threads |-> 0]
    /\ out = [t \in Threads |-> FALSE]
    /\ pc = [t \in Threads |-> "user"]
    /\ then = [t \in Threads |-> "user"]
    /\ infoLock = NoOne
    /\ clock = 0
    /\ lastRun = 0
    /\ requestedAt = [t \in Threads |-> 0]
    /\ commands = <<>>
    /\ signalled = FALSE
    /\ token = FALSE
    /\ cpc = "recv"
    /\ gcFinish = 0
    /\ nextGc = FALSE
    /\ pauseFailures = 0

Goto(t, label) == pc' = [pc EXCEPT ![t] = label]

-----------------------------------------------------------------------------
(* The reader word, as the guards use it.                                  *)

\* ReaderState::read succeeding, and read_recursive: one more counted guard.
CountReader(t) ==
    /\ readers' = readers + 1
    /\ held' = [held EXCEPT ![t] = @ + 1]
    /\ UNCHANGED collecting

\* Faulty variant: the releaser compares the word after its subtraction.
UncountReaderNeverLast(t, label) ==
    /\ readers' = readers - 1
    /\ held' = [held EXCEPT ![t] = @ - 1]
    /\ then' = [then EXCEPT ![t] = label]
    /\ Goto(t, IF collecting /\ readers = 0 THEN "unpark" ELSE label)
    /\ UNCHANGED collecting

\* ReaderState::release_read and the success of release_read_if_collecting,
\* with the unpark that the releasing of the last reader of an attempt owes.
UncountReader(t, label) ==
    /\ readers' = readers - 1
    /\ held' = [held EXCEPT ![t] = @ - 1]
    /\ then' = [then EXCEPT ![t] = label]
    /\ Goto(t, IF collecting /\ readers = 1 THEN "unpark" ELSE label)
    /\ UNCHANGED collecting

-----------------------------------------------------------------------------
(* Guards.                                                                 *)

\* CollectionGuard::acquire and LocalPool::enter.  At depth 0 the thread goes
\* through acquire_reader; deeper, it counts itself whatever the bit says.
Acquire(t) ==
    /\ "acquire" \in Calls
    /\ pc[t] = "user"
    /\ depth[t] < MaxDepth
    /\ out[t] => "acquire_while_unlocked" \in Calls
    /\ depth' = [depth EXCEPT ![t] = @ + 1]
    /\ \/ /\ depth[t] = 0
          /\ Goto(t, "read")
          /\ UNCHANGED <<wordVars, held>>
       \/ /\ depth[t] > 0
          /\ CountReader(t)
          /\ UNCHANGED pc
    /\ UNCHANGED <<out, then, requestedAt, infoLock, clock, lastRun, commands,
                   signalled, token, collectorVars>>

\* Faulty variant: the new guard copies the old one without counting itself.
AllocatingInUncounted(t) ==
    /\ "allocating_in" \in Calls
    /\ pc[t] = "user"
    /\ held[t] > 0
    /\ depth[t] < MaxDepth
    /\ depth' = [depth EXCEPT ![t] = @ + 1]
    /\ held' = [held EXCEPT ![t] = @ + 1]
    /\ UNCHANGED <<wordVars, out, pc, then, requestedAt, infoLock, clock,
                   lastRun, commands, signalled, token, collectorVars>>

\* CollectionGuard::allocating_in: from a guard that holds its read lock.
AllocatingIn(t) ==
    /\ "allocating_in" \in Calls
    /\ pc[t] = "user"
    /\ held[t] > 0
    /\ depth[t] < MaxDepth
    /\ depth' = [depth EXCEPT ![t] = @ + 1]
    /\ CountReader(t)
    /\ UNCHANGED <<out, pc, then, requestedAt, infoLock, clock, lastRun,
                   commands, signalled, token, collectorVars>>

\* CollectionGuard::try_acquire.  The depth is pushed first, and the early
\* return of a failed read leaves it pushed.
TryAcquire(t) ==
    /\ "try_acquire" \in Calls
    /\ pc[t] = "user"
    /\ depth[t] < MaxDepth
    /\ out[t] => "acquire_while_unlocked" \in Calls
    /\ depth' = [depth EXCEPT ![t] = @ + 1]
    /\ IF depth[t] = 0 /\ collecting
       THEN UNCHANGED <<wordVars, held>>
       ELSE CountReader(t)
    /\ UNCHANGED <<out, pc, then, requestedAt, infoLock, clock, lastRun,
                   commands, signalled, token, collectorVars>>

\* Dropping a guard: first the thread's depth, then the reader count.
DropGuard(t) ==
    /\ pc[t] = "user"
    /\ held[t] > 0
    /\ depth' = [depth EXCEPT ![t] = @ - 1]
    /\ UncountReader(t, "user")
    /\ UNCHANGED <<out, requestedAt, infoLock, clock, lastRun, commands,
                   signalled, token, collectorVars>>

\* Faulty variant: a guard that is released already is released again.
ReleaseTwice(t) ==
    /\ pc[t] = "user"
    /\ depth[t] = 1
    /\ out' = [out EXCEPT ![t] = TRUE]
    /\ UNCHANGED <<depth, infoLock, lastRun, commands, signalled, token,
                   collectorVars>>

\* The thread's one guard gives up its read lock while a closure runs.
Release(t) ==
    /\ pc[t] = "user"
    /\ depth[t] = 1
    /\ held[t] > 0
    /\ out' = [out EXCEPT ![t] = TRUE]
    /\ UNCHANGED <<depth, infoLock, lastRun, commands, signalled, token,
                   collectorVars>>

\* try_while_unlocked; with another guard it returns WouldDeadlock.
WhileUnlocked(t) ==
    /\ "while_unlocked" \in Calls
    /\ Release(t)
    /\ UncountReader(t, "user")
    /\ UNCHANGED <<clock, requestedAt>>

\* coordinated_yield and yield_to_collector: only if the bit is set.
YieldToCollector(t) ==
    /\ "yield" \in Calls
    /\ Release(t)
    /\ collecting
    /\ UncountReader(t, "user")
    /\ UNCHANGED <<clock, requestedAt>>

\* The closure returns (or calls Yielder::wait): the guard reacquires.
Relock(t) ==
    /\ pc[t] = "user"
    /\ out[t]
    /\ Goto(t, "read")
    /\ UNCHANGED <<wordVars, depth, held, out, then, requestedAt, infoLock,
                   clock, lastRun, commands, signalled, token, collectorVars>>

\* collector_unparker.unpark().
Unpark(t) ==
    /\ pc[t] = "unpark"
    /\ token' = TRUE
    /\ Goto(t, then[t])
    /\ UNCHANGED <<wordVars, depth, held, out, then, requestedAt, infoLock,
                   clock, lastRun, commands, signalled, collectorVars>>

-----------------------------------------------------------------------------
(* CollectorReadGuard::acquire_reader.                                     *)

\* read() succeeds: the guard is (again) counted and control returns.
Enter(t) ==
    /\ ~collecting
    /\ CountReader(t)
    /\ out' = [out EXCEPT ![t] = FALSE]
    /\ Goto(t, "user")

\* The first read(), without the mutex.
Read(t) ==
    /\ pc[t] = "read"
    /\ \/ Enter(t)
       \/ /\ collecting
          /\ Goto(t, "lock")
          /\ UNCHANGED <<wordVars, held, out>>
    /\ UNCHANGED <<depth, then, requestedAt, infoLock, clock, lastRun,
                   commands, signalled, token, collectorVars>>

LockInfo(t) ==
    /\ pc[t] = "lock"
    /\ infoLock = NoOne
    /\ infoLock' = t
    /\ Goto(t, "reread")
    /\ UNCHANGED <<wordVars, depth, held, out, then, requestedAt, clock,
                   lastRun, commands, signalled, token, collectorVars>>

\* Faulty variant: an if for the while, so a woken thread takes its guard.
RereadOnce(t) ==
    /\ pc[t] = "reread"
    /\ \/ /\ CountReader(t)
          /\ out' = [out EXCEPT ![t] = FALSE]
          /\ Goto(t, "user")
          /\ infoLock' = NoOne
       \/ /\ collecting
          /\ Goto(t, "park")
          /\ UNCHANGED <<wordVars, held, out, infoLock>>
    /\ UNCHANGED <<depth, then, requestedAt, clock, lastRun, commands,
                   signalled, token, collectorVars>>

\* The read() of the loop, under the mutex.
Reread(t) ==
    /\ pc[t] = "reread"
    /\ \/ Enter(t) /\ infoLock' = NoOne
       \/ /\ collecting
          /\ Goto(t, "park")
          /\ UNCHANGED <<wordVars, held, out, infoLock>>
    /\ UNCHANGED <<depth, then, requestedAt, clock, lastRun, commands,
                   signalled, token, collectorVars>>

\* collection_sync.wait(), here and in wait_for_collection: the mutex is
\* released and the thread sleeps until it is notified.
Wait(t) ==
    /\ infoLock' = NoOne
    /\ \/ pc[t] = "park" /\ Goto(t, "parked")
       \/ pc[t] = "wait" /\ Goto(t, "awaiting")
    /\ UNCHANGED <<wordVars, depth, held, out, then, requestedAt, clock,
                   lastRun, commands, signalled, token, collectorVars>>

-----------------------------------------------------------------------------
(* Explicit collections and the request a dropped root makes.              *)

\* Instant::now() of collect_unchecked.
TakeInstant(t) ==
    /\ clock < MaxRequests
    /\ clock' = clock + 1
    /\ requestedAt' = [requestedAt EXCEPT ![t] = clock + 1]

\* refuse::collect and try_collect: refused if the thread has a guard.
CollectUnguarded(t) ==
    /\ "collect" \in Calls
    /\ pc[t] = "user"
    /\ depth[t] = 0
    /\ TakeInstant(t)
    /\ Goto(t, "send")
    /\ UNCHANGED <<wordVars, depth, held, out, then, infoLock, lastRun,
                   commands, signalled, token, collectorVars>>

\* CollectionGuard::collect and try_collect: try_while_unlocked(collect_unchecked).
CollectGuarded(t) ==
    /\ "guard_collect" \in Calls
    /\ Release(t)
    /\ TakeInstant(t)
    /\ UncountReader(t, "send")

\* CollectorCommand::send; a full channel blocks the sender.
SendCollect(t) ==
    /\ pc[t] = "send"
    /\ Len(commands) < ChannelCap
    /\ commands' = Append(commands, Collect(requestedAt[t]))
    /\ Goto(t, "await")
    /\ UNCHANGED <<wordVars, depth, held, out, then, requestedAt, infoLock,
                   clock, lastRun, signalled, token, collectorVars>>

\* wait_for_collection: under the mutex, last_run is compared with the request.
AwaitCollection(t) ==
    /\ pc[t] = "await"
    /\ infoLock = NoOne
    /\ IF lastRun < requestedAt[t]
       THEN Goto(t, "wait") /\ infoLock' = t
       ELSE Goto(t, IF out[t] THEN "read" ELSE "user") /\ UNCHANGED infoLock
    /\ UNCHANGED <<wordVars, depth, held, out, then, requestedAt, clock,
                   lastRun, commands, signalled, token, collectorVars>>

\* Faulty variant: the flag is set and the command is not sent.
RequestScheduleUnsent(t) ==
    /\ "drop_root" \in Calls
    /\ pc[t] = "user"
    /\ ~signalled
    /\ signalled' = TRUE
    /\ UNCHANGED <<wordVars, threadVars, infoLock, clock, lastRun, commands,
                   token, collectorVars>>

\* schedule_collect_if_needed, called when the last root of an object is
\* dropped and when a slab is full: the compare_exchange.
RequestSchedule(t) ==
    /\ "drop_root" \in Calls
    /\ pc[t] = "user"
    /\ ~signalled
    /\ signalled' = TRUE
    /\ Goto(t, "signal")
    /\ UNCHANGED <<wordVars, depth, held, out, then, requestedAt, infoLock,
                   clock, lastRun, commands, token, collectorVars>>

SendSchedule(t) ==
    /\ pc[t] = "signal"
    /\ Len(commands) < ChannelCap
    /\ commands' = Append(commands, ScheduleCollect)
    /\ Goto(t, "user")
    /\ UNCHANGED <<wordVars, depth, held, out, then, requestedAt, infoLock,
                   clock, lastRun, signalled, token, collectorVars>>

-----------------------------------------------------------------------------
(* The collector thread.                                                   *)

CGoto(label) == cpc' = label

\* Faulty variant: a request is left to the run that is scheduled anyway.
RecvCollectLazy ==
    /\ cpc = "recv"
    /\ commands # <<>>
    /\ Head(commands).op = "Collect"
    /\ infoLock = NoOne
    /\ commands' = Tail(commands)
    /\ CGoto(IF lastRun < Head(commands).at /\ ~nextGc THEN "attempt" ELSE "recv")
    /\ UNCHANGED <<wordVars, threadVars, infoLock, clock, lastRun, signalled,
                   token, gcFinish, nextGc, pauseFailures>>

\* Collector::run on Collect(requested_at): under the mutex, only a request
\* that is newer than the last run starts an attempt.
RecvCollect ==
    /\ cpc = "recv"
    /\ commands # <<>>
    /\ Head(commands).op = "Collect"
    /\ infoLock = NoOne
    /\ commands' = Tail(commands)
    /\ CGoto(IF lastRun < Head(commands).at THEN "attempt" ELSE "recv")
    /\ UNCHANGED <<wordVars, threadVars, infoLock, clock, lastRun, signalled,
                   token, gcFinish, nextGc, pauseFailures>>

\* Faulty variant: the command is taken and no run is scheduled.
RecvScheduleDropped ==
    /\ cpc = "recv"
    /\ commands # <<>>
    /\ Head(commands) = ScheduleCollect
    /\ commands' = Tail(commands)
    /\ UNCHANGED <<wordVars, threadVars, infoLock, clock, lastRun, signalled,
                   token, cpc, gcFinish, nextGc, pauseFailures>>

\* Collector::run on ScheduleCollect.
RecvSchedule ==
    /\ cpc = "recv"
    /\ commands # <<>>
    /\ Head(commands) = ScheduleCollect
    /\ commands' = Tail(commands)
    /\ nextGc' = TRUE
    /\ UNCHANGED <<wordVars, threadVars, infoLock, clock, lastRun, signalled,
                   token, cpc, gcFinish, pauseFailures>>

\* next_command: recv_deadline times out when no command is there.
TimerFires ==
    /\ cpc = "recv"
    /\ commands = <<>>
    /\ nextGc
    /\ CGoto("attempt")
    /\ UNCHANGED <<wordVars, threadVars, infoLock, clock, lastRun, commands,
                   signalled, token, gcFinish, nextGc, pauseFailures>>

\* collect_and_notify up to ReaderState::write, which sets the bit and tells
\* whether there was no reader.
StartAttempt ==
    /\ cpc = "attempt"
    /\ nextGc' = FALSE
    /\ collecting' = TRUE
    /\ CGoto(IF readers = 0 THEN "exclusive" ELSE "check")
    /\ UNCHANGED <<readers, threadVars, infoLock, clock, lastRun, commands,
                   signalled, token, gcFinish, pauseFailures>>

\* Faulty variant: the collector does not wait for the last reader.
CheckReadersOffByOne ==
    /\ cpc = "check"
    /\ CGoto(IF readers <= 1 THEN "exclusive" ELSE "park")
    /\ UNCHANGED <<wordVars, threadVars, infoLock, clock, lastRun, commands,
                   signalled, token, gcFinish, nextGc, pauseFailures>>

\* acquire_all_locks: the condition of the waiting loop.
CheckReaders ==
    /\ cpc = "check"
    /\ CGoto(IF readers = 0 THEN "exclusive" ELSE "park")
    /\ UNCHANGED <<wordVars, threadVars, infoLock, clock, lastRun, commands,
                   signalled, token, gcFinish, nextGc, pauseFailures>>

ForceGc == pauseFailures >= 2

\* park() or park_deadline() returns because of an unpark; an attempt that is
\* not forced then compares the time with its deadline.
ParkUnparked ==
    /\ cpc = "park"
    /\ token
    /\ token' = FALSE
    /\ \/ CGoto("check")
       \/ ~ForceGc /\ CGoto("deadline")
    /\ UNCHANGED <<wordVars, threadVars, infoLock, clock, lastRun, commands,
                   signalled, gcFinish, nextGc, pauseFailures>>

\* park_deadline() times out.
ParkTimeout ==
    /\ cpc = "park"
    /\ ~ForceGc
    /\ ~token
    /\ CGoto("deadline")
    /\ UNCHANGED <<wordVars, threadVars, infoLock, clock, lastRun, commands,
                   signalled, token, gcFinish, nextGc, pauseFailures>>

\* Past the deadline: give up, unless the last reader has just left.
DeadlinePassed ==
    /\ cpc = "deadline"
    /\ CGoto(IF readers > 0 THEN "abort" ELSE "check")
    /\ UNCHANGED <<wordVars, threadVars, infoLock, clock, lastRun, commands,
                   signalled, token, gcFinish, nextGc, pauseFailures>>

\* release_write() of an attempt that gives up.
AbortRelease ==
    /\ cpc = "abort"
    /\ collecting' = FALSE
    /\ CGoto("abortNotify")
    /\ UNCHANGED <<readers, threadVars, infoLock, clock, lastRun, commands,
                   signalled, token, gcFinish, nextGc, pauseFailures>>

\* collection_sync.notify_all().
NotifyAll ==
    pc' = [t \in Threads |-> CASE pc[t] = "parked"   -> "lock"
                               [] pc[t] = "awaiting" -> "await"
                               [] OTHER              -> pc[t]]

\* The rest of an attempt that gave up: both collect and collect_and_notify
\* add one to pause_failures, and another attempt is scheduled.
AbortNotify ==
    /\ cpc = "abortNotify"
    /\ NotifyAll
    /\ pauseFailures' = pauseFailures + 2
    /\ nextGc' = TRUE
    /\ gcFinish' = clock
    /\ CGoto("stamp")
    /\ UNCHANGED <<wordVars, depth, held, out, then, requestedAt, infoLock,
                   clock, lastRun, commands, signalled, token>>

\* collect with the lock acquired: marking and sweeping happen in the state
\* "exclusive" and end with this step.  The pools of live threads are
\* registered, so thread_bins is not empty and the next run is scheduled.
FinishCollection ==
    /\ cpc = "exclusive"
    /\ pauseFailures' = 0
    /\ nextGc' = TRUE
    /\ gcFinish' = clock
    /\ CGoto("stamp")
    /\ UNCHANGED <<wordVars, threadVars, infoLock, clock, lastRun, commands,
                   signalled, token>>

\* Slot::sweep drops a value, the value drops the last Root of an object, and
\* that Root asks for a collection in the middle of this one.
SweepDropsRoot ==
    /\ "root_in_value" \in Calls
    /\ cpc = "exclusive"
    /\ ~signalled
    /\ signalled' = TRUE
    /\ CGoto("sweepSignal")
    /\ UNCHANGED <<wordVars, threadVars, infoLock, clock, lastRun, commands,
                   token, gcFinish, nextGc, pauseFailures>>

\* The collector sends to the channel that only itself receives from.
SweepSendsSchedule ==
    /\ cpc = "sweepSignal"
    /\ Len(commands) < ChannelCap
    /\ commands' = Append(commands, ScheduleCollect)
    /\ CGoto("exclusive")
    /\ UNCHANGED <<wordVars, threadVars, infoLock, clock, lastRun, signalled,
                   token, gcFinish, nextGc, pauseFailures>>

\* Faulty variant: last_run is written without the mutex.
StampLastRunUnlocked ==
    /\ cpc = "stamp"
    /\ lastRun' = gcFinish
    /\ CGoto("release")
    /\ UNCHANGED <<wordVars, threadVars, infoLock, clock, commands, signalled,
                   token, gcFinish, nextGc, pauseFailures>>

\* collect_and_notify: info.last_run = gc_finish, under the mutex.
StampLastRun ==
    /\ cpc = "stamp"
    /\ infoLock = NoOne
    /\ lastRun' = gcFinish
    /\ CGoto("release")
    /\ UNCHANGED <<wordVars, threadVars, infoLock, clock, commands, signalled,
                   token, gcFinish, nextGc, pauseFailures>>

\* release_write(), after the mutex was released.
ReleaseWrite ==
    /\ cpc = "release"
    /\ collecting' = FALSE
    /\ CGoto("notify")
    /\ UNCHANGED <<readers, threadVars, infoLock, clock, lastRun, commands,
                   signalled, token, gcFinish, nextGc, pauseFailures>>

\* Faulty variant: nobody is notified.
NotifyForgotten ==
    /\ cpc = "notify"
    /\ CGoto("unsignal")
    /\ UNCHANGED <<wordVars, threadVars, infoLock, clock, lastRun, commands,
                   signalled, token, gcFinish, nextGc, pauseFailures>>

\* collection_sync.notify_all() of collect_and_notify.
Notify ==
    /\ cpc = "notify"
    /\ NotifyAll
    /\ CGoto("unsignal")
    /\ UNCHANGED <<wordVars, depth, held, out, then, requestedAt, infoLock,
                   clock, lastRun, commands, signalled, token, gcFinish,
                   nextGc, pauseFailures>>

\* signalled_collector.store(false).
ClearSignal ==
    /\ cpc = "unsignal"
    /\ signalled' = FALSE
    /\ CGoto("recv")
    /\ UNCHANGED <<wordVars, threadVars, infoLock, clock, lastRun, commands,
                   token, gcFinish, nextGc, pauseFailures>>

-----------------------------------------------------------------------------
\* What a thread does once it is inside a call of the library.
InCall(t) ==
    \/ Unpark(t)
    \/ Read(t)
    \/ LockInfo(t)
    \/ Reread(t)
    \/ Wait(t)
    \/ SendCollect(t)
    \/ AwaitCollection(t)
    \/ SendSchedule(t)

\* What the program decides to call.
Call(t) ==
    \/ Acquire(t)
    \/ AllocatingIn(t)
    \/ TryAcquire(t)
    \/ DropGuard(t)
    \/ WhileUnlocked(t)
    \/ YieldToCollector(t)
    \/ Relock(t)
    \/ CollectUnguarded(t)
    \/ CollectGuarded(t)
    \/ RequestSchedule(t)

CollectorStep ==
    \/ RecvCollect
    \/ RecvSchedule
    \/ TimerFires
    \/ StartAttempt
    \/ CheckReaders
    \/ ParkUnparked
    \/ ParkTimeout
    \/ DeadlinePassed
    \/ AbortRelease
    \/ AbortNotify
    \/ FinishCollection
    \/ SweepDropsRoot
    \/ SweepSendsSchedule
    \/ StampLastRun
    \/ ReleaseWrite
    \/ Notify
    \/ ClearSignal

Next ==
    \/ \E t \in Threads : InCall(t) \/ Call(t)
    \/ CollectorStep

Spec == Init /\ [][Next]_vars

-----------------------------------------------------------------------------
(* Safety.                                                                 *)

\* The guards of threads that have h[t] each, numbered from 1.
GuardsOf(h) == {g \in Threads \X (1..MaxDepth) : g[2] <= h[g[1]]}

\* The collector marks and sweeps.
Exclusive == cpc \in {"exclusive", "sweepSignal"}

\* While the collector marks and sweeps, no thread has a guard that may read
\* the heap: "A guard that prevents garbage collection while held" (lib.rs:888).
GuardExcludesCollector == Exclusive => \A t \in Threads : held[t] = 0

\* The reader word counts every guard exactly once, however acquisitions,
\* nested guards, yields and aborted attempts interleave.
ReadersCounted == readers = Cardinality(GuardsOf(held))

\* A command waits in the channel.
Queued(command) == \E i \in DOMAIN commands : commands[i] = command

\* The unpark that the last reader owes is never lost: a collector that sleeps
\* in park with no reader left has its token, or a thread is about to set it.
CollectorWillWake ==
    cpc = "park" /\ readers = 0 /\ ~token => \E t \in Threads : pc[t] = "unpark"

\* wait_for_collection has no lost wakeup: a thread asleep in it whose request
\* is satisfied is about to be notified, last_run changing under the mutex.
WaiterWillBeNotified ==
    \A t \in Threads :
        pc[t] = "awaiting" /\ lastRun >= requestedAt[t] =>
            cpc \in {"release", "notify"}

\* The request of thread t is queued, or an attempt that ends after it is on.
Served(t) ==
    \/ Queued(Collect(requestedAt[t]))
    \/ cpc \in {"attempt", "check", "park", "deadline", "abort", "abortNotify",
                "exclusive", "sweepSignal"}
    \/ cpc = "stamp" /\ gcFinish >= requestedAt[t]

\* A collect call that is waiting is never forgotten: its command is queued,
\* or an attempt is under way that ends after the call.
RequestIsServed ==
    \A t \in Threads :
        pc[t] \in {"await", "wait", "awaiting"} /\ lastRun < requestedAt[t] =>
            Served(t)

\* signalled_collector stays set only as long as it stands for a collection to
\* come; otherwise every later request would be dropped by its compare_exchange.
SignalStandsForWork ==
    signalled =>
        \/ \E t \in Threads : pc[t] = "signal"
        \/ Queued(ScheduleCollect)
        \/ nextGc
        \/ cpc # "recv"

\* The guards implement the gate: a first guard is never taken behind a set
\* collecting bit, and marking starts only when every guard is gone.
Gate == INSTANCE ExclusiveAccess WITH
            inside    <- {t \in Threads : held[t] > 0},
            closed    <- collecting,
            exclusive <- Exclusive

ImplementsGate == Gate!Spec

-----------------------------------------------------------------------------
(* Liveness.                                                               *)

\* No woken thread is on its way from the condition variable to its read().
WokenThreadsSettled == \A t \in Threads : pc[t] \notin {"lock", "reread"}

\* The timer's pauses (average_collection after a failure, 5 times that after a
\* ScheduleCollect, 100 times and at least 100 ms after a collection) are longer
\* than it takes a thread that the last attempt woke to get to its read().
TimelyNext ==
    \/ \E t \in Threads : InCall(t) \/ Call(t)
    \/ CollectorStep /\ (TimerFires => WokenThreadsSettled)

\* The operating system runs every thread that can run, and the mutex and the
\* channel serve every thread that keeps asking; the program drops the guards it
\* takes, the nested ones and, again and again, the first one.
Fairness ==
    /\ WF_vars(CollectorStep)
    /\ \A t \in Threads :
        /\ SF_vars(InCall(t))
        /\ WF_vars(DropGuard(t))
        /\ SF_vars(held[t] = 1 /\ DropGuard(t))

FairSpec == Init /\ [][TimelyNext]_vars /\ Fairness

\* acquire() returns: a thread that asks for a guard gets it, though it may
\* meet aborted attempts and miss a notification.
AcquireReturns ==
    \A t \in Threads : pc[t] = "read" ~> held[t] > 0

\* collect() returns, and the guard it was called on is held again.
CollectReturns ==
    \A t \in Threads : pc[t] = "send" ~> pc[t] = "user"

\* Dropping the last root of an object leads to a collection that gets its
\* exclusive access, whatever the guards of the other threads do.
RequestLeadsToCollection == signalled ~> cpc = "exclusive"
===============================================================================
