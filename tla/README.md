# refuse, in TLA+

A verification project for [refuse](https://github.com/khonsulabs/refuse), a
tracing garbage collector for Rust: TLA+ modules translated from its source,
TLC instances that check them, and proofs checked by TLAPS. `lib.rs` is
`src/src/lib.rs` and `refuse-pool` is `src/refuse-pool/src/lib.rs` throughout.

1. [The system](#the-system)
2. [Modules](#modules)
3. [Runs](#runs)
4. [What the runs show](#what-the-runs-show)
5. [Where the documentation and the code differ](#where-the-documentation-and-the-code-differ)
6. [Proofs](#proofs)
7. [What is not modelled](#what-is-not-modelled)
8. [Plan](#plan)

## The system

| Component | State | Operations | Hard because |
|---|---|---|---|
| **Guards and exclusive access** (lib.rs 164-537, 641-1137, 2694-2745) | `ReaderState` (collecting bit and reader count in one atomic word), the depth of each thread, the mutex `info` with `last_run`, the condition variable `collection_sync`, the command channel, `signalled_collector`, the collector's `Parker`, `next_gc`, `pause_failures` | acquire, try_acquire, allocating_in, drop, while_unlocked, yield, collect, the signal of a dropped root; the collector's loop, its attempts with deadline, abort and retry | threads and the collector meet in lock-free code, with lost-wakeup windows, timeouts that race the last reader, and requests that come while a collection runs |
| **Slot store** (lib.rs 2010-2679) | per type and pool a `Bin`: chain of `Slabs`, 256 `Slab`s each, 256 `Slot`s each; slot states (allocated, generation, mark), a free list through the slots, `last_allocated`, root counts | adopt (three ways), load, root and clone and drop, trace, mark, sweep | slots are reused while stale Refs exist; mark bits wrap; free list and `last_allocated` are changed by two threads' code that never runs at once |
| **Mark phase** (lib.rs 288-312, 454-524, 2180-2203) | tracer threads, a channel of 128 trace requests, a channel of 1024 mark requests, the `Arc` of the sender and its count, mark bits | send trace requests, scan a bin, send what is rooted, mark and trace one, stop when no other sender is left, sweep | bounded channels in a cycle; termination by reference count; roots that are dropped meanwhile |
| **Pool lifetimes** (lib.rs 312-358, 525-535, 580-740) | `all_threads`, `thread_bins`, `active_threads`, `next_gc`, the strong and `Weak` references to the bins of a pool | create and drop pools, NewThread, ThreadShutdown, loads from other pools, removal of empty pools | registration is a message, so the collector's view lags; `strong_count` decides; a lock that is held while sending |
| **Type registration** (lib.rs 2748-2766, 2042-2064) | `type_indexes`, `by_type` | `TypeIndex::of`, first adopt of a type | look-up and insertion under different locks |
| **String interner** (refuse-pool) | a table of entries that hold a `RootString` or a `RefString`, one mutex | `RootString::new`, `RefString::new`, `as_root`, clone, drop | the drop acts on a count read before it has the mutex, and nests |
| **Typed and untyped references** (lib.rs 1545-1985, 2771-3100) | none of their own | load, upgrade, conversions | stale handles |
| **Trace implementations and derive macros** (lib.rs 1163-1490, 3054-3070, refuse-macros) | none | `MAY_CONTAIN_REFERENCES` and `trace` of containers, structs and enums | the mark phase relies on what they return |
| **Tests, benchmarks, examples** | none | | |

How they interact: a thread allocates and loads in its pool's slot store while
its guard keeps the collector away; dropping a root signals the collector over
the channel; the collector gets exclusive access through the reader word, marks
from the root counts of all registered pools with the help of its tracers,
sweeps, forgets the dropped pools that are empty, and notifies the threads that
wait. What it drops in a sweep may drop further Roots. The interner is a client
of all that: its entries are Roots and Refs.

What makes each component correct:

* guards: marking never overlaps a guard; every guard is counted once; no
  wakeup, notification, request or signal is lost; acquire and collect return;
* slot store: a Ref loads its own value or nothing; what a Root reaches stays,
  what none reaches goes; the free list has every free slot once;
* mark phase: everything reachable is marked, marking ends;
* lifetimes: what is reachable stays whatever becomes of its pool, the collector
  hears of each pool in order and counts it once, and the storage of a dropped
  pool goes away;
* interner: one allocation per string; a string that nobody holds is released.

## Modules

| Module | What it is |
|---|---|
| `CollectionGuards` | guards, reader word, condition variable, command channel and collector loop, one action per atomic operation, lock, wait, send or unpark |
| `ExclusiveAccess` | the abstract specification of that: a gate the collector closes |
| `CollectionGuardsProofs` | the proofs about `CollectionGuards` |
| `MCCollectionGuards` | its instances for TLC (adds the symmetry set) |
| `Bin` | the slot store of one type of one pool, from allocation to sweep |
| `Heap` | the abstract specification of that: live values, links, root handles |
| `MCBin` | its instances for TLC |
| `BinProofs` | the proofs about `Bin`, and that it implements `Heap` |
| `BinFreeListProofs` | the proof about its free list, on top of those |
| `BinTypeProofs` | its type correctness, for chains of any length |
| `MarkPhase` | tracers, both channels, the count of senders and the collector's loop |
| `Collection` | the abstract specification of that: what one collection may free |
| `Traceable` | the implementations of `Trace`, and what `derive(Trace)` generates |
| `MCMarkPhase` | the instances of `MarkPhase`, with types built from `Traceable` |
| `MarkPhaseProofs` | the proofs about `MarkPhase` |
| `Pools` | pools, their registration, loads across pools, their end |
| `MCPools` | its instances for TLC |
| `PoolsProofs` | the proofs about `Pools` |
| `StringPool` | the interner, followed for one string |
| `MCStringPool` | its instances for TLC |
| `StringPoolProofs` | the proofs about `StringPool` |

### CollectionGuards

`pc[t]` is where a thread is (in the program, or between two atomic steps of a
call) and `cpc` where the collector is; `cpc = "exclusive"` stands for marking
and sweeping. A swept value that has a Root drops it there, on the collector's
own thread: it sets `signalled_collector` (`SweepDropsRoot`) and sends to the
channel that only the collector receives from (`SweepSendsSchedule`, in
`"sweepSignal"`). `held[t]` is how many guards of `t` are counted in the word,
`depth[t]` is `ThreadPool::guard_depth`. They differ while a guard is unlocked
(`out[t]`), and after a failed `try_acquire`.

Instants are counted: the clock ticks at each collect call, because only
comparisons of `last_run` with the Instant of a request are ever made. Durations
are left out: a deadline may pass at any time (`ParkTimeout`, `ParkUnparked`) and
the timer may fire whenever it is set and the channel is empty (`TimerFires`).
Cas loops are one step, since a failed compare_exchange changes nothing.
Memory is sequentially consistent. The Parker keeps its token, as parking_lot
does. The condition variable has no spurious wakeups: they would only
add a turn of a loop. The collector's bookkeeping of pools is left out; the
pools of live threads are registered, so the next run is always scheduled.

`Calls` says which calls a program makes. `UsualCalls` are those of the README
and the tests, and values that hold Roots (`root_in_value`). `try_acquire` and a guard acquired while the thread's other guard
is unlocked are as legal, and are switched on where a run is about them.

### Bin and Heap

One action per way an allocation finds its slot (`AdoptFree`, `AdoptBump`,
`AdoptNewSlab`, `AdoptNewChunk`), `Upgrade`, `CloneRoot` and `DropRoot`,
`Relink` for a value that holds its Ref behind a lock, `Abort` for an attempt
that changed the mark bits and no more, `Mark` and `Sweep`. Only the pool's
thread allocates, under a guard, and the collector runs when there is none
(`CollectionGuards`), so an adopt and a sweep need not be split up. Roots are
cloned and dropped at any time, between `Mark` and `Sweep` too. `Mark` reads all
root counts at once where the code reads them one after the other: a handle
that exists can be cloned or dropped meanwhile, but none can come from nothing,
as an upgrade needs a guard.

A value is its number and the Ref in it (`link`), which may be of a value that
was collected or of itself. `handles` is what the program holds; `roots` in the
slot is what the code counts.

The typeless handles are the typed ones with a check of the type, so one set of
actions stands for both, but for one conversion: with `"try_from_any"` in
`Calls`, `Root::try_from_any` takes the count that an `AnyRoot` had away from
the Root it returns (`Returned`). No passing run makes that call.

`Heap` says what this is for: values stay while a Root reaches them, and a
collection removes exactly those that nothing reached when it marked. In the
refinement (`Promise` in `Bin`) a value is live if its Ref loads it, and what
the collection found is what carries the current mark bits (`MarkedValues`).

What is reached from a Root is stated the same way in all modules: the least set
that has the roots and is closed under Refs, the intersection of all such sets
(`Reachable`, `MarkedSlots`). `Mark` marks the least set of slots that is closed
under tracing, which is what the mark phase, followed step by step in
`MarkPhase`, ends with. The free list is not a sequence either: `FollowsFreeList`
says of a sequence of BinIds that the links of the slots lead along it.

### MarkPhase, Collection and Traceable

A value is a slot and a generation; a value that is not in `live` stands for a
stale Ref. Every receive, send, check of the count and scanned slot is a step.
`StrongCount` is computed from what holds a clone of the Arc: the collector,
each request in either channel, and each tracer at work. The `recv_timeout` may
run out whenever the channel is empty. `DropRoot` may come between any two
steps. The heap that a collection starts with is any: `Init` chooses the live
values, their contents, and the roots.

`content[o].traced` is what `Trace::trace` marks and `content[o].refs` what the
value really refers to; `TraceContract` says that they agree, and that a type
without `MAY_CONTAIN_REFERENCES` has no Ref. `Traceable` has both sides of every
implementation of `Trace` in lib.rs and of `derive(Trace)`, and `MCMarkPhase`
builds its two types from them: a struct of an enum, an ignored Ref and a Root,
where the enum has an ignored variant and one with a `Vec` of `HashMap`s keyed by
Refs, and a leaf. A field that the program told `derive` to ignore is not among
its `refs`: that it is kept alive otherwise is the program's promise.

`Collection` says what one collection may do: free what no Root reached when it
began, keep what a Root still reaches when it ends.

### Pools

Guards are the gate of `ExclusiveAccess`, whose actions `Pools` uses as conjuncts
of its own (`Gate!Enter`, `Gate!Begin`, ...): `CollectionGuards` is shown to
implement it. Marking and sweeping are one step, `Collect`, with the result that
`Collection` and `Heap` promise. What is detailed is what lies between the
pools: `LocalPool::default` is a step up to its send and one for the send and
what follows, so that the lock of `all_threads` is seen held; a load from another pool upgrades
the `Weak` in one step and drops it in the next; `BinsExist` says from these who
still keeps the bins.

NewThread is a message and nothing waits for it: a thread allocates as soon as it
has a guard (`Allocate`), and values in other pools get Refs of its values, while
the command is still in the channel. A collection that runs meanwhile does not
scan the pool. If a scanned value has a Ref of it the Index at 498 panics and the
collector thread is gone (`cpc = "panicked"`); there the model stops (`Dead`), as
a panicked collector leaves the gate closed. Otherwise the collection goes by the
values of the pool, and what only they reach is freed. The history variable
`missed` has the values whose Refs the collector need not have followed: those
that a collection went by, and those whose Ref was stale when it was stored. No
action reads it. `Followed` is what Roots and references reach through the Refs
of the others, and the safety properties say exactly that far what the code keeps.

A collection begins for one of two reasons, as in the code: a Collect command that
was sent after the last run ended (`RequestCollect`, `RecvCollect`), or the timer,
with an empty channel, once `next_gc` is set (`scheduled`, `TimerFires`). It is set
by a ScheduleCollect, which `DropRoot` sends if `signalled` was clear, and at the
end of a collection, unless no pool is left (`Stamp`). NewThread and ThreadShutdown
set nothing. A Collect command that is in the channel when a run ends becomes a
`ServedCommand`, which is what the comparison of `last_run` with its Instant says.
`waiting` are the threads in `wait_for_collection`.

`Kept` are pools that outlive the run. It is not empty in the passing run: with
no pool left the collector drops all bins at once (below). `Calls` switches on
the drop of a pool while another thread loads from it, with its consequence in
[Met while modelling](#met-while-modelling).

### StringPool

Entries of different strings never touch each other, so the module follows the
values that were ever allocated for one string. A step under the mutex is one
action; root counts are read and changed without it. `dropping[t]` is the stack
of nested `RootString::drop`s. The branch of `intern` that finds a weak entry
equal and then cannot upgrade it (refuse-pool 104-109) is unreachable: `equals`
has just loaded the value under the same guard.

## Runs

| Run | Instance | Properties | Distinct states |
|---|---|---|---|
| `guards_safety` | 2 threads, 2 nested guards, 2 collect calls, all usual calls | `TypeOK`, `GuardExcludesCollector`, `ReadersCounted`, `CollectorWillWake`, `WaiterWillBeNotified`, `RequestIsServed`, `SignalStandsForWork`, `ImplementsGate` | 2.1 million |
| `guards_live_acquire` | 2 threads, 2 nested guards, dropped roots, also in sweeps | `AcquireReturns`, `RequestLeadsToCollection` | 26 thousand, fair |
| `guards_live_collect` | 2 threads, 1 guard each, 2 collect calls, try_acquire, Roots dropped in sweeps | `CollectReturns` | 172 thousand, fair |
| `bin_heap` | 2 slabs of 2 slots, 3 values, 2 Root handles each, 3 mark values, 1 abort in a row | `TypeOK`, `LoadIsExact`, `RootPointsToItsValue`, `FreeListSound`, `LastAllocatedCovers`, `ImplementsHeap`, `ReachableStaysLoadable` | 143 thousand |
| `mark_phase` | 2 tracers, 3 values in 2 bins, every heap and root set, 1 trace and 5 mark requests | `TypeOK`, `EndIsComplete`, `ImplementsCollection`, `MarkingEnds` | 465 thousand, fair |
| `pools` | 2 threads, the pool of one is kept and it calls `collect`, 2 values, a channel of 7 | `TypeOK`, `ReachableStays`, `OnlyUnreceivedPoolsAreUnknown`, `CommandsAreExpected`, `ActivePoolsCounted`, `ThreadStorageIsCleanedUp` | 417 thousand, fair |
| `pool` | 3 threads, 3 values, 3 handles each | `TypeOK`, `OneAllocation`, `RootsAccounted`, `NestingIsBounded` | 10 thousand |
| `doc_*` | [see below](#where-the-documentation-and-the-code-differ) | one each | counterexamples |

Bounds, and why they are enough:

* *Threads.* Two threads show every race of a guard with the collector: one is the
  last reader while the other waits for a collection or queues a request. That
  no wakeup, notification, request or signal is lost, for any number of threads
  and all calls, is also proved. The liveness runs have no symmetry, which would
  be unsound there.
* *MaxDepth 2*: the code tells depth 0, 1 and more apart. *MaxRequests 2*: a
  second request may come before, in and after the run for the first.
* *ChannelCap 8* is more than the commands that can be pending in the
  instances, so no send blocks in them (see the hazards for the full channel).
* *Slots.* Three values on four slots fill a slab, open the next, and reuse slots
  with stale Refs around; with `MarkMod` 4 the mark bits wrap after three
  attempts. `MarkMod > MaxAborts + 2` is what 256 mark values and at most one
  failure in a row (`pause_failures`) give. `GenMod > MaxObjects` means that
  generations do not wrap; in the code that takes 2^32 reuses of a slot.
* *Tracers and channels.* Two tracers and two bins let one tracer be idle, at work,
  or blocked while the other is at work. With `TraceCap` 1 the collector waits
  for a place, which in the code takes more than 128 bins. `MarkCap` 5 is just
  what the three values can fill with requests pending before the first is
  received: two from roots of the first bin, one of the second, and two Refs. A
  channel that is too small is the subject of `doc_full_mark_channel`.
* *Pools.* Two pools are one that stays and one of a thread that begins and ends;
  two values are a Ref from either to the other. The only caller of `collect` is
  the thread that stays. At most six commands are ever queued (the two of the pool,
  a served and a new Collect, and a ScheduleCollect from before and one from after
  the end of a run), so with `ChannelCap` 7 no send blocks. With a LocalPool the
  instance has millions of states; a LocalPool differs from the pool of a thread
  in who may enter and drop it. `doc_roots_outlive_pools` has one, and the safety
  properties are proved for any of them. The run reaches the panic: `Dead` is
  taken in it.
* *Interner.* Two handles are enough for a race of drops; three threads let one
  intern while two are in nested drops.

`bin_heap` is confined to one link of the chain of `Slabs`; what happens beyond
it is the subject of `doc_scan_all_slabs`.

## What the runs show

* While the collector is in `"exclusive"` no thread has a guard, and the guards
  refine the gate of `ExclusiveAccess`: no first guard is taken behind a set
  bit, an attempt that gives up opens the gate again.
* The unpark of the last reader is never lost, whichever of release, bit,
  check, park and deadline comes first.
* `wait_for_collection` has no lost wakeup: `last_run` changes under the mutex
  and the notification follows. `acquire_reader` has one, but recovers (below).
* A collect command that arrives while a run is in progress is skipped only if
  the run ended after the call; every waiting call is served.
* `signalled_collector` is never set without work to come, so no later request
  is suppressed for ever.
* A Ref loads its own value or nothing, a Root's value is there and counted,
  the free list has every free slot exactly once, nothing is behind
  `last_allocated`, and a collection frees exactly what was unreachable.
* Marking never ends early: when the sender's `Arc` has one owner, no tracer has a
  value that it found and did not send, and no request is on its way, so all that
  is reachable is marked. It ends, under fairness, if the mark channel has room.
  Roots dropped meanwhile only decide about what they alone reached.
* What a Root or a guard reaches is in memory and loads, while its pool is announced
  and not received, alive, or dropped, unless a collection went by a value on the
  way, or the Ref in one was stale when it was stored; `active_threads` is exact.
  The collector *can* meet a pool that it does not know, and then it dies: the run
  reaches this state, and shows that the pool's NewThread is then in the channel,
  or that the Ref was in a value of the kind just named. The other two places
  where commands could end it, the assert at 327 and the expect at 331, hold.
* If the collector lives, and there is a reason to collect at all (a Root is
  dropped or `collect` called), the bins of a dropped pool whose values nobody
  needs are freed, and its entries with it. The first collection schedules the
  next, so one reason is enough; without any the pool stays for ever (below).
* The interner never has two allocations of a string, loses no root, and
  its drop nests at most two levels deep. (The comment at refuse-pool 216-217
  says the block is not re-entered; it is, harmlessly, as the mutex is free.)

### Fairness

`FairSpec` of `CollectionGuards` is used by its two liveness runs:

* `WF(CollectorStep)`: the collector thread is scheduled.
* `SF(InCall(t))`: a thread inside a call is scheduled, and it gets the mutex,
  a place in the channel or a clear bit if those keep being available.
  parking_lot's mutex hands itself over to a waiter that was starved, and flume
  serves blocked senders in order.
* `WF(DropGuard(t))`, and `SF` for its last guard: the program drops the guards
  it takes. A program that keeps a guard for ever blocks a forced collection; the
  README of refuse asks for guards to be dropped or yielded.
* `TimelyNext`: the timer does not fire while a thread that the last attempt woke
  is still on its way to its `read()`. The code has pauses for it: at least
  100 ms after a collection, the average duration of a collection after an
  aborted attempt. Without it, a reader can be starved by attempts that follow
  each other ever so closely.

`MarkPhase` asks that the collector and each tracer are scheduled
(`WF(CollectorStep)`, `WF(TracerStep(t))`), and no more: no blocked send needs to
win over another one.

`Pools` asks that the collector is scheduled (`WF(CollectorStep)`: the one step
that it can take next, none of which starts a collection without a reason), that
calls go on (`WF(EndLoad(t) \/ Send(t))`), and that no thread keeps its guard for
ever (`SF(DropGuard(t))`). The timer fires only with an empty channel. In the code
a deadline in the past lets flume still take what is queued first.

## Where the documentation and the code differ

Each of these is a run that TLC ends with a counterexample.

* `doc_scan_all_slabs` (lib.rs 2484): `SlabsIter` does not restart its slice
  iterator in the next `Slabs`, so only the first 256 slabs of a bin are traced
  and swept. A value that only a Root in a later slab reaches is collected, and
  values in later slabs never are. The documentation (138-141) says all are
  scanned.
* `doc_try_acquire` (948-957): a failed `try_acquire` leaves the depth pushed; the
  next `acquire` of that thread is taken for a nested one and is granted in the
  middle of a collection. The documentation (888) says a guard prevents
  collection while held. `RefString`'s `Debug` calls `try_acquire`.
* `doc_root_from_any` (1596-1608): `Root::try_from_any` consumes an `AnyRoot`, whose
  drop lowers the count, and returns a Root that was never counted. With one
  handle the count is then 0 and the value is freed under its Root, although the
  documentation of Root says it is not collected while a Root exists (1543-1544).
  `AnyRoot::downcast_root`, which counts, is in order.
* `doc_full_mark_channel` (504): the collector traces a value itself and sends its
  Refs to the channel that it alone receives from. A value with more Refs than
  the channel has free places, 1024 in the code and 1 in the run, stops it for
  ever.
* `doc_roots_outlive_pools` (337): at the ThreadShutdown of the last pool the
  collector clears `thread_bins`, without exclusive access, and frees values that
  Roots still point to. Dropping or using such a Root reads freed memory.

### Met while modelling

Seen in the models with other constants, without a run of their own:

* A new slab in a later `Slabs` is named without its offset (2421), so its first
  Ref or Root is of a slot in the first 256 slabs: `Bin` with `SlabSize = 1`,
  `SlabsPerChunk = 2`, `MaxSlabs = 4`, `GenMod = 8`, `MaxObjects = 4`, `MaxRoots = 1`
  violates `LoadIsExact`.
* A guard acquired in the closure of `while_unlocked` (920-930) is granted in the
  middle of a collection, as in `doc_try_acquire`: `CollectionGuards` with
  `"acquire_while_unlocked"`.
* The word is released and the condition variable notified without the mutex
  (391-392, 417-418), so a reader between its check and its wait misses the
  notification. It sleeps until the next attempt, which the timer brings:
  `AcquireReturns` holds under fairness. If no pool is registered any more, no
  attempt follows.
* With a full command channel the collector waits for itself when a swept value
  drops a Root (2563, 187): `CollectionGuards` with `"root_in_value"`,
  `ChannelCap = 1` deadlocks.
* In the same way `LocalPool::default` blocks on a full channel with the lock of
  `all_threads` that the collector waits for (698, 526): `pools.cfg` with
  `ChannelCap = 1` deadlocks.
* *The collector dies in an ordinary schedule.* `pools.cfg` with the invariant
  `CollectorNeverPanics` is violated in 17 states: `collect` runs once, and sets
  `next_gc`; the timer fires; before the bit is set, a new thread makes its pool,
  whose NewThread stays in the channel, and allocates under a guard; the first
  thread stores a Ref of that value in a rooted one; both guards are dropped, and
  the collection marks the rooted value, traces it, and is asked for a pool that
  `all_bins` does not have: the Index at 498 panics. The documentation says that
  marking "continues until all found references are marked and traced" (143). The
  gate stays closed, so all threads wait for ever.
* *A value that a Root reaches is freed* in the other direction: the new thread's
  rooted value has the only Ref of a value in the pool of the first, and the
  collection that begins before the NewThread is received does not scan it. If
  `missed` does not grow at `Collect`, `ReachableStays` is violated in 13 states. The
  documentation says that the bins "of all threads are scanned" (138-139); a comment
  of the tests (tests.rs:6-7, 23-31) takes the delay for harmless.
* *A pool may stay for ever without a reason to collect.* Without `<>Requested`,
  `ThreadStorageIsCleanedUp` is violated: a thread begins and ends, its commands are
  received, and `next_gc` is None. "When a thread is shut down and all of its data is
  no longer reachable, the thread storage will be cleaned up" (README.md:87-89).
* The last `LocalPool` handle dropped while another thread has its bins upgraded
  (735) sends no ThreadShutdown, and the pool stays for ever: with
  `"drop_during_load"` `ThreadStorageIsCleanedUp` is violated.
* After `thread_bins` was cleared (337) nothing removes the entries of
  `all_threads`.
* Two threads that drop the last two `RootString`s of a string may both read a
  count of 3, and the pool keeps its Root (refuse-pool 196). An `AnyRoot` of an
  interned string that is dropped last has the same effect, as its drop knows
  nothing of the pool.
* `last_run` is set after an aborted attempt too (388-389), so `collect` may return
  without a collection; one aborted attempt adds two to `pause_failures` (380 and
  450), so the second is forced.
* `RefString::new` of a new string leaves the entry rooted, with nothing to make it
  weak again (refuse-pool 356); a `RootString` from `RefString::as_root` whose entry
  is weak has `root_count()` 0, though its documentation says "`self` included"
  (refuse-pool 171-178).

## Proofs

All proofs are for every value of the constants that the named assumptions of the
modules allow; a theorem that needs more says so in its ASSUME. The invariants and
refinements of the modules do not rest on one another: each module takes what it
needs of its neighbours as the shape of its actions, as its section above says.

### The guards

`CollectionGuardsProofs` proves, for every set of threads and every value of the
bounds that `ConstantsAssumption` allows:

| Theorem | States |
|---|---|
| `TypeCorrect` | `TypeOK` |
| `ReadersAlwaysCounted` | `ReadersCounted` |
| `CollectorIsWoken` | `CollectorWillWake` |
| `WaitersAreNotified` | `WaiterWillBeNotified` |
| `RequestsAreServed` | `RequestIsServed` |
| `SignalAlwaysStandsForWork` | `SignalStandsForWork` |
| `Exclusion` | `GuardExcludesCollector`, if `Calls` is within `UsualCalls` |
| `GuardsImplementGate` | `ImplementsGate`, under the same assumption |

The last two need the assumption: `doc_try_acquire`, and a guard acquired in
`while_unlocked`, are their counterexamples without it.

The argument. The base is `CountInv`: type correctness, that the word counts the
guards, and `DepthCoversGuards`, which a type-correct step needs: a thread has
depth for the guards it holds and for the one it is acquiring (`Claim`). The
word is related to guards by counting pairs of thread and guard number, whose set
is finite because guards are added one at a time (`GuardAdded`, `GuardRemoved`).
On top of it, each relative to `CountInv`:

* `WakeInv` adds that the collecting bit follows the collector's place, so that
  the last reader to leave a sleeping collector finds the bit set and unparks;
* `NotifyInv` adds who has the mutex, so that nothing is stamped between a
  waiter's comparison and its wait;
* `ServedInv` adds that Instants are in order: no stamp is ahead of the clock,
  and a request is younger than every run that ended before it;
* `SignalStandsForWork` is inductive with the places of the collector;
* `AloneInv` adds that, with the usual calls, the depth of a thread that is not
  unlocked is exactly its guards, so a nested acquisition comes from a thread
  that is counted, and that in `"exclusive"` the word has no reader;
* `GateInv`, their conjunction, maps every step to a step of `ExclusiveAccess` or
  a stutter (`StepOfGate`), action by action.

### The mark phase

`MarkPhaseProofs` proves, for any values, contents, bins, tracers and capacities
that `MarkPhaseConstants` allows:

| Theorem | States |
|---|---|
| `TypeCorrect` | `TypeOK` |
| `MarkingIsComplete` | `EndIsComplete`, if `TraceContract` |
| `MarkingImplementsCollection` | `ImplementsCollection`, if `TraceContract` |

The argument. `CompleteInv` is inductive (`CompleteInvariant`):

* `TypeOK` and `FoundOK`: a tracer that found a value is at a slot of a bin;
* `HeapOK`: contents are of their types, no Root is added, marks are on live values;
* `Quiet`: all requests were sent before the count is looked at, nothing is left
  to send when it is, and once it was 1 both channels are empty and all tracers
  idle. `LastSender` gets this from the count;
* `RootsSeen`: a rooted value is marked, sent, or in a bin that a tracer has yet to
  scan up to its slot;
* `RefsSeen`: the Refs of a marked value are marked, sent, or about to be sent.

At the end the last two leave only "marked", so the marked values are a set that
contains the roots and is closed under Refs (`MarkedIsClosed`), and what is
reachable, the smallest such set, is within it. For the refinement `OnlyReached`
adds the other direction: nothing is marked or sent that the first roots did not
reach. `Collection` defines reachability by closed sets because that needs no
induction.

### The slot store

`BinProofs`, `BinFreeListProofs` and `BinTypeProofs` prove, for any sizes and
bounds that `BinConstants` allows:

| Theorem | States | Assumes |
|---|---|---|
| `TypeCorrect` | `TypeOK` | |
| `BinInvariant` | the inductive invariant `BinInv` | `OneLink` |
| `SweepSeesEveryValue` | `LastAllocatedCovers` | `OneLink` |
| `RefsAreExact` | `LoadIsExact` | `OneLink` |
| `FreeListIsSound` | `FreeListSound` | `OneLink` |
| `RootsAreSafe` | `RootPointsToItsValue` | `OneLink`, no `"try_from_any"` |
| `SlotsImplementHeap` | `ImplementsHeap` | `OneLink`, no `"try_from_any"` |
| `ReachableIsKept` | `ReachableStaysLoadable` | `OneLink`, no `"try_from_any"` |

`OneLink` is `MaxSlabs <= SlabsPerChunk`: the chain of `Slabs` has one link, which
in the code is room for 65536 values of one type in one pool. Beyond it
values are not traced (`doc_scan_all_slabs`) and Refs name the wrong slots (2421),
so that `BinInv`, `LoadIsExact` and `ReachableStaysLoadable` are false; only type
correctness is claimed there.
With `"try_from_any"` in `Calls` the count of a Root is not the number of its
handles (`doc_root_from_any`); what does not need the count is proved with
that call too. `BinConstants` has `GenMod > MaxObjects` and
`MarkMod > MaxAborts + 2`, explained under the bounds above.

The parts of `BinInv`, and why each is needed:

* `RefsOK`: each Ref is of a slot in a slab that there is, of the slot's
  generation or an earlier one, and no two Refs have the same slot and generation.
  A Ref of a reused slot is therefore told from the new one;
* `GenerationsOK`: a generation is at most the number of values stored, so that
  with `GenMod > MaxObjects` it never wraps;
* `SlotsOK`, `HandlesOK`: the value in a slot is the one whose Ref loads it, and
  the slot is at or before `last_allocated`. Without `"try_from_any"` (`Counting`)
  its Roots are counted, and a value with a Root loads;
* `FreeOK`: the free list leads to slabs that there are;
* `MarksOK`: between collections a slot carries the mark bits of the last
  collection or 0, and the bits of today are at most `aborts` attempts ahead.
  So the next bits are new (`NextMarksAreNew`): no slot counts as marked before
  it is, which is where the wrapping of the bits matters;
* `MarkedOK`: between `Mark` and `Sweep` what has a Root is marked (if `Counting`),
  and so is what the Ref of a marked value loads. Roots cloned or dropped meanwhile do
  not disturb it.

`NextBin` proves in one pass that every step keeps `BinInv` and, without
`"try_from_any"`, is a step of `Heap` or a stutter. The two hard steps are
`Mark`, where the least closed set of slots is shown to be the image of
the least closed set of values (`MarkedAreReachable`), and `Sweep`, where the
slots that keep their value are those of `MarkedValues` (`SweepEffect`).
`ReachableIsKept` then needs nothing of the slots: in `Heap` only a sweep takes
values away, and what is reachable is marked (`ReachableIsSafe`).

The free list is a list in the slots, and there is no induction over it here. The
invariant `FreeListOK` ranks the free slots instead: some rank tells them apart,
the head is the slot of the highest rank, and each free slot names the one of the
next lower rank, the lowest none. A slot that is taken from the head leaves the
ranks of the others as they were; a sweep links what it frees in front, so it
gives those slots ranks above all others, in the order of their BinIds. A
sequence that follows the links from the head has therefore falling ranks, so it
has no slot twice, and where it ends no free slot is left.

### The pools

`PoolsProofs` proves, for any pools, threads, values and channel capacities:

| Theorem | States | Assumes |
|---|---|---|
| `TypeCorrect` | `TypeOK` | |
| `CommandsExpected` | `CommandsAreExpected` | |
| `PoolsAreCounted` | `ActivePoolsCounted` | no `"drop_during_load"` |
| `ReachableKeepsItsPool` | `ReachableStays` | `Kept # {}` |
| `UnknownPoolsAreUnreceived` | `OnlyUnreceivedPoolsAreUnknown` | `Kept # {}` |

Each assumption excludes a program for which the statement is false: with `Kept`
empty `doc_roots_outlive_pools` is the counterexample, and a pool dropped while
another thread loads from it is under [Met while modelling](#met-while-modelling).
Nothing is assumed of when the collector receives a command, nor of the Refs that
a program stores.

The argument. `PoolInv` is inductive whatever the program calls: a command about a
pool is sent once, by one thread, and the ThreadShutdown of a pool never overtakes
its NewThread (`SentOnce`), which Collect and ScheduleCollect commands in between,
and the end of a run, do not disturb (`ChannelKeeps`, `StampKeepsChannel`); `Life`
says for each pool where it is known while it is made, announced, received, dropped
and told to be dropped; `Counted` that `active` is the number of pools with the flag
`alive`. It is this that keeps `active` from falling below 0, so type correctness
needs it too. `CommandsExpected` follows at once. On top of it

* `NoneForgotten`: a dropped pool that is still counted has its command under way;
* `Guarded`: without a guard there are no references, and in a collection no guard;
* `HeapOK`: values in slots are of pools that the collector knows or will receive
  (`Registered`, which only a collection ends: `NextRegistered`), the Refs in those
  of them that are not in `missed` lead to values in slots, and so do all Roots and
  references. The values in slots are thus a closed set that has all roots, of which
  `Followed` is the least; and each has its memory and its entry in `all_threads`. In
  a collection (`CollectKeepsHeap`) a marked value's Ref leads to a known pool, as
  otherwise the collector dies, so it is marked; and values of unknown pools stay.

### The interner

`StringPoolProofs` proves, for any threads and any number of values and handles,
with all calls, `TypeCorrect` (`TypeOK`), `AllocationIsUnique` (`OneAllocation`),
`RootsAlwaysAccounted` (`RootsAccounted`) and `DropsNestTwice`
(`NestingIsBounded`). `PoolInv` is inductive: the drops of a thread are all of one
value and the third is never about to take the mutex (`StackOK`); at most
one value is live, the table knows it, and what has a root is live (`LiveOK`);
and the root count is exact. The last is again counted as a set of
pairs, of thread and depth of nesting, that a step extends or shrinks by one
(`PushDrop`, `PopDrop`). `StackOK` needs the count: a drop goes on to the table
only at a count of 2, and a third nested one finds at least the roots of the three
drops themselves.

### Only model-checked

Every invariant was checked by TLC before it was proved. All invariants, action
properties and refinements of the passing runs are now stated by theorems.
Only model-checked are

* the liveness properties, which are out of the prover's reach:
  `AcquireReturns`, `RequestLeadsToCollection`, `CollectReturns`, `MarkingEnds`,
  `ThreadStorageIsCleanedUp`;
* that the two types which `MCMarkPhase` builds with `Traceable` keep
  `TraceContract`; the theorems of `MarkPhaseProofs` assume it.

## What is not modelled

* Type registration: `TypeIndex::of` and `Bins::by_type` look up under a read lock
  and insert under a write lock through the entry API, which decides again. They
  only grow; a model would restate the API.
* `derive(MapAs)`, `load_mapped`, comparison, hashing, formatting and conversion
  traits: functions without state. Benchmarks and examples.
* Averages of durations, which only set deadlines; weak memory orderings.
* Drops inside a sweep appear with their signal in `CollectionGuards`; in `Bin`,
  `MarkPhase` and `Pools` a Root that a swept value drops is a later `DropRoot`.
  The values' own `Drop` when bins are freed as a whole is left out.
* In `Pools`, attempts that are aborted, which change nothing there. In
  `StringPool`, typeless handles of interned strings.
* A Ref stored into a value behind a lock without a guard, which the README
  (103 ff.) tells programs not to do.

## Plan

In this order; what is left is in the last column.

| Step | Modules | Composes | Abstract specification | Checked | Proved | Left |
|---|---|---|---|---|---|---|
| 1 | `CollectionGuards` | | `ExclusiveAccess` | exclusion, wakeups, liveness | all safety, refinement | |
| 2 | `Bin` | | `Heap` | free list, generations, marks, refinement | type correctness; the rest of safety and the refinement for one link | |
| 3 | `StringPool` | | | one allocation, root counts, nesting | all safety | typeless handles |
| 4 | `MarkPhase`, `Traceable` | mark bits of `Bin` | `Collection` | completeness, no early end, termination | all safety, refinement | `TraceContract` of the container operators |
| 5 | `Pools` | `ExclusiveAccess`, what `Collection` promises | | registration and its lag, lifetimes, clean-up | all safety | a LocalPool in the passing run |
