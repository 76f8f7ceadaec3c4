------------------------------ MODULE PoolsProofs ------------------------------
(***************************************************************************)
(* Proofs about Pools, for any threads, pools, values and channel: the     *)
(* collector is never mistaken about which pools are alive, it knows every *)
(* pool of which it receives a command, and while one pool stays           *)
(* registered what is reachable keeps its memory.                          *)
(***************************************************************************)
EXTENDS Pools, FiniteSetTheorems, SequenceTheorems, TLAPS

-----------------------------------------------------------------------------
(* Commands and the queue of them.                                         *)

LEMMA Commands ==
    /\ \A p, q : NewThread(p) = NewThread(q) => p = q
    /\ \A p, q : ThreadShutdown(p) = ThreadShutdown(q) => p = q
    /\ \A p, q : NewThread(p) # ThreadShutdown(q)
    /\ \A p : NewThread(p) # NoCommand /\ ThreadShutdown(p) # NoCommand
    /\ \A p \in Pools : NewThread(p) \in PoolCommand /\ ThreadShutdown(p) \in PoolCommand
    /\ \A c \in Command : c # NoCommand
    /\ \A c \in Command : c.op = "NewThread" => c = NewThread(c.pool) /\ c.pool \in Pools
    /\ \A c \in Command : c.op = "ThreadShutdown" => c = ThreadShutdown(c.pool) /\ c.pool \in Pools
    /\ PoolCommand \subseteq Command
PROOF
<1>1. \A p, q : NewThread(p) = NewThread(q) => p = q
  BY DEF NewThread
<1>2. \A p, q : ThreadShutdown(p) = ThreadShutdown(q) => p = q
  BY DEF ThreadShutdown
<1>3. \A p, q : NewThread(p) # ThreadShutdown(q)
  BY DEF NewThread, ThreadShutdown
<1>4. \A p : NewThread(p) # NoCommand /\ ThreadShutdown(p) # NoCommand
  BY DEF NewThread, ThreadShutdown, NoCommand
<1>5. \A p \in Pools : NewThread(p) \in PoolCommand /\ ThreadShutdown(p) \in PoolCommand
  BY DEF PoolCommand
<1>6. ASSUME NEW c \in Command
      PROVE  /\ c # NoCommand
             /\ c.op = "NewThread" => c = NewThread(c.pool) /\ c.pool \in Pools
             /\ c.op = "ThreadShutdown" => c = ThreadShutdown(c.pool) /\ c.pool \in Pools
  <2>1. CASE \E p \in Pools : c = NewThread(p)
    BY <1>4, <2>1 DEF NewThread
  <2>2. CASE \E p \in Pools : c = ThreadShutdown(p)
    BY <1>4, <2>2 DEF ThreadShutdown
  <2>3. CASE c \in {CollectCommand, ServedCommand, ScheduleCollect}
    BY <2>3 DEF CollectCommand, ServedCommand, ScheduleCollect, NoCommand
  <2> QED
    BY <2>1, <2>2, <2>3 DEF Command, PoolCommand
<1> QED
  BY <1>1, <1>2, <1>3, <1>4, <1>5, <1>6 DEF Command

\* The commands that are not about a pool.
LEMMA OtherCommands ==
    \A c \in {CollectCommand, ServedCommand, ScheduleCollect} :
        c \in Command /\ c \notin PoolCommand
PROOF
<1> QED
  BY DEF Command, PoolCommand, NewThread, ThreadShutdown, CollectCommand, ServedCommand,
         ScheduleCollect

In(c, s) == \E i \in 1..Len(s) : s[i] = c

\* No command about a pool is in the channel twice.
Once(s) == \A i, j \in 1..Len(s) : s[i] \in PoolCommand /\ s[i] = s[j] => i = j

\* A pool's NewThread is ahead of its ThreadShutdown.
InOrder(s) ==
    \A p \in Pools : \A i, j \in 1..Len(s) :
        s[i] = NewThread(p) /\ s[j] = ThreadShutdown(p) => i < j

LEMMA AppendCommand ==
    ASSUME NEW s \in Seq(Command), NEW c \in Command, Once(s), InOrder(s),
           c \in PoolCommand => ~In(c, s),
           \A p \in Pools : c = NewThread(p) => ~In(ThreadShutdown(p), s)
    PROVE  /\ Append(s, c) \in Seq(Command)
           /\ Once(Append(s, c))
           /\ InOrder(Append(s, c))
           /\ \A d : In(d, Append(s, c)) <=> In(d, s) \/ d = c
PROOF
<1> DEFINE n == Len(s)
           r == Append(s, c)
<1>1. /\ r \in Seq(Command) /\ Len(r) = n + 1 /\ n \in Nat
      /\ \A i \in 1..n : r[i] = s[i]
      /\ r[n + 1] = c
  BY AppendProperties, LenProperties
<1>2. c \in PoolCommand => \A i \in 1..n : s[i] # c
  BY DEF In
<1> HIDE DEF r
<1>3. \A i \in 1..Len(r) : i \in 1..n \/ i = n + 1
  BY <1>1
<1>4. Once(r)
  BY <1>1, <1>2, <1>3 DEF Once
<1>5. InOrder(r)
  <2> SUFFICES ASSUME NEW p \in Pools, NEW i \in 1..Len(r), NEW j \in 1..Len(r),
                      r[i] = NewThread(p), r[j] = ThreadShutdown(p)
               PROVE  i < j
    BY DEF InOrder
  <2>1. i # j
    BY Commands
  <2>2. CASE j = n + 1
    BY <1>1, <2>1, <2>2
  <2>3. CASE j \in 1..n
    <3>1. In(ThreadShutdown(p), s)
      BY <1>1, <2>3 DEF In
    <3>2. c # NewThread(p)
      BY <3>1
    <3>3. i \in 1..n
      BY <1>1, <1>3, <3>2
    <3> QED
      BY <1>1, <2>3, <3>3 DEF InOrder
  <2> QED
    BY <1>3, <2>2, <2>3
<1>6. ASSUME NEW d PROVE In(d, r) <=> In(d, s) \/ d = c
  <2>1. n + 1 \in 1..Len(r) /\ \A i \in 1..n : i \in 1..Len(r)
    BY <1>1
  <2> QED
    BY <1>1, <1>3, <2>1 DEF In
<1> QED
  BY <1>1, <1>4, <1>5, <1>6 DEF r

LEMMA TakeCommand ==
    ASSUME NEW s \in Seq(Command), s # <<>>, Once(s), InOrder(s)
    PROVE  /\ Tail(s) \in Seq(Command)
           /\ Head(s) \in Command /\ In(Head(s), s)
           /\ Once(Tail(s))
           /\ InOrder(Tail(s))
           /\ \A d \in PoolCommand : In(d, Tail(s)) <=> In(d, s) /\ d # Head(s)
           /\ \A p \in Pools : Head(s) = ThreadShutdown(p) => ~In(NewThread(p), s)
PROOF
<1> DEFINE n == Len(s)
           r == Tail(s)
<1>1. /\ r \in Seq(Command) /\ Len(r) = n - 1 /\ n \in Nat /\ n # 0
      /\ \A i \in 1..(n - 1) : r[i] = s[i + 1]
      /\ Head(s) = s[1] /\ Head(s) \in Command
  BY HeadTailProperties, LenProperties, EmptySeq
<1> HIDE DEF r
<1>2. 1 \in 1..n /\ \A i \in 1..(n - 1) : i + 1 \in 1..n
  BY <1>1
<1>3. \A i \in 1..n : i = 1 \/ (i - 1 \in 1..(n - 1) /\ i = (i - 1) + 1)
  BY <1>1
<1>4. Once(r)
  BY <1>1, <1>2 DEF Once
<1>5. InOrder(r)
  <2> SUFFICES ASSUME NEW p \in Pools, NEW i \in 1..Len(r), NEW j \in 1..Len(r),
                      r[i] = NewThread(p), r[j] = ThreadShutdown(p)
               PROVE  i < j
    BY DEF InOrder
  <2>1. i + 1 \in 1..n /\ j + 1 \in 1..n /\ s[i + 1] = NewThread(p) /\ s[j + 1] = ThreadShutdown(p)
    BY <1>1, <1>2
  <2>2. i + 1 < j + 1
    BY <2>1 DEF InOrder
  <2> QED
    BY <2>2
<1>6. ASSUME NEW d \in PoolCommand PROVE In(d, r) <=> In(d, s) /\ d # Head(s)
  <2>1. ASSUME In(d, r) PROVE In(d, s) /\ d # Head(s)
    <3>1. PICK i \in 1..(n - 1) : s[i + 1] = d
      BY <1>1, <2>1 DEF In
    <3>2. i + 1 \in 1..n /\ i + 1 # 1
      BY <1>2, <3>1, <1>1
    <3> QED
      BY <1>1, <1>2, <3>1, <3>2 DEF In, Once
  <2>2. ASSUME In(d, s), d # Head(s) PROVE In(d, r)
    <3>1. PICK i \in 1..n : s[i] = d
      BY <2>2 DEF In
    <3>2. i - 1 \in 1..(n - 1) /\ r[i - 1] = d
      BY <1>1, <1>3, <2>2, <3>1
    <3> QED
      BY <1>1, <3>2 DEF In
  <2> QED
    BY <2>1, <2>2
<1>7. ASSUME NEW p \in Pools, Head(s) = ThreadShutdown(p), In(NewThread(p), s) PROVE FALSE
  <2>1. PICK i \in 1..n : s[i] = NewThread(p)
    BY <1>7 DEF In
  <2>2. i < 1
    BY <1>1, <1>2, <1>7, <2>1 DEF InOrder
  <2> QED
    BY <2>1, <2>2
<1>8. In(Head(s), s)
  BY <1>1, <1>2 DEF In
<1> QED
  BY <1>1, <1>4, <1>5, <1>6, <1>7, <1>8 DEF r

\* The end of a run makes Collect commands void and leaves the others alone.
LEMMA StampCommands ==
    ASSUME NEW s \in Seq(Command), Once(s), InOrder(s),
           NEW r, r = [i \in DOMAIN s |-> IF s[i] = CollectCommand THEN ServedCommand
                                          ELSE s[i]]
    PROVE  /\ r \in Seq(Command)
           /\ Once(r)
           /\ InOrder(r)
           /\ \A d \in PoolCommand : In(d, r) <=> In(d, s)
PROOF
<1> DEFINE n == Len(s)
<1>1. n \in Nat /\ DOMAIN s = 1..n /\ \A i \in 1..n : s[i] \in Command
  BY LenProperties, ElementOfSeq
<1>2. /\ DOMAIN r = 1..n
      /\ \A i \in 1..n : r[i] = IF s[i] = CollectCommand THEN ServedCommand ELSE s[i]
  BY <1>1
<1>3. \A i \in 1..n : r[i] \in Command
  BY <1>1, <1>2, OtherCommands
<1>4. r \in [1..n -> Command]
  BY <1>1, <1>3
<1>5. r \in Seq(Command) /\ Len(r) = n
  <2>1. r \in Seq(Command)
    BY <1>1, <1>4, SeqDef
  <2> QED
    BY <1>1, <1>2, <2>1, LenProperties
<1>6. \A d \in PoolCommand : \A i \in 1..n : r[i] = d <=> s[i] = d
  BY <1>2, OtherCommands
<1> HIDE DEF n
<1>7. Once(r)
  <2> SUFFICES ASSUME NEW i \in 1..n, NEW j \in 1..n, r[i] \in PoolCommand, r[i] = r[j]
               PROVE  i = j
    BY <1>5 DEF Once
  <2>1. s[i] = r[i] /\ s[j] = r[i]
    BY <1>6
  <2> QED
    BY <2>1 DEF Once, n
<1>8. InOrder(r)
  <2> SUFFICES ASSUME NEW p \in Pools, NEW i \in 1..n, NEW j \in 1..n,
                      r[i] = NewThread(p), r[j] = ThreadShutdown(p)
               PROVE  i < j
    BY <1>5 DEF InOrder
  <2>1. s[i] = NewThread(p) /\ s[j] = ThreadShutdown(p)
    BY <1>6, Commands
  <2> QED
    BY <2>1 DEF InOrder, n
<1>9. \A d \in PoolCommand : In(d, r) <=> In(d, s)
  BY <1>5, <1>6 DEF In, n
<1> QED
  BY <1>5, <1>7, <1>8, <1>9

-----------------------------------------------------------------------------
(* The inductive invariants.                                               *)

\* The part of TypeOK about the pools and what the collector is told of them.
LifeType ==
    /\ made \subseteq Pools
    /\ open \subseteq made
    /\ allThreads \subseteq made
    /\ commands \in Seq(Command)
    /\ threadBins \subseteq made
    /\ alive \subseteq threadBins
    /\ sending \in [Threads -> PoolCommand \cup {NoCommand}]

\* The rest, but for active.
ValueType ==
    /\ cpc \in {"recv", "begin", "lock", "collect", "release", "panicked"}
    /\ scheduled \in BOOLEAN
    /\ signalled \in BOOLEAN
    /\ waiting \subseteq Threads
    /\ guard \in [Threads -> open \cup {NoPool}]
    /\ loading \in [Threads -> Values \cup {NoValue}]
    /\ loaded \in [Threads -> SUBSET Values]
    /\ home \in [Values -> made \cup {NoPool}]
    /\ link \in [Values -> Values \cup {NoValue}]
    /\ allocated \subseteq Values
    /\ rooted \subseteq Values
    /\ missed \subseteq Values

\* A command about a pool is sent once, by one thread.
SentOnce ==
    /\ \A t, u \in Threads : sending[t] # NoCommand /\ sending[t] = sending[u] => t = u
    /\ \A t \in Threads : ~In(sending[t], commands)
    /\ Once(commands)
    /\ InOrder(commands)

\* The collector is told, or will be, that p was dropped.
Told(p) == Dropping(p) \/ In(ThreadShutdown(p), commands)

\* The life of a pool: while it is made nobody has it; until the collector has
\* received it others can look it up, but the collector does not know it; it is
\* alive until the collector receives that it was dropped.
Life ==
    \A p \in Pools :
        /\ Creating(p) => p \in made \ (open \cup Kept \cup allThreads \cup threadBins)
        /\ Creating(p) => ~Told(p)
        /\ In(NewThread(p), commands) => p \in allThreads \ threadBins
        /\ Told(p) => p \in made \ (open \cup Kept)
        /\ Told(p) => p \in alive \/ In(NewThread(p), commands)
        /\ p \in open => p \in alive \/ In(NewThread(p), commands)
        /\ p \in threadBins => p \in allThreads
        /\ p \in Kept => p \in open \cap alive

Counted == active = Cardinality(alive)

PoolInv == LifeType /\ SentOnce /\ Life /\ Counted

\* Nobody is counted who was dropped, and of whom the collector is not told.
NoneForgotten ==
    \A p \in Pools :
        p \notin open /\ (p \in alive \/ In(NewThread(p), commands)) => Told(p)

\* Without a guard there is no reference, and in a collection there is no guard.
Guarded ==
    /\ \A t \in Threads : guard[t] = NoPool => loaded[t] = {} /\ loading[t] = NoValue
    /\ cpc = "collect" => \A t \in Threads : guard[t] = NoPool

\* The collector knows the pool, or will have received it.
Registered(p) == p \in threadBins \/ In(NewThread(p), commands)

\* The values in slots are of registered pools, and their Refs lead to values in
\* slots, unless the collector need not have followed them, as all Roots and
\* references do.
HeapOK ==
    /\ \A o \in allocated : home[o] \in Pools /\ Registered(home[o])
    /\ \A o \in allocated \ missed : link[o] = NoValue \/ link[o] \in allocated
    /\ rooted \subseteq allocated
    /\ \A t \in Threads : loaded[t] \subseteq allocated

LEMMA QueuedIsIn ==
    ASSUME LifeType, NEW c
    PROVE  Queued(c) <=> In(c, commands)
PROOF
<1>1. DOMAIN commands = 1..Len(commands)
  BY LenProperties DEF LifeType
<1> QED
  BY <1>1 DEF Queued, In

\* What becomes of the commands that are sent when a thread begins or ends it.
LEMMA SendingChanges ==
    ASSUME LifeType, SentOnce, NEW t \in Threads, NEW c \in PoolCommand \cup {NoCommand},
           sending' = [sending EXCEPT ![t] = c]
    PROVE  /\ sending' \in [Threads -> PoolCommand \cup {NoCommand}]
           /\ sending'[t] = c /\ \A u \in Threads \ {t} : sending'[u] = sending[u]
           /\ \A q \in Pools : Creating(q)' <=>
                (Creating(q) /\ sending[t] # NewThread(q)) \/ c = NewThread(q)
           /\ \A q \in Pools : Dropping(q)' <=>
                (Dropping(q) /\ sending[t] # ThreadShutdown(q)) \/ c = ThreadShutdown(q)
PROOF
<1>1. /\ sending' \in [Threads -> PoolCommand \cup {NoCommand}]
      /\ sending'[t] = c /\ \A u \in Threads \ {t} : sending'[u] = sending[u]
  BY DEF LifeType
<1>2. \A d : d # NoCommand =>
         ((\E u \in Threads : sending'[u] = d) <=>
            ((\E u \in Threads : sending[u] = d) /\ sending[t] # d) \/ c = d)
  BY <1>1 DEF SentOnce
<1>3. \A q : NewThread(q) # NoCommand /\ ThreadShutdown(q) # NoCommand
  BY Commands
<1>4. ASSUME NEW q \in Pools
      PROVE  /\ Creating(q)' <=>
                  (Creating(q) /\ sending[t] # NewThread(q)) \/ c = NewThread(q)
             /\ Dropping(q)' <=>
                  (Dropping(q) /\ sending[t] # ThreadShutdown(q)) \/ c = ThreadShutdown(q)
  BY <1>2, <1>3 DEF Creating, Dropping
<1> QED
  BY <1>1, <1>4

LEMMA InitPools == Init => PoolInv /\ ValueType /\ NoneForgotten /\ Guarded /\ HeapOK
PROOF
<1> SUFFICES ASSUME Init PROVE PoolInv /\ ValueType /\ NoneForgotten /\ Guarded /\ HeapOK
  OBVIOUS
<1>1. commands \in Seq(Command) /\ \A c : ~In(c, commands)
  BY EmptySeq DEF Init, In
<1>2. \A p : ~Creating(p) /\ ~Dropping(p)
  BY Commands DEF Init, Creating, Dropping
<1>3. LifeType /\ Kept \subseteq Pools
  BY <1>1, PoolsConstants DEF Init, LifeType
<1>4. SentOnce
  <2>1. Once(commands) /\ InOrder(commands)
    BY <1>1 DEF Once, InOrder, In
  <2> QED
    BY <1>1, <2>1 DEF Init, SentOnce
<1>5. Life /\ NoneForgotten
  BY <1>1, <1>2 DEF Init, Life, NoneForgotten, Told
<1>6. Counted
  BY DEF Init, Counted
<1>7. ValueType
  BY DEF Init, ValueType
<1>8. Guarded /\ HeapOK
  BY DEF Init, Guarded, HeapOK
<1> QED
  BY <1>3, <1>4, <1>5, <1>6, <1>7, <1>8 DEF PoolInv

-----------------------------------------------------------------------------
(* Steps that change pools.                                                *)

\* What the steps that have nothing to do with pools leave alone.
lifeVars == <<made, open, allThreads, commands, threadBins, alive, active, sending>>

LEMMA LifeUnchanged ==
    ASSUME PoolInv, UNCHANGED lifeVars
    PROVE  PoolInv' /\ (NoneForgotten => NoneForgotten')
PROOF
<1>1. LifeType' /\ SentOnce' /\ Counted'
  BY DEF PoolInv, lifeVars, LifeType, SentOnce, Counted, In, Once, InOrder
<1>2. \A p : (Creating(p)' <=> Creating(p)) /\ (Dropping(p)' <=> Dropping(p))
  BY DEF lifeVars, Creating, Dropping
<1>3. Life'
  BY <1>2 DEF PoolInv, Life, lifeVars, Told
<1>4. NoneForgotten => NoneForgotten'
  BY <1>2 DEF NoneForgotten, lifeVars, Told
<1> QED
  BY <1>1, <1>3, <1>4 DEF PoolInv

\* The same of steps that change only what the channel has besides the commands
\* about pools.
LEMMA ChannelKeeps ==
    ASSUME PoolInv, UNCHANGED <<made, open, allThreads, threadBins, alive, active, sending>>,
           commands' \in Seq(Command), Once(commands'), InOrder(commands'),
           \A d \in PoolCommand : In(d, commands') <=> In(d, commands)
    PROVE  PoolInv' /\ (NoneForgotten => NoneForgotten')
PROOF
<1>1. LifeType /\ SentOnce /\ Life /\ Counted
  BY DEF PoolInv
<1>2. LifeType' /\ Counted'
  BY <1>1 DEF LifeType, Counted
<1>3. SentOnce'
  <2>1. ~In(NoCommand, commands')
    BY Commands, LenProperties, ElementOfSeq DEF In
  <2>2. \A t \in Threads : ~In(sending[t], commands')
    BY <1>1, <2>1 DEF SentOnce, LifeType
  <2> QED
    BY <1>1, <2>2 DEF SentOnce
<1>4. /\ \A q \in Pools : Creating(q)' <=> Creating(q)
      /\ \A q \in Pools : Told(q)' <=> Told(q)
      /\ \A q \in Pools : In(NewThread(q), commands') <=> In(NewThread(q), commands)
  BY Commands DEF Creating, Told, Dropping
<1>5. Life'
  BY <1>1, <1>4 DEF Life
<1>6. NoneForgotten => NoneForgotten'
  BY <1>4 DEF NoneForgotten
<1> QED
  BY <1>2, <1>3, <1>5, <1>6 DEF PoolInv

LEMMA NewPoolKeeps ==
    ASSUME PoolInv, NEW t \in Threads, NEW p \in Pools, NewPool(t, p)
    PROVE  PoolInv' /\ (NoneForgotten => NoneForgotten')
PROOF
<1>1. /\ LifeType /\ SentOnce /\ Life /\ Counted /\ p \notin made
      /\ sending[t] = NoCommand /\ made' = made \cup {p}
      /\ sending' = [sending EXCEPT ![t] = NewThread(p)]
      /\ UNCHANGED <<open, allThreads, commands, threadBins, alive, active>>
  BY DEF PoolInv, NewPool, Idle, binVars
<1>2. NewThread(p) \in PoolCommand
  BY Commands
<1>3. /\ sending' \in [Threads -> PoolCommand \cup {NoCommand}]
      /\ sending'[t] = NewThread(p) /\ \A u \in Threads \ {t} : sending'[u] = sending[u]
      /\ \A q \in Pools : Creating(q)' <=> Creating(q) \/ q = p
      /\ \A q \in Pools : Dropping(q)' <=> Dropping(q)
  <2>1. /\ sending' \in [Threads -> PoolCommand \cup {NoCommand}]
        /\ sending'[t] = NewThread(p)
        /\ \A u \in Threads \ {t} : sending'[u] = sending[u]
        /\ \A q \in Pools : Creating(q)' <=>
             (Creating(q) /\ sending[t] # NewThread(q)) \/ NewThread(p) = NewThread(q)
        /\ \A q \in Pools : Dropping(q)' <=>
             (Dropping(q) /\ sending[t] # ThreadShutdown(q)) \/ NewThread(p) = ThreadShutdown(q)
    BY <1>1, <1>2, SendingChanges
  <2> QED
    BY <1>1, <2>1, Commands
<1>4. ~In(NewThread(p), commands) /\ ~Creating(p) /\ ~Told(p)
  BY <1>1 DEF Life, LifeType
<1>5. LifeType'
  BY <1>1, <1>3 DEF LifeType
<1>6. SentOnce'
  BY <1>1, <1>3, <1>4 DEF SentOnce, Creating
<1>7. Life' /\ (NoneForgotten => NoneForgotten')
  <2>1. \A q \in Pools : Told(q)' <=> Told(q)
    BY <1>1, <1>3 DEF Told
  <2>2. p \notin open /\ p \notin Kept /\ p \notin allThreads /\ p \notin threadBins
    BY <1>1 DEF Life, LifeType
  <2>3. Life'
    BY <1>1, <1>3, <1>4, <2>1, <2>2 DEF Life
  <2> QED
    BY <1>1, <2>1, <2>3 DEF NoneForgotten
<1> QED
  BY <1>1, <1>5, <1>6, <1>7 DEF PoolInv, Counted

LEMMA DropPoolKeeps ==
    ASSUME PoolInv, NEW t \in Threads, NEW p \in Pools, DropPool(t, p)
    PROVE  /\ PoolInv'
           /\ NoneForgotten /\ "drop_during_load" \notin Calls => NoneForgotten'
PROOF
<1>1. /\ LifeType /\ SentOnce /\ Life /\ Counted /\ p \in open \ Kept
      /\ sending[t] = NoCommand /\ open' = open \ {p}
      /\ UNCHANGED <<made, allThreads, commands, threadBins, alive, active>>
  BY DEF PoolInv, DropPool, Idle, binVars
<1>2. ThreadShutdown(p) \in PoolCommand
  BY Commands
<1>3. WithCollector(p) /\ ~Told(p)
  <2>1. p \in alive \/ In(NewThread(p), commands)
    BY <1>1 DEF Life
  <2> QED
    BY <1>1, <2>1, QueuedIsIn DEF WithCollector, Life, LifeType
<1>4. CASE sending' = [sending EXCEPT ![t] = ThreadShutdown(p)]
  <2>1. /\ sending' \in [Threads -> PoolCommand \cup {NoCommand}]
        /\ sending'[t] = ThreadShutdown(p)
        /\ \A u \in Threads \ {t} : sending'[u] = sending[u]
        /\ \A q \in Pools : Creating(q)' <=> Creating(q)
        /\ \A q \in Pools : Dropping(q)' <=> Dropping(q) \/ q = p
    <3>1. /\ sending' \in [Threads -> PoolCommand \cup {NoCommand}]
          /\ sending'[t] = ThreadShutdown(p)
          /\ \A u \in Threads \ {t} : sending'[u] = sending[u]
          /\ \A q \in Pools : Creating(q)' <=>
               (Creating(q) /\ sending[t] # NewThread(q)) \/ ThreadShutdown(p) = NewThread(q)
          /\ \A q \in Pools : Dropping(q)' <=>
               \/ Dropping(q) /\ sending[t] # ThreadShutdown(q)
               \/ ThreadShutdown(p) = ThreadShutdown(q)
      BY <1>1, <1>2, <1>4, SendingChanges
    <3> QED
      BY <1>1, <3>1, Commands
  <2>2. LifeType'
    BY <1>1, <2>1 DEF LifeType
  <2>3. SentOnce'
    BY <1>1, <1>3, <2>1 DEF SentOnce, Told, Dropping
  <2>4. \A q \in Pools : Told(q)' <=> Told(q) \/ q = p
    BY <1>1, <2>1 DEF Told
  <2>5. Life'
    BY <1>1, <2>1, <2>4 DEF Life, LifeType
  <2>6. NoneForgotten => NoneForgotten'
    BY <1>1, <2>4 DEF NoneForgotten
  <2> QED
    BY <1>1, <2>2, <2>3, <2>5, <2>6 DEF PoolInv, Counted
<1>5. CASE sending' = sending /\ "drop_during_load" \in Calls
  <2>1. LifeType' /\ SentOnce'
    BY <1>1, <1>5 DEF LifeType, SentOnce
  <2>2. \A q \in Pools : (Creating(q)' <=> Creating(q)) /\ (Told(q)' <=> Told(q))
    BY <1>1, <1>5 DEF Creating, Told, Dropping
  <2>3. Life'
    BY <1>1, <2>2 DEF Life
  <2> QED
    BY <1>1, <1>5, <2>1, <2>3 DEF PoolInv, Counted
<1> QED
  BY <1>3, <1>4, <1>5 DEF DropPool

LEMMA SendKeeps ==
    ASSUME PoolInv, NEW t \in Threads, Send(t)
    PROVE  PoolInv' /\ (NoneForgotten => NoneForgotten')
PROOF
<1> DEFINE c == sending[t]
<1>1. /\ LifeType /\ SentOnce /\ Life /\ Counted
      /\ sending[t] # NoCommand
      /\ commands' = Append(commands, c)
      /\ sending' = [sending EXCEPT ![t] = NoCommand]
      /\ UNCHANGED <<made, threadBins, alive, active>>
  BY DEF PoolInv, Send, LifeType, binVars
<1>c. c \in PoolCommand /\ c \in Command
  BY <1>1, Commands DEF Send, LifeType
<1>2. /\ sending' \in [Threads -> PoolCommand \cup {NoCommand}]
      /\ sending'[t] = NoCommand /\ \A u \in Threads \ {t} : sending'[u] = sending[u]
      /\ \A q \in Pools : Creating(q)' <=> Creating(q) /\ c # NewThread(q)
      /\ \A q \in Pools : Dropping(q)' <=> Dropping(q) /\ c # ThreadShutdown(q)
  BY <1>1, SendingChanges, Commands
<1>3. \A q \in Pools : c = NewThread(q) => Creating(q) /\ ~In(ThreadShutdown(q), commands)
  BY <1>1 DEF Creating, Life, Told
<1>4. \A q \in Pools : c = ThreadShutdown(q) => Dropping(q)
  BY DEF Dropping
<1>5. /\ commands' \in Seq(Command) /\ Once(commands') /\ InOrder(commands')
      /\ \A d : In(d, commands') <=> In(d, commands) \/ d = c
  <2>1. ~In(c, commands) /\ Once(commands) /\ InOrder(commands) /\ commands \in Seq(Command)
    BY <1>1 DEF SentOnce, LifeType
  <2> HIDE DEF c
  <2> QED
    BY <1>1, <1>c, <1>3, <2>1, AppendCommand
<1>6. SentOnce'
  <2>1. \A u \in Threads \ {t} : sending[u] # c
    BY <1>1, Commands DEF SentOnce
  <2>2. ~In(NoCommand, commands')
    BY <1>5, LenProperties, ElementOfSeq, Commands DEF In
  <2> QED
    BY <1>1, <1>2, <1>5, <2>1, <2>2 DEF SentOnce
<1>7. \A q \in Pools : /\ q \in open' <=> q \in open \/ c = NewThread(q)
                       /\ q \in allThreads' <=> q \in allThreads \/ c = NewThread(q)
  BY DEF Send
<1>8. LifeType'
  <2>1. {p \in Pools : c = NewThread(p)} \subseteq made
    BY <1>1, <1>3 DEF Life
  <2> QED
    BY <1>1, <1>2, <1>5, <2>1 DEF LifeType, Send
<1>9. \A q \in Pools : Told(q)' <=> Told(q)
  BY <1>2, <1>4, <1>5 DEF Told
<1>10. Life'
  <2> HIDE DEF c
  <2> SUFFICES ASSUME NEW p \in Pools
               PROVE  Life!(p)'
    BY DEF Life
  <2> QED
    BY <1>1, <1>2, <1>3, <1>5, <1>7, <1>9, Commands DEF Life
<1>11. NoneForgotten => NoneForgotten'
  BY <1>1, <1>5, <1>7, <1>9 DEF NoneForgotten
<1> QED
  BY <1>1, <1>6, <1>8, <1>10, <1>11 DEF PoolInv, Counted

\* What the collector receives is the first command of the channel.
LEMMA Received ==
    ASSUME PoolInv, commands # <<>>, commands' = Tail(commands)
    PROVE  /\ commands' \in Seq(Command) /\ Once(commands') /\ InOrder(commands')
           /\ \A d \in PoolCommand :
                 In(d, commands') <=> In(d, commands) /\ d # Head(commands)
PROOF
<1>1. commands \in Seq(Command) /\ Once(commands) /\ InOrder(commands)
  BY DEF PoolInv, LifeType, SentOnce
<1> QED
  BY <1>1, TakeCommand

LEMMA FirstCommand ==
    ASSUME PoolInv, commands # <<>>
    PROVE  /\ Head(commands) \in Command /\ In(Head(commands), commands)
           /\ \A p \in Pools : Head(commands) = ThreadShutdown(p) =>
                                  ~In(NewThread(p), commands)
PROOF
<1>1. commands \in Seq(Command) /\ Once(commands) /\ InOrder(commands)
  BY DEF PoolInv, LifeType, SentOnce
<1> QED
  BY <1>1, TakeCommand

LEMMA PoolsFinite == LifeType => IsFiniteSet(alive) /\ Cardinality(alive) \in 0..Cardinality(Pools)
PROOF
<1> SUFFICES ASSUME LifeType
             PROVE  IsFiniteSet(alive) /\ Cardinality(alive) \in 0..Cardinality(Pools)
  OBVIOUS
<1>1. alive \subseteq Pools /\ IsFiniteSet(Pools)
  BY PoolsConstants DEF LifeType
<1>2. /\ IsFiniteSet(alive) /\ Cardinality(alive) \in Nat /\ Cardinality(Pools) \in Nat
      /\ Cardinality(alive) <= Cardinality(Pools)
  BY <1>1, FS_Subset, FS_CardinalityType
<1> QED
  BY <1>2

\* What is about to be sent is not in the channel, also when it is received from.
LEMMA NothingSentAgain ==
    ASSUME LifeType, SentOnce, commands' \in Seq(Command), UNCHANGED sending,
           \A d \in PoolCommand : In(d, commands') => In(d, commands)
    PROVE  \A t \in Threads : ~In(sending[t], commands')
PROOF
<1>1. ~In(NoCommand, commands')
  BY Commands, LenProperties, ElementOfSeq DEF In
<1> QED
  BY <1>1 DEF SentOnce, LifeType

LEMMA RecvNewThreadKeeps ==
    ASSUME PoolInv, RecvNewThread
    PROVE  PoolInv' /\ (NoneForgotten => NoneForgotten')
PROOF
<1>1. /\ LifeType /\ SentOnce /\ Life /\ Counted
      /\ commands # <<>> /\ commands' = Tail(commands) /\ Head(commands).op = "NewThread"
      /\ UNCHANGED <<made, open, allThreads, sending>>
  BY DEF PoolInv, RecvNewThread, HeadIs, poolVars, threadVars
<1>2. /\ commands' \in Seq(Command) /\ Once(commands') /\ InOrder(commands')
      /\ Head(commands) \in Command /\ In(Head(commands), commands)
      /\ \A d \in PoolCommand : In(d, commands') <=> In(d, commands) /\ d # Head(commands)
  BY <1>1, Received, FirstCommand
<1>3. PICK p \in Pools : p = Head(commands).pool /\ Head(commands) = NewThread(p)
  BY <1>1, <1>2, Commands
<1>4. /\ threadBins' = threadBins \cup {p} /\ alive' = alive \cup {p} /\ active' = active + 1
  BY <1>3 DEF RecvNewThread
<1>5. p \in made /\ p \in allThreads /\ p \notin threadBins /\ p \notin alive /\ ~Creating(p)
  <2>1. p \in allThreads \ threadBins
    BY <1>1, <1>2, <1>3 DEF Life
  <2> QED
    BY <1>1, <2>1 DEF Life, LifeType
<1>6. /\ \A q \in Pools : Creating(q)' <=> Creating(q)
      /\ \A q \in Pools : Told(q)' <=> Told(q)
      /\ \A q \in Pools : In(NewThread(q), commands') <=> In(NewThread(q), commands) /\ q # p
  <2>1. /\ \A q \in Pools : ThreadShutdown(q) # Head(commands)
        /\ \A q \in Pools : NewThread(q) # Head(commands) <=> q # p
    BY <1>3, Commands
  <2>2. \A q \in Pools : NewThread(q) \in PoolCommand /\ ThreadShutdown(q) \in PoolCommand
    BY Commands
  <2> QED
    BY <1>1, <1>2, <2>1, <2>2 DEF Creating, Told, Dropping
<1>7. LifeType'
  BY <1>1, <1>2, <1>4, <1>5 DEF LifeType
<1>8. SentOnce'
  BY <1>1, <1>2, NothingSentAgain DEF SentOnce
<1>9. Life'
  BY <1>1, <1>4, <1>5, <1>6 DEF Life
<1>10. NoneForgotten => NoneForgotten'
  BY <1>1, <1>2, <1>3, <1>4, <1>6 DEF NoneForgotten
<1>11. Counted'
  BY <1>1, <1>4, <1>5, PoolsFinite, FS_AddElement DEF Counted
<1> QED
  BY <1>7, <1>8, <1>9, <1>10, <1>11 DEF PoolInv

\* The pool of a ThreadShutdown is alive, so that it is known; unless it is the
\* last one of all, another one is.
LEMMA ShutdownIsKnown ==
    ASSUME PoolInv, HeadIs("ThreadShutdown")
    PROVE  \E p \in Pools :
              /\ p = Head(commands).pool /\ Head(commands) = ThreadShutdown(p)
              /\ p \in alive /\ p \in threadBins /\ p \notin open /\ p \notin Kept
              /\ ~In(NewThread(p), commands)
              /\ active \in Nat /\ (active = 1 <=> alive = {p})
PROOF
<1>1. /\ Head(commands) \in Command /\ In(Head(commands), commands)
      /\ \A p \in Pools : Head(commands) = ThreadShutdown(p) => ~In(NewThread(p), commands)
  BY FirstCommand DEF HeadIs
<1>2. PICK p \in Pools : p = Head(commands).pool /\ Head(commands) = ThreadShutdown(p)
  BY <1>1, Commands DEF HeadIs
<1>3. Told(p) /\ ~In(NewThread(p), commands)
  BY <1>1, <1>2 DEF Told
<1>4. p \in alive /\ p \in threadBins /\ p \notin open /\ p \notin Kept
  BY <1>3 DEF PoolInv, Life, LifeType
<1>5. active \in Nat /\ active = Cardinality(alive) /\ IsFiniteSet(alive)
  BY PoolsFinite DEF PoolInv, Counted
<1>6. /\ Cardinality(alive \ {p}) = active - 1 /\ IsFiniteSet(alive \ {p})
  BY <1>4, <1>5, FS_RemoveElement
<1>7. active = 1 <=> alive \ {p} = {}
  <2>1. Cardinality(alive \ {p}) = 0 <=> alive \ {p} = {}
    BY <1>6, FS_EmptySet
  <2> QED
    BY <1>5, <1>6, <2>1
<1>8. alive \ {p} = {} <=> alive = {p}
  BY <1>4
<1> QED
  BY <1>2, <1>3, <1>4, <1>5, <1>7, <1>8

LEMMA RecvThreadShutdownKeeps ==
    ASSUME PoolInv, RecvThreadShutdown
    PROVE  PoolInv' /\ (NoneForgotten => NoneForgotten') /\ cpc' = "recv"
PROOF
<1>1. /\ LifeType /\ SentOnce /\ Life /\ Counted
      /\ commands # <<>> /\ commands' = Tail(commands) /\ HeadIs("ThreadShutdown")
      /\ UNCHANGED <<made, open, allThreads, sending>>
  BY DEF PoolInv, RecvThreadShutdown, HeadIs, poolVars, threadVars
<1>2. /\ commands' \in Seq(Command) /\ Once(commands') /\ InOrder(commands')
      /\ \A d \in PoolCommand : In(d, commands') <=> In(d, commands) /\ d # Head(commands)
      /\ In(Head(commands), commands)
  BY <1>1, Received, FirstCommand
<1>3. PICK p \in Pools :
          /\ p = Head(commands).pool /\ Head(commands) = ThreadShutdown(p)
          /\ p \in alive /\ p \in threadBins /\ p \notin open /\ p \notin Kept
          /\ ~In(NewThread(p), commands)
          /\ active \in Nat /\ (active = 1 <=> alive = {p})
  BY <1>1, ShutdownIsKnown
<1>4. /\ active' = active - 1 /\ cpc' = "recv"
      /\ threadBins' = IF active = 1 THEN {} ELSE threadBins
      /\ alive' = IF active = 1 THEN {} ELSE alive \ {p}
  BY <1>3 DEF RecvThreadShutdown, binVars
<1>5. alive' = alive \ {p} /\ threadBins' \subseteq threadBins /\ alive' \subseteq threadBins'
  BY <1>1, <1>3, <1>4 DEF LifeType
<1>6. ~Dropping(p)
  BY <1>1, <1>2, <1>3 DEF SentOnce, Dropping
<1>7. /\ \A q \in Pools : Creating(q)' <=> Creating(q)
      /\ \A q \in Pools : Told(q)' <=> Told(q) /\ q # p
      /\ \A q \in Pools : In(NewThread(q), commands') <=> In(NewThread(q), commands)
  <2>1. /\ \A q \in Pools : NewThread(q) # Head(commands)
        /\ \A q \in Pools : ThreadShutdown(q) # Head(commands) <=> q # p
    BY <1>3, Commands
  <2>2. \A q \in Pools : NewThread(q) \in PoolCommand /\ ThreadShutdown(q) \in PoolCommand
    BY Commands
  <2> QED
    BY <1>1, <1>2, <1>6, <2>1, <2>2 DEF Creating, Told, Dropping
<1>8. LifeType'
  BY <1>1, <1>2, <1>5 DEF LifeType
<1>9. SentOnce'
  BY <1>1, <1>2, NothingSentAgain DEF SentOnce
<1>10. Life'
  BY <1>1, <1>3, <1>5, <1>7 DEF Life
<1>11. NoneForgotten => NoneForgotten'
  BY <1>1, <1>3, <1>5, <1>7 DEF NoneForgotten
<1>12. Counted'
  <2>1. Cardinality(alive \ {p}) = Cardinality(alive) - 1
    BY <1>1, <1>3, PoolsFinite, FS_RemoveElement
  <2> QED
    BY <1>1, <1>4, <1>5, <2>1 DEF Counted
<1> QED
  BY <1>4, <1>8, <1>9, <1>10, <1>11, <1>12 DEF PoolInv

\* At the end of a run the commands about pools stay in the channel.
LEMMA StampKeepsChannel ==
    ASSUME LifeType, SentOnce, Stamp \/ UNCHANGED commands
    PROVE  /\ commands' \in Seq(Command) /\ Once(commands') /\ InOrder(commands')
           /\ \A d \in PoolCommand : In(d, commands') <=> In(d, commands)
PROOF
<1>1. CASE Stamp
  BY <1>1, StampCommands DEF Stamp, LifeType, SentOnce
<1>2. CASE UNCHANGED commands
  BY <1>2 DEF LifeType, SentOnce
<1> QED
  BY <1>1, <1>2

\* The collector forgets no pool that is alive.
LEMMA CollectKeeps ==
    ASSUME PoolInv, Collect
    PROVE  PoolInv' /\ (NoneForgotten => NoneForgotten')
PROOF
<1>1. /\ LifeType /\ SentOnce /\ Life /\ Counted
      /\ UNCHANGED <<made, open, alive, active, sending>>
      /\ Stamp \/ UNCHANGED commands
  BY DEF PoolInv, Collect
<1>2. /\ commands' \in Seq(Command) /\ Once(commands') /\ InOrder(commands')
      /\ \A d \in PoolCommand : In(d, commands') <=> In(d, commands)
  BY <1>1, StampKeepsChannel
<1>3. PICK gone \in SUBSET (threadBins \ alive) :
         threadBins' = threadBins \ gone /\ allThreads' = allThreads \ gone
  <2>1. Emptied \ alive \in SUBSET (threadBins \ alive) /\ {} \in SUBSET (threadBins \ alive)
    BY DEF Emptied
  <2> QED
    BY <2>1 DEF Collect
<1>4. /\ \A q \in Pools : Creating(q)' <=> Creating(q)
      /\ \A q \in Pools : Told(q)' <=> Told(q)
      /\ \A q \in Pools : In(NewThread(q), commands') <=> In(NewThread(q), commands)
  BY <1>1, <1>2, Commands DEF Creating, Told, Dropping
<1>5. LifeType'
  BY <1>1, <1>2, <1>3 DEF LifeType
<1>6. SentOnce' /\ Counted'
  BY <1>1, <1>2, NothingSentAgain DEF SentOnce, Counted
<1>7. Life'
  BY <1>1, <1>3, <1>4 DEF Life, LifeType
<1>8. NoneForgotten => NoneForgotten'
  BY <1>1, <1>4 DEF NoneForgotten
<1> QED
  BY <1>5, <1>6, <1>7, <1>8 DEF PoolInv

\* Collect and ScheduleCollect commands come and go.
LEMMA RequestKeeps ==
    ASSUME PoolInv, NEW c \in {CollectCommand, ScheduleCollect},
           commands' = Append(commands, c),
           UNCHANGED <<made, open, allThreads, threadBins, alive, active, sending>>
    PROVE  PoolInv' /\ (NoneForgotten => NoneForgotten')
PROOF
<1>1. /\ commands \in Seq(Command) /\ Once(commands) /\ InOrder(commands)
      /\ c \in Command /\ c \notin PoolCommand
      /\ \A p \in Pools : c # NewThread(p)
  BY OtherCommands, Commands DEF PoolInv, LifeType, SentOnce
<1>2. /\ commands' \in Seq(Command) /\ Once(commands') /\ InOrder(commands')
      /\ \A d : In(d, commands') <=> In(d, commands) \/ d = c
  BY <1>1, AppendCommand
<1> QED
  BY <1>1, <1>2, ChannelKeeps

LEMMA ReceiptKeeps ==
    ASSUME PoolInv, commands # <<>>, commands' = Tail(commands),
           Head(commands).op \notin {"NewThread", "ThreadShutdown"},
           UNCHANGED <<made, open, allThreads, threadBins, alive, active, sending>>
    PROVE  PoolInv' /\ (NoneForgotten => NoneForgotten')
PROOF
<1>1. Head(commands) \notin PoolCommand
  BY DEF PoolCommand, NewThread, ThreadShutdown
<1>2. /\ commands' \in Seq(Command) /\ Once(commands') /\ InOrder(commands')
      /\ \A d \in PoolCommand : In(d, commands') <=> In(d, commands)
  BY <1>1, Received
<1> QED
  BY <1>2, ChannelKeeps

LEMMA NextPools ==
    ASSUME PoolInv, [Next]_vars
    PROVE  /\ PoolInv'
           /\ NoneForgotten /\ "drop_during_load" \notin Calls => NoneForgotten'
PROOF
<1>1. ASSUME NEW t \in Threads, NEW p \in Pools, NewPool(t, p) \/ DropPool(t, p)
      PROVE  /\ PoolInv'
             /\ NoneForgotten /\ "drop_during_load" \notin Calls => NoneForgotten'
  BY <1>1, NewPoolKeeps, DropPoolKeeps
<1>2. ASSUME NEW t \in Threads, Send(t)
      PROVE  PoolInv' /\ (NoneForgotten => NoneForgotten')
  BY <1>2, SendKeeps
<1>3. ASSUME RecvNewThread \/ RecvThreadShutdown \/ Collect
      PROVE  PoolInv' /\ (NoneForgotten => NoneForgotten')
  BY <1>3, RecvNewThreadKeeps, RecvThreadShutdownKeeps, CollectKeeps
<1>4. ASSUME NEW t \in Threads, DropGuard(t) \/ EndLoad(t) \/ \E p \in Pools : Enter(t, p)
      PROVE  UNCHANGED lifeVars
  BY <1>4 DEF DropGuard, EndLoad, Enter, lifeVars, poolVars, binVars
<1>5. ASSUME NEW t \in Threads, NEW o \in Values,
             \/ \E to \in 0..MaxValues, asRoot \in BOOLEAN : Allocate(t, o, to, asRoot)
             \/ LoadOwn(t, o) \/ BeginLoad(t, o) \/ AsRoot(t, o)
      PROVE  UNCHANGED lifeVars
  BY <1>5 DEF Allocate, LoadOwn, BeginLoad, AsRoot, lifeVars, poolVars, binVars,
              threadVars
<1>6. ASSUME NEW o \in Values, DropRoot(o)
      PROVE  PoolInv' /\ (NoneForgotten => NoneForgotten')
  <2>1. UNCHANGED <<made, open, allThreads, threadBins, alive, active, sending>>
    BY <1>6 DEF DropRoot, poolVars, binVars, threadVars
  <2>2. CASE UNCHANGED commands
    BY <2>1, <2>2, LifeUnchanged DEF lifeVars
  <2>3. CASE commands' = Append(commands, ScheduleCollect)
    BY <2>1, <2>3, RequestKeeps
  <2> QED
    BY <1>6, <2>2, <2>3 DEF DropRoot
<1>7. ASSUME NEW t \in Threads, RequestCollect(t)
      PROVE  PoolInv' /\ (NoneForgotten => NoneForgotten')
  BY <1>7, RequestKeeps DEF RequestCollect, poolVars, binVars, threadVars
<1>8. ASSUME RecvScheduleCollect \/ RecvCollect
      PROVE  PoolInv' /\ (NoneForgotten => NoneForgotten')
  <2>1. /\ commands # <<>> /\ commands' = Tail(commands)
        /\ Head(commands).op \notin {"NewThread", "ThreadShutdown"}
        /\ UNCHANGED <<made, open, allThreads, threadBins, alive, active, sending>>
    BY <1>8 DEF RecvScheduleCollect, RecvCollect, HeadIs, poolVars, binVars, threadVars
  <2> QED
    BY <2>1, ReceiptKeeps
<1>9. ASSUME TimerFires \/ StartAttempt \/ AcquireAllLocks \/ ReleaseWrite
      PROVE  UNCHANGED lifeVars
  BY <1>9 DEF TimerFires, StartAttempt, AcquireAllLocks, ReleaseWrite, lifeVars,
              poolVars, binVars, threadVars
<1>10. ASSUME UNCHANGED vars \/ Dead PROVE UNCHANGED lifeVars
  BY <1>10 DEF Dead, vars, lifeVars, poolVars, binVars, threadVars
<1> QED
  BY <1>1, <1>2, <1>3, <1>4, <1>5, <1>6, <1>7, <1>8, <1>9, <1>10, LifeUnchanged
     DEF Next, CollectorStep

-----------------------------------------------------------------------------
(* Guards and values.                                                      *)

LEMMA NextValueType ==
    ASSUME PoolInv, ValueType, [Next]_vars
    PROVE  ValueType'
PROOF
<1>1. ASSUME NEW t \in Threads, NEW p \in Pools, NewPool(t, p) \/ DropPool(t, p)
      PROVE  ValueType'
  BY <1>1 DEF NewPool, DropPool, ValueType, valueVars, requestVars
<1>2. ASSUME NEW t \in Threads, NEW p \in Pools, Enter(t, p)
      PROVE  ValueType'
  BY <1>2 DEF Enter, ValueType, valueVars, requestVars, poolVars
<1>3. ASSUME NEW t \in Threads, Send(t)
      PROVE  ValueType'
  <2>1. open \subseteq open'
    BY <1>3 DEF Send
  <2> QED
    BY <1>3, <2>1 DEF Send, ValueType, valueVars, requestVars
<1>4. ASSUME NEW t \in Threads, DropGuard(t) \/ EndLoad(t)
      PROVE  ValueType'
  BY <1>4 DEF DropGuard, EndLoad, ValueType, valueVars, requestVars, poolVars
<1>5. ASSUME NEW t \in Threads, RequestCollect(t)
      PROVE  ValueType'
  BY <1>5 DEF RequestCollect, ValueType, valueVars, threadVars, poolVars
<1>6. ASSUME NEW t \in Threads, NEW o \in Values, NEW to \in 0..MaxValues,
             NEW asRoot \in BOOLEAN, Allocate(t, o, to, asRoot)
      PROVE  ValueType'
  <2>1. to \in Values \cup {NoValue} /\ guard[t] \in made
    BY <1>6, PoolsConstants DEF Allocate, ValueType, PoolInv, LifeType, Values, NoValue
  <2> QED
    BY <1>6, <2>1 DEF Allocate, ValueType, poolVars, requestVars, threadVars
<1>7. ASSUME NEW t \in Threads, NEW o \in Values,
             LoadOwn(t, o) \/ BeginLoad(t, o) \/ AsRoot(t, o)
      PROVE  ValueType'
  BY <1>7 DEF LoadOwn, BeginLoad, AsRoot, ValueType, valueVars, poolVars, requestVars,
              threadVars
<1>8. ASSUME NEW o \in Values, DropRoot(o)
      PROVE  ValueType'
  BY <1>8 DEF DropRoot, ValueType, valueVars, poolVars, threadVars
<1>9. ASSUME \/ RecvNewThread \/ RecvThreadShutdown \/ RecvScheduleCollect
             \/ RecvCollect \/ TimerFires
      PROVE  ValueType'
  BY <1>9 DEF RecvNewThread, RecvThreadShutdown, RecvScheduleCollect, RecvCollect,
              TimerFires, ValueType, valueVars, requestVars, poolVars, threadVars
<1>10. ASSUME StartAttempt \/ AcquireAllLocks \/ ReleaseWrite
       PROVE  ValueType'
  BY <1>10 DEF StartAttempt, AcquireAllLocks, ReleaseWrite, ValueType, valueVars,
               requestVars, poolVars
<1>11. CASE Collect
  <2>1. /\ scheduled' \in BOOLEAN /\ waiting' \subseteq Threads
        /\ missed' \subseteq Values /\ allocated' \subseteq Values
        /\ cpc' \in {"panicked", "release"}
    BY <1>11 DEF Collect, Stamp, ValueType
  <2> QED
    BY <1>11, <2>1 DEF Collect, ValueType
<1>12. ASSUME UNCHANGED vars \/ Dead
       PROVE  ValueType'
  BY <1>12 DEF Dead, vars, ValueType, valueVars, requestVars, poolVars, threadVars
<1> QED
  BY <1>1, <1>2, <1>3, <1>4, <1>5, <1>6, <1>7, <1>8, <1>9, <1>10, <1>11, <1>12
     DEF Next, CollectorStep

LEMMA NextGuarded ==
    ASSUME PoolInv, ValueType, Guarded, [Next]_vars
    PROVE  Guarded'
PROOF
<1>1. ASSUME UNCHANGED <<guard, loading, loaded>>, cpc' = "collect" => cpc = "collect"
      PROVE  Guarded'
  BY <1>1 DEF Guarded
<1>2. ASSUME NEW t \in Threads,
             \/ Send(t) \/ RequestCollect(t)
             \/ \E p \in Pools : NewPool(t, p) \/ DropPool(t, p)
      PROVE  Guarded'
  BY <1>1, <1>2 DEF NewPool, DropPool, Send, RequestCollect, threadVars
<1>3. ASSUME NEW t \in Threads, NEW p \in Pools, Enter(t, p)
      PROVE  Guarded'
  BY <1>3 DEF Enter, Guarded, ValueType, Gate!Enter
<1>4. ASSUME NEW t \in Threads, DropGuard(t)
      PROVE  Guarded'
  BY <1>4 DEF DropGuard, Idle, Guarded, ValueType
<1>5. ASSUME NEW t \in Threads, EndLoad(t)
      PROVE  Guarded'
  BY <1>5 DEF EndLoad, Guarded, ValueType
<1>6. ASSUME NEW t \in Threads, NEW o \in Values, LoadOwn(t, o) \/ BeginLoad(t, o)
      PROVE  Guarded'
  BY <1>6 DEF LoadOwn, BeginLoad, Guarded, ValueType
<1>7. ASSUME NEW t \in Threads, NEW o \in Values,
             \/ \E to \in 0..MaxValues, asRoot \in BOOLEAN : Allocate(t, o, to, asRoot)
             \/ AsRoot(t, o)
      PROVE  Guarded'
  BY <1>1, <1>7 DEF Allocate, AsRoot, threadVars
<1>8. ASSUME \/ RecvNewThread \/ RecvThreadShutdown \/ RecvScheduleCollect
             \/ RecvCollect \/ TimerFires \/ Collect \/ ReleaseWrite
      PROVE  Guarded'
  BY <1>1, <1>8 DEF RecvNewThread, RecvThreadShutdown, RecvScheduleCollect, RecvCollect,
                    TimerFires, Collect, ReleaseWrite, threadVars
<1>9. ASSUME StartAttempt \/ AcquireAllLocks
      PROVE  Guarded'
  BY <1>9 DEF StartAttempt, AcquireAllLocks, Guarded, Gate!Begin
<1>10. ASSUME UNCHANGED vars \/ Dead
       PROVE  Guarded'
  BY <1>1, <1>10 DEF Dead, vars, threadVars
<1>11. ASSUME NEW o \in Values, DropRoot(o)
       PROVE  Guarded'
  BY <1>1, <1>11 DEF DropRoot, threadVars
<1> QED
  BY <1>2, <1>3, <1>4, <1>5, <1>6, <1>7, <1>8, <1>9, <1>10, <1>11 DEF Next, CollectorStep

-----------------------------------------------------------------------------
(* What is reachable.                                                      *)

\* What the roots lead to contains the roots, nothing but values of S, and
\* whatever its values have a Ref of; it is in every set that does.
LEMMA ReachedIsClosed ==
    ASSUME NEW S, NEW roots
    PROVE  /\ ReachedIn(S, roots) \subseteq S
           /\ roots \cap S \subseteq ReachedIn(S, roots)
           /\ Closed(ReachedIn(S, roots), S)
           /\ \A C \in SUBSET S : roots \cap S \subseteq C /\ Closed(C, S)
                                     => ReachedIn(S, roots) \subseteq C
PROOF
<1>1. Closed(ReachedIn(S, roots), S)
  <2> SUFFICES ASSUME NEW o \in ReachedIn(S, roots), link[o] \in S
               PROVE  link[o] \in ReachedIn(S, roots)
    BY DEF Closed
  <2>1. ASSUME NEW C \in SUBSET S, roots \cap S \subseteq C, Closed(C, S)
        PROVE  link[o] \in C
    <3>1. o \in C
      BY <2>1 DEF ReachedIn
    <3> QED
      BY <2>1, <3>1 DEF Closed
  <2> QED
    BY <2>1 DEF ReachedIn
<1> QED
  BY <1>1 DEF ReachedIn

\* A collection that does not end the collector takes no value of an unknown pool,
\* and of the others it keeps what the roots in known pools reach.
LEMMA CollectKeepsHeap ==
    ASSUME PoolInv, Guarded, HeapOK, Collect
    PROVE  HeapOK'
PROOF
<1>1. /\ \A o \in allocated : home[o] \in Pools /\ Registered(home[o])
      /\ \A o \in allocated \ missed : link[o] = NoValue \/ link[o] \in allocated
      /\ rooted \subseteq allocated
  BY DEF HeapOK
<1>2. \A t \in Threads : loaded[t] = {}
  BY DEF Guarded, Collect
<1>3. UNCHANGED <<loaded, home, link, rooted>>
  BY DEF Collect
<1>4. \A q \in Pools : In(NewThread(q), commands') <=> In(NewThread(q), commands)
  <2>1. Stamp \/ UNCHANGED commands
    BY DEF Collect
  <2> QED
    BY <2>1, StampKeepsChannel, Commands DEF PoolInv
<1>5. CASE RequestsUnknownPool
  <2>1. UNCHANGED <<allocated, missed, threadBins>>
    BY <1>5 DEF Collect
  <2> QED
    BY <1>1, <1>2, <1>3, <1>4, <2>1 DEF HeapOK, Registered
<1>6. CASE ~RequestsUnknownPool
  <2>1. /\ allocated' = allocated \ (Known \ Marked)
        /\ missed' = missed \cup (allocated \ Known)
        /\ threadBins' = threadBins \ (Emptied \ alive)
    BY <1>6 DEF Collect
  <2>2. /\ Known \subseteq allocated /\ Marked \subseteq Known
        /\ rooted \cap Known \subseteq Marked
        /\ \A o \in Marked : link[o] \in Known => link[o] \in Marked
    BY ReachedIsClosed DEF Known, Marked, Closed
  <2>3. \A o \in Marked : home[o] \in threadBins'
    BY <2>1, <2>2 DEF Emptied, Known
  <2>4. \A o \in allocated' : Registered(home[o])'
    BY <1>1, <1>3, <1>4, <2>1, <2>3 DEF Registered, Known
  <2>5. \A o \in Marked \ missed : link[o] = NoValue \/ link[o] \in Marked
    <3> SUFFICES ASSUME NEW o \in Marked \ missed, link[o] # NoValue
                 PROVE  link[o] \in Marked
      OBVIOUS
    <3>1. link[o] \in allocated
      BY <1>1, <2>2
    <3>2. home[link[o]] \in threadBins
      BY <1>6 DEF RequestsUnknownPool, UnknownRequests
    <3> QED
      BY <2>2, <3>1, <3>2 DEF Known
  <2>6. \A o \in allocated' \ missed' : link'[o] = NoValue \/ link'[o] \in allocated'
    BY <1>3, <2>1, <2>2, <2>5
  <2>7. rooted' \subseteq allocated'
    BY <1>1, <1>3, <2>1, <2>2
  <2> QED
    BY <1>1, <1>2, <1>3, <2>1, <2>4, <2>6, <2>7 DEF HeapOK
<1> QED
  BY <1>5, <1>6

\* With a pool that stays registered the collector never empties its list of
\* pools with a ThreadShutdown.
LEMMA ShutdownKeepsBins ==
    ASSUME Kept # {}, PoolInv, RecvThreadShutdown
    PROVE  threadBins' = threadBins
PROOF
<1>1. PICK p \in Pools :
          /\ p = Head(commands).pool
          /\ p \in threadBins /\ p \notin Kept
          /\ active \in Nat /\ (active = 1 <=> alive = {p})
  BY ShutdownIsKnown DEF RecvThreadShutdown
<1>2. Kept \subseteq alive
  BY PoolsConstants DEF PoolInv, Life
<1>3. active # 1
  BY <1>1, <1>2
<1> QED
  BY <1>1, <1>3 DEF RecvThreadShutdown

\* A registered pool stays so until a collection finds it empty.
LEMMA NextRegistered ==
    ASSUME Kept # {}, PoolInv, [Next]_vars, ~Collect, NEW p \in Pools, Registered(p)
    PROVE  Registered(p)'
PROOF
<1>1. NewThread(p) \in PoolCommand /\ commands \in Seq(Command)
  BY Commands DEF PoolInv, LifeType
<1>2. ASSUME UNCHANGED <<threadBins, commands>>
      PROVE  Registered(p)'
  BY <1>2 DEF Registered
<1>3. ASSUME NEW c, commands' = Append(commands, c), UNCHANGED threadBins
      PROVE  Registered(p)'
  <2>1. /\ Len(commands') = Len(commands) + 1 /\ Len(commands) \in Nat
        /\ \A i \in 1..Len(commands) : commands'[i] = commands[i]
    BY <1>1, <1>3, LenProperties
  <2>2. \A i \in 1..Len(commands) : i \in 1..Len(commands')
    BY <2>1
  <2>3. In(NewThread(p), commands) => In(NewThread(p), commands')
    BY <2>1, <2>2 DEF In
  <2> QED
    BY <1>3, <2>3 DEF Registered
<1>4. ASSUME commands # <<>>, commands' = Tail(commands), Head(commands) # NewThread(p),
             UNCHANGED threadBins
      PROVE  Registered(p)'
  BY <1>1, <1>4, Received DEF Registered
<1>5. ASSUME NEW t \in Threads,
             \/ DropGuard(t) \/ EndLoad(t)
             \/ \E q \in Pools : NewPool(t, q) \/ DropPool(t, q) \/ Enter(t, q)
      PROVE  Registered(p)'
  BY <1>2, <1>5 DEF NewPool, DropPool, Enter, DropGuard, EndLoad, binVars
<1>6. ASSUME NEW t \in Threads, Send(t) \/ RequestCollect(t)
      PROVE  Registered(p)'
  BY <1>3, <1>6 DEF Send, RequestCollect, binVars
<1>7. ASSUME NEW t \in Threads, NEW o \in Values,
             \/ \E to \in 0..MaxValues, asRoot \in BOOLEAN : Allocate(t, o, to, asRoot)
             \/ LoadOwn(t, o) \/ BeginLoad(t, o) \/ AsRoot(t, o)
      PROVE  Registered(p)'
  BY <1>2, <1>7 DEF Allocate, LoadOwn, BeginLoad, AsRoot, binVars
<1>8. ASSUME NEW o \in Values, DropRoot(o)
      PROVE  Registered(p)'
  BY <1>2, <1>3, <1>8 DEF DropRoot, binVars
<1>9. CASE RecvNewThread
  <2>1. /\ commands # <<>> /\ commands' = Tail(commands)
        /\ threadBins' = threadBins \cup {Head(commands).pool}
    BY <1>9 DEF RecvNewThread, HeadIs
  <2>2. CASE Head(commands) = NewThread(p)
    BY <2>1, <2>2 DEF NewThread, Registered
  <2>3. CASE Head(commands) # NewThread(p)
    BY <1>1, <2>1, <2>3, Received DEF Registered
  <2> QED
    BY <2>2, <2>3
<1>10. CASE RecvThreadShutdown
  <2>1. threadBins' = threadBins
    BY <1>10, ShutdownKeepsBins
  <2>2. commands # <<>> /\ commands' = Tail(commands) /\ Head(commands) # NewThread(p)
    BY <1>10 DEF RecvThreadShutdown, HeadIs, NewThread
  <2> QED
    BY <1>4, <2>1, <2>2
<1>11. ASSUME RecvScheduleCollect \/ RecvCollect
       PROVE  Registered(p)'
  <2>1. commands # <<>> /\ commands' = Tail(commands) /\ Head(commands) # NewThread(p)
    BY <1>11 DEF RecvScheduleCollect, RecvCollect, HeadIs, NewThread
  <2> QED
    BY <1>4, <1>11, <2>1 DEF RecvScheduleCollect, RecvCollect, binVars
<1>12. ASSUME TimerFires \/ StartAttempt \/ AcquireAllLocks \/ ReleaseWrite
       PROVE  Registered(p)'
  BY <1>2, <1>12 DEF TimerFires, StartAttempt, AcquireAllLocks, ReleaseWrite, binVars
<1>13. ASSUME UNCHANGED vars \/ Dead
       PROVE  Registered(p)'
  BY <1>2, <1>13 DEF Dead, vars, binVars
<1> QED
  BY <1>5, <1>6, <1>7, <1>8, <1>9, <1>10, <1>11, <1>12, <1>13 DEF Next, CollectorStep

\* A new value is in a pool that is open, so that the collector knows it or will.
LEMMA AllocateKeepsHeap ==
    ASSUME PoolInv, ValueType, HeapOK,
           NEW t \in Threads, NEW o \in Values, NEW to \in 0..MaxValues,
           NEW asRoot \in BOOLEAN, Allocate(t, o, to, asRoot)
    PROVE  HeapOK'
PROOF
<1>1. /\ guard[t] # NoPool /\ home[o] = NoPool
      /\ home' = [home EXCEPT ![o] = guard[t]]
      /\ link' = [link EXCEPT ![o] = to]
      /\ allocated' = allocated \cup {o}
      /\ rooted' \subseteq rooted \cup {o}
      /\ missed \subseteq missed'
      /\ to = NoValue \/ to \in allocated \/ o \in missed'
      /\ UNCHANGED <<threadBins, commands, loaded>>
  BY DEF Allocate, Stored, binVars, threadVars
<1>2. guard[t] \in Pools /\ Registered(guard[t])
  BY <1>1 DEF ValueType, PoolInv, LifeType, Life, Registered
<1>3. o \notin allocated
  BY <1>1, PoolsConstants DEF HeapOK
<1>4. /\ home'[o] = guard[t] /\ link'[o] = to
      /\ \A w \in allocated : home'[w] = home[w] /\ link'[w] = link[w]
  BY <1>1, <1>3 DEF ValueType
<1>5. \A q : Registered(q)' <=> Registered(q)
  BY <1>1 DEF Registered
<1>6. \A w \in allocated' : home'[w] \in Pools /\ Registered(home'[w])
  BY <1>1, <1>2, <1>4 DEF HeapOK
<1>7. \A w \in allocated' \ missed' : link'[w] = NoValue \/ link'[w] \in allocated'
  BY <1>1, <1>4 DEF HeapOK
<1> QED
  BY <1>1, <1>5, <1>6, <1>7 DEF HeapOK

LEMMA NextHeap ==
    ASSUME Kept # {}, PoolInv, ValueType, Guarded, HeapOK, [Next]_vars
    PROVE  HeapOK'
PROOF
<1>1. CASE Collect
  BY <1>1, CollectKeepsHeap
<1>2. ASSUME NEW t \in Threads, NEW o \in Values, NEW to \in 0..MaxValues,
             NEW asRoot \in BOOLEAN, Allocate(t, o, to, asRoot)
      PROVE  HeapOK'
  BY <1>2, AllocateKeepsHeap
<1>3. CASE ~Collect
  <2>1. \A p \in Pools : Registered(p) => Registered(p)'
    BY <1>3, NextRegistered
  <2>2. ASSUME UNCHANGED valueVars, rooted' \subseteq allocated,
               \A t \in Threads : loaded'[t] \subseteq allocated
        PROVE  HeapOK'
    BY <2>1, <2>2 DEF HeapOK, valueVars
  <2>3. rooted \subseteq allocated /\ \A t \in Threads : loaded[t] \subseteq allocated
    BY DEF HeapOK
  <2>4. ASSUME UNCHANGED valueVars, UNCHANGED <<rooted, loaded>>
        PROVE  HeapOK'
    BY <2>2, <2>3, <2>4
  <2>5. ASSUME NEW t \in Threads,
               \/ Send(t) \/ RequestCollect(t)
               \/ \E p \in Pools : NewPool(t, p) \/ DropPool(t, p) \/ Enter(t, p)
        PROVE  HeapOK'
    BY <2>4, <2>5 DEF NewPool, DropPool, Send, Enter, RequestCollect, threadVars
  <2>6. ASSUME NEW t \in Threads, DropGuard(t) \/ EndLoad(t)
        PROVE  HeapOK'
    <3>1. UNCHANGED valueVars /\ rooted' = rooted
      BY <2>6 DEF DropGuard, EndLoad
    <3>2. \A u \in Threads : loaded'[u] \subseteq allocated
      BY <2>3, <2>6 DEF DropGuard, EndLoad, ValueType
    <3> QED
      BY <2>2, <2>3, <3>1, <3>2
  <2>7. ASSUME NEW t \in Threads, NEW o \in Values, LoadOwn(t, o)
        PROVE  HeapOK'
    <3>1. UNCHANGED valueVars /\ rooted' = rooted
      BY <2>7 DEF LoadOwn
    <3>2. \A u \in Threads : loaded'[u] \subseteq allocated
      BY <2>3, <2>7 DEF LoadOwn, ValueType
    <3> QED
      BY <2>2, <2>3, <3>1, <3>2
  <2>8. ASSUME NEW t \in Threads, NEW o \in Values, BeginLoad(t, o)
        PROVE  HeapOK'
    BY <2>4, <2>8 DEF BeginLoad
  <2>9. ASSUME NEW t \in Threads, NEW o \in Values, AsRoot(t, o) \/ DropRoot(o)
        PROVE  HeapOK'
    <3>1. UNCHANGED valueVars /\ UNCHANGED loaded /\ rooted' \subseteq allocated
      BY <2>3, <2>9 DEF AsRoot, DropRoot, threadVars
    <3> QED
      BY <2>2, <2>3, <3>1
  <2>10. ASSUME \/ RecvNewThread \/ RecvThreadShutdown \/ RecvScheduleCollect
                \/ RecvCollect \/ TimerFires
         PROVE  HeapOK'
    BY <2>4, <2>10 DEF RecvNewThread, RecvThreadShutdown, RecvScheduleCollect,
                       RecvCollect, TimerFires, threadVars
  <2>11. ASSUME StartAttempt \/ AcquireAllLocks \/ ReleaseWrite
         PROVE  HeapOK'
    BY <2>4, <2>11 DEF StartAttempt, AcquireAllLocks, ReleaseWrite
  <2>12. ASSUME UNCHANGED vars \/ Dead
         PROVE  HeapOK'
    BY <2>4, <2>12 DEF Dead, vars, threadVars
  <2>13. ASSUME NEW o \in Values, DropRoot(o)
         PROVE  HeapOK'
    <3>1. UNCHANGED valueVars /\ UNCHANGED loaded /\ rooted' \subseteq allocated
      BY <2>3, <2>13 DEF DropRoot, threadVars
    <3> QED
      BY <2>2, <2>3, <3>1
  <2> QED
    BY <1>2, <1>3, <2>5, <2>6, <2>7, <2>8, <2>9, <2>10, <2>11, <2>12, <2>13
       DEF Next, CollectorStep
<1> QED
  BY <1>1, <1>3

\* In such a heap what is reached through Refs that were followed has its memory,
\* and its pool can be looked up.
LEMMA HeapOfReachable ==
    ASSUME PoolInv, ValueType, HeapOK
    PROVE  ReachableStays
PROOF
<1>1. allocated \in SUBSET Values /\ Referenced \subseteq allocated
  BY DEF ValueType, HeapOK, Referenced
<1>2. FollowedRefs(allocated)
  <2>1. NoValue \notin Values
    BY DEF NoValue, Values
  <2> QED
    BY <2>1 DEF FollowedRefs, HeapOK
<1>3. Followed \subseteq allocated
  BY <1>1, <1>2 DEF Followed
<1>4. ASSUME NEW o \in allocated
      PROVE  o \in Stored /\ home[o] \in allThreads
  <2>1. home[o] \in Pools /\ Registered(home[o])
    BY DEF HeapOK
  <2>2. WithCollector(home[o]) /\ home[o] \in allThreads
    BY <2>1, QueuedIsIn DEF Registered, WithCollector, PoolInv, Life
  <2> QED
    BY <2>2 DEF Stored, BinsExist
<1> QED
  BY <1>3, <1>4 DEF ReachableStays

\* And the pools that it asks for are known, but for those it has yet to receive.
LEMMA HeapOfMarked ==
    ASSUME PoolInv, HeapOK
    PROVE  OnlyUnreceivedPoolsAreUnknown
PROOF
<1> SUFFICES ASSUME NEW o \in Marked \ missed, link[o] # NoValue
             PROVE  \/ home[link[o]] \in threadBins
                    \/ Queued(NewThread(home[link[o]]))
  BY DEF OnlyUnreceivedPoolsAreUnknown
<1>1. Marked \subseteq allocated
  BY ReachedIsClosed DEF Marked, Known
<1>2. link[o] \in allocated
  BY <1>1 DEF HeapOK
<1>3. Registered(home[link[o]])
  BY <1>2 DEF HeapOK
<1> QED
  BY <1>3, QueuedIsIn DEF Registered, PoolInv

-----------------------------------------------------------------------------
(* The theorems.                                                           *)

LEMMA PoolsInvariant == Spec => [](PoolInv /\ ValueType /\ Guarded)
PROOF
<1>1. PoolInv /\ ValueType /\ Guarded /\ [Next]_vars => (PoolInv /\ ValueType /\ Guarded)'
  BY NextPools, NextValueType, NextGuarded
<1> QED
  BY <1>1, InitPools, PTL DEF Spec

\* The type invariant, whatever the program does.
THEOREM TypeCorrect == Spec => []TypeOK
PROOF
<1>1. PoolInv /\ ValueType => TypeOK
  BY PoolsFinite DEF PoolInv, LifeType, ValueType, Counted, TypeOK
<1> QED
  BY <1>1, PoolsInvariant, PTL

\* The collector is not mistaken about which pools are alive, if no pool is
\* dropped while another thread loads one of its values.
THEOREM PoolsAreCounted ==
    ASSUME "drop_during_load" \notin Calls
    PROVE  Spec => []ActivePoolsCounted
PROOF
<1>1. PoolInv /\ NoneForgotten /\ [Next]_vars => (PoolInv /\ NoneForgotten)'
  BY NextPools
<1>2. PoolInv /\ NoneForgotten => ActivePoolsCounted
  <2> SUFFICES ASSUME PoolInv, NoneForgotten PROVE ActivePoolsCounted
    OBVIOUS
  <2>1. LifeType /\ Life /\ Counted
    BY DEF PoolInv
  <2>2. ASSUME NEW p \in open PROVE p \in alive \/ Queued(NewThread(p))
    BY <2>1, QueuedIsIn DEF Life, LifeType
  <2>3. ASSUME NEW p \in alive \ open PROVE Dropping(p) \/ Queued(ThreadShutdown(p))
    BY <2>1, QueuedIsIn DEF NoneForgotten, LifeType, Told
  <2> QED
    BY <2>1, <2>2, <2>3 DEF ActivePoolsCounted, Counted
<1> QED
  BY <1>1, <1>2, InitPools, PTL DEF Spec

\* The first command of a pool is its NewThread, and its ThreadShutdown finds it
\* alive, whatever the program does: the collector dies of neither.
THEOREM CommandsExpected == Spec => []CommandsAreExpected
PROOF
<1>1. ASSUME PoolInv PROVE CommandsAreExpected
  <2>1. ASSUME HeadIs("NewThread") PROVE Head(commands).pool \notin threadBins
    <3>1. Head(commands) \in Command /\ In(Head(commands), commands)
      BY <1>1, <2>1, FirstCommand DEF HeadIs
    <3>2. PICK p \in Pools : p = Head(commands).pool /\ Head(commands) = NewThread(p)
      BY <2>1, <3>1, Commands DEF HeadIs
    <3> QED
      BY <1>1, <3>1, <3>2 DEF PoolInv, Life
  <2>2. ASSUME HeadIs("ThreadShutdown") PROVE Head(commands).pool \in threadBins \cap alive
    BY <1>1, <2>2, ShutdownIsKnown
  <2> QED
    BY <2>1, <2>2 DEF CommandsAreExpected
<1> QED
  BY <1>1, PoolsInvariant, PTL

LEMMA HeapInvariant ==
    ASSUME Kept # {}
    PROVE  Spec => [](PoolInv /\ ValueType /\ HeapOK)
PROOF
<1> DEFINE Inv == PoolInv /\ ValueType /\ Guarded /\ HeapOK
<1>1. Inv /\ [Next]_vars => Inv'
  BY NextPools, NextValueType, NextGuarded, NextHeap
<1>2. Init => Inv
  BY InitPools
<1> QED
  BY <1>1, <1>2, PTL DEF Spec

\* While one pool stays registered, what Roots and guarded references reach through
\* Refs that the collections could follow keeps its memory and its pool, also in
\* pools that the collector has not received or that were dropped.
THEOREM ReachableKeepsItsPool ==
    ASSUME Kept # {}
    PROVE  Spec => []ReachableStays
PROOF
<1>1. PoolInv /\ ValueType /\ HeapOK => ReachableStays
  BY HeapOfReachable
<1> QED
  BY <1>1, HeapInvariant, PTL

\* Under the same condition a collection meets a pool it does not know only if the
\* pool's NewThread is queued, or in a value that it need not have followed.
THEOREM UnknownPoolsAreUnreceived ==
    ASSUME Kept # {}
    PROVE  Spec => []OnlyUnreceivedPoolsAreUnknown
PROOF
<1>1. PoolInv /\ HeapOK => OnlyUnreceivedPoolsAreUnknown
  BY HeapOfMarked
<1> QED
  BY <1>1, HeapInvariant, PTL
===============================================================================
