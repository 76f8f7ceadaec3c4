------------------------------ MODULE StringPool ------------------------------
(***************************************************************************)
(* The interner of refuse-pool (src/refuse-pool/src/lib.rs): one mutex     *)
(* around a hash table whose entries keep a pooled string with a Root, or  *)
(* remember it with a Ref.                                                 *)
(*                                                                         *)
(* Entries of different strings do not touch each other, so the module     *)
(* follows all that is interned for one string: its values, in the order   *)
(* in which they were allocated.  What is done under the mutex is a step;  *)
(* root counts change, and are read, without it.  A value is allocated and *)
(* upgraded under a CollectionGuard, which keeps the collector away        *)
(* (CollectionGuards), and collected when its root count is 0 (Bin).       *)
(***************************************************************************)
EXTENDS Naturals, Sequences, FiniteSets

CONSTANTS
    Threads,
    MaxValues,    \* bound: values allocated
    MaxHandles,   \* bound: RootStrings the program holds of one value
    Calls         \* how the program gets its strings

ASSUME PoolConstants ==
    /\ IsFiniteSet(Threads)
    /\ MaxValues \in Nat
    /\ MaxHandles \in Nat \ {0}
    /\ Calls \subseteq {"root", "ref", "upgrade"}

VARIABLES
    entry,     \* StringPool::strings: what is kept of each value
    live,      \* the values that are allocated
    stored,    \* how many values there were
    roots,     \* Rooted::roots of each value
    handles,   \* the RootStrings that the program holds
    guarded,   \* the threads with a CollectionGuard
    dropping,  \* the RootStrings each thread is dropping, innermost first
    pc         \* where RootString::drop of the innermost one is

poolVars == <<entry, live, stored, roots>>
vars == <<poolVars, handles, guarded, dropping, pc>>

Values == 1..MaxValues

TypeOK ==
    /\ entry \in [Values -> {"none", "rooted", "weak"}]
    /\ live \subseteq Values
    /\ stored \in 0..MaxValues
    /\ roots \in [Values -> Nat]
    /\ handles \in [Values -> 0..MaxHandles]
    /\ guarded \subseteq Threads
    /\ dropping \in [Threads -> Seq(Values)]
    /\ pc \in [Threads -> {"idle", "check", "lock", "dec"}]

Init ==
    /\ entry = [v \in Values |-> "none"]
    /\ live = {}
    /\ stored = 0
    /\ roots = [v \in Values |-> 0]
    /\ handles = [v \in Values |-> 0]
    /\ guarded = {}
    /\ dropping = [t \in Threads |-> <<>>]
    /\ pc = [t \in Threads |-> "idle"]

-----------------------------------------------------------------------------
(* Interning.                                                              *)

\* Faulty variant of Interned: an entry that is weak is never equal.
InternedRooted == {v \in live : entry[v] = "rooted"}

\* PoolEntry::equals: the entries that have the string.
Interned == {v \in live : entry[v] # "none"}

\* StringPool::intern and, for a RootString, a clone of what it returns: n is
\* how many RootStrings of the value the program gets.
Intern(n) ==
    \/ \E v \in Interned :
          /\ handles[v] + n <= MaxHandles
          /\ entry' = [entry EXCEPT ![v] = "rooted"]
          /\ roots' = [roots EXCEPT
                          ![v] = @ + n + IF entry[v] = "weak" THEN 1 ELSE 0]
          /\ handles' = [handles EXCEPT ![v] = @ + n]
          /\ UNCHANGED <<live, stored>>
    \/ /\ Interned = {}
       /\ stored < MaxValues
       /\ stored' = stored + 1
       /\ live' = live \cup {stored'}
       /\ entry' = [entry EXCEPT ![stored'] = "rooted"]
       /\ roots' = [roots EXCEPT ![stored'] = 1 + n]
       /\ handles' = [handles EXCEPT ![stored'] = n]

\* RootString::new and From.
NewRoot(t) ==
    /\ "root" \in Calls
    /\ t \in guarded /\ pc[t] = "idle"
    /\ Intern(1)
    /\ UNCHANGED <<guarded, dropping, pc>>

\* RefString::new and From.
NewRef(t) ==
    /\ "ref" \in Calls
    /\ t \in guarded /\ pc[t] = "idle"
    /\ Intern(0)
    /\ UNCHANGED <<guarded, dropping, pc>>

\* RefString::as_root.
Upgrade(t, v) ==
    /\ "upgrade" \in Calls
    /\ t \in guarded /\ pc[t] = "idle"
    /\ v \in live
    /\ handles[v] < MaxHandles
    /\ roots' = [roots EXCEPT ![v] = @ + 1]
    /\ handles' = [handles EXCEPT ![v] = @ + 1]
    /\ UNCHANGED <<entry, live, stored, guarded, dropping, pc>>

\* RootString::clone.
Clone(v) ==
    /\ handles[v] \in 1..(MaxHandles - 1)
    /\ roots' = [roots EXCEPT ![v] = @ + 1]
    /\ handles' = [handles EXCEPT ![v] = @ + 1]
    /\ UNCHANGED <<entry, live, stored, guarded, dropping, pc>>

-----------------------------------------------------------------------------
(* RootString::drop, which is nested when it drops the root of an entry.   *)

Drop(t, v) ==
    /\ pc[t] = "idle"
    /\ handles[v] > 0
    /\ handles' = [handles EXCEPT ![v] = @ - 1]
    /\ dropping' = [dropping EXCEPT ![t] = <<v>>]
    /\ pc' = [pc EXCEPT ![t] = "check"]
    /\ UNCHANGED <<poolVars, guarded>>

\* Faulty variant of CheckCount: two or more.
CheckCountAtLeast(t) ==
    /\ pc[t] = "check"
    /\ pc' = [pc EXCEPT ![t] =
                 IF roots[Head(dropping[t])] >= 2 THEN "lock" ELSE "dec"]
    /\ UNCHANGED <<poolVars, handles, guarded, dropping>>

\* root_count() == 2, without the mutex.
CheckCount(t) ==
    /\ pc[t] = "check"
    /\ pc' = [pc EXCEPT ![t] =
                 IF roots[Head(dropping[t])] = 2 THEN "lock" ELSE "dec"]
    /\ UNCHANGED <<poolVars, handles, guarded, dropping>>

\* find_entry: a rooted entry is equal if its string is, a weak one if it is of
\* the same value.
Found(v) == {w \in Values : entry[w] = "rooted" \/ (entry[w] = "weak" /\ w = v)}

\* Faulty variant of Downgrade: the root that was in the entry is forgotten.
DowngradeForgets(t) ==
    /\ pc[t] = "lock"
    /\ \E w \in Found(Head(dropping[t])) : entry' = [entry EXCEPT ![w] = "weak"]
    /\ pc' = [pc EXCEPT ![t] = "dec"]
    /\ UNCHANGED <<live, stored, roots, handles, guarded, dropping>>

\* Under the mutex a rooted entry becomes weak; its RootString is dropped after
\* the mutex is released, and before the one that is being dropped.
Downgrade(t) ==
    /\ pc[t] = "lock"
    /\ \/ \E w \in Found(Head(dropping[t])) :
             /\ entry[w] = "rooted"
             /\ entry' = [entry EXCEPT ![w] = "weak"]
             /\ dropping' = [dropping EXCEPT ![t] = <<w>> \o @]
             /\ pc' = [pc EXCEPT ![t] = "check"]
       \/ /\ LET found == Found(Head(dropping[t]))
             IN  found = {} \/ \E w \in found : entry[w] = "weak"
          /\ pc' = [pc EXCEPT ![t] = "dec"]
          /\ UNCHANGED <<entry, dropping>>
    /\ UNCHANGED <<live, stored, roots, handles, guarded>>

\* Faulty variant of Decrement: the root is given back twice.
DecrementTwice(t) ==
    /\ pc[t] = "dec"
    /\ roots' = [roots EXCEPT ![Head(dropping[t])] = @ - 2]
    /\ dropping' = [dropping EXCEPT ![t] = Tail(@)]
    /\ pc' = [pc EXCEPT ![t] = IF Len(dropping[t]) = 1 THEN "idle" ELSE "dec"]
    /\ UNCHANGED <<entry, live, stored, handles, guarded>>

\* Root::drop of the field.
Decrement(t) ==
    /\ pc[t] = "dec"
    /\ roots' = [roots EXCEPT ![Head(dropping[t])] = @ - 1]
    /\ dropping' = [dropping EXCEPT ![t] = Tail(@)]
    /\ pc' = [pc EXCEPT ![t] = IF Len(dropping[t]) = 1 THEN "idle" ELSE "dec"]
    /\ UNCHANGED <<entry, live, stored, handles, guarded>>

-----------------------------------------------------------------------------
(* Guards and collections.                                                 *)

\* A thread acquires, or drops, its guard.
ToggleGuard(t) ==
    /\ pc[t] = "idle"
    /\ guarded' = IF t \in guarded THEN guarded \ {t} ELSE guarded \cup {t}
    /\ UNCHANGED <<poolVars, handles, dropping, pc>>

Collect ==
    /\ guarded = {}
    /\ live' = {v \in live : roots[v] > 0}
    /\ UNCHANGED <<entry, stored, roots, handles, guarded, dropping, pc>>

DropStep(t) == CheckCount(t) \/ Downgrade(t) \/ Decrement(t)

Next ==
    \/ \E t \in Threads :
          \/ NewRoot(t)
          \/ NewRef(t)
          \/ \E v \in Values : Upgrade(t, v) \/ Drop(t, v)
          \/ DropStep(t)
          \/ ToggleGuard(t)
    \/ \E v \in Values : Clone(v)
    \/ Collect

Spec == Init /\ [][Next]_vars

-----------------------------------------------------------------------------
(* Safety.                                                                 *)

\* "all instances of the same exact byte sequence refer to the same allocation"
\* (refuse-pool lib.rs:7-8), which is what RootString::eq, comparing pointers,
\* relies on, and RefString too: there is never a second value of a string.
OneAllocation == Cardinality(live) <= 1

\* The drops in progress of RootStrings of v: a thread and a depth of nesting.
Levels == 1..4
Drops(v) ==
    {d \in Threads \X Levels :
        d[2] \in DOMAIN dropping[d[1]] /\ dropping[d[1]][d[2]] = v}

\* The root count is what the program, the pool and the drops in progress hold:
\* no nested drop loses a root or gives one back twice, however the drops of
\* several threads and the upgrades of their entry interleave.
RootsAccounted ==
    \A v \in Values :
        roots[v] = handles[v]
                   + (IF entry[v] = "rooted" THEN 1 ELSE 0)
                   + Cardinality(Drops(v))

\* RootString::drop re-enters itself for the root of the entry it took, without
\* the mutex.  It recurses at most twice, whatever is interned meanwhile.
NestingIsBounded == \A t \in Threads : Len(dropping[t]) <= 3
===============================================================================
