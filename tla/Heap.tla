--------------------------------- MODULE Heap ---------------------------------
(***************************************************************************)
(* What the slots, generations, root counts and mark bits of refuse        *)
(* promise a program: values that stay as long as a Root can reach them,   *)
(* and that are gone after a collection that finds them unreachable.       *)
(***************************************************************************)
EXTENDS Naturals

CONSTANTS
    MaxObjects,   \* bound: values a behaviour stores
    MaxRoots      \* bound: Root handles to one value

VARIABLES
    stored,   \* how many values there were
    live,     \* the values whose Ref loads
    link,     \* the Ref that each value holds, 0 if none
    handles,  \* how many Root handles each value has
    marked    \* what the collection in progress found reachable, or NotMarking

heapVars == <<stored, live, link, handles, marked>>

Objects == 1..MaxObjects
NotMarking == {0}

\* A set with all values that have a Root, from which no Ref leads to a live
\* value that is not in it.
Closed(C) ==
    /\ {o \in Objects : handles[o] > 0} \subseteq C
    /\ \A o \in C : link[o] \in live => link[o] \in C

\* What the Roots reach is the smallest such set.
Reachable == {o \in Objects : \A C \in SUBSET Objects : Closed(C) => o \in C}

Init ==
    /\ stored = 0
    /\ live = {}
    /\ link = [o \in Objects |-> 0]
    /\ handles = [o \in Objects |-> 0]
    /\ marked = NotMarking

\* Root::new and Ref::new of a value that holds any Ref, or none.
New(o, r, to) ==
    /\ marked = NotMarking
    /\ o = stored + 1
    /\ stored' = o
    /\ live' = live \cup {o}
    /\ link' = [link EXCEPT ![o] = to]
    /\ handles' = [handles EXCEPT ![o] = r]
    /\ UNCHANGED marked

\* A value behind a lock gets another Ref.
Relink(o, to) ==
    /\ marked = NotMarking
    /\ o \in live
    /\ link' = [link EXCEPT ![o] = to]
    /\ UNCHANGED <<stored, live, handles, marked>>

\* Ref::as_root and AnyRef::upgrade of a value that was not collected.
Upgrade(o) ==
    /\ marked = NotMarking
    /\ o \in live
    /\ handles' = [handles EXCEPT ![o] = @ + 1]
    /\ UNCHANGED <<stored, live, link, marked>>

\* Cloning and dropping a Root, at any time.
Clone(o) ==
    /\ handles[o] > 0
    /\ handles' = [handles EXCEPT ![o] = @ + 1]
    /\ UNCHANGED <<stored, live, link, marked>>

Drop(o) ==
    /\ handles[o] > 0
    /\ handles' = [handles EXCEPT ![o] = @ - 1]
    /\ UNCHANGED <<stored, live, link, marked>>

Mark ==
    /\ marked = NotMarking
    /\ marked' = Reachable
    /\ UNCHANGED <<stored, live, link, handles>>

Sweep ==
    /\ marked # NotMarking
    /\ live' = live \cap marked
    /\ marked' = NotMarking
    /\ UNCHANGED <<stored, link, handles>>

Next ==
    \/ \E o \in Objects :
          \/ \E r \in 0..1, to \in 0..MaxObjects : New(o, r, to)
          \/ \E to \in 0..MaxObjects : Relink(o, to)
          \/ Upgrade(o)
          \/ Clone(o)
          \/ Drop(o)
    \/ Mark
    \/ Sweep

Spec == Init /\ [][Next]_heapVars
===============================================================================
