------------------------------ MODULE Collection ------------------------------
(***************************************************************************)
(* What one collection promises, whichever threads mark in whatever order: *)
(* a value that a Root reaches stays, and a value that no Root reached     *)
(* when the collection began goes.  Roots are dropped all the time; new    *)
(* ones need a guard, which nobody has during a collection.                *)
(***************************************************************************)
CONSTANT Objects

VARIABLES
    refs,      \* the values that each value has a Ref of
    live,      \* the values that are allocated
    rooted,    \* the values with a root count
    atStart,   \* rooted, when the collection began
    over       \* the collection has ended

collectionVars == <<refs, live, rooted, atStart, over>>

\* A set of live values with these roots that no Ref leads out of.
Closed(C, roots) ==
    /\ C \subseteq live
    /\ roots \cap live \subseteq C
    /\ \A o \in C : refs[o] \cap live \subseteq C

\* What roots reach is the smallest such set.
Reachable(roots) == {o \in live : \A C \in SUBSET live : Closed(C, roots) => o \in C}

Init ==
    /\ refs \in [Objects -> SUBSET Objects]
    /\ live \in SUBSET Objects
    /\ rooted \in SUBSET live
    /\ atStart = rooted
    /\ over = FALSE

\* The last Root of a value is dropped.
DropRoot(o) ==
    /\ o \in rooted
    /\ rooted' = rooted \ {o}
    /\ UNCHANGED <<refs, live, atStart, over>>

Collect ==
    /\ ~over
    /\ over' = TRUE
    /\ live' \in SUBSET live
    /\ Reachable(rooted) \subseteq live'
    /\ live' \subseteq Reachable(atStart)
    /\ UNCHANGED <<refs, rooted, atStart>>

Next ==
    \/ \E o \in Objects : DropRoot(o)
    \/ Collect

Spec == Init /\ [][Next]_collectionVars
===============================================================================
