--------------------------- MODULE ExclusiveAccess ---------------------------
(***************************************************************************)
(* What ReaderState, the guards and acquire_all_locks promise together: a  *)
(* gate that the threads of the program pass to touch the heap and that    *)
(* the collector closes.  Behind a closed gate nobody new comes in, and    *)
(* once all who are inside have left, the collector has the heap alone.    *)
(***************************************************************************)
CONSTANT Threads

VARIABLES
    inside,     \* the threads that hold a guard
    closed,     \* the collector wants, or has, the heap
    exclusive   \* the collector has the heap

gateVars == <<inside, closed, exclusive>>

Init ==
    /\ inside = {}
    /\ closed = FALSE
    /\ exclusive = FALSE

\* A thread acquires its first guard, or reacquires it.
Enter(t) ==
    /\ ~closed
    /\ inside' = inside \cup {t}
    /\ UNCHANGED <<closed, exclusive>>

\* A thread drops its last guard, or yields it.
Leave(t) ==
    /\ inside' = inside \ {t}
    /\ UNCHANGED <<closed, exclusive>>

\* The collector closes the gate; if nobody is inside it has the heap at once.
Close ==
    /\ ~closed
    /\ closed' = TRUE
    /\ exclusive' = (inside = {})
    /\ UNCHANGED inside

\* Everybody has left.
Begin ==
    /\ closed
    /\ inside = {}
    /\ exclusive' = TRUE
    /\ UNCHANGED <<inside, closed>>

\* The collection is over.
End ==
    /\ exclusive
    /\ exclusive' = FALSE
    /\ UNCHANGED <<inside, closed>>

\* The gate opens, after a collection or because the collector gave up.
Open ==
    /\ closed
    /\ ~exclusive
    /\ closed' = FALSE
    /\ UNCHANGED <<inside, exclusive>>

Next ==
    \/ \E t \in Threads : Enter(t) \/ Leave(t)
    \/ Close
    \/ Begin
    \/ End
    \/ Open

Spec == Init /\ [][Next]_gateVars
===============================================================================
