-------------------------------- MODULE Lock --------------------------------
(***************************************************************************)
(* What a mutex promises its callers: at most one thread holds it, only    *)
(* the holder gives it up, and a free lock somebody is blocked on is       *)
(* eventually taken.                                                       *)
(***************************************************************************)
CONSTANT Threads

VARIABLES
    wanting,   \* threads blocked inside lock()
    holding    \* threads that own a guard

vars == <<wanting, holding>>

Init == wanting = {} /\ holding = {}

Block(t) ==
    /\ t \notin wanting \cup holding
    /\ wanting' = wanting \cup {t}
    /\ UNCHANGED holding

Acquire(t) ==
    /\ holding = {}
    /\ holding' = {t}
    /\ wanting' = wanting \ {t}

Release(t) ==
    /\ t \in holding
    /\ holding' = holding \ {t}
    /\ UNCHANGED wanting

Next == \E t \in Threads : Block(t) \/ Acquire(t) \/ Release(t)

Spec == Init /\ [][Next]_vars

AcquireBlocked == \E t \in wanting : Acquire(t)

FairSpec == Spec /\ WF_vars(AcquireBlocked)
=============================================================================
