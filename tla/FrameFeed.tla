------------------------------ MODULE FrameFeed ------------------------------
(***************************************************************************)
(* What every frame transport of the engine promises a consumer, and all   *)
(* it promises: frames are numbered as they are produced, and a consumer   *)
(* moves forward through them, skipping what it likes, never back and      *)
(* never past the frame in production.                                     *)
(***************************************************************************)
EXTENDS Naturals

CONSTANT Consumers

VARIABLES
    produced,   \* number of the newest frame
    attached,   \* consumers that are connected
    seen        \* newest frame each of them has moved past

vars == <<produced, attached, seen>>

Init ==
    /\ produced = 0
    /\ attached \in SUBSET Consumers
    /\ seen = [c \in Consumers |-> 0]

Produce ==
    /\ produced' = produced + 1
    /\ UNCHANGED <<attached, seen>>

\* A new consumer starts anywhere up to the present.
Attach(c) ==
    /\ c \notin attached
    /\ attached' = attached \cup {c}
    /\ \E n \in 0 .. produced : seen' = [seen EXCEPT ![c] = n]
    /\ UNCHANGED produced

Take(c) ==
    /\ c \in attached
    /\ \E n \in seen[c] + 1 .. produced : seen' = [seen EXCEPT ![c] = n]
    /\ UNCHANGED <<produced, attached>>

Detach(c) ==
    /\ c \in attached
    /\ attached' = attached \ {c}
    /\ seen' = [seen EXCEPT ![c] = 0]
    /\ UNCHANGED produced

Next ==
    \/ Produce
    \/ \E c \in Consumers : Attach(c) \/ Take(c) \/ Detach(c)

Spec == Init /\ [][Next]_vars
=============================================================================
