------------------------------ MODULE RcuConfig ------------------------------
(***************************************************************************)
(* RcuConfig of crates/hydra-engine/src/transport/rcu.rs: readers follow   *)
(* an atomic pointer to a box and clone the Arc in it; update swaps in a   *)
(* new box and frees the old one at once.                                  *)
(***************************************************************************)
EXTENDS Naturals

CONSTANTS
    ConfigThreads,
    MaxBoxes        \* bound: boxes allocated in a run

ASSUME RcuAssumption == MaxBoxes \in Nat \ {0}

VARIABLES
    box_ptr,        \* the box the pointer leads to; 0 is null
    boxes,          \* boxes allocated so far: 1 .. boxes
    freed,          \* how often each box was freed
    using           \* what each thread is doing with which box

rcuVars == <<box_ptr, boxes, freed, using>>

Idle == [at |-> "out", box |-> 0]

\* load(): the pointer ...
LoadPtr(t) ==
    /\ using[t] = Idle /\ box_ptr # 0
    /\ using' = [using EXCEPT ![t] = [at |-> "clone", box |-> box_ptr]]
    /\ UNCHANGED <<box_ptr, boxes, freed>>

\* ... and what it points to.  If update freed it in between, the clone reads
\* freed memory: it may crash or hand out anything, and nothing is said of it.
CloneArc(t) ==
    /\ using[t].at = "clone"
    /\ using' = [using EXCEPT ![t] = Idle]
    /\ UNCHANGED <<box_ptr, boxes, freed>>

\* A bug: the old pointer is loaded when the new box is made and the new one
\* is stored later, not exchanged.
StoreNew(t) ==
    /\ using[t].at = "swap"
    /\ box_ptr' = using[t].box
    /\ using' = [using EXCEPT ![t] = [at |-> "free", box |-> using[t].box - 1]]
    /\ UNCHANGED <<boxes, freed>>

\* update(): the new box, ...
NewBox(t) ==
    /\ using[t] = Idle /\ box_ptr # 0
    /\ boxes < MaxBoxes
    /\ boxes' = boxes + 1
    /\ using' = [using EXCEPT ![t] = [at |-> "swap", box |-> boxes + 1]]
    /\ UNCHANGED <<box_ptr, freed>>

\* ... the exchange of the pointers, ...
SwapPtr(t) ==
    /\ using[t].at = "swap"
    /\ box_ptr' = using[t].box
    /\ using' = [using EXCEPT ![t] = [at |-> "free", box |-> box_ptr]]
    /\ UNCHANGED <<boxes, freed>>

\* ... and the end of the box that was current.
FreeOld(t) ==
    /\ using[t].at = "free"
    /\ freed' = [freed EXCEPT ![using[t].box] = @ + 1]
    /\ using' = [using EXCEPT ![t] = Idle]
    /\ UNCHANGED <<box_ptr, boxes>>

\* Drop needs the only reference: no call is under way.
DropConfig ==
    /\ box_ptr # 0
    /\ \A t \in ConfigThreads : using[t] = Idle
    /\ box_ptr' = 0
    /\ freed' = [freed EXCEPT ![box_ptr] = @ + 1]
    /\ UNCHANGED <<boxes, using>>

RcuInit ==
    /\ box_ptr = 1
    /\ boxes = 1
    /\ freed = [b \in 1 .. MaxBoxes |-> 0]
    /\ using = [t \in ConfigThreads |-> Idle]

RcuNext ==
    \/ \E t \in ConfigThreads :
           LoadPtr(t) \/ CloneArc(t) \/ NewBox(t) \/ SwapPtr(t) \/ FreeOld(t)
    \/ DropConfig

RcuSpec == RcuInit /\ [][RcuNext]_rcuVars

-----------------------------------------------------------------------------
(* Properties                                                              *)

RcuTypeOK ==
    /\ box_ptr \in 0 .. MaxBoxes
    /\ boxes \in 1 .. MaxBoxes
    /\ freed \in [1 .. MaxBoxes -> Nat]
    /\ using \in [ConfigThreads -> [at : {"out", "clone", "swap", "free"}, box : 0 .. MaxBoxes]]

\* Some thread will put box b in, or has taken it out and will free it.
Owned(b) == \E t \in ConfigThreads : using[t].at \in {"swap", "free"} /\ using[t].box = b

\* Updates that overlap free every box they replace exactly once
\* (rcu.rs:29-49): a box is current, owned by one call, or freed, and once the
\* configuration is dropped nothing is left.
EachBoxFreedOnce ==
    /\ \A b \in 1 .. boxes :
           /\ freed[b] = IF b = box_ptr \/ Owned(b) THEN 0 ELSE 1
           /\ ~(b = box_ptr /\ Owned(b))
    /\ \A t, u \in ConfigThreads :
           /\ {using[t].at, using[u].at} \subseteq {"swap", "free"}
           /\ using[t].box = using[u].box
           => t = u
=============================================================================
