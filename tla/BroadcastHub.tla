---------------------------- MODULE BroadcastHub -----------------------------
(***************************************************************************)
(* The in-process broadcast ring of                                        *)
(* crates/hydra-engine/src/transport/hub.rs: one publisher, waiters that   *)
(* are only interested in some kinds of frames, and a futex whose wake-ups *)
(* carry the kind as a bit mask.  Each step is one access to shared memory *)
(* or one futex call.                                                      *)
(*                                                                         *)
(* The futex word is kept as the sequence of the masks it was bumped for;  *)
(* its value is the length (2^32 bumps between two instructions of one     *)
(* waiter are beyond the bounds).                                          *)
(***************************************************************************)
EXTENDS Naturals, Sequences

CONSTANTS
    Waiters,
    Bits,        \* BIT_WEBSOCKET, BIT_WEBRTC, ... of transport/futex.rs
    Interest,    \* interest_mask each waiter passes: nonempty set of Bits
    Capacity,    \* slots of the ring
    MaxFrames    \* bound: frames published

ASSUME HubAssumption ==
    /\ Interest \in [Waiters -> SUBSET Bits]
    /\ Capacity \in Nat \ {0}
    /\ MaxFrames \in Nat

VARIABLES
    head_seq, notify_futex, is_closed,
    sequence,    \* slot -> its sequence word
    payload,     \* slot -> number of the frame it holds, 0 while it holds none
    mask,        \* frame number -> mask it was published with
    ppc, seq,    \* the publisher and the frame it is publishing
    cpc,         \* the thread that closes the hub
    wpc, call, last_seen_seq, current_head, current_futex, taken

hub     == <<head_seq, notify_futex, is_closed, sequence, payload, mask>>
control == <<ppc, seq, cpc>>
locals  == <<last_seen_seq, current_head, current_futex, taken>>
vars    == <<hub, control, wpc, call, locals>>

SlotOf(n) == n % Capacity

Masks == (SUBSET Bits) \ {{}}

-----------------------------------------------------------------------------
(* publish                                                                 *)

\* The slot's old frame is dropped in place; nothing marks the slot meanwhile.
DropOld ==
    /\ ppc = "idle"
    /\ head_seq < MaxFrames
    /\ seq' = head_seq + 1
    /\ \E m \in Masks : mask' = [mask EXCEPT ![seq'] = m]
    /\ payload' = [payload EXCEPT ![SlotOf(seq')] = 0]
    /\ ppc' = "write"
    /\ UNCHANGED <<head_seq, notify_futex, is_closed, sequence, cpc, wpc, call, locals>>

WriteNew ==
    /\ ppc = "write"
    /\ payload' = [payload EXCEPT ![SlotOf(seq)] = seq]
    /\ ppc' = "stamp"
    /\ UNCHANGED <<head_seq, notify_futex, is_closed, sequence, mask, seq, cpc, wpc, call, locals>>

StampSlot ==
    /\ ppc = "stamp"
    /\ sequence' = [sequence EXCEPT ![SlotOf(seq)] = seq]
    /\ ppc' = "head"
    /\ UNCHANGED <<head_seq, notify_futex, is_closed, payload, mask, seq, cpc, wpc, call, locals>>

AdvanceHead ==
    /\ ppc = "head"
    /\ head_seq' = seq
    /\ ppc' = "bump"
    /\ UNCHANGED <<notify_futex, is_closed, sequence, payload, mask, seq, cpc, wpc, call, locals>>

Bump ==
    /\ ppc = "bump"
    /\ notify_futex' = Append(notify_futex, mask[seq])
    /\ ppc' = "wake"
    /\ UNCHANGED <<head_seq, is_closed, sequence, payload, mask, seq, cpc, wpc, call, locals>>

\* FUTEX_WAKE_BITSET: everyone asleep whose mask meets m is woken.
Woken(m) ==
    [w \in Waiters |-> IF wpc[w] = "asleep" /\ Interest[w] \cap m # {}
                       THEN "closed?" ELSE wpc[w]]

WakeInterested ==
    /\ ppc = "wake"
    /\ wpc' = Woken(mask[seq])
    /\ ppc' = "idle"
    /\ UNCHANGED <<hub, seq, cpc, call, locals>>

-----------------------------------------------------------------------------
(* close                                                                   *)

SetClosed ==
    /\ cpc = "open"
    /\ is_closed' = TRUE
    /\ cpc' = "bump"
    /\ UNCHANGED <<head_seq, notify_futex, sequence, payload, mask, ppc, seq, wpc, call, locals>>

\* A bug: nobody is woken for the close.
BumpClosedSilently ==
    /\ cpc = "bump"
    /\ notify_futex' = Append(notify_futex, Bits)
    /\ cpc' = "done"
    /\ UNCHANGED <<head_seq, is_closed, sequence, payload, mask, ppc, seq, wpc, call, locals>>

BumpClosed ==
    /\ cpc = "bump"
    /\ notify_futex' = Append(notify_futex, Bits)
    /\ cpc' = "wake"
    /\ UNCHANGED <<head_seq, is_closed, sequence, payload, mask, ppc, seq, wpc, call, locals>>

WakeClosed ==
    /\ cpc = "wake"
    /\ wpc' = Woken(Bits)
    /\ cpc' = "done"
    /\ UNCHANGED <<hub, ppc, seq, call, locals>>

-----------------------------------------------------------------------------
(* wait_and_read and try_read_latest                                       *)

Goto(w, from, to) == wpc[w] = from /\ wpc' = [wpc EXCEPT ![w] = to]

\* A waiter polls, or waits with or without a timeout.
Call(w) ==
    /\ wpc[w] = "idle"
    /\ \E kind \in {"poll", "wait", "timed"} :
        /\ call' = [call EXCEPT ![w] = kind]
        /\ wpc' = [wpc EXCEPT ![w] = IF kind = "poll" THEN "head" ELSE "closed?"]
    /\ taken' = [taken EXCEPT ![w] = 0]
    /\ current_head' = [current_head EXCEPT ![w] = 0]
    /\ UNCHANGED <<hub, control, last_seen_seq, current_futex>>

CheckClosed(w) ==
    /\ Goto(w, "closed?", IF is_closed THEN "idle" ELSE "head")
    /\ UNCHANGED <<hub, control, call, locals>>

\* Where a look at the ring that yields nothing leads.
NothingNew(w) == IF call[w] = "poll" THEN "idle" ELSE "clock"

\* A bug: any other head counts as new.
LoadHeadIfDifferent(w) ==
    /\ Goto(w, "head", IF head_seq # last_seen_seq[w] THEN "stamp" ELSE NothingNew(w))
    /\ current_head' = [current_head EXCEPT ![w] =
                           IF head_seq # last_seen_seq[w] THEN head_seq ELSE @]
    /\ UNCHANGED <<hub, control, call, last_seen_seq, current_futex, taken>>

LoadHead(w) ==
    /\ Goto(w, "head", IF head_seq > last_seen_seq[w] THEN "stamp" ELSE NothingNew(w))
    /\ current_head' = [current_head EXCEPT ![w] =
                           IF head_seq > last_seen_seq[w] THEN head_seq ELSE @]
    /\ UNCHANGED <<hub, control, call, last_seen_seq, current_futex, taken>>

CheckStamp(w) ==
    /\ Goto(w, "stamp", IF sequence[SlotOf(current_head[w])] = current_head[w]
                        THEN "mask" ELSE NothingNew(w))
    /\ UNCHANGED <<hub, control, call, locals>>

\* A bug: the waiter's interest is not asked.
CheckMaskForAnybody(w) ==
    /\ \E m \in IF payload[SlotOf(current_head[w])] = 0 THEN SUBSET Bits
                ELSE {mask[payload[SlotOf(current_head[w])]]} :
         Goto(w, "mask", IF m # {} THEN "clone" ELSE NothingNew(w))
    /\ UNCHANGED <<hub, control, call, locals>>

\* The mask is read through a shared reference to the slot.  If the publisher
\* has dropped the payload by now, what is read is anything.
CheckMask(w) ==
    /\ \E m \in IF payload[SlotOf(current_head[w])] = 0 THEN SUBSET Bits
                ELSE {mask[payload[SlotOf(current_head[w])]]} :
         Goto(w, "mask", IF m \cap Interest[w] # {} THEN "clone" ELSE NothingNew(w))
    /\ UNCHANGED <<hub, control, call, locals>>

\* The clone, of whatever the slot holds now.  Cloning a dropped payload is
\* undefined behaviour: the waiter is not followed beyond "undefined".
Clone(w) ==
    LET found == payload[SlotOf(current_head[w])] IN
    /\ Goto(w, "clone", IF found = 0 THEN "undefined" ELSE "got")
    /\ taken' = [taken EXCEPT ![w] = found]
    /\ UNCHANGED <<hub, control, call, last_seen_seq, current_head, current_futex>>

\* The caller notes the frame's number and passes it in its next call.
Return(w) ==
    /\ Goto(w, "got", "idle")
    /\ last_seen_seq' = [last_seen_seq EXCEPT ![w] = taken[w]]
    /\ UNCHANGED <<hub, control, call, current_head, current_futex, taken>>

TimedOut(w) ==
    /\ call[w] = "timed"
    /\ Goto(w, "clock", "idle")
    /\ UNCHANGED <<hub, control, call, locals>>

\* As in the shared-memory ring, the word is loaded after the ring was examined.
LoadFutex(w) ==
    /\ Goto(w, "clock", "wait")
    /\ current_futex' = [current_futex EXCEPT ![w] = Len(notify_futex)]
    /\ UNCHANGED <<hub, control, call, last_seen_seq, current_head, taken>>

FutexWait(w) ==
    /\ Goto(w, "wait", IF Len(notify_futex) = current_futex[w] THEN "asleep" ELSE "closed?")
    /\ UNCHANGED <<hub, control, call, locals>>

\* A signal, or for a timed wait the kernel timer.
Interrupted(w) ==
    /\ Goto(w, "asleep", "closed?")
    /\ UNCHANGED <<hub, control, call, locals>>

\* What a scheduled waiter does by itself.
Proceed(w) ==
    \/ CheckClosed(w) \/ LoadHead(w) \/ CheckStamp(w) \/ CheckMask(w) \/ Clone(w)
    \/ Return(w) \/ LoadFutex(w) \/ FutexWait(w)

-----------------------------------------------------------------------------
Init ==
    /\ head_seq = 0
    /\ notify_futex = <<>>
    /\ is_closed = FALSE
    /\ sequence = [i \in 0 .. Capacity - 1 |-> 0]
    /\ payload = [i \in 0 .. Capacity - 1 |-> 0]
    /\ mask = [n \in 1 .. MaxFrames |-> {}]
    /\ ppc = "idle"
    /\ seq = 0
    /\ cpc = "open"
    /\ wpc = [w \in Waiters |-> "idle"]
    /\ call = [w \in Waiters |-> "poll"]
    /\ last_seen_seq = [w \in Waiters |-> 0]
    /\ current_head = [w \in Waiters |-> 0]
    /\ current_futex = [w \in Waiters |-> 0]
    /\ taken = [w \in Waiters |-> 0]

Next ==
    \/ DropOld \/ WriteNew \/ StampSlot \/ AdvanceHead \/ Bump \/ WakeInterested
    \/ SetClosed \/ BumpClosed \/ WakeClosed
    \/ \E w \in Waiters :
        \/ Call(w) \/ CheckClosed(w) \/ LoadHead(w) \/ CheckStamp(w) \/ CheckMask(w)
        \/ Clone(w) \/ Return(w) \/ TimedOut(w) \/ LoadFutex(w) \/ FutexWait(w)
        \/ Interrupted(w)

Spec == Init /\ [][Next]_vars

\* A publish or close that has begun is finished and waiters that can run do;
\* nobody has to publish, close or call.
Fairness ==
    /\ WF_vars(WriteNew \/ StampSlot \/ AdvanceHead \/ Bump \/ WakeInterested)
    /\ WF_vars(BumpClosed \/ WakeClosed)
    /\ \A w \in Waiters : WF_vars(Proceed(w))

FairSpec == Spec /\ Fairness
-----------------------------------------------------------------------------
(* Properties                                                              *)

TypeOK ==
    /\ head_seq \in 0 .. MaxFrames
    /\ notify_futex \in Seq(SUBSET Bits)
    /\ is_closed \in BOOLEAN
    /\ sequence \in [0 .. Capacity - 1 -> 0 .. MaxFrames]
    /\ payload \in [0 .. Capacity - 1 -> 0 .. MaxFrames]
    /\ mask \in [1 .. MaxFrames -> SUBSET Bits]
    /\ ppc \in {"idle", "write", "stamp", "head", "bump", "wake"}
    /\ seq \in 0 .. MaxFrames
    /\ cpc \in {"open", "bump", "wake", "done"}
    /\ wpc \in [Waiters -> {"idle", "closed?", "head", "stamp", "mask", "clone", "got",
                            "undefined", "clock", "wait", "asleep"}]
    /\ call \in [Waiters -> {"poll", "wait", "timed"}]
    /\ last_seen_seq \in [Waiters -> 0 .. MaxFrames]
    /\ current_head \in [Waiters -> 0 .. MaxFrames]
    /\ current_futex \in [Waiters -> Nat]
    /\ taken \in [Waiters -> 0 .. MaxFrames]

Matches(w, m) == Interest[w] \cap m # {}

\* The publisher has begun the frame that reuses the slot w is looking at.
Lapped(w) == seq >= current_head[w] + Capacity

\* Unless it was lapped, a waiter gets the very frame it found at the head, of
\* a kind it asked for, and never touches a dropped payload: the stamp test at
\* hub.rs:104 is made once, before mask and payload are read.
SoundUnlessLapped ==
    \A w \in Waiters : wpc[w] \in {"got", "undefined"} /\ ~Lapped(w) =>
        /\ wpc[w] = "got"
        /\ taken[w] = current_head[w]
        /\ Matches(w, mask[taken[w]])

\* A sleeper is passed over only by wake-ups for kinds it did not ask for, or
\* one that will reach it is under way (hub.rs:84-87, 151-153).
NoWakeUpMissed ==
    \A w \in Waiters :
        (/\ wpc[w] = "asleep"
         /\ \E i \in current_futex[w] + 1 .. Len(notify_futex) : Matches(w, notify_futex[i]))
        => (ppc = "wake" /\ Matches(w, mask[seq])) \/ cpc = "wake"

\* A sleeper is woken by a frame it asked for, by the close or by an interruption,
\* and by nothing else.
WakesTheInterested ==
    \A w \in Waiters :
        wpc[w] = "asleep" /\ wpc'[w] # "asleep" =>
            (WakeInterested /\ Matches(w, mask[seq])) \/ WakeClosed \/ Interrupted(w)

\* Wake-ups are for those who asked for the frame, all of them and nobody else
\* (hub.rs:84-87, 149-155).
SelectiveWake == []NoWakeUpMissed /\ [][WakesTheInterested]_vars

\* Waiters move forward through the published frames.
Feed == INSTANCE FrameFeed WITH
    Consumers <- Waiters,
    produced <- seq,
    attached <- Waiters,
    seen <- last_seen_seq

ImplementsFeed == Feed!Spec

\* A waiter asleep when the hub closes returns (hub.rs:96, 149-155).
CloseReleasesSleepers ==
    \A w \in Waiters : (wpc[w] = "asleep" /\ cpc = "bump") ~> wpc[w] = "idle"

-----------------------------------------------------------------------------
(* The inductive invariant behind SoundUnlessLapped and ImplementsFeed     *)

PublisherInv ==
    /\ seq = IF ppc \in {"write", "stamp", "head"} THEN head_seq + 1 ELSE head_seq
    /\ ppc # "idle" => seq > 0
    /\ ppc \in {"stamp", "head"} => payload[SlotOf(seq)] = seq

\* The slot of frame n holds it, unless the slot is being used again.
SlotOK(n) ==
    /\ payload[SlotOf(n)] \in {0} \cup n .. seq
    /\ seq < n + Capacity => payload[SlotOf(n)] = n

SlotInv == \A n \in 1 .. head_seq : SlotOK(n)

WaiterOK(w) ==
    /\ wpc[w] \in {"stamp", "mask", "clone", "got", "undefined"} =>
        current_head[w] \in last_seen_seq[w] + 1 .. head_seq
    /\ wpc[w] \in {"clone", "got"} /\ ~Lapped(w) => Matches(w, mask[current_head[w]])
    /\ wpc[w] = "got" =>
        /\ current_head[w] <= taken[w] /\ taken[w] <= seq
        /\ ~Lapped(w) => taken[w] = current_head[w]
    /\ wpc[w] = "undefined" => Lapped(w)

HubInv ==
    /\ TypeOK
    /\ PublisherInv
    /\ SlotInv
    /\ \A w \in Waiters : WaiterOK(w)
=============================================================================
