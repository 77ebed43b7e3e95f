------------------------------- MODULE ShmRing -------------------------------
(***************************************************************************)
(* The POSIX shared-memory frame ring of crates/hydra-engine/src/shm.rs:   *)
(* one writer, any number of readers, no lock.  A frame is named by its    *)
(* sequence number; its bytes are Cells memory cells, each holding the     *)
(* number of the frame it was last written for, so that a frame put        *)
(* together from two writes is visible as a mixture of numbers.            *)
(*                                                                         *)
(* Every step below is one access to the shared mapping (or one futex      *)
(* system call): writer and readers interleave between any two of them.    *)
(* Slot headers (64 bytes) are written and read in one step; payloads are  *)
(* copied cell by cell, in any order, as memcpy may.  All frames have the  *)
(* size of the slot.  Readers in PyReaders run the copy of this protocol   *)
(* in sdk/python/hydrastream/reader.py; they only poll.                    *)
(***************************************************************************)
EXTENDS Naturals

CONSTANTS
    Readers,     \* attached reader handles
    PyReaders,   \* those of them that are Python StreamConsumers
    Slots,       \* slot_count of the header
    Cells,       \* memory cells of one payload
    MaxFrames,   \* bound: frames the writer produces
    NotifyWord   \* values of the 32-bit futex word (2^32 in the build)

ASSUME ShmAssumption ==
    /\ PyReaders \subseteq Readers
    /\ Slots \in Nat \ {0}
    /\ MaxFrames \in Nat
    /\ NotifyWord \in Nat \ {0}

VARIABLES
    \* shared mapping: ShmHeader and the slots
    write_sequence, notify_seq, slotSeq, slotData,
    \* ShmWriter
    wpc, frame_counter, wtodo,
    \* ShmReader r: program point, kind of call, and the locals of that call
    rpc, call, last_seen_seq, current_seq, current_notify, hdr, rtodo, out

shared  == <<write_sequence, notify_seq, slotSeq, slotData>>
writer  == <<wpc, frame_counter, wtodo>>
locals  == <<current_seq, current_notify, hdr, rtodo, out>>
readers == <<rpc, call, last_seen_seq, locals>>
vars    == <<shared, writer, readers>>

SlotOf(n) == n % Slots

-----------------------------------------------------------------------------
(* ShmWriter                                                               *)

\* A bug: write_sequence is stored along with the slot header.
BeginFrameAnnounced ==
    /\ wpc = "idle"
    /\ frame_counter < MaxFrames
    /\ frame_counter' = frame_counter + 1
    /\ slotSeq' = [slotSeq EXCEPT ![SlotOf(frame_counter')] = frame_counter']
    /\ write_sequence' = frame_counter'
    /\ wtodo' = Cells
    /\ wpc' = "copy"
    /\ UNCHANGED <<notify_seq, slotData, readers>>

\* write_frame up to the slot header: the counter is bumped first.
BeginFrame ==
    /\ wpc = "idle"
    /\ frame_counter < MaxFrames
    /\ frame_counter' = frame_counter + 1
    /\ slotSeq' = [slotSeq EXCEPT ![SlotOf(frame_counter')] = frame_counter']
    /\ wtodo' = Cells
    /\ wpc' = "copy"
    /\ UNCHANGED <<write_sequence, notify_seq, slotData, readers>>

\* copy_nonoverlapping, one cell at a time.
WriteCell ==
    /\ wpc = "copy"
    /\ \E c \in wtodo :
        /\ slotData' = [slotData EXCEPT ![SlotOf(frame_counter)][c] = frame_counter]
        /\ wtodo' = wtodo \ {c}
    /\ UNCHANGED <<write_sequence, notify_seq, slotSeq, wpc, frame_counter, readers>>

\* The Release store of write_sequence, after the whole payload.
Publish ==
    /\ wpc = "copy"
    /\ wtodo = {}
    /\ write_sequence' = frame_counter
    /\ wpc' = "notify"
    /\ UNCHANGED <<notify_seq, slotSeq, slotData, frame_counter, wtodo, readers>>

\* A bug: the wake-up is forgotten.
BumpNotifySilently ==
    /\ wpc = "notify"
    /\ notify_seq' = (notify_seq + 1) % NotifyWord
    /\ wpc' = "idle"
    /\ UNCHANGED <<write_sequence, slotSeq, slotData, frame_counter, wtodo, readers>>

BumpNotify ==
    /\ wpc = "notify"
    /\ notify_seq' = (notify_seq + 1) % NotifyWord
    /\ wpc' = "wake"
    /\ UNCHANGED <<write_sequence, slotSeq, slotData, frame_counter, wtodo, readers>>

\* A bug: a woken reader waits again without looking.
WakeAllWithoutRecheck ==
    /\ wpc = "wake"
    /\ wpc' = "idle"
    /\ rpc' = [r \in Readers |-> IF rpc[r] = "asleep" THEN "clock" ELSE rpc[r]]
    /\ UNCHANGED <<shared, frame_counter, wtodo, call, last_seen_seq, locals>>

\* FUTEX_WAKE of everyone; a woken reader re-enters its loop.
WakeAll ==
    /\ wpc = "wake"
    /\ wpc' = "idle"
    /\ rpc' = [r \in Readers |-> IF rpc[r] = "asleep" THEN "check" ELSE rpc[r]]
    /\ UNCHANGED <<shared, frame_counter, wtodo, call, last_seen_seq, locals>>

-----------------------------------------------------------------------------
(* ShmReader                                                               *)

Goto(r, from, to) == rpc[r] = from /\ rpc' = [rpc EXCEPT ![r] = to]

\* The caller polls (read_latest_frame) or blocks (wait_and_read_frame),
\* without or with a timeout.
Call(r) ==
    /\ rpc[r] = "idle"
    /\ \E kind \in IF r \in PyReaders THEN {"poll"} ELSE {"poll", "wait", "timed"} :
        /\ call' = [call EXCEPT ![r] = kind]
        /\ rpc' = [rpc EXCEPT ![r] = IF kind = "poll" THEN "load" ELSE "check"]
    /\ UNCHANGED <<shared, writer, last_seen_seq, locals>>

\* wait_and_read_frame's own look at write_sequence.
Check(r) ==
    /\ Goto(r, "check", IF write_sequence > last_seen_seq[r] THEN "load" ELSE "clock")
    /\ UNCHANGED <<shared, writer, call, last_seen_seq, locals>>

\* A bug: any other sequence counts as new.
LoadIfDifferent(r) ==
    /\ Goto(r, "load", IF write_sequence # last_seen_seq[r] THEN "header"
                       ELSE IF call[r] = "poll" THEN "idle" ELSE "clock")
    /\ current_seq' = [current_seq EXCEPT ![r] =
                          IF write_sequence # last_seen_seq[r] THEN write_sequence ELSE 0]
    /\ UNCHANGED <<shared, writer, call, last_seen_seq, current_notify, hdr, rtodo, out>>

\* read_latest_frame loads it again and gives up when nothing is new.
Load(r) ==
    /\ Goto(r, "load", IF write_sequence > last_seen_seq[r] THEN "header"
                       ELSE IF call[r] = "poll" THEN "idle" ELSE "clock")
    /\ current_seq' = [current_seq EXCEPT ![r] =
                          IF write_sequence > last_seen_seq[r] THEN write_sequence ELSE 0]
    /\ UNCHANGED <<shared, writer, call, last_seen_seq, current_notify, hdr, rtodo, out>>

\* The slot header is read; nothing is validated against current_seq.
ReadHeader(r) ==
    /\ Goto(r, "header", "copy")
    /\ hdr' = [hdr EXCEPT ![r] = slotSeq[SlotOf(current_seq[r])]]
    /\ rtodo' = [rtodo EXCEPT ![r] = Cells]
    /\ UNCHANGED <<shared, writer, call, last_seen_seq, current_seq, current_notify, out>>

ReadCell(r) ==
    /\ rpc[r] = "copy"
    /\ \E c \in rtodo[r] :
        /\ out' = [out EXCEPT ![r][c] = slotData[SlotOf(current_seq[r])][c]]
        /\ rtodo' = [rtodo EXCEPT ![r] = @ \ {c}]
    /\ UNCHANGED <<shared, writer, rpc, call, last_seen_seq, current_seq, current_notify, hdr>>

\* The frame goes to the caller.  Rust remembers the sequence it looked up,
\* Python the one it found in the slot.
Return(r) ==
    /\ rtodo[r] = {}
    /\ Goto(r, "copy", "idle")
    /\ last_seen_seq' = [last_seen_seq EXCEPT ![r] =
                            IF r \in PyReaders THEN hdr[r] ELSE current_seq[r]]
    /\ current_seq' = [current_seq EXCEPT ![r] = 0]
    /\ hdr' = [hdr EXCEPT ![r] = 0]
    /\ out' = [out EXCEPT ![r] = [c \in Cells |-> 0]]
    /\ UNCHANGED <<shared, writer, call, current_notify, rtodo>>

\* The elapsed-time test; only a timed call can return empty-handed.
TimedOut(r) ==
    /\ call[r] = "timed"
    /\ Goto(r, "clock", "idle")
    /\ UNCHANGED <<shared, writer, call, last_seen_seq, locals>>

\* The futex word is loaded only now, after write_sequence was examined.
LoadNotify(r) ==
    /\ Goto(r, "clock", "wait")
    /\ current_notify' = [current_notify EXCEPT ![r] = notify_seq]
    /\ UNCHANGED <<shared, writer, call, last_seen_seq, current_seq, hdr, rtodo, out>>

\* FUTEX_WAIT compares and enqueues atomically.
FutexWait(r) ==
    /\ Goto(r, "wait", IF notify_seq = current_notify[r] THEN "asleep" ELSE "check")
    /\ UNCHANGED <<shared, writer, call, last_seen_seq, locals>>

\* A signal ends any wait, the kernel timer a timed one.
Interrupted(r) ==
    /\ Goto(r, "asleep", "check")
    /\ UNCHANGED <<shared, writer, call, last_seen_seq, locals>>

\* What a scheduled reader does by itself: everything but starting a call,
\* reaching its deadline and being interrupted.
Proceed(r) ==
    \/ Check(r) \/ Load(r) \/ ReadHeader(r) \/ ReadCell(r) \/ Return(r)
    \/ LoadNotify(r) \/ FutexWait(r)

-----------------------------------------------------------------------------
Init ==
    /\ write_sequence = 0
    /\ notify_seq = 0
    /\ slotSeq = [i \in 0 .. Slots - 1 |-> 0]
    /\ slotData = [i \in 0 .. Slots - 1 |-> [c \in Cells |-> 0]]
    /\ wpc = "idle"
    /\ frame_counter = 0
    /\ wtodo = {}
    /\ rpc = [r \in Readers |-> "idle"]
    /\ call = [r \in Readers |-> "poll"]
    /\ last_seen_seq = [r \in Readers |-> 0]
    /\ current_seq = [r \in Readers |-> 0]
    /\ current_notify = [r \in Readers |-> 0]
    /\ hdr = [r \in Readers |-> 0]
    /\ rtodo = [r \in Readers |-> {}]
    /\ out = [r \in Readers |-> [c \in Cells |-> 0]]

Next ==
    \/ BeginFrame \/ WriteCell \/ Publish \/ BumpNotify \/ WakeAll
    \/ \E r \in Readers :
        \/ Call(r) \/ Check(r) \/ Load(r) \/ ReadHeader(r) \/ ReadCell(r)
        \/ Return(r) \/ TimedOut(r) \/ LoadNotify(r) \/ FutexWait(r)
        \/ Interrupted(r)

Spec == Init /\ [][Next]_vars

\* The writer finishes the frame it began (a new one is the producer's
\* choice) and the kernel schedules every reader that can run.
Fairness ==
    /\ WF_vars(WriteCell \/ Publish \/ BumpNotify \/ WakeAll)
    /\ \A r \in Readers : WF_vars(Proceed(r))

FairSpec == Spec /\ Fairness

-----------------------------------------------------------------------------
(* Properties                                                              *)

FrameNo == 0 .. MaxFrames

TypeOK ==
    /\ write_sequence \in FrameNo
    /\ notify_seq \in 0 .. NotifyWord - 1
    /\ slotSeq \in [0 .. Slots - 1 -> FrameNo]
    /\ slotData \in [0 .. Slots - 1 -> [Cells -> FrameNo]]
    /\ wpc \in {"idle", "copy", "notify", "wake"}
    /\ frame_counter \in FrameNo
    /\ wtodo \subseteq Cells
    /\ rpc \in [Readers -> {"idle", "check", "load", "header", "copy", "clock",
                            "wait", "asleep"}]
    /\ call \in [Readers -> {"poll", "wait", "timed"}]
    /\ last_seen_seq \in [Readers -> FrameNo]
    /\ current_seq \in [Readers -> FrameNo]
    /\ current_notify \in [Readers -> 0 .. NotifyWord - 1]
    /\ hdr \in [Readers -> FrameNo]
    /\ rtodo \in [Readers -> SUBSET Cells]
    /\ out \in [Readers -> [Cells -> FrameNo]]

\* Reader r holds a complete copy and is about to hand it over.
Handing(r) == rpc[r] = "copy" /\ rtodo[r] = {}

\* The writer has come round to the slot r is reading.
Lapped(r) == frame_counter >= current_seq[r] + Slots

\* A frame is handed over whole, header and every byte, unless the writer
\* lapped the reader during the copy: publication is ordered after the payload
\* (shm.rs:207), so nothing but a lap can spoil a read.
IntactUnlessLapped ==
    \A r \in Readers : Handing(r) /\ ~Lapped(r) =>
        /\ hdr[r] = current_seq[r]
        /\ \A c \in Cells : out[r][c] = current_seq[r]

\* Even when lapped, header and bytes come from the frame looked up or from a
\* later one in the same slot, never from an older one.
NeverStale ==
    \A r \in Readers : Handing(r) =>
        \A n \in {hdr[r]} \cup {out[r][c] : c \in Cells} :
            n >= current_seq[r] /\ SlotOf(n) = SlotOf(current_seq[r])

\* A sleeping reader sleeps on the present value of the futex word, or the
\* writer is about to wake it: no notification bumped after the reader fell
\* asleep is lost (shm.rs:211-214).
SleepersWillBeWoken ==
    \A r \in Readers :
        rpc[r] = "asleep" => current_notify[r] = notify_seq \/ wpc = "wake"

\* A reader moves forward through the frames the writer began, in spite of
\* laps: read_latest_frame's test at shm.rs:284 is made on one sequence number
\* and the slot may hold another by the time it is read.
Feed == INSTANCE FrameFeed WITH
    Consumers <- Readers,
    produced <- frame_counter,
    attached <- Readers,
    seen <- last_seen_seq

ImplementsFeed == Feed!Spec

\* A reader asleep in an untimed wait when a frame is published gets that frame
\* or a later one (shm.rs:313-344).
PublishReachesSleepers ==
    \A r \in Readers, n \in 1 .. MaxFrames :
        (rpc[r] = "asleep" /\ call[r] = "wait" /\ wpc = "notify" /\ frame_counter = n)
            ~> last_seen_seq[r] >= n

\* A blocking read without timeout returns once a frame it has not seen is
\* published: what shm.rs:313 and README.md:258 promise of the futex wait.
\* The code breaks it: LoadNotify comes after Check.
BlockingReadReturns ==
    \A r \in Readers :
        (call[r] = "wait" /\ rpc[r] # "idle" /\ write_sequence > last_seen_seq[r])
            ~> rpc[r] = "idle"

\* What a reader hands over is one frame: README.md:257 promises readers a
\* consistent view of the payload.  The code breaks it: a lap during the copy
\* goes unnoticed, since the header is not compared after the copy.
HandsOverOneFrame ==
    \A r \in Readers : Handing(r) => \A c \in Cells : out[r][c] = hdr[r]

-----------------------------------------------------------------------------
(* The inductive invariant behind IntactUnlessLapped and NeverStale        *)

\* Frame v has overwritten frame n, or is frame n.
Covers(v, n) == n <= v /\ v <= frame_counter /\ SlotOf(v) = SlotOf(n)

WriterInv ==
    /\ frame_counter = IF wpc = "copy" THEN write_sequence + 1 ELSE write_sequence
    /\ wpc = "copy" =>
        \A c \in Cells \ wtodo : slotData[SlotOf(frame_counter)][c] = frame_counter

SlotInv ==
    /\ \A n \in 1 .. frame_counter : Covers(slotSeq[SlotOf(n)], n)
    /\ \A n \in 1 .. write_sequence, c \in Cells : Covers(slotData[SlotOf(n)][c], n)

ReaderInv ==
    \A r \in Readers :
        /\ rpc[r] \in {"header", "copy"} =>
            current_seq[r] \in last_seen_seq[r] + 1 .. write_sequence
        /\ rpc[r] = "copy" =>
            /\ Covers(hdr[r], current_seq[r])
            /\ \A c \in Cells \ rtodo[r] : Covers(out[r][c], current_seq[r])

RingInv == TypeOK /\ WriterInv /\ SlotInv /\ ReaderInv

=============================================================================
