---------------------------- MODULE ShmRingProofs ----------------------------
(***************************************************************************)
(* What the shared-memory ring guarantees for every number of readers,     *)
(* slots, payload cells and frames.                                        *)
(***************************************************************************)
EXTENDS ShmRing, Integers, TLAPS

-----------------------------------------------------------------------------
(* Slot arithmetic: shm.rs:181 and 288 choose a slot by sequence % slots.  *)

\* Every sequence number has a slot of the mapping.
LEMMA SlotInRange == \A n \in Nat : SlotOf(n) \in 0 .. Slots - 1
  BY ShmAssumption DEF SlotOf

\* Two frames less than a lap apart never share a slot.
LEMMA SlotsDiffer ==
    ASSUME NEW m \in Nat, NEW n \in Nat, m < n, n < m + Slots
    PROVE  SlotOf(m) # SlotOf(n)
  <1> SUFFICES ASSUME SlotOf(m) = SlotOf(n)
               PROVE  FALSE
    OBVIOUS
  <1> DEFINE qm == m \div Slots
             qn == n \div Slots
  <1>1. m = Slots * qm + SlotOf(m) /\ qm \in Int /\ SlotOf(m) \in Int
    BY ShmAssumption DEF SlotOf
  <1>2. n = Slots * qn + SlotOf(n) /\ qn \in Int /\ SlotOf(n) \in Int
    BY ShmAssumption DEF SlotOf
  <1> HIDE DEF qm, qn
  <1>3. n - m = Slots * (qn - qm)
    BY <1>1, <1>2, ShmAssumption
  <1>4. qn - qm >= 1 \/ qn - qm <= 0
    BY <1>1, <1>2
  <1> QED
    BY <1>1, <1>2, <1>3, <1>4, ShmAssumption

-----------------------------------------------------------------------------
(* Type correctness                                                        *)

\* Every step of writer and readers keeps the variables in their types.
LEMMA TypeStep == TypeOK /\ [Next]_vars => TypeOK'
  <1> SUFFICES ASSUME TypeOK, [Next]_vars
               PROVE  TypeOK'
    OBVIOUS
  <1> USE ShmAssumption DEF TypeOK, FrameNo, shared, writer, locals, readers, Goto
  <1>1. CASE BeginFrame
    <2>1. frame_counter' = frame_counter + 1 /\ frame_counter' \in FrameNo
      BY <1>1 DEF BeginFrame
    <2>2. slotSeq' = [slotSeq EXCEPT ![SlotOf(frame_counter')] = frame_counter']
      BY <1>1 DEF BeginFrame
    <2>3. slotSeq' \in [0 .. Slots - 1 -> FrameNo]
      BY <2>1, <2>2
    <2> QED
      BY <1>1, <2>1, <2>3 DEF BeginFrame
  <1>2. CASE WriteCell
    <2>1. PICK c \in wtodo :
            /\ slotData' = [slotData EXCEPT ![SlotOf(frame_counter)][c] = frame_counter]
            /\ wtodo' = wtodo \ {c}
      BY <1>2 DEF WriteCell
    <2>2. slotData' \in [0 .. Slots - 1 -> [Cells -> FrameNo]]
      BY <2>1, SlotInRange
    <2> QED
      BY <1>2, <2>1, <2>2 DEF WriteCell
  <1>3. CASE Publish
    BY <1>3 DEF Publish
  <1>4. CASE BumpNotify
    <2>1. (notify_seq + 1) % NotifyWord \in 0 .. NotifyWord - 1
      OBVIOUS
    <2> QED
      BY <1>4, <2>1 DEF BumpNotify
  <1>5. CASE WakeAll
    BY <1>5 DEF WakeAll
  <1>6. ASSUME NEW r \in Readers, Call(r) PROVE TypeOK'
    BY <1>6 DEF Call
  <1>7. ASSUME NEW r \in Readers, Check(r) PROVE TypeOK'
    BY <1>7 DEF Check
  <1>8. ASSUME NEW r \in Readers, Load(r) PROVE TypeOK'
    BY <1>8 DEF Load
  <1>9. ASSUME NEW r \in Readers, ReadHeader(r) PROVE TypeOK'
    <2>. current_seq[r] \in Nat
      OBVIOUS
    <2>. SlotOf(current_seq[r]) \in 0 .. Slots - 1
      BY SlotInRange
    <2>1. slotSeq[SlotOf(current_seq[r])] \in FrameNo
      OBVIOUS
    <2> QED
      BY <1>9, <2>1 DEF ReadHeader
  <1>10. ASSUME NEW r \in Readers, ReadCell(r) PROVE TypeOK'
    <2>. current_seq[r] \in Nat
      OBVIOUS
    <2>. SlotOf(current_seq[r]) \in 0 .. Slots - 1
      BY SlotInRange
    <2>1. slotData[SlotOf(current_seq[r])] \in [Cells -> FrameNo]
      OBVIOUS
    <2>2. PICK c \in rtodo[r] :
            /\ out' = [out EXCEPT ![r][c] = slotData[SlotOf(current_seq[r])][c]]
            /\ rtodo' = [rtodo EXCEPT ![r] = @ \ {c}]
      BY <1>10 DEF ReadCell
    <2>3. out' \in [Readers -> [Cells -> FrameNo]]
      BY <2>1, <2>2
    <2>4. rtodo' \in [Readers -> SUBSET Cells]
      BY <2>2
    <2> QED
      BY <1>10, <2>3, <2>4 DEF ReadCell
  <1>11. ASSUME NEW r \in Readers, Return(r) PROVE TypeOK'
    BY <1>11 DEF Return
  <1>12. ASSUME NEW r \in Readers, TimedOut(r) PROVE TypeOK'
    BY <1>12 DEF TimedOut
  <1>13. ASSUME NEW r \in Readers, LoadNotify(r) PROVE TypeOK'
    BY <1>13 DEF LoadNotify
  <1>14. ASSUME NEW r \in Readers, FutexWait(r) PROVE TypeOK'
    BY <1>14 DEF FutexWait
  <1>15. ASSUME NEW r \in Readers, Interrupted(r) PROVE TypeOK'
    BY <1>15 DEF Interrupted
  <1>16. CASE UNCHANGED vars
    BY <1>16 DEF vars
  <1> QED
    BY <1>1, <1>2, <1>3, <1>4, <1>5, <1>6, <1>7, <1>8, <1>9, <1>10, <1>11, <1>12,
       <1>13, <1>14, <1>15, <1>16 DEF Next

\* The variables keep their types (mapping header, slots, both ends' locals).
THEOREM ShmTypeCorrect == Spec => []TypeOK
  <1>1. Init => TypeOK
    BY ShmAssumption DEF Init, TypeOK, FrameNo
  <1> QED
    BY <1>1, TypeStep, PTL DEF Spec

-----------------------------------------------------------------------------
(* The ring invariant                                                      *)

\* A step that leaves the mapping, the writer's progress and every reader's
\* copy alone, and moves no reader into a copy, preserves the invariant.
LEMMA RingFrame ==
    ASSUME RingInv, TypeOK',
           UNCHANGED <<write_sequence, slotSeq, slotData, frame_counter, wtodo>>,
           UNCHANGED <<last_seen_seq, current_seq, hdr, rtodo, out>>,
           (wpc = "copy") = (wpc' = "copy"),
           \A r \in Readers : /\ rpc'[r] = "header" => rpc[r] = "header"
                              /\ rpc'[r] = "copy" => rpc[r] = "copy"
    PROVE  RingInv'
  <1> USE DEF RingInv, Covers
  <1>1. WriterInv'
    BY DEF WriterInv
  <1>2. SlotInv'
    BY DEF SlotInv
  <1>3. ReaderInv'
    BY DEF ReaderInv
  <1> QED
    BY <1>1, <1>2, <1>3

\* Starting a frame overwrites the header of the oldest frame only.
LEMMA BeginFrameStep == RingInv /\ BeginFrame => RingInv'
  <1> SUFFICES ASSUME RingInv, BeginFrame
               PROVE  RingInv'
    OBVIOUS
  <1> USE ShmAssumption DEF RingInv, FrameNo
  <1>1. TypeOK'
    BY TypeStep DEF Next
  <1>2. /\ frame_counter' = frame_counter + 1
        /\ frame_counter = write_sequence
        /\ slotSeq' = [slotSeq EXCEPT ![SlotOf(frame_counter')] = frame_counter']
        /\ wpc' = "copy" /\ wtodo' = Cells
        /\ UNCHANGED <<write_sequence, slotData, readers>>
    BY DEF BeginFrame, WriterInv
  <1>3. WriterInv'
    BY <1>2 DEF WriterInv
  <1>4. ASSUME NEW n \in 1 .. frame_counter'
        PROVE  Covers(slotSeq[SlotOf(n)], n)'
    <2>. frame_counter \in Nat /\ n \in Nat /\ frame_counter' \in Nat
      BY <1>2 DEF TypeOK
    <2>1. SlotOf(n) \in 0 .. Slots - 1
      BY SlotInRange
    <2>2. CASE SlotOf(n) = SlotOf(frame_counter')
      BY <1>1, <1>2, <2>1, <2>2 DEF TypeOK, Covers
    <2>3. CASE SlotOf(n) # SlotOf(frame_counter')
      <3>1. n # frame_counter'
        BY <2>3
      <3>2. n \in 1 .. frame_counter
        BY <1>2, <3>1
      <3>3. slotSeq'[SlotOf(n)] = slotSeq[SlotOf(n)]
        BY <1>2, <2>1, <2>3 DEF TypeOK
      <3>4. Covers(slotSeq[SlotOf(n)], n)
        BY <3>2 DEF SlotInv
      <3>5. slotSeq[SlotOf(n)] \in Nat
        BY <2>1 DEF TypeOK
      <3> QED
        BY <1>2, <3>3, <3>4, <3>5 DEF Covers
    <2> QED
      BY <2>2, <2>3
  <1>5. ASSUME NEW n \in 1 .. write_sequence', NEW c \in Cells
        PROVE  Covers(slotData[SlotOf(n)][c], n)'
    <2>1. Covers(slotData[SlotOf(n)][c], n)
      BY <1>2 DEF SlotInv
    <2>. n \in Nat
      BY <1>2 DEF TypeOK
    <2>. SlotOf(n) \in 0 .. Slots - 1
      BY SlotInRange
    <2>2. slotData[SlotOf(n)][c] \in FrameNo
      BY DEF TypeOK
    <2> QED
      BY <1>2, <2>1, <2>2 DEF Covers, TypeOK
  <1>6. ReaderInv'
    <2>1. ASSUME NEW v \in FrameNo, NEW n \in FrameNo, Covers(v, n)
          PROVE  Covers(v, n)'
      <3>. frame_counter \in Nat
        BY DEF TypeOK
      <3> QED
        BY <1>2, <2>1 DEF Covers
    <2>2. ASSUME NEW r \in Readers, rpc[r] = "copy"
          PROVE  /\ Covers(hdr[r], current_seq[r])'
                 /\ \A c \in Cells \ rtodo[r] : Covers(out[r][c], current_seq[r])'
      <3>1. /\ current_seq[r] \in FrameNo /\ hdr[r] \in FrameNo
            /\ \A c \in Cells : out[r][c] \in FrameNo
        BY DEF TypeOK
      <3>2. UNCHANGED <<current_seq, hdr, out>>
        BY <1>2 DEF readers, locals
      <3> QED
        BY <2>1, <2>2, <3>1, <3>2 DEF ReaderInv, Covers
    <2> QED
      BY <1>2, <2>2 DEF ReaderInv, readers, locals
  <1> QED
    BY <1>1, <1>3, <1>4, <1>5, <1>6 DEF SlotInv

\* Copying a byte replaces one of an older frame of the same slot.
LEMMA WriteCellStep == RingInv /\ WriteCell => RingInv'
  <1> SUFFICES ASSUME RingInv, WriteCell
               PROVE  RingInv'
    OBVIOUS
  <1> USE ShmAssumption DEF RingInv, FrameNo
  <1>1. TypeOK'
    BY TypeStep DEF Next
  <1>2. PICK d \in wtodo :
          /\ slotData' = [slotData EXCEPT ![SlotOf(frame_counter)][d] = frame_counter]
          /\ wtodo' = wtodo \ {d}
    BY DEF WriteCell
  <1>3. /\ frame_counter = write_sequence + 1
        /\ wpc = "copy" /\ wpc' = "copy"
        /\ UNCHANGED <<write_sequence, slotSeq, frame_counter, readers>>
    BY DEF WriteCell, WriterInv
  <1>. frame_counter \in Nat
    BY DEF TypeOK
  <1>4. SlotOf(frame_counter) \in 0 .. Slots - 1
    BY SlotInRange
  <1>5. WriterInv'
    BY <1>1, <1>2, <1>3, <1>4 DEF WriterInv, TypeOK
  <1>6. ASSUME NEW n \in 1 .. write_sequence', NEW c \in Cells
        PROVE  Covers(slotData[SlotOf(n)][c], n)'
    <2>1. Covers(slotData[SlotOf(n)][c], n)
      BY <1>3 DEF SlotInv
    <2>. n \in Nat
      BY <1>3 DEF TypeOK
    <2>2. SlotOf(n) \in 0 .. Slots - 1
      BY SlotInRange
    <2>3. CASE SlotOf(n) = SlotOf(frame_counter) /\ c = d
      <3>1. slotData'[SlotOf(n)][c] = frame_counter
        BY <1>2, <1>4, <2>3 DEF TypeOK
      <3> QED
        BY <1>3, <2>3, <3>1 DEF Covers, TypeOK
    <2>4. CASE ~(SlotOf(n) = SlotOf(frame_counter) /\ c = d)
      <3>1. slotData'[SlotOf(n)][c] = slotData[SlotOf(n)][c]
        BY <1>2, <1>4, <2>2, <2>4 DEF TypeOK
      <3> QED
        BY <1>3, <2>1, <3>1 DEF Covers
    <2> QED
      BY <2>3, <2>4
  <1>7. \A n \in 1 .. frame_counter' : Covers(slotSeq[SlotOf(n)], n)'
    BY <1>3 DEF SlotInv, Covers
  <1>8. ReaderInv'
    BY <1>3 DEF ReaderInv, Covers, readers, locals
  <1> QED
    BY <1>1, <1>5, <1>6, <1>7, <1>8 DEF SlotInv

\* Publishing happens with the payload complete, so the new frame covers itself.
LEMMA PublishStep == RingInv /\ Publish => RingInv'
  <1> SUFFICES ASSUME RingInv, Publish
               PROVE  RingInv'
    OBVIOUS
  <1> USE ShmAssumption DEF RingInv, FrameNo
  <1>1. TypeOK'
    BY TypeStep DEF Next
  <1>2. /\ write_sequence' = frame_counter
        /\ frame_counter = write_sequence + 1
        /\ wpc = "copy" /\ wtodo = {} /\ wpc' = "notify"
        /\ UNCHANGED <<slotSeq, slotData, frame_counter, readers>>
    BY DEF Publish, WriterInv
  <1>3. WriterInv'
    BY <1>2 DEF WriterInv
  <1>4. ASSUME NEW n \in 1 .. write_sequence', NEW c \in Cells
        PROVE  Covers(slotData[SlotOf(n)][c], n)'
    <2>1. CASE n = frame_counter
      BY <1>2, <2>1 DEF WriterInv, Covers, TypeOK
    <2>2. CASE n # frame_counter
      <3>1. n \in 1 .. write_sequence
        BY <1>2, <2>2 DEF TypeOK
      <3> QED
        BY <1>2, <3>1 DEF SlotInv, Covers
    <2> QED
      BY <2>1, <2>2
  <1>5. \A n \in 1 .. frame_counter' : Covers(slotSeq[SlotOf(n)], n)'
    BY <1>2 DEF SlotInv, Covers
  <1>6. ReaderInv'
    BY <1>1, <1>2 DEF ReaderInv, Covers, readers, locals, TypeOK
  <1> QED
    BY <1>1, <1>3, <1>4, <1>5, <1>6 DEF SlotInv

\* A reader that found a new sequence number looks at a published frame.
LEMMA LoadStep == ASSUME RingInv, NEW r \in Readers, Load(r) PROVE RingInv'
  <1> USE ShmAssumption DEF RingInv, FrameNo
  <1>1. TypeOK'
    BY TypeStep DEF Next
  <1>2. UNCHANGED <<shared, writer>>
    BY DEF Load
  <1>3. WriterInv' /\ SlotInv'
    BY <1>2 DEF WriterInv, SlotInv, Covers, shared, writer
  <1>4. ReaderInv'
    <2>1. /\ rpc' = [rpc EXCEPT ![r] = rpc'[r]]
          /\ current_seq' = [current_seq EXCEPT ![r] = current_seq'[r]]
          /\ UNCHANGED <<last_seen_seq, hdr, rtodo, out>>
      BY DEF Load, Goto, TypeOK
    <2>2. /\ rpc'[r] # "copy"
          /\ rpc'[r] = "header" => /\ current_seq'[r] = write_sequence
                                   /\ write_sequence > last_seen_seq[r]
      BY DEF Load, Goto, TypeOK
    <2>3. ASSUME NEW q \in Readers, q # r
          PROVE  rpc'[q] = rpc[q] /\ current_seq'[q] = current_seq[q]
      BY <2>1, <2>3 DEF TypeOK
    <2>4. UNCHANGED <<write_sequence, frame_counter>>
      BY <1>2 DEF shared, writer
    <2>5. write_sequence \in Nat /\ \A q \in Readers : last_seen_seq[q] \in Nat
      BY DEF TypeOK
    <2> QED
      BY <2>1, <2>2, <2>3, <2>4, <2>5 DEF ReaderInv, Covers
  <1> QED
    BY <1>1, <1>3, <1>4

\* The header found in the slot covers the frame looked up.
LEMMA ReadHeaderStep == ASSUME RingInv, NEW r \in Readers, ReadHeader(r) PROVE RingInv'
  <1> USE ShmAssumption DEF RingInv, FrameNo
  <1>1. TypeOK'
    BY TypeStep DEF Next
  <1>2. /\ UNCHANGED <<shared, writer, last_seen_seq, current_seq, out>>
        /\ rpc[r] = "header" /\ rpc' = [rpc EXCEPT ![r] = "copy"]
        /\ hdr' = [hdr EXCEPT ![r] = slotSeq[SlotOf(current_seq[r])]]
        /\ rtodo' = [rtodo EXCEPT ![r] = Cells]
    BY DEF ReadHeader, Goto
  <1>3. WriterInv' /\ SlotInv'
    BY <1>2 DEF WriterInv, SlotInv, Covers, shared, writer
  <1>4. current_seq[r] \in 1 .. frame_counter
    BY <1>2 DEF ReaderInv, WriterInv, TypeOK
  <1>5. Covers(slotSeq[SlotOf(current_seq[r])], current_seq[r])
    BY <1>4 DEF SlotInv
  <1>6. ReaderInv'
    BY <1>2, <1>5 DEF ReaderInv, Covers, shared, writer, TypeOK
  <1> QED
    BY <1>1, <1>3, <1>6

\* So does every byte found there, since a published frame is complete.
LEMMA ReadCellStep == ASSUME RingInv, NEW r \in Readers, ReadCell(r) PROVE RingInv'
  <1> USE ShmAssumption DEF RingInv, FrameNo
  <1>1. TypeOK'
    BY TypeStep DEF Next
  <1>2. PICK d \in rtodo[r] :
          /\ out' = [out EXCEPT ![r][d] = slotData[SlotOf(current_seq[r])][d]]
          /\ rtodo' = [rtodo EXCEPT ![r] = @ \ {d}]
    BY DEF ReadCell
  <1>3. /\ UNCHANGED <<shared, writer, rpc, last_seen_seq, current_seq, hdr>>
        /\ rpc[r] = "copy"
    BY DEF ReadCell
  <1>4. WriterInv' /\ SlotInv'
    BY <1>3 DEF WriterInv, SlotInv, Covers, shared, writer
  <1>5. d \in Cells
    BY DEF TypeOK
  <1>6. Covers(slotData[SlotOf(current_seq[r])][d], current_seq[r])
    BY <1>3, <1>5 DEF ReaderInv, SlotInv, TypeOK
  <1>7. ASSUME NEW q \in Readers, rpc'[q] = "copy", NEW c \in Cells \ rtodo'[q]
        PROVE  Covers(out[q][c], current_seq[q])'
    <2>1. CASE q = r /\ c = d
      BY <1>2, <1>3, <1>5, <1>6, <2>1 DEF Covers, TypeOK, shared, writer
    <2>2. CASE ~(q = r /\ c = d)
      <3>1. c \in Cells \ rtodo[q]
        BY <1>2, <2>2 DEF TypeOK
      <3>2. out'[q][c] = out[q][c]
        BY <1>2, <1>5, <2>2 DEF TypeOK
      <3>3. Covers(out[q][c], current_seq[q])
        BY <1>3, <1>7, <3>1 DEF ReaderInv
      <3> QED
        BY <1>3, <3>2, <3>3 DEF Covers, writer
    <2> QED
      BY <2>1, <2>2
  <1>8. ReaderInv'
    BY <1>3, <1>7 DEF ReaderInv, Covers, shared, writer
  <1> QED
    BY <1>1, <1>4, <1>8

\* Handing a frame over ends the copy; the sequence remembered is behind it.
LEMMA ReturnStep == ASSUME RingInv, NEW r \in Readers, Return(r) PROVE RingInv'
  <1> USE ShmAssumption DEF RingInv, FrameNo
  <1>1. TypeOK'
    BY TypeStep DEF Next
  <1>2. UNCHANGED <<shared, writer>>
    BY DEF Return
  <1>3. WriterInv' /\ SlotInv'
    BY <1>2 DEF WriterInv, SlotInv, Covers, shared, writer
  <1>4. /\ rpc' = [rpc EXCEPT ![r] = "idle"]
        /\ UNCHANGED rtodo
        /\ \A q \in Readers \ {r} : /\ last_seen_seq'[q] = last_seen_seq[q]
                                    /\ current_seq'[q] = current_seq[q]
                                    /\ hdr'[q] = hdr[q]
                                    /\ out'[q] = out[q]
    BY DEF Return, Goto, TypeOK
  <1>5. ReaderInv'
    <2>1. UNCHANGED <<write_sequence, frame_counter>>
      BY <1>2 DEF shared, writer
    <2>2. rpc'[r] = "idle" /\ \A q \in Readers \ {r} : rpc'[q] = rpc[q]
      BY <1>4 DEF TypeOK
    <2> QED
      BY <1>4, <2>1, <2>2 DEF ReaderInv, Covers
  <1> QED
    BY <1>1, <1>3, <1>5

\* The ring invariant is inductive.
LEMMA RingStep == RingInv /\ [Next]_vars => RingInv'
  <1> SUFFICES ASSUME RingInv, [Next]_vars
               PROVE  RingInv'
    OBVIOUS
  <1>. TypeOK'
    BY TypeStep DEF RingInv
  <1> USE DEF shared, writer, locals, readers, Goto
  <1>1. CASE BeginFrame \/ WriteCell \/ Publish
    BY <1>1, BeginFrameStep, WriteCellStep, PublishStep
  <1>2. CASE BumpNotify
    BY <1>2, RingFrame DEF BumpNotify
  <1>3. CASE WakeAll
    BY <1>3, RingFrame DEF WakeAll
  <1>4. ASSUME NEW r \in Readers, Load(r) \/ ReadHeader(r) \/ ReadCell(r) \/ Return(r)
        PROVE  RingInv'
    BY <1>4, LoadStep, ReadHeaderStep, ReadCellStep, ReturnStep
  <1>5. ASSUME NEW r \in Readers,
               \/ Call(r) \/ Check(r) \/ TimedOut(r) \/ LoadNotify(r) \/ FutexWait(r)
               \/ Interrupted(r)
        PROVE  RingInv'
    <2>1. /\ UNCHANGED <<write_sequence, slotSeq, slotData, frame_counter, wtodo, wpc>>
          /\ UNCHANGED <<last_seen_seq, current_seq, hdr, rtodo, out>>
      BY <1>5 DEF Call, Check, TimedOut, LoadNotify, FutexWait, Interrupted
    <2>2. \E to \in {"idle", "check", "load", "clock", "wait", "asleep"} :
            rpc' = [rpc EXCEPT ![r] = to]
      BY <1>5 DEF Call, Check, TimedOut, LoadNotify, FutexWait, Interrupted
    <2>3. \A q \in Readers : /\ rpc'[q] = "header" => rpc[q] = "header"
                             /\ rpc'[q] = "copy" => rpc[q] = "copy"
      BY <2>2 DEF RingInv, TypeOK
    <2> QED
      BY <2>1, <2>3, RingFrame
  <1>6. CASE UNCHANGED vars
    BY <1>6, RingFrame DEF vars
  <1> QED
    BY <1>1, <1>2, <1>3, <1>4, <1>5, <1>6 DEF Next

\* The ring invariant holds from an empty mapping on.
LEMMA RingInvariant == Spec => []RingInv
  <1>1. Init => RingInv
    BY ShmAssumption
       DEF Init, RingInv, TypeOK, FrameNo, WriterInv, SlotInv, ReaderInv, Covers
  <1> QED
    BY <1>1, RingStep, PTL DEF Spec

-----------------------------------------------------------------------------
(* What readers can rely on                                                *)

\* A reader that was not lapped hands over exactly the frame it looked up,
\* whatever the number of slots and the speed of the writer.
THEOREM ShmIntactUnlessLapped == Spec => []IntactUnlessLapped
  <1>1. RingInv => IntactUnlessLapped
    <2> SUFFICES ASSUME RingInv, NEW r \in Readers, Handing(r), ~Lapped(r)
                 PROVE  /\ hdr[r] = current_seq[r]
                        /\ \A c \in Cells : out[r][c] = current_seq[r]
      BY DEF IntactUnlessLapped
    <2> USE ShmAssumption DEF RingInv, FrameNo
    <2>1. /\ Covers(hdr[r], current_seq[r])
          /\ \A c \in Cells : Covers(out[r][c], current_seq[r])
      BY DEF Handing, ReaderInv
    <2>2. ASSUME NEW v \in FrameNo, Covers(v, current_seq[r])
          PROVE  v = current_seq[r]
      <3>1. /\ current_seq[r] \in Nat /\ frame_counter \in Nat
            /\ frame_counter < current_seq[r] + Slots
        BY DEF Lapped, TypeOK
      <3>2. v < current_seq[r] + Slots
        BY <2>2, <3>1 DEF Covers
      <3> QED
        BY <2>2, <3>1, <3>2, SlotsDiffer DEF Covers
    <2> QED
      BY <2>1, <2>2 DEF TypeOK
  <1> QED
    BY <1>1, RingInvariant, PTL

\* Lapped or not, no reader is handed bytes older than the frame it looked up.
THEOREM ShmNeverStale == Spec => []NeverStale
  <1>1. RingInv => NeverStale
    BY DEF RingInv, ReaderInv, NeverStale, Handing, Covers
  <1> QED
    BY <1>1, RingInvariant, PTL

\* A reader never falls asleep past a notification that comes after it.
THEOREM ShmSleepersWillBeWoken == Spec => []SleepersWillBeWoken
  <1>1. Init => SleepersWillBeWoken
    BY DEF Init, SleepersWillBeWoken
  <1>2. TypeOK /\ SleepersWillBeWoken /\ [Next]_vars => SleepersWillBeWoken'
    <2> SUFFICES ASSUME TypeOK, SleepersWillBeWoken, [Next]_vars
                 PROVE  SleepersWillBeWoken'
      OBVIOUS
    <2> USE DEF SleepersWillBeWoken, TypeOK, shared, writer, locals, readers, Goto
    <2>1. CASE BeginFrame
      BY <2>1 DEF BeginFrame
    <2>2. CASE WriteCell \/ Publish
      BY <2>2 DEF WriteCell, Publish
    <2>3. CASE BumpNotify
      BY <2>3 DEF BumpNotify
    <2>4. CASE WakeAll
      BY <2>4 DEF WakeAll
    <2>5. ASSUME NEW r \in Readers, Call(r) \/ Check(r) \/ TimedOut(r) \/ Interrupted(r)
          PROVE  SleepersWillBeWoken'
      BY <2>5 DEF Call, Check, TimedOut, Interrupted
    <2>6. ASSUME NEW r \in Readers, Load(r) \/ ReadHeader(r) \/ ReadCell(r) \/ Return(r)
          PROVE  SleepersWillBeWoken'
      BY <2>6 DEF Load, ReadHeader, ReadCell, Return
    <2>7. ASSUME NEW r \in Readers, LoadNotify(r)
          PROVE  SleepersWillBeWoken'
      BY <2>7 DEF LoadNotify
    <2>8. ASSUME NEW r \in Readers, FutexWait(r)
          PROVE  SleepersWillBeWoken'
      BY <2>8 DEF FutexWait
    <2>9. CASE UNCHANGED vars
      BY <2>9 DEF vars
    <2> QED
      BY <2>1, <2>2, <2>3, <2>4, <2>5, <2>6, <2>7, <2>8, <2>9 DEF Next
  <1> QED
    BY <1>1, <1>2, ShmTypeCorrect, PTL DEF Spec

\* Every step of the ring is a step of the abstract feed, or none.
LEMMA FeedStep == RingInv /\ [Next]_vars => [Feed!Next]_(Feed!vars)
  <1> SUFFICES ASSUME RingInv, [Next]_vars
               PROVE  Feed!Next \/ UNCHANGED <<frame_counter, last_seen_seq>>
    BY DEF Feed!vars
  <1>1. CASE BeginFrame
    BY <1>1 DEF BeginFrame, readers, Feed!Next, Feed!Produce
  <1>2. ASSUME NEW r \in Readers, Return(r)
        PROVE  Feed!Next
    <2>1. /\ current_seq[r] \in last_seen_seq[r] + 1 .. write_sequence
          /\ Covers(hdr[r], current_seq[r])
      BY <1>2 DEF RingInv, ReaderInv, Return, Goto
    <2>2. /\ last_seen_seq[r] \in Nat /\ write_sequence \in Nat
          /\ frame_counter \in Nat /\ frame_counter >= write_sequence
          /\ hdr[r] \in Nat
      BY ShmAssumption DEF RingInv, TypeOK, FrameNo, WriterInv
    <2>3. \E n \in last_seen_seq[r] + 1 .. frame_counter :
            last_seen_seq' = [last_seen_seq EXCEPT ![r] = n]
      <3>1. last_seen_seq' = [last_seen_seq EXCEPT ![r] =
                                IF r \in PyReaders THEN hdr[r] ELSE current_seq[r]]
        BY <1>2 DEF Return
      <3>2. hdr[r] \in last_seen_seq[r] + 1 .. frame_counter
        BY <2>1, <2>2 DEF Covers
      <3>3. current_seq[r] \in last_seen_seq[r] + 1 .. frame_counter
        BY <2>1, <2>2
      <3>4. CASE r \in PyReaders
        BY <3>1, <3>2, <3>4
      <3>5. CASE r \notin PyReaders
        BY <3>1, <3>3, <3>5
      <3> QED
        BY <3>4, <3>5
    <2>4. Feed!Take(r)
      BY <1>2, <2>3 DEF Return, writer, Feed!Take
    <2> QED
      BY <2>4 DEF Feed!Next
  <1>3. CASE WriteCell \/ Publish \/ BumpNotify \/ WakeAll \/ UNCHANGED vars
    BY <1>3 DEF WriteCell, Publish, BumpNotify, WakeAll, vars, writer, readers
  <1>4. ASSUME NEW r \in Readers,
               \/ Call(r) \/ Check(r) \/ Load(r) \/ ReadHeader(r) \/ ReadCell(r)
               \/ TimedOut(r) \/ LoadNotify(r) \/ FutexWait(r) \/ Interrupted(r)
        PROVE  UNCHANGED <<frame_counter, last_seen_seq>>
    BY <1>4 DEF Call, Check, Load, ReadHeader, ReadCell, TimedOut, LoadNotify,
                FutexWait, Interrupted, writer
  <1> QED
    BY <1>1, <1>2, <1>3, <1>4 DEF Next

\* The shared-memory ring implements the abstract feed: no reader, Rust or
\* Python, is ever moved back or beyond the frame being written.
THEOREM ShmImplementsFeed == Spec => ImplementsFeed
  <1>1. Init => Feed!Init
    BY DEF Init, Feed!Init
  <1> QED
    BY <1>1, FeedStep, RingInvariant, PTL DEF Spec, Feed!Spec, ImplementsFeed

=============================================================================
