-------------------------- MODULE BroadcastHubProofs --------------------------
(***************************************************************************)
(* What the broadcast ring guarantees for every number of waiters, slots   *)
(* and frames, and all interests.                                          *)
(***************************************************************************)
EXTENDS BroadcastHub, Integers, TLAPS

-----------------------------------------------------------------------------
(* Slot arithmetic: hub.rs:64 and 102 choose a slot by sequence % capacity. *)

\* Every sequence number has a slot.
LEMMA SlotInRange == \A n \in Nat : SlotOf(n) \in 0 .. Capacity - 1
  BY HubAssumption DEF SlotOf

\* A frame that reuses the slot of an earlier one is a whole lap ahead of it.
LEMMA LapApart ==
    ASSUME NEW m \in Nat, NEW n \in Nat, m < n, SlotOf(m) = SlotOf(n)
    PROVE  n >= m + Capacity
  <1> DEFINE qm == m \div Capacity
             qn == n \div Capacity
  <1>1. m = Capacity * qm + SlotOf(m) /\ qm \in Int /\ SlotOf(m) \in Int
    BY HubAssumption DEF SlotOf
  <1>2. n = Capacity * qn + SlotOf(n) /\ qn \in Int /\ SlotOf(n) \in Int
    BY HubAssumption DEF SlotOf
  <1> HIDE DEF qm, qn
  <1>3. n - m = Capacity * (qn - qm)
    BY <1>1, <1>2, HubAssumption
  <1>4. qn - qm >= 1
    BY <1>1, <1>2, <1>3, HubAssumption
  <1> QED
    BY <1>1, <1>2, <1>3, <1>4, HubAssumption

\* An interval grows with its upper end.
LEMMA IntervalGrows ==
    \A n, m \in Nat : \A x \in {0} \cup n .. m : x \in {0} \cup n .. m + 1
  OBVIOUS

-----------------------------------------------------------------------------
(* Type correctness                                                        *)

\* Every step of publisher, closer and waiters keeps the variables in their types.
LEMMA TypeStep == TypeOK /\ PublisherInv /\ [Next]_vars => TypeOK'
  <1> SUFFICES ASSUME TypeOK, PublisherInv, [Next]_vars
               PROVE  TypeOK'
    OBVIOUS
  <1> USE HubAssumption DEF TypeOK, hub, control, locals, Goto
  <1>1. CASE DropOld
    <2>1. seq' = head_seq + 1 /\ seq' \in 1 .. MaxFrames
      BY <1>1 DEF DropOld
    <2>2. PICK m \in Masks : mask' = [mask EXCEPT ![seq'] = m]
      BY <1>1 DEF DropOld
    <2>3. mask' \in [1 .. MaxFrames -> SUBSET Bits]
      BY <2>1, <2>2 DEF Masks
    <2>4. payload' \in [0 .. Capacity - 1 -> 0 .. MaxFrames]
      BY <1>1, <2>1, SlotInRange DEF DropOld
    <2> QED
      BY <1>1, <2>1, <2>3, <2>4 DEF DropOld
  <1>2. CASE WriteNew
    BY <1>2 DEF WriteNew
  <1>3. CASE StampSlot
    BY <1>3 DEF StampSlot
  <1>4. CASE AdvanceHead
    BY <1>4 DEF AdvanceHead
  <1>5. CASE Bump
    <2>1. seq \in 1 .. MaxFrames
      BY <1>5 DEF Bump, PublisherInv
    <2>2. mask[seq] \in SUBSET Bits
      BY <2>1
    <2> QED
      BY <1>5, <2>2 DEF Bump
  <1>6. CASE WakeInterested
    <2>1. Woken(mask[seq]) \in [Waiters -> {"idle", "closed?", "head", "stamp", "mask", "clone",
                                            "got", "undefined", "clock", "wait", "asleep"}]
      BY DEF Woken
    <2> QED
      BY <1>6, <2>1 DEF WakeInterested
  <1>7. CASE SetClosed
    BY <1>7 DEF SetClosed
  <1>8. CASE BumpClosed
    BY <1>8 DEF BumpClosed
  <1>9. CASE WakeClosed
    <2>1. Woken(Bits) \in [Waiters -> {"idle", "closed?", "head", "stamp", "mask", "clone",
                                       "got", "undefined", "clock", "wait", "asleep"}]
      BY DEF Woken
    <2> QED
      BY <1>9, <2>1 DEF WakeClosed
  <1>10. ASSUME NEW w \in Waiters, Call(w) PROVE TypeOK'
    <2>1. /\ wpc' \in [Waiters -> {"idle", "closed?", "head", "stamp", "mask", "clone",
                                   "got", "undefined", "clock", "wait", "asleep"}]
          /\ call' \in [Waiters -> {"poll", "wait", "timed"}]
      <3>1. PICK k \in {"poll", "wait", "timed"} : call' = [call EXCEPT ![w] = k]
        BY <1>10 DEF Call
      <3>2. wpc' = [wpc EXCEPT ![w] = "closed?"] \/ wpc' = [wpc EXCEPT ![w] = "head"]
        BY <1>10 DEF Call
      <3> QED
        BY <3>1, <3>2
    <2> QED
      BY <1>10, <2>1 DEF Call
  <1>11. ASSUME NEW w \in Waiters, CheckClosed(w) PROVE TypeOK'
    BY <1>11 DEF CheckClosed
  <1>12. ASSUME NEW w \in Waiters, LoadHead(w) PROVE TypeOK'
    <2>1. wpc' \in [Waiters -> {"idle", "closed?", "head", "stamp", "mask", "clone", "got",
                                "undefined", "clock", "wait", "asleep"}]
      BY <1>12 DEF LoadHead, NothingNew
    <2>2. current_head' \in [Waiters -> 0 .. MaxFrames]
      BY <1>12 DEF LoadHead
    <2> QED
      BY <1>12, <2>1, <2>2 DEF LoadHead
  <1>13. ASSUME NEW w \in Waiters, CheckStamp(w) PROVE TypeOK'
    BY <1>13 DEF CheckStamp, NothingNew
  <1>14. ASSUME NEW w \in Waiters, CheckMask(w) PROVE TypeOK'
    BY <1>14 DEF CheckMask, NothingNew
  <1>15. ASSUME NEW w \in Waiters, Clone(w) PROVE TypeOK'
    <2>0. current_head[w] \in Nat
      OBVIOUS
    <2>1. SlotOf(current_head[w]) \in 0 .. Capacity - 1
      BY <2>0, SlotInRange
    <2>2. taken' \in [Waiters -> 0 .. MaxFrames]
      BY <1>15, <2>1 DEF Clone
    <2> QED
      BY <1>15, <2>2 DEF Clone
  <1>16. ASSUME NEW w \in Waiters, Return(w) PROVE TypeOK'
    BY <1>16 DEF Return
  <1>17. ASSUME NEW w \in Waiters, TimedOut(w) PROVE TypeOK'
    BY <1>17 DEF TimedOut
  <1>18. ASSUME NEW w \in Waiters, LoadFutex(w) PROVE TypeOK'
    BY <1>18 DEF LoadFutex
  <1>19. ASSUME NEW w \in Waiters, FutexWait(w) PROVE TypeOK'
    BY <1>19 DEF FutexWait
  <1>20. ASSUME NEW w \in Waiters, Interrupted(w) PROVE TypeOK'
    BY <1>20 DEF Interrupted
  <1>21. CASE UNCHANGED vars
    BY <1>21 DEF vars
  <1> QED
    BY <1>1, <1>2, <1>3, <1>4, <1>5, <1>6, <1>7, <1>8, <1>9, <1>10,
       <1>11, <1>12, <1>13, <1>14, <1>15, <1>16, <1>17, <1>18, <1>19, <1>20, <1>21 DEF Next

\* The publisher's frame is the one after the head until it becomes the head.
LEMMA PublisherStep == HubInv /\ [Next]_vars => PublisherInv'
  <1> SUFFICES ASSUME HubInv, [Next]_vars
               PROVE  (PublisherInv)'
    OBVIOUS
  <1> USE SlotInRange, HubAssumption DEF HubInv, TypeOK, PublisherInv, hub, control, locals, Goto
  <1>1. CASE DropOld
    BY <1>1 DEF DropOld
  <1>2. CASE WriteNew
    <2>1. seq \in Nat
      OBVIOUS
    <2>2. SlotOf(seq) \in 0 .. Capacity - 1
      BY <2>1
    <2> QED
      BY <1>2, <2>2 DEF WriteNew
  <1>3. CASE StampSlot
    BY <1>3 DEF StampSlot
  <1>4. CASE AdvanceHead
    BY <1>4 DEF AdvanceHead
  <1>5. CASE Bump
    BY <1>5 DEF Bump
  <1>6. CASE WakeInterested
    BY <1>6 DEF WakeInterested
  <1>7. CASE SetClosed
    BY <1>7 DEF SetClosed
  <1>8. CASE BumpClosed
    BY <1>8 DEF BumpClosed
  <1>9. CASE WakeClosed
    BY <1>9 DEF WakeClosed
  <1>10. ASSUME NEW w \in Waiters, Call(w) PROVE (PublisherInv)'
    BY <1>10 DEF Call
  <1>11. ASSUME NEW w \in Waiters, CheckClosed(w) PROVE (PublisherInv)'
    BY <1>11 DEF CheckClosed
  <1>12. ASSUME NEW w \in Waiters, LoadHead(w) PROVE (PublisherInv)'
    BY <1>12 DEF LoadHead
  <1>13. ASSUME NEW w \in Waiters, CheckStamp(w) PROVE (PublisherInv)'
    BY <1>13 DEF CheckStamp
  <1>14. ASSUME NEW w \in Waiters, CheckMask(w) PROVE (PublisherInv)'
    BY <1>14 DEF CheckMask
  <1>15. ASSUME NEW w \in Waiters, Clone(w) PROVE (PublisherInv)'
    BY <1>15 DEF Clone
  <1>16. ASSUME NEW w \in Waiters, Return(w) PROVE (PublisherInv)'
    BY <1>16 DEF Return
  <1>17. ASSUME NEW w \in Waiters, TimedOut(w) PROVE (PublisherInv)'
    BY <1>17 DEF TimedOut
  <1>18. ASSUME NEW w \in Waiters, LoadFutex(w) PROVE (PublisherInv)'
    BY <1>18 DEF LoadFutex
  <1>19. ASSUME NEW w \in Waiters, FutexWait(w) PROVE (PublisherInv)'
    BY <1>19 DEF FutexWait
  <1>20. ASSUME NEW w \in Waiters, Interrupted(w) PROVE (PublisherInv)'
    BY <1>20 DEF Interrupted
  <1>21. CASE UNCHANGED vars
    BY <1>21 DEF vars
  <1> QED
    BY <1>1, <1>2, <1>3, <1>4, <1>5, <1>6, <1>7, <1>8, <1>9, <1>10,
       <1>11, <1>12, <1>13, <1>14, <1>15, <1>16, <1>17, <1>18, <1>19, <1>20, <1>21 DEF Next

\* A slot is reused a lap later, and only then (hub.rs:63-78).
LEMMA SlotStep == HubInv /\ [Next]_vars => SlotInv'
  <1> SUFFICES ASSUME HubInv, [Next]_vars
               PROVE  (SlotInv)'
    OBVIOUS
  <1> USE SlotInRange, HubAssumption
      DEF HubInv, TypeOK, PublisherInv, SlotInv, SlotOK, hub, control, locals, Goto
  <1>1. CASE DropOld
    <2>1. seq' = head_seq + 1 /\ head_seq' = head_seq /\ seq = head_seq
      BY <1>1 DEF DropOld
    <2>2. payload' = [payload EXCEPT ![SlotOf(seq')] = 0]
      BY <1>1 DEF DropOld
    <2>3. ASSUME NEW n \in 1 .. head_seq, SlotOf(n) = SlotOf(seq')
          PROVE  seq' >= n + Capacity
      BY <2>1, <2>3, LapApart
    <2>4. ASSUME NEW n \in 1 .. head_seq PROVE SlotOK(n)'
      <3>0. n \in Nat /\ seq \in Nat /\ head_seq \in Nat
        OBVIOUS
      <3>1. SlotOf(n) \in 0 .. Capacity - 1
        BY <3>0
      <3>4. SlotOK(n)
        OBVIOUS
      <3>2. CASE SlotOf(n) = SlotOf(seq')
        <4>1. payload'[SlotOf(n)] = 0
          BY <2>2, <3>1, <3>2
        <4> QED
          BY <2>1, <2>3, <3>0, <3>2, <4>1
      <3>3. CASE SlotOf(n) # SlotOf(seq')
        <4>1. payload'[SlotOf(n)] = payload[SlotOf(n)]
          BY <2>2, <3>1, <3>3
        <4>2. payload[SlotOf(n)] \in {0} \cup n .. seq
          BY <3>4
        <4>3. payload'[SlotOf(n)] \in {0} \cup n .. seq'
          <5>1. seq' = seq + 1
            BY <2>1
          <5> QED
            BY <3>0, <4>1, <4>2, <5>1, IntervalGrows
        <4>4. seq' < n + Capacity => payload'[SlotOf(n)] = n
          BY <2>1, <3>0, <3>4, <4>1
        <4> QED
          BY <4>3, <4>4
      <3> QED
        BY <3>2, <3>3
    <2> QED
      BY <2>1, <2>4
  <1>2. CASE WriteNew
    <2>1. payload' = [payload EXCEPT ![SlotOf(seq)] = seq] /\ seq = head_seq + 1
          /\ UNCHANGED <<seq, head_seq>>
      BY <1>2 DEF WriteNew
    <2>2. ASSUME NEW n \in 1 .. head_seq, SlotOf(n) = SlotOf(seq)
          PROVE  seq >= n + Capacity
      BY <2>1, <2>2, LapApart
    <2>3. ASSUME NEW n \in 1 .. head_seq PROVE SlotOK(n)'
      <3>0. n \in Nat /\ seq \in Nat /\ head_seq \in Nat
        OBVIOUS
      <3>1. SlotOf(n) \in 0 .. Capacity - 1
        BY <3>0
      <3>4. SlotOK(n)
        OBVIOUS
      <3>2. CASE SlotOf(n) = SlotOf(seq)
        <4>1. payload'[SlotOf(n)] = seq
          BY <2>1, <3>1, <3>2
        <4> QED
          BY <2>1, <2>2, <3>0, <3>2, <4>1
      <3>3. CASE SlotOf(n) # SlotOf(seq)
        <4>1. payload'[SlotOf(n)] = payload[SlotOf(n)]
          BY <2>1, <3>1, <3>3
        <4> QED
          BY <2>1, <3>0, <3>4, <4>1
      <3> QED
        BY <3>2, <3>3
    <2> QED
      BY <2>1, <2>3
  <1>3. CASE StampSlot
    BY <1>3 DEF StampSlot
  <1>4. CASE AdvanceHead
    <2>1. payload[SlotOf(seq)] = seq /\ seq = head_seq + 1 /\ head_seq' = seq
          /\ UNCHANGED <<seq, payload>>
      BY <1>4 DEF AdvanceHead
    <2>2. ASSUME NEW n \in 1 .. seq PROVE SlotOK(n)'
      <3>1. CASE n = seq
        BY <2>1, <3>1
      <3>2. CASE n # seq
        <4>1. n \in 1 .. head_seq
          BY <2>1, <3>2
        <4>2. SlotOK(n)
          BY <4>1
        <4> QED
          BY <2>1, <4>2
      <3> QED
        BY <3>1, <3>2
    <2> QED
      BY <2>1, <2>2
  <1>5. CASE Bump
    BY <1>5 DEF Bump
  <1>6. CASE WakeInterested
    BY <1>6 DEF WakeInterested
  <1>7. CASE SetClosed
    BY <1>7 DEF SetClosed
  <1>8. CASE BumpClosed
    BY <1>8 DEF BumpClosed
  <1>9. CASE WakeClosed
    BY <1>9 DEF WakeClosed
  <1>10. ASSUME NEW w \in Waiters, Call(w) PROVE (SlotInv)'
    BY <1>10 DEF Call
  <1>11. ASSUME NEW w \in Waiters, CheckClosed(w) PROVE (SlotInv)'
    BY <1>11 DEF CheckClosed
  <1>12. ASSUME NEW w \in Waiters, LoadHead(w) PROVE (SlotInv)'
    BY <1>12 DEF LoadHead
  <1>13. ASSUME NEW w \in Waiters, CheckStamp(w) PROVE (SlotInv)'
    BY <1>13 DEF CheckStamp
  <1>14. ASSUME NEW w \in Waiters, CheckMask(w) PROVE (SlotInv)'
    BY <1>14 DEF CheckMask
  <1>15. ASSUME NEW w \in Waiters, Clone(w) PROVE (SlotInv)'
    BY <1>15 DEF Clone
  <1>16. ASSUME NEW w \in Waiters, Return(w) PROVE (SlotInv)'
    BY <1>16 DEF Return
  <1>17. ASSUME NEW w \in Waiters, TimedOut(w) PROVE (SlotInv)'
    BY <1>17 DEF TimedOut
  <1>18. ASSUME NEW w \in Waiters, LoadFutex(w) PROVE (SlotInv)'
    BY <1>18 DEF LoadFutex
  <1>19. ASSUME NEW w \in Waiters, FutexWait(w) PROVE (SlotInv)'
    BY <1>19 DEF FutexWait
  <1>20. ASSUME NEW w \in Waiters, Interrupted(w) PROVE (SlotInv)'
    BY <1>20 DEF Interrupted
  <1>21. CASE UNCHANGED vars
    BY <1>21 DEF vars
  <1> QED
    BY <1>1, <1>2, <1>3, <1>4, <1>5, <1>6, <1>7, <1>8, <1>9, <1>10,
       <1>11, <1>12, <1>13, <1>14, <1>15, <1>16, <1>17, <1>18, <1>19, <1>20, <1>21 DEF Next

-----------------------------------------------------------------------------
(* What a waiter holds                                                     *)

Holding == {"stamp", "mask", "clone", "got", "undefined"}

\* A waiter's findings survive a step that leaves them alone, moves it into no
\* later stage and takes the publisher forward only.
LEMMA WaiterFrame ==
    ASSUME TypeOK, TypeOK', NEW v \in Waiters, WaiterOK(v),
           wpc'[v] \in Holding => wpc'[v] = wpc[v],
           current_head'[v] = current_head[v] \/ wpc'[v] \notin Holding,
           last_seen_seq'[v] = last_seen_seq[v] \/ wpc'[v] \notin Holding,
           taken'[v] = taken[v] \/ wpc'[v] \notin Holding,
           head_seq <= head_seq', seq <= seq',
           \A n \in 1 .. head_seq : mask'[n] = mask[n]
    PROVE  WaiterOK(v)'
  <1>1. /\ head_seq \in Nat /\ head_seq' \in Nat /\ seq \in Nat /\ seq' \in Nat
        /\ last_seen_seq[v] \in Nat /\ current_head[v] \in Nat /\ taken[v] \in Nat
    BY HubAssumption DEF TypeOK
  <1>2. CASE wpc'[v] \notin Holding
    BY <1>2 DEF Holding, WaiterOK
  <1>3. CASE wpc'[v] \in Holding
    <2>1. /\ wpc'[v] = wpc[v] /\ current_head'[v] = current_head[v]
          /\ last_seen_seq'[v] = last_seen_seq[v] /\ taken'[v] = taken[v]
      BY <1>3
    <2>2. current_head[v] \in last_seen_seq[v] + 1 .. head_seq
      BY <1>3, <2>1 DEF Holding, WaiterOK
    <2>3. mask'[current_head[v]] = mask[current_head[v]]
      BY <1>1, <2>2
    <2>4. Lapped(v) => Lapped(v)'
      BY <1>1, <2>1, HubAssumption DEF Lapped
    <2>5. current_head'[v] \in last_seen_seq'[v] + 1 .. head_seq'
      BY <1>1, <2>1, <2>2
    <2>6. taken[v] <= seq => taken'[v] <= seq'
      BY <1>1, <2>1
    <2> QED
      BY <2>1, <2>3, <2>4, <2>5, <2>6 DEF WaiterOK, Matches
  <1> QED
    BY <1>2, <1>3

\* What a waiter has found at the head is still there, or it was lapped.
LEMMA WaiterStep == HubInv /\ [Next]_vars => \A v \in Waiters : WaiterOK(v)'
  <1> SUFFICES ASSUME HubInv, [Next]_vars
               PROVE  \A v \in Waiters : WaiterOK(v)'
    OBVIOUS
  <1>a. TypeOK /\ TypeOK' /\ PublisherInv /\ SlotInv /\ \A v \in Waiters : WaiterOK(v)
    BY TypeStep DEF HubInv
  <1>b. /\ head_seq \in Nat /\ seq \in Nat /\ head_seq <= seq
        /\ \A v \in Waiters : /\ last_seen_seq[v] \in Nat /\ current_head[v] \in Nat
                              /\ taken[v] \in Nat
    BY <1>a, HubAssumption DEF TypeOK, PublisherInv
  <1>c. ASSUME NEW w \in Waiters, NEW v \in Waiters, v # w,
               UNCHANGED <<head_seq, seq, mask>>, wpc'[v] = wpc[v],
               current_head'[v] = current_head[v], last_seen_seq'[v] = last_seen_seq[v],
               taken'[v] = taken[v]
        PROVE  WaiterOK(v)'
    BY <1>a, <1>b, <1>c, WaiterFrame
  <1> USE DEF Goto
  <1>1. CASE DropOld
    <2>1. seq' = seq + 1 /\ head_seq' = head_seq /\ seq' = head_seq + 1
      BY <1>1, <1>a DEF DropOld, PublisherInv
    <2>2. \A n \in 1 .. head_seq : mask'[n] = mask[n]
      BY <1>1, <2>1, <1>a, <1>b DEF DropOld, TypeOK
    <2>3. UNCHANGED <<wpc, current_head, last_seen_seq, taken>>
      BY <1>1 DEF DropOld, locals
    <2> QED
      BY <2>1, <2>2, <2>3, <1>a, <1>b, WaiterFrame
  <1>2. CASE WriteNew
    <2>1. UNCHANGED <<head_seq, seq, mask, wpc, current_head, last_seen_seq, taken>>
      BY <1>2 DEF WriteNew, locals
    <2> QED
      BY <2>1, <1>a, <1>b, WaiterFrame
  <1>3. CASE StampSlot
    <2>1. UNCHANGED <<head_seq, seq, mask, wpc, current_head, last_seen_seq, taken>>
      BY <1>3 DEF StampSlot, locals
    <2> QED
      BY <2>1, <1>a, <1>b, WaiterFrame
  <1>4. CASE AdvanceHead
    <2>1. head_seq' = seq /\ UNCHANGED <<seq, mask, wpc, current_head, last_seen_seq, taken>>
      BY <1>4 DEF AdvanceHead, locals
    <2> QED
      BY <2>1, <1>a, <1>b, WaiterFrame
  <1>5. CASE Bump
    <2>1. UNCHANGED <<head_seq, seq, mask, wpc, current_head, last_seen_seq, taken>>
      BY <1>5 DEF Bump, locals
    <2> QED
      BY <2>1, <1>a, <1>b, WaiterFrame
  <1>6. CASE WakeInterested
    <2>1. UNCHANGED <<head_seq, seq, mask, current_head, last_seen_seq, taken>>
      BY <1>6 DEF WakeInterested, hub, locals
    <2>2. \A v \in Waiters : wpc'[v] \in Holding => wpc'[v] = wpc[v]
      BY <1>6 DEF WakeInterested, Woken, Holding
    <2> QED
      BY <2>1, <2>2, <1>a, <1>b, WaiterFrame
  <1>7. CASE SetClosed
    <2>1. UNCHANGED <<head_seq, seq, mask, wpc, current_head, last_seen_seq, taken>>
      BY <1>7 DEF SetClosed, locals
    <2> QED
      BY <2>1, <1>a, <1>b, WaiterFrame
  <1>8. CASE BumpClosed
    <2>1. UNCHANGED <<head_seq, seq, mask, wpc, current_head, last_seen_seq, taken>>
      BY <1>8 DEF BumpClosed, locals
    <2> QED
      BY <2>1, <1>a, <1>b, WaiterFrame
  <1>9. CASE WakeClosed
    <2>1. UNCHANGED <<head_seq, seq, mask, current_head, last_seen_seq, taken>>
      BY <1>9 DEF WakeClosed, hub, locals
    <2>2. \A v \in Waiters : wpc'[v] \in Holding => wpc'[v] = wpc[v]
      BY <1>9 DEF WakeClosed, Woken, Holding
    <2> QED
      BY <2>1, <2>2, <1>a, <1>b, WaiterFrame
  <1>10. ASSUME NEW w \in Waiters, Call(w) PROVE \A v \in Waiters : WaiterOK(v)'
    <2>1. UNCHANGED <<head_seq, seq, mask>>
      BY <1>10 DEF Call, hub, control
    <2>2. \A v \in Waiters \ {w} : UNCHANGED <<wpc[v], current_head[v], last_seen_seq[v], taken[v]>>
      BY <1>10, <1>a DEF Call, TypeOK, locals
    <2>3. WaiterOK(w)'
      <3>1. wpc'[w] \notin Holding
        BY <1>10, <1>a DEF Call, TypeOK, Holding
      <3> QED
        BY <3>1 DEF WaiterOK, Holding
    <2> QED
      BY <2>1, <2>2, <2>3, <1>c
  <1>11. ASSUME NEW w \in Waiters, CheckClosed(w) PROVE \A v \in Waiters : WaiterOK(v)'
    <2>1. UNCHANGED <<head_seq, seq, mask>>
      BY <1>11 DEF CheckClosed, hub, control
    <2>2. \A v \in Waiters \ {w} : UNCHANGED <<wpc[v], current_head[v], last_seen_seq[v], taken[v]>>
      BY <1>11, <1>a DEF CheckClosed, TypeOK, locals
    <2>3. WaiterOK(w)'
      <3>1. wpc'[w] \notin Holding
        BY <1>11, <1>a DEF CheckClosed, TypeOK, Holding
      <3> QED
        BY <3>1 DEF WaiterOK, Holding
    <2> QED
      BY <2>1, <2>2, <2>3, <1>c
  <1>12. ASSUME NEW w \in Waiters, LoadHead(w) PROVE \A v \in Waiters : WaiterOK(v)'
    <2>1. UNCHANGED <<head_seq, seq, mask>>
      BY <1>12 DEF LoadHead, hub, control
    <2>2. \A v \in Waiters \ {w} : UNCHANGED <<wpc[v], current_head[v], last_seen_seq[v], taken[v]>>
      BY <1>12, <1>a DEF LoadHead, TypeOK, locals
    <2>3. WaiterOK(w)'
      <3>1. CASE head_seq > last_seen_seq[w]
        <4>1. wpc'[w] = "stamp" /\ current_head'[w] = head_seq /\ last_seen_seq' = last_seen_seq
          BY <1>12, <3>1, <1>a DEF LoadHead, TypeOK
        <4> QED
          BY <4>1, <3>1, <2>1, <1>b DEF WaiterOK
      <3>2. CASE ~(head_seq > last_seen_seq[w])
        <4>1. wpc'[w] \notin Holding
          BY <1>12, <3>2, <1>a DEF LoadHead, NothingNew, TypeOK, Holding
        <4> QED
          BY <4>1 DEF WaiterOK, Holding
      <3> QED
        BY <3>1, <3>2
    <2> QED
      BY <2>1, <2>2, <2>3, <1>c
  <1>13. ASSUME NEW w \in Waiters, CheckStamp(w) PROVE \A v \in Waiters : WaiterOK(v)'
    <2>1. UNCHANGED <<head_seq, seq, mask>>
      BY <1>13 DEF CheckStamp, hub, control
    <2>2. \A v \in Waiters \ {w} : UNCHANGED <<wpc[v], current_head[v], last_seen_seq[v], taken[v]>>
      BY <1>13, <1>a DEF CheckStamp, TypeOK, locals
    <2>3. WaiterOK(w)'
      <3>1. wpc[w] = "stamp" /\ wpc'[w] \in {"mask", "idle", "clock"} /\ UNCHANGED locals
        BY <1>13, <1>a DEF CheckStamp, NothingNew, TypeOK
      <3> QED
        BY <3>1, <2>1, <1>a DEF WaiterOK, locals
    <2> QED
      BY <2>1, <2>2, <2>3, <1>c
  <1>14. ASSUME NEW w \in Waiters, CheckMask(w) PROVE \A v \in Waiters : WaiterOK(v)'
    <2>1. UNCHANGED <<head_seq, seq, mask>>
      BY <1>14 DEF CheckMask, hub, control
    <2>2. \A v \in Waiters \ {w} : UNCHANGED <<wpc[v], current_head[v], last_seen_seq[v], taken[v]>>
      BY <1>14, <1>a DEF CheckMask, TypeOK, locals
    <2>a. current_head[w] \in 1 .. head_seq /\ SlotOK(current_head[w])
      BY <1>14, <1>a, <1>b DEF CheckMask, WaiterOK, SlotInv
    <2>3. WaiterOK(w)'
      <3>1. PICK m \in IF payload[SlotOf(current_head[w])] = 0 THEN SUBSET Bits
                       ELSE {mask[payload[SlotOf(current_head[w])]]} :
              Goto(w, "mask", IF m \cap Interest[w] # {} THEN "clone" ELSE NothingNew(w))
        BY <1>14 DEF CheckMask
      <3>2. wpc[w] = "mask" /\ wpc'[w] \in {"clone", "idle", "clock"} /\ UNCHANGED locals
        BY <1>14, <3>1, <1>a DEF CheckMask, NothingNew, TypeOK
      <3>3. ASSUME wpc'[w] = "clone", ~Lapped(w) PROVE Matches(w, mask[current_head[w]])
        <4>1. payload[SlotOf(current_head[w])] = current_head[w]
          BY <2>a, <3>3, <1>b, HubAssumption DEF SlotOK, Lapped
        <4>2. m = mask[current_head[w]]
          BY <2>a, <4>1
        <4>3. m \cap Interest[w] # {}
          BY <3>1, <3>3, <1>a DEF NothingNew, TypeOK
        <4> QED
          BY <4>2, <4>3 DEF Matches
      <3> QED
        BY <3>2, <3>3, <2>1, <1>a DEF WaiterOK, Matches, Lapped, locals
    <2> QED
      BY <2>1, <2>2, <2>3, <1>c
  <1>15. ASSUME NEW w \in Waiters, Clone(w) PROVE \A v \in Waiters : WaiterOK(v)'
    <2>1. UNCHANGED <<head_seq, seq, mask>>
      BY <1>15 DEF Clone, hub, control
    <2>2. \A v \in Waiters \ {w} : UNCHANGED <<wpc[v], current_head[v], last_seen_seq[v], taken[v]>>
      BY <1>15, <1>a DEF Clone, TypeOK, locals
    <2>a. current_head[w] \in 1 .. head_seq /\ SlotOK(current_head[w])
      BY <1>15, <1>a, <1>b DEF Clone, WaiterOK, SlotInv
    <2>3. WaiterOK(w)'
      <3>1. /\ wpc[w] = "clone"
            /\ wpc'[w] = IF payload[SlotOf(current_head[w])] = 0 THEN "undefined" ELSE "got"
            /\ taken'[w] = payload[SlotOf(current_head[w])]
            /\ current_head' = current_head /\ last_seen_seq' = last_seen_seq
        BY <1>15, <1>a DEF Clone, TypeOK
      <3>2. ~Lapped(w) => payload[SlotOf(current_head[w])] = current_head[w]
        BY <2>a, <1>b, HubAssumption DEF SlotOK, Lapped
      <3>3. taken'[w] # 0 => current_head[w] <= taken'[w] /\ taken'[w] <= seq
        BY <2>a, <3>1, <1>b DEF SlotOK
      <3> QED
        BY <2>a, <3>1, <3>2, <3>3, <2>1, <1>a DEF WaiterOK, Matches, Lapped
    <2> QED
      BY <2>1, <2>2, <2>3, <1>c
  <1>16. ASSUME NEW w \in Waiters, Return(w) PROVE \A v \in Waiters : WaiterOK(v)'
    <2>1. UNCHANGED <<head_seq, seq, mask>>
      BY <1>16 DEF Return, hub, control
    <2>2. \A v \in Waiters \ {w} : UNCHANGED <<wpc[v], current_head[v], last_seen_seq[v], taken[v]>>
      BY <1>16, <1>a DEF Return, TypeOK, locals
    <2>3. WaiterOK(w)'
      <3>1. wpc'[w] \notin Holding
        BY <1>16, <1>a DEF Return, TypeOK, Holding
      <3> QED
        BY <3>1 DEF WaiterOK, Holding
    <2> QED
      BY <2>1, <2>2, <2>3, <1>c
  <1>17. ASSUME NEW w \in Waiters, TimedOut(w) PROVE \A v \in Waiters : WaiterOK(v)'
    <2>1. UNCHANGED <<head_seq, seq, mask>>
      BY <1>17 DEF TimedOut, hub, control
    <2>2. \A v \in Waiters \ {w} : UNCHANGED <<wpc[v], current_head[v], last_seen_seq[v], taken[v]>>
      BY <1>17, <1>a DEF TimedOut, TypeOK, locals
    <2>3. WaiterOK(w)'
      <3>1. wpc'[w] \notin Holding
        BY <1>17, <1>a DEF TimedOut, TypeOK, Holding
      <3> QED
        BY <3>1 DEF WaiterOK, Holding
    <2> QED
      BY <2>1, <2>2, <2>3, <1>c
  <1>18. ASSUME NEW w \in Waiters, LoadFutex(w) PROVE \A v \in Waiters : WaiterOK(v)'
    <2>1. UNCHANGED <<head_seq, seq, mask>>
      BY <1>18 DEF LoadFutex, hub, control
    <2>2. \A v \in Waiters \ {w} : UNCHANGED <<wpc[v], current_head[v], last_seen_seq[v], taken[v]>>
      BY <1>18, <1>a DEF LoadFutex, TypeOK, locals
    <2>3. WaiterOK(w)'
      <3>1. wpc'[w] \notin Holding
        BY <1>18, <1>a DEF LoadFutex, TypeOK, Holding
      <3> QED
        BY <3>1 DEF WaiterOK, Holding
    <2> QED
      BY <2>1, <2>2, <2>3, <1>c
  <1>19. ASSUME NEW w \in Waiters, FutexWait(w) PROVE \A v \in Waiters : WaiterOK(v)'
    <2>1. UNCHANGED <<head_seq, seq, mask>>
      BY <1>19 DEF FutexWait, hub, control
    <2>2. \A v \in Waiters \ {w} : UNCHANGED <<wpc[v], current_head[v], last_seen_seq[v], taken[v]>>
      BY <1>19, <1>a DEF FutexWait, TypeOK, locals
    <2>3. WaiterOK(w)'
      <3>1. wpc'[w] \notin Holding
        BY <1>19, <1>a DEF FutexWait, TypeOK, Holding
      <3> QED
        BY <3>1 DEF WaiterOK, Holding
    <2> QED
      BY <2>1, <2>2, <2>3, <1>c
  <1>20. ASSUME NEW w \in Waiters, Interrupted(w) PROVE \A v \in Waiters : WaiterOK(v)'
    <2>1. UNCHANGED <<head_seq, seq, mask>>
      BY <1>20 DEF Interrupted, hub, control
    <2>2. \A v \in Waiters \ {w} : UNCHANGED <<wpc[v], current_head[v], last_seen_seq[v], taken[v]>>
      BY <1>20, <1>a DEF Interrupted, TypeOK, locals
    <2>3. WaiterOK(w)'
      <3>1. wpc'[w] \notin Holding
        BY <1>20, <1>a DEF Interrupted, TypeOK, Holding
      <3> QED
        BY <3>1 DEF WaiterOK, Holding
    <2> QED
      BY <2>1, <2>2, <2>3, <1>c
  <1>21. CASE UNCHANGED vars
    <2>1. UNCHANGED <<head_seq, seq, mask, wpc, current_head, last_seen_seq, taken>>
      BY <1>21 DEF vars, hub, control, locals
    <2> QED
      BY <2>1, <1>a, <1>b, WaiterFrame
  <1> QED
    BY <1>1, <1>2, <1>3, <1>4, <1>5, <1>6, <1>7, <1>8, <1>9, <1>10,
       <1>11, <1>12, <1>13, <1>14, <1>15, <1>16, <1>17, <1>18, <1>19, <1>20, <1>21 DEF Next

\* The inductive invariant holds throughout.
THEOREM HubInvariant == Spec => []HubInv
  <1>1. Init => HubInv
    <2> SUFFICES ASSUME Init PROVE HubInv
      OBVIOUS
    <2>1. TypeOK
      <3>1. notify_futex \in Seq(SUBSET Bits)
        BY DEF Init
      <3>2. mask \in [1 .. MaxFrames -> SUBSET Bits]
        BY DEF Init
      <3>3. 0 \in 0 .. MaxFrames /\ 0 \in Nat
        BY HubAssumption
      <3> QED
        BY <3>1, <3>2, <3>3 DEF Init, TypeOK
    <2>2. PublisherInv /\ SlotInv
      BY DEF Init, PublisherInv, SlotInv
    <2>3. \A w \in Waiters : WaiterOK(w)
      BY DEF Init, WaiterOK
    <2> QED
      BY <2>1, <2>2, <2>3 DEF HubInv
  <1>2. HubInv /\ [Next]_vars => HubInv'
    BY TypeStep, PublisherStep, SlotStep, WaiterStep DEF HubInv
  <1> QED
    BY <1>1, <1>2, PTL DEF Spec

\* The variables keep their types.
THEOREM HubTypeCorrect == Spec => []TypeOK
  <1>1. HubInv => TypeOK
    BY DEF HubInv
  <1> QED
    BY <1>1, HubInvariant, PTL

\* A waiter that is not lapped gets the very frame it found, of a kind it asked
\* for, and touches no dropped payload (hub.rs:93-127, 130-147).
THEOREM HubSoundUnlessLapped == Spec => []SoundUnlessLapped
  <1>1. HubInv => SoundUnlessLapped
    BY DEF HubInv, WaiterOK, SoundUnlessLapped
  <1> QED
    BY <1>1, HubInvariant, PTL

\* Nobody sleeps through a wake-up for a kind he asked for, and nobody is woken by
\* another, for any interests and any masks (hub.rs:84-87, 149-155; futex.rs:38-48,
\* 76-94).
THEOREM HubSelectiveWake == Spec => SelectiveWake
  <1> DEFINE Missed(w) == \E i \in current_futex[w] + 1 .. Len(notify_futex) :
                              Matches(w, notify_futex[i])
             Coming(w) == (ppc = "wake" /\ Matches(w, mask[seq])) \/ cpc = "wake"
  <1>1. Init => NoWakeUpMissed
    BY DEF Init, NoWakeUpMissed
  <1>2. TypeOK /\ NoWakeUpMissed /\ [Next]_vars => NoWakeUpMissed'
    <2> SUFFICES ASSUME TypeOK, NoWakeUpMissed, [Next]_vars,
                        NEW w \in Waiters, wpc'[w] = "asleep", Missed(w)'
                 PROVE  Coming(w)'
      BY DEF NoWakeUpMissed
    <2>0. wpc[w] = "asleep" /\ Missed(w) => Coming(w)
      BY DEF NoWakeUpMissed
    <2>1. CASE UNCHANGED <<ppc, seq, mask, cpc, notify_futex, current_futex>> /\ wpc[w] = "asleep"
      BY <2>0, <2>1
    <2>2. CASE DropOld
      <3>1. cpc' = cpc /\ wpc' = wpc /\ UNCHANGED <<notify_futex, current_futex>> /\ ppc = "idle"
        BY <2>2 DEF DropOld, locals
      <3> QED
        BY <2>0, <3>1
    <2>3. CASE WriteNew \/ StampSlot \/ AdvanceHead
      <3>1. /\ UNCHANGED <<cpc, wpc, notify_futex, current_futex>> /\ ppc # "wake"
        BY <2>3 DEF WriteNew, StampSlot, AdvanceHead, locals
      <3> QED
        BY <2>0, <3>1
    <2>4. CASE Bump
      <3>1. /\ UNCHANGED <<cpc, wpc, seq, mask, current_futex>> /\ ppc = "bump" /\ ppc' = "wake"
            /\ notify_futex' = Append(notify_futex, mask[seq])
        BY <2>4 DEF Bump, locals
      <3>2. Missed(w) \/ Matches(w, mask[seq])
        <4>1. PICK i \in current_futex[w] + 1 .. Len(notify_futex') : Matches(w, notify_futex'[i])
          BY <3>1
        <4>2. Len(notify_futex') = Len(notify_futex) + 1 /\ Len(notify_futex) \in Nat
              /\ current_futex[w] \in Nat
          BY <3>1 DEF TypeOK
        <4>3. CASE i = Len(notify_futex) + 1
          <5>1. notify_futex'[i] = mask[seq]
            BY <3>1, <4>3 DEF TypeOK
          <5> QED
            BY <4>1, <5>1
        <4>4. CASE i # Len(notify_futex) + 1
          <5>1. i \in current_futex[w] + 1 .. Len(notify_futex) /\ i \in 1 .. Len(notify_futex)
            BY <4>1, <4>2, <4>4
          <5>2. notify_futex'[i] = notify_futex[i]
            BY <3>1, <5>1 DEF TypeOK
          <5> QED
            BY <4>1, <5>1, <5>2
        <4> QED
          BY <4>3, <4>4
      <3> QED
        BY <2>0, <3>1, <3>2 DEF Matches
    <2>5. CASE WakeInterested
      <3>1. /\ UNCHANGED <<cpc, notify_futex, current_futex>> /\ wpc[w] = "asleep"
            /\ ~Matches(w, mask[seq])
        BY <2>5 DEF WakeInterested, Woken, Matches, hub, locals
      <3> QED
        BY <2>0, <3>1 DEF Matches
    <2>6. CASE SetClosed
      <3>1. UNCHANGED <<ppc, seq, mask, wpc, notify_futex, current_futex>> /\ cpc = "open"
        BY <2>6 DEF SetClosed, locals
      <3> QED
        BY <2>0, <3>1 DEF Matches
    <2>7. CASE BumpClosed
      BY <2>7 DEF BumpClosed
    <2>8. CASE WakeClosed
      <3>1. UNCHANGED <<notify_futex, current_futex>> /\ Interest[w] \cap Bits = {}
        BY <2>8 DEF WakeClosed, Woken, hub, locals
      <3>2. Interest[w] = {}
        BY <3>1, HubAssumption
      <3> QED
        BY <3>1, <3>2 DEF Matches
    <2>9. ASSUME NEW v \in Waiters, FutexWait(v) PROVE Coming(w)'
      <3>1. UNCHANGED <<ppc, seq, mask, cpc, notify_futex, current_futex>>
        BY <2>9 DEF FutexWait, hub, control, locals
      <3>2. CASE wpc[w] = "asleep"
        BY <2>1, <3>1, <3>2
      <3>3. CASE wpc[w] # "asleep"
        <4>1. Len(notify_futex) = current_futex[w]
          BY <2>9, <3>3 DEF FutexWait, Goto, TypeOK
        <4> QED
          BY <3>1, <4>1 DEF TypeOK
      <3> QED
        BY <3>2, <3>3
    <2>10. ASSUME NEW v \in Waiters,
                  \/ Call(v) \/ CheckClosed(v) \/ LoadHead(v) \/ CheckStamp(v) \/ CheckMask(v)
                  \/ Clone(v) \/ Return(v) \/ TimedOut(v) \/ LoadFutex(v) \/ Interrupted(v)
           PROVE  Coming(w)'
      <3>1. UNCHANGED <<ppc, seq, mask, cpc, notify_futex>>
        BY <2>10 DEF Call, CheckClosed, LoadHead, CheckStamp, CheckMask, Clone, Return,
                     TimedOut, LoadFutex, Interrupted, hub, control
      <3>2. wpc[w] = "asleep" /\ current_futex'[w] = current_futex[w]
        BY <2>10 DEF Call, CheckClosed, LoadHead, CheckStamp, CheckMask, Clone, Return,
                     TimedOut, LoadFutex, Interrupted, NothingNew, Goto, locals, TypeOK
      <3> QED
        BY <2>0, <3>1, <3>2
    <2>11. CASE UNCHANGED vars
      BY <2>1, <2>11 DEF vars, hub, control, locals
    <2> QED
      BY <2>2, <2>3, <2>4, <2>5, <2>6, <2>7, <2>8, <2>9, <2>10, <2>11 DEF Next
  <1>3. TypeOK /\ [Next]_vars => [WakesTheInterested]_vars
    <2> SUFFICES ASSUME TypeOK, Next, NEW w \in Waiters, wpc[w] = "asleep", wpc'[w] # "asleep"
                 PROVE  (WakeInterested /\ Matches(w, mask[seq])) \/ WakeClosed \/ Interrupted(w)
      BY DEF WakesTheInterested
    <2>1. CASE WakeInterested
      BY <2>1 DEF WakeInterested, Woken, Matches
    <2>2. CASE \/ DropOld \/ WriteNew \/ StampSlot \/ AdvanceHead \/ Bump \/ SetClosed \/ BumpClosed
      BY <2>2 DEF DropOld, WriteNew, StampSlot, AdvanceHead, Bump, SetClosed, BumpClosed, locals
    <2>3. ASSUME NEW v \in Waiters,
                 \/ Call(v) \/ CheckClosed(v) \/ LoadHead(v) \/ CheckStamp(v) \/ CheckMask(v)
                 \/ Clone(v) \/ Return(v) \/ TimedOut(v) \/ LoadFutex(v) \/ FutexWait(v)
          PROVE  FALSE
      BY <2>3 DEF Call, CheckClosed, LoadHead, CheckStamp, CheckMask, Clone, Return, TimedOut,
                  LoadFutex, FutexWait, Goto, TypeOK
    <2>4. ASSUME NEW v \in Waiters, Interrupted(v) PROVE Interrupted(w)
      BY <2>4 DEF Interrupted, Goto, TypeOK
    <2> QED
      BY <2>1, <2>2, <2>3, <2>4 DEF Next
  <1> QED
    BY <1>1, <1>2, <1>3, HubTypeCorrect, PTL DEF Spec, SelectiveWake

-----------------------------------------------------------------------------
(* Refinement                                                              *)

\* A step of the ring is a step of the abstract feed, or leaves it alone.
LEMMA FeedStep == HubInv /\ [Next]_vars => [Feed!Next]_(Feed!vars)
  <1> SUFFICES ASSUME HubInv, [Next]_vars
               PROVE  Feed!Next \/ UNCHANGED <<seq, last_seen_seq>>
    BY DEF Feed!vars
  <1>1. CASE DropOld
    <2>1. seq' = seq + 1 /\ last_seen_seq' = last_seen_seq
      BY <1>1 DEF DropOld, HubInv, PublisherInv, locals
    <2> QED
      BY <2>1 DEF Feed!Next, Feed!Produce
  <1>2. ASSUME NEW w \in Waiters, Return(w) PROVE Feed!Next
    <2>1. /\ current_head[w] \in last_seen_seq[w] + 1 .. head_seq
          /\ current_head[w] <= taken[w] /\ taken[w] <= seq
      BY <1>2 DEF Return, Goto, HubInv, WaiterOK
    <2>2. taken[w] \in last_seen_seq[w] + 1 .. seq
      BY <2>1, HubAssumption DEF HubInv, TypeOK
    <2>3. Feed!Take(w)
      BY <1>2, <2>2 DEF Return, control, Feed!Take
    <2> QED
      BY <2>3 DEF Feed!Next
  <1>3. CASE \/ WriteNew \/ StampSlot \/ AdvanceHead \/ Bump \/ WakeInterested
             \/ SetClosed \/ BumpClosed \/ WakeClosed \/ UNCHANGED vars
    BY <1>3 DEF WriteNew, StampSlot, AdvanceHead, Bump, WakeInterested, SetClosed,
                BumpClosed, WakeClosed, vars, control, locals
  <1>4. ASSUME NEW w \in Waiters,
               \/ Call(w) \/ CheckClosed(w) \/ LoadHead(w) \/ CheckStamp(w) \/ CheckMask(w)
               \/ Clone(w) \/ TimedOut(w) \/ LoadFutex(w) \/ FutexWait(w) \/ Interrupted(w)
        PROVE  UNCHANGED <<seq, last_seen_seq>>
    BY <1>4 DEF Call, CheckClosed, LoadHead, CheckStamp, CheckMask, Clone, TimedOut,
                LoadFutex, FutexWait, Interrupted, control, locals
  <1> QED
    BY <1>1, <1>2, <1>3, <1>4 DEF Next

\* No waiter is moved back or beyond the frame being published (hub.rs:61-147).
THEOREM HubImplementsFeed == Spec => ImplementsFeed
  <1>1. Init => Feed!Init
    BY DEF Init, Feed!Init
  <1> QED
    BY <1>1, FeedStep, HubInvariant, PTL DEF Spec, Feed!Spec, ImplementsFeed
=============================================================================
