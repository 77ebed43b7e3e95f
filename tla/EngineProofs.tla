---------------------------- MODULE EngineProofs -----------------------------
(***************************************************************************)
(* Theorems about the parts of the engine that EngineParts puts side by    *)
(* side, each for every value of its constants.                            *)
(***************************************************************************)
EXTENDS EngineParts, FiniteSetTheorems, SequenceTheorems, WellFoundedInduction, TLAPS

(***************************************************************************)
(* HybridMutex                                                             *)
(***************************************************************************)

\* Every step keeps word, program points and spin counters in their types.
LEMMA MutexTypeStep == TypeOK /\ [Next]_vars => TypeOK'
  <1> SUFFICES ASSUME TypeOK, [Next]_vars
               PROVE  TypeOK'
    OBVIOUS
  <1> USE MutexAssumption DEF TypeOK, Goto, TryLock, UNLOCKED, LOCKED, LOCKED_WITH_WAITERS
  <1>1. ASSUME NEW t \in Threads, LockFast(t) PROVE TypeOK'
    BY <1>1 DEF LockFast
  <1>2. ASSUME NEW t \in Threads, Spin(t) PROVE TypeOK'
    BY <1>2 DEF Spin
  <1>3. ASSUME NEW t \in Threads, Retry(t) PROVE TypeOK'
    BY <1>3 DEF Retry
  <1>4. ASSUME NEW t \in Threads, SwapIn(t) PROVE TypeOK'
    BY <1>4 DEF SwapIn
  <1>5. ASSUME NEW t \in Threads, FutexWait(t) PROVE TypeOK'
    BY <1>5 DEF FutexWait
  <1>6. ASSUME NEW t \in Threads, Interrupted(t) PROVE TypeOK'
    BY <1>6 DEF Interrupted
  <1>7. ASSUME NEW t \in Threads, Unlock(t) PROVE TypeOK'
    BY <1>7 DEF Unlock
  <1>8. ASSUME NEW t \in Threads, WakeOne(t) PROVE TypeOK'
    BY <1>8 DEF WakeOne
  <1>9. CASE UNCHANGED vars
    BY <1>9 DEF vars
  <1> QED
    BY <1>1, <1>2, <1>3, <1>4, <1>5, <1>6, <1>7, <1>8, <1>9 DEF Next

\* The state word and the program points stay in their types.
THEOREM MutexTypeCorrect == Spec => []TypeOK
  <1>1. Init => TypeOK
    BY MutexAssumption DEF Init, TypeOK, UNLOCKED
  <1> QED
    BY <1>1, MutexTypeStep, PTL DEF Spec

\* MutualExclusion is inductive given the types: the word tells whether the
\* lock is free, so only a thread that saw it free enters.
LEMMA MutexExclusionStep == TypeOK /\ MutualExclusion /\ [Next]_vars => MutualExclusion'
  <1> SUFFICES ASSUME TypeOK, MutualExclusion, [Next]_vars
               PROVE  MutualExclusion'
    OBVIOUS
  <1> USE DEF TypeOK, MutualExclusion, Goto, TryLock, UNLOCKED, LOCKED, LOCKED_WITH_WAITERS
  <1>1. ASSUME NEW t \in Threads, LockFast(t) PROVE MutualExclusion'
    BY <1>1 DEF LockFast
  <1>2. ASSUME NEW t \in Threads, Spin(t) PROVE MutualExclusion'
    BY <1>2 DEF Spin
  <1>3. ASSUME NEW t \in Threads, Retry(t) PROVE MutualExclusion'
    BY <1>3 DEF Retry
  <1>4. ASSUME NEW t \in Threads, SwapIn(t) PROVE MutualExclusion'
    BY <1>4 DEF SwapIn
  <1>5. ASSUME NEW t \in Threads, FutexWait(t) PROVE MutualExclusion'
    BY <1>5 DEF FutexWait
  <1>6. ASSUME NEW t \in Threads, Interrupted(t) PROVE MutualExclusion'
    BY <1>6 DEF Interrupted
  <1>7. ASSUME NEW t \in Threads, Unlock(t) PROVE MutualExclusion'
    BY <1>7 DEF Unlock
  <1>8. ASSUME NEW t \in Threads, WakeOne(t) PROVE MutualExclusion'
    BY <1>8 DEF WakeOne
  <1>9. CASE UNCHANGED vars
    BY <1>9 DEF vars
  <1> QED
    BY <1>1, <1>2, <1>3, <1>4, <1>5, <1>6, <1>7, <1>8, <1>9 DEF Next

\* At most one thread owns a HybridMutexGuard, and the word is never locked
\* without an owner.
THEOREM MutexExcludes == Spec => []MutualExclusion
  <1>1. Init => MutualExclusion
    BY DEF Init, MutualExclusion
  <1> QED
    BY <1>1, MutexExclusionStep, MutexTypeCorrect, PTL DEF Spec

\* A woken or unlocking thread carries the memory of the sleepers while the
\* word itself does not.
LEMMA MutexRememberStep == TypeOK /\ SleepersRemembered /\ [Next]_vars => SleepersRemembered'
  <1> SUFFICES ASSUME TypeOK, SleepersRemembered, [Next]_vars
               PROVE  SleepersRemembered'
    OBVIOUS
  <1> USE DEF TypeOK, SleepersRemembered, Goto, TryLock, UNLOCKED, LOCKED, LOCKED_WITH_WAITERS
  <1>1. ASSUME NEW t \in Threads, LockFast(t) PROVE SleepersRemembered'
    BY <1>1 DEF LockFast
  <1>2. ASSUME NEW t \in Threads, Spin(t) PROVE SleepersRemembered'
    BY <1>2 DEF Spin
  <1>3. ASSUME NEW t \in Threads, Retry(t) PROVE SleepersRemembered'
    BY <1>3 DEF Retry
  <1>4. ASSUME NEW t \in Threads, SwapIn(t) PROVE SleepersRemembered'
    BY <1>4 DEF SwapIn
  <1>5. ASSUME NEW t \in Threads, FutexWait(t) PROVE SleepersRemembered'
    BY <1>5 DEF FutexWait
  <1>6. ASSUME NEW t \in Threads, Interrupted(t) PROVE SleepersRemembered'
    BY <1>6 DEF Interrupted
  <1>7. ASSUME NEW t \in Threads, Unlock(t) PROVE SleepersRemembered'
    BY <1>7 DEF Unlock
  <1>8. ASSUME NEW t \in Threads, WakeOne(t) PROVE SleepersRemembered'
    BY <1>8 DEF WakeOne
  <1>9. CASE UNCHANGED vars
    BY <1>9 DEF vars
  <1> QED
    BY <1>1, <1>2, <1>3, <1>4, <1>5, <1>6, <1>7, <1>8, <1>9 DEF Next

\* No sleeping thread is ever forgotten by the word and by every awake thread.
THEOREM MutexRemembersSleepers == Spec => []SleepersRemembered
  <1>1. Init => SleepersRemembered
    BY DEF Init, SleepersRemembered
  <1> QED
    BY <1>1, MutexRememberStep, MutexTypeCorrect, PTL DEF Spec

-----------------------------------------------------------------------------
(* Refinement                                                              *)

\* A step maps to blocking, acquiring or releasing the lock, or to nothing.
LEMMA MutexLockStep == TypeOK /\ MutualExclusion /\ [Next]_vars => [LockSpec!Next]_(LockSpec!vars)
  <1> DEFINE wanting == {t \in Threads : Blocked(t)}
             holding == {t \in Threads : pc[t] = "in"}
  <1> SUFFICES ASSUME TypeOK, MutualExclusion, [Next]_vars
               PROVE  LockSpec!Next \/ UNCHANGED <<wanting, holding>>
    BY DEF LockSpec!vars
  <1> USE DEF TypeOK, Goto, TryLock, UNLOCKED, LOCKED, LOCKED_WITH_WAITERS, Blocked
  <1> DEFINE Goal == LockSpec!Next \/ UNCHANGED <<wanting, holding>>
  <1>1. ASSUME NEW t \in Threads, pc[t] # "in", state = UNLOCKED,
               pc' = [pc EXCEPT ![t] = "in"]
        PROVE  Goal
    <2>1. holding = {}
      BY <1>1 DEF MutualExclusion
    <2>2. holding' = {t}
      BY <1>1, <2>1
    <2>3. wanting' = wanting \ {t}
      BY <1>1
    <2> QED
      BY <2>1, <2>2, <2>3 DEF LockSpec!Next, LockSpec!Acquire
  <1>2. ASSUME NEW t \in Threads, NEW u \in Threads, NEW to, NEW to2,
               pc' = [pc EXCEPT ![t] = to, ![u] = to2],
               pc[t] # "in", pc[u] # "in", to # "in", to2 # "in",
               t # u,
               (pc[t] \in {"spin", "retry", "swap", "wait", "asleep"}) =
                 (to \in {"spin", "retry", "swap", "wait", "asleep"}),
               (pc[u] \in {"spin", "retry", "swap", "wait", "asleep"}) =
                 (to2 \in {"spin", "retry", "swap", "wait", "asleep"})
        PROVE  Goal
    BY <1>2
  <1>3. ASSUME NEW t \in Threads, NEW to,
               pc' = [pc EXCEPT ![t] = to],
               pc[t] # "in", to # "in",
               (pc[t] \in {"spin", "retry", "swap", "wait", "asleep"}) =
                 (to \in {"spin", "retry", "swap", "wait", "asleep"})
        PROVE  Goal
    BY <1>3
  <1>4. ASSUME NEW t \in Threads, LockFast(t)
        PROVE  Goal
    <2>1. CASE state = UNLOCKED
      BY <1>1, <1>4, <2>1 DEF LockFast
    <2>2. CASE state # UNLOCKED
      <3>1. pc[t] = "out" /\ pc' = [pc EXCEPT ![t] = "spin"]
        BY <1>4, <2>2 DEF LockFast
      <3>2. wanting' = wanting \cup {t} /\ holding' = holding /\ t \notin wanting \cup holding
        BY <3>1
      <3> QED
        BY <3>2 DEF LockSpec!Next, LockSpec!Block
    <2> QED
      BY <2>1, <2>2
  <1>5. ASSUME NEW t \in Threads, Spin(t)
        PROVE  Goal
    BY <1>3, <1>5 DEF Spin
  <1>6. ASSUME NEW t \in Threads, Retry(t)
        PROVE  Goal
    BY <1>1, <1>3, <1>6 DEF Retry
  <1>7. ASSUME NEW t \in Threads, SwapIn(t)
        PROVE  Goal
    BY <1>1, <1>3, <1>7 DEF SwapIn
  <1>8. ASSUME NEW t \in Threads, FutexWait(t) \/ Interrupted(t)
        PROVE  Goal
    BY <1>3, <1>8 DEF FutexWait, Interrupted
  <1>9. ASSUME NEW t \in Threads, Unlock(t)
        PROVE  Goal
    <2>1. /\ pc[t] = "in"
          /\ pc' = [pc EXCEPT ![t] = "wake"] \/ pc' = [pc EXCEPT ![t] = "out"]
      BY <1>9 DEF Unlock
    <2>2. holding' = holding \ {t} /\ wanting' = wanting /\ t \in holding
      BY <2>1
    <2> QED
      BY <2>2 DEF LockSpec!Next, LockSpec!Release
  <1>10. ASSUME NEW t \in Threads, WakeOne(t)
         PROVE  Goal
    BY <1>2, <1>3, <1>10 DEF WakeOne
  <1>11. CASE UNCHANGED vars
    BY <1>11 DEF vars
  <1> HIDE DEF Goal, TypeOK, Goto, TryLock, Blocked, UNLOCKED, LOCKED, LOCKED_WITH_WAITERS
  <1>12. ASSUME Next PROVE Goal
    <2>1. PICK t \in Threads :
            \/ LockFast(t) \/ Spin(t) \/ Retry(t) \/ SwapIn(t) \/ FutexWait(t)
            \/ Interrupted(t) \/ Unlock(t) \/ WakeOne(t)
      BY <1>12 DEF Next
    <2> QED
      BY <2>1, <1>4, <1>5, <1>6, <1>7, <1>8, <1>9, <1>10
  <1> QED
    BY <1>11, <1>12 DEF Goal

\* The mutex refines the abstract lock (the safety part of ImplementsLock).
THEOREM MutexImplementsLock == Spec => LockSpec!Spec
  <1>1. Init => LockSpec!Init
    BY DEF Init, LockSpec!Init, Blocked
  <1> QED
    BY <1>1, MutexLockStep, MutexTypeCorrect, MutexExcludes, PTL DEF Spec, LockSpec!Spec

(***************************************************************************)
(* Semaphore                                                               *)
(***************************************************************************)

SemaphoreInv == SemaphoreTypeOK /\ SemaphoreSound

\* Who enters or leaves moves the number of holders by one.
LEMMA HoldersMove ==
    ASSUME SemaphoreTypeOK, NEW p \in Producers
    PROVE  /\ Cardinality(Holders) \in Nat
           /\ acquiring[p] # "in" /\ acquiring' = [acquiring EXCEPT ![p] = "in"] =>
                  Cardinality(Holders') = Cardinality(Holders) + 1
           /\ acquiring[p] = "in" /\ (\E at : at # "in" /\ acquiring' = [acquiring EXCEPT ![p] = at]) =>
                  Cardinality(Holders') = Cardinality(Holders) - 1
<1>1. IsFiniteSet(Holders) /\ Cardinality(Holders) \in Nat
  BY SemaphoreAssumption, FS_Subset, FS_CardinalityType DEF Holders
<1>2. ASSUME acquiring[p] # "in", acquiring' = [acquiring EXCEPT ![p] = "in"]
      PROVE  Cardinality(Holders') = Cardinality(Holders) + 1
  <2>1. Holders' = Holders \cup {p} /\ p \notin Holders
    BY <1>2 DEF Holders, SemaphoreTypeOK
  <2> QED
    BY <1>1, <2>1, FS_AddElement
<1>3. ASSUME acquiring[p] = "in", NEW at, at # "in", acquiring' = [acquiring EXCEPT ![p] = at]
      PROVE  Cardinality(Holders') = Cardinality(Holders) - 1
  <2>1. Holders' = Holders \ {p} /\ p \in Holders
    BY <1>3 DEF Holders, SemaphoreTypeOK
  <2> QED
    BY <1>1, <2>1, FS_RemoveElement
<1> QED
  BY <1>1, <1>2, <1>3

LEMMA SemaphoreInvInit == SemaphoreInit => SemaphoreInv
<1> SUFFICES ASSUME SemaphoreInit PROVE SemaphoreInv
  OBVIOUS
<1>1. Holders = {}
  BY DEF SemaphoreInit, Holders
<1> QED
  BY <1>1, SemaphoreAssumption, FS_EmptySet
     DEF SemaphoreInit, SemaphoreInv, SemaphoreTypeOK, SemaphoreSound, PermitsConserved, NoPermitSleptOn

LEMMA SemaphoreInvStep == SemaphoreInv /\ [SemaphoreNext]_semaphoreVars => SemaphoreInv'
<1> SUFFICES ASSUME SemaphoreInv, [SemaphoreNext]_semaphoreVars
             PROVE  SemaphoreInv'
  OBVIOUS
<1> USE SemaphoreAssumption DEF SemaphoreInv, SemaphoreTypeOK, SemaphoreSound, NoPermitSleptOn, GoOn
<1>1. ASSUME NEW p \in Producers, LoadPermits(p) \/ AcquireTimedOut(p) \/ WaitForPermit(p) \/ WaitEnds(p)
      PROVE  SemaphoreInv'
  <2>1. Holders' = Holders /\ UNCHANGED permits
    BY <1>1 DEF LoadPermits, AcquireTimedOut, WaitForPermit, WaitEnds, Holders
  <2>2. PermitsConserved'
    BY <2>1 DEF PermitsConserved
  <2>3. SemaphoreTypeOK' /\ NoPermitSleptOn'
    BY <1>1 DEF LoadPermits, AcquireTimedOut, WaitForPermit, WaitEnds
  <2> QED
    BY <2>2, <2>3
<1>2. ASSUME NEW p \in Producers, Exchange(p)
      PROVE  SemaphoreInv'
  <2>1. SemaphoreTypeOK' /\ NoPermitSleptOn'
    BY <1>2 DEF Exchange
  <2>2. CASE acquiring' = [acquiring EXCEPT ![p] = "in"] /\ permits' = permits - 1
    <3>1. acquiring[p] # "in"
      BY <1>2 DEF Exchange
    <3>2. Cardinality(Holders) \in Nat /\ Cardinality(Holders') = Cardinality(Holders) + 1
      BY <2>2, <3>1, HoldersMove
    <3>3. PermitsConserved'
      BY <2>2, <3>2 DEF PermitsConserved
    <3> QED
      BY <2>1, <3>3
  <2>3. CASE acquiring' = [acquiring EXCEPT ![p] = "again"] /\ UNCHANGED permits
    <3>1. Holders' = Holders
      BY <1>2, <2>3 DEF Exchange, Holders
    <3> QED
      BY <2>1, <2>3, <3>1 DEF PermitsConserved
  <2> QED
    BY <1>2, <2>2, <2>3 DEF Exchange
<1>3. ASSUME NEW p \in Producers, Release(p)
      PROVE  SemaphoreInv'
  <2>1. Cardinality(Holders) \in Nat /\ Cardinality(Holders') = Cardinality(Holders) - 1
    BY <1>3, HoldersMove DEF Release
  <2>2. PermitsConserved'
    BY <1>3, <2>1 DEF Release, PermitsConserved
  <2>3. Cardinality(Holders') \in Nat
    <3>1. IsFiniteSet(Holders')
      BY FS_Subset DEF Holders
    <3> QED
      BY <3>1, FS_CardinalityType
  <2>4. SemaphoreTypeOK' /\ NoPermitSleptOn'
    BY <1>3, <2>1, <2>3 DEF Release, PermitsConserved
  <2> QED
    BY <2>2, <2>4
<1>4. ASSUME NEW p \in Producers, WakeProducers(p)
      PROVE  SemaphoreInv'
  <2>1. Holders' = Holders /\ UNCHANGED permits
    BY <1>4 DEF WakeProducers, Holders
  <2>2. SemaphoreTypeOK' /\ NoPermitSleptOn'
    BY <1>4 DEF WakeProducers
  <2> QED
    BY <2>1, <2>2 DEF PermitsConserved
<1>5. CASE UNCHANGED semaphoreVars
  BY <1>5 DEF semaphoreVars, PermitsConserved, Holders
<1> QED
  BY <1>1, <1>2, <1>3, <1>4, <1>5 DEF SemaphoreNext

\* Permits are neither lost nor minted, and nobody sleeps on a free one without
\* being about to be woken, for any number of producers (sync.rs:33-72).
THEOREM SemaphoreIsSound == SemaphoreSpec => []SemaphoreSound
<1>1. SemaphoreInv => SemaphoreSound
  BY DEF SemaphoreInv
<1> QED
  BY <1>1, SemaphoreInvInit, SemaphoreInvStep, PTL DEF SemaphoreSpec

(***************************************************************************)
(* ParkingTable                                                            *)
(***************************************************************************)

\* An unparker that stored 1 did so to the word of the entry in front of it.
ParkingInv ==
    /\ ParkingTypeOK
    /\ ParkedAreNotForgotten
    /\ \A u \in Unparkers :
           unparking[u].stored => unparking[u].rest # <<>> /\ Head(unparking[u].rest) \in notified

LEMMA ParkingInvInit == ParkingInit => ParkingInv
<1> SUFFICES ASSUME ParkingInit
             PROVE  ParkingInv
  OBVIOUS
<1>1. ParkingTypeOK
  BY ParkingAssumption DEF ParkingInit, ParkingTypeOK, EntrySet
<1> QED
  BY <1>1 DEF ParkingInit, ParkingInv, ParkedAreNotForgotten

\* Steps of a thread that parks already, which leave the entries where they are.
LEMMA ParkerSteps ==
    ASSUME ParkingInv, NEW t \in Parkers,
           CheckNotified(t) \/ ParkTimedOut(t) \/ WaitOnEntry(t) \/ ParkInterrupted(t)
    PROVE  ParkingInv'
<1>1. /\ UNCHANGED <<table, notified, parks, unparking>>
      /\ parking' \in [Parkers -> {"out", "check", "wait", "asleep"}]
      /\ \A s \in Parkers : s # t => parking'[s] = parking[s]
      /\ parking[t] # "out"
      /\ parking'[t] = "asleep" => EntryOf(t) \notin notified
  BY DEF ParkingInv, ParkingTypeOK, CheckNotified, ParkTimedOut, WaitOnEntry, ParkInterrupted
<1>2. ParkingTypeOK'
  BY <1>1 DEF ParkingInv, ParkingTypeOK
<1>3. \A e : Reachable(e)' <=> Reachable(e)
  BY <1>1 DEF Reachable, InSeq
<1>4. \A s \in Parkers : EntryOf(s)' = EntryOf(s)
  BY <1>1 DEF EntryOf
<1>5. ParkedAreNotForgotten'
  BY <1>1, <1>3, <1>4 DEF ParkingInv, ParkedAreNotForgotten
<1> QED
  BY <1>1, <1>2, <1>5 DEF ParkingInv

LEMMA ParkKeeps ==
    ASSUME ParkingInv, NEW t \in Parkers, NEW key \in Keys, Park(t, key)
    PROVE  ParkingInv'
<1> DEFINE entry == <<t, parks[t] + 1>>
<1>1. /\ parks' = [parks EXCEPT ![t] = parks[t] + 1]
      /\ parking' = [parking EXCEPT ![t] = "check"]
      /\ table' = [table EXCEPT ![key] = Append(table[key], entry)]
      /\ UNCHANGED <<notified, unparking>>
      /\ parks[t] < MaxParks
  BY DEF Park
<1>2. /\ table \in [Keys -> Seq(EntrySet)] /\ parks \in [Parkers -> 0 .. MaxParks]
      /\ parking \in [Parkers -> {"out", "check", "wait", "asleep"}]
  BY DEF ParkingInv, ParkingTypeOK
<1>3. entry \in EntrySet
  BY <1>1, <1>2, ParkingAssumption DEF EntrySet
<1>4. ParkingTypeOK'
  <2>1. table' \in [Keys -> Seq(EntrySet)]
    BY <1>1, <1>2, <1>3
  <2>2. parks' \in [Parkers -> 0 .. MaxParks]
    BY <1>1, <1>2, ParkingAssumption
  <2>3. parking' \in [Parkers -> {"out", "check", "wait", "asleep"}]
    BY <1>1, <1>2
  <2> QED
    BY <1>1, <2>1, <2>2, <2>3 DEF ParkingInv, ParkingTypeOK
<1> HIDE DEF entry
<1>5. InSeq(entry, table'[key])
  BY <1>1, <1>2, <1>3 DEF InSeq
<1>6. ASSUME NEW k \in Keys, NEW e, InSeq(e, table[k])
      PROVE  InSeq(e, table'[k])
  <2>1. CASE k = key
    <3>1. table'[k] = Append(table[k], entry) /\ table[k] \in Seq(EntrySet)
      BY <2>1, <1>1, <1>2
    <3> QED
      BY <1>3, <1>6, <3>1 DEF InSeq
  <2>2. CASE k # key
    BY <2>2, <1>1, <1>2, <1>6
  <2> QED
    BY <2>1, <2>2
<1>7. \A e : Reachable(e) => Reachable(e)'
  BY <1>1, <1>6 DEF Reachable, InSeq
<1>8. EntryOf(t)' = entry /\ \A s \in Parkers : s # t => EntryOf(s)' = EntryOf(s)
  BY <1>1, <1>2 DEF EntryOf, entry
<1>9. \A e : InSeq(e, table'[key]) => Reachable(e)'
  BY DEF Reachable, InSeq
<1>10. ParkedAreNotForgotten'
  <2> SUFFICES ASSUME NEW s \in Parkers
               PROVE  /\ parking'[s] # "out" /\ EntryOf(s)' \notin notified' => Reachable(EntryOf(s))'
                      /\ parking'[s] = "asleep" /\ EntryOf(s)' \in notified' =>
                             \E u \in Unparkers :
                                 /\ unparking'[u].stored
                                 /\ unparking'[u].rest # <<>>
                                 /\ Head(unparking'[u].rest) = EntryOf(s)'
    BY DEF ParkedAreNotForgotten
  <2>1. CASE s = t
    <3>1. parking'[s] = "check"
      BY <2>1, <1>1, <1>2
    <3>2. Reachable(EntryOf(s))'
      BY <2>1, <1>5, <1>8, <1>9 DEF Reachable
    <3> QED
      BY <3>1, <3>2
  <2>2. CASE s # t
    <3>1. parking'[s] = parking[s] /\ EntryOf(s)' = EntryOf(s)
      BY <2>2, <1>1, <1>2, <1>8
    <3>2. Reachable(EntryOf(s)) => Reachable(EntryOf(s))'
      BY <1>7, <3>1 DEF Reachable
    <3> QED
      BY <3>1, <3>2, <1>1 DEF ParkingInv, ParkedAreNotForgotten
  <2> QED
    BY <2>1, <2>2
<1> QED
  BY <1>1, <1>4, <1>10 DEF ParkingInv

\* unpark_all: from the table into its hands, and from there one by one.
LEMMA UnparkKeeps ==
    ASSUME ParkingInv, NEW u \in Unparkers,
           (\E key \in Keys : TakeEntries(u, key)) \/ Notify(u) \/ WakeEntry(u)
    PROVE  ParkingInv'
<1>1. /\ table \in [Keys -> Seq(EntrySet)] /\ notified \subseteq EntrySet
      /\ parking \in [Parkers -> {"out", "check", "wait", "asleep"}]
      /\ unparking \in [Unparkers -> [rest : Seq(EntrySet), stored : BOOLEAN]]
  BY DEF ParkingInv, ParkingTypeOK
<1>2. unparking[u].rest \in Seq(EntrySet)
  BY <1>1
<1>3. ASSUME NEW key \in Keys, TakeEntries(u, key)
      PROVE  ParkingInv'
  <2> DEFINE took == [rest |-> table[key], stored |-> FALSE]
  <2>1. /\ unparking' = [unparking EXCEPT ![u] = took]
        /\ table' = [table EXCEPT ![key] = <<>>]
        /\ unparking[u].rest = <<>>
        /\ UNCHANGED <<notified, parks, parking>>
    BY <1>3 DEF TakeEntries
  <2>2. took \in [rest : Seq(EntrySet), stored : BOOLEAN] /\ took.rest = table[key] /\ took.stored = FALSE
    BY <1>1
  <2> HIDE DEF took
  <2>3. /\ unparking' \in [Unparkers -> [rest : Seq(EntrySet), stored : BOOLEAN]]
        /\ unparking'[u] = took
        /\ \A v \in Unparkers : v # u => unparking'[v] = unparking[v]
    BY <1>1, <2>1, <2>2
  <2>4. table' \in [Keys -> Seq(EntrySet)] /\ \A k \in Keys : k # key => table'[k] = table[k]
    BY <1>1, <2>1
  <2>5. ParkingTypeOK'
    BY <2>1, <2>3, <2>4 DEF ParkingInv, ParkingTypeOK
  <2>6. ASSUME NEW e, Reachable(e)
        PROVE  Reachable(e)'
    <3>1. CASE \E k \in Keys : InSeq(e, table[k])
      <4>1. PICK k \in Keys : InSeq(e, table[k])
        BY <3>1
      <4>2. CASE k = key
        <5>1. InSeq(e, unparking'[u].rest)
          BY <4>1, <4>2, <2>2, <2>3
        <5> QED
          BY <5>1 DEF Reachable, InSeq
      <4>3. CASE k # key
        <5>1. InSeq(e, table'[k])
          BY <4>1, <4>3, <2>4
        <5> QED
          BY <5>1 DEF Reachable, InSeq
      <4> QED
        BY <4>2, <4>3
    <3>2. CASE \E v \in Unparkers : InSeq(e, unparking[v].rest)
      <4>1. PICK v \in Unparkers : InSeq(e, unparking[v].rest)
        BY <3>2
      <4>2. v # u
        BY <4>1, <2>1 DEF InSeq
      <4>3. InSeq(e, unparking'[v].rest)
        BY <4>1, <4>2, <2>3
      <4> QED
        BY <4>3 DEF Reachable, InSeq
    <3> QED
      BY <2>6, <3>1, <3>2 DEF Reachable
  <2>7. \A s \in Parkers : EntryOf(s)' = EntryOf(s)
    BY <2>1 DEF EntryOf
  <2>8. \A v \in Unparkers : unparking[v].rest # <<>> => unparking'[v] = unparking[v]
    BY <2>1, <2>3
  <2>9. ParkedAreNotForgotten'
    BY <2>1, <2>6, <2>7, <2>8 DEF ParkingInv, ParkedAreNotForgotten
  <2>10. \A v \in Unparkers : unparking'[v].stored =>
             unparking'[v].rest # <<>> /\ Head(unparking'[v].rest) \in notified'
    BY <2>1, <2>2, <2>3 DEF ParkingInv
  <2> QED
    BY <2>5, <2>9, <2>10 DEF ParkingInv
<1>4. CASE Notify(u)
  <2> DEFINE flagged == [unparking[u] EXCEPT !.stored = TRUE]
  <2>1. flagged \in [rest : Seq(EntrySet), stored : BOOLEAN] /\ flagged.rest = unparking[u].rest /\ flagged.stored
    BY <1>1
  <2>2. /\ unparking' = [unparking EXCEPT ![u] = flagged]
        /\ notified' = notified \cup {Head(unparking[u].rest)}
        /\ unparking[u].rest # <<>> /\ ~unparking[u].stored
        /\ UNCHANGED <<table, parks, parking>>
    BY <1>4 DEF Notify
  <2> HIDE DEF flagged
  <2>3. /\ unparking' \in [Unparkers -> [rest : Seq(EntrySet), stored : BOOLEAN]]
        /\ unparking'[u] = flagged
        /\ \A v \in Unparkers : v # u => unparking'[v] = unparking[v]
    BY <1>1, <2>1, <2>2
  <2>4. Head(unparking[u].rest) \in EntrySet
    BY <1>2, <2>2
  <2>5. ParkingTypeOK'
    BY <2>2, <2>3, <2>4 DEF ParkingInv, ParkingTypeOK
  <2>6. \A v \in Unparkers : /\ unparking'[v].rest = unparking[v].rest
                             /\ unparking[v].stored => unparking'[v].stored
                             /\ unparking'[v].stored => unparking[v].stored \/ v = u
    BY <2>1, <2>3
  <2>7. \A e : Reachable(e) => Reachable(e)'
    BY <2>2, <2>6 DEF Reachable, InSeq
  <2>8. \A s \in Parkers : EntryOf(s)' = EntryOf(s)
    BY <2>2 DEF EntryOf
  <2>9. ParkedAreNotForgotten'
    <3> SUFFICES ASSUME NEW s \in Parkers
                 PROVE  /\ parking[s] # "out" /\ EntryOf(s) \notin notified' => Reachable(EntryOf(s))'
                        /\ parking[s] = "asleep" /\ EntryOf(s) \in notified' =>
                               \E v \in Unparkers :
                                   /\ unparking'[v].stored
                                   /\ unparking'[v].rest # <<>>
                                   /\ Head(unparking'[v].rest) = EntryOf(s)
      BY <2>2, <2>8 DEF ParkedAreNotForgotten
    <3>1. EntryOf(s) \notin notified' => EntryOf(s) \notin notified
      BY <2>2
    <3>2. CASE EntryOf(s) \in notified
      BY <3>1, <3>2, <2>6 DEF ParkingInv, ParkedAreNotForgotten
    <3>3. CASE EntryOf(s) = Head(unparking[u].rest)
      BY <3>1, <3>3, <2>1, <2>2, <2>3, <2>7, <2>8 DEF ParkingInv, ParkedAreNotForgotten
    <3>4. CASE EntryOf(s) \notin notified'
      <4>1. parking[s] # "out" => Reachable(EntryOf(s))
        BY <3>1, <3>4 DEF ParkingInv, ParkedAreNotForgotten
      <4>2. Reachable(EntryOf(s)) => Reachable(EntryOf(s))'
        BY <2>7, <2>8 DEF Reachable
      <4> QED
        BY <3>4, <4>1, <4>2
    <3> QED
      BY <2>2, <3>2, <3>3, <3>4
  <2>10. \A v \in Unparkers : unparking'[v].stored =>
             unparking'[v].rest # <<>> /\ Head(unparking'[v].rest) \in notified'
    BY <2>2, <2>6 DEF ParkingInv
  <2> QED
    BY <2>5, <2>9, <2>10 DEF ParkingInv
<1>5. CASE WakeEntry(u)
  <2> DEFINE entry == Head(unparking[u].rest)
             left == [rest |-> Tail(unparking[u].rest), stored |-> FALSE]
  <2>1. /\ unparking[u].rest # <<>> /\ unparking[u].stored
        /\ unparking' = [unparking EXCEPT ![u] = left]
        /\ parking' = [t \in Parkers |->
               IF entry = EntryOf(t) /\ parking[t] = "asleep" THEN "check" ELSE parking[t]]
        /\ UNCHANGED <<table, notified, parks>>
    BY <1>5 DEF WakeEntry
  <2>2. left \in [rest : Seq(EntrySet), stored : BOOLEAN] /\ left.stored = FALSE
    BY <1>2, <2>1
  <2>3. \A e : InSeq(e, unparking[u].rest) => e = entry \/ InSeq(e, left.rest)
    <3> SUFFICES ASSUME NEW i \in DOMAIN unparking[u].rest, i # 1
                 PROVE  InSeq(unparking[u].rest[i], Tail(unparking[u].rest))
      BY <1>2, <2>1 DEF InSeq
    <3>1. i - 1 \in DOMAIN Tail(unparking[u].rest)
          /\ Tail(unparking[u].rest)[i - 1] = unparking[u].rest[i]
      BY <1>2, <2>1
    <3> QED
      BY <3>1 DEF InSeq
  <2>4. entry \in notified
    BY <2>1 DEF ParkingInv
  <2> HIDE DEF left, entry
  <2>5. /\ unparking' \in [Unparkers -> [rest : Seq(EntrySet), stored : BOOLEAN]]
        /\ unparking'[u] = left
        /\ \A v \in Unparkers : v # u => unparking'[v] = unparking[v]
    BY <1>1, <2>1, <2>2
  <2>6. parking' \in [Parkers -> {"out", "check", "wait", "asleep"}]
    BY <1>1, <2>1
  <2>7. ParkingTypeOK'
    BY <2>1, <2>5, <2>6 DEF ParkingInv, ParkingTypeOK
  <2>8. ASSUME NEW e, Reachable(e), e \notin notified
        PROVE  Reachable(e)'
    <3>1. CASE \E k \in Keys : InSeq(e, table[k])
      BY <3>1, <2>1 DEF Reachable, InSeq
    <3>2. CASE \E v \in Unparkers : InSeq(e, unparking[v].rest)
      <4>1. PICK v \in Unparkers : InSeq(e, unparking[v].rest)
        BY <3>2
      <4>2. InSeq(e, unparking'[v].rest)
        BY <4>1, <2>3, <2>4, <2>5, <2>8
      <4> QED
        BY <4>2 DEF Reachable, InSeq
    <3> QED
      BY <2>8, <3>1, <3>2 DEF Reachable
  <2>9. \A s \in Parkers : EntryOf(s)' = EntryOf(s)
    BY <2>1 DEF EntryOf
  <2>10. \A s \in Parkers : /\ parking'[s] # "out" => parking[s] # "out"
                            /\ parking'[s] = "asleep" => parking[s] = "asleep" /\ EntryOf(s) # entry
    BY <1>1, <2>1
  <2>11. ParkedAreNotForgotten'
    <3> SUFFICES ASSUME NEW s \in Parkers
                 PROVE  /\ parking'[s] # "out" /\ EntryOf(s) \notin notified => Reachable(EntryOf(s))'
                        /\ parking'[s] = "asleep" /\ EntryOf(s) \in notified =>
                               \E v \in Unparkers :
                                   /\ unparking'[v].stored
                                   /\ unparking'[v].rest # <<>>
                                   /\ Head(unparking'[v].rest) = EntryOf(s)
      BY <2>1, <2>9 DEF ParkedAreNotForgotten
    <3>1. parking'[s] # "out" /\ EntryOf(s) \notin notified => Reachable(EntryOf(s))'
      <4>1. EntryOf(s) \notin notified /\ Reachable(EntryOf(s)) => Reachable(EntryOf(s))'
        BY <2>8, <2>9 DEF Reachable
      <4> QED
        BY <4>1, <2>10 DEF ParkingInv, ParkedAreNotForgotten
    <3>2. ASSUME parking'[s] = "asleep", EntryOf(s) \in notified
          PROVE  \E v \in Unparkers : /\ unparking'[v].stored
                                      /\ unparking'[v].rest # <<>>
                                      /\ Head(unparking'[v].rest) = EntryOf(s)
      <4>1. PICK v \in Unparkers : /\ unparking[v].stored
                                   /\ unparking[v].rest # <<>>
                                   /\ Head(unparking[v].rest) = EntryOf(s)
        BY <3>2, <2>10 DEF ParkingInv, ParkedAreNotForgotten
      <4>2. v # u
        BY <4>1, <3>2, <2>10 DEF entry
      <4> QED
        BY <4>1, <4>2, <2>5
    <3> QED
      BY <3>1, <3>2
  <2>12. \A v \in Unparkers : unparking'[v].stored =>
             unparking'[v].rest # <<>> /\ Head(unparking'[v].rest) \in notified'
    BY <2>1, <2>2, <2>5 DEF ParkingInv
  <2> QED
    BY <2>7, <2>11, <2>12 DEF ParkingInv
<1> QED
  BY <1>3, <1>4, <1>5

LEMMA ParkingInvStep == ParkingInv /\ [ParkingNext]_parkingVars => ParkingInv'
<1> SUFFICES ASSUME ParkingInv, [ParkingNext]_parkingVars
             PROVE  ParkingInv'
  OBVIOUS
<1>1. CASE UNCHANGED parkingVars
  <2>1. UNCHANGED <<table, notified, parks, parking, unparking>>
    BY <1>1 DEF parkingVars
  <2>2. ParkingTypeOK'
    BY <2>1 DEF ParkingInv, ParkingTypeOK
  <2>3. \A e : Reachable(e)' <=> Reachable(e)
    BY <2>1 DEF Reachable, InSeq
  <2>4. \A t \in Parkers : EntryOf(t)' = EntryOf(t)
    BY <2>1 DEF EntryOf
  <2>5. ParkedAreNotForgotten'
    BY <2>1, <2>3, <2>4 DEF ParkingInv, ParkedAreNotForgotten
  <2> QED
    BY <2>1, <2>2, <2>5 DEF ParkingInv
<1>2. CASE ParkingNext
  BY <1>2, ParkKeeps, ParkerSteps, UnparkKeeps DEF ParkingNext
<1> QED
  BY <1>1, <1>2

\* A thread that parks can be found until it is notified and is woken if it
\* sleeps after that (sync.rs:209-256), for any number of parking and unparking
\* threads, of keys and of calls whose entries stay behind when they time out.
THEOREM ParkedThreadsAreFound == ParkingSpec => []ParkedAreNotForgotten
<1>1. ParkingInv => ParkedAreNotForgotten
  BY DEF ParkingInv
<1> QED
  BY <1>1, ParkingInvInit, ParkingInvStep, PTL DEF ParkingSpec

(***************************************************************************)
(* RcuConfig                                                               *)
(***************************************************************************)

\* A call that has a box in hand keeps the configuration alive, and what is not
\* allocated is not in use.
RcuInv ==
    /\ RcuTypeOK
    /\ EachBoxFreedOnce
    /\ box_ptr <= boxes
    /\ \A t \in ConfigThreads :
           /\ using[t].at # "out" => box_ptr # 0
           /\ using[t].at \in {"swap", "free"} => using[t].box \in 1 .. boxes
    /\ \A b \in 1 .. MaxBoxes : b > boxes => freed[b] = 0

LEMMA RcuInvInit == RcuInit => RcuInv
BY RcuAssumption DEF RcuInit, RcuInv, RcuTypeOK, EachBoxFreedOnce, Owned, Idle

LEMMA RcuInvStep == RcuInv /\ [RcuNext]_rcuVars => RcuInv'
<1> SUFFICES ASSUME RcuInv, [RcuNext]_rcuVars
             PROVE  RcuInv'
  OBVIOUS
<1> USE RcuAssumption DEF RcuInv, RcuTypeOK, EachBoxFreedOnce, Owned, Idle
<1>1. ASSUME NEW t \in ConfigThreads, LoadPtr(t)
      PROVE  RcuInv'
  BY <1>1 DEF LoadPtr
<1>2. ASSUME NEW t \in ConfigThreads, CloneArc(t)
      PROVE  RcuInv'
  BY <1>2 DEF CloneArc
<1>3. ASSUME NEW t \in ConfigThreads, NewBox(t)
      PROVE  RcuInv'
  BY <1>3 DEF NewBox
<1>4. ASSUME NEW t \in ConfigThreads, SwapPtr(t)
      PROVE  RcuInv'
  BY <1>4 DEF SwapPtr
<1>5. ASSUME NEW t \in ConfigThreads, FreeOld(t)
      PROVE  RcuInv'
  BY <1>5 DEF FreeOld
<1>6. CASE DropConfig
  BY <1>6 DEF DropConfig
<1>7. CASE UNCHANGED rcuVars
  BY <1>7 DEF rcuVars
<1> QED
  BY <1>1, <1>2, <1>3, <1>4, <1>5, <1>6, <1>7 DEF RcuNext

\* Updates that overlap free every box they replace exactly once, for any number
\* of threads (rcu.rs:29-49).
THEOREM RcuFreesOnce == RcuSpec => []EachBoxFreedOnce
<1>1. RcuInv => EachBoxFreedOnce
  BY DEF RcuInv
<1> QED
  BY <1>1, RcuInvInit, RcuInvStep, PTL DEF RcuSpec

(***************************************************************************)
(* SyncBridge                                                              *)
(***************************************************************************)

\* What the receiver got is never more than what the session gave.
BridgeInv ==
    /\ BridgeTypeOK
    /\ BridgeKeepsOrder
    /\ Len(got) <= Len(session_got)

LEMMA BridgeInvInit == BridgeInit => BridgeInv
BY BridgeAssumption DEF BridgeInit, BridgeInv, BridgeTypeOK, BridgeKeepsOrder

LEMMA BridgeInvStep == BridgeInv /\ [BridgeNext]_bridgeVars => BridgeInv'
<1> SUFFICES ASSUME BridgeInv, [BridgeNext]_bridgeVars
             PROVE  BridgeInv'
  OBVIOUS
<1> DEFINE Frames == 1 .. MaxBridged
<1>1. /\ in_hand \in Seq(Frames) /\ channel \in Seq(Frames)
      /\ got \in Seq(Frames) /\ session_got \in Seq(Frames)
      /\ bridge_task \in {"recv", "send", "ended"} /\ receiver \in {"open", "dropped"}
      /\ Len(in_hand) = (IF bridge_task = "send" THEN 1 ELSE 0)
      /\ Len(channel) <= ChannelBound /\ Len(got) <= Len(session_got)
  BY DEF BridgeInv, BridgeTypeOK
<1>2. ASSUME in_hand' \in Seq(Frames), channel' \in Seq(Frames), got' \in Seq(Frames),
             session_got' \in Seq(Frames),
             bridge_task' \in {"recv", "send", "ended"}, receiver' \in {"open", "dropped"},
             Len(in_hand') = (IF bridge_task' = "send" THEN 1 ELSE 0),
             Len(channel') <= ChannelBound, Len(got') <= Len(session_got'), BridgeKeepsOrder'
      PROVE  BridgeInv'
  BY <1>2 DEF BridgeInv, BridgeTypeOK
<1> HIDE DEF Frames
<1>3. CASE UNCHANGED bridgeVars
  BY <1>3 DEF bridgeVars, BridgeInv, BridgeTypeOK, BridgeKeepsOrder
<1>4. CASE TakeFrame
  <2>1. PICK f \in Frames : in_hand' = <<f>> /\ session_got' = Append(session_got, f)
    BY <1>4 DEF TakeFrame, Frames
  <2>2. bridge_task = "recv" /\ bridge_task' = "send" /\ UNCHANGED <<channel, got, receiver>>
    BY <1>4 DEF TakeFrame
  <2>3. /\ in_hand' \in Seq(Frames) /\ Len(in_hand') = 1
        /\ session_got' \in Seq(Frames) /\ Len(session_got') = Len(session_got) + 1
    BY <2>1, <1>1
  <2>4. CASE receiver = "open"
    <3>1. in_hand = <<>> /\ got \o channel \in Seq(Frames) /\ got \o channel \o in_hand = session_got
      BY <2>2, <2>4, <1>1 DEF BridgeInv, BridgeKeepsOrder
    <3>2. got \o channel = session_got
      BY <3>1
    <3>3. got' \o channel' \o in_hand' = session_got'
      BY <2>1, <2>2, <3>1, <3>2, <1>1
    <3> QED
      BY <1>1, <1>2, <2>2, <2>3, <2>4, <3>3 DEF BridgeKeepsOrder
  <2>5. CASE receiver = "dropped"
    <3>1. got = SubSeq(session_got, 1, Len(got)) /\ channel = <<>>
      BY <2>5 DEF BridgeInv, BridgeKeepsOrder
    <3>2. SubSeq(session_got', 1, Len(got)) = SubSeq(session_got, 1, Len(got))
      BY <2>1, <1>1
    <3> QED
      BY <1>1, <1>2, <2>2, <2>3, <2>5, <3>1, <3>2 DEF BridgeKeepsOrder
  <2> QED
    BY <2>4, <2>5, <1>1
<1>5. CASE SessionEnds
  BY <1>1, <1>2, <1>5 DEF SessionEnds, BridgeInv, BridgeKeepsOrder
<1>6. CASE SendFrame
  <2>1. in_hand' = <<>> /\ Len(in_hand) = 1 /\ UNCHANGED <<got, session_got, receiver>>
    BY <1>1, <1>6 DEF SendFrame
  <2>2. CASE receiver = "open"
    <3>1. channel' = channel \o in_hand /\ Len(channel) < ChannelBound /\ bridge_task' = "recv"
      BY <1>6, <2>2 DEF SendFrame
    <3>2. channel' \in Seq(Frames) /\ Len(channel') = Len(channel) + 1
      <4>1. channel' \in Seq(Frames) /\ Len(channel') = Len(channel) + Len(in_hand)
        BY <1>1, <3>1, ConcatProperties
      <4> QED
        BY <4>1, <2>1
    <3>3. got \o channel' = (got \o channel) \o in_hand
      BY <1>1, <3>1
    <3>4. got' \o channel' \o in_hand' = session_got'
      BY <1>1, <2>1, <2>2, <3>2, <3>3 DEF BridgeInv, BridgeKeepsOrder
    <3> QED
      BY <1>1, <1>2, <2>1, <2>2, <3>1, <3>2, <3>4, BridgeAssumption DEF BridgeKeepsOrder
  <2>3. CASE receiver = "dropped"
    <3>1. UNCHANGED channel /\ bridge_task' = "ended"
      BY <1>6, <2>3 DEF SendFrame
    <3> QED
      BY <1>1, <1>2, <2>1, <2>3, <3>1 DEF BridgeInv, BridgeKeepsOrder
  <2> QED
    BY <2>2, <2>3, <1>1
<1>7. CASE ReceiveFrame
  <2>1. /\ receiver = "open" /\ channel # <<>>
        /\ got' = Append(got, Head(channel)) /\ channel' = Tail(channel)
        /\ UNCHANGED <<bridge_task, in_hand, session_got, receiver>>
    BY <1>7 DEF ReceiveFrame
  <2>2. /\ got' \in Seq(Frames) /\ channel' \in Seq(Frames)
        /\ Len(got') = Len(got) + 1 /\ Len(channel') = Len(channel) - 1
    BY <1>1, <2>1
  <2>3. got' \o channel' = got \o channel
    BY <1>1, <2>1
  <2>4. got \o channel \o in_hand = session_got
    BY <2>1 DEF BridgeInv, BridgeKeepsOrder
  <2>5. Len(session_got) = Len(got) + Len(channel) + Len(in_hand)
    <3>1. got \o channel \in Seq(Frames) /\ Len(got \o channel) = Len(got) + Len(channel)
      BY <1>1
    <3>2. Len((got \o channel) \o in_hand) = Len(got \o channel) + Len(in_hand)
      BY <1>1, <3>1, ConcatProperties
    <3> QED
      BY <2>4, <3>1, <3>2
  <2>6. Len(channel) >= 1
    BY <1>1, <2>1
  <2>7. got' \o channel' \o in_hand' = session_got'
    BY <2>1, <2>3, <2>4
  <2>8. BridgeKeepsOrder'
    BY <2>1, <2>7 DEF BridgeKeepsOrder
  <2>9. Len(channel') <= ChannelBound /\ Len(got') <= Len(session_got')
    <3>1. Len(channel) \in Nat /\ Len(got) \in Nat /\ Len(in_hand) \in Nat
      BY <1>1
    <3> QED
      BY <1>1, <2>1, <2>2, <2>5, <2>6, <3>1, BridgeAssumption
  <2> QED
    BY <1>1, <1>2, <2>1, <2>2, <2>8, <2>9
<1>8. CASE DropReceiver
  <2>1. /\ receiver = "open" /\ receiver' = "dropped" /\ channel' = <<>>
        /\ UNCHANGED <<bridge_task, in_hand, got, session_got>>
    BY <1>8 DEF DropReceiver
  <2>2. got \o channel \o in_hand = session_got
    BY <2>1 DEF BridgeInv, BridgeKeepsOrder
  <2>3. got = SubSeq(session_got, 1, Len(got))
    BY <1>1, <2>2
  <2> QED
    BY <1>1, <1>2, <2>1, <2>3, BridgeAssumption DEF BridgeKeepsOrder
<1> QED
  BY <1>3, <1>4, <1>5, <1>6, <1>7, <1>8 DEF BridgeNext

\* The bridge task loses and reorders nothing of what the session gave it
\* (isolated.rs:56-78), for channels and runs of any length.
THEOREM BridgeLosesNothing == BridgeSpec => []BridgeKeepsOrder
<1>1. BridgeInv => BridgeKeepsOrder
  BY DEF BridgeInv
<1> QED
  BY <1>1, BridgeInvInit, BridgeInvStep, PTL DEF BridgeSpec

(***************************************************************************)
(* RtspRelay                                                               *)
(***************************************************************************)

\* A client stands behind the place it came in at and not past the end, and what
\* it got last is the packet before its place.
RelayInv ==
    /\ RelayTypeOK
    /\ GapsOnlyForLaggards
    /\ ~listed => forwarder = "none"
    /\ forwarder = "none" => relayed = <<>>
    /\ forwarder # "none" => fwd_next >= 1
    /\ \A p \in Players :
           playing[p].at = "playing" =>
               /\ 1 <= playing[p].from /\ playing[p].from <= playing[p].next
               /\ playing[p].next <= Len(relayed) + 1
               /\ playing[p].got # 0 => playing[p].from < playing[p].next

LEMMA RelayInvInit == RelayInit => RelayInv
<1> SUFFICES ASSUME RelayInit
             PROVE  RelayInv
  OBVIOUS
<1>1. 0 \in 0 .. MaxPackets /\ 0 \in 0 .. MaxPackets + 1
  BY RelayAssumption
<1>2. NoPlayer \in [at : {"out", "playing"}, next : 0 .. MaxPackets + 1,
                    from : 0 .. MaxPackets + 1, got : 0 .. MaxPackets, lagged : BOOLEAN]
  BY <1>1 DEF NoPlayer
<1>3. RelayTypeOK
  <2> DEFINE Rows == [at : {"out", "playing"}, next : 0 .. MaxPackets + 1,
                      from : 0 .. MaxPackets + 1, got : 0 .. MaxPackets, lagged : BOOLEAN]
  <2> HIDE DEF Rows
  <2>1. playing \in [Players -> Rows]
    BY <1>2 DEF RelayInit, Rows
  <2>2. relayed \in Seq(1 .. MaxPackets)
    BY DEF RelayInit
  <2> QED
    BY <1>1, <2>1, <2>2 DEF RelayInit, RelayTypeOK, Rows
<1> QED
  BY <1>3 DEF RelayInit, RelayInv, GapsOnlyForLaggards, NoPlayer

LEMMA RelayInvStep == RelayInv /\ [RelayNext]_relayVars => RelayInv'
<1> SUFFICES ASSUME RelayInv, [RelayNext]_relayVars
             PROVE  RelayInv'
  OBVIOUS
<1> DEFINE Rows == [at : {"out", "playing"}, next : 0 .. MaxPackets + 1,
                    from : 0 .. MaxPackets + 1, got : 0 .. MaxPackets, lagged : BOOLEAN]
           Good(row) == /\ row \in Rows
                        /\ row.at = "playing" =>
                               /\ 1 <= row.from /\ row.from <= row.next
                               /\ row.next <= Len(relayed) + 1
                               /\ row.got # 0 => row.from < row.next
                               /\ row.got # 0 /\ ~row.lagged =>
                                      row.got = relayed[row.from] + row.next - row.from - 1
<1>1. /\ relayed \in Seq(1 .. MaxPackets) /\ packets \in 0 .. MaxPackets
      /\ fwd_next \in 0 .. MaxPackets + 1 /\ playing \in [Players -> Rows]
      /\ Len(relayed) \in Nat /\ DOMAIN relayed = 1 .. Len(relayed)
      /\ \A i \in DOMAIN relayed : relayed[i] = relayed[1] + i - 1
      /\ \A i \in DOMAIN relayed : relayed[i] \in 1 .. MaxPackets
      /\ MaxPackets \in Nat /\ RelayCapacity \in Nat \ {0}
  BY RelayAssumption DEF RelayInv, RelayTypeOK, GapsOnlyForLaggards
<1>0. Len(relayed) \in Nat /\ MaxPackets \in Nat /\ RelayCapacity \in Nat /\ RelayCapacity >= 1
  BY <1>1
<1>2. \A p \in Players : Good(playing[p])
  BY <1>1 DEF RelayInv, GapsOnlyForLaggards
<1>3. Len(relayed) <= MaxPackets
  <2>1. CASE relayed = <<>>
    BY <2>1, <1>1
  <2>2. CASE relayed # <<>>
    <3>1. 1 \in DOMAIN relayed /\ Len(relayed) \in DOMAIN relayed
      BY <2>2, <1>1
    <3>2. relayed[Len(relayed)] = relayed[1] + Len(relayed) - 1
          /\ relayed[Len(relayed)] \in 1 .. MaxPackets /\ relayed[1] \in 1 .. MaxPackets
      BY <3>1, <1>1
    <3> QED
      BY <3>2, <1>1
  <2> QED
    BY <2>1, <2>2
<1>4. CASE UNCHANGED relayVars
  BY <1>4 DEF relayVars, RelayInv, RelayTypeOK, GapsOnlyForLaggards
<1>5. CASE SourceDescribes \/ SourcePlays \/ SourceEnds \/ SourceSends
  <2>1. /\ source' \in {"describe", "setup", "play", "ended"}
        /\ sdp' \in {"pending", "sent", "dropped"} /\ packets' \in 0 .. MaxPackets
        /\ UNCHANGED <<listed, forwarder, fwd_next, relayed, playing>>
    BY <1>1, <1>5 DEF SourceDescribes, SourcePlays, SourceEnds, SourceSends, RelayInv, RelayTypeOK
  <2> QED
    BY <2>1 DEF RelayInv, RelayTypeOK, GapsOnlyForLaggards
<1>6. CASE RegisterRelay
  <2>1. relayed = <<>> /\ listed' = TRUE /\ forwarder' = "running" /\ fwd_next' = packets + 1
        /\ UNCHANGED <<source, sdp, packets, relayed, playing>>
    BY <1>6 DEF RegisterRelay, RelayInv
  <2> QED
    BY <1>1, <2>1 DEF RelayInv, RelayTypeOK, GapsOnlyForLaggards
<1>7. CASE ForwarderLags
  BY <1>1, <1>7 DEF ForwarderLags, RelayInv, RelayTypeOK, GapsOnlyForLaggards
<1>8. CASE Forward
  <2>1. /\ relayed' = Append(relayed, fwd_next) /\ fwd_next' = fwd_next + 1
        /\ forwarder = "running" /\ fwd_next <= packets /\ fwd_next >= 1
        /\ UNCHANGED <<source, sdp, listed, packets, forwarder, playing>>
    BY <1>8 DEF Forward, RelayInv
  <2>2. fwd_next \in 1 .. MaxPackets /\ fwd_next' \in 0 .. MaxPackets + 1
    BY <1>1, <2>1
  <2>3. /\ relayed' \in Seq(1 .. MaxPackets) /\ Len(relayed') = Len(relayed) + 1
        /\ DOMAIN relayed' = 1 .. Len(relayed) + 1
        /\ relayed'[Len(relayed) + 1] = fwd_next
        /\ \A i \in DOMAIN relayed : relayed'[i] = relayed[i]
    BY <1>1, <2>1, <2>2
  <2>4. ASSUME relayed # <<>>
        PROVE  /\ fwd_next = relayed[1] + Len(relayed)
               /\ relayed'[1] = relayed[1] /\ relayed[1] \in Nat
    <3>1. 1 \in DOMAIN relayed /\ Len(relayed) \in DOMAIN relayed
      BY <2>4, <1>1
    <3>2. fwd_next = relayed[Len(relayed)] + 1
      BY <2>1, <2>4 DEF RelayInv, GapsOnlyForLaggards
    <3>3. relayed[Len(relayed)] = relayed[1] + Len(relayed) - 1 /\ relayed[1] \in 1 .. MaxPackets
      BY <1>1, <3>1
    <3>4. fwd_next = relayed[1] + Len(relayed)
      BY <1>0, <3>2, <3>3
    <3> QED
      BY <2>3, <3>1, <3>3, <3>4
  <2>5. \A i \in DOMAIN relayed' : relayed'[i] = relayed'[1] + i - 1
    <3>1. CASE relayed = <<>>
      BY <3>1, <1>1, <2>2, <2>3
    <3>2. CASE relayed # <<>>
      <4>1. \A i \in 1 .. Len(relayed) : relayed'[i] = relayed'[1] + i - 1
        BY <3>2, <1>1, <2>3, <2>4
      <4>2. relayed'[Len(relayed) + 1] = relayed'[1] + (Len(relayed) + 1) - 1
        BY <3>2, <1>1, <2>3, <2>4
      <4>3. \A i \in 1 .. Len(relayed) + 1 : i \in 1 .. Len(relayed) \/ i = Len(relayed) + 1
        BY <1>0
      <4> QED
        BY <4>1, <4>2, <4>3, <2>3
    <3> QED
      BY <3>1, <3>2
  <2>6. \A p \in Players :
            playing[p].at = "playing" =>
                /\ playing[p].next <= Len(relayed') + 1
                /\ playing[p].got # 0 => relayed'[playing[p].from] = relayed[playing[p].from]
    BY <1>1, <1>2, <2>3
  <2>7. RelayTypeOK'
    BY <2>1, <2>2, <2>3 DEF RelayInv, RelayTypeOK
  <2>8. GapsOnlyForLaggards'
    BY <1>1, <1>2, <2>1, <2>2, <2>3, <2>5, <2>6 DEF RelayInv, GapsOnlyForLaggards
  <2> QED
    BY <1>1, <2>1, <2>2, <2>6, <2>7, <2>8 DEF RelayInv
<1>9. ASSUME NEW p \in Players, NEW row, Good(row), playing' = [playing EXCEPT ![p] = row],
             UNCHANGED <<source, sdp, listed, packets, forwarder, fwd_next, relayed>>
      PROVE  RelayInv'
  <2>1. playing' \in [Players -> Rows] /\ \A q \in Players : Good(playing'[q])
    BY <1>1, <1>2, <1>9
  <2> QED
    BY <1>9, <2>1 DEF RelayInv, RelayTypeOK, GapsOnlyForLaggards
<1>10. ASSUME NEW p \in Players, PlayRelay(p)
       PROVE  RelayInv'
  <2> DEFINE row == [NoPlayer EXCEPT !.at = "playing", !.next = Len(relayed) + 1, !.from = Len(relayed) + 1]
  <2>1. Good(row)
    <3>1. Len(relayed) + 1 \in 0 .. MaxPackets + 1 /\ 0 \in 0 .. MaxPackets /\ 0 \in 0 .. MaxPackets + 1
      BY <1>0, <1>3
    <3>2. NoPlayer \in Rows /\ NoPlayer.got = 0
      BY <3>1 DEF NoPlayer
    <3>3. row \in Rows /\ row.next = Len(relayed) + 1 /\ row.from = Len(relayed) + 1 /\ row.got = 0
      BY <3>1, <3>2
    <3> HIDE DEF row
    <3> QED
      BY <1>0, <3>3
  <2>2. playing' = [playing EXCEPT ![p] = row]
        /\ UNCHANGED <<source, sdp, listed, packets, forwarder, fwd_next, relayed>>
    BY <1>10 DEF PlayRelay
  <2> HIDE DEF Good, row
  <2> QED
    BY <2>1, <2>2, <1>9
<1>11. ASSUME NEW p \in Players, PlayerLeaves(p)
       PROVE  RelayInv'
  <2>1. Good(NoPlayer)
    BY <1>1 DEF NoPlayer
  <2>2. playing' = [playing EXCEPT ![p] = NoPlayer]
        /\ UNCHANGED <<source, sdp, listed, packets, forwarder, fwd_next, relayed>>
    BY <1>11 DEF PlayerLeaves
  <2> HIDE DEF Good
  <2> QED
    BY <2>1, <2>2, <1>9
<1>12. ASSUME NEW p \in Players, PlayerLags(p)
       PROVE  RelayInv'
  <2> DEFINE old == playing[p]
             row == [old EXCEPT !.next = Len(relayed) - RelayCapacity + 1, !.lagged = TRUE]
  <2>1. old.at = "playing" /\ Len(relayed) - old.next >= RelayCapacity
        /\ UNCHANGED <<source, sdp, listed, packets, forwarder, fwd_next, relayed>>
    BY <1>12 DEF PlayerLags
  <2>2. playing' = [playing EXCEPT ![p] = row]
    BY <1>12, <1>1 DEF PlayerLags
  <2>3. Good(old)
    BY <1>2
  <2> HIDE DEF old
  <2>4. Len(relayed) - RelayCapacity + 1 \in 0 .. MaxPackets + 1
        /\ old.next < Len(relayed) - RelayCapacity + 1
    <3>1. old.next \in 0 .. MaxPackets + 1
      BY <2>3
    <3> QED
      BY <1>1, <1>3, <2>1, <3>1
  <2>5. Good(row)
    <3>1. old \in Rows /\ 1 <= old.from /\ old.from <= old.next
      BY <2>1, <2>3
    <3>2. /\ row \in Rows /\ row.from = old.from /\ row.got = old.got /\ row.lagged
          /\ row.next = Len(relayed) - RelayCapacity + 1
      BY <2>4, <3>1
    <3>3. old.from \in Nat /\ old.next \in Nat
      BY <3>1
    <3> HIDE DEF row
    <3>4. row.from < row.next /\ row.next <= Len(relayed) + 1
      <4>1. Len(relayed) - RelayCapacity + 1 <= Len(relayed) + 1
        BY <1>0
      <4>2. old.from < Len(relayed) - RelayCapacity + 1
        BY <1>0, <2>4, <3>1, <3>3
      <4> QED
        BY <3>2, <4>1, <4>2
    <3> QED
      BY <3>1, <3>2, <3>3, <3>4
  <2> HIDE DEF Good, row
  <2> QED
    BY <2>1, <2>2, <2>5, <1>9
<1>13. ASSUME NEW p \in Players, DeliverPacket(p)
       PROVE  RelayInv'
  <2> DEFINE old == playing[p]
             row == [old EXCEPT !.next = old.next + 1, !.got = relayed[old.next]]
  <2>1. old.at = "playing" /\ old.next <= Len(relayed)
        /\ UNCHANGED <<source, sdp, listed, packets, forwarder, fwd_next, relayed>>
    BY <1>13 DEF DeliverPacket
  <2>2. playing' = [playing EXCEPT ![p] = row]
    BY <1>13, <1>1 DEF DeliverPacket
  <2>3. Good(old)
    BY <1>2
  <2> HIDE DEF old
  <2>4. /\ old.next \in DOMAIN relayed /\ old.from \in DOMAIN relayed
        /\ old \in Rows /\ old.from <= old.next /\ old.from \in Nat /\ old.next \in Nat
    BY <1>1, <2>1, <2>3
  <2>5. relayed[old.next] = relayed[old.from] + old.next - old.from
        /\ relayed[old.next] \in 1 .. MaxPackets /\ relayed[old.from] \in 1 .. MaxPackets
    <3>1. /\ relayed[old.next] = relayed[1] + old.next - 1
          /\ relayed[old.from] = relayed[1] + old.from - 1
          /\ relayed[old.next] \in 1 .. MaxPackets /\ relayed[old.from] \in 1 .. MaxPackets
      BY <1>1, <2>4
    <3>2. relayed[1] \in 1 .. MaxPackets
      BY <1>1, <2>4
    <3> QED
      BY <2>4, <3>1, <3>2
  <2>6. Good(row)
    <3>1. old.next + 1 \in 0 .. MaxPackets + 1 /\ relayed[old.next] \in 0 .. MaxPackets
      BY <1>0, <1>3, <2>1, <2>4, <2>5
    <3>2. /\ row \in Rows /\ row.from = old.from /\ row.got = relayed[old.next]
          /\ row.next = old.next + 1
      BY <2>4, <3>1
    <3> HIDE DEF row
    <3>3. row.got = relayed[row.from] + row.next - row.from - 1
      BY <1>1, <2>4, <2>5, <3>2
    <3>4. 1 <= row.from /\ row.from < row.next /\ row.next <= Len(relayed) + 1
      <4>1. 1 <= old.from
        BY <2>1, <2>3
      <4>2. old.from < old.next + 1 /\ old.next + 1 <= Len(relayed) + 1
        BY <1>0, <2>1, <2>4
      <4> QED
        BY <3>2, <4>1, <4>2
    <3> QED
      BY <2>4, <3>2, <3>3, <3>4
  <2> HIDE DEF Good, row
  <2> QED
    BY <2>1, <2>2, <2>6, <1>9
<1> QED
  BY <1>4, <1>5, <1>6, <1>7, <1>8, <1>10, <1>11, <1>12, <1>13 DEF RelayNext

\* What is relayed is a gapless stretch of what the camera sent, and a client has
\* a gap in it only if it fell behind by a channel (rtsp/cli.rs:166-171,
\* rtsp/server.rs:153-176), for channels of any capacity and any number of clients.
THEOREM RelayHasNoOtherGaps == RelaySpec => []GapsOnlyForLaggards
<1>1. RelayInv => GapsOnlyForLaggards
  BY DEF RelayInv
<1> QED
  BY <1>1, RelayInvInit, RelayInvStep, PTL DEF RelaySpec

(***************************************************************************)
(* GopActor                                                                *)
(***************************************************************************)

AskKinds == {"keyframe", "stats"}

Mail ==
    [kind : {"record"}, id : 1 .. MaxRecords, key : BOOLEAN, payload : BOOLEAN]
        \cup [kind : AskKinds, from : Handles] \cup [kind : {"shutdown"}]

ActorSet == [running : BOOLEAN, latest_seq : Nat, latest : Nat, gop_size : Nat, since_key : Nat, total : Nat]

CallerSet == [awaits : AskKinds \cup {"nothing"}, told : 0 .. MaxRecords, answer : 0 .. MaxRecords]

IsAsk(i, h) == mailbox[i].kind \in AskKinds /\ mailbox[i].from = h

MailOK ==
    /\ mailbox \in Seq(Mail) /\ Len(mailbox) <= MailboxCapacity
    /\ actor \in ActorSet
    /\ caller \in [Handles -> CallerSet]
    /\ recorded \in 0 .. MaxRecords

\* What the actor counts and remembers is of frames recorded before those that
\* are still in the mailbox, in whose order they were recorded.
RecordsOrdered ==
    /\ actor.since_key <= actor.total /\ actor.gop_size <= actor.total
    /\ actor.latest <= actor.latest_seq
    /\ actor.total <= recorded /\ actor.latest_seq <= recorded
    /\ \A h \in Handles : caller[h].told <= recorded /\ caller[h].answer <= recorded
    /\ \A i \in 1 .. Len(mailbox) : mailbox[i].kind = "record" =>
           /\ actor.total < mailbox[i].id /\ actor.latest_seq < mailbox[i].id
           /\ mailbox[i].id <= recorded
           /\ \A j \in 1 .. Len(mailbox) :
                  mailbox[j].kind = "record" /\ i < j => mailbox[i].id < mailbox[j].id

\* A caller that awaits an answer has one request in the mailbox; another has
\* none.
AsksAwaited ==
    /\ \A h \in Handles : caller[h].awaits # "nothing" =>
           \E i \in 1 .. Len(mailbox) : mailbox[i].kind = caller[h].awaits /\ mailbox[i].from = h
    /\ \A h \in Handles : \A i \in 1 .. Len(mailbox) : IsAsk(i, h) =>
           /\ mailbox[i].kind = caller[h].awaits
           /\ \A j \in 1 .. Len(mailbox) : IsAsk(j, h) => i = j

\* The keyframe a caller told the actor is ahead of its request.
ToldAhead ==
    actor.running => \A h \in Handles :
        \/ caller[h].told <= actor.latest
        \/ \E i \in 1 .. Len(mailbox) :
               /\ mailbox[i].kind = "record" /\ mailbox[i].key /\ mailbox[i].payload
               /\ mailbox[i].id = caller[h].told
               /\ \A j \in 1 .. Len(mailbox) : IsAsk(j, h) => i < j

\* An actor that ended leaves nobody waiting.
EndedOK == ~actor.running => mailbox = <<>> /\ \A h \in Handles : caller[h].awaits = "nothing"

ActorInv == MailOK /\ RecordsOrdered /\ AsksAwaited /\ ToldAhead /\ EndedOK

LEMMA ActorInvInit == ActorInit => ActorInv
<1> SUFFICES ASSUME ActorInit PROVE ActorInv
  OBVIOUS
<1>1. mailbox \in Seq(Mail) /\ Len(mailbox) = 0 /\ actor.running
  BY DEF ActorInit
<1>2. MailOK
  BY <1>1, ActorAssumption DEF ActorInit, MailOK, ActorSet, CallerSet, AskKinds
<1>3. RecordsOrdered
  BY <1>1 DEF ActorInit, RecordsOrdered
<1>4. AsksAwaited /\ ToldAhead /\ EndedOK
  BY <1>1 DEF ActorInit, AsksAwaited, ToldAhead, EndedOK
<1> QED
  BY <1>2, <1>3, <1>4 DEF ActorInv

\* The mailbox with one message more, and with its first one taken out.
LEMMA MailSent ==
    ASSUME ActorInv, NEW m \in Mail, Len(mailbox) < MailboxCapacity, mailbox' = Append(mailbox, m)
    PROVE  /\ mailbox' \in Seq(Mail) /\ Len(mailbox) \in Nat /\ Len(mailbox') = Len(mailbox) + 1
           /\ Len(mailbox') <= MailboxCapacity
           /\ mailbox'[Len(mailbox) + 1] = m
           /\ \A i \in 1 .. Len(mailbox) : mailbox'[i] = mailbox[i]
           /\ \A i \in 1 .. Len(mailbox') : i # Len(mailbox) + 1 => i \in 1 .. Len(mailbox)
BY ActorAssumption DEF ActorInv, MailOK

LEMMA MailTaken ==
    ASSUME ActorInv, mailbox # <<>>, mailbox' = Tail(mailbox)
    PROVE  /\ mailbox' \in Seq(Mail) /\ Len(mailbox) \in Nat /\ Len(mailbox') = Len(mailbox) - 1
           /\ Len(mailbox') <= MailboxCapacity
           /\ 1 \in 1 .. Len(mailbox) /\ Head(mailbox) = mailbox[1] /\ mailbox[1] \in Mail
           /\ \A i \in 1 .. Len(mailbox') : i + 1 \in 1 .. Len(mailbox) /\ mailbox'[i] = mailbox[i + 1]
           /\ \A i \in 1 .. Len(mailbox) : i # 1 => i - 1 \in 1 .. Len(mailbox') /\ mailbox'[i - 1] = mailbox[i]
<1>1. mailbox \in Seq(Mail) /\ Len(mailbox) <= MailboxCapacity
  BY DEF ActorInv, MailOK
<1> QED
  BY <1>1, ActorAssumption

\* Of the messages only those of a kind have its fields.
LEMMA MailFields ==
    ASSUME NEW m \in Mail
    PROVE  /\ m.kind = "record" => m.id \in 1 .. MaxRecords /\ m.key \in BOOLEAN /\ m.payload \in BOOLEAN
           /\ m.kind \in AskKinds => m.from \in Handles
           /\ m.kind \in AskKinds \cup {"record", "shutdown"}
BY DEF Mail, AskKinds

LEMMA RecordKeeps ==
    ASSUME ActorInv, NEW h \in Handles, RecordFrame(h)
    PROVE  ActorInv'
<1>0. MailOK /\ RecordsOrdered /\ AsksAwaited /\ ToldAhead /\ EndedOK
  BY DEF ActorInv
<1>1. caller[h].awaits = "nothing" /\ recorded < MaxRecords /\ recorded' = recorded + 1 /\ actor' = actor
  BY DEF RecordFrame
<1> DEFINE Rec(k, p) == [kind |-> "record", id |-> recorded + 1, key |-> k, payload |-> p]
<1>2. PICK key \in BOOLEAN, payload \in BOOLEAN :
          /\ Sent(Rec(key, payload))
          /\ caller' = IF key /\ payload /\ actor.running
                       THEN [caller EXCEPT ![h].told = recorded + 1] ELSE caller
  BY DEF RecordFrame
<1> DEFINE m == Rec(key, payload)
<1>3. recorded \in Nat /\ recorded + 1 \in 1 .. MaxRecords /\ recorded' \in 0 .. MaxRecords
  BY <1>0, <1>1, ActorAssumption DEF MailOK
<1>4. m \in Mail /\ m.kind = "record" /\ m.id = recorded + 1 /\ m.key = key /\ m.payload = payload
  BY <1>3 DEF Mail
<1> HIDE DEF m
<1>5. caller' \in [Handles -> CallerSet]
  <2>1. caller \in [Handles -> CallerSet] /\ recorded + 1 \in 0 .. MaxRecords
    BY <1>0, <1>3 DEF MailOK
  <2> DEFINE t == recorded + 1
             r == [caller[h] EXCEPT !.told = t]
  <2>2. [caller EXCEPT ![h].told = t] = [caller EXCEPT ![h] = r]
    BY <2>1
  <2> HIDE DEF t
  <2>3. r \in CallerSet
    BY <2>1 DEF CallerSet, t
  <2> HIDE DEF r
  <2> QED
    BY <1>2, <2>1, <2>2, <2>3 DEF t
<1>6. /\ \A g \in Handles : caller'[g].awaits = caller[g].awaits /\ caller'[g].answer = caller[g].answer
      /\ \A g \in Handles : g # h => caller'[g].told = caller[g].told
      /\ caller'[h].told = IF key /\ payload /\ actor.running THEN recorded + 1 ELSE caller[h].told
  BY <1>0, <1>2 DEF MailOK, CallerSet
<1>a. \A g \in Handles : caller'[g].told <= recorded' /\ caller'[g].answer <= recorded'
  <2>1. \A g \in Handles : caller[g].told <= recorded /\ caller[g].answer <= recorded
                           /\ caller[g].told \in Nat /\ caller[g].answer \in Nat
    BY <1>0, ActorAssumption DEF MailOK, RecordsOrdered, CallerSet
  <2> QED
    BY <1>1, <1>3, <1>6, <2>1
<1>b. actor \in ActorSet /\ actor.total <= recorded /\ actor.latest_seq <= recorded
  BY <1>0 DEF MailOK, RecordsOrdered
<1>7. CASE ~actor.running
  <2>1. mailbox' = mailbox /\ mailbox = <<>> /\ caller' = caller
    BY <1>0, <1>2, <1>7 DEF Sent, EndedOK
  <2>2. Len(mailbox) = 0
    BY <2>1
  <2>3. MailOK'
    BY <1>0, <1>1, <1>3, <2>1 DEF MailOK
  <2>4. RecordsOrdered'
    <3>1. actor.total <= recorded + 1 /\ actor.latest_seq <= recorded + 1
      BY <1>3, <1>b DEF ActorSet
    <3> QED
      BY <1>0, <1>1, <1>a, <2>1, <2>2, <3>1 DEF RecordsOrdered
  <2>5. AsksAwaited' /\ ToldAhead' /\ EndedOK'
    BY <1>0, <1>1, <1>7, <2>1 DEF AsksAwaited, ToldAhead, EndedOK, IsAsk
  <2> QED
    BY <2>3, <2>4, <2>5 DEF ActorInv
<1>8. CASE actor.running
  <2>1. mailbox' = Append(mailbox, m) /\ Len(mailbox) < MailboxCapacity
    BY <1>2, <1>8 DEF Sent, m
  <2>2. /\ mailbox' \in Seq(Mail) /\ Len(mailbox) \in Nat /\ Len(mailbox') = Len(mailbox) + 1
        /\ Len(mailbox') <= MailboxCapacity
        /\ mailbox'[Len(mailbox) + 1] = m
        /\ \A i \in 1 .. Len(mailbox) : mailbox'[i] = mailbox[i]
        /\ \A i \in 1 .. Len(mailbox') : i # Len(mailbox) + 1 => i \in 1 .. Len(mailbox)
    BY <1>4, <2>1, MailSent
  <2>3. MailOK'
    BY <1>0, <1>1, <1>3, <1>5, <2>2 DEF MailOK
  <2>4. RecordsOrdered'
    <3>1. actor.total < recorded + 1 /\ actor.latest_seq < recorded + 1
      BY <1>3, <1>b DEF ActorSet
    <3>2. ASSUME NEW i \in 1 .. Len(mailbox'), mailbox'[i].kind = "record"
          PROVE  /\ actor.total < mailbox'[i].id /\ actor.latest_seq < mailbox'[i].id
                 /\ mailbox'[i].id <= recorded'
                 /\ \A j \in 1 .. Len(mailbox') :
                        mailbox'[j].kind = "record" /\ i < j => mailbox'[i].id < mailbox'[j].id
      <4>1. CASE i = Len(mailbox) + 1
        <5>1. ~\E j \in 1 .. Len(mailbox') : i < j
          BY <2>2, <4>1
        <5> QED
          BY <1>1, <1>3, <1>4, <2>2, <3>1, <4>1, <5>1
      <4>2. CASE i # Len(mailbox) + 1
        <5>1. i \in 1 .. Len(mailbox) /\ mailbox'[i] = mailbox[i]
          BY <2>2, <4>2
        <5>2. /\ actor.total < mailbox[i].id /\ actor.latest_seq < mailbox[i].id /\ mailbox[i].id <= recorded
              /\ \A j \in 1 .. Len(mailbox) :
                     mailbox[j].kind = "record" /\ i < j => mailbox[i].id < mailbox[j].id
          BY <1>0, <3>2, <5>1 DEF RecordsOrdered
        <5>3. mailbox[i].id \in Nat
          <6>1. mailbox[i] \in Mail
            BY <1>0, <5>1 DEF MailOK
          <6> QED
            BY <3>2, <5>1, <6>1, MailFields
        <5>4. mailbox[i].id < recorded + 1 /\ mailbox[i].id <= recorded + 1
          BY <1>3, <5>2, <5>3
        <5>5. ASSUME NEW j \in 1 .. Len(mailbox'), mailbox'[j].kind = "record", i < j
              PROVE  mailbox'[i].id < mailbox'[j].id
          <6>1. CASE j = Len(mailbox) + 1
            BY <1>4, <2>2, <5>1, <5>4, <6>1
          <6>2. CASE j # Len(mailbox) + 1
            BY <2>2, <5>1, <5>2, <5>5, <6>2
          <6> QED
            BY <6>1, <6>2
        <5> QED
          BY <1>1, <5>1, <5>2, <5>4, <5>5
      <4> QED
        BY <4>1, <4>2
    <3>3. actor.total <= recorded' /\ actor.latest_seq <= recorded'
      BY <1>1, <1>3, <1>b DEF ActorSet
    <3>4. actor.since_key <= actor.total /\ actor.gop_size <= actor.total /\ actor.latest <= actor.latest_seq
      BY <1>0 DEF RecordsOrdered
    <3> QED
      BY <1>1, <1>a, <3>2, <3>3, <3>4 DEF RecordsOrdered
  <2>5. AsksAwaited'
    <3>1. \A g \in Handles : \A i \in 1 .. Len(mailbox') :
              IsAsk(i, g)' => i \in 1 .. Len(mailbox) /\ IsAsk(i, g) /\ mailbox'[i] = mailbox[i]
      BY <1>4, <2>2 DEF IsAsk, AskKinds
    <3>2. \A i \in 1 .. Len(mailbox) : i \in 1 .. Len(mailbox')
      BY <2>2
    <3> QED
      BY <1>0, <1>6, <2>2, <3>1, <3>2 DEF AsksAwaited
  <2>6. ToldAhead'
    <3> SUFFICES ASSUME NEW g \in Handles
                 PROVE  \/ caller'[g].told <= actor.latest
                        \/ \E i \in 1 .. Len(mailbox') :
                               /\ mailbox'[i].kind = "record" /\ mailbox'[i].key /\ mailbox'[i].payload
                               /\ mailbox'[i].id = caller'[g].told
                               /\ \A j \in 1 .. Len(mailbox') : IsAsk(j, g)' => i < j
      BY <1>1 DEF ToldAhead
    <3>1. \A i \in 1 .. Len(mailbox') : IsAsk(i, g)' => i \in 1 .. Len(mailbox) /\ IsAsk(i, g)
      BY <1>4, <2>2 DEF IsAsk, AskKinds
    <3>2. CASE g = h /\ key /\ payload
      <4>1. caller'[h].told = recorded + 1
        BY <1>6, <1>8, <3>2
      <4>2. \A j \in 1 .. Len(mailbox) : ~IsAsk(j, h)
        BY <1>0, <1>1 DEF AsksAwaited, IsAsk, AskKinds
      <4>3. Len(mailbox) + 1 \in 1 .. Len(mailbox')
        BY <2>2
      <4> QED
        BY <1>4, <2>2, <3>1, <3>2, <4>1, <4>2, <4>3
    <3>3. CASE ~(g = h /\ key /\ payload)
      <4>1. caller'[g].told = caller[g].told
        BY <1>6, <3>3
      <4>2. CASE caller[g].told <= actor.latest
        BY <4>1, <4>2
      <4>3. ASSUME NEW i \in 1 .. Len(mailbox), mailbox[i].kind = "record", mailbox[i].key, mailbox[i].payload,
                   mailbox[i].id = caller[g].told, \A j \in 1 .. Len(mailbox) : IsAsk(j, g) => i < j
            PROVE  \E k \in 1 .. Len(mailbox') :
                       /\ mailbox'[k].kind = "record" /\ mailbox'[k].key /\ mailbox'[k].payload
                       /\ mailbox'[k].id = caller'[g].told
                       /\ \A j \in 1 .. Len(mailbox') : IsAsk(j, g)' => k < j
        <5>1. i \in 1 .. Len(mailbox') /\ mailbox'[i] = mailbox[i]
          BY <2>2
        <5> QED
          BY <3>1, <4>1, <4>3, <5>1
      <4> QED
        BY <1>0, <1>8, <4>2, <4>3 DEF ToldAhead
    <3> QED
      BY <3>2, <3>3
  <2>7. EndedOK'
    BY <1>1, <1>8 DEF EndedOK
  <2> QED
    BY <2>3, <2>4, <2>5, <2>6, <2>7 DEF ActorInv
<1> QED
  BY <1>7, <1>8

\* A message without a frame in it is no news to what was recorded and told.
LEMMA SendKeeps ==
    ASSUME ActorInv, NEW m \in Mail, m.kind # "record", Sent(m), actor.running,
           NEW h \in Handles, caller[h].awaits = "nothing",
           m.kind \in AskKinds => m.from = h,
           UNCHANGED <<actor, recorded>>,
           caller' = IF m.kind \in AskKinds THEN [caller EXCEPT ![h].awaits = m.kind] ELSE caller
    PROVE  ActorInv'
<1>0. MailOK /\ RecordsOrdered /\ AsksAwaited /\ ToldAhead /\ EndedOK
  BY DEF ActorInv
<1>1. mailbox' = Append(mailbox, m) /\ Len(mailbox) < MailboxCapacity
  BY DEF Sent
<1>2. /\ mailbox' \in Seq(Mail) /\ Len(mailbox) \in Nat /\ Len(mailbox') = Len(mailbox) + 1
      /\ Len(mailbox') <= MailboxCapacity
      /\ mailbox'[Len(mailbox) + 1] = m
      /\ \A i \in 1 .. Len(mailbox) : mailbox'[i] = mailbox[i]
      /\ \A i \in 1 .. Len(mailbox') : i # Len(mailbox) + 1 => i \in 1 .. Len(mailbox)
  BY <1>1, MailSent
<1>3. caller' \in [Handles -> CallerSet]
  BY <1>0 DEF MailOK, CallerSet, AskKinds
<1>4. /\ \A g \in Handles : caller'[g].told = caller[g].told /\ caller'[g].answer = caller[g].answer
      /\ \A g \in Handles : g # h => caller'[g].awaits = caller[g].awaits
      /\ caller'[h].awaits = IF m.kind \in AskKinds THEN m.kind ELSE caller[h].awaits
  BY <1>0 DEF MailOK, CallerSet
<1>5. MailOK'
  BY <1>0, <1>2, <1>3 DEF MailOK
<1>a. \A i \in 1 .. Len(mailbox') : mailbox'[i].kind = "record" =>
          i \in 1 .. Len(mailbox) /\ mailbox'[i] = mailbox[i]
  BY <1>2
<1>6. RecordsOrdered'
  BY <1>0, <1>4, <1>a DEF RecordsOrdered
<1>b. \A j \in 1 .. Len(mailbox) : ~IsAsk(j, h)
  BY <1>0 DEF AsksAwaited, IsAsk, AskKinds
<1>c. \A g \in Handles : \A i \in 1 .. Len(mailbox') :
          IsAsk(i, g)' => \/ i \in 1 .. Len(mailbox) /\ IsAsk(i, g) /\ mailbox'[i] = mailbox[i] /\ g # h
                          \/ i = Len(mailbox) + 1 /\ g = h /\ m.kind \in AskKinds
  BY <1>2, <1>b DEF IsAsk
<1>7. AsksAwaited'
  <2>1. ASSUME NEW g \in Handles, caller'[g].awaits # "nothing"
        PROVE  \E i \in 1 .. Len(mailbox') : mailbox'[i].kind = caller'[g].awaits /\ mailbox'[i].from = g
    <3>1. CASE g = h
      <4>1. Len(mailbox) + 1 \in 1 .. Len(mailbox')
        BY <1>2
      <4> QED
        BY <1>2, <1>4, <2>1, <3>1, <4>1
    <3>2. CASE g # h
      <4>1. PICK i \in 1 .. Len(mailbox) : mailbox[i].kind = caller[g].awaits /\ mailbox[i].from = g
        BY <1>0, <1>4, <2>1, <3>2 DEF AsksAwaited
      <4>2. i \in 1 .. Len(mailbox') /\ mailbox'[i] = mailbox[i]
        BY <1>2
      <4> QED
        BY <1>4, <3>2, <4>1, <4>2
    <3> QED
      BY <3>1, <3>2
  <2>2. ASSUME NEW g \in Handles, NEW i \in 1 .. Len(mailbox'), IsAsk(i, g)'
        PROVE  /\ mailbox'[i].kind = caller'[g].awaits
               /\ \A j \in 1 .. Len(mailbox') : IsAsk(j, g)' => i = j
    <3>1. CASE g = h
      BY <1>2, <1>4, <1>c, <2>2, <3>1
    <3>2. CASE g # h
      BY <1>0, <1>4, <1>c, <2>2, <3>2 DEF AsksAwaited
    <3> QED
      BY <3>1, <3>2
  <2> QED
    BY <2>1, <2>2 DEF AsksAwaited
<1>8. ToldAhead'
  <2> SUFFICES ASSUME NEW g \in Handles
               PROVE  \/ caller'[g].told <= actor.latest
                      \/ \E i \in 1 .. Len(mailbox') :
                             /\ mailbox'[i].kind = "record" /\ mailbox'[i].key /\ mailbox'[i].payload
                             /\ mailbox'[i].id = caller'[g].told
                             /\ \A j \in 1 .. Len(mailbox') : IsAsk(j, g)' => i < j
    BY DEF ToldAhead
  <2>1. CASE caller[g].told <= actor.latest
    BY <1>4, <2>1
  <2>2. ASSUME NEW i \in 1 .. Len(mailbox), mailbox[i].kind = "record", mailbox[i].key, mailbox[i].payload,
               mailbox[i].id = caller[g].told, \A j \in 1 .. Len(mailbox) : IsAsk(j, g) => i < j
        PROVE  \E k \in 1 .. Len(mailbox') :
                   /\ mailbox'[k].kind = "record" /\ mailbox'[k].key /\ mailbox'[k].payload
                   /\ mailbox'[k].id = caller'[g].told
                   /\ \A j \in 1 .. Len(mailbox') : IsAsk(j, g)' => k < j
    <3>1. i \in 1 .. Len(mailbox') /\ mailbox'[i] = mailbox[i] /\ i < Len(mailbox) + 1
      BY <1>2
    <3>2. ASSUME NEW j \in 1 .. Len(mailbox'), IsAsk(j, g)' PROVE i < j
      BY <1>c, <2>2, <3>1, <3>2
    <3> QED
      BY <1>4, <2>2, <3>1, <3>2
  <2> QED
    BY <1>0, <2>1, <2>2 DEF ToldAhead
<1>9. EndedOK'
  BY DEF EndedOK
<1> QED
  BY <1>5, <1>6, <1>7, <1>8, <1>9 DEF ActorInv

LEMMA HandleRecordKeeps ==
    ASSUME ActorInv, HandleRecord
    PROVE  ActorInv'
<1> DEFINE m == mailbox[1]
<1>0. MailOK /\ RecordsOrdered /\ AsksAwaited /\ ToldAhead /\ EndedOK
  BY DEF ActorInv
<1>1. /\ actor.running /\ mailbox # <<>> /\ mailbox' = Tail(mailbox) /\ UNCHANGED <<recorded, caller>>
      /\ m.kind = "record" /\ actor' = Recording(actor, m)
  <2>1. Head(mailbox) = m
    BY <1>0 DEF MailOK, HandleRecord
  <2> QED
    BY <2>1 DEF HandleRecord
<1>2. /\ mailbox' \in Seq(Mail) /\ Len(mailbox) \in Nat /\ Len(mailbox') = Len(mailbox) - 1
      /\ Len(mailbox') <= MailboxCapacity
      /\ 1 \in 1 .. Len(mailbox) /\ m \in Mail
      /\ \A i \in 1 .. Len(mailbox') : i + 1 \in 1 .. Len(mailbox) /\ mailbox'[i] = mailbox[i + 1]
      /\ \A i \in 1 .. Len(mailbox) : i # 1 => i - 1 \in 1 .. Len(mailbox') /\ mailbox'[i - 1] = mailbox[i]
  BY <1>1, MailTaken
<1>3. m.id \in 1 .. MaxRecords /\ m.id \in Nat /\ m.key \in BOOLEAN /\ m.payload \in BOOLEAN
  BY <1>1, <1>2, MailFields
<1>4. /\ actor.total < m.id /\ actor.latest_seq < m.id /\ m.id <= recorded
      /\ \A j \in 1 .. Len(mailbox) : mailbox[j].kind = "record" /\ 1 < j => m.id < mailbox[j].id
  BY <1>0, <1>1, <1>2 DEF RecordsOrdered
<1>5. actor \in ActorSet /\ recorded \in Nat
  BY <1>0 DEF MailOK
<1> HIDE DEF m
<1>6. /\ actor' \in ActorSet /\ actor'.running = actor.running /\ actor'.total = actor.total + 1
      /\ actor'.gop_size = (IF m.key /\ actor.latest_seq > 0 THEN actor.since_key ELSE actor.gop_size)
      /\ actor'.latest_seq = (IF m.key THEN m.id ELSE actor.latest_seq)
      /\ actor'.latest = (IF m.key /\ m.payload THEN m.id ELSE actor.latest)
      /\ actor'.since_key = (IF m.key THEN 1 ELSE actor.since_key + 1)
  <2> DEFINE t == actor.total + 1
             g == IF m.key /\ actor.latest_seq > 0 THEN actor.since_key ELSE actor.gop_size
             q == IF m.key THEN m.id ELSE actor.latest_seq
             l == IF m.key /\ m.payload THEN m.id ELSE actor.latest
             k == IF m.key THEN 1 ELSE actor.since_key + 1
  <2>1. t \in Nat /\ g \in Nat /\ q \in Nat /\ l \in Nat /\ k \in Nat
    BY <1>3, <1>5 DEF ActorSet
  <2>2. actor' = [actor EXCEPT !.total = t, !.gop_size = g, !.latest_seq = q, !.latest = l, !.since_key = k]
    BY <1>1, <1>5 DEF Recording, ActorSet
  <2> HIDE DEF t, g, q, l, k
  <2>3. /\ actor' \in ActorSet /\ actor'.running = actor.running /\ actor'.total = t
        /\ actor'.gop_size = g /\ actor'.latest_seq = q /\ actor'.latest = l /\ actor'.since_key = k
    BY <1>5, <2>1, <2>2 DEF ActorSet
  <2> QED
    BY <2>3 DEF t, g, q, l, k
<1>7. MailOK'
  BY <1>0, <1>1, <1>2, <1>6 DEF MailOK
<1>8. RecordsOrdered'
  <2>1. /\ actor.since_key <= actor.total /\ actor.gop_size <= actor.total /\ actor.latest <= actor.latest_seq
        /\ actor.total <= recorded /\ actor.latest_seq <= recorded
    BY <1>0 DEF RecordsOrdered
  <2>2. /\ actor.total \in Nat /\ actor.latest_seq \in Nat /\ actor.latest \in Nat /\ actor.since_key \in Nat
        /\ actor.gop_size \in Nat
    BY <1>5 DEF ActorSet
  <2>3. /\ actor'.since_key <= actor'.total /\ actor'.gop_size <= actor'.total
        /\ actor'.latest <= actor'.latest_seq
        /\ actor'.total <= recorded /\ actor'.latest_seq <= recorded
        /\ actor'.total <= m.id /\ actor'.latest_seq <= m.id
    BY <1>3, <1>4, <1>5, <1>6, <2>1, <2>2
  <2>4. ASSUME NEW i \in 1 .. Len(mailbox'), mailbox'[i].kind = "record"
        PROVE  /\ actor'.total < mailbox'[i].id /\ actor'.latest_seq < mailbox'[i].id
               /\ mailbox'[i].id <= recorded
               /\ \A j \in 1 .. Len(mailbox') :
                      mailbox'[j].kind = "record" /\ i < j => mailbox'[i].id < mailbox'[j].id
    <3>1. i + 1 \in 1 .. Len(mailbox) /\ 1 < i + 1 /\ mailbox'[i] = mailbox[i + 1]
      BY <1>2
    <3>2. m.id < mailbox'[i].id
      BY <1>4, <2>4, <3>1
    <3>3. mailbox'[i].id \in Nat
      <4>1. mailbox'[i] \in Mail
        BY <1>2
      <4> QED
        BY <2>4, <4>1, MailFields
    <3>4. actor'.total \in Nat /\ actor'.latest_seq \in Nat
      BY <1>6 DEF ActorSet
    <3>5. actor'.total < mailbox'[i].id /\ actor'.latest_seq < mailbox'[i].id
      BY <1>3, <2>3, <3>2, <3>3, <3>4
    <3>6. ASSUME NEW j \in 1 .. Len(mailbox'), mailbox'[j].kind = "record", i < j
          PROVE  mailbox'[i].id < mailbox'[j].id
      <4>1. j + 1 \in 1 .. Len(mailbox) /\ mailbox'[j] = mailbox[j + 1] /\ i + 1 < j + 1
        BY <1>2, <3>6
      <4> QED
        BY <1>0, <2>4, <3>1, <3>6, <4>1 DEF RecordsOrdered
    <3>7. mailbox'[i].id <= recorded
      BY <1>0, <2>4, <3>1 DEF RecordsOrdered
    <3> QED
      BY <3>5, <3>6, <3>7
  <2> QED
    BY <1>0, <1>1, <2>3, <2>4 DEF RecordsOrdered
<1>9. \A g \in Handles : \A i \in 1 .. Len(mailbox') : IsAsk(i, g)' <=> IsAsk(i + 1, g)
  BY <1>2 DEF IsAsk
<1>10. AsksAwaited'
  <2>1. ASSUME NEW g \in Handles, caller[g].awaits # "nothing"
        PROVE  \E i \in 1 .. Len(mailbox') : mailbox'[i].kind = caller[g].awaits /\ mailbox'[i].from = g
    <3>1. PICK i \in 1 .. Len(mailbox) : mailbox[i].kind = caller[g].awaits /\ mailbox[i].from = g
      BY <1>0, <2>1 DEF AsksAwaited
    <3>2. caller[g].awaits # "record"
      BY <1>0 DEF MailOK, CallerSet, AskKinds
    <3>3. i # 1
      BY <1>1, <3>1, <3>2 DEF m
    <3>4. i - 1 \in 1 .. Len(mailbox') /\ mailbox'[i - 1] = mailbox[i]
      BY <1>2, <3>3
    <3> QED
      BY <3>1, <3>4
  <2>2. ASSUME NEW g \in Handles, NEW i \in 1 .. Len(mailbox'), IsAsk(i, g)'
        PROVE  /\ mailbox'[i].kind = caller[g].awaits
               /\ \A j \in 1 .. Len(mailbox') : IsAsk(j, g)' => i = j
    <3>1. i + 1 \in 1 .. Len(mailbox) /\ IsAsk(i + 1, g) /\ mailbox'[i] = mailbox[i + 1]
      BY <1>2, <1>9, <2>2
    <3>2. mailbox[i + 1].kind = caller[g].awaits /\ \A j \in 1 .. Len(mailbox) : IsAsk(j, g) => i + 1 = j
      BY <1>0, <3>1 DEF AsksAwaited
    <3>3. ASSUME NEW j \in 1 .. Len(mailbox'), IsAsk(j, g)' PROVE i = j
      <4>1. j + 1 \in 1 .. Len(mailbox) /\ IsAsk(j + 1, g)
        BY <1>2, <1>9, <3>3
      <4>2. i + 1 = j + 1
        BY <3>2, <4>1
      <4> QED
        BY <4>2
    <3> QED
      BY <3>1, <3>2, <3>3
  <2> QED
    BY <1>1, <2>1, <2>2 DEF AsksAwaited
<1>11. ToldAhead'
  <2> SUFFICES ASSUME NEW g \in Handles
               PROVE  \/ caller[g].told <= actor'.latest
                      \/ \E i \in 1 .. Len(mailbox') :
                             /\ mailbox'[i].kind = "record" /\ mailbox'[i].key /\ mailbox'[i].payload
                             /\ mailbox'[i].id = caller[g].told
                             /\ \A j \in 1 .. Len(mailbox') : IsAsk(j, g)' => i < j
    BY <1>1 DEF ToldAhead
  <2>1. CASE caller[g].told <= actor.latest
    <3>1. actor.latest \in Nat /\ actor.latest <= actor.latest_seq /\ actor.latest_seq \in Nat
          /\ caller[g].told \in Nat
      BY <1>0, <1>5 DEF ActorSet, RecordsOrdered, MailOK, CallerSet
    <3>2. actor.latest <= m.id
      BY <1>3, <1>4, <3>1
    <3> QED
      BY <1>3, <1>6, <2>1, <3>1, <3>2
  <2>2. ASSUME NEW i \in 1 .. Len(mailbox), mailbox[i].kind = "record", mailbox[i].key, mailbox[i].payload,
               mailbox[i].id = caller[g].told, \A j \in 1 .. Len(mailbox) : IsAsk(j, g) => i < j
        PROVE  \/ caller[g].told <= actor'.latest
               \/ \E k \in 1 .. Len(mailbox') :
                   /\ mailbox'[k].kind = "record" /\ mailbox'[k].key /\ mailbox'[k].payload
                   /\ mailbox'[k].id = caller[g].told
                   /\ \A j \in 1 .. Len(mailbox') : IsAsk(j, g)' => k < j
    <3>1. CASE i = 1
      BY <1>3, <1>6, <2>2, <3>1 DEF m
    <3>2. CASE i # 1
      <4>1. i - 1 \in 1 .. Len(mailbox') /\ mailbox'[i - 1] = mailbox[i]
        BY <1>2, <3>2
      <4>2. ASSUME NEW j \in 1 .. Len(mailbox'), IsAsk(j, g)' PROVE i - 1 < j
        <5>1. j + 1 \in 1 .. Len(mailbox) /\ IsAsk(j + 1, g)
          BY <1>2, <1>9, <4>2
        <5>2. i < j + 1
          BY <2>2, <5>1
        <5> QED
          BY <5>2
      <4> QED
        BY <2>2, <4>1, <4>2
    <3> QED
      BY <3>1, <3>2
  <2> QED
    BY <1>0, <1>1, <2>1, <2>2 DEF ToldAhead
<1>12. EndedOK'
  BY <1>1, <1>6 DEF EndedOK
<1> QED
  BY <1>7, <1>8, <1>10, <1>11, <1>12 DEF ActorInv

\* The answer to a request holds the keyframe its caller told, or a newer one.
LEMMA HandleAskKeeps ==
    ASSUME ActorInv, HandleAsk
    PROVE  /\ ActorInv'
           /\ \A h \in Handles : caller[h].awaits # "nothing" /\ caller'[h].awaits = "nothing"
                  => caller'[h].answer >= caller'[h].told
<1> DEFINE m == mailbox[1]
           reply == IF m.kind = "keyframe" THEN actor.latest ELSE actor.latest_seq
<1>0. MailOK /\ RecordsOrdered /\ AsksAwaited /\ ToldAhead /\ EndedOK
  BY DEF ActorInv
<1>1. /\ actor.running /\ mailbox # <<>> /\ mailbox' = Tail(mailbox) /\ UNCHANGED <<recorded, actor>>
      /\ m.kind \in AskKinds
      /\ caller' = [caller EXCEPT ![m.from].awaits = "nothing", ![m.from].answer = reply]
  <2>1. Head(mailbox) = m
    BY <1>0 DEF MailOK, HandleAsk
  <2> QED
    BY <2>1 DEF HandleAsk, AskKinds
<1>2. /\ mailbox' \in Seq(Mail) /\ Len(mailbox) \in Nat /\ Len(mailbox') = Len(mailbox) - 1
      /\ Len(mailbox') <= MailboxCapacity
      /\ 1 \in 1 .. Len(mailbox) /\ m \in Mail
      /\ \A i \in 1 .. Len(mailbox') : i + 1 \in 1 .. Len(mailbox) /\ mailbox'[i] = mailbox[i + 1]
      /\ \A i \in 1 .. Len(mailbox) : i # 1 => i - 1 \in 1 .. Len(mailbox') /\ mailbox'[i - 1] = mailbox[i]
  BY <1>1, MailTaken
<1>3. m.from \in Handles /\ IsAsk(1, m.from) /\ m.kind # "record"
  BY <1>1, <1>2, MailFields DEF IsAsk, AskKinds
<1>4. actor \in ActorSet /\ recorded \in 0 .. MaxRecords
  BY <1>0 DEF MailOK
<1>5. reply \in 0 .. MaxRecords /\ reply >= actor.latest /\ actor.latest \in Nat /\ reply <= recorded
  <2>1. /\ actor.latest \in Nat /\ actor.latest_seq \in Nat /\ actor.latest <= actor.latest_seq
        /\ actor.latest_seq <= recorded
    BY <1>0, <1>4 DEF ActorSet, RecordsOrdered
  <2> QED
    BY <1>4, <2>1, ActorAssumption
<1> HIDE DEF m, reply
<1>6. caller' \in [Handles -> CallerSet]
  BY <1>0, <1>1, <1>3, <1>5 DEF MailOK, CallerSet
<1>7. /\ caller'[m.from].awaits = "nothing" /\ caller'[m.from].answer = reply
      /\ \A g \in Handles : caller'[g].told = caller[g].told
      /\ \A g \in Handles : g # m.from => caller'[g] = caller[g]
  BY <1>0, <1>1, <1>3 DEF MailOK, CallerSet
<1>8. MailOK'
  BY <1>0, <1>1, <1>2, <1>6 DEF MailOK
<1>a. \A i \in 1 .. Len(mailbox') : i + 1 \in 1 .. Len(mailbox) /\ mailbox'[i] = mailbox[i + 1]
  BY <1>2
<1>9. RecordsOrdered'
  <2>1. \A g \in Handles : caller'[g].told <= recorded /\ caller'[g].answer <= recorded
    BY <1>0, <1>5, <1>7 DEF RecordsOrdered
  <2>2. ASSUME NEW i \in 1 .. Len(mailbox'), mailbox'[i].kind = "record"
        PROVE  /\ actor.total < mailbox'[i].id /\ actor.latest_seq < mailbox'[i].id
               /\ mailbox'[i].id <= recorded
               /\ \A j \in 1 .. Len(mailbox') :
                      mailbox'[j].kind = "record" /\ i < j => mailbox'[i].id < mailbox'[j].id
    <3>1. i + 1 \in 1 .. Len(mailbox) /\ mailbox'[i] = mailbox[i + 1]
      BY <1>a
    <3>2. ASSUME NEW j \in 1 .. Len(mailbox'), mailbox'[j].kind = "record", i < j
          PROVE  mailbox'[i].id < mailbox'[j].id
      <4>1. j + 1 \in 1 .. Len(mailbox) /\ mailbox'[j] = mailbox[j + 1] /\ i + 1 < j + 1
        BY <1>a, <3>2
      <4> QED
        BY <1>0, <2>2, <3>1, <3>2, <4>1 DEF RecordsOrdered
    <3> QED
      BY <1>0, <2>2, <3>1, <3>2 DEF RecordsOrdered
  <2> QED
    BY <1>0, <1>1, <2>1, <2>2 DEF RecordsOrdered
<1>10. \A g \in Handles : \A i \in 1 .. Len(mailbox') : IsAsk(i, g)' <=> IsAsk(i + 1, g)
  BY <1>a DEF IsAsk
<1>b. \A i \in 1 .. Len(mailbox) : IsAsk(i, m.from) => i = 1
  BY <1>0, <1>2, <1>3 DEF AsksAwaited
<1>c. ASSUME NEW g \in Handles, g = m.from, NEW i \in 1 .. Len(mailbox'), IsAsk(i, g)' PROVE FALSE
  <2>1. IsAsk(i + 1, m.from) /\ i + 1 \in 1 .. Len(mailbox)
    BY <1>a, <1>c, <1>10
  <2>2. i + 1 = 1
    BY <1>b, <2>1
  <2> QED
    BY <2>2
<1>11. AsksAwaited'
  <2>1. ASSUME NEW g \in Handles, caller'[g].awaits # "nothing"
        PROVE  \E i \in 1 .. Len(mailbox') : mailbox'[i].kind = caller'[g].awaits /\ mailbox'[i].from = g
    <3>0. g # m.from /\ caller'[g] = caller[g]
      BY <1>7, <2>1
    <3>1. PICK i \in 1 .. Len(mailbox) : mailbox[i].kind = caller[g].awaits /\ mailbox[i].from = g
      BY <1>0, <2>1, <3>0 DEF AsksAwaited
    <3>3. i # 1
      BY <3>0, <3>1 DEF m
    <3>4. i - 1 \in 1 .. Len(mailbox') /\ mailbox'[i - 1] = mailbox[i]
      BY <1>2, <3>3
    <3> QED
      BY <3>0, <3>1, <3>4
  <2>2. ASSUME NEW g \in Handles, NEW i \in 1 .. Len(mailbox'), IsAsk(i, g)'
        PROVE  /\ mailbox'[i].kind = caller'[g].awaits
               /\ \A j \in 1 .. Len(mailbox') : IsAsk(j, g)' => i = j
    <3>0. g # m.from /\ caller'[g] = caller[g]
      BY <1>7, <1>c, <2>2
    <3>1. i + 1 \in 1 .. Len(mailbox) /\ IsAsk(i + 1, g) /\ mailbox'[i] = mailbox[i + 1]
      BY <1>a, <1>10, <2>2
    <3>2. mailbox[i + 1].kind = caller[g].awaits /\ \A j \in 1 .. Len(mailbox) : IsAsk(j, g) => i + 1 = j
      BY <1>0, <3>1 DEF AsksAwaited
    <3>3. ASSUME NEW j \in 1 .. Len(mailbox'), IsAsk(j, g)' PROVE i = j
      <4>1. j + 1 \in 1 .. Len(mailbox) /\ IsAsk(j + 1, g)
        BY <1>a, <1>10, <3>3
      <4>2. i + 1 = j + 1
        BY <3>2, <4>1
      <4> QED
        BY <4>2
    <3> QED
      BY <3>0, <3>1, <3>2, <3>3
  <2> QED
    BY <2>1, <2>2 DEF AsksAwaited
<1>12. ToldAhead'
  <2> SUFFICES ASSUME NEW g \in Handles
               PROVE  \/ caller[g].told <= actor.latest
                      \/ \E i \in 1 .. Len(mailbox') :
                             /\ mailbox'[i].kind = "record" /\ mailbox'[i].key /\ mailbox'[i].payload
                             /\ mailbox'[i].id = caller[g].told
                             /\ \A j \in 1 .. Len(mailbox') : IsAsk(j, g)' => i < j
    BY <1>1, <1>7 DEF ToldAhead
  <2>2. ASSUME NEW i \in 1 .. Len(mailbox), mailbox[i].kind = "record", mailbox[i].key, mailbox[i].payload,
               mailbox[i].id = caller[g].told, \A j \in 1 .. Len(mailbox) : IsAsk(j, g) => i < j
        PROVE  \E k \in 1 .. Len(mailbox') :
                   /\ mailbox'[k].kind = "record" /\ mailbox'[k].key /\ mailbox'[k].payload
                   /\ mailbox'[k].id = caller[g].told
                   /\ \A j \in 1 .. Len(mailbox') : IsAsk(j, g)' => k < j
    <3>1. i # 1
      BY <1>3, <2>2 DEF m
    <3>2. i - 1 \in 1 .. Len(mailbox') /\ mailbox'[i - 1] = mailbox[i]
      BY <1>2, <3>1
    <3>3. ASSUME NEW j \in 1 .. Len(mailbox'), IsAsk(j, g)' PROVE i - 1 < j
      <4>1. j + 1 \in 1 .. Len(mailbox) /\ IsAsk(j + 1, g)
        BY <1>a, <1>10, <3>3
      <4>2. i < j + 1
        BY <2>2, <4>1
      <4> QED
        BY <4>2
    <3> QED
      BY <2>2, <3>2, <3>3
  <2> QED
    BY <1>0, <1>1, <2>2 DEF ToldAhead
<1>13. EndedOK'
  BY <1>1 DEF EndedOK
<1>14. ASSUME NEW h \in Handles, caller[h].awaits # "nothing", caller'[h].awaits = "nothing"
       PROVE  caller'[h].answer >= caller'[h].told
  <2>1. h = m.from
    BY <1>7, <1>14
  <2>2. caller[h].told <= actor.latest
    <3>1. ~\E i \in 1 .. Len(mailbox) : \A j \in 1 .. Len(mailbox) : IsAsk(j, h) => i < j
      BY <1>2, <1>3, <2>1
    <3> QED
      BY <1>0, <1>1, <3>1 DEF ToldAhead
  <2>3. caller[h].told \in Nat /\ reply \in Nat
    BY <1>0, <1>5 DEF MailOK, CallerSet
  <2> QED
    BY <1>5, <1>7, <2>1, <2>2, <2>3
<1> QED
  BY <1>8, <1>9, <1>11, <1>12, <1>13, <1>14 DEF ActorInv

LEMMA ShutdownKeeps ==
    ASSUME ActorInv, HandleShutdown
    PROVE  ActorInv' /\ ~actor'.running
<1>0. MailOK /\ RecordsOrdered
  BY DEF ActorInv
<1>1. /\ mailbox' = <<>> /\ Len(mailbox') = 0 /\ actor' = [actor EXCEPT !.running = FALSE] /\ recorded' = recorded
      /\ caller' = [h \in Handles |-> [caller[h] EXCEPT !.awaits = "nothing"]]
  BY DEF HandleShutdown
<1>2. /\ actor' \in ActorSet /\ ~actor'.running /\ actor'.total = actor.total
      /\ actor'.gop_size = actor.gop_size /\ actor'.latest_seq = actor.latest_seq
      /\ actor'.latest = actor.latest /\ actor'.since_key = actor.since_key
  BY <1>0, <1>1 DEF MailOK, ActorSet
<1>3. caller' \in [Handles -> CallerSet]
  BY <1>0, <1>1 DEF MailOK, CallerSet
<1>4. \A h \in Handles : caller'[h].awaits = "nothing" /\ caller'[h].told = caller[h].told
                         /\ caller'[h].answer = caller[h].answer
  BY <1>0, <1>1 DEF MailOK, CallerSet
<1>5. MailOK'
  <2>1. mailbox' \in Seq(Mail) /\ Len(mailbox') <= MailboxCapacity
    BY <1>1, ActorAssumption
  <2> QED
    BY <1>0, <1>1, <1>2, <1>3, <2>1 DEF MailOK
<1>6. RecordsOrdered'
  BY <1>0, <1>1, <1>2, <1>4 DEF RecordsOrdered
<1> QED
  BY <1>1, <1>2, <1>4, <1>5, <1>6 DEF ActorInv, AsksAwaited, ToldAhead, EndedOK

\* A call to an actor that ended fails and leaves everything as it is.
LEMMA ActorStep ==
    ASSUME ActorInv, [ActorNext]_actorVars
    PROVE  /\ ActorInv'
           /\ \A h \in Handles :
                  caller[h].awaits # "nothing" /\ caller'[h].awaits = "nothing" /\ actor'.running
                      => caller'[h].answer >= caller'[h].told
<1>1. ASSUME NEW h \in Handles, RecordFrame(h)
      PROVE  ActorInv' /\ \A g \in Handles : caller'[g].awaits = caller[g].awaits
  <2>1. \A g \in Handles : caller'[g].awaits = caller[g].awaits
    BY <1>1 DEF RecordFrame, ActorInv, MailOK, CallerSet
  <2> QED
    BY <1>1, <2>1, RecordKeeps
<1>2. ASSUME NEW h \in Handles, Ask(h)
      PROVE  ActorInv' /\ \A g \in Handles : caller[g].awaits # "nothing" => caller'[g].awaits # "nothing"
  <2>0. caller[h].awaits = "nothing" /\ UNCHANGED <<actor, recorded>>
    BY <1>2 DEF Ask
  <2>1. PICK kind \in AskKinds :
            /\ Sent([kind |-> kind, from |-> h])
            /\ caller' = IF actor.running THEN [caller EXCEPT ![h].awaits = kind] ELSE caller
    BY <1>2 DEF Ask, AskKinds
  <2> DEFINE m == [kind |-> kind, from |-> h]
  <2>2. m \in Mail /\ m.kind = kind /\ m.from = h /\ m.kind # "record"
    BY DEF Mail, AskKinds
  <2>3. CASE actor.running
    <3>0. Sent(m)
      BY <2>1
    <3> HIDE DEF m
    <3>1. ActorInv'
      BY <2>0, <2>1, <2>2, <2>3, <3>0, SendKeeps
    <3>2. \A g \in Handles : caller[g].awaits # "nothing" => caller'[g].awaits # "nothing"
      BY <2>1, <2>3 DEF ActorInv, MailOK, AskKinds
    <3> QED
      BY <3>1, <3>2
  <2>4. CASE ~actor.running
    <3>1. UNCHANGED <<mailbox, actor, recorded, caller>>
      BY <2>0, <2>1, <2>4 DEF Sent
    <3> QED
      BY <3>1 DEF ActorInv, MailOK, RecordsOrdered, AsksAwaited, ToldAhead, EndedOK, IsAsk
  <2> QED
    BY <2>3, <2>4
<1>3. ASSUME NEW h \in Handles, Shutdown(h)
      PROVE  ActorInv' /\ caller' = caller
  <2>0. caller[h].awaits = "nothing" /\ UNCHANGED <<actor, recorded, caller>>
    BY <1>3 DEF Shutdown
  <2> DEFINE m == [kind |-> "shutdown"]
  <2>2. m \in Mail /\ m.kind # "record" /\ m.kind \notin AskKinds /\ Sent(m)
    BY <1>3 DEF Mail, AskKinds, Shutdown
  <2> HIDE DEF m
  <2>3. CASE actor.running
    BY <2>0, <2>2, <2>3, SendKeeps
  <2>4. CASE ~actor.running
    <3>1. UNCHANGED <<mailbox, actor, recorded, caller>>
      BY <2>0, <2>2, <2>4 DEF Sent
    <3> QED
      BY <3>1 DEF ActorInv, MailOK, RecordsOrdered, AsksAwaited, ToldAhead, EndedOK, IsAsk
  <2> QED
    BY <2>0, <2>3, <2>4
<1>4. CASE HandleRecord
  BY <1>4, HandleRecordKeeps DEF HandleRecord
<1>5. CASE HandleAsk
  BY <1>5, HandleAskKeeps
<1>6. CASE HandleShutdown
  BY <1>6, ShutdownKeeps
<1>7. CASE UNCHANGED actorVars
  <2>1. ActorInv'
    BY <1>7 DEF actorVars, ActorInv, MailOK, RecordsOrdered, AsksAwaited, ToldAhead, EndedOK, IsAsk
  <2> QED
    BY <1>7, <2>1 DEF actorVars
<1> QED
  BY <1>1, <1>2, <1>3, <1>4, <1>5, <1>6, <1>7 DEF ActorNext

\* A handle reads its own writes and is never left waiting (actor.rs:118-147).
THEOREM HandlesReadTheirWrites == ActorSpec => AskedAfterTold
<1>1. ActorInv => \A h \in Handles : caller[h].awaits # "nothing" =>
          \E i \in DOMAIN mailbox : mailbox[i].kind = caller[h].awaits /\ mailbox[i].from = h
  BY DEF ActorInv, AsksAwaited, MailOK
<1>2. ActorInv /\ [ActorNext]_actorVars =>
          [\A h \in Handles :
              /\ caller[h].awaits # "nothing"
              /\ caller'[h].awaits = "nothing"
              /\ actor'.running
              => caller'[h].answer >= caller'[h].told]_actorVars
  BY ActorStep
<1>3. ActorInv /\ [ActorNext]_actorVars => ActorInv'
  BY ActorStep
<1> QED
  BY <1>1, <1>2, <1>3, ActorInvInit, PTL DEF ActorSpec, AskedAfterTold

(***************************************************************************)
(* What is between two positions of a sequence                             *)
(***************************************************************************)

\* The elements behind position k up to position j.
Between(s, k, j) == SubSeq(s, k + 1, j)

LEMMA BetweenIs ==
    ASSUME NEW S, NEW s \in Seq(S), NEW k \in 0 .. Len(s), NEW j \in k .. Len(s)
    PROVE  /\ Between(s, k, j) \in Seq(S) /\ Len(Between(s, k, j)) = j - k
           /\ \A i \in 1 .. j - k : Between(s, k, j)[i] = s[k + i]
<1>1. Len(s) \in Nat /\ k \in Nat /\ j \in Nat /\ k <= j
  OBVIOUS
<1>2. \A i \in k + 1 .. j : s[i] \in S
  BY <1>1
<1>3. /\ SubSeq(s, k + 1, j) \in Seq(S)
      /\ Len(SubSeq(s, k + 1, j)) = IF k + 1 <= j THEN j - (k + 1) + 1 ELSE 0
      /\ \A i \in 1 .. j - (k + 1) + 1 : SubSeq(s, k + 1, j)[i] = s[k + 1 + i - 1]
  BY <1>1, <1>2, SubSeqProperties
<1>4. j - (k + 1) + 1 = j - k /\ \A i \in 1 .. j - k : k + 1 + i - 1 = k + i
  BY <1>1
<1> QED
  BY <1>1, <1>3, <1>4 DEF Between

\* Two neighbouring parts make one.
LEMMA BetweenJoined ==
    ASSUME NEW S, NEW s \in Seq(S), NEW i \in 0 .. Len(s), NEW k \in i .. Len(s), NEW j \in k .. Len(s)
    PROVE  Between(s, i, k) \o Between(s, k, j) = Between(s, i, j)
<1>1. i + 1 \in 1 .. Len(s) + 1 /\ k \in (i + 1) - 1 .. Len(s)
  OBVIOUS
<1> QED
  BY <1>1, ConcatAdjacentSubSeq DEF Between

\* A part of a part is a part.
LEMMA BetweenOfBetween ==
    ASSUME NEW S, NEW s \in Seq(S), NEW k \in 0 .. Len(s), NEW j \in k .. Len(s),
           NEW a \in 0 .. j - k, NEW b \in a .. j - k
    PROVE  Between(Between(s, k, j), a, b) = Between(s, k + a, k + b)
<1> DEFINE t == Between(s, k, j)
<1>1. t \in Seq(S) /\ Len(t) = j - k /\ \A i \in 1 .. j - k : t[i] = s[k + i]
  BY BetweenIs
<1>2. /\ k \in Nat /\ j \in Nat /\ a \in Nat /\ b \in Nat /\ a <= b /\ b <= j - k /\ Len(s) \in Nat
      /\ k + a \in 0 .. Len(s) /\ k + b \in k + a .. Len(s) /\ (k + b) - (k + a) = b - a
  OBVIOUS
<1> HIDE DEF t
<1>3. /\ Between(t, a, b) \in Seq(S) /\ Len(Between(t, a, b)) = b - a
      /\ \A i \in 1 .. b - a : Between(t, a, b)[i] = t[a + i]
  <2>1. t \in Seq(S) /\ a \in 0 .. Len(t) /\ b \in a .. Len(t)
    BY <1>1, <1>2
  <2> QED
    BY <2>1, BetweenIs
<1>4. /\ Between(s, k + a, k + b) \in Seq(S) /\ Len(Between(s, k + a, k + b)) = b - a
      /\ \A i \in 1 .. b - a : Between(s, k + a, k + b)[i] = s[k + a + i]
  <2> DEFINE c == k + a
             d == k + b
  <2>1. c \in 0 .. Len(s) /\ d \in c .. Len(s) /\ d - c = b - a
    BY <1>2
  <2> HIDE DEF c, d
  <2>2. /\ Between(s, c, d) \in Seq(S) /\ Len(Between(s, c, d)) = d - c
        /\ \A i \in 1 .. d - c : Between(s, c, d)[i] = s[c + i]
    BY <2>1, BetweenIs
  <2> QED
    BY <2>1, <2>2 DEF c, d
<1>5. ASSUME NEW i \in 1 .. b - a PROVE Between(t, a, b)[i] = Between(s, k + a, k + b)[i]
  <2>1. a + i \in 1 .. j - k /\ k + (a + i) = k + a + i
    BY <1>2
  <2> QED
    BY <1>1, <1>3, <1>4, <2>1
<1> QED
  BY <1>3, <1>4, <1>5, SeqEqual DEF t

LEMMA BetweenEmpty ==
    ASSUME NEW S, NEW s \in Seq(S), NEW k \in 0 .. Len(s), NEW j \in k .. Len(s)
    PROVE  Between(s, k, j) = <<>> <=> k = j
<1>1. Between(s, k, j) \in Seq(S) /\ Len(Between(s, k, j)) = j - k /\ k \in Nat /\ j \in Nat
  BY BetweenIs
<1> QED
  BY <1>1

(***************************************************************************)
(* ChunkStream                                                             *)
(***************************************************************************)

MessageOrNone == Messages \cup {NoMessage}

Bytes == (Types \cup {"set_chunk_size", "none"}) \X Nat \X Nat

Sizes == ChunkSizes \cup {DefaultChunkSize}

\* What is collected of a message, and what is left of it to send.
StreamInStep(csid) ==
    LET m == publishing[csid].msg
    IN  /\ chunk_states[csid].msg = m
        /\ \E k \in 0 .. m.length :
               /\ publishing[csid].left = Between(Payload(m), k, m.length)
               /\ chunk_states[csid].data = IF k = m.length THEN <<>> ELSE Between(Payload(m), 0, k)

\* What is returned is what was sent.
StreamReturned(csid) ==
    /\ read_last[csid].msg = sent_last[csid]
    /\ read_last[csid].data = Payload(sent_last[csid])

SidesAgree ==
    /\ in_step /\ in_chunk_size = out_size /\ out_size \in Sizes
    /\ chunk_states \in [Csids -> [msg : MessageOrNone, data : Seq(Bytes)]]
    /\ publishing \in [Csids -> [msg : MessageOrNone, left : Seq(Bytes)]]
    /\ read_last \in [Csids -> [msg : MessageOrNone, data : Seq(Bytes)]]
    /\ sent_last \in [Csids -> MessageOrNone]

ChunkInv == SidesAgree /\ \A csid \in Csids : StreamInStep(csid) /\ StreamReturned(csid)

LEMMA PayloadIs ==
    ASSUME NEW m \in MessageOrNone
    PROVE  /\ m.length \in 0 .. MaxLength /\ MaxLength \in Nat
           /\ Payload(m) \in Seq(Bytes) /\ Len(Payload(m)) = m.length
           /\ m.type = "set_chunk_size" => m.value \in ChunkSizes
<1>1. /\ m.length \in 0 .. MaxLength /\ MaxLength \in Nat
      /\ m.type \in Types \cup {"set_chunk_size", "none"} /\ m.value \in Nat
      /\ m.type = "set_chunk_size" => m.value \in ChunkSizes
  <2>1. CASE m \in [type : Types, length : 0 .. MaxLength, value : {0}]
    BY <2>1, ChunkAssumption
  <2>2. CASE m \in [type : {"set_chunk_size"}, length : {MaxLength}, value : ChunkSizes]
    <3>1. m.type = "set_chunk_size" /\ m.length = MaxLength /\ m.value \in ChunkSizes
      BY <2>2
    <3>a. MaxLength \in Nat /\ MaxLength \in 0 .. MaxLength
      BY ChunkAssumption
    <3>b. ChunkSizes \subseteq Nat
      BY ChunkAssumption
    <3>2. m.length \in 0 .. MaxLength /\ MaxLength \in Nat /\ m.value \in Nat
      BY <3>1, <3>a, <3>b
    <3> QED
      BY <3>1, <3>2
  <2>3. CASE m = NoMessage
    BY <2>3, ChunkAssumption DEF NoMessage
  <2> QED
    BY <2>1, <2>2, <2>3 DEF MessageOrNone, Messages
<1>2. \A i \in 1 .. m.length : <<m.type, m.value, i>> \in Bytes
  BY <1>1 DEF Bytes
<1> DEFINE n == m.length
           f == [i \in 1 .. n |-> <<m.type, m.value, i>>]
<1>3. n \in Nat /\ f \in [1 .. n -> Bytes]
  BY <1>1, <1>2
<1>4. f = Payload(m)
  BY DEF Payload
<1> HIDE DEF f, n
<1>5. f \in Seq(Bytes) /\ Len(f) = n
  BY <1>3, IsASeq
<1> QED
  BY <1>1, <1>4, <1>5 DEF n

LEMMA ChunkInvInit == ChunkInit => ChunkInv
<1> SUFFICES ASSUME ChunkInit PROVE ChunkInv
  OBVIOUS
<1>1. NoMessage \in MessageOrNone /\ <<>> \in Seq(Bytes)
  BY DEF MessageOrNone
<1>2. SidesAgree
  BY <1>1 DEF ChunkInit, SidesAgree, Sizes
<1>3. NoMessage.length = 0
  BY DEF NoMessage
<1>4. Payload(NoMessage) \in Seq(Bytes) /\ Len(Payload(NoMessage)) = 0 /\ Payload(NoMessage) = <<>>
  <2>1. Payload(NoMessage) \in Seq(Bytes) /\ Len(Payload(NoMessage)) = 0
    BY <1>1, <1>3, PayloadIs
  <2> QED
    BY <2>1
<1>5. Between(Payload(NoMessage), 0, 0) = <<>>
  <2> DEFINE data == Payload(NoMessage)
             z == 0
  <2>1. data \in Seq(Bytes) /\ z \in 0 .. Len(data) /\ z \in z .. Len(data) /\ z <= z
    BY <1>4
  <2> HIDE DEF data, z
  <2>2. Between(data, z, z) = <<>>
    BY <2>1, BetweenEmpty
  <2> QED
    BY <2>2 DEF data, z
<1>6. \A csid \in Csids : StreamInStep(csid)
  <2>1. 0 \in 0 .. NoMessage.length
    BY <1>3
  <2> QED
    BY <1>3, <1>5, <2>1 DEF ChunkInit, StreamInStep
<1>7. \A csid \in Csids : StreamReturned(csid)
  BY <1>4 DEF ChunkInit, StreamReturned
<1> QED
  BY <1>2, <1>6, <1>7 DEF ChunkInv

\* A chunk of which both sides know the message it belongs to and how much of it
\* went before.
LEMMA ChunkKeeps ==
    ASSUME ChunkInv, NEW csid \in Csids, NEW fmt \in 0 .. 3, NEW m \in Messages,
           NEW k \in 0 .. m.length, NEW left, left = Between(Payload(m), k, m.length),
           (IF fmt \in {0, 1} THEN m ELSE chunk_states[csid].msg) = m,
           (IF fmt = 3 THEN chunk_states[csid].data ELSE <<>>) = Between(Payload(m), 0, k),
           SendChunk(csid, fmt, m, left)
    PROVE  ChunkInv'
<1> DEFINE P == Payload(m)
           n == m.length
           size == Smaller(Len(left), out_size)
           body == SubSeq(left, 1, size)
           rest == SubSeq(left, size + 1, Len(left))
           data == Between(P, 0, k) \o body
<1>a. SidesAgree /\ \A c \in Csids : StreamInStep(c) /\ StreamReturned(c)
  BY DEF ChunkInv
<1>1. /\ m \in MessageOrNone /\ n \in Nat /\ P \in Seq(Bytes) /\ Len(P) = n /\ k \in 0 .. n
      /\ m.type = "set_chunk_size" => m.value \in ChunkSizes
  BY PayloadIs DEF MessageOrNone
<1>2. out_size \in Nat \ {0} /\ in_chunk_size = out_size
  BY <1>a, ChunkAssumption DEF SidesAgree, Sizes
<1> HIDE DEF P
<1>b. n \in 0 .. Len(P) /\ n \in k .. Len(P) /\ k \in 0 .. Len(P) /\ 0 \in 0 .. Len(P) /\ k \in 0 .. Len(P)
  BY <1>1
<1>c. left = Between(P, k, n)
  BY DEF P
<1>3. Len(left) = n - k /\ left \in Seq(Bytes)
  <2> HIDE DEF n
  <2>1. Len(Between(P, k, n)) = n - k /\ Between(P, k, n) \in Seq(Bytes)
    BY <1>1, <1>b, BetweenIs
  <2> QED
    BY <1>c, <2>1
<1> HIDE DEF n
<1>4. size \in 0 .. n - k /\ (size = n - k <=> ~(out_size < n - k)) /\ size = Smaller(n - k, out_size)
  BY <1>1, <1>2, <1>3 DEF Smaller
<1> HIDE DEF size
<1>d. k + size \in 0 .. Len(P) /\ k + size \in k .. Len(P) /\ n \in k + size .. Len(P) /\ k \in Nat /\ size \in Nat
  BY <1>1, <1>4
<1>5. body = Between(P, k, k + size)
  <2>1. body = Between(left, 0, size)
    BY DEF Between
  <2>2. 0 \in 0 .. n - k /\ size \in 0 .. n - k /\ k + 0 = k
    BY <1>1, <1>4
  <2>3. Between(Between(P, k, n), 0, size) = Between(P, k + 0, k + size)
    <3> DEFINE z == 0
    <3>1. z \in 0 .. n - k /\ size \in z .. n - k
      BY <1>1, <1>4
    <3> HIDE DEF z
    <3>2. Between(Between(P, k, n), z, size) = Between(P, k + z, k + size)
      BY <1>1, <1>b, <3>1, BetweenOfBetween
    <3> QED
      BY <3>2 DEF z
  <2> QED
    BY <1>c, <2>1, <2>2, <2>3
<1>6. rest = Between(P, k + size, n)
  <2>1. rest = Between(left, size, n - k)
    BY <1>3 DEF Between
  <2>2. size \in 0 .. n - k /\ n - k \in size .. n - k /\ k + (n - k) = n
    BY <1>1, <1>4
  <2>3. Between(Between(P, k, n), size, n - k) = Between(P, k + size, k + (n - k))
    BY <1>1, <1>b, <2>2, BetweenOfBetween
  <2> QED
    BY <1>c, <2>1, <2>2, <2>3
<1> HIDE DEF body, rest
<1>7. data = Between(P, 0, k + size)
  BY <1>1, <1>5, <1>b, <1>d, BetweenJoined
<1>8. /\ Len(body) = size /\ data \in Seq(Bytes) /\ Len(data) = k + size
      /\ rest \in Seq(Bytes) /\ (rest = <<>> <=> k + size = n)
      /\ Len(Between(P, 0, k)) = k
  <2>1. Len(body) = (k + size) - k
    BY <1>1, <1>5, <1>b, <1>d, BetweenIs
  <2>2. data \in Seq(Bytes) /\ Len(data) = (k + size) - 0
    <3> HIDE DEF data
    <3> QED
      BY <1>1, <1>7, <1>b, <1>d, BetweenIs
  <2>3. rest \in Seq(Bytes) /\ (rest = <<>> <=> k + size = n)
    <3> DEFINE a == k + size
    <3>1. a \in 0 .. Len(P) /\ n \in a .. Len(P)
      BY <1>d
    <3> HIDE DEF a
    <3>a. Between(P, a, n) \in Seq(Bytes)
      BY <1>1, <3>1, BetweenIs
    <3>2. Between(P, a, n) \in Seq(Bytes) /\ (Between(P, a, n) = <<>> <=> a = n)
      BY <1>1, <3>1, <3>a, BetweenEmpty
    <3> QED
      BY <1>6, <3>2 DEF a
  <2>4. Len(Between(P, 0, k)) = k - 0
    BY <1>1, <1>b, BetweenIs
  <2> QED
    BY <1>d, <2>1, <2>2, <2>3, <2>4
<1> DEFINE done == k + size = n
<1>9. /\ in_step' = (Len(body) = Smaller(n - k, in_chunk_size))
      /\ chunk_states' = [chunk_states EXCEPT ![csid] = [msg |-> m, data |-> IF done THEN <<>> ELSE data]]
      /\ read_last' = IF done THEN [read_last EXCEPT ![csid] = [msg |-> m, data |-> data]] ELSE read_last
      /\ in_chunk_size' = IF done /\ m.type = "set_chunk_size" THEN m.value ELSE in_chunk_size
      /\ publishing' = [publishing EXCEPT ![csid] = [msg |-> m, left |-> rest]]
      /\ sent_last' = IF done THEN [sent_last EXCEPT ![csid] = m] ELSE sent_last
      /\ out_size' = IF done /\ m.type = "set_chunk_size" THEN m.value ELSE out_size
  <2>1. /\ ReadChunk(csid, fmt, m, body)
        /\ publishing' = [publishing EXCEPT ![csid] = [msg |-> m, left |-> rest]]
        /\ sent_last' = IF rest = <<>> THEN [sent_last EXCEPT ![csid] = m] ELSE sent_last
        /\ out_size' = IF rest = <<>> /\ m.type = "set_chunk_size" THEN m.value ELSE out_size
    BY DEF SendChunk, body, rest, size
  <2>2. Len(data) >= m.length <=> done
    <3> HIDE DEF data
    <3> QED
      BY <1>1, <1>4, <1>8, <1>d DEF n
  <2>3. /\ in_step' = (Len(body) = Smaller(m.length - Len(Between(P, 0, k)), in_chunk_size))
        /\ chunk_states' = [chunk_states EXCEPT ![csid] =
               [msg |-> m, data |-> IF Len(data) >= m.length THEN <<>> ELSE data]]
        /\ read_last' = IF Len(data) >= m.length
                        THEN [read_last EXCEPT ![csid] = [msg |-> m, data |-> data]] ELSE read_last
        /\ in_chunk_size' = IF Len(data) >= m.length /\ m.type = "set_chunk_size"
                            THEN m.value ELSE in_chunk_size
    BY <2>1 DEF ReadChunk, P
  <2>4. m.length - Len(Between(P, 0, k)) = n - k
    BY <1>8 DEF n
  <2> HIDE DEF data, done
  <2>5. (rest = <<>>) <=> done
    BY <1>8 DEF done
  <2> QED
    BY <2>1, <2>2, <2>3, <2>4, <2>5
<1> HIDE DEF data
<1>10. SidesAgree'
  <2>1. in_step'
    BY <1>2, <1>4, <1>8, <1>9
  <2>2. in_chunk_size' = out_size' /\ out_size' \in Sizes
    BY <1>1, <1>2, <1>9, <1>a DEF SidesAgree, Sizes
  <2>3. chunk_states' \in [Csids -> [msg : MessageOrNone, data : Seq(Bytes)]]
    <3>1. (IF done THEN <<>> ELSE data) \in Seq(Bytes)
      BY <1>8
    <3> QED
      BY <1>1, <1>9, <1>a, <3>1 DEF SidesAgree
  <2>4. publishing' \in [Csids -> [msg : MessageOrNone, left : Seq(Bytes)]]
    BY <1>1, <1>8, <1>9, <1>a DEF SidesAgree
  <2>5. read_last' \in [Csids -> [msg : MessageOrNone, data : Seq(Bytes)]]
    BY <1>1, <1>8, <1>9, <1>a DEF SidesAgree
  <2>6. sent_last' \in [Csids -> MessageOrNone]
    BY <1>1, <1>9, <1>a DEF SidesAgree
  <2> QED
    BY <2>1, <2>2, <2>3, <2>4, <2>5, <2>6 DEF SidesAgree
<1>11. ASSUME NEW c \in Csids PROVE StreamInStep(c)' /\ StreamReturned(c)'
  <2>1. CASE c # csid
    <3>1. /\ chunk_states'[c] = chunk_states[c] /\ publishing'[c] = publishing[c]
          /\ read_last'[c] = read_last[c] /\ sent_last'[c] = sent_last[c]
      BY <1>9, <1>a, <2>1 DEF SidesAgree
    <3>2. StreamInStep(c) /\ StreamReturned(c)
      BY <1>a
    <3> QED
      BY <3>1, <3>2 DEF StreamInStep, StreamReturned
  <2>2. CASE c = csid
    <3>1. /\ chunk_states'[c].msg = m /\ chunk_states'[c].data = (IF done THEN <<>> ELSE data)
          /\ publishing'[c].msg = m /\ publishing'[c].left = rest
      BY <1>9, <1>a, <2>2 DEF SidesAgree
    <3>2. StreamInStep(c)'
      <4>1. k + size \in 0 .. m.length
        BY <1>1, <1>d DEF n
      <4>2. /\ publishing'[c].left = Between(Payload(m), k + size, m.length)
            /\ chunk_states'[c].data = IF k + size = m.length THEN <<>> ELSE Between(Payload(m), 0, k + size)
        BY <1>6, <1>7, <3>1 DEF P, n
      <4> QED
        BY <3>1, <4>1, <4>2 DEF StreamInStep
    <3>3. StreamReturned(c)'
      <4>1. CASE done
        <5>1. read_last'[c].msg = m /\ read_last'[c].data = data /\ sent_last'[c] = m
          BY <1>9, <1>a, <2>2, <4>1 DEF SidesAgree
        <5>2. data = P
          <6>1. data = SubSeq(P, 1, Len(P))
            BY <1>1, <1>7, <4>1 DEF Between
          <6> QED
            BY <1>1, <6>1, SubSeqFull
        <5> QED
          BY <5>1, <5>2 DEF StreamReturned, P
      <4>2. CASE ~done
        <5>1. read_last' = read_last /\ sent_last' = sent_last
          BY <1>9, <4>2
        <5> QED
          BY <1>a, <5>1 DEF StreamReturned
      <4> QED
        BY <4>1, <4>2
    <3> QED
      BY <3>2, <3>3
  <2> QED
    BY <2>1, <2>2
<1> QED
  BY <1>10, <1>11 DEF ChunkInv

LEMMA ChunkInvStep == ChunkInv /\ [ChunkNext]_chunkVars => ChunkInv'
<1> SUFFICES ASSUME ChunkInv, [ChunkNext]_chunkVars PROVE ChunkInv'
  OBVIOUS
<1>a. SidesAgree /\ \A c \in Csids : StreamInStep(c) /\ StreamReturned(c)
  BY DEF ChunkInv
<1>1. ASSUME NEW csid \in Csids, BeginMessage(csid) PROVE ChunkInv'
  <2> DEFINE last == publishing[csid].msg
  <2>1. PICK m \in Messages, fmt \in 0 .. 3 :
            /\ last = NoMessage => fmt = 0
            /\ fmt \in {2, 3} => m.type = last.type /\ m.length = last.length /\ m.value = last.value
            /\ SendChunk(csid, fmt, m, Payload(m))
    BY <1>1 DEF BeginMessage
  <2>2. /\ m.length \in Nat /\ Payload(m) \in Seq(Bytes) /\ Len(Payload(m)) = m.length
    BY PayloadIs DEF MessageOrNone
  <2>3. publishing[csid].left = <<>> /\ last \in MessageOrNone /\ chunk_states[csid].msg = last
    BY <1>1, <1>a DEF BeginMessage, SidesAgree, StreamInStep
  <2>4. chunk_states[csid].data = <<>>
    <3>1. PICK k \in 0 .. last.length :
              /\ publishing[csid].left = Between(Payload(last), k, last.length)
              /\ chunk_states[csid].data = IF k = last.length THEN <<>> ELSE Between(Payload(last), 0, k)
      BY <1>a DEF StreamInStep
    <3>2. Payload(last) \in Seq(Bytes) /\ Len(Payload(last)) = last.length /\ last.length \in Nat
      BY <2>3, PayloadIs
    <3>3. k \in 0 .. Len(Payload(last)) /\ last.length \in k .. Len(Payload(last))
      BY <3>2
    <3> HIDE DEF last
    <3>4. k = last.length
      BY <2>3, <3>1, <3>2, <3>3, BetweenEmpty
    <3> QED
      BY <3>1, <3>4
  <2>5. (IF fmt \in {0, 1} THEN m ELSE chunk_states[csid].msg) = m
    <3>1. CASE fmt \in {0, 1}
      BY <3>1
    <3>2. CASE fmt \in {2, 3}
      <4>1. last \in Messages
        BY <2>1, <2>3, <3>2 DEF MessageOrNone
      <4>2. m.type = last.type /\ m.length = last.length /\ m.value = last.value
        BY <2>1, <3>2
      <4>3. m = last
        BY <4>1, <4>2 DEF Messages
      <4> QED
        BY <2>3, <3>2, <4>3
    <3>3. fmt \in {0, 1} \/ fmt \in {2, 3}
      OBVIOUS
    <3> QED
      BY <3>1, <3>2, <3>3
  <2>6. Between(Payload(m), 0, 0) = <<>> /\ Between(Payload(m), 0, m.length) = Payload(m)
    <3>1. 0 \in 0 .. Len(Payload(m)) /\ 0 \in 0 .. Len(Payload(m))
      BY <2>2
    <3>2. Between(Payload(m), 0, m.length) = SubSeq(Payload(m), 1, Len(Payload(m)))
      BY <2>2 DEF Between
    <3> QED
      BY <2>2, <3>1, <3>2, SubSeqFull, BetweenEmpty
  <2>7. (IF fmt = 3 THEN chunk_states[csid].data ELSE <<>>) = Between(Payload(m), 0, 0)
    BY <2>4, <2>6
  <2>8. 0 \in 0 .. m.length /\ Payload(m) = Between(Payload(m), 0, m.length)
    BY <2>2, <2>6
  <2>9. SendChunk(csid, fmt, m, Payload(m))
    BY <2>1
  <2> HIDE DEF last
  <2> QED
    BY <2>5, <2>7, <2>8, <2>9, ChunkKeeps
<1>2. ASSUME NEW csid \in Csids, ContinueMessage(csid) PROVE ChunkInv'
  <2> DEFINE m == publishing[csid].msg
             left == publishing[csid].left
  <2>1. left # <<>> /\ SendChunk(csid, 3, m, left) /\ m \in MessageOrNone /\ chunk_states[csid].msg = m
    BY <1>2, <1>a DEF ContinueMessage, SidesAgree, StreamInStep
  <2>2. Payload(m) \in Seq(Bytes) /\ Len(Payload(m)) = m.length /\ m.length \in Nat
    BY <2>1, PayloadIs
  <2>3. PICK k \in 0 .. m.length :
            /\ left = Between(Payload(m), k, m.length)
            /\ chunk_states[csid].data = IF k = m.length THEN <<>> ELSE Between(Payload(m), 0, k)
    BY <1>a DEF StreamInStep
  <2> HIDE DEF m, left
  <2>4. k # m.length
    <3>1. k \in 0 .. Len(Payload(m)) /\ m.length \in k .. Len(Payload(m))
      BY <2>2
    <3> QED
      BY <2>1, <2>2, <2>3, <3>1, BetweenEmpty
  <2>5. m \in Messages
    <3>1. m # NoMessage
      <4>1. NoMessage.length = 0
        BY DEF NoMessage
      <4> QED
        BY <2>4, <4>1
    <3> QED
      BY <2>1, <3>1 DEF MessageOrNone
  <2>6. (IF 3 = 3 THEN chunk_states[csid].data ELSE <<>>) = Between(Payload(m), 0, k)
    BY <2>3, <2>4
  <2>7. (IF 3 \in {0, 1} THEN m ELSE chunk_states[csid].msg) = m
    BY <2>1
  <2>8. 3 \in 0 .. 3
    OBVIOUS
  <2> DEFINE fmt == 3
  <2>9. /\ (IF fmt \in {0, 1} THEN m ELSE chunk_states[csid].msg) = m
        /\ (IF fmt = 3 THEN chunk_states[csid].data ELSE <<>>) = Between(Payload(m), 0, k)
        /\ SendChunk(csid, fmt, m, left) /\ fmt \in 0 .. 3
    BY <2>1, <2>6, <2>7, <2>8
  <2> HIDE DEF fmt
  <2> QED
    BY <2>3, <2>5, <2>9, ChunkKeeps
<1>3. CASE UNCHANGED chunkVars
  BY <1>3 DEF chunkVars, ChunkInv, SidesAgree, StreamInStep, StreamReturned
<1> QED
  BY <1>1, <1>2, <1>3 DEF ChunkNext

LEMMA ChunkInvTypes == ChunkInv => ChunkTypeOK
<1> SUFFICES ASSUME ChunkInv PROVE ChunkTypeOK
  OBVIOUS
<1>1. ASSUME NEW c \in Csids PROVE Len(chunk_states[c].data) <= MaxLength
  <2> DEFINE m == publishing[c].msg
  <2>1. m \in MessageOrNone
    BY DEF ChunkInv, SidesAgree
  <2>2. Payload(m) \in Seq(Bytes) /\ Len(Payload(m)) = m.length /\ m.length \in 0 .. MaxLength /\ MaxLength \in Nat
    BY <2>1, PayloadIs
  <2>3. PICK k \in 0 .. m.length :
            chunk_states[c].data = IF k = m.length THEN <<>> ELSE Between(Payload(m), 0, k)
    BY DEF ChunkInv, StreamInStep
  <2> HIDE DEF m
  <2>4. Len(Between(Payload(m), 0, k)) = k - 0
    <3>1. 0 \in 0 .. Len(Payload(m)) /\ k \in 0 .. Len(Payload(m))
      BY <2>2
    <3> QED
      BY <2>2, <3>1, BetweenIs
  <2> QED
    BY <2>2, <2>3, <2>4
<1> QED
  BY <1>1 DEF ChunkInv, SidesAgree, ChunkTypeOK, MessageOrNone, Sizes

\* What the reader has and what is left of a message are the message.
LEMMA ChunkInvReassembles == ChunkInv => Reassembles
<1> SUFFICES ASSUME ChunkInv PROVE Reassembles
  OBVIOUS
<1>1. in_step /\ in_chunk_size = out_size
  BY DEF ChunkInv, SidesAgree
<1>2. ASSUME NEW c \in Csids, publishing[c].left # <<>>
      PROVE  chunk_states[c].data \o publishing[c].left = Payload(publishing[c].msg)
  <2> DEFINE m == publishing[c].msg
  <2>1. m \in MessageOrNone
    BY DEF ChunkInv, SidesAgree
  <2>2. Payload(m) \in Seq(Bytes) /\ Len(Payload(m)) = m.length /\ m.length \in Nat
    BY <2>1, PayloadIs
  <2>3. PICK k \in 0 .. m.length :
            /\ publishing[c].left = Between(Payload(m), k, m.length)
            /\ chunk_states[c].data = IF k = m.length THEN <<>> ELSE Between(Payload(m), 0, k)
    BY DEF ChunkInv, StreamInStep
  <2> HIDE DEF m
  <2>4. /\ k \in 0 .. Len(Payload(m)) /\ m.length \in k .. Len(Payload(m))
        /\ 0 \in 0 .. Len(Payload(m))
    BY <2>2
  <2>5. k # m.length
    BY <1>2, <2>2, <2>3, <2>4, BetweenEmpty
  <2>6. chunk_states[c].data \o publishing[c].left = Between(Payload(m), 0, m.length)
    BY <2>2, <2>3, <2>4, <2>5, BetweenJoined
  <2>7. Between(Payload(m), 0, m.length) = SubSeq(Payload(m), 1, Len(Payload(m)))
    BY <2>2 DEF Between
  <2> QED
    BY <2>2, <2>6, <2>7, SubSeqFull DEF m
<1> QED
  BY <1>1, <1>2 DEF Reassembles, ChunkInv, StreamReturned

\* However chunk streams are interleaved, headers abbreviated and chunk sizes
\* changed, the reader returns what was sent (rtmp/chunk.rs:39-133).
THEOREM ChunksReassemble == ChunkSpec => []Reassembles
BY ChunkInvReassembles, ChunkInvInit, ChunkInvStep, PTL DEF ChunkSpec

(***************************************************************************)
(* NalSplitter                                                             *)
(***************************************************************************)

\* A set of numbers that is not empty has a least one.
LEMMA NatLeast ==
    ASSUME NEW T, T \subseteq Nat, T # {}
    PROVE  \E x \in T : \A y \in T : x <= y
<1> DEFINE R == OpToRel(<, Nat)
<1>1. IsWellFoundedOn(R, Nat)
  BY NatLessThanWellFounded
<1>2. \A x, y \in Nat : x < y => <<x, y>> \in R
  BY DEF OpToRel
<1> HIDE DEF R
<1>3. PICK x \in T : \A y \in T : ~(<<y, x>> \in R)
  BY <1>1, WFMin
<1>4. \A y \in T : ~(y < x) /\ y \in Nat /\ x \in Nat
  BY <1>2, <1>3
<1> QED
  BY <1>4

\* A start code begins in s behind position i - 1.
CodeAt(s, i) ==
    /\ s[i] = 0 /\ s[i + 1] = 0
    /\ s[i + 2] = 1 \/ (s[i + 2] = 0 /\ s[i + 3] = 1)

\* b is where, counted from position c of s, the first start code begins that
\* can be told from the bytes up to u, not looking at those before f.
FirstCode(s, c, u, f, b) ==
    /\ b \in Nat /\ f <= b /\ b + c + 3 <= u
    /\ CodeAt(s, c + b)
    /\ \A i \in Nat : f <= i /\ i < b => ~CodeAt(s, c + i)

\* What find_nal_boundary finds in a part of s.
LEMMA BoundaryIs ==
    ASSUME NEW s \in Seq(Nat), NEW c \in 0 .. Len(s), NEW u \in c .. Len(s), NEW f \in Nat \ {0}
    PROVE  /\ Boundary(Between(s, c, u), f) \in Nat
           /\ Boundary(Between(s, c, u), f) # 0 => FirstCode(s, c, u, f, Boundary(Between(s, c, u), f))
           /\ \A b \in Nat \ {0} : FirstCode(s, c, u, f, b) => Boundary(Between(s, c, u), f) = b
<1> DEFINE d == Between(s, c, u)
           codes == {i \in f .. Len(d) - 3 : CodeAt(d, i)}
<1>1. c \in Nat /\ u \in Nat /\ c <= u /\ f \in Nat
  OBVIOUS
<1>2. d \in Seq(Nat) /\ Len(d) = u - c /\ \A i \in 1 .. u - c : d[i] = s[c + i]
  BY BetweenIs
<1>3. Boundary(d, f) = IF codes = {} THEN 0 ELSE CHOOSE i \in codes : \A j \in codes : i <= j
  BY DEF Boundary, CodeAt
<1> HIDE DEF d
<1>4. ASSUME NEW i \in f .. Len(d) - 3 PROVE CodeAt(d, i) <=> CodeAt(s, c + i)
  <2>1. {i, i + 1, i + 2, i + 3} \subseteq 1 .. u - c
    <3>1. i \in Int /\ f <= i /\ i <= Len(d) - 3
      OBVIOUS
    <3>2. i \in Nat /\ 1 <= i /\ i + 3 <= u - c
      BY <1>1, <1>2, <3>1
    <3> QED
      BY <1>1, <3>2
  <2>2. d[i] = s[c + i] /\ d[i + 1] = s[c + (i + 1)] /\ d[i + 2] = s[c + (i + 2)] /\ d[i + 3] = s[c + (i + 3)]
    BY <1>2, <2>1
  <2>3. c + (i + 1) = c + i + 1 /\ c + (i + 2) = c + i + 2 /\ c + (i + 3) = c + i + 3
    BY <1>1
  <2> QED
    BY <2>2, <2>3 DEF CodeAt
<1>5. codes \subseteq Nat
  BY <1>1
<1>6. \A i \in codes : i # 0 /\ f <= i /\ i + c + 3 <= u /\ CodeAt(s, c + i)
  BY <1>1, <1>2, <1>4
<1>7. \A i \in Nat : f <= i /\ i + c + 3 <= u /\ CodeAt(s, c + i) => i \in codes
  BY <1>1, <1>2, <1>4
<1> HIDE DEF codes
<1>8. CASE codes = {}
  <2>1. Boundary(d, f) = 0
    BY <1>3, <1>8
  <2>2. ASSUME NEW b \in Nat \ {0}, FirstCode(s, c, u, f, b) PROVE FALSE
    <3>1. b \in codes
      BY <1>7, <2>2 DEF FirstCode
    <3> QED
      BY <1>8, <3>1
  <2> QED
    BY <2>1, <2>2 DEF d
<1>9. CASE codes # {}
  <2>1. PICK m \in codes : \A j \in codes : m <= j
    BY <1>5, <1>9, NatLeast
  <2>2. Boundary(d, f) \in codes /\ \A j \in codes : Boundary(d, f) <= j
    BY <1>3, <1>9, <2>1
  <2> DEFINE e == Boundary(d, f)
  <2>3. e \in codes /\ \A j \in codes : e <= j
    BY <2>2
  <2> HIDE DEF e
  <2>4. e \in Nat \ {0}
    BY <1>5, <1>6, <2>3
  <2>5. FirstCode(s, c, u, f, e)
    <3>1. ASSUME NEW i \in Nat, f <= i, i < e PROVE ~CodeAt(s, c + i)
      <4>1. i + c + 3 <= u
        BY <1>1, <1>6, <2>3, <2>4, <3>1
      <4>2. i \notin codes
        BY <2>3, <2>4, <3>1
      <4> QED
        BY <1>7, <3>1, <4>1, <4>2
    <3> QED
      BY <1>6, <2>3, <2>4, <3>1 DEF FirstCode
  <2>6. ASSUME NEW b \in Nat \ {0}, FirstCode(s, c, u, f, b) PROVE e = b
    <3>1. b \in codes
      BY <1>7, <2>6 DEF FirstCode
    <3>2. e <= b
      BY <2>3, <3>1
    <3>3. ~(e < b)
      BY <1>6, <2>3, <2>4, <2>6 DEF FirstCode
    <3> QED
      BY <2>4, <3>2, <3>3
  <2> QED
    BY <2>4, <2>5, <2>6 DEF e, d
<1> QED
  BY <1>8, <1>9

\* A start code that is found stays the first one when more bytes are read, and
\* when one counts from another position.
LEMMA BoundaryStays ==
    ASSUME NEW s \in Seq(Nat), NEW c \in 0 .. Len(s), NEW u \in c .. Len(s), NEW v \in u .. Len(s),
           NEW f \in Nat \ {0}, NEW b \in Nat \ {0}, Boundary(Between(s, c, u), f) = b
    PROVE  Boundary(Between(s, 0, v), c + f) = c + b
<1>1. FirstCode(s, c, u, f, b)
  BY BoundaryIs
<1>2. c \in Nat /\ u \in Nat /\ v \in Nat /\ u <= v
  OBVIOUS
<1>3. FirstCode(s, 0, v, c + f, c + b)
  <2>1. c + b \in Nat /\ c + f <= c + b /\ c + b + 0 + 3 <= v /\ CodeAt(s, 0 + (c + b))
    <3>1. 0 + (c + b) = c + b
      BY <1>2
    <3> QED
      BY <1>1, <1>2, <3>1 DEF FirstCode
  <2>2. ASSUME NEW i \in Nat, c + f <= i, i < c + b PROVE ~CodeAt(s, 0 + i)
    <3>1. i - c \in Nat /\ f <= i - c /\ i - c < b /\ c + (i - c) = i /\ 0 + i = i
      BY <1>2, <2>2
    <3>2. ~CodeAt(s, c + (i - c))
      BY <1>1, <3>1 DEF FirstCode
    <3> QED
      BY <3>1, <3>2
  <2> QED
    BY <2>1, <2>2 DEF FirstCode
<1>4. 0 \in 0 .. Len(s) /\ v \in 0 .. Len(s) /\ c + f \in Nat \ {0} /\ c + b \in Nat \ {0}
  BY <1>2
<1> DEFINE z == 0
<1>5. z \in 0 .. Len(s) /\ v \in z .. Len(s) /\ FirstCode(s, z, v, c + f, c + b)
  BY <1>2, <1>3, <1>4
<1> HIDE DEF z
<1>6. Boundary(Between(s, z, v), c + f) = c + b
  BY <1>4, <1>5, BoundaryIs
<1> QED
  BY <1>6 DEF z

Entries == [unit : Seq(Nat), flags : SUBSET {"keyframe", "sps_pps", "delta"}, before : Nat]

\* How much of the output is cut into units.
Done == upto - Len(accumulator)

\* The accumulator is what is read and not cut, ...
AccumulatorOK ==
    /\ SplitterTypeOK
    /\ Done \in 0 .. upto /\ accumulator = Between(output, Done, upto)
    /\ reader \in {"read", "ended"} => Boundary(accumulator, 5) = 0

\* ... and the units are what is cut, end to end, each up to a start code.
UnitsOK ==
    /\ Before(1) = 0
    /\ \A k \in 1 .. Len(nals) :
           /\ Before(k) \in Nat /\ Before(k + 1) \in Before(k) .. upto
           /\ nals[k].unit = Between(output, Before(k), Before(k + 1))
           /\ Boundary(Between(output, 0, upto), Before(k) + 5) = Before(k + 1) + 1

SplitterInv == AccumulatorOK /\ UnitsOK

LEMMA SplitterInvInit == SplitterInit => SplitterInv
<1> SUFFICES ASSUME SplitterInit PROVE SplitterInv
  OBVIOUS
<1>1. /\ Len(accumulator) = 0 /\ Len(nals) = 0 /\ upto = 0 /\ output \in Seq(Nat) /\ Len(output) \in Nat
      /\ output \in Outputs /\ reader = "read" /\ accumulator = <<>> /\ nals = <<>>
  BY SplitterAssumption DEF SplitterInit
<1>2. SplitterTypeOK
  BY <1>1 DEF SplitterTypeOK
<1>3. Done = 0 /\ Done \in 0 .. upto
  BY <1>1 DEF Done
<1>4. Between(output, 0, 0) = <<>>
  <2>1. 0 \in 0 .. Len(output) /\ 0 \in 0 .. Len(output)
    BY <1>1
  <2> QED
    BY <1>1, <2>1, BetweenEmpty
<1>5. Boundary(accumulator, 5) = 0
  BY <1>1 DEF Boundary
<1>6. Before(1) = 0
  BY <1>1 DEF Before
<1> QED
  BY <1>1, <1>2, <1>3, <1>4, <1>5, <1>6 DEF SplitterInv, AccumulatorOK, UnitsOK

LEMMA ReadKeeps ==
    ASSUME SplitterInv, NEW n \in 1 .. MaxRead, ReadStdout(n)
    PROVE  SplitterInv'
<1>1. /\ upto + n <= Len(output) /\ upto' = upto + n /\ UNCHANGED <<output, nals>>
      /\ accumulator' = accumulator \o Between(output, upto, upto + n)
      /\ reader' \in {"cut", "panicked"}
  BY DEF ReadStdout, Between
<1>2. /\ output \in Seq(Nat) /\ Len(output) \in Nat /\ upto \in Nat /\ n \in Nat /\ upto <= Len(output)
      /\ accumulator \in Seq(Nat) /\ Len(accumulator) \in Nat
      /\ Done \in Nat /\ Done <= upto /\ Done = upto - Len(accumulator)
      /\ accumulator = Between(output, Done, upto)
  BY SplitterAssumption DEF SplitterInv, AccumulatorOK, SplitterTypeOK, Done
<1>3. accumulator' = Between(output, Done, upto + n)
  <2>1. Done \in 0 .. Len(output) /\ upto \in Done .. Len(output) /\ upto + n \in upto .. Len(output)
    BY <1>1, <1>2
  <2>2. Between(output, Done, upto) \o Between(output, upto, upto + n) = Between(output, Done, upto + n)
    BY <1>2, <2>1, BetweenJoined
  <2> QED
    BY <1>1, <1>2, <2>2
<1>4. accumulator' \in Seq(Nat) /\ Len(accumulator') = upto + n - Done
  <2> DEFINE w == upto + n
             c == Done
  <2>1. c \in 0 .. Len(output) /\ w \in c .. Len(output)
    BY <1>1, <1>2
  <2> HIDE DEF w, c
  <2>2. Between(output, c, w) \in Seq(Nat) /\ Len(Between(output, c, w)) = w - c
    BY <1>2, <2>1, BetweenIs
  <2>3. accumulator' = Between(output, c, w)
    BY <1>3 DEF w, c
  <2>4. w - c = upto + n - Done
    BY <1>2 DEF w, c
  <2> QED
    BY <2>2, <2>3, <2>4
<1>5. Done' = Done /\ Done' \in 0 .. upto'
  <2>1. Done' = upto' - Len(accumulator')
    BY DEF Done
  <2>2. upto' = upto + n /\ Len(accumulator') = upto + n - Done
    BY <1>1, <1>4
  <2>3. upto \in Nat /\ n \in Nat /\ Done \in Nat /\ Done <= upto
    BY <1>2
  <2> HIDE DEF Done
  <2>4. Done' = Done
    BY <2>1, <2>2, <2>3
  <2> QED
    BY <2>2, <2>3, <2>4
<1>6. SplitterTypeOK'
  BY <1>1, <1>2, <1>4 DEF SplitterInv, AccumulatorOK, SplitterTypeOK
<1>7. AccumulatorOK'
  BY <1>1, <1>3, <1>5, <1>6 DEF AccumulatorOK
<1>8. \A k : Before(k)' = Before(k)
  BY <1>1, <1>5 DEF Before, Done
<1>9. UnitsOK'
  <2>1. ASSUME NEW k \in 1 .. Len(nals)
        PROVE  /\ Before(k) \in Nat /\ Before(k + 1) \in Before(k) .. upto + n
               /\ nals[k].unit = Between(output, Before(k), Before(k + 1))
               /\ Boundary(Between(output, 0, upto + n), Before(k) + 5) = Before(k + 1) + 1
    <3>1. /\ Before(k) \in Nat /\ Before(k + 1) \in Before(k) .. upto
          /\ nals[k].unit = Between(output, Before(k), Before(k + 1))
          /\ Boundary(Between(output, 0, upto), Before(k) + 5) = Before(k + 1) + 1
      BY DEF SplitterInv, UnitsOK
    <3> DEFINE c == 0
               f == Before(k) + 5
               b == Before(k + 1) + 1
    <3>a. c \in 0 .. Len(output) /\ upto \in c .. Len(output) /\ upto + n \in upto .. Len(output)
      BY <1>1, <1>2
    <3>b. Before(k) \in Nat /\ Before(k + 1) \in Nat
      BY <1>2, <3>1
    <3>c. f \in Nat \ {0} /\ b \in Nat \ {0}
      BY <3>b
    <3>d. c + f = f /\ c + b = b
      BY <3>c
    <3>2. /\ c \in 0 .. Len(output) /\ upto \in c .. Len(output) /\ upto + n \in upto .. Len(output)
          /\ f \in Nat \ {0} /\ b \in Nat \ {0} /\ c + f = f /\ c + b = b
      BY <3>a, <3>c, <3>d
    <3>3. Boundary(Between(output, c, upto), f) = b
      BY <3>1
    <3> HIDE DEF c, f, b
    <3>4. Boundary(Between(output, 0, upto + n), c + f) = c + b
      BY <1>2, <3>2, <3>3, BoundaryStays
    <3>5. Before(k + 1) \in Before(k) .. upto + n
      BY <1>2, <3>1
    <3> QED
      BY <3>1, <3>2, <3>4, <3>5 DEF f, b
  <2> QED
    BY <1>1, <1>8, <2>1 DEF SplitterInv, UnitsOK
<1> QED
  BY <1>7, <1>9 DEF SplitterInv

LEMMA CutKeeps ==
    ASSUME SplitterInv, Cut
    PROVE  SplitterInv'
<1> DEFINE b == Boundary(accumulator, 5)
           unit == SubSeq(accumulator, 1, b - 1)
<1>1. reader = "cut" /\ UNCHANGED <<output, upto>>
  BY DEF Cut
<1>2. /\ output \in Seq(Nat) /\ Len(output) \in Nat /\ upto \in Nat /\ upto <= Len(output)
      /\ accumulator \in Seq(Nat) /\ Len(accumulator) \in Nat
      /\ Done \in Nat /\ Done <= upto /\ Done = upto - Len(accumulator)
      /\ accumulator = Between(output, Done, upto) /\ nals \in Seq(Entries) /\ Len(nals) \in Nat
  BY SplitterAssumption DEF SplitterInv, AccumulatorOK, SplitterTypeOK, Done, Entries
<1>s. /\ Len(output) \in Nat /\ upto \in Nat /\ upto <= Len(output) /\ Done \in Nat /\ Done <= upto
      /\ Len(accumulator) = upto - Done
  BY <1>2
<1>3. CASE b = 0
  <2>1. reader' = "read" /\ UNCHANGED <<accumulator, nals>>
    BY <1>3 DEF Cut
  <2> QED
    BY <1>1, <1>3, <2>1 DEF SplitterInv, AccumulatorOK, UnitsOK, SplitterTypeOK, Done, Before
<1>4. CASE b # 0
  <2> DEFINE e == [unit |-> unit, flags |-> FrameFlags(unit), before |-> Done]
  <2>1. /\ nals' = Append(nals, e) /\ accumulator' = SubSeq(accumulator, b, Len(accumulator))
        /\ reader' = reader
    BY <1>4 DEF Cut, Done
  <2>a. Done \in 0 .. Len(output) /\ upto \in Done .. Len(output)
    BY <1>2
  <2>o. output \in Seq(Nat)
    BY <1>2
  <2>2. b \in Nat \ {0} /\ 5 <= b /\ b + Done + 3 <= upto
    <3> DEFINE f == 5
    <3>1. f \in Nat \ {0}
      OBVIOUS
    <3>2. b = Boundary(Between(output, Done, upto), f)
      BY <1>2
    <3> HIDE DEF f, b
    <3>3. b \in Nat /\ FirstCode(output, Done, upto, f, b)
      BY <1>2, <1>4, <2>a, <3>1, <3>2, BoundaryIs
    <3> QED
      BY <1>4, <3>3 DEF FirstCode, f
  <2>3. unit = Between(output, Done, Done + (b - 1)) /\ accumulator' = Between(output, Done + (b - 1), upto)
    <3> DEFINE z == 0
               m == b - 1
    <3>1. z \in 0 .. upto - Done /\ m \in z .. upto - Done /\ upto - Done \in m .. upto - Done
          /\ m \in 0 .. upto - Done /\ Done + z = Done /\ Done + (upto - Done) = upto
          /\ b = m + 1 /\ Len(accumulator) = upto - Done
      <4>1. b \in Nat \ {0} /\ b + Done + 3 <= upto
        BY <2>2
      <4>2. m \in Nat /\ m <= upto - Done /\ b = m + 1 /\ upto - Done \in Nat
        <5> HIDE DEF b
        <5> QED
          BY <1>s, <4>1
      <4> HIDE DEF b, m
      <4> QED
        BY <1>s, <4>2
    <3>2. unit = Between(accumulator, z, m) /\ accumulator' = Between(accumulator, m, upto - Done)
      BY <2>1, <3>1 DEF Between
    <3> HIDE DEF z, b, m
    <3>3. Between(Between(output, Done, upto), z, m) = Between(output, Done + z, Done + m)
      BY <1>2, <2>a, <3>1, BetweenOfBetween
    <3>4. Between(Between(output, Done, upto), m, upto - Done) = Between(output, Done + m, Done + (upto - Done))
      <4> DEFINE w == upto - Done
      <4>1. m \in 0 .. upto - Done /\ w \in m .. upto - Done
        BY <3>1
      <4> HIDE DEF w
      <4>2. Between(Between(output, Done, upto), m, w) = Between(output, Done + m, Done + w)
        BY <2>o, <2>a, <4>1, BetweenOfBetween
      <4> QED
        BY <4>2 DEF w
    <3> QED
      BY <1>2, <3>1, <3>2, <3>3, <3>4 DEF m
  <2> DEFINE g == Done + (b - 1)
  <2> HIDE DEF b, unit
  <2>4. g \in Nat /\ Done <= g /\ g <= upto /\ g + 1 = Done + b
    BY <1>s, <2>2
  <2>5. unit \in Seq(Nat) /\ accumulator' \in Seq(Nat) /\ Len(accumulator') = upto - g
    <3>1. g \in 0 .. Len(output) /\ upto \in g .. Len(output) /\ g \in Done .. Len(output)
      BY <1>2, <2>4
    <3> HIDE DEF g
    <3>2. Between(output, g, upto) \in Seq(Nat) /\ Len(Between(output, g, upto)) = upto - g
      BY <1>2, <3>1, BetweenIs
    <3>3. Between(output, Done, g) \in Seq(Nat)
      BY <1>2, <2>a, <3>1, BetweenIs
    <3> QED
      BY <2>3, <3>2, <3>3 DEF g
  <2> HIDE DEF g
  <2>6. Done' = g
    BY <1>1, <1>2, <2>4, <2>5 DEF Done
  <2>7. e \in Entries
    <3>1. FrameFlags(unit) \in SUBSET {"keyframe", "sps_pps", "delta"}
      BY DEF FrameFlags
    <3> QED
      BY <1>2, <2>5, <3>1 DEF Entries
  <2>e. e.unit = unit /\ e.before = Done
    OBVIOUS
  <2> HIDE DEF e
  <2>8. /\ nals' \in Seq(Entries) /\ Len(nals') = Len(nals) + 1 /\ nals'[Len(nals) + 1] = e
        /\ \A k \in 1 .. Len(nals) : nals'[k] = nals[k]
    BY <1>2, <2>1, <2>7
  <2>9. SplitterTypeOK'
    BY <1>1, <2>1, <2>5, <2>8 DEF SplitterInv, AccumulatorOK, SplitterTypeOK, Entries
  <2>10. AccumulatorOK'
    <3>a. Done' \in 0 .. upto'
      BY <1>1, <1>s, <2>4, <2>6
    <3>b. accumulator' = Between(output, g, upto)
      BY <2>3 DEF g
    <3>1. Done' \in 0 .. upto' /\ accumulator' = Between(output', Done', upto')
      BY <1>1, <2>6, <3>a, <3>b
    <3>2. reader' \notin {"read", "ended"}
      BY <1>1, <2>1
    <3> QED
      BY <2>9, <3>1, <3>2 DEF AccumulatorOK
  <2>11. /\ \A k \in 1 .. Len(nals) : Before(k)' = Before(k)
         /\ \A k : k = Len(nals) + 1 => Before(k)' = Before(k) /\ Before(k)' = Done
         /\ \A k : k = Len(nals) + 2 => Before(k)' = g
    <3>1. \A k \in 1 .. Len(nals) : Before(k)' = Before(k)
      BY <1>2, <2>8 DEF Before
    <3>2. \A k : k = Len(nals) + 1 => Before(k) = Done /\ Before(k)' = Done
      BY <1>2, <2>8, <2>e DEF Before, Done
    <3>4. \A k : k = Len(nals) + 2 => Before(k)' = Done'
      BY <1>2, <2>8 DEF Before, Done
    <3> QED
      BY <2>6, <3>1, <3>2, <3>4
  <2>12. UnitsOK'
    <3>0. Before(1)' = 0
      <4>1. 1 \in 1 .. Len(nals) \/ 1 = Len(nals) + 1
        BY <1>2
      <4> QED
        BY <2>11, <4>1 DEF SplitterInv, UnitsOK
    <3>1. ASSUME NEW k \in 1 .. Len(nals')
          PROVE  /\ Before(k)' \in Nat /\ Before(k + 1)' \in Before(k)' .. upto
                 /\ nals'[k].unit = Between(output, Before(k)', Before(k + 1)')
                 /\ Boundary(Between(output, 0, upto), Before(k)' + 5) = Before(k + 1)' + 1
      <4>1. CASE k \in 1 .. Len(nals)
        <5>0. k + 1 \in 1 .. Len(nals) \/ k + 1 = Len(nals) + 1
          BY <1>2, <4>1
        <5>1. Before(k)' = Before(k) /\ Before(k + 1)' = Before(k + 1) /\ nals'[k] = nals[k]
          BY <2>8, <2>11, <4>1, <5>0
        <5> QED
          BY <4>1, <5>1 DEF SplitterInv, UnitsOK
      <4>2. CASE k = Len(nals) + 1
        <5>0. k + 1 = Len(nals) + 2
          BY <1>2, <4>2
        <5>1. Before(k)' = Done /\ Before(k + 1)' = g /\ nals'[k] = e
          BY <2>8, <2>11, <4>2, <5>0
        <5>2. Boundary(Between(output, 0, upto), Done + 5) = Done + b
          <6> DEFINE f == 5
          <6>1. f \in Nat \ {0} /\ upto \in upto .. Len(output)
            BY <1>2
          <6>2. Boundary(Between(output, Done, upto), f) = b
            BY <1>2 DEF b
          <6> HIDE DEF f
          <6>3. Boundary(Between(output, 0, upto), Done + f) = Done + b
            BY <2>o, <2>2, <2>a, <6>1, <6>2, BoundaryStays
          <6> QED
            BY <6>3 DEF f
        <5>3. g \in Done .. upto
          BY <1>2, <2>4
        <5> QED
          BY <1>2, <2>3, <2>4, <2>e, <5>1, <5>2, <5>3 DEF g
      <4> QED
        BY <1>2, <2>8, <4>1, <4>2
    <3> QED
      BY <1>1, <3>0, <3>1 DEF UnitsOK
  <2> QED
    BY <2>10, <2>12 DEF SplitterInv
<1> QED
  BY <1>3, <1>4

LEMMA SplitterInvStep == SplitterInv /\ [SplitterNext]_splitterVars => SplitterInv'
<1> SUFFICES ASSUME SplitterInv, [SplitterNext]_splitterVars PROVE SplitterInv'
  OBVIOUS
<1>1. CASE EndOfOutput
  BY <1>1 DEF EndOfOutput, SplitterInv, AccumulatorOK, UnitsOK, SplitterTypeOK, Done, Before
<1>2. CASE UNCHANGED splitterVars
  BY <1>2 DEF splitterVars, SplitterInv, AccumulatorOK, UnitsOK, SplitterTypeOK, Done, Before
<1> QED
  BY <1>1, <1>2, ReadKeeps, CutKeeps DEF SplitterNext

\* The units cut off so far and the rest are the output read so far.
LEMMA SplitterInvIgnores == SplitterInv => SplitIgnoresReads
<1> SUFFICES ASSUME SplitterInv PROVE SplitIgnoresReads
  OBVIOUS
<1>1. Before(Len(nals) + 1) = Done
  BY DEF SplitterInv, AccumulatorOK, SplitterTypeOK, Before, Done
<1>2. Between(output, 0, upto) = SubSeq(output, 1, upto)
  BY DEF Between
<1>3. accumulator = SubSeq(output, Before(Len(nals) + 1) + 1, upto)
  BY <1>1 DEF SplitterInv, AccumulatorOK, Between
<1>4. ASSUME NEW k \in 1 .. Len(nals)
      PROVE  /\ nals[k].unit = SubSeq(output, Before(k) + 1, Before(k + 1))
             /\ Boundary(SubSeq(output, 1, upto), Before(k) + 5) = Before(k + 1) + 1
  <2>1. /\ nals[k].unit = Between(output, Before(k), Before(k + 1))
        /\ Boundary(Between(output, 0, upto), Before(k) + 5) = Before(k + 1) + 1
    BY DEF SplitterInv, UnitsOK
  <2> QED
    BY <1>2, <2>1 DEF Between
<1> QED
  BY <1>3, <1>4 DEF SplitterInv, AccumulatorOK, UnitsOK, SplitIgnoresReads

\* The units are those of the output, however it was read (transcode.rs:209-238).
THEOREM SplittingIgnoresReads == SplitterSpec => []SplitIgnoresReads
BY SplitterInvIgnores, SplitterInvInit, SplitterInvStep, PTL DEF SplitterSpec

(***************************************************************************)
(* ViewerSession                                                           *)
(***************************************************************************)

Worker == [running : BOOLEAN, process : BOOLEAN, count : Nat]

ViewerPlaces == {"out", "lookup", "subscribe", "watching", "pool", "spawn", "insert", "attach", "transcoded"}

ViewingSet(g, n) ==
    [at : ViewerPlaces, target : StreamIds \cup {"none"}, h264 : BOOLEAN, tries : 0 .. Retries,
     gateway : 0 .. g, worker : 0 .. n]

\* The workers are records, and a viewer that came as far as to have one has one
\* of them.
WorkersOK ==
    /\ workers \in Seq(Worker)
    /\ gateways \in Nat
    /\ \A v \in Viewers :
           /\ viewing[v].at # "out" => viewing[v].target \in StreamIds
           /\ viewing[v].at \in {"insert", "attach", "transcoded"} => viewing[v].worker \in 1 .. Len(workers)

\* A worker's count is the number of its viewers.
CountsOK == \A w \in 1 .. Len(workers) : workers[w].count = Cardinality(Attached(w))

ViewerInv == ViewerTypeOK /\ WorkersOK /\ CountsOK

LEMMA ViewerInvInit == ViewerInit => ViewerInv
<1> SUFFICES ASSUME ViewerInit PROVE ViewerInv
  OBVIOUS
<1>1. Len(workers) = 0 /\ workers \in Seq(Worker)
  BY DEF ViewerInit
<1>2. NotConnected \in ViewingSet(0, 0)
  BY ViewerAssumption DEF NotConnected, ViewingSet, ViewerPlaces
<1>3. viewing \in [Viewers -> ViewingSet(0, 0)]
  BY <1>2 DEF ViewerInit
<1>4. ViewerTypeOK
  BY <1>1, <1>3 DEF ViewerInit, ViewerTypeOK, ViewingSet, ViewerPlaces
<1>5. WorkersOK
  BY <1>1 DEF ViewerInit, WorkersOK, NotConnected
<1> QED
  BY <1>1, <1>4, <1>5 DEF ViewerInv, CountsOK

\* A connection that goes on without taking or leaving a place at a worker
\* leaves every count right.
LEMMA OneViewerMoves ==
    ASSUME ViewerInv, NEW v \in Viewers, NEW r,
           viewing' = [viewing EXCEPT ![v] = r], r \in ViewingSet(gateways, Len(workers)),
           viewing[v].at # "transcoded", r.at # "transcoded",
           r.at # "out" => r.target \in StreamIds,
           r.at \in {"insert", "attach"} => r.worker \in 1 .. Len(workers),
           UNCHANGED <<entries, gateways, down, pool, workers>>
    PROVE  ViewerInv'
<1>1. viewing \in [Viewers -> ViewingSet(gateways, Len(workers))]
  BY DEF ViewerInv, ViewerTypeOK, ViewingSet, ViewerPlaces
<1>2. viewing' \in [Viewers -> ViewingSet(gateways, Len(workers))]
  BY <1>1
<1>3. viewing'[v] = r /\ \A u \in Viewers : u # v => viewing'[u] = viewing[u]
  BY <1>1
<1>4. ViewerTypeOK'
  BY <1>2 DEF ViewerInv, ViewerTypeOK, ViewingSet, ViewerPlaces
<1>5. WorkersOK'
  BY <1>3 DEF ViewerInv, WorkersOK
<1>6. \A w : Attached(w)' = Attached(w)
  BY <1>3 DEF Attached
<1> QED
  BY <1>4, <1>5, <1>6 DEF ViewerInv, CountsOK

\* What a viewer that is connected holds.
LEMMA ViewerHolds ==
    ASSUME ViewerInv, NEW v \in Viewers
    PROVE  /\ viewing[v] \in ViewingSet(gateways, Len(workers))
           /\ viewing[v].at # "out" => viewing[v].target \in StreamIds
           /\ viewing[v].at \in {"insert", "attach", "transcoded"} => viewing[v].worker \in 1 .. Len(workers)
BY DEF ViewerInv, ViewerTypeOK, WorkersOK, ViewingSet, ViewerPlaces

LEMMA NotConnectedOK ==
    ASSUME NEW g \in Nat, NEW n \in Nat
    PROVE  NotConnected \in ViewingSet(g, n) /\ NotConnected.at = "out"
BY ViewerAssumption DEF NotConnected, ViewingSet, ViewerPlaces

LEMMA ViewerConnects ==
    ASSUME ViewerInv, NEW v \in Viewers, NEW id \in StreamIds, ConnectViewer(v, id)
    PROVE  ViewerInv'
<1>0. gateways \in Nat /\ Len(workers) \in Nat
  BY DEF ViewerInv, WorkersOK
<1>1. PICK sub \in BOOLEAN, h264 \in BOOLEAN :
          viewing' = [viewing EXCEPT ![v] = [NotConnected EXCEPT
               !.at = "lookup", !.h264 = h264,
               !.target = IF sub /\ entries[SubOf[id]].gateway # 0 THEN SubOf[id] ELSE id]]
  BY DEF ConnectViewer
<1> DEFINE to == IF sub /\ entries[SubOf[id]].gateway # 0 THEN SubOf[id] ELSE id
           r == [NotConnected EXCEPT !.at = "lookup", !.h264 = h264, !.target = to]
<1>2. to \in StreamIds
  BY ViewerAssumption
<1> HIDE DEF to
<1>3. r \in ViewingSet(gateways, Len(workers)) /\ r.at = "lookup" /\ r.target = to
  <2>1. NotConnected \in ViewingSet(gateways, Len(workers))
    BY <1>0, NotConnectedOK
  <2> QED
    BY <1>2, <2>1 DEF ViewingSet, ViewerPlaces
<1>4. viewing' = [viewing EXCEPT ![v] = r]
  BY <1>1 DEF to
<1> HIDE DEF r
<1> QED
  BY <1>2, <1>3, <1>4, OneViewerMoves DEF ConnectViewer

LEMMA ViewerLooksUp ==
    ASSUME ViewerInv, NEW v \in Viewers, LookUp(v)
    PROVE  ViewerInv'
<1>0. gateways \in Nat /\ Len(workers) \in Nat
  BY DEF ViewerInv, WorkersOK
<1>1. viewing[v].at = "lookup" /\ viewing[v].target \in StreamIds
      /\ viewing[v] \in ViewingSet(gateways, Len(workers))
      /\ UNCHANGED <<entries, gateways, down, pool, workers>>
  BY ViewerHolds DEF LookUp
<1> DEFINE entry == entries[viewing[v].target]
<1>2. entry.gateway \in 0 .. gateways
  BY <1>1 DEF ViewerInv, ViewerTypeOK
<1> DEFINE next == IF entry.codec = "h265" /\ viewing[v].h264 THEN "pool" ELSE "subscribe"
<1>3. CASE entry.gateway # 0
  <2> DEFINE r == [viewing[v] EXCEPT !.gateway = entry.gateway, !.at = next]
  <2>1. next \in {"pool", "subscribe"}
    OBVIOUS
  <2>2. viewing' = [viewing EXCEPT ![v] = r]
    BY <1>3 DEF LookUp, ViewerInv, ViewerTypeOK
  <2> HIDE DEF next, entry
  <2>3. r \in ViewingSet(gateways, Len(workers)) /\ r.at = next /\ r.target = viewing[v].target
    BY <1>1, <1>2, <2>1 DEF ViewingSet, ViewerPlaces
  <2> HIDE DEF r
  <2> QED
    BY <1>1, <2>1, <2>2, <2>3, OneViewerMoves
<1>4. CASE entry.gateway = 0 /\ viewing[v].tries + 1 < Retries
  <2> DEFINE r == [viewing[v] EXCEPT !.tries = @ + 1]
  <2>1. viewing' = [viewing EXCEPT ![v] = r]
    BY <1>4 DEF LookUp, ViewerInv, ViewerTypeOK
  <2>2. r \in ViewingSet(gateways, Len(workers)) /\ r.at = "lookup" /\ r.target = viewing[v].target
    BY <1>1, <1>4, ViewerAssumption DEF ViewingSet, ViewerPlaces
  <2> HIDE DEF r
  <2> QED
    BY <1>1, <2>1, <2>2, OneViewerMoves
<1>5. CASE entry.gateway = 0 /\ ~(viewing[v].tries + 1 < Retries)
  <2>1. viewing' = [viewing EXCEPT ![v] = NotConnected]
    BY <1>5 DEF LookUp, Disconnect
  <2> QED
    BY <1>0, <1>1, <2>1, NotConnectedOK, OneViewerMoves
<1> QED
  BY <1>3, <1>4, <1>5

\* A viewer that moves on with what it has, or gives up.
LEMMA ViewerMoves ==
    ASSUME ViewerInv, NEW v \in Viewers, NEW to \in ViewerPlaces \ {"transcoded"}, MoveTo(v, to) \/ Disconnect(v),
           viewing[v].at \notin {"out", "transcoded"},
           to \in {"insert", "attach"} => viewing[v].at \in {"insert", "attach"},
           UNCHANGED <<entries, gateways, down, pool, workers>>
    PROVE  ViewerInv'
<1>0. gateways \in Nat /\ Len(workers) \in Nat
  BY DEF ViewerInv, WorkersOK
<1>1. CASE MoveTo(v, to)
  <2> DEFINE r == [viewing[v] EXCEPT !.at = to]
  <2>1. viewing' = [viewing EXCEPT ![v] = r]
    BY <1>1 DEF MoveTo, ViewerInv, ViewerTypeOK
  <2>2. /\ r \in ViewingSet(gateways, Len(workers)) /\ r.at = to /\ r.target = viewing[v].target
        /\ r.worker = viewing[v].worker
    BY ViewerHolds DEF ViewingSet
  <2> HIDE DEF r
  <2> QED
    BY <2>1, <2>2, ViewerHolds, OneViewerMoves
<1>2. CASE Disconnect(v)
  BY <1>0, <1>2, NotConnectedOK, OneViewerMoves DEF Disconnect
<1> QED
  BY <1>1, <1>2

LEMMA ViewerFindsWorker ==
    ASSUME ViewerInv, NEW v \in Viewers, FindWorker(v)
    PROVE  ViewerInv'
<1> DEFINE w == pool[viewing[v].target]
<1>1. viewing[v].at = "pool" /\ viewing[v].target \in StreamIds
      /\ UNCHANGED <<entries, gateways, down, pool, workers>>
  BY ViewerHolds DEF FindWorker
<1>2. w \in 0 .. Len(workers)
  BY <1>1 DEF ViewerInv, ViewerTypeOK
<1>3. CASE w # 0 /\ workers[w].running
  <2> DEFINE r == [viewing[v] EXCEPT !.worker = w, !.at = "attach"]
  <2>1. viewing' = [viewing EXCEPT ![v] = r]
    BY <1>3 DEF FindWorker, ViewerInv, ViewerTypeOK
  <2> HIDE DEF w
  <2>2. /\ r \in ViewingSet(gateways, Len(workers)) /\ r.at = "attach" /\ r.target = viewing[v].target
        /\ r.worker = w
    BY <1>2, ViewerHolds DEF ViewingSet, ViewerPlaces
  <2>3. w \in 1 .. Len(workers)
    BY <1>2, <1>3
  <2> HIDE DEF r
  <2> QED
    BY <1>1, <2>1, <2>2, <2>3, OneViewerMoves
<1>4. CASE ~(w # 0 /\ workers[w].running)
  <2>1. MoveTo(v, "spawn")
    BY <1>4 DEF FindWorker
  <2> QED
    BY <1>1, <2>1, ViewerMoves DEF ViewerPlaces
<1> QED
  BY <1>3, <1>4

\* A new worker has no viewers yet.
LEMMA ViewerSpawns ==
    ASSUME ViewerInv, NEW v \in Viewers, SpawnWorker(v)
    PROVE  ViewerInv'
<1> DEFINE new == [running |-> TRUE, process |-> TRUE, count |-> 0]
           r == [viewing[v] EXCEPT !.worker = Len(workers'), !.at = "insert"]
<1>1. /\ viewing[v].at = "spawn" /\ workers' = Append(workers, new)
      /\ viewing' = [viewing EXCEPT ![v] = r]
      /\ UNCHANGED <<entries, gateways, down, pool>>
  BY DEF SpawnWorker, ViewerInv, ViewerTypeOK
<1>2. workers \in Seq(Worker) /\ Len(workers) \in Nat /\ new \in Worker
  BY DEF ViewerInv, WorkersOK, Worker
<1>3. /\ workers' \in Seq(Worker) /\ Len(workers') = Len(workers) + 1
      /\ workers'[Len(workers) + 1] = new
      /\ \A w \in 1 .. Len(workers) : workers'[w] = workers[w]
  <2> HIDE DEF new
  <2> QED
    BY <1>1, <1>2
<1>4. /\ r \in ViewingSet(gateways, Len(workers')) /\ r.at = "insert" /\ r.target = viewing[v].target
      /\ r.worker = Len(workers')
  <2>1. viewing[v] \in ViewingSet(gateways, Len(workers'))
    BY <1>2, <1>3, ViewerHolds DEF ViewingSet
  <2>2. Len(workers') \in 0 .. Len(workers')
    BY <1>2, <1>3
  <2> QED
    BY <2>1, <2>2 DEF ViewingSet, ViewerPlaces
<1> HIDE DEF r
<1>5. \A u \in Viewers : viewing[u] \in ViewingSet(gateways, Len(workers'))
  BY <1>2, <1>3, ViewerHolds DEF ViewingSet
<1>6. viewing'[v] = r /\ \A u \in Viewers : u # v => viewing'[u] = viewing[u]
  BY <1>1 DEF ViewerInv, ViewerTypeOK
<1>7. viewing' \in [Viewers -> ViewingSet(gateways, Len(workers'))]
  <2>1. viewing' = [u \in Viewers |-> viewing'[u]]
    BY <1>1 DEF ViewerInv, ViewerTypeOK
  <2> QED
    BY <1>4, <1>5, <1>6, <2>1
<1>8. ViewerTypeOK'
  <2>1. pool' \in [StreamIds -> 0 .. Len(workers')]
    BY <1>1, <1>2, <1>3 DEF ViewerInv, ViewerTypeOK
  <2> QED
    BY <1>1, <1>7, <2>1 DEF ViewerInv, ViewerTypeOK, ViewingSet, ViewerPlaces
<1>9. WorkersOK'
  BY <1>1, <1>2, <1>3, <1>4, <1>6, ViewerHolds DEF ViewerInv, WorkersOK
<1>10. \A w : Attached(w)' = Attached(w)
  BY <1>1, <1>4, <1>6 DEF Attached
<1>11. Cardinality(Attached(Len(workers) + 1)) = 0
  <2>1. Attached(Len(workers) + 1) = {}
    BY <1>2 DEF Attached, ViewerInv, WorkersOK
  <2> QED
    BY <2>1, FS_EmptySet
<1>12. CountsOK'
  <2> SUFFICES ASSUME NEW w \in 1 .. Len(workers') PROVE workers'[w].count = Cardinality(Attached(w))
    BY <1>10 DEF CountsOK
  <2>1. CASE w = Len(workers) + 1
    BY <1>3, <1>11, <2>1
  <2>2. CASE w # Len(workers) + 1
    <3>1. w \in 1 .. Len(workers)
      BY <1>2, <1>3, <2>2
    <3> QED
      BY <1>3, <3>1 DEF ViewerInv, CountsOK
  <2> QED
    BY <2>1, <2>2
<1> QED
  BY <1>8, <1>9, <1>12 DEF ViewerInv

\* What happens to one worker without a viewer coming or going, or with one.
LEMMA OneWorkerChanges ==
    ASSUME ViewerInv, NEW w \in 1 .. Len(workers), NEW r \in Worker,
           workers' = [workers EXCEPT ![w] = r]
    PROVE  /\ workers' \in Seq(Worker) /\ Len(workers') = Len(workers)
           /\ workers'[w] = r /\ \A u \in 1 .. Len(workers) : u # w => workers'[u] = workers[u]
BY DEF ViewerInv, WorkersOK

LEMMA WorkerOf ==
    ASSUME ViewerInv, NEW w \in 1 .. Len(workers)
    PROVE  workers[w] \in Worker
<1>1. workers \in Seq(Worker)
  BY DEF ViewerInv, WorkersOK
<1> QED
  BY <1>1

LEMMA ViewerAttaches ==
    ASSUME ViewerInv, NEW v \in Viewers, Attach(v)
    PROVE  ViewerInv'
<1> DEFINE w == viewing[v].worker
           c == workers[w].count
           r == [viewing[v] EXCEPT !.at = "transcoded"]
           new == [workers[w] EXCEPT !.count = c + 1]
<1>1. /\ viewing[v].at = "attach" /\ viewing' = [viewing EXCEPT ![v] = r]
      /\ UNCHANGED <<entries, gateways, down, pool>>
  BY DEF Attach, MoveTo, ViewerInv, ViewerTypeOK
<1>2. w \in 1 .. Len(workers) /\ workers[w] \in Worker /\ c \in Nat
  BY <1>1, ViewerHolds, WorkerOf DEF Worker
<1>3. workers' = [workers EXCEPT ![w] = new]
  BY <1>2 DEF Attach
<1>4. new \in Worker /\ new.count = c + 1
  BY <1>2 DEF Worker
<1>5. /\ r \in ViewingSet(gateways, Len(workers)) /\ r.at = "transcoded" /\ r.target = viewing[v].target
      /\ r.worker = w
  BY ViewerHolds DEF ViewingSet, ViewerPlaces
<1> HIDE DEF new, r
<1>6. /\ workers' \in Seq(Worker) /\ Len(workers') = Len(workers)
      /\ workers'[w] = new /\ \A u \in 1 .. Len(workers) : u # w => workers'[u] = workers[u]
  BY <1>2, <1>3, <1>4, OneWorkerChanges
<1>7. viewing'[v] = r /\ \A u \in Viewers : u # v => viewing'[u] = viewing[u]
  BY <1>1 DEF ViewerInv, ViewerTypeOK
<1>8. ViewerTypeOK'
  <2>1. viewing' \in [Viewers -> ViewingSet(gateways, Len(workers))]
    BY <1>1, <1>5 DEF ViewerInv, ViewerTypeOK, ViewingSet, ViewerPlaces
  <2> QED
    BY <1>1, <1>6, <2>1 DEF ViewerInv, ViewerTypeOK, ViewingSet, ViewerPlaces
<1>9. WorkersOK'
  BY <1>1, <1>2, <1>5, <1>6, <1>7, ViewerHolds DEF ViewerInv, WorkersOK
<1>10. CountsOK'
  <2> SUFFICES ASSUME NEW u \in 1 .. Len(workers') PROVE workers'[u].count = Cardinality(Attached(u)')
    BY DEF CountsOK
  <2>0. u \in 1 .. Len(workers) /\ workers[u].count = Cardinality(Attached(u))
    BY <1>6 DEF ViewerInv, CountsOK
  <2>1. CASE u = w
    <3>1. Attached(u)' = Attached(u) \cup {v} /\ v \notin Attached(u)
      BY <1>1, <1>5, <1>7, <2>1 DEF Attached
    <3>2. IsFiniteSet(Attached(u))
      BY ViewerAssumption, FS_Subset DEF Attached
    <3>3. Cardinality(Attached(u)') = Cardinality(Attached(u)) + 1
      BY <3>1, <3>2, FS_AddElement
    <3> QED
      BY <1>4, <1>6, <2>0, <2>1, <3>3
  <2>2. CASE u # w
    <3>1. Attached(u)' = Attached(u)
      BY <1>1, <1>5, <1>7, <2>2 DEF Attached
    <3> QED
      BY <1>6, <2>0, <2>2, <3>1
  <2> QED
    BY <2>1, <2>2
<1> QED
  BY <1>8, <1>9, <1>10 DEF ViewerInv

LEMMA ViewerDetaches ==
    ASSUME ViewerInv, NEW v \in Viewers, Detach(v)
    PROVE  ViewerInv'
<1> DEFINE w == viewing[v].worker
           c == workers[w].count
           new == [workers[w] EXCEPT !.count = c - 1]
<1>1. /\ viewing[v].at = "transcoded" /\ viewing' = [viewing EXCEPT ![v] = NotConnected]
      /\ UNCHANGED <<entries, gateways, down, pool>>
  BY DEF Detach, Disconnect
<1>2. w \in 1 .. Len(workers) /\ workers[w] \in Worker /\ c \in Nat /\ gateways \in Nat /\ Len(workers) \in Nat
  BY <1>1, ViewerHolds, WorkerOf DEF Worker, ViewerInv, WorkersOK
<1>3. workers' = [workers EXCEPT ![w] = new]
  BY <1>2 DEF Detach
<1>a. IsFiniteSet(Attached(w)) /\ v \in Attached(w) /\ c = Cardinality(Attached(w))
  <2>1. IsFiniteSet(Attached(w))
    BY ViewerAssumption, FS_Subset DEF Attached
  <2>2. v \in Attached(w)
    BY <1>1 DEF Attached
  <2>3. c = Cardinality(Attached(w))
    BY <1>2 DEF ViewerInv, CountsOK
  <2> QED
    BY <2>1, <2>2, <2>3
<1>b. Cardinality(Attached(w) \ {v}) = c - 1 /\ c - 1 \in Nat
  <2>1. Cardinality(Attached(w) \ {v}) = c - 1
    BY <1>a, FS_RemoveElement
  <2>2. Cardinality(Attached(w) \ {v}) \in Nat
    BY <1>a, FS_RemoveElement, FS_CardinalityType
  <2> QED
    BY <2>1, <2>2
<1>4. new \in Worker /\ new.count = c - 1
  BY <1>2, <1>b DEF Worker
<1> HIDE DEF new
<1>6. /\ workers' \in Seq(Worker) /\ Len(workers') = Len(workers)
      /\ workers'[w] = new /\ \A u \in 1 .. Len(workers) : u # w => workers'[u] = workers[u]
  BY <1>2, <1>3, <1>4, OneWorkerChanges
<1>7. viewing'[v] = NotConnected /\ \A u \in Viewers : u # v => viewing'[u] = viewing[u]
  BY <1>1 DEF ViewerInv, ViewerTypeOK
<1>8. ViewerTypeOK'
  <2>1. viewing' \in [Viewers -> ViewingSet(gateways, Len(workers))]
    BY <1>1, <1>2, NotConnectedOK DEF ViewerInv, ViewerTypeOK, ViewingSet, ViewerPlaces
  <2> QED
    BY <1>1, <1>6, <2>1 DEF ViewerInv, ViewerTypeOK, ViewingSet, ViewerPlaces
<1>9. WorkersOK'
  BY <1>1, <1>2, <1>6, <1>7, NotConnectedOK, ViewerHolds DEF ViewerInv, WorkersOK
<1>10. CountsOK'
  <2> SUFFICES ASSUME NEW u \in 1 .. Len(workers') PROVE workers'[u].count = Cardinality(Attached(u)')
    BY DEF CountsOK
  <2>0. u \in 1 .. Len(workers) /\ workers[u].count = Cardinality(Attached(u))
    BY <1>6 DEF ViewerInv, CountsOK
  <2>1. CASE u = w
    <3>1. Attached(u)' = Attached(w) \ {v}
      BY <1>1, <1>2, <1>7, <2>1, NotConnectedOK DEF Attached
    <3> QED
      BY <1>4, <1>6, <1>b, <2>1, <3>1
  <2>2. CASE u # w
    <3>1. Attached(u)' = Attached(u)
      BY <1>1, <1>2, <1>7, <2>2, NotConnectedOK DEF Attached
    <3> QED
      BY <1>6, <2>0, <2>2, <3>1
  <2> QED
    BY <2>1, <2>2
<1> QED
  BY <1>8, <1>9, <1>10 DEF ViewerInv

\* The process and its watchdog know nothing of viewers.
LEMMA WorkerEnds ==
    ASSUME ViewerInv, NEW w \in 1 .. Len(workers), ProcessExits(w) \/ Watchdog(w)
    PROVE  ViewerInv'
<1>1. UNCHANGED <<entries, gateways, down, pool, viewing>>
  BY DEF ProcessExits, Watchdog
<1>2. PICK r \in Worker : r.count = workers[w].count /\ workers' = [workers EXCEPT ![w] = r]
  <2>1. workers[w] \in Worker
    BY WorkerOf
  <2>2. CASE ProcessExits(w)
    <3> DEFINE r == [workers[w] EXCEPT !.process = FALSE]
    <3>1. r \in Worker /\ r.count = workers[w].count
      BY <2>1 DEF Worker
    <3>2. workers' = [workers EXCEPT ![w] = r]
      BY <2>2 DEF ProcessExits
    <3> QED
      BY <3>1, <3>2
  <2>3. CASE Watchdog(w)
    <3> DEFINE r == [workers[w] EXCEPT !.running = FALSE]
    <3>1. r \in Worker /\ r.count = workers[w].count
      BY <2>1 DEF Worker
    <3>2. workers' = [workers EXCEPT ![w] = r]
      BY <2>3 DEF Watchdog
    <3> QED
      BY <3>1, <3>2
  <2> QED
    BY <2>2, <2>3
<1>3. /\ workers' \in Seq(Worker) /\ Len(workers') = Len(workers)
      /\ workers'[w] = r /\ \A u \in 1 .. Len(workers) : u # w => workers'[u] = workers[u]
  BY <1>2, OneWorkerChanges
<1>4. \A u : Attached(u)' = Attached(u)
  BY <1>1 DEF Attached
<1>5. CountsOK'
  <2> SUFFICES ASSUME NEW u \in 1 .. Len(workers) PROVE workers'[u].count = Cardinality(Attached(u))
    BY <1>3, <1>4 DEF CountsOK
  <2>1. workers'[u].count = workers[u].count
    BY <1>2, <1>3
  <2> QED
    BY <2>1 DEF ViewerInv, CountsOK
<1>6. ViewerTypeOK'
  BY <1>1, <1>3 DEF ViewerInv, ViewerTypeOK
<1>7. WorkersOK'
  BY <1>1, <1>3 DEF ViewerInv, WorkersOK
<1> QED
  BY <1>5, <1>6, <1>7 DEF ViewerInv

\* What happens in the registry and in the pool is nothing to the counts.
LEMMA RegistryMoves ==
    ASSUME ViewerInv, NEW id \in StreamIds,
           \/ \E codec \in {"h264", "h265"} : Announce(id, codec)
           \/ \E g \in 1 .. gateways : Withdraw(id, g)
           \/ \E g \in 1 .. gateways : ShutGateway(g)
    PROVE  ViewerInv'
<1>1. UNCHANGED <<pool, workers, viewing>>
  BY DEF Announce, Withdraw, ShutGateway
<1>2. gateways \in Nat /\ gateways' \in Nat /\ gateways <= gateways'
  BY DEF Announce, Withdraw, ShutGateway, ViewerInv, WorkersOK
<1>3. entries' \in [StreamIds -> [gateway : 0 .. gateways', codec : {"h264", "h265"}]]
  <2>1. ASSUME NEW codec \in {"h264", "h265"}, Announce(id, codec)
        PROVE  entries' \in [StreamIds -> [gateway : 0 .. gateways', codec : {"h264", "h265"}]]
    <3>1. entries \in [StreamIds -> [gateway : 0 .. gateways', codec : {"h264", "h265"}]]
      BY <1>2 DEF ViewerInv, ViewerTypeOK
    <3>2. gateways + 1 \in 0 .. gateways'
      BY <1>2, <2>1 DEF Announce
    <3> QED
      BY <2>1, <3>1, <3>2 DEF Announce
  <2>2. ASSUME NEW g \in 1 .. gateways, Withdraw(id, g)
        PROVE  entries' \in [StreamIds -> [gateway : 0 .. gateways', codec : {"h264", "h265"}]]
    <3>1. entries \in [StreamIds -> [gateway : 0 .. gateways, codec : {"h264", "h265"}]]
      BY DEF ViewerInv, ViewerTypeOK
    <3>2. 0 \in 0 .. gateways /\ gateways' = gateways
      BY <1>2, <2>2 DEF Withdraw
    <3>3. entries' = [entries EXCEPT ![id].gateway = 0]
      BY <2>2 DEF Withdraw
    <3> QED
      BY <3>1, <3>2, <3>3
  <2>3. ASSUME NEW g \in 1 .. gateways, ShutGateway(g)
        PROVE  entries' \in [StreamIds -> [gateway : 0 .. gateways', codec : {"h264", "h265"}]]
    BY <2>3 DEF ShutGateway, ViewerInv, ViewerTypeOK
  <2> QED
    BY <2>1, <2>2, <2>3
<1>4. down' \subseteq 1 .. gateways'
  BY <1>2 DEF Announce, Withdraw, ShutGateway, ViewerInv, ViewerTypeOK
<1>5. viewing' \in [Viewers -> ViewingSet(gateways', Len(workers'))]
  <2>1. \A v \in Viewers : viewing[v] \in ViewingSet(gateways', Len(workers))
    BY <1>2, ViewerHolds DEF ViewingSet
  <2>2. viewing = [v \in Viewers |-> viewing[v]]
    BY DEF ViewerInv, ViewerTypeOK
  <2> QED
    BY <1>1, <2>1, <2>2
<1>6. ViewerTypeOK'
  BY <1>1, <1>3, <1>4, <1>5 DEF ViewerInv, ViewerTypeOK, ViewingSet, ViewerPlaces
<1>7. WorkersOK' /\ CountsOK'
  BY <1>1, <1>2 DEF ViewerInv, WorkersOK, CountsOK, Attached
<1> QED
  BY <1>6, <1>7 DEF ViewerInv

LEMMA PoolMoves ==
    ASSUME ViewerInv, NEW p \in [StreamIds -> 0 .. Len(workers)], pool' = p,
           UNCHANGED <<entries, gateways, down, workers, viewing>>
    PROVE  ViewerInv'
BY DEF ViewerInv, ViewerTypeOK, WorkersOK, CountsOK, Attached

LEMMA ViewerInserts ==
    ASSUME ViewerInv, NEW v \in Viewers, InsertWorker(v)
    PROVE  ViewerInv'
<1> DEFINE w == viewing[v].worker
           r == [viewing[v] EXCEPT !.at = "attach"]
<1>1. /\ viewing[v].at = "insert" /\ viewing' = [viewing EXCEPT ![v] = r]
      /\ pool' = [pool EXCEPT ![viewing[v].target] = w]
      /\ UNCHANGED <<entries, gateways, down, workers>>
  BY DEF InsertWorker, MoveTo, ViewerInv, ViewerTypeOK
<1>2. w \in 1 .. Len(workers) /\ viewing[v].target \in StreamIds
  BY <1>1, ViewerHolds
<1>3. /\ r \in ViewingSet(gateways, Len(workers)) /\ r.at = "attach" /\ r.target = viewing[v].target
      /\ r.worker = w
  BY ViewerHolds DEF ViewingSet, ViewerPlaces
<1> HIDE DEF r
<1>7. viewing'[v] = r /\ \A u \in Viewers : u # v => viewing'[u] = viewing[u]
  BY <1>1 DEF ViewerInv, ViewerTypeOK
<1>8. ViewerTypeOK'
  <2>1. viewing' \in [Viewers -> ViewingSet(gateways, Len(workers))]
    BY <1>1, <1>3 DEF ViewerInv, ViewerTypeOK, ViewingSet, ViewerPlaces
  <2>2. pool' \in [StreamIds -> 0 .. Len(workers)]
    BY <1>1, <1>2 DEF ViewerInv, ViewerTypeOK
  <2> QED
    BY <1>1, <2>1, <2>2 DEF ViewerInv, ViewerTypeOK, ViewingSet, ViewerPlaces
<1>9. WorkersOK'
  BY <1>1, <1>2, <1>3, <1>7 DEF ViewerInv, WorkersOK
<1>10. \A u : Attached(u)' = Attached(u)
  BY <1>1, <1>3, <1>7 DEF Attached
<1> QED
  BY <1>1, <1>8, <1>9, <1>10 DEF ViewerInv, CountsOK

LEMMA ViewerInvStep == ViewerInv /\ [ViewerNext]_viewerVars => ViewerInv'
<1> SUFFICES ASSUME ViewerInv, [ViewerNext]_viewerVars PROVE ViewerInv'
  OBVIOUS
<1>1. ASSUME NEW id \in StreamIds, NEW codec \in {"h264", "h265"}, Announce(id, codec) PROVE ViewerInv'
  BY <1>1, RegistryMoves
<1>2. ASSUME NEW id \in StreamIds, NEW g \in 1 .. gateways, Withdraw(id, g) PROVE ViewerInv'
  BY <1>2, RegistryMoves
<1>3. ASSUME NEW g \in 1 .. gateways, ShutGateway(g) PROVE ViewerInv'
  <2>1. UNCHANGED <<entries, gateways, pool, workers, viewing>> /\ down' \subseteq 1 .. gateways
    BY <1>3 DEF ShutGateway, ViewerInv, ViewerTypeOK
  <2> QED
    BY <2>1 DEF ViewerInv, ViewerTypeOK, WorkersOK, CountsOK, Attached
<1>4. ASSUME NEW v \in Viewers, NEW id \in StreamIds, ConnectViewer(v, id) PROVE ViewerInv'
  BY <1>4, ViewerConnects
<1>5. ASSUME NEW v \in Viewers, LookUp(v) PROVE ViewerInv'
  BY <1>5, ViewerLooksUp
<1>6. ASSUME NEW v \in Viewers, SubscribeViewer(v) \/ StopWatching(v) \/ SpawnFails(v) PROVE ViewerInv'
  <2>1. /\ MoveTo(v, "watching") \/ Disconnect(v)
        /\ viewing[v].at \notin {"out", "transcoded"}
        /\ UNCHANGED <<entries, gateways, down, pool, workers>>
    BY <1>6 DEF SubscribeViewer, StopWatching, SpawnFails
  <2> QED
    BY <2>1, ViewerMoves DEF ViewerPlaces
<1>7. ASSUME NEW v \in Viewers, FindWorker(v) PROVE ViewerInv'
  BY <1>7, ViewerFindsWorker
<1>8. ASSUME NEW v \in Viewers, SpawnWorker(v) PROVE ViewerInv'
  BY <1>8, ViewerSpawns
<1>9. ASSUME NEW v \in Viewers, InsertWorker(v) PROVE ViewerInv'
  BY <1>9, ViewerInserts
<1>10. ASSUME NEW v \in Viewers, Attach(v) \/ Detach(v) PROVE ViewerInv'
  BY <1>10, ViewerAttaches, ViewerDetaches
<1>11. ASSUME NEW w \in 1 .. Len(workers), ProcessExits(w) \/ Watchdog(w) PROVE ViewerInv'
  BY <1>11, WorkerEnds
<1>12. CASE ReapIdle
  <2>1. pool' \in [StreamIds -> 0 .. Len(workers)]
    <3>1. Len(workers) \in Nat /\ \A id \in StreamIds : pool[id] \in 0 .. Len(workers)
      BY DEF ViewerInv, ViewerTypeOK, WorkersOK
    <3> QED
      BY <1>12, <3>1 DEF ReapIdle
  <2> QED
    BY <1>12, <2>1, PoolMoves DEF ReapIdle
<1>13. CASE UNCHANGED viewerVars
  BY <1>13 DEF viewerVars, ViewerInv, ViewerTypeOK, WorkersOK, CountsOK, Attached
<1> QED
  BY <1>1, <1>2, <1>3, <1>4, <1>5, <1>6, <1>7, <1>8, <1>9, <1>10, <1>11, <1>12, <1>13 DEF ViewerNext

\* No worker that works for a viewer is taken off the pool for nothing.
LEMMA ReapingSpares ==
    ASSUME ViewerInv, [ViewerNext]_viewerVars, NEW id \in StreamIds,
           pool[id] # 0, Attached(pool[id]) # {}, workers[pool[id]].running
    PROVE  pool'[id] # 0
<1>1. pool[id] \in 1 .. Len(workers)
  BY DEF ViewerInv, ViewerTypeOK
<1>2. workers[pool[id]].count # 0
  <2>1. IsFiniteSet(Attached(pool[id]))
    BY ViewerAssumption, FS_Subset DEF Attached
  <2>2. Cardinality(Attached(pool[id])) # 0
    BY <2>1, FS_EmptySet
  <2> QED
    BY <1>1, <2>2 DEF ViewerInv, CountsOK
<1>3. CASE ReapIdle
  BY <1>2, <1>3 DEF ReapIdle
<1>4. ASSUME NEW v \in Viewers, InsertWorker(v) PROVE pool'[id] # 0
  <2>1. viewing[v].worker \in 1 .. Len(workers) /\ viewing[v].target \in StreamIds
    BY <1>4, ViewerHolds DEF InsertWorker
  <2> QED
    BY <1>4, <2>1 DEF InsertWorker, ViewerInv, ViewerTypeOK
<1>5. CASE UNCHANGED pool
  BY <1>5
<1> QED
  BY <1>3, <1>4, <1>5 DEF ViewerNext, viewerVars, Announce, Withdraw, ShutGateway, ConnectViewer, LookUp,
     SubscribeViewer, StopWatching, FindWorker, SpawnWorker, SpawnFails, Attach, Detach, ProcessExits, Watchdog

\* A worker counts its viewers, and is not reaped while it has any, whatever
\* viewers, processes and reaping do (transcode.rs:174-182, 289-300).
THEOREM WorkersCountViewers == ViewerSpec => CountsMatchViewers
<1>1. ViewerInv => \A w \in DOMAIN workers : workers[w].count = Cardinality(Attached(w))
  BY DEF ViewerInv, WorkersOK, CountsOK
<1>2. ViewerInv /\ [ViewerNext]_viewerVars =>
          [\A id \in StreamIds :
              pool[id] # 0 /\ Attached(pool[id]) # {} /\ workers[pool[id]].running => pool'[id] # 0]_viewerVars
  BY ReapingSpares
<1> QED
  BY <1>1, <1>2, ViewerInvInit, ViewerInvStep, PTL DEF ViewerSpec, CountsMatchViewers

(***************************************************************************)
(* CircuitBreaker                                                          *)
(***************************************************************************)

LEMMA BreakerTypeInit == BreakerInit => BreakerTypeOK
BY BreakerAssumption DEF BreakerInit, BreakerTypeOK

LEMMA BreakerTypeStep == BreakerTypeOK /\ [BreakerNext]_breakerVars => BreakerTypeOK'
<1> SUFFICES ASSUME BreakerTypeOK, [BreakerNext]_breakerVars PROVE BreakerTypeOK'
  OBVIOUS
<1>1. UpTo(FailureThreshold, failures + 1) \in 0 .. FailureThreshold
  BY BreakerAssumption DEF UpTo, BreakerTypeOK
<1>2. UpTo(SuccessThreshold, successes + 1) \in 0 .. SuccessThreshold
  BY BreakerAssumption DEF UpTo, BreakerTypeOK
<1>3. 0 \in 0 .. FailureThreshold /\ 0 \in 0 .. SuccessThreshold /\ 0 \in 0 .. Cooldown
  BY BreakerAssumption
<1>4. CASE TimePasses
  BY <1>4, BreakerAssumption DEF TimePasses, BreakerTypeOK
<1>5. ASSUME NEW c \in Callers, Served(c) PROVE BreakerTypeOK'
  <2> USE DEF Step, BreakerTypeOK
  <2>1. CASE Allow(c) \/ ResetCircuit(c) \/ CheckCooldown(c)
    BY <2>1 DEF Allow, ResetCircuit, CheckCooldown
  <2>2. CASE HalfOpen(c) \/ Succeed(c) \/ Close(c) \/ Open(c)
    BY <2>2 DEF HalfOpen, Succeed, Close, Open
  <2>3. CASE ClearSuccesses(c) \/ ClearFailures(c) \/ StampChange(c) \/ ResetFailures(c) \/ ResetSuccesses(c)
    BY <1>3, <2>3 DEF ClearSuccesses, ClearFailures, StampChange, ResetFailures, ResetSuccesses
  <2>4. CASE CountSuccess(c)
    BY <1>2, <2>4 DEF CountSuccess
  <2>5. CASE Fail(c)
    BY <1>1, <2>5 DEF Fail
  <2> QED
    BY <1>5, <2>1, <2>2, <2>3, <2>4, <2>5 DEF Served, Carry
<1>6. CASE UNCHANGED breakerVars
  BY <1>6 DEF breakerVars, BreakerTypeOK
<1> QED
  BY <1>4, <1>5, <1>6 DEF BreakerNext

(***************************************************************************)
(* The parts side by side                                                  *)
(***************************************************************************)

\* What of an actor's state its type promises.
LEMMA ActorInvTypes == ActorInv => ActorTypeOK
<1> SUFFICES ASSUME ActorInv PROVE ActorTypeOK
  OBVIOUS
<1>1. /\ actor.total \in Nat /\ actor.latest_seq \in Nat /\ actor.latest \in Nat /\ actor.since_key \in Nat
      /\ actor.gop_size \in Nat /\ recorded \in 0 .. MaxRecords /\ MaxRecords \in Nat
      /\ actor.running \in BOOLEAN /\ Len(mailbox) <= MailboxCapacity
      /\ caller \in [Handles -> CallerSet]
  BY ActorAssumption DEF ActorInv, MailOK, ActorSet
<1>2. /\ actor.since_key <= actor.total /\ actor.gop_size <= actor.total
      /\ actor.latest <= actor.latest_seq /\ actor.total <= recorded /\ actor.latest_seq <= recorded
  BY DEF ActorInv, RecordsOrdered
<1>3. /\ actor.total \in 0 .. MaxRecords /\ actor.latest_seq \in 0 .. MaxRecords /\ actor.latest \in 0 .. MaxRecords
      /\ actor.since_key \in 0 .. MaxRecords /\ actor.gop_size \in 0 .. MaxRecords
  BY <1>1, <1>2
<1>4. \A k \in {"latest_seq", "latest", "gop_size", "since_key", "total"} : actor[k] \in 0 .. MaxRecords
  BY <1>3
<1> QED
  BY <1>1, <1>4 DEF ActorTypeOK, CallerSet, AskKinds

MutexInv == TypeOK /\ MutualExclusion

LEMMA MutexInvInit == Init => MutexInv
BY MutexAssumption DEF Init, MutexInv, TypeOK, MutualExclusion, UNLOCKED

LocksInv == MutexInv /\ SemaphoreInv /\ ParkingInv /\ RcuInv
CallsInv == BreakerTypeOK /\ BridgeInv /\ ActorInv
StreamsInv == ChunkInv /\ SplitterInv /\ ViewerInv /\ RelayInv

EngineInv == LocksInv /\ CallsInv /\ StreamsInv

LEMMA EngineInvInit == PartsInit => EngineInv
BY MutexInvInit, SemaphoreInvInit, ParkingInvInit, RcuInvInit, BreakerTypeInit, BridgeInvInit,
   ActorInvInit, ChunkInvInit, SplitterInvInit, ViewerInvInit, RelayInvInit
   DEF PartsInit, EngineInv, LocksInv, CallsInv, StreamsInv

\* A step of one part is no step of another.
LEMMA EngineStepIs ==
    ASSUME [PartsNext]_parts
    PROVE  /\ [Next]_vars /\ [SemaphoreNext]_semaphoreVars /\ [ParkingNext]_parkingVars /\ [RcuNext]_rcuVars
           /\ [BreakerNext]_breakerVars /\ [BridgeNext]_bridgeVars /\ [ActorNext]_actorVars
           /\ [ChunkNext]_chunkVars /\ [SplitterNext]_splitterVars /\ [ViewerNext]_viewerVars
           /\ [RelayNext]_relayVars
<1>1. CASE LocksNext
  <2>1. UNCHANGED calls /\ UNCHANGED streams
    BY <1>1 DEF LocksNext
  <2> QED
    BY <1>1, <2>1 DEF LocksNext, calls, streams
<1>2. CASE CallsNext
  <2>1. UNCHANGED locks /\ UNCHANGED streams
    BY <1>2 DEF CallsNext
  <2> QED
    BY <1>2, <2>1 DEF CallsNext, locks, streams
<1>3. CASE StreamsNext
  <2>1. UNCHANGED locks /\ UNCHANGED calls
    BY <1>3 DEF StreamsNext
  <2> QED
    BY <1>3, <2>1 DEF StreamsNext, locks, calls
<1>4. CASE UNCHANGED parts
  <2>1. UNCHANGED locks /\ UNCHANGED calls /\ UNCHANGED streams
    BY <1>4 DEF parts
  <2> QED
    BY <2>1 DEF locks, calls, streams
<1> QED
  BY <1>1, <1>2, <1>3, <1>4 DEF PartsNext

LEMMA EngineInvStep == EngineInv /\ [PartsNext]_parts => EngineInv'
<1> SUFFICES ASSUME EngineInv, [PartsNext]_parts PROVE EngineInv'
  OBVIOUS
<1>1. LocksInv'
  BY EngineStepIs, MutexTypeStep, MutexExclusionStep, SemaphoreInvStep, ParkingInvStep, RcuInvStep
     DEF EngineInv, LocksInv, MutexInv
<1>2. CallsInv'
  <2>1. ActorInv'
    BY EngineStepIs, ActorStep DEF EngineInv, CallsInv
  <2> QED
    BY <2>1, EngineStepIs, BreakerTypeStep, BridgeInvStep DEF EngineInv, CallsInv
<1>3. StreamsInv'
  BY EngineStepIs, ChunkInvStep, SplitterInvStep, ViewerInvStep, RelayInvStep DEF EngineInv, StreamsInv
<1> QED
  BY <1>1, <1>2, <1>3 DEF EngineInv

\* Whichever part is run, the variables of all of them stay in their sets and all
\* their invariants hold.
THEOREM EnginePartsCorrect ==
    PartsSpec => [](/\ PartsTypeOK /\ MutualExclusion /\ SemaphoreSound /\ ParkedAreNotForgotten
                    /\ EachBoxFreedOnce /\ BridgeKeepsOrder /\ Reassembles /\ SplitIgnoresReads
                    /\ GapsOnlyForLaggards)
<1>1. EngineInv => /\ PartsTypeOK /\ MutualExclusion /\ SemaphoreSound /\ ParkedAreNotForgotten
                   /\ EachBoxFreedOnce /\ BridgeKeepsOrder /\ Reassembles /\ SplitIgnoresReads
                   /\ GapsOnlyForLaggards
  <2> SUFFICES ASSUME EngineInv PROVE /\ PartsTypeOK /\ MutualExclusion /\ SemaphoreSound /\ ParkedAreNotForgotten
                                      /\ EachBoxFreedOnce /\ BridgeKeepsOrder /\ Reassembles
                                      /\ SplitIgnoresReads /\ GapsOnlyForLaggards
    OBVIOUS
  <2>1. ChunkTypeOK /\ SplitterTypeOK /\ ViewerTypeOK /\ RelayTypeOK /\ GapsOnlyForLaggards
    BY ChunkInvTypes DEF EngineInv, StreamsInv, SplitterInv, AccumulatorOK, ViewerInv, RelayInv
  <2>2. BreakerTypeOK /\ BridgeTypeOK /\ ActorTypeOK /\ BridgeKeepsOrder
    BY ActorInvTypes DEF EngineInv, CallsInv, BridgeInv
  <2>3. /\ TypeOK /\ SemaphoreTypeOK /\ ParkingTypeOK /\ RcuTypeOK /\ MutualExclusion
        /\ SemaphoreSound /\ ParkedAreNotForgotten /\ EachBoxFreedOnce
    BY DEF EngineInv, LocksInv, MutexInv, SemaphoreInv, ParkingInv, RcuInv
  <2>4. Reassembles /\ SplitIgnoresReads
    BY ChunkInvReassembles, SplitterInvIgnores DEF EngineInv, StreamsInv
  <2> QED
    BY <2>1, <2>2, <2>3, <2>4 DEF PartsTypeOK
<1>2. PartsSpec => PartsInit /\ [][PartsNext]_parts
  BY DEF PartsSpec, PartsSafety
<1> QED
  BY <1>1, <1>2, EngineInvInit, EngineInvStep, PTL
=============================================================================
