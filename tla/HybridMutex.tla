---------------------------- MODULE HybridMutex ------------------------------
(***************************************************************************)
(* HybridMutex of crates/hydra-engine/src/sync.rs: a three-state mutex     *)
(* that spins and then sleeps on a futex.  Each step is one atomic access  *)
(* to the state word or one futex call.  All accesses that publish or      *)
(* obtain the lock are Acquire/Release operations on the one word, so      *)
(* interleaving is all there is to its weak-memory behaviour.              *)
(***************************************************************************)
EXTENDS Naturals

CONSTANTS
    Threads,
    SpinLimit    \* iterations of the spin phase (100 in the build)

ASSUME MutexAssumption == SpinLimit \in Nat

VARIABLES
    state,       \* the futex word
    pc,          \* where each thread is in lock() and unlock()
    spin_count   \* iterations its spin phase has used

vars == <<state, pc, spin_count>>

UNLOCKED == 0
LOCKED == 1
LOCKED_WITH_WAITERS == 2

Goto(t, from, to) == pc[t] = from /\ pc' = [pc EXCEPT ![t] = to]

\* compare_exchange(UNLOCKED, LOCKED) by thread t at `from`.
TryLock(t, from, failed) ==
    /\ Goto(t, from, IF state = UNLOCKED THEN "in" ELSE failed)
    /\ state' = IF state = UNLOCKED THEN LOCKED ELSE state

\* lock(): the uncontended attempt.
LockFast(t) ==
    /\ TryLock(t, "out", "spin")
    /\ spin_count' = [spin_count EXCEPT ![t] = 0]

\* A bug: one iteration more than the budget.
SpinOnceMore(t) ==
    /\ pc[t] = "spin"
    /\ IF state = LOCKED /\ spin_count[t] <= SpinLimit
       THEN spin_count' = [spin_count EXCEPT ![t] = @ + 1] /\ UNCHANGED pc
       ELSE pc' = [pc EXCEPT ![t] = "retry"] /\ UNCHANGED spin_count
    /\ UNCHANGED state

\* The spin loop goes on only while the word is LOCKED and the budget lasts.
Spin(t) ==
    /\ pc[t] = "spin"
    /\ IF state = LOCKED /\ spin_count[t] < SpinLimit
       THEN spin_count' = [spin_count EXCEPT ![t] = @ + 1] /\ UNCHANGED pc
       ELSE pc' = [pc EXCEPT ![t] = "retry"] /\ UNCHANGED spin_count
    /\ UNCHANGED state

Retry(t) ==
    /\ TryLock(t, "retry", "swap")
    /\ UNCHANGED spin_count

\* A bug: the word it found is only compared with LOCKED.
SwapInIfNotLocked(t) ==
    /\ Goto(t, "swap", IF state # LOCKED THEN "in" ELSE "wait")
    /\ state' = LOCKED_WITH_WAITERS
    /\ UNCHANGED spin_count

\* Whoever reaches the sleep phase leaves the word LOCKED_WITH_WAITERS, also
\* when it gets the lock: it cannot know whether others sleep.
SwapIn(t) ==
    /\ Goto(t, "swap", IF state = UNLOCKED THEN "in" ELSE "wait")
    /\ state' = LOCKED_WITH_WAITERS
    /\ UNCHANGED spin_count

\* FUTEX_WAIT_BITSET: compare with LOCKED_WITH_WAITERS and enqueue, atomically.
FutexWait(t) ==
    /\ Goto(t, "wait", IF state = LOCKED_WITH_WAITERS THEN "asleep" ELSE "swap")
    /\ UNCHANGED <<state, spin_count>>

\* A signal ends the wait.
Interrupted(t) ==
    /\ Goto(t, "asleep", "swap")
    /\ UNCHANGED <<state, spin_count>>

\* A bug: the wake-up is left to whoever locks next.
UnlockWithoutWake(t) ==
    /\ Goto(t, "in", "out")
    /\ state' = UNLOCKED
    /\ UNCHANGED spin_count

\* Guard drop: swap in UNLOCKED; only a word with waiters needs the wake-up.
Unlock(t) ==
    /\ Goto(t, "in", IF state = LOCKED_WITH_WAITERS THEN "wake" ELSE "out")
    /\ state' = UNLOCKED
    /\ UNCHANGED spin_count

\* futex_wake_one: the kernel picks one sleeper, if there is any.
WakeOne(t) ==
    /\ pc[t] = "wake"
    /\ IF \A u \in Threads : pc[u] # "asleep"
       THEN pc' = [pc EXCEPT ![t] = "out"]
       ELSE \E u \in Threads :
                /\ pc[u] = "asleep"
                /\ pc' = [pc EXCEPT ![t] = "out", ![u] = "swap"]
    /\ UNCHANGED <<state, spin_count>>

Init ==
    /\ state = UNLOCKED
    /\ pc = [t \in Threads |-> "out"]
    /\ spin_count = [t \in Threads |-> 0]

\* What a thread does by itself inside lock() and unlock().
Proceed(t) ==
    Spin(t) \/ Retry(t) \/ SwapIn(t) \/ FutexWait(t) \/ WakeOne(t)

Next ==
    \E t \in Threads :
        \/ LockFast(t) \/ Spin(t) \/ Retry(t) \/ SwapIn(t) \/ FutexWait(t)
        \/ Interrupted(t) \/ Unlock(t) \/ WakeOne(t)

Spec == Init /\ [][Next]_vars

\* Threads inside the two functions are scheduled; nobody has to call lock(),
\* drop the guard or be interrupted.
FairSpec == Spec /\ \A t \in Threads : WF_vars(Proceed(t))

-----------------------------------------------------------------------------
(* Properties                                                              *)

TypeOK ==
    /\ state \in {UNLOCKED, LOCKED, LOCKED_WITH_WAITERS}
    /\ pc \in [Threads -> {"out", "spin", "retry", "swap", "wait", "asleep", "in", "wake"}]
    /\ spin_count \in [Threads -> 0 .. SpinLimit]

Blocked(t) == pc[t] \in {"spin", "retry", "swap", "wait", "asleep"}

\* The guard's Deref and DerefMut (sync.rs:164-175) hand out the data to one
\* thread at a time, and the word says locked exactly while somebody owns it:
\* the waiters that overwrite it never leave it locked without an owner.
MutualExclusion ==
    /\ \A t, u \in Threads : pc[t] = "in" /\ pc[u] = "in" => t = u
    /\ state # UNLOCKED <=> \E t \in Threads : pc[t] = "in"

\* A thread asleep in the kernel is never forgotten: the word still announces
\* waiters, or an unlocker is about to wake one, or a thread already woken is
\* about to set the word again before it sleeps (sync.rs:142-156).
SleepersRemembered ==
    (\E t \in Threads : pc[t] = "asleep") =>
        \/ state = LOCKED_WITH_WAITERS
        \/ \E t \in Threads : pc[t] \in {"wake", "swap"}

LockSpec == INSTANCE Lock WITH
    wanting <- {t \in Threads : Blocked(t)},
    holding <- {t \in Threads : pc[t] = "in"}

\* The mutex implements a lock, its progress included: no interleaving of
\* spinning, sleeping and waking leaves a free lock with everybody asleep.
ImplementsLock == LockSpec!FairSpec
=============================================================================
