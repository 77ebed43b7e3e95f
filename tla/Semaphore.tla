----------------------------- MODULE Semaphore -------------------------------
(***************************************************************************)
(* AtomicSemaphore of crates/hydra-engine/src/sync.rs: permits in one      *)
(* futex word.  Each step is one atomic access or one futex call.          *)
(***************************************************************************)
EXTENDS Naturals, FiniteSets

CONSTANTS
    Producers,    \* threads that acquire and release
    MaxPermits

ASSUME SemaphoreAssumption ==
    MaxPermits \in Nat \ {0} /\ IsFiniteSet(Producers)

VARIABLES
    permits,      \* the futex word
    acquiring,    \* where each producer is in acquire() and release()
    current       \* the value acquire() loaded last

semaphoreVars == <<permits, acquiring, current>>

GoOn(p, from, to) == acquiring[p] = from /\ acquiring' = [acquiring EXCEPT ![p] = to]

\* acquire() is called, or goes round its loop: load the word.
LoadPermits(p) ==
    /\ \/ GoOn(p, "out", IF permits > 0 THEN "exchange" ELSE "empty")
       \/ GoOn(p, "again", IF permits > 0 THEN "exchange" ELSE "empty")
    /\ current' = [current EXCEPT ![p] = permits]
    /\ UNCHANGED permits

\* compare_exchange_weak: it takes the permit, or fails because the word
\* changed or for no reason.
Exchange(p) ==
    /\ \/ /\ permits = current[p]
          /\ GoOn(p, "exchange", "in")
          /\ permits' = current[p] - 1
       \/ GoOn(p, "exchange", "again") /\ UNCHANGED permits
    /\ UNCHANGED current

AcquireTimedOut(p) ==
    /\ GoOn(p, "empty", "out")
    /\ UNCHANGED <<permits, current>>

\* FUTEX_WAIT_BITSET on the word: asleep if it is still 0.
WaitForPermit(p) ==
    /\ GoOn(p, "empty", IF permits = 0 THEN "asleep" ELSE "again")
    /\ UNCHANGED <<permits, current>>

\* A signal or the timeout ends the wait.
WaitEnds(p) ==
    /\ GoOn(p, "asleep", "again")
    /\ UNCHANGED <<permits, current>>

\* A bug: the wake-up is left out when the word was 1, not 0.
ReleaseWakingAtOne(p) ==
    /\ GoOn(p, "in", IF permits = 1 THEN "wake" ELSE "out")
    /\ permits' = permits + 1
    /\ UNCHANGED current

Release(p) ==
    /\ GoOn(p, "in", IF permits = 0 THEN "wake" ELSE "out")
    /\ permits' = permits + 1
    /\ UNCHANGED current

\* futex_wake_bitset wakes every sleeper.
WakeProducers(p) ==
    /\ acquiring[p] = "wake"
    /\ acquiring' = [q \in Producers |->
           CASE q = p -> "out"
             [] acquiring[q] = "asleep" -> "again"
             [] OTHER -> acquiring[q]]
    /\ UNCHANGED <<permits, current>>

SemaphoreInit ==
    /\ permits = MaxPermits
    /\ acquiring = [p \in Producers |-> "out"]
    /\ current = [p \in Producers |-> 0]

SemaphoreNext ==
    \E p \in Producers :
        \/ LoadPermits(p) \/ Exchange(p) \/ AcquireTimedOut(p) \/ WaitForPermit(p)
        \/ WaitEnds(p) \/ Release(p) \/ WakeProducers(p)

SemaphoreSpec == SemaphoreInit /\ [][SemaphoreNext]_semaphoreVars

-----------------------------------------------------------------------------
(* Properties                                                              *)

SemaphoreTypeOK ==
    /\ permits \in 0 .. MaxPermits
    /\ acquiring \in [Producers -> {"out", "again", "exchange", "empty", "asleep", "in", "wake"}]
    /\ current \in [Producers -> 0 .. MaxPermits]
    /\ \A p \in Producers : acquiring[p] = "exchange" => current[p] > 0

Holders == {p \in Producers : acquiring[p] = "in"}

PermitsConserved == permits + Cardinality(Holders) = MaxPermits

NoPermitSleptOn ==
    permits > 0 /\ (\E p \in Producers : acquiring[p] = "asleep") =>
        \E p \in Producers : acquiring[p] = "wake"

\* Backpressure is exact (sync.rs:33-72): permits are neither lost nor minted
\* by weak exchanges that fail, by time-outs or by releases that overlap, and
\* nobody sleeps on a free permit: whoever made the word positive while
\* producers slept is still about to wake them, although release() wakes only
\* when it found 0.
SemaphoreSound == PermitsConserved /\ NoPermitSleptOn
=============================================================================
