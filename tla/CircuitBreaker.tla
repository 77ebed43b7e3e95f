--------------------------- MODULE CircuitBreaker ----------------------------
(***************************************************************************)
(* StreamCircuitBreaker of crates/hydra-engine/src/resilience.rs: a state  *)
(* word, two counters and a timestamp, each an atomic of its own that      *)
(* concurrent callers read and write one at a time.  A caller asks, does   *)
(* its operation if it may, and reports how it went.                       *)
(***************************************************************************)
EXTENDS Naturals

CONSTANTS
    Callers,
    FailureThreshold,
    SuccessThreshold,   \* 3 in the build
    Cooldown            \* in ticks of the model's clock

ASSUME BreakerAssumption ==
    /\ FailureThreshold \in Nat \ {0} /\ SuccessThreshold \in Nat \ {0}
    /\ Cooldown \in Nat

VARIABLES
    circuit,      \* the state word
    failures,     \* failure_count, up to FailureThreshold: no test tells more apart
    successes,    \* success_count, up to SuccessThreshold
    age,          \* time since last_state_change_ms, up to Cooldown
    calling       \* where each caller is

breakerVars == <<circuit, failures, successes, age, calling>>

Step(c, from, to) == calling[c] = from /\ calling' = [calling EXCEPT ![c] = to]

UpTo(bound, n) == IF n > bound THEN bound ELSE n

\* allow_request: the load of the state.
Allow(c) ==
    /\ Step(c, "out", IF circuit = "open" THEN "check" ELSE "granted")
    /\ UNCHANGED <<circuit, failures, successes, age>>

\* A bug: a refused request counts as a state change.
CheckCooldownRestarting(c) ==
    /\ Step(c, "check", IF age >= Cooldown THEN "exchange" ELSE "out")
    /\ age' = IF age >= Cooldown THEN age ELSE 0
    /\ UNCHANGED <<circuit, failures, successes>>

\* The clock and the timestamp; too early refuses the request.
CheckCooldown(c) ==
    /\ Step(c, "check", IF age >= Cooldown THEN "exchange" ELSE "out")
    /\ UNCHANGED <<circuit, failures, successes, age>>

\* compare_exchange(OPEN, HALF_OPEN): one of the callers that got here wins.
HalfOpen(c) ==
    /\ Step(c, "exchange", IF circuit = "open" THEN "restart" ELSE "out")
    /\ circuit' = IF circuit = "open" THEN "half_open" ELSE circuit
    /\ UNCHANGED <<failures, successes, age>>

\* The winner clears success_count and is the first probe.
ClearSuccesses(c) ==
    /\ Step(c, "restart", "granted")
    /\ successes' = 0
    /\ UNCHANGED <<circuit, failures, age>>

\* record_success: the load of the state decides what is done later.
Succeed(c) ==
    /\ \/ circuit = "half_open" /\ Step(c, "granted", "count")
       \/ circuit = "closed" /\ Step(c, "granted", "clear")
       \/ circuit = "open" /\ Step(c, "granted", "out")
    /\ UNCHANGED <<circuit, failures, successes, age>>

CountSuccess(c) ==
    /\ Step(c, "count", IF successes + 1 >= SuccessThreshold THEN "clear_to_close" ELSE "out")
    /\ successes' = UpTo(SuccessThreshold, successes + 1)
    /\ UNCHANGED <<circuit, failures, age>>

ClearFailures(c) ==
    /\ Step(c, "clear", "out") \/ Step(c, "clear_to_close", "close")
    /\ failures' = 0
    /\ UNCHANGED <<circuit, successes, age>>

Close(c) ==
    /\ Step(c, "close", "out")
    /\ circuit' = "closed"
    /\ UNCHANGED <<failures, successes, age>>

\* record_failure: at the threshold the circuit opens, from whatever state, ...
Fail(c) ==
    /\ Step(c, "granted", IF failures + 1 >= FailureThreshold THEN "open" ELSE "out")
    /\ failures' = UpTo(FailureThreshold, failures + 1)
    /\ UNCHANGED <<circuit, successes, age>>

Open(c) ==
    /\ Step(c, "open", "stamp")
    /\ circuit' = "open"
    /\ UNCHANGED <<failures, successes, age>>

\* ... and only then is the time stored.
StampChange(c) ==
    /\ Step(c, "stamp", "out")
    /\ age' = 0
    /\ UNCHANGED <<circuit, failures, successes>>

\* reset() by an operator, who is one of the callers: three stores.
ResetCircuit(c) ==
    /\ Step(c, "out", "reset_failures")
    /\ circuit' = "closed"
    /\ UNCHANGED <<failures, successes, age>>

ResetFailures(c) ==
    /\ Step(c, "reset_failures", "reset_successes")
    /\ failures' = 0
    /\ UNCHANGED <<circuit, successes, age>>

ResetSuccesses(c) ==
    /\ Step(c, "reset_successes", "out")
    /\ successes' = 0
    /\ UNCHANGED <<circuit, failures, age>>

TimePasses ==
    /\ age < Cooldown
    /\ age' = age + 1
    /\ UNCHANGED <<circuit, failures, successes, calling>>

BreakerInit ==
    /\ circuit = "closed"
    /\ failures = 0 /\ successes = 0
    /\ age \in 0 .. Cooldown
    /\ calling = [c \in Callers |-> "out"]

\* What a caller does next of its own accord once it has called.
Carry(c) ==
    \/ CheckCooldown(c) \/ HalfOpen(c) \/ ClearSuccesses(c) \/ Succeed(c) \/ CountSuccess(c)
    \/ ClearFailures(c) \/ Close(c) \/ Fail(c) \/ Open(c) \/ StampChange(c)
    \/ ResetFailures(c) \/ ResetSuccesses(c)

\* What somebody does with the breaker: call it, or go on with a call.
Served(c) == Allow(c) \/ ResetCircuit(c) \/ Carry(c)

BreakerNext == TimePasses \/ \E c \in Callers : Served(c)

\* Time passes, calls run to their end, and requests keep arriving; nobody has
\* to call reset().
BreakerFair ==
    /\ WF_breakerVars(TimePasses)
    /\ \A c \in Callers : WF_breakerVars(Served(c))

BreakerSpec == BreakerInit /\ [][BreakerNext]_breakerVars

-----------------------------------------------------------------------------
(* Properties                                                              *)

BreakerTypeOK ==
    /\ circuit \in {"closed", "open", "half_open"}
    /\ failures \in 0 .. FailureThreshold
    /\ successes \in 0 .. SuccessThreshold
    /\ age \in 0 .. Cooldown
    /\ calling \in [Callers -> {"out", "granted", "check", "exchange", "restart", "count",
                                "clear", "clear_to_close", "close", "open", "stamp",
                                "reset_failures", "reset_successes"}]

\* An outage does not last for ever (resilience.rs:51-95): however callers
\* that fail, the late stamp of the opening and refused requests overlap, the
\* circuit lets a probe through again and again.
OpenIsProbed == []<>(circuit # "open")
=============================================================================
