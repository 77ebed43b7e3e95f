----------------------------- MODULE RingLogger ------------------------------
(***************************************************************************)
(* RingLogger of internal/adapters/secondary/logger: numbers and totals    *)
(* are atomics, taken before the lock under which an entry enters the ring.*)
(* Of the levels only "is an error" is told apart; warnings are counted    *)
(* like errors.                                                            *)
(***************************************************************************)
EXTENDS Naturals, Sequences, FiniteSets

CONSTANTS
    Writers,        \* goroutines that log
    Capacity,       \* 1000 by default
    MaxEntries      \* bound: entries logged in a run

ASSUME LoggerAssumption ==
    IsFiniteSet(Writers) /\ Capacity \in Nat \ {0} /\ MaxEntries \in Nat

VARIABLES
    next_id, total_logs, total_errs,
    writing,        \* per writer: where it is and its entry
    ring,           \* r.entries
    last_error,     \* r.lastError
    logged          \* history: every entry, in the order they entered the ring

loggerVars == <<next_id, total_logs, total_errs, writing, ring, last_error, logged>>

NoEntry == [id |-> 0, error |-> FALSE]

\* RecordLog: the number, ...
Number(w, error) ==
    /\ writing[w].at = "out" /\ next_id < MaxEntries
    /\ next_id' = next_id + 1
    /\ writing' = [writing EXCEPT ![w] = [at |-> "count", entry |-> [id |-> next_id + 1, error |-> error]]]
    /\ UNCHANGED <<total_logs, total_errs, ring, last_error, logged>>

\* ... the totals, ...
Count(w) ==
    /\ writing[w].at = "count"
    /\ total_logs' = total_logs + 1
    /\ writing' = [writing EXCEPT ![w].at = IF writing[w].entry.error THEN "count_error" ELSE "append"]
    /\ UNCHANGED <<next_id, total_errs, ring, last_error, logged>>

CountError(w) ==
    /\ writing[w].at = "count_error"
    /\ total_errs' = total_errs + 1
    /\ writing' = [writing EXCEPT ![w].at = "append"]
    /\ UNCHANGED <<next_id, total_logs, ring, last_error, logged>>

\* What is kept of the ring with a new entry in it.
Evicting(s, e) == IF Len(s) >= Capacity THEN Append(Tail(s), e) ELSE Append(s, e)

\* A bug: the error with the largest number is the last one.
AppendByNumber(w) ==
    LET e == writing[w].entry
    IN  /\ writing[w].at = "append"
        /\ last_error' = IF e.error /\ e.id > last_error.id THEN e ELSE last_error
        /\ ring' = Evicting(ring, e)
        /\ logged' = Append(logged, e)
        /\ writing' = [writing EXCEPT ![w] = [at |-> "out", entry |-> NoEntry]]
        /\ UNCHANGED <<next_id, total_logs, total_errs>>

\* ... and the entry, under the lock.
AppendEntry(w) ==
    LET e == writing[w].entry
    IN  /\ writing[w].at = "append"
        /\ last_error' = IF e.error THEN e ELSE last_error
        /\ ring' = Evicting(ring, e)
        /\ logged' = Append(logged, e)
        /\ writing' = [writing EXCEPT ![w] = [at |-> "out", entry |-> NoEntry]]
        /\ UNCHANGED <<next_id, total_logs, total_errs>>

\* The newest entries of the levels asked for, at most `page` of them, as
\* positions in the ring: an answer lists them from the largest down.
Newest(page, levels) ==
    LET found == {i \in DOMAIN ring : ring[i].error \in levels}
    IN  {i \in found : Cardinality({j \in found : j > i}) < page}

\* QueryLogs: the default page is 50, also for a limit beyond 500.
QueryLogs(limit, levels) == Newest(IF limit = 0 \/ limit > 500 THEN 50 ELSE limit, levels)

\* GetErrorSummary: 20 errors of the ring, and the totals.
GetErrorSummary == [total |-> total_errs, last |-> last_error, recent |-> Newest(20, {TRUE})]

LoggerInit ==
    /\ next_id = 0 /\ total_logs = 0 /\ total_errs = 0
    /\ writing = [w \in Writers |-> [at |-> "out", entry |-> NoEntry]]
    /\ ring = <<>> /\ last_error = NoEntry /\ logged = <<>>

LoggerNext ==
    \E w \in Writers :
        \/ \E error \in BOOLEAN : Number(w, error)
        \/ Count(w) \/ CountError(w) \/ AppendEntry(w)

LoggerSpec == LoggerInit /\ [][LoggerNext]_loggerVars

-----------------------------------------------------------------------------
(* Properties                                                              *)

LoggerTypeOK ==
    /\ {next_id, total_logs, total_errs} \subseteq 0 .. MaxEntries
    /\ writing \in [Writers -> [at : {"out", "count", "count_error", "append"},
                                entry : [id : 0 .. MaxEntries, error : BOOLEAN]]]
    /\ ring \in Seq([id : 1 .. MaxEntries, error : BOOLEAN])
    /\ logged \in Seq([id : 1 .. MaxEntries, error : BOOLEAN])
    /\ last_error \in [id : 0 .. MaxEntries, error : BOOLEAN]

\* What a query answers is consistent (ring_logger.go:77-111, 114-193), though
\* numbers and totals are taken before the lock and entries overtake each
\* other: the ring holds the newest entries, so that a page of any levels begins
\* with the newest entry of those levels that was logged, if one of the newest
\* `Capacity` is of them; the last error is the newest of the errors listed, or
\* an older one if none is left in the ring; every entry has been counted, and
\* no two have one number.
LogKeepsNewest ==
    LET summary == GetErrorSummary
        dropped == Len(logged) - Len(ring)
        Last(positions) == CHOOSE i \in positions : \A j \in positions : j <= i
    IN  /\ Len(ring) = (IF Len(logged) < Capacity THEN Len(logged) ELSE Capacity)
        /\ \A i \in DOMAIN ring : ring[i] = logged[dropped + i]
        /\ \A levels \in SUBSET BOOLEAN, i \in dropped + 1 .. Len(logged) :
               (logged[i].error \in levels /\ \A j \in i + 1 .. Len(logged) : logged[j].error \notin levels)
                   => \A limit \in 0 .. 501 : Last(QueryLogs(limit, levels)) = i - dropped
        /\ summary.recent # {} => summary.last = ring[Last(summary.recent)]
        /\ summary.recent = {} /\ summary.last # NoEntry =>
               \E i \in 1 .. dropped : logged[i] = summary.last
        /\ Len(logged) <= total_logs
        /\ Cardinality({i \in DOMAIN logged : logged[i].error}) <= summary.total
        /\ \A i, j \in DOMAIN logged : logged[i].id = logged[j].id => i = j
=============================================================================
