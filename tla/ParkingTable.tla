---------------------------- MODULE ParkingTable -----------------------------
(***************************************************************************)
(* ParkingTable of crates/hydra-engine/src/sync.rs: threads park on a key, *)
(* each on the private futex word of a fresh entry; unpark_all takes the   *)
(* entries of a key out of the table and then notifies them one by one.    *)
(* Keys of one bucket share its lock and nothing else.                     *)
(***************************************************************************)
EXTENDS Naturals, Sequences

CONSTANTS
    Parkers,      \* threads that park
    Unparkers,    \* threads that call unpark_all
    Keys,
    MaxParks      \* bound: calls of park() by one thread

ASSUME ParkingAssumption == MaxParks \in Nat \ {0}

VARIABLES
    table,        \* key -> the entries in its Vec
    notified,     \* entries whose word is 1
    parks,        \* how often each thread has parked; its entry is <<t, parks[t]>>
    parking,      \* where each parker is in park()
    unparking     \* what each unparker still has to notify, and whether it stored 1

parkingVars == <<table, notified, parks, parking, unparking>>

EntryOf(t) == <<t, parks[t]>>

\* park() pushes a fresh entry under the bucket's lock.
Park(t, key) ==
    /\ parking[t] = "out"
    /\ parks[t] < MaxParks
    /\ parking' = [parking EXCEPT ![t] = "check"]
    /\ parks' = [parks EXCEPT ![t] = @ + 1]
    /\ table' = [table EXCEPT ![key] = Append(@, <<t, parks[t] + 1>>)]
    /\ UNCHANGED <<notified, unparking>>

\* The load of `notified`: 1 ends the call, 0 goes on to the wait.
CheckNotified(t) ==
    /\ parking[t] = "check"
    /\ parking' = [parking EXCEPT ![t] = IF EntryOf(t) \in notified THEN "out" ELSE "wait"]
    /\ UNCHANGED <<table, notified, parks, unparking>>

\* The time is over: the call returns false and leaves its entry in the table.
ParkTimedOut(t) ==
    /\ parking[t] = "wait"
    /\ parking' = [parking EXCEPT ![t] = "out"]
    /\ UNCHANGED <<table, notified, parks, unparking>>

WaitOnEntry(t) ==
    /\ parking[t] = "wait"
    /\ parking' = [parking EXCEPT ![t] = IF EntryOf(t) \in notified THEN "check" ELSE "asleep"]
    /\ UNCHANGED <<table, notified, parks, unparking>>

ParkInterrupted(t) ==
    /\ parking[t] = "asleep"
    /\ parking' = [parking EXCEPT ![t] = "check"]
    /\ UNCHANGED <<table, notified, parks, unparking>>

\* unpark_all removes the key's entries under the lock.
TakeEntries(u, key) ==
    /\ unparking[u].rest = <<>>
    /\ table[key] # <<>>
    /\ unparking' = [unparking EXCEPT ![u] = [rest |-> table[key], stored |-> FALSE]]
    /\ table' = [table EXCEPT ![key] = <<>>]
    /\ UNCHANGED <<notified, parks, parking>>

\* A bug: only an entry whose thread sleeps already is told.
NotifySleeper(u) ==
    LET rest == unparking[u].rest
    IN  /\ rest # <<>> /\ ~unparking[u].stored
        /\ unparking' = [unparking EXCEPT ![u].stored = TRUE]
        /\ notified' = IF parking[Head(rest)[1]] = "asleep"
                       THEN notified \cup {Head(rest)} ELSE notified
        /\ UNCHANGED <<table, parks, parking>>

\* Store 1 to the word of the next entry.
Notify(u) ==
    /\ unparking[u].rest # <<>> /\ ~unparking[u].stored
    /\ unparking' = [unparking EXCEPT ![u].stored = TRUE]
    /\ notified' = notified \cup {Head(unparking[u].rest)}
    /\ UNCHANGED <<table, parks, parking>>

\* Wake the sleeper on that word, if its thread still waits there.
WakeEntry(u) ==
    LET entry == Head(unparking[u].rest)
    IN  /\ unparking[u].rest # <<>> /\ unparking[u].stored
        /\ unparking' = [unparking EXCEPT ![u] = [rest |-> Tail(@.rest), stored |-> FALSE]]
        /\ parking' = [t \in Parkers |->
               IF entry = EntryOf(t) /\ parking[t] = "asleep" THEN "check" ELSE parking[t]]
        /\ UNCHANGED <<table, notified, parks>>

ParkingInit ==
    /\ table = [key \in Keys |-> <<>>]
    /\ notified = {}
    /\ parks = [t \in Parkers |-> 0]
    /\ parking = [t \in Parkers |-> "out"]
    /\ unparking = [u \in Unparkers |-> [rest |-> <<>>, stored |-> FALSE]]

ParkingNext ==
    \/ \E t \in Parkers, key \in Keys : Park(t, key)
    \/ \E t \in Parkers :
           CheckNotified(t) \/ ParkTimedOut(t) \/ WaitOnEntry(t) \/ ParkInterrupted(t)
    \/ \E u \in Unparkers, key \in Keys : TakeEntries(u, key)
    \/ \E u \in Unparkers : Notify(u) \/ WakeEntry(u)

ParkingSpec == ParkingInit /\ [][ParkingNext]_parkingVars

-----------------------------------------------------------------------------
(* Properties                                                              *)

EntrySet == Parkers \X (1 .. MaxParks)

ParkingTypeOK ==
    /\ table \in [Keys -> Seq(EntrySet)]
    /\ notified \subseteq EntrySet
    /\ parks \in [Parkers -> 0 .. MaxParks]
    /\ parking \in [Parkers -> {"out", "check", "wait", "asleep"}]
    /\ unparking \in [Unparkers -> [rest : Seq(EntrySet), stored : BOOLEAN]]

InSeq(e, s) == \E i \in DOMAIN s : s[i] = e

\* The entry can still be reached by an unpark_all, or one has it in hand.
Reachable(e) ==
    \/ \E key \in Keys : InSeq(e, table[key])
    \/ \E u \in Unparkers : InSeq(e, unparking[u].rest)

\* A thread that parks is never forgotten (sync.rs:209-256), whatever entries
\* its earlier calls left behind when they timed out: until it is notified its
\* entry can be found, and if it sleeps on a word that is 1 the thread that
\* stored it is about to wake exactly that entry.
ParkedAreNotForgotten ==
    \A t \in Parkers :
        /\ parking[t] # "out" /\ EntryOf(t) \notin notified => Reachable(EntryOf(t))
        /\ parking[t] = "asleep" /\ EntryOf(t) \in notified =>
               \E u \in Unparkers :
                   /\ unparking[u].stored
                   /\ unparking[u].rest # <<>>
                   /\ Head(unparking[u].rest) = EntryOf(t)
=============================================================================
