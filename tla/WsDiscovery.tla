----------------------------- MODULE WsDiscovery ------------------------------
(***************************************************************************)
(* performWSDiscovery of internal/adapters/secondary/onvif: a goroutine    *)
(* per network interface asks for cameras and reads answers until the      *)
(* deadline; what they find goes into one list, under a mutex.  Answers    *)
(* may come at any interface, in any order and more than once.             *)
(***************************************************************************)
EXTENDS Naturals, Sequences

CONSTANTS
    Interfaces,
    Keys,          \* IPAddress:XAddr, as answers carry it
    NoKey,         \* of an answer without XAddrs
    BlankKey,      \* of an answer whose XAddrs holds no word
    NoListener,
    MaxAnswers     \* bound: answers read in a run

ASSUME DiscoveryAssumption ==
    /\ Interfaces # {} /\ NoListener \notin Interfaces
    /\ NoKey \notin Keys /\ BlankKey \notin Keys /\ NoKey # BlankKey
    /\ MaxAnswers \in Nat

VARIABLES
    discovery,     \* where performWSDiscovery is
    listener,      \* per interface: where its goroutine is, the key at hand
    list_lock,     \* mu
    seen, devices, \* what mu protects
    too_late,      \* the deadline is over
    given_up,      \* ctx is done
    answers,       \* answers read so far
    heard           \* history: the keys that were read

discoveryVars == <<discovery, listener, list_lock, seen, devices, too_late, given_up, answers, heard>>

\* Goroutine i, while the process lives.
Listens(i, from) == discovery = "wait" /\ listener[i].at = from

Resume(i, to) == listener' = [listener EXCEPT ![i].at = to]

\* The goroutines of the active interfaces are started, of 0.0.0.0 if there is
\* none; or the address of the group does not resolve.
StartDiscovery ==
    /\ discovery = "out"
    /\ \/ discovery' = "failed" /\ UNCHANGED listener
       \/ /\ discovery' = "wait"
          /\ \E active \in SUBSET Interfaces :
                 /\ active # {}
                 /\ listener' = [i \in Interfaces |-> [at |-> IF i \in active THEN "bind" ELSE "done", key |-> NoKey]]
    /\ UNCHANGED <<list_lock, seen, devices, too_late, given_up, answers, heard>>

\* The socket is bound and the probes are sent, to whatever can be reached.
BindAndAsk(i) ==
    /\ Listens(i, "bind")
    /\ Resume(i, "check") \/ Resume(i, "done")
    /\ UNCHANGED <<discovery, list_lock, seen, devices, too_late, given_up, answers, heard>>

CheckDeadline(i) ==
    /\ Listens(i, "check")
    /\ Resume(i, IF given_up \/ too_late THEN "done" ELSE "read")
    /\ UNCHANGED <<discovery, list_lock, seen, devices, too_late, given_up, answers, heard>>

\* An answer, or an error of the socket: at the deadline at the latest.
ReadAnswer(i) ==
    /\ Listens(i, "read")
    /\ \/ Resume(i, "done") /\ UNCHANGED answers
       \/ /\ answers < MaxAnswers
          /\ answers' = answers + 1
          /\ \E key \in Keys \cup {NoKey, BlankKey} : listener' = [listener EXCEPT ![i] = [at |-> "parse", key |-> key]]
    /\ UNCHANGED <<discovery, list_lock, seen, devices, too_late, given_up, heard>>

\* An index into the words of XAddrs: without one the process panics.
ParseProbeMatch(i) ==
    LET key == listener[i].key
    IN  /\ Listens(i, "parse")
        /\ discovery' = IF key = BlankKey THEN "panicked" ELSE discovery
        /\ Resume(i, IF key \in Keys THEN "lock" ELSE "check")
        /\ heard' = heard \cup ({key} \cap Keys)
        /\ UNCHANGED <<list_lock, seen, devices, too_late, given_up, answers>>

\* A bug: the list is not locked.
NoLockList(i) ==
    /\ Listens(i, "lock")
    /\ list_lock' = i
    /\ Resume(i, "look")
    /\ UNCHANGED <<discovery, seen, devices, too_late, given_up, answers, heard>>

LockList(i) ==
    /\ Listens(i, "lock") /\ list_lock = NoListener
    /\ list_lock' = i
    /\ Resume(i, "look")
    /\ UNCHANGED <<discovery, seen, devices, too_late, given_up, answers, heard>>

LookUpKey(i) ==
    /\ Listens(i, "look")
    /\ Resume(i, IF listener[i].key \in seen THEN "unlock" ELSE "mark")
    /\ UNCHANGED <<discovery, list_lock, seen, devices, too_late, given_up, answers, heard>>

MarkSeen(i) ==
    /\ Listens(i, "mark")
    /\ seen' = seen \cup {listener[i].key}
    /\ Resume(i, "append")
    /\ UNCHANGED <<discovery, list_lock, devices, too_late, given_up, answers, heard>>

AppendDevice(i) ==
    /\ Listens(i, "append")
    /\ devices' = Append(devices, listener[i].key)
    /\ Resume(i, "unlock")
    /\ UNCHANGED <<discovery, list_lock, seen, too_late, given_up, answers, heard>>

UnlockList(i) ==
    /\ Listens(i, "unlock")
    /\ list_lock' = NoListener
    /\ Resume(i, "check")
    /\ UNCHANGED <<discovery, seen, devices, too_late, given_up, answers, heard>>

\* wg.Wait.
ReturnDevices ==
    /\ discovery = "wait" /\ \A i \in Interfaces : listener[i].at = "done"
    /\ discovery' = "returned"
    /\ UNCHANGED <<listener, list_lock, seen, devices, too_late, given_up, answers, heard>>

DeadlinePasses ==
    /\ discovery = "wait" /\ ~too_late /\ too_late' = TRUE
    /\ UNCHANGED <<discovery, listener, list_lock, seen, devices, given_up, answers, heard>>

ClientGivesUp ==
    /\ discovery = "wait" /\ ~given_up /\ given_up' = TRUE
    /\ UNCHANGED <<discovery, listener, list_lock, seen, devices, too_late, answers, heard>>

DiscoveryInit ==
    /\ discovery = "out"
    /\ listener = [i \in Interfaces |-> [at |-> "done", key |-> NoKey]]
    /\ list_lock = NoListener
    /\ seen = {} /\ devices = <<>> /\ heard = {}
    /\ too_late = FALSE /\ given_up = FALSE /\ answers = 0

ListenerStep(i) ==
    \/ BindAndAsk(i) \/ CheckDeadline(i) \/ ReadAnswer(i) \/ ParseProbeMatch(i)
    \/ LockList(i) \/ LookUpKey(i) \/ MarkSeen(i) \/ AppendDevice(i) \/ UnlockList(i)

DiscoveryNext ==
    \/ StartDiscovery \/ ReturnDevices \/ DeadlinePasses \/ ClientGivesUp
    \/ \E i \in Interfaces : ListenerStep(i)

DiscoverySpec == DiscoveryInit /\ [][DiscoveryNext]_discoveryVars

-----------------------------------------------------------------------------
(* Properties                                                              *)

DiscoveryTypeOK ==
    /\ discovery \in {"out", "wait", "returned", "failed", "panicked"}
    /\ listener \in [Interfaces -> [at : {"bind", "check", "read", "parse", "lock", "look", "mark", "append",
                                          "unlock", "done"},
                                    key : Keys \cup {NoKey, BlankKey}]]
    /\ list_lock \in Interfaces \cup {NoListener}
    /\ seen \in SUBSET Keys /\ heard \in SUBSET Keys /\ devices \in Seq(Keys)
    /\ too_late \in BOOLEAN /\ given_up \in BOOLEAN /\ answers \in 0 .. MaxAnswers

\* The list holds no camera twice, however many interfaces and answers it was
\* heard through, and when the discovery returns it holds every camera that a
\* goroutine has read of, also of those that were at work when the deadline
\* passed or the client gave up (ws_discovery.go:109-187).
EachCameraListedOnce ==
    /\ \A j, k \in DOMAIN devices : devices[j] = devices[k] => j = k
    /\ discovery = "returned" => {devices[k] : k \in DOMAIN devices} = heard
=============================================================================
