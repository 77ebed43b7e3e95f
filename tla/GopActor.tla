------------------------------- MODULE GopActor ------------------------------
(***************************************************************************)
(* GopActor of crates/hydra-engine/src/actor.rs: one task owns the state   *)
(* of the group of pictures and serves a bounded mailbox; callers record   *)
(* frames without an answer, and ask with a oneshot channel for one.       *)
(***************************************************************************)
EXTENDS Naturals, Sequences

CONSTANTS
    Handles,          \* tasks that hold a GopActorHandle
    MailboxCapacity,  \* max(capacity, 32) in the build
    MaxRecords        \* bound: frames recorded in a run

ASSUME ActorAssumption == MailboxCapacity \in Nat \ {0} /\ MaxRecords \in Nat

VARIABLES
    mailbox,      \* messages sent and not yet handled
    actor,        \* the actor's private state, and whether its loop runs
    recorded,     \* number of the last frame recorded
    caller        \* per handle: what it awaits, its last keyframe, its last answer

actorVars == <<mailbox, actor, recorded, caller>>

\* send().await finds room, or the loop has ended and the call fails.
Sent(message) ==
    /\ Len(mailbox) < MailboxCapacity
    /\ mailbox' = IF actor.running THEN Append(mailbox, message) ELSE mailbox

\* record_frame: a keyframe with or without a payload, or another frame.
RecordFrame(h) ==
    /\ caller[h].awaits = "nothing"
    /\ recorded < MaxRecords
    /\ recorded' = recorded + 1
    /\ \E key, payload \in BOOLEAN :
           /\ Sent([kind |-> "record", id |-> recorded + 1, key |-> key, payload |-> payload])
           /\ caller' = IF key /\ payload /\ actor.running
                        THEN [caller EXCEPT ![h].told = recorded + 1] ELSE caller
    /\ UNCHANGED actor

\* get_latest_keyframe and get_gop_stats send, and then await the reply.
Ask(h) ==
    /\ caller[h].awaits = "nothing"
    /\ \E kind \in {"keyframe", "stats"} :
           /\ Sent([kind |-> kind, from |-> h])
           /\ caller' = IF actor.running THEN [caller EXCEPT ![h].awaits = kind] ELSE caller
    /\ UNCHANGED <<actor, recorded>>

Shutdown(h) ==
    /\ caller[h].awaits = "nothing"
    /\ Sent([kind |-> "shutdown"])
    /\ UNCHANGED <<actor, recorded, caller>>

\* A bug: a keyframe without a payload forgets the one there was.
RecordingAnything(s, m) ==
    [s EXCEPT !.total = @ + 1,
              !.gop_size = IF m.key /\ s.latest_seq > 0 THEN s.since_key ELSE @,
              !.latest_seq = IF m.key THEN m.id ELSE @,
              !.latest = IF m.key THEN (IF m.payload THEN m.id ELSE 0) ELSE @,
              !.since_key = IF m.key THEN 1 ELSE @ + 1]

\* GopActorState::record_frame.
Recording(s, m) ==
    [s EXCEPT !.total = @ + 1,
              !.gop_size = IF m.key /\ s.latest_seq > 0 THEN s.since_key ELSE @,
              !.latest_seq = IF m.key THEN m.id ELSE @,
              !.latest = IF m.key /\ m.payload THEN m.id ELSE @,
              !.since_key = IF m.key THEN 1 ELSE @ + 1]

HandleRecord ==
    /\ actor.running /\ mailbox # <<>> /\ Head(mailbox).kind = "record"
    /\ actor' = Recording(actor, Head(mailbox))
    /\ mailbox' = Tail(mailbox)
    /\ UNCHANGED <<recorded, caller>>

\* The reply resumes the caller.
HandleAsk ==
    /\ actor.running /\ mailbox # <<>>
    /\ LET m == Head(mailbox)
       IN  /\ m.kind \in {"keyframe", "stats"}
           /\ caller' = [caller EXCEPT ![m.from].awaits = "nothing",
                             ![m.from].answer = IF m.kind = "keyframe" THEN actor.latest ELSE actor.latest_seq]
    /\ mailbox' = Tail(mailbox)
    /\ UNCHANGED <<actor, recorded>>

\* The loop ends: the mailbox is dropped, and with it the reply channels of
\* those that wait, whose calls return GatewayClosed.
HandleShutdown ==
    /\ actor.running /\ mailbox # <<>> /\ Head(mailbox).kind = "shutdown"
    /\ actor' = [actor EXCEPT !.running = FALSE]
    /\ mailbox' = <<>>
    /\ caller' = [h \in Handles |-> [caller[h] EXCEPT !.awaits = "nothing"]]
    /\ UNCHANGED recorded

ActorInit ==
    /\ mailbox = <<>>
    /\ actor = [running |-> TRUE, latest_seq |-> 0, latest |-> 0, gop_size |-> 0,
                since_key |-> 0, total |-> 0]
    /\ recorded = 0
    /\ caller = [h \in Handles |-> [awaits |-> "nothing", told |-> 0, answer |-> 0]]

ActorNext ==
    \/ \E h \in Handles : RecordFrame(h) \/ Ask(h) \/ Shutdown(h)
    \/ HandleRecord \/ HandleAsk \/ HandleShutdown

ActorSpec == ActorInit /\ [][ActorNext]_actorVars

-----------------------------------------------------------------------------
(* Properties                                                              *)

ActorTypeOK ==
    /\ recorded \in 0 .. MaxRecords
    /\ Len(mailbox) <= MailboxCapacity
    /\ actor.running \in BOOLEAN
    /\ \A k \in {"latest_seq", "latest", "gop_size", "since_key", "total"} :
           actor[k] \in 0 .. MaxRecords
    /\ caller \in [Handles -> [awaits : {"nothing", "keyframe", "stats"},
                               told : 0 .. MaxRecords, answer : 0 .. MaxRecords]]

\* A handle reads its own writes (actor.rs:118-147): a keyframe it recorded is
\* in every later answer, or a newer one is, although recording awaits no
\* reply and other handles record and ask in between; nobody awaits an answer
\* that can no longer come.
AskedAfterTold ==
    /\ [](\A h \in Handles :
              caller[h].awaits # "nothing" =>
                  \E i \in DOMAIN mailbox :
                      mailbox[i].kind = caller[h].awaits /\ mailbox[i].from = h)
    /\ [][\A h \in Handles :
             /\ caller[h].awaits # "nothing"
             /\ caller'[h].awaits = "nothing"
             /\ actor'.running
             => caller'[h].answer >= caller'[h].told]_actorVars
=============================================================================
