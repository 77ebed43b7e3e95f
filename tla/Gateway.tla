------------------------------- MODULE Gateway -------------------------------
(***************************************************************************)
(* AsyncStreamGateway and ClientSession of                                 *)
(* crates/hydra-engine/src/gateway.rs: one thread dispatches frames into   *)
(* the synchronous hub and a tokio broadcast channel, clients subscribe,   *)
(* receive and leave, and some thread shuts the gateway down.  A step is   *)
(* one access to shared state (an atomic, or what is done under one lock). *)
(*                                                                         *)
(* The channel is tokio's, modelled from how it is used: frame n is the    *)
(* n-th message, the last Capacity messages are retained, a receiver is a  *)
(* position.  tokio stores nothing when there is no receiver; since later  *)
(* receivers start behind the message, storing it makes no difference.     *)
(***************************************************************************)
EXTENDS Integers

CONSTANTS
    Clients,
    Bits,          \* BIT_WEBSOCKET, BIT_WEBRTC, ...
    Interest,      \* interest_mask each client subscribes with
    Masks,         \* masks frames are dispatched with
    Capacity,      \* messages the channel retains
    MaxFrames,     \* bound: frames dispatched
    MaxClientIds   \* bound: ids drawn before the last subscription

ASSUME GatewayAssumption ==
    /\ Interest \in [Clients -> SUBSET Bits]
    /\ Masks \subseteq SUBSET Bits
    /\ Capacity \in Nat \ {0}
    /\ MaxFrames \in Nat
    /\ MaxClientIds \in Nat

VARIABLES
    is_running, tx_open,
    sent,              \* messages sent into the channel
    latest_keyframe,   \* number of the cached keyframe, 0 for None
    hub_head, hub_closed,
    gop,               \* GopTracker: latest_keyframe_seq, current_gop_size, last_gop_size
    active_peers,      \* client ids whose PeerNode is active
    next_client_id,
    dpc, frame, key, mask,   \* dispatcher; frame n is a keyframe iff n \in key
    spc,                     \* the thread that shuts down
    cpc, client_id, from, next, initial_keyframe, got

shared   == <<is_running, tx_open, sent, latest_keyframe, hub_head, hub_closed, gop>>
dispatch == <<dpc, frame, key, mask>>
session  == <<client_id, from, next, initial_keyframe, got>>
clients  == <<active_peers, next_client_id, cpc, session>>
vars     == <<shared, dispatch, spc, clients>>

Matches(c, n) == mask[n] \cap Interest[c] # {}

-----------------------------------------------------------------------------
(* dispatch_frame; a refused frame leaves no trace                         *)

Record(n, is_key) ==
    IF is_key
    THEN [latest_keyframe_seq |-> n, current_gop_size |-> 1,
          last_gop_size |-> IF gop.current_gop_size > 0 THEN gop.current_gop_size
                            ELSE gop.last_gop_size]
    ELSE [gop EXCEPT !.current_gop_size = @ + 1]

\* is_running holds; the tracker's three atomics are statistics, set in one go.
BeginDispatch ==
    /\ dpc = "idle"
    /\ is_running
    /\ frame < MaxFrames
    /\ frame' = frame + 1
    /\ \E m \in Masks : mask' = [mask EXCEPT ![frame'] = m]
    /\ \E is_key \in BOOLEAN :
        /\ key' = IF is_key THEN key \cup {frame'} ELSE key
        /\ gop' = Record(frame', is_key)
        /\ dpc' = IF is_key THEN "keyframe" ELSE "hub"
    /\ UNCHANGED <<is_running, tx_open, sent, latest_keyframe, hub_head, hub_closed,
                   spc, clients>>

CacheKeyframe ==
    /\ dpc = "keyframe"
    /\ latest_keyframe' = frame
    /\ dpc' = "hub"
    /\ UNCHANGED <<is_running, tx_open, sent, hub_head, hub_closed, gop,
                   frame, key, mask, spc, clients>>

\* BroadcastHub.publish as a whole: module BroadcastHub has its steps.
PublishToHub ==
    /\ dpc = "hub"
    /\ hub_head' = frame
    /\ dpc' = "send"
    /\ UNCHANGED <<is_running, tx_open, sent, latest_keyframe, hub_closed, gop,
                   frame, key, mask, spc, clients>>

\* Under the read lock of tx; nothing is sent once the sender is gone.
Send ==
    /\ dpc = "send"
    /\ sent' = IF tx_open THEN frame ELSE sent
    /\ dpc' = "idle"
    /\ UNCHANGED <<is_running, tx_open, latest_keyframe, hub_head, hub_closed, gop,
                   frame, key, mask, spc, clients>>

-----------------------------------------------------------------------------
(* shutdown                                                                *)

StopRunning ==
    /\ spc = "up"
    /\ is_running' = FALSE
    /\ spc' = "tx"
    /\ UNCHANGED <<tx_open, sent, latest_keyframe, hub_head, hub_closed, gop,
                   dispatch, clients>>

DropSender ==
    /\ spc = "tx"
    /\ tx_open' = FALSE
    /\ spc' = "hub"
    /\ UNCHANGED <<is_running, sent, latest_keyframe, hub_head, hub_closed, gop,
                   dispatch, clients>>

CloseHub ==
    /\ spc = "hub"
    /\ hub_closed' = TRUE
    /\ spc' = "down"
    /\ UNCHANGED <<is_running, tx_open, sent, latest_keyframe, hub_head, gop,
                   dispatch, clients>>

-----------------------------------------------------------------------------
(* subscribe                                                               *)

Goto(c, from_, to) == cpc[c] = from_ /\ cpc' = [cpc EXCEPT ![c] = to]

\* A refused subscription leaves no trace.
Subscribe(c) ==
    /\ is_running
    /\ next_client_id <= MaxClientIds
    /\ Goto(c, "out", "receiver")
    /\ UNCHANGED <<shared, dispatch, spc, active_peers, next_client_id, session>>

\* The receiver starts behind what has been sent so far.
TakeReceiver(c) ==
    /\ Goto(c, "receiver", IF tx_open THEN "register" ELSE "out")
    /\ next' = [next EXCEPT ![c] = IF tx_open THEN sent + 1 ELSE 1]
    /\ from' = [from EXCEPT ![c] = next'[c]]
    /\ got' = [got EXCEPT ![c] = next'[c] - 1]
    /\ UNCHANGED <<shared, dispatch, spc, active_peers, next_client_id,
                   client_id, initial_keyframe>>

\* The id is drawn and its PeerNode pushed; total_clients_served counts ids too.
Register(c) ==
    /\ Goto(c, "register", "keyframe")
    /\ client_id' = [client_id EXCEPT ![c] = next_client_id]
    /\ next_client_id' = next_client_id + 1
    /\ active_peers' = active_peers \cup {next_client_id}
    /\ UNCHANGED <<shared, dispatch, spc, from, next, initial_keyframe, got>>

\* A bug: a keyframe the receiver will see anyway is not handed out.
ReadKeyframeUnlessComing(c) ==
    /\ Goto(c, "keyframe", "session")
    /\ initial_keyframe' = [initial_keyframe EXCEPT ![c] =
                               IF latest_keyframe >= next[c] THEN 0 ELSE latest_keyframe]
    /\ UNCHANGED <<shared, dispatch, spc, active_peers, next_client_id,
                   client_id, from, next, got>>

ReadKeyframe(c) ==
    /\ Goto(c, "keyframe", "session")
    /\ initial_keyframe' = [initial_keyframe EXCEPT ![c] = latest_keyframe]
    /\ UNCHANGED <<shared, dispatch, spc, active_peers, next_client_id,
                   client_id, from, next, got>>

-----------------------------------------------------------------------------
(* ClientSession                                                           *)

\* The receiver's next message has been overwritten.
Overrun(c) == next[c] + Capacity <= sent

\* A bug: what the hub holds counts as sent.
ReceiveFromHub(c) ==
    /\ cpc[c] = "session"
    /\ next[c] <= hub_head
    /\ ~Overrun(c)
    /\ got' = [got EXCEPT ![c] = IF Matches(c, next[c]) THEN next[c] ELSE @]
    /\ next' = [next EXCEPT ![c] = @ + 1]
    /\ UNCHANGED <<shared, dispatch, spc, active_peers, next_client_id, cpc,
                   client_id, from, initial_keyframe>>

\* One pass of recv_frame's loop that finds a frame; kinds the client did not
\* ask for are dropped.
Receive(c) ==
    /\ cpc[c] = "session"
    /\ next[c] <= sent
    /\ ~Overrun(c)
    /\ got' = [got EXCEPT ![c] = IF Matches(c, next[c]) THEN next[c] ELSE @]
    /\ next' = [next EXCEPT ![c] = @ + 1]
    /\ UNCHANGED <<shared, dispatch, spc, active_peers, next_client_id, cpc,
                   client_id, from, initial_keyframe>>

\* A bug: a receiver that lagged starts over behind the newest message.
LagPastAll(c) ==
    /\ cpc[c] = "session"
    /\ Overrun(c)
    /\ next' = [next EXCEPT ![c] = sent + 1]
    /\ UNCHANGED <<shared, dispatch, spc, active_peers, next_client_id, cpc,
                   client_id, from, initial_keyframe, got>>

\* Lagged: tokio moves the receiver to the oldest message retained.
Lag(c) ==
    /\ cpc[c] = "session"
    /\ Overrun(c)
    /\ next' = [next EXCEPT ![c] = sent - Capacity + 1]
    /\ UNCHANGED <<shared, dispatch, spc, active_peers, next_client_id, cpc,
                   client_id, from, initial_keyframe, got>>

\* Bugs: a closed channel is not drained; it counts as drained only when the
\* last message was one for the client.
FindClosedAtOnce(c) ==
    /\ ~tx_open
    /\ Goto(c, "session", "closed")
    /\ UNCHANGED <<shared, dispatch, spc, active_peers, next_client_id, session>>

FindClosedAfterMatch(c) ==
    /\ ~tx_open
    /\ got[c] = sent
    /\ Goto(c, "session", "closed")
    /\ UNCHANGED <<shared, dispatch, spc, active_peers, next_client_id, session>>

\* GatewayClosed, once the retained messages are used up.
FindClosed(c) ==
    /\ ~tx_open
    /\ next[c] > sent
    /\ Goto(c, "session", "closed")
    /\ UNCHANGED <<shared, dispatch, spc, active_peers, next_client_id, session>>

\* The session is dropped: by its owner, by cancellation, or on an error.
Leave(c) ==
    /\ cpc[c] \in {"session", "closed"}
    /\ cpc' = [cpc EXCEPT ![c] = "out"]
    /\ active_peers' = active_peers \ {client_id[c]}
    /\ client_id' = [client_id EXCEPT ![c] = 0]
    /\ from' = [from EXCEPT ![c] = 1]
    /\ next' = [next EXCEPT ![c] = 1]
    /\ initial_keyframe' = [initial_keyframe EXCEPT ![c] = 0]
    /\ got' = [got EXCEPT ![c] = 0]
    /\ UNCHANGED <<shared, dispatch, spc, next_client_id>>

-----------------------------------------------------------------------------
Init ==
    /\ is_running = TRUE
    /\ tx_open = TRUE
    /\ sent = 0
    /\ latest_keyframe = 0
    /\ hub_head = 0
    /\ hub_closed = FALSE
    /\ gop = [latest_keyframe_seq |-> 0, current_gop_size |-> 0, last_gop_size |-> 30]
    /\ active_peers = {}
    /\ next_client_id = 1
    /\ dpc = "idle"
    /\ frame = 0
    /\ key = {}
    /\ mask = [n \in 1 .. MaxFrames |-> {}]
    /\ spc = "up"
    /\ cpc = [c \in Clients |-> "out"]
    /\ client_id = [c \in Clients |-> 0]
    /\ from = [c \in Clients |-> 1]
    /\ next = [c \in Clients |-> 1]
    /\ initial_keyframe = [c \in Clients |-> 0]
    /\ got = [c \in Clients |-> 0]

Next ==
    \/ BeginDispatch \/ CacheKeyframe \/ PublishToHub \/ Send
    \/ StopRunning \/ DropSender \/ CloseHub
    \/ \E c \in Clients :
        \/ Subscribe(c) \/ TakeReceiver(c) \/ Register(c) \/ ReadKeyframe(c)
        \/ Receive(c) \/ Lag(c) \/ FindClosed(c) \/ Leave(c)

Spec == Init /\ [][Next]_vars

\* What has been begun is finished, and the owner of a session keeps calling
\* recv_frame, as the loop of server.rs does.  Nobody has to dispatch,
\* subscribe, leave or shut down.
Fairness ==
    /\ WF_vars(CacheKeyframe \/ PublishToHub \/ Send)
    /\ WF_vars(DropSender \/ CloseHub)
    /\ \A c \in Clients :
        /\ WF_vars(TakeReceiver(c) \/ Register(c) \/ ReadKeyframe(c))
        /\ WF_vars(Receive(c) \/ Lag(c) \/ FindClosed(c))

FairSpec == Spec /\ Fairness

-----------------------------------------------------------------------------
(* Properties                                                              *)

FrameNo == 0 .. MaxFrames

TypeOK ==
    /\ is_running \in BOOLEAN /\ tx_open \in BOOLEAN /\ hub_closed \in BOOLEAN
    /\ sent \in FrameNo /\ latest_keyframe \in FrameNo /\ hub_head \in FrameNo
    /\ gop \in [latest_keyframe_seq : FrameNo, current_gop_size : Nat,
                last_gop_size : Nat]
    /\ active_peers \subseteq Nat \ {0}
    /\ next_client_id \in Nat \ {0}
    /\ dpc \in {"idle", "keyframe", "hub", "send"}
    /\ frame \in FrameNo
    /\ key \subseteq 1 .. MaxFrames
    /\ mask \in [1 .. MaxFrames -> SUBSET Bits]
    /\ spc \in {"up", "tx", "hub", "down"}
    /\ cpc \in [Clients -> {"out", "receiver", "register", "keyframe", "session", "closed"}]
    /\ client_id \in [Clients -> Nat]
    /\ from \in [Clients -> 1 .. MaxFrames + 1]
    /\ next \in [Clients -> 1 .. MaxFrames + 1]
    /\ initial_keyframe \in [Clients -> FrameNo]
    /\ got \in [Clients -> FrameNo]

HasReceiver(c) == cpc[c] \in {"register", "keyframe", "session", "closed"}
HasPeer(c) == cpc[c] \in {"keyframe", "session", "closed"}
HasSession(c) == cpc[c] \in {"session", "closed"}

\* A session starts from a keyframe no older than any that was dispatched
\* before its receiver began: the receiver is taken before the cache is read
\* (gateway.rs:238, 252), and the cache is filled before the frame is sent.
StartsFromFreshKeyframe ==
    \A c \in Clients : HasSession(c) =>
        /\ initial_keyframe[c] \in key \cup {0}
        /\ \A k \in key : k < from[c] => initial_keyframe[c] >= k

\* The active peers are the sessions that exist, and no two share an id:
\* active_clients counts sessions (gateway.rs:246-250, 172, 267).
PeersAreSessions ==
    /\ active_peers = {client_id[c] : c \in {d \in Clients : HasPeer(d)}}
    /\ \A c, d \in Clients :
        HasPeer(c) /\ HasPeer(d) /\ client_id[c] = client_id[d] => c = d

\* A session reports GatewayClosed only when every message sent is behind it,
\* even one sent by a dispatch that overlaps the shutdown (gateway.rs:161, 221).
ClosedWhenDrained ==
    \A c \in Clients : cpc[c] = "closed" => next[c] = sent + 1 /\ ~is_running

\* Between two dispatches the cached keyframe is the one the tracker knows,
\* and the open GOP runs from it to the newest frame (codec.rs:113-123).
GopAgrees ==
    dpc = "idle" /\ latest_keyframe > 0 =>
        /\ gop.latest_keyframe_seq = latest_keyframe
        /\ gop.current_gop_size = frame - latest_keyframe + 1

\* Sessions move forward through the frames that were sent.
Feed == INSTANCE FrameFeed WITH
    Consumers <- Clients,
    produced <- sent,
    attached <- {c \in Clients : HasReceiver(c)},
    seen <- got

ImplementsFeed == Feed!Spec

\* A frame of the client's kind reaches its session, unless the session is
\* left or so many frames follow that the channel no longer retains it.
RetainedFramesArrive ==
    \A c \in Clients, n \in 1 .. MaxFrames :
        (cpc[c] = "session" /\ next[c] <= n /\ n <= sent /\ Matches(c, n))
            ~> (got[c] >= n \/ cpc[c] # "session" \/ n + Capacity <= sent)

\* A shutdown ends every session, those subscribing meanwhile included
\* (gateway.rs:279-287).
ShutdownEndsSessions ==
    \A c \in Clients : (cpc[c] = "session" /\ ~tx_open) ~> cpc[c] # "session"

-----------------------------------------------------------------------------
(* The inductive invariant behind the safety properties                    *)

\* The frame being dispatched is the one after those sent; the cache holds the
\* newest keyframe but for one that is just being put there.
DispatchInv ==
    /\ sent <= frame
    /\ dpc # "idle" => frame > sent
    /\ tx_open => frame = IF dpc = "idle" THEN sent ELSE sent + 1
    /\ dpc = "keyframe" => frame \in key
    /\ key \subseteq 1 .. frame
    /\ latest_keyframe \in key \cup {0}
    /\ \A k \in key : k <= latest_keyframe \/ (dpc = "keyframe" /\ k = frame)

GopInv ==
    /\ gop.latest_keyframe_seq = IF dpc = "keyframe" THEN frame ELSE latest_keyframe
    /\ gop.current_gop_size = IF gop.latest_keyframe_seq = 0 THEN frame
                              ELSE frame - gop.latest_keyframe_seq + 1

ShutdownInv ==
    /\ is_running = (spc = "up")
    /\ tx_open = (spc \in {"up", "tx"})

SessionOK(c) ==
    /\ HasReceiver(c) => /\ got[c] < next[c] /\ next[c] <= sent + 1
                         /\ from[c] <= next[c]
    /\ ~HasReceiver(c) => got[c] = 0
    /\ HasSession(c) => /\ initial_keyframe[c] \in key \cup {0}
                        /\ \A k \in key : k < from[c] => initial_keyframe[c] >= k
    /\ cpc[c] = "closed" => ~tx_open /\ next[c] = sent + 1

SessionInv == \A c \in Clients : SessionOK(c)

PeerInv ==
    /\ \A c \in Clients : HasPeer(c) => client_id[c] < next_client_id
    /\ PeersAreSessions

GatewayInv == TypeOK /\ DispatchInv /\ GopInv /\ ShutdownInv /\ SessionInv /\ PeerInv
=============================================================================
