------------------------------ MODULE SyncBridge -----------------------------
(***************************************************************************)
(* SyncGatewayBridge of crates/hydra-engine/src/isolated.rs: a task takes  *)
(* frames from a gateway session and puts them into a bounded channel, a   *)
(* synchronous receiver takes them out.  The session is the one of module  *)
(* Gateway, seen from outside: frames with growing numbers, some of them   *)
(* skipped when it lags, and an error at its end.                          *)
(***************************************************************************)
EXTENDS Naturals, Sequences

CONSTANTS
    ChannelBound,   \* max(channel_bound, 4) in the build
    MaxBridged      \* bound: number of the last frame

ASSUME BridgeAssumption == ChannelBound \in Nat \ {0} /\ MaxBridged \in Nat

VARIABLES
    bridge_task,    \* "recv", "send" or "ended"
    in_hand,        \* the frame the task is sending
    channel,        \* frames in the channel
    got,            \* frames the receiver was given
    session_got,    \* frames the session gave the task
    receiver        \* "open", or "dropped"

bridgeVars == <<bridge_task, in_hand, channel, got, session_got, receiver>>

\* async_session.recv_frame(): the next frame retained, or the end.
TakeFrame ==
    /\ bridge_task = "recv"
    /\ \E f \in 1 .. MaxBridged :
           /\ \A i \in DOMAIN session_got : session_got[i] < f
           /\ in_hand' = <<f>>
           /\ session_got' = Append(session_got, f)
    /\ bridge_task' = "send"
    /\ UNCHANGED <<channel, got, receiver>>

SessionEnds ==
    /\ bridge_task = "recv"
    /\ bridge_task' = "ended"
    /\ UNCHANGED <<in_hand, channel, got, session_got, receiver>>

\* A bug: a frame that finds the channel full is dropped.
TrySend ==
    /\ bridge_task = "send"
    /\ bridge_task' = IF receiver = "dropped" THEN "ended" ELSE "recv"
    /\ channel' = IF receiver = "open" /\ Len(channel) < ChannelBound
                  THEN channel \o in_hand ELSE channel
    /\ in_hand' = <<>>
    /\ UNCHANGED <<got, session_got, receiver>>

\* tx.send(): blocks while the channel is full, and fails, which ends the
\* task, once the receiver is gone.
SendFrame ==
    /\ bridge_task = "send"
    /\ \/ /\ receiver = "open"
          /\ Len(channel) < ChannelBound
          /\ channel' = channel \o in_hand
          /\ bridge_task' = "recv"
       \/ /\ receiver = "dropped"
          /\ bridge_task' = "ended"
          /\ UNCHANGED channel
    /\ in_hand' = <<>>
    /\ UNCHANGED <<got, session_got, receiver>>

\* recv_timeout() and try_recv(): a frame.  An empty channel answers Timeout
\* or BufferOverflow, also when the task has ended, and changes nothing.
ReceiveFrame ==
    /\ receiver = "open" /\ channel # <<>>
    /\ got' = Append(got, Head(channel))
    /\ channel' = Tail(channel)
    /\ UNCHANGED <<bridge_task, in_hand, session_got, receiver>>

\* The receiver is dropped, and what the channel holds with it; the task finds
\* out when it sends.
DropReceiver ==
    /\ receiver = "open"
    /\ receiver' = "dropped"
    /\ channel' = <<>>
    /\ UNCHANGED <<bridge_task, in_hand, got, session_got>>

BridgeInit ==
    /\ bridge_task = "recv" /\ receiver = "open"
    /\ in_hand = <<>> /\ channel = <<>> /\ got = <<>> /\ session_got = <<>>

BridgeNext == TakeFrame \/ SessionEnds \/ SendFrame \/ ReceiveFrame \/ DropReceiver

BridgeSpec == BridgeInit /\ [][BridgeNext]_bridgeVars

-----------------------------------------------------------------------------
(* Properties                                                              *)

BridgeTypeOK ==
    /\ bridge_task \in {"recv", "send", "ended"}
    /\ receiver \in {"open", "dropped"}
    /\ \A s \in {in_hand, channel, got, session_got} : s \in Seq(1 .. MaxBridged)
    /\ Len(in_hand) = (IF bridge_task = "send" THEN 1 ELSE 0)
    /\ Len(channel) <= ChannelBound

\* The bridge adds no loss of its own (isolated.rs:56-78): while the receiver
\* lives, what it got, what waits in the channel and what the task holds are
\* together what the session gave, in that order, also after the session
\* ended; a receiver that is dropped has seen a prefix.
BridgeKeepsOrder ==
    IF receiver = "open"
    THEN got \o channel \o in_hand = session_got
    ELSE got = SubSeq(session_got, 1, Len(got)) /\ channel = <<>>
=============================================================================
