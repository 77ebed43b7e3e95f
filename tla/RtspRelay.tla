------------------------------ MODULE RtspRelay ------------------------------
(***************************************************************************)
(* `hydra-engine relay` of crates/hydra-engine/src/rtsp: one task takes    *)
(* RTP packets from a camera and broadcasts them, the main task registers  *)
(* the stream once it has the camera's SDP and starts a task that forwards *)
(* the packets to a second broadcast, and every RTSP client that plays the *)
(* stream receives from that one.  Both broadcasts retain the last         *)
(* RelayCapacity packets; a receiver that is further behind is told so.    *)
(***************************************************************************)
EXTENDS Naturals, Sequences

CONSTANTS
    Players,         \* RTSP clients
    RelayCapacity,   \* packets a broadcast retains (512 in the build)
    MaxPackets       \* bound: packets of a run

ASSUME RelayAssumption == RelayCapacity \in Nat \ {0} /\ MaxPackets \in Nat

VARIABLES
    source,          \* the ingest task: "describe", "setup", "play" or "ended"
    sdp,             \* the oneshot channel: "pending", "sent" or "dropped"
    listed,          \* the stream is in the manager's map
    packets,         \* packets the ingest task has sent: 1 .. packets
    forwarder,       \* "none", "running" or "ended"
    fwd_next,        \* the packet it receives next
    relayed,         \* the packets it sent on
    playing          \* per client: its place in `relayed`, what it got last, and more

relayVars == <<source, sdp, listed, packets, forwarder, fwd_next, relayed, playing>>

NoPlayer == [at |-> "out", next |-> 0, from |-> 0, got |-> 0, lagged |-> FALSE]

\* Connect, DESCRIBE, DESCRIBE with a digest if the camera asks for one; the
\* SDP goes to the main task before SETUP.
SourceDescribes ==
    /\ source = "describe"
    /\ source' = "setup" /\ sdp' = "sent"
    /\ UNCHANGED <<listed, packets, forwarder, fwd_next, relayed, playing>>

\* SETUP and PLAY, whose answers are not looked at.
SourcePlays ==
    /\ source = "setup"
    /\ source' = "play"
    /\ UNCHANGED <<sdp, listed, packets, forwarder, fwd_next, relayed, playing>>

\* The camera refuses, breaks off or closes.  Nothing is taken off the map.
SourceEnds ==
    /\ source # "ended"
    /\ source' = "ended"
    /\ sdp' = IF sdp = "pending" THEN "dropped" ELSE sdp
    /\ UNCHANGED <<listed, packets, forwarder, fwd_next, relayed, playing>>

SourceSends ==
    /\ source = "play" /\ packets < MaxPackets
    /\ packets' = packets + 1
    /\ UNCHANGED <<source, sdp, listed, forwarder, fwd_next, relayed, playing>>

\* run_relay with the SDP: register, subscribe, start the forwarder.  The
\* receiver gets what is sent from now on.  Without an SDP the server runs with
\* an empty map.
RegisterRelay ==
    /\ sdp = "sent" /\ ~listed
    /\ listed' = TRUE
    /\ forwarder' = "running" /\ fwd_next' = packets + 1
    /\ UNCHANGED <<source, sdp, packets, relayed, playing>>

\* A bug: the forwarder takes the newest packet.
ForwardNewest ==
    /\ forwarder = "running" /\ fwd_next <= packets
    /\ packets - fwd_next < RelayCapacity
    /\ relayed' = Append(relayed, packets)
    /\ fwd_next' = packets + 1
    /\ UNCHANGED <<source, sdp, listed, packets, forwarder, playing>>

Forward ==
    /\ forwarder = "running" /\ fwd_next <= packets
    /\ packets - fwd_next < RelayCapacity
    /\ relayed' = Append(relayed, fwd_next)
    /\ fwd_next' = fwd_next + 1
    /\ UNCHANGED <<source, sdp, listed, packets, forwarder, playing>>

\* `while let Ok(pkt)`: Lagged is an error like any other and ends the task.
ForwarderLags ==
    /\ forwarder = "running"
    /\ packets - fwd_next >= RelayCapacity
    /\ forwarder' = "ended"
    /\ UNCHANGED <<source, sdp, listed, packets, fwd_next, relayed, playing>>

\* PLAY answers 200 and then subscribes, or closes if the id is not listed.
PlayRelay(p) ==
    /\ playing[p].at = "out" /\ listed
    /\ playing' = [playing EXCEPT ![p] = [NoPlayer EXCEPT
           !.at = "playing", !.next = Len(relayed) + 1, !.from = Len(relayed) + 1]]
    /\ UNCHANGED <<source, sdp, listed, packets, forwarder, fwd_next, relayed>>

\* The next packet is written to the client.
DeliverPacket(p) ==
    /\ playing[p].at = "playing"
    /\ playing[p].next <= Len(relayed)
    /\ Len(relayed) - playing[p].next < RelayCapacity
    /\ playing' = [playing EXCEPT ![p].next = @ + 1, ![p].got = relayed[playing[p].next]]
    /\ UNCHANGED <<source, sdp, listed, packets, forwarder, fwd_next, relayed>>

\* Lagged is logged, and the receiver goes on with the oldest packet retained.
PlayerLags(p) ==
    /\ playing[p].at = "playing"
    /\ Len(relayed) - playing[p].next >= RelayCapacity
    /\ playing' = [playing EXCEPT ![p].next = Len(relayed) - RelayCapacity + 1, ![p].lagged = TRUE]
    /\ UNCHANGED <<source, sdp, listed, packets, forwarder, fwd_next, relayed>>

\* The client closes or cannot be written to.  TEARDOWN while it plays is read
\* and ignored.
PlayerLeaves(p) ==
    /\ playing[p].at = "playing"
    /\ playing' = [playing EXCEPT ![p] = NoPlayer]
    /\ UNCHANGED <<source, sdp, listed, packets, forwarder, fwd_next, relayed>>

RelayInit ==
    /\ source = "describe" /\ sdp = "pending" /\ listed = FALSE
    /\ packets = 0 /\ forwarder = "none" /\ fwd_next = 0 /\ relayed = <<>>
    /\ playing = [p \in Players |-> NoPlayer]

RelayNext ==
    \/ SourceDescribes \/ SourcePlays \/ SourceEnds \/ SourceSends
    \/ RegisterRelay \/ Forward \/ ForwarderLags
    \/ \E p \in Players : PlayRelay(p) \/ DeliverPacket(p) \/ PlayerLags(p) \/ PlayerLeaves(p)

RelaySpec == RelayInit /\ [][RelayNext]_relayVars

-----------------------------------------------------------------------------
(* Properties                                                              *)

RelayTypeOK ==
    /\ source \in {"describe", "setup", "play", "ended"}
    /\ sdp \in {"pending", "sent", "dropped"}
    /\ listed \in BOOLEAN
    /\ packets \in 0 .. MaxPackets /\ fwd_next \in 0 .. MaxPackets + 1
    /\ forwarder \in {"none", "running", "ended"}
    /\ relayed \in Seq(1 .. MaxPackets)
    /\ playing \in [Players -> [at : {"out", "playing"}, next : 0 .. MaxPackets + 1,
                                from : 0 .. MaxPackets + 1, got : 0 .. MaxPackets, lagged : BOOLEAN]]

\* Two hops lose nothing on the way (rtsp/cli.rs:166-171, rtsp/server.rs:
\* 153-176): what is relayed is a gapless stretch of what the camera sent, and
\* a client has a gap in it only if it fell behind by a whole channel.
GapsOnlyForLaggards ==
    /\ \A i \in DOMAIN relayed : relayed[i] = relayed[1] + i - 1
    /\ forwarder = "running" /\ relayed # <<>> => fwd_next = relayed[Len(relayed)] + 1
    /\ \A p \in Players :
           playing[p].at = "playing" /\ playing[p].got # 0 /\ ~playing[p].lagged =>
               playing[p].got = relayed[playing[p].from] + playing[p].next - playing[p].from - 1

\* The relay serves a camera that sends (rtsp/relay_ingest.rs:106): while
\* packets come in, somebody forwards them.
SourceIsForwarded == listed /\ source = "play" => forwarder = "running"
=============================================================================
