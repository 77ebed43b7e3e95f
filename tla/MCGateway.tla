------------------------------ MODULE MCGateway ------------------------------
(* An instance of Gateway for TLC: one client, which may come back. *)
EXTENDS Gateway, TLC

CONSTANTS c1, websocket, webrtc

MCClients == {c1}
MCBits == {websocket, webrtc}
MCInterest == c1 :> {websocket}

\* BIT_ALL, as the RTMP ingest dispatches, and one kind only.
MCMasks == {MCBits, {webrtc}}
=============================================================================
