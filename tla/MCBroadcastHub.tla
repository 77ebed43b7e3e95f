--------------------------- MODULE MCBroadcastHub ---------------------------
(* An instance of BroadcastHub for TLC: one waiter for one kind of frame. *)
EXTENDS BroadcastHub, TLC

CONSTANTS w1, websocket, webrtc

MCWaiters == {w1}
MCBits == {websocket, webrtc}
MCInterest == w1 :> {websocket}
=============================================================================
