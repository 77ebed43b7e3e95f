---------------------------- MODULE GatewayProofs ----------------------------
(***************************************************************************)
(* What the gateway guarantees for every number of clients, every channel  *)
(* capacity and every bound on frames and subscriptions.                   *)
(***************************************************************************)
EXTENDS Gateway, TLAPS

-----------------------------------------------------------------------------
(* The invariant, conjunct by conjunct                                     *)

\* Every step keeps the variables in their types.
LEMMA TypeStep == GatewayInv /\ [Next]_vars => TypeOK'
  <1> SUFFICES ASSUME GatewayInv, [Next]_vars
               PROVE  TypeOK'
    OBVIOUS
  <1>a. TypeOK /\ sent <= frame /\ \A c \in Clients : HasReceiver(c) => next[c] <= sent + 1
    BY DEF GatewayInv, DispatchInv, SessionInv, SessionOK
  <1> USE <1>a, GatewayAssumption
      DEF TypeOK, HasReceiver, FrameNo, shared, dispatch, session, clients, Goto
  <1>1. CASE BeginDispatch
    <2>1. frame' = frame + 1 /\ frame' \in 1 .. MaxFrames
      BY <1>1 DEF BeginDispatch
    <2>2. mask' \in [1 .. MaxFrames -> SUBSET Bits]
      BY <1>1, <2>1 DEF BeginDispatch
    <2>3. gop' \in [latest_keyframe_seq : FrameNo, current_gop_size : Nat, last_gop_size : Nat]
      <3>1. PICK is_key \in BOOLEAN : gop' = Record(frame', is_key)
        BY <1>1 DEF BeginDispatch
      <3>2. CASE is_key
        BY <2>1, <3>1, <3>2 DEF Record
      <3>3. CASE ~is_key
        <4>1. gop.current_gop_size + 1 \in Nat
          OBVIOUS
        <4>2. gop' = [gop EXCEPT !.current_gop_size = gop.current_gop_size + 1]
          BY <3>1, <3>3 DEF Record
        <4> QED
          BY <4>1, <4>2
      <3> QED
        BY <3>2, <3>3
    <2> QED
      BY <1>1, <2>1, <2>2, <2>3 DEF BeginDispatch
  <1>2. CASE CacheKeyframe
    BY <1>2 DEF CacheKeyframe
  <1>3. CASE PublishToHub
    BY <1>3 DEF PublishToHub
  <1>4. CASE Send
    BY <1>4 DEF Send
  <1>5. CASE StopRunning
    BY <1>5 DEF StopRunning
  <1>6. CASE DropSender
    BY <1>6 DEF DropSender
  <1>7. CASE CloseHub
    BY <1>7 DEF CloseHub
  <1>8. ASSUME NEW c \in Clients, Subscribe(c) PROVE TypeOK'
    BY <1>8 DEF Subscribe
  <1>9. ASSUME NEW c \in Clients, TakeReceiver(c) PROVE TypeOK'
    <2>1. next'[c] \in 1 .. MaxFrames + 1 /\ next'[c] - 1 \in FrameNo
      BY <1>9 DEF TakeReceiver
    <2>2. /\ next' \in [Clients -> 1 .. MaxFrames + 1]
          /\ from' \in [Clients -> 1 .. MaxFrames + 1]
          /\ got' \in [Clients -> FrameNo]
      BY <1>9, <2>1 DEF TakeReceiver
    <2>3. cpc' \in [Clients -> {"out", "receiver", "register", "keyframe", "session", "closed"}]
      BY <1>9 DEF TakeReceiver
    <2> QED
      BY <1>9, <2>2, <2>3 DEF TakeReceiver
  <1>10. ASSUME NEW c \in Clients, Register(c) PROVE TypeOK'
    <2>1. /\ client_id' \in [Clients -> Nat] /\ next_client_id' \in Nat \ {0}
          /\ active_peers' \subseteq Nat \ {0}
      BY <1>10 DEF Register
    <2>2. cpc' \in [Clients -> {"out", "receiver", "register", "keyframe", "session", "closed"}]
      BY <1>10 DEF Register
    <2> QED
      BY <1>10, <2>1, <2>2 DEF Register
  <1>11. ASSUME NEW c \in Clients, ReadKeyframe(c) PROVE TypeOK'
    BY <1>11 DEF ReadKeyframe
  <1>12. ASSUME NEW c \in Clients, Receive(c) PROVE TypeOK'
    <2>1. next[c] + 1 \in 1 .. MaxFrames + 1
      BY <1>12 DEF Receive
    <2>2. next' \in [Clients -> 1 .. MaxFrames + 1]
      BY <1>12, <2>1 DEF Receive
    <2>3. next[c] \in FrameNo
      BY <1>12 DEF Receive
    <2>4. got' \in [Clients -> FrameNo]
      BY <1>12, <2>3 DEF Receive
    <2> QED
      BY <1>12, <2>2, <2>4 DEF Receive
  <1>13. ASSUME NEW c \in Clients, Lag(c) PROVE TypeOK'
    <2>1. sent - Capacity + 1 \in 1 .. MaxFrames + 1
      BY <1>13 DEF Lag, Overrun
    <2>2. next' \in [Clients -> 1 .. MaxFrames + 1]
      BY <1>13, <2>1 DEF Lag
    <2> QED
      BY <1>13, <2>2 DEF Lag
  <1>14. ASSUME NEW c \in Clients, FindClosed(c) PROVE TypeOK'
    BY <1>14 DEF FindClosed
  <1>15. ASSUME NEW c \in Clients, Leave(c) PROVE TypeOK'
    <2>1. 1 \in 1 .. MaxFrames + 1 /\ 0 \in FrameNo /\ 0 \in Nat
      OBVIOUS
    <2>2. next' \in [Clients -> 1 .. MaxFrames + 1] /\ from' \in [Clients -> 1 .. MaxFrames + 1]
      BY <1>15, <2>1 DEF Leave
    <2>3. got' \in [Clients -> FrameNo] /\ initial_keyframe' \in [Clients -> FrameNo]
      BY <1>15, <2>1 DEF Leave
    <2>4. client_id' \in [Clients -> Nat]
      BY <1>15, <2>1 DEF Leave
    <2>5. cpc' \in [Clients -> {"out", "receiver", "register", "keyframe", "session", "closed"}]
      BY <1>15 DEF Leave
    <2> QED
      BY <1>15, <2>2, <2>3, <2>4, <2>5 DEF Leave
  <1>16. CASE UNCHANGED vars
    BY <1>16 DEF vars
  <1> QED
    BY <1>1, <1>2, <1>3, <1>4, <1>5, <1>6, <1>7, <1>8,
       <1>9, <1>10, <1>11, <1>12, <1>13, <1>14, <1>15, <1>16 DEF Next

\* Frames are sent in order and the keyframe cache keeps up (gateway.rs:203-229).
LEMMA DispatchStep == GatewayInv /\ [Next]_vars => DispatchInv'
  <1> SUFFICES ASSUME GatewayInv, [Next]_vars
               PROVE  DispatchInv'
    OBVIOUS
  <1> USE DEF GatewayInv, DispatchInv, TypeOK, ShutdownInv, FrameNo,
          shared, dispatch, session, clients, Goto
  <1>1. CASE BeginDispatch
    BY <1>1 DEF BeginDispatch
  <1>2. CASE CacheKeyframe
    BY <1>2 DEF CacheKeyframe
  <1>3. CASE PublishToHub
    BY <1>3 DEF PublishToHub
  <1>4. CASE Send
    BY <1>4 DEF Send
  <1>5. CASE StopRunning
    BY <1>5 DEF StopRunning
  <1>6. CASE DropSender
    BY <1>6 DEF DropSender
  <1>7. CASE CloseHub
    BY <1>7 DEF CloseHub
  <1>8. ASSUME NEW c \in Clients, Subscribe(c) PROVE DispatchInv'
    BY <1>8 DEF Subscribe
  <1>9. ASSUME NEW c \in Clients, TakeReceiver(c) PROVE DispatchInv'
    BY <1>9 DEF TakeReceiver
  <1>10. ASSUME NEW c \in Clients, Register(c) PROVE DispatchInv'
    BY <1>10 DEF Register
  <1>11. ASSUME NEW c \in Clients, ReadKeyframe(c) PROVE DispatchInv'
    BY <1>11 DEF ReadKeyframe
  <1>12. ASSUME NEW c \in Clients, Receive(c) PROVE DispatchInv'
    BY <1>12 DEF Receive
  <1>13. ASSUME NEW c \in Clients, Lag(c) PROVE DispatchInv'
    BY <1>13 DEF Lag
  <1>14. ASSUME NEW c \in Clients, FindClosed(c) PROVE DispatchInv'
    BY <1>14 DEF FindClosed
  <1>15. ASSUME NEW c \in Clients, Leave(c) PROVE DispatchInv'
    BY <1>15 DEF Leave
  <1>16. CASE UNCHANGED vars
    BY <1>16 DEF vars
  <1> QED
    BY <1>1, <1>2, <1>3, <1>4, <1>5, <1>6, <1>7, <1>8,
       <1>9, <1>10, <1>11, <1>12, <1>13, <1>14, <1>15, <1>16 DEF Next

\* The tracker follows the keyframe being cached (codec.rs:113-123).
LEMMA GopStep == GatewayInv /\ [Next]_vars => GopInv'
  <1> SUFFICES ASSUME GatewayInv, [Next]_vars
               PROVE  GopInv'
    OBVIOUS
  <1> USE DEF GatewayInv, DispatchInv, GopInv, TypeOK, FrameNo,
          shared, dispatch, session, clients, Goto
  <1>1. CASE BeginDispatch
    BY <1>1 DEF BeginDispatch, Record
  <1>2. CASE CacheKeyframe
    BY <1>2 DEF CacheKeyframe
  <1>3. CASE PublishToHub
    BY <1>3 DEF PublishToHub
  <1>4. CASE Send
    BY <1>4 DEF Send
  <1>5. CASE StopRunning
    BY <1>5 DEF StopRunning
  <1>6. CASE DropSender
    BY <1>6 DEF DropSender
  <1>7. CASE CloseHub
    BY <1>7 DEF CloseHub
  <1>8. ASSUME NEW c \in Clients, Subscribe(c) PROVE GopInv'
    BY <1>8 DEF Subscribe
  <1>9. ASSUME NEW c \in Clients, TakeReceiver(c) PROVE GopInv'
    BY <1>9 DEF TakeReceiver
  <1>10. ASSUME NEW c \in Clients, Register(c) PROVE GopInv'
    BY <1>10 DEF Register
  <1>11. ASSUME NEW c \in Clients, ReadKeyframe(c) PROVE GopInv'
    BY <1>11 DEF ReadKeyframe
  <1>12. ASSUME NEW c \in Clients, Receive(c) PROVE GopInv'
    BY <1>12 DEF Receive
  <1>13. ASSUME NEW c \in Clients, Lag(c) PROVE GopInv'
    BY <1>13 DEF Lag
  <1>14. ASSUME NEW c \in Clients, FindClosed(c) PROVE GopInv'
    BY <1>14 DEF FindClosed
  <1>15. ASSUME NEW c \in Clients, Leave(c) PROVE GopInv'
    BY <1>15 DEF Leave
  <1>16. CASE UNCHANGED vars
    BY <1>16 DEF vars
  <1> QED
    BY <1>1, <1>2, <1>3, <1>4, <1>5, <1>6, <1>7, <1>8,
       <1>9, <1>10, <1>11, <1>12, <1>13, <1>14, <1>15, <1>16 DEF Next

\* What is open and running follows the shutdown (gateway.rs:280-287).
LEMMA ShutdownStep == GatewayInv /\ [Next]_vars => ShutdownInv'
  <1> SUFFICES ASSUME GatewayInv, [Next]_vars
               PROVE  ShutdownInv'
    OBVIOUS
  <1> USE DEF GatewayInv, ShutdownInv, TypeOK, shared, dispatch, session, clients, Goto
  <1>1. CASE BeginDispatch
    BY <1>1 DEF BeginDispatch
  <1>2. CASE CacheKeyframe
    BY <1>2 DEF CacheKeyframe
  <1>3. CASE PublishToHub
    BY <1>3 DEF PublishToHub
  <1>4. CASE Send
    BY <1>4 DEF Send
  <1>5. CASE StopRunning
    BY <1>5 DEF StopRunning
  <1>6. CASE DropSender
    <2>1. is_running' = FALSE /\ spc' = "hub" /\ tx_open' = FALSE
      BY <1>6 DEF DropSender
    <2>2. (spc' = "up") = FALSE /\ (spc' \in {"up", "tx"}) = FALSE
      BY <2>1
    <2> QED
      BY <2>1, <2>2, Zenon
  <1>7. CASE CloseHub
    BY <1>7 DEF CloseHub
  <1>8. ASSUME NEW c \in Clients, Subscribe(c) PROVE ShutdownInv'
    BY <1>8 DEF Subscribe
  <1>9. ASSUME NEW c \in Clients, TakeReceiver(c) PROVE ShutdownInv'
    BY <1>9 DEF TakeReceiver
  <1>10. ASSUME NEW c \in Clients, Register(c) PROVE ShutdownInv'
    BY <1>10 DEF Register
  <1>11. ASSUME NEW c \in Clients, ReadKeyframe(c) PROVE ShutdownInv'
    BY <1>11 DEF ReadKeyframe
  <1>12. ASSUME NEW c \in Clients, Receive(c) PROVE ShutdownInv'
    BY <1>12 DEF Receive
  <1>13. ASSUME NEW c \in Clients, Lag(c) PROVE ShutdownInv'
    BY <1>13 DEF Lag
  <1>14. ASSUME NEW c \in Clients, FindClosed(c) PROVE ShutdownInv'
    BY <1>14 DEF FindClosed
  <1>15. ASSUME NEW c \in Clients, Leave(c) PROVE ShutdownInv'
    BY <1>15 DEF Leave
  <1>16. CASE UNCHANGED vars
    BY <1>16 DEF vars
  <1> QED
    BY <1>1, <1>2, <1>3, <1>4, <1>5, <1>6, <1>7, <1>8,
       <1>9, <1>10, <1>11, <1>12, <1>13, <1>14, <1>15, <1>16 DEF Next

\* Every receiver keeps its place among the messages, and its keyframe.
LEMMA SessionStep == GatewayInv /\ [Next]_vars => SessionInv'
  <1> SUFFICES ASSUME GatewayInv, [Next]_vars
               PROVE  SessionInv'
    OBVIOUS
  <1> USE DEF GatewayInv, DispatchInv, ShutdownInv, SessionInv, SessionOK, TypeOK,
          FrameNo, HasReceiver, HasSession, shared, dispatch, session, clients, Goto
  <1>1. CASE BeginDispatch
    <2>1. /\ key' \in {key, key \cup {frame'}} /\ frame' = frame + 1
          /\ UNCHANGED <<cpc, sent, tx_open, from, next, got, initial_keyframe>>
      BY <1>1 DEF BeginDispatch
    <2>2. ASSUME NEW c \in Clients PROVE SessionOK(c)'
      <3>1. HasReceiver(c) => frame' >= from[c] /\ from[c] <= sent + 1
        BY <2>1
      <3>2. frame' >= sent + 1
        BY <2>1
      <3> QED
        BY <2>1, <3>1, <3>2, SMTT(30)
    <2> QED
      BY <2>2
  <1>2. CASE CacheKeyframe
    BY <1>2 DEF CacheKeyframe
  <1>3. CASE PublishToHub
    BY <1>3 DEF PublishToHub
  <1>4. CASE Send
    BY <1>4 DEF Send
  <1>5. CASE StopRunning
    BY <1>5 DEF StopRunning
  <1>6. CASE DropSender
    BY <1>6 DEF DropSender
  <1>7. CASE CloseHub
    BY <1>7 DEF CloseHub
  <1>8. ASSUME NEW c \in Clients, Subscribe(c) PROVE SessionInv'
    BY <1>8 DEF Subscribe
  <1>9. ASSUME NEW c \in Clients, TakeReceiver(c) PROVE SessionInv'
    <2>1. CASE ~tx_open
      <3>1. /\ cpc' = [cpc EXCEPT ![c] = "out"] /\ cpc[c] = "receiver"
            /\ next' = [next EXCEPT ![c] = 1] /\ from' = [from EXCEPT ![c] = 1]
            /\ got' = [got EXCEPT ![c] = 0]
            /\ UNCHANGED <<sent, key, tx_open, initial_keyframe>>
        BY <1>9, <2>1 DEF TakeReceiver
      <3>2. SessionOK(c)'
        BY <3>1
      <3>3. ASSUME NEW d \in Clients, d # c PROVE SessionOK(d)'
        BY <3>1, <3>3
      <3> QED
        BY <3>2, <3>3
    <2>2. CASE tx_open
      <3>1. /\ cpc[c] = "receiver" /\ cpc' = [cpc EXCEPT ![c] = "register"]
            /\ UNCHANGED <<sent, key, tx_open, initial_keyframe>>
        BY <1>9, <2>2 DEF TakeReceiver
      <3>2. next' = [next EXCEPT ![c] = sent + 1] /\ next'[c] = sent + 1
        BY <1>9, <2>2 DEF TakeReceiver
      <3>3. from' = [from EXCEPT ![c] = sent + 1]
        BY <1>9, <3>2 DEF TakeReceiver
      <3>a. got' = [got EXCEPT ![c] = next'[c] - 1]
        BY <1>9 DEF TakeReceiver
      <3>b. next'[c] - 1 = sent
        BY <3>2
      <3>4. got' = [got EXCEPT ![c] = sent]
        BY <3>a, <3>b, Zenon
      <3>5. SessionOK(c)'
        BY <3>1, <3>2, <3>3, <3>4
      <3>6. ASSUME NEW d \in Clients, d # c PROVE SessionOK(d)'
        BY <3>1, <3>2, <3>3, <3>4, <3>6
      <3> QED
        BY <3>5, <3>6
    <2> QED
      BY <2>1, <2>2
  <1>10. ASSUME NEW c \in Clients, Register(c) PROVE SessionInv'
    BY <1>10 DEF Register
  <1>11. ASSUME NEW c \in Clients, ReadKeyframe(c) PROVE SessionInv'
    <2>1. /\ cpc' = [cpc EXCEPT ![c] = "session"] /\ cpc[c] = "keyframe"
          /\ initial_keyframe' = [initial_keyframe EXCEPT ![c] = latest_keyframe]
          /\ UNCHANGED <<sent, key, tx_open, from, next, got>>
      BY <1>11 DEF ReadKeyframe
    <2>2. SessionOK(c)'
      <3>1. from[c] <= sent + 1 /\ from[c] \in Nat
        BY <2>1
      <3>2. ASSUME NEW k \in key, k < from[c] PROVE latest_keyframe >= k
        BY <3>1, <3>2
      <3>3. latest_keyframe \in key \cup {0}
        OBVIOUS
      <3> QED
        BY <2>1, <3>1, <3>2, <3>3
    <2>3. ASSUME NEW d \in Clients, d # c PROVE SessionOK(d)'
      BY <2>1, <2>3
    <2> QED
      BY <2>2, <2>3
  <1>12. ASSUME NEW c \in Clients, Receive(c) PROVE SessionInv'
    <2>1. next' = [next EXCEPT ![c] = next[c] + 1] /\ next[c] <= sent /\ next[c] \in Nat
      BY <1>12 DEF Receive
    <2>2. got' = [got EXCEPT ![c] = got'[c]] /\ got'[c] \in {got[c], next[c]}
      BY <1>12 DEF Receive
    <2>3. cpc[c] = "session" /\ UNCHANGED <<sent, key, tx_open, cpc, from, initial_keyframe>>
      BY <1>12 DEF Receive
    <2>4. /\ got'[c] < next'[c] /\ next'[c] <= sent + 1
          /\ from[c] <= next'[c]
      BY <2>1, <2>2, <2>3
    <2>5. SessionOK(c)'
      BY <2>3, <2>4
    <2>6. ASSUME NEW d \in Clients, d # c PROVE SessionOK(d)'
      BY <2>1, <2>2, <2>3, <2>6
    <2> QED
      BY <2>5, <2>6
  <1>13. ASSUME NEW c \in Clients, Lag(c) PROVE SessionInv'
    <2>1. /\ next' = [next EXCEPT ![c] = sent - Capacity + 1] /\ next[c] \in Nat
          /\ next[c] < sent - Capacity + 1 /\ sent - Capacity + 1 <= sent + 1
          /\ sent - Capacity + 1 \in Int
      BY <1>13, GatewayAssumption DEF Lag, Overrun
    <2>2. cpc[c] = "session" /\ UNCHANGED <<sent, key, tx_open, cpc, from, initial_keyframe, got>>
      BY <1>13 DEF Lag
    <2>3. /\ next'[c] = sent - Capacity + 1 /\ got[c] < sent - Capacity + 1
          /\ from[c] <= sent - Capacity + 1
      BY <2>1, <2>2
    <2>4. SessionOK(c)'
      BY <2>1, <2>2, <2>3
    <2>5. ASSUME NEW d \in Clients, d # c PROVE SessionOK(d)'
      BY <2>1, <2>2, <2>5
    <2> QED
      BY <2>4, <2>5
  <1>14. ASSUME NEW c \in Clients, FindClosed(c) PROVE SessionInv'
    <2>1. /\ cpc' = [cpc EXCEPT ![c] = "closed"] /\ cpc[c] = "session"
          /\ ~tx_open /\ next[c] > sent
          /\ UNCHANGED <<sent, key, tx_open, from, next, got, initial_keyframe>>
      BY <1>14 DEF FindClosed
    <2>2. next[c] = sent + 1
      BY <2>1
    <2>3. SessionOK(c)'
      BY <2>1, <2>2
    <2>4. ASSUME NEW d \in Clients, d # c PROVE SessionOK(d)'
      BY <2>1, <2>4
    <2> QED
      BY <2>3, <2>4
  <1>15. ASSUME NEW c \in Clients, Leave(c) PROVE SessionInv'
    BY <1>15 DEF Leave
  <1>16. CASE UNCHANGED vars
    BY <1>16 DEF vars
  <1> QED
    BY <1>1, <1>2, <1>3, <1>4, <1>5, <1>6, <1>7, <1>8,
       <1>9, <1>10, <1>11, <1>12, <1>13, <1>14, <1>15, <1>16 DEF Next

\* Ids are unique and every session has its active peer (peer_list.rs:27-60).
LEMMA PeerStep == GatewayInv /\ [Next]_vars => PeerInv'
  <1> SUFFICES ASSUME GatewayInv, [Next]_vars
               PROVE  PeerInv'
    OBVIOUS
  <1> USE DEF GatewayInv, PeerInv, PeersAreSessions, TypeOK, HasPeer,
          shared, dispatch, session, clients, Goto
  <1>1. CASE BeginDispatch
    BY <1>1 DEF BeginDispatch
  <1>2. CASE CacheKeyframe
    BY <1>2 DEF CacheKeyframe
  <1>3. CASE PublishToHub
    BY <1>3 DEF PublishToHub
  <1>4. CASE Send
    BY <1>4 DEF Send
  <1>5. CASE StopRunning
    BY <1>5 DEF StopRunning
  <1>6. CASE DropSender
    BY <1>6 DEF DropSender
  <1>7. CASE CloseHub
    BY <1>7 DEF CloseHub
  <1>8. ASSUME NEW c \in Clients, Subscribe(c) PROVE PeerInv'
    BY <1>8 DEF Subscribe
  <1>9. ASSUME NEW c \in Clients, TakeReceiver(c) PROVE PeerInv'
    BY <1>9 DEF TakeReceiver
  <1>10. ASSUME NEW c \in Clients, Register(c) PROVE PeerInv'
    BY <1>10 DEF Register
  <1>11. ASSUME NEW c \in Clients, ReadKeyframe(c) PROVE PeerInv'
    BY <1>11 DEF ReadKeyframe
  <1>12. ASSUME NEW c \in Clients, Receive(c) PROVE PeerInv'
    BY <1>12 DEF Receive
  <1>13. ASSUME NEW c \in Clients, Lag(c) PROVE PeerInv'
    BY <1>13 DEF Lag
  <1>14. ASSUME NEW c \in Clients, FindClosed(c) PROVE PeerInv'
    BY <1>14 DEF FindClosed
  <1>15. ASSUME NEW c \in Clients, Leave(c) PROVE PeerInv'
    BY <1>15 DEF Leave
  <1>16. CASE UNCHANGED vars
    BY <1>16 DEF vars
  <1> QED
    BY <1>1, <1>2, <1>3, <1>4, <1>5, <1>6, <1>7, <1>8,
       <1>9, <1>10, <1>11, <1>12, <1>13, <1>14, <1>15, <1>16 DEF Next

-----------------------------------------------------------------------------
(* Theorems                                                                *)

\* The inductive invariant holds throughout.
THEOREM GatewayInvariant == Spec => []GatewayInv
  <1>1. Init => GatewayInv
    <2> SUFFICES ASSUME Init PROVE GatewayInv
      OBVIOUS
    <2>1. TypeOK
      <3>1. 0 \in FrameNo /\ 1 \in 1 .. MaxFrames + 1
        BY GatewayAssumption DEF FrameNo
      <3>2. gop \in [latest_keyframe_seq : FrameNo, current_gop_size : Nat, last_gop_size : Nat]
        BY <3>1 DEF Init
      <3>3. /\ mask \in [1 .. MaxFrames -> SUBSET Bits] /\ key \subseteq 1 .. MaxFrames
            /\ next_client_id \in Nat \ {0} /\ active_peers \subseteq Nat \ {0}
        BY DEF Init
      <3>4. /\ from \in [Clients -> 1 .. MaxFrames + 1] /\ next \in [Clients -> 1 .. MaxFrames + 1]
            /\ initial_keyframe \in [Clients -> FrameNo] /\ got \in [Clients -> FrameNo]
            /\ client_id \in [Clients -> Nat]
        BY <3>1 DEF Init
      <3> QED
        BY <3>1, <3>2, <3>3, <3>4 DEF Init, TypeOK
    <2>2. DispatchInv
      BY DEF Init, DispatchInv
    <2>3. GopInv /\ ShutdownInv
      BY DEF Init, GopInv, ShutdownInv
    <2>4. SessionInv /\ PeerInv
      BY DEF Init, SessionInv, SessionOK, PeerInv, PeersAreSessions,
             HasReceiver, HasSession, HasPeer
    <2> QED
      BY <2>1, <2>2, <2>3, <2>4 DEF GatewayInv
  <1>2. GatewayInv /\ [Next]_vars => GatewayInv'
    BY TypeStep, DispatchStep, GopStep, ShutdownStep, SessionStep, PeerStep DEF GatewayInv
  <1> QED
    BY <1>1, <1>2, PTL DEF Spec

\* The variables keep their types.
THEOREM GatewayTypeCorrect == Spec => []TypeOK
  <1>1. GatewayInv => TypeOK
    BY DEF GatewayInv
  <1> QED
    BY <1>1, GatewayInvariant, PTL

\* Every session starts from a keyframe at least as recent as the last one
\* dispatched before its receiver began (gateway.rs:213, 238-255).
THEOREM GatewayFreshKeyframe == Spec => []StartsFromFreshKeyframe
  <1>1. GatewayInv => StartsFromFreshKeyframe
    BY DEF GatewayInv, SessionInv, SessionOK, StartsFromFreshKeyframe
  <1> QED
    BY <1>1, GatewayInvariant, PTL

\* The active peers are the ids of the sessions, one each (gateway.rs:246-250, 172).
THEOREM GatewayPeersAreSessions == Spec => []PeersAreSessions
  <1>1. GatewayInv => PeersAreSessions
    BY DEF GatewayInv, PeerInv
  <1> QED
    BY <1>1, GatewayInvariant, PTL

\* A session is told of the shutdown only after the last message (gateway.rs:161).
THEOREM GatewayClosedWhenDrained == Spec => []ClosedWhenDrained
  <1>1. ASSUME GatewayInv PROVE ClosedWhenDrained
    <2>1. ~tx_open => ~is_running
      BY <1>1 DEF GatewayInv, ShutdownInv, TypeOK
    <2> QED
      BY <1>1, <2>1 DEF GatewayInv, SessionInv, SessionOK, ClosedWhenDrained
  <1> QED
    BY <1>1, GatewayInvariant, PTL

\* Keyframe cache and GOP tracker agree between dispatches (codec.rs:113-123).
THEOREM GatewayGopAgrees == Spec => []GopAgrees
  <1>1. GatewayInv => GopAgrees
    BY DEF GatewayInv, GopInv, GopAgrees, TypeOK, FrameNo
  <1> QED
    BY <1>1, GatewayInvariant, PTL

-----------------------------------------------------------------------------
(* Refinement                                                              *)

\* A gateway step is a step of the abstract feed, or leaves it alone.
LEMMA FeedStep == GatewayInv /\ [Next]_vars => [Feed!Next]_(Feed!vars)
  <1> SUFFICES ASSUME GatewayInv, [Next]_vars
               PROVE  [Feed!Next]_(Feed!vars)
    OBVIOUS
  <1> DEFINE attached == {c \in Clients : HasReceiver(c)}
  <1>a. TypeOK /\ DispatchInv /\ SessionInv
    BY DEF GatewayInv
  <1> USE DEF Feed!vars, HasReceiver, Goto
  <1>1. CASE BeginDispatch
    BY <1>1 DEF BeginDispatch, clients, session
  <1>2. CASE CacheKeyframe
    BY <1>2 DEF CacheKeyframe, clients, session
  <1>3. CASE PublishToHub
    BY <1>3 DEF PublishToHub, clients, session
  <1>4. CASE Send
    <2>1. CASE tx_open
      <3>1. sent' = sent + 1 /\ UNCHANGED <<cpc, got>>
        BY <1>4, <2>1, <1>a DEF Send, DispatchInv, clients, session
      <3>2. Feed!Produce
        BY <3>1 DEF Feed!Produce
      <3> QED
        BY <3>2 DEF Feed!Next
    <2>2. CASE ~tx_open
      BY <1>4, <2>2 DEF Send, clients, session
    <2> QED
      BY <2>1, <2>2
  <1>5. CASE StopRunning
    BY <1>5 DEF StopRunning, clients, session
  <1>6. CASE DropSender
    BY <1>6 DEF DropSender, clients, session
  <1>7. CASE CloseHub
    BY <1>7 DEF CloseHub, clients, session
  <1>8. ASSUME NEW c \in Clients, Subscribe(c) PROVE [Feed!Next]_(Feed!vars)
    <2>1. attached' = attached
      BY <1>8, <1>a DEF Subscribe, TypeOK
    <2> QED
      BY <1>8, <2>1 DEF Subscribe, shared, session
  <1>9. ASSUME NEW c \in Clients, TakeReceiver(c) PROVE [Feed!Next]_(Feed!vars)
    <2>1. CASE tx_open
      <3>1. attached' = attached \cup {c} /\ c \notin attached
        BY <1>9, <2>1, <1>a DEF TakeReceiver, TypeOK
      <3>2. got' = [got EXCEPT ![c] = sent] /\ sent \in 0 .. sent /\ sent' = sent
        BY <1>9, <2>1, <1>a DEF TakeReceiver, TypeOK, FrameNo, shared
      <3>3. Feed!Attach(c)
        BY <3>1, <3>2 DEF Feed!Attach
      <3> QED
        BY <3>3 DEF Feed!Next
    <2>2. CASE ~tx_open
      <3>1. attached' = attached
        BY <1>9, <2>2, <1>a DEF TakeReceiver, TypeOK
      <3>2. got[c] = 0
        BY <1>9, <1>a DEF TakeReceiver, SessionInv, SessionOK
      <3>3. got' = got
        BY <1>9, <2>2, <3>2, <1>a DEF TakeReceiver, TypeOK
      <3> QED
        BY <1>9, <3>1, <3>3 DEF TakeReceiver, shared
    <2> QED
      BY <2>1, <2>2
  <1>10. ASSUME NEW c \in Clients, Register(c) PROVE [Feed!Next]_(Feed!vars)
    <2>1. attached' = attached
      BY <1>10, <1>a DEF Register, TypeOK
    <2> QED
      BY <1>10, <2>1 DEF Register, shared
  <1>11. ASSUME NEW c \in Clients, ReadKeyframe(c) PROVE [Feed!Next]_(Feed!vars)
    <2>1. attached' = attached
      BY <1>11, <1>a DEF ReadKeyframe, TypeOK
    <2> QED
      BY <1>11, <2>1 DEF ReadKeyframe, shared
  <1>12. ASSUME NEW c \in Clients, Receive(c) PROVE [Feed!Next]_(Feed!vars)
    <2>1. c \in attached /\ got[c] < next[c] /\ next[c] <= sent /\ sent' = sent /\ cpc' = cpc
      BY <1>12, <1>a DEF Receive, SessionInv, SessionOK, shared
    <2>2. CASE Matches(c, next[c])
      <3>1. got' = [got EXCEPT ![c] = next[c]]
        BY <1>12, <2>2 DEF Receive
      <3>2. next[c] \in got[c] + 1 .. sent
        BY <2>1, <1>a DEF TypeOK, FrameNo
      <3>3. Feed!Take(c)
        BY <2>1, <3>1, <3>2 DEF Feed!Take
      <3> QED
        BY <3>3 DEF Feed!Next
    <2>3. CASE ~Matches(c, next[c])
      <3>1. got' = got
        BY <1>12, <2>3, <1>a DEF Receive, TypeOK
      <3> QED
        BY <2>1, <3>1
    <2> QED
      BY <2>2, <2>3
  <1>13. ASSUME NEW c \in Clients, Lag(c) PROVE [Feed!Next]_(Feed!vars)
    BY <1>13 DEF Lag, shared
  <1>14. ASSUME NEW c \in Clients, FindClosed(c) PROVE [Feed!Next]_(Feed!vars)
    <2>1. attached' = attached
      BY <1>14, <1>a DEF FindClosed, TypeOK
    <2> QED
      BY <1>14, <2>1 DEF FindClosed, shared, session
  <1>15. ASSUME NEW c \in Clients, Leave(c) PROVE [Feed!Next]_(Feed!vars)
    <2>1. attached' = attached \ {c} /\ c \in attached
      BY <1>15, <1>a DEF Leave, TypeOK
    <2>2. Feed!Detach(c)
      BY <1>15, <2>1 DEF Leave, Feed!Detach, shared
    <2> QED
      BY <2>2 DEF Feed!Next
  <1>16. CASE UNCHANGED vars
    BY <1>16 DEF vars, shared, clients, session
  <1> QED
    BY <1>1, <1>2, <1>3, <1>4, <1>5, <1>6, <1>7, <1>8,
       <1>9, <1>10, <1>11, <1>12, <1>13, <1>14, <1>15, <1>16 DEF Next

\* Sessions move forward through the frames sent, whatever is lagged, dropped
\* or shut down (gateway.rs:149-166).
THEOREM GatewayImplementsFeed == Spec => ImplementsFeed
  <1>1. Init => Feed!Init
    BY DEF Init, Feed!Init, HasReceiver
  <1> QED
    BY <1>1, FeedStep, GatewayInvariant, PTL DEF Spec, ImplementsFeed, Feed!Spec
=============================================================================
