-------------------------- MODULE RtmpIngestProofs --------------------------
(***************************************************************************)
(* What the RTMP ingest guarantees for every set of connections and stream *)
(* ids, every number of files, and every bound on commands and restarts.   *)
(***************************************************************************)
EXTENDS RtmpIngest, TLAPS

-----------------------------------------------------------------------------
(* The sessions that publish                                               *)

\* A publish command adds one gateway and keeps those there are.
LEMMA Made ==
    ASSUME TypeOK, NEW c \in Connections, Register(c), stream_id[c] \in StreamIds
    PROVE  /\ made' \in Seq([stream : StreamIds, owner : Connections])
           /\ Len(made) \in Nat /\ Len(made') = Len(made) + 1
           /\ \A h \in 1 .. Len(made) : made'[h] = made[h]
           /\ made'[Len(made) + 1].stream = stream_id[c]
           /\ made'[Len(made) + 1].owner = c
  BY DEF Register, TypeOK, Gateways

\* What a sequence holds is of its type.
LEMMA ElementOf ==
    ASSUME NEW S, NEW q \in Seq(S), NEW i \in 1 .. Len(q)
    PROVE  q[i] \in S
  OBVIOUS

\* The streams of a session are those of its gateways.
LEMMA StreamsOf ==
    \A c, s : s \in Streams(c) <=> \E g \in Gateways : made[g].owner = c /\ made[g].stream = s
  BY DEF Streams

\* So they are after a step.
LEMMA StreamsOfNext ==
    \A c, s : s \in Streams(c)' <=>
        \E g \in 1 .. Len(made') : made'[g].owner = c /\ made'[g].stream = s
  BY DEF Streams, Gateways

\* A writer of the session's stream.
LEMMA WriterTyped ==
    /\ NoWriter \in Writers
    /\ \A s \in StreamIds \cup {Unnamed}, f \in Files : Writer(s, f) \in Writers
  BY IngestAssumption DEF NoWriter, Writer, Writers, Files

-----------------------------------------------------------------------------
(* What a step can change                                                  *)

\* Only a publish command, a clean end and a restart change who is registered.
LEMMA RegistrySteps ==
    [Next]_vars =>
        \/ UNCHANGED <<registry, made>>
        \/ \E c \in Connections : Register(c) \/ Unregister(c)
        \/ Crash
  BY DEF Next, vars, Connect, Publish, OpenFile, ExtendFile, CreateFails, ExtendFails,
         StoreWriter, Respond, WriteFrame, Fail, EndOfStream, DropState, BusError

\* Only the creation and the end of a writer change what a name leads to.
LEMMA NameSteps ==
    [Next]_vars =>
        \/ UNCHANGED <<path, inodes>>
        \/ \E c \in Connections : OpenFile(c) \/ StoreWriter(c) \/ DropState(c)
  BY DEF Next, vars, sys, Connect, Publish, ExtendFile, CreateFails, ExtendFails, Register,
         Respond, WriteFrame, Fail, EndOfStream, Unregister, BusError, Crash

\* What the names, the files and the writers are changed by.
LEMMA FileSteps ==
    [Next]_vars =>
        \/ UNCHANGED <<path, half_made, life, lives, shm_writer, fresh>>
        \/ \E c \in Connections : \/ OpenFile(c) \/ ExtendFails(c) \/ WriteFrame(c)
                                  \/ StoreWriter(c) \/ DropState(c)
        \/ Crash
  BY DEF Next, vars, sys, session, Connect, Publish, ExtendFile, CreateFails, Register,
         Respond, Fail, EndOfStream, Unregister, BusError

\* What the registry and the sessions' gateways are changed by; no session
\* leaves "dropping" in any other way.
LEMMA GatewaySteps ==
    TypeOK /\ [Next]_vars =>
        \/ /\ UNCHANGED <<registry, made, gateway>>
           /\ \A d \in Connections : cpc'[d] # "dropping" => cpc[d] # "dropping"
        \/ \E c \in Connections : Register(c) \/ Unregister(c) \/ DropState(c)
        \/ Crash
  BY DEF Next, vars, sys, session, TypeOK, Goto, Connect, Publish, OpenFile, ExtendFile,
         CreateFails, ExtendFails, StoreWriter, Respond, WriteFrame, Fail, EndOfStream, BusError

\* Where a session may go in a step that neither makes nor drops a gateway of
\* its, nor resolves its id.
Moves(d) ==
    \/ cpc'[d] = cpc[d]
    \/ cpc[d] \in {"new", "open"} /\ cpc'[d] \in {"open", "create", "failing", "ending"}
    \/ cpc[d] \in {"create", "extend", "store"} /\ cpc'[d] \in {"extend", "store", "register"}
    \/ cpc[d] = "ending" /\ cpc'[d] = "dropping"
    \/ cpc[d] = "respond" /\ cpc'[d] = "failing"

\* What the gateways of the sessions, and the ids they resolve, are changed by.
LEMMA ResolvedSteps ==
    TypeOK /\ [Next]_vars =>
        \/ /\ UNCHANGED <<made, gateway, stream_id_resolved>>
           /\ \A d \in Connections : Moves(d)
        \/ \E c \in Connections : Register(c) \/ DropState(c) \/ Respond(c)
        \/ Crash
  <1> SUFFICES ASSUME TypeOK, [Next]_vars,
                      ~ \E c \in Connections : Register(c) \/ DropState(c) \/ Respond(c), ~Crash
               PROVE  /\ UNCHANGED <<made, gateway, stream_id_resolved>>
                      /\ \A d \in Connections : Moves(d)
    OBVIOUS
  <1>1. UNCHANGED <<made, gateway, stream_id_resolved>>
    BY DEF Next, vars, sys, session, Connect, Publish, OpenFile, ExtendFile, CreateFails,
           ExtendFails, StoreWriter, WriteFrame, Fail, EndOfStream, Unregister, BusError
  <1>2. ASSUME NEW d \in Connections PROVE Moves(d)
    BY DEF Moves, TypeOK, Goto, Next, vars, Connect, Publish, OpenFile, ExtendFile, CreateFails,
           ExtendFails, StoreWriter, WriteFrame, Fail, EndOfStream, Unregister, BusError
  <1> QED
    BY <1>1, <1>2

\* A session ends cleanly only after it has looked at the registry.
LEMMA EndSteps ==
    TypeOK /\ [Next]_vars =>
        \/ /\ UNCHANGED <<registry, made>>
           /\ \A d \in Connections :
                  cpc'[d] \in {"dropping", "gone"} => cpc[d] \in {"dropping", "gone"}
        \/ \E c \in Connections : Register(c) \/ Unregister(c)
        \/ Crash
  <1> SUFFICES ASSUME TypeOK, [Next]_vars,
                      ~ \E c \in Connections : Register(c) \/ Unregister(c), ~Crash,
                      NEW d \in Connections, cpc'[d] \in {"dropping", "gone"}
               PROVE  cpc[d] \in {"dropping", "gone"}
    BY RegistrySteps
  <1> QED
    BY DEF TypeOK, Goto, Next, vars, Connect, Publish, OpenFile, ExtendFile, CreateFails,
           ExtendFails, StoreWriter, Respond, WriteFrame, Fail, EndOfStream, DropState, BusError

-----------------------------------------------------------------------------
(* The invariant, conjunct by conjunct                                     *)

\* Every step keeps the variables in their types.
LEMMA TypeStep == IngestInv /\ [Next]_vars => TypeOK'
  <1> SUFFICES ASSUME IngestInv, [Next]_vars
               PROVE  TypeOK'
    OBVIOUS
  <1>a. TypeOK /\ \A c \in Connections : PublishOK(c)
    BY DEF IngestInv, SessionInv
  <1> USE <1>a, IngestAssumption, WriterTyped
      DEF TypeOK, Files, sys, session, Goto
  <1>1. ASSUME NEW c \in Connections, Connect(c) PROVE TypeOK'
    BY <1>1 DEF Connect
  <1>2. ASSUME NEW c \in Connections, Publish(c) PROVE TypeOK'
    BY <1>2 DEF Publish
  <1>3. ASSUME NEW c \in Connections, OpenFile(c) PROVE TypeOK'
    <2> DEFINE f == IF path[stream_id[c]] = 0 THEN inodes + 1 ELSE path[stream_id[c]]
    <2>1. stream_id[c] \in StreamIds /\ f \in 1 .. MaxFiles
      BY <1>3 DEF OpenFile, PublishOK
    <2> HIDE DEF f
    <2>2. /\ path' = [path EXCEPT ![stream_id[c]] = f]
          /\ inodes' \in {inodes, f}
          /\ truncated' = truncated \cup {f} /\ half_made' = half_made \ {f}
          /\ head' = [head EXCEPT ![f] = 0] /\ life' = [life EXCEPT ![f] = lives]
          /\ fresh' = [fresh EXCEPT ![c] = Writer(stream_id[c], f)]
      BY <1>3 DEF OpenFile, f
    <2>3. /\ path' \in [StreamIds -> {0} \cup Files] /\ inodes' \in {0} \cup Files
      BY <2>1, <2>2
    <2>a. truncated' \subseteq Files /\ half_made' \subseteq Files
      BY <2>1, <2>2
    <2>b. head' \in [Files -> 0 .. MaxFrames]
      BY <2>1, <2>2
    <2>c. life' \in [Files -> 0 .. MaxLives]
      <3>1. lives \in 0 .. MaxLives
        OBVIOUS
      <3> QED
        BY <2>1, <2>2, <3>1
    <2>4. fresh' \in [Connections -> Writers]
      BY <2>1, <2>2
    <2> QED
      BY <1>3, <2>3, <2>a, <2>b, <2>c, <2>4 DEF OpenFile
  <1>4. ASSUME NEW c \in Connections, ExtendFile(c) PROVE TypeOK'
    <2>1. truncated' \subseteq Files
      BY <1>4 DEF ExtendFile
    <2>2. head' \in [Files -> 0 .. MaxFrames]
      <3>1. head' = [head EXCEPT ![fresh[c].file] = 0] /\ 0 \in 0 .. MaxFrames
        BY <1>4 DEF ExtendFile
      <3> QED
        BY <3>1
    <2> QED
      BY <1>4, <2>1, <2>2 DEF ExtendFile
  <1>5. ASSUME NEW c \in Connections, CreateFails(c) PROVE TypeOK'
    BY <1>5 DEF CreateFails
  <1>6. ASSUME NEW c \in Connections, ExtendFails(c) PROVE TypeOK'
    <2>1. fresh[c].file \in Files
      BY <1>6 DEF ExtendFails, PublishOK, Writers
    <2> QED
      BY <1>6, <2>1 DEF ExtendFails
  <1>7. ASSUME NEW c \in Connections, StoreWriter(c) PROVE TypeOK'
    BY <1>7 DEF StoreWriter, Unlink
  <1>8. ASSUME NEW c \in Connections, Register(c) PROVE TypeOK'
    <2>1. stream_id[c] \in StreamIds
      BY <1>8 DEF Register, PublishOK
    <2>2. /\ made' \in Seq([stream : StreamIds, owner : Connections])
          /\ Len(made) \in Nat /\ Len(made') = Len(made) + 1
      BY <1>8, <2>1, Made
    <2>3. registry' \in [StreamIds -> 0 .. Len(made')]
      BY <1>8, <2>2 DEF Register
    <2>4. gateway' \in [Connections -> 0 .. Len(made')]
      BY <1>8, <2>2 DEF Register
    <2> QED
      BY <1>8, <2>2, <2>3, <2>4 DEF Register
  <1>9. ASSUME NEW c \in Connections, Respond(c) PROVE TypeOK'
    BY <1>9 DEF Respond
  <1>10. ASSUME NEW c \in Connections, WriteFrame(c) PROVE TypeOK'
    <2> DEFINE n == shm_writer[c].frame_counter
    <2>a. shm_writer[c] \in Writers
      OBVIOUS
    <2>b. n \in 0 .. MaxFrames
      BY <2>a DEF Writers
    <2>c. n < MaxFrames
      BY <1>10 DEF WriteFrame
    <2>1. n + 1 \in 0 .. MaxFrames
      BY <2>b, <2>c
    <2>d. [shm_writer[c] EXCEPT !.frame_counter = n + 1] \in Writers
      BY <2>a, <2>1 DEF Writers
    <2>2. shm_writer' \in [Connections -> Writers]
      BY <1>10, <2>d DEF WriteFrame
    <2>3. head' \in [Files -> 0 .. MaxFrames]
      BY <1>10, <2>1 DEF WriteFrame
    <2> QED
      BY <1>10, <2>2, <2>3 DEF WriteFrame
  <1>11. ASSUME NEW c \in Connections, Fail(c) PROVE TypeOK'
    BY <1>11 DEF Fail
  <1>12. ASSUME NEW c \in Connections, EndOfStream(c) PROVE TypeOK'
    BY <1>12 DEF EndOfStream
  <1>13. ASSUME NEW c \in Connections, Unregister(c) PROVE TypeOK'
    <2>1. registry' \in [StreamIds -> 0 .. Len(made)]
      BY <1>13 DEF Unregister
    <2> QED
      BY <1>13, <2>1 DEF Unregister
  <1>14. ASSUME NEW c \in Connections, DropState(c) PROVE TypeOK'
    <2>1. path' \in [StreamIds -> {0} \cup Files]
      BY <1>14 DEF DropState, Unlink
    <2>2. shm_writer' \in [Connections -> Writers]
      BY <1>14 DEF DropState
    <2>3. gateway' \in [Connections -> 0 .. Len(made')]
      BY <1>14 DEF DropState
    <2>4. cpc'[c] \in {"gone", "failed"} /\ cpc' = [cpc EXCEPT ![c] = cpc'[c]]
      BY <1>14 DEF DropState
    <2> QED
      BY <1>14, <2>1, <2>2, <2>3, <2>4 DEF DropState
  <1>15. CASE Crash
    <2>1. made' \in Seq([stream : StreamIds, owner : Connections]) /\ Len(made') = 0
      BY <1>15 DEF Crash
    <2>2. cpc' \in [Connections -> {"new", "lost"}]
      BY <1>15 DEF Crash
    <2>3. lives' \in 1 .. MaxLives
      BY <1>15 DEF Crash
    <2>4. /\ registry' \in [StreamIds -> 0 .. Len(made')]
          /\ gateway' \in [Connections -> 0 .. Len(made')]
      BY <1>15, <2>1 DEF Crash
    <2>5. shm_writer' \in [Connections -> Writers] /\ fresh' \in [Connections -> Writers]
      BY <1>15 DEF Crash
    <2>6. /\ stream_id' \in [Connections -> StreamIds \cup {Unnamed}]
          /\ stream_id_resolved' \in [Connections -> StreamIds \cup {Unnamed}]
      BY <1>15 DEF Crash
    <2> QED
      BY <1>15, <2>1, <2>2, <2>3, <2>4, <2>5, <2>6 DEF Crash
  <1>16. ASSUME NEW c \in Connections, BusError(c) PROVE TypeOK'
    BY <1>15, <1>16 DEF BusError
  <1>17. CASE UNCHANGED vars
    BY <1>17 DEF vars, Gateways
  <1> QED
    BY <1>1, <1>2, <1>3, <1>4, <1>5, <1>6, <1>7, <1>8, <1>9, <1>10, <1>11, <1>12,
       <1>13, <1>14, <1>15, <1>16, <1>17 DEF Next

\* The registration of a stream stays its newest.
LEMMA RegistryStep == IngestInv /\ [Next]_vars => RegistryInv'
  <1> SUFFICES ASSUME IngestInv, [Next]_vars
               PROVE  RegistryInv'
    OBVIOUS
  <1>a. TypeOK /\ RegistryInv /\ \A c \in Connections : PublishOK(c)
    BY DEF IngestInv, SessionInv
  <1>1. CASE UNCHANGED <<registry, made>>
    BY <1>1, <1>a DEF RegistryInv, Gateways
  <1>2. ASSUME NEW c \in Connections, Register(c) PROVE RegistryInv'
    <2>1. stream_id[c] \in StreamIds
      BY <1>2, <1>a DEF Register, Goto, PublishOK
    <2>2. registry' = [registry EXCEPT ![stream_id[c]] = Len(made) + 1]
      BY <1>2 DEF Register
    <2>3. registry \in [StreamIds -> 0 .. Len(made)]
      BY <1>a DEF TypeOK
    <2>4. ASSUME NEW s \in StreamIds, registry'[s] # 0
          PROVE  /\ made'[registry'[s]].stream = s
                 /\ \A h \in 1 .. Len(made') : made'[h].stream = s => h <= registry'[s]
      <3>a. /\ Len(made) \in Nat /\ Len(made') = Len(made) + 1
            /\ \A h \in 1 .. Len(made) : made'[h] = made[h]
            /\ made'[Len(made) + 1].stream = stream_id[c]
        BY <1>a, <1>2, <2>1, Made
      <3>1. CASE s = stream_id[c]
        BY <2>1, <2>2, <2>3, <3>a, <3>1
      <3>2. CASE s # stream_id[c]
        <4>1. registry'[s] = registry[s] /\ registry[s] \in 1 .. Len(made)
          BY <2>2, <2>3, <2>4, <3>2
        <4>2. \A h \in 1 .. Len(made') : h \in 1 .. Len(made) \/ h = Len(made) + 1
          BY <3>a
        <4> QED
          BY <1>a, <2>4, <3>a, <3>2, <4>1, <4>2 DEF RegistryInv, Gateways
      <3> QED
        BY <3>1, <3>2
    <2> QED
      BY <2>4 DEF RegistryInv, Gateways
  <1>3. ASSUME NEW c \in Connections, Unregister(c) PROVE RegistryInv'
    <2>1. \A s \in StreamIds : registry'[s] \in {0, registry[s]}
      BY <1>3, <1>a DEF Unregister, TypeOK
    <2> QED
      BY <1>3, <1>a, <2>1 DEF Unregister, RegistryInv, Gateways
  <1>4. CASE Crash
    BY <1>4 DEF Crash, RegistryInv
  <1> QED
    BY <1>1, <1>2, <1>3, <1>4, RegistrySteps

\* Unlinking a writer takes its name, and no other.
LEMMA Unlinked ==
    ASSUME TypeOK, NEW w, Unlink(w)
    PROVE  \A s \in StreamIds : /\ path'[s] \in {0, path[s]}
                                /\ w # NoWriter /\ w.stream = s => path'[s] = 0
  BY DEF TypeOK, Unlink

\* Names keep leading to files of their own.
LEMMA NamesStep == IngestInv /\ [Next]_vars => NamesInv'
  <1> SUFFICES ASSUME IngestInv, [Next]_vars
               PROVE  NamesInv'
    OBVIOUS
  <1>a. TypeOK /\ NamesInv /\ \A c \in Connections : PublishOK(c)
    BY DEF IngestInv, SessionInv
  <1>1. CASE UNCHANGED <<path, inodes>>
    BY <1>1, <1>a DEF NamesInv
  <1>2. ASSUME NEW c \in Connections, OpenFile(c) PROVE NamesInv'
    <2> DEFINE f == IF path[stream_id[c]] = 0 THEN inodes + 1 ELSE path[stream_id[c]]
    <2>1. stream_id[c] \in StreamIds
      BY <1>2, <1>a DEF OpenFile, Goto, PublishOK
    <2>2. /\ path' = [path EXCEPT ![stream_id[c]] = f]
          /\ inodes' = IF path[stream_id[c]] = 0 THEN f ELSE inodes
      BY <1>2 DEF OpenFile
    <2>3. inodes \in Nat /\ \A s \in StreamIds : path[s] \in Nat
      BY <1>a, IngestAssumption DEF TypeOK, Files
    <2>4. f # 0 /\ f <= inodes' /\ inodes <= inodes'
      BY <1>a, <2>1, <2>2, <2>3 DEF NamesInv
    <2>5. \A s \in StreamIds : s # stream_id[c] => path'[s] = path[s] /\ path[s] # f
      <3> SUFFICES ASSUME NEW s \in StreamIds, s # stream_id[c]
                   PROVE  path'[s] = path[s] /\ path[s] # f
        OBVIOUS
      <3>1. path'[s] = path[s]
        BY <1>a, <2>1, <2>2 DEF TypeOK
      <3>2. CASE path[stream_id[c]] = 0
        BY <1>a, <2>3, <3>1, <3>2 DEF NamesInv
      <3>3. CASE path[stream_id[c]] # 0
        BY <1>a, <2>1, <3>1, <3>3 DEF NamesInv
      <3> QED
        BY <3>1, <3>2, <3>3
    <2>6. path'[stream_id[c]] = f
      BY <1>a, <2>1, <2>2 DEF TypeOK
    <2>7. inodes' \in Nat
      BY <2>1, <2>2, <2>3
    <2> HIDE DEF f
    <2> QED
      BY <1>a, <2>1, <2>3, <2>4, <2>5, <2>6, <2>7 DEF NamesInv
  <1>3. ASSUME NEW c \in Connections, StoreWriter(c) \/ DropState(c) PROVE NamesInv'
    <2>1. UNCHANGED inodes /\ \A s \in StreamIds : path'[s] \in {0, path[s]}
      BY <1>3, <1>a, Unlinked DEF StoreWriter, DropState, sys
    <2> QED
      BY <1>a, <2>1 DEF NamesInv
  <1> QED
    BY <1>1, <1>2, <1>3, NameSteps

\* Files of this run keep a writer that stands for them.
LEMMA FileStep == IngestInv /\ [Next]_vars => FileInv'
  <1> SUFFICES ASSUME IngestInv, [Next]_vars
               PROVE  FileInv'
    OBVIOUS
  <1>a. /\ TypeOK /\ NamesInv /\ FileInv
        /\ \A c \in Connections : PublishOK(c)
    BY DEF IngestInv, SessionInv
  <1>b. /\ lives \in Nat /\ life \in [Files -> Nat]
        /\ \A s \in StreamIds : path[s] # 0 => path[s] \in Files
    BY <1>a, IngestAssumption DEF TypeOK
  <1>1. CASE UNCHANGED <<path, half_made, life, lives, shm_writer, fresh>>
    BY <1>1, <1>a DEF FileInv
  <1>2. ASSUME NEW c \in Connections, OpenFile(c) PROVE FileInv'
    <2> DEFINE s0 == stream_id[c]
               f == IF path[s0] = 0 THEN inodes + 1 ELSE path[s0]
    <2>1. s0 \in StreamIds /\ fresh[c].file = 0
      BY <1>2, <1>a DEF OpenFile, Goto, PublishOK
    <2>2. /\ path' = [path EXCEPT ![s0] = f] /\ half_made' = half_made \ {f}
          /\ life' = [life EXCEPT ![f] = lives]
          /\ UNCHANGED <<lives, shm_writer>>
      BY <1>2 DEF OpenFile
    <2>3. fresh' = [fresh EXCEPT ![c] = Writer(s0, f)] /\ fresh'[c] = Writer(s0, f)
      BY <1>2, <1>a DEF OpenFile, TypeOK
    <2>4. \A g \in Files : life'[g] <= lives'
      BY <1>a, <1>b, <2>2 DEF FileInv
    <2>5. ASSUME NEW s \in StreamIds,
                 path'[s] # 0, life'[path'[s]] = lives', path'[s] \notin half_made'
          PROVE  \E d \in Connections : \E w \in {shm_writer'[d], fresh'[d]} :
                     w.stream = s /\ w.file = path'[s]
      <3>1. CASE s = s0
        <4>1. path'[s] = f
          BY <1>a, <2>1, <2>2, <3>1 DEF TypeOK
        <4>2. fresh'[c].stream = s /\ fresh'[c].file = path'[s]
          BY <2>3, <3>1, <4>1 DEF Writer
        <4> QED
          BY <4>2
      <3>2. CASE s # s0
        <4>1. path'[s] = path[s]
          BY <1>a, <2>1, <2>2, <3>2 DEF TypeOK
        <4>2. path[s] # f
          <5>1. inodes \in Nat
            BY <1>a, IngestAssumption DEF TypeOK, Files
          <5>2. path[s] <= inodes
            BY <1>a, <2>5, <4>1 DEF NamesInv
          <5>3. path[s0] # path[s]
            BY <1>a, <2>1, <2>5, <3>2, <4>1 DEF NamesInv
          <5>4. path[s] \in Nat
            BY <1>b, <2>5, <4>1, IngestAssumption DEF Files
          <5> QED
            BY <5>1, <5>2, <5>3, <5>4
        <4>3. life[path[s]] = lives /\ path[s] \notin half_made
          BY <1>b, <2>2, <2>5, <4>1, <4>2
        <4>4. PICK d \in Connections : \E w \in {shm_writer[d], fresh[d]} :
                  w.stream = s /\ w.file = path[s]
          BY <1>a, <2>5, <4>1, <4>3 DEF FileInv
        <4>5. d = c => shm_writer[d].stream = s /\ shm_writer[d].file = path[s]
          BY <2>1, <2>5, <4>1, <4>4
        <4>6. d # c => fresh'[d] = fresh[d]
          BY <1>a, <2>3 DEF TypeOK
        <4> QED
          BY <2>2, <4>1, <4>4, <4>5, <4>6
      <3> QED
        BY <3>1, <3>2
    <2> HIDE DEF f, s0
    <2> QED
      BY <2>4, <2>5 DEF FileInv
  <1>3. ASSUME NEW c \in Connections, ExtendFails(c) PROVE FileInv'
    <2>1. /\ half_made' = half_made \cup {fresh[c].file}
          /\ fresh' = [fresh EXCEPT ![c] = NoWriter]
          /\ UNCHANGED <<path, life, lives, shm_writer>>
      BY <1>3 DEF ExtendFails
    <2>2. \A d \in Connections : d # c => fresh'[d] = fresh[d]
      BY <1>a, <2>1 DEF TypeOK
    <2> QED
      BY <1>a, <2>1, <2>2 DEF FileInv
  <1>4. ASSUME NEW c \in Connections, StoreWriter(c) \/ DropState(c) PROVE FileInv'
    <2>1. /\ Unlink(shm_writer[c]) /\ UNCHANGED <<half_made, life, lives>>
          /\ \A d \in Connections \ {c} : shm_writer'[d] = shm_writer[d] /\ fresh'[d] = fresh[d]
      BY <1>4, <1>a DEF StoreWriter, DropState, sys, TypeOK
    <2>2. fresh[c] \in {shm_writer'[c], fresh'[c]}
      BY <1>4, <1>a DEF StoreWriter, DropState, TypeOK
    <2>3. ASSUME NEW s \in StreamIds,
                 path'[s] # 0, life'[path'[s]] = lives', path'[s] \notin half_made'
          PROVE  \E d \in Connections : \E w \in {shm_writer'[d], fresh'[d]} :
                     w.stream = s /\ w.file = path'[s]
      <3>1. path'[s] = path[s] /\ (shm_writer[c] # NoWriter => shm_writer[c].stream # s)
        BY <1>a, <2>1, <2>3, Unlinked
      <3>2. PICK d \in Connections : \E w \in {shm_writer[d], fresh[d]} :
                w.stream = s /\ w.file = path[s]
        BY <1>a, <2>1, <2>3, <3>1 DEF FileInv
      <3>3. shm_writer[c].stream = s => shm_writer[c].file # path[s]
        BY <2>3, <3>1 DEF NoWriter, Writer
      <3> QED
        BY <2>1, <2>2, <3>1, <3>2, <3>3
    <2> QED
      BY <1>a, <2>1, <2>3 DEF FileInv
  <1>5. ASSUME NEW c \in Connections, WriteFrame(c) PROVE FileInv'
    <2>1. /\ shm_writer' = [shm_writer EXCEPT ![c].frame_counter = shm_writer[c].frame_counter + 1]
          /\ UNCHANGED <<path, half_made, life, lives, fresh>>
      BY <1>5, <1>a DEF WriteFrame, TypeOK
    <2>2. \A d \in Connections : /\ shm_writer'[d].stream = shm_writer[d].stream
                                 /\ shm_writer'[d].file = shm_writer[d].file
      BY <1>a, <2>1 DEF TypeOK, Writers
    <2> QED
      BY <1>a, <2>1, <2>2 DEF FileInv
  <1>6. CASE Crash
    BY <1>6, <1>a, <1>b DEF Crash, FileInv, NamesInv
  <1> QED
    BY <1>1, <1>2, <1>3, <1>4, <1>5, <1>6, FileSteps

\* The newest gateway of a stream stays registered while its session lasts.
LEMMA NewestStep == IngestInv /\ [Next]_vars => NewestStaysRegistered'
  <1> SUFFICES ASSUME IngestInv, [Next]_vars,
                      NEW d \in Connections,
                      gateway'[d] # 0, cpc'[d] # "dropping",
                      \A h \in gateway'[d] + 1 .. Len(made') :
                          made'[h].stream # made'[gateway'[d]].stream
               PROVE  registry'[made'[gateway'[d]].stream] = gateway'[d]
    BY DEF NewestStaysRegistered, Gateways
  <1>a. /\ TypeOK /\ NewestStaysRegistered
        /\ \A c \in Connections : GatewayOK(c) /\ ResolvedOK(c) /\ PublishOK(c)
    BY DEF IngestInv, SessionInv
  <1> DEFINE g == gateway[d]
  <1>b. g \in 0 .. Len(made) /\ Len(made) \in Nat
    BY <1>a DEF TypeOK
  <1>1. CASE UNCHANGED <<registry, made, gateway>> /\ cpc[d] # "dropping"
    BY <1>1, <1>a DEF NewestStaysRegistered
  <1>2. ASSUME NEW c \in Connections, Register(c)
        PROVE  registry'[made'[gateway'[d]].stream] = gateway'[d]
    <2>1. stream_id[c] \in StreamIds
      BY <1>2, <1>a DEF Register, Goto, PublishOK
    <2>2. /\ registry' = [registry EXCEPT ![stream_id[c]] = Len(made) + 1]
          /\ gateway' = [gateway EXCEPT ![c] = Len(made) + 1]
          /\ d # c => cpc'[d] = cpc[d]
      BY <1>2, <1>a DEF Register, Goto, TypeOK
    <2>3. /\ Len(made') = Len(made) + 1
          /\ \A h \in 1 .. Len(made) : made'[h] = made[h]
          /\ made'[Len(made) + 1].stream = stream_id[c]
      BY <1>a, <1>2, <2>1, Made
    <2>4. registry'[stream_id[c]] = Len(made) + 1
      BY <1>a, <2>1, <2>2 DEF TypeOK
    <2>5. CASE d = c
      BY <1>a, <2>2, <2>3, <2>4, <2>5 DEF TypeOK
    <2>6. CASE d # c
      <3>1. gateway'[d] = g /\ g \in 1 .. Len(made) /\ made'[g] = made[g]
        BY <1>a, <1>b, <2>2, <2>3, <2>6 DEF TypeOK
      <3>2. made[g].stream # stream_id[c]
        BY <1>b, <2>3, <3>1
      <3>3. \A h \in g + 1 .. Len(made) : made[h].stream # made[g].stream
        <4> SUFFICES ASSUME NEW h \in g + 1 .. Len(made)
                     PROVE  made[h].stream # made[g].stream
          OBVIOUS
        <4>1. h \in 1 .. Len(made) /\ h \in g + 1 .. Len(made')
          BY <1>b, <2>3
        <4> QED
          BY <2>3, <3>1, <4>1
      <3>4. registry[made[g].stream] = g
        BY <1>a, <2>2, <2>6, <3>1, <3>3 DEF NewestStaysRegistered
      <3> QED
        BY <1>a, <2>2, <3>1, <3>2, <3>4 DEF TypeOK
    <2> QED
      BY <2>5, <2>6
  <1>3. ASSUME NEW c \in Connections, Unregister(c)
        PROVE  registry'[made'[gateway'[d]].stream] = gateway'[d]
    <2>1. UNCHANGED <<made, gateway>> /\ cpc[c] = "ending" /\ d # c /\ cpc[d] = cpc'[d]
      BY <1>3, <1>a DEF Unregister, Goto, session, TypeOK
    <2>2. registry[made[g].stream] = g /\ g # 0
      BY <1>a, <2>1 DEF NewestStaysRegistered
    <2> DEFINE s == stream_id_resolved[c]
    <2>3. CASE ~(s # Unnamed /\ (gateway[c] = 0 \/ registry[s] = gateway[c]))
      BY <1>3, <2>1, <2>2, <2>3 DEF Unregister
    <2>4. CASE s # Unnamed /\ registry[s] = gateway[c] /\ gateway[c] # 0
      <3>1. made[g].owner = d /\ made[gateway[c]].owner = c
        BY <1>a, <2>2, <2>4 DEF GatewayOK
      <3>2. made[g].stream # s
        BY <2>1, <2>2, <2>4, <3>1
      <3>3. registry' = [registry EXCEPT ![s] = 0]
        BY <1>3, <2>4 DEF Unregister
      <3> QED
        BY <1>a, <2>1, <2>2, <3>2, <3>3 DEF TypeOK
    <2>5. s # Unnamed => gateway[c] # 0
      BY <1>a, <2>1 DEF ResolvedOK
    <2> QED
      BY <2>3, <2>4, <2>5
  <1>4. ASSUME NEW c \in Connections, DropState(c)
        PROVE  registry'[made'[gateway'[d]].stream] = gateway'[d]
    <2>1. UNCHANGED <<registry, made>> /\ d # c /\ gateway'[d] = gateway[d] /\ cpc'[d] = cpc[d]
      BY <1>4, <1>a DEF DropState, TypeOK
    <2> QED
      BY <1>a, <2>1 DEF NewestStaysRegistered
  <1>5. CASE Crash
    BY <1>5 DEF Crash
  <1> QED
    BY <1>1, <1>2, <1>3, <1>4, <1>5, <1>a, GatewaySteps

\* A session's gateway stays the last it made.
LEMMA GatewayStep == IngestInv /\ [Next]_vars => \A d \in Connections : GatewayOK(d)'
  <1> SUFFICES ASSUME IngestInv, [Next]_vars, NEW d \in Connections
               PROVE  GatewayOK(d)'
    OBVIOUS
  <1>a. TypeOK /\ GatewayOK(d) /\ \A c \in Connections : PublishOK(c)
    BY DEF IngestInv, SessionInv
  <1>b. gateway[d] \in 0 .. Len(made) /\ Len(made) \in Nat
    BY <1>a DEF TypeOK
  <1>1. CASE UNCHANGED <<made, gateway>> /\ Moves(d)
    BY <1>1, <1>a DEF GatewayOK, Gateways, Moves
  <1>2. ASSUME NEW c \in Connections, Register(c) PROVE GatewayOK(d)'
    <2>1. stream_id[c] \in StreamIds
      BY <1>2, <1>a DEF Register, Goto, PublishOK
    <2>2. /\ gateway' = [gateway EXCEPT ![c] = Len(made) + 1]
          /\ cpc' = [cpc EXCEPT ![c] = "respond"]
      BY <1>2 DEF Register, Goto
    <2>3. /\ Len(made') = Len(made) + 1
          /\ \A h \in 1 .. Len(made) : made'[h] = made[h]
          /\ made'[Len(made) + 1].owner = c
      BY <1>a, <1>2, <2>1, Made
    <2>4. \A h \in 1 .. Len(made') : h \in 1 .. Len(made) \/ h = Len(made) + 1
      BY <1>b, <2>3
    <2>5. CASE d = c
      <3>1. gateway'[d] = Len(made) + 1 /\ cpc'[d] = "respond"
        BY <1>a, <2>2, <2>5 DEF TypeOK
      <3> QED
        BY <1>b, <2>3, <2>5, <3>1 DEF GatewayOK, Gateways
    <2>6. CASE d # c
      <3>1. gateway'[d] = gateway[d] /\ cpc'[d] = cpc[d]
        BY <1>a, <2>2, <2>6 DEF TypeOK
      <3> QED
        BY <1>a, <1>b, <2>3, <2>4, <2>6, <3>1 DEF GatewayOK, Gateways
    <2> QED
      BY <2>5, <2>6
  <1>3. ASSUME NEW c \in Connections, DropState(c) PROVE GatewayOK(d)'
    <2>1. UNCHANGED made /\ gateway' = [gateway EXCEPT ![c] = 0]
      BY <1>3 DEF DropState
    <2>2. cpc'[d] = IF d = c THEN cpc'[d] ELSE cpc[d]
      BY <1>3, <1>a DEF DropState, TypeOK
    <2>3. cpc'[c] \in {"gone", "failed"} /\ cpc[c] \in {"dropping", "failing"}
      BY <1>3, <1>a DEF DropState, TypeOK
    <2> QED
      BY <1>a, <2>1, <2>2, <2>3 DEF GatewayOK, Gateways, TypeOK
  <1>4. CASE Crash
    BY <1>4 DEF Crash, GatewayOK, Gateways
  <1>5. ASSUME NEW c \in Connections, Respond(c) PROVE GatewayOK(d)'
    <2>1. UNCHANGED <<made, gateway>> /\ cpc[c] = "respond" /\ cpc' = [cpc EXCEPT ![c] = "open"]
      BY <1>5 DEF Respond, Goto
    <2> QED
      BY <1>a, <2>1 DEF GatewayOK, Gateways, TypeOK
  <1> QED
    BY <1>1, <1>2, <1>3, <1>4, <1>5, <1>a, ResolvedSteps

\* The id a session resolved stays one it published.
LEMMA ResolvedStep == IngestInv /\ [Next]_vars => \A d \in Connections : ResolvedOK(d)'
  <1> SUFFICES ASSUME IngestInv, [Next]_vars, NEW d \in Connections
               PROVE  ResolvedOK(d)'
    OBVIOUS
  <1>a. /\ TypeOK /\ GatewayOK(d) /\ ResolvedOK(d)
        /\ \A c \in Connections : PublishOK(c)
    BY DEF IngestInv, SessionInv
  <1>b. gateway[d] \in 0 .. Len(made) /\ Len(made) \in Nat
    BY <1>a DEF TypeOK
  <1>1. CASE UNCHANGED <<made, gateway, stream_id_resolved>> /\ Moves(d)
    <2>1. Streams(d)' = Streams(d)
      BY <1>1 DEF Streams, Gateways
    <2> QED
      BY <1>1, <1>a, <2>1 DEF ResolvedOK, Gateways, Moves
  <1>2. ASSUME NEW c \in Connections, Register(c) PROVE ResolvedOK(d)'
    <2>1. stream_id[c] \in StreamIds
      BY <1>2, <1>a DEF Register, Goto, PublishOK
    <2>2. /\ gateway' = [gateway EXCEPT ![c] = Len(made) + 1]
          /\ cpc' = [cpc EXCEPT ![c] = "respond"] /\ cpc[c] = "register"
          /\ UNCHANGED stream_id_resolved
      BY <1>2 DEF Register, Goto
    <2>3. /\ Len(made') = Len(made) + 1
          /\ \A h \in 1 .. Len(made) : made'[h] = made[h]
          /\ made'[Len(made) + 1].owner = c
      BY <1>a, <1>2, <2>1, Made
    <2>4. \A h \in 1 .. Len(made') : h \in 1 .. Len(made) \/ h = Len(made) + 1
      BY <1>b, <2>3
    <2>5. \A s \in Streams(d) : s \in Streams(d)'
      BY <1>b, <2>3, StreamsOf, StreamsOfNext DEF Gateways
    <2>6. CASE d = c
      <3>1. gateway'[d] = Len(made) + 1 /\ cpc'[d] = "respond" /\ cpc[d] = "register"
        BY <1>a, <2>2, <2>6 DEF TypeOK
      <3> QED
        BY <1>a, <1>b, <2>2, <2>3, <2>4, <2>5, <3>1 DEF ResolvedOK, Gateways
    <2>7. CASE d # c
      <3>1. gateway'[d] = gateway[d] /\ cpc'[d] = cpc[d]
        BY <1>a, <2>2, <2>7 DEF TypeOK
      <3> QED
        BY <1>a, <1>b, <2>2, <2>3, <2>4, <2>5, <2>7, <3>1 DEF ResolvedOK, Gateways
    <2> QED
      BY <2>6, <2>7
  <1>3. ASSUME NEW c \in Connections, DropState(c) PROVE ResolvedOK(d)'
    <2>1. UNCHANGED <<made, stream_id_resolved>> /\ gateway' = [gateway EXCEPT ![c] = 0]
      BY <1>3 DEF DropState
    <2>2. d # c => cpc'[d] = cpc[d]
      BY <1>3, <1>a DEF DropState, TypeOK
    <2>3. cpc'[c] \in {"gone", "failed"}
      BY <1>3, <1>a DEF DropState, TypeOK
    <2>4. Streams(d)' = Streams(d)
      BY <2>1 DEF Streams, Gateways
    <2> QED
      BY <1>a, <2>1, <2>2, <2>3, <2>4 DEF ResolvedOK, Gateways, TypeOK
  <1>4. CASE Crash
    BY <1>4 DEF Crash, ResolvedOK, Gateways
  <1>5. ASSUME NEW c \in Connections, Respond(c) PROVE ResolvedOK(d)'
    <2>1. /\ UNCHANGED <<made, gateway>> /\ cpc[c] = "respond"
          /\ cpc' = [cpc EXCEPT ![c] = "open"]
          /\ stream_id_resolved' = [stream_id_resolved EXCEPT ![c] =
                 IF stream_id_resolved[c] = Unnamed THEN stream_id[c] ELSE stream_id_resolved[c]]
      BY <1>5, <1>a DEF Respond, Goto, TypeOK
    <2>2. Streams(d)' = Streams(d)
      BY <2>1 DEF Streams, Gateways
    <2>3. CASE d = c
      <3>1. gateway[c] # 0 /\ made[gateway[c]].stream = stream_id[c] /\ made[gateway[c]].owner = c
        BY <1>a, <2>1, <2>3 DEF PublishOK, GatewayOK
      <3>2. stream_id[c] \in Streams(c)
        BY <1>b, <2>3, <3>1, StreamsOf DEF Gateways
      <3>3. cpc'[d] = "open" /\ stream_id_resolved'[d] =
                IF stream_id_resolved[c] = Unnamed THEN stream_id[c] ELSE stream_id_resolved[c]
        BY <1>a, <2>1, <2>3 DEF TypeOK
      <3> QED
        BY <1>a, <2>1, <2>2, <2>3, <3>1, <3>2, <3>3 DEF ResolvedOK, Gateways
    <2>4. CASE d # c
      BY <1>a, <2>1, <2>2, <2>4 DEF ResolvedOK, Gateways, TypeOK
    <2> QED
      BY <2>3, <2>4
  <1> QED
    BY <1>1, <1>2, <1>3, <1>4, <1>5, <1>a, ResolvedSteps

\* What a session is publishing stays in order.
LEMMA PublishStep == IngestInv /\ [Next]_vars => \A d \in Connections : PublishOK(d)'
  <1> SUFFICES ASSUME IngestInv, [Next]_vars, NEW d \in Connections
               PROVE  PublishOK(d)'
    OBVIOUS
  <1>a. TypeOK /\ PublishOK(d)
    BY DEF IngestInv, SessionInv
  <1>b. NoWriter.file = 0
    BY DEF NoWriter, Writer
  <1> USE <1>a, <1>b DEF PublishOK, TypeOK, Goto, sys, session
  <1>1. ASSUME NEW c \in Connections, Connect(c) PROVE PublishOK(d)'
    BY <1>1 DEF Connect
  <1>2. ASSUME NEW c \in Connections, Publish(c) PROVE PublishOK(d)'
    BY <1>2 DEF Publish
  <1>3. ASSUME NEW c \in Connections, OpenFile(c) PROVE PublishOK(d)'
    <2>1. stream_id[c] \in StreamIds => fresh'[c].file # 0
      <3> DEFINE f == IF path[stream_id[c]] = 0 THEN inodes + 1 ELSE path[stream_id[c]]
      <3>1. fresh' = [fresh EXCEPT ![c] = Writer(stream_id[c], f)]
        BY <1>3 DEF OpenFile
      <3>2. inodes \in Nat
        BY IngestAssumption DEF Files
      <3>3. f # 0
        BY <3>2
      <3> HIDE DEF f
      <3> QED
        BY <3>1, <3>3 DEF Writer
    <2>2. /\ UNCHANGED <<made, stream_id, gateway, shm_writer>>
          /\ cpc' = [cpc EXCEPT ![c] = "extend"] /\ cpc[c] = "create"
          /\ d # c => fresh'[d] = fresh[d]
      BY <1>3 DEF OpenFile
    <2> QED
      BY <2>1, <2>2
  <1>4. ASSUME NEW c \in Connections, ExtendFile(c) PROVE PublishOK(d)'
    BY <1>4 DEF ExtendFile
  <1>5. ASSUME NEW c \in Connections, CreateFails(c) PROVE PublishOK(d)'
    BY <1>5 DEF CreateFails
  <1>6. ASSUME NEW c \in Connections, ExtendFails(c) PROVE PublishOK(d)'
    BY <1>6 DEF ExtendFails
  <1>7. ASSUME NEW c \in Connections, StoreWriter(c) PROVE PublishOK(d)'
    BY <1>7 DEF StoreWriter
  <1>8. ASSUME NEW c \in Connections, Register(c) PROVE PublishOK(d)'
    <2>1. /\ UNCHANGED <<stream_id, shm_writer, fresh>>
          /\ gateway' = [gateway EXCEPT ![c] = Len(made) + 1]
          /\ cpc' = [cpc EXCEPT ![c] = "respond"] /\ cpc[c] = "register"
      BY <1>8 DEF Register
    <2>2. d = c => stream_id[c] \in StreamIds
      BY <2>1
    <2>3. /\ Len(made) \in Nat /\ Len(made') = Len(made) + 1
          /\ d = c => made'[Len(made) + 1].stream = stream_id[c]
      BY <1>8 DEF Register
    <2>4. \A h \in 1 .. Len(made) : made'[h] = made[h]
      BY <1>8 DEF Register
    <2>5. CASE d = c
      BY <2>1, <2>2, <2>3, <2>5
    <2>6. CASE d # c
      <3>1. gateway'[d] = gateway[d] /\ cpc'[d] = cpc[d] /\ gateway[d] \in 0 .. Len(made)
        BY <2>1, <2>6
      <3> QED
        BY <2>1, <2>3, <2>4, <3>1
    <2> QED
      BY <2>5, <2>6
  <1>9. ASSUME NEW c \in Connections, Respond(c) PROVE PublishOK(d)'
    BY <1>9 DEF Respond
  <1>10. ASSUME NEW c \in Connections, WriteFrame(c) PROVE PublishOK(d)'
    <2>1. /\ shm_writer' = [shm_writer EXCEPT ![c].frame_counter = shm_writer[c].frame_counter + 1]
          /\ shm_writer[c] # NoWriter /\ UNCHANGED <<made, cpc, stream_id, gateway, fresh>>
      BY <1>10 DEF WriteFrame
    <2>2. shm_writer'[d].file = shm_writer[d].file
      BY <2>1 DEF Writers
    <2>3. d = c => shm_writer[c].file # 0
      BY <2>1
    <2>4. d = c => shm_writer'[d] # NoWriter
      BY <2>2, <2>3
    <2>5. d # c => shm_writer'[d] = shm_writer[d]
      BY <2>1
    <2> QED
      BY <2>1, <2>2, <2>3, <2>4, <2>5
  <1>11. ASSUME NEW c \in Connections, Fail(c) PROVE PublishOK(d)'
    BY <1>11 DEF Fail
  <1>12. ASSUME NEW c \in Connections, EndOfStream(c) PROVE PublishOK(d)'
    BY <1>12 DEF EndOfStream
  <1>13. ASSUME NEW c \in Connections, Unregister(c) PROVE PublishOK(d)'
    BY <1>13 DEF Unregister
  <1>14. ASSUME NEW c \in Connections, DropState(c) PROVE PublishOK(d)'
    <2>1. cpc[c] \notin {"extend", "store"} /\ cpc'[c] \in {"gone", "failed"}
      BY <1>14 DEF DropState
    <2> QED
      BY <1>14, <2>1 DEF DropState
  <1>15. CASE Crash
    BY <1>15 DEF Crash
  <1>16. ASSUME NEW c \in Connections, BusError(c) PROVE PublishOK(d)'
    BY <1>15, <1>16 DEF BusError
  <1>17. CASE UNCHANGED vars
    BY <1>17 DEF vars
  <1> QED
    BY <1>1, <1>2, <1>3, <1>4, <1>5, <1>6, <1>7, <1>8, <1>9, <1>10, <1>11, <1>12,
       <1>13, <1>14, <1>15, <1>16, <1>17 DEF Next

\* A session that has looked leaves nothing registered that was its to remove.
LEMMA EndedStep == IngestInv /\ [Next]_vars => \A d \in Connections : EndedOK(d)'
  <1> SUFFICES ASSUME IngestInv, [Next]_vars, NEW d \in Connections
               PROVE  EndedOK(d)'
    OBVIOUS
  <1>a. /\ TypeOK /\ RegistryInv /\ EndedOK(d)
        /\ \A c \in Connections : GatewayOK(c) /\ ResolvedOK(c) /\ PublishOK(c)
    BY DEF IngestInv, SessionInv
  <1>b. Len(made) \in Nat /\ registry \in [StreamIds -> 0 .. Len(made)]
    BY <1>a DEF TypeOK
  <1>1. CASE UNCHANGED <<registry, made>> /\ (cpc'[d] \in {"dropping", "gone"} =>
                                                 cpc[d] \in {"dropping", "gone"})
    <2>1. Streams(d)' = Streams(d)
      BY <1>1 DEF Streams, Gateways
    <2> QED
      BY <1>1, <1>a, <2>1 DEF EndedOK
  <1>2. ASSUME NEW c \in Connections, Register(c) PROVE EndedOK(d)'
    <2>1. stream_id[c] \in StreamIds
      BY <1>2, <1>a DEF Register, Goto, PublishOK
    <2>2. /\ registry' = [registry EXCEPT ![stream_id[c]] = Len(made) + 1]
          /\ cpc' = [cpc EXCEPT ![c] = "respond"]
      BY <1>2 DEF Register, Goto
    <2>3. /\ Len(made') = Len(made) + 1
          /\ \A h \in 1 .. Len(made) : made'[h] = made[h]
          /\ made'[Len(made) + 1].owner = c
      BY <1>a, <1>2, <2>1, Made
    <2>4. CASE d = c
      BY <1>a, <2>2, <2>4 DEF EndedOK, TypeOK
    <2>5. CASE d # c
      <3>1. cpc'[d] = cpc[d]
        BY <1>a, <2>2, <2>5 DEF TypeOK
      <3>2. \A h \in 1 .. Len(made') : h \in 1 .. Len(made) \/ h = Len(made) + 1
        BY <1>b, <2>3
      <3>3. \A s : s \in Streams(d)' <=> s \in Streams(d)
        <4>1. \A h \in 1 .. Len(made) : h \in 1 .. Len(made')
          BY <1>b, <2>3
        <4> QED
          BY <2>3, <2>5, <3>2, <4>1, StreamsOf, StreamsOfNext DEF Gateways
      <3>4. Streams(d)' = Streams(d)
        BY <3>3
      <3>5. \A s \in StreamIds : registry'[s] # 0 /\ made'[registry'[s]].owner = d =>
                registry[s] # 0 /\ made[registry[s]].owner = d
        BY <1>b, <2>1, <2>2, <2>3, <2>5
      <3> QED
        BY <1>a, <3>1, <3>4, <3>5 DEF EndedOK
    <2> QED
      BY <2>4, <2>5
  <1>3. ASSUME NEW c \in Connections, Unregister(c) PROVE EndedOK(d)'
    <2>1. /\ UNCHANGED <<made, gateway, stream_id_resolved>>
          /\ cpc[c] = "ending" /\ cpc' = [cpc EXCEPT ![c] = "dropping"]
      BY <1>3 DEF Unregister, Goto, session
    <2>2. Streams(d)' = Streams(d)
      BY <2>1 DEF Streams, Gateways
    <2>3. \A s \in StreamIds : registry'[s] \in {0, registry[s]}
      BY <1>3, <1>a DEF Unregister, TypeOK
    <2>4. CASE d # c
      BY <1>a, <2>1, <2>2, <2>3, <2>4 DEF EndedOK, TypeOK
    <2>5. CASE d = c
      <3> SUFFICES ASSUME NEW s \in StreamIds, registry'[s] # 0, made'[registry'[s]].owner = c,
                          s # Unnamed, Streams(c) = {s}
                   PROVE  FALSE
        BY <2>2, <2>5 DEF EndedOK
      <3> DEFINE g == registry[s]
      <3>1. registry'[s] = g /\ g \in 1 .. Len(made) /\ made[g].owner = c /\ made[g].stream = s
        BY <1>a, <1>b, <2>1, <2>3 DEF RegistryInv
      <3>2. stream_id_resolved[c] # Unnamed
        BY <1>a, <2>1, <3>1 DEF ResolvedOK, Gateways
      <3>3. gateway[c] # 0 /\ stream_id_resolved[c] = s
        BY <1>a, <2>1, <3>2 DEF ResolvedOK
      <3>4. gateway[c] \in 1 .. Len(made) /\ made[gateway[c]].owner = c
        BY <1>a, <1>b, <3>3 DEF GatewayOK, TypeOK
      <3>5. made[gateway[c]].stream = s
        <4>1. made[gateway[c]].stream \in Streams(c)
          BY <3>4, StreamsOf DEF Gateways
        <4> QED
          BY <4>1
      <3>6. gateway[c] <= g /\ g <= gateway[c]
        BY <1>a, <2>1, <3>1, <3>4, <3>5 DEF RegistryInv, GatewayOK, Gateways
      <3>7. gateway[c] = g
        BY <3>1, <3>4, <3>6
      <3>8. registry' = [registry EXCEPT ![s] = 0]
        BY <1>3, <3>2, <3>3, <3>7 DEF Unregister
      <3> QED
        BY <1>b, <3>8
    <2> QED
      BY <2>4, <2>5
  <1>4. CASE Crash
    BY <1>4 DEF Crash, EndedOK
  <1> QED
    BY <1>1, <1>2, <1>3, <1>4, <1>a, EndSteps

-----------------------------------------------------------------------------
(* The theorems                                                            *)

\* The invariant holds when the engine is first started.
LEMMA InitInv == Init => IngestInv
  <1> SUFFICES ASSUME Init
               PROVE  IngestInv
    OBVIOUS
  <1>1. Gateways = {} /\ Len(made) = 0 /\ made \in Seq([stream : StreamIds, owner : Connections])
    BY DEF Init, Gateways
  <1>2. TypeOK
    BY <1>1, IngestAssumption, WriterTyped DEF Init, TypeOK, Files
  <1>3. RegistryInv /\ NamesInv /\ FileInv
    BY <1>1, IngestAssumption DEF Init, RegistryInv, NamesInv, FileInv
  <1>4. ASSUME NEW c \in Connections
        PROVE  GatewayOK(c) /\ ResolvedOK(c) /\ PublishOK(c) /\ EndedOK(c)
    BY <1>1 DEF Init, GatewayOK, ResolvedOK, PublishOK, EndedOK, NoWriter, Writer
  <1>5. NewestStaysRegistered
    BY DEF Init, NewestStaysRegistered
  <1> QED
    BY <1>2, <1>3, <1>4, <1>5 DEF IngestInv, SessionInv

\* The invariant of sessions, registry and files holds in every state: what
\* the four properties below rest on.
THEOREM IngestInvariant == Spec => []IngestInv
  <1>1. Init => IngestInv
    BY InitInv
  <1>2. IngestInv /\ [Next]_vars => IngestInv'
    BY TypeStep, RegistryStep, NamesStep, FileStep, GatewayStep, ResolvedStep, PublishStep,
       EndedStep, NewestStep DEF IngestInv, SessionInv
  <1> QED
    BY <1>1, <1>2, PTL DEF Spec

\* Every variable keeps its type: gateways and files are only ever referred to
\* once they have been made.
THEOREM IngestTypeCorrect == Spec => []TypeOK
  <1>1. IngestInv => TypeOK
    BY DEF IngestInv
  <1> QED
    BY <1>1, IngestInvariant, PTL

\* The newest publisher of a stream stays registered as long as it is connected,
\* whichever earlier publishers of it end, and when (rtmp/server.rs:134,
\* server.rs:59-66).
THEOREM IngestNewestStaysRegistered == Spec => []NewestStaysRegistered
  <1>1. IngestInv => NewestStaysRegistered
    BY DEF IngestInv
  <1> QED
    BY <1>1, IngestInvariant, PTL

\* A connection that published under one id and ended cleanly leaves nothing
\* registered (rtmp/server.rs:132-139).
THEOREM IngestCleanEndLeavesNothing == Spec => []CleanEndLeavesNothing
  <1>1. IngestInv => CleanEndLeavesNothing
    <2> SUFFICES ASSUME IngestInv, NEW s \in StreamIds, registry[s] # 0,
                        cpc[made[registry[s]].owner] = "gone"
                 PROVE  s = Unnamed \/ Streams(made[registry[s]].owner) # {s}
      BY DEF CleanEndLeavesNothing
    <2>1. made[registry[s]].owner \in Connections
      <3>1. /\ made \in Seq([stream : StreamIds, owner : Connections])
            /\ registry[s] \in 0 .. Len(made) /\ Len(made) \in Nat
        BY DEF IngestInv, TypeOK
      <3>2. made[registry[s]] \in [stream : StreamIds, owner : Connections]
        <4>1. registry[s] \in 1 .. Len(made)
          BY <3>1
        <4> QED
          BY <3>1, <4>1, ElementOf
      <3> QED
        BY <3>2
    <2> QED
      BY <2>1 DEF IngestInv, SessionInv, EndedOK
  <1> QED
    BY <1>1, IngestInvariant, PTL

\* A name left in the directory by this run of the process has a writer that
\* will remove it, or its creation failed half-way (shm.rs:126-135, 225-229).
THEOREM IngestNoFileWithoutWriter == Spec => []NoFileWithoutWriter
  <1>1. IngestInv => NoFileWithoutWriter
    BY DEF IngestInv, FileInv, NoFileWithoutWriter
  <1> QED
    BY <1>1, IngestInvariant, PTL

-----------------------------------------------------------------------------
(* The only publisher of a stream                                          *)

\* What a writer's stream and file, and the command it comes from, are changed by.
LEMMA WriterSteps ==
    TypeOK /\ [Next]_vars =>
        \/ /\ UNCHANGED <<fresh, shm_writer, stream_id, made, path, inodes>>
           /\ \A d \in Connections : cpc[d] = "register" => cpc'[d] = "register"
        \/ \E c \in Connections : \/ Publish(c) \/ OpenFile(c) \/ ExtendFails(c) \/ StoreWriter(c)
                                  \/ Register(c) \/ WriteFrame(c) \/ DropState(c)
        \/ Crash
  BY DEF Next, vars, sys, session, TypeOK, Goto, Connect, ExtendFile, CreateFails, Respond, Fail,
         EndOfStream, Unregister, BusError

\* A writer keeps to the stream it was made for, and its file to that name.
LEMMA WriterStep == IngestInv /\ SoleInv /\ [Next]_vars => \A d \in Connections : WriterOK(d)'
  <1> SUFFICES ASSUME IngestInv, SoleInv, [Next]_vars, NEW d \in Connections
               PROVE  WriterOK(d)'
    OBVIOUS
  <1>a. /\ TypeOK /\ NamesInv /\ WriterOK(d)
        /\ \A c \in Connections : PublishOK(c)
    BY DEF IngestInv, SessionInv, SoleInv
  <1>b. /\ Len(made) \in Nat /\ inodes \in Nat
        /\ \A s \in StreamIds : path[s] \in Nat
        /\ fresh[d] \in Writers /\ shm_writer[d] \in Writers
        /\ \A w \in Writers : w.file \in Nat
        /\ NoWriter.file = 0
    <2>1. \A f \in {0} \cup Files : f \in Nat
      BY IngestAssumption DEF Files
    <2>2. NoWriter.file = 0
      BY DEF NoWriter, Writer
    <2>3. \A w \in Writers : w.file \in Nat
      BY <2>1 DEF Writers
    <2>4. inodes \in Nat /\ \A s \in StreamIds : path[s] \in Nat
      BY <1>a, <2>1 DEF TypeOK
    <2> QED
      BY <1>a, <2>2, <2>3, <2>4 DEF TypeOK
  <1>1. CASE /\ UNCHANGED <<fresh, shm_writer, stream_id, made, path, inodes>>
             /\ cpc[d] = "register" => cpc'[d] = "register"
    BY <1>1, <1>a DEF WriterOK, Gateways
  <1>2. ASSUME NEW c \in Connections, Publish(c) PROVE WriterOK(d)'
    <2>1. UNCHANGED <<fresh, shm_writer, made, path, inodes>>
      BY <1>2 DEF Publish, sys
    <2>2. CASE c = d
      BY <1>2, <1>a, <2>1, <2>2 DEF WriterOK, Gateways, Publish, Goto, PublishOK
    <2>3. CASE c # d
      BY <1>2, <1>a, <2>1, <2>3 DEF WriterOK, Gateways, Publish, Goto, TypeOK
    <2> QED
      BY <2>2, <2>3
  <1>3. ASSUME NEW c \in Connections, OpenFile(c) PROVE WriterOK(d)'
    <2> DEFINE s0 == stream_id[c]
               f == IF path[s0] = 0 THEN inodes + 1 ELSE path[s0]
    <2>1. s0 \in StreamIds /\ fresh[c].file = 0
      BY <1>3, <1>a DEF OpenFile, Goto, PublishOK
    <2>2. /\ path' = [path EXCEPT ![s0] = f]
          /\ inodes' = IF path[s0] = 0 THEN f ELSE inodes
          /\ UNCHANGED <<shm_writer, stream_id, made>>
          /\ fresh' = [fresh EXCEPT ![c] = Writer(s0, f)]
          /\ cpc' = [cpc EXCEPT ![c] = "extend"] /\ cpc[c] = "create"
      BY <1>3 DEF OpenFile, Goto
    <2>3. /\ path'[s0] = f
          /\ \A s \in StreamIds : s # s0 => path'[s] = path[s] /\ (path[s] # 0 => path[s] # f)
          /\ f \in Nat /\ f # 0 /\ f <= inodes' /\ inodes <= inodes' /\ inodes' \in Nat
      <3>1. path'[s0] = f /\ \A s \in StreamIds : s # s0 => path'[s] = path[s]
        BY <1>a, <2>1, <2>2 DEF TypeOK
      <3>2. path[s0] # 0 => path[s0] <= inodes
        BY <1>a, <2>1 DEF NamesInv
      <3>3. \A s \in StreamIds : s # s0 /\ path[s] # 0 => path[s] # f
        <4> SUFFICES ASSUME NEW s \in StreamIds, s # s0, path[s] # 0 PROVE path[s] # f
          OBVIOUS
        <4>1. path[s] <= inodes /\ path[s0] # path[s]
          BY <1>a, <2>1 DEF NamesInv
        <4>2. path[s] \in Nat
          BY <1>b
        <4> QED
          BY <1>b, <4>1, <4>2
      <3>4. f \in Nat /\ f # 0 /\ f <= inodes' /\ inodes <= inodes' /\ inodes' \in Nat
        BY <1>b, <2>1, <2>2, <3>2
      <3> QED
        BY <3>1, <3>3, <3>4
    <2>4. ASSUME NEW w \in Writers, w.file # 0, w.file <= inodes,
                 \A s \in StreamIds : path[s] = w.file => s = w.stream
          PROVE  w.file <= inodes' /\ \A s \in StreamIds : path'[s] = w.file => s = w.stream
      <3>1. w.file \in Nat
        BY <1>b
      <3>2. w.file <= inodes'
        BY <1>b, <2>3, <2>4, <3>1
      <3>3. ASSUME NEW s \in StreamIds, path'[s] = w.file PROVE s = w.stream
        <4>1. CASE s # s0
          BY <2>3, <2>4, <3>3, <4>1
        <4>2. CASE s = s0 /\ path[s0] # 0
          BY <2>3, <2>4, <3>3, <4>2
        <4>3. CASE s = s0 /\ path[s0] = 0
          <5>1. w.file = inodes + 1
            BY <2>3, <3>3, <4>3
          <5> QED
            BY <1>b, <2>4, <5>1
        <4> QED
          BY <4>1, <4>2, <4>3
      <3> QED
        BY <3>2, <3>3
    <2>5. shm_writer[d].file # 0 =>
              /\ shm_writer'[d].file <= inodes'
              /\ \A s \in StreamIds : path'[s] = shm_writer'[d].file => s = shm_writer'[d].stream
      <3>1. shm_writer'[d] = shm_writer[d]
        BY <2>2
      <3>2. shm_writer[d].file # 0 =>
                /\ shm_writer[d].file <= inodes
                /\ \A s \in StreamIds : path[s] = shm_writer[d].file => s = shm_writer[d].stream
        BY <1>a DEF WriterOK
      <3> QED
        BY <1>b, <2>4, <3>1, <3>2
    <2>6. shm_writer[d].file # 0 =>
              \/ cpc'[d] = "register" /\ shm_writer[d].stream = stream_id'[d]
              \/ \E h \in 1 .. Len(made') : made'[h].owner = d /\ made'[h].stream = shm_writer[d].stream
      <3>1. cpc[d] = "register" => cpc'[d] = "register"
        BY <1>a, <2>2 DEF TypeOK
      <3> QED
        BY <1>a, <2>2, <3>1 DEF WriterOK, Gateways
    <2>7. /\ fresh'[d].file # 0 => fresh'[d].stream = stream_id'[d]
          /\ fresh'[d].file # 0 =>
                /\ fresh'[d].file <= inodes'
                /\ \A s \in StreamIds : path'[s] = fresh'[d].file => s = fresh'[d].stream
      <3>1. CASE c = d
        <4>1. fresh'[d] = Writer(s0, f)
          BY <1>a, <2>2, <3>1 DEF TypeOK
        <4>2. fresh'[d].file = f /\ fresh'[d].stream = s0
          BY <4>1 DEF Writer
        <4> HIDE DEF f
        <4> QED
          BY <2>2, <2>3, <3>1, <4>2
      <3>2. CASE c # d
        <4>1. fresh'[d] = fresh[d]
          BY <1>a, <2>2, <3>2 DEF TypeOK
        <4>2. fresh[d].file # 0 =>
                /\ fresh[d].file <= inodes
                /\ \A s \in StreamIds : path[s] = fresh[d].file => s = fresh[d].stream
          BY <1>a DEF WriterOK
        <4> QED
          BY <1>a, <1>b, <2>2, <2>4, <4>1, <4>2 DEF WriterOK
      <3> QED
        BY <3>1, <3>2
    <2> HIDE DEF f, s0
    <2> QED
      BY <2>2, <2>5, <2>6, <2>7 DEF WriterOK, Gateways
  <1>4. ASSUME NEW c \in Connections, ExtendFails(c) PROVE WriterOK(d)'
    BY <1>4, <1>a, <1>b DEF ExtendFails, Goto, WriterOK, Gateways, TypeOK
  <1>5. ASSUME NEW c \in Connections, StoreWriter(c) PROVE WriterOK(d)'
    <2>1. /\ UNCHANGED <<inodes, stream_id, made>>
          /\ \A s \in StreamIds : path'[s] \in {0, path[s]}
      BY <1>5, <1>a, Unlinked DEF StoreWriter, sys
    <2>2. CASE c = d
      <3>1. /\ shm_writer'[d] = fresh[d] /\ fresh'[d] = NoWriter /\ cpc'[d] = "register"
        BY <1>5, <1>a, <2>2 DEF StoreWriter, Goto, TypeOK
      <3> QED
        BY <1>a, <1>b, <2>1, <3>1 DEF WriterOK
    <2>3. CASE c # d
      <3>1. /\ shm_writer'[d] = shm_writer[d] /\ fresh'[d] = fresh[d] /\ cpc'[d] = cpc[d]
        BY <1>5, <1>a, <2>3 DEF StoreWriter, Goto, TypeOK
      <3> QED
        BY <1>a, <1>b, <2>1, <3>1 DEF WriterOK, Gateways
    <2> QED
      BY <2>2, <2>3
  <1>6. ASSUME NEW c \in Connections, Register(c) PROVE WriterOK(d)'
    <2>1. stream_id[c] \in StreamIds
      BY <1>6, <1>a DEF Register, Goto, PublishOK
    <2>2. UNCHANGED <<inodes, path, stream_id, shm_writer, fresh>>
      BY <1>6 DEF Register, sys
    <2>3. \A h \in Gateways : h \in 1 .. Len(made') /\ made'[h] = made[h]
      BY <1>6, <1>a, <2>1, Made DEF Gateways
    <2>4. CASE c = d
      <3>1. /\ made'[Len(made) + 1].stream = stream_id[d] /\ made'[Len(made) + 1].owner = d
            /\ Len(made) + 1 \in 1 .. Len(made')
        BY <1>6, <1>a, <2>1, <2>4, Made
      <3> QED
        BY <1>a, <2>2, <2>3, <3>1 DEF WriterOK, Gateways
    <2>5. CASE c # d
      <3>1. cpc'[d] = cpc[d]
        BY <1>6, <1>a, <2>5 DEF Register, Goto, TypeOK
      <3> QED
        BY <1>a, <2>2, <2>3, <3>1 DEF WriterOK, Gateways
    <2> QED
      BY <2>4, <2>5
  <1>7. ASSUME NEW c \in Connections, WriteFrame(c) PROVE WriterOK(d)'
    <2>1. /\ UNCHANGED <<inodes, path, stream_id, made, fresh, cpc>>
          /\ shm_writer'[d].file = shm_writer[d].file /\ shm_writer'[d].stream = shm_writer[d].stream
      BY <1>7, <1>a DEF WriteFrame, TypeOK, Writers
    <2> QED
      BY <1>a, <2>1 DEF WriterOK, Gateways
  <1>8. ASSUME NEW c \in Connections, DropState(c) PROVE WriterOK(d)'
    <2>1. /\ UNCHANGED <<inodes, stream_id, made, fresh>>
          /\ \A s \in StreamIds : path'[s] \in {0, path[s]}
          /\ shm_writer'[d] \in {NoWriter, shm_writer[d]}
          /\ cpc[d] = "register" => cpc'[d] = "register"
      BY <1>8, <1>a, Unlinked DEF DropState, sys, TypeOK
    <2> QED
      BY <1>a, <1>b, <2>1 DEF WriterOK, Gateways
  <1>9. CASE Crash
    <2>1. fresh'[d] = NoWriter /\ shm_writer'[d] = NoWriter
      BY <1>9 DEF Crash
    <2> QED
      BY <1>b, <2>1 DEF WriterOK
  <1> QED
    BY <1>1, <1>2, <1>3, <1>4, <1>5, <1>6, <1>7, <1>8, <1>9, <1>a, WriterSteps

\* Who is sole after a step was so before it, unless it has just begun to publish
\* or the engine was restarted.
LEMMA SoleBefore ==
    ASSUME IngestInv, SoleInv, [Next]_vars, ~Crash, NEW d \in Connections, ~Publish(d), Sole(d)'
    PROVE  Sole(d) /\ stream_id'[d] = stream_id[d]
  <1>a. /\ TypeOK /\ \A c \in Connections : PublishOK(c)
    BY DEF IngestInv, SessionInv
  <1>b. Len(made) \in Nat /\ gateway[d] \in 0 .. Len(made)
    BY <1>a DEF TypeOK
  <1>1. ASSUME NEW c \in Connections, Register(c)
        PROVE  Sole(d) /\ stream_id'[d] = stream_id[d]
    <2>1. /\ stream_id[c] \in StreamIds /\ UNCHANGED stream_id
          /\ cpc' = [cpc EXCEPT ![c] = "respond"] /\ cpc[c] = "register"
          /\ gateway' = [gateway EXCEPT ![c] = Len(made) + 1]
      BY <1>1, <1>a DEF Register, Goto, PublishOK
    <2>2. /\ \A h \in Gateways : h \in 1 .. Len(made') /\ made'[h] = made[h] /\ h # Len(made) + 1
          /\ Len(made) + 1 \in 1 .. Len(made')
          /\ made'[Len(made) + 1].stream = stream_id[c]
      BY <1>1, <1>a, <2>1, Made DEF Gateways
    <2>3. CASE c = d
      <3>1. gateway'[d] = Len(made) + 1
        BY <1>a, <2>1, <2>3 DEF TypeOK
      <3>2. \A h \in Gateways : made[h].stream # stream_id[d]
        BY <2>1, <2>2, <3>1 DEF Sole, Gateways
      <3>3. \A e \in Connections \ {d} : cpc[e] \in Publishing => stream_id[e] # stream_id[d]
        BY <1>a, <2>1, <2>3 DEF Sole, TypeOK
      <3> QED
        BY <2>1, <3>2, <3>3 DEF Sole
    <2>4. CASE c # d
      <3>1. gateway'[d] = gateway[d] /\ cpc'[d] = cpc[d]
        BY <1>a, <2>1, <2>4 DEF TypeOK
      <3>2. stream_id[c] # stream_id[d]
        <4>1. gateway'[d] # Len(made) + 1
          BY <1>b, <3>1
        <4> QED
          BY <2>1, <2>2, <4>1 DEF Sole, Gateways
      <3>3. \A e \in Connections \ {d} : cpc[e] \in Publishing => stream_id[e] # stream_id[d]
        BY <1>a, <2>1, <3>2 DEF Sole, TypeOK
      <3>4. \A h \in Gateways : made[h].stream = stream_id[d] =>
                cpc[d] \notin Publishing /\ h = gateway[d]
        BY <2>1, <2>2, <3>1 DEF Sole, Gateways
      <3> QED
        BY <2>1, <3>3, <3>4 DEF Sole
    <2> QED
      BY <2>3, <2>4
  <1>2. CASE ~ \E c \in Connections : Register(c)
    <2>1. /\ UNCHANGED made
          /\ \A e \in Connections : cpc[e] \in Publishing => cpc'[e] \in Publishing /\ stream_id'[e] = stream_id[e]
          /\ stream_id'[d] = stream_id[d]
      BY <1>2, <1>a DEF Next, vars, sys, session, TypeOK, Goto, Publishing, Connect, Publish, OpenFile,
         ExtendFile, CreateFails, ExtendFails, StoreWriter, Respond, WriteFrame, Fail,
         EndOfStream, Unregister, DropState, BusError
    <2>2. gateway'[d] = gateway[d] \/ gateway'[d] = 0
      BY <1>2, <1>a DEF Next, vars, sys, session, TypeOK, Connect, Publish, OpenFile,
         ExtendFile, CreateFails, ExtendFails, StoreWriter, Respond, WriteFrame, Fail,
         EndOfStream, Unregister, DropState, BusError
    <2> QED
      BY <1>b, <2>1, <2>2 DEF Sole, Gateways
  <1> QED
    BY <1>1, <1>2

\* While d is the sole publisher of its stream, nobody else has a writer of it.
LEMMA NoOtherWriter ==
    ASSUME IngestInv, SoleInv, NEW d \in Connections, Sole(d), NEW c \in Connections, c # d
    PROVE  /\ fresh[c].file # 0 => fresh[c].stream # stream_id[d]
           /\ shm_writer[c].file # 0 => shm_writer[c].stream # stream_id[d]
  <1>a. PublishOK(c) /\ WriterOK(c) /\ GatewayOK(d)
    BY DEF IngestInv, SessionInv, SoleInv
  <1>1. fresh[c].file # 0 => fresh[c].stream # stream_id[d]
    BY <1>a DEF PublishOK, WriterOK, Sole, Publishing
  <1>2. shm_writer[c].file # 0 => shm_writer[c].stream # stream_id[d]
    <2>1. ASSUME NEW h \in Gateways, made[h].owner = c PROVE made[h].stream # stream_id[d]
      BY <1>a, <2>1 DEF Sole, GatewayOK, Gateways, TypeOK
    <2> QED
      BY <1>a, <2>1 DEF WriterOK, Sole, Publishing
  <1> QED
    BY <1>1, <1>2

\* What somebody else's step leaves of the name and the file of a sole publisher.
LEMMA OthersKeepFile ==
    ASSUME IngestInv, SoleInv, [Next]_vars, ~Crash, NEW d \in Connections, Sole(d),
           stream_id[d] \in StreamIds, path[stream_id[d]] # 0,
           NEW c \in Connections, c # d,
           \/ OpenFile(c) \/ ExtendFile(c) \/ ExtendFails(c) \/ StoreWriter(c)
           \/ WriteFrame(c) \/ DropState(c)
    PROVE  LET f == path[stream_id[d]]
           IN  /\ path'[stream_id[d]] = f
               /\ f \notin truncated => f \notin truncated'
               /\ head'[f] = head[f]
  <1> DEFINE s == stream_id[d]
             f == path[s]
  <1>a. /\ TypeOK /\ NamesInv /\ PublishOK(c) /\ WriterOK(c)
    BY DEF IngestInv, SessionInv, SoleInv
  <1>b. f \in Files /\ f # 0
    BY <1>a DEF TypeOK
  <1>c. NoWriter.file = 0
    BY DEF NoWriter, Writer
  <1>1. CASE OpenFile(c)
    <2> DEFINE g == IF path[stream_id[c]] = 0 THEN inodes + 1 ELSE path[stream_id[c]]
    <2>1. stream_id[c] \in StreamIds /\ stream_id[c] # s
      BY <1>1, <1>a DEF OpenFile, Goto, PublishOK, Sole, Publishing
    <2>2. /\ path' = [path EXCEPT ![stream_id[c]] = g]
          /\ truncated' = truncated \cup {g}
          /\ head' = [head EXCEPT ![g] = 0]
      BY <1>1 DEF OpenFile
    <2>3. g # f
      <3>1. inodes \in Nat
        BY <1>a, IngestAssumption DEF TypeOK, Files
      <3>2. f <= inodes /\ path[stream_id[c]] # f
        BY <1>a, <1>b, <2>1 DEF NamesInv
      <3>3. f \in Nat
        BY <1>b, IngestAssumption DEF Files
      <3> QED
        BY <3>1, <3>2, <3>3
    <2>4. path'[s] = f
      BY <1>a, <2>1, <2>2 DEF TypeOK
    <2> HIDE DEF g
    <2> QED
      BY <1>a, <1>b, <2>2, <2>3, <2>4 DEF TypeOK
  <1>2. CASE ExtendFile(c) \/ ExtendFails(c)
    <2>1. fresh[c].file # 0 /\ fresh[c].stream # s
      BY <1>2, <1>a, NoOtherWriter DEF ExtendFile, ExtendFails, Goto, PublishOK
    <2>2. fresh[c].file # f
      BY <1>a, <2>1 DEF WriterOK
    <2> QED
      BY <1>2, <1>a, <1>b, <2>2 DEF ExtendFile, ExtendFails, TypeOK
  <1>3. CASE WriteFrame(c)
    <2>1. shm_writer[c].file # 0 /\ shm_writer[c].stream # s
      BY <1>3, <1>a, NoOtherWriter DEF WriteFrame, PublishOK
    <2>2. shm_writer[c].file # f
      BY <1>a, <2>1 DEF WriterOK
    <2> QED
      BY <1>3, <1>a, <1>b, <2>2 DEF WriteFrame, TypeOK
  <1>4. CASE StoreWriter(c) \/ DropState(c)
    <2>1. shm_writer[c] # NoWriter => shm_writer[c].stream # s
      BY <1>a, NoOtherWriter DEF PublishOK
    <2>2. path'[s] = path[s]
      BY <1>4, <1>a, <2>1 DEF StoreWriter, DropState, Unlink, TypeOK
    <2> QED
      BY <1>4, <2>2 DEF StoreWriter, DropState, sys
  <1> QED
    BY <1>1, <1>2, <1>3, <1>4

\* The file of a sole publisher keeps its name and its newest frame.
LEMMA SoleStep == IngestInv /\ SoleInv /\ [Next]_vars => \A d \in Connections : SoleOK(d)'
  <1> SUFFICES ASSUME IngestInv, SoleInv, [Next]_vars, NEW d \in Connections, Sole(d)'
               PROVE  SoleOK(d)'
    BY DEF SoleOK
  <1>a. /\ TypeOK /\ NamesInv /\ PublishOK(d) /\ WriterOK(d) /\ SoleOK(d) /\ GatewayOK(d)
    BY DEF IngestInv, SessionInv, SoleInv
  <1>b. /\ NoWriter.file = 0
        /\ \A t, g : Writer(t, g).file = g /\ Writer(t, g).frame_counter = 0
    BY DEF NoWriter, Writer
  <1> DEFINE s == stream_id[d]
  <1>1. CASE Crash
    <2>1. cpc'[d] \in {"new", "lost"}
      BY <1>1 DEF Crash
    <2> QED
      BY <2>1 DEF SoleOK
  <1>2. CASE Publish(d)
    <2>1. cpc'[d] = "create"
      BY <1>2, <1>a DEF Publish, Goto, TypeOK
    <2> QED
      BY <2>1 DEF SoleOK
  <1>3. CASE ~Crash /\ ~Publish(d)
    <2>1. Sole(d) /\ stream_id'[d] = s
      BY <1>3, SoleBefore
    <2>2. ASSUME \/ cpc[d] \in {"extend", "store"}
                 \/ shm_writer[d].file # 0 /\ shm_writer[d].stream = s
          PROVE  s \in StreamIds
      <3>1. CASE cpc[d] \in {"extend", "store"}
        BY <1>a, <3>1 DEF PublishOK
      <3>2. CASE shm_writer[d].file # 0 /\ shm_writer[d].stream = s
        <4>1. CASE cpc[d] = "register"
          BY <1>a, <4>1 DEF PublishOK
        <4>2. ASSUME NEW h \in Gateways, made[h].stream = s PROVE s \in StreamIds
          <5>1. made[h] \in [stream : StreamIds, owner : Connections]
            BY <1>a, <4>2, ElementOf DEF TypeOK, Gateways
          <5> QED
            BY <4>2, <5>1
        <4> QED
          BY <1>a, <3>2, <4>1, <4>2 DEF WriterOK
      <3> QED
        BY <2>2, <3>1, <3>2
    <2>3. \* Somebody else's step that touches names, files or writers.
          ASSUME NEW c \in Connections, c # d,
                 \/ OpenFile(c) \/ ExtendFile(c) \/ ExtendFails(c) \/ StoreWriter(c)
                 \/ WriteFrame(c) \/ DropState(c)
          PROVE  SoleOK(d)'
      <3>1. /\ cpc'[d] = cpc[d] /\ fresh'[d] = fresh[d] /\ shm_writer'[d] = shm_writer[d]
        BY <2>3, <1>a DEF OpenFile, ExtendFile, ExtendFails, StoreWriter, WriteFrame, DropState,
           Goto, TypeOK, session
      <3>2. fresh[d].file # 0 <=> cpc[d] \in {"extend", "store"}
        BY <1>a DEF PublishOK
      <3>3. CASE s \in StreamIds /\ path[s] # 0
        <4>1. /\ path'[s] = path[s]
              /\ path[s] \notin truncated => path[s] \notin truncated'
              /\ head'[path[s]] = head[path[s]]
          BY <1>3, <2>1, <2>3, <3>3, OthersKeepFile
        <4> QED
          BY <1>a, <2>1, <3>1, <4>1 DEF SoleOK
      <3>4. CASE ~(s \in StreamIds /\ path[s] # 0)
        <4>1. cpc[d] \notin {"extend", "store"}
          <5> SUFFICES ASSUME cpc[d] \in {"extend", "store"} PROVE FALSE
            OBVIOUS
          <5>1. s \in StreamIds /\ fresh[d].file # 0
            BY <1>a DEF PublishOK
          <5>2. path[s] = fresh[d].file
            BY <1>a, <2>1 DEF SoleOK
          <5> QED
            BY <3>4, <5>1, <5>2
        <4>2. ASSUME cpc[d] \in {"register", "respond", "open"},
                     shm_writer[d].file # 0, shm_writer[d].stream = s
              PROVE  FALSE
          <5>1. s \in StreamIds
            BY <2>2, <4>2
          <5>2. path[s] = shm_writer[d].file
            BY <1>a, <2>1, <4>2 DEF SoleOK
          <5> QED
            BY <3>4, <4>2, <5>1, <5>2
        <4> QED
          BY <2>1, <3>1, <4>1, <4>2 DEF SoleOK
      <3> QED
        BY <3>3, <3>4
    <2>4. CASE OpenFile(d)
      <3> DEFINE f == IF path[s] = 0 THEN inodes + 1 ELSE path[s]
      <3>1. /\ s \in StreamIds /\ cpc'[d] = "extend" /\ path'[s] = f /\ fresh'[d] = Writer(s, f)
        BY <2>4, <1>a DEF OpenFile, Goto, PublishOK, TypeOK
      <3> HIDE DEF f
      <3> QED
        BY <1>b, <2>1, <3>1 DEF SoleOK
    <2>5. CASE ExtendFile(d)
      <3>1. /\ cpc[d] = "extend" /\ cpc'[d] = "store" /\ UNCHANGED <<path, fresh>>
            /\ truncated' = truncated \ {fresh[d].file}
            /\ head'[fresh[d].file] = 0
        <4>1. fresh[d].file \in Files
          BY <2>5, <1>a DEF ExtendFile, Goto, PublishOK, TypeOK, Writers
        <4> QED
          BY <2>5, <1>a, <4>1 DEF ExtendFile, Goto, TypeOK, session
      <3> QED
        BY <1>a, <2>1, <3>1 DEF SoleOK
    <2>6. CASE CreateFails(d) \/ ExtendFails(d)
      <3>1. /\ cpc[d] \in {"create", "extend"} /\ cpc'[d] = "register"
            /\ shm_writer'[d] = shm_writer[d]
        BY <2>6, <1>a DEF CreateFails, ExtendFails, Goto, TypeOK, session
      <3>2. ~(shm_writer[d].file # 0 /\ shm_writer[d].stream = s)
        BY <1>a, <2>1, <3>1 DEF WriterOK, Sole, Publishing
      <3> QED
        BY <2>1, <3>1, <3>2 DEF SoleOK
    <2>7. CASE StoreWriter(d)
      <3>1. /\ cpc[d] = "store" /\ cpc'[d] = "register" /\ shm_writer'[d] = fresh[d]
            /\ UNCHANGED <<truncated, head>>
        BY <2>7, <1>a DEF StoreWriter, Goto, TypeOK, sys
      <3>2. shm_writer[d] # NoWriter => shm_writer[d].stream # s
        BY <1>a, <2>1, <3>1 DEF PublishOK, WriterOK, Sole, Publishing
      <3>3. path'[s] = path[s]
        <4>1. s \in StreamIds
          BY <1>a, <3>1 DEF PublishOK
        <4> QED
          BY <2>7, <1>a, <3>2, <4>1 DEF StoreWriter, Unlink, TypeOK
      <3> QED
        BY <1>a, <2>1, <3>1, <3>3 DEF SoleOK
    <2>8. CASE WriteFrame(d)
      <3>1. /\ cpc[d] = "open" /\ cpc'[d] = "open" /\ UNCHANGED <<path, truncated>>
            /\ shm_writer[d].file # 0
            /\ shm_writer'[d].file = shm_writer[d].file /\ shm_writer'[d].stream = shm_writer[d].stream
            /\ shm_writer'[d].frame_counter = shm_writer[d].frame_counter + 1
            /\ head'[shm_writer[d].file] = shm_writer[d].frame_counter + 1
        <4>1. shm_writer[d].file # 0 /\ shm_writer[d] \in Writers
          BY <2>8, <1>a DEF WriteFrame, PublishOK, TypeOK
        <4>2. shm_writer[d].file \in Files
          BY <4>1 DEF Writers
        <4> QED
          BY <2>8, <1>a, <4>1, <4>2 DEF WriteFrame, TypeOK, Writers
      <3> QED
        BY <1>a, <2>1, <3>1 DEF SoleOK
    <2>9. CASE DropState(d)
      <3>1. cpc'[d] \in {"gone", "failed"}
        BY <2>9, <1>a DEF DropState, TypeOK
      <3> QED
        BY <3>1 DEF SoleOK
    <2>10. CASE UNCHANGED <<path, truncated, head, shm_writer, fresh>> /\ cpc'[d] = cpc[d]
      BY <1>a, <2>1, <2>10 DEF SoleOK
    <2>11. CASE /\ UNCHANGED <<path, truncated, head, shm_writer, fresh>>
                /\ \/ cpc[d] = "new" /\ cpc'[d] = "open"
                   \/ cpc[d] = "register" /\ cpc'[d] = "respond"
                   \/ cpc[d] = "respond" /\ cpc'[d] = "open"
                   \/ cpc'[d] \in {"failing", "ending", "dropping"}
      BY <1>a, <2>1, <2>11 DEF SoleOK, GatewayOK, WriterOK
    <2>12. ASSUME NEW c \in Connections,
                  \/ Connect(c) \/ Publish(c) \/ CreateFails(c) \/ Register(c) \/ Respond(c) \/ Fail(c)
                  \/ EndOfStream(c) \/ Unregister(c)
           PROVE  SoleOK(d)'
      <3>1. UNCHANGED <<path, truncated, head, shm_writer, fresh>>
        BY <2>12 DEF Connect, Publish, CreateFails, Register, Respond, Fail, EndOfStream, Unregister,
           sys, session
      <3>2. CASE c # d
        BY <1>a, <2>10, <2>12, <3>1, <3>2 DEF Connect, Publish, CreateFails, Register, Respond, Fail,
           EndOfStream, Unregister, Goto, TypeOK
      <3>3. CASE c = d
        BY <1>3, <1>a, <2>6, <2>11, <2>12, <3>1, <3>3 DEF Connect, Register, Respond, Fail,
           EndOfStream, Unregister, Goto, TypeOK
      <3> QED
        BY <3>2, <3>3
    <2>13. CASE UNCHANGED vars
      BY <2>10, <2>13 DEF vars, sys, session
    <2> QED
      BY <1>3, <2>3, <2>4, <2>5, <2>6, <2>7, <2>8, <2>9, <2>12, <2>13 DEF Next, BusError
  <1> QED
    BY <1>1, <1>2, <1>3

\* What SolePublisherIsFound rests on holds in every state.
THEOREM IngestSoleInvariant == Spec => []SoleInv
  <1>1. Init => SoleInv
    <2> SUFFICES ASSUME Init, NEW c \in Connections PROVE WriterOK(c) /\ SoleOK(c)
      BY DEF SoleInv
    <2>1. NoWriter.file = 0
      BY DEF NoWriter, Writer
    <2>2. fresh[c] = NoWriter /\ shm_writer[c] = NoWriter /\ cpc[c] = "new"
      BY DEF Init
    <2> QED
      BY <2>1, <2>2 DEF WriterOK, SoleOK
  <1>2. IngestInv /\ SoleInv /\ [Next]_vars => SoleInv'
    BY WriterStep, SoleStep DEF SoleInv
  <1> QED
    BY <1>1, <1>2, IngestInvariant, PTL DEF Spec

\* Who alone published under an id since the engine started, and once, is found
\* under it in the registry and in the file system, and the file shows its newest
\* frame: no earlier run, no other publisher and no ending session takes the
\* name or the file away (shm.rs:126-154, 225-229, amf.rs:171-181).
THEOREM IngestSolePublisherIsFound == Spec => []SolePublisherIsFound
  <1>1. IngestInv /\ SoleInv => SolePublisherIsFound
    <2> SUFFICES ASSUME IngestInv, SoleInv, NEW c \in Connections,
                        cpc[c] = "open", shm_writer[c] # NoWriter, shm_writer[c].stream = stream_id[c],
                        {g \in Gateways : made[g].stream = stream_id[c]} = {gateway[c]},
                        \A d \in Connections \ {c} : stream_id[d] # stream_id[c]
                 PROVE  /\ registry[stream_id[c]] = gateway[c]
                        /\ path[stream_id[c]] = shm_writer[c].file
                        /\ shm_writer[c].file \notin truncated
                        /\ head[shm_writer[c].file] = shm_writer[c].frame_counter
      BY DEF SolePublisherIsFound
    <2>a. /\ TypeOK /\ NewestStaysRegistered /\ PublishOK(c) /\ SoleOK(c)
      BY DEF IngestInv, SessionInv, SoleInv
    <2>1. gateway[c] \in Gateways /\ made[gateway[c]].stream = stream_id[c]
      OBVIOUS
    <2>2. Sole(c)
      BY DEF Sole, Publishing
    <2>3. registry[stream_id[c]] = gateway[c]
      <3>1. gateway[c] # 0 /\ Len(made) \in Nat /\ gateway[c] \in Nat
        BY <2>a, <2>1 DEF TypeOK, Gateways
      <3>2. \A h \in gateway[c] + 1 .. Len(made) : h \in Gateways /\ h # gateway[c]
        BY <3>1 DEF Gateways
      <3>3. \A h \in gateway[c] + 1 .. Len(made) : made[h].stream # made[gateway[c]].stream
        BY <2>1, <3>2
      <3> QED
        BY <2>a, <2>1, <3>1, <3>3 DEF NewestStaysRegistered
    <2>4. shm_writer[c].file # 0
      BY <2>a DEF PublishOK
    <2> QED
      BY <2>a, <2>2, <2>3, <2>4 DEF SoleOK
  <1> QED
    BY <1>1, IngestInvariant, IngestSoleInvariant, PTL
=============================================================================
