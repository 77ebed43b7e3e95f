-------------------------- MODULE RtspIngestorProofs --------------------------
(***************************************************************************)
(* Proofs about RtspIngestor, for any streams, callers and sessions.       *)
(*                                                                         *)
(* NoWorkerForgotten is inductive once it is known that no session is      *)
(* listed for two streams: then a session taken from the map is listed no  *)
(* more.  EventsTellState needs that a worker that has logged an error has *)
(* published an event, and that one that pumps for a camera has logged one.*)
(***************************************************************************)
EXTENDS RtspIngestor, TLAPS

\* A session is listed for one stream.
ListedOnce ==
    \A s, t \in StreamIds : sessions[s] = sessions[t] /\ sessions[s] # NoSession => s = t

\* Nothing is logged without an event, and no camera is filled in for unlogged.
ErrorsLogged ==
    \A i \in Sessions :
        /\ i \in loggedErr => last_event[i] # "none"
        /\ worker[i] \in {"pump", "pumping"} /\ source[i] = "rtsp" => i \in loggedErr

IngestInv ==
    IngestTypeOK /\ NoWorkerForgotten /\ ListedOnce /\ ErrorsLogged /\ EventsTellState

-----------------------------------------------------------------------------
USE IngestorAssumption

LEMMA IngestInitInv == IngestInit => IngestInv
  BY DEF IngestInit, IngestInv, IngestTypeOK, NoWorkerForgotten, ListedOnce, ErrorsLogged,
         EventsTellState, Running

\* StartIngest takes a session nobody holds or lists.
LEMMA StartKeepsInv ==
    ASSUME IngestInv, NEW s \in StreamIds, NEW src \in Sources, StartIngest(s, src)
    PROVE  IngestInv'
<1>1. CASE UNCHANGED ingest_vars
  BY <1>1 DEF IngestInv, IngestTypeOK, NoWorkerForgotten, ListedOnce, ErrorsLogged,
              EventsTellState, Running, ingest_vars, shown, events
<1>2. CASE \E i \in Sessions : NewSession(s, i, src) /\ sessions[s] = NoSession
  <2>1. PICK i \in Sessions : NewSession(s, i, src) /\ sessions[s] = NoSession
    BY <1>2
  <2>2. IngestTypeOK'
    BY <2>1 DEF IngestInv, IngestTypeOK, NewSession
  <2>3. \A t \in StreamIds : sessions[t] # i
    BY <2>1 DEF IngestInv, NoWorkerForgotten, NewSession, Unused
  <2>4. NoWorkerForgotten'
    <3> SUFFICES ASSUME NEW j \in Sessions
                 PROVE  /\ Running(j)' => \/ \E t \in StreamIds : sessions'[t] = j
                                          \/ \E p \in Callers : held'[p] = j
                                          \/ j \in cancelled'
                        /\ (\E t \in StreamIds : sessions'[t] = j) =>
                              /\ Running(j)' /\ j \notin cancelled'
                              /\ ~ \E p \in Callers : held'[p] = j
      BY DEF NoWorkerForgotten
    <3>1. CASE j = i
      BY <2>1, <3>1 DEF IngestInv, IngestTypeOK, NewSession, Unused, Running
    <3>2. CASE j # i
      BY <2>1, <3>2 DEF IngestInv, IngestTypeOK, NoWorkerForgotten, NewSession, Running
    <3> QED
      BY <3>1, <3>2
  <2>5. ListedOnce'
    BY <2>1, <2>3 DEF IngestInv, IngestTypeOK, ListedOnce, NewSession
  <2>6. ErrorsLogged' /\ EventsTellState'
    BY <2>1 DEF IngestInv, IngestTypeOK, ErrorsLogged, EventsTellState, NewSession
  <2> QED
    BY <2>2, <2>4, <2>5, <2>6 DEF IngestInv
<1> QED
  BY <1>1, <1>2 DEF StartIngest

LEMMA StopKeepsInv ==
    ASSUME IngestInv, NEW p \in Callers,
           \/ \E s \in StreamIds : TakeSession(p, s)
           \/ CancelSession(p)
           \/ CloseSession(p)
    PROVE  IngestInv'
<1>1. CASE \E s \in StreamIds : TakeSession(p, s)
  <2>1. PICK s \in StreamIds : TakeSession(p, s)
    BY <1>1
  <2>2. IngestTypeOK'
    BY <2>1 DEF IngestInv, IngestTypeOK, TakeSession, shown, events
  <2>3. NoWorkerForgotten'
    <3> SUFFICES ASSUME NEW j \in Sessions
                 PROVE  /\ Running(j)' => \/ \E t \in StreamIds : sessions'[t] = j
                                          \/ \E q \in Callers : held'[q] = j
                                          \/ j \in cancelled'
                        /\ (\E t \in StreamIds : sessions'[t] = j) =>
                              /\ Running(j)' /\ j \notin cancelled'
                              /\ ~ \E q \in Callers : held'[q] = j
      BY DEF NoWorkerForgotten
    <3>1. CASE sessions[s] = j
      BY <2>1, <3>1 DEF IngestInv, IngestTypeOK, ListedOnce, TakeSession
    <3>2. CASE sessions[s] # j
      BY <2>1, <3>2 DEF IngestInv, IngestTypeOK, NoWorkerForgotten, TakeSession, Running,
                        shown, events
    <3> QED
      BY <3>1, <3>2
  <2>4. ListedOnce' /\ ErrorsLogged' /\ EventsTellState'
    BY <2>1 DEF IngestInv, IngestTypeOK, ListedOnce, ErrorsLogged, EventsTellState,
                TakeSession, shown, events
  <2> QED
    BY <2>2, <2>3, <2>4 DEF IngestInv
<1>2. CASE CancelSession(p)
  BY <1>2 DEF IngestInv, IngestTypeOK, NoWorkerForgotten, ListedOnce, ErrorsLogged,
              EventsTellState, CancelSession, Running, shown, events
<1>3. CASE CloseSession(p)
  <2>1. IngestTypeOK'
    BY <1>3 DEF IngestInv, IngestTypeOK, CloseSession, events
  <2>2. NoWorkerForgotten'
    BY <1>3 DEF IngestInv, IngestTypeOK, NoWorkerForgotten, CloseSession, Running
  <2>3. ListedOnce' /\ ErrorsLogged' /\ EventsTellState'
    BY <1>3 DEF IngestInv, ListedOnce, ErrorsLogged, EventsTellState, CloseSession, events
  <2> QED
    BY <2>1, <2>2, <2>3 DEF IngestInv
<1> QED
  BY <1>1, <1>2, <1>3

\* A worker moves on, and ends only when its context is done.
LEMMA WorkerMoves ==
    ASSUME IngestInv, NEW i \in Sessions, WorkerStep(i) \/ CameraStep(i)
    PROVE  /\ IngestTypeOK' /\ UNCHANGED idle_worker
           /\ Running(i)
           /\ Running(i)' \/ i \in cancelled
           /\ \A j \in Sessions \ {i} : worker'[j] = worker[j]
<1> USE DEF IngestInv, IngestTypeOK, Goto, Running, idle_worker, shown, events
<1>1. CASE Loop(i)
  BY <1>1 DEF Loop
<1>2. CASE Dial(i)
  BY <1>2 DEF Dial
<1>3. CASE StoreConn(i)
  BY <1>3 DEF StoreConn
<1>4. CASE Establish(i)
  BY <1>4 DEF Establish
<1>5. CASE Announce(i)
  BY <1>5 DEF Announce
<1>6. CASE Demux(i)
  BY <1>6 DEF Demux
<1>7. CASE NoteError(i)
  BY <1>7 DEF NoteError
<1>8. CASE Report(i)
  BY <1>8 DEF Report
<1>9. CASE StartPump(i)
  BY <1>9 DEF StartPump
<1>10. CASE EndPump(i)
  BY <1>10 DEF EndPump
<1>11. CASE Played(i)
  BY <1>11 DEF Played
<1>12. CASE ReadPacket(i)
  BY <1>12 DEF ReadPacket
<1>13. CASE ConnectionFails(i)
  BY <1>13 DEF ConnectionFails
<1> QED
  BY <1>1, <1>2, <1>3, <1>4, <1>5, <1>6, <1>7, <1>8, <1>9, <1>10, <1>11, <1>12, <1>13
     DEF WorkerStep, CameraStep

LEMMA WorkerTells ==
    ASSUME IngestInv, NEW i \in Sessions, WorkerStep(i) \/ CameraStep(i)
    PROVE  ErrorsLogged' /\ EventsTellState'
<1> USE DEF IngestInv, IngestTypeOK, ErrorsLogged, EventsTellState, Goto, idle_worker, shown, events
<1>1. CASE Loop(i)
  BY <1>1 DEF Loop
<1>2. CASE Dial(i)
  BY <1>2 DEF Dial
<1>3. CASE StoreConn(i)
  BY <1>3 DEF StoreConn
<1>4. CASE Establish(i)
  BY <1>4 DEF Establish
<1>5. CASE Announce(i)
  BY <1>5 DEF Announce
<1>6. CASE Demux(i)
  BY <1>6 DEF Demux
<1>7. CASE NoteError(i)
  BY <1>7 DEF NoteError
<1>8. CASE Report(i)
  BY <1>8 DEF Report
<1>9. CASE StartPump(i)
  BY <1>9 DEF StartPump
<1>10. CASE EndPump(i)
  BY <1>10 DEF EndPump
<1>11. CASE Played(i)
  BY <1>11 DEF Played
<1>12. CASE ReadPacket(i)
  BY <1>12 DEF ReadPacket
<1>13. CASE ConnectionFails(i)
  BY <1>13 DEF ConnectionFails
<1> QED
  BY <1>1, <1>2, <1>3, <1>4, <1>5, <1>6, <1>7, <1>8, <1>9, <1>10, <1>11, <1>12, <1>13
     DEF WorkerStep, CameraStep

LEMMA WorkerKeepsInv ==
    ASSUME IngestInv, NEW i \in Sessions, WorkerStep(i) \/ CameraStep(i)
    PROVE  IngestInv'
<1>1. /\ IngestTypeOK' /\ UNCHANGED idle_worker
      /\ Running(i)
      /\ Running(i)' \/ i \in cancelled
      /\ \A j \in Sessions \ {i} : worker'[j] = worker[j]
  BY WorkerMoves
<1>2. NoWorkerForgotten'
  BY <1>1 DEF IngestInv, NoWorkerForgotten, Running, idle_worker
<1>3. ListedOnce'
  BY <1>1 DEF IngestInv, ListedOnce, idle_worker
<1>4. ErrorsLogged' /\ EventsTellState'
  BY WorkerTells
<1> QED
  BY <1>1, <1>2, <1>3, <1>4 DEF IngestInv

LEMMA IngestNextInv == IngestInv /\ [IngestNext]_ingest_vars => IngestInv'
<1> SUFFICES ASSUME IngestInv, [IngestNext]_ingest_vars PROVE IngestInv'
  OBVIOUS
<1>1. CASE \E s \in StreamIds, src \in Sources : StartIngest(s, src)
  BY <1>1, StartKeepsInv
<1>2. CASE \E p \in Callers, s \in StreamIds : TakeSession(p, s)
  BY <1>2, StopKeepsInv
<1>3. CASE \E p \in Callers : CancelSession(p) \/ CloseSession(p)
  BY <1>3, StopKeepsInv
<1>4. CASE \E i \in Sessions : WorkerStep(i) \/ CameraStep(i)
  BY <1>4, WorkerKeepsInv
<1>5. CASE UNCHANGED ingest_vars
  BY <1>5 DEF IngestInv, IngestTypeOK, NoWorkerForgotten, ListedOnce, ErrorsLogged,
              EventsTellState, Running, ingest_vars, shown, events
<1> QED
  BY <1>1, <1>2, <1>3, <1>4, <1>5 DEF IngestNext

-----------------------------------------------------------------------------
\* The inductive invariant of the ingestor: callers of StartIngest and StopIngest
\* and the workers of any number of sessions keep it.
THEOREM IngestorInvariant == IngestSpec => []IngestInv
  BY IngestInitInv, IngestNextInv, PTL DEF IngestSpec

\* Every variable of the ingestor stays in its set (rtsp_ingestor.go:15-39).
THEOREM IngestorTypeCorrect == IngestSpec => []IngestTypeOK
  BY IngestorInvariant, PTL DEF IngestInv

\* StartIngest and StopIngest, however they overlap, lose no worker that runs
\* and list no session that ends (rtsp_ingestor.go:56-100).
THEOREM IngestorForgetsNoWorker == IngestSpec => []NoWorkerForgotten
  BY IngestorInvariant, PTL DEF IngestInv

\* A camera that is read was announced as online, and one that is not was
\* reported, up to the recoveries since (rtsp_worker.go:35-44).
THEOREM IngestorEventsTellState == IngestSpec => []EventsTellState
  BY IngestorInvariant, PTL DEF IngestInv
=============================================================================
