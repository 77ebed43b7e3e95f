---------------------------- MODULE RtspIngestor -----------------------------
(***************************************************************************)
(* The Go ingestor: internal/adapters/secondary/ingest.  A session has a   *)
(* worker goroutine that connects to its camera, reads from it, and fills  *)
(* in with synthetic frames while it cannot.  Callers start and stop       *)
(* sessions meanwhile.                                                     *)
(*                                                                         *)
(* The camera answers, is silent, or breaks the connection, as it likes.   *)
(* Requests and answers up to PLAY are one step: a worker in "handshake"   *)
(* waits for an answer.  A publisher is there: main.go sets it before it   *)
(* serves the requests that bring cameras.  A session is one of Sessions,  *)
(* used again when its worker has ended and nobody holds it.               *)
(***************************************************************************)
CONSTANTS
    StreamIds, Callers,
    Sessions,       \* bound: sessions that exist at a time
    NoSession,
    Sources         \* "rtsp", or "synthetic" for any other URL or mjpeg_and_wsp

ASSUME IngestorAssumption == NoSession \notin Sessions /\ Sources \subseteq {"rtsp", "synthetic"}

VARIABLES
    sessions,       \* r.sessions: stream -> session
    source,         \* session -> kind of its source
    cancelled,      \* sessions whose context is done
    status, err,    \* session -> reported status; sessions with an error
    conn,           \* session -> state of the connection in sess.conn
    worker,         \* session -> where its worker is
    loggedErr,      \* sessions whose worker has logged an error
    last_event,     \* session -> camera event last published for it
    held            \* caller -> session its StopIngest has taken from the map

shown  == <<status, err>>
events == <<loggedErr, last_event>>
ingest_vars == <<sessions, source, cancelled, shown, conn, worker, events, held>>

Goto(i, from, to) == worker[i] = from /\ worker' = [worker EXCEPT ![i] = to]

Running(i) == worker[i] \notin {"none", "ended"}

-----------------------------------------------------------------------------
(* StartIngest and StopIngest                                              *)

Unused(i) == ~Running(i) /\ \A p \in Callers : held[p] # i

NewSession(s, i, src) ==
    /\ Unused(i)
    /\ sessions' = [sessions EXCEPT ![s] = i]
    /\ source' = [source EXCEPT ![i] = src]
    /\ cancelled' = cancelled \ {i}
    /\ status' = [status EXCEPT ![i] = "connecting"]
    /\ err' = err \ {i}
    /\ conn' = [conn EXCEPT ![i] = "none"]
    /\ worker' = [worker EXCEPT ![i] = IF src = "rtsp" THEN "loop" ELSE "pump"]
    /\ loggedErr' = loggedErr \ {i}
    /\ last_event' = [last_event EXCEPT ![i] = "none"]
    /\ UNCHANGED held

\* A bug: the session there is gets replaced.
StartIngestOver(s, src) == \E i \in Sessions : NewSession(s, i, src)

\* A session that exists is kept, whatever its source.
StartIngest(s, src) ==
    IF sessions[s] # NoSession
    THEN UNCHANGED ingest_vars
    ELSE \E i \in Sessions : NewSession(s, i, src)

\* StopIngest takes the session from the map ...
TakeSession(p, s) ==
    /\ held[p] = NoSession
    /\ held' = [held EXCEPT ![p] = sessions[s]]
    /\ sessions' = [sessions EXCEPT ![s] = NoSession]
    /\ UNCHANGED <<source, cancelled, shown, conn, worker, events>>

\* A bug: it goes on when there is no session.
CancelAnySession(p) ==
    /\ held[p] \notin cancelled
    /\ cancelled' = cancelled \cup {held[p]}
    /\ UNCHANGED <<sessions, source, shown, conn, worker, events, held>>

\* ... cancels its context ...
CancelSession(p) ==
    /\ held[p] \in Sessions \ cancelled
    /\ cancelled' = cancelled \cup {held[p]}
    /\ UNCHANGED <<sessions, source, shown, conn, worker, events, held>>

\* A bug: the connection is left to the worker.
CloseSessionOnly(p) ==
    /\ held[p] \in cancelled
    /\ status' = [status EXCEPT ![held[p]] = "stopped"]
    /\ held' = [held EXCEPT ![p] = NoSession]
    /\ UNCHANGED <<sessions, source, cancelled, err, conn, worker, events>>

\* ... and closes the connection stored, if there is one.
CloseSession(p) ==
    LET i == held[p] IN
    /\ i \in cancelled
    /\ conn' = [conn EXCEPT ![i] = IF @ = "none" THEN @ ELSE "closed"]
    /\ status' = [status EXCEPT ![i] = "stopped"]
    /\ held' = [held EXCEPT ![p] = NoSession]
    /\ UNCHANGED <<sessions, source, cancelled, err, worker, events>>

-----------------------------------------------------------------------------
(* runWorker and connectAndDemuxRTSP                                       *)

idle_worker == <<sessions, source, cancelled, held>>

Loop(i) ==
    /\ Goto(i, "loop", IF i \in cancelled THEN "ended" ELSE "dial")
    /\ UNCHANGED <<idle_worker, shown, conn, events>>

\* The dialer gives up when the context is done, and after five seconds.
Dial(i) ==
    /\ \/ Goto(i, "dial", "dialled") /\ i \notin cancelled
       \/ Goto(i, "dial", "failed")
    /\ UNCHANGED <<idle_worker, shown, conn, events>>

StoreConn(i) ==
    /\ Goto(i, "dialled", "handshake")
    /\ conn' = [conn EXCEPT ![i] = "open"]
    /\ UNCHANGED <<idle_worker, shown, events>>

\* The camera has answered every request, PLAY last.
Played(i) ==
    /\ conn[i] = "open"
    /\ Goto(i, "handshake", "established")
    /\ UNCHANGED <<idle_worker, shown, conn, events>>

Establish(i) ==
    /\ Goto(i, "established", "announce")
    /\ status' = [status EXCEPT ![i] = "streaming"]
    /\ err' = err \ {i}
    /\ UNCHANGED <<idle_worker, conn, events>>

\* A bug: a recovery is only told if no error was logged.
AnnounceFirst(i) ==
    /\ Goto(i, "announce", "demux")
    /\ last_event' = IF i \in loggedErr THEN last_event ELSE [last_event EXCEPT ![i] = "online"]
    /\ UNCHANGED <<idle_worker, shown, conn, loggedErr>>

Announce(i) ==
    /\ Goto(i, "announce", "demux")
    /\ last_event' = [last_event EXCEPT ![i] = "online"]
    /\ UNCHANGED <<idle_worker, shown, conn, loggedErr>>

\* The context is looked at between two packets; leaving closes the connection.
Demux(i) ==
    /\ Goto(i, "demux", IF i \in cancelled THEN "loop" ELSE "read")
    /\ conn' = [conn EXCEPT ![i] = IF i \in cancelled THEN "closed" ELSE @]
    /\ loggedErr' = IF i \in cancelled THEN loggedErr \ {i} ELSE loggedErr
    /\ UNCHANGED <<idle_worker, shown, last_event>>

ReadPacket(i) ==
    /\ conn[i] = "open"
    /\ Goto(i, "read", "demux")
    /\ UNCHANGED <<idle_worker, shown, conn, events>>

\* The camera refused or broke the connection, or StopIngest closed it.
ConnectionFails(i) ==
    /\ worker[i] \in {"handshake", "read"}
    /\ worker' = [worker EXCEPT ![i] = "failed"]
    /\ conn' = [conn EXCEPT ![i] = "closed"]
    /\ UNCHANGED <<idle_worker, shown, events>>

NoteError(i) ==
    /\ Goto(i, "failed", IF i \in loggedErr THEN "pump" ELSE "report")
    /\ status' = [status EXCEPT ![i] = "reconnecting"]
    /\ err' = err \cup {i}
    /\ UNCHANGED <<idle_worker, conn, events>>

Report(i) ==
    /\ Goto(i, "report", "pump")
    /\ loggedErr' = loggedErr \cup {i}
    /\ last_event' = [last_event EXCEPT ![i] = "offline"]
    /\ UNCHANGED <<idle_worker, shown, conn>>

\* runSyntheticPump; its frames are not counted here.
StartPump(i) ==
    /\ Goto(i, "pump", "pumping")
    /\ status' = [status EXCEPT ![i] = "streaming"]
    /\ UNCHANGED <<idle_worker, err, conn, events>>

\* It ends with the context; between two connection attempts, after 10 seconds.
EndPump(i) ==
    /\ i \in cancelled \/ source[i] = "rtsp"
    /\ Goto(i, "pumping", IF source[i] = "rtsp" THEN "loop" ELSE "ended")
    /\ UNCHANGED <<idle_worker, shown, conn, events>>

-----------------------------------------------------------------------------
IngestInit ==
    /\ sessions = [s \in StreamIds |-> NoSession]
    /\ source = [i \in Sessions |-> "synthetic"]
    /\ cancelled = {}
    /\ status = [i \in Sessions |-> "stopped"]
    /\ err = {}
    /\ conn = [i \in Sessions |-> "none"]
    /\ worker = [i \in Sessions |-> "none"]
    /\ loggedErr = {}
    /\ last_event = [i \in Sessions |-> "none"]
    /\ held = [p \in Callers |-> NoSession]

\* What a worker does by itself, and what it does when the camera lets it.
WorkerStep(i) ==
    \/ Loop(i) \/ Dial(i) \/ StoreConn(i) \/ Establish(i) \/ Announce(i)
    \/ Demux(i) \/ NoteError(i) \/ Report(i) \/ StartPump(i) \/ EndPump(i)

CameraStep(i) == Played(i) \/ ReadPacket(i) \/ ConnectionFails(i)

IngestNext ==
    \/ \E s \in StreamIds, src \in Sources : StartIngest(s, src)
    \/ \E p \in Callers, s \in StreamIds : TakeSession(p, s)
    \/ \E p \in Callers : CancelSession(p) \/ CloseSession(p)
    \/ \E i \in Sessions : WorkerStep(i) \/ CameraStep(i)

IngestSpec == IngestInit /\ [][IngestNext]_ingest_vars

\* A worker goes on until it waits for the camera, also when its connection has
\* been closed, and a StopIngest is finished.  Nobody has to call; the camera
\* need not answer.
IngestFairness ==
    /\ \A i \in Sessions : /\ WF_ingest_vars(WorkerStep(i))
                           /\ WF_ingest_vars(conn[i] = "closed" /\ ConnectionFails(i))
    /\ \A p \in Callers : WF_ingest_vars(CancelSession(p) \/ CloseSession(p))

FairIngestSpec == IngestSpec /\ IngestFairness

-----------------------------------------------------------------------------
(* Properties                                                              *)

IngestTypeOK ==
    /\ sessions \in [StreamIds -> Sessions \cup {NoSession}]
    /\ source \in [Sessions -> {"rtsp", "synthetic"}]
    /\ cancelled \subseteq Sessions
    /\ status \in [Sessions -> {"connecting", "streaming", "reconnecting", "stopped"}]
    /\ err \subseteq Sessions
    /\ conn \in [Sessions -> {"none", "open", "closed"}]
    /\ worker \in [Sessions -> {"none", "loop", "dial", "dialled", "handshake",
                                "established", "announce", "demux", "read", "failed",
                                "report", "pump", "pumping", "ended"}]
    /\ loggedErr \subseteq Sessions
    /\ last_event \in [Sessions -> {"none", "online", "offline"}]
    /\ held \in [Callers -> Sessions \cup {NoSession}]

\* A worker that runs can be stopped through the map, is being stopped, or has
\* been told to end, and not two of these: no worker is lost to its callers, and
\* no session listed is one that ends (rtsp_ingestor.go:60-76, 80-91).
NoWorkerForgotten ==
    \A i \in Sessions :
        LET listed == \E s \in StreamIds : sessions[s] = i
            taken  == \E p \in Callers : held[p] = i
        IN  /\ Running(i) => listed \/ taken \/ i \in cancelled
            /\ listed => Running(i) /\ ~taken /\ i \notin cancelled

\* The events published agree with the camera: online while it is read, and
\* offline while it cannot be, unless a recovery has been told since the first
\* outage (rtsp_client.go:181-186, rtsp_worker.go:35-44).
EventsTellState ==
    \A i \in Sessions :
        /\ worker[i] \in {"demux", "read"} => last_event[i] = "online"
        /\ worker[i] = "pumping" /\ source[i] = "rtsp" =>
               last_event[i] = "offline" \/ (last_event[i] = "online" /\ i \in loggedErr)

\* The publisher is there "for instant status emission" (rtsp_ingestor.go:48): while
\* a camera is away, that is the last thing said of it.
OutagesAreTold ==
    \A i \in Sessions :
        worker[i] = "pumping" /\ source[i] = "rtsp" => last_event[i] = "offline"

\* Asked to stop, a worker ends, though its camera says nothing any more; the
\* exception is one that stored its connection after StopIngest had looked for
\* it, and waits for an answer (rtsp_ingestor.go:91-95, rtsp_client.go:50-61).
StoppedWorkersEnd ==
    \A i \in Sessions :
        i \in cancelled ~> (~Running(i) \/ (worker[i] = "handshake" /\ conn[i] = "open"))
=============================================================================
