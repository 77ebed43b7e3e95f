----------------------------- MODULE H264Bridges -----------------------------
(***************************************************************************)
(* The H.264 bridges and MJPEG readers of internal/adapters/primary/http:  *)
(* ffmpeg processes that pull from a camera, started and stopped by HTTP   *)
(* requests that run concurrently.  A bridge is listed under its stream id *)
(* and watched by a goroutine; of a reader the handler keeps the cancel    *)
(* function.  A camera's sub stream has an id of its own.                  *)
(***************************************************************************)
EXTENDS Naturals, Sequences

CONSTANTS
    Requests,       \* goroutines that serve a request, one at a time
    Cameras,        \* stream ids
    BaseOf,         \* the id without the suffix `_sub`
    MaxProcesses    \* bound: bridge processes of a run

ASSUME BridgesAssumption == BaseOf \in [Cameras -> Cameras] /\ MaxProcesses \in Nat

VARIABLES
    powershell,     \* the host can run the command that kills orphans
    bridges,        \* h264Bridges: the process of an id, or 0
    pipes,          \* h264Pipes: the process whose pipe is listed, or 0
    starting,       \* h264Starting: ids with a start under way
    processes,      \* the bridges spawned: id, piped, alive, reaped
    readers,        \* mjpegCancels: the request that reads, or "none"
    request         \* per request: where it is, its id, its process

bridgesVars == <<powershell, bridges, pipes, starting, processes, readers, request>>

Free == [at |-> "out", id |-> "none", process |-> 0]

Goes(r, to) == request' = [request EXCEPT ![r].at = to]

\* killOrphanFFmpegForStream: a wildcard on the command line, so that the main
\* stream's id matches its sub stream too.
Orphans(id) ==
    {p \in DOMAIN processes : powershell /\ (processes[p].id = id \/ BaseOf[processes[p].id] = id)}

Kill(ps) ==
    processes' = [p \in DOMAIN processes |->
        IF p \in ps THEN [processes[p] EXCEPT !.alive = FALSE] ELSE processes[p]]

\* stopH264BridgeInternal, under the lock: pipe, process, orphans.
StopBridge(id) ==
    /\ Kill(Orphans(id) \cup ({bridges[id], pipes[id]} \ {0}))
    /\ bridges' = [bridges EXCEPT ![id] = 0]
    /\ pipes' = [pipes EXCEPT ![id] = 0]

\* A start: already running, or wait for the start under way, or mark it.
StartBridge(r, id) ==
    /\ request[r] = Free
    /\ bridges[id] = 0
    /\ request' = [request EXCEPT ![r].id = id,
                       ![r].at = IF id \in starting THEN "waiting" ELSE "stop_readers"]
    /\ starting' = starting \cup {id}
    /\ UNCHANGED <<powershell, bridges, pipes, processes, readers>>

\* stopMJPEGInternal: the readers of the id and of its main stream are cancelled
\* and taken off the list; they end some time later.
StopReaders(r) ==
    LET ids == {request[r].id, BaseOf[request[r].id]}
    IN  /\ request[r].at = "stop_readers"
        /\ readers' = [id \in Cameras |-> IF id \in ids THEN "none" ELSE readers[id]]
        /\ Goes(r, "source")
        /\ UNCHANGED <<powershell, bridges, pipes, starting, processes>>

\* A bug: a start that finds no source answers and leaves its mark.
SourceMissingAbandoned(r) ==
    /\ request[r].at = "source"
    /\ request' = [request EXCEPT ![r] = Free]
    /\ UNCHANGED <<powershell, bridges, pipes, starting, processes, readers>>

\* 404.
SourceMissing(r) ==
    /\ request[r].at = "source"
    /\ Goes(r, "finish")
    /\ UNCHANGED <<powershell, bridges, pipes, starting, processes, readers>>

\* The source is known: orphans are killed, without the lock.
KillOrphans(r) ==
    /\ request[r].at = "source"
    /\ Kill(Orphans(request[r].id))
    /\ Goes(r, "spawn")
    /\ UNCHANGED <<powershell, bridges, pipes, starting, readers>>

\* ffmpeg, fed by the engine's pipe if that could be spawned, or by itself.
SpawnBridge(r) ==
    /\ request[r].at = "spawn"
    /\ Len(processes) < MaxProcesses
    /\ \E piped \in BOOLEAN :
           processes' = Append(processes,
               [id |-> request[r].id, piped |-> piped, alive |-> TRUE, reaped |-> FALSE])
    /\ request' = [request EXCEPT ![r].at = "insert", ![r].process = Len(processes')]
    /\ UNCHANGED <<powershell, bridges, pipes, starting, readers>>

\* 500.
SpawnBridgeFails(r) ==
    /\ request[r].at = "spawn"
    /\ Goes(r, "finish")
    /\ UNCHANGED <<powershell, bridges, pipes, starting, processes, readers>>

\* The process is listed, and a goroutine waits for its end.
InsertBridge(r) ==
    LET id == request[r].id
        p == request[r].process
    IN  /\ request[r].at = "insert"
        /\ bridges' = [bridges EXCEPT ![id] = p]
        /\ pipes' = [pipes EXCEPT ![id] = IF processes[p].piped THEN p ELSE @]
        /\ Goes(r, "finish")
        /\ UNCHANGED <<powershell, starting, processes, readers>>

\* The deferred function takes the mark off and lets those go that wait for it.
FinishStart(r) ==
    /\ request[r].at = "finish"
    /\ starting' = starting \ {request[r].id}
    /\ request' = [q \in Requests |->
           IF q = r \/ (request[q].at = "waiting" /\ request[q].id = request[r].id)
           THEN Free ELSE request[q]]
    /\ UNCHANGED <<powershell, bridges, pipes, processes, readers>>

\* ffmpeg ends by itself.
BridgeEnds(p) ==
    /\ processes[p].alive
    /\ Kill({p})
    /\ UNCHANGED <<powershell, bridges, pipes, starting, readers, request>>

Inserted(p) == \A r \in Requests : ~(request[r].at = "insert" /\ request[r].process = p)

\* A bug: what is listed when the process ends is taken off, whatever it is.
ReapAnything(p) ==
    /\ Inserted(p) /\ ~processes[p].alive /\ ~processes[p].reaped
    /\ processes' = [processes EXCEPT ![p].reaped = TRUE]
    /\ bridges' = [bridges EXCEPT ![processes[p].id] = 0]
    /\ pipes' = [pipes EXCEPT ![processes[p].id] = 0]
    /\ UNCHANGED <<powershell, starting, readers, request>>

\* The goroutine: the pipe is cleaned up, and the entry goes if it is still
\* this process's.
ReapBridge(p) ==
    LET mine == bridges[processes[p].id] = p
    IN  /\ Inserted(p) /\ ~processes[p].alive /\ ~processes[p].reaped
        /\ processes' = [processes EXCEPT ![p].reaped = TRUE]
        /\ bridges' = IF mine THEN [bridges EXCEPT ![processes[p].id] = 0] ELSE bridges
        /\ pipes' = IF mine THEN [pipes EXCEPT ![processes[p].id] = 0] ELSE pipes
        /\ UNCHANGED <<powershell, starting, readers, request>>

StopRequest(r, id) ==
    /\ request[r] = Free
    /\ StopBridge(id)
    /\ UNCHANGED <<powershell, starting, readers, request>>

\* StopAllH264Bridges, when the program ends.
StopAllBridges ==
    /\ Kill({bridges[id] : id \in Cameras} \cup {pipes[id] : id \in Cameras})
    /\ bridges' = [id \in Cameras |-> 0] /\ pipes' = [id \in Cameras |-> 0]
    /\ UNCHANGED <<powershell, starting, readers, request>>

\* handleMJPEG stops the bridge first, ...
ReadMJPEG(r, id) ==
    /\ request[r] = Free
    /\ StopBridge(id)
    /\ request' = [request EXCEPT ![r].id = id, ![r].at = "swap"]
    /\ UNCHANGED <<powershell, starting, readers>>

\* ... as a snapshot does that finds a reader active and GETs the MJPEG stream
\* from its own server.  Its other ways read files or the camera.
Snapshot(r, id) ==
    /\ {readers[id], readers[BaseOf[id]]} # {"none"}
    /\ ReadMJPEG(r, id)

\* ... then takes the place of another reader, ...
SwapReader(r) ==
    LET id == request[r].id
    IN  /\ request[r].at = "swap"
        /\ readers' = [readers EXCEPT ![id] = r]
        /\ Goes(r, "read")
        /\ UNCHANGED <<powershell, bridges, pipes, starting, processes>>

\* ... runs ffmpeg again and again until the context is cancelled, the client
\* goes, or ffmpeg ends without an error, ...
EndReading(r) ==
    /\ request[r].at = "read"
    /\ Goes(r, "leave")
    /\ UNCHANGED <<powershell, bridges, pipes, starting, processes, readers>>

\* ... and deletes the entry of its id, whosever it is.
LeaveReader(r) ==
    /\ request[r].at = "leave"
    /\ readers' = [readers EXCEPT ![request[r].id] = "none"]
    /\ request' = [request EXCEPT ![r] = Free]
    /\ UNCHANGED <<powershell, bridges, pipes, starting, processes>>

BridgesInit ==
    /\ powershell \in BOOLEAN
    /\ bridges = [id \in Cameras |-> 0] /\ pipes = [id \in Cameras |-> 0]
    /\ starting = {} /\ processes = <<>>
    /\ readers = [id \in Cameras |-> "none"]
    /\ request = [r \in Requests |-> Free]

\* What a start does by itself once it has marked its id.
CarryStart(r) ==
    \/ StopReaders(r) \/ SourceMissing(r) \/ KillOrphans(r) \/ SpawnBridge(r)
    \/ SpawnBridgeFails(r) \/ InsertBridge(r) \/ FinishStart(r)

BridgesNext ==
    \/ \E r \in Requests, id \in Cameras :
           StartBridge(r, id) \/ StopRequest(r, id) \/ ReadMJPEG(r, id) \/ Snapshot(r, id)
    \/ \E r \in Requests : CarryStart(r) \/ SwapReader(r) \/ EndReading(r) \/ LeaveReader(r)
    \/ \E p \in DOMAIN processes : BridgeEnds(p) \/ ReapBridge(p)
    \/ StopAllBridges

\* A start that has begun goes on until it ends.
StartsFinish == \A r \in Requests : WF_bridgesVars(CarryStart(r))

BridgesSpec == BridgesInit /\ [][BridgesNext]_bridgesVars

-----------------------------------------------------------------------------
(* Properties                                                              *)

BridgesTypeOK ==
    /\ powershell \in BOOLEAN
    /\ bridges \in [Cameras -> 0 .. Len(processes)]
    /\ pipes \in [Cameras -> 0 .. Len(processes)]
    /\ starting \subseteq Cameras
    /\ readers \in [Cameras -> Requests \cup {"none"}]
    /\ request \in [Requests ->
           [at : {"out", "waiting", "stop_readers", "source", "spawn", "insert", "finish",
                  "swap", "read", "leave"},
            id : Cameras \cup {"none"}, process : 0 .. Len(processes)]]

InHand(p) == \E r \in Requests : request[r].at = "insert" /\ request[r].process = p

\* No bridge is lost (stream_handler_h264_bridge.go:64-80, 224-242): a process
\* that runs is listed under its id, where a stop finds it, or its start is about
\* to list it, however starts, stops, takeovers by MJPEG and the ends of earlier
\* processes of that id overlap; so there is one per id, and the pipe listed is
\* its own. A stop that comes before the process is listed misses it.
BridgesAreListed ==
    /\ \A p \in DOMAIN processes :
           processes[p].alive => bridges[processes[p].id] = p \/ InHand(p)
    /\ \A id \in Cameras : pipes[id] # 0 => pipes[id] = bridges[id]

\* Every start that waits for another one is answered, also when that one fails
\* (stream_handler_h264_bridge.go:96-112).
StartersAnswer ==
    \A r \in Requests : request[r].at = "waiting" ~> request[r].at # "waiting"
=============================================================================
