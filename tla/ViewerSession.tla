---------------------------- MODULE ViewerSession ----------------------------
(***************************************************************************)
(* WebSocket viewers of crates/hydra-engine/src/server.rs over the stream  *)
(* registry, and the pool of transcoding workers of transcode.rs that some *)
(* of them share.  The gateway a viewer subscribes to is module Gateway;   *)
(* here it only matters which one it is and whether it was shut down.      *)
(***************************************************************************)
EXTENDS Naturals, Sequences, FiniteSets

CONSTANTS
    Viewers,
    StreamIds,
    SubOf,          \* the id of a stream's sub profile, `<id>_sub`; itself if there is none
    Retries,        \* looks at the registry before a viewer gives up (40 in the build)
    MaxGateways,    \* bound: publishers in a run
    MaxWorkers      \* bound: ffmpeg processes in a run

ASSUME ViewerAssumption ==
    /\ IsFiniteSet(Viewers)
    /\ SubOf \in [StreamIds -> StreamIds]
    /\ {Retries, MaxGateways, MaxWorkers} \subseteq Nat

VARIABLES
    entries,        \* the registry: gateway and codec of an id; gateway 0 is none
    gateways,       \* publishers so far; their gateways are 1 .. gateways
    down,           \* gateways that were shut down
    pool,           \* the worker listed for an id, or 0
    workers,        \* the workers spawned so far, as a sequence of records
    viewing         \* per viewer: where its connection is and what it holds

viewerVars == <<entries, gateways, down, pool, workers, viewing>>

NotConnected == [at |-> "out", target |-> "none", h264 |-> FALSE, tries |-> 0, gateway |-> 0, worker |-> 0]

MoveTo(v, to) == viewing' = [viewing EXCEPT ![v].at = to]

\* The connection ends, whatever it held is given back.
Disconnect(v) == viewing' = [viewing EXCEPT ![v] = NotConnected]

\* StreamRegistry::register: a publisher's new gateway takes the id over.
Announce(id, codec) ==
    /\ gateways < MaxGateways
    /\ gateways' = gateways + 1
    /\ entries' = [entries EXCEPT ![id] = [gateway |-> gateways + 1, codec |-> codec]]
    /\ UNCHANGED <<down, pool, workers, viewing>>

\* unregister_if_gateway_matches, when the publisher of g leaves.  Its gateway
\* is not shut down.
Withdraw(id, g) ==
    /\ g # 0 /\ entries[id].gateway = g
    /\ entries' = [entries EXCEPT ![id].gateway = 0]
    /\ UNCHANGED <<gateways, down, pool, workers, viewing>>

\* AsyncStreamGateway::shutdown, by a program that embeds the engine.
ShutGateway(g) ==
    /\ g \notin down
    /\ down' = down \cup {g}
    /\ UNCHANGED <<entries, gateways, pool, workers, viewing>>

\* The WebSocket handshake and the request: the sub profile is taken if it is
\* registered at that moment.
ConnectViewer(v, id) ==
    /\ viewing[v].at = "out"
    /\ \E sub, h264 \in BOOLEAN :
           viewing' = [viewing EXCEPT ![v] = [NotConnected EXCEPT
               !.at = "lookup", !.h264 = h264,
               !.target = IF sub /\ entries[SubOf[id]].gateway # 0 THEN SubOf[id] ELSE id]]
    /\ UNCHANGED <<entries, gateways, down, pool, workers>>

\* One of the looks at the registry, 100 ms apart.  The entry decides between
\* transcoding and passing through.
LookUp(v) ==
    LET entry == entries[viewing[v].target]
    IN  /\ viewing[v].at = "lookup"
        /\ IF entry.gateway # 0
           THEN viewing' = [viewing EXCEPT ![v].gateway = entry.gateway,
                    ![v].at = IF entry.codec = "h265" /\ viewing[v].h264 THEN "pool" ELSE "subscribe"]
           ELSE IF viewing[v].tries + 1 < Retries
           THEN viewing' = [viewing EXCEPT ![v].tries = @ + 1]
           ELSE Disconnect(v)
        /\ UNCHANGED <<entries, gateways, down, pool, workers>>

\* gateway.subscribe() fails for a gateway that was shut down.
SubscribeViewer(v) ==
    /\ viewing[v].at = "subscribe"
    /\ IF viewing[v].gateway \in down THEN Disconnect(v) ELSE MoveTo(v, "watching")
    /\ UNCHANGED <<entries, gateways, down, pool, workers>>

\* The passthrough loop ends: the client goes, a send fails, or the gateway
\* was shut down.
StopWatching(v) ==
    /\ viewing[v].at = "watching"
    /\ Disconnect(v)
    /\ UNCHANGED <<entries, gateways, down, pool, workers>>

\* get_or_spawn, under the read lock: a listed worker that is alive ...
FindWorker(v) ==
    LET w == pool[viewing[v].target]
    IN  /\ viewing[v].at = "pool"
        /\ IF w # 0 /\ workers[w].running
           THEN viewing' = [viewing EXCEPT ![v].worker = w, ![v].at = "attach"]
           ELSE MoveTo(v, "spawn")
        /\ UNCHANGED <<entries, gateways, down, pool, workers>>

\* ... or, without a lock, a new one, if there is a GPU and ffmpeg starts.
SpawnWorker(v) ==
    /\ viewing[v].at = "spawn"
    /\ Len(workers) < MaxWorkers
    /\ workers' = Append(workers, [running |-> TRUE, process |-> TRUE, count |-> 0])
    /\ viewing' = [viewing EXCEPT ![v].worker = Len(workers'), ![v].at = "insert"]
    /\ UNCHANGED <<entries, gateways, down, pool>>

SpawnFails(v) ==
    /\ viewing[v].at = "spawn"
    /\ Disconnect(v)
    /\ UNCHANGED <<entries, gateways, down, pool, workers>>

\* Under the write lock it replaces whatever another viewer listed meanwhile.
InsertWorker(v) ==
    /\ viewing[v].at = "insert"
    /\ pool' = [pool EXCEPT ![viewing[v].target] = viewing[v].worker]
    /\ MoveTo(v, "attach")
    /\ UNCHANGED <<entries, gateways, down, workers>>

\* worker.subscribe() ...
Attach(v) ==
    /\ viewing[v].at = "attach"
    /\ workers' = [workers EXCEPT ![viewing[v].worker].count = @ + 1]
    /\ MoveTo(v, "transcoded")
    /\ UNCHANGED <<entries, gateways, down, pool>>

\* A bug: what is counted off is the worker listed now.
DetachListed(v) ==
    LET w == pool[viewing[v].target]
    IN  /\ viewing[v].at = "transcoded"
        /\ workers' = IF w = 0 THEN workers ELSE [workers EXCEPT ![w].count = IF @ = 0 THEN 0 ELSE @ - 1]
        /\ Disconnect(v)
        /\ UNCHANGED <<entries, gateways, down, pool>>

\* ... and unsubscribe(): every way out of the relay loop leads here.  The
\* channel never closes on a viewer, who holds the worker and its sender.
Detach(v) ==
    /\ viewing[v].at = "transcoded"
    /\ workers' = [workers EXCEPT ![viewing[v].worker].count = @ - 1]
    /\ Disconnect(v)
    /\ UNCHANGED <<entries, gateways, down, pool>>

\* ffmpeg ends: by itself, or at the end of its input, which is dropped with the
\* last reference to the worker.
ProcessExits(w) ==
    /\ workers[w].process
    /\ workers' = [workers EXCEPT ![w].process = FALSE]
    /\ UNCHANGED <<entries, gateways, down, pool, viewing>>

\* The watchdog task that waits for it.
Watchdog(w) ==
    /\ ~workers[w].process /\ workers[w].running
    /\ workers' = [workers EXCEPT ![w].running = FALSE]
    /\ UNCHANGED <<entries, gateways, down, pool, viewing>>

\* reap_idle_workers, under the write lock.  The build never calls it.
ReapIdle ==
    /\ pool' = [id \in StreamIds |->
           IF pool[id] # 0 /\ (~workers[pool[id]].running \/ workers[pool[id]].count = 0)
           THEN 0 ELSE pool[id]]
    /\ UNCHANGED <<entries, gateways, down, workers, viewing>>

ViewerInit ==
    /\ entries = [id \in StreamIds |-> [gateway |-> 0, codec |-> "h264"]]
    /\ gateways = 0 /\ down = {}
    /\ pool = [id \in StreamIds |-> 0]
    /\ workers = <<>>
    /\ viewing = [v \in Viewers |-> NotConnected]

ViewerNext ==
    \/ \E id \in StreamIds, codec \in {"h264", "h265"} : Announce(id, codec)
    \/ \E id \in StreamIds, g \in 1 .. gateways : Withdraw(id, g)
    \/ \E g \in 1 .. gateways : ShutGateway(g)
    \/ \E v \in Viewers, id \in StreamIds : ConnectViewer(v, id)
    \/ \E v \in Viewers :
           \/ LookUp(v) \/ SubscribeViewer(v) \/ StopWatching(v) \/ FindWorker(v) \/ SpawnWorker(v)
           \/ SpawnFails(v) \/ InsertWorker(v) \/ Attach(v) \/ Detach(v)
    \/ \E w \in 1 .. Len(workers) : ProcessExits(w) \/ Watchdog(w)
    \/ ReapIdle

ViewerSpec == ViewerInit /\ [][ViewerNext]_viewerVars

-----------------------------------------------------------------------------
(* Properties                                                              *)

ViewerTypeOK ==
    /\ entries \in [StreamIds -> [gateway : 0 .. gateways, codec : {"h264", "h265"}]]
    /\ down \subseteq 1 .. gateways
    /\ pool \in [StreamIds -> 0 .. Len(workers)]
    /\ viewing \in [Viewers ->
           [at : {"out", "lookup", "subscribe", "watching", "pool", "spawn", "insert", "attach", "transcoded"},
            target : StreamIds \cup {"none"}, h264 : BOOLEAN, tries : 0 .. Retries,
            gateway : 0 .. gateways, worker : 0 .. Len(workers)]]

Attached(w) == {v \in Viewers : viewing[v].at = "transcoded" /\ viewing[v].worker = w}

\* The reference count reap_idle_workers goes by is the number of viewers a
\* worker has (transcode.rs:174-182, 289-300; server.rs:218-249): also of a
\* worker that another viewer's replaced in the pool, that died, or that was
\* reaped while a viewer had it in hand.  So nobody's worker is reaped while it
\* works: a worker with viewers leaves the pool only for another one or dead.
CountsMatchViewers ==
    /\ [](\A w \in DOMAIN workers : workers[w].count = Cardinality(Attached(w)))
    /\ [][\A id \in StreamIds :
             pool[id] # 0 /\ Attached(pool[id]) # {} /\ workers[pool[id]].running => pool'[id] # 0]_viewerVars
=============================================================================
