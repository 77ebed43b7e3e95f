# Specifications of HydraStream

TLA+ specifications of HydraStream: what its components do, the properties that
make them correct, TLC configurations that check them on small instances, and
proofs, checked by TLAPS, that the safety properties hold for every value of the
constants. Paths below are relative to the root of the repository; engine files
(`shm.rs`, `rtmp/server.rs`, ...) are in `crates/hydra-engine/src/`.

## 1. The system

HydraStream takes camera streams in (RTSP, RTMP), and hands their frames out
again: to AI processes through POSIX shared memory, to browsers through
WebSockets. A **data plane** in Rust (`crates/hydra-engine`) moves frames. A
**control plane** in Go (`cmd`, `internal`) keeps the list of streams, starts and
stops ingests, and serves HTTP. A **Python SDK** (`sdk/python`) reads and writes
the shared memory.

### Data plane (Rust)

| component | state | operations | what is hard about it | what makes it correct |
|---|---|---|---|---|
| shared-memory ring, `shm.rs` | header (`write_sequence`, `notify_seq`), slots with header and payload; per reader `last_seen_seq` | `create`, `write_frame`, `read_latest_frame`, `wait_and_read_frame`, drop | no lock between processes, the writer laps readers, futex wait between two loads, files left by a crash | a frame is read whole, readers go forward, sleepers are woken |
| `HybridMutex`, `sync.rs` | one word: unlocked, locked, locked with waiters | `lock`, `unlock` | spinning, sleeping and barging threads | exclusion, no sleeper forgotten, a free lock is taken |
| semaphore, parking table, `sync.rs` | permits; buckets of wait entries | `acquire`, `release`; `park`, `unpark_all` | wake-up against timeout | permits conserved, parked threads woken, no stale entry |
| broadcast hub, `transport/hub.rs` | head, slots, futex, closed flag | `publish`, `close`, `wait_and_read`, `try_read_latest` | slots rewritten under a reader, filtered wake-ups, close against wait | the frame handed out is the one looked at, wake-ups reach who is interested |
| gateway, `gateway.rs`, `codec.rs`, `transport/peer_list.rs` | running flag, sender, cached keyframe, GOP counters, peer list; per session a channel position | `dispatch_frame`, `subscribe`, `recv_frame`, `shutdown`, session drop | subscribe overlapping dispatch and shutdown, bounded channel | fresh start, order, drained before closed, peers match sessions |
| RTMP sessions, `rtmp/{server,amf,video}.rs` | resolved id, gateway, writer per connection | publish command, video message, end of stream, error | several publishers of one id, errors half-way, restarts | the newest publisher is the one found; nothing is left behind |
| stream registry, `server.rs` | map id -> gateway | `register`, `unregister`, `unregister_if_gateway_matches`, `get` | shared by all connections | an entry belongs to a live publisher |
| RTMP chunks and handshake, `rtmp/{chunk,handshake}.rs` | per chunk stream: partial message | read and write messages | interleaved chunks, size changes | messages are reassembled per chunk stream |
| WebSocket viewers, `server.rs`, `wsp.rs` | session or transcode receiver per viewer | look-up, subscribe, relay | stream replaced under the viewer | a viewer ends when its stream does |
| transcode pool, `transcode.rs` | map id -> worker, subscriber counts | `get_or_spawn`, `subscribe`, `unsubscribe`, `reap_idle_workers` | check-then-act, counts | the count of a worker is its viewers, also when it was replaced |
| circuit breaker, `resilience.rs` | state, two counters, time stamp | `allow_request`, `record_success`, `record_failure` | four atomics changed one by one | an open circuit is probed in the end |
| sync bridge, `isolated.rs` | bounded channel, task | `subscribe_sync`, `recv_timeout`, `try_recv` | async task outliving its receiver | order kept, errors told apart |
| RCU cell, `transport/rcu.rs` | pointer | `load`, `update` | updates overlapping each other and loads | each superseded value is freed, once |
| actor, pipeline, decorators, governor, coroutine | mailbox, stages, frame-rate clock | record, ask, shut down; process, allow | recording without a reply, bounded mailbox | a handle reads its own writes |
| RTSP server and relay, `rtsp/*`, `main.rs` | relay map | start relay, serve | two broadcasts in a row that both overrun | no gap for who keeps up, the relay goes on while the camera does |
| C interface, `ffi.rs` | handles | wraps `shm.rs` | caller's buffer too small | as the calls it wraps |

### Control plane (Go) and SDK

| component | state | what is hard about it |
|---|---|---|
| `StreamService`, memory store (`internal/application/stream_service.go`, `memory_store.go`) | streams, ingests | register, delete and purge interleave between two calls |
| RTSP ingestor (`internal/adapters/secondary/ingest`) | sessions, a worker goroutine each | stop racing a reconnecting worker; nested read lock |
| database sync (`cmd/hydrastream/sync.go`) | none of its own | purges what the last query did not return |
| WHEP sessions (`stream_service_whep.go`) | session map; at the media server one session per POST it acts on | answers that are late, lost or without a location; calls nobody waits for; expiry only by the pruner |
| MJPEG and H.264 bridges (`stream_handler_mjpeg.go`, `stream_handler_h264_bridge.go`) | one process per stream | starts, stops, takeovers and ends of processes overlap |
| ring logger (`ring_logger.go`) | ring of entries, counters | id drawn before the lock |
| fragments (`fragment_repository.go`) | map and files | a file is rewritten while it is listed or served |
| camera probe (`probe_handler_{rtsp,onvif,helpers}.go`, `onvif/soap_client.go`) | none that lasts: two channels, a context, pictures on disk | a goroutine per port, a handler that waits one second, outcomes in any order |
| WS-Discovery (`onvif/ws_discovery.go`) | one list and the keys seen, under a mutex | a goroutine per network interface, the same camera heard by several, deadlines |
| motion detector (`vmd/cell_motion_detector.go`) | per stream: configuration, baseline, motion | a state is looked up under one lock section and used under the next |
| HTTP handlers, NATS, GPU, process helpers, telemetry, engine supervision | none or caches | I/O |
| Python reader / writer (`sdk/python/hydrastream`) | as `shm.rs` | second implementation of the ring |

### How they interact

An RTMP publish command creates a shared-memory file and a gateway and registers
the gateway under the stream id. Each video message goes into the ring of the
file and through the gateway into the hub and the channel of each session.
Viewers look the gateway up in the registry and subscribe. Readers in other
processes open the file by name and sleep on a futex word inside the mapping. The
Go side starts the engine, and asks it over HTTP and pipes.

`PROJECT.json` lists the components with the state of their modelling, and under
`hazards` what can go wrong in this code at which line and which property would
notice.

## 2. Modules

| module | models | against |
|---|---|---|
| `ShmRing` | one file, one writer, any number of readers | implements `FrameFeed` |
| `HybridMutex` | the mutex | implements `Lock` |
| `BroadcastHub` | hub, one publisher, waiters, close | implements `FrameFeed` |
| `Gateway` | dispatch, subscribe, sessions, shutdown, GOP tracker, peer list | implements `FrameFeed` |
| `RtmpIngest` | connections, registry, files, restart of the engine | |
| `ChunkStream` | RTMP chunks: a publisher that interleaves, the reader | the messages sent |
| `ViewerSession` | WebSocket viewers over the registry, the transcode pool | |
| `NalSplitter` | the reader of ffmpeg's output, NAL classification | the output, cut at start codes |
| `RtspRelay` | ingest task, forwarder, players of the relay command | |
| `Semaphore`, `ParkingTable`, `RcuConfig`, `CircuitBreaker` | one primitive each | |
| `SyncBridge`, `GopActor` | a task and its callers | |
| `RtspIngestor` | session map, workers, reconnects, events, start and stop | |
| `StreamService` | register, delete and database sync over the store and `RtspIngestor` | implements `RtspIngestor` |
| `H264Bridges` | bridge processes and MJPEG readers of the HTTP handlers | |
| `WhepSessions` | offers, candidates, deletes, pruner, the media server's side | |
| `RingLogger`, `Fragments` | the log; recordings on disk | |
| `CameraProbe` | one probe of a camera: handler, background scan, `ProbeDevice` | |
| `WsDiscovery` | one WS-Discovery: a goroutine per interface, the list | |
| `MotionDetector` | states per stream under two lock sections a call | |
| `EngineParts`, `ControlParts` | the small modules of each plane, side by side | |
| `FrameFeed`, `Lock` | abstract specifications | |
| `MC...` | values of the constants for TLC | |
| `...Proofs` | theorems and proofs; those of the small modules are in `EngineProofs` and `ControlProofs` | |

Conventions. A variable has the name of the field or local it stands for; a
variable ending in `pc` is where a thread is. A step is one access to shared
state: an atomic operation, a copy of one cell, a system call, or what is done
under one lock. Data is reduced to what the properties tell apart: a frame is its
number, a mask a set of kinds. A definition under a comment that begins *A bug*
is not part of any specification. Put in the place of the definition that
follows it, it makes a named property fail; `PROJECT.json` says which, under
`mutants`.

**ShmRing.** `BeginFrame`, `WriteCell`, `Publish`, `BumpNotify`, `WakeAll` are the
stores of `write_frame` in their order (slot header, payload, `write_sequence`,
`notify_seq`, futex). A payload is a set of cells copied in any order, each
keeping the number of the frame it was written for; a mixture of two frames is
visible. `Check`, `TimedOut`, `LoadNotify`, `FutexWait` are the loop of
`wait_and_read_frame`, `Load`, `ReadHeader`, `ReadCell`, `Return` the body of
`read_latest_frame`. `PyReaders` run the copy of that body in `reader.py`.
Futex waits may end spuriously (`Interrupted`).

**HybridMutex.** `LockFast`, `Spin`, `Retry`, `SwapIn`, `FutexWait` in `lock`, then
`Unlock` and `WakeOne`. A woken thread swaps again, as in the loop.

**BroadcastHub.** `publish` drops the old payload, writes the new one, stamps the
slot, moves the head, bumps the futex word and wakes by mask. A waiter that clones
a payload while it is dropped or rewritten is in undefined behaviour: it may get
either frame, or go to `"undefined"`, where it is not followed. The futex word is
the history of the masks it was bumped for, so that "should have been woken" can be
said; the code only compares its value. `close` is a thread of its own.

**Gateway.** `dispatch_frame` records the GOP, caches the keyframe, publishes to
the hub and sends, four steps; `shutdown` three; `subscribe` four, then
`recv_frame` and the drop of the session. The tokio channel is modelled from its
use: message *n*, the last `Capacity` retained, a receiver is a position.

**RtmpIngest.** One process per connection. The publish command is five steps
(open and truncate the file, extend and map it, store the writer and drop the old
one, register, respond), each of which can be interleaved with another
connection's; opening or extending can fail. A connection ends by end of stream
or by an error, which skips the unregistering. Files are inodes with a name;
`Unlink` removes the name, whatever it leads to. `Crash` restarts the engine:
registry and sessions are gone, files stay. A store into a file somebody has just
truncated is a bus error, which is a crash.

**RtspIngestor.** A session has a worker. `Loop`, `Dial`, `StoreConn`, `Played`,
`Establish`, `Announce`, `Demux`, `ReadPacket` follow `connectAndDemuxRTSP`; the
requests up to PLAY are one step, since nothing shared changes during them, and
the camera may never answer. `ConnectionFails` is any of the error returns, a
connection closed by `StopIngest` included; `NoteError`, `Report`, `StartPump`,
`EndPump` are the rest of the loop of `runWorker`. `StopIngest` is three steps:
take the session from the map, cancel, close the connection there is.
A publisher is taken to be there; without NATS there are no events to speak of.

**StreamService.** EXTENDS `RtspIngestor`, and calls its operators where the code
calls the ingestor. Each caller (an HTTP request, the sync loop) is a goroutine;
a call is a step per lock it takes: `Save` and `Start` for `RegisterStream`, `Take`,
`Cancel`, `Close`, `Delete` for `DeleteStream`. `Query`, `RegisterNext`, `List`,
`PurgeNext`, `EndPass` are `syncOnce`, with `activeDBIDs` its local map. ONVIF import
and the publish request register as `Post` does. `syncEngineStream` and
`deleteEngineStream` are empty functions. The ingest of the seed, which the
constructor starts before any caller exists, is a step of the sync loop (`Boot`).

**ViewerSession.** A connection is a record: where it is, what it looked up, the
gateway and the worker it holds. `ConnectViewer`, `LookUp` (up to forty times),
`SubscribeViewer`, `StopWatching` are the pass-through of `handle_connection`;
`FindWorker`, `SpawnWorker`, `InsertWorker`, `Attach`, `Detach` the transcoded one,
in which looking a worker up, spawning it and listing it are separate steps, as
the locks of `get_or_spawn` are. `Announce` and `Withdraw` are the registry under
publishers that come and go; a gateway is `Gateway` seen from outside.
`reap_idle_workers` has no caller in this build and is a step all the same; so
has `feed_input_frame`, without which ffmpeg gets no input.

**NalSplitter.** The output of ffmpeg is a sequence of bytes that arrives in reads
of any length; `Cut` is one turn of the loop over start codes. A first read of
fewer than four bytes panics (`transcode.rs:215`) and ends the reader. `before` is
a history variable: how many bytes came ahead of the current start of the buffer.

**RtspRelay.** A broadcast is what was sent and, per receiver, a position; a
receiver more than the capacity behind is told so. `ForwarderLags` ends the
forwarding task, `PlayerLags` goes on with the oldest packet retained, as the code
at the two places does.

**ChunkStream.** The publisher sends the next chunk of a message on any chunk
stream and the reader reads it in the same step, since it depends on the order of
the bytes and on nothing else. `ReadChunk` is the whole of `read_rtmp_message`: the
four header formats, the bytes collected per chunk stream, the message returned,
and the new chunk size the session takes from it.

**Semaphore, ParkingTable, RcuConfig, CircuitBreaker.** One step per atomic access
or futex call. Weak exchanges may fail for no reason, waits may end for none. An
entry of the parking table is the thread and the number of its call, so the one a
time-out leaves behind differs from the next. A box of `RcuConfig` is a number.
The breaker's clock is the time since its stamp, up to the cool-down.

**SyncBridge, GopActor.** The session behind a bridge gives frames with growing
numbers and ends at any moment. The actor's mailbox is a bounded queue; `Ask`
leaves a caller waiting until `HandleAsk`, or the end of the loop, answers it.

**H264Bridges.** A request that starts a bridge marks its id (`StartBridge`), cancels
the readers of the camera, finds a source or not, kills orphans, spawns, lists the
process, and takes the mark off, which lets the waiting ones go; the lock is not
held in between. A goroutine per process reaps it. A stop, MJPEG and a snapshot
that falls back on MJPEG take a bridge down under the lock. Orphans are killed
by a wildcard that also matches the sub stream, and only where `powershell` runs.

**WhepSessions.** An offer asks the media server twice, at the address of the stream
and at that of its sub stream, so a session of the media server is an offer and an
address. `PostFails` is a POST that was refused, or given up after four seconds or
because the client had gone; of one given up the media server may still make a
session (`late`, `UpstreamOpensLate`), whose answer nobody reads. `PostAnswered` ends
the attempts: with a Location the session is known here (`upstream`), without one
there may be a session that nobody can name. `Delete` and `Patch` start a goroutine
whose call reaches the media server or not (`CallReturns`); a DELETE that does not is
never repeated (`lost`). The pruner removes what expired and does not tell the media
server. `UpstreamIsOwned` is about the sessions whose location came back, for nobody
can find the others again; that these stay open is among the divergences of section 3.

**RingLogger, Fragments.** `RecordLog` takes number and totals before the lock, one
step each; the two queries are operators, and the property is about what they
answer. What a query returns is a set of positions of the ring and the order they
are read in (`Newest`). An upload truncates and writes its file under the lock and publishes its
event afterwards; a download looks the fragment up under the lock and opens the
file later. A DELETE of a fragment answers 204 and changes nothing
(`fragment_handler.go:237`).

**CameraProbe.** `HandleProbeStream` hands the request to the handler of its
protocol. `ProbeRTSP` starts `autoScanONVIF`, which runs on when the handler has
stopped waiting for it (`AwaitScan`); the scan starts a goroutine per port
(`ScanStart`), takes their outcomes in any order (`Collect`), and puts one device
into `onvif_chan` (`Deliver`). `resChan` and `onvifChan` are bounded, as in the code,
so a goroutine that has something to say may have to wait. `ProbeDevice` is one
call, by a goroutine of the scan or by `probeONVIF`: port 80 goes on to other ports,
everything after `GetDeviceInformation` has a default, the picture is asked for
by address, with Digest, and from RTSP. Its answers stop when the context ends
(`ContextEnds`), not its work. Device, picture and files of a probe are in the
state; makes, models and stream addresses are not.

**WsDiscovery.** `StartDiscovery` starts the goroutines; each binds and asks, and then
checks, reads and parses until the deadline, the client or an error of its socket
ends it. The list is locked, looked at, marked, appended to and unlocked in steps
of their own, so that the mutex is what keeps them together. An answer without
XAddrs is passed over; for one whose XAddrs is blank, `strings.Fields(...)[0]`
(`ws_discovery.go:197`) has no element, and the process ends (`"panicked"`).

**MotionDetector.** `getOrCreateState` is a section of the lock and what is done with
its result another, so a `Reset` may come between them and the call goes on with a
state that is no longer in the map: `ApplyConfig`, `TakeBaseline`, `CompareFrame`.
`resets` and `in_force` are history: which configuration a caller of `GetConfig`
should see. Two configurations may share a grid; only then is a baseline of one
comparable with a frame under the other.

The data-plane modules are deliberately not composed into one: `ShmRing` is what happens
inside one file of `RtmpIngest`, `Gateway` inside one of its gateways, and the hub
inside a gateway has no waiter in this build other than tests.

## 3. Runs

Invariants are checked by TLC over all states of the instance; `violation` runs
show that the code does not do what a comment or document says.

| run | instance | checks |
|---|---|---|
| `shm_frames` | 2 slots, 3 frames, 2 cells, futex word of 3 values, an engine and a Python reader | a read that was not lapped returns one frame (`IntactUnlessLapped`); readers move forward (`ImplementsFeed`); nobody sleeps on an old futex value without a wake-up under way (`SleepersWillBeWoken`); a sleeper gets the next frame (`PublishReachesSleepers`) |
| `shm_torn` | the same ring, one reader | *violated*: `HandsOverOneFrame` |
| `shm_lost_wakeup` | one frame | *violated*: `BlockingReadReturns` |
| `hub` | 2 slots, 3 frames, 1 waiter, 2 kinds | `SoundUnlessLapped`, `ImplementsFeed`, `CloseReleasesSleepers` |
| `gateway` | channel of 2, 3 frames, a client that comes back | `StartsFromFreshKeyframe`, `ClosedWhenDrained`, `ImplementsFeed`, `RetainedFramesArrive`, `ShutdownEndsSessions` |
| `rtmp_ingest` | 2 connections, 3 publish commands, ids `""` and `"cam"`, 2 files, 2 lives | `NewestStaysRegistered`, `CleanEndLeavesNothing`, `NoFileWithoutWriter`, `SolePublisherIsFound` |
| `stream_service` | the seed and a camera, an HTTP caller and the sync loop, 2 sessions | a stream in the store is ingested or a call is about to see to it (`StreamsAreIngested`); the store follows the database (`DatabaseIsMirrored`) |
| `engine_parts` | see below | eleven properties of the small engine modules |
| `control_parts` | see below | eleven properties of the small modules of the control plane |
| `relay_lag` | channels of 2, 4 packets | *violated*: `SourceIsForwarded` |
| `second_outage` | 1 camera, 2 callers, 2 sessions | *violated*: `OutagesAreTold` |
| `service_orphan` | as `stream_service` | *violated*: `IngestsAreListed` |

`engine_parts` and `control_parts` check small modules that share no state side by
side. Exploring their product would say nothing more, so a variable `subject`,
chosen in the initial state and never changed, names the module whose steps a
behaviour takes; the others keep their initial state. Each module's own reachable
states are all visited, and its fairness condition is required of it when it is
the subject. What they check:

| module | instance | property |
|---|---|---|
| `HybridMutex` | 3 threads, 1 spin | `ImplementsLock`: one owner at a time, given up by its owner, and a free lock somebody waits for is taken |
| `Semaphore` | 3 producers, 2 permits | `SemaphoreSound`: permits are conserved, and nobody sleeps on a free one unless about to be woken |
| `ParkingTable` | 2 threads that park twice, 2 that unpark, 1 key | `ParkedAreNotForgotten`: whatever time-outs leave behind |
| `RcuConfig` | 3 threads, 3 boxes | `EachBoxFreedOnce` |
| `CircuitBreaker` | 2 callers, thresholds 2, cool-down 2 | `OpenIsProbed`: an outage does not last for ever |
| `SyncBridge` | channel of 2, 4 frames | `BridgeKeepsOrder` |
| `GopActor` | 2 handles, mailbox of 2, 3 frames | `AskedAfterTold`: a handle reads its own writes |
| `ChunkStream` | 2 chunk streams, messages of up to 3 bytes, chunk sizes 1 to 3 | `Reassembles` |
| `NalSplitter` | every output of a start code and three of four tokens, reads of up to 5 bytes | `SplitIgnoresReads`: the units do not depend on the reads |
| `ViewerSession` | 2 viewers, a stream and its sub stream, 1 publisher, 2 workers | `CountsMatchViewers`: the count the pool reaps by |
| `RtspRelay` | 2 players, channels of 2, 4 packets | `GapsOnlyForLaggards` |
| `RtspIngestor` | 1 stream, 2 callers, 2 sessions, cameras and synthetic sources | `NoWorkerForgotten`: every running worker can still be stopped or has been; `EventsTellState`: events agree with the camera; `StoppedWorkersEnd` |
| `H264Bridges` | 2 requests, a camera and its sub stream, 2 processes, with and without `powershell` | `BridgesAreListed`: a process that runs is listed or about to be (a stop in between misses it); `StartersAnswer` |
| `WhepSessions` | 2 requests, 2 offers | `UpstreamIsOwned`: a session of the media server whose location came back is with its offer, listed, being deleted or expired |
| `RingLogger` | 2 writers, capacity 2, 4 entries | `LogKeepsNewest` |
| `Fragments` | 2 uploaders, 1 downloader, 1 fragment, 3 uploads | `FragmentsAreWhole` |
| `CameraProbe` | port 80 and one more to scan, which is also its alternative | `ScanHearsEveryPort`: no service is reported only if every port said so, and who reports late can end |
| `WsDiscovery` | 2 interfaces, 2 cameras, 3 answers | `EachCameraListedOnce`: each camera heard of is in the list, once |
| `MotionDetector` | 2 callers, 1 stream, 2 configurations, 2 states, 1 reset, 1 tick of the clock | `ConfigsTakeEffect`: an overtaken call undoes nothing, and motion is seen against a baseline of the configuration in force |

Type invariants are theorems (section 4), and so are invariants that earlier were
runs of their own: readers never go back (`ShmNeverStale`), a sleeper on the mutex
is remembered, the hub wakes whom a frame concerns and nobody else
(`HubSelectiveWake`), peers are sessions, the GOP tracker agrees.

Why these bounds are enough to be interesting. With two slots, frame 3 reuses the
slot of frame 1, so a lap happens, and three frames let a lap meet each point of a
read. The futex word of three values wraps. Readers of a ring share nothing
they write, so two (one of each kind) are enough; likewise one waiter of the hub
and one client of the gateway, where two client ids let it return while its former
peer node is still in the list. Three threads give the mutex an owner, a sleeper
and one that barges in. Two connections and three publish commands let one
publish twice between two steps of the other; the empty id is the one the code
treats as "none yet" (`rtmp/server.rs:120`); two lives leave files of an earlier
run behind. Connections are interchangeable, so `rtmp_ingest` uses symmetry (it
checks invariants only). Two sessions let the worker of a stopped session live on
while its successor starts; two callers can stop one stream while another starts
it. `stream_service` has synthetic sources only, as every stream the sync loop
registers has (`mjpeg_and_wsp`, `sync.go:70`); cameras are covered by `control_parts`,
whose specification the service is proved to keep. In the small modules two
threads, requests or writers are what the property needs, an overtaken one and one
that overtakes; capacities of 2 fill, threshold and cool-down of 2 have a state in
between, two workers and two processes let one replace the other, three updates
let one replace a box another update has just put in. Reads of up to five bytes
cut a start code at each of its bytes, with reads that bring several codes at once.
The forty look-ups of a viewer are two: they differ in nothing. Two ports to scan
give an outcome that is the last and one that is not, and let one goroutine report
after the other's device has ended the scan. Three answers at two interfaces let
one camera be heard twice while another is being listed. With one reset and two
states a call can hold the state of before while a new one is in the map; the two
configurations have one grid, since a baseline of another grid is dropped anyway.

Deadlock is checked in the ring runs, where an idle reader can always call, and in
`stream_service`, whose callers can always call. It is not in the others, where
everything may legitimately end: the hub closed, the gateway down and the client
gone, all connections ended, the bounds of a small module reached.

### What the violation runs show

* `shm_torn`: a reader that is lapped during the copy returns a mixture; the code
  does not look at the header again (`shm.rs:307`; `README.md:257` of the
  repository).
* `shm_lost_wakeup`: `notify_seq` is loaded after the check (`shm.rs:339`), so a
  frame published in between leaves the reader asleep until the next one
  (`shm.rs:313`).
* `relay_lag`: the forwarder of the relay is `while let Ok(pkt) = fwd_rx.recv().await`
  (`rtsp/cli.rs:169`), so a burst of more than the 512 packets the broadcast retains
  ends it; the ingest task goes on, the stream stays listed, and its players wait.
* `second_outage`: `loggedErr` is not reset when a camera comes back
  (`rtsp_worker.go:35`), so its next outage publishes nothing, and "online" stays
  the last word.
* `service_orphan`: a registration saves its stream, a deletion finds no ingest to
  stop, the registration starts one, and the deletion removes the stream
  (`stream_service.go:124-135`). The ingest runs on; neither DELETE nor the purge
  finds it, since both go by the store (`sync.go:77`). Registering the stream
  again and deleting it does.

Some divergences have no run:

* After an overrun a gateway session goes on with the *oldest* retained frame
  (`gateway.rs:157`; the comment at line 148 says the latest).
* `wait_and_read` of the hub looks at the newest frame only, so a matching frame
  that one of another kind overtakes does not end the wait (`transport/hub.rs:100`,
  comment at line 92). The hub has no waiter outside tests.
* An MJPEG reader that was replaced deletes the entry of its successor when it ends
  (`stream_handler_mjpeg.go:70`); a later stop does not find that one. It ends with
  its client.
* A caller that waits for another start of a bridge is told `already_running` also
  when that start failed (`stream_handler_h264_bridge.go:98`).
* DELETE of a fragment answers 204 and deletes nothing; `FragmentRepository.Delete`
  has no caller.
* A DELETE of a WHEP session, "egress session teardown" (`README.md:134` of the
  repository), can leave a session open at the media server. When the first POST is
  given up after four seconds and the media server opens its session late, while
  the second POST is answered, only the second location is kept
  (`stream_service_whep.go:41-60`) and only that one is ended (124-150). When the
  client goes, or an answer has no Location, none is kept, and the DELETE ends
  nothing there. `WhepSessions` has these steps; `UpstreamIsOwned` excludes the
  sessions without a location.
* The pruner of WHEP sessions sends the media server no DELETE, and a DELETE that
  fails is not repeated (`stream_service_whep.go:141`, 157-166).
* `RcuConfig::update` frees the old box at once, also under a `load` that has read the
  pointer and not yet cloned (`transport/rcu.rs:23`): a use after free. `RcuConfig` has
  the state and says nothing of what such a load returns; nothing in the build updates
  a configuration that others read.
* Dropping a writer removes the name it was made under, also when that is the file
  of its successor by now (`shm.rs:227`): the successor goes on and new readers do not
  find it. `SolePublisherIsFound` is about ids that have one publisher.
* A waiter of the hub that found it open (`transport/hub.rs:96`) and loads the futex
  word after `close` has bumped it (lines 122, 149) sleeps on.
  `CloseReleasesSleepers` is about those who slept before.
* A chunk of format 3 whose message has an extended timestamp carries four more bytes,
  which `read_rtmp_message` takes for payload (`rtmp/chunk.rs:107`). `ChunkStream` has
  messages without one.
* A call that meets OPEN before its timestamp is stored goes to half-open at once
  (`resilience.rs:92`); `OpenIsProbed` does not exclude it.
* A read error of a publisher skips its unregistering (`rtmp/server.rs:103`).
* A viewer that asks for H.264 of an H.265 stream gets a worker nobody feeds:
  `feed_input_frame` has no caller.

### Fairness

Only what the scheduler and the code guarantee. A thread inside a call is
scheduled (weak fairness of its next step); nobody has to begin one: frames,
calls, `lock`, `close`, `shutdown`, `subscribe`, leaving and interruptions are
choices. `ShmRing` gives weak fairness to the writer's steps after `BeginFrame`
and to each reader that can run, timeouts apart; a sleeping reader cannot run.
`Gateway` also assumes that the owner of a session keeps calling `recv_frame`, as
the loop at `server.rs:271-294` does. `RtmpIngest` has no liveness property and
assumes nothing, like the small modules not named here. `CircuitBreaker` assumes
that time passes, that calls go on and that requests keep arriving; nobody has to
call `reset`. A start of `H264Bridges` goes on until it ends: what it waits for
(cancelling, spawning) returns. A worker of `RtspIngestor` goes on until it waits for its camera,
and a read of a connection closed here returns; the camera need not answer. In
`StreamService` calls are finished and the ticker goes on. `Start` gets strong
fairness because `StartIngest` waits for nothing: only the bound on sessions can
hold it up, and sessions are freed as workers end.

## 4. Proofs

The theorems hold for every value of the constants that satisfies the named
`ASSUME` of the module (a positive number of slots or retained messages, natural
bounds, masks that are sets of kinds). They are about the safety part `Spec`.

* **ShmRingProofs.** `IntactUnlessLapped` and `NeverStale` are not inductive: what
  a read returns depends on what the slot held when it was copied. `RingInv` says
  which frames a slot can hold: the slot of a frame that was begun is *covered* by
  that frame or by a later one of the same slot (`Covers`), cell by cell, and a
  reader's copy is covered by the frame it looked up. Two frames of one slot are at
  least `Slots` apart (`SlotsDiffer`), so a cover other than the frame itself means
  a lap. `ShmSleepersWillBeWoken` needs the type invariant only.
  `ShmImplementsFeed` maps `Return` to `Take` and `BeginFrame` to `Produce`.
* **BroadcastHubProofs.** `HubInv` follows a slot through drop, write and stamp
  (`SlotInv`) and a waiter through look-up, mask test and clone (`WaiterOK`).
  The lap is the distance between the publisher and the head the waiter loaded.
  `HubSelectiveWake` has two halves: `NoWakeUpMissed` is inductive with the type
  invariant, and `WakesTheInterested` is a property of each step.
* **GatewayProofs.** `GatewayInv` ties the cache to the frames dispatched
  (`DispatchInv`), the tracker to the cache (`GopInv`), the shutdown's progress to
  the two flags, and each session to its receiver. Keyframe freshness rests on the
  order *take the receiver, then read the cache* against *fill the cache, then
  send*.

* **RtmpIngestProofs.** `IngestInv` says that a registration is the newest of its
  stream (`RegistryInv`), that a session's gateway is the last it made
  (`GatewayOK`), and that the id it resolved is one it published (`ResolvedOK`).
  So a session that ends removes its own registration or none, and
  `IngestNewestStaysRegistered` and `IngestCleanEndLeavesNothing` follow. Names
  lead to files of their own (`NamesInv`), which is why truncating one stream's
  file cannot disown another's (`FileInv`, `IngestNoFileWithoutWriter`). The
  lemmas of the section *What a step can change* leave each part of the
  invariant only the actions that can disturb it.
  `SolePublisherIsFound` says what a reader finds behind a name, so it needs
  who truncated a file last. `SoleInv` follows a publisher that is alone with its
  stream from its publish command on (`SoleOK`): the file it truncated and extended
  keeps its name and holds what its writer wrote, since nobody else has a writer of
  that stream (`NoOtherWriter`, `OthersKeepFile`) and a writer keeps to the stream
  and the file it was made for (`WriterOK`). `SoleBefore` carries *alone* from after
  a step to before it: whoever is alone was so already, unless it has just begun
  to publish or the engine was restarted.

* **RtspIngestorProofs.** `NoWorkerForgotten` is inductive once no session is listed
  for two streams (`ListedOnce`): a session taken from the map is then listed no
  more. `EventsTellState` needs that whoever logged an error has published
  something, and that a worker pumps for a camera only after it has
  (`ErrorsLogged`).
* **StreamServiceProofs.** Every step of the service is a step of the ingestor or
  leaves it alone (`ServiceUsesIngestor`), so the invariants of the ingestor hold
  in the service without being proved again. `StreamsAreIngested` is inductive
  with the type invariant and the fact that the seed comes first: it rests on
  the order of the code, save before start and stop before delete.

* **EngineProofs** and **ControlProofs** hold the theorems about the small modules.
  Most invariants need little more than their own statement: `MutexInv` is type,
  exclusion and *a sleeper is remembered in the word*, and each step is one of
  `Lock` or a stutter (`MutexImplementsLock`); `RcuInv` adds that a call with a box
  in hand keeps the configuration alive; `SemaphoreInv` counts the holders as they
  enter and leave; in `ParkingInv` an unparker that stored 1 stored it to the entry
  in front of it; `BridgeInv` bounds what the receiver got by what the session
  gave; `RelayInv` places a client between where it came in and the end, the rest
  is that a gapless stretch is known from its first packet. These need an argument:
  * `HandlesReadTheirWrites` (actor): the keyframe a handle has told is either the
    actor's latest or overtaken by it, or still in the mailbox ahead of every request
    of that handle (`ToldAhead`), and the mailbox is served in order. Records stand in
    the mailbox in the order of their numbers (`RecordsOrdered`), and a request is in
    it once, for as long as its handle waits (`AsksAwaited`).
  * `ChunksReassemble`: what the reader keeps for a chunk stream is a beginning of
    the message the publisher is in the middle of on it. The bytes of a message
    are an interval (`PayloadIs`), and intervals join (`BetweenJoined`).
  * `SplittingIgnoresReads`: the splitter and the output cut as a whole agree on
    boundaries although the splitter sees a prefix only. `BoundaryIs` characterises
    the next start code as the least position with a property, which exists by
    well-foundedness (`NatLeast`), and `BoundaryStays` says that bytes read later do
    not move it.
  * `WorkersCountViewers` (`ViewerInv`): the count of a worker is the number of
    viewers that hold it, counting one viewer at a time; reaping takes workers
    whose count is zero, so it takes none from a viewer (`ReapingSpares`).
  * `BridgesInv`: the mark of a start admits one start per id (`OneStart`) and
    nothing is listed under that id until it lists its process, so listing never
    overwrites a live one; takeovers and stops kill what they take off the list
    (`BridgesKilled`); and a process is listed under its own id only (`OwnIds`), so
    that the goroutine that waits for one takes no other's entry.
  * `WhepInv`: an id is drawn once (`DrawnOnce`), is with one request until that one
    lists it, and never comes back. Each address is asked once, so a session that
    may still open late has no location and never gets one (`AskedOnce`): what opens
    late is none of the sessions the property is about, and what a DELETE has ended
    does not open again.
  * `FragmentsInv`: numbers of uploads only grow (`UploadsOrdered`), and who writes a
    file holds the lock and is the last upload (`WriterIsLast`), so a file is torn
    only by an upload later than the one that is listed.
  * `LoggerInv`: the ring is the tail of the history of appended entries (`RingIsTail`);
    the totals are what was appended and the number of writers that have counted
    and not yet appended (`TotalsAgree`); a number is with one writer or one entry
    (`NumbersDiffer`).
  * `ProbeInv`: the outcome of every port is with its goroutine, in the channel or
    among those heard, and in one of these places only (`OutcomesAccounted`), so the
    channel has room for who has yet to send, and as many outcomes heard as there
    are ports are those of all ports (`LastPort`).
  * `DiscoveryInv`: only the holder of the mutex is between look-up and unlock
    (`HoldersListen`), the keys seen are those listed and the one being listed, and
    each key heard is listed or at hand of a goroutine (`KeysAccounted`), of which
    none is left when the discovery returns.
  * `MotionInv`: a state is in the map of one stream at most, a call that no reset has
    overtaken holds the state in the map (`HeldStates`), and a baseline that is there
    was taken under the configuration of its state (`BaselinesAreCurrent`).

  `EnginePartsCorrect` and `ControlPartsCorrect` carry these over to the compositions
  that the runs check: a step of `PartsNext` is a step of one part and leaves the
  others alone (`EngineStepIs`, `ControlStepIs`), so the invariants that
  `EngineParts.cfg` and `ControlParts.cfg` list and the type invariant `PartsTypeOK`
  hold together.

Every safety invariant and every action property of the runs that pass is a
theorem. Only model-checked are the liveness properties (`PublishReachesSleepers`,
`CloseReleasesSleepers`, `RetainedFramesArrive`, `ShutdownEndsSessions`,
`StoppedWorkersEnd`, `StartersAnswer`, `OpenIsProbed`, `DatabaseIsMirrored`, and the
progress part of `ImplementsLock`), since TLAPS does not reason about fairness and
`ENABLED`; of `CircuitBreaker` the type invariant is proved, its one property is
such a one. What a fold or a recursive function computes cannot be expanded in a
proof either. Two models are therefore stated without one where they could have
used one: the splitter carries its position as history (`before`), and the queries of
the logger are sets of positions (`Newest`).

## 5. What is not modelled

* Without protocol state of their own: HTTP routing and authentication, NATS, GPU
  probing, the RTMP handshake and AMF, WSP framing,
  RTSP parsing, ffmpeg command lines, telemetry, the fault page, supervision of
  the engine. What they call of the modelled parts is in those parts.
* Without a caller outside tests: the frame-rate governor, pipeline, decorators and coroutine, `TranscodeWorker::stop`, `FragmentRepository::Delete`. (The motion detector has
  none either; it is modelled for its locks, which promise that it may be shared.)
* The C interface, which forwards to `shm.rs`.
* Weak memory. Every atomic the models interleave is used with Acquire/Release (or
  on one word), which orders what the properties relate. The payload copies of
  the ring and the hub race by design; there the value read is a choice.
* A reader that keeps a mapping across the truncation of its file; the Python
  writer, which writes the same format but never touches `notify_seq`.
* Time. A timed wait may end whenever its thread is at the clock; that
  `FUTEX_WAIT_BITSET` is given a duration where it takes a point in time
  (`transport/futex.rs:88`) costs processor time, not results.
* Resources: the peer list's nodes are never freed; no property depends on it.
* In the control plane: `UpdateConsumer`, which changes a field of a stored stream;
  the five hundred streams the purge looks at; URL and tenant of a stream (a
  session that exists is kept whatever source it is registered with again).
  `StoppedWorkersEnd` excepts a worker that stores its connection after
  `StopIngest` has looked for one (`rtsp_client.go:51`) and whose camera never
  answers: there is no read deadline, and nobody is left to close it.
* Of the probe: what is in an answer beyond the port of the device and a picture;
  that `HandleProbeStream` overlaps with another probe of the same camera, which
  writes the same files. Of the discovery: which probes are sent where. Of the motion
  detector: the arithmetic on cells, of which only *motion or none* is left.
* Frames larger than a slot and offsets beyond the mapping, which
  `write_frame` refuses before it changes anything a reader can see.

## 6. Plan

Done, in this order: ring, mutex, hub, gateway, RTMP ingest, Go ingestor, stream
service, with their proofs; the small modules of engine and control plane and the
proofs of their safety properties, then the compositions of both; probe, discovery
and motion detector with theirs.

Next:

1. The truncation of a file under a reader that keeps its mapping (`ShmRing` inside
   `RtmpIngest`): `write_sequence` starts again at 0 below what the reader has seen.
2. The sample list and the counters of `stream_service_telemetry.go`, which several
   goroutines touch.
3. The MJPEG reader that deletes the entry of its successor, as part of
   `H264Bridges`.
