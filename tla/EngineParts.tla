---------------------------- MODULE EngineParts ------------------------------
(***************************************************************************)
(* The parts of the engine that share no state with each other, side by    *)
(* side: `subject`, chosen at the start, is the part whose steps are       *)
(* taken; the others stay as they are at the start, where their invariants *)
(* hold.                                                                   *)
(***************************************************************************)
EXTENDS HybridMutex, Semaphore, ParkingTable, RcuConfig, CircuitBreaker, SyncBridge,
        GopActor, ChunkStream, NalSplitter, ViewerSession, RtspRelay

VARIABLE subject

\* The parts in three groups.
locks   == <<vars, semaphoreVars, parkingVars, rcuVars>>
calls   == <<breakerVars, bridgeVars, actorVars>>
streams == <<chunkVars, splitterVars, viewerVars, relayVars>>
parts   == <<locks, calls, streams, subject>>

\* The output of ffmpeg and the age of the circuit only matter to their part.
PartsInit ==
    /\ subject \in {"mutex", "semaphore", "parking", "rcu", "breaker", "bridge",
                    "actor", "chunks", "splitter", "viewers", "relay"}
    /\ Init /\ SemaphoreInit /\ ParkingInit /\ RcuInit
    /\ BreakerInit /\ BridgeInit /\ ActorInit
    /\ ChunkInit /\ SplitterInit /\ ViewerInit /\ RelayInit
    /\ subject # "splitter" => output = CHOOSE o \in Outputs : TRUE
    /\ subject # "breaker" => age = 0

LocksNext ==
    /\ UNCHANGED <<calls, streams, subject>>
    /\ \/ subject = "mutex" /\ Next /\ UNCHANGED <<semaphoreVars, parkingVars, rcuVars>>
       \/ subject = "semaphore" /\ SemaphoreNext /\ UNCHANGED <<vars, parkingVars, rcuVars>>
       \/ subject = "parking" /\ ParkingNext /\ UNCHANGED <<vars, semaphoreVars, rcuVars>>
       \/ subject = "rcu" /\ RcuNext /\ UNCHANGED <<vars, semaphoreVars, parkingVars>>

CallsNext ==
    /\ UNCHANGED <<locks, streams, subject>>
    /\ \/ subject = "breaker" /\ BreakerNext /\ UNCHANGED <<bridgeVars, actorVars>>
       \/ subject = "bridge" /\ BridgeNext /\ UNCHANGED <<breakerVars, actorVars>>
       \/ subject = "actor" /\ ActorNext /\ UNCHANGED <<breakerVars, bridgeVars>>

StreamsNext ==
    /\ UNCHANGED <<locks, calls, subject>>
    /\ \/ subject = "chunks" /\ ChunkNext /\ UNCHANGED <<splitterVars, viewerVars, relayVars>>
       \/ subject = "splitter" /\ SplitterNext /\ UNCHANGED <<chunkVars, viewerVars, relayVars>>
       \/ subject = "viewers" /\ ViewerNext /\ UNCHANGED <<chunkVars, splitterVars, relayVars>>
       \/ subject = "relay" /\ RelayNext /\ UNCHANGED <<chunkVars, splitterVars, viewerVars>>

\* The fairness of HybridMutex and CircuitBreaker.  At the start no thread is
\* inside lock() and unlock(); callers of the breaker could always call.
PartsFairness ==
    /\ \A t \in Threads : WF_vars(Proceed(t))
    /\ WF_breakerVars(subject = "breaker" /\ TimePasses)
    /\ \A c \in Callers : WF_breakerVars(subject = "breaker" /\ Served(c))

PartsNext == LocksNext \/ CallsNext \/ StreamsNext

PartsSafety == PartsInit /\ [][PartsNext]_parts

PartsSpec == PartsSafety /\ PartsFairness

\* Every variable of every part stays in its set.
PartsTypeOK ==
    /\ TypeOK /\ SemaphoreTypeOK /\ ParkingTypeOK /\ RcuTypeOK
    /\ BreakerTypeOK /\ BridgeTypeOK /\ ActorTypeOK
    /\ ChunkTypeOK /\ SplitterTypeOK /\ ViewerTypeOK /\ RelayTypeOK
=============================================================================
