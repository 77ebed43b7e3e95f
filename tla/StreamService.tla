---------------------------- MODULE StreamService ----------------------------
(***************************************************************************)
(* The control plane: internal/application/stream_service.go over          *)
(* memory_store.go and the ingestor, called by HTTP handlers and by the    *)
(* loop of cmd/hydrastream/sync.go that follows a camera database.         *)
(*                                                                         *)
(* Every caller is a goroutine.  What one call does under one lock is one  *)
(* step; between two of its steps the others run.  Ids are never empty,    *)
(* and streams are fewer than the 500 the purge looks at.                  *)
(***************************************************************************)
EXTENDS RtspIngestor

CONSTANTS
    Sync,           \* the caller that follows the database
    Seed            \* cam_entrance_01, which the store starts with

ASSUME ServiceAssumption ==
    Sync \in Callers /\ Seed \in StreamIds /\ "synthetic" \in Sources

VARIABLES
    streams,        \* ids in the store
    db,             \* ids in the camera database
    activeDBIDs,    \* ids the last query returned
    phase, todo,    \* which of its two loops it is in, and the ids still to do
    cpc, streamID, src  \* caller -> where it is, the id and source it is called with

sync_vars == <<activeDBIDs, phase, todo>>
call      == <<streamID, src>>
vars      == <<ingest_vars, streams, db, sync_vars, cpc, call>>

GotoC(p, from, to) == cpc[p] = from /\ cpc' = [cpc EXCEPT ![p] = to]

HttpCallers == Callers \ {Sync}

\* Where a caller goes on when its call returns.
BackTo(p) == IF p = Sync THEN "loop" ELSE "idle"

\* The arguments are gone with the call (Seed stands for none).
Return(p) ==
    /\ streamID' = [streamID EXCEPT ![p] = Seed]
    /\ src' = [src EXCEPT ![p] = "synthetic"]

-----------------------------------------------------------------------------
(* RegisterStream                                                          *)

Save(p) ==
    /\ GotoC(p, "save", "start")
    /\ streams' = streams \cup {streamID[p]}
    /\ UNCHANGED <<ingest_vars, db, sync_vars, call>>

Start(p) ==
    /\ GotoC(p, "start", BackTo(p))
    /\ StartIngest(streamID[p], src[p])
    /\ Return(p)
    /\ UNCHANGED <<streams, db, sync_vars>>

-----------------------------------------------------------------------------
(* DeleteStream                                                            *)

Take(p) ==
    /\ GotoC(p, "stop", IF sessions[streamID[p]] = NoSession THEN "delete" ELSE "cancel")
    /\ TakeSession(p, streamID[p])
    /\ UNCHANGED <<streams, db, sync_vars, call>>

Cancel(p) ==
    /\ GotoC(p, "cancel", "close")
    /\ CancelSession(p)
    /\ UNCHANGED <<streams, db, sync_vars, call>>

Close(p) ==
    /\ GotoC(p, "close", "delete")
    /\ CloseSession(p)
    /\ UNCHANGED <<streams, db, sync_vars, call>>

\* A bug: the stream stays in the store.
DeleteNothing(p) ==
    /\ GotoC(p, "delete", BackTo(p))
    /\ Return(p)
    /\ UNCHANGED <<ingest_vars, streams, db, sync_vars>>

Delete(p) ==
    /\ GotoC(p, "delete", BackTo(p))
    /\ streams' = streams \ {streamID[p]}
    /\ Return(p)
    /\ UNCHANGED <<ingest_vars, db, sync_vars>>

-----------------------------------------------------------------------------
(* The HTTP handlers.  They are served once the service is constructed.    *)

Post(p) ==
    /\ cpc[Sync] # "boot"
    /\ GotoC(p, "idle", "save")
    /\ \E s \in StreamIds, k \in Sources :
        /\ streamID' = [streamID EXCEPT ![p] = s]
        /\ src' = [src EXCEPT ![p] = k]
    /\ UNCHANGED <<ingest_vars, streams, db, sync_vars>>

\* checkOwnership finds the stream, or the answer is 404.
RequestDelete(p) ==
    /\ cpc[Sync] # "boot"
    /\ GotoC(p, "idle", "stop")
    /\ \E s \in streams : streamID' = [streamID EXCEPT ![p] = s]
    /\ UNCHANGED <<ingest_vars, streams, db, sync_vars, src>>

-----------------------------------------------------------------------------
(* syncOnce, every five seconds                                            *)

\* NewStreamService starts the ingest of the seed before anything else.
Boot ==
    /\ GotoC(Sync, "boot", "idle")
    /\ StartIngest(Seed, "synthetic")
    /\ UNCHANGED <<streams, db, sync_vars, call>>

Query ==
    /\ GotoC(Sync, "idle", "loop")
    /\ activeDBIDs' = db
    /\ phase' = "register" /\ todo' = db
    /\ UNCHANGED <<ingest_vars, streams, db, call>>

\* The next id of the loop, which is then registered or deleted.
TakeUp(s, to) ==
    /\ s \in todo /\ todo' = todo \ {s}
    /\ GotoC(Sync, "loop", to)
    /\ streamID' = [streamID EXCEPT ![Sync] = s]
    /\ src' = [src EXCEPT ![Sync] = "synthetic"]
    /\ UNCHANGED <<ingest_vars, streams, db, activeDBIDs, phase>>

RegisterNext == phase = "register" /\ \E s \in todo : TakeUp(s, "save")

\* A bug: the test of activeDBIDs is the other way round.
ListActive ==
    /\ cpc[Sync] = "loop" /\ phase = "register" /\ todo = {}
    /\ phase' = "purge" /\ todo' = (streams \cap activeDBIDs) \ {Seed}
    /\ UNCHANGED <<ingest_vars, streams, db, activeDBIDs, cpc, call>>

\* What the store lists, the query did not return, and is not the seed.
List ==
    /\ cpc[Sync] = "loop" /\ phase = "register" /\ todo = {}
    /\ phase' = "purge" /\ todo' = streams \ (activeDBIDs \cup {Seed})
    /\ UNCHANGED <<ingest_vars, streams, db, activeDBIDs, cpc, call>>

PurgeNext == phase = "purge" /\ \E s \in todo : TakeUp(s, "stop")

\* The next tick; a query that fails ends the pass at once.
EndPass ==
    /\ phase = "purge" /\ todo = {}
    /\ GotoC(Sync, "loop", "idle")
    /\ activeDBIDs' = {}
    /\ UNCHANGED <<ingest_vars, streams, db, phase, todo, call>>

\* Somebody edits the database.
EditDatabase ==
    /\ \E s \in StreamIds : db' \in {db \cup {s}, db \ {s}}
    /\ UNCHANGED <<ingest_vars, streams, sync_vars, cpc, call>>

Work == /\ \E i \in Sessions : WorkerStep(i) \/ CameraStep(i)
        /\ UNCHANGED <<streams, db, sync_vars, cpc, call>>

-----------------------------------------------------------------------------
Init ==
    /\ IngestInit
    /\ streams = {Seed}
    /\ db = {}
    /\ activeDBIDs = {} /\ phase = "register" /\ todo = {}
    /\ cpc = [p \in Callers |-> IF p = Sync THEN "boot" ELSE "idle"]
    /\ streamID = [p \in Callers |-> Seed]
    /\ src = [p \in Callers |-> "synthetic"]

Operation(p) ==
    \/ Save(p) \/ Start(p) \/ Take(p) \/ Cancel(p) \/ Close(p) \/ Delete(p)

SyncStep == Boot \/ Query \/ RegisterNext \/ List \/ PurgeNext \/ EndPass

Next ==
    \/ \E p \in Callers : Operation(p)
    \/ \E p \in HttpCallers : Post(p) \/ RequestDelete(p)
    \/ SyncStep \/ EditDatabase \/ Work

Spec == Init /\ [][Next]_vars

\* Calls are finished, the ticker of the sync loop goes on, and workers run.
\* Nobody has to send requests or edit the database.  StartIngest waits for
\* nothing but the bound on sessions, so that it gets one whenever workers end.
Fairness ==
    /\ \A p \in Callers : WF_vars(Operation(p)) /\ SF_vars(Start(p))
    /\ WF_vars(SyncStep)
    /\ \A i \in Sessions : WF_vars(WorkerStep(i) /\ UNCHANGED <<streams, db, sync_vars, cpc, call>>)

FairSpec == Spec /\ Fairness

-----------------------------------------------------------------------------
(* Properties                                                              *)

Calls == {"idle", "save", "start", "stop", "cancel", "close", "delete"}

TypeOK ==
    /\ IngestTypeOK
    /\ streams \subseteq StreamIds /\ db \subseteq StreamIds
    /\ activeDBIDs \subseteq StreamIds /\ todo \subseteq StreamIds
    /\ phase \in {"register", "purge"}
    /\ cpc \in [Callers -> Calls \cup {"boot", "loop"}]
    /\ \A p \in HttpCallers : cpc[p] \in Calls
    /\ streamID \in [Callers -> StreamIds]
    /\ src \in [Callers -> Sources]

\* A stream in the store is being ingested, except while the call that stores it
\* has still to start its ingest, or one that stopped it has still to take it
\* out: whatever overlaps, no call leaves a stream behind that nothing ingests.
\* This is why RegisterStream saves first and DeleteStream stops first
\* (stream_service.go:94-103, 124-135).
StreamsAreIngested ==
    \A s \in streams :
        \/ sessions[s] # NoSession
        \/ \E p \in Callers : /\ streamID[p] = s
                              /\ cpc[p] \in {"boot", "start", "cancel", "close", "delete"}

\* DELETE is documented to "stop ingestion session and delete stream" (README.md:125),
\* and the purge to delete streams "from HydraStream memory and ingest" (sync.go:77):
\* with all calls finished there is no ingest without a stream.
IngestsAreListed ==
    (\A p \in Callers : cpc[p] = "idle")
        => \A s \in StreamIds : sessions[s] # NoSession => s \in streams

Deleting(s) == \E p \in HttpCallers :
                  streamID[p] = s /\ cpc[p] \in {"stop", "cancel", "close", "delete"}
Posting(s)  == \E p \in HttpCallers : streamID[p] = s /\ cpc[p] \in {"save", "start"}

\* A camera that stays in the database, and that nobody deletes, ends up listed
\* and ingested for good, whatever went on before; one that stays out of it, and
\* that nobody posts, ends up not listed, the seed excepted (sync.go:66-85).
DatabaseIsMirrored ==
    \A s \in StreamIds :
        /\ <>[](s \in db /\ ~Deleting(s)) => <>[](s \in streams /\ sessions[s] # NoSession)
        /\ s # Seed /\ <>[](s \notin db /\ ~Posting(s)) => <>[](s \notin streams)

\* The ingestor is used as its specification says.
UsesIngestor == IngestSpec
=============================================================================
