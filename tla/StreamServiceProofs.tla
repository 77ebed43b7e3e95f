------------------------- MODULE StreamServiceProofs --------------------------
(***************************************************************************)
(* Proofs about StreamService, for any streams, callers and sessions.      *)
(*                                                                         *)
(* The service uses the ingestor as its specification allows, so that what *)
(* RtspIngestorProofs proves holds in the service too.  With that,         *)
(* StreamsAreIngested is inductive: a call that takes the last ingest of a *)
(* stream away stays on the way to deleting it until it has.               *)
(***************************************************************************)
EXTENDS StreamService, RtspIngestorProofs

\* The store's seed is ingested before anybody else is served.
SeedFirst ==
    cpc[Sync] = "boot" => streamID[Sync] = Seed

Inv == IngestInv /\ TypeOK /\ SeedFirst /\ StreamsAreIngested

-----------------------------------------------------------------------------
USE IngestorAssumption, ServiceAssumption

\* What the steps of a caller and of the world do to the ingestor.
LEMMA StepOfIngestor ==
    ASSUME TypeOK, [Next]_vars
    PROVE  [IngestNext]_ingest_vars
<1> USE DEF TypeOK, HttpCallers
<1>1. CASE \E p \in Callers : Operation(p)
  <2>1. PICK p \in Callers : Operation(p)
    BY <1>1
  <2>2. CASE Save(p) \/ Delete(p)
    BY <2>2 DEF Save, Delete
  <2>3. CASE Start(p)
    BY <2>3 DEF Start, IngestNext
  <2>4. CASE Take(p)
    BY <2>4 DEF Take, IngestNext
  <2>5. CASE Cancel(p) \/ Close(p)
    BY <2>5 DEF Cancel, Close, IngestNext
  <2> QED
    BY <2>1, <2>2, <2>3, <2>4, <2>5 DEF Operation
<1>2. CASE \E p \in HttpCallers : Post(p) \/ RequestDelete(p)
  BY <1>2 DEF Post, RequestDelete
<1>3. CASE SyncStep
  <2>1. CASE Boot
    BY <2>1 DEF Boot, IngestNext
  <2>2. CASE Query \/ RegisterNext \/ List \/ PurgeNext \/ EndPass
    BY <2>2 DEF Query, RegisterNext, List, PurgeNext, EndPass, TakeUp
  <2> QED
    BY <1>3, <2>1, <2>2 DEF SyncStep
<1>4. CASE EditDatabase
  BY <1>4 DEF EditDatabase
<1>5. CASE Work
  BY <1>5 DEF Work, IngestNext
<1>6. CASE UNCHANGED vars
  BY <1>6 DEF vars
<1> QED
  BY <1>1, <1>2, <1>3, <1>4, <1>5, <1>6 DEF Next

-----------------------------------------------------------------------------
LEMMA InitInv == Init => Inv
<1> SUFFICES ASSUME Init PROVE Inv
  OBVIOUS
<1>1. IngestInv
  BY IngestInitInv DEF Init
<1>2. TypeOK
  BY <1>1 DEF Init, TypeOK, Calls, HttpCallers, IngestInv
<1>3. SeedFirst /\ StreamsAreIngested
  BY DEF Init, SeedFirst, StreamsAreIngested
<1> QED
  BY <1>1, <1>2, <1>3 DEF Inv

\* Which streams a step of the ingestor that is not TakeSession can leave.
LEMMA StartListsStream ==
    ASSUME IngestTypeOK, NEW s \in StreamIds, NEW k \in Sources, StartIngest(s, k)
    PROVE  /\ sessions'[s] # NoSession
           /\ \A t \in StreamIds : sessions[t] # NoSession => sessions'[t] # NoSession
<1>1. CASE sessions[s] # NoSession
  BY <1>1 DEF StartIngest, ingest_vars
<1>2. CASE sessions[s] = NoSession
  BY <1>2 DEF StartIngest, NewSession, IngestTypeOK
<1> QED
  BY <1>1, <1>2

LEMMA OperationKeepsInv ==
    ASSUME Inv, IngestInv', NEW p \in Callers, Operation(p)
    PROVE  Inv'
<1> USE DEF Inv, TypeOK, SeedFirst, Calls, HttpCallers, GotoC, call, sync_vars
<1>a. IngestTypeOK'
  BY DEF IngestInv
<1>1. CASE Save(p)
  BY <1>1, <1>a DEF Save, StreamsAreIngested, ingest_vars
<1>2. CASE Start(p)
  <2>1. /\ sessions'[streamID[p]] # NoSession
        /\ \A t \in StreamIds : sessions[t] # NoSession => sessions'[t] # NoSession
    BY <1>2, StartListsStream DEF Start
  <2>2. StreamsAreIngested'
    BY <1>2, <2>1 DEF Start, Return, BackTo, StreamsAreIngested
  <2> QED
    BY <1>2, <1>a, <2>2 DEF Start, Return, BackTo
<1>3. CASE Take(p)
  <2>1. \A s \in StreamIds : s # streamID[p] => sessions'[s] = sessions[s]
    BY <1>3 DEF Take, TakeSession, IngestTypeOK
  <2>2. StreamsAreIngested'
    BY <1>3, <2>1 DEF Take, StreamsAreIngested
  <2> QED
    BY <1>3, <1>a, <2>2 DEF Take
<1>4. CASE Cancel(p)
  BY <1>4, <1>a DEF Cancel, CancelSession, StreamsAreIngested
<1>5. CASE Close(p)
  BY <1>5, <1>a DEF Close, CloseSession, StreamsAreIngested
<1>6. CASE Delete(p)
  BY <1>6, <1>a DEF Delete, Return, BackTo, StreamsAreIngested, ingest_vars
<1> QED
  BY <1>1, <1>2, <1>3, <1>4, <1>5, <1>6 DEF Operation

LEMMA RequestKeepsInv ==
    ASSUME Inv, IngestInv', NEW p \in HttpCallers, Post(p) \/ RequestDelete(p)
    PROVE  Inv'
<1> USE DEF Inv, TypeOK, SeedFirst, Calls, HttpCallers, GotoC, call, sync_vars
<1>a. IngestTypeOK'
  BY DEF IngestInv
<1>1. CASE Post(p)
  BY <1>1, <1>a DEF Post, StreamsAreIngested, ingest_vars
<1>2. CASE RequestDelete(p)
  BY <1>2, <1>a DEF RequestDelete, StreamsAreIngested, ingest_vars
<1> QED
  BY <1>1, <1>2

LEMMA SyncKeepsInv ==
    ASSUME Inv, IngestInv', SyncStep
    PROVE  Inv'
<1> USE DEF Inv, TypeOK, SeedFirst, Calls, HttpCallers, GotoC, call, sync_vars
<1>a. IngestTypeOK'
  BY DEF IngestInv
<1>1. CASE Boot
  <2>1. /\ sessions'[Seed] # NoSession
        /\ \A t \in StreamIds : sessions[t] # NoSession => sessions'[t] # NoSession
    BY <1>1, StartListsStream DEF Boot
  <2>2. StreamsAreIngested'
    BY <1>1, <2>1 DEF Boot, StreamsAreIngested
  <2> QED
    BY <1>1, <1>a, <2>2 DEF Boot
<1>2. CASE Query
  BY <1>2, <1>a DEF Query, StreamsAreIngested, ingest_vars
<1>3. CASE RegisterNext
  BY <1>3, <1>a DEF RegisterNext, TakeUp, StreamsAreIngested, ingest_vars
<1>4. CASE List
  BY <1>4, <1>a DEF List, StreamsAreIngested, ingest_vars
<1>5. CASE PurgeNext
  BY <1>5, <1>a DEF PurgeNext, TakeUp, StreamsAreIngested, ingest_vars
<1>6. CASE EndPass
  BY <1>6, <1>a DEF EndPass, StreamsAreIngested, ingest_vars
<1> QED
  BY <1>1, <1>2, <1>3, <1>4, <1>5, <1>6 DEF SyncStep

LEMMA NextInv == Inv /\ [Next]_vars => Inv'
<1> SUFFICES ASSUME Inv, [Next]_vars PROVE Inv'
  OBVIOUS
<1>1. IngestInv'
  BY StepOfIngestor, IngestNextInv DEF Inv
<1>2. CASE \E p \in Callers : Operation(p)
  BY <1>1, <1>2, OperationKeepsInv
<1>3. CASE \E p \in HttpCallers : Post(p) \/ RequestDelete(p)
  BY <1>1, <1>3, RequestKeepsInv
<1>4. CASE SyncStep
  BY <1>1, <1>4, SyncKeepsInv
<1>5. CASE EditDatabase
  BY <1>1, <1>5 DEF EditDatabase, Inv, IngestInv, TypeOK, SeedFirst, StreamsAreIngested,
                    ingest_vars, sync_vars, call
<1>6. CASE Work
  <2>1. UNCHANGED sessions
    BY <1>6, WorkerMoves DEF Work, Inv, idle_worker
  <2> QED
    BY <1>1, <1>6, <2>1 DEF Work, Inv, IngestInv, TypeOK, SeedFirst, StreamsAreIngested,
                            sync_vars, call
<1>7. CASE UNCHANGED vars
  BY <1>1, <1>7 DEF vars, Inv, IngestInv, TypeOK, SeedFirst, StreamsAreIngested,
                    ingest_vars, sync_vars, call
<1> QED
  BY <1>2, <1>3, <1>4, <1>5, <1>6, <1>7 DEF Next

-----------------------------------------------------------------------------
\* The inductive invariant of the service over the ingestor.
THEOREM ServiceInvariant == Spec => []Inv
  BY InitInv, NextInv, PTL DEF Spec

\* Every variable of the control plane stays in its set, with the service over
\* the store and the ingestor (stream_service.go:89-136, sync.go:39-86).
THEOREM ServiceTypeCorrect == Spec => []TypeOK
  BY ServiceInvariant, PTL DEF Inv

\* Whatever registrations, deletions and purges overlap, a stream in the store is
\* ingested, or a call is about to change that (stream_service.go:94-103, 124-135).
THEOREM ServiceStreamsAreIngested == Spec => []StreamsAreIngested
  BY ServiceInvariant, PTL DEF Inv

\* The service calls the ingestor in no way its specification does not have, so
\* that no worker is forgotten in the service either.
THEOREM ServiceUsesIngestor == Spec => IngestSpec
<1>1. Init => IngestInit
  BY DEF Init
<1>2. Inv /\ [Next]_vars => [IngestNext]_ingest_vars
  BY StepOfIngestor DEF Inv
<1> QED
  BY <1>1, <1>2, ServiceInvariant, PTL DEF Spec, IngestSpec

THEOREM ServiceForgetsNoWorker == Spec => []NoWorkerForgotten
  BY ServiceUsesIngestor, IngestorForgetsNoWorker, PTL
=============================================================================
