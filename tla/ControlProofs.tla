---------------------------- MODULE ControlProofs ----------------------------
(***************************************************************************)
(* Theorems about the parts of the control plane that ControlParts puts    *)
(* side by side, each for every value of its constants; those about the    *)
(* RTSP ingestor are in RtspIngestorProofs.                                *)
(***************************************************************************)
EXTENDS ControlParts, RtspIngestorProofs, FiniteSetTheorems, SequenceTheorems

(***************************************************************************)
(* H264Bridges                                                             *)
(***************************************************************************)

Processes == [id : Cameras, piped : BOOLEAN, alive : BOOLEAN, reaped : BOOLEAN]

Places == {"out", "waiting", "stop_readers", "source", "spawn", "insert", "finish",
           "swap", "read", "leave"}

RequestSet(n) == [at : Places, id : Cameras \cup {"none"}, process : 0 .. n]

\* A start that has its mark and has not listed its process yet.
Unlisted(r) == request[r].at \in {"stop_readers", "source", "spawn", "insert"}

\* A start that has its mark.
Marked(r) == Unlisted(r) \/ request[r].at = "finish"

\* One start at a time per id, which nothing is listed under until it lists its
\* process.
OneStart ==
    \A r \in Requests :
        /\ request[r].at # "out" => request[r].id \in Cameras
        /\ Marked(r) => request[r].id \in starting
        /\ \A q \in Requests :
               Marked(r) /\ Marked(q) /\ request[q].id = request[r].id => q = r
        /\ Unlisted(r) => bridges[request[r].id] = 0

\* A process is listed under its own id, or about to be.
OwnIds ==
    /\ processes \in Seq(Processes)
    /\ \A r \in Requests :
           request[r].at = "insert" =>
               /\ request[r].process \in DOMAIN processes
               /\ processes[request[r].process].id = request[r].id
    /\ \A id \in Cameras : bridges[id] # 0 => processes[bridges[id]].id = id

BridgesInv == BridgesTypeOK /\ OneStart /\ OwnIds /\ BridgesAreListed

\* Killing leaves everything but `alive` as it was.
LEMMA KillKeeps ==
    ASSUME NEW ps, processes \in Seq(Processes), Kill(ps)
    PROVE  /\ processes' \in Seq(Processes)
           /\ Len(processes') = Len(processes)
           /\ DOMAIN processes' = DOMAIN processes
           /\ \A p \in DOMAIN processes :
                  /\ processes'[p].id = processes[p].id
                  /\ processes'[p].alive => processes[p].alive /\ p \notin ps
<1>1. ASSUME NEW p \in DOMAIN processes
      PROVE  /\ processes'[p] \in Processes
             /\ processes'[p].id = processes[p].id
             /\ processes'[p].alive => processes[p].alive /\ p \notin ps
  <2>1. processes[p] \in Processes
    OBVIOUS
  <2>2. CASE p \in ps
    <3>1. processes'[p] = [processes[p] EXCEPT !.alive = FALSE]
      BY <2>2 DEF Kill
    <3> QED
      BY <2>1, <3>1 DEF Processes
  <2>3. CASE p \notin ps
    BY <2>1, <2>3 DEF Kill
  <2> QED
    BY <2>2, <2>3
<1>2. DOMAIN processes' = 1 .. Len(processes) /\ DOMAIN processes = 1 .. Len(processes)
  BY DEF Kill
<1>3. processes' = [p \in 1 .. Len(processes) |-> processes'[p]]
  BY DEF Kill
<1>4. Len(processes) \in Nat
  OBVIOUS
<1>5. processes' \in [1 .. Len(processes) -> Processes]
  BY <1>1, <1>2, <1>3
<1>6. processes' \in Seq(Processes)
  BY <1>4, <1>5
<1> QED
  BY <1>1, <1>2, <1>4, <1>6

\* A request goes on.
LEMMA GoesKeeps ==
    ASSUME NEW n, request \in [Requests -> RequestSet(n)], NEW r \in Requests, NEW to \in Places, Goes(r, to)
    PROVE  /\ request' \in [Requests -> RequestSet(n)]
           /\ request'[r].at = to /\ request'[r].id = request[r].id
           /\ request'[r].process = request[r].process
           /\ \A q \in Requests : q # r => request'[q] = request[q]
BY DEF Goes, RequestSet

LEMMA BridgesInvInit == BridgesInit => BridgesInv
BY BridgesAssumption
   DEF BridgesInit, BridgesInv, BridgesTypeOK, OneStart, OwnIds, BridgesAreListed, Unlisted, Marked,
       Free, Processes, Places

\* The parts of the invariant that speak of the request only through its place,
\* its id and its process: what a step that leaves the bridges alone shows.
LEMMA BridgesQuiet ==
    ASSUME BridgesInv, UNCHANGED <<powershell, bridges, pipes, processes>>,
           request' \in [Requests -> RequestSet(Len(processes))],
           starting' \subseteq Cameras, readers' \in [Cameras -> Requests \cup {"none"}],
           \A r \in Requests :
               /\ request'[r].at = "insert" <=> request[r].at = "insert"
               /\ request'[r].at = "insert" => request'[r] = request[r],
           OneStart'
    PROVE  BridgesInv'
<1>1. BridgesTypeOK'
  BY DEF BridgesInv, BridgesTypeOK, RequestSet, Places
<1>2. OwnIds'
  BY DEF BridgesInv, OwnIds
<1>3. \A p : InHand(p) => InHand(p)'
  BY DEF InHand
<1>4. BridgesAreListed'
  BY <1>3 DEF BridgesInv, BridgesAreListed
<1> QED
  BY <1>1, <1>2, <1>4 DEF BridgesInv

LEMMA BridgesGoOn ==
    ASSUME BridgesInv, UNCHANGED <<powershell, bridges, pipes, starting, processes>>,
           readers' \in [Cameras -> Requests \cup {"none"}],
           NEW r \in Requests, NEW to \in Places \ {"insert"}, Goes(r, to),
           request[r].at \notin {"out", "insert"},
           to \in {"stop_readers", "source", "spawn"} => Unlisted(r),
           to = "finish" => Marked(r)
    PROVE  BridgesInv'
<1>1. request \in [Requests -> RequestSet(Len(processes))]
  BY DEF BridgesInv, BridgesTypeOK, RequestSet, Places
<1>2. /\ request' \in [Requests -> RequestSet(Len(processes))]
      /\ request'[r].at = to /\ request'[r].id = request[r].id
      /\ \A q \in Requests : q # r => request'[q] = request[q]
  BY <1>1, GoesKeeps
<1>3. \A q \in Requests : /\ request'[q].id = request[q].id
                          /\ Marked(q)' => Marked(q)
                          /\ Unlisted(q)' => Unlisted(q)
                          /\ request'[q].at # "out" => request[q].at # "out"
  BY <1>2 DEF Marked, Unlisted
<1>4. OneStart'
  BY <1>3 DEF BridgesInv, OneStart
<1>5. \A q \in Requests :
          /\ request'[q].at = "insert" <=> request[q].at = "insert"
          /\ request'[q].at = "insert" => request'[q] = request[q]
  BY <1>2
<1> QED
  BY <1>2, <1>4, <1>5, BridgesQuiet DEF BridgesInv, BridgesTypeOK

\* Requests that touch neither processes nor the list.
LEMMA BridgesLeftAlone ==
    ASSUME BridgesInv, NEW r \in Requests,
           \/ \E id \in Cameras : StartBridge(r, id)
           \/ StopReaders(r) \/ SourceMissing(r) \/ SpawnBridgeFails(r) \/ FinishStart(r)
           \/ SwapReader(r) \/ EndReading(r) \/ LeaveReader(r)
    PROVE  BridgesInv'
<1> DEFINE Typed == request \in [Requests -> RequestSet(Len(processes))]
<1>1. Typed
  BY DEF BridgesInv, BridgesTypeOK, RequestSet, Places
<1>2. ASSUME NEW id \in Cameras, StartBridge(r, id)
      PROVE  BridgesInv'
  <2> DEFINE to == IF id \in starting THEN "waiting" ELSE "stop_readers"
             start == [request[r] EXCEPT !.id = id, !.at = to]
  <2>1. start \in RequestSet(Len(processes)) /\ start.at = to /\ start.id = id
    BY <1>1 DEF RequestSet, Places
  <2>2. request' = [request EXCEPT ![r] = start]
    BY <1>2, <1>1 DEF StartBridge, RequestSet
  <2> HIDE DEF start
  <2>3. request' \in [Requests -> RequestSet(Len(processes))] /\ request'[r] = start
        /\ \A q \in Requests : q # r => request'[q] = request[q]
    BY <2>1, <2>2, <1>1
  <2>4. request[r].at = "out" /\ bridges[id] = 0 /\ starting' = starting \cup {id}
        /\ UNCHANGED <<powershell, bridges, pipes, processes, readers>>
    BY <1>2 DEF StartBridge, Free
  <2>5. \A q \in Requests : q # r => /\ Marked(q)' <=> Marked(q)
                                     /\ Unlisted(q)' <=> Unlisted(q)
    BY <2>3 DEF Marked, Unlisted
  <2>6. Marked(r)' => id \notin starting
    BY <2>1, <2>3 DEF Marked, Unlisted
  <2>7. OneStart'
    BY <2>1, <2>3, <2>4, <2>5, <2>6 DEF BridgesInv, OneStart
  <2>8. \A q \in Requests :
            /\ request'[q].at = "insert" <=> request[q].at = "insert"
            /\ request'[q].at = "insert" => request'[q] = request[q]
    BY <2>1, <2>3, <2>4
  <2> QED
    BY <2>3, <2>4, <2>7, <2>8, BridgesQuiet DEF BridgesInv, BridgesTypeOK
<1>3. CASE StopReaders(r)
  BY <1>3, BridgesGoOn DEF StopReaders, Places, Unlisted, BridgesInv, BridgesTypeOK
<1>4. CASE SourceMissing(r)
  BY <1>4, BridgesGoOn DEF SourceMissing, Places, Unlisted, Marked, BridgesInv, BridgesTypeOK
<1>5. CASE SpawnBridgeFails(r)
  BY <1>5, BridgesGoOn DEF SpawnBridgeFails, Places, Unlisted, Marked, BridgesInv, BridgesTypeOK
<1>6. CASE FinishStart(r)
  <2>1. Free \in RequestSet(Len(processes)) /\ Free.at = "out"
    BY <1>1 DEF Free, RequestSet, Places, BridgesInv, OwnIds
  <2>2. request' \in [Requests -> RequestSet(Len(processes))]
        /\ request'[r] = Free
        /\ \A q \in Requests : request'[q] = request[q] \/ request'[q] = Free
    BY <1>1, <1>6, <2>1 DEF FinishStart
  <2>3. \A q \in Requests : request[q].at = "insert" => request'[q] = request[q]
    BY <1>6 DEF FinishStart
  <2>4. \A q \in Requests : /\ Marked(q)' => Marked(q) /\ q # r
                            /\ Marked(q)' \/ Unlisted(q)' \/ request'[q].at # "out" => request'[q] = request[q]
                            /\ Unlisted(q)' => Unlisted(q)
    BY <2>1, <2>2 DEF Marked, Unlisted
  <2>5. Marked(r) /\ starting' = starting \ {request[r].id}
        /\ UNCHANGED <<powershell, bridges, pipes, processes, readers>>
    BY <1>6 DEF FinishStart, Marked
  <2>6. OneStart'
    BY <2>4, <2>5 DEF BridgesInv, OneStart
  <2>7. \A q \in Requests :
            /\ request'[q].at = "insert" <=> request[q].at = "insert"
            /\ request'[q].at = "insert" => request'[q] = request[q]
    BY <1>6, <2>1, <2>2, <2>3
  <2> QED
    BY <2>2, <2>5, <2>6, <2>7, BridgesQuiet DEF BridgesInv, BridgesTypeOK
<1>7. CASE SwapReader(r)
  <2>1. request[r].id \in Cameras
    BY <1>7 DEF SwapReader, BridgesInv, OneStart
  <2> QED
    BY <1>7, <2>1, BridgesGoOn DEF SwapReader, Places, BridgesInv, BridgesTypeOK
<1>8. CASE EndReading(r)
  BY <1>8, BridgesGoOn DEF EndReading, Places, BridgesInv, BridgesTypeOK
<1>9. CASE LeaveReader(r)
  <2>1. Free \in RequestSet(Len(processes)) /\ Free.at = "out"
    BY <1>1 DEF Free, RequestSet, Places, BridgesInv, OwnIds
  <2>2. request' \in [Requests -> RequestSet(Len(processes))]
        /\ request'[r] = Free
        /\ \A q \in Requests : q # r => request'[q] = request[q]
    BY <1>1, <1>9, <2>1 DEF LeaveReader
  <2>3. OneStart'
    BY <1>9, <2>1, <2>2 DEF BridgesInv, OneStart, Marked, Unlisted, LeaveReader
  <2>4. \A q \in Requests :
            /\ request'[q].at = "insert" <=> request[q].at = "insert"
            /\ request'[q].at = "insert" => request'[q] = request[q]
    BY <1>9, <2>1, <2>2 DEF LeaveReader
  <2> QED
    BY <1>9, <2>2, <2>3, <2>4, BridgesQuiet DEF BridgesInv, BridgesTypeOK, LeaveReader
<1> QED
  BY <1>2, <1>3, <1>4, <1>5, <1>6, <1>7, <1>8, <1>9

\* Killing any processes and taking any ids off both lists, if
\* what was listed under them is killed.
LEMMA BridgesKilled ==
    ASSUME BridgesInv, NEW ps, Kill(ps),
           UNCHANGED <<powershell, starting>>,
           bridges' \in [Cameras -> 0 .. Len(processes)],
           pipes' \in [Cameras -> 0 .. Len(processes)],
           \A id \in Cameras :
               \/ bridges'[id] = bridges[id] /\ pipes'[id] = pipes[id]
               \/ /\ bridges'[id] = 0 /\ pipes'[id] = 0
                  /\ bridges[id] # 0 => bridges[id] \in ps,
           readers' \in [Cameras -> Requests \cup {"none"}],
           request' \in [Requests -> RequestSet(Len(processes))],
           \A q \in Requests :
               /\ request'[q].at = "insert" <=> request[q].at = "insert"
               /\ request'[q].at = "insert" => request'[q] = request[q]
               /\ request'[q].at # "out" => request'[q].id \in Cameras
               /\ Marked(q)' => Marked(q) /\ request'[q].id = request[q].id
               /\ Unlisted(q)' => Unlisted(q)
    PROVE  BridgesInv'
<1>1. /\ processes' \in Seq(Processes)
      /\ Len(processes') = Len(processes)
      /\ DOMAIN processes' = DOMAIN processes
      /\ \A p \in DOMAIN processes :
             /\ processes'[p].id = processes[p].id
             /\ processes'[p].alive => processes[p].alive /\ p \notin ps
  BY KillKeeps DEF BridgesInv, OwnIds
<1>2. processes \in Seq(Processes) /\ DOMAIN processes = 1 .. Len(processes) /\ Len(processes) \in Nat
  BY DEF BridgesInv, OwnIds
<1>3. \A p \in DOMAIN processes : processes[p].id \in Cameras
  <2>1. \A p \in DOMAIN processes : processes[p] \in Processes
    BY <1>2
  <2> QED
    BY <2>1 DEF Processes
<1>4. BridgesTypeOK'
  BY <1>1, <1>2 DEF BridgesInv, BridgesTypeOK, RequestSet, Places
<1>5. \A id \in Cameras : /\ bridges'[id] # 0 => bridges'[id] = bridges[id]
                          /\ pipes'[id] # 0 => pipes'[id] = pipes[id] /\ bridges'[id] = bridges[id]
                          /\ bridges[id] = 0 => bridges'[id] = 0
                          /\ bridges[id] # 0 /\ bridges[id] \notin ps => bridges'[id] = bridges[id]
  OBVIOUS
<1>6. \A q \in Requests : Unlisted(q)' => Marked(q)'
  BY DEF Marked
<1>7. OneStart'
  <2> SUFFICES ASSUME NEW r \in Requests
               PROVE  /\ request'[r].at # "out" => request'[r].id \in Cameras
                      /\ Marked(r)' => request'[r].id \in starting'
                      /\ \A q \in Requests :
                             Marked(r)' /\ Marked(q)' /\ request'[q].id = request'[r].id => q = r
                      /\ Unlisted(r)' => bridges'[request'[r].id] = 0
    BY DEF OneStart
  <2>1. Marked(r)' => request'[r].id \in starting'
    BY DEF BridgesInv, OneStart
  <2>2. \A q \in Requests :
            Marked(r)' /\ Marked(q)' /\ request'[q].id = request'[r].id => q = r
    BY DEF BridgesInv, OneStart
  <2>3. ASSUME Unlisted(r)'
        PROVE  bridges'[request'[r].id] = 0
    <3>1. Unlisted(r) /\ request'[r].id = request[r].id /\ request[r].at # "out"
      BY <2>3, <1>6 DEF Unlisted
    <3>2. bridges[request[r].id] = 0 /\ request[r].id \in Cameras
      BY <3>1 DEF BridgesInv, OneStart
    <3> QED
      BY <3>1, <3>2, <1>5
  <2> QED
    BY <2>1, <2>2, <2>3
<1>8. OwnIds'
  <2>1. ASSUME NEW id \in Cameras, bridges'[id] # 0
        PROVE  processes'[bridges'[id]].id = id
    <3>1. bridges'[id] = bridges[id] /\ bridges[id] # 0 /\ bridges[id] \in 0 .. Len(processes)
      BY <2>1, <1>5 DEF BridgesInv, BridgesTypeOK
    <3>2. bridges[id] \in DOMAIN processes
      BY <3>1, <1>2
    <3> QED
      BY <3>1, <3>2, <1>1 DEF BridgesInv, OwnIds
  <2>2. ASSUME NEW r \in Requests, request'[r].at = "insert"
        PROVE  request'[r].process \in DOMAIN processes' /\ processes'[request'[r].process].id = request'[r].id
    <3>1. request[r].at = "insert" /\ request'[r] = request[r]
      BY <2>2
    <3>2. request[r].process \in DOMAIN processes /\ processes[request[r].process].id = request[r].id
      BY <3>1 DEF BridgesInv, OwnIds
    <3> QED
      BY <3>1, <3>2, <1>1
  <2> QED
    BY <1>1, <2>1, <2>2 DEF OwnIds
<1>9. \A p : InHand(p) => InHand(p)'
  BY DEF InHand
<1>10. BridgesAreListed'
  <2>1. ASSUME NEW p \in DOMAIN processes', processes'[p].alive
        PROVE  bridges'[processes'[p].id] = p \/ InHand(p)'
    <3>1. p \in DOMAIN processes /\ processes[p].alive /\ p \notin ps
          /\ processes'[p].id = processes[p].id /\ processes[p].id \in Cameras
      BY <2>1, <1>1, <1>3
    <3>2. CASE InHand(p)
      BY <3>2, <1>9
    <3>3. CASE bridges[processes[p].id] = p
      <4>1. p # 0
        BY <3>1, <1>2
      <4> QED
        BY <3>1, <3>3, <4>1, <1>5
    <3> QED
      BY <3>1, <3>2, <3>3 DEF BridgesInv, BridgesAreListed
  <2>2. ASSUME NEW id \in Cameras, pipes'[id] # 0
        PROVE  pipes'[id] = bridges'[id]
    BY <2>2, <1>5 DEF BridgesInv, BridgesAreListed
  <2> QED
    BY <2>1, <2>2 DEF BridgesAreListed
<1> QED
  BY <1>4, <1>7, <1>8, <1>10 DEF BridgesInv

\* The stops, the kills of a start and the end of ffmpeg.
LEMMA BridgesStopped ==
    ASSUME BridgesInv,
           \/ \E r \in Requests, id \in Cameras :
                  StopRequest(r, id) \/ ReadMJPEG(r, id) \/ Snapshot(r, id)
           \/ \E r \in Requests : KillOrphans(r)
           \/ \E p \in DOMAIN processes : BridgeEnds(p)
           \/ StopAllBridges
    PROVE  BridgesInv'
<1> DEFINE Typed == request \in [Requests -> RequestSet(Len(processes))]
<1>1. Typed /\ bridges \in [Cameras -> 0 .. Len(processes)] /\ pipes \in [Cameras -> 0 .. Len(processes)]
      /\ readers \in [Cameras -> Requests \cup {"none"}] /\ 0 \in 0 .. Len(processes)
  BY DEF BridgesInv, BridgesTypeOK, OwnIds, RequestSet, Places
<1>2. \A q \in Requests : request[q].at # "out" => request[q].id \in Cameras
  BY DEF BridgesInv, OneStart
<1>3. ASSUME NEW r \in Requests, NEW id \in Cameras, StopRequest(r, id)
      PROVE  BridgesInv'
  <2>1. PICK ps : Kill(ps) /\ (bridges[id] # 0 => bridges[id] \in ps)
    BY <1>3 DEF StopRequest, StopBridge
  <2>2. /\ bridges' = [bridges EXCEPT ![id] = 0] /\ pipes' = [pipes EXCEPT ![id] = 0]
        /\ UNCHANGED <<powershell, starting, readers, request>>
    BY <1>1, <1>3 DEF StopRequest, StopBridge
  <2>3. \A q \in Requests : (Marked(q)' <=> Marked(q)) /\ (Unlisted(q)' <=> Unlisted(q))
    BY <2>2 DEF Marked, Unlisted
  <2> QED
    BY <1>1, <1>2, <2>1, <2>2, <2>3, BridgesKilled
<1>4. ASSUME NEW r \in Requests, NEW id \in Cameras, ReadMJPEG(r, id)
      PROVE  BridgesInv'
  <2>1. PICK ps : Kill(ps) /\ (bridges[id] # 0 => bridges[id] \in ps)
    BY <1>4 DEF ReadMJPEG, StopBridge
  <2>2. /\ bridges' = [bridges EXCEPT ![id] = 0] /\ pipes' = [pipes EXCEPT ![id] = 0]
        /\ UNCHANGED <<powershell, starting, readers>>
    BY <1>1, <1>4 DEF ReadMJPEG, StopBridge
  <2> DEFINE swap == [request[r] EXCEPT !.id = id, !.at = "swap"]
  <2>3. swap \in RequestSet(Len(processes)) /\ swap.at = "swap" /\ swap.id = id
    BY <1>1 DEF RequestSet, Places
  <2>4. request' = [request EXCEPT ![r] = swap] /\ request[r].at = "out"
    <3>1. request[r].at = "out"
      BY <1>4 DEF ReadMJPEG, Free
    <3> QED
      BY <1>4, <1>1, <3>1 DEF ReadMJPEG, RequestSet
  <2> HIDE DEF swap
  <2>5. request' \in [Requests -> RequestSet(Len(processes))] /\ request'[r] = swap
        /\ \A q \in Requests : q # r => request'[q] = request[q]
    BY <1>1, <2>3, <2>4
  <2>6. \A q \in Requests : /\ Marked(q)' => Marked(q) /\ request'[q].id = request[q].id
                            /\ Unlisted(q)' => Unlisted(q)
    BY <2>3, <2>5 DEF Marked, Unlisted
  <2>7. \A q \in Requests : /\ request'[q].at = "insert" <=> request[q].at = "insert"
                            /\ request'[q].at = "insert" => request'[q] = request[q]
                            /\ request'[q].at # "out" => request'[q].id \in Cameras
    BY <1>2, <2>3, <2>4, <2>5
  <2> QED
    BY <1>1, <2>1, <2>2, <2>5, <2>6, <2>7, BridgesKilled
<1>5. ASSUME NEW r \in Requests, NEW id \in Cameras, Snapshot(r, id)
      PROVE  BridgesInv'
  BY <1>4, <1>5 DEF Snapshot
<1>6. ASSUME NEW r \in Requests, KillOrphans(r)
      PROVE  BridgesInv'
  <2>1. PICK ps : Kill(ps)
    BY <1>6 DEF KillOrphans
  <2>2. UNCHANGED <<powershell, bridges, pipes, starting, readers>>
    BY <1>1, <1>6 DEF KillOrphans
  <2>3. request[r].at = "source" /\ "spawn" \in Places
    BY <1>6 DEF KillOrphans, Places
  <2>4. /\ request' \in [Requests -> RequestSet(Len(processes))]
        /\ request'[r].at = "spawn" /\ request'[r].id = request[r].id
        /\ \A q \in Requests : q # r => request'[q] = request[q]
    BY <1>1, <1>6, <2>3, GoesKeeps DEF KillOrphans
  <2>5. \A q \in Requests : /\ Marked(q)' => Marked(q) /\ request'[q].id = request[q].id
                            /\ Unlisted(q)' => Unlisted(q)
    BY <2>3, <2>4 DEF Marked, Unlisted
  <2>6. \A q \in Requests : /\ request'[q].at = "insert" <=> request[q].at = "insert"
                            /\ request'[q].at = "insert" => request'[q] = request[q]
                            /\ request'[q].at # "out" => request'[q].id \in Cameras
    BY <1>2, <2>3, <2>4
  <2> QED
    BY <1>1, <2>1, <2>2, <2>4, <2>5, <2>6, BridgesKilled
<1>7. ASSUME NEW p \in DOMAIN processes, BridgeEnds(p)
      PROVE  BridgesInv'
  <2>1. /\ Kill({p})
        /\ UNCHANGED <<powershell, bridges, pipes, starting, readers, request>>
    BY <1>1, <1>7 DEF BridgeEnds
  <2>2. \A q \in Requests : (Marked(q)' <=> Marked(q)) /\ (Unlisted(q)' <=> Unlisted(q))
    BY <2>1 DEF Marked, Unlisted
  <2> QED
    BY <1>1, <1>2, <2>1, <2>2, BridgesKilled
<1>8. CASE StopAllBridges
  <2>1. PICK ps : Kill(ps) /\ \A id \in Cameras : bridges[id] \in ps
    BY <1>8 DEF StopAllBridges
  <2>2. /\ bridges' = [id \in Cameras |-> 0] /\ pipes' = [id \in Cameras |-> 0]
        /\ UNCHANGED <<powershell, starting, readers, request>>
    BY <1>8 DEF StopAllBridges
  <2>3. \A q \in Requests : (Marked(q)' <=> Marked(q)) /\ (Unlisted(q)' <=> Unlisted(q))
    BY <2>2 DEF Marked, Unlisted
  <2> QED
    BY <1>1, <1>2, <2>1, <2>2, <2>3, BridgesKilled
<1> QED
  BY <1>3, <1>4, <1>5, <1>6, <1>7, <1>8

LEMMA SpawnBridgeKeeps ==
    ASSUME BridgesInv, NEW r \in Requests, SpawnBridge(r)
    PROVE  BridgesInv'
<1>1. processes \in Seq(Processes) /\ DOMAIN processes = 1 .. Len(processes) /\ Len(processes) \in Nat
  BY DEF BridgesInv, OwnIds
<1>2. request[r].at = "spawn" /\ request[r].id \in Cameras
  BY DEF SpawnBridge, BridgesInv, OneStart
<1>3. PICK piped \in BOOLEAN :
          processes' = Append(processes,
              [id |-> request[r].id, piped |-> piped, alive |-> TRUE, reaped |-> FALSE])
  BY DEF SpawnBridge
<1> DEFINE new == [id |-> request[r].id, piped |-> piped, alive |-> TRUE, reaped |-> FALSE]
<1>4. new \in Processes /\ new.id = request[r].id
  BY <1>2 DEF Processes
<1> HIDE DEF new
<1>5. /\ processes' \in Seq(Processes) /\ Len(processes') = Len(processes) + 1
      /\ DOMAIN processes' = 1 .. Len(processes) + 1
      /\ processes'[Len(processes')] = new
      /\ \A p \in DOMAIN processes : processes'[p] = processes[p]
  BY <1>1, <1>3, <1>4 DEF new
<1>6. request \in [Requests -> RequestSet(Len(processes))]
  BY DEF BridgesInv, BridgesTypeOK, RequestSet, Places
<1>7. request \in [Requests -> RequestSet(Len(processes'))]
  BY <1>1, <1>5, <1>6 DEF RequestSet
<1> DEFINE carrying == [request[r] EXCEPT !.at = "insert", !.process = Len(processes')]
<1>8. carrying \in RequestSet(Len(processes')) /\ carrying.at = "insert" /\ carrying.id = request[r].id
      /\ carrying.process = Len(processes')
  <2>1. Len(processes') \in 0 .. Len(processes') /\ request[r] \in RequestSet(Len(processes'))
    BY <1>1, <1>5, <1>7
  <2> QED
    BY <2>1 DEF RequestSet, Places
<1>9. request' = [request EXCEPT ![r] = carrying]
  BY <1>7 DEF SpawnBridge, RequestSet
<1> HIDE DEF carrying
<1>10. /\ request' \in [Requests -> RequestSet(Len(processes'))] /\ request'[r] = carrying
       /\ \A q \in Requests : q # r => request'[q] = request[q]
  BY <1>7, <1>8, <1>9
<1>11. UNCHANGED <<powershell, bridges, pipes, starting, readers>>
  BY DEF SpawnBridge
<1>12. BridgesTypeOK'
  <2>1. bridges \in [Cameras -> 0 .. Len(processes')] /\ pipes \in [Cameras -> 0 .. Len(processes')]
    BY <1>1, <1>5 DEF BridgesInv, BridgesTypeOK
  <2> QED
    BY <2>1, <1>10, <1>11 DEF BridgesInv, BridgesTypeOK, RequestSet, Places
<1>13. \A q \in Requests : (Marked(q)' <=> Marked(q)) /\ (Unlisted(q)' <=> Unlisted(q))
                           /\ request'[q].id = request[q].id
                           /\ (request'[q].at = "out" <=> request[q].at = "out")
  BY <1>2, <1>8, <1>10 DEF Marked, Unlisted
<1>14. OneStart'
  BY <1>11, <1>13 DEF BridgesInv, OneStart
<1>15. OwnIds'
  <2>1. ASSUME NEW q \in Requests, request'[q].at = "insert"
        PROVE  /\ request'[q].process \in DOMAIN processes'
               /\ processes'[request'[q].process].id = request'[q].id
    <3>1. CASE q = r
      BY <3>1, <1>1, <1>4, <1>5, <1>8, <1>10
    <3>2. CASE q # r
      <4>1. /\ request'[q] = request[q] /\ request[q].process \in DOMAIN processes
            /\ processes[request[q].process].id = request[q].id
        BY <2>1, <3>2, <1>10 DEF BridgesInv, OwnIds
      <4> QED
        BY <4>1, <1>1, <1>5
    <3> QED
      BY <3>1, <3>2
  <2>2. ASSUME NEW id \in Cameras, bridges'[id] # 0
        PROVE  processes'[bridges'[id]].id = id
    <3>1. bridges'[id] = bridges[id] /\ bridges[id] \in DOMAIN processes
      BY <2>2, <1>1, <1>11 DEF BridgesInv, BridgesTypeOK
    <3> QED
      BY <2>2, <3>1, <1>5, <1>11 DEF BridgesInv, OwnIds
  <2> QED
    BY <2>1, <2>2, <1>5 DEF OwnIds
<1>16. BridgesAreListed'
  <2>1. ASSUME NEW p \in DOMAIN processes', processes'[p].alive
        PROVE  bridges'[processes'[p].id] = p \/ InHand(p)'
    <3>1. CASE p = Len(processes')
      BY <3>1, <1>8, <1>10 DEF InHand
    <3>2. CASE p # Len(processes')
      <4>1. p \in DOMAIN processes /\ processes'[p] = processes[p]
        BY <3>2, <2>1, <1>1, <1>5
      <4>2. InHand(p) => InHand(p)'
        BY <1>2, <1>10 DEF InHand
      <4> QED
        BY <4>1, <4>2, <2>1, <1>11 DEF BridgesInv, BridgesAreListed
    <3> QED
      BY <3>1, <3>2
  <2> QED
    BY <2>1, <1>11 DEF BridgesInv, BridgesAreListed
<1> QED
  BY <1>12, <1>14, <1>15, <1>16 DEF BridgesInv

LEMMA InsertBridgeKeeps ==
    ASSUME BridgesInv, NEW r \in Requests, InsertBridge(r)
    PROVE  BridgesInv'
<1> DEFINE id == request[r].id
           p == request[r].process
<1>1. /\ request[r].at = "insert" /\ id \in Cameras /\ bridges[id] = 0
      /\ p \in DOMAIN processes /\ processes[p].id = id
      /\ UNCHANGED <<powershell, starting, processes, readers>>
  BY DEF InsertBridge, BridgesInv, OneStart, OwnIds, Unlisted
<1>2. processes \in Seq(Processes) /\ DOMAIN processes = 1 .. Len(processes) /\ Len(processes) \in Nat
  BY DEF BridgesInv, OwnIds
<1>3. request \in [Requests -> RequestSet(Len(processes))]
  BY DEF BridgesInv, BridgesTypeOK, RequestSet, Places
<1>4. /\ request' \in [Requests -> RequestSet(Len(processes))]
      /\ request'[r].at = "finish" /\ request'[r].id = id
      /\ \A q \in Requests : q # r => request'[q] = request[q]
  BY <1>3, GoesKeeps DEF InsertBridge, Places
<1>5. /\ bridges' = [bridges EXCEPT ![id] = p]
      /\ pipes' = [pipes EXCEPT ![id] = IF processes[p].piped THEN p ELSE @]
  BY DEF InsertBridge
<1>6. bridges \in [Cameras -> 0 .. Len(processes)] /\ pipes \in [Cameras -> 0 .. Len(processes)]
  BY DEF BridgesInv, BridgesTypeOK
<1> HIDE DEF id, p
<1>7. /\ bridges' \in [Cameras -> 0 .. Len(processes)] /\ bridges'[id] = p
      /\ \A c \in Cameras : c # id => bridges'[c] = bridges[c]
  BY <1>1, <1>2, <1>5, <1>6
<1>8. /\ pipes' \in [Cameras -> 0 .. Len(processes)] /\ pipes'[id] \in {p, pipes[id]}
      /\ \A c \in Cameras : c # id => pipes'[c] = pipes[c]
  BY <1>1, <1>2, <1>5, <1>6
<1>9. BridgesTypeOK'
  BY <1>1, <1>4, <1>7, <1>8 DEF BridgesInv, BridgesTypeOK, RequestSet, Places
<1>10. \A q \in Requests : (Marked(q)' <=> Marked(q)) /\ request'[q].id = request[q].id
                           /\ (request'[q].at = "out" <=> request[q].at = "out")
                           /\ (Unlisted(q)' => Unlisted(q) /\ q # r)
  BY <1>1, <1>4 DEF Marked, Unlisted, id
<1>11. \A q \in Requests : Unlisted(q)' => request[q].id # id
  BY <1>1, <1>10 DEF BridgesInv, OneStart, Marked, Unlisted, id
<1>12. OneStart'
  <2>1. \A q \in Requests : Unlisted(q)' => bridges'[request'[q].id] = 0
    BY <1>7, <1>10, <1>11 DEF BridgesInv, OneStart, Unlisted
  <2> QED
    BY <1>1, <1>10, <2>1 DEF BridgesInv, OneStart
<1>13. OwnIds'
  <2>1. \A q \in Requests : request'[q].at = "insert" => request'[q] = request[q]
    BY <1>4
  <2> QED
    BY <1>1, <1>7, <2>1 DEF BridgesInv, OwnIds
<1>14. BridgesAreListed'
  <2>1. ASSUME NEW b \in DOMAIN processes, processes[b].alive
        PROVE  bridges'[processes[b].id] = b \/ InHand(b)'
    <3>1. CASE b = p
      BY <3>1, <1>1, <1>7
    <3>2. CASE InHand(b) /\ b # p
      BY <3>2, <1>4 DEF InHand, p
    <3>3. CASE bridges[processes[b].id] = b
      <4>1. processes[b] \in Processes
        BY <1>2
      <4>2. processes[b].id \in Cameras /\ processes[b].id # id
        BY <3>3, <4>1, <1>1, <1>2 DEF Processes
      <4> QED
        BY <3>3, <4>2, <1>7
    <3> QED
      BY <2>1, <3>1, <3>2, <3>3 DEF BridgesInv, BridgesAreListed
  <2>2. ASSUME NEW c \in Cameras, pipes'[c] # 0
        PROVE  pipes'[c] = bridges'[c]
    BY <2>2, <1>1, <1>7, <1>8 DEF BridgesInv, BridgesAreListed
  <2> QED
    BY <1>1, <2>1, <2>2 DEF BridgesAreListed
<1> QED
  BY <1>9, <1>12, <1>13, <1>14 DEF BridgesInv

LEMMA ReapBridgeKeeps ==
    ASSUME BridgesInv, NEW p \in DOMAIN processes, ReapBridge(p)
    PROVE  BridgesInv'
<1>1. processes \in Seq(Processes) /\ DOMAIN processes = 1 .. Len(processes) /\ Len(processes) \in Nat
  BY DEF BridgesInv, OwnIds
<1> DEFINE reaped == [processes[p] EXCEPT !.reaped = TRUE]
           id == processes[p].id
<1>2. processes[p] \in Processes
  BY <1>1
<1>3. /\ reaped \in Processes /\ reaped.id = id /\ reaped.alive = processes[p].alive
      /\ id \in Cameras
  BY <1>2 DEF Processes
<1>4. /\ processes' = [processes EXCEPT ![p] = reaped] /\ ~processes[p].alive
      /\ UNCHANGED <<powershell, starting, readers, request>>
  BY DEF ReapBridge
<1>5. \/ UNCHANGED <<bridges, pipes>>
      \/ bridges[id] = p /\ bridges' = [bridges EXCEPT ![id] = 0] /\ pipes' = [pipes EXCEPT ![id] = 0]
  BY DEF ReapBridge
<1> HIDE DEF reaped, id
<1>6. /\ processes' \in Seq(Processes) /\ Len(processes') = Len(processes)
      /\ DOMAIN processes' = DOMAIN processes
      /\ processes'[p] = reaped
      /\ \A b \in DOMAIN processes : b # p => processes'[b] = processes[b]
  BY <1>1, <1>3, <1>4
<1>7. \A b \in DOMAIN processes : /\ processes'[b].id = processes[b].id
                                  /\ processes'[b].alive => processes[b].alive /\ b # p
  BY <1>3, <1>4, <1>6 DEF id
<1>8. /\ bridges' \in [Cameras -> 0 .. Len(processes)] /\ pipes' \in [Cameras -> 0 .. Len(processes)]
      /\ \A c \in Cameras : \/ bridges'[c] = bridges[c] /\ pipes'[c] = pipes[c]
                            \/ bridges'[c] = 0 /\ pipes'[c] = 0 /\ bridges[c] = p
  BY <1>1, <1>3, <1>5 DEF BridgesInv, BridgesTypeOK
<1>9. BridgesTypeOK'
  BY <1>4, <1>6, <1>8 DEF BridgesInv, BridgesTypeOK
<1>10. \A q \in Requests : (Marked(q)' <=> Marked(q)) /\ (Unlisted(q)' <=> Unlisted(q))
  BY <1>4 DEF Marked, Unlisted
<1>11. OneStart'
  <2>1. \A q \in Requests : Unlisted(q)' => bridges'[request'[q].id] = 0
    BY <1>4, <1>8, <1>10 DEF BridgesInv, OneStart, Unlisted
  <2> QED
    BY <1>4, <1>10, <2>1 DEF BridgesInv, OneStart
<1>12. OwnIds'
  <2>1. ASSUME NEW c \in Cameras, bridges'[c] # 0
        PROVE  processes'[bridges'[c]].id = c
    <3>1. bridges'[c] = bridges[c] /\ bridges[c] \in DOMAIN processes
      BY <2>1, <1>1, <1>8
    <3> QED
      BY <2>1, <3>1, <1>7 DEF BridgesInv, OwnIds
  <2>2. ASSUME NEW q \in Requests, request'[q].at = "insert"
        PROVE  /\ request'[q].process \in DOMAIN processes'
               /\ processes'[request'[q].process].id = request'[q].id
    <3>1. /\ request'[q] = request[q] /\ request[q].process \in DOMAIN processes
          /\ processes[request[q].process].id = request[q].id
      BY <2>2, <1>4 DEF BridgesInv, OwnIds
    <3> QED
      BY <3>1, <1>6, <1>7
  <2> QED
    BY <2>1, <2>2, <1>6 DEF OwnIds
<1>13. BridgesAreListed'
  <2>1. ASSUME NEW b \in DOMAIN processes', processes'[b].alive
        PROVE  bridges'[processes'[b].id] = b \/ InHand(b)'
    <3>1. /\ b \in DOMAIN processes /\ processes[b].alive /\ b # p
          /\ processes'[b].id = processes[b].id
      BY <2>1, <1>6, <1>7
    <3>2. InHand(b) => InHand(b)'
      BY <1>4 DEF InHand
    <3>3. processes[b] \in Processes
      BY <3>1, <1>1
    <3>4. processes[b].id \in Cameras
      BY <3>3 DEF Processes
    <3> QED
      BY <3>1, <3>2, <3>4, <1>8 DEF BridgesInv, BridgesAreListed
  <2>2. ASSUME NEW c \in Cameras, pipes'[c] # 0
        PROVE  pipes'[c] = bridges'[c]
    BY <2>2, <1>8 DEF BridgesInv, BridgesAreListed
  <2> QED
    BY <2>1, <2>2 DEF BridgesAreListed
<1> QED
  BY <1>9, <1>11, <1>12, <1>13 DEF BridgesInv

LEMMA BridgesInvStep == BridgesInv /\ [BridgesNext]_bridgesVars => BridgesInv'
<1> SUFFICES ASSUME BridgesInv, [BridgesNext]_bridgesVars
             PROVE  BridgesInv'
  OBVIOUS
<1>1. CASE UNCHANGED bridgesVars
  BY <1>1 DEF bridgesVars, BridgesInv, BridgesTypeOK, OneStart, OwnIds, BridgesAreListed, Unlisted, Marked, InHand
<1>2. CASE BridgesNext
  <2>1. ASSUME NEW r \in Requests, NEW id \in Cameras,
               StartBridge(r, id) \/ StopRequest(r, id) \/ ReadMJPEG(r, id) \/ Snapshot(r, id)
        PROVE  BridgesInv'
    BY <2>1, BridgesLeftAlone, BridgesStopped
  <2>2. ASSUME NEW r \in Requests,
               CarryStart(r) \/ SwapReader(r) \/ EndReading(r) \/ LeaveReader(r)
        PROVE  BridgesInv'
    BY <2>2, BridgesLeftAlone, BridgesStopped, SpawnBridgeKeeps, InsertBridgeKeeps DEF CarryStart
  <2>3. ASSUME NEW p \in DOMAIN processes, BridgeEnds(p) \/ ReapBridge(p)
        PROVE  BridgesInv'
    BY <2>3, BridgesStopped, ReapBridgeKeeps
  <2>4. CASE StopAllBridges
    BY <2>4, BridgesStopped
  <2> QED
    BY <1>2, <2>1, <2>2, <2>3, <2>4 DEF BridgesNext
<1> QED
  BY <1>1, <1>2

\* A bridge that runs is listed under its id, where a stop finds it, or about to be
\* (stream_handler_h264_bridge.go:64-80, 224-242), for any number of cameras,
\* requests and processes and whatever main stream a sub stream belongs to.
THEOREM BridgesCanBeStopped == BridgesSpec => []BridgesAreListed
<1>1. BridgesInv => BridgesAreListed
  BY DEF BridgesInv
<1> QED
  BY <1>1, BridgesInvInit, BridgesInvStep, PTL DEF BridgesSpec

(***************************************************************************)
(* WhepSessions                                                            *)
(***************************************************************************)

\* An id is drawn once: it is with one request, and then listed or gone.
DrawnOnce ==
    /\ \A r \in WhepRequests :
           IF serving[r].at = "out"
           THEN serving[r].id = 0
           ELSE /\ serving[r].id \in 1 .. offers
                /\ serving[r].id \notin told \cup pruned
                /\ \A q \in WhepRequests : serving[q].id = serving[r].id => q = r
    /\ \A s \in {listed_whep, told, pruned} : s \subseteq 1 .. offers
    /\ \A session \in upstream \cup late : session.id \in 1 .. offers

\* Only a deleted id has a DELETE; a session is asked for once, so that one that
\* may still open late has no location and never will.
AskedOnce ==
    /\ \A id \in Ids : DeleteUnderWay(id) => id \in told
    /\ late \cap upstream = {}
    /\ \A r \in WhepRequests : \A session \in late \cup upstream :
           /\ serving[r].at = "post" => session.id # serving[r].id
           /\ serving[r].at = "post_sub" => session # [id |-> serving[r].id, target |-> "post_sub"]

WhepInv == WhepTypeOK /\ DrawnOnce /\ AskedOnce /\ UpstreamIsOwned

LEMMA WhepInvInit == WhepInit => WhepInv
BY WhepAssumption
   DEF WhepInit, WhepInv, WhepTypeOK, DrawnOnce, AskedOnce, UpstreamIsOwned, Offered, DeleteUnderWay, Ids,
       NotServing

LEMMA WhepInvStep == WhepInv /\ [WhepNext]_whepVars => WhepInv'
<1> SUFFICES ASSUME WhepInv, [WhepNext]_whepVars
             PROVE  WhepInv'
  OBVIOUS
<1> USE WhepAssumption
    DEF WhepInv, WhepTypeOK, DrawnOnce, AskedOnce, UpstreamIsOwned, Offered, DeleteUnderWay, Ids, NotServing,
        Posting, UpstreamSessions, server
<1>1. ASSUME NEW r \in WhepRequests, Offer(r)
      PROVE  WhepInv'
  BY <1>1 DEF Offer
<1>2. ASSUME NEW r \in WhepRequests, PostAnswered(r)
      PROVE  WhepInv'
  BY <1>2 DEF PostAnswered, Asked
<1>3. ASSUME NEW r \in WhepRequests, PostFails(r)
      PROVE  WhepInv'
  BY <1>3 DEF PostFails, Asked
<1>4. ASSUME NEW r \in WhepRequests, StoreSession(r)
      PROVE  WhepInv'
  BY <1>4 DEF StoreSession
<1>5. ASSUME NEW r \in WhepRequests, NEW id \in Ids, Patch(r, id)
      PROVE  WhepInv'
  BY <1>5 DEF Patch, PassOn
<1>6. ASSUME NEW r \in WhepRequests, NEW id \in Ids, Delete(r, id)
      PROVE  WhepInv'
  <2>1. /\ UNCHANGED <<offers, serving, upstream, open_upstream, late, lost, expired, pruned>>
        /\ serving[r].at = "out" /\ id \in listed_whep
        /\ listed_whep' = listed_whep \ {id} /\ told' = told \cup {id}
        /\ in_flight' \in {in_flight, in_flight \cup {<<"delete", id>>}}
        /\ \A session \in upstream : session.id = id => <<"delete", id>> \in in_flight'
    BY <1>6 DEF Delete, PassOn, Located
  <2>2. \A i \in Ids : DeleteUnderWay(i)' => DeleteUnderWay(i) \/ i = id
    BY <2>1
  <2>3. WhepTypeOK' /\ DrawnOnce' /\ AskedOnce'
    BY <2>1, <2>2
  <2>4. ASSUME NEW session \in (open_upstream \cap upstream)'
        PROVE  \/ Offered(session.id)'
               \/ session.id \in (listed_whep \cup pruned)'
               \/ DeleteUnderWay(session.id)'
    BY <2>1, <2>4
  <2>5. /\ \A i \in listed_whep' :
               ~Offered(i)' /\ i \notin (told \cup pruned)' /\ ~DeleteUnderWay(i)'
        /\ (told \cap pruned = {} /\ pruned \subseteq expired)'
    BY <2>1, <2>2
  <2> QED
    BY <2>3, <2>4, <2>5
<1>7. ASSUME NEW c \in in_flight, CallReturns(c)
      PROVE  WhepInv'
  BY <1>7 DEF CallReturns
<1>8. ASSUME NEW session \in UpstreamSessions, UpstreamOpensLate(session) \/ UpstreamEnds(session)
      PROVE  WhepInv'
  BY <1>8 DEF UpstreamOpensLate, UpstreamEnds
<1>9. ASSUME NEW id \in Ids, Expire(id)
      PROVE  WhepInv'
  BY <1>9 DEF Expire
<1>10. CASE Prune
  <2>1. /\ UNCHANGED <<offers, serving, upstream, open_upstream, late, lost, expired, in_flight, told>>
        /\ pruned' = pruned \cup (listed_whep \cap expired) /\ listed_whep' = listed_whep \ expired
    BY <1>10 DEF Prune
  <2>2. WhepTypeOK' /\ AskedOnce'
    BY <2>1
  <2>3. DrawnOnce'
    BY <2>1
  <2> QED
    BY <2>1, <2>2, <2>3
<1>11. CASE UNCHANGED whepVars
  BY <1>11 DEF whepVars
<1> QED
  BY <1>1, <1>2, <1>3, <1>4, <1>5, <1>6, <1>7, <1>8, <1>9, <1>10, <1>11 DEF WhepNext

\* Every session that the media server has open and whose location came back is
\* about to be listed, listed, being deleted (its DELETE on the way, or lost there),
\* or expired and pruned; and an id is never two of these, for any number of requests
\* and offers, with answers that are late, lost or without a location
\* (stream_service_whep.go:42-80, 124-166).
THEOREM WhepUpstreamIsOwned == WhepSpec => []UpstreamIsOwned
<1>1. WhepInv => UpstreamIsOwned
  BY DEF WhepInv
<1> QED
  BY <1>1, WhepInvInit, WhepInvStep, PTL DEF WhepSpec

(***************************************************************************)
(* Fragments                                                               *)
(***************************************************************************)

\* Numbers only grow; who holds the lock is the last that wrote its file; what a
\* request looked up, or is about to announce, is listed or was.
UploadsOrdered ==
    /\ \A frag \in FragmentIds : files[frag].by <= uploads /\ fragments[frag] <= uploads
    /\ \A n \in with_data \cup announced : n <= uploads
    /\ \A u \in Uploaders :
           /\ uploading[u].at # "out" =>
                  uploading[u].frag \in FragmentIds /\ uploading[u].upload # 0
           /\ uploading[u].at = "write" =>
                  /\ repo_lock = u
                  /\ files[uploading[u].frag].by = uploading[u].upload
           /\ uploading[u].at = "announce" => uploading[u].upload <= fragments[uploading[u].frag]
    /\ \A d \in Downloaders :
           downloading[d].at = "found" =>
               /\ downloading[d].frag \in FragmentIds
               /\ downloading[d].upload <= uploads
               /\ downloading[d].upload \in with_data =>
                      WholeSince(files[downloading[d].frag], downloading[d].upload)

\* An upload that is written has the largest number there is.
WriterIsLast ==
    \A u \in Uploaders : uploading[u].at = "write" => uploading[u].upload = uploads

\* What was served has been there.
ServedBefore ==
    \A d \in Downloaders : downloading[d].upload <= uploads

FragmentsInv ==
    FragmentsTypeOK /\ UploadsOrdered /\ WriterIsLast /\ ServedBefore /\ FragmentsAreWhole

LEMMA FragmentsInvInit == FragmentsInit => FragmentsInv
BY FragmentsAssumption
   DEF FragmentsInit, FragmentsInv, FragmentsTypeOK, UploadsOrdered, WriterIsLast, ServedBefore,
       FragmentsAreWhole, WholeSince, FileStates, NoUpload, NoFile, NoDownload

\* The sets of the variables.
LEMMA FragmentsTypeStep == FragmentsTypeOK /\ UploadsOrdered /\ [FragmentsNext]_fragmentVars => FragmentsTypeOK'
<1> SUFFICES ASSUME FragmentsTypeOK, UploadsOrdered, [FragmentsNext]_fragmentVars
             PROVE  FragmentsTypeOK'
  OBVIOUS
<1> USE FragmentsAssumption DEF FragmentsTypeOK, FileStates, NoUpload, NoFile
<1>1. ASSUME NEW u \in Uploaders, NEW frag \in FragmentIds, BeginSave(u, frag) \/ SaveMetadata(u, frag)
      PROVE  FragmentsTypeOK'
  <2>1. CASE BeginSave(u, frag)
    BY <2>1 DEF BeginSave
  <2>2. CASE SaveMetadata(u, frag)
    BY <2>2 DEF SaveMetadata
  <2> QED
    BY <1>1, <2>1, <2>2
<1>2. ASSUME NEW u \in Uploaders, FinishSave(u) \/ SaveFails(u) \/ AnnounceSegment(u)
      PROVE  FragmentsTypeOK'
  <2>1. uploading[u].at # "out"
    BY <1>2 DEF FinishSave, SaveFails, AnnounceSegment
  <2>2. uploading[u].frag \in FragmentIds /\ uploading[u].upload \in 1 .. MaxUploads
    BY <2>1 DEF UploadsOrdered
  <2>3. CASE FinishSave(u)
    <3> DEFINE f == uploading[u].frag
               file == [files[f] EXCEPT !.whole = TRUE]
               upload == [uploading[u] EXCEPT !.at = "announce"]
    <3>1. file \in FileStates
      <4>1. files[f] \in FileStates
        BY <2>2
      <4> QED
        BY <4>1
    <3>2. files' = [files EXCEPT ![f] = file]
      BY <2>2, <2>3 DEF FinishSave
    <3>3. /\ upload \in [at : {"out", "write", "announce"}, upload : 0 .. MaxUploads,
                        frag : FragmentIds \cup {"none"}]
          /\ uploading' = [uploading EXCEPT ![u] = upload]
      BY <2>3 DEF FinishSave
    <3> HIDE DEF file, upload, f
    <3>4. files' \in [FragmentIds -> FileStates]
      BY <3>1, <3>2
    <3>5. fragments' \in [FragmentIds -> 0 .. MaxUploads]
      BY <2>2, <2>3 DEF FinishSave
    <3> QED
      BY <2>3, <3>3, <3>4, <3>5 DEF FinishSave
  <2>4. CASE SaveFails(u)
    BY <2>4 DEF SaveFails
  <2>5. CASE AnnounceSegment(u)
    <3>1. announced' \subseteq 1 .. MaxUploads
      BY <2>2, <2>5 DEF AnnounceSegment
    <3> QED
      BY <2>5, <3>1 DEF AnnounceSegment
  <2> QED
    BY <1>2, <2>3, <2>4, <2>5
<1>3. ASSUME NEW d \in Downloaders, NEW frag \in FragmentIds, Find(d, frag)
      PROVE  FragmentsTypeOK'
  BY <1>3 DEF Find
<1>4. ASSUME NEW d \in Downloaders, Serve(d)
      PROVE  FragmentsTypeOK'
  <2>1. downloading[d].frag \in FragmentIds
    BY <1>4 DEF Serve, UploadsOrdered
  <2> DEFINE file == files[downloading[d].frag]
             download == [downloading[d] EXCEPT !.at = "out", !.got = file]
  <2>2. file \in FileStates
    BY <2>1
  <2>3. downloading' = [downloading EXCEPT ![d] = download]
    BY <1>4 DEF Serve
  <2>4. download \in [at : {"out", "found"}, upload : 0 .. MaxUploads,
                      frag : FragmentIds \cup {"none"}, got : FileStates]
    BY <2>2
  <2> HIDE DEF file, download
  <2>5. downloading' \in [Downloaders -> [at : {"out", "found"}, upload : 0 .. MaxUploads,
                          frag : FragmentIds \cup {"none"}, got : FileStates]]
    BY <2>3, <2>4
  <2>6. UNCHANGED <<uploads, fragments, files, with_data, repo_lock, uploading, announced>>
    BY <1>4 DEF Serve
  <2> QED
    BY <2>5, <2>6
<1>5. CASE UNCHANGED fragmentVars
  BY <1>5 DEF fragmentVars
<1> QED
  BY <1>1, <1>2, <1>3, <1>4, <1>5 DEF FragmentsNext

LEMMA FragmentsInvStep == FragmentsInv /\ [FragmentsNext]_fragmentVars => FragmentsInv'
<1> SUFFICES ASSUME FragmentsInv, [FragmentsNext]_fragmentVars
             PROVE  FragmentsInv'
  OBVIOUS
<1> USE FragmentsAssumption
    DEF FragmentsInv, FragmentsTypeOK, UploadsOrdered, WriterIsLast, ServedBefore,
        FragmentsAreWhole, WholeSince, FileStates, NoUpload, NoFile
<1>0. FragmentsTypeOK'
  BY FragmentsTypeStep DEF FragmentsInv
<1>1. ASSUME NEW u \in Uploaders, NEW frag \in FragmentIds, BeginSave(u, frag)
      PROVE  FragmentsInv'
  <2>1. UploadsOrdered'
    BY <1>1 DEF BeginSave
  <2>2. WriterIsLast' /\ ServedBefore'
    BY <1>1 DEF BeginSave
  <2>3. FragmentsAreWhole'
    <3>1. \A f \in FragmentIds : fragments'[f] \in with_data' => WholeSince(files'[f], fragments'[f])
      BY <1>1 DEF BeginSave
    <3>2. \A d \in Downloaders :
              downloading'[d].at = "out" /\ downloading'[d].upload \in with_data' =>
                  WholeSince(downloading'[d].got, downloading'[d].upload)
      BY <1>1 DEF BeginSave
    <3>3. \A n \in announced' : \E f \in FragmentIds : n <= fragments'[f]
      BY <1>1 DEF BeginSave
    <3> QED
      BY <3>1, <3>2, <3>3
  <2> QED
    BY <1>0, <2>1, <2>2, <2>3
<1>2. ASSUME NEW u \in Uploaders, NEW frag \in FragmentIds, SaveMetadata(u, frag)
      PROVE  FragmentsInv'
  <2>1. UploadsOrdered'
    BY <1>2 DEF SaveMetadata
  <2>2. WriterIsLast' /\ ServedBefore'
    BY <1>2 DEF SaveMetadata
  <2>3. FragmentsAreWhole'
    BY <1>2 DEF SaveMetadata
  <2> QED
    BY <1>0, <2>1, <2>2, <2>3
<1>3. ASSUME NEW u \in Uploaders, FinishSave(u)
      PROVE  FragmentsInv'
  <2>1. UploadsOrdered'
    BY <1>3 DEF FinishSave
  <2>2. WriterIsLast' /\ ServedBefore'
    BY <1>3 DEF FinishSave
  <2>3. FragmentsAreWhole'
    <3>1. \A f \in FragmentIds : fragments'[f] \in with_data' => WholeSince(files'[f], fragments'[f])
      BY <1>3 DEF FinishSave
    <3>2. \A d \in Downloaders :
              downloading'[d].at = "out" /\ downloading'[d].upload \in with_data' =>
                  WholeSince(downloading'[d].got, downloading'[d].upload)
      BY <1>3 DEF FinishSave
    <3>3. \A n \in announced' : \E f \in FragmentIds : n <= fragments'[f]
      BY <1>3 DEF FinishSave
    <3> QED
      BY <3>1, <3>2, <3>3
  <2> QED
    BY <1>0, <2>1, <2>2, <2>3
<1>4. ASSUME NEW u \in Uploaders, SaveFails(u)
      PROVE  FragmentsInv'
  <2>1. UploadsOrdered'
    BY <1>4 DEF SaveFails
  <2>2. WriterIsLast' /\ ServedBefore'
    BY <1>4 DEF SaveFails
  <2>3. FragmentsAreWhole'
    BY <1>4 DEF SaveFails
  <2> QED
    BY <1>0, <2>1, <2>2, <2>3
<1>5. ASSUME NEW u \in Uploaders, AnnounceSegment(u)
      PROVE  FragmentsInv'
  <2>1. UploadsOrdered'
    BY <1>5 DEF AnnounceSegment
  <2>2. WriterIsLast' /\ ServedBefore'
    BY <1>5 DEF AnnounceSegment
  <2>3. FragmentsAreWhole'
    BY <1>5 DEF AnnounceSegment
  <2> QED
    BY <1>0, <2>1, <2>2, <2>3
<1>6. ASSUME NEW d \in Downloaders, NEW frag \in FragmentIds, Find(d, frag)
      PROVE  FragmentsInv'
  <2>1. UploadsOrdered'
    BY <1>6 DEF Find
  <2>2. WriterIsLast' /\ ServedBefore'
    BY <1>6 DEF Find
  <2>3. FragmentsAreWhole'
    BY <1>6 DEF Find
  <2> QED
    BY <1>0, <2>1, <2>2, <2>3
<1>7. ASSUME NEW d \in Downloaders, Serve(d)
      PROVE  FragmentsInv'
  <2>1. UploadsOrdered'
    BY <1>7 DEF Serve
  <2>2. WriterIsLast' /\ ServedBefore'
    BY <1>7 DEF Serve
  <2>3. FragmentsAreWhole'
    BY <1>7 DEF Serve
  <2> QED
    BY <1>0, <2>1, <2>2, <2>3
<1>8. CASE UNCHANGED fragmentVars
  BY <1>8 DEF fragmentVars
<1> QED
  BY <1>1, <1>2, <1>3, <1>4, <1>5, <1>6, <1>7, <1>8 DEF FragmentsNext

\* What is listed and announced can be had, for any uploads and downloads
\* (fragment_repository.go:37-81, fragment_handler.go:252-266).
THEOREM FragmentsListedAreWhole == FragmentsSpec => []FragmentsAreWhole
<1>1. FragmentsInv => FragmentsAreWhole
  BY DEF FragmentsInv
<1> QED
  BY <1>1, FragmentsInvInit, FragmentsInvStep, PTL DEF FragmentsSpec

(***************************************************************************)
(* RingLogger                                                              *)
(***************************************************************************)

\* What a sequence holds is of its type.
LEMMA ElementOf ==
    ASSUME NEW S, NEW q \in Seq(S), NEW i \in 1 .. Len(q)
    PROVE  q[i] \in S
OBVIOUS

\* Writers whose entry was counted and is not in the ring yet, and those whose
\* entry was not counted yet.
Counted == {w \in Writers : writing[w].at \in {"count_error", "append"}}
Uncounted == {w \in Writers : writing[w].at = "count"}

\* Writers whose error was counted, and the errors logged.
ErrorsCounted == {w \in Writers : writing[w].at = "append" /\ writing[w].entry.error}
LoggedErrors == {i \in 1 .. Len(logged) : logged[i].error}

\* The totals are what is logged and what is about to be.
TotalsAgree ==
    /\ total_logs = Len(logged) + Cardinality(Counted)
    /\ total_logs + Cardinality(Uncounted) = next_id
    /\ total_errs = Cardinality(LoggedErrors) + Cardinality(ErrorsCounted)

\* Only errors are counted as errors.
ErrorsOnly == \A w \in Writers : writing[w].at = "count_error" => writing[w].entry.error

\* A number is with one writer or one entry.
NumbersDiffer ==
    /\ \A w \in Writers : writing[w].at # "out" =>
           /\ writing[w].entry.id \in 1 .. next_id
           /\ \A v \in Writers : writing[v].at # "out" /\ writing[v].entry.id = writing[w].entry.id => v = w
           /\ \A i \in 1 .. Len(logged) : logged[i].id # writing[w].entry.id
    /\ \A i \in 1 .. Len(logged) : logged[i].id <= next_id
    /\ \A i, j \in 1 .. Len(logged) : logged[i].id = logged[j].id => i = j

\* The ring is the end of the log.
RingIsTail ==
    /\ Len(ring) = IF Len(logged) < Capacity THEN Len(logged) ELSE Capacity
    /\ \A i \in 1 .. Len(ring) : ring[i] = logged[Len(logged) - Len(ring) + i]

\* The last error is the newest of the errors logged.
LastErrorOK ==
    \/ last_error = NoEntry /\ \A i \in 1 .. Len(logged) : ~logged[i].error
    \/ \E i \in 1 .. Len(logged) :
           /\ logged[i] = last_error /\ last_error.error
           /\ \A j \in i + 1 .. Len(logged) : ~logged[j].error

LoggerInv == LoggerTypeOK /\ TotalsAgree /\ ErrorsOnly /\ NumbersDiffer /\ RingIsTail /\ LastErrorOK

\* Writers are finite in number, and so are those at any place.
LEMMA WritersFinite ==
    ASSUME NEW S \in SUBSET Writers
    PROVE  IsFiniteSet(S) /\ Cardinality(S) \in Nat
BY LoggerAssumption, FS_Subset, FS_CardinalityType

\* A writer that comes to a place or leaves it moves the number there by one.
LEMMA WritersMove ==
    ASSUME NEW S \in SUBSET Writers, NEW w \in Writers
    PROVE  /\ w \notin S => Cardinality(S \cup {w}) = Cardinality(S) + 1
           /\ w \in S => Cardinality(S \ {w}) = Cardinality(S) - 1
BY WritersFinite, FS_AddElement, FS_RemoveElement

\* What an entry appended to the log leaves of it.
LEMMA Logged ==
    ASSUME LoggerTypeOK, NEW e \in [id : 1 .. MaxEntries, error : BOOLEAN], logged' = Append(logged, e)
    PROVE  /\ Len(logged) \in Nat /\ Len(logged') = Len(logged) + 1
           /\ logged'[Len(logged) + 1] = e
           /\ \A i \in 1 .. Len(logged) : logged'[i] = logged[i]
           /\ logged' \in Seq([id : 1 .. MaxEntries, error : BOOLEAN])
BY DEF LoggerTypeOK

\* The errors logged grow by an error and by nothing else.
LEMMA ErrorLogged ==
    ASSUME LoggerTypeOK, NEW e \in [id : 1 .. MaxEntries, error : BOOLEAN], logged' = Append(logged, e)
    PROVE  /\ Cardinality(LoggedErrors) \in Nat
           /\ e.error => Cardinality(LoggedErrors') = Cardinality(LoggedErrors) + 1
           /\ ~e.error => LoggedErrors' = LoggedErrors
<1>1. Len(logged) \in Nat
  BY DEF LoggerTypeOK
<1>2. IsFiniteSet(LoggedErrors) /\ Cardinality(LoggedErrors) \in Nat
  <2>1. IsFiniteSet(1 .. Len(logged))
    BY <1>1, FS_Interval
  <2> QED
    BY <2>1, FS_Subset, FS_CardinalityType DEF LoggedErrors
<1>3. LoggedErrors' = IF e.error THEN LoggedErrors \cup {Len(logged) + 1} ELSE LoggedErrors
  BY Logged DEF LoggedErrors
<1>4. Len(logged) + 1 \notin LoggedErrors
  BY <1>1 DEF LoggedErrors
<1> QED
  BY <1>2, <1>3, <1>4, FS_AddElement

LEMMA LoggerInvInit == LoggerInit => LoggerInv
<1> SUFFICES ASSUME LoggerInit PROVE LoggerInv
  OBVIOUS
<1>1. Len(logged) = 0 /\ Len(ring) = 0 /\ Counted = {} /\ Uncounted = {} /\ ErrorsCounted = {}
      /\ LoggedErrors = {}
  BY DEF LoggerInit, Counted, Uncounted, ErrorsCounted, LoggedErrors
<1>2. LoggerTypeOK
  BY LoggerAssumption DEF LoggerInit, LoggerTypeOK, NoEntry
<1>3. TotalsAgree
  BY <1>1, FS_EmptySet DEF LoggerInit, TotalsAgree
<1> QED
  BY <1>1, <1>2, <1>3, LoggerAssumption
     DEF LoggerInit, LoggerInv, ErrorsOnly, NumbersDiffer, RingIsTail, LastErrorOK

\* A writer that takes a number or counts leaves ring and log alone.
LEMMA NumberKeeps ==
    ASSUME LoggerInv, NEW w \in Writers, NEW error \in BOOLEAN, Number(w, error)
    PROVE  LoggerInv'
<1> USE DEF LoggerInv
<1>1. /\ writing[w].at = "out" /\ next_id < MaxEntries /\ next_id' = next_id + 1
      /\ writing' = [writing EXCEPT ![w] = [at |-> "count", entry |-> [id |-> next_id + 1, error |-> error]]]
      /\ UNCHANGED <<total_logs, total_errs, ring, last_error, logged>>
  BY DEF Number
<1>2. next_id \in Nat /\ total_logs \in Nat /\ Len(logged) \in Nat
  BY LoggerAssumption DEF LoggerTypeOK
<1>3. LoggerTypeOK'
  BY <1>1, <1>2, LoggerAssumption DEF LoggerTypeOK
<1>4. Counted' = Counted /\ ErrorsCounted' = ErrorsCounted /\ LoggedErrors' = LoggedErrors
      /\ Uncounted' = Uncounted \cup {w} /\ w \notin Uncounted
  BY <1>1 DEF LoggerTypeOK, Counted, ErrorsCounted, LoggedErrors, Uncounted
<1>5. Cardinality(Uncounted) \in Nat /\ Cardinality(Uncounted') = Cardinality(Uncounted) + 1
  BY <1>4, WritersFinite, WritersMove DEF Uncounted
<1>6. TotalsAgree'
  BY <1>1, <1>2, <1>4, <1>5 DEF TotalsAgree
<1>7. NumbersDiffer'
  <2>1. /\ writing'[w].entry.id = next_id + 1 /\ writing'[w].at # "out"
        /\ \A v \in Writers : v # w => writing'[v] = writing[v]
    BY <1>1 DEF LoggerTypeOK
  <2>2. \A v \in Writers : writing[v].at # "out" => writing[v].entry.id \in 1 .. next_id
    BY DEF NumbersDiffer
  <2>3. \A i \in 1 .. Len(logged) : logged[i].id \in Nat /\ logged[i].id <= next_id
    <3> SUFFICES ASSUME NEW i \in 1 .. Len(logged) PROVE logged[i].id \in Nat /\ logged[i].id <= next_id
      OBVIOUS
    <3>1. logged[i] \in [id : 1 .. MaxEntries, error : BOOLEAN]
      <4>1. logged \in Seq([id : 1 .. MaxEntries, error : BOOLEAN])
        BY DEF LoggerTypeOK
      <4> QED
        BY <4>1, ElementOf
    <3> QED
      BY <3>1, LoggerAssumption DEF NumbersDiffer
  <2> QED
    BY <1>1, <1>2, <2>1, <2>2, <2>3 DEF NumbersDiffer
<1>9. ErrorsOnly'
  BY <1>1 DEF ErrorsOnly, LoggerTypeOK
<1>8. RingIsTail' /\ LastErrorOK'
  BY <1>1 DEF RingIsTail, LastErrorOK
<1> QED
  BY <1>3, <1>6, <1>7, <1>8, <1>9

LEMMA CountKeeps ==
    ASSUME LoggerInv, NEW w \in Writers, Count(w) \/ CountError(w)
    PROVE  LoggerInv'
<1> USE DEF LoggerInv
<1>2. next_id \in Nat /\ total_logs \in Nat /\ total_errs \in Nat /\ Len(logged) \in Nat
  BY LoggerAssumption DEF LoggerTypeOK
<1>3. /\ Cardinality(Counted) \in Nat /\ Cardinality(Uncounted) \in Nat /\ Cardinality(ErrorsCounted) \in Nat
      /\ Cardinality(LoggedErrors) \in Nat
  <2>1. IsFiniteSet(LoggedErrors)
    <3>1. IsFiniteSet(1 .. Len(logged))
      BY <1>2, FS_Interval
    <3> QED
      BY <3>1, FS_Subset DEF LoggedErrors
  <2> QED
    BY <2>1, WritersFinite, FS_CardinalityType DEF Counted, Uncounted, ErrorsCounted
<1>1. UNCHANGED <<next_id, ring, last_error, logged>>
  BY DEF Count, CountError
<1>a. TotalsAgree
  OBVIOUS
<1>4. /\ \A v \in Writers : /\ writing'[v].at = "out" <=> writing[v].at = "out"
                            /\ writing'[v].entry = writing[v].entry
  <2>1. CASE Count(w)
    BY <2>1 DEF Count, LoggerTypeOK
  <2>2. CASE CountError(w)
    BY <2>2 DEF CountError, LoggerTypeOK
  <2> QED
    BY <2>1, <2>2
<1>9. /\ writing' \in [Writers -> [at : {"out", "count", "count_error", "append"},
                                   entry : [id : 0 .. MaxEntries, error : BOOLEAN]]]
      /\ ErrorsOnly'
  <2>1. CASE Count(w)
    BY <2>1 DEF Count, LoggerTypeOK, ErrorsOnly
  <2>2. CASE CountError(w)
    BY <2>2 DEF CountError, LoggerTypeOK, ErrorsOnly
  <2> QED
    BY <2>1, <2>2
<1>5. NumbersDiffer'
  <2>1. NumbersDiffer
    OBVIOUS
  <2> QED
    BY <1>1, <1>4, <2>1 DEF NumbersDiffer
<1>6. RingIsTail' /\ LastErrorOK' /\ LoggedErrors' = LoggedErrors
  BY <1>1 DEF RingIsTail, LastErrorOK, LoggedErrors
<1>7. TotalsAgree'
  <2>1. CASE Count(w) /\ writing[w].entry.error
    <3>1. /\ total_logs' = total_logs + 1 /\ UNCHANGED total_errs
          /\ Counted' = Counted \cup {w} /\ w \notin Counted
          /\ Uncounted' = Uncounted \ {w} /\ w \in Uncounted
          /\ ErrorsCounted' = ErrorsCounted
      BY <2>1 DEF Count, LoggerTypeOK, Counted, Uncounted, ErrorsCounted
    <3>2. Cardinality(Counted') = Cardinality(Counted) + 1 /\ Cardinality(Uncounted') = Cardinality(Uncounted) - 1
      BY <3>1, WritersMove DEF Counted, Uncounted
    <3>3. Cardinality(LoggedErrors') = Cardinality(LoggedErrors)
      BY <1>6
    <3> QED
      BY <1>a, <1>1, <1>2, <1>3, <3>1, <3>2, <3>3, SMTT(30) DEF TotalsAgree
  <2>2. CASE Count(w) /\ ~writing[w].entry.error
    <3>1. /\ total_logs' = total_logs + 1 /\ UNCHANGED total_errs
          /\ Counted' = Counted \cup {w} /\ w \notin Counted
          /\ Uncounted' = Uncounted \ {w} /\ w \in Uncounted
          /\ ErrorsCounted' = ErrorsCounted
      BY <2>2 DEF Count, LoggerTypeOK, Counted, Uncounted, ErrorsCounted
    <3>2. Cardinality(Counted') = Cardinality(Counted) + 1 /\ Cardinality(Uncounted') = Cardinality(Uncounted) - 1
      BY <3>1, WritersMove DEF Counted, Uncounted
    <3>3. Cardinality(LoggedErrors') = Cardinality(LoggedErrors)
      BY <1>6
    <3> QED
      BY <1>a, <1>1, <1>2, <1>3, <3>1, <3>2, <3>3, SMTT(30) DEF TotalsAgree
  <2>3. CASE CountError(w)
    <3>0. writing[w].entry.error
      BY <2>3 DEF CountError, ErrorsOnly
    <3>1. /\ total_errs' = total_errs + 1 /\ UNCHANGED total_logs
          /\ Counted' = Counted /\ Uncounted' = Uncounted
          /\ ErrorsCounted' = ErrorsCounted \cup {w} /\ w \notin ErrorsCounted
      BY <2>3, <3>0 DEF CountError, LoggerTypeOK, Counted, Uncounted, ErrorsCounted
    <3>2. Cardinality(ErrorsCounted') = Cardinality(ErrorsCounted) + 1
      BY <3>1, WritersMove DEF ErrorsCounted
    <3>3. Cardinality(LoggedErrors') = Cardinality(LoggedErrors)
      BY <1>6
    <3> QED
      BY <1>a, <1>1, <1>2, <1>3, <3>1, <3>2, <3>3, SMTT(30) DEF TotalsAgree
  <2> QED
    BY <2>1, <2>2, <2>3
<1>8. LoggerTypeOK'
  <2>1. total_logs' \in 0 .. MaxEntries /\ total_errs' \in 0 .. MaxEntries
    <3>1. Cardinality(Counted') \in Nat /\ Cardinality(Uncounted') \in Nat /\ Cardinality(ErrorsCounted') \in Nat
      BY WritersFinite DEF Counted, Uncounted, ErrorsCounted
    <3>2. total_logs' \in Nat /\ total_errs' \in Nat /\ next_id' \in 0 .. MaxEntries /\ MaxEntries \in Nat
      BY <1>1, <1>2, LoggerAssumption DEF Count, CountError, LoggerTypeOK
    <3>3. total_logs' <= next_id'
      BY <1>7, <3>1, <3>2 DEF TotalsAgree
    <3>4. Cardinality(ErrorsCounted') <= Cardinality(Counted')
      <4>1. ErrorsCounted' \subseteq Counted' /\ IsFiniteSet(Counted')
        BY WritersFinite DEF Counted, ErrorsCounted
      <4> QED
        BY <4>1, FS_Subset
    <3>5. Cardinality(LoggedErrors') <= Len(logged')
      <4>1. LoggedErrors' \subseteq 1 .. Len(logged') /\ Len(logged') \in Nat
        BY <1>1, <1>2 DEF LoggedErrors
      <4>2. IsFiniteSet(1 .. Len(logged')) /\ Cardinality(1 .. Len(logged')) = Len(logged')
        BY <4>1, FS_Interval
      <4> QED
        BY <4>1, <4>2, FS_Subset
    <3>6. total_errs' <= total_logs'
      <4>1. Cardinality(LoggedErrors') \in Nat /\ Len(logged') \in Nat
        BY <1>1, <1>2, <1>3, <1>6
      <4>2. /\ total_logs' = Len(logged') + Cardinality(Counted')
            /\ total_errs' = Cardinality(LoggedErrors') + Cardinality(ErrorsCounted')
        BY <1>7 DEF TotalsAgree
      <4> QED
        BY <3>1, <3>4, <3>5, <4>1, <4>2
    <3> QED
      BY <3>2, <3>3, <3>6
  <2> QED
    BY <1>1, <1>9, <2>1 DEF LoggerTypeOK
<1> QED
  BY <1>5, <1>6, <1>7, <1>8, <1>9

\* An entry goes into the ring and into the log at once, and the oldest leaves a
\* full ring.
LEMMA AppendKeeps ==
    ASSUME LoggerInv, NEW w \in Writers, AppendEntry(w)
    PROVE  LoggerInv'
<1> DEFINE e == writing[w].entry
           E == [id : 1 .. MaxEntries, error : BOOLEAN]
<1>a. LoggerTypeOK /\ TotalsAgree /\ ErrorsOnly /\ NumbersDiffer /\ RingIsTail /\ LastErrorOK
  BY DEF LoggerInv
<1>1. /\ writing[w].at = "append" /\ ring' = Evicting(ring, e) /\ logged' = Append(logged, e)
      /\ last_error' = (IF e.error THEN e ELSE last_error)
      /\ writing' = [writing EXCEPT ![w] = [at |-> "out", entry |-> NoEntry]]
      /\ UNCHANGED <<next_id, total_logs, total_errs>>
  BY DEF AppendEntry
<1>2. e \in E
  <2>1. e \in [id : 0 .. MaxEntries, error : BOOLEAN] /\ e.id \in 1 .. next_id
    BY <1>a, <1>1 DEF LoggerTypeOK, NumbersDiffer
  <2>2. next_id \in 0 .. MaxEntries
    BY <1>a DEF LoggerTypeOK
  <2> QED
    BY <2>1, <2>2, LoggerAssumption
<1>3. /\ Len(logged) \in Nat /\ Len(logged') = Len(logged) + 1
      /\ logged'[Len(logged) + 1] = e
      /\ \A i \in 1 .. Len(logged) : logged'[i] = logged[i]
      /\ logged' \in Seq(E)
  BY <1>a, <1>1, <1>2, Logged
<1>4. ring \in Seq(E) /\ Len(ring) \in Nat /\ Capacity \in Nat \ {0}
  BY <1>a, LoggerAssumption DEF LoggerTypeOK
<1> HIDE DEF e, E
<1>5. RingIsTail' /\ ring' \in Seq(E)
  <2>0. /\ Len(ring) = IF Len(logged) < Capacity THEN Len(logged) ELSE Capacity
        /\ \A i \in 1 .. Len(ring) : ring[i] = logged[Len(logged) - Len(ring) + i]
    BY <1>a DEF RingIsTail
  <2>1. CASE Len(ring) < Capacity
    <3>1. ring' = Append(ring, e) /\ Len(ring') = Len(ring) + 1 /\ ring' \in Seq(E)
      BY <1>1, <1>2, <1>4, <2>1 DEF Evicting
    <3>2. \A i \in 1 .. Len(ring) : ring'[i] = ring[i]
      BY <1>2, <1>4, <3>1
    <3>3. ring'[Len(ring) + 1] = e
      BY <1>2, <1>4, <3>1
    <3>4. Len(ring) = Len(logged) /\ Len(ring') = Len(logged')
      BY <1>3, <1>4, <2>0, <2>1, <3>1
    <3>5. ASSUME NEW i \in 1 .. Len(ring') PROVE ring'[i] = logged'[Len(logged') - Len(ring') + i]
      <4>0. Len(logged') \in Nat /\ i \in Nat
        BY <1>3, <3>4
      <4>1. Len(logged') - Len(ring') + i = i
        BY <3>4, <4>0
      <4>2. CASE i = Len(ring) + 1
        BY <1>3, <3>3, <3>4, <4>1, <4>2
      <4>3. CASE i # Len(ring) + 1
        <5>1. i \in 1 .. Len(ring)
          BY <1>4, <3>1, <4>3
        <5>2. ring'[i] = ring[i] /\ ring[i] = logged[Len(logged) - Len(ring) + i] /\ logged'[i] = logged[i]
          BY <1>3, <2>0, <3>2, <3>4, <5>1
        <5>3. Len(logged) - Len(ring) + i = i
          BY <1>3, <3>4, <4>0
        <5> QED
          BY <4>1, <5>2, <5>3
      <4> QED
        BY <4>2, <4>3
    <3>6. Len(ring') = IF Len(logged') < Capacity THEN Len(logged') ELSE Capacity
      BY <1>3, <1>4, <2>1, <3>1, <3>4
    <3> QED
      BY <3>1, <3>5, <3>6 DEF RingIsTail
  <2>2. CASE ~(Len(ring) < Capacity)
    <3>1. Len(ring) = Capacity /\ Len(logged) >= Capacity
      BY <1>3, <1>4, <2>0, <2>2
    <3>2. /\ Tail(ring) \in Seq(E) /\ Len(Tail(ring)) = Len(ring) - 1
          /\ \A i \in 1 .. Len(ring) - 1 : Tail(ring)[i] = ring[i + 1]
      BY <1>4, <3>1
    <3>3. ring' = Append(Tail(ring), e) /\ Len(ring') = Len(ring) /\ ring' \in Seq(E)
      BY <1>1, <1>2, <1>4, <3>1, <3>2 DEF Evicting
    <3>4. \A i \in 1 .. Len(ring) - 1 : ring'[i] = ring[i + 1]
      BY <1>2, <3>2, <3>3
    <3>5. ring'[Len(ring)] = e
      BY <1>2, <1>4, <3>2, <3>3
    <3>6. ASSUME NEW i \in 1 .. Len(ring') PROVE ring'[i] = logged'[Len(logged') - Len(ring') + i]
      <4>1. CASE i = Len(ring)
        BY <1>3, <1>4, <3>3, <3>5, <4>1
      <4>2. CASE i # Len(ring)
        <5>0. i \in 1 .. Len(ring)
          BY <3>3
        <5>1. i \in 1 .. Len(ring) - 1 /\ i + 1 \in 1 .. Len(ring)
          BY <1>4, <4>2, <5>0
        <5>2. ring'[i] = logged[Len(logged) - Len(ring) + (i + 1)]
          BY <2>0, <3>4, <5>1
        <5>3. /\ Len(logged) - Len(ring) + (i + 1) \in 1 .. Len(logged)
              /\ Len(logged) - Len(ring) + (i + 1) = Len(logged') - Len(ring) + i
          <6>1. Len(logged) \in Nat /\ Len(ring) \in Nat /\ Len(ring) <= Len(logged)
            BY <1>3, <1>4, <3>1
          <6> QED
            BY <1>3, <5>0, <5>1, <6>1
        <5> QED
          BY <1>3, <3>3, <5>2, <5>3
      <4> QED
        BY <4>1, <4>2
    <3> QED
      BY <1>3, <1>4, <3>1, <3>3, <3>6 DEF RingIsTail
  <2> QED
    BY <2>1, <2>2
<1>6. LastErrorOK'
  <2>1. CASE e.error
    <3>1. Len(logged) + 1 \in 1 .. Len(logged') /\ Len(logged) + 2 .. Len(logged') = {}
      BY <1>3
    <3> QED
      BY <1>1, <1>3, <2>1, <3>1 DEF LastErrorOK
  <2>2. CASE ~e.error
    <3>1. \A j \in 1 .. Len(logged') : j = Len(logged) + 1 \/ (j \in 1 .. Len(logged) /\ logged'[j] = logged[j])
      BY <1>3
    <3>2. last_error' = last_error
      BY <1>1, <2>2
    <3>3. CASE last_error = NoEntry /\ \A i \in 1 .. Len(logged) : ~logged[i].error
      BY <1>3, <2>2, <3>1, <3>2, <3>3 DEF LastErrorOK
    <3>4. ASSUME NEW i \in 1 .. Len(logged), logged[i] = last_error, last_error.error,
                 \A j \in i + 1 .. Len(logged) : ~logged[j].error
          PROVE  LastErrorOK'
      <4>1. i \in 1 .. Len(logged') /\ logged'[i] = last_error'
        BY <1>3, <3>2, <3>4
      <4>2. ASSUME NEW j \in i + 1 .. Len(logged') PROVE ~logged'[j].error
        <5>1. j \in 1 .. Len(logged') /\ (j # Len(logged) + 1 => j \in i + 1 .. Len(logged))
          BY <1>3
        <5> QED
          BY <1>3, <2>2, <3>1, <3>4, <5>1
      <4> QED
        BY <3>2, <3>4, <4>1, <4>2 DEF LastErrorOK
    <3> QED
      BY <1>a, <3>3, <3>4 DEF LastErrorOK
  <2> QED
    BY <2>1, <2>2
<1>7. /\ writing'[w].at = "out" /\ \A v \in Writers : v # w => writing'[v] = writing[v]
      /\ writing' \in [Writers -> [at : {"out", "count", "count_error", "append"},
                                   entry : [id : 0 .. MaxEntries, error : BOOLEAN]]]
  <2>1. NoEntry \in [id : 0 .. MaxEntries, error : BOOLEAN]
    BY LoggerAssumption DEF NoEntry
  <2> QED
    BY <1>a, <1>1, <2>1 DEF LoggerTypeOK
<1>8. NumbersDiffer'
  <2>1. \A i \in 1 .. Len(logged') :
            (i = Len(logged) + 1 /\ logged'[i] = e) \/ (i \in 1 .. Len(logged) /\ logged'[i] = logged[i])
    BY <1>3
  <2>2. e.id \in 1 .. next_id /\ next_id' = next_id /\ e = writing[w].entry
    BY <1>a, <1>1 DEF NumbersDiffer, e
  <2>3. \A v \in Writers : writing'[v].at # "out" =>
            v # w /\ writing[v].at # "out" /\ writing'[v] = writing[v] /\ writing[v].entry.id # e.id
    BY <1>a, <1>1, <1>7, <2>2 DEF NumbersDiffer
  <2>4. \A i \in 1 .. Len(logged) : logged[i].id # e.id
    BY <1>a, <1>1, <2>2 DEF NumbersDiffer
  <2>5. next_id \in Nat
    BY <1>a, LoggerAssumption DEF LoggerTypeOK
  <2>6. ASSUME NEW v \in Writers, writing'[v].at # "out"
        PROVE  /\ writing'[v].entry.id \in 1 .. next_id'
               /\ \A u \in Writers : writing'[u].at # "out" /\ writing'[u].entry.id = writing'[v].entry.id => u = v
               /\ \A i \in 1 .. Len(logged') : logged'[i].id # writing'[v].entry.id
    <3>1. writing[v].at # "out" /\ writing'[v] = writing[v] /\ writing[v].entry.id # e.id
      BY <2>3, <2>6
    <3>2. writing[v].entry.id \in 1 .. next_id
      BY <1>a, <3>1 DEF NumbersDiffer
    <3>3. \A u \in Writers : writing'[u].at # "out" /\ writing'[u].entry.id = writing'[v].entry.id => u = v
      BY <1>a, <2>3, <3>1 DEF NumbersDiffer
    <3>4. \A i \in 1 .. Len(logged) : logged[i].id # writing[v].entry.id
      BY <1>a, <3>1 DEF NumbersDiffer
    <3> QED
      BY <2>1, <2>2, <3>1, <3>2, <3>3, <3>4
  <2>7. \A i \in 1 .. Len(logged') : logged'[i].id <= next_id'
    <3>1. \A i \in 1 .. Len(logged) : logged[i].id <= next_id
      BY <1>a DEF NumbersDiffer
    <3>2. e.id <= next_id
      BY <2>2, <2>5
    <3> QED
      BY <2>1, <2>2, <3>1, <3>2
  <2>8. \A i, j \in 1 .. Len(logged') : logged'[i].id = logged'[j].id => i = j
    <3>1. \A i, j \in 1 .. Len(logged) : logged[i].id = logged[j].id => i = j
      BY <1>a DEF NumbersDiffer
    <3> QED
      BY <2>1, <2>4, <3>1
  <2> QED
    BY <2>6, <2>7, <2>8 DEF NumbersDiffer
<1>9. ErrorsOnly'
  BY <1>a, <1>7 DEF ErrorsOnly
<1>10. TotalsAgree'
  <2>1. Counted' = Counted \ {w} /\ w \in Counted /\ Uncounted' = Uncounted
    BY <1>1, <1>7 DEF Counted, Uncounted
  <2>2. /\ Cardinality(Counted') = Cardinality(Counted) - 1
        /\ Cardinality(Counted) \in Nat /\ Cardinality(Uncounted) \in Nat /\ Cardinality(ErrorsCounted) \in Nat
    BY <2>1, WritersMove, WritersFinite DEF Counted, Uncounted, ErrorsCounted
  <2>3. Cardinality(LoggedErrors') + Cardinality(ErrorsCounted') = Cardinality(LoggedErrors) + Cardinality(ErrorsCounted)
    <3>1. CASE e.error
      <4>1. ErrorsCounted' = ErrorsCounted \ {w} /\ w \in ErrorsCounted
        BY <1>1, <1>7, <3>1 DEF ErrorsCounted, e
      <4>2. Cardinality(ErrorsCounted') = Cardinality(ErrorsCounted) - 1
        BY <4>1, WritersMove DEF ErrorsCounted
      <4>3. Cardinality(LoggedErrors) \in Nat /\ Cardinality(LoggedErrors') = Cardinality(LoggedErrors) + 1
        BY <1>a, <1>1, <1>2, <3>1, ErrorLogged DEF E
      <4> QED
        BY <2>2, <4>2, <4>3
    <3>2. CASE ~e.error
      <4>1. ErrorsCounted' = ErrorsCounted
        BY <1>1, <1>7, <3>2 DEF ErrorsCounted, e
      <4>2. LoggedErrors' = LoggedErrors
        BY <1>a, <1>1, <1>2, <3>2, ErrorLogged DEF E
      <4> QED
        BY <4>1, <4>2
    <3> QED
      BY <3>1, <3>2
  <2>4. total_logs = Len(logged) + Cardinality(Counted)
    BY <1>a DEF TotalsAgree
  <2>5. total_logs' = Len(logged') + Cardinality(Counted')
    BY <1>1, <1>3, <2>2, <2>4
  <2> QED
    BY <1>a, <1>1, <2>1, <2>3, <2>5 DEF TotalsAgree
<1>11. LoggerTypeOK'
  <2>1. last_error' \in [id : 0 .. MaxEntries, error : BOOLEAN]
    BY <1>a, <1>1, <1>2, LoggerAssumption DEF LoggerTypeOK, E
  <2> QED
    BY <1>a, <1>1, <1>3, <1>5, <1>7, <2>1 DEF LoggerTypeOK, E
<1> QED
  BY <1>5, <1>6, <1>8, <1>9, <1>10, <1>11 DEF LoggerInv

LEMMA LoggerInvStep == LoggerInv /\ [LoggerNext]_loggerVars => LoggerInv'
<1> SUFFICES ASSUME LoggerInv, [LoggerNext]_loggerVars PROVE LoggerInv'
  OBVIOUS
<1>1. CASE UNCHANGED loggerVars
  BY <1>1 DEF loggerVars, LoggerInv, LoggerTypeOK, TotalsAgree, ErrorsOnly, NumbersDiffer, RingIsTail,
     LastErrorOK, Counted, Uncounted, ErrorsCounted, LoggedErrors
<1> QED
  BY <1>1, NumberKeeps, CountKeeps, AppendKeeps DEF LoggerNext

\* The newest entry of a level, if one of the entries in the ring has it, leads
\* every page.
LEMMA NewestLeads ==
    ASSUME LoggerInv, NEW levels, NEW p \in 1 .. Len(ring), ring[p].error \in levels,
           \A j \in p + 1 .. Len(ring) : ring[j].error \notin levels,
           NEW page \in Nat \ {0}
    PROVE  p \in Newest(page, levels) /\ \A j \in Newest(page, levels) : j <= p
<1> DEFINE found == {i \in DOMAIN ring : ring[i].error \in levels}
<1>1. DOMAIN ring = 1 .. Len(ring) /\ Len(ring) \in Nat
  BY DEF LoggerInv, LoggerTypeOK
<1>2. p \in found /\ \A j \in found : j <= p
  BY <1>1
<1>3. {j \in found : j > p} = {}
  BY <1>1, <1>2
<1>4. Newest(page, levels) = {i \in found : Cardinality({j \in found : j > i}) < page}
  BY DEF Newest
<1> HIDE DEF found
<1>5. Cardinality({j \in found : j > p}) = 0
  BY <1>3, FS_EmptySet
<1>6. Cardinality({j \in found : j > p}) < page
  BY <1>5
<1> QED
  BY <1>2, <1>4, <1>6

\* The ring being a tail of what was logged, GetRecent answers the newest of it.
LEMMA LoggerInvNewest == LoggerInv => LogKeepsNewest
<1> SUFFICES ASSUME LoggerInv PROVE LogKeepsNewest
  OBVIOUS
<1> DEFINE dropped == Len(logged) - Len(ring)
<1>a. LoggerTypeOK /\ TotalsAgree /\ NumbersDiffer /\ RingIsTail /\ LastErrorOK
  BY DEF LoggerInv
<1>1. /\ Len(logged) \in Nat /\ Len(ring) \in Nat /\ dropped \in Nat
      /\ DOMAIN ring = 1 .. Len(ring) /\ DOMAIN logged = 1 .. Len(logged)
  BY <1>a, LoggerAssumption DEF LoggerTypeOK, RingIsTail
<1>2. /\ Len(ring) = IF Len(logged) < Capacity THEN Len(logged) ELSE Capacity
      /\ \A i \in 1 .. Len(ring) : ring[i] = logged[dropped + i]
  BY <1>a DEF RingIsTail
<1> DEFINE Last(positions) == CHOOSE i \in positions : \A j \in positions : j <= i
<1>3. ASSUME NEW S \in SUBSET Nat, NEW i \in S, \A j \in S : j <= i PROVE Last(S) = i
  <2>1. Last(S) \in S /\ \A j \in S : j <= Last(S)
    BY <1>3
  <2>2. i <= Last(S) /\ Last(S) <= i /\ i \in Nat /\ Last(S) \in Nat
    BY <1>3, <2>1
  <2> HIDE DEF Last
  <2> QED
    BY <2>2
<1>4. ASSUME NEW page, NEW levels PROVE Newest(page, levels) \in SUBSET Nat
  BY <1>1 DEF Newest
<1>5. ASSUME NEW levels \in SUBSET BOOLEAN, NEW i \in dropped + 1 .. Len(logged),
             logged[i].error \in levels, \A j \in i + 1 .. Len(logged) : logged[j].error \notin levels,
             NEW limit \in 0 .. 501
      PROVE  Last(QueryLogs(limit, levels)) = i - dropped
  <2> DEFINE p == i - dropped
             page == IF limit = 0 \/ limit > 500 THEN 50 ELSE limit
  <2>1. p \in 1 .. Len(ring) /\ dropped + p = i
    BY <1>1
  <2>2. ring[p].error \in levels
    BY <1>2, <1>5, <2>1
  <2>3. ASSUME NEW j \in p + 1 .. Len(ring) PROVE ring[j].error \notin levels
    <3>1. dropped + j \in i + 1 .. Len(logged) /\ j \in 1 .. Len(ring)
      BY <1>1, <2>1
    <3> QED
      BY <1>2, <1>5, <3>1
  <2>4. page \in Nat \ {0}
    OBVIOUS
  <2> HIDE DEF p, page
  <2>5. p \in Newest(page, levels) /\ \A j \in Newest(page, levels) : j <= p
    BY <2>1, <2>2, <2>3, <2>4, NewestLeads
  <2>6. Last(Newest(page, levels)) = p
    BY <1>3, <1>4, <2>5
  <2>7. QueryLogs(limit, levels) = Newest(page, levels)
    BY DEF QueryLogs, page
  <2> QED
    BY <2>6, <2>7 DEF p
<1> DEFINE recent == Newest(20, {TRUE})
<1>6. /\ recent # {} => last_error = ring[Last(recent)]
      /\ recent = {} /\ last_error # NoEntry => \E i \in 1 .. dropped : logged[i] = last_error
  <2>1. CASE last_error = NoEntry /\ \A i \in 1 .. Len(logged) : ~logged[i].error
    <3>1. \A p \in 1 .. Len(ring) : dropped + p \in 1 .. Len(logged)
      BY <1>1
    <3>2. recent = {}
      BY <1>1, <1>2, <2>1, <3>1 DEF Newest
    <3> QED
      BY <2>1, <3>2
  <2>2. ASSUME NEW i \in 1 .. Len(logged), logged[i] = last_error, last_error.error,
               \A j \in i + 1 .. Len(logged) : ~logged[j].error
        PROVE  /\ recent # {} => last_error = ring[Last(recent)]
               /\ recent = {} /\ last_error # NoEntry => \E k \in 1 .. dropped : logged[k] = last_error
    <3>0. last_error.error = TRUE
      BY <1>a, <2>2 DEF LoggerTypeOK
    <3>1. CASE i > dropped
      <4> DEFINE p == i - dropped
      <4>1. p \in 1 .. Len(ring) /\ dropped + p = i
        BY <1>1, <3>1
      <4>2. ring[p] = last_error
        BY <1>2, <2>2, <4>1
      <4>3. ASSUME NEW j \in p + 1 .. Len(ring) PROVE ring[j].error \notin {TRUE}
        <5>1. dropped + j \in i + 1 .. Len(logged) /\ j \in 1 .. Len(ring)
          BY <1>1, <4>1
        <5> QED
          BY <1>2, <2>2, <5>1
      <4> HIDE DEF p
      <4>4. p \in recent /\ \A j \in recent : j <= p
        <5>0. ring[p].error \in {TRUE}
          BY <3>0, <4>2, Zenon
        <5>1. 20 \in Nat \ {0}
          OBVIOUS
        <5> DEFINE levels == {TRUE}
        <5> HIDE DEF levels
        <5>2. p \in Newest(20, levels) /\ \A j \in Newest(20, levels) : j <= p
          BY <4>1, <4>3, <5>0, <5>1, NewestLeads DEF levels
        <5> QED
          BY <5>2 DEF levels
      <4>5. Last(recent) = p
        BY <1>3, <1>4, <4>4
      <4> HIDE DEF Last, recent
      <4> QED
        BY <4>2, <4>4, <4>5
    <3>2. CASE ~(i > dropped)
      <4>1. i \in 1 .. dropped
        BY <1>1, <3>2
      <4>2. ASSUME NEW p \in 1 .. Len(ring) PROVE ring[p].error \notin {TRUE}
        <5>1. dropped + p \in i + 1 .. Len(logged)
          BY <1>1, <4>1
        <5> QED
          BY <1>2, <2>2, <5>1
      <4>3. recent = {}
        BY <1>1, <4>2 DEF Newest
      <4> QED
        BY <2>2, <4>1, <4>3
    <3> QED
      BY <1>1, <3>1, <3>2
  <2> HIDE DEF Last, recent, dropped
  <2> QED
    BY <1>a, <2>1, <2>2 DEF LastErrorOK
<1>7. Len(logged) <= total_logs /\ Cardinality({i \in DOMAIN logged : logged[i].error}) <= total_errs
  <2>1. Cardinality(Counted) \in Nat /\ Cardinality(ErrorsCounted) \in Nat
    BY WritersFinite DEF Counted, ErrorsCounted
  <2>2. {i \in DOMAIN logged : logged[i].error} = LoggedErrors
    BY <1>1 DEF LoggedErrors
  <2>3. Cardinality(LoggedErrors) \in Nat
    <3>1. IsFiniteSet(1 .. Len(logged))
      BY <1>1, FS_Interval
    <3> QED
      BY <3>1, FS_Subset, FS_CardinalityType DEF LoggedErrors
  <2>4. /\ total_logs = Len(logged) + Cardinality(Counted)
        /\ total_errs = Cardinality(LoggedErrors) + Cardinality(ErrorsCounted)
    BY <1>a DEF TotalsAgree
  <2>5. Len(logged) <= total_logs /\ Cardinality(LoggedErrors) <= total_errs
    BY <1>1, <2>1, <2>3, <2>4
  <2> QED
    BY <2>2, <2>5
<1>8. \A i, j \in DOMAIN logged : logged[i].id = logged[j].id => i = j
  BY <1>a, <1>1 DEF NumbersDiffer
<1> HIDE DEF Last, recent
<1> QED
  BY <1>1, <1>2, <1>5, <1>6, <1>7, <1>8 DEF LogKeepsNewest, GetErrorSummary, Last, recent

\* Whatever writers overtake each other, queries and totals are consistent with
\* the order in which entries were logged (ring_logger.go:75-111, 114-193).
THEOREM LoggerKeepsNewest == LoggerSpec => []LogKeepsNewest
BY LoggerInvNewest, LoggerInvInit, LoggerInvStep, PTL DEF LoggerSpec

(***************************************************************************)
(* CameraProbe                                                             *)
(***************************************************************************)

\* Of each port the outcome is with its goroutine, in the channel or heard.
OutcomesAccounted ==
    /\ scan_results \cap scan.heard = {}
    /\ \A p \in ScanPorts : scanner[p].at = "sent" <=> p \in scan_results \cup scan.heard
    /\ scan.at \in {"idle", "start"} => scan_results = {} /\ scan.heard = {}

\* What the scan has heard says whether it goes on and what it returns.
NothingSoFar ==
    /\ scan.at = "collect" => \A p \in scan.heard : scanner[p].device = NoDevice
    /\ scan.at \in {"deliver", "done"} /\ scan.device = NoDevice =>
           scan.heard = ScanPorts /\ \A p \in ScanPorts : scanner[p].device = NoDevice

ScanBegun == scan.at \in {"idle", "start"} => \A p \in ScanPorts : scanner[p].at = "idle"

OneScan ==
    /\ probing.at \in {"out", "loop", "rtmp", "rtsp", "onvif", "device"} => scan.at = "idle"
    /\ scan.at \in {"idle", "start", "collect", "deliver"} => onvif_chan = {}

ProbeInv == ProbeTypeOK /\ OutcomesAccounted /\ NothingSoFar /\ ScanBegun /\ OneScan

LEMMA ProbeInvInit == ProbeInit => ProbeInv
<1> SUFFICES ASSUME ProbeInit PROVE ProbeInv
  OBVIOUS
<1>1. NoDevice \in Devices /\ \A p \in Calls : (IF p = Direct THEN HttpPort ELSE p) \in ScanPorts
  BY ProbeAssumption DEF Devices, Calls
<1>2. ProbeTypeOK
  BY <1>1 DEF ProbeInit, ProbeTypeOK
<1>3. ScanPorts \subseteq Calls
  BY DEF Calls
<1>4. OutcomesAccounted /\ NothingSoFar /\ ScanBegun /\ OneScan
  BY <1>3 DEF ProbeInit, OutcomesAccounted, NothingSoFar, ScanBegun, OneScan
<1> QED
  BY <1>2, <1>4 DEF ProbeInv

\* The handler changes its request, its pictures, and at most starts the scan,
\* hears its result or makes the call of its own.
LEMMA HandlerMoves ==
    ASSUME ProbeTypeOK, HandlerStep
    PROVE  /\ UNCHANGED <<scan_results, scan_over>>
           /\ \A p \in ScanPorts : scanner'[p] = scanner[p]
           /\ scan' = scan \/ (probing.at = "rtsp" /\ probing'.at = "wait" /\ scan' = [scan EXCEPT !.at = "start"])
           /\ onvif_chan' = onvif_chan \/ onvif_chan' = {}
<1>1. ScanPorts \subseteq Calls /\ Direct \in Calls /\ Direct \notin ScanPorts
  BY ProbeAssumption DEF Calls
<1>2. scanner \in [Calls -> [at : {"idle", "dial", "information", "alternatives", "describe", "snapshot_uri",
                                    "fetch", "digest", "rtsp", "store", "send", "sent", "returned"},
                              port : ScanPorts, device : Devices, picture : BOOLEAN]]
  BY DEF ProbeTypeOK
<1>3. CASE HandleProbeStream \/ ProbeLoopFile \/ ProbeRTMP \/ ProbeNative \/ ReplyFailure
  BY <1>3 DEF HandleProbeStream, ProbeLoopFile, ProbeRTMP, ProbeNative, ReplyFailure
<1>4. CASE ProbeRTSP
  <2>1. probing.at = "rtsp" /\ UNCHANGED <<scanner, scan_results, onvif_chan, scan_over>>
    BY <1>4 DEF ProbeRTSP
  <2>2. scan' = scan \/ (GoOn("wait") /\ scan' = [scan EXCEPT !.at = "start"])
    BY <1>4 DEF ProbeRTSP
  <2>3. GoOn("wait") => probing'.at = "wait"
    BY DEF GoOn, ProbeTypeOK
  <2> QED
    BY <2>1, <2>2, <2>3
<1>5. CASE AwaitScan
  BY <1>5 DEF AwaitScan
<1>6. CASE CaptureNative \/ CaptureFFmpeg
  BY <1>6 DEF CaptureNative, CaptureFFmpeg
<1>7. CASE ProbeONVIF
  <2>1. UNCHANGED <<scan, scan_results, onvif_chan, scan_over>>
    BY <1>7 DEF ProbeONVIF
  <2>2. \A p \in ScanPorts : scanner'[p] = scanner[p]
    BY <1>1, <1>2, <1>7 DEF ProbeONVIF
  <2> QED
    BY <2>1, <2>2
<1>8. CASE ReplyONVIF
  BY <1>8 DEF ReplyONVIF
<1> QED
  BY <1>3, <1>4, <1>5, <1>6, <1>7, <1>8 DEF HandlerStep

\* After its start nothing but ProbeRTSP leads to a place before the scan.
LEMMA HandlerPlaces ==
    ASSUME ProbeTypeOK, HandlerStep,
           probing'.at \in {"out", "loop", "rtmp", "rtsp", "onvif", "device"}
    PROVE  probing.at \in {"out", "loop", "rtmp", "rtsp", "onvif", "device"} /\ scan' = scan
<1> USE DEF ProbeTypeOK, GoOn, Reply
<1>1. CASE HandleProbeStream
  BY <1>1 DEF HandleProbeStream
<1>2. CASE ProbeLoopFile
  BY <1>2 DEF ProbeLoopFile
<1>3. CASE ProbeRTMP
  BY <1>3 DEF ProbeRTMP
<1>4. CASE ProbeRTSP
  BY <1>4 DEF ProbeRTSP
<1>5. CASE AwaitScan
  BY <1>5 DEF AwaitScan
<1>6. CASE ProbeNative
  BY <1>6 DEF ProbeNative
<1>7. CASE CaptureNative
  BY <1>7 DEF CaptureNative
<1>8. CASE CaptureFFmpeg
  BY <1>8 DEF CaptureFFmpeg
<1>9. CASE ReplyFailure
  BY <1>9 DEF ReplyFailure
<1>10. CASE ProbeONVIF
  BY <1>10 DEF ProbeONVIF
<1>11. CASE ReplyONVIF
  BY <1>11 DEF ReplyONVIF
<1> QED
  BY <1>1, <1>2, <1>3, <1>4, <1>5, <1>6, <1>7, <1>8, <1>9, <1>10, <1>11 DEF HandlerStep

Positions == {"idle", "dial", "information", "alternatives", "describe", "snapshot_uri",
              "fetch", "digest", "rtsp", "store", "send", "sent", "returned"}

PicturePlaces == {"temp", "latest", "stream", "device", "camera", "address"}

LEMMA HandlerTypes == ASSUME ProbeTypeOK, HandlerStep PROVE ProbeTypeOK'
<1> DEFINE RequestPlaces == {"out", "loop", "rtmp", "onvif", "rtsp", "wait", "native", "capture", "ffmpeg",
                      "failed", "device", "answered"}
           Answers == [at : RequestPlaces, named : BOOLEAN, online : BOOLEAN, device : Devices, picture : BOOLEAN]
<1>1. \A to \in RequestPlaces : GoOn(to) => probing' \in Answers
  BY DEF ProbeTypeOK, GoOn
<1>2. \A online, picture \in BOOLEAN, device \in Devices : Reply(online, device, picture) => probing' \in Answers
  BY DEF ProbeTypeOK, Reply
<1>3. NoDevice \in Devices /\ probing.device \in Devices /\ TRUE \in BOOLEAN /\ FALSE \in BOOLEAN
  BY DEF ProbeTypeOK, Devices
<1>4. pictures \in SUBSET PicturePlaces
  BY DEF ProbeTypeOK, PicturePlaces
<1>5. StorePicture => pictures' \in SUBSET PicturePlaces
  BY <1>4 DEF StorePicture, PicturePlaces
<1>6. probing' \in Answers
  <2>1. CASE HandleProbeStream
    BY <2>1 DEF HandleProbeStream, ProbeTypeOK
  <2>2. CASE ProbeLoopFile
    <3>1. PICK found, picture \in BOOLEAN : Reply(found, NoDevice, found /\ picture)
      BY <2>2 DEF ProbeLoopFile
    <3>2. (found /\ picture) \in BOOLEAN
      BY <3>1
    <3> QED
      BY <1>2, <1>3, <3>1, <3>2
  <2>3. CASE ProbeRTMP
    BY <1>2, <1>3, <2>3 DEF ProbeRTMP
  <2>4. CASE ProbeRTSP
    BY <1>1, <1>2, <1>3, <2>4 DEF ProbeRTSP
  <2>5. CASE AwaitScan
    <3>1. ASSUME NEW device \in onvif_chan, probing' = [probing EXCEPT !.at = "native", !.device = device]
          PROVE  probing' \in Answers
      BY <3>1 DEF ProbeTypeOK
    <3> QED
      BY <1>1, <2>5, <3>1 DEF AwaitScan
  <2>6. CASE ProbeNative
    BY <1>1, <2>6 DEF ProbeNative
  <2>7. CASE CaptureNative
    BY <1>2, <1>3, <2>7 DEF CaptureNative
  <2>8. CASE CaptureFFmpeg
    BY <1>1, <1>2, <1>3, <2>8 DEF CaptureFFmpeg
  <2>9. CASE ReplyFailure
    BY <1>2, <1>3, <2>9 DEF ReplyFailure
  <2>10. CASE ProbeONVIF
    BY <1>1, <1>2, <1>3, <2>10 DEF ProbeONVIF
  <2>11. CASE ReplyONVIF
    <3>1. scanner[Direct].device \in Devices /\ scanner[Direct].picture \in BOOLEAN
          /\ (scanner[Direct].device # NoDevice) \in BOOLEAN
      BY DEF ProbeTypeOK, Calls
    <3> QED
      BY <1>2, <2>11, <3>1 DEF ReplyONVIF
  <2> QED
    BY <2>1, <2>2, <2>3, <2>4, <2>5, <2>6, <2>7, <2>8, <2>9, <2>10, <2>11 DEF HandlerStep
<1>7. pictures' \in SUBSET PicturePlaces
  <2>1. CASE CaptureNative \/ CaptureFFmpeg
    BY <1>4, <1>5, <2>1 DEF CaptureNative, CaptureFFmpeg, PicturePlaces
  <2>2. CASE ReplyONVIF
    BY <1>4, <2>2 DEF ReplyONVIF, PicturePlaces
  <2>3. CASE ~(CaptureNative \/ CaptureFFmpeg \/ ReplyONVIF)
    BY <1>4, <2>3 DEF HandlerStep, HandleProbeStream, ProbeLoopFile, ProbeRTMP, ProbeRTSP, AwaitScan, ProbeNative,
                      ReplyFailure, ProbeONVIF
  <2> QED
    BY <2>1, <2>2, <2>3
<1>8. scanner' \in [Calls -> [at : Positions, port : ScanPorts, device : Devices, picture : BOOLEAN]]
  <2>1. scanner \in [Calls -> [at : Positions, port : ScanPorts, device : Devices, picture : BOOLEAN]]
    BY DEF ProbeTypeOK, Positions
  <2>2. CASE scanner' = scanner
    BY <2>1, <2>2
  <2>3. ASSUME NEW port \in ScanPorts,
               scanner' = [scanner EXCEPT ![Direct].at = "information", ![Direct].port = port]
        PROVE  scanner' \in [Calls -> [at : Positions, port : ScanPorts, device : Devices, picture : BOOLEAN]]
    <3>1. Direct \in Calls /\ "information" \in Positions
      BY DEF Calls, Positions
    <3> QED
      BY <2>1, <2>3, <3>1
  <2>4. CASE ProbeONVIF
    BY <2>2, <2>3, <2>4 DEF ProbeONVIF
  <2>5. CASE ~ProbeONVIF
    <3>1. scanner' = scanner
      BY <2>5 DEF HandlerStep, HandleProbeStream, ProbeLoopFile, ProbeRTMP, ProbeRTSP, AwaitScan, ProbeNative,
                  CaptureNative, CaptureFFmpeg, ReplyFailure, ReplyONVIF
    <3> QED
      BY <2>2, <3>1
  <2> QED
    BY <2>4, <2>5
<1>9. scan' \in [at : {"idle", "start", "collect", "deliver", "done"}, heard : SUBSET ScanPorts, device : Devices]
  BY HandlerMoves DEF ProbeTypeOK
<1>10. scan_results' \in SUBSET ScanPorts /\ onvif_chan' \in SUBSET Devices /\ scan_over' \in BOOLEAN
  BY HandlerMoves DEF ProbeTypeOK
<1> QED
  BY <1>6, <1>7, <1>8, <1>9, <1>10 DEF ProbeTypeOK, PicturePlaces, Positions

LEMMA HandlerKeeps == ASSUME ProbeInv, HandlerStep PROVE ProbeInv'
<1>1. ProbeTypeOK /\ ProbeTypeOK'
  BY HandlerTypes DEF ProbeInv
<1>2. /\ UNCHANGED <<scan_results, scan_over>>
      /\ \A p \in ScanPorts : scanner'[p] = scanner[p]
      /\ scan' = scan \/ (probing.at = "rtsp" /\ probing'.at = "wait" /\ scan' = [scan EXCEPT !.at = "start"])
      /\ onvif_chan' = onvif_chan \/ onvif_chan' = {}
  BY <1>1, HandlerMoves
<1>3. CASE scan' = scan
  <2>1. OutcomesAccounted'
    BY <1>2, <1>3 DEF ProbeInv, OutcomesAccounted
  <2>2. NothingSoFar'
    <3>1. scan.heard \subseteq ScanPorts
      BY <1>1 DEF ProbeTypeOK
    <3> QED
      BY <1>2, <1>3, <3>1 DEF ProbeInv, NothingSoFar
  <2>3. OneScan'
    BY <1>1, <1>2, <1>3, HandlerPlaces DEF ProbeInv, OneScan
  <2>4. ScanBegun'
    BY <1>2, <1>3 DEF ProbeInv, ScanBegun
  <2> QED
    BY <1>1, <2>1, <2>2, <2>3, <2>4 DEF ProbeInv
<1>4. CASE scan' # scan
  <2>1. probing.at = "rtsp" /\ probing'.at = "wait" /\ scan' = [scan EXCEPT !.at = "start"] /\ scan.at = "idle"
    BY <1>2, <1>4 DEF ProbeInv, OneScan
  <2>2. scan'.at = "start" /\ scan'.heard = scan.heard
    BY <1>1, <2>1 DEF ProbeTypeOK
  <2>3. OutcomesAccounted'
    BY <1>2, <2>1, <2>2 DEF ProbeInv, OutcomesAccounted
  <2>4. NothingSoFar'
    BY <2>2 DEF NothingSoFar
  <2>5. OneScan'
    BY <1>2, <2>1, <2>2 DEF ProbeInv, OneScan
  <2>6. ScanBegun'
    BY <1>2, <2>1 DEF ProbeInv, ScanBegun
  <2> QED
    BY <1>1, <2>3, <2>4, <2>5, <2>6 DEF ProbeInv
<1> QED
  BY <1>3, <1>4

\* A step of ProbeDevice or of the dialling before it moves one call, which has
\* not sent its outcome, and touches nothing of the scan.
LEMMA CallMoves ==
    ASSUME ProbeTypeOK, NEW p \in Calls, ProbeDevice(p) \/ (p \in ScanPorts /\ DialPort(p))
    PROVE  /\ UNCHANGED <<probing, scan, scan_results, onvif_chan, scan_over>>
           /\ \A q \in Calls : q # p => scanner'[q] = scanner[q]
           /\ scanner[p].at \notin {"idle", "sent"} /\ scanner'[p].at # "sent"
           /\ ProbeTypeOK'
<1> DEFINE ScannerSet == [at : Positions, port : ScanPorts, device : Devices, picture : BOOLEAN]
<1>1. scanner \in [Calls -> ScannerSet] /\ ScanPorts \subseteq Devices /\ NoDevice \in Devices
  BY DEF ProbeTypeOK, Positions, Devices
<1>2. UNCHANGED <<probing, scan, scan_results, onvif_chan, scan_over>>
  BY DEF ProbeDevice, DialPort, GetDeviceInformation, TryAlternatives, Describe, GetSnapshotURI, FetchSnapshot,
         RetryWithDigest, CaptureFromRTSP, StoreSnapshot
<1>3. pictures' \in SUBSET PicturePlaces
  BY DEF ProbeDevice, DialPort, GetDeviceInformation, TryAlternatives, Describe, GetSnapshotURI, FetchSnapshot,
         RetryWithDigest, CaptureFromRTSP, StoreSnapshot, ProbeTypeOK, PicturePlaces
\* What a move, a way out and a choice of port do to the calls.
<1> DEFINE Good == /\ scanner' \in [Calls -> ScannerSet] /\ \A q \in Calls : q # p => scanner'[q] = scanner[q]
                   /\ scanner'[p].at # "sent"
<1>4. ASSUME NEW from \in Positions, NEW to \in Positions \ {"sent"}, Move(p, from, to) PROVE Good /\ scanner[p].at = from
  BY <1>1, <1>4 DEF Move
<1>5. ASSUME NEW device \in Devices, NEW picture \in BOOLEAN, Leave(p, device, picture) PROVE Good
  <2> DEFINE to == IF p = Direct THEN "returned" ELSE "send"
  <2>1. to \in Positions \ {"sent"}
    BY DEF Positions
  <2>2. scanner' = [scanner EXCEPT ![p].at = to, ![p].device = device, ![p].picture = picture]
    BY <1>5 DEF Leave
  <2> HIDE DEF to
  <2> QED
    BY <1>1, <2>1, <2>2
<1>6. ASSUME NEW port \in AltPorts, scanner' = [scanner EXCEPT ![p].at = "describe", ![p].port = port] PROVE Good
  <2>1. port \in ScanPorts /\ "describe" \in Positions \ {"sent"}
    BY ProbeAssumption DEF Positions
  <2> QED
    BY <1>1, <1>6, <2>1
<1> HIDE DEF Good
<1>7. {"dial", "information", "alternatives", "describe", "snapshot_uri", "fetch", "digest", "rtsp", "store"}
          \subseteq Positions \ {"sent"} /\ TRUE \in BOOLEAN /\ FALSE \in BOOLEAN
  BY DEF Positions
<1>8. scanner[p].port \in Devices
  BY <1>1
<1>9. Good /\ scanner[p].at \notin {"idle", "sent"}
  <2>1. CASE p \in ScanPorts /\ DialPort(p)
    BY <1>1, <1>4, <1>5, <1>7, <2>1 DEF DialPort
  <2>2. CASE GetDeviceInformation(p)
    BY <1>1, <1>4, <1>5, <1>7, <2>2 DEF GetDeviceInformation, Answered
  <2>3. CASE TryAlternatives(p)
    BY <1>1, <1>5, <1>6, <1>7, <2>3 DEF TryAlternatives
  <2>4. CASE Describe(p)
    BY <1>4, <1>7, <2>4 DEF Describe, Answered
  <2>5. CASE GetSnapshotURI(p)
    BY <1>4, <1>7, <2>5 DEF GetSnapshotURI, Answered
  <2>6. CASE FetchSnapshot(p)
    BY <1>4, <1>7, <2>6 DEF FetchSnapshot, Answered
  <2>7. CASE RetryWithDigest(p)
    BY <1>4, <1>7, <2>7 DEF RetryWithDigest, Answered
  <2>8. CASE CaptureFromRTSP(p)
    BY <1>4, <1>5, <1>7, <1>8, <2>8 DEF CaptureFromRTSP, Answered
  <2>9. CASE StoreSnapshot(p)
    BY <1>5, <1>7, <1>8, <2>9 DEF StoreSnapshot
  <2> QED
    BY <2>1, <2>2, <2>3, <2>4, <2>5, <2>6, <2>7, <2>8, <2>9 DEF ProbeDevice
<1>10. ProbeTypeOK'
  BY <1>2, <1>3, <1>9 DEF Good, ProbeTypeOK, PicturePlaces, Positions
<1> QED
  BY <1>2, <1>9, <1>10 DEF Good

LEMMA CallKeeps ==
    ASSUME ProbeInv, NEW p \in Calls, ProbeDevice(p) \/ (p \in ScanPorts /\ DialPort(p))
    PROVE  ProbeInv'
<1>1. /\ UNCHANGED <<probing, scan, scan_results, onvif_chan, scan_over>>
      /\ \A q \in Calls : q # p => scanner'[q] = scanner[q]
      /\ scanner[p].at \notin {"idle", "sent"} /\ scanner'[p].at # "sent"
      /\ ProbeTypeOK'
  BY CallMoves DEF ProbeInv
<1>2. ScanPorts \subseteq Calls /\ scan.heard \subseteq ScanPorts
  BY DEF ProbeInv, ProbeTypeOK, Calls
<1>3. \A q \in ScanPorts : scanner'[q].at = "sent" <=> scanner[q].at = "sent"
  BY <1>1, <1>2
<1>4. OutcomesAccounted'
  BY <1>1, <1>3 DEF ProbeInv, OutcomesAccounted
<1>5. \A q \in scan.heard : scanner'[q] = scanner[q]
  BY <1>1, <1>2 DEF ProbeInv, OutcomesAccounted
<1>6. NothingSoFar'
  BY <1>1, <1>5 DEF ProbeInv, NothingSoFar
<1>7. OneScan'
  BY <1>1 DEF ProbeInv, OneScan
<1>8. ScanBegun'
  BY <1>1, <1>2 DEF ProbeInv, ScanBegun
<1> QED
  BY <1>1, <1>4, <1>6, <1>7, <1>8 DEF ProbeInv

\* With every port but one heard, that one is the last.
LEMMA LastPort ==
    ASSUME NEW heard_ports \in SUBSET ScanPorts, NEW p \in ScanPorts \ heard_ports,
           Cardinality(heard_ports) + 1 = Cardinality(ScanPorts)
    PROVE  heard_ports \cup {p} = ScanPorts
<1>1. IsFiniteSet(ScanPorts)
  BY ProbeAssumption
<1>2. IsFiniteSet(heard_ports)
  BY <1>1, FS_Subset
<1>3. Cardinality(heard_ports \cup {p}) = Cardinality(heard_ports) + 1
  BY <1>2, FS_AddElement
<1>4. heard_ports \cup {p} \subseteq ScanPorts
  OBVIOUS
<1> QED
  BY <1>1, <1>3, <1>4, FS_Subset

LEMMA ProbeInvStep == ProbeInv /\ [ProbeNext]_probeVars => ProbeInv'
<1> SUFFICES ASSUME ProbeInv, [ProbeNext]_probeVars PROVE ProbeInv'
  OBVIOUS
<1>t. /\ scanner \in [Calls -> [at : Positions, port : ScanPorts, device : Devices, picture : BOOLEAN]]
      /\ scan \in [at : {"idle", "start", "collect", "deliver", "done"}, heard : SUBSET ScanPorts, device : Devices]
      /\ scan_results \in SUBSET ScanPorts /\ onvif_chan \in SUBSET Devices /\ scan_over \in BOOLEAN
      /\ ScanPorts \subseteq Calls /\ Direct \notin ScanPorts
  BY ProbeAssumption DEF ProbeInv, ProbeTypeOK, Positions, Calls
<1>1. CASE HandlerStep
  BY <1>1, HandlerKeeps
<1>2. ASSUME NEW p \in Calls, ProbeDevice(p) \/ (p \in ScanPorts /\ DialPort(p)) PROVE ProbeInv'
  BY <1>2, CallKeeps
<1>3. CASE ScanStart
  <2>1. /\ scan.at = "start" /\ scan' = [scan EXCEPT !.at = "collect"]
        /\ UNCHANGED <<probing, scan_results, onvif_chan, scan_over, pictures>>
        /\ scanner' = [p \in Calls |-> IF p = Direct THEN scanner[p] ELSE [scanner[p] EXCEPT !.at = "dial"]]
    BY <1>3 DEF ScanStart
  <2>2. scan'.at = "collect" /\ scan'.heard = {} /\ scan_results' = {} /\ scan.heard = {}
    BY <1>t, <2>1 DEF ProbeInv, OutcomesAccounted
  <2>3. \A p \in ScanPorts : scanner'[p].at = "dial"
    BY <1>t, <2>1
  <2>4. ProbeTypeOK'
    <3>1. scanner' \in [Calls -> [at : Positions, port : ScanPorts, device : Devices, picture : BOOLEAN]]
      BY <1>t, <2>1 DEF Positions
    <3>2. scan' \in [at : {"idle", "start", "collect", "deliver", "done"}, heard : SUBSET ScanPorts, device : Devices]
      BY <1>t, <2>1
    <3> QED
      BY <2>1, <3>1, <3>2 DEF ProbeInv, ProbeTypeOK, Positions
  <2>5. OutcomesAccounted' /\ NothingSoFar'
    BY <2>2, <2>3 DEF OutcomesAccounted, NothingSoFar
  <2>6. OneScan' /\ ScanBegun'
    BY <2>1, <2>2 DEF ProbeInv, OneScan, ScanBegun
  <2> QED
    BY <2>4, <2>5, <2>6 DEF ProbeInv
<1>4. CASE Deliver
  <2>1. /\ scan.at = "deliver" /\ scan' = [scan EXCEPT !.at = "done"] /\ onvif_chan' = {scan.device}
        /\ UNCHANGED <<probing, scanner, scan_results, scan_over, pictures>>
    BY <1>4 DEF Deliver
  <2>2. scan'.at = "done" /\ scan'.heard = scan.heard /\ scan'.device = scan.device
    BY <1>t, <2>1
  <2>3. ProbeTypeOK'
    BY <1>t, <2>1 DEF ProbeInv, ProbeTypeOK
  <2>4. OutcomesAccounted' /\ NothingSoFar'
    BY <2>1, <2>2 DEF ProbeInv, OutcomesAccounted, NothingSoFar
  <2>5. OneScan' /\ ScanBegun'
    BY <2>1, <2>2 DEF ProbeInv, OneScan, ScanBegun
  <2> QED
    BY <2>3, <2>4, <2>5 DEF ProbeInv
<1>5. CASE ContextEnds
  <2>1. UNCHANGED <<probing, scan, scanner, scan_results, onvif_chan, pictures>> /\ scan_over' = TRUE
    BY <1>5 DEF ContextEnds
  <2> QED
    BY <2>1 DEF ProbeInv, ProbeTypeOK, OutcomesAccounted, NothingSoFar, ScanBegun, OneScan
<1>6. ASSUME NEW p \in ScanPorts, SendResult(p) PROVE ProbeInv'
  <2>1. /\ scanner[p].at = "send" /\ scan_results' = scan_results \cup {p}
        /\ scanner' = [scanner EXCEPT ![p].at = "sent"]
        /\ UNCHANGED <<probing, scan, onvif_chan, scan_over, pictures>>
    BY <1>6 DEF SendResult
  <2>2. p \notin scan_results \cup scan.heard
    BY <2>1 DEF ProbeInv, OutcomesAccounted
  <2>3. \A q \in ScanPorts : scanner'[q] = IF q = p THEN [scanner[p] EXCEPT !.at = "sent"] ELSE scanner[q]
    BY <1>t, <2>1
  <2>4. \A q \in ScanPorts : scanner'[q].at = (IF q = p THEN "sent" ELSE scanner[q].at) /\ scanner'[q].device = scanner[q].device
    BY <1>t, <2>3
  <2>5. ProbeTypeOK'
    <3>1. scanner' \in [Calls -> [at : Positions, port : ScanPorts, device : Devices, picture : BOOLEAN]]
      BY <1>t, <2>1 DEF Positions
    <3> QED
      BY <1>t, <2>1, <3>1 DEF ProbeInv, ProbeTypeOK, Positions
  <2>6. scan.at \notin {"idle", "start"}
    BY <2>1 DEF ProbeInv, ScanBegun
  <2>7. OutcomesAccounted'
    BY <2>1, <2>2, <2>4, <2>6 DEF ProbeInv, OutcomesAccounted
  <2>8. NothingSoFar'
    BY <1>t, <2>1, <2>4 DEF ProbeInv, NothingSoFar
  <2>9. OneScan' /\ ScanBegun'
    BY <2>1, <2>6 DEF ProbeInv, OneScan, ScanBegun
  <2> QED
    BY <2>5, <2>7, <2>8, <2>9 DEF ProbeInv
<1>7. ASSUME NEW p \in ScanPorts, Collect(p) PROVE ProbeInv'
  <2> DEFINE last == scanner[p].device # NoDevice \/ Cardinality(scan.heard) + 1 = Cardinality(ScanPorts)
  <2>1. /\ scan.at = "collect" /\ p \in scan_results /\ scan_results' = scan_results \ {p}
        /\ scan' = [at |-> IF last THEN "deliver" ELSE "collect", heard |-> scan.heard \cup {p}, device |-> scanner[p].device]
        /\ scan_over' = (scan_over \/ last)
        /\ UNCHANGED <<probing, scanner, onvif_chan, pictures>>
    BY <1>7 DEF Collect
  <2>l. last \in BOOLEAN /\ (scanner[p].device # NoDevice => last)
    OBVIOUS
  <2>2. p \notin scan.heard /\ scanner[p].device \in Devices
    BY <1>t, <2>1 DEF ProbeInv, OutcomesAccounted
  <2>3. last /\ scanner[p].device = NoDevice => scan.heard \cup {p} = ScanPorts
    BY <1>t, <2>2, LastPort
  <2> HIDE DEF last
  <2>4. ProbeTypeOK'
    <3>1. scan' \in [at : {"idle", "start", "collect", "deliver", "done"}, heard : SUBSET ScanPorts, device : Devices]
      BY <1>t, <2>1, <2>2
    <3>2. scan_results' \in SUBSET ScanPorts /\ scan_over' \in BOOLEAN
      BY <1>t, <2>1, <2>l
    <3> QED
      BY <2>1, <3>1, <3>2 DEF ProbeInv, ProbeTypeOK
  <2>5. scan'.at = (IF last THEN "deliver" ELSE "collect") /\ scan'.heard = scan.heard \cup {p} /\ scan'.device = scanner[p].device
    BY <2>1
  <2>6. OutcomesAccounted'
    BY <2>1, <2>2, <2>5, <2>l DEF ProbeInv, OutcomesAccounted
  <2>7. \A q \in scan.heard : scanner[q].device = NoDevice
    BY <2>1 DEF ProbeInv, NothingSoFar
  <2>8. NothingSoFar'
    BY <2>1, <2>3, <2>5, <2>7, <2>l DEF NothingSoFar
  <2>9. OneScan' /\ ScanBegun'
    BY <2>1, <2>5, <2>l DEF ProbeInv, OneScan, ScanBegun
  <2> QED
    BY <2>4, <2>6, <2>8, <2>9 DEF ProbeInv
<1>8. CASE UNCHANGED probeVars
  BY <1>8 DEF probeVars, ProbeInv, ProbeTypeOK, OutcomesAccounted, NothingSoFar, ScanBegun, OneScan
<1> QED
  <2>1. CASE \E p \in Calls : ProbeDevice(p)
    BY <1>2, <2>1
  <2>2. CASE \E p \in ScanPorts : DialPort(p) \/ SendResult(p) \/ Collect(p)
    <3>1. PICK p \in ScanPorts : DialPort(p) \/ SendResult(p) \/ Collect(p)
      BY <2>2
    <3>2. p \in Calls
      BY <1>t
    <3> QED
      BY <1>2, <1>6, <1>7, <3>1, <3>2
  <2> QED
    BY <1>1, <1>3, <1>4, <1>5, <1>8, <2>1, <2>2 DEF ProbeNext

\* With every outcome accounted for, none is missed and each finds room.
LEMMA ProbeInvHears == ProbeInv => ScanHearsEveryPort
<1> SUFFICES ASSUME ProbeInv PROVE ScanHearsEveryPort
  OBVIOUS
<1>1. scan.at \in {"deliver", "done"} /\ scan.device = NoDevice =>
          \A p \in ScanPorts : scanner[p].at = "sent" /\ scanner[p].device = NoDevice
  BY DEF ProbeInv, NothingSoFar, OutcomesAccounted
<1>2. ASSUME NEW p \in ScanPorts, scanner[p].at = "send" PROVE Cardinality(scan_results) < ChanCapacity
  <2>1. p \notin scan_results /\ scan_results \subseteq ScanPorts /\ IsFiniteSet(ScanPorts)
    BY <1>2, ProbeAssumption DEF ProbeInv, ProbeTypeOK, OutcomesAccounted
  <2>2. /\ IsFiniteSet(scan_results) /\ Cardinality(scan_results) <= Cardinality(ScanPorts)
        /\ Cardinality(scan_results) # Cardinality(ScanPorts)
    BY <2>1, FS_Subset
  <2>3. Cardinality(scan_results) \in Nat /\ Cardinality(ScanPorts) \in Nat
    BY <2>1, <2>2, FS_CardinalityType
  <2> QED
    BY <2>2, <2>3 DEF ChanCapacity
<1>3. scan.at = "deliver" => onvif_chan = {}
  BY DEF ProbeInv, OneScan
<1> QED
  BY <1>1, <1>2, <1>3 DEF ScanHearsEveryPort

\* No port is missed, and nobody is left waiting for room in a channel
\* (probe_handler_helpers.go:24-61).
THEOREM ScansHearEveryPort == ProbeSpec => []ScanHearsEveryPort
BY ProbeInvHears, ProbeInvInit, ProbeInvStep, PTL DEF ProbeSpec

(***************************************************************************)
(* WsDiscovery                                                             *)
(***************************************************************************)

\* The keys that goroutines at these places have at hand.
KeysAt(places) == {listener[i].key : i \in {j \in Interfaces : listener[j].at \in places}}
Listed == {devices[k] : k \in DOMAIN devices}

\* The list is worked on under the lock, with a key.
HoldersListen ==
    \A i \in Interfaces :
        /\ listener[i].at \in {"look", "mark", "append", "unlock"} => list_lock = i
        /\ listener[i].at \in {"lock", "look", "mark", "append", "unlock"} => listener[i].key \in Keys

\* Where a key that was read is: in the list, or with a goroutine.
KeysAccounted ==
    /\ seen = Listed \cup KeysAt({"append"})
    /\ heard = seen \cup KeysAt({"lock", "look", "mark"})
    /\ \A i \in Interfaces :
           /\ listener[i].at = "mark" => listener[i].key \notin seen
           /\ listener[i].at = "append" => listener[i].key \notin Listed

NoneTwice == \A j, k \in DOMAIN devices : devices[j] = devices[k] => j = k

ReturnedDone == discovery \in {"out", "returned", "failed"} => \A i \in Interfaces : listener[i].at = "done"

DiscoveryInv == DiscoveryTypeOK /\ HoldersListen /\ KeysAccounted /\ NoneTwice /\ ReturnedDone

LEMMA DiscoveryInvInit == DiscoveryInit => DiscoveryInv
<1> SUFFICES ASSUME DiscoveryInit PROVE DiscoveryInv
  OBVIOUS
<1>1. DiscoveryTypeOK
  <2>1. <<>> \in Seq(Keys)
    OBVIOUS
  <2>2. NoKey \in Keys \cup {NoKey, BlankKey}
    OBVIOUS
  <2>3. 0 \in 0 .. MaxAnswers
    BY DiscoveryAssumption
  <2> QED
    BY <2>1, <2>2, <2>3 DEF DiscoveryInit, DiscoveryTypeOK
<1>3. HoldersListen /\ ReturnedDone
  BY DEF DiscoveryInit, HoldersListen, ReturnedDone
<1>4. NoneTwice
  BY DEF DiscoveryInit, NoneTwice
<1>2. KeysAccounted
  BY DEF DiscoveryInit, KeysAccounted, KeysAt, Listed
<1> QED
  BY <1>1, <1>2, <1>3, <1>4 DEF DiscoveryInv

\* A step that takes no key out of hand, and none in, keeps the account.
LEMMA ListUntouched ==
    ASSUME DiscoveryInv, DiscoveryTypeOK',
           UNCHANGED <<list_lock, seen, devices, heard>>,
           \A i \in Interfaces :
               LET at == listener[i].at
                   work == {"lock", "look", "mark", "append", "unlock"}
               IN  IF at \in work \/ listener'[i].at \in work
                   THEN listener'[i] = listener[i]
                   ELSE TRUE
    PROVE  HoldersListen' /\ KeysAccounted' /\ NoneTwice'
<1>1. HoldersListen'
  BY DEF DiscoveryInv, HoldersListen
<1>2. NoneTwice'
  BY DEF DiscoveryInv, NoneTwice
<1>3. KeysAt({"append"})' = KeysAt({"append"})
  BY DEF KeysAt
<1>4. KeysAt({"lock", "look", "mark"})' = KeysAt({"lock", "look", "mark"})
  BY DEF KeysAt
<1>5. Listed' = Listed
  BY DEF Listed
<1>6. KeysAccounted'
  BY <1>3, <1>4, <1>5 DEF DiscoveryInv, KeysAccounted
<1> QED
  BY <1>1, <1>2, <1>6

LEMMA DiscoveryTypeStep == DiscoveryTypeOK /\ HoldersListen /\ [DiscoveryNext]_discoveryVars => DiscoveryTypeOK'
<1> SUFFICES ASSUME DiscoveryTypeOK, HoldersListen, [DiscoveryNext]_discoveryVars PROVE DiscoveryTypeOK'
  OBVIOUS
<1> USE DEF DiscoveryTypeOK
<1>1. CASE StartDiscovery
  BY <1>1 DEF StartDiscovery
<1>2. CASE ReturnDevices \/ DeadlinePasses \/ ClientGivesUp
  BY <1>2 DEF ReturnDevices, DeadlinePasses, ClientGivesUp
<1>3. ASSUME NEW i \in Interfaces, BindAndAsk(i) \/ CheckDeadline(i) PROVE DiscoveryTypeOK'
  BY <1>3 DEF BindAndAsk, CheckDeadline, Resume
<1>4. ASSUME NEW i \in Interfaces, ReadAnswer(i) PROVE DiscoveryTypeOK'
  BY <1>4, DiscoveryAssumption DEF ReadAnswer, Resume
<1>5. ASSUME NEW i \in Interfaces, ParseProbeMatch(i) PROVE DiscoveryTypeOK'
  BY <1>5 DEF ParseProbeMatch, Resume
<1>6. ASSUME NEW i \in Interfaces, LockList(i) \/ LookUpKey(i) \/ UnlockList(i) PROVE DiscoveryTypeOK'
  BY <1>6 DEF LockList, LookUpKey, UnlockList, Resume
<1>7. ASSUME NEW i \in Interfaces, MarkSeen(i) \/ AppendDevice(i) PROVE DiscoveryTypeOK'
  <2>1. listener[i].key \in Keys
    BY <1>7 DEF MarkSeen, AppendDevice, Listens, HoldersListen
  <2>2. CASE MarkSeen(i)
    BY <2>1, <2>2 DEF MarkSeen, Resume
  <2>3. CASE AppendDevice(i)
    <3>1. Append(devices, listener[i].key) \in Seq(Keys)
      BY <2>1
    <3> QED
      BY <2>3, <3>1 DEF AppendDevice, Resume
  <2> QED
    BY <1>7, <2>2, <2>3
<1>8. CASE UNCHANGED discoveryVars
  BY <1>8 DEF discoveryVars
<1> QED
  BY <1>1, <1>2, <1>3, <1>4, <1>5, <1>6, <1>7, <1>8 DEF DiscoveryNext, ListenerStep

\* What goroutine i does under the lock leaves the others where they are, and
\* none of them is in there.
LEMMA HolderAlone ==
    ASSUME DiscoveryInv, NEW i \in Interfaces, list_lock = i,
           NEW j \in Interfaces, j # i
    PROVE  listener[j].at \notin {"look", "mark", "append", "unlock"}
BY DEF DiscoveryInv, HoldersListen

LEMMA DiscoveryInvStep == DiscoveryInv /\ [DiscoveryNext]_discoveryVars => DiscoveryInv'
<1> SUFFICES ASSUME DiscoveryInv, [DiscoveryNext]_discoveryVars PROVE DiscoveryInv'
  OBVIOUS
<1>t. DiscoveryTypeOK'
  BY DiscoveryTypeStep DEF DiscoveryInv
<1>ty. listener \in [Interfaces -> [at : {"bind", "check", "read", "parse", "lock", "look", "mark", "append",
                                        "unlock", "done"}, key : Keys \cup {NoKey, BlankKey}]]
  BY DEF DiscoveryInv, DiscoveryTypeOK
<1>1. CASE StartDiscovery
  <2>1. ReturnedDone'
    BY <1>1 DEF DiscoveryInv, StartDiscovery, ReturnedDone
  <2>2. HoldersListen' /\ KeysAccounted' /\ NoneTwice'
    BY <1>t, <1>1, ListUntouched DEF DiscoveryInv, StartDiscovery, ReturnedDone
  <2> QED
    BY <1>t, <2>1, <2>2 DEF DiscoveryInv
<1>2. CASE ReturnDevices \/ DeadlinePasses \/ ClientGivesUp \/ UNCHANGED discoveryVars
  <2>1. UNCHANGED <<listener, list_lock, seen, devices, heard>>
    BY <1>2 DEF ReturnDevices, DeadlinePasses, ClientGivesUp, discoveryVars
  <2>2. ReturnedDone'
    BY <1>2, <2>1 DEF DiscoveryInv, ReturnedDone, ReturnDevices, DeadlinePasses, ClientGivesUp, discoveryVars
  <2>3. HoldersListen' /\ KeysAccounted' /\ NoneTwice'
    BY <1>t, <2>1, ListUntouched
  <2> QED
    BY <1>t, <2>2, <2>3 DEF DiscoveryInv
<1>3. ASSUME NEW i \in Interfaces, ListenerStep(i) PROVE DiscoveryInv'
  <2>r. ReturnedDone'
    BY <1>3 DEF DiscoveryInv, ReturnedDone, ListenerStep, Listens, BindAndAsk, CheckDeadline, ReadAnswer,
                ParseProbeMatch, LockList, LookUpKey, MarkSeen, AppendDevice, UnlockList
  <2>1. CASE BindAndAsk(i) \/ CheckDeadline(i) \/ ReadAnswer(i)
    <3>1. HoldersListen' /\ KeysAccounted' /\ NoneTwice'
      BY <1>t, <1>ty, <2>1, ListUntouched DEF BindAndAsk, CheckDeadline, ReadAnswer, Resume, Listens
    <3> QED
      BY <1>t, <2>r, <3>1 DEF DiscoveryInv
  <2>2. CASE ParseProbeMatch(i)
    <3>1. UNCHANGED <<list_lock, seen, devices>> /\ listener[i].at = "parse"
      BY <2>2 DEF ParseProbeMatch, Listens
    <3>2. /\ listener' = [listener EXCEPT ![i].at = IF listener[i].key \in Keys THEN "lock" ELSE "check"]
          /\ heard' = heard \cup ({listener[i].key} \cap Keys)
      BY <2>2 DEF ParseProbeMatch, Resume
    <3>3. HoldersListen'
      BY <1>ty, <3>1, <3>2 DEF DiscoveryInv, HoldersListen
    <3>4. NoneTwice' /\ Listed' = Listed
      BY <3>1 DEF DiscoveryInv, NoneTwice, Listed
    <3>5. KeysAt({"append"})' = KeysAt({"append"})
      BY <1>ty, <3>1, <3>2 DEF KeysAt
    <3>6. KeysAt({"lock", "look", "mark"})' = KeysAt({"lock", "look", "mark"}) \cup ({listener[i].key} \cap Keys)
      <4>1. CASE listener[i].key \in Keys
        BY <1>ty, <3>1, <3>2, <4>1 DEF KeysAt
      <4>2. CASE listener[i].key \notin Keys
        BY <1>ty, <3>1, <3>2, <4>2 DEF KeysAt
      <4> QED
        BY <4>1, <4>2
    <3>7. KeysAccounted'
      <4>1. seen' = Listed' \cup KeysAt({"append"})'
        BY <3>1, <3>4, <3>5 DEF DiscoveryInv, KeysAccounted
      <4>2. heard' = seen' \cup KeysAt({"lock", "look", "mark"})'
        BY <3>1, <3>2, <3>6 DEF DiscoveryInv, KeysAccounted
      <4>3. \A j \in Interfaces : /\ listener'[j].at = "mark" => listener'[j].key \notin seen'
                                  /\ listener'[j].at = "append" => listener'[j].key \notin Listed'
        BY <1>ty, <3>1, <3>2, <3>4 DEF DiscoveryInv, KeysAccounted
      <4> QED
        BY <4>1, <4>2, <4>3 DEF KeysAccounted
    <3> QED
      BY <1>t, <2>r, <3>3, <3>4, <3>7 DEF DiscoveryInv
  <2>3. CASE LockList(i)
    <3>1. UNCHANGED <<seen, devices, heard>> /\ listener[i].at = "lock" /\ list_lock = NoListener /\ list_lock' = i
      BY <2>3 DEF LockList, Listens
    <3>2. listener' = [listener EXCEPT ![i].at = "look"]
      BY <2>3 DEF LockList, Resume
    <3>3. \A j \in Interfaces : listener[j].at \notin {"look", "mark", "append", "unlock"}
      BY <3>1, DiscoveryAssumption DEF DiscoveryInv, HoldersListen
    <3>4. HoldersListen'
      BY <1>ty, <3>1, <3>2, <3>3 DEF DiscoveryInv, HoldersListen
    <3>5. NoneTwice' /\ Listed' = Listed
      BY <3>1 DEF DiscoveryInv, NoneTwice, Listed
    <3>6. KeysAt({"append"})' = KeysAt({"append"})
      BY <1>ty, <3>1, <3>2 DEF KeysAt
    <3>7. KeysAt({"lock", "look", "mark"})' = KeysAt({"lock", "look", "mark"})
      BY <1>ty, <3>1, <3>2 DEF KeysAt
    <3>8. KeysAccounted'
      BY <1>ty, <3>1, <3>2, <3>3, <3>5, <3>6, <3>7 DEF DiscoveryInv, KeysAccounted
    <3> QED
      BY <1>t, <2>r, <3>4, <3>5, <3>8 DEF DiscoveryInv
  <2>4. CASE LookUpKey(i)
    <3>1. UNCHANGED <<list_lock, seen, devices, heard>> /\ listener[i].at = "look" /\ list_lock = i
      BY <2>4 DEF LookUpKey, Listens, DiscoveryInv, HoldersListen
    <3>2. listener' = [listener EXCEPT ![i].at = IF listener[i].key \in seen THEN "unlock" ELSE "mark"]
      BY <2>4 DEF LookUpKey, Resume
    <3>3. HoldersListen'
      BY <1>ty, <3>1, <3>2 DEF DiscoveryInv, HoldersListen
    <3>4. NoneTwice' /\ Listed' = Listed
      BY <3>1 DEF DiscoveryInv, NoneTwice, Listed
    <3>5. KeysAt({"append"})' = KeysAt({"append"})
      BY <1>ty, <3>1, <3>2 DEF KeysAt
    <3>6. seen \cup KeysAt({"lock", "look", "mark"})' = seen \cup KeysAt({"lock", "look", "mark"})
      <4>1. CASE listener[i].key \in seen
        BY <1>ty, <3>1, <3>2, <4>1 DEF KeysAt
      <4>2. CASE listener[i].key \notin seen
        BY <1>ty, <3>1, <3>2, <4>2 DEF KeysAt
      <4> QED
        BY <4>1, <4>2
    <3>7. \A j \in Interfaces : /\ listener'[j].at = "mark" => listener'[j].key \notin seen'
                                /\ listener'[j].at = "append" => listener'[j].key \notin Listed'
      BY <1>ty, <3>1, <3>2, <3>4 DEF DiscoveryInv, KeysAccounted
    <3>8. KeysAccounted'
      BY <3>1, <3>4, <3>5, <3>6, <3>7 DEF DiscoveryInv, KeysAccounted
    <3> QED
      BY <1>t, <2>r, <3>3, <3>4, <3>8 DEF DiscoveryInv
  <2>5. CASE MarkSeen(i)
    <3>1. UNCHANGED <<list_lock, devices, heard>> /\ listener[i].at = "mark" /\ list_lock = i
      BY <2>5 DEF MarkSeen, Listens, DiscoveryInv, HoldersListen
    <3>2. listener' = [listener EXCEPT ![i].at = "append"] /\ seen' = seen \cup {listener[i].key}
      BY <2>5 DEF MarkSeen, Resume
    <3>3. HoldersListen'
      BY <1>ty, <3>1, <3>2 DEF DiscoveryInv, HoldersListen
    <3>4. NoneTwice' /\ Listed' = Listed
      BY <3>1 DEF DiscoveryInv, NoneTwice, Listed
    <3>5. KeysAt({"append"})' = KeysAt({"append"}) \cup {listener[i].key}
      BY <1>ty, <3>1, <3>2 DEF KeysAt
    <3>6. KeysAt({"lock", "look", "mark"}) = KeysAt({"lock", "look", "mark"})' \cup {listener[i].key}
      BY <1>ty, <3>1, <3>2 DEF KeysAt
    <3>7. \A j \in Interfaces : listener'[j].at = "mark" => FALSE
      BY <1>ty, <3>1, <3>2, HolderAlone
    <3>8. \A j \in Interfaces : listener'[j].at = "append" => listener'[j].key \notin Listed'
      <4>1. listener[i].key \notin Listed
        BY <3>1 DEF DiscoveryInv, KeysAccounted
      <4> QED
        BY <1>ty, <3>1, <3>2, <3>4, <4>1, HolderAlone
    <3>9. KeysAccounted'
      <4>1. seen' = Listed' \cup KeysAt({"append"})'
        BY <3>2, <3>4, <3>5 DEF DiscoveryInv, KeysAccounted
      <4>2. heard' = seen' \cup KeysAt({"lock", "look", "mark"})'
        BY <3>1, <3>2, <3>6 DEF DiscoveryInv, KeysAccounted
      <4> QED
        BY <3>7, <3>8, <4>1, <4>2 DEF KeysAccounted
    <3> QED
      BY <1>t, <2>r, <3>3, <3>4, <3>9 DEF DiscoveryInv
  <2>6. CASE AppendDevice(i)
    <3>1. UNCHANGED <<list_lock, seen, heard>> /\ listener[i].at = "append" /\ list_lock = i
      BY <2>6 DEF AppendDevice, Listens, DiscoveryInv, HoldersListen
    <3>2. listener' = [listener EXCEPT ![i].at = "unlock"] /\ devices' = Append(devices, listener[i].key)
      BY <2>6 DEF AppendDevice, Resume
    <3>3. HoldersListen'
      BY <1>ty, <3>1, <3>2 DEF DiscoveryInv, HoldersListen
    <3>4. devices \in Seq(Keys) /\ listener[i].key \in Keys /\ listener[i].key \notin Listed
      BY <3>1 DEF DiscoveryInv, DiscoveryTypeOK, HoldersListen, KeysAccounted
    <3>5. /\ DOMAIN devices' = DOMAIN devices \cup {Len(devices) + 1}
          /\ \A k \in DOMAIN devices : devices'[k] = devices[k]
          /\ devices'[Len(devices) + 1] = listener[i].key /\ Len(devices) + 1 \notin DOMAIN devices
      BY <3>2, <3>4
    <3>6. NoneTwice'
      BY <3>4, <3>5 DEF DiscoveryInv, NoneTwice, Listed
    <3>7. Listed' = Listed \cup {listener[i].key}
      BY <3>5 DEF Listed
    <3>8. KeysAt({"append"}) = {listener[i].key} /\ KeysAt({"append"})' = {}
      BY <1>ty, <3>1, <3>2, HolderAlone DEF KeysAt
    <3>9. KeysAt({"lock", "look", "mark"})' = KeysAt({"lock", "look", "mark"})
      BY <1>ty, <3>1, <3>2 DEF KeysAt
    <3>10. \A j \in Interfaces : listener'[j].at \notin {"mark", "append"}
      BY <1>ty, <3>1, <3>2, HolderAlone
    <3>11. KeysAccounted'
      <4>1. seen' = Listed' \cup KeysAt({"append"})'
        BY <3>1, <3>7, <3>8 DEF DiscoveryInv, KeysAccounted
      <4>2. heard' = seen' \cup KeysAt({"lock", "look", "mark"})'
        BY <3>1, <3>9 DEF DiscoveryInv, KeysAccounted
      <4> QED
        BY <3>10, <4>1, <4>2 DEF KeysAccounted
    <3> QED
      BY <1>t, <2>r, <3>3, <3>6, <3>11 DEF DiscoveryInv
  <2>7. CASE UnlockList(i)
    <3>1. UNCHANGED <<seen, devices, heard>> /\ listener[i].at = "unlock" /\ list_lock = i
      BY <2>7 DEF UnlockList, Listens, DiscoveryInv, HoldersListen
    <3>2. listener' = [listener EXCEPT ![i].at = "check"]
      BY <2>7 DEF UnlockList, Resume
    <3>3. \A j \in Interfaces : listener'[j].at \notin {"look", "mark", "append", "unlock"}
      BY <1>ty, <3>1, <3>2, HolderAlone
    <3>4. HoldersListen'
      BY <1>ty, <3>2, <3>3 DEF DiscoveryInv, HoldersListen
    <3>5. NoneTwice' /\ Listed' = Listed
      BY <3>1 DEF DiscoveryInv, NoneTwice, Listed
    <3>6. KeysAt({"append"})' = KeysAt({"append"})
      BY <1>ty, <3>1, <3>2 DEF KeysAt
    <3>7. KeysAt({"lock", "look", "mark"})' = KeysAt({"lock", "look", "mark"})
      BY <1>ty, <3>1, <3>2 DEF KeysAt
    <3>8. KeysAccounted'
      BY <3>1, <3>3, <3>5, <3>6, <3>7 DEF DiscoveryInv, KeysAccounted
    <3> QED
      BY <1>t, <2>r, <3>4, <3>5, <3>8 DEF DiscoveryInv
  <2> QED
    BY <1>3, <2>1, <2>2, <2>3, <2>4, <2>5, <2>6, <2>7 DEF ListenerStep
<1> QED
  BY <1>1, <1>2, <1>3 DEF DiscoveryNext

\* A discovery that returned has only listed keys, none of them twice.
LEMMA DiscoveryInvLists == DiscoveryInv => EachCameraListedOnce
BY DEF DiscoveryInv, EachCameraListedOnce, NoneTwice, ReturnedDone, KeysAccounted, KeysAt, Listed

\* Every camera that was read of is listed once when the discovery returns
\* (ws_discovery.go:88-110, 172-184).
THEOREM DiscoveryListsEachOnce == DiscoverySpec => []EachCameraListedOnce
BY DiscoveryInvLists, DiscoveryInvInit, DiscoveryInvStep, PTL DEF DiscoverySpec

(***************************************************************************)
(* MotionDetector                                                          *)
(***************************************************************************)

\* The states of the streams have been allocated, and no two streams share one.
StatesOfStreams ==
    /\ \A s \in Feeds : stream_state[s] <= states_made
    /\ \A s, t \in Feeds : s # t /\ stream_state[s] # 0 => stream_state[s] # stream_state[t]

\* A goroutine holds the state of its stream until a Reset, which it can tell
\* from the count, and never that of another stream.
HeldStates ==
    \A a \in Analysts :
        call[a].at # "out" =>
            /\ call[a].state \in 1 .. states_made
            /\ call[a].resets <= resets[call[a].feed]
            /\ call[a].resets = resets[call[a].feed] => stream_state[call[a].feed] = call[a].state
            /\ \A t \in Feeds : stream_state[t] = call[a].state =>
                   t = call[a].feed /\ call[a].resets = resets[call[a].feed]

BaselinesAreCurrent ==
    /\ \A n \in 1 .. MaxStates : motion[n].has_baseline => motion[n].baseline = motion[n].config
    /\ event.active => event.baseline = event.config

MotionInv ==
    /\ MotionTypeOK /\ StatesOfStreams /\ HeldStates /\ BaselinesAreCurrent
    /\ \A s \in Feeds : GetConfig(s) = in_force[s]

LookupSet == [at : {"out", "config", "frame"}, state : 0 .. MaxStates, feed : Feeds,
            config : Configs, resets : 0 .. MaxResets]

LEMMA MotionInvInit == MotionInit => MotionInv
<1> SUFFICES ASSUME MotionInit PROVE MotionInv
  OBVIOUS
<1>1. MaxStates \in Nat /\ MaxResets \in Nat /\ MaxTime \in Nat /\ DefaultConfig \in Configs
  BY MotionAssumption
<1>2. 0 \in 0 .. MaxStates /\ 0 \in 0 .. MaxResets /\ 0 \in 0 .. MaxTime
  BY <1>1
<1>3. NewState \in StateSet
  BY <1>1, <1>2 DEF NewState, StateSet
<1>4. call \in [Analysts -> LookupSet]
  BY <1>1, <1>2 DEF MotionInit, LookupSet
<1>5. event \in [active : BOOLEAN, config : Configs, baseline : Configs]
  BY <1>1 DEF MotionInit
<1>6. motion \in [1 .. MaxStates -> StateSet]
  BY <1>3 DEF MotionInit
<1>7. /\ stream_state \in [Feeds -> 0 .. MaxStates] /\ states_made \in 0 .. MaxStates /\ clock \in 0 .. MaxTime
      /\ resets \in [Feeds -> 0 .. MaxResets] /\ in_force \in [Feeds -> Configs]
  BY <1>1, <1>2 DEF MotionInit
<1>8. MotionTypeOK
  BY <1>4, <1>5, <1>6, <1>7 DEF MotionTypeOK, LookupSet
<1>9. StatesOfStreams /\ \A s \in Feeds : GetConfig(s) = in_force[s]
  BY DEF MotionInit, StatesOfStreams, GetConfig
<1>10. HeldStates
  BY DEF MotionInit, HeldStates
<1>11. BaselinesAreCurrent
  BY DEF MotionInit, BaselinesAreCurrent, NewState
<1> QED
  BY <1>8, <1>9, <1>10, <1>11 DEF MotionInv

\* What a lookup returns: the state of the stream, now or already allocated.
LEMMA LookedUp ==
    ASSUME MotionInv, NEW a \in Analysts, NEW s \in Feeds, NEW next \in {"config", "frame"}, NEW config \in Configs,
           GetOrCreateState(a, s, next, config)
    PROVE  MotionInv'
<1>t. /\ stream_state \in [Feeds -> 0 .. MaxStates] /\ states_made \in 0 .. MaxStates /\ MaxStates \in Nat
      /\ motion \in [1 .. MaxStates -> StateSet] /\ call \in [Analysts -> LookupSet]
      /\ resets \in [Feeds -> 0 .. MaxResets] /\ MaxResets \in Nat
  BY MotionAssumption DEF MotionInv, MotionTypeOK, LookupSet
<1>1. /\ call[a].at = "out" /\ UNCHANGED <<event, clock, resets, in_force>>
      /\ call' = [call EXCEPT ![a] = [at |-> next, state |-> stream_state'[s], feed |-> s,
                                      config |-> config, resets |-> resets[s]]]
  BY DEF GetOrCreateState
<1>n. NewState \in StateSet /\ NewState.config = DefaultConfig /\ NewState.has_baseline = FALSE
  BY MotionAssumption DEF NewState, StateSet
\* What both ways have in common.
<1> DEFINE Found ==
        /\ stream_state' \in [Feeds -> 0 .. MaxStates] /\ states_made' \in 0 .. MaxStates
        /\ motion' \in [1 .. MaxStates -> StateSet]
        /\ states_made <= states_made' /\ stream_state'[s] \in 1 .. states_made'
        /\ \A t \in Feeds : t # s => stream_state'[t] = stream_state[t]
        /\ stream_state[s] # 0 => stream_state'[s] = stream_state[s]
        /\ stream_state[s] = 0 => stream_state'[s] > states_made
        /\ \A n \in 1 .. MaxStates : motion'[n] = motion[n] \/ (motion'[n] = NewState /\ n > states_made)
        /\ stream_state[s] = 0 => motion'[stream_state'[s]] = NewState
<1>2. ASSUME stream_state[s] # 0, UNCHANGED <<stream_state, states_made, motion>> PROVE Found
  <2>1. stream_state[s] <= states_made /\ stream_state[s] \in 0 .. MaxStates
    BY <1>t DEF MotionInv, StatesOfStreams
  <2>2. stream_state[s] \in 1 .. states_made
    BY <1>t, <1>2, <2>1
  <2> QED
    BY <1>t, <1>2, <2>2
<1>3. ASSUME stream_state[s] = 0, states_made < MaxStates, states_made' = states_made + 1,
             stream_state' = [stream_state EXCEPT ![s] = states_made + 1],
             motion' = [motion EXCEPT ![states_made + 1] = NewState]
      PROVE  Found
  <2> DEFINE new == states_made + 1
  <2>1. new \in 1 .. MaxStates /\ new \in 0 .. MaxStates /\ new > states_made /\ new \in 1 .. new /\ states_made <= new
    BY <1>t, <1>3
  <2>2. /\ stream_state' = [stream_state EXCEPT ![s] = new] /\ motion' = [motion EXCEPT ![new] = NewState]
        /\ states_made' = new /\ stream_state[s] = 0
    BY <1>3
  <2> HIDE DEF new
  <2>3. stream_state'[s] = new /\ \A t \in Feeds : t # s => stream_state'[t] = stream_state[t]
    BY <1>t, <2>2
  <2>4. motion'[new] = NewState /\ \A n \in 1 .. MaxStates : n # new => motion'[n] = motion[n]
    BY <1>t, <2>1, <2>2
  <2>5. stream_state' \in [Feeds -> 0 .. MaxStates] /\ motion' \in [1 .. MaxStates -> StateSet]
    BY <1>t, <1>n, <2>1, <2>2
  <2>6. \A n \in 1 .. MaxStates : motion'[n] = motion[n] \/ (motion'[n] = NewState /\ n > states_made)
    BY <2>1, <2>4
  <2> QED
    BY <2>1, <2>2, <2>3, <2>4, <2>5, <2>6
<1>4. Found
  BY <1>2, <1>3 DEF GetOrCreateState
<1>5. MotionTypeOK'
  <2>1. stream_state'[s] \in 0 .. MaxStates /\ resets[s] \in 0 .. MaxResets
    BY <1>t, <1>4
  <2>2. [at |-> next, state |-> stream_state'[s], feed |-> s, config |-> config, resets |-> resets[s]] \in LookupSet
    BY <2>1 DEF LookupSet
  <2>3. call' \in [Analysts -> LookupSet]
    BY <1>t, <1>1, <2>2
  <2> QED
    BY <1>1, <1>4, <2>3 DEF MotionInv, MotionTypeOK, LookupSet
<1>6. StatesOfStreams'
  <2>0. \A t \in Feeds : stream_state[t] <= states_made /\ stream_state[t] \in Nat
    BY <1>t DEF MotionInv, StatesOfStreams
  <2>1. \A t \in Feeds : stream_state'[t] <= states_made'
    BY <1>t, <1>4, <2>0
  <2>2. ASSUME NEW t \in Feeds, t # s PROVE stream_state'[s] # stream_state'[t]
    <3>1. CASE stream_state[s] # 0
      BY <1>4, <2>2, <3>1 DEF MotionInv, StatesOfStreams
    <3>2. CASE stream_state[s] = 0
      <4>1. stream_state'[s] > states_made /\ stream_state'[t] = stream_state[t] /\ stream_state[t] <= states_made
        BY <1>4, <2>0, <2>2, <3>2
      <4>2. stream_state'[s] \in Nat /\ stream_state[t] \in Nat /\ states_made \in Nat
        BY <1>t, <1>4, <2>0
      <4> QED
        BY <4>1, <4>2
    <3> QED
      BY <3>1, <3>2
  <2>3. ASSUME NEW t \in Feeds, NEW u \in Feeds, t # u, stream_state'[t] # 0 PROVE stream_state'[t] # stream_state'[u]
    <3>1. CASE t = s
      BY <2>2, <2>3, <3>1
    <3>2. CASE u = s
      BY <2>2, <2>3, <3>2
    <3>3. CASE t # s /\ u # s
      BY <1>4, <2>3, <3>3 DEF MotionInv, StatesOfStreams
    <3> QED
      BY <3>1, <3>2, <3>3
  <2> QED
    BY <2>1, <2>3 DEF StatesOfStreams
<1>7. HeldStates'
  <2>1. ASSUME NEW b \in Analysts, call'[b].at # "out"
        PROVE  /\ call'[b].state \in 1 .. states_made'
               /\ call'[b].resets <= resets'[call'[b].feed]
               /\ call'[b].resets = resets'[call'[b].feed] => stream_state'[call'[b].feed] = call'[b].state
               /\ \A t \in Feeds : stream_state'[t] = call'[b].state =>
                      t = call'[b].feed /\ call'[b].resets = resets'[call'[b].feed]
    <3>1. CASE b = a
      <4>1. call'[b].state = stream_state'[s] /\ call'[b].feed = s /\ call'[b].resets = resets[s] /\ resets' = resets
        BY <1>t, <1>1, <3>1
      <4>2. stream_state'[s] \in 1 .. states_made' /\ stream_state'[s] # 0 /\ resets[s] <= resets[s]
        BY <1>t, <1>4
      <4>3. \A t \in Feeds : stream_state'[t] = stream_state'[s] => t = s
        BY <1>6, <4>2 DEF StatesOfStreams
      <4> QED
        BY <4>1, <4>2, <4>3
    <3>2. CASE b # a
      <4>1. call'[b] = call[b] /\ call[b].at # "out" /\ resets' = resets
        BY <1>t, <1>1, <2>1, <3>2
      <4>2. /\ call[b].state \in 1 .. states_made
            /\ call[b].resets <= resets[call[b].feed]
            /\ call[b].resets = resets[call[b].feed] => stream_state[call[b].feed] = call[b].state
            /\ \A t \in Feeds : stream_state[t] = call[b].state => t = call[b].feed /\ call[b].resets = resets[call[b].feed]
        BY <4>1 DEF MotionInv, HeldStates
      <4>3. call[b].feed \in Feeds /\ call[b].state \in Nat /\ call[b].state # 0 /\ call[b].state <= states_made
        BY <1>t, <4>2 DEF LookupSet
      <4>4. call[b].state \in 1 .. states_made'
        <5>1. states_made \in Nat /\ states_made' \in Nat /\ states_made <= states_made'
          BY <1>t, <1>4
        <5> QED
          BY <4>2, <5>1
      <4>5. call[b].resets = resets[call[b].feed] => stream_state'[call[b].feed] = call[b].state
        BY <1>4, <4>2, <4>3
      <4>6. \A t \in Feeds : stream_state'[t] = call[b].state => stream_state[t] = call[b].state
        <5>1. ASSUME NEW t \in Feeds, stream_state'[t] = call[b].state PROVE stream_state[t] = call[b].state
          <6>1. CASE stream_state[s] = 0 /\ t = s
            <7>1. call[b].state > states_made
              BY <1>4, <5>1, <6>1
            <7> QED
              BY <1>t, <4>3, <7>1
          <6>2. CASE ~(stream_state[s] = 0 /\ t = s)
            BY <1>4, <5>1, <6>2
          <6> QED
            BY <6>1, <6>2
        <5> QED
          BY <5>1
      <4> QED
        BY <4>1, <4>2, <4>4, <4>5, <4>6
    <3> QED
      BY <3>1, <3>2
  <2> QED
    BY <2>1 DEF HeldStates
<1>8. BaselinesAreCurrent'
  BY <1>1, <1>4, <1>n DEF MotionInv, BaselinesAreCurrent
<1>9. ASSUME NEW t \in Feeds PROVE GetConfig(t)' = in_force'[t]
  <2>0. GetConfig(t) = in_force[t] /\ in_force' = in_force
    BY <1>1 DEF MotionInv
  <2>1. CASE stream_state[t] = 0 /\ t = s
    <3>1. stream_state'[t] # 0 /\ motion'[stream_state'[t]].config = DefaultConfig
      BY <1>4, <1>n, <2>1
    <3> QED
      BY <2>0, <2>1, <3>1 DEF GetConfig
  <2>2. CASE ~(stream_state[t] = 0 /\ t = s)
    <3>1. stream_state'[t] = stream_state[t]
      BY <1>4, <2>2
    <3>2. CASE stream_state[t] = 0
      BY <2>0, <3>1, <3>2 DEF GetConfig
    <3>3. CASE stream_state[t] # 0
      <4>1. stream_state[t] \in 1 .. MaxStates /\ ~(stream_state[t] > states_made)
        BY <1>t, <3>3 DEF MotionInv, StatesOfStreams
      <4>2. motion'[stream_state[t]] = motion[stream_state[t]]
        BY <1>4, <4>1
      <4> QED
        BY <2>0, <3>1, <3>3, <4>2 DEF GetConfig
    <3> QED
      BY <3>2, <3>3
  <2> QED
    BY <2>1, <2>2
<1> QED
  BY <1>5, <1>6, <1>7, <1>8, <1>9 DEF MotionInv

\* Use of a held state n: one state changes, its baseline stays current, and
\* unless it is the state of a stream its configuration is nobody's.
LEMMA HeldStateUsed ==
    ASSUME MotionInv, NEW a \in Analysts, call[a].at # "out", Done(a),
           UNCHANGED <<stream_state, states_made, clock, resets>>,
           NEW after \in StateSet, motion' = [motion EXCEPT ![call[a].state] = after],
           after.has_baseline => after.baseline = after.config,
           event' \in [active : BOOLEAN, config : Configs, baseline : Configs],
           event'.active => event'.baseline = event'.config,
           \/ in_force' = in_force
              /\ (resets[call[a].feed] = call[a].resets => after.config = motion[call[a].state].config)
           \/ /\ resets[call[a].feed] = call[a].resets
              /\ in_force' = [in_force EXCEPT ![call[a].feed] = after.config]
    PROVE  MotionInv'
<1>t. /\ stream_state \in [Feeds -> 0 .. MaxStates] /\ states_made \in 0 .. MaxStates /\ MaxStates \in Nat
      /\ motion \in [1 .. MaxStates -> StateSet] /\ call \in [Analysts -> LookupSet]
      /\ in_force \in [Feeds -> Configs] /\ MaxResets \in Nat /\ DefaultConfig \in Configs
  BY MotionAssumption DEF MotionInv, MotionTypeOK, LookupSet
<1> DEFINE n == call[a].state
           feed == call[a].feed
<1>1. /\ n \in 1 .. states_made
      /\ call[a].resets = resets[feed] => stream_state[feed] = n
      /\ \A t \in Feeds : stream_state[t] = n => t = feed /\ call[a].resets = resets[feed]
  BY DEF MotionInv, HeldStates
<1>2. n \in 1 .. MaxStates /\ n # 0 /\ feed \in Feeds
  BY <1>t, <1>1 DEF LookupSet
<1>3. motion'[n] = after /\ \A k \in 1 .. MaxStates : k # n => motion'[k] = motion[k]
  BY <1>t, <1>2
<1>4. after.config \in Configs
  BY DEF StateSet
<1>5. MotionTypeOK'
  <2>0. call[a] \in LookupSet /\ 0 \in 0 .. MaxStates /\ 0 \in 0 .. MaxResets
    BY <1>t
  <2>1. [call[a] EXCEPT !.at = "out", !.state = 0, !.config = DefaultConfig, !.resets = 0] \in LookupSet
    BY <1>t, <2>0 DEF LookupSet
  <2>2. call' = [call EXCEPT ![a] = [call[a] EXCEPT !.at = "out", !.state = 0, !.config = DefaultConfig, !.resets = 0]]
    BY <1>t DEF Done
  <2>3. call' \in [Analysts -> LookupSet]
    BY <1>t, <2>1, <2>2
  <2>4. motion' \in [1 .. MaxStates -> StateSet]
    BY <1>t, <1>2
  <2>5. in_force' \in [Feeds -> Configs]
    BY <1>t, <1>2, <1>4
  <2> QED
    BY <2>3, <2>4, <2>5 DEF MotionInv, MotionTypeOK, LookupSet
<1>6. StatesOfStreams'
  BY DEF MotionInv, StatesOfStreams
<1>7. HeldStates'
  <2>1. \A b \in Analysts : call'[b] = call[b] \/ call'[b].at = "out"
    BY <1>t DEF Done, LookupSet
  <2> QED
    BY <2>1 DEF MotionInv, HeldStates
<1>8. BaselinesAreCurrent'
  BY <1>3 DEF MotionInv, BaselinesAreCurrent
<1>9. ASSUME NEW t \in Feeds PROVE GetConfig(t)' = in_force'[t]
  <2>0. GetConfig(t) = in_force[t] /\ stream_state' = stream_state /\ stream_state[t] \in 0 .. MaxStates
    BY <1>t DEF MotionInv
  <2>1. CASE stream_state[t] = n
    <3>1. t = feed /\ call[a].resets = resets[feed]
      BY <1>1, <2>1
    <3>2. in_force[t] = motion[n].config
      BY <1>2, <2>0, <2>1 DEF GetConfig
    <3>3. in_force'[t] = after.config
      BY <1>t, <1>2, <3>1, <3>2
    <3>4. GetConfig(t)' = after.config
      BY <1>2, <1>3, <2>0, <2>1 DEF GetConfig
    <3> QED
      BY <3>3, <3>4
  <2>2. CASE stream_state[t] # n
    <3>1. in_force'[t] = in_force[t]
      BY <1>t, <1>1, <1>2, <2>2
    <3>2. GetConfig(t)' = GetConfig(t)
      <4>1. CASE stream_state[t] = 0
        BY <2>0, <4>1 DEF GetConfig
      <4>2. CASE stream_state[t] # 0
        <5>1. stream_state[t] \in 1 .. MaxStates
          BY <1>t, <2>0, <4>2
        <5>2. motion'[stream_state[t]] = motion[stream_state[t]]
          BY <1>3, <2>2, <5>1
        <5> QED
          BY <2>0, <4>2, <5>2 DEF GetConfig
      <4> QED
        BY <4>1, <4>2
    <3> QED
      BY <2>0, <3>1, <3>2
  <2> QED
    BY <2>1, <2>2
<1> QED
  BY <1>5, <1>6, <1>7, <1>8, <1>9 DEF MotionInv

LEMMA MotionInvStep == MotionInv /\ [MotionNext]_motionVars => MotionInv'
<1> SUFFICES ASSUME MotionInv, [MotionNext]_motionVars PROVE MotionInv'
  OBVIOUS
<1>t. /\ motion \in [1 .. MaxStates -> StateSet] /\ call \in [Analysts -> LookupSet] /\ MaxStates \in Nat
      /\ stream_state \in [Feeds -> 0 .. MaxStates] /\ states_made \in 0 .. MaxStates
      /\ resets \in [Feeds -> 0 .. MaxResets] /\ in_force \in [Feeds -> Configs] /\ clock \in 0 .. MaxTime
      /\ DefaultConfig \in Configs /\ MaxTime \in Nat /\ MaxResets \in Nat
      /\ event \in [active : BOOLEAN, config : Configs, baseline : Configs]
  BY MotionAssumption DEF MotionInv, MotionTypeOK, LookupSet
<1>h. ASSUME NEW a \in Analysts, call[a].at # "out"
      PROVE  /\ call[a].state \in 1 .. MaxStates /\ motion[call[a].state] \in StateSet
             /\ (motion[call[a].state].has_baseline => motion[call[a].state].baseline = motion[call[a].state].config)
  <2>1. call[a].state \in 1 .. states_made
    BY <1>h DEF MotionInv, HeldStates
  <2>2. call[a].state \in 1 .. MaxStates
    BY <1>t, <2>1
  <2> QED
    BY <1>t, <2>2 DEF MotionInv, BaselinesAreCurrent
<1>1. ASSUME NEW a \in Analysts, NEW s \in Feeds, AnalyzeFrame(a, s) PROVE MotionInv'
  BY <1>1, <1>t, LookedUp DEF AnalyzeFrame
<1>2. ASSUME NEW a \in Analysts, NEW s \in Feeds, NEW config \in Configs, SetConfig(a, s, config) PROVE MotionInv'
  BY <1>2, LookedUp DEF SetConfig
<1>3. ASSUME NEW a \in Analysts, ApplyConfig(a) PROVE MotionInv'
  <2> DEFINE m == motion[call[a].state]
             after == [m EXCEPT !.config = call[a].config, !.has_baseline = FALSE]
  <2>1. /\ call[a].at = "config" /\ Done(a) /\ UNCHANGED <<stream_state, states_made, event, clock, resets>>
        /\ motion' = [motion EXCEPT ![call[a].state].config = call[a].config, ![call[a].state].has_baseline = FALSE]
        /\ in_force' = IF resets[call[a].feed] = call[a].resets
                       THEN [in_force EXCEPT ![call[a].feed] = call[a].config] ELSE in_force
    BY <1>3 DEF ApplyConfig
  <2>2. call[a].state \in 1 .. MaxStates /\ m \in StateSet /\ call[a].config \in Configs
    BY <1>h, <1>t, <2>1 DEF LookupSet
  <2>3. after \in StateSet /\ after.config = call[a].config /\ after.has_baseline = FALSE
    BY <2>2 DEF StateSet
  <2>4. motion' = [motion EXCEPT ![call[a].state] = after]
    BY <1>t, <2>1, <2>2
  <2>5. event' \in [active : BOOLEAN, config : Configs, baseline : Configs] /\ (event'.active => event'.baseline = event'.config)
    BY <1>t, <2>1 DEF MotionInv, BaselinesAreCurrent
  <2> HIDE DEF after
  <2>6. CASE resets[call[a].feed] = call[a].resets
    <3>1. in_force' = [in_force EXCEPT ![call[a].feed] = after.config]
      BY <2>1, <2>3, <2>6
    <3> QED
      BY <2>1, <2>3, <2>4, <2>5, <2>6, <3>1, HeldStateUsed
  <2>7. CASE resets[call[a].feed] # call[a].resets
    <3>1. in_force' = in_force
      BY <2>1, <2>7
    <3> QED
      BY <2>1, <2>3, <2>4, <2>5, <2>7, <3>1, HeldStateUsed
  <2> QED
    BY <2>6, <2>7
<1>4. ASSUME NEW a \in Analysts, FrameTooSmall(a) PROVE MotionInv'
  <2> DEFINE m == motion[call[a].state]
  <2>1. /\ call[a].at = "frame" /\ Done(a)
        /\ UNCHANGED <<stream_state, states_made, motion, event, clock, resets, in_force>>
    BY <1>4 DEF FrameTooSmall
  <2>2. call[a].state \in 1 .. MaxStates /\ m \in StateSet /\ (m.has_baseline => m.baseline = m.config)
    BY <1>h, <2>1
  <2>3. motion' = [motion EXCEPT ![call[a].state] = m]
    BY <1>t, <2>1, <2>2
  <2>4. event' \in [active : BOOLEAN, config : Configs, baseline : Configs] /\ (event'.active => event'.baseline = event'.config)
    BY <1>t, <2>1 DEF MotionInv, BaselinesAreCurrent
  <2> QED
    BY <2>1, <2>2, <2>3, <2>4, HeldStateUsed
<1>5. ASSUME NEW a \in Analysts, TakeBaseline(a) PROVE MotionInv'
  <2> DEFINE m == motion[call[a].state]
             after == [m EXCEPT !.has_baseline = TRUE, !.baseline = m.config, !.active = FALSE]
  <2>1. /\ call[a].at = "frame" /\ Done(a) /\ motion' = [motion EXCEPT ![call[a].state] = after]
        /\ event' = [active |-> FALSE, config |-> m.config, baseline |-> m.config]
        /\ UNCHANGED <<stream_state, states_made, clock, resets, in_force>>
    BY <1>5 DEF TakeBaseline
  <2>2. m \in StateSet
    BY <1>h, <2>1
  <2>3. after \in StateSet /\ after.baseline = after.config /\ after.config = m.config /\ m.config \in Configs
    BY <2>2 DEF StateSet
  <2>4. event' \in [active : BOOLEAN, config : Configs, baseline : Configs] /\ ~event'.active
    BY <2>1, <2>3
  <2> HIDE DEF after
  <2> QED
    BY <2>1, <2>3, <2>4, HeldStateUsed
<1>6. ASSUME NEW a \in Analysts, CompareFrame(a) PROVE MotionInv'
  <2> DEFINE m == motion[call[a].state]
  <2>1. /\ call[a].at = "frame" /\ Done(a) /\ m.has_baseline
        /\ UNCHANGED <<stream_state, states_made, clock, resets, in_force>>
    BY <1>6 DEF CompareFrame
  <2>2. PICK after \in {Moved(m), Rested(m)} :
            /\ motion' = [motion EXCEPT ![call[a].state] = after]
            /\ event' = [active |-> after.active, config |-> m.config, baseline |-> m.baseline]
    BY <1>6 DEF CompareFrame
  <2>3. m \in StateSet /\ m.baseline = m.config
    BY <1>h, <2>1
  <2>4. Moved(m) \in StateSet /\ Moved(m).config = m.config /\ Moved(m).baseline = m.baseline
    BY <1>t, <2>3 DEF Moved, StateSet
  <2>5. Rested(m) \in StateSet /\ Rested(m).config = m.config /\ Rested(m).baseline = m.baseline
    <3> DEFINE still == m.active /\ clock - m.last < Cooldown[m.config]
    <3>1. still \in BOOLEAN /\ Rested(m) = [m EXCEPT !.active = still]
      BY <2>3 DEF Rested, StateSet
    <3> HIDE DEF still
    <3> QED
      BY <2>3, <3>1 DEF StateSet
  <2>6. after \in StateSet /\ after.config = m.config /\ after.baseline = m.baseline
    BY <2>2, <2>4, <2>5
  <2>7. after.active \in BOOLEAN /\ m.config \in Configs /\ m.baseline \in Configs
    BY <2>3, <2>6 DEF StateSet
  <2>8. event' \in [active : BOOLEAN, config : Configs, baseline : Configs] /\ event'.baseline = event'.config
    BY <2>2, <2>3, <2>7
  <2>9. motion' = [motion EXCEPT ![call[a].state] = after]
    BY <2>2
  <2> QED
    BY <2>1, <2>3, <2>6, <2>8, <2>9, HeldStateUsed
<1>7. ASSUME NEW s \in Feeds, Reset(s) PROVE MotionInv'
  <2>1. /\ resets[s] < MaxResets /\ stream_state' = [stream_state EXCEPT ![s] = 0]
        /\ resets' = [resets EXCEPT ![s] = @ + 1] /\ in_force' = [in_force EXCEPT ![s] = DefaultConfig]
        /\ UNCHANGED <<states_made, motion, call, event, clock>>
    BY <1>7 DEF Reset
  <2>2. /\ stream_state'[s] = 0 /\ resets'[s] = resets[s] + 1 /\ in_force'[s] = DefaultConfig
        /\ \A t \in Feeds : t # s => stream_state'[t] = stream_state[t] /\ resets'[t] = resets[t] /\ in_force'[t] = in_force[t]
    BY <1>t, <2>1
  <2>3. MotionTypeOK'
    <3>1. 0 \in 0 .. MaxStates /\ resets[s] + 1 \in 0 .. MaxResets
      BY <1>t, <2>1
    <3>2. stream_state' \in [Feeds -> 0 .. MaxStates] /\ resets' \in [Feeds -> 0 .. MaxResets] /\ in_force' \in [Feeds -> Configs]
      BY <1>t, <2>1, <3>1
    <3> QED
      BY <2>1, <3>2 DEF MotionInv, MotionTypeOK
  <2>4. StatesOfStreams'
    BY <1>t, <2>1, <2>2 DEF MotionInv, StatesOfStreams
  <2>5. HeldStates'
    <3>1. ASSUME NEW b \in Analysts, call[b].at # "out"
          PROVE  /\ call[b].state \in 1 .. states_made
                 /\ call[b].resets <= resets'[call[b].feed]
                 /\ call[b].resets = resets'[call[b].feed] => stream_state'[call[b].feed] = call[b].state
                 /\ \A t \in Feeds : stream_state'[t] = call[b].state =>
                        t = call[b].feed /\ call[b].resets = resets'[call[b].feed]
      <4>1. /\ call[b].state \in 1 .. states_made
            /\ call[b].resets <= resets[call[b].feed]
            /\ call[b].resets = resets[call[b].feed] => stream_state[call[b].feed] = call[b].state
            /\ \A t \in Feeds : stream_state[t] = call[b].state => t = call[b].feed /\ call[b].resets = resets[call[b].feed]
        BY <3>1 DEF MotionInv, HeldStates
      <4>2. call[b].feed \in Feeds /\ call[b].state # 0 /\ call[b].resets \in Nat
        BY <1>t, <4>1 DEF LookupSet
      <4>3. resets[call[b].feed] \in Nat
        BY <1>t, <4>2
      <4>4. CASE call[b].feed = s
        <5>1. resets'[call[b].feed] = resets[call[b].feed] + 1
          BY <2>2, <4>4
        <5>2. call[b].resets <= resets'[call[b].feed] /\ call[b].resets # resets'[call[b].feed]
          BY <4>1, <4>2, <4>3, <5>1
        <5>3. \A t \in Feeds : stream_state'[t] # call[b].state
          BY <2>2, <4>1, <4>2, <4>4
        <5> QED
          BY <4>1, <5>2, <5>3
      <4>5. CASE call[b].feed # s
        <5>1. resets'[call[b].feed] = resets[call[b].feed] /\ stream_state'[call[b].feed] = stream_state[call[b].feed]
          BY <2>2, <4>2, <4>5
        <5>2. \A t \in Feeds : stream_state'[t] = call[b].state => stream_state[t] = call[b].state
          BY <2>2, <4>2
        <5> QED
          BY <4>1, <5>1, <5>2
      <4> QED
        BY <4>4, <4>5
    <3> QED
      BY <2>1, <3>1 DEF HeldStates
  <2>6. BaselinesAreCurrent'
    BY <2>1 DEF MotionInv, BaselinesAreCurrent
  <2>7. \A t \in Feeds : GetConfig(t)' = in_force'[t]
    BY <2>1, <2>2 DEF MotionInv, GetConfig
  <2> QED
    BY <2>3, <2>4, <2>5, <2>6, <2>7 DEF MotionInv
<1>8. CASE TimeGoesBy
  <2>1. clock' \in 0 .. MaxTime /\ UNCHANGED <<stream_state, states_made, motion, call, event, resets, in_force>>
    BY <1>8, <1>t DEF TimeGoesBy
  <2> QED
    BY <2>1 DEF MotionInv, MotionTypeOK, StatesOfStreams, HeldStates, BaselinesAreCurrent, GetConfig
<1>9. CASE UNCHANGED motionVars
  BY <1>9 DEF motionVars, MotionInv, MotionTypeOK, StatesOfStreams, HeldStates, BaselinesAreCurrent, GetConfig
<1> QED
  BY <1>1, <1>2, <1>3, <1>4, <1>5, <1>6, <1>7, <1>8, <1>9 DEF MotionNext

\* The invariant holds what the configurations promise.
LEMMA MotionInvConfigs == MotionInv => ConfigsTakeEffect
BY DEF MotionInv, BaselinesAreCurrent, ConfigsTakeEffect

\* What was set last is in force, whatever Resets and lookups came in between,
\* and motion is seen against a baseline of that configuration
\* (cell_motion_detector.go:42-92, 147-151).
THEOREM MotionConfigsTakeEffect == MotionSpec => []ConfigsTakeEffect
BY MotionInvConfigs, MotionInvInit, MotionInvStep, PTL DEF MotionSpec

(***************************************************************************)
(* The parts side by side                                                  *)
(***************************************************************************)

SessionsInv == IngestInv /\ BridgesInv /\ WhepInv
RepositoriesInv == LoggerInv /\ FragmentsInv
CamerasInv == ProbeInv /\ DiscoveryInv /\ MotionInv

ControlInv == SessionsInv /\ RepositoriesInv /\ CamerasInv

LEMMA ControlInvInit == PartsInit => ControlInv
BY IngestInitInv, BridgesInvInit, WhepInvInit, LoggerInvInit, FragmentsInvInit, ProbeInvInit, DiscoveryInvInit,
   MotionInvInit
   DEF PartsInit, ControlInv, SessionsInv, RepositoriesInv, CamerasInv

\* A step of one part is no step of another.
LEMMA ControlStepIs ==
    ASSUME [PartsNext]_parts
    PROVE  /\ [IngestNext]_ingest_vars /\ [BridgesNext]_bridgesVars /\ [WhepNext]_whepVars
           /\ [LoggerNext]_loggerVars /\ [FragmentsNext]_fragmentVars
           /\ [ProbeNext]_probeVars /\ [DiscoveryNext]_discoveryVars /\ [MotionNext]_motionVars
<1>1. CASE SessionsNext
  <2>1. UNCHANGED repositories /\ UNCHANGED cameras
    BY <1>1 DEF SessionsNext
  <2> QED
    BY <1>1, <2>1 DEF SessionsNext, repositories, cameras
<1>2. CASE RepositoriesNext
  <2>1. UNCHANGED <<ingest_vars, bridgesVars, whepVars>> /\ UNCHANGED cameras
    BY <1>2 DEF RepositoriesNext
  <2> QED
    BY <1>2, <2>1 DEF RepositoriesNext, cameras
<1>3. CASE CamerasNext
  <2>1. UNCHANGED <<ingest_vars, bridgesVars, whepVars>> /\ UNCHANGED repositories
    BY <1>3 DEF CamerasNext
  <2> QED
    BY <1>3, <2>1 DEF CamerasNext, repositories
<1>4. CASE UNCHANGED parts
  <2>1. UNCHANGED <<ingest_vars, bridgesVars, whepVars>> /\ UNCHANGED repositories /\ UNCHANGED cameras
    BY <1>4 DEF parts
  <2> QED
    BY <2>1 DEF repositories, cameras
<1> QED
  BY <1>1, <1>2, <1>3, <1>4 DEF PartsNext

LEMMA ControlInvStep == ControlInv /\ [PartsNext]_parts => ControlInv'
<1> SUFFICES ASSUME ControlInv, [PartsNext]_parts PROVE ControlInv'
  OBVIOUS
<1>1. SessionsInv'
  BY ControlStepIs, IngestNextInv, BridgesInvStep, WhepInvStep DEF ControlInv, SessionsInv
<1>2. RepositoriesInv'
  BY ControlStepIs, LoggerInvStep, FragmentsInvStep DEF ControlInv, RepositoriesInv
<1>3. CamerasInv'
  BY ControlStepIs, ProbeInvStep, DiscoveryInvStep, MotionInvStep DEF ControlInv, CamerasInv
<1> QED
  BY <1>1, <1>2, <1>3 DEF ControlInv

\* Whichever part is run, the variables of all of them stay in their sets and all
\* their invariants hold.
THEOREM ControlPartsCorrect ==
    PartsSpec => [](/\ PartsTypeOK /\ NoWorkerForgotten /\ EventsTellState /\ BridgesAreListed
                    /\ UpstreamIsOwned /\ LogKeepsNewest /\ FragmentsAreWhole
                    /\ ScanHearsEveryPort /\ EachCameraListedOnce /\ ConfigsTakeEffect)
<1>1. ControlInv => /\ PartsTypeOK /\ NoWorkerForgotten /\ EventsTellState /\ BridgesAreListed
                    /\ UpstreamIsOwned /\ LogKeepsNewest /\ FragmentsAreWhole
                    /\ ScanHearsEveryPort /\ EachCameraListedOnce /\ ConfigsTakeEffect
  <2>1. ControlInv => PartsTypeOK /\ NoWorkerForgotten /\ EventsTellState /\ BridgesAreListed
                      /\ UpstreamIsOwned /\ FragmentsAreWhole
    BY DEF ControlInv, SessionsInv, RepositoriesInv, CamerasInv, IngestInv, BridgesInv, WhepInv, LoggerInv,
           FragmentsInv, ProbeInv, DiscoveryInv, MotionInv, PartsTypeOK
  <2>2. ControlInv => LogKeepsNewest /\ ScanHearsEveryPort /\ EachCameraListedOnce /\ ConfigsTakeEffect
    BY LoggerInvNewest, ProbeInvHears, DiscoveryInvLists, MotionInvConfigs
       DEF ControlInv, RepositoriesInv, CamerasInv
  <2> QED
    BY <2>1, <2>2
<1>2. PartsSpec => PartsInit /\ [][PartsNext]_parts
  BY DEF PartsSpec, PartsSafety
<1> QED
  BY <1>1, <1>2, ControlInvInit, ControlInvStep, PTL
=============================================================================
