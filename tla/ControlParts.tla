---------------------------- MODULE ControlParts -----------------------------
(***************************************************************************)
(* The parts of the control plane that share no state with each other,     *)
(* side by side.  As in EngineParts, `subject` is the part whose steps are *)
(* taken in a behaviour.                                                   *)
(***************************************************************************)
EXTENDS RtspIngestor, H264Bridges, WhepSessions, RingLogger, Fragments, CameraProbe, WsDiscovery,
        MotionDetector

VARIABLE subject

repositories == <<loggerVars, fragmentVars>>
cameras == <<probeVars, discoveryVars, motionVars>>
parts == <<ingest_vars, bridgesVars, whepVars, repositories, cameras, subject>>

PartsInit ==
    /\ subject \in {"ingestor", "bridges", "whep", "logger", "fragments", "probe", "discovery", "motion"}
    /\ IngestInit /\ BridgesInit /\ WhepInit /\ LoggerInit /\ FragmentsInit
    /\ ProbeInit /\ DiscoveryInit /\ MotionInit
    /\ subject # "bridges" => ~powershell

RepositoriesNext ==
    /\ \/ subject = "logger" /\ LoggerNext /\ UNCHANGED fragmentVars
       \/ subject = "fragments" /\ FragmentsNext /\ UNCHANGED loggerVars
    /\ UNCHANGED <<ingest_vars, bridgesVars, whepVars, cameras>>

CamerasNext ==
    /\ \/ subject = "probe" /\ ProbeNext /\ UNCHANGED <<discoveryVars, motionVars>>
       \/ subject = "discovery" /\ DiscoveryNext /\ UNCHANGED <<probeVars, motionVars>>
       \/ subject = "motion" /\ MotionNext /\ UNCHANGED <<probeVars, discoveryVars>>
    /\ UNCHANGED <<ingest_vars, bridgesVars, whepVars, repositories>>

SessionsNext ==
    /\ \/ subject = "ingestor" /\ IngestNext /\ UNCHANGED <<bridgesVars, whepVars>>
       \/ subject = "bridges" /\ BridgesNext /\ UNCHANGED <<ingest_vars, whepVars>>
       \/ subject = "whep" /\ WhepNext /\ UNCHANGED <<ingest_vars, bridgesVars>>
    /\ UNCHANGED <<repositories, cameras>>

PartsNext == UNCHANGED subject /\ (SessionsNext \/ RepositoriesNext \/ CamerasNext)

\* The fairness of RtspIngestor and H264Bridges; at the start no worker runs and
\* no start is under way.
PartsFairness == IngestFairness /\ StartsFinish

PartsSafety == PartsInit /\ [][PartsNext]_parts

PartsSpec == PartsSafety /\ PartsFairness

\* Every variable of every part stays in its set.
PartsTypeOK ==
    /\ IngestTypeOK /\ BridgesTypeOK /\ WhepTypeOK /\ LoggerTypeOK /\ FragmentsTypeOK
    /\ ProbeTypeOK /\ DiscoveryTypeOK /\ MotionTypeOK
=============================================================================
