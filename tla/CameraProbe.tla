----------------------------- MODULE CameraProbe ------------------------------
(***************************************************************************)
(* One probe of a camera (HandleProbeStream): the handler of its protocol, *)
(* the scan for an ONVIF service that probeRTSP starts in the background,  *)
(* with a goroutine per port, and what each of them does in ProbeDevice.   *)
(* Of an answer only whether the camera is online, which ONVIF port was    *)
(* found and whether it carries a picture is kept; of a device its port.   *)
(* Timeouts may end a call or a wait at any moment.                        *)
(***************************************************************************)
EXTENDS Naturals, FiniteSets

CONSTANTS
    ScanPorts,     \* commonPorts: 80, 8080, 8899, 5000, 8000 and 8001
    HttpPort,      \* 80, from which ProbeDevice goes on to ...
    AltPorts,      \* ... 8899, 8000 and 8080
    Direct,        \* the ProbeDevice call of probeONVIF itself
    NoDevice

ASSUME ProbeAssumption ==
    /\ IsFiniteSet(ScanPorts) /\ HttpPort \in ScanPorts /\ AltPorts \subseteq ScanPorts
    /\ Direct \notin ScanPorts /\ NoDevice \notin ScanPorts

VARIABLES
    probing,       \* the request: where its handler is, and its answer
    scan,          \* autoScanONVIF: where it is, what it heard and returns
    scanner,       \* the ProbeDevice calls: one per port, and Direct
    scan_results,  \* resChan, as the ports whose outcome is in it
    onvif_chan,    \* onvifChan, as the set of what is in it
    scan_over,     \* the context of the calls has ended
    pictures       \* the files the probe has left in samples/

probeVars == <<probing, scan, scanner, scan_results, onvif_chan, scan_over, pictures>>

Calls == ScanPorts \cup {Direct}
Devices == ScanPorts \cup {NoDevice}
ChanCapacity == Cardinality(ScanPorts)

-----------------------------------------------------------------------------
(* The handlers                                                            *)

GoOn(to) == probing' = [probing EXCEPT !.at = to]

Reply(online, device, picture) ==
    probing' = [probing EXCEPT !.at = "answered", !.online = online, !.device = device, !.picture = picture]

\* The method or the body is refused, or a handler takes the request.
HandleProbeStream ==
    /\ probing.at = "out"
    /\ \E to \in {"loop", "rtmp", "onvif", "rtsp", "answered"}, named \in BOOLEAN :
           probing' = [probing EXCEPT !.at = to, !.named = named]
    /\ UNCHANGED <<scan, scanner, scan_results, onvif_chan, scan_over, pictures>>

\* A file is online if it is found, with a picture if ffmpeg takes one.
ProbeLoopFile ==
    /\ probing.at = "loop"
    /\ \E found, picture \in BOOLEAN : Reply(found, NoDevice, found /\ picture)
    /\ UNCHANGED <<scan, scanner, scan_results, onvif_chan, scan_over, pictures>>

ProbeRTMP ==
    /\ probing.at = "rtmp"
    /\ \E connected \in BOOLEAN : Reply(connected, NoDevice, FALSE)
    /\ UNCHANGED <<scan, scanner, scan_results, onvif_chan, scan_over, pictures>>

\* The host is missing or not allowed, or the scan is started.
ProbeRTSP ==
    /\ probing.at = "rtsp"
    /\ \/ Reply(FALSE, NoDevice, FALSE) /\ UNCHANGED scan
       \/ GoOn("wait") /\ scan' = [scan EXCEPT !.at = "start"]
    /\ UNCHANGED <<scanner, scan_results, onvif_chan, scan_over, pictures>>

\* The select: what the scan found, or a second has passed.
AwaitScan ==
    /\ probing.at = "wait"
    /\ \/ \E device \in onvif_chan :
              /\ probing' = [probing EXCEPT !.at = "native", !.device = device]
              /\ onvif_chan' = {}
       \/ GoOn("native") /\ UNCHANGED onvif_chan
    /\ UNCHANGED <<scan, scanner, scan_results, scan_over, pictures>>

ProbeNative ==
    /\ probing.at = "native"
    /\ \/ GoOn("capture")
       \/ GoOn("ffmpeg")
    /\ UNCHANGED <<scan, scanner, scan_results, onvif_chan, scan_over, pictures>>

\* The picture is kept for the stream, if one is named, and as the latest.
StorePicture ==
    pictures' = (pictures \ {"temp"}) \cup {"latest"} \cup (IF probing.named THEN {"stream"} ELSE {})

\* Priority 1: the camera is online, with a picture or without; a capture that
\* fails may leave its file.
CaptureNative ==
    /\ probing.at = "capture"
    /\ \/ StorePicture /\ Reply(TRUE, probing.device, TRUE)
       \/ pictures' \in {pictures, pictures \cup {"temp"}} /\ Reply(TRUE, probing.device, FALSE)
    /\ UNCHANGED <<scan, scanner, scan_results, onvif_chan, scan_over>>

\* Priority 2.
CaptureFFmpeg ==
    /\ probing.at = "ffmpeg"
    /\ \/ StorePicture /\ Reply(TRUE, probing.device, TRUE)
       \/ pictures' \in {pictures, pictures \cup {"temp"}} /\ GoOn("failed")
    /\ UNCHANGED <<scan, scanner, scan_results, onvif_chan, scan_over>>

\* A camera that asks for a password is online.
ReplyFailure ==
    /\ probing.at = "failed"
    /\ \E unauthorized \in BOOLEAN : Reply(unauthorized, probing.device, FALSE)
    /\ UNCHANGED <<scan, scanner, scan_results, onvif_chan, scan_over, pictures>>

ProbeONVIF ==
    /\ probing.at = "onvif"
    /\ \/ Reply(FALSE, NoDevice, FALSE) /\ UNCHANGED scanner
       \/ /\ GoOn("device")
          /\ \E port \in ScanPorts :
                 scanner' = [scanner EXCEPT ![Direct].at = "information", ![Direct].port = port]
    /\ UNCHANGED <<scan, scan_results, onvif_chan, scan_over, pictures>>

ReplyONVIF ==
    LET call == scanner[Direct]
    IN  /\ probing.at = "device" /\ call.at = "returned"
        /\ Reply(call.device # NoDevice, call.device, call.picture)
        /\ pictures' = pictures \cup (IF call.picture THEN {"device", "camera", "address"} ELSE {})
        /\ UNCHANGED <<scan, scanner, scan_results, onvif_chan, scan_over>>

-----------------------------------------------------------------------------
(* ProbeDevice, by goroutine p of the scan or by probeONVIF                *)

Move(p, from, to) == scanner[p].at = from /\ scanner' = [scanner EXCEPT ![p].at = to]

\* Move, with an answer from the camera: none comes once the context has ended.
Answered(p, from, to) == ~scan_over /\ Move(p, from, to)

Leave(p, device, picture) ==
    scanner' = [scanner EXCEPT ![p].at = IF p = Direct THEN "returned" ELSE "send",
                               ![p].device = device, ![p].picture = picture]

DialPort(p) ==
    /\ scanner[p].at = "dial"
    /\ \/ Move(p, "dial", "information")
       \/ Leave(p, NoDevice, FALSE)
    /\ UNCHANGED <<probing, scan, scan_results, onvif_chan, scan_over, pictures>>

GetDeviceInformation(p) ==
    /\ scanner[p].at = "information"
    /\ \/ Answered(p, "information", "describe")
       \/ scanner[p].port = HttpPort /\ Move(p, "information", "alternatives")
       \/ scanner[p].port # HttpPort /\ Leave(p, NoDevice, FALSE)
    /\ UNCHANGED <<probing, scan, scan_results, onvif_chan, scan_over, pictures>>

TryAlternatives(p) ==
    /\ scanner[p].at = "alternatives"
    /\ \/ /\ ~scan_over
          /\ \E port \in AltPorts : scanner' = [scanner EXCEPT ![p].at = "describe", ![p].port = port]
       \/ Leave(p, NoDevice, FALSE)
    /\ UNCHANGED <<probing, scan, scan_results, onvif_chan, scan_over, pictures>>

\* Capabilities, profiles and stream addresses: every failure has a default, but
\* without a profile no picture is asked for.
Describe(p) ==
    /\ Answered(p, "describe", "snapshot_uri") \/ Move(p, "describe", "rtsp")
    /\ UNCHANGED <<probing, scan, scan_results, onvif_chan, scan_over, pictures>>

GetSnapshotURI(p) ==
    /\ Answered(p, "snapshot_uri", "fetch") \/ Move(p, "snapshot_uri", "rtsp")
    /\ UNCHANGED <<probing, scan, scan_results, onvif_chan, scan_over, pictures>>

\* With Basic authentication; the camera may ask for Digest instead.
FetchSnapshot(p) ==
    /\ \/ Answered(p, "fetch", "store")
       \/ Answered(p, "fetch", "digest")
       \/ Move(p, "fetch", "rtsp")
    /\ UNCHANGED <<probing, scan, scan_results, onvif_chan, scan_over, pictures>>

RetryWithDigest(p) ==
    /\ Answered(p, "digest", "store") \/ Move(p, "digest", "rtsp")
    /\ UNCHANGED <<probing, scan, scan_results, onvif_chan, scan_over, pictures>>

CaptureFromRTSP(p) ==
    /\ scanner[p].at = "rtsp"
    /\ \/ Answered(p, "rtsp", "store")
       \/ Leave(p, scanner[p].port, FALSE)
    /\ UNCHANGED <<probing, scan, scan_results, onvif_chan, scan_over, pictures>>

\* Also after the scan has returned.
StoreSnapshot(p) ==
    /\ scanner[p].at = "store"
    /\ pictures' = pictures \cup {"device", "camera"}
    /\ Leave(p, scanner[p].port, TRUE)
    /\ UNCHANGED <<probing, scan, scan_results, onvif_chan, scan_over>>

-----------------------------------------------------------------------------
(* autoScanONVIF                                                           *)

ScanStart ==
    /\ scan.at = "start"
    /\ scan' = [scan EXCEPT !.at = "collect"]
    /\ scanner' = [p \in Calls |-> IF p = Direct THEN scanner[p] ELSE [scanner[p] EXCEPT !.at = "dial"]]
    /\ UNCHANGED <<probing, scan_results, onvif_chan, scan_over, pictures>>

SendResult(p) ==
    /\ scanner[p].at = "send" /\ Cardinality(scan_results) < ChanCapacity
    /\ scan_results' = scan_results \cup {p}
    /\ scanner' = [scanner EXCEPT ![p].at = "sent"]
    /\ UNCHANGED <<probing, scan, onvif_chan, scan_over, pictures>>

\* A bug: the first outcome is returned, whatever it is.
CollectFirst(p) ==
    /\ scan.at = "collect" /\ p \in scan_results
    /\ scan_results' = scan_results \ {p}
    /\ scan' = [at |-> "deliver", heard |-> scan.heard \cup {p}, device |-> scanner[p].device]
    /\ scan_over' = TRUE
    /\ UNCHANGED <<probing, scanner, onvif_chan, pictures>>

\* The first device, or nothing after as many outcomes as there are ports; the
\* return ends the context.
Collect(p) ==
    LET last == scanner[p].device # NoDevice \/ Cardinality(scan.heard) + 1 = Cardinality(ScanPorts)
    IN  /\ scan.at = "collect" /\ p \in scan_results
        /\ scan_results' = scan_results \ {p}
        /\ scan' = [at |-> IF last THEN "deliver" ELSE "collect",
                    heard |-> scan.heard \cup {p}, device |-> scanner[p].device]
        /\ scan_over' = (scan_over \/ last)
        /\ UNCHANGED <<probing, scanner, onvif_chan, pictures>>

Deliver ==
    /\ scan.at = "deliver" /\ onvif_chan = {}
    /\ onvif_chan' = {scan.device}
    /\ scan' = [scan EXCEPT !.at = "done"]
    /\ UNCHANGED <<probing, scanner, scan_results, scan_over, pictures>>

\* The timeout of the context, or the client of probeONVIF goes.
ContextEnds ==
    /\ scan.at = "collect" \/ probing.at = "device"
    /\ scan_over' = TRUE
    /\ UNCHANGED <<probing, scan, scanner, scan_results, onvif_chan, pictures>>

-----------------------------------------------------------------------------
ProbeInit ==
    /\ probing = [at |-> "out", named |-> FALSE, online |-> FALSE, device |-> NoDevice, picture |-> FALSE]
    /\ scan = [at |-> "idle", heard |-> {}, device |-> NoDevice]
    /\ scanner = [p \in Calls |-> [at |-> "idle", port |-> IF p = Direct THEN HttpPort ELSE p,
                                   device |-> NoDevice, picture |-> FALSE]]
    /\ scan_results = {} /\ onvif_chan = {} /\ scan_over = FALSE /\ pictures = {}

ProbeDevice(p) ==
    \/ GetDeviceInformation(p) \/ TryAlternatives(p) \/ Describe(p) \/ GetSnapshotURI(p)
    \/ FetchSnapshot(p) \/ RetryWithDigest(p) \/ CaptureFromRTSP(p) \/ StoreSnapshot(p)

HandlerStep ==
    \/ HandleProbeStream \/ ProbeLoopFile \/ ProbeRTMP
    \/ ProbeRTSP \/ AwaitScan \/ ProbeNative \/ CaptureNative \/ CaptureFFmpeg \/ ReplyFailure
    \/ ProbeONVIF \/ ReplyONVIF

ProbeNext ==
    \/ HandlerStep
    \/ ScanStart \/ Deliver \/ ContextEnds
    \/ \E p \in Calls : ProbeDevice(p)
    \/ \E p \in ScanPorts : DialPort(p) \/ SendResult(p) \/ Collect(p)

ProbeSpec == ProbeInit /\ [][ProbeNext]_probeVars

-----------------------------------------------------------------------------
(* Properties                                                              *)

ProbeTypeOK ==
    /\ probing \in [at : {"out", "loop", "rtmp", "onvif", "rtsp", "wait", "native", "capture", "ffmpeg",
                          "failed", "device", "answered"},
                    named : BOOLEAN, online : BOOLEAN, device : Devices, picture : BOOLEAN]
    /\ scan \in [at : {"idle", "start", "collect", "deliver", "done"},
                 heard : SUBSET ScanPorts, device : Devices]
    /\ scanner \in [Calls -> [at : {"idle", "dial", "information", "alternatives", "describe", "snapshot_uri",
                                    "fetch", "digest", "rtsp", "store", "send", "sent", "returned"},
                              port : ScanPorts, device : Devices, picture : BOOLEAN]]
    /\ scan_results \in SUBSET ScanPorts /\ onvif_chan \in SUBSET Devices
    /\ scan_over \in BOOLEAN
    /\ pictures \in SUBSET {"temp", "latest", "stream", "device", "camera", "address"}

\* The scan says that there is no ONVIF service only if it has heard so from
\* every port, although it waits for outcomes in any order and its context may
\* end while calls are under way; and whoever still has something to tell when
\* nobody listens any more - a slower port after the first device, the scan
\* after the handler's second - finds room in its channel and can end
\* (probe_handler_helpers.go:24-61, probe_handler_rtsp.go:147-166).
ScanHearsEveryPort ==
    /\ scan.at \in {"deliver", "done"} /\ scan.device = NoDevice =>
           \A p \in ScanPorts : scanner[p].at = "sent" /\ scanner[p].device = NoDevice
    /\ \A p \in ScanPorts : scanner[p].at = "send" => Cardinality(scan_results) < ChanCapacity
    /\ scan.at = "deliver" => onvif_chan = {}
=============================================================================
