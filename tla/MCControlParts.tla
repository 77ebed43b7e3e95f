--------------------------- MODULE MCControlParts -----------------------------
(* Instances of the parts of the control plane for TLC. *)
EXTENDS ControlParts

CONSTANTS i1, i2, cam, cam_sub, r1, r2, p80, p8899

MCSessions  == {i1, i2}
MCRequests  == {r1, r2}
MCStreamIds == {cam}
MCCameras   == {cam, cam_sub}
MCBaseOf    == [id \in MCCameras |-> cam]
MCSources   == {"rtsp", "synthetic"}
MCPorts     == {p80, p8899}
MCAltPorts  == {p8899}
MCConfigs   == {"coarse", "fine"}
MCGrid      == [config \in MCConfigs |-> 1]
MCCooldown  == [config \in MCConfigs |-> 1]
=============================================================================
