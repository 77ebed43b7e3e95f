\* The parts of the control plane, one at a time.
SPECIFICATION PartsSpec
CHECK_DEADLOCK FALSE
CONSTANTS
    i1 = i1
    i2 = i2
    cam = cam
    cam_sub = cam_sub
    r1 = r1
    r2 = r2
    NoSession = NoSession
    Sessions <- MCSessions
    Callers <- MCRequests
    StreamIds <- MCStreamIds
    Sources <- MCSources
    Requests <- MCRequests
    Cameras <- MCCameras
    BaseOf <- MCBaseOf
    MaxProcesses = 2
    WhepRequests <- MCRequests
    MaxSessions = 2
    Writers <- MCRequests
    Capacity = 2
    MaxEntries = 4
    Uploaders <- MCRequests
    Downloaders = {"d1"}
    FragmentIds = {"frag"}
    MaxUploads = 3
    p80 = p80
    p8899 = p8899
    ScanPorts <- MCPorts
    HttpPort = p80
    AltPorts <- MCAltPorts
    Direct = "direct"
    NoDevice = "none"
    Interfaces <- MCSessions
    Keys = {"k1", "k2"}
    NoKey = "no key"
    BlankKey = "blank"
    NoListener = "nobody"
    MaxAnswers = 3
    Analysts <- MCRequests
    Feeds <- MCStreamIds
    Configs <- MCConfigs
    DefaultConfig = "coarse"
    Grid <- MCGrid
    Cooldown <- MCCooldown
    MaxStates = 2
    MaxResets = 1
    MaxTime = 1
INVARIANTS
    NoWorkerForgotten
    EventsTellState
    BridgesAreListed
    UpstreamIsOwned
    LogKeepsNewest
    FragmentsAreWhole
    ScanHearsEveryPort
    EachCameraListedOnce
    ConfigsTakeEffect
PROPERTIES
    StoppedWorkersEnd
    StartersAnswer
