SPECIFICATION PartsSpec
CONSTANTS
    MaxConns = 2
    Names = {"a", "b"}
    MaxDepth = 2
    MaxSteps = 10
    MaxParts = 2
    MaxLinks = 2
    Targets <- MCTargets
    Configs <- MCConfigs
    Home <- MCHome
    ConfigDir <- MCConfigDir
    Origins = {deb, sh}
    NoText = NoText
    JsonMax = 2
    BlobMax = 1
    MaxFrames = 2
INVARIANTS
    NodeTypeOK
    OneAcceptLoop
    FlagIsHeld
    NoneLeftUnclosed
    ServedFromRootsOnly
    PlainPathsPass
    AnnouncedWorks
    AskedOnce
    FramesArriveWhole
PROPERTIES
    InstalledRuns
    UninstallLeavesNothing
    StopsWhenTold
    TransferComesUp
CHECK_DEADLOCK FALSE
