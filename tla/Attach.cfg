SPECIFICATION FairSpec
CONSTANTS
    Names = {"tap1", "tap2"}
    MaxIfindex = 3
    Kernels = {"tcx", "legacy"}
    None = None
    BaseDelay = 1
    MaxShift = 2
    MaxDelay = 3
    ScanGaps = {1}
    MaxFaults = 2
CHECK_DEADLOCK FALSE
INVARIANTS
    OwnedOnce
    AttachedIsWhole
PROPERTIES
    RecreatedIsAttempted
    Converges
