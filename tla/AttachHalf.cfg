SPECIFICATION Spec
CONSTANTS
    Names = {"tap1"}
    MaxIfindex = 2
    Kernels = {"tcx", "legacy"}
    None = None
    BaseDelay = 1
    MaxShift = 2
    MaxDelay = 3
    ScanGaps = {1}
    MaxFaults = 0
CHECK_DEADLOCK FALSE
INVARIANTS
    NothingHalfAttached
