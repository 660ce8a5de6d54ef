SPECIFICATION Spec
CONSTANTS
    Flows = {f1, f2}
    Cidrs = {}
    IpsOf <- MCIpsOf
    Policies = {"gcra", "log"}
    Algorithms <- MCAlgorithms
    AlgoOf <- MCAlgoOf
    RingAlgo = "sliding_window_log"
    None = None
    Cpus = {c1}
    PolicyCap = 2
    StateCap = 2
    RingCap = 1
    WhitelistCap = 2
    MaxFaults = 2
SYMMETRY Symmetry
INVARIANTS
    ArmedHasState
    NormalIsUnpoliced
    DataPlaneMatchesControl
    NoOrphans
    RollbackNeedsNoRoom
PROPERTIES
    ImplementsAtomicLimits
