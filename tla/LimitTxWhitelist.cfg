SPECIFICATION Spec
CONSTANTS
    Flows = {f1}
    Cidrs = {"a/31", "a/32", "b/32", "c/32"}
    IpsOf <- MCIpsOf
    Policies = {"gcra", "token_bucket"}
    Algorithms <- MCAlgorithms
    AlgoOf <- MCAlgoOf
    RingAlgo = "sliding_window_log"
    None = None
    Cpus = {c1}
    PolicyCap = 2
    StateCap = 2
    RingCap = 1
    WhitelistCap = 3
    MaxFaults = 2
INVARIANTS
    NoCoverageGap
PROPERTIES
    ArmsOnFreshState
    ImplementsAtomicLimits
