SPECIFICATION Spec
CONSTANTS
    Cpus = {cpu1, cpu2}
    Policies <- MCPolicies
    Displaced <- MCDisplaced
    Lens = {1, 3}
    NsPerSec = 2
    NsPerMs = 2
    SwlLogCap = 2
    Boot = 3
    None = None
    MaxTicks = 8
    MaxPackets = 4
    MaxStale = 1
SYMMETRY CpuSymmetry
CHECK_DEADLOCK FALSE
INVARIANTS
    BurstBound
    WindowBound
    SameDecisions
    AdmissibleFrames
