SPECIFICATION FairSpec
CONSTANTS
    TickSecs = 1
    MaxSamples = 3
    Ips = {ip1}
    Dirs = {"rx", "tx"}
    DirPolicies <- MCDirPolicies
    Configs <- MCMixedConfigs
    None = None
    Deltas = {0, 1}
    TickGaps = {1, 2}
    ReloadGaps = {0}
    MaxAge = 3
    MaxObserved = 0
    MaxBytes = 2
    MaxFaults = 2
INVARIANTS
    LimitedIsGoverned
    ArmedMatchesPhase
PROPERTIES
    NoFalseTrigger
    OverdueOnlyIfRefused
    LimitsEnd
