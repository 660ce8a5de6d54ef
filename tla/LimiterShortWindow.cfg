SPECIFICATION Spec
CONSTANTS
    TickSecs = 1
    MaxSamples = 2
    Ips = {ip1}
    Dirs = {"rx"}
    DirPolicies <- MCDirPolicies
    Configs <- MCConfigs
    None = None
    Deltas = {0, 1}
    TickGaps = {1}
    ReloadGaps = {0}
    MaxAge = 3
    MaxObserved = 2
    MaxBytes = 3
    MaxFaults = 0
PROPERTIES
    FullWindowObserved
