SPECIFICATION Spec
CONSTANTS
    Width = 3
    Bad = Bad
    Absent = Absent
    Files <- MCFiles
    Kilo = 10
    Kibi = 16
    U64Max = 1000000
    MinRate = 100
    MaxRate = 2000
    MaxBurst = 4096
    MaxLimitWindow = 60
    MaxInterval = 10
    MaxSwlEntries = 4
    MaxPolicedLen = 255
    Pending = Pending
INVARIANTS
    AcceptsExactly
    WhitelistIsExact
    EffectiveIsEnforceable
CHECK_DEADLOCK FALSE
