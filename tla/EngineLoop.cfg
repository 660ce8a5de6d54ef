SPECIFICATION FairSpec
CONSTANTS
    Versions = {"A", "B", "bad"}
    Valid = {"A", "B"}
    None = None
    QueueCap = 1
    Timers = {"push"}
    Period <- MCPeriod
    MaxLate = 1
    MaxTasks = 2
CHECK_DEADLOCK FALSE
INVARIANTS
    OnePush
PROPERTIES
    NeverSilentlyStale
    SignalsServed
    TimersRecur
    PushesGoOn
