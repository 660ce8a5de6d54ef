SPECIFICATION FairSpec
CONSTANTS
    Layouts <- MCLayouts
    Hot = {"b"}
    Huge = {"a"}
    Keys = {"q", "r", "h", "Up", "Down", "Enter", "t", "Esc", "Left", "Right"}
    NWindows = 2
    Conns = {c1, c2}
    MaxIpcConnections = 1
    MetricsEnabled = TRUE
    None = None
    MaxVersion = 1
    MaxFaults = 1
    MaxInflight = 2
    MaxKeys = 3
INVARIANTS
    StaleIsFlagged
    ShownUnderItsName
PROPERTIES
    UiRecovers
    TrendSettles
CHECK_DEADLOCK FALSE
