SPECIFICATION FairSpec
CONSTANTS
    Counters <- MCCounters
    Flows <- MCFlows
    OwnerOf <- MCOwnerOf
    TapOf <- MCTapOf
    TapSets <- MCTapSets
    Ipv6 = "ipv6"
    None = None
    IdleEvictPolls = 2
    MapMaxEntries = 1
    MaxSent <- MCMaxSent
    MaxFaults = 1
INVARIANTS
    NeverOvercounts
    NothingLostInPlace
    TotalsOwnKeys
PROPERTIES
    IdleMeansIdle
    LiveCountersKept
    DeadKeysReclaimed
