CONSTANTS
    OptionSets <- MCOptionSets
    MaxReady = 1
    MaxPosts = 2
SPECIFICATION FairSpec
INVARIANTS
    IndInv
    NeverStranded
PROPERTIES
    StaleTimersSpareClient
    PauseSettled
    StopReturns
    ConnectionTimeoutHolds
