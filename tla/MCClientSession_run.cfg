CONSTANTS
    Configs <- MCConfigs
    Batches <- MCBatches
    MaxHeld = 1
    MaxPosted = 1
SPECIFICATION FairSpec
INVARIANTS
    IndInv
    RefusalsEnd
PROPERTIES
    ContractKept
    HeldInfoDelivered
    RunsDry
