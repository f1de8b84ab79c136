CONSTANTS
    Universe <- MCUniverse
    SoftVoidedTxIds = {}
    RewardSpendMinBlocks = 0
    StreamingLimit = 5
    MaxBfsLen = 1
    SearchWays = 2
    MaxRepeatedBlocks = 2
    MaxStackLength = 2
    MaxReceivingTips = 2
    MineAtFirst <- MCMine
    PeersAtFirst <- MCPeers
    Elsewhere <- MCElsewhere
    Later <- MCLater
    MaxOrphans = 1
SPECIFICATION FairSpec
INVARIANTS
    RunsStartClean
    NoOverlappingStreams
    CommonBlockIsCommon
    
PROPERTIES
    ChainIsSynced
    
