SPECIFICATION ConflictsSpec
CONSTANTS
    Universe <- Conflicts
    SoftVoidedTxIds <- NoSoftVoided
    RewardSpendMinBlocks = 2
CHECK_DEADLOCK FALSE
INVARIANTS
    NoFailure
    NoDoubleSpend
    
    VoidanceIsInherited
    LosersAreOutweighed
    IndexHoldsExecuted
    
    MempoolIsMinable
