SPECIFICATION Spec
CONSTANTS
    Universe <- Rivals
    SoftVoidedTxIds <- NoSoftVoided
    RewardSpendMinBlocks = 1
CHECK_DEADLOCK FALSE
INVARIANTS
    FallbackFindsAnotherHead
