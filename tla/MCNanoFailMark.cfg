SPECIFICATION CallsSpec
CONSTANTS
    Universe <- LightFork
    SoftVoidedTxIds <- NoSoftVoided
    RewardSpendMinBlocks = 1
CHECK_DEADLOCK FALSE
INVARIANTS
    CallsAreClassified
