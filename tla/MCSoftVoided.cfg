SPECIFICATION Spec
CONSTANTS
    Universe <- AroundSoftVoided
    SoftVoidedTxIds <- SoftVoided
    RewardSpendMinBlocks = 1
CHECK_DEADLOCK FALSE
INVARIANT
    SoftVoidanceFollowsFunds
