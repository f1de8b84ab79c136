SPECIFICATION ChainsSpec
CONSTANTS
    Universe <- Chains
    SoftVoidedTxIds <- NoSoftVoided
    RewardSpendMinBlocks = 1
CHECK_DEADLOCK FALSE
INVARIANTS
    NoFailure
    BestScoreWins
    ScoreIsWork
    ConfirmedByBestChain
    HeightIndexIsBestChain
    HeadsAreFound
    ExecutionMatchesState
PROPERTIES
    ExecutionIsStable
