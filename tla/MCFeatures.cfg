CONSTANTS
    A = A
    B = B
    Features = {A, B}
    Criteria <- Concurrent
    LockInOnTimeout = {A}
    EvaluationInterval = 2
    MaxSignalBits = 2
    AlwaysAsked = {B}
    InitialFeatures = {A}
    SupportArgs = {B}
    NotSupportArgs = {A}
    Operated = {A}
    Signals <- SomeSignals
    MaxHeight = 8
    ForkHeights = {2}
    MaxSideBlocks = 2
SPECIFICATION Spec
INVARIANTS
    StatesAreStable
    TimeoutDecides
    LockInIsEarned
    ChainsCanGrow
PROPERTY
    ImplementsTree
