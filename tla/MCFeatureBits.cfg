CONSTANTS
    A = A
    B = B
    Features = {A, B}
    Criteria <- Successive
    LockInOnTimeout = {}
    EvaluationInterval = 2
    MaxSignalBits = 1
    AlwaysAsked = {}
    InitialFeatures = {A, B}
    SupportArgs = {A, B}
    NotSupportArgs = {}
    Operated = {}
    Signals <- AllSignals
    MaxHeight = 8
    ForkHeights = {}
    MaxSideBlocks = 0
SPECIFICATION Spec
INVARIANT SignalingFeaturesFit
