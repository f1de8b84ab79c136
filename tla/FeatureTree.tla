----------------------------- MODULE FeatureTree -----------------------------
(***************************************************************************)
(* Feature activation as the nodes of a network agree on it: the state of  *)
(* a feature at a block is determined by the chain that the block ends,    *)
(* whatever else a node has seen.                                          *)
(*                                                                         *)
(* tree holds the accepted blocks in the order of their arrival, the       *)
(* genesis first.  A block knows its parent, its height, its offset in the *)
(* evaluation interval, the signals counted since the interval began, and  *)
(* the state of each feature.                                              *)
(***************************************************************************)
EXTENDS Integers, Sequences

CONSTANTS
    Features,
    Criteria,            \* [bit, start, timeout, threshold, minActivation] of each feature
    LockInOnTimeout,     \* the features that are locked in when their time is over
    EvaluationInterval,
    MaxSignalBits

States == {"DEFINED", "STARTED", "MUST_SIGNAL", "LOCKED_IN", "ACTIVE", "FAILED"}
Bits == 0 .. MaxSignalBits - 1

IsBoundary(height) == \E n \in 0 .. height : height = n * EvaluationInterval

\* What the settings are validated for.
ValidCriteria(c) ==
    /\ c \in [bit : Bits, start : Nat, timeout : Nat, threshold : Nat, minActivation : Nat]
    /\ IsBoundary(c.start) /\ IsBoundary(c.timeout) /\ IsBoundary(c.minActivation)
    /\ c.timeout >= c.start + 2 * EvaluationInterval
    /\ c.threshold <= EvaluationInterval

NoConflictingBits ==
    \A f, g \in Features :
        f # g /\ Criteria[f].bit = Criteria[g].bit =>
            Criteria[f].timeout < Criteria[g].start \/ Criteria[g].timeout < Criteria[f].start

ASSUME SettingsAssumption ==
    /\ EvaluationInterval \in Nat \ {0} /\ MaxSignalBits \in Nat \ {0}
    /\ LockInOnTimeout \subseteq Features
    /\ DOMAIN Criteria = Features
    /\ \A f \in Features : ValidCriteria(Criteria[f])
    /\ NoConflictingBits

\* Not validated: the genesis block is DEFINED, so that a process that starts with it
\* begins an interval late.
ASSUME StartAssumption == \A f \in Features : Criteria[f].start # 0

VARIABLE tree

-----------------------------------------------------------------------------
\* Mutant: the mandatory interval begins with the timeout, and nothing fails.
CalculateNewStateFailing(f, height, count, previous) ==
    CASE previous = "DEFINED" -> IF height >= Criteria[f].start THEN "STARTED" ELSE "DEFINED"
      [] previous = "STARTED" ->
            IF height < Criteria[f].timeout /\ count >= Criteria[f].threshold THEN "LOCKED_IN"
            ELSE IF height >= Criteria[f].timeout /\ f \in LockInOnTimeout
            THEN "MUST_SIGNAL" ELSE "STARTED"
      [] previous = "MUST_SIGNAL" -> "LOCKED_IN"
      [] previous = "LOCKED_IN" -> IF height >= Criteria[f].minActivation THEN "ACTIVE" ELSE previous
      [] OTHER -> previous

\* The state at a boundary block, from the state before it and the signals in between.
CalculateNewState(f, height, count, previous) ==
    CASE previous = "DEFINED" -> IF height >= Criteria[f].start THEN "STARTED" ELSE "DEFINED"
      [] previous = "STARTED" ->
            IF height >= Criteria[f].timeout /\ f \notin LockInOnTimeout THEN "FAILED"
            ELSE IF height < Criteria[f].timeout /\ count >= Criteria[f].threshold
            THEN "LOCKED_IN"
            ELSE IF height + EvaluationInterval >= Criteria[f].timeout /\ f \in LockInOnTimeout
            THEN "MUST_SIGNAL" ELSE "STARTED"
      [] previous = "MUST_SIGNAL" -> "LOCKED_IN"
      [] previous = "LOCKED_IN" -> IF height >= Criteria[f].minActivation THEN "ACTIVE" ELSE previous
      [] OTHER -> previous

\* Mutants: the block itself is counted among the remaining ones; the missing signals must
\* be fewer than the blocks that remain.
IsSignalingLate(b, f) ==
    b.states[f] = "MUST_SIGNAL" =>
        Criteria[f].threshold - b.counts[Criteria[f].bit] <= EvaluationInterval - b.offset

IsSignalingEarly(b, f) ==
    b.states[f] = "MUST_SIGNAL" =>
        Criteria[f].threshold - b.counts[Criteria[f].bit] < EvaluationInterval - b.offset - 1

\* The signals that are missing in a mandatory interval fit in the blocks that remain.
IsSignaling(b, f) ==
    b.states[f] = "MUST_SIGNAL" =>
        Criteria[f].threshold - b.counts[Criteria[f].bit] <= EvaluationInterval - b.offset - 1

Genesis ==
    [parent |-> 0, height |-> 0, offset |-> 0,
     counts |-> [i \in Bits |-> 0], states |-> [f \in Features |-> "DEFINED"]]

Counts(previous, signals) == [i \in Bits |-> previous[i] + (IF i \in signals THEN 1 ELSE 0)]

\* The block that signals the bits in signals on top of block p.
Child(p, signals) ==
    LET b == tree[p]
    IN  IF b.offset + 1 = EvaluationInterval
        THEN [parent |-> p, height |-> b.height + 1, offset |-> 0,
              counts |-> Counts([i \in Bits |-> 0], signals),
              states |-> [f \in Features |->
                  CalculateNewState(f, b.height + 1, b.counts[Criteria[f].bit], b.states[f])]]
        ELSE [parent |-> p, height |-> b.height + 1, offset |-> b.offset + 1,
              counts |-> Counts(b.counts, signals), states |-> b.states]

AddBlock(p, signals) ==
    /\ tree' = Append(tree, Child(p, signals))
    /\ \A f \in Features : IsSignaling(Child(p, signals), f)

TreeInit == tree = <<Genesis>>
TreeNext == \E p \in 1 .. Len(tree), signals \in SUBSET Bits : AddBlock(p, signals)
TreeSpec == TreeInit /\ [][TreeNext]_tree

-----------------------------------------------------------------------------
(* Properties *)

\* The activation process of a feature is over at its timeout, on every chain: from there
\* on, the feature is locked in, active or failed, and it fails only if it is not to be
\* locked in on timeout.
TimeoutDecides ==
    \A i \in 1 .. Len(tree), f \in Features :
        tree[i].height >= Criteria[f].timeout =>
            tree[i].states[f] \in {"LOCKED_IN", "ACTIVE"}
                \cup (IF f \in LockInOnTimeout THEN {} ELSE {"FAILED"})

\* No feature is locked in without the support of the miners: in the interval before, as
\* many blocks as the threshold asks for have signaled, also when it was locked in on
\* timeout.
LockInIsEarned ==
    \A i \in 2 .. Len(tree), f \in Features :
        /\ tree[i].states[f] = "LOCKED_IN"
        /\ tree[tree[i].parent].states[f] # "LOCKED_IN"
        => tree[tree[i].parent].counts[Criteria[f].bit] >= Criteria[f].threshold

\* Mandatory signaling never stops a chain: a block that signals every bit is accepted on
\* top of any accepted block.
ChainsCanGrow ==
    \A p \in 1 .. Len(tree), f \in Features : IsSignaling(Child(p, Bits), f)

==============================================================================
