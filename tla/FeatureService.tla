---------------------------- MODULE FeatureService ----------------------------
(***************************************************************************)
(* The feature service of one node (hathor/feature_activation): states are *)
(* computed on demand, found through the height index or along the parents *)
(* of a block, and cached in the metadata of boundary blocks.  A node that *)
(* is upgraded knows more features than before; forks are resolved while   *)
(* states are cached on both sides.  The bit signaling service keeps the   *)
(* features that the operator supports or not.                             *)
(***************************************************************************)
EXTENDS FeatureTree, FiniteSets, FiniteSetsExt, TLC

CONSTANTS
    AlwaysAsked,    \* the features that is_feature_active is called for, in the settings or not
    InitialFeatures,\* the features of the first settings
    SupportArgs,    \* --signal-support
    NotSupportArgs, \* --signal-not-support
    Operated,       \* bound: the features whose support is changed while the node runs
    Signals,        \* bound: the sets of bits that a block may signal, for each height
    MaxHeight,      \* bound: height of a block
    ForkHeights,    \* bound: heights of the blocks with more than one child
    MaxSideBlocks   \* bound: blocks outside the longest chain

None == "None"

VARIABLES
    best,       \* the tip of the height index
    valid,      \* the last block that is not voided; the best block unless heads are tied
    known,      \* the features in the settings, which are also those in the database
    cached,     \* the states of each feature in the metadata of the blocks
    saved,      \* those that were written to the storage
    support,    \* _support_features
    notSupport  \* _not_support_features

vars == <<tree, best, valid, known, cached, saved, support, notSupport>>

-----------------------------------------------------------------------------
(***************************************************************************)
(* get_state, for the blocks t, the caches c and the settings k.  t may    *)
(* have one more block than c: the one that is being verified.             *)
(***************************************************************************)
AtHeight(t, b, height) ==
    LET up[i \in 1 .. Len(t)] == IF t[i].height = height THEN i ELSE up[t[i].parent] IN up[b]
InChain(t, i, b) == t[i].height <= t[b].height /\ AtHeight(t, b, t[i].height) = i

\* Mutant: the height index is used for voided blocks as well.
AncestorInIndex(t, b, height) ==
    AtHeight(t, IF t[best].height >= height THEN best ELSE t[b].parent, height)

GetAncestorAtHeight(t, b, height) ==
    IF t[t[b].parent].height = height THEN t[b].parent
    ELSE AtHeight(t, IF InChain(t, t[b].parent, valid) THEN best ELSE t[b].parent, height)

OffsetToBoundary(t, b) == t[b].height % EvaluationInterval

PreviousBoundary(t, b) ==
    LET offset == OffsetToBoundary(t, b)
    IN  GetAncestorAtHeight(t, b, t[b].height - (IF offset = 0 THEN EvaluationInterval ELSE offset))

IsCached(c, f, b) == b <= Len(c[f]) /\ c[f][b] # None

NewState(t, k, f, b, previous) ==
    IF f \notin k THEN "DEFINED"
    ELSE CalculateNewState(f, t[b].height, t[t[b].parent].counts[Criteria[f].bit], previous)

GetState(t, c, k, f, b) ==
    LET state[i \in 1 .. Len(t)] ==
            IF i = 1 THEN "DEFINED"
            ELSE IF IsCached(c, f, i) THEN c[f][i]
            ELSE IF OffsetToBoundary(t, i) # 0 THEN state[PreviousBoundary(t, i)]
            ELSE NewState(t, k, f, i, state[PreviousBoundary(t, i)])
    IN  state[b]

\* The boundary blocks whose state is set on the way, b among them if it is one.
Visited(t, c, f, b) ==
    LET visited[i \in 1 .. Len(t)] ==
            IF i = 1 \/ IsCached(c, f, i) THEN {}
            ELSE LET previous == PreviousBoundary(t, i)
                 IN  {previous} \cup visited[previous]
                         \cup (IF OffsetToBoundary(t, i) = 0 THEN {i} ELSE {})
    IN  visited[b]

\* The caches to after the state of each feature f was asked for at block at[f] (the genesis
\* block when it was not asked for).
SetStates(to, t, c, k, at) ==
    [f \in Features |->
        LET visited == Visited(t, c, f, at[f])
        IN  [i \in DOMAIN to[f] |-> IF i \in visited THEN GetState(t, c, k, f, i) ELSE to[f][i]]]

\* A boundary block is saved, with all its states, when a later block is asked about; a new
\* block is saved after its verification.
SaveStates(to, from, t, c, at) ==
    LET blocks == {Len(c[f]) + 1 : f \in Features}
                      \cup UNION {Visited(t, c, f, at[f]) \ {at[f]} : f \in Features}
    IN  [f \in Features |-> [i \in DOMAIN to[f] |-> IF i \in blocks THEN from[f][i] ELSE to[f][i]]]

AskKnown(k, b) == [f \in Features |-> IF f \in k THEN b ELSE 1]

\* The features that are found to enter their mandatory interval.
FoundMustSignal(t, c, k, at) ==
    {f \in Features : \E i \in Visited(t, c, f, at[f]) :
        i # 1 /\ ~IsCached(c, f, i) /\ GetState(t, c, k, f, i) = "MUST_SIGNAL"}

OnMustSignal(fs) == support' = support \cup fs /\ notSupport' = notSupport \ fs

\* get_feature_infos for a stored block, from an API or for a block template.
Asked(c, k, b) ==
    LET at == AskKnown(k, b)
    IN  /\ cached' = SetStates(c, tree, c, k, at)
        /\ saved' = SaveStates(saved, cached', tree, c, at)

-----------------------------------------------------------------------------
(* Blocks *)

\* Mutant: the counts of the previous interval are kept.
NewBlockCountingOn(p, signals) ==
    [parent |-> p, height |-> tree[p].height + 1,
     offset |-> (tree[p].height + 1) % EvaluationInterval,
     counts |-> Counts(tree[p].counts, signals), states |-> Genesis.states]

\* The static metadata of a block that signals the given bits on top of block p.
NewBlock(p, signals) ==
    LET height == tree[p].height + 1
        boundary == height % EvaluationInterval = 0
    IN  [parent |-> p, height |-> height, offset |-> height % EvaluationInterval,
         counts |-> Counts(IF boundary THEN [i \in Bits |-> 0] ELSE tree[p].counts, signals),
         states |-> Genesis.states]

\* on_new_block asks for some features at the parent, verify_mandatory_signaling for those
\* in the settings at the block.
AskedFor(p) ==
    [f \in Features |-> IF f \in known THEN Len(tree) + 1
                        ELSE IF f \in AlwaysAsked THEN p ELSE 1]

VerifiedBlock(p, signals) ==
    LET t == Append(tree, NewBlock(p, signals))
    IN  [NewBlock(p, signals) EXCEPT !.states =
            [f \in Features |-> GetState(t, cached, known, f, Len(t))]]

IsSignalingMandatoryFeatures(b) == \A f \in known : IsSignaling(b, f)

VerifyBlock(p, signals, caches, savedCaches) ==
    LET t == Append(tree, NewBlock(p, signals))
        at == AskedFor(p)
    IN  /\ cached' = SetStates(caches, t, cached, known, at)
        /\ saved' = SaveStates(savedCaches, cached', t, cached, at)
        /\ OnMustSignal(FoundMustSignal(t, cached, known, at))

RejectBlock(p, signals) ==
    /\ ~IsSignalingMandatoryFeatures(VerifiedBlock(p, signals))
    /\ VerifyBlock(p, signals, cached, saved)
    /\ UNCHANGED <<tree, best, valid, known>>

(***************************************************************************)
(* The consensus (external here).  The new block may win; unless it        *)
(* extends the best block, it may also lose, or tie, which voids what      *)
(* follows the last common block and leaves the height index alone.        *)
(***************************************************************************)
LastCommon(t, b) ==
    LET common == {i \in 1 .. Len(t) : InChain(t, i, b) /\ InChain(t, i, valid)}
    IN  CHOOSE i \in common : \A j \in common : t[j].height <= t[i].height

Consensus(t, b) ==
    \/ best' = b /\ valid' = b
    \/ t[b].parent # best /\ UNCHANGED <<best, valid>>
    \/ t[b].parent # best /\ valid' = LastCommon(t, b) /\ UNCHANGED best

Unknown(c) == [f \in Features |-> Append(c[f], None)]

AcceptBlock(p, signals) ==
    /\ IsSignalingMandatoryFeatures(VerifiedBlock(p, signals))
    /\ VerifyBlock(p, signals, Unknown(cached), Unknown(saved))
    /\ tree' = Append(tree, VerifiedBlock(p, signals))
    /\ Consensus(tree', Len(tree'))
    /\ UNCHANGED known

-----------------------------------------------------------------------------
(* The node *)

Init ==
    /\ TreeInit
    /\ best = 1 /\ valid = 1
    /\ known = InitialFeatures
    /\ cached = [f \in Features |-> <<None>>] /\ saved = [f \in Features |-> <<None>>]
    /\ support = SupportArgs /\ notSupport = NotSupportArgs

\* A feature resource or a block template asks for the states at a block.
AskFeatures(b) ==
    /\ Asked(cached, known, b)
    /\ OnMustSignal(FoundMustSignal(tree, cached, known, AskKnown(known, b)))
    /\ UNCHANGED <<tree, best, valid, known>>

AddFeatureSupport(f) ==
    /\ support' = support \cup {f} /\ notSupport' = notSupport \ {f}
    /\ UNCHANGED <<tree, best, valid, known, cached, saved>>

RemoveFeatureSupport(f) ==
    /\ support' = support \ {f} /\ notSupport' = notSupport \cup {f}
    /\ UNCHANGED <<tree, best, valid, known, cached, saved>>

(***************************************************************************)
(* A restart, orderly or not, possibly with settings that have more        *)
(* features; settings that lack a feature of the database are refused.     *)
(* The start asks for the states at the best block.                        *)
(***************************************************************************)
Restart(new) ==
    LET found == FoundMustSignal(tree, saved, known \cup new, AskKnown(known \cup new, best))
    IN  /\ known' = known \cup new
        /\ Asked(saved, known', best)
        /\ support' = SupportArgs \cup found /\ notSupport' = NotSupportArgs \ found
        /\ UNCHANGED <<tree, best, valid>>

\* The environment: the operator upgrades in time, before a block that is as high as the
\* start of a new feature.
InTime(height) == \A f \in Features \ known : height < Criteria[f].start

MayFork(p) == tree[p].height \in ForkHeights \/ \A i \in 1 .. Len(tree) : tree[i].parent # p
SideBlocks == Len(tree) - 1 - Max({tree[i].height : i \in 1 .. Len(tree)})

Next ==
    \/ \E p \in 1 .. Len(tree) :
           /\ tree[p].height < MaxHeight /\ InTime(tree[p].height + 1)
           /\ \E signals \in Signals[tree[p].height + 1] :
                  \/ RejectBlock(p, signals)
                  \/ AcceptBlock(p, signals) /\ MayFork(p) /\ SideBlocks' <= MaxSideBlocks
    \/ \E b \in 1 .. Len(tree) : AskFeatures(b)
    \/ \E f \in Operated : AddFeatureSupport(f) \/ RemoveFeatureSupport(f)
    \/ \E new \in SUBSET (Features \ known) : Restart(new)

Spec == Init /\ [][Next]_vars

-----------------------------------------------------------------------------
(* The bit signaling service *)

GetSignalingFeatures(b) ==
    {f \in known : GetState(tree, cached, known, f, b) \in {"STARTED", "MUST_SIGNAL", "LOCKED_IN"}}

-----------------------------------------------------------------------------
(* Properties *)

\* The node accepts blocks and computes states as the network agrees on them: each accepted
\* block has, for each feature, the state that follows from its parent's.
ImplementsTree == TreeSpec

\* Reorgs, ties, restarts and upgrades do not change the past: the state of a feature at a
\* block is always the one that was found when the block arrived.
StatesAreStable ==
    \A b \in 1 .. Len(tree), f \in known :
        GetState(tree, cached, known, f, b) = tree[b].states[f]

\* An assertion of the bit signaling service: there are never more features in their
\* signaling period than bits.
SignalingFeaturesFit ==
    \A b \in 1 .. Len(tree) : Cardinality(GetSignalingFeatures(b)) <= MaxSignalBits

==============================================================================
