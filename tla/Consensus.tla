----------------------------- MODULE Consensus -----------------------------
(***************************************************************************)
(* The consensus of one node: vertices arrive in any order compatible with *)
(* their dependencies, each is saved, indexed and given to                 *)
(* ConsensusAlgorithm.unsafe_update, which decides what is executed and    *)
(* what is voided.                                                         *)
(***************************************************************************)
EXTENDS NcExecution

VARIABLE ledger   \* the ledger record of module Ledger

vars == ledger

-----------------------------------------------------------------------------
(***************************************************************************)
(* A new transaction.                                                      *)
(***************************************************************************)
\* The stored transactions that spend an output that tx spends.
SpentBy(S, tx) == {u \in S.stored \ {tx} : ~IsBlock(u) /\ Inputs(u) \cap Inputs(tx) # {}}


MarkInputsAsUsed(S, tx) ==
    LET rivals == SpentBy(S, tx)
        spent == InputTxs(tx)
    IN  [S EXCEPT !.voided[tx] = IF rivals = {} THEN @ ELSE {tx},
                  !.conflict = [v \in Vertices |->
                      IF v = tx THEN Iterate(S, rivals)
                      ELSE IF v \in rivals THEN Append(@[v], tx) ELSE @[v]],
                  !.affected = @ \cup {tx} \cup rivals \cup spent]

InheritedFromParents(S, tx) ==
    UNION {FilterFromParent(S, p, S.voided[p]) : p \in Parents(tx)}

InheritedFromInputs(S, tx) ==
    UNION {S.voided[u] : u \in InputTxs(tx)} \ {SoftVoidedId, NcFailId}

AddWorkTo(S, hashes, work) ==
    [S EXCEPT !.acc = [v \in Vertices |-> IF v \in hashes THEN @[v] + work ELSE @[v]],
              !.affected = @ \cup hashes]

VoidedWithFirstBlockIsValid(S, tx) ==
    \/ SoftVoidedTxIds \cap S.voided[tx] # {}
    \/ NcFailId \in S.voided[tx]
    \/ \E h \in S.voided[tx] \ Marks : NcFailId \in S.voided[h]

\* A conflict that is voided must also be voided by itself.
VoidVoidedConflict(S, c) ==
    IF Failed(S) \/ Executed(S, c) THEN S
    ELSE IF S.first[c] # None
    THEN Require(S, VoidedWithFirstBlockIsValid(S, c), "voided transaction is confirmed")
    ELSE TxMarkAsVoided(S, c)

\* Mutant: a soft voided transaction is not voided.
OwnVoidedByConflict(S, tx) == IF S.conflict[tx] # <<>> THEN {tx} ELSE {}

\* The entries of voided_by that tx adds for itself.
OwnVoidedBy(S, tx) ==
    (IF tx \in SoftVoidedTxIds THEN {SoftVoidedId, tx} ELSE {})
        \cup (IF S.conflict[tx] # <<>> THEN {tx} ELSE {})

SaveVoidedBy(S, tx, voidedBy) ==
    IF voidedBy = {} THEN S
    ELSE DelFromIndexes(Save(SetVoided(S, tx, voidedBy), tx), tx, FALSE)

AssertNothingSoftInherited(S, fromParents) ==
    Require(S, fromParents \cap (SoftVoidedTxIds \cup Marks) = {},
            "inherited a soft voided entry from a parent")

AssertParentsFailedByThemselves(S, v) ==
    FoldLeft(AssertFailedByItself, S, OldestFirst(TxParents(v)))

VoidVoidedConflicts(S, tx) == FoldLeft(VoidVoidedConflict, S, S.conflict[tx])

UpdateVoidedInfoFrom(S, tx, fromParents, inherited) ==
    AssertValidConsensus(
        CheckConflicts(
            VoidVoidedConflicts(
                CheckAll(
                    SaveVoidedBy(AddWorkTo(AssertNothingSoftInherited(S, fromParents),
                                           inherited, S.work[tx]),
                                 tx, inherited \cup OwnVoidedBy(S, tx)),
                    Iterate(S, inherited)),
                tx),
            tx),
        tx)

UpdateVoidedInfo(S, tx) ==
    UpdateVoidedInfoFrom(AssertParentsFailedByThemselves(S, tx), tx, InheritedFromParents(S, tx),
                         InheritedFromParents(S, tx) \cup InheritedFromInputs(S, tx))

UpdateTx(S, tx) == UpdateVoidedInfo(MarkInputsAsUsed(S, tx), tx)

-----------------------------------------------------------------------------
(***************************************************************************)
(* A new block.                                                            *)
(***************************************************************************)
\* Case (i): b extends the head of the single best chain.
IndexNewHead(S, b) ==
    IF Failed(S) \/ ~Executed(S, b) THEN S ELSE SetTipsCache(HeightAddNew(S, b), <<b>>)

ExtendBestChain(S, b) == IndexNewHead(MarkAsBestChainIfPossible(S, b), b)

\* Mutant: the new head of a tie is left out of the cache.
CacheOldHeads(S, b, heads, common) == IF Failed(S) THEN S ELSE SetTipsCache(S, heads)

\* b is as good as the best heads, which are all voided.
CacheTie(S, b, heads, common) ==
    IF Failed(S) THEN S
    ELSE SetTipsCache(IF Executed(S, b) THEN MarkAsReorgIfNeeded(S, common) ELSE S, Append(heads, b))

Tie(S, b, heads, common) ==
    CacheTie(AddVoidedByToMultipleChains(S, heads, common), b, heads, common)

\* b is better than the best heads, which are voided.
IndexNewChain(S, b) ==
    SetTipsCache(HeightUpdateNewChain(
        Require(S, HeightTip(S) # b, "new head is already in the height index"), b), <<b>>)

IndexWinner(S, b, heads, common) ==
    IF Failed(S) \/ ~Executed(S, b) THEN S
    ELSE IndexNewChain(IF common \in Range(heads) THEN S ELSE MarkAsReorgIfNeeded(S, common), b)

NewWinner(S, b, heads, common) ==
    IndexWinner(MarkAsBestChainIfPossible(AddVoidedByToMultipleChains(S, heads, common), b),
                b, heads, common)

\* Mutant: the chain that arrived first wins a tie.
CompareScoreStrictly(S, b, heads, bestScore) ==
    IF Failed(S) THEN S
    ELSE IF S.score[b] <= bestScore THEN UpdateVoidedByFromParents(S, b)
    ELSE NewWinner(S, b, heads, FirstParentInBestChain(S, b))

\* The score of b is saved: compare it with the score of the best heads.
CompareScore(S, b, heads, bestScore) ==
    IF Failed(S) THEN S
    ELSE IF S.score[b] < bestScore THEN UpdateVoidedByFromParents(S, b)
    ELSE IF Cardinality({h \in Range(heads) : Executed(S, h)}) > 1
    THEN Require(S, FALSE, "more than one valid head")
    ELSE IF S.score[b] = bestScore THEN Tie(S, b, heads, FirstParentInBestChain(S, b))
    ELSE NewWinner(S, b, heads, FirstParentInBestChain(S, b))

\* The cache of the best block tips is loaded.
CompareWithHeads(S, b) ==
    IF Failed(S) THEN S
    ELSE IF S.cache = <<>> \/ \E h \in Range(S.cache) : S.score[h] # S.score[S.cache[1]]
    THEN Require(S, FALSE, "best heads have different scores")
    ELSE CompareScore(CalculateScore(S, b, FALSE), b, S.cache, S.score[S.cache[1]])

\* All the other cases: b is voided, scored, and compared with the best heads.
CompareWithBestChains(S, b) == CompareWithHeads(LoadTipsCache(BlockAddVoidedBy(S, b, b)), b)

IsConnectedToTheHead(S, b) == Children(S.stored, BlockParent(b)) = {b}

Connect(S, b) ==
    IF Failed(S) THEN S
    ELSE IF IsConnectedToTheHead(S, b) /\ Executed(S, BlockParent(b))
    THEN ExtendBestChain(S, b)
    ELSE CompareWithBestChains(S, b)

\* Resolve the conflicts of the transactions that void b, which has made them heavier.
CheckInherited(S, b, inherited) ==
    CheckAll(AddWorkTo(S, inherited, S.work[b]), Iterate(S, inherited))

UpdateBlockVoidedInfo(S, b) ==
    Connect(CheckInherited(AssertParentsFailedByThemselves(S, b), b,
                           UnionVoidedByFromParents(S, b)), b)

UpdateBlock(S, b) == ExecuteNanoContracts(UpdateBlockVoidedInfo(S, b), b)

-----------------------------------------------------------------------------
(***************************************************************************)
(* After a reorg, the mempool transactions that became invalid are removed *)
(* with everything that follows them.  Of the four rules, only the reward  *)
(* lock depends on the chain in this model: contracts are created by       *)
(* settled transactions and nano contracts are always enabled.             *)
(***************************************************************************)
MinimumBestHeight(S) == Min({Height[b] : b \in Range(BestBlockTips(S))})

SpendsLockedReward(S, tx) ==
    \E b \in InputTxs(tx) \cap Blocks :
        MinimumBestHeight(S) - Height[b] < RewardSpendMinBlocks

RewardIsLocked(S, tx, bestHeight) ==
    SpendsLockedReward(S, tx) \/ bestHeight + 1 < MinHeight[tx]

\* The closest confirmed transactions behind the mempool.
Unconfirmed(S, v) == ~IsBlock(v) /\ S.first[v] = None
BehindAll(vertices) == UNION {Dependencies(v) : v \in vertices}
NotExpanded(S, pending) == {v \in BehindAll(S.mempool \cup pending) : ~IsBlock(v)} \ pending
MempoolOrigin(S) ==
    NotExpanded(S, WalkLeft(BehindAll(S.mempool), {v \in S.stored : Unconfirmed(S, v)}))

\* The first invalid transactions on the paths from the origin.
BecameInvalid(S, v) == Unconfirmed(S, v) /\ RewardIsLocked(S, v, Height[HeightTip(S)])
LeftmostInvalid(S, origin) ==
    LET reached == WalkRight(origin, origin \cup {v \in S.stored : ~BecameInvalid(S, v)})
    IN  {v \in UNION {RightNeighbors(S.stored, u) : u \in reached} : BecameInvalid(S, v)}

VerticesThatBecameInvalid(S) ==
    S.stored \cap UNION {AheadOf[v] : v \in LeftmostInvalid(S, MempoolOrigin(S))}

\* The record of a removed vertex is the one of a vertex that never arrived.
Forget(S, v) ==
    [S EXCEPT !.stored = @ \ {v},
              !.mempool = @ \ {v},
              !.voided[v] = {},
              !.conflict[v] = <<>>,
              !.work[v] = 0,
              !.acc[v] = 0,
              !.score[v] = 0,
              !.first[v] = None,
              !.nc[v] = "none",
              !.ncCalls[v] = FALSE,
              !.root[v] = NoRoot]

AssertNoGap(S, txs) ==
    Require(S, \A v \in txs : RightNeighbors(S.stored, v) \subseteq txs,
            "removal leaves a gap in the DAG")

RemoveTransactions(S, txs) ==
    FoldLeft(LAMBDA s, v : Forget(DelFromIndexes(s, v, TRUE), v),
             [AssertNoGap(S, txs) EXCEPT !.voided = [v \in Vertices |->
                 IF v \in txs THEN @[v] \cup {PartiallyValidatedId} ELSE @[v]]],
             NewestFirst(txs))

-----------------------------------------------------------------------------
(***************************************************************************)
(* ConsensusAlgorithm.unsafe_update, and the steps of the vertex handler   *)
(* around it.                                                              *)
(***************************************************************************)
\* _sorted_affected_txs: voided first, then newest first.
SortedAffected(S) ==
    NewestFirst({v \in S.affected : ~Executed(S, v)})
        \o NewestFirst({v \in S.affected : Executed(S, v)})

MempoolUpdateAffected(S) ==
    FoldLeft(LAMBDA s, v : MempoolUpdate(s, v, v \notin s.stored), S, SortedAffected(S))

\* Mutant: the mempool is not verified again after a reorganisation.
KeepInvalid(S) == S

RemoveInvalid(S) ==
    IF S.reorg = NoReorg \/ S.mempool = {} THEN S
    ELSE LoadTipsCache(RemoveTransactions(S, VerticesThatBecameInvalid(S)))

AssertReorgHasNewBest(S, oldBest) ==
    Require(S, S.reorg = NoReorg \/
               (oldBest # HeightTip(S) /\ Height[S.reorg.common] < Height[oldBest]),
            "reorg without a new best block")

FinishUpdate(S, oldBest) ==
    IF Failed(S) THEN S
    ELSE MempoolUpdateAffected(
             AssertReorgHasNewBest(RemoveInvalid(MempoolUpdateAffected(S)), oldBest))

UnsafeUpdate(S, v) ==
    FinishUpdate(IF IsBlock(v) THEN UpdateBlock(S, v) ELSE UpdateTx(S, v), HeightTip(S))

\* The ledger in which v is saved and indexed, ready for the consensus update.
Saved(S, v, work, asc) ==
    AddToIndexes([S EXCEPT !.stored = @ \cup {v},
                           !.work[v] = work,
                           !.acc[v] = work,
                           !.affected = {},
                           !.reorg = NoReorg,
                           !.asc = asc], v)


\* VertexHandler: save, run the consensus, update the indexes.  The context of
\* the update lives only while it runs.
PostConsensus(S, v) ==
    IF Failed(S) THEN S
    ELSE [MempoolUpdate(S, v, v \notin S.stored) EXCEPT
             !.affected = {}, !.reorg = NoReorg, !.asc = TRUE]

OnNewVertex(S, v, work, asc) == PostConsensus(UnsafeUpdate(Saved(S, v, work, asc), v), v)

(***************************************************************************)
(* The verification of a new vertex: its dependencies are stored, and a    *)
(* transaction spends no locked reward.                                    *)
(***************************************************************************)
IsValidNow(S, v) ==
    /\ v \notin S.stored
    /\ Dependencies(v) \subseteq S.stored
    /\ IsBlock(v) \/ ~RewardIsLocked(S, v, MinimumBestHeight(S))

Init == ledger = GenesisLedger

NewTx(v, work, asc) ==
    /\ ~Failed(ledger) /\ ~IsBlock(v) /\ IsValidNow(ledger, v)
    /\ ledger' = OnNewVertex(LoadTipsCache(ledger), v, work, asc)

NewBlock(v, work, asc) ==
    /\ ~Failed(ledger) /\ IsBlock(v) /\ IsValidNow(ledger, v)
    /\ ledger' = OnNewVertex(ledger, v, work, asc)

Next ==
    \E v \in Vertices : \E work \in Universe[v].works, asc \in BOOLEAN :
        NewTx(v, work, asc) \/ NewBlock(v, work, asc)

Spec == Init /\ [][Next]_vars

-----------------------------------------------------------------------------
(***************************************************************************)
(* Properties.  They are about the ledger between two updates, which is    *)
(* all that the rest of the node ever sees.                                *)
(***************************************************************************)
Stored == ledger.stored
StoredTxs == Stored \ Blocks
StoredBlocks == Stored \cap Blocks
IsExecuted(v) == ledger.voided[v] = {}
BestChain == {b \in StoredBlocks : IsExecuted(b)}

\* No assertion of the consensus algorithms fails and no lookup raises, whatever the
\* order in which the vertices arrive.  (A failure makes the vertex handler crash the
\* node.)
NoFailure == ~Failed(ledger)

\* When the block that is to become the best head turns out to be voided by a transaction
\* it verifies, the algorithm falls back to another head, as the assertion
\* "best_heads[0].hash != block.hash" of
\* update_score_and_mark_as_the_best_chain_if_possible says.
FallbackFindsAnotherHead == "voided block is the best head" \notin ledger.failed

\* After a block is executed each of its calls has succeeded and is executed, has failed
\* and is voided by itself and the failure mark, or was skipped and carries no failure
\* mark, as the assertions at the end of _nc_execute_calls say.
CallsAreClassified == "call in an unexpected state" \notin ledger.failed

\* No output is spent by two executed transactions: every conflict is resolved, also
\* between transactions confirmed by competing chains.
NoDoubleSpend ==
    \A u, v \in StoredTxs :
        u # v /\ Inputs(u) \cap Inputs(v) # {} => ~(IsExecuted(u) /\ IsExecuted(v))


\* The hashes in voided_by are exactly those that a vertex inherits from its parents and
\* inputs, besides its own: nothing stays voided by a cause that is gone and nothing
\* escapes the voidance of what it depends on.
InheritedVoidance(v) ==
    IF IsBlock(v) THEN UnionVoidedByFromParents(ledger, v)
    ELSE InheritedFromParents(ledger, v) \cup InheritedFromInputs(ledger, v)

VoidanceIsInherited ==
    ~Failed(ledger) =>
        \A v \in Stored \ GenesisVertices :
            ledger.voided[v] \ (Marks \cup {v}) = InheritedVoidance(v)

\* The voidance of a soft voided transaction follows the funds: it reaches what spends the
\* transaction, directly or not, and nothing that only verifies it.
SoftVoidanceFollowsFunds ==
    \A t \in SoftVoidedTxIds \cap Stored :
        {v \in Stored : t \in ledger.voided[v]} = FundsAheadOf[t] \cap Stored

\* A transaction that only a conflict voids has a rival, voided by nothing else either,
\* with at least as much work ahead: counting all the vertices that have arrived, no
\* loser outweighs all its rivals.
WorkAhead(v) == SumWork(ledger, AheadOf[v] \cap Stored)
LosersAreOutweighed ==
    \A v \in StoredTxs :
        ledger.voided[v] = {v} =>
            \E u \in Range(ledger.conflict[v]) :
                ledger.voided[u] \subseteq {u} /\ WorkAhead(u) >= WorkAhead(v)

\* The executed blocks are the common part of the chains with the highest score among
\* those that no transaction voids: the whole chain when it is alone, the part below the
\* fork when several are tied.
ValidBlocks == {b \in StoredBlocks : ledger.voided[b] \subseteq {b}}
BestBlocks == {b \in ValidBlocks : \A c \in ValidBlocks : ledger.score[c] <= ledger.score[b]}
BestScoreWins == BestChain = {b \in StoredBlocks : \A h \in BestBlocks : b \in Chain[h]}

\* The score of a block is the work of everything behind it, however its chain was walked.
ScoreIsWork == \A b \in StoredBlocks : ledger.score[b] = SumWork(ledger, Behind[b])

\* A transaction is confirmed by the first block of the best chain that has it behind,
\* and by none when there is no such block.
ConfirmedByBestChain ==
    \A v \in StoredTxs :
        LET above == {b \in BestChain : v \in Behind[b]}
        IN  ledger.first[v] = IF above = {} THEN None ELSE Min(above)

\* The height index is a chain of blocks that holds every executed block, and its tip, which
\* get_best_block returns, is a block with the highest score.
HeightIndexIsBestChain ==
    /\ \A h \in 2 .. Len(ledger.height) : BlockParent(ledger.height[h]) = ledger.height[h - 1]
    /\ BestChain \subseteq Range(ledger.height)
    /\ HeightTip(ledger) \in BestBlocks

\* The tips index of the transactions (add_to_indexes, del_from_indexes) holds exactly the
\* executed ones, however often a conflict changes its winner.
IndexHoldsExecuted == \A v \in StoredTxs : IsIndexed(ledger, v) = IsExecuted(v)

\* get_best_block_tips finds the heads of all chains: the tips index of the blocks holds
\* every block that no transaction voids, on the best chain or not, and the cached tips are
\* those that would be computed from it.
HeadsAreFound ==
    /\ \A b \in ValidBlocks : IsIndexed(ledger, b)
    /\ ledger.cache # NoCache => Range(ledger.cache) = Range(BestTips(ledger))


\* The state of the contracts after a block of the best chain is that of its parent
\* followed by the calls of the block that succeeded; each of its calls is settled, and a
\* call counts in the indexes of the contracts exactly while its execution stands.
CallsOf(b) == {v \in StoredTxs : IsNano(v) /\ ledger.first[v] = b}
ExecutionMatchesState ==
    /\ \A b \in BestChain \ {GenesisBlock} :
           /\ ledger.root[b] # NoRoot
           /\ Range(ledger.root[b]) = Range(ledger.root[BlockParent(b)])
                                         \cup {v \in CallsOf(b) : ledger.nc[v] = "success"}
           /\ \A v \in CallsOf(b) : CallIsSettled(ledger, v)
    /\ \A v \in StoredTxs :
           /\ ledger.ncIndex[v] = IF ledger.nc[v] = "success" THEN 1 ELSE 0
           /\ ledger.nc[v] = "success" => ledger.first[v] # None /\ IsExecuted(v)

\* Every executed transaction of the mempool may be confirmed by the next block: those
\* whose rewards a reorganisation locks again are removed with all that follows them.
MempoolIsMinable ==
    \A v \in StoredTxs :
        IsExecuted(v) /\ ledger.first[v] = None => MinHeight[v] <= Height[HeightTip(ledger)] + 1

\* A call that succeeded keeps its result as long as the block that confirmed it stays in
\* the best chain.
ExecutionIsStable ==
    [][\A v \in StoredTxs :
          ledger.nc[v] = "success" /\ ledger'.voided[ledger.first[v]] = {}
              => ledger'.nc[v] = "success" /\ ledger'.first[v] = ledger.first[v]]_vars

=============================================================================
