--------------------------- MODULE BlockConsensus ---------------------------
(***************************************************************************)
(* The best chain: the scores of the blocks and the choice of the chain    *)
(* with the highest score (BlockConsensusAlgorithm).                       *)
(***************************************************************************)
EXTENDS Voidance

\* _find_first_parent_in_best_chain: the closest executed ancestor of b.
FirstParentInBestChain(S, b) ==
    Max({c \in Chain[BlockParent(b)] : Executed(S, c) \/ c = GenesisBlock})

(***************************************************************************)
(* The score of b is the work of b and of everything it verifies.  The     *)
(* blocks above the newest block of the best chain, of timestamp newest,   *)
(* are walked again; what is below has been counted in the score there.    *)
(* With mark, the transactions found become confirmed by the block that    *)
(* found them.                                                             *)
(***************************************************************************)
Settled(S, v, newest) == S.first[v] # None /\ Timestamp(S.first[v]) <= newest

SaveScore(S, b, score) ==
    IF S.score[b] = 0 THEN Save([S EXCEPT !.score[b] = score], b)
    ELSE Require(S, S.score[b] = score, "score of a block has changed")

\* The transactions txs become confirmed by b.
Confirm(S, b, txs) ==
    [Require(S, \A v \in txs : S.first[v] = None, "transaction is already confirmed") EXCEPT
        !.first = [v \in Vertices |-> IF v \in txs THEN b ELSE @[v]],
        !.affected = @ \cup txs]

\* Mutant: the transactions counted for a block are counted again for the next.
CountWorkAgain(r, b, mark, txs) ==
    [s    |-> SaveScore(IF mark THEN Confirm(r.s, b, txs) ELSE r.s, b,
                        r.s.score[BlockParent(b)] + r.s.work[b] + SumWork(r.s, txs)),
     used |-> r.used]

\* r holds the ledger and the transactions used by the blocks already scored.
CountWork(r, b, mark, txs) ==
    [s    |-> SaveScore(IF mark THEN Confirm(r.s, b, txs) ELSE r.s, b,
                        r.s.score[BlockParent(b)] + r.s.work[b] + SumWork(r.s, txs)),
     used |-> r.used \cup txs]

ScoreBlock(r, b, mark, newest) ==
    CountWork(r, b, mark,
              WalkLeft(TxParents(b), {v \in Txs \ r.used : ~Settled(r.s, v, newest)}))

\* _score_block_dfs, from the oldest block of the chain that is above newest.
ScoreChain(S, b, mark, newest) ==
    FoldLeft(LAMBDA r, c : ScoreBlock(r, c, mark, newest), [s |-> S, used |-> {}],
             OldestFirst({c \in Chain[b] : Timestamp(c) > newest})).s

\* The result is a ledger in which the score of b is saved.
CalculateScore(S, b, mark) ==
    ScoreChain(S, b, mark, Timestamp(FirstParentInBestChain(S, b)))

-----------------------------------------------------------------------------
\* The entries of voided_by that b inherits; hashes of blocks stay behind.
UnionVoidedByFromParents(S, b) ==
    UNION {FilterFromParent(S, p, IF IsBlock(p) THEN S.voided[p] \ {p} ELSE S.voided[p]) \ {NcFailId}
              : p \in Parents(b)}

AddInherited(S, b, inherited) ==
    IF inherited = {} THEN S
    ELSE DelFromIndexes(Save(SetVoided(S, b, S.voided[b] \cup inherited), b), b, TRUE)

UpdateVoidedByFromParents(S, b) == AddInherited(S, b, UnionVoidedByFromParents(S, b))

\* Mutants: the transactions stay confirmed; the block where the chains part is voided.
VoidChainKeepingMarkers(S, head, first) ==
    FoldLeft(LAMBDA s, c : IF c \in s.voided[c] THEN s ELSE BlockAddVoidedBy(s, c, c), S,
             NewestFirst({c \in Chain[head] : Timestamp(c) > Timestamp(first)}))
VoidChainAndCommon(S, head, first) ==
    FoldLeft(LAMBDA s, c : IF c \in s.voided[c] THEN s ELSE BlockMarkAsVoided(s, c), S,
             NewestFirst({c \in Chain[head] \ {GenesisBlock} : Timestamp(c) >= Timestamp(first)}))

\* Void the chain that ends in head, newest block first, down to the timestamp of first.
VoidChain(S, head, first) ==
    FoldLeft(LAMBDA s, c : IF c \in s.voided[c] THEN s ELSE BlockMarkAsVoided(s, c), S,
             NewestFirst({c \in Chain[head] : Timestamp(c) > Timestamp(first)}))

AddVoidedByToMultipleChains(S, heads, first) ==
    FoldLeft(LAMBDA s, head : VoidChain(s, head, first), S, heads)

\* Remove the hashes of the blocks themselves, from b down to a block that has none.
RECURSIVE RemoveVoidedByFromChain(_, _)
RemoveVoidedByFromChain(S, b) ==
    IF Failed(S) \/ b \notin S.voided[b] THEN S
    ELSE RemoveVoidedByFromChain(BlockRemoveVoidedBy(S, b, b), BlockParent(b))

\* The heads with the highest score among the best block tips, which are in the cache.
BestHeads(S) ==
    SelectSeq(S.cache, LAMBDA h : \A g \in Range(S.cache) : S.score[g] <= S.score[h])

(***************************************************************************)
(* Make b the head of the best chain, unless a transaction voids it.  In   *)
(* that case its chain is voided again and the best of the other heads, if *)
(* there is only one, takes its place.                                     *)
(***************************************************************************)
RECURSIVE MarkAsBestChainIfPossible(_, _)

Promote(S, b, heads) ==
    IF Failed(S) \/ Len(heads) > 1 THEN S
    ELSE IF heads[1] = b THEN Require(S, FALSE, "voided block is the best head")
    ELSE MarkAsBestChainIfPossible(S, heads[1])

\* b is voided by a transaction; the heads are read from the loaded cache.
FallBack(S, b, heads) ==
    IF heads = <<>> \/ heads[1] = GenesisBlock THEN Require(S, FALSE, "no best head")
    ELSE Promote(VoidChain(S, b, FirstParentInBestChain(S, heads[1])), b, heads)

FallBackToBestHead(S, b) == FallBack(S, b, BestHeads(S))

KeepIfValid(S, b) ==
    IF Failed(S) \/ UnionVoidedByFromParents(S, b) = {} THEN S
    ELSE FallBackToBestHead(LoadTipsCache(UpdateVoidedByFromParents(S, b)), b)

MarkAsBestChainIfPossible(S, b) ==
    KeepIfValid(RemoveVoidedByFromChain(CalculateScore(S, b, TRUE), b), b)

MarkAsReorgIfNeeded(S, common) ==
    LET old == HeightTip(S)
    IN  IF Height[old] = Height[common]
        THEN Require(S, old = common, "reorg of size zero to another block")
        ELSE Require([S EXCEPT !.reorg = [common |-> common, old |-> old]],
                     S.reorg = NoReorg, "two reorgs in one update")

=============================================================================
