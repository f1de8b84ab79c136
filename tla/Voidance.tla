------------------------------ MODULE Voidance ------------------------------
(***************************************************************************)
(* How voidance spreads over the DAG: the conflict resolution of           *)
(* TransactionConsensusAlgorithm and the marking of blocks by              *)
(* BlockConsensusAlgorithm.  The two call each other: voiding a            *)
(* transaction voids the blocks that verify it, and voiding a block voids  *)
(* the transactions that spend its reward.  The operators keep the names   *)
(* of the methods; Tx or Block tells apart the two classes.                *)
(***************************************************************************)
EXTENDS Ledger

RECURSIVE TxAddVoidedBy(_, _, _, _)
RECURSIVE TxRemoveVoidedBy(_, _, _)
RECURSIVE CheckConflicts(_, _)

SumWork(S, set) == FoldSet(LAMBDA v, sum : S.work[v] + sum, 0, set)

-----------------------------------------------------------------------------
(***************************************************************************)
(* Entries of voided_by that a follower does not inherit: those caused by  *)
(* a failed nano execution and those of soft voided transactions.          *)
(***************************************************************************)
FilterOutNcFail(S, v, voidedBy) ==
    LET own == IF NcFailId \in voidedBy THEN {NcFailId, v} ELSE {}
    IN  (voidedBy \ own) \
            {h \in voidedBy \ (Marks \cup {v}) : NcFailId \in S.voided[h]}

FilterOutSoftVoided(S, v, voidedBy) ==
    IF SoftVoidedTxIds \cap voidedBy = {} THEN voidedBy
    ELSE {h \in voidedBy \ (Marks \cup {v} \cup SoftVoidedTxIds) :
             SoftVoidedTxIds \cap S.voided[h] = {}}

\* The failure mark is removed together with the hash of its transaction.
AssertFailedByItself(S, v) ==
    Require(S, NcFailId \in S.voided[v] => v \in S.voided[v], "failure mark without its hash")

FilterFromParent(S, v, voidedBy) ==
    FilterOutSoftVoided(S, v, FilterOutNcFail(S, v, voidedBy))

-----------------------------------------------------------------------------
(***************************************************************************)
(* Assertions about a vertex and its conflicts.                            *)
(***************************************************************************)
\* Every conflicting transaction is read from the storage, which raises when it is gone.
ConflictsExist(S, v) == Range(S.conflict[v]) \subseteq S.stored

AssertValidConsensus(S, v) ==
    Require(Require(S, ConflictsExist(S, v), "conflicting transaction does not exist"),
            ~(Executed(S, v) /\ \E c \in Range(S.conflict[v]) : Executed(S, c)),
            "two executed transactions in conflict")

\* has_only_nc_execution_fail_id, with its assertion.
OthersVoiding(S, v) == S.voided[v] \ {v, NcFailId}
HasOnlyNcFail(S, v) ==
    /\ ~Executed(S, v)
    /\ v \in S.voided[v] => NcFailId \in S.voided[v]
    /\ SoftVoidedId \notin S.voided[v]
    /\ \A h \in OthersVoiding(S, v) : NcFailId \in S.voided[h]
\* Whatever the order in which the entries are examined.
AssertNcFailAlone(S, v) ==
    Require(S, (v \in S.voided[v] => NcFailId \in S.voided[v]) =>
               \A h \in OthersVoiding(S, v) \ Marks :
                   NcFailId \in S.voided[h] => S.voided[h] = {h, NcFailId},
            "failed nano transaction voided by something else")

-----------------------------------------------------------------------------
(***************************************************************************)
(* The accumulated weight is the work of the vertex and of its             *)
(* descendants, summed oldest first until it exceeds stop.                 *)
(***************************************************************************)
\* Mutant: the weight of a candidate is not brought up to date before it is compared.
KeepAccumulatedWeight(S, v, stop) == S

UpdateAccumulatedWeightUntil(S, v, stop) ==
    IF S.acc[v] > stop THEN S
    ELSE [S EXCEPT !.acc[v] =
             FoldLeft(LAMBDA sum, u : IF sum > stop THEN sum ELSE sum + S.work[u],
                      S.work[v], OldestFirst(Descendants(S.stored, v)))]

UpdateAccumulatedWeight(S, v) ==
    [S EXCEPT !.acc[v] = S.work[v] + SumWork(S, Descendants(S.stored, v))]

-----------------------------------------------------------------------------
(***************************************************************************)
(* Conflict resolution.  tx, voided only by itself, is compared with the   *)
(* conflicting transactions that are executed or voided only by            *)
(* themselves.  It loses against a heavier one, voids them all otherwise,  *)
(* and wins unless it is as heavy as an executed one.                      *)
(***************************************************************************)
\* Compare tx with the executed candidates in turn, stopping at a heavier one.
Contest(S, tx, candidates) ==
    FoldLeft(LAMBDA r, c :
                IF ~r.highest THEN r
                ELSE LET s1 == UpdateAccumulatedWeightUntil(r.s, c, S.acc[tx])
                     IN  [s       |-> s1,
                          highest |-> s1.acc[c] <= S.acc[tx],
                          tie     |-> r.tie \/ s1.acc[c] = S.acc[tx]],
             [s |-> S, highest |-> TRUE, tie |-> FALSE], candidates)

CheckAll(S, txs) == FoldLeft(LAMBDA s, t : IF IsBlock(t) THEN s ELSE CheckConflicts(s, t), S, txs)

TxMarkAsVoided(S, tx) ==
    IF S.conflict[tx] = <<>> THEN Require(S, FALSE, "voided transaction has no conflict")
    ELSE IF tx \in S.voided[tx] THEN S
    ELSE AssertValidConsensus(TxAddVoidedBy(S, tx, tx, TRUE), tx)

TxMarkAsWinner(S, tx) ==
    IF S.conflict[tx] = <<>> \/ S.voided[tx] # {tx}
    THEN Require(S, FALSE, "winner is not in conflict")
    ELSE IF tx \in SoftVoidedTxIds THEN Require(S, FALSE, "winner is soft voided")
    ELSE AssertValidConsensus(TxRemoveVoidedBy(S, tx, tx), tx)

VoidConflicts(S, tx) ==
    FoldLeft(TxMarkAsVoided, S, NewestFirst(Range(S.conflict[tx])))

\* The end of check_conflicts, given the result of the contest.
WinUnlessTie(S, tx, tie) == IF tie \/ Failed(S) THEN S ELSE TxMarkAsWinner(S, tx)

\* Mutant: the winner does not void its rivals.
WinWithoutVoiding(r, tx) == IF r.highest THEN WinUnlessTie(r.s, tx, r.tie) ELSE r.s

ApplyContest(r, tx) ==
    IF r.highest THEN WinUnlessTie(VoidConflicts(r.s, tx), tx, r.tie) ELSE r.s

LosesToVoided(S, tx) ==
    \E c \in Range(S.conflict[tx]) : S.voided[c] = {c} /\ S.acc[c] > S.acc[tx]

CheckConflicts(S, tx) ==
    IF Failed(S) \/ S.voided[tx] # {tx} THEN S
    ELSE IF ~ConflictsExist(S, tx)
    THEN Require(S, FALSE, "conflicting transaction does not exist")
    ELSE IF LosesToVoided(S, tx) THEN S
    ELSE ApplyContest(Contest(S, tx, SelectSeq(S.conflict[tx], LAMBDA c : Executed(S, c))), tx)

-----------------------------------------------------------------------------
(***************************************************************************)
(* Blocks.                                                                 *)
(***************************************************************************)
\* iter_transactions_in_this_block: a right-to-left walk from the block.
TransactionsInThisBlock(S, b) == WalkLeft(TxParents(b), {v \in Vertices : S.first[v] = b})

\* Mutant: the first block is kept.
UnconfirmKeepingBlock(S, v) ==
    Save([S EXCEPT !.nc[v] = IF IsNano(v) THEN "pending" ELSE @, !.ncCalls[v] = FALSE], v)

\* A transaction loses its first block: back to the mempool, unexecuted.
Unconfirm(S, v) ==
    Save([S EXCEPT !.first[v] = None,
                   !.ncIndex[v] = IF S.nc[v] = "success" THEN @ - 1 ELSE @,
                   !.nc[v] = IF IsNano(v) THEN "pending" ELSE @,
                   !.ncCalls[v] = FALSE], v)

\* handle_contract_unexecution reads the calls of the last execution.
AssertCallsRecorded(S, v) ==
    Require(S, S.nc[v] = "success" => S.ncCalls[v], "executed nano transaction without calls")

RemoveFirstBlockMarkers(S, b) ==
    FoldLeft(LAMBDA s, v : Unconfirm(AssertCallsRecorded(s, v), v), S,
             NewestFirst(TransactionsInThisBlock(S, b)))

BlockAddVoidedBy(S, b, h) ==
    IF Failed(S) \/ h \in S.voided[b] THEN S
    ELSE FoldLeft(LAMBDA s, t : TxAddVoidedBy(s, t, h, TRUE),
                  Save(SetVoided(S, b, S.voided[b] \cup {h}), b),
                  Iterate(S, Spenders(S.stored, b)))

BlockMarkAsVoided(S, b) == BlockAddVoidedBy(RemoveFirstBlockMarkers(S, b), b, b)

BlockRemoveVoidedBy(S, b, h) ==
    FoldLeft(LAMBDA s, t : TxRemoveVoidedBy(s, t, h),
             Save(SetVoided(S, b, S.voided[b] \ {h}), b),
             Iterate(S, Spenders(S.stored, b)))

-----------------------------------------------------------------------------
(***************************************************************************)
(* Propagation.  A walk visits the followers of tx oldest first.  Its      *)
(* state is a record of the ledger s and of checks, the transactions whose *)
(* conflicts are examined when the walk ends.                              *)
(***************************************************************************)
VoidInConflict(S, v) ==
    IF S.conflict[v] = <<>> THEN S ELSE UpdateAccumulatedWeight(TxMarkAsVoided(S, v), v)

\* Mutant: a voided vertex is expected to be a tip when it leaves the indexes.
AddHashToTip(S, v, h) ==
    AssertValidConsensus(
        DelFromIndexes(Save(VoidInConflict(SetVoided(S, v, S.voided[v] \cup {h}), v), v), v, FALSE), v)

AddHash(S, v, h) ==
    AssertValidConsensus(
        DelFromIndexes(
            Save(VoidInConflict(
                     SetVoided(Require(S, h \notin S.voided[v], "hash is already in voided_by"),
                               v, S.voided[v] \cup {h}), v), v), v, TRUE), v)

AddVisitTo(S, checks, v, tx, h) ==
    [s      |-> AddHash(S, v, h),
     checks |-> IF v # tx /\ Executed(S, v) THEN checks \o S.conflict[v] ELSE checks]

AddVisit(walk, v, tx, h) ==
    IF Failed(walk.s) THEN walk
    ELSE AddVisitTo(IF IsBlock(v) THEN SetTipsCache(BlockMarkAsVoided(walk.s, v), NoCache)
                                  ELSE walk.s,
                    walk.checks, v, tx, h)

\* Mutant: voidance follows the funds only.
WalksFundsOnly(S, tx) == FALSE

\* Both DAGs are walked unless the transaction is soft voided or a failed call.
WalksVerifications(S, tx) == SoftVoidedTxIds \cap S.voided[tx] = {} /\ ~HasOnlyNcFail(S, tx)

EndWalk(walk) == CheckAll(walk.s, walk.checks)

TxAddVoidedBy(S, tx, h, verifications) ==
    IF Failed(S) \/ h \in S.voided[tx] THEN S
    ELSE EndWalk(FoldLeft(LAMBDA walk, v : AddVisit(walk, v, tx, h),
                          [s |-> AssertNcFailAlone(S, tx), checks |-> <<>>],
                          OldestFirst(S.stored \cap
                              (IF verifications /\ WalksVerifications(S, tx)
                               THEN AheadOf[tx] ELSE FundsAheadOf[tx]))))

AddToIndexesIfExecuted(S, v) == IF Executed(S, v) THEN AddToIndexes(S, v) ELSE S

\* Mutant: a vertex that is executed again does not return to the indexes.
RemoveHashOnly(S, v, h) == AssertValidConsensus(Save(SetVoided(S, v, S.voided[v] \ {h}), v), v)

RemoveHash(S, v, h) ==
    AssertValidConsensus(
        Save(AddToIndexesIfExecuted(SetVoided(S, v, S.voided[v] \ {h}), v), v), v)

RemoveVisit(walk, v, h) ==
    [s      |-> RemoveHash(walk.s, v, h),
     checks |-> IF walk.s.voided[v] \ {h} = {v} THEN Append(walk.checks, v) ELSE walk.checks]

\* The walk stops where the hash is missing.
TxRemoveVoidedBy(S, tx, h) ==
    IF Failed(S) \/ h \notin S.voided[tx] THEN S
    ELSE EndWalk(FoldLeft(LAMBDA walk, v : RemoveVisit(walk, v, h),
                          [s |-> S, checks |-> <<>>],
                          OldestFirst(WalkRight({tx}, {v \in S.stored : h \in S.voided[v]}))))

=============================================================================
