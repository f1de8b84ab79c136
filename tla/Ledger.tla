------------------------------- MODULE Ledger -------------------------------
(***************************************************************************)
(* The mutable part of the ledger, as one record that the consensus        *)
(* operators transform: the metadata of every vertex, the indexes that     *)
(* consensus reads or writes, and the context of the running update.       *)
(*                                                                         *)
(* A consensus update runs to completion in one turn of the reactor, so    *)
(* its intermediate states are visible to nobody.  It is therefore a       *)
(* function from a ledger record to a ledger record.  A failed assertion   *)
(* or an exception, which makes the vertex handler crash the node, is      *)
(* recorded in the field "failed".                                         *)
(***************************************************************************)
EXTENDS Dag

Infinity == 1 + Max({Timestamp(v) : v \in Vertices})
NoCache == <<None>>
NoRoot == <<None>>
NoReorg == [common |-> None, old |-> None]

NcStates == {"none", "pending", "success", "failure", "skipped"}

\* The ledger of a new database: the genesis vertices, saved and indexed.
GenesisLedger ==
    [ stored   |-> GenesisVertices,
      work     |-> [v \in Vertices |->
                       IF v \in GenesisVertices THEN Min(Universe[v].works) ELSE 0],
      voided   |-> [v \in Vertices |-> {}],
      conflict |-> [v \in Vertices |-> <<>>],
      acc      |-> [v \in Vertices |->
                       IF v \in GenesisVertices THEN Min(Universe[v].works) ELSE 0],
      score    |-> [v \in Vertices |->
                       IF v = GenesisBlock THEN Min(Universe[v].works) ELSE 0],
      first    |-> [v \in Vertices |-> None],
      nc       |-> [v \in Vertices |-> "none"],
      ncCalls  |-> [v \in Vertices |-> FALSE],
      root     |-> [v \in Vertices |-> NoRoot],
      \* indexes
      tipEnd   |-> [v \in Vertices |-> IF v \in GenesisVertices THEN Infinity ELSE None],
      cache    |-> NoCache,
      height   |-> <<GenesisBlock>>,
      mempool  |-> GenesisTxs,
      ncIndex  |-> [v \in Vertices |-> 0],
      \* the running update
      affected |-> {},
      reorg    |-> NoReorg,
      asc      |-> TRUE,
      failed   |-> {} ]

Failed(S) == S.failed # {}
Require(S, holds, what) == IF holds THEN S ELSE [S EXCEPT !.failed = @ \cup {what}]

Save(S, v) == [S EXCEPT !.affected = @ \cup {v}]
SetVoided(S, v, voidedBy) == [S EXCEPT !.voided[v] = voidedBy]
Executed(S, v) == S.voided[v] = {}

(***************************************************************************)
(* The iteration order of a Python set of hashes differs from one process  *)
(* to another.  The field asc selects one of two opposite orders.          *)
(***************************************************************************)
Iterate(S, set) == IF S.asc THEN OldestFirst(set) ELSE NewestFirst(set)

-----------------------------------------------------------------------------
(***************************************************************************)
(* The tips indexes.  tipEnd[v] is the end of v's interval in block_tips   *)
(* (for a block) or in tx_tips (for a transaction); None when v is not in  *)
(* the index, Infinity when v is a tip.  The sorted index of the same kind *)
(* has the same members.                                                   *)
(***************************************************************************)
SameKind(u, v) == IsBlock(u) = IsBlock(v)
IsIndexed(S, v) == S.tipEnd[v] # None

EndByChildren(S, v) ==
    Min({Infinity} \cup {Timestamp(c) : c \in {d \in Children(S.stored, v) :
                                                 SameKind(d, v) /\ IsIndexed(S, d)}})

AddToIndexes(S, v) ==
    IF IsIndexed(S, v) THEN S
    ELSE [S EXCEPT !.tipEnd = [u \in Vertices |->
             IF u = v THEN EndByChildren(S, v)
             ELSE IF u \in Parents(v) /\ SameKind(u, v) /\ IsIndexed(S, u)
             THEN Min({@[u], Timestamp(v)})
             ELSE @[u]]]

\* update_tx: the new end of the interval of a parent of a removed vertex.
TipsUpdateParent(S, p, relax) ==
    IF ~Executed(S, p)
    THEN Require(S, relax \/ ~IsIndexed(S, p), "voided parent still in the tips index")
    ELSE IF ~IsIndexed(S, p)
    THEN Require(S, FALSE, "executed parent missing from the tips index")
    ELSE [S EXCEPT !.tipEnd[p] = EndByChildren(S, p)]

TipsDel(S, v, relax) ==
    IF ~IsIndexed(S, v) THEN S
    ELSE FoldLeft(LAMBDA s, p : TipsUpdateParent(s, p, relax),
                  [Require(S, relax \/ S.tipEnd[v] = Infinity, "deleted vertex is not a tip")
                      EXCEPT !.tipEnd[v] = None],
                  OldestFirst({p \in Parents(v) : SameKind(p, v)}))

-----------------------------------------------------------------------------
(***************************************************************************)
(* The mempool tips index: the unconfirmed transactions that nothing       *)
(* executed verifies or spends.                                            *)
(***************************************************************************)
HasExecutedFollower(S, v) == \E c \in RightNeighbors(S.stored, v) : Executed(S, c)

\* The tips that stay, and the transactions that are tips again because all that
\* followed them is voided.
MempoolKept(S) ==
    LET voidedTips == {t \in S.mempool : ~Executed(S, t)}
    IN  {t \in S.mempool \ voidedTips : ~HasExecutedFollower(S, t)} \cup
        {d \in UNION {Dependencies(t) : t \in voidedTips} :
             Executed(S, d) /\ ~HasExecutedFollower(S, d)}

MempoolUpdate(S, v, forceRemove) ==
    [S EXCEPT !.mempool =
        IF forceRemove \/ ~Executed(S, v) THEN MempoolKept(S)
        ELSE (MempoolKept(S) \ Dependencies(v)) \cup
             (IF ~IsBlock(v) /\ S.first[v] = None THEN {v} ELSE {})]

DelFromIndexes(S, v, relax) == TipsDel(MempoolUpdate(S, v, TRUE), v, relax)

-----------------------------------------------------------------------------
(***************************************************************************)
(* The height index, a sequence whose element h + 1 is the block of height *)
(* h, and the best blocks.                                                 *)
(***************************************************************************)
HeightTip(S) == Last(S.height)

HeightAddNew(S, b) ==
    IF Height[b] = Len(S.height) THEN [S EXCEPT !.height = Append(@, b)]
    ELSE Require(S, Height[b] < Len(S.height) /\ S.height[Height[b] + 1] = b,
                "height index add_new would skip or reorg")

\* Mutant: the block where the chains part is dropped.
HeightReplaceCommon(S, b) ==
    LET last == Max({c \in Chain[b] : Height[c] < Len(S.height) /\ S.height[Height[c] + 1] = c})
    IN  [S EXCEPT !.height = SubSeq(@, 1, Height[last]) \o OldestFirst({c \in Chain[b] : c > last})]

\* update_new_chain: replace the index above the last block that b's chain has in it.
HeightUpdateNewChain(S, b) ==
    LET last == Max({c \in Chain[b] : Height[c] < Len(S.height) /\ S.height[Height[c] + 1] = c})
    IN  [S EXCEPT !.height = SubSeq(@, 1, Height[last] + 1) \o OldestFirst({c \in Chain[b] : c > last})]

\* get_best_block_tips without the cache.
BestTips(S) ==
    LET tips == {b \in Blocks : S.tipEnd[b] = Infinity /\ S.voided[b] \subseteq {b}}
        best == {b \in tips : \A c \in tips : S.score[c] <= S.score[b]}
    IN  Iterate(S, best)

BestBlockTips(S) == IF S.cache = NoCache THEN BestTips(S) ELSE S.cache
SetTipsCache(S, tips) == [S EXCEPT !.cache = tips]

\* Reading the best block tips fills the cache.
LoadTipsCache(S) == SetTipsCache(S, BestBlockTips(S))

=============================================================================
