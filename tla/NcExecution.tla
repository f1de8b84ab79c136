---------------------------- MODULE NcExecution ----------------------------
(***************************************************************************)
(* The execution of the nano contract transactions confirmed by the blocks *)
(* of the best chain (BlockConsensusAlgorithm.execute_nano_contracts).     *)
(*                                                                         *)
(* root[b], the root of the contract state after block b, is the sequence  *)
(* of the calls executed up to b.  A call succeeds when the calls it needs *)
(* are in the state it runs on; that logic belongs to the contract.        *)
(***************************************************************************)
EXTENDS BlockConsensus

(***************************************************************************)
(* The order of the calls is a topological order of the funds DAG, chosen  *)
(* by a generator seeded with the hash of the block.                       *)
(***************************************************************************)
RECURSIVE TopologicalOrder(_, _)
TopologicalOrder(S, txs) ==
    LET ready == {v \in txs : InputTxs(v) \cap txs = {}}
        next == IF S.asc THEN Min(ready) ELSE Max(ready)
    IN  IF txs = {} THEN <<>> ELSE <<next>> \o TopologicalOrder(S, txs \ {next})

SortedCalls(S, calls, b) ==
    SelectSeq(TopologicalOrder(S, TransactionsInThisBlock(S, b)), LAMBDA v : v \in calls)

(***************************************************************************)
(* Before a re-execution: a call voided only by its own failure is         *)
(* restored, then every call is pending.                                   *)
(***************************************************************************)
ClearFailure(S, v) ==
    IF S.voided[v] # {v, NcFailId} THEN S
    ELSE IF ConflictsExist(S, v) /\
            \A c \in Range(S.conflict[v]) : S.first[c] = None /\ ~Executed(S, c)
    THEN Save(SetVoided(TxRemoveVoidedBy(S, v, v), v, {}), v)
    ELSE Require(S, FALSE, "conflict of a failed nano transaction is confirmed or executed")

PrepareCall(S, v, isReorg) ==
    [IF isReorg THEN ClearFailure(S, v) ELSE S EXCEPT !.nc[v] = "pending"]

CallSucceeds(root, v) == Universe[v].needs \subseteq Range(root)

MarkAsNcFailExecution(S, v) ==
    TxAddVoidedBy(Save([S EXCEPT !.voided[v] = @ \cup {NcFailId}, !.nc[v] = "failure"], v),
                  v, v, FALSE)

\* nc_update_metadata and handle_contract_execution
MarkAsNcSuccess(S, v) ==
    Save([Require(S, ~S.ncCalls[v], "nc_calls of a previous execution") EXCEPT
             !.nc[v] = "success", !.ncCalls[v] = TRUE, !.ncIndex[v] = @ + 1], v)

\* r.s is the ledger and r.root the state of the contracts while the block runs.
ExecuteCall(r, v) ==
    IF Failed(r.s) THEN r
    ELSE IF ~Executed(r.s, v)
    THEN [r EXCEPT !.s = Save([r.s EXCEPT !.nc[v] = "skipped"], v)]
    ELSE IF CallSucceeds(r.root, v)
    THEN [s |-> MarkAsNcSuccess(r.s, v), root |-> Append(r.root, v)]
    ELSE [r EXCEPT !.s = MarkAsNcFailExecution(r.s, v)]

CallIsSettled(S, v) ==
    CASE S.nc[v] = "success" -> Executed(S, v)
      [] S.nc[v] = "failure" -> S.voided[v] = {v, NcFailId}
      [] S.nc[v] = "skipped" -> ~Executed(S, v) /\ NcFailId \notin S.voided[v]
      [] OTHER -> FALSE

CommitBlock(r, b, calls) ==
    IF Failed(r.s) THEN r.s
    ELSE Require(Save([r.s EXCEPT !.root[b] = r.root], b),
                 \A v \in calls : CallIsSettled(r.s, v), "call in an unexpected state")

\* Run the calls on the state left by the block parent and save the new root.
RunCalls(S, b, calls) ==
    CommitBlock(FoldLeft(ExecuteCall, [s |-> S, root |-> S.root[BlockParent(b)]],
                         SortedCalls(S, calls, b)),
                b, calls)

PrepareAndRun(S, b, isReorg, calls) ==
    RunCalls(FoldLeft(LAMBDA s, v : PrepareCall(s, v, isReorg), S, NewestFirst(calls)), b, calls)

\* _nc_execute_calls
NcExecuteCalls(S, b, isReorg) ==
    IF Failed(S) THEN S
    ELSE IF b = GenesisBlock THEN Save([S EXCEPT !.root[b] = <<>>], b)
    ELSE IF ~Executed(S, b) THEN Require(S, FALSE, "executing a voided block")
    ELSE IF S.root[BlockParent(b)] = NoRoot
    THEN Require(S, FALSE, "block parent has not been executed")
    ELSE PrepareAndRun(S, b, isReorg, {v \in TransactionsInThisBlock(S, b) : IsNano(v)})

-----------------------------------------------------------------------------
(***************************************************************************)
(* The blocks to execute: after a reorg, every block above the common one, *)
(* executed again; otherwise those above the last executed block.          *)
(***************************************************************************)
\* Mutant: a reorganisation stops at a block that was executed before.
BlocksNeverExecuted(S, b) == {c \in Chain[b] : \A d \in Chain[b] : d >= c => S.root[d] = NoRoot}

BlocksToExecute(S, b) ==
    IF S.reorg # NoReorg THEN {c \in Chain[b] : c > S.reorg.common}
    ELSE {c \in Chain[b] : \A d \in Chain[b] : d >= c => S.root[d] = NoRoot}

ExecuteBlocks(S, blocks) ==
    FoldLeft(LAMBDA s, c : NcExecuteCalls(s, c, S.reorg # NoReorg),
             [S EXCEPT !.root = [c \in Vertices |-> IF c \in blocks THEN NoRoot ELSE @[c]]],
             OldestFirst(blocks))

ExecuteNanoContracts(S, b) ==
    IF Failed(S) \/ ~Executed(S, b) THEN S
    ELSE IF S.root[b] # NoRoot THEN Require(S, FALSE, "new block is already executed")
    ELSE ExecuteBlocks(S, BlocksToExecute(S, b))

=============================================================================
