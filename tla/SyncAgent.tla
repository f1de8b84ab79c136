------------------------------- MODULE SyncAgent -------------------------------
(***************************************************************************)
(* The requesting side of sync-v2 (hathor/p2p/sync_v2): one run of the     *)
(* agent finds the best common block, receives the blocks after it, then   *)
(* the transactions that they confirm, and executes the blocks one by one. *)
(*                                                                         *)
(* The node is a record.  step tells what its coroutine waits for; state   *)
(* is the PeerState, which outlives a run.  A handler is an operator from  *)
(* the record to the record: a Deferred that fires resumes the coroutine   *)
(* within the handler.                                                     *)
(***************************************************************************)
EXTENDS SyncServer

CONSTANTS
    SearchWays,        \* the n of the n-ary search, 10 in the code
    MaxRepeatedBlocks  \* max_repeated_blocks of the block streaming client

\* The search does not look at its highest block, so that the common block and the one
\* after it may both be repeated.
ASSUME SearchAssumption == SearchWays \in Nat \ {0} /\ MaxRepeatedBlocks \in Nat \ {0, 1}

NoClient == [none |-> TRUE]

NewAgent(db) ==
    [db |-> db, out |-> <<>>, closed |-> "",
     state |-> "UNKNOWN", step |-> "idle", receiving |-> FALSE, resumed |-> FALSE,
     synced |-> FALSE, relayed |-> FALSE, myBest |-> GenesisBlock, peerBest |-> GenesisBlock,
     lo |-> GenesisBlock, hi |-> GenesisBlock,
     blocks |-> NoClient, txs |-> NoClient, orphans |-> {},
     missing |-> {}, tips |-> {}, stack |-> <<>>, cache |-> {}]

Add(n, v) == [n EXCEPT !.db = @ \cup {v}]

\* The coroutine of run_sync ends.
EndRun(n) == [n EXCEPT !.step = "idle", !.resumed = FALSE]

-----------------------------------------------------------------------------
(* Blocks *)

RunSync(n) ==
    [Send(n, [type |-> "GET-BEST-BLOCK"])
        EXCEPT !.state = "SYNCING_BLOCKS", !.step = "best", !.myBest = BestBlock(n.db)]

SendRelay(n, enable) == [Send(n, [type |-> "RELAY", enable |-> enable]) EXCEPT !.relayed = enable]

\* The client of the stream from the common block to the best block of the peer.
StartBlockStreaming(n) ==
    LET quantity == Height[n.peerBest] - Height[n.lo] + 1
    IN  [Send(n, [type |-> "GET-NEXT-BLOCKS", start |-> n.lo, end |-> n.peerBest,
                  quantity |-> quantity])
            EXCEPT !.step = "blocks", !.receiving = TRUE,
                   !.blocks = [max |-> quantity, received |-> 0, repeated |-> 0, last |-> None,
                               partial |-> <<>>, done |-> FALSE]]

\* lo, every step-th height after it, and hi.
SearchHeights(lo, hi) ==
    LET step == (hi - lo + SearchWays - 1) \div SearchWays
    IN  SetToSortSeq({h \in lo .. hi - 1 : (h - lo) % step = 0} \cup {hi}, LAMBDA a, b : a < b)

\* The loop of find_best_common_block.
Search(n) ==
    IF Height[n.hi] - Height[n.lo] > 1
    THEN [Send(n, [type    |-> "GET-PEER-BLOCK-HASHES",
                   heights |-> SearchHeights(Height[n.lo], Height[n.hi])]) EXCEPT !.step = "hashes"]
    ELSE StartBlockStreaming(n)

\* The peer has nothing that is not in my best chain.
IsSynced(n, b) ==
    b = n.myBest \/ (Height[b] <= Height[n.myBest] /\ BlockAt(n.db, Height[b]) = b)

HandleBestBlock(n, b) ==
    IF n.step # "best" THEN n
    ELSE IF IsSynced(n, b)
    THEN [SendRelay(n, TRUE) EXCEPT !.peerBest = b, !.synced = TRUE,
                                    !.state = "SYNCING_MEMPOOL", !.step = "mempool"]
    ELSE Search([SendRelay(n, FALSE) EXCEPT
                    !.peerBest = b, !.synced = FALSE, !.lo = GenesisBlock,
                    !.hi = IF Height[b] <= Height[n.myBest] THEN b ELSE n.myBest])

\* Mutant: the block after the highest one that is stored.
NarrowBeyond(n, blocks) ==
    LET known == Max({i \in DOMAIN blocks : blocks[i] \in n.db})
    IN  [n EXCEPT !.lo = IF known < Len(blocks) THEN blocks[known + 1] ELSE blocks[known]]

\* The highest block of the answer that is stored is synced, the one after it is not.
Narrow(n, blocks) ==
    LET known == Max({i \in DOMAIN blocks : blocks[i] \in n.db})
    IN  [n EXCEPT !.lo = blocks[known], !.hi = IF known < Len(blocks) THEN blocks[known + 1] ELSE @]

HandlePeerBlockHashes(n, blocks) ==
    IF n.step # "hashes" THEN n
    ELSE IF blocks = <<>> THEN EndRun(n)
    ELSE IF Head(blocks) # n.lo THEN EndRun(n)
    ELSE Search(Narrow(n, blocks))

\* Mutants: the peer goes on streaming; a repeated block is one too many.
FailBlocksOnly(n) == EndRun([n EXCEPT !.blocks.done = TRUE, !.receiving = FALSE])
TooManyRepeatedEarly(c) == c.repeated + 1 >= MaxRepeatedBlocks

TooManyRepeated(c) == c.repeated + 1 > MaxRepeatedBlocks

\* The client fails: run_sync_blocks asks the peer to stop and ends.
FailBlocks(n) ==
    EndRun([Send(n, [type |-> "STOP-BLOCK-STREAMING"])
               EXCEPT !.blocks.done = TRUE, !.receiving = FALSE])

HandleBlocks(n, b) ==
    LET c == n.blocks
        counted == [n EXCEPT !.blocks.received = @ + 1]
        repeated == [counted EXCEPT !.blocks.repeated = @ + 1, !.blocks.last = b]
        linked == [counted EXCEPT !.blocks.repeated = 0, !.blocks.last = b]
    IN  IF n.state # "SYNCING_BLOCKS" THEN Close(n, "Not expecting to receive BLOCK message")
        ELSE IF c = NoClient THEN Close(n, "Error processing BLOCKS")
        ELSE IF c.done THEN n
        ELSE IF c.received + 1 > c.max THEN FailBlocks(counted)
        ELSE IF b \in n.db
        THEN IF TooManyRepeated(c) THEN FailBlocks(repeated) ELSE repeated
        ELSE IF c.last # None /\ BlockParent(b) # c.last THEN FailBlocks(counted)
        ELSE IF CanValidateFull(n.db, b) THEN Add(linked, b)
        ELSE [linked EXCEPT !.blocks.partial = Append(@, b)]

-----------------------------------------------------------------------------
(***************************************************************************)
(* Transactions.  The client c of the stream: idx is the block of partial  *)
(* that it works on, waiting the transactions that it still expects,       *)
(* received those in _db, existing those found elsewhere.  scheduled tells *)
(* that process_queue will be called (how often makes no difference),      *)
(* executing that on_block_complete is suspended.  A client that is still  *)
(* executing when the agent drops it becomes one of the orphans.           *)
(***************************************************************************)
UpdateDependencies(db, c, v) ==
    LET have == Dependencies(v) \cap (db \cup c.received)
    IN  [c EXCEPT !.existing = @ \cup have, !.waiting = @ \cup (Dependencies(v) \ have)]

PrepareBlock(db, c) ==
    UpdateDependencies(db, [c EXCEPT !.waiting = {}, !.received = {}, !.existing = {}],
                       c.partial[c.idx])

NewTxClient(db, partial) ==
    PrepareBlock(db, [partial |-> partial, idx |-> 1, queue |-> <<>>, counter |-> 0,
                      code |-> "none", waiting |-> {}, received |-> {}, existing |-> {},
                      scheduled |-> FALSE, executing |-> FALSE, done |-> FALSE])

SendGetTransactions(n, c, from) ==
    [Send(n, [type |-> "GET-TRANSACTIONS-BFS", from |-> from,
              first |-> c.partial[c.idx], last |-> Last(c.partial)])
        EXCEPT !.receiving = TRUE, !.txs = c]

\* The agent forgets its clients, or replaces the client of the transactions.
Orphan(n) ==
    IF n.txs # NoClient /\ n.txs.executing THEN [n EXCEPT !.orphans = @ \cup {n.txs}] ELSE n
DropClients(n) == [Orphan(n) EXCEPT !.blocks = NoClient, !.txs = NoClient]

HandleBlocksEnd(n) ==
    LET ended == [n EXCEPT !.receiving = FALSE]
    IN  IF n.state # "SYNCING_BLOCKS" THEN Close(ended, "Not expecting to receive BLOCKS-END message")
        ELSE IF n.blocks = NoClient THEN Close(ended, "Error processing BLOCKS-END")
        ELSE IF n.blocks.done THEN ended
        ELSE IF n.blocks.partial = <<>> THEN EndRun(DropClients(ended))
        ELSE SendGetTransactions(
                [Orphan(ended) EXCEPT !.blocks.done = TRUE, !.state = "SYNCING_TRANSACTIONS",
                                      !.step = "txs"],
                NewTxClient(n.db, n.blocks.partial), {})

\* Mutant: the agent still expects the stream.
FailTransactionsReceiving(n) ==
    IF n.txs.done THEN n
    ELSE IF n.resumed THEN Close([n EXCEPT !.txs.done = TRUE], "internal error")
    ELSE EndRun([Send(n, [type |-> "STOP-TRANSACTIONS-STREAMING"]) EXCEPT !.txs.done = TRUE])

\* The client fails: run_sync_blocks asks the peer to stop and ends, unless the stream was
\* resumed, outside of its try block.
FailTransactions(n) ==
    IF n.txs.done THEN n
    ELSE IF n.resumed THEN Close([n EXCEPT !.txs.done = TRUE], "internal error")
    ELSE EndRun([Send(n, [type |-> "STOP-TRANSACTIONS-STREAMING"])
                    EXCEPT !.txs.done = TRUE, !.receiving = FALSE])

Resume(n) ==
    IF n.txs.idx > Len(n.txs.partial) THEN Close(n, "internal error")
    ELSE [SendGetTransactions(n, [n.txs EXCEPT !.counter = 0, !.code = "none", !.done = FALSE],
                              n.txs.waiting) EXCEPT !.resumed = TRUE]

\* The stream is over once the queue is empty.
CheckEnd(n) ==
    IF n.txs.code = "none" \/ n.txs.queue # <<>> THEN n
    ELSE IF n.txs.code = "LIMIT_EXCEEDED" THEN Resume([n EXCEPT !.txs.done = TRUE])
    ELSE EndRun(DropClients([n EXCEPT !.txs.done = TRUE]))

HandleTransactionsEnd(n, code) ==
    LET ended == [n EXCEPT !.receiving = FALSE]
    IN  IF n.state # "SYNCING_TRANSACTIONS"
        THEN Close(ended, "Not expecting to receive TRANSACTIONS-END message")
        ELSE IF n.txs = NoClient THEN Close(ended, "Error processing TRANSACTIONS-END")
        ELSE IF n.txs.done THEN ended
        ELSE CheckEnd([ended EXCEPT !.txs.code = code])

HandleTransaction(n, t) ==
    IF n.txs = NoClient THEN Close(n, "Error processing TRANSACTION")
    ELSE IF n.txs.done THEN n
    ELSE IF n.txs.counter + 1 > StreamingLimit THEN FailTransactions(n)
    ELSE [n EXCEPT !.txs.counter = @ + 1, !.txs.queue = Append(@, t),
                   !.txs.scheduled = @ \/ ~n.txs.executing]

-----------------------------------------------------------------------------
(***************************************************************************)
(* Execution.  on_new_block adds the received transactions that are not    *)
(* stored, the oldest first, and yields to the reactor after each of them; *)
(* then it adds the block.  The blocks after it that wait for nothing are  *)
(* added in the same turn.                                                 *)
(***************************************************************************)
Turn(db, c) == [db |-> db, client |-> c, invalid |-> FALSE]


NextToExecute(c, left) == IF left # {} THEN Min(left) ELSE c.partial[c.idx]

ExecuteTurn(r) ==
    LET c == r.client
        left == c.received \ r.db
        v == NextToExecute(c, left)
        db == r.db \cup {v}
        next == [c EXCEPT !.idx = @ + 1, !.executing = FALSE]
        prepared == PrepareBlock(db, next)
    IN  IF ~CanValidateFull(r.db, v) THEN [r EXCEPT !.client.executing = FALSE, !.invalid = TRUE]
        ELSE IF left # {} THEN Turn(db, c)
        ELSE IF next.idx > Len(c.partial) THEN Turn(db, next)
        ELSE Turn(db, [prepared EXCEPT !.executing = prepared.waiting = {}])

\* Up to the first turn that yields, or until the client waits again.
Execute(db, c) ==
    LET first == ExecuteTurn(Turn(db, [c EXCEPT !.executing = TRUE]))
    IN  FoldLeft(LAMBDA r, b : IF r.client.executing /\ r.client.idx # c.idx
                               THEN ExecuteTurn(r) ELSE r, first, c.partial)

\* The result of a turn of the agent's own client, which calls process_queue once it is done.
AfterTurn(n, r) ==
    LET m == [n EXCEPT !.db = r.db, !.txs = [r.client EXCEPT !.scheduled = @ \/ ~r.client.executing]]
    IN  IF r.invalid THEN Close(m, "invalid vertex received") ELSE m

ResumeExecution(n) == AfterTurn(n, Execute(n.db, n.txs))

ResumeOrphan(n, c) ==
    LET r == Execute(n.db, c)
    IN  [n EXCEPT !.db = r.db,
                  !.orphans = (@ \ {c}) \cup (IF r.client.executing THEN {r.client} ELSE {})]

\* A transaction that nobody waits for is a repeated one, or ends the stream.
ProcessTransaction(n, t) ==
    LET c == n.txs
        updated == UpdateDependencies(n.db, [c EXCEPT !.waiting = @ \ {t}], t)
        stored == [updated EXCEPT !.received = @ \cup {t}]
    IN  IF t \in c.waiting
        THEN IF stored.waiting = {} THEN AfterTurn(n, Execute(n.db, stored))
             ELSE AfterTurn(n, Turn(n.db, stored))
        ELSE IF t \in c.received \cup c.existing THEN AfterTurn(n, Turn(n.db, updated))
        ELSE FailTransactions(n)

ProcessQueue(n) ==
    LET called == [n EXCEPT !.txs.scheduled = FALSE]
    IN  IF n.txs.done \/ n.txs.executing THEN called
        ELSE IF n.txs.queue = <<>> THEN CheckEnd(called)
        ELSE ProcessTransaction([called EXCEPT !.txs.queue = Tail(@)], Head(n.txs.queue))

==============================================================================
