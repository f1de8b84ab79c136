------------------------------ MODULE SyncServer ------------------------------
(***************************************************************************)
(* The serving side of sync-v2: how a node answers the requests of a peer  *)
(* that synchronises with it (hathor/p2p/sync_v2/agent.py) and streams     *)
(* blocks and transactions to it (hathor/p2p/sync_v2/streamers.py).        *)
(*                                                                         *)
(* A node is a record.  Its ledger is the set db of stored vertices: the   *)
(* best chain, the first block of a transaction and the mempool follow     *)
(* from it, since in these universes no transactions conflict and no two   *)
(* chains tie.  out holds the messages on their way to the other node, in  *)
(* order.                                                                  *)
(***************************************************************************)
EXTENDS Dag

CONSTANTS
    StreamingLimit,  \* DEFAULT_STREAMING_LIMIT
    MaxBfsLen        \* MAX_GET_TRANSACTIONS_BFS_LEN

Score == [b \in Blocks |-> MapThenSumSet(LAMBDA v : Min(Universe[v].works), Behind[b])]

ASSUME NoTies == \A b, c \in Blocks : b # c => Score[b] # Score[c]
ASSUME NoConflicts == \A t, u \in Txs : t # u => Inputs(t) \cap Inputs(u) = {}

BestBlock(db) == CHOOSE b \in db \cap Blocks : \A c \in db \cap Blocks : Score[c] <= Score[b]
BestChain(db) == Chain[BestBlock(db)]

\* The entry of the height index.
BlockAt(db, height) ==
    IF \E b \in BestChain(db) : Height[b] = height
    THEN CHOOSE b \in BestChain(db) : Height[b] = height ELSE None

NextInBestChain(db, b) == BlockAt(db, Height[b] + 1)

\* The block of the best chain that confirms t first.
FirstBlock(db, t) ==
    LET confirming == {b \in BestChain(db) : t \in Behind[b]}
    IN  IF confirming = {} THEN None
        ELSE CHOOSE b \in confirming : \A c \in confirming : Height[b] <= Height[c]

Mempool(db) == {t \in db \cap Txs : FirstBlock(db, t) = None}
MempoolTips(db) == {t \in Mempool(db) : RightNeighbors(db, t) \cap Mempool(db) = {}}

CanValidateFull(db, v) == Dependencies(v) \subseteq db

-----------------------------------------------------------------------------
(***************************************************************************)
(* The streaming server of a node: none, a stream of the blocks from cur   *)
(* to end, or a stream of the transactions that the blocks from cur to     *)
(* last confirm.  The latter walks breadth first: visit are the vertices   *)
(* to visit, seen the ones that have been added to them.                   *)
(***************************************************************************)
NoStream == [kind |-> "none"]
BlockStream(start, end, quantity) ==
    [kind |-> "blocks", cur |-> start, end |-> end, counter |-> 0,
     limit |-> IF quantity < StreamingLimit THEN quantity ELSE StreamingLimit]

\* add_neighbors: parents and inputs.
Push(s, v) ==
    [s EXCEPT !.visit = @ \o OldestFirst(Dependencies(v) \ s.seen), !.seen = @ \cup Dependencies(v)]

EnterBlock(s, b) == Push([s EXCEPT !.cur = b, !.seen = @ \cup {b}], b)

TransactionStream(from, first, last) ==
    LET s == [kind |-> "txs", cur |-> first, last |-> last, counter |-> 0,
              visit |-> OldestFirst(from), seen |-> from, code |-> "none"]
    IN  IF from = {} THEN EnterBlock(s, first) ELSE s

\* get_iter leaves the block whose transactions have all been visited.
NextBlock(db, s) ==
    IF s.visit # <<>> \/ s.code # "none" THEN s
    ELSE IF s.cur = s.last THEN [s EXCEPT !.code = "END_HASH_REACHED"]
    ELSE IF s.cur \notin BestChain(db) THEN [s EXCEPT !.code = "STREAM_BECAME_VOIDED"]
    ELSE IF NextInBestChain(db, s.cur) = None THEN [s EXCEPT !.code = "END_HASH_REACHED"]
    ELSE EnterBlock(s, NextInBestChain(db, s.cur))

Iterate(db, s) == FoldLeft(LAMBDA a, i : NextBlock(db, a), s, ByTimestamp)

Send(n, message) == [n EXCEPT !.out = Append(@, message)]

\* The block streaming server stops, and so does the transaction streaming server.
StopBlocks(n, code) == [Send(n, [type |-> "BLOCKS-END", code |-> code]) EXCEPT !.stream = NoStream]
StopTransactions(n, code) ==
    [Send(n, [type |-> "TRANSACTIONS-END", code |-> code]) EXCEPT !.stream = NoStream]

SendBlock(n, b) == Send(n, [type |-> "BLOCKS", block |-> b])
SendTransaction(n, t) == Send(n, [type |-> "TRANSACTION", tx |-> t])

\* send_next of the block stream.
SendNextBlock(n) ==
    LET s == n.stream
        next == NextInBestChain(n.db, s.cur)
    IN  IF s.cur \notin BestChain(n.db) THEN StopBlocks(n, "STREAM_BECAME_VOIDED")
        ELSE IF s.cur = s.end THEN StopBlocks(SendBlock(n, s.cur), "END_HASH_REACHED")
        ELSE IF next = None THEN StopBlocks(SendBlock(n, s.cur), "NO_MORE_BLOCKS")
        ELSE IF s.counter + 1 >= s.limit THEN StopBlocks(SendBlock(n, s.cur), "LIMIT_EXCEEDED")
        ELSE [SendBlock(n, s.cur) EXCEPT !.stream = [s EXCEPT !.cur = next, !.counter = @ + 1]]

\* send_next of the transaction stream: blocks, and what lower blocks confirm, are skipped
\* with everything behind them.
SendNextTransaction(n) ==
    LET s == Iterate(n.db, n.stream)
        t == Head(s.visit)
        popped == [s EXCEPT !.visit = Tail(@)]
        skip == [n EXCEPT !.stream = popped]
    IN  IF s.code # "none" THEN StopTransactions(n, s.code)
        ELSE IF IsBlock(t) THEN skip
        ELSE IF FirstBlock(n.db, t) = None THEN StopTransactions(n, "TX_NOT_CONFIRMED")
        ELSE IF Height[FirstBlock(n.db, t)] < Height[s.cur] THEN skip
        ELSE IF s.counter + 1 >= StreamingLimit
        THEN StopTransactions(SendTransaction(n, t), "LIMIT_EXCEEDED")
        ELSE [SendTransaction(n, t) EXCEPT !.stream = Push([popped EXCEPT !.counter = @ + 1], t)]

SendNext(n) == IF n.stream.kind = "blocks" THEN SendNextBlock(n) ELSE SendNextTransaction(n)

-----------------------------------------------------------------------------
(* The requests *)

Close(n, reason) == [n EXCEPT !.closed = reason]
NotFound(n) == Send(n, [type |-> "NOT-FOUND"])

HandleGetBestBlock(n) == Send(n, [type |-> "BEST-BLOCK", block |-> BestBlock(n.db)])

\* The answer ends at the first height that the best chain does not have.
HandleGetPeerBlockHashes(n, heights) ==
    LET known == SelectSeq(heights, LAMBDA h : BlockAt(n.db, h) # None)
    IN  Send(n, [type   |-> "PEER-BLOCK-HASHES",
                 blocks |-> [i \in DOMAIN known |-> BlockAt(n.db, known[i])]])

HandleGetNextBlocks(n, m) ==
    IF n.stream # NoStream THEN Close(n, "GET-NEXT-BLOCKS received before previous one finished")
    ELSE IF ~({m.start, m.end} \subseteq n.db) THEN NotFound(n)
    ELSE [n EXCEPT !.stream = BlockStream(m.start, m.end, m.quantity)]

HandleStopBlockStreaming(n) ==
    IF n.stream.kind = "blocks" THEN StopBlocks(n, "PER_REQUEST") ELSE n

\* A request that arrives while streaming is ignored.
HandleGetTransactionsBfs(n, m) ==
    IF n.stream # NoStream THEN n
    ELSE IF Cardinality(m.from) > MaxBfsLen THEN Close(n, "Too many transactions in GET-TRANSACTIONS-BFS")
    ELSE IF ~(({m.first, m.last} \cup m.from) \subseteq n.db) THEN NotFound(n)
    ELSE IF \E t \in m.from : FirstBlock(n.db, t) # m.first
    THEN Send(n, [type |-> "TRANSACTIONS-END", code |-> "INVALID_PARAMS"])
    ELSE [n EXCEPT !.stream = TransactionStream(m.from, m.first, m.last)]

HandleStopTransactionsStreaming(n) ==
    IF n.stream.kind = "txs" THEN StopTransactions(n, "PER_REQUEST") ELSE n

HandleGetTips(n) ==
    IF n.stream # NoStream THEN Send(n, [type |-> "MEMPOOL-END"])
    ELSE Send(FoldLeft(LAMBDA a, t : Send(a, [type |-> "TIPS", tx |-> t]), n,
                       OldestFirst(MempoolTips(n.db))),
              [type |-> "TIPS-END"])

HandleGetData(n, t) ==
    IF t \in n.db THEN Send(n, [type |-> "DATA", origin |-> "mempool", vertex |-> t]) ELSE NotFound(n)

HandleRelay(n, enable) == [n EXCEPT !.relay = enable]

HandleRequest(n, m) ==
    CASE m.type = "GET-BEST-BLOCK" -> HandleGetBestBlock(n)
      [] m.type = "GET-PEER-BLOCK-HASHES" -> HandleGetPeerBlockHashes(n, m.heights)
      [] m.type = "GET-NEXT-BLOCKS" -> HandleGetNextBlocks(n, m)
      [] m.type = "STOP-BLOCK-STREAMING" -> HandleStopBlockStreaming(n)
      [] m.type = "GET-TRANSACTIONS-BFS" -> HandleGetTransactionsBfs(n, m)
      [] m.type = "STOP-TRANSACTIONS-STREAMING" -> HandleStopTransactionsStreaming(n)
      [] m.type = "GET-TIPS" -> HandleGetTips(n)
      [] m.type = "GET-DATA" -> HandleGetData(n, m.vertex)
      [] m.type = "RELAY" -> HandleRelay(n, m.enable)

\* The node accepts a vertex from elsewhere, and relays it unless it is disabled for the
\* connection.
AcceptAndRelay(n, v) ==
    LET accepted == [n EXCEPT !.db = @ \cup {v}]
    IN  IF n.relay THEN {accepted, Send(accepted, [type |-> "DATA", origin |-> "", vertex |-> v])}
        ELSE {accepted}

==============================================================================
