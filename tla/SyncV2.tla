-------------------------------- MODULE SyncV2 --------------------------------
(***************************************************************************)
(* Two nodes and a connection: me, which synchronises, and peer, which     *)
(* serves it.  Messages are delivered in order.  Both nodes also accept    *)
(* vertices from other connections, at any moment and in any order that    *)
(* respects the dependencies; vertices are never removed.                  *)
(*                                                                         *)
(* The mempool is synchronised with hathor/p2p/sync_v2/mempool.py.         *)
(***************************************************************************)
EXTENDS SyncAgent

CONSTANTS
    MaxStackLength,    \* MAX_STACK_LENGTH of the mempool search
    MaxReceivingTips,  \* max_receiving_tips
    MineAtFirst,       \* the sets of vertices that I may store in the beginning
    PeersAtFirst,      \* the sets of vertices that the peer may store in the beginning
    Elsewhere,         \* what other connections may bring to me
    Later,             \* what other connections may bring to the peer
    MaxOrphans         \* bound: orphaned executions when a run starts

VARIABLES me, peer

vars == <<me, peer>>

-----------------------------------------------------------------------------
(* The mempool *)

RequestData(n, t) == [Send(n, [type |-> "GET-DATA", vertex |-> t]) EXCEPT !.step = "data"]


\* One iteration of the search: the dependencies of a transaction come first.  When the
\* stack is full, its oldest element is forgotten.
DfsStep(n) ==
    LET t == Last(n.stack)
        lacking == Dependencies(t) \ n.db
        dep == Min(lacking)
        deeper == Append(n.stack, dep)
    IN  IF n.stack = <<>> \/ n.step = "data" THEN n
        ELSE IF lacking = {}
        THEN [n EXCEPT !.db = @ \cup {t}, !.missing = @ \ {t}, !.stack = Front(@)]
        ELSE IF dep \in n.cache
        THEN [n EXCEPT !.stack = IF Len(deeper) > MaxStackLength THEN Tail(deeper) ELSE deeper]
        ELSE RequestData(n, dep)

\* The loop over the missing tips.
TipStep(n) ==
    LET t == Min(n.missing)
    IN  IF n.stack # <<>> \/ n.step = "data" THEN DfsStep(n)
        ELSE IF n.missing = {} THEN EndRun(n)
        ELSE IF t \in n.cache \cup n.db THEN [n EXCEPT !.stack = <<t>>]
        ELSE RequestData(n, t)

\* The coroutine runs until it waits for the peer or is done.
Dfs(n) == FoldLeft(LAMBDA a, i : IF a.step = "idle" THEN a ELSE TipStep(a), [n EXCEPT !.step = "dfs"],
                   ByTimestamp)

RunMempool(n) ==
    IF n.missing # {} THEN Dfs(n)
    ELSE [Send(n, [type |-> "GET-TIPS"]) EXCEPT !.step = "tips", !.tips = {}]

HandleTips(n, t) ==
    LET tips == n.tips \cup ({t} \ n.db)
    IN  IF n.step # "tips" THEN Close(n, "TIPS not expected")
        ELSE IF Cardinality(tips) > MaxReceivingTips THEN Close(n, "Too many tips")
        ELSE [n EXCEPT !.tips = tips]

HandleTipsEnd(n) ==
    IF n.step # "tips" THEN Close(n, "Error processing TIPS-END")
    ELSE Dfs([n EXCEPT !.missing = n.tips \ n.db, !.tips = {}])

\* What was asked for goes to the stack, below which its dependant is; a tip starts one.
HandleRequestedData(n, t) ==
    LET deeper == Append(n.stack, t)
    IN  IF n.step # "data" THEN Close(n, "DATA mempool: with tx that was not requested")
        ELSE Dfs([n EXCEPT !.cache = @ \cup {t},
                           !.stack = IF Len(deeper) > MaxStackLength THEN Tail(deeper) ELSE deeper])

\* A relayed vertex is ignored unless it is new and can be validated.
HandleRelayedData(n, v) == IF v \notin n.db /\ CanValidateFull(n.db, v) THEN Add(n, v) ELSE n

HandleData(n, m) ==
    IF ~n.relayed THEN n
    ELSE IF m.origin = "mempool" THEN HandleRequestedData(n, m.vertex)
    ELSE HandleRelayedData(n, m.vertex)

HandleResponse(n, m) ==
    CASE m.type = "BEST-BLOCK" -> HandleBestBlock(n, m.block)
      [] m.type = "PEER-BLOCK-HASHES" -> HandlePeerBlockHashes(n, m.blocks)
      [] m.type = "BLOCKS" -> HandleBlocks(n, m.block)
      [] m.type = "BLOCKS-END" -> HandleBlocksEnd(n)
      [] m.type = "TRANSACTION" -> HandleTransaction(n, m.tx)
      [] m.type = "TRANSACTIONS-END" -> HandleTransactionsEnd(n, m.code)
      [] m.type = "TIPS" -> HandleTips(n, m.tx)
      [] m.type = "TIPS-END" -> HandleTipsEnd(n)
      [] m.type = "DATA" -> HandleData(n, m)
      [] m.type = "MEMPOOL-END" -> Close(n, "Invalid Command")
      [] m.type = "NOT-FOUND" -> Close(n, "Unexpected NOT_FOUND")

-----------------------------------------------------------------------------
(* The composition *)

NewPeer(db) == [db |-> db, out |-> <<>>, closed |-> "", stream |-> NoStream, relay |-> FALSE]

Init ==
    \E mine \in MineAtFirst, peers \in PeersAtFirst : me = NewAgent(mine) /\ peer = NewPeer(peers)

Connected == me.closed = "" /\ peer.closed = ""

\* What the reactors of the two nodes have to do.
CanStartRun == Connected /\ me.step = "idle" /\ Cardinality(me.orphans) <= MaxOrphans
CanStartMempool == Connected /\ me.step = "mempool"
HasResponse == Connected /\ peer.out # <<>>
HasRequest == Connected /\ me.out # <<>>
IsStreaming == Connected /\ peer.stream # NoStream
IsScheduled == me.txs # NoClient /\ me.txs.scheduled
IsExecuting == me.txs # NoClient /\ me.txs.executing

StartRun == CanStartRun /\ me' = RunSync(me) /\ UNCHANGED peer
StartMempool == CanStartMempool /\ me' = RunMempool(me) /\ UNCHANGED peer
CallProcessQueue == IsScheduled /\ me' = ProcessQueue(me) /\ UNCHANGED peer
ContinueExecution == IsExecuting /\ me' = ResumeExecution(me) /\ UNCHANGED peer
ContinueOrphan == \E c \in me.orphans : me' = ResumeOrphan(me, c) /\ UNCHANGED peer
StreamNext == IsStreaming /\ peer' = SendNext(peer) /\ UNCHANGED me

ReceiveResponse ==
    /\ HasResponse
    /\ me' = HandleResponse(me, Head(peer.out))
    /\ peer' = [peer EXCEPT !.out = Tail(@)]

ReceiveRequest ==
    /\ HasRequest
    /\ peer' = HandleRequest(peer, Head(me.out))
    /\ me' = [me EXCEPT !.out = Tail(@)]

\* Other connections.
AcceptElsewhere ==
    \E v \in Elsewhere \ me.db :
        CanValidateFull(me.db, v) /\ me' = Add(me, v) /\ UNCHANGED peer

PeerAccepts ==
    \E v \in Later \ peer.db :
        CanValidateFull(peer.db, v) /\ peer' \in AcceptAndRelay(peer, v) /\ UNCHANGED me

\* One of the nodes has closed the connection; it is opened again with new agents.
Reconnect ==
    /\ ~Connected
    /\ me' = [NewAgent(me.db) EXCEPT !.orphans = Orphan(me).orphans]
    /\ peer' = NewPeer(peer.db)

Next ==
    \/ StartRun \/ StartMempool \/ ReceiveResponse \/ CallProcessQueue \/ ContinueExecution
    \/ ContinueOrphan \/ ReceiveRequest \/ StreamNext \/ AcceptElsewhere \/ PeerAccepts
    \/ Reconnect

Spec == Init /\ [][Next]_vars

(***************************************************************************)
(* The looping call starts runs, the reactors of both nodes work, messages *)
(* arrive, and nodes reconnect: weak fairness of these actions, with the   *)
(* conditions that enable them written out.                                *)
(***************************************************************************)
FairSpec ==
    /\ Spec
    /\ []<>(~CanStartRun) \/ []<><<StartRun>>_vars
    /\ []<>(~CanStartMempool) \/ []<><<StartMempool>>_vars
    /\ []<>(~HasResponse) \/ []<><<ReceiveResponse>>_vars
    /\ []<>(~HasRequest) \/ []<><<ReceiveRequest>>_vars
    /\ []<>(~IsStreaming) \/ []<><<StreamNext>>_vars
    /\ []<>(~IsScheduled) \/ []<><<CallProcessQueue>>_vars
    /\ []<>(~IsExecuting) \/ []<><<ContinueExecution>>_vars
    /\ []<>(me.orphans = {}) \/ []<><<ContinueOrphan>>_vars
    /\ []<>Connected \/ []<><<Reconnect>>_vars

-----------------------------------------------------------------------------
(* Properties *)

\* run_sync starts only when no stream is being received, however the run before ended: the
\* assertion of _run_sync holds.
RunsStartClean ==
    me.step = "idle" /\ Connected => ~me.receiving

\* A node that asks for a stream never meets one that is still running: GET-NEXT-BLOCKS
\* would close the connection, GET-TRANSACTIONS-BFS would never be answered.
NoOverlappingStreams ==
    Connected /\ me.out # <<>> /\ Head(me.out).type \in {"GET-NEXT-BLOCKS", "GET-TRANSACTIONS-BFS"}
        => peer.stream = NoStream

\* The search ends at a block that both nodes have.
CommonBlockIsCommon == me.step = "blocks" => me.lo \in me.db \cap peer.db


\* In the end the node has the best chain of its peer.
ChainIsSynced == <>[](BestChain(peer.db) \subseteq me.db)


==============================================================================
