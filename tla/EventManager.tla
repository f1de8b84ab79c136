---------------------------- MODULE EventManager ----------------------------
(***************************************************************************)
(* The event queue of the full node: hathor/event/event_manager.py, the    *)
(* RocksDB event storage it writes, the PubSub queue that feeds it and the *)
(* parts of HathorManager.start/stop that drive it.                        *)
(*                                                                         *)
(* State that survives the process is what RocksDB holds.  Everything else *)
(* is lost by Stop, Kill and CrashAndExit.  Every database write of the    *)
(* start-up sequence is a step of its own, so the process may be killed    *)
(* between any two of them.                                                *)
(***************************************************************************)
EXTENDS Integers, Sequences, FiniteSets

CONSTANTS MaxVertices,  \* bound: vertices the node ever accepts
          MaxBoots,     \* bound: how many times the process is started
          BatchSize     \* N_LOAD_EVENTS_PER_BATCH

ASSUME EMAssumption == /\ MaxVertices \in Nat
                       /\ MaxBoots \in Nat
                       /\ BatchSize \in Nat \ {0}

NoGroup  == -1   \* group_id None
NoStream == 0    \* stream_id None

EventTypes == {"LOAD_STARTED", "LOAD_FINISHED", "NEW_VERTEX_ACCEPTED", "REORG_STARTED",
               "REORG_FINISHED", "VERTEX_METADATA_CHANGED", "VERTEX_REMOVED",
               "FULL_NODE_CRASHED", "NC_EVENT", "TOKEN_CREATED"}

\* A BaseEvent; vertex is the accepted vertex of a NEW_VERTEX_ACCEPTED and 0 in the others.
Events == [id : Nat, type : EventTypes, group : Nat \cup {NoGroup}, vertex : Nat]

\* _last_event = None.  Its id makes "0 if last is None else last.id + 1" one expression.
NoEvent == [id |-> -1, type |-> "NONE", group |-> NoGroup, vertex |-> 0]

Keys == {"NETWORK_NEW_TX_ACCEPTED", "REORG_STARTED", "REORG_FINISHED", "CONSENSUS_TX_UPDATE",
         "CONSENSUS_TX_REMOVED", "NC_EVENT", "NC_EXEC_SUCCESS",
         "TOKEN_CREATED"}  \* the rest of _handle_hathor_event once NEW_VERTEX_ACCEPTED is saved

\* A queued PubSub call; token says that the transaction of the call creates a token.
Items == [key : Keys, vertex : Nat, token : BOOLEAN]

Failures == {"group_open", "no_group", "nc_meta", "bad_id", "cannot_start"}

VARIABLES
  log,        \* RocksDB column family event
  dbGroup,    \* RocksDB last-group-id
  nodeState,  \* RocksDB node-state
  dbStream,   \* RocksDB stream-id
  enabled,    \* RocksDB event-queue-enabled
  runFlag,    \* RocksDB manager_running attribute
  crashFlag,  \* RocksDB full_node_crashed attribute
  accepted,   \* number of vertices in the vertex storage; they are 1 .. accepted
  pc,         \* where HathorManager.start is, "ready" when the reactor runs, "down" when there is no process
  emOn,       \* EventManager._is_running
  lastEvent,  \* EventManager._last_event
  lastGroup,  \* EventManager._last_existing_group_id
  reload,     \* EventManager._should_reload_events()
  batch,      \* load phase: events yielded and not yet written
  pos,        \* load phase: vertices already turned into events
  queue,      \* PubSubManager.queue
  draining,   \* PubSubManager._call_next is in its loop
  ncOk,       \* the executed contract call still has nc_execution = SUCCESS
  raised,     \* assertions and errors raised so far
  boots,      \* process starts so far; also the source of fresh stream ids
  lost        \* history: vertices whose announcement was still queued when the process ended

dbVars == <<log, dbGroup, nodeState, dbStream, enabled>>
flagVars == <<runFlag, crashFlag>>
emVars == <<emOn, lastEvent, lastGroup, reload, batch, pos>>
psVars == <<queue, draining, ncOk>>
vars == <<dbVars, flagVars, accepted, pc, emVars, psVars, raised, boots, lost>>

-----------------------------------------------------------------------------
(* Events and the storage *)

\* EventStorage.get_last_event()
StorageLast == IF log = <<>> THEN NoEvent ELSE log[Len(log)]

\* _event_group_is_closed
GroupClosed(last) == \/ last.group = NoGroup
                     \/ last.type = "REORG_FINISHED"

\* _handle_event_creation: group start, group end and every other event.
CreateEvent(last, type, v) ==
  [id     |-> last.id + 1,
   type   |-> type,
   group  |-> CASE type = "REORG_STARTED"  -> lastGroup + 1
                [] type = "REORG_FINISHED" -> last.group
                [] OTHER -> IF GroupClosed(last) THEN NoGroup ELSE last.group,
   vertex |-> v]

\* save_event for one event, and the assignments _handle_event makes around it.
SaveEvent(e) ==
  /\ log' = Append(log, e)
  /\ dbGroup' = IF e.group # NoGroup THEN e.group ELSE dbGroup
  /\ lastEvent' = e
  /\ lastGroup' = IF e.type = "REORG_STARTED" THEN e.group ELSE lastGroup

\* _save_event raises ValueError unless the ids are sequential.
BadId(e) == e.id # StorageLast.id + 1

\* _handle_event outside PubSub: LOAD_STARTED and LOAD_FINISHED.
HandleLoadEvent(type) ==
  LET e == CreateEvent(lastEvent, type, 0)
  IN  IF BadId(e) THEN /\ raised' = raised \cup {"bad_id"}
                       /\ UNCHANGED <<log, dbGroup, lastEvent, lastGroup>>
                  ELSE SaveEvent(e) /\ UNCHANGED raised

-----------------------------------------------------------------------------
(* HathorManager.__init__, HathorManager.start and EventManager.start *)

Init ==
  /\ log = <<>> /\ dbGroup = NoGroup /\ nodeState = "NONE" /\ dbStream = NoStream
  /\ enabled = FALSE /\ runFlag = FALSE /\ crashFlag = FALSE
  /\ accepted = 0 /\ pc = "down"
  /\ emOn = FALSE /\ lastEvent = NoEvent /\ lastGroup = NoGroup /\ reload = FALSE
  /\ batch = <<>> /\ pos = 0
  /\ queue = <<>> /\ draining = FALSE /\ ncOk = FALSE
  /\ raised = {} /\ boots = 0 /\ lost = {}

\* Mutant: a node that ran with the event queue may be started without it.
MayBootDisabledToo(enable) ==
  /\ pc = "down" /\ boots < MaxBoots
  /\ ~crashFlag /\ ~runFlag

\* The checks that let a process start at all: HathorManager.__init__ and the flags of start().
MayBoot(enable) ==
  /\ pc = "down" /\ boots < MaxBoots
  /\ ~(enabled /\ ~enable)
  /\ ~crashFlag /\ ~runFlag

\* Event queue disabled: nobody subscribes, load_started and load_finished return at once.
BootDisabled ==
  /\ MayBoot(FALSE)
  /\ boots' = boots + 1 /\ enabled' = FALSE
  /\ runFlag' = TRUE /\ pc' = "ready"
  /\ UNCHANGED <<log, dbGroup, nodeState, dbStream, crashFlag, accepted, emVars, psVars, raised, lost>>

\* Mutant: the stream id outlives the events.
KeepStreamId == dbGroup' = NoGroup /\ UNCHANGED dbStream

\* reset_events deletes the keys of the meta column family first.
DeleteIds == dbGroup' = NoGroup /\ dbStream' = NoStream

\* EventManager.start with _should_reload_events: the first writes of reset_events.
BootReload ==
  /\ MayBoot(TRUE) /\ nodeState \in {"NONE", "LOAD"}
  /\ boots' = boots + 1 /\ enabled' = TRUE
  /\ reload' = TRUE
  /\ DeleteIds
  /\ pc' = "resetting"
  /\ UNCHANGED <<log, nodeState, flagVars, accepted, emOn, lastEvent, lastGroup, batch, pos, psVars, raised, lost>>

\* reset_events: the column family of the events is dropped.
DropEvents ==
  /\ pc = "resetting"
  /\ log' = <<>> /\ pc' = "reset"
  /\ lost' = {}
  /\ UNCHANGED <<dbGroup, nodeState, dbStream, enabled, flagVars, accepted, emVars, psVars, raised, boots>>

\* A fresh uuid4 is saved, then the manager runs.
SaveStreamId ==
  /\ pc = "reset"
  /\ dbStream' = boots /\ emOn' = TRUE /\ pc' = "starting"
  /\ UNCHANGED <<log, dbGroup, nodeState, enabled, flagVars, accepted, lastEvent, lastGroup, reload, batch, pos,
                 psVars, raised, boots, lost>>


\* Mutant: the last event is not read back.
RestoreGroupOnly == lastGroup' = dbGroup /\ UNCHANGED lastEvent

\* EventManager.start takes up where the storage ends.
Restore == lastEvent' = StorageLast /\ lastGroup' = dbGroup

\* EventManager.start without reload: not_none(stream_id) and _assert_closed_event_group may raise.
BootResume ==
  /\ MayBoot(TRUE) /\ nodeState = "SYNC"
  /\ boots' = boots + 1 /\ enabled' = TRUE
  /\ IF dbStream # NoStream /\ GroupClosed(StorageLast)
       THEN /\ Restore /\ emOn' = TRUE /\ pc' = "starting" /\ UNCHANGED raised
       ELSE /\ raised' = raised \cup {"cannot_start"}
            /\ UNCHANGED <<lastEvent, lastGroup, emOn, pc>>
  /\ UNCHANGED <<log, dbGroup, nodeState, dbStream, flagVars, accepted, reload, batch, pos, psVars, lost>>

\* load_started: the event first, the node state after it.
LoadStarted ==
  /\ pc = "starting" /\ HandleLoadEvent("LOAD_STARTED")
  /\ pc' = "load_started"
  /\ UNCHANGED <<nodeState, dbStream, enabled, flagVars, accepted, emOn, reload, batch, pos, psVars, boots, lost>>

SaveNodeStateLoad ==
  /\ pc = "load_started"
  /\ nodeState' = "LOAD" /\ pc' = "loading"
  /\ UNCHANGED <<log, dbGroup, dbStream, enabled, flagVars, accepted, emVars, psVars, raised, boots, lost>>

\* Mutant: the load phase runs on every start.
AlwaysLoads == pos < accepted

\* The load phase makes events only when the events are reloaded.
HasVertexToLoad == reload /\ pos < accepted

\* handle_load_phase_vertices: one vertex of the topological iterator becomes an event of the batch.  A full
\* batch is written at once, the last one when the iterator ends (FlushBatch).
LoadVertex ==
  LET e == CreateEvent(lastEvent, "NEW_VERTEX_ACCEPTED", pos + 1)
      b == Append(batch, e)
  IN /\ pc = "loading" /\ HasVertexToLoad
     /\ pos' = pos + 1 /\ lastEvent' = e
     /\ IF Len(b) = BatchSize THEN log' = log \o b /\ batch' = <<>>
                              ELSE batch' = b /\ UNCHANGED log
     /\ UNCHANGED <<dbGroup, nodeState, dbStream, enabled, flagVars, accepted, pc, emOn, lastGroup, reload, psVars,
                    raised, boots, lost>>

FlushBatch ==
  /\ pc = "loading" /\ reload /\ pos = accepted /\ batch # <<>>
  /\ log' = log \o batch /\ batch' = <<>>
  /\ UNCHANGED <<dbGroup, nodeState, dbStream, enabled, flagVars, accepted, pc, emOn, lastEvent, lastGroup, reload, pos,
                 psVars, raised, boots, lost>>

\* load_finished: the event first, the node state after it.
LoadFinished ==
  /\ pc = "loading" /\ (reload => pos = accepted /\ batch = <<>>)
  /\ HandleLoadEvent("LOAD_FINISHED")
  /\ pc' = "load_finished"
  /\ UNCHANGED <<nodeState, dbStream, enabled, flagVars, accepted, emOn, reload, batch, pos, psVars, boots, lost>>

SaveNodeStateSync ==
  /\ pc = "load_finished"
  /\ nodeState' = "SYNC" /\ pc' = "initialized"
  /\ UNCHANGED <<log, dbGroup, dbStream, enabled, flagVars, accepted, emVars, psVars, raised, boots, lost>>

\* tx_storage.start_running_manager, the last line of HathorManager.start.
StartRunningManager ==
  /\ pc = "initialized"
  /\ runFlag' = TRUE /\ pc' = "ready"
  /\ UNCHANGED <<dbVars, crashFlag, accepted, emVars, psVars, raised, boots, lost>>

-----------------------------------------------------------------------------
(* The reactor runs: vertices are accepted and publish, PubSub drains *)

Item(key, v, token) == [key |-> key, vertex |-> v, token |-> token]

When(b, calls) == IF b THEN calls ELSE <<>>

\* What ConsensusAlgorithm.unsafe_update and VertexHandler._post_consensus publish for one vertex, in order.  A
\* block may cause a reorg, remove invalid mempool transactions then, and execute a contract call that creates a
\* token; a transaction may itself create a token.
Published(v, reorg, removed, nc, token) ==
  When(reorg, <<Item("REORG_STARTED", 0, FALSE)>>)
    \o <<Item("CONSENSUS_TX_UPDATE", 0, FALSE)>>
    \o When(nc, <<Item("NC_EXEC_SUCCESS", 0, token), Item("NC_EVENT", 0, FALSE)>>)
    \o When(removed, <<Item("CONSENSUS_TX_REMOVED", 0, FALSE)>>)
    \o When(reorg, <<Item("REORG_FINISHED", 0, FALSE)>>)
    \o <<Item("NETWORK_NEW_TX_ACCEPTED", v, token /\ ~nc)>>

\* A vertex is saved and everything it publishes is queued, in one reactor turn.  The call executed by the best
\* chain is executed again only after a reorg removed it (remove_first_block_markers).
NewVertex ==
  \E reorg, removed, nc, token \in BOOLEAN :
    /\ pc = "ready" /\ ~draining /\ accepted < MaxVertices
    /\ reorg => accepted > 0
    /\ removed => reorg
    /\ nc => reorg \/ ~ncOk
    /\ token => nc \/ ~reorg
    /\ accepted' = accepted + 1
    /\ queue' = IF emOn THEN queue \o Published(accepted + 1, reorg, removed, nc, token) ELSE queue
    /\ ncOk' = (nc \/ (ncOk /\ ~reorg))
    /\ UNCHANGED <<dbVars, flagVars, pc, emVars, draining, raised, boots, lost>>

\* PubSubManager._call_next starts: it drains the queue in one reactor turn.
CallNext ==
  /\ pc = "ready" /\ ~draining /\ queue # <<>>
  /\ draining' = TRUE
  /\ UNCHANGED <<dbVars, flagVars, accepted, pc, emVars, queue, ncOk, raised, boots, lost>>

\* Mutant: the mapping has no entry for removed transactions.
TypeOfNoRemoved(key) ==
  CASE key = "NETWORK_NEW_TX_ACCEPTED" -> "NEW_VERTEX_ACCEPTED"
    [] key = "CONSENSUS_TX_UPDATE"     -> "VERTEX_METADATA_CHANGED"
    [] key = "NC_EXEC_SUCCESS"         -> "TOKEN_CREATED"
    [] OTHER -> key

\* EventType.from_hathor_event, and the TOKEN_CREATED of _emit_nc_token_created_events.
TypeOf(key) ==
  CASE key = "NETWORK_NEW_TX_ACCEPTED" -> "NEW_VERTEX_ACCEPTED"
    [] key = "CONSENSUS_TX_UPDATE"     -> "VERTEX_METADATA_CHANGED"
    [] key = "CONSENSUS_TX_REMOVED"    -> "VERTEX_REMOVED"
    [] key = "NC_EXEC_SUCCESS"         -> "TOKEN_CREATED"
    [] OTHER -> key

\* The assertion or error that handling a call raises, if any.
HandlerFailure(item) ==
  CASE item.key = "REORG_STARTED" /\ ~GroupClosed(lastEvent) -> "group_open"
    [] item.key = "REORG_FINISHED" /\ GroupClosed(lastEvent) -> "no_group"
    [] item.key = "NC_EXEC_SUCCESS" /\ ~ncOk -> "nc_meta"
    [] lastEvent.id # StorageLast.id -> "bad_id"
    [] OTHER -> "none"

\* NC_EXEC_SUCCESS has no event of its own: without a created token nothing is emitted.
Emits(item) == item.key = "NC_EXEC_SUCCESS" => item.token

\* NEW_VERTEX_ACCEPTED of a TokenCreationTransaction is followed by its TOKEN_CREATED.
HasMore(item) == item.key = "NETWORK_NEW_TX_ACCEPTED" /\ item.token


\* The loop of _call_next goes on while the queue is not empty.
KeepsDraining(q) == q # <<>>

\* One _handle_event inside the loop of _call_next.
HandleEvent ==
  LET item == Head(queue)
  IN /\ draining /\ HandlerFailure(item) = "none" /\ Emits(item)
     /\ SaveEvent(CreateEvent(lastEvent, TypeOf(item.key), item.vertex))
     /\ queue' = IF HasMore(item) THEN <<Item("TOKEN_CREATED", 0, FALSE)>> \o Tail(queue) ELSE Tail(queue)
     /\ draining' = KeepsDraining(queue')
     /\ UNCHANGED <<nodeState, dbStream, enabled, flagVars, accepted, pc, emOn, reload, batch, pos, ncOk, raised,
                    boots, lost>>

HandleNothing ==
  LET item == Head(queue)
  IN /\ draining /\ HandlerFailure(item) = "none" /\ ~Emits(item)
     /\ queue' = Tail(queue) /\ draining' = KeepsDraining(queue')
     /\ UNCHANGED <<dbVars, flagVars, accepted, pc, emVars, ncOk, raised, boots, lost>>

\* The handler raises: the call is lost, the loop ends and the rest of the queue is scheduled again.
HandleRaise ==
  LET item == Head(queue)
  IN /\ draining /\ HandlerFailure(item) # "none"
     /\ raised' = raised \cup {HandlerFailure(item)}
     /\ queue' = Tail(queue) /\ draining' = FALSE
     /\ UNCHANGED <<dbVars, flagVars, accepted, pc, emVars, ncOk, boots, lost>>

-----------------------------------------------------------------------------
(* The ways a process ends, and the operator's reset *)

\* Memory is gone, queued calls included.
ProcessEnds ==
  /\ pc' = "down" /\ emOn' = FALSE /\ lastEvent' = NoEvent /\ lastGroup' = NoGroup /\ reload' = FALSE
  /\ batch' = <<>> /\ pos' = 0 /\ queue' = <<>> /\ draining' = FALSE
  /\ lost' = lost \cup ({queue[i].vertex : i \in DOMAIN queue} \ {0})
  /\ UNCHANGED ncOk

\* reactor.stop, then HathorManager.stop as the "after shutdown" trigger: the reactor no longer runs, so calls that
\* are still queued are never made.
Stop ==
  /\ pc = "ready" /\ ~draining
  /\ runFlag' = FALSE
  /\ ProcessEnds
  /\ UNCHANGED <<dbVars, crashFlag, accepted, raised, boots>>

\* The process disappears at any point.
Kill ==
  /\ pc # "down"
  /\ ProcessEnds
  /\ UNCHANGED <<dbVars, flagVars, accepted, raised, boots>>

\* ExecutionManager.crash_and_exit out of the vertex handler: the callbacks of EventManager and of the storage.
CrashAndExit ==
  /\ pc = "ready" /\ ~draining
  /\ LET e == CreateEvent(lastEvent, "FULL_NODE_CRASHED", 0)
     IN  IF emOn /\ ~BadId(e)
           THEN /\ log' = Append(log, e)
                /\ dbGroup' = IF e.group # NoGroup THEN e.group ELSE dbGroup
           ELSE UNCHANGED <<log, dbGroup>>
  /\ crashFlag' = TRUE
  /\ ProcessEnds
  /\ UNCHANGED <<nodeState, dbStream, enabled, runFlag, accepted, raised, boots>>

\* hathor-cli reset-event-queue on a stopped node, a process of its own: reset_all is reset_events ...
ResetEvents ==
  /\ pc = "down" /\ boots < MaxBoots
  /\ DeleteIds /\ log' = <<>>
  /\ pc' = "cli"
  /\ UNCHANGED <<nodeState, enabled, flagVars, accepted, emVars, psVars, raised, boots, lost>>

\* ... followed by the deletion of the node state and of the enabled flag.
ResetNodeState ==
  /\ pc = "cli"
  /\ nodeState' = "NONE" /\ enabled' = FALSE
  /\ pc' = "down"
  /\ UNCHANGED <<log, dbGroup, dbStream, flagVars, accepted, emVars, psVars, raised, boots, lost>>

Boot == BootDisabled \/ BootReload \/ BootResume
Startup == DropEvents \/ SaveStreamId \/ LoadStarted \/ SaveNodeStateLoad \/ LoadVertex \/ FlushBatch
             \/ LoadFinished \/ SaveNodeStateSync \/ StartRunningManager
Drain == CallNext \/ HandleEvent \/ HandleNothing \/ HandleRaise

Next == Boot \/ Startup \/ NewVertex \/ Drain \/ Stop \/ Kill \/ CrashAndExit \/ ResetEvents \/ ResetNodeState

Spec == Init /\ [][Next]_vars

-----------------------------------------------------------------------------
(* Properties *)

\* The variables keep their types.
TypeOK ==
  /\ log \in Seq(Events)
  /\ dbGroup \in Nat \cup {NoGroup} /\ lastGroup \in Nat \cup {NoGroup}
  /\ nodeState \in {"NONE", "LOAD", "SYNC"}
  /\ dbStream \in Nat /\ boots \in Nat /\ accepted \in Nat /\ pos \in Nat
  /\ enabled \in BOOLEAN /\ runFlag \in BOOLEAN /\ crashFlag \in BOOLEAN
  /\ emOn \in BOOLEAN /\ reload \in BOOLEAN /\ draining \in BOOLEAN /\ ncOk \in BOOLEAN
  /\ pc \in {"down", "cli", "resetting", "reset", "starting", "load_started", "loading", "load_finished",
             "initialized", "ready"}
  /\ lastEvent \in Events \cup {NoEvent}
  /\ batch \in Seq(Events)
  /\ queue \in Seq(Items)
  /\ raised \subseteq Failures
  /\ lost \subseteq Nat

\* Event i of the log continues the log correctly: a group starts with a REORG_STARTED whose group id is new, goes on
\* without interruption and ends with its REORG_FINISHED; outside a group events carry no group id.
GroupOk(i) ==
  LET e    == log[i]
      prev == IF i = 1 THEN NoEvent ELSE log[i - 1]
  IN  IF e.type = "REORG_STARTED"
        THEN GroupClosed(prev) /\ e.group # NoGroup /\ \A j \in 1 .. i - 1 : log[j].group < e.group
        ELSE e.group = IF GroupClosed(prev) THEN NoGroup ELSE prev.group



\* No assertion of EventManager and no ValueError of the storage is ever raised: groups open and close in turn and
\* the ids the manager makes are the ids the storage expects.  Left out are the two failures stated on their own:
\* the stale metadata assertion, and the refusal to start after an interrupted reset (CanResume).
HandlersNeverRaise == raised \subseteq {"nc_meta", "cannot_start"}

Announced(v) == \E i \in DOMAIN log : log[i].type = "NEW_VERTEX_ACCEPTED" /\ log[i].vertex = v

\* Whenever the node may resume an event stream, the log announces every vertex of the storage, except those whose
\* announcement was queued when the process was stopped; vertices synced while the queue was disabled and vertices
\* of an interrupted load are always covered by a reload.
GapsOnlyFromStop ==
  pc = "down" /\ nodeState = "SYNC" /\ dbStream # NoStream /\ ~runFlag /\ ~crashFlag
    => \A v \in 1 .. accepted : Announced(v) \/ v \in lost

\* No vertex is announced twice in a log: a reload never adds to the events of an earlier run.
AnnouncedOnce ==
  \A i, j \in DOMAIN log :
    log[i].vertex # 0 /\ log[i].vertex = log[j].vertex => i = j

\* A stream id names one append-only log.  Events are only ever dropped while no stream id is stored, and a stream id
\* that was given up is not used again, so a client that compares stream ids never takes event n of one run for
\* event n of another.
StreamAppendOnly ==
  [][/\ dbStream # NoStream /\ dbStream' = dbStream
          => Len(log) <= Len(log') /\ \A i \in DOMAIN log : log'[i] = log[i]
     /\ dbStream' # dbStream /\ dbStream' # NoStream => log' = <<>>]_vars

\* docs/event-queue-feature.md promises that a restarted node continues "from where it stopped" and that an event gap
\* in the database is not allowed.
NoEventGap ==
  pc = "down" /\ nodeState = "SYNC" /\ dbStream # NoStream /\ ~runFlag /\ ~crashFlag
    => \A v \in 1 .. accepted : Announced(v)

\* _handle_nc_token_creation_events asserts that the transaction it is called for still has nc_execution = SUCCESS.
NcSuccessStillHolds == "nc_meta" \notin raised

=============================================================================
