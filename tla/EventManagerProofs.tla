------------------------- MODULE EventManagerProofs -------------------------
(***************************************************************************)
(* Proofs about EventManager for every number of vertices and of process   *)
(* starts and for every batch size.                                        *)
(***************************************************************************)
EXTENDS EventManager, SequenceTheorems, TLAPS

LEMMA CreateEventType ==
  ASSUME NEW last \in Events \cup {NoEvent}, NEW type \in EventTypes, NEW v \in Nat,
         lastGroup \in Nat \cup {NoGroup}
  PROVE  CreateEvent(last, type, v) \in Events
<1> last.id \in Nat \cup {-1} /\ last.group \in Nat \cup {-1}
  BY DEF Events, NoEvent, NoGroup
<1> lastGroup + 1 \in Nat
  BY DEF NoGroup
<1> QED
  BY DEF CreateEvent, Events, NoGroup, GroupClosed

LEMMA ShortSeq ==
  ASSUME NEW S, NEW x \in S, NEW y \in S
  PROVE  <<x>> \in Seq(S) /\ <<x, y>> \in Seq(S)
OBVIOUS

LEMMA PublishedType ==
  ASSUME NEW v \in Nat, NEW reorg \in BOOLEAN, NEW removed \in BOOLEAN, NEW nc \in BOOLEAN, NEW token \in BOOLEAN
  PROVE  Published(v, reorg, removed, nc, token) \in Seq(Items)
<1>1. ASSUME NEW key \in Keys, NEW u \in Nat, NEW t \in BOOLEAN
      PROVE  Item(key, u, t) \in Items
  BY DEF Item, Items
<1>2. /\ Item("REORG_STARTED", 0, FALSE) \in Items /\ Item("CONSENSUS_TX_UPDATE", 0, FALSE) \in Items
      /\ Item("NC_EXEC_SUCCESS", 0, token) \in Items /\ Item("NC_EVENT", 0, FALSE) \in Items
      /\ Item("CONSENSUS_TX_REMOVED", 0, FALSE) \in Items /\ Item("REORG_FINISHED", 0, FALSE) \in Items
      /\ Item("NETWORK_NEW_TX_ACCEPTED", v, token /\ ~nc) \in Items
  <2>1. FALSE \in BOOLEAN /\ (token /\ ~nc) \in BOOLEAN
    BY Zenon
  <2>2. 0 \in Nat
    OBVIOUS
  <2>3. /\ "REORG_STARTED" \in Keys /\ "CONSENSUS_TX_UPDATE" \in Keys /\ "NC_EXEC_SUCCESS" \in Keys
        /\ "NC_EVENT" \in Keys /\ "CONSENSUS_TX_REMOVED" \in Keys /\ "REORG_FINISHED" \in Keys
        /\ "NETWORK_NEW_TX_ACCEPTED" \in Keys
    BY DEF Keys
  <2> QED
    BY <1>1, <2>1, <2>2, <2>3, Zenon
<1>3. \A b \in BOOLEAN : \A s \in Seq(Items) : When(b, s) \in Seq(Items)
  BY DEF When
<1>4. /\ When(reorg, <<Item("REORG_STARTED", 0, FALSE)>>) \in Seq(Items)
      /\ <<Item("CONSENSUS_TX_UPDATE", 0, FALSE)>> \in Seq(Items)
      /\ When(nc, <<Item("NC_EXEC_SUCCESS", 0, token), Item("NC_EVENT", 0, FALSE)>>) \in Seq(Items)
      /\ When(removed, <<Item("CONSENSUS_TX_REMOVED", 0, FALSE)>>) \in Seq(Items)
      /\ When(reorg, <<Item("REORG_FINISHED", 0, FALSE)>>) \in Seq(Items)
      /\ <<Item("NETWORK_NEW_TX_ACCEPTED", v, token /\ ~nc)>> \in Seq(Items)
  <2>1. /\ <<Item("REORG_STARTED", 0, FALSE)>> \in Seq(Items)
        /\ <<Item("CONSENSUS_TX_UPDATE", 0, FALSE)>> \in Seq(Items)
        /\ <<Item("NC_EXEC_SUCCESS", 0, token), Item("NC_EVENT", 0, FALSE)>> \in Seq(Items)
        /\ <<Item("CONSENSUS_TX_REMOVED", 0, FALSE)>> \in Seq(Items)
        /\ <<Item("REORG_FINISHED", 0, FALSE)>> \in Seq(Items)
        /\ <<Item("NETWORK_NEW_TX_ACCEPTED", v, token /\ ~nc)>> \in Seq(Items)
    BY <1>2, ShortSeq, Zenon
  <2> QED
    BY <1>3, <2>1, Zenon
<1>5. \A s, t \in Seq(Items) : s \o t \in Seq(Items)
  OBVIOUS
<1> QED
  BY <1>4, <1>5, Zenon DEF Published

\* PubSub is only in its drain loop while there are calls left.
DrainingHasWork == draining => queue # <<>>

LEMMA DrainingInvariant == Spec => []DrainingHasWork
<1>1. Init => DrainingHasWork
  BY DEF Init, DrainingHasWork
<1>2. DrainingHasWork /\ [Next]_vars => DrainingHasWork'
  <2> SUFFICES ASSUME DrainingHasWork, [Next]_vars PROVE DrainingHasWork'
    OBVIOUS
  <2> USE DEF DrainingHasWork
  <2>1. CASE Boot
    BY <2>1 DEF Boot, BootDisabled, BootReload, BootResume, psVars
  <2>2. CASE Startup
    BY <2>2 DEF Startup, DropEvents, SaveStreamId, LoadStarted, SaveNodeStateLoad, LoadVertex, FlushBatch,
                LoadFinished, SaveNodeStateSync, StartRunningManager, psVars
  <2>3. CASE NewVertex
    <3>1. draining' = draining /\ ~draining
      BY <2>3, Zenon DEF NewVertex
    <3> QED
      BY <3>1
  <2>4. CASE Drain
    BY <2>4 DEF Drain, CallNext, HandleEvent, HandleNothing, HandleRaise, KeepsDraining
  <2>5. CASE Stop \/ Kill \/ CrashAndExit
    BY <2>5 DEF Stop, Kill, CrashAndExit, ProcessEnds
  <2>6. CASE ResetEvents \/ ResetNodeState
    BY <2>6 DEF ResetEvents, ResetNodeState, psVars
  <2>7. CASE UNCHANGED vars
    BY <2>7 DEF vars, psVars
  <2> QED
    BY <2>1, <2>2, <2>3, <2>4, <2>5, <2>6, <2>7 DEF Next
<1> QED
  BY <1>1, <1>2, PTL DEF Spec

\* The variables keep their types.
THEOREM TypeCorrect == Spec => []TypeOK
<1>1. ASSUME Init PROVE TypeOK
  <2>1. /\ enabled \in BOOLEAN /\ runFlag \in BOOLEAN /\ crashFlag \in BOOLEAN
        /\ emOn \in BOOLEAN /\ reload \in BOOLEAN /\ draining \in BOOLEAN /\ ncOk \in BOOLEAN
    BY <1>1, Zenon DEF Init
  <2> QED
    BY <1>1, <2>1 DEF Init, TypeOK, NoGroup, NoStream
<1>2. TypeOK /\ DrainingHasWork /\ [Next]_vars => TypeOK'
  <2> SUFFICES ASSUME TypeOK, DrainingHasWork, [Next]_vars PROVE TypeOK'
    OBVIOUS
  <2> USE EMAssumption DEF TypeOK
  <2>1. CASE Boot
    <3>1. CASE BootDisabled
      <4>1. enabled' \in BOOLEAN
        BY <3>1, Zenon DEF BootDisabled
      <4> QED
        BY <3>1, <4>1 DEF BootDisabled, emVars, psVars
    <3>2. CASE BootReload
      BY <3>2 DEF BootReload, DeleteIds, flagVars, psVars, NoGroup, NoStream
    <3>3. CASE BootResume
      <4>1. StorageLast \in Events \cup {NoEvent}
        BY DEF StorageLast
      <4>2. /\ lastEvent' \in Events \cup {NoEvent} /\ lastGroup' \in Nat \cup {NoGroup}
            /\ emOn' \in BOOLEAN /\ raised' \subseteq Failures
        <5>1. CASE dbStream # NoStream /\ GroupClosed(StorageLast)
          BY <3>3, <4>1, <5>1 DEF BootResume, Restore
        <5>2. CASE ~(dbStream # NoStream /\ GroupClosed(StorageLast))
          BY <3>3, <5>2 DEF BootResume, Failures
        <5> QED
          BY <5>1, <5>2
      <4>3. pc' \in {"starting", pc}
        BY <3>3 DEF BootResume
      <4> QED
        BY <3>3, <4>2, <4>3 DEF BootResume, flagVars, psVars
    <3> QED
      BY <2>1, <3>1, <3>2, <3>3 DEF Boot
  <2>2. CASE Startup
    <3>1. ASSUME NEW type \in {"LOAD_STARTED", "LOAD_FINISHED"}, HandleLoadEvent(type)
          PROVE  /\ log' \in Seq(Events) /\ dbGroup' \in Nat \cup {NoGroup} /\ lastGroup' \in Nat \cup {NoGroup}
                 /\ lastEvent' \in Events \cup {NoEvent} /\ raised' \subseteq Failures
      <4> DEFINE e == CreateEvent(lastEvent, type, 0)
      <4>1. e \in Events
        BY CreateEventType DEF EventTypes
      <4> HIDE DEF e
      <4>2. HandleLoadEvent(type) => \/ SaveEvent(e) /\ UNCHANGED raised
                                     \/ raised' = raised \cup {"bad_id"} /\ UNCHANGED <<log, dbGroup, lastEvent, lastGroup>>
        BY DEF HandleLoadEvent, e
      <4>3. CASE SaveEvent(e) /\ UNCHANGED raised
        <5>1. e.group \in Nat \cup {NoGroup}
          BY <4>1 DEF Events
        <5> QED
          BY <4>1, <4>3, <5>1 DEF SaveEvent
      <4>4. CASE raised' = raised \cup {"bad_id"} /\ UNCHANGED <<log, dbGroup, lastEvent, lastGroup>>
        BY <4>4 DEF Failures
      <4> QED
        BY <3>1, <4>2, <4>3, <4>4
    <3>2. CASE DropEvents
      BY <3>2 DEF DropEvents, flagVars, emVars, psVars
    <3>3. CASE SaveStreamId
      BY <3>3 DEF SaveStreamId, flagVars, psVars
    <3>4. CASE LoadStarted
      BY <3>4, <3>1 DEF LoadStarted, flagVars, psVars
    <3>5. CASE SaveNodeStateLoad
      BY <3>5 DEF SaveNodeStateLoad, flagVars, emVars, psVars
    <3>6. CASE LoadVertex
      <4> DEFINE e == CreateEvent(lastEvent, "NEW_VERTEX_ACCEPTED", pos + 1)
                 b == Append(batch, e)
      <4>1. e \in Events
        <5>1. "NEW_VERTEX_ACCEPTED" \in EventTypes /\ pos + 1 \in Nat
          BY DEF EventTypes
        <5> QED
          BY <5>1, CreateEventType
      <4>2. /\ pos' = pos + 1 /\ lastEvent' = e
            /\ (log' = log \o b /\ batch' = <<>>) \/ (batch' = b /\ log' = log)
            /\ UNCHANGED <<dbGroup, nodeState, dbStream, enabled, runFlag, crashFlag, accepted, pc, emOn, lastGroup,
                           reload, queue, draining, ncOk, raised, boots, lost>>
        BY <3>6 DEF LoadVertex, flagVars, psVars
      <4> HIDE DEF e
      <4>3. log' \in Seq(Events) /\ batch' \in Seq(Events)
        <5>1. b \in Seq(Events)
          BY <4>1, AppendProperties
        <5>2. log \o b \in Seq(Events)
          BY <5>1, ConcatProperties
        <5> HIDE DEF b
        <5> QED
          BY <4>2, <5>1, <5>2, EmptySeq
      <4> HIDE DEF b
      <4> QED
        BY <4>1, <4>2, <4>3
    <3>7. CASE FlushBatch
      BY <3>7 DEF FlushBatch, flagVars, psVars
    <3>8. CASE LoadFinished
      BY <3>8, <3>1 DEF LoadFinished, flagVars, psVars
    <3>9. CASE SaveNodeStateSync
      BY <3>9 DEF SaveNodeStateSync, flagVars, emVars, psVars
    <3>10. CASE StartRunningManager
      BY <3>10 DEF StartRunningManager, dbVars, emVars, psVars
    <3> QED
      BY <2>2, <3>2, <3>3, <3>4, <3>5, <3>6, <3>7, <3>8, <3>9, <3>10 DEF Startup
  <2>3. CASE NewVertex
    <3>1. PICK reorg, removed, nc, token \in BOOLEAN :
            /\ accepted' = accepted + 1
            /\ queue' = IF emOn THEN queue \o Published(accepted + 1, reorg, removed, nc, token) ELSE queue
            /\ ncOk' = (nc \/ (ncOk /\ ~reorg))
            /\ UNCHANGED <<dbVars, flagVars, pc, emVars, draining, raised, boots, lost>>
      BY <2>3 DEF NewVertex
    <3>2. Published(accepted + 1, reorg, removed, nc, token) \in Seq(Items)
      BY PublishedType
    <3>3. queue' \in Seq(Items) /\ ncOk' \in BOOLEAN
      BY <3>1, <3>2
    <3> QED
      BY <3>1, <3>3 DEF dbVars, flagVars, emVars
  <2>4. CASE Drain
    <3>1. CASE CallNext
      BY <3>1 DEF CallNext, dbVars, flagVars, emVars
    <3>0. draining => queue # <<>> /\ Head(queue) \in Items /\ Tail(queue) \in Seq(Items)
      BY HeadTailProperties DEF DrainingHasWork
    <3>2. CASE HandleEvent
      <4> DEFINE item == Head(queue)
                 e == CreateEvent(lastEvent, TypeOf(item.key), item.vertex)
      <4>1. item \in Items
        BY <3>0, <3>2 DEF HandleEvent
      <4>2. e \in Events
        <5>1. TypeOf(item.key) \in EventTypes /\ item.vertex \in Nat
          BY <3>2, <4>1 DEF TypeOf, EventTypes, Items, Keys
        <5> QED
          BY <5>1, CreateEventType
      <4>3. e.group \in Nat \cup {NoGroup}
        BY <4>2 DEF Events
      <4>4. Item("TOKEN_CREATED", 0, FALSE) \in Items
        <5>1. FALSE \in BOOLEAN
          BY Zenon
        <5> QED
          BY <5>1 DEF Item, Items, Keys
      <4>5. queue' \in Seq(Items)
        <5>1. <<Item("TOKEN_CREATED", 0, FALSE)>> \in Seq(Items)
          BY <4>4, ShortSeq, Zenon
        <5>2. queue' = <<Item("TOKEN_CREATED", 0, FALSE)>> \o Tail(queue) \/ queue' = Tail(queue)
          BY <3>2 DEF HandleEvent
        <5> QED
          BY <3>0, <3>2, <5>1, <5>2, ConcatProperties DEF HandleEvent
      <4>6. SaveEvent(e) /\ draining' = KeepsDraining(queue')
            /\ UNCHANGED <<nodeState, dbStream, enabled, runFlag, crashFlag, accepted, pc, emOn, reload, batch, pos,
                           ncOk, raised, boots, lost>>
        BY <3>2 DEF HandleEvent, flagVars
      <4> HIDE DEF e
      <4> QED
        BY <4>2, <4>3, <4>5, <4>6 DEF SaveEvent, KeepsDraining
    <3>3. CASE HandleNothing
      BY <3>0, <3>3 DEF HandleNothing, dbVars, flagVars, emVars, KeepsDraining
    <3>4. CASE HandleRaise
      <4>1. HandlerFailure(Head(queue)) \in Failures
        BY <3>4 DEF HandleRaise, HandlerFailure, Failures
      <4>2. draining' \in BOOLEAN
        BY <3>4, Zenon DEF HandleRaise
      <4> QED
        BY <3>0, <3>4, <4>1, <4>2 DEF HandleRaise, dbVars, flagVars, emVars
    <3> QED
      BY <2>4, <3>1, <3>2, <3>3, <3>4 DEF Drain
  <2>5. CASE Stop \/ Kill \/ CrashAndExit
    <3>1. ASSUME ProcessEnds
          PROVE  /\ pc' = "down" /\ lastEvent' = NoEvent /\ lastGroup' \in Nat \cup {NoGroup} /\ emOn' \in BOOLEAN
                 /\ reload' \in BOOLEAN /\ draining' \in BOOLEAN /\ ncOk' \in BOOLEAN
                 /\ batch' \in Seq(Events) /\ queue' \in Seq(Items) /\ pos' \in Nat /\ lost' \subseteq Nat
      <4>1. emOn' \in BOOLEAN /\ reload' \in BOOLEAN /\ draining' \in BOOLEAN
        BY <3>1, Zenon DEF ProcessEnds
      <4>2. {queue[i].vertex : i \in DOMAIN queue} \subseteq Nat
        <5>1. \A i \in DOMAIN queue : queue[i] \in Items
          BY ElementOfSeq, LenProperties
        <5> QED
          BY <5>1 DEF Items
      <4>3. lost' \subseteq Nat
        BY <3>1, <4>2 DEF ProcessEnds
      <4> QED
        BY <3>1, <4>1, <4>3 DEF ProcessEnds, NoGroup
    <3>2. CASE Stop
      <4>1. runFlag' \in BOOLEAN
        BY <3>2, Zenon DEF Stop
      <4> QED
        BY <3>1, <3>2, <4>1 DEF Stop, dbVars
    <3>3. CASE Kill
      BY <3>1, <3>3 DEF Kill, dbVars, flagVars
    <3>4. CASE CrashAndExit
      <4> DEFINE e == CreateEvent(lastEvent, "FULL_NODE_CRASHED", 0)
      <4>1. e \in Events
        BY CreateEventType DEF EventTypes
      <4>2. e.group \in Nat \cup {NoGroup}
        BY <4>1 DEF Events
      <4>3. \/ log' = Append(log, e) /\ dbGroup' = IF e.group # NoGroup THEN e.group ELSE dbGroup
            \/ log' = log /\ dbGroup' = dbGroup
        BY <3>4 DEF CrashAndExit
      <4> HIDE DEF e
      <4>4. log' \in Seq(Events) /\ dbGroup' \in Nat \cup {NoGroup}
        <5>1. Append(log, e) \in Seq(Events)
          BY <4>1, AppendProperties
        <5> QED
          BY <4>2, <4>3, <5>1
      <4> QED
        BY <3>1, <3>4, <4>4 DEF CrashAndExit
    <3> QED
      BY <2>5, <3>2, <3>3, <3>4
  <2>6. CASE ResetEvents \/ ResetNodeState
    <3>1. CASE ResetEvents
      BY <3>1 DEF ResetEvents, DeleteIds, flagVars, emVars, psVars, NoGroup, NoStream
    <3>2. CASE ResetNodeState
      <4>1. enabled' \in BOOLEAN
        BY <3>2, Zenon DEF ResetNodeState
      <4> QED
        BY <3>2, <4>1 DEF ResetNodeState, flagVars, emVars, psVars
    <3> QED
      BY <2>6, <3>1, <3>2
  <2>7. CASE UNCHANGED vars
    BY <2>7 DEF vars, dbVars, flagVars, emVars, psVars
  <2> QED
    BY <2>1, <2>2, <2>3, <2>4, <2>5, <2>6, <2>7 DEF Next
<1> QED
  BY <1>1, <1>2, DrainingInvariant, PTL DEF Spec

-----------------------------------------------------------------------------
(* The order of the writes in reset_events and start. *)

ResetInv == /\ pc \in {"resetting", "reset"} => dbStream = NoStream
            /\ pc = "reset" => log = <<>>
            /\ draining => pc = "ready"

LEMMA ResetInvariant == Spec => []ResetInv
<1>1. Init => ResetInv
  BY DEF Init, ResetInv
<1>2. ResetInv /\ [Next]_vars => ResetInv'
  <2> SUFFICES ASSUME ResetInv, [Next]_vars PROVE ResetInv'
    OBVIOUS
  <2> USE DEF ResetInv
  <2>1. CASE Boot
    BY <2>1 DEF Boot, BootDisabled, BootReload, BootResume, MayBoot, DeleteIds, psVars
  <2>2. CASE Startup
    BY <2>2 DEF Startup, DropEvents, SaveStreamId, LoadStarted, SaveNodeStateLoad, LoadVertex, FlushBatch,
                LoadFinished, SaveNodeStateSync, StartRunningManager, dbVars, psVars
  <2>3. CASE NewVertex
    <3>1. pc' = pc /\ pc = "ready"
      BY <2>3, Zenon DEF NewVertex
    <3> QED
      BY <3>1
  <2>4. CASE Drain
    <3>1. pc' = pc /\ pc = "ready"
      BY <2>4 DEF Drain, CallNext, HandleEvent, HandleNothing, HandleRaise
    <3> QED
      BY <3>1
  <2>5. CASE Stop \/ Kill \/ CrashAndExit
    BY <2>5 DEF Stop, Kill, CrashAndExit, ProcessEnds
  <2>6. CASE ResetEvents \/ ResetNodeState
    BY <2>6 DEF ResetEvents, ResetNodeState, psVars
  <2>7. CASE UNCHANGED vars
    BY <2>7 DEF vars, dbVars, psVars
  <2> QED
    BY <2>1, <2>2, <2>3, <2>4, <2>5, <2>6, <2>7 DEF Next
<1> QED
  BY <1>1, <1>2, PTL DEF Spec

\* A stream id names one append-only log: no step changes or drops an event that was written under the stored stream
\* id, and a stream id is stored only for an empty log.
THEOREM StreamsAreAppendOnly == Spec => StreamAppendOnly
<1> DEFINE Extends == Len(log) <= Len(log') /\ \A i \in DOMAIN log : log'[i] = log[i]
           Step == /\ dbStream # NoStream /\ dbStream' = dbStream => Extends
                   /\ dbStream' # dbStream /\ dbStream' # NoStream => log' = <<>>
<1>1. TypeOK /\ ResetInv /\ [Next]_vars => [Step]_vars
  <2> SUFFICES ASSUME TypeOK, ResetInv, Next PROVE Step
    OBVIOUS
  <2>1. ASSUME log' = log PROVE Extends
    BY <2>1 DEF TypeOK
  <2>2. ASSUME NEW e, log' = Append(log, e) PROVE Extends
    <3>1. log \in Seq(Events \cup {e}) /\ e \in Events \cup {e}
      BY SeqMonotonic DEF TypeOK
    <3> QED
      BY <2>2, <3>1, AppendProperties, LenProperties
  <2>3. ASSUME NEW S, NEW b \in Seq(S), log' = log \o b PROVE Extends
    <3>1. log \in Seq(Events \cup S) /\ b \in Seq(Events \cup S)
      BY SeqMonotonic DEF TypeOK
    <3> QED
      BY <2>3, <3>1, ConcatProperties, LenProperties
  <2>4. log' = log /\ dbStream' = dbStream => Step
    BY <2>1
  <2>5. ASSUME NEW e, log' = Append(log, e), dbStream' = dbStream PROVE Step
    BY <2>2, <2>5
  <2> HIDE DEF Step
  <2>6. CASE BootDisabled \/ BootResume \/ SaveNodeStateLoad \/ SaveNodeStateSync \/ StartRunningManager \/ NewVertex
               \/ CallNext \/ HandleNothing \/ HandleRaise \/ Stop \/ Kill \/ ResetNodeState
    <3>1. log' = log /\ dbStream' = dbStream
      BY <2>6, Zenon DEF BootDisabled, BootResume, SaveNodeStateLoad, SaveNodeStateSync, StartRunningManager, NewVertex,
                  CallNext, HandleNothing, HandleRaise, Stop, Kill, ResetNodeState, dbVars
    <3> QED
      BY <2>4, <3>1
  <2>7. CASE BootReload \/ ResetEvents
    BY <2>7 DEF BootReload, ResetEvents, DeleteIds, Step
  <2>8. CASE DropEvents
    BY <2>8 DEF DropEvents, ResetInv, Step
  <2>9. CASE SaveStreamId
    BY <2>9 DEF SaveStreamId, ResetInv, Step
  <2>10. CASE LoadStarted \/ LoadFinished
    <3>1. PICK type : HandleLoadEvent(type)
      BY <2>10 DEF LoadStarted, LoadFinished
    <3>2. log' = log \/ log' = Append(log, CreateEvent(lastEvent, type, 0))
      BY <3>1 DEF HandleLoadEvent, SaveEvent
    <3>3. dbStream' = dbStream
      BY <2>10 DEF LoadStarted, LoadFinished
    <3> QED
      BY <2>4, <2>5, <3>2, <3>3
  <2>11. CASE LoadVertex
    <3> DEFINE e == CreateEvent(lastEvent, "NEW_VERTEX_ACCEPTED", pos + 1)
    <3>1. Append(batch, e) \in Seq(Events \cup {e})
      BY SeqMonotonic, AppendProperties DEF TypeOK
    <3>2. dbStream' = dbStream /\ (log' = log \/ log' = log \o Append(batch, e))
      BY <2>11 DEF LoadVertex
    <3> QED
      BY <2>1, <2>3, <3>1, <3>2 DEF Step
  <2>12. CASE FlushBatch
    BY <2>3, <2>12 DEF FlushBatch, TypeOK, Step
  <2>13. CASE HandleEvent
    BY <2>5, <2>13 DEF HandleEvent, SaveEvent
  <2>14. CASE CrashAndExit
    <3>1. log' = log \/ log' = Append(log, CreateEvent(lastEvent, "FULL_NODE_CRASHED", 0))
      BY <2>14 DEF CrashAndExit
    <3> QED
      BY <2>4, <2>5, <2>14, <3>1 DEF CrashAndExit
  <2> QED
    BY <2>6, <2>7, <2>8, <2>9, <2>10, <2>11, <2>12, <2>13, <2>14 DEF Next, Boot, Startup, Drain
<1> QED
  BY <1>1, TypeCorrect, ResetInvariant, PTL DEF Spec, StreamAppendOnly

=============================================================================
