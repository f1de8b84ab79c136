--------------------------- MODULE EventWebsocket ---------------------------
(***************************************************************************)
(* The websocket that streams the event queue to clients: the factory      *)
(* (hathor/event/websocket/factory.py) and one protocol object for each    *)
(* connection (hathor/event/websocket/protocol.py).                        *)
(*                                                                         *)
(* The stored events of a stream are 0 .. size - 1.  Start, Emit and Stop  *)
(* are what the event manager does to the log and to the factory: a start  *)
(* either resumes the stored stream or drops the log and opens a new       *)
(* stream, whose load phase ends before the reactor accepts connections.   *)
(* A client may send any request at any time.                              *)
(***************************************************************************)
EXTENDS Integers, Sequences

CONSTANT Clients

None == -1            \* no event id
Ids == Nat \cup {None}

Requests == [type : {"START_STREAM"}, id : Ids, window : Nat]
                \cup [type : {"ACK"}, id : Nat, window : Nat] \cup [type : {"STOP_STREAM"}]

InvalidTypes == {"STREAM_IS_ACTIVE", "STREAM_IS_INACTIVE", "ACK_TOO_SMALL", "ACK_TOO_LARGE"}
Responses == [id : Nat, latest : Ids, stream : Nat] \cup [error : InvalidTypes]

\* The protocol object of a client: the last event sent and the last one acknowledged,
\* the window, the send_next_event_to_connection calls scheduled with callLater, and the
\* responses that the transport has not delivered yet.
Connections == [lastSent : Ids, ack : Ids, window : Nat, calls : Nat, out : Seq(Responses)]
NewConnection == [lastSent |-> None, ack |-> None, window |-> 0, calls |-> 0, out |-> <<>>]

VARIABLES
    running,      \* the factory is running
    stream,       \* the stream id, 0 when there is none
    size,         \* the number of stored events
    latest,       \* _latest_event_id of the factory
    connections,  \* the registered clients
    active,       \* the clients whose _stream_is_active is set
    conn          \* the protocol object of each client

vars == <<running, stream, size, latest, connections, active, conn>>

TypeOK ==
    /\ running \in BOOLEAN
    /\ stream \in Nat /\ size \in Nat /\ latest \in Ids
    /\ connections \subseteq Clients /\ active \subseteq connections
    /\ conn \in [Clients -> Connections]

-----------------------------------------------------------------------------
(* The protocol object k of a client *)

PendingEvents(k) == IF k.lastSent = None THEN 0 ELSE k.lastSent - k.ack
NextExpected(k) == k.lastSent + 1

\* Mutants: one event too many; any event.
CanReceiveOneMore(k, id) == id = NextExpected(k) /\ PendingEvents(k) <= k.window
CanReceiveAny(k, id) == PendingEvents(k) < k.window

\* can_receive_event for a connection whose stream is active.
CanReceive(k, id) == id = NextExpected(k) /\ PendingEvents(k) < k.window

SendEvent(k, id, last) ==
    IF CanReceive(k, id)
    THEN [k EXCEPT !.lastSent = id,
                   !.out = Append(@, [id |-> id, latest |-> last, stream |-> stream])]
    ELSE k

\* Mutant: one event, and no call for the next one.
SendNextOnly(k) ==
    IF CanReceive(k, NextExpected(k)) /\ NextExpected(k) < size
    THEN SendEvent(k, NextExpected(k), latest) ELSE k

\* send_next_event_to_connection: one event, and a call for the next one.
SendNext(k) ==
    IF CanReceive(k, NextExpected(k)) /\ NextExpected(k) < size
    THEN [SendEvent(k, NextExpected(k), latest) EXCEPT !.calls = @ + 1]
    ELSE k

Invalid(k, error) == [k EXCEPT !.out = Append(@, [error |-> error])]

AckTooSmall(k, id) == k.ack # None /\ id <= k.ack
AckTooLarge(k, id) == id > k.lastSent

UpdateAck(k, id, window) == [k EXCEPT !.ack = id, !.lastSent = id, !.window = window]

-----------------------------------------------------------------------------
(* The event manager *)

Init ==
    /\ running = FALSE
    /\ stream = 0 /\ size = 0 /\ latest = None
    /\ connections = {} /\ active = {}
    /\ conn = [c \in Clients |-> NewConnection]

\* The events of the load phase, LOAD_STARTED the first of them, are stored and broadcast.
StartNewStream(loaded) ==
    /\ ~running
    /\ running' = TRUE
    /\ stream' = stream + 1 /\ size' = loaded /\ latest' = loaded - 1
    /\ UNCHANGED <<connections, active, conn>>

StartResumed ==
    /\ ~running /\ stream # 0
    /\ running' = TRUE
    /\ latest' = size - 1
    /\ UNCHANGED <<stream, size, connections, active, conn>>

\* The end of the process, orderly or not, ends every connection.
Stop ==
    /\ running
    /\ running' = FALSE
    /\ connections' = {} /\ active' = {}
    /\ conn' = [c \in Clients |-> NewConnection]
    /\ UNCHANGED <<stream, size, latest>>

\* Mutant: the id is assigned after the event was sent.
BroadcastEventFirst(id) ==
    /\ latest' = id
    /\ conn' = [c \in Clients |-> IF c \in active THEN SendEvent(conn[c], id, latest) ELSE conn[c]]

\* _handle_event stores an event and broadcasts it in the same turn of the reactor.
BroadcastEvent(id) ==
    /\ latest' = id
    /\ conn' = [c \in Clients |-> IF c \in active THEN SendEvent(conn[c], id, id) ELSE conn[c]]

Emit ==
    /\ running
    /\ size' = size + 1
    /\ BroadcastEvent(size)
    /\ UNCHANGED <<running, stream, connections, active>>

-----------------------------------------------------------------------------
(* The connections *)

\* Connections are accepted by the reactor, which runs after the factory has started.
OnOpen(c) ==
    /\ running /\ c \notin connections
    /\ connections' = connections \cup {c}
    /\ UNCHANGED <<running, stream, size, latest, active, conn>>

\* The calls that are still scheduled only touch the protocol object that is gone.
OnClose(c) ==
    /\ c \in connections
    /\ connections' = connections \ {c}
    /\ active' = active \ {c}
    /\ conn' = [conn EXCEPT ![c] = NewConnection]
    /\ UNCHANGED <<running, stream, size, latest>>

\* A request whose acknowledgement is too small is refused after _last_sent_event_id was
\* assigned; one that is too large cannot be, because of that assignment.
StartStream(c, id, window) ==
    /\ c \notin active
    /\ IF AckTooSmall(conn[c], id)
       THEN /\ conn' = [conn EXCEPT ![c] = Invalid([@ EXCEPT !.lastSent = id], "ACK_TOO_SMALL")]
            /\ UNCHANGED active
       ELSE /\ conn' = [conn EXCEPT ![c] = SendNext(UpdateAck(@, id, window))]
            /\ active' = active \cup {c}

\* Mutant: nothing is sent before the next event is broadcast.
AckOnly(c, id, window) ==
    /\ c \in active
    /\ conn' = [conn EXCEPT ![c] = IF AckTooSmall(@, id) THEN Invalid(@, "ACK_TOO_SMALL")
                                   ELSE IF AckTooLarge(@, id) THEN Invalid(@, "ACK_TOO_LARGE")
                                   ELSE UpdateAck(@, id, window)]
    /\ UNCHANGED active

Ack(c, id, window) ==
    /\ c \in active
    /\ conn' = [conn EXCEPT ![c] = IF AckTooSmall(@, id) THEN Invalid(@, "ACK_TOO_SMALL")
                                   ELSE IF AckTooLarge(@, id) THEN Invalid(@, "ACK_TOO_LARGE")
                                   ELSE SendNext(UpdateAck(@, id, window))]
    /\ UNCHANGED active

StopStream(c) ==
    /\ c \in active
    /\ active' = active \ {c}
    /\ UNCHANGED conn

Refuse(c, error) ==
    /\ conn' = [conn EXCEPT ![c] = Invalid(@, error)]
    /\ UNCHANGED active

OnMessage(c, request) ==
    /\ c \in connections
    /\ \/ request.type = "START_STREAM" /\ StartStream(c, request.id, request.window)
       \/ request.type = "ACK" /\ Ack(c, request.id, request.window)
       \/ request.type = "STOP_STREAM" /\ StopStream(c)
       \/ request.type = "START_STREAM" /\ c \in active /\ Refuse(c, "STREAM_IS_ACTIVE")
       \/ request.type # "START_STREAM" /\ c \notin active /\ Refuse(c, "STREAM_IS_INACTIVE")
    /\ UNCHANGED <<running, stream, size, latest, connections>>

\* A scheduled call.
CallLater(c) ==
    /\ conn[c].calls > 0
    /\ LET k == [conn[c] EXCEPT !.calls = @ - 1]
       IN  conn' = [conn EXCEPT ![c] = IF c \in active THEN SendNext(k) ELSE k]
    /\ UNCHANGED <<running, stream, size, latest, connections, active>>

\* The transport delivers a response.
Deliver(c) ==
    /\ conn[c].out # <<>>
    /\ conn' = [conn EXCEPT ![c].out = Tail(@)]
    /\ UNCHANGED <<running, stream, size, latest, connections, active>>

Next ==
    \/ \E loaded \in Nat \ {0} : StartNewStream(loaded)
    \/ StartResumed \/ Stop \/ Emit
    \/ \E c \in Clients :
           \/ OnOpen(c) \/ OnClose(c) \/ CallLater(c) \/ Deliver(c)
           \/ \E request \in Requests : OnMessage(c, request)

Spec == Init /\ [][Next]_vars

-----------------------------------------------------------------------------
(* Properties *)

\* Flow control: while a stream is active, the events sent after the acknowledged one fit
\* in the window of the client, and no event beyond the last one sent is acknowledged.
WindowIsRespected ==
    \A c \in active : PendingEvents(conn[c]) \in 0 .. conn[c].window

\* No lost wake-up: when a stored event waits for an active client whose window is open, a
\* call is scheduled to send it.  The chain of calls that ends at the last stored event is
\* taken over by the broadcast of the next one.
NoLostWakeUp ==
    \A c \in active :
        CanReceive(conn[c], NextExpected(conn[c])) /\ NextExpected(conn[c]) < size
            => conn[c].calls > 0

\* latest_event_id tells a client how far it is: it is never behind the event it comes
\* with, and the event is one of the stored ones.
LatestIsAhead ==
    \A c \in connections : \A i \in 1 .. Len(conn[c].out) :
        "id" \in DOMAIN conn[c].out[i] =>
            conn[c].out[i].id <= conn[c].out[i].latest /\ conn[c].out[i].latest < size

=============================================================================
