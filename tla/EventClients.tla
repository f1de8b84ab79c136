---------------------------- MODULE EventClients ----------------------------
(***************************************************************************)
(* The event websocket with clients that follow its documentation: a       *)
(* client remembers the last event it has received and the stream it       *)
(* belongs to, starts the stream after that event, acknowledges only       *)
(* events that it has received, and starts from the first event again when *)
(* the stream id changes.  Requests and responses of a connection travel   *)
(* in order and take their time; both are lost with the connection.        *)
(***************************************************************************)
EXTENDS EventWebsocket

CONSTANTS
    Windows,      \* the window sizes that clients use
    MaxEvents,    \* bound: stored events of a stream
    MaxStreams,   \* bound: streams
    MaxRequests,  \* bound: requests in flight on a connection
    MaxResponses, \* bound: responses in flight when a request is handled
    MaxCalls      \* bound: scheduled calls when a request is handled

ASSUME ClientsAssumption == Windows \subseteq Nat /\ MaxEvents \in Nat

VARIABLES
    client,   \* the newest event that a client has received, its stream, and the event
              \* that was delivered last
    requests  \* the requests in flight

allVars == <<vars, client, requests>>

Forgotten == [received |-> None, stream |-> 0, last |-> None]
ClientInit == Init /\ client = [c \in Clients |-> Forgotten] /\ requests = [c \in Clients |-> <<>>]

-----------------------------------------------------------------------------
(* The node *)

NodeStep(action) == action /\ UNCHANGED <<client, requests>>

NodeStartNewStream ==
    /\ stream < MaxStreams
    /\ \E loaded \in 1 .. MaxEvents : NodeStep(StartNewStream(loaded))
NodeStartResumed == NodeStep(StartResumed)
NodeEmit == size < MaxEvents /\ NodeStep(Emit)
NodeCallLater(c) == NodeStep(CallLater(c))
NodeStop == Stop /\ requests' = [c \in Clients |-> <<>>] /\ UNCHANGED client

NodeOnMessage(c) ==
    /\ requests[c] # <<>>
    /\ Len(conn[c].out) < MaxResponses /\ conn[c].calls < MaxCalls
    /\ OnMessage(c, Head(requests[c]))
    /\ requests' = [requests EXCEPT ![c] = Tail(@)]
    /\ UNCHANGED client

-----------------------------------------------------------------------------
(* The clients *)

Connect(c) == NodeStep(OnOpen(c))

Disconnect(c) ==
    /\ OnClose(c)
    /\ requests' = [requests EXCEPT ![c] = <<>>]
    /\ UNCHANGED client

Request(c, request) ==
    /\ c \in connections /\ Len(requests[c]) < MaxRequests
    /\ requests' = [requests EXCEPT ![c] = Append(@, request)]
    /\ UNCHANGED <<vars, client>>

RequestStart(c, window) ==
    Request(c, [type |-> "START_STREAM", id |-> client[c].received, window |-> window])

RequestAck(c, id, window) ==
    /\ id \in 0 .. client[c].received
    /\ Request(c, [type |-> "ACK", id |-> id, window |-> window])

RequestStop(c) == Request(c, [type |-> "STOP_STREAM"])

\* An event of the stream that the client follows, or of the first one it meets.
Follows(c, event) == client[c].received = None \/ client[c].stream = event.stream

ReceiveEvent(c) ==
    /\ conn[c].out # <<>> /\ "id" \in DOMAIN Head(conn[c].out)
    /\ Follows(c, Head(conn[c].out))
    /\ Deliver(c)
    /\ client' = [client EXCEPT ![c] =
           [received |-> IF Head(conn[c].out).id > @.received THEN Head(conn[c].out).id ELSE @.received,
            stream   |-> Head(conn[c].out).stream,
            last     |-> Head(conn[c].out).id]]
    /\ UNCHANGED requests

\* The stream is another one: the client leaves and will start from the first event.
ReceiveNewStream(c) ==
    /\ conn[c].out # <<>> /\ "id" \in DOMAIN Head(conn[c].out)
    /\ ~Follows(c, Head(conn[c].out))
    /\ OnClose(c)
    /\ client' = [client EXCEPT ![c] = Forgotten]
    /\ requests' = [requests EXCEPT ![c] = <<>>]

ReceiveError(c) ==
    /\ conn[c].out # <<>> /\ "error" \in DOMAIN Head(conn[c].out)
    /\ NodeStep(Deliver(c))

ClientNext ==
    \/ NodeStartNewStream \/ NodeStartResumed \/ NodeEmit \/ NodeStop
    \/ \E c \in Clients :
           \/ NodeCallLater(c) \/ NodeOnMessage(c)
           \/ Connect(c) \/ Disconnect(c) \/ RequestStop(c)
           \/ \E window \in Windows :
                  \/ RequestStart(c, window)
                  \/ \E id \in 0 .. MaxEvents : RequestAck(c, id, window)
           \/ ReceiveEvent(c) \/ ReceiveNewStream(c) \/ ReceiveError(c)

ClientSpec == ClientInit /\ [][ClientNext]_allVars

(***************************************************************************)
(* The reactor runs the calls that are due and reads what arrives, the     *)
(* transport delivers, and a client acknowledges the event delivered last, *)
(* also when it is one that it has received before.                        *)
(***************************************************************************)
AckLast(c) == \E window \in Windows : RequestAck(c, client[c].last, window)

FairSpec ==
    /\ ClientSpec
    /\ \A c \in Clients :
           /\ WF_allVars(NodeCallLater(c)) /\ WF_allVars(NodeOnMessage(c))
           /\ WF_allVars(ReceiveEvent(c)) /\ WF_allVars(ReceiveNewStream(c))
           /\ WF_allVars(ReceiveError(c))
           /\ SF_allVars(AckLast(c))

-----------------------------------------------------------------------------
(* Properties *)

\* A client never misses an event: whatever is resent, acknowledged late, refused or
\* interrupted, the next event of its stream is one that it has seen or the one that
\* follows.
NextIsNoGap ==
    \A c \in connections :
        /\ conn[c].out # <<>>
        /\ "id" \in DOMAIN Head(conn[c].out)
        /\ Follows(c, Head(conn[c].out))
        => Head(conn[c].out).id <= client[c].received + 1

\* A client whose stream stays active receives every event of the stream in the end,
\* unless it still waits for the successor of an event of an older and longer stream.
UpToDate(c) == client[c].stream = stream /\ client[c].received = size - 1
Outlived(c) == client[c].stream # stream /\ client[c].received >= size - 1
StreamsAreDelivered ==
    \A c \in Clients : <>[](c \in active) => <>[](UpToDate(c) \/ Outlived(c))

=============================================================================
