------------------------ MODULE EventWebsocketProofs ------------------------
(***************************************************************************)
(* Flow control and wake-ups of the event websocket, for every set of      *)
(* clients, whatever they request and however many events there are.       *)
(*                                                                         *)
(* WindowIsRespected is not inductive: an acknowledgement beyond the last  *)
(* event sent would make room for more events than the window.             *)
(* NoLostWakeUp is not inductive either: a start changes the log and would *)
(* leave an active client behind, so that no client may be connected while *)
(* the factory does not run.                                               *)
(***************************************************************************)
EXTENDS EventWebsocket, SequenceTheorems, TLAPS

\* The part of the invariant that is about one protocol object with an active stream.
Flow(k) == k.ack <= k.lastSent /\ PendingEvents(k) <= k.window
Awake(k, n) == CanReceive(k, NextExpected(k)) /\ NextExpected(k) < n => k.calls > 0

IInv ==
    /\ TypeOK
    /\ ~running => connections = {}
    /\ \A c \in active : Flow(conn[c]) /\ Awake(conn[c], size)

-----------------------------------------------------------------------------
(* The operations on a protocol object *)

\* The fields of a protocol object.
LEMMA Fields ==
  ASSUME NEW k \in Connections
  PROVE  /\ k.lastSent \in Ids /\ k.ack \in Ids /\ k.window \in Nat /\ k.calls \in Nat
         /\ k.out \in Seq(Responses)
         /\ k.lastSent \in Int /\ k.ack \in Int /\ k.lastSent >= -1 /\ k.ack >= -1
         /\ NextExpected(k) \in Nat /\ PendingEvents(k) \in Int
BY DEF Connections, Ids, None, NextExpected, PendingEvents

LEMMA AppendResponse ==
  ASSUME NEW k \in Connections, NEW r \in Responses
  PROVE  Append(k.out, r) \in Seq(Responses)
BY Fields, AppendProperties

LEMMA SetCalls ==
  ASSUME NEW k \in Connections, NEW n \in Nat
  PROVE  LET s == [k EXCEPT !.calls = n]
         IN  /\ s \in Connections /\ s.calls = n
             /\ s.lastSent = k.lastSent /\ s.ack = k.ack /\ s.window = k.window
BY DEF Connections

\* send_event_response leaves a protocol object, respects the window and keeps the calls.
LEMMA SendEventLemma ==
  ASSUME NEW k \in Connections, NEW id \in Nat, NEW last \in Ids, stream \in Nat
  PROVE  /\ SendEvent(k, id, last) \in Connections
         /\ SendEvent(k, id, last).calls = k.calls
         /\ Flow(k) => Flow(SendEvent(k, id, last))
         /\ CanReceive(k, id) => NextExpected(SendEvent(k, id, last)) = id + 1
         /\ ~CanReceive(k, id) => SendEvent(k, id, last) = k
<1> DEFINE r == [id |-> id, latest |-> last, stream |-> stream]
<1>1. r \in Responses
  BY DEF Responses
<1>2. Append(k.out, r) \in Seq(Responses)
  BY <1>1, AppendResponse
<1> HIDE DEF r
<1>3. CASE CanReceive(k, id)
  <2> DEFINE s == [k EXCEPT !.lastSent = id, !.out = Append(k.out, r)]
  <2>1. SendEvent(k, id, last) = s
    BY <1>3 DEF SendEvent, r
  <2>2. s \in Connections
    BY <1>2 DEF Connections, Ids
  <2>3. /\ s.lastSent = id /\ s.ack = k.ack /\ s.window = k.window /\ s.calls = k.calls
    BY DEF Connections
  <2> HIDE DEF s
  <2>4. Flow(k) => Flow(s)
    BY <1>3, <2>3, Fields DEF Flow, PendingEvents, CanReceive, NextExpected, None, Ids
  <2>5. NextExpected(s) = id + 1
    BY <2>3 DEF NextExpected
  <2> QED
    BY <1>3, <2>1, <2>2, <2>3, <2>4, <2>5
<1>4. CASE ~CanReceive(k, id)
  <2>1. SendEvent(k, id, last) = k
    BY <1>4 DEF SendEvent
  <2> QED
    BY <1>4, <2>1
<1> QED
  BY <1>3, <1>4

\* send_next_event_to_connection schedules a call when more events may follow.
LEMMA SendNextLemma ==
  ASSUME NEW k \in Connections, stream \in Nat, size \in Nat, latest \in Ids
  PROVE  /\ SendNext(k) \in Connections
         /\ Flow(k) => Flow(SendNext(k))
         /\ Awake(SendNext(k), size)
<1>1. CASE CanReceive(k, NextExpected(k)) /\ NextExpected(k) < size
  <2> DEFINE e == SendEvent(k, NextExpected(k), latest)
             s == [e EXCEPT !.calls = e.calls + 1]
  <2>1. SendNext(k) = s
    BY <1>1 DEF SendNext
  <2>2. e \in Connections /\ (Flow(k) => Flow(e))
    BY Fields, SendEventLemma
  <2> HIDE DEF e
  <2>3. e.calls \in Nat /\ e.calls + 1 \in Nat
    BY <2>2, Fields
  <2>4. /\ s \in Connections /\ s.calls = e.calls + 1
        /\ s.lastSent = e.lastSent /\ s.ack = e.ack /\ s.window = e.window
    BY <2>2, <2>3, SetCalls
  <2> HIDE DEF s
  <2>5. Flow(e) => Flow(s)
    BY <2>4 DEF Flow, PendingEvents
  <2>6. Awake(s, size)
    BY <2>3, <2>4 DEF Awake
  <2> QED
    BY <2>1, <2>2, <2>4, <2>5, <2>6
<1>2. CASE ~(CanReceive(k, NextExpected(k)) /\ NextExpected(k) < size)
  <2>1. SendNext(k) = k
    BY <1>2 DEF SendNext
  <2> QED
    BY <1>2, <2>1 DEF Awake
<1> QED
  BY <1>1, <1>2

LEMMA UpdateAckLemma ==
  ASSUME NEW k \in Connections, NEW id \in Ids, NEW window \in Nat
  PROVE  UpdateAck(k, id, window) \in Connections /\ Flow(UpdateAck(k, id, window))
<1> DEFINE s == UpdateAck(k, id, window)
<1>1. /\ s \in Connections /\ s.lastSent = id /\ s.ack = id /\ s.window = window
  BY DEF UpdateAck, Connections
<1>2. id \in Int /\ (id = None => s.lastSent = None) /\ id - id = 0 /\ id <= id /\ 0 <= window
  BY <1>1 DEF Ids, None
<1> HIDE DEF s
<1>3. PendingEvents(s) = 0
  BY <1>1, <1>2 DEF PendingEvents
<1> QED
  BY <1>1, <1>2, <1>3 DEF Flow, s

\* An error response leaves the state of the stream alone.
LEMMA InvalidLemma ==
  ASSUME NEW k \in Connections, NEW error \in InvalidTypes
  PROVE  /\ Invalid(k, error) \in Connections
         /\ Flow(k) => Flow(Invalid(k, error))
         /\ \A n : Awake(k, n) => Awake(Invalid(k, error), n)
<1>1. [error |-> error] \in Responses
  BY DEF Responses
<1>2. Append(k.out, [error |-> error]) \in Seq(Responses)
  BY <1>1, AppendResponse
<1> DEFINE s == Invalid(k, error)
<1>3. /\ s \in Connections /\ s.lastSent = k.lastSent /\ s.ack = k.ack
      /\ s.window = k.window /\ s.calls = k.calls
  BY <1>2 DEF Invalid, Connections
<1> HIDE DEF s
<1> QED
  BY <1>3 DEF Flow, Awake, PendingEvents, CanReceive, NextExpected, s

LEMMA NewConnectionLemma == NewConnection \in Connections
BY DEF NewConnection, Connections, Ids, None

\* What happens to one protocol object while the others stay as they are.
LEMMA OneConnection ==
  ASSUME IInv, NEW c \in Clients, NEW k \in Connections,
         active' \subseteq connections, active' \subseteq active \cup {c},
         c \in active' => Flow(k) /\ Awake(k, size),
         conn' = [conn EXCEPT ![c] = k],
         UNCHANGED <<running, stream, size, latest, connections>>
  PROVE  IInv'
<1>1. conn' \in [Clients -> Connections] /\ conn'[c] = k
      /\ \A d \in Clients : d # c => conn'[d] = conn[d]
  BY DEF IInv, TypeOK
<1>2. TypeOK'
  <2>1. running' \in BOOLEAN
    BY Zenon DEF IInv, TypeOK
  <2> QED
    BY <1>1, <2>1 DEF IInv, TypeOK
<1>3. (~running => connections = {})'
  BY Zenon DEF IInv
<1>4. ASSUME NEW d \in active'
      PROVE  Flow(conn'[d]) /\ Awake(conn'[d], size')
  <2>1. CASE d = c
    BY <1>1, <1>4, <2>1, Zenon
  <2>2. CASE d # c
    <3>1. d \in active /\ d \in Clients
      BY <1>4, <2>2 DEF IInv, TypeOK
    <3> QED
      BY <1>1, <2>2, <3>1, Zenon DEF IInv
  <2> QED
    BY <2>1, <2>2
<1> QED
  BY <1>2, <1>3, <1>4, Zenon DEF IInv, Flow, Awake

-----------------------------------------------------------------------------
(* The invariant *)

LEMMA InitIInv == Init => IInv
<1> SUFFICES ASSUME Init PROVE IInv
  OBVIOUS
<1>1. running \in BOOLEAN
  BY Zenon DEF Init
<1>2. conn \in [Clients -> Connections]
  BY NewConnectionLemma DEF Init
<1>3. TypeOK
  BY <1>1, <1>2 DEF Init, TypeOK, Ids, None
<1> QED
  BY <1>3, Zenon DEF Init, IInv

LEMMA StartNewStreamStep ==
  ASSUME IInv, NEW loaded \in Nat \ {0}, StartNewStream(loaded)
  PROVE  IInv'
<1>1. /\ ~running /\ running' = TRUE /\ connections' = connections /\ active' = active
      /\ conn' = conn /\ stream' = stream + 1 /\ size' = loaded /\ latest' = loaded - 1
  BY Zenon DEF StartNewStream
<1>2. connections = {} /\ active' = {}
  BY <1>1 DEF IInv, TypeOK
<1>3. running' \in BOOLEAN /\ (~running => connections = {})'
  BY <1>1, Zenon
<1>4. TypeOK'
  BY <1>1, <1>3 DEF IInv, TypeOK, Ids, None
<1> QED
  BY <1>2, <1>3, <1>4, Zenon DEF IInv

LEMMA StartResumedStep ==
  ASSUME IInv, StartResumed
  PROVE  IInv'
<1>1. /\ ~running /\ running' = TRUE /\ connections' = connections /\ active' = active
      /\ conn' = conn /\ stream' = stream /\ size' = size /\ latest' = size - 1
  BY Zenon DEF StartResumed
<1>2. connections = {} /\ active' = {}
  BY <1>1 DEF IInv, TypeOK
<1>3. running' \in BOOLEAN /\ (~running => connections = {})'
  BY <1>1, Zenon
<1>4. TypeOK'
  BY <1>1, <1>3 DEF IInv, TypeOK, Ids, None
<1> QED
  BY <1>2, <1>3, <1>4, Zenon DEF IInv

LEMMA StopStep ==
  ASSUME IInv, Stop
  PROVE  IInv'
<1>1. /\ running' = FALSE /\ connections' = {} /\ active' = {}
      /\ stream' = stream /\ size' = size /\ latest' = latest
      /\ conn' = [c \in Clients |-> NewConnection]
  BY Zenon DEF Stop
<1>2. running' \in BOOLEAN
  BY <1>1, Zenon
<1>3. conn' \in [Clients -> Connections]
  BY <1>1, NewConnectionLemma
<1>4. TypeOK'
  BY <1>1, <1>2, <1>3 DEF IInv, TypeOK
<1> QED
  BY <1>1, <1>4, Zenon DEF IInv

\* The broadcast serves every client that waits for the new event; the others have a call
\* or a full window.
LEMMA EmitStep ==
  ASSUME IInv, Emit
  PROVE  IInv'
<1>1. /\ running /\ running' = running /\ connections' = connections /\ active' = active
      /\ stream' = stream /\ size' = size + 1 /\ latest' = size
      /\ conn' = [c \in Clients |-> IF c \in active THEN SendEvent(conn[c], size, size)
                                                    ELSE conn[c]]
  BY Zenon DEF Emit, BroadcastEvent
<1>2. stream \in Nat /\ size \in Nat /\ size \in Ids /\ conn \in [Clients -> Connections]
      /\ active \subseteq Clients
  BY DEF IInv, TypeOK, Ids
<1>3. \A c \in Clients : SendEvent(conn[c], size, size) \in Connections
  BY <1>2, SendEventLemma
<1>4. conn' \in [Clients -> Connections]
  BY <1>1, <1>2, <1>3
<1>5. running' \in BOOLEAN
  BY <1>1, Zenon DEF IInv, TypeOK
<1>6. TypeOK'
  BY <1>1, <1>2, <1>4, <1>5 DEF IInv, TypeOK
<1>7. ASSUME NEW c \in active'
      PROVE  Flow(conn'[c]) /\ Awake(conn'[c], size')
  <2> DEFINE k == conn[c]
             s == SendEvent(k, size, size)
  <2>1. c \in active /\ c \in Clients /\ k \in Connections /\ conn'[c] = s
    BY <1>1, <1>2, <1>7
  <2>2. Flow(k) /\ Awake(k, size)
    BY <2>1 DEF IInv
  <2>3. /\ Flow(s) /\ s.calls = k.calls
        /\ CanReceive(k, size) => NextExpected(s) = size + 1
        /\ ~CanReceive(k, size) => s = k
    BY <1>2, <2>1, <2>2, SendEventLemma
  <2>4. NextExpected(k) \in Nat
    BY <2>1, Fields
  <2> HIDE DEF k, s
  <2>5. Awake(s, size + 1)
    <3>1. CASE CanReceive(k, size)
      BY <1>2, <2>3, <3>1 DEF Awake
    <3>2. CASE ~CanReceive(k, size)
      <4>1. s = k
        BY <2>3, <3>2
      <4>2. CanReceive(k, NextExpected(k)) => NextExpected(k) # size
        BY <3>2
      <4> QED
        BY <1>2, <2>2, <2>4, <4>1, <4>2 DEF Awake
    <3> QED
      BY <3>1, <3>2
  <2> QED
    BY <1>1, <2>1, <2>3, <2>5
<1> QED
  BY <1>1, <1>6, <1>7, Zenon DEF IInv, Flow, Awake

LEMMA OnOpenStep ==
  ASSUME IInv, NEW c \in Clients, OnOpen(c)
  PROVE  IInv'
<1>1. /\ running /\ running' = running /\ connections' = connections \cup {c}
      /\ active' = active /\ conn' = conn /\ stream' = stream /\ size' = size /\ latest' = latest
  BY Zenon DEF OnOpen
<1>2. running' \in BOOLEAN
  BY <1>1, Zenon DEF IInv, TypeOK
<1>3. TypeOK'
  BY <1>1, <1>2 DEF IInv, TypeOK
<1> QED
  BY <1>1, <1>3, Zenon DEF IInv

LEMMA OnCloseStep ==
  ASSUME IInv, NEW c \in Clients, OnClose(c)
  PROVE  IInv'
<1>1. /\ running' = running /\ connections' = connections \ {c} /\ active' = active \ {c}
      /\ conn' = [conn EXCEPT ![c] = NewConnection]
      /\ stream' = stream /\ size' = size /\ latest' = latest
  BY Zenon DEF OnClose
<1>2. running' \in BOOLEAN /\ (~running => connections = {})'
  <2>1. running' \in BOOLEAN
    BY <1>1, Zenon DEF IInv, TypeOK
  <2>2. ~running => connections' = {}
    BY <1>1 DEF IInv
  <2> QED
    BY <1>1, <2>1, <2>2, Zenon
<1>3. /\ conn' \in [Clients -> Connections]
      /\ \A d \in Clients : d # c => conn'[d] = conn[d]
  BY <1>1, NewConnectionLemma DEF IInv, TypeOK
<1>4. TypeOK'
  BY <1>1, <1>2, <1>3 DEF IInv, TypeOK
<1>5. \A d \in active' : d \in active /\ conn'[d] = conn[d]
  BY <1>1, <1>3 DEF IInv, TypeOK
<1> QED
  BY <1>1, <1>2, <1>4, <1>5, Zenon DEF IInv, Flow, Awake

LEMMA StartStreamStep ==
  ASSUME IInv, NEW c \in Clients, c \in connections, NEW id \in Ids, NEW window \in Nat,
         StartStream(c, id, window),
         UNCHANGED <<running, stream, size, latest, connections>>
  PROVE  IInv'
<1>1. conn[c] \in Connections /\ stream \in Nat /\ size \in Nat /\ latest \in Ids
  BY DEF IInv, TypeOK
<1>2. c \notin active /\ active \subseteq connections
  BY DEF StartStream, IInv, TypeOK
<1>3. CASE AckTooSmall(conn[c], id)
  <2> DEFINE k == Invalid([conn[c] EXCEPT !.lastSent = id], "ACK_TOO_SMALL")
  <2>1. conn' = [conn EXCEPT ![c] = k] /\ active' = active
    BY <1>3 DEF StartStream
  <2>2. [conn[c] EXCEPT !.lastSent = id] \in Connections
    BY <1>1 DEF Connections
  <2>3. k \in Connections
    BY <2>2, InvalidLemma DEF InvalidTypes
  <2> HIDE DEF k
  <2> QED
    BY <1>2, <2>1, <2>3, OneConnection
<1>4. CASE ~AckTooSmall(conn[c], id)
  <2> DEFINE k == SendNext(UpdateAck(conn[c], id, window))
  <2>1. conn' = [conn EXCEPT ![c] = k] /\ active' = active \cup {c}
    BY <1>4 DEF StartStream
  <2>2. UpdateAck(conn[c], id, window) \in Connections /\ Flow(UpdateAck(conn[c], id, window))
    BY <1>1, UpdateAckLemma
  <2>3. k \in Connections /\ Flow(k) /\ Awake(k, size)
    BY <1>1, <2>2, SendNextLemma
  <2> HIDE DEF k
  <2> QED
    BY <1>2, <2>1, <2>3, OneConnection
<1> QED
  BY <1>3, <1>4

LEMMA AckStep ==
  ASSUME IInv, NEW c \in Clients, c \in connections, NEW id \in Nat, NEW window \in Nat,
         Ack(c, id, window),
         UNCHANGED <<running, stream, size, latest, connections>>
  PROVE  IInv'
<1>1. conn[c] \in Connections /\ stream \in Nat /\ size \in Nat /\ latest \in Ids
  BY DEF IInv, TypeOK
<1>2. /\ c \in active /\ active \subseteq connections /\ active' = active
      /\ Flow(conn[c]) /\ Awake(conn[c], size)
  BY DEF Ack, IInv, TypeOK
<1> DEFINE small == Invalid(conn[c], "ACK_TOO_SMALL")
           large == Invalid(conn[c], "ACK_TOO_LARGE")
           sent == SendNext(UpdateAck(conn[c], id, window))
<1>3. \E k \in {small, large, sent} : conn' = [conn EXCEPT ![c] = k]
  BY DEF Ack
<1>4. small \in Connections /\ Flow(small) /\ Awake(small, size)
  BY <1>1, <1>2, InvalidLemma DEF InvalidTypes
<1>5. large \in Connections /\ Flow(large) /\ Awake(large, size)
  BY <1>1, <1>2, InvalidLemma DEF InvalidTypes
<1>6. sent \in Connections /\ Flow(sent) /\ Awake(sent, size)
  <2>1. UpdateAck(conn[c], id, window) \in Connections /\ Flow(UpdateAck(conn[c], id, window))
    BY <1>1, UpdateAckLemma DEF Ids
  <2> QED
    BY <1>1, <2>1, SendNextLemma
<1> HIDE DEF small, large, sent
<1>7. PICK k \in {small, large, sent} : conn' = [conn EXCEPT ![c] = k]
  BY <1>3
<1>8. k \in Connections /\ Flow(k) /\ Awake(k, size)
  BY <1>4, <1>5, <1>6
<1> QED
  BY <1>2, <1>7, <1>8, OneConnection

LEMMA StopStreamStep ==
  ASSUME IInv, NEW c \in Clients, c \in connections, StopStream(c),
         UNCHANGED <<running, stream, size, latest, connections>>
  PROVE  IInv'
<1>1. conn[c] \in Connections /\ conn = [conn EXCEPT ![c] = conn[c]]
  BY DEF IInv, TypeOK
<1>2. active' = active \ {c} /\ conn' = conn /\ active \subseteq connections
  BY DEF StopStream, IInv, TypeOK
<1> QED
  BY <1>1, <1>2, OneConnection

LEMMA RefuseStep ==
  ASSUME IInv, NEW c \in Clients, NEW error \in InvalidTypes, Refuse(c, error),
         UNCHANGED <<running, stream, size, latest, connections>>
  PROVE  IInv'
<1> DEFINE k == Invalid(conn[c], error)
<1>1. conn[c] \in Connections /\ active \subseteq connections
      /\ active' = active /\ conn' = [conn EXCEPT ![c] = k]
  BY DEF IInv, TypeOK, Refuse
<1>2. c \in active => Flow(conn[c]) /\ Awake(conn[c], size)
  BY DEF IInv
<1>3. k \in Connections /\ (c \in active => Flow(k) /\ Awake(k, size))
  BY <1>1, <1>2, InvalidLemma
<1> HIDE DEF k
<1> QED
  BY <1>1, <1>3, OneConnection

LEMMA OnMessageStep ==
  ASSUME IInv, NEW c \in Clients, NEW request \in Requests, OnMessage(c, request)
  PROVE  IInv'
<1>1. c \in connections /\ UNCHANGED <<running, stream, size, latest, connections>>
  BY DEF OnMessage
<1>2. CASE request.type = "START_STREAM" /\ StartStream(c, request.id, request.window)
  <2>1. request.id \in Ids /\ request.window \in Nat
    BY <1>2 DEF Requests, Ids
  <2> QED
    BY <1>1, <1>2, <2>1, StartStreamStep
<1>3. CASE request.type = "ACK" /\ Ack(c, request.id, request.window)
  <2>1. request.id \in Nat /\ request.window \in Nat
    BY <1>3 DEF Requests
  <2> QED
    BY <1>1, <1>3, <2>1, AckStep
<1>4. CASE StopStream(c)
  BY <1>1, <1>4, StopStreamStep
<1>5. CASE Refuse(c, "STREAM_IS_ACTIVE")
  BY <1>1, <1>5, RefuseStep DEF InvalidTypes
<1>6. CASE Refuse(c, "STREAM_IS_INACTIVE")
  BY <1>1, <1>6, RefuseStep DEF InvalidTypes
<1> QED
  BY <1>2, <1>3, <1>4, <1>5, <1>6, Zenon DEF OnMessage

LEMMA CallLaterStep ==
  ASSUME IInv, NEW c \in Clients, CallLater(c)
  PROVE  IInv'
<1> DEFINE k == [conn[c] EXCEPT !.calls = conn[c].calls - 1]
           s == IF c \in active THEN SendNext(k) ELSE k
<1>1. /\ conn[c] \in Connections /\ active \subseteq connections
      /\ stream \in Nat /\ size \in Nat /\ latest \in Ids
  BY DEF IInv, TypeOK
<1>2. /\ conn[c].calls > 0 /\ active' = active /\ conn' = [conn EXCEPT ![c] = s]
      /\ UNCHANGED <<running, stream, size, latest, connections>>
  BY DEF CallLater
<1>3. conn[c].calls - 1 \in Nat
  BY <1>1, <1>2, Fields
<1>4. /\ k \in Connections /\ k.lastSent = conn[c].lastSent /\ k.ack = conn[c].ack
      /\ k.window = conn[c].window
  BY <1>1, <1>3, SetCalls
<1> HIDE DEF k
<1>5. c \in active => Flow(k)
  BY <1>4 DEF IInv, Flow, PendingEvents
<1>6. SendNext(k) \in Connections /\ (Flow(k) => Flow(SendNext(k))) /\ Awake(SendNext(k), size)
  BY <1>1, <1>4, SendNextLemma
<1>7. s \in Connections /\ (c \in active => Flow(s) /\ Awake(s, size))
  BY <1>4, <1>5, <1>6
<1> HIDE DEF s
<1> QED
  BY <1>1, <1>2, <1>7, OneConnection

LEMMA DeliverStep ==
  ASSUME IInv, NEW c \in Clients, Deliver(c)
  PROVE  IInv'
<1> DEFINE k == [conn[c] EXCEPT !.out = Tail(conn[c].out)]
<1>1. conn[c] \in Connections /\ active \subseteq connections
  BY DEF IInv, TypeOK
<1>2. /\ conn[c].out # <<>> /\ active' = active /\ conn' = [conn EXCEPT ![c] = k]
      /\ UNCHANGED <<running, stream, size, latest, connections>>
  BY <1>1 DEF Deliver, IInv, TypeOK, Connections
<1>3. Tail(conn[c].out) \in Seq(Responses)
  BY <1>1, <1>2, Fields
<1>4. /\ k \in Connections /\ k.lastSent = conn[c].lastSent /\ k.ack = conn[c].ack
      /\ k.window = conn[c].window /\ k.calls = conn[c].calls
  BY <1>1, <1>3 DEF Connections
<1> HIDE DEF k
<1>5. c \in active => Flow(k) /\ Awake(k, size)
  BY <1>4 DEF IInv, Flow, Awake, PendingEvents, CanReceive, NextExpected
<1> QED
  BY <1>1, <1>2, <1>4, <1>5, OneConnection

LEMMA NextIInv == IInv /\ [Next]_vars => IInv'
<1> SUFFICES ASSUME IInv, [Next]_vars PROVE IInv'
  OBVIOUS
<1>1. CASE UNCHANGED vars
  BY <1>1, Zenon DEF vars, IInv, TypeOK, Flow, Awake, PendingEvents, CanReceive, NextExpected
<1>2. ASSUME NEW loaded \in Nat \ {0}, StartNewStream(loaded) PROVE IInv'
  BY <1>2, StartNewStreamStep
<1>3. CASE StartResumed \/ Stop \/ Emit
  BY <1>3, StartResumedStep, StopStep, EmitStep
<1>4. ASSUME NEW c \in Clients, OnOpen(c) \/ OnClose(c) \/ CallLater(c) \/ Deliver(c)
      PROVE  IInv'
  BY <1>4, OnOpenStep, OnCloseStep, CallLaterStep, DeliverStep
<1>5. ASSUME NEW c \in Clients, NEW request \in Requests, OnMessage(c, request) PROVE IInv'
  BY <1>5, OnMessageStep
<1> QED
  BY <1>1, <1>2, <1>3, <1>4, <1>5 DEF Next

LEMMA Invariance == Spec => []IInv
<1> QED
  BY InitIInv, NextIInv, PTL DEF Spec

\* The state of the factory and of every protocol object keeps its type, and only
\* registered connections stream.
THEOREM TypeCorrect == Spec => []TypeOK
<1>1. IInv => TypeOK
  BY DEF IInv
<1> QED
  BY <1>1, Invariance, PTL

\* can_receive_event and _update_ack keep what is sent and not acknowledged within the
\* window, whatever the clients acknowledge, restart or resize.
THEOREM FlowControl == Spec => []WindowIsRespected
<1>1. IInv => WindowIsRespected
  <2> SUFFICES ASSUME IInv, NEW c \in active PROVE PendingEvents(conn[c]) \in 0 .. conn[c].window
    BY DEF WindowIsRespected
  <2>1. conn[c] \in Connections /\ Flow(conn[c])
    BY DEF IInv, TypeOK
  <2> QED
    BY <2>1, Fields DEF Flow, PendingEvents, None
<1> QED
  BY <1>1, Invariance, PTL

\* The chain of callLater calls and the broadcasts never leave an event behind.
THEOREM WakeUps == Spec => []NoLostWakeUp
<1>1. IInv => NoLostWakeUp
  BY DEF IInv, NoLostWakeUp, Awake
<1> QED
  BY <1>1, Invariance, PTL

=============================================================================
