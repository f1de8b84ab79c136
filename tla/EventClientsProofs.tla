-------------------------- MODULE EventClientsProofs --------------------------
(***************************************************************************)
(* The websocket with clients implements the websocket that answers any    *)
(* request, so what is proved of the latter holds with clients.  A step    *)
(* maps to one of the websocket because what travels on a connection is a  *)
(* request, which needs the types of the clients' own state.               *)
(***************************************************************************)
EXTENDS EventClients, EventWebsocketProofs

ClientStates == [received : Ids, stream : Nat, last : Ids]

ClientsTypeOK ==
    /\ client \in [Clients -> ClientStates]
    /\ requests \in [Clients -> Seq(Requests)]

LEMMA ClientFields ==
  ASSUME ClientsTypeOK, NEW c \in Clients
  PROVE  client[c].received \in Ids /\ client[c].last \in Ids
BY DEF ClientsTypeOK, ClientStates

LEMMA NoRequest == <<>> \in Seq(Requests)
BY EmptySeq

\* A request joins those in flight.
LEMMA RequestStep ==
  ASSUME ClientsTypeOK, NEW c \in Clients, NEW r \in Requests, Request(c, r)
  PROVE  ClientsTypeOK' /\ UNCHANGED vars
<1>1. Append(requests[c], r) \in Seq(Requests)
  BY AppendProperties DEF ClientsTypeOK
<1>2. requests' \in [Clients -> Seq(Requests)]
  BY <1>1 DEF Request, ClientsTypeOK
<1> QED
  BY <1>2 DEF Request, ClientsTypeOK, vars

\* A client's request is one of those that the websocket answers.
LEMMA AckRequested ==
  ASSUME ClientsTypeOK, NEW c \in Clients, NEW id, NEW w \in Windows, RequestAck(c, id, w)
  PROVE  ClientsTypeOK' /\ UNCHANGED vars
<1> DEFINE r == [type |-> "ACK", id |-> id, window |-> w]
<1>1. client[c].received \in Int
  BY ClientFields DEF Ids, None
<1>2. id \in Nat
  BY <1>1 DEF RequestAck
<1>3. r \in Requests
  BY <1>2, ClientsAssumption DEF Requests
<1>4. Request(c, r)
  BY DEF RequestAck
<1> QED
  BY <1>3, <1>4, RequestStep

LEMMA StartRequested ==
  ASSUME ClientsTypeOK, NEW c \in Clients, NEW w \in Windows, RequestStart(c, w)
  PROVE  ClientsTypeOK' /\ UNCHANGED vars
<1> DEFINE r == [type |-> "START_STREAM", id |-> client[c].received, window |-> w]
<1>1. r \in Requests
  BY ClientFields, ClientsAssumption DEF Requests
<1>2. Request(c, r)
  BY DEF RequestStart
<1> QED
  BY <1>1, <1>2, RequestStep

LEMMA StopRequested ==
  ASSUME ClientsTypeOK, NEW c \in Clients, RequestStop(c)
  PROVE  ClientsTypeOK' /\ UNCHANGED vars
<1>1. [type |-> "STOP_STREAM"] \in Requests
  BY DEF Requests
<1> QED
  BY <1>1, RequestStep DEF RequestStop

\* The node takes the first request in flight.
LEMMA NodeOnMessageStep ==
  ASSUME ClientsTypeOK, NEW c \in Clients, NodeOnMessage(c)
  PROVE  ClientsTypeOK' /\ Next
<1>1. requests[c] \in Seq(Requests) /\ requests[c] # <<>>
  BY DEF ClientsTypeOK, NodeOnMessage
<1>2. Head(requests[c]) \in Requests /\ Tail(requests[c]) \in Seq(Requests)
  BY <1>1, HeadTailProperties
<1>3. requests' \in [Clients -> Seq(Requests)]
  BY <1>2 DEF NodeOnMessage, ClientsTypeOK
<1>4. OnMessage(c, Head(requests[c]))
  BY DEF NodeOnMessage
<1>5. Next
  BY <1>2, <1>4 DEF Next
<1> QED
  BY <1>3, <1>5 DEF NodeOnMessage, ClientsTypeOK

\* A client that receives an event remembers its id and its stream.
LEMMA ReceiveEventStep ==
  ASSUME TypeOK, ClientsTypeOK, NEW c \in Clients, ReceiveEvent(c)
  PROVE  ClientsTypeOK' /\ Next
<1> DEFINE e == Head(conn[c].out)
<1>1. conn[c].out \in Seq(Responses) /\ conn[c].out # <<>>
  BY Fields DEF TypeOK, ReceiveEvent
<1>2. e \in Responses
  BY <1>1, HeadTailProperties
<1>3. "id" \in DOMAIN e
  BY DEF ReceiveEvent
<1>4. e.id \in Nat /\ e.stream \in Nat
  BY <1>2, <1>3 DEF Responses
<1> HIDE DEF e
<1> DEFINE s == [received |-> IF e.id > client[c].received THEN e.id ELSE client[c].received,
                 stream   |-> e.stream,
                 last     |-> e.id]
<1>5. s \in ClientStates
  BY <1>4, ClientFields DEF ClientStates, Ids
<1>6. client' = [client EXCEPT ![c] = s]
  BY DEF ReceiveEvent, e
<1> HIDE DEF s
<1>7. client' \in [Clients -> ClientStates]
  BY <1>5, <1>6 DEF ClientsTypeOK
<1>8. Next
  BY DEF ReceiveEvent, Next
<1> QED
  BY <1>7, <1>8 DEF ReceiveEvent, ClientsTypeOK

\* The other steps of the clients are steps of their connections.
LEMMA ConnectionStep ==
  ASSUME ClientsTypeOK, NEW c \in Clients,
         \/ NodeCallLater(c) \/ Connect(c) \/ Disconnect(c)
         \/ ReceiveNewStream(c) \/ ReceiveError(c)
  PROVE  ClientsTypeOK' /\ Next
<1>1. CASE NodeCallLater(c)
  BY <1>1 DEF NodeCallLater, NodeStep, ClientsTypeOK, Next
<1>2. CASE Connect(c)
  BY <1>2 DEF Connect, NodeStep, ClientsTypeOK, Next
<1>3. CASE Disconnect(c)
  BY <1>3, NoRequest DEF Disconnect, ClientsTypeOK, Next
<1>4. CASE ReceiveNewStream(c)
  <2>1. Forgotten \in ClientStates
    BY DEF Forgotten, ClientStates, Ids
  <2>2. client' \in [Clients -> ClientStates]
    BY <1>4, <2>1 DEF ReceiveNewStream, ClientsTypeOK
  <2>3. requests' \in [Clients -> Seq(Requests)]
    BY <1>4, NoRequest DEF ReceiveNewStream, ClientsTypeOK
  <2>4. Next
    BY <1>4 DEF ReceiveNewStream, Next
  <2> QED
    BY <2>2, <2>3, <2>4 DEF ClientsTypeOK
<1>5. CASE ReceiveError(c)
  BY <1>5 DEF ReceiveError, NodeStep, ClientsTypeOK, Next
<1> QED
  BY <1>1, <1>2, <1>3, <1>4, <1>5

LEMMA ClientNextStep ==
  TypeOK /\ ClientsTypeOK /\ [ClientNext]_allVars => ClientsTypeOK' /\ [Next]_vars
<1> SUFFICES ASSUME TypeOK, ClientsTypeOK, [ClientNext]_allVars
             PROVE  ClientsTypeOK' /\ [Next]_vars
  OBVIOUS
<1>1. CASE NodeStartNewStream
  <2>1. PICK n \in 1 .. MaxEvents : NodeStep(StartNewStream(n))
    BY <1>1 DEF NodeStartNewStream
  <2>2. n \in Nat \ {0}
    BY ClientsAssumption
  <2> QED
    BY <2>1, <2>2 DEF NodeStep, Next, ClientsTypeOK
<1>2. CASE NodeStartResumed
  BY <1>2 DEF NodeStartResumed, NodeStep, Next, ClientsTypeOK
<1>3. CASE NodeEmit
  BY <1>3 DEF NodeEmit, NodeStep, Next, ClientsTypeOK
<1>4. CASE NodeStop
  BY <1>4, NoRequest DEF NodeStop, Next, ClientsTypeOK
<1>5. ASSUME NEW c \in Clients,
             \/ NodeCallLater(c) \/ Connect(c) \/ Disconnect(c)
             \/ ReceiveNewStream(c) \/ ReceiveError(c)
      PROVE  ClientsTypeOK' /\ [Next]_vars
  BY <1>5, ConnectionStep
<1>6. ASSUME NEW c \in Clients, NodeOnMessage(c) \/ ReceiveEvent(c)
      PROVE  ClientsTypeOK' /\ [Next]_vars
  BY <1>6, NodeOnMessageStep, ReceiveEventStep
<1>7. ASSUME NEW c \in Clients, RequestStop(c)
      PROVE  ClientsTypeOK' /\ [Next]_vars
  BY <1>7, StopRequested
<1>8. ASSUME NEW c \in Clients, NEW w \in Windows, NEW id \in 0 .. MaxEvents,
             RequestStart(c, w) \/ RequestAck(c, id, w)
      PROVE  ClientsTypeOK' /\ [Next]_vars
  BY <1>8, StartRequested, AckRequested
<1>9. ASSUME NEW c \in Clients, NEW w \in Windows, RequestStart(c, w)
      PROVE  ClientsTypeOK' /\ [Next]_vars
  BY <1>9, StartRequested
<1>10. CASE UNCHANGED allVars
  BY <1>10 DEF allVars, ClientsTypeOK
<1> QED
  BY <1>1, <1>2, <1>3, <1>4, <1>5, <1>6, <1>7, <1>8, <1>9, <1>10 DEF ClientNext

LEMMA ClientInitType == ClientInit => Init /\ TypeOK /\ ClientsTypeOK
<1> SUFFICES ASSUME ClientInit PROVE Init /\ TypeOK /\ ClientsTypeOK
  OBVIOUS
<1>1. Init
  BY DEF ClientInit
<1>2. TypeOK
  BY <1>1, InitIInv DEF IInv
<1>3. Forgotten \in ClientStates
  BY DEF Forgotten, ClientStates, Ids
<1>4. ClientsTypeOK
  BY <1>3, NoRequest DEF ClientInit, ClientsTypeOK
<1> QED
  BY <1>1, <1>2, <1>4

\* Clients that start, acknowledge and stop streams as the documentation tells them are
\* clients of the websocket: every theorem about the websocket holds with them.
THEOREM ImplementsWebsocket == ClientSpec => Spec
<1>1. ClientSpec => Init /\ [](IInv /\ ClientsTypeOK)
  <2>1. ClientInit => Init /\ IInv /\ ClientsTypeOK
    BY ClientInitType, InitIInv
  <2>2. IInv /\ ClientsTypeOK /\ [ClientNext]_allVars => IInv' /\ ClientsTypeOK'
    BY ClientNextStep, NextIInv DEF IInv
  <2> QED
    BY <2>1, <2>2, PTL DEF ClientSpec
<1>2. IInv /\ ClientsTypeOK /\ [ClientNext]_allVars => [Next]_vars
  BY ClientNextStep DEF IInv
<1> QED
  BY <1>1, <1>2, PTL DEF ClientSpec, Spec

-----------------------------------------------------------------------------
(***************************************************************************)
(* No event is missed.  The event at the head of a connection is no gap    *)
(* because its predecessor has been received; for the events behind it,    *)
(* the predecessor has been received or travels before it, and the event   *)
(* sent last, from which the server goes on, has been received or still    *)
(* travels.  A request in flight names an event that has been received.    *)
(***************************************************************************)
IsEvent(r) == "id" \in DOMAIN r

\* Event x was received, the newest received event being n, or is one of the first m in out.
Seen(out, m, n, x) == x <= n \/ \E j \in 1 .. m : IsEvent(out[j]) /\ out[j].id = x

Reached(out, sent, n) ==
    /\ Seen(out, Len(out), n, sent)
    /\ \A i \in 1 .. Len(out) : IsEvent(out[i]) => Seen(out, i - 1, n, out[i].id - 1)

ReachedAt(c) == Reached(conn[c].out, conn[c].lastSent, client[c].received)

Asked(q, n) == \A i \in 1 .. Len(q) : q[i].type # "STOP_STREAM" => q[i].id <= n

NoGapInv == \A c \in Clients : ReachedAt(c) /\ Asked(requests[c], client[c].received)

LEMMA ReachedNew ==
  ASSUME NEW n \in Ids
  PROVE  Reached(<<>>, None, n)
BY DEF Reached, Seen, Ids, None

\* The server goes back to an event that the client has received.
LEMMA ReachedRewind ==
  ASSUME NEW out, NEW sent, NEW n, NEW x, x <= n, Reached(out, sent, n)
  PROVE  Reached(out, x, n)
BY DEF Reached, Seen

\* An error response is sent.
LEMMA ReachedError ==
  ASSUME NEW out \in Seq(Responses), NEW sent \in Int, NEW n \in Int, Reached(out, sent, n),
         NEW e \in Responses, ~IsEvent(e)
  PROVE  Reached(Append(out, e), sent, n)
<1> DEFINE q == Append(out, e)
<1>1. /\ q \in Seq(Responses) /\ Len(out) \in Nat /\ Len(q) = Len(out) + 1 /\ q[Len(q)] = e
      /\ \A i \in 1 .. Len(out) : q[i] = out[i]
  BY AppendProperties, LenProperties
<1> HIDE DEF q
<1>2. \A m \in 0 .. Len(out) : \A x : Seen(out, m, n, x) => Seen(q, m, n, x) /\ Seen(q, Len(q), n, x)
  BY <1>1 DEF Seen
<1>3. Seen(q, Len(q), n, sent)
  BY <1>1, <1>2 DEF Reached
<1>4. ASSUME NEW i \in 1 .. Len(q), IsEvent(q[i])
      PROVE  Seen(q, i - 1, n, q[i].id - 1)
  <2>1. i \in 1 .. Len(out) /\ i - 1 \in 0 .. Len(out) /\ q[i] = out[i]
    BY <1>1, <1>4
  <2>2. Seen(out, i - 1, n, out[i].id - 1)
    BY <1>4, <2>1 DEF Reached
  <2> QED
    BY <1>2, <2>1, <2>2
<1> QED
  BY <1>3, <1>4 DEF Reached, q

\* The event after the one sent last is sent.
LEMMA ReachedEvent ==
  ASSUME NEW out \in Seq(Responses), NEW sent \in Int, NEW n \in Int, Reached(out, sent, n),
         NEW e \in Responses, IsEvent(e), e.id = sent + 1
  PROVE  Reached(Append(out, e), sent + 1, n)
<1> DEFINE q == Append(out, e)
<1>1. /\ q \in Seq(Responses) /\ Len(out) \in Nat /\ Len(q) = Len(out) + 1 /\ q[Len(q)] = e
      /\ \A i \in 1 .. Len(out) : q[i] = out[i]
  BY AppendProperties, LenProperties
<1> HIDE DEF q
<1>2. \A m \in 0 .. Len(out) : \A x : Seen(out, m, n, x) => Seen(q, m, n, x)
  BY <1>1 DEF Seen
<1>3. Seen(q, Len(q), n, sent + 1)
  BY <1>1 DEF Seen
<1>4. ASSUME NEW i \in 1 .. Len(q), IsEvent(q[i])
      PROVE  Seen(q, i - 1, n, q[i].id - 1)
  <2>1. CASE i = Len(q)
    <3>1. q[i].id - 1 = sent /\ i - 1 = Len(out) /\ Len(out) \in 0 .. Len(out)
      BY <1>1, <2>1
    <3>2. Seen(out, Len(out), n, sent)
      BY DEF Reached
    <3> QED
      BY <1>2, <3>1, <3>2
  <2>2. CASE i # Len(q)
    <3>1. i \in 1 .. Len(out) /\ i - 1 \in 0 .. Len(out) /\ q[i] = out[i]
      BY <1>1, <2>2
    <3>2. Seen(out, i - 1, n, out[i].id - 1)
      BY <1>4, <3>1 DEF Reached
    <3> QED
      BY <1>2, <3>1, <3>2
  <2> QED
    BY <2>1, <2>2
<1> QED
  BY <1>3, <1>4 DEF Reached, q

\* The first response is delivered.
LEMMA ReachedTail ==
  ASSUME NEW out \in Seq(Responses), out # <<>>, NEW sent \in Int, NEW n \in Int, NEW m \in Int,
         Reached(out, sent, n), n <= m, IsEvent(Head(out)) => Head(out).id <= m
  PROVE  Reached(Tail(out), sent, m)
<1> DEFINE q == Tail(out)
<1>1. /\ q \in Seq(Responses) /\ Len(q) \in Nat /\ Len(out) = Len(q) + 1 /\ Head(out) = out[1]
      /\ \A i \in 1 .. Len(q) : q[i] = out[i + 1]
  BY HeadTailProperties, LenProperties
<1>2. \A i \in 1 .. Len(out) : IsEvent(out[i]) => out[i].id \in Int
  <2>1. \A i \in 1 .. Len(out) : out[i] \in Responses
    BY ElementOfSeq
  <2> QED
    BY <2>1 DEF Responses, IsEvent
<1> HIDE DEF q
<1>3. ASSUME NEW i \in 0 .. Len(q), NEW x \in Int, Seen(out, i + 1, n, x)
      PROVE  Seen(q, i, m, x)
  <2>1. CASE x <= n
    BY <2>1 DEF Seen
  <2>2. CASE ~(x <= n)
    <3>1. PICK j \in 1 .. i + 1 : IsEvent(out[j]) /\ out[j].id = x
      BY <1>3, <2>2 DEF Seen
    <3>2. CASE j = 1
      BY <1>1, <3>1, <3>2 DEF Seen
    <3>3. CASE j # 1
      <4>1. j - 1 \in 1 .. i /\ j - 1 \in 1 .. Len(q) /\ q[j - 1] = out[j]
        <5>1. j - 1 \in 1 .. i /\ j - 1 \in 1 .. Len(q) /\ (j - 1) + 1 = j
          BY <1>1, <3>3
        <5> QED
          BY <1>1, <5>1
      <4> QED
        BY <3>1, <4>1 DEF Seen
    <3> QED
      BY <3>2, <3>3
  <2> QED
    BY <2>1, <2>2
<1>4. Seen(q, Len(q), m, sent)
  BY <1>1, <1>3 DEF Reached
<1>5. ASSUME NEW i \in 1 .. Len(q), IsEvent(q[i])
      PROVE  Seen(q, i - 1, m, q[i].id - 1)
  <2>1. i + 1 \in 1 .. Len(out) /\ q[i] = out[i + 1] /\ i - 1 \in 0 .. Len(q)
        /\ (i - 1) + 1 = (i + 1) - 1
    BY <1>1
  <2>2. Seen(out, (i + 1) - 1, n, out[i + 1].id - 1)
    BY <1>5, <2>1 DEF Reached
  <2>3. q[i].id - 1 \in Int
    <3>1. out[i + 1].id \in Int
      BY <1>2, <1>5, <2>1, Zenon
    <3> QED
      BY <2>1, <3>1
  <2> QED
    BY <1>3, <2>1, <2>2, <2>3
<1> QED
  BY <1>4, <1>5 DEF Reached, q

\* What the operations of a protocol object send, and to which event they go back.
LEMMA SendEventReached ==
  ASSUME NEW k \in Connections, NEW id \in Nat, NEW last \in Ids, NEW n \in Ids, stream \in Nat,
         Reached(k.out, k.lastSent, n)
  PROVE  LET s == SendEvent(k, id, last) IN Reached(s.out, s.lastSent, n)
<1>1. CASE CanReceive(k, id)
  <2> DEFINE e == [id |-> id, latest |-> last, stream |-> stream]
             s == SendEvent(k, id, last)
  <2>1. s.out = Append(k.out, e) /\ s.lastSent = id
    BY <1>1 DEF SendEvent, Connections
  <2>2. e \in Responses /\ IsEvent(e) /\ e.id = id
    BY DEF Responses, IsEvent
  <2>3. id = k.lastSent + 1 /\ k.lastSent \in Int /\ k.out \in Seq(Responses) /\ n \in Int
    BY <1>1, Fields DEF CanReceive, NextExpected, Ids, None
  <2> HIDE DEF e, s
  <2>4. Reached(Append(k.out, e), k.lastSent + 1, n)
    BY <2>2, <2>3, ReachedEvent
  <2>5. Reached(s.out, s.lastSent, n)
    BY <2>1, <2>3, <2>4
  <2> QED
    BY <2>5 DEF s
<1>2. CASE ~CanReceive(k, id)
  BY <1>2 DEF SendEvent
<1> QED
  BY <1>1, <1>2

LEMMA SendNextReached ==
  ASSUME NEW k \in Connections, NEW n \in Ids, stream \in Nat, latest \in Ids,
         Reached(k.out, k.lastSent, n)
  PROVE  Reached(SendNext(k).out, SendNext(k).lastSent, n)
<1>1. CASE CanReceive(k, NextExpected(k)) /\ NextExpected(k) < size
  <2> DEFINE e == SendEvent(k, NextExpected(k), latest)
             s == SendNext(k)
  <2>1. e \in Connections
    BY Fields, SendEventLemma
  <2>2. Reached(e.out, e.lastSent, n)
    BY Fields, SendEventReached
  <2>3. s = [e EXCEPT !.calls = e.calls + 1]
    BY <1>1 DEF SendNext
  <2> HIDE DEF e, s
  <2>4. s.out = e.out /\ s.lastSent = e.lastSent
    BY <2>1, <2>3 DEF Connections
  <2>5. Reached(s.out, s.lastSent, n)
    BY <2>2, <2>4
  <2> QED
    BY <2>5 DEF s
<1>2. CASE ~(CanReceive(k, NextExpected(k)) /\ NextExpected(k) < size)
  BY <1>2 DEF SendNext
<1> QED
  BY <1>1, <1>2

LEMMA InvalidReached ==
  ASSUME NEW k \in Connections, NEW n \in Ids, NEW error \in InvalidTypes,
         Reached(k.out, k.lastSent, n)
  PROVE  Reached(Invalid(k, error).out, Invalid(k, error).lastSent, n)
<1> DEFINE e == [error |-> error]
           s == Invalid(k, error)
<1>1. s.out = Append(k.out, e) /\ s.lastSent = k.lastSent
  BY DEF Invalid, Connections
<1>2. e \in Responses /\ ~IsEvent(e)
  BY DEF Responses, IsEvent
<1>3. k.lastSent \in Int /\ k.out \in Seq(Responses) /\ n \in Int
  BY Fields DEF Ids, None
<1> HIDE DEF e, s
<1>4. Reached(s.out, s.lastSent, n)
  BY <1>1, <1>2, <1>3, ReachedError
<1> QED
  BY <1>4 DEF s

\* A request of the client goes back to an event that it has received.
LEMMA RewindReached ==
  ASSUME NEW k \in Connections, NEW n \in Ids, NEW id \in Ids, id <= n, NEW window \in Nat,
         Reached(k.out, k.lastSent, n)
  PROVE  LET s == UpdateAck(k, id, window)
             t == [k EXCEPT !.lastSent = id]
         IN  /\ s \in Connections /\ Reached(s.out, s.lastSent, n)
             /\ t \in Connections /\ Reached(t.out, t.lastSent, n)
<1> DEFINE s == UpdateAck(k, id, window)
           t == [k EXCEPT !.lastSent = id]
<1>1. s \in Connections /\ s.out = k.out /\ s.lastSent = id
  BY DEF UpdateAck, Connections
<1>2. t \in Connections /\ t.out = k.out /\ t.lastSent = id
  BY DEF Connections
<1> HIDE DEF s, t
<1>3. Reached(k.out, id, n)
  BY ReachedRewind
<1>4. Reached(s.out, s.lastSent, n) /\ Reached(t.out, t.lastSent, n)
  BY <1>1, <1>2, <1>3
<1> QED
  BY <1>1, <1>2, <1>4 DEF s, t

\* A request of a client that names an event it has received.
LEMMA OnMessageReached ==
  ASSUME IInv, NEW c \in Clients, NEW n \in Ids, NEW request \in Requests,
         request.type # "STOP_STREAM" => request.id <= n,
         Reached(conn[c].out, conn[c].lastSent, n), OnMessage(c, request)
  PROVE  /\ \A d \in Clients : d # c => conn'[d] = conn[d]
         /\ Reached(conn'[c].out, conn'[c].lastSent, n)
<1>1. conn \in [Clients -> Connections] /\ conn[c] \in Connections
      /\ stream \in Nat /\ size \in Nat /\ latest \in Ids
  BY DEF IInv, TypeOK
<1>2. ASSUME NEW k, conn' = [conn EXCEPT ![c] = k], Reached(k.out, k.lastSent, n)
      PROVE  /\ \A d \in Clients : d # c => conn'[d] = conn[d]
             /\ Reached(conn'[c].out, conn'[c].lastSent, n)
  <2>1. conn'[c] = k /\ \A d \in Clients : d # c => conn'[d] = conn[d]
    BY <1>1, <1>2
  <2> QED
    BY <1>2, <2>1
<1>3. CASE request.type = "START_STREAM" /\ StartStream(c, request.id, request.window)
  <2> DEFINE id == request.id
             t == [conn[c] EXCEPT !.lastSent = id]
             s == UpdateAck(conn[c], id, request.window)
  <2>1. request.id \in Ids /\ request.window \in Nat /\ request.id <= n
    BY <1>3 DEF Requests, Ids
  <2>2. /\ s \in Connections /\ Reached(s.out, s.lastSent, n)
        /\ t \in Connections /\ Reached(t.out, t.lastSent, n)
    BY <1>1, <2>1, RewindReached
  <2>3. \/ conn' = [conn EXCEPT ![c] = Invalid(t, "ACK_TOO_SMALL")]
        \/ conn' = [conn EXCEPT ![c] = SendNext(s)]
    BY <1>3 DEF StartStream
  <2> HIDE DEF s, t
  <2>4. "ACK_TOO_SMALL" \in InvalidTypes
    BY DEF InvalidTypes
  <2>5. Reached(Invalid(t, "ACK_TOO_SMALL").out, Invalid(t, "ACK_TOO_SMALL").lastSent, n)
    BY <2>2, <2>4, InvalidReached
  <2>6. Reached(SendNext(s).out, SendNext(s).lastSent, n)
    BY <1>1, <2>2, SendNextReached
  <2> QED
    BY <1>2, <2>3, <2>5, <2>6, Zenon
<1>4. CASE request.type = "ACK" /\ Ack(c, request.id, request.window)
  <2> DEFINE s == UpdateAck(conn[c], request.id, request.window)
  <2>1. request.id \in Ids /\ request.window \in Nat /\ request.id <= n
    BY <1>4 DEF Requests, Ids
  <2>2. s \in Connections /\ Reached(s.out, s.lastSent, n)
    BY <1>1, <2>1, RewindReached
  <2>3. \/ conn' = [conn EXCEPT ![c] = Invalid(conn[c], "ACK_TOO_SMALL")]
        \/ conn' = [conn EXCEPT ![c] = Invalid(conn[c], "ACK_TOO_LARGE")]
        \/ conn' = [conn EXCEPT ![c] = SendNext(s)]
    BY <1>4 DEF Ack
  <2> HIDE DEF s
  <2>4. ASSUME NEW error \in InvalidTypes
        PROVE  Reached(Invalid(conn[c], error).out, Invalid(conn[c], error).lastSent, n)
    BY <1>1, InvalidReached
  <2>5. "ACK_TOO_SMALL" \in InvalidTypes /\ "ACK_TOO_LARGE" \in InvalidTypes
    BY DEF InvalidTypes
  <2>6. Reached(SendNext(s).out, SendNext(s).lastSent, n)
    BY <1>1, <2>2, SendNextReached
  <2> QED
    BY <1>2, <2>3, <2>4, <2>5, <2>6, Zenon
<1>5. CASE StopStream(c)
  BY <1>5 DEF StopStream
<1>6. CASE Refuse(c, "STREAM_IS_ACTIVE") \/ Refuse(c, "STREAM_IS_INACTIVE")
  <2>1. PICK error \in InvalidTypes : Refuse(c, error)
    BY <1>6 DEF InvalidTypes
  <2>2. Reached(Invalid(conn[c], error).out, Invalid(conn[c], error).lastSent, n)
    BY <1>1, InvalidReached
  <2>3. conn' = [conn EXCEPT ![c] = Invalid(conn[c], error)]
    BY <2>1 DEF Refuse
  <2> QED
    BY <1>2, <2>2, <2>3, Zenon
<1> QED
  BY <1>3, <1>4, <1>5, <1>6, Zenon DEF OnMessage

\* The other steps of the node send the next event, or none.
LEMMA CallLaterReached ==
  ASSUME IInv, NEW c \in Clients, NEW n \in Ids,
         Reached(conn[c].out, conn[c].lastSent, n), CallLater(c)
  PROVE  /\ \A d \in Clients : d # c => conn'[d] = conn[d]
         /\ Reached(conn'[c].out, conn'[c].lastSent, n)
<1> DEFINE k == [conn[c] EXCEPT !.calls = conn[c].calls - 1]
           s == IF c \in active THEN SendNext(k) ELSE k
<1>1. conn \in [Clients -> Connections] /\ conn[c] \in Connections
      /\ stream \in Nat /\ latest \in Ids
  BY DEF IInv, TypeOK
<1>2. conn[c].calls > 0 /\ conn' = [conn EXCEPT ![c] = s]
  BY DEF CallLater
<1>3. conn[c].calls - 1 \in Nat
  BY <1>1, <1>2, Fields
<1>4. k \in Connections /\ k.out = conn[c].out /\ k.lastSent = conn[c].lastSent
  BY <1>1, <1>3 DEF Connections
<1> HIDE DEF k
<1>5. Reached(k.out, k.lastSent, n)
  BY <1>4
<1>6. Reached(SendNext(k).out, SendNext(k).lastSent, n)
  BY <1>1, <1>4, <1>5, SendNextReached
<1>7. Reached(s.out, s.lastSent, n)
  BY <1>5, <1>6
<1> HIDE DEF s
<1>8. conn'[c] = s /\ \A d \in Clients : d # c => conn'[d] = conn[d]
  BY <1>1, <1>2
<1> QED
  BY <1>7, <1>8

LEMMA EmitReached ==
  ASSUME IInv, NEW c \in Clients, NEW n \in Ids,
         Reached(conn[c].out, conn[c].lastSent, n), Emit
  PROVE  Reached(conn'[c].out, conn'[c].lastSent, n)
<1> DEFINE s == SendEvent(conn[c], size, size)
<1>1. conn[c] \in Connections /\ stream \in Nat /\ size \in Nat /\ size \in Ids
  BY DEF IInv, TypeOK, Ids
<1>2. conn'[c] = IF c \in active THEN s ELSE conn[c]
  BY DEF Emit, BroadcastEvent
<1>3. Reached(s.out, s.lastSent, n)
  BY <1>1, SendEventReached
<1> HIDE DEF s
<1> QED
  BY <1>2, <1>3

\* A response is delivered to a client, which may have received more by it.
LEMMA DeliverReached ==
  ASSUME IInv, NEW c \in Clients, NEW n \in Ids, NEW m \in Ids, n <= m,
         IsEvent(Head(conn[c].out)) => Head(conn[c].out).id <= m,
         Reached(conn[c].out, conn[c].lastSent, n), Deliver(c)
  PROVE  /\ \A d \in Clients : d # c => conn'[d] = conn[d]
         /\ Reached(conn'[c].out, conn'[c].lastSent, m)
<1> DEFINE s == [conn[c] EXCEPT !.out = Tail(conn[c].out)]
<1>1. conn \in [Clients -> Connections] /\ conn[c] \in Connections
  BY DEF IInv, TypeOK
<1>2. conn[c].out # <<>> /\ conn' = [conn EXCEPT ![c] = s]
  BY <1>1 DEF Deliver, Connections
<1>3. s.out = Tail(conn[c].out) /\ s.lastSent = conn[c].lastSent
  BY <1>1 DEF Connections
<1>4. conn[c].out \in Seq(Responses) /\ conn[c].lastSent \in Int /\ n \in Int /\ m \in Int
  BY <1>1, Fields DEF Ids, None
<1>5. Reached(Tail(conn[c].out), conn[c].lastSent, m)
  BY <1>2, <1>4, ReachedTail
<1> HIDE DEF s
<1>6. conn'[c] = s /\ \A d \in Clients : d # c => conn'[d] = conn[d]
  BY <1>1, <1>2
<1> QED
  BY <1>3, <1>5, <1>6

-----------------------------------------------------------------------------
(* The requests in flight *)

LEMMA AskedNothing ==
  ASSUME NEW n
  PROVE  Asked(<<>>, n)
BY DEF Asked

LEMMA AskedTail ==
  ASSUME NEW q \in Seq(Requests), q # <<>>, NEW n, Asked(q, n)
  PROVE  /\ Head(q).type # "STOP_STREAM" => Head(q).id <= n
         /\ Asked(Tail(q), n)
<1>1. /\ Len(Tail(q)) \in Nat /\ Len(q) = Len(Tail(q)) + 1 /\ Head(q) = q[1]
      /\ \A i \in 1 .. Len(Tail(q)) : Tail(q)[i] = q[i + 1]
  BY HeadTailProperties, LenProperties
<1>2. 1 \in 1 .. Len(q) /\ \A i \in 1 .. Len(Tail(q)) : i + 1 \in 1 .. Len(q)
  BY <1>1
<1> QED
  BY <1>1, <1>2 DEF Asked

LEMMA AskedAppend ==
  ASSUME NEW q \in Seq(Requests), NEW n, Asked(q, n), NEW r \in Requests,
         r.type # "STOP_STREAM" => r.id <= n
  PROVE  Asked(Append(q, r), n)
<1>1. /\ Len(q) \in Nat /\ Len(Append(q, r)) = Len(q) + 1 /\ Append(q, r)[Len(q) + 1] = r
      /\ \A i \in 1 .. Len(q) : Append(q, r)[i] = q[i]
  BY AppendProperties, LenProperties
<1> QED
  BY <1>1 DEF Asked

LEMMA AskedMore ==
  ASSUME NEW q \in Seq(Requests), NEW n \in Int, NEW m \in Int, n <= m, Asked(q, n)
  PROVE  Asked(q, m)
<1>1. ASSUME NEW i \in 1 .. Len(q), q[i].type # "STOP_STREAM"
      PROVE  q[i].id <= m
  <2>1. q[i] \in Requests
    BY ElementOfSeq
  <2>2. q[i].id \in Int
    BY <1>1, <2>1 DEF Requests, Ids, None
  <2> QED
    BY <1>1, <2>2 DEF Asked
<1> QED
  BY <1>1 DEF Asked

\* A new request names an event that was received.
LEMMA RequestAsked ==
  ASSUME ClientsTypeOK, NoGapInv, NEW c \in Clients, NEW r \in Requests,
         r.type # "STOP_STREAM" => r.id <= client[c].received, Request(c, r)
  PROVE  NoGapInv'
<1>1. requests' = [requests EXCEPT ![c] = Append(requests[c], r)]
      /\ conn' = conn /\ client' = client
  BY DEF Request, vars
<1>2. requests \in [Clients -> Seq(Requests)]
  BY DEF ClientsTypeOK
<1>3. Asked(Append(requests[c], r), client[c].received)
  BY <1>2, AskedAppend DEF NoGapInv
<1>4. \A d \in Clients : Asked(requests'[d], client[d].received)
  BY <1>1, <1>2, <1>3 DEF NoGapInv
<1> QED
  BY <1>1, <1>4 DEF NoGapInv, ReachedAt

-----------------------------------------------------------------------------
(* No event is missed *)

LEMMA ReceivedIds ==
  ASSUME ClientsTypeOK, NEW c \in Clients
  PROVE  client[c].received \in Ids /\ client[c].received \in Int
BY ClientFields DEF Ids, None

LEMMA RequestsNoGap ==
  ASSUME ClientsTypeOK, NoGapInv, NEW c \in Clients,
         \/ RequestStop(c)
         \/ \E w \in Windows : RequestStart(c, w) \/ \E id \in 0 .. MaxEvents : RequestAck(c, id, w)
  PROVE  NoGapInv'
<1>1. CASE RequestStop(c)
  <2> DEFINE r == [type |-> "STOP_STREAM"]
  <2>1. r \in Requests /\ r.type = "STOP_STREAM"
    BY DEF Requests
  <2>2. Request(c, r)
    BY <1>1 DEF RequestStop
  <2> HIDE DEF r
  <2> QED
    BY <2>1, <2>2, RequestAsked
<1>2. ASSUME NEW w \in Windows, RequestStart(c, w)
      PROVE  NoGapInv'
  <2> DEFINE r == [type |-> "START_STREAM", id |-> client[c].received, window |-> w]
  <2>1. r \in Requests /\ r.id <= client[c].received
    BY ReceivedIds, ClientsAssumption DEF Requests
  <2>2. Request(c, r)
    BY <1>2 DEF RequestStart
  <2> HIDE DEF r
  <2> QED
    BY <2>1, <2>2, RequestAsked
<1>3. ASSUME NEW w \in Windows, NEW id \in 0 .. MaxEvents, RequestAck(c, id, w)
      PROVE  NoGapInv'
  <2> DEFINE r == [type |-> "ACK", id |-> id, window |-> w]
  <2>1. id \in Nat /\ id <= client[c].received
    BY <1>3, ReceivedIds DEF RequestAck
  <2>2. r \in Requests /\ r.id <= client[c].received
    BY <2>1, ClientsAssumption DEF Requests
  <2>3. Request(c, r)
    BY <1>3 DEF RequestAck
  <2> HIDE DEF r
  <2> QED
    BY <2>2, <2>3, RequestAsked
<1> QED
  BY <1>1, <1>2, <1>3

\* A connection that ends leaves nothing in flight.
LEMMA CloseNoGap ==
  ASSUME IInv, ClientsTypeOK, NoGapInv, NEW c \in Clients, OnClose(c),
         client'[c].received \in Ids, \A d \in Clients : d # c => client'[d] = client[d],
         requests' = [requests EXCEPT ![c] = <<>>]
  PROVE  NoGapInv'
<1>1. conn' = [conn EXCEPT ![c] = NewConnection] /\ conn \in [Clients -> Connections]
      /\ requests \in [Clients -> Seq(Requests)]
  BY DEF OnClose, IInv, TypeOK, ClientsTypeOK
<1>2. conn'[c].out = <<>> /\ conn'[c].lastSent = None /\ requests'[c] = <<>>
  BY <1>1 DEF NewConnection
<1>3. \A d \in Clients : d # c => conn'[d] = conn[d] /\ requests'[d] = requests[d]
  BY <1>1
<1>4. ReachedAt(c)' /\ Asked(requests'[c], client'[c].received)
  BY <1>2, ReachedNew, AskedNothing DEF ReachedAt
<1>5. \A d \in Clients : d # c => ReachedAt(d)' /\ Asked(requests'[d], client'[d].received)
  BY <1>3 DEF NoGapInv, ReachedAt
<1> QED
  BY <1>4, <1>5 DEF NoGapInv

\* The steps of the node that leave the clients and their requests alone.
LEMMA NodeNoGap ==
  ASSUME IInv, ClientsTypeOK, NoGapInv, UNCHANGED <<client, requests>>,
         \/ UNCHANGED conn \/ Emit \/ \E c \in Clients : CallLater(c)
  PROVE  NoGapInv'
<1> SUFFICES ASSUME NEW d \in Clients PROVE ReachedAt(d)'
  BY DEF NoGapInv
<1>1. ReachedAt(d) /\ client[d].received \in Ids
  BY ReceivedIds DEF NoGapInv
<1>2. CASE UNCHANGED conn
  BY <1>1, <1>2 DEF ReachedAt
<1>3. CASE Emit
  BY <1>1, <1>3, EmitReached DEF ReachedAt
<1>4. ASSUME NEW c \in Clients, CallLater(c) PROVE ReachedAt(d)'
  <2>1. ReachedAt(c) /\ client[c].received \in Ids
    BY ReceivedIds DEF NoGapInv
  <2>2. /\ \A e \in Clients : e # c => conn'[e] = conn[e]
        /\ Reached(conn'[c].out, conn'[c].lastSent, client[c].received)
    BY <1>4, <2>1, CallLaterReached DEF ReachedAt
  <2> QED
    BY <1>1, <2>2 DEF ReachedAt
<1> QED
  BY <1>2, <1>3, <1>4

LEMMA NodeOnMessageNoGap ==
  ASSUME IInv, ClientsTypeOK, NoGapInv, NEW c \in Clients, NodeOnMessage(c)
  PROVE  NoGapInv'
<1>1. /\ OnMessage(c, Head(requests[c])) /\ requests[c] # <<>>
      /\ requests' = [requests EXCEPT ![c] = Tail(requests[c])] /\ client' = client
  BY DEF NodeOnMessage
<1>2. /\ requests \in [Clients -> Seq(Requests)] /\ requests[c] \in Seq(Requests)
      /\ client[c].received \in Ids
  BY ReceivedIds DEF ClientsTypeOK
<1>3. Head(requests[c]) \in Requests
  BY <1>1, <1>2, HeadTailProperties
<1>4. /\ Head(requests[c]).type # "STOP_STREAM" => Head(requests[c]).id <= client[c].received
      /\ Asked(Tail(requests[c]), client[c].received)
  BY <1>1, <1>2, AskedTail DEF NoGapInv
<1>5. /\ \A d \in Clients : d # c => conn'[d] = conn[d]
      /\ Reached(conn'[c].out, conn'[c].lastSent, client[c].received)
  BY <1>1, <1>2, <1>3, <1>4, OnMessageReached DEF NoGapInv, ReachedAt
<1>6. \A d \in Clients : Asked(requests'[d], client[d].received)
  BY <1>1, <1>2, <1>4 DEF NoGapInv
<1>7. \A d \in Clients : ReachedAt(d)'
  BY <1>1, <1>5 DEF NoGapInv, ReachedAt
<1> QED
  BY <1>1, <1>6, <1>7 DEF NoGapInv

\* A client receives an event, and with it all that is known to have been received.
LEMMA DeliverNoGap ==
  ASSUME IInv, ClientsTypeOK, NoGapInv, NEW c \in Clients, NEW m \in Ids, Deliver(c),
         client[c].received <= m, client'[c].received = m,
         \A d \in Clients : d # c => client'[d] = client[d],
         IsEvent(Head(conn[c].out)) => Head(conn[c].out).id <= m,
         UNCHANGED requests
  PROVE  NoGapInv'
<1>1. client[c].received \in Ids /\ client[c].received \in Int /\ m \in Int
  BY ReceivedIds DEF Ids, None
<1>2. /\ \A d \in Clients : d # c => conn'[d] = conn[d]
      /\ Reached(conn'[c].out, conn'[c].lastSent, m)
  BY <1>1, DeliverReached DEF NoGapInv, ReachedAt
<1>3. Asked(requests[c], m)
  BY <1>1, AskedMore DEF NoGapInv, ClientsTypeOK
<1> QED
  BY <1>2, <1>3 DEF NoGapInv, ReachedAt

LEMMA ReceiveNoGap ==
  ASSUME IInv, ClientsTypeOK, NoGapInv, NEW c \in Clients, ReceiveEvent(c) \/ ReceiveError(c)
  PROVE  NoGapInv'
<1> DEFINE e == Head(conn[c].out)
           n == client[c].received
<1>1. client \in [Clients -> ClientStates] /\ n \in Ids /\ n \in Int
  BY ReceivedIds DEF ClientsTypeOK
<1>2. e \in Responses
  <2>1. conn[c].out \in Seq(Responses) /\ conn[c].out # <<>>
    BY Fields DEF IInv, TypeOK, ReceiveEvent, ReceiveError
  <2> QED
    BY <2>1, HeadTailProperties
<1>3. CASE ReceiveEvent(c)
  <2> DEFINE m == IF e.id > n THEN e.id ELSE n
  <2>1. Deliver(c) /\ UNCHANGED requests /\ IsEvent(e)
    BY <1>3 DEF ReceiveEvent, IsEvent
  <2>2. e.id \in Nat
    BY <1>2, <2>1 DEF Responses, IsEvent
  <2>3. m \in Ids /\ n <= m /\ e.id <= m
    BY <1>1, <2>2 DEF Ids
  <2>4. client' = [client EXCEPT ![c] = [received |-> m, stream |-> e.stream, last |-> e.id]]
    BY <1>3 DEF ReceiveEvent
  <2> HIDE DEF m, e
  <2>5. client'[c].received = m /\ \A d \in Clients : d # c => client'[d] = client[d]
    BY <1>1, <2>4
  <2> QED
    BY <2>1, <2>3, <2>5, DeliverNoGap DEF e
<1>4. CASE ReceiveError(c)
  <2>1. Deliver(c) /\ UNCHANGED <<requests, client>> /\ "error" \in DOMAIN e
    BY <1>4 DEF ReceiveError, NodeStep
  <2>2. ~IsEvent(e)
    BY <1>2, <2>1 DEF Responses, IsEvent
  <2> QED
    BY <1>1, <2>1, <2>2, DeliverNoGap
<1> QED
  BY <1>3, <1>4

LEMMA StopNoGap ==
  ASSUME ClientsTypeOK, NodeStop
  PROVE  NoGapInv'
<1> SUFFICES ASSUME NEW c \in Clients
             PROVE  ReachedAt(c)' /\ Asked(requests'[c], client'[c].received)
  BY DEF NoGapInv
<1>1. conn'[c] = NewConnection /\ requests'[c] = <<>> /\ client' = client
  BY DEF NodeStop, Stop
<1>2. conn'[c].out = <<>> /\ conn'[c].lastSent = None
  BY <1>1 DEF NewConnection
<1> QED
  BY <1>1, <1>2, ReceivedIds, ReachedNew, AskedNothing DEF ReachedAt

LEMMA NoGapStep ==
  IInv /\ ClientsTypeOK /\ NoGapInv /\ [ClientNext]_allVars => NoGapInv'
<1> SUFFICES ASSUME IInv, ClientsTypeOK, NoGapInv, [ClientNext]_allVars PROVE NoGapInv'
  OBVIOUS
<1>1. CASE NodeStartNewStream \/ NodeStartResumed \/ UNCHANGED allVars
  <2>1. UNCHANGED <<conn, client, requests>>
    BY <1>1 DEF NodeStartNewStream, NodeStartResumed, NodeStep, StartNewStream, StartResumed,
                allVars, vars
  <2> QED
    BY <2>1, NodeNoGap
<1>2. CASE NodeEmit
  BY <1>2, NodeNoGap DEF NodeEmit, NodeStep
<1>3. CASE NodeStop
  BY <1>3, StopNoGap
<1>4. ASSUME NEW c \in Clients, NodeCallLater(c) PROVE NoGapInv'
  BY <1>4, NodeNoGap DEF NodeCallLater, NodeStep
<1>5. ASSUME NEW c \in Clients, NodeOnMessage(c) PROVE NoGapInv'
  BY <1>5, NodeOnMessageNoGap
<1>6. ASSUME NEW c \in Clients, Connect(c) PROVE NoGapInv'
  BY <1>6, NodeNoGap DEF Connect, NodeStep, OnOpen
<1>7. ASSUME NEW c \in Clients, Disconnect(c) PROVE NoGapInv'
  BY <1>7, CloseNoGap, ReceivedIds DEF Disconnect
<1>8. ASSUME NEW c \in Clients, ReceiveNewStream(c) PROVE NoGapInv'
  <2>1. client \in [Clients -> ClientStates] /\ client' = [client EXCEPT ![c] = Forgotten]
    BY <1>8 DEF ReceiveNewStream, ClientsTypeOK
  <2>2. client'[c].received \in Ids /\ \A d \in Clients : d # c => client'[d] = client[d]
    BY <2>1 DEF Forgotten, Ids
  <2> QED
    BY <1>8, <2>2, CloseNoGap DEF ReceiveNewStream
<1>9. ASSUME NEW c \in Clients, ReceiveEvent(c) \/ ReceiveError(c) PROVE NoGapInv'
  BY <1>9, ReceiveNoGap
<1>10. ASSUME NEW c \in Clients,
              \/ RequestStop(c)
              \/ \E w \in Windows :
                     RequestStart(c, w) \/ \E id \in 0 .. MaxEvents : RequestAck(c, id, w)
       PROVE  NoGapInv'
  BY <1>10, RequestsNoGap
<1> QED
  BY <1>1, <1>2, <1>3, <1>4, <1>5, <1>6, <1>7, <1>8, <1>9, <1>10, Zenon DEF ClientNext

LEMMA NoGapInit == ClientInit => NoGapInv
<1> SUFFICES ASSUME ClientInit, NEW c \in Clients
             PROVE  ReachedAt(c) /\ Asked(requests[c], client[c].received)
  BY DEF NoGapInv
<1>1. conn[c] = NewConnection /\ requests[c] = <<>> /\ client[c] = Forgotten
  BY DEF ClientInit, Init
<1>2. conn[c].out = <<>> /\ conn[c].lastSent = None /\ client[c].received \in Ids
  BY <1>1 DEF NewConnection, Forgotten, Ids
<1> QED
  BY <1>1, <1>2, ReachedNew, AskedNothing DEF ReachedAt

\* A client that follows the documentation never misses an event, however many clients
\* there are, whatever windows they use and however long the streams are.
THEOREM NoEventIsMissed == ClientSpec => []NextIsNoGap
<1>1. IInv /\ ClientsTypeOK /\ NoGapInv => NextIsNoGap
  <2> SUFFICES ASSUME IInv, ClientsTypeOK, NoGapInv, NEW c \in connections,
                      conn[c].out # <<>>, "id" \in DOMAIN Head(conn[c].out)
               PROVE  Head(conn[c].out).id <= client[c].received + 1
    BY DEF NextIsNoGap
  <2>1. c \in Clients /\ conn[c].out \in Seq(Responses)
    BY Fields DEF IInv, TypeOK
  <2>2. Head(conn[c].out) \in Responses /\ Head(conn[c].out) = conn[c].out[1] /\ Len(conn[c].out) \in Nat
        /\ 1 \in 1 .. Len(conn[c].out)
    BY <2>1, HeadTailProperties, LenProperties
  <2>3. Head(conn[c].out).id \in Nat /\ client[c].received \in Int
    BY <2>1, <2>2, ReceivedIds DEF Responses
  <2>4. Seen(conn[c].out, 1 - 1, client[c].received, Head(conn[c].out).id - 1)
    BY <2>1, <2>2 DEF NoGapInv, ReachedAt, Reached, IsEvent
  <2> QED
    BY <2>3, <2>4 DEF Seen
<1>2. ClientInit => IInv /\ ClientsTypeOK /\ NoGapInv
  BY ClientInitType, InitIInv, NoGapInit
<1>3. IInv /\ ClientsTypeOK /\ NoGapInv /\ [ClientNext]_allVars
        => IInv' /\ ClientsTypeOK' /\ NoGapInv'
  BY ClientNextStep, NextIInv, NoGapStep DEF IInv
<1> QED
  BY <1>1, <1>2, <1>3, PTL DEF ClientSpec

===============================================================================
