----------------------------- MODULE UdpxProofs -----------------------------
(***************************************************************************)
(* The theorems about module Udpx: for every number of clients, requests,  *)
(* identifiers and tries, and whatever allocations fail, the sockets have  *)
(* a buffer in exactly the states that say so, and implement the promise   *)
(* of RequestReply; only a failed allocation makes a client assert.        *)
(***************************************************************************)
EXTENDS Udpx, TLAPS

Ids == MsgIds \cup {NoRequest}
Buffers == Requests \cup {NoBuffer}
ClientStates == SocketStates \cup {"WAIT_ACK"}
Times == 0 .. FirstTimeout * MaxTries

ClientSockets == [state : ClientStates, buffer : Buffers, msgId : Ids,
                  timeLeft : Times, tries : 0 .. MaxTries]
ServerSockets == [state : SocketStates, buffer : Buffers, msgId : Ids,
                  ackRequest : BOOLEAN, raddr : Clients]

\* A client socket in order: its buffer matches its state, and while it waits there is a
\* try left for its timer to take.
ClientOK(s) ==
    /\ s \in ClientSockets
    /\ s.buffer # NoBuffer => s.state \in {"WAIT_ACK", "RX_DATA_PENDING", "RX_DATA_RECEIVED"}
    /\ s.buffer = NoBuffer =>
          \/ s.state \in {"IDLE", "RX_WAITING", "TIMED_OUT"}
          \/ s.state = "WAIT_ACK" /\ "recv_netmsg" \in FailingAllocs
    /\ s.state = "WAIT_ACK" => s.tries >= 1

ServerOK(s) ==
    /\ s \in ServerSockets
    /\ s.buffer # NoBuffer <=> s.state \in {"RX_DATA_PENDING", "RX_DATA_RECEIVED"}

ClientInv ==
    /\ client \in [Clients -> ClientSockets]
    /\ \A c \in Clients : ClientOK(client[c])
ThreadInv ==
    /\ app \in [Clients -> {"between", "waiting", "asserted"}]
    /\ asked \in [Clients -> 0 .. MaxRequests]
    /\ result \in [Clients -> 0 .. MaxRequests]
UdpxInv == network \subseteq Message /\ ClientInv /\ ServerOK(server) /\ ThreadInv

-----------------------------------------------------------------------------
\* The invariant is what the property says, and that there is a try left.
LEMMA UdpxInvGives == UdpxInv => SocketsSound
  BY DEF UdpxInv, ClientInv, ClientOK, ServerOK, ThreadInv, SocketsSound, UdpxTypeOK,
         BufferMatchesState, ClientSockets, ServerSockets, ClientStates, Buffers, Ids, Times

\* Data is never taken for the absence of a buffer.
LEMMA DataIsNoBuffer == \A d \in Requests : d # NoBuffer /\ d[2] \in 1 .. MaxRequests
<1> SUFFICES ASSUME NEW d \in Requests PROVE d # NoBuffer /\ d[2] \in 1 .. MaxRequests
  OBVIOUS
<1>1. PICK c \in Clients, n \in 1 .. MaxRequests : d = <<c, n>>
  BY DEF Requests
<1>2. d[2] \in 1 .. MaxRequests /\ DOMAIN d = 1 .. 2
  BY <1>1
<1>3. DOMAIN NoBuffer = 1 .. 0
  BY DEF NoBuffer
<1>4. 1 \in 1 .. 2 /\ 1 \notin 1 .. 0
  OBVIOUS
<1> QED
  BY <1>2, <1>3, <1>4

\* A timeout is never longer than the bound of the timer (sockets.c:1056).
LEMMA TimeoutIsBounded ==
    ASSUME NEW n \in 1 .. MaxTries
    PROVE  FirstTimeout * (MaxTries - n) \in Times
<1>1. FirstTimeout \in Nat /\ MaxTries \in Nat /\ n \in Nat /\ MaxTries - n \in Nat
  BY UdpxAssumption
<1>2. \A f, a, b \in Nat : f * (a + b) = f * a + f * b /\ f * a \in Nat /\ f * b \in Nat
  OBVIOUS
<1>3. FirstTimeout * ((MaxTries - n) + n) = FirstTimeout * (MaxTries - n) + FirstTimeout * n
  BY <1>1, <1>2
<1>4. (MaxTries - n) + n = MaxTries
  BY <1>1
<1>5. /\ FirstTimeout * MaxTries = FirstTimeout * (MaxTries - n) + FirstTimeout * n
      /\ FirstTimeout * (MaxTries - n) \in Nat /\ FirstTimeout * n \in Nat
  BY <1>1, <1>2, <1>3, <1>4
<1>6. \A p, q, r \in Int : p \in Nat /\ q \in Nat /\ r = p + q => p \in 0 .. r
  OBVIOUS
<1> QED
  BY <1>1, <1>5, <1>6 DEF Times

\* A socket with other tries is a socket.
LEMMA SocketRetried ==
    ASSUME NEW s \in ClientSockets, NEW time \in Times, NEW n \in 0 .. MaxTries
    PROVE  [s EXCEPT !.tries = n, !.timeLeft = time] \in ClientSockets
  BY DEF ClientSockets

\* A socket with everything new is a socket.
LEMMA SocketFilled ==
    ASSUME NEW s \in ClientSockets, NEW state \in ClientStates, NEW buffer \in Buffers,
           NEW id \in Ids, NEW time \in Times, NEW n \in 0 .. MaxTries
    PROVE  [s EXCEPT !.state = state, !.buffer = buffer, !.msgId = id,
                     !.timeLeft = time, !.tries = n] \in ClientSockets
  BY DEF ClientSockets

\* One client socket that stays in order leaves all of them in order.
LEMMA ClientStep ==
    ASSUME ClientInv, NEW c \in Clients, NEW s, ClientOK(s), client' = [client EXCEPT ![c] = s]
    PROVE  ClientInv'
  BY DEF ClientInv, ClientOK

-----------------------------------------------------------------------------
LEMMA UdpxInitOK == UdpxInit => UdpxInv
<1> SUFFICES ASSUME UdpxInit PROVE UdpxInv
  OBVIOUS
<1>1. 0 \in Times /\ 0 \in 0 .. MaxTries
  <2>1. \A f, a \in Nat : f * a \in Nat
    OBVIOUS
  <2> QED
    BY <2>1, UdpxAssumption DEF Times
<1>2. \A c \in Clients : ClientOK(client[c])
  BY <1>1 DEF UdpxInit, ClientOK, ClientSockets, ClientStates, SocketStates, Buffers, Ids
<1>3. ClientInv
  BY <1>1, <1>2 DEF UdpxInit, ClientInv, ClientSockets, ClientStates, SocketStates, Buffers, Ids
<1>4. ServerOK(server)
  BY DEF UdpxInit, ServerOK, ServerSockets, SocketStates, Buffers, Ids
<1> QED
  BY <1>3, <1>4, UdpxAssumption DEF UdpxInit, UdpxInv, ThreadInv, Timeout

\* sock_i16_sendto
LEMMA SendToOK ==
    ASSUME UdpxInv, NEW c \in Clients, SendTo(c)
    PROVE  UdpxInv'
<1>1. ClientOK(client[c]) /\ client \in [Clients -> ClientSockets]
  BY DEF UdpxInv, ClientInv
<1>2. PICK id \in MsgIds :
        \/ /\ client' = [client EXCEPT ![c] = Buffered(c, id)]
           /\ asked' = [asked EXCEPT ![c] = @ + 1]
        \/ /\ client' = [client EXCEPT ![c].msgId = id]
           /\ UNCHANGED asked
  BY DEF SendTo
<1>3. asked[c] + 1 \in 1 .. MaxRequests
  BY UdpxAssumption DEF SendTo, UdpxInv, ThreadInv
<1>4. ThreadInv'
  BY <1>2, <1>3 DEF SendTo, UdpxInv, ThreadInv
<1>5. ClientInv'
  <2>1. CASE client' = [client EXCEPT ![c] = Buffered(c, id)]
    <3>1. <<c, asked[c] + 1>> \in Requests /\ 0 \in Times
      <4>1. \A f, a \in Nat : f * a \in Nat
        OBVIOUS
      <4> QED
        BY <1>3, <4>1, UdpxAssumption DEF Requests, Times
    <3>2. Buffered(c, id) \in ClientSockets
      <4>1. /\ "WAIT_ACK" \in ClientStates /\ <<c, asked[c] + 1>> \in Buffers
            /\ id \in Ids /\ MaxTries \in 0 .. MaxTries
        BY <3>1, UdpxAssumption DEF ClientStates, Buffers, Ids
      <4> QED
        BY <1>1, <3>1, <4>1, SocketFilled DEF Buffered, ClientOK
    <3>3. /\ Buffered(c, id).state = "WAIT_ACK" /\ Buffered(c, id).buffer = <<c, asked[c] + 1>>
          /\ Buffered(c, id).tries = MaxTries
      BY <1>1 DEF Buffered, ClientSockets
    <3>4. ClientOK(Buffered(c, id))
      BY <3>1, <3>2, <3>3, DataIsNoBuffer, UdpxAssumption DEF ClientOK
    <3> QED
      BY <2>1, <3>4, ClientStep DEF UdpxInv
  <2>2. CASE client' = [client EXCEPT ![c].msgId = id]
    <3>1. ClientOK([client[c] EXCEPT !.msgId = id])
      BY <1>1 DEF ClientOK, ClientSockets, Ids
    <3> QED
      BY <2>2, <3>1, ClientStep DEF UdpxInv
  <2> QED
    BY <1>2, <2>1, <2>2
<1> QED
  BY <1>4, <1>5 DEF SendTo, UdpxInv

\* sock_i8_recvfrom
LEMMA RecvFromOK ==
    ASSUME UdpxInv, NEW c \in Clients, RecvFrom(c)
    PROVE  UdpxInv'
<1> DEFINE s == client[c]
<1>1. ClientOK(s) /\ client \in [Clients -> ClientSockets]
  BY DEF UdpxInv, ClientInv
<1>2. CASE s.state = "IDLE" /\ client' = [client EXCEPT ![c].state = "RX_WAITING"]
           /\ UNCHANGED <<app, result>>
  <2>1. ClientOK([s EXCEPT !.state = "RX_WAITING"])
    BY <1>1, <1>2 DEF ClientOK, ClientSockets, ClientStates, SocketStates
  <2> QED
    BY <1>2, <2>1, ClientStep DEF RecvFrom, UdpxInv, ThreadInv
<1>3. CASE /\ s.state = "RX_DATA_RECEIVED"
           /\ client' = [client EXCEPT ![c].state = "IDLE", ![c].buffer = NoBuffer]
           /\ UNCHANGED <<app, result>>
  <2>1. client' = [client EXCEPT ![c] = [s EXCEPT !.state = "IDLE", !.buffer = NoBuffer]]
    BY <1>1, <1>3
  <2>2. ClientOK([s EXCEPT !.state = "IDLE", !.buffer = NoBuffer])
    BY <1>1 DEF ClientOK, ClientSockets, ClientStates, SocketStates, Buffers
  <2> QED
    BY <1>3, <2>1, <2>2, ClientStep DEF RecvFrom, UdpxInv, ThreadInv
<1>4. CASE /\ s.state = "RX_DATA_PENDING"
           /\ client' = [client EXCEPT ![c].state = "RX_DATA_RECEIVED"]
           /\ result' = [result EXCEPT ![c] = s.buffer[2]]
           /\ app' = [app EXCEPT ![c] = "between"]
  <2>1. ClientOK([s EXCEPT !.state = "RX_DATA_RECEIVED"])
    BY <1>1, <1>4 DEF ClientOK, ClientSockets, ClientStates, SocketStates
  <2>2. s.buffer[2] \in 0 .. MaxRequests
    BY <1>1, <1>4, DataIsNoBuffer, UdpxAssumption DEF ClientOK, ClientSockets, Buffers
  <2> QED
    BY <1>4, <2>1, <2>2, ClientStep DEF RecvFrom, UdpxInv, ThreadInv
<1>5. CASE /\ s.state = "TIMED_OUT"
           /\ client' = [client EXCEPT ![c].state = "IDLE"]
           /\ result' = [result EXCEPT ![c] = Timeout]
           /\ app' = [app EXCEPT ![c] = "between"]
  <2>1. ClientOK([s EXCEPT !.state = "IDLE"])
    BY <1>1, <1>5 DEF ClientOK, ClientSockets, ClientStates, SocketStates
  <2>2. ClientInv'
    BY <1>5, <2>1, ClientStep DEF UdpxInv
  <2>3. Timeout \in 0 .. MaxRequests
    BY UdpxAssumption DEF Timeout
  <2>4. ThreadInv'
    BY <1>5, <2>3 DEF RecvFrom, UdpxInv, ThreadInv
  <2> QED
    BY <2>2, <2>4 DEF RecvFrom, UdpxInv
<1> QED
  BY <1>2, <1>3, <1>4, <1>5 DEF RecvFrom

\* udpx_timeout_thread: a waiting client has a try left, so the count does not wrap.
LEMMA TimeoutOK ==
    ASSUME UdpxInv, NEW c \in Clients,
           CountDown(c) \/ Retry(c) \/ RetryWithoutBuffer(c) \/ GiveUp(c)
    PROVE  UdpxInv'
<1> DEFINE s == client[c]
           left == s.tries - 1
<1>1. ClientOK(s) /\ client \in [Clients -> ClientSockets]
  BY DEF UdpxInv, ClientInv
<1>2. CASE CountDown(c)
  <2>1. s.timeLeft - 1 \in Times
    <3>1. \A f, a \in Nat : f * a \in Nat
      OBVIOUS
    <3>2. \A b \in Nat : \A n \in 0 .. b : n > 0 => n - 1 \in 0 .. b
      OBVIOUS
    <3>3. FirstTimeout * MaxTries \in Nat /\ s.timeLeft \in 0 .. FirstTimeout * MaxTries
          /\ s.timeLeft > 0
      BY <1>1, <1>2, <3>1, UdpxAssumption DEF ClientOK, ClientSockets, Times, CountDown
    <3> QED
      BY <3>2, <3>3 DEF Times
  <2>2. client' = [client EXCEPT ![c] = [s EXCEPT !.timeLeft = s.timeLeft - 1]]
    BY <1>1, <1>2 DEF CountDown
  <2>3. ClientOK([s EXCEPT !.timeLeft = s.timeLeft - 1])
    BY <1>1, <2>1 DEF ClientOK, ClientSockets
  <2> QED
    BY <1>2, <2>2, <2>3, ClientStep DEF CountDown, UdpxInv, ThreadInv
<1>3. CASE Retry(c)
  <2> DEFINE request == [kind |-> "request", client |-> c, id |-> s.msgId,
                         ack |-> TRUE, data |-> s.buffer]
             time == FirstTimeout * (MaxTries - left)
  <2>1. left \in 1 .. MaxTries
    BY <1>1, <1>3, UdpxAssumption DEF Retry, TriesLeft, ClientOK, ClientSockets
  <2>2. time \in Times
    BY <2>1, TimeoutIsBounded
  <2>3. client' = [client EXCEPT ![c] = [s EXCEPT !.tries = left, !.timeLeft = time]]
    BY <1>1, <1>3 DEF Retry
  <2> HIDE DEF left, time
  <2>4. [s EXCEPT !.tries = left, !.timeLeft = time] \in ClientSockets
    <3>1. s \in ClientSockets /\ left \in 0 .. MaxTries
      BY <1>1, <2>1, UdpxAssumption DEF ClientOK
    <3> QED
      BY <2>2, <3>1, SocketRetried
  <2>5. ClientOK([s EXCEPT !.tries = left, !.timeLeft = time])
    BY <1>1, <2>1, <2>4, UdpxAssumption DEF ClientOK, ClientSockets
  <2>6. request \in Message
    BY <1>1, <1>3 DEF Retry, ClientOK, ClientSockets, Buffers, Ids, Message
  <2>7. network' = network \cup {request}
    BY <1>3 DEF Retry
  <2> QED
    BY <1>3, <2>3, <2>5, <2>6, <2>7, ClientStep DEF Retry, UdpxInv, ThreadInv
<1>4. CASE RetryWithoutBuffer(c)
  BY <1>4 DEF RetryWithoutBuffer, UdpxInv, ClientInv, ThreadInv
<1>5. CASE GiveUp(c)
  <2> DEFINE next == [s EXCEPT !.tries = left, !.buffer = NoBuffer, !.state = "TIMED_OUT"]
  <2>1. left \in 0 .. MaxTries
    BY <1>1, <1>5, UdpxAssumption DEF GiveUp, Expired, ClientOK, ClientSockets
  <2>2. client' = [client EXCEPT ![c] = next]
    BY <1>1, <1>5 DEF GiveUp, BufferAfterLastTry
  <2> HIDE DEF left
  <2>3. ClientOK(next)
    BY <1>1, <2>1 DEF ClientOK, ClientSockets, ClientStates, SocketStates, Buffers
  <2> QED
    BY <1>5, <2>2, <2>3, ClientStep DEF GiveUp, UdpxInv, ThreadInv
<1> QED
  BY <1>2, <1>3, <1>4, <1>5

\* sock_v_recv_netmsg on a client socket
LEMMA ClientReceivesOK ==
    ASSUME UdpxInv, NEW m \in network, ClientReceives(m)
    PROVE  UdpxInv'
<1> DEFINE c == m.client
           s == client[c]
<1>1. c \in Clients /\ m.data \in Requests
  BY DEF UdpxInv, Message
<1>2. ClientOK(s) /\ client \in [Clients -> ClientSockets] /\ s.state = "WAIT_ACK"
  BY <1>1 DEF UdpxInv, ClientInv, ClientReceives, AcceptsReply
<1>3. CASE client' = [client EXCEPT ![c].state = "RX_DATA_PENDING", ![c].buffer = m.data]
  <2>1. client' = [client EXCEPT ![c] = [s EXCEPT !.state = "RX_DATA_PENDING", !.buffer = m.data]]
    BY <1>1, <1>2, <1>3
  <2>2. ClientOK([s EXCEPT !.state = "RX_DATA_PENDING", !.buffer = m.data])
    BY <1>1, <1>2, DataIsNoBuffer DEF ClientOK, ClientSockets, ClientStates, SocketStates, Buffers
  <2> QED
    BY <1>1, <2>1, <2>2, ClientStep DEF ClientReceives, UdpxInv, ThreadInv
<1>4. CASE "recv_netmsg" \in FailingAllocs /\ client' = [client EXCEPT ![c].buffer = NoBuffer]
  <2>1. ClientOK([s EXCEPT !.buffer = NoBuffer])
    BY <1>2, <1>4 DEF ClientOK, ClientSockets, Buffers
  <2> QED
    BY <1>1, <1>4, <2>1, ClientStep DEF ClientReceives, UdpxInv, ThreadInv
<1> QED
  BY <1>3, <1>4 DEF ClientReceives

\* sock_v_recv_netmsg on the server socket, and the server thread
LEMMA ServerReceivesOK ==
    ASSUME UdpxInv, NEW m \in network, ServerReceives(m)
    PROVE  UdpxInv'
<1>1. m \in Message /\ m.client \in Clients /\ m.data \in Requests /\ m.id \in Ids /\ m.ack \in BOOLEAN
  BY DEF UdpxInv, Message, Ids
<1>2. CASE server' = [state |-> "RX_DATA_PENDING", buffer |-> m.data, msgId |-> m.id,
                      ackRequest |-> m.ack, raddr |-> m.client]
  <2>1. ServerOK(server')
    BY <1>1, <1>2, DataIsNoBuffer DEF ServerOK, ServerSockets, SocketStates, Buffers
  <2> QED
    BY <2>1 DEF ServerReceives, UdpxInv, ClientInv, ThreadInv, ServerOK
<1>3. CASE server' = [server EXCEPT !.msgId = m.id, !.ackRequest = m.ack]
  <2>1. ServerOK(server')
    BY <1>1, <1>3 DEF UdpxInv, ServerOK, ServerSockets
  <2> QED
    BY <2>1 DEF ServerReceives, UdpxInv, ClientInv, ThreadInv, ServerOK
<1> QED
  BY <1>2, <1>3 DEF ServerReceives

LEMMA ServerNodeOK ==
    ASSUME UdpxInv, ServerNode
    PROVE  UdpxInv'
<1>1. ServerOK(server)
  BY DEF UdpxInv
<1>2. CASE ServerRecvFrom
  <2>1. ServerOK(server')
    BY <1>1, <1>2 DEF ServerRecvFrom, Released, ServerOK, ServerSockets, SocketStates, Buffers
  <2> QED
    BY <1>2, <2>1 DEF ServerRecvFrom, UdpxInv, ClientInv, ThreadInv, ServerOK
<1>3. CASE Reply
  <2> DEFINE reply == [kind |-> "reply", client |-> server.raddr, id |-> server.msgId,
                       ack |-> server.ackRequest, data |-> server.buffer]
  <2>1. ServerOK(server')
    BY <1>1, <1>3 DEF Reply, ServerOK, ServerSockets, SocketStates, Ids
  <2>2. reply \in Message
    BY <1>1, <1>3 DEF Reply, ServerOK, ServerSockets, Buffers, Ids, Message
  <2>3. network' = network \cup {reply}
    BY <1>3 DEF Reply
  <2> QED
    BY <1>3, <2>1, <2>2, <2>3 DEF Reply, UdpxInv, ClientInv, ThreadInv, ServerOK
<1>4. CASE NoReply
  <2>1. ServerOK(server')
    BY <1>1, <1>4 DEF NoReply, ServerOK, ServerSockets, SocketStates
  <2> QED
    BY <1>4, <2>1 DEF NoReply, UdpxInv, ClientInv, ThreadInv, ServerOK
<1> QED
  BY <1>2, <1>3, <1>4 DEF ServerNode

\* Every step keeps the invariant.
LEMMA UdpxInvStep == UdpxInv /\ [UdpxNext]_udpxVars => UdpxInv'
<1> SUFFICES ASSUME UdpxInv, [UdpxNext]_udpxVars PROVE UdpxInv'
  OBVIOUS
<1>1. CASE \E c \in Clients : SendTo(c) \/ ClientNode(c)
  BY <1>1, SendToOK, RecvFromOK, TimeoutOK DEF ClientNode
<1>2. CASE \E m \in network : ClientReceives(m) \/ ServerReceives(m)
  BY <1>2, ClientReceivesOK, ServerReceivesOK
<1>3. CASE ServerNode
  BY <1>3, ServerNodeOK
<1>4. CASE UNCHANGED udpxVars
  BY <1>4 DEF udpxVars, UdpxInv, ClientInv, ThreadInv, ServerOK
<1> QED
  BY <1>1, <1>2, <1>3, <1>4 DEF UdpxNext

LEMMA UdpxInvariant == UdpxSpec => []UdpxInv
  BY UdpxInitOK, UdpxInvStep, PTL DEF UdpxSpec

-----------------------------------------------------------------------------
\* However sends, replies, retries, timeouts and failed allocations meet, a socket has a
\* buffer in the states that say so and in no others: sock_v_recv_netmsg, sendto, recvfrom
\* and the retry thread together leak no buffer and release none twice.
THEOREM SocketsAreSound == UdpxSpec => []SocketsSound
  BY UdpxInvariant, UdpxInvGives, PTL

-----------------------------------------------------------------------------
(* The promise *)

\* Data belongs to the client it names and is a request that the client has made.
Made(data, c) == data[1] = c /\ data[2] \in 1 .. asked[c]

ClientRequest(c) ==
    LET s == client[c] IN
    /\ s.buffer # NoBuffer => Made(s.buffer, c)
    /\ result[c] <= asked[c]
    /\ app[c] = "between" => s.state \in {"IDLE", "RX_DATA_RECEIVED"}
    /\ app[c] = "asserted" => /\ s.state = "WAIT_ACK" /\ s.buffer = NoBuffer
                              /\ s.timeLeft = 0 /\ TriesLeft(c)
RequestInv ==
    /\ \A m \in network : Made(m.data, m.client)
    /\ server.buffer # NoBuffer => Made(server.buffer, server.raddr)
    /\ \A c \in Clients : ClientRequest(c)

\* What was made stays made, the clients but one being as they were.
LEMMA OthersKeep ==
    ASSUME UdpxInv, RequestInv, NEW c \in Clients,
           asked' = asked \/ asked' = [asked EXCEPT ![c] = asked[c] + 1],
           \A d \in Clients \ {c} : /\ client'[d] = client[d] /\ app'[d] = app[d]
                                    /\ result'[d] = result[d]
    PROVE  /\ \A d \in Clients : asked[d] <= asked'[d] /\ asked[d] \in Nat /\ asked'[d] \in Nat
           /\ \A m \in network : Made(m.data, m.client)'
           /\ UNCHANGED server => (server.buffer # NoBuffer => Made(server.buffer, server.raddr))'
           /\ \A d \in Clients \ {c} : ClientRequest(d)'
<1>1. \A d \in Clients : asked[d] <= asked'[d] /\ asked[d] \in Nat /\ asked'[d] \in Nat
  BY UdpxAssumption DEF UdpxInv, ThreadInv
<1>2. ASSUME NEW d \in Clients, NEW data, Made(data, d)
      PROVE  data[1] = d /\ data[2] \in 1 .. asked'[d]
  BY <1>1, <1>2 DEF Made
<1>3. \A m \in network : m.client \in Clients
  BY DEF UdpxInv, Message
<1>4. server.raddr \in Clients
  BY DEF UdpxInv, ServerOK, ServerSockets
<1>5. \A m \in network : Made(m.data, m.client)'
  BY <1>2, <1>3 DEF RequestInv, Made
<1>6. UNCHANGED server => (server.buffer # NoBuffer => Made(server.buffer, server.raddr))'
  BY <1>2, <1>4 DEF RequestInv, Made
<1>7. ASSUME NEW d \in Clients \ {c} PROVE ClientRequest(d)'
  <2>1. asked'[d] = asked[d]
    BY <1>7 DEF UdpxInv, ThreadInv
  <2> QED
    BY <1>7, <2>1 DEF RequestInv, ClientRequest, Made, TriesLeft
<1> QED
  BY <1>1, <1>5, <1>6, <1>7

Waits(c) == client[c].state = "WAIT_ACK"
Halted(c) == app[c] = "asserted"

\* A step that concerns one client is a step of the promise when it is one for that client.
LEMMA PromiseStep ==
    ASSUME UdpxInv, NEW c \in Clients,
           asked' = asked \/ asked' = [asked EXCEPT ![c] = asked[c] + 1],
           \A d \in Clients \ {c} : client'[d] = client[d] /\ app'[d] = app[d] /\ result'[d] = result[d],
           \/ /\ ~Waits(c) /\ ~Halted(c) /\ asked[c] < MaxRequests
              /\ asked' = [asked EXCEPT ![c] = asked[c] + 1] /\ Waits(c)'
              /\ Outcome(c)' = Outcome(c) /\ ~Halted(c)'
           \/ /\ Waits(c) /\ ~Halted(c) /\ asked' = asked /\ ~Waits(c)' /\ ~Halted(c)'
              /\ Outcome(c)' \in {Timeout} \cup 1 .. asked[c]
           \/ /\ Waits(c) /\ asked' = asked /\ Waits(c)' /\ Outcome(c)' = Outcome(c) /\ Halted(c)'
           \/ /\ asked' = asked /\ Waits(c)' = Waits(c) /\ Outcome(c)' = Outcome(c)
              /\ Halted(c)' = Halted(c)
    PROVE  [Promise!Next]_(Promise!vars)
<1> DEFINE waiting == [d \in Clients |-> client[d].state = "WAIT_ACK"]
           outcome == [d \in Clients |-> Outcome(d)]
           halted == [d \in Clients |-> app[d] = "asserted"]
<1>1. \A d \in Clients \ {c} : /\ waiting'[d] = waiting[d] /\ outcome'[d] = outcome[d]
                               /\ halted'[d] = halted[d]
  BY DEF Outcome
<1>2. CASE /\ ~Waits(c) /\ ~Halted(c) /\ asked[c] < MaxRequests
           /\ asked' = [asked EXCEPT ![c] = asked[c] + 1] /\ Waits(c)'
           /\ Outcome(c)' = Outcome(c) /\ ~Halted(c)'
  <2>1. waiting' = [waiting EXCEPT ![c] = TRUE]
    BY <1>1, <1>2 DEF Waits
  <2>2. UNCHANGED <<outcome, halted>>
    BY <1>1, <1>2 DEF Halted
  <2>3. Promise!Ask(c)
    BY <1>2, <2>1, <2>2 DEF Promise!Ask, Waits, Halted
  <2> QED
    BY <2>3 DEF Promise!Next
<1>3. CASE /\ Waits(c) /\ ~Halted(c) /\ asked' = asked /\ ~Waits(c)' /\ ~Halted(c)'
           /\ Outcome(c)' \in {Timeout} \cup 1 .. asked[c]
  <2>1. waiting' = [waiting EXCEPT ![c] = FALSE]
    BY <1>1, <1>3 DEF Waits
  <2>2. UNCHANGED halted
    BY <1>1, <1>3 DEF Halted
  <2>3. outcome' = [outcome EXCEPT ![c] = Outcome(c)']
    BY <1>1
  <2>4. Timeout = Promise!Timeout
    BY DEF Timeout, Promise!Timeout
  <2>5. Promise!End(c)
    BY <1>3, <2>1, <2>2, <2>3, <2>4 DEF Promise!End, Waits, Halted
  <2> QED
    BY <2>5 DEF Promise!Next
<1>4. CASE Waits(c) /\ asked' = asked /\ Waits(c)' /\ Outcome(c)' = Outcome(c) /\ Halted(c)'
  <2>1. halted' = [halted EXCEPT ![c] = TRUE]
    BY <1>1, <1>4 DEF Halted
  <2>2. UNCHANGED <<outcome, waiting>>
    BY <1>1, <1>4 DEF Waits
  <2>3. Promise!Halt(c)
    BY <1>4, <2>1, <2>2 DEF Promise!Halt, Waits
  <2> QED
    BY <2>3 DEF Promise!Next
<1>5. CASE /\ asked' = asked /\ Waits(c)' = Waits(c) /\ Outcome(c)' = Outcome(c)
           /\ Halted(c)' = Halted(c)
  BY <1>1, <1>5 DEF Waits, Halted, Promise!vars
<1> QED
  BY <1>2, <1>3, <1>4, <1>5

\* A step of one client that neither sends nor makes more requests leaves the rest in order.
LEMMA ClientStepKeeps ==
    ASSUME UdpxInv, RequestInv, NEW c \in Clients, UNCHANGED <<asked, server>>,
           network' \subseteq network \cup {m \in Message : Made(m.data, m.client)},
           \A d \in Clients \ {c} : client'[d] = client[d] /\ app'[d] = app[d] /\ result'[d] = result[d],
           ClientRequest(c)'
    PROVE  RequestInv'
<1>1. /\ \A m \in network : Made(m.data, m.client)'
      /\ (server.buffer # NoBuffer => Made(server.buffer, server.raddr))'
      /\ \A d \in Clients \ {c} : ClientRequest(d)'
  BY OthersKeep
<1>2. \A m \in network' : Made(m.data, m.client)'
  BY <1>1 DEF Made
<1> QED
  BY <1>1, <1>2 DEF RequestInv

LEMMA SendToKeeps ==
    ASSUME UdpxInv, RequestInv, NEW c \in Clients, SendTo(c)
    PROVE  RequestInv' /\ [Promise!Next]_(Promise!vars)
<1>1. ClientRequest(c) /\ client[c] \in ClientSockets /\ client \in [Clients -> ClientSockets]
  BY DEF RequestInv, UdpxInv, ClientInv
<1>2. PICK id \in MsgIds :
        \/ /\ client' = [client EXCEPT ![c] = Buffered(c, id)]
           /\ asked' = [asked EXCEPT ![c] = @ + 1]
        \/ /\ client' = [client EXCEPT ![c].msgId = id]
           /\ UNCHANGED asked
  BY DEF SendTo
<1>3. /\ app' = [app EXCEPT ![c] = "waiting"] /\ UNCHANGED <<network, server, result>>
      /\ app[c] = "between" /\ asked[c] < MaxRequests
      /\ app \in [Clients -> {"between", "waiting", "asserted"}]
      /\ asked \in [Clients -> 0 .. MaxRequests]
  BY DEF SendTo, UdpxInv, ThreadInv
<1>4. \A d \in Clients \ {c} : client'[d] = client[d] /\ app'[d] = app[d] /\ result'[d] = result[d]
  BY <1>1, <1>2, <1>3
<1>5. /\ \A m \in network : Made(m.data, m.client)'
      /\ (server.buffer # NoBuffer => Made(server.buffer, server.raddr))'
      /\ \A d \in Clients \ {c} : ClientRequest(d)'
      /\ asked[c] <= asked'[c] /\ asked[c] \in Nat /\ asked'[c] \in Nat
  BY <1>2, <1>3, <1>4, OthersKeep
<1>6. client[c].state \in {"IDLE", "RX_DATA_RECEIVED"} /\ app'[c] = "waiting"
  BY <1>1, <1>3 DEF ClientRequest
<1>7. result[c] <= asked'[c]
  BY <1>1, <1>2, <1>3, <1>5, UdpxAssumption DEF ClientRequest, UdpxInv, ThreadInv
<1>8. CASE /\ client' = [client EXCEPT ![c] = Buffered(c, id)]
           /\ asked' = [asked EXCEPT ![c] = @ + 1]
  <2>1. client'[c].state = "WAIT_ACK" /\ client'[c].buffer = <<c, asked'[c]>> /\ asked'[c] >= 1
    BY <1>1, <1>3, <1>8, UdpxAssumption DEF Buffered, ClientSockets
  <2>2. ClientRequest(c)'
    <3>1. <<c, asked'[c]>>[1] = c /\ <<c, asked'[c]>>[2] = asked'[c]
      OBVIOUS
    <3>2. Made(client[c].buffer, c)'
      BY <1>5, <2>1, <3>1 DEF Made
    <3> QED
      BY <1>3, <1>6, <1>7, <2>1, <3>2 DEF ClientRequest
  <2>3. /\ ~Waits(c) /\ ~Halted(c) /\ Waits(c)' /\ ~Halted(c)' /\ Outcome(c)' = Outcome(c)
    BY <1>3, <1>6, <2>1 DEF Waits, Halted, Outcome
  <2>4. [Promise!Next]_(Promise!vars)
    BY <1>3, <1>4, <1>8, <2>3, PromiseStep
  <2> QED
    BY <1>3, <1>5, <2>2, <2>4 DEF RequestInv
<1>9. CASE client' = [client EXCEPT ![c].msgId = id] /\ UNCHANGED asked
  <2>1. client'[c].state = client[c].state /\ client'[c].buffer = client[c].buffer
    BY <1>1, <1>9 DEF ClientSockets
  <2>2. ClientRequest(c)'
    BY <1>1, <1>3, <1>6, <1>7, <1>9, <2>1 DEF ClientRequest, Made
  <2>3. Waits(c)' = Waits(c) /\ Outcome(c)' = Outcome(c) /\ Halted(c)' = Halted(c)
    BY <1>3, <1>6, <2>1 DEF Waits, Halted, Outcome
  <2>4. [Promise!Next]_(Promise!vars)
    BY <1>4, <1>9, <2>3, PromiseStep
  <2> QED
    BY <1>3, <1>5, <2>2, <2>4 DEF RequestInv
<1> QED
  BY <1>2, <1>8, <1>9

LEMMA RecvFromKeeps ==
    ASSUME UdpxInv, RequestInv, NEW c \in Clients, RecvFrom(c)
    PROVE  RequestInv' /\ [Promise!Next]_(Promise!vars)
<1> DEFINE s == client[c]
           t == client'[c]
<1>1. /\ ClientRequest(c) /\ ClientOK(s) /\ s \in ClientSockets
      /\ client \in [Clients -> ClientSockets]
      /\ app \in [Clients -> {"between", "waiting", "asserted"}]
      /\ result \in [Clients -> 0 .. MaxRequests] /\ asked[c] \in Nat
  BY UdpxAssumption DEF RequestInv, UdpxInv, ClientInv, ClientOK, ThreadInv
<1>2. /\ \A d \in Clients \ {c} : client'[d] = client[d] /\ app'[d] = app[d] /\ result'[d] = result[d]
      /\ app[c] = "waiting" /\ app'[c] # "asserted" /\ UNCHANGED <<network, server, asked>>
  BY <1>1 DEF RecvFrom
<1>3. /\ t.state \in {"IDLE", "RX_WAITING", "RX_DATA_RECEIVED"}
      /\ t.buffer \in {s.buffer, NoBuffer} /\ s.state # "WAIT_ACK"
      /\ app'[c] = "between" => t.state \in {"IDLE", "RX_DATA_RECEIVED"}
      /\ result'[c] = Outcome(c) /\ Outcome(c) <= asked[c]
  <2>1. CASE s.state = "IDLE"
    BY <1>1, <1>2, <2>1 DEF RecvFrom, ClientSockets, Outcome, ClientRequest
  <2>2. CASE s.state = "RX_DATA_RECEIVED"
    BY <1>1, <1>2, <2>2 DEF RecvFrom, ClientSockets, Outcome, ClientRequest
  <2>3. CASE s.state = "RX_DATA_PENDING"
    <3>1. s.buffer # NoBuffer
      BY <1>1, <2>3 DEF ClientOK
    <3>2. Outcome(c) = s.buffer[2] /\ s.buffer[2] <= asked[c]
      BY <1>1, <2>3, <3>1 DEF Outcome, ClientRequest, Made
    <3> QED
      BY <1>1, <2>3, <3>2 DEF RecvFrom, ClientSockets
  <2>4. CASE s.state = "TIMED_OUT"
    BY <1>1, <1>2, <2>4 DEF RecvFrom, ClientSockets, Outcome, Timeout
  <2> QED
    BY <2>1, <2>2, <2>3, <2>4 DEF RecvFrom
<1>4. ClientRequest(c)'
  BY <1>1, <1>2, <1>3 DEF ClientRequest, Made
<1>5. Waits(c)' = Waits(c) /\ Outcome(c)' = Outcome(c) /\ Halted(c)' = Halted(c)
  BY <1>2, <1>3 DEF Waits, Halted, Outcome
<1>6. [Promise!Next]_(Promise!vars)
  BY <1>2, <1>5, PromiseStep
<1> QED
  BY <1>2, <1>4, <1>6, ClientStepKeeps

LEMMA TimeoutKeeps ==
    ASSUME UdpxInv, RequestInv, NEW c \in Clients,
           CountDown(c) \/ Retry(c) \/ RetryWithoutBuffer(c) \/ GiveUp(c)
    PROVE  RequestInv' /\ [Promise!Next]_(Promise!vars)
<1> DEFINE s == client[c]
           t == client'[c]
<1>1. /\ ClientRequest(c) /\ ClientOK(s) /\ s \in ClientSockets
      /\ client \in [Clients -> ClientSockets]
      /\ app \in [Clients -> {"between", "waiting", "asserted"}] /\ asked[c] \in Nat
  BY UdpxAssumption DEF RequestInv, UdpxInv, ClientInv, ClientOK, ThreadInv
<1>2. /\ \A d \in Clients \ {c} : client'[d] = client[d] /\ app'[d] = app[d] /\ result'[d] = result[d]
      /\ UNCHANGED <<server, asked, result>> /\ s.state = "WAIT_ACK" /\ app[c] # "between"
  BY <1>1 DEF CountDown, Retry, RetryWithoutBuffer, GiveUp, Expired, ClientRequest
<1>3. CASE CountDown(c) \/ Retry(c)
  <2>1. /\ t.state = "WAIT_ACK" /\ t.buffer = s.buffer /\ UNCHANGED app
    BY <1>1, <1>2, <1>3 DEF CountDown, Retry, ClientSockets
  <2>2. app[c] # "asserted"
    BY <1>1, <1>3 DEF CountDown, Retry, ClientRequest, ClientOK, ClientSockets
  <2>3. network' \subseteq network \cup {m \in Message : Made(m.data, m.client)}
    <3>1. CASE CountDown(c)
      BY <3>1 DEF CountDown
    <3>2. CASE Retry(c)
      <4> DEFINE request == [kind |-> "request", client |-> c, id |-> s.msgId,
                             ack |-> TRUE, data |-> s.buffer]
      <4>1. request \in Message
        BY <1>1, <3>2 DEF Retry, ClientSockets, Buffers, Ids, Message
      <4>2. Made(request.data, request.client)
        BY <1>1, <3>2 DEF Retry, ClientRequest
      <4> QED
        BY <3>2, <4>1, <4>2 DEF Retry
    <3> QED
      BY <1>3, <3>1, <3>2
  <2>4. ClientRequest(c)'
    BY <1>1, <1>2, <2>1, <2>2 DEF ClientRequest, Made
  <2>5. Waits(c)' = Waits(c) /\ Outcome(c)' = Outcome(c) /\ Halted(c)' = Halted(c)
    BY <1>2, <2>1 DEF Waits, Halted, Outcome
  <2>6. [Promise!Next]_(Promise!vars)
    BY <1>2, <2>5, PromiseStep
  <2> QED
    BY <1>2, <2>3, <2>4, <2>6, ClientStepKeeps
<1>4. CASE RetryWithoutBuffer(c)
  <2>1. /\ UNCHANGED <<network, client>> /\ app'[c] = "asserted" /\ TriesLeft(c)
        /\ s.buffer = NoBuffer /\ s.timeLeft = 0
    BY <1>1, <1>4 DEF RetryWithoutBuffer, Expired
  <2>2. ClientRequest(c)'
    BY <1>1, <1>2, <2>1 DEF ClientRequest, Made, TriesLeft
  <2>3. Waits(c) /\ Waits(c)' /\ Outcome(c)' = Outcome(c) /\ Halted(c)'
    BY <1>2, <2>1 DEF Waits, Halted, Outcome
  <2>4. [Promise!Next]_(Promise!vars)
    BY <1>2, <2>3, PromiseStep
  <2> QED
    BY <1>2, <2>1, <2>2, <2>4, ClientStepKeeps
<1>5. CASE GiveUp(c)
  <2>1. /\ UNCHANGED <<network, app>> /\ t.state = "TIMED_OUT" /\ t.buffer = NoBuffer
        /\ app[c] # "asserted"
    BY <1>1, <1>5 DEF GiveUp, BufferAfterLastTry, ClientSockets, ClientRequest
  <2>2. ClientRequest(c)'
    BY <1>1, <1>2, <2>1 DEF ClientRequest, Made
  <2>3. /\ Waits(c) /\ ~Halted(c) /\ ~Waits(c)' /\ ~Halted(c)'
        /\ Outcome(c)' \in {Timeout} \cup 1 .. asked[c]
    BY <1>2, <2>1 DEF Waits, Halted, Outcome
  <2>4. [Promise!Next]_(Promise!vars)
    BY <1>2, <2>3, PromiseStep
  <2> QED
    BY <1>2, <2>1, <2>2, <2>4, ClientStepKeeps
<1> QED
  BY <1>3, <1>4, <1>5

LEMMA ClientReceivesKeeps ==
    ASSUME UdpxInv, RequestInv, NEW m \in network, ClientReceives(m)
    PROVE  RequestInv' /\ [Promise!Next]_(Promise!vars)
<1> DEFINE c == m.client
           s == client[c]
           t == client'[c]
<1>1. c \in Clients /\ m.data \in Requests
  BY DEF UdpxInv, Message
<1>2. /\ ClientRequest(c) /\ ClientOK(s) /\ s \in ClientSockets /\ Made(m.data, c)
      /\ client \in [Clients -> ClientSockets] /\ asked[c] \in Nat
  BY <1>1, UdpxAssumption DEF RequestInv, UdpxInv, ClientInv, ClientOK, ThreadInv
<1>3. /\ \A d \in Clients \ {c} : client'[d] = client[d] /\ app'[d] = app[d] /\ result'[d] = result[d]
      /\ UNCHANGED <<network, server, app, asked, result>>
      /\ s.state = "WAIT_ACK" /\ app[c] \notin {"between", "asserted"}
  BY <1>1, <1>2 DEF ClientReceives, AcceptsReply, ClientRequest
<1>4. CASE client' = [client EXCEPT ![c].state = "RX_DATA_PENDING", ![c].buffer = m.data]
  <2>1. t.state = "RX_DATA_PENDING" /\ t.buffer = m.data /\ m.data # NoBuffer
    BY <1>1, <1>2, <1>4, DataIsNoBuffer DEF ClientSockets
  <2>2. ClientRequest(c)'
    BY <1>1, <1>2, <1>3, <2>1 DEF ClientRequest, Made
  <2>3. /\ Waits(c) /\ ~Halted(c) /\ ~Waits(c)' /\ ~Halted(c)'
        /\ Outcome(c)' \in {Timeout} \cup 1 .. asked[c]
    BY <1>2, <1>3, <2>1 DEF Waits, Halted, Outcome, Made
  <2>4. [Promise!Next]_(Promise!vars)
    BY <1>1, <1>3, <2>3, PromiseStep
  <2> QED
    BY <1>1, <1>3, <2>2, <2>4, ClientStepKeeps
<1>5. CASE client' = [client EXCEPT ![c].buffer = NoBuffer]
  <2>1. t.state = "WAIT_ACK" /\ t.buffer = NoBuffer
    BY <1>1, <1>2, <1>3, <1>5 DEF ClientSockets
  <2>2. ClientRequest(c)'
    BY <1>1, <1>2, <1>3, <2>1 DEF ClientRequest, Made
  <2>3. Waits(c)' = Waits(c) /\ Outcome(c)' = Outcome(c) /\ Halted(c)' = Halted(c)
    BY <1>3, <2>1 DEF Waits, Halted, Outcome
  <2>4. [Promise!Next]_(Promise!vars)
    BY <1>1, <1>3, <2>3, PromiseStep
  <2> QED
    BY <1>1, <1>3, <2>2, <2>4, ClientStepKeeps
<1> QED
  BY <1>4, <1>5 DEF ClientReceives

LEMMA ServerKeeps ==
    ASSUME UdpxInv, RequestInv, ServerNode \/ \E m \in network : ServerReceives(m)
    PROVE  RequestInv' /\ [Promise!Next]_(Promise!vars)
<1>1. /\ UNCHANGED <<client, app, asked, result>>
      /\ server \in ServerSockets /\ ServerOK(server)
  BY DEF ServerNode, ServerRecvFrom, Reply, NoReply, ServerReceives, UdpxInv, ServerOK
<1>2. /\ \A m \in network' : Made(m.data, m.client)
      /\ server'.buffer # NoBuffer => Made(server'.buffer, server'.raddr)
  <2>1. CASE \E m \in network : ServerReceives(m)
    <3>1. PICK m \in network : ServerReceives(m)
      BY <2>1
    <3>2. \/ server'.buffer = m.data /\ server'.raddr = m.client
          \/ server'.buffer = server.buffer /\ server'.raddr = server.raddr
      <4>1. CASE server' = [state |-> "RX_DATA_PENDING", buffer |-> m.data, msgId |-> m.id,
                            ackRequest |-> m.ack, raddr |-> m.client]
        BY <4>1
      <4>2. CASE server' = [server EXCEPT !.msgId = m.id, !.ackRequest = m.ack]
        BY <1>1, <4>2 DEF ServerSockets
      <4> QED
        BY <3>1, <4>1, <4>2 DEF ServerReceives
    <3>3. Made(m.data, m.client) /\ UNCHANGED network
      BY <3>1 DEF ServerReceives, RequestInv
    <3> QED
      BY <3>2, <3>3 DEF RequestInv
  <2>2. CASE ServerRecvFrom
    BY <1>1, <2>2 DEF ServerRecvFrom, Released, ServerSockets, RequestInv
  <2>3. CASE NoReply
    BY <1>1, <2>3 DEF NoReply, ServerSockets, RequestInv
  <2>4. CASE Reply
    <3>1. server.buffer # NoBuffer /\ server'.buffer = server.buffer /\ server'.raddr = server.raddr
      BY <1>1, <2>4 DEF Reply, ServerOK, ServerSockets
    <3> QED
      BY <2>4, <3>1 DEF Reply, RequestInv
  <2> QED
    BY <2>1, <2>2, <2>3, <2>4 DEF ServerNode
<1>3. RequestInv'
  BY <1>1, <1>2 DEF RequestInv, ClientRequest, Made, TriesLeft
<1>4. UNCHANGED Promise!vars
  BY <1>1 DEF Promise!vars, Outcome
<1> QED
  BY <1>3, <1>4

LEMMA RequestInvInit == UdpxInit => RequestInv
<1> SUFFICES ASSUME UdpxInit PROVE RequestInv
  OBVIOUS
<1>1. server.buffer = NoBuffer /\ network = {}
  BY DEF UdpxInit
<1>2. \A c \in Clients : /\ client[c].buffer = NoBuffer /\ client[c].state = "IDLE"
                         /\ app[c] = "between" /\ result[c] = 0 /\ asked[c] = 0
  BY DEF UdpxInit, Timeout
<1> QED
  BY <1>1, <1>2 DEF RequestInv, ClientRequest

LEMMA RequestStep ==
    UdpxInv /\ RequestInv /\ [UdpxNext]_udpxVars => RequestInv' /\ [Promise!Next]_(Promise!vars)
<1> SUFFICES ASSUME UdpxInv, RequestInv, [UdpxNext]_udpxVars
             PROVE  RequestInv' /\ [Promise!Next]_(Promise!vars)
  OBVIOUS
<1>1. CASE \E c \in Clients : SendTo(c) \/ ClientNode(c)
  BY <1>1, SendToKeeps, RecvFromKeeps, TimeoutKeeps DEF ClientNode
<1>2. CASE \E m \in network : ClientReceives(m)
  BY <1>2, ClientReceivesKeeps
<1>3. CASE ServerNode \/ \E m \in network : ServerReceives(m)
  BY <1>3, ServerKeeps
<1>4. CASE UNCHANGED udpxVars
  <2>1. RequestInv'
    BY <1>4 DEF udpxVars, RequestInv, ClientRequest, Made, TriesLeft
  <2>2. UNCHANGED Promise!vars
    BY <1>4 DEF udpxVars, Promise!vars, Outcome
  <2> QED
    BY <2>1, <2>2
<1> QED
  BY <1>1, <1>2, <1>3, <1>4 DEF UdpxNext

LEMMA RequestInvariant == UdpxSpec => []RequestInv
  BY UdpxInvariant, RequestInvInit, RequestStep, PTL DEF UdpxSpec

\* Client sockets implement the promise of RequestReply, however many messages are late,
\* repeated or lost and whatever allocations fail: a request that the socket took ends once,
\* with an answer to a request of its client or with a timeout, or its node asserts while it
\* waits (sockets.c 834-851, 1038-1072).
THEOREM PromiseIsKept == UdpxSpec => KeepsPromise
<1>1. UdpxInit => Promise!Init
  <2> SUFFICES ASSUME UdpxInit PROVE Promise!Init
    OBVIOUS
  <2>1. \A c \in Clients : client[c].state = "IDLE" /\ result[c] = 0 /\ app[c] = "between"
    BY DEF UdpxInit, Timeout
  <2>2. \A c \in Clients : Outcome(c) = Promise!Timeout
    BY <2>1 DEF Outcome, Promise!Timeout
  <2>3. [c \in Clients |-> Outcome(c)] = [c \in Clients |-> Promise!Timeout]
    BY <2>2
  <2>4. \A c \in Clients : (client[c].state = "WAIT_ACK") = FALSE /\ (app[c] = "asserted") = FALSE
    BY <2>1
  <2>5. /\ [c \in Clients |-> client[c].state = "WAIT_ACK"] = [c \in Clients |-> FALSE]
        /\ [c \in Clients |-> app[c] = "asserted"] = [c \in Clients |-> FALSE]
    BY <2>4
  <2> QED
    BY <2>3, <2>5 DEF UdpxInit, Promise!Init
<1> QED
  BY <1>1, UdpxInvariant, RequestInvariant, RequestStep, PTL
  DEF UdpxSpec, KeepsPromise, Promise!Safe

\* A node asserts for its retry only when the buffer for a reply could not be allocated
\* (sockets.c 920 after 906, then 1050).
THEOREM OnlyMemoryLetsNodesAssert ==
    UdpxSpec => [](\A c \in Clients : app[c] = "asserted" => "recv_netmsg" \in FailingAllocs)
<1>1. UdpxInv /\ RequestInv =>
        \A c \in Clients : app[c] = "asserted" => "recv_netmsg" \in FailingAllocs
  BY DEF UdpxInv, ClientInv, ClientOK, RequestInv, ClientRequest
<1> QED
  BY <1>1, UdpxInvariant, RequestInvariant, PTL
=============================================================================
