-------------------------------- MODULE Udpx --------------------------------
(***************************************************************************)
(* UDPX, the request-reply protocol over UDP: the client and the server    *)
(* sockets of src/src/sockets.c with their retry thread, a client thread   *)
(* that sends one request after the other and waits for its end (the       *)
(* notification thread of src/src/keyvalue.c), and a server thread that    *)
(* answers (src/src/command2.c, src/gateway/gateway_server.c).             *)
(*                                                                         *)
(* The network keeps every message that was sent and may deliver it any    *)
(* number of times, in any order, or never.  Payloads are the requests     *)
(* themselves, a client and a number; the answer to a request carries it.  *)
(* A transmission that fails for want of memory is one that never arrives. *)
(***************************************************************************)
EXTENDS Integers, FiniteSets

CONSTANTS
    Clients,       \* the clients of the server
    MaxRequests,   \* bound: requests of a client
    MsgIds,        \* message identifiers; the code draws eight random bits
    IdsRepeat,     \* an identifier may be drawn again
    MaxTries,      \* UDPX_MAX_TRIES
    FirstTimeout,  \* UDPX_INITIAL_TIMEOUT / SOCK_UDPX_TIMER_TICK_MS
    FailingAllocs  \* the calls of mem2_h_alloc that may fail

ASSUME UdpxAssumption ==
    /\ MaxRequests \in Nat \ {0}
    /\ MsgIds \subseteq Nat
    /\ IdsRepeat \in BOOLEAN
    /\ MaxTries \in Nat \ {0, 1}
    /\ FirstTimeout \in Nat
    /\ FailingAllocs \subseteq {"sendto", "recv_netmsg"}

VARIABLES
    network,  \* every message sent so far
    client,   \* sock_state_udpx_client_t of every client
    server,   \* sock_state_udpx_server_t
    app,      \* the client thread: between requests or waiting for the end of one
    asked,    \* how many requests each client thread has put into its socket
    result    \* what its last request ended with

udpxVars == <<network, client, server, app, asked, result>>

Requests == Clients \X (1 .. MaxRequests)
NoBuffer == <<>>
Timeout == 0
NoRequest == 0

SocketStates == {"IDLE", "RX_WAITING", "RX_DATA_PENDING", "RX_DATA_RECEIVED", "TIMED_OUT"}

\* udpx_header_t with the address and the data: ack is UDPX_FLAGS_ARQ in a
\* request and UDPX_FLAGS_ACK in a reply.
Message == [kind : {"request", "reply"}, client : Clients, id : MsgIds \cup {NoRequest},
            ack : BOOLEAN, data : Requests]

UdpxTypeOK ==
    /\ network \subseteq Message
    /\ client \in [Clients -> [state : SocketStates \cup {"WAIT_ACK"},
                               buffer : Requests \cup {NoBuffer},
                               msgId : MsgIds \cup {NoRequest},
                               timeLeft : 0 .. FirstTimeout * MaxTries,
                               tries : 0 .. MaxTries]]
    /\ server \in [state : SocketStates, buffer : Requests \cup {NoBuffer},
                   msgId : MsgIds \cup {NoRequest}, ackRequest : BOOLEAN, raddr : Clients]
    /\ app \in [Clients -> {"between", "waiting", "asserted"}]
    /\ asked \in [Clients -> 0 .. MaxRequests]
    /\ result \in [Clients -> 0 .. MaxRequests]

\* sock_s_create
UdpxInit ==
    /\ network = {}
    /\ client = [c \in Clients |-> [state |-> "IDLE", buffer |-> NoBuffer, msgId |-> NoRequest,
                                    timeLeft |-> 0, tries |-> 0]]
    /\ \E c \in Clients :
          server = [state |-> "IDLE", buffer |-> NoBuffer, msgId |-> NoRequest,
                    ackRequest |-> FALSE, raddr |-> c]
    /\ app = [c \in Clients |-> "between"]
    /\ asked = [c \in Clients |-> 0]
    /\ result = [c \in Clients |-> Timeout]

-----------------------------------------------------------------------------
(* The client thread *)

Fresh(id) == IdsRepeat \/ \A m \in network : m.id # id

\* Mutant: the tries of the request before are what is left.
Buffered_OldTries(c, id) ==
    [client[c] EXCEPT !.state = "WAIT_ACK", !.buffer = <<c, asked[c] + 1>>,
                      !.msgId = id, !.timeLeft = 0]
\* sock_i16_sendto: the message waits for the retry thread in the buffer; whatever
\* the buffer held is released.
Buffered(c, id) ==
    [client[c] EXCEPT !.state = "WAIT_ACK", !.buffer = <<c, asked[c] + 1>>,
                      !.msgId = id, !.timeLeft = 0, !.tries = MaxTries]

\* The thread ignores what sendto returns: with no memory for the buffer the
\* socket has a new identifier and is otherwise as before.
SendTo(c) ==
    /\ app[c] = "between"
    /\ asked[c] < MaxRequests
    /\ \E id \in MsgIds :
          /\ Fresh(id)
          /\ \/ /\ client' = [client EXCEPT ![c] = Buffered(c, id)]
                /\ asked' = [asked EXCEPT ![c] = @ + 1]
             \/ /\ "sendto" \in FailingAllocs
                /\ client' = [client EXCEPT ![c].msgId = id]
                /\ UNCHANGED asked
    /\ app' = [app EXCEPT ![c] = "waiting"]
    /\ UNCHANGED <<network, server, result>>

\* sock_i8_recvfrom, called until it returns 0.
RecvFrom(c) ==
    /\ app[c] = "waiting"
    /\ LET s == client[c] IN
       \/ /\ s.state = "IDLE"
          /\ client' = [client EXCEPT ![c].state = "RX_WAITING"]
          /\ UNCHANGED <<app, result>>
       \/ /\ s.state = "RX_DATA_RECEIVED"
          /\ client' = [client EXCEPT ![c].state = "IDLE", ![c].buffer = NoBuffer]
          /\ UNCHANGED <<app, result>>
       \/ /\ s.state = "RX_DATA_PENDING"
          /\ client' = [client EXCEPT ![c].state = "RX_DATA_RECEIVED"]
          /\ result' = [result EXCEPT ![c] = s.buffer[2]]
          /\ app' = [app EXCEPT ![c] = "between"]
       \/ /\ s.state = "TIMED_OUT"
          /\ client' = [client EXCEPT ![c].state = "IDLE"]
          /\ result' = [result EXCEPT ![c] = Timeout]
          /\ app' = [app EXCEPT ![c] = "between"]
    /\ UNCHANGED <<network, server, asked>>

-----------------------------------------------------------------------------
(* udpx_timeout_thread, every tick of its timer *)

CountDown(c) ==
    /\ client[c].state = "WAIT_ACK" /\ client[c].timeLeft > 0
    /\ client' = [client EXCEPT ![c].timeLeft = @ - 1]
    /\ UNCHANGED <<network, server, app, asked, result>>

TriesLeft(c) == client[c].tries - 1 > 0

\* Mutant: a socket without a buffer is passed over.
Expired_WithBuffer(c) ==
    client[c].state = "WAIT_ACK" /\ client[c].timeLeft = 0 /\ client[c].buffer # NoBuffer
Expired(c) == client[c].state = "WAIT_ACK" /\ client[c].timeLeft = 0

\* Each timeout is longer than the one before.
Retry(c) ==
    /\ Expired(c) /\ TriesLeft(c)
    /\ client[c].buffer # NoBuffer
    /\ network' = network \cup {[kind |-> "request", client |-> c, id |-> client[c].msgId,
                                 ack |-> TRUE, data |-> client[c].buffer]}
    /\ client' = [client EXCEPT
                    ![c].tries = @ - 1,
                    ![c].timeLeft = FirstTimeout * (MaxTries - (client[c].tries - 1))]
    /\ UNCHANGED <<server, app, asked, result>>

\* mem2_vp_get_ptr asserts that the handle is valid; that is the end of
\* the client, its node restarts.
RetryWithoutBuffer(c) ==
    /\ Expired(c) /\ TriesLeft(c)
    /\ client[c].buffer = NoBuffer
    /\ app[c] # "asserted"
    /\ app' = [app EXCEPT ![c] = "asserted"]
    /\ UNCHANGED <<network, client, server, asked, result>>

\* Mutant: the send buffer is not released.
BufferAfterLastTry_Kept(c) == client[c].buffer
BufferAfterLastTry(c) == NoBuffer

GiveUp(c) ==
    /\ Expired(c) /\ ~TriesLeft(c)
    /\ client' = [client EXCEPT ![c].tries = @ - 1, ![c].buffer = BufferAfterLastTry(c),
                                ![c].state = "TIMED_OUT"]
    /\ UNCHANGED <<network, server, app, asked, result>>

-----------------------------------------------------------------------------
(* sock_v_recv_netmsg *)

\* Mutant: the reply is accepted whatever the socket waits for.
AcceptsReply_AnyState(c, m) == m.ack /\ m.id = client[c].msgId
\* The flags, the identifier and the state are right.
AcceptsReply(c, m) == m.ack /\ m.id = client[c].msgId /\ client[c].state = "WAIT_ACK"

\* The send buffer is released before the buffer for the reply is allocated.
ClientReceives(m) ==
    /\ m \in network /\ m.kind = "reply"
    /\ app[m.client] # "asserted"
    /\ AcceptsReply(m.client, m)
    /\ \/ client' = [client EXCEPT ![m.client].state = "RX_DATA_PENDING",
                                   ![m.client].buffer = m.data]
       \/ /\ "recv_netmsg" \in FailingAllocs
          /\ client' = [client EXCEPT ![m.client].buffer = NoBuffer]
    /\ UNCHANGED <<network, server, app, asked, result>>

\* The socket holds data that its thread has not received.
ServerHolds == server.buffer # NoBuffer

\* The identifier and the acknowledgement request are taken over from every
\* request, also from one that is then thrown away.
ServerReceives(m) ==
    /\ m \in network /\ m.kind = "request"
    /\ \/ /\ ~ServerHolds
          /\ server' = [state |-> "RX_DATA_PENDING", buffer |-> m.data, msgId |-> m.id,
                        ackRequest |-> m.ack, raddr |-> m.client]
       \/ /\ ServerHolds \/ "recv_netmsg" \in FailingAllocs
          /\ server' = [server EXCEPT !.msgId = m.id, !.ackRequest = m.ack]
    /\ UNCHANGED <<network, client, app, asked, result>>

-----------------------------------------------------------------------------
(* The server thread: it receives a request and deals with it without yielding *)

\* Mutant: the buffer that was read is not released.
Released_Kept == [server EXCEPT !.state = "IDLE"]
\* The request that the thread has dealt with is released.
Released == [server EXCEPT !.state = "IDLE", !.buffer = NoBuffer]

ServerRecvFrom ==
    /\ \/ server.state = "IDLE" /\ server' = [server EXCEPT !.state = "RX_WAITING"]
       \/ server.state = "RX_DATA_RECEIVED" /\ server' = Released
    /\ UNCHANGED <<network, client, app, asked, result>>

\* sock_i8_recvfrom, sock_i16_sendto and sock_i8_transmit.
Reply ==
    /\ server.state = "RX_DATA_PENDING"
    /\ network' = network \cup {[kind |-> "reply", client |-> server.raddr, id |-> server.msgId,
                                 ack |-> server.ackRequest, data |-> server.buffer]}
    /\ server' = [server EXCEPT !.state = "RX_DATA_RECEIVED", !.msgId = NoRequest,
                                !.ackRequest = FALSE]
    /\ UNCHANGED <<client, app, asked, result>>

\* There is no response to the request.
NoReply ==
    /\ server.state = "RX_DATA_PENDING"
    /\ server' = [server EXCEPT !.state = "RX_DATA_RECEIVED"]
    /\ UNCHANGED <<network, client, app, asked, result>>

-----------------------------------------------------------------------------
ClientNode(c) == RecvFrom(c) \/ CountDown(c) \/ Retry(c) \/ RetryWithoutBuffer(c) \/ GiveUp(c)
ServerNode == ServerRecvFrom \/ Reply \/ NoReply

UdpxNext ==
    \/ \E c \in Clients : SendTo(c) \/ ClientNode(c)
    \/ \E m \in network : ClientReceives(m) \/ ServerReceives(m)
    \/ ServerNode

UdpxSpec == UdpxInit /\ [][UdpxNext]_udpxVars

\* The scheduler runs every thread; the network guarantees nothing.
UdpxFair ==
    /\ \A c \in Clients :
          /\ WF_udpxVars(RecvFrom(c))
          /\ WF_udpxVars(CountDown(c) \/ Retry(c) \/ RetryWithoutBuffer(c) \/ GiveUp(c))
    /\ WF_udpxVars(ServerNode)
UdpxFairSpec == UdpxSpec /\ UdpxFair

-----------------------------------------------------------------------------
(* Properties *)

\* What the request of client c has come to, or the one before it came to.
Outcome(c) ==
    CASE client[c].state = "RX_DATA_PENDING" /\ client[c].buffer # NoBuffer -> client[c].buffer[2]
      [] client[c].state = "TIMED_OUT" -> Timeout
      [] OTHER -> result[c]

\* A client socket implements the promise of RequestReply for every request that
\* was put into its buffer, whatever the network does: it ends once, with an answer to a
\* request of this client or a timeout, and only the assertion of a node that waits
\* leaves it without an end (sockets.c 834-851, 1038-1072).  A node that has asserted
\* still waits.
Promise == INSTANCE RequestReply WITH
    waiting <- [c \in Clients |-> client[c].state = "WAIT_ACK"],
    outcome <- [c \in Clients |-> Outcome(c)],
    halted <- [c \in Clients |-> app[c] = "asserted"]
KeepsPromise == Promise!Safe
\* The requests do end: the retry thread counts every one down to its last try, also when
\* the reply could not be stored (sockets.c 1038-1072).
RequestsEnd == Promise!Fair

\* A socket has a buffer in exactly the states in which it says so, however sends,
\* replies, retries and timeouts meet: nothing leaks and nothing is released twice.
\* The one exception is a client that had no memory for the reply (sockets.c
\* 467-498, 676-707, 842-847, 920, 1061-1069).
BufferMatchesState ==
    /\ \A c \in Clients :
          LET s == client[c] IN
          /\ s.buffer # NoBuffer => s.state \in {"WAIT_ACK", "RX_DATA_PENDING", "RX_DATA_RECEIVED"}
          /\ s.buffer = NoBuffer =>
                \/ s.state \in {"IDLE", "RX_WAITING", "TIMED_OUT"}
                \/ s.state = "WAIT_ACK" /\ "recv_netmsg" \in FailingAllocs
    /\ server.buffer # NoBuffer <=> server.state \in {"RX_DATA_PENDING", "RX_DATA_RECEIVED"}

\* The sockets are consistent in every state.
SocketsSound == UdpxTypeOK /\ BufferMatchesState

\* After every request the server socket becomes free for the next one.
ServerAcceptsAgain == []<>(server.buffer = NoBuffer)

\* A reply that a client accepts answers the request it is waiting for.  "if so,
\* we'll throw away the incoming data" (sockets.c 906-908).
AnswersTheRequest ==
    \A c \in Clients : app[c] = "between" /\ result[c] # Timeout => result[c] = asked[c]
=============================================================================
