-------------------------------- MODULE Dhcp --------------------------------
(***************************************************************************)
(* The DHCP clients of the gateway, src/gateway/dhcp.c, and the two        *)
(* threads of src/gateway/bridging.c that start them: one for the address  *)
(* of the gateway, one for the entries of the bridge table in turn.        *)
(*                                                                         *)
(* A client holds the client port until it is killed, and binding a port   *)
(* that is in use is an assertion: when the two threads ask at the same    *)
(* time the gateway restarts.  The socket buffers one reply until the      *)
(* thread has read it and asks for the next.  The server is external.      *)
(***************************************************************************)
EXTENDS Integers, FiniteSets

CONSTANTS
    Entries,      \* entries of the bridge table that want an address
    ServerPool,   \* the addresses the server may lease
    MaxRenewals,  \* bound: leases that are nearly over
    MaxLapses     \* bound: messages lost or duplicated, replies later than the timeout

VARIABLES
    client,    \* the DHCP client of each of the two threads
    wanted,    \* who wants an address: the gateway or an entry
    address,   \* the address each of them has
    bindings,  \* the server: the client each address is leased to
    wire,      \* messages on their way
    xids,      \* transaction ids used so far; the random number is taken to be new
    renewals, lapses

dhcpVars == <<client, wanted, address, bindings, wire, xids, renewals, lapses>>

Own == "gateway"
Threads == {"local_dhcp_lease_thread", "ip_pool_thread"}
Owners == {Own} \cup Entries
OwnersOf(t) == IF t = "ip_pool_thread" THEN Entries ELSE {Own}
None == "none"
NoMessage == [type |-> None, xid |-> 0, ip |-> None]
NoClient == [pc |-> None, owner |-> Own, xid |-> 0, ip |-> None, buffer |-> NoMessage, held |-> FALSE]

Init ==
    /\ client = [t \in Threads |-> NoClient]
    /\ wanted = Owners /\ address = [o \in Owners |-> None]
    /\ bindings = [o \in Owners |-> None]
    /\ wire = {} /\ xids = 0 /\ renewals = 0 /\ lapses = 0

TypeOK ==
    /\ \A t \in Threads :
          /\ client[t].pc \in {None, "created", "backoff", "offer", "yield", "ack", "configured"}
          /\ client[t].owner \in OwnersOf(t) \cup {Own} /\ client[t].xid \in 0 .. xids
          /\ client[t].ip \in ServerPool \cup {None}
    /\ wanted \subseteq Owners
    /\ address \in [Owners -> ServerPool \cup {None}]
    /\ bindings \in [Owners -> ServerPool \cup {None}]
    /\ \A msg \in wire : msg.xid \in 1 .. xids
    /\ renewals \in 0 .. MaxRenewals /\ lapses \in 0 .. MaxLapses

Bound(t) == client[t].pc \notin {None, "created"}

-----------------------------------------------------------------------------
(* The client *)

\* dhcp_t_create_client.  The pool waits until the gateway has an address.
CreateClient(t) ==
    /\ client[t].pc = None
    /\ t = "ip_pool_thread" => address[Own] # None
    /\ \E o \in wanted \cap OwnersOf(t) :
          client' = [client EXCEPT ![t] =
                        [NoClient EXCEPT !.pc = "created", !.owner = o, !.xid = xids + 1]]
    /\ xids' = xids + 1
    /\ UNCHANGED <<wanted, address, bindings, wire, renewals, lapses>>

\* sock_v_bind asserts that no other socket has the port; the gateway restarts.
Bind(t) ==
    /\ client[t].pc = "created"
    /\ IF \E u \in Threads \ {t} : Bound(u)
       THEN /\ client' = [u \in Threads |-> NoClient]
            /\ wanted' = Owners /\ address' = [o \in Owners |-> None]
       ELSE /\ client' = [client EXCEPT ![t].pc = "backoff"]
            /\ UNCHANGED <<wanted, address>>
    /\ UNCHANGED <<bindings, wire, xids, renewals, lapses>>

\* Mutant: the transaction is not looked at.
IsReply_Any(c, type) == c.buffer.type = type
\* dhcp_v_get_data: a packet of another transaction has the type 0.
IsReply(c, type) == c.buffer.type = type /\ c.buffer.xid = c.xid

\* What the thread makes of the packet in its buffer.  The buffer is in use until the
\* thread calls recvfrom again.
Processed(c) ==
    [c EXCEPT !.pc = IF c.pc = "offer" /\ IsReply(c, "OFFER") THEN "yield"
                     ELSE IF c.pc = "ack" /\ IsReply(c, "ACK") THEN "configured" ELSE "backoff",
              !.ip = c.buffer.ip, !.buffer = NoMessage, !.held = TRUE]

\* Mutant: the buffer of the last packet is not given back.
Waits_Held(c, pc) ==
    IF c.buffer = NoMessage THEN [c EXCEPT !.pc = pc] ELSE Processed([c EXCEPT !.pc = pc])
\* The first call of recvfrom frees the buffer, or returns what came in the meantime.
Waits(c, pc) ==
    IF c.buffer = NoMessage THEN [c EXCEPT !.pc = pc, !.held = FALSE]
                            ELSE Processed([c EXCEPT !.pc = pc])

\* dhcp_u16_create_dhcp_discover, dhcp_u16_create_dhcp_request
Sends(t, type, pc) ==
    /\ wire' = wire \cup {[to |-> "server", type |-> type, owner |-> client[t].owner,
                           xid |-> client[t].xid, ip |-> client[t].ip]}
    /\ client' = [client EXCEPT ![t] = Waits(@, pc)]
    /\ UNCHANGED <<wanted, address, bindings, xids, renewals>>

\* The waits, half a second and more, are longer than a message is on its way; when one is
\* not, that is a lapse.
Waited(t) ==
    IF \E msg \in wire : msg.xid = client[t].xid
    THEN lapses < MaxLapses /\ lapses' = lapses + 1
    ELSE UNCHANGED lapses

Discover(t) == client[t].pc = "backoff" /\ Waited(t) /\ Sends(t, "DISCOVER", "offer")
SendRequest(t) == client[t].pc = "yield" /\ Sends(t, "REQUEST", "ack") /\ UNCHANGED lapses

Process(t) ==
    /\ client[t].pc \in {"offer", "ack"} /\ client[t].buffer # NoMessage
    /\ client' = [client EXCEPT ![t] = Processed(@)]
    /\ UNCHANGED <<wanted, address, bindings, wire, xids, renewals, lapses>>

Timeout(t) ==
    /\ client[t].pc \in {"offer", "ack"} /\ client[t].buffer = NoMessage
    /\ Waited(t)
    /\ client' = [client EXCEPT ![t].pc = "backoff"]
    /\ UNCHANGED <<wanted, address, bindings, wire, xids, renewals>>

\* The thread that waits takes the address and kills the client, which frees the port.
TakeConfig(t) ==
    /\ client[t].pc = "configured"
    /\ address' = [address EXCEPT ![client[t].owner] = client[t].ip]
    /\ wanted' = wanted \ {client[t].owner}
    /\ client' = [client EXCEPT ![t] = NoClient]
    /\ UNCHANGED <<bindings, wire, xids, renewals, lapses>>

\* Seven eighths of the lease are over.
LeaseNearlyOver(o) ==
    /\ address[o] # None /\ o \notin wanted
    /\ renewals < MaxRenewals /\ renewals' = renewals + 1
    /\ wanted' = wanted \cup {o}
    /\ UNCHANGED <<client, address, bindings, wire, xids, lapses>>

-----------------------------------------------------------------------------
(* The network and the server *)

\* sock_v_recv_netmsg: a reply is a broadcast, for the socket that has the port.
Delivered(msg) ==
    client' = [t \in Threads |->
        IF Bound(t) /\ client[t].buffer = NoMessage /\ ~client[t].held
        THEN [client[t] EXCEPT !.buffer = [type |-> msg.type, xid |-> msg.xid, ip |-> msg.ip]]
        ELSE client[t]]

Deliver(msg) ==
    /\ msg \in wire /\ msg.to = "client"
    /\ wire' = wire \ {msg}
    /\ Delivered(msg)
    /\ UNCHANGED <<wanted, address, bindings, xids, renewals, lapses>>

Lapse(msg) ==
    /\ lapses < MaxLapses /\ lapses' = lapses + 1
    /\ \/ wire' = wire \ {msg} /\ UNCHANGED client
       \/ msg.to = "client" /\ Delivered(msg) /\ UNCHANGED wire
    /\ UNCHANGED <<wanted, address, bindings, xids, renewals>>

\* The server keeps the address of a client that it knows, and offers it again.
IsFree(ip, o) == \A k \in Owners \ {o} : bindings[k] # ip
Reply(msg, type, ip) ==
    wire' = (wire \ {msg}) \cup {[to |-> "client", type |-> type, owner |-> msg.owner,
                                  xid |-> msg.xid, ip |-> ip]}
Serve(msg) ==
    /\ msg \in wire /\ msg.to = "server"
    /\ \/ \E ip \in ServerPool :
             /\ msg.type = "DISCOVER"
             /\ IF bindings[msg.owner] # None THEN ip = bindings[msg.owner] ELSE IsFree(ip, msg.owner)
             /\ Reply(msg, "OFFER", ip)
             /\ UNCHANGED bindings
       \/ /\ msg.type = "REQUEST" /\ bindings[msg.owner] \in {None, msg.ip} /\ IsFree(msg.ip, msg.owner)
          /\ bindings' = [bindings EXCEPT ![msg.owner] = msg.ip]
          /\ Reply(msg, "ACK", msg.ip)
       \/ /\ msg.type = "REQUEST"
          /\ ~(bindings[msg.owner] \in {None, msg.ip} /\ IsFree(msg.ip, msg.owner))
          /\ Reply(msg, "NAK", None)
          /\ UNCHANGED bindings
    /\ UNCHANGED <<client, wanted, address, xids, renewals, lapses>>

-----------------------------------------------------------------------------
DhcpThread(t) == CreateClient(t) \/ Bind(t) \/ Discover(t) \/ SendRequest(t)
                 \/ Process(t) \/ Timeout(t) \/ TakeConfig(t)

Next ==
    \/ \E t \in Threads : DhcpThread(t)
    \/ \E o \in Owners : LeaseNearlyOver(o)
    \/ \E msg \in wire : Deliver(msg) \/ Serve(msg) \/ Lapse(msg)

Spec == Init /\ [][Next]_dhcpVars

\* The gateway and every entry use only an address that the server has leased to them,
\* whatever replies to other or earlier requests are still on their way.
AddressesAreLeased == \A o \in Owners : address[o] \in {None, bindings[o]}

\* The clients are in a state of the protocol, and use what is theirs.
AddressingSound == TypeOK /\ AddressesAreLeased

\* Everybody has an address in the end, though a reply is lost, late or seen twice, and
\* though the gateway restarts when it renews its own lease while an entry waits.
AllGetLeases == <>[](wanted = {} /\ \A o \in Owners : address[o] # None)
=============================================================================
