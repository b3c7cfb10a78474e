----------------------------- MODULE Addresses ------------------------------
(***************************************************************************)
(* How the nodes get their IP addresses: the client of                     *)
(* src/src/gateway_services.c in each node, the server of                  *)
(* src/gateway/gateway_server.c, the bridge table and the thread that      *)
(* fills it by DHCP, src/gateway/bridging.c, and the device database that  *)
(* survives a restart of the gateway, src/gateway/devicedb.c.              *)
(*                                                                         *)
(* A node has a session with the gateway when its token is the gateway's.  *)
(* A DHCP transaction is one step here (module Dhcp looks inside); the     *)
(* server is outside the repository.                                       *)
(***************************************************************************)
EXTENDS Integers, Sequences, FiniteSets, SequencesExt

CONSTANTS
    Members,
    ManualIp,       \* the manual address of each node that has one
    Pool,           \* the addresses of the DHCP server
    TableSize,      \* BRIDGE_TABLE_SIZE
    MaxDisruptions  \* bound: messages lost, restarts of a node or of the gateway, resets

VARIABLES
    member,     \* configured, token and address of each node, and whether it is manual
    gate,       \* token, address, bridge table and the DHCP thread of the gateway
    database,   \* the device database, in its file
    leases,     \* the DHCP server: the address of each client
    air,        \* messages on their way
    raced,      \* history: nodes that became manual while DHCP ran for their entry
    disruptions

addressVars == <<member, gate, database, leases, air, raced, disruptions>>

NoIp == "0.0.0.0"
NoOne == "nobody"  \* short address 0
All == "all"       \* the broadcast address
TheGateway == "gateway"
Slots == 1 .. TableSize
Idle == 0
Addresses == Pool \cup {ManualIp[m] : m \in DOMAIN ManualIp} \cup {NoIp}

\* gate_svc_v_init
Unconfigured(manual) == [configured |-> FALSE, token |-> 0, ip |-> NoIp, manual |-> manual]

\* bridge_v_init: no entry is in use.
EmptyBridge == [addr |-> NoOne, ip |-> NoIp, due |-> TRUE,
                valid |-> FALSE, manual |-> FALSE, request |-> FALSE]

\* gateway_v_init: the bridge table is loaded from the database, in its order.  The token
\* is random, that is, a new one.
GatewayStarted(token, db) ==
    [token |-> token, configured |-> FALSE, dhcp |-> Idle,
     bridge |-> [i \in Slots |->
        IF i \in DOMAIN db THEN [EmptyBridge EXCEPT !.addr = db[i].addr, !.ip = db[i].ip,
                                                    !.request = TRUE]
                           ELSE EmptyBridge]]

Init ==
    /\ member = [m \in Members |-> Unconfigured(m \in DOMAIN ManualIp)]
    /\ gate = GatewayStarted(1, <<>>)
    /\ database = <<>>
    /\ leases = [i \in Slots |-> NoIp]
    /\ air = {}
    /\ raced = {} /\ disruptions = 0

TypeOK ==
    /\ \A m \in Members : /\ member[m].ip \in Addresses
                          /\ member[m].token \in 0 .. gate.token
    /\ gate.dhcp \in Slots \cup {Idle}
    /\ \A i \in Slots : gate.bridge[i].addr \in Members \cup {NoOne} /\ gate.bridge[i].ip \in Addresses
    /\ \A i \in DOMAIN database : database[i].addr \in Members /\ database[i].ip \in Addresses
    /\ leases \in [Slots -> Pool \cup {NoIp}]
    /\ disruptions \in 0 .. MaxDisruptions

-----------------------------------------------------------------------------
(* The node *)

\* send_ip_config_request, again and again until there is an answer.
Request(m) == [at |-> TheGateway, kind |-> "request", from |-> m, manual |-> member[m].manual]

ClientThread(m) ==
    /\ ~member[m].configured
    /\ Request(m) \notin air
    /\ air' = air \cup {Request(m)}
    /\ UNCHANGED <<member, gate, database, leases, raced, disruptions>>

\* Mutant: a broadcast answer is taken by whoever hears it.
IsForMe_Any(m, msg) == TRUE
IsForMe(m, msg) == msg.addr = m

\* Mutant: only the first token counts.
TokenChanged_Never(m, msg) == member[m].token = 0
TokenChanged(m, msg) == msg.token # member[m].token

\* gate_svc_receiver_thread, in a node that hears the message.
Receives(m, msg) ==
    LET node == member[m] IN
    IF msg.kind = "token"
    THEN [node EXCEPT !.configured = @ /\ ~TokenChanged(m, msg)]
    ELSE IF IsForMe(m, msg)
    THEN [node EXCEPT !.configured = TRUE, !.token = msg.token,
                      !.ip = IF node.manual THEN ManualIp[m] ELSE msg.ip]
    ELSE node

\* A broadcast arrives at all nodes but the deaf ones.
Arrives(msg, deaf) ==
    /\ msg.at # TheGateway
    /\ air' = air \ {msg}
    /\ member' = [m \in Members |-> IF msg.at \in {m, All} /\ m \notin deaf
                                    THEN Receives(m, msg) ELSE member[m]]
    /\ UNCHANGED <<gate, database, leases, raced>>

ReceiverThread(msg) == Arrives(msg, {}) /\ UNCHANGED disruptions

-----------------------------------------------------------------------------
(* The gateway *)

\* bridge_b_get_bridge2, bridge_b_get_new: the entry of the node, or the first free one.
EntriesFor(m) ==
    LET of(a) == {i \in Slots : gate.bridge[i].addr = a}
        candidates == IF of(m) # {} THEN of(m) ELSE of(NoOne)
    IN {i \in candidates : \A k \in candidates : i <= k}

\* devdb_v_add_device
Recorded(db, m, ip) ==
    IF \E i \in DOMAIN db : db[i].addr = m
    THEN [i \in DOMAIN db |-> IF db[i].addr = m THEN [addr |-> m, ip |-> ip] ELSE db[i]]
    ELSE Append(db, [addr |-> m, ip |-> ip])

Config(at, m, ip) ==
    [at |-> at, kind |-> "config", addr |-> m, ip |-> ip, token |-> gate.token]

\* message_handler, GATEWAY_MSG_REQUEST_IP_CONFIG.  An answer goes to the manual address,
\* or to all nodes; when there is no address yet the node has to ask again.
OnRequest(msg) ==
    LET m == msg.from IN
    /\ msg \in air /\ msg.kind = "request"
    /\ UNCHANGED <<member, leases, disruptions>>
    /\ \/ /\ EntriesFor(m) = {}
          /\ air' = air \ {msg}
          /\ UNCHANGED <<gate, database, raced>>
       \/ \E i \in EntriesFor(m) :
             /\ msg.manual
             /\ gate' = [gate EXCEPT !.bridge[i] =
                            [@ EXCEPT !.addr = m, !.ip = ManualIp[m], !.manual = TRUE,
                                      !.valid = FALSE, !.request = FALSE, !.due = FALSE]]
             /\ database' = Recorded(database, m, ManualIp[m])
             /\ air' = (air \ {msg}) \cup {Config(m, m, ManualIp[m])}
             /\ raced' = IF gate.dhcp = i THEN raced \cup {m} ELSE raced \ {m}
       \/ \E i \in EntriesFor(m) :
             /\ ~msg.manual /\ ~gate.bridge[i].valid
             /\ gate' = [gate EXCEPT !.bridge[i] =
                            [@ EXCEPT !.addr = m, !.manual = FALSE, !.request = TRUE, !.due = TRUE]]
             /\ air' = air \ {msg}
             /\ UNCHANGED <<database, raced>>
       \/ \E i \in EntriesFor(m) :
             /\ ~msg.manual /\ gate.bridge[i].valid
             /\ database' = Recorded(database, m, gate.bridge[i].ip)
             /\ air' = (air \ {msg}) \cup {Config(All, m, gate.bridge[i].ip)}
             /\ UNCHANGED <<gate, raced>>

\* gateway_token_thread, for ever; only what may change something is sent.
TokenMsg == [at |-> All, kind |-> "token", token |-> gate.token]
TokenThread ==
    /\ \E m \in Members : member[m].configured /\ member[m].token # gate.token
    /\ TokenMsg \notin air
    /\ air' = air \cup {TokenMsg}
    /\ UNCHANGED <<member, gate, database, leases, raced, disruptions>>

\* local_dhcp_lease_thread has an address for the gateway.
LocalLease ==
    /\ ~gate.configured
    /\ gate' = [gate EXCEPT !.configured = TRUE]
    /\ UNCHANGED <<member, database, leases, air, raced, disruptions>>

\* ip_pool_thread: an entry that wants an address, or whose lease is nearly over.
PoolRequest(i) ==
    /\ gate.configured /\ gate.dhcp = Idle
    /\ gate.bridge[i].due /\ gate.bridge[i].request /\ ~gate.bridge[i].manual
    /\ gate' = [gate EXCEPT !.dhcp = i]
    /\ UNCHANGED <<member, database, leases, air, raced, disruptions>>

\* What the server gives to a client that asks for an address: that one if it is free,
\* else the one the client had, else any that is free.
Leased == {leases[i] : i \in Slots} \ {NoIp}
Offers(i, wanted) ==
    IF wanted \in Pool /\ wanted \notin Leased \ {leases[i]} THEN {wanted}
    ELSE IF leases[i] # NoIp THEN {leases[i]} ELSE Pool \ Leased

Filled(e, ip) == [e EXCEPT !.ip = ip, !.due = FALSE, !.valid = TRUE]

\* The entry is written as the thread left it before it waited, whatever happened to it.
PoolDone ==
    LET i == gate.dhcp IN
    /\ i # Idle
    /\ \E ip \in Offers(i, gate.bridge[i].ip) :
          /\ gate' = [gate EXCEPT !.bridge[i] = Filled(@, ip), !.dhcp = Idle]
          /\ leases' = [leases EXCEPT ![i] = ip]
    /\ UNCHANGED <<member, database, air, raced, disruptions>>

-----------------------------------------------------------------------------
(* Disruptions *)

\* A message is lost, at the gateway or at some nodes; a node restarts, after it was told to
\* forget its manual address or not (GATEWAY_MSG_RESET_IP_CONFIG), which takes longer than
\* what is about it is on its way; the lease of an entry runs out; the gateway restarts.
Concerns(m, msg) == \/ msg.at = m
                    \/ msg.kind = "request" /\ msg.from = m
                    \/ msg.kind = "config" /\ msg.addr = m
Disruption ==
    /\ disruptions < MaxDisruptions
    /\ disruptions' = disruptions + 1
    /\ \/ \E msg \in air, deaf \in SUBSET Members : deaf # {} /\ Arrives(msg, deaf)
       \/ \E msg \in air :
             /\ msg.at = TheGateway
             /\ air' = air \ {msg}
             /\ UNCHANGED <<member, gate, database, leases, raced>>
       \/ \E m \in Members, manual \in BOOLEAN :
             /\ manual => member[m].manual
             /\ member' = [member EXCEPT ![m] = Unconfigured(manual)]
             /\ air' = {msg \in air : ~Concerns(m, msg)}
             /\ UNCHANGED <<gate, database, leases, raced>>
       \/ \E i \in Slots :
             /\ gate.bridge[i].valid
             /\ gate' = [gate EXCEPT !.bridge[i].due = TRUE]
             /\ UNCHANGED <<member, database, leases, air, raced>>
       \/ /\ gate' = GatewayStarted(gate.token + 1, database)
          /\ air' = {}
          /\ raced' = {}
          /\ UNCHANGED <<member, database, leases>>

DhcpThreads == LocalLease \/ PoolDone \/ \E i \in Slots : PoolRequest(i)

AddressStep ==
    \/ \E m \in Members : ClientThread(m)
    \/ \E msg \in air : OnRequest(msg) \/ ReceiverThread(msg)
    \/ TokenThread \/ DhcpThreads

Next == AddressStep \/ Disruption

Spec == Init /\ [][Next]_addressVars

-----------------------------------------------------------------------------
(* Properties *)

InSession(m) == member[m].configured /\ member[m].token = gate.token

\* No two nodes that have a session with the gateway have the same address, though an
\* answer is heard by all, comes late, or belongs to a table the gateway no longer has.
AddressesDiffer ==
    \A m, n \in Members : m # n /\ InSession(m) /\ InSession(n) => member[m].ip # member[n].ip

\* The bridge table and the nodes hold addresses that no two nodes share.
AddressingSound == TypeOK /\ AddressesDiffer

BridgeAgrees(m) == \E i \in Slots : gate.bridge[i].addr = m /\ gate.bridge[i].ip = member[m].ip

\* In the end every node has a session and the bridge table sends its packets to it: a node
\* notices that the gateway restarted, and asks until it has an answer.  Excepted are nodes
\* that became manual while the gateway waited for a lease for them: their entry is overwritten.
NodesAreServed ==
    <>[](\A m \in Members : InSession(m) /\ (BridgeAgrees(m) \/ m \in raced))
=============================================================================
