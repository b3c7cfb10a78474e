------------------------------ MODULE Bridging ------------------------------
(***************************************************************************)
(* Which packets the gateways pass on between the mesh and the Ethernet:   *)
(* send_message, received_wcom_message and gateway_v_receive_ethernet of   *)
(* src/gateway/gateway.c, called by the threads of src/src/netmsg.c.       *)
(* Several gateways may join the same mesh and the same Ethernet, so that  *)
(* what one passes on the others receive.                                  *)
(***************************************************************************)
EXTENDS Integers, FiniteSets

CONSTANTS
    Gateways,
    BridgedBy,   \* the nodes in the bridge table of each gateway
    IpPackets,   \* packets: origin (a medium or a gateway), dest, port and whether it may
                 \* be sent by radio (NETMSG_FLAGS_NO_WCOM)
    DefaultTtl

VARIABLES
    unsent,   \* whether there is still a packet to send; packets do not touch each other
    copies    \* copies on their way to a gateway: on which medium, with what time to live,
              \* and (history) the media they were on

bridgingVars == <<unsent, copies>>

Broadcast == "broadcast"
Media == {"lan", "mesh"}
Open == {"open", "local"}  \* broadcast_ports; the last is marked in broadcast_locals

Init == unsent = TRUE /\ copies = {}

TypeOK ==
    /\ unsent \in BOOLEAN
    /\ \A c \in copies : /\ c.packet \in IpPackets /\ c.to \in Gateways
                         /\ c.on \in Media /\ c.ttl \in 0 .. DefaultTtl /\ c.via \subseteq Media

\* bridge_b_get_bridge
InBridge(g, dest) == dest \in BridgedBy[g]

\* Who takes a copy sent on a medium: a broadcast all, a packet for a node of the mesh the
\* gateway that answers for the node on the Ethernet (arp_v_recv), or on the mesh for an
\* address outside it one that routes to it (gateway_routes).
Takers(packet, on) ==
    IF packet.dest = Broadcast THEN Gateways
    ELSE IF on = "lan" THEN {g \in Gateways : InBridge(g, packet.dest)}
    ELSE {g \in Gateways : ~InBridge(g, packet.dest)}

Copies(packet, on, ttl, via, except) ==
    {[packet |-> packet, on |-> on, ttl |-> ttl, via |-> via \cup {on}, to |-> g] :
        g \in Takers(packet, on) \ except}

-----------------------------------------------------------------------------
\* A packet from a node or a host.
Appear(packet) ==
    /\ unsent /\ packet.origin \in Media
    /\ unsent' = FALSE
    /\ \/ /\ packet.dest = Broadcast \/ packet.origin = "lan"
          /\ copies' = copies \cup Copies(packet, packet.origin, DefaultTtl, {}, {})
       \/ \E c \in Copies(packet, "mesh", DefaultTtl, {}, {}) :
             /\ packet.dest # Broadcast /\ packet.origin = "mesh"
             /\ copies' = copies \cup {c}

\* tx_processor_thread and send_message: a packet of the gateway itself.
SendMessage(g, packet) ==
    /\ unsent /\ packet.origin = g
    /\ unsent' = FALSE
    /\ copies' = copies
          \cup (IF packet.radio /\ packet.dest = Broadcast
                THEN Copies(packet, "mesh", DefaultTtl, {}, {g}) ELSE {})
          \cup (IF packet.dest = Broadcast \/ ~InBridge(g, packet.dest)
                THEN Copies(packet, "lan", DefaultTtl, {}, {g}) ELSE {})

\* Mutant: the time to live is not counted down on the way to the Ethernet.
Lives_OnlyToMesh(ttl, on) == on = "lan" \/ ttl > 1
\* process_ttl: what is left after this hop, and whether the packet may go on.
Lives(ttl, on) == ttl > 1
Left(ttl) == IF ttl > 1 THEN ttl - 1 ELSE ttl

PassedOn(c, on, ttl) ==
    IF Lives(ttl, on) THEN Copies(c.packet, on, Left(ttl), c.via, {c.to}) ELSE {}

\* rx_processor_thread and received_wcom_message
FromMesh(c) ==
    /\ c \in copies /\ c.on = "mesh"
    /\ copies' = (copies \ {c}) \cup
          (IF InBridge(c.to, c.packet.dest) THEN {} ELSE PassedOn(c, "lan", c.ttl))
    /\ UNCHANGED unsent

\* Mutant: a local broadcast keeps its time to live.
LanTtl_AsIs(c) == c.ttl
\* A local broadcast gets the time to live 2, of which process_ttl leaves 1.
LanTtl(c) == IF c.packet.port = "local" THEN 2 ELSE c.ttl

\* gateway_v_receive_ethernet.  A packet for a node goes to the node and no further.
FromEthernet(c) ==
    /\ c \in copies /\ c.on = "lan"
    /\ copies' = (copies \ {c}) \cup
          (IF c.packet.dest = Broadcast /\ c.packet.port \in Open
           THEN PassedOn(c, "mesh", LanTtl(c)) ELSE {})
    /\ UNCHANGED unsent

Pass(c) == FromMesh(c) \/ FromEthernet(c)

Next ==
    \/ \E packet \in IpPackets : Appear(packet) \/ \E g \in Gateways : SendMessage(g, packet)
    \/ \E c \in copies : Pass(c)

Spec == Init /\ [][Next]_bridgingVars

\* A broadcast that is local to the mesh never comes back to the Ethernet it came from,
\* though another gateway hears it on the mesh and passes broadcasts on.
LocalBroadcastsStay ==
    \A c \in copies : c.packet.port = "local" /\ c.packet.origin = "lan" =>
        ~(c.on = "lan" /\ "mesh" \in c.via)

\* Packets are on a medium with a time to live, and local broadcasts are local.
ForwardingSound == TypeOK /\ LocalBroadcastsStay

\* No broadcast goes round between two gateways for ever.
TrafficEnds == <>[](copies = {})
=============================================================================
