------------------------------ MODULE Routing ------------------------------
(***************************************************************************)
(* Source routing on the mesh: src/src/routing2.c, with the part of        *)
(* src/src/wcom_ipv4.c that asks for routes and walks packets along them.  *)
(*                                                                         *)
(* A node without a route floods a request, each router appends itself and *)
(* floods it on, the destination answers along the recorded path, and the  *)
(* origin keeps that path and puts it into its packets.  A node that       *)
(* cannot pass a packet on sends an error back along the path.             *)
(*                                                                         *)
(* A node is its short address and its IP address; the gateway flag and    *)
(* the proxy hook are left out.  An index into a hop list is one more than *)
(* in the code.  The network holds frames that are on their way: it        *)
(* reorders and loses them, and the MAC drops repeated ones.               *)
(***************************************************************************)
EXTENDS Integers, Sequences, FiniteSets

CONSTANTS
    Nodes,
    LinkCost,     \* the cost of each link <<n, m>> over which n reaches m
    Flows,        \* pairs <<n, d>>: node n has packets for d
    Fragile,      \* pairs <<n, m>>: n may lose m from its neighbor list
    Unsteady,     \* nodes that may reboot or have their routing switched
    MaxHops,      \* ROUTE2_MAXIMUM_HOPS
    Tries,        \* ROUTE2_DISCOVERY_TRIES
    CacheEntries, \* ROUTE2_REPLAY_CACHE_ENTRIES
    MaxAge,       \* ROUTE2_MAXIMUM_AGE
    GoodCost,     \* the cost of a hop below which a route is good enough
    MaxRoutes,    \* CFG_PARAM_MAX_ROUTES
    MaxDiscoveries, \* CFG_PARAM_MAX_ROUTE_DISCOVERIES
    MaxWaiting,   \* WCOM_IPv4_MAX_TX_ROUTES
    MaxData,      \* bound: packets given to the nodes
    MaxBehind,    \* bound: further packets given to a node while it looks for their route
    MaxFlood,     \* bound: copies of requests on their way when a discovery thread runs
    MaxFaults     \* bound: frames lost, changes of a neighbor list or of the routing
                  \* switch, passes that could not queue all requests and reboots, together

Radio == DOMAIN LinkCost

ASSUME RoutingAssumption ==
    /\ Radio \subseteq Nodes \X Nodes
    /\ \A l \in Radio : l[1] # l[2] /\ LinkCost[l] \in 1 .. 254
    /\ Flows \subseteq {p \in Nodes \X Nodes : p[1] # p[2]}
    /\ Fragile \subseteq Radio /\ Unsteady \subseteq Nodes
    /\ {MaxHops, MaxRoutes, MaxDiscoveries} \subseteq Nat \ {0, 1}
    /\ {Tries, CacheEntries, MaxAge, MaxWaiting} \subseteq Nat \ {0}
    /\ {GoodCost, MaxData, MaxBehind, MaxFlood, MaxFaults} \subseteq Nat

VARIABLES
    nbrs,      \* the neighbor list of each node
    routers,   \* the nodes with CFG_PARAM_ENABLE_ROUTING
    routes,    \* route_list of routing2.c
    disc,      \* disc_list
    cache,     \* replay_cache, oldest entry first
    waiting,   \* route_list of wcom_ipv4.c: the packets without a route, oldest first
    net,       \* frames on their way
    floods,    \* how often each node has flooded requests; makes their tags unique
    data,      \* how many packets were given to the nodes
    losses, changes, failures, \* how often each has happened
    rebooted   \* the nodes that have rebooted

tables == <<routes, disc, cache, waiting>>
faults == <<losses, changes, failures, rebooted>>
vars == <<nbrs, routers, routes, disc, cache, waiting, net, floods, data, losses, changes,
          failures, rebooted>>

Tag == Nodes \X Nodes \X Nat
Route == [dest : Nodes, cost : Nat, age : 0 .. MaxAge, hops : Seq(Nodes)]
Request == [type : {"rreq"}, to : Nodes, dest : Nodes, tag : Tag, hops : Seq(Nodes)]
Reply == [type : {"rrep"}, hops : Seq(Nodes), index : Nat, cost : Nat]
RouteError == [type : {"rerr"}, hops : Seq(Nodes), index : Nat]
Packet == [type : {"data"}, hops : Seq(Nodes), index : Nat, tag : Nat]
Message == Request \cup Reply \cup RouteError \cup Packet

TypeOK ==
    /\ nbrs \in [Nodes -> SUBSET Nodes]
    /\ routers \in SUBSET Nodes
    /\ DOMAIN routes = Nodes /\ \A n \in Nodes : \A r \in routes[n] : r \in Route
    /\ disc \in [Nodes -> SUBSET [dest : Nodes, tries : 1 .. Tries]]
    /\ cache \in [Nodes -> Seq(Tag)]
    /\ waiting \in [Nodes -> Seq(Nodes)]
    /\ \A m \in net : m \in Message
    /\ floods \in [Nodes -> Nat]
    /\ {data, losses, changes, failures} \subseteq Nat
    /\ rebooted \in SUBSET Nodes

Faults == losses + changes + failures + Cardinality(rebooted)

Init ==
    /\ nbrs = [n \in Nodes |-> {m \in Nodes : <<m, n>> \in Radio}]
    /\ routers = Nodes
    /\ routes = [n \in Nodes |-> {}]
    /\ disc = [n \in Nodes |-> {}]
    /\ cache = [n \in Nodes |-> <<>>]
    /\ waiting = [n \in Nodes |-> <<>>]
    /\ net = {}
    /\ floods = [n \in Nodes |-> 0]
    /\ data = 0 /\ losses = 0 /\ changes = 0 /\ failures = 0
    /\ rebooted = {}

-----------------------------------------------------------------------------
(* Hop lists, costs and frames *)

OnPath(hops) == {hops[i] : i \in DOMAIN hops}
Target(hops) == hops[Len(hops)]
IsSimple(hops) == \A i, j \in DOMAIN hops : hops[i] = hops[j] => i = j

\* A node whose transmissions nobody has measured costs the most.
UnknownCost == 255
CostTo(n, m) == IF m \in nbrs[n] /\ <<n, m>> \in Radio THEN LinkCost[<<n, m>>] ELSE UnknownCost

Broadcast(n, d, tag, hops) ==
    {[type |-> "rreq", to |-> m, dest |-> d, tag |-> tag, hops |-> hops] :
        m \in {k \in Nodes : <<n, k>> \in Radio}}
\* A reply that is broadcast is only heard by the node its index names.
ReplyTo(hops, index, cost) == [type |-> "rrep", hops |-> hops, index |-> index, cost |-> cost]

Receiver(m) == IF m.type = "rreq" THEN m.to ELSE m.hops[m.index]
Sender(m) == CASE m.type = "rreq" -> Target(m.hops)
               [] m.type = "data" -> m.hops[m.index - 1]
               [] OTHER           -> m.hops[m.index + 1]

-----------------------------------------------------------------------------
(* The tables of a node *)

Direct(n, d) == {[dest |-> d, cost |-> CostTo(n, d), age |-> 0, hops |-> <<n, d>>] :
                    k \in {d} \cap nbrs[n]}
\* The route in the list, unless the destination is a neighbor that costs less.
Get(n, d) ==
    LET listed == {r \in routes[n] : r.dest = d} IN
    IF \E r \in listed : \A k \in Direct(n, d) : r.cost <= k.cost THEN listed ELSE Direct(n, d)

InProgress(n, d) == \E e \in disc[n] : e.dest = d

Check(n, r) == IsSimple(r.hops) /\ r.hops[2] \in nbrs[n]

\* A route to the same destination gives way to one that costs no more.
Add(n, r) ==
    LET same == {old \in routes[n] : old.dest = r.dest} IN
    IF \/ ~Check(n, r)
       \/ \E old \in same : r.cost > old.cost
       \/ same = {} /\ Cardinality(routes[n]) >= MaxRoutes
    THEN routes[n]
    ELSE (routes[n] \ same) \cup {r}

\* Mutant: the tag is looked up but never stored.
Remembered_Not(n, tag) == cache[n]
\* The ring overwrites its oldest entry.
Remembered(n, tag) ==
    Append(IF Len(cache[n]) = CacheEntries THEN Tail(cache[n]) ELSE cache[n], tag)

-----------------------------------------------------------------------------
(* Packets of the node *)

\* A packet on a route of more than two hops carries the hops; to a neighbor it
\* needs none and is out of the routing's hands.
Sent(n, r) == IF Len(r.hops) > 2
              THEN {[type |-> "data", hops |-> r.hops, index |-> 2, tag |-> data]}
              ELSE {}
Traffic(n, d) == {IF r.dest = d THEN [r EXCEPT !.age = 0] ELSE r : r \in routes[n]}

\* A packet with a route is sent, one without waits for a discovery, if there
\* is room for both.
SendPacket(n, d) ==
    /\ data < MaxData + IF InProgress(n, d) THEN MaxBehind ELSE 0
    /\ data' = data + 1
    /\ \/ \E r \in Get(n, d) :
            /\ net' = net \cup Sent(n, r)
            /\ routes' = IF Len(r.hops) > 2 THEN [routes EXCEPT ![n] = Traffic(n, d)] ELSE routes
            /\ UNCHANGED <<disc, waiting>>
       \/ /\ Get(n, d) = {}
          /\ IF InProgress(n, d) \/ Cardinality(disc[n]) < MaxDiscoveries
             THEN /\ disc' = IF InProgress(n, d) THEN disc
                             ELSE [disc EXCEPT ![n] = @ \cup {[dest |-> d, tries |-> Tries]}]
                  /\ waiting' = IF Len(waiting[n]) < MaxWaiting
                                THEN [waiting EXCEPT ![n] = Append(@, d)] ELSE waiting
             ELSE UNCHANGED <<disc, waiting>>
          /\ UNCHANGED <<net, routes>>
    /\ UNCHANGED <<nbrs, routers, cache, floods, faults>>

\* Mutant: a packet whose discovery has expired is queued again.
GivesUp_Never(n, d) == FALSE
GivesUp(n, d) == Get(n, d) = {} /\ ~InProgress(n, d)

\* The oldest waiting packet is sent when there is a route and given up when its
\* discovery is over; otherwise it stays the next one.
RouteThread(n) ==
    /\ waiting[n] # <<>>
    /\ LET d == Head(waiting[n]) IN
       /\ waiting' = [waiting EXCEPT ![n] = Tail(@)]
       /\ \/ \E r \in Get(n, d) :
               /\ net' = net \cup Sent(n, r)
               /\ routes' = IF Len(r.hops) > 2 THEN [routes EXCEPT ![n] = Traffic(n, d)]
                            ELSE routes
          \/ GivesUp(n, d) /\ UNCHANGED <<net, routes>>
    /\ UNCHANGED <<nbrs, routers, disc, cache, floods, data, faults>>

\* Mutant: a discovery without tries left stays in the list.
AfterPass_Kept(n, ok) == (disc[n] \ ok) \cup {[e EXCEPT !.tries = @ - 1] : e \in ok}
\* Each discovery whose request was sent has one try less; without any it is over.
AfterPass(n, ok) ==
    (disc[n] \ ok) \cup {[e EXCEPT !.tries = @ - 1] : e \in {k \in ok : k.tries > 1}}

\* One pass over the discoveries; ok are those whose request could be queued.
DiscoveryThread(n) ==
    /\ disc[n] # {}
    /\ Cardinality({m \in net : m.type = "rreq"}) <= MaxFlood
    /\ LET pending == {e \in disc[n] : e.tries > 0} IN
       \E ok \in SUBSET pending :
          /\ ok = pending \/ Faults < MaxFaults
          /\ failures' = IF ok = pending THEN failures ELSE failures + 1
          /\ net' = net \cup UNION {Broadcast(n, e.dest, <<n, e.dest, floods[n]>>, <<n>>) : e \in ok}
          /\ disc' = [disc EXCEPT ![n] = AfterPass(n, ok)]
          /\ floods' = IF ok = {} THEN floods ELSE [floods EXCEPT ![n] = @ + 1]
    /\ UNCHANGED <<nbrs, routers, routes, cache, waiting, data, losses, changes, rebooted>>

\* Every second each route grows older, up to the maximum; a route past it, or
\* without its next hop, is removed.
Aged(n) == {IF r.age < MaxAge THEN [r EXCEPT !.age = @ + 1] ELSE r :
               r \in {k \in routes[n] : k.age <= MaxAge /\ Check(n, k)}}
AgeThread(n) ==
    /\ Aged(n) # routes[n]
    /\ routes' = [routes EXCEPT ![n] = Aged(n)]
    /\ UNCHANGED <<nbrs, routers, disc, cache, waiting, net, floods, data, faults>>

-----------------------------------------------------------------------------
(* Frames of other nodes: each handler gives what it sends *)

\* Mutant: the node does not look for itself in the hop list.
Loops_Unchecked(n, m) == FALSE
Loops(n, m) == n \in OnPath(m.hops)

Onward(n, m) ==
    LET hops == Append(m.hops, n) IN
    IF Len(m.hops) >= MaxHops \/ Loops(n, m) THEN {}
    ELSE IF n = m.dest THEN {ReplyTo(hops, Len(hops) - 1, 0)}
    ELSE Broadcast(n, m.dest, m.tag, hops)

\* A request is for its destination and for routers, which take each one once.
ReceiveRequest(n, m) ==
    /\ m.type = "rreq"
    /\ IF (n = m.dest \/ n \in routers) /\ m.tag \notin OnPath(cache[n])
       THEN /\ cache' = [cache EXCEPT ![n] = Remembered(n, m.tag)]
            /\ net' = (net \ {m}) \cup Onward(n, m)
       ELSE /\ net' = net \ {m}
            /\ UNCHANGED cache
    /\ UNCHANGED <<routes, disc>>

\* Mutant: the cost of the last hop is left out.
ReplyCost_Short(n, m) == IF m.index = Len(m.hops) - 1 THEN m.cost ELSE m.cost + CostTo(n, m.hops[m.index + 1])
ReplyCost(n, m) == m.cost + CostTo(n, m.hops[m.index + 1])

\* The origin keeps the route and ends the discovery if the route is good; the
\* others pass the reply on.  A neighbor needs no route.
ReceiveReply(n, m) ==
    /\ m.type = "rrep"
    /\ LET d == Target(m.hops)
           cost == ReplyCost(n, m)
       IN IF m.hops[1] = n
          THEN /\ net' = net \ {m}
               /\ IF d \in nbrs[n] THEN UNCHANGED <<routes, disc>>
                  ELSE /\ routes' = [routes EXCEPT ![n] =
                              Add(n, [dest |-> d, cost |-> cost, age |-> 0, hops |-> m.hops])]
                       /\ disc' = IF cost \div Len(m.hops) < GoodCost
                                  THEN [disc EXCEPT ![n] = {e \in @ : e.dest # d}] ELSE disc
          ELSE /\ net' = (net \ {m}) \cup
                           (IF n \in routers /\ m.index > 1
                            THEN {ReplyTo(m.hops, m.index - 1, cost)} ELSE {})
               /\ UNCHANGED <<routes, disc>>
    /\ UNCHANGED cache

\* Mutant: the error is addressed to the node that found it.
ErrorIndex_Self(n, hops) == CHOOSE i \in DOMAIN hops : hops[i] = n
\* The hop before ours.
ErrorIndex(n, hops) == (CHOOSE i \in DOMAIN hops : hops[i] = n) - 1

\* An error goes to its hop only while that is a neighbor.
ErrorTo(n, hops, index) ==
    IF hops[index] \in nbrs[n] THEN {[type |-> "rerr", hops |-> hops, index |-> index]} ELSE {}

\* At the origin an error removes the route to the destination, whichever it is.
ReceiveError(n, m) ==
    /\ m.type = "rerr"
    /\ IF m.index = 1
       THEN /\ routes' = [routes EXCEPT ![n] = {r \in @ : r.dest # Target(m.hops)}]
            /\ net' = net \ {m}
       ELSE /\ net' = (net \ {m}) \cup ErrorTo(n, m.hops, m.index - 1)
            /\ UNCHANGED routes
    /\ UNCHANGED <<disc, cache>>

\* A packet that is not at its end goes on, if this node routes and has the next hop.
ReceivePacket(n, m) ==
    /\ m.type = "data"
    /\ net' = (net \ {m}) \cup
              (IF m.index = Len(m.hops) THEN {}
               ELSE IF n \in routers /\ m.hops[m.index + 1] \in nbrs[n]
               THEN {[m EXCEPT !.index = @ + 1]}
               ELSE ErrorTo(n, m.hops, ErrorIndex(n, m.hops)))
    /\ UNCHANGED <<routes, disc, cache>>

\* The MAC takes frames of neighbors only.
Receive(m) ==
    /\ IF Sender(m) \in nbrs[Receiver(m)]
       THEN \/ ReceiveRequest(Receiver(m), m)
            \/ ReceiveReply(Receiver(m), m)
            \/ ReceiveError(Receiver(m), m)
            \/ ReceivePacket(Receiver(m), m)
       ELSE net' = net \ {m} /\ UNCHANGED <<routes, disc, cache>>
    /\ UNCHANGED <<nbrs, routers, waiting, floods, data, faults>>

Deliver == \E m \in net : Receive(m)

-----------------------------------------------------------------------------
(* What happens to the nodes *)

Lose(m) ==
    /\ Faults < MaxFaults
    /\ losses' = losses + 1
    /\ net' = net \ {m}
    /\ UNCHANGED <<nbrs, routers, tables, floods, data, changes, failures, rebooted>>

\* The neighbor list loses a node it has not heard for some time, or hears it again.
NeighborChange(n, m) ==
    /\ Faults < MaxFaults
    /\ changes' = changes + 1
    /\ nbrs' = [nbrs EXCEPT ![n] = IF m \in @ THEN @ \ {m} ELSE @ \cup {m}]
    /\ UNCHANGED <<routers, tables, net, floods, data, losses, failures, rebooted>>

SwitchRouting(n) ==
    /\ Faults < MaxFaults
    /\ changes' = changes + 1
    /\ routers' = IF n \in routers THEN routers \ {n} ELSE routers \cup {n}
    /\ UNCHANGED <<nbrs, tables, net, floods, data, losses, failures, rebooted>>

\* A reboot takes until the neighbors know the node again; its tables are empty.
Reboot(n) ==
    /\ Faults < MaxFaults
    /\ rebooted' = rebooted \cup {n}
    /\ routes' = [routes EXCEPT ![n] = {}]
    /\ disc' = [disc EXCEPT ![n] = {}]
    /\ cache' = [cache EXCEPT ![n] = <<>>]
    /\ waiting' = [waiting EXCEPT ![n] = <<>>]
    /\ UNCHANGED <<nbrs, routers, net, floods, data, losses, changes, failures>>

Next ==
    \/ \E f \in Flows : SendPacket(f[1], f[2])
    \/ \E n \in Nodes : RouteThread(n) \/ DiscoveryThread(n) \/ AgeThread(n)
    \/ \E n \in Unsteady : SwitchRouting(n) \/ Reboot(n)
    \/ Deliver
    \/ \E m \in net : Lose(m)
    \/ \E l \in Fragile : NeighborChange(l[1], l[2])

\* The scheduler runs every thread again and again, and a frame that is not lost
\* arrives.  Only the nodes with packets of their own use their threads.
Fairness ==
    /\ WF_vars(Deliver)
    /\ \A f \in Flows : WF_vars(RouteThread(f[1])) /\ WF_vars(DiscoveryThread(f[1]))
                        /\ WF_vars(AgeThread(f[1]))

Spec == Init /\ [][Next]_vars /\ Fairness

-----------------------------------------------------------------------------
(* Properties *)

\* A hop list is a path over radio links that visits no node twice.
IsPath(hops) ==
    /\ IsSimple(hops)
    /\ Len(hops) \in 1 .. MaxHops
    /\ \A i \in 1 .. Len(hops) - 1 : <<hops[i], hops[i + 1]>> \in Radio

\* No hop list loops, in a table or in flight, and every index is within its list,
\* at the hop the frame is for, whatever is lost, reordered, forgotten or rebooted:
\* the requests collect their hops at one node after the other, and the index of
\* errors is computed with no bounds check (routing2.c:703-713, 877).
HopListsSound ==
    /\ \A n \in Nodes : \A r \in routes[n] :
          /\ IsPath(r.hops) /\ Len(r.hops) > 2
          /\ r.hops[1] = n /\ Target(r.hops) = r.dest
    /\ \A m \in net :
          /\ IsPath(m.hops)
          /\ m.type \in {"rrep", "rerr"} => m.index \in 1 .. Len(m.hops) - 1
          /\ m.type = "data" => m.index \in 2 .. Len(m.hops)

Prefix(hops, n) == SubSeq(hops, 1, CHOOSE i \in DOMAIN hops : hops[i] = n)

\* The copies of one request in flight form a tree: a node floods a request on
\* once, so all copies that went through it came to it the same way.  Only a node
\* that forgot its replay cache in a reboot may pass it on again.
RequestsFormTree ==
    \A m1, m2 \in net : m1.type = "rreq" /\ m2.type = "rreq" =>
        (m1.tag = m2.tag =>
            \A n \in (OnPath(m1.hops) \cap OnPath(m2.hops)) \ rebooted :
                Prefix(m1.hops, n) = Prefix(m2.hops, n))

\* What a packet from hops[i] to the end of the path costs.
CostFrom(hops, i) ==
    LET cost[j \in 1 .. Len(hops)] ==
            IF j = Len(hops) THEN 0 ELSE LinkCost[<<hops[j], hops[j + 1]>>] + cost[j + 1]
    IN cost[i]

\* The cost of a route is the sum over its links, each counted by the node that
\* sends over it.  That no neighbor is charged as one whose transmissions were never
\* measured takes the MAC, which drops a reply from a node that has left the list.
CostsAddUp == \A n \in Nodes : \A r \in routes[n] : r.cost = CostFrom(r.hops, 1)

\* What requests collect is right: the paths, and what they cost.
RequestsSound == TypeOK /\ RequestsFormTree /\ CostsAddUp

\* A discovery ends, by a good route or by its last try.
DiscoveriesEnd ==
    \A f \in Flows : InProgress(f[1], f[2]) ~> ~InProgress(f[1], f[2])

\* A packet does not wait for ever for a route: it is sent or reported unreachable,
\* though the thread always looks at the same packet first (wcom_ipv4.c:1159, 1180).
WaitingEnds ==
    \A f \in Flows : waiting[f[1]] # <<>> ~> waiting[f[1]] = <<>>

IsBroken(hops) == \E i \in 1 .. Len(hops) - 1 : hops[i + 1] \notin nbrs[hops[i]]

\* Some packet of n is at a node that has lost the next hop to d.
IsStuck(n, d) ==
    \E m \in net : /\ m.type = "data" /\ m.hops[1] = n /\ Target(m.hops) = d
                   /\ m.index < Len(m.hops)
                   /\ m.hops[m.index + 1] \notin nbrs[m.hops[m.index]]

\* When a packet meets a broken link its origin learns of it and forgets the broken
\* route, unless something else goes wrong as well (a lost frame, another change).
BrokenRouteForgotten ==
    \A f \in Flows :
        IsStuck(f[1], f[2]) ~> \/ \A r \in routes[f[1]] : r.dest = f[2] => ~IsBroken(r.hops)
                               \/ losses > 0 \/ changes > 1 \/ rebooted # {}

HasExpired(n, d) == \E r \in routes[n] : r.dest = d /\ r.age = MaxAge

\* A route that has reached the maximum age is used again or removed: "check for
\* expiration" (routing2.c:1497), "#define ROUTE2_MAXIMUM_AGE 120 // in seconds"
\* (routing2.h:23).
ExpiredRoutesLeave ==
    \A f \in Flows : HasExpired(f[1], f[2]) ~> ~HasExpired(f[1], f[2])
=============================================================================
