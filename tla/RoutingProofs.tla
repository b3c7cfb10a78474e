--------------------------- MODULE RoutingProofs ---------------------------
(***************************************************************************)
(* The hop lists of Routing are loop-free paths over radio links, for any  *)
(* network, any number of faults and any bounds.                           *)
(*                                                                         *)
(* HopListsSound is not inductive: a node that appends itself to a request *)
(* must know that the request reached it over a radio link, and a node     *)
(* that looks itself up in a list needs the list's type.  RoutingInv adds  *)
(* the types and the link over which each request is on its way.           *)
(*                                                                         *)
(* The costs in requests, replies and routes are those of their links, an  *)
(* equation that a hop list keeps as it grows.                             *)
(*                                                                         *)
(* The requests of a discovery form a tree: of two that passed through a   *)
(* node one is the continuation of the other, or they are the same.  That  *)
(* holds as long as no replay cache had to forget a request under way.     *)
(***************************************************************************)
EXTENDS Routing, SequenceTheorems, WellFoundedInduction, TLAPS

GoodRoute(n, r) ==
    /\ r \in Route
    /\ IsPath(r.hops) /\ Len(r.hops) > 2
    /\ r.hops[1] = n /\ Target(r.hops) = r.dest

GoodFrame(m) ==
    /\ m \in Message
    /\ IsPath(m.hops)
    /\ m.type = "rreq" => <<Target(m.hops), m.to>> \in Radio
    /\ m.type \in {"rrep", "rerr"} => m.index \in 1 .. Len(m.hops) - 1
    /\ m.type = "data" => m.index \in 2 .. Len(m.hops)

\* The types of everything but the routes and the frames.
TablesOK ==
    /\ nbrs \in [Nodes -> SUBSET Nodes]
    /\ routers \in SUBSET Nodes
    /\ DOMAIN routes = Nodes
    /\ disc \in [Nodes -> SUBSET [dest : Nodes, tries : 1 .. Tries]]
    /\ cache \in [Nodes -> Seq(Tag)]
    /\ waiting \in [Nodes -> Seq(Nodes)]
    /\ floods \in [Nodes -> Nat]
    /\ {data, losses, changes, failures} \subseteq Nat
    /\ rebooted \in SUBSET Nodes

RoutesGood == \A n \in Nodes : \A r \in routes[n] : GoodRoute(n, r)
FramesGood == \A m \in net : GoodFrame(m)
RoutingInv == TablesOK /\ RoutesGood /\ FramesGood

\* A function with one value replaced by another of its range.
LEMMA FunctionUpdated ==
    ASSUME NEW S, NEW T, NEW f \in [S -> T], NEW x, NEW y \in T
    PROVE  [f EXCEPT ![x] = y] \in [S -> T]
OBVIOUS

\* What a frame of each kind is made of.
LEMMA FrameFields ==
    ASSUME NEW m \in Message
    PROVE  /\ m.hops \in Seq(Nodes)
           /\ m.type \in {"rreq", "rrep", "rerr", "data"}
           /\ m.type = "rreq" => m.to \in Nodes /\ m.dest \in Nodes /\ m.tag \in Tag
           /\ m.type = "rrep" => m.index \in Nat /\ m.cost \in Nat
           /\ m.type = "rerr" => m.index \in Nat
           /\ m.type = "data" => m.index \in Nat /\ m.tag \in Nat
BY DEF Message, Request, Reply, RouteError, Packet

\* A path that goes on over a link to a node that is not on it is a path.
LEMMA PathGrows ==
    ASSUME NEW hops \in Seq(Nodes), NEW n \in Nodes, IsPath(hops),
           Len(hops) < MaxHops, n \notin OnPath(hops), <<Target(hops), n>> \in Radio
    PROVE  /\ Append(hops, n) \in Seq(Nodes)
           /\ IsPath(Append(hops, n))
           /\ Len(Append(hops, n)) = Len(hops) + 1
           /\ Target(Append(hops, n)) = n
<1> DEFINE more == Append(hops, n)
<1>1. /\ more \in Seq(Nodes) /\ Len(more) = Len(hops) + 1 /\ more[Len(hops) + 1] = n
      /\ \A i \in 1 .. Len(hops) : more[i] = hops[i]
      /\ DOMAIN more = 1 .. Len(hops) + 1 /\ DOMAIN hops = 1 .. Len(hops) /\ Len(hops) \in Nat
  OBVIOUS
<1> HIDE DEF more
<1>2. \A i \in 1 .. Len(hops) : hops[i] # n
  BY <1>1 DEF OnPath
<1>3. IsSimple(more)
  BY <1>1, <1>2 DEF IsSimple, IsPath
<1>4. Len(more) \in 1 .. MaxHops
  BY <1>1, RoutingAssumption
<1>5. ASSUME NEW i \in 1 .. Len(more) - 1
      PROVE  <<more[i], more[i + 1]>> \in Radio
  <2>0. Len(hops) \in Nat /\ Len(hops) >= 1 /\ Len(more) - 1 = Len(hops)
    <3>1. Len(hops) \in Nat /\ Len(more) = Len(hops) + 1
      BY <1>1
    <3>2. Len(hops) \in 1 .. MaxHops
      BY DEF IsPath
    <3> QED BY <3>1, <3>2
  <2>1. i \in 1 .. Len(hops)
    BY <2>0
  <2>2. more[i] = hops[i]
    BY <1>1, <2>1
  <2>3. CASE i = Len(hops)
    BY <1>1, <2>2, <2>3 DEF Target
  <2>4. CASE i # Len(hops)
    <3>1. i \in 1 .. Len(hops) - 1 /\ i + 1 \in 1 .. Len(hops)
      BY <2>0, <2>1, <2>4
    <3>2. more[i + 1] = hops[i + 1]
      BY <1>1, <3>1
    <3> QED BY <2>2, <3>1, <3>2 DEF IsPath
  <2> QED BY <2>3, <2>4
<1>6. IsPath(more) /\ Target(more) = n
  BY <1>1, <1>3, <1>4, <1>5 DEF IsPath, Target
<1> QED BY <1>1, <1>6 DEF more

LEMMA RadioNodes == \A l \in Radio : l[1] \in Nodes /\ l[2] \in Nodes
BY RoutingAssumption

LEMMA CostType == ASSUME NEW n, NEW m PROVE CostTo(n, m) \in Nat
BY RoutingAssumption DEF CostTo, UnknownCost, Radio

-----------------------------------------------------------------------------
(* What the handlers send *)

LEMMA BroadcastSound ==
    ASSUME NEW n \in Nodes, NEW d \in Nodes, NEW tag \in Tag, NEW hops \in Seq(Nodes),
           IsPath(hops), Target(hops) = n
    PROVE  \A m \in Broadcast(n, d, tag, hops) : GoodFrame(m)
<1> SUFFICES ASSUME NEW k \in Nodes, <<n, k>> \in Radio
             PROVE  GoodFrame([type |-> "rreq", to |-> k, dest |-> d, tag |-> tag, hops |-> hops])
  BY DEF Broadcast
<1> DEFINE m == [type |-> "rreq", to |-> k, dest |-> d, tag |-> tag, hops |-> hops]
<1>1. m \in Message
  BY DEF Message, Request
<1>2. m.type = "rreq" /\ m.to = k /\ m.hops = hops
  OBVIOUS
<1> HIDE DEF m
<1>3. GoodFrame(m)
  BY <1>1, <1>2 DEF GoodFrame
<1> QED BY <1>3 DEF m

LEMMA ReplySound ==
    ASSUME NEW hops \in Seq(Nodes), IsPath(hops), NEW i \in 1 .. Len(hops) - 1, NEW cost \in Nat
    PROVE  GoodFrame(ReplyTo(hops, i, cost))
BY DEF ReplyTo, GoodFrame, Message, Reply

LEMMA ErrorSound ==
    ASSUME NEW n, NEW hops \in Seq(Nodes), IsPath(hops), NEW i \in 1 .. Len(hops) - 1
    PROVE  \A m \in ErrorTo(n, hops, i) : GoodFrame(m)
BY DEF ErrorTo, GoodFrame, Message, RouteError

\* The hop before a node on a simple path.
LEMMA ErrorIndexIs ==
    ASSUME NEW hops \in Seq(Nodes), IsPath(hops), NEW i \in 1 .. Len(hops)
    PROVE  ErrorIndex(hops[i], hops) = i - 1
<1>1. i \in DOMAIN hops /\ \A j \in DOMAIN hops : hops[j] = hops[i] => j = i
  BY DEF IsPath, IsSimple
<1>2. (CHOOSE j \in DOMAIN hops : hops[j] = hops[i]) = i
  BY <1>1
<1> QED BY <1>2 DEF ErrorIndex

\* The first hops of a node: a path of one.
LEMMA PathStarts ==
    ASSUME NEW n \in Nodes
    PROVE  <<n>> \in Seq(Nodes) /\ IsPath(<<n>>) /\ Target(<<n>>) = n
BY RoutingAssumption DEF IsPath, IsSimple, Target

LEMMA OnwardSound ==
    ASSUME NEW m, GoodFrame(m), m.type = "rreq"
    PROVE  \A k \in Onward(m.to, m) : GoodFrame(k)
<1> DEFINE hops == Append(m.hops, m.to)
<1>1. /\ m.hops \in Seq(Nodes) /\ m.to \in Nodes /\ m.dest \in Nodes /\ m.tag \in Tag
      /\ IsPath(m.hops) /\ <<Target(m.hops), m.to>> \in Radio
  BY FrameFields DEF GoodFrame
<1>2. CASE Len(m.hops) >= MaxHops \/ Loops(m.to, m)
  BY <1>2 DEF Onward
<1>3. CASE Len(m.hops) < MaxHops /\ ~Loops(m.to, m)
  <2>1. hops \in Seq(Nodes) /\ IsPath(hops) /\ Len(hops) = Len(m.hops) + 1 /\ Target(hops) = m.to
    BY <1>1, <1>3, PathGrows DEF Loops
  <2>2. Len(hops) - 1 \in 1 .. Len(hops) - 1
    BY <1>1, <2>1 DEF IsPath
  <2>3. GoodFrame(ReplyTo(hops, Len(hops) - 1, 0))
    BY <2>1, <2>2, ReplySound
  <2>4. \A k \in Broadcast(m.to, m.dest, m.tag, hops) : GoodFrame(k)
    BY <1>1, <2>1, BroadcastSound
  <2> QED BY <1>1, <1>3, <2>3, <2>4 DEF Onward
<1>4. Len(m.hops) \in Nat /\ MaxHops \in Nat
  BY <1>1, RoutingAssumption
<1> QED BY <1>2, <1>3, <1>4

-----------------------------------------------------------------------------
(* What the tables of a node hold *)

\* The packets of a node start on their second hop.
LEMMA SentSound ==
    ASSUME RoutingInv, NEW n \in Nodes, NEW d \in Nodes, NEW r \in Get(n, d)
    PROVE  \A m \in Sent(n, r) : GoodFrame(m)
<1>1. CASE Len(r.hops) > 2
  <2>1. r \in routes[n]
    <3>1. \A k \in Direct(n, d) : Len(k.hops) = 2
      BY DEF Direct
    <3>2. r \notin Direct(n, d)
      <4>1. SUFFICES ASSUME r \in Direct(n, d) PROVE FALSE
        OBVIOUS
      <4>2. Len(r.hops) = 2
        BY <3>1, <4>1
      <4> QED BY <1>1, <4>2
    <3> QED BY <3>2 DEF Get
  <2>2. r.hops \in Seq(Nodes) /\ IsPath(r.hops)
    BY <2>1 DEF RoutingInv, RoutesGood, GoodRoute, Route
  <2> DEFINE m == [type |-> "data", hops |-> r.hops, index |-> 2, tag |-> data]
  <2>3. m \in Message
    BY <2>2 DEF RoutingInv, TablesOK, Message, Packet
  <2>4. m.type = "data" /\ m.hops = r.hops /\ m.index = 2
    OBVIOUS
  <2>5. 2 \in 2 .. Len(r.hops)
    BY <1>1, <2>2
  <2> HIDE DEF m
  <2>6. GoodFrame(m)
    BY <2>2, <2>3, <2>4, <2>5 DEF GoodFrame
  <2> QED BY <1>1, <2>6 DEF Sent, m
<1>2. CASE ~(Len(r.hops) > 2)
  BY <1>2 DEF Sent
<1> QED BY <1>1, <1>2

\* Traffic on a route and time change its age only.
LEMMA AgeChanges ==
    ASSUME NEW n \in Nodes, NEW r, GoodRoute(n, r), NEW a \in 0 .. MaxAge
    PROVE  GoodRoute(n, [r EXCEPT !.age = a])
<1> DEFINE s == [r EXCEPT !.age = a]
<1>1. s \in Route /\ s.hops = r.hops /\ s.dest = r.dest
  BY DEF GoodRoute, Route
<1> HIDE DEF s
<1>2. GoodRoute(n, s)
  BY <1>1 DEF GoodRoute
<1> QED BY <1>2 DEF s

LEMMA TrafficSound ==
    ASSUME RoutesGood, NEW n \in Nodes, NEW d
    PROVE  \A r \in Traffic(n, d) : GoodRoute(n, r)
<1>1. 0 \in 0 .. MaxAge
  BY RoutingAssumption
<1>2. \A r \in routes[n] : GoodRoute(n, r) /\ GoodRoute(n, [r EXCEPT !.age = 0])
  BY <1>1, AgeChanges DEF RoutesGood
<1> QED BY <1>2 DEF Traffic

LEMMA AgedSound ==
    ASSUME RoutesGood, NEW n \in Nodes
    PROVE  \A r \in Aged(n) : GoodRoute(n, r)
<1>1. ASSUME NEW r \in routes[n], r.age < MaxAge
      PROVE  GoodRoute(n, [r EXCEPT !.age = @ + 1])
  <2>0. GoodRoute(n, r)
    BY DEF RoutesGood
  <2>1. r.age + 1 \in 0 .. MaxAge
    <3>1. r.age \in 0 .. MaxAge
      BY <2>0 DEF GoodRoute, Route
    <3>2. MaxAge \in Nat
      BY RoutingAssumption
    <3> QED BY <1>1, <3>1, <3>2
  <2>2. [r EXCEPT !.age = @ + 1] = [r EXCEPT !.age = r.age + 1]
    OBVIOUS
  <2> QED BY <2>0, <2>1, <2>2, AgeChanges
<1>2. \A r \in routes[n] : GoodRoute(n, r)
  BY DEF RoutesGood
<1> QED BY <1>1, <1>2 DEF Aged

\* A reply that comes back to its origin is a route of more than two hops: from a
\* neighbor as the destination none is taken.
LEMMA ReplyIsRoute ==
    ASSUME RoutingInv, NEW m, GoodFrame(m), m.type = "rrep",
           m.hops[1] = m.hops[m.index], m.hops[m.index + 1] \in nbrs[m.hops[1]],
           Target(m.hops) \notin nbrs[m.hops[1]]
    PROVE  GoodRoute(m.hops[1], [dest |-> Target(m.hops), cost |-> ReplyCost(m.hops[1], m),
                                 age |-> 0, hops |-> m.hops])
<1> DEFINE r == [dest |-> Target(m.hops), cost |-> ReplyCost(m.hops[1], m), age |-> 0, hops |-> m.hops]
<1>1. m.hops \in Seq(Nodes) /\ m.cost \in Nat /\ m.index \in 1 .. Len(m.hops) - 1 /\ IsPath(m.hops)
  BY FrameFields DEF GoodFrame
<1>2. m.index = 1
  <2>1. 1 \in DOMAIN m.hops /\ m.index \in DOMAIN m.hops
    BY <1>1 DEF IsPath
  <2> QED BY <1>1, <2>1 DEF IsPath, IsSimple
<1>3. Len(m.hops) \in Nat /\ Len(m.hops) >= 2
  BY <1>1, <1>2
<1>4. Len(m.hops) # 2
  BY <1>2 DEF Target
<1>5. Target(m.hops) \in Nodes
  BY <1>1, <1>3 DEF Target
<1>6. ReplyCost(m.hops[1], m) \in Nat
  BY <1>1, CostType DEF ReplyCost
<1>7. r \in Route
  BY <1>1, <1>5, <1>6, RoutingAssumption DEF Route
<1>8. r.hops = m.hops /\ r.dest = Target(m.hops)
  OBVIOUS
<1> HIDE DEF r
<1>9. GoodRoute(m.hops[1], r)
  <2>1. IsPath(r.hops) /\ r.hops[1] = m.hops[1] /\ Target(r.hops) = r.dest
    BY <1>1, <1>8
  <2>2. Len(r.hops) > 2
    <3>1. \A k \in Nat : k >= 2 /\ k # 2 => k > 2
      OBVIOUS
    <3>2. Len(m.hops) > 2
      BY <1>3, <1>4, <3>1
    <3> QED BY <1>8, <3>2
  <2> QED BY <1>7, <2>1, <2>2 DEF GoodRoute
<1> QED BY <1>9 DEF r

LEMMA AddSound ==
    ASSUME RoutesGood, NEW n \in Nodes, NEW r, GoodRoute(n, r)
    PROVE  \A k \in Add(n, r) : GoodRoute(n, k)
BY DEF RoutesGood, Add

-----------------------------------------------------------------------------
(* The steps *)

LEMMA ReceiverIsNode ==
    ASSUME NEW m, GoodFrame(m)
    PROVE  /\ Receiver(m) \in Nodes
           /\ m.type # "rreq" => /\ Receiver(m) = m.hops[m.index]
                                  /\ m.index \in 1 .. Len(m.hops)
<1>1. m.hops \in Seq(Nodes) /\ m.type \in {"rreq", "rrep", "rerr", "data"}
  BY FrameFields DEF GoodFrame
<1>2. CASE m.type = "rreq"
  BY <1>2, FrameFields DEF GoodFrame, Receiver
<1>3. CASE m.type # "rreq"
  <2>1. m.index \in 1 .. Len(m.hops)
    BY <1>1, <1>3 DEF GoodFrame
  <2> QED BY <1>1, <1>3, <2>1 DEF Receiver
<1> QED BY <1>2, <1>3

\* A packet that goes on stays within its path.
LEMMA PacketGoesOn ==
    ASSUME NEW m, GoodFrame(m), m.type = "data", m.index # Len(m.hops)
    PROVE  GoodFrame([m EXCEPT !.index = @ + 1])
<1> DEFINE k == [m EXCEPT !.index = @ + 1]
<1>1. m \in Packet /\ m.index \in 2 .. Len(m.hops) /\ Len(m.hops) \in Nat
  BY DEF GoodFrame, Message, Request, Reply, RouteError, Packet
<1>2. k \in Packet /\ k.type = "data" /\ k.hops = m.hops /\ k.index = m.index + 1
  BY <1>1 DEF Packet
<1>3. m.index + 1 \in 2 .. Len(m.hops)
  BY <1>1
<1> HIDE DEF k
<1>4. k \in Message /\ IsPath(k.hops) /\ k.index \in 2 .. Len(k.hops)
  BY <1>2, <1>3 DEF GoodFrame, Message
<1>5. GoodFrame(k)
  BY <1>2, <1>4 DEF GoodFrame
<1> QED BY <1>5 DEF k

\* The error of a node that cannot pass a packet on.
LEMMA PacketError ==
    ASSUME NEW m, GoodFrame(m), m.type = "data", m.index # Len(m.hops), NEW n,
           n = m.hops[m.index]
    PROVE  \A k \in ErrorTo(n, m.hops, ErrorIndex(n, m.hops)) : GoodFrame(k)
<1>1. m.hops \in Seq(Nodes) /\ IsPath(m.hops) /\ m.index \in 2 .. Len(m.hops)
  BY FrameFields DEF GoodFrame
<1>2. m.index \in 1 .. Len(m.hops) /\ m.index - 1 \in 1 .. Len(m.hops) - 1
  BY <1>1
<1>3. ErrorIndex(n, m.hops) = m.index - 1
  BY <1>1, <1>2, ErrorIndexIs
<1> QED BY <1>1, <1>2, <1>3, ErrorSound

LEMMA RequestStep ==
    ASSUME RoutingInv, NEW m \in net, ReceiveRequest(Receiver(m), m)
    PROVE  cache' \in [Nodes -> Seq(Tag)] /\ routes' = routes /\ disc' = disc /\ FramesGood'
<1>1. GoodFrame(m) /\ m.type = "rreq" /\ m.tag \in Tag /\ Receiver(m) = m.to /\ m.to \in Nodes
  BY FrameFields DEF RoutingInv, FramesGood, ReceiveRequest, Receiver, GoodFrame
<1>2. \A k \in Onward(m.to, m) : GoodFrame(k)
  BY <1>1, OnwardSound
<1>3. cache[m.to] \in Seq(Tag)
  BY <1>1 DEF RoutingInv, TablesOK
<1>4. Remembered(m.to, m.tag) \in Seq(Tag)
  <2>1. CASE Len(cache[m.to]) = CacheEntries
    <3>1. cache[m.to] # <<>>
      BY <1>3, <2>1, RoutingAssumption
    <3> QED BY <1>1, <1>3, <2>1, <3>1 DEF Remembered
  <2>2. CASE Len(cache[m.to]) # CacheEntries
    BY <1>1, <1>3, <2>2 DEF Remembered
  <2> QED BY <2>1, <2>2
<1>5. cache' = cache \/ cache' = [cache EXCEPT ![m.to] = Remembered(m.to, m.tag)]
  BY <1>1 DEF ReceiveRequest
<1>6. cache' \in [Nodes -> Seq(Tag)]
  BY <1>4, <1>5 DEF RoutingInv, TablesOK
<1>7. net' \subseteq net \cup Onward(m.to, m)
  BY <1>1 DEF ReceiveRequest
<1>8. FramesGood'
  BY <1>2, <1>7 DEF RoutingInv, FramesGood
<1> QED BY <1>6, <1>8 DEF ReceiveRequest

LEMMA ReplyStep ==
    ASSUME RoutingInv, NEW m \in net, Sender(m) \in nbrs[Receiver(m)],
           ReceiveReply(Receiver(m), m)
    PROVE  /\ cache' = cache /\ DOMAIN routes' = Nodes
           /\ disc' \in [Nodes -> SUBSET [dest : Nodes, tries : 1 .. Tries]]
           /\ RoutesGood' /\ FramesGood'
<1> DEFINE n == Receiver(m)
           route == [dest |-> Target(m.hops), cost |-> ReplyCost(n, m), age |-> 0, hops |-> m.hops]
<1>1. /\ GoodFrame(m) /\ m.type = "rrep" /\ m.hops \in Seq(Nodes) /\ m.cost \in Nat
      /\ m.index \in 1 .. Len(m.hops) - 1
  BY FrameFields DEF RoutingInv, FramesGood, ReceiveReply, GoodFrame
<1>2. n \in Nodes /\ n = m.hops[m.index] /\ Sender(m) = m.hops[m.index + 1]
  BY <1>1, ReceiverIsNode DEF Sender
<1>3. ASSUME m.index > 1
      PROVE  GoodFrame(ReplyTo(m.hops, m.index - 1, ReplyCost(n, m)))
  <2>1. m.index - 1 \in 1 .. Len(m.hops) - 1
    BY <1>1, <1>3
  <2>2. ReplyCost(n, m) \in Nat
    BY <1>1, CostType DEF ReplyCost
  <2>3. IsPath(m.hops)
    BY <1>1 DEF GoodFrame
  <2> QED BY <1>1, <2>1, <2>2, <2>3, ReplySound
<1>4. FramesGood'
  <2>1. \A k \in net' : k \in net \/ (m.index > 1 /\ k = ReplyTo(m.hops, m.index - 1, ReplyCost(n, m)))
    BY DEF ReceiveReply
  <2> HIDE DEF n
  <2> QED BY <1>3, <2>1 DEF RoutingInv, FramesGood
<1>5. ASSUME UNCHANGED routes
      PROVE  DOMAIN routes' = Nodes /\ RoutesGood'
  BY <1>5 DEF RoutingInv, TablesOK, RoutesGood
<1>6. ASSUME m.hops[1] = n, Target(m.hops) \notin nbrs[n],
             routes' = [routes EXCEPT ![n] = Add(n, route)]
      PROVE  DOMAIN routes' = Nodes /\ RoutesGood'
  <2>1. m.hops[1] = m.hops[m.index] /\ m.hops[m.index + 1] \in nbrs[m.hops[1]]
    BY <1>2, <1>6
  <2>2. GoodRoute(n, route)
    BY <1>1, <1>2, <1>6, <2>1, ReplyIsRoute
  <2> HIDE DEF n, route
  <2>3. \A k \in Add(n, route) : GoodRoute(n, k)
    BY <1>2, <2>2, AddSound DEF RoutingInv
  <2>4. DOMAIN routes' = Nodes /\ \A p \in Nodes : routes'[p] = IF p = n THEN Add(n, route) ELSE routes[p]
    BY <1>2, <1>6 DEF RoutingInv, TablesOK
  <2> QED BY <2>3, <2>4 DEF RoutingInv, RoutesGood
<1>7. DOMAIN routes' = Nodes /\ RoutesGood'
  BY <1>5, <1>6 DEF ReceiveReply, RoutingInv, TablesOK
<1>8. disc' = disc \/ disc' = [disc EXCEPT ![n] = {e \in @ : e.dest # Target(m.hops)}]
  BY DEF ReceiveReply
<1>9. disc' \in [Nodes -> SUBSET [dest : Nodes, tries : 1 .. Tries]]
  <2>1. disc \in [Nodes -> SUBSET [dest : Nodes, tries : 1 .. Tries]]
    BY DEF RoutingInv, TablesOK
  <2> HIDE DEF n
  <2> QED BY <1>8, <2>1
<1> QED BY <1>4, <1>7, <1>9 DEF ReceiveReply

LEMMA ErrorStep ==
    ASSUME RoutingInv, NEW m \in net, ReceiveError(Receiver(m), m)
    PROVE  disc' = disc /\ cache' = cache /\ DOMAIN routes' = Nodes /\ RoutesGood' /\ FramesGood'
<1> DEFINE n == Receiver(m)
<1>1. /\ GoodFrame(m) /\ m.type = "rerr" /\ m.hops \in Seq(Nodes) /\ IsPath(m.hops)
      /\ m.index \in 1 .. Len(m.hops) - 1
  BY FrameFields DEF RoutingInv, FramesGood, ReceiveError, GoodFrame
<1>2. FramesGood'
  <2>1. CASE m.index = 1
    BY <2>1 DEF ReceiveError, RoutingInv, FramesGood
  <2>2. CASE m.index # 1
    <3>1. m.index - 1 \in 1 .. Len(m.hops) - 1
      BY <1>1, <2>2
    <3>2. \A k \in ErrorTo(n, m.hops, m.index - 1) : GoodFrame(k)
      BY <1>1, <3>1, ErrorSound
    <3>3. net' = (net \ {m}) \cup ErrorTo(n, m.hops, m.index - 1)
      BY <2>2 DEF ReceiveError
    <3> HIDE DEF n
    <3> QED BY <3>2, <3>3 DEF RoutingInv, FramesGood
  <2> QED BY <2>1, <2>2
<1>3. routes' = routes \/ routes' = [routes EXCEPT ![n] = {r \in @ : r.dest # Target(m.hops)}]
  BY DEF ReceiveError
<1> HIDE DEF n
<1>4. DOMAIN routes' = Nodes /\ \A p \in Nodes : routes'[p] \subseteq routes[p]
  BY <1>3 DEF RoutingInv, TablesOK
<1>5. RoutesGood'
  BY <1>4 DEF RoutingInv, RoutesGood
<1> QED BY <1>2, <1>4, <1>5 DEF ReceiveError

LEMMA PacketStep ==
    ASSUME RoutingInv, NEW m \in net, ReceivePacket(Receiver(m), m)
    PROVE  UNCHANGED <<routes, disc, cache>> /\ FramesGood'
<1> DEFINE n == Receiver(m)
<1>1. GoodFrame(m) /\ m.type = "data"
  BY DEF RoutingInv, FramesGood, ReceivePacket
<1>2. n = m.hops[m.index]
  BY <1>1, ReceiverIsNode
<1>3. ASSUME m.index = Len(m.hops)
      PROVE  FramesGood'
  <2>1. net' = net \ {m}
    BY <1>3 DEF ReceivePacket
  <2> QED BY <2>1 DEF RoutingInv, FramesGood
<1>4. ASSUME m.index # Len(m.hops)
      PROVE  FramesGood'
  <2>1. GoodFrame([m EXCEPT !.index = @ + 1])
    BY <1>1, <1>4, PacketGoesOn
  <2>2. \A k \in ErrorTo(n, m.hops, ErrorIndex(n, m.hops)) : GoodFrame(k)
    BY <1>1, <1>2, <1>4, PacketError
  <2>3. net' \subseteq net \cup {[m EXCEPT !.index = @ + 1]} \cup ErrorTo(n, m.hops, ErrorIndex(n, m.hops))
    BY <1>4 DEF ReceivePacket
  <2> HIDE DEF n
  <2> QED BY <2>1, <2>2, <2>3 DEF RoutingInv, FramesGood
<1> QED BY <1>3, <1>4 DEF ReceivePacket

LEMMA ReceiveSound ==
    ASSUME RoutingInv, NEW m \in net, Receive(m)
    PROVE  RoutingInv'
<1>1. /\ cache' \in [Nodes -> Seq(Tag)] /\ DOMAIN routes' = Nodes
      /\ disc' \in [Nodes -> SUBSET [dest : Nodes, tries : 1 .. Tries]]
      /\ RoutesGood' /\ FramesGood'
  <2>1. CASE Sender(m) \in nbrs[Receiver(m)]
    <3>1. CASE ReceiveRequest(Receiver(m), m)
      BY <3>1, RequestStep DEF RoutingInv, TablesOK, RoutesGood
    <3>2. CASE ReceiveReply(Receiver(m), m)
      BY <2>1, <3>2, ReplyStep DEF RoutingInv, TablesOK
    <3>3. CASE ReceiveError(Receiver(m), m)
      BY <3>3, ErrorStep DEF RoutingInv, TablesOK
    <3>4. CASE ReceivePacket(Receiver(m), m)
      BY <3>4, PacketStep DEF RoutingInv, TablesOK, RoutesGood
    <3> QED BY <2>1, <3>1, <3>2, <3>3, <3>4 DEF Receive
  <2>2. CASE Sender(m) \notin nbrs[Receiver(m)]
    BY <2>2 DEF Receive, RoutingInv, TablesOK, RoutesGood, FramesGood
  <2> QED BY <2>1, <2>2
<1>2. TablesOK'
  BY <1>1 DEF Receive, RoutingInv, TablesOK, faults
<1> QED BY <1>1, <1>2 DEF RoutingInv

LEMMA SendPacketSound ==
    ASSUME RoutingInv, NEW n \in Nodes, NEW d \in Nodes, SendPacket(n, d)
    PROVE  RoutingInv'
<1>1. FramesGood' /\ RoutesGood' /\ DOMAIN routes' = Nodes
  <2>1. ASSUME NEW r \in Get(n, d), net' = net \cup Sent(n, r),
               routes' = routes \/ routes' = [routes EXCEPT ![n] = Traffic(n, d)]
        PROVE  FramesGood' /\ RoutesGood' /\ DOMAIN routes' = Nodes
    <3>1. FramesGood'
      BY <2>1, SentSound DEF RoutingInv, FramesGood
    <3>2. \A p \in Nodes : routes'[p] = routes[p] \/ (p = n /\ routes'[p] = Traffic(n, d))
      BY <2>1 DEF RoutingInv, TablesOK
    <3>3. \A k \in Traffic(n, d) : GoodRoute(n, k)
      BY TrafficSound DEF RoutingInv
    <3>4. RoutesGood'
      BY <3>2, <3>3 DEF RoutingInv, RoutesGood
    <3> QED BY <2>1, <3>1, <3>4 DEF RoutingInv, TablesOK
  <2>2. ASSUME UNCHANGED <<net, routes>>
        PROVE  FramesGood' /\ RoutesGood' /\ DOMAIN routes' = Nodes
    BY <2>2 DEF RoutingInv, TablesOK, RoutesGood, FramesGood
  <2> QED BY <2>1, <2>2 DEF SendPacket
<1>2. disc' \in [Nodes -> SUBSET [dest : Nodes, tries : 1 .. Tries]]
  <2>1. disc' = disc \/ disc' = [disc EXCEPT ![n] = @ \cup {[dest |-> d, tries |-> Tries]}]
    BY DEF SendPacket
  <2>2. [dest |-> d, tries |-> Tries] \in [dest : Nodes, tries : 1 .. Tries]
    BY RoutingAssumption
  <2>3. disc \in [Nodes -> SUBSET [dest : Nodes, tries : 1 .. Tries]]
    BY DEF RoutingInv, TablesOK
  <2> QED BY <2>1, <2>2, <2>3
<1>3. waiting' \in [Nodes -> Seq(Nodes)]
  <2>1. waiting' = waiting \/ waiting' = [waiting EXCEPT ![n] = Append(waiting[n], d)]
    BY DEF SendPacket
  <2>2. waiting \in [Nodes -> Seq(Nodes)]
    BY DEF RoutingInv, TablesOK
  <2>3. Append(waiting[n], d) \in Seq(Nodes)
    BY <2>2
  <2>4. [waiting EXCEPT ![n] = Append(waiting[n], d)] \in [Nodes -> Seq(Nodes)]
    BY Zenon, <2>2, <2>3, FunctionUpdated
  <2> QED BY ONLY <2>1, <2>2, <2>4
<1>4. data' \in Nat
  BY DEF SendPacket, RoutingInv, TablesOK
<1>5. TablesOK'
  BY <1>1, <1>2, <1>3, <1>4 DEF SendPacket, RoutingInv, TablesOK, faults
<1> QED BY <1>1, <1>5 DEF RoutingInv

LEMMA RouteThreadSound ==
    ASSUME RoutingInv, NEW n \in Nodes, RouteThread(n)
    PROVE  RoutingInv'
<1> DEFINE d == Head(waiting[n])
<1>1. d \in Nodes /\ Tail(waiting[n]) \in Seq(Nodes)
  BY DEF RouteThread, RoutingInv, TablesOK
<1>2. FramesGood' /\ RoutesGood' /\ DOMAIN routes' = Nodes
  <2>1. ASSUME NEW r \in Get(n, d), net' = net \cup Sent(n, r),
               routes' = routes \/ routes' = [routes EXCEPT ![n] = Traffic(n, d)]
        PROVE  FramesGood' /\ RoutesGood' /\ DOMAIN routes' = Nodes
    <3>0. \A m \in Sent(n, r) : GoodFrame(m)
      BY <1>1, SentSound
    <3> HIDE DEF d
    <3>1. FramesGood'
      BY <2>1, <3>0 DEF RoutingInv, FramesGood
    <3>2. \A p \in Nodes : routes'[p] = routes[p] \/ (p = n /\ routes'[p] = Traffic(n, d))
      BY <2>1 DEF RoutingInv, TablesOK
    <3>3. \A k \in Traffic(n, d) : GoodRoute(n, k)
      BY TrafficSound DEF RoutingInv
    <3>4. RoutesGood'
      BY <3>2, <3>3 DEF RoutingInv, RoutesGood
    <3> QED BY <2>1, <3>1, <3>4 DEF RoutingInv, TablesOK
  <2>2. ASSUME UNCHANGED <<net, routes>>
        PROVE  FramesGood' /\ RoutesGood' /\ DOMAIN routes' = Nodes
    BY <2>2 DEF RoutingInv, TablesOK, RoutesGood, FramesGood
  <2> QED BY <2>1, <2>2 DEF RouteThread
<1>3. waiting' \in [Nodes -> Seq(Nodes)]
  <2>1. waiting \in [Nodes -> Seq(Nodes)] /\ waiting' = [waiting EXCEPT ![n] = Tail(waiting[n])]
    BY DEF RouteThread, RoutingInv, TablesOK
  <2>2. [waiting EXCEPT ![n] = Tail(waiting[n])] \in [Nodes -> Seq(Nodes)]
    BY Zenon, <1>1, <2>1, FunctionUpdated
  <2> QED BY ONLY <2>1, <2>2
<1>4. TablesOK'
  BY <1>2, <1>3 DEF RouteThread, RoutingInv, TablesOK, faults
<1> QED BY <1>2, <1>4 DEF RoutingInv

LEMMA DiscoverySound ==
    ASSUME RoutingInv, NEW n \in Nodes, DiscoveryThread(n)
    PROVE  RoutingInv'
<1>1. PICK ok \in SUBSET {e \in disc[n] : e.tries > 0} :
         /\ failures' = failures \/ failures' = failures + 1
         /\ net' = net \cup UNION {Broadcast(n, e.dest, <<n, e.dest, floods[n]>>, <<n>>) : e \in ok}
         /\ disc' = [disc EXCEPT ![n] = AfterPass(n, ok)]
         /\ floods' = floods \/ floods' = [floods EXCEPT ![n] = @ + 1]
  BY DEF DiscoveryThread
<1>2. disc[n] \subseteq [dest : Nodes, tries : 1 .. Tries] /\ floods[n] \in Nat
  BY DEF RoutingInv, TablesOK
<1>3. FramesGood'
  <2>1. ASSUME NEW e \in ok
        PROVE  \A m \in Broadcast(n, e.dest, <<n, e.dest, floods[n]>>, <<n>>) : GoodFrame(m)
    <3>1. e.dest \in Nodes
      BY <1>2
    <3>2. <<n, e.dest, floods[n]>> \in Tag
      BY <1>2, <3>1 DEF Tag
    <3> QED BY <3>1, <3>2, PathStarts, BroadcastSound
  <2> QED BY <1>1, <2>1 DEF RoutingInv, FramesGood
<1>4. AfterPass(n, ok) \subseteq [dest : Nodes, tries : 1 .. Tries]
  <2>1. ASSUME NEW e \in ok, e.tries > 1
        PROVE  [e EXCEPT !.tries = @ - 1] \in [dest : Nodes, tries : 1 .. Tries]
    <3>1. e \in [dest : Nodes, tries : 1 .. Tries]
      BY <1>2
    <3>2. e.tries - 1 \in 1 .. Tries
      BY <2>1, <3>1, RoutingAssumption
    <3> QED BY <3>1, <3>2
  <2> QED BY <1>2, <2>1 DEF AfterPass
<1>5. disc' \in [Nodes -> SUBSET [dest : Nodes, tries : 1 .. Tries]]
  BY <1>1, <1>4 DEF RoutingInv, TablesOK
<1>6. floods' \in [Nodes -> Nat] /\ failures' \in Nat
  <2>1. floods \in [Nodes -> Nat] /\ failures \in Nat
    BY DEF RoutingInv, TablesOK
  <2>2. failures' \in Nat
    BY <1>1, <2>1
  <2>3. floods' \in [Nodes -> Nat]
    BY <1>1, <2>1
  <2> QED BY <2>2, <2>3
<1>7. TablesOK' /\ RoutesGood'
  BY <1>5, <1>6 DEF DiscoveryThread, RoutingInv, TablesOK, RoutesGood
<1> QED BY <1>3, <1>7 DEF RoutingInv

LEMMA AgeThreadSound ==
    ASSUME RoutingInv, NEW n \in Nodes, AgeThread(n)
    PROVE  RoutingInv'
<1>1. \A r \in Aged(n) : GoodRoute(n, r)
  BY AgedSound DEF RoutingInv
<1>2. DOMAIN routes' = Nodes /\ \A p \in Nodes : routes'[p] = IF p = n THEN Aged(n) ELSE routes[p]
  BY DEF AgeThread, RoutingInv, TablesOK
<1>3. RoutesGood'
  BY <1>1, <1>2 DEF RoutingInv, RoutesGood
<1>4. TablesOK' /\ FramesGood'
  BY <1>2 DEF AgeThread, RoutingInv, TablesOK, FramesGood, faults
<1> QED BY <1>3, <1>4 DEF RoutingInv

LEMMA FaultSound ==
    ASSUME RoutingInv,
           \/ \E m \in net : Lose(m)
           \/ \E l \in Fragile : NeighborChange(l[1], l[2])
           \/ \E n \in Unsteady : SwitchRouting(n) \/ Reboot(n)
    PROVE  RoutingInv'
<1>1. ASSUME NEW m \in net, Lose(m)
      PROVE  RoutingInv'
  BY <1>1 DEF Lose, RoutingInv, TablesOK, RoutesGood, FramesGood, tables
<1>2. ASSUME NEW l \in Fragile, NeighborChange(l[1], l[2])
      PROVE  RoutingInv'
  <2>1. l[1] \in Nodes /\ l[2] \in Nodes
    BY RadioNodes, RoutingAssumption
  <2>2. nbrs' \in [Nodes -> SUBSET Nodes]
    BY <1>2, <2>1 DEF NeighborChange, RoutingInv, TablesOK
  <2> QED BY <1>2, <2>2 DEF NeighborChange, RoutingInv, TablesOK, RoutesGood, FramesGood, tables
<1>3. ASSUME NEW n \in Unsteady, SwitchRouting(n)
      PROVE  RoutingInv'
  <2>1. n \in Nodes
    BY RoutingAssumption
  <2> QED BY <1>3, <2>1 DEF SwitchRouting, RoutingInv, TablesOK, RoutesGood, FramesGood, tables
<1>4. ASSUME NEW n \in Unsteady, Reboot(n)
      PROVE  RoutingInv'
  <2>1. n \in Nodes
    BY RoutingAssumption
  <2>2. cache' \in [Nodes -> Seq(Tag)] /\ waiting' \in [Nodes -> Seq(Nodes)]
    <3>1. cache \in [Nodes -> Seq(Tag)] /\ waiting \in [Nodes -> Seq(Nodes)]
      BY DEF RoutingInv, TablesOK
    <3>2. cache' = [cache EXCEPT ![n] = <<>>] /\ waiting' = [waiting EXCEPT ![n] = <<>>]
      BY <1>4 DEF Reboot
    <3>3. <<>> \in Seq(Tag) /\ <<>> \in Seq(Nodes)
      OBVIOUS
    <3> QED BY Zenon, <3>1, <3>2, <3>3, FunctionUpdated
  <2>3. disc' \in [Nodes -> SUBSET [dest : Nodes, tries : 1 .. Tries]]
    BY <1>4 DEF Reboot, RoutingInv, TablesOK
  <2>4. DOMAIN routes' = Nodes /\ rebooted' \in SUBSET Nodes
    BY <1>4, <2>1 DEF Reboot, RoutingInv, TablesOK
  <2>5. TablesOK'
    BY <1>4, <2>2, <2>3, <2>4 DEF Reboot, RoutingInv, TablesOK
  <2>6. \A p \in Nodes : routes'[p] \subseteq routes[p]
    BY <1>4 DEF Reboot, RoutingInv, TablesOK
  <2>7. RoutesGood' /\ FramesGood'
    BY <1>4, <2>6 DEF Reboot, RoutingInv, RoutesGood, FramesGood
  <2> QED BY <2>5, <2>7 DEF RoutingInv
<1> QED BY <1>1, <1>2, <1>3, <1>4

-----------------------------------------------------------------------------
(* The theorems *)

LEMMA RoutingInvHolds == Spec => []RoutingInv
<1>1. Init => RoutingInv
  <2> SUFFICES ASSUME Init PROVE RoutingInv
    OBVIOUS
  <2>1. TablesOK
    BY DEF Init, TablesOK
  <2>2. RoutesGood /\ FramesGood
    BY DEF Init, RoutesGood, FramesGood
  <2> QED BY <2>1, <2>2 DEF RoutingInv
<1>2. RoutingInv /\ [Next]_vars => RoutingInv'
  <2> SUFFICES ASSUME RoutingInv, [Next]_vars PROVE RoutingInv'
    OBVIOUS
  <2>1. ASSUME NEW f \in Flows, SendPacket(f[1], f[2])
        PROVE  RoutingInv'
    <3>1. f[1] \in Nodes /\ f[2] \in Nodes
      BY RoutingAssumption
    <3> QED BY <2>1, <3>1, SendPacketSound
  <2>2. ASSUME NEW n \in Nodes, RouteThread(n) \/ DiscoveryThread(n) \/ AgeThread(n)
        PROVE  RoutingInv'
    BY <2>2, RouteThreadSound, DiscoverySound, AgeThreadSound
  <2>3. ASSUME Deliver
        PROVE  RoutingInv'
    BY <2>3, ReceiveSound DEF Deliver
  <2>4. ASSUME UNCHANGED vars
        PROVE  RoutingInv'
    BY <2>4 DEF vars, RoutingInv, TablesOK, RoutesGood, FramesGood
  <2> QED BY <2>1, <2>2, <2>3, <2>4, FaultSound DEF Next
<1> QED BY <1>1, <1>2, PTL DEF Spec

\* The tables and the frames always have their types: no handler computes with
\* anything but hop lists, costs and tries of the kinds it expects.
THEOREM RoutingTypeCorrect == Spec => []TypeOK
<1>1. RoutingInv => TypeOK
  BY DEF RoutingInv, TablesOK, RoutesGood, FramesGood, GoodRoute, GoodFrame, TypeOK
<1> QED BY <1>1, RoutingInvHolds, PTL

\* Loop freedom of the source routes (routing2.c:572, 914, 1050, 672): every hop list
\* in a table or in flight is a path without loops over radio links, from the origin
\* of a route to its destination, and every index into one is within its bounds.
THEOREM RoutesAreLoopFree == Spec => []HopListsSound
<1>1. RoutingInv => HopListsSound
  BY DEF RoutingInv, RoutesGood, FramesGood, GoodRoute, GoodFrame, HopListsSound
<1> QED BY <1>1, RoutingInvHolds, PTL
-----------------------------------------------------------------------------
(* What a path costs *)

\* Induction on the natural numbers, on a set instead of a predicate.
LEMMA SetInduction ==
    ASSUME NEW S, 0 \in S, \A n \in Nat : n \in S => n + 1 \in S
    PROVE  Nat \subseteq S
<1> DEFINE T == Nat \ S
<1> SUFFICES ASSUME T # {} PROVE FALSE
  OBVIOUS
<1>1. PICK x \in T : \A y \in T : ~(<<y, x>> \in OpToRel(<, Nat))
  BY NatLessThanWellFounded, WFMin
<1>2. ASSUME NEW y \in T PROVE ~(y < x)
  BY <1>1, Zenon DEF OpToRel
<1>3. x - 1 \in Nat /\ x - 1 < x
  OBVIOUS
<1>4. x - 1 \in S
  BY <1>2, <1>3
<1> QED BY <1>3, <1>4

\* A sum from the end of a list of n members has a solution.
LEMMA SumFromEndExists ==
    ASSUME NEW n \in Nat \ {0}, NEW w, \A j \in 1 .. n - 1 : w[j] \in Nat
    PROVE  \E f \in [1 .. n -> Nat] :
              f = [j \in 1 .. n |-> IF j = n THEN 0 ELSE w[j] + f[j + 1]]
<1> DEFINE Good(f, k) == /\ f \in [1 .. n -> Nat] /\ f[n] = 0
                         /\ \A j \in n - k .. n - 1 : f[j] = w[j] + f[j + 1]
           S == {k \in Nat : k < n => \E f : Good(f, k)}
<1>1. 0 \in S
  <2>1. Good([j \in 1 .. n |-> 0], 0)
    OBVIOUS
  <2> QED BY <2>1
<1>2. ASSUME NEW k \in Nat, k \in S PROVE k + 1 \in S
  <2> SUFFICES ASSUME k + 1 < n PROVE \E g : Good(g, k + 1)
    BY DEF S
  <2>1. PICK f : Good(f, k)
    BY <1>2
  <2> DEFINE i == n - (k + 1)
             g == [f EXCEPT ![i] = w[i] + f[i + 1]]
  <2>2. i \in 1 .. n - 1 /\ i + 1 \in 1 .. n /\ w[i] \in Nat /\ f[i + 1] \in Nat
    BY <2>1
  <2>3. g \in [1 .. n -> Nat] /\ g[n] = 0 /\ g[i] = w[i] + g[i + 1]
    BY <2>1, <2>2
  <2>4. \A j \in n - k .. n - 1 : g[j] = w[j] + g[j + 1]
    BY <2>1, <2>2
  <2>5. \A j \in n - (k + 1) .. n - 1 : j = i \/ j \in n - k .. n - 1
    OBVIOUS
  <2>6. Good(g, k + 1)
    <3> HIDE DEF g, i
    <3> QED BY <2>3, <2>4, <2>5
  <2> HIDE DEF g, Good
  <2> QED BY <2>6
<1>3. n - 1 \in S
  <2> HIDE DEF S
  <2> QED BY <1>1, <1>2, SetInduction
<1>4. PICK f : Good(f, n - 1)
  BY <1>3
<1>5. f = [j \in 1 .. n |-> IF j = n THEN 0 ELSE w[j] + f[j + 1]]
  <2>1. \A j \in 1 .. n : f[j] = IF j = n THEN 0 ELSE w[j] + f[j + 1]
    <3>1. \A j \in 1 .. n : j = n \/ j \in n - (n - 1) .. n - 1
      OBVIOUS
    <3> QED BY <1>4, <3>1
  <2>2. f = [j \in 1 .. n |-> f[j]]
    BY <1>4
  <2> QED BY <2>1, <2>2
<1> QED BY <1>4, <1>5

LEMMA LinkCostType == ASSUME NEW l \in Radio PROVE LinkCost[l] \in Nat
<1>1. LinkCost[l] \in 1 .. 254
  <2> HIDE DEF Radio
  <2> QED BY RoutingAssumption
<1> QED BY <1>1

\* A path of one node costs nothing, and each hop before costs its link.
LEMMA CostFromIs ==
    ASSUME NEW hops \in Seq(Nodes), IsPath(hops)
    PROVE  /\ CostFrom(hops, Len(hops)) = 0
           /\ \A i \in 1 .. Len(hops) - 1 :
                 /\ CostFrom(hops, i) = LinkCost[<<hops[i], hops[i + 1]>>] + CostFrom(hops, i + 1)
                 /\ CostFrom(hops, i) \in Nat
<1> DEFINE n == Len(hops)
           w == [j \in 1 .. n |-> LinkCost[<<hops[j], hops[j + 1]>>]]
           Is(f) == f = [j \in 1 .. n |-> IF j = n THEN 0
                                         ELSE LinkCost[<<hops[j], hops[j + 1]>>] + f[j + 1]]
           c == CHOOSE f : Is(f)
<1>1. n \in Nat \ {0}
  BY DEF IsPath
<1>2. \A j \in 1 .. n - 1 : w[j] \in Nat
  <2> TAKE j \in 1 .. n - 1
  <2>1. j \in 1 .. n /\ <<hops[j], hops[j + 1]>> \in Radio
    BY <1>1 DEF IsPath
  <2>2. LinkCost[<<hops[j], hops[j + 1]>>] \in Nat
    BY <2>1, LinkCostType
  <2> QED BY <2>1, <2>2
<1>3. PICK f \in [1 .. n -> Nat] : f = [j \in 1 .. n |-> IF j = n THEN 0 ELSE w[j] + f[j + 1]]
  <2> HIDE DEF w, n
  <2> QED BY <1>1, <1>2, SumFromEndExists
<1>4. Is(f)
  <2>1. \A j \in 1 .. n : (IF j = n THEN 0 ELSE w[j] + f[j + 1])
                        = (IF j = n THEN 0 ELSE LinkCost[<<hops[j], hops[j + 1]>>] + f[j + 1])
    OBVIOUS
  <2> HIDE DEF w
  <2> QED BY <1>3, <2>1
<1>5. \A g : \A j \in 1 .. n :
         Is(g) => g[j] = IF j = n THEN 0 ELSE LinkCost[<<hops[j], hops[j + 1]>>] + g[j + 1]
  OBVIOUS
<1>6. Is(c)
  <2> HIDE DEF Is
  <2> QED BY <1>4
<1>7. \A i \in 1 .. n : CostFrom(hops, i) = c[i]
  BY DEF CostFrom
<1> HIDE DEF c, Is
<1>8. \A j \in 1 .. n : c[j] = IF j = n THEN 0 ELSE LinkCost[<<hops[j], hops[j + 1]>>] + c[j + 1]
  BY <1>5, <1>6
<1>9. \A j \in 1 .. n : c[j] \in Nat
  <2> DEFINE S == {k \in Nat : k < n => c[n - k] \in Nat}
  <2>1. 0 \in S
    <3>1. n \in 1 .. n /\ n - 0 = n
      BY <1>1
    <3>2. c[n] = 0
      BY <1>8, <3>1
    <3> HIDE DEF n
    <3> QED BY <3>1, <3>2
  <2>2. \A k \in Nat : k \in S => k + 1 \in S
    <3> SUFFICES ASSUME NEW k \in Nat, k \in S, k + 1 < n PROVE c[n - (k + 1)] \in Nat
      OBVIOUS
    <3> DEFINE i == n - (k + 1)
    <3>1. i \in 1 .. n - 1 /\ i \in 1 .. n /\ i + 1 = n - k /\ i # n /\ k < n
      BY <1>1
    <3>2. c[n - k] \in Nat
      BY <3>1
    <3> HIDE DEF n, S
    <3>3. w[i] \in Nat
      BY <1>2, <3>1
    <3>4. w[i] = LinkCost[<<hops[i], hops[i + 1]>>]
      BY <3>1
    <3> HIDE DEF i, w
    <3>5. c[i] = w[i] + c[i + 1]
      BY <1>8, <3>1, <3>4
    <3>6. c[i] \in Nat
      BY <3>1, <3>2, <3>3, <3>5
    <3> QED BY <3>6 DEF i
  <2>3. \A k \in Nat : k \in S
    <3> HIDE DEF S
    <3> QED BY <2>1, <2>2, SetInduction
  <2>4. \A j \in 1 .. n : n - j \in Nat /\ n - j < n /\ n - (n - j) = j
    BY <1>1
  <2> QED BY <2>3, <2>4
<1> QED
  <2>1. \A i \in 1 .. n - 1 : i \in 1 .. n /\ i + 1 \in 1 .. n /\ i # n
    BY <1>1
  <2>2. n \in 1 .. n
    BY <1>1
  <2> QED BY <1>7, <1>8, <1>9, <2>1, <2>2

\* Replies say what it costs from their hop on, routes what they cost as a whole.
CostsInv ==
    /\ CostsAddUp
    /\ \A m \in net : m.type = "rrep" => m.cost = CostFrom(m.hops, m.index + 1)

\* The cost that a hop adds is that of its link, for the reply came from a neighbor.
LEMMA ReplyCostIs ==
    ASSUME RoutingInv, NEW m, GoodFrame(m), m.type = "rrep",
           m.cost = CostFrom(m.hops, m.index + 1), Sender(m) \in nbrs[Receiver(m)]
    PROVE  ReplyCost(Receiver(m), m) = CostFrom(m.hops, m.index)
<1>1. /\ m.hops \in Seq(Nodes) /\ IsPath(m.hops) /\ m.index \in 1 .. Len(m.hops) - 1
      /\ Receiver(m) = m.hops[m.index] /\ Sender(m) = m.hops[m.index + 1]
  BY FrameFields, ReceiverIsNode DEF GoodFrame, Sender
<1>2. <<m.hops[m.index], m.hops[m.index + 1]>> \in Radio
  BY <1>1 DEF IsPath
<1>3. CostTo(Receiver(m), m.hops[m.index + 1]) = LinkCost[<<m.hops[m.index], m.hops[m.index + 1]>>]
  BY <1>1, <1>2 DEF CostTo
<1>4. CostFrom(m.hops, m.index)
         = LinkCost[<<m.hops[m.index], m.hops[m.index + 1]>>] + CostFrom(m.hops, m.index + 1)
  BY <1>1, CostFromIs
<1>5. LinkCost[<<m.hops[m.index], m.hops[m.index + 1]>>] \in Nat /\ m.cost \in Nat
  BY <1>2, LinkCostType, FrameFields DEF GoodFrame
<1>6. \A a, b \in Nat : a + b = b + a
  OBVIOUS
<1>7. ReplyCost(Receiver(m), m) = m.cost + LinkCost[<<m.hops[m.index], m.hops[m.index + 1]>>]
  BY <1>3 DEF ReplyCost
<1> QED BY <1>4, <1>5, <1>6, <1>7

LEMMA BroadcastFields ==
    ASSUME NEW n, NEW d, NEW tag, NEW hops, NEW m, m \in Broadcast(n, d, tag, hops)
    PROVE  m.type = "rreq" /\ m.dest = d /\ m.tag = tag /\ m.hops = hops
<1>1. PICK k \in Nodes :
         m = [type |-> "rreq", to |-> k, dest |-> d, tag |-> tag, hops |-> hops]
  BY DEF Broadcast
<1> QED BY <1>1

\* What a pass of the discovery thread sends.
LEMMA FloodFields ==
    ASSUME NEW n, NEW count, NEW ok, NEW m,
           m \in UNION {Broadcast(n, e.dest, <<n, e.dest, count>>, <<n>>) : e \in ok}
    PROVE  m.type = "rreq" /\ m.tag = <<n, m.dest, count>> /\ m.hops = <<n>>
<1>1. PICK e \in ok : m \in Broadcast(n, e.dest, <<n, e.dest, count>>, <<n>>)
  OBVIOUS
<1> QED BY <1>1, BroadcastFields

\* The first reply of the destination has come over no link.
LEMMA OnwardCosts ==
    ASSUME NEW m, GoodFrame(m), m.type = "rreq",
           NEW k \in Onward(m.to, m), k.type = "rrep"
    PROVE  k.cost = CostFrom(k.hops, k.index + 1)
<1> DEFINE hops == Append(m.hops, m.to)
<1>0. GoodFrame(k)
  BY OnwardSound
<1>1. k.hops \in Seq(Nodes) /\ IsPath(k.hops)
  BY <1>0, FrameFields DEF GoodFrame
<1>2. k \notin Broadcast(m.to, m.dest, m.tag, hops)
  <2> HIDE DEF hops
  <2> QED BY BroadcastFields
<1>3. k = ReplyTo(hops, Len(hops) - 1, 0)
  <2> HIDE DEF hops
  <2>1. Onward(m.to, m) \subseteq {ReplyTo(hops, Len(hops) - 1, 0)}
                                    \cup Broadcast(m.to, m.dest, m.tag, hops)
    BY DEF Onward, hops
  <2> QED BY <1>2, <2>1
<1>4. k.hops = hops /\ k.index = Len(hops) - 1 /\ k.cost = 0
  <2> HIDE DEF hops
  <2> QED BY <1>3 DEF ReplyTo
<1> HIDE DEF hops
<1>5. Len(hops) \in Nat
  BY <1>1, <1>4
<1>6. k.index + 1 = Len(k.hops)
  BY <1>4, <1>5
<1>7. CostFrom(k.hops, Len(k.hops)) = 0
  BY <1>1, CostFromIs
<1> QED BY <1>4, <1>6, <1>7

\* Routes of the list, and new ones, keep their hops and costs when they grow older.
LEMMA CostsKept ==
    ASSUME CostsInv, RoutingInv, NEW n \in Nodes
    PROVE  /\ \A d : \A r \in Traffic(n, d) : r.cost = CostFrom(r.hops, 1)
           /\ \A r \in Aged(n) : r.cost = CostFrom(r.hops, 1)
<1>1. \A r \in routes[n] : r \in Route /\ r.cost = CostFrom(r.hops, 1)
  BY DEF CostsInv, CostsAddUp, RoutingInv, RoutesGood, GoodRoute
<1>2. ASSUME NEW r \in Route, NEW a
      PROVE  [r EXCEPT !.age = a].cost = r.cost /\ [r EXCEPT !.age = a].hops = r.hops
  BY DEF Route
<1>3. \A d : \A r \in Traffic(n, d) : \E k \in routes[n] : r = k \/ r = [k EXCEPT !.age = 0]
  BY DEF Traffic
<1>4. \A r \in Aged(n) : \E k \in routes[n] : r = k \/ \E a : r = [k EXCEPT !.age = a]
  BY DEF Aged
<1>5. ASSUME NEW d, NEW r \in Traffic(n, d)
      PROVE  r.cost = CostFrom(r.hops, 1)
  <2>1. PICK k \in routes[n] : r = k \/ r = [k EXCEPT !.age = 0]
    BY <1>3
  <2>2. r.cost = k.cost /\ r.hops = k.hops
    BY <1>1, <1>2, <2>1
  <2> QED BY <1>1, <2>2
<1>6. ASSUME NEW r \in Aged(n)
      PROVE  r.cost = CostFrom(r.hops, 1)
  <2>1. PICK k \in routes[n] : r = k \/ \E a : r = [k EXCEPT !.age = a]
    BY <1>4
  <2>2. r.cost = k.cost /\ r.hops = k.hops
    <3>1. CASE r = k
      BY <3>1
    <3>2. CASE \E a : r = [k EXCEPT !.age = a]
      <4>1. PICK a : r = [k EXCEPT !.age = a]
        BY <3>2
      <4> QED BY <1>1, <1>2, <4>1
    <3> QED BY <2>1, <3>1, <3>2
  <2> QED BY <1>1, <2>2
<1> QED BY <1>5, <1>6

\* A frame that is handled leaves the costs in order.
LEMMA ReceiveCosts ==
    ASSUME RoutingInv, CostsInv, NEW m \in net, Receive(m)
    PROVE  CostsInv'
<1>0. GoodFrame(m) /\ (m.type = "rrep" => m.cost = CostFrom(m.hops, m.index + 1))
  BY DEF RoutingInv, FramesGood, CostsInv
<1>1. CASE Sender(m) \notin nbrs[Receiver(m)]
  BY <1>1 DEF Receive, CostsInv, CostsAddUp
<1>2. CASE ReceiveRequest(Receiver(m), m)
  <2>1. m.type = "rreq" /\ Receiver(m) = m.to /\ routes' = routes
        /\ net' \subseteq net \cup Onward(m.to, m)
    BY <1>2 DEF ReceiveRequest, Receiver
  <2>2. \A k \in Onward(m.to, m) : k.type = "rrep" => k.cost = CostFrom(k.hops, k.index + 1)
    BY <1>0, <2>1, OnwardCosts
  <2> QED BY <2>1, <2>2 DEF CostsInv, CostsAddUp
<1>3. CASE Sender(m) \in nbrs[Receiver(m)] /\ ReceiveReply(Receiver(m), m)
  <2> DEFINE n == Receiver(m)
             new == ReplyTo(m.hops, m.index - 1, ReplyCost(n, m))
             route == [dest |-> Target(m.hops), cost |-> ReplyCost(n, m), age |-> 0, hops |-> m.hops]
  <2>1. m.type = "rrep"
    BY <1>3 DEF ReceiveReply
  <2>2. m.hops \in Seq(Nodes) /\ m.index \in 1 .. Len(m.hops) - 1 /\ IsPath(m.hops)
        /\ n = m.hops[m.index] /\ n \in Nodes
    BY <1>0, <2>1, FrameFields, ReceiverIsNode DEF GoodFrame
  <2>3. ReplyCost(n, m) = CostFrom(m.hops, m.index)
    BY <1>0, <1>3, <2>1, ReplyCostIs
  <2>4. new.hops = m.hops /\ new.index = m.index - 1 /\ new.cost = CostFrom(m.hops, m.index)
    <3> HIDE DEF n
    <3> QED BY <2>3 DEF ReplyTo
  <2>5. new.cost = CostFrom(new.hops, new.index + 1)
    <3>1. (m.index - 1) + 1 = m.index
      BY <2>2
    <3> HIDE DEF new
    <3> QED BY <2>4, <3>1
  <2>6. \A k \in net' : k.type = "rrep" => k.cost = CostFrom(k.hops, k.index + 1)
    <3>1. net' \subseteq net \cup {new}
      BY <1>3 DEF ReceiveReply
    <3> HIDE DEF new
    <3> QED BY <2>5, <3>1 DEF CostsInv
  <2>7. ASSUME m.hops[1] = n
        PROVE  route.cost = CostFrom(route.hops, 1)
    <3>1. m.index = 1
      <4>1. 1 \in DOMAIN m.hops /\ m.index \in DOMAIN m.hops
        BY <2>2 DEF IsPath
      <4> QED BY <2>2, <2>7, <4>1 DEF IsPath, IsSimple
    <3> QED BY <2>3, <3>1
  <2>8. CostsAddUp'
    <3>1. routes' = routes \/ (m.hops[1] = n /\ routes' = [routes EXCEPT ![n] = Add(n, route)])
      BY <1>3 DEF ReceiveReply
    <3>2. Add(n, route) \subseteq routes[n] \cup {route}
      BY DEF Add
    <3> HIDE DEF n, route
    <3>3. \A p \in Nodes : \A r \in routes'[p] : r \in routes[p] \/ (m.hops[1] = n /\ r = route)
      BY <2>2, <3>1, <3>2 DEF RoutingInv, TablesOK
    <3> QED BY <2>7, <3>3 DEF CostsInv, CostsAddUp
  <2> QED BY <2>6, <2>8 DEF CostsInv
<1>4. CASE ReceiveError(Receiver(m), m)
  <2>1. \A i : \A k \in ErrorTo(Receiver(m), m.hops, i) : k.type = "rerr"
    BY DEF ErrorTo
  <2>2. \A k \in net' : k \in net \/ k.type = "rerr"
    BY <1>4, <2>1 DEF ReceiveError
  <2>3. Receiver(m) \in Nodes
    BY <1>0, ReceiverIsNode
  <2>4. \A p \in Nodes : routes'[p] \subseteq routes[p]
    BY <1>4, <2>3 DEF ReceiveError, RoutingInv, TablesOK
  <2> QED BY <2>2, <2>4 DEF CostsInv, CostsAddUp
<1>5. CASE ReceivePacket(Receiver(m), m)
  <2>1. \A i : \A k \in ErrorTo(Receiver(m), m.hops, i) : k.type = "rerr"
    BY DEF ErrorTo
  <2>2. m.type = "data" /\ routes' = routes
    BY <1>5 DEF ReceivePacket
  <2>3. [m EXCEPT !.index = @ + 1].type = "data"
    BY <1>0, <2>2 DEF GoodFrame, Message, Packet, Request, Reply, RouteError
  <2>4. \A k \in net' : k \in net \/ k.type \in {"rerr", "data"}
    BY <1>5, <2>1, <2>3 DEF ReceivePacket
  <2> QED BY <2>2, <2>4 DEF CostsInv, CostsAddUp
<1> QED BY <1>1, <1>2, <1>3, <1>4, <1>5 DEF Receive

\* So does every other step.
LEMMA NextCosts ==
    ASSUME RoutingInv, CostsInv, [Next]_vars
    PROVE  CostsInv'
<1>1. ASSUME NEW n \in Nodes, NEW d, NEW r,
             routes' = routes \/ routes' = [routes EXCEPT ![n] = Traffic(n, d)],
             net' = net \cup Sent(n, r)
      PROVE  CostsInv'
  <2>1. \A k \in Sent(n, r) : k.type = "data"
    BY DEF Sent
  <2>2. \A k \in net' : k \in net \/ k.type = "data"
    BY <1>1, <2>1
  <2>3. \A p \in Nodes : routes'[p] = routes[p] \/ (p = n /\ routes'[p] = Traffic(n, d))
    BY <1>1 DEF RoutingInv, TablesOK
  <2>4. \A k \in Traffic(n, d) : k.cost = CostFrom(k.hops, 1)
    BY CostsKept
  <2> QED BY <2>2, <2>3, <2>4 DEF CostsInv, CostsAddUp
<1>2. ASSUME UNCHANGED <<net, routes>>
      PROVE  CostsInv'
  BY <1>2 DEF CostsInv, CostsAddUp
<1>3. ASSUME NEW f \in Flows, SendPacket(f[1], f[2])
      PROVE  CostsInv'
  <2>1. f[1] \in Nodes
    BY RoutingAssumption
  <2> QED BY <1>1, <1>2, <1>3, <2>1 DEF SendPacket
<1>4. ASSUME NEW n \in Nodes, RouteThread(n)
      PROVE  CostsInv'
  BY <1>1, <1>2, <1>4 DEF RouteThread
<1>5. ASSUME NEW n \in Nodes, DiscoveryThread(n)
      PROVE  CostsInv'
  <2>1. PICK ok \in SUBSET disc[n] :
           net' = net \cup UNION {Broadcast(n, e.dest, <<n, e.dest, floods[n]>>, <<n>>) : e \in ok}
    BY <1>5 DEF DiscoveryThread
  <2>2. ASSUME NEW k \in net', k \notin net
        PROVE  k.type = "rreq"
    <3>1. PICK e \in ok : k \in Broadcast(n, e.dest, <<n, e.dest, floods[n]>>, <<n>>)
      BY <2>1, <2>2
    <3> QED BY <3>1, BroadcastFields
  <2> QED BY <1>5, <2>2 DEF DiscoveryThread, CostsInv, CostsAddUp
<1>6. ASSUME NEW n \in Nodes, AgeThread(n)
      PROVE  CostsInv'
  <2>1. net' = net /\ routes' = [routes EXCEPT ![n] = Aged(n)]
    BY <1>6 DEF AgeThread
  <2>2. \A p \in Nodes : routes'[p] = routes[p] \/ (p = n /\ routes'[p] = Aged(n))
    BY <2>1 DEF RoutingInv, TablesOK
  <2>3. \A k \in Aged(n) : k.cost = CostFrom(k.hops, 1)
    BY CostsKept
  <2> QED BY <2>1, <2>2, <2>3 DEF CostsInv, CostsAddUp
<1>7. ASSUME NEW n \in Unsteady, Reboot(n)
      PROVE  CostsInv'
  <2>1. net' = net /\ \A p \in Nodes : routes'[p] \subseteq routes[p]
    BY <1>7 DEF Reboot, RoutingInv, TablesOK
  <2> QED BY <2>1 DEF CostsInv, CostsAddUp
<1>8. ASSUME NEW m \in net, Lose(m)
      PROVE  CostsInv'
  BY <1>8 DEF Lose, CostsInv, CostsAddUp, tables
<1>9. ASSUME \/ UNCHANGED vars
             \/ \E n \in Unsteady : SwitchRouting(n)
             \/ \E l \in Fragile : NeighborChange(l[1], l[2])
      PROVE  UNCHANGED <<net, routes>>
  BY <1>9 DEF vars, tables, SwitchRouting, NeighborChange
<1> QED BY <1>2, <1>3, <1>4, <1>5, <1>6, <1>7, <1>8, <1>9, ReceiveCosts DEF Next, Deliver

\* The cost of every route is the sum over its links, for every network and however many
\* neighbors, frames and nodes are lost while replies come back (routing2.c:868-1000).
THEOREM RouteCostsAddUp == Spec => []CostsAddUp
<1>1. Init => CostsInv
  BY DEF Init, CostsInv, CostsAddUp
<1>2. RoutingInv /\ CostsInv /\ [Next]_vars => CostsInv'
  BY NextCosts
<1>3. CostsInv => CostsAddUp
  BY DEF CostsInv
<1> QED BY <1>1, <1>2, <1>3, RoutingInvHolds, PTL DEF Spec
-----------------------------------------------------------------------------
(* The tree of a request *)

\* The path up to one of its hops.
LEMMA PrefixIs ==
    ASSUME NEW hops \in Seq(Nodes), IsPath(hops), NEW i \in 1 .. Len(hops)
    PROVE  Prefix(hops, hops[i]) = SubSeq(hops, 1, i)
<1>1. i \in DOMAIN hops /\ \A j \in DOMAIN hops : hops[j] = hops[i] => j = i
  BY DEF IsPath, IsSimple
<1>2. (CHOOSE j \in DOMAIN hops : hops[j] = hops[i]) = i
  BY <1>1
<1> QED BY <1>2 DEF Prefix

\* It begins with the first hop, and stays what it is when the path goes on.
LEMMA PrefixFirst ==
    ASSUME NEW hops \in Seq(Nodes), IsPath(hops)
    PROVE  hops[1] \in OnPath(hops) /\ Prefix(hops, hops[1]) = <<hops[1]>>
<1>1. 1 \in 1 .. Len(hops)
  BY DEF IsPath
<1>2. SubSeq(hops, 1, 1) = <<hops[1]>>
  <2> DEFINE s == SubSeq(hops, 1, 1)
  <2>1. \A i \in 1 .. 1 : hops[i] \in Nodes
    BY <1>1
  <2>2. s \in Seq(Nodes) /\ Len(s) = 1 /\ s[1] = hops[1]
    BY <2>1, SubSeqProperties
  <2> HIDE DEF s
  <2>3. s = <<hops[1]>>
    BY <2>2
  <2> QED BY <2>3 DEF s
<1>3. hops[1] \in OnPath(hops)
  BY <1>1 DEF OnPath
<1>4. Prefix(hops, hops[1]) = SubSeq(hops, 1, 1)
  BY <1>1, PrefixIs
<1> QED BY <1>2, <1>3, <1>4

LEMMA PrefixStays ==
    ASSUME NEW hops \in Seq(Nodes), IsPath(hops), NEW n \in Nodes,
           IsPath(Append(hops, n)), NEW k \in OnPath(hops)
    PROVE  Prefix(Append(hops, n), k) = Prefix(hops, k)
<1> DEFINE more == Append(hops, n)
<1>1. PICK i \in 1 .. Len(hops) : k = hops[i]
  BY DEF OnPath
<1>2. more \in Seq(Nodes) /\ IsPath(more) /\ i \in 1 .. Len(more) /\ more[i] = k
  BY <1>1
<1>3. Prefix(more, k) = SubSeq(more, 1, i)
  <2> HIDE DEF more
  <2> QED BY <1>2, PrefixIs
<1>4. SubSeq(more, 1, i) = SubSeq(hops, 1, i)
  OBVIOUS
<1> QED BY <1>1, <1>3, <1>4, PrefixIs

LEMMA OnAppended ==
    ASSUME NEW S, NEW hops \in Seq(S), NEW n \in S
    PROVE  OnPath(Append(hops, n)) = OnPath(hops) \cup {n}
<1> DEFINE more == Append(hops, n)
<1>1. /\ Len(hops) \in Nat /\ DOMAIN hops = 1 .. Len(hops) /\ DOMAIN more = 1 .. Len(hops) + 1
      /\ more[Len(hops) + 1] = n /\ \A i \in 1 .. Len(hops) : more[i] = hops[i]
  OBVIOUS
<1> HIDE DEF more
<1>2. \A i \in 1 .. Len(hops) + 1 : i \in 1 .. Len(hops) \/ i = Len(hops) + 1
  BY <1>1
<1>3. \A i \in 1 .. Len(hops) : i \in 1 .. Len(hops) + 1
  BY <1>1
<1>4. Len(hops) + 1 \in 1 .. Len(hops) + 1
  BY <1>1
<1>5. OnPath(more) \subseteq OnPath(hops) \cup {n}
  BY <1>1, <1>2 DEF OnPath
<1>6. OnPath(hops) \cup {n} \subseteq OnPath(more)
  BY <1>1, <1>3, <1>4 DEF OnPath
<1> QED BY <1>5, <1>6 DEF more

\* No replay cache is full: none has forgotten a request it took.
CachesHold == \A n \in Nodes : Len(cache[n]) < CacheEntries

\* Every node a request went through knows its tag, but its origin and nodes that
\* have rebooted.
Known(m) ==
    /\ m.hops[1] = m.tag[1]
    /\ \A n \in OnPath(m.hops) \ (rebooted \cup {m.tag[1]}) : m.tag \in OnPath(cache[n])

RequestsInv ==
    /\ RequestsFormTree
    /\ \A m \in net : m.type = "rreq" => Known(m)

\* What a step must keep that sends no request on.
LEMMA RequestsKept ==
    ASSUME RoutingInv, RequestsInv, \A m \in net' : m \in net \/ m.type # "rreq",
           rebooted \subseteq rebooted',
           \A n \in Nodes \ rebooted' : OnPath(cache[n]) \subseteq OnPath(cache'[n])
    PROVE  RequestsInv'
<1>1. RequestsFormTree'
  BY DEF RequestsInv, RequestsFormTree
<1>2. ASSUME NEW m \in net', m.type = "rreq"
      PROVE  Known(m)'
  <2>1. m \in net /\ Known(m)
    BY <1>2 DEF RequestsInv
  <2>2. m.hops \in Seq(Nodes)
    BY <2>1, FrameFields DEF RoutingInv, FramesGood, GoodFrame
  <2>3. OnPath(m.hops) \subseteq Nodes
    BY <2>2 DEF OnPath
  <2> QED BY <2>1, <2>3 DEF Known
<1> QED BY <1>1, <1>2 DEF RequestsInv

\* A request that is passed on has its tag in the cache of the node that does it.
LEMMA RememberedIs ==
    ASSUME RoutingInv, CachesHold, NEW n \in Nodes, NEW tag \in Tag
    PROVE  OnPath(Remembered(n, tag)) = OnPath(cache[n]) \cup {tag}
<1>1. cache[n] \in Seq(Tag) /\ Len(cache[n]) # CacheEntries
  <2>1. Len(cache[n]) < CacheEntries /\ CacheEntries \in Nat
    BY RoutingAssumption DEF CachesHold
  <2>2. cache[n] \in Seq(Tag)
    BY DEF RoutingInv, TablesOK
  <2> QED BY <2>1, <2>2
<1> QED BY <1>1, OnAppended DEF Remembered

LEMMA RequestStepTree ==
    ASSUME RoutingInv, RequestsInv, CachesHold, NEW m \in net,
           ReceiveRequest(Receiver(m), m), UNCHANGED rebooted
    PROVE  RequestsInv'
<1> DEFINE n == m.to
           hops == Append(m.hops, n)
<1>1. /\ GoodFrame(m) /\ m.type = "rreq" /\ m.tag \in Tag /\ Receiver(m) = n /\ n \in Nodes
      /\ m.hops \in Seq(Nodes) /\ IsPath(m.hops) /\ m.dest \in Nodes
      /\ <<Target(m.hops), n>> \in Radio
  BY FrameFields DEF RoutingInv, FramesGood, ReceiveRequest, Receiver, GoodFrame
<1>2. CASE cache' = cache /\ net' = net \ {m}
  BY <1>2, RequestsKept
<1>3. CASE /\ m.tag \notin OnPath(cache[n])
           /\ cache' = [cache EXCEPT ![n] = Remembered(n, m.tag)]
           /\ net' = (net \ {m}) \cup Onward(n, m)
  <2>0. cache \in [Nodes -> Seq(Tag)]
    BY DEF RoutingInv, TablesOK
  <2>1. \A p \in Nodes : OnPath(cache[p]) \subseteq OnPath(cache'[p])
    <3> TAKE p \in Nodes
    <3>1. CASE p = n
      BY <1>1, <1>3, <2>0, <3>1, RememberedIs
    <3>2. CASE p # n
      BY <1>3, <2>0, <3>2
    <3> QED BY <3>1, <3>2
  <2>2. m.tag \in OnPath(cache'[n])
    BY <1>1, <1>3, <2>0, RememberedIs
  <2>3. CASE Onward(n, m) \subseteq {ReplyTo(hops, Len(hops) - 1, 0)}
    <3>1. ReplyTo(hops, Len(hops) - 1, 0).type = "rrep"
      BY DEF ReplyTo
    <3> HIDE DEF hops, n
    <3>2. \A k \in net' : k \in net \/ k.type # "rreq"
      BY <1>3, <2>3, <3>1
    <3> QED BY <2>1, <3>2, RequestsKept
  <2>4. CASE /\ Len(m.hops) < MaxHops /\ n \notin OnPath(m.hops)
             /\ Onward(n, m) = Broadcast(n, m.dest, m.tag, hops)
    <3>1. hops \in Seq(Nodes) /\ IsPath(hops) /\ OnPath(hops) = OnPath(m.hops) \cup {n}
      BY <1>1, <2>4, PathGrows, OnAppended
    <3>2. \A k \in net' : k \in net \/ (k.type = "rreq" /\ k.tag = m.tag /\ k.hops = hops)
      <4> HIDE DEF hops, n
      <4> QED BY <1>3, <2>4, BroadcastFields
    <3>3. m \in net /\ Known(m)
      BY <1>1 DEF RequestsInv
    <3>4. hops[1] = m.hops[1]
      <4>1. 1 \in 1 .. Len(m.hops)
        BY <1>1 DEF IsPath
      <4> QED BY <1>1, <4>1
    <3>5. \A p \in OnPath(m.hops) : Prefix(hops, p) = Prefix(m.hops, p)
      BY <1>1, <3>1, PrefixStays
    <3>6. m.hops[1] \in OnPath(m.hops)
      BY <1>1, PrefixFirst
    <3>7. OnPath(m.hops) \subseteq Nodes
      BY <1>1 DEF OnPath
    <3> HIDE DEF hops, n
    <3>8. ASSUME NEW k \in net', k.type = "rreq"
          PROVE  Known(k)'
      <4>1. CASE k \in net
        <5>1. Known(k)
          BY <3>8, <4>1 DEF RequestsInv
        <5>2. OnPath(k.hops) \subseteq Nodes
          <6>1. k.hops \in Seq(Nodes)
            BY <4>1, FrameFields DEF RoutingInv, FramesGood, GoodFrame
          <6> QED BY <6>1 DEF OnPath
        <5> QED BY <2>1, <5>1, <5>2 DEF Known
      <4>2. CASE k.tag = m.tag /\ k.hops = hops
        <5>1. k.hops[1] = k.tag[1]
          BY <3>3, <3>4, <4>2 DEF Known
        <5>2. ASSUME NEW p \in OnPath(k.hops) \ (rebooted \cup {k.tag[1]})
              PROVE  k.tag \in OnPath(cache'[p])
          <6>1. CASE p = n
            BY <2>2, <4>2, <6>1
          <6>2. CASE p # n
            <7>1. p \in OnPath(m.hops) \ (rebooted \cup {m.tag[1]})
              BY <3>1, <4>2, <6>2
            <7>2. m.tag \in OnPath(cache[p])
              BY <3>3, <7>1 DEF Known
            <7> QED BY <2>1, <3>7, <4>2, <7>1, <7>2
          <6> QED BY <6>1, <6>2
        <5> QED BY <5>1, <5>2 DEF Known
      <4> QED BY <3>2, <4>1, <4>2
    <3>9. ASSUME NEW k \in net, k.type = "rreq", k.tag = m.tag,
                 NEW p \in (OnPath(hops) \cap OnPath(k.hops)) \ rebooted
          PROVE  Prefix(hops, p) = Prefix(k.hops, p)
      <4>1. Known(k)
        BY <3>9 DEF RequestsInv
      <4>2. p # n
        <5> SUFFICES ASSUME p = n PROVE FALSE
          OBVIOUS
        <5>1. m.tag[1] \in OnPath(m.hops)
          BY <3>3, <3>6 DEF Known
        <5>2. n # m.tag[1]
          BY <2>4, <5>1
        <5>3. n \in OnPath(k.hops) \ (rebooted \cup {k.tag[1]})
          BY <3>9, <5>2
        <5>4. m.tag \in OnPath(cache[n])
          BY <3>9, <4>1, <5>3 DEF Known
        <5> QED BY <1>3, <5>4
      <4>3. p \in OnPath(m.hops)
        BY <3>1, <4>2
      <4>4. Prefix(m.hops, p) = Prefix(k.hops, p)
        BY <1>1, <3>9, <4>3 DEF RequestsInv, RequestsFormTree
      <4> QED BY <3>5, <4>3, <4>4
    <3>10. ASSUME NEW m1 \in net', NEW m2 \in net', m1.type = "rreq", m2.type = "rreq",
                  m1.tag = m2.tag, NEW p \in (OnPath(m1.hops) \cap OnPath(m2.hops)) \ rebooted
           PROVE  Prefix(m1.hops, p) = Prefix(m2.hops, p)
      <4>1. CASE m1 \in net /\ m2 \in net
        BY <3>10, <4>1 DEF RequestsInv, RequestsFormTree
      <4>2. CASE m1.hops = hops /\ m2.hops = hops
        BY <4>2
      <4>3. CASE m1 \in net /\ m2.tag = m.tag /\ m2.hops = hops
        BY <3>9, <3>10, <4>3
      <4>4. CASE m2 \in net /\ m1.tag = m.tag /\ m1.hops = hops
        BY <3>9, <3>10, <4>4
      <4> QED BY <3>2, <4>1, <4>2, <4>3, <4>4
    <3>11. RequestsFormTree'
      BY <3>10 DEF RequestsFormTree
    <3> QED BY <3>8, <3>11 DEF RequestsInv
  <2>5. Onward(n, m) = {} \/ Onward(n, m) = {ReplyTo(hops, Len(hops) - 1, 0)}
        \/ (/\ Len(m.hops) < MaxHops /\ n \notin OnPath(m.hops)
            /\ Onward(n, m) = Broadcast(n, m.dest, m.tag, hops))
    <3>1. Len(m.hops) \in Nat /\ MaxHops \in Nat
      BY <1>1, RoutingAssumption
    <3> QED BY <3>1 DEF Onward, Loops
  <2> QED BY <2>3, <2>4, <2>5
<1> QED BY <1>1, <1>2, <1>3 DEF ReceiveRequest

\* Nor does any other step send a request on: the discovery thread floods new ones.
LEMMA FloodTree ==
    ASSUME RoutingInv, RequestsInv, NEW n \in Nodes, DiscoveryThread(n)
    PROVE  RequestsInv'
<1>1. PICK ok \in SUBSET disc[n] :
         net' = net \cup UNION {Broadcast(n, e.dest, <<n, e.dest, floods[n]>>, <<n>>) : e \in ok}
  BY DEF DiscoveryThread
<1>2. cache' = cache /\ rebooted' = rebooted
  BY DEF DiscoveryThread
<1>3. ASSUME NEW k \in net', k \notin net
      PROVE  k.type = "rreq" /\ k.tag[1] = n /\ k.hops = <<n>>
  <2>1. PICK e \in ok : k \in Broadcast(n, e.dest, <<n, e.dest, floods[n]>>, <<n>>)
    BY <1>1, <1>3
  <2>2. k.type = "rreq" /\ k.tag = <<n, e.dest, floods[n]>> /\ k.hops = <<n>>
    BY <2>1, BroadcastFields
  <2> QED BY <2>2
<1>4. OnPath(<<n>>) = {n} /\ Prefix(<<n>>, n) = <<n>> /\ <<n>>[1] = n
  BY PathStarts, PrefixFirst DEF OnPath
<1>5. ASSUME NEW k \in net', k.type = "rreq"
      PROVE  Known(k)'
  <2>1. CASE k \in net
    BY <1>2, <1>5, <2>1 DEF RequestsInv, Known
  <2>2. CASE k \notin net
    BY <1>3, <1>4, <2>2 DEF Known
  <2> QED BY <2>1, <2>2
<1>6. ASSUME NEW k \in net, k.type = "rreq", k.tag[1] = n
      PROVE  n \in OnPath(k.hops) /\ Prefix(k.hops, n) = <<n>>
  <2>1. k.hops \in Seq(Nodes) /\ IsPath(k.hops)
    BY FrameFields DEF RoutingInv, FramesGood, GoodFrame
  <2>2. k.hops[1] = n
    BY <1>6 DEF RequestsInv, Known
  <2> QED BY <2>1, <2>2, PrefixFirst
<1>7. ASSUME NEW m1 \in net', NEW m2 \in net', m1.type = "rreq", m2.type = "rreq",
             m1.tag = m2.tag, NEW p \in (OnPath(m1.hops) \cap OnPath(m2.hops)) \ rebooted
      PROVE  Prefix(m1.hops, p) = Prefix(m2.hops, p)
  <2>1. CASE m1 \in net /\ m2 \in net
    BY <1>7, <2>1 DEF RequestsInv, RequestsFormTree
  <2>2. CASE m1 \notin net /\ m2 \notin net
    BY <1>3, <2>2
  <2>3. CASE m1 \notin net /\ m2 \in net
    <3>1. m1.tag[1] = n /\ m1.hops = <<n>> /\ p = n
      BY <1>3, <1>4, <1>7, <2>3
    <3> QED BY <1>4, <1>6, <1>7, <2>3, <3>1
  <2>4. CASE m1 \in net /\ m2 \notin net
    <3>1. m2.tag[1] = n /\ m2.hops = <<n>> /\ p = n
      BY <1>3, <1>4, <1>7, <2>4
    <3> QED BY <1>4, <1>6, <1>7, <2>4, <3>1
  <2> QED BY <2>1, <2>2, <2>3, <2>4
<1>8. RequestsFormTree'
  BY <1>2, <1>7 DEF RequestsFormTree
<1> QED BY <1>5, <1>8 DEF RequestsInv

LEMMA ReceiveTree ==
    ASSUME RoutingInv, RequestsInv, CachesHold, NEW m \in net, Receive(m)
    PROVE  RequestsInv'
<1>0. rebooted' = rebooted /\ GoodFrame(m)
  BY DEF Receive, faults, RoutingInv, FramesGood
<1>1. CASE Sender(m) \notin nbrs[Receiver(m)]
  BY <1>0, <1>1, RequestsKept DEF Receive
<1>2. CASE ReceiveRequest(Receiver(m), m)
  BY <1>0, <1>2, RequestStepTree
<1>3. CASE ReceiveReply(Receiver(m), m)
  <2>1. \A h, i, c : ReplyTo(h, i, c).type = "rrep"
    BY DEF ReplyTo
  <2>2. cache' = cache /\ \A k \in net' : k \in net \/ k.type = "rrep"
    BY <1>3, <2>1 DEF ReceiveReply
  <2> QED BY <1>0, <2>2, RequestsKept
<1>4. CASE ReceiveError(Receiver(m), m)
  <2>1. \A i : \A k \in ErrorTo(Receiver(m), m.hops, i) : k.type = "rerr"
    BY DEF ErrorTo
  <2>2. cache' = cache /\ \A k \in net' : k \in net \/ k.type = "rerr"
    BY <1>4, <2>1 DEF ReceiveError
  <2> QED BY <1>0, <2>2, RequestsKept
<1>5. CASE ReceivePacket(Receiver(m), m)
  <2>1. \A i : \A k \in ErrorTo(Receiver(m), m.hops, i) : k.type = "rerr"
    BY DEF ErrorTo
  <2>2. m.type = "data" /\ cache' = cache
    BY <1>5 DEF ReceivePacket
  <2>3. [m EXCEPT !.index = @ + 1].type = "data"
    BY <1>0, <2>2 DEF GoodFrame, Message, Packet, Request, Reply, RouteError
  <2>4. \A k \in net' : k \in net \/ k.type \in {"rerr", "data"}
    BY <1>5, <2>1, <2>3 DEF ReceivePacket
  <2> QED BY <1>0, <2>2, <2>4, RequestsKept
<1> QED BY <1>1, <1>2, <1>3, <1>4, <1>5 DEF Receive

LEMMA NextTree ==
    ASSUME RoutingInv, RequestsInv, CachesHold, [Next]_vars
    PROVE  RequestsInv'
<1>0. \A n, r : \A k \in Sent(n, r) : k.type = "data"
  BY DEF Sent
<1>1. ASSUME \A k \in net' : k \in net \/ k.type = "data", UNCHANGED <<cache, rebooted>>
      PROVE  RequestsInv'
  BY <1>1, RequestsKept
<1>2. ASSUME NEW f \in Flows, SendPacket(f[1], f[2])
      PROVE  RequestsInv'
  <2>1. \A k \in net' : k \in net \/ k.type = "data"
    BY <1>0, <1>2 DEF SendPacket
  <2> QED BY <1>1, <1>2, <2>1 DEF SendPacket, faults
<1>3. ASSUME NEW n \in Nodes, RouteThread(n)
      PROVE  RequestsInv'
  <2>1. \A k \in net' : k \in net \/ k.type = "data"
    BY <1>0, <1>3 DEF RouteThread
  <2> QED BY <1>1, <1>3, <2>1 DEF RouteThread, faults
<1>4. ASSUME NEW n \in Unsteady, Reboot(n)
      PROVE  RequestsInv'
  <2>1. net' = net /\ rebooted' = rebooted \cup {n}
    BY <1>4 DEF Reboot
  <2>2. \A p \in Nodes \ rebooted' : cache'[p] = cache[p]
    BY <1>4, <2>1 DEF Reboot, RoutingInv, TablesOK
  <2> QED BY <2>1, <2>2, RequestsKept
<1>5. ASSUME \/ \E n \in Nodes : AgeThread(n)
             \/ \E n \in Unsteady : SwitchRouting(n)
             \/ \E m \in net : Lose(m)
             \/ \E l \in Fragile : NeighborChange(l[1], l[2])
             \/ UNCHANGED vars
      PROVE  net' \subseteq net /\ UNCHANGED <<cache, rebooted>>
  BY <1>5 DEF AgeThread, SwitchRouting, Lose, NeighborChange, vars, tables, faults
<1> QED BY <1>1, <1>2, <1>3, <1>4, <1>5, ReceiveTree, FloodTree DEF Next, Deliver

\* What requests collect is right (routing2.c:596-674): while no replay cache overflows,
\* the copies of a request came to each node the same way, but to those that rebooted,
\* and every route costs what its links cost.
THEOREM RequestsAreSound == Spec /\ []CachesHold => []RequestsSound
<1>1. Init => RequestsInv
  BY DEF Init, RequestsInv, RequestsFormTree
<1>2. RoutingInv /\ RequestsInv /\ CachesHold /\ [Next]_vars => RequestsInv'
  BY NextTree
<1>3. RequestsInv /\ TypeOK /\ CostsAddUp => RequestsSound
  BY DEF RequestsInv, RequestsSound
<1> QED BY <1>1, <1>2, <1>3, RoutingInvHolds, RoutingTypeCorrect, RouteCostsAddUp, PTL DEF Spec
=============================================================================
