----------------------------- MODULE Neighbors -----------------------------
(***************************************************************************)
(* src/src/wcom_neighbors.c: nodes find each other by beacons, join in a   *)
(* handshake (join beacon, flash, flash and thunder, thunder), keep a list *)
(* of neighbors, and choose the one that leads to the gateway.             *)
(*                                                                         *)
(* The messages of one node to another arrive in order or not at all (see  *)
(* module Link), so the replay counters of beacons never refuse one and    *)
(* are left out; a signature is the session it was made with.  All nodes   *)
(* are in reach of each other when they are on the channel of the network. *)
(* The order of the lists is left out: any entry that qualifies may be     *)
(* dropped.                                                                *)
(***************************************************************************)
EXTENDS Integers, Sequences, FiniteSets, SequencesExt

CONSTANTS
    Nodes,
    Gateway,
    Capacity,   \* CFG_PARAM_WCOM_MAX_NEIGHBORS of each node
    MaxProv,    \* CFG_PARAM_WCOM_MAX_PROV_LIST
    MaxDepth,   \* WCOM_NEIGHBOR_MAX_DEPTH
    MaxAge,     \* WCOM_NEIGHBOR_MAX_AGE and WCOM_NEIGHBOR_MAX_AGE_NEW, in rounds of beacons
    MaxAgeNew,
    Countdown,  \* WCOM_CHANNEL_RESET_WAIT, in rounds of beacons
    MaxHitches  \* bound: lost messages, full queues, late messages, links
                \* that become poor, reboots and nodes that are switched off

VARIABLES
    node,     \* what each node keeps
    channel,  \* the messages from one node on their way to another
    due,      \* the nodes that have not sent their beacon in this round
    hitches   \* bound

neighborVars == <<node, channel, due, hitches>>

None == "none"
Ports == {l \in Nodes \X Nodes : l[1] # l[2]}
Restricted(f, S) == [x \in S |-> f[x]]

\* wcom_neighbors_v_init, beacon_init_thread.  "tuned" says that the radio is on
\* the channel of the gateway; "restarted" that the beacon thread begins anew;
\* "blank" counts provisional entries that were never filled in.
Booted(n, session) ==
    [session |-> session, neighbors |-> <<>>, prov |-> <<>>, blank |-> 0,
     upstream |-> IF n = Gateway THEN Gateway ELSE None, depth |-> 0,
     mode |-> IF n = Gateway THEN "parked" ELSE "scan", tuned |-> n = Gateway,
     restarted |-> TRUE, countdown |-> 0, on |-> TRUE]

Init ==
    /\ node = [n \in Nodes |-> Booted(n, 1)]
    /\ channel = [l \in Ports |-> <<>>]
    /\ due = Nodes
    /\ hitches = 0

Entry == [iv : Nat, age : 0 .. MaxAge, new : BOOLEAN, down : BOOLEAN, up : BOOLEAN]
Provisional == [state : {"WAIT_FLASH", "WAIT_THUNDER"}, challenge : Nat,
                upstream : Nodes \cup {None}, depth : 0 .. MaxDepth]

TypeOK ==
    /\ \A n \in Nodes :
          /\ DOMAIN node[n].neighbors \subseteq Nodes \ {n}
          /\ \A a \in DOMAIN node[n].neighbors : node[n].neighbors[a] \in Entry
          /\ DOMAIN node[n].prov \subseteq Nodes \ {n}
          /\ \A a \in DOMAIN node[n].prov : node[n].prov[a] \in Provisional
          /\ node[n].upstream \in Nodes \cup {None}
          /\ node[n].depth \in 0 .. MaxDepth
          /\ Cardinality(DOMAIN node[n].neighbors) <= Capacity[n]
    /\ hitches \in 0 .. MaxHitches

-----------------------------------------------------------------------------
(* Lists.  The operators of this section take and return the state of a node. *)

Known(s) == DOMAIN s.neighbors
Full(n, s) == Cardinality(Known(s)) >= Capacity[n]

\* drop_neighbor
Droppable(s) ==
    {a \in Known(s) : a # s.upstream /\ ~s.neighbors[a].down /\ ~s.neighbors[a].new}

\* reset_upstream
WithoutUpstream(s) ==
    [s EXCEPT !.upstream = None, !.depth = 0,
              !.neighbors = [a \in Known(s) |-> IF a = s.upstream THEN [@[a] EXCEPT !.up = FALSE]
                                                                 ELSE @[a]],
              !.countdown = IF s.upstream \in Known(s) THEN Countdown ELSE @,
              !.restarted = @ \/ s.upstream \in Known(s)]

\* Mutant: the upstream remains what it was.
Removed_KeepsUpstream(s, a) ==
    [s EXCEPT !.neighbors = Restricted(@, Known(s) \ {a}), !.restarted = TRUE]
\* remove_neighbor, reset_beacon_interval (process_evict, evict)
Removed(s, a) ==
    LET r == IF a = s.upstream THEN WithoutUpstream(s) ELSE s IN
    [r EXCEPT !.neighbors = Restricted(@, Known(s) \ {a}), !.restarted = TRUE]

\* add_prov
ProvRoom(n, s, a) ==
    /\ Cardinality(DOMAIN s.prov) + s.blank <
          IF MaxProv > Capacity[n] THEN Capacity[n] ELSE MaxProv
    /\ a \notin DOMAIN s.prov

WithProv(s, a, state, challenge, beacon) ==
    [s EXCEPT !.prov = [b \in DOMAIN @ \cup {a} |->
                          IF b = a THEN [state |-> state, challenge |-> challenge,
                                         upstream |-> beacon.upstream, depth |-> beacon.depth]
                                   ELSE @[b]]]

-----------------------------------------------------------------------------
(* Messages *)

\* my_flags, send_beacon
Beacon(n, s, join) ==
    [kind |-> "beacon", upstream |-> s.upstream, depth |-> s.depth, join |-> join,
     gateway |-> n = Gateway, full |-> Full(n, s),
     noJoin |-> ~join /\ Full(n, s) /\ Droppable(s) = {}, iv |-> s.session]

\* send_flash, send_thunder, send_evict: the answer to a challenge names it.
Flash(challenge) == [kind |-> "flash", challenge |-> challenge]
Thunder(s, challenge) == [kind |-> "thunder", challenge |-> challenge, iv |-> s.session]
Evict(s) == [kind |-> "evict", iv |-> s.session]

\* Challenges are random numbers of 64 bits: the new one differs from all others.
ChallengesHeld ==
    (UNION {{node[n].prov[a].challenge : a \in DOMAIN node[n].prov} : n \in Nodes}) \cup
    (UNION {{channel[l][i].challenge : i \in {k \in DOMAIN channel[l] :
                channel[l][k].kind \in {"flash", "thunder"}}} : l \in Ports})
Fresh == CHOOSE c \in 1 .. Cardinality(ChallengesHeld) + 1 : c \notin ChallengesHeld

\* What a node hears of a broadcast.
Audible(n, s, m) == s.tuned /\ node[m].tuned /\ node[m].on

\* The channels after n sent the messages out[a] to each a, state s being its new one.
Sent(chs, n, s, out) ==
    [l \in Ports |-> IF l[1] = n /\ l[2] \in DOMAIN out /\ Audible(n, s, l[2])
                     THEN chs[l] \o out[l[2]] ELSE chs[l]]
ToAll(n, msgs) == [a \in Nodes \ {n} |-> msgs]
To(a, msgs) == [x \in {a} |-> msgs]
Nothing == <<>>

-----------------------------------------------------------------------------
(* Joins *)

\* Mutant: a node that looks for the way to the gateway does not join.
ShouldPair_Parked(n, s, beacon) ==
    /\ ~beacon.noJoin
    /\ s.mode = "parked"
    /\ \/ ~Full(n, s) /\ (~beacon.full \/ beacon.join)
       \/ beacon.upstream = None /\ Droppable(s) # {}
\* should_pair
ShouldPair(n, s, beacon) ==
    /\ ~beacon.noJoin
    /\ \/ s.upstream = None /\ (beacon.upstream # None \/ beacon.gateway)
       \/ /\ s.mode = "parked"
          /\ \/ ~Full(n, s) /\ (~beacon.full \/ beacon.join)
             \/ beacon.upstream = None /\ Droppable(s) # {}

\* initiate_join, accept_join: what node n with state s does and sends to a.  When the
\* queue of the MAC is full an unnamed provisional entry is left behind, which only a
\* timeout removes.
Join(n, s, a, beacon, accept, queued) ==
    IF ~ProvRoom(n, s, a) THEN <<s, Nothing>>
    ELSE IF ~queued THEN <<[s EXCEPT !.blank = @ + 1], Nothing>>
    ELSE IF accept
         THEN <<WithProv(s, a, "WAIT_THUNDER", Fresh, beacon), To(a, <<Flash(Fresh)>>)>>
         ELSE <<WithProv(s, a, "WAIT_FLASH", 0, beacon), To(a, <<Beacon(n, s, TRUE)>>)>>

\* process_flash, prov_received_flash: every flash is answered, and a node that asked for
\* the join has a challenge of its own.
OnFlash(n, s, a, msg) ==
    LET answer == Thunder(s, msg.challenge) IN
    IF a \in DOMAIN s.prov /\ s.prov[a].state = "WAIT_FLASH"
    THEN <<[s EXCEPT !.prov[a].state = "WAIT_THUNDER", !.prov[a].challenge = Fresh],
           To(a, <<answer, Flash(Fresh)>>)>>
    ELSE <<s, To(a, <<answer>>)>>

Answered(s, a, msg) ==
    /\ a \in DOMAIN s.prov
    /\ s.prov[a].state = "WAIT_THUNDER"
    /\ msg.challenge = s.prov[a].challenge

\* prov_received_thunder, when a is in the list or there is room: the entry is written
\* anew, and a may become the way to the gateway.
Joined(s, a, msg) ==
    LET p == s.prov[a]
        leads == /\ s.upstream \in {None, a}
                 /\ p.upstream # None
                 /\ p.depth < MaxDepth
        entry == [iv |-> msg.iv, age |-> 0, new |-> TRUE, down |-> FALSE, up |-> leads]
    IN [s EXCEPT !.neighbors = [b \in Known(s) \cup {a} |-> IF b = a THEN entry ELSE @[b]],
                 !.upstream = IF leads THEN a ELSE @,
                 !.depth = IF leads THEN p.depth + 1 ELSE @,
                 !.restarted = TRUE,
                 !.prov = Restricted(@, DOMAIN @ \ {a})]

\* With a full list and nobody to drop, the code writes through a null pointer: what
\* the node does from there on is not in the program, here it is no longer on.
OnThunder(n, s, a, msg, dropped) ==
    IF ~Answered(s, a, msg) THEN <<s, Nothing>>
    ELSE IF a \in Known(s) \/ ~Full(n, s) THEN <<Joined(s, a, msg), Nothing>>
    ELSE IF dropped = None THEN <<[s EXCEPT !.on = FALSE], Nothing>>
    ELSE <<Joined(Removed(s, dropped), a, msg), To(dropped, <<Evict(s)>>)>>

\* process_evict.  Of an unknown neighbor the signature is computed with an arbitrary key.
OnEvict(s, a, msg) ==
    <<IF a \in Known(s) /\ s.neighbors[a].iv = msg.iv THEN Removed(s, a) ELSE s, Nothing>>

WithUpstream(s, a, beacon) ==
    [(IF s.upstream = None THEN s ELSE WithoutUpstream(s)) EXCEPT
        !.upstream = a, !.depth = beacon.depth + 1, !.neighbors[a].up = TRUE]

\* Mutant: the depth stops at its limit.
FromUpstream_AnyDepth(s, a, beacon) ==
    IF beacon.upstream = None THEN WithoutUpstream(s)
    ELSE [s EXCEPT !.neighbors[a].up = TRUE,
                   !.depth = IF beacon.depth < MaxDepth THEN beacon.depth + 1 ELSE MaxDepth]
\* A beacon of the upstream
FromUpstream(s, a, beacon) ==
    IF beacon.upstream = None \/ beacon.depth + 1 > MaxDepth THEN WithoutUpstream(s)
    ELSE [s EXCEPT !.neighbors[a].up = TRUE, !.depth = beacon.depth + 1]

\* process_beacon, case 1-B
Refreshed(n, s, a, beacon) ==
    LET heard == [s EXCEPT !.neighbors[a].age = 0, !.neighbors[a].new = FALSE,
                           !.neighbors[a].down = beacon.upstream = n]
    IN IF a = s.upstream THEN FromUpstream(heard, a, beacon)
       ELSE IF s.upstream = None /\ beacon.upstream # None /\ beacon.depth < MaxDepth
       THEN WithUpstream(heard, a, beacon)
       ELSE IF beacon.upstream # None /\ beacon.depth + 1 < s.depth
       THEN WithUpstream(heard, a, beacon)
       ELSE heard

\* process_beacon
OnBeacon(n, s, a, beacon, queued) ==
    IF a \notin Known(s)
    THEN IF ShouldPair(n, s, beacon) THEN Join(n, s, a, beacon, beacon.join, queued)
                                     ELSE <<s, Nothing>>
    ELSE IF beacon.join THEN Join(n, s, a, beacon, TRUE, queued)
    ELSE IF s.neighbors[a].iv = beacon.iv THEN <<Refreshed(n, s, a, beacon), Nothing>>
    ELSE Join(n, s, a, beacon, FALSE, queued)

-----------------------------------------------------------------------------
(* Actions *)

Running(n) == node[n].on

\* The new state and the messages of n; "before" is what is on its way already.
Does(n, before, effect) ==
    /\ node' = [node EXCEPT ![n] = effect[1]]
    /\ channel' = Sent(before, n, effect[1], effect[2])

\* wcom_neighbors_v_receive_msg
Receive(a, n) ==
    /\ channel[<<a, n>>] # <<>>
    /\ LET msg == Head(channel[<<a, n>>])
           rest == [channel EXCEPT ![<<a, n>>] = Tail(@)]
           s == node[n]
       IN
       \/ /\ Running(n) /\ msg.kind = "beacon"
          /\ Does(n, rest, OnBeacon(n, s, a, msg, TRUE))
       \/ /\ Running(n) /\ msg.kind = "flash"
          /\ Does(n, rest, OnFlash(n, s, a, msg))
       \/ /\ Running(n) /\ msg.kind = "thunder"
          /\ \E dropped \in IF Droppable(s) = {} THEN {None} ELSE Droppable(s) :
                Does(n, rest, OnThunder(n, s, a, msg, dropped))
       \/ /\ Running(n) /\ msg.kind = "evict"
          /\ Does(n, rest, OnEvict(s, a, msg))
       \/ ~Running(n) /\ channel' = rest /\ UNCHANGED node
    /\ UNCHANGED <<due, hitches>>

\* Beacons are a second or more apart and handshakes take milliseconds: a beacon
\* begins, and an entry grows too old, when nothing is on its way.
Quiet == \A l \in Ports : channel[l] = <<>>

\* One pass of beacon_sender_thread.  Only when it begins anew does it look whether
\* there is an upstream.  A scan goes to the next channel, when no join is under way;
\* of the channels only that of the network matters.
BeaconSender(n) ==
    /\ Running(n) /\ Quiet /\ n \in due
    /\ LET s == node[n]
           mode == IF s.restarted /\ s.upstream # None THEN "parked" ELSE s.mode
           t == [s EXCEPT !.mode = mode, !.restarted = FALSE,
                          !.tuned = IF mode = "scan" THEN ~@ ELSE @]
       IN /\ mode = "scan" => s.restarted \/ (s.prov = <<>> /\ s.blank = 0)
          /\ Does(n, channel, <<t, ToAll(n, <<Beacon(n, t, FALSE)>>)>>)
    /\ due' = due \ {n}
    /\ UNCHANGED hitches

\* join_timeout_thread
TimedOut(n) ==
    /\ \/ \E a \in DOMAIN node[n].prov :
             node' = [node EXCEPT ![n].prov = Restricted(@, DOMAIN @ \ {a})]
       \/ /\ node[n].blank > 0
          /\ node' = [node EXCEPT ![n].blank = @ - 1]
    /\ UNCHANGED <<channel, due>>

JoinTimeout(n) == Running(n) /\ Quiet /\ TimedOut(n) /\ UNCHANGED hitches

\* neighbor_monitor_thread
TooOld(n, a) ==
    LET e == node[n].neighbors[a] IN e.age >= MaxAge \/ (e.new /\ e.age > MaxAgeNew)

\* evict
Evicts(n, a) ==
    /\ Does(n, channel, <<Removed(node[n], a), To(a, <<Evict(node[n])>>)>>)
    /\ UNCHANGED due

NeighborMonitor(n) ==
    /\ Running(n) /\ Quiet
    /\ \E a \in Known(node[n]) : TooOld(n, a) /\ Evicts(n, a)
    /\ UNCHANGED hitches

\* neighbor_monitor_thread: the countdown ends; wcom_neighbors_v_flush.
ChannelReset(n) ==
    /\ Running(n) /\ Quiet
    /\ node[n].countdown = 1 /\ node[n].upstream = None
    /\ Does(n, channel,
            <<[node[n] EXCEPT !.mode = "scan", !.countdown = 0, !.restarted = TRUE,
                              !.neighbors = <<>>, !.prov = <<>>, !.blank = 0],
              ToAll(n, <<Evict(node[n])>>)>>)
    /\ UNCHANGED <<due, hitches>>

Older(s) == [s EXCEPT !.neighbors = [a \in Known(s) |-> [s.neighbors[a] EXCEPT !.age = @ + 1]],
                      !.countdown = IF @ > 1 /\ s.upstream = None THEN @ - 1 ELSE @]

\* Time passes.  Every node has sent a beacon, and what is to happen within this time did.
NextRound ==
    /\ Quiet
    /\ \A n \in Nodes : Running(n) =>
          /\ n \notin due
          /\ node[n].prov = <<>> /\ node[n].blank = 0
          /\ \A a \in Known(node[n]) : ~TooOld(n, a)
          /\ ~(node[n].countdown = 1 /\ node[n].upstream = None)
    /\ node' = [n \in Nodes |-> IF Running(n) THEN Older(node[n]) ELSE node[n]]
    /\ due' = Nodes
    /\ UNCHANGED <<channel, hitches>>

\* What goes wrong, within the bound: a message is lost, or comes later than a timeout; the
\* queue of the MAC is full; a link becomes poor (etx); a node reboots or is switched off.
Hitch ==
    /\ hitches < MaxHitches
    /\ hitches' = hitches + 1
    /\ \/ \E l \in Ports :
             /\ channel[l] # <<>>
             /\ channel' = [channel EXCEPT ![l] = Tail(@)]
             /\ UNCHANGED <<node, due>>
       \/ \E l \in Ports :
             /\ channel[l] # <<>> /\ Head(channel[l]).kind = "beacon" /\ Running(l[2])
             /\ Does(l[2], [channel EXCEPT ![l] = Tail(@)],
                     OnBeacon(l[2], node[l[2]], l[1], Head(channel[l]), FALSE))
             /\ UNCHANGED due
       \/ \E n \in Nodes : Running(n) /\ ~Quiet /\ TimedOut(n)
       \/ \E n \in Nodes :
             /\ Running(n) /\ Quiet
             /\ \E a \in Known(node[n]) : ~TooOld(n, a) /\ Evicts(n, a)
       \/ \E n \in Nodes :
             /\ node' = [node EXCEPT ![n] = Booted(n, @.session + 1)]
             /\ channel' = [l \in Ports |-> IF n \in {l[1], l[2]} THEN <<>> ELSE channel[l]]
             /\ UNCHANGED due
       \/ \E n \in Nodes :
             /\ node' = [node EXCEPT ![n].on = FALSE]
             /\ UNCHANGED <<channel, due>>

Progress ==
    \/ \E l \in Ports : Receive(l[1], l[2])
    \/ \E n \in Nodes : BeaconSender(n) \/ JoinTimeout(n) \/ NeighborMonitor(n) \/ ChannelReset(n)
    \/ NextRound

Next == Progress \/ Hitch

Spec == Init /\ [][Next]_neighborVars

-----------------------------------------------------------------------------
(* Properties *)

\* Following the upstreams from n one comes to the gateway, by nodes that are on.
LeadsToGateway(n) ==
    LET after[i \in 0 .. Cardinality(Nodes)] ==
            IF i = 0 THEN n
            ELSE IF after[i - 1] = None THEN None
            ELSE IF Running(after[i - 1]) THEN node[after[i - 1]].upstream ELSE None
    IN after[Cardinality(Nodes)] = Gateway

\* The upstream is a neighbor, no other neighbor is marked as one, and the depth is that
\* of a node below the gateway: joins, beacons, evictions and flushes keep the three in step.
UpstreamIsNeighbor ==
    \A n \in Nodes \ {Gateway} :
        /\ node[n].upstream # None =>
              node[n].upstream \in Known(node[n]) /\ node[n].depth \in 1 .. MaxDepth
        /\ \A a \in Known(node[n]) : node[n].neighbors[a].up => a = node[n].upstream

\* The list of neighbors, the provisional list and the upstream of every node agree.
NeighborsSound == TypeOK /\ UpstreamIsNeighbor

\* Nodes that lost the gateway do not take each other for the way to it for ever: again and
\* again every upstream leads to the gateway (a node that is off is forgotten, and the depth
\* that two nodes tell each other grows to its limit).
FalseUpstreamsEnd ==
    []<>(\A n \in Nodes : Running(n) /\ node[n].upstream # None => LeadsToGateway(n))

\* When nothing goes wrong every node finds the way to the gateway and stays on its channel,
\* though the nodes move between the channels, join each other in any order and have
\* lists that hold fewer than all the others.
AllFindGateway ==
    \/ <>[](\A n \in Nodes : LeadsToGateway(n) /\ node[n].mode = "parked" /\ node[n].tuned)
    \/ <>(hitches > 0)
\* The tree of upstreams heals: the false ones end, and if nothing goes wrong all are true.
TreeHeals == FalseUpstreamsEnd /\ AllFindGateway
=============================================================================
