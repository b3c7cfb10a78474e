------------------------------ MODULE TimeSync ------------------------------
(***************************************************************************)
(* Network time: src/src/wcom_time.c in the nodes and its source in the    *)
(* gateway, src/gateway/time_source.c.  A node asks its upstream neighbor  *)
(* (module Neighbors), whose beacons say whether it has the time, and      *)
(* measures its drift between the first two timestamps.                    *)
(*                                                                         *)
(* The time itself is left out: what matters is whose it is.  A gateway    *)
(* that restarts begins a new epoch.  Module Clock is about the numbers.   *)
(***************************************************************************)
EXTENDS Integers, FiniteSets

CONSTANTS
    Timers,       \* nodes that synchronize
    TimeSource,   \* the gateway
    Trees,        \* the upstream neighbors the nodes may have: functions on Timers
    Patience,     \* WCOM_TIME_SYNC_LOSS_SECONDS in requests that are not answered
    MaxUpsets     \* bound: messages lost or late, restarts, changes of the upstreams

VARIABLES
    timeInfo,   \* time_info: flags, source_addr, epoch (history), unanswered requests
    syncing,    \* where the synchronization thread of each node is
    upstream,   \* the upstream neighbor of each node
    announced,  \* whether the last beacon of the upstream said that it has the time
    stamps,     \* requests and timestamps on their way
    epoch,      \* how often the gateway has started
    upsets

timeSyncVars == <<timeInfo, syncing, upstream, announced, stamps, epoch, upsets>>

\* wcom_time_v_reset
NoTime == [flags |-> "none", source |-> "nobody", epoch |-> 0, unanswered |-> 0]
All == Timers \cup {TimeSource}

Init ==
    /\ timeInfo = [n \in All |-> NoTime]
    /\ syncing = [n \in Timers |-> "search"]
    /\ upstream = CHOOSE t \in Trees : TRUE
    /\ announced = [n \in Timers |-> FALSE]
    /\ stamps = {} /\ epoch = 1 /\ upsets = 0

TypeOK ==
    /\ \A n \in All : /\ timeInfo[n].flags \in {"none", "initial", "sync"}
                      /\ timeInfo[n].epoch \in 0 .. epoch
                      /\ timeInfo[n].unanswered \in 0 .. Patience
    /\ syncing \in [Timers -> {"search", "first", "initial", "wait"}]
    /\ upstream \in Trees /\ announced \in [Timers -> BOOLEAN]
    /\ upsets \in 0 .. MaxUpsets

-----------------------------------------------------------------------------
\* wcom_time_v_sync
Flagged(flags) == IF flags = "none" THEN "initial" ELSE "sync"
Synced(info, source, of) ==
    [flags |-> Flagged(info.flags), source |-> source, epoch |-> of, unanswered |-> 0]

\* time_source_thread
TimeSourceThread ==
    /\ timeInfo' = [timeInfo EXCEPT ![TimeSource] = Synced(@, TimeSource, epoch)]
    /\ UNCHANGED <<syncing, upstream, announced, stamps, epoch, upsets>>

\* upstream_sync, time_sync
TimeGood(n) ==
    /\ announced[n]
    /\ timeInfo[n].source = upstream[n] /\ timeInfo[n].flags # "none"
    /\ timeInfo[n].unanswered < Patience

\* wcom_time_i8_send_request
Request(n) == [kind |-> "request", to |-> upstream[n], from |-> n]
Asked(n) == [timeInfo[n] EXCEPT !.unanswered = IF @ < Patience THEN @ + 1 ELSE @]

\* Mutant: what was known of the time is kept when the synchronization is lost.
Lost_Kept(info) == info
Lost(info) == NoTime

Restarts(n) ==
    /\ syncing' = [syncing EXCEPT ![n] = "search"]
    /\ timeInfo' = [timeInfo EXCEPT ![n] = Lost(@)]
    /\ UNCHANGED stamps

\* The head of the main loop: the next request, or the synchronization is lost.
Loop(n) ==
    IF TimeGood(n)
    THEN /\ stamps' = stamps \cup {Request(n)}
         /\ timeInfo' = [timeInfo EXCEPT ![n] = Asked(n)]
         /\ syncing' = [syncing EXCEPT ![n] = IF timeInfo[n].flags = "initial" THEN "initial" ELSE "wait"]
    ELSE Restarts(n)

\* The waits take seconds; a message of the node that is still on its way is an upset.
About(n, msg) == (msg.kind = "request" /\ msg.from = n) \/ (msg.kind = "stamp" /\ msg.to = n)
Waited(n) ==
    IF \E msg \in stamps : About(n, msg)
    THEN upsets < MaxUpsets /\ upsets' = upsets + 1
    ELSE UNCHANGED upsets

\* wcom_time_sync_thread: an upstream with the time; the first delay; the main loop.
Search(n) ==
    /\ syncing[n] = "search" /\ announced[n]
    /\ stamps' = stamps \cup {Request(n)}
    /\ syncing' = [syncing EXCEPT ![n] = "first"]
    /\ UNCHANGED <<timeInfo, upstream, announced, epoch, upsets>>

FirstDelay(n) ==
    /\ syncing[n] = "first" /\ Waited(n)
    /\ IF timeInfo[n].flags = "initial" THEN Loop(n) ELSE Restarts(n)
    /\ UNCHANGED <<upstream, announced, epoch>>

NextRequest(n) ==
    /\ syncing[n] \in {"initial", "wait"}
    /\ IF syncing[n] = "wait" /\ ~TimeGood(n) THEN UNCHANGED upsets ELSE Waited(n)
    /\ Loop(n)
    /\ UNCHANGED <<upstream, announced, epoch>>

\* wcom_time_v_receive_msg for a request, and wcom_time_tx_thread; a timestamp of a node that
\* is not in sync is ignored by the receiver.
Answer(msg) ==
    /\ msg \in stamps /\ msg.kind = "request"
    /\ stamps' = (stamps \ {msg}) \cup
          (IF timeInfo[msg.to].flags = "sync"
           THEN {[kind |-> "stamp", to |-> msg.from, from |-> msg.to,
                  epoch |-> timeInfo[msg.to].epoch]}
           ELSE {})
    /\ UNCHANGED <<timeInfo, syncing, upstream, announced, epoch, upsets>>

\* wcom_time_v_receive_msg for a timestamp
ReceiveStamp(msg) ==
    /\ msg \in stamps /\ msg.kind = "stamp"
    /\ stamps' = stamps \ {msg}
    /\ timeInfo' = [timeInfo EXCEPT ![msg.to] = Synced(@, msg.from, msg.epoch)]
    /\ UNCHANGED <<syncing, upstream, announced, epoch, upsets>>

\* my_flags in a beacon of the upstream (wcom_neighbors.c)
Beacon(n) ==
    /\ announced' = [announced EXCEPT ![n] = timeInfo[upstream[n]].flags = "sync"]
    /\ UNCHANGED <<timeInfo, syncing, upstream, stamps, epoch, upsets>>

\* A message is lost; the upstreams change, to neighbors that just sent a beacon; a node or
\* the gateway restarts.
Upset ==
    /\ upsets < MaxUpsets
    /\ upsets' = upsets + 1
    /\ \/ \E msg \in stamps : stamps' = stamps \ {msg}
          /\ UNCHANGED <<timeInfo, syncing, upstream, announced, epoch>>
       \/ \E t \in Trees :
             /\ upstream' = t
             /\ announced' = [n \in Timers |->
                    IF t[n] = upstream[n] THEN announced[n] ELSE timeInfo[t[n]].flags = "sync"]
             /\ UNCHANGED <<timeInfo, syncing, stamps, epoch>>
       \/ \E n \in Timers :
             /\ timeInfo' = [timeInfo EXCEPT ![n] = NoTime]
             /\ syncing' = [syncing EXCEPT ![n] = "search"]
             /\ stamps' = {msg \in stamps : ~About(n, msg)}
             /\ UNCHANGED <<upstream, announced, epoch>>
       \/ /\ epoch' = epoch + 1
          /\ timeInfo' = [timeInfo EXCEPT ![TimeSource] = NoTime]
          /\ UNCHANGED <<syncing, upstream, announced, stamps>>

SyncThread(n) == Search(n) \/ FirstDelay(n) \/ NextRequest(n)

Deliver(msg) == Answer(msg) \/ ReceiveStamp(msg)

Next ==
    \/ TimeSourceThread \/ Upset
    \/ \E n \in Timers : SyncThread(n) \/ Beacon(n)
    \/ \E msg \in stamps : Deliver(msg)

Spec == Init /\ [][Next]_timeSyncVars

InSync(n) == /\ timeInfo[n].flags = "sync" /\ timeInfo[n].epoch = epoch
             /\ syncing[n] = "wait"

\* However the upstreams changed and the gateway or a node restarted, in the end every node
\* has the time of the present epoch and keeps asking for it, unless some nodes are left
\* with each other as upstream, which keep an old time alive among themselves.
Rooted ==
    \A n \in Timers : \/ upstream[n] = TimeSource
                      \/ upstream[n] \in Timers /\ upstream[upstream[n]] = TimeSource
AllGetTheTime == []TypeOK /\ (<>[]Rooted => <>[](\A n \in Timers : InSync(n)))
=============================================================================
