----------------------------- MODULE Fragments -----------------------------
(***************************************************************************)
(* IP packets in frames, src/src/wcom_ipv4.c: the transmit thread cuts a   *)
(* message into fragments, the receiver puts them together again, throws   *)
(* away what it had already, checks the signature, hands the packet over   *)
(* and sends a broadcast on.  (Module Routing models the source routes.)   *)
(*                                                                         *)
(* Fragments of one node arrive in order, each at most once (module Link). *)
(* The content of a message that was put together is the sequence of the   *)
(* messages its fragments come from; all headers are in the first one.     *)
(* "stale" says that the neighbor has seen a higher replay counter than    *)
(* that of the message.                                                    *)
(***************************************************************************)
EXTENDS Integers, Sequences, FiniteSets, SequencesExt

CONSTANTS
    Stations,
    Address,     \* the IP address of each station
    InReach,     \* pairs of stations
    Packets,     \* bound: source station and destination ("all" or a station) of each packet
    Fragmented,  \* number of fragments of a packet
    FirstTtl,    \* IP_DEFAULT_TTL
    TagSpace,    \* 256: next_tag is an uint8_t
    CacheSlots,  \* WCOM_IPv4_REPLAY_CACHE_ENTRIES
    CacheAge,    \* WCOM_IPv4_REPLAY_MAX_AGE_TICKS
    StreamAge,   \* WCOM_IPv4_RX_FRAGMENT_TIMEOUT
    MaxMishaps   \* bound: fragments lost, failed transmissions, other frames, reboots

VARIABLES
    station,  \* tx_q, rx_list and replay_cache of each station
    created,  \* the packets sent so far
    handed,   \* history: what was handed over to netmsg, as <<station, content>>
    unseen,   \* history: messages thrown away as known that the station had not seen, with
              \* those that it had seen
    mishaps   \* bound

fragmentVars == <<station, created, handed, unseen, mishaps>>

Zero == "0.0.0.0"
All == "all"

\* wcom_ipv4_v_init; the replay cache and the next tag are zeroed memory.  The history: the
\* starts of the station, and since the last one the messages it sent and those it has seen.
Started(starts) ==
    [queue |-> <<>>, offset |-> 0, streams |-> <<>>, tag |-> 0,
     cache |-> [i \in 1 .. CacheSlots |-> [source |-> Zero, tag |-> 0, age |-> 0]],
     starts |-> starts, number |-> 0, seen |-> {}]

Init ==
    /\ station = [n \in Stations |-> Started(0)]
    /\ created = {} /\ handed = {} /\ unseen = {} /\ mishaps = 0

TypeOK ==
    /\ \A n \in Stations :
          /\ station[n].offset < Fragmented
          /\ station[n].tag \in 0 .. TagSpace - 1
          /\ \A i \in DOMAIN station[n].streams :
                /\ station[n].streams[i].age \in 0 .. StreamAge
                /\ Len(station[n].streams[i].content) < Fragmented
          /\ DOMAIN station[n].cache = 1 .. CacheSlots
          /\ \A i \in 1 .. CacheSlots : station[n].cache[i].age \in 0 .. CacheAge
          /\ \A i \in DOMAIN station[n].queue : station[n].queue[i].ttl > 0
    /\ created \subseteq DOMAIN Packets
    /\ mishaps \in 0 .. MaxMishaps

-----------------------------------------------------------------------------
(* The replay cache *)

\* Mutant: the tag alone tells messages apart.
InReplayCache_ByTag(s, source, tag) == \E i \in 1 .. CacheSlots : s.cache[i].tag = tag
InReplayCache(s, source, tag) ==
    \E i \in 1 .. CacheSlots : s.cache[i].source = source /\ s.cache[i].tag = tag

\* wcom_ipv4_b_add_to_replay_cache: a known message becomes young again, a new one takes
\* the place of the oldest.
AddToReplayCache(s, msg) ==
    LET source == msg.source
        tag == msg.tag
        known == {i \in 1 .. CacheSlots : InReplayCache(s, source, tag) /\ s.cache[i].tag = tag
                                          /\ s.cache[i].source = source}
        oldest == CHOOSE i \in 1 .. CacheSlots : \A k \in 1 .. CacheSlots :
                     \/ s.cache[i].age > s.cache[k].age
                     \/ s.cache[i].age = s.cache[k].age /\ i <= k
        place == IF known # {} THEN CHOOSE i \in known : \A k \in known : i <= k ELSE oldest
    IN [s EXCEPT !.cache[place] = [source |-> source, tag |-> tag, age |-> 0],
                 !.seen = @ \cup {[id |-> msg.id, source |-> source, tag |-> tag]}]

-----------------------------------------------------------------------------
(* Receiving *)

\* wcom_ipv4_m_get_msg: a stream is known by the neighbor that sends it and the tag that
\* the origin of the message chose.
StreamOf(s, from, tag) ==
    {i \in DOMAIN s.streams : s.streams[i].from = from /\ s.streams[i].tag = tag}

\* Mutant: the content is not compared with the signature.
Verified_CounterOnly(content) == ~content[1].stale
\* wcom_ipv4_i8_verify_msg: the replay counter is new and the tag is that of the content.
Verified(content) ==
    /\ ~content[1].stale
    /\ \A i \in DOMAIN content : content[i].id = content[1].id

\* Mutant: the time to live stays what it is.
Aged_Not(msg) == msg.ttl
Aged(msg) == msg.ttl - 1

\* A verified message: a broadcast goes on, signed anew, when its time to live allows.
Accepted(s, msg) ==
    IF msg.dest = All /\ Aged(msg) > 0
    THEN [s EXCEPT !.queue = Append(@, [msg EXCEPT !.ttl = Aged(msg)])]
    ELSE s

\* What became of the last fragment: "fragment" (there is none yet, or it was of no use),
\* "known", "forged" or "handed".
Outcome(s, content) ==
    LET msg == content[1] IN
    IF Len(content) < Fragmented THEN "fragment"
    ELSE IF InReplayCache(s, msg.source, msg.tag) THEN "known"
    ELSE IF ~Verified(content) THEN "forged"
    ELSE "handed"

\* The content of the stream after the fragment: fragments are taken in order only.  Note that
\* a first fragment does not begin anew a stream that waits for its second.
Appended(s, from, msg, offset) ==
    LET known == StreamOf(s, from, msg.tag)
        content == IF known = {} THEN <<>> ELSE s.streams[CHOOSE i \in known : TRUE].content
    IN IF offset = Len(content) THEN Append(content, msg) ELSE <<>>

\* process_fragment: the state of the station afterwards.
Processed(s, from, msg, offset) ==
    LET content == Appended(s, from, msg, offset)
        known == StreamOf(s, from, msg.tag)
        first == content[1]
        without == [s EXCEPT !.streams = IF known = {} THEN @ ELSE RemoveAt(@, CHOOSE i \in known : TRUE)]
        noted == AddToReplayCache(without, first)
    IN CASE content = <<>> -> s
         [] content # <<>> /\ Outcome(s, content) = "fragment" ->
               IF known = {}
               THEN [s EXCEPT !.streams = <<[from |-> from, tag |-> msg.tag, age |-> 0,
                                             content |-> content]>> \o @]
               ELSE [s EXCEPT !.streams[CHOOSE i \in known : TRUE].content = content]
         [] content # <<>> /\ Outcome(s, content) \in {"known", "forged"} -> noted
         [] content # <<>> /\ Outcome(s, content) = "handed" -> Accepted(noted, first)

-----------------------------------------------------------------------------
(* Actions *)

\* wcom_ipv4_i8_send_packet, wcom_ipv4_m_create_from_netmsg
SendPacket(p) ==
    LET n == Packets[p].from
        s == station[n]
        msg == [id |-> [from |-> n, starts |-> s.starts, number |-> s.number],
                source |-> Address[n], tag |-> s.tag, dest |-> Packets[p].dest,
                ttl |-> FirstTtl, stale |-> FALSE]
    IN /\ p \notin created
       /\ created' = created \cup {p}
       /\ station' = [station EXCEPT ![n] = [s EXCEPT !.queue = Append(@, msg),
                                !.tag = (@ + 1) % TagSpace, !.number = @ + 1]]
       /\ UNCHANGED <<handed, unseen, mishaps>>

Hearers(n, msg) == {m \in Stations : <<n, m>> \in InReach /\ msg.dest \in {All, m}}

\* The station after a fragment was sent; before the first one the message enters the
\* replay cache (wcom_ipv4_v_init_tx_state, wcom_ipv4_u8_get_mac_frame).
AfterFragment(s, msg) ==
    LET noted == IF s.offset = 0 THEN AddToReplayCache(s, msg) ELSE s
    IN IF s.offset + 1 < Fragmented
       THEN [noted EXCEPT !.offset = @ + 1]
       ELSE [noted EXCEPT !.offset = 0, !.queue = Tail(@)]

\* One round of ipv4_tx_thread: the fragment reaches the stations of "reached".
Fragment(n, reached) ==
    LET s == station[n]
        msg == Head(s.queue)
        content(m) == Appended(station[m], n, msg, s.offset)
        Ends(m, outcome) == content(m) # <<>> /\ Outcome(station[m], content(m)) = outcome
    IN /\ station' = [m \in Stations |->
                        IF m = n THEN AfterFragment(s, msg)
                        ELSE IF m \in reached THEN Processed(station[m], n, msg, s.offset)
                        ELSE station[m]]
       /\ handed' = handed \cup {<<m, content(m)>> : m \in {k \in reached : Ends(k, "handed")}}
       /\ unseen' = unseen \cup
             {[msg |-> content(m)[1], seen |-> station[m].seen] : m \in {k \in reached :
                 Ends(k, "known") /\ \A e \in station[k].seen : e.id # content(k)[1].id}}

TxThread(n) ==
    /\ station[n].queue # <<>>
    /\ Fragment(n, Hearers(n, Head(station[n].queue)))
    /\ UNCHANGED <<created, mishaps>>

\* wcom_ipv4_timeout_thread.  The first stream that is too old goes, the ones behind it
\* are not looked at in this tick.
Older(s) ==
    LET old == {i \in DOMAIN s.streams : s.streams[i].age + 1 > StreamAge}
        first == IF old = {} THEN Len(s.streams) + 1 ELSE CHOOSE i \in old : \A k \in old : i <= k
        aged == [i \in DOMAIN s.streams |-> IF i < first THEN [s.streams[i] EXCEPT !.age = @ + 1]
                                                         ELSE s.streams[i]]
        Entry(e) == IF e.age >= CacheAge THEN e
                    ELSE [e EXCEPT !.age = @ + 1, !.source = IF e.age + 1 = CacheAge THEN Zero ELSE @]
    IN [s EXCEPT !.streams = IF old = {} THEN aged ELSE RemoveAt(aged, first),
                 !.cache = [i \in 1 .. CacheSlots |-> Entry(s.cache[i])]]

TimeoutThread(n) ==
    /\ station' = [station EXCEPT ![n] = Older(@)]
    /\ UNCHANGED <<created, handed, unseen, mishaps>>

\* A message has its counter from the moment it is queued (wcom_ipv4_v_sign_msg); a frame of
\* n with a later one makes it stale, in the queue and where it is put together.
Overtaken(s, n, m) ==
    IF n = m THEN [s EXCEPT !.queue = [i \in DOMAIN @ |-> [@[i] EXCEPT !.stale = TRUE]]]
    ELSE [s EXCEPT !.streams = [i \in DOMAIN @ |->
            IF @[i].from = n THEN [@[i] EXCEPT !.content[1].stale = TRUE] ELSE @[i]]]

\* A fragment is not heard by all; the MAC gives up or memory is short, which ends the
\* message; a signed frame of another protocol overtakes the messages in the queue; a
\* station starts again.
Mishap ==
    /\ mishaps < MaxMishaps
    /\ mishaps' = mishaps + 1
    /\ UNCHANGED created
    /\ \E n \in Stations :
          \/ /\ station[n].queue # <<>>
             /\ \E m \in Hearers(n, Head(station[n].queue)) :
                   Fragment(n, Hearers(n, Head(station[n].queue)) \ {m})
          \/ /\ station[n].queue # <<>>
             /\ station' = [station EXCEPT ![n].queue = Tail(@), ![n].offset = 0]
             /\ UNCHANGED <<handed, unseen>>
          \/ /\ station[n].queue # <<>>
             /\ station' = [m \in Stations |-> Overtaken(station[m], n, m)]
             /\ UNCHANGED <<handed, unseen>>
          \/ /\ station' = [station EXCEPT ![n] = Started(@.starts + 1)]
             /\ UNCHANGED <<handed, unseen>>

Next ==
    \/ \E p \in DOMAIN Packets : SendPacket(p)
    \/ \E n \in Stations : TxThread(n) \/ TimeoutThread(n)
    \/ Mishap

Spec == Init /\ [][Next]_fragmentVars

-----------------------------------------------------------------------------
(* Properties *)

\* What is handed over is one message as it was signed, never the first fragment of one
\* and the second of another, though the two may have the same neighbor and tag.
HandedWhole == \A h \in handed : \A i \in DOMAIN h[2] : h[2][i].id = h[2][1].id

\* The tags came round: the origin has restarted or sent TagSpace messages in between.
CameRound(id, other) ==
    /\ id.from = other.from
    /\ \/ id.starts # other.starts
       \/ id.number + TagSpace <= other.number \/ other.number + TagSpace <= id.number

\* The replay cache refuses only what the station had sent or put together since it started,
\* and a new message only when it has seen the one that had this tag in the round before
\* (wcom_ipv4.c 528, 591).  (A source without an address is the exception: an unused entry
\* looks like its message.)
RefusesOnlySeen ==
    \A u \in unseen :
        \/ u.msg.source = Zero
        \/ \E e \in u.seen : CameRound(e.id, u.msg.id) /\ e.tag = u.msg.tag

\* Stations hand over what was signed, and refuse only what they have seen.
FragmentsSound == TypeOK /\ HandedWhole /\ RefusesOnlySeen

\* A broadcast does not go round for ever, however quickly the caches forget it.
TrafficEnds == []<>(\A n \in Stations : station[n].queue = <<>>)
=============================================================================
