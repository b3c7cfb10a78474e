-------------------------------- MODULE Arp ---------------------------------
(***************************************************************************)
(* How the gateway finds the Ethernet address for an IP packet: the cache  *)
(* of src/gateway/arp.c and the threads, one for each packet, that         *)
(* gateway_v_send_ethernet starts, src/gateway/gateway.c.                  *)
(*                                                                         *)
(* A reply replaces the oldest entry, which may be one that another thread *)
(* is about to read, and leaves an older entry for the same host in front  *)
(* of it.  A thread whose requests are not answered sends the packet all   *)
(* the same, to the address its state happens to hold.                     *)
(***************************************************************************)
EXTENDS Integers, FiniteSets, FiniteSetsExt

CONSTANTS
    LanHosts,        \* hosts of the Ethernet: the next hop of a packet
    TxThreads,       \* packets that may wait at the same time
    CacheEntries,    \* ARP_MAX_CACHE_ENTRIES
    MaxArpAge,       \* ARP_MAX_AGE_TICKS
    ArpTries,        \* MAX_ARP_TRIES
    MaxReplacements, \* bound: hosts that get another Ethernet address
    MaxUnheard       \* bound: replies lost or late

VARIABLES
    arpCache,     \* ip, mac and age of each entry
    ethTx,        \* the threads that send a packet
    hostMac,      \* the Ethernet address of each host: how often it was replaced
    lan,          \* replies on their way
    unheard

arpVars == <<arpCache, ethTx, hostMac, lan, unheard>>

CacheIndexes == 1 .. CacheEntries
ZeroIp == "0.0.0.0"
MacOf(h, n) == <<h, n>>
ZeroMac == MacOf(ZeroIp, 0)
Uninitialised == MacOf("nobody", 0)
Idle == [pc |-> "idle", ip |-> ZeroIp, mac |-> Uninitialised, tries |-> 0]

\* Nobody asks for the address 0.0.0.0, so what else an unused entry holds is left out.
Empty(age) == [ip |-> ZeroIp, mac |-> ZeroMac, age |-> age]

Init ==
    /\ arpCache = [i \in CacheIndexes |-> Empty(0)]
    /\ ethTx = [t \in TxThreads |-> Idle]
    /\ hostMac = [h \in LanHosts |-> 0]
    /\ lan = {} /\ unheard = 0

Macs(h) == {MacOf(h, n) : n \in 0 .. MaxReplacements}

TypeOK ==
    /\ \A i \in CacheIndexes : /\ arpCache[i].ip \in LanHosts \cup {ZeroIp}
                          /\ arpCache[i].age \in 0 .. MaxArpAge
    /\ \A t \in TxThreads : /\ ethTx[t].pc \in {"idle", "ask", "wait", "send"}
                            /\ ethTx[t].tries \in 0 .. ArpTries
    /\ hostMac \in [LanHosts -> 0 .. MaxReplacements]
    /\ unheard \in 0 .. MaxUnheard

-----------------------------------------------------------------------------
\* arp_b_get_address: the first entry for the address.
Found(ip) == \E i \in CacheIndexes : arpCache[i].ip = ip
Lookup(ip) == arpCache[Min({i \in CacheIndexes : arpCache[i].ip = ip})].mac

Resolved(job) == [job EXCEPT !.pc = "send", !.mac = Lookup(job.ip)]

\* gateway_v_send_ethernet, and eth_tx_thread up to its first wait.
Send(t, h) ==
    /\ ethTx[t].pc = "idle"
    /\ LET job == [Idle EXCEPT !.ip = h] IN
       ethTx' = [ethTx EXCEPT ![t] =
          IF Found(h) THEN Resolved(job) ELSE [job EXCEPT !.pc = "ask", !.tries = ArpTries]]
    /\ UNCHANGED <<arpCache, hostMac, lan, unheard>>

\* The host answers at once, with the address it has.
Ask(t) ==
    /\ ethTx[t].pc = "ask"
    /\ lan' = lan \cup {[ip |-> ethTx[t].ip, mac |-> MacOf(ethTx[t].ip, hostMac[ethTx[t].ip])]}
    /\ ethTx' = [ethTx EXCEPT ![t].pc = "wait"]
    /\ UNCHANGED <<arpCache, hostMac, unheard>>

Answered(t) ==
    /\ ethTx[t].pc = "wait" /\ Found(ethTx[t].ip)
    /\ ethTx' = [ethTx EXCEPT ![t] = Resolved(@)]
    /\ UNCHANGED <<arpCache, hostMac, lan, unheard>>

\* The last try that is not answered ends in the sending of the packet.
TimedOut(t) ==
    /\ ethTx[t].pc = "wait" /\ ~Found(ethTx[t].ip)
    /\ IF \E msg \in lan : msg.ip = ethTx[t].ip
       THEN unheard < MaxUnheard /\ unheard' = unheard + 1
       ELSE UNCHANGED unheard
    /\ ethTx' = [ethTx EXCEPT ![t].tries = @ - 1,
                              ![t].pc = IF ethTx[t].tries = 1 THEN "send" ELSE "ask"]
    /\ UNCHANGED <<arpCache, hostMac, lan>>

Transmit(t) ==
    /\ ethTx[t].pc = "send"
    /\ ethTx' = [ethTx EXCEPT ![t] = Idle]
    /\ UNCHANGED <<arpCache, hostMac, lan, unheard>>

\* The entry that is replaced: the first of the oldest.
Oldest == Min({i \in CacheIndexes : \A k \in CacheIndexes : arpCache[k].age <= arpCache[i].age})

\* Mutant: only the IP address of the entry is replaced.
Learned_IpOnly(entry, msg) == [entry EXCEPT !.ip = msg.ip, !.age = 0]
Learned(entry, msg) == [ip |-> msg.ip, mac |-> msg.mac, age |-> 0]

\* arp_v_recv
ReceiveReply(msg) ==
    /\ msg \in lan
    /\ lan' = lan \ {msg}
    /\ arpCache' = [arpCache EXCEPT ![Oldest] = Learned(@, msg)]
    /\ UNCHANGED <<ethTx, hostMac, unheard>>

\* Mutant: an entry that gets old stays in use.
Aged_Stays(entry) == IF entry.age < MaxArpAge THEN [entry EXCEPT !.age = @ + 1] ELSE entry
Aged(entry) ==
    IF entry.age >= MaxArpAge THEN entry
    ELSE IF entry.age + 1 = MaxArpAge THEN Empty(MaxArpAge)
    ELSE [entry EXCEPT !.age = @ + 1]

\* arp_aging_thread.  A tick is longer than a thread that was answered waits for its turn.
AgingThread ==
    /\ \A t \in TxThreads : ethTx[t].pc = "wait" => ~Found(ethTx[t].ip)
    /\ arpCache' = [i \in CacheIndexes |-> Aged(arpCache[i])]
    /\ UNCHANGED <<ethTx, hostMac, lan, unheard>>

\* A reply, or the request for it, is lost; a host is replaced, and what it still had to
\* say is lost too.
MessageLost(msg) ==
    /\ msg \in lan /\ unheard < MaxUnheard /\ unheard' = unheard + 1
    /\ lan' = lan \ {msg}
    /\ UNCHANGED <<arpCache, ethTx, hostMac>>

HostReplaced(h) ==
    /\ \A k \in LanHosts : hostMac[k] < MaxReplacements
    /\ hostMac' = [hostMac EXCEPT ![h] = @ + 1]
    /\ lan' = {msg \in lan : msg.ip # h}
    /\ UNCHANGED <<arpCache, ethTx, unheard>>

EthTxThread(t) == Ask(t) \/ Answered(t) \/ TimedOut(t) \/ Transmit(t)

Next ==
    \/ \E t \in TxThreads : (\E h \in LanHosts : Send(t, h)) \/ EthTxThread(t)
    \/ \E msg \in lan : ReceiveReply(msg) \/ MessageLost(msg)
    \/ AgingThread
    \/ \E h \in LanHosts : HostReplaced(h)

Spec == Init /\ [][Next]_arpVars

\* A packet goes to an address its next hop has or had, and to an uninitialised one only
\* after all tries, however replies overwrite the entries that threads wait for.
FramesFindHosts ==
    \A t \in TxThreads : ethTx[t].pc = "send" =>
        \/ ethTx[t].mac \in Macs(ethTx[t].ip)
        \/ ethTx[t].mac = Uninitialised /\ ethTx[t].tries = 0

\* The cache holds entries, and the frames go to hosts.
ForwardingSound == TypeOK /\ FramesFindHosts

\* Once no host is replaced any more, packets go to the present addresses: also an entry
\* that stands in front of a newer one, or that is used all the time, ends.
StaleEntriesEnd ==
    <>[](\A t \in TxThreads : ethTx[t].pc = "send" /\ ethTx[t].mac # Uninitialised =>
            ethTx[t].mac = MacOf(ethTx[t].ip, hostMac[ethTx[t].ip]))
=============================================================================
