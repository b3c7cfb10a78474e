------------------------------ MODULE Services ------------------------------
(***************************************************************************)
(* The parts of a node and of the gateway that have no run of their own:   *)
(* the radio MAC, the neighbors, IP fragments, addresses and their leases, *)
(* ARP, the bridge, the network time, the clock, the resolver, the         *)
(* configuration store, the TFTP server and the key values.                *)
(*                                                                         *)
(* A behavior is one of the part in `focus', the others rest; the parts    *)
(* share neither constants nor variables.                                  *)
(***************************************************************************)
EXTENDS Node

\* See the modules of the parts.
CONSTANTS
    Plan, QueueSize, CacheSize, SeqNumbers, SoftTries, TryValues, HardTries, RingSize, MaxFaults,
    Nodes, Gateway, Capacity, MaxProv, MaxDepth, MaxAge, MaxAgeNew, Countdown, MaxHitches,
    Stations, Address, InReach, Packets, Fragmented, FirstTtl, TagSpace, CacheSlots, CacheAge,
    StreamAge, MaxMishaps,
    Members, ManualIp, Pool, TableSize, MaxDisruptions,
    Entries, ServerPool, MaxRenewals, MaxLapses,
    LanHosts, TxThreads, CacheEntries, MaxArpAge, ArpTries, MaxReplacements, MaxUnheard,
    Gateways, BridgedBy, IpPackets, DefaultTtl,
    Timers, TimeSource, Trees, Patience, MaxUpsets,
    Names, Attempts, TimesToLive, MaxMoves, MaxDnsFailures

VARIABLES
    sender, radio, ring, receiver, sent, heard, delivered, report, refused, tries, faults,
    node, channel, due, hitches,
    station, created, handed, unseen, mishaps,
    member, gate, database, leases, air, raced, disruptions,
    client, wanted, address, bindings, wire, xids, renewals, lapses,
    arpCache, ethTx, hostMac, lan, unheard,
    unsent, copies,
    timeInfo, syncing, upstream, announced, stamps, epoch, upsets,
    query, resolver, dnsMessages, location, failed, dnsFailures

Mac == INSTANCE Mac
Neighbors == INSTANCE Neighbors
Fragments == INSTANCE Fragments
Addresses == INSTANCE Addresses
Dhcp == INSTANCE Dhcp
Arp == INSTANCE Arp
Bridging == INSTANCE Bridging
TimeSync == INSTANCE TimeSync
Dns == INSTANCE Dns

\* There are tries, caches and a queue; the values of `attempts' hold the soft tries.
MacAssumption ==
    /\ QueueSize \in Nat \ {0} /\ CacheSize \in Nat \ {0} /\ RingSize \in Nat \ {0}
    /\ SeqNumbers \in Nat \ {0} /\ HardTries \in Nat \ {0} /\ MaxFaults \in Nat
    /\ SoftTries \in Nat \ {0} /\ TryValues \in Nat /\ SoftTries < TryValues
    /\ Plan \in Seq(SUBSET {"thunder", "data", "broadcast"})

\* Manual addresses differ, and none is one that the DHCP server gives; the gateway, all and
\* nobody are not nodes.
AddressesAssumption ==
    /\ TableSize \in Nat /\ MaxDisruptions \in Nat
    /\ Addresses!NoOne \notin Members /\ Addresses!All \notin Members
    /\ Addresses!TheGateway \notin Members /\ Addresses!NoIp \notin Pool
    /\ \A m \in DOMAIN ManualIp : ManualIp[m] \notin Pool
    /\ \A m, n \in DOMAIN ManualIp : m # n => ManualIp[m] # ManualIp[n]

DhcpAssumption == MaxRenewals \in Nat /\ MaxLapses \in Nat

\* There are tries and ages, and no host has the address that marks an unused entry.
ArpAssumption ==
    /\ CacheEntries \in Nat /\ MaxArpAge \in Nat \ {0} /\ ArpTries \in Nat \ {0}
    /\ MaxReplacements \in Nat /\ MaxUnheard \in Nat /\ Arp!ZeroIp \notin LanHosts

\* No gateway is a medium, and there is time to live for the hack of gateway.c:375.
BridgingAssumption == DefaultTtl \in Nat /\ DefaultTtl >= 2 /\ Gateways \cap Bridging!Media = {}

\* Nobody is a node, and each node has room for a number of neighbors.
NeighborsAssumption ==
    /\ IsFiniteSet(Nodes) /\ Neighbors!None \notin Nodes
    /\ \A n \in Nodes : Capacity[n] \in Nat
    /\ MaxDepth \in Nat /\ MaxAge \in Nat /\ MaxHitches \in Nat

\* Messages have fragments, tags and a time to live, and the cache has entries.  Addresses
\* differ, but for stations that have none yet.
FragmentsAssumption ==
    /\ Fragmented \in Nat \ {0} /\ FirstTtl \in Nat \ {0} /\ CacheSlots \in Nat \ {0}
    /\ TagSpace \in Nat \ {0}
    /\ CacheAge \in Nat /\ StreamAge \in Nat /\ MaxMishaps \in Nat
    /\ \A m, n \in Stations : m # n => Address[m] # Address[n] \/ Address[m] = Fragments!Zero
    /\ \A p \in DOMAIN Packets : Packets[p].from \in Stations

ASSUME ServicesAssumption ==
    /\ MacAssumption /\ NeighborsAssumption /\ FragmentsAssumption
    /\ AddressesAssumption /\ DhcpAssumption /\ ArpAssumption /\ BridgingAssumption

-----------------------------------------------------------------------------
macVars == <<sender, radio, ring, receiver, sent, heard, delivered, report, refused, tries, faults>>
neighborVars == <<node, channel, due, hitches>>
fragmentVars == <<station, created, handed, unseen, mishaps>>
addressVars == <<member, gate, database, leases, air, raced, disruptions>>
dhcpVars == <<client, wanted, address, bindings, wire, xids, renewals, lapses>>
arpVars == <<arpCache, ethTx, hostMac, lan, unheard>>
bridgingVars == <<unsent, copies>>
timeSyncVars == <<timeInfo, syncing, upstream, announced, stamps, epoch, upsets>>
dnsVars == <<query, resolver, dnsMessages, location, failed, dnsFailures>>
Parts == {"mac", "neighbors", "fragments", "addresses", "dhcp", "arp", "bridging", "time",
          "clock", "dns", "config", "tftp", "keys"}

Init ==
    /\ focus \in Parts
    /\ Mac!Init /\ Neighbors!Init /\ Fragments!Init /\ Addresses!Init /\ Dhcp!Init
    /\ Arp!Init /\ Bridging!Init /\ TimeSync!Init /\ Dns!Init
    /\ NodeInit /\ (focus # "tftp" => old = <<"absent">>)

On(part) == focus = part /\ UNCHANGED focus
OthersRest ==
    /\ focus # "mac" => UNCHANGED macVars
    /\ focus # "neighbors" => UNCHANGED neighborVars
    /\ focus # "fragments" => UNCHANGED fragmentVars
    /\ focus # "addresses" => UNCHANGED addressVars
    /\ focus # "dhcp" => UNCHANGED dhcpVars
    /\ focus # "arp" => UNCHANGED arpVars
    /\ focus # "bridging" => UNCHANGED bridgingVars
    /\ focus # "time" => UNCHANGED timeSyncVars
    /\ focus # "clock" => UNCHANGED clockVars
    /\ focus # "dns" => UNCHANGED dnsVars
    /\ focus # "config" => UNCHANGED configVars
    /\ focus # "tftp" => UNCHANGED tftpVars
    /\ focus # "keys" => UNCHANGED keyValueVars

MacNext == On("mac") /\ Mac!Next /\ OthersRest
NeighborsNext == On("neighbors") /\ Neighbors!Next /\ OthersRest
FragmentsNext == On("fragments") /\ Fragments!Next /\ OthersRest
AddressesNext == On("addresses") /\ Addresses!Next /\ OthersRest
DhcpNext == On("dhcp") /\ Dhcp!Next /\ OthersRest
ArpNext == On("arp") /\ Arp!Next /\ OthersRest
BridgingNext == On("bridging") /\ Bridging!Next /\ OthersRest
TimeSyncNext == On("time") /\ TimeSync!Next /\ OthersRest
ClockNext == On("clock") /\ Clock!Next /\ OthersRest
DnsNext == On("dns") /\ Dns!Next /\ OthersRest
ConfigNext == On("config") /\ Config!Next /\ OthersRest
TftpNext == On("tftp") /\ Tftp!Next /\ OthersRest
KeyValueNext == On("keys") /\ KeyValue!Next /\ OthersRest

Next ==
    \/ MacNext \/ NeighborsNext \/ FragmentsNext \/ AddressesNext \/ DhcpNext
    \/ ArpNext \/ BridgingNext \/ TimeSyncNext \/ ClockNext \/ DnsNext
    \/ ConfigNext \/ TftpNext \/ KeyValueNext

vars ==
    <<focus, macVars, neighborVars, fragmentVars, addressVars,
      dhcpVars, arpVars, bridgingVars, timeSyncVars, clockVars,
      dnsVars, configVars, tftpVars, keyValueVars>>

Spec == Init /\ [][Next]_vars

-----------------------------------------------------------------------------
(* Properties of the parts, see their modules *)

MacSound == focus = "mac" => Mac!MacSound
NeighborsSound == focus = "neighbors" => Neighbors!NeighborsSound
FragmentsSound == focus = "fragments" => Fragments!FragmentsSound
AddressingSound ==
    /\ focus = "addresses" => Addresses!AddressingSound
    /\ focus = "dhcp" => Dhcp!AddressingSound
ForwardingSound ==
    /\ focus = "arp" => Arp!ForwardingSound
    /\ focus = "bridging" => Bridging!ForwardingSound
ImplementsLink == Mac!ImplementsLink

-----------------------------------------------------------------------------
(* Liveness of each part, under its fairness: threads run again and again, messages arrive *)
(* unless they are lost, the transmitter finishes what it sends.                           *)

MacFair == /\ WF_macVars(focus = "mac" /\ Mac!TxThread)
           /\ WF_macVars(focus = "mac" /\ Mac!TxEnd)
EveryFrameReported == focus = "mac" /\ MacFair => Mac!EveryFrameReported

NeighborsFair == WF_neighborVars(focus = "neighbors" /\ Neighbors!Progress)
TreeHeals == focus = "neighbors" /\ NeighborsFair => Neighbors!TreeHeals

FragmentsFair ==
    WF_fragmentVars(focus = "fragments" /\ \E n \in Stations : Fragments!TxThread(n))

AddressesFair ==
    /\ WF_addressVars(focus = "addresses" /\ \E m \in Members : Addresses!ClientThread(m))
    /\ WF_addressVars(focus = "addresses" /\ \E msg \in air : Addresses!OnRequest(msg))
    /\ WF_addressVars(focus = "addresses" /\ \E msg \in air : Addresses!ReceiverThread(msg))
    /\ WF_addressVars(focus = "addresses" /\ Addresses!TokenThread)
    /\ WF_addressVars(focus = "addresses" /\ Addresses!DhcpThreads)
NodesAreServed == focus = "addresses" /\ AddressesFair => Addresses!NodesAreServed

DhcpFair ==
    /\ WF_dhcpVars(focus = "dhcp" /\ \E t \in Dhcp!Threads : Dhcp!DhcpThread(t))
    /\ WF_dhcpVars(focus = "dhcp" /\ \E msg \in wire : Dhcp!Deliver(msg) \/ Dhcp!Serve(msg))
AllGetLeases == focus = "dhcp" /\ DhcpFair => Dhcp!AllGetLeases

ArpFair ==
    /\ SF_arpVars(focus = "arp" /\ Arp!AgingThread)
    /\ \A t \in TxThreads : WF_arpVars(focus = "arp" /\ Arp!EthTxThread(t))
    /\ WF_arpVars(focus = "arp" /\ \E msg \in lan : Arp!ReceiveReply(msg))
StaleEntriesEnd == focus = "arp" /\ ArpFair => Arp!StaleEntriesEnd

BridgingFair == WF_bridgingVars(focus = "bridging" /\ \E c \in copies : Bridging!Pass(c))
TrafficEnds ==
    /\ focus = "fragments" /\ FragmentsFair => Fragments!TrafficEnds
    /\ focus = "bridging" /\ BridgingFair => Bridging!TrafficEnds

TimeSyncFair ==
    /\ WF_timeSyncVars(focus = "time" /\ TimeSync!TimeSourceThread)
    /\ \A n \in Timers :
          /\ WF_timeSyncVars(focus = "time" /\ TimeSync!SyncThread(n))
          /\ WF_timeSyncVars(focus = "time" /\ TimeSync!Beacon(n))
          /\ WF_timeSyncVars(focus = "time" /\ \E msg \in stamps :
                                TimeSync!About(n, msg) /\ TimeSync!Deliver(msg))
AllGetTheTime == focus = "time" /\ TimeSyncFair => TimeSync!AllGetTheTime

DnsFair ==
    /\ \A n \in Names : WF_dnsVars(focus = "dns" /\ Dns!Query(n))
    /\ \A n \in Names : WF_dnsVars(focus = "dns" /\ Dns!ResolverThread(n))
    /\ WF_dnsVars(focus = "dns" /\ \E msg \in dnsMessages : Dns!Hear(msg) \/ Dns!Serve(msg))
    /\ WF_dnsVars(focus = "dns" /\ Dns!DnsThread)
NamesFollow == focus = "dns" /\ DnsFair => Dns!NamesFollow

TftpFair ==
    /\ \A t \in Transfers : WF_tftpVars(focus = "tftp" /\ Tftp!TransferThread(t))
    /\ WF_tftpVars(focus = "tftp" /\ \E c \in {"up", "down"} : Tftp!Resend(c))
    /\ WF_tftpVars(focus = "tftp" /\ \E msg \in datagrams : Tftp!Heard(msg))
TransfersEnd == focus = "tftp" /\ TftpFair => Tftp!TransfersEnd
=============================================================================
