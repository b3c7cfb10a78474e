# SapphireOS in TLA+

SapphireOS is an operating system for 8-bit AVR nodes (ATmega128RFA1, 16 KB of
RAM) that form a mesh network over an IEEE 802.15.4 radio.  This directory holds
TLA+ models of its parts, the TLC configurations that check them on small
instances, and TLAPS proofs of the invariants that matter most for every value of
the parameters.  All paths below are relative to the root of the repository
(`src/src` is the system, `src/loader` the boot loader, `src/gateway` the Ethernet
gateway application, `src/dns` the resolver library).

Everything is translated from the C source.  Where a comment or a header of the
source promises something that the code does not do, a run shows the
counterexample; there are seven of those, listed under *What the code does not keep*.

## 1. Inventory

### Parts that are modelled

| Part | Source | State | Operations | What makes it correct |
|---|---|---|---|---|
| Heap | `src/memory.c` | heap, handle table, free pointer, counters, the collector's pointers | `mem2_h_alloc`, `mem2_v_free`, `mem2_vp_get_ptr`, collector thread | a handle always leads to its own block and contents; no leak; counters partition the heap; dirty space is given back |
| Scheduler | `src/threading.c` | `flags`, `signals`, thread list with flags and resume points | the main loop, `run_thread`, `process_signalled_threads`, sleep, signals from interrupts | a yielding thread keeps the processor awake; nobody starves; a signal is not lost |
| Radio receive ring | `src/at86rf230.c` | ring of frames, count, insert and extract index | receive interrupt, receive thread | every stored frame reaches the MAC once and in order |
| Boot loader and firmware partition | `loader/main.c`, `loader/loader.c`, `loader/serial.c`, `src/ffs_fw.c`, `src/system.c`, `src/flash_fs.c` | two copies of the firmware, `boot_data`, EEPROM mode string | check, recover, load, generic mode, upload, delete, reboot, format, reset of the settings | one copy is whole at any moment; what was checked and runs is whole; nobody formats unasked; the node comes back |
| UDP and UDPX sockets | `src/sockets.c` | state, buffer, message id, tries and timer of each socket | `sendto`, `recvfrom`, `sock_v_recv_netmsg`, retry thread | a request ends with an answer or a timeout, or its node asserts; buffers match states; the server becomes free again |
| Flash file system | `src/ffs_block.c`, `ffs_page.c`, `ffs_gc.c`, `flash_fs.c` | flash blocks (meta, index, pages); in RAM free, dirty and per file lists, sizes | mount, create, write, delete, collector, wear leveler, power failure | files survive; free blocks are erased; each block is in one list |
| Source routing and packet forwarding | `src/routing2.c`, part of `src/wcom_ipv4.c` | route list, discoveries, replay cache, waiting packets, frames in the air | RREQ, RREP, RERR, data, discovery, age and route threads | no path loops; discoveries and waiting end; broken routes are forgotten |
| Radio MAC and its security | `src/wcom_mac.c`, `wcom_mac_sec.c` | transmit queue, tries left, sequence number, replay counters and sessions, replay cache | create, transmit thread, receive handler, radio interrupts | a frame is handed over once and in order; success means heard; every frame is reported; only repetitions are refused |
| Neighbors | `src/wcom_neighbors.c` | neighbors with sessions, provisional list, upstream and depth, join state, channel | beacons, join handshake, eviction, monitor, search | lists and upstream agree; a false upstream ends; the gateway is found |
| IP fragments and floods | `src/wcom_ipv4.c` | transmit queue, streams in reassembly, replay cache | transmit thread, fragment reception, time-outs | a packet is put together from one message; only what was seen is refused; floods end |
| Gateway addresses | `src/gateway_services.c`, `gateway/gateway_server.c`, `bridging.c`, `devicedb.c` | configuration and token of a node; bridge table, leases, device database | request, answer, token broadcast, lease threads, restarts | nodes in session have different addresses and are served in the end |
| DHCP client | `gateway/dhcp.c` | client state, transaction, socket buffer | DISCOVER to ACK, time-outs, two users of one port | an address in use was leased to its user; everybody gets one |
| ARP | `gateway/arp.c`, `gateway.c` | cache with ages, one thread for each waiting packet | request, reply, aging | frames go to hosts; old entries end |
| Bridge | `gateway/gateway.c`, `src/netmsg.c` | copies of a packet on the mesh and on the Ethernet | send, receive from either side | local broadcasts stay; broadcasts end |
| Network time | `src/wcom_time.c`, `gateway/time_source.c` | flags, source, epoch | synchronization thread, beacons, timestamps | every node gets the time of the present gateway |
| Clock | `src/timers.c`, `timers.h`, part of `src/wcom_time.c` | system time, counter | interrupt, elapsed time, waits | elapsed time right across every wrap, within one; a wait right within a period of the timer |
| DNS resolver | `dns/dns.c` | entries, a thread each | query, answer, count-down | names follow the server |
| Configuration | `src/config.c` | EEPROM blocks, index | set, get, clean-up, reset to defaults, upgrade | a value is the old or the new one after any failure; a write erases the old block of its own parameter; there is room to write |
| Key values | `src/keyvalue.c` | file of records, variables in memory, notification queue | set, persist, notify, start in either mode, power failure | persisted values survive; notifications go out in order |
| TFTP server | `src/tftp.c` | threads with socket, file position and block | read and write transfers | files are whole; transfers end |

(Paths of this table without a directory of their own are under `src/src`.)

### How they interact

* **Threads.** All threads are protothreads run by one loop (`threading.c`); code
  between two blocking operations is atomic for the other threads.  Only
  interrupts interleave with it, and they share only a few bytes: `flags`,
  `signals`, the timer, and the receive ring.  So the models of everything above the
  driver take one handler or one pass of a thread as one action, and the
  scheduler's model takes single loads and stores.
* **Memory.** Threads, messages, list nodes and socket buffers live in the
  handle-based heap.  The collector moves blocks between two runs of any
  thread, and every part relies on `mem2_vp_get_ptr` after it.
* **Receive path.** radio interrupt → ring → receive thread → MAC (address
  filter, replay cache) → security → IPv4 (reassembly, forwarding, replay cache) →
  sockets, ICMP, routing, gateway services.
* **Send path.** socket → netmsg queue → IPv4 (direct neighbor, or the waiting list
  until routing has a path, or the gateway) → fragments → MAC queue with CSMA and
  retries → driver.  The MAC reports a failed transmission, which breaks the
  link in the neighbor list and makes IPv4 send a route error.
* **Storage.** The key value system and the configuration write to the EEPROM and
  through `fs.c` to the flash file system; the firmware partition shares the chip
  with the file system and the internal flash with the loader.
* **Reboots.** `boot_data` in memory that a reset preserves carries commands
  from the system to the loader and its status back; a power failure clears
  the command.

### Where it is hard

Interrupts against read-modify-write on `flags`; a collector that moves what
threads point at; power failures between any two flash or EEPROM writes; frames
lost, repeated and reordered, 8-bit identifiers that come again, caches that
forget in a reboot; timeouts against late answers; full queues and failed
allocations at every step; loops that keep a pointer across a call.
The field `hazards` of PROJECT.json lists them with the line where each bites
and the properties that would notice it.

### Parts that are modelled in part, or not at all

| Part | Source | Why |
|---|---|---|
| Key values | `src/keyvalue.c` | the formats of batches, the handlers of applications, the index of the table and reading a value are left out |
| File layer | `src/fs.c` | the operations that `FlashFs`, `FwUpdate`, `Tftp` and `KeyValue` need; handles keep a position, virtual files have no state |
| Network messages | `src/netmsg.c` | `Bridging` has its routes; the bound of the queues is not modelled |
| Command protocol | `src/command2.c` | its socket is `Udpx`; the commands call components that have their own module |
| SNTP client | `gateway/sntp.c` | `TimeSync` takes the source of the network time as given |
| Linked lists | `src/list.c` | sequences in the models |
| Shutdown | `src/power.c` | nothing follows it |
| Packet formats, cryptography, checksums, dates, templates | `src/ip.c`, `udp.c`, `icmp.c`, `crypt.c`, `crc.c`, ... | computations on bytes without state; the models need only that a check tells good data from bad |
| Drivers, logging, statistics, start up, self test | `src/spi.c`, `usart.c`, `gateway/enc28j60.c`, `src/init.c`, ... | hardware registers and straight-line code |

What is left out *within* a modelled part is in section 5, and in the notes of
PROJECT.json.

## 2. Modules

| Module | Models | Uses |
|---|---|---|
| `Memory`, `MemoryProofs` | `memory.c` | |
| `RxRing` | the ring of `at86rf230.c` | |
| `Scheduler`, `SchedulerProofs` | `threading.c` with the interrupt and the receive thread | extends `RxRing`; the proofs are about both |
| `FwUpdate`, `FwUpdateProofs` | loader, firmware partition, system start | |
| `Kernel` | `Memory`, `Scheduler` and `FwUpdate` side by side, with the fairness of each | extends them |
| `RequestReply` | what UDPX promises to a client (abstract) | |
| `Udpx`, `UdpxProofs` | both ends of UDPX over a bad network | refines `RequestReply` |
| `FlashFs`, `FlashFsProofs` | the file system under power failures | |
| `Routing`, `RoutingProofs` | routing and forwarding on a whole mesh | |
| `Link` | what the MAC promises about one neighbor (abstract) | |
| `Mac` | sender, radio, and receiver with security | refines `Link` |
| `Neighbors` | joins, evictions and the tree of upstreams | channels as `Link` has them |
| `Fragments` | fragments, reassembly, replay cache and floods | channels as `Link` has them |
| `Addresses` | requests of nodes, bridge table, leases, database | |
| `Dhcp` | the DHCP clients of the gateway, message by message | what `Addresses` takes as one step |
| `Arp` | the ARP cache and the threads that wait for it | |
| `Bridging` | forwarding between mesh and Ethernet | |
| `TimeSync`, `Clock` | whose time a node has; the numbers | upstreams as `Neighbors` has them |
| `Dns` | the resolver | |
| `Config` | the configuration store under power failures | |
| `Tftp` | the TFTP server between two clients and a file | |
| `KeyValue` | persisted parameters under power failures, notifications | page writes as `FlashFs` has them |
| `Node` | `Clock`, `Config`, `Tftp` and `KeyValue`, what a node keeps by itself: each takes its steps whatever the others do | instantiates each of them |
| `Services` | the thirteen modules from `Mac` to `KeyValue` side by side, with their assumptions and their fairness | extends `Node`, instantiates the others |
| `ServicesProofs` | proofs about `Mac`, `Neighbors` and `Fragments`, and about `Addresses`, `Dhcp`, `Arp` and `Bridging` | extends `Services` |
| `NodeProofs` | proofs about `Clock`, `Config`, `Tftp` and `KeyValue` | extends `Node` |
| other `MC*` | constants for TLC | the module each is named for |

### Memory

The heap is the sequence of its blocks, and a pointer is a position in it; sizes
appear in the counters only.  `Alloc` and `AllocFails` are the two ends of
`mem2_h_alloc`, `Free` is `mem2_v_free` with the slot of the table and the dirty
mark, `Write` is a client that uses the pointer of its handle.  The collector
thread is split at each block it looks at (`GcStart`, `GcSearch`, `GcSkipDirty`,
`GcMove`, `GcDone`).  In the code a collection runs without a yield, so
clients may run only between collections; the finer steps let the properties look
into the middle of one.  `HandleTableSound` is stated for every step: no
moment of a collection has a wrong table entry.  `NoLeakedBlock` and `CountersAgree` are
stated between collections.

### RxRing and Scheduler

`RxRing` is the interrupt (`StoreFrame`, `Overrun`, `NumberAgain`) and the thread (take the batch,
hand over, done) on the ring, with the count that both change.  `Scheduler` is the
program around it: every place where the main program reads or changes `flags`
is a `pc`.  A change of `flags` outside a critical section is two actions, a load
into `copy` and a store, because that is what an AVR makes of `|=` on a volatile
byte; the interrupt (`RxInterrupt`) may come between.  The scan of the thread list
(`Dispatch`, `Skip`), the run of signalled threads, the way a thread returns
(waiting, first yield, later yield) and the flags it leaves are in the
order of the code.  The receive thread is modelled step by step; the others wait
or yield as they like.  The ring's part of each step is an action of `RxRing`, so the
ring's theorems hold of the program (`SchedulerKeepsFrames`).  Frames never stop coming: when
`MaxFrames` were stored and the ring is empty their numbers start over (`NumberAgain`, no step of
the program), so that signals without end can keep the scheduler busy.

### FwUpdate

Control passes from the loader through the start of the system to the running
application; `place` is where, and `page` is the page the current copy or erase loop is
at.  Each flash operation is one action on one page, so that `Crash` (a reset or a
power failure, which differ in whether `command` survives) can come between any
two.  A page holds a version's page, is blank, or is garbage; a CRC is good
when all pages are of one version.  `Upload` writes any page at any time after
`DeleteFirmware`, as a client with the file protocol can.  `RequestLoader` is
`sys_reboot_to_loader`, whose command opens the serial loop as the button does (`SerialBoot`).
Only while `attended` may somebody hold the button, use the serial programmer, change the mode
string, or reset a node by hand.  Without the mode string the loader is in generic mode, where
it starts whatever is in the internal flash (`RunGeneric`; `main.c:252`): a damaged application goes
`"astray"`.  Nobody need be there for that, as the reset of the settings erases the mode string with
all the rest of the EEPROM (`EraseSettings`) and only the next start of the system writes it again.

### Udpx and RequestReply

The client socket goes IDLE → WAIT_ACK → RX_DATA_PENDING or TIMED_OUT; the server
socket holds at most one request.  `SendTo`, `RecvFrom`, `CountDown`, `Retry`,
`RetryWithoutBuffer` and `GiveUp` are the client's side with its retry thread;
`ClientReceives`, `ServerReceives`, `ServerRecvFrom`, `Reply` and `NoReply` the rest.
The network is the set of all messages ever sent, any of which may be
delivered at any time, again, or never.  Failed allocations are chosen by
`FailingAllocs`.  `RequestReply` is what a client may rely on: a request it gave to its socket ends once,
with an answer to a request of this client or with a timeout (`End`), or the node halts while it waits
(`Halt`): when the buffer for a reply could not be allocated, the send buffer is already gone and the
retry asserts (`sockets.c:842`, `1050`).  The refinement maps a client whose node asserted to one that still
waits and has halted, not to one whose request ended.

### FlashFs

File operations do not yield, so an operation is one action unless the power
fails in it.  Each operation is a *journal*: the sequence of the states of flash
and RAM it goes through, one for each flash state a mount can tell from the
others.  The action takes the last state; `PowerFails` takes any and
leaves only the flash.  `Mounted` is the whole mount: unclean blocks,
scan, duplicates, the ordering of each file's list, sizes, and what is thrown
away.  `allowed` is a history variable with the contents that each file may have;
an interrupted write of a file allows its loss, never a mixture.

### Routing

One module holds the whole mesh: each node's routes, discoveries, replay cache,
neighbor list and waiting packets, and the set of frames in the air.  `Receive` has one
disjunct for each of request, reply, error and data packet; `RouteThread`, `DiscoveryThread`
and `AgeThread` are one pass of the thread of that name, with all it
sends.  Faults are a lost frame, a neighbor that leaves or returns to a list, the
routing switch, a reboot and a discovery pass that cannot queue
all its requests.

### Link and Mac

`Mac` is one sender and one receiver.  The sender's thread is `TakeMsg`,
`Transmit`, `TryAgain` and `Finish`, one action for each stretch between two waits;
`TxEnd` is the transmitter, which repeats a frame on its own, and `Arrive` the
receiver's radio, which may hear each repetition or none.  `RxHandler`
is `wcom_mac_v_rx_handler` as a whole: filter, replay cache, security, hand-over.  `Reboot` gives the
sender a new session and a counter of one; `Forget` drops the sender from the
receiver's list; `Noise` is a frame of a third node that goes through the
replay cache and pushes an entry out.  Sequence numbers wrap, and so does the number of
tries left.  `Link` is what this amounts to: frames are created, heard, handed over in
order and at most once, and reported.  `ImplementsLink` is the refinement; the histories
`sent`, `heard`, `delivered` and `report` are its variables.

### Neighbors

Each node has its lists, upstream, depth, join state and beacon thread; messages
travel in a channel for each pair.  `Receive` is the handler of every message
(beacon, join beacon, flash, thunder, evict), with the changes of lists and
upstream that it makes; `BeaconSender`, `JoinTimeout`, `NeighborMonitor` and `ChannelReset` are
the threads.  Time goes in rounds: `NextRound` comes when every node has sent its
beacon and its channels are empty.  A `Hitch` is a lost message, a
beacon heard too weakly, a join that times out too early, an eviction, a restart, or a node
that is switched off.

### Fragments

A packet is a sequence of fragments, and what a station puts together is
recorded as the sequence of the messages the fragments come from, so that a mixture
would show.  Tags are numbers modulo `TagSpace` (`next_tag` is a byte) and start at zero again in a
reboot, so a new message may have the tag of an old one; the history `seen` knows messages by more than
their tags.  `SendPacket` queues, `TxThread` sends one fragment that each station in reach
takes (`received_fragment`, reassembly, replay cache, verification, hand-over,
forwarding in one action, as one handler does it), `TimeoutThread` is a
tick of the time-outs of streams and cache.  A `Mishap` is a fragment that somebody does not
hear, a send that fails, a signed frame that overtakes the queue, or a reboot.

### Addresses, Dhcp, Arp and Bridging

`Addresses` is the protocol between the nodes and the gateway: `ClientThread` asks,
`OnRequest` is the server's handler with the table and the database it
changes, `ReceiverThread` is what a node does with an answer or a token, and `DhcpThreads`
are the two lease threads, with the wait between the look at an entry and the write to it.
In it a DHCP transaction is one step; `Dhcp` looks inside, with both users of
the one client port, the buffer of the socket, and late and repeated replies.
`Arp` has the cache and a thread for each waiting packet (`Send`, `Ask`, `Answered`,
`TimedOut`, `Transmit`).  `Bridging` follows the copies of one packet between two media and
several gateways; `Copies` says who takes a packet from a medium, `Lives` and
`LanTtl` are the treatment of the time to live.

### TimeSync and Clock

`TimeSync` leaves the numbers out and asks whose time a node has: `TimeSourceThread`
is the gateway, `SyncThread` a node's thread between two waits, `Beacon` says
whether a node has the time, `Deliver` hands over a request or a timestamp; an
`Upset` is a lost or late message, a restart, or another tree of upstreams.
`Clock` has only the numbers: the counter, the interrupt that takes its period
off, and times of `WordSize` that wrap.  Elapsed times are read from the system time and the counter
(`NowMs`); the end of a wait is computed and compared with the system time alone (`armed`, `Waits`), which
moves a period at a time.

### Dns, Config, Tftp and KeyValue

`Dns` has an entry and a thread for each name, and a server whose answers hold for a
while.  `Config` has the EEPROM as blocks; `WriteBlock`, `CheckBlock`, `Erase` and `Start` are the
stretches of `write_param`, of the reset to defaults and of the start
between two failures that differ, and `PowerFailure` leaves only the EEPROM.
The history `allowed` says what each block may be read as, and `stale` that the EEPROM was erased since the start while
the index was not.  Every firmware has a version of its own, so each upgrade resets to defaults, and may give a parameter
another type.  `Tftp` has the file as a
sequence of units, the threads of the server, and two clients as RFC 1350 describes them
(they are not in the repository): one uploads, one downloads, at the same time.

`KeyValue` has the file `kv_data` as a sequence of cells: a header is one cell, a value some, and only
the place of a cell tells which it is.  `PersistSet` is the search, the header and the padded value;
`Set`, `Persist`, `Change` and `Notify` are what users do, `NotificationThread` sends the oldest
notification, `Start` restores the values, or not in safe mode.  `Interrupted` says what the
two writes may leave in the file when the power fails between any two pages; within a page it costs the
file (`FileIsLost`).  The history `saved`
says what each parameter may be after a restart, and `hurt` has the parameters that an incomplete record harms: its own, and those added behind it.

`map` in PROJECT.json says which lines every definition stands for.

## 3. Runs

Each property of a configuration is a conjunction of named parts that its module
states and explains one by one; the type invariant of a module is always among them.

| Run | Configuration | Instance | Distinct question |
|---|---|---|---|
| `kernel` | `MCKernel.cfg` | three parts: a heap of 7 bytes with 3 handles, overhead 1, threshold 3, sizes 1 and 2, two contents; a ring of 2 and 3 threads, the receiver second, one thread starting with a yield, frames for ever; a firmware of 2 pages in 2 versions, 2 resets or power failures, with or without somebody to attend | Is every handle right at every step of a collection, what survives although the interrupt can hit the middle of a change of `flags`, and can a node be left without firmware, run half of one, or stay down? |
| `scheduler_lost_signal` | `MCSchedulerLostSignal.cfg` | the scheduler alone, as in `kernel` | Does every stored frame reach the MAC? (no) |
| `fw_programmer` | `MCFwProgrammer.cfg` | 1 crash | Does erasing the EEPROM restart the loader? (no) |
| `udpx` | `MCUdpx.cfg` | 2 clients, 2 requests each, one identifier drawn every time, 3 tries, both allocations may fail | Do requests end, buffers match states and the server serve again? |
| `udpx_wrong_answer` | `MCUdpxWrongAnswer.cfg` | 1 client, 2 fresh identifiers, no failed allocation | Does an accepted answer belong to its request? (no) |
| `flash_fs` | `MCFlashFs.cfg` | 4 blocks, 2 files, 2 data pages on 3 physical ones, 3 pages per file, 2 power failures | Do files survive, and is every block accounted for? |
| `flash_fs_replace` | `MCFlashFsReplace.cfg` | one failure, also between lines 560 and 511 of `ffs_page.c` | Does a mount find all good blocks after that failure? (no) |
| `routing` | `MCRouting.cfg` | 4 nodes, a cheap path of three links and a costly one of two, one fault, one packet and a second one while the first is looking for its route | Are all paths real and loop-free, costs right, and does every wait end? |
| `routing_age` | `MCRoutingAge.cfg` | the same without faults, one packet | Do unused routes expire? (no) |
| `services` | `MCServices.cfg` | thirteen parts, see *The bounds* | Do the link, the neighbors, fragments, addresses, time, names, settings, transfers and persisted values keep what they promise, and do they recover? |

| `config` | `MCConfig.cfg` | 3 parameters on 5 blocks, 2 firmwares, one set or reset, no failure | Does a write erase the old block of what it writes? (no) |
| `keyvalue` | `MCKeyValue.cfg` | 2 parameters, one that fills its record, one call, one power failure | Is the file a number of whole records? (no) |

In `kernel` the variable `part`, and in `services` the variable `focus` says which part a behavior is of; the others rest.
The parts share no state, so these are unions of three and of thirteen state spaces, not products.  Each
liveness property carries the fairness of its part as its premise (`HeapIsReclaimed`, `NoThreadStarves` and
`NodeComesBack` are `DirtySpaceReclaimed`, `ThreadsKeepRunning` and `ComesBack` with theirs).

### Properties and what could break them

* `HeapSound` (kernel) is `HandleTableSound` (a collection that moves a block and leaves a table
  entry, or two, behind), `NoLeakedBlock` and `SpacePartitioned`; with `CountersAgree`:
  sequences of allocations, releases and collections after which the
  accounting and the heap disagree.  `HeapIsReclaimed`: the collector is due and never runs.
* `RingSound` (kernel) is `FramesInOrder` and `NothingForgotten`, of the program with its scheduler:
  the count is reset before the slots are emptied while the interrupt
  goes on.  `WorkIsRemembered` is `YieldKeepsAwake` (sleep between a yield and its next run) and
  `SignalPending` (the thread clears its signal after a frame that it has not seen).
  `NoThreadStarves`: signals without end, and signalled threads that go first, keep the others from
  running.  Its premise `ReceiverReturns` is that the receive thread does not find a new signal at the end of every
  batch; if it does it never yields, and nothing else runs, which the code does not prevent.
* `Bootable`, `FirmwareSound` (`RunsGoodFirmware`, `NewFirmwareIsUploaded`),
  `FormatOnlyWhenAsked`, `NodeComesBack` (kernel): resets at any page, with an old
  command or mode left in `boot_data`.  `RunsGoodFirmware` has two halves: what was checked and runs stays whole; and an
  unattended node, which may well meet generic mode after a reset of its settings, never starts a damaged
  application there, although the loader does not look.
* `SocketsSound` (`BufferMatchesState`), `KeepsPromise`, `RequestsEnd`,
  `ServerAcceptsAgain` (udpx): late, repeated and reordered messages against
  timeouts.  `KeepsPromise` and `RequestsEnd` are the safety and the liveness of `RequestReply` under the mapping of
  `Udpx`; that a node asserts for want of memory is not kept from happening, but told apart from a request that ended.
* `FilesSurvive`, `VolumeSound` (`FreeBlocksErased`, `BlocksPartitioned`,
  `ListsMatchFlash`), `OldestFirst` (flash_fs): power failures in operations, in erasures,
  in mounts that repair an earlier failure.  `OldestFirst` says that
  the collector takes the oldest dirty block and nobody else takes one; that the collector gets through is a liveness
  property, which is too large to check with this state space.
* `HopListsSound`, `RequestsSound` (`RequestsFormTree`, and `CostsAddUp`: a route costs what its
  links cost), `DiscoveriesEnd`,
  `WaitingEnds`, `BrokenRouteForgotten` (routing): copies of a request that meet,
  replies along paths that changed, errors that have to find their way back, a packet that is put back in front of
  another one which waits behind it.
* `ImplementsLink`, `MacSound` (`RefusesOnlyRepeats`, `TriesBounded`),
  `EveryFrameReported` (services): what the radio repeats against a cache of one
  entry, wrapping sequence numbers, and reboots.
* `NeighborsSound` (`UpstreamIsNeighbor`), `TreeHeals` (`FalseUpstreamsEnd`, `AllFindGateway`):
  joins and evictions cross; two nodes below a lost gateway take each other for the way to it.
* `FragmentsSound` (`HandedWhole`, `RefusesOnlySeen`): fragments of two messages
  with the same tag come in turn over one neighbor.  `RefusesOnlySeen` says what the replay cache may refuse: a message
  that the station has seen, or one whose tag it has seen in the round of tags before (`CameRound`), or one without
  an address, which looks like an unused entry.
* `AddressingSound` is `AddressesDiffer` of `Addresses` and `AddressesAreLeased` of `Dhcp`;
  `NodesAreServed`, `AllGetLeases`: answers that everybody hears, late replies of earlier
  transactions, tables that a restart empties.
* `ForwardingSound` is `FramesFindHosts` of `Arp` and `LocalBroadcastsStay` of `Bridging`;
  `StaleEntriesEnd`: an old entry in front of a newer one, or one that a reply replaces while a
  thread waits for it.  `TrafficEnds` says of `Fragments` and of `Bridging` that no broadcast goes
  round for ever, with caches that forget and a time to live that is not always counted down.
* `AllGetTheTime`, `ClockSound` (`ElapsedWithinOne`, `TimeoutsInTime`, `NtpNeverGoesBack`):
  trees with cycles, gateways that restart; late interrupts, wraps of either clock.  A wait may be wrong by
  a period of the timer and the delay of its interrupt, at either end, and no more.
* `NamesFollow`: answers of an old address, late or lost, and entries nobody asks for again.
* `StorageSound` is `SettingsSurvive` and `RoomToWrite` of `Config`, `UploadSound` and
  `DownloadSound` of `Tftp`, and `RecordsWhole`, `ValuesSurvive` and `NotificationsInOrder` of `KeyValue`
  (a record is found, written and padded so that no other is touched).  Two disagreements have runs of their own, and
  `StorageSound` says how far their harm goes: after a reset or an upgrade on an old index, the parameters with an old
  entry until the next start (`Misled`), and the blocks to which such an entry leads a write (`AfterErasing`); behind an incomplete
  record, its parameter and those that are added (`hurt`), never a third one.  `TransfersEnd`: power failures between any two writes;
  repeated requests and acknowledgments, clients and server that give up at different times.

Deadlock is checked except in the runs of four modules in which the system may come
to rest.  In `udpx` the clients have no more requests; in `flash_fs` nobody
uses the files after the last power failure, or the mount never ends (which `NoMissingBlocks` is about); in
`routing` and `routing_age` the packets were delivered or dropped; in `services` the
frames, packets, transfers or leases of the part are done.

### The bounds and why they are enough

* *Memory.*  Seven bytes hold three blocks of the smaller size, or fewer and a hole in any
  position; three handles give first, middle and last block, so that a collection
  skips, moves past and moves over.  The threshold lies between a small dirty block and a large one, so
  the collector is idle, due, and due with nothing to move.  The proofs remove all of these bounds.
* *Scheduler.*  With a ring of two, five frames fill it and wrap it twice before their numbers start over.  Three threads
  give one before the receiver, itself, and one after it.  The ring's theorems
  hold for every size.
* *Firmware.*  Two pages give a half-written copy; two versions give mixtures; a
  second failure hits the recovery from the first.  The proofs remove these bounds for the safety properties.
* *UDPX.*  The identifier that is drawn twice is the hard case of eight random
  bits; three tries give a retry, with a longer timer, before the request times out.  Two clients compete for the one buffer of the server.
* *Flash.*  Four blocks let two files grow to two blocks, or one file be copied
  with one block dirty and one free; three physical pages for two data pages make a
  block full at once.  One power failure interrupts an operation and the second interrupts
  the repair.  The proofs remove all of these bounds.
* *Routing.*  The four nodes are the smallest network with two paths of
  different length whose cheap one is the longer, so that the first reply is not the
  best; one fault of each kind at any time.  `MaxBehind` lets a second packet be given to the node
  while the first one waits for its route (with a route there is nothing to wait for), which is then put back in front of it.  `MaxFlood` says that a
  discovery thread runs again only when its earlier requests have left the air, as
  one second between tries gives them time to.  The proof of
  `HopListsSound` removes all of these bounds.

* *Services.*
  - `Mac`: three frames that ask for an acknowledgment, or do not; a cache of one entry, which any
    other frame pushes out; eight sequence numbers; two tries, a try counter of three
    values so that it wraps, a ring of one, one reboot, loss of the neighbor or frame of another node.
  - `Neighbors`: a gateway with room for one of two nodes, so that a tree of
    depth two must form, one provisional entry, and one hitch at any time.
  - `Fragments`: three stations in a row; one end floods two messages of two fragments.  There is one tag
    (`TagSpace` is 1), so that the second message has the tag of the first, whose second fragment may be
    missing still, and whose cache entries may be there still or have expired; one mishap.
  - `Addresses`: a node with a manual address and one without; one disruption.  `Dhcp`: both users
    of the port; one renewal, one lost, late or repeated message.
  - `Arp`: two packets and two hosts on two entries; one host is replaced, one reply is lost.
    `Bridging`: two gateways on the same media, every kind of packet, a time to live of four.
  - `TimeSync`: two nodes, and trees in a row, in a fan, and with a cycle; two upsets.  `Clock`: a word of sixteen
    milliseconds with an interrupt every two that is up to three counts late, so that
    every relation of counter, interrupt and wrap occurs, and half the range is longer than the error of a wait.
  - `Dns`: one name, two attempts, answers that hold for ever or for two ticks, one move, two
    failures.  `Config`: three parameters, one of two blocks which has another type in the second firmware, one known to the first
    firmware only, on five blocks, one of which is free for writing; two sets or resets, two failures, and the upgrade.
  - `Tftp`: an upload of two blocks, the second empty, over a longer file that is
    downloaded at the same time, and an upload that deletes; one message lost
    or repeated, or one timer that ends too early or allocation that fails.
  - `KeyValue`: three parameters, a value of two cells and two of one, on pages of two cells, so that
    records lie on a page and across two, in any order, and there is a third record for an incomplete one to harm; two calls, two power failures, a queue of two.

  The theorems of section 4 remove these bounds for the safety properties.

### Fairness

* *Memory:* `WF(Gc)`.  The scheduler runs the collector on every pass.  Clients are free to stop.
* *Scheduler:* `WF(Main)` and `WF(TimerTick)`.  The processor executes, and the timer
  interrupt wakes it up.  Nothing is assumed of the radio, except in `NoThreadStarves` that it does not bring a frame
  during every batch (`ReceiverReturns`).
* *Firmware:* `WF(System)`: the processor executes.  Crashes are bounded, clients and those who attend the node free.
* *UDPX:* the scheduler runs each client thread, the retry thread and the server thread.
  Of the network nothing is assumed.
* *Routing:* the scheduler runs the route, discovery and age threads of each node
  with packets of its own, and a frame that is not lost arrives.  Faults are not fair.
* *FlashFs* states no liveness.
* *Services* (the operators `...Fair` of `Services`):
  - `Mac`: the transmit thread runs, and the transmitter ends what it sends.
  - `Neighbors`: `Progress`, that is threads run and channels deliver; which of them comes next is not said.
  - `Fragments`: the transmit threads.  `Bridging`: copies are passed on.
  - `Addresses`: each kind of thread, and delivery.  `Dhcp`: the client threads; a message that is not
    lost arrives.
  - `Arp`: each packet's thread weakly; the aging thread strongly, because in the model it waits
    while a thread has its answer and has not run yet, which real ticks are long enough for.
  - `TimeSync`: the threads and beacons of each node, and messages about it arrive.
  - `Dns`: somebody asks for the name, its thread and the count-down run, messages arrive.
  - `Tftp`: the threads run, clients send again or give up, messages arrive.

  Faults are bounded, and never fair.

### What the code does not keep

1. `scheduler_lost_signal`: `threading.c:351` and its like change `flags` with a load
   and a store outside a critical section.  The radio interrupt in between
   has its `FLAGS_SIGNAL` overwritten, and the frame it stored stays in the ring until
   the next one comes.  "process all received buffers" (`at86rf230.c:634`) does not hold.
2. `fw_programmer`: `loader/main.c:155` compares a copy of the mode string made
   before the serial loop, so "check if we erased the eeprom to change the boot mode,
   if so, restart the loader" (`main.c:152-153`) never happens.
3. `udpx_wrong_answer`: `sockets.c:876` stores the identifier of a request before it
   looks whether the request is to be thrown away.  The answer to the request
   the server still holds goes out under the new identifier, and its client takes it
   for the answer to the new one.
4. `flash_fs_replace`: after a power failure between the meta data of a block's
   copy and the mark on the old block, the mount compares the sequence number of the
   scanned block with itself (`ffs_page.c:135`), and marking a duplicate dirty cuts the list
   (`ffs_page.c:149`, `158`).  Blocks of the file are dropped, or the mount never ends.
5. `routing_age`: the age of a route stops at the maximum (`routing2.c:1498`), so
   the branch that removes older ones is dead.
6. `config`: `config.c:727-735` erases the whole EEPROM and leaves `cfg_index`, with which the search of `write_param`
   begins, as it is.  The block that is then erased as "old block (if it exists)" (`config.c:422`) is that of another parameter, or the
   one that was just written and checked, and a setting is lost.
7. `keyvalue`: the header and the value of a new record are two writes (`keyvalue.c:251`, `270`).  A power failure between them leaves a
   file in which "the file always has an even number of full blocks" (`keyvalue.c:261`) is not so; nothing repairs it, and
   records that are added behind it are not found, while their headers are taken for values.

### What else came up

No run is about these; they were met when the code was translated, and the models have
the behaviour that the code has.

* `wcom_mac.h:24-27` says that the entries of the replay cache are gone before a source repeats a
  sequence number; they leave only when other frames come, so a quiet network does not keep that.
  `wcom_mac.c:870` decrements a number of tries that was set only for frames with
  acknowledgment, and wraps.  `wcom_mac.c:838` reads a status that may say that the radio is receiving:
  a delivered frame is sent again or reported as failed.
* `wcom_neighbors.c:1058` tests the pointer of `add_neighbor` for negative values, and
  writes through a null pointer when the list is full.  False upstreams end only
  by counting up to the depth limit (line 1309).
* `wcom_ipv4.c:591`: an unused replay cache entry looks like a message of a node without
  address.  Streams are told apart by neighbor and tag (line 717), so that
  only the signature keeps two messages apart; the bound of the queue is not looked at when forwarding (line 971).
* `routing2.c:1510` checks a route after it was released.
* `gateway/bridging.c:303` writes a lease to an entry that may have become manual while the thread
  waited; nobody tells a node that its renewed lease has another address; entries of the
  table are never freed.
* `gateway/dhcp.c:143`: two clients at once end in the assertion of `sockets.c:245`, and the gateway restarts.
* `gateway/gateway.c:183` sends to an uninitialised Ethernet address when ARP failed.
  The comment of `gateway.c:223` says that netmsg queues the packet again; `netmsg.c:228` releases it.
* `sntp.c:141` returns `0xD0000000` before the first answer, and `wcom_time.c:305` takes it
  for a time; `sntp.c:209` has `2^32`, which is an exclusive or.
* `config.c:408-419` tries the same worn block for ever.
  A reset to defaults that the power interrupts leaves parameters at zero.
* `loader/main.c:252` starts what is in the internal flash without a check in generic mode, which a node is in after every
  reset of its settings (`config.c:728-735`) until its system starts again.  That this harms nobody (`FirmwareSound`) rests on who
  writes the internal flash: only the loader in Sapphire mode, which has checked it.
* `sockets.c:842`, `1050`: a client that had no memory for a reply asserts at its next retry, and its node restarts.
* `threading.c`: a receive thread that finds a new frame at the end of every batch keeps the processor for itself; only the
  watchdog ends that.
* `timers.h:46-48`, `timers.c:143-161`: waits are computed and compared without the counter, so they may end a period and the delay
  of the interrupt too early or too late.
* `wcom_ipv4.c:528`: tags start at zero in every reboot and come round after 256 messages, so a new message may be refused
  as one that was seen before (`CameRound`).
* `dns.c:253`: an entry whose attempts all failed stays RESOLVING for good (`NamesFollow` says that this is
  the only exception).
* `tftp.c:348` opens a file without cutting it: a shorter upload leaves the end of the old file.
  `tftp.c:247` keeps -1 (the file was deleted) as 65535 bytes.  After an upload
  that deletes the file a late repetition of its request creates it again, empty.
* `keyvalue.c`: a value across two pages may be half old, half new.  A power failure in any write may cost all
  the values, because the mount deletes a file with a bad page (`ffs_page.c:200-207`).
  `keyvalue.c:325` does not look whether the value was persisted.  A value set with too short a length is padded with
  zeros in the file, while the variable keeps its old end.
  `keyvalue.c:377-391` goes back by the size of a header and reads the value from there.
* `flash_fs.c:141`: a file whose creation was cut short keeps its identifier.

## 4. Proofs

`*Proofs.tla` hold for every value of the constants that satisfies the assumption of the module they
extend, which TLC evaluates in the runs: `MemoryAssumption`, `RingAssumption`, `SchedulerAssumption`,
`FwAssumption`, `FlashFsAssumption`, `RoutingAssumption`, `UdpxAssumption`, `NodeAssumption` and `ServicesAssumption`,
of which the last two have one part for each module.  Most of these only say that sizes and bounds are natural numbers.  The others are what a
node has to be set up with:

* `AddressesAssumption`: manual addresses differ, and the DHCP server gives none of them.
* `BridgingAssumption`: the time to live of a packet is at least two.
* `ClockAssumption`: the timer counts whole milliseconds between two interrupts.
* `MacAssumption`: the soft tries fit in their counter (`tries` is a byte).
* `NeighborsAssumption`: the node set is finite and the upstream of a node that has none is not a node.
* `FragmentsAssumption`: packets have fragments, caches have entries, and there is a tag.
* `ConfigAssumption`: a version of the firmware knows the parameters that it gives defaults for, and has a block
  less than the EEPROM (`CFG_TOTAL_BLOCKS`).
* `TftpAssumption`: clients repeat their last message at least as often as the bound on setbacks lets messages be lost
  (with more losses a client gives up, and `UploadSound` and `DownloadSound` do not promise that it does not), sockets are
  not numbered 0, the port of the server, and an uploaded file has not the mark by which the model knows that there is no file.
* `KeyValueAssumption`: a value fits in its record.
* `FlashFsAssumption`: a block has spare pages (`FFS_SPARE_PAGES_PER_BLOCK`), a file has room for more than its meta data,
  and nothing that is written is the mark by which the model knows a page with a wrong checksum.  The theorems of `FlashFsProofs`
  have the hypothesis `~ReplaceWindow` besides: with a power failure between lines 560 and 511 of `ffs_page.c` they are
  not true (item 4 of *What the code does not keep*).

| Theorem | Property | Inductive invariant |
|---|---|---|
| `HeapIsSound` (`TypeCorrect`, `HandlesAreSound`, `NothingLeaks`, `SpaceIsPartitioned`) | `HeapSound` | `MemInv`; the partition of the space with the types |
| `CountersAgreeAlways` | `CountersAgree` | `CountInv` with `MemInv` |
| `RingIsSound` (`RingDeliversInOrder`, `RingForgetsNothing`) | `RingSound` | `RingInv` with `RingTypeOK` |
| `SchedulerKeepsFrames` | `RingSound` of the whole program | types and `RingInv` |
| `WorkIsNotForgotten` | `WorkIsRemembered` | `SchedInv` |
| `NodeIsBootable`, `FirmwareIsSound` (`FirmwareThatRunsIsGood`, `NewFirmwareIsWhole`) | `Bootable`, `FirmwareSound` | `FwInv` with `GenericIsWhole` and `FwTypeOK` |
| `NobodyFormatsUnasked` | `FormatOnlyWhenAsked` | `FormatInv` with `FwTypeOK` |
| `RoutingTypeCorrect`, `RoutesAreLoopFree` | `TypeOK`, `HopListsSound` | `RoutingInv` |
| `RouteCostsAddUp` | `CostsAddUp`, a part of `RequestsSound` | `CostsInv` with `RoutingInv` |
| `RequestsAreSound` | `RequestsSound`, as long as `CachesHold` | `RequestsInv` with the two above |
| `SocketsAreSound` | `SocketsSound` | `UdpxInv` |
| `PromiseIsKept`, `OnlyMemoryLetsNodesAssert` | `KeepsPromise` (a refinement) | `RequestInv` with `UdpxInv` |
| `MacLosesNothing`, `MacIsLink` | `MacSound`, `ImplementsLink` (a refinement) | `MacInv` |
| `NeighborsAreSound` | `NeighborsSound` | `NeighborsInv` |
| `FragmentsAreSound` | `FragmentsSound` | `FragmentsInv` |
| `AddressesDifferAndAreLeased` | `AddressingSound` | `AddressesInv` for the nodes, `DhcpInv` for the gateway |
| `FramesGoWhereTheyShould` | `ForwardingSound` | `ArpInv` and `BridgingInv` |
| `FilesSurviveAlways`, `VolumeSoundAlways` | `FilesSurvive`, `VolumeSound` | `FsInv` (`FsInvariant`) |
| `OldestFirstAlways` | `OldestFirst` (an action property) | `FsInv` |
| `ClockIsRight` | `ClockSound`, with its action property `NtpNeverGoesBack` | `ClockInv` |
| `SettingsAreKept` | `Config`'s part of `StorageSound` | `ConfigInv` |
| `KeyValuesAreKept` | `KeyValue`'s part of `StorageSound` | `KeyValueInv` |
| `TransfersAreWhole` | `Tftp`'s part of `StorageSound` | `TftpInv` |
| `StorageIsSound` | `StorageSound` | the three above |

* **Memory.**  `HandleTableSound` does not say what lies between the two pointers of
  a collection, so a move could overwrite a live block.  `GcInv` adds that the
  positions from `dirty` up to `clean` belong to nobody, that the write pointer never
  overtakes the read pointer, and that every other clean block is the one its own handle leads to.
  The lemmas go action by action; `GcMoveInv` is the one with content.  `CountersAgree` compares the counters with
  numbers of blocks and handles between collections; `CountInv` carries it through one, in which the blocks
  behind the read pointer and those before the write pointer are counted and what lies between is not.
* **Ring.**  The count and the slots are cleared at different times, so neither
  alone says what waits.  `RingInv` says where each frame lies: from the oldest slot on, in
  order, as many as are counted in the count and in the batch together, the rest empty and
  beginning at the insert index.  The hard step is the interrupt that stores into a
  ring whose count was already reset: `slots[rxIns] = Empty` is what keeps it safe.
* **Scheduler.**  The ring's invariant holds of the whole program (`SchedulerKeepsFrames`), as the ring is touched by its own
  actions only.  `WorkIsRemembered` speaks of the moment of sleep only, when the pass over the
  list is long over.  `SchedInv` carries it there: while the sleep flag stands, or stands in a copy
  that is going to be stored, no thread that the pass left behind (`PassedOver`) has a yield pending; a
  thread that yields clears the flag before the pass goes on; the receive thread is the only
  one that the pass leaves out for a signal, and it never yields.  The signal of a waiting frame is
  cleared only just before the batch is taken (`SignalInv`).
* **Firmware.**  `Bootable` does not say which copy is whole while the other is
  written.  `FwInv` does: the loader writes the internal copy only after it
  found the partition good, the system writes the partition only while it runs from
  a good internal copy, and during a copy all pages below the current one agree.  In generic mode, in which the loader looks at
  nothing, the internal copy is good because the mode string is erased only by a system that runs, from a copy that was checked, and the
  loader does not write the copy before it has read the string again (`GenericIsWhole`).
  `FormatInv` adds that a mode FORMAT that survived a reset was asked for, and that the mode is set
  back before the format begins.
* **Files.**  `FilesSurvive` speaks of a mounted volume only, and everything it speaks of is in RAM, where a power
  failure leaves nothing.  So what a file may hold has to be read off the flash: `Off` says that the good blocks of a file are
  its first ones, with as many pages as a file of some size has (`Shape`), and that what they hold is allowed if they are all readable
  (`Whole`), or that it may be gone; a file whose head is gone is gone.  `FsInv` says this of an unmounted volume, and of a mounted one that it is
  `Good`: free, dirty and good blocks are those on the lists, and each file's list and size are those of its blocks.
  The proof has three parts.  Every operation is a `Journal`: in each of its states the flash has of its file the old contents, the new ones or
  none, and of the others what they had, and its last state is `Good` (`DeletingJournal`, `WriteJournal`, `CreateJournal`, `ReplaceGood`,
  `EraseJournal`, put together by `JournalThen`).  A mount makes a `Good` volume of any flash that has `Off` of all its files, also
  of one in which a mount was cut short (`MountedGood`): the hard lemmas are that the scan finds the size of a whole file and no other (`ScanSizeIs`)
  and that a file which is half deleted or half written goes as a whole (`MountFileTurn`).
  And a step of the system takes an `Off` or a `Good` volume to one of the two (`PowerFailsInv`, `CompletesInv`).  `OldestFirst` follows from
  `Kept`, that a step leaves every dirty block dirty except the first on the list.
* **Routing.**  `HopListsSound` needs to know that a request on its way to a
  node is on its way over a radio link, and that the lists have their type.
  `RoutingInv` adds both.  `PathGrows` (a node that is not on a simple path may be appended to it)
  carries the request, `ReplyIsRoute` (a reply that arrived at its first hop is a
  route for that node) the reply, and `ErrorIndexIs` the bounds of the index of an error.
  Costs: a reply on its way has the cost of the links from its hop on (`CostsInv`), and a route that of them all.
  Requests form a tree because each node on the path of a request has its tag in the replay cache (`Known`); the
  premise `CachesHold` of `RequestsAreSound`, that no cache ever had to forget a request, is what that needs, and
  without it the property is not true: a node whose cache overflows passes a request on again.
* **UDPX.**  The buffer and the state of a socket change in three places, the two handlers and the retry
  thread, and a failed allocation leaves a state without its buffer.  `UdpxInv`
  says for which states that may be, and that a client that waits has at least one try left;
  without it the last try could leave a negative timer (`TimeoutIsBounded`).
  For the promise, `RequestInv` says whose requests the messages on the way, the buffers and the results belong to, so that an answer is
  one to a request of the client that takes it, if not always to the last one.
* **MAC.**  A link hands over in order, but the receiver has only a counter to go by.  `MacInv` puts the
  frames in a line: those in the receiver's ring, the one on the air, those in the queue
  (`Before`, `Upto`).  Along the line numbers grow, and counters grow within a session.  What was handed
  over is not later than any frame of the line, so for a frame of the session that
  the receiver knows, a counter that is not higher means exactly that the frame was handed over (`Current`);
  frames in the queue are new to the receiver (`Unseen`).  The lemma `Taken` is the step: taking the first
  frame of the ring keeps this for all the others.  `TriesInv` says that every transmission used up a try,
  except the first one of a broadcast, which may begin with none.
* **Neighbors.**  `Agree` ties the list, the upstream and the depth of a node together: the upstream is in the
  list and is the only one that is marked, a node without one has no depth, and the provisional list keeps its bound.
  Nothing is said of the nodes at both ends of a channel, since a message may be as old as one likes.
* **Fragments.**  A station may put together only what was signed as one message, and its replay cache, which
  is overwritten in turn, whose entries age and are made young again, has unused entries and entries of messages that the
  station sent or put together since it started.  A message with the tag of such an entry is that one or another one of its origin; of two
  messages of one origin between two of its starts the tags agree only when their numbers are a multiple of `TagSpace` apart,
  which is what `CameRound` says.
* **Addresses.**  `TableInv` and `LeasesInv` say that an entry of the bridge table is one node's and a valid one holds
  the address of its lease; `NodesInv`, that a node that is in session uses its manual address or the one of its
  entry; `MessagesInv`, that an answer on its way with the present token says the same.  That tokens on the way are not
  newer than the gateway's is what makes answers from before a restart harmless.
* **DHCP.**  A late ACK may meet a client of another owner.  `DhcpInv` says that a
  transaction identifier belongs to one owner, in clients and in messages alike, that every ACK
  on its way, in a buffer or in a configured client carries the address that is leased
  to its owner, and that the server takes no lease back.
* **ARP.**  The invariant is in three parts: entries (`CacheInv`), threads
  (`ThreadInv`) and replies on their way (`LanInv`) have only addresses that their host has or
  had, and a thread with an uninitialised one has no tries left.
* **Bridge.**  `Confined` says why a local broadcast does not come back: as long as it was not on the mesh it
  is anywhere, and on the mesh it has no hop left.
* **Clock.**  The reading is the time that the timer started with plus the milliseconds since, modulo the word
  size; the counter and the time passed agree modulo a millisecond, which an interrupt keeps only because it takes whole
  milliseconds off.  For waits, `armed` and the system time differ by whole periods, and each is behind the time that has really passed by less
  than `Behind`; below half the range the comparison modulo the word size is that of numbers.
* **Configuration.**  `BlocksSane` says that a block in use has a part of a parameter, one that the firmware knows
  while the node is on; `Faithful`, that its value is one that its part may be read as, and that a part without a block may
  be read as zeros; `Once`, that two blocks have the same part only while a new one is checked, or after a power failure until the
  next start; `IndexInv`, that an entry of the index
  leads to the first block of its parameter (`Leads`).  While `stale` an entry of the index may lead anywhere, and the block that is erased with it is taken
  off what its part may be read as (`AfterErasing`); that is all the harm.
  A free block
  is found because the blocks in use are counted by the parts of the parameters that the firmware knows, of which there are fewer
  (`ThereIsRoom`), and the clean-up of the start removes the others.  The proof showed that the history of what a part may be read as was wrong
  for an old block that was worn itself when a new one was rejected (`OldMayBe`), and TLC found the
  behavior with one more set and two more power failures than the run has.
* **Files over TFTP.**  A request may come twice, so two threads may have the file open for one upload, and the client answers
  the first it hears.  `UpInv` and `WriterInv` say that only this thread has taken blocks, that it waits for the block which
  the client sends or for the next, and that the file is the old one with the units before its position taken from the new
  (`IsMix`); once the thread is gone the file is what it is to be, as long as nothing ran out.  `MessagesInv` says the same of
  every message on its way: a block is the one of its number, an acknowledgment is of a block that is in the file.
  The reader's position is the one of its block, and after the block is sent the one behind it, which is what going back
  by the bytes read relies on (`ReaderInv`); what the client of the download has is a prefix of the file as long as nobody changed it, and
  otherwise each unit is at its place in the old file or in the new one (`GotInv`).
  That a transfer does not fail for losses alone is a matter of counting: with something on its way that will
  be answered (`UpLive`, `DownLive`) the client has sent its message again at most as often as messages were lost, and with
  nothing on its way less often (`UpCount`, `DownCount`); so the last repetition is never spent.
* **Node.**  `NodeSpec` lets the four parts of a node step together or one by one.  The lemma `NodeIsPart` says that `Services`, in which
  only the part in `focus` takes steps, is a case of it, so the theorems about `Node` hold there.
* **Key values.**  `FileInv` says that a parameter that is not `hurt` has one record (`Alone`), its header at the places of
  records only (`InPlace`), and a value that the history `saved` allows; as long as nobody is hurt, the cells at all
  those places are headers (`HeadersOnly`).
  A write at such a place leaves all other records as they are (`PartTouchesOneRecord`),
  whatever part of it a power failure lets through; of the record itself a restart reads the old value, the new one, or, when
  a page ends in the value, what the `Straddles` of the history allows (`ParameterIs`).  Behind an incomplete record a new one
  lies at no place that a search reads; its cells and the incomplete one are those of two parameters in `hurt`, and
  everything before them is as it was.
  The queue keeps the times of its notifications in order, none newer than the last one made (`QueueInv`).

### What is only model-checked

* Liveness (`RequestsEnd`, the liveness half of `RequestReply`, among it):
  temporal reasoning under fairness is outside the prover.
* `RequestsFormTree` where a replay cache overflows: it is not true there.
* `TimeSync` and `Dns` promise nothing but liveness.

What a recursive definition computes is not proved either, as an induction theorem takes an operator as a
parameter.  Some proofs need an induction nevertheless, as over the files that a mount has done: the numbers for which a property fails are
collected in a set, and the set has a least member because `<` is well-founded on the naturals
(`LeastMember`, and in the same way `FiniteImage`).

## 5. Abstractions

They are what a reader has to accept in order to believe the results.

* *Memory.*  Sizes are counted, positions are those of blocks, not of bytes.  The header and the canary are `Overhead`.
* *Scheduler.*  One interrupt source besides the timer.  A thread's body is one
  step, except the receiver's.  The thread list does not change.
* *Firmware.*  The CRC recognises mixtures and garbage with certainty.  The flash chip does what
  it is told.  The serial programmer only changes the mode string.  A damaged application that was started in generic mode is
  `"astray"`: nothing is said of what it does, and only somebody who attends the node resets it.
* *UDPX.*  A transmission that fails is a message that never arrives.  Identifiers come from a
  small set.  Fixed server address; ports do not change.
* *FlashFs.*  An interrupted write leaves a page "bad", an interrupted erasure leaves a block
  garbled or bad.  A write call covers one page.  Writes that a mount cannot tell
  apart are one step.  The run `flash_fs` leaves out the one window of the fourth disagreement
  above, so that it can say what holds elsewhere.
* *Routing.*  Link costs are constant.  A broadcast reply is heard only by the node its
  index names.  The gateway and the proxy hook are left out.  Tags of requests are
  unique.  A full transmit queue, and the short time in which a unicast
  frame meets a lost neighbor, are losses.  A reboot takes as long as it takes the neighbors to
  know the node again.
* *Mac.*  One sender and one receiver; times, CCA modes and the back-off are left out, a failed CCA is a
  choice.  *Neighbors.*  All nodes are in reach of each other; link quality is a choice, its
  filters are left out, and the order of the lists too: any entry that qualifies may
  be dropped.  Between two neighbors messages come in order, as `Link` says.
* *Fragments.*  The content of a fragment is the message it comes from; a signature is good when all
  fragments come from one message.  Source routes are in `Routing`.
* *Addresses.*  A DHCP transaction is one step; the device database is written as a whole.
  *Dhcp.*  Transaction identifiers do not repeat; the server keeps its leases and is not in the
  repository.  *Arp.*  An aging tick is longer than a thread with an answer waits for its turn.  *Bridging.*
  Packets do not touch each other, so one is followed at a time.
* *TimeSync.*  No numbers.  *Clock.*  No drift compensation (`wcom_time.c:172`); the interrupt is late by less than its period.
* *Dns.*  Names are resolved one by one.  *Config.*  Security keys, the error log and the IP
  configuration in memory are left out; every firmware has another `CFG_VERSION`, so that each upgrade resets to defaults; a write that is interrupted leaves a block that is not valid, or valid and whole, because
  its identifier is the last byte.
* *Tftp.*  A transfer sees a file and a message box: the file system and the sockets have their own modules.
  One client uploads and one downloads, and a repetition is one of a client's messages.
  *KeyValue.*  A header is one cell, so it is never torn; a write is interrupted between two
  pages, or within one, and then the mount deletes the file (`FileIsLost`, which `FlashFs` shows in detail).  Firmware upgrades do not change types; parameters without a variable are left out.
* *Composition.*  The parts of `services` are checked one by one.  What one takes of
  another (the order of messages of `Link` in `Neighbors` and `Fragments`, upstreams in `TimeSync`, a lease in
  `Addresses`) is what the other's run shows, but no theorem says so.

## 6. What is left

1. The threads and messages of `Scheduler` as blocks of `Memory`: a scheduler that keeps a list
   pointer across a run of a thread, in which the collector may move the node (`threading.c:506`), is in neither model.
2. `KeyValue` on `FlashFs`: that what it takes a failing write to leave is what a mount finds is not shown.
3. `Addresses` with `Dhcp` inside instead of its one step, and `Neighbors` with `TimeSync`.
4. Proofs: the safety properties of `TimeSync` and `Dns` that their liveness rests on.
