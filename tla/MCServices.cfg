SPECIFICATION Spec
CONSTANTS
    Plan <- MCPlan
    QueueSize = 2
    CacheSize = 1
    SeqNumbers = 8
    SoftTries = 2
    TryValues = 3
    HardTries = 1
    RingSize = 1
    MaxFaults = 1
    Nodes = {"g", "a", "b"}
    Gateway = "g"
    Capacity <- MCCapacity
    MaxProv = 1
    MaxDepth = 3
    MaxAge = 2
    MaxAgeNew = 1
    Countdown = 2
    MaxHitches = 1
    Stations = {"a", "b", "c"}
    Address <- MCAddress
    InReach <- MCInReach
    Packets <- MCPackets
    Fragmented = 2
    FirstTtl = 2
    TagSpace = 1
    CacheSlots = 2
    CacheAge = 1
    StreamAge = 1
    MaxMishaps = 1
    Members = {"p", "q"}
    ManualIp <- MCManualIp
    Pool = {"ip1", "ip2"}
    TableSize = 2
    MaxDisruptions = 1
    \* The gateway and one node want a lease.
    Entries = {"e1"}
    ServerPool = {"i1", "i2"}
    MaxRenewals = 1
    MaxLapses = 1
    \* Two packets wait at the same time, for two hosts or the same one.
    LanHosts = {"h1", "h2"}
    TxThreads = {1, 2}
    CacheEntries = 2
    MaxArpAge = 1
    ArpTries = 1
    MaxReplacements = 1
    MaxUnheard = 1
    Gateways = {"g1", "g2"}
    BridgedBy <- MCBridgedBy
    IpPackets <- MCIpPackets
    DefaultTtl = 4
    Timers = {"a", "b"}
    TimeSource = "g"
    Trees <- MCTrees
    Patience = 2
    MaxUpsets = 2
    \* A clock that wraps after sixteen milliseconds, with an interrupt every two.
    WordSize = 16
    Top = 4
    TicksPerMs = 2
    MaxLate = 3
    \* One name, with answers that hold for ever or for two ticks.
    Names = {"ntp"}
    Attempts = 2
    TimesToLive = {0, 2}
    MaxMoves = 1
    MaxDnsFailures = 2
    Length <- MCLength
    KnownTo <- MCKnownTo
    TypeIn <- MCTypeIn
    Defaults <- MCDefaults
    TotalBlocks = 5
    Values = {5}
    MaxSets = 2
    MaxFailures = 2
    Cases <- MCCases
    BlockLength = 2
    Transfers <- MCTransfers
    Resends = 1
    MaxSetbacks = 1
    Width <- MCWidth
    AppParams = {"a"}
    DataLength = 2
    PageLength = 2
    CellValues = {"x"}
    QueueLength = 2
    MaxCalls = 2
    MaxOutages = 2
INVARIANTS
    MacSound
    NeighborsSound
    FragmentsSound
    AddressingSound
    ForwardingSound
    
PROPERTIES
    ClockSound
    ImplementsLink EveryFrameReported
    TreeHeals
    TrafficEnds
    NodesAreServed
    AllGetLeases
    StaleEntriesEnd
    AllGetTheTime
    NamesFollow
    TransfersEnd
CHECK_DEADLOCK FALSE
