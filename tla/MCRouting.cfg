SPECIFICATION Spec
CONSTANTS
    na = na
    nb = nb
    nc = nc
    nd = nd
    Nodes <- MCNodes
    LinkCost <- MCLinkCost
    Flows <- MCFlows
    Fragile <- MCFragile
    Unsteady <- MCUnsteady
    MaxHops = 4
    Tries = 2
    CacheEntries = 8
    MaxAge = 1
    GoodCost = 24
    MaxRoutes = 2
    MaxDiscoveries = 2
    MaxWaiting = 2
    MaxData = 1
    MaxBehind = 1
    MaxFlood = 0
    MaxFaults = 1
INVARIANTS HopListsSound RequestsSound
PROPERTIES DiscoveriesEnd WaitingEnds BrokenRouteForgotten
CHECK_DEADLOCK FALSE
