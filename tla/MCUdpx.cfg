SPECIFICATION UdpxFairSpec
CONSTANTS
    Clients = {c1, c2}
    MaxRequests = 2
    MsgIds = {1}
    IdsRepeat = TRUE
    MaxTries = 3
    FirstTimeout = 1
    FailingAllocs = {"sendto", "recv_netmsg"}
INVARIANTS
    SocketsSound
PROPERTIES
    KeepsPromise
    RequestsEnd
    ServerAcceptsAgain
CHECK_DEADLOCK FALSE
