SPECIFICATION UdpxFairSpec
CONSTANTS
    Clients = {c1}
    MaxRequests = 2
    MsgIds = {1, 2}
    IdsRepeat = FALSE
    MaxTries = 3
    FirstTimeout = 1
    FailingAllocs = {}
INVARIANTS
    AnswersTheRequest
CHECK_DEADLOCK FALSE
