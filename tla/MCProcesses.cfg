SPECIFICATION ProcSpec
CONSTANTS
    a = a
    p1 = p1
    p2 = p2
    r1 = r1
    r2 = r2
    launch = launch
    None = None
    Remotes = {a}
    Ports = {p1, p2}
    Urls <- AllUrls
    Requests = {r1, r2}
    FailureLimit = 2
    MaxStrays = 1
    Workers = {w1, w2, w3, w4}
    NoWorker = NoWorker
    MaxEdits = 3
    MaxCrashes = 2
    ExitLimit = 2
CHECK_DEADLOCK FALSE
INVARIANTS
    ConnectedTogether
    DisconnectedReaps
    PortAnswers
PROPERTIES
    OpensConnected
    DeadIsNoticed
    EveryChangeTried
