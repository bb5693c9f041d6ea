CONSTANTS
    Urls = {u}
    None = None
    FailureLimit = 2
    MaxStrays = 1
    Entries = {e1, e2}
    NoEntry = NoEntry
    Misses = 2
    Requests = {r1}
    MaxLoads = 1
CHECK_DEADLOCK FALSE
SPECIFICATION Spec
INVARIANTS NeverCrossCancelled
