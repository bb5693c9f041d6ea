CONSTANTS
    Urls = {u}
    None = None
    FailureLimit = 2
    MaxStrays = 2
    Entries = {e1, e2}
    NoEntry = NoEntry
    Misses = 2
    Requests = {r1, r2}
    MaxLoads = 2
CHECK_DEADLOCK FALSE
SPECIFICATION Spec
INVARIANTS PollsSound RecordedOnce TimeoutCancels LoadsAccounted
PROPERTIES PollsSettle WaitsEnd
