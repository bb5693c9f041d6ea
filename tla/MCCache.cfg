SPECIFICATION Spec
CONSTANTS
    Writes = {w1}
    Pages = {"plain", "streamed"}
    CallSites <- EitherSites
    Failures = {"plain"}
    MaxEntries = 3
    MaxFlights = 2
VIEW View
INVARIANTS
    BookkeepingSound
    CallsFresh
    WaitAnswered
PROPERTIES
    OwnersKept
