SPECIFICATION Spec
CONSTANTS
    Writes = {w1}
    CallSites <- SwrSites
    Failures = {}
    Pages = {"plain"}
    MaxEntries = 2
    MaxFlights = 2
INVARIANTS
    ReaderFresh
