SPECIFICATION Spec
CONSTANTS
    Calls = {c1, c2, c3}
    Bodyless = {}
    ReusableBody = FALSE
    ReloadWaits = TRUE
SYMMETRY Symmetry
CONSTRAINTS OneAwaited OneStray
INVARIANTS
    NoLeapfrog
    CanceledStaysOut
    SettledTruth
    
PROPERTIES
    NothingLost
    ImplementsDurableQueue
