SPECIFICATION Spec
CONSTANTS
    r1 = r1
    r2 = r2
    Readers = {r1, r2}
    Window <- BareAndWindow
    Retention = 2
    SlowLoad = TRUE
    PromptClose = TRUE
    MaxMessages = 2
    MaxConns = 2
    SubIds = {s1, s2, s3, s4}
    NoSub = NoSub
SYMMETRY Symmetry
INVARIANTS
    CaughtUp
    TransportSound
PROPERTIES
    NeverGoesBack
