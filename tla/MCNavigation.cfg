CONSTANTS
    Pages = {home, item}
    Raw = {api}
    Files = {pdf}
    Covered = {home}
    NoPath = NoPath
    Flights = {f1, f2}
    Loads = {l1, l2}
    MaxHistory = 3
SPECIFICATION Spec
INVARIANTS  NoStuckSpinner PagesKnown
SYMMETRY Slots
