SPECIFICATION FairSpec
CONSTANTS
    c1 = c1
    Calls = {c1}
    Bodyless = {}
    ReusableBody = FALSE
    ReloadWaits = TRUE
PROPERTIES
    ParkedLeaves
