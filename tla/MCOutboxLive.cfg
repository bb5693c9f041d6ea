SPECIFICATION FairSpec
CONSTANTS
    c1 = c1
    c2 = c2
    Calls = {c1, c2}
    Bodyless = {c2}
    ReusableBody = TRUE
    ReloadWaits = FALSE
PROPERTIES
    ParkedLeaves
