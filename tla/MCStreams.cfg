CONSTANTS
    Variants = {v1, v2}
    Failing = {v2}
    Patchers = {b1}
    Droppers = {b2}
    Writes = {w1, w2}
    MaxBuffer = 1
    MaxLosses = 1
    MaxFrames = 3
    MaxBeats = 1
    MaxSlots = 2
    MaxPushes = 4
    Keys = {k1, k2}
    MaxStashes = 2
    MaxOthers = 2
SPECIFICATION Spec
INVARIANTS   ResolvesOnce
PROPERTIES  TokenHonoured PlaceholdersSettle
CHECK_DEADLOCK FALSE
