SPECIFICATION Spec
CONSTANTS
    Keys = {"a", "b", "c"}
    Hash <- MCHash
    NSlots = 4
    Lengths = {1, 2, 3}
    SmallLength = 2
    Cells = 4
    MaxStores = 4
    Workers = {w1}
    Ops = {"store", "batch", "delete", "iter"}
    Resize = "shrink"
    Handles = {1}
    Uninitialised = {1}
    MaxPerRead = 1
INVARIANTS ChainsEnd FoundUnlessCut ValueIntact IteratorMissesNone
CHECK_DEADLOCK FALSE
