SPECIFICATION Spec
CONSTANTS
    Keys = {"a", "b", "c"}
    Hash <- MCHash
    NSlots = 4
    Lengths = {1}
    SmallLength = 2
    Cells = 5
    MaxStores = 4
    Workers = {w1}
    Ops = {"store", "delete"}
    Resize = "shrink"
    Handles = {}
    Uninitialised = {}
    MaxPerRead = 1
INVARIANT StoredKeysFound
CHECK_DEADLOCK FALSE
