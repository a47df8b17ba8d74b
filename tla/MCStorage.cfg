SPECIFICATION StorageSpec
CONSTANTS
    Inputs = {i1, i2}
    Paths = {p1}
    Sizes = {0, 3}
    MaxNodes = {2, 3}
    StoreBound = 5
    NoPath = nopath
    Absent = absent
    v1 = v1
    v1next = v1next
INVARIANTS
    InputsWhole
    NothingLeft
    CollectionSafe
