CONSTANTS
    Elem = {1, 2, 3, 4, 5}
    Zero = zero
    startLen = 1
    bufCap = 1
    MaxHanded = 4
    MaxSlice = 5
    MaxDepth = 3
    MaxParses = 2
SPECIFICATION Spec
INVARIANTS
    EarlyReadHarmless
    BufferBalanced
PROPERTIES
    BuildsLists
