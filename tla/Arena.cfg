CONSTANTS
    Elem = {u, v}
    Zero = zero
    startLen = 2
    MaxHanded = 4
    MaxSlice = 3
SPECIFICATION ArenaSpec
SYMMETRY Elems
INVARIANTS
    InBounds
    NeverShared
    NodesIntact
