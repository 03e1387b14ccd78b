CONSTANTS
    Name = {x, y}
    MaxCtxt = 5
SPECIFICATION TableSpec
SYMMETRY Names
INVARIANTS
    LookupAgrees
    RecyclingSafe
    ContextsFresh
    OneUndoPerScope
    UndoInv
PROPERTIES
    ChainSpec
    EnclosingUndisturbed
