CONSTANTS
    Trees <- LoopHeads
    Markable <- Leaves
SPECIFICATION Spec
INVARIANT
    RemovesOnlyTheMarked
