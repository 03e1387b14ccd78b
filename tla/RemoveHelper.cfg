CONSTANTS
    Trees <- ElementTrees
    Markable <- Leaves
SPECIFICATION Spec
INVARIANTS
    RemovesExactlyTheMarked
    RequestMeetsItsLoop
    CompactionInPlace
