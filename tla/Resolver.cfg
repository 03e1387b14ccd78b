CONSTANTS
    x = x
    y = y
    f = f
    Name = {x, y, f}
    MaxCtxt = 20
    Programs <- MCPrograms
SPECIFICATION Spec
INVARIANTS
    ResolverInv
    HoisterRunsNeverOverlap
    SameBinding
    DistinctBindings
    ScopeNodesAgree
PROPERTIES
    ResolvedOnce
