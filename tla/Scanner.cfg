CONSTANTS
    Lead2 <- MCLead2
    Lead3 <- MCLead3
    Lead4 <- MCLead4
    Continuation <- MCContinuation
    Runes <- MCRunes
    Stray <- MCStray
    Control <- MCControl
    IDStart <- MCIDStart
    IDContinue <- MCIDContinue
    Space <- MCSpace
    Encode <- MCEncode
    Texts <- MCTexts
    MaxMarks = 1
SPECIFICATION Spec
INVARIANTS
    InSource
    NewLineFlag
    NothingSkipped
    CookedText
PROPERTIES
    ReachesEof
