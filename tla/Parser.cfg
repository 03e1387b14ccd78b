SPECIFICATION Spec
CONSTANT Sources <- Texts
CHECK_DEADLOCK FALSE
INVARIANT TokenIsAtOffset
INVARIANT MarksInOrder
INVARIANT FlagsFollowCalls
INVARIANT NothingLost
INVARIANT ArrowsAsFunctions
INVARIANT RecoveryBounded
PROPERTY Terminates
