SPECIFICATION RoundTripSpec
CONSTANT Sources <- Texts
CHECK_DEADLOCK FALSE
INVARIANT RoundTrips
PROPERTY StackOwned
