SPECIFICATION RoundTripSpec
CONSTANT Sources <- NewOfCall
CHECK_DEADLOCK FALSE
INVARIANT RoundTrips
