\* Two lines of any kind, cut anywhere, with a stop and a failure of the network.
CONSTANTS
    Apis = {"cache"}
    Lines = 2
    BufSize = 12
    BufLen = 8
    MaxStops = 1
    MaxBreaks = 1
SPECIFICATION FairSpec
INVARIANTS TypeOK BuffersSafe UnreadInOrder CacheLinesExact
PROPERTY StopEndsCall
