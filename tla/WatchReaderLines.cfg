CONSTANTS
    Apis = {"line"}
    Lines = 3
    BufSize = 12
    BufLen = 8
    MaxStops = 0
    MaxBreaks = 0
SPECIFICATION Spec
INVARIANT LinesIntact
