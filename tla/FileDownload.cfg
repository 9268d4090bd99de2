\* Four paths, the second with a bad URL; bodies of up to four units, two of
\* which fit in memory.
CONSTANTS
    MaxPaths = 4
    MaxBody = 4
    max_buffer_size = 2
    Lengths = {0, 3}
    BadUrls = {2}
    None = None
SPECIFICATION FairSpec
INVARIANTS TypeOK ResultExact FailureFinal MemoryBounded
PROPERTY DownloadReturns
