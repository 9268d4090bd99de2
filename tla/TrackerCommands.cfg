CONSTANTS
    NULL = NULL
    MaxTries = 2
    MaxExtra = 2
    MaxLeft = 2
    Pieces = {1, 4}
    MAX_ALLOWED_PATHS = 3
    MAX_ALLOWED_DIRECTORY_ENTRIES = 3
SPECIFICATION Spec
INVARIANTS TypeOK RequestExact ReplyDecoded StatusFaithful OutputsWhole
