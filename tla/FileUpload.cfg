\* Five attempts, any replies and any HTTP status; the second path is unusable.
CONSTANTS
    max_retries = 5
    None = None
    BadUrls = {2}
    Malformed = TRUE
    HttpErrors = TRUE
SPECIFICATION FairSpec
INVARIANTS TypeOK SuccessMeansSent  ConnectionsAccounted
PROPERTY UploadReturns
