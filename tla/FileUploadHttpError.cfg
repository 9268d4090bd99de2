\* A file server that answers the PUT with an HTTP error status.
CONSTANTS
    max_retries = 2
    None = None
    BadUrls = {}
    Malformed = FALSE
    HttpErrors = TRUE
SPECIFICATION Spec
INVARIANT SuccessMeansStored
