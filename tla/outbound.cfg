SPECIFICATION Spec
CONSTANTS
    Callers <- MCCallers
    Requests <- MCRequests
    MaxRetries = 3
INVARIANTS DuplicateOnlyAfterSilence PostedIsWellFormed
