SPECIFICATION RetrySpec
CONSTANTS
    Scans = {1}
    WellFormed = {1}
    Calls = {c1}
    Requests = {r1}
    MaxBatch = 2
    NoCall = NoCall
PROPERTIES QueuedIsSent
