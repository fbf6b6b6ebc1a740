SPECIFICATION FairSpec
CONSTANTS
    Scans = {1, 2}
    WellFormed = {2}
    Calls = {c1, c2}
    Requests = {r1, r2}
    MaxBatch = 1
    NoCall = NoCall
PROPERTIES InFlightReleased
