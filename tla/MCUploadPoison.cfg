SPECIFICATION Spec
CONSTANTS
    Scans = {1, 2}
    WellFormed = {1}
    Calls = {c1}
    Requests = {r1}
    MaxBatch = 2
    NoCall = NoCall
INVARIANTS RejectionIsPerScan
