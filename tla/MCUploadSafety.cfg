SPECIFICATION Spec
CONSTANTS
    Scans = {1, 2}
    WellFormed = {1, 2}
    Calls = {c1, c2}
    Requests = {r1, r2}
    MaxBatch = 2
    NoCall = NoCall
SYMMETRY CallSymmetry
INVARIANTS TypeOK StoredOnce UploadedIsStored InFlightInHand
PROPERTIES NoSilentDrop ImplementsLedger
