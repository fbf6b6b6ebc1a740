SPECIFICATION Spec
CONSTANTS
    Calls = {c1, c2}
    Requests = {q1, q2}
    MaxClock = 2
    MaxRows = 2
SYMMETRY SessionSymmetry
INVARIANTS TypeOK StoredIsLive SignedOutStays WaitersHaveRefresh
PROPERTIES SessionKept
