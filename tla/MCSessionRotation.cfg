SPECIFICATION Spec
CONSTANTS
    Calls = {c1}
    Requests = {q1}
    MaxClock = 2
    MaxRows = 3
INVARIANTS UsedIsRevoked
