SPECIFICATION PhoneSpec
CONSTANTS
    Networks = {1}
    MaxScans = 1
    MaxPairs = 1
    MaxChanges = 0
INVARIANT ScanGivesResult
CHECK_DEADLOCK FALSE
