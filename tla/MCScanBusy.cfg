SPECIFICATION Spec
CONSTANTS
    Scans = {s1, s2}
    Networks = {n1, n2}
    Managed = {1}
    Resolver = 1
    NoScan = NoScan
    NoNet = NoNet
    MaxAlerts = 2
    MaxPending = 1
SYMMETRY ScanSymmetry
INVARIANTS OneScanAtATime
CHECK_DEADLOCK FALSE
