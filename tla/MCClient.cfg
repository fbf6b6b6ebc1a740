SPECIFICATION ClientSpec
CONSTANTS
    Securities <- SomeSecurities
    MaxWrites = 2
    MaxLosses = 1
    MaxNoise = 1
    Networks = {1, 2}
    MaxScans = 2
    MaxPairs = 2
    MaxChanges = 2
    Tables <- SomeTables
    NewIds = {2}
    PerPage = 2
    MaxPending = 2
    MaxUpdates = 1
    MaxEdits = 1
INVARIANTS
    BleTypeOK
    SecurityArrives
    LossIsNoticed
    PhoneTypeOK
    ScanIsInOnePlace
    ScreenFollowsRun
    SavedIsQueued
    PairingIsUnderWay
    ListsTypeOK
    PageIsWhole
    WalkMissesNothing
PROPERTIES
    BridgeEnds
    PhoneSettles
CHECK_DEADLOCK FALSE
