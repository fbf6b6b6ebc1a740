SPECIFICATION MCSpec
CONSTANTS
    Interfaces = {i1, i2}
    Bss = {b1}
    Requests = {r1, r2}
    ChanCap = 1
    MaxSignals = 1
    MaxEvents = 3
    MaxInterrupts = 1
    MaxOthers = 2
INVARIANTS
    OrchTypeOK
    SubscriptionIsExclusive
    RefusedAttemptIsOver
    ConnectedWhenSaid
    DiesOfLateSignal
    LeavesTheNetwork
PROPERTIES
    ScansAfterJoining
    HandlersEnd
    RunEnds
CHECK_DEADLOCK FALSE
