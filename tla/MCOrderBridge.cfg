SPECIFICATION FairSpec
CONSTANTS
    LoopOrders <- MCLoopOrders
    ApiOrders <- MCApiOrders
    NoOrder = NoOrder
    Notional <- MCNotional
    Critical <- MCCritical
    Unsafe <- MCUnsafe
    EnvLevel = 1
    OperatorLevels = {1, 2}
    MaxFailures = 1
INVARIANTS
    TypeOK
    ExecutedIsSanctioned
    FilledMeansTraded
    RefusalIsFinal
    ApprovalYieldsOnlyToTimeout
    FillLoggedOnce
PROPERTIES
    GateSpec
    LoopUnblocks
    LoopOrderDecided
    GrantIsCompleted
