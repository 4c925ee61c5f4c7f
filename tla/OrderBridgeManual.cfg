SPECIFICATION FairSpec
CONSTANTS
    LoopOrders <- MCLoopOrders
    ApiOrders <- MCApiOrders
    NoOrder = NoOrder
    Notional <- MCNotional
    Critical <- MCCritical
    Unsafe <- MCUnsafe
    EnvLevel = 1
    OperatorLevels = {0, 1}
    MaxFailures = 0
PROPERTY
    ManualLevelHonoured
