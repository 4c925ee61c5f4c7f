SPECIFICATION FairSpec
CONSTANTS
    LoopOrders <- MCLoopOrders
    ApiOrders <- MCApiOrders
    NoOrder = NoOrder
    Notional <- MCNotional
    Critical <- MCCritical
    Unsafe <- MCUnsafe
    EnvLevel = 0
    OperatorLevels = {0}
    MaxFailures = 0
PROPERTY
    DocumentedLifecycle
