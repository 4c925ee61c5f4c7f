SPECIFICATION Spec
CONSTANTS
    BTC = BTC
    ETH = ETH
    Symbols <- MCSymbols
    MaxFills = 3
    MaxQty = 2
    MaxConcurrent = 2
    Pnl <- MCPnl
    DailyLossLimit = 4
    LossLimit = 2
    MaxFailures = 0
PROPERTY
    GainNeverTrips
