SPECIFICATION Spec
CONSTANTS
    w1 = w1
    w2 = w2
    None = None
    Worker = {w1, w2}
    Price <- MCPrice
    Sector <- MCSector
    Evidence <- MCEvidence
    Deployment <- MCDeployment
    Signal <- MCSignal
    MaxTradesIn <- MCMaxTradesIn
    Pnl <- MCPnl
    MaxTrades = 4
    MaxFaultsIn <- MCMaxFaultsIn
    MIN_CONFIDENCE = 75
    MAX_NOTIONAL_GBP = 120
    MIN_CONFIDENCE_IMPROVEMENT = 5
    MAX_POSITION_VALUE_GBP = 130
    MAX_OPEN_TRADES = 3
    MAX_SECTOR_OPEN_TRADES = 2
    MAX_SAME_DIRECTION_TRADES = 2
    MAX_CAPITAL_DEPLOYED = 255
    MAX_SECTOR_EXPOSURE = 225
    CASH_BALANCE = 315
    MIN_CASH_REMAINING_GBP = 50
INVARIANTS
    TypeOK
    OneYoungScan
    WithinLimits
    RecordsTellTheTruth
PROPERTIES
    WorkGetsDone
CHECK_DEADLOCK FALSE
