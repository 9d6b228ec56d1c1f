\* Every part of the system that can be looked at alone.
SPECIFICATION PartsSpec
CONSTANTS
    Instrument = {eth, sol}
    Fingerprint = {gap, outage}
    Healthy = Healthy
    RecoveryThreshold = 2
    MaxQueue = 1
    None = None
    MaxDay = 3
    PositionId = {1, 2}
    NoPosition = 0
    MIN_HOLD = 2
    REQUIRED_CONFIRMATIONS = 2
    MaxTime = 6
    Prices = {1, 2}
    MINIMUM_ELIGIBLE_PRICE = 2
    STALE_PRICE_CHECK_DAYS = 1
    PRICE_CHECK_BATCH_SIZE = 1
    MaxRuns = 3
    Upper <- MCUpper
    Strategy <- MCStrategy
    Fixtures <- MCFixtures
    STARTING_CASH = 100
    RISK <- MCRisk
    Writer = {"cycle", "loop"}
    Feed <- MCFeed
    MAX_REMEMBERED = 2
    MaxFailures = 1
    MaxCrashes = 1
    ScanUniverse <- MCUniverse
    Answers <- MCAnswers
    MAX_PROPOSALS = 2
    MAX_OPEN_POSITIONS = 2
    MAX_STOP_LOSS = 20
    MAX_TAKE_PROFIT = 50
    MAX_REASONS = 10
    MAX_REASON_LENGTH = 240
    MaxCycles = 2
    Required <- MCRequired
    RoleOrder <- MCRoles
    MonthsOf <- MCMonthsOf
    Sound <- MCSound
    MAX_RETRIES = 2
    MaxVersion = 2
    MaxFaults = 2
    Listings <- MCListings
    CRYPTO_SYMBOLS = {"BTC"}
    SESSION_START = 570
    SESSION_END = 960
    MIN_REQUIRED_CANDLES = 3
    MAX_EXPLAINABLE_GAP = 14400
    MAX_BOUNDARY_CHECKS = 20000
    EMA_SHORT_PERIOD = 2
    EMA_LONG_PERIOD = 3
    RSI_PERIOD = 2
    ATR_PERIOD = 2
INVARIANTS
    PartsTypeOK
    OperatorInformed
    RecoveryEarned
    IncidentIsKept
    RuntimeIsOrderly
    SummaryOncePerEvening
    BookIsSound
    AlertsAreFaithful
    ExitNeedsConfirmation
    ScanIsSound
    ArchivesAreSound
    UniverseIsSound
    StartupIsSafe
    DecisionIsGrounded
    StrategiesAreWhole
    ResearchIsHonest
    ViewsAreTrue
    IntakeIsExact
    LedgerIsExact
PROPERTIES
    RuntimeLives
    NewsGetsOut
