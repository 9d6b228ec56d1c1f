------------------------------ MODULE Startup ------------------------------
(***************************************************************************)
(* What stands between the environment and a running runtime: config.ts     *)
(* turns the raw settings into a configuration or throws; the registry      *)
(* client, the mapper and the loader turn strategy documents into a list;   *)
(* startup validation, the broker factory and the dependency factory decide *)
(* whether anything is started.  A setting is a text ("" when it is unset)  *)
(* or, when it is a number, a set: {} unset, {n} given, NaN no number.      *)
(***************************************************************************)
EXTENDS Integers, Sequences, SequencesExt, FiniteSets

CONSTANTS Upper         \* toUpperCase of the symbols in use
NaN == -1               \* every numeric setting has a minimum above it
Malformed == <<24, 0>>  \* a session time that is no HH:MM

Given(setting, default) == IF setting = {} THEN default ELSE CHOOSE n \in setting : TRUE
Text(setting, default) == IF setting = "" THEN default ELSE setting
IsOn(setting, default) == IF setting = "" THEN default ELSE setting = "true"
RoundedTwice(seconds) == IF 2 * seconds > 300 THEN 2 * seconds ELSE 300

BrokerProviders == {"local", "hyperliquid-testnet", "trading212-demo", "etoro-demo"}
RuntimeModes == {"paper", "demo", "testnet"}
HermesAgent == "HERMES-AGENT"

TimeframeMinutes ==
    [t \in {"1m", "5m", "10m", "15m", "30m", "1h", "4h", "1d", "1w"} |->
        CASE t = "1m" -> 1 [] t = "5m" -> 5 [] t = "10m" -> 10 [] t = "15m" -> 15 [] t = "30m" -> 30
          [] t = "1h" -> 60 [] t = "4h" -> 240 [] t = "1d" -> 1440 [] OTHER -> 10080]

\* parseEnum: the admissible texts of each setting.
Admissible ==
    [executionMode  |-> {"paper"},
     broker         |-> BrokerProviders,
     marketData     |-> {"mock", "live"},
     timeframe      |-> DOMAIN TimeframeMinutes,
     hoursPolicy    |-> {"always-open", "weekday-session"},
     runtimeMode    |-> RuntimeModes,
     approval       |-> {"MANUAL", "AUTO_DEMO", "AUTO_LIVE"},
     etoroEnv       |-> {"demo"},
     demoMode       |-> {"true", "false"},
     scheduler      |-> {"true", "false"},
     telegram       |-> {"true", "false"},
     hyperliquidOn  |-> {"true", "false"},
     trading212On   |-> {"true", "false"}]

\* parseInteger and the fractional settings: the least admissible value.
Minimum ==
    [startingCash |-> 1, maxOpenPositions |-> 1, candleCount |-> 50, candleAge |-> 300,
     interval |-> 5000, shutdown |-> 1000, quantity |-> 1, maxQuantity |-> 1,
     testQuantity |-> 1, testAmount |-> 1, testValue |-> 10, httpTimeout |-> 1000,
     recovery |-> 60000, holding |-> 1, confidence |-> 0, agentTimeout |-> 1000,
     agentStdout |-> 1024, maxProposals |-> 1, gatewayTimeout |-> 1000,
     opposingHold |-> 60000, opposingConfirmations |-> 2]

Default ==
    [candleCount |-> 200, quantity |-> 10, maxProposals |-> 2, opposingConfirmations |-> 2,
     opposingHold |-> 300000, interval |-> 60000, sessionStart |-> <<9, 30>>,
     sessionEnd |-> <<16, 0>>, symbol |-> "BTC",
     universe |-> <<"BTC", "ETH", "SOL", "AAPL", "MSFT", "NVDA">>]

-----------------------------------------------------------------------------
(* buildHermesExecutionConfig: the settings that make it throw.            *)

EnumProblems(env) == {s \in DOMAIN Admissible : env.text[s] \notin Admissible[s] \cup {""}}

\* Mutant: the stability settings have no least value.
IntegerProblemsLax(env) ==
    {s \in DOMAIN Minimum \ {"opposingHold", "opposingConfirmations"} : \E n \in env.number[s] : n < Minimum[s]}

IntegerProblems(env) == {s \in DOMAIN Minimum : \E n \in env.number[s] : n < Minimum[s]}

\* Mutant: a session may be empty.
TextNotAfter(a, b) == a[1] < b[1] \/ (a[1] = b[1] /\ a[2] <= b[2])

\* sessionStart >= sessionEnd compares the texts, character by character.
TextBefore(a, b) == a[1] < b[1] \/ (a[1] = b[1] /\ a[2] < b[2])
SessionStart(env) == Given(env.sessionStart, Default.sessionStart)
SessionEnd(env) == Given(env.sessionEnd, Default.sessionEnd)
SessionProblems(env) ==
    {s \in {"sessionStart", "sessionEnd", "session"} :
        \/ s = "sessionStart" /\ SessionStart(env) = Malformed
        \/ s = "sessionEnd" /\ SessionEnd(env) = Malformed
        \/ s = "session" /\ ~TextBefore(SessionStart(env), SessionEnd(env))}

TradeProblems(env) ==
    LET quantity == Given(env.number.quantity, Default.quantity)
    IN  {p \in {"symbol", "maxQuantity"} :
            \/ p = "symbol" /\ Text(env.symbol, Default.symbol) \notin DOMAIN Upper
            \/ p = "maxQuantity" /\ \E n \in env.number.maxQuantity : quantity > n}

\* A credential is "", well formed or malformed; only the selected broker's are required.
HyperliquidProblems(env) ==
    LET selected == env.text.broker = "hyperliquid-testnet"
    IN  {c \in {"privateKey", "accountAddress"} :
            env.secret[c] = "malformed" \/ (selected /\ env.secret[c] = "")}
Trading212Problems(env) ==
    {c \in {"apiKey212", "apiSecret212"} : env.text.broker = "trading212-demo" /\ env.secret[c] = ""}
EtoroProblems(env) ==
    {p \in {"etoroApiKey", "etoroUserKey", "etoroEnv", "testAmount"} :
        /\ env.text.broker = "etoro-demo"
        /\ CASE p = "etoroEnv"   -> env.text.etoroEnv # "demo"
             [] p = "testAmount" -> env.number.testAmount = {}
             [] OTHER            -> env.secret[p] = ""}

TelegramProblems(env) ==
    {c \in {"botToken", "chatId"} : IsOn(env.text.telegram, FALSE) /\ env.secret[c] = ""}
AutonomyProblems(env) ==
    {p \in {"AUTO_LIVE", "confidence"} :
        \/ p = "AUTO_LIVE" /\ env.text.approval = "AUTO_LIVE"
        \/ p = "confidence" /\ \E n \in env.number.confidence : n > 100}

\* An entry that is empty or has unsupported characters fails the whole universe.
UniverseProblems(env) == {e \in ToSet(env.universe) : e \notin DOMAIN Upper}
AddSymbol(kept, e) == IF Contains(kept, Upper[e]) THEN kept ELSE Append(kept, Upper[e])
Universe(env) ==
    IF env.universe = <<>> THEN Default.universe ELSE FoldLeft(AddSymbol, <<>>, env.universe)

Problems(env) ==
    UNION {EnumProblems(env), IntegerProblems(env), SessionProblems(env), TradeProblems(env),
           HyperliquidProblems(env), Trading212Problems(env), EtoroProblems(env),
           TelegramProblems(env), AutonomyProblems(env), UniverseProblems(env)}

\* The configuration that is returned when nothing threw.
Config(env) ==
    LET frame == Text(env.text.timeframe, "1h") IN
    [registryPath |-> env.registryPath,
     broker       |-> Text(env.text.broker, "local"),
     marketData   |-> Text(env.text.marketData, "mock"),
     runtimeMode  |-> Text(env.text.runtimeMode, "paper"),
     approval     |-> Text(env.text.approval, "MANUAL"),
     demoMode     |-> IsOn(env.text.demoMode, FALSE),
     candleAge    |-> Given(env.number.candleAge, RoundedTwice(60 * TimeframeMinutes[frame])),
     scheduler    |-> [enabled |-> IsOn(env.text.scheduler, FALSE),
                       policy |-> Text(env.text.hoursPolicy, "always-open"),
                       start |-> SessionStart(env), end |-> SessionEnd(env)],
     symbol       |-> Upper[Text(env.symbol, Default.symbol)],
     strategyId   |-> Text(env.strategyId, HermesAgent),
     executionOn  |-> [b \in BrokerProviders |->
                          CASE b = "hyperliquid-testnet" -> IsOn(env.text.hyperliquidOn, FALSE)
                            [] b = "trading212-demo" -> IsOn(env.text.trading212On, FALSE)
                            [] b = "etoro-demo" -> env.text.etoroEnv = "demo"
                            [] OTHER -> TRUE],
     credentialed |-> [b \in BrokerProviders |->
                          CASE b = "hyperliquid-testnet" -> {env.secret.privateKey, env.secret.accountAddress}
                            [] b = "trading212-demo" -> {env.secret.apiKey212, env.secret.apiSecret212}
                            [] b = "etoro-demo" -> {env.secret.etoroApiKey, env.secret.etoroUserKey}
                            [] OTHER -> {}],
     opposingHold |-> Given(env.number.opposingHold, Default.opposingHold),
     opposingConfirmations |-> Given(env.number.opposingConfirmations, Default.opposingConfirmations),
     telegramBot  |-> IsOn(env.text.telegram, FALSE),
     universe     |-> Universe(env)]

-----------------------------------------------------------------------------
(* The strategy registry, in the order of the file names.                  *)

PositiveInteger(n) == n >= 1

\* Mutant: only active documents count as seen.
ListActiveStrategiesSeenActive(documents) ==
    FoldLeft(LAMBDA acc, d :
        IF ~d.readable \/ ~d.valid \/ d.schema # "1.0.0" \/ d.id \in acc.seen \/ d.status # "active" THEN acc
        ELSE [seen |-> acc.seen \cup {d.id}, active |-> Append(acc.active, d)],
        [seen |-> {}, active |-> <<>>], documents).active

\* A document is seen before its status is looked at.
ReadDocument(acc, d) ==
    IF ~d.readable \/ ~d.valid \/ d.schema # "1.0.0" \/ d.id \in acc.seen THEN acc
    ELSE [seen |-> acc.seen \cup {d.id},
          active |-> IF d.status = "active" THEN Append(acc.active, d) ELSE acc.active]
ListActiveStrategies(documents) ==
    FoldLeft(ReadDocument, [seen |-> {}, active |-> <<>>], documents).active

\* mapRegistryStrategyToInternal: the rule shapes this engine can execute.
SupportedEntry(rule) == rule.type = "CROSSES_ABOVE_MA" /\ PositiveInteger(rule.value)
SupportedExit(rule) ==
    rule.type \in {"TAKE_PROFIT", "STOP_LOSS", "CROSSES_BELOW_MA"} /\ rule.value > 0
IsExecutable(d) ==
    /\ d.decision = "ELIGIBLE"
    /\ Len(d.markets) = 1
    /\ SupportedEntry(d.entry)
    /\ d.exits # <<>> /\ \A r \in ToSet(d.exits) : SupportedExit(r)
    /\ d.maxPosition > 0

KeepExecutable(kept, d) == IF IsExecutable(d) THEN Append(kept, d) ELSE kept

Listed(id, source) == [id |-> id, source |-> source]
LoadEnabledStrategies(documents, demoMode) ==
    LET approved == FoldLeft(KeepExecutable, <<>>, ListActiveStrategies(documents))
    IN  <<Listed(HermesAgent, "HERMES_APPROVED")>>
          \o [i \in DOMAIN approved |-> Listed(approved[i].id, "HERMES_APPROVED")]
          \o IF demoMode THEN <<Listed("DEMO-0001", "DEMO_ONLY")>> ELSE <<>>

\* selectStrategy: the strategies that answer to the configured id, of which find() takes the first.
SelectStrategy(strategies, id) == SelectSeq(strategies, LAMBDA s : s.id = id)

-----------------------------------------------------------------------------
(* Compatibility and construction.                                         *)

Capabilities ==
    [b \in BrokerProviders |->
        [modes |-> CASE b = "local" -> {"paper"} [] b = "hyperliquid-testnet" -> {"testnet"} [] OTHER -> {"demo"},
         resolves |-> b = "etoro-demo",
         liveRates |-> b = "etoro-demo",
         sizing |-> IF b = "etoro-demo" THEN "NOTIONAL" ELSE "UNITS"]]
IsAutoDemoEligible(c) == c.modes # {} /\ c.modes \subseteq {"demo", "paper", "testnet"}

\* Mutant: the runtime mode is not held against the broker.
ValidateStartupAnyMode(c, strategies) ==
    {p \in {"brokerProvider", "marketDataProvider", "strategyId"} :
        \/ p = "brokerProvider" /\ c.broker = "trading212-demo"
        \/ p = "marketDataProvider" /\ c.marketData = "live" /\ ~Capabilities[c.broker].liveRates
        \/ p = "strategyId" /\ SelectStrategy(strategies, c.strategyId) = <<>>}

ValidateStartup(c, strategies) ==
    {p \in {"brokerProvider", "runtimeMode", "marketDataProvider", "approvalMode", "strategyId"} :
        \/ p = "brokerProvider" /\ c.broker = "trading212-demo"
        \/ p = "runtimeMode" /\ c.runtimeMode \notin Capabilities[c.broker].modes
        \/ p = "marketDataProvider" /\ c.marketData = "live" /\ ~Capabilities[c.broker].liveRates
        \/ p = "approvalMode" /\ c.approval = "AUTO_DEMO" /\ ~IsAutoDemoEligible(Capabilities[c.broker])
        \/ p = "strategyId" /\ SelectStrategy(strategies, c.strategyId) = <<>>}

\* BrokerFactory: every provider checks its own switch and credentials, then connects.
BrokerRefuses(c, connects) == ~c.executionOn[c.broker] \/ "" \in c.credentialed[c.broker] \/ ~connects

\* MarketDataProviderFactory and WeekdaySessionMarketHoursPolicy.
MarketDataRefuses(c) == c.marketData = "live" /\ ~Capabilities[c.broker].liveRates
MinutesOfDay(time) == time[1] * 60 + time[2]
HoursRefuse(c) ==
    /\ c.scheduler.policy = "weekday-session"
    /\ MinutesOfDay(c.scheduler.start) >= MinutesOfDay(c.scheduler.end)
IsMarketOpen(c, weekday, minute) ==
    \/ c.scheduler.policy = "always-open"
    \/ /\ weekday \in 1..5
       /\ MinutesOfDay(c.scheduler.start) <= minute
       /\ minute < MinutesOfDay(c.scheduler.end)

\* buildRuntimeDependencies: the first stage that fails, in the order of the code.
BuildRuntimeDependencies(c, documents, connects, resolvable) ==
    LET strategies == LoadEnabledStrategies(documents, c.demoMode)
    IN  CASE c.registryPath = ""                       -> "registryPath"
          [] c.registryPath # "" /\ ValidateStartup(c, strategies) # {} -> "validation"
          [] OTHER ->
               IF BrokerRefuses(c, connects) THEN "broker"
               ELSE IF Capabilities[c.broker].resolves /\ c.symbol \notin resolvable THEN "symbol"
               ELSE IF MarketDataRefuses(c) THEN "marketDataProvider"
               ELSE IF HoursRefuse(c) THEN "marketHours"
               ELSE IF c.strategyId = HermesAgent /\ c.universe = <<>> THEN "universe"
               ELSE "built"

\* buildHermesRuntimeWiring: what the runtime trades.
Instruments(c) == IF c.strategyId = HermesAgent THEN c.universe ELSE <<c.symbol>>

\* buildAnalysisPersistenceConfig: durable storage is one switch for every repository.
PersistenceEnabled(supabase) == supabase.serviceRole /\ supabase.user = "uuid"

\* main: how far the process gets.
Main(env, documents, supabase, connects, resolvable) ==
    IF Problems(env) # {} THEN "config"
    ELSE IF ~Config(env).scheduler.enabled THEN "nothing to run"
    ELSE IF supabase.user = "malformed" THEN "crashed"
    ELSE IF ~PersistenceEnabled(supabase) THEN "tradeLifecycleStore"
    ELSE BuildRuntimeDependencies(Config(env), documents, connects, resolvable)
=============================================================================
