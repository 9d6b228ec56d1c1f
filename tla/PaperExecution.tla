--------------------------- MODULE PaperExecution ---------------------------
(***************************************************************************)
(* The fixture replay (execution-demo): candles are read one by one, every  *)
(* enabled strategy is evaluated on each, orders pass the risk engine and   *)
(* go to the local paper broker, whose state file is written without a      *)
(* report of failure, and every step is recorded in the audit trail, whose  *)
(* failed write ends the replay.                                            *)
(***************************************************************************)
EXTENDS Integers, Sequences, SequencesExt, FiniteSets, FiniteSetsExt

CONSTANTS
    Strategy,        \* the loaded strategies
    Fixtures,        \* possible fixtures: an instrument's candles [at, close]
    STARTING_CASH,
    RISK             \* the risk engine's configuration

\* The paper broker counts in units (BROKER_CAPABILITIES.local), the mapper only loads limits that
\* are positive, and a close is a price.
ASSUME ReplayAssumption ==
    /\ STARTING_CASH \in Nat /\ RISK.sizing = "UNITS"
    /\ \A s \in Strategy : s.maxPositionValue \in Nat
    /\ \A fixture \in Fixtures :
        /\ Len(fixture) \in Nat /\ DOMAIN fixture = 1 .. Len(fixture)
        /\ \A i \in DOMAIN fixture : fixture[i].close \in Nat \ {0}

VARIABLES
    candles,    \* the fixture
    index,      \* candle being processed
    pending,    \* strategies still to be evaluated on it
    step,       \* what the strategy at hand awaits
    book,       \* LocalPaperBroker's state
    bookFile,   \* its file: a book, or {} while it is missing or half written
    events,     \* audit events in memory
    log,        \* audit events on disk
    failures    \* writes that may still fail
replayVars == <<candles, index, pending, step, book, bookFile, events, log, failures>>

-----------------------------------------------------------------------------
(* The signal engine of the fixture pipeline.                              *)

Less(a, b) == a[1] * b[2] < b[1] * a[2]       \* of fractions
MovingAverage(closes, period, end) == <<FoldLeft(LAMBDA a, b : a + b, 0, SubSeq(closes, end - period + 1, end)), period>>
HasHistory(closes, period) == Len(closes) >= period + 1
CrossesAbove(closes, period) ==
    LET n == Len(closes) IN
    /\ HasHistory(closes, period)
    /\ Less(MovingAverage(closes, period, n), <<closes[n], 1>>)
    /\ ~Less(MovingAverage(closes, period, n - 1), <<closes[n - 1], 1>>)
CrossesBelow(closes, period) ==
    LET n == Len(closes) IN
    /\ HasHistory(closes, period)
    /\ Less(<<closes[n], 1>>, MovingAverage(closes, period, n))
    /\ ~Less(<<closes[n - 1], 1>>, MovingAverage(closes, period, n - 1))

RuleFires(rule, closes, entryPrice) ==
    CASE rule.type = "TAKE_PROFIT" -> 100 * Last(closes) >= entryPrice * (100 + rule.value)
      [] rule.type = "STOP_LOSS"   -> 100 * Last(closes) <= entryPrice * (100 - rule.value)
      [] OTHER                     -> CrossesBelow(closes, rule.value)

\* evaluateSignal: held is {} or the open position.
EvaluateSignal(strategy, closes, held) ==
    IF held # {}
    THEN IF \E p \in held, r \in strategy.exits : RuleFires(r, closes, p.entryPrice)
         THEN "EXIT_POSITION" ELSE "NO_ACTION"
    ELSE IF CrossesAbove(closes, strategy.period) THEN "ENTER_LONG" ELSE "NO_ACTION"

-----------------------------------------------------------------------------
(* The risk engine.                                                        *)

\* Mutant: the kinds of sizing mixed up.
CalculateNotionalSwapped(sizing, quantity, price) == IF sizing = "NOTIONAL" THEN quantity * price ELSE quantity

CalculateNotional(sizing, quantity, price) == IF sizing = "NOTIONAL" THEN quantity ELSE quantity * price

\* evaluateRisk: the names of the checks that fail.
EvaluateRisk(strategy, order, cash, positions, config) ==
    LET value == CalculateNotional(config.sizing, order.quantity, order.price) IN
    {check \in {"strategy-enabled", "strategy-source-permitted", "no-duplicate-position", "quantity-positive",
                "sufficient-cash", "max-position-value", "max-open-positions",
                "valid-take-profit-stop-loss"} :
        CASE check = "strategy-enabled" -> ~strategy.enabled
          [] check = "strategy-source-permitted" -> strategy.source = "DEMO_ONLY" /\ ~config.demoMode
          [] check = "no-duplicate-position" ->
                \E p \in positions : p.strategy = strategy.id /\ p.instrument = order.instrument
          [] check = "quantity-positive"  -> order.quantity <= 0
          [] check = "sufficient-cash"    -> value > cash
          [] check = "max-position-value" -> value > strategy.maxPositionValue
          [] check = "max-open-positions" -> Cardinality(positions) >= config.maxOpenPositions
          [] OTHER -> \E p \in order.percents : p <= 0 \/ p >= 100}

-----------------------------------------------------------------------------
(* The replay.                                                             *)

NoStep == [at |-> "idle"]
EverOpened(b) == {p.id : p \in b.open} \cup {t.position : t \in b.trades}
Cost(positions) == SumFunction([p \in positions |-> p.quantity * p.entryPrice])
Realised(trades) == SumFunction([t \in trades |-> t.pnl])

ReplayInit ==
    /\ candles = <<>>
    /\ index = 0 /\ pending = {} /\ step = NoStep
    /\ book = [cash |-> STARTING_CASH, open |-> {}, trades |-> {}]
    /\ bookFile = {}
    /\ events = <<>> /\ log = <<>> /\ failures = 1

\* JsonFilePaperBrokerStore.save: not atomic, and a failure is only logged.
SaveBook(b) ==
    \/ bookFile' = {b} /\ UNCHANGED failures
    \/ failures > 0 /\ failures' = failures - 1 /\ bookFile' \in {bookFile, {}}

\* loadFixtureCandles and LocalPaperBroker.create with resetState: a first save that fails is only
\* logged, and the replay goes on without a file.
LoadFixture ==
    /\ candles = <<>> /\ candles' \in Fixtures
    /\ SaveBook(book)
    /\ UNCHANGED <<index, pending, step, book, events, log>>

\* JsonFileAuditTrail.record: kept in memory first; a write that fails ends the replay.
RecordEvent(event, next) ==
    /\ events' = Append(events, event)
    /\ \/ log' = events' /\ step' = next /\ UNCHANGED failures
       \/ failures > 0 /\ failures' = failures - 1 /\ step' = [at |-> "aborted"] /\ UNCHANGED log

Processed(i) == \E j \in 1 .. (i - 1) : candles[j].at = candles[i].at

\* ExecutionRunner.run: a candle whose key was seen is skipped.
SkipCandle ==
    /\ step = NoStep /\ pending = {} /\ index < Len(candles) /\ Processed(index + 1)
    /\ index' = index + 1
    /\ UNCHANGED <<candles, pending, step, book, bookFile, events, log, failures>>

NextCandle ==
    /\ step = NoStep /\ pending = {} /\ index < Len(candles) /\ ~Processed(index + 1)
    /\ index' = index + 1
    /\ pending' = {s \in Strategy : s.enabled}
    /\ RecordEvent([type |-> "CANDLE_PROCESSED"], NoStep)
    /\ UNCHANGED <<candles, book, bookFile>>

Window == [i \in 1 .. index |-> candles[i].close]
Price == candles[index].close
Existing(s) == {p \in book.open : p.strategy = s.id /\ p.instrument = s.instrument}
Order(s) == [strategy |-> s.id, instrument |-> s.instrument, price |-> Price,
             quantity |-> s.maxPositionValue \div Price,
             percents |-> {r.value : r \in {x \in s.exits : x.type # "CROSSES_BELOW_MA"}}]

\* evaluateStrategyOnCandle, up to its first order.
Evaluate(s) ==
    /\ step = NoStep /\ s \in pending
    /\ pending' = pending \ {s}
    /\ LET signal == EvaluateSignal(s, Window, Existing(s)) IN
       RecordEvent([type |-> "SIGNAL_GENERATED", action |-> signal],
              CASE signal = "NO_ACTION"  -> NoStep
                [] signal = "ENTER_LONG" -> [at |-> "risk", strategy |-> s, order |-> Order(s)]
                [] OTHER -> [at |-> "close", position |-> CHOOSE p \in Existing(s) : TRUE])
    /\ UNCHANGED <<candles, index, book, bookFile>>

AssessRisk ==
    /\ step.at = "risk"
    /\ LET failed == EvaluateRisk(step.strategy, step.order, book.cash, book.open, RISK) IN
       IF failed = {}
       THEN RecordEvent([type |-> "RISK_APPROVED"], [at |-> "submit", order |-> step.order])
       ELSE RecordEvent([type |-> "RISK_REJECTED"], NoStep)
    /\ UNCHANGED <<candles, index, pending, book, bookFile>>

\* Mutant: the position is recorded before the broker's own checks have passed.
SubmitAsOpened ==
    /\ step.at = "submit"
    /\ RecordEvent([type |-> "POSITION_OPENED", position |-> Cardinality(EverOpened(book)) + 1],
              [at |-> "place", order |-> step.order])
    /\ UNCHANGED <<candles, index, pending, book, bookFile>>

Submit ==
    /\ step.at = "submit"
    /\ RecordEvent([type |-> "ORDER_SUBMITTED"], [at |-> "place", order |-> step.order])
    /\ UNCHANGED <<candles, index, pending, book, bookFile>>

Value(order) == order.quantity * order.price
BrokerRefuses(order) ==
    \/ order.quantity <= 0
    \/ Value(order) > book.cash
    \/ \E p \in book.open : p.strategy = order.strategy /\ p.instrument = order.instrument

\* LocalPaperBroker.placeMarketOrder: a refusal throws out of the replay.
PlaceMarketOrder ==
    /\ step.at = "place"
    /\ LET order == step.order
           id    == Cardinality(EverOpened(book)) + 1
           filled == [id |-> id, strategy |-> order.strategy, instrument |-> order.instrument,
                      quantity |-> order.quantity, entryPrice |-> order.price]
       IN  IF BrokerRefuses(order)
           THEN step' = [at |-> "refused"] /\ UNCHANGED <<book, bookFile, failures>>
           ELSE /\ book' = [book EXCEPT !.cash = @ - Value(order), !.open = @ \cup {filled}]
                /\ SaveBook(book')
                /\ step' = [at |-> "opened", position |-> id]
    /\ UNCHANGED <<candles, index, pending, events, log>>

RecordOpened ==
    /\ step.at = "opened"
    /\ RecordEvent([type |-> "POSITION_OPENED", position |-> step.position], NoStep)
    /\ UNCHANGED <<candles, index, pending, book, bookFile>>

\* Mutant: a close pays out the price paid at the entry.
ClosePositionAtEntry ==
    /\ step.at = "close"
    /\ LET p == step.position IN
       /\ book' = [cash   |-> book.cash + p.quantity * p.entryPrice,
                   open   |-> book.open \ {p},
                   trades |-> book.trades \cup {[position |-> p.id, pnl |-> (Price - p.entryPrice) * p.quantity]}]
       /\ SaveBook(book')
       /\ step' = [at |-> "closed", position |-> p.id]
    /\ UNCHANGED <<candles, index, pending, events, log>>

\* LocalPaperBroker.closePosition.
ClosePosition ==
    /\ step.at = "close"
    /\ LET p == step.position IN
       /\ book' = [cash   |-> book.cash + p.quantity * Price,
                   open   |-> book.open \ {p},
                   trades |-> book.trades \cup {[position |-> p.id, pnl |-> (Price - p.entryPrice) * p.quantity]}]
       /\ SaveBook(book')
       /\ step' = [at |-> "closed", position |-> p.id]
    /\ UNCHANGED <<candles, index, pending, events, log>>

RecordClosed ==
    /\ step.at = "closed"
    /\ RecordEvent([type |-> "POSITION_CLOSED", position |-> step.position], [at |-> "pnl"])
    /\ UNCHANGED <<candles, index, pending, book, bookFile>>
RecordPnl ==
    /\ step.at = "pnl"
    /\ RecordEvent([type |-> "REALISED_PNL"], NoStep)
    /\ UNCHANGED <<candles, index, pending, book, bookFile>>

ReplayNext ==
    \/ LoadFixture \/ SkipCandle \/ NextCandle \/ \E s \in pending : Evaluate(s)
    \/ AssessRisk \/ Submit \/ PlaceMarketOrder \/ RecordOpened
    \/ ClosePosition \/ RecordClosed \/ RecordPnl

ReplaySpec == ReplayInit /\ [][ReplayNext]_replayVars

-----------------------------------------------------------------------------
\* getHermesExecutionStatus: what the health page shows of the two files, at any moment.
Status == LET b == IF bookFile = {} THEN [cash |-> 0, open |-> {}, trades |-> {}] ELSE CHOOSE x \in bookFile : TRUE IN
          [open |-> b.open, trades |-> b.trades, realisedPnl |-> Realised(b.trades), log |-> log]

\* Cash moves only with positions: cash plus what the open positions cost is the starting cash plus
\* what the closed ones earned, and cash is never negative (paper-broker.ts 66-161).
CashConserved ==
    /\ book.cash >= 0
    /\ book.cash + Cost(book.open) = STARTING_CASH + Realised(book.trades)

\* The broker's own checks never refuse an order the risk engine approved, although the order waits
\* for two audit writes in between (execution-runner.ts 138-170): a refusal would end the replay.
ApprovedOrdersFill == step.at # "refused"

InLog(type) == {log[i].position : i \in {j \in DOMAIN log : log[j].type = type}}

\* The log never tells of a position or a close the broker does not have; what the broker has and
\* the log lacks is the one event a failed write cost; and the health page never shows more closes
\* than the broker made.
LogFollowsBook ==
    /\ InLog("POSITION_OPENED") \subseteq EverOpened(book)
    /\ InLog("POSITION_CLOSED") \subseteq {t.position : t \in book.trades}
    /\ step = NoStep => InLog("POSITION_OPENED") = EverOpened(book)
                      /\ InLog("POSITION_CLOSED") = {t.position : t \in book.trades}
    /\ Status.trades \subseteq book.trades

\* The paper account neither makes nor loses money, fills every order it approved, and its
\* log never tells of a fill the book does not have (execution-runner.ts).
BookIsSound == CashConserved /\ ApprovedOrdersFill /\ LogFollowsBook
=============================================================================
