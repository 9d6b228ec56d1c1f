------------------------------ MODULE BotRules ------------------------------
(***************************************************************************)
(* The paper bot's pure rules: the three strategies, their aggregation      *)
(* into one score per instrument, and the three tiers of checks (individual,*)
(* Position Manager, portfolio) through which runBotScan walks its ranked   *)
(* candidates.  Percentages of a strategy context are held in hundredths,   *)
(* as round2 leaves them; money is held in whole pounds, P/L in pence.      *)
(* The code's hardcoded limits are parameters, so that a small book can     *)
(* reach every one of them.                                                 *)
(***************************************************************************)
EXTENDS Integers, FiniteSets, FiniteSetsExt

CONSTANTS
    Sector,                     \* getSectorForSymbol: [symbol -> sector]
    MIN_CONFIDENCE,             \* 75
    MAX_NOTIONAL_GBP,           \* 250
    MIN_CONFIDENCE_IMPROVEMENT, \* 5
    MAX_POSITION_VALUE_GBP,     \* 750
    MAX_OPEN_TRADES,            \* 5
    MAX_SECTOR_OPEN_TRADES,     \* 3
    MAX_SAME_DIRECTION_TRADES,  \* 4
    MAX_CAPITAL_DEPLOYED,       \* 60 % of the starting capital, 6000
    MAX_SECTOR_EXPOSURE,        \* 30 % of the starting capital, 3000
    CASH_BALANCE,               \* 3250
    MIN_CASH_REMAINING_GBP      \* 1000

\* A first position is not compared with the position value: one trade is within it.
ASSUME LimitsAssumption ==
    /\ MAX_NOTIONAL_GBP \in Nat /\ MIN_CONFIDENCE_IMPROVEMENT \in Nat
    /\ MAX_OPEN_TRADES \in Nat /\ MAX_SAME_DIRECTION_TRADES \in Nat
    /\ MAX_CAPITAL_DEPLOYED \in Nat /\ MAX_SECTOR_EXPOSURE \in Nat
    /\ MAX_SECTOR_OPEN_TRADES \in Nat
    /\ MAX_POSITION_VALUE_GBP \in Nat /\ MAX_NOTIONAL_GBP <= MAX_POSITION_VALUE_GBP
    /\ CASH_BALANCE \in Nat /\ MIN_CASH_REMAINING_GBP \in 0..CASH_BALANCE

Side == {"BUY", "SELL"}
Strategies == {"moving-average-crossover", "rsi-reversal", "momentum"}
Opposite(side) == IF side = "BUY" THEN "SELL" ELSE "BUY"
Magnitude(n) == IF n < 0 THEN -n ELSE n
Clamp(value, low, high) == Min({high, Max({low, value})})

-----------------------------------------------------------------------------
(* Strategy contexts.  price and the averages in pence, the rest x 100.    *)

Trend(changePercent) ==
    IF changePercent > 100 THEN "Bullish"
    ELSE IF changePercent < -100 THEN "Bearish" ELSE "Neutral"

\* Everything derived from one day's snapshot: no history is available.
SnapshotContext(price, changeAbsolute, changePercent, volumeRatio) ==
    [price |-> price,
     short |-> price - changeAbsolute \div 2,
     long  |-> price - (5 * changeAbsolute) \div 2,
     rsi   |-> Clamp(5000 + 12 * changePercent, 0, 10000),
     volumeRatio     |-> Clamp(volumeRatio, 30, 300),
     trend           |-> Trend(changePercent),
     momentumPercent |-> changePercent]

Verdict(signal, confidence) == [signal |-> signal, confidence |-> confidence]
Percent(hundredths) == (hundredths + 50) \div 100       \* Math.round

Momentum(c) ==
    LET move == Magnitude(c.momentumPercent)
        sure == Clamp(Percent(5000 + 8 * move + 10 * (c.volumeRatio - 100)), 50, 95)
        confirmed == move > 100 /\ c.volumeRatio > 120
    IN  IF confirmed /\ c.momentumPercent > 0 /\ c.trend # "Bearish" THEN Verdict("BUY", sure)
        ELSE IF confirmed /\ c.momentumPercent < 0 /\ c.trend # "Bullish" THEN Verdict("SELL", sure)
        ELSE Verdict("HOLD", Clamp(Percent(5000 + 4 * move), 50, 65))

MovingAverageCrossover(c) ==
    LET gap  == Magnitude(c.short - c.long)
        sure == Clamp((2 * 50 * c.long + 1000 * gap + c.long) \div (2 * c.long), 50, 95)
    IN  CASE c.short > c.long /\ c.price > c.short -> Verdict("BUY", sure)
          [] c.short < c.long /\ c.price < c.short -> Verdict("SELL", sure)
          [] OTHER                                 -> Verdict("HOLD", 50)

RsiReversal(c) ==
    LET distance == Magnitude(c.rsi - 5000)
    IN  CASE c.rsi >= 7000 -> Verdict("SELL", Clamp(Percent(5000 + distance), 50, 95))
          [] c.rsi <= 3000 -> Verdict("BUY", Clamp(Percent(5000 + distance), 50, 95))
          [] OTHER -> Verdict("HOLD", Clamp(Percent(5000 + distance \div 2), 50, 70))

Evaluate(c) ==
    [s \in Strategies |-> CASE s = "momentum"     -> Momentum(c)
                            [] s = "rsi-reversal" -> RsiReversal(c)
                            [] OTHER              -> MovingAverageCrossover(c)]

-----------------------------------------------------------------------------
(* One score per instrument.                                               *)

Voters(results, signal) == {s \in Strategies : results[s].signal = signal}

\* A majority of two always leaves exactly one dissenter.
Aggregate(results) ==
    LET majority == {x \in {"BUY", "SELL", "HOLD"} : Cardinality(Voters(results, x)) >= 2}
        signal == IF majority = {} THEN "HOLD" ELSE CHOOSE x \in majority : TRUE
        agreeing == Voters(results, signal)
        dissent == {results[s].signal : s \in Strategies \ agreeing}
        agreement ==
            CASE majority = {} -> "Conflict"
              [] dissent = {}  -> "Strong Agreement"
              [] signal # "HOLD" /\ Opposite(signal) \in dissent -> "Mixed Signals"
              [] OTHER -> "Moderate Agreement"
        total == MapThenSumSet(LAMBDA s : results[s].confidence, agreeing)
        n == Cardinality(agreeing)
    IN  [signal |-> signal, agreement |-> agreement,
         confidence |-> (2 * total + n) \div (2 * n)]

MapToRecommendation(score) ==
    CASE score.agreement = "Conflict" -> "Avoid"
      [] score.agreement # "Conflict" /\ score.signal = "HOLD" -> "Hold"
      [] score.signal = "SELL" -> "Strong Sell"
      [] score.signal = "BUY" ->
            IF score.agreement = "Strong Agreement" /\ score.confidence >= 75
              THEN "Strong Buy" ELSE "Buy"

IsTradeable(score) == MapToRecommendation(score) \in {"Strong Buy", "Buy", "Strong Sell"}
SideFor(score) == IF MapToRecommendation(score) = "Strong Sell" THEN "SELL" ELSE "BUY"

-----------------------------------------------------------------------------
(* Sizes and values.  A trade holds symbol, side, source, quantity, price,  *)
(* confidence, agreement, state, pnl and its place `id' in time.            *)

BotQuantity(price) == MAX_NOTIONAL_GBP \div price
SignalQuantity(price) == Max({1, (2 * MAX_NOTIONAL_GBP + price) \div (2 * price)})

Notional(trade) == trade.quantity * trade.price
TotalNotional(book) == MapThenSumSet(Notional, book)
OpenIn(book) == {t \in book : t.state = "Open"}
ClosedIn(book) == {t \in book : t.state = "Closed"}
OfSide(book, side) == {t \in book : t.side = side}
OfSymbol(book, symbol) == {t \in book : t.symbol = symbol}
OfSector(book, sector) == {t \in book : Sector[t.symbol] = sector}
Result(trade) == trade.pnl
TotalResult(book) == MapThenSumSet(Result, book)

TradePnl(trade, exitPrice) ==
    trade.quantity * (IF trade.side = "SELL" THEN trade.price - exitPrice
                                             ELSE exitPrice - trade.price)

-----------------------------------------------------------------------------
(* Tier 1: the individual checks.                                          *)

PassesIndividual(score, price) ==
    /\ score.confidence >= MIN_CONFIDENCE
    /\ score.agreement # "Conflict"
    /\ BotQuantity(price) >= 1

(* Tier 2: the Position Manager.  paced: half an hour has passed since the  *)
(* instrument's last trade, open or closed.                                *)

AgreementRank == [a \in {"Strong Agreement", "Moderate Agreement", "Mixed Signals", "Conflict"} |->
    CASE a = "Strong Agreement" -> 3 [] a = "Moderate Agreement" -> 2
      [] a = "Mixed Signals" -> 1    [] OTHER -> 0]

\* The latest open trade of the bot itself: only those carry a comparable score.
LatestBot(book, symbol, side) ==
    LET own == {t \in OpenIn(book) : t.symbol = symbol /\ t.side = side /\ t.source = "Bot"}
    IN  {t \in own : \A u \in own : u.id <= t.id}

EvaluatePosition(book, paced, symbol, side, score, notional) ==
    LET held == OfSymbol(OpenIn(book), symbol)
        fits == TotalNotional(OfSide(held, side)) + notional <= MAX_POSITION_VALUE_GBP
        stronger == \E t \in LatestBot(book, symbol, side) :
                       /\ score.confidence >= t.confidence + MIN_CONFIDENCE_IMPROVEMENT
                       /\ AgreementRank[score.agreement] >= AgreementRank[t.agreement]
    IN  CASE held = {}                        -> "NEW_POSITION"
          [] OfSide(held, Opposite(side)) # {} -> "BLOCK_POSITION"
          [] OTHER -> IF ~fits THEN "BLOCK_POSITION"
                      ELSE IF stronger /\ paced THEN "ADD_TO_POSITION"
                      ELSE "HOLD_POSITION"

(* Tier 3: the portfolio.                                                  *)

AvailableCash(book) ==
    100 * (CASH_BALANCE - TotalNotional(OpenIn(book))) + TotalResult(ClosedIn(book))

\* Mutant: the book as it is must keep the limits, not the book with the candidate in it.
EvaluatePortfolioRiskAsHeld(book, symbol, side, notional) ==
    LET open == OpenIn(book)
        sector == OfSector(open, Sector[symbol])
    IN  /\ Cardinality(open) <= MAX_OPEN_TRADES
        /\ TotalNotional(open) <= MAX_CAPITAL_DEPLOYED
        /\ TotalNotional(sector) <= MAX_SECTOR_EXPOSURE
        /\ Cardinality(sector) <= MAX_SECTOR_OPEN_TRADES
        /\ AvailableCash(book) >= 100 * MIN_CASH_REMAINING_GBP
        /\ Cardinality(OfSide(open, side)) <= MAX_SAME_DIRECTION_TRADES

EvaluatePortfolioRisk(book, symbol, side, notional) ==
    LET open == OpenIn(book)
        sector == OfSector(open, Sector[symbol])
    IN  /\ Cardinality(open) + 1 <= MAX_OPEN_TRADES
        /\ TotalNotional(open) + notional <= MAX_CAPITAL_DEPLOYED
        /\ TotalNotional(sector) + notional <= MAX_SECTOR_EXPOSURE
        /\ Cardinality(sector) + 1 <= MAX_SECTOR_OPEN_TRADES
        /\ AvailableCash(book) - 100 * notional >= 100 * MIN_CASH_REMAINING_GBP
        /\ Cardinality(OfSide(open, side)) + 1 <= MAX_SAME_DIRECTION_TRADES

-----------------------------------------------------------------------------
(* One scan.  scores: [symbol -> score]; price: [symbol -> pounds].  Every  *)
(* candidate meets the same book, and the best-ranked one that passes every *)
(* tier is opened; instruments of equal confidence keep the list's order,   *)
(* here any.  The result is the set of trades the scan may open: empty when *)
(* every candidate is rejected.                                            *)

Candidates(scores) ==
    {s \in DOMAIN scores : scores[s].signal # "HOLD" /\ IsTradeable(scores[s])}

PassesAllTiers(book, pacedIn, symbol, score, price) ==
    LET side == SideFor(score)
        notional == BotQuantity(price) * price
    IN  /\ PassesIndividual(score, price)
        /\ EvaluatePosition(book, symbol \in pacedIn, symbol, side, score, notional)
             \in {"NEW_POSITION", "ADD_TO_POSITION"}
        /\ EvaluatePortfolioRisk(book, symbol, side, notional)

RunBotScan(book, pacedIn, scores, price) ==
    LET passing == {s \in Candidates(scores) :
                       PassesAllTiers(book, pacedIn, s, scores[s], price[s])}
        best == {s \in passing : \A t \in passing : scores[t].confidence <= scores[s].confidence}
    IN  {[symbol |-> s, side |-> SideFor(scores[s]), source |-> "Bot",
          quantity |-> BotQuantity(price[s]), price |-> price[s],
          confidence |-> scores[s].confidence, agreement |-> scores[s].agreement] : s \in best}

-----------------------------------------------------------------------------
(* Provenance of a scan, from one result per data touchpoint.              *)

TelemetryResult(telemetry) ==
    IF telemetry.usedFallback THEN "fallback"
    ELSE IF telemetry.source = "External" THEN "external" ELSE "mock"

CombineDataSourceResults(results) ==
    CASE results = {}             -> "sample_data"
      [] "fallback" \in results    -> "fallback_sample_data"
      [] results = {"external"}    -> "verified_external_data"
      [] OTHER                    -> "sample_data"

(* Outcomes.  A record awaits its outcome until the trade it opened is seen *)
(* closed; one penny either way of zero is neutral.                        *)

ClassifyOutcome(pnl) == IF pnl > 1 THEN "Win" ELSE IF pnl < -1 THEN "Loss" ELSE "Neutral"

\* Mutant: an open trade is taken for closed.
FindReconcilableOpen(view, record) ==
    {id \in DOMAIN record : record[id] = "Pending" /\ view[id].state # "Absent"}

FindReconcilable(view, record) ==
    {id \in DOMAIN record : record[id] = "Pending" /\ view[id].state = "Closed"}

\* Mutant: the trade's own status is copied.
ApplyOutcomesStatus(view, record, ids) ==
    [id \in DOMAIN record |-> IF id \in ids THEN view[id].state ELSE record[id]]

ApplyOutcomes(view, record, ids) ==
    [id \in DOMAIN record |-> IF id \in ids THEN ClassifyOutcome(view[id].pnl) ELSE record[id]]
=============================================================================
