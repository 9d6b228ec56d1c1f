---------------------------- MODULE MarketRules ----------------------------
(***************************************************************************)
(* The pure rules between a market and a decision: which candle history is  *)
(* accepted, the indicators computed from it, the strategies' decisions,    *)
(* and the risk checks an order passes.  Time is in minutes of the equity   *)
(* session's own time zone, minute 0 a Monday midnight; prices are whole.   *)
(* Averages are exact fractions <<numerator, denominator>>.                 *)
(***************************************************************************)
EXTENDS Integers, Sequences, SequencesExt, FiniteSets, FiniteSetsExt

CONSTANTS
    CRYPTO_SYMBOLS,
    SESSION_START, SESSION_END,     \* 09:30 and 16:00, in minutes of the day
    MIN_REQUIRED_CANDLES,           \* 50
    MAX_EXPLAINABLE_GAP,            \* ten days
    MAX_BOUNDARY_CHECKS,            \* 20000
    EMA_SHORT_PERIOD, EMA_LONG_PERIOD, RSI_PERIOD, ATR_PERIOD   \* 20, 50, 14, 14

Day == 1440
IsMarketOpen(t) ==
    /\ (t \div Day) % 7 < 5
    /\ SESSION_START <= t % Day /\ t % Day < SESSION_END

ResolveMarketSession(instrument, hourUtc) ==
    CASE instrument \in CRYPTO_SYMBOLS -> "Crypto Always Open"
      [] instrument \notin CRYPTO_SYMBOLS /\ hourUtc < 8 -> "Asia"
      [] instrument \notin CRYPTO_SYMBOLS /\ hourUtc \in 8..13 -> "Europe"
      [] OTHER -> "US"

-----------------------------------------------------------------------------
(* validateHistoricalCandles.  A price of 0 stands for one that is not      *)
(* positive or not finite, a time below 0 for an unparseable one, and a     *)
(* volume is {} when the source gave none.                                  *)

IsDuplicate(candles, i) == \E j \in 1 .. (i - 1) : candles[j].at = candles[i].at
IsMalformed(c) ==
    \/ c.at < 0
    \/ 0 \in {c.open, c.high, c.low, c.close}
    \/ c.high < c.low
    \/ ~({c.open, c.close} \subseteq c.low .. c.high)
    \/ \E v \in c.volume : v < 0

TimesOf(candles) == {c.at : c \in ToSet(candles)}
Boundaries(prev, curr, interval) ==
    {prev + k * interval : k \in 1 .. ((curr - prev - 1) \div interval)}

\* isGapExplainedByMarketClosure
ExplainedByClosure(prev, curr, interval) ==
    /\ curr - prev <= MAX_EXPLAINABLE_GAP
    /\ (curr - prev) <= MAX_BOUNDARY_CHECKS * interval
    /\ \A t \in Boundaries(prev, curr, interval) : ~IsMarketOpen(t)

\* Two times that follow each other when all are sorted.
Consecutive(prev, curr, times) == prev < curr /\ \A t \in times : t <= prev \/ curr <= t

\* Mutant: one missing candle is no gap.
WideGapsLax(times, interval) ==
    {g \in times \X times : Consecutive(g[1], g[2], times) /\ g[2] - g[1] > 2 * interval}

WideGaps(times, interval) ==
    {g \in times \X times : Consecutive(g[1], g[2], times) /\ 2 * (g[2] - g[1]) > 3 * interval}

MissingCandles(times, instrument, interval) ==
    \E g \in WideGaps(times, interval) :
        instrument \in CRYPTO_SYMBOLS \/ ~ExplainedByClosure(g[1], g[2], interval)

ValidateHistoricalCandles(candles, instrument, interval, maxAge, now) ==
    LET bad == {i \in DOMAIN candles : IsDuplicate(candles, i) \/ IsMalformed(candles[i])}
        times == TimesOf(candles)
    IN  IF Len(candles) < MIN_REQUIRED_CANDLES THEN "insufficient-candle-count"
        ELSE IF bad # {} THEN IF IsDuplicate(candles, Min(bad)) THEN "duplicate-timestamp"
                              ELSE "malformed-candle"
        ELSE IF MissingCandles(times, instrument, interval) THEN "missing-candles"
        ELSE IF \A t \in times : now - t > maxAge THEN "stale-data"
        ELSE "valid"

\* diagnoseCandleGaps reports every wide gap, explained or not.
DiagnoseCandleGaps(candles, interval) ==
    [count      |-> Len(candles),
     duplicates |-> {candles[i].at : i \in {j \in DOMAIN candles : IsDuplicate(candles, j)}},
     gaps       |-> WideGaps({t \in TimesOf(candles) : t >= 0}, interval)]

\* LiveMarketDataProvider.getMarketData: the quote, then the history; {} is a failed fetch.
GetMarketData(rate, history, instrument, interval, maxAge, now) ==
    IF rate = {} THEN "fetch-failed"
    ELSE IF \E r \in rate : r.bid = 0 \/ r.ask < r.bid THEN "malformed-data"
    ELSE IF history = {} THEN "fetch-failed"
    ELSE ValidateHistoricalCandles(CHOOSE h \in history : TRUE, instrument, interval, maxAge, now)

-----------------------------------------------------------------------------
(* Indicators.                                                             *)

Sum(numbers) == FoldLeft(LAMBDA a, b : a + b, 0, numbers)
Average(numbers) == <<Sum(numbers), Len(numbers)>>
Less(a, b) == a[1] * b[2] < b[1] * a[2]

CalculateEma(values, period) ==
    IF values = <<>> THEN <<0, 1>>
    ELSE IF Len(values) < period THEN Average(values)
    ELSE FoldLeft(LAMBDA ema, v : <<2 * v * ema[2] + (period - 1) * ema[1], (period + 1) * ema[2]>>,
                  Average(SubSeq(values, 1, period)), SubSeq(values, period + 1, Len(values)))

Changes(values) == [i \in 1 .. (Len(values) - 1) |-> values[i + 1] - values[i]]
Gain(change) == IF change > 0 THEN change ELSE 0
Loss(change) == IF change < 0 THEN -change ELSE 0

\* Wilder's smoothing of numbers: the average of the first period of them, then (period - 1) : 1.
Smoothed(numbers, period) ==
    FoldLeft(LAMBDA avg, n : <<(period - 1) * avg[1] + n * avg[2], period * avg[2]>>,
             Average(SubSeq(numbers, 1, period)), SubSeq(numbers, period + 1, Len(numbers)))

\* Mutant: losses keep their sign.
CalculateRsiSigned(values, period) ==
    IF Len(values) < period + 1 THEN <<50, 1>>
    ELSE LET gain == Smoothed([i \in DOMAIN Changes(values) |-> Gain(Changes(values)[i])], period)
             loss == Smoothed([i \in DOMAIN Changes(values) |-> -Loss(Changes(values)[i])], period)
         IN  IF loss[1] = 0 THEN <<100, 1>> ELSE <<100 * gain[1], gain[1] + loss[1]>>

CalculateRsi(values, period) ==
    IF Len(values) < period + 1 THEN <<50, 1>>
    ELSE LET gain == Smoothed([i \in DOMAIN Changes(values) |-> Gain(Changes(values)[i])], period)
             loss == Smoothed([i \in DOMAIN Changes(values) |-> Loss(Changes(values)[i])], period)
         IN  IF loss[1] = 0 THEN <<100, 1>> ELSE <<100 * gain[1], gain[1] + loss[1]>>

TrueRanges(candles) ==
    [i \in 1 .. (Len(candles) - 1) |->
        LET c == candles[i + 1]
            p == candles[i].close
        IN  Max({c.high - c.low, c.high - p, p - c.high, c.low - p, p - c.low})]
CalculateAtr(candles, period) ==
    IF Len(candles) < 2 THEN <<0, 1>>
    ELSE IF Len(candles) - 1 < period THEN Average(TrueRanges(candles))
    ELSE Smoothed(TrueRanges(candles), period)

\* Within a tenth of a percent the averages count as equal.
ClassifyTrend(short, long) ==
    LET gap == short[1] * long[2] - long[1] * short[2]
    IN  CASE 1000 * gap > long[1] * short[2]  -> "Bullish"
          [] 1000 * gap < -long[1] * short[2] -> "Bearish"
          [] OTHER -> "Sideways"

\* MarketIntelligenceBuilder.build, over the snapshot and the broker's own positions.
BuildContext(instrument, candles, positions) ==
    LET closes == [i \in DOMAIN candles |-> candles[i].close]
        short  == CalculateEma(closes, EMA_SHORT_PERIOD)
        long   == CalculateEma(closes, EMA_LONG_PERIOD)
    IN  [instrument |-> instrument, positionOpen |-> instrument \in positions,
         ema20 |-> short, ema50 |-> long, rsi14 |-> CalculateRsi(closes, RSI_PERIOD),
         atr14 |-> CalculateAtr(candles, ATR_PERIOD), trend |-> ClassifyTrend(short, long)]

-----------------------------------------------------------------------------
(* Strategies.  Confidence and scores are in hundredths, scores rounded down. *)

Decision(action, confidence) == [action |-> action, confidence |-> confidence]
Clamped(n) == Min({100, Max({0, n})})

RsiInEntryBand(rsi) == 45 * rsi[2] <= rsi[1] /\ rsi[1] <= 65 * rsi[2]
RsiScore(rsi) ==                                   \* 100 at 55, 0 ten points away
    LET away == IF rsi[1] > 55 * rsi[2] THEN rsi[1] - 55 * rsi[2] ELSE 55 * rsi[2] - rsi[1]
    IN  100 - Clamped((10 * away) \div rsi[2])
EmaScore(above, below) ==                          \* 100 at a gap of two percent
    LET gap == above[1] * below[2] - below[1] * above[2]
    IN  Clamped((5000 * gap) \div (below[1] * above[2]))

MeetsEntry(c) == Less(c.ema50, c.ema20) /\ RsiInEntryBand(c.rsi14) /\ c.trend = "Bullish"
EntryConfidence(c) == (6000 + 25 * RsiScore(c.rsi14) + 15 * EmaScore(c.ema20, c.ema50) + 50) \div 100
ExitGap(c) == Clamped((5000 * (c.ema50[1] * c.ema20[2] - c.ema20[1] * c.ema50[2]))
                        \div (c.ema50[1] * c.ema20[2]))
ExitConfidence(c) == (7500 + 20 * ExitGap(c) + 50) \div 100

Demo0001(c) ==
    IF c.positionOpen
    THEN IF c.trend = "Bearish" THEN Decision("SELL", ExitConfidence(c)) ELSE Decision("HOLD", 55)
    ELSE IF MeetsEntry(c) THEN Decision("BUY", EntryConfidence(c)) ELSE Decision("HOLD", 50)

\* Mutant: the first proposal for the instrument is followed, whatever is held.
HermesAgentUnchecked(c, proposals) ==
    LET mine == {p \in proposals : p.instrument = c.instrument}
    IN  IF mine = {} THEN Decision("HOLD", 50)
        ELSE Decision((CHOOSE p \in mine : TRUE).action, (CHOOSE p \in mine : TRUE).confidence)

\* HermesAgentStrategy.evaluate: the proposals this scan selected, at most one per instrument.
HermesAgent(c, proposals) ==
    LET wanted == IF c.positionOpen THEN "SELL" ELSE "BUY"
        mine   == {p \in proposals : p.instrument = c.instrument /\ p.action = wanted}
    IN  IF mine = {} THEN Decision("HOLD", 50)
        ELSE Decision(wanted, (CHOOSE p \in mine : TRUE).confidence)

-----------------------------------------------------------------------------
\* runMarketDecisionCycle, the one-shot cycle: what it does with a decision.
RunMarketDecisionCycle(decision, blocked, instrument, positions) ==
    CASE decision.action = "HOLD" -> "skipped"
      [] decision.action = "BUY"  -> IF blocked THEN "blocked" ELSE "opened"
      [] OTHER -> IF instrument \in positions THEN "closed" ELSE "error"
=============================================================================
