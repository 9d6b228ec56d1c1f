---------------------------- MODULE MarketChecks ----------------------------
(* What the market rules guarantee, over short candle histories. *)
EXTENDS CheckState

CONSTANTS
    CRYPTO_SYMBOLS, SESSION_START, SESSION_END, MIN_REQUIRED_CANDLES, MAX_EXPLAINABLE_GAP,
    MAX_BOUNDARY_CHECKS, EMA_SHORT_PERIOD, EMA_LONG_PERIOD, RSI_PERIOD, ATR_PERIOD
MR == INSTANCE MarketRules

ASSUME MarketAssumption ==
    /\ SESSION_START \in Nat /\ SESSION_END \in Nat
    /\ MIN_REQUIRED_CANDLES \in Nat /\ MAX_EXPLAINABLE_GAP \in Nat /\ MAX_BOUNDARY_CHECKS \in Nat
    /\ {EMA_SHORT_PERIOD, EMA_LONG_PERIOD, RSI_PERIOD, ATR_PERIOD} \subseteq Nat \ {0}

\* Hourly candles around a weekend: Friday 14:00 and 15:00, Saturday noon, Monday 9:00 to 11:00.
Friday == 4 * 1440
Times == {Friday + 840, Friday + 900, Friday + 2160, Friday + 4860, Friday + 4920, Friday + 4980}
Bar(t, shape) == [at |-> t, open |-> 5, high |-> IF shape = "inverted" THEN 3 ELSE 6, low |-> 4,
                  close |-> IF shape = "no price" THEN 0 ELSE 5, volume |-> IF shape = "bad volume" THEN {-1} ELSE {}]
Histories ==
    {[i \in 1 .. 4 |-> Bar(t[i], "sound")] : t \in [1 .. 4 -> Times]}
      \cup {<<Bar(60, "sound"), Bar(120, s), Bar(180, "sound")>> : s \in {"inverted", "no price", "bad volume"}}
      \cup {<<Bar(60, "sound"), Bar(120, "sound")>>}
HistoryInputs ==
    {[rate |-> {[bid |-> 5, ask |-> 6]}, history |-> {h}, instrument |-> i, interval |-> 60, maxAge |-> 120,
      now |-> Friday + 5000] : h \in Histories, i \in {"BTC", "AAPL"}}
      \cup {[rate |-> r, history |-> h, instrument |-> "BTC", interval |-> 60, maxAge |-> 120, now |-> 200] :
               r \in {{}, {[bid |-> 6, ask |-> 5]}, {[bid |-> 5, ask |-> 6]}},
               h \in {{}, {<<Bar(60, "sound"), Bar(120, "sound"), Bar(180, "sound")>>}}}

Closes == [1 .. 4 -> {100, 103, 108}]
BarsOf(closes) == [i \in DOMAIN closes |-> [Bar(60 * i, "sound") EXCEPT !.high = closes[i] + 2, !.low = closes[i] - 2,
                                                                         !.open = closes[i], !.close = closes[i]]]
Proposed == [instrument : {"BTC"}, action : {"BUY", "SELL"}, confidence : {80}]
DecisionInputs ==
    {[instrument |-> "BTC", candles |-> BarsOf(c), positions |-> p, proposals |-> q] :
        c \in Closes, p \in {{}, {"BTC"}}, q \in {{}} \cup {{x} : x \in Proposed}}

Verdict(i) == MR!GetMarketData(i.rate, i.history, i.instrument, i.interval, i.maxAge, i.now)
Context(i) == MR!BuildContext(i.instrument, i.candles, i.positions)
Decided(i) == LET context == Context(i) IN
              [context |-> context, demo |-> MR!Demo0001(context), hermes |-> MR!HermesAgent(context, i.proposals)]

AskMarket == Ask("history", HistoryInputs, Verdict) \/ Ask("decision", DecisionInputs, Decided)

-----------------------------------------------------------------------------
\* In a history that is accepted, its candles on one grid and in whatever order, every time of the
\* grid between the oldest and the newest at which the market is open has its candle, and the newest
\* is recent (candle-validation.ts 272-401).
AcceptedHistoryIsComplete ==
    topic = "history" /\ output = "valid" =>
        LET times == {c.at : c \in UNION {ToSet(h) : h \in input.history}}
            Open(t) == input.instrument \in CRYPTO_SYMBOLS \/ MR!IsMarketOpen(t)
        IN  /\ \A s, e \in times : \A k \in 1 .. (e - s) \div input.interval :
                  LET t == s + k * input.interval
                  IN  t < e /\ Open(t) => t \in times
            /\ \E t \in times : input.now - t <= input.maxAge

\* What the model of the market says stays inside what the market did: averages within the closes,
\* RSI within 0 and 100, ATR no less than the narrowest candle and no more than the whole range
\* (technical-indicators.ts).
IndicatorsInRange ==
    topic = "decision" =>
        LET c == output.context
            candles == ToSet(input.candles)
            closes == {k.close : k \in candles}
            Within(fraction, low, high) == low * fraction[2] <= fraction[1] /\ fraction[1] <= high * fraction[2]
        IN  /\ Within(c.ema20, Min(closes), Max(closes)) /\ Within(c.ema50, Min(closes), Max(closes))
            /\ Within(c.rsi14, 0, 100)
            /\ Within(c.atr14, Min({k.high - k.low : k \in candles}),
                              Max({k.high : k \in candles}) - Min({k.low : k \in candles}))

\* A strategy buys only what is not held and sells only what is, so that no decision ends the cycle
\* in an error, and its confidence stays in its own band (demo-0001-strategy.ts, hermes-agent-strategy.ts).
DecisionFitsBook ==
    topic = "decision" =>
        /\ \A d \in {output.demo, output.hermes} :
              MR!RunMarketDecisionCycle(d, FALSE, input.instrument, input.positions) # "error"
              /\ (d.action = "BUY" => input.instrument \notin input.positions)
        /\ output.demo.action = "BUY" => output.demo.confidence \in 60 .. 100
        /\ output.demo.action = "SELL" => output.demo.confidence \in 75 .. 95

\* A decision rests on a whole history, on indicators within their ranges and on the
\* positions that are there: the conjunction of the three above.
DecisionIsGrounded == AcceptedHistoryIsComplete /\ IndicatorsInRange /\ DecisionFitsBook
=============================================================================
