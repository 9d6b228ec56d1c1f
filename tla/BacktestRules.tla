--------------------------- MODULE BacktestRules ---------------------------
(***************************************************************************)
(* A backtest: which candle dataset is accepted, how a rule is evaluated on *)
(* a bar, and the bar-by-bar engine that turns signals into trades.  Prices *)
(* are whole; money and quantities are exact fractions in lowest terms.     *)
(***************************************************************************)
EXTENDS Integers, Sequences, SequencesExt, FiniteSets, FiniteSetsExt

CONSTANTS MAX_DATASET_CANDLES       \* 5000

MK == INSTANCE MarketRules WITH
          CRYPTO_SYMBOLS <- {}, SESSION_START <- 0, SESSION_END <- 0, MIN_REQUIRED_CANDLES <- 0,
          MAX_EXPLAINABLE_GAP <- 0, MAX_BOUNDARY_CHECKS <- 0,
          EMA_SHORT_PERIOD <- 1, EMA_LONG_PERIOD <- 1, RSI_PERIOD <- 1, ATR_PERIOD <- 1

-----------------------------------------------------------------------------
(* Fractions.                                                              *)

RECURSIVE Gcd(_, _)
Gcd(a, b) == IF b = 0 THEN a ELSE Gcd(b, a % b)
Abs(n) == IF n < 0 THEN -n ELSE n
Lowest(n, d, g) == <<n \div g, d \div g>>
Frac(n, d) == Lowest(n, d, Gcd(Abs(n), d))
Whole(n) == <<n, 1>>
Sum2(a, b, g) == Frac(a[1] * (b[2] \div g) + b[1] * (a[2] \div g), a[2] * (b[2] \div g))
Plus(a, b) == Sum2(a, b, Gcd(a[2], b[2]))
Minus(a, b) == Plus(a, <<-b[1], b[2]>>)
Product(a, b, g, h) == <<(a[1] \div g) * (b[1] \div h), (a[2] \div h) * (b[2] \div g)>>
Times(a, b) == Product(a, b, Gcd(Abs(a[1]), b[2]), Gcd(Abs(b[1]), a[2]))
Over(a, b) == Times(a, <<b[2], b[1]>>)                   \* by a positive one
Total(fractions) == FoldLeft(Plus, Whole(0), fractions)

-----------------------------------------------------------------------------
(* Datasets.  A candle time below 0 is unparseable, a price of 0 not        *)
(* positive, a volume below 0 not finite.  The volume is a set: it may be   *)
(* missing.                                                                *)

CandleError(c) ==
    CASE c.extraKeys # {} -> "PROHIBITED_FIELD"
      [] c.extraKeys = {} /\ c.at < 0 -> "UNPARSEABLE_TIMESTAMP"
      [] c.extraKeys = {} /\ c.at >= 0 /\ 0 \in {c.open, c.high, c.low, c.close} -> "INVALID_OHLC"
      [] OTHER -> IF \E v \in c.volume : v < 0 THEN "NON_FINITE_VALUE"
                  ELSE IF c.high < c.low \/ ~({c.open, c.close} \subseteq c.low .. c.high) THEN "INVALID_OHLC" ELSE "none"

\* validateKnownClosures: the closures are declared for this very dataset.
ClosureError(closures, doc, i) ==
    LET c == closures[i]
    IN  IF c.extraKeys # {} THEN "PROHIBITED_FIELD"
        ELSE IF \/ ~c.complete \/ c.status # "VERIFIED_EXCEPTION"
                \/ c.timeframe # doc.timeframe \/ c.symbol # doc.instrument
                \/ c.missing % doc.interval # 0
             THEN "MALFORMED_CLOSURE_ENTRY"
        ELSE IF \E j \in 1 .. (i - 1) : closures[j].missing = c.missing THEN "DUPLICATE_CLOSURE_ENTRY"
        ELSE "none"

FirstError(Error(_), indices) ==
    LET bad == {i \in indices : Error(i) # "none"} IN IF bad = {} THEN "none" ELSE Error(Min(bad))

\* The bars missing between two candles; explained only when the gap is a multiple of the interval
\* and each of them is a declared closure.
MissingBars(prev, curr, interval) == {prev + k * interval : k \in 1 .. ((curr - prev) \div interval - 1)}

\* Mutant: the gap need not be a whole number of bars.
ExplainedLoose(prev, curr, doc) ==
    MissingBars(prev, curr, doc.interval) \subseteq {c.missing : c \in ToSet(doc.closures)}

Explained(prev, curr, doc) ==
    /\ (curr - prev) % doc.interval = 0
    /\ MissingBars(prev, curr, doc.interval) # {}
    /\ MissingBars(prev, curr, doc.interval) \subseteq {c.missing : c \in ToSet(doc.closures)}

GapError(doc, i) ==
    LET at   == doc.candles[i].at
        prev == doc.candles[i - 1].at
    IN  IF \E j \in 1 .. (i - 1) : doc.candles[j].at = at THEN "DUPLICATE_TIMESTAMP"
        ELSE IF at < prev THEN "OUT_OF_ORDER_TIMESTAMP"
        ELSE IF at - prev # doc.interval /\ ~Explained(prev, at, doc) THEN "GAP_DETECTED"
        ELSE "none"

Unapplied(doc) ==
    {c \in ToSet(doc.closures) : \A i \in 2 .. Len(doc.candles) :
        c.missing \notin MissingBars(doc.candles[i - 1].at, doc.candles[i].at, doc.interval)}

\* validateCandleDataset, in the order of its checks.
ValidateCandleDataset(doc) ==
    LET shape   == IF doc.extraKeys # {} THEN "PROHIBITED_FIELD"
                   ELSE IF doc.instrument = "" THEN "MISSING_REQUIRED_FIELD"
                   ELSE IF doc.interval = 0 THEN "INVALID_TIMEFRAME" ELSE "none"
        closure == FirstError(LAMBDA i : ClosureError(doc.closures, doc, i), DOMAIN doc.closures)
        count   == IF Len(doc.candles) < 2 THEN "INSUFFICIENT_CANDLES"
                   ELSE IF Len(doc.candles) > MAX_DATASET_CANDLES THEN "TOO_MANY_CANDLES" ELSE "none"
        candle  == FirstError(LAMBDA i : CandleError(doc.candles[i]), DOMAIN doc.candles)
        gap     == FirstError(LAMBDA i : GapError(doc, i), 2 .. Len(doc.candles))
    IN  IF shape # "none" THEN shape ELSE IF closure # "none" THEN closure
        ELSE IF count # "none" THEN count ELSE IF candle # "none" THEN candle
        ELSE IF gap # "none" THEN gap
        ELSE IF Unapplied(doc) # {} THEN "UNAPPLIED_CLOSURE_ENTRY" ELSE "accepted"

-----------------------------------------------------------------------------
(* Rules on a bar.  A value is a fraction in a set, {} when it is undefined. *)

Field(candle, field) ==
    {Whole(v) : v \in CASE field = "open" -> {candle.open} [] field = "high" -> {candle.high}
                        [] field = "low" -> {candle.low}   [] field = "close" -> {candle.close}
                        [] OTHER -> candle.volume}

\* What an indicator is computed from: there a missing volume counts as 0.
SourceValue(candle, field) == IF Field(candle, field) = {} THEN 0 ELSE (CHOOSE v \in Field(candle, field) : TRUE)[1]

\* Mutant: the average is of the whole history.
IndicatorOfAll(indicator, candles, i) ==
    MK!CalculateEma([k \in DOMAIN candles |-> SourceValue(candles[k], indicator.sourceField)], indicator.period)

\* computeIndicatorSeries at bar i, from the candles up to i only.
IndicatorAt(indicator, candles, i) ==
    LET causal == SubSeq(candles, 1, i)
        values == [k \in 1 .. i |-> SourceValue(causal[k], indicator.sourceField)]
    IN  CASE indicator.type = "EMA" -> MK!CalculateEma(values, indicator.period)
          [] indicator.type = "RSI" -> MK!CalculateRsi(values, indicator.period)
          [] OTHER -> MK!CalculateAtr(causal, indicator.period)

ResolveOperand(operand, doc, candles, i) ==
    CASE operand.kind = "CONSTANT" -> {Whole(operand.value)}
      [] operand.kind = "MARKET_FIELD" -> Field(candles[i], operand.field)
      [] OTHER -> {IndicatorAt(it, candles, i) : it \in {x \in ToSet(doc.indicators) : x.outputAlias = operand.alias}}

Compares(operator, a, b) ==
    CASE operator = "GREATER_THAN" -> MK!Less(b, a) [] operator = "LESS_THAN" -> MK!Less(a, b)
      [] operator = "GREATER_THAN_OR_EQUAL" -> ~MK!Less(a, b) [] OTHER -> ~MK!Less(b, a)

\* The values of a comparison's operands on a bar, and what it says of them and of those before.
OperandsOfNode(node) ==
    IF node.operator = "BETWEEN" THEN <<node.operand, node.lowerBound, node.upperBound>> ELSE <<node.left, node.right>>
ValuesAt(operands, doc, candles, i) == [k \in DOMAIN operands |-> ResolveOperand(operands[k], doc, candles, i)]
Holds(operator, before, now) ==
    CASE operator = "BETWEEN" -> \E v \in now[1], l \in now[2], u \in now[3] : ~MK!Less(v, l) /\ ~MK!Less(u, v)
      [] operator = "CROSSES_ABOVE" ->
            \E p \in before[1], q \in before[2], a \in now[1], b \in now[2] : ~MK!Less(q, p) /\ MK!Less(b, a)
      [] operator = "CROSSES_BELOW" ->
            \E p \in before[1], q \in before[2], a \in now[1], b \in now[2] : ~MK!Less(p, q) /\ MK!Less(a, b)
      [] OTHER -> \E a \in now[1], b \in now[2] : Compares(operator, a, b)

RECURSIVE EvaluateRuleNode(_, _, _, _)
EvaluateRuleNode(node, doc, candles, i) ==
    CASE node.operator = "AND" -> \A k \in DOMAIN node.rules : EvaluateRuleNode(node.rules[k], doc, candles, i)
      [] node.operator = "OR"  -> \E k \in DOMAIN node.rules : EvaluateRuleNode(node.rules[k], doc, candles, i)
      [] OTHER -> Holds(node.operator,
                        IF i = 1 THEN <<{}, {}>> ELSE ValuesAt(OperandsOfNode(node), doc, candles, i - 1),
                        ValuesAt(OperandsOfNode(node), doc, candles, i))

-----------------------------------------------------------------------------
(* The engine.  cost.fee and cost.slippage are fractions; slot holds the open *)
(* position, and what was decided on a bar executes at the open of the next. *)

CostIsValid(cost) == 0 <= cost.fee[1] /\ 0 <= cost.slippage[1] /\ cost.slippage[1] < cost.slippage[2]

Worth(price, quantity) == Times(price, quantity)

\* Mutant: the entry fee is not taken from the cash.
OpenAtFree(s, i, candles, cost) ==
    LET executed == Times(Whole(candles[i].open), Plus(Whole(1), cost.slippage))
        quantity == Over(s.cash, Times(executed, Plus(Whole(1), cost.fee)))
    IN  [s EXCEPT !.entrySignal = 0,
                  !.slot = {[bar |-> i, raw |-> candles[i].open, executed |-> executed,
                             quantity |-> quantity, fee |-> Times(Worth(executed, quantity), cost.fee)]}]

\* sizePosition: everything is invested, the entry fee included.
OpenAt(s, i, candles, cost) ==
    LET executed == Times(Whole(candles[i].open), Plus(Whole(1), cost.slippage))
        quantity == Over(s.cash, Times(executed, Plus(Whole(1), cost.fee)))
        fee      == Times(Worth(executed, quantity), cost.fee)
    IN  [s EXCEPT !.cash = Minus(@, fee), !.entrySignal = 0,
                  !.slot = {[bar |-> i, raw |-> candles[i].open, executed |-> executed,
                             quantity |-> quantity, fee |-> fee]}]

CloseTrade(s, i, raw, reason, cost) ==
    LET p        == CHOOSE x \in s.slot : TRUE
        executed == Times(Whole(raw), Minus(Whole(1), cost.slippage))
        fee      == Times(Worth(executed, p.quantity), cost.fee)
        moved    == Times(Minus(executed, p.executed), p.quantity)
        trade    == [entryBar |-> p.bar, exitBar |-> i, reason |-> reason,
                     gross |-> Times(Whole(raw - p.raw), p.quantity),
                     net   |-> Minus(Minus(moved, p.fee), fee),
                     fees  |-> Plus(p.fee, fee),
                     slippageCost |-> Plus(Times(Minus(p.executed, Whole(p.raw)), p.quantity),
                                           Times(Minus(Whole(raw), executed), p.quantity))]
    IN  [s EXCEPT !.cash = Plus(Minus(@, fee), moved), !.slot = {}, !.exitReason = "",
                  !.trades = Append(@, trade)]

\* What was decided on the bar before.
Execute(s, i, candles, cost) ==
    IF s.slot # {} /\ s.exitReason # "" THEN CloseTrade(s, i, candles[i].open, s.exitReason, cost)
    ELSE IF s.slot = {} /\ s.entrySignal # 0 THEN OpenAt(s, i, candles, cost) ELSE s

Mark(s, i, candles) ==
    LET held == {Plus(s.cash, Times(Minus(Whole(candles[i].close), p.executed), p.quantity)) : p \in s.slot}
    IN  [s EXCEPT !.equity = Append(@, IF held = {} THEN s.cash ELSE CHOOSE e \in held : TRUE),
                  !.barsInPosition = @ + Cardinality(s.slot)]

\* The decision of this bar, for the next.
Decide(s, i, doc, candles) ==
    LET exits     == ToSet(doc.signalExitRules)
        maxBars   == SelectSeq(doc.signalExitRules, LAMBDA x : x.kind = "MAX_BARS_HELD")
        tooLong   == maxBars # <<>> /\ \E p \in s.slot : i - p.bar >= maxBars[1].maxBars
        condition == \E x \in exits : x.kind = "CONDITION" /\ EvaluateRuleNode(x.rule, doc, candles, i)
    IN  IF s.slot # {}
        THEN IF condition THEN [s EXCEPT !.exitReason = "SIGNAL"]
             ELSE IF tooLong THEN [s EXCEPT !.exitReason = "MAX_BARS_HELD"] ELSE s
        ELSE IF i > doc.warmupBars /\ EvaluateRuleNode(doc.entryRules, doc, candles, i)
             THEN [s EXCEPT !.entrySignal = i] ELSE s

Nothing(capital) ==
    [cash |-> Whole(capital), slot |-> {}, entrySignal |-> 0, exitReason |-> "", trades |-> <<>>,
     equity |-> <<>>, barsInPosition |-> 0]

RunBacktestSegment(doc, candles, capital, cost) ==
    LET Settled(closed) == [closed EXCEPT !.equity[Len(candles)] = closed.cash]
        Finished(end) ==
            IF end.slot = {} THEN end
            ELSE Settled(CloseTrade(end, Len(candles), Last(candles).close, "END_OF_DATA", cost))
    IN  Finished(FoldLeft(LAMBDA s, i : Decide(Mark(Execute(s, i, candles, cost), i, candles), i, doc, candles),
                          Nothing(capital), [i \in 1 .. Len(candles) |-> i]))

\* computeSegmentMetrics: the largest fall from a peak, the share of winners, profit against loss.
Peak(equity, capital, i) ==
    FoldLeft(LAMBDA a, b : IF MK!Less(a, b) THEN b ELSE a, Whole(capital), SubSeq(equity, 1, i))
Drawdown(equity, capital, i) ==
    LET peak == Peak(equity, capital, i) IN Over(Minus(peak, equity[i]), peak)
MaxDrawdown(equity, capital) ==
    FoldLeft(LAMBDA a, b : IF MK!Less(a, b) THEN b ELSE a, Whole(0),
             [i \in DOMAIN equity |-> Drawdown(equity, capital, i)])
ComputeSegmentMetrics(run, capital, bars) ==
    LET Sum(F(_)) == Total([i \in DOMAIN run.trades |-> F(run.trades[i])])
        Gained(t) == IF t.net[1] > 0 THEN t.net ELSE Whole(0)
        Lost(t)   == IF t.net[1] < 0 THEN <<-t.net[1], t.net[2]>> ELSE Whole(0)
    IN  [trades |-> run.trades, ending |-> run.cash, net |-> Sum(LAMBDA t : t.net), gross |-> Sum(LAMBDA t : t.gross),
         fees |-> Sum(LAMBDA t : t.fees), slippageCost |-> Sum(LAMBDA t : t.slippageCost),
         totalReturn |-> Over(Minus(run.cash, Whole(capital)), Whole(capital)),
         winners |-> Len(SelectSeq(run.trades, LAMBDA t : t.net[1] > 0)),
         maxDrawdown |-> MaxDrawdown(run.equity, capital),
         profitFactor |-> IF Sum(Lost)[1] = 0 THEN {} ELSE {Over(Sum(Gained), Sum(Lost))},
         exposure |-> Frac(100 * run.barsInPosition, bars)]

Segment(doc, candles, capital, cost) ==
    ComputeSegmentMetrics(RunBacktestSegment(doc, candles, capital, cost), capital, Len(candles))

\* runBacktest: refusals in order, then the whole and both sides of the split; splitAt is {} for none.
RunSegments(doc, parts, capital, cost) == [k \in DOMAIN parts |-> Segment(doc, parts[k], capital, cost)]
Backtested(runs, doc, candles) ==
    [ok |-> TRUE, full |-> Head(runs), segments |-> Tail(runs), shortHistory |-> Len(candles) < doc.minHistoryBars]
RunBacktest(doc, dataset, instrument, capital, cost, splitAt) ==
    LET candles == dataset.candles
        inSample == SelectSeq(candles, LAMBDA c : \A t \in splitAt : c.at <= t)
        outOfSample == SelectSeq(candles, LAMBDA c : \A t \in splitAt : c.at > t)
        Rejected(reason) == [ok |-> FALSE, reason |-> reason]
    IN  IF ~CostIsValid(cost) THEN Rejected("INVALID_COST_CONFIG")
        ELSE IF capital <= 0 THEN Rejected("INVALID_STARTING_CAPITAL")
        ELSE IF instrument # dataset.instrument THEN Rejected("INSTRUMENT_MISMATCH")
        ELSE IF instrument \notin ToSet(doc.supportedInstruments) THEN Rejected("UNSUPPORTED_INSTRUMENT")
        ELSE IF doc.timeframe # dataset.timeframe THEN Rejected("INSTRUMENT_MISMATCH")
        ELSE IF Len(candles) <= doc.warmupBars THEN Rejected("INSUFFICIENT_HISTORY")
        ELSE IF splitAt # {} /\ (inSample = <<>> \/ outOfSample = <<>>) THEN Rejected("INVALID_SPLIT")
        ELSE Backtested(RunSegments(doc, IF splitAt = {} THEN <<candles>> ELSE <<candles, inSample, outOfSample>>, capital, cost),
                        doc, candles)
=============================================================================
