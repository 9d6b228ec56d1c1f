---------------------------- MODULE LedgerRules ----------------------------
(***************************************************************************)
(* What the tables keep of a trade and what is computed of it: the profit   *)
(* and excursions of a lifecycle record, the record as a database row, the  *)
(* trade performance recorded for an executed SELL candidate, and the       *)
(* figures of many trades.                                                  *)
(*                                                                         *)
(* What a record may lack is a set of at most one element (null in a row);  *)
(* an average is a pair, a sum and a count.                                 *)
(***************************************************************************)
EXTENDS Integers, Sequences, SequencesExt, FiniteSets, TLC

CONSTANTS BREAKEVEN_THRESHOLD, DEFAULT_LIMIT, MAX_LIMIT,
          OPENING_LIMIT        \* how many executed candidates the opening one is looked for in

The(some) == CHOOSE x \in some : TRUE
Larger(a, b) == IF a > b THEN a ELSE b
Smaller(a, b) == IF a < b THEN a ELSE b
Times(s, Test(_)) == Len(SelectSeq(s, Test))
TotalOf(s, Value(_)) == FoldLeft(LAMBDA sum, x : sum + Value(x), 0, s)
Average(s, Value(_)) == <<TotalOf(s, Value), Len(s)>>

-----------------------------------------------------------------------------
(* A trade's money.                                                        *)

Direction(side) == IF side = "BUY" THEN 1 ELSE -1

\* Of a position of `quantity`, in units or in money.
CalculateRealisedPnl(r, price) ==
    LET gain == (price - r.entry) * r.quantity * Direction(r.side)
    IN  IF r.sizing = "UNITS" THEN gain ELSE gain \div r.entry

CalculateNotional(r) == IF r.sizing = "UNITS" THEN r.quantity * r.entry ELSE r.quantity

UpdateExcursion(r, price) ==
    [r EXCEPT !.best = {Larger(IF @ = {} THEN 0 ELSE The(@), Larger(CalculateRealisedPnl(r, price), 0))},
              !.worst = {Smaller(IF @ = {} THEN 0 ELSE The(@), Smaller(CalculateRealisedPnl(r, price), 0))}]

\* Refused, and the record kept as it was, when it would close before it opened or at no price.
RecordClosed(r, price, at, reason) ==
    IF r.openedAt = {} \/ price <= 0 \/ at < The(r.openedAt) THEN r
    ELSE [r EXCEPT !.status = "CLOSED", !.exit = {price}, !.closedAt = {at}, !.reason = {reason}, !.updatedAt = at,
                   !.pnl = {CalculateRealisedPnl(r, price)}, !.held = {at - The(r.openedAt)}]

-----------------------------------------------------------------------------
(* The lifecycle records in the database.                                  *)

DetailFields == {"best", "worst", "held", "decision"}
Statuses ==
    {"DECISION_CREATED", "RISK_REJECTED", "APPROVED", "EXECUTION_SUBMITTED", "OPEN", "CLOSE_REQUESTED", "CLOSED",
     "EXECUTION_FAILED", "CLOSE_FAILED", "CLOSED_UNRECONCILED", "EXECUTION_ABANDONED", "EXECUTION_RECONCILIATION_REQUIRED"}

StoreTimes == {"createdAt", "updatedAt"}

\* What has no column of its own goes into one document, and when it was submitted into neither.
ToRow(r) ==
    [f \in (DOMAIN r \ (DetailFields \cup StoreTimes \cup {"submittedAt"})) \cup {"detail"} |->
        IF f = "detail" THEN [d \in DetailFields |-> r[d]] ELSE r[f]]

\* A row in the table: when it was made and last changed is the store's own time, not the record's.
Stored(r, created, updated) ==
    [f \in DOMAIN ToRow(r) \cup StoreTimes |->
        IF f = "createdAt" THEN created ELSE IF f = "updatedAt" THEN updated ELSE ToRow(r)[f]]

\* A row that cannot be a record makes the whole query fail.
Corrupted(row) ==
    \/ row.side \notin {"BUY", "SELL"} \/ row.status \notin Statuses \/ row.sizing \notin {"UNITS", "NOTIONAL"}
    \/ row.detail.decision \notin {"BUY", "SELL", "HOLD"}

FromRow(row) ==
    [f \in (DOMAIN row \ {"detail"}) \cup DetailFields \cup {"submittedAt"} |->
        IF f = "submittedAt" THEN {} ELSE IF f \in DetailFields THEN row.detail[f] ELSE row[f]]

\* {} when the query fails.
Query(rows, Test(_)) ==
    LET found == {row \in rows : Test(row)}
    IN  IF \E row \in found : Corrupted(row) THEN {} ELSE {{FromRow(row) : row \in found}}

ListOpen(rows) == Query(rows, LAMBDA row : row.status \in {"OPEN", "CLOSE_REQUESTED"})
ListClosed(rows) == Query(rows, LAMBDA row : row.status = "CLOSED")
ListUnreconciled(rows) == Query(rows, LAMBDA row : row.status = "CLOSED_UNRECONCILED")
InScope(r, scope) == r.strategy = scope.strategy /\ r.instrument = scope.instrument /\ r.status \in scope.statuses
ListActive(rows, scope) == Query(rows, LAMBDA row : InScope(row, scope))
ListRecoverable(rows, scope, before) == Query(rows, LAMBDA row : InScope(row, scope) /\ row.updatedAt <= before)
FindByBrokerPositionId(rows, position) == Query(rows, LAMBDA row : row.position = {position})

\* Mutant: what was closed without its economics counts as a trade.
SumOfAnyClosed(rows) ==
    LET closed == {row \in rows : row.status \in {"CLOSED", "CLOSED_UNRECONCILED"}}
    IN  [pnl |-> FoldSet(LAMBDA row, sum : sum + (IF row.pnl = {} THEN 0 ELSE The(row.pnl)), 0, closed), trades |-> Cardinality(closed)]

\* Over the column alone: the document is not read.
SumRealisedPnl(rows) ==
    LET closed == {row \in rows : row.status = "CLOSED" /\ row.pnl # {}}
    IN  [pnl |-> FoldSet(LAMBDA row, sum : sum + The(row.pnl), 0, closed), trades |-> Cardinality(closed)]
CountUnreconciled(rows) == Cardinality({row \in rows : row.status = "CLOSED_UNRECONCILED"})

EverReachedOpen == {"OPEN", "CLOSE_REQUESTED", "CLOSED", "CLOSE_FAILED", "CLOSED_UNRECONCILED"}

\* Mutant: only what is still open counts.
CountOpenEntries(records, strategy, start, end) ==
    {Cardinality({r \in records : /\ r.strategy = strategy /\ r.status \in {"OPEN", "CLOSE_REQUESTED"}
                                  /\ r.openedAt # {} /\ The(r.openedAt) >= start /\ The(r.openedAt) < end})}

\* {} when a record of a trade that was opened does not say when: never counted short in silence.
CountConfirmedEntries(records, strategy, start, end) ==
    LET own == {r \in records : r.strategy = strategy}
    IN  IF \E r \in own : r.status \in EverReachedOpen /\ r.openedAt = {} THEN {}
        ELSE {Cardinality({r \in own : r.openedAt # {} /\ The(r.openedAt) >= start /\ The(r.openedAt) < end})}

\* The same store in memory.
MemoryListActive(records, scope) == {r \in records : InScope(r, scope)}
MemoryListRecoverable(records, scope, before) == {r \in records : InScope(r, scope) /\ r.updatedAt <= before}
MemoryFindByBrokerPositionId(records, position) == {r \in records : r.position = {position}}
MemorySumRealisedPnl(records) ==
    LET closed == {r \in records : r.status = "CLOSED" /\ r.pnl # {}}
    IN  [pnl |-> FoldSet(LAMBDA r, sum : sum + The(r.pnl), 0, closed), trades |-> Cardinality(closed)]

-----------------------------------------------------------------------------
(* The performance of one trade.                                           *)

ClassifyWinLoss(net) ==
    IF net > BREAKEVEN_THRESHOLD THEN "WIN" ELSE IF net < -BREAKEVEN_THRESHOLD THEN "LOSS" ELSE "BREAKEVEN"

Distance(a, b) == Larger(a - b, b - a)

\* What the position stood to lose at its stop; {} when that is not known.
DollarRisk(opening) ==
    {risk \in {IF c.sizing = "UNITS" THEN Distance(c.entry, c.stop) * c.amount
               ELSE (Distance(c.entry, c.stop) * c.amount) \div c.entry : c \in opening} : risk > 0}
CalculateRiskMultiple(net, opening) == {<<net, risk>> : risk \in DollarRisk(opening)}

\* {} where it throws.
BuildTradePerformanceInput(r, closing, opening) ==
    IF r.status # "CLOSED" \/ {} \in {r.exit, r.openedAt, r.closedAt, r.pnl, r.held} THEN {}
    ELSE LET net  == The(r.pnl)
             peak == Larger(0, IF r.best = {} THEN 0 ELSE The(r.best))
         IN  {[trade |-> r.id, run |-> closing.run, candidate |-> {closing.id}, strategy |-> r.strategy,
               instrument |-> r.instrument, entryTime |-> The(r.openedAt), exitTime |-> The(r.closedAt),
               held |-> The(r.held), net |-> net, percent |-> (100 * net) \div CalculateNotional(r),
               risk |-> CalculateRiskMultiple(net, opening), peak |-> peak, drawdown |-> Larger(0, peak - net),
               winLoss |-> ClassifyWinLoss(net), reason |-> r.reason]}

\* Mutant: the first BUY of the strategy and instrument.
FindFirstCandidate(candidates, closing) ==
    LET buys == {c \in candidates : /\ c.status = "EXECUTED" /\ c.direction = "BUY"
                                    /\ c.strategy = closing.strategy /\ c.instrument = closing.instrument}
    IN  {c \in buys : \A d \in buys : The(c.executedAt) <= The(d.executedAt)}

\* The newest executed candidates of the SELL's strategy and instrument, as many as the query returns.
ListExecuted(candidates, closing) ==
    LET executed == {c \in candidates : /\ c.status = "EXECUTED"
                                        /\ c.strategy = closing.strategy /\ c.instrument = closing.instrument}
    IN  {c \in executed : Cardinality({d \in executed : d.createdAt > c.createdAt}) < OPENING_LIMIT}

\* Of those the BUY executed last, but no later than the SELL; of two executed in one cycle the newer.
FindOpeningCandidate(candidates, closing) ==
    LET end  == IF closing.executedAt = {} THEN closing.createdAt ELSE The(closing.executedAt)
        buys == {c \in ListExecuted(candidates, closing) :
                    c.direction = "BUY" /\ c.executedAt # {} /\ The(c.executedAt) <= end}
    IN  {c \in buys : \A d \in buys : \/ The(d.executedAt) < The(c.executedAt)
                                     \/ (The(d.executedAt) = The(c.executedAt) /\ d.createdAt <= c.createdAt)}

\* What is recorded for a candidate: nothing but for an executed SELL whose record is closed.
PerformanceOf(candidates, records, id) ==
    UNION {UNION {BuildTradePerformanceInput(r, c, FindOpeningCandidate(candidates, c)) :
                      r \in {s \in records : {s.id} = c.record}} :
               c \in {d \in candidates : d.id = id /\ d.direction = "SELL" /\ d.status = "EXECUTED"}}

-----------------------------------------------------------------------------
(* The performance table: one row for a trade, however often it is recorded. *)

UpsertPerformance(table, new, now) ==
    LET old == {i \in DOMAIN table : table[i].value.trade = new.trade}
    IN  IF old = {} THEN Append(table, [id |-> Len(table) + 1, createdAt |-> now, updatedAt |-> now, value |-> new])
        ELSE [table EXCEPT ![The(old)].updatedAt = now, ![The(old)].value = new]

Matches(value, filter) ==
    /\ filter.strategy \in {"", value.strategy} /\ filter.instrument \in {"", value.instrument}
    /\ filter.winLoss \in {"", value.winLoss} /\ value.exitTime >= filter.since

FirstOf(s, n) == SubSeq(s, 1, Smaller(n, Len(s)))
NewestFirst(values) == SortSeq(values, LAMBDA a, b : a.exitTime > b.exitTime)
Values(table) == [i \in DOMAIN table |-> table[i].value]

\* A limit of 0 is none given; the database has one all the same.
ListPerformance(table, filter) ==
    FirstOf(SelectSeq(NewestFirst(Values(table)), LAMBDA v : Matches(v, filter)),
            Smaller(IF filter.limit = 0 THEN DEFAULT_LIMIT ELSE filter.limit, MAX_LIMIT))
MemoryListPerformance(table, filter) ==
    LET found == SelectSeq(NewestFirst(Values(table)), LAMBDA v : Matches(v, filter))
    IN  IF filter.limit = 0 THEN found ELSE FirstOf(found, filter.limit)

-----------------------------------------------------------------------------
(* The figures of many trades.                                             *)

\* Those at the chosen places, and of one exit time as they were.
Earlier(values, i, j) ==
    values[i].exitTime < values[j].exitTime \/ (values[i].exitTime = values[j].exitTime /\ i < j)
AtPlace(values, chosen, k) == CHOOSE i \in chosen : Cardinality({j \in chosen : Earlier(values, j, i)}) = k - 1
ByExitTimeAscending(values, chosen) == [k \in 1 .. Cardinality(chosen) |-> values[AtPlace(values, chosen, k)]]
OfStrategy(values, strategy) == ByExitTimeAscending(values, {i \in DOMAIN values : values[i].strategy = strategy})

Won(v) == v.winLoss = "WIN"
Lost(v) == v.winLoss = "LOSS"
Net(v) == v.net

\* Mutant: the fall is from the latest high of a trade, not of the sum.
FallOfOneTrade(values) == FoldLeft(LAMBDA most, v : Larger(most, -v.net), 0, values)

\* From the highest sum so far, beginning at 0.
ComputeMaxDrawdown(values) ==
    LET step(acc, v) == LET sum == acc.sum + v.net  peak == Larger(acc.peak, sum)
                        IN  [sum |-> sum, peak |-> peak, fall |-> Larger(acc.fall, peak - sum)]
    IN  FoldLeft(step, [sum |-> 0, peak |-> 0, fall |-> 0], values).fall

LongestStreak(values, winLoss) ==
    LET step(acc, v) == LET run == IF v.winLoss = winLoss THEN acc.run + 1 ELSE 0
                        IN  [run |-> run, longest |-> Larger(acc.longest, run)]
    IN  FoldLeft(step, [run |-> 0, longest |-> 0], values).longest

\* The first of the best, and of the worst.
Best(values) == {values[i].trade : i \in {j \in DOMAIN values :
                    \A k \in DOMAIN values : values[k].net < values[j].net \/ (values[k].net = values[j].net /\ k >= j)}}
Worst(values) == {values[i].trade : i \in {j \in DOMAIN values :
                    \A k \in DOMAIN values : values[k].net > values[j].net \/ (values[k].net = values[j].net /\ k >= j)}}

ComputeStrategyPerformance(strategy, values) ==
    LET own  == OfStrategy(values, strategy)
        wins == SelectSeq(own, Won)  losses == SelectSeq(own, Lost)
    IN  [strategy |-> strategy, trades |-> Len(own), wins |-> Len(wins), losses |-> Len(losses),
         breakeven |-> Times(own, LAMBDA v : v.winLoss = "BREAKEVEN"),
         averageWinner |-> Average(wins, Net), averageLoser |-> Average(losses, Net),
         profitFactor |-> IF TotalOf(losses, Net) < 0 THEN {<<TotalOf(wins, Net), -TotalOf(losses, Net)>>} ELSE {},
         expectancy |-> Average(own, Net), holding |-> Average(own, LAMBDA v : v.held),
         maximumDrawdown |-> ComputeMaxDrawdown(own), best |-> Best(own), worst |-> Worst(own),
         winStreak |-> LongestStreak(own, "WIN"), lossStreak |-> LongestStreak(own, "LOSS")]

ComputeAllStrategyPerformance(values) ==
    {ComputeStrategyPerformance(s, values) : s \in {values[i].strategy : i \in DOMAIN values}}

BuildEquityCurve(values) ==
    LET own == ByExitTimeAscending(values, DOMAIN values)
    IN  [i \in DOMAIN own |-> [trade |-> own[i].trade, exitTime |-> own[i].exitTime,
                               cumulative |-> TotalOf(SubSeq(own, 1, i), Net)]]

\* Month(_) is the month of a time.
BuildMonthlySummary(values, Month(_)) ==
    LET months == {Month(values[i].exitTime) : i \in DOMAIN values}
        of(m)  == SelectSeq(values, LAMBDA v : Month(v.exitTime) = m)
    IN  [m \in months |-> [trades |-> Len(of(m)), wins |-> Times(of(m), Won), losses |-> Times(of(m), Lost),
                           net |-> TotalOf(of(m), Net)]]

\* {} for an instrument that has no trade.
ComputeInstrumentPerformance(instrument, values) ==
    LET own == SelectSeq(values, LAMBDA v : v.instrument = instrument)
    IN  IF own = <<>> THEN {}
        ELSE {[trades |-> Len(own), wins |-> Times(own, Won), losses |-> Times(own, Lost), pnl |-> TotalOf(own, Net),
               percent |-> Average(own, LAMBDA v : v.percent), holding |-> Average(own, LAMBDA v : v.held),
               stopLossExits |-> Times(own, LAMBDA v : v.reason = {"STOP_LOSS"}),
               takeProfitExits |-> Times(own, LAMBDA v : v.reason = {"TAKE_PROFIT"})]}

\* Mutant: a confidence of exactly 100 belongs to no band.
OpenBands == <<[min |-> 0, end |-> 50], [min |-> 50, end |-> 65], [min |-> 65, end |-> 80], [min |-> 80, end |-> 100]>>

\* In percent; the last takes in 100 itself.
CONFIDENCE_BANDS == <<[min |-> 0, end |-> 50], [min |-> 50, end |-> 65], [min |-> 65, end |-> 80], [min |-> 80, end |-> 101]>>

\* Confidence(_) gives a candidate's confidence, {} when it is not known.
ComputePerformanceByConfidenceBand(values, Confidence(_)) ==
    [b \in 1 .. 4 |-> Times(values, LAMBDA v : \E id \in v.candidate : \E c \in Confidence(id) :
                                c >= CONFIDENCE_BANDS[b].min /\ c < CONFIDENCE_BANDS[b].end)]
=============================================================================
