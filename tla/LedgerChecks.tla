---------------------------- MODULE LedgerChecks ----------------------------
(* What the records of trades and of analyses guarantee, over short stories. *)
EXTENDS CheckState

LG == INSTANCE LedgerRules WITH BREAKEVEN_THRESHOLD <- 1, DEFAULT_LIMIT <- 3, MAX_LIMIT <- 4, OPENING_LIMIT <- 5
AN == INSTANCE AnalysisRules WITH DEFAULT_ANALYSES <- 2, MAX_ANALYSES <- 3, TOP_INSTRUMENTS <- 1

-----------------------------------------------------------------------------
(* Trades, one after the other on BTC and one on ETH meanwhile: each begins   *)
(* with an executed BUY or was found at the broker and adopted, and ends at  *)
(* an executed SELL, at its stop without a candidate, not yet, or with the   *)
(* broker alone; the next BUY may be executed in the cycle of the last SELL. *)
(* What was sold is recorded when it is, and some of it again at the end.    *)

Trip(k, instrument, opened, closed, exit, how) ==
    [id |-> k, instrument |-> instrument, opened |-> opened, closed |-> closed, exit |-> exit, how |-> how, by |-> "BUY"]
Adopted(t, adopted) == IF adopted THEN [t EXCEPT !.by = "ADOPTION"] ELSE t

Opened(t) ==
    [id |-> t.id, strategy |-> IF t.id = 3 THEN "B" ELSE "A", instrument |-> t.instrument, side |-> "BUY",
     sizing |-> IF t.id = 2 THEN "NOTIONAL" ELSE "UNITS", quantity |-> IF t.id = 2 THEN 10 ELSE 1, entry |-> 10, status |-> "OPEN",
     position |-> {10 * t.id}, openedAt |-> {t.opened}, closedAt |-> {}, exit |-> {}, reason |-> {}, pnl |-> {},
     submittedAt |-> IF t.by = "BUY" THEN {t.opened} ELSE {}, createdAt |-> t.opened, updatedAt |-> t.opened, held |-> {}, best |-> {}, worst |-> {}, decision |-> "BUY"]

RecordOf(t) ==
    LET seen == LG!UpdateExcursion(LG!UpdateExcursion(Opened(t), 12), 8)
    IN  CASE t.how = "OPEN" -> seen
          [] t.how = "GONE" -> [seen EXCEPT !.status = "CLOSED_UNRECONCILED", !.updatedAt = t.closed]
          [] OTHER -> LG!RecordClosed([seen EXCEPT !.status = "CLOSE_REQUESTED"], t.exit, t.closed, t.how)

\* A BUY that was executed, unless the position was adopted, one that was not, and the SELL if there was one.
CandidatesOf(t) ==
    LET buy == [id |-> 10 * t.id, run |-> {}, strategy |-> Opened(t).strategy, instrument |-> t.instrument, direction |-> "BUY",
                status |-> "EXECUTED", createdAt |-> t.opened - 2, executedAt |-> {t.opened}, record |-> {t.id},
                entry |-> 10, stop |-> 10 - t.id, sizing |-> "UNITS", amount |-> 1]
    IN  {[buy EXCEPT !.id = @ + 1, !.status = "FAILED", !.executedAt = {}, !.record = {}]}
        \cup (IF t.by = "BUY" THEN {buy} ELSE {})
        \cup IF t.how # "SELL" THEN {}
             ELSE {[buy EXCEPT !.id = @ + 2, !.direction = "SELL", !.createdAt = t.closed - 1, !.executedAt = {t.closed}]}

Exits == {7, 9, 11, 14}
Ledgers ==
    {<<Trip(1, "BTC", 10, 20, a, h1), Trip(2, "BTC", 30, 40, b, h2), Trip(3, "ETH", 25, 45, 12, "SELL"),
       Trip(4, "BTC", 50, 60, c, h4)>> :
        a \in Exits, b \in Exits, c \in Exits, h1 \in {"SELL", "STOP_LOSS"}, h2 \in {"SELL", "STOP_LOSS", "GONE"},
        h4 \in {"SELL", "OPEN"}}

Openings ==
    {<<Adopted(Trip(1, "BTC", 10, 20, a, "SELL"), d1), Adopted(Trip(2, "BTC", 30, 40, 9, "SELL"), d2),
       Adopted(Trip(3, "ETH", 25, 45, 12, "SELL"), d3), Adopted(Trip(4, "BTC", o, 60, 14, h), d4)>> :
        a \in {7, 14}, o \in {40, 50}, h \in {"SELL", "OPEN"},
        d1 \in BOOLEAN, d2 \in BOOLEAN, d3 \in BOOLEAN, d4 \in BOOLEAN}

\* A position found at the broker was opened by the broker's clock, and the local one may be behind it.
BehindBroker == {<<Trip(1, "BTC", 10, 9, 11, "STOP_LOSS")>>}
LedgerInputs ==
    {[trips |-> t, again |-> again, corrupt |-> c] : t \in Ledgers \cup Openings, again \in {<<>>, <<4, 1>>}, c \in {""}}
    \cup {[trips |-> t, again |-> <<1>>, corrupt |-> c] : t \in Ledgers, c \in {"decision", "openedAt"}}
    \cup {[trips |-> t, again |-> <<>>, corrupt |-> ""] : t \in BehindBroker}

Month(time) == time \div 25
Confidence(id) == LET of == [i \in 1 .. 4 |-> <<100, 50, 65, 79>>[i]] IN IF id = 22 THEN {} ELSE {of[id \div 10]}

Entered(i) == {RecordOf(i.trips[k]) : k \in DOMAIN i.trips}
CandidatesOfAll(trips) == UNION {CandidatesOf(trips[k]) : k \in DOMAIN trips}

\* The candidates a call sees: those executed by the cycle of the SELL, or at the end all.
KnownAt(i, k, late) ==
    {c \in CandidatesOfAll(i.trips) : late \/ c.executedAt = {} \/ LG!The(c.executedAt) <= i.trips[k].closed}

\* Every SELL is recorded when it is executed, and some of them again at the end.
Recorded(i) ==
    LET calls  == [k \in DOMAIN i.trips |-> k] \o i.again
        of(n)  == LG!PerformanceOf(KnownAt(i, calls[n], n > Len(i.trips)), Entered(i), 10 * calls[n] + 2)
        upsert(table, n) == FoldSet(LAMBDA new, t : LG!UpsertPerformance(t, new, n), table, of(n))
    IN  FoldLeft(upsert, <<>>, [n \in DOMAIN calls |-> n])

AllOf == [strategy |-> "", instrument |-> "", winLoss |-> "", since |-> 0, limit |-> 0]
Filters == {AllOf, [AllOf EXCEPT !.instrument = "BTC"], [AllOf EXCEPT !.winLoss = "LOSS"], [AllOf EXCEPT !.since = 40],
            [AllOf EXCEPT !.strategy = "A", !.limit = 2]}

Scope == [strategy |-> "A", instrument |-> "BTC", statuses |-> {"OPEN", "CLOSED_UNRECONCILED", "CLOSED"}]

\* Stored a moment after the record was changed.
Delay == 1
Rows(i) ==
    {LET row == LG!Stored(r, r.createdAt + Delay, r.updatedAt + Delay)
     IN  IF r.id # 1 THEN row
         ELSE IF i.corrupt = "decision" THEN [row EXCEPT !.detail.decision = "?"]
         ELSE IF i.corrupt = "openedAt" THEN [row EXCEPT !.openedAt = {}] ELSE row : r \in Entered(i)}

Ledger(i) ==
    LET table  == Recorded(i)
        values == LG!Values(table)
        rows   == Rows(i)
    IN  [table |-> table, rows |-> rows,
         lists |-> [f \in Filters |-> <<LG!ListPerformance(table, f), LG!MemoryListPerformance(table, f)>>],
         strategies |-> LG!ComputeAllStrategyPerformance(values), curve |-> LG!BuildEquityCurve(values),
         months |-> LG!BuildMonthlySummary(values, Month),
         instruments |-> [n \in {"BTC", "ETH", "SOL"} |-> LG!ComputeInstrumentPerformance(n, values)],
         bands |-> LG!ComputePerformanceByConfidenceBand(values, Confidence),
         days |-> [d \in 0 .. 2 |-> LG!CountConfirmedEntries(rows, "A", 25 * d, 25 * d + 25)],
         sum |-> LG!SumRealisedPnl(rows), unreconciled |-> LG!CountUnreconciled(rows),
         queries |-> <<LG!ListOpen(rows), LG!ListClosed(rows), LG!ListUnreconciled(rows), LG!ListActive(rows, Scope),
                       LG!ListRecoverable(rows, Scope, 40), LG!FindByBrokerPositionId(rows, 20)>>]

Sold(i) == {k \in DOMAIN i.trips : i.trips[k].how = "SELL" /\ RecordOf(i.trips[k]).status = "CLOSED"}
Summed(s, Value(_)) == FoldSet(LAMBDA x, sum : sum + Value(x), 0, s)

\* What was executed for the instrument of the k-th trade and is known when that trade is last recorded.
ExecutedFor(i, k) ==
    {c \in KnownAt(i, k, k \in ToSet(i.again)) :
        c.status = "EXECUTED" /\ c.instrument = i.trips[k].instrument}
BoughtBy(i, k) == {c \in ExecutedFor(i, k) : c.direction = "BUY" /\ LG!The(c.executedAt) <= i.trips[k].closed}

\* Its own BUY is the last one executed up to the cycle of its SELL, and still among those looked at.
FoundByTime(i, k) ==
    \E own \in BoughtBy(i, k) :
        /\ own.record = {k}
        /\ \A c \in BoughtBy(i, k) \ {own} : LG!The(c.executedAt) < LG!The(own.executedAt)
        /\ Cardinality({c \in ExecutedFor(i, k) : c.createdAt > own.createdAt}) < 5

\* Each trade that was sold is in the table once, however often it was recorded.  It is judged against the stop
\* of the BUY that opened it, not of an earlier or a later trade on the same instrument, when that BUY is the
\* last one executed up to the cycle of the SELL; and against no stop when nothing was bought by then
\* (recordTradePerformanceForExecutedCandidate finds the BUY by time alone: an adopted position, or another BUY
\* in the cycle of the SELL, is judged by the stop of another trade).
EachTradeJudgedOnce ==
    topic = "ledger" =>
        /\ Len(output.table) = Cardinality(Sold(input))
        /\ \A k \in Sold(input) : \E j \in DOMAIN output.table :
              LET v == output.table[j].value
              IN  /\ v.trade = k /\ v.net = LG!The(RecordOf(input.trips[k]).pnl)
                  /\ FoundByTime(input, k) => v.risk = {<<v.net, k>>}
                  /\ BoughtBy(input, k) = {} => v.risk = {}

\* However the trades are cut - by strategy, by month, by instrument, by band of confidence, one after the other -
\* the parts add up to the same trades and the same profit (trade-performance-analytics.ts).
LedgerAddsUp ==
    topic = "ledger" =>
        LET net == Summed(DOMAIN output.table, LAMBDA j : output.table[j].value.net)
            n   == Len(output.table)
        IN  /\ n > 0 => output.curve[n].cumulative = net
            /\ Summed(DOMAIN output.months, LAMBDA m : output.months[m].net) = net
            /\ Summed(DOMAIN output.months, LAMBDA m : output.months[m].trades) = n
            /\ Summed(output.strategies, LAMBDA s : s.expectancy[1]) = net
            /\ Summed(output.strategies, LAMBDA s : s.wins + s.losses + s.breakeven) = n
            /\ Summed(UNION {output.instruments[x] : x \in DOMAIN output.instruments}, LAMBDA p : p.pnl) = net
            /\ Summed(1 .. 4, LAMBDA b : output.bands[b]) = Cardinality({j \in 1 .. n : Confidence(LG!The(output.table[j].value.candidate)) # {}})

\* The drawdown of a strategy is the deepest fall between any two points of its own equity curve, beginning at
\* nothing (computeMaxDrawdown).
DrawdownIsDeepestFall ==
    topic = "ledger" =>
        \A s \in output.strategies :
            LET own   == LG!OfStrategy(LG!Values(output.table), s.strategy)
                at(k) == FoldLeft(LAMBDA sum, v : sum + v.net, 0, SubSeq(own, 1, k))
            IN  /\ \A k \in 0 .. Len(own) : \A j \in 0 .. k : at(j) - at(k) <= s.maximumDrawdown
                /\ \E k \in 0 .. Len(own) : \E j \in 0 .. k : at(j) - at(k) = s.maximumDrawdown

\* The entries counted day by day are all the trades ever opened, each once, also those closed since, whatever
\* way they were closed; and when one of them does not say when it was opened no day is counted at all
\* (countConfirmedEntriesForUtcDay: "Refusing to silently under-count").
EveryEntryCounted ==
    topic = "ledger" =>
        LET entered == {k \in DOMAIN input.trips : Opened(input.trips[k]).strategy = "A"}
        IN  IF input.corrupt = "openedAt" THEN \A d \in 0 .. 2 : output.days[d] = {}
            ELSE Summed(0 .. 2, LAMBDA d : LG!The(output.days[d])) = Cardinality(entered)

\* What the database keeps of a record: all but when it was submitted, with the times it was stored at.
Kept(r) == [r EXCEPT !.submittedAt = {}, !.createdAt = @ + Delay, !.updatedAt = @ + Delay]

\* The database answers as the memory would with what the database keeps, unless a row it would return is
\* corrupted: then it answers nothing.  So what is old enough to be recovered is decided by the time of the
\* store.  Only the limit it always has makes its list of performance shorter.
StoresAgree ==
    topic = "ledger" =>
        LET records == {Kept(r) : r \in Entered(input)}
            agree(answer, expected) == answer = {expected} \/ (answer = {} /\ \E r \in expected : r.id = 1)
        IN  /\ input.corrupt = "" =>
                  /\ agree(output.queries[4], LG!MemoryListActive(records, Scope))
                  /\ agree(output.queries[5], LG!MemoryListRecoverable(records, Scope, 40))
                  /\ output.queries[6] = {LG!MemoryFindByBrokerPositionId(records, 20)}
                  /\ output.sum = LG!MemorySumRealisedPnl(records)
                  /\ {output.queries[1], output.queries[2], output.queries[3]} \cap {{}} = {}
            /\ \A f \in Filters : output.lists[f][1] = LG!FirstOf(output.lists[f][2], 3)

-----------------------------------------------------------------------------
(* Analyses: what the evaluations of some cycles leave behind, and what of  *)
(* it can be read.                                                          *)

Success(instrument, action, trend) ==
    [kind |-> "success", instrument |-> instrument, context |-> [rsi |-> 50, trend |-> trend],
     decision |-> [action |-> action, confidence |-> 70]]
Outcomes ==
    {Success("BTC", "BUY", "Bullish"), Success("ETH", "HOLD", "Sideways"), Success("ETH", "SELL", "Bullish"),
     [kind |-> "failure", error |-> [reason |-> {}, name |-> {"Error"}]]}
AnyRun == [instrument |-> "", decision |-> "", strategy |-> "", since |-> {}, until |-> {}, retention |-> "all", limit |-> {}]
AnalysisFilters ==
    {AnyRun, [AnyRun EXCEPT !.instrument = "ETH"], [AnyRun EXCEPT !.decision = "BUY", !.limit = {9}],
     [AnyRun EXCEPT !.retention = "d30"], [AnyRun EXCEPT !.since = {20}, !.until = {30}], [AnyRun EXCEPT !.decision = "ERROR"]}
AnalysisInputs ==
    {[cycles |-> c, faults |-> f] : c \in [1 .. 4 -> Outcomes], f \in {<<"", "", "", "">>, <<"", "run", "", "">>, <<"events", "", "", "events">>}}

Now == 50
Analyse(i) ==
    LET step(acc, k) ==
            LET kept == AN!PersistAnalysis(acc.db, AN!BuildAnalysisRecord(i.cycles[k], "BTC", "A"), 10 * k, i.faults[k])
            IN  [db |-> [runs |-> kept.runs, events |-> kept.events], linked |-> Append(acc.linked, kept.linked)]
        end  == FoldLeft(step, [db |-> [runs |-> <<>>, events |-> {}], linked |-> <<>>], <<1, 2, 3, 4>>)
        runs == end.db.runs
    IN  [db |-> end.db, linked |-> end.linked,
         recent |-> [f \in AnalysisFilters |-> AN!GetRecentAnalyses(runs, f, Now)],
         figures |-> [f \in AnalysisFilters |-> AN!GetStrategyPerformance(runs, f, Now)], usage |-> AN!ComputeStrategyUsage(runs)]

\* A candidate is linked to the analysis that made it and to no other, and only when that analysis has its whole
\* story in the database, also after some were not kept
\* (persistAnalysis: a failed write is neither retried nor replayed).
LinkedAnalysisIsWhole ==
    topic = "analysis" =>
        \A k \in 1 .. 4 : \A id \in output.linked[k] :
            /\ output.db.runs[id].createdAt = 10 * k
            /\ output.db.runs[id].decision = IF input.cycles[k].kind = "failure" THEN "ERROR" ELSE input.cycles[k].decision.action
            /\ \E e \in output.db.events : e[1] = id

\* What the page can filter out of the runs it holds, the database finds too, and as many as it may; the figures
\* are of the runs themselves: every run is a buy, a sell, a hold or an error, and only evaluations have a trend.
AnalysesAddUp ==
    topic = "analysis" =>
        /\ \A f \in AnalysisFilters :
              LET held == AN!FilterAnalysisRuns(output.recent[[f EXCEPT !.instrument = "", !.decision = ""]], f)
              IN  [f EXCEPT !.instrument = "", !.decision = ""] \in AnalysisFilters =>
                      \A k \in DOMAIN held : Contains(output.recent[f], held[k])
        /\ \A f \in AnalysisFilters :
              LET p == output.figures[f]
              IN  /\ p.total = p.buy + p.sell + p.hold + p.errors
                  /\ Summed(DOMAIN p.trends, LAMBDA t : p.trends[t]) = p.total - p.errors
                  /\ p.rsi[2] = p.total - p.errors
                  /\ \A k \in DOMAIN p.top : 2 * p.top[k].count >= p.total         \* of two instruments, the one with more

-----------------------------------------------------------------------------
AskLedger ==
    \/ Ask("ledger", LedgerInputs, Ledger)
    \/ Ask("analysis", AnalysisInputs, Analyse)

\* Trades, results and analyses are counted once and add up, whoever reads them: the
\* conjunction of the others above.
LedgerIsExact ==
    /\ EachTradeJudgedOnce
    /\ LedgerAddsUp
    /\ DrawdownIsDeepestFall
    /\ EveryEntryCounted
    /\ StoresAgree
    /\ LinkedAnalysisIsWhole
    /\ AnalysesAddUp
=============================================================================
