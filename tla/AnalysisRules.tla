--------------------------- MODULE AnalysisRules ---------------------------
(***************************************************************************)
(* The history of analyses: what the runtime keeps of every evaluation, as  *)
(* a run and its events, and what is read and computed of the runs.         *)
(*                                                                         *)
(* What a run may lack is a set of at most one element; an average is a     *)
(* pair, a sum and a count.                                                *)
(***************************************************************************)
EXTENDS Integers, Sequences, SequencesExt, FiniteSets, TLC

CONSTANTS DEFAULT_ANALYSES, MAX_ANALYSES, TOP_INSTRUMENTS

-----------------------------------------------------------------------------
(* Keeping.                                                                *)

ToErrorCode(error) == IF error.reason # {} THEN error.reason ELSE IF error.name # {} THEN error.name ELSE {"UNKNOWN_ERROR"}

BuildFailureRecord(about, error) ==
    [run |-> [instrument |-> about.instrument, strategy |-> about.strategy, decision |-> "ERROR", executed |-> FALSE,
              valid |-> FALSE, rsi |-> {}, trend |-> {}, confidence |-> {}, error |-> ToErrorCode(error)],
     events |-> <<"CYCLE_STARTED", "ERROR">>]

BuildSuccessRecord(about, context, decision, executed) ==
    [run |-> [instrument |-> about.instrument, strategy |-> about.strategy, decision |-> decision.action,
              executed |-> executed, valid |-> TRUE, rsi |-> {context.rsi}, trend |-> {context.trend},
              confidence |-> {decision.confidence}, error |-> {}],
     events |-> <<"CYCLE_STARTED", "MARKET_DATA_FETCHED", "INDICATORS_CALCULATED", "DECISION_COMPLETED",
                  IF executed THEN "EXECUTION_COMPLETED" ELSE "EXECUTION_SKIPPED">>]

\* A success is about the instrument that was evaluated, a failure about the one the runtime is configured
\* with; no evaluation has executed anything when it is recorded.
BuildAnalysisRecord(o, configured, strategy) ==
    IF o.kind = "success"
    THEN BuildSuccessRecord([instrument |-> o.instrument, strategy |-> strategy], o.context, o.decision, FALSE)
    ELSE BuildFailureRecord([instrument |-> configured, strategy |-> strategy], o.error)

\* Mutant: the run is named before its events are saved.
PersistNamed(db, built, now, fault) ==
    IF fault = "run" THEN [runs |-> db.runs, events |-> db.events, linked |-> {}]
    ELSE LET row == built.run @@ [id |-> Len(db.runs) + 1, createdAt |-> now]
         IN  [runs |-> Append(db.runs, row), linked |-> {row.id},
              events |-> IF fault = "events" THEN db.events ELSE db.events \cup {<<row.id, built.events>>}]

\* The run is saved, then its events, each of which may fail and neither of which is taken back or tried again;
\* the run's id is given away only when both are there.
PersistAnalysis(db, built, now, fault) ==
    IF fault = "run" THEN [runs |-> db.runs, events |-> db.events, linked |-> {}]
    ELSE LET row == built.run @@ [id |-> Len(db.runs) + 1, createdAt |-> now]
         IN  [runs |-> Append(db.runs, row),
              linked |-> IF fault = "events" THEN {} ELSE {row.id},
              events |-> IF fault = "events" THEN db.events ELSE db.events \cup {<<row.id, built.events>>}]

-----------------------------------------------------------------------------
(* Reading.                                                                *)

\* {} for all of it.
RetentionToSince(retention, now) ==
    LET days == [d30 |-> 30, d90 |-> 90, d365 |-> 365] IN {now - days[r] : r \in {retention} \cap DOMAIN days}

Since(filter, now) == IF filter.since # {} THEN filter.since ELSE RetentionToSince(filter.retention, now)

Selected(run, filter) ==
    /\ filter.instrument \in {"", run.instrument} /\ filter.decision \in {"", run.decision}
    /\ filter.strategy \in {"", run.strategy}

\* Newest first, in the window, selected by the database before they are limited.
Read(runs, filter, now, limit) ==
    LET found == SelectSeq(Reverse(runs), LAMBDA r : /\ Selected(r, filter)
                                                     /\ \A s \in Since(filter, now) : r.createdAt >= s
                                                     /\ \A u \in filter.until : r.createdAt <= u)
    IN  SubSeq(found, 1, IF Len(found) < limit THEN Len(found) ELSE limit)

LimitOf(filter) ==
    LET asked == IF filter.limit = {} THEN DEFAULT_ANALYSES ELSE CHOOSE n \in filter.limit : TRUE
    IN  IF asked < MAX_ANALYSES THEN asked ELSE MAX_ANALYSES

GetRecentAnalyses(runs, filter, now) == Read(runs, filter, now, LimitOf(filter))

\* In the page, over the runs it holds.
FilterAnalysisRuns(runs, filter) == SelectSeq(runs, LAMBDA r : Selected(r, filter))

-----------------------------------------------------------------------------
(* Figures.                                                                *)

Count(runs, Test(_)) == Len(SelectSeq(runs, Test))
AverageKnown(runs, Field(_)) ==
    LET known == SelectSeq(runs, LAMBDA r : Field(r) # {})
    IN  <<FoldLeft(LAMBDA sum, r : sum + (CHOOSE x \in Field(r) : TRUE), 0, known), Len(known)>>

ComputeStrategyUsage(runs) ==
    [s \in {runs[i].strategy : i \in DOMAIN runs} |->
        [count |-> Count(runs, LAMBDA r : r.strategy = s), executed |-> Count(runs, LAMBDA r : r.strategy = s /\ r.executed)]]

Trends == <<"Bullish", "Bearish", "Sideways">>
TrendDistribution(runs) == [t \in ToSet(Trends) |-> Count(runs, LAMBDA r : r.trend = {t})]

\* The first of the most frequent, {} when no run has one.
MostCommonTrend(runs) ==
    LET n == TrendDistribution(runs)
        better(i, j) ==
            n[Trends[i]] > n[Trends[j]] \/ (n[Trends[i]] = n[Trends[j]] /\ i <= j)
    IN  {Trends[i] : i \in {j \in 1 .. 3 : n[Trends[j]] > 0 /\ \A k \in 1 .. 3 : better(j, k)}}

\* Those with most runs, and of as many the first met.
TopInstruments(runs) ==
    LET count(i)  == Count(runs, LAMBDA r : r.instrument = i)
        met(i)    == CHOOSE k \in DOMAIN runs : runs[k].instrument = i /\ \A j \in 1 .. k - 1 : runs[j].instrument # i
        sorted    == SetToSortSeq({runs[k].instrument : k \in DOMAIN runs},
                                  LAMBDA a, b : count(a) > count(b) \/ (count(a) = count(b) /\ met(a) < met(b)))
    IN  [k \in 1 .. (IF Len(sorted) < TOP_INSTRUMENTS THEN Len(sorted) ELSE TOP_INSTRUMENTS) |->
            [instrument |-> sorted[k], count |-> count(sorted[k])]]

\* Mutant: an error is what carries an error code only, and its decision is one like the others.
PerformanceWithoutErrors(runs) ==
    [total |-> Len(runs), buy |-> Count(runs, LAMBDA r : r.decision = "BUY"), sell |-> Count(runs, LAMBDA r : r.decision = "SELL"),
     hold |-> Count(runs, LAMBDA r : r.decision \in {"HOLD", "ERROR"}), executed |-> Count(runs, LAMBDA r : r.executed),
     errors |-> Count(runs, LAMBDA r : r.error # {}), rsi |-> AverageKnown(runs, LAMBDA r : r.rsi),
     confidence |-> AverageKnown(runs, LAMBDA r : r.confidence), top |-> TopInstruments(runs),
     trends |-> TrendDistribution(runs), trend |-> MostCommonTrend(runs)]

\* As counts; the code gives each over the total.
ComputeStrategyPerformanceOfRuns(runs) ==
    [total |-> Len(runs), buy |-> Count(runs, LAMBDA r : r.decision = "BUY"), sell |-> Count(runs, LAMBDA r : r.decision = "SELL"),
     hold |-> Count(runs, LAMBDA r : r.decision = "HOLD"), executed |-> Count(runs, LAMBDA r : r.executed),
     errors |-> Count(runs, LAMBDA r : r.decision = "ERROR" \/ r.error # {}), rsi |-> AverageKnown(runs, LAMBDA r : r.rsi),
     confidence |-> AverageKnown(runs, LAMBDA r : r.confidence), top |-> TopInstruments(runs),
     trends |-> TrendDistribution(runs), trend |-> MostCommonTrend(runs)]

\* Over as many runs as there may be, whatever limit the filter names.
GetStrategyPerformance(runs, filter, now) == ComputeStrategyPerformanceOfRuns(Read(runs, filter, now, MAX_ANALYSES))
=============================================================================
