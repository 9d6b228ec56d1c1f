--------------------------- MODULE ResearchRules ---------------------------
(***************************************************************************)
(* The research laboratory: a plan pinned to one strategy document and to   *)
(* datasets by their hashes, run over a matrix of parameter variants, and   *)
(* judged by pass and failure criteria written down before the run.         *)
(* An optional value is a set of at most one; <<1, 0>> is infinity.         *)
(***************************************************************************)
EXTENDS StrategyRules, BacktestRules

-----------------------------------------------------------------------------
(* The plan.                                                               *)

Bounds(min, max) == [min |-> min, max |-> max]
THRESHOLD_RANGES ==
    [MIN_TRADE_COUNT |-> Bounds({0}, {}), MIN_NET_RETURN |-> Bounds({-1}, {}), MAX_DRAWDOWN |-> Bounds({0}, {1}),
     MIN_PROFIT_FACTOR |-> Bounds({0}, {}), MIN_WIN_RATE |-> Bounds({0}, {1}),
     MIN_OOS_NET_RETURN |-> Bounds({-1}, {}), MAX_IS_TO_OOS_DEGRADATION |-> Bounds({}, {}),
     MAX_INSTRUMENT_CONCENTRATION |-> Bounds({0}, {100}), MIN_ACCEPTABLE_VARIANT_PERCENTAGE |-> Bounds({0}, {100})]
MinMetrics == {"MIN_TRADE_COUNT", "MIN_NET_RETURN", "MIN_PROFIT_FACTOR", "MIN_WIN_RATE", "MIN_OOS_NET_RETURN",
               "MIN_ACCEPTABLE_VARIANT_PERCENTAGE"}
SCOPES == {"OVERALL", "PER_INSTRUMENT", "IN_SAMPLE", "OUT_OF_SAMPLE", "ACROSS_VARIANTS"}

\* requiredOperatorsForMetric
RequiredOperators(metric, kind) ==
    IF (metric \in MinMetrics) = (kind = "pass") THEN {"GREATER_THAN", "GREATER_THAN_OR_EQUAL"}
    ELSE {"LESS_THAN", "LESS_THAN_OR_EQUAL"}
CriterionIsSound(c, kind) ==
    /\ c.metric \in DOMAIN THRESHOLD_RANGES
    /\ c.operator \in RequiredOperators(c.metric, kind)
    /\ c.scope \in SCOPES
    /\ \A low  \in THRESHOLD_RANGES[c.metric].min : ~MK!Less(c.threshold, Whole(low))
    /\ \A high \in THRESHOLD_RANGES[c.metric].max : ~MK!Less(Whole(high), c.threshold)
    /\ c.metric = "MIN_TRADE_COUNT" => c.threshold[2] = 1

ManifestEntryIsSound(entry) == entry.instrument # "" /\ entry.start < entry.end
DistinctRoles(entries) ==
    \A i, j \in DOMAIN entries : i # j => <<entries[i].instrument, entries[i].role>> # <<entries[j].instrument, entries[j].role>>

\* The parts of a plan something is wrong with; hash is the strategy it has been found to name, if any.
PlanErrors(plan, hash) ==
    LET declared == ToSet(plan.instruments)
    IN  {e \in {"hash", "datasets", "experiments", "splits", "criteria", "instruments", "field"} :
          CASE e = "hash"        -> \E h \in hash : plan.strategy # h
            [] e = "datasets"    -> \/ \E d \in ToSet(plan.datasets) : ~ManifestEntryIsSound(d) \/ d.instrument \notin declared
                                    \/ ~DistinctRoles(plan.datasets)
            [] e = "experiments" -> plan.maxExperiments \notin 1 .. MAX_EXPERIMENT_VARIANTS
            [] e = "splits"      -> \/ ~IsInjective([i \in DOMAIN plan.splits |-> plan.splits[i].instrument])
                                    \/ \E s \in ToSet(plan.splits) : s.instrument \notin declared
            [] e = "criteria"    -> \/ \E c \in ToSet(plan.passCriteria) : ~CriterionIsSound(c, "pass")
                                    \/ \E c \in ToSet(plan.failureCriteria) : ~CriterionIsSound(c, "failure")
            [] e = "instruments" -> plan.instruments = <<>> \/ ~IsInjective(plan.instruments)
            [] OTHER             -> plan.malformed # {} \/ plan.capital <= 0}

ReasonFor(errors) ==
    IF "hash" \in errors THEN "MISSING_REQUIRED_FIELD"
    ELSE IF "datasets" \in errors THEN "INVALID_DATASET_MANIFEST"
    ELSE IF "experiments" \in errors THEN "INVALID_EXPERIMENT_CONFIG"
    ELSE IF "splits" \in errors THEN "INVALID_SPLIT"
    ELSE IF "criteria" \in errors THEN "INVALID_CRITERION"
    ELSE IF "instruments" \in errors THEN "INVALID_INSTRUMENTS" ELSE "MISSING_REQUIRED_FIELD"

ValidateResearchPlan(plan, hash) ==
    IF FindProhibitedFields(plan) # {} THEN "PROHIBITED_FIELD"
    ELSE IF plan.extraRootKeys # {} THEN "UNEXPECTED_FIELD"
    ELSE IF plan.schemaVersion < 1 THEN "SCHEMA_VERSION_TOO_OLD"
    ELSE IF PlanErrors(plan, hash) # {} THEN ReasonFor(PlanErrors(plan, hash)) ELSE "accepted"

-----------------------------------------------------------------------------
(* The manifest: store is what lies under each file name.                  *)

\* Mutant: the candles may lie outside the declared dates.
EntryErrorUndated(entry, store) ==
    LET d == store[entry.datasetFile]
    IN  IF ValidateCandleDataset(d) # "accepted" THEN "DATASET_LOAD_FAILED"
        ELSE IF d # entry.expected THEN "DATASET_HASH_MISMATCH"
        ELSE IF d.instrument # entry.instrument THEN "INSTRUMENT_MISMATCH"
        ELSE IF d.timeframe # entry.timeframe THEN "TIMEFRAME_MISMATCH" ELSE "none"

EntryError(entry, store) ==
    LET d == store[entry.datasetFile]
    IN  IF ValidateCandleDataset(d) # "accepted" THEN "DATASET_LOAD_FAILED"
        ELSE IF d # entry.expected THEN "DATASET_HASH_MISMATCH"
        ELSE IF d.instrument # entry.instrument THEN "INSTRUMENT_MISMATCH"
        ELSE IF d.timeframe # entry.timeframe THEN "TIMEFRAME_MISMATCH"
        ELSE IF d.candles[1].at < entry.start \/ Last(d.candles).at > entry.end THEN "DATE_RANGE_MISMATCH"
        ELSE "none"

RoleOf(entries, instrument, role) == {e \in ToSet(entries) : e.instrument = instrument /\ e.role = role}
OverlappingSplit(entries) ==
    \E inS \in ToSet(entries), out \in ToSet(entries) :
        /\ inS.instrument = out.instrument /\ inS.role = "IN_SAMPLE" /\ out.role = "OUT_OF_SAMPLE"
        /\ inS.end > out.start

LoadAndVerifyManifest(entries, store) ==
    LET bad == FirstError(LAMBDA i : EntryError(entries[i], store), DOMAIN entries)
    IN  IF ~DistinctRoles(entries) THEN "DUPLICATE_MANIFEST_ENTRY"
        ELSE IF bad # "none" THEN bad
        ELSE IF OverlappingSplit(entries) THEN "OVERLAPPING_SPLIT" ELSE "accepted"

\* resolveInstrumentDatasetPlans: how an instrument is evaluated, or that it cannot be.
ModeOf(plan, instrument) ==
    IF RoleOf(plan.datasets, instrument, "FULL_HISTORY") # {}
    THEN IF \E s \in ToSet(plan.splits) : s.instrument = instrument THEN "SPLIT" ELSE "FULL_ONLY"
    ELSE IF RoleOf(plan.datasets, instrument, "IN_SAMPLE") # {} /\ RoleOf(plan.datasets, instrument, "OUT_OF_SAMPLE") # {}
         THEN "SEPARATE" ELSE "none"

-----------------------------------------------------------------------------
(* Running a variant.                                                      *)

InstrumentResult(instrument, rejected, full, inSample, outOfSample) ==
    [instrument |-> instrument, rejected |-> rejected, full |-> full, inSample |-> inSample, outOfSample |-> outOfSample]

\* runInstrumentForVariant: the runs an instrument needs, and what they say of it together.  Stress
\* periods are run and reported, and judge nothing.
OfRuns(instrument, mode, runs) ==
    IF \E k \in DOMAIN runs : ~runs[k].ok THEN InstrumentResult(instrument, TRUE, {}, {}, {})
    ELSE CASE mode = "SPLIT" ->
                InstrumentResult(instrument, FALSE, {runs[1].full}, {runs[1].segments[1]}, {runs[1].segments[2]})
           [] mode = "SEPARATE" -> InstrumentResult(instrument, FALSE, {}, {runs[1].full}, {runs[2].full})
           [] OTHER -> InstrumentResult(instrument, FALSE, {runs[1].full}, {}, {})

RunInstrumentForVariant(doc, instrument, plan, store, cost) ==
    LET mode  == ModeOf(plan, instrument)
        roles == IF mode = "SEPARATE" THEN <<"IN_SAMPLE", "OUT_OF_SAMPLE">> ELSE <<"FULL_HISTORY">>
        split == {s \in ToSet(plan.splits) : mode = "SPLIT" /\ s.instrument = instrument}
        Dataset(role) == store[(CHOOSE e \in RoleOf(plan.datasets, instrument, role) : TRUE).datasetFile]
    IN  OfRuns(instrument, mode, [k \in DOMAIN roles |->
            RunBacktest(doc, Dataset(roles[k]), instrument, plan.capital, cost, {s.splitAt : s \in split})])

OfVariant(generated, overrides, plan, store, cost) ==
    IF ~generated.ok THEN [rejected |-> TRUE, overrides |-> overrides, perInstrument |-> <<>>]
    ELSE [rejected |-> FALSE, overrides |-> overrides,
          perInstrument |-> [i \in DOMAIN plan.instruments |->
              RunInstrumentForVariant(generated.document, plan.instruments[i], plan, store, cost)]]

RunVariant(baseline, overrides, plan, catalogue, store) ==
    OfVariant(GenerateValidatedVariant(baseline, catalogue, overrides), overrides, plan, store,
              [fee |-> Frac(Given(overrides, "feeBps", plan.feeBps), 10000),
               slippage |-> Frac(Given(overrides, "slippageBps", plan.slippageBps), 10000)])

-----------------------------------------------------------------------------
(* Judging it.                                                             *)

Infinity == <<1, 0>>
Mean(values) == IF Infinity \in ToSet(values) THEN Infinity ELSE Over(Total(values), Whole(Len(values)))

SegmentMetricValue(segment, metric) ==
    CASE metric = "MIN_TRADE_COUNT" -> {Whole(Len(segment.trades))}
      [] metric \in {"MIN_NET_RETURN", "MIN_OOS_NET_RETURN"} -> {segment.totalReturn}
      [] metric = "MAX_DRAWDOWN" -> {segment.maxDrawdown}
      [] metric = "MIN_PROFIT_FACTOR" -> IF segment.profitFactor # {} THEN segment.profitFactor
                                         ELSE IF segment.trades # <<>> THEN {Infinity} ELSE {}
      [] metric = "MIN_WIN_RATE" -> {IF segment.trades = <<>> THEN Whole(0) ELSE Frac(segment.winners, Len(segment.trades))}
      [] OTHER -> {}

\* The values of some segments, in order; and the one number they make.
ValuesOf(segments, metric) ==
    FoldLeft(LAMBDA vs, s : vs \o SetToSeq(UNION {SegmentMetricValue(x, metric) : x \in s}), <<>>, segments)
MeanOf(values) == IF values = <<>> THEN {} ELSE {Mean(values)}

InstrumentOverallValue(r, metric) ==
    IF r.full # {} THEN ValuesOf(<<r.full>>, metric)
    ELSE LET both == ValuesOf(<<r.inSample, r.outOfSample>>, metric)
         IN  IF Len(both) = 2 THEN <<Mean(both)>> ELSE <<>>

FirstSegment(r) == IF r.full # {} THEN r.full ELSE IF r.outOfSample # {} THEN r.outOfSample ELSE r.inSample
BestOf(values, wantMax) ==
    CHOOSE v \in ToSet(values) : \A w \in ToSet(values) : IF wantMax THEN ~MK!Less(v, w) ELSE ~MK!Less(w, v)

\* extractMetricValue: {} when there is no evidence.
ExtractMetricValue(c, variant, aggregate) ==
    LET relevant == SelectSeq(variant.perInstrument, LAMBDA r : ~r.rejected)
        overall  == FlattenSeq([i \in DOMAIN relevant |-> InstrumentOverallValue(relevant[i], c.metric)])
        Degradation(r) == {Minus(a.totalReturn, b.totalReturn) : a \in r.inSample, b \in r.outOfSample}
    IN  CASE c.scope = "ACROSS_VARIANTS" ->
               UNION {CASE c.metric = "MIN_ACCEPTABLE_VARIANT_PERCENTAGE" -> {a.acceptablePercentage}
                        [] c.metric = "MAX_INSTRUMENT_CONCENTRATION" ->
                             IF a.shares = <<>> THEN {} ELSE {Times(Whole(100), BestOf(a.shares, TRUE))}
                        [] OTHER -> {} : a \in aggregate}
          [] c.scope # "ACROSS_VARIANTS" /\ relevant = <<>> -> {}
          [] c.scope = "PER_INSTRUMENT" /\ relevant # <<>> ->
               IF Len(overall) # Len(relevant) THEN {} ELSE {BestOf(overall, c.metric \notin MinMetrics)}
          [] c.scope \in {"OVERALL", "IN_SAMPLE", "OUT_OF_SAMPLE"} /\ relevant # <<>> /\ c.metric = "MAX_IS_TO_OOS_DEGRADATION" ->
               MeanOf(FlattenSeq([i \in DOMAIN relevant |-> SetToSeq(Degradation(relevant[i]))]))
          [] c.scope \in {"IN_SAMPLE", "OUT_OF_SAMPLE"} /\ relevant # <<>> /\ c.metric # "MAX_IS_TO_OOS_DEGRADATION" ->
               MeanOf(ValuesOf([i \in DOMAIN relevant |->
                   IF c.scope = "IN_SAMPLE" THEN relevant[i].inSample ELSE relevant[i].outOfSample], c.metric))
          [] c.scope = "OVERALL" /\ relevant # <<>> /\ c.metric # "MAX_IS_TO_OOS_DEGRADATION" -> MeanOf(overall)

EvaluateCriterion(c, variant, aggregate) ==
    LET Judge(observed) ==
            [criterion |-> c, observed |-> observed, satisfied |-> \E v \in observed : Compares(c.operator, v, c.threshold)]
    IN  Judge(ExtractMetricValue(c, variant, aggregate))

IsVariantAcceptable(variant, plan) ==
    LET Own(criteria) == {c \in ToSet(criteria) : c.scope # "ACROSS_VARIANTS"}
    IN  /\ ~variant.rejected
        /\ \A c \in Own(plan.passCriteria) : EvaluateCriterion(c, variant, {}).satisfied
        /\ \A c \in Own(plan.failureCriteria) : ~EvaluateCriterion(c, variant, {}).satisfied

\* computeAggregateStatistics, as far as a criterion or a warning reads it.
ComputeAggregateStatistics(baseline, variants, plan) ==
    LET usable  == SelectSeq(baseline.perInstrument, LAMBDA r : ~r.rejected /\ FirstSegment(r) # {})
        Profit(r) == LET net == (CHOOSE s \in FirstSegment(r) : TRUE).net IN IF net[1] > 0 THEN net ELSE Whole(0)
        profits == [i \in DOMAIN usable |-> Profit(usable[i])]
        total   == Total(profits)
        accepted == SelectSeq(variants, LAMBDA v : IsVariantAcceptable(v, plan))
    IN  [acceptable |-> Len(accepted), acceptablePercentage |-> Frac(100 * Len(accepted), Len(variants)),
         shares |-> [i \in DOMAIN profits |-> IF total[1] > 0 THEN Over(profits[i], total) ELSE Whole(0)]]

BaselineTrades(baseline) ==
    MapThenFoldSet(LAMBDA a, b : a + b, 0,
                   LAMBDA i : LET s == FirstSegment(baseline.perInstrument[i])
                              IN  IF s = {} THEN 0 ELSE Len((CHOOSE x \in s : TRUE).trades),
                   LAMBDA s : CHOOSE i \in s : TRUE, DOMAIN baseline.perInstrument)

\* Mutant: the failure criteria are only reported.
DetermineOutcomeLenient(baseline, pass, failure) ==
    IF BaselineTrades(baseline) = 0 THEN "INCONCLUSIVE"
    ELSE IF \A e \in ToSet(pass) : e.satisfied THEN "PASS" ELSE "FAIL"

DetermineOutcome(baseline, pass, failure) ==
    IF \E e \in ToSet(failure) : e.satisfied THEN "FAIL"
    ELSE IF \/ BaselineTrades(baseline) = 0
            \/ pass # <<>> /\ \A e \in ToSet(pass) : e.observed = {} THEN "INCONCLUSIVE"
    ELSE IF \A e \in ToSet(pass) : e.satisfied THEN "PASS" ELSE "FAIL"

\* buildRobustnessWarnings
RobustnessWarnings(baseline, variants, aggregate, plan) ==
    LET evaluable  == SelectSeq(variants, LAMBDA v : ~v.rejected)
        neighbours == SelectSeq(evaluable, LAMBDA v : Cardinality(DOMAIN v.overrides) = 1)
        acceptable == IsVariantAcceptable(baseline, plan)
        n == aggregate.acceptable
    IN  {w \in {"concentration", "narrow", "mixed", "neighbours", "costs"} :
          CASE w = "concentration" -> \E s \in ToSet(aggregate.shares) : MK!Less(plan.maxConcentration, Times(Whole(100), s))
            [] w = "narrow" -> Len(evaluable) > 1 /\ n \in 1 .. (Len(evaluable) - 1) /\ 100 * n < 30 * Len(evaluable)
            [] w = "mixed"  -> /\ Len(evaluable) > 1 /\ n \in 1 .. (Len(evaluable) - 1)
                               /\ 30 * Len(evaluable) <= 100 * n /\ 100 * n < 80 * Len(evaluable)
            [] w = "neighbours" -> /\ Len(evaluable) > 1
                                   /\ \E v \in ToSet(neighbours) : IsVariantAcceptable(v, plan) # acceptable
            [] OTHER -> \E r \in ToSet(baseline.perInstrument) : \E s \in FirstSegment(r) :
                            s.gross[1] > 0 /\ ~MK!Less(Over(s.gross, Whole(10)), s.net)}

-----------------------------------------------------------------------------
Stop(stage, reason) == [ok |-> FALSE, stage |-> stage, reason |-> reason]

\* loadAndVerifyPlanAndDatasets; found is the document of the strategy the plan names, if there is one.
VerifyPlan(plan, found, store) ==
    IF ValidateResearchPlan(plan, {}) # "accepted" THEN Stop("plan", ValidateResearchPlan(plan, {}))
    ELSE IF found = {} THEN Stop("strategy", "STRATEGY_NOT_FOUND")
    ELSE IF ValidateResearchPlan(plan, found) # "accepted" THEN Stop("plan", ValidateResearchPlan(plan, found))
    ELSE IF \E doc \in found : ~(ToSet(plan.instruments) \subseteq ToSet(doc.supportedInstruments))
         THEN Stop("strategy", "UNSUPPORTED_INSTRUMENT")
    ELSE IF LoadAndVerifyManifest(plan.datasets, store) # "accepted"
         THEN Stop("dataset", LoadAndVerifyManifest(plan.datasets, store))
    ELSE IF \E i \in ToSet(plan.instruments) : ModeOf(plan, i) = "none" THEN Stop("dataset", "INCOMPLETE_MANIFEST")
    ELSE [ok |-> TRUE, document |-> CHOOSE doc \in found : TRUE]

\* buildResearchResult, of the variants that were run, the baseline first.
BuildResearchResult(variants, aggregate, plan) ==
    LET baseline == variants[1]
        Judge(criteria) == [i \in DOMAIN criteria |-> EvaluateCriterion(criteria[i], baseline, {aggregate})]
    IN  IF baseline.rejected THEN Stop("execution", "VALIDATION_FAILED")
        ELSE [ok |-> TRUE, outcome |-> DetermineOutcome(baseline, Judge(plan.passCriteria), Judge(plan.failureCriteria)),
              variants |-> variants, aggregate |-> aggregate,
              warnings |-> RobustnessWarnings(baseline, variants, aggregate, plan)]

RunExperiments(doc, matrix, plan, catalogue, store) ==
    [i \in DOMAIN matrix.variants |-> RunVariant(doc, matrix.variants[i], plan, catalogue, store)]

JudgeVariants(variants, plan) ==
    BuildResearchResult(variants, ComputeAggregateStatistics(variants[1], variants, plan), plan)

Investigate(verified, matrix, plan, catalogue, store) ==
    IF ~verified.ok THEN verified
    ELSE IF ~matrix.ok THEN Stop("experiments", matrix.reason)
    ELSE JudgeVariants(RunExperiments(verified.document, matrix, plan, catalogue, store), plan)

RunResearch(plan, files, catalogue, store) ==
    LET found == {files[i].document : i \in {j \in LoadStrategyDefinitions(files, catalogue).accepted :
                     /\ files[j].document.strategyId = plan.strategyId
                     /\ files[j].document.strategyVersion = plan.strategyVersion}}
    IN  Investigate(VerifyPlan(plan, found, store), GenerateExperimentMatrix(plan.dimensions, plan.maxExperiments),
                    plan, catalogue, store)
=============================================================================
