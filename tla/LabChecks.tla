----------------------------- MODULE LabChecks -----------------------------
(* What the research rules guarantee, over small documents and histories.  *)
EXTENDS CheckState

LB == INSTANCE ResearchRules WITH
          MAX_RULE_NODES <- 4, MAX_SCAN_DEPTH <- 3, PROHIBITED_FIELD_NAMES <- {"leverage", "stoploss"},
          MAX_EXPERIMENT_VARIANTS <- 6, MAX_DATASET_CANDLES <- 8

Catalogue == [i \in {"BTC", "ETH"} |-> "READ_ONLY_VERIFIED"]

-----------------------------------------------------------------------------
(* Strategy documents.                                                     *)

Alias(a) == [kind |-> "INDICATOR_ALIAS", alias |-> a]
Number(n) == [kind |-> "CONSTANT", value |-> n]
Market(f) == [kind |-> "MARKET_FIELD", field |-> f]
Rule(operator, left, right) == [operator |-> operator, left |-> left, right |-> right]
Between(operand, low, high) == [operator |-> "BETWEEN", operand |-> operand, lowerBound |-> low, upperBound |-> high]
All(rules) == [operator |-> "AND", rules |-> rules]
Indicator(id, type, period) == [id |-> id, type |-> type, period |-> period, sourceField |-> "close", outputAlias |-> id]

Crossover ==
    [schemaVersion |-> 1, strategyId |-> "CROSS", strategyVersion |-> <<1, 0, 0>>, paths |-> {<<"name">>},
     extraRootKeys |-> {}, malformed |-> {}, status |-> "APPROVED_FOR_BACKTEST", timeframe |-> "1h",
     supportedInstruments |-> <<"BTC", "ETH">>, warmupBars |-> 2, minHistoryBars |-> 3,
     indicators |-> <<Indicator("fast", "EMA", 1), Indicator("slow", "EMA", 2), Indicator("rsi", "RSI", 2)>>,
     entryRules |-> All(<<Rule("CROSSES_ABOVE", Alias("fast"), Alias("slow")), Between(Alias("rsi"), Number(30), Number(100))>>),
     signalExitRules |-> <<[kind |-> "CONDITION", rule |-> Rule("LESS_THAN", Market("close"), Alias("slow"))],
                           [kind |-> "MAX_BARS_HELD", maxBars |-> 2]>>]

DefinitionInputs ==
    LET entries == {Crossover.entryRules, Rule("GREATER_THAN", Alias("fast"), Alias("nowhere")),
                    Rule("GREATER_THAN", Number(1), Number(2)), All(<<Rule("LESS_THAN", Alias("rsi"), Number(50))>>),
                    Between(Alias("rsi"), Number(70), Number(30)), Between(Alias("rsi"), Alias("slow"), Market("open")),
                    [operator |-> "OR", rules |-> <<Rule("LESS_THAN", Market("volume"), Number(6)), Rule("GREATER_THAN", Alias("fast"), Number(6))>>],
                    All(<<Rule("CROSSES_ABOVE", Market("volume"), Alias("slow")), Between(Market("close"), Number(0), Market("volume"))>>)}
        exits   == {Crossover.signalExitRules, <<>>, <<[kind |-> "MAX_BARS_HELD", maxBars |-> 0]>>,
                    <<[kind |-> "CONDITION", rule |-> Rule("LESS_THAN", Market("close"), Alias("gone"))]>>,
                    <<[kind |-> "CONDITION", rule |-> Rule("LESS_THAN_OR_EQUAL", Market("volume"), Number(0))]>>}
        lists   == {Crossover.indicators, <<>>, <<Indicator("fast", "EMA", 1), Indicator("fast", "RSI", 2)>>,
                    <<Indicator("close", "EMA", 2)>>, <<Indicator("rsi", "RSI", 0), Indicator("fast", "EMA", 2)>>,
                    [Crossover.indicators EXCEPT ![2].sourceField = "volume"]}
    IN  {[Crossover EXCEPT !.entryRules = e, !.signalExitRules = x, !.indicators = i] : e \in entries, x \in exits, i \in lists}
          \cup {[Crossover EXCEPT !.paths = {p}] : p \in {<<"parameters", "leverage">>, <<"a", "b", "c", "d">>}}
          \cup {[Crossover EXCEPT !.supportedInstruments = s] : s \in {<<>>, <<"BTC", "BTC">>, <<"DOGE">>}}

\* Directories of up to three files, two of them perhaps claiming one version with different content.
RegistryInputs ==
    LET version(v, bars) == [Crossover EXCEPT !.strategyVersion = v, !.warmupBars = bars]
        files == {[readable |-> TRUE, document |-> version(v, b)] : v \in {<<1, 0, 0>>, <<1, 2, 0>>}, b \in {1, 2}}
                   \cup {[readable |-> TRUE, document |-> [Crossover EXCEPT !.schemaVersion = 0]],
                         [readable |-> FALSE, document |-> Crossover]}
    IN  UNION {[1 .. n -> files] : n \in 1 .. 3}

\* Every override of one or two dimensions, on the crossover and on documents it is ambiguous for.
VariantInputs ==
    LET keys == {"emaFastPeriod", "emaSlowPeriod", "rsiPeriod", "rsiLowerBound", "rsiUpperBound", "maxBarsHeld"}
        documents == {Crossover, [Crossover EXCEPT !.indicators[2].period = 1], [Crossover EXCEPT !.indicators[2].type = "ATR"],
                      [Crossover EXCEPT !.signalExitRules = <<>>], [Crossover EXCEPT !.entryRules = @.rules[1]]}
    IN  {[document |-> d, overrides |-> o] : d \in documents,
            o \in UNION {[ks -> {1, 2, 40}] : ks \in {s \in SUBSET keys : Cardinality(s) \in 1 .. 2}}}

MatrixInputs ==
    LET lists == {<<1>>, <<2, 2>>, LB!ExpandRange(1, 3, 1), <<0>>}
        keys  == {"emaFastPeriod", "emaSlowPeriod", "feeBps"}
    IN  {[dimensions |-> d, maxExperiments |-> m] : m \in 1 .. 7, d \in UNION {[s -> lists] : s \in SUBSET keys}}

-----------------------------------------------------------------------------
(* Histories.                                                              *)

Candle(at, open, close) ==
    [at |-> at, open |-> open, close |-> close, extraKeys |-> {}, volume |-> {},
     high |-> IF open > close THEN open ELSE close, low |-> IF open < close THEN open ELSE close]

\* Each bar opens a step away from where the one before closed.
History(closes) == [i \in DOMAIN closes |-> Candle(i, IF i = 1 THEN closes[1] ELSE closes[i - 1] + 1, closes[i])]
Dataset(instrument, candles) ==
    [extraKeys |-> {}, instrument |-> instrument, timeframe |-> "1h", interval |-> 1, closures |-> <<>>, candles |-> candles]

Closure(at) == [extraKeys |-> {}, complete |-> TRUE, status |-> "VERIFIED_EXCEPTION", timeframe |-> "1h",
                symbol |-> "BTC", missing |-> at]
DatasetInputs ==
    {[Dataset("BTC", [i \in DOMAIN t |-> Candle(t[i], 4, 5)]) EXCEPT !.interval = 2, !.closures = c] :
        t \in [1 .. 3 -> {2, 4, 6, 7, 8}], c \in {<<>>, <<Closure(4)>>, <<Closure(6)>>, <<Closure(4), Closure(6)>>, <<Closure(4), Closure(4)>>}}
      \cup {Dataset("BTC", <<c, Candle(2, 4, 5)>>) : c \in {[Candle(1, 4, 5) EXCEPT !.high = 4], [Candle(1, 4, 5) EXCEPT !.volume = {-1}], Candle(1, 0, 5)}}

Costs == {[fee |-> LB!Frac(f, 10000), slippage |-> LB!Frac(s, 10000)] : f \in {0, 5000}, s \in {0, 2500}}

\* The crossover, and one that buys whatever stands above its average and sells a bar later.
Traded == {[Crossover EXCEPT !.warmupBars = 1],
           [Crossover EXCEPT !.warmupBars = 0, !.entryRules = Rule("GREATER_THAN", Market("close"), Alias("slow")),
                             !.signalExitRules = <<[kind |-> "MAX_BARS_HELD", maxBars |-> 1]>>]}
BacktestInputs ==
    {[document |-> d, candles |-> History(c), cost |-> k] : d \in Traded, c \in [1 .. 5 -> {4, 5, 9}], k \in Costs}

-----------------------------------------------------------------------------
(* Research plans.                                                         *)

Rising == <<4, 3, 8, 9, 12, 14>>
Falling == <<9, 5, 9, 4, 6, 3>>
Early(closes) == SubSeq(History(closes), 1, 4)
Late(closes)  == [i \in 1 .. 4 |-> [History(closes)[i + 2] EXCEPT !.at = i + 4]]
Store ==
    [btc |-> Dataset("BTC", History(Rising)), eth |-> Dataset("ETH", History(Falling)),
     early |-> Dataset("BTC", Early(Rising)), late |-> Dataset("BTC", Late(Rising)),
     short |-> Dataset("ETH", SubSeq(History(Falling), 1, 2))]
Entry(instrument, role, file, start, end) ==
    [instrument |-> instrument, role |-> role, datasetFile |-> file, start |-> start, end |-> end, timeframe |-> "1h",
     expected |-> Store[file]]
Criterion(metric, operator, threshold, scope) ==
    [metric |-> metric, operator |-> operator, threshold |-> threshold, scope |-> scope]

BasePlan ==
    [paths |-> {<<"name">>}, extraRootKeys |-> {}, schemaVersion |-> 1, malformed |-> {}, strategy |-> Crossover,
     strategyId |-> "CROSS", strategyVersion |-> <<1, 0, 0>>, instruments |-> <<"BTC">>,
     datasets |-> <<Entry("BTC", "FULL_HISTORY", "btc", 1, 6)>>, splits |-> <<>>,
     feeBps |-> 0, slippageBps |-> 0, capital |-> 10, dimensions |-> [k \in {} |-> <<>>], maxExperiments |-> 6,
     passCriteria |-> <<>>, failureCriteria |-> <<>>, maxConcentration |-> <<60, 1>>]

ResearchInputs ==
    LET manifests == {<<Entry("BTC", "FULL_HISTORY", "btc", 1, 6)>>,
                      <<Entry("BTC", "IN_SAMPLE", "early", 1, 4), Entry("BTC", "OUT_OF_SAMPLE", "late", 5, 8)>>,
                      <<Entry("BTC", "IN_SAMPLE", "late", 5, 8), Entry("BTC", "OUT_OF_SAMPLE", "early", 1, 4)>>,
                      <<Entry("BTC", "IN_SAMPLE", "late", 2, 4), Entry("BTC", "OUT_OF_SAMPLE", "early", 4, 5)>>,
                      <<Entry("BTC", "IN_SAMPLE", "early", 1, 4)>>,
                      <<[Entry("BTC", "FULL_HISTORY", "btc", 1, 6) EXCEPT !.expected = Store.eth]>>}
        dimensions == {[k \in {} |-> <<>>], [emaSlowPeriod |-> <<2, 3>>], [feeBps |-> <<5000>>],
                       [emaFastPeriod |-> <<1, 3>>, rsiUpperBound |-> <<60, 100>>]}
        loses == <<Criterion("MIN_NET_RETURN", "LESS_THAN", <<0, 1>>, "OVERALL")>>
        pass == {<<>>, loses, <<Criterion("MIN_NET_RETURN", "GREATER_THAN", <<0, 1>>, "OVERALL")>>,
                 <<Criterion("MIN_PROFIT_FACTOR", "GREATER_THAN", <<1, 1>>, "PER_INSTRUMENT"),
                   Criterion("MAX_DRAWDOWN", "LESS_THAN", <<1, 2>>, "OVERALL")>>,
                 <<Criterion("MIN_ACCEPTABLE_VARIANT_PERCENTAGE", "GREATER_THAN", <<50, 1>>, "ACROSS_VARIANTS")>>}
        fail == {<<Criterion("MIN_TRADE_COUNT", "LESS_THAN", <<3, 1>>, "OVERALL")>>,
                 <<Criterion("MAX_IS_TO_OOS_DEGRADATION", "GREATER_THAN", <<1, 2>>, "OVERALL")>>}
        judged == {<<p, <<>>>> : p \in pass} \cup {<<p, f>> : p \in {<<>>, loses}, f \in fail}
        data == {[BasePlan EXCEPT !.datasets = m] : m \in manifests}
                  \cup {[BasePlan EXCEPT !.splits = <<[instrument |-> "BTC", splitAt |-> 3]>>]}
    IN  {[base EXCEPT !.dimensions = d, !.passCriteria = j[1], !.failureCriteria = j[2]] :
            base \in data, d \in dimensions, j \in judged}
          \cup {[BasePlan EXCEPT !.instruments = <<"BTC", "ETH">>, !.passCriteria = p, !.datasets =
                    @ \o <<Entry("ETH", "FULL_HISTORY", e, 1, 6)>>] : e \in {"eth", "short"}, p \in pass}
          \cup {[BasePlan EXCEPT !.instruments = <<"ETH">>, !.datasets = <<Entry("ETH", "FULL_HISTORY", "eth", 1, 6)>>]}

Research(plan) ==
    LB!RunResearch(plan, <<[readable |-> TRUE, document |-> Crossover]>>, Catalogue, Store)
\* A plan, and the same plan without its variants.
Researched(plan) ==
    LET plans == <<plan, [plan EXCEPT !.dimensions = [k \in {} |-> <<>>]]>>
    IN  [k \in DOMAIN plans |-> Research(plans[k])]
Backtested(i) == LB!Segment(i.document, i.candles, 10, i.cost)
Loaded(files) == LB!LoadStrategyDefinitions(files, Catalogue)

AskLab ==
    \/ Ask("definition", DefinitionInputs, LAMBDA d : LB!ValidateStrategyDefinition(d, Catalogue))
    \/ Ask("registry", RegistryInputs, Loaded)
    \/ Ask("variant", VariantInputs, LAMBDA i : LB!GenerateValidatedVariant(i.document, Catalogue, i.overrides))
    \/ Ask("matrix", MatrixInputs, LAMBDA i : LB!GenerateExperimentMatrix(i.dimensions, i.maxExperiments))
    \/ Ask("dataset", DatasetInputs, LB!ValidateCandleDataset)
    \/ Ask("backtest", BacktestInputs, Backtested)
    \/ Ask("research", ResearchInputs, Researched)

-----------------------------------------------------------------------------
\* The comparisons of a rule, at the leaves of its tree.
RECURSIVE Comparisons(_)
Comparisons(node) ==
    IF node.operator \in {"AND", "OR"} THEN UNION {Comparisons(node.rules[i]) : i \in DOMAIN node.rules} ELSE {node}

\* The only operand of an accepted definition that may be without a value, in its entry or in its exits, is
\* the volume on a candle that has none; whatever volumes a history lacks, a comparison that needs a missing one
\* is false, never made with a volume of 0 (strategy-definition.ts 354-427,
\* rule-evaluator.ts 55-74).
AcceptedDefinitionRuns ==
    topic = "definition" /\ output = "accepted" =>
        LET conditions == {x \in ToSet(input.signalExitRules) : x.kind = "CONDITION"}
            rules == {input.entryRules} \cup {x.rule : x \in conditions}
            compared == UNION {Comparisons(r) : r \in rules}
            History3(known) == [i \in 1 .. 3 |-> [History(<<4, 5, 9>>)[i] EXCEPT !.volume = IF i \in known THEN {4 + i} ELSE {}]]
            Missing(operand, known, i) == operand = Market("volume") /\ i \notin known
        IN  \A known \in SUBSET (1 .. 3), i \in 1 .. 3, c \in compared : \A o \in ToSet(LB!OperandsOfNode(c)) :
                /\ LB!ResolveOperand(o, input, History3(known), i) = {} <=> Missing(o, known, i)
                /\ Missing(o, known, i) => ~LB!EvaluateRuleNode(c, input, History3(known), i)

\* Of files that claim one id and version, either all have the same content and one is taken, or none
\* is; the order of the files decides nothing, and each id has one latest version
\* (strategy-definition-registry.ts 134-183).
VersionsAreImmutable ==
    topic = "registry" =>
        LET docs(files, which) == {files[i].document : i \in which}
            valid == {i \in DOMAIN input : input[i].readable /\ input[i].document.schemaVersion = 1}
            reversed == Reverse(input)
        IN  /\ \A i, j \in output.accepted : LB!SameKey(input[i].document, input[j].document) => i = j
            /\ \A i, j \in valid : LB!SameKey(input[i].document, input[j].document) /\ input[i].document # input[j].document
                                       => i \notin output.accepted /\ j \notin output.accepted
            /\ docs(input, output.accepted) = docs(reversed, Loaded(reversed).accepted)
            /\ output.accepted # {} => Cardinality(LB!SelectLatestVersions(input, output.accepted)) = 1

\* A variant is the baseline with only the named parameters moved, and moving them again to the same
\* values changes nothing: the fast average stays the fast one (strategy-variant.ts 92-199).
VariantIsStable ==
    topic = "variant" /\ output.ok =>
        LET doc == output.document
            base == input.document
            Same(i) == [doc.indicators[i] EXCEPT !.period = 0] = [base.indicators[i] EXCEPT !.period = 0]
        IN  /\ LB!ApplyStrategyOverrides(doc, input.overrides) = output
            /\ [doc EXCEPT !.indicators = <<>>, !.entryRules = 0, !.signalExitRules = <<>>]
                 = [base EXCEPT !.indicators = <<>>, !.entryRules = 0, !.signalExitRules = <<>>]
            /\ \A i \in DOMAIN base.indicators : Same(i)
            /\ Cardinality({i \in DOMAIN base.indicators : doc.indicators[i] # base.indicators[i]})
                 <= Cardinality(DOMAIN input.overrides)

\* The matrix is never cut short: it is the baseline and every structurally sound combination, each
\* once and within the cap, or it is refused (experiment-matrix.ts 203-264).
MatrixIsWhole ==
    topic = "matrix" =>
        LET combos == LB!Combinations(input.dimensions)
            sound == {o \in combos : \A a, b \in DOMAIN o : a = "emaFastPeriod" /\ b = "emaSlowPeriod" => o[a] < o[b]}
                       \cap {o \in combos : \A k \in DOMAIN o \ {"feeBps"} : o[k] > 0}
        IN  IF output.ok
            THEN /\ ToSet(output.variants) = sound \cup {[k \in {} |-> 0]}
                 /\ IsInjective(output.variants) /\ Head(output.variants) = [k \in {} |-> 0]
                 /\ Len(output.variants) <= LB!Min({input.maxExperiments, 6})
                 /\ output.excluded = combos \ sound
            ELSE \/ sound = {}
                 \/ LB!Min({input.maxExperiments, 6}) <=
                       LB!MapThenFoldSet(LAMBDA a, b : a * b, 1, LAMBDA k : Len(input.dimensions[k]),
                                         LAMBDA s : CHOOSE k \in s : TRUE, DOMAIN input.dimensions)

\* In a dataset that is accepted every bar of the grid from the first candle to the last is there or
\* is a declared closure, never both, and no closure is declared for nothing (backtest-dataset.ts 299-456).
AcceptedDatasetIsComplete ==
    topic = "dataset" /\ output = "accepted" =>
        LET times == {c.at : c \in ToSet(input.candles)}
            closed == {c.missing : c \in ToSet(input.closures)}
            first == Head(input.candles).at
            last == Last(input.candles).at
        IN  /\ times \cap closed = {}
            /\ times \cup closed = {t \in first .. last : (t - first) % input.interval = 0}

\* What the engine does up to a bar does not depend on any later bar: cut the history there and the
\* trades closed by then are the same (backtest-engine.ts 202-302, rule-evaluator.ts 23-53).
NoLookAhead ==
    topic = "backtest" =>
        \A k \in 2 .. (Len(input.candles) - 1) :
            LET cut == LB!Segment(input.document, SubSeq(input.candles, 1, k), 10, input.cost).trades
                closed == SelectSeq(cut, LAMBDA t : t.reason # "END_OF_DATA")
            IN  IsPrefix(closed, output.trades)

\* Not a cent is lost or made up: the capital ends where the net results of the trades take it, gross
\* and net differ by the fees and the slippage, and no drawdown exceeds everything (172-354).
MoneyAddsUp ==
    topic = "backtest" =>
        /\ output.ending = LB!Plus(LB!Whole(10), output.net)
        /\ output.gross = LB!Plus(output.net, LB!Plus(output.fees, output.slippageCost))
        /\ ~LB!MK!Less(LB!Whole(1), output.maxDrawdown)
        /\ \A i \in 2 .. Len(output.trades) : output.trades[i - 1].exitBar < output.trades[i].entryBar

\* The outcome is the baseline's: without a criterion across variants the variants decide nothing, a
\* PASS meets every pass criterion and no failure criterion, and a research without a trade proves
\* nothing (research-result.ts 386-421).
JudgedOnTheBaseline ==
    topic = "research" /\ output[1].ok =>
        LET result == output[1]
            baseline == Head(result.variants)
            own(criteria) == {c \in ToSet(criteria) : c.scope # "ACROSS_VARIANTS"}
            Met(c) == LB!EvaluateCriterion(c, baseline, {}).satisfied
        IN  /\ result.outcome = "PASS" =>
                  /\ \A c \in own(input.passCriteria) : Met(c)
                  /\ \A c \in own(input.failureCriteria) : ~Met(c)
                  /\ \E r \in ToSet(baseline.perInstrument) : \E s \in LB!FirstSegment(r) : s.trades # <<>>
            /\ own(input.passCriteria) = ToSet(input.passCriteria) => result.outcome = output[2].outcome

\* Nothing an out-of-sample segment is judged on comes before the in-sample data, and the data is what
\* the plan was pinned to (dataset-manifest.ts 92-182, research-engine.ts 75-130).
OutOfSampleIsLater ==
    topic = "research" /\ output[1].ok =>
        LET files(role) == {e \in ToSet(input.datasets) : e.role = role}
        IN  /\ \A e \in ToSet(input.datasets) : Store[e.datasetFile] = e.expected
            /\ \A a \in files("IN_SAMPLE"), b \in files("OUT_OF_SAMPLE") :
                  Last(Store[a.datasetFile].candles).at <= Head(Store[b.datasetFile].candles).at

\* What the laboratory accepts as a strategy, a version, a variant or a matrix can be run
\* as it stands: the conjunction of the first four above.
StrategiesAreWhole == AcceptedDefinitionRuns /\ VersionsAreImmutable /\ VariantIsStable /\ MatrixIsWhole

\* No result of the laboratory is better than its data allow: the conjunction of the
\* other five.
ResearchIsHonest ==
    /\ AcceptedDatasetIsComplete
    /\ NoLookAhead
    /\ MoneyAddsUp
    /\ JudgedOnTheBaseline
    /\ OutOfSampleIsLater
=============================================================================
