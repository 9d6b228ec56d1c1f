--------------------------- MODULE StrategyRules ---------------------------
(***************************************************************************)
(* Strategy definitions as research documents: which one is accepted, which *)
(* of several files with one id and version wins, and the parameter variants *)
(* the research laboratory derives from a baseline.  A field that only has  *)
(* to be there and well formed is a member of "malformed" when it is not; a  *)
(* content hash is the document itself.                                     *)
(***************************************************************************)
EXTENDS Integers, Sequences, SequencesExt, FiniteSets, FiniteSetsExt, Functions

CONSTANTS
    MAX_RULE_NODES,                 \* 64
    MAX_SCAN_DEPTH,                 \* 40
    PROHIBITED_FIELD_NAMES,         \* of sizing, risk and routing fields, as normalised
    MAX_EXPERIMENT_VARIANTS         \* 500

SAFE_MARKET_FIELDS == {"open", "high", "low", "close", "volume"}
KNOWN_STATUSES == {"DRAFT", "VALIDATED", "APPROVED_FOR_BACKTEST", "APPROVED_FOR_DEMO", "RETIRED", "DISABLED"}
KNOWN_INDICATOR_TYPES == {"EMA", "RSI", "ATR"}

LOGICAL_OPERATORS == {"AND", "OR"}
COMPARISON_OPERATORS == {"GREATER_THAN", "LESS_THAN", "GREATER_THAN_OR_EQUAL", "LESS_THAN_OR_EQUAL"}
CROSS_OPERATORS == {"CROSSES_ABOVE", "CROSSES_BELOW"}

-----------------------------------------------------------------------------
(* Validation.  raw.paths are the key paths of the JSON document, their     *)
(* names as normaliseFieldName leaves them.                                 *)

FindProhibitedFields(raw) ==
    {p \in raw.paths : Len(p) > MAX_SCAN_DEPTH \/ Last(p) \in PROHIBITED_FIELD_NAMES}

IsConstant(operand) == operand.kind = "CONSTANT"
OperandIsSound(operand, aliases) ==
    \/ operand.kind = "INDICATOR_ALIAS" /\ operand.alias \in aliases
    \/ operand.kind = "MARKET_FIELD" /\ operand.field \in SAFE_MARKET_FIELDS
    \/ IsConstant(operand)

RECURSIVE RuleIsSound(_, _, _), CountRuleNodes(_), BetweenNodes(_, _), WithBetween(_, _, _)

\* ruleNodeErrors finds nothing.
RuleIsSound(node, aliases, depth) ==
    /\ depth <= MAX_SCAN_DEPTH
    /\ \/ /\ node.operator \in LOGICAL_OPERATORS
          /\ Len(node.rules) >= 2
          /\ \A i \in DOMAIN node.rules : RuleIsSound(node.rules[i], aliases, depth + 1)
       \/ /\ node.operator = "BETWEEN"
          /\ \A o \in {node.operand, node.lowerBound, node.upperBound} : OperandIsSound(o, aliases)
          /\ ~IsConstant(node.operand)
          /\ IsConstant(node.lowerBound) /\ IsConstant(node.upperBound) =>
                 node.lowerBound.value < node.upperBound.value
       \/ /\ node.operator \in COMPARISON_OPERATORS \cup CROSS_OPERATORS
          /\ OperandIsSound(node.left, aliases) /\ OperandIsSound(node.right, aliases)
          /\ ~(IsConstant(node.left) /\ IsConstant(node.right))

CountRuleNodes(node) ==
    IF node.operator \in LOGICAL_OPERATORS
    THEN 1 + FoldLeft(LAMBDA n, child : n + CountRuleNodes(child), 0, node.rules)
    ELSE 1

\* An indicator whose alias was already declared, or names a market field, declares nothing.
IndicatorIsSound(indicators, i) ==
    LET it == indicators[i] IN
    /\ it.type \in KNOWN_INDICATOR_TYPES
    /\ it.sourceField \in SAFE_MARKET_FIELDS
    /\ it.period > 0
    /\ it.outputAlias \notin SAFE_MARKET_FIELDS
    /\ \A j \in 1 .. (i - 1) : indicators[j].id # it.id /\ indicators[j].outputAlias # it.outputAlias
DeclaredAliases(raw) == {it.outputAlias : it \in ToSet(raw.indicators)} \ SAFE_MARKET_FIELDS

\* Mutant: the condition of an exit is taken as it is.
ExitIsSoundLoose(exit, aliases) == exit.kind = "CONDITION" \/ exit.maxBars > 0

ExitIsSound(exit, aliases) ==
    \/ exit.kind = "CONDITION" /\ RuleIsSound(exit.rule, aliases, 0)
    \/ exit.kind = "MAX_BARS_HELD" /\ exit.maxBars > 0

\* What is wrong with a document, by the flags that choose the reason.
Errors(raw, catalogue) ==
    LET aliases == DeclaredAliases(raw)
    IN  {e \in {"prohibited", "indicator", "ruleTree", "instrument", "shape", "field"} :
          CASE e = "prohibited" -> FindProhibitedFields(raw) # {}
            [] e = "indicator"  -> \/ raw.indicators = <<>>
                                   \/ \E i \in DOMAIN raw.indicators : ~IndicatorIsSound(raw.indicators, i)
            [] e = "ruleTree"   -> \/ ~RuleIsSound(raw.entryRules, aliases, 0)
                                   \/ CountRuleNodes(raw.entryRules) > MAX_RULE_NODES
                                   \/ \E x \in ToSet(raw.signalExitRules) : ~ExitIsSound(x, aliases)
            [] e = "instrument" -> \/ ~IsInjective(raw.supportedInstruments)
                                   \/ ~(ToSet(raw.supportedInstruments) \subseteq DOMAIN catalogue)
            [] e = "shape"      -> raw.extraRootKeys # {}
            [] OTHER            -> \/ raw.malformed # {} \/ raw.status \notin KNOWN_STATUSES
                                   \/ raw.supportedInstruments = <<>>}

UsableForBacktest(raw) == raw.status \in {"APPROVED_FOR_BACKTEST", "APPROVED_FOR_DEMO"}

\* validateStrategyDefinition.  An id or version of the wrong pattern is "", <<>>.
ValidateStrategyDefinition(raw, catalogue) ==
    LET errors == Errors(raw, catalogue)
    IN  CASE raw.schemaVersion < 1     -> "SCHEMA_VERSION_TOO_OLD"
          [] raw.schemaVersion >= 1 /\ raw.strategyId = "" -> "INVALID_STRATEGY_ID"
          [] raw.schemaVersion >= 1 /\ raw.strategyId # "" /\ raw.strategyVersion = <<>> -> "INVALID_STRATEGY_VERSION"
          [] OTHER -> CASE errors = {}             -> "accepted"
                        [] "prohibited" \in errors -> "PROHIBITED_FIELD"
                        [] "prohibited" \notin errors /\ "indicator" \in errors -> "INVALID_INDICATOR"
                        [] errors \subseteq {"ruleTree", "instrument", "shape", "field"} /\ "ruleTree" \in errors ->
                               "INVALID_RULE_TREE"
                        [] errors \subseteq {"instrument", "shape", "field"} /\ "instrument" \in errors ->
                               "UNSUPPORTED_INSTRUMENT"
                        [] errors \subseteq {"shape", "field"} /\ "shape" \in errors -> "UNEXPECTED_SHAPE"
                        [] errors = {"field"} -> "MISSING_REQUIRED_FIELD"

-----------------------------------------------------------------------------
(* The registry: a directory is a sequence of files in the order of their   *)
(* names, each unreadable (a symbolic link, a directory, no JSON) or a      *)
(* document.                                                                *)

CompareSemver(a, b) ==
    IF a[1] # b[1] THEN a[1] - b[1] ELSE IF a[2] # b[2] THEN a[2] - b[2] ELSE a[3] - b[3]

SameKey(a, b) == a.strategyId = b.strategyId /\ a.strategyVersion = b.strategyVersion

\* Mutant: of conflicting files the first wins.
LoadFirstWins(files, catalogue) ==
    LET Valid(i) == files[i].readable /\ ValidateStrategyDefinition(files[i].document, catalogue) = "accepted"
    IN  [accepted |-> {i \in DOMAIN files : Valid(i) /\ ~\E j \in 1 .. (i - 1) : Valid(j) /\ SameKey(files[j].document, files[i].document)},
         conflicting |-> {}]

LoadStrategyDefinitions(files, catalogue) ==
    LET Valid(i) == files[i].readable /\ ValidateStrategyDefinition(files[i].document, catalogue) = "accepted"
        rivals(i) == {j \in DOMAIN files : Valid(j) /\ SameKey(files[j].document, files[i].document)}
        accepted == {i \in DOMAIN files : /\ Valid(i)
                                          /\ \A j \in rivals(i) : files[j].document = files[i].document
                                          /\ i = Min(rivals(i))}
    IN  [accepted |-> accepted,
         conflicting |-> {i \in DOMAIN files : Valid(i) /\ \E j \in rivals(i) : files[j].document # files[i].document}]

\* selectLatestVersions: the file of the latest version of each id.
SelectLatestVersions(files, accepted) ==
    {i \in accepted : \A j \in accepted : files[j].document.strategyId = files[i].document.strategyId =>
                          CompareSemver(files[j].document.strategyVersion, files[i].document.strategyVersion) <= 0}

-----------------------------------------------------------------------------
(* Variants: overrides are a function on some of the dimensions.           *)

IndicatorsOf(doc, type) == {i \in DOMAIN doc.indicators : doc.indicators[i].type = type}

\* The two EMAs by period, the first declared first when they are equal.
FastEma(doc) ==
    LET emas == IndicatorsOf(doc, "EMA")
    IN  CHOOSE i \in emas : \A j \in emas \ {i} :
            \/ doc.indicators[i].period < doc.indicators[j].period
            \/ doc.indicators[i].period = doc.indicators[j].period /\ i < j
SlowEma(doc) == CHOOSE i \in IndicatorsOf(doc, "EMA") \ {FastEma(doc)} : TRUE

\* findBetweenNodeForAlias: the first BETWEEN node on the alias, as a set; and the tree with it replaced.
BetweenNodes(node, alias) ==
    IF node.operator \in LOGICAL_OPERATORS
    THEN LET hits == {i \in DOMAIN node.rules : BetweenNodes(node.rules[i], alias) # {}}
         IN  IF hits = {} THEN {} ELSE BetweenNodes(node.rules[Min(hits)], alias)
    ELSE IF node.operator = "BETWEEN" /\ node.operand.kind = "INDICATOR_ALIAS" /\ node.operand.alias = alias
         THEN {node} ELSE {}
WithBetween(node, alias, new) ==
    IF node.operator \in LOGICAL_OPERATORS
    THEN LET hit == Min({i \in DOMAIN node.rules : BetweenNodes(node.rules[i], alias) # {}})
         IN  [node EXCEPT !.rules[hit] = WithBetween(node.rules[hit], alias, new)]
    ELSE new

Given(overrides, key, old) == IF key \in DOMAIN overrides THEN overrides[key] ELSE old
WithPeriod(doc, i, period) == [doc EXCEPT !.indicators[i].period = period]
Applied(doc) == [ok |-> TRUE, document |-> doc]
Refused(reason) == [ok |-> FALSE, reason |-> reason]

\* Mutant: the order of the two periods is not checked.
OverrideEmaUnordered(doc, overrides) ==
    IF {"emaFastPeriod", "emaSlowPeriod"} \cap DOMAIN overrides = {} THEN Applied(doc)
    ELSE IF Cardinality(IndicatorsOf(doc, "EMA")) # 2 THEN Refused("AMBIGUOUS_EMA_COUNT")
    ELSE LET fast == Given(overrides, "emaFastPeriod", doc.indicators[FastEma(doc)].period)
             slow == Given(overrides, "emaSlowPeriod", doc.indicators[SlowEma(doc)].period)
         IN  Applied(WithPeriod(WithPeriod(doc, FastEma(doc), fast), SlowEma(doc), slow))

OverrideEma(doc, overrides) ==
    IF {"emaFastPeriod", "emaSlowPeriod"} \cap DOMAIN overrides = {} THEN Applied(doc)
    ELSE IF Cardinality(IndicatorsOf(doc, "EMA")) # 2 THEN Refused("AMBIGUOUS_EMA_COUNT")
    ELSE LET fast == Given(overrides, "emaFastPeriod", doc.indicators[FastEma(doc)].period)
             slow == Given(overrides, "emaSlowPeriod", doc.indicators[SlowEma(doc)].period)
         IN  IF fast >= slow THEN Refused("INVALID_EMA_ORDERING")
             ELSE Applied(WithPeriod(WithPeriod(doc, FastEma(doc), fast), SlowEma(doc), slow))

\* rsiPeriod and atrPeriod, on the one indicator of their type.
OverridePeriod(doc, overrides, key, type) ==
    IF key \notin DOMAIN overrides THEN Applied(doc)
    ELSE IF Cardinality(IndicatorsOf(doc, type)) # 1 THEN Refused("AMBIGUOUS_" \o type \o "_COUNT")
    ELSE Applied(WithPeriod(doc, CHOOSE i \in IndicatorsOf(doc, type) : TRUE, overrides[key]))

\* A bound that is no constant stays as it is.
Bounded(operand, overrides, key) ==
    IF IsConstant(operand) THEN [operand EXCEPT !.value = Given(overrides, key, operand.value)] ELSE operand
OverrideBounds(doc, overrides) ==
    IF {"rsiLowerBound", "rsiUpperBound"} \cap DOMAIN overrides = {} THEN Applied(doc)
    ELSE IF Cardinality(IndicatorsOf(doc, "RSI")) # 1 THEN Refused("AMBIGUOUS_RSI_COUNT")
    ELSE LET alias == doc.indicators[CHOOSE i \in IndicatorsOf(doc, "RSI") : TRUE].outputAlias
             found == BetweenNodes(doc.entryRules, alias)
         IN  IF found = {} THEN Refused("RSI_BOUNDS_NODE_NOT_FOUND")
             ELSE LET node == CHOOSE n \in found : TRUE
                      lower == Bounded(node.lowerBound, overrides, "rsiLowerBound")
                      upper == Bounded(node.upperBound, overrides, "rsiUpperBound")
                      new   == [node EXCEPT !.lowerBound = lower, !.upperBound = upper]
                  IN  IF IsConstant(lower) /\ IsConstant(upper) /\ lower.value >= upper.value
                      THEN Refused("INVALID_RSI_BOUNDS_ORDERING")
                      ELSE Applied([doc EXCEPT !.entryRules = WithBetween(doc.entryRules, alias, new)])

OverrideMaxBars(doc, overrides) ==
    LET rules == {i \in DOMAIN doc.signalExitRules : doc.signalExitRules[i].kind = "MAX_BARS_HELD"}
    IN  IF "maxBarsHeld" \notin DOMAIN overrides THEN Applied(doc)
        ELSE IF Cardinality(rules) # 1 THEN Refused("AMBIGUOUS_MAX_BARS_HELD")
        ELSE Applied([doc EXCEPT !.signalExitRules[CHOOSE i \in rules : TRUE].maxBars = overrides["maxBarsHeld"]])

ApplyStrategyOverrides(baseline, overrides) ==
    LET Then(r, Step(_)) == IF r.ok THEN Step(r.document) ELSE r
    IN  Then(Then(Then(Then(OverrideEma(baseline, overrides),
                            LAMBDA d : OverridePeriod(d, overrides, "rsiPeriod", "RSI")),
                       LAMBDA d : OverrideBounds(d, overrides)),
                  LAMBDA d : OverridePeriod(d, overrides, "atrPeriod", "ATR")),
             LAMBDA d : OverrideMaxBars(d, overrides))

GenerateValidatedVariant(baseline, catalogue, overrides) ==
    LET Validated(r) == IF ~r.ok \/ ValidateStrategyDefinition(r.document, catalogue) = "accepted" THEN r
                        ELSE Refused("VALIDATION_FAILED")
    IN  Validated(ApplyStrategyOverrides(baseline, overrides))

-----------------------------------------------------------------------------
(* The experiment matrix.  A dimension is the sequence of its values: the   *)
(* ones listed, or from min to max in steps.                                *)

ExpandRange(min, max, step) == [i \in 1 .. ((max - min) \div step + 1) |-> min + (i - 1) * step]

PeriodKeys == {"emaFastPeriod", "emaSlowPeriod", "rsiPeriod", "atrPeriod", "maxBarsHeld"}

\* Mutant: equal periods are let through.
StructurallyInvalidEqual(overrides) ==
    \/ {"emaFastPeriod", "emaSlowPeriod"} \subseteq DOMAIN overrides /\ overrides["emaFastPeriod"] > overrides["emaSlowPeriod"]
    \/ \E key \in PeriodKeys \cap DOMAIN overrides : overrides[key] <= 0

StructurallyInvalid(overrides) ==
    LET Pair(low, high) == {low, high} \subseteq DOMAIN overrides /\ overrides[low] >= overrides[high]
    IN  \/ Pair("emaFastPeriod", "emaSlowPeriod")
        \/ Pair("rsiLowerBound", "rsiUpperBound")
        \/ \E key \in PeriodKeys \cap DOMAIN overrides : overrides[key] <= 0

Combinations(dimensions) ==
    {o \in [DOMAIN dimensions -> UNION {ToSet(dimensions[k]) : k \in DOMAIN dimensions}] :
        \A k \in DOMAIN dimensions : o[k] \in ToSet(dimensions[k])}

\* generateExperimentMatrix: the variants, or why there are none.  The raw count is of listed values,
\* the same one twice included.
GenerateExperimentMatrix(dimensions, maxExperiments) ==
    LET cap   == Min({maxExperiments, MAX_EXPERIMENT_VARIANTS})
        raw   == MapThenFoldSet(LAMBDA a, b : a * b, 1, LAMBDA k : Len(dimensions[k]),
                                LAMBDA s : CHOOSE k \in s : TRUE, DOMAIN dimensions)
        valid == {o \in Combinations(dimensions) : ~StructurallyInvalid(o)}
        others == {o \in valid : DOMAIN o # {}}
    IN  IF 1 + raw > cap THEN Refused("EXPERIMENT_CAP_EXCEEDED")
        ELSE IF DOMAIN dimensions # {} /\ others = {} THEN Refused("NO_VALID_VARIANTS")
        ELSE [ok |-> TRUE, variants |-> <<[k \in {} |-> 0]>> \o SetToSeq(others),
              excluded |-> Combinations(dimensions) \ valid]
=============================================================================
