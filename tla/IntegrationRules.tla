-------------------------- MODULE IntegrationRules --------------------------
(***************************************************************************)
(* The Hermes integration API: what it tells of the trading runtime from   *)
(* nothing but the audit log, and of the account from a broker it connects *)
(* for one request.                                                        *)
(*                                                                         *)
(* An event is a record with a type, a time and an action; what it may or  *)
(* may not carry (instrument, candidate, record, pnl) is a set of at most  *)
(* one element.                                                            *)
(***************************************************************************)
EXTENDS Integers, Sequences, FiniteSets, SequencesExt

CONSTANT EXECUTION_LOOKAHEAD_WINDOW

Indices(events, types) == {i \in DOMAIN events : events[i].type \in types}
Latest(indices) == CHOOSE i \in indices : \A j \in indices : j <= i
Earliest(indices) == CHOOSE i \in indices : \A j \in indices : i <= j
Known(numbers) == IF numbers = {} THEN 0 ELSE CHOOSE n \in numbers : TRUE
Total(events, indices) == FoldSet(LAMBDA i, sum : sum + Known(events[i].pnl), 0, indices)

-----------------------------------------------------------------------------
(* The runtime as its log shows it.                                        *)

StateAfter ==
    [TRADING_RUNTIME_STARTED |-> "RUNNING", TRADING_RUNTIME_STOPPED |-> "STOPPED",
     TRADING_RUNTIME_PAUSED |-> "PAUSED", TRADING_RUNTIME_RESUMED |-> "RUNNING"]

\* Mutant: the first start is taken.
FindFirstRuntimeStart(events) ==
    LET starts == Indices(events, {"TRADING_RUNTIME_STARTED"}) IN IF starts = {} THEN 0 ELSE Earliest(starts)

\* 0 when the runtime was never started.
FindLastRuntimeStartIndex(events) ==
    LET starts == Indices(events, {"TRADING_RUNTIME_STARTED"}) IN IF starts = {} THEN 0 ELSE Latest(starts)

\* Counted from the last start only, and not at all without one.
DeriveObservedRuntimeState(events) ==
    LET lifecycle == Indices(events, DOMAIN StateAfter)
        start     == FindLastRuntimeStartIndex(events)
        since(types) == {i \in Indices(events, types) : start > 0 /\ i >= start}
        runs      == since({"TRADING_CYCLE_COMPLETED", "TRADING_CYCLE_FAILED"})
    IN  [state      |-> IF lifecycle = {} THEN "unknown" ELSE StateAfter[events[Latest(lifecycle)].type],
         successful |-> Cardinality(since({"TRADING_CYCLE_COMPLETED"})),
         failed     |-> Cardinality(since({"TRADING_CYCLE_FAILED"})),
         overlaps   |-> Cardinality(since({"TRADING_CYCLE_SKIPPED_OVERLAP"})),
         lastRunAt  |-> {events[i].at : i \in {j \in runs : j = Latest(runs)}}]

\* Nothing, and not zero, when no trade was closed.
SumRealisedPnlSinceLastStart(events) ==
    LET closed == {i \in Indices(events, {"TRADE_CLOSED"}) : i >= FindLastRuntimeStartIndex(events)}
    IN  IF closed = {} THEN {} ELSE {Total(events, closed)}

FailureTypes ==
    {"TRADING_CYCLE_FAILED", "TRADE_RISK_REJECTED", "TRADE_EXECUTION_FAILED", "TRADE_CLOSE_FAILED", "BROKER_CONNECTION_FAILED"}

LatestFailureOrWarning(events, since) ==
    LET failures == {i \in Indices(events, FailureTypes) : i >= since}
    IN  IF failures = {} THEN {} ELSE {Latest(failures)}

\* Over the whole log: a restart does not hide them.
ListUnreconciledClosures(events) ==
    {i \in Indices(events, {"BROKER_RECONCILIATION_MISMATCH"}) : events[i].action = "reconciled-closed-unreconciled"}

-----------------------------------------------------------------------------
(* Decisions and what became of them.                                      *)

\* Mutant: only selected proposals count, so a HOLD is never seen.
SelectedProposalsOnly(events) == {"MARKET_DECISION_RECEIVED", "HERMES_PROPOSAL_SELECTED"}

\* Every selected proposal is also recorded per instrument, in the logs that record instruments at all.
DecisionSourceTypes(events) ==
    IF Indices(events, {"HERMES_INSTRUMENT_DECISION_RECORDED"}) # {}
    THEN {"MARKET_DECISION_RECEIVED", "HERMES_INSTRUMENT_DECISION_RECORDED"}
    ELSE {"MARKET_DECISION_RECEIVED", "HERMES_PROPOSAL_SELECTED"}

StatusAfter ==
    [TRADE_CANDIDATE_APPROVED |-> "APPROVED", TRADE_CANDIDATE_REJECTED |-> "REJECTED", TRADE_CANDIDATE_EXPIRED |-> "EXPIRED",
     TRADE_CANDIDATE_EXECUTION_FAILED |-> "FAILED", TRADE_CANDIDATE_EXECUTED |-> "OPENED"]

\* Mutant: the transitions of every candidate are followed.
TransitionsOfAll(events, candidate) == Indices(events, DOMAIN StatusAfter)

\* The candidate's own transitions, up to the first that ends it; a blocked entry is none of them.
Transitions(events, candidate) ==
    LET own      == {i \in Indices(events, DOMAIN StatusAfter) : events[i].candidate = {candidate}}
        terminal == {i \in own : StatusAfter[events[i].type] \in {"REJECTED", "EXPIRED", "FAILED"}}
    IN  {i \in own : \A t \in terminal : i <= t}

\* However late the candidate was answered or its trade closed.
FollowCandidate(events, candidate) ==
    LET steps   == Transitions(events, candidate)
        status  == IF steps = {} THEN "PENDING" ELSE StatusAfter[events[Latest(steps)].type]
        opened  == {i \in steps : events[i].type = "TRADE_CANDIDATE_EXECUTED"}
        record  == IF opened = {} THEN {} ELSE events[Latest(opened)].record
        closes  == {i \in Indices(events, {"TRADE_CLOSED"}) : events[i].record # {} /\ events[i].record = record}
        closed  == status = "OPENED" /\ closes # {}
    IN  [status |-> IF closed THEN "CLOSED" ELSE status, executed |-> status = "OPENED",
         candidate |-> {candidate}, record |-> record, pnl |-> IF closed THEN events[Latest(closes)].pnl ELSE {}]

Unexecuted(status) == [status |-> status, executed |-> FALSE, candidate |-> {}, record |-> {}, pnl |-> {}]

\* The older pipeline executes at once: a few events after the decision, within its cycle.
CorrelateViaLegacyImmediateExecution(events, decision, instrument) ==
    LET outcome == [TRADE_RISK_REJECTED |-> "RISK_REJECTED", TRADE_OPENED |-> "OPENED", TRADE_CLOSED |-> "CLOSED",
                    TRADE_EXECUTION_FAILED |-> "EXECUTION_FAILED", TRADE_CLOSE_FAILED |-> "CLOSE_FAILED",
                    EXECUTION_SKIPPED |-> "SKIPPED"]
        window  == {i \in DOMAIN events : i \in decision + 1 .. decision + EXECUTION_LOOKAHEAD_WINDOW}
        ends    == window \cap Indices(events, {"TRADING_CYCLE_COMPLETED", "TRADING_CYCLE_FAILED"})
        found   == {i \in window \cap Indices(events, DOMAIN outcome) :
                        events[i].instrument = {instrument} /\ \A e \in ends : i < e}
        event   == events[Earliest(found)]
    IN  IF found = {} THEN Unexecuted("unknown")
        ELSE [Unexecuted(outcome[event.type]) EXCEPT
                !.executed = event.type \in {"TRADE_OPENED", "TRADE_CLOSED"},
                !.pnl = IF event.type = "TRADE_CLOSED" THEN event.pnl ELSE {}]

\* The first candidate created before the instrument's next decision is this decision's;
\* without one, the log may say why none was created.
DeriveExecutionResult(events, decision, boundary, instrument, action) ==
    LET within  == {i \in DOMAIN events : decision < i /\ i < boundary /\ events[i].instrument = {instrument}}
        created == {i \in within : events[i].type = "TRADE_CANDIDATE_CREATED" /\ events[i].candidate # {}}
        reasons == {i \in within : events[i].type \in {"KILL_SWITCH_ENTRY_BLOCKED", "DUPLICATE_ENTRY_SUPPRESSED"}
                                     /\ events[i].candidate = {}}
    IN  CASE action = "HOLD" -> Unexecuted("HOLD")
          [] action # "HOLD" /\ created # {} ->
                FollowCandidate(events, CHOOSE c \in events[Earliest(created)].candidate : TRUE)
          [] action # "HOLD" /\ created = {} /\ reasons # {} ->
                Unexecuted(IF events[Earliest(reasons)].type = "DUPLICATE_ENTRY_SUPPRESSED" THEN "SUPPRESSED" ELSE "BLOCKED")
          [] OTHER -> CorrelateViaLegacyImmediateExecution(events, decision, instrument)

\* A filter that names nothing lets everything pass.
Wanted(event, symbol, filters) ==
    /\ filters.symbol # {} => symbol \in filters.symbol
    /\ filters.outcome # {} => event.action \in filters.outcome
    /\ filters.since <= event.at

\* The later one, and of the same time the one written later.
Newer(events, i, j) == events[i].at > events[j].at \/ (events[i].at = events[j].at /\ i > j)
AtRank(events, chosen, k) == CHOOSE i \in chosen : Cardinality({j \in chosen : Newer(events, j, i)}) = k - 1
NewestFirst(events, chosen) == [k \in 1 .. Cardinality(chosen) |-> AtRank(events, chosen, k)]

Symbol(event) == IF event.instrument = {} THEN "unknown" ELSE CHOOSE s \in event.instrument : TRUE

\* A decision the query does not ask for still bounds the search of an earlier one.
DescribeDecision(events, sources, i) ==
    LET symbol == Symbol(events[i])
        later  == {j \in sources : j > i /\ Symbol(events[j]) = symbol}
    IN  [decision |-> i, at |-> events[i].at, symbol |-> symbol, outcome |-> events[i].action,
         result |-> DeriveExecutionResult(events, i, IF later = {} THEN Len(events) + 1 ELSE Earliest(later),
                                          symbol, events[i].action)]

ListDecisions(events, filters) ==
    LET sources == {i \in Indices(events, DecisionSourceTypes(events)) : events[i].action \in {"BUY", "SELL", "HOLD"}}
        wanted  == {i \in sources : Wanted(events[i], Symbol(events[i]), filters)}
        newest  == NewestFirst(events, {i \in wanted : Cardinality({j \in wanted : j > i}) < filters.limit})
    IN  [k \in DOMAIN newest |-> DescribeDecision(events, sources, newest[k])]

-----------------------------------------------------------------------------
(* The account.  A broker answers one request: whether it has a raw         *)
(* portfolio, resolves instruments and quotes rates, and how each call ends *)
(* (the empty set is an error).                                             *)

\* Kept for the life of the process from the first request that needed it (cache: no map or one),
\* without the instruments that did not resolve that time.
ResolveInstrumentIdMap(broker, universe, cache) ==
    IF cache # {} \/ ~broker.resolves THEN cache
    ELSE {{[symbol |-> s, id |-> CHOOSE i \in broker.ids[s] : TRUE] : s \in {u \in universe : broker.ids[u] # {}}}}

\* Mutant: whatever the name resolves to will do.
ResolvedToAnything(broker, position) ==
    ~broker.resolves \/ (position.symbol \in DOMAIN broker.ids /\ broker.ids[position.symbol] # {})

\* Resolved by this broker, to the very instrument the position is in.
EnsureResolvedForPricing(broker, position) ==
    \/ ~broker.resolves
    \/ /\ position.symbol \in DOMAIN broker.ids /\ broker.ids[position.symbol] # {}
       /\ position.id # {} => position.id = broker.ids[position.symbol]

\* What closing would fetch: the bid for a long position, the ask for a short one.
PriceOpenPosition(broker, position) ==
    LET quotable == /\ broker.quotes
                    /\ position.side # "unknown" /\ position.units # {} /\ position.entry # {}
                    /\ EnsureResolvedForPricing(broker, position)
                    /\ position.symbol \in DOMAIN broker.rates /\ broker.rates[position.symbol] # {}
        rate     == CHOOSE r \in broker.rates[position.symbol] : TRUE
        price    == IF position.side = "BUY" THEN rate.bid ELSE rate.ask
        units    == CHOOSE u \in position.units : TRUE
        entry    == CHOOSE e \in position.entry : TRUE
        gain     == IF position.side = "BUY" THEN price - entry ELSE entry - price
    IN  [position |-> position, source |-> IF quotable THEN "broker" ELSE "unavailable",
         price |-> IF quotable THEN {price} ELSE {}, pnl |-> IF quotable THEN {gain * units} ELSE {}]

\* A raw position under its configured name, or under its number.
NamePosition(raw, map) ==
    LET names == {e.symbol : e \in {m \in UNION map : raw.id = {m.id}}}
    IN  [raw EXCEPT !.symbol = IF names = {} THEN "number" ELSE CHOOSE n \in names : TRUE]

\* Mutant: one position with a price makes the prices complete.
SnapshotOnAnyPrice(broker, universe, cache) ==
    LET map  == ResolveInstrumentIdMap(broker, universe, cache)
        priced == [i \in DOMAIN broker.positions |-> PriceOpenPosition(broker, NamePosition(broker.positions[i], map))]
    IN  IF ~broker.connects \/ broker.portfolio = "unreadable" THEN [ok |-> FALSE, positions |-> <<>>, complete |-> FALSE]
        ELSE [ok |-> TRUE, positions |-> priced, complete |-> \E i \in DOMAIN priced : priced[i].source = "broker"]

GetBrokerSnapshot(broker, universe, cache) ==
    LET map  == ResolveInstrumentIdMap(broker, universe, cache)
        base == IF broker.portfolio = "raw" THEN [i \in DOMAIN broker.positions |-> NamePosition(broker.positions[i], map)]
                ELSE [i \in DOMAIN broker.positions |-> [broker.positions[i] EXCEPT !.id = {}]]
        priced == [i \in DOMAIN base |-> PriceOpenPosition(broker, base[i])]
    IN  IF ~broker.connects \/ broker.portfolio = "unreadable" THEN [ok |-> FALSE, positions |-> <<>>, complete |-> FALSE]
        ELSE [ok |-> TRUE, positions |-> priced, complete |-> \A i \in DOMAIN priced : priced[i].source = "broker"]

\* The cache a request leaves behind: it was reached only if the portfolio could be read.
CacheAfter(broker, universe, cache) ==
    IF broker.connects /\ broker.portfolio = "raw" THEN ResolveInstrumentIdMap(broker, universe, cache) ELSE cache

-----------------------------------------------------------------------------
(* The summary, each of whose parts may be missing without taking the      *)
(* others with it.                                                         *)

\* The service's figure, or nothing: not configured, no client, or a store that cannot be read.
GetDurableRealisedPnlSummary(store) ==
    IF store.configured /\ store.client /\ store.readable
    THEN [realisedPnl |-> store.realisedPnl, trades |-> store.trades, unreconciled |-> store.unreconciled]
    ELSE [realisedPnl |-> {}, trades |-> 0, unreconciled |-> 0]

\* A file that is not there yet is a runtime that has recorded nothing; a damaged one is unknown.
ReadHermesRuntimeAuditLog(file) ==
    [events |-> IF file.found = "list" THEN file.events ELSE <<>>, available |-> file.found \in {"list", "missing"}]

GetSummary(configured, snapshot, durable, log) ==
    LET runtime  == DeriveObservedRuntimeState(log.events)
        start    == FindLastRuntimeStartIndex(log.events)
        failure  == IF log.available THEN LatestFailureOrWarning(log.events, start) ELSE {}
        closures == IF log.available THEN ListUnreconciledClosures(log.events) ELSE {}
    IN  [health    |-> IF configured /\ snapshot.ok THEN "healthy" ELSE "unavailable",
         portfolio |-> IF snapshot.ok THEN {[openPositions |-> Len(snapshot.positions), realisedPnl |-> durable.realisedPnl]} ELSE {},
         runtime   |-> IF log.available THEN {runtime} ELSE {},
         latest    |-> IF log.available
                       THEN ListDecisions(log.events, [limit |-> 1, symbol |-> {}, outcome |-> {}, since |-> 0]) ELSE <<>>,
         failure   |-> failure,
         closures  |-> closures,
         warnings  |-> {w \in {"config", "broker", "durable", "stopped", "paused", "failure", "closures", "log"} :
                            \/ w = "config" /\ ~configured
                            \/ w = "broker" /\ ~snapshot.ok
                            \/ w = "durable" /\ durable.realisedPnl = {}
                            \/ w = "stopped" /\ log.available /\ runtime.state = "STOPPED"
                            \/ w = "paused" /\ log.available /\ runtime.state = "PAUSED"
                            \/ w = "failure" /\ failure # {}
                            \/ w = "closures" /\ closures # {}
                            \/ w = "log" /\ ~log.available}]

\* Worst first.
Worst(severities) ==
    LET ranked == <<"unavailable", "degraded", "unknown", "healthy">>
    IN  ranked[Earliest({i \in 1 .. 4 : ranked[i] \in severities})]

GetHealth(configured, marketData, snapshot, log) ==
    LET application == IF configured THEN "healthy" ELSE "unavailable"
        broker  == IF ~configured THEN "unknown" ELSE IF snapshot.ok THEN "healthy" ELSE "unavailable"
        market  == IF configured /\ ~snapshot.ok /\ marketData # "live" THEN "healthy" ELSE broker
        state   == IF log.available THEN DeriveObservedRuntimeState(log.events).state ELSE "unknown"
        runtime == CASE state = "RUNNING" -> "healthy" [] state = "unknown" -> "unknown" [] OTHER -> "degraded"
    IN  [status |-> Worst({application, broker, market, runtime}), runtime |-> state]

Plus(sum, number) == sum + number

\* An equity that would leave out a position without a price is not given at all.
GetPortfolio(cash, snapshot, durable) ==
    LET positions  == snapshot.positions
        invested   == FoldLeft(Plus, 0, [i \in DOMAIN positions |-> positions[i].position.amount])
        unrealised == FoldLeft(Plus, 0, [i \in DOMAIN positions |-> Known(positions[i].pnl)])
    IN  IF ~snapshot.ok THEN [status |-> 503, equity |-> {}, unrealised |-> {}]
        ELSE [status |-> 200, unrealised |-> IF snapshot.complete THEN {unrealised} ELSE {},
              equity |-> IF snapshot.complete THEN {cash + invested + unrealised} ELSE {}]

\* The dashboard's own server asks on the browser's behalf and passes a readable answer on unchanged.
ProxyGet(config, upstream) ==
    CASE config = "invalid" -> [status |-> 500, error |-> "CONFIG_ERROR"]
      [] config = "unset" -> [status |-> 401, error |-> "UNAUTHORIZED"]
      [] config = "set" /\ upstream.reached = FALSE -> [status |-> 502, error |-> "UPSTREAM_UNREACHABLE"]
      [] config = "set" /\ upstream.reached /\ ~upstream.json -> [status |-> 502, error |-> "UPSTREAM_MALFORMED_RESPONSE"]
      [] OTHER -> [status |-> upstream.status, error |-> upstream.error]

-----------------------------------------------------------------------------
(* The process list: one run of pm2, whose output, errors, end and          *)
(* deadline arrive in any order.                                           *)

\* Mutant: what closes with success is taken, however much it wrote.
JlistStepUnlimited(run, event, limit) ==
    LET settled(result) == [run EXCEPT !.result = result]
    IN  CASE run.result # "running" -> run
          [] run.result = "running" /\ event.type = "timer" -> settled("timeout")
          [] run.result = "running" /\ event.type = "error" -> settled("spawn-error")
          [] run.result = "running" /\ event.type = "data" -> [run EXCEPT !.size = @ + event.size]
          [] run.result = "running" /\ event.type = "close" -> settled(IF event.code # 0 THEN "non-zero-exit" ELSE "ok")

\* The first thing that settles the run decides it; output beyond the limit has it killed.
JlistStep(run, event, limit) ==
    LET settled(result) == [run EXCEPT !.result = result]
    IN  CASE run.result # "running" -> run
          [] run.result = "running" /\ event.type = "timer" -> settled("timeout")
          [] run.result = "running" /\ event.type = "error" -> settled("spawn-error")
          [] run.result = "running" /\ event.type = "data" ->
                IF run.oversized THEN run
                ELSE [run EXCEPT !.size = @ + event.size, !.oversized = run.size + event.size > limit]
          [] run.result = "running" /\ event.type = "close" ->
                IF run.oversized THEN settled("oversized-stdout")
                ELSE IF event.code # 0 THEN settled("non-zero-exit") ELSE settled("ok")
Jlist(events, limit) ==
    FoldLeft(LAMBDA run, event : JlistStep(run, event, limit), [result |-> "running", size |-> 0, oversized |-> FALSE], events)

\* Of entries with one name the last counts; a process pm2 does not list is unavailable, not stopped.
MapPm2ProcessesToOperationsView(entries, monitored) ==
    [name \in monitored |->
        LET own == {i \in DOMAIN entries : entries[i].name = name}
        IN  IF own = {} THEN [available |-> FALSE, status |-> "unknown", timed |-> FALSE]
            ELSE LET status == entries[Latest(own)].status
                     known  == IF status \in {"online", "stopped", "errored", "launching"} THEN status ELSE "unknown"
                 IN  [available |-> TRUE, status |-> known, timed |-> known \in {"online", "launching"}]]

GetProcesses(events, limit, entries, monitored) ==
    LET run == Jlist(events, limit)
    IN  IF run.result # "ok" THEN [ok |-> FALSE, processes |-> [name \in {} |-> <<>>]]
        ELSE [ok |-> TRUE, processes |-> MapPm2ProcessesToOperationsView(entries, monitored)]
=============================================================================
