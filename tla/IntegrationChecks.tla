------------------------- MODULE IntegrationChecks -------------------------
(* What the integration API may say, over small logs and accounts.         *)
EXTENDS CheckState

IG == INSTANCE IntegrationRules WITH EXECUTION_LOOKAHEAD_WINDOW <- 8

Logged(type, action, instrument, candidate, record, pnl) ==
    [type |-> type, action |-> action, instrument |-> instrument, candidate |-> candidate, record |-> record, pnl |-> pnl, at |-> 0]
Plain(type) == Logged(type, "", {}, {}, {}, {})
Decision(i, action) == Logged("HERMES_INSTRUMENT_DECISION_RECORDED", action, {i}, {}, {}, {})
Of(type, i, c) == Logged("TRADE_CANDIDATE_" \o type, "", {i}, {c}, {}, {})
Executed(i, c, r) == [Of("EXECUTED", i, c) EXCEPT !.record = {r}]
ClosedTrade(i, r, pnl) == Logged("TRADE_CLOSED", "", {i}, {}, {r}, {pnl})
NoEntry(type, i) == Logged(type, "", {i}, {}, {}, {})

Interleavings(s, t) ==
    {[i \in 1 .. Len(s) + Len(t) |->
        LET before == Cardinality({k \in chosen : k <= i}) IN IF i \in chosen THEN s[before] ELSE t[i - before]] :
        chosen \in {c \in SUBSET (1 .. Len(s) + Len(t)) : Cardinality(c) = Len(s)}}
Timed(log) == [i \in DOMAIN log |-> [log[i] EXCEPT !.at = i]]

\* A candidate of a first decision goes its way while the instrument is decided on again.
BtcStories ==
    LET first  == <<Decision("BTC", "BUY"), Of("CREATED", "BTC", "c1")>>
        ended  == {<<Of("REJECTED", "BTC", "c1")>>, <<Of("APPROVED", "BTC", "c1"), Of("EXPIRED", "BTC", "c1")>>,
                   <<Of("APPROVED", "BTC", "c1"), Executed("BTC", "c1", "r1"), ClosedTrade("BTC", "r1", 0)>>}
        open   == {<<>>, <<Of("APPROVED", "BTC", "c1"), [Of("APPROVED", "BTC", "c1") EXCEPT !.type = "KILL_SWITCH_ENTRY_BLOCKED"]>>,
                   <<Of("APPROVED", "BTC", "c1"), Executed("BTC", "c1", "r1"), ClosedTrade("BTC", "r1", 7)>>}
        again  == {<<Decision("BTC", "HOLD")>>, <<Decision("BTC", "BUY"), NoEntry("DUPLICATE_ENTRY_SUPPRESSED", "BTC")>>,
                   <<Decision("BTC", "SELL"), NoEntry("KILL_SWITCH_ENTRY_BLOCKED", "BTC")>>}
        second == <<Decision("BTC", "BUY"), Of("CREATED", "BTC", "c2"), Of("APPROVED", "BTC", "c2"), Executed("BTC", "c2", "r2")>>
    IN  {first \o m : m \in UNION {Interleavings(o, a) : o \in open, a \in again}}
          \cup {first \o e \o second : e \in ended}
RecordedDecisions ==
    LET other == {<<>>, <<Decision("ETH", "HOLD")>>, <<Decision("ETH", "SELL"), Of("CREATED", "ETH", "c3")>>,
                  <<Logged("HERMES_PROPOSAL_SELECTED", "BUY", {"ETH"}, {}, {}, {})>>}
    IN  UNION {{[log |-> Timed(SubSeq(b, 1, k) \o o \o SubSeq(b, k + 1, Len(b))), limit |-> n] :
            o \in other, k \in 2 .. Len(b), n \in {1, 9}} : b \in BtcStories}

\* What a runtime that is started, stopped, paused and killed may leave behind.
RuntimeLogs ==
    LET events == {Plain(t) : t \in {"TRADING_RUNTIME_STARTED", "TRADING_RUNTIME_STOPPED", "TRADING_RUNTIME_PAUSED",
                                     "TRADING_CYCLE_COMPLETED", "TRADING_CYCLE_FAILED"}}
                    \cup {Logged("BROKER_RECONCILIATION_MISMATCH", "reconciled-closed-unreconciled", {"BTC"}, {}, {"r1"}, {})}
        running(log) == log # <<>> /\ \E i \in DOMAIN log : log[i].type = "TRADING_RUNTIME_STARTED"
                           /\ \A j \in i + 1 .. Len(log) : log[j].type # "TRADING_RUNTIME_STOPPED"
    IN  {Timed(log) : log \in {l \in UNION {[1 .. n -> events] : n \in 0 .. 4} :
            \A i \in DOMAIN l : running(SubSeq(l, 1, i - 1)) \/ l[i].type = "TRADING_RUNTIME_STARTED"}}

\* Two requests of one process, each to a broker of its own.
Universe == {"BTC", "ETH"}
Brokers ==
    LET ids  == {[BTC |-> {1}, ETH |-> {2}], [BTC |-> {}, ETH |-> {2}], [BTC |-> {2}, ETH |-> {1}]}
        long(side) == [symbol |-> "BTC", id |-> {1}, side |-> side, units |-> {2}, entry |-> {10}, amount |-> 20]
        short == [symbol |-> "ETH", id |-> {2}, side |-> "SELL", units |-> {1}, entry |-> {30}, amount |-> 30]
    IN  {[connects |-> TRUE, portfolio |-> p, resolves |-> r, quotes |-> TRUE, ids |-> i, positions |-> <<long(s), short>>,
          rates |-> [BTC |-> b, ETH |-> {[bid |-> 31, ask |-> 33]}]] :
            p \in {"raw", "unreadable", "none"}, r \in BOOLEAN, i \in ids, s \in {"BUY", "unknown"}, b \in {{}, {[bid |-> 9, ask |-> 12]}}}
SnapshotInputs == {[brokers |-> b, universe |-> Universe, cash |-> 100] : b \in Brokers \X Brokers}
Snapshots(i) ==
    LET first == i.brokers[1]  second == i.brokers[2]
    IN  <<IG!GetBrokerSnapshot(first, i.universe, {}),
          IG!GetBrokerSnapshot(second, i.universe, IG!CacheAfter(first, i.universe, {}))>>

Listed(i) == IG!ListDecisions(i.log, [limit |-> i.limit, symbol |-> {}, outcome |-> {}, since |-> 0])

SummaryInputs ==
    LET broker == CHOOSE b \in Brokers : b.portfolio = "raw"
    IN  {[configured |-> c, universe |-> Universe, broker |-> [broker EXCEPT !.connects = o], found |-> f, log |-> l,
          store |-> [configured |-> TRUE, client |-> TRUE, readable |-> r, realisedPnl |-> {0}, trades |-> 1, unreconciled |-> 0]] :
            c \in BOOLEAN, o \in BOOLEAN, f \in {"list", "damaged"}, r \in BOOLEAN, l \in RuntimeLogs}
Summarised(i) ==
    IG!GetSummary(i.configured, IG!GetBrokerSnapshot(i.broker, i.universe, {}), IG!GetDurableRealisedPnlSummary(i.store),
                  IG!ReadHermesRuntimeAuditLog([found |-> i.found, events |-> i.log]))

\* The portfolio and the health of the second request, with a runtime that is up.
Portfolios(i) ==
    LET snapshot == Snapshots(i)[2]
        up == [available |-> TRUE, events |-> <<Plain("TRADING_RUNTIME_STARTED")>>]
    IN  [portfolio |-> IG!GetPortfolio(i.cash, snapshot, {}), health |-> IG!GetHealth(TRUE, "live", snapshot, up), snapshot |-> snapshot,
         proxied |-> IG!ProxyGet("set", [reached |-> TRUE, json |-> TRUE, status |-> 200, error |-> "none"])]

\* Runs of pm2: output in pieces, an end, a failure to start, a deadline.
RunInputs ==
    LET arrivals == {[type |-> "data", size |-> 2, code |-> 0], [type |-> "data", size |-> 1, code |-> 0], [type |-> "timer", size |-> 0, code |-> 0],
                     [type |-> "error", size |-> 0, code |-> 0]} \cup {[type |-> "close", size |-> 0, code |-> c] : c \in {0, 1}}
        entry(n, s) == [name |-> n, status |-> s]
        once(e, t) == Cardinality({i \in DOMAIN e : e[i].type = t}) <= 1
    IN  {[events |-> e, limit |-> 3, entries |-> l] : e \in {a \in UNION {[1 .. n -> arrivals] : n \in 1 .. 4} : once(a, "close") /\ once(a, "timer") /\ once(a, "error")},
            l \in {<<entry("web", "online")>>, <<entry("web", "errored"), entry("web", "waiting restart"), entry("hermes", "stopped")>>}}
Processes(i) == IG!GetProcesses(i.events, i.limit, i.entries, {"web", "hermes"})

AskIntegration ==
    \/ Ask("portfolio", SnapshotInputs, Portfolios)
    \/ Ask("processes", RunInputs, Processes)
    \/ Ask("decisions", RecordedDecisions, Listed)
    \/ Ask("summary", SummaryInputs, Summarised)
    \/ Ask("snapshot", SnapshotInputs, Snapshots)

-----------------------------------------------------------------------------
(* Properties.                                                             *)

\* Each candidate is shown under the one decision that made it, however much later it was answered or
\* closed and whatever was decided on its instrument meanwhile, and with the last thing that happened
\* to it (audit-derivations.ts, listDecisions and correlateViaCandidateChain).
OutcomeIsOwn ==
    topic = "decisions" =>
        LET log     == input.log
            shown   == {output[k] : k \in DOMAIN output}
            makes(d, i) == /\ log[i].type = "TRADE_CANDIDATE_CREATED" /\ log[i].candidate = d.result.candidate
                           /\ d.decision < i /\ log[i].instrument = {d.symbol}
                           /\ \A j \in d.decision + 1 .. i - 1 :
                                ~(log[j].type = "HERMES_INSTRUMENT_DECISION_RECORDED" /\ log[j].instrument = {d.symbol})
        IN  /\ \A d \in shown : d.result.candidate # {} => \E i \in DOMAIN log : makes(d, i)
            /\ \A d, e \in shown : d.result.candidate # {} /\ d.result.candidate = e.result.candidate => d = e
            /\ \A d \in shown : d.result.candidate # {} =>
                  (d.result.executed <=> \E i \in DOMAIN log :
                        log[i].type = "TRADE_CANDIDATE_EXECUTED" /\ log[i].candidate = d.result.candidate)
            /\ \A d \in shown : d.result.status = "CLOSED" =>
                  \E i \in DOMAIN log : /\ log[i].type = "TRADE_CLOSED" /\ log[i].pnl = d.result.pnl
                                        /\ d.result.candidate # {} => log[i].record = d.result.record

\* The newest decision comes first, a HOLD too: an older proposal to buy never outranks it, and
\* asking for fewer decisions costs none of their outcomes (audit-derivations.ts, the decision sources).
NewestDecisionFirst ==
    topic = "decisions" =>
        LET decisions == {i \in DOMAIN input.log : input.log[i].type = "HERMES_INSTRUMENT_DECISION_RECORDED"}
            all == Listed([input EXCEPT !.limit = Len(input.log)])
        IN  /\ Len(all) = Cardinality(decisions)
            /\ Len(output) = (IF input.limit < Len(all) THEN input.limit ELSE Len(all))
            /\ \A i \in decisions : i <= output[1].decision
            /\ \A k \in DOMAIN output : output[k] = all[k]

\* After a restart the summary shows the new run alone, but never forgets a closure without a price;
\* what cannot be read is said to be missing and leaves the other parts alone (summary/route.ts).
SummaryIsOfThisRun ==
    topic = "summary" =>
        LET started(i) == input.log[i].type = "TRADING_RUNTIME_STARTED"
        IN  IF input.found = "damaged" THEN output.runtime = {} /\ "log" \in output.warnings
            ELSE /\ \A i \in output.failure : \A j \in i .. Len(input.log) : ~started(j)
                 /\ \A r \in output.runtime :
                       LET past == {i \in DOMAIN input.log : started(i)}
                           now  == {i \in DOMAIN input.log : \A j \in past : j <= i}
                       IN  r.successful = (IF past = {} THEN 0 ELSE Cardinality(
                                           {i \in now : input.log[i].type = "TRADING_CYCLE_COMPLETED"}))
                 /\ output.closures = {i \in DOMAIN input.log :
                                         /\ input.log[i].type = "BROKER_RECONCILIATION_MISMATCH"
                                         /\ input.log[i].action = "reconciled-closed-unreconciled"}
                 /\ (output.closures # {} => "closures" \in output.warnings)
                 /\ (output.portfolio # {} <=> input.broker.connects /\ input.broker.portfolio # "unreadable")

\* A position has a price only if the request's own broker resolved the very instrument it is held in,
\* also when the names come from an earlier request, and then the profit closing it now would bring;
\* a total that lacks one is not called complete (broker-snapshot.ts, priceOpenPositions).
PricedAsItself ==
    topic = "snapshot" =>
        \A n \in 1 .. 2 : output[n].ok =>
            LET broker == input.brokers[n]
                priced(i) == output[n].positions[i].source = "broker"
            IN  /\ \A i \in DOMAIN output[n].positions : priced(i) =>
                      LET p == output[n].positions[i].position
                      IN  /\ broker.resolves /\ p.id # {} => broker.ids[p.symbol] = p.id
                          /\ \A rate \in broker.rates[p.symbol], units \in p.units, entry \in p.entry :
                                output[n].positions[i].pnl = {units * (IF p.side = "BUY" THEN rate.bid - entry ELSE entry - rate.ask)}
                /\ output[n].complete <=> \A i \in DOMAIN output[n].positions : priced(i)
                /\ Len(output[n].positions) = Len(broker.positions)
                /\ broker.portfolio = "raw" => \A i \in DOMAIN broker.positions : output[n].positions[i].position.id = broker.positions[i].id

\* The equity of the account is the whole account at live prices, or is not given; and an account that
\* cannot be read is never healthy (portfolio/route.ts, health/route.ts).
EquityIsWhole ==
    topic = "portfolio" =>
        LET snapshot == output.snapshot
            live == [i \in DOMAIN snapshot.positions |->
                        snapshot.positions[i].position.amount + (CHOOSE n \in snapshot.positions[i].pnl : TRUE)]
        IN  /\ output.portfolio.equity =
                  IF snapshot.ok /\ \A i \in DOMAIN snapshot.positions : snapshot.positions[i].pnl # {}
                  THEN {FoldLeft(IG!Plus, input.cash, live)} ELSE {}
            /\ output.health.status = "healthy" => snapshot.ok /\ input.brokers[2].portfolio # "unreadable"

\* Processes are listed only from a run of pm2 that ended well within its time and its limit, and what
\* pm2 does not list is never shown as running (pm2-runner.ts, map-pm2-processes.ts).
ListedFromACompleteRun ==
    topic = "processes" /\ output.ok =>
        /\ \E end \in DOMAIN input.events :
              /\ input.events[end].type = "close" /\ input.events[end].code = 0
              /\ \A i \in 1 .. end - 1 : input.events[i].type = "data"
              /\ FoldLeft(IG!Plus, 0, [i \in 1 .. end - 1 |-> input.events[i].size]) <= input.limit
        /\ \A name \in DOMAIN output.processes :
              output.processes[name].status = "online" => \E i \in DOMAIN input.entries : input.entries[i] = [name |-> name, status |-> "online"]

\* What the routes show is what the log, the broker and the process manager said of this
\* run: the conjunction of the six above.
ViewsAreTrue ==
    /\ OutcomeIsOwn
    /\ NewestDecisionFirst
    /\ SummaryIsOfThisRun
    /\ PricedAsItself
    /\ EquityIsWhole
    /\ ListedFromACompleteRun
=============================================================================
