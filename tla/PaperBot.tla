------------------------------ MODULE PaperBot ------------------------------
(***************************************************************************)
(* One user's paper account: the server schedule and its advisory lock, the *)
(* VPS workers that poll it, the browser that scans and trades from its own *)
(* copy of the account, and the decision records that wait for the outcome  *)
(* of the trades they opened.  The server tables are shared; a scan reads   *)
(* the trades once and writes its trade, its decision and its records one   *)
(* after the other, each of which may fail.                                 *)
(*                                                                          *)
(* Clocks are abstracted to what the code compares: `due' (next_scan_at has *)
(* passed), `young' (claims less than LOCK_TIMEOUT_MINUTES old) and `recent'*)
(* (trades less than MIN_ADD_INTERVAL_MINUTES old).                         *)
(***************************************************************************)
EXTENDS BotRules, Sequences

CONSTANTS
    Worker, None,
    Price,        \* [symbol -> pounds]: what the market-data provider quotes
    Pnl,          \* the P/L, in pence, at which a trade may be closed
    Signal,       \* the signals a person may accept: records of a symbol and a side
    Deployment,   \* which workers poll, and whether a browser is open
    Evidence,     \* what the strategies may report in each: functions of the symbols
    MaxTrades,                 \* bound: trades ever built,
    MaxTradesIn, MaxFaultsIn   \*   and in each deployment; failed writes, kills, closed tabs

ASSUME PaperBotAssumption ==
    /\ None \notin Worker /\ "browser" \notin Worker
    /\ Deployment \subseteq SUBSET (Worker \union {"browser"})
    /\ MaxTrades \in Nat /\ MaxTradesIn \in [Deployment -> 0..MaxTrades]
    /\ MaxFaultsIn \in [Deployment -> Nat]
    /\ Pnl \subseteq Int

Browser == "browser"
Actor == Worker \union {Browser}
Symbol == DOMAIN Price
Trade == 1..MaxTrades
Scores == [d \in Deployment |->
    {[s \in Symbol |-> Aggregate(reported[s])] : reported \in Evidence[d]}]
Score == {scores[s] : scores \in UNION {Scores[d] : d \in Deployment}, s \in Symbol}

\* A quote is a positive number of pounds, a score a number.
ASSUME QuotesAssumption ==
    /\ \A s \in Symbol : Price[s] \in Nat \ {0}
    /\ \A score \in Score : score.confidence \in Int

VARIABLES
    active,           \* the actors of this deployment
    enabled, due,     \* bot_schedules: enabled; next_scan_at is null or has passed
    lockedBy, young,  \* bot_schedules.locked_by; the workers whose claim is not yet stale
    trades,           \* every trade ever built, in order of its timestamp
    recent,           \* trades built less than half an hour ago
    server,           \* paper_trades: [Trade -> row]
    record,           \* decision_history: what the accepted record of a trade says
    shown, known,     \* the browser's copies of the two
    fallenBack,       \* the browser's two stores that have left Supabase until a reload
    pc, plan,         \* each actor's place and the trade its scan will persist
    past              \* history: what has happened that the account cannot undo

schedule == <<enabled, due, lockedBy, young>>
tables   == <<server, record>>
tab      == <<shown, known, fallenBack>>
book     == <<trades, recent>>
actors   == <<pc, plan>>
vars     == <<active, schedule, tables, tab, book, actors, past>>

Absent == [state |-> "Absent", pnl |-> 0]
Open   == [state |-> "Open", pnl |-> 0]
Nothing == [t \in Trade |-> Absent]
Closed(pnl) == [state |-> "Closed", pnl |-> pnl]
Row == {Absent, Open} \union {Closed(p) : p \in Pnl}
Outcome == {"None", "Pending", "Win", "Loss", "Neutral"}

TypeOK ==
    /\ active \in Deployment
    /\ enabled \in BOOLEAN /\ due \in BOOLEAN
    /\ lockedBy \in Worker \union {None} /\ young \subseteq Worker
    /\ Len(trades) <= MaxTrades /\ recent \subseteq Trade
    /\ server \in [Trade -> Row] /\ record \in [Trade -> Outcome]
    /\ shown \in [Trade -> Row] /\ known \in [Trade -> Outcome]
    /\ fallenBack \subseteq {"trades", "records"}
    /\ pc \in [Actor -> {"idle", "polled", "claimed", "persist", "file",
                         "release", "failed", "reconcile"}]
    /\ plan \in [Actor -> Trade \union {0}]
    /\ past.faults \in Nat
    /\ past.overlapped \in BOOLEAN /\ past.manual \in BOOLEAN
    /\ past.strayed \subseteq Trade

Init ==
    /\ active \in Deployment
    /\ enabled = TRUE /\ due = TRUE /\ lockedBy = None /\ young = {}
    /\ trades = <<>> /\ recent = {}
    /\ server = Nothing /\ record = [t \in Trade |-> "None"]
    /\ shown = server /\ known = record /\ fallenBack = {}
    /\ pc = [a \in Actor |-> "idle"] /\ plan = [a \in Actor |-> 0]
    /\ past = [faults |-> 0, overlapped |-> FALSE, manual |-> FALSE, strayed |-> {}]

-----------------------------------------------------------------------------
\* The trades a scan that loaded v reasons about.
Book(v) == {[symbol |-> trades[t].symbol, side |-> trades[t].side, source |-> trades[t].source,
             quantity |-> trades[t].quantity, price |-> trades[t].price,
             confidence |-> trades[t].confidence, agreement |-> trades[t].agreement,
             state |-> v[t].state, pnl |-> v[t].pnl, id |-> t]
              : t \in {u \in 1..Len(trades) : v[u] # Absent}}

Paced(v) == {s \in Symbol : \A t \in recent : v[t] = Absent \/ trades[t].symbol # s}

Go(a, place) == pc' = [pc EXCEPT ![a] = place]

Forget(a) == plan' = [plan EXCEPT ![a] = 0]

\* A scan that has decided and not yet persisted.
Scanning == {a \in Actor : pc[a] = "persist"}

\* From the claim of the lock to its release.
InScan(w) == pc[w] \in {"claimed", "persist", "file", "release", "failed"}

\* A fault of the outside: a write refused, a process killed, a tab closed.
Fault == /\ past.faults < MaxFaultsIn[active]
         /\ past' = [past EXCEPT !.faults = @ + 1]

\* One row of paper_trades, inserted under the trade's client id and closed by it.
InsertTrade(t) == [server EXCEPT ![t] = Open]
UpdateTrade(t, pnl) == [server EXCEPT ![t] = Closed(pnl)]

\* decision_history: one row per candidate of a scan; here the one that says `Trade Opened'.
InsertRecord(t) == [record EXCEPT ![t] = "Pending"]
UpdateOutcomes(ids, v) ==
    [t \in Trade |-> IF t \in ids /\ record[t] # "None" THEN ClassifyOutcome(v[t].pnl) ELSE record[t]]

-----------------------------------------------------------------------------
(* Time.                                                                   *)

ScheduleComesDue ==
    /\ ~due /\ due' = TRUE
    /\ UNCHANGED <<enabled, lockedBy, young, tables, tab, book, actors, past>>

LockGoesStale(w) ==
    /\ w \in young /\ young' = young \ {w}
    /\ UNCHANGED <<enabled, due, lockedBy, tables, tab, book, actors, past>>

TradeAges(t) ==
    /\ t \in recent /\ \A u \in recent : t <= u
    /\ recent' = recent \ {t}
    /\ UNCHANGED <<schedule, tables, tab, trades, actors, past>>

-----------------------------------------------------------------------------
(* The worker.  pollOnce: fetch the due schedules, process them, reconcile. *)

\* Mutant: a poll that finds nothing due ends there.
FetchDueSchedulesReturns(w) ==
    /\ pc[w] = "idle"
    /\ Go(w, IF enabled /\ due THEN "polled" ELSE "idle")
    /\ UNCHANGED <<schedule, tables, tab, book, plan, past>>

FetchDueSchedules(w) ==
    /\ pc[w] = "idle"
    /\ Go(w, IF enabled /\ due THEN "polled" ELSE "reconcile")
    /\ UNCHANGED <<schedule, tables, tab, book, plan, past>>

\* Mutant: a lock never goes stale.
ClaimScheduleLockForever(w) ==
    /\ pc[w] = "polled"
    /\ IF lockedBy = None
         THEN lockedBy' = w /\ young' = young \union {w} /\ Go(w, "claimed")
         ELSE Go(w, "reconcile") /\ UNCHANGED <<lockedBy, young>>
    /\ UNCHANGED <<enabled, due, tables, tab, book, plan, past>>

\* One conditional UPDATE: unlocked, or locked for too long.
ClaimScheduleLock(w) ==
    /\ pc[w] = "polled"
    /\ IF lockedBy = None \/ lockedBy \notin young
         THEN /\ lockedBy' = w /\ young' = young \union {w}
              /\ Go(w, "claimed")
         ELSE /\ Go(w, "reconcile")                       \* lock_skipped
              /\ UNCHANGED <<lockedBy, young>>
    /\ UNCHANGED <<enabled, due, tables, tab, book, plan, past>>

\* Mutant: the release is not scoped to its own lock.
ReleaseAnyLock(w) ==
    /\ pc[w] \in {"release", "failed"}
    /\ lockedBy' = None /\ due' = (w \notin young)
    /\ Go(w, "reconcile") /\ young' = young \ {w}
    /\ UNCHANGED <<enabled, tables, tab, book, plan, past>>

\* Scoped to locked_by: a worker whose lock was taken over releases nothing.
\* next_scan_at was computed at the claim, so a slow scan may already be due.
ReleaseScheduleLock(w) ==
    /\ pc[w] \in {"release", "failed"}
    /\ IF lockedBy = w
         THEN /\ lockedBy' = None
              /\ \/ due' = FALSE
                 \/ w \notin young /\ due' = TRUE
         ELSE UNCHANGED <<lockedBy, due>>
    /\ Go(w, "reconcile") /\ young' = young \ {w}
    /\ UNCHANGED <<enabled, tables, tab, book, plan, past>>

\* A release that throws is tried once more as an error; thrown again it ends the
\* poll, and the lock is left to go stale.
ReleaseFails(w) ==
    /\ pc[w] \in {"release", "failed"} /\ Fault
    /\ Go(w, IF pc[w] = "release" THEN "failed" ELSE "idle")
    /\ UNCHANGED <<schedule, tables, tab, book, plan>>

\* reconcileOutcomesForUser: both reads, then one UPDATE per outcome found, each by record id.
Reconcile(w) ==
    /\ pc[w] = "reconcile" /\ Go(w, "idle")
    /\ record' = UpdateOutcomes(FindReconcilable(server, record), server)
    /\ UNCHANGED <<schedule, server, tab, book, plan, past>>

ReconcileFails(w) ==
    /\ pc[w] = "reconcile" /\ Go(w, "idle") /\ Fault
    /\ UNCHANGED <<schedule, tables, tab, book, plan>>

\* SIGTERM, SIGINT or a crash, between any two steps; a new process polls from the start.
WorkerDies(w) ==
    /\ pc[w] # "idle" /\ Go(w, "idle") /\ Forget(w) /\ Fault
    /\ UNCHANGED <<schedule, tables, tab, book>>

-----------------------------------------------------------------------------
(* One scan: executeBotScan, in the worker or in the browser.              *)

\* What runBotScan decides depends on the trades read at its start alone, so the read and
\* the decision are one step; the trade is persisted in a later one.  The worker reads the
\* tables, the browser passes the trades it last rendered.
RunScan(a) ==
    LET seen == IF a = Browser THEN shown ELSE server
    IN  /\ pc[a] = "claimed"
        /\ past' = [past EXCEPT !.overlapped = @ \/ Scanning # {} \/ seen # server]
        /\ \E scores \in Scores[active] :
             LET opened == RunBotScan(Book(seen), Paced(seen), scores, Price)
             IN  IF opened = {}
                   THEN Go(a, "file") /\ UNCHANGED <<book, plan>>
                   ELSE /\ Len(trades) < MaxTradesIn[active]
                        /\ \E t \in opened : trades' = Append(trades, t)
                        /\ recent' = recent \union {Len(trades')}
                        /\ plan' = [plan EXCEPT ![a] = Len(trades')]
                        /\ Go(a, "persist")
        /\ UNCHANGED <<schedule, tables, tab>>

\* Mutant: the scan is over once its trade is stored.
PersistTradeOnly(w) ==
    /\ pc[w] = "persist" /\ Go(w, "release") /\ Forget(w)
    /\ server' = InsertTrade(plan[w])
    /\ UNCHANGED <<schedule, record, tab, book, past>>

\* addTradeForUser inserts the row and then its events: refused at the events, the row stays.
PersistTrade(w) ==
    /\ pc[w] = "persist"
    /\ server' = InsertTrade(plan[w])
    /\ \/ Go(w, "file") /\ UNCHANGED <<plan, past>>
       \/ Go(w, "failed") /\ Forget(w) /\ Fault
    /\ UNCHANGED <<schedule, record, tab, book>>

\* Any step of the worker's scan may throw: the schedule is released as an error.
ScanFails(w) ==
    /\ pc[w] \in {"claimed", "persist", "file"}
    /\ Go(w, "failed") /\ Forget(w) /\ Fault
    /\ UNCHANGED <<schedule, tables, tab, book>>

\* persistDecision and persistDecisionRecords: nothing but a log reads the decision back.
PersistDecisionRecords(w) ==
    /\ pc[w] = "file" /\ Go(w, "release")
    /\ record' = IF plan[w] = 0 THEN record ELSE InsertRecord(plan[w])
    /\ plan' = [plan EXCEPT ![w] = 0]
    /\ UNCHANGED <<schedule, server, tab, book, past>>

-----------------------------------------------------------------------------
(* The browser.                                                            *)

\* ClientScheduleStore.save: next_scan_at is a full interval away, or null.
SaveSchedule(on) ==
    /\ enabled' = on /\ due' = ~on
    /\ UNCHANGED <<lockedBy, young, tables, tab, book, actors, past>>

\* useBotScanRunner, at the press of `Run scan now' or at AutomationRunner's tick: one scan
\* at a time in this tab, and no lock is taken.
BrowserStartsScan ==
    /\ pc[Browser] = "idle" /\ Go(Browser, "claimed")
    /\ UNCHANGED <<schedule, tables, tab, book, plan, past>>

\* ResilientPaperTradeStore and ResilientDecisionHistoryStore, each for itself: the
\* first failure of Supabase sends this write and every later one to local storage, even
\* when only the events after the row were refused.  A write without a session is dropped.
Written(store, table, value) ==
    IF store \in fallenBack
      THEN UNCHANGED <<table, fallenBack, past>>
      ELSE \/ table' = value /\ UNCHANGED <<fallenBack, past>>
           \/ /\ Fault /\ table' \in {table, value}
              /\ fallenBack' = fallenBack \union {store}
           \/ Fault /\ UNCHANGED <<table, fallenBack>>

\* addTrade: memory first, then the store, awaited.
BrowserPersistsTrade ==
    /\ pc[Browser] = "persist" /\ Go(Browser, "file")
    /\ shown' = [shown EXCEPT ![plan[Browser]] = Open]
    /\ Written("trades", server, InsertTrade(plan[Browser]))
    /\ UNCHANGED <<schedule, record, known, book, plan>>

BrowserFilesRecords ==
    /\ pc[Browser] = "file" /\ Go(Browser, "idle")
    /\ plan' = [plan EXCEPT ![Browser] = 0]
    /\ IF plan[Browser] = 0
         THEN UNCHANGED <<known, record, fallenBack, past>>
         ELSE /\ known' = [known EXCEPT ![plan[Browser]] = "Pending"]
              /\ Written("records", record, InsertRecord(plan[Browser]))
    /\ UNCHANGED <<schedule, server, shown, book>>

\* A person accepts a signal: no rule of the bot applies to the trade.
OpenFromSignal(s, side) ==
    /\ Len(trades) < MaxTradesIn[active]
    /\ trades' = Append(trades, [symbol |-> s, side |-> side, source |-> "Signal",
                                 quantity |-> SignalQuantity(Price[s]), price |-> Price[s],
                                 confidence |-> 0, agreement |-> "Conflict"])
    /\ recent' = recent \union {Len(trades')}
    /\ shown' = [shown EXCEPT ![Len(trades')] = Open]
    /\ IF "trades" \in fallenBack
         THEN UNCHANGED <<server, fallenBack>> /\ past' = [past EXCEPT !.manual = TRUE]
         ELSE \/ /\ server' = InsertTrade(Len(trades'))
                 /\ past' = [past EXCEPT !.manual = TRUE] /\ UNCHANGED fallenBack
              \/ /\ past.faults < MaxFaultsIn[active]
                 /\ past' = [past EXCEPT !.faults = @ + 1, !.manual = TRUE]
                 /\ \/ /\ server' \in {server, InsertTrade(Len(trades'))}
                       /\ fallenBack' = fallenBack \union {"trades"}
                    \/ UNCHANGED <<server, fallenBack>>
    /\ UNCHANGED <<schedule, record, known, actors>>

\* The exit price decides the P/L; the close that the server does not get is remembered.
\* A row that is not there cannot be updated: that too is a failure of Supabase.
CloseTrade(t, pnl) ==
    /\ shown[t] = Open
    /\ shown' = [shown EXCEPT ![t] = Closed(pnl)]
    /\ IF "trades" \in fallenBack \/ server[t] = Absent
         THEN /\ past' = [past EXCEPT !.strayed = @ \union {t}]
              /\ fallenBack' = fallenBack \union {"trades"} /\ UNCHANGED server
         ELSE \/ /\ server' = UpdateTrade(t, pnl)
                 /\ UNCHANGED <<fallenBack, past>>
              \/ /\ Fault /\ server' = UpdateTrade(t, pnl)
                 /\ fallenBack' = fallenBack \union {"trades"}
              \/ /\ past.faults < MaxFaultsIn[active]
                 /\ past' = [past EXCEPT !.faults = @ + 1, !.strayed = @ \union {t}]
                 /\ fallenBack' \in {fallenBack, fallenBack \union {"trades"}}
                 /\ UNCHANGED server
    /\ UNCHANGED <<schedule, record, known, book, actors>>

\* The effect that runs whenever the shown trades or records change.
BrowserReconciles ==
    LET ids == FindReconcilable(shown, known)
    IN  /\ ids # {}
        /\ known' = ApplyOutcomes(shown, known, ids)
        /\ Written("records", record, UpdateOutcomes(ids, shown))
        /\ UNCHANGED <<schedule, server, shown, book, actors>>

\* A new tab, or a sign-in: both stores are tried on Supabase again and hydrate from it.
HydrateTrades == shown' = server
HydrateRecords == known' = record
Reload ==
    /\ HydrateTrades /\ HydrateRecords /\ fallenBack' = {}
    /\ Go(Browser, "idle") /\ Forget(Browser)
    /\ \/ pc[Browser] = "idle" /\ UNCHANGED past
       \/ pc[Browser] # "idle" /\ Fault
    /\ UNCHANGED <<schedule, tables, book>>

-----------------------------------------------------------------------------
Poll(w) ==
    /\ w \in active /\ UNCHANGED active
    /\ \/ FetchDueSchedules(w) \/ ClaimScheduleLock(w) \/ RunScan(w)
       \/ PersistTrade(w) \/ PersistDecisionRecords(w)
       \/ ReleaseScheduleLock(w) \/ Reconcile(w)

WorkerTrouble(w) == ScanFails(w) \/ ReleaseFails(w) \/ ReconcileFails(w) \/ WorkerDies(w)

Time ==
    \/ ScheduleComesDue
    \/ \E w \in Worker : LockGoesStale(w)
    \/ \E t \in Trade : TradeAges(t)

Tab ==
    /\ Browser \in active
    /\ \/ BrowserStartsScan \/ RunScan(Browser)
       \/ BrowserPersistsTrade \/ BrowserFilesRecords \/ BrowserReconciles \/ Reload
       \/ \E on \in BOOLEAN : SaveSchedule(on)
       \/ \E signal \in Signal : OpenFromSignal(signal.symbol, signal.side)
       \/ \E t \in Trade, pnl \in Pnl : CloseTrade(t, pnl)

Next ==
    \/ \E w \in Worker : Poll(w)
    \/ UNCHANGED active /\ (Time \/ Tab \/ \E w \in active \ {Browser} : WorkerTrouble(w))

\* A worker polls for as long as it lives, and clocks advance.
Fairness ==
    /\ \A w \in Worker : WF_vars(Poll(w)) /\ WF_vars(UNCHANGED active /\ LockGoesStale(w))
Spec == Init /\ [][Next]_vars /\ Fairness

-----------------------------------------------------------------------------
(* Properties.                                                             *)

\* Of all the scans of one account, at most one holds a claim less than five minutes old,
\* whatever has outlasted its claim, died or failed to release
\* (claimScheduleLock, releaseScheduleLock).
OneYoungScan == \A v, w \in young : InScan(v) /\ InScan(w) => v = w

\* As long as no scan decided on trades another was about to change, and no trade was
\* taken by hand, the rows of the server keep every limit of the Position Manager and of
\* the portfolio rules: of the book, of each sector, of each direction and of each
\* instrument, which is never held on both sides nor added to without a stronger score.
\* The cash floor is kept too, unless a trade lost more than was paid for it: a short may
\* (runBotScan).
WithinLimits ==
    past.overlapped \/ past.manual \/
    LET rows == Book(server)
        open == OpenIn(rows)
    IN  /\ Cardinality(open) <= MAX_OPEN_TRADES
        /\ TotalNotional(open) <= MAX_CAPITAL_DEPLOYED
        /\ \A side \in Side : Cardinality(OfSide(open, side)) <= MAX_SAME_DIRECTION_TRADES
        /\ \A t \in open :
              /\ TotalNotional(OfSymbol(open, t.symbol)) <= MAX_POSITION_VALUE_GBP
              /\ Cardinality(OfSector(open, Sector[t.symbol])) <= MAX_SECTOR_OPEN_TRADES
              /\ TotalNotional(OfSector(open, Sector[t.symbol])) <= MAX_SECTOR_EXPOSURE
        /\ \A t, u \in open : t.symbol = u.symbol =>
              /\ t.side = u.side
              /\ t.id < u.id => t.confidence + MIN_CONFIDENCE_IMPROVEMENT <= u.confidence
        /\ (\A t \in rows : t.pnl >= -100 * Notional(t)) =>
              AvailableCash(rows) >= 100 * MIN_CASH_REMAINING_GBP

\* A classified decision tells the truth about the account: its trade is closed, and with
\* that result, unless the close never reached the server (computeOutcomeUpdate).
ClassifiedMeansClosed ==
    \A t \in Trade : record[t] \in {"Win", "Loss", "Neutral"} /\ t \notin past.strayed =>
        server[t].state = "Closed" /\ record[t] = ClassifyOutcome(server[t].pnl)

\* Without a fault, every trade a finished scan opened has the record that explains it
\* (executeBotScan: trade, decision, records).
OpenedTradeIsExplained ==
    \A t \in Trade :
        /\ past.faults = 0 /\ server[t] # Absent /\ trades[t].source = "Bot"
        /\ \A a \in Actor : plan[a] # t
        => record[t] # "None"

\* Where a worker polls, an enabled schedule that is due is claimed, even when a worker died
\* holding its lock.
DueScheduleIsClaimed ==
    (enabled /\ due /\ active # {Browser})
        ~> (~enabled \/ ~due \/ \E w \in Worker : pc[w] = "claimed")

\* Decisions whose trades are closed on the server.
Unclassified == {t \in Trade : record[t] = "Pending" /\ server[t].state = "Closed"}

\* Where a worker polls, every decision whose trade is closed on the server is eventually
\* classified, and all of them at once, whether or not any schedule is due or enabled
\* (reconcileAllUsers runs in every poll).
ClosedIsClassified ==
    (Unclassified # {} /\ active # {Browser}) ~> (Unclassified = {})

\* The decision records tell what happened to the trades: ClassifiedMeansClosed and
\* OpenedTradeIsExplained.
RecordsTellTheTruth == ClassifiedMeansClosed /\ OpenedTradeIsExplained

\* Neither a schedule nor an outcome waits for ever: DueScheduleIsClaimed and
\* ClosedIsClassified.
WorkGetsDone == DueScheduleIsClaimed /\ ClosedIsClassified
=============================================================================
