--------------------------- MODULE PaperBotProofs ---------------------------
(***************************************************************************)
(* What holds of an account for any number of workers, trades and faults.   *)
(* Its lease does what it is for: whatever outlasts its claim, dies or fails *)
(* to release, one scan at most holds a claim that is not yet stale.  Its    *)
(* tables keep their types and its decision records tell the truth about    *)
(* its trades: both follow from one inductive invariant, Account, which ties *)
(* the plan of every scan, the rows of the server and the browser's copies   *)
(* together.  And the trades of an undisturbed account keep every limit of   *)
(* the portfolio: on top of Account that takes the trade a scan is about to  *)
(* persist (Fitting), and the notional of a book as a sum in any order.      *)
(***************************************************************************)
EXTENDS PaperBot, SequenceTheorems, FiniteSetTheorems, NaturalsInduction, TLAPS

\* A scan with a young claim is the one the row names.  This is stronger than what it
\* proves: a claim looks at the row, and must find every young scan there.
ClaimIsNamed ==
    /\ young \subseteq Worker
    /\ DOMAIN pc = Actor
    /\ \A w \in young : InScan(w) => lockedBy = w

\* A step that neither claims nor releases: it writes nothing to the row, no worker
\* enters a scan, and claims only get older.
Unclaiming ==
    /\ lockedBy' = lockedBy /\ young' \subseteq young
    /\ DOMAIN pc' = DOMAIN pc
    /\ \A w \in Worker : InScan(w)' => InScan(w)

\* A step that neither claims nor releases leaves the young scan named.
LEMMA UnclaimingKeeps == ClaimIsNamed /\ Unclaiming => ClaimIsNamed'
BY DEF ClaimIsNamed, Unclaiming

\* A claim is given only while no other scan is young, and names its worker.
LEMMA ClaimKeeps ==
    ASSUME ClaimIsNamed, NEW w \in active, w \in Worker, ClaimScheduleLock(w)
    PROVE  ClaimIsNamed'
<1>1. CASE lockedBy = None \/ lockedBy \notin young
    <2>1. \A v \in young : v # w => ~InScan(v)
        BY <1>1, PaperBotAssumption DEF ClaimIsNamed
    <2>2. lockedBy' = w /\ young' = young \union {w} /\ pc' = [pc EXCEPT ![w] = "claimed"]
        BY <1>1 DEF ClaimScheduleLock, Go
    <2>3. \A v \in young' : v # w => ~InScan(v)'
        BY <2>1, <2>2 DEF InScan
    <2> QED  BY <2>2, <2>3 DEF ClaimIsNamed
<1>2. CASE ~(lockedBy = None \/ lockedBy \notin young)
    <2>1. Unclaiming
        BY <1>2 DEF ClaimScheduleLock, Go, Unclaiming, InScan, ClaimIsNamed, Actor
    <2> QED  BY <2>1, UnclaimingKeeps
<1> QED  BY <1>1, <1>2

\* A release clears the name of none but its own scan.
LEMMA ReleaseKeeps ==
    ASSUME ClaimIsNamed, NEW w \in Worker, ReleaseScheduleLock(w)
    PROVE  ClaimIsNamed'
<1>1. young' = young \ {w} /\ pc' = [pc EXCEPT ![w] = "reconcile"]
    BY DEF ReleaseScheduleLock, Go
<1>2. \A v \in young' : InScan(v)' => InScan(v) /\ lockedBy = v /\ v # w
    BY <1>1 DEF ClaimIsNamed, InScan
<1>3. lockedBy # w => lockedBy' = lockedBy
    BY DEF ReleaseScheduleLock
<1> QED  BY <1>1, <1>2, <1>3 DEF ClaimIsNamed

\* Of a poll, the claim and the release alone write the lock.
LEMMA PollKeeps ==
    ASSUME ClaimIsNamed, NEW w \in Worker, Poll(w)
    PROVE  ClaimIsNamed'
<1> USE DEF Go, Unclaiming, InScan, ClaimIsNamed, Actor, schedule, actors, book
<1>1. CASE FetchDueSchedules(w)
    <2>1. Unclaiming  BY <1>1 DEF FetchDueSchedules
    <2> QED  BY <2>1, UnclaimingKeeps
<1>2. CASE ClaimScheduleLock(w)
    BY <1>2, ClaimKeeps DEF Poll
<1>3. CASE RunScan(w)
    <2>1. /\ pc[w] = "claimed" /\ UNCHANGED schedule
          /\ pc' = [pc EXCEPT ![w] = "file"] \/ pc' = [pc EXCEPT ![w] = "persist"]
        BY <1>3, Zenon DEF RunScan
    <2>2. Unclaiming  BY <2>1
    <2> QED  BY <2>2, UnclaimingKeeps
<1>4. CASE PersistTrade(w)
    <2>1. Unclaiming  BY <1>4 DEF PersistTrade
    <2> QED  BY <2>1, UnclaimingKeeps
<1>5. CASE PersistDecisionRecords(w)
    <2>1. Unclaiming  BY <1>5 DEF PersistDecisionRecords
    <2> QED  BY <2>1, UnclaimingKeeps
<1>6. CASE ReleaseScheduleLock(w)
    BY <1>6, ReleaseKeeps
<1>7. CASE Reconcile(w)
    <2>1. Unclaiming  BY <1>7 DEF Reconcile
    <2> QED  BY <2>1, UnclaimingKeeps
<1> QED  BY <1>1, <1>2, <1>3, <1>4, <1>5, <1>6, <1>7 DEF Poll

\* What goes wrong in a worker leaves its lock as it is.
LEMMA TroubleKeeps ==
    ASSUME ClaimIsNamed, NEW w, WorkerTrouble(w)
    PROVE  ClaimIsNamed'
<1> USE DEF Go, Unclaiming, InScan, ClaimIsNamed, schedule, actors, book
<1>1. CASE ScanFails(w)
    <2>1. Unclaiming  BY <1>1 DEF ScanFails
    <2> QED  BY <2>1, UnclaimingKeeps
<1>2. CASE ReleaseFails(w)
    <2>1. Unclaiming  BY <1>2 DEF ReleaseFails
    <2> QED  BY <2>1, UnclaimingKeeps
<1>3. CASE ReconcileFails(w)
    <2>1. Unclaiming  BY <1>3 DEF ReconcileFails
    <2> QED  BY <2>1, UnclaimingKeeps
<1>4. CASE WorkerDies(w)
    <2>1. Unclaiming  BY <1>4 DEF WorkerDies
    <2> QED  BY <2>1, UnclaimingKeeps
<1> QED  BY <1>1, <1>2, <1>3, <1>4 DEF WorkerTrouble

\* The browser takes no lock, and its own place is none of a worker's.
LEMMA TabKeeps == ASSUME ClaimIsNamed, Tab PROVE ClaimIsNamed'
<1> USE DEF Go, schedule, actors, book
<1>1. /\ UNCHANGED <<lockedBy, young>>
      /\ UNCHANGED pc \/ \E place : pc' = [pc EXCEPT ![Browser] = place]
    <2>1. CASE BrowserStartsScan  BY <2>1 DEF BrowserStartsScan
    <2>2. CASE RunScan(Browser)  BY <2>2, Zenon DEF RunScan
    <2>3. CASE BrowserPersistsTrade  BY <2>3 DEF BrowserPersistsTrade
    <2>4. CASE BrowserFilesRecords  BY <2>4 DEF BrowserFilesRecords
    <2>5. CASE BrowserReconciles  BY <2>5, Zenon DEF BrowserReconciles
    <2>6. CASE Reload  BY <2>6 DEF Reload
    <2>7. CASE \E on \in BOOLEAN : SaveSchedule(on)  BY <2>7 DEF SaveSchedule
    <2>8. CASE \E signal \in Signal : OpenFromSignal(signal.symbol, signal.side)
        BY <2>8, Zenon DEF OpenFromSignal
    <2>9. CASE \E t \in Trade, pnl \in Pnl : CloseTrade(t, pnl)
        BY <2>9, Zenon DEF CloseTrade
    <2> QED  BY <2>1, <2>2, <2>3, <2>4, <2>5, <2>6, <2>7, <2>8, <2>9 DEF Tab
<1>2. /\ DOMAIN pc' = DOMAIN pc
      /\ \A w \in Worker : pc'[w] = pc[w]
    <2>1. CASE UNCHANGED pc  BY <2>1
    <2>2. CASE \E place : pc' = [pc EXCEPT ![Browser] = place]
        <3>1. PICK place : pc' = [pc EXCEPT ![Browser] = place]
            BY <2>2
        <3>2. DOMAIN pc' = DOMAIN pc
            BY <3>1
        <3>3. ASSUME NEW w \in Worker PROVE pc'[w] = pc[w]
            <4>1. w # Browser
                BY PaperBotAssumption DEF Browser
            <4>2. w \in DOMAIN pc
                BY DEF ClaimIsNamed, Actor
            <4> QED  BY <3>1, <4>1, <4>2
        <3> QED  BY <3>2, <3>3
    <2> QED  BY <1>1, <2>1, <2>2
<1>3. Unclaiming
    BY <1>1, <1>2 DEF Unclaiming, InScan
<1> QED  BY <1>3, UnclaimingKeeps

\* Time only takes claims out of their youth.
LEMMA TimeKeeps == ASSUME ClaimIsNamed, Time PROVE ClaimIsNamed'
<1>1. Unclaiming
    BY DEF Time, ScheduleComesDue, LockGoesStale, TradeAges, Unclaiming, schedule, actors, InScan
<1> QED  BY <1>1, UnclaimingKeeps

\* At most one scan of an account holds a claim less than five minutes old, for any number
\* of workers, whatever has outlasted its claim, died or failed to release
\* (claimScheduleLock's condition, releaseScheduleLock's scope).
THEOREM Leased == Spec => []OneYoungScan
<1>1. Init => ClaimIsNamed
    BY DEF Init, ClaimIsNamed
<1>2. ClaimIsNamed /\ [Next]_vars => ClaimIsNamed'
    <2> SUFFICES ASSUME ClaimIsNamed, [Next]_vars PROVE ClaimIsNamed'
        OBVIOUS
    <2>1. ASSUME NEW w \in Worker, Poll(w) PROVE ClaimIsNamed'
        BY <2>1, PollKeeps
    <2>2. ASSUME NEW w \in active, WorkerTrouble(w) PROVE ClaimIsNamed'
        BY <2>2, TroubleKeeps
    <2>3. CASE UNCHANGED vars
        BY <2>3 DEF vars, schedule, actors, ClaimIsNamed, InScan
    <2> QED  BY <2>1, <2>2, <2>3, TimeKeeps, TabKeeps DEF Next
<1>3. ClaimIsNamed => OneYoungScan
    BY DEF ClaimIsNamed, OneYoungScan
<1> QED  BY <1>1, <1>2, <1>3, PTL DEF Spec

-----------------------------------------------------------------------------
(* The inductive invariant of the account                                 *)

History == [faults : Nat, overlapped : BOOLEAN, manual : BOOLEAN, strayed : SUBSET Trade]

\* What TypeOK leaves out because TLC need not be told: the trades are a sequence and
\* the history has four fields.
Typed ==
    /\ TypeOK
    /\ trades \in Seq({trades[i] : i \in DOMAIN trades})
    /\ past \in History

\* A trade that was never built is in no store.
Fresh == \A t \in Trade : t > Len(trades) => server[t] = Absent /\ shown[t] = Absent

\* A plan is a trade its scan has built and still has to persist or to file; no two
\* scans plan the same, and until it is persisted no store has it.
Planned ==
    /\ \A a \in Actor :
         /\ plan[a] <= Len(trades)
         /\ plan[a] # 0 => pc[a] \in {"persist", "file"}
         /\ pc[a] = "persist" =>
              plan[a] # 0 /\ server[plan[a]] = Absent /\ shown[plan[a]] = Absent
    /\ \A a, b \in Actor : plan[a] # 0 /\ plan[a] = plan[b] => a = b

\* Server and browser agree on every trade that is closed, unless its close never
\* reached the server.
Copied ==
    \A t \in Trade \ past.strayed :
        server[t].state = "Closed" \/ shown[t].state = "Closed" => shown[t] = server[t]

\* A store is left only after a fault.
FellBack == fallenBack # {} => past.faults > 0

\* Until then the server has every trade the browser shows.
Shown == past.faults = 0 => \A t \in Trade : shown[t] # Absent => server[t] # Absent

Account == Typed /\ Fresh /\ Planned /\ Copied /\ FellBack /\ Shown /\ RecordsTellTheTruth

\* Trades are only ever added: those built before stay what they are.
Keeps(t) ==
    /\ Len(trades) \in Nat /\ Len(t) = Len(trades) + 1
    /\ \A i \in 1..Len(trades) : t[i] = trades[i]
    /\ t \in Seq({t[i] : i \in DOMAIN t})

\* One more trade at the end leaves the earlier ones in place.
LEMMA AppendKeeps ==
    ASSUME Typed, NEW e
    PROVE  Keeps(Append(trades, e))
<1> DEFINE S == {trades[i] : i \in DOMAIN trades} \union {e}
           t == Append(trades, e)
<1>1. trades \in Seq(S)
    BY SeqMonotonic DEF Typed
<1>2. Len(trades) \in Nat
    BY <1>1, LenProperties
<1> HIDE DEF S
<1>3. e \in S
    BY DEF S
<1>4. /\ t \in Seq(S) /\ Len(t) = Len(trades) + 1
      /\ \A i \in 1..Len(trades) : t[i] = trades[i]
    BY <1>1, <1>2, <1>3
<1>5. t \in [1..Len(t) -> {t[i] : i \in DOMAIN t}]
    <2>1. t \in [1..Len(t) -> S]
        BY <1>4, LenProperties
    <2> QED  BY <2>1
<1>6. t \in Seq({t[i] : i \in DOMAIN t})
    <2> HIDE DEF t
    <2> DEFINE T == {t[i] : i \in DOMAIN t}
    <2>1. t \in [1..Len(t) -> T] /\ Len(t) \in Nat
        BY <1>2, <1>4, <1>5
    <2> HIDE DEF T
    <2>2. t \in Seq(T)
        BY <2>1, SeqDef
    <2> QED  BY <2>2 DEF T
<1> QED  BY <1>2, <1>4, <1>6 DEF Keeps

\* The history after a fault.
LEMMA FaultTyped ==
    ASSUME Typed, Fault
    PROVE  past' \in History /\ past'.faults > 0 /\ past'.strayed = past.strayed
<1>1. past \in History
    BY DEF Typed, History
<1>2. past.faults + 1 \in Nat /\ past.faults + 1 > 0
    BY <1>1, PaperBotAssumption DEF Fault, History
<1>3. past' = [past EXCEPT !.faults = past.faults + 1]
    BY DEF Fault
<1> QED  BY <1>1, <1>2, <1>3 DEF History

-----------------------------------------------------------------------------
(* Steps that write no trade                                               *)

\* A record says the truth about trade t when it says that t won, lost or neither.
Truthful(t) == server[t].state = "Closed" /\ record'[t] = ClassifyOutcome(server[t].pnl)

\* A step that writes neither trades nor their rows nor the browser's copies of them.  It
\* may move actors, but into no scan that persists, each plan is kept, forgotten after a
\* fault, or filed, and what a record says anew is true.
Noting ==
    /\ UNCHANGED <<trades, server, shown, active>>
    /\ past'.strayed = past.strayed /\ past'.faults >= past.faults
    /\ fallenBack' # {} => past'.faults > 0
    /\ \A t \in Trade :
         /\ record'[t] \in {record[t], "Pending"} \/ t \in past.strayed \/ Truthful(t)
         /\ record[t] # "None" => record'[t] # "None"
    /\ \A a \in Actor :
         /\ plan'[a] \in {0, plan[a]}
         /\ plan'[a] # plan[a] => past'.faults > 0 \/ record'[plan[a]] # "None"
         /\ plan'[a] # 0 => pc'[a] = pc[a]
         /\ pc'[a] = "persist" => pc[a] = "persist" /\ plan'[a] = plan[a]

\* Such a step keeps the account sound.
LEMMA NotingKeeps == ASSUME Account, Typed', Noting PROVE Account'
<1> USE DEF Account, Noting
<1>1. Fresh'
    BY DEF Fresh
<1>2. Planned'
    BY DEF Planned
<1>3. Copied' /\ FellBack' /\ Shown'
    BY DEF Copied, FellBack, Shown, Typed, History
<1>4. ClassifiedMeansClosed'
    BY DEF RecordsTellTheTruth, ClassifiedMeansClosed, Truthful
<1>5. OpenedTradeIsExplained'
    BY DEF RecordsTellTheTruth, OpenedTradeIsExplained, Typed, TypeOK, History
<1> QED  BY <1>1, <1>2, <1>3, <1>4, <1>5 DEF RecordsTellTheTruth

\* What keeps Typed while the trades stay as they are.
LEMMA StillTyped ==
    ASSUME Typed, UNCHANGED <<trades, active>>, server' \in [Trade -> Row], shown' \in [Trade -> Row],
           record' \in [Trade -> Outcome], known' \in [Trade -> Outcome],
           fallenBack' \subseteq {"trades", "records"},
           past' \in History,
           enabled' \in BOOLEAN, due' \in BOOLEAN,
           lockedBy' \in Worker \union {None}, young' \subseteq Worker, recent' \subseteq Trade,
           pc' \in [Actor -> {"idle", "polled", "claimed", "persist", "file",
                              "release", "failed", "reconcile"}],
           plan' \in [Actor -> Trade \union {0}]
    PROVE  Typed'
BY DEF Typed, TypeOK, History

\* Time writes no trade.
LEMMA TimeNotes == ASSUME Account, UNCHANGED active, Time PROVE Typed' /\ Noting
<1> USE DEF schedule, book, actors, tables, tab
<1>1. Typed'
    BY StillTyped DEF Account, Typed, TypeOK, Time, ScheduleComesDue, LockGoesStale, TradeAges
<1>2. Noting
    BY DEF Account, Typed, History, TypeOK, Noting, FellBack, Time, ScheduleComesDue, LockGoesStale, TradeAges
<1> QED  BY <1>1, <1>2

\* The steps of a poll before, between and after the scan.
LEMMA PollNotes ==
    ASSUME Account, NEW w \in Worker, UNCHANGED active,
           FetchDueSchedules(w) \/ ClaimScheduleLock(w) \/ ReleaseScheduleLock(w)
    PROVE  Typed' /\ Noting
<1> USE DEF schedule, book, tables, tab, Go, Actor
<1>1. /\ UNCHANGED <<trades, tables, tab, plan, past, enabled, recent>>
      /\ \E place \in {"idle", "polled", "claimed", "reconcile"} : pc' = [pc EXCEPT ![w] = place]
      /\ pc[w] \notin {"persist", "file"}
    BY DEF FetchDueSchedules, ClaimScheduleLock, ReleaseScheduleLock
<1>2. /\ due' \in BOOLEAN /\ lockedBy' \in Worker \union {None} /\ young' \subseteq Worker
    BY DEF Account, Typed, TypeOK, FetchDueSchedules, ClaimScheduleLock, ReleaseScheduleLock
<1>3. Typed'
    BY <1>1, <1>2, StillTyped DEF Account, Typed, TypeOK
<1>4. Noting
    BY <1>1 DEF Account, Typed, History, TypeOK, Noting, Planned, FellBack
<1> QED  BY <1>3, <1>4

\* What fails in a worker, it forgets its plan.
LEMMA TroubleNotes ==
    ASSUME Account, NEW w \in Worker, UNCHANGED active, WorkerTrouble(w)
    PROVE  Typed' /\ Noting
<1> USE DEF schedule, book, tables, tab, Go, Forget, Actor
<1>1. /\ UNCHANGED <<trades, tables, tab, enabled, due, lockedBy, young, recent>> /\ Fault
      /\ \E place \in {"idle", "failed"} : pc' = [pc EXCEPT ![w] = place]
      /\ \/ plan' = [plan EXCEPT ![w] = 0]
         \/ plan' = plan /\ pc[w] \notin {"persist", "file"}
    BY DEF WorkerTrouble, ScanFails, ReleaseFails, ReconcileFails, WorkerDies
<1>2. past' \in History /\ past'.faults > 0 /\ past'.strayed = past.strayed /\ past'.faults >= past.faults
    <2>1. past'.faults = past.faults + 1 /\ past.faults \in Int
        BY <1>1 DEF Account, Typed, History, Fault
    <2> QED  BY <1>1, <2>1, FaultTyped DEF Account
<1>3. Typed'
    BY <1>1, <1>2, StillTyped DEF Account, Typed, TypeOK
<1>4. Noting
    BY <1>1, <1>2 DEF Account, Typed, TypeOK, Noting, Planned, FellBack
<1> QED  BY <1>3, <1>4

\* Every poll ends by classifying what it finds closed.
LEMMA ReconcileNotes ==
    ASSUME Account, NEW w \in Worker, UNCHANGED active, Reconcile(w)
    PROVE  Typed' /\ Noting
<1> USE DEF schedule, book, tab, Go, Actor
<1>1. \A t \in Trade : \/ record'[t] = record[t]
                       \/ record[t] # "None" /\ record'[t] \in {"Win", "Loss", "Neutral"} /\ Truthful(t)
    BY DEF Reconcile, UpdateOutcomes, FindReconcilable, ClassifyOutcome, Truthful, Account, Typed, TypeOK
<1>2. record' \in [Trade -> Outcome]
    BY DEF Reconcile, UpdateOutcomes, ClassifyOutcome, Account, Typed, TypeOK, Outcome
<1>3. Typed'
    BY <1>2, StillTyped DEF Reconcile, Account, Typed, TypeOK
<1>4. Noting
    BY <1>1 DEF Reconcile, Account, Typed, TypeOK, History, Noting, Planned, FellBack
<1> QED  BY <1>3, <1>4

\* The records of a scan: the plan is filed.
LEMMA FilingNotes ==
    ASSUME Account, NEW w \in Worker, UNCHANGED active, PersistDecisionRecords(w)
    PROVE  Typed' /\ Noting
<1> USE DEF schedule, book, tab, Go, Actor
<1>1. /\ UNCHANGED <<trades, server, shown, known, fallenBack, past>>
      /\ plan' = [plan EXCEPT ![w] = 0] /\ pc' = [pc EXCEPT ![w] = "release"]
    BY DEF PersistDecisionRecords
<1>2. record' \in [Trade -> Outcome] /\ plan[w] \in Trade \union {0}
    BY DEF PersistDecisionRecords, InsertRecord, Account, Typed, TypeOK, Outcome
<1>3. /\ \A t \in Trade : record'[t] \in {record[t], "Pending"}
      /\ plan[w] # 0 => record'[plan[w]] = "Pending"
    BY <1>2 DEF PersistDecisionRecords, InsertRecord, Account, Typed, TypeOK
<1>4. Typed'
    BY <1>1, <1>2, StillTyped DEF PersistDecisionRecords, Account, Typed, TypeOK
<1>5. Noting
    BY <1>1, <1>2, <1>3 DEF Account, Typed, TypeOK, History, Noting, Planned, FellBack
<1> QED  BY <1>4, <1>5

\* What is written to Supabase or kept by the browser.
LEMMA WrittenNotes ==
    ASSUME Account, NEW store \in {"trades", "records"},
           \/ fallenBack' = fallenBack /\ past' = past
           \/ fallenBack' \in {fallenBack, fallenBack \union {store}} /\ Fault
    PROVE  /\ fallenBack' \subseteq {"trades", "records"} /\ past' \in History
           /\ past'.strayed = past.strayed /\ past'.faults >= past.faults
           /\ fallenBack' # {} => past'.faults > 0
<1>1. CASE fallenBack' = fallenBack /\ past' = past
    BY <1>1 DEF Account, Typed, TypeOK, FellBack, History
<1>2. CASE fallenBack' \in {fallenBack, fallenBack \union {store}} /\ Fault
    <2>1. past' \in History /\ past'.faults > 0 /\ past'.strayed = past.strayed
        BY <1>2, FaultTyped DEF Account
    <2>2. past'.faults = past.faults + 1 /\ past.faults \in Int
        BY <1>2 DEF Fault, Account, Typed, History
    <2> QED  BY <1>2, <2>1, <2>2 DEF Account, Typed, TypeOK
<1> QED  BY <1>1, <1>2

\* The browser's steps that write no trade: schedule, start, records, reconciliation.
LEMMA TabNotes ==
    ASSUME Account, UNCHANGED active,
           \/ BrowserStartsScan \/ BrowserFilesRecords \/ BrowserReconciles
           \/ \E on \in BOOLEAN : SaveSchedule(on)
    PROVE  Typed' /\ Noting
<1> USE DEF schedule, book, tables, tab, actors, Go, Actor, Browser
<1>1. CASE BrowserStartsScan
    <2>1. Typed'
        BY <1>1, StillTyped DEF BrowserStartsScan, Account, Typed, TypeOK
    <2>2. Noting
        BY <1>1 DEF BrowserStartsScan, Account, Typed, TypeOK, History, Noting, Planned, FellBack
    <2> QED  BY <2>1, <2>2
<1>2. CASE \E on \in BOOLEAN : SaveSchedule(on)
    <2>1. Typed'
        BY <1>2, StillTyped DEF SaveSchedule, Account, Typed, TypeOK
    <2>2. Noting
        BY <1>2 DEF SaveSchedule, Account, Typed, TypeOK, History, Noting, FellBack
    <2> QED  BY <2>1, <2>2
<1>3. CASE BrowserReconciles
    <2> DEFINE ids == FindReconcilable(shown, known)
               value == UpdateOutcomes(ids, shown)
    <2>1. /\ UNCHANGED <<trades, recent, enabled, due, lockedBy, young, server, shown, pc, plan>>
          /\ known' = ApplyOutcomes(shown, known, ids)
          /\ Written("records", record, value)
        BY <1>3 DEF BrowserReconciles
    <2>2. ids = {t \in Trade : known[t] = "Pending" /\ shown[t].state = "Closed"}
        BY DEF FindReconcilable, Account, Typed, TypeOK
    <2>3. /\ known' \in [Trade -> Outcome] /\ value \in [Trade -> Outcome]
        BY <2>1 DEF ApplyOutcomes, UpdateOutcomes, ClassifyOutcome, Account, Typed, TypeOK, Outcome
    <2>4. /\ record' \in {record, value}
          /\ \/ fallenBack' = fallenBack /\ past' = past
             \/ fallenBack' \in {fallenBack, fallenBack \union {"records"}} /\ Fault
        <3> HIDE DEF value, ids
        <3> QED  BY <2>1 DEF Written
    <2>5. \A t \in Trade \ past.strayed :
             \/ value[t] = record[t]
             \/ value[t] = ClassifyOutcome(server[t].pnl) /\ server[t].state = "Closed"
        <3> TAKE t \in Trade \ past.strayed
        <3>1. t \in ids => shown[t] = server[t] /\ server[t].state = "Closed"
            BY <2>2 DEF Account, Copied
        <3>2. value[t] = IF t \in ids /\ record[t] # "None" THEN ClassifyOutcome(shown[t].pnl) ELSE record[t]
            BY DEF UpdateOutcomes
        <3> HIDE DEF value, ids
        <3> QED  BY <3>1, <3>2
    <2>6. \A t \in Trade : record[t] # "None" => value[t] # "None"
        BY DEF UpdateOutcomes, ClassifyOutcome
    <2> HIDE DEF value, ids
    <2>7. Typed'
        BY <2>1, <2>3, <2>4, StillTyped, WrittenNotes DEF Account, Typed, TypeOK
    <2>8. /\ past'.strayed = past.strayed /\ past'.faults >= past.faults
          /\ fallenBack' # {} => past'.faults > 0
        BY <2>4, WrittenNotes
    <2>9. \A t \in Trade :
         /\ record'[t] \in {record[t], "Pending"} \/ t \in past.strayed \/ Truthful(t)
         /\ record[t] # "None" => record'[t] # "None"
        BY <2>4, <2>5, <2>6 DEF Truthful
    <2>10. Noting
        BY <1>3, <2>1, <2>8, <2>9 DEF Noting
    <2> QED  BY <2>7, <2>10
<1>4. CASE BrowserFilesRecords
    <2>1. /\ UNCHANGED <<trades, recent, enabled, due, lockedBy, young, server, shown>>
          /\ pc[Browser] = "file" /\ pc' = [pc EXCEPT ![Browser] = "idle"]
          /\ plan' = [plan EXCEPT ![Browser] = 0]
          /\ \/ plan[Browser] = 0 /\ UNCHANGED <<known, record, fallenBack, past>>
             \/ /\ plan[Browser] # 0
                /\ known' = [known EXCEPT ![plan[Browser]] = "Pending"]
                /\ Written("records", record, InsertRecord(plan[Browser]))
        BY <1>4 DEF BrowserFilesRecords
    <2>2. /\ \/ record' = record
             \/ plan[Browser] # 0 /\ record' = InsertRecord(plan[Browser])
          /\ \/ plan[Browser] = 0 \/ record' = InsertRecord(plan[Browser])
             \/ fallenBack # {} \/ Fault
        BY <2>1 DEF Written
    <2>3. plan[Browser] \in Trade \union {0}
        BY DEF Account, Typed, TypeOK
    <2>4. /\ record' \in [Trade -> Outcome] /\ known' \in [Trade -> Outcome]
          /\ \A t \in Trade : record'[t] \in {record[t], "Pending"}
          /\ plan[Browser] # 0 /\ record' = InsertRecord(plan[Browser]) => record'[plan[Browser]] = "Pending"
        BY <2>1, <2>2, <2>3 DEF InsertRecord, Account, Typed, TypeOK, Outcome
    <2>5. /\ past'.strayed = past.strayed /\ past'.faults >= past.faults
          /\ fallenBack' # {} => past'.faults > 0
          /\ past' \in History /\ fallenBack' \subseteq {"trades", "records"}
        <3>1. \/ fallenBack' = fallenBack /\ past' = past
              \/ fallenBack' \in {fallenBack, fallenBack \union {"records"}} /\ Fault
            BY <2>1 DEF Written
        <3> QED  BY <3>1, WrittenNotes
    <2>6. fallenBack # {} \/ Fault => past'.faults > 0
        BY <2>5, FaultTyped DEF Account, FellBack, Typed, History
    <2>7. Typed'
        BY <2>1, <2>4, <2>5, StillTyped DEF Account, Typed, TypeOK
    <2>8. plan[Browser] # 0 => past'.faults > 0 \/ record'[plan[Browser]] # "None"
        BY <2>2, <2>4, <2>6
    <2>9. Noting
        BY <1>4, <2>1, <2>4, <2>5, <2>8 DEF Noting, Account, Typed, TypeOK
    <2> QED  BY <2>7, <2>9
<1> QED  BY <1>1, <1>2, <1>3, <1>4

-----------------------------------------------------------------------------
(* Steps that write trades                                                 *)

\* Room for one more trade in this deployment is room for one more trade.
LEMMA RoomLeft ==
    ASSUME Typed, Len(trades) < MaxTradesIn[active]
    PROVE  Len(trades) \in Nat /\ Len(trades) + 1 \in Trade /\ Len(trades) + 1 <= MaxTrades
<1>1. Len(trades) \in Nat
    BY LenProperties DEF Typed
<1>2. MaxTradesIn[active] \in 0..MaxTrades
    BY PaperBotAssumption DEF Typed, TypeOK
<1> QED  BY <1>1, <1>2, PaperBotAssumption DEF Trade

\* A scan plans a trade that is new to every store, or none.
LEMMA ScanKeeps ==
    ASSUME Account, NEW a \in Actor, UNCHANGED active, RunScan(a)
    PROVE  Account'
<1> USE DEF schedule, tables, tab, book, Go
<1>1. /\ pc[a] = "claimed" /\ UNCHANGED <<schedule, tables, tab>>
      /\ \E b \in BOOLEAN : past' = [past EXCEPT !.overlapped = b]
      /\ \/ pc' = [pc EXCEPT ![a] = "file"] /\ UNCHANGED <<trades, recent, plan>>
         \/ /\ Len(trades) < MaxTradesIn[active]
            /\ \E t : trades' = Append(trades, t)
            /\ recent' = recent \union {Len(trades')}
            /\ plan' = [plan EXCEPT ![a] = Len(trades')]
            /\ pc' = [pc EXCEPT ![a] = "persist"]
    BY Zenon DEF RunScan
<1>2. past' \in History /\ past'.strayed = past.strayed /\ past'.faults = past.faults
    BY <1>1 DEF Account, Typed, History
<1>3. CASE pc' = [pc EXCEPT ![a] = "file"] /\ UNCHANGED <<trades, recent, plan>>
    <2>1. Typed'
        BY <1>1, <1>2, <1>3, StillTyped DEF Account, Typed, TypeOK
    <2>2. Noting
        BY <1>1, <1>2, <1>3 DEF Account, Typed, TypeOK, History, Noting, Planned, FellBack
    <2> QED  BY <2>1, <2>2, NotingKeeps
<1>4. CASE /\ Len(trades) < MaxTradesIn[active]
           /\ \E t : trades' = Append(trades, t)
           /\ recent' = recent \union {Len(trades')}
           /\ plan' = [plan EXCEPT ![a] = Len(trades')]
           /\ pc' = [pc EXCEPT ![a] = "persist"]
    <2> DEFINE n == Len(trades) + 1
    <2>1. Keeps(trades') /\ n \in Trade /\ n <= MaxTrades
        BY <1>4, AppendKeeps, RoomLeft DEF Account
    <2>2. Len(trades') = n /\ \A i \in 1..Len(trades) : trades'[i] = trades[i]
        BY <2>1 DEF Keeps
    <2>3. Len(trades) \in Nat /\ n = Len(trades) + 1
        BY <2>1 DEF Keeps
    <2> HIDE DEF n
    <2>4. Typed'
        <3>1. Len(trades') <= MaxTrades /\ trades' \in Seq({trades'[i] : i \in DOMAIN trades'})
            BY <2>1, <2>2 DEF Keeps
        <3>2. recent' \subseteq Trade /\ plan' \in [Actor -> Trade \union {0}]
            BY <1>4, <2>1, <2>2 DEF Account, Typed, TypeOK
        <3>3. pc' \in [Actor -> {"idle", "polled", "claimed", "persist", "file",
                                 "release", "failed", "reconcile"}]
            BY <1>4 DEF Account, Typed, TypeOK
        <3> QED  BY <1>1, <1>2, <3>1, <3>2, <3>3 DEF Account, Typed, TypeOK, History
    <2>5. server[n] = Absent /\ shown[n] = Absent /\ \A b \in Actor : plan[b] < n
        BY <2>1, <2>3 DEF Account, Fresh, Planned, Typed, TypeOK, Trade
    <2>6. Fresh'
        BY <1>1, <2>2, <2>3 DEF Account, Fresh, Trade
    <2>7. Planned'
        BY <1>1, <1>4, <2>1, <2>2, <2>3, <2>5 DEF Account, Planned, Typed, TypeOK, Trade
    <2>8. Copied' /\ FellBack' /\ Shown'
        BY <1>1, <1>2 DEF Account, Copied, FellBack, Shown
    <2>9. ClassifiedMeansClosed'
        BY <1>1, <1>2 DEF Account, RecordsTellTheTruth, ClassifiedMeansClosed
    <2>10. OpenedTradeIsExplained'
        <3> SUFFICES ASSUME NEW t \in Trade, past.faults = 0, server[t] # Absent, trades'[t].source = "Bot",
                            \A b \in Actor : plan'[b] # t
                     PROVE  record[t] # "None"
            BY <1>1, <1>2 DEF OpenedTradeIsExplained
        <3>1. t \in 1..Len(trades)
            BY <2>3 DEF Account, Fresh, Trade
        <3>2. \A b \in Actor : plan[b] # t
            <4>1. plan[a] = 0 /\ t # 0
                BY <1>1, <2>3, <3>1 DEF Account, Planned
            <4>2. \A b \in Actor : b # a => plan'[b] = plan[b]
                BY <1>4 DEF Account, Typed, TypeOK
            <4> QED  BY <4>1, <4>2
        <3> QED  BY <2>2, <3>1, <3>2 DEF Account, RecordsTellTheTruth, OpenedTradeIsExplained
    <2> QED  BY <2>4, <2>6, <2>7, <2>8, <2>9, <2>10 DEF Account, RecordsTellTheTruth
<1> QED  BY <1>1, <1>3, <1>4

\* A worker's trade reaches the server, and its record is still to be filed, unless its
\* events were refused.
LEMMA PersistKeeps ==
    ASSUME Account, NEW w \in Worker, UNCHANGED active, PersistTrade(w)
    PROVE  Account'
<1> USE DEF schedule, tab, book, Go, Forget, Actor
<1>1. /\ UNCHANGED <<enabled, due, lockedBy, young, record, shown, known, fallenBack, trades, recent>>
      /\ pc[w] = "persist" /\ server' = InsertTrade(plan[w])
      /\ \/ pc' = [pc EXCEPT ![w] = "file"] /\ UNCHANGED <<plan, past>>
         \/ pc' = [pc EXCEPT ![w] = "failed"] /\ plan' = [plan EXCEPT ![w] = 0] /\ Fault
    BY DEF PersistTrade
<1>2. /\ plan[w] \in Trade /\ plan[w] <= Len(trades)
      /\ server[plan[w]] = Absent /\ shown[plan[w]] = Absent
    BY <1>1 DEF Account, Planned, Typed, TypeOK
<1>3. /\ past' \in History /\ past'.strayed = past.strayed
      /\ \/ past' = past /\ plan' = plan
         \/ past'.faults > 0 /\ plan' = [plan EXCEPT ![w] = 0]
    BY <1>1, FaultTyped DEF Account, Typed
<1>4. /\ server' \in [Trade -> Row]
      /\ \A t \in Trade : server'[t] = IF t = plan[w] THEN Open ELSE server[t]
    BY <1>1, <1>2 DEF InsertTrade, Account, Typed, TypeOK, Row, Open, Absent
<1>5. \A a \in Actor : plan[a] = plan[w] => a = w
    BY <1>1 DEF Account, Planned
<1>6. Typed'
    <2>1. /\ pc' \in [Actor -> {"idle", "polled", "claimed", "persist", "file",
                                "release", "failed", "reconcile"}]
          /\ plan' \in [Actor -> Trade \union {0}]
        BY <1>1 DEF Account, Typed, TypeOK
    <2> QED  BY <1>1, <1>3, <1>4, <2>1, StillTyped DEF Account, Typed, TypeOK
<1>7. Fresh'
    <2>1. Len(trades) \in Nat
        BY LenProperties DEF Account, Typed
    <2> QED  BY <1>1, <1>2, <1>4, <2>1 DEF Account, Fresh, Trade
<1>8. Planned'
    <2>1. \A a \in Actor :
                          /\ plan'[a] = plan[a] \/ (plan'[a] = 0 /\ a = w)
                          /\ pc'[a] = IF a = w THEN pc'[w] ELSE pc[a]
                          /\ pc'[w] \in {"file", "failed"} /\ (pc'[w] = "failed" => plan'[w] = 0)
        <3>1. pc \in [Actor -> {"idle", "polled", "claimed", "persist", "file",
                               "release", "failed", "reconcile"}]
              /\ plan \in [Actor -> Trade \union {0}]
            BY DEF Account, Typed, TypeOK
        <3>2. CASE pc' = [pc EXCEPT ![w] = "file"] /\ UNCHANGED <<plan, past>>
            BY <3>1, <3>2
        <3>3. CASE pc' = [pc EXCEPT ![w] = "failed"] /\ plan' = [plan EXCEPT ![w] = 0]
            BY <3>1, <3>3
        <3> QED  BY <1>1, <3>2, <3>3
    <2>2. /\ trades' = trades /\ shown' = shown /\ w \in Actor
          /\ pc[w] = "persist" /\ plan[w] \in Trade
          /\ \A a \in Actor : plan[a] \in Trade \union {0}
        BY <1>1, <1>2 DEF Account, Typed, TypeOK
    <2>3. \A t \in Trade : t # plan[w] => server'[t] = server[t]
        BY <1>4
    <2> QED  BY <1>5, <2>1, <2>2, <2>3 DEF Account, Planned
<1>9. Copied' /\ FellBack' /\ Shown'
    <2>1. Copied'
        BY <1>1, <1>2, <1>3, <1>4 DEF Account, Copied, Absent, Open
    <2>2. FellBack'
        BY <1>1, <1>3 DEF Account, FellBack, Typed, History
    <2>3. Shown'
        BY <1>1, <1>2, <1>3, <1>4 DEF Account, Shown, Absent, Open, Typed, History
    <2> QED  BY <2>1, <2>2, <2>3
<1>10. ClassifiedMeansClosed'
    BY <1>1, <1>2, <1>3, <1>4 DEF Account, RecordsTellTheTruth, ClassifiedMeansClosed, Absent
<1>11. OpenedTradeIsExplained'
    BY <1>1, <1>2, <1>3, <1>4 DEF Account, RecordsTellTheTruth, OpenedTradeIsExplained, Typed, TypeOK
<1> QED  BY <1>6, <1>7, <1>8, <1>9, <1>10, <1>11 DEF Account, RecordsTellTheTruth

\* What a write of the browser to the table of trades leaves: the row, or a fault.
LEMMA WrittenTrade ==
    ASSUME Account, NEW value, Written("trades", server, value)
    PROVE  /\ \/ server' = value
              \/ server' = server /\ past'.faults > 0
           /\ fallenBack' \subseteq {"trades", "records"} /\ past' \in History
           /\ past'.strayed = past.strayed /\ past'.faults >= past.faults
           /\ fallenBack' # {} => past'.faults > 0
<1>1. /\ \/ fallenBack' = fallenBack /\ past' = past
         \/ fallenBack' \in {fallenBack, fallenBack \union {"trades"}} /\ Fault
      /\ \/ server' = value
         \/ server' = server /\ (fallenBack # {} \/ Fault)
    BY DEF Written
<1>2. fallenBack # {} /\ past' = past => past'.faults > 0
    BY DEF Account, FellBack
<1>3. Fault => past'.faults > 0
    BY FaultTyped DEF Account
<1>4. /\ fallenBack' \subseteq {"trades", "records"} /\ past' \in History
      /\ past'.strayed = past.strayed /\ past'.faults >= past.faults
      /\ fallenBack' # {} => past'.faults > 0
    BY <1>1, WrittenNotes
<1> QED  BY <1>1, <1>2, <1>3, <1>4

\* The browser shows its trade before the server has it, or without.
LEMMA BrowserPersistKeeps ==
    ASSUME Account, UNCHANGED active, BrowserPersistsTrade
    PROVE  Account'
<1> USE DEF schedule, book, Go, Actor
<1> DEFINE n == plan[Browser]
<1>1. /\ UNCHANGED <<enabled, due, lockedBy, young, record, known, trades, recent, plan>>
      /\ pc[Browser] = "persist" /\ pc' = [pc EXCEPT ![Browser] = "file"]
      /\ shown' = [shown EXCEPT ![n] = Open]
      /\ Written("trades", server, InsertTrade(n))
    BY DEF BrowserPersistsTrade
<1>2. /\ n \in Trade /\ n <= Len(trades)
      /\ server[n] = Absent /\ shown[n] = Absent
    BY <1>1 DEF Account, Planned, Typed, TypeOK
<1>3. /\ fallenBack' \subseteq {"trades", "records"} /\ past' \in History
      /\ past'.strayed = past.strayed /\ past'.faults >= past.faults
      /\ fallenBack' # {} => past'.faults > 0
      /\ server' = InsertTrade(n) \/ (server' = server /\ past'.faults > 0)
    BY <1>1, WrittenTrade
<1>4. /\ server' \in [Trade -> Row] /\ shown' \in [Trade -> Row]
      /\ \A t \in Trade : t # n => server'[t] = server[t] /\ shown'[t] = shown[t]
      /\ server'[n] \in {Open, Absent} /\ shown'[n] = Open
      /\ server'[n] = Absent => past'.faults > 0
    <2>1. server \in [Trade -> Row] /\ shown \in [Trade -> Row] /\ Open \in Row
        BY DEF Account, Typed, TypeOK, Row
    <2>2. server' \in [Trade -> Row] /\ shown' \in [Trade -> Row]
        BY <1>1, <1>2, <1>3, <2>1 DEF InsertTrade
    <2>3. \A t \in Trade : t # n => server'[t] = server[t] /\ shown'[t] = shown[t]
        BY <1>1, <1>2, <1>3, <2>1 DEF InsertTrade
    <2>4. shown'[n] = Open
        BY <1>1, <1>2, <1>3, <2>1
    <2>5. server'[n] = Open \/ (server'[n] = Absent /\ past'.faults > 0)
        BY <1>1, <1>2, <1>3, <2>1 DEF InsertTrade
    <2>6. Open # Absent
        BY DEF Open, Absent
    <2> QED  BY <2>2, <2>3, <2>4, <2>5, <2>6
<1>5. \A a \in Actor : plan[a] = n => a = Browser
    BY <1>1 DEF Account, Planned
<1>6. Typed'
    <2>1. /\ pc' \in [Actor -> {"idle", "polled", "claimed", "persist", "file",
                                "release", "failed", "reconcile"}]
          /\ plan' \in [Actor -> Trade \union {0}]
        BY <1>1 DEF Account, Typed, TypeOK
    <2> QED  BY <1>1, <1>3, <1>4, <2>1, StillTyped DEF Account, Typed, TypeOK
<1>7. Fresh'
    <2>1. Len(trades) \in Nat
        BY LenProperties DEF Account, Typed
    <2> QED  BY <1>1, <1>2, <1>4, <2>1 DEF Account, Fresh, Trade
<1>8. Planned'
    BY <1>1, <1>2, <1>3, <1>4, <1>5 DEF Account, Planned, Typed, TypeOK
<1>9. Copied' /\ FellBack' /\ Shown'
    <2>1. Copied'
        BY <1>1, <1>2, <1>3, <1>4 DEF Account, Copied, Absent, Open
    <2>2. FellBack'
        BY <1>3 DEF FellBack
    <2>3. Shown'
        BY <1>1, <1>2, <1>3, <1>4 DEF Account, Shown, Absent, Open, Typed, History
    <2> QED  BY <2>1, <2>2, <2>3
<1>10. ClassifiedMeansClosed'
    BY <1>1, <1>2, <1>3, <1>4 DEF Account, RecordsTellTheTruth, ClassifiedMeansClosed, Absent
<1>11. OpenedTradeIsExplained'
    BY <1>1, <1>2, <1>3, <1>4 DEF Account, RecordsTellTheTruth, OpenedTradeIsExplained, Typed, TypeOK, History
<1> QED  BY <1>6, <1>7, <1>8, <1>9, <1>10, <1>11 DEF Account, RecordsTellTheTruth

\* A trade taken by hand is new to every store.
LEMMA SignalKeeps ==
    ASSUME Account, UNCHANGED active, NEW s, NEW side, OpenFromSignal(s, side)
    PROVE  Account'
<1> USE DEF schedule, actors
<1> DEFINE n == Len(trades')
<1>1. /\ UNCHANGED <<enabled, due, lockedBy, young, record, known, pc, plan>>
      /\ Len(trades) < MaxTradesIn[active]
      /\ \E e : trades' = Append(trades, e) /\ e.source = "Signal"
      /\ recent' = recent \union {n}
      /\ shown' = [shown EXCEPT ![n] = Open]
      /\ server' \in {server, InsertTrade(n)}
    BY DEF OpenFromSignal
<1>2. /\ past' \in History /\ past'.strayed = past.strayed /\ past'.faults >= past.faults
      /\ fallenBack' \subseteq {"trades", "records"}
      /\ fallenBack' # {} => past'.faults > 0
      /\ server' = server /\ server # InsertTrade(n) => past'.faults > 0
    <2>1. past \in History
        BY PaperBotAssumption DEF Account, Typed
    <2>2. CASE /\ past' = [past EXCEPT !.manual = TRUE] /\ fallenBack' = fallenBack
               /\ "trades" \in fallenBack \/ server' = InsertTrade(n)
        <3>1. past' \in History /\ past'.strayed = past.strayed /\ past'.faults = past.faults
            BY <2>1, <2>2 DEF History
        <3>2. fallenBack' \subseteq {"trades", "records"} /\ (fallenBack # {} => past.faults > 0)
            BY <2>2 DEF Account, Typed, TypeOK, FellBack
        <3>3. "trades" \in fallenBack => past'.faults > 0
            BY <3>1, <3>2
        <3>4. past.faults >= past.faults
            BY <2>1 DEF History
        <3> HIDE DEF n
        <3> QED  BY <2>2, <3>1, <3>2, <3>3, <3>4
    <2>3. CASE /\ past.faults < MaxFaultsIn[active]
               /\ fallenBack' \in {fallenBack, fallenBack \union {"trades"}}
               /\ past' = [past EXCEPT !.faults = @ + 1, !.manual = TRUE]
        <3>1. past.faults \in Nat /\ past.faults + 1 \in Nat
            BY <2>1, <2>3 DEF History
        <3>2. past' \in History /\ past'.strayed = past.strayed /\ past'.faults = past.faults + 1
            BY <2>1, <2>3, <3>1 DEF History
        <3> QED  BY <2>3, <3>1, <3>2 DEF Account, Typed, TypeOK
    <2> QED  BY <2>2, <2>3 DEF OpenFromSignal
<1>3. /\ Keeps(trades') /\ n = Len(trades) + 1 /\ n \in Trade /\ n <= MaxTrades
      /\ Len(trades) \in Nat /\ \A i \in 1..Len(trades) : trades'[i] = trades[i]
    BY <1>1, AppendKeeps, RoomLeft, ZenonT(60) DEF Account, Keeps
<1>4. trades'[n].source = "Signal"
    <2>1. PICK e : trades' = Append(trades, e) /\ e.source = "Signal"
        BY <1>1
    <2>2. Append(trades, e)[Len(trades) + 1] = e
        <3> DEFINE S == {trades[i] : i \in DOMAIN trades} \union {e}
        <3>1. trades \in Seq(S)
            BY SeqMonotonic DEF Account, Typed
        <3>2. e \in S
            OBVIOUS
        <3> HIDE DEF S
        <3> QED  BY <3>1, <3>2
    <2> QED  BY <2>1, <2>2, <1>3
<1> HIDE DEF n
<1>5. /\ server[n] = Absent /\ shown[n] = Absent /\ \A a \in Actor : plan[a] # n
    BY <1>3 DEF Account, Fresh, Planned, Typed, TypeOK, Trade
<1>6. /\ server' \in [Trade -> Row] /\ shown' \in [Trade -> Row]
      /\ \A t \in Trade : t # n => server'[t] = server[t] /\ shown'[t] = shown[t]
      /\ server'[n] \in {Open, Absent} /\ shown'[n] = Open
      /\ server'[n] = Absent => past'.faults > 0
    <2>1. server \in [Trade -> Row] /\ shown \in [Trade -> Row] /\ Open \in Row
        BY DEF Account, Typed, TypeOK, Row
    <2>2. server' \in [Trade -> Row] /\ shown' \in [Trade -> Row]
        BY <1>1, <1>2, <1>3, <1>5, <2>1 DEF InsertTrade
    <2>3. \A t \in Trade : t # n => server'[t] = server[t] /\ shown'[t] = shown[t]
        BY <1>1, <1>2, <1>3, <1>5, <2>1 DEF InsertTrade
    <2>4. shown'[n] = Open
        BY <1>1, <1>2, <1>3, <1>5, <2>1
    <2>5. server'[n] = Open \/ (server'[n] = Absent /\ past'.faults > 0)
        BY <1>1, <1>2, <1>3, <1>5, <2>1 DEF InsertTrade
    <2>6. Open # Absent
        BY DEF Open, Absent
    <2> QED  BY <2>2, <2>3, <2>4, <2>5, <2>6
<1>7. Typed'
    <2>1. Len(trades') <= MaxTrades /\ trades' \in Seq({trades'[i] : i \in DOMAIN trades'})
        BY <1>3 DEF Keeps, n
    <2>2. recent' \subseteq Trade
        BY <1>1, <1>3 DEF Account, Typed, TypeOK
    <2> QED  BY <1>1, <1>2, <1>6, <2>1, <2>2 DEF Account, Typed, TypeOK, History
<1>8. Fresh'
    <2>1. Len(trades') = Len(trades) + 1
        BY <1>3 DEF n
    <2> QED  BY <1>3, <1>6, <2>1 DEF Account, Fresh, Trade
<1>9. Planned'
    <2>1. Len(trades') = Len(trades) + 1
        BY <1>3 DEF n
    <2>2. \A a \in Actor : plan[a] \in Trade \union {0} /\ plan[a] \in Int /\ (plan[a] # 0 => plan[a] \in Trade)
        BY DEF Account, Typed, TypeOK, Trade
    <2>3. \A a \in Actor : plan[a] # 0 => server'[plan[a]] = server[plan[a]] /\ shown'[plan[a]] = shown[plan[a]]
        BY <1>5, <1>6, <2>2
    <2>4. \A a \in Actor : plan[a] <= Len(trades')
        BY <1>3, <2>1, <2>2 DEF Account, Planned
    <2> QED  BY <1>1, <2>3, <2>4 DEF Account, Planned
<1>10. Copied' /\ FellBack' /\ Shown'
    <2>1. Copied' /\ FellBack'
        BY <1>2, <1>6 DEF Account, Copied, FellBack, Absent, Open
    <2>2. past'.faults = 0 => past.faults = 0
        BY <1>2 DEF Account, Typed, History
    <2> QED  BY <1>2, <1>6, <2>1, <2>2 DEF Account, Shown
<1>11. ClassifiedMeansClosed'
    BY <1>1, <1>2, <1>5, <1>6 DEF Account, RecordsTellTheTruth, ClassifiedMeansClosed, Absent
<1>12. OpenedTradeIsExplained'
    <2> SUFFICES ASSUME NEW t \in Trade, past'.faults = 0, server'[t] # Absent, trades'[t].source = "Bot",
                        \A b \in Actor : plan[b] # t
                 PROVE  record[t] # "None"
        BY <1>1 DEF OpenedTradeIsExplained
    <2>1. t # n /\ past.faults = 0
        BY <1>2, <1>4 DEF Account, Typed, History
    <2>2. server[t] # Absent /\ t \in 1..Len(trades)
        BY <1>3, <1>6, <2>1 DEF Account, Fresh, Trade
    <2> QED  BY <1>3, <2>1, <2>2 DEF Account, RecordsTellTheTruth, OpenedTradeIsExplained
<1> QED  BY <1>7, <1>8, <1>9, <1>10, <1>11, <1>12 DEF Account, RecordsTellTheTruth

\* A close reaches both copies, or is remembered as one the server never got.
LEMMA CloseKeeps ==
    ASSUME Account, UNCHANGED active, NEW t \in Trade, NEW pnl \in Pnl, CloseTrade(t, pnl)
    PROVE  Account'
<1> USE DEF schedule, book, actors
<1>1. /\ UNCHANGED <<enabled, due, lockedBy, young, record, known, trades, recent, pc, plan>>
      /\ shown[t] = Open /\ shown' = [shown EXCEPT ![t] = Closed(pnl)]
      /\ server' = UpdateTrade(t, pnl) \/ (server' = server /\ past'.strayed = past.strayed \union {t})
    BY DEF CloseTrade, Account, Typed, History
<1>2. /\ past' \in History /\ past.strayed \subseteq past'.strayed /\ past'.faults >= past.faults
      /\ fallenBack' \subseteq {"trades", "records"}
      /\ fallenBack' # {} => past'.faults > 0
    <2>1. past \in History
        BY PaperBotAssumption DEF Account, Typed
    <2>2. CASE /\ past' = [past EXCEPT !.strayed = @ \union {t}] \/ past' = past
               /\ \/ fallenBack' = fallenBack
                  \/ fallenBack' = fallenBack \union {"trades"} /\ past.faults > 0
        <3>1. past' \in History /\ past.strayed \subseteq past'.strayed /\ past'.faults = past.faults
            BY <2>1, <2>2 DEF History
        <3>2. fallenBack' \subseteq {"trades", "records"} /\ (fallenBack' # {} => past.faults > 0)
            BY <2>2 DEF Account, Typed, TypeOK, FellBack
        <3>3. past.faults >= past.faults
            BY <2>1 DEF History
        <3> QED  BY <3>1, <3>2, <3>3
    <2>3. CASE /\ past.faults < MaxFaultsIn[active]
               /\ fallenBack' \in {fallenBack, fallenBack \union {"trades"}}
               /\ \/ past' = [past EXCEPT !.faults = @ + 1]
                  \/ past' = [past EXCEPT !.faults = @ + 1, !.strayed = @ \union {t}]
        <3>1. past.faults \in Nat /\ past.faults + 1 \in Nat
            BY <2>1, <2>3 DEF History
        <3>2. /\ past' \in History /\ past.strayed \subseteq past'.strayed
              /\ past'.faults = past.faults + 1
            <4>1. CASE past' = [past EXCEPT !.faults = @ + 1]
                BY <2>1, <3>1, <4>1 DEF History
            <4>2. CASE past' = [past EXCEPT !.faults = @ + 1, !.strayed = @ \union {t}]
                BY <2>1, <3>1, <4>2 DEF History
            <4> QED  BY <2>3, <4>1, <4>2
        <3> QED  BY <2>3, <3>1, <3>2 DEF Account, Typed, TypeOK
    <2>4. CASE "trades" \in fallenBack \/ server[t] = Absent
        <3>1. "trades" \in fallenBack \/ past.faults > 0
            BY <1>1, <2>1, <2>4 DEF Account, Shown, Open, Absent, History
        <3>2. /\ past' = [past EXCEPT !.strayed = @ \union {t}]
              /\ fallenBack' = fallenBack \union {"trades"}
            BY <2>4 DEF CloseTrade
        <3> QED  BY <2>2, <3>1, <3>2
    <2>5. CASE ~("trades" \in fallenBack \/ server[t] = Absent)
        BY <2>2, <2>3, <2>5 DEF CloseTrade, Fault
    <2> QED  BY <2>4, <2>5
<1>3. /\ server' \in [Trade -> Row] /\ shown' \in [Trade -> Row]
      /\ \A u \in Trade : u # t => server'[u] = server[u] /\ shown'[u] = shown[u]
      /\ shown'[t] = Closed(pnl)
      /\ \/ server'[t] = Closed(pnl)
         \/ server'[t] = server[t] /\ t \in past'.strayed
    BY <1>1, SMTT(30) DEF UpdateTrade, Account, Typed, TypeOK, Row
<1>4. t <= Len(trades) /\ \A a \in Actor : pc[a] = "persist" => plan[a] # t
    BY <1>1, LenProperties DEF Account, Fresh, Planned, Open, Absent, Typed, Trade
<1>5. Typed'
    BY <1>1, <1>2, <1>3, StillTyped DEF Account, Typed, TypeOK
<1>6. Fresh'
    <2>1. Len(trades) \in Nat
        BY LenProperties DEF Account, Typed
    <2> QED  BY <1>1, <1>3, <1>4, <2>1 DEF Account, Fresh, Trade
<1>7. Planned'
    <2>1. \A a \in Actor : plan[a] # 0 => plan[a] \in Trade
        BY DEF Account, Typed, TypeOK
    <2> QED  BY <1>1, <1>3, <1>4, <2>1 DEF Account, Planned
<1>8. Copied' /\ FellBack' /\ Shown'
    <2>1. Copied'
        BY <1>1, <1>2, <1>3 DEF Account, Copied, Open, Closed, Absent
    <2>2. FellBack'
        BY <1>1, <1>2, <1>3 DEF Account, FellBack, Typed, History
    <2>3. Shown'
        BY <1>1, <1>2, <1>3 DEF Account, Shown, Open, Closed, Absent, Typed, History
    <2> QED  BY <2>1, <2>2, <2>3
<1>9. ClassifiedMeansClosed'
    <2>1. ASSUME record[t] \in {"Win", "Loss", "Neutral"} PROVE t \in past'.strayed
        BY <1>1, <1>2, <2>1 DEF Account, RecordsTellTheTruth, ClassifiedMeansClosed, Copied, Open
    <2> QED  BY <1>1, <1>2, <1>3, <2>1 DEF Account, RecordsTellTheTruth, ClassifiedMeansClosed
<1>10. OpenedTradeIsExplained'
    <2>1. past'.faults = 0 => past.faults = 0 /\ server[t] # Absent
        BY <1>1, <1>2 DEF Account, Shown, Typed, History, Open, Absent
    <2> QED  BY <1>1, <1>3, <2>1 DEF Account, RecordsTellTheTruth, OpenedTradeIsExplained
<1> QED  BY <1>5, <1>6, <1>7, <1>8, <1>9, <1>10 DEF Account, RecordsTellTheTruth

\* A reload takes both copies from the server; a scan of the tab does not survive it.
LEMMA ReloadKeeps ==
    ASSUME Account, UNCHANGED active, Reload
    PROVE  Account'
<1> USE DEF schedule, tables, book, Go, Forget, Actor
<1>1. /\ UNCHANGED <<enabled, due, lockedBy, young, server, record, trades, recent>>
      /\ shown' = server /\ known' = record /\ fallenBack' = {}
      /\ pc' = [pc EXCEPT ![Browser] = "idle"] /\ plan' = [plan EXCEPT ![Browser] = 0]
      /\ \/ pc[Browser] = "idle" /\ past' = past
         \/ Fault
    BY DEF Reload, HydrateTrades, HydrateRecords
<1>2. /\ past' \in History /\ past'.strayed = past.strayed
      /\ past' = past \/ past'.faults > 0
    BY <1>1, FaultTyped DEF Account, Typed
<1>3. Typed'
    BY <1>1, <1>2, StillTyped DEF Account, Typed, TypeOK
<1>4. Fresh' /\ Copied' /\ FellBack' /\ Shown'
    BY <1>1 DEF Account, Fresh, Copied, FellBack, Shown
<1>5. Planned'
    BY <1>1 DEF Account, Planned, Typed, TypeOK
<1>6. ClassifiedMeansClosed'
    BY <1>1, <1>2 DEF Account, RecordsTellTheTruth, ClassifiedMeansClosed
<1>7. OpenedTradeIsExplained'
    <2>1. past'.faults = 0 => plan[Browser] = 0 /\ past' = past
        BY <1>1, <1>2, FaultTyped DEF Account, Planned
    <2>2. past'.faults = 0 => \A a \in Actor : plan'[a] = plan[a]
        BY <1>1, <2>1 DEF Account, Typed, TypeOK
    <2> QED  BY <1>1, <2>1, <2>2 DEF Account, RecordsTellTheTruth, OpenedTradeIsExplained
<1> QED  BY <1>3, <1>4, <1>5, <1>6, <1>7 DEF Account, RecordsTellTheTruth

\* Whoever acts, the account stays sound.
LEMMA AccountInductive == Account /\ [Next]_vars => Account'
<1> SUFFICES ASSUME Account, [Next]_vars PROVE Account'
    OBVIOUS
<1>1. active \subseteq Actor
    BY PaperBotAssumption DEF Account, Typed, TypeOK, Actor, Browser
<1>2. ASSUME NEW w \in Worker, Poll(w) PROVE Account'
    <2>1. UNCHANGED active /\ w \in Actor
        BY <1>2 DEF Poll, Actor
    <2>2. CASE FetchDueSchedules(w) \/ ClaimScheduleLock(w) \/ ReleaseScheduleLock(w)
        BY <2>1, <2>2, PollNotes, NotingKeeps
    <2>3. CASE RunScan(w)
        BY <2>1, <2>3, ScanKeeps
    <2>4. CASE PersistTrade(w)
        BY <2>1, <2>4, PersistKeeps
    <2>5. CASE PersistDecisionRecords(w)
        BY <2>1, <2>5, FilingNotes, NotingKeeps
    <2>6. CASE Reconcile(w)
        BY <2>1, <2>6, ReconcileNotes, NotingKeeps
    <2> QED  BY <1>2, <2>2, <2>3, <2>4, <2>5, <2>6 DEF Poll
<1>3. ASSUME UNCHANGED active, Tab PROVE Account'
    <2>1. Browser \in Actor
        BY DEF Actor
    <2>2. CASE \/ BrowserStartsScan \/ BrowserFilesRecords \/ BrowserReconciles
               \/ \E on \in BOOLEAN : SaveSchedule(on)
        BY <1>3, <2>2, TabNotes, NotingKeeps
    <2>3. CASE RunScan(Browser)
        BY <1>3, <2>1, <2>3, ScanKeeps
    <2>4. CASE BrowserPersistsTrade
        BY <1>3, <2>4, BrowserPersistKeeps
    <2>5. CASE Reload
        BY <1>3, <2>5, ReloadKeeps
    <2>6. CASE \E signal \in Signal : OpenFromSignal(signal.symbol, signal.side)
        BY <1>3, <2>6, SignalKeeps
    <2>7. CASE \E t \in Trade, pnl \in Pnl : CloseTrade(t, pnl)
        BY <1>3, <2>7, CloseKeeps
    <2> QED  BY <1>3, <2>2, <2>3, <2>4, <2>5, <2>6, <2>7 DEF Tab
<1>4. ASSUME UNCHANGED active, Time PROVE Account'
    BY <1>4, TimeNotes, NotingKeeps
<1>5. ASSUME UNCHANGED active, NEW w \in active \ {Browser}, WorkerTrouble(w) PROVE Account'
    <2>1. w \in Worker
        BY <1>1 DEF Actor
    <2> QED  BY <1>5, <2>1, TroubleNotes, NotingKeeps
<1>6. CASE UNCHANGED vars
    <2>1. Typed'
        BY <1>6, StillTyped DEF vars, schedule, tables, tab, book, actors, Account, Typed, TypeOK
    <2>2. Noting
        BY <1>6 DEF vars, schedule, tables, tab, book, actors, Noting, Account, FellBack, Typed, History
    <2> QED  BY <2>1, <2>2, NotingKeeps
<1> QED  BY <1>2, <1>3, <1>4, <1>5, <1>6 DEF Next

\* An account starts empty.
LEMMA AccountInitially == Init => Account
<1> SUFFICES ASSUME Init PROVE Account
    OBVIOUS
<1> USE DEF Init
<1>1. /\ Len(trades) = 0 /\ trades \in Seq({trades[i] : i \in DOMAIN trades})
    BY EmptySeq
<1>2. past \in History
    BY PaperBotAssumption DEF History
<1>3. server \in [Trade -> Row] /\ shown \in [Trade -> Row]
    BY DEF Nothing, Row
<1>4. enabled \in BOOLEAN /\ due \in BOOLEAN
    OBVIOUS
<1>5. Typed
    BY <1>1, <1>2, <1>3, <1>4, PaperBotAssumption DEF Typed, TypeOK, Outcome, History
<1>6. Fresh /\ Planned /\ Copied /\ FellBack /\ Shown
    BY <1>1 DEF Fresh, Planned, Copied, FellBack, Shown, Nothing, Absent
<1>7. RecordsTellTheTruth
    BY DEF RecordsTellTheTruth, ClassifiedMeansClosed, OpenedTradeIsExplained, Nothing
<1> QED  BY <1>5, <1>6, <1>7 DEF Account

\* The account is sound in every state of every behaviour.
LEMMA AccountCorrect == Spec => []Account
BY AccountInitially, AccountInductive, PTL DEF Spec

\* The account's tables, copies and plans keep their types.
THEOREM AccountTyped == Spec => []TypeOK
<1>1. Account => TypeOK
    BY DEF Account, Typed
<1> QED  BY <1>1, AccountCorrect, PTL

\* However many workers, the browser and a person share the account, whatever write is
\* lost or process killed: a decision says that a trade won or lost only when the server
\* has it closed with that result, or its close never got there (computeOutcomeUpdate);
\* and without a fault no trade of the bot lacks its explanation (executeBotScan).
THEOREM RecordsAreTrue == Spec => []RecordsTellTheTruth
<1>1. Account => RecordsTellTheTruth
    BY DEF Account
<1> QED  BY <1>1, AccountCorrect, PTL

-----------------------------------------------------------------------------
(* The notional of a book.  A fold picks the trades in an order of its own; *)
(* what it adds up does not depend on it.                                   *)

\* Every set of naturals that is not empty has a least element.
LEMMA Least == ASSUME NEW N \in SUBSET Nat, N # {} PROVE \E n \in N : \A m \in N : n <= m
<1> DEFINE R == {p \in Nat \X Nat : p[1] < p[2]}
<1>1. IsWellFoundedOn(R, Nat)
    <2>1. OpToRel(<, Nat) = R
        BY DEF OpToRel
    <2> HIDE DEF R
    <2> QED  BY <2>1, NatLessThanWellFounded, Zenon
<1>2. \A m, n \in Nat : m < n => <<m, n>> \in R
    OBVIOUS
<1> HIDE DEF R
<1>3. PICK n \in N : \A m \in N : <<m, n>> \notin R
    BY <1>1, WFMin
<1>4. ASSUME NEW m \in N PROVE n <= m
    <2>1. m \in Nat /\ n \in Nat /\ ~(m < n)
        BY <1>2, <1>3
    <2> QED  BY <2>1
<1> QED  BY <1>4

\* The element a fold takes next.
Picked(s) == CHOOSE t \in s : TRUE

\* f adds up the values of every set of D.
Adds(f, value, D) ==
    f = [s \in D |-> IF s = {} THEN 0 ELSE value[Picked(s)] + f[s \ {Picked(s)}]]

\* Two folds agree on a finite set whose subsets both of them cover.
LEMMA AddsUnique ==
    ASSUME NEW S, IsFiniteSet(S), NEW D, NEW E, NEW value,
           NEW f, Adds(f, value, D), NEW g, Adds(g, value, E),
           SUBSET S \subseteq D \cap E
    PROVE  f[S] = g[S]
<1> DEFINE Bad == {n \in Nat : \E r \in SUBSET S : Cardinality(r) = n /\ f[r] # g[r]}
<1> SUFFICES ASSUME f[S] # g[S] PROVE FALSE
    OBVIOUS
<1>1. Cardinality(S) \in Bad
    BY FS_CardinalityType
<1>2. PICK n \in Bad : \A m \in Bad : n <= m
    BY <1>1, Least
<1>3. PICK r \in SUBSET S : Cardinality(r) = n /\ f[r] # g[r]
    BY <1>2
<1>4. r # {}
    BY <1>3 DEF Adds
<1> DEFINE t == Picked(r)
<1>5. t \in r
    BY <1>4 DEF Picked
<1> HIDE DEF t
<1>6. IsFiniteSet(r) /\ Cardinality(r \ {t}) = n - 1 /\ n \in Nat /\ n - 1 \in Nat
    <2>1. IsFiniteSet(r) /\ n \in Nat
        BY <1>3, FS_Subset
    <2>2. Cardinality(r \ {t}) = Cardinality(r) - 1
        BY <1>5, <2>1, FS_RemoveElement
    <2>3. IsFiniteSet(r \ {t})
        BY <2>1, FS_Subset
    <2>4. Cardinality(r \ {t}) \in Nat
        BY <2>3, FS_CardinalityType
    <2> QED  BY <1>3, <2>1, <2>2, <2>4
<1>7. f[r \ {t}] = g[r \ {t}]
    <2>1. n - 1 \notin Bad
        BY <1>2, <1>6
    <2> QED  BY <1>3, <1>6, <2>1
<1>8. f[r] = value[t] + f[r \ {t}] /\ g[r] = value[t] + g[r \ {t}]
    BY <1>3, <1>4 DEF Adds, t
<1> QED  BY <1>3, <1>7, <1>8

\* The fold exists.
LEMMA AddsExists ==
    ASSUME NEW S, IsFiniteSet(S), NEW value
    PROVE  \E f : Adds(f, value, SUBSET S)
<1> DEFINE D(n) == {s \in SUBSET S : Cardinality(s) <= n}
           Bad == {n \in Nat : ~ \E f : Adds(f, value, D(n))}
<1>1. \A s \in SUBSET S : IsFiniteSet(s) /\ Cardinality(s) \in Nat /\ Cardinality(s) <= Cardinality(S)
    BY FS_Subset, FS_CardinalityType
<1>2. Cardinality(S) \in Nat /\ D(Cardinality(S)) = SUBSET S
    BY <1>1, FS_CardinalityType
<1> SUFFICES ASSUME Cardinality(S) \in Bad PROVE FALSE
    BY <1>2
<1>3. PICK n \in Bad : \A m \in Bad : n <= m
    BY Least
<1>4. n # 0
    <2>1. ASSUME n = 0 PROVE \A s \in D(0) : s = {}
        BY <1>1, FS_EmptySet
    <2>2. ASSUME n = 0 PROVE Adds([s \in D(0) |-> 0], value, D(0))
        BY <2>1, <2>2 DEF Adds
    <2> QED  BY <1>3, <2>2
<1>5. n \in Nat /\ n - 1 \in Nat /\ n - 1 \notin Bad
    <2>1. n \in Nat
        OBVIOUS
    <2> HIDE DEF Bad
    <2> QED  BY <1>3, <1>4, <2>1
<1>6. PICK f : Adds(f, value, D(n - 1))
    BY <1>5
<1> DEFINE g == [s \in D(n) |-> IF s = {} THEN 0 ELSE value[Picked(s)] + f[s \ {Picked(s)}]]
<1>7. ASSUME NEW s \in D(n), s # {}
      PROVE  s \ {Picked(s)} \in D(n - 1) /\ g[s \ {Picked(s)}] = f[s \ {Picked(s)}]
    <2>1. Picked(s) \in s
        BY <1>7 DEF Picked
    <2>2. Cardinality(s \ {Picked(s)}) = Cardinality(s) - 1 /\ Cardinality(s) \in Nat
        BY <1>1, <2>1, FS_RemoveElement
    <2>3. s \ {Picked(s)} \in D(n - 1) /\ s \ {Picked(s)} \in D(n)
        BY <1>5, <2>2
    <2> DEFINE r == s \ {Picked(s)}
    <2>4. f[r] = IF r = {} THEN 0 ELSE value[Picked(r)] + f[r \ {Picked(r)}]
        <3> HIDE DEF D
        <3> QED  BY <1>6, <2>3 DEF Adds
    <2> QED  BY <2>3, <2>4
<1>8. Adds(g, value, D(n))
    <2> HIDE DEF D
    <2> SUFFICES \A s \in D(n) : g[s] = IF s = {} THEN 0 ELSE value[Picked(s)] + g[s \ {Picked(s)}]
        BY DEF Adds
    <2> QED  BY <1>7
<1> QED  BY <1>3, <1>8

\* f adds up the integers that value gives to the elements of S.
Sums(f, value, S) ==
    /\ IsFiniteSet(S) /\ Adds(f, value, SUBSET S)
    /\ \A t \in S : value[t] \in Int

\* A sum of integers is one, and any element may be taken out first.
LEMMA SumsUp ==
    ASSUME NEW S, NEW value, NEW f, Sums(f, value, S)
    PROVE  \A r \in SUBSET S : f[r] \in Int /\ \A v \in r : f[r] = value[v] + f[r \ {v}]
<1> DEFINE Good(r) == f[r] \in Int /\ \A v \in r : f[r] = value[v] + f[r \ {v}]
           Bad == {n \in Nat : \E r \in SUBSET S : Cardinality(r) = n /\ ~Good(r)}
<1> SUFFICES ASSUME NEW q \in SUBSET S, ~Good(q) PROVE FALSE
    OBVIOUS
<1>1. \A r \in SUBSET S : IsFiniteSet(r) /\ Cardinality(r) \in Nat
    BY FS_Subset, FS_CardinalityType DEF Sums
<1>2. PICK n \in Bad : \A m \in Bad : n <= m
    <2>1. Cardinality(q) \in Bad
        BY <1>1
    <2> QED  BY <2>1, Least
<1>3. PICK r \in SUBSET S : Cardinality(r) = n /\ ~Good(r)
    BY <1>2
<1>4. r # {}
    BY <1>3 DEF Sums, Adds
<1> DEFINE t == Picked(r)
<1>5. t \in r /\ t \in S
    BY <1>4 DEF Picked
<1>6. f[r] = value[t] + f[r \ {t}]
    BY <1>4 DEF Sums, Adds
<1> HIDE DEF t
<1>7. \A v \in r : Good(r \ {v})
    <2> SUFFICES ASSUME NEW v \in r PROVE Good(r \ {v})
        OBVIOUS
    <2>1. Cardinality(r \ {v}) = n - 1 /\ n - 1 \in Nat /\ n \in Nat
        <3>1. Cardinality(r \ {v}) = Cardinality(r) - 1
            BY <1>1, FS_RemoveElement
        <3>2. Cardinality(r \ {v}) \in Nat /\ Cardinality(r) \in Nat
            BY <1>1
        <3> QED  BY <1>3, <3>1, <3>2
    <2>2. n - 1 \notin Bad
        <3> HIDE DEF Bad
        <3> QED  BY <1>2, <2>1
    <2> HIDE DEF Good
    <2> QED  BY <2>1, <2>2
<1>8. f[r] \in Int
    BY <1>5, <1>6, <1>7 DEF Sums
<1>9. ASSUME NEW v \in r PROVE f[r] = value[v] + f[r \ {v}]
    <2>1. CASE v = t
        BY <1>6, <2>1
    <2>2. CASE v # t
        <3>1. (r \ {t}) \ {v} = (r \ {v}) \ {t} /\ v \in r \ {t} /\ t \in r \ {v}
            BY <1>5, <2>2
        <3> DEFINE rest == f[(r \ {t}) \ {v}]
        <3>2. f[r \ {t}] = value[v] + rest /\ f[r \ {v}] = value[t] + rest
            <4>1. Good(r \ {t}) /\ Good(r \ {v})
                BY <1>5, <1>7
            <4>2. f[r \ {v}] = value[t] + f[(r \ {v}) \ {t}]
                BY <3>1, <4>1
            <4>3. f[r \ {t}] = value[v] + f[(r \ {t}) \ {v}]
                BY <3>1, <4>1
            <4> QED  BY <3>1, <4>2, <4>3
        <3>3. rest \in Int /\ value[v] \in Int /\ value[t] \in Int
            <4>1. (r \ {t}) \ {v} \in SUBSET S /\ r \ {t} \in SUBSET S
                OBVIOUS
            <4>2. Cardinality((r \ {t}) \ {v}) = n - 2 /\ n - 2 \in Nat /\ n \in Nat
                <5>1. Cardinality(r \ {t}) = Cardinality(r) - 1
                    BY <1>1, <1>5, FS_RemoveElement
                <5>2. Cardinality((r \ {t}) \ {v}) = Cardinality(r \ {t}) - 1
                    BY <1>1, <3>1, <4>1, FS_RemoveElement
                <5>3. Cardinality((r \ {t}) \ {v}) \in Nat /\ Cardinality(r) \in Nat
                    BY <1>1, <4>1
                <5> QED  BY <1>3, <5>1, <5>2, <5>3
            <4>3. n - 2 \notin Bad
                <5> HIDE DEF Bad
                <5> QED  BY <1>2, <4>2
            <4>4. Good((r \ {t}) \ {v})
                <5> HIDE DEF Good
                <5> QED  BY <4>1, <4>2, <4>3
            <4> QED  BY <1>5, <4>4 DEF Sums
        <3> HIDE DEF rest
        <3>4. \A a, b, c \in Int : a + (b + c) = b + (a + c)
            OBVIOUS
        <3> QED  BY <1>6, <3>2, <3>3, <3>4
    <2> QED  BY <2>1, <2>2
<1> QED  BY <1>3, <1>8, <1>9

Worth(S) == IsFiniteSet(S) /\ \A t \in S : Notional(t) \in Nat

\* What the trades of a book are worth in total is such a sum.
LEMMA NotionalSums ==
    ASSUME NEW S, Worth(S)
    PROVE  /\ TotalNotional(S) \in Int /\ (S = {} => TotalNotional(S) = 0)
           /\ \A u \in S : TotalNotional(S) = Notional(u) + TotalNotional(S \ {u})
<1> DEFINE value == [t \in S |-> Notional(t)]
           Fold(R) == CHOOSE f : f = [s \in SUBSET R |->
               IF s = {} THEN 0 ELSE Notional(Picked(s)) + f[s \ {Picked(s)}]]
<1>1. ASSUME NEW R PROVE TotalNotional(R) = Fold(R)[R]
    BY DEF TotalNotional, MapThenSumSet, MapThenFoldSet, Picked
<1>2. ASSUME NEW R \in SUBSET S PROVE Adds(Fold(R), value, SUBSET R)
    <2>1. \A s \in SUBSET R : s # {} => value[Picked(s)] = Notional(Picked(s))
        BY DEF Picked
    <2> HIDE DEF value
    <2>2. IsFiniteSet(R)
        BY FS_Subset DEF Worth
    <2>3. PICK f : Adds(f, value, SUBSET R)
        BY <2>2, AddsExists
    <2>4. f = [s \in SUBSET R |-> IF s = {} THEN 0 ELSE Notional(Picked(s)) + f[s \ {Picked(s)}]]
        BY <2>1, <2>3 DEF Adds
    <2>5. Fold(R) = [s \in SUBSET R |->
                        IF s = {} THEN 0 ELSE Notional(Picked(s)) + Fold(R)[s \ {Picked(s)}]]
        BY <2>4, Zenon
    <2> HIDE DEF Fold
    <2> QED  BY <2>1, <2>5 DEF Adds
<1>3. ASSUME NEW R \in SUBSET S PROVE Fold(S)[R] = Fold(R)[R]
    <2>1. IsFiniteSet(R) /\ SUBSET R \subseteq (SUBSET S) \cap (SUBSET R)
        BY FS_Subset DEF Worth
    <2>2. Adds(Fold(S), value, SUBSET S) /\ Adds(Fold(R), value, SUBSET R)
        BY <1>2
    <2> HIDE DEF Fold, value
    <2> QED  BY <2>1, <2>2, AddsUnique
<1>4. Sums(Fold(S), value, S)
    <2> HIDE DEF Fold
    <2> QED  BY <1>2 DEF Sums, Worth
<1>5. \A u \in S : value[u] = Notional(u)
    OBVIOUS
<1>6. S = {} => Fold(S)[S] = 0
    <2> HIDE DEF Fold, value
    <2> QED  BY <1>4 DEF Sums, Adds
<1> HIDE DEF Fold, value
<1>7. Fold(S)[S] \in Int /\ \A u \in S : Fold(S)[S] = value[u] + Fold(S)[S \ {u}]
    BY <1>4, SumsUp
<1>8. ASSUME NEW R \in SUBSET S PROVE TotalNotional(R) = Fold(S)[R]
    BY <1>1, <1>3
<1> QED  BY <1>5, <1>6, <1>7, <1>8

\* And so is what its closed trades have won or lost.
LEMMA ResultSums ==
    ASSUME NEW S, IsFiniteSet(S), \A t \in S : Result(t) \in Int
    PROVE  /\ TotalResult(S) \in Int /\ (S = {} => TotalResult(S) = 0)
           /\ \A u \in S : TotalResult(S) = Result(u) + TotalResult(S \ {u})
<1> DEFINE value == [t \in S |-> Result(t)]
           Fold(R) == CHOOSE f : f = [s \in SUBSET R |->
               IF s = {} THEN 0 ELSE Result(Picked(s)) + f[s \ {Picked(s)}]]
<1>1. ASSUME NEW R PROVE TotalResult(R) = Fold(R)[R]
    BY DEF TotalResult, MapThenSumSet, MapThenFoldSet, Picked
<1>2. ASSUME NEW R \in SUBSET S PROVE Adds(Fold(R), value, SUBSET R)
    <2>1. \A s \in SUBSET R : s # {} => value[Picked(s)] = Result(Picked(s))
        BY DEF Picked
    <2> HIDE DEF value
    <2>2. IsFiniteSet(R)
        BY FS_Subset
    <2>3. PICK f : Adds(f, value, SUBSET R)
        BY <2>2, AddsExists
    <2>4. f = [s \in SUBSET R |-> IF s = {} THEN 0 ELSE Result(Picked(s)) + f[s \ {Picked(s)}]]
        BY <2>1, <2>3 DEF Adds
    <2>5. Fold(R) = [s \in SUBSET R |->
                        IF s = {} THEN 0 ELSE Result(Picked(s)) + Fold(R)[s \ {Picked(s)}]]
        BY <2>4, Zenon
    <2> HIDE DEF Fold
    <2> QED  BY <2>1, <2>5 DEF Adds
<1>3. ASSUME NEW R \in SUBSET S PROVE Fold(S)[R] = Fold(R)[R]
    <2>1. IsFiniteSet(R) /\ SUBSET R \subseteq (SUBSET S) \cap (SUBSET R)
        BY FS_Subset
    <2>2. Adds(Fold(S), value, SUBSET S) /\ Adds(Fold(R), value, SUBSET R)
        BY <1>2
    <2> HIDE DEF Fold, value
    <2> QED  BY <2>1, <2>2, AddsUnique
<1>4. Sums(Fold(S), value, S)
    <2> HIDE DEF Fold
    <2> QED  BY <1>2 DEF Sums
<1>5. \A u \in S : value[u] = Result(u)
    OBVIOUS
<1>6. S = {} => Fold(S)[S] = 0
    <2> HIDE DEF Fold, value
    <2> QED  BY <1>4 DEF Sums, Adds
<1> HIDE DEF Fold, value
<1>7. Fold(S)[S] \in Int /\ \A u \in S : Fold(S)[S] = value[u] + Fold(S)[S \ {u}]
    BY <1>4, SumsUp
<1>8. ASSUME NEW R \in SUBSET S PROVE TotalResult(R) = Fold(S)[R]
    BY <1>1, <1>3
<1> QED  BY <1>5, <1>6, <1>7, <1>8

\* A finite book of trades that are worth something is worth something.
LEMMA NotionalNat ==
    ASSUME NEW S, Worth(S)
    PROVE  TotalNotional(S) \in Nat
<1> DEFINE Bad == {n \in Nat : \E r \in SUBSET S : Cardinality(r) = n /\ TotalNotional(r) \notin Nat}
<1> SUFFICES ASSUME TotalNotional(S) \notin Nat PROVE FALSE
    OBVIOUS
<1>1. Cardinality(S) \in Bad
    BY FS_CardinalityType DEF Worth
<1>2. PICK n \in Bad : \A m \in Bad : n <= m
    BY <1>1, Least
<1>3. PICK r \in SUBSET S : Cardinality(r) = n /\ TotalNotional(r) \notin Nat
    BY <1>2
<1>4. IsFiniteSet(r) /\ r # {}
    <2>1. IsFiniteSet(r)
        BY FS_Subset DEF Worth
    <2>2. r = {} => TotalNotional(r) = 0
        BY <2>1, NotionalSums DEF Worth
    <2> QED  BY <1>3, <2>1, <2>2
<1>5. PICK t \in r : TRUE
    BY <1>4
<1>6. n \in Nat /\ n - 1 \in Nat /\ Cardinality(r \ {t}) = n - 1
    <2>1. Cardinality(r \ {t}) = n - 1
        BY <1>3, <1>4, <1>5, FS_RemoveElement
    <2>2. Cardinality(r \ {t}) \in Nat
        BY <1>4, FS_Subset, FS_CardinalityType
    <2> QED  BY <1>2, <2>1, <2>2
<1>7. n - 1 \notin Bad
    <2> HIDE DEF Bad
    <2> QED  BY <1>2, <1>6
<1>8. TotalNotional(r \ {t}) \in Nat
    BY <1>3, <1>6, <1>7
<1>9. TotalNotional(r) = Notional(t) + TotalNotional(r \ {t})
    BY <1>4, <1>5, NotionalSums DEF Worth
<1> QED  BY <1>3, <1>5, <1>8, <1>9 DEF Worth

\* A smaller book is worth no more.
LEMMA NotionalMonotone ==
    ASSUME NEW S, Worth(S), NEW R \in SUBSET S
    PROVE  TotalNotional(R) <= TotalNotional(S)
<1> DEFINE Bad == {n \in Nat : \E r \in SUBSET S : /\ Cardinality(r) = n /\ R \subseteq r
                      /\ ~(TotalNotional(R) <= TotalNotional(r))}
<1> SUFFICES ASSUME ~(TotalNotional(R) <= TotalNotional(S)) PROVE FALSE
    OBVIOUS
<1>1. Cardinality(S) \in Bad
    BY FS_CardinalityType DEF Worth
<1>2. PICK n \in Bad : \A m \in Bad : n <= m
    BY <1>1, Least
<1>3. PICK r \in SUBSET S : /\ Cardinality(r) = n /\ R \subseteq r
                            /\ ~(TotalNotional(R) <= TotalNotional(r))
    BY <1>2
<1>4. Worth(r) /\ IsFiniteSet(r) /\ Worth(R)
    BY <1>3, FS_Subset DEF Worth
<1>5. R # r
    BY <1>3, <1>4, NotionalNat
<1>6. PICK t \in r : t \notin R
    BY <1>3, <1>5
<1>7. n \in Nat /\ n - 1 \in Nat /\ Cardinality(r \ {t}) = n - 1
    <2>1. Cardinality(r \ {t}) = n - 1
        BY <1>3, <1>4, <1>6, FS_RemoveElement
    <2>2. Cardinality(r \ {t}) \in Nat
        BY <1>4, FS_Subset, FS_CardinalityType
    <2> QED  BY <1>2, <2>1, <2>2
<1>8. n - 1 \notin Bad
    <2> HIDE DEF Bad
    <2> QED  BY <1>2, <1>7
<1>9. TotalNotional(R) <= TotalNotional(r \ {t})
    BY <1>3, <1>6, <1>7, <1>8
<1>10. TotalNotional(r) = Notional(t) + TotalNotional(r \ {t}) /\ Notional(t) \in Nat
    BY <1>4, <1>6, NotionalSums DEF Worth
<1>11. TotalNotional(r \ {t}) \in Nat /\ TotalNotional(R) \in Nat
    <2>1. Worth(r \ {t})
        BY <1>4, FS_Subset DEF Worth
    <2> QED  BY <1>4, <2>1, NotionalNat
<1> QED  BY <1>3, <1>9, <1>10, <1>11

-----------------------------------------------------------------------------
(* The limits: while the account is undisturbed, its open trades and the one *)
(* a scan is about to persist keep them together.                           *)

Undisturbed == ~past.overlapped /\ ~past.manual

\* A trade as runBotScan builds it.
BotTrade(t) ==
    /\ t.source = "Bot" /\ t.side \in Side
    /\ t.confidence \in Int /\ t.quantity \in Nat /\ t.price \in Nat

\* An open trade, as a scan reads it.
Line(ts, u) ==
    [symbol |-> ts[u].symbol, side |-> ts[u].side, source |-> ts[u].source,
     quantity |-> ts[u].quantity, price |-> ts[u].price,
     confidence |-> ts[u].confidence, agreement |-> ts[u].agreement,
     state |-> "Open", pnl |-> 0, id |-> u]

Lines(ts, v) == {Line(ts, u) : u \in {x \in 1..Len(ts) : v[x] = Open}}

\* A closed trade, and all of them.
Settled(ts, v, u) ==
    [symbol |-> ts[u].symbol, side |-> ts[u].side, source |-> ts[u].source,
     quantity |-> ts[u].quantity, price |-> ts[u].price,
     confidence |-> ts[u].confidence, agreement |-> ts[u].agreement,
     state |-> "Closed", pnl |-> v[u].pnl, id |-> u]
Shut(ts, v) == {Settled(ts, v, u) : u \in {x \in 1..Len(ts) : v[x].state = "Closed"}}

\* What WithinLimits says of the open trades.
Within(open) ==
    /\ Cardinality(open) <= MAX_OPEN_TRADES
    /\ TotalNotional(open) <= MAX_CAPITAL_DEPLOYED
    /\ \A side \in Side : Cardinality(OfSide(open, side)) <= MAX_SAME_DIRECTION_TRADES
    /\ \A t \in open :
          /\ TotalNotional(OfSymbol(open, t.symbol)) <= MAX_POSITION_VALUE_GBP
          /\ Cardinality(OfSector(open, Sector[t.symbol])) <= MAX_SECTOR_OPEN_TRADES
          /\ TotalNotional(OfSector(open, Sector[t.symbol])) <= MAX_SECTOR_EXPOSURE
    /\ \A t, u \in open : t.symbol = u.symbol =>
          /\ t.side = u.side
          /\ t.id < u.id => t.confidence + MIN_CONFIDENCE_IMPROVEMENT <= u.confidence

\* A finite set of open trades of the bot.
OpenBook(open) ==
    /\ IsFiniteSet(open)
    /\ \A t \in open : BotTrade(t) /\ t.id \in Nat
    /\ \A t, u \in open : t.id = u.id => t = u

\* No closed trade lost more than was paid for it.
Bearable(ts, v) ==
    \A x \in 1..Len(ts) : v[x] # Absent => v[x].pnl >= -100 * (ts[x].quantity * ts[x].price)

\* What WithinLimits says of the cash.
Covered(ts, v) ==
    Bearable(ts, v) =>
        100 * (CASH_BALANCE - TotalNotional(Lines(ts, v))) + TotalResult(Shut(ts, v))
            >= 100 * MIN_CASH_REMAINING_GBP

\* The trade that a scan plans fits with those it saw, and with those that are left of
\* them when it is persisted; for that, no other scan may plan at the same time.
Fitting ==
    Undisturbed =>
        /\ \A i \in 1..Len(trades) : BotTrade(trades[i])
        /\ Within(Lines(trades, server)) /\ Covered(trades, server)
        /\ \A a, b \in Scanning : a = b
        /\ \A a \in Scanning : /\ Within(Lines(trades, InsertTrade(plan[a])))
                               /\ Covered(trades, InsertTrade(plan[a]))

\* A trade of the bot is worth a whole number of pounds.
LEMMA BookWorth ==
    ASSUME NEW open, OpenBook(open)
    PROVE  Worth(open) /\ \A t \in open : Notional(t) \in Nat
<1>1. \A q, p \in Nat : q * p \in Nat
    OBVIOUS
<1> QED  BY <1>1 DEF OpenBook, BotTrade, Worth, Notional

\* A part of a book is counted and worth no more than a larger part.
LEMMA LesserPart ==
    ASSUME NEW open, OpenBook(open), NEW part \in SUBSET open, NEW lesser \in SUBSET part
    PROVE  /\ Cardinality(lesser) \in Nat /\ Cardinality(part) \in Nat
           /\ TotalNotional(lesser) \in Nat /\ TotalNotional(part) \in Nat
           /\ Cardinality(lesser) <= Cardinality(part)
           /\ TotalNotional(lesser) <= TotalNotional(part)
<1>1. IsFiniteSet(part) /\ IsFiniteSet(lesser)
    BY FS_Subset DEF OpenBook
<1>2. Worth(part) /\ Worth(lesser)
    BY <1>1, BookWorth DEF Worth
<1> QED  BY <1>1, <1>2, FS_Subset, FS_CardinalityType, NotionalMonotone, NotionalNat

\* A part of a book that gains a trade gains one, and what that is worth.
LEMMA LargerPart ==
    ASSUME NEW open, OpenBook(open), NEW part \in SUBSET open,
           NEW t, t \notin open, Notional(t) \in Nat
    PROVE  /\ Cardinality(part \union {t}) = Cardinality(part) + 1
           /\ TotalNotional(part \union {t}) = TotalNotional(part) + Notional(t)
<1>1. IsFiniteSet(part) /\ t \notin part
    BY FS_Subset DEF OpenBook
<1>2. Cardinality(part \union {t}) = Cardinality(part) + 1
    BY <1>1, FS_AddElement
<1> DEFINE more == part \union {t}
<1>3. Worth(more) /\ Worth(part)
    BY <1>1, BookWorth, FS_AddElement DEF Worth
<1>4. more \ {t} = part /\ t \in more
    BY <1>1
<1> HIDE DEF more
<1>5. TotalNotional(more) = Notional(t) + TotalNotional(more \ {t}) /\ TotalNotional(part) \in Nat
    BY <1>3, <1>4, NotionalSums, NotionalNat
<1>6. TotalNotional(more) = TotalNotional(part) + Notional(t)
    BY <1>4, <1>5
<1> QED  BY <1>2, <1>6 DEF more

\* Fewer open trades keep the limits that more of them keep.
LEMMA FewerWithin ==
    ASSUME NEW open, OpenBook(open), Within(open), NEW fewer \in SUBSET open
    PROVE  Within(fewer)
<1>1. /\ Cardinality(fewer) <= MAX_OPEN_TRADES
      /\ TotalNotional(fewer) <= MAX_CAPITAL_DEPLOYED
    BY LesserPart, LimitsAssumption DEF Within
<1>2. ASSUME NEW side \in Side PROVE Cardinality(OfSide(fewer, side)) <= MAX_SAME_DIRECTION_TRADES
    <2>1. OfSide(fewer, side) \subseteq OfSide(open, side) /\ OfSide(open, side) \subseteq open
        BY DEF OfSide
    <2>2. Cardinality(OfSide(open, side)) <= MAX_SAME_DIRECTION_TRADES
        BY DEF Within
    <2> QED  BY <2>1, <2>2, LesserPart, LimitsAssumption
<1>3. ASSUME NEW t \in fewer
      PROVE  /\ TotalNotional(OfSymbol(fewer, t.symbol)) <= MAX_POSITION_VALUE_GBP
             /\ Cardinality(OfSector(fewer, Sector[t.symbol])) <= MAX_SECTOR_OPEN_TRADES
             /\ TotalNotional(OfSector(fewer, Sector[t.symbol])) <= MAX_SECTOR_EXPOSURE
    <2> DEFINE mine == OfSymbol(open, t.symbol)
               near == OfSector(open, Sector[t.symbol])
    <2>1. OfSymbol(fewer, t.symbol) \subseteq mine /\ mine \subseteq open
        BY DEF OfSymbol
    <2>2. OfSector(fewer, Sector[t.symbol]) \subseteq near /\ near \subseteq open
        BY DEF OfSector
    <2>3. /\ TotalNotional(mine) <= MAX_POSITION_VALUE_GBP
          /\ Cardinality(near) <= MAX_SECTOR_OPEN_TRADES
          /\ TotalNotional(near) <= MAX_SECTOR_EXPOSURE
        BY DEF Within
    <2> HIDE DEF mine, near
    <2>4. TotalNotional(OfSymbol(fewer, t.symbol)) <= MAX_POSITION_VALUE_GBP
        BY <2>1, <2>3, LesserPart, LimitsAssumption
    <2>5. /\ Cardinality(OfSector(fewer, Sector[t.symbol])) <= MAX_SECTOR_OPEN_TRADES
          /\ TotalNotional(OfSector(fewer, Sector[t.symbol])) <= MAX_SECTOR_EXPOSURE
        BY <2>2, <2>3, LesserPart, LimitsAssumption
    <2> QED  BY <2>4, <2>5
<1>4. \A t, u \in fewer : t.symbol = u.symbol =>
          /\ t.side = u.side
          /\ t.id < u.id => t.confidence + MIN_CONFIDENCE_IMPROVEMENT <= u.confidence
    BY DEF Within
<1> QED  BY <1>1, <1>2, <1>3, <1>4 DEF Within

\* What the three tiers of checks ask of a trade next to those that are open.
Admitted(open, t) ==
    /\ Cardinality(open) + 1 <= MAX_OPEN_TRADES
    /\ TotalNotional(open) + Notional(t) <= MAX_CAPITAL_DEPLOYED
    /\ Cardinality(OfSide(open, t.side)) + 1 <= MAX_SAME_DIRECTION_TRADES
    /\ TotalNotional(OfSymbol(open, t.symbol)) + Notional(t) <= MAX_POSITION_VALUE_GBP
    /\ Cardinality(OfSector(open, Sector[t.symbol])) + 1 <= MAX_SECTOR_OPEN_TRADES
    /\ TotalNotional(OfSector(open, Sector[t.symbol])) + Notional(t) <= MAX_SECTOR_EXPOSURE
    /\ \A u \in open : u.symbol = t.symbol =>
          u.side = t.side /\ u.confidence + MIN_CONFIDENCE_IMPROVEMENT <= t.confidence

\* One more trade keeps the limits when it is admitted.
LEMMA OneMoreWithin ==
    ASSUME NEW open, OpenBook(open), Within(open),
           NEW t, BotTrade(t), t.id \in Nat, \A u \in open : u.id < t.id, Admitted(open, t)
    PROVE  Within(open \union {t})
<1> DEFINE more == open \union {t}
<1>1. t \notin open /\ Notional(t) \in Nat
    <2>1. t \notin open
        OBVIOUS
    <2>2. \A q, p \in Nat : q * p \in Nat
        OBVIOUS
    <2> QED  BY <2>1, <2>2 DEF Notional, BotTrade
<1>2. Cardinality(more) <= MAX_OPEN_TRADES /\ TotalNotional(more) <= MAX_CAPITAL_DEPLOYED
    <2>1. /\ Cardinality(more) = Cardinality(open) + 1
          /\ TotalNotional(more) = TotalNotional(open) + Notional(t)
        BY <1>1, LargerPart
    <2> QED  BY <2>1 DEF Admitted
<1>3. ASSUME NEW side \in Side PROVE Cardinality(OfSide(more, side)) <= MAX_SAME_DIRECTION_TRADES
    <2>1. CASE side = t.side
        <3> DEFINE with == OfSide(open, t.side)
        <3>1. OfSide(more, side) = with \union {t} /\ with \subseteq open
            BY <2>1 DEF OfSide
        <3>2. Cardinality(with) + 1 <= MAX_SAME_DIRECTION_TRADES
            BY DEF Admitted
        <3> HIDE DEF with
        <3>3. Cardinality(with \union {t}) = Cardinality(with) + 1
            BY <1>1, <3>1, LargerPart
        <3> QED  BY <3>1, <3>2, <3>3
    <2>2. CASE side # t.side
        <3>1. OfSide(more, side) = OfSide(open, side)
            BY <2>2 DEF OfSide
        <3> QED  BY <3>1 DEF Within
    <2> QED  BY <2>1, <2>2
<1>4. ASSUME NEW u \in more
      PROVE  TotalNotional(OfSymbol(more, u.symbol)) <= MAX_POSITION_VALUE_GBP
    <2>1. CASE u.symbol = t.symbol
        <3> DEFINE mine == OfSymbol(open, t.symbol)
        <3>1. OfSymbol(more, u.symbol) = mine \union {t} /\ mine \subseteq open
            BY <2>1 DEF OfSymbol
        <3>2. TotalNotional(mine \union {t}) = TotalNotional(mine) + Notional(t)
            BY <1>1, <3>1, LargerPart
        <3> QED  BY <3>1, <3>2 DEF Admitted
    <2>2. CASE u.symbol # t.symbol
        <3>1. OfSymbol(more, u.symbol) = OfSymbol(open, u.symbol) /\ u \in open
            BY <2>2 DEF OfSymbol
        <3> QED  BY <3>1 DEF Within
    <2> QED  BY <2>1, <2>2
<1>5. ASSUME NEW u \in more
      PROVE  /\ Cardinality(OfSector(more, Sector[u.symbol])) <= MAX_SECTOR_OPEN_TRADES
             /\ TotalNotional(OfSector(more, Sector[u.symbol])) <= MAX_SECTOR_EXPOSURE
    <2>1. CASE Sector[u.symbol] = Sector[t.symbol]
        <3> DEFINE near == OfSector(open, Sector[t.symbol])
        <3>1. OfSector(more, Sector[u.symbol]) = near \union {t} /\ near \subseteq open
            BY <2>1 DEF OfSector
        <3>2. /\ Cardinality(near) + 1 <= MAX_SECTOR_OPEN_TRADES
              /\ TotalNotional(near) + Notional(t) <= MAX_SECTOR_EXPOSURE
            BY DEF Admitted
        <3> HIDE DEF near
        <3>3. /\ Cardinality(near \union {t}) = Cardinality(near) + 1
              /\ TotalNotional(near \union {t}) = TotalNotional(near) + Notional(t)
            BY <1>1, <3>1, LargerPart
        <3> QED  BY <3>1, <3>2, <3>3
    <2>2. CASE Sector[u.symbol] # Sector[t.symbol]
        <3>1. OfSector(more, Sector[u.symbol]) = OfSector(open, Sector[u.symbol]) /\ u \in open
            BY <2>2 DEF OfSector
        <3> QED  BY <3>1 DEF Within
    <2> QED  BY <2>1, <2>2
<1>6. \A x, y \in more : x.symbol = y.symbol =>
          /\ x.side = y.side
          /\ x.id < y.id => x.confidence + MIN_CONFIDENCE_IMPROVEMENT <= y.confidence
    <2> TAKE x, y \in more
    <2>1. CASE x \in open /\ y \in open
        BY <2>1 DEF Within
    <2>2. CASE x \in open /\ y = t
        BY <2>2 DEF Admitted
    <2>3. CASE x = t /\ y \in open
        <3>1. y.id < t.id /\ y.id \in Nat
            BY <2>3 DEF OpenBook
        <3> QED  BY <2>3, <3>1 DEF Admitted
    <2>4. CASE x = t /\ y = t
        BY <2>4
    <2> QED  BY <2>1, <2>2, <2>3, <2>4
<1> QED  BY <1>2, <1>3, <1>4, <1>5, <1>6 DEF Within

\* What a scan may open: a trade of the bot that passed the tiers.
LEMMA ScanOpens ==
    ASSUME NEW held, NEW paced, NEW scores \in [Symbol -> Score],
           NEW t \in RunBotScan(held, paced, scores, Price)
    PROVE  /\ BotTrade(t) /\ Notional(t) \in Nat /\ Notional(t) <= MAX_POSITION_VALUE_GBP
           /\ \E score \in Score :
                /\ score.confidence = t.confidence
                /\ EvaluatePosition(held, t.symbol \in paced, t.symbol, t.side, score, Notional(t))
                      \in {"NEW_POSITION", "ADD_TO_POSITION"}
           /\ EvaluatePortfolioRisk(held, t.symbol, t.side, Notional(t))
<1>1. PICK s \in Candidates(scores) :
         /\ PassesAllTiers(held, paced, s, scores[s], Price[s])
         /\ t = [symbol |-> s, side |-> SideFor(scores[s]), source |-> "Bot",
                 quantity |-> BotQuantity(Price[s]), price |-> Price[s],
                 confidence |-> scores[s].confidence, agreement |-> scores[s].agreement]
    BY DEF RunBotScan
<1>2. s \in Symbol /\ scores[s] \in Score
    BY DEF Candidates
<1>3. SideFor(scores[s]) \in Side
    BY DEF SideFor, Side
<1>4. /\ BotQuantity(Price[s]) \in Nat
      /\ BotQuantity(Price[s]) * Price[s] \in Nat
      /\ BotQuantity(Price[s]) * Price[s] <= MAX_POSITION_VALUE_GBP
    <2> DEFINE p == Price[s]
    <2>1. p \in Nat \ {0} /\ MAX_NOTIONAL_GBP \in Nat
        BY <1>2, QuotesAssumption, LimitsAssumption
    <2> HIDE DEF p
    <2>2. \A m \in Nat, q \in Nat \ {0} : m \div q \in Nat /\ (m \div q) * q <= m /\ (m \div q) * q \in Nat
        OBVIOUS
    <2>3. /\ MAX_NOTIONAL_GBP \div p \in Nat /\ (MAX_NOTIONAL_GBP \div p) * p \in Nat
          /\ (MAX_NOTIONAL_GBP \div p) * p <= MAX_NOTIONAL_GBP
        BY <2>1, <2>2
    <2> DEFINE q == MAX_NOTIONAL_GBP \div p
               cost == q * p
    <2>4. q \in Nat /\ cost \in Nat /\ cost <= MAX_NOTIONAL_GBP
        BY <2>3
    <2> HIDE DEF q, cost
    <2>5. cost <= MAX_POSITION_VALUE_GBP
        BY <2>4, LimitsAssumption
    <2> QED  BY <2>4, <2>5 DEF BotQuantity, p, q, cost
<1>5. BotTrade(t)
    BY <1>1, <1>2, <1>3, <1>4, QuotesAssumption DEF BotTrade
<1>6. /\ t.symbol = s /\ t.side = SideFor(scores[s]) /\ t.confidence = scores[s].confidence
      /\ Notional(t) = BotQuantity(Price[s]) * Price[s]
    BY <1>1 DEF Notional
<1>7. /\ EvaluatePosition(held, t.symbol \in paced, t.symbol, t.side, scores[s], Notional(t))
            \in {"NEW_POSITION", "ADD_TO_POSITION"}
      /\ EvaluatePortfolioRisk(held, t.symbol, t.side, Notional(t))
    BY <1>1, <1>6, Zenon DEF PassesAllTiers
<1>8. Notional(t) \in Nat /\ Notional(t) <= MAX_POSITION_VALUE_GBP
    BY <1>4, <1>6
<1> QED  BY <1>2, <1>5, <1>6, <1>7, <1>8

\* A position is new, or the bot adds to one it holds and is surer than at its latest trade;
\* either way it stays within the value of a position.
LEMMA PositionGrows ==
    ASSUME NEW held, OpenBook(OpenIn(held)), Within(OpenIn(held)),
           NEW paced, NEW symbol, NEW side \in Side, NEW score \in Score,
           NEW notional \in Nat, notional <= MAX_POSITION_VALUE_GBP,
           EvaluatePosition(held, paced, symbol, side, score, notional)
               \in {"NEW_POSITION", "ADD_TO_POSITION"}
    PROVE  /\ TotalNotional(OfSymbol(OpenIn(held), symbol)) + notional <= MAX_POSITION_VALUE_GBP
           /\ \A u \in OpenIn(held) : u.symbol = symbol =>
                u.side = side /\ u.confidence + MIN_CONFIDENCE_IMPROVEMENT <= score.confidence
<1> DEFINE open == OpenIn(held)
           same == OfSymbol(open, symbol)
           latest == LatestBot(held, symbol, side)
<1>1. \/ same = {}
      \/ /\ OfSide(same, Opposite(side)) = {}
         /\ TotalNotional(OfSide(same, side)) + notional <= MAX_POSITION_VALUE_GBP
         /\ \E t \in latest : score.confidence >= t.confidence + MIN_CONFIDENCE_IMPROVEMENT
    <2> HIDE DEF latest, same
    <2> QED  BY Zenon DEF EvaluatePosition, latest, same
<1>2. CASE same = {}
    <2>1. TotalNotional(same) = 0
        BY <1>2, NotionalSums, FS_EmptySet DEF Worth
    <2>2. \A u \in open : u.symbol # symbol
        BY <1>2 DEF OfSymbol
    <2> HIDE DEF same
    <2>3. TotalNotional(same) + notional <= MAX_POSITION_VALUE_GBP
        BY <2>1
    <2> QED  BY <2>2, <2>3 DEF same
<1>3. ASSUME OfSide(same, Opposite(side)) = {}, NEW u \in same
      PROVE  u.side = side /\ u \in open /\ u.symbol = symbol
    <2>1. u \in open /\ u.symbol = symbol /\ u.side \in Side
        BY DEF OfSymbol, OpenBook, BotTrade
    <2>2. u.side # Opposite(side)
        BY <1>3 DEF OfSide
    <2> QED  BY <2>1, <2>2 DEF Side, Opposite
<1>4. ASSUME OfSide(same, Opposite(side)) = {},
             NEW t \in latest, score.confidence >= t.confidence + MIN_CONFIDENCE_IMPROVEMENT,
             NEW u \in same
      PROVE  u.confidence + MIN_CONFIDENCE_IMPROVEMENT <= score.confidence
    <2>1. u \in open /\ u.symbol = symbol /\ u.side = side
        BY <1>3, <1>4
    <2>2. u.id \in Nat /\ u.confidence \in Int /\ score.confidence \in Int
        BY <2>1, QuotesAssumption DEF OpenBook, BotTrade
    <2>3. /\ t \in open /\ t.symbol = symbol /\ u.id <= t.id
          /\ t.id \in Nat /\ t.confidence \in Int
        BY <1>4, <2>1, <2>2 DEF LatestBot, OpenBook, BotTrade
    <2>4. CASE u.id < t.id
        <3>1. u.confidence + MIN_CONFIDENCE_IMPROVEMENT <= t.confidence
            BY <2>1, <2>3, <2>4 DEF Within
        <3> HIDE DEF latest
        <3> QED  BY <1>4, <2>2, <2>3, <3>1, LimitsAssumption
    <2>5. CASE u.id = t.id
        <3>1. u = t
            BY <2>1, <2>3, <2>5 DEF OpenBook
        <3> QED  BY <1>4, <3>1
    <2> QED  BY <2>2, <2>3, <2>4, <2>5
<1>5. ASSUME OfSide(same, Opposite(side)) = {} PROVE OfSide(same, side) = same
    <2>1. \A u \in same : u.side = side
        BY <1>3, <1>5
    <2> HIDE DEF same
    <2> QED  BY <2>1 DEF OfSide
<1>6. \A u \in open : u.symbol = symbol => u \in same
    BY DEF OfSymbol
<1> HIDE DEF latest, same
<1> QED  BY <1>1, <1>2, <1>3, <1>4, <1>5, <1>6 DEF same

\* What a scan that saw the open trades of the server plans, fits with them.
LEMMA PlanFits ==
    ASSUME NEW held, OpenBook(OpenIn(held)), Within(OpenIn(held)),
           NEW paced, NEW scores \in [Symbol -> Score],
           NEW t \in RunBotScan(held, paced, scores, Price),
           NEW new, BotTrade(new), new.id \in Nat, \A u \in OpenIn(held) : u.id < new.id,
           new.symbol = t.symbol, new.side = t.side, new.confidence = t.confidence,
           new.quantity = t.quantity, new.price = t.price
    PROVE  /\ Within(OpenIn(held) \union {new})
           /\ AvailableCash(held) - 100 * Notional(new) >= 100 * MIN_CASH_REMAINING_GBP
<1>1. PICK score \in Score :
          /\ score.confidence = t.confidence
          /\ EvaluatePosition(held, t.symbol \in paced, t.symbol, t.side, score, Notional(t))
                \in {"NEW_POSITION", "ADD_TO_POSITION"}
    BY ScanOpens
<1>2. /\ BotTrade(t) /\ EvaluatePortfolioRisk(held, t.symbol, t.side, Notional(t))
      /\ Notional(t) \in Nat /\ Notional(t) <= MAX_POSITION_VALUE_GBP
    BY ScanOpens
<1>3. Notional(new) = Notional(t)
    BY DEF Notional
<1>4. /\ TotalNotional(OfSymbol(OpenIn(held), t.symbol)) + Notional(t) <= MAX_POSITION_VALUE_GBP
      /\ \A u \in OpenIn(held) : u.symbol = t.symbol =>
            u.side = t.side /\ u.confidence + MIN_CONFIDENCE_IMPROVEMENT <= score.confidence
    BY <1>1, <1>2, PositionGrows DEF BotTrade
<1>5. Admitted(OpenIn(held), new)
    BY <1>1, <1>2, <1>3, <1>4 DEF EvaluatePortfolioRisk, Admitted
<1>6. AvailableCash(held) - 100 * Notional(new) >= 100 * MIN_CASH_REMAINING_GBP
    BY <1>2, <1>3 DEF EvaluatePortfolioRisk
<1> QED  BY <1>5, <1>6, OneMoreWithin

\* The open trades a scan reads are the lines of the server.
LEMMA BookIsLines ==
    ASSUME Typed, NEW v \in [Trade -> Row]
    PROVE  OpenIn(Book(v)) = Lines(trades, v)
<1>1. Len(trades) \in Nat /\ 1..Len(trades) \subseteq Trade
    BY LenProperties, PaperBotAssumption DEF Typed, TypeOK, Trade
<1>2. \A u \in 1..Len(trades) : v[u] \in Row
    BY <1>1
<1>3. \A u \in 1..Len(trades) :
         /\ v[u].state = "Open" <=> v[u] = Open
         /\ v[u] = Open => v[u] # Absent /\ v[u].pnl = 0
    BY <1>2 DEF Row, Absent, Open, Closed
<1> QED  BY <1>3 DEF OpenIn, Book, Lines, Line, Open

\* And the closed trades it reads are the settled ones.
LEMMA BookIsShut ==
    ASSUME Typed, NEW v \in [Trade -> Row]
    PROVE  ClosedIn(Book(v)) = Shut(trades, v)
<1>1. Len(trades) \in Nat /\ 1..Len(trades) \subseteq Trade
    BY LenProperties, PaperBotAssumption DEF Typed, TypeOK, Trade
<1>2. \A u \in 1..Len(trades) : v[u].state = "Closed" => v[u] # Absent
    BY DEF Absent
<1> QED  BY <1>2 DEF ClosedIn, Book, Shut, Settled

\* The results of a ledger can be added up.
LEMMA ShutAddsUp ==
    ASSUME NEW ts, Len(ts) \in Nat, 1..Len(ts) \subseteq Trade, NEW v \in [Trade -> Row]
    PROVE  IsFiniteSet(Shut(ts, v)) /\ \A c \in Shut(ts, v) : Result(c) \in Int
<1> DEFINE I == {x \in 1..Len(ts) : v[x].state = "Closed"}
<1>1. IsFiniteSet(I)
    <2>1. IsFiniteSet(1..Len(ts)) /\ I \subseteq 1..Len(ts)
        BY FS_Interval
    <2> QED  BY <2>1, FS_Subset
<1>2. IsFiniteSet(Shut(ts, v))
    <2> DEFINE f == [x \in I |-> Settled(ts, v, x)]
    <2>1. Shut(ts, v) = {Settled(ts, v, u) : u \in I}
        BY DEF Shut
    <2> HIDE DEF I
    <2>2. f \in Surjection(I, Shut(ts, v))
        BY <2>1 DEF Surjection
    <2> HIDE DEF f
    <2> QED  BY <1>1, <2>2, FS_Surjection
<1>3. ASSUME NEW x \in I PROVE v[x].pnl \in Int
    <2>1. v[x] \in Row /\ v[x].state = "Closed"
        OBVIOUS
    <2>2. PICK pnl \in Pnl : v[x] = Closed(pnl)
        BY <2>1 DEF Row, Absent, Open
    <2> QED  BY <2>2, PaperBotAssumption DEF Closed
<1>4. \A c \in Shut(ts, v) : Result(c) \in Int
    BY <1>3 DEF Shut, Settled, Result
<1> QED  BY <1>2, <1>4

\* Lines of a ledger of trades of the bot are a book.
LEMMA LinesAreBook ==
    ASSUME NEW ts, Len(ts) \in Nat, NEW v, \A i \in 1..Len(ts) : BotTrade(ts[i])
    PROVE  OpenBook(Lines(ts, v))
<1> DEFINE I == {x \in 1..Len(ts) : v[x] = Open}
<1>1. IsFiniteSet(I)
    <2>1. IsFiniteSet(1..Len(ts))
        BY FS_Interval
    <2>2. I \subseteq 1..Len(ts)
        OBVIOUS
    <2> QED  BY <2>1, <2>2, FS_Subset
<1>2. IsFiniteSet(Lines(ts, v))
    <2> DEFINE f == [x \in I |-> Line(ts, x)]
    <2>1. Lines(ts, v) = {Line(ts, u) : u \in I}
        BY DEF Lines
    <2> HIDE DEF I
    <2>2. f \in Surjection(I, Lines(ts, v))
        BY <2>1 DEF Surjection
    <2> HIDE DEF f
    <2> QED  BY <1>1, <2>2, FS_Surjection
<1>3. \A t \in Lines(ts, v) : BotTrade(t) /\ t.id \in Nat
    BY DEF Lines, Line, BotTrade
<1>4. \A t, u \in Lines(ts, v) : t.id = u.id => t = u
    BY DEF Lines, Line
<1> QED  BY <1>2, <1>3, <1>4 DEF OpenBook

\* No step undoes what disturbed the account.
LEMMA DisturbedStays == Typed /\ [Next]_vars /\ Undisturbed' => Undisturbed
<1> SUFFICES ASSUME Typed, [Next]_vars, ~Undisturbed PROVE ~Undisturbed'
    OBVIOUS
<1>1. past \in History
    BY DEF Typed
<1>2. ASSUME \/ past' = past \/ Fault
             \/ \E b \in BOOLEAN : past' = [past EXCEPT !.overlapped = @ \/ b]
      PROVE  ~Undisturbed'
    <2>1. CASE past' = past
        BY <2>1 DEF Undisturbed
    <2>2. CASE Fault
        BY <1>1, <2>2 DEF Undisturbed, Fault, History
    <2>3. CASE \E b \in BOOLEAN : past' = [past EXCEPT !.overlapped = @ \/ b]
        BY <1>1, <2>3 DEF Undisturbed, History
    <2> QED  BY <1>2, <2>1, <2>2, <2>3
<1>3. ASSUME NEW a, RunScan(a) PROVE ~Undisturbed'
    <2>1. \E b \in BOOLEAN : past' = [past EXCEPT !.overlapped = @ \/ b]
        BY <1>3 DEF RunScan
    <2> QED  BY <1>2, <2>1
<1>4. ASSUME NEW w \in Worker, Poll(w) PROVE ~Undisturbed'
    <2>1. RunScan(w) \/ past' = past \/ Fault
        BY <1>4 DEF Poll, FetchDueSchedules, ClaimScheduleLock, PersistTrade, PersistDecisionRecords,
                    ReleaseScheduleLock, Reconcile
    <2> QED  BY <1>2, <1>3, <2>1
<1>5. ASSUME NEW w, WorkerTrouble(w) PROVE ~Undisturbed'
    BY <1>2, <1>5 DEF WorkerTrouble, ScanFails, ReleaseFails, ReconcileFails, WorkerDies
<1>6. ASSUME Time PROVE ~Undisturbed'
    BY <1>2, <1>6 DEF Time, ScheduleComesDue, LockGoesStale, TradeAges
<1>7. ASSUME Tab PROVE ~Undisturbed'
    <2>1. CASE RunScan(Browser)
        BY <1>3, <2>1
    <2>2. CASE \/ BrowserStartsScan \/ BrowserPersistsTrade \/ BrowserFilesRecords
               \/ BrowserReconciles \/ Reload \/ \E on \in BOOLEAN : SaveSchedule(on)
        BY <1>2, <2>2, Zenon DEF BrowserStartsScan, BrowserPersistsTrade, BrowserFilesRecords,
              BrowserReconciles, Reload, SaveSchedule, Written
    <2>3. CASE \E signal \in Signal : OpenFromSignal(signal.symbol, signal.side)
        <3>1. \/ past' = [past EXCEPT !.manual = TRUE]
              \/ past' = [past EXCEPT !.faults = @ + 1, !.manual = TRUE]
            BY <2>3 DEF OpenFromSignal
        <3> QED  BY <1>1, <3>1 DEF Undisturbed, History
    <2>4. CASE \E t \in Trade, pnl \in Pnl : CloseTrade(t, pnl)
        <3>1. \E t : \/ past' = past \/ past' = [past EXCEPT !.faults = @ + 1]
                     \/ past' = [past EXCEPT !.strayed = @ \union {t}]
                     \/ past' = [past EXCEPT !.faults = @ + 1, !.strayed = @ \union {t}]
            BY <2>4 DEF CloseTrade, Fault
        <3> QED  BY <1>1, <3>1 DEF Undisturbed, History
    <2> QED  BY <1>7, <2>1, <2>2, <2>3, <2>4 DEF Tab
<1>8. CASE UNCHANGED vars
    BY <1>8 DEF vars, Undisturbed
<1> QED  BY <1>4, <1>5, <1>6, <1>7, <1>8 DEF Next

\* Of a ledger's lines, the fewer that are open fit as well.
LEMMA FewerLines ==
    ASSUME NEW ts, Len(ts) \in Nat, \A i \in 1..Len(ts) : BotTrade(ts[i]),
           NEW v, Within(Lines(ts, v)),
           NEW w, \A x \in 1..Len(ts) : w[x] = Open => v[x] = Open
    PROVE  Within(Lines(ts, w))
<1>1. Lines(ts, w) \subseteq Lines(ts, v)
    BY DEF Lines
<1> QED  BY <1>1, LinesAreBook, FewerWithin

\* A close frees what the trade was worth, and costs no more unless its loss was larger.
LEMMA CloseCovers ==
    ASSUME NEW ts, Len(ts) \in Nat, 1..Len(ts) \subseteq Trade,
           \A i \in 1..Len(ts) : BotTrade(ts[i]),
           NEW v \in [Trade -> Row], Covered(ts, v),
           NEW t \in Trade, v[t] = Open, NEW pnl \in Pnl
    PROVE  Covered(ts, [v EXCEPT ![t] = Closed(pnl)])
<1> DEFINE w == [v EXCEPT ![t] = Closed(pnl)]
<1> SUFFICES ASSUME Bearable(ts, w)
             PROVE  100 * (CASH_BALANCE - TotalNotional(Lines(ts, w))) + TotalResult(Shut(ts, w))
                        >= 100 * MIN_CASH_REMAINING_GBP
    BY DEF Covered
<1>1. /\ \A x \in 1..Len(ts) : x # t => w[x] = v[x]
      /\ w[t] = Closed(pnl) /\ w \in [Trade -> Row]
    BY DEF Row
<1>2. CASE t \notin 1..Len(ts)
    <2> HIDE DEF w
    <2>1. \A x \in 1..Len(ts) : w[x] = v[x]
        BY <1>1, <1>2
    <2>2. Lines(ts, w) = Lines(ts, v) /\ Shut(ts, w) = Shut(ts, v) /\ Bearable(ts, v)
        BY <2>1 DEF Lines, Shut, Settled, Bearable
    <2> QED  BY <2>2 DEF Covered
<1>3. CASE t \in 1..Len(ts)
    <2> HIDE DEF w
    <2> DEFINE line == Line(ts, t)
               paid == ts[t].quantity * ts[t].price
               settled == Settled(ts, w, t)
    <2>1. Lines(ts, w) = Lines(ts, v) \ {line} /\ line \in Lines(ts, v)
        BY <1>1, <1>3 DEF Lines, Line, Open, Closed
    <2>2. Shut(ts, v) = Shut(ts, w) \ {settled} /\ settled \in Shut(ts, w)
        BY <1>1, <1>3 DEF Shut, Settled, Open, Closed
    <2>3. Notional(line) = paid /\ Result(settled) = pnl /\ pnl \in Int /\ paid \in Nat
        <3>1. \A q, r \in Nat : q * r \in Nat
            OBVIOUS
        <3> QED  BY <1>1, <1>3, <3>1, PaperBotAssumption
                 DEF Notional, Line, Result, Settled, Closed, BotTrade
    <2>4. Bearable(ts, v) /\ pnl >= -100 * paid
        <3>1. \A x \in 1..Len(ts) : v[x] # Absent =>
                  x = t \/ v[x].pnl >= -100 * (ts[x].quantity * ts[x].price)
            BY <1>1 DEF Bearable
        <3>2. w[t] # Absent /\ w[t].pnl = pnl
            BY <1>1 DEF Closed, Absent
        <3>3. pnl >= -100 * paid
            BY <1>3, <3>2 DEF Bearable
        <3>4. v[t].pnl = 0 /\ 0 >= -100 * paid
            BY <2>3 DEF Open
        <3> QED  BY <3>1, <3>3, <3>4 DEF Bearable
    <2> HIDE DEF line, paid, settled
    <2>5. /\ TotalNotional(Lines(ts, v)) = paid + TotalNotional(Lines(ts, w))
          /\ TotalNotional(Lines(ts, w)) \in Int
        <3>1. Worth(Lines(ts, v)) /\ Worth(Lines(ts, w))
            BY LinesAreBook, BookWorth
        <3> QED  BY <2>1, <2>3, <3>1, NotionalSums
    <2>6. /\ TotalResult(Shut(ts, w)) = pnl + TotalResult(Shut(ts, v))
          /\ TotalResult(Shut(ts, v)) \in Int
        <3>1. /\ IsFiniteSet(Shut(ts, v)) /\ \A c \in Shut(ts, v) : Result(c) \in Int
              /\ IsFiniteSet(Shut(ts, w)) /\ \A c \in Shut(ts, w) : Result(c) \in Int
            BY <1>1, ShutAddsUp
        <3> QED  BY <2>2, <2>3, <3>1, ResultSums
    <2>7. 100 * (CASH_BALANCE - TotalNotional(Lines(ts, v))) + TotalResult(Shut(ts, v))
              >= 100 * MIN_CASH_REMAINING_GBP
        BY <2>4 DEF Covered
    <2> DEFINE left == TotalNotional(Lines(ts, w))
               won  == TotalResult(Shut(ts, v))
    <2> HIDE DEF left, won
    <2>8. \A c, m, a, b, r, p \in Int :
              p >= -100 * b /\ 100 * (c - (b + a)) + r >= 100 * m =>
                 100 * (c - a) + (p + r) >= 100 * m
        OBVIOUS
    <2>9. CASH_BALANCE \in Int /\ MIN_CASH_REMAINING_GBP \in Int
        BY LimitsAssumption
    <2>10. left \in Int /\ won \in Int
        BY <2>5, <2>6 DEF left, won
    <2>11. 100 * (CASH_BALANCE - (paid + left)) + won >= 100 * MIN_CASH_REMAINING_GBP
        BY <2>5, <2>7 DEF left, won
    <2>12. 100 * (CASH_BALANCE - left) + (pnl + won) >= 100 * MIN_CASH_REMAINING_GBP
        BY <2>3, <2>4, <2>8, <2>9, <2>10, <2>11
    <2> QED  BY <2>6, <2>12 DEF left, won
<1> QED  BY <1>2, <1>3

\* A step that opens nothing: no trade is built, at most one is closed, no scan starts to
\* persist.
LEMMA NothingOpens ==
    ASSUME Typed, Fitting, Undisturbed' => Undisturbed, trades' = trades,
           \/ server' = server
           \/ \E t \in Trade, pnl \in Pnl : server[t] = Open /\ server' = UpdateTrade(t, pnl),
           \A a \in Actor : pc'[a] = "persist" => pc[a] = "persist" /\ plan'[a] = plan[a]
    PROVE  Fitting'
<1> SUFFICES ASSUME Undisturbed' PROVE Fitting'
    BY DEF Fitting
<1> DEFINE Kept(v) == Within(Lines(trades, v)) /\ Covered(trades, v)
<1>1. /\ Len(trades) \in Nat /\ 1..Len(trades) \subseteq Trade
      /\ server \in [Trade -> Row]
    BY LenProperties, PaperBotAssumption DEF Typed, TypeOK, Trade
<1>2. /\ \A i \in 1..Len(trades) : BotTrade(trades[i])
      /\ Kept(server) /\ \A a, b \in Scanning : a = b
      /\ \A a \in Scanning : Kept(InsertTrade(plan[a]))
    BY DEF Fitting
<1>3. ASSUME NEW v \in [Trade -> Row], Kept(v), NEW t \in Trade, v[t] = Open, NEW pnl \in Pnl
      PROVE  Kept([v EXCEPT ![t] = Closed(pnl)])
    <2>1. Covered(trades, [v EXCEPT ![t] = Closed(pnl)])
        BY <1>1, <1>2, <1>3, CloseCovers
    <2> DEFINE w == [v EXCEPT ![t] = Closed(pnl)]
    <2>2. \A x \in 1..Len(trades) : w[x] = Open => v[x] = Open
        BY <1>1, <1>3
    <2> HIDE DEF w
    <2>3. Within(Lines(trades, w))
        BY <1>1, <1>2, <1>3, <2>2, FewerLines
    <2> QED  BY <2>1, <2>3 DEF w
<1>4. Kept(server')
    <2> HIDE DEF Kept
    <2> QED  BY <1>1, <1>2, <1>3 DEF UpdateTrade
<1>5. \A a \in Scanning' : a \in Scanning /\ plan'[a] = plan[a]
    BY DEF Scanning
<1>6. ASSUME NEW a \in Scanning' PROVE Kept(InsertTrade(plan[a])')
    <2>1. plan'[a] = plan[a] /\ Kept(InsertTrade(plan[a])) /\ InsertTrade(plan[a]) \in [Trade -> Row]
        BY <1>1, <1>2, <1>5 DEF InsertTrade, Row
    <2>2. CASE server' = server
        <3>1. InsertTrade(plan[a])' = InsertTrade(plan[a])
            BY <2>1, <2>2 DEF InsertTrade
        <3> HIDE DEF Kept
        <3> QED  BY <2>1, <3>1
    <2>3. ASSUME NEW t \in Trade, NEW pnl \in Pnl, server[t] = Open, server' = UpdateTrade(t, pnl)
          PROVE  Kept(InsertTrade(plan[a])')
        <3>1. CASE t = plan[a]
            <4>1. InsertTrade(plan[a])' = InsertTrade(plan[a])
                BY <1>1, <2>1, <2>3, <3>1 DEF InsertTrade, UpdateTrade
            <4> HIDE DEF Kept
            <4> QED  BY <2>1, <4>1
        <3>2. CASE t # plan[a]
            <4>1. InsertTrade(plan[a])' = [InsertTrade(plan[a]) EXCEPT ![t] = Closed(pnl)]
                BY <1>1, <2>1, <2>3, <3>2 DEF InsertTrade, UpdateTrade
            <4>2. InsertTrade(plan[a])[t] = Open
                BY <1>1, <2>3, <3>2 DEF InsertTrade
            <4> HIDE DEF Kept
            <4> QED  BY <1>3, <2>1, <4>1, <4>2
        <3> QED  BY <3>1, <3>2
    <2> HIDE DEF Kept
    <2> QED  BY <2>2, <2>3
<1> QED  BY <1>2, <1>4, <1>5, <1>6 DEF Fitting

\* A planned trade that reaches the server, or does not.
LEMMA PlanPersists ==
    ASSUME Typed, Fitting, Undisturbed' => Undisturbed, trades' = trades,
           NEW a \in Actor, pc[a] = "persist", server' \in {server, InsertTrade(plan[a])},
           \A b \in Actor : pc'[b] = "persist" => b # a /\ pc[b] = "persist"
    PROVE  Fitting'
<1> SUFFICES ASSUME Undisturbed' PROVE Fitting'
    BY DEF Fitting
<1>1. /\ \A i \in 1..Len(trades) : BotTrade(trades[i])
      /\ Within(Lines(trades, server)) /\ Covered(trades, server)
      /\ Within(Lines(trades, InsertTrade(plan[a]))) /\ Covered(trades, InsertTrade(plan[a]))
      /\ \A b, c \in Scanning : b = c
    BY DEF Fitting, Scanning
<1>2. Within(Lines(trades, server')) /\ Covered(trades, server')
    BY <1>1
<1>3. Scanning' = {}
    BY <1>1 DEF Scanning
<1> QED  BY <1>1, <1>2, <1>3 DEF Fitting

\* A scan that decides alone, on what the server has, plans a trade that fits.
LEMMA ScanFits ==
    ASSUME Account, Fitting, Undisturbed' => Undisturbed, NEW a \in Actor, RunScan(a)
    PROVE  Fitting'
<1> USE DEF tables, tab, book, Go
<1>1. pc[a] = "claimed" /\ server' = server
    BY DEF RunScan
<1>2. CASE UNCHANGED <<trades, plan>> /\ pc' = [pc EXCEPT ![a] = "file"]
    BY <1>1, <1>2, NothingOpens DEF Account, Typed, TypeOK
<1>3. CASE ~(UNCHANGED <<trades, plan>> /\ pc' = [pc EXCEPT ![a] = "file"])
    <2> SUFFICES ASSUME Undisturbed' PROVE Fitting'
        BY DEF Fitting
    <2> DEFINE seen == IF a = Browser THEN shown ELSE server
    <2>0. PICK scores \in Scores[active] :
              \E t \in RunBotScan(Book(seen), Paced(seen), scores, Price) :
                  /\ Len(trades) < MaxTradesIn[active]
                  /\ trades' = Append(trades, t)
                  /\ plan' = [plan EXCEPT ![a] = Len(trades')]
                  /\ pc' = [pc EXCEPT ![a] = "persist"]
        BY <1>3, Zenon DEF RunScan
    <2>s. scores \in [Symbol -> Score]
        <3>1. active \in Deployment
            BY DEF Account, Typed, TypeOK
        <3>2. \A s \in Symbol : scores[s] \in Score
            BY <2>0, <3>1 DEF Score
        <3>3. PICK reported \in Evidence[active] : scores = [s \in Symbol |-> Aggregate(reported[s])]
            BY <2>0, <3>1 DEF Scores
        <3> QED  BY <3>2, <3>3
    <2>1. PICK t \in RunBotScan(Book(seen), Paced(seen), scores, Price) :
              /\ Len(trades) < MaxTradesIn[active]
              /\ trades' = Append(trades, t)
              /\ plan' = [plan EXCEPT ![a] = Len(trades')]
              /\ pc' = [pc EXCEPT ![a] = "persist"]
        BY <2>0
    <2>2. Scanning = {} /\ seen = server
        <3>1. past' = [past EXCEPT !.overlapped = @ \/ Scanning # {} \/ seen # server]
            BY DEF RunScan
        <3>2. past \in History /\ ~past'.overlapped
            BY DEF Account, Typed, Undisturbed
        <3> HIDE DEF seen
        <3> QED  BY <3>1, <3>2 DEF History
    <2> DEFINE n == Len(trades) + 1
               open == OpenIn(Book(server))
               new == Line(trades', n)
    <2>3. /\ Keeps(trades') /\ n \in Trade /\ n <= MaxTrades
          /\ Len(trades) \in Nat /\ Len(trades') = n
          /\ \A i \in 1..Len(trades) : trades'[i] = trades[i] /\ i # n
        <3>1. Keeps(trades') /\ Len(trades) + 1 \in Trade /\ Len(trades) + 1 <= MaxTrades
            BY <2>1, AppendKeeps, RoomLeft DEF Account
        <3>2. /\ Len(trades) \in Nat /\ Len(trades') = Len(trades) + 1
              /\ \A i \in 1..Len(trades) : trades'[i] = trades[i]
            BY <3>1 DEF Keeps
        <3> QED  BY <3>1, <3>2
    <2>4. trades'[n] = t
        <3> DEFINE S == {trades[i] : i \in DOMAIN trades} \union {t}
        <3>1. trades \in Seq(S) /\ t \in S
            BY SeqMonotonic DEF Account, Typed
        <3> HIDE DEF S
        <3> QED  BY <2>1, <3>1
    <2>5. server \in [Trade -> Row] /\ server[n] = Absent
        BY <2>3 DEF Account, Fresh, Typed, TypeOK
    <2>6. t \in RunBotScan(Book(server), Paced(server), scores, Price)
        BY <2>1, <2>2
    <2>7. /\ \A i \in 1..Len(trades) : BotTrade(trades[i])
          /\ Within(Lines(trades, server))
        BY DEF Fitting
    <2>8. open = Lines(trades, server) /\ OpenBook(open) /\ Within(open)
        BY <2>3, <2>5, <2>7, BookIsLines, LinesAreBook DEF Account
    <2> HIDE DEF n
    <2>9. /\ new.id = n /\ new.symbol = t.symbol /\ new.side = t.side /\ new.confidence = t.confidence
          /\ new.quantity = t.quantity /\ new.price = t.price /\ new.source = t.source
          /\ BotTrade(t) /\ BotTrade(new)
        BY <2>s, <2>4, <2>6, ScanOpens DEF Line, BotTrade
    <2>10. \A u \in open : u.id < new.id
        BY <2>3, <2>8, <2>9 DEF Lines, Line, n
    <2>11. /\ Within(open \union {new})
           /\ AvailableCash(Book(server)) - 100 * Notional(new) >= 100 * MIN_CASH_REMAINING_GBP
        <3> DEFINE held == Book(server)
                   paced == Paced(server)
        <3>1. /\ OpenBook(OpenIn(held)) /\ Within(OpenIn(held)) /\ scores \in [Symbol -> Score]
              /\ t \in RunBotScan(held, paced, scores, Price)
            BY <2>s, <2>6, <2>8
        <3>2. new.id \in Nat
            BY <2>3, <2>9 DEF Trade
        <3>3. \A u \in OpenIn(held) : u.id < new.id
            BY <2>10
        <3> HIDE DEF new, held, paced
        <3>4. /\ Within(OpenIn(held) \union {new})
              /\ AvailableCash(held) - 100 * Notional(new) >= 100 * MIN_CASH_REMAINING_GBP
            BY <2>9, <3>1, <3>2, <3>3, PlanFits
        <3> QED  BY <3>4 DEF held
    <2>12. Lines(trades', server) = open
        BY <2>3, <2>5, <2>8 DEF Lines, Line, n, Absent, Open
    <2>13. Lines(trades', [server EXCEPT ![n] = Open]) = open \union {new}
        <3> DEFINE v == [server EXCEPT ![n] = Open]
        <3>1. \A x \in 1..Len(trades') : v[x] = Open <=> x = n \/ (x \in 1..Len(trades) /\ server[x] = Open)
            BY <2>3, <2>5 DEF n, Trade
        <3>2. n \in 1..Len(trades') /\ 1..Len(trades) \subseteq 1..Len(trades')
            BY <2>3 DEF n
        <3>3. \A x \in 1..Len(trades) : Line(trades', x) = Line(trades, x)
            BY <2>3 DEF Line
        <3> HIDE DEF v
        <3>4. Lines(trades', v) = {Line(trades', x) : x \in {y \in 1..Len(trades) : server[y] = Open}} \union {new}
            BY <3>1, <3>2 DEF Lines
        <3> QED  BY <2>8, <3>3, <3>4 DEF Lines, v
    <2>14. \A b \in Scanning' : b = a /\ plan'[b] = n
        BY <2>1, <2>2, <2>3 DEF Scanning, Account, Typed, TypeOK
    <2>15. \A b \in Scanning' : InsertTrade(plan[b])' = [server EXCEPT ![n] = Open]
        BY <1>1, <2>14 DEF InsertTrade
    <2>16. \A i \in 1..Len(trades') : BotTrade(trades'[i])
        <3>1. \A i \in 1..Len(trades') : i = n \/ i \in 1..Len(trades)
            BY <2>3 DEF n
        <3> QED  BY <2>3, <2>4, <2>7, <2>9, <3>1
    <2>17. /\ Shut(trades', server) = Shut(trades, server)
           /\ Shut(trades', [server EXCEPT ![n] = Open]) = Shut(trades, server)
        <3> DEFINE v == [server EXCEPT ![n] = Open]
        <3>1. /\ \A x \in 1..Len(trades) : Settled(trades', server, x) = Settled(trades, server, x)
              /\ \A x \in 1..Len(trades) : Settled(trades', v, x) = Settled(trades, server, x)
            BY <2>3, <2>5 DEF Settled, n, Trade
        <3>2. /\ \A x \in 1..Len(trades') : server[x].state = "Closed" <=>
                       x \in 1..Len(trades) /\ server[x].state = "Closed"
              /\ \A x \in 1..Len(trades') : v[x].state = "Closed" <=>
                       x \in 1..Len(trades) /\ server[x].state = "Closed"
              /\ 1..Len(trades) \subseteq 1..Len(trades')
            BY <2>3, <2>5 DEF n, Trade, Absent, Open
        <3> HIDE DEF v
        <3> QED  BY <3>1, <3>2 DEF Shut, v
    <2>18. /\ Covered(trades', server)
           /\ Covered(trades', [server EXCEPT ![n] = Open])
        <3> DEFINE worth == TotalNotional(open)
                   won == TotalResult(Shut(trades, server))
                   cost == Notional(new)
        <3>1. AvailableCash(Book(server)) = 100 * (CASH_BALANCE - worth) + won
            BY <2>5, BookIsShut DEF AvailableCash, Account
        <3>2. cost \in Nat /\ new \notin open
            <4>1. \A q, r \in Nat : q * r \in Nat
                OBVIOUS
            <4>2. new.id \in Nat
                BY <2>3, <2>9 DEF Trade
            <4> HIDE DEF new
            <4> QED  BY <2>9, <2>10, <4>1, <4>2 DEF Notional, BotTrade
        <3>3. TotalNotional(open \union {new}) = worth + cost /\ worth \in Nat
            <4>1. open \subseteq open
                OBVIOUS
            <4> HIDE DEF open, new
            <4> QED  BY <2>8, <3>2, <4>1, LargerPart, LesserPart
        <3>4. won \in Int
            <4>1. Len(trades) \in Nat /\ 1..Len(trades) \subseteq Trade
                BY LenProperties, PaperBotAssumption DEF Account, Typed, TypeOK, Trade
            <4> QED  BY <2>5, <4>1, ShutAddsUp, ResultSums
        <3> HIDE DEF worth, won, open, new
        <3>5. 100 * (CASH_BALANCE - worth) + won - 100 * cost >= 100 * MIN_CASH_REMAINING_GBP
            BY <2>11, <3>1, <3>2, <3>3, <3>4, LimitsAssumption
        <3> HIDE DEF cost
        <3>6. /\ 100 * (CASH_BALANCE - worth) + won >= 100 * MIN_CASH_REMAINING_GBP
              /\ 100 * (CASH_BALANCE - (worth + cost)) + won >= 100 * MIN_CASH_REMAINING_GBP
            BY <3>2, <3>3, <3>4, <3>5, LimitsAssumption
        <3> QED  BY <2>12, <2>13, <2>17, <3>3, <3>6 DEF Covered, worth, won
    <2> QED  BY <1>1, <2>8, <2>11, <2>12, <2>13, <2>14, <2>15, <2>16, <2>18 DEF Fitting
<1> QED  BY <1>2, <1>3

\* The browser shows no trade open that the server has closed: at most one it never got.
Mirrors == \A t \in Trade : shown[t] = Open => server[t] \in {Open, Absent}

\* Whoever acts, the browser's copy stays one.
LEMMA MirrorsInductive == Account /\ Mirrors /\ [Next]_vars => Mirrors'
<1> SUFFICES ASSUME Account, Mirrors, [Next]_vars PROVE Mirrors'
    OBVIOUS
<1> USE DEF tables, tab, book, actors, schedule
<1>1. server \in [Trade -> Row] /\ shown \in [Trade -> Row]
    BY DEF Account, Typed, TypeOK
<1>2. ASSUME shown' = shown, server' = server \/ \E t : server' = InsertTrade(t)
      PROVE  Mirrors'
    BY <1>1, <1>2 DEF Mirrors, InsertTrade
<1>3. ASSUME NEW w \in Worker, Poll(w) PROVE Mirrors'
    <2>1. shown' = shown /\ (server' = server \/ \E t : server' = InsertTrade(t))
        BY <1>3 DEF Poll, FetchDueSchedules, ClaimScheduleLock, RunScan, PersistTrade,
                    PersistDecisionRecords, ReleaseScheduleLock, Reconcile
    <2> QED  BY <1>2, <2>1
<1>4. ASSUME NEW w, WorkerTrouble(w) PROVE Mirrors'
    BY <1>2, <1>4 DEF WorkerTrouble, ScanFails, ReleaseFails, ReconcileFails, WorkerDies
<1>5. ASSUME Time \/ UNCHANGED vars PROVE Mirrors'
    BY <1>2, <1>5 DEF Time, ScheduleComesDue, LockGoesStale, TradeAges, vars
<1>6. ASSUME Tab PROVE Mirrors'
    <2>1. CASE \/ BrowserStartsScan \/ RunScan(Browser) \/ BrowserFilesRecords \/ BrowserReconciles
               \/ \E on \in BOOLEAN : SaveSchedule(on)
        <3>1. shown' = shown /\ server' = server
            BY <2>1, Zenon DEF BrowserStartsScan, RunScan, BrowserFilesRecords, BrowserReconciles,
                  SaveSchedule
        <3> QED  BY <1>2, <3>1
    <2>2. CASE BrowserPersistsTrade
        <3>1. /\ pc[Browser] = "persist" /\ shown' = [shown EXCEPT ![plan[Browser]] = Open]
              /\ server' \in {server, InsertTrade(plan[Browser])}
            BY <2>2, Zenon DEF BrowserPersistsTrade, Written
        <3>2. plan[Browser] \in Trade /\ server[plan[Browser]] = Absent
            BY <3>1 DEF Account, Planned, Typed, TypeOK, Actor
        <3> QED  BY <1>1, <3>1, <3>2 DEF Mirrors, InsertTrade
    <2>3. CASE Reload
        BY <2>3 DEF Reload, HydrateTrades, Mirrors
    <2>4. CASE \E signal \in Signal : OpenFromSignal(signal.symbol, signal.side)
        <3> DEFINE n == Len(trades')
        <3>1. PICK s, side : OpenFromSignal(s, side)
            BY <2>4
        <3>2. /\ shown' = [shown EXCEPT ![n] = Open] /\ server' \in {server, InsertTrade(n)}
              /\ Len(trades) < MaxTradesIn[active] /\ \E e : trades' = Append(trades, e)
            BY <3>1 DEF OpenFromSignal
        <3>3. n = Len(trades) + 1 /\ n \in Trade /\ Len(trades) \in Nat
            BY <3>2, AppendKeeps, RoomLeft DEF Account, Keeps
        <3>4. server[n] = Absent
            BY <3>3 DEF Account, Fresh, Trade
        <3> HIDE DEF n
        <3> QED  BY <1>1, <3>2, <3>3, <3>4 DEF Mirrors, InsertTrade
    <2>5. CASE \E t \in Trade, pnl \in Pnl : CloseTrade(t, pnl)
        <3>1. PICK t \in Trade, pnl \in Pnl :
                  /\ shown' = [shown EXCEPT ![t] = Closed(pnl)]
                  /\ server' \in {server, UpdateTrade(t, pnl)}
            BY <2>5 DEF CloseTrade
        <3> QED  BY <1>1, <3>1 DEF Mirrors, UpdateTrade, Closed, Open
    <2> QED  BY <1>6, <2>1, <2>2, <2>3, <2>4, <2>5 DEF Tab
<1> QED  BY <1>3, <1>4, <1>5, <1>6 DEF Next

\* Whoever acts, what is planned fits.
LEMMA FittingInductive == Account /\ Mirrors /\ Fitting /\ [Next]_vars => Fitting'
<1> SUFFICES ASSUME Account, Mirrors, Fitting, [Next]_vars PROVE Fitting'
    OBVIOUS
<1> USE DEF schedule, tables, tab, book, actors, Go, Forget
<1>1. Undisturbed' => Undisturbed
    BY DisturbedStays DEF Account
<1>2. Typed /\ server' \in [Trade -> Row]
    BY AccountInductive DEF Account, Typed, TypeOK
<1>3. /\ server \in [Trade -> Row] /\ DOMAIN plan = Actor
      /\ pc \in [Actor -> {"idle", "polled", "claimed", "persist", "file",
                           "release", "failed", "reconcile"}]
    BY <1>2 DEF Typed, TypeOK
<1>4. ASSUME UNCHANGED <<trades, server>>,
             \/ UNCHANGED <<pc, plan>>
             \/ \E a, place : /\ place # "persist" /\ pc' = [pc EXCEPT ![a] = place]
                              /\ plan' = plan \/ plan' = [plan EXCEPT ![a] = 0]
      PROVE  Fitting'
    <2>1. \A b \in Actor : pc'[b] = "persist" => pc[b] = "persist" /\ plan'[b] = plan[b]
        BY <1>3, <1>4
    <2> QED  BY <1>1, <1>2, <1>4, <2>1, NothingOpens
<1>5. ASSUME NEW w \in Worker, Poll(w) PROVE Fitting'
    <2>1. w \in Actor
        BY DEF Actor
    <2>2. CASE RunScan(w)
        BY <1>1, <2>1, <2>2, ScanFits
    <2>3. CASE PersistTrade(w)
        <3>1. /\ trades' = trades /\ pc[w] = "persist" /\ server' = InsertTrade(plan[w])
              /\ pc' = [pc EXCEPT ![w] = "file"] \/ pc' = [pc EXCEPT ![w] = "failed"]
            BY <2>3 DEF PersistTrade
        <3>2. \A b \in Actor : pc'[b] = "persist" => b # w /\ pc[b] = "persist"
            BY <1>3, <3>1
        <3> QED  BY <1>1, <1>2, <2>1, <3>1, <3>2, PlanPersists
    <2>4. CASE FetchDueSchedules(w) \/ ClaimScheduleLock(w) \/ PersistDecisionRecords(w)
               \/ ReleaseScheduleLock(w) \/ Reconcile(w)
        <3>1. /\ UNCHANGED <<trades, server>>
              /\ \E place \in {"idle", "polled", "claimed", "reconcile", "release"} :
                    pc' = [pc EXCEPT ![w] = place]
              /\ plan' = plan \/ plan' = [plan EXCEPT ![w] = 0]
            BY <2>4 DEF FetchDueSchedules, ClaimScheduleLock, PersistDecisionRecords,
                        ReleaseScheduleLock, Reconcile
        <3> QED  BY <1>4, <3>1
    <2> QED  BY <1>5, <2>2, <2>3, <2>4 DEF Poll
<1>6. ASSUME NEW w, WorkerTrouble(w) PROVE Fitting'
    <2>1. /\ UNCHANGED <<trades, server>>
          /\ \E place \in {"idle", "failed"} : pc' = [pc EXCEPT ![w] = place]
          /\ plan' = plan \/ plan' = [plan EXCEPT ![w] = 0]
        BY <1>6 DEF WorkerTrouble, ScanFails, ReleaseFails, ReconcileFails, WorkerDies
    <2> QED  BY <1>4, <2>1
<1>7. ASSUME Time \/ UNCHANGED vars PROVE Fitting'
    <2>1. UNCHANGED <<trades, server, pc, plan>>
        BY <1>7 DEF Time, ScheduleComesDue, LockGoesStale, TradeAges, vars
    <2> QED  BY <1>4, <2>1
<1>8. ASSUME Tab PROVE Fitting'
    <2>1. Browser \in Actor
        BY DEF Actor
    <2>2. CASE RunScan(Browser)
        BY <1>1, <2>1, <2>2, ScanFits
    <2>3. CASE BrowserPersistsTrade
        <3>1. /\ trades' = trades /\ pc[Browser] = "persist" /\ pc' = [pc EXCEPT ![Browser] = "file"]
              /\ server' \in {server, InsertTrade(plan[Browser])}
            BY <2>3, Zenon DEF BrowserPersistsTrade, Written
        <3>2. \A b \in Actor : pc'[b] = "persist" => b # Browser /\ pc[b] = "persist"
            BY <1>3, <3>1
        <3> QED  BY <1>1, <1>2, <2>1, <3>1, <3>2, PlanPersists
    <2>4. CASE \/ BrowserStartsScan \/ BrowserFilesRecords \/ BrowserReconciles \/ Reload
               \/ \E on \in BOOLEAN : SaveSchedule(on)
        <3>1. /\ UNCHANGED <<trades, server>>
              /\ \/ UNCHANGED <<pc, plan>>
                 \/ /\ pc' = [pc EXCEPT ![Browser] = "claimed"] \/ pc' = [pc EXCEPT ![Browser] = "idle"]
                    /\ plan' = plan \/ plan' = [plan EXCEPT ![Browser] = 0]
            BY <2>4, Zenon DEF BrowserStartsScan, BrowserFilesRecords, BrowserReconciles, Reload, SaveSchedule
        <3> QED  BY <1>4, <3>1
    <2>5. CASE \E signal \in Signal : OpenFromSignal(signal.symbol, signal.side)
        <3>1. past'.manual
            <4>1. \/ past' = [past EXCEPT !.manual = TRUE]
                  \/ past' = [past EXCEPT !.faults = @ + 1, !.manual = TRUE]
                BY <2>5 DEF OpenFromSignal
            <4> QED  BY <4>1 DEF Account, Typed, History
        <3> QED  BY <3>1 DEF Fitting, Undisturbed
    <2>6. CASE \E t \in Trade, pnl \in Pnl : CloseTrade(t, pnl)
        <3>1. PICK t \in Trade, pnl \in Pnl : CloseTrade(t, pnl)
            BY <2>6
        <3>2. /\ UNCHANGED <<trades, pc, plan>>
              /\ server' = server \/ (server[t] = Open /\ server' = UpdateTrade(t, pnl))
            BY <3>1 DEF CloseTrade, Mirrors
        <3> QED  BY <1>1, <1>2, <3>2, NothingOpens
    <2> QED  BY <1>8, <2>2, <2>3, <2>4, <2>5, <2>6 DEF Tab
<1> QED  BY <1>5, <1>6, <1>7, <1>8 DEF Next

\* An account starts without trades and without scans.
LEMMA FittingInitially == Init => Mirrors /\ Fitting
<1> SUFFICES ASSUME Init PROVE Mirrors /\ Fitting
    OBVIOUS
<1>0. Mirrors
    BY DEF Init, Mirrors
<1>1. Len(trades) = 0 /\ Scanning = {}
    BY DEF Init, Scanning
<1>2. Lines(trades, server) = {} /\ Shut(trades, server) = {}
    BY <1>1 DEF Lines, Shut
<1>3. \A side : OfSide({}, side) = {}
    BY DEF OfSide
<1>4. IsFiniteSet({}) /\ Cardinality({}) = 0 /\ TotalNotional({}) = 0 /\ TotalResult({}) = 0
    <2>1. IsFiniteSet({}) /\ Cardinality({}) = 0
        BY FS_EmptySet
    <2> QED  BY <2>1, NotionalSums, ResultSums DEF Worth
<1>5. Within({})
    BY <1>3, <1>4, LimitsAssumption DEF Within
<1>6. Covered(trades, server)
    BY <1>2, <1>4, LimitsAssumption DEF Covered
<1> QED  BY <1>0, <1>1, <1>2, <1>5, <1>6 DEF Fitting

\* What the invariant says of the account is what WithinLimits asks.
LEMMA FittingKeeps == Account /\ Fitting => WithinLimits
<1> SUFFICES ASSUME Account, Fitting, Undisturbed PROVE WithinLimits
    BY DEF WithinLimits, Undisturbed
<1> DEFINE rows == Book(server)
           open == OpenIn(rows)
<1>1. /\ Typed /\ server \in [Trade -> Row]
      /\ Within(Lines(trades, server)) /\ Covered(trades, server)
    BY DEF Account, Typed, TypeOK, Fitting
<1>2. Within(open)
    BY <1>1, BookIsLines
<1>3. ASSUME \A t \in rows : t.pnl >= -100 * Notional(t)
      PROVE  AvailableCash(rows) >= 100 * MIN_CASH_REMAINING_GBP
    <2>1. Bearable(trades, server)
        <3> SUFFICES ASSUME NEW x \in 1..Len(trades), server[x] # Absent
                     PROVE  server[x].pnl >= -100 * (trades[x].quantity * trades[x].price)
            BY DEF Bearable
        <3>1. \E t \in rows : /\ t.pnl = server[x].pnl
                              /\ t.quantity = trades[x].quantity /\ t.price = trades[x].price
            <4> DEFINE row == [symbol |-> trades[x].symbol, side |-> trades[x].side,
                               source |-> trades[x].source, quantity |-> trades[x].quantity,
                               price |-> trades[x].price, confidence |-> trades[x].confidence,
                               agreement |-> trades[x].agreement, state |-> server[x].state,
                               pnl |-> server[x].pnl, id |-> x]
            <4>1. row \in rows
                BY DEF Book
            <4> QED  BY <4>1
        <3> HIDE DEF rows
        <3> QED  BY <1>3, <3>1 DEF Notional
    <2>2. open = Lines(trades, server) /\ ClosedIn(rows) = Shut(trades, server)
        BY <1>1, BookIsLines, BookIsShut
    <2> HIDE DEF rows
    <2> QED  BY <1>1, <2>1, <2>2 DEF Covered, AvailableCash
<1> HIDE DEF rows
<1>4. /\ Cardinality(open) <= MAX_OPEN_TRADES
      /\ TotalNotional(open) <= MAX_CAPITAL_DEPLOYED
      /\ \A side \in Side : Cardinality(OfSide(open, side)) <= MAX_SAME_DIRECTION_TRADES
      /\ \A t \in open :
            /\ TotalNotional(OfSymbol(open, t.symbol)) <= MAX_POSITION_VALUE_GBP
            /\ Cardinality(OfSector(open, Sector[t.symbol])) <= MAX_SECTOR_OPEN_TRADES
            /\ TotalNotional(OfSector(open, Sector[t.symbol])) <= MAX_SECTOR_EXPOSURE
      /\ \A t, u \in open : t.symbol = u.symbol =>
            /\ t.side = u.side
            /\ t.id < u.id => t.confidence + MIN_CONFIDENCE_IMPROVEMENT <= u.confidence
    BY <1>2, Zenon DEF Within
<1> QED  BY <1>3, <1>4, Zenon DEF WithinLimits, rows

\* As long as no scan decided on trades another was about to change and no trade was taken
\* by hand, the trades of the server keep every limit of the Position Manager and of the
\* portfolio: on their number, on each side, on each instrument and sector, on the capital
\* deployed, and on the cash unless a trade lost more than was paid for it; for every
\* value of the limits, every price and sector and any number of workers
\* (evaluatePosition, evaluatePortfolioRisk, runBotScan).
THEOREM KeepsLimits == Spec => []WithinLimits
<1> QED  BY FittingKeeps, AccountCorrect, FittingInitially, MirrorsInductive, FittingInductive, PTL DEF Spec
=============================================================================
