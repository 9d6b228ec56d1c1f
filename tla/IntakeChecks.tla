---------------------------- MODULE IntakeChecks ----------------------------
(* What the intake of candles guarantees, over the end of a February and a  *)
(* March, with one bar a day and two units of time a bar.                   *)
EXTENDS CheckState

DI == INSTANCE IntakeRules WITH
          HOUR <- 2, HOURS_PER_DAY <- 1, EPOCH_YEAR <- 2023,
          MS_LOWER <- 100, MS_UPPER <- 9999, US_LOWER <- 100000, US_UPPER <- 9999999, MICROS <- 1000,
          MAX_DATASET_CANDLES <- 40, MAX_EXPERIMENT_VARIANTS <- 1,
          MAX_RULE_NODES <- 4, MAX_SCAN_DEPTH <- 3, PROHIBITED_FIELD_NAMES <- {}

-----------------------------------------------------------------------------
(* Tables of three rows.                                                   *)

Date(month, day) == [year |-> 2023, month |-> month, day |-> day, hour |-> 0, part |-> 0]
RealDays == <<Date(2, 28), Date(3, 1), Date(3, 2), Date(3, 3)>>
TableRow(stamps, price, volume, name) ==
    [ragged |-> FALSE,
     values |-> [n \in {"timestamp", "volume", "symbol"} \cup DI!REQUIRED_OHLC_FIELDS |->
        CASE n = "timestamp" -> stamps [] n = "volume" -> volume [] n = "symbol" -> name [] OTHER -> {price}]]
Stamp(date, offset) == {[year |-> date.year, month |-> date.month, day |-> date.day, hour |-> 0, part |-> 0, offset |-> offset]}
Header == <<"timestamp", "open", "high", "low", "close", "volume", "symbol">>
Table(rows) == [parses |-> TRUE, header |-> Header, rows |-> rows]
Request(rows) ==
    [table |-> Table(rows), instrument |-> "BTC", timeframe |-> "1h", interval |-> 2, timezone |-> 0,
     dateFrom |-> {}, dateTo |-> {}, closures |-> <<>>]
Listed3 == [i \in 1 .. 4 |-> TableRow(Stamp(RealDays[i], {}), i, {7}, {"BTC"})]

\* Each with its dates in any order, or with one row spoilt, or with the header changed.
TableRequests ==
    LET days  == {Date(2, 28), Date(2, 29), Date(3, 1), Date(3, 2)}
        dated == {Request([i \in 1 .. 3 |-> TableRow(Stamp(d[i], o[i]), i, {7}, {"BTC"})]) :
                    d \in [1 .. 3 -> days], o \in [1 .. 3 -> {{}, {1}}]}
        spoilt == {TableRow({}, 1, {7}, {"BTC"}), TableRow(Stamp(Date(3, 1), {}), DI!Malformed, {7}, {"BTC"}),
                   TableRow(Stamp(Date(3, 1), {}), 1, {DI!Malformed}, {"BTC"}), TableRow(Stamp(Date(3, 1), {}), 1, {}, {}),
                   TableRow(Stamp(Date(3, 1), {}), 1, {7}, {"ETH"}), [TableRow({}, 1, {7}, {}) EXCEPT !.ragged = TRUE]}
        headers == {Append(Header, "other"), Append(Header, "close"), Append(Header, "time"), Append(Header, "instrument"), Tail(Header)}
    IN  {[r EXCEPT !.timezone = z] : r \in dated, z \in {0, 1}}
          \cup {Request([Listed3 EXCEPT ![k] = s]) : k \in 1 .. 4, s \in spoilt}
          \cup {[Request(Listed3) EXCEPT !.table.header = h] : h \in headers}
          \cup {[Request(Listed3) EXCEPT !.table.rows = <<>>], [Request(Listed3) EXCEPT !.table.parses = FALSE]}

\* A history, perhaps with a closure, cut somewhere.
CutRequests ==
    LET closure(at) == [extraKeys |-> {}, complete |-> TRUE, status |-> "VERIFIED_EXCEPTION", timeframe |-> "1h",
                        symbol |-> "BTC", missing |-> at]
        first == DI!DateParse(RealDays[1])
        day(n) == Stamp(Date(3, n), {})
        long  == [i \in 1 .. 6 |-> TableRow(day(i), i, {}, {})]
    IN  {[request |-> r, cut |-> c] : c \in DI!DateParse(Date(3, 1)) .. DI!DateParse(Date(3, 8)),
            r \in {Request(long),
                   [Request([i \in 1 .. 5 |-> IF i > 2 THEN long[i + 1] ELSE long[i]])
                        EXCEPT !.closures = <<closure(DI!DateParse(Date(3, 3)))>>]}}
Cut(i) ==
    <<DI!PrepareDataset([i.request EXCEPT !.dateTo = {i.cut}]), DI!PrepareDataset([i.request EXCEPT !.dateFrom = {i.cut}]),
      DI!PrepareDataset(i.request)>>

-----------------------------------------------------------------------------
(* The archives of February and March of a leap year.                      *)

Months == <<<<2024, 2>>, <<2024, 3>>>>
Roles == [k \in 1 .. 2 |-> [first |-> Months[k], last |-> Months[k]]]
Hours(k) == {t \in DI!MonthStart(Months[k]) .. DI!MonthEnd(Months[k]) - 1 : t % 2 = 0}
HourOf(k, n) == DI!MonthStart(Months[k]) + 2 * (n - 1)
LastOf(k) == IF k = 1 THEN 29 ELSE 31
WholeMonth(k) == [n \in 1 .. LastOf(k) |-> [time |-> HourOf(k, n), price |-> n]]
MonthZip(k, rows) ==
    [directory |-> TRUE, entries |-> 1, encrypted |-> FALSE, name |-> <<"BTC", Months[k]>>, method |-> "deflate",
     inflates |-> TRUE, rows |-> rows, declared |-> Len(rows)]
Archives(k) ==
    LET rows == WholeMonth(k)
        days == {1, 2, 15, LastOf(k)}
        in(unit) == [n \in DOMAIN rows |-> [rows[n] EXCEPT !.time = @ * unit]]
    IN  {MonthZip(k, r) : r \in {rows, in(1000), [in(1000) EXCEPT ![9] = rows[9]], Append(rows, [time |-> HourOf(k, LastOf(k) + 1), price |-> 1]),
                            [n \in DOMAIN rows |-> [rows[n] EXCEPT !.time = @ + 1]], in(20000),
                            RemoveAt(RemoveAt(rows, 15), 15)}
                          \cup {RemoveAt(rows, n) : n \in days} \cup {[rows EXCEPT ![n].time = HourOf(k, 2)] : n \in {1, 3}}
                          \cup {[rows EXCEPT ![n].price = DI!Malformed] : n \in {5}}}
          \cup {[MonthZip(k, rows) EXCEPT !.declared = 40], [MonthZip(k, rows) EXCEPT !.name = <<"ETH", Months[k]>>], [MonthZip(k, rows) EXCEPT !.entries = 2]}
\* Months whose times are all half an hour late, one of them with an hour missing.
OffTheHour(k) ==
    LET late == [n \in 1 .. LastOf(k) |-> [time |-> HourOf(k, n) + 1, price |-> n]]
    IN  {late, RemoveAt(late, 15), [n \in DOMAIN late |-> [late[n] EXCEPT !.time = @ * 1000]]}
ArchiveInputs ==
    LET entry(k, n, s) == [symbols |-> s, status |-> "VERIFIED_EXCEPTION", missing |-> HourOf(k, n)]
    IN  {[zips |-> z, registry |-> r] : r \in {<<>>, <<entry(1, 15, {"BTC"}), entry(2, 15, {"ETH"})>>, <<entry(1, 15, {"BTC"}), entry(1, 15, {"ALL_SPOT"})>>,
                <<entry(1, 15, {"ALL_SPOT"}), entry(1, 16, {"BTC"}), entry(2, 1, {"ALL_SPOT"}), entry(2, 31, {"BTC"})>>},
            z \in {<<a, MonthZip(2, WholeMonth(2))>> : a \in Archives(1)} \cup {<<MonthZip(1, WholeMonth(1)), a>> : a \in Archives(2)}
                    \cup {<<MonthZip(1, RemoveAt(WholeMonth(1), 15)), a>> : a \in Archives(2)}
                    \cup {<<MonthZip(1, a), MonthZip(2, b)>> : a \in OffTheHour(1), b \in OffTheHour(2)}}
Assembled(i) == DI!AssembleAll("BTC", i.zips, Roles, i.registry)

-----------------------------------------------------------------------------
(* Two runs of the command, one after the other.                           *)

Commands ==
    LET later == [Request(Listed3) EXCEPT !.dateFrom = {DI!DateParse(RealDays[2])}]
    IN  {[unknown |-> {}, given |-> DI!RequiredFlags, malformed |-> {}, input |-> "raw", output |-> o, manifest |-> m, role |-> {r},
          dryRun |-> d, request |-> [q EXCEPT !.timeframe = t]] :
            o \in {{}, {"a"}, {"b"}}, m \in {{}, {"m"}}, r \in {"IN_SAMPLE", "FULL_HISTORY"}, d \in BOOLEAN,
            q \in {Request(Listed3), later}, t \in {"1h", "1d"}}
CommandInputs == {c \in Commands \X Commands : ~c[1].dryRun /\ c[1].request.timeframe = "1h"}
TwoCommands(c) ==
    LET empty == [files |-> [raw |-> {}, a |-> {}, b |-> {}], manifest |-> <<>>]
        Again(once) == <<once, DI!PrepareCommand(once, c[2])>>
    IN  Again(DI!PrepareCommand(empty, c[1]))

AskIntake ==
    \/ Ask("table", TableRequests, DI!PrepareDataset)
    \/ Ask("cut", CutRequests, Cut)
    \/ Ask("archives", ArchiveInputs, Assembled)
    \/ Ask("commands", CommandInputs, TwoCommands)

-----------------------------------------------------------------------------
(* Properties.                                                             *)

\* A dataset made of a table is that table: a candle for every row, at the instant the row names, a day
\* that does not exist never becoming another, and none of another instrument (dataset-intake.ts).
ImportedAsGiven ==
    topic = "table" /\ output.ok =>
        LET rows    == input.table.rows
            candles == output.document.candles
            date(i) == CHOOSE t \in rows[i].values["timestamp"] : TRUE
            real(i) == {k \in DOMAIN RealDays : RealDays[k].month = date(i).month /\ RealDays[k].day = date(i).day}
            moved(i) == IF date(i).offset = {} THEN input.timezone ELSE CHOOSE o \in date(i).offset : TRUE
        IN  /\ Len(candles) = Len(rows)
            /\ \A i \in DOMAIN rows :
                  /\ rows[i].values["symbol"] \subseteq {"BTC"}
                  /\ real(i) # {}
                  /\ \A k \in real(i) : candles[i].at = DI!DateParse(RealDays[1]) + 2 * (k - 1 - moved(i))
                  /\ {candles[i].close} = rows[i].values["close"]
            /\ output.stats = [duplicates |-> 0, outOfOrder |-> 0, gaps |-> 0]

\* Two slices that meet at an instant share no candle and lose none, and what a cut leaves on either side
\* of an unbroken history is itself a dataset (dataset-intake.ts, sliceCandlesByDateRange).
SlicesPartition ==
    topic = "cut" /\ output[3].ok =>
        LET whole  == output[3].document.candles
            before == Cardinality({i \in DOMAIN whole : whole[i].at < input.cut})
        IN  /\ output[1].ok => output[1].document.candles = SubSeq(whole, 1, before)
            /\ output[2].ok => output[2].document.candles = SubSeq(whole, before + 1, Len(whole))
            /\ input.request.closures = <<>> => /\ output[1].ok <=> before >= 2
                                                /\ output[2].ok <=> Len(whole) - before >= 2

\* The datasets made of an exchange's archives have a candle an hour from the first to the last of their
\* months, or declare the hour a known closure of this symbol; they share no hour, each candle stands at
\* the time its archive gave, and the research run accepts them as a plan's data.  The archives may all be
\* off the hour by the same time, since only their distances are compared: then they have no closure
\* (binance-archive.ts 236-304, dataset-binance-download-cli.ts and dataset-manifest.ts).
AcquiredIsWhole ==
    topic = "archives" /\ output.ok =>
        LET doc(k)   == output.datasets[k]
            at(k)    == {doc(k).candles[i].at : i \in DOMAIN doc(k).candles}
            closed(k) == {doc(k).closures[i].missing : i \in DOMAIN doc(k).closures}
            entry(k) == [instrument |-> "BTC", timeframe |-> "1h", datasetFile |-> k, expected |-> doc(k),
                         start |-> Min(at(k)), end |-> Max(at(k)), role |-> IF k = 1 THEN "IN_SAMPLE" ELSE "OUT_OF_SAMPLE"]
            late == Min(at(1)) % 2
        IN  /\ \A k \in 1 .. 2 :
                  /\ at(k) \cup closed(k) = {t + late : t \in Hours(k)} /\ at(k) \cap closed(k) = {}
                  /\ closed(k) # {} => late = 0
                  /\ \A t \in closed(k) : \E e \in ToSet(input.registry) : e.missing = t /\ e.symbols # {"ETH"}
                  /\ \A i \in DOMAIN doc(k).candles : HourOf(k, doc(k).candles[i].close) + late = doc(k).candles[i].at
            /\ DI!LoadAndVerifyManifest(<<entry(1), entry(2)>>, <<doc(1), doc(2)>>) = "accepted"

\* An output a manifest lists holds, and goes on holding, the very dataset the entry was made for, however
\* a second command reuses its names; and an entry once listed stays (dataset-prepare-cli.ts, main).
ListedFileIsTheDataset ==
    topic = "commands" =>
        /\ \A n \in 1 .. 2 : \A e \in ToSet(output[n].manifest) :
              e.datasetFile # "raw" => output[n].files[e.datasetFile] = {e.expected}
        /\ IsPrefix(output[1].manifest, output[2].manifest)
        /\ DI!DistinctRoles(output[2].manifest)

\* A dataset is its source, whole, once and unchanged: the conjunction of the four above.
IntakeIsExact == ImportedAsGiven /\ SlicesPartition /\ AcquiredIsWhole /\ ListedFileIsTheDataset
=============================================================================
