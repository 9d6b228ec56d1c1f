---------------------------- MODULE IntakeRules ----------------------------
(***************************************************************************)
(* The intake of historical candles: a table of rows, or the monthly        *)
(* archives of an exchange, into a dataset document.  A cell is a set: the  *)
(* blank is empty, anything else has one element.                           *)
(***************************************************************************)
EXTENDS ResearchRules

CONSTANTS
    HOUR, HOURS_PER_DAY,                        \* units of time in an hour; 24
    EPOCH_YEAR,                                 \* 1970
    MS_LOWER, MS_UPPER, US_LOWER, US_UPPER,     \* the numbers that are milliseconds, and microseconds
    MICROS                                      \* 1000

Malformed == -1                                 \* a number that is not one

-----------------------------------------------------------------------------
(* Times.                                                                  *)

IsLeapYear(year) == year % 4 = 0 /\ (year % 100 # 0 \/ year % 400 = 0)
DaysInMonth(year, month) ==
    IF month = 2 THEN (IF IsLeapYear(year) THEN 29 ELSE 28) ELSE IF month \in {4, 6, 9, 11} THEN 30 ELSE 31

IsValidCalendarDateTime(t) ==
    t.month \in 1 .. 12 /\ t.day \in 1 .. DaysInMonth(t.year, t.month) /\ t.hour \in 0 .. HOURS_PER_DAY - 1

\* Date.parse and toISOString; part is what is left of the hour.
DateParse(t) ==
    LET years  == 365 * (t.year - EPOCH_YEAR) + Cardinality({y \in EPOCH_YEAR .. t.year - 1 : IsLeapYear(y)})
        months == FoldLeft(LAMBDA sum, m : sum + DaysInMonth(t.year, m), 0, [m \in 1 .. t.month - 1 |-> m])
    IN  ((years + months + t.day - 1) * HOURS_PER_DAY + t.hour) * HOUR + t.part

ToIso(at, month) ==
    LET start == DateParse([year |-> month[1], month |-> month[2], day |-> 1, hour |-> 0, part |-> 0])
        hours == (at - start) \div HOUR
    IN  [year |-> month[1], month |-> month[2], day |-> hours \div HOURS_PER_DAY + 1,
         hour |-> hours % HOURS_PER_DAY, part |-> (at - start) % HOUR, offset |-> {0}]

\* A time that carries no offset of its own is in the declared time zone.
CoerceTimestampToUtc(cell, timezone) ==
    {DateParse(t) - HOUR * (IF t.offset = {} THEN timezone ELSE CHOOSE o \in t.offset : TRUE) :
        t \in {x \in cell : IsValidCalendarDateTime(x)}}

-----------------------------------------------------------------------------
(* Tables: header is the names in lower case, a row its cells by name.      *)

TIMESTAMP_FIELD_SYNONYMS == {"timestamp", "time", "datetime"}
INSTRUMENT_FIELD_SYNONYMS == {"instrument", "symbol"}
REQUIRED_OHLC_FIELDS == {"open", "high", "low", "close"}
RecognisedNames == TIMESTAMP_FIELD_SYNONYMS \cup INSTRUMENT_FIELD_SYNONYMS \cup REQUIRED_OHLC_FIELDS \cup {"volume"}

\* parseCsv and parseJson: a row of another width, or that is no object, is never realigned.
ParseError(table) ==
    CASE ~table.parses -> "INVALID_INPUT_SHAPE"
      [] table.parses /\ table.rows = <<>> -> "EMPTY_INPUT"
      [] OTHER -> IF \E i \in DOMAIN table.rows : table.rows[i].ragged THEN "INVALID_INPUT_SHAPE" ELSE "none"

ColumnError(header) ==
    LET has(names) == names \cap ToSet(header)
    IN  IF \E n \in has(RecognisedNames) : Cardinality({i \in DOMAIN header : header[i] = n}) > 1
        THEN "AMBIGUOUS_INPUT_COLUMN"
        ELSE IF has(TIMESTAMP_FIELD_SYNONYMS) = {} THEN "MISSING_REQUIRED_COLUMNS"
        ELSE IF Cardinality(has(TIMESTAMP_FIELD_SYNONYMS)) > 1 THEN "AMBIGUOUS_TIMESTAMP_COLUMN"
        ELSE IF has(REQUIRED_OHLC_FIELDS) # REQUIRED_OHLC_FIELDS THEN "MISSING_REQUIRED_COLUMNS"
        ELSE IF Cardinality(has(INSTRUMENT_FIELD_SYNONYMS)) > 1 THEN "AMBIGUOUS_INSTRUMENT_COLUMN" ELSE "none"

ResolveColumnMapping(header) ==
    [timestamp  |-> CHOOSE n \in TIMESTAMP_FIELD_SYNONYMS : n \in ToSet(header),
     instrument |-> INSTRUMENT_FIELD_SYNONYMS \cap ToSet(header),
     volume     |-> {"volume"} \cap ToSet(header)]

\* The cells of a row under some names; a row of an object need not have them all.
Cells(row, names) == UNION {row.values[n] : n \in names \cap DOMAIN row.values}

\* A row gives a candle, or (empty) it is invalid.
ConvertRow(row, mapping, timezone) ==
    LET number(name) == Cells(row, {name}) \ {Malformed}
    IN  IF Malformed \in Cells(row, mapping.volume) THEN {}
        ELSE {[at |-> t, open |-> o, high |-> h, low |-> l, close |-> c,
               volume |-> Cells(row, mapping.volume), extraKeys |-> {}] :
                t \in CoerceTimestampToUtc(Cells(row, {mapping.timestamp}), timezone),
                o \in number("open"), h \in number("high"), l \in number("low"), c \in number("close")}

\* Mutant: the rows that do not convert are left out.
ConvertRowsLeniently(rows, mapping, timezone) ==
    LET good == SelectSeq(rows, LAMBDA r : ConvertRow(r, mapping, timezone) # {})
    IN  [candles |-> [i \in DOMAIN good |-> CHOOSE c \in ConvertRow(good[i], mapping, timezone) : TRUE],
         invalid |-> 0,
         instruments |-> UNION {Cells(good[i], mapping.instrument) : i \in DOMAIN good}]

ConvertRows(rows, mapping, timezone) ==
    LET good == SelectSeq(rows, LAMBDA r : ConvertRow(r, mapping, timezone) # {})
    IN  [candles |-> [i \in DOMAIN good |-> CHOOSE c \in ConvertRow(good[i], mapping, timezone) : TRUE],
         invalid |-> Len(rows) - Len(good),
         instruments |-> UNION {Cells(good[i], mapping.instrument) : i \in DOMAIN good}]

ComputeOrderingStats(candles, interval) ==
    LET at(i)  == candles[i].at
        later  == {i \in 2 .. Len(candles) : at(i) > at(i - 1)}
    IN  [duplicates |-> Cardinality({i \in DOMAIN candles : \E j \in 1 .. i - 1 : at(j) = at(i)}),
         outOfOrder |-> Cardinality((2 .. Len(candles)) \ later),
         gaps       |-> Cardinality({i \in later : at(i) - at(i - 1) # interval})]

\* Mutant: the last day is taken too.
SliceInclusive(candles, dateFrom, dateTo) ==
    SelectSeq(candles, LAMBDA c : (\A d \in dateFrom : d <= c.at) /\ (\A d \in dateTo : c.at <= d))

\* The first bound belongs to the slice, the second does not; either may be missing.
SliceCandlesByDateRange(candles, dateFrom, dateTo) ==
    SelectSeq(candles, LAMBDA c : (\A d \in dateFrom : d <= c.at) /\ (\A d \in dateTo : c.at < d))

-----------------------------------------------------------------------------
(* A dataset.  request: the table, instrument, interval, timezone, dateFrom *)
(* and dateTo (sets), and the closures declared with it.                    *)

PrepareDataset(request) ==
    LET table == request.table
        Document(candles) ==
            [extraKeys |-> {}, instrument |-> request.instrument, timeframe |-> request.timeframe, interval |-> request.interval,
             closures |-> request.closures, candles |-> candles]
        Sliced(candles, slice) ==
            IF ValidateCandleDataset(Document(candles)) # "accepted" THEN Refused(ValidateCandleDataset(Document(candles)))
            ELSE IF request.dateFrom \cup request.dateTo # {} /\ ValidateCandleDataset(Document(slice)) # "accepted"
                 THEN Refused("SLICE_INVALID")
            ELSE [ok |-> TRUE, document |-> Document(slice), stats |-> ComputeOrderingStats(candles, request.interval)]
        Checked(converted) ==
            IF ~(converted.instruments \subseteq {request.instrument}) THEN Refused("MIXED_INSTRUMENT")
            ELSE IF converted.invalid > 0 THEN Refused("INVALID_ROWS")
            ELSE Sliced(converted.candles, SliceCandlesByDateRange(converted.candles, request.dateFrom, request.dateTo))
    IN  IF ParseError(table) # "none" THEN Refused(ParseError(table))
        ELSE IF ColumnError(table.header) # "none" THEN Refused(ColumnError(table.header))
        ELSE Checked(ConvertRows(table.rows, ResolveColumnMapping(table.header), request.timezone))

-----------------------------------------------------------------------------
(* The monthly archives.  A month is <<year, month>>.                      *)

\* <<>> when the range is refused.
GenerateMonthRange(from, to) ==
    LET index(m) == m[1] * 12 + m[2] - 1
    IN  IF from[2] \notin 1 .. 12 \/ to[2] \notin 1 .. 12 \/ index(from) > index(to) THEN <<>>
        ELSE [k \in 1 .. index(to) - index(from) + 1 |->
                LET i == index(from) + k - 1 IN <<i \div 12, (i % 12) + 1>>]

MonthStart(month) == DateParse([year |-> month[1], month |-> month[2], day |-> 1, hour |-> 0, part |-> 0])
MonthEnd(month) == MonthStart(month) + DaysInMonth(month[1], month[2]) * HOURS_PER_DAY * HOUR

DetectTimestampUnit(n) ==
    IF n \in MS_LOWER .. MS_UPPER THEN "MILLISECONDS" ELSE IF n \in US_LOWER .. US_UPPER THEN "MICROSECONDS" ELSE "none"
ConvertBinanceTimestamp(n) == IF DetectTimestampUnit(n) = "MILLISECONDS" THEN n ELSE n \div MICROS

\* The hours a gap leaves out, when it is whole hours and all of them are known closures.
ExplainGap(previous, at, known) ==
    LET missing == MissingBars(previous, at, HOUR)
    IN  IF (at - previous) % HOUR = 0 /\ missing \subseteq known THEN missing ELSE {}

ArchiveRowError(rows, i, month, known) ==
    LET unit == DetectTimestampUnit(rows[i].time)
        at   == ConvertBinanceTimestamp(rows[i].time)
        previous == ConvertBinanceTimestamp(rows[i - 1].time)
    IN  IF unit = "none" THEN "AMBIGUOUS_TIMESTAMP_UNIT"
        ELSE IF unit # DetectTimestampUnit(rows[1].time) THEN "MIXED_TIMESTAMP_UNITS"
        ELSE IF at \notin MonthStart(month) .. MonthEnd(month) - 1 THEN "ROW_OUTSIDE_DECLARED_MONTH"
        ELSE IF i = 1 THEN "none"
        ELSE IF at = previous THEN "DUPLICATE_TIMESTAMP"
        ELSE IF at < previous THEN "OUT_OF_ORDER_TIMESTAMP"
        ELSE IF at - previous # HOUR /\ ExplainGap(previous, at, known) = {} THEN "GAP_DETECTED" ELSE "none"

\* Mutant: a month may be short.
ValidateMonthLoosely(rows, month, known) ==
    LET bad == FirstError(LAMBDA i : ArchiveRowError(rows, i, month, known), DOMAIN rows)
        at(i) == ConvertBinanceTimestamp(rows[i].time)
    IN  IF rows = <<>> THEN Refused("EMPTY_ARCHIVE") ELSE IF bad # "none" THEN Refused(bad)
        ELSE [ok |-> TRUE, month |-> month,
              closed |-> UNION {ExplainGap(at(i - 1), at(i), known) : i \in 2 .. Len(rows)},
              candles |-> [i \in DOMAIN rows |-> [rows[i] EXCEPT !.time = at(i)]]]

\* As many candles an hour apart as the month has hours, but for the closures its gaps were
\* explained by.  Only differences are compared: that the first is on the hour is not asked.
ValidateMonthlyArchiveRows(rows, month, known) ==
    LET bad == FirstError(LAMBDA i : ArchiveRowError(rows, i, month, known), DOMAIN rows)
        at(i) == ConvertBinanceTimestamp(rows[i].time)
        closed == UNION {ExplainGap(at(i - 1), at(i), known) : i \in 2 .. Len(rows)}
    IN  IF rows = <<>> THEN Refused("EMPTY_ARCHIVE")
        ELSE IF bad # "none" THEN Refused(bad)
        ELSE IF Len(rows) + Cardinality(closed) # DaysInMonth(month[1], month[2]) * HOURS_PER_DAY
             THEN Refused("UNEXPECTED_ROW_COUNT")
        ELSE [ok |-> TRUE, month |-> month, closed |-> closed,
              candles |-> [i \in DOMAIN rows |-> [rows[i] EXCEPT !.time = at(i)]]]

CheckNoMonthOverlap(archives) ==
    \A i \in 2 .. Len(archives) : archives[i].candles[1].time - Last(archives[i - 1].candles).time = HOUR

\* extractSingleFileFromZip: the single entry, under its name, whole.
ZipError(zip, expectedName) ==
    CASE ~zip.directory -> "INVALID_ZIP"
      [] zip.directory /\ zip.entries # 1 -> "UNEXPECTED_ENTRY_COUNT"
      [] zip.directory /\ zip.entries = 1 /\ zip.encrypted -> "ENCRYPTED_ENTRY"
      [] zip.directory /\ zip.entries = 1 /\ ~zip.encrypted /\ zip.name # expectedName -> "UNEXPECTED_FILENAME"
      [] OTHER -> IF zip.method \notin {"store", "deflate"} THEN "UNSUPPORTED_COMPRESSION"
                  ELSE IF ~zip.inflates THEN "DECOMPRESSION_FAILED"
                  ELSE IF Len(zip.rows) # zip.declared THEN "SIZE_MISMATCH" ELSE "none"

\* The registry of closures applies to some symbols, or to all ("ALL_SPOT").
AppliesTo(entry, symbol) == entry.symbols \cap {"ALL_SPOT", symbol} # {}
RegistryIsSound(registry) ==
    /\ \A e \in ToSet(registry) :
          /\ e.status = "VERIFIED_EXCEPTION" /\ e.symbols # {} /\ e.missing % HOUR = 0
          /\ "ALL_SPOT" \in e.symbols => e.symbols = {"ALL_SPOT"}
    /\ \A i, j \in DOMAIN registry : i < j /\ registry[i].missing = registry[j].missing =>
          registry[i].symbols \cap registry[j].symbols = {} /\ "ALL_SPOT" \notin registry[i].symbols \cup registry[j].symbols
ResolveKnownMissing(registry, symbol, month) ==
    {e.missing : e \in {x \in ToSet(registry) :
        AppliesTo(x, symbol) /\ x.missing \in MonthStart(month) .. MonthEnd(month) - 1}}

ExtractAndValidateArchive(zip, symbol, month, registry) ==
    LET bad == ZipError(zip, <<symbol, month>>)
    IN  IF bad # "none" THEN Refused(bad)
        ELSE IF \E r \in ToSet(zip.rows) : Malformed \in {r.time, r.price} THEN Refused("MALFORMED_ROW")
        ELSE ValidateMonthlyArchiveRows(zip.rows, month, ResolveKnownMissing(registry, symbol, month))

ResolveDocumentKnownClosures(symbol, archives) ==
    LET closed == SetToSortSeq(UNION {a.closed : a \in ToSet(archives)}, LAMBDA a, b : a < b)
    IN  [i \in DOMAIN closed |-> [extraKeys |-> {}, complete |-> TRUE, status |-> "VERIFIED_EXCEPTION",
                                  timeframe |-> "1h", symbol |-> symbol, missing |-> closed[i]]]

\* The dataset of a role (its name, its first and last month), from the archives of all months.
AssembleRole(symbol, role, archives) ==
    LET months == ToSet(GenerateMonthRange(role.first, role.last))
        own    == SelectSeq(archives, LAMBDA a : a.month \in months)
        row(candle, month) ==
            [ragged |-> FALSE,
             values |-> [n \in REQUIRED_OHLC_FIELDS \cup {"volume", "timestamp"} |->
                            IF n = "timestamp" THEN {ToIso(candle.time, month)} ELSE {candle.price}]]
        rows   == FlattenSeq([k \in DOMAIN own |-> [i \in DOMAIN own[k].candles |-> row(own[k].candles[i], own[k].month)]])
    IN  PrepareDataset(
            [table |-> [parses |-> TRUE, header |-> <<"timestamp", "open", "high", "low", "close", "volume">>, rows |-> rows],
             instrument |-> symbol, timeframe |-> "1h", interval |-> HOUR, timezone |-> 0,
             dateFrom |-> {MonthStart(role.first)}, dateTo |-> {MonthEnd(role.last)},
             closures |-> ResolveDocumentKnownClosures(symbol, own)])

\* Stage 2 of the acquisition: every archive is good and every role's dataset valid, or there is nothing.
AssembleAll(symbol, zips, roles, registry) ==
    LET months == GenerateMonthRange(Head(roles).first, Last(roles).last)
        Written(datasets) ==
            IF \E k \in DOMAIN datasets : ~datasets[k].ok THEN Refused("validation")
            ELSE [ok |-> TRUE, datasets |-> [k \in DOMAIN datasets |-> datasets[k].document]]
        Assembled(archives) ==
            IF \E k \in DOMAIN archives : ~archives[k].ok
            THEN archives[CHOOSE k \in DOMAIN archives : ~archives[k].ok /\ \A j \in 1 .. k - 1 : archives[j].ok]
            ELSE IF ~CheckNoMonthOverlap(archives) THEN Refused("MONTH_OVERLAP")
            ELSE Written([k \in DOMAIN roles |-> AssembleRole(symbol, roles[k], archives)])
    IN  IF ~RegistryIsSound(registry) THEN Refused("registry")
        ELSE Assembled([k \in DOMAIN months |-> ExtractAndValidateArchive(zips[k], symbol, months[k], registry)])

-----------------------------------------------------------------------------
(* The command that prepares one dataset.  files is what lies under each    *)
(* name (a set, empty for no file), manifest the entries listed so far.     *)

RequiredFlags == {"--input", "--format", "--instrument", "--timeframe", "--source", "--timezone"}

ParseArgs(args) ==
    /\ args.unknown = {} /\ RequiredFlags \subseteq args.given /\ args.malformed = {}
    /\ args.manifest # {} => args.role # {}
    /\ args.manifest # {} => args.manifest # args.output
    /\ \A from \in args.request.dateFrom, to \in args.request.dateTo : from < to

\* Mutant: what is there is written over.
WriteOver(files, name, content) == [ok |-> TRUE, files |-> [files EXCEPT ![name] = {content}]]

\* writeCreateOnly: a link never replaces a file.
WriteCreateOnly(files, name, content) ==
    IF files[name] # {} THEN [ok |-> FALSE, files |-> files]
    ELSE [ok |-> TRUE, files |-> [files EXCEPT ![name] = {content}]]

\* appendManifestEntry: nothing is appended to a manifest that is not sound, before or after.
AppendManifestEntry(manifest, entry) ==
    LET merged == Append(manifest, entry)
    IN  IF (\A e \in ToSet(merged) : ManifestEntryIsSound(e)) /\ DistinctRoles(merged)
        THEN [ok |-> TRUE, entries |-> merged] ELSE [ok |-> FALSE, entries |-> manifest]

\* main: the dataset is on disk before the manifest is looked at; a failure leaves it there.
PrepareCommand(disk, args) ==
    LET writes == args.output # {} /\ ~args.dryRun
        lists  == args.manifest # {} /\ args.request.timeframe = "1h" /\ ~args.dryRun
        name   == CHOOSE n \in IF args.output # {} THEN args.output ELSE {args.input} : TRUE
        Entry(document) ==
            [instrument |-> args.request.instrument, timeframe |-> args.request.timeframe, datasetFile |-> name,
             expected |-> document, start |-> document.candles[1].at, end |-> Last(document.candles).at,
             role |-> CHOOSE r \in args.role : TRUE]
        Listed(written, document) ==
            IF ~written.ok THEN disk
            ELSE [files |-> written.files,
                  manifest |-> IF lists THEN AppendManifestEntry(disk.manifest, Entry(document)).entries ELSE disk.manifest]
        Done(result) ==
            IF ~result.ok THEN disk
            ELSE Listed(IF writes THEN WriteCreateOnly(disk.files, name, result.document) ELSE [ok |-> TRUE, files |-> disk.files],
                        result.document)
    IN  IF ParseArgs(args) THEN Done(PrepareDataset(args.request)) ELSE disk
=============================================================================
