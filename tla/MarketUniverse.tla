--------------------------- MODULE MarketUniverse ---------------------------
(***************************************************************************)
(* The refresh of the market universe, run after run: the two listing files *)
(* are downloaded, compared with the table of symbols, and what differs is  *)
(* written, in four groups; then the prices of a batch of symbols are asked  *)
(* and recorded one by one.  A run may fail or end at any write; the        *)
(* listings change between runs.  A price or a time a symbol does not have  *)
(* is an empty set.                                                        *)
(***************************************************************************)
EXTENDS Integers, FiniteSets

CONSTANTS
    Listings,                       \* the pairs of files the exchanges may publish
    Prices, MINIMUM_ELIGIBLE_PRICE, STALE_PRICE_CHECK_DAYS, PRICE_CHECK_BATCH_SIZE,
    MaxRuns                         \* bound: a run a day

VARIABLES
    universe,       \* market_universe_symbols: a row of a symbol that was ever listed
    listing,        \* the two files the exchanges publish
    refresh,        \* "idle", "download", "diff", "write", "select", "check" or "record"
    runDay,            \* of the run
    snapshot, diff, quotes,
    batch,          \* the rows of the symbols whose price is asked, as they were read
    refreshLog,     \* the status of the last run, if there was one
    applied         \* history: the snapshot of the last run if it was written as a whole

run == <<snapshot, diff, batch, quotes>>
universeVars == <<universe, listing, refresh, runDay, run, refreshLog, applied>>

-----------------------------------------------------------------------------
(* One symbol.                                                             *)

\* A name is "plain" or what is read in it.
ClassifyInstrumentType(raw) ==
    IF raw.etf THEN "etf" ELSE IF raw.name \in {"adr", "reit"} THEN raw.name
    ELSE IF raw.name \in {"warrant", "unit", "rights suffix"} THEN "unsupported" ELSE "equity"

ComputeListingExclusion(active, test, type) ==
    IF ~active THEN {"delisted"} ELSE IF test THEN {"test_issue"}
    ELSE IF type = "unsupported" THEN {"unsupported_instrument_type"} ELSE {}

Eligible(reason, status, price) ==
    /\ reason = {} /\ status = "checked"
    /\ \E p \in price : p >= MINIMUM_ELIGIBLE_PRICE

Exclusion(reason, status, price) ==
    IF reason # {} THEN reason
    ELSE IF status = "awaiting_check" \/ Eligible(reason, status, price) THEN {} ELSE {"price_below_minimum"}

\* Mutant: a price makes a symbol eligible whatever the listing says of it.
BuildPricedRow(raw, now, existing) ==
    LET status == IF existing = {} THEN "awaiting_check" ELSE (CHOOSE e \in existing : TRUE).status
        price  == UNION {e.price : e \in existing}
    IN  [raw |-> raw, type |-> ClassifyInstrumentType(raw), active |-> TRUE, status |-> status, price |-> price,
         checkedAt |-> UNION {e.checkedAt : e \in existing}, eligible |-> Eligible({}, status, price),
         reason |-> Exclusion({}, status, price),
         firstSeen |-> IF existing = {} THEN now ELSE (CHOOSE e \in existing : TRUE).firstSeen, lastSeen |-> now, delistedAt |-> {}]

\* A row that was there before, also as delisted, keeps its price and the day it was first seen.
BuildRow(raw, now, existing) ==
    LET type   == ClassifyInstrumentType(raw)
        reason == ComputeListingExclusion(TRUE, raw.test, type)
        status == IF existing = {} THEN "awaiting_check" ELSE (CHOOSE e \in existing : TRUE).status
        price  == UNION {e.price : e \in existing}
    IN  [raw |-> raw, type |-> type, active |-> TRUE, status |-> status, price |-> price,
         checkedAt |-> UNION {e.checkedAt : e \in existing},
         eligible |-> Eligible(reason, status, price), reason |-> Exclusion(reason, status, price),
         firstSeen |-> IF existing = {} THEN now ELSE (CHOOSE e \in existing : TRUE).firstSeen,
         lastSeen |-> now, delistedAt |-> {}]

\* A function over some symbols, with those of g put in their place.
Overlay(f, g) == [s \in DOMAIN f \cup DOMAIN g |-> IF s \in DOMAIN g THEN g[s] ELSE f[s]]
Only(f, S) == [s \in S |-> f[s]]

\* A symbol of both files is NASDAQ's; of the other file, only what two exchanges list.
CombineListingSnapshot(files) ==
    LET other == {s \in DOMAIN files.other : files.other[s].exchange \in {"NYSE", "NYSE American"}}
    IN  Overlay(Only(files.other, other), files.nasdaq)

\* Mutant: what was listed before is taken to be as it was.
StillListed(raw, row) == row.active

IsUnchanged(raw, row) == row.active /\ row.raw = raw /\ row.type = ClassifyInstrumentType(raw)

DiffUniverseSnapshot(rows, snap) ==
    LET listed    == DOMAIN snap
        known     == {s \in listed \cap DOMAIN rows : rows[s].active}
        unchanged == {s \in known : IsUnchanged(snap[s], rows[s])}
        built(s)  == BuildRow(snap[s], runDay, {rows[t] : t \in {s} \cap DOMAIN rows})
    IN  [new |-> [s \in listed \ known |-> built(s)], changed |-> [s \in known \ unchanged |-> built(s)],
         delisted |-> {s \in DOMAIN rows : rows[s].active} \ listed, unchanged |-> unchanged]

-----------------------------------------------------------------------------
NoDiff == [new |-> <<>>, changed |-> <<>>, delisted |-> {}, unchanged |-> {}]

UniverseInit ==
    /\ universe = <<>> /\ listing = (CHOOSE l \in Listings : TRUE) /\ refresh = "idle" /\ runDay = 0
    /\ snapshot = <<>> /\ diff = NoDiff /\ batch = <<>> /\ quotes = <<>>
    /\ refreshLog = {} /\ applied = {}

Forget == snapshot' = <<>> /\ diff' = NoDiff /\ batch' = <<>> /\ quotes' = <<>>

\* startRefreshRun; one run at a time.
StartRefresh ==
    /\ refresh = "idle" /\ runDay < MaxRuns
    /\ runDay' = runDay + 1 /\ refreshLog' = {"running"} /\ refresh' = "download"
    /\ UNCHANGED <<universe, listing, run, applied>>

Download ==
    /\ refresh = "download"
    /\ snapshot' = CombineListingSnapshot(listing) /\ refresh' = "diff"
    /\ UNCHANGED <<universe, listing, runDay, diff, batch, quotes, refreshLog, applied>>

\* The whole table is read, page by page.
Compare ==
    /\ refresh = "diff"
    /\ diff' = DiffUniverseSnapshot(universe, snapshot) /\ refresh' = "write"
    /\ UNCHANGED <<universe, listing, runDay, snapshot, batch, quotes, refreshLog, applied>>

\* The four groups are written one after the other, a chunk (here: a symbol) at a time.
WriteNew ==
    /\ refresh = "write"
    /\ \E s \in DOMAIN diff.new :
          /\ universe' = Overlay(universe, Only(diff.new, {s}))
          /\ diff' = [diff EXCEPT !.new = Only(@, DOMAIN @ \ {s})]
    /\ applied' = {}
    /\ UNCHANGED <<listing, refresh, runDay, snapshot, batch, quotes, refreshLog>>

WriteChanged ==
    /\ refresh = "write" /\ DOMAIN diff.new = {}
    /\ \E s \in DOMAIN diff.changed :
          /\ universe' = Overlay(universe, Only(diff.changed, {s}))
          /\ diff' = [diff EXCEPT !.changed = Only(@, DOMAIN @ \ {s})]
    /\ applied' = {}
    /\ UNCHANGED <<listing, refresh, runDay, snapshot, batch, quotes, refreshLog>>

Delist(row) == [row EXCEPT !.active = FALSE, !.delistedAt = {runDay}, !.eligible = FALSE, !.reason = {"delisted"}]

WriteDelisted ==
    /\ refresh = "write" /\ DOMAIN diff.new = {} /\ DOMAIN diff.changed = {}
    /\ \E s \in diff.delisted :
          /\ universe' = [universe EXCEPT ![s] = Delist(@)]
          /\ diff' = [diff EXCEPT !.delisted = @ \ {s}]
    /\ applied' = {}
    /\ UNCHANGED <<listing, refresh, runDay, snapshot, batch, quotes, refreshLog>>

WriteUnchanged ==
    /\ refresh = "write" /\ DOMAIN diff.new = {} /\ DOMAIN diff.changed = {} /\ diff.delisted = {}
    /\ \E s \in diff.unchanged :
          /\ universe' = [universe EXCEPT ![s].lastSeen = runDay]
          /\ diff' = [diff EXCEPT !.unchanged = @ \ {s}]
    /\ UNCHANGED <<listing, refresh, runDay, snapshot, batch, quotes, refreshLog, applied>>

Written ==
    /\ refresh = "write" /\ DOMAIN diff.new = {} /\ DOMAIN diff.changed = {}
    /\ diff.delisted = {} /\ diff.unchanged = {}
    /\ refresh' = "select" /\ applied' = {snapshot}
    /\ UNCHANGED <<universe, listing, runDay, run, refreshLog>>

\* Those that were never checked, the longest known first; then those last checked long ago.
Waiting == {s \in DOMAIN universe : universe[s].reason = {} /\ universe[s].status = "awaiting_check"}
Stale == {s \in DOMAIN universe : /\ universe[s].reason = {} /\ universe[s].status = "checked"
                                  /\ \A c \in universe[s].checkedAt : c < runDay - STALE_PRICE_CHECK_DAYS}

FirstBy(S, n, Key(_)) ==
    {T \in SUBSET S : /\ Cardinality(T) = (IF Cardinality(S) < n THEN Cardinality(S) ELSE n)
                      /\ \A t \in T, s \in S \ T : Key(t) <= Key(s)}

SelectBatch ==
    /\ refresh = "select" /\ refresh' = "check"
    /\ \E never \in FirstBy(Waiting, PRICE_CHECK_BATCH_SIZE, LAMBDA s : universe[s].firstSeen) :
           \E old \in FirstBy(Stale, PRICE_CHECK_BATCH_SIZE - Cardinality(never), LAMBDA s : CHOOSE c \in universe[s].checkedAt : TRUE) :
               batch' = Only(universe, never \cup old)
    /\ UNCHANGED <<universe, listing, runDay, snapshot, diff, quotes, refreshLog, applied>>

\* Each is asked on its own; one that fails keeps no other from its price.
CheckPrices ==
    /\ refresh = "check" /\ refresh' = "record"
    /\ \E answered \in SUBSET DOMAIN batch : quotes' \in [answered -> Prices]
    /\ UNCHANGED <<universe, listing, runDay, snapshot, diff, batch, refreshLog, applied>>

\* The row of a symbol whose price was asked: what the listing says of it is taken from
\* the row that was read before the requests.
Priced(row, read, price) ==
    LET reason == ComputeListingExclusion(read.active, read.raw.test, read.type)
    IN  [row EXCEPT !.status = "checked", !.price = {price}, !.checkedAt = {runDay},
                    !.eligible = Eligible(reason, "checked", {price}), !.reason = Exclusion(reason, "checked", {price})]

RecordPrice ==
    /\ refresh = "record"
    /\ \E s \in DOMAIN quotes :
          /\ universe' = [universe EXCEPT ![s] = Priced(@, batch[s], quotes[s])]
          /\ quotes' = Only(quotes, DOMAIN quotes \ {s})
    /\ UNCHANGED <<listing, refresh, runDay, snapshot, diff, batch, refreshLog, applied>>

Complete ==
    /\ refresh = "record" /\ quotes = <<>>
    /\ refreshLog' = {"completed"} /\ refresh' = "idle" /\ Forget
    /\ UNCHANGED <<universe, listing, runDay, applied>>

\* A download, a read or a write fails; what was written stays.
Fail ==
    /\ refresh # "idle"
    /\ refreshLog' = {"failed"} /\ refresh' = "idle" /\ Forget
    /\ UNCHANGED <<universe, listing, runDay, applied>>

\* The process ends, or the failure cannot be logged either: the run stays "running".
RefreshCrash ==
    /\ refresh # "idle" /\ refresh' = "idle" /\ Forget
    /\ UNCHANGED <<universe, listing, runDay, refreshLog, applied>>

Publish ==
    /\ refresh = "idle" /\ runDay < MaxRuns
    /\ listing' \in Listings \ {listing}
    /\ UNCHANGED <<universe, refresh, runDay, run, refreshLog, applied>>

UniverseNext ==
    \/ StartRefresh \/ Download \/ Compare \/ WriteNew \/ WriteChanged \/ WriteDelisted \/ WriteUnchanged \/ Written
    \/ SelectBatch \/ CheckPrices \/ RecordPrice \/ Complete \/ Fail \/ RefreshCrash \/ Publish
UniverseSpec == UniverseInit /\ [][UniverseNext]_universeVars

-----------------------------------------------------------------------------
(* Properties.                                                             *)

\* Whatever runs ended between two writes, and however often a symbol was delisted, listed again or
\* listed as something else, an eligible row is listed, of a supported kind and no test issue, and has a price
\* that was asked for and is high enough (eligibility.ts: "The single source of truth for what 'eligible' means").
EligibleIsSound ==
    \A s \in DOMAIN universe :
        LET row == universe[s]
        IN  /\ row.eligible => /\ row.active /\ ~row.raw.test /\ ClassifyInstrumentType(row.raw) # "unsupported"
                               /\ row.checkedAt # {} /\ \A p \in row.price : p >= MINIMUM_ELIGIBLE_PRICE
            /\ row.active <=> row.delistedAt = {}

\* A run that wrote all it had to leaves the table as the listing is, also after runs that wrote only some;
\* and a run that finds the same listing again has nothing to write but the day (diff-universe-snapshot.ts:
\* "produces empty newRows/changedRows/delistedSymbols").
UniverseFollowsListing ==
    /\ refresh \in {"select", "check", "record"} =>
           /\ {s \in DOMAIN universe : universe[s].active} = DOMAIN snapshot
           /\ \A s \in DOMAIN snapshot : universe[s].raw = snapshot[s] /\ universe[s].lastSeen = runDay
    /\ refresh = "write" /\ snapshot \in applied =>
           DOMAIN diff.new = {} /\ DOMAIN diff.changed = {} /\ diff.delisted = {}

\* A refresh that ends anywhere leaves no instrument eligible that should not be, and one
\* that ends well leaves the table equal to the listing: EligibleIsSound and
\* UniverseFollowsListing.
UniverseIsSound == EligibleIsSound /\ UniverseFollowsListing
=============================================================================
