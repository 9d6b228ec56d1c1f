----------------------------- MODULE HermesScan -----------------------------
(***************************************************************************)
(* The Hermes Agent in the trading cycle: the universe scan between phase A *)
(* and phase B asks the hermes command for proposals, validates the answer, *)
(* selects, and hands the selection to the shared HermesAgentStrategy that  *)
(* phase B evaluates per instrument.  Confidences are in hundredths.        *)
(***************************************************************************)
EXTENDS Integers, Sequences, SequencesExt, FiniteSets

CONSTANTS
    ScanUniverse,                \* instruments in alphabetical order
    Answers,                     \* what a run of the hermes command may yield
    MAX_PROPOSALS, MAX_OPEN_POSITIONS,
    MAX_STOP_LOSS, MAX_TAKE_PROFIT, MAX_REASONS, MAX_REASON_LENGTH,   \* 20, 50, 10, 240
    MaxCycles

\* The universe and an answer's proposals are lists.
ASSUME ScanAssumption ==
    /\ ScanUniverse \in Seq(ToSet(ScanUniverse))
    /\ \A answer \in Answers : answer.proposals \in Seq(ToSet(answer.proposals))
    /\ MAX_PROPOSALS \in Nat /\ MAX_OPEN_POSITIONS \in Nat

VARIABLES
    scanCycle, stage,       \* stage: "between" cycles, "scan", or "act" (phase B)
    scanProposals,      \* the strategy's proposals, each with the cycle it came from
    eligible,           \* instruments this cycle's scan could price
    unvisited,               \* instruments phase B has not reached
    live,               \* instruments with a position after reconciliation
    adapterList,            \* instruments with a position in the broker adapter
    decided             \* phase B's decisions this cycle
scanVars == <<scanCycle, stage, scanProposals, eligible, unvisited, live, adapterList, decided>>

Instruments == ToSet(ScanUniverse)
Place(i) == CHOOSE n \in DOMAIN ScanUniverse : ScanUniverse[n] = i

-----------------------------------------------------------------------------
(* validateHermesUniverseResponse: one bad or repeated proposal rejects all. *)

WithinPercent(values, max) == \A p \in values : p > 0 /\ p <= max

ValidProposal(p) ==
    /\ p.instrument \in Instruments
    /\ p.action \in {"BUY", "SELL", "HOLD"}
    /\ p.confidence \in 0 .. 100
    /\ Len(p.reasoning) <= MAX_REASONS
    /\ \A i \in DOMAIN p.reasoning : p.reasoning[i] <= MAX_REASON_LENGTH
    /\ WithinPercent(p.stopLoss, MAX_STOP_LOSS)
    /\ WithinPercent(p.takeProfit, MAX_TAKE_PROFIT)

\* The run's outcome is "proposals" only for a JSON object that lists some; otherwise it timed out,
\* exited with an error, printed too much, could not start, or was not such an object.
Accepted(answer) ==
    LET ps == answer.proposals IN
    /\ answer.outcome = "proposals"
    /\ \A i \in DOMAIN ps : ValidProposal(ps[i])
    /\ \A i, j \in DOMAIN ps : ps[i].instrument = ps[j].instrument => i = j

-----------------------------------------------------------------------------
(* Selection.                                                              *)

RankedBefore(a, b) ==
    \/ a.confidence > b.confidence
    \/ a.confidence = b.confidence /\ Place(a.instrument) < Place(b.instrument)
Rank(p, proposals) == Cardinality({q \in proposals : RankedBefore(q, p)})   \* how many come before p
First(n, proposals) == {p \in proposals : Rank(p, proposals) < n}

RankEligibleProposals(proposals) == {p \in ToSet(proposals) : p.action # "HOLD"}
SelectTopProposals(proposals) == First(MAX_PROPOSALS, RankEligibleProposals(proposals))

\* A BUY needs an instrument without a position in the adapter, a SELL one with it.
Executable(p) == p.instrument \in eligible' /\ (p.action = "BUY" <=> p.instrument \notin adapterList)

\* The loop over the ranked proposals takes every SELL that can be executed; the count of open
\* positions grows with each BUY taken, so the first BUYs are taken while there is room.
Selected(answer) ==
    LET fitting == {p \in SelectTopProposals(answer.proposals) : Executable(p)}
        buys    == {p \in fitting : p.action = "BUY"}
    IN  (fitting \ buys) \cup First(MAX_OPEN_POSITIONS - Cardinality(adapterList), buys)

-----------------------------------------------------------------------------
ScanInit ==
    /\ scanCycle = 0 /\ stage = "between"
    /\ scanProposals = {} /\ eligible = {} /\ unvisited = {} /\ decided = {}
    /\ live = {} /\ adapterList = {}

\* Phase A: the account as reconciled; a position closed by hand stays in the adapter's own list,
\* one found at the broker is registered in it.
BeginCycle ==
    /\ stage = "between" /\ scanCycle < MaxCycles
    /\ scanCycle' = scanCycle + 1 /\ stage' = "scan"
    /\ \E closed \in SUBSET live, found \in SUBSET (Instruments \ live) :
         /\ Cardinality(closed \cup found) <= 1
         /\ live' = (live \ closed) \cup found
         /\ adapterList' = adapterList \cup found
    /\ decided' = {}
    /\ UNCHANGED <<scanProposals, eligible, unvisited>>

\* runUniverseScan: an instrument outside its hours or without a usable history is skipped; an answer
\* that is not accepted clears the selection.
Scan ==
    /\ stage = "scan" /\ stage' = "act"
    /\ eligible' \in SUBSET Instruments
    /\ \E answer \in Answers :
         scanProposals' = IF Accepted(answer)
                          THEN {[instrument |-> p.instrument, action |-> p.action, confidence |-> p.confidence,
                                 from |-> scanCycle] : p \in Selected(answer)}
                          ELSE {}
    /\ unvisited' = Instruments
    /\ UNCHANGED <<scanCycle, live, adapterList, decided>>

\* Mutant: a failed scan leaves the last selection in the strategy.
ScanFailsKeeping ==
    /\ stage = "scan" /\ stage' = "act"
    /\ unvisited' = Instruments
    /\ UNCHANGED <<scanCycle, scanProposals, eligible, live, adapterList, decided>>

\* An audit write or a candidate lookup throws, before or after the selection: it is cleared.
ScanFails ==
    /\ stage = "scan" /\ stage' = "act"
    /\ scanProposals' = {}
    /\ unvisited' = Instruments
    /\ UNCHANGED <<scanCycle, eligible, live, adapterList, decided>>

\* HermesAgentStrategy.evaluate.
AgentDecision(i) ==
    LET wanted == IF i \in live THEN "SELL" ELSE "BUY"
        mine   == {p \in scanProposals : p.instrument = i /\ p.action = wanted}
    IN  IF mine = {} THEN [instrument |-> i, action |-> "HOLD", from |-> scanCycle]
        ELSE [instrument |-> i, action |-> wanted, from |-> (CHOOSE p \in mine : TRUE).from]

\* Phase B of one instrument; its order may be refused, wait for approval, or fill at once.
Act(i) ==
    /\ stage = "act" /\ i \in unvisited
    /\ unvisited' = unvisited \ {i}
    /\ decided' = decided \cup {AgentDecision(i)}
    /\ \/ UNCHANGED <<live, adapterList>>
       \/ /\ AgentDecision(i).action = "BUY" /\ Cardinality(adapterList) < MAX_OPEN_POSITIONS
          /\ live' = live \cup {i} /\ adapterList' = adapterList \cup {i}
       \/ /\ AgentDecision(i).action = "SELL"
          /\ live' = live \ {i} /\ adapterList' = adapterList \ {i}
    /\ stage' = IF unvisited' = {} THEN "between" ELSE "act"
    /\ UNCHANGED <<scanCycle, scanProposals, eligible>>

\* A restart between cycles: the strategy starts empty and the adapter learns the open positions.
AgentRestart ==
    /\ stage = "between" /\ scanProposals # {}
    /\ scanProposals' = {} /\ adapterList' = live /\ decided' = {}
    /\ UNCHANGED <<scanCycle, stage, eligible, unvisited, live>>

ScanNext == BeginCycle \/ Scan \/ ScanFails \/ AgentRestart \/ \E i \in unvisited : Act(i)
ScanSpec == ScanInit /\ [][ScanNext]_scanVars

-----------------------------------------------------------------------------
\* Phase B acts on nothing but a proposal of this cycle's own scan, for an instrument that scan could
\* price: a scan that fails or is refused leaves no earlier selection behind
\* (trading-runtime.ts 866-868, hermes-agent-strategy.ts 59-61).
ActsOnFreshProposals ==
    \A d \in decided : d.action # "HOLD" => d.from = scanCycle /\ d.instrument \in eligible

\* A selection can be executed in full: at most one proposal per instrument, no BUY where the adapter
\* holds a position and no SELL where it holds none, and all BUYs together stay within the limit on
\* open positions.
SelectionFitsAccount ==
    stage = "act" /\ unvisited = Instruments =>
        LET buys == {p.instrument : p \in {q \in scanProposals : q.action = "BUY"}} IN
        /\ \A p, q \in scanProposals : p.instrument = q.instrument => p = q
        /\ Cardinality(scanProposals) <= MAX_PROPOSALS
        /\ buys \cap adapterList = {}
        /\ buys # {} => Cardinality(buys \cup adapterList) <= MAX_OPEN_POSITIONS
        /\ \A p \in scanProposals : p.action = "SELL" => p.instrument \in adapterList

\* A cycle acts on the proposals of its own scan, as many as the account has room for
\* (universe-scanner.ts, rank-proposals.ts).
ScanIsSound == ActsOnFreshProposals /\ SelectionFitsAccount
=============================================================================
