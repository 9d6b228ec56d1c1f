------------------------------- MODULE Parts -------------------------------
(***************************************************************************)
(* The parts of the system that share no state with each other, each alone: *)
(* the behaviours of one of them are those whose subject it is, and all the *)
(* others then stay as they start.  The pure rules are the subject "call".  *)
(***************************************************************************)
EXTENDS MarketDataIncident, StartupChecks, MarketChecks, LabChecks, IntegrationChecks,
        IntakeChecks, LedgerChecks, RuntimeControl, DailySummary, AlertTrail,
        OpposingStability, HermesScan, PaperExecution, Acquisition, MarketUniverse

VARIABLE subject

Subjects == {"incident", "call", "runtime", "summary", "replay", "alerts", "stability", "scan", "acquisition", "universe"}
allVars == <<vars, call, subject, runtimeVars, summaryVars, replayVars, alertVars, stabilityVars, scanVars, archiveVars, universeVars>>

PartsInit ==
    /\ subject \in Subjects
    /\ Init /\ NothingAsked
    /\ RuntimeInit /\ SummaryInit /\ ReplayInit /\ AlertInit /\ StabilityInit /\ ScanInit /\ ArchiveInit /\ UniverseInit

Call == AskStartup \/ AskMarket \/ AskLab \/ AskIntegration \/ AskIntake \/ AskLedger

\* One step of the subject, and of nothing else.
Incident == subject = "incident" /\ Next
    /\ UNCHANGED <<subject, call, runtimeVars, summaryVars, replayVars, alertVars, stabilityVars, scanVars, archiveVars, universeVars>>
Calling == subject = "call" /\ Call
    /\ UNCHANGED <<subject, vars, runtimeVars, summaryVars, replayVars, alertVars, stabilityVars, scanVars, archiveVars, universeVars>>
Runtime == subject = "runtime" /\ RuntimeNext
    /\ UNCHANGED <<subject, vars, call, summaryVars, replayVars, alertVars, stabilityVars, scanVars, archiveVars, universeVars>>
Summary == subject = "summary" /\ SummaryNext
    /\ UNCHANGED <<subject, vars, call, runtimeVars, replayVars, alertVars, stabilityVars, scanVars, archiveVars, universeVars>>
Replay == subject = "replay" /\ ReplayNext
    /\ UNCHANGED <<subject, vars, call, runtimeVars, summaryVars, alertVars, stabilityVars, scanVars, archiveVars, universeVars>>
Alerts == subject = "alerts" /\ AlertNext
    /\ UNCHANGED <<subject, vars, call, runtimeVars, summaryVars, replayVars, stabilityVars, scanVars, archiveVars, universeVars>>
Stability == subject = "stability" /\ StabilityNext
    /\ UNCHANGED <<subject, vars, call, runtimeVars, summaryVars, replayVars, alertVars, scanVars, archiveVars, universeVars>>
Scanning == subject = "scan" /\ ScanNext
    /\ UNCHANGED <<subject, vars, call, runtimeVars, summaryVars, replayVars, alertVars, stabilityVars, archiveVars, universeVars>>
Acquiring == subject = "acquisition" /\ ArchiveNext
    /\ UNCHANGED <<subject, vars, call, runtimeVars, summaryVars, replayVars, alertVars, stabilityVars, scanVars, universeVars>>
Refreshing == subject = "universe" /\ UniverseNext
    /\ UNCHANGED <<subject, vars, call, runtimeVars, summaryVars, replayVars, alertVars, stabilityVars, scanVars, archiveVars>>

\* These come to an end, or stop at their bounds.
Ends == subject \in {"call", "replay", "alerts", "stability", "scan", "acquisition", "universe"} /\ UNCHANGED allVars

PartsNext == Incident \/ Calling \/ Runtime \/ Summary \/ Replay \/ Alerts \/ Stability \/ Scanning \/ Acquiring \/ Refreshing \/ Ends

\* Each part's own fairness, while it is the subject.
PartsFairness ==
    /\ \A k \in Kind : WF_vars(subject = "incident" /\ Announce(k))
    /\ WF_vars(subject = "incident" /\ Write)
    /\ WF_vars(subject = "incident" /\ \E obs \in [Instrument -> Observation] : Observe(obs))
    /\ WF_runtimeVars(subject = "runtime" /\ Start)
    /\ WF_runtimeVars(subject = "runtime" /\ StartScheduler)
    /\ WF_runtimeVars(subject = "runtime" /\ Tick)
    /\ WF_runtimeVars(subject = "runtime" /\ Reply)
    /\ WF_runtimeVars(subject = "runtime" /\ LoopEnds)
    /\ WF_runtimeVars(subject = "runtime" /\ Shutdown)
    /\ WF_summaryVars(subject = "summary" /\ Clock)
    /\ WF_summaryVars(subject = "summary" /\ Check)
    /\ SF_summaryVars(subject = "summary" /\ Deliver)
    /\ WF_summaryVars(subject = "summary" /\ Record)
    /\ WF_summaryVars(subject = "summary" /\ Save)
    /\ WF_alertVars(subject = "alerts" /\ \E w \in Writer :
                        BeginRecord(w) \/ Persist(w) \/ SendAlert(w) \/ Return(w))

PartsSpec == PartsInit /\ [][PartsNext]_allVars /\ PartsFairness

-----------------------------------------------------------------------------
(* The properties of the parts: conjunctions of those their modules explain. *)

\* Every part's state has its type.
PartsTypeOK == TypeOK /\ RuntimeTypeOK /\ SummaryTypeOK

\* A runtime that may run keeps running cycles, one that may not begins none, and both a
\* stop and a signal come to their end whatever the broker does.
RuntimeLives ==
    /\ CyclesOnlyWhileRunning
    /\ subject = "runtime" => StopTerminates
    /\ subject = "runtime" => RunningKeepsCycling
    /\ subject = "runtime" => SignalExits

\* News gets out in the end: an instrument that stays healthy is announced, the evening's
\* summary is sent, and a writer of the audit trail is not held up by a failing alert.
NewsGetsOut ==
    /\ subject = "incident" => HealthyIsAnnounced
    /\ subject = "summary" => SummaryGoesOut
    /\ subject = "alerts" => RecordReturns
=============================================================================
