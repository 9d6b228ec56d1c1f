--------------------------- MODULE RuntimeControl ---------------------------
(***************************************************************************)
(* The shell around a trading cycle: the runtime's own states and timer     *)
(* (TradingRuntime, TradingScheduler), the Telegram loop that pauses,       *)
(* resumes and runs it (TelegramBot), and the shutdown of the process       *)
(* (market-runtime).  Each await is a step: start() waits for the incident  *)
(* file, stop() for the active cycle and then for pending writes, the       *)
(* Telegram loop for the command it handles.  What a cycle does is in       *)
(* ProtectionPhase and ExecutionPhase; here it runs, and may never return.  *)
(***************************************************************************)
EXTENDS Naturals

VARIABLES
  boot,      \* main(): "new", "loading" (inside start()), "ready" (signals handled)
  state,     \* TradingRuntimeState
  timers,    \* scheduler timers pending
  cycle,     \* "none", or the trigger of the cycle that isCycleRunning
  outcome,   \* kind of the last attempt
  shutdown,  \* "no"; inside stop(): "cycle", "flush", "audit"; then "bot", "exited"
  timedOut,  \* details.timedOut of TRADING_RUNTIME_STOPPED
  bot,       \* the Telegram loop: "off", "polling", "running", "replying", "done"
  polling    \* TelegramBot.polling

runtimeVars == <<boot, state, timers, cycle, outcome, shutdown, timedOut, bot, polling>>

RuntimeState == { "STOPPED", "RUNNING", "PAUSED", "STOPPING" }
ValidRuntimeTransitions ==
  { <<"STOPPED", "RUNNING">>, <<"RUNNING", "PAUSED">>, <<"RUNNING", "STOPPING">>,
    <<"PAUSED", "RUNNING">>, <<"PAUSED", "STOPPING">>, <<"STOPPING", "STOPPED">> }

RuntimeTypeOK ==
  /\ boot \in {"new", "loading", "ready"}
  /\ state \in RuntimeState
  /\ timers \in Nat
  /\ cycle \in {"none", "scheduled", "manual"}
  /\ outcome \in {"none", "completed", "paused", "overlap", "closed"}
  /\ shutdown \in {"no", "cycle", "flush", "audit", "bot", "exited"}
  /\ timedOut \in BOOLEAN
  /\ bot \in {"off", "polling", "running", "replying", "done"}
  /\ polling \in BOOLEAN

RuntimeInit ==
  /\ boot = "new" /\ state = "STOPPED" /\ timers = 0
  /\ cycle = "none" /\ outcome = "none"
  /\ shutdown = "no" /\ timedOut = FALSE
  /\ bot = "off" /\ polling = FALSE

Running == shutdown # "exited"        \* the process is alive
May(to) == <<state, to>> \in ValidRuntimeTransitions

-----------------------------------------------------------------------------
(* start() *)

\* main() starts the Telegram loop and then calls start(), which is RUNNING
\* before it waits for the persisted incidents.
Start ==
  /\ boot = "new" /\ May("RUNNING")
  /\ boot' = "loading"
  /\ state' = "RUNNING"
  /\ bot' = "polling" /\ polling' = TRUE
  /\ UNCHANGED <<timers, cycle, outcome, shutdown, timedOut>>

\* Only then is the scheduler created and started; signals are handled once
\* start() has returned.
StartScheduler ==
  /\ boot = "loading"
  /\ boot' = "ready"
  /\ timers' = timers + 1
  /\ UNCHANGED <<state, cycle, outcome, shutdown, timedOut, bot, polling>>

-----------------------------------------------------------------------------
(* attemptCycle *)

\* The gates, in order, for a caller that does not override a pause: paused,
\* overlapping, and the market hours policy, which may say no at any time.
\* Nothing is awaited between them and isCycleRunning.
Attempt(trigger) ==
  \/ state = "PAUSED" /\ outcome' = "paused" /\ UNCHANGED cycle
  \/ state # "PAUSED" /\ cycle # "none" /\ outcome' = "overlap" /\ UNCHANGED cycle
  \/ /\ state # "PAUSED" /\ cycle = "none"
     /\ \/ cycle' = trigger /\ UNCHANGED outcome
        \/ outcome' = "closed" /\ UNCHANGED cycle

\* Mutant: a tick that is skipped does not schedule the next one.
TickOnlyAfterRunning ==
  /\ Running /\ timers > 0
  /\ Attempt("scheduled")
  /\ timers' = IF cycle' = cycle THEN timers - 1 ELSE timers
  /\ UNCHANGED <<boot, state, shutdown, timedOut, bot, polling>>

\* fire(): the tick, then the next timer, whatever the tick came to.
Tick ==
  /\ Running /\ timers > 0
  /\ Attempt("scheduled")
  /\ UNCHANGED <<boot, state, timers, shutdown, timedOut, bot, polling>>

\* Mutant: an outcome nobody declared.
CycleEndsUndeclared ==
  /\ Running /\ cycle # "none"
  /\ cycle' = "none"
  /\ outcome' = "done"
  /\ bot' = IF cycle = "manual" THEN "replying" ELSE bot
  /\ UNCHANGED <<boot, state, timers, shutdown, timedOut, polling>>

CycleEnds ==
  /\ Running /\ cycle # "none"
  /\ cycle' = "none"
  /\ outcome' = "completed"
  /\ bot' = IF cycle = "manual" THEN "replying" ELSE bot
  /\ UNCHANGED <<boot, state, timers, shutdown, timedOut, polling>>

-----------------------------------------------------------------------------
(* The Telegram loop: one command at a time, each handled to its end *)

Listening == Running /\ bot = "polling" /\ polling

Pause ==
  /\ Listening
  /\ state' = IF May("PAUSED") THEN "PAUSED" ELSE state
  /\ bot' = "replying"
  /\ UNCHANGED <<boot, timers, cycle, outcome, shutdown, timedOut, polling>>

\* Mutant: resuming starts the scheduler again.
ResumeRestartsScheduler ==
  /\ Listening
  /\ state' = IF state = "PAUSED" THEN "RUNNING" ELSE state
  /\ timers' = IF state = "PAUSED" THEN timers + 1 ELSE timers
  /\ bot' = "replying"
  /\ UNCHANGED <<boot, cycle, outcome, shutdown, timedOut, polling>>

Resume ==
  /\ Listening
  /\ state' = IF May("RUNNING") THEN "RUNNING" ELSE state
  /\ bot' = "replying"
  /\ UNCHANGED <<boot, timers, cycle, outcome, shutdown, timedOut, polling>>

\* /run: the loop waits for the cycle it began.
RunNow ==
  /\ Listening
  /\ \/ /\ state \notin {"STOPPED", "STOPPING"}
        /\ Attempt("manual")
        /\ bot' = IF cycle' = cycle THEN "replying" ELSE "running"
     \/ /\ state \in {"STOPPED", "STOPPING"}
        /\ bot' = "replying"
        /\ UNCHANGED <<cycle, outcome>>
  /\ UNCHANGED <<boot, state, timers, shutdown, timedOut, polling>>

Reply ==
  /\ Running /\ bot = "replying"
  /\ bot' = "polling"
  /\ UNCHANGED <<boot, state, timers, cycle, outcome, shutdown, timedOut, polling>>

\* The long poll returns and the loop sees that it was told to stop.
LoopEnds ==
  /\ Running /\ bot = "polling" /\ ~polling
  /\ bot' = "done"
  /\ UNCHANGED <<boot, state, timers, cycle, outcome, shutdown, timedOut, polling>>

-----------------------------------------------------------------------------
(* SIGINT or SIGTERM: stop(), then the Telegram loop, then exit *)

\* Mutants: the pending timer survives stop(); stop() does not wait.
StopKeepingTimer ==
  /\ boot = "ready" /\ shutdown = "no" /\ May("STOPPING")
  /\ state' = "STOPPING"
  /\ shutdown' = IF cycle = "none" THEN "flush" ELSE "cycle"
  /\ UNCHANGED <<boot, timers, cycle, outcome, timedOut, bot, polling>>

StopWithoutWaiting ==
  /\ boot = "ready" /\ shutdown = "no" /\ May("STOPPING")
  /\ state' = "STOPPING"
  /\ timers' = 0
  /\ shutdown' = "flush"
  /\ UNCHANGED <<boot, cycle, outcome, timedOut, bot, polling>>

Stop ==
  /\ boot = "ready" /\ shutdown = "no" /\ May("STOPPING")
  /\ state' = "STOPPING"
  /\ timers' = 0
  /\ shutdown' = IF cycle = "none" THEN "flush" ELSE "cycle"
  /\ UNCHANGED <<boot, cycle, outcome, timedOut, bot, polling>>

\* Mutant: the wait for the active cycle has no bound.
AwaitCycleUnbounded ==
  /\ shutdown = "cycle" /\ cycle = "none"
  /\ timedOut' = FALSE
  /\ shutdown' = "flush"
  /\ UNCHANGED <<boot, state, timers, cycle, outcome, bot, polling>>

\* awaitActiveCycleWithTimeout: the cycle's end against shutdownTimeoutMs.
AwaitCycle ==
  /\ shutdown = "cycle"
  /\ timedOut' = (cycle # "none")
  /\ shutdown' = "flush"
  /\ UNCHANGED <<boot, state, timers, cycle, outcome, bot, polling>>

\* Pending incident writes are flushed and the runtime is STOPPED, which it
\* then records in the audit trail.
Stopped ==
  /\ shutdown = "flush" /\ May("STOPPED")
  /\ state' = "STOPPED"
  /\ shutdown' = "audit"
  /\ UNCHANGED <<boot, timers, cycle, outcome, timedOut, bot, polling>>

\* Mutant: the shutdown forgets to tell the Telegram loop.
StopReturnsLeavingBot ==
  /\ shutdown = "audit"
  /\ shutdown' = "bot"
  /\ UNCHANGED <<boot, state, timers, cycle, outcome, timedOut, bot, polling>>

\* Only once stop() has returned does the Telegram loop learn of it.
StopReturns ==
  /\ shutdown = "audit"
  /\ shutdown' = "bot"
  /\ polling' = FALSE
  /\ UNCHANGED <<boot, state, timers, cycle, outcome, timedOut, bot>>

Exit ==
  /\ shutdown = "bot" /\ bot = "done"
  /\ shutdown' = "exited"
  /\ UNCHANGED <<boot, state, timers, cycle, outcome, timedOut, bot, polling>>

\* The supervisor starts the process again.
RuntimeRestart ==
  /\ shutdown = "exited"
  /\ boot' = "new" /\ state' = "STOPPED" /\ timers' = 0
  /\ cycle' = "none" /\ outcome' = "none"
  /\ shutdown' = "no" /\ timedOut' = FALSE
  /\ bot' = "off" /\ polling' = FALSE

-----------------------------------------------------------------------------
Command == Pause \/ Resume \/ RunNow
Shutdown == AwaitCycle \/ Stopped \/ StopReturns \/ Exit

RuntimeNext ==
  \/ Start \/ StartScheduler \/ Tick \/ CycleEnds
  \/ Command \/ Reply \/ LoopEnds
  \/ Stop \/ Shutdown \/ RuntimeRestart

RuntimeSpec == RuntimeInit /\ [][RuntimeNext]_runtimeVars

\* The event loop runs what is ready, timers fire, the long poll returns.  The
\* operator need not send a command, nor anybody a signal, and a cycle may wait
\* for ever on a call to the broker.
RuntimeFairSpec ==
  /\ RuntimeSpec
  /\ WF_runtimeVars(Start) /\ WF_runtimeVars(StartScheduler) /\ WF_runtimeVars(Tick)
  /\ WF_runtimeVars(Reply) /\ WF_runtimeVars(LoopEnds) /\ WF_runtimeVars(Shutdown)

CyclesReturn == WF_runtimeVars(CycleEnds)

-----------------------------------------------------------------------------
\* A cycle begins only while the runtime is RUNNING: not while the operator has
\* paused it, and not once stop() has been called, whoever asks
\* (attemptCycle, which does not look at STOPPING or STOPPED itself).
CyclesOnlyWhileRunning ==
  [][ cycle = "none" /\ cycle' # "none" => state = "RUNNING" ]_runtimeVars

\* Pausing, resuming, skipped and overlapping ticks neither lose the pending
\* timer nor stack a second one (TradingScheduler).
OnePendingTimer ==
  timers = IF boot = "ready" /\ shutdown = "no" THEN 1 ELSE 0

\* A runtime that reports STOPPED without timedOut has abandoned no cycle
\* (stop()).
StoppedMeansIdle == boot = "ready" /\ state = "STOPPED" /\ ~timedOut => cycle = "none"

\* stop() ends even when the active cycle never does (shutdownTimeoutMs).
StopTerminates == state = "STOPPING" ~> state = "STOPPED"

\* A runtime that stays RUNNING, and no longer finds the market closed, keeps
\* running cycles, whatever was paused, resumed or skipped before
\* (TradingScheduler.fire).
RunningKeepsCycling ==
  <>[](state = "RUNNING" /\ shutdown = "no" /\ outcome # "closed") => []<>(cycle # "none")

\* A signal ends the process, provided that no cycle hangs: the bound on stop()
\* does not bound the Telegram loop, which waits for a cycle it began itself
\* (market-runtime.ts, shutdown).
SignalExits == CyclesReturn => (shutdown # "no" ~> shutdown = "exited")

\* The scheduler's timer is neither lost nor doubled by any order of commands, cycles and
\* signals, and a stopped runtime does nothing more (TradingScheduler, stop()):
\* OnePendingTimer and StoppedMeansIdle.
RuntimeIsOrderly == OnePendingTimer /\ StoppedMeansIdle
=============================================================================
