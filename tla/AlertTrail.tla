----------------------------- MODULE AlertTrail -----------------------------
(***************************************************************************)
(* The audit trail on disk and the alerts sent from it: JsonFileAuditTrail, *)
(* TelegramAlertingAuditTrail around it and HermesGatewayAlertSender behind *)
(* that.  Writers (the trading cycle, the Telegram loop) record events      *)
(* concurrently; writes to the file queue on a lock; an alert is a run of  *)
(* the hermes command, which may fail, or time out after delivering.        *)
(***************************************************************************)
EXTENDS Integers, Sequences, SequencesExt, FiniteSets, FiniteSetsExt, TLC

CONSTANTS
    Writer,
    Feed,                        \* the events [type, about] each writer records, one after another
    MAX_REMEMBERED,              \* DEDUPE_CACHE_MAX_ENTRIES
    MaxFailures, MaxCrashes      \* bounds

Trade == {"TRADE_OPENED", "TRADE_CLOSED"}

\* What the callers of record() do: each writer records one event after another, and a position
\* is opened once and closed once.
ASSUME FeedAssumption ==
    /\ DOMAIN Feed = Writer
    /\ \A w \in Writer : Feed[w] \in Seq(ToSet(Feed[w]))
    /\ \A w \in Writer : \A e \in ToSet(Feed[w]) : e = [type |-> e.type, about |-> e.about]
    /\ \A v, w \in Writer : \A i \in DOMAIN Feed[v], j \in DOMAIN Feed[w] :
          Feed[v][i].type \in Trade /\ Feed[v][i] = Feed[w][j] => v = w /\ i = j
    /\ MAX_REMEMBERED \in Nat \ {0} /\ MaxFailures \in Nat /\ MaxCrashes \in Nat

VARIABLES
    feed,        \* writer -> events still to be recorded
    doing,       \* writer -> what its record() awaits
    memory,      \* the events in memory
    disk,        \* the file
    waiting,     \* the write lock: writers in the order they asked
    sent,        \* the sender's remembered texts, oldest first
    heard,       \* events whose text reached the operator
    settled,     \* events whose record() returned
    budget       \* failures and crashes left
alertVars == <<feed, doing, memory, disk, waiting, sent, heard, settled, budget>>

Idle == [at |-> "idle"]

\* What formatAlert tells apart: a trade by its position, an incident by what it is about, and a
\* routine event not at all.  No text carries the time of an incident.
FormatAlert(event) ==
    CASE event.type \in {"TRADE_OPENED", "TRADE_CLOSED", "TRADE_CLOSE_FAILED", "BROKER_CONNECTION_FAILED",
                         "TRADING_CYCLE_FAILED", "MARKET_DATA_INCIDENT_OPENED", "MARKET_DATA_INCIDENT_CHANGED",
                         "MARKET_DATA_INCIDENT_RECOVERED"} -> {<<event.type, event.about>>}
      [] OTHER -> {}

AlertInit ==
    /\ feed = Feed
    /\ doing = [w \in Writer |-> Idle]
    /\ memory = <<>> /\ disk = <<>> /\ waiting = <<>> /\ sent = <<>>
    /\ heard = {} /\ settled = {}
    /\ budget = [failures |-> MaxFailures, crashes |-> MaxCrashes]

SendFails == budget.failures > 0 /\ budget' = [budget EXCEPT !.failures = @ - 1]
Await(w, what) == doing' = [doing EXCEPT ![w] = what]

\* The event w records next, told apart from the others by its writer and its place.
Upcoming(w) == [type |-> Head(feed[w]).type, about |-> Head(feed[w]).about, by |-> w, left |-> Len(feed[w])]

\* record(): the event is in memory before its write is queued.
Push(w, entry, event, then) ==
    /\ memory' = Append(memory, entry)
    /\ waiting' = Append(waiting, w)
    /\ Await(w, [at |-> "write", event |-> event, then |-> then])

\* Mutant: the alert goes out before the event is written.
BeginRecordAlertFirst(w) ==
    /\ doing[w] = Idle /\ feed[w] # <<>>
    /\ feed' = [feed EXCEPT ![w] = Tail(@)]
    /\ IF FormatAlert(Upcoming(w)) = {}
       THEN Push(w, Upcoming(w), Upcoming(w), "return")
       ELSE Await(w, [at |-> "alert", event |-> Upcoming(w)]) /\ UNCHANGED <<memory, waiting>>
    /\ UNCHANGED <<disk, sent, heard, settled, budget>>

BeginRecord(w) ==
    /\ doing[w] = Idle /\ feed[w] # <<>>
    /\ feed' = [feed EXCEPT ![w] = Tail(@)]
    /\ Push(w, Upcoming(w), Upcoming(w), IF FormatAlert(Upcoming(w)) = {} THEN "return" ELSE "alert")
    /\ UNCHANGED <<disk, sent, heard, settled, budget>>

\* Mutant: record() returns normally when its write failed.
PersistSwallowing(w) ==
    /\ doing[w].at = "write" /\ waiting # <<>> /\ Head(waiting) = w
    /\ waiting' = Tail(waiting)
    /\ Await(w, [doing[w] EXCEPT !.at = doing[w].then])
    /\ (disk' = memory /\ UNCHANGED budget) \/ (SendFails /\ UNCHANGED disk)
    /\ UNCHANGED <<feed, memory, sent, heard, settled>>

\* Mutant: a failed write keeps the lock.
PersistKeepingLock(w) ==
    /\ doing[w].at = "write" /\ waiting # <<>> /\ Head(waiting) = w
    /\ \/ /\ disk' = memory /\ waiting' = Tail(waiting)
          /\ Await(w, [doing[w] EXCEPT !.at = doing[w].then])
          /\ UNCHANGED budget
       \/ SendFails /\ Await(w, [doing[w] EXCEPT !.at = "throw"]) /\ UNCHANGED <<disk, waiting>>
    /\ UNCHANGED <<feed, memory, sent, heard, settled>>

\* writeAtomically, under the lock: the whole of memory by temporary file and rename, or nothing.
\* The failed write of a failed notification is swallowed.
Persist(w) ==
    /\ doing[w].at = "write" /\ waiting # <<>> /\ Head(waiting) = w
    /\ waiting' = Tail(waiting)
    /\ \/ /\ disk' = memory
          /\ Await(w, [doing[w] EXCEPT !.at = doing[w].then])
          /\ UNCHANGED budget
       \/ SendFails /\ Await(w, [doing[w] EXCEPT !.at = IF doing[w].then = "noted" THEN "return" ELSE "throw"]) /\ UNCHANGED disk
    /\ UNCHANGED <<feed, memory, sent, heard, settled>>

Remember(text) ==
    sent' = Append(IF Len(sent) >= MAX_REMEMBERED THEN Tail(sent) ELSE sent, text)

\* Mutant: a failed notification is not put on record.
SendAlertUnrecorded(w) ==
    /\ doing[w].at = "alert"
    /\ Await(w, [doing[w] EXCEPT !.at = "return"])
    /\ LET event == doing[w].event
           text  == CHOOSE t \in FormatAlert(event) : TRUE
       IN  \/ text \in ToSet(sent) /\ UNCHANGED <<sent, heard, budget>>
           \/ text \notin ToSet(sent) /\ Remember(text) /\ heard' = heard \cup {event} /\ UNCHANGED budget
           \/ text \notin ToSet(sent) /\ SendFails /\ UNCHANGED <<sent, heard>>
    /\ UNCHANGED <<feed, memory, disk, waiting, settled>>

\* HermesGatewayAlertSender.sendAlert: a text sent before is not sent again.
SendAlert(w) ==
    /\ doing[w].at = "alert"
    /\ LET event == doing[w].event
           text  == CHOOSE t \in FormatAlert(event) : TRUE
           failed == [type |-> "TELEGRAM_NOTIFICATION_FAILED", about |-> event.about, by |-> event.by, left |-> event.left]
       IN  \/ /\ text \in ToSet(sent)
              /\ Await(w, [doing[w] EXCEPT !.at = "return"])
              /\ UNCHANGED <<memory, waiting, sent, heard, budget>>
           \/ /\ text \notin ToSet(sent)
              /\ Remember(text) /\ heard' = heard \cup {event}
              /\ Await(w, [doing[w] EXCEPT !.at = "return"])
              /\ UNCHANGED <<memory, waiting, budget>>
           \/ /\ text \notin ToSet(sent)
              /\ SendFails /\ heard' \in {heard, heard \cup {event}}      \* the timeout may come after the delivery
              /\ Push(w, failed, event, "noted") /\ UNCHANGED sent
    /\ UNCHANGED <<feed, disk, settled>>

Return(w) ==
    /\ doing[w].at \in {"return", "throw", "noted"}
    /\ settled' = IF doing[w].at # "throw" THEN settled \cup {doing[w].event} ELSE settled
    /\ Await(w, Idle)
    /\ UNCHANGED <<feed, memory, disk, waiting, sent, heard, budget>>

\* The process dies and loads the file again (loadExisting); what it remembered is gone.
TrailCrash ==
    /\ budget.crashes > 0 /\ budget' = [budget EXCEPT !.crashes = @ - 1]
    /\ memory' = disk /\ doing' = [w \in Writer |-> Idle]
    /\ waiting' = <<>> /\ sent' = <<>>
    /\ UNCHANGED <<feed, disk, heard, settled>>

AlertNext == TrailCrash \/ \E w \in Writer : BeginRecord(w) \/ Persist(w) \/ SendAlert(w) \/ Return(w)
AlertSpec == AlertInit /\ [][AlertNext]_alertVars
AlertFairness == WF_alertVars(\E w \in Writer : BeginRecord(w) \/ Persist(w) \/ SendAlert(w) \/ Return(w))

-----------------------------------------------------------------------------
Routine(e) == e.type \notin {"TELEGRAM_NOTIFICATION_FAILED"}

\* An event whose record() returned is in the file, through every crash and every overlap of two
\* writers, in the order memory has (json-file-audit-trail.ts 44-72).
AcknowledgedIsDurable ==
    /\ IsPrefix(disk, memory)
    /\ \A e \in settled : Routine(e) => e \in ToSet(disk)

\* The operator hears of nothing the file does not hold: the alert waits for the write.
ToldIsOnRecord == heard \subseteq ToSet(disk)

FailureNoted(e) ==
    \E i \in DOMAIN memory : memory[i].type = "TELEGRAM_NOTIFICATION_FAILED" /\ memory[i].by = e.by /\ memory[i].left = e.left

\* The opening or closing of a trade reaches the operator, or the trail says that it did not.
TradeNeverSilent ==
    \A e \in settled : e.type \in Trade /\ budget.crashes = MaxCrashes
        => e \in heard \/ FailureNoted(e)

\* The same of an incident's opening and its end.  telegram-alerting-audit-trail.ts 262-266: "an
\* operator who received the OPENED/CHANGED alert above is never left to infer recovery from silence
\* alone. A later re-failure of the same instrument always produces a brand new
\* MARKET_DATA_INCIDENT_OPENED alert, never silently suppressed as 'already seen.'"
IncidentNeverSilent ==
    \A e \in settled :
        e.type \in {"MARKET_DATA_INCIDENT_OPENED", "MARKET_DATA_INCIDENT_RECOVERED"} /\ budget.crashes = MaxCrashes
        => e \in heard \/ FailureNoted(e)

\* What was acknowledged is on disk, what the operator was told is on record, and a trade is
\* told or the trail says that telling failed (telegram-alerting-audit-trail.ts).
AlertsAreFaithful == AcknowledgedIsDurable /\ ToldIsOnRecord /\ TradeNeverSilent

\* record() always comes back: no writer waits on the write lock for ever, however writes fail.
RecordReturns == \A w \in Writer : doing[w].at = "write" ~> doing[w].at # "write"
=============================================================================
