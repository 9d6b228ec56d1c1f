---------------------------- MODULE DailySummary ----------------------------
(***************************************************************************)
(* DailyAccountSummaryService.maybeSend: once an evening, after 21:00 in    *)
(* London, a cycle sends the account summary.  A failed send is retried by  *)
(* a later cycle; the date of a successful one is cached and written to a   *)
(* file, for the next process.  Each await is a step.                       *)
(***************************************************************************)
EXTENDS Naturals

CONSTANT MaxDay      \* bound on the days that pass

VARIABLES
  day, evening,   \* the London calendar date; is it 21:00 or later?
  pc,             \* where maybeSend is
  today,          \* todayLondon, as maybeSend computed it
  cached,         \* cachedLastSentDate: Unread before the first load
  summaryFile,           \* lastSentDate on disk
  delivered,      \* summaries the operator received of each day
  summaryPast            \* history: which kinds of fault have happened so far

summaryVars == <<day, evening, pc, today, cached, summaryFile, delivered, summaryPast>>

Day == 1 .. MaxDay
Never == 0               \* nothing was ever sent: null, or an unreadable file
Unread == MaxDay + 1
ManySends == 2           \* bound: the count of delivered summaries stops here

\* The audit trail cannot be written; the date cannot be saved or read; no
\* graceful stop; a summary goes out and its send throws all the same.  (A
\* summary that did not go out is not among them.)
Fault == { "audit", "disk", "crash", "answer" }

SummaryTypeOK ==
  /\ day \in Day /\ evening \in BOOLEAN
  /\ pc \in { "idle", "sending", "sent", "recorded" }
  /\ today \in Day \cup {Never}
  /\ cached \in Day \cup {Never, Unread}
  /\ summaryFile \in Day \cup {Never}
  /\ delivered \in [Day -> 0 .. ManySends]
  /\ summaryPast \subseteq Fault

SummaryInit ==
  /\ day = 1 /\ evening = FALSE
  /\ pc = "idle" /\ today = Never
  /\ cached = Unread /\ summaryFile = Never
  /\ delivered = [d \in Day |-> 0]
  /\ summaryPast = {}

Clock ==
  /\ \/ ~evening /\ evening' = TRUE /\ UNCHANGED day
     \/ evening /\ evening' = FALSE /\ day < MaxDay /\ day' = day + 1
  /\ UNCHANGED <<pc, today, cached, summaryFile, delivered, summaryPast>>

-----------------------------------------------------------------------------
(* maybeSend *)

\* stateStore.load: a failure reads as null, like a file that is not there.
LoadDate ==
  \/ cached = Unread /\ cached' = summaryFile /\ UNCHANGED summaryPast
  \/ cached = Unread /\ cached' = Never /\ summaryPast' = summaryPast \cup {"disk"}
  \/ cached # Unread /\ UNCHANGED <<cached, summaryPast>>

Check ==
  /\ pc = "idle" /\ evening
  /\ LoadDate
  /\ \/ cached' = day /\ UNCHANGED <<pc, today>>
     \/ cached' # day /\ pc' = "sending" /\ today' = day
  /\ UNCHANGED <<day, evening, summaryFile, delivered>>

\* One more summary of day d reached the operator.
Received(d) == [delivered EXCEPT ![d] = IF @ < ManySends THEN @ + 1 ELSE @]

Deliver ==
  /\ pc = "sending"
  /\ pc' = "sent"
  /\ delivered' = Received(today)
  /\ UNCHANGED <<day, evening, today, cached, summaryFile, summaryPast>>

\* The message went out but the send throws: the Hermes process is killed when
\* its time is up, or its answer is no use.  The service cannot tell this from
\* a summary that was not delivered, and tries again.
DeliverUnanswered ==
  /\ pc = "sending"
  /\ pc' = "idle" /\ today' = Never
  /\ delivered' = Received(today)
  /\ summaryPast' = summaryPast \cup {"answer"}
  /\ UNCHANGED <<day, evening, cached, summaryFile>>

\* Mutant: a summary that was not sent counts as sent.
NotDeliveredButMarked ==
  /\ pc = "sending"
  /\ pc' = "idle" /\ today' = Never
  /\ cached' = today
  /\ UNCHANGED <<day, evening, summaryFile, delivered, summaryPast>>

\* The account cannot be read, or the send throws and nothing went out: a later
\* cycle tries again.
NotDelivered ==
  /\ pc = "sending"
  /\ pc' = "idle" /\ today' = Never
  /\ UNCHANGED <<day, evening, cached, summaryFile, delivered, summaryPast>>

\* The audit event of a delivered summary, and the catch around all of it.
Record ==
  /\ pc = "sent"
  /\ \/ pc' = "recorded" /\ UNCHANGED <<today, summaryPast>>
     \/ pc' = "idle" /\ today' = Never /\ summaryPast' = summaryPast \cup {"audit"}
  /\ UNCHANGED <<day, evening, cached, summaryFile, delivered>>

\* Mutants: the date is off by one; it is read again at the end of the cycle.
SaveTomorrow ==
  /\ pc = "recorded"
  /\ cached' = today
  /\ summaryFile' = today + 1
  /\ pc' = "idle" /\ today' = Never
  /\ UNCHANGED <<day, evening, delivered, summaryPast>>

SaveCurrentDate ==
  /\ pc = "recorded"
  /\ cached' = day
  /\ summaryFile' = day
  /\ pc' = "idle" /\ today' = Never
  /\ UNCHANGED <<day, evening, delivered, summaryPast>>

\* The date is cached, and saved unless that fails, which is only logged.
Save ==
  /\ pc = "recorded"
  /\ cached' = today
  /\ \/ summaryFile' = today /\ UNCHANGED summaryPast
     \/ UNCHANGED summaryFile /\ summaryPast' = summaryPast \cup {"disk"}
  /\ pc' = "idle" /\ today' = Never
  /\ UNCHANGED <<day, evening, delivered>>

-----------------------------------------------------------------------------
(* The process *)

SummaryRestart ==
  /\ pc = "idle" /\ cached # Unread
  /\ cached' = Unread
  /\ UNCHANGED <<day, evening, pc, today, summaryFile, delivered, summaryPast>>

\* The file is overwritten in place: a crash inside save may leave it unreadable.
SummaryCrash ==
  /\ pc # "idle"
  /\ pc' = "idle" /\ today' = Never /\ cached' = Unread
  /\ summaryFile' \in (IF pc = "recorded" THEN {summaryFile, Never} ELSE {summaryFile})
  /\ summaryPast' = summaryPast \cup {"crash"}
  /\ UNCHANGED <<day, evening, delivered>>

SummaryNext ==
  \/ Clock \/ Check \/ Deliver \/ DeliverUnanswered \/ NotDelivered \/ Record \/ Save
  \/ SummaryRestart \/ SummaryCrash

SummarySpec == SummaryInit /\ [][SummaryNext]_summaryVars

\* The cycles go on, time passes, and delivery does not fail for ever.
SummaryFairSpec ==
  /\ SummarySpec
  /\ WF_summaryVars(Clock) /\ WF_summaryVars(Check) /\ SF_summaryVars(Deliver)
  /\ WF_summaryVars(Record) /\ WF_summaryVars(Save)

-----------------------------------------------------------------------------
\* "A failed send must remain retryable within the same day; a successful one
\* must never be duplicated, including across a process restart" (top of
\* daily-account-summary-service.ts): so it is while nothing has failed but readings
\* of the account and sends that delivered nothing.  A send that throws after its message went out is a
\* fault here: the service takes it for a failed one and sends a second time.
SentOncePerDay == summaryPast = {} => \A d \in Day : delivered[d] <= 1

\* The same with an audit trail that may fail to be written.
NeverDuplicated == summaryPast \subseteq {"audit"} => \A d \in Day : delivered[d] <= 1

\* A day is never marked as sent, in memory or on disk, before its summary was
\* delivered: no fault makes the service skip an evening it has not reported.
MarkedMeansSent ==
  \A d \in Day : cached = d \/ summaryFile = d => delivered[d] > 0

\* On an evening that lasts the summary gets through, whatever has failed.
SummaryGoesOut == <>(delivered[MaxDay] > 0)

\* Across restarts a summary whose send was answered is not sent again while the audit
\* trail and the file work, and a date marked as done is one whose summary went out,
\* whatever has failed: SentOncePerDay and MarkedMeansSent.
SummaryOncePerEvening == SentOncePerDay /\ MarkedMeansSent
=============================================================================
