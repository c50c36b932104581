----------------------------- MODULE MetricsBuffer -----------------------------
(***************************************************************************)
(* The metrics of one isolate on their way to the reporter: recorded into  *)
(* a bounded buffer, taken out of it by one flush at a time - when the     *)
(* buffer is full, when a timer fires, at the end of a request - and put   *)
(* back in front when the reporter fails (lib/observability/metrics.ts,    *)
(* worker.ts, instrumentation.ts).                                         *)
(*                                                                         *)
(* What runs between two awaits of the reporter is one action.  A metric   *)
(* is its number in the order of recording.  A failed report may have been *)
(* received or not; an HTTP error is no failure, the code does not look at *)
(* the status.  The runtime may end the request that set the timer, and    *)
(* with it the timer, or the request that awaits a report, and with it     *)
(* everything that would follow the answer: the isolate goes on with       *)
(* flushTimer or flushInFlight as they were.                               *)
(***************************************************************************)
EXTENDS Integers, Sequences, FiniteSets, Functions

CONSTANTS
  DefaultLimit, \* DEFAULT_MAX_BUFFER_SIZE
  Limits,       \* sizes the reporter is configured with
  MaxMetrics,   \* bound: recorded metrics
  MaxFailures   \* bound: failed reports

ASSUME MetricsAssumption ==
  /\ DefaultLimit \in Nat \ {0} /\ Limits \subseteq Nat \ {0}
  /\ MaxMetrics \in Nat /\ MaxFailures \in Nat

VARIABLES
  recorded, \* number of metrics recorded so far
  buffer,   \* bufferedMetrics
  limit,    \* maxBufferSize
  reporter, \* a reporter is configured
  timer,    \* flushTimer: "unset", "set", or "dead": set, but cancelled by the runtime
  flight,   \* flushInFlight: {} or {the batch being reported}
  reported, \* history: metrics whose report resolved
  lost,     \* history: metrics of a report whose request was dropped
  failures

vars == <<recorded, buffer, limit, reporter, timer, flight, reported, lost, failures>>

Timers == {"unset", "set", "dead"}

AllLimits == Limits \cup {DefaultLimit}

Init ==
  /\ recorded = 0 /\ buffer = <<>> /\ limit = DefaultLimit
  /\ reporter = FALSE /\ timer = "unset" /\ flight = {}
  /\ reported = {} /\ lost = {} /\ failures = 0

\* Mutant: one metric too many is kept.
MutantEnforcedLate(b, max) == SubSeq(b, IF Len(b) > max + 1 THEN Len(b) - max ELSE 1, Len(b))

\* Mutant: the newest metrics give way.
MutantEnforced(b, max) == SubSeq(b, 1, IF Len(b) > max THEN max ELSE Len(b))

\* enforceBufferLimit.
Enforced(b, max) == SubSeq(b, IF Len(b) > max THEN Len(b) - max + 1 ELSE 1, Len(b))

\* Mutant: a batch that failed goes to the end of the buffer.
MutantRequeued(batch, b) == b \o batch

\* requeueBatch.
Requeued(batch, b) == batch \o b

\* scheduleFlushTimer: a timer that is set is believed to fire.
Scheduled(t, b, r) == IF t = "unset" /\ b # <<>> /\ r THEN "set" ELSE t

\* Mutant: a flush is left to the timer if one is set.
MutantBusy(t) == flight # {} \/ t # "unset"

\* The caller waits for the flush in flight and does nothing else.
Busy(t) == flight # {}

\* flushMetrics of buffer b.
Flush(b, t) ==
  IF Busy(t) THEN buffer' = b /\ timer' = t /\ UNCHANGED flight
  ELSE /\ buffer' = <<>> /\ timer' = "unset"
       /\ flight' = IF b = <<>> THEN {} ELSE {b}

-----------------------------------------------------------------------------
(* recordMetric, configureMetricsReporter, the ends of requests, the timer.*)

Record ==
  /\ recorded < MaxMetrics
  /\ recorded' = recorded + 1
  /\ LET b == Enforced(Append(buffer, recorded + 1), limit)
     IN  IF Len(b) >= limit THEN Flush(b, timer)
         ELSE buffer' = b /\ timer' = Scheduled(timer, b, reporter) /\ UNCHANGED flight
  /\ UNCHANGED <<limit, reporter, reported, lost, failures>>

\* ensureMetricsReporter of a request that finds another configuration.
Configure(max) ==
  /\ limit' = max /\ reporter' = TRUE
  /\ buffer' = Enforced(buffer, max)
  /\ timer' = Scheduled("unset", Enforced(buffer, max), TRUE)
  /\ UNCHANGED <<recorded, flight, reported, lost, failures>>

\* flushAfterDeferredTasks of the worker; logMetrics.
EndOfRequest ==
  /\ Flush(buffer, timer)
  /\ UNCHANGED <<recorded, limit, reporter, reported, lost, failures>>

FireTimer ==
  /\ timer = "set" /\ Flush(buffer, "unset")
  /\ UNCHANGED <<recorded, limit, reporter, reported, lost, failures>>

\* The request that set the timer is over.
CancelTimer ==
  /\ timer = "set" /\ timer' = "dead"
  /\ UNCHANGED <<recorded, buffer, limit, reporter, flight, reported, lost, failures>>

-----------------------------------------------------------------------------
(* The reporter answers.                                                   *)

\* Mutant: metrics recorded meanwhile wait for the next one to be recorded.
MutantAfterFlight(t, b) == t

\* The finally of flushMetrics.
AfterFlight(t, b) == Scheduled(t, b, reporter)

\* The report whose request still lives.
Awaited == {batch \in flight : Range(batch) \cap lost = {}}

\* Without a reporter the batch went to the console.
Succeed ==
  \E batch \in Awaited :
    /\ flight' = {}
    /\ timer' = AfterFlight(timer, buffer)
    /\ reported' = reported \cup Range(batch)
    /\ UNCHANGED <<recorded, buffer, limit, reporter, lost, failures>>

Fail ==
  /\ reporter /\ failures < MaxFailures
  /\ failures' = failures + 1
  /\ \E batch \in Awaited :
       /\ flight' = {}
       /\ buffer' = Enforced(Requeued(batch, buffer), limit)
       /\ timer' = AfterFlight(timer, buffer')
  /\ UNCHANGED <<recorded, limit, reporter, reported, lost>>

\* The request that awaits the report is dropped: flushInFlight stays, settled by
\* nobody.
Drop ==
  \E batch \in Awaited :
    /\ lost' = lost \cup Range(batch)
    /\ UNCHANGED <<recorded, buffer, limit, reporter, timer, flight, reported, failures>>

Answer == Succeed \/ Fail \/ Drop

Next ==
  \/ Record \/ EndOfRequest \/ FireTimer \/ CancelTimer \/ Answer
  \/ \E max \in AllLimits : Configure(max)

\* Requests that reach the application keep coming to the isolate and each ends with
\* a flush; a report is answered or its request dropped.  Timers are not relied on.
Fairness == WF_vars(EndOfRequest) /\ WF_vars(Answer)

Spec == Init /\ [][Next]_vars /\ Fairness

-----------------------------------------------------------------------------
(* Properties.                                                             *)

Metrics == 1..recorded
Batches == {b \in Seq(Metrics) : b # <<>>}

\* The buffer never holds more than its limit, a flush has something to report.
TypeOK ==
  /\ {recorded, failures} \subseteq Nat /\ limit \in AllLimits
  /\ buffer \in Seq(Metrics) /\ Len(buffer) <= limit
  /\ reporter \in BOOLEAN /\ timer \in Timers
  /\ flight \subseteq Batches /\ Cardinality(flight) <= 1
  /\ {reported, lost} \subseteq SUBSET Metrics

Ascending(s) == \A k, l \in DOMAIN s : k < l => s[k] < s[l]

\* What waits to be reported, in the order in which it will be.
Waiting == IF flight = {} THEN buffer ELSE (CHOOSE b \in flight : TRUE) \o buffer

\* Metrics are reported in the order in which they were recorded, and never again
\* after a report that resolved, whatever is recorded, flushed and put back meanwhile.
InOrder ==
  /\ Ascending(Waiting)
  /\ \A m \in reported, k \in DOMAIN Waiting : m < Waiting[k]

\* Once there is a reporter, metrics never lie in the buffer unless flushTimer or
\* flushInFlight is set: the code always has something that, as far as it can tell,
\* will come back to them.
NothingStranded == reporter /\ buffer # <<>> => timer # "unset" \/ flight # {}

\* A metric is only dropped for newer ones: the newest, as many as the smallest limit,
\* were reported, are waiting, or belong to a report whose request was dropped.
NewestAreKept ==
  \A m \in Metrics : m \in reported \cup Range(Waiting)
                     \/ \E max \in AllLimits : m + max <= recorded

\* Every metric is in the end reported or dropped for newer ones, also when timers die
\* with the requests that set them, unless a request is dropped while it reports.
EventuallyReported ==
  \A m \in 1..MaxMetrics : m \in Range(Waiting) ~> (m \notin Range(Waiting) \/ lost # {})
=============================================================================
