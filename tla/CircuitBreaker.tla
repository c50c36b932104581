--------------------------- MODULE CircuitBreaker ---------------------------
(***************************************************************************)
(* The circuit breaker around Workers AI and the summarize requests that   *)
(* go through it (services/summarizer.service.ts, lib/utils/retry.ts).     *)
(*                                                                         *)
(* The breaker lives in module state and is shared by the requests of one  *)
(* isolate.  JavaScript runs between two awaits without interruption, so   *)
(* an action is what runs between two of: the call of ai.run, its answer,  *)
(* and the sleep before a retry.  A breaker that is configured off never   *)
(* touches its state and is not modelled.  Time is abstracted to whether   *)
(* recoveryTimeoutMs have passed since openedAt.                           *)
(***************************************************************************)
EXTENDS Integers

CONSTANTS
  Requests,          \* summarize requests that can be in flight together
  FailureThreshold,  \* config.failureThreshold, at least 1
  HalfOpenMaxCalls,  \* config.halfOpenMaxCalls, at least 1
  Attempts,          \* retry attempts of one request, at least 1
  FaultTargets,      \* fault injection flags requests may carry
  MaxCancels         \* bound: requests torn down while ai.run is pending

ASSUME BreakerAssumption ==
  /\ FailureThreshold \in Nat \ {0}
  /\ HalfOpenMaxCalls \in Nat \ {0}
  /\ Attempts \in Nat \ {0}
  /\ FaultTargets \subseteq {"before-run", "retry-attempt", "after-run", "fallback"}
  /\ MaxCancels \in Nat

VARIABLES
  breaker,   \* the shared CircuitBreakerInternalState
  healthy,   \* whether Workers AI answers calls
  pc,        \* per request: "idle", "calling" (ai.run) or "sleeping" (retry)
  attempt,   \* per request: the attempt it is in
  probe,     \* per request: its `release' gives back a half-open slot
  faults,    \* per request: its fault injection flags
  result,    \* per request: what its last summarize returned
  cancels,   \* requests torn down so far
  streak,    \* history: failures recorded since the last success or transition
  admitted   \* history: calls let through since the breaker became half-open

requestVars == <<pc, attempt, probe, faults, result>>
historyVars == <<streak, admitted>>
vars == <<breaker, healthy, requestVars, cancels, historyVars>>

States == {"closed", "open", "half-open"}
Results == {"none", "summary", "fallback", "blocked", "error", "cancelled"}

Breaker == [state: States, failureCount: Nat, halfOpenInFlight: Nat, cooled: BOOLEAN]

Init ==
  /\ breaker = [state |-> "closed", failureCount |-> 0, halfOpenInFlight |-> 0,
                cooled |-> FALSE]
  /\ healthy = TRUE
  /\ pc = [r \in Requests |-> "idle"]
  /\ attempt = [r \in Requests |-> 0]
  /\ probe = [r \in Requests |-> FALSE]
  /\ faults = [r \in Requests |-> {}]
  /\ result = [r \in Requests |-> "none"]
  /\ cancels = 0
  /\ streak = 0 /\ admitted = 0

-----------------------------------------------------------------------------
(* The methods of class CircuitBreaker, as functions of its state.         *)

\* Mutant: the slots taken are not given up.
MutantTransitionTo(b, next) ==
  IF b.state = next THEN b
  ELSE [b EXCEPT !.state = next, !.failureCount = 0, !.cooled = FALSE]

\* Every real transition clears both counters and openedAt.
TransitionTo(b, next) ==
  IF b.state = next THEN b
  ELSE [state |-> next, failureCount |-> 0, halfOpenInFlight |-> 0, cooled |-> FALSE]

\* Mutant: one probe too many.
MutantCanAttempt(b) ==
  CASE b.state = "open" -> b.cooled
    [] b.state = "half-open" -> b.halfOpenInFlight <= HalfOpenMaxCalls
    [] b.state = "closed" -> TRUE

\* Mutant: the comparison with the recovery timeout is turned around.
MutantCanAttemptEarly(b) ==
  CASE b.state = "open" -> ~b.cooled
    [] b.state = "half-open" -> b.halfOpenInFlight < HalfOpenMaxCalls
    [] b.state = "closed" -> TRUE

\* ensureCanAttempt does not throw.
CanAttempt(b) ==
  CASE b.state = "open" -> b.cooled
    [] b.state = "half-open" -> b.halfOpenInFlight < HalfOpenMaxCalls
    [] b.state = "closed" -> TRUE

Probing(b) == b.state # "closed"

BeforeRequest(b) ==
  LET entered == IF b.state = "open" THEN TransitionTo(b, "half-open") ELSE b
  IN  IF entered.state = "half-open"
        THEN [entered EXCEPT !.halfOpenInFlight = @ + 1]
        ELSE entered

\* Mutant: a slot is given back that a transition has given back already.
MutantRelease(b, isProbe) ==
  IF isProbe THEN [b EXCEPT !.halfOpenInFlight = @ - 1] ELSE b

\* The closure beforeRequest returns; a no-op for a call of a closed breaker.
Release(b, isProbe) ==
  IF isProbe /\ b.halfOpenInFlight > 0
    THEN [b EXCEPT !.halfOpenInFlight = @ - 1]
    ELSE b

\* Mutant: failures are not forgotten.
MutantRecordSuccess(b) == IF b.state = "half-open" THEN TransitionTo(b, "closed") ELSE b

\* Mutant: any success closes the breaker.
MutantRecordLateSuccess(b) ==
  IF b.state = "closed" THEN [b EXCEPT !.failureCount = 0] ELSE TransitionTo(b, "closed")

\* Mutant: a successful probe opens the breaker again.
MutantRecordProbeSuccess(b) ==
  IF b.state = "closed" THEN [b EXCEPT !.failureCount = 0] ELSE TransitionTo(b, "open")

RecordSuccess(b) ==
  CASE b.state = "half-open" -> TransitionTo(b, "closed")
    [] b.state = "closed" -> [b EXCEPT !.failureCount = 0]
    [] b.state = "open" -> b

RecordFailure(b) ==
  IF b.state = "half-open" THEN TransitionTo(b, "open")
  ELSE LET counted == [b EXCEPT !.failureCount = @ + 1]
       IN  IF counted.failureCount >= FailureThreshold
             THEN TransitionTo(counted, "open")
             ELSE counted

-----------------------------------------------------------------------------
(* One request.                                                            *)

Flag(r, target) == target \in faults'[r]

\* summarize returns or throws.
End(r, outcome) ==
  /\ pc' = [pc EXCEPT ![r] = "idle"]
  /\ attempt' = [attempt EXCEPT ![r] = 0]
  /\ probe' = [probe EXCEPT ![r] = FALSE]
  /\ result' = [result EXCEPT ![r] = outcome]

\* The catch of summarize: a degraded summary, unless that faults too.
Degraded(r) == IF Flag(r, "fallback") THEN "error" ELSE "fallback"

\* The catch of retry: sleep before the next attempt, or give up.
RetryOrGiveUp(r, n, transient) ==
  IF transient /\ n < Attempts
    THEN /\ pc' = [pc EXCEPT ![r] = "sleeping"]
         /\ attempt' = [attempt EXCEPT ![r] = n]
         /\ probe' = [probe EXCEPT ![r] = FALSE]
         /\ UNCHANGED result
    ELSE End(r, Degraded(r))

\* What one attempt does before it awaits ai.run.  The injected fault is thrown
\* outside the try block: nothing is recorded and the slot is not given back.
Attempt(r, n) ==
  IF ~CanAttempt(breaker)
    THEN End(r, "blocked") /\ UNCHANGED <<breaker, historyVars>>
    ELSE /\ breaker' = BeforeRequest(breaker)
         /\ admitted' = CASE breaker.state = "open" -> 1
                          [] breaker.state = "half-open" -> admitted + 1
                          [] breaker.state = "closed" -> admitted
         /\ streak' = IF breaker.state = "open" THEN 0 ELSE streak
         /\ IF Flag(r, "retry-attempt")
              THEN RetryOrGiveUp(r, n, TRUE)
              ELSE /\ pc' = [pc EXCEPT ![r] = "calling"]
                   /\ attempt' = [attempt EXCEPT ![r] = n]
                   /\ probe' = [probe EXCEPT ![r] = Probing(breaker)]
                   /\ UNCHANGED result

\* summarize up to the first await.
Start(r) ==
  /\ pc[r] = "idle"
  /\ \E F \in SUBSET FaultTargets :
       /\ faults' = [faults EXCEPT ![r] = F]
       /\ IF "before-run" \in F
            THEN End(r, "error") /\ UNCHANGED <<breaker, historyVars>>
            ELSE Attempt(r, 1)
  /\ UNCHANGED <<healthy, cancels>>

\* retry has slept.
Wake(r) ==
  /\ pc[r] = "sleeping"
  /\ UNCHANGED faults
  /\ Attempt(r, attempt[r] + 1)
  /\ UNCHANGED <<healthy, cancels>>

\* ai.run answers with a text.
Succeed(r) ==
  /\ pc[r] = "calling" /\ healthy
  /\ UNCHANGED faults
  /\ breaker' = Release(RecordSuccess(breaker), probe[r])
  /\ streak' = 0
  /\ End(r, IF Flag(r, "after-run") THEN Degraded(r) ELSE "summary")
  /\ UNCHANGED <<healthy, cancels, admitted>>

\* ai.run rejects or answers with nothing; only a transient error is retried.
Fail(r) ==
  /\ pc[r] = "calling" /\ ~healthy
  /\ UNCHANGED faults
  /\ breaker' = Release(RecordFailure(breaker), probe[r])
  /\ streak' = IF RecordFailure(breaker).state # breaker.state THEN 0 ELSE streak + 1
  /\ \E transient \in BOOLEAN : RetryOrGiveUp(r, attempt[r], transient)
  /\ UNCHANGED <<healthy, cancels, admitted>>

\* The client goes away and the runtime drops the request: nothing that follows
\* the await runs, neither the catch nor the finally.
Cancel(r) ==
  /\ pc[r] = "calling" /\ cancels < MaxCancels
  /\ cancels' = cancels + 1
  /\ End(r, "cancelled")
  /\ UNCHANGED <<breaker, healthy, faults, historyVars>>

\* recoveryTimeoutMs have passed since openedAt.
Cooldown ==
  /\ breaker.state = "open" /\ ~breaker.cooled
  /\ breaker' = [breaker EXCEPT !.cooled = TRUE]
  /\ UNCHANGED <<healthy, requestVars, cancels, historyVars>>

\* Workers AI goes down or comes back.
ToggleHealth ==
  /\ healthy' = ~healthy
  /\ UNCHANGED <<breaker, requestVars, cancels, historyVars>>

Next ==
  \/ Cooldown
  \/ ToggleHealth
  \/ \E r \in Requests : Start(r) \/ Wake(r) \/ Succeed(r) \/ Fail(r) \/ Cancel(r)

Spec == Init /\ [][Next]_vars

\* Timers fire, a pending call is answered, and requests keep coming in; nothing
\* is assumed of Workers AI's health.
Fairness ==
  /\ WF_vars(Cooldown)
  /\ WF_vars(\E r \in Requests : Start(r))
  /\ \A r \in Requests : WF_vars(Wake(r)) /\ WF_vars(Succeed(r) \/ Fail(r))

FairSpec == Spec /\ Fairness

-----------------------------------------------------------------------------
(* Properties.                                                             *)

\* Every variable holds what the code can put in it.
TypeOK ==
  /\ breaker \in Breaker
  /\ healthy \in BOOLEAN
  /\ pc \in [Requests -> {"idle", "calling", "sleeping"}]
  /\ attempt \in [Requests -> 0..Attempts]
  /\ probe \in [Requests -> BOOLEAN]
  /\ faults \in [Requests -> SUBSET FaultTargets]
  /\ result \in [Requests -> Results]
  /\ cancels \in Nat
  /\ streak \in Nat /\ admitted \in Nat

\* While it is half-open the breaker has let at most halfOpenMaxCalls calls
\* through, whichever calls of earlier periods come back late and release.
ProbesBounded == breaker.state = "half-open" => admitted <= HalfOpenMaxCalls

\* The slot counter never hands out a slot twice nor keeps one across a
\* transition: it is the number of calls of this half-open period, else zero.
SlotsMatchProbes ==
  breaker.halfOpenInFlight = IF breaker.state = "half-open" THEN admitted ELSE 0

\* A closed breaker has seen fewer than failureThreshold failures in a row, and
\* failureCount is exactly the length of that run.
CountsConsecutive ==
  breaker.state = "closed" =>
    breaker.failureCount = streak /\ streak < FailureThreshold

\* An open breaker is left for half-open only, and only after the recovery
\* timeout: the late success of a call made before it opened changes nothing.
OpenIsLeftByProbing ==
  [][breaker.state = "open" /\ breaker'.state # "open"
       => breaker.cooled /\ breaker'.state = "half-open"]_vars

\* No call starts under an open breaker, and a call that starts while it is not
\* closed holds a half-open slot.
CallsAreAdmitted ==
  [][\A r \in Requests : pc[r] # "calling" /\ pc'[r] = "calling" =>
       /\ breaker'.state # "open"
       /\ breaker'.state = "half-open" => probe'[r] /\ breaker'.halfOpenInFlight > 0]_vars

\* Once Workers AI stays up, the breaker closes for good.
Recovers == <>[]healthy => <>[](breaker.state = "closed")

\* After it has tripped the breaker always lets a probe through again.
NeverSticks == []<>CanAttempt(breaker)
=============================================================================
