------------------------ MODULE CircuitBreakerProofs ------------------------
(***************************************************************************)
(* Proofs about CircuitBreaker, for any number of requests, thresholds and *)
(* attempts, any fault injection and any number of dropped requests.       *)
(***************************************************************************)
EXTENDS CircuitBreaker, TLAPS

\* What holds of the breaker between two awaits, given how many calls this
\* half-open period admitted and how many failures in a row were recorded.
Sound(b, calls, run) ==
  /\ b \in Breaker
  /\ b.halfOpenInFlight = IF b.state = "half-open" THEN calls ELSE 0
  /\ b.state = "half-open" => calls <= HalfOpenMaxCalls
  /\ b.state = "closed" => b.failureCount = run /\ run < FailureThreshold

\* A request that sleeps has attempts left.
SleepersRetry == \A r \in Requests : pc[r] = "sleeping" => attempt[r] < Attempts

\* The inductive invariant.
IInv == TypeOK /\ Sound(breaker, admitted, streak) /\ SleepersRetry

-----------------------------------------------------------------------------
\* A transition leaves a typed breaker with cleared counters.
LEMMA TransitionClears ==
  ASSUME NEW b \in Breaker, NEW next \in States, b.state # next
  PROVE  /\ TransitionTo(b, next) \in Breaker
         /\ TransitionTo(b, next).state = next
         /\ TransitionTo(b, next).failureCount = 0
         /\ TransitionTo(b, next).halfOpenInFlight = 0
BY DEF TransitionTo, Breaker, States

\* Letting a call through keeps the breaker sound: an open breaker starts a
\* half-open period with this call, a half-open one had a slot left.
LEMMA AdmissionKeepsSound ==
  ASSUME NEW b, NEW calls \in Nat, NEW run \in Nat, Sound(b, calls, run), CanAttempt(b)
  PROVE  Sound(BeforeRequest(b),
               CASE b.state = "open" -> 1
                 [] b.state = "half-open" -> calls + 1
                 [] b.state = "closed" -> calls,
               IF b.state = "open" THEN 0 ELSE run)
<1> USE BreakerAssumption
<1>1. CASE b.state = "open"
  <2> DEFINE entered == TransitionTo(b, "half-open")
  <2>1. /\ entered \in Breaker /\ entered.state = "half-open"
        /\ entered.halfOpenInFlight = 0
    BY <1>1, TransitionClears DEF Sound, States
  <2>2. BeforeRequest(b) = [entered EXCEPT !.halfOpenInFlight = @ + 1]
    BY <1>1, <2>1 DEF BeforeRequest
  <2> HIDE DEF entered
  <2> QED
    BY <1>1, <2>1, <2>2 DEF Sound, Breaker, States
<1>2. CASE b.state = "half-open"
  <2>1. BeforeRequest(b) = [b EXCEPT !.halfOpenInFlight = @ + 1]
    BY <1>2 DEF BeforeRequest
  <2>2. b \in Breaker /\ b.halfOpenInFlight = calls /\ calls < HalfOpenMaxCalls
    BY <1>2 DEF Sound, CanAttempt
  <2> QED
    BY <1>2, <2>1, <2>2 DEF Sound, Breaker, States
<1>3. CASE b.state = "closed"
  BY <1>3 DEF Sound, BeforeRequest, Breaker, States
<1> QED
  BY <1>1, <1>2, <1>3 DEF Sound, Breaker, States

\* A success that comes back keeps the breaker sound.  It never leaves it
\* half-open, so the release that follows finds no slot to give back.
LEMMA SuccessKeepsSound ==
  ASSUME NEW b, NEW calls \in Nat, NEW run \in Nat, NEW isProbe \in BOOLEAN,
         Sound(b, calls, run)
  PROVE  Sound(Release(RecordSuccess(b), isProbe), calls, 0)
<1> USE BreakerAssumption
<1>1. CASE b.state = "open"
  BY <1>1 DEF Sound, RecordSuccess, Release, Breaker, States
<1>2. CASE b.state = "half-open"
  <2> DEFINE after == TransitionTo(b, "closed")
  <2>1. /\ after \in Breaker /\ after.state = "closed"
        /\ after.failureCount = 0 /\ after.halfOpenInFlight = 0
    BY <1>2, TransitionClears DEF Sound, States
  <2>2. RecordSuccess(b) = after
    BY <1>2 DEF RecordSuccess
  <2> HIDE DEF after
  <2> QED
    BY <2>1, <2>2 DEF Sound, Release
<1>3. CASE b.state = "closed"
  <2>1. RecordSuccess(b) = [b EXCEPT !.failureCount = 0]
    BY <1>3 DEF RecordSuccess
  <2> QED
    BY <1>3, <2>1 DEF Sound, Release, Breaker, States
<1> QED
  BY <1>1, <1>2, <1>3 DEF Sound, Breaker, States

\* So does a failure, whether it trips the breaker or is only counted.
LEMMA FailureKeepsSound ==
  ASSUME NEW b, NEW calls \in Nat, NEW run \in Nat, NEW isProbe \in BOOLEAN,
         Sound(b, calls, run)
  PROVE  Sound(Release(RecordFailure(b), isProbe), calls,
               IF RecordFailure(b).state # b.state THEN 0 ELSE run + 1)
<1> USE BreakerAssumption
<1> DEFINE counted == [b EXCEPT !.failureCount = @ + 1]
<1>1. CASE b.state = "open"
  <2>1. counted \in Breaker /\ counted.state = "open" /\ counted.halfOpenInFlight = 0
    BY <1>1 DEF Sound, Breaker, States
  <2>2. RecordFailure(b) = counted
    BY <1>1, <2>1 DEF RecordFailure, TransitionTo
  <2> QED
    BY <1>1, <2>1, <2>2 DEF Sound, Release, Breaker, States
<1>2. CASE b.state = "half-open"
  <2> DEFINE after == TransitionTo(b, "open")
  <2>1. /\ after \in Breaker /\ after.state = "open" /\ after.halfOpenInFlight = 0
    BY <1>2, TransitionClears DEF Sound, States
  <2>2. RecordFailure(b) = after
    BY <1>2 DEF RecordFailure
  <2> HIDE DEF after
  <2> QED
    BY <2>1, <2>2 DEF Sound, Release
<1>3. CASE b.state = "closed"
  <2>1. counted \in Breaker /\ counted.state = "closed" /\ counted.halfOpenInFlight = 0
          /\ counted.failureCount = run + 1
    BY <1>3 DEF Sound, Breaker, States
  <2>2. CASE run + 1 >= FailureThreshold
    <3> DEFINE after == TransitionTo(counted, "open")
    <3>1. /\ after \in Breaker /\ after.state = "open" /\ after.halfOpenInFlight = 0
      BY <2>1, TransitionClears DEF States
    <3>2. RecordFailure(b) = after
      BY <1>3, <2>1, <2>2 DEF RecordFailure
    <3> HIDE DEF after
    <3> QED
      BY <3>1, <3>2 DEF Sound, Release
  <2>3. CASE ~(run + 1 >= FailureThreshold)
    <3>1. RecordFailure(b) = counted
      BY <1>3, <2>1, <2>3 DEF RecordFailure
    <3> QED
      BY <1>3, <2>1, <2>3, <3>1 DEF Sound, Release
  <2> QED
    BY <2>2, <2>3
<1> QED
  BY <1>1, <1>2, <1>3 DEF Sound, Breaker, States
-----------------------------------------------------------------------------
\* The variables of the requests are typed, and sleepers have attempts left.
RequestsOK ==
  /\ pc \in [Requests -> {"idle", "calling", "sleeping"}]
  /\ attempt \in [Requests -> 0..Attempts]
  /\ probe \in [Requests -> BOOLEAN]
  /\ result \in [Requests -> Results]
  /\ SleepersRetry

\* The end of a request keeps them so.
LEMMA EndKeepsRequests ==
  ASSUME RequestsOK, NEW r \in Requests, NEW outcome \in Results, End(r, outcome)
  PROVE  RequestsOK'
<1> USE BreakerAssumption
<1> QED
  BY DEF RequestsOK, End, SleepersRetry

\* And so does the end of a failed attempt.
LEMMA RetryKeepsRequests ==
  ASSUME RequestsOK, NEW r \in Requests, NEW n \in 0..Attempts, NEW transient \in BOOLEAN,
         RetryOrGiveUp(r, n, transient)
  PROVE  RequestsOK'
<1> USE BreakerAssumption
<1>1. CASE transient /\ n < Attempts
  BY <1>1 DEF RetryOrGiveUp, RequestsOK, SleepersRetry
<1>2. CASE ~(transient /\ n < Attempts)
  <2>1. Degraded(r) \in Results
    BY DEF Degraded, Results
  <2> QED
    BY <1>2, <2>1, EndKeepsRequests DEF RetryOrGiveUp
<1> QED
  BY <1>1, <1>2

\* The synchronous part of an attempt keeps the requests, the breaker and the
\* history as they have to be.
LEMMA AttemptKeepsIInv ==
  ASSUME IInv, NEW r \in Requests, NEW n \in 1..Attempts, Attempt(r, n)
  PROVE  /\ RequestsOK'
         /\ Sound(breaker, admitted, streak)'
         /\ streak' \in Nat /\ admitted' \in Nat
<1> USE BreakerAssumption
<1>1. RequestsOK
  BY DEF IInv, TypeOK, RequestsOK
<1>2. Sound(breaker, admitted, streak) /\ admitted \in Nat /\ streak \in Nat
  BY DEF IInv, TypeOK
<1>3. CASE ~CanAttempt(breaker)
  <2>1. End(r, "blocked") /\ UNCHANGED <<breaker, historyVars>>
    BY <1>3 DEF Attempt
  <2>2. RequestsOK'
    BY <1>1, <2>1, EndKeepsRequests DEF Results
  <2> QED
    BY <1>2, <2>1, <2>2 DEF historyVars, Sound
<1>4. CASE CanAttempt(breaker)
  <2>1. /\ breaker' = BeforeRequest(breaker)
        /\ admitted' = CASE breaker.state = "open" -> 1
                         [] breaker.state = "half-open" -> admitted + 1
                         [] breaker.state = "closed" -> admitted
        /\ streak' = IF breaker.state = "open" THEN 0 ELSE streak
    BY <1>4 DEF Attempt
  <2>2. Sound(breaker, admitted, streak)'
    <3>1. Sound(BeforeRequest(breaker),
                CASE breaker.state = "open" -> 1
                  [] breaker.state = "half-open" -> admitted + 1
                  [] breaker.state = "closed" -> admitted,
                IF breaker.state = "open" THEN 0 ELSE streak)
      BY <1>2, <1>4, AdmissionKeepsSound
    <3> QED
      BY <2>1, <3>1 DEF Sound
  <2>3. admitted' \in Nat /\ streak' \in Nat
    BY <1>2, <2>1 DEF Sound, Breaker, States
  <2>4. CASE Flag(r, "retry-attempt")
    <3>1. RetryOrGiveUp(r, n, TRUE)
      BY <1>4, <2>4 DEF Attempt
    <3>2. n \in 0..Attempts /\ TRUE \in BOOLEAN
      OBVIOUS
    <3>3. RequestsOK'
      BY <1>1, <3>1, <3>2, RetryKeepsRequests
    <3> QED
      BY <1>2, <2>2, <2>3, <3>1, <3>3
  <2>5. CASE ~Flag(r, "retry-attempt")
    <3>1. /\ pc' = [pc EXCEPT ![r] = "calling"]
          /\ attempt' = [attempt EXCEPT ![r] = n]
          /\ probe' = [probe EXCEPT ![r] = Probing(breaker)]
          /\ UNCHANGED result
      BY <1>4, <2>5 DEF Attempt
    <3>2. Probing(breaker) \in BOOLEAN
      BY DEF Probing
    <3>3. probe' \in [Requests -> BOOLEAN]
      BY <1>1, <3>1, <3>2, Zenon DEF RequestsOK
    <3>4. RequestsOK'
      BY <1>1, <3>1, <3>3 DEF RequestsOK, SleepersRetry
    <3> QED
      BY <1>2, <2>2, <2>3, <3>1, <3>4
  <2> QED
    BY <2>4, <2>5
<1> QED
  BY <1>3, <1>4

-----------------------------------------------------------------------------
\* A fresh isolate's breaker is sound.
LEMMA InitEstablishesIInv == Init => IInv
<1> USE BreakerAssumption
<1> QED
  BY DEF Init, IInv, TypeOK, Sound, SleepersRetry, Breaker, States, Results

\* Every step of a request, timer or Workers AI keeps the invariant.
LEMMA NextKeepsIInv == IInv /\ [Next]_vars => IInv'
<1> SUFFICES ASSUME IInv, [Next]_vars
             PROVE  IInv'
  OBVIOUS
<1> USE BreakerAssumption
<1>1. RequestsOK /\ Sound(breaker, admitted, streak) /\ breaker \in Breaker
      /\ admitted \in Nat /\ streak \in Nat /\ cancels \in Nat
      /\ healthy \in BOOLEAN /\ faults \in [Requests -> SUBSET FaultTargets]
  BY DEF IInv, TypeOK, RequestsOK, Sound
<1>2. ASSUME RequestsOK', Sound(breaker, admitted, streak)', cancels' \in Nat,
             streak' \in Nat, admitted' \in Nat,
             healthy' \in BOOLEAN, faults' \in [Requests -> SUBSET FaultTargets]
      PROVE  IInv'
  BY <1>2 DEF IInv, TypeOK, RequestsOK, Sound
<1>3. CASE Cooldown
  <2>1. Sound(breaker, admitted, streak)'
    BY <1>1, <1>3 DEF Cooldown, Sound, Breaker, States, historyVars
  <2> QED
    BY <1>1, <1>2, <1>3, <2>1 DEF Cooldown, RequestsOK, SleepersRetry, requestVars, historyVars
<1>4. CASE ToggleHealth
  BY <1>1, <1>2, <1>4 DEF ToggleHealth, RequestsOK, SleepersRetry, Sound, requestVars,
                          historyVars
<1>5. ASSUME NEW r \in Requests, Start(r)
      PROVE  IInv'
  <2>1. PICK F \in SUBSET FaultTargets :
          /\ faults' = [faults EXCEPT ![r] = F]
          /\ IF "before-run" \in F
               THEN End(r, "error") /\ UNCHANGED <<breaker, historyVars>>
               ELSE Attempt(r, 1)
    BY <1>5 DEF Start
  <2>2. healthy' \in BOOLEAN /\ cancels' \in Nat
        /\ faults' \in [Requests -> SUBSET FaultTargets]
    BY <1>1, <1>5, <2>1 DEF Start
  <2>3. CASE "before-run" \in F
    <3>1. RequestsOK'
      BY <1>1, <2>1, <2>3, EndKeepsRequests DEF Results
    <3> QED
      BY <1>1, <1>2, <2>1, <2>2, <2>3, <3>1 DEF Sound, historyVars
  <2>4. CASE "before-run" \notin F
    BY <1>2, <2>1, <2>2, <2>4, AttemptKeepsIInv
  <2> QED
    BY <2>3, <2>4
<1>6. ASSUME NEW r \in Requests, Wake(r)
      PROVE  IInv'
  <2>1. attempt[r] + 1 \in 1..Attempts
    BY <1>1, <1>6 DEF Wake, RequestsOK, SleepersRetry
  <2> QED
    BY <1>1, <1>2, <1>6, <2>1, AttemptKeepsIInv DEF Wake
<1>7. ASSUME NEW r \in Requests, Succeed(r)
      PROVE  IInv'
  <2> DEFINE outcome == IF Flag(r, "after-run") THEN Degraded(r) ELSE "summary"
  <2>1. outcome \in Results
    BY DEF Degraded, Results
  <2>2. RequestsOK'
    BY <1>1, <1>7, <2>1, EndKeepsRequests DEF Succeed
  <2>3. probe[r] \in BOOLEAN
    BY <1>1 DEF RequestsOK
  <2>4. Sound(Release(RecordSuccess(breaker), probe[r]), admitted, 0)
    BY <1>1, <2>3, SuccessKeepsSound
  <2>5. Sound(breaker, admitted, streak)'
    BY <1>7, <2>4 DEF Succeed, Sound
  <2> QED
    BY <1>1, <1>2, <1>7, <2>2, <2>5 DEF Succeed
<1>8. ASSUME NEW r \in Requests, Fail(r)
      PROVE  IInv'
  <2>1. PICK transient \in BOOLEAN : RetryOrGiveUp(r, attempt[r], transient)
    BY <1>8 DEF Fail
  <2>2. attempt[r] \in 0..Attempts /\ probe[r] \in BOOLEAN
    BY <1>1 DEF RequestsOK
  <2>3. RequestsOK'
    BY <1>1, <2>1, <2>2, RetryKeepsRequests
  <2>4. Sound(Release(RecordFailure(breaker), probe[r]), admitted,
              IF RecordFailure(breaker).state # breaker.state THEN 0 ELSE streak + 1)
    BY <1>1, <2>2, FailureKeepsSound
  <2>5. Sound(breaker, admitted, streak)'
    BY <1>8, <2>4 DEF Fail, Sound
  <2> QED
    BY <1>1, <1>2, <1>8, <2>3, <2>5 DEF Fail
<1>9. ASSUME NEW r \in Requests, Cancel(r)
      PROVE  IInv'
  <2>1. RequestsOK'
    BY <1>1, <1>9, EndKeepsRequests DEF Cancel, Results
  <2> QED
    BY <1>1, <1>2, <1>9, <2>1 DEF Cancel, Sound, historyVars
<1>10. CASE UNCHANGED vars
  BY <1>1, <1>2, <1>10 DEF vars, requestVars, historyVars, RequestsOK, SleepersRetry, Sound
<1> QED
  BY <1>3, <1>4, <1>5, <1>6, <1>7, <1>8, <1>9, <1>10 DEF Next

\* The invariant holds in every reachable state.
LEMMA Invariance == Spec => []IInv
BY InitEstablishesIInv, NextKeepsIInv, PTL DEF Spec

-----------------------------------------------------------------------------
\* Every variable keeps its type.
THEOREM TypeCorrect == Spec => []TypeOK
<1>1. IInv => TypeOK
  BY DEF IInv
<1> QED
  BY <1>1, Invariance, PTL

\* A half-open period never lets more than halfOpenMaxCalls calls through.
THEOREM ProbesAreBounded == Spec => []ProbesBounded
<1>1. IInv => ProbesBounded
  BY DEF IInv, Sound, ProbesBounded
<1> QED
  BY <1>1, Invariance, PTL

\* The slot counter is exact: late releases neither free a slot that is in use
\* nor is a slot carried over a transition.
THEOREM SlotsAreExact == Spec => []SlotsMatchProbes
<1>1. IInv => SlotsMatchProbes
  BY DEF IInv, Sound, SlotsMatchProbes
<1> QED
  BY <1>1, Invariance, PTL

\* A closed breaker counts exactly the consecutive failures, below the threshold.
THEOREM CountIsExact == Spec => []CountsConsecutive
<1>1. IInv => CountsConsecutive
  BY DEF IInv, Sound, CountsConsecutive
<1> QED
  BY <1>1, Invariance, PTL

\* A breaker that is open is left only towards half-open, after its timeout.
THEOREM OpenIsLeftOnlyByProbing == Spec => OpenIsLeftByProbing
<1> DEFINE A == breaker.state = "open" /\ breaker'.state # "open"
                  => breaker.cooled /\ breaker'.state = "half-open"
<1> USE BreakerAssumption
<1>1. IInv /\ [Next]_vars => A
  <2> SUFFICES ASSUME IInv, [Next]_vars, breaker.state = "open", breaker'.state # "open"
               PROVE  breaker.cooled /\ breaker'.state = "half-open"
    OBVIOUS
  <2>1. breaker \in Breaker /\ breaker.halfOpenInFlight = 0
    BY DEF IInv, Sound
  <2>2. ASSUME NEW r \in Requests, NEW n, Attempt(r, n)
        PROVE  breaker.cooled /\ breaker'.state = "half-open"
    <3>1. CanAttempt(breaker)
      BY <2>2 DEF Attempt
    <3>2. breaker' = BeforeRequest(breaker) /\ breaker.cooled
      BY <2>2, <3>1 DEF Attempt, CanAttempt
    <3> DEFINE entered == TransitionTo(breaker, "half-open")
    <3>3. entered \in Breaker /\ entered.state = "half-open"
      BY <2>1, TransitionClears DEF States
    <3>4. BeforeRequest(breaker) = [entered EXCEPT !.halfOpenInFlight = @ + 1]
      BY <3>3 DEF BeforeRequest
    <3> HIDE DEF entered
    <3> QED
      BY <3>2, <3>3, <3>4 DEF Breaker
  <2>3. ASSUME NEW r \in Requests, Start(r) \/ Wake(r)
        PROVE  breaker.cooled /\ breaker'.state = "half-open"
    BY <2>2, <2>3 DEF Start, Wake
  <2>4. ASSUME NEW r \in Requests, Succeed(r)
        PROVE  FALSE
    BY <2>1, <2>4 DEF Succeed, RecordSuccess, Release
  <2>5. ASSUME NEW r \in Requests, Fail(r)
        PROVE  FALSE
    <3> DEFINE counted == [breaker EXCEPT !.failureCount = @ + 1]
    <3>1. counted.state = "open" /\ counted.halfOpenInFlight = 0
      BY <2>1 DEF Breaker
    <3>2. RecordFailure(breaker) = counted
      BY <3>1 DEF RecordFailure, TransitionTo
    <3>3. breaker' = counted
      BY <2>5, <3>1, <3>2 DEF Fail, Release
    <3> QED
      BY <3>1, <3>3
  <2>6. ASSUME NEW r \in Requests, Cancel(r)
        PROVE  FALSE
    BY <2>6 DEF Cancel
  <2>7. ~Cooldown /\ ~ToggleHealth /\ ~UNCHANGED vars
    BY <2>1 DEF Cooldown, ToggleHealth, vars, Breaker
  <2> QED
    BY <2>3, <2>4, <2>5, <2>6, <2>7 DEF Next
<1>2. IInv /\ [Next]_vars => [A]_vars
  BY <1>1
<1> QED
  BY <1>2, Invariance, PTL DEF Spec, OpenIsLeftByProbing

\* A call that is let through leaves the breaker closed, or half-open with a slot
\* taken.
LEMMA AdmissionTakesSlot ==
  ASSUME NEW b \in Breaker, CanAttempt(b)
  PROVE  /\ BeforeRequest(b).state # "open"
         /\ BeforeRequest(b).state = "half-open" =>
              Probing(b) /\ BeforeRequest(b).halfOpenInFlight > 0
<1>1. CASE b.state = "open"
  <2> DEFINE entered == TransitionTo(b, "half-open")
  <2>1. /\ entered \in Breaker /\ entered.state = "half-open"
        /\ entered.halfOpenInFlight = 0
    BY <1>1, TransitionClears DEF States
  <2>2. BeforeRequest(b) = [entered EXCEPT !.halfOpenInFlight = @ + 1]
    BY <1>1, <2>1 DEF BeforeRequest
  <2> HIDE DEF entered
  <2> QED
    BY <1>1, <2>1, <2>2 DEF Breaker, Probing
<1>2. CASE b.state = "half-open"
  <2>1. BeforeRequest(b) = [b EXCEPT !.halfOpenInFlight = @ + 1]
    BY <1>2 DEF BeforeRequest
  <2> QED
    BY <1>2, <2>1 DEF Breaker, Probing
<1>3. CASE b.state = "closed"
  BY <1>3 DEF BeforeRequest
<1> QED
  BY <1>1, <1>2, <1>3 DEF Breaker, States

\* No call reaches Workers AI under an open breaker, and a call that is let
\* through otherwise than by a closed one holds a half-open slot: the check and
\* the increment of beforeRequest, repeated by every retry.
THEOREM EveryCallIsAdmitted == Spec => CallsAreAdmitted
<1> DEFINE A == \A r \in Requests : pc[r] # "calling" /\ pc'[r] = "calling" =>
                  /\ breaker'.state # "open"
                  /\ breaker'.state = "half-open" =>
                       probe'[r] /\ breaker'.halfOpenInFlight > 0
<1>1. ASSUME IInv, [Next]_vars
      PROVE  A
  <2> SUFFICES ASSUME NEW r \in Requests, pc[r] # "calling", pc'[r] = "calling"
               PROVE  /\ breaker'.state # "open"
                      /\ breaker'.state = "half-open" =>
                           probe'[r] /\ breaker'.halfOpenInFlight > 0
    OBVIOUS
  <2>1. /\ breaker \in Breaker
        /\ pc \in [Requests -> {"idle", "calling", "sleeping"}]
        /\ probe \in [Requests -> BOOLEAN]
    BY <1>1 DEF IInv, TypeOK
  <2>2. ASSUME NEW s \in Requests, NEW n, Attempt(s, n)
        PROVE  /\ breaker'.state # "open"
               /\ breaker'.state = "half-open" =>
                    probe'[r] /\ breaker'.halfOpenInFlight > 0
    <3>1. CASE ~CanAttempt(breaker)
      BY <2>1, <2>2, <3>1 DEF Attempt, End
    <3>2. CASE CanAttempt(breaker)
      <4>1. breaker' = BeforeRequest(breaker)
        BY <2>2, <3>2 DEF Attempt
      <4>2. CASE Flag(s, "retry-attempt")
        BY <2>1, <2>2, <3>2, <4>2 DEF Attempt, RetryOrGiveUp, End
      <4>3. CASE ~Flag(s, "retry-attempt")
        <5>1. /\ pc' = [pc EXCEPT ![s] = "calling"]
              /\ probe' = [probe EXCEPT ![s] = Probing(breaker)]
          BY <2>2, <3>2, <4>3 DEF Attempt
        <5>2. s = r
          BY <2>1, <5>1
        <5>3. probe'[r] = Probing(breaker)
          BY <2>1, <5>1, <5>2
        <5> QED
          BY <2>1, <3>2, <4>1, <5>3, AdmissionTakesSlot
      <4> QED
        BY <4>2, <4>3
    <3> QED
      BY <3>1, <3>2
  <2>3. ASSUME NEW s \in Requests, Start(s)
        PROVE  (\E n : Attempt(s, n)) \/ pc'[r] # "calling"
    BY <2>1, <2>3 DEF Start, End
  <2>4. ASSUME NEW s \in Requests, Succeed(s) \/ Fail(s) \/ Cancel(s)
        PROVE  FALSE
    BY <2>1, <2>4 DEF Succeed, Fail, Cancel, RetryOrGiveUp, End
  <2>5. ~Cooldown /\ ~ToggleHealth /\ ~UNCHANGED vars
    BY DEF Cooldown, ToggleHealth, requestVars, vars
  <2>6. ASSUME NEW s \in Requests, Wake(s)
        PROVE  \E n : Attempt(s, n)
    BY <2>6 DEF Wake
  <2> QED
    BY <1>1, <2>2, <2>3, <2>4, <2>5, <2>6 DEF Next
<1>2. IInv /\ [Next]_vars => [A]_vars
  BY <1>1
<1> QED
  BY <1>2, Invariance, PTL DEF Spec, CallsAreAdmitted
=============================================================================
