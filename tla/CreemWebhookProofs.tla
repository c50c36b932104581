------------------------- MODULE CreemWebhookProofs -------------------------
(***************************************************************************)
(* Proofs about CreemWebhook, for any number of handlers, usages, events,  *)
(* repeats and failures: how often a repeated delivery is dispatched,      *)
(* types, that what counts as done was credited, how often an order is     *)
(* credited, and what the mirror may show.                                 *)
(***************************************************************************)
EXTENDS CreemWebhook, FiniteSetTheorems, WellFoundedInduction, TLAPS

\* Arithmetic of natural numbers.
LEMMA Products ==
  ASSUME NEW a \in Nat, NEW n \in Nat
  PROVE  /\ a * n \in Nat /\ (a + 1) * n = a * n + n
         /\ n * a = a * n
OBVIOUS

\* A handler that is about to remember its delivery checked its time at most MaxLatency ago.
Checked(h) ==
  pc[h] = "remember" =>
    /\ msg[h] \in sent /\ local[h].checked \in Nat
    /\ local[h].checked <= msg[h].at + Tolerance /\ now <= local[h].checked + MaxLatency

\* A key has been set for Tolerance as often as its delivery was dispatched, one
\* after the other, and the first time not before the delivery was sent.
Spaced(d) ==
  /\ d \in sent /\ remembered[d] \in Int /\ dispatched[d] \in Nat
  /\ (d.at - Ahead) + dispatched[d] * Tolerance <= remembered[d]

\* The control of the handlers is a function on Handlers, and nothing is dispatched
\* but what the replay store has taken in.
IInv ==
  /\ DOMAIN pc = Handlers /\ DOMAIN msg = Handlers /\ DOMAIN local = Handlers
  /\ now \in Nat
  /\ \A d \in sent : d.at \in Int /\ d.at - Ahead <= now
  /\ DOMAIN dispatched = DOMAIN remembered
  /\ \A d \in DOMAIN remembered : Spaced(d)
  /\ \A h \in Handlers : Checked(h)
  /\ RepeatsAreBounded

\* A step of a handler past verification moves that handler only, from a statement, and
\* leaves the clock, the provider's deliveries, the replay store and the usages alone.
Quiet(h) ==
  /\ pc[h] # "idle" /\ DOMAIN pc' = DOMAIN pc /\ pc'[h] # "remember"
  /\ DOMAIN msg' = DOMAIN msg /\ DOMAIN local' = DOMAIN local
  /\ \A g \in Handlers : g # h => pc'[g] = pc[g] /\ msg'[g] = msg[g] /\ local'[g] = local[g]
  /\ UNCHANGED <<now, sent, remembered, usage, dispatched>>

\* Every statement of a handler is such a step.
LEMMA StepIsQuiet ==
  ASSUME IInv, NEW h \in Handlers, Step(h)
  PROVE  Quiet(h)
<1> USE DEF IInv
<1>1. CASE UpsertCustomer(h)
  <2>1. CASE Throw(h)
    BY <1>1, <2>1 DEF UpsertCustomer, Throw, Leave, Quit, Quiet
  <2>2. CASE /\ Goto(h, "upsert", IF Event(h).kind = "checkout" /\ Event(h).subscription = None
                                    THEN "respond" ELSE AfterCustomer(Event(h)))
             /\ local' = [local EXCEPT ![h].customer = Event(h).customer]
             /\ UNCHANGED <<provider, msg>>
    BY <1>1, <2>2 DEF UpsertCustomer, AfterCustomer, Goto, provider, Quiet
  <2> QED
    BY <1>1, <2>1, <2>2 DEF UpsertCustomer
<1>2. CASE LookupCustomer(h)
  BY <1>2 DEF LookupCustomer, Throw, Leave, Quit, Goto, provider, Quiet
<1>3. CASE FindOrder(h)
  BY <1>3 DEF FindOrder, Goto, provider, Quiet
<1>4. CASE ReadCustomer(h)
  BY <1>4 DEF ReadCustomer, Goto, provider, Quiet
<1>5. CASE SetCredits(h)
  BY <1>5 DEF SetCredits, Goto, provider, Quiet
<1>6. CASE AddBalance(h)
  BY <1>6 DEF AddBalance, Goto, provider, Quiet
<1>7. CASE LogPurchase(h)
  BY <1>7 DEF LogPurchase, Goto, provider, Quiet
<1>8. CASE InsertHistory(h)
  BY <1>8 DEF InsertHistory, Throw, Leave, Quit, Goto, provider, Quiet
<1>9. CASE FindSubscription(h)
  BY <1>9 DEF FindSubscription, Goto, provider, Quiet
<1>10. CASE WriteSubscription(h)
  BY <1>10 DEF WriteSubscription, Throw, Leave, Quit, Goto, provider, Quiet
<1>11. CASE Respond(h)
  BY <1>11 DEF Respond, Leave, Quit, Quiet
<1>12. CASE Fail(h)
  BY <1>12 DEF Fail, Leave, Quit, Quiet
<1> QED
  BY <1>1, <1>2, <1>3, <1>4, <1>5, <1>6, <1>7, <1>8, <1>9, <1>10, <1>11, <1>12 DEF Step

\* Usages, grants and expiries leave the handlers and their deliveries alone.
LEMMA UsageIsApart ==
  ASSUME (\E r \in Uses : UseStep(r)) \/ (\E u \in Users : GrantFree(u) \/ Expire(u))
  PROVE  UNCHANGED <<now, subscriptions, history, purchases, remembered, provider, failures,
                     handler, dispatched>>
BY DEF UseStep, ReadForUse, ChargeForUse, MirrorUse, FailUse, GrantFree, Expire, tables

\* The invariant reads nothing but handlers, clock, deliveries and replay store.
LEMMA UnmovedKeepIInv ==
  ASSUME IInv, UNCHANGED <<now, pc, msg, local, remembered, dispatched>>, sent \subseteq sent',
         \A d \in sent' : d.at \in Int /\ d.at - Ahead <= now
  PROVE  IInv'
<1>1. \A h \in Handlers : Checked(h)'
  BY DEF IInv, Checked
<1>2. \A d \in DOMAIN remembered' : Spaced(d)'
  BY DEF IInv, Spaced
<1> QED
  BY <1>1, <1>2 DEF IInv, RepeatsAreBounded

\* A handler moves to a step other than "remember"; the replay store is as it was.
LEMMA LeavingKeepsIInv ==
  ASSUME IInv, NEW h \in Handlers, DOMAIN pc' = Handlers, pc'[h] # "remember",
         DOMAIN msg' = Handlers, DOMAIN local' = Handlers,
         \A g \in Handlers : g # h => pc'[g] = pc[g] /\ msg'[g] = msg[g] /\ local'[g] = local[g],
         UNCHANGED <<now, sent, remembered, dispatched>>
  PROVE  IInv'
<1>1. \A g \in Handlers : Checked(g)'
  BY DEF IInv, Checked
<1>2. \A d \in DOMAIN remembered' : Spaced(d)'
  BY DEF IInv, Spaced
<1> QED
  BY <1>1, <1>2 DEF IInv, RepeatsAreBounded

\* The check of the timestamp.
LEMMA ReceiveKeepsIInv ==
  ASSUME IInv, NEW h \in Handlers, NEW d \in sent, Receive(h, d)
  PROVE  IInv'
<1> DEFINE l == [NoLocal EXCEPT !.checked = now]
<1>1. /\ pc' = [pc EXCEPT ![h] = "remember"] /\ msg' = [msg EXCEPT ![h] = d]
      /\ local' = [local EXCEPT ![h] = l] /\ InTolerance(d)
      /\ UNCHANGED <<now, sent, remembered, dispatched>>
  BY DEF Receive, provider
<1>2. l.checked = now
  BY DEF NoLocal
<1> HIDE DEF l
<1>3. /\ DOMAIN pc' = Handlers /\ DOMAIN msg' = Handlers /\ DOMAIN local' = Handlers
      /\ pc'[h] = "remember" /\ msg'[h] = d /\ local'[h].checked = now
      /\ \A g \in Handlers : g # h => pc'[g] = pc[g] /\ msg'[g] = msg[g] /\ local'[g] = local[g]
  BY <1>1, <1>2 DEF IInv
<1>4. now <= d.at + Tolerance /\ now <= now + MaxLatency /\ now \in Nat
  <2>1. now \in Nat /\ d.at \in Int /\ Tolerance \in Nat /\ MaxLatency \in Nat
    BY WebhookAssumption DEF IInv
  <2>2. Distance(now, d.at) <= Tolerance
    BY <1>1 DEF InTolerance
  <2> DEFINE a == d.at
  <2>3. a \in Int /\ (IF now <= a THEN a - now ELSE now - a) <= Tolerance
    BY <2>1, <2>2 DEF Distance
  <2> HIDE DEF a
  <2>4. now <= a + Tolerance
    BY <2>1, <2>3
  <2> QED
    BY <2>1, <2>4 DEF a
<1>5. \A g \in Handlers : Checked(g)'
  BY <1>1, <1>3, <1>4 DEF IInv, Checked
<1>6. \A x \in DOMAIN remembered' : Spaced(x)'
  BY <1>1 DEF IInv, Spaced
<1> QED
  BY <1>1, <1>3, <1>5, <1>6 DEF IInv, RepeatsAreBounded

\* A delivery that is not remembered is late: its check was in time, and the latency is
\* bounded.
LEMMA RememberedInTime ==
  ASSUME IInv, NEW h \in Handlers, pc[h] = "remember"
  PROVE  /\ msg[h] \in sent /\ msg[h].at \in Int
         /\ msg[h].at - Ahead <= now /\ now <= (msg[h].at + Tolerance) + MaxLatency
<1> DEFINE a == msg[h].at
           c == local[h].checked
<1>1. /\ msg[h] \in sent /\ a \in Int /\ a - Ahead <= now /\ now \in Nat
      /\ c \in Nat /\ c <= a + Tolerance /\ now <= c + MaxLatency
  BY DEF IInv, Checked
<1>2. Tolerance \in Nat /\ MaxLatency \in Nat
  BY WebhookAssumption
<1> HIDE DEF a, c
<1>3. now <= (a + Tolerance) + MaxLatency
  BY <1>1, <1>2
<1> QED
  BY <1>1, <1>3 DEF a

\* A key that is set again has outlived Tolerance once more: so the lifetimes of the keys
\* of a delivery fit into the time in which its signature reaches the replay store.
LEMMA SetIsSpaced ==
  ASSUME IInv, NEW h \in Handlers, pc[h] = "remember", Fresh(msg[h]), NEW n \in Nat,
         n = IF msg[h] \in DOMAIN dispatched THEN dispatched[msg[h]] ELSE 0
  PROVE  /\ n * Tolerance <= (Tolerance + MaxLatency) + Ahead
         /\ (msg[h].at - Ahead) + n * Tolerance <= now
<1> DEFINE a == msg[h].at
           t == n * Tolerance
<1>1. a \in Int /\ a - Ahead <= now /\ now <= (a + Tolerance) + MaxLatency /\ now \in Nat
  BY RememberedInTime DEF IInv
<1>2. Tolerance \in Nat /\ MaxLatency \in Nat /\ Ahead \in Int
  BY WebhookAssumption
<1>3. t \in Nat
  BY <1>2, Products
<1>4. (a - Ahead) + t <= now
  <2>1. CASE msg[h] \in DOMAIN remembered
    <3>1. Spaced(msg[h]) /\ n = dispatched[msg[h]] /\ remembered[msg[h]] <= now
      BY <2>1 DEF IInv, Fresh
    <3> DEFINE r == remembered[msg[h]]
    <3>2. r \in Int /\ (a - Ahead) + t <= r /\ r <= now
      BY <3>1 DEF Spaced
    <3> HIDE DEF a, t, r
    <3> QED
      BY <1>1, <1>2, <1>3, <3>2
  <2>2. CASE msg[h] \notin DOMAIN remembered
    <3>1. n = 0
      BY <2>2 DEF IInv
    <3>2. t = 0
      BY <1>2, <3>1
    <3> HIDE DEF a, t
    <3> QED
      BY <1>1, <1>2, <3>2
  <2> QED
    BY <2>1, <2>2
<1> HIDE DEF a, t
<1>5. t <= (Tolerance + MaxLatency) + Ahead
  BY <1>1, <1>2, <1>3, <1>4
<1> QED
  BY <1>4, <1>5 DEF a, t

\* A key is set and m more dispatches are counted, one or none.
LEMMA SetKeepsIInv ==
  ASSUME IInv, NEW h \in Handlers, pc[h] = "remember", Fresh(msg[h]), NEW n \in Nat,
         n = IF msg[h] \in DOMAIN dispatched THEN dispatched[msg[h]] ELSE 0,
         NEW m \in Nat, m = n \/ m = n + 1,
         remembered' = Extend(remembered, msg[h], now + Tolerance),
         dispatched' = Extend(dispatched, msg[h], m),
         DOMAIN pc' = Handlers, pc'[h] # "remember", DOMAIN msg' = Handlers,
         DOMAIN local' = Handlers,
         \A g \in Handlers : g # h => pc'[g] = pc[g] /\ msg'[g] = msg[g] /\ local'[g] = local[g],
         UNCHANGED <<now, sent>>
  PROVE  IInv'
<1>1. PICK d : d = msg[h]
  OBVIOUS
<1>2. Tolerance \in Nat /\ MaxLatency \in Nat /\ Ahead \in Int /\ now \in Nat
  BY WebhookAssumption DEF IInv
<1>3. d \in sent /\ d.at \in Int
  BY <1>1, RememberedInTime
<1> DEFINE t == n * Tolerance
           a == d.at
           s == m * Tolerance
<1>4. t \in Nat /\ t <= (Tolerance + MaxLatency) + Ahead /\ (a - Ahead) + t <= now
  BY <1>1, <1>2, SetIsSpaced, Products
<1>5. s \in Nat /\ (s = t \/ s = t + Tolerance)
  BY <1>2, Products
<1>6. (a - Ahead) + s <= now + Tolerance
  <2> HIDE DEF t, a, s
  <2>1. a \in Int
    BY <1>3 DEF a
  <2> QED
    BY <1>2, <1>4, <1>5, <2>1
<1>7. m > 0 => (m - 1) * Tolerance <= Tolerance + MaxLatency + Ahead
  <2>1. CASE m = n + 1
    <3>1. m - 1 = n
      BY <2>1
    <3>2. (m - 1) * Tolerance = t
      BY <3>1
    <3> HIDE DEF t
    <3> QED
      BY <1>2, <1>4, <3>2
  <2>2. CASE m = n /\ m > 0
    <3>1. (m - 1) + 1 = n /\ m - 1 \in Nat
      BY <2>2
    <3>2. PICK k \in Nat : k = m - 1
      BY <3>1
    <3>3. k * Tolerance \in Nat /\ (k + 1) * Tolerance = k * Tolerance + Tolerance
      BY <1>2, Products
    <3>4. t = k * Tolerance + Tolerance
      BY <3>1, <3>2, <3>3
    <3> DEFINE q == k * Tolerance
    <3>5. t = q + Tolerance /\ q \in Nat /\ (m - 1) * Tolerance = q
      BY <3>2, <3>3, <3>4
    <3> HIDE DEF t, q
    <3>6. q <= Tolerance + MaxLatency + Ahead
      BY <1>2, <1>4, <3>5
    <3> QED
      BY <3>5, <3>6
  <2> QED
    BY <2>1, <2>2
<1> HIDE DEF t, a, s
<1>8. /\ DOMAIN remembered' = DOMAIN remembered \cup {d}
      /\ \A x \in DOMAIN remembered' :
           remembered'[x] = IF x = d THEN now + Tolerance ELSE remembered[x]
  BY <1>1 DEF Extend
<1>9. /\ DOMAIN dispatched' = DOMAIN dispatched \cup {d}
      /\ \A x \in DOMAIN dispatched' : dispatched'[x] = IF x = d THEN m ELSE dispatched[x]
  BY <1>1 DEF Extend
<1>10. DOMAIN dispatched' = DOMAIN remembered'
  BY <1>8, <1>9 DEF IInv
<1>11. ASSUME NEW x \in DOMAIN remembered'
       PROVE  Spaced(x)'
  <2>1. CASE x = d
    <3>1. /\ x \in sent' /\ remembered'[x] = now + Tolerance /\ dispatched'[x] = m
          /\ now + Tolerance \in Int
      BY <1>2, <1>3, <1>8, <1>9, <1>10, <1>11, <2>1
    <3>2. (x.at - Ahead) + m * Tolerance <= now + Tolerance
      BY <1>6, <2>1 DEF a, s
    <3> QED
      BY <3>1, <3>2 DEF Spaced
  <2>2. CASE x # d
    BY <1>8, <1>9, <1>10, <1>11, <2>2 DEF IInv, Spaced
  <2> QED
    BY <2>1, <2>2
<1>12. \A g \in Handlers : Checked(g)'
  BY DEF IInv, Checked
<1>13. RepeatsAreBounded'
  BY <1>7, <1>9 DEF IInv, RepeatsAreBounded
<1> QED
  BY <1>10, <1>11, <1>12, <1>13 DEF IInv

\* checkAndRemember: the delivery is fresh, or repeated, or Redis does not answer.
LEMMA RememberKeepsIInv ==
  ASSUME IInv, NEW h \in Handlers, Remember(h)
  PROVE  IInv'
<1> DEFINE d == msg[h]
           n == IF d \in DOMAIN dispatched THEN dispatched[d] ELSE 0
           Moved == /\ DOMAIN pc' = Handlers /\ pc'[h] # "remember" /\ DOMAIN msg' = Handlers
                    /\ DOMAIN local' = Handlers
                    /\ \A g \in Handlers : g # h =>
                         pc'[g] = pc[g] /\ msg'[g] = msg[g] /\ local'[g] = local[g]
<1>1. pc[h] = "remember" /\ now' = now /\ sent' = sent
  BY DEF Remember, provider
<1>2. n \in Nat
  BY DEF IInv, Spaced
<1>3. Quit(h) => Moved
  BY DEF Quit, IInv
<1>4. CASE /\ Fresh(d) /\ remembered' = Extend(remembered, d, KeyExpiry(d))
           /\ dispatched' = Extend(dispatched, d, n + 1)
           /\ pc' = [pc EXCEPT ![h] = FirstStep(Event(h))]
           /\ local' = [local EXCEPT ![h] = NoLocal] /\ UNCHANGED <<msg, provider>>
  <2>1. FirstStep(Event(h)) # "remember"
    BY DEF FirstStep
  <2>2. Moved
    BY <1>4, <2>1 DEF IInv
  <2>3. n + 1 \in Nat /\ remembered' = Extend(remembered, d, now + Tolerance)
    BY <1>2, <1>4 DEF KeyExpiry
  <2>4. \E m \in Nat : m = n + 1 /\ dispatched' = Extend(dispatched, d, m)
    BY <1>4, <2>3
  <2> HIDE DEF n
  <2> QED
    BY <1>1, <1>2, <1>4, <2>2, <2>3, <2>4, SetKeepsIInv DEF n
<1>5. CASE Quit(h) /\ UNCHANGED <<remembered, dispatched>>
  BY <1>1, <1>3, <1>5, LeavingKeepsIInv
<1>6. CASE /\ Quit(h) /\ Fresh(d) /\ remembered' = Extend(remembered, d, KeyExpiry(d))
           /\ dispatched' = Extend(dispatched, d, n)
  <2>1. remembered' = Extend(remembered, d, now + Tolerance)
    BY <1>6 DEF KeyExpiry
  <2> QED
    BY <1>1, <1>2, <1>3, <1>6, <2>1, SetKeepsIInv
<1> QED
  BY <1>4, <1>5, <1>6 DEF Remember

\* Every step of provider, network, clock, handlers and usages keeps the invariant.
LEMMA NextKeepsIInv ==
  ASSUME IInv, [Next]_vars
  PROVE  IInv'
<1>1. CASE Tick
  <2>1. /\ now' = now + 1 /\ UNCHANGED <<pc, msg, local, sent, remembered, dispatched>>
        /\ now \in Nat /\ MaxLatency \in Nat /\ Ahead \in Int
    BY <1>1, WebhookAssumption DEF IInv, Tick, provider, handler
  <2>2. ASSUME NEW h \in Handlers
        PROVE  Checked(h)'
    <3>1. Checked(h) /\ (pc[h] = "remember" => now < local[h].checked + MaxLatency)
      BY <1>1 DEF IInv, Tick
    <3>2. pc[h] = "remember" => now + 1 <= local[h].checked + MaxLatency
      BY <2>1, <3>1 DEF Checked
    <3> QED
      BY <2>1, <3>1, <3>2 DEF Checked
  <2>3. \A d \in DOMAIN remembered' : Spaced(d)'
    BY <2>1 DEF IInv, Spaced
  <2>4. \A d \in sent : d.at \in Int /\ d.at - Ahead <= now + 1
    BY <2>1 DEF IInv
  <2>5. RepeatsAreBounded'
    BY <2>1 DEF IInv, RepeatsAreBounded
  <2> QED
    BY <2>1, <2>2, <2>3, <2>4, <2>5 DEF IInv
<1>2. ASSUME NEW n \in EventNumbers, Send(n)
      PROVE  IInv'
  <2>1. /\ sent' = sent \cup {[event |-> n, at |-> now + Ahead]}
        /\ UNCHANGED <<now, pc, msg, local, remembered, dispatched>>
    BY <1>2 DEF Send, handler
  <2>2. now + Ahead \in Int /\ (now + Ahead) - Ahead <= now
    BY WebhookAssumption DEF IInv
  <2>3. \A d \in sent' : d.at \in Int /\ d.at - Ahead <= now
    BY <2>1, <2>2 DEF IInv
  <2> QED
    BY <2>1, <2>3, UnmovedKeepIInv
<1>3. ASSUME NEW d \in sent, RefuseLate(d) \/ RefuseEarly(d)
      PROVE  IInv'
  <2>1. UNCHANGED <<now, sent, pc, msg, local, remembered, dispatched>>
    BY <1>3 DEF RefuseLate, RefuseEarly, handler
  <2> QED
    BY <2>1, UnmovedKeepIInv DEF IInv
<1>4. ASSUME NEW d \in sent, NEW h \in Handlers, Receive(h, d)
      PROVE  IInv'
  BY <1>4, ReceiveKeepsIInv
<1>5. ASSUME NEW h \in Handlers, Step(h)
      PROVE  IInv'
  <2>1. Quiet(h)
    BY <1>5, StepIsQuiet
  <2> QED
    BY <2>1, LeavingKeepsIInv DEF Quiet, IInv
<1>6. ASSUME NEW h \in Handlers, Remember(h)
      PROVE  IInv'
  BY <1>6, RememberKeepsIInv
<1>7. ASSUME (\E r \in Uses : UseStep(r)) \/ (\E u \in Users : GrantFree(u) \/ Expire(u))
      PROVE  IInv'
  <2>1. UNCHANGED <<now, sent, pc, msg, local, remembered, dispatched>>
    BY <1>7, UsageIsApart DEF provider, handler
  <2> QED
    BY <2>1, UnmovedKeepIInv DEF IInv
<1>8. CASE UNCHANGED vars
  <2>1. UNCHANGED <<now, sent, pc, msg, local, remembered, dispatched>>
    BY <1>8 DEF vars, provider, handler
  <2> QED
    BY <2>1, UnmovedKeepIInv DEF IInv
<1> QED
  BY <1>1, <1>2, <1>3, <1>4, <1>5, <1>6, <1>7, <1>8 DEF Next

\* The invariant holds in every reachable state.
LEMMA Invariance == Spec => []IInv
<1>1. Init => IInv
  BY DEF Init, IInv, Empty, Checked, RepeatsAreBounded
<1>2. IInv /\ [Next]_vars => IInv'
  BY NextKeepsIInv
<1> QED
  BY <1>1, <1>2, PTL DEF Spec

\* A delivery that the network repeats, at any times and to any handlers, is dispatched
\* a bounded number of times, whatever runs between the check of its time and the SET of
\* its key (verifyCreemWebhookSignature).
THEOREM RepeatsAreFew == Spec => []RepeatsAreBounded
<1>1. IInv => RepeatsAreBounded
  BY DEF IInv
<1> QED
  BY <1>1, Invariance, PTL

-----------------------------------------------------------------------------
(* Types.                                                                  *)

Customers == {Events[n].customer : n \in EventNumbers} \cup {None}
Locals == [customer: Customers, credits: Nat, user: Users \cup {None}, exists: BOOLEAN,
           checked: Nat]
CreditSteps == {"findOrder", "readCustomer", "setCredits", "addBalance", "logPurchase",
"insertHistory"}

TablesTyped ==
  /\ DOMAIN customers \subseteq Customers
  /\ \A c \in DOMAIN customers : customers[c] \in [user: Users, credits: Nat]
  /\ \A s \in DOMAIN subscriptions : subscriptions[s].customer \in DOMAIN customers
  /\ history \in [Orders -> Nat] /\ purchases \in [Orders -> Nat]
  /\ balance \in [Users -> Int]

ProviderTyped ==
  /\ sent \subseteq Delivery
  /\ answer \in [EventNumbers -> {"none", "ok", "failed"}]
  /\ timeouts \in Nat /\ refusals \in Nat /\ failures \in Nat

\* A handler that is past its first step and not done knows a customer's row, and it takes
\* the steps of its event's kind.
HandlerTyped(h) ==
  /\ pc[h] # "idle" => msg[h] \in sent
  /\ pc[h] = "upsert" => FirstStep(Event(h)) = "upsert"
  /\ pc[h] \notin {"idle", "remember", "upsert", "lookup", "respond"}
       => local[h].customer \in DOMAIN customers
  /\ pc[h] \in CreditSteps => Event(h).kind = "credits"
  /\ pc[h] \in {"setCredits", "addBalance"} => local[h].user \in Users

HandlersTyped ==
  /\ pc \in [Handlers -> PcValues] /\ DOMAIN msg = Handlers /\ local \in [Handlers -> Locals]
  /\ \A h \in Handlers : HandlerTyped(h)

HInv == IInv /\ TablesTyped /\ ProviderTyped /\ HandlersTyped

\* The event of a handler at work.
LEMMA EventTyped ==
  ASSUME HInv, NEW h \in Handlers, pc[h] # "idle"
  PROVE  /\ msg[h] \in sent /\ msg[h].event \in EventNumbers
         /\ Event(h).kind \in Kinds /\ Event(h).credits \in Nat
         /\ Event(h).user \in Users /\ Event(h).order \in Orders /\ Event(h).customer \in Customers
         /\ Event(h) = Events[msg[h].event]
<1>1. msg[h] \in sent /\ msg[h].event \in EventNumbers
  BY DEF HInv, HandlersTyped, HandlerTyped, ProviderTyped, Delivery
<1> QED
  BY <1>1, WebhookAssumption DEF Event, Users, Orders, Customers

\* The steps of another handler, the clock and the provider keep a handler's typing.
LEMMA OthersTyped ==
  ASSUME NEW g \in Handlers, HandlerTyped(g), pc'[g] = pc[g], msg'[g] = msg[g],
         local'[g] = local[g],
         sent \subseteq sent', DOMAIN customers \subseteq DOMAIN customers'
  PROVE  HandlerTyped(g)'
BY DEF HandlerTyped, Event

\* A handler goes on with step `to` and local variables l.
LEMMA GoesOn ==
  ASSUME HInv, IInv', NEW h \in Handlers, NEW to \in PcValues, NEW l \in Locals,
         pc' = [pc EXCEPT ![h] = to], local' = [local EXCEPT ![h] = l],
         UNCHANGED <<provider, msg, failures>>, pc[h] # "idle",
         to \notin {"idle", "remember", "upsert", "lookup"},
         TablesTyped', DOMAIN customers \subseteq DOMAIN customers',
         l.customer \in DOMAIN customers',
         to \in CreditSteps => Event(h).kind = "credits",
         to \in {"setCredits", "addBalance"} => l.user \in Users
  PROVE  HInv'
<1>1. UNCHANGED <<sent, answer, timeouts, refusals>>
  BY DEF provider
<1>2. ProviderTyped'
  BY <1>1 DEF HInv, ProviderTyped
<1>3. /\ pc' \in [Handlers -> PcValues] /\ DOMAIN msg' = Handlers /\ local' \in [Handlers -> Locals]
      /\ pc'[h] = to /\ local'[h] = l
      /\ \A g \in Handlers : g # h => pc'[g] = pc[g] /\ local'[g] = local[g]
  BY DEF HInv, HandlersTyped
<1>4. HandlerTyped(h)'
  BY <1>1, <1>3, EventTyped DEF HandlerTyped, Event
<1>5. ASSUME NEW g \in Handlers, g # h
      PROVE  HandlerTyped(g)'
  BY <1>1, <1>3, <1>5, OthersTyped DEF HInv, HandlersTyped
<1> QED
  BY <1>2, <1>3, <1>4, <1>5 DEF HInv, HandlersTyped

\* A handler is done.
LEMMA QuitTyped ==
  ASSUME HInv, IInv', NEW h \in Handlers, Quit(h), UNCHANGED <<tables, sent>>, ProviderTyped'
  PROVE  HInv'
<1>1. /\ pc' = [pc EXCEPT ![h] = "idle"] /\ msg' = [msg EXCEPT ![h] = Idle]
      /\ local' = [local EXCEPT ![h] = NoLocal] /\ sent' = sent
      /\ UNCHANGED <<customers, subscriptions, history, balance, purchases>>
  BY DEF Quit, tables
<1>2. TablesTyped'
  BY <1>1 DEF HInv, TablesTyped
<1>3. NoLocal \in Locals
  BY DEF NoLocal, Locals, Customers
<1>4. /\ pc' \in [Handlers -> PcValues] /\ DOMAIN msg' = Handlers /\ local' \in [Handlers -> Locals]
      /\ pc'[h] = "idle"
      /\ \A g \in Handlers : g # h => pc'[g] = pc[g] /\ msg'[g] = msg[g] /\ local'[g] = local[g]
  BY <1>1, <1>3 DEF HInv, HandlersTyped, PcValues
<1>5. HandlerTyped(h)'
  BY <1>4 DEF HandlerTyped, PcValues, CreditSteps
<1>6. ASSUME NEW g \in Handlers, g # h
      PROVE  HandlerTyped(g)'
  BY <1>1, <1>4, <1>6, OthersTyped DEF HInv, HandlersTyped
<1> QED
  BY <1>2, <1>4, <1>5, <1>6 DEF HInv, HandlersTyped

\* A handler is done, with or without success.
LEMMA LeaveTyped ==
  ASSUME HInv, IInv', NEW h \in Handlers, NEW status \in {"ok", "failed"}, pc[h] # "idle",
         Leave(h, status), UNCHANGED tables, failures' \in Nat
  PROVE  HInv'
<1>1. /\ Quit(h) /\ UNCHANGED <<sent, timeouts, refusals>>
      /\ answer' = answer \/ answer' = [answer EXCEPT ![msg[h].event] = status]
  BY DEF Leave, Answered
<1>2. ProviderTyped'
  BY <1>1, EventTyped DEF HInv, ProviderTyped
<1> QED
  BY <1>1, <1>2, QuitTyped

\* createOrUpdateCustomer.
LEMMA UpsertTyped ==
  ASSUME HInv, IInv', NEW h \in Handlers, UpsertCustomer(h)
  PROVE  HInv'
<1> DEFINE e == Event(h)
           kept == IF e.customer \in DOMAIN customers THEN customers[e.customer].credits ELSE 0
           to == IF e.kind = "checkout" /\ e.subscription = None THEN "respond"
             ELSE AfterCustomer(e)
           l == [local[h] EXCEPT !.customer = e.customer]
           row == [user |-> e.user, credits |-> kept]
<1>1. pc[h] = "upsert" /\ failures' = failures /\ failures \in Nat
  BY DEF UpsertCustomer, HInv, ProviderTyped
<1>2. CASE Throw(h)
  BY <1>1, <1>2, LeaveTyped DEF Throw
<1>3. CASE /\ customers' = Extend(customers, e.customer, row)
           /\ local' = [local EXCEPT ![h].customer = e.customer]
           /\ Goto(h, "upsert", to)
           /\ UNCHANGED <<subscriptions, history, balance, purchases, provider, msg>>
  <2>1. e.kind \in Kinds /\ e.user \in Users /\ e.customer \in Customers /\ local[h] \in Locals
    BY <1>1, EventTyped DEF HInv, HandlersTyped
  <2>2. kept \in Nat
    BY DEF HInv, TablesTyped
  <2>3. /\ to \in PcValues /\ to \notin {"idle", "remember", "upsert", "lookup", "setCredits",
           "addBalance"}
        /\ to \in CreditSteps => e.kind = "credits"
    BY <2>1 DEF PcValues, AfterCustomer, CreditSteps, Kinds
  <2>4. l \in Locals /\ l.customer = e.customer
    BY <2>1 DEF Locals
  <2>5. row \in [user: Users, credits: Nat]
    BY <2>1, <2>2
  <2>6. pc' = [pc EXCEPT ![h] = to] /\ local' = [local EXCEPT ![h] = l]
    BY <1>3 DEF Goto
  <2> HIDE DEF e, kept, to, l, row
  <2>7. /\ DOMAIN customers' = DOMAIN customers \cup {e.customer} /\ customers'[e.customer] = row
        /\ \A c \in DOMAIN customers : c # e.customer => customers'[c] = customers[c]
    <3> DEFINE k == e.customer
    <3>1. customers' = Extend(customers, k, row)
      BY <1>3 DEF e, row, kept
    <3> HIDE DEF k
    <3>2. /\ DOMAIN customers' = DOMAIN customers \cup {k} /\ customers'[k] = row
          /\ \A c \in DOMAIN customers : c # k => customers'[c] = customers[c]
      BY <3>1 DEF Extend
    <3> QED
      BY <3>2 DEF k
  <2>8. TablesTyped'
    BY <1>3, <2>1, <2>5, <2>7 DEF HInv, TablesTyped
  <2> QED
    BY <1>1, <1>3, <2>3, <2>4, <2>6, <2>7, <2>8, GoesOn DEF e
<1> QED
  BY <1>2, <1>3 DEF UpsertCustomer

\* getCustomerIdByUserId.
LEMMA LookupTyped ==
  ASSUME HInv, IInv', NEW h \in Handlers, LookupCustomer(h)
  PROVE  HInv'
<1>1. pc[h] = "lookup" /\ failures' = failures /\ failures \in Nat
  BY DEF LookupCustomer, HInv, ProviderTyped
<1>2. CASE Throw(h)
  BY <1>1, <1>2, LeaveTyped DEF Throw
<1>3. ASSUME NEW c \in DOMAIN customers, local' = [local EXCEPT ![h].customer = c],
             Goto(h, "lookup", "findSubscription"), UNCHANGED <<tables, provider, msg>>
      PROVE  HInv'
  <2> DEFINE l == [local[h] EXCEPT !.customer = c]
  <2>1. c \in Customers /\ local[h] \in Locals
    BY DEF HInv, TablesTyped, HandlersTyped
  <2>2. l \in Locals /\ l.customer = c
    BY <2>1 DEF Locals
  <2>3. pc' = [pc EXCEPT ![h] = "findSubscription"] /\ local' = [local EXCEPT ![h] = l]
    BY <1>3 DEF Goto
  <2> HIDE DEF l
  <2>4. TablesTyped' /\ customers' = customers
    BY <1>3 DEF HInv, TablesTyped, tables
  <2> QED
    BY <1>1, <1>3, <2>2, <2>3, <2>4, GoesOn DEF PcValues, CreditSteps
<1> QED
  BY <1>2, <1>3 DEF LookupCustomer

\* A handler goes on without reading anything.
LEMMA MovesOn ==
  ASSUME HInv, IInv', NEW h \in Handlers, NEW to \in PcValues,
         pc' = [pc EXCEPT ![h] = to], local' = local, UNCHANGED <<provider, msg, failures>>,
         pc[h] \notin {"idle", "remember", "upsert", "lookup", "respond"},
         to \notin {"idle", "remember", "upsert", "lookup"},
         TablesTyped', DOMAIN customers \subseteq DOMAIN customers',
         to \in CreditSteps => pc[h] \in CreditSteps, to # "setCredits",
         to = "addBalance" => pc[h] = "setCredits"
  PROVE  HInv'
<1>1. /\ local[h] \in Locals /\ local' = [local EXCEPT ![h] = local[h]]
      /\ local[h].customer \in DOMAIN customers
      /\ pc[h] \in CreditSteps => Event(h).kind = "credits"
      /\ pc[h] = "setCredits" => local[h].user \in Users
  BY DEF HInv, HandlersTyped, HandlerTyped
<1> QED
  BY <1>1, GoesOn

\* The first statements of addCreditsToCustomer.
LEMMA FindOrderTyped ==
  ASSUME HInv, IInv', NEW h \in Handlers, FindOrder(h)
  PROVE  HInv'
<1> DEFINE to == IF Event(h).order # None /\ history[Event(h).order] > 0
                   THEN "respond" ELSE "readCustomer"
<1>1. /\ pc[h] = "findOrder" /\ pc' = [pc EXCEPT ![h] = to] /\ local' = local
      /\ UNCHANGED <<provider, msg, failures>> /\ customers' = customers /\ UNCHANGED tables
  BY DEF FindOrder, Goto, tables
<1>2. to \in {"respond", "readCustomer"}
  OBVIOUS
<1> HIDE DEF to
<1>3. TablesTyped'
  BY <1>1 DEF HInv, TablesTyped, tables
<1> QED
  BY <1>1, <1>2, <1>3, MovesOn DEF PcValues, CreditSteps

\* addCreditsToCustomer: the credits it reads are a number.
LEMMA ReadCustomerTyped ==
  ASSUME HInv, IInv', NEW h \in Handlers, ReadCustomer(h)
  PROVE  HInv'
<1> DEFINE row == customers[local[h].customer]
           l == [local[h] EXCEPT !.credits = row.credits, !.user = row.user]
<1>1. /\ pc[h] = "readCustomer" /\ pc' = [pc EXCEPT ![h] = "setCredits"]
      /\ local' = [local EXCEPT ![h] = l]
      /\ UNCHANGED <<provider, msg, failures>> /\ customers' = customers /\ UNCHANGED tables
  BY DEF ReadCustomer, Goto, tables
<1>2. /\ local[h] \in Locals /\ local[h].customer \in DOMAIN customers
      /\ Event(h).kind = "credits"
  BY <1>1 DEF HInv, HandlersTyped, HandlerTyped, CreditSteps
<1>3. row.credits \in Nat /\ row.user \in Users
  BY <1>2 DEF HInv, TablesTyped
<1> HIDE DEF row
<1>4. l \in Locals /\ l.customer = local[h].customer /\ l.user \in Users
  BY <1>2, <1>3 DEF Locals
<1> HIDE DEF l
<1>5. TablesTyped'
  BY <1>1 DEF HInv, TablesTyped, tables
<1> QED
  BY <1>1, <1>2, <1>4, <1>5, GoesOn DEF PcValues, CreditSteps

\* addCreditsToCustomer: the credits it writes are a number.
LEMMA SetCreditsTyped ==
  ASSUME HInv, IInv', NEW h \in Handlers, SetCredits(h)
  PROVE  HInv'
<1> DEFINE c == local[h].customer
           n == MirrorAfter(h)
           row == [customers[c] EXCEPT !.credits = n]
<1>1. /\ pc[h] = "setCredits" /\ pc' = [pc EXCEPT ![h] = "addBalance"] /\ local' = local
      /\ UNCHANGED <<provider, msg, failures, subscriptions, history, balance, purchases>>
      /\ customers' = [customers EXCEPT ![c] = row]
  BY DEF SetCredits, Goto
<1>2. c \in DOMAIN customers /\ local[h] \in Locals /\ Event(h).credits \in Nat
  BY <1>1, EventTyped DEF HInv, HandlersTyped, HandlerTyped
<1>3. n \in Nat
  <2>1. local[h].credits \in Nat
    BY <1>2 DEF Locals
  <2> QED
    BY <1>2, <2>1 DEF MirrorAfter
<1> HIDE DEF n
<1>4. row \in [user: Users, credits: Nat]
  BY <1>2, <1>3 DEF HInv, TablesTyped
<1> HIDE DEF row, c
<1>5. /\ DOMAIN customers' = DOMAIN customers /\ customers'[c] = row
      /\ \A x \in DOMAIN customers : x # c => customers'[x] = customers[x]
  BY <1>1, <1>2
<1>6. TablesTyped'
  BY <1>1, <1>4, <1>5 DEF HInv, TablesTyped
<1> QED
  BY <1>1, <1>5, <1>6, MovesOn DEF PcValues, CreditSteps

\* addCredits: the balance stays an integer.
LEMMA AddBalanceTyped ==
  ASSUME HInv, IInv', NEW h \in Handlers, AddBalance(h)
  PROVE  HInv'
<1>1. /\ pc[h] = "addBalance" /\ pc' = [pc EXCEPT ![h] = "logPurchase"] /\ local' = local
      /\ UNCHANGED <<provider, msg, failures, customers, subscriptions, history, purchases>>
      /\ balance' = [balance EXCEPT ![local[h].user] = balance[local[h].user] + Event(h).credits]
  BY DEF AddBalance, Goto
<1>2. local[h].user \in Users /\ balance[local[h].user] + Event(h).credits \in Int
  BY <1>1, EventTyped DEF HInv, TablesTyped, HandlersTyped, HandlerTyped
<1>3. TablesTyped'
  BY <1>1, <1>2 DEF HInv, TablesTyped
<1> QED
  BY <1>1, <1>3, MovesOn DEF PcValues, CreditSteps

\* addCredits: the count of purchases stays a number.
LEMMA LogPurchaseTyped ==
  ASSUME HInv, IInv', NEW h \in Handlers, LogPurchase(h)
  PROVE  HInv'
<1> DEFINE o == Event(h).order
<1>1. /\ pc[h] = "logPurchase" /\ pc' = [pc EXCEPT ![h] = "insertHistory"] /\ local' = local
      /\ UNCHANGED <<provider, msg, failures, customers, subscriptions, history, balance>>
      /\ purchases' = [purchases EXCEPT ![o] = purchases[o] + 1]
  BY DEF LogPurchase, Goto
<1>2. o \in Orders /\ purchases[o] + 1 \in Nat
  BY <1>1, EventTyped DEF HInv, TablesTyped
<1>3. TablesTyped'
  BY <1>1, <1>2 DEF HInv, TablesTyped
<1> QED
  BY <1>1, <1>3, MovesOn DEF PcValues, CreditSteps

\* addCreditsToCustomer: the INSERT keeps the table typed, accepted or rejected.
LEMMA InsertHistoryTyped ==
  ASSUME HInv, IInv', NEW h \in Handlers, InsertHistory(h)
  PROVE  HInv'
<1> DEFINE o == Event(h).order
<1>1. pc[h] = "insertHistory" /\ failures' = failures /\ failures \in Nat
  BY DEF InsertHistory, HInv, ProviderTyped
<1>2. CASE Throw(h)
  BY <1>1, <1>2, LeaveTyped DEF Throw
<1>3. CASE /\ history' = [history EXCEPT ![o] = history[o] + 1]
           /\ Goto(h, "insertHistory", "respond")
           /\ UNCHANGED <<customers, subscriptions, balance, purchases, provider, msg, local>>
  <2>1. o \in Orders /\ history[o] + 1 \in Nat
    BY <1>1, EventTyped DEF HInv, TablesTyped
  <2>2. TablesTyped'
    BY <1>3, <2>1 DEF HInv, TablesTyped
  <2> QED
    BY <1>1, <1>3, <2>2, MovesOn DEF PcValues, CreditSteps, Goto
<1> QED
  BY <1>2, <1>3 DEF InsertHistory

\* createOrUpdateSubscription.
LEMMA FindSubscriptionTyped ==
  ASSUME HInv, IInv', NEW h \in Handlers, FindSubscription(h)
  PROVE  HInv'
<1> DEFINE x == Event(h).subscription \in DOMAIN subscriptions
           l == [local[h] EXCEPT !.exists = x]
<1>1. /\ pc[h] = "findSubscription" /\ pc' = [pc EXCEPT ![h] = "writeSubscription"]
      /\ local' = [local EXCEPT ![h] = l]
      /\ UNCHANGED <<provider, msg, failures>> /\ customers' = customers /\ UNCHANGED tables
  BY DEF FindSubscription, Goto, tables
<1>2. local[h] \in Locals /\ local[h].customer \in DOMAIN customers /\ x \in BOOLEAN
  BY <1>1 DEF HInv, HandlersTyped, HandlerTyped
<1> HIDE DEF x
<1>3. l \in Locals /\ l.customer = local[h].customer
  BY <1>2 DEF Locals
<1> HIDE DEF l
<1>4. TablesTyped'
  BY <1>1 DEF HInv, TablesTyped, tables
<1> QED
  BY <1>1, <1>2, <1>3, <1>4, GoesOn DEF PcValues, CreditSteps

\* createOrUpdateSubscription: the row names the customer that was read, or nothing is written.
LEMMA WriteSubscriptionTyped ==
  ASSUME HInv, IInv', NEW h \in Handlers, WriteSubscription(h)
  PROVE  HInv'
<1> DEFINE s == Event(h).subscription
           row == [customer |-> local[h].customer, status |-> Event(h).status]
<1>1. pc[h] = "writeSubscription" /\ failures' = failures /\ failures \in Nat
  BY DEF WriteSubscription, HInv, ProviderTyped
<1>2. CASE Throw(h)
  BY <1>1, <1>2, LeaveTyped DEF Throw
<1>3. CASE /\ subscriptions' = Extend(subscriptions, s, row)
           /\ Goto(h, "writeSubscription", "respond")
           /\ UNCHANGED <<customers, history, balance, purchases, provider, msg, local>>
  <2>1. row.customer \in DOMAIN customers
    BY <1>1 DEF HInv, HandlersTyped, HandlerTyped
  <2> HIDE DEF s, row
  <2>2. /\ DOMAIN subscriptions' = DOMAIN subscriptions \cup {s} /\ subscriptions'[s] = row
        /\ \A x \in DOMAIN subscriptions : x # s => subscriptions'[x] = subscriptions[x]
    BY <1>3 DEF Extend
  <2>3. TablesTyped'
    BY <1>3, <2>1, <2>2 DEF HInv, TablesTyped
  <2> QED
    BY <1>1, <1>3, <2>3, MovesOn DEF PcValues, CreditSteps, Goto
<1> QED
  BY <1>2, <1>3 DEF WriteSubscription

\* The answer, or its loss.
LEMMA EndTyped ==
  ASSUME HInv, IInv', NEW h \in Handlers, Respond(h) \/ Fail(h)
  PROVE  HInv'
<1>1. failures \in Nat /\ MaxFailures \in Nat
  BY WebhookAssumption DEF HInv, ProviderTyped
<1>2. CASE Respond(h)
  <2>1. pc[h] # "idle" /\ Leave(h, "ok") /\ UNCHANGED tables /\ failures' \in Nat
    BY <1>1, <1>2 DEF Respond
  <2> QED
    BY <2>1, LeaveTyped
<1>3. CASE Fail(h)
  <2>1. pc[h] # "idle" /\ Leave(h, "failed") /\ UNCHANGED tables /\ failures' \in Nat
    BY <1>1, <1>3 DEF Fail
  <2> QED
    BY <2>1, LeaveTyped
<1> QED
  BY <1>2, <1>3

\* So every statement of a handler keeps the types.
LEMMA StepTyped ==
  ASSUME HInv, IInv', NEW h \in Handlers, Step(h)
  PROVE  HInv'
BY UpsertTyped, LookupTyped, FindOrderTyped, ReadCustomerTyped, SetCreditsTyped, AddBalanceTyped,
   LogPurchaseTyped, InsertHistoryTyped, FindSubscriptionTyped, WriteSubscriptionTyped, EndTyped
   DEF Step

\* What provider, network and clock do keeps the handlers' typing.
LEMMA QuietTyped ==
  ASSUME HInv, IInv', UNCHANGED <<tables, handler>>, ProviderTyped', sent \subseteq sent'
  PROVE  HInv'
<1>1. UNCHANGED <<customers, subscriptions, history, balance, purchases, pc, msg, local>>
  BY DEF tables, handler
<1>2. TablesTyped'
  BY <1>1 DEF HInv, TablesTyped
<1>3. HandlersTyped'
  BY <1>1, OthersTyped DEF HInv, HandlersTyped
<1> QED
  BY <1>2, <1>3 DEF HInv

\* A delivery of the provider is well typed.
LEMMA SendTyped ==
  ASSUME HInv, IInv', NEW n \in EventNumbers, Send(n)
  PROVE  HInv'
<1>1. /\ sent' = sent \cup {[event |-> n, at |-> now + Ahead]} /\ UNCHANGED <<tables, handler>>
      /\ answer' = [answer EXCEPT ![n] = "none"] /\ refusals' = refusals /\ failures' = failures
      /\ timeouts' = timeouts \/ timeouts' = timeouts + 1
  BY DEF Send
<1>2. [event |-> n, at |-> now + Ahead] \in Delivery
  BY WebhookAssumption DEF HInv, IInv, Delivery
<1>3. ProviderTyped'
  BY <1>1, <1>2 DEF HInv, ProviderTyped
<1> QED
  BY <1>1, <1>3, QuietTyped

\* A refusal changes what the provider knows and nothing else.
LEMMA RefuseTyped ==
  ASSUME HInv, IInv', NEW d \in sent, RefuseLate(d) \/ RefuseEarly(d)
  PROVE  HInv'
<1>1. /\ UNCHANGED <<tables, handler, sent, timeouts, failures>>
      /\ refusals' = refusals \/ refusals' = refusals + 1
      /\ answer' = answer \/ answer' = [answer EXCEPT ![d.event] = "failed"]
  BY DEF RefuseLate, RefuseEarly, Answered
<1>2. ProviderTyped'
  BY <1>1 DEF HInv, ProviderTyped
<1> QED
  BY <1>1, <1>2, QuietTyped

\* A handler has another step, with local variables l, and a delivery that was sent.
LEMMA BeginsTyped ==
  ASSUME HInv, IInv', NEW h \in Handlers, NEW l \in Locals, NEW to \in PcValues,
         to \in {"remember", "upsert", "lookup", "respond"}, NEW d \in sent,
         to = "upsert" => FirstStep(Events[d.event]) = "upsert",
         pc' = [pc EXCEPT ![h] = to], local' = [local EXCEPT ![h] = l], DOMAIN msg' = Handlers,
         msg'[h] = d, \A g \in Handlers : g # h => msg'[g] = msg[g], UNCHANGED <<tables,
         provider, failures>>
  PROVE  HInv'
<1>1. UNCHANGED <<customers, subscriptions, history, balance, purchases, sent, answer, timeouts,
                  refusals, failures>>
  BY DEF tables, provider
<1>2. /\ pc' \in [Handlers -> PcValues] /\ DOMAIN msg' = Handlers /\ local' \in [Handlers -> Locals]
      /\ pc'[h] = to /\ msg'[h] = d
      /\ \A g \in Handlers : g # h => pc'[g] = pc[g] /\ msg'[g] = msg[g] /\ local'[g] = local[g]
  BY DEF HInv, HandlersTyped
<1>3. HandlerTyped(h)'
  BY <1>1, <1>2 DEF HandlerTyped, CreditSteps, Event
<1>4. ASSUME NEW g \in Handlers, g # h
      PROVE  HandlerTyped(g)'
  BY <1>1, <1>2, <1>4, OthersTyped DEF HInv, HandlersTyped
<1>5. TablesTyped' /\ ProviderTyped'
  BY <1>1 DEF HInv, TablesTyped, ProviderTyped
<1> QED
  BY <1>2, <1>3, <1>4, <1>5 DEF HInv, HandlersTyped

\* The check of the timestamp.
LEMMA ReceiveTyped ==
  ASSUME HInv, IInv', NEW h \in Handlers, NEW d \in sent, Receive(h, d)
  PROVE  HInv'
<1> DEFINE l == [NoLocal EXCEPT !.checked = now]
<1>1. l \in Locals
  BY DEF NoLocal, Locals, Customers, HInv, IInv
<1>2. /\ pc' = [pc EXCEPT ![h] = "remember"] /\ local' = [local EXCEPT ![h] = l]
      /\ UNCHANGED <<tables, provider, failures>>
      /\ DOMAIN msg' = Handlers /\ msg'[h] = d /\ \A g \in Handlers : g # h => msg'[g] = msg[g]
  BY DEF Receive, HInv, HandlersTyped
<1> HIDE DEF l
<1> QED
  BY <1>1, <1>2, BeginsTyped DEF PcValues

\* checkAndRemember: a handler begins with the first step of its event, or is done.
LEMMA RememberTyped ==
  ASSUME HInv, IInv', NEW h \in Handlers, Remember(h)
  PROVE  HInv'
<1>1. pc[h] = "remember" /\ UNCHANGED <<tables, failures, sent, timeouts>>
  BY DEF Remember, provider
<1>2. msg[h] \in sent /\ msg[h].event \in EventNumbers
  BY <1>1, EventTyped
<1>3. CASE /\ pc' = [pc EXCEPT ![h] = FirstStep(Event(h))]
           /\ local' = [local EXCEPT ![h] = NoLocal] /\ UNCHANGED <<msg, provider>>
  <2> DEFINE to == FirstStep(Event(h))
  <2>1. to \in PcValues /\ to \in {"remember", "upsert", "lookup", "respond"}
    BY DEF FirstStep, PcValues
  <2>2. NoLocal \in Locals
    BY DEF NoLocal, Locals, Customers
  <2>3. DOMAIN msg' = Handlers /\ \A g \in Handlers : msg'[g] = msg[g]
    BY <1>3 DEF HInv, HandlersTyped
  <2>4. to = "upsert" => FirstStep(Events[msg[h].event]) = "upsert"
    BY DEF Event
  <2> HIDE DEF to
  <2>5. pc' = [pc EXCEPT ![h] = to]
    BY <1>3 DEF to
  <2> QED
    BY <1>1, <1>2, <1>3, <2>1, <2>2, <2>3, <2>4, <2>5, BeginsTyped
<1>4. CASE Quit(h) /\ UNCHANGED provider
  <2>1. ProviderTyped'
    BY <1>1, <1>4 DEF provider, HInv, ProviderTyped
  <2> QED
    BY <1>1, <1>4, <2>1, QuitTyped
<1>5. CASE Quit(h) /\ refusals' = refusals + 1 /\ Answered(msg[h], "failed")
  <2>1. answer' = answer \/ answer' = [answer EXCEPT ![msg[h].event] = "failed"]
    BY <1>5 DEF Answered
  <2>2. ProviderTyped'
    BY <1>1, <1>2, <1>5, <2>1 DEF HInv, ProviderTyped
  <2> QED
    BY <1>1, <1>5, <2>2, QuitTyped
<1> QED
  BY <1>3, <1>4, <1>5 DEF Remember

\* A usage request has read numbers, and what is granted and spent adds up to some.
UsageTyped == use \in [Uses -> UseValues] /\ free \in [Users -> Nat] /\ spent \in [Users -> Nat]

TInv == HInv /\ UsageTyped

\* The event of a handler at work.
LEMMA EventOf ==
  ASSUME TInv, NEW h \in Handlers, pc[h] # "idle"
  PROVE  /\ msg[h] \in sent /\ msg[h].event \in EventNumbers
         /\ Event(h).kind \in Kinds /\ Event(h).credits \in Nat
         /\ Event(h).user \in Users /\ Event(h).order \in Orders /\ Event(h).customer \in Customers
         /\ Event(h) = Events[msg[h].event]
BY EventTyped DEF TInv

\* What usages, grants and expiries do to the accounts.
LEMMA UsageStepTyped ==
  ASSUME TInv, IInv',
         (\E r \in Uses : UseStep(r)) \/ (\E u \in Users : GrantFree(u) \/ Expire(u))
  PROVE  TInv'
<1>1. UNCHANGED <<subscriptions, history, purchases, sent, answer, timeouts, refusals, failures,
                  pc, msg, local>>
  BY UsageIsApart DEF provider, handler
<1>2. ASSUME DOMAIN customers' = DOMAIN customers,
             \A c \in DOMAIN customers : customers'[c] \in [user: Users, credits: Nat],
             balance' \in [Users -> Int], UsageTyped'
      PROVE  TInv'
  <2>1. TablesTyped' /\ ProviderTyped'
    BY <1>1, <1>2 DEF TInv, HInv, TablesTyped, ProviderTyped
  <2>3. HandlersTyped'
    BY <1>1, <1>2, OthersTyped DEF TInv, HInv, HandlersTyped
  <2> QED
    BY <1>2, <2>1, <2>3 DEF TInv, HInv
<1>3. \A c \in DOMAIN customers : customers[c] \in [user: Users, credits: Nat]
  BY DEF TInv, HInv, TablesTyped
<1>4. balance \in [Users -> Int] /\ UsageTyped
  BY DEF TInv, HInv, TablesTyped
<1>5. Costs \subseteq Nat /\ FreeMonthlyCredits \in Nat
  BY WebhookAssumption
<1>6. ASSUME NEW r \in Uses, ReadForUse(r)
      PROVE  TInv'
  <2>1. PICK u \in Users, cost \in Costs :
          /\ balance[u] >= cost
          /\ use' = [use EXCEPT ![r] = [step |-> "charge", user |-> u,
                                        left |-> balance[u] - cost, cost |-> cost]]
    BY <1>6 DEF ReadForUse, Affords
  <2>2. balance[u] - cost \in Nat /\ cost \in Nat
    <3>1. balance[u] \in Int /\ cost \in Nat
      BY <1>4, <1>5
    <3> QED
      BY <2>1, <3>1
  <2> DEFINE v == [step |-> "charge", user |-> u, left |-> balance[u] - cost, cost |-> cost]
  <2>3. v \in UseValues
    BY <2>2 DEF UseValues
  <2>4. UNCHANGED <<customers, balance, free, spent>>
    BY <1>6 DEF ReadForUse, tables
  <2>5. use' = [use EXCEPT ![r] = v]
    BY <2>1
  <2> HIDE DEF v
  <2>6. UsageTyped'
    BY <1>4, <2>3, <2>4, <2>5 DEF UsageTyped
  <2> QED
    BY <1>2, <1>3, <1>4, <2>4, <2>6
<1>7. ASSUME NEW r \in Uses, NEW step \in {"mirror", "used"}, Advance(r, step)
      PROVE  use' \in [Uses -> UseValues]
  BY <1>4, <1>7 DEF Advance, UsageTyped, UseValues
<1>8. ASSUME NEW r \in Uses, use[r].step \in {"charge", "mirror"}
      PROVE  use[r].left \in Nat /\ use[r].cost \in Nat
  BY <1>4 DEF UsageTyped, UseValues
<1>9. ASSUME NEW f \in [Users -> Nat], NEW u \in Users, NEW n \in Nat
      PROVE  [f EXCEPT ![u] = f[u] + n] \in [Users -> Nat]
  OBVIOUS
<1>10. ASSUME NEW u, NEW n \in Nat
       PROVE  /\ [balance EXCEPT ![u] = balance[u] + n] \in [Users -> Int]
              /\ [balance EXCEPT ![u] = balance[u] - n] \in [Users -> Int]
  <2>1. CASE u \in Users
    BY <1>4, <2>1
  <2>2. CASE u \notin Users
    BY <1>4, <2>2
  <2> QED
    BY <2>1, <2>2
<1>11. ASSUME NEW r \in Uses, ChargeForUse(r)
       PROVE  TInv'
  <2>1. /\ Advance(r, "mirror") /\ use[r].cost \in Nat /\ UNCHANGED <<customers, free>>
        /\ balance' = [balance EXCEPT ![use[r].user] = balance[use[r].user] - use[r].cost]
        /\ spent' = [spent EXCEPT ![use[r].user] = spent[use[r].user] + use[r].cost]
    BY <1>8, <1>11 DEF ChargeForUse
  <2>2. use[r].user \in Users => spent' \in [Users -> Nat]
    BY <1>4, <1>9, <2>1 DEF UsageTyped
  <2>3. use[r].user \notin Users => spent' \in [Users -> Nat]
    BY <1>4, <2>1 DEF UsageTyped
  <2>4. UsageTyped'
    BY <1>4, <1>7, <2>1, <2>2, <2>3 DEF UsageTyped
  <2> QED
    BY <1>2, <1>3, <1>10, <2>1, <2>4
<1>12. ASSUME NEW r \in Uses, MirrorUse(r)
       PROVE  TInv'
  <2>1. /\ Advance(r, "used") /\ use[r].left \in Nat /\ UNCHANGED <<balance, free, spent>>
        /\ customers' = [c \in DOMAIN customers |->
                           IF customers[c].user = use[r].user
                             THEN [customers[c] EXCEPT !.credits = use[r].left] ELSE customers[c]]
    BY <1>8, <1>12 DEF MirrorUse
  <2>2. UsageTyped'
    BY <1>4, <1>7, <2>1 DEF UsageTyped
  <2> DEFINE x == use[r].left
  <2>4. \A c \in DOMAIN customers : [customers[c] EXCEPT !.credits = x] \in [user: Users,
        credits: Nat]
    <3>1. x \in Nat
      BY <2>1
    <3> HIDE DEF x
    <3> QED
      BY <1>3, <3>1
  <2>5. /\ DOMAIN customers' = DOMAIN customers
        /\ \A c \in DOMAIN customers : customers'[c] \in [user: Users, credits: Nat]
    BY <1>3, <2>1, <2>4
  <2> QED
    BY <1>2, <1>4, <2>1, <2>2, <2>5
<1>13. ASSUME NEW r \in Uses, FailUse(r)
       PROVE  TInv'
  <2>1. Advance(r, "used") /\ UNCHANGED <<customers, balance, free, spent>>
    BY <1>13 DEF FailUse, tables
  <2>2. UsageTyped'
    BY <1>4, <1>7, <2>1 DEF UsageTyped
  <2> QED
    BY <1>2, <1>3, <1>4, <2>1, <2>2
<1>14. ASSUME NEW u \in Users, GrantFree(u)
       PROVE  TInv'
  <2>1. /\ UNCHANGED <<customers, use, spent>>
        /\ balance' = [balance EXCEPT ![u] = balance[u] + FreeMonthlyCredits]
        /\ free' = [free EXCEPT ![u] = free[u] + FreeMonthlyCredits]
    BY <1>14 DEF GrantFree
  <2>2. UsageTyped'
    BY <1>4, <1>5, <1>9, <2>1 DEF UsageTyped
  <2> QED
    BY <1>2, <1>3, <1>5, <1>10, <2>1, <2>2
<1>15. ASSUME NEW u \in Users, Expire(u)
       PROVE  TInv'
  <2>1. PICK left \in 1..FreeMonthlyCredits :
          /\ balance' = [balance EXCEPT ![u] = balance[u] - left]
          /\ spent' = [spent EXCEPT ![u] = spent[u] + left]
    BY <1>15 DEF Expire
  <2>2. left \in Nat /\ UNCHANGED <<customers, use, free>>
    BY <1>5, <1>15 DEF Expire
  <2>3. UsageTyped'
    BY <1>4, <1>9, <2>1, <2>2 DEF UsageTyped
  <2> QED
    BY <1>2, <1>3, <1>10, <2>1, <2>2, <2>3
<1> QED
  BY <1>6, <1>11, <1>12, <1>13, <1>14, <1>15 DEF UseStep

\* So the types are inductive,
LEMMA NextTyped ==
  ASSUME TInv, [Next]_vars
  PROVE  TInv'
<1>1. IInv' /\ HInv
  BY NextKeepsIInv DEF TInv, HInv
<1>2. CASE (\E r \in Uses : UseStep(r)) \/ (\E u \in Users : GrantFree(u) \/ Expire(u))
  BY <1>1, <1>2, UsageStepTyped
<1>3. ASSUME usage' = usage, HInv'
      PROVE  TInv'
  BY <1>3 DEF TInv, UsageTyped, usage
<1>4. CASE Tick \/ UNCHANGED vars
  <2>1. UNCHANGED <<tables, handler, sent, answer, timeouts, refusals, failures, usage>>
    BY <1>4 DEF Tick, vars, provider
  <2>2. ProviderTyped'
    BY <1>1, <2>1 DEF HInv, ProviderTyped
  <2> QED
    BY <1>1, <1>3, <2>1, <2>2, QuietTyped
<1>5. CASE \E n \in EventNumbers : Send(n)
  BY <1>1, <1>3, <1>5, SendTyped DEF Send
<1>6. CASE \E d \in sent : RefuseLate(d) \/ RefuseEarly(d)
  BY <1>1, <1>3, <1>6, RefuseTyped DEF RefuseLate, RefuseEarly
<1>7. CASE \E d \in sent : \E h \in Handlers : Receive(h, d)
  BY <1>1, <1>3, <1>7, ReceiveTyped DEF Receive
<1>8. CASE \E h \in Handlers : Remember(h)
  BY <1>1, <1>3, <1>8, RememberTyped DEF Remember
<1>9. ASSUME NEW h \in Handlers, Step(h)
      PROVE  TInv'
  <2>1. usage' = usage
    BY <1>1, <1>9, StepIsQuiet DEF HInv, Quiet
  <2> QED
    BY <1>1, <1>3, <1>9, <2>1, StepTyped
<1> QED
  BY <1>2, <1>4, <1>5, <1>6, <1>7, <1>8, <1>9 DEF Next

\* hold initially,
LEMMA InitTyped == Init => TInv
<1> SUFFICES ASSUME Init
             PROVE  TInv
  OBVIOUS
<1>1. IInv
  BY DEF Init, IInv, Empty, Checked, RepeatsAreBounded
<1>2. TablesTyped
  BY DEF Init, TablesTyped, Empty
<1>3. ProviderTyped
  BY DEF Init, ProviderTyped
<1>4. NoLocal \in Locals /\ Unused \in UseValues
  BY DEF NoLocal, Locals, Customers, Unused, UseValues
<1>5. HandlersTyped
  BY <1>4 DEF Init, HandlersTyped, HandlerTyped, PcValues, CreditSteps
<1>6. UsageTyped
  BY <1>4 DEF Init, UsageTyped
<1> QED
  BY <1>1, <1>2, <1>3, <1>5, <1>6 DEF TInv, HInv

\* and hold always.
LEMMA TypedAlways == Spec => []TInv
BY InitTyped, NextTyped, PTL DEF Spec

\* Rows, the replay store, the provider's view, the handlers and the usages are well typed,
\* whatever fails: a subscription's customer has a row, every handler works on a delivery
\* that was sent, and neither writer of customers.credits writes a negative number.
THEOREM TypeCorrect == Spec => []TypeOK
<1>1. ASSUME TInv
      PROVE  TypeOK
  <2>1. now \in Nat /\ DOMAIN remembered \subseteq sent /\ DOMAIN dispatched = DOMAIN remembered
    BY <1>1 DEF TInv, HInv, IInv, Spaced
  <2>2. /\ \A c \in DOMAIN customers : customers[c].user \in Users /\ customers[c].credits \in Nat
        /\ \A s \in DOMAIN subscriptions : subscriptions[s].customer \in DOMAIN customers
        /\ history \in [Orders -> Nat] /\ purchases \in [Orders -> Nat]
        /\ balance \in [Users -> Int]
    BY <1>1 DEF TInv, HInv, TablesTyped
  <2>3. /\ sent \subseteq Delivery
        /\ answer \in [EventNumbers -> {"none", "ok", "failed"}]
        /\ {timeouts, refusals, failures} \subseteq Nat
    BY <1>1 DEF TInv, HInv, ProviderTyped
  <2>4. /\ pc \in [Handlers -> PcValues]
        /\ \A h \in Handlers : pc[h] # "idle" => msg[h] \in sent
    BY <1>1 DEF TInv, HInv, HandlersTyped, HandlerTyped
  <2>5. /\ use \in [Uses -> UseValues]
        /\ free \in [Users -> Nat] /\ spent \in [Users -> Nat]
    BY <1>1 DEF TInv, UsageTyped
  <2> QED
    BY <2>1, <2>2, <2>3, <2>4, <2>5 DEF TypeOK
<1> QED
  BY <1>1, TypedAlways, PTL

-----------------------------------------------------------------------------
(* Done means credited.                                                    *)

\* What the provider's data has to be for the tables to make sense: the events of an
\* order say the same, and a customer is one user's.
OrdersMakeSense ==
  /\ \A m, n \in CreditEvents :
       Events[m].order # None /\ Events[m].order = Events[n].order
         => Events[m].user = Events[n].user /\ Events[m].credits = Events[n].credits
  /\ \A m, n \in EventNumbers :
       /\ FirstStep(Events[m]) = "upsert" /\ FirstStep(Events[n]) = "upsert"
       /\ Events[m].customer = Events[n].customer
         => Events[m].user = Events[n].user

Credited(n) == purchases[Events[n].order] > 0 /\ Received(Events[n].user) >= Events[n].credits

CustomersFit ==
  \A c \in DOMAIN customers : \A n \in EventNumbers :
    FirstStep(Events[n]) = "upsert" /\ Events[n].customer = c => customers[c].user = Events[n].user

Done(n) == answer[n] = "ok" \/ (Events[n].order # None /\ history[Events[n].order] > 0)

OrdersFit ==
  /\ \A u \in Users : Received(u) >= 0
  /\ \A n \in CreditEvents : Done(n) => Credited(n)

\* What the handler of a credit event has read and done so far.
HandlerFits(h) ==
  LET e == Event(h)
  IN  /\ pc[h] \in CreditSteps => local[h].customer = e.customer
      /\ pc[h] \in {"lookup", "findSubscription", "writeSubscription"} => e.kind # "credits"
      /\ pc[h] \in {"setCredits", "addBalance"} => local[h].user = e.user
      /\ pc[h] = "logPurchase" => Received(e.user) >= e.credits
      /\ pc[h] \in {"insertHistory", "respond"} /\ e.kind = "credits" => Credited(msg[h].event)

HandlersFit == \A h \in Handlers : HandlerFits(h)

CInv == TInv /\ CustomersFit /\ OrdersFit /\ HandlersFit

\* What users received and bought only grows.
Grows ==
  /\ \A o \in Orders : purchases'[o] >= purchases[o]
  /\ \A u \in Users : Received(u)' >= Received(u)

\* What a user received is a number,
LEMMA ReceivedIsInteger == TInv => \A u \in Users : Received(u) \in Int
<1> SUFFICES ASSUME TInv, NEW u \in Users
             PROVE  Received(u) \in Int
  OBVIOUS
<1>1. balance[u] \in Int /\ spent[u] \in Int
  BY DEF TInv, HInv, TablesTyped, UsageTyped
<1> QED
  BY <1>1 DEF Received

\* also after a step.
LEMMA ReceivedIsIntegerNext == TInv' => \A u \in Users : Received(u)' \in Int
<1>1. TInv' => (\A u \in Users : Received(u) \in Int)'
  BY ReceivedIsInteger, PTL
<1> QED
  BY <1>1 DEF Users, EventNumbers

\* What was credited stays credited.
LEMMA CreditStays ==
  ASSUME TInv, TInv', Grows, NEW n \in EventNumbers, Credited(n)
  PROVE  Credited(n)'
<1> DEFINE u == Events[n].user
           c == Events[n].credits
           r == Received(u)
           s == Received(u)'
<1>1. /\ Events[n].order \in Orders /\ u \in Users /\ c \in Nat
  BY WebhookAssumption DEF Orders, Users
<1>2. purchases[Events[n].order] \in Nat /\ purchases'[Events[n].order] \in Nat
  BY <1>1 DEF TInv, HInv, TablesTyped
<1>3. r \in Int /\ s \in Int /\ s >= r /\ r >= c
  BY <1>1, ReceivedIsInteger, ReceivedIsIntegerNext DEF Grows, Credited
<1> HIDE DEF u, c, r, s
<1>4. s >= c
  BY <1>1, <1>3
<1> USE DEF u, c, s
<1> QED
  BY <1>1, <1>2, <1>4 DEF Credited, Grows

\* The other handlers.
LEMMA OthersFit ==
  ASSUME CInv, TInv', Grows, NEW g \in Handlers,
         pc'[g] = pc[g], msg'[g] = msg[g], local'[g] = local[g]
  PROVE  HandlerFits(g)'
<1>1. CASE pc[g] = "idle"
  BY <1>1 DEF HandlerFits, CreditSteps
<1>2. CASE pc[g] # "idle"
  <2>1. /\ HandlerFits(g) /\ msg[g].event \in EventNumbers /\ Event(g) = Events[msg[g].event]
        /\ Event(g).user \in Users /\ Event(g).credits \in Nat
    BY <1>2, EventOf DEF CInv, HandlersFit
  <2>2. Event(g)' = Event(g)
    BY DEF Event
  <2>3. pc[g] = "logPurchase" => Received(Event(g).user)' >= Event(g).credits
    <3> SUFFICES ASSUME pc[g] = "logPurchase"
                 PROVE  Received(Event(g).user)' >= Event(g).credits
      OBVIOUS
    <3>1. PICK u \in Users : u = Event(g).user
      BY <2>1
    <3> DEFINE r == Received(u)
               t == Received(u)'
               c == Event(g).credits
    <3>2. r \in Int /\ t \in Int /\ t >= r /\ r >= c /\ c \in Nat
      BY <2>1, <3>1, ReceivedIsInteger, ReceivedIsIntegerNext DEF HandlerFits, Grows, CInv
    <3>3. Received(Event(g).user)' = t
      BY <2>2, <3>1
    <3> HIDE DEF r, t, c
    <3>4. t >= c
      BY <3>2
    <3> QED
      BY <3>3, <3>4 DEF c
  <2>4. pc[g] \in {"insertHistory", "respond"} /\ Event(g).kind = "credits"
          => Credited(msg[g].event)'
    BY <2>1, CreditStays DEF HandlerFits, CInv
  <2> QED
    BY <2>1, <2>2, <2>3, <2>4 DEF HandlerFits
<1> QED
  BY <1>1, <1>2

\* An order that was done stays credited, and only these steps make one done: the
\* answer of a handler and the row in credits_history.
LEMMA DoneStays ==
  ASSUME CInv, TInv', Grows,
         \A n \in CreditEvents : Done(n)' => Done(n) \/ Credited(n)'
  PROVE  OrdersFit'
<1>1. \A n \in CreditEvents : n \in EventNumbers
  BY DEF CreditEvents
<1>2. \A n \in CreditEvents : Done(n)' => Credited(n)'
  BY <1>1, CreditStays DEF CInv, OrdersFit
<1>3. ASSUME NEW u \in Users
      PROVE  Received(u)' >= 0
  <2> DEFINE r == Received(u)
             t == Received(u)'
  <2>1. r \in Int /\ t \in Int /\ t >= r /\ r >= 0
    BY ReceivedIsInteger, ReceivedIsIntegerNext DEF Grows, CInv, OrdersFit
  <2> HIDE DEF r, t
  <2>2. t >= 0
    BY <2>1
  <2> QED
    BY <2>2 DEF t
<1> QED
  BY <1>2, <1>3 DEF OrdersFit, Users, EventNumbers

\* Nothing is written to the balances.
LEMMA ReceivedStays ==
  ASSUME UNCHANGED <<balance, usage>>
  PROVE  \A u : Received(u)' = Received(u)
BY DEF Received, usage

\* Nothing is written to the accounts.
LEMMA StillGrows ==
  ASSUME TInv, UNCHANGED <<balance, purchases, usage>>
  PROVE  Grows
<1>1. \A u \in Users : Received(u)' = Received(u)
  BY ReceivedStays
<1> QED
  BY <1>1, ReceivedIsInteger DEF TInv, HInv, TablesTyped, Grows

\* A handler goes on; no order becomes done.
LEMMA CreditStep ==
  ASSUME CInv, TInv', Grows, NEW h \in Handlers, customers' = customers, history' = history,
         answer' = answer, msg' = msg, HandlerFits(h)',
         \A g \in Handlers : g # h => pc'[g] = pc[g] /\ local'[g] = local[g]
  PROVE  CInv'
<1>1. HandlersFit'
  BY OthersFit DEF HandlersFit
<1>2. OrdersFit'
  BY DoneStays DEF Done
<1>3. CustomersFit'
  BY DEF CInv, CustomersFit
<1> QED
  BY <1>1, <1>2, <1>3 DEF CInv

\* A handler is done: an order is answered with 200 only when it is credited.
LEMMA LeaveFits ==
  ASSUME CInv, TInv', usage' = usage, NEW h \in Handlers, pc[h] # "idle", NEW status, Leave(h,
         status),
         UNCHANGED tables,
         status = "ok" /\ Event(h).kind = "credits" => Credited(msg[h].event)
  PROVE  CInv'
<1>1. /\ pc' = [pc EXCEPT ![h] = "idle"] /\ msg' = [msg EXCEPT ![h] = Idle]
      /\ local' = [local EXCEPT ![h] = NoLocal]
      /\ UNCHANGED <<customers, subscriptions, history, balance, purchases>>
      /\ answer' = answer \/ answer' = [answer EXCEPT ![msg[h].event] = status]
  BY DEF Leave, Quit, Answered, tables
<1>2. Grows
  BY <1>1, StillGrows DEF CInv
<1>3. \A g \in Handlers : g # h => HandlerFits(g)'
  <2>1. \A g \in Handlers : g # h => pc'[g] = pc[g] /\ msg'[g] = msg[g] /\ local'[g] = local[g]
    BY <1>1 DEF CInv, TInv, HInv, HandlersTyped
  <2> QED
    BY <1>2, <2>1, OthersFit
<1>4. pc'[h] = "idle"
  BY <1>1 DEF CInv, TInv, HInv, HandlersTyped
<1>5. HandlerFits(h)'
  BY <1>4 DEF HandlerFits, CreditSteps
<1>6. ASSUME NEW n \in CreditEvents, Done(n)'
      PROVE  Done(n) \/ Credited(n)'
  <2>1. n \in EventNumbers /\ Events[n].kind = "credits"
          /\ answer \in [EventNumbers -> {"none", "ok", "failed"}]
    BY DEF CreditEvents, CInv, TInv, HInv, ProviderTyped
  <2>2. CASE answer'[n] = answer[n]
    BY <1>1, <1>6, <2>2 DEF Done
  <2>3. CASE answer'[n] # answer[n] /\ answer'[n] = "ok"
    <3>1. n = msg[h].event /\ status = "ok"
      BY <1>1, <2>1, <2>3
    <3>2. Credited(n)
      BY <2>1, <3>1 DEF Event
    <3> QED
      BY <1>2, <2>1, <3>2, CreditStays DEF CInv
  <2>4. CASE answer'[n] # "ok"
    BY <1>1, <1>6, <2>4 DEF Done
  <2> QED
    BY <2>2, <2>3, <2>4
<1>7. OrdersFit'
  BY <1>2, <1>6, DoneStays
<1>8. CustomersFit'
  BY <1>1 DEF CInv, CustomersFit
<1> QED
  BY <1>3, <1>5, <1>7, <1>8 DEF CInv, HandlersFit

\* A step that fails or is refused by a unique index changes no account.
LEMMA ThrowFits ==
  ASSUME CInv, TInv', usage' = usage, NEW h \in Handlers, pc[h] # "idle", Throw(h)
  PROVE  CInv'
BY LeaveFits DEF Throw

\* createOrUpdateCustomer: the row of a customer is its user's.
LEMMA UpsertFits ==
  ASSUME OrdersMakeSense, CInv, TInv', usage' = usage, NEW h \in Handlers, UpsertCustomer(h)
  PROVE  CInv'
<1> DEFINE e == Event(h)
           kept == IF e.customer \in DOMAIN customers THEN customers[e.customer].credits ELSE 0
           to == IF e.kind = "checkout" /\ e.subscription = None THEN "respond"
             ELSE AfterCustomer(e)
           row == [user |-> e.user, credits |-> kept]
<1>1. pc[h] = "upsert"
  BY DEF UpsertCustomer
<1>2. CASE Throw(h)
  BY <1>1, <1>2, ThrowFits
<1>3. CASE /\ customers' = Extend(customers, e.customer, row)
           /\ local' = [local EXCEPT ![h].customer = e.customer]
           /\ Goto(h, "upsert", to)
           /\ UNCHANGED <<subscriptions, history, balance, purchases, provider, msg>>
  <2>1. /\ msg[h].event \in EventNumbers /\ e = Events[msg[h].event] /\ e.kind \in Kinds
        /\ FirstStep(e) = "upsert"
    BY <1>1, EventOf DEF CInv, TInv, HInv, HandlersTyped, HandlerTyped
  <2>2. Grows /\ answer' = answer
    BY <1>3, StillGrows DEF CInv, provider
  <2>3. /\ pc'[h] = to /\ local'[h].customer = e.customer
        /\ \A g \in Handlers : g # h => pc'[g] = pc[g] /\ local'[g] = local[g] /\ msg'[g] = msg[g]
    BY <1>3 DEF CInv, TInv, HInv, HandlersTyped, Goto, Locals
  <2>4. to \in {"findOrder", "findSubscription", "respond"}
          /\ (e.kind = "credits" <=> to = "findOrder")
    BY <2>1 DEF AfterCustomer, Kinds
  <2>5. Event(h)' = e
    BY <1>3 DEF Event
  <2>6. HandlerFits(h)'
    BY <2>3, <2>4, <2>5 DEF HandlerFits, CreditSteps
  <2>7. HandlersFit'
    BY <2>2, <2>3, <2>6, OthersFit DEF HandlersFit
  <2>8. OrdersFit'
    BY <1>3, <2>2, DoneStays DEF Done
  <2>9. CustomersFit'
    <3> DEFINE k == e.customer
    <3>1. customers' = Extend(customers, k, row)
      BY <1>3
    <3>2. row.user = e.user
      OBVIOUS
    <3>3. \A n \in EventNumbers :
            FirstStep(Events[n]) = "upsert" /\ Events[n].customer = k => e.user = Events[n].user
      BY <2>1 DEF OrdersMakeSense
    <3> HIDE DEF k, row
    <3>4. /\ DOMAIN customers' = DOMAIN customers \cup {k} /\ customers'[k] = row
          /\ \A c \in DOMAIN customers : c # k => customers'[c] = customers[c]
      BY <3>1 DEF Extend
    <3> QED
      BY <3>2, <3>3, <3>4 DEF CInv, CustomersFit
  <2> QED
    BY <2>7, <2>8, <2>9 DEF CInv
<1> QED
  BY <1>2, <1>3 DEF UpsertCustomer

\* The steps of a subscription event are not those of a credit order.
LEMMA SubscriptionFits ==
  ASSUME CInv, TInv', usage' = usage, NEW h \in Handlers,
         LookupCustomer(h) \/ FindSubscription(h) \/ WriteSubscription(h)
  PROVE  CInv'
<1> DEFINE Others == /\ UNCHANGED <<customers, history, balance, purchases, provider, msg>>
                     /\ \A g \in Handlers : g # h => pc'[g] = pc[g] /\ local'[g] = local[g]
<1>1. pc[h] \in {"lookup", "findSubscription", "writeSubscription"}
  BY DEF LookupCustomer, FindSubscription, WriteSubscription, Goto
<1>2. Event(h).kind # "credits"
  BY <1>1 DEF CInv, HandlersFit, HandlerFits
<1>3. CASE Throw(h)
  BY <1>1, <1>3, ThrowFits
<1>4. CASE ~Throw(h)
  <2>1. Others /\ pc'[h] \in {"findSubscription", "writeSubscription", "respond"}
    <3>1. CASE LookupCustomer(h)
      BY <1>4, <3>1 DEF LookupCustomer, Goto, tables, CInv, TInv, HInv, HandlersTyped
    <3>2. CASE FindSubscription(h)
      BY <3>2 DEF FindSubscription, Goto, tables, CInv, TInv, HInv, HandlersTyped
    <3>3. CASE WriteSubscription(h)
      BY <1>4, <3>3 DEF WriteSubscription, Goto, CInv, TInv, HInv, HandlersTyped
    <3> QED
      BY <3>1, <3>2, <3>3
  <2>2. Event(h)' = Event(h)
    BY <2>1 DEF Event
  <2>3. HandlerFits(h)'
    BY <1>2, <2>1, <2>2 DEF HandlerFits, CreditSteps
  <2>4. Grows /\ answer' = answer
    BY <2>1, StillGrows DEF CInv, provider
  <2> QED
    BY <2>1, <2>3, <2>4, CreditStep
<1> QED
  BY <1>3, <1>4

\* The lookup skips an order only when it is done.
LEMMA FindOrderFits ==
  ASSUME CInv, TInv', usage' = usage, NEW h \in Handlers, FindOrder(h)
  PROVE  CInv'
<1> DEFINE n == msg[h].event
<1>1. /\ pc[h] = "findOrder" /\ UNCHANGED <<tables, provider, msg, local>>
      /\ pc' = [pc EXCEPT ![h] = IF Event(h).order # None /\ history[Event(h).order] > 0
                                   THEN "respond" ELSE "readCustomer"]
  BY DEF FindOrder, Goto
<1>2. UNCHANGED <<customers, history, balance, purchases, answer>>
  BY <1>1 DEF tables, provider
<1>3. Grows
  BY <1>2, StillGrows DEF CInv
<1>4. n \in CreditEvents /\ Event(h) = Events[n] /\ Event(h)' = Event(h) /\ HandlerFits(h)
  BY <1>1, EventOf DEF CInv, TInv, HInv, HandlersTyped, HandlerTyped, CreditSteps,
     CreditEvents, Event,
                       HandlersFit
<1>5. /\ pc'[h] = IF Events[n].order # None /\ history[Events[n].order] > 0
                    THEN "respond" ELSE "readCustomer"
      /\ \A g \in Handlers : g # h => pc'[g] = pc[g] /\ local'[g] = local[g]
  BY <1>1, <1>4 DEF CInv, TInv, HInv, HandlersTyped
<1>6. pc'[h] = "respond" => Credited(n)'
  <2>1. Credited(n)' = Credited(n)
    BY <1>1, <1>2, ReceivedStays DEF Credited
  <2> QED
    BY <1>1, <1>2, <1>4, <1>5, <2>1 DEF CInv, OrdersFit, Done
<1>7. HandlerFits(h)'
  BY <1>1, <1>4, <1>5, <1>6 DEF HandlerFits, CreditSteps
<1> QED
  BY <1>1, <1>2, <1>3, <1>5, <1>7, CreditStep

\* The row that is read is the one of the user who paid.
LEMMA ReadCustomerFits ==
  ASSUME CInv, TInv', usage' = usage, NEW h \in Handlers, ReadCustomer(h)
  PROVE  CInv'
<1> DEFINE c == local[h].customer
           n == msg[h].event
<1>1. /\ pc[h] = "readCustomer" /\ UNCHANGED <<tables, provider, msg>>
      /\ pc' = [pc EXCEPT ![h] = "setCredits"]
      /\ local' = [local EXCEPT ![h].credits = customers[c].credits, ![h].user = customers[c].user]
  BY DEF ReadCustomer, Goto
<1>2. UNCHANGED <<customers, history, balance, purchases, answer>>
  BY <1>1 DEF tables, provider
<1>3. Grows
  BY <1>2, StillGrows DEF CInv
<1>4. /\ n \in EventNumbers /\ Event(h) = Events[n] /\ Event(h)' = Event(h)
      /\ Event(h).kind = "credits"
      /\ c = Event(h).customer /\ c \in DOMAIN customers
  BY <1>1, EventOf DEF CInv, TInv, HInv, HandlersTyped, HandlerTyped, CreditSteps, Event,
                       HandlersFit, HandlerFits
<1>5. customers[c].user = Event(h).user
  BY <1>4 DEF CInv, CustomersFit, FirstStep
<1>6. /\ pc'[h] = "setCredits" /\ local'[h].customer = c /\ local'[h].user = customers[c].user
      /\ \A g \in Handlers : g # h => pc'[g] = pc[g] /\ local'[g] = local[g]
  BY <1>1 DEF CInv, TInv, HInv, HandlersTyped, Locals
<1>7. HandlerFits(h)'
  BY <1>4, <1>5, <1>6 DEF HandlerFits, CreditSteps
<1> QED
  BY <1>1, <1>2, <1>3, <1>6, <1>7, CreditStep

\* The mirror in customers is written; the row stays its user's.
LEMMA SetCreditsFits ==
  ASSUME CInv, TInv', usage' = usage, NEW h \in Handlers, SetCredits(h)
  PROVE  CInv'
<1> DEFINE c == local[h].customer
           v == MirrorAfter(h)
<1>1. /\ pc[h] = "setCredits" /\ UNCHANGED <<history, balance, purchases, provider, msg, local>>
      /\ pc' = [pc EXCEPT ![h] = "addBalance"]
      /\ customers' = [customers EXCEPT ![c].credits = v]
  BY DEF SetCredits, Goto
<1>2. Grows /\ answer' = answer
  BY <1>1, StillGrows DEF CInv, provider
<1>3. /\ HandlerFits(h) /\ Event(h)' = Event(h)
      /\ pc'[h] = "addBalance" /\ \A g \in Handlers : g # h => pc'[g] = pc[g]
  BY <1>1 DEF CInv, TInv, HInv, HandlersTyped, HandlersFit, Event
<1>4. HandlerFits(h)'
  BY <1>1, <1>3 DEF HandlerFits, CreditSteps
<1>5. HandlersFit'
  BY <1>1, <1>2, <1>3, <1>4, OthersFit DEF HandlersFit
<1>6. OrdersFit'
  BY <1>1, <1>2, DoneStays DEF Done
<1> HIDE DEF v
<1>7. /\ DOMAIN customers' = DOMAIN customers
      /\ \A x \in DOMAIN customers : customers'[x].user = customers[x].user
  BY <1>1 DEF CInv, TInv, HInv, TablesTyped
<1>8. CustomersFit'
  BY <1>7 DEF CInv, CustomersFit
<1> QED
  BY <1>5, <1>6, <1>8 DEF CInv

\* addCredits: the balance.
LEMMA AddBalanceFits ==
  ASSUME CInv, TInv', usage' = usage, NEW h \in Handlers, AddBalance(h)
  PROVE  CInv'
<1> DEFINE u == local[h].user
           c == Event(h).credits
<1>1. /\ pc[h] = "addBalance" /\ pc' = [pc EXCEPT ![h] = "logPurchase"]
      /\ balance' = [balance EXCEPT ![u] = balance[u] + c]
      /\ UNCHANGED <<customers, history, purchases, provider, msg, local>>
  BY DEF AddBalance, Goto
<1>2. /\ Event(h)' = Event(h) /\ Event(h).kind = "credits" /\ c \in Nat
      /\ u = Event(h).user /\ u \in Users /\ local[h].customer = Event(h).customer
      /\ msg[h].event \in EventNumbers
  BY <1>1, EventOf DEF CInv, TInv, HInv, HandlersTyped, HandlerTyped, CreditSteps, Event,
                       HandlersFit, HandlerFits
<1>3. balance \in [Users -> Int] /\ spent \in [Users -> Nat] /\ spent' = spent
  BY DEF CInv, TInv, HInv, TablesTyped, UsageTyped, usage
<1>4. /\ pc'[h] = "logPurchase" /\ \A g \in Handlers : g # h => pc'[g] = pc[g]
  BY <1>1 DEF CInv, TInv, HInv, HandlersTyped
<1>5. Received(u)' = Received(u) + c
  <2>1. PICK b \in Int : b = balance[u]
    BY <1>2, <1>3
  <2>2. PICK s \in Int : s = spent[u]
    BY <1>2, <1>3
  <2>3. balance'[u] = b + c
    BY <1>1, <1>2, <1>3, <2>1
  <2>4. (b + c) + s = (b + s) + c
    BY <1>2
  <2>5. balance'[u] + spent'[u] = (balance[u] + spent[u]) + c
    BY <1>3, <2>1, <2>2, <2>3, <2>4
  <2> QED
    BY <1>1, <2>5 DEF Received
<1>6. \A x \in Users : x # u => Received(x)' = Received(x)
  BY <1>1, <1>3 DEF Received
<1>7. Grows
  <2>1. \A o \in Orders : purchases'[o] >= purchases[o]
    BY <1>1 DEF CInv, TInv, HInv, TablesTyped
  <2>2. \A x \in Users : Received(x) \in Int
    BY ReceivedIsInteger DEF CInv
  <2>3. ASSUME NEW x \in Users
        PROVE  Received(x)' >= Received(x)
    <3> DEFINE r == Received(x)
               t == Received(x)'
    <3>1. r \in Int /\ (t = r \/ t = r + c)
      <4>1. r \in Int
        BY <2>2
      <4>2. CASE x = u
        BY <1>1, <1>5, <4>1, <4>2
      <4>3. CASE x # u
        BY <1>6, <4>1, <4>3
      <4> QED
        BY <4>2, <4>3
    <3> HIDE DEF r, t, c
    <3>2. t >= r
      BY <1>2, <3>1
    <3> QED
      BY <3>2 DEF r, t
  <2> QED
    BY <2>1, <2>3 DEF Grows
<1>8. Received(u)' >= c
  <2>1. Received(u) >= 0
    BY <1>2 DEF CInv, OrdersFit
  <2> DEFINE r == Received(u)
  <2>2. r \in Int /\ r >= 0 /\ Received(u)' = r + c
    BY <1>2, <1>5, <2>1, ReceivedIsInteger DEF CInv
  <2> HIDE DEF r, c
  <2> QED
    BY <1>2, <2>2
<1>9. HandlerFits(h)'
  BY <1>1, <1>2, <1>4, <1>8 DEF HandlerFits, CreditSteps
<1>10. answer' = answer
  BY <1>1 DEF provider
<1> QED
  BY <1>1, <1>4, <1>7, <1>9, <1>10, CreditStep

\* addCredits: its PURCHASE row.  From here on the order is credited.
LEMMA LogPurchaseFits ==
  ASSUME CInv, TInv', usage' = usage, NEW h \in Handlers, LogPurchase(h)
  PROVE  CInv'
<1> DEFINE o == Event(h).order
           n == msg[h].event
           new == purchases[o] + 1
<1>1. /\ pc[h] = "logPurchase" /\ pc' = [pc EXCEPT ![h] = "insertHistory"]
      /\ purchases' = [purchases EXCEPT ![o] = new]
      /\ UNCHANGED <<customers, history, balance, provider, msg, local>>
  BY DEF LogPurchase, Goto
<1>2. /\ n \in EventNumbers /\ Event(h) = Events[n] /\ Event(h)' = Event(h)
      /\ o \in Orders /\ local[h].customer = Event(h).customer
      /\ Received(Event(h).user) >= Event(h).credits
  BY <1>1, EventOf DEF CInv, TInv, HInv, HandlersTyped, HandlerTyped, CreditSteps, Event,
                       HandlersFit, HandlerFits
<1>3. \A x \in Orders : purchases[x] \in Nat
  BY DEF CInv, TInv, HInv, TablesTyped
<1>4. new >= purchases[o] /\ new > 0 /\ new \in Nat
  BY <1>2, <1>3
<1> HIDE DEF new
<1>5. /\ purchases'[o] = new /\ \A x \in Orders : x # o => purchases'[x] = purchases[x]
      /\ pc'[h] = "insertHistory" /\ \A g \in Handlers : g # h => pc'[g] = pc[g]
  BY <1>1, <1>2 DEF CInv, TInv, HInv, TablesTyped, HandlersTyped
<1>6. Grows
  <2>1. \A u \in Users : Received(u)' >= Received(u)
    BY <1>1, ReceivedStays, ReceivedIsInteger DEF CInv
  <2>2. \A x \in Orders : purchases'[x] >= purchases[x]
    BY <1>3, <1>4, <1>5
  <2> QED
    BY <2>1, <2>2 DEF Grows
<1>7. Credited(n)'
  BY <1>1, <1>2, <1>4, <1>5, ReceivedStays DEF Credited
<1>8. HandlerFits(h)'
  BY <1>1, <1>2, <1>5, <1>7 DEF HandlerFits, CreditSteps
<1>9. answer' = answer
  BY <1>1 DEF provider
<1> QED
  BY <1>1, <1>5, <1>6, <1>8, <1>9, CreditStep

\* The marker: every event of the order is credited, since they say the same.
LEMMA InsertHistoryFits ==
  ASSUME OrdersMakeSense, CInv, TInv', usage' = usage, NEW h \in Handlers, InsertHistory(h)
  PROVE  CInv'
<1> DEFINE o == Event(h).order
           n == msg[h].event
           new == history[o] + 1
<1>1. pc[h] = "insertHistory"
  BY DEF InsertHistory
<1>2. CASE Throw(h)
  BY <1>1, <1>2, ThrowFits
<1>3. CASE /\ history' = [history EXCEPT ![o] = new]
           /\ Goto(h, "insertHistory", "respond")
           /\ UNCHANGED <<customers, subscriptions, balance, purchases, provider, msg, local>>
  <2>1. /\ n \in CreditEvents /\ Event(h) = Events[n] /\ Event(h)' = Event(h) /\ Credited(n)
    BY <1>1, <1>3, EventOf DEF CInv, TInv, HInv, HandlersTyped, HandlerTyped, CreditSteps, Event,
                               HandlersFit, HandlerFits, CreditEvents
  <2> HIDE DEF new
  <2>2. /\ \A x \in Orders : x # o => history'[x] = history[x]
        /\ pc'[h] = "respond" /\ \A g \in Handlers : g # h => pc'[g] = pc[g]
    BY <1>3 DEF CInv, TInv, HInv, TablesTyped, HandlersTyped, Goto
  <2>3. Grows /\ answer' = answer
    BY <1>3, StillGrows DEF CInv, provider
  <2>4. Credited(n)'
    BY <1>3, <2>1, ReceivedStays DEF Credited
  <2>5. HandlerFits(h)'
    BY <1>3, <2>1, <2>2, <2>4 DEF HandlerFits, CreditSteps
  <2>6. HandlersFit'
    BY <1>3, <2>2, <2>3, <2>5, OthersFit DEF HandlersFit
  <2>7. ASSUME NEW m \in CreditEvents, Done(m)'
        PROVE  Done(m) \/ Credited(m)'
    <3>1. Events[m].order \in Orders
      BY DEF CreditEvents, Orders
    <3>2. CASE Events[m].order # o
      BY <2>2, <2>3, <2>7, <3>1, <3>2 DEF Done
    <3>3. CASE Events[m].order = o /\ o # None
      BY <1>3, <2>1, <2>4, <3>3 DEF OrdersMakeSense, Credited
    <3>4. CASE Events[m].order = o /\ o = None
      BY <2>3, <2>7, <3>4 DEF Done
    <3> QED
      BY <3>2, <3>3, <3>4
  <2>8. OrdersFit'
    BY <2>3, <2>7, DoneStays
  <2>9. CustomersFit'
    BY <1>3 DEF CInv, CustomersFit
  <2> QED
    BY <2>6, <2>8, <2>9 DEF CInv
<1> QED
  BY <1>2, <1>3 DEF InsertHistory

\* The answer, or its loss.
LEMMA EndFits ==
  ASSUME CInv, TInv', usage' = usage, NEW h \in Handlers, Respond(h) \/ Fail(h)
  PROVE  CInv'
<1>1. CASE Respond(h)
  <2>1. pc[h] = "respond" /\ Leave(h, "ok") /\ UNCHANGED tables
    BY <1>1 DEF Respond
  <2>2. Event(h).kind = "credits" => Credited(msg[h].event)
    BY <2>1 DEF CInv, HandlersFit, HandlerFits
  <2> QED
    BY <2>1, <2>2, LeaveFits
<1>2. CASE Fail(h)
  <2>1. pc[h] # "idle" /\ Leave(h, "failed") /\ UNCHANGED tables
    BY <1>2 DEF Fail
  <2> QED
    BY <2>1, LeaveFits
<1> QED
  BY <1>1, <1>2

\* What brings no answer of 200 and takes no credits from an account makes no order done.
LEMMA NetworkFits ==
  ASSUME CInv, TInv', Grows, HandlersFit', history' = history,
         DOMAIN customers' = DOMAIN customers,
         \A c \in DOMAIN customers : customers'[c].user = customers[c].user,
         \A n \in EventNumbers : answer'[n] = "ok" => answer[n] = "ok"
  PROVE  CInv'
<1>1. OrdersFit'
  BY DoneStays DEF Done, CreditEvents
<1>2. CustomersFit'
  BY DEF CInv, CustomersFit
<1> QED
  BY <1>1, <1>2 DEF CInv

\* No handler moves.
LEMMA UnmovedFit ==
  ASSUME CInv, TInv', Grows, UNCHANGED <<pc, msg, local>>
  PROVE  HandlersFit'
BY OthersFit DEF HandlersFit

\* Usages, grants and expiries take nothing from what a user received, and a row of
\* customers stays its user's.
LEMMA UsageGrows ==
  ASSUME TInv, TInv',
         (\E r \in Uses : UseStep(r)) \/ (\E u \in Users : GrantFree(u) \/ Expire(u))
  PROVE  /\ Grows /\ DOMAIN customers' = DOMAIN customers
         /\ \A c \in DOMAIN customers : customers'[c].user = customers[c].user
<1>1. purchases' = purchases
  BY UsageIsApart
<1>2. \A o \in Orders : purchases'[o] >= purchases[o]
  BY <1>1 DEF TInv, HInv, TablesTyped
<1>3. balance \in [Users -> Int] /\ spent \in [Users -> Nat]
  BY DEF TInv, HInv, TablesTyped, UsageTyped
<1>4. ASSUME NEW v, NEW n \in Nat, balance' = [balance EXCEPT ![v] = balance[v] - n],
             spent' = [spent EXCEPT ![v] = spent[v] + n], NEW u \in Users
      PROVE  balance'[u] + spent'[u] = balance[u] + spent[u]
  <2>1. PICK b \in Int : b = balance[u]
    BY <1>3
  <2>2. PICK s \in Int : s = spent[u]
    BY <1>3
  <2>3. CASE u = v
    <3>1. balance'[u] = b - n /\ spent'[u] = s + n
      BY <1>3, <1>4, <2>1, <2>2, <2>3
    <3>2. (b - n) + (s + n) = b + s
      OBVIOUS
    <3> QED
      BY <2>1, <2>2, <3>1, <3>2
  <2>4. CASE u # v
    <3>1. balance'[u] = balance[u] /\ spent'[u] = spent[u]
      BY <1>3, <1>4, <2>4
    <3> QED
      BY <3>1
  <2> QED
    BY <2>3, <2>4
<1>5. ASSUME NEW u \in Users
      PROVE  Received(u)' >= Received(u)
  <2>1. balance[u] \in Int /\ spent[u] \in Int /\ balance[u] + spent[u] \in Int
    BY <1>3
  <2>2. ASSUME \E r \in Uses : ReadForUse(r) \/ MirrorUse(r) \/ FailUse(r)
        PROVE  balance'[u] + spent'[u] >= balance[u] + spent[u]
    <3>1. balance' = balance /\ spent' = spent
      BY <2>2 DEF ReadForUse, MirrorUse, FailUse, tables
    <3> QED
      BY <2>1, <3>1
  <2>3. ASSUME NEW r \in Uses, ChargeForUse(r)
        PROVE  balance'[u] + spent'[u] >= balance[u] + spent[u]
    <3>1. /\ balance' = [balance EXCEPT ![use[r].user] = balance[use[r].user] - use[r].cost]
          /\ spent' = [spent EXCEPT ![use[r].user] = spent[use[r].user] + use[r].cost]
      BY <2>3 DEF ChargeForUse
    <3>2. use[r].cost \in Nat
      BY DEF TInv, UsageTyped, UseValues
    <3>3. balance'[u] + spent'[u] = balance[u] + spent[u]
      BY <1>4, <3>1, <3>2
    <3> QED
      BY <2>1, <3>3
  <2>4. ASSUME NEW v \in Users, Expire(v)
        PROVE  balance'[u] + spent'[u] >= balance[u] + spent[u]
    <3>1. PICK left \in 1..FreeMonthlyCredits :
            /\ balance' = [balance EXCEPT ![v] = balance[v] - left]
            /\ spent' = [spent EXCEPT ![v] = spent[v] + left]
      BY <2>4 DEF Expire
    <3>2. left \in Nat
      BY WebhookAssumption
    <3>3. balance'[u] + spent'[u] = balance[u] + spent[u]
      BY <1>4, <3>1, <3>2
    <3> QED
      BY <2>1, <3>3
  <2>5. ASSUME NEW v \in Users, GrantFree(v)
        PROVE  balance'[u] + spent'[u] >= balance[u] + spent[u]
    <3>1. /\ balance' = [balance EXCEPT ![v] = balance[v] + FreeMonthlyCredits]
          /\ spent' = spent
      BY <2>5 DEF GrantFree
    <3>2. FreeMonthlyCredits \in Nat
      BY WebhookAssumption
    <3>3. PICK b \in Int : b = balance[u]
      BY <2>1
    <3>4. balance'[u] = b \/ balance'[u] = b + FreeMonthlyCredits
      BY <1>3, <3>1, <3>3
    <3>5. PICK s \in Int : s = spent[u]
      BY <2>1
    <3>6. /\ b + s >= b + s /\ (b + FreeMonthlyCredits) + s >= b + s
      BY <3>2
    <3> QED
      BY <3>1, <3>3, <3>4, <3>5, <3>6
  <2>6. balance'[u] + spent'[u] >= balance[u] + spent[u]
    BY <2>2, <2>3, <2>4, <2>5 DEF UseStep
  <2> QED
    BY <2>6 DEF Received
<1>6. /\ DOMAIN customers' = DOMAIN customers
      /\ \A c \in DOMAIN customers : customers'[c].user = customers[c].user
  <2>1. CASE customers' = customers
    BY <2>1
  <2>2. ASSUME NEW r \in Uses, MirrorUse(r)
        PROVE  /\ DOMAIN customers' = DOMAIN customers
               /\ \A c \in DOMAIN customers : customers'[c].user = customers[c].user
    BY <2>2 DEF MirrorUse, TInv, HInv, TablesTyped
  <2> QED
    BY <2>1, <2>2 DEF UseStep, ReadForUse, ChargeForUse, FailUse, GrantFree, Expire, tables
<1> QED
  BY <1>2, <1>5, <1>6 DEF Grows

\* A handler begins, with a delivery that it checks or with the first step of its event.
LEMMA BeginsFit ==
  ASSUME CInv, TInv', UNCHANGED <<tables, usage, answer>>, NEW h \in Handlers,
         pc'[h] = "remember" \/ pc'[h] = FirstStep(Event(h)'),
         \A g \in Handlers : g # h => pc'[g] = pc[g] /\ msg'[g] = msg[g] /\ local'[g] = local[g]
  PROVE  CInv'
<1>1. Grows
  BY StillGrows DEF tables, CInv
<1>2. HandlerFits(h)'
  <2>1. /\ FirstStep(Event(h)') \in {"upsert", "lookup", "respond"}
        /\ FirstStep(Event(h)') \in {"lookup", "respond"} => Event(h)'.kind # "credits"
    BY DEF FirstStep
  <2>2. /\ pc'[h] \notin CreditSteps
        /\ pc'[h] \notin {"setCredits", "addBalance", "logPurchase", "insertHistory"}
        /\ pc'[h] \notin {"findSubscription", "writeSubscription"}
    BY <2>1 DEF CreditSteps
  <2>3. pc'[h] \in {"lookup", "respond"} => Event(h)'.kind # "credits"
    BY <2>1
  <2> QED
    BY <2>2, <2>3 DEF HandlerFits
<1>3. \A g \in Handlers : g # h => HandlerFits(g)'
  BY <1>1, OthersFit
<1>4. HandlersFit'
  BY <1>2, <1>3 DEF HandlersFit
<1> QED
  BY <1>1, <1>4, NetworkFits DEF tables

\* checkAndRemember answers nothing with 200.
LEMMA RememberFits ==
  ASSUME CInv, TInv', NEW h \in Handlers, Remember(h)
  PROVE  CInv'
<1>1. UNCHANGED <<tables, usage>> /\ pc[h] = "remember"
  BY DEF Remember
<1>2. CASE /\ pc' = [pc EXCEPT ![h] = FirstStep(Event(h))]
           /\ local' = [local EXCEPT ![h] = NoLocal] /\ UNCHANGED <<msg, provider>>
  <2>1. Event(h)' = Event(h) /\ answer' = answer
    BY <1>2 DEF Event, provider
  <2>2. /\ pc'[h] = FirstStep(Event(h)')
        /\ \A g \in Handlers : g # h => pc'[g] = pc[g] /\ msg'[g] = msg[g] /\ local'[g] = local[g]
    BY <1>2, <2>1 DEF CInv, TInv, HInv, HandlersTyped
  <2> QED
    BY <1>1, <2>1, <2>2, BeginsFit
<1>3. CASE /\ Quit(h)
           /\ answer' = answer \/ answer' = [answer EXCEPT ![msg[h].event] = "failed"]
  <2>1. Grows
    BY <1>1, StillGrows DEF tables, CInv
  <2>2. /\ pc'[h] = "idle"
        /\ \A g \in Handlers : g # h => pc'[g] = pc[g] /\ msg'[g] = msg[g] /\ local'[g] = local[g]
    BY <1>3 DEF Quit, CInv, TInv, HInv, HandlersTyped
  <2>3. HandlerFits(h)'
    BY <2>2 DEF HandlerFits, CreditSteps
  <2>4. HandlersFit'
    BY <2>1, <2>2, <2>3, OthersFit DEF HandlersFit
  <2>5. \A n \in EventNumbers : answer'[n] = "ok" => answer[n] = "ok"
    BY <1>3 DEF CInv, TInv, HInv, ProviderTyped
  <2> QED
    BY <1>1, <2>1, <2>4, <2>5, NetworkFits DEF tables
<1> QED
  BY <1>2, <1>3 DEF Remember, Answered, provider

\* So what handlers have done is inductive,
LEMMA NextFits ==
  ASSUME OrdersMakeSense, CInv, [Next]_vars
  PROVE  CInv'
<1>1. TInv'
  BY NextTyped DEF CInv
<1>2. ASSUME UNCHANGED <<tables, usage, pc, msg, local>>,
             \A n \in EventNumbers : answer'[n] = "ok" => answer[n] = "ok"
      PROVE  CInv'
  <2>1. Grows
    BY <1>2, StillGrows DEF tables, CInv
  <2>2. HandlersFit'
    BY <1>1, <1>2, <2>1, UnmovedFit
  <2> QED
    BY <1>1, <1>2, <2>1, <2>2, NetworkFits DEF tables
<1>3. CASE Tick \/ UNCHANGED vars
  <2>1. UNCHANGED <<tables, usage, answer, pc, msg, local>>
    BY <1>3 DEF Tick, vars, provider, handler
  <2> QED
    BY <1>2, <2>1
<1>4. ASSUME NEW n \in EventNumbers, Send(n)
      PROVE  CInv'
  <2>1. UNCHANGED <<tables, usage, pc, msg, local>> /\ answer' = [answer EXCEPT ![n] = "none"]
    BY <1>4 DEF Send, handler
  <2>2. \A m \in EventNumbers : answer'[m] = "ok" => answer[m] = "ok"
    BY <2>1 DEF CInv, TInv, HInv, ProviderTyped
  <2> QED
    BY <1>2, <2>1, <2>2
<1>5. ASSUME NEW d \in sent, RefuseLate(d) \/ RefuseEarly(d)
      PROVE  CInv'
  <2>1. /\ UNCHANGED <<tables, usage, pc, msg, local>>
        /\ answer' = answer \/ answer' = [answer EXCEPT ![d.event] = "failed"]
    BY <1>5 DEF RefuseLate, RefuseEarly, Answered, handler
  <2>2. \A m \in EventNumbers : answer'[m] = "ok" => answer[m] = "ok"
    BY <2>1 DEF CInv, TInv, HInv, ProviderTyped
  <2> QED
    BY <1>2, <2>1, <2>2
<1>6. ASSUME NEW d \in sent, NEW h \in Handlers, Receive(h, d)
      PROVE  CInv'
  <2>1. /\ UNCHANGED <<tables, usage, answer>> /\ pc'[h] = "remember"
        /\ \A g \in Handlers : g # h => pc'[g] = pc[g] /\ msg'[g] = msg[g] /\ local'[g] = local[g]
    BY <1>6 DEF Receive, provider, CInv, TInv, HInv, HandlersTyped
  <2> QED
    BY <1>1, <2>1, BeginsFit
<1>7. ASSUME NEW h \in Handlers, Remember(h)
      PROVE  CInv'
  BY <1>1, <1>7, RememberFits
<1>8. ASSUME NEW h \in Handlers, Step(h)
      PROVE  CInv'
  <2>1. usage' = usage
    BY <1>8, StepIsQuiet DEF Quiet, CInv, TInv, HInv
  <2> QED
    BY <1>1, <1>8, <2>1, UpsertFits, SubscriptionFits, FindOrderFits, ReadCustomerFits,
       SetCreditsFits, AddBalanceFits, LogPurchaseFits, InsertHistoryFits, EndFits DEF Step
<1>9. ASSUME (\E r \in Uses : UseStep(r)) \/ (\E u \in Users : GrantFree(u) \/ Expire(u))
      PROVE  CInv'
  <2>1. /\ Grows /\ DOMAIN customers' = DOMAIN customers
        /\ \A c \in DOMAIN customers : customers'[c].user = customers[c].user
    BY <1>1, <1>9, UsageGrows DEF CInv
  <2>2. UNCHANGED <<history, answer, pc, msg, local>>
    BY <1>9, UsageIsApart DEF provider, handler
  <2>3. HandlersFit'
    BY <1>1, <2>1, <2>2, UnmovedFit
  <2> QED
    BY <1>1, <2>1, <2>2, <2>3, NetworkFits
<1> QED
  BY <1>3, <1>4, <1>5, <1>6, <1>7, <1>8, <1>9 DEF Next

\* and true of an empty database.
LEMMA InitFits == Init => CInv
<1> SUFFICES ASSUME Init
             PROVE  CInv
  OBVIOUS
<1>1. TInv
  BY InitTyped
<1>2. CustomersFit
  BY DEF Init, Empty, CustomersFit
<1>3. OrdersFit
  BY DEF Init, OrdersFit, Done, CreditEvents, Orders, Received
<1>4. HandlersFit
  BY DEF Init, HandlersFit, HandlerFits, CreditSteps
<1> QED
  BY <1>1, <1>2, <1>3, <1>4 DEF CInv

\* However deliveries fail, repeat and overlap, a credit order that was answered with 200,
\* or that the next delivery will skip, is on the balance and in the log
\* (addCreditsToCustomer), provided that the events of one order agree and a customer
\* belongs to one user.
THEOREM DoneOrdersAreCredited ==
  ASSUME OrdersMakeSense
  PROVE  Spec => []DoneMeansCredited
<1>1. CInv /\ [Next]_vars => CInv'
  BY NextFits
<1>2. CInv => DoneMeansCredited
  BY DEF CInv, OrdersFit, Done, Credited, DoneMeansCredited
<1> QED
  BY <1>1, <1>2, InitFits, PTL DEF Spec

-----------------------------------------------------------------------------
(* One credit per order.                                                   *)

\* Between the lookup in credits_history and the row that marks the order as done.
Crediting == {"readCustomer", "setCredits", "addBalance", "logPurchase", "insertHistory"}

CreditsOrder(h, o) == pc[h] \in Crediting /\ Event(h).order = o

\* No two handlers are between lookup and marker of the same order.  The program
\* does not see to it: it is what the theorem needs of the deliveries.
OrdersAreSerial ==
  \A o \in Orders \ {None} : \A g, h \in Handlers :
    CreditsOrder(g, o) /\ CreditsOrder(h, o) => g = h

\* An order whose credits outnumber the failures is marked as done, or its handler is
\* about to mark it; one that is about to be credited was credited in vain only.
OrderOnce(o) ==
  /\ purchases[o] <= 1 + failures
  /\ purchases[o] = 1 + failures =>
       history[o] > 0 \/ \E h \in Handlers : pc[h] = "insertHistory" /\ Event(h).order = o
  /\ \A h \in Handlers : CreditsOrder(h, o) /\ pc[h] # "insertHistory" => purchases[o] <= failures

OnceInv == \A o \in Orders \ {None} : OrderOnce(o)

\* Only handler h moves, and no order is credited.
LEMMA OrderStaysOnce ==
  ASSUME NEW o \in Orders, OrderOnce(o), NEW h \in Handlers,
         \A g \in Handlers : g # h => pc'[g] = pc[g] /\ msg'[g] = msg[g],
         purchases'[o] = purchases[o], failures' = failures,
         history[o] > 0 => history'[o] > 0,
         pc[h] = "insertHistory" /\ Event(h).order = o => history'[o] > 0,
         CreditsOrder(h, o)' /\ pc'[h] # "insertHistory" => purchases[o] <= failures
  PROVE  OrderOnce(o)'
<1>1. \A g \in Handlers : g # h => pc'[g] = pc[g] /\ Event(g)' = Event(g)
  BY DEF Event
<1>2. purchases'[o] = 1 + failures' =>
        history'[o] > 0 \/ \E g \in Handlers : pc'[g] = "insertHistory" /\ Event(g)'.order = o
  <2> SUFFICES ASSUME purchases[o] = 1 + failures, ~(history'[o] > 0)
               PROVE  \E g \in Handlers : pc'[g] = "insertHistory" /\ Event(g)'.order = o
    OBVIOUS
  <2>1. PICK g \in Handlers : pc[g] = "insertHistory" /\ Event(g).order = o
    BY DEF OrderOnce
  <2>2. g # h
    BY <2>1
  <2> QED
    BY <1>1, <2>1, <2>2
<1>3. ASSUME NEW g \in Handlers, CreditsOrder(g, o)', pc'[g] # "insertHistory"
      PROVE  purchases'[o] <= failures'
  <2>1. CASE g = h
    BY <1>3, <2>1
  <2>2. CASE g # h
    <3>1. CreditsOrder(g, o) /\ pc[g] # "insertHistory"
      BY <1>1, <1>3, <2>2 DEF CreditsOrder
    <3> QED
      BY <3>1 DEF OrderOnce
  <2> QED
    BY <2>1, <2>2
<1> QED
  BY <1>2, <1>3 DEF OrderOnce

\* The steps of a handler that neither credit an order nor mark it nor look it up.
LEMMA OtherStepsKeepOnce ==
  ASSUME NEW o \in Orders, OrderOnce(o), NEW h \in Handlers,
         \A g \in Handlers : g # h => pc'[g] = pc[g] /\ msg'[g] = msg[g],
         UNCHANGED <<history, purchases, failures>>, pc[h] # "insertHistory",
         pc'[h] \notin Crediting
  PROVE  OrderOnce(o)'
BY OrderStaysOnce DEF CreditsOrder

\* The steps of a handler between lookup and the PURCHASE row.
LEMMA CreditingKeepsOnce ==
  ASSUME NEW o \in Orders, OrderOnce(o), NEW h \in Handlers,
         \A g \in Handlers : g # h => pc'[g] = pc[g],
         UNCHANGED <<history, purchases, msg, failures>>, pc[h] \in Crediting,
         pc[h] # "insertHistory"
  PROVE  OrderOnce(o)'
<1>1. CreditsOrder(h, o)' => CreditsOrder(h, o)
  BY DEF CreditsOrder, Event
<1>2. CreditsOrder(h, o) => purchases[o] <= failures
  BY DEF OrderOnce
<1> QED
  BY <1>1, <1>2, OrderStaysOnce

\* An order that is not marked as done was credited in vain only, or another handler is
\* about to mark it, which is what OrdersAreSerial excludes.
LEMMA FindOrderKeepsOnce ==
  ASSUME TInv, NEW o \in Orders \ {None}, OrderOnce(o), OrdersAreSerial',
         NEW h \in Handlers, FindOrder(h)
  PROVE  OrderOnce(o)'
<1> DEFINE to == IF Event(h).order # None /\ history[Event(h).order] > 0
                   THEN "respond" ELSE "readCustomer"
<1>1. /\ pc[h] = "findOrder" /\ pc'[h] = to /\ UNCHANGED <<history, purchases, msg, failures>>
      /\ \A g \in Handlers : g # h => pc'[g] = pc[g] /\ msg'[g] = msg[g]
  BY DEF FindOrder, Goto, tables, TInv, HInv, HandlersTyped
<1>2. \A g \in Handlers : Event(g)' = Event(g)
  BY <1>1 DEF Event
<1>3. ASSUME CreditsOrder(h, o)'
      PROVE  purchases[o] <= failures
  <2>1. Event(h).order = o /\ ~(history[o] > 0) /\ pc'[h] = "readCustomer"
    BY <1>1, <1>2, <1>3 DEF CreditsOrder, Crediting
  <2>2. ASSUME purchases[o] = 1 + failures
        PROVE  FALSE
    <3>1. PICK g \in Handlers : pc[g] = "insertHistory" /\ Event(g).order = o
      BY <2>1, <2>2 DEF OrderOnce
    <3>2. g # h
      BY <1>1, <3>1
    <3>3. CreditsOrder(g, o)'
      BY <1>1, <1>2, <3>1, <3>2 DEF CreditsOrder, Crediting
    <3> QED
      BY <1>3, <3>2, <3>3 DEF OrdersAreSerial
  <2>3. purchases[o] \in Nat /\ failures \in Nat /\ purchases[o] <= 1 + failures
    BY DEF TInv, HInv, TablesTyped, ProviderTyped, OrderOnce
  <2> QED
    BY <2>2, <2>3
<1> QED
  BY <1>1, <1>3, OrderStaysOnce

\* The PURCHASE rows of the order were written in vain, and no other handler is crediting it.
LEMMA LogPurchaseKeepsOnce ==
  ASSUME TInv, NEW o \in Orders \ {None}, OrderOnce(o), OrdersAreSerial,
         NEW h \in Handlers, LogPurchase(h)
  PROVE  OrderOnce(o)'
<1> DEFINE x == Event(h).order
<1>1. /\ pc[h] = "logPurchase" /\ pc'[h] = "insertHistory" /\ UNCHANGED <<history, msg, failures>>
      /\ \A g \in Handlers : g # h => pc'[g] = pc[g]
      /\ purchases' = [purchases EXCEPT ![x] = purchases[x] + 1]
  BY DEF LogPurchase, Goto, TInv, HInv, HandlersTyped
<1>2. x \in Orders /\ failures \in Nat /\ \A y \in Orders : purchases[y] \in Nat
  BY <1>1, EventOf DEF TInv, HInv, TablesTyped, ProviderTyped
<1>3. CASE x # o
  <2>1. purchases'[o] = purchases[o] /\ ~CreditsOrder(h, o)'
    BY <1>1, <1>2, <1>3 DEF TInv, HInv, TablesTyped, CreditsOrder, Event
  <2> QED
    BY <1>1, <2>1, OrderStaysOnce
<1>4. CASE x = o
  <2>1. CreditsOrder(h, o) /\ purchases[o] <= failures
    BY <1>1, <1>4 DEF OrderOnce, CreditsOrder, Crediting
  <2>2. purchases'[o] <= 1 + failures'
    BY <1>1, <1>2, <1>4, <2>1 DEF TInv, HInv, TablesTyped
  <2>3. \A g \in Handlers : Event(g)' = Event(g)
    BY <1>1 DEF Event
  <2>4. pc'[h] = "insertHistory" /\ Event(h)'.order = o
    BY <1>1, <1>4, <2>3
  <2>5. ASSUME NEW g \in Handlers, CreditsOrder(g, o)', pc'[g] # "insertHistory"
        PROVE  FALSE
    <3>1. g # h /\ CreditsOrder(g, o)
      BY <1>1, <2>3, <2>5 DEF CreditsOrder
    <3> QED
      BY <2>1, <3>1 DEF OrdersAreSerial
  <2> QED
    BY <2>2, <2>4, <2>5 DEF OrderOnce
<1> QED
  BY <1>3, <1>4

\* The row that marks the order, or its refusal by the unique index.
LEMMA InsertHistoryKeepsOnce ==
  ASSUME TInv, NEW o \in Orders \ {None}, OrderOnce(o), NEW h \in Handlers, InsertHistory(h)
  PROVE  OrderOnce(o)'
<1> DEFINE x == Event(h).order
<1>1. /\ pc[h] = "insertHistory" /\ UNCHANGED <<purchases, failures>>
      /\ \A g \in Handlers : g # h => pc'[g] = pc[g] /\ msg'[g] = msg[g]
      /\ pc'[h] \notin Crediting
  BY DEF InsertHistory, Goto, Throw, Leave, Quit, tables, Crediting, TInv, HInv, HandlersTyped
<1>2. x \in Orders /\ \A y \in Orders : history[y] \in Nat
  BY <1>1, EventOf DEF TInv, HInv, TablesTyped
<1>3. /\ history[o] > 0 => history'[o] > 0
      /\ x = o => history'[o] > 0
  <2>1. CASE x # None /\ history[x] > 0 /\ history' = history
    BY <2>1
  <2>2. CASE history' = [history EXCEPT ![x] = history[x] + 1]
    <3>1. history'[x] = history[x] + 1 /\ \A y \in Orders : y # x => history'[y] = history[y]
      BY <1>2, <2>2 DEF TInv, HInv, TablesTyped
    <3> QED
      BY <1>2, <3>1
  <2> QED
    BY <2>1, <2>2 DEF InsertHistory, Throw, tables
<1> QED
  BY <1>1, <1>3, OrderStaysOnce DEF CreditsOrder

\* A request that is cut short makes room for one more credit.
LEMMA FailKeepsOnce ==
  ASSUME TInv, NEW o \in Orders, OrderOnce(o), NEW h \in Handlers, Fail(h)
  PROVE  OrderOnce(o)'
<1>1. purchases' = purchases /\ failures' = failures + 1
  BY DEF Fail, tables
<1>2. purchases[o] \in Nat /\ failures \in Nat
  BY DEF TInv, HInv, TablesTyped, ProviderTyped
<1> QED
  BY <1>1, <1>2 DEF OrderOnce

\* Every statement of a handler credits an order once.
LEMMA StepKeepsOnce ==
  ASSUME TInv, NEW o \in Orders \ {None}, OrderOnce(o), OrdersAreSerial, OrdersAreSerial',
         NEW h \in Handlers, Step(h)
  PROVE  OrderOnce(o)'
<1> DEFINE Alone == \A g \in Handlers : g # h => pc'[g] = pc[g] /\ msg'[g] = msg[g]
<1>1. CASE \E status : Leave(h, status) /\ UNCHANGED <<tables, failures>> /\ pc[h] # "insertHistory"
  <2>1. UNCHANGED <<history, purchases, failures>> /\ Alone /\ pc'[h] \notin Crediting
    BY <1>1 DEF Leave, Quit, tables, TInv, HInv, HandlersTyped, Crediting
  <2> QED
    BY <1>1, <2>1, OtherStepsKeepOnce
<1>2. CASE UpsertCustomer(h) /\ ~Throw(h)
  <2>1. /\ UNCHANGED <<history, purchases, msg, failures>> /\ pc[h] = "upsert"
        /\ Alone /\ pc'[h] \in {"respond", "findOrder", "findSubscription"}
    BY <1>2 DEF UpsertCustomer, Goto, AfterCustomer, TInv, HInv, HandlersTyped
  <2> QED
    BY <2>1, OtherStepsKeepOnce DEF Crediting
<1>3. CASE (LookupCustomer(h) \/ WriteSubscription(h)) /\ ~Throw(h)
  <2>1. /\ UNCHANGED <<history, purchases, msg, failures>> /\ pc[h] \in {"lookup",
           "writeSubscription"}
        /\ Alone /\ pc'[h] \in {"respond", "findSubscription"}
    BY <1>3 DEF LookupCustomer, WriteSubscription, Goto, tables, TInv, HInv, HandlersTyped
  <2> QED
    BY <2>1, OtherStepsKeepOnce DEF Crediting
<1>4. CASE FindSubscription(h)
  <2>1. /\ UNCHANGED <<history, purchases, msg, failures>> /\ pc[h] = "findSubscription"
        /\ Alone /\ pc'[h] = "writeSubscription"
    BY <1>4 DEF FindSubscription, Goto, tables, TInv, HInv, HandlersTyped
  <2> QED
    BY <2>1, OtherStepsKeepOnce DEF Crediting
<1>5. CASE ReadCustomer(h) \/ SetCredits(h) \/ AddBalance(h)
  <2>1. /\ UNCHANGED <<history, purchases, msg, failures>> /\ \A g \in Handlers : g # h
             => pc'[g] = pc[g]
        /\ pc[h] \in {"readCustomer", "setCredits", "addBalance"}
    BY <1>5 DEF ReadCustomer, SetCredits, AddBalance, Goto, tables, TInv, HInv, HandlersTyped
  <2> QED
    BY <2>1, CreditingKeepsOnce DEF Crediting
<1>6. CASE FindOrder(h)
  BY <1>6, FindOrderKeepsOnce
<1>7. CASE LogPurchase(h)
  BY <1>7, LogPurchaseKeepsOnce
<1>8. CASE InsertHistory(h)
  BY <1>8, InsertHistoryKeepsOnce
<1>9. Respond(h) => Leave(h, "ok") /\ UNCHANGED <<tables, failures>> /\ pc[h] # "insertHistory"
  BY DEF Respond
<1>10. (UpsertCustomer(h) \/ LookupCustomer(h) \/ WriteSubscription(h)) /\ Throw(h)
         => Leave(h, "failed") /\ UNCHANGED <<tables, failures>> /\ pc[h] # "insertHistory"
  BY DEF UpsertCustomer, LookupCustomer, WriteSubscription, Throw
<1>11. CASE Fail(h)
  BY <1>11, FailKeepsOnce
<1> QED
  BY <1>1, <1>2, <1>3, <1>4, <1>5, <1>6, <1>7, <1>8, <1>9, <1>10, <1>11 DEF Step

\* So no step lets an order be credited once too often, as long as handlers of one order do
\* not overlap.
LEMMA NextKeepsOnce ==
  ASSUME TInv, OnceInv, OrdersAreSerial, OrdersAreSerial', [Next]_vars
  PROVE  OnceInv'
<1> SUFFICES ASSUME NEW o \in Orders \ {None}
             PROVE  OrderOnce(o)'
  BY DEF OnceInv
<1>1. OrderOnce(o)
  BY DEF OnceInv
<1>2. ASSUME UNCHANGED <<history, purchases, pc, msg, failures>>
      PROVE  OrderOnce(o)'
  BY <1>1, <1>2 DEF OrderOnce, CreditsOrder, Event
<1>3. CASE Tick \/ UNCHANGED vars
  BY <1>2, <1>3 DEF Tick, vars, tables, handler
<1>4. CASE \E n \in EventNumbers : Send(n)
  BY <1>2, <1>4 DEF Send, tables, handler
<1>5. CASE \E d \in sent : RefuseLate(d) \/ RefuseEarly(d)
  BY <1>2, <1>5 DEF RefuseLate, RefuseEarly, tables, handler
<1>6. ASSUME NEW h \in Handlers, Remember(h) \/ \E d \in sent : Receive(h, d)
      PROVE  OrderOnce(o)'
  <2>1. /\ UNCHANGED <<history, purchases, failures>> /\ pc[h] \in {"idle", "remember"}
        /\ \A g \in Handlers : g # h => pc'[g] = pc[g] /\ msg'[g] = msg[g]
        /\ pc'[h] \in {"idle", "remember", "upsert", "lookup", "respond"}
    BY <1>6 DEF Receive, Remember, Quit, FirstStep, tables, TInv, HInv, HandlersTyped
  <2> QED
    BY <1>1, <2>1, OtherStepsKeepOnce DEF Crediting
<1>7. CASE \E h \in Handlers : Step(h)
  BY <1>1, <1>7, StepKeepsOnce
<1>8. CASE (\E r \in Uses : UseStep(r)) \/ (\E u \in Users : GrantFree(u) \/ Expire(u))
  <2>1. UNCHANGED <<history, purchases, pc, msg, failures>>
    BY <1>8, UsageIsApart DEF handler
  <2> QED
    BY <1>2, <2>1
<1> QED
  BY <1>3, <1>4, <1>5, <1>6, <1>7, <1>8 DEF Next

\* An order is credited once and at most once more for each request that was cut short,
\* however often its event is delivered and however many other orders are in flight, as
\* long as no two handlers are between the lookup in credits_history and the insert of the
\* same order: this race is the only way to credit an order twice without a failure.
THEOREM SerialOrdersAreCreditedOnce == Spec /\ []OrdersAreSerial => []OneCreditPerOrder
<1>1. Init => OnceInv
  BY DEF Init, OnceInv, OrderOnce, CreditsOrder, Crediting
<1>2. TInv /\ OnceInv /\ OrdersAreSerial /\ OrdersAreSerial' /\ [Next]_vars => OnceInv'
  BY NextKeepsOnce
<1>3. OnceInv => OneCreditPerOrder
  BY DEF OnceInv, OrderOnce, OneCreditPerOrder
<1> QED
  BY <1>1, <1>2, <1>3, TypedAlways, PTL DEF Spec

\* So it is when deliveries are processed one after the other.
THEOREM OneHandlerCreditsOnce ==
  ASSUME \A g, h \in Handlers : g = h
  PROVE  Spec => []OneCreditPerOrder
<1>1. OrdersAreSerial
  BY DEF OrdersAreSerial
<1> QED
  BY <1>1, SerialOrdersAreCreditedOnce, PTL

-----------------------------------------------------------------------------
(* Sums, as in CreditLedgerProofs: the strict subsets of a finite set are    *)
(* well founded, and a least set for which a lemma fails is a contradiction. *)

\* The element that the folds of the community modules take out of s.
Any(s) == CHOOSE x \in s : TRUE

\* The recursive function behind a sum of F over the subsets of S.
SumStep(F, g, s) == IF s = {} THEN 0 ELSE F[Any(s)] + g[s \ {Any(s)}]
IsSum(g, F, S) == g = [s \in SUBSET S |-> SumStep(F, g, s)]

\* The element picked by CHOOSE is one.
LEMMA AnyIn ==
  ASSUME NEW s, s # {}
  PROVE  Any(s) \in s
BY DEF Any

\* SumFunctionOnSet of the community modules is that recursive function's last value.
LEMMA SumIsChosen ==
  ASSUME NEW F, NEW S
  PROVE  SumFunctionOnSet(F, S) = (CHOOSE g : IsSum(g, F, S))[S]
BY DEF SumFunctionOnSet, FoldFunctionOnSet, MapThenFoldSet, IsSum, SumStep, Any

\* Every class of subsets of a finite set has a smallest one: the least counterexample
\* of the proofs by induction below.
LEMMA SmallestSet ==
  ASSUME NEW S, IsFiniteSet(S), NEW T, T \subseteq SUBSET S, T # {}
  PROVE  \E x \in T : \A y \in T : ~(y \subseteq x /\ y # x)
<1>1. IsWellFoundedOn(StrictSubsetOrdering(S), FiniteSubsetsOf(S))
  BY FS_StrictSubsetOrderingWellFounded
<1>2. FiniteSubsetsOf(S) = SUBSET S
  BY FS_Subset DEF FiniteSubsetsOf
<1>3. \E x \in T : \A y \in T : ~(<<y, x>> \in StrictSubsetOrdering(S))
  BY <1>1, <1>2, WFMin
<1> QED
  BY <1>3 DEF StrictSubsetOrdering

\* The recursive function is determined by its equation.
LEMMA SumIsUnique ==
  ASSUME NEW S, IsFiniteSet(S), NEW F, NEW g, NEW T, NEW h,
         IsSum(g, F, S), IsSum(h, F, T), S \subseteq T
  PROVE  \A s \in SUBSET S : g[s] = h[s]
<1> DEFINE Bad == {s \in SUBSET S : g[s] # h[s]}
<1> SUFFICES ASSUME Bad # {}
             PROVE  FALSE
  OBVIOUS
<1>0. Bad \subseteq SUBSET S
  OBVIOUS
<1> HIDE DEF Bad
<1>1. PICK s \in Bad : \A y \in Bad : ~(y \subseteq s /\ y # s)
  BY <1>0, SmallestSet
<1> USE DEF Bad
<1>2. g[s] = SumStep(F, g, s) /\ h[s] = SumStep(F, h, s)
  BY DEF IsSum
<1>3. s # {}
  BY <1>2 DEF SumStep
<1>4. s \ {Any(s)} \notin Bad
  BY <1>1, <1>3, AnyIn
<1> QED
  BY <1>2, <1>3, <1>4 DEF SumStep

\* There is a function that satisfies the equation.
LEMMA SumExists ==
  ASSUME NEW S, IsFiniteSet(S), NEW F
  PROVE  \E g : IsSum(g, F, S)
<1> DEFINE Bad == {s \in SUBSET S : ~ \E g : IsSum(g, F, s)}
<1> SUFFICES ASSUME Bad # {}
             PROVE  FALSE
  OBVIOUS
<1>0. Bad \subseteq SUBSET S
  OBVIOUS
<1> HIDE DEF Bad
<1>1. PICK x \in Bad : \A y \in Bad : ~(y \subseteq x /\ y # x)
  BY <1>0, SmallestSet
<1> USE DEF Bad
<1> DEFINE G(z) == CHOOSE g : IsSum(g, F, z)
           V == [z \in SUBSET x |-> G(z)[z]]
           H == [z \in SUBSET x |-> SumStep(F, V, z)]
<1>2. ASSUME NEW z \in SUBSET x, z # x
      PROVE  IsSum(G(z), F, z) /\ IsFiniteSet(z)
  <2>1. z \in SUBSET S /\ z \notin Bad
    BY <1>1, <1>2
  <2>2. \E g : IsSum(g, F, z)
    BY <2>1
  <2>3. IsFiniteSet(z)
    BY <2>1, FS_Subset
  <2> QED
    BY <2>2, <2>3
<1> HIDE DEF G
<1>3. ASSUME NEW z \in SUBSET x, z # x
      PROVE  V[z] = SumStep(F, V, z)
  <2>1. IsSum(G(z), F, z)
    BY <1>2, <1>3
  <2>2. G(z)[z] = SumStep(F, G(z), z)
    BY <2>1 DEF IsSum
  <2>3. CASE z = {}
    BY <2>2, <2>3 DEF SumStep
  <2>4. CASE z # {}
    <3> DEFINE r == z \ {Any(z)}
    <3>1. r \subseteq z /\ r # x /\ r \subseteq x
      BY <2>4, <1>3, AnyIn
    <3>2. IsSum(G(r), F, r) /\ IsFiniteSet(r)
      BY <1>2, <3>1
    <3>3. G(r)[r] = G(z)[r]
      BY <3>1, <3>2, <2>1, SumIsUnique
    <3> QED
      BY <2>2, <2>4, <3>1, <3>3 DEF SumStep
  <2> QED
    BY <2>3, <2>4
<1>4. ASSUME NEW z \in SUBSET x
      PROVE  H[z] = SumStep(F, H, z)
  <2>1. CASE z = {}
    BY <2>1 DEF SumStep
  <2>2. CASE z # {}
    <3> DEFINE r == z \ {Any(z)}
    <3>1. r \subseteq z /\ r # x /\ r \subseteq x
      BY <2>2, AnyIn
    <3>2. V[r] = H[r]
      BY <3>1, <1>3
    <3> QED
      BY <3>2, <2>2 DEF SumStep
  <2> QED
    BY <2>1, <2>2
<1>5. IsSum(H, F, x)
  BY <1>4 DEF IsSum
<1> QED
  BY <1>5

\* F summed over S.
Sum(F, S) == SumFunctionOnSet(F, S)

\* The sum of nothing is zero; any other is one term and the sum of the rest.
LEMMA SumEquation ==
  ASSUME NEW S, IsFiniteSet(S), NEW F
  PROVE  /\ S = {} => Sum(F, S) = 0
         /\ S # {} => Sum(F, S) = F[Any(S)] + Sum(F, S \ {Any(S)})
<1> DEFINE r == S \ {Any(S)}
           g == CHOOSE f : IsSum(f, F, S)
           h == CHOOSE f : IsSum(f, F, r)
<1>1. IsFiniteSet(r) /\ r \subseteq S
  BY FS_Subset
<1>2. IsSum(g, F, S) /\ IsSum(h, F, r)
  BY <1>1, SumExists
<1>3. Sum(F, S) = g[S] /\ Sum(F, r) = h[r]
  BY SumIsChosen DEF Sum
<1> HIDE DEF g, h
<1>4. h[r] = g[r]
  BY <1>1, <1>2, SumIsUnique
<1>5. g[S] = SumStep(F, g, S)
  BY <1>2 DEF IsSum
<1> QED
  BY <1>3, <1>4, <1>5 DEF SumStep

\* Natural numbers add up to one, and when no term but k shrinks, the sum changes by
\* no less than term k does.
LEMMA SumChanges ==
  ASSUME NEW S, IsFiniteSet(S), NEW F, NEW G, NEW k, NEW d \in Nat, NEW e \in Nat,
         \A i \in S : F[i] \in Nat /\ G[i] \in Nat /\ (i # k => F[i] <= G[i]),
         k \in S => F[k] + d <= G[k] + e
  PROVE  /\ Sum(F, S) \in Nat /\ Sum(G, S) \in Nat
         /\ k \notin S => Sum(F, S) <= Sum(G, S)
         /\ k \in S => Sum(F, S) + d <= Sum(G, S) + e
<1> DEFINE Good(s) == /\ Sum(F, s) \in Nat /\ Sum(G, s) \in Nat
                      /\ k \notin s => Sum(F, s) <= Sum(G, s)
                      /\ k \in s => Sum(F, s) + d <= Sum(G, s) + e
           Bad == {s \in SUBSET S : ~Good(s)}
<1> SUFFICES ASSUME Bad # {}
             PROVE  FALSE
  OBVIOUS
<1>1. Bad \subseteq SUBSET S
  OBVIOUS
<1> HIDE DEF Bad
<1>2. PICK s \in Bad : \A y \in Bad : ~(y \subseteq s /\ y # s)
  BY <1>1, SmallestSet
<1> USE DEF Bad
<1>3. IsFiniteSet(s) /\ s \subseteq S
  BY FS_Subset
<1>4. CASE s = {}
  BY <1>3, <1>4, SumEquation
<1>5. CASE s # {}
  <2> DEFINE a == Any(s)
             r == s \ {a}
  <2>1. a \in s
    BY <1>5, AnyIn
  <2>2. Sum(F, s) = F[a] + Sum(F, r) /\ Sum(G, s) = G[a] + Sum(G, r)
    BY <1>3, <1>5, SumEquation
  <2>3. Good(r)
    BY <1>2, <2>1
  <2>4. /\ F[a] \in Nat /\ G[a] \in Nat /\ a # k => F[a] <= G[a]
        /\ k \in s => (k = a /\ k \notin r) \/ (k # a /\ k \in r)
        /\ k \notin s => k # a /\ k \notin r
        /\ k = a => F[a] + d <= G[a] + e
    BY <1>3, <2>1
  <2> DEFINE u == F[a]
             v == G[a]
             x == Sum(F, r)
             y == Sum(G, r)
  <2>5. Sum(F, s) = u + x /\ Sum(G, s) = v + y
    BY <2>2
  <2>6. /\ u \in Nat /\ v \in Nat /\ x \in Nat /\ y \in Nat
        /\ k # a => u <= v
        /\ k = a => u + d <= v + e
        /\ k \notin r => x <= y
        /\ k \in r => x + d <= y + e
    BY <2>3, <2>4
  <2> HIDE DEF a, r, u, v, x, y
  <2>7. CASE k \notin s
    <3>1. u <= v /\ x <= y
      BY <2>4, <2>6, <2>7
    <3>2. u + x \in Nat /\ v + y \in Nat /\ u + x <= v + y
      BY <2>6, <3>1
    <3> QED
      BY <2>5, <2>7, <3>2
  <2>8. CASE k \in s
    <3>1. (u + d <= v + e /\ x <= y) \/ (u <= v /\ x + d <= y + e)
      BY <2>4, <2>6, <2>8
    <3>2. u + x \in Nat /\ v + y \in Nat /\ (u + x) + d <= (v + y) + e
      BY <2>6, <3>1
    <3> QED
      BY <2>5, <2>8, <3>2
  <2> QED
    BY <2>7, <2>8
<1> QED
  BY <1>4, <1>5

\* Natural numbers add up to one, and equal terms to equal sums.
LEMMA SumIsNatural ==
  ASSUME NEW S, IsFiniteSet(S), NEW F, NEW G, \A i \in S : F[i] \in Nat /\ G[i] = F[i]
  PROVE  Sum(F, S) \in Nat /\ Sum(G, S) = Sum(F, S)
<1> DEFINE k == CHOOSE k : k \notin S
<1>1. \A i \in S : F[i] \in Nat /\ G[i] \in Nat /\ (i # k => F[i] <= G[i])
  OBVIOUS
<1>2. \A i \in S : G[i] \in Nat /\ F[i] \in Nat /\ (i # k => G[i] <= F[i])
  OBVIOUS
<1>3. (k \in S => F[k] + 0 <= G[k] + 0) /\ (k \in S => G[k] + 0 <= F[k] + 0) /\ 0 \in Nat
  OBVIOUS
<1> HIDE DEF k
<1>4. /\ Sum(F, S) \in Nat /\ Sum(G, S) \in Nat
      /\ k \notin S => Sum(F, S) <= Sum(G, S)
      /\ k \in S => Sum(F, S) + 0 <= Sum(G, S) + 0
  BY <1>1, <1>3, SumChanges
<1>5. /\ k \notin S => Sum(G, S) <= Sum(F, S)
      /\ k \in S => Sum(G, S) + 0 <= Sum(F, S) + 0
  BY <1>2, <1>3, SumChanges
<1> QED
  BY <1>4, <1>5

\* Whichever term is taken out first, the sum is the same.
LEMMA SumSplits ==
  ASSUME NEW S, IsFiniteSet(S), NEW F, \A i \in S : F[i] \in Nat
  PROVE  \A i \in S : Sum(F, S) = F[i] + Sum(F, S \ {i})
<1> DEFINE Good(s) == \A i \in s : Sum(F, s) = F[i] + Sum(F, s \ {i})
           Bad == {s \in SUBSET S : ~Good(s)}
<1> SUFFICES ASSUME Bad # {}
             PROVE  FALSE
  OBVIOUS
<1>1. Bad \subseteq SUBSET S
  OBVIOUS
<1> HIDE DEF Bad
<1>2. PICK s \in Bad : \A y \in Bad : ~(y \subseteq s /\ y # s)
  BY <1>1, SmallestSet
<1> USE DEF Bad
<1>3. PICK i \in s : Sum(F, s) # F[i] + Sum(F, s \ {i})
  OBVIOUS
<1>4. \A k \in s : Good(s \ {k})
  BY <1>2
<1> DEFINE a == Any(s)
<1>5. IsFiniteSet(s) /\ s \subseteq S
  BY FS_Subset
<1>6. a \in s /\ Sum(F, s) = F[a] + Sum(F, s \ {a})
  BY <1>3, <1>5, AnyIn, SumEquation
<1> HIDE DEF a, Bad
<1>7. a # i
  BY <1>3, <1>6
<1>8. Sum(F, s \ {a}) = F[i] + Sum(F, (s \ {a}) \ {i})
  BY <1>3, <1>4, <1>6, <1>7
<1>9. Sum(F, s \ {i}) = F[a] + Sum(F, (s \ {i}) \ {a})
  BY <1>3, <1>4, <1>6, <1>7
<1> DEFINE r == (s \ {a}) \ {i}
<1>10. (s \ {i}) \ {a} = r
  OBVIOUS
<1>11. Sum(F, r) \in Nat /\ F[a] \in Nat /\ F[i] \in Nat
  <2>1. IsFiniteSet(r) /\ r \subseteq S
    BY <1>5, FS_Subset
  <2> HIDE DEF r
  <2> QED
    BY <1>3, <1>5, <1>6, <2>1, SumIsNatural
<1> HIDE DEF r
<1>12. Sum(F, s \ {a}) = F[i] + Sum(F, r)
  BY <1>8 DEF r
<1>13. Sum(F, s \ {i}) = F[a] + Sum(F, r)
  BY <1>9, <1>10
<1> QED
  BY <1>3, <1>6, <1>11, <1>12, <1>13

-----------------------------------------------------------------------------
(* One credit per delivery, also of handlers that overlap.                 *)

\* Before the PURCHASE row of a credit order is written.
Unpaid == {"upsert", "lookup", "findOrder", "readCustomer", "setCredits", "addBalance",
           "logPurchase"}

Dispatches(o) == SumFunction([d \in DeliveriesOf(o) |-> dispatched[d]])
StillToPay(o) == {h \in Handlers : pc[h] \in Unpaid /\ Event(h).order = o}

\* Every dispatch of an order paid once or may still pay once.
Paid(o) ==
  /\ IsFiniteSet(DeliveriesOf(o))
  /\ purchases[o] + Cardinality(StillToPay(o)) <= Dispatches(o)

PaidByDeliveries == \A o \in Orders : Paid(o)

\* Dispatches are counted in natural numbers.
LEMMA DispatchesAreNatural ==
  ASSUME TInv, NEW o, IsFiniteSet(DeliveriesOf(o))
  PROVE  Dispatches(o) \in Nat
<1> DEFINE S == DeliveriesOf(o)
           F == [d \in S |-> dispatched[d]]
<1>1. \A d \in S : F[d] \in Nat
  BY DEF DeliveriesOf, TInv, HInv, IInv, Spaced
<1>2. Dispatches(o) = Sum(F, S)
  BY DEF Dispatches, SumFunction, Sum
<1> HIDE DEF S, F
<1>3. IsFiniteSet(S)
  BY DEF S
<1> QED
  BY <1>1, <1>2, <1>3, SumIsNatural

\* A delivery whose count goes from n to n + e.
LEMMA CountedDispatch ==
  ASSUME TInv, NEW o, IsFiniteSet(DeliveriesOf(o)), NEW d, NEW n \in Nat, NEW e \in Nat,
         n = IF d \in DOMAIN dispatched THEN dispatched[d] ELSE 0,
         dispatched' = Extend(dispatched, d, n + e)
  PROVE  /\ IsFiniteSet(DeliveriesOf(o)')
         /\ Dispatches(o)' = IF Events[d.event].order = o THEN Dispatches(o) + e ELSE Dispatches(o)
<1> DEFINE S == DeliveriesOf(o)
           T == DeliveriesOf(o)'
           F == [x \in S |-> dispatched[x]]
           G == [x \in T |-> dispatched'[x]]
           R == S \ {d}
<1>1. /\ DOMAIN dispatched' = DOMAIN dispatched \cup {d}
      /\ \A x \in DOMAIN dispatched' : dispatched'[x] = IF x = d THEN n + e ELSE dispatched[x]
  BY DEF Extend
<1>2. Dispatches(o) = Sum(F, S) /\ Dispatches(o)' = Sum(G, T)
  BY DEF Dispatches, SumFunction, Sum
<1>3. \A x \in S : F[x] \in Nat
  BY DEF DeliveriesOf, TInv, HInv, IInv, Spaced
<1>4. IsFiniteSet(R) /\ IsFiniteSet(S) /\ R \subseteq S
  BY FS_Subset
<1>5. CASE Events[d.event].order # o
  <2>1. T = S
    BY <1>1, <1>5 DEF DeliveriesOf
  <2>2. G = F
    BY <1>1, <1>5, <2>1 DEF DeliveriesOf
  <2> HIDE DEF S, T, F, G
  <2>3. IsFiniteSet(T)
    BY <1>4, <2>1
  <2> QED
    BY <1>2, <1>5, <2>1, <2>2, <2>3 DEF T
<1>6. CASE Events[d.event].order = o
  <2>1. T = R \cup {d} /\ d \notin R /\ (d \notin S => R = S)
          /\ (d \in S <=> d \in DOMAIN dispatched)
    BY <1>1, <1>6 DEF DeliveriesOf
  <2>2. G[d] = n + e /\ \A x \in R : G[x] = F[x]
    BY <1>1, <2>1 DEF DeliveriesOf
  <2>3. d \in S => F[d] = n
    BY <2>1
  <2>4. d \notin S => n = 0
    BY <2>1
  <2> HIDE DEF S, T, F, G, R
  <2>5. IsFiniteSet(T) /\ T \ {d} = R /\ d \in T
    BY <1>4, <2>1, FS_AddElement
  <2>6. \A x \in T : G[x] \in Nat
    BY <1>3, <1>4, <2>1, <2>2
  <2>7. Sum(G, T) = (n + e) + Sum(G, R)
    BY <2>2, <2>5, <2>6, SumSplits
  <2>8. Sum(F, R) \in Nat /\ Sum(G, R) = Sum(F, R)
    BY <1>3, <1>4, <2>2, SumIsNatural
  <2>9. Sum(F, S) = n + Sum(F, R)
    <3>1. CASE d \in S
      <4>1. S \ {d} = R
        BY DEF R
      <4> QED
        BY <1>3, <1>4, <2>3, <3>1, <4>1, SumSplits
    <3>2. CASE d \notin S
      BY <2>1, <2>4, <2>8, <3>2
    <3> QED
      BY <3>1, <3>2
  <2>10. Sum(G, T) = Sum(F, S) + e
    BY <2>7, <2>8, <2>9
  <2> QED
    BY <1>2, <1>6, <2>5, <2>10 DEF T
<1> QED
  BY <1>5, <1>6

\* There are finitely many handlers.
LEMMA FewToPay ==
  ASSUME NEW o
  PROVE  IsFiniteSet(StillToPay(o)) /\ Cardinality(StillToPay(o)) \in Nat
BY WebhookAssumption, FS_Subset, FS_CardinalityType DEF StillToPay

\* The numbers that Paid compares.
LEMMA PaidNumbers ==
  ASSUME TInv, PaidByDeliveries, NEW o \in Orders
  PROVE  /\ IsFiniteSet(DeliveriesOf(o)) /\ Dispatches(o) \in Nat /\ purchases[o] \in Nat
         /\ Cardinality(StillToPay(o)) \in Nat
         /\ purchases[o] + Cardinality(StillToPay(o)) <= Dispatches(o)
BY FewToPay, DispatchesAreNatural DEF PaidByDeliveries, Paid, TInv, HInv, TablesTyped

\* Nothing is dispatched.
LEMMA DispatchesStay ==
  ASSUME dispatched' = dispatched, NEW o
  PROVE  DeliveriesOf(o)' = DeliveriesOf(o) /\ Dispatches(o)' = Dispatches(o)
<1>1. DeliveriesOf(o)' = DeliveriesOf(o)
  BY DEF DeliveriesOf
<1> QED
  BY <1>1 DEF Dispatches, SumFunction

\* When nothing is dispatched and a handler goes on, or leaves, the handlers that may
\* still pay are not more than before.
LEMMA GoingOnPaysNoMore ==
  ASSUME TInv, PaidByDeliveries, NEW h \in Handlers, NEW o \in Orders,
         purchases' = purchases, dispatched' = dispatched,
         pc'[h] \in Unpaid => pc[h] \in Unpaid /\ msg'[h] = msg[h],
         \A g \in Handlers : g # h => pc'[g] = pc[g] /\ msg'[g] = msg[g]
  PROVE  Paid(o)'
<1>1. StillToPay(o)' \subseteq StillToPay(o)
  BY DEF StillToPay, Event
<1>2. PICK S : S = StillToPay(o)'
  OBVIOUS
<1>3. Cardinality(S) <= Cardinality(StillToPay(o)) /\ IsFiniteSet(S)
  BY <1>1, <1>2, FewToPay, FS_Subset
<1>4. Cardinality(S) \in Nat
  BY <1>3, FS_CardinalityType
<1>5. purchases[o] + Cardinality(S) <= Dispatches(o)
  BY <1>3, <1>4, PaidNumbers
<1> QED
  BY <1>2, <1>5, PaidNumbers, DispatchesStay DEF Paid

\* The PURCHASE row is written once by a handler.
LEMMA LogPurchasePaysOnce ==
  ASSUME TInv, PaidByDeliveries, NEW h \in Handlers, NEW o \in Orders, LogPurchase(h)
  PROVE  Paid(o)'
<1>1. /\ pc[h] = "logPurchase" /\ pc'[h] = "insertHistory" /\ UNCHANGED <<msg, dispatched>>
      /\ purchases' = [purchases EXCEPT ![Event(h).order] = purchases[Event(h).order] + 1]
      /\ \A g \in Handlers : g # h => pc'[g] = pc[g]
  BY DEF LogPurchase, Goto, TInv, HInv, HandlersTyped
<1>2. CASE Event(h).order # o
  <2>1. purchases'[o] = purchases[o]
    BY <1>1, <1>2 DEF TInv, HInv, TablesTyped
  <2>2. StillToPay(o)' = StillToPay(o)
    BY <1>1, <1>2 DEF StillToPay, Event, Unpaid
  <2> QED
    BY <1>1, <2>1, <2>2, PaidNumbers, DispatchesStay DEF Paid
<1>3. CASE Event(h).order = o
  <2>1. purchases'[o] = purchases[o] + 1
    BY <1>1, <1>3 DEF TInv, HInv, TablesTyped
  <2>2. StillToPay(o)' = StillToPay(o) \ {h} /\ h \in StillToPay(o)
    BY <1>1, <1>3 DEF StillToPay, Event, Unpaid
  <2>3. PICK S : S = StillToPay(o)'
    OBVIOUS
  <2>4. Cardinality(S) = Cardinality(StillToPay(o)) - 1
    BY <2>2, <2>3, FewToPay, FS_RemoveElement
  <2>5. (purchases[o] + 1) + Cardinality(S) <= Dispatches(o)
    BY <2>4, PaidNumbers
  <2> QED
    BY <1>1, <2>1, <2>3, <2>5, PaidNumbers, DispatchesStay DEF Paid
<1> QED
  BY <1>2, <1>3

\* checkAndRemember: a dispatch is counted, and its handler may pay for it.
LEMMA RememberPaysOnce ==
  ASSUME TInv, PaidByDeliveries, NEW h \in Handlers, NEW o \in Orders, Remember(h)
  PROVE  Paid(o)'
<1> DEFINE d == msg[h]
           n == IF d \in DOMAIN dispatched THEN dispatched[d] ELSE 0
<1>1. purchases' = purchases /\ pc[h] = "remember"
  BY DEF Remember, tables
<1>2. n \in Nat
  BY DEF TInv, HInv, IInv, Spaced
<1>3. CASE Quit(h) /\ dispatched' = dispatched
  <2>1. /\ pc'[h] \notin Unpaid
        /\ \A g \in Handlers : g # h => pc'[g] = pc[g] /\ msg'[g] = msg[g]
    BY <1>3 DEF Quit, TInv, HInv, HandlersTyped, Unpaid
  <2> QED
    BY <1>1, <1>3, <2>1, GoingOnPaysNoMore
<1>4. CASE Quit(h) /\ dispatched' = Extend(dispatched, d, n)
  <2>1. StillToPay(o)' = StillToPay(o)
    BY <1>1, <1>4 DEF Quit, StillToPay, Event, Unpaid, TInv, HInv, HandlersTyped
  <2>2. dispatched' = Extend(dispatched, d, n + 0)
    BY <1>2, <1>4
  <2>3. PICK m \in Nat : m = n
    BY <1>2
  <2>4. m = (IF d \in DOMAIN dispatched THEN dispatched[d] ELSE 0) /\ 0 \in Nat
        /\ dispatched' = Extend(dispatched, d, m + 0)
    BY <2>2, <2>3
  <2>5. PICK x : x = d
    OBVIOUS
  <2>6. /\ m = IF x \in DOMAIN dispatched THEN dispatched[x] ELSE 0
        /\ dispatched' = Extend(dispatched, x, m + 0)
    BY <2>4, <2>5
  <2>7. IsFiniteSet(DeliveriesOf(o)') /\ Dispatches(o)' = Dispatches(o)
    <3> HIDE DEF d, n
    <3>1. /\ IsFiniteSet(DeliveriesOf(o)')
          /\ Dispatches(o)' = IF Events[x.event].order = o THEN Dispatches(o) + 0 ELSE Dispatches(o)
      BY <2>4, <2>6, PaidNumbers, CountedDispatch
    <3> QED
      BY <3>1, PaidNumbers
  <2> QED
    BY <1>1, <2>1, <2>7, PaidNumbers DEF Paid
<1>5. CASE /\ dispatched' = Extend(dispatched, d, n + 1) /\ msg' = msg
           /\ pc' = [pc EXCEPT ![h] = FirstStep(Event(h))]
  <2>1. PICK x : x = d
    OBVIOUS
  <2>2. PICK m \in Nat : m = n
    BY <1>2
  <2>3. /\ m = IF x \in DOMAIN dispatched THEN dispatched[x] ELSE 0
        /\ dispatched' = Extend(dispatched, x, m + 1) /\ Event(h).order = Events[x.event].order
    BY <1>5, <2>1, <2>2 DEF Event
  <2> HIDE DEF d, n
  <2>4. /\ IsFiniteSet(DeliveriesOf(o)')
        /\ Dispatches(o)' = IF Event(h).order = o THEN Dispatches(o) + 1 ELSE Dispatches(o)
    BY <2>3, PaidNumbers, CountedDispatch
  <2>5. /\ h \notin StillToPay(o)
        /\ StillToPay(o)' \subseteq IF Event(h).order = o THEN StillToPay(o) \cup {h}
                                                        ELSE StillToPay(o)
    BY <1>1, <1>5 DEF StillToPay, Event, Unpaid, TInv, HInv, HandlersTyped
  <2>6. PICK S : S = StillToPay(o)'
    OBVIOUS
  <2>7. CASE Event(h).order # o
    <3>1. Cardinality(S) <= Cardinality(StillToPay(o)) /\ IsFiniteSet(S)
      BY <2>5, <2>6, <2>7, FewToPay, FS_Subset
    <3>2. Cardinality(S) \in Nat
      BY <3>1, FS_CardinalityType
    <3>3. purchases[o] + Cardinality(S) <= Dispatches(o)
      BY <3>1, <3>2, PaidNumbers
    <3> QED
      BY <1>1, <2>4, <2>6, <2>7, <3>3 DEF Paid
  <2>8. CASE Event(h).order = o
    <3> DEFINE T == StillToPay(o) \cup {h}
    <3>1. IsFiniteSet(T) /\ Cardinality(T) = Cardinality(StillToPay(o)) + 1
      BY <2>5, FewToPay, FS_AddElement
    <3>2. S \subseteq T
      BY <2>5, <2>6, <2>8
    <3> HIDE DEF T
    <3>3. Cardinality(S) <= Cardinality(T) /\ IsFiniteSet(S)
      BY <3>1, <3>2, FS_Subset
    <3>4. Cardinality(S) \in Nat
      BY <3>3, FS_CardinalityType
    <3>5. Cardinality(S) <= Cardinality(StillToPay(o)) + 1
      BY <3>1, <3>3
    <3>6. purchases[o] + Cardinality(S) <= Dispatches(o) + 1
      BY <3>4, <3>5, PaidNumbers
    <3> QED
      BY <1>1, <2>4, <2>6, <2>8, <3>6 DEF Paid
  <2> QED
    BY <2>7, <2>8
<1> QED
  BY <1>3, <1>4, <1>5 DEF Remember

\* Every other statement of a handler writes no PURCHASE row, and leaves the part of
\* the handler that leads to one never to come back to it.
LEMMA StepPaysOnce ==
  ASSUME TInv, PaidByDeliveries, NEW h \in Handlers, NEW o \in Orders, Step(h)
  PROVE  Paid(o)'
<1> DEFINE Alone == \A g \in Handlers : g # h => pc'[g] = pc[g] /\ msg'[g] = msg[g]
<1>1. CASE LogPurchase(h)
  BY <1>1, LogPurchasePaysOnce
<1>2. CASE \E status : Leave(h, status) /\ UNCHANGED <<tables, dispatched>>
  <2>1. /\ purchases' = purchases /\ dispatched' = dispatched /\ Alone /\ pc'[h] \notin Unpaid
    BY <1>2 DEF Leave, Quit, tables, TInv, HInv, HandlersTyped, Unpaid
  <2> QED
    BY <2>1, GoingOnPaysNoMore
<1>3. CASE (UpsertCustomer(h) \/ LookupCustomer(h) \/ FindOrder(h) \/ ReadCustomer(h)
             \/ SetCredits(h) \/ AddBalance(h)) /\ ~Throw(h)
  <2>1. /\ purchases' = purchases /\ dispatched' = dispatched /\ msg' = msg /\ Alone
        /\ pc[h] \in Unpaid
    BY <1>3 DEF UpsertCustomer, LookupCustomer, FindOrder, ReadCustomer, SetCredits, AddBalance,
         Goto, tables, TInv, HInv, HandlersTyped, Unpaid
  <2> QED
    BY <2>1, GoingOnPaysNoMore
<1>4. CASE (InsertHistory(h) \/ FindSubscription(h) \/ WriteSubscription(h)) /\ ~Throw(h)
  <2>1. /\ purchases' = purchases /\ dispatched' = dispatched /\ msg' = msg /\ Alone
        /\ pc'[h] \notin Unpaid
    BY <1>4 DEF InsertHistory, FindSubscription, WriteSubscription, Goto, tables, TInv, HInv,
         HandlersTyped, Unpaid
  <2> QED
    BY <2>1, GoingOnPaysNoMore
<1>5. (Respond(h) \/ Fail(h)) => \E status : Leave(h, status) /\ UNCHANGED <<tables, dispatched>>
  BY DEF Respond, Fail
<1>6. (UpsertCustomer(h) \/ LookupCustomer(h) \/ FindOrder(h) \/ ReadCustomer(h) \/ SetCredits(h)
         \/ AddBalance(h) \/ InsertHistory(h) \/ FindSubscription(h) \/ WriteSubscription(h))
        /\ Throw(h)
        => \E status : Leave(h, status) /\ UNCHANGED <<tables, dispatched>>
  BY DEF UpsertCustomer, LookupCustomer, FindOrder, ReadCustomer, SetCredits, AddBalance,
       InsertHistory, FindSubscription, WriteSubscription, Throw
<1> QED
  BY <1>1, <1>2, <1>3, <1>4, <1>5, <1>6 DEF Step

\* An order is credited at most once per dispatch of a delivery of it, whatever handlers
\* overlap and are cut short: with RepeatsAreFew, the number of signed attempts of the
\* provider bounds what the missing transaction can give away.
THEOREM CreditsAreDelivered == Spec => []OneCreditPerDelivery
<1>1. Init => PaidByDeliveries
  <2> SUFFICES ASSUME Init, NEW o \in Orders
               PROVE  Paid(o)
    BY DEF PaidByDeliveries
  <2>1. DeliveriesOf(o) = {} /\ StillToPay(o) = {} /\ purchases[o] = 0
    BY DEF Init, DeliveriesOf, Empty, StillToPay, Unpaid
  <2>2. IsFiniteSet(DeliveriesOf(o)) /\ Cardinality(StillToPay(o)) = 0
    BY <2>1, FS_EmptySet
  <2>3. Dispatches(o) \in Nat
    BY <2>2, InitTyped, DispatchesAreNatural
  <2> QED
    BY <2>1, <2>2, <2>3 DEF Paid
<1>2. TInv /\ PaidByDeliveries /\ [Next]_vars => PaidByDeliveries'
  <2> SUFFICES ASSUME TInv, PaidByDeliveries, [Next]_vars, NEW o \in Orders
               PROVE  Paid(o)'
    BY DEF PaidByDeliveries, Orders, EventNumbers
  <2>1. ASSUME UNCHANGED <<purchases, pc, msg, dispatched>>
        PROVE  Paid(o)'
    <3>1. StillToPay(o)' = StillToPay(o)
      BY <2>1 DEF StillToPay, Event
    <3> QED
      BY <2>1, <3>1, DispatchesStay, PaidNumbers DEF Paid
  <2>2. CASE Tick \/ UNCHANGED vars
    BY <2>1, <2>2 DEF Tick, vars, tables, handler
  <2>3. CASE \E n \in EventNumbers : Send(n)
    BY <2>1, <2>3 DEF Send, tables, handler
  <2>4. CASE \E d \in sent : RefuseLate(d) \/ RefuseEarly(d)
    BY <2>1, <2>4 DEF RefuseLate, RefuseEarly, tables, handler
  <2>5. ASSUME NEW d \in sent, NEW h \in Handlers, Receive(h, d)
        PROVE  Paid(o)'
    <3>1. /\ UNCHANGED <<purchases, dispatched>> /\ pc'[h] \notin Unpaid
          /\ \A g \in Handlers : g # h => pc'[g] = pc[g] /\ msg'[g] = msg[g]
      BY <2>5 DEF Receive, tables, Unpaid, TInv, HInv, HandlersTyped
    <3> QED
      BY <3>1, GoingOnPaysNoMore
  <2>6. CASE \E h \in Handlers : Remember(h)
    BY <2>6, RememberPaysOnce
  <2>7. CASE \E h \in Handlers : Step(h)
    BY <2>7, StepPaysOnce
  <2>8. CASE (\E r \in Uses : UseStep(r)) \/ (\E u \in Users : GrantFree(u) \/ Expire(u))
    <3>1. UNCHANGED <<purchases, pc, msg, dispatched>>
      BY <2>8, UsageIsApart DEF handler
    <3> QED
      BY <2>1, <3>1
  <2> QED
    BY <2>2, <2>3, <2>4, <2>5, <2>6, <2>7, <2>8 DEF Next
<1>3. TInv /\ PaidByDeliveries => OneCreditPerDelivery
  <2> SUFFICES ASSUME TInv, PaidByDeliveries, NEW o \in Orders
               PROVE  purchases[o] <= Dispatches(o)
    BY DEF OneCreditPerDelivery, Dispatches
  <2> QED
    BY PaidNumbers
<1> QED
  BY <1>1, <1>2, <1>3, TypedAlways, PTL DEF Spec

\* There are finitely many events.
LEMMA FewEvents == IsFiniteSet(EventNumbers)
<1>1. PICK len \in Int : len = Len(Events)
  BY WebhookAssumption
<1>2. EventNumbers = 1..len
  BY <1>1, WebhookAssumption
<1>3. IsFiniteSet(1..len)
  BY FS_Interval
<1> QED
  BY <1>2, <1>3


\* So are the credit events of a user.
LEMMA EventsOfAreFew ==
  \A u : IsFiniteSet(CreditEventsOf(u)) /\ CreditEventsOf(u) \subseteq CreditEvents
<1>1. \A u : CreditEventsOf(u) \subseteq EventNumbers
  BY DEF CreditEventsOf, CreditEvents
<1> QED
  BY <1>1, FewEvents, FS_Subset DEF CreditEventsOf

-----------------------------------------------------------------------------
(* The credits of customers.                                               *)

\* Between the write of customers.credits and the PURCHASE row, and between the
\* addition to the balance and that row.
MirrorSteps == {"addBalance", "logPurchase"}
BalanceSteps == {"logPurchase"}

Added(n, steps) == Logged(n) + InFlight(n, steps)
LoggedBy(u, steps) == SumFunction([n \in CreditEventsOf(u) |-> Added(n, steps)])

\* No row of customers, and nothing that is about to be written to one, shows more than
\* its user was given; nor does the balance that a usage reads.
RowFits(c) == customers[c].credits <= Earned(customers[c].user, MirrorSteps)
BalanceFits(u) == balance[u] <= Earned(u, BalanceSteps)
ReadFits(h) ==
  pc[h] = "setCredits" => local[h].credits <= Earned(local[h].user, MirrorSteps)
UseFits(r) ==
  use[r].step \in {"charge", "mirror"} =>
    use[r].user \in Users /\ use[r].left <= Earned(use[r].user, MirrorSteps)

Mirrored ==
  /\ \A c \in DOMAIN customers : RowFits(c)
  /\ \A u \in Users : BalanceFits(u)
  /\ \A h \in Handlers : ReadFits(h)
  /\ \A r \in Uses : UseFits(r)

\* A step after which no user has been given less.
NobodyEarnsLess ==
  \A u \in Users, steps \in {MirrorSteps, BalanceSteps} :
    Earned(u, steps) \in Nat /\ Earned(u, steps)' \in Nat /\ Earned(u, steps) <= Earned(u, steps)'

\* Products of natural numbers grow with their factors.
LEMMA LargerProducts ==
  ASSUME NEW a \in Nat, NEW b \in Nat, NEW n \in Nat, a <= b
  PROVE  n * a <= n * b /\ n * a \in Nat /\ n * b \in Nat
OBVIOUS

\* Finitely many packages have a largest one.
LEMMA LargestPackageIsLargest ==
  /\ LargestPackage \in Nat
  /\ \A n \in EventNumbers : Events[n].credits <= LargestPackage
<1> DEFINE S == {0} \cup {Events[n].credits : n \in EventNumbers}
           Above(m) == {n \in S : n >= m}
           T == {Above(m) : m \in S}
<1>1. S \subseteq Nat /\ 0 \in S
  BY WebhookAssumption
<1>2. IsFiniteSet(S)
  <2>1. IsFiniteSet(EventNumbers)
    BY FewEvents
  <2> DEFINE C == {Events[n].credits : n \in EventNumbers}
             f == [n \in EventNumbers |-> Events[n].credits]
  <2>2. f \in Surjection(EventNumbers, C)
    BY DEF Surjection
  <2>3. IsFiniteSet(C)
    <3> HIDE DEF C, f
    <3> QED
      BY <2>1, <2>2, FS_Surjection
  <2>4. S = C \cup {0}
    OBVIOUS
  <2> HIDE DEF S, C
  <2> QED
    BY <2>3, <2>4, FS_AddElement
<1>3. T \subseteq SUBSET S /\ T # {}
  OBVIOUS
<1>4. PICK x \in T : \A y \in T : ~(y \subseteq x /\ y # x)
  <2> HIDE DEF S, T, Above
  <2> QED
    BY <1>2, <1>3, SmallestSet
<1>5. PICK m \in S : x = Above(m)
  OBVIOUS
<1>6. ASSUME NEW n \in S, n > m
      PROVE  FALSE
  <2>1. Above(n) \in T /\ Above(n) \subseteq Above(m) /\ m \in Above(m) /\ m \notin Above(n)
    BY <1>1, <1>6
  <2> QED
    BY <1>4, <1>5, <2>1
<1>7. \E a \in S : \A b \in S : a >= b
  BY <1>1, <1>6
<1>8. LargestPackage \in S /\ \A n \in S : LargestPackage >= n
  BY <1>7 DEF LargestPackage, Max
<1> QED
  BY <1>1, <1>8

\* The handlers that InFlight counts.
Carrying(n, steps) == {h \in Handlers : pc[h] \in steps /\ msg[h].event = n}

\* There are finitely many.
LEMMA Counted ==
  \A n, steps : IsFiniteSet(Carrying(n, steps)) /\ Cardinality(Carrying(n, steps)) \in Nat
BY WebhookAssumption, FS_Subset, FS_CardinalityType DEF Carrying

\* There are after a step, too.
LEMMA CountedNext ==
  \A n, steps : IsFiniteSet(Carrying(n, steps)') /\ Cardinality(Carrying(n, steps)') \in Nat
BY WebhookAssumption, FS_Subset, FS_CardinalityType DEF Carrying

AddedTyped(steps) ==
  \A n \in CreditEvents :
    Added(n, steps) \in Nat /\ purchases[Events[n].order] \in Nat /\ Events[n].credits \in Nat

\* What an event added is a sum of products of natural numbers.
LEMMA AddedIsNatural == ASSUME TInv, NEW steps PROVE AddedTyped(steps)
<1> SUFFICES ASSUME NEW n \in CreditEvents
             PROVE  /\ Added(n, steps) \in Nat
                    /\ purchases[Events[n].order] \in Nat /\ Events[n].credits \in Nat
  BY DEF AddedTyped
<1>1. /\ n \in EventNumbers /\ purchases[Events[n].order] \in Nat /\ Events[n].credits \in Nat
  BY WebhookAssumption DEF CreditEvents, Orders, TInv, HInv, TablesTyped
<1> DEFINE p == purchases[Events[n].order]
           x == Events[n].credits
           m == Cardinality(Carrying(n, steps))
<1>2. Added(n, steps) = p * x + x * m
  BY DEF Added, Logged, InFlight, Carrying
<1>3. p \in Nat /\ x \in Nat /\ m \in Nat
  BY <1>1, Counted
<1> HIDE DEF p, x, m
<1> QED
  BY <1>1, <1>2, <1>3, Products

\* It is after a step, too.
LEMMA AddedIsNaturalNext == ASSUME TInv', NEW steps PROVE AddedTyped(steps)'
<1> SUFFICES ASSUME NEW n \in CreditEvents
             PROVE  /\ Added(n, steps)' \in Nat
                    /\ purchases'[Events[n].order] \in Nat /\ Events[n].credits \in Nat
  BY DEF AddedTyped
<1>1. /\ n \in EventNumbers /\ purchases'[Events[n].order] \in Nat /\ Events[n].credits \in Nat
  BY WebhookAssumption DEF CreditEvents, Orders, TInv, HInv, TablesTyped
<1> DEFINE p == purchases'[Events[n].order]
           x == Events[n].credits
           m == Cardinality(Carrying(n, steps)')
<1>2. Added(n, steps)' = p * x + x * m
  BY DEF Added, Logged, InFlight, Carrying
<1>3. p \in Nat /\ x \in Nat /\ m \in Nat
  BY <1>1, CountedNext
<1> HIDE DEF p, x, m
<1> QED
  BY <1>1, <1>2, <1>3, Products

\* When no event but k adds less than before, what the events of a user added changes by
\* no less than k does.
LEMMA LoggedChanges ==
  ASSUME TInv, TInv', NEW u \in Users, NEW steps, NEW k, NEW d \in Nat, NEW e \in Nat,
         \A n \in CreditEvents : n # k => Added(n, steps) <= Added(n, steps)',
         k \in CreditEventsOf(u) => Added(k, steps) + d <= Added(k, steps)' + e
  PROVE  /\ LoggedBy(u, steps) \in Nat /\ LoggedBy(u, steps)' \in Nat
         /\ k \notin CreditEventsOf(u) => LoggedBy(u, steps) <= LoggedBy(u, steps)'
         /\ k \in CreditEventsOf(u) => LoggedBy(u, steps) + d <= LoggedBy(u, steps)' + e
<1> DEFINE S == CreditEventsOf(u)
           F == [n \in S |-> Added(n, steps)]
           G == [n \in S |-> Added(n, steps)']
<1>1. IsFiniteSet(S) /\ S \subseteq CreditEvents
  BY EventsOfAreFew
<1>2. LoggedBy(u, steps) = Sum(F, S) /\ LoggedBy(u, steps)' = Sum(G, S)
  BY DEF LoggedBy, SumFunction, Sum
<1>3. \A n \in S : F[n] \in Nat /\ G[n] \in Nat /\ (n # k => F[n] <= G[n])
  BY <1>1, AddedIsNatural, AddedIsNaturalNext DEF AddedTyped
<1>4. k \in S => F[k] + d <= G[k] + e
  OBVIOUS
<1> HIDE DEF F, G, S
<1>5. /\ Sum(F, S) \in Nat /\ Sum(G, S) \in Nat
      /\ k \notin S => Sum(F, S) <= Sum(G, S)
      /\ k \in S => Sum(F, S) + d <= Sum(G, S) + e
  BY <1>1, <1>3, <1>4, SumChanges
<1> QED
  BY <1>2, <1>5 DEF S

\* What the requests that were cut short may have left is a natural number.
LEMMA LeftOver ==
  ASSUME NEW f \in Nat
  PROVE  /\ f * LargestPackage \in Nat
         /\ (f + 1) * LargestPackage = f * LargestPackage + LargestPackage
<1> DEFINE l == LargestPackage
<1>1. l \in Nat
  BY LargestPackageIsLargest
<1> HIDE DEF l
<1>2. f * l \in Nat /\ (f + 1) * l = f * l + l
  BY <1>1, Products
<1> QED
  BY <1>2 DEF l

\* What a user was given is the sum of three natural numbers.
LEMMA EarnedIsSum ==
  ASSUME TInv, NEW u \in Users, NEW steps
  PROVE  /\ free[u] \in Nat /\ failures * LargestPackage \in Nat
         /\ Earned(u, steps) = (free[u] + failures * LargestPackage) + LoggedBy(u, steps)
BY LeftOver DEF Earned, LoggedBy, Added, TInv, UsageTyped, HInv, ProviderTyped

\* It is after a step, too.
LEMMA EarnedIsSumNext ==
  ASSUME TInv', NEW u \in Users, NEW steps
  PROVE  /\ free'[u] \in Nat /\ failures' * LargestPackage \in Nat
         /\ Earned(u, steps)' = (free'[u] + failures' * LargestPackage) + LoggedBy(u, steps)'
<1>1. /\ free'[u] \in Nat /\ failures' \in Nat
  BY DEF TInv, UsageTyped, HInv, ProviderTyped
<1>2. PICK f \in Nat : f = failures'
  BY <1>1
<1>3. f * LargestPackage \in Nat
  BY LeftOver
<1> QED
  BY <1>1, <1>2, <1>3 DEF Earned, LoggedBy, Added

\* When no event adds less than before, event k adds d more and g free credits are
\* granted, so it is of what its user was given.
LEMMA EarnedGrows ==
  ASSUME TInv, TInv', failures' = failures, NEW u \in Users, NEW steps, NEW k,
         NEW d \in Nat, NEW g \in Nat, free'[u] = free[u] + g,
         \A n \in CreditEvents : Added(n, steps) <= Added(n, steps)',
         k \in CreditEventsOf(u) => Added(k, steps) + d <= Added(k, steps)'
  PROVE  /\ Earned(u, steps) \in Nat /\ Earned(u, steps)' \in Nat
         /\ Earned(u, steps) + g <= Earned(u, steps)'
         /\ k \in CreditEventsOf(u) => (Earned(u, steps) + g) + d <= Earned(u, steps)'
<1> DEFINE l == failures * LargestPackage
           f == free[u]
           a == LoggedBy(u, steps)
           b == LoggedBy(u, steps)'
           x == Earned(u, steps)
           y == Earned(u, steps)'
<1>1. l \in Nat /\ f \in Nat /\ x = (f + l) + a /\ y = ((f + g) + l) + b
  BY EarnedIsSum, EarnedIsSumNext
<1>2. /\ a \in Nat /\ b \in Nat
      /\ k \notin CreditEventsOf(u) => a <= b
      /\ k \in CreditEventsOf(u) => a + d <= b
  <2>1. k \in CreditEventsOf(u) => Added(k, steps) + d <= Added(k, steps)' + 0
    BY AddedIsNaturalNext DEF AddedTyped, CreditEventsOf
  <2>2. /\ a \in Nat /\ b \in Nat
        /\ k \notin CreditEventsOf(u) => a <= b
        /\ k \in CreditEventsOf(u) => a + d <= b + 0
    BY <2>1, LoggedChanges
  <2> HIDE DEF a, b
  <2> QED
    BY <2>2
<1> HIDE DEF l, f, a, b, x, y
<1>3. /\ x \in Nat /\ y \in Nat /\ x + g <= y
      /\ k \in CreditEventsOf(u) => (x + g) + d <= y
  BY <1>1, <1>2
<1> QED
  BY <1>3 DEF x, y

\* The same without an event that adds more.
LEMMA EarnedStays ==
  ASSUME TInv, TInv', failures' = failures, free' = free,
         \A steps \in {MirrorSteps, BalanceSteps} :
           \A n \in CreditEvents : Added(n, steps) <= Added(n, steps)'
  PROVE  NobodyEarnsLess
<1> SUFFICES ASSUME NEW u \in Users, NEW steps \in {MirrorSteps, BalanceSteps}
             PROVE  /\ Earned(u, steps) \in Nat /\ Earned(u, steps)' \in Nat
                    /\ Earned(u, steps) <= Earned(u, steps)'
  BY DEF NobodyEarnsLess
<1>1. \A k \in CreditEventsOf(u) : Added(k, steps) + 0 <= Added(k, steps)'
  BY AddedIsNatural DEF CreditEventsOf, AddedTyped
<1>2. free'[u] = free[u] + 0
  BY DEF TInv, UsageTyped
<1>3. /\ Earned(u, steps) \in Nat /\ Earned(u, steps)' \in Nat
      /\ Earned(u, steps) + 0 <= Earned(u, steps)'
  BY <1>1, <1>2, EarnedGrows
<1> QED
  BY <1>3

\* What the balance was given is part of what the user was given.
LEMMA BalanceIsPart ==
  ASSUME TInv, NEW u \in Users
  PROVE  /\ Earned(u, BalanceSteps) \in Nat /\ Earned(u, MirrorSteps) \in Nat
         /\ Earned(u, BalanceSteps) <= Earned(u, MirrorSteps)
<1> DEFINE S == CreditEventsOf(u)
           F == [n \in S |-> Added(n, BalanceSteps)]
           G == [n \in S |-> Added(n, MirrorSteps)]
           k == CHOOSE k : k \notin S
<1>1. IsFiniteSet(S) /\ S \subseteq CreditEvents
  BY EventsOfAreFew
<1>2. LoggedBy(u, BalanceSteps) = Sum(F, S) /\ LoggedBy(u, MirrorSteps) = Sum(G, S)
  BY DEF LoggedBy, SumFunction, Sum
<1>3. ASSUME NEW n \in CreditEvents
      PROVE  Added(n, BalanceSteps) <= Added(n, MirrorSteps)
  <2> DEFINE p == purchases[Events[n].order] * Events[n].credits
             z == Events[n].credits
             a == Cardinality(Carrying(n, BalanceSteps))
             b == Cardinality(Carrying(n, MirrorSteps))
  <2>1. Added(n, BalanceSteps) = p + z * a /\ Added(n, MirrorSteps) = p + z * b
    BY DEF Added, Logged, InFlight, Carrying
  <2>2. p \in Nat /\ z \in Nat /\ a \in Nat /\ b \in Nat
    <3>1. purchases[Events[n].order] \in Nat /\ z \in Nat
      BY AddedIsNatural DEF AddedTyped
    <3> QED
      BY <3>1, Counted, Products
  <2>3. a <= b
    <3>1. Carrying(n, BalanceSteps) \subseteq Carrying(n, MirrorSteps)
      BY DEF Carrying, BalanceSteps, MirrorSteps
    <3> QED
      BY <3>1, Counted, FS_Subset
  <2> HIDE DEF p, z, a, b
  <2>4. z * a <= z * b /\ z * a \in Nat /\ z * b \in Nat
    BY <2>2, <2>3, LargerProducts
  <2> DEFINE s == z * a
             t == z * b
  <2>5. p + s <= p + t
    <3>1. s \in Nat /\ t \in Nat /\ s <= t
      BY <2>4
    <3> HIDE DEF s, t
    <3> QED
      BY <2>2, <3>1
  <2> QED
    BY <2>1, <2>5
<1>4. \A n \in S : F[n] \in Nat /\ G[n] \in Nat /\ (n # k => F[n] <= G[n])
  BY <1>1, <1>3, AddedIsNatural DEF AddedTyped
<1>5. (k \in S => F[k] + 0 <= G[k] + 0) /\ 0 \in Nat
  <2>1. \A n \in S : F[n] \in Nat /\ G[n] \in Nat /\ F[n] <= G[n]
    BY <1>1, <1>3, AddedIsNatural DEF AddedTyped
  <2> HIDE DEF F, G, k, S
  <2> QED
    BY <2>1
<1> DEFINE a == Sum(F, S)
           b == Sum(G, S)
<1>6. a \in Nat /\ b \in Nat /\ a <= b
  <2> HIDE DEF F, G, S, k
  <2>1. /\ Sum(F, S) \in Nat /\ Sum(G, S) \in Nat
        /\ k \notin S => Sum(F, S) <= Sum(G, S)
        /\ k \in S => Sum(F, S) + 0 <= Sum(G, S) + 0
    BY <1>1, <1>4, <1>5, SumChanges
  <2> QED
    BY <2>1
<1> DEFINE l == free[u] + failures * LargestPackage
<1>7. l \in Nat /\ Earned(u, BalanceSteps) = l + a /\ Earned(u, MirrorSteps) = l + b
  <2>1. free[u] + failures * LargestPackage \in Nat
    BY EarnedIsSum
  <2> QED
    BY <2>1, <1>2, EarnedIsSum
<1> HIDE DEF l, a, b
<1> QED
  BY <1>6, <1>7

\* What a user was given is a natural number.
LEMMA EarnedIsNatural ==
  ASSUME NobodyEarnsLess, NEW u \in Users
  PROVE  /\ Earned(u, MirrorSteps) \in Nat /\ Earned(u, MirrorSteps)' \in Nat
         /\ Earned(u, MirrorSteps) <= Earned(u, MirrorSteps)'
         /\ Earned(u, BalanceSteps) \in Nat /\ Earned(u, BalanceSteps)' \in Nat
         /\ Earned(u, BalanceSteps) <= Earned(u, BalanceSteps)'
BY DEF NobodyEarnsLess

\* A row that is not written, what a handler or a usage keeps, and a balance that does
\* not grow stay within what their user was given.
LEMMA RowStays ==
  ASSUME TInv, NobodyEarnsLess, NEW c \in DOMAIN customers, RowFits(c),
         customers'[c] = customers[c]
  PROVE  RowFits(c)'
<1>1. PICK u \in Users : u = customers[c].user
  BY DEF TInv, HInv, TablesTyped
<1>2. PICK x \in Nat : x = customers[c].credits
  BY DEF TInv, HInv, TablesTyped
<1>3. x <= Earned(u, MirrorSteps)'
  <2>1. x <= Earned(u, MirrorSteps)
    BY <1>1, <1>2 DEF RowFits
  <2> QED
    BY <2>1, EarnedIsNatural
<1>4. customers'[c].user = u /\ customers'[c].credits = x
  BY <1>1, <1>2
<1> QED
  BY <1>3, <1>4 DEF RowFits

LocalStays(h) == pc[h] = "setCredits" /\ local'[h] = local[h]

\* See above.
LEMMA ReadStays ==
  ASSUME TInv, NobodyEarnsLess, NEW h \in Handlers, ReadFits(h), LocalStays(h)
  PROVE  ReadFits(h)'
<1>1. PICK u \in Users : u = local[h].user
  BY DEF LocalStays, TInv, HInv, HandlersTyped, HandlerTyped
<1>2. PICK x \in Nat : x = local[h].credits
  BY DEF TInv, HInv, HandlersTyped, Locals
<1>3. x <= Earned(u, MirrorSteps)'
  <2>1. x <= Earned(u, MirrorSteps)
    BY <1>1, <1>2 DEF ReadFits, LocalStays
  <2> QED
    BY <2>1, EarnedIsNatural
<1>4. local'[h].user = u /\ local'[h].credits = x
  BY <1>1, <1>2 DEF LocalStays
<1> QED
  BY <1>3, <1>4 DEF ReadFits

UseStays(r) ==
  /\ use[r].step \in {"charge", "mirror"}
  /\ use'[r].user = use[r].user /\ use'[r].left = use[r].left

\* See above.
LEMMA LeftStays ==
  ASSUME TInv, NobodyEarnsLess, NEW r \in Uses, UseFits(r), UseStays(r)
  PROVE  UseFits(r)'
<1>1. PICK u \in Users : u = use[r].user
  BY DEF UseFits, UseStays
<1>2. PICK x \in Nat : x = use[r].left
  BY DEF TInv, UsageTyped, UseValues
<1>3. x <= Earned(u, MirrorSteps)'
  <2>1. x <= Earned(u, MirrorSteps)
    BY <1>1, <1>2 DEF UseFits, UseStays
  <2> QED
    BY <2>1, EarnedIsNatural
<1>4. use'[r].user = u /\ use'[r].left = x
  BY <1>1, <1>2 DEF UseStays
<1> QED
  BY <1>3, <1>4 DEF UseFits

\* See above.
LEMMA BalanceStays ==
  ASSUME TInv, TInv', NobodyEarnsLess, NEW u \in Users, BalanceFits(u), balance'[u] <= balance[u]
  PROVE  BalanceFits(u)'
<1>1. balance[u] \in Int /\ balance'[u] \in Int
  BY DEF TInv, HInv, TablesTyped
<1> QED
  BY <1>1, EarnedIsNatural DEF BalanceFits

\* So the invariant is kept when all that is written fits.
LEMMA WrittenFits ==
  ASSUME TInv, TInv', Mirrored, NobodyEarnsLess,
         \A c \in DOMAIN customers' :
           (c \in DOMAIN customers /\ customers'[c] = customers[c]) \/ RowFits(c)',
         \A u \in Users : balance'[u] <= balance[u] \/ BalanceFits(u)',
         \A h \in Handlers : pc'[h] = "setCredits" => LocalStays(h) \/ ReadFits(h)',
         \A r \in Uses : use'[r].step \in {"charge", "mirror"} => UseStays(r) \/ UseFits(r)'
  PROVE  Mirrored'
<1>1. \A c \in DOMAIN customers' : RowFits(c)'
  BY RowStays DEF Mirrored
<1>2. \A u \in Users : BalanceFits(u)'
  BY BalanceStays DEF Mirrored
<1>3. \A h \in Handlers : ReadFits(h)'
  <2>1. ASSUME NEW h \in Handlers
        PROVE  ReadFits(h)'
    <3>1. CASE pc'[h] = "setCredits"
      BY <3>1, ReadStays DEF Mirrored
    <3>2. CASE pc'[h] # "setCredits"
      BY <3>2 DEF ReadFits
    <3> QED
      BY <3>1, <3>2
  <2> QED
    BY <2>1
<1>4. \A r \in Uses : UseFits(r)'
  <2>1. ASSUME NEW r \in Uses
        PROVE  UseFits(r)'
    <3>1. CASE use'[r].step \in {"charge", "mirror"}
      BY <3>1, LeftStays DEF Mirrored
    <3>2. CASE use'[r].step \notin {"charge", "mirror"}
      BY <3>2 DEF UseFits
    <3> QED
      BY <3>1, <3>2
  <2> QED
    BY <2>1
<1> QED
  BY <1>1, <1>2, <1>3, <1>4 DEF Mirrored

\* Tables, handlers and usages that are not touched have nothing written.
LEMMA UntouchedFits ==
  ASSUME TInv, TInv'
  PROVE  /\ customers' = customers => \A c \in DOMAIN customers' : c \in DOMAIN customers
         /\ balance' = balance => \A u \in Users : balance'[u] <= balance[u]
         /\ use' = use => \A r \in Uses :
              use'[r].step \in {"charge", "mirror"} => UseStays(r)
         /\ pc' = pc /\ local' = local => \A h \in Handlers :
              pc'[h] = "setCredits" => LocalStays(h)
<1>1. \A u \in Users : balance[u] \in Int
  BY DEF TInv, HInv, TablesTyped
<1> QED
  BY <1>1 DEF UseStays, LocalStays

\* A handler moves, nothing is written to customers or to a balance.
LEMMA HandlerMoves ==
  ASSUME TInv, TInv', Mirrored, NEW h \in Handlers, UNCHANGED <<customers, balance, use>>,
         pc'[h] = "setCredits" => ReadFits(h)', NobodyEarnsLess,
         \A g \in Handlers : g # h => pc'[g] = pc[g] /\ local'[g] = local[g]
  PROVE  Mirrored'
<1>1. \A g \in Handlers : pc'[g] = "setCredits" => LocalStays(g) \/ ReadFits(g)'
  <2>1. ASSUME NEW g \in Handlers, pc'[g] = "setCredits"
        PROVE  LocalStays(g) \/ ReadFits(g)'
    <3>1. CASE g = h
      BY <2>1, <3>1
    <3>2. CASE g # h
      BY <2>1, <3>2 DEF LocalStays
    <3> QED
      BY <3>1, <3>2
  <2> QED
    BY <2>1
<1> QED
  BY <1>1, UntouchedFits, WrittenFits

\* A step that neither enters nor leaves the flight of an event adds nothing.
LEMMA NothingAdded ==
  ASSUME TInv, NEW h \in Handlers, purchases' = purchases, NEW steps,
         \A g \in Handlers : g # h => pc'[g] = pc[g] /\ msg'[g] = msg[g],
         \/ pc[h] \notin steps /\ pc'[h] \notin steps
         \/ pc[h] \in steps /\ pc'[h] \in steps /\ msg' = msg
  PROVE  \A n \in CreditEvents : Added(n, steps)' = Added(n, steps)
<1> SUFFICES ASSUME NEW n \in CreditEvents
             PROVE  Added(n, steps)' = Added(n, steps)
  OBVIOUS
<1>1. Carrying(n, steps)' = Carrying(n, steps)
  BY DEF Carrying
<1> QED
  BY <1>1 DEF Added, Logged, InFlight, Carrying

\* Neither does one of a handler outside these steps.
LEMMA OutsideAddsNothing ==
  ASSUME TInv, TInv', NEW h \in Handlers, UNCHANGED <<purchases, failures, free>>,
         pc[h] \notin MirrorSteps, pc'[h] \notin MirrorSteps,
         \A g \in Handlers : g # h => pc'[g] = pc[g] /\ msg'[g] = msg[g]
  PROVE  NobodyEarnsLess
<1>1. ASSUME NEW steps \in {MirrorSteps, BalanceSteps}, NEW n \in CreditEvents
      PROVE  Added(n, steps) <= Added(n, steps)'
  <2>1. pc[h] \notin steps /\ pc'[h] \notin steps
    BY DEF MirrorSteps, BalanceSteps
  <2>2. Added(n, steps)' = Added(n, steps)
    BY <2>1, NothingAdded
  <2> QED
    BY <2>2, AddedIsNatural DEF AddedTyped
<1> QED
  BY <1>1, EarnedStays

\* A handler that enters these steps adds the credits of its event.
LEMMA EnteringAdds ==
  ASSUME TInv, NEW h \in Handlers, UNCHANGED <<purchases, msg>>, NEW steps,
         pc[h] # "idle", pc[h] \notin steps, pc'[h] \in steps,
         \A g \in Handlers : g # h => pc'[g] = pc[g]
  PROVE  \A n \in CreditEvents :
           Added(n, steps)' = IF n = msg[h].event THEN Added(n, steps) + Event(h).credits
                                                  ELSE Added(n, steps)
<1> DEFINE k == msg[h].event
           d == Event(h).credits
<1> SUFFICES ASSUME NEW n \in CreditEvents
             PROVE  Added(n, steps)' = IF n = k THEN Added(n, steps) + d ELSE Added(n, steps)
  OBVIOUS
<1> DEFINE p == purchases[Events[n].order]
           y == Events[n].credits
           m == Cardinality(Carrying(n, steps))
           m2 == Cardinality(Carrying(n, steps)')
<1>1. Added(n, steps) = p * y + y * m /\ Added(n, steps)' = p * y + y * m2
  BY DEF Added, Logged, InFlight, Carrying
<1>2. p \in Nat /\ y \in Nat /\ m \in Nat /\ m2 \in Nat
  BY Counted, CountedNext, AddedIsNatural DEF AddedTyped
<1>3. d = Events[k].credits
  BY EventOf
<1>4. CASE n = k
  <2>1. Carrying(n, steps)' = Carrying(n, steps) \cup {h} /\ h \notin Carrying(n, steps)
    BY <1>4 DEF Carrying
  <2>2. m2 = m + 1
    BY <2>1, Counted, FS_AddElement
  <2>3. y = d /\ d \in Nat
    BY <1>2, <1>3, <1>4
  <2> HIDE DEF p, y, m, m2, d
  <2>4. y * m2 = y * m + y /\ y * m \in Nat /\ p * y \in Nat
    <3>1. y * m2 = m2 * y /\ y * m = m * y /\ m * y \in Nat /\ p * y \in Nat
      BY <1>2, Products
    <3>2. m2 * y = m * y + y
      BY <1>2, <2>2, Products
    <3> QED
      BY <3>1, <3>2
  <2> DEFINE a == p * y
             b == y * m
             b2 == y * m2
  <2>5. a \in Nat /\ b \in Nat /\ b2 = b + d
        /\ Added(n, steps) = a + b /\ Added(n, steps)' = a + b2
    BY <1>1, <2>3, <2>4
  <2> HIDE DEF a, b, b2
  <2>6. Added(n, steps)' = Added(n, steps) + d
    BY <2>3, <2>5
  <2> QED
    BY <1>4, <2>6
<1>5. CASE n # k
  <2>1. Carrying(n, steps)' = Carrying(n, steps)
    BY <1>5 DEF Carrying
  <2> QED
    BY <1>1, <1>5, <2>1
<1> QED
  BY <1>4, <1>5

\* A request that is cut short takes no more than one package from what is in flight.
LEMMA FailAddsAPackage ==
  ASSUME TInv, TInv', NEW h \in Handlers, Fail(h)
  PROVE  NobodyEarnsLess
<1> DEFINE k == msg[h].event
           y == Events[k].credits
<1> SUFFICES ASSUME NEW u \in Users, NEW steps \in {MirrorSteps, BalanceSteps}
             PROVE  /\ Earned(u, steps) \in Nat /\ Earned(u, steps)' \in Nat
                    /\ Earned(u, steps) <= Earned(u, steps)'
  BY DEF NobodyEarnsLess
<1>1. /\ purchases' = purchases /\ failures' = failures + 1 /\ pc'[h] = "idle" /\ pc[h] # "idle"
      /\ \A g \in Handlers : g # h => pc'[g] = pc[g] /\ msg'[g] = msg[g]
  BY DEF Fail, Leave, Quit, tables, TInv, HInv, HandlersTyped
<1>2. k \in EventNumbers /\ y \in Nat /\ y <= LargestPackage /\ LargestPackage \in Nat
  BY <1>1, EventOf, LargestPackageIsLargest, WebhookAssumption
<1>3. ASSUME NEW n \in CreditEvents
      PROVE  IF n = k THEN Added(n, steps) <= Added(n, steps)' + y ELSE Added(n,
             steps) <= Added(n, steps)'
  <2> DEFINE p == purchases[Events[n].order] * Events[n].credits
             m == Cardinality(Carrying(n, steps))
             m2 == Cardinality(Carrying(n, steps)')
             z == Events[n].credits
  <2>1. Added(n, steps) = p + z * m /\ Added(n, steps)' = p + z * m2
    BY <1>1 DEF Added, Logged, InFlight, Carrying
  <2>2. p \in Nat /\ z \in Nat /\ m \in Nat /\ m2 \in Nat
    <3>1. purchases[Events[n].order] \in Nat /\ z \in Nat
      BY AddedIsNatural DEF AddedTyped
    <3> QED
      BY <3>1, Counted, CountedNext, Products
  <2>3. m2 = m \/ (n = k /\ m = m2 + 1)
    <3>1. CASE h \in Carrying(n, steps)
      <4>1. Carrying(n, steps)' = Carrying(n, steps) \ {h} /\ n = k
        BY <1>1, <3>1 DEF Carrying, MirrorSteps, BalanceSteps
      <4>2. m2 = m - 1
        <5>1. PICK S : S = Carrying(n, steps)
          OBVIOUS
        <5>2. IsFiniteSet(S) /\ h \in S
          BY <3>1, <5>1, Counted
        <5>3. Cardinality(S \ {h}) = Cardinality(S) - 1
          BY <5>2, FS_RemoveElement
        <5> QED
          BY <4>1, <5>1, <5>3
      <4>3. \A a, b \in Nat : b = a - 1 => a = b + 1
        OBVIOUS
      <4> HIDE DEF m, m2
      <4> QED
        BY <2>2, <4>1, <4>2, <4>3
    <3>2. CASE h \notin Carrying(n, steps)
      <4>1. Carrying(n, steps)' = Carrying(n, steps)
        BY <1>1, <3>2 DEF Carrying, MirrorSteps, BalanceSteps
      <4> QED
        BY <4>1
    <3> QED
      BY <3>1, <3>2
  <2>4. n = k => z = y
    OBVIOUS
  <2> HIDE DEF p, z, m, m2, k, y
  <2> DEFINE b == z * m
             b2 == z * m2
  <2>5. b \in Nat /\ b2 \in Nat /\ (m2 = m => b2 = b) /\ (m = m2 + 1 => b = b2 + z)
    <3>1. z * m = m * z /\ z * m2 = m2 * z /\ m * z \in Nat /\ m2 * z \in Nat
      BY <2>2, Products
    <3>2. m = m2 + 1 => m * z = m2 * z + z
      BY <2>2, Products
    <3> QED
      BY <3>1, <3>2
  <2>6. Added(n, steps) = p + b /\ Added(n, steps)' = p + b2
    BY <2>1
  <2> HIDE DEF b, b2
  <2>7. CASE m2 = m
    BY <1>2, <2>2, <2>5, <2>6, <2>7
  <2>8. CASE n = k /\ m = m2 + 1
    BY <1>2, <2>2, <2>4, <2>5, <2>6, <2>8
  <2> QED
    BY <2>3, <2>7, <2>8
<1>4. PICK kk, n : kk = k /\ n = y
  OBVIOUS
<1>5. \A i \in CreditEvents : i # kk => Added(i, steps) <= Added(i, steps)'
  BY <1>3, <1>4
<1>6. kk \in CreditEventsOf(u) => Added(kk, steps) + 0 <= Added(kk, steps)' + n
  <2>1. ASSUME NEW i \in CreditEvents, i = kk
        PROVE  Added(i, steps) + 0 <= Added(i, steps)' + n
    BY <1>3, <1>4, <2>1, AddedIsNatural DEF AddedTyped
  <2> QED
    BY <2>1 DEF CreditEventsOf
<1> DEFINE l == failures * LargestPackage
           f == free[u]
           a == LoggedBy(u, steps)
           b == LoggedBy(u, steps)'
<1>7. /\ l \in Nat /\ f \in Nat
      /\ Earned(u, steps) = (f + l) + a /\ Earned(u, steps)' = (f + (l + LargestPackage)) + b
  <2>1. failures \in Nat /\ free' = free
    BY StepIsQuiet DEF Step, Quiet, usage, TInv, HInv, ProviderTyped
  <2>2. failures' * LargestPackage = l + LargestPackage
    <3>1. PICK j \in Nat : j = failures
      BY <2>1
    <3>2. (j + 1) * LargestPackage = j * LargestPackage + LargestPackage
      BY LeftOver
    <3> QED
      BY <1>1, <3>1, <3>2
  <2>3. free'[u] = f
    BY <2>1
  <2> QED
    BY <2>2, <2>3, EarnedIsSum, EarnedIsSumNext
<1>8. n \in Nat /\ n <= LargestPackage
  BY <1>2, <1>4
<1>9. /\ a \in Nat /\ b \in Nat
      /\ kk \notin CreditEventsOf(u) => a <= b
      /\ kk \in CreditEventsOf(u) => a + 0 <= b + n
  BY <1>5, <1>6, <1>8, LoggedChanges
<1> HIDE DEF l, f, a, b, y, k
<1> QED
  BY <1>2, <1>7, <1>8, <1>9

\* The PURCHASE row takes the place of what was in flight.
LEMMA LogPurchaseMirrored ==
  ASSUME TInv, TInv', Mirrored, NEW h \in Handlers, LogPurchase(h)
  PROVE  Mirrored'
<1> DEFINE k == msg[h].event
           o == Event(h).order
<1>1. /\ pc[h] = "logPurchase" /\ pc'[h] = "insertHistory"
      /\ UNCHANGED <<customers, balance, msg, local, failures, use, free>>
      /\ purchases' = [purchases EXCEPT ![o] = purchases[o] + 1]
      /\ \A g \in Handlers : g # h => pc'[g] = pc[g]
  BY DEF LogPurchase, Goto, usage, TInv, HInv, HandlersTyped
<1>2. /\ o = Events[k].order /\ o \in Orders /\ \A y \in Orders : purchases[y] \in Nat
      /\ purchases'[o] = purchases[o] + 1 /\ \A y \in Orders : y # o => purchases'[y] = purchases[y]
  BY <1>1, EventOf DEF TInv, HInv, TablesTyped
<1>3. ASSUME NEW steps \in {MirrorSteps, BalanceSteps}, NEW n \in CreditEvents
      PROVE  Added(n, steps) <= Added(n, steps)'
  <2> DEFINE p == purchases[Events[n].order]
             p2 == purchases'[Events[n].order]
             y == Events[n].credits
             m == Cardinality(Carrying(n, steps))
             m2 == Cardinality(Carrying(n, steps)')
  <2>1. Added(n, steps) = p * y + y * m /\ Added(n, steps)' = p2 * y + y * m2
    BY DEF Added, Logged, InFlight, Carrying
  <2>2. p \in Nat /\ p2 \in Nat /\ y \in Nat /\ m \in Nat /\ m2 \in Nat
    BY Counted, CountedNext, AddedIsNatural, AddedIsNaturalNext DEF AddedTyped
  <2>3. Events[n].order \in Orders
    BY DEF CreditEvents, Orders
  <2>4. (p2 = p /\ m2 = m) \/ (p2 = p + 1 /\ m2 = m) \/ (p2 = p + 1 /\ m = m2 + 1)
    <3>1. CASE n # k
      <4>1. Carrying(n, steps)' = Carrying(n, steps)
        BY <1>1, <3>1 DEF Carrying
      <4> QED
        BY <1>2, <2>3, <4>1
    <3>2. CASE n = k
      <4>1. Carrying(n, steps)' = Carrying(n, steps) \ {h} /\ h \in Carrying(n, steps)
        BY <1>1, <3>2 DEF Carrying, MirrorSteps, BalanceSteps
      <4>2. m2 = m - 1
        BY <4>1, Counted, FS_RemoveElement
      <4>3. p2 = p + 1
        BY <1>2, <3>2
      <4> HIDE DEF m, m2, p, p2
      <4> QED
        BY <2>2, <4>2, <4>3
    <3> QED
      BY <3>1, <3>2
  <2> HIDE DEF p, p2, y, m, m2
  <2> DEFINE a == p * y
             a2 == p2 * y
             b == y * m
             b2 == y * m2
  <2>5. a \in Nat /\ a2 \in Nat /\ b \in Nat /\ b2 \in Nat /\ b = m * y /\ b2 = m2 * y
    BY <2>2, Products
  <2>6. p2 = p + 1 => a2 = a + y
    BY <2>2, Products
  <2>7. m = m2 + 1 => b = b2 + y
    BY <2>2, <2>5, Products
  <2>8. (p2 = p => a2 = a) /\ (m2 = m => b2 = b)
    OBVIOUS
  <2>9. Added(n, steps) = a + b /\ Added(n, steps)' = a2 + b2
    BY <2>1
  <2> HIDE DEF a, a2, b, b2
  <2> QED
    BY <2>2, <2>4, <2>5, <2>6, <2>7, <2>8, <2>9
<1>4. NobodyEarnsLess
  BY <1>1, <1>3, EarnedStays
<1> QED
  BY <1>1, <1>4, HandlerMoves

\* The handler takes up a delivery, goes on outside addCreditsToCustomer, or leaves.
LEMMA OutsideMirrored ==
  ASSUME TInv, TInv', Mirrored, NEW h \in Handlers, UNCHANGED <<tables, failures, usage>>,
         pc[h] \notin MirrorSteps, pc'[h] \notin MirrorSteps, pc'[h] # "setCredits",
         \A g \in Handlers : g # h => pc'[g] = pc[g] /\ msg'[g] = msg[g] /\ local'[g] = local[g]
  PROVE  Mirrored'
<1>1. UNCHANGED <<customers, balance, purchases, use, free>>
  BY DEF tables, usage
<1>2. NobodyEarnsLess
  BY <1>1, OutsideAddsNothing
<1> QED
  BY <1>1, <1>2, HandlerMoves

\* A handler writes what is neither customers.credits, nor a balance, nor a PURCHASE row.
LEMMA ElsewhereMirrored ==
  ASSUME TInv, TInv', Mirrored, NEW h \in Handlers,
         LookupCustomer(h) \/ FindOrder(h) \/ FindSubscription(h) \/ WriteSubscription(h)
           \/ InsertHistory(h) \/ Respond(h) \/ (UpsertCustomer(h) /\ Throw(h))
  PROVE  Mirrored'
<1>1. UNCHANGED <<customers, balance, purchases, failures, use, free>>
  BY StepIsQuiet DEF Step, Quiet, usage, tables, TInv, HInv, LookupCustomer, FindOrder, Throw,
     FindSubscription, WriteSubscription, InsertHistory, Respond, UpsertCustomer
<1>2. \A g \in Handlers : g # h => pc'[g] = pc[g] /\ msg'[g] = msg[g] /\ local'[g] = local[g]
  BY StepIsQuiet DEF Step, Quiet, TInv, HInv
<1>3. /\ pc[h] \notin MirrorSteps
      /\ pc'[h] \in {"idle", "respond", "findSubscription", "readCustomer", "writeSubscription"}
  BY DEF LookupCustomer, FindOrder, Throw, FindSubscription, WriteSubscription, InsertHistory,
     Respond, UpsertCustomer, Goto, Leave, Quit, MirrorSteps, TInv, HInv, HandlersTyped
<1>4. pc'[h] \notin MirrorSteps /\ pc'[h] # "setCredits"
  BY <1>3 DEF MirrorSteps
<1>5. NobodyEarnsLess
  BY <1>1, <1>2, <1>3, <1>4, OutsideAddsNothing
<1> QED
  BY <1>1, <1>2, <1>4, <1>5, HandlerMoves

\* createOrUpdateCustomer: a new row has no credits, an old one keeps its own and its user.
LEMMA UpsertMirrored ==
  ASSUME CInv, TInv', Mirrored, NEW h \in Handlers, UpsertCustomer(h), ~Throw(h)
  PROVE  Mirrored'
<1> DEFINE k == Event(h).customer
           u == Event(h).user
           kept == IF k \in DOMAIN customers THEN customers[k].credits ELSE 0
<1>1. /\ pc[h] = "upsert" /\ UNCHANGED <<purchases, msg, failures, balance>>
      /\ customers' = Extend(customers, k, [user |-> u, credits |-> kept])
      /\ pc'[h] \in {"respond", "findOrder", "findSubscription"}
      /\ \A g \in Handlers : g # h => pc'[g] = pc[g] /\ local'[g] = local[g]
  BY DEF UpsertCustomer, Goto, AfterCustomer, CInv, TInv, HInv, HandlersTyped
<1>2. TInv /\ UNCHANGED <<use, free>>
  BY <1>1, StepIsQuiet DEF Step, Quiet, usage, CInv, TInv, HInv
<1>3. pc[h] \notin MirrorSteps /\ pc'[h] \notin MirrorSteps /\ pc'[h] # "setCredits"
  BY <1>1 DEF MirrorSteps
<1>4. NobodyEarnsLess
  BY <1>1, <1>2, <1>3, OutsideAddsNothing
<1>5. u \in Users /\ (k \in DOMAIN customers => customers[k].user = u)
  <2>1. FirstStep(Event(h)) = "upsert"
    BY <1>1 DEF CInv, TInv, HInv, HandlersTyped, HandlerTyped
  <2> QED
    BY <1>1, <1>2, <2>1, EventOf DEF CInv, CustomersFit
<1>6. ASSUME NEW c \in DOMAIN customers'
      PROVE  (c \in DOMAIN customers /\ customers'[c] = customers[c]) \/ RowFits(c)'
  <2>1. CASE c \in DOMAIN customers
    <3>1. customers[c] \in [user: Users, credits: Nat]
      BY <1>2, <2>1 DEF TInv, HInv, TablesTyped
    <3>2. c = k => customers'[c] = customers[c]
      BY <1>1, <1>5, <2>1, <3>1 DEF Extend
    <3>3. c # k => customers'[c] = customers[c]
      BY <1>1, <2>1 DEF Extend
    <3> QED
      BY <2>1, <3>2, <3>3
  <2>2. CASE c \notin DOMAIN customers
    <3>1. customers'[c].user = u /\ customers'[c].credits = 0
      BY <1>1, <2>2 DEF Extend
    <3>2. PICK v \in Users : v = u
      BY <1>5
    <3>3. 0 <= Earned(v, MirrorSteps)'
      BY <1>4, EarnedIsNatural
    <3>4. customers'[c].user = v
      BY <3>1, <3>2
    <3> QED
      BY <3>1, <3>3, <3>4 DEF RowFits
  <2> QED
    BY <2>1, <2>2
<1>7. \A g \in Handlers : pc'[g] = "setCredits" => LocalStays(g)
  BY <1>1, <1>3 DEF LocalStays
<1> QED
  BY <1>1, <1>2, <1>4, <1>6, <1>7, UntouchedFits, WrittenFits

\* What is read is no more than what the user of the row was given.
LEMMA ReadCustomerMirrored ==
  ASSUME CInv, TInv', Mirrored, NEW h \in Handlers, ReadCustomer(h)
  PROVE  Mirrored'
<1> DEFINE x == local[h].customer
<1>1. /\ pc[h] = "readCustomer" /\ UNCHANGED <<tables, msg, failures, usage>>
      /\ pc'[h] = "setCredits"
      /\ local'[h].credits = customers[x].credits /\ local'[h].user = customers[x].user
      /\ \A g \in Handlers : g # h => pc'[g] = pc[g] /\ local'[g] = local[g]
  BY DEF ReadCustomer, Goto, CInv, TInv, HInv, HandlersTyped, Locals
<1>2. TInv /\ UNCHANGED <<customers, balance, purchases, use, free>>
  BY <1>1 DEF tables, usage, CInv
<1>3. NobodyEarnsLess
  <2>1. pc[h] \notin MirrorSteps /\ pc'[h] \notin MirrorSteps
    BY <1>1 DEF MirrorSteps
  <2> QED
    BY <1>1, <1>2, <2>1, OutsideAddsNothing
<1>4. PICK c \in DOMAIN customers : c = x
  BY <1>1, <1>2 DEF TInv, HInv, HandlersTyped, HandlerTyped
<1>5. PICK u \in Users : u = customers[c].user
  BY <1>2 DEF TInv, HInv, TablesTyped
<1>6. PICK n \in Nat : n = customers[c].credits
  BY <1>2 DEF TInv, HInv, TablesTyped
<1>7. n <= Earned(u, MirrorSteps)'
  <2>1. n <= Earned(u, MirrorSteps)
    BY <1>5, <1>6 DEF Mirrored, RowFits
  <2> QED
    BY <1>3, <2>1, EarnedIsNatural
<1>8. local'[h].user = u /\ local'[h].credits = n
  BY <1>1, <1>4, <1>5, <1>6
<1>9. ReadFits(h)'
  BY <1>7, <1>8 DEF ReadFits
<1> QED
  BY <1>1, <1>2, <1>3, <1>9, HandlerMoves

\* What is written is at most what the user was given, with the credits that are now in flight.
LEMMA SetCreditsMirrored ==
  ASSUME CInv, TInv', Mirrored, NEW h \in Handlers, SetCredits(h)
  PROVE  Mirrored'
<1> DEFINE x == local[h].customer
           k == msg[h].event
           new == MirrorAfter(h)
<1>1. /\ pc[h] = "setCredits" /\ pc'[h] = "addBalance"
      /\ UNCHANGED <<purchases, balance, msg, local, failures, usage>>
      /\ customers' = [customers EXCEPT ![x].credits = new]
      /\ \A g \in Handlers : g # h => pc'[g] = pc[g]
  BY DEF SetCredits, Goto, CInv, TInv, HInv, HandlersTyped
<1>2. TInv /\ UNCHANGED <<use, free>>
  BY <1>1 DEF usage, CInv
<1>3. /\ k \in EventNumbers /\ Event(h) = Events[k] /\ Event(h).kind = "credits"
      /\ Event(h).user \in Users /\ x \in DOMAIN customers
      /\ x = Event(h).customer /\ local[h].user = Event(h).user
  BY <1>1, <1>2, EventOf
     DEF CInv, HandlersFit, HandlerFits, CreditSteps, TInv, HInv, HandlersTyped, HandlerTyped
<1>4. PICK d \in Nat : d = Event(h).credits
  BY <1>1, <1>2, EventOf
<1>5. PICK u \in Users : u = Event(h).user
  BY <1>3
<1>6. PICK n \in Nat : n = local[h].credits
  BY <1>2 DEF TInv, HInv, HandlersTyped, Locals
<1>7. new = n + d
  BY <1>4, <1>6 DEF MirrorAfter
<1>8. customers[x].user = u
  BY <1>3, <1>5 DEF CInv, CustomersFit, FirstStep
<1>9. ASSUME NEW i \in CreditEvents
      PROVE  /\ Added(i, BalanceSteps) <= Added(i, BalanceSteps)'
             /\ Added(i, MirrorSteps) <= Added(i, MirrorSteps)'
             /\ i = k => Added(i, MirrorSteps) + d <= Added(i, MirrorSteps)'
  <2>1. Added(i, BalanceSteps)' = Added(i, BalanceSteps)
    <3>1. pc[h] \notin BalanceSteps /\ pc'[h] \notin BalanceSteps
      BY <1>1 DEF BalanceSteps
    <3> QED
      BY <1>1, <1>2, <3>1, NothingAdded
  <2>2. Added(i, MirrorSteps)' =
          IF i = k THEN Added(i, MirrorSteps) + d ELSE Added(i, MirrorSteps)
    <3>1. pc[h] \notin MirrorSteps /\ pc'[h] \in MirrorSteps
      BY <1>1 DEF MirrorSteps
    <3> QED
      BY <1>1, <1>2, <1>4, <3>1, EnteringAdds
  <2>3. Added(i, BalanceSteps) \in Nat /\ Added(i, MirrorSteps) \in Nat
    BY <1>2, AddedIsNatural DEF AddedTyped
  <2> HIDE DEF k
  <2> QED
    BY <2>1, <2>2, <2>3
<1>10. NobodyEarnsLess
  BY <1>1, <1>2, <1>9, EarnedStays
<1>11. n + d <= Earned(u, MirrorSteps)'
  <2>1. PICK kk \in CreditEventsOf(u) : kk = k
    BY <1>3, <1>5 DEF CreditEventsOf, CreditEvents
  <2>2. Added(kk, MirrorSteps) + d <= Added(kk, MirrorSteps)'
    BY <1>9, <2>1 DEF CreditEventsOf
  <2>3. free'[u] = free[u] + 0
    BY <1>2 DEF TInv, UsageTyped
  <2>4. /\ Earned(u, MirrorSteps) \in Nat /\ Earned(u, MirrorSteps)' \in Nat
        /\ (Earned(u, MirrorSteps) + 0) + d <= Earned(u, MirrorSteps)'
    BY <1>1, <1>2, <1>9, <2>2, <2>3, EarnedGrows
  <2>5. n <= Earned(u, MirrorSteps)
    BY <1>1, <1>3, <1>5, <1>6 DEF Mirrored, ReadFits
  <2> QED
    BY <2>4, <2>5
<1> HIDE DEF new
<1>12. /\ DOMAIN customers' = DOMAIN customers
       /\ customers'[x].credits = new /\ customers'[x].user = customers[x].user
       /\ \A c \in DOMAIN customers : c # x => customers'[c] = customers[c]
  BY <1>1, <1>2, <1>3 DEF TInv, HInv, TablesTyped
<1>13. ASSUME NEW c \in DOMAIN customers'
       PROVE  (c \in DOMAIN customers /\ customers'[c] = customers[c]) \/ RowFits(c)'
  <2>1. CASE c = x
    <3>1. customers'[c].credits = n + d /\ customers'[c].user = u
      BY <1>7, <1>8, <1>12, <2>1
    <3> QED
      BY <1>11, <3>1 DEF RowFits
  <2> QED
    BY <1>12, <2>1
<1>14. \A g \in Handlers : pc'[g] = "setCredits" => LocalStays(g)
  BY <1>1 DEF LocalStays
<1> QED
  BY <1>1, <1>2, <1>10, <1>13, <1>14, UntouchedFits, WrittenFits

\* The balance grows by the credits that are now in flight to the PURCHASE row.
LEMMA AddBalanceMirrored ==
  ASSUME CInv, TInv', Mirrored, NEW h \in Handlers, AddBalance(h)
  PROVE  Mirrored'
<1> DEFINE k == msg[h].event
<1>1. /\ pc[h] = "addBalance" /\ pc'[h] = "logPurchase"
      /\ UNCHANGED <<purchases, customers, msg, local, failures, usage>>
      /\ balance' = [balance EXCEPT ![local[h].user] = balance[local[h].user] + Event(h).credits]
      /\ \A g \in Handlers : g # h => pc'[g] = pc[g]
  BY DEF AddBalance, Goto, CInv, TInv, HInv, HandlersTyped
<1>2. TInv /\ UNCHANGED <<use, free>>
  BY <1>1 DEF usage, CInv
<1>3. /\ k \in EventNumbers /\ Event(h) = Events[k] /\ Event(h).kind = "credits"
      /\ Event(h).user \in Users /\ local[h].user = Event(h).user
  BY <1>1, <1>2, EventOf
     DEF CInv, HandlersFit, HandlerFits, CreditSteps, TInv, HInv, HandlersTyped, HandlerTyped
<1>4. PICK d \in Nat : d = Event(h).credits
  BY <1>1, <1>2, EventOf
<1>5. PICK u \in Users : u = Event(h).user
  BY <1>3
<1>6. PICK b \in Int : b = balance[u]
  BY <1>2 DEF TInv, HInv, TablesTyped
<1>7. balance'[u] = b + d /\ \A v \in Users : v # u => balance'[v] = balance[v]
  BY <1>1, <1>2, <1>3, <1>4, <1>5, <1>6 DEF TInv, HInv, TablesTyped
<1>8. ASSUME NEW i \in CreditEvents
      PROVE  /\ Added(i, MirrorSteps) <= Added(i, MirrorSteps)'
             /\ Added(i, BalanceSteps) <= Added(i, BalanceSteps)'
             /\ i = k => Added(i, BalanceSteps) + d <= Added(i, BalanceSteps)'
  <2>1. Added(i, MirrorSteps)' = Added(i, MirrorSteps)
    <3>1. pc[h] \in MirrorSteps /\ pc'[h] \in MirrorSteps
      BY <1>1 DEF MirrorSteps
    <3> QED
      BY <1>1, <1>2, <3>1, NothingAdded
  <2>2. Added(i, BalanceSteps)' =
          IF i = k THEN Added(i, BalanceSteps) + d ELSE Added(i, BalanceSteps)
    <3>1. pc[h] \notin BalanceSteps /\ pc'[h] \in BalanceSteps
      BY <1>1 DEF BalanceSteps
    <3> QED
      BY <1>1, <1>2, <1>4, <3>1, EnteringAdds
  <2>3. Added(i, BalanceSteps) \in Nat /\ Added(i, MirrorSteps) \in Nat
    BY <1>2, AddedIsNatural DEF AddedTyped
  <2> HIDE DEF k
  <2> QED
    BY <2>1, <2>2, <2>3
<1>9. NobodyEarnsLess
  BY <1>1, <1>2, <1>8, EarnedStays
<1>10. b + d <= Earned(u, BalanceSteps)'
  <2>1. PICK kk \in CreditEventsOf(u) : kk = k
    BY <1>3, <1>5 DEF CreditEventsOf, CreditEvents
  <2>2. Added(kk, BalanceSteps) + d <= Added(kk, BalanceSteps)'
    BY <1>8, <2>1 DEF CreditEventsOf
  <2>3. free'[u] = free[u] + 0
    BY <1>2 DEF TInv, UsageTyped
  <2>4. /\ Earned(u, BalanceSteps) \in Nat /\ Earned(u, BalanceSteps)' \in Nat
        /\ (Earned(u, BalanceSteps) + 0) + d <= Earned(u, BalanceSteps)'
    BY <1>1, <1>2, <1>8, <2>2, <2>3, EarnedGrows
  <2>5. b <= Earned(u, BalanceSteps)
    BY <1>6 DEF Mirrored, BalanceFits
  <2> QED
    BY <2>4, <2>5
<1>11. ASSUME NEW v \in Users
       PROVE  balance'[v] <= balance[v] \/ BalanceFits(v)'
  <2>1. CASE v = u
    BY <1>7, <1>10, <2>1 DEF BalanceFits
  <2>2. CASE v # u
    <3>1. balance[v] \in Int
      BY <1>2 DEF TInv, HInv, TablesTyped
    <3> QED
      BY <1>7, <2>2, <3>1
  <2> QED
    BY <2>1, <2>2
<1>12. \A g \in Handlers : pc'[g] = "setCredits" => LocalStays(g)
  BY <1>1 DEF LocalStays
<1> QED
  BY <1>1, <1>2, <1>9, <1>11, <1>12, UntouchedFits, WrittenFits

\* A request that is cut short writes nothing more.
LEMMA FailMirrored ==
  ASSUME TInv, TInv', Mirrored, NEW h \in Handlers, Fail(h)
  PROVE  Mirrored'
<1>1. /\ UNCHANGED <<customers, balance, use>> /\ pc'[h] = "idle"
      /\ \A g \in Handlers : g # h => pc'[g] = pc[g] /\ local'[g] = local[g]
  BY StepIsQuiet DEF Step, Quiet, Fail, Leave, Quit, usage, tables, TInv, HInv, HandlersTyped
<1> QED
  BY <1>1, FailAddsAPackage, HandlerMoves

\* When no handler moves, what users were given grows by their free credits alone.
LEMMA GrantsAdd ==
  ASSUME TInv, TInv', UNCHANGED <<purchases, failures, pc, msg>>, NEW u \in Users, NEW g \in Nat,
         free'[u] = free[u] + g, NEW steps
  PROVE  /\ Earned(u, steps) \in Nat /\ Earned(u, steps)' \in Nat
         /\ Earned(u, steps) + g <= Earned(u, steps)'
<1>1. ASSUME NEW n \in CreditEvents
      PROVE  Added(n, steps)' = Added(n, steps) /\ Added(n, steps) \in Nat
  <2>1. Carrying(n, steps)' = Carrying(n, steps)
    BY DEF Carrying
  <2> QED
    BY <2>1, AddedIsNatural DEF Added, Logged, InFlight, Carrying, AddedTyped
<1>2. \A n \in CreditEvents : Added(n, steps) <= Added(n, steps)'
  BY <1>1
<1>3. \A k \in CreditEventsOf(u) : Added(k, steps) + 0 <= Added(k, steps)'
  BY <1>1 DEF CreditEventsOf
<1> QED
  BY <1>2, <1>3, EarnedGrows

\* So a step that grants nothing and moves no handler takes nothing from anybody.
LEMMA NothingGranted ==
  ASSUME TInv, TInv', UNCHANGED <<purchases, failures, pc, msg, free>>
  PROVE  NobodyEarnsLess
<1>1. ASSUME NEW u \in Users, NEW steps
      PROVE  /\ Earned(u, steps) \in Nat /\ Earned(u, steps)' \in Nat
             /\ Earned(u, steps) <= Earned(u, steps)'
  <2>1. free'[u] = free[u] + 0
    BY DEF TInv, UsageTyped
  <2>2. /\ Earned(u, steps) \in Nat /\ Earned(u, steps)' \in Nat
        /\ Earned(u, steps) + 0 <= Earned(u, steps)'
    BY <2>1, GrantsAdd
  <2> QED
    BY <2>2
<1> QED
  BY <1>1 DEF NobodyEarnsLess

\* What is left of the balance that a usage reads is less than what was given.
LEMMA ReadForUseMirrored ==
  ASSUME TInv, TInv', Mirrored, NEW r \in Uses, ReadForUse(r)
  PROVE  Mirrored'
<1>1. UNCHANGED <<customers, balance, purchases, failures, pc, msg, local, free>>
  BY DEF ReadForUse, tables, handler
<1>2. PICK u \in Users, cost \in Costs :
        use' = [use EXCEPT ![r] = [step |-> "charge", user |-> u, left |-> balance[u] - cost,
                                   cost |-> cost]]
  BY DEF ReadForUse
<1>3. NobodyEarnsLess
  BY <1>1, NothingGranted
<1>4. use \in [Uses -> UseValues]
  BY DEF TInv, UsageTyped
<1>5. use'[r].user = u /\ use'[r].left = balance[u] - cost
  BY <1>2, <1>4
<1>6. PICK b \in Int : b = balance[u]
  BY DEF TInv, HInv, TablesTyped
<1>7. b - cost <= Earned(u, MirrorSteps)'
  <2>1. cost \in Nat
    BY WebhookAssumption
  <2>2. b <= Earned(u, BalanceSteps)
    BY <1>6 DEF Mirrored, BalanceFits
  <2> QED
    BY <1>3, <2>1, <2>2, EarnedIsNatural, BalanceIsPart
<1>8. UseFits(r)'
  <2>1. use'[r].left = b - cost
    BY <1>5, <1>6
  <2> QED
    BY <1>5, <1>7, <2>1 DEF UseFits
<1>9. ASSUME NEW q \in Uses, use'[q].step \in {"charge", "mirror"}
      PROVE  UseStays(q) \/ UseFits(q)'
  <2>1. CASE q = r
    BY <1>8, <2>1
  <2>2. CASE q # r
    BY <1>2, <1>4, <1>9, <2>2 DEF UseStays
  <2> QED
    BY <2>1, <2>2
<1> QED
  BY <1>1, <1>3, <1>9, UntouchedFits, WrittenFits

\* A usage that goes on with what it has read.
LEMMA AdvanceKeeps ==
  ASSUME TInv, NEW r \in Uses, use[r].step \in {"charge", "mirror"},
         NEW step, Advance(r, step)
  PROVE  \A q \in Uses : use'[q].step \in {"charge", "mirror"} => UseStays(q)
BY DEF Advance, UseStays, TInv, UsageTyped

\* A charge and an expiry take from a balance.
LEMMA TakenMirrored ==
  ASSUME TInv, TInv', Mirrored, UNCHANGED <<customers, purchases, failures, pc, msg, local, free>>,
         NEW v, NEW n \in Nat, balance' = [balance EXCEPT ![v] = balance[v] - n],
         \A q \in Uses : use'[q].step \in {"charge", "mirror"} => UseStays(q)
  PROVE  Mirrored'
<1>1. NobodyEarnsLess
  BY NothingGranted
<1>2. ASSUME NEW u \in Users
      PROVE  balance'[u] <= balance[u]
  <2>1. PICK b \in Int : b = balance[u]
    BY DEF TInv, HInv, TablesTyped
  <2>2. balance'[u] = b \/ balance'[u] = b - n
    BY <2>1 DEF TInv, HInv, TablesTyped
  <2> QED
    BY <2>1, <2>2
<1> QED
  BY <1>1, <1>2, UntouchedFits, WrittenFits

\* recordUsage shows what was left of the balance it has read.
LEMMA MirrorUseMirrored ==
  ASSUME TInv, TInv', Mirrored, NEW r \in Uses, MirrorUse(r)
  PROVE  Mirrored'
<1>1. /\ UNCHANGED <<balance, purchases, failures, pc, msg, local, free>>
      /\ use[r].step = "mirror" /\ Advance(r, "used")
      /\ customers' = [c \in DOMAIN customers |->
                         IF customers[c].user = use[r].user
                           THEN [customers[c] EXCEPT !.credits = use[r].left] ELSE customers[c]]
  BY DEF MirrorUse, handler
<1>2. NobodyEarnsLess
  BY <1>1, NothingGranted
<1>3. PICK u \in Users : u = use[r].user
  BY <1>1 DEF Mirrored, UseFits
<1>4. PICK x \in Nat : x = use[r].left
  BY DEF TInv, UsageTyped, UseValues
<1>5. x <= Earned(u, MirrorSteps)'
  <2>1. x <= Earned(u, MirrorSteps)
    BY <1>1, <1>3, <1>4 DEF Mirrored, UseFits
  <2> QED
    BY <1>2, <2>1, EarnedIsNatural
<1>6. ASSUME NEW c \in DOMAIN customers'
      PROVE  (c \in DOMAIN customers /\ customers'[c] = customers[c]) \/ RowFits(c)'
  <2>1. c \in DOMAIN customers /\ customers[c] \in [user: Users, credits: Nat]
    BY <1>1 DEF TInv, HInv, TablesTyped
  <2>2. CASE customers[c].user = u
    <3>1. customers'[c].user = u /\ customers'[c].credits = x
      BY <1>1, <1>3, <1>4, <2>1, <2>2
    <3> QED
      BY <1>5, <3>1 DEF RowFits
  <2>3. CASE customers[c].user # u
    BY <1>1, <1>3, <2>1, <2>3
  <2> QED
    BY <2>2, <2>3
<1>7. \A q \in Uses : use'[q].step \in {"charge", "mirror"} => UseStays(q)
  BY <1>1, AdvanceKeeps
<1> QED
  BY <1>1, <1>2, <1>6, <1>7, UntouchedFits, WrittenFits

\* A grant adds the same to the balance and to what was given.
LEMMA GrantMirrored ==
  ASSUME TInv, TInv', Mirrored, NEW v \in Users, GrantFree(v)
  PROVE  Mirrored'
<1>1. /\ UNCHANGED <<customers, purchases, failures, pc, msg, local, use>>
      /\ balance' = [balance EXCEPT ![v] = balance[v] + FreeMonthlyCredits]
      /\ free' = [free EXCEPT ![v] = free[v] + FreeMonthlyCredits]
  BY DEF GrantFree, handler
<1>2. FreeMonthlyCredits \in Nat
  BY WebhookAssumption
<1>3. free \in [Users -> Nat] /\ balance \in [Users -> Int]
  BY DEF TInv, HInv, TablesTyped, UsageTyped
<1>4. ASSUME NEW u \in Users
      PROVE  \E g \in Nat : free'[u] = free[u] + g /\ (u = v => g = FreeMonthlyCredits)
  <2>1. CASE u = v
    BY <1>1, <1>2, <1>3, <2>1
  <2>2. CASE u # v
    <3>1. free'[u] = free[u] + 0 /\ 0 \in Nat
      BY <1>1, <1>3, <2>2
    <3> QED
      BY <2>2, <3>1
  <2> QED
    BY <2>1, <2>2
<1>5. NobodyEarnsLess
  <2>1. ASSUME NEW u \in Users, NEW steps
        PROVE  /\ Earned(u, steps) \in Nat /\ Earned(u, steps)' \in Nat
               /\ Earned(u, steps) <= Earned(u, steps)'
    <3>1. PICK g \in Nat : free'[u] = free[u] + g
      BY <1>4
    <3>2. /\ Earned(u, steps) \in Nat /\ Earned(u, steps)' \in Nat
          /\ Earned(u, steps) + g <= Earned(u, steps)'
      BY <1>1, <3>1, GrantsAdd
    <3> QED
      BY <3>2
  <2> QED
    BY <2>1 DEF NobodyEarnsLess
<1>6. PICK b \in Int : b = balance[v]
  BY <1>3
<1>7. balance'[v] = b + FreeMonthlyCredits /\ free'[v] = free[v] + FreeMonthlyCredits
  BY <1>1, <1>3, <1>6
<1>8. b + FreeMonthlyCredits <= Earned(v, BalanceSteps)'
  <2>1. b <= Earned(v, BalanceSteps)
    BY <1>6 DEF Mirrored, BalanceFits
  <2>2. /\ Earned(v, BalanceSteps) \in Nat /\ Earned(v, BalanceSteps)' \in Nat
        /\ Earned(v, BalanceSteps) + FreeMonthlyCredits <= Earned(v, BalanceSteps)'
    BY <1>1, <1>2, <1>7, GrantsAdd
  <2> QED
    BY <1>2, <2>1, <2>2
<1>9. ASSUME NEW u \in Users
      PROVE  balance'[u] <= balance[u] \/ BalanceFits(u)'
  <2>1. CASE u = v
    BY <1>7, <1>8, <2>1 DEF BalanceFits
  <2>2. CASE u # v
    BY <1>1, <1>3, <2>2
  <2> QED
    BY <2>1, <2>2
<1> QED
  BY <1>1, <1>5, <1>9, UntouchedFits, WrittenFits

\* What records usage, grants and lets expire keeps the rows of customers within that.
LEMMA UsageMirrored ==
  ASSUME TInv, TInv', Mirrored,
         (\E r \in Uses : UseStep(r)) \/ (\E u \in Users : GrantFree(u) \/ Expire(u))
  PROVE  Mirrored'
<1>1. ASSUME NEW r \in Uses, ChargeForUse(r)
      PROVE  Mirrored'
  <2>1. /\ UNCHANGED <<customers, purchases, failures, pc, msg, local, free>>
        /\ use[r].step = "charge" /\ Advance(r, "mirror") /\ use[r].cost \in Nat
        /\ balance' = [balance EXCEPT ![use[r].user] = balance[use[r].user] - use[r].cost]
    BY <1>1 DEF ChargeForUse, handler, TInv, UsageTyped, UseValues
  <2>2. PICK n \in Nat : n = use[r].cost
    BY <2>1
  <2>3. \A q \in Uses : use'[q].step \in {"charge", "mirror"} => UseStays(q)
    BY <2>1, AdvanceKeeps
  <2>4. PICK v : balance' = [balance EXCEPT ![v] = balance[v] - n]
    BY <2>1, <2>2
  <2> QED
    BY <2>1, <2>3, <2>4, TakenMirrored
<1>2. ASSUME NEW r \in Uses, FailUse(r)
      PROVE  Mirrored'
  <2>1. /\ UNCHANGED <<customers, balance, purchases, failures, pc, msg, local, free>>
        /\ use[r].step \in {"charge", "mirror"} /\ Advance(r, "used")
    BY <1>2 DEF FailUse, tables, handler
  <2>2. \A q \in Uses : use'[q].step \in {"charge", "mirror"} => UseStays(q)
    BY <2>1, AdvanceKeeps
  <2> QED
    BY <2>1, <2>2, NothingGranted, UntouchedFits, WrittenFits
<1>3. ASSUME NEW u \in Users, Expire(u)
      PROVE  Mirrored'
  <2>1. PICK n \in 1..FreeMonthlyCredits : balance' = [balance EXCEPT ![u] = balance[u] - n]
    BY <1>3 DEF Expire
  <2>2. UNCHANGED <<customers, purchases, failures, pc, msg, local, free, use>> /\ n \in Nat
    BY <1>3, WebhookAssumption DEF Expire, handler
  <2> QED
    BY <2>1, <2>2, UntouchedFits, TakenMirrored
<1>4. ASSUME NEW r \in Uses, UseStep(r)
      PROVE  Mirrored'
  BY <1>1, <1>2, <1>4, ReadForUseMirrored, MirrorUseMirrored DEF UseStep
<1> QED
  BY <1>3, <1>4, GrantMirrored

\* Every step keeps the invariant.
LEMMA NextMirrored ==
  ASSUME CInv, TInv', Mirrored, [Next]_vars
  PROVE  Mirrored'
<1>1. TInv
  BY DEF CInv
<1>2. ASSUME UNCHANGED <<tables, pc, msg, local, failures, usage>>
      PROVE  Mirrored'
  <2>1. UNCHANGED <<customers, balance, purchases, use, free>>
    BY <1>2 DEF tables, usage
  <2> QED
    BY <1>1, <1>2, <2>1, NothingGranted, UntouchedFits, WrittenFits
<1>3. CASE Tick \/ UNCHANGED vars
  BY <1>2, <1>3 DEF Tick, vars, handler
<1>4. CASE \E n \in EventNumbers : Send(n)
  BY <1>2, <1>4 DEF Send, handler
<1>5. CASE \E d \in sent : RefuseLate(d) \/ RefuseEarly(d)
  BY <1>2, <1>5 DEF RefuseLate, RefuseEarly, handler
<1>6. ASSUME NEW h \in Handlers, (\E d \in sent : Receive(h, d)) \/ Remember(h)
      PROVE  Mirrored'
  <2>1. UNCHANGED <<tables, failures, usage>> /\ pc[h] \in {"idle", "remember"}
    BY <1>6 DEF Receive, Remember
  <2>2. /\ pc'[h] \in {"idle", "remember", "respond", "lookup", "upsert"}
        /\ \A g \in Handlers : g # h => pc'[g] = pc[g] /\ msg'[g] = msg[g] /\ local'[g] = local[g]
    BY <1>1, <1>6 DEF Receive, Remember, FirstStep, Quit, TInv, HInv, HandlersTyped
  <2>3. pc[h] \notin MirrorSteps /\ pc'[h] \notin MirrorSteps /\ pc'[h] # "setCredits"
    BY <2>1, <2>2 DEF MirrorSteps
  <2> QED
    BY <1>1, <2>1, <2>2, <2>3, OutsideMirrored
<1>7. ASSUME NEW h \in Handlers, Step(h)
      PROVE  Mirrored'
  BY <1>1, <1>7, ElsewhereMirrored, UpsertMirrored, ReadCustomerMirrored, SetCreditsMirrored,
     AddBalanceMirrored, LogPurchaseMirrored, FailMirrored DEF Step
<1>8. ASSUME (\E r \in Uses : UseStep(r)) \/ (\E u \in Users : GrantFree(u) \/ Expire(u))
      PROVE  Mirrored'
  BY <1>1, <1>8, UsageMirrored
<1> QED
  BY <1>3, <1>4, <1>5, <1>6, <1>7, <1>8 DEF Next

\* In an empty database nothing is shown, and nothing was given.
LEMMA InitMirrored == Init => Mirrored
<1> SUFFICES ASSUME Init
             PROVE  Mirrored
  OBVIOUS
<1>1. ASSUME NEW u \in Users
      PROVE  BalanceFits(u)
  <2>1. TInv /\ balance[u] = 0
    BY InitFits DEF Init, CInv
  <2>2. Earned(u, BalanceSteps) \in Nat
    BY <2>1, BalanceIsPart
  <2> QED
    BY <2>1, <2>2 DEF BalanceFits
<1> QED
  BY <1>1 DEF Init, Mirrored, RowFits, ReadFits, UseFits, Unused, Empty

\* customers.credits never shows more than its user was given: free credits, credited
\* orders, what is just being credited, and one package for each request that was cut
\* short.  The absolute writes of its two writers, addCreditsToCustomer and recordUsage,
\* from stale reads lose credits of the mirror, they never invent any.
THEOREM MirrorsAreEarned ==
  ASSUME OrdersMakeSense
  PROVE  Spec => []MirrorIsEarned
<1>1. CInv /\ [Next]_vars => CInv'
  BY NextFits
<1>2. CInv /\ CInv' /\ Mirrored /\ [Next]_vars => Mirrored'
  BY NextMirrored DEF CInv
<1>3. Mirrored => MirrorIsEarned
  BY DEF Mirrored, MirrorIsEarned, RowFits, MirrorSteps
<1> QED
  BY <1>1, <1>2, <1>3, InitFits, InitMirrored, PTL DEF Spec
=============================================================================
