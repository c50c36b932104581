---------------------------- MODULE CreemWebhook ----------------------------
(***************************************************************************)
(* Billing by webhook: the payment provider delivers events, the route     *)
(* handler verifies and dispatches them, and the billing service writes    *)
(* customers, subscriptions, credits_history and, for credit orders, the   *)
(* user's balance and a PURCHASE row (webhooks/creem/route.ts,             *)
(* creem/utils/verify-signature.ts, creem/services/billing.service.ts).    *)
(* A recorded usage (creem/services/usage.service.ts) charges the balance  *)
(* and is the other writer of customers.credits.                           *)
(*                                                                         *)
(* Handlers and usages run concurrently in different isolates; each        *)
(* awaited D1 statement is an action.  The replay store is the shared      *)
(* Redis one.  The provider signs every attempt anew, by a clock that may  *)
(* be ahead of the isolates', retries an event that was not answered with  *)
(* 200, may resend one it got no answer for, and the network may hand a    *)
(* delivery over more than once.  A customers row is identified with its   *)
(* creem_customer_id: no statement changes it.  The invalidation of the    *)
(* dashboard cache that ends a handler never fails it.                     *)
(***************************************************************************)
EXTENDS Integers, Sequences, FiniteSetsExt, Functions

CONSTANTS
  Handlers,     \* webhook requests that can be in flight together
  Events,       \* what happened at the provider, in order: a sequence of records
  Tolerance,    \* toleranceSeconds, in clock ticks; also the TTL of the replay store
  Ahead,        \* how far the provider's clock is ahead of the isolates'
  MaxLatency,   \* ticks from the check of a timestamp to the SET of its key, at most
  Uses,         \* requests that record a usage
  Costs,        \* the consumeCredits of those requests
  FreeMonthlyCredits, \* FREE_MONTHLY_CREDITS
  MaxFree,      \* bound: free credits of a user
  MaxSpent,     \* bound: credits of a user spent when some of them expire
  MaxTime,      \* bound: last clock tick
  MaxDeliveries, \* bound: deliveries the provider sends
  MaxTimeouts,  \* bound: deliveries resent without an answer to the previous one
  MaxFailures,  \* bound: statements that fail, isolates that die, answers lost
  MaxRefusals   \* bound: deliveries refused by the limiter or for want of Redis

\* Mutant: a usage is charged whatever the balance.
MutantAffords(credits, cost) == TRUE

Affords(credits, cost) == credits >= cost

\* Absent user_id, customer object, order id.
None == "none"

\* "other" is an eventType that the dispatch does not know.
Kinds == {"credits", "checkout", "subscription", "other"}

EventNumbers == DOMAIN Events
Users == {Events[n].user : n \in EventNumbers}
Orders == {Events[n].order : n \in EventNumbers}

ASSUME WebhookAssumption ==
  /\ IsFiniteSet(Handlers)
  /\ Costs \subseteq Nat \ {0}
  /\ Ahead \in Int
  /\ Len(Events) \in Nat /\ EventNumbers = 1..Len(Events)
  /\ \A n \in EventNumbers : Events[n].kind \in Kinds /\ Events[n].credits \in Nat
  /\ Tolerance \in Nat \ {0}
  /\ {MaxLatency, FreeMonthlyCredits, MaxFree, MaxSpent} \subseteq Nat
  /\ {MaxTime, MaxDeliveries, MaxTimeouts, MaxFailures, MaxRefusals} \subseteq Nat

VARIABLES
  now,           \* the clock of the isolates and of Redis
  customers,     \* creem customer id -> [user, credits], the rows that exist
  subscriptions, \* creem subscription id -> [customer, status], the rows that exist
  history,       \* order id -> number of rows of credits_history
  balance,       \* user -> user.currentCredits
  purchases,     \* order id -> number of PURCHASE rows with that paymentIntentId
  remembered,    \* replay store: delivery -> the time its key expires
  sent,          \* deliveries the provider has sent
  answer,        \* per event, as the provider knows it: "none", "ok" or "failed"
  timeouts,
  refusals,
  failures,
  pc,            \* per handler: the statement it runs next
  msg,           \* per handler: its delivery
  local,         \* per handler: what it has read
  use,           \* per usage request: its step and what it has read
  free,          \* history: free credits each user was granted
  spent,         \* history: credits charged to each user or expired
  dispatched     \* history: delivery -> how often it was dispatched

tables == <<customers, subscriptions, history, balance, purchases>>
provider == <<sent, answer, timeouts, refusals>>
handler == <<pc, msg, local>>
usage == <<use, free, spent>>
vars == <<now, tables, remembered, provider, failures, handler, usage, dispatched>>

Idle == [event |-> 0, at |-> 0]
NoLocal == [customer |-> None, credits |-> 0, user |-> None, exists |-> FALSE, checked |-> 0]
Unused == [step |-> "unused", user |-> None, left |-> 0, cost |-> 0]

Extend(f, k, v) == [x \in DOMAIN f \cup {k} |-> IF x = k THEN v ELSE f[x]]
Empty == [x \in {} |-> None]

Init ==
  /\ now = 0
  /\ customers = Empty /\ subscriptions = Empty
  /\ history = [o \in Orders |-> 0]
  /\ balance = [u \in Users |-> 0]
  /\ purchases = [o \in Orders |-> 0]
  /\ remembered = Empty
  /\ sent = {} /\ answer = [n \in EventNumbers |-> "none"] /\ timeouts = 0 /\ refusals = 0
  /\ failures = 0
  /\ pc = [h \in Handlers |-> "idle"]
  /\ msg = [h \in Handlers |-> Idle]
  /\ local = [h \in Handlers |-> NoLocal]
  /\ use = [r \in Uses |-> Unused]
  /\ free = [u \in Users |-> 0] /\ spent = [u \in Users |-> 0]
  /\ dispatched = Empty

-----------------------------------------------------------------------------
(* The provider (external).                                                *)

Attempted(n) == {d \in sent : d.event = n}

Send(n) ==
  /\ answer[n] # "ok"
  /\ Cardinality(sent) < MaxDeliveries
  /\ [event |-> n, at |-> now + Ahead] \notin sent
  /\ IF Attempted(n) = {} \/ answer[n] = "failed"
       THEN UNCHANGED timeouts
       ELSE timeouts < MaxTimeouts /\ timeouts' = timeouts + 1
  /\ sent' = sent \cup {[event |-> n, at |-> now + Ahead]}
  /\ answer' = [answer EXCEPT ![n] = "none"]
  /\ UNCHANGED <<now, tables, remembered, refusals, failures, handler, usage, dispatched>>

\* The provider listens for the first answer to its latest attempt.
Latest(d) == \A x \in Attempted(d.event) : x.at <= d.at
Awaited(d) == Latest(d) /\ answer[d.event] = "none"

Answered(d, status) ==
  answer' = IF Awaited(d) THEN [answer EXCEPT ![d.event] = status] ELSE answer

-----------------------------------------------------------------------------
(* verifyCreemWebhookSignature and dispatchWebhookEvent.                   *)

Distance(a, b) == IF a <= b THEN b - a ELSE a - b

InTolerance(d) == Distance(now, d.at) <= Tolerance

\* SET NX EX: the key is absent or has expired.
Fresh(d) == d \in DOMAIN remembered => remembered[d] <= now

FirstStep(e) ==
  CASE e.kind = "other" -> "respond"
    [] e.kind = "subscription" /\ e.customer = None -> "lookup"
    [] OTHER -> "upsert"

\* Mutant: the key lives for the tolerance counted from the signature.
MutantKeyExpiry(d) == d.at + Tolerance

\* The TTL starts when the key is set.
KeyExpiry(d) == now + Tolerance

\* The timestamp is checked, then the HMAC and the fingerprint are awaited.
Receive(h, d) ==
  /\ pc[h] = "idle" /\ InTolerance(d)
  /\ pc' = [pc EXCEPT ![h] = "remember"]
  /\ msg' = [msg EXCEPT ![h] = d]
  /\ local' = [local EXCEPT ![h] = [NoLocal EXCEPT !.checked = now]]
  /\ UNCHANGED <<now, tables, remembered, provider, failures, usage, dispatched>>

\* Nobody has or had this delivery, and the provider waits for its answer.
Unseen(d) == d \notin DOMAIN dispatched /\ (\A h \in Handlers : msg[h] # d) /\ Awaited(d)

\* A delivery that took too long gets 401.
RefuseLate(d) ==
  /\ ~InTolerance(d) /\ Unseen(d)
  /\ Answered(d, "failed")
  /\ UNCHANGED <<now, tables, remembered, sent, timeouts, refusals, failures, handler, usage,
                 dispatched>>

\* The rate limiter answers 429.
RefuseEarly(d) ==
  /\ Unseen(d) /\ refusals < MaxRefusals
  /\ refusals' = refusals + 1
  /\ Answered(d, "failed")
  /\ UNCHANGED <<now, tables, remembered, sent, timeouts, failures, handler, usage, dispatched>>

-----------------------------------------------------------------------------
(* Steps of a handler.                                                     *)

Event(h) == Events[msg[h].event]

Goto(h, from, to) == pc[h] = from /\ pc' = [pc EXCEPT ![h] = to]

Quit(h) ==
  /\ pc' = [pc EXCEPT ![h] = "idle"]
  /\ msg' = [msg EXCEPT ![h] = Idle]
  /\ local' = [local EXCEPT ![h] = NoLocal]

Leave(h, status) == Quit(h) /\ Answered(msg[h], status) /\ UNCHANGED <<sent, timeouts, refusals>>

\* checkAndRemember.  A fresh delivery is dispatched.  One that is not gets 401,
\* which the provider does not notice: the repetition is the network's.  When the
\* call rejects, its key may be set all the same, and the answer is 401.
Remember(h) ==
  LET d == msg[h]
      count == IF d \in DOMAIN dispatched THEN dispatched[d] ELSE 0
      Set == remembered' = Extend(remembered, d, KeyExpiry(d))
  IN  /\ pc[h] = "remember"
      /\ \/ /\ Fresh(d) /\ Set
            /\ dispatched' = Extend(dispatched, d, count + 1)
            /\ pc' = [pc EXCEPT ![h] = FirstStep(Event(h))]
            /\ local' = [local EXCEPT ![h] = NoLocal]
            /\ UNCHANGED <<msg, provider>>
         \/ /\ ~Fresh(d)
            /\ Quit(h)
            /\ UNCHANGED <<remembered, dispatched, provider>>
         \/ /\ refusals < MaxRefusals /\ refusals' = refusals + 1
            /\ \/ UNCHANGED <<remembered, dispatched>>
               \/ Fresh(d) /\ Set /\ dispatched' = Extend(dispatched, d, count)
            /\ Quit(h) /\ Answered(d, "failed")
            /\ UNCHANGED <<sent, timeouts>>
      /\ UNCHANGED <<now, tables, failures, usage>>

\* handleApiError: the provider sees a status other than 200.
Throw(h) == Leave(h, "failed") /\ UNCHANGED tables

AfterCustomer(e) == IF e.kind = "credits" THEN "findOrder" ELSE "findSubscription"

\* The INSERT of createOrUpdateCustomer can violate the foreign key (an unknown
\* user) or the unique index on user_id, which is not the conflict target.
UpsertRejected(e) ==
  \/ e.user = None
  \/ \E c \in DOMAIN customers : c # e.customer /\ customers[c].user = e.user

\* createOrUpdateCustomer.
UpsertCustomer(h) ==
  /\ pc[h] = "upsert"
  /\ LET e == Event(h)
         kept == IF e.customer \in DOMAIN customers THEN customers[e.customer].credits ELSE 0
     IN  \/ UpsertRejected(e) /\ Throw(h)
         \/ /\ ~UpsertRejected(e)
            /\ customers' = Extend(customers, e.customer, [user |-> e.user, credits |-> kept])
            /\ local' = [local EXCEPT ![h].customer = e.customer]
            /\ Goto(h, "upsert", IF e.kind = "checkout" /\ e.subscription = None
                                   THEN "respond" ELSE AfterCustomer(e))
            /\ UNCHANGED <<subscriptions, history, balance, purchases, provider, msg>>
  /\ UNCHANGED <<now, remembered, failures, usage, dispatched>>

\* getCustomerIdByUserId, for a subscription event with a bare customer id.
LookupCustomer(h) ==
  /\ pc[h] = "lookup"
  /\ LET Owned == {c \in DOMAIN customers : customers[c].user = Event(h).user}
     IN  \/ Owned = {} /\ Throw(h)
         \/ \E c \in Owned :
              /\ local' = [local EXCEPT ![h].customer = c]
              /\ Goto(h, "lookup", "findSubscription")
              /\ UNCHANGED <<tables, provider, msg>>
  /\ UNCHANGED <<now, remembered, failures, usage, dispatched>>

\* Mutant: a repeated order is not recognised.
MutantFindOrder(h) ==
  /\ Goto(h, "findOrder", "readCustomer")
  /\ UNCHANGED <<now, tables, remembered, provider, failures, msg, local, usage, dispatched>>

\* addCreditsToCustomer: an order that is in credits_history is done.
FindOrder(h) ==
  /\ Goto(h, "findOrder",
          IF Event(h).order # None /\ history[Event(h).order] > 0
            THEN "respond" ELSE "readCustomer")
  /\ UNCHANGED <<now, tables, remembered, provider, failures, msg, local, usage, dispatched>>

ReadCustomer(h) ==
  /\ Goto(h, "readCustomer", "setCredits")
  /\ local' = [local EXCEPT ![h].credits = customers[local[h].customer].credits,
                            ![h].user = customers[local[h].customer].user]
  /\ UNCHANGED <<now, tables, remembered, provider, failures, msg, usage, dispatched>>

\* Mutant: the sum is added to the column instead of replacing it.
MutantMirrorAfter(h) ==
  customers[local[h].customer].credits + local[h].credits + Event(h).credits

MirrorAfter(h) == local[h].credits + Event(h).credits

\* Mutant: the order is marked as done before the user is credited.
MutantSetCredits(h) ==
  /\ Goto(h, "setCredits", "addBalance")
  /\ customers' = [customers EXCEPT ![local[h].customer].credits = MirrorAfter(h)]
  /\ history' = [history EXCEPT ![Event(h).order] = @ + 1]
  /\ UNCHANGED <<now, subscriptions, balance, purchases, remembered, provider,
                 failures, msg, local, usage, dispatched>>

\* customers.credits is set to the value computed from the earlier read.
SetCredits(h) ==
  /\ Goto(h, "setCredits", "addBalance")
  /\ customers' = [customers EXCEPT ![local[h].customer].credits = MirrorAfter(h)]
  /\ UNCHANGED <<now, subscriptions, history, balance, purchases, remembered, provider,
                 failures, msg, local, usage, dispatched>>

\* addCredits: the balance, then its PURCHASE row.
AddBalance(h) ==
  /\ Goto(h, "addBalance", "logPurchase")
  /\ balance' = [balance EXCEPT ![local[h].user] = @ + Event(h).credits]
  /\ UNCHANGED <<now, customers, subscriptions, history, purchases, remembered, provider,
                 failures, msg, local, usage, dispatched>>

LogPurchase(h) ==
  /\ Goto(h, "logPurchase", "insertHistory")
  /\ purchases' = [purchases EXCEPT ![Event(h).order] = @ + 1]
  /\ UNCHANGED <<now, customers, subscriptions, history, balance, remembered, provider,
                 failures, msg, local, usage, dispatched>>

\* The row that marks the order as done is written last; its order id is unique.
InsertHistory(h) ==
  /\ pc[h] = "insertHistory"
  /\ LET o == Event(h).order
     IN  \/ o # None /\ history[o] > 0 /\ Throw(h)
         \/ /\ o = None \/ history[o] = 0
            /\ history' = [history EXCEPT ![o] = @ + 1]
            /\ Goto(h, "insertHistory", "respond")
            /\ UNCHANGED <<customers, subscriptions, balance, purchases, provider, msg, local>>
  /\ UNCHANGED <<now, remembered, failures, usage, dispatched>>

\* createOrUpdateSubscription: SELECT, then UPDATE or INSERT.
FindSubscription(h) ==
  /\ Goto(h, "findSubscription", "writeSubscription")
  /\ local' = [local EXCEPT ![h].exists = Event(h).subscription \in DOMAIN subscriptions]
  /\ UNCHANGED <<now, tables, remembered, provider, failures, msg, usage, dispatched>>

WriteSubscription(h) ==
  /\ pc[h] = "writeSubscription"
  /\ LET s == Event(h).subscription
     IN  \/ ~local[h].exists /\ s \in DOMAIN subscriptions /\ Throw(h)
         \/ /\ local[h].exists \/ s \notin DOMAIN subscriptions
            /\ subscriptions' = Extend(subscriptions, s,
                  [customer |-> local[h].customer, status |-> Event(h).status])
            /\ Goto(h, "writeSubscription", "respond")
            /\ UNCHANGED <<customers, history, balance, purchases, provider, msg, local>>
  /\ UNCHANGED <<now, remembered, failures, usage, dispatched>>

Respond(h) ==
  /\ pc[h] = "respond"
  /\ Leave(h, "ok")
  /\ UNCHANGED <<now, tables, remembered, failures, usage, dispatched>>

\* A statement rejects, the isolate is evicted, or the answer is lost: what was
\* written stays and the provider does not see a 200.
Fail(h) ==
  /\ pc[h] # "idle" /\ failures < MaxFailures
  /\ failures' = failures + 1
  /\ Leave(h, "failed")
  /\ UNCHANGED <<now, tables, remembered, usage, dispatched>>

-----------------------------------------------------------------------------
(* recordUsage and what else moves the balance.  A usage request is handled *)
(* once; it may stop at every statement.                                    *)

Advance(r, step) == use' = [use EXCEPT ![r].step = step]

\* consumeCredits reads the balance; what is left is returned at its end.
ReadForUse(r) ==
  /\ use[r].step = "unused"
  /\ \E u \in Users \ {None}, cost \in Costs :
       /\ Affords(balance[u], cost)
       /\ use' = [use EXCEPT ![r] =
                    [step |-> "charge", user |-> u, left |-> balance[u] - cost, cost |-> cost]]
  /\ UNCHANGED <<now, tables, remembered, provider, failures, handler, free, spent, dispatched>>

\* The balance is decreased by what it holds now, not by what was read.
ChargeForUse(r) ==
  /\ use[r].step = "charge" /\ Advance(r, "mirror")
  /\ balance' = [balance EXCEPT ![use[r].user] = @ - use[r].cost]
  /\ spent' = [spent EXCEPT ![use[r].user] = @ + use[r].cost]
  /\ UNCHANGED <<now, customers, subscriptions, history, purchases, remembered, provider,
                 failures, handler, free, dispatched>>

\* customers.credits of the user is set to what was left of the balance that was read.
MirrorUse(r) ==
  /\ use[r].step = "mirror" /\ Advance(r, "used")
  /\ customers' = [c \in DOMAIN customers |->
                     IF customers[c].user = use[r].user
                       THEN [customers[c] EXCEPT !.credits = use[r].left] ELSE customers[c]]
  /\ UNCHANGED <<now, subscriptions, history, balance, purchases, remembered, provider,
                 failures, handler, free, spent, dispatched>>

FailUse(r) ==
  /\ use[r].step \in {"charge", "mirror"} /\ Advance(r, "used")
  /\ UNCHANGED <<now, tables, remembered, provider, failures, handler, free, spent, dispatched>>

\* addFreeMonthlyCreditsIfNeeded, of which CreditLedger has the grants and the charges.
GrantFree(u) ==
  /\ free[u] + FreeMonthlyCredits <= MaxFree
  /\ balance' = [balance EXCEPT ![u] = @ + FreeMonthlyCredits]
  /\ free' = [free EXCEPT ![u] = @ + FreeMonthlyCredits]
  /\ UNCHANGED <<now, customers, subscriptions, history, purchases, remembered, provider,
                 failures, handler, use, spent, dispatched>>

\* processExpiredCredits takes what is left of a month's grant.
Expire(u) ==
  /\ spent[u] < MaxSpent
  /\ \E left \in 1..FreeMonthlyCredits :
       /\ balance' = [balance EXCEPT ![u] = @ - left]
       /\ spent' = [spent EXCEPT ![u] = @ + left]
  /\ UNCHANGED <<now, customers, subscriptions, history, purchases, remembered, provider,
                 failures, handler, use, free, dispatched>>

-----------------------------------------------------------------------------

\* Verification does not take longer than MaxLatency.
Tick ==
  /\ now < MaxTime
  /\ \A h \in Handlers : pc[h] = "remember" => now < local[h].checked + MaxLatency
  /\ now' = now + 1
  /\ UNCHANGED <<tables, remembered, provider, failures, handler, usage, dispatched>>

Step(h) ==
  UpsertCustomer(h) \/ LookupCustomer(h) \/ FindOrder(h) \/ ReadCustomer(h)
    \/ SetCredits(h) \/ AddBalance(h) \/ LogPurchase(h) \/ InsertHistory(h)
    \/ FindSubscription(h) \/ WriteSubscription(h) \/ Respond(h) \/ Fail(h)

UseStep(r) == ReadForUse(r) \/ ChargeForUse(r) \/ MirrorUse(r) \/ FailUse(r)

Next ==
  \/ Tick
  \/ \E n \in EventNumbers : Send(n)
  \/ \E d \in sent : RefuseLate(d) \/ RefuseEarly(d) \/ \E h \in Handlers : Receive(h, d)
  \/ \E h \in Handlers : Remember(h) \/ Step(h)
  \/ \E r \in Uses : UseStep(r)
  \/ \E u \in Users \ {None} : GrantFree(u) \/ Expire(u)

Spec == Init /\ [][Next]_vars

-----------------------------------------------------------------------------
(* Properties.                                                             *)

PcValues == {"idle", "remember", "upsert", "lookup", "findOrder", "readCustomer", "setCredits",
             "addBalance", "logPurchase", "insertHistory", "findSubscription",
             "writeSubscription", "respond"}

Delivery == [event: EventNumbers, at: Int]

\* The credits in a usage request are those its guard let pass.
UseValues == [step: {"unused", "charge", "mirror", "used"}, user: Users \cup {None},
              left: Nat, cost: Nat]

\* Every variable holds what its column, key or local variable can hold; no row of
\* customers shows a negative number of credits, though a balance may be negative.
TypeOK ==
  /\ now \in Nat
  /\ \A c \in DOMAIN customers : customers[c].user \in Users /\ customers[c].credits \in Nat
  /\ \A s \in DOMAIN subscriptions : subscriptions[s].customer \in DOMAIN customers
  /\ history \in [Orders -> Nat] /\ purchases \in [Orders -> Nat]
  /\ balance \in [Users -> Int]
  /\ sent \subseteq Delivery /\ DOMAIN remembered \subseteq sent
  /\ DOMAIN dispatched = DOMAIN remembered
  /\ answer \in [EventNumbers -> {"none", "ok", "failed"}]
  /\ {timeouts, refusals, failures} \subseteq Nat
  /\ pc \in [Handlers -> PcValues]
  /\ \A h \in Handlers : pc[h] # "idle" => msg[h] \in sent
  /\ use \in [Uses -> UseValues]
  /\ free \in [Users -> Nat] /\ spent \in [Users -> Nat]

\* However often the network repeats a delivery, it is dispatched once for each
\* lifetime of its key from when it was sent until its signature can last reach the
\* replay store: Tolerance after its timestamp and the latency of the verification
\* (verifyCreemWebhookSignature checks the time first and sets the key last).
RepeatsAreBounded ==
  \A d \in DOMAIN dispatched :
    dispatched[d] > 0 => (dispatched[d] - 1) * Tolerance <= Tolerance + MaxLatency + Ahead

CreditEvents == {n \in EventNumbers : Events[n].kind = "credits"}

\* All that ever came to a user's balance.
Received(u) == balance[u] + spent[u]

\* A credit order that was answered with 200, or that a later delivery would skip
\* as already done, has reached the balance and the credit log, whatever failed
\* and whatever ran beside it: the marker in credits_history is written last.
DoneMeansCredited ==
  \A n \in CreditEvents :
    (answer[n] = "ok" \/ (Events[n].order # None /\ history[Events[n].order] > 0))
      => /\ purchases[Events[n].order] > 0
         /\ Received(Events[n].user) >= Events[n].credits

CreditEventsOf(u) == {n \in CreditEvents : Events[n].user = u}

Logged(n) == purchases[Events[n].order] * Events[n].credits

InFlight(n, steps) ==
  Events[n].credits * Cardinality({h \in Handlers : pc[h] \in steps /\ msg[h].event = n})

LargestPackage == Max({0} \cup {Events[n].credits : n \in EventNumbers})

\* The most a user can have been given when handlers at these steps count: free
\* credits, orders, and a package for each request that was cut short.
Earned(u, steps) ==
  free[u] + failures * LargestPackage
    + SumFunction([n \in CreditEventsOf(u) |-> Logged(n) + InFlight(n, steps)])

\* customers.credits has two writers that set it to a number computed from an earlier
\* read, of the column itself (addCreditsToCustomer) and of the balance (recordUsage).
\* However they overlap and whatever fails, it never shows more than the user was
\* given: free credits, orders, and one package for each request cut short.
MirrorIsEarned ==
  \A c \in DOMAIN customers :
    customers[c].credits <= Earned(customers[c].user, {"addBalance", "logPurchase"})

\* An order is credited once, however often its event is delivered, and at most once
\* more for each request that was cut short between the credits and the marker: what
\* the lookup in credits_history and its unique index on the order id are for.
OneCreditPerOrder == \A o \in Orders \ {None} : purchases[o] <= 1 + failures

DeliveriesOf(o) == {d \in DOMAIN dispatched : Events[d.event].order = o}

\* Whatever overlaps and whatever fails, an order is credited no more often than
\* its deliveries were dispatched: no handler credits twice (addCreditsToCustomer).
OneCreditPerDelivery ==
  \A o \in Orders : purchases[o] <= SumFunction([d \in DeliveriesOf(o) |-> dispatched[d]])
=============================================================================
