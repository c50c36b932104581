---------------------------- MODULE CreditLedger ----------------------------
(***************************************************************************)
(* The credit account of one user: user.currentCredits, the rows of        *)
(* credit_transactions, and the requests that change them                  *)
(* (modules/billing/services/credits.service.ts and recordUsage in         *)
(* modules/creem/services/usage.service.ts).                               *)
(*                                                                         *)
(* D1 runs one statement at a time and the code opens no transaction, so   *)
(* every awaited statement is an action and the requests of the user's     *)
(* tabs, running in different isolates, interleave between statements.     *)
(* Every statement carries the user id in its WHERE clause: accounts do    *)
(* not interact, one account is enough.  A purchase is addCredits; the     *)
(* webhook handler around it is modelled in CreemWebhook.                  *)
(***************************************************************************)
EXTENDS Integers, Sequences, FiniteSetsExt, Functions

CONSTANTS
  Workers,            \* requests that can be in flight at the same time
  Costs,              \* consumeCredits of a usage record (0: not a paid one)
  Purchases,          \* sizes of the purchased credit packages
  FreeMonthlyCredits, \* credits.constant.ts
  Month,              \* oneMonthMs, in clock ticks
  MaxTime,            \* bound: last clock tick
  MaxRequests,        \* bound: requests served
  MaxFailures         \* bound: statements that fail or isolates that die

ASSUME LedgerAssumption ==
  /\ IsFiniteSet(Workers) /\ Workers # {}
  /\ Costs \subseteq Nat /\ IsFiniteSet(Costs)
  /\ Purchases \subseteq Nat \ {0} /\ IsFiniteSet(Purchases)
  /\ FreeMonthlyCredits \in Nat \ {0}
  /\ Month \in Nat \ {0}
  /\ MaxTime \in Nat /\ MaxRequests \in Nat /\ MaxFailures \in Nat

VARIABLES
  now,            \* the clock the isolates read
  currentCredits, \* user.currentCredits
  lastRefreshAt,  \* user.lastCreditRefreshAt, or Never
  transactions,   \* rows of credit_transactions in createdAt order
  mirror,         \* customers.credits, the balance shown to administrators
  events,         \* number of rows of usage_events
  dailyTotal,     \* sum of usage_daily.totalAmount, one unit per record
  pc,             \* the statement each worker runs next
  job,            \* what each worker's request holds in local variables
  started,        \* requests served so far
  failures,       \* requests that were cut short so far
  taken,          \* history: what the requests drew from each row
  expiredDebits   \* history: credits removed from the balance by expiry

accountVars == <<currentCredits, lastRefreshAt, transactions>>
usageVars == <<mirror, events, dailyTotal>>
historyVars == <<taken, expiredDebits>>
vars == <<now, accountVars, usageVars, pc, job, started, failures, historyVars>>

Never == -1

\* The schema also declares ADJUSTMENT, which nothing writes.
Kinds == {"PURCHASE", "USAGE", "MONTHLY_REFRESH"}

Row == [type: Kinds, amount: Int, remaining: Int,
        expires: Nat \cup {Never}, processed: Nat \cup {Never}]

Rows == DOMAIN transactions

\* The rows that give credits, as opposed to the log entries of charges.
Grants == {i \in Rows : transactions[i].type # "USAGE"}

PcValues == {"idle", "select", "deduct", "logUsage", "event", "daily", "mirror",
             "selectExpired", "expire", "debit", "logMonthly", "markRefreshed",
             "logPurchase"}

\* cost: credits of the request; at: the `now' it captured; read: the balance
\* it read; snap: the rows its SELECT returned that are still to be visited,
\* with the remainingAmount they had; left: remainingToDeduct; debit: the
\* amount of the expired row being processed.
NoRows == [i \in {} |-> 0]
NewJob(cost, at, read, left) ==
  [cost |-> cost, at |-> at, read |-> read, snap |-> NoRows, left |-> left, debit |-> 0]
IdleJob == NewJob(0, 0, 0, 0)

Init ==
  /\ now = 0
  /\ currentCredits = 0 /\ lastRefreshAt = Never /\ transactions = <<>>
  /\ mirror = 0 /\ events = 0 /\ dailyTotal = 0
  /\ pc = [w \in Workers |-> "idle"]
  /\ job = [w \in Workers |-> IdleJob]
  /\ started = 0 /\ failures = 0
  /\ taken = <<>> /\ expiredDebits = 0

-----------------------------------------------------------------------------
(* Selections over credit_transactions.                                    *)

\* WHERE clause of consumeCredits.
Active(i, t) ==
  /\ transactions[i].remaining > 0
  /\ transactions[i].processed = Never \/ transactions[i].processed > t
  /\ transactions[i].expires = Never \/ transactions[i].expires > t

\* WHERE clause of processExpiredCredits.
Expired(i, t) ==
  /\ transactions[i].expires # Never /\ transactions[i].expires < t
  /\ transactions[i].processed = Never
  /\ transactions[i].remaining > 0

Snapshot(S) == [i \in S |-> transactions[i].remaining]

Without(snap, i) == [j \in DOMAIN snap \ {i} |-> snap[j]]

\* ORDER BY createdAt.
IsOldest(i, S) == i \in S /\ \A j \in S : i <= j

\* ORDER BY (type is MONTHLY_REFRESH) DESC, createdAt.
IsFirstToExpire(i, S) ==
  /\ i \in S
  /\ LET Monthly == {j \in S : transactions[j].type = "MONTHLY_REFRESH"}
     IN  IsOldest(i, IF Monthly # {} THEN Monthly ELSE S)

\* Mutant: the whole row is used up.
MutantLesser(a, b) == a

Lesser(a, b) == IF a <= b THEN a ELSE b

\* logCreditTransaction: the row starts with remainingAmount = amount, for
\* charges too.
Log(type, amount, expires) ==
  /\ transactions' = Append(transactions,
        [type |-> type, amount |-> amount, remaining |-> amount,
         expires |-> expires, processed |-> Never])
  /\ taken' = Append(taken, 0)

-----------------------------------------------------------------------------
(* Control of a request.                                                   *)

Goto(w, from, to) == pc[w] = from /\ pc' = [pc EXCEPT ![w] = to]

Begin(w) ==
  /\ pc[w] = "idle" /\ started < MaxRequests
  /\ started' = started + 1

Finish(w) == pc' = [pc EXCEPT ![w] = "idle"] /\ job' = [job EXCEPT ![w] = IdleJob]

-----------------------------------------------------------------------------
(* recordUsage and consumeCredits.                                         *)

\* Mutant: any credit at all is enough.
MutantSufficient(c) == currentCredits > 0

Sufficient(c) == currentCredits >= c

\* recordUsage up to the balance check of consumeCredits; an insufficient
\* balance throws before anything is written.
ReadBalance(w) ==
  /\ Begin(w)
  /\ \E c \in Costs :
       \/ /\ c = 0
          /\ pc' = [pc EXCEPT ![w] = "event"]
          /\ UNCHANGED job
       \/ /\ c > 0 /\ ~Sufficient(c)
          /\ UNCHANGED <<pc, job>>
       \/ /\ c > 0 /\ Sufficient(c)
          /\ pc' = [pc EXCEPT ![w] = "select"]
          /\ job' = [job EXCEPT ![w] = NewJob(c, 0, currentCredits, c)]
  /\ UNCHANGED <<now, accountVars, usageVars, failures, historyVars>>

SelectActive(w) ==
  /\ Goto(w, "select", "deduct")
  /\ job' = [job EXCEPT ![w].snap = Snapshot({i \in Rows : Active(i, now)})]
  /\ UNCHANGED <<now, accountVars, usageVars, started, failures, historyVars>>

\* Mutant: the UPDATE subtracts in SQL from what the row holds by now.
MutantRest(i, seen, deducted) == transactions[i].remaining - deducted

\* The UPDATE writes the amount computed from the snapshot, whatever the row
\* holds by now.
Rest(i, seen, deducted) == seen - deducted

\* One round of the loop.
DeductFromGrant(w) ==
  /\ pc[w] = "deduct" /\ job[w].left > 0
  /\ \E i \in DOMAIN job[w].snap :
       LET deducted == Lesser(job[w].snap[i], job[w].left)
       IN  /\ IsOldest(i, DOMAIN job[w].snap)
           /\ transactions' = [transactions EXCEPT ![i].remaining = Rest(i, job[w].snap[i], deducted)]
           /\ taken' = [taken EXCEPT ![i] = @ + deducted]
           /\ job' = [job EXCEPT ![w].left = @ - deducted, ![w].snap = Without(@, i)]
  /\ UNCHANGED <<now, currentCredits, lastRefreshAt, usageVars, pc, started, failures,
                 expiredDebits>>

\* Mutant: the balance is set from the value read at the start.
MutantBalanceAfterCharge(w) == job[w].read - job[w].cost

\* The UPDATE subtracts in SQL; the whole amount leaves the balance, also the
\* part no row covered.
BalanceAfterCharge(w) == currentCredits - job[w].cost

ChargeBalance(w) ==
  /\ Goto(w, "deduct", "logUsage")
  /\ job[w].left = 0 \/ DOMAIN job[w].snap = {}
  /\ currentCredits' = BalanceAfterCharge(w)
  /\ UNCHANGED <<now, lastRefreshAt, transactions, usageVars, job, started, failures,
                 historyVars>>

LogUsage(w) ==
  /\ Goto(w, "logUsage", "event")
  /\ Log("USAGE", -job[w].cost, Never)
  /\ UNCHANGED <<now, currentCredits, lastRefreshAt, usageVars, job, started, failures,
                 expiredDebits>>

InsertEvent(w) ==
  /\ Goto(w, "event", "daily")
  /\ events' = events + 1
  /\ UNCHANGED <<now, accountVars, mirror, dailyTotal, job, started, failures, historyVars>>

\* Mutant: only paid uses are counted.
MutantDailyAfter(w) == IF job[w].cost > 0 THEN dailyTotal + 1 ELSE dailyTotal

DailyAfter(w) == dailyTotal + 1

\* The upsert adds in SQL; the mirror is written only by a paid record.
AddToDaily(w) ==
  /\ pc[w] = "daily"
  /\ dailyTotal' = DailyAfter(w)
  /\ IF job[w].cost > 0
       THEN pc' = [pc EXCEPT ![w] = "mirror"] /\ UNCHANGED job
       ELSE Finish(w)
  /\ UNCHANGED <<now, accountVars, mirror, events, started, failures, historyVars>>

\* customers.credits := the balance read at the start minus the cost.
MirrorCredits(w) ==
  /\ pc[w] = "mirror"
  /\ mirror' = job[w].read - job[w].cost
  /\ Finish(w)
  /\ UNCHANGED <<now, accountVars, events, dailyTotal, started, failures, historyVars>>

-----------------------------------------------------------------------------
(* addFreeMonthlyCreditsIfNeeded and processExpiredCredits.                *)

\* Mutant: a tick too early.
MutantRefreshDue(t) == lastRefreshAt = Never \/ t - lastRefreshAt >= Month - 1

RefreshDue(t) == lastRefreshAt = Never \/ t - lastRefreshAt >= Month

ReadRefreshState(w) ==
  /\ Begin(w)
  /\ IF RefreshDue(now)
       THEN /\ pc' = [pc EXCEPT ![w] = "selectExpired"]
            /\ job' = [job EXCEPT ![w] = NewJob(0, now, 0, 0)]
       ELSE UNCHANGED <<pc, job>>
  /\ UNCHANGED <<now, accountVars, usageVars, failures, historyVars>>

SelectExpired(w) ==
  /\ Goto(w, "selectExpired", "expire")
  /\ job' = [job EXCEPT ![w].snap = Snapshot({i \in Rows : Expired(i, job[w].at)})]
  /\ UNCHANGED <<now, accountVars, usageVars, started, failures, historyVars>>

\* Mutant: the row is marked, its rest is kept.
MutantExpire(row, at) == [row EXCEPT !.processed = at]

Expire(row, at) == [row EXCEPT !.remaining = 0, !.processed = at]

ExpireGrant(w) ==
  /\ Goto(w, "expire", "debit")
  /\ \E i \in DOMAIN job[w].snap :
       /\ IsFirstToExpire(i, DOMAIN job[w].snap)
       /\ transactions' = [transactions EXCEPT ![i] = Expire(@, job[w].at)]
       /\ taken' = [taken EXCEPT ![i] = @ + job[w].snap[i]]
       /\ job' = [job EXCEPT ![w].debit = job[w].snap[i], ![w].snap = Without(@, i)]
  /\ UNCHANGED <<now, currentCredits, lastRefreshAt, usageVars, started, failures,
                 expiredDebits>>

\* Mutant: the expired credits stay in the balance.
MutantBalanceAfterExpiry(w) == currentCredits

\* The balance loses what the snapshot said the row held.
BalanceAfterExpiry(w) == currentCredits - job[w].debit

DebitExpired(w) ==
  /\ Goto(w, "debit", "expire")
  /\ currentCredits' = BalanceAfterExpiry(w)
  /\ expiredDebits' = expiredDebits + job[w].debit
  /\ job' = [job EXCEPT ![w].debit = 0]
  /\ UNCHANGED <<now, lastRefreshAt, transactions, usageVars, started, failures, taken>>

\* addCredits, first statement.
GrantMonthly(w) ==
  /\ Goto(w, "expire", "logMonthly")
  /\ DOMAIN job[w].snap = {}
  /\ currentCredits' = currentCredits + FreeMonthlyCredits
  /\ UNCHANGED <<now, lastRefreshAt, transactions, usageVars, job, started, failures,
                 historyVars>>

LogMonthly(w) ==
  /\ Goto(w, "logMonthly", "markRefreshed")
  /\ Log("MONTHLY_REFRESH", FreeMonthlyCredits, job[w].at + Month)
  /\ UNCHANGED <<now, currentCredits, lastRefreshAt, usageVars, job, started, failures,
                 expiredDebits>>

\* The SELECT that follows only returns the balance to the client.
MarkRefreshed(w) ==
  /\ pc[w] = "markRefreshed"
  /\ lastRefreshAt' = job[w].at
  /\ Finish(w)
  /\ UNCHANGED <<now, currentCredits, transactions, usageVars, started, failures, historyVars>>

-----------------------------------------------------------------------------
(* addCredits called for a purchase.                                       *)

PurchaseBalance(w) ==
  /\ Begin(w)
  /\ \E n \in Purchases :
       /\ currentCredits' = currentCredits + n
       /\ job' = [job EXCEPT ![w] = NewJob(n, 0, 0, 0)]
  /\ pc' = [pc EXCEPT ![w] = "logPurchase"]
  /\ UNCHANGED <<now, lastRefreshAt, transactions, usageVars, failures, historyVars>>

LogPurchase(w) ==
  /\ pc[w] = "logPurchase"
  /\ Log("PURCHASE", job[w].cost, Never)
  /\ Finish(w)
  /\ UNCHANGED <<now, currentCredits, lastRefreshAt, usageVars, started, failures,
                 expiredDebits>>

-----------------------------------------------------------------------------
\* A statement rejects, or the isolate is evicted: the rest of the request
\* does not happen and nothing undoes what it wrote.
Abort(w) ==
  /\ pc[w] # "idle" /\ failures < MaxFailures
  /\ failures' = failures + 1
  /\ Finish(w)
  /\ UNCHANGED <<now, accountVars, usageVars, started, historyVars>>

Tick ==
  /\ now < MaxTime
  /\ now' = now + 1
  /\ UNCHANGED <<accountVars, usageVars, pc, job, started, failures, historyVars>>

RecordUsage(w) ==
  ReadBalance(w) \/ SelectActive(w) \/ DeductFromGrant(w) \/ ChargeBalance(w)
    \/ LogUsage(w) \/ InsertEvent(w) \/ AddToDaily(w) \/ MirrorCredits(w)

Refresh(w) ==
  ReadRefreshState(w) \/ SelectExpired(w) \/ ExpireGrant(w) \/ DebitExpired(w)
    \/ GrantMonthly(w) \/ LogMonthly(w) \/ MarkRefreshed(w)

Purchase(w) == PurchaseBalance(w) \/ LogPurchase(w)

Next ==
  \/ Tick
  \/ \E w \in Workers : RecordUsage(w) \/ Refresh(w) \/ Purchase(w) \/ Abort(w)

Spec == Init /\ [][Next]_vars

-----------------------------------------------------------------------------
(* Properties.                                                             *)

JobTyped(j) ==
  /\ j \in [cost: Nat, at: Nat, read: Int, snap: [DOMAIN j.snap -> Nat \ {0}],
            left: Nat, debit: Nat]
  /\ j.left <= j.cost

JobsAreTyped ==
  /\ DOMAIN job = Workers
  /\ \A w \in Workers : JobTyped(job[w]) /\ DOMAIN job[w].snap \subseteq Rows

\* Every variable holds what its column or local variable can hold.
TypeOK ==
  /\ now \in Nat /\ started \in Nat /\ failures \in Nat
  /\ currentCredits \in Int /\ lastRefreshAt \in Nat \cup {Never}
  /\ transactions \in Seq(Row)
  /\ mirror \in Int /\ events \in Nat /\ dailyTotal \in Nat
  /\ pc \in [Workers -> PcValues]
  /\ taken \in Seq(Nat) /\ Len(taken) = Len(transactions)
  /\ expiredDebits \in Nat
  /\ JobsAreTyped

\* However stale the snapshots the requests write from, and wherever a request
\* is cut short, a grant keeps between nothing and its amount, never loses more
\* than the requests drew from it, and the log of a charge is never spent from
\* (the loops of consumeCredits and processExpiredCredits).
GrantAccounted ==
  \A i \in Rows :
    IF transactions[i].type = "USAGE"
      THEN transactions[i].remaining = transactions[i].amount /\ taken[i] = 0
      ELSE /\ transactions[i].remaining \in 0..transactions[i].amount
           /\ transactions[i].amount <= transactions[i].remaining + taken[i]

Backing(i) ==
  IF transactions[i].type # "USAGE" /\ transactions[i].processed = Never
    THEN transactions[i].remaining ELSE 0

\* In the balance, not yet a row.
Unlogged(w) ==
  CASE pc[w] = "logPurchase" -> job[w].cost
    [] pc[w] = "logMonthly" -> FreeMonthlyCredits
    [] OTHER -> 0

\* Taken from rows, not yet from the balance.
Uncharged(w) ==
  CASE pc[w] = "deduct" -> job[w].cost - job[w].left
    [] pc[w] = "debit" -> job[w].debit
    [] OTHER -> 0

\* Taken from the balance, not yet a USAGE row.
UnloggedCharge(w) == IF pc[w] = "logUsage" THEN job[w].cost ELSE 0

\* The largest amount a request moves.
LargestAmount == Max(Costs \cup Purchases \cup {FreeMonthlyCredits})

\* The balance the user sees promises no credit that no unprocessed grant backs, up
\* to one amount for each request that was cut short, in every interleaving of the
\* charges, expiries and refreshes of concurrent requests.
BalanceIsBacked ==
  currentCredits <= SumFunction([i \in Rows |-> Backing(i)])
                      + SumFunction([w \in Workers |-> Unlogged(w)])
                      + SumFunction([w \in Workers |-> Uncharged(w)])
                      + failures * LargestAmount

\* The balance is the sum of the logged amounts less what expired, up to one amount
\* for each request that was cut short: no interleaving loses an update of the
\* balance (the increments of addCredits, consumeCredits, processExpiredCredits).
LogExplainsBalance ==
  LET Explained == SumFunction([i \in Rows |-> transactions[i].amount]) - expiredDebits
                     + SumFunction([w \in Workers |-> Unlogged(w)])
                     - SumFunction([w \in Workers |-> UnloggedCharge(w)])
  IN  /\ Explained - failures * LargestAmount <= currentCredits
      /\ currentCredits <= Explained + failures * LargestAmount

\* Every charged use reaches usage_events and every event the daily total, except
\* for one record of each request that was cut short (recordUsage).
UsageIsRecorded ==
  LET Counted == dailyTotal + Cardinality({w \in Workers : pc[w] = "daily"})
  IN  /\ Counted <= events /\ events <= Counted + failures
      /\ Cardinality({i \in Rows : transactions[i].type = "USAGE"})
           <= Counted + Cardinality({w \in Workers : pc[w] = "event"}) + failures

\* The dearest use.
LargestCost == Max(Costs \cup {0})

\* The credits the uses spent never exceed those that were granted, but for one
\* cost per other request in flight: that many overlapping uses can pass the
\* balance check of consumeCredits before the first of them is charged, and a
\* request that follows them is refused.  What expiry took a second time is not
\* spent: it counts as if it were still there.
SpendingIsCovered ==
  currentCredits + expiredDebits + (Cardinality(Workers) - 1) * LargestCost >= 0

FreeGrants == {i \in Rows : transactions[i].type = "MONTHLY_REFRESH"}

\* The free grants that came less than a month after another one.
EarlyGrants ==
  {j \in FreeGrants : \E i \in FreeGrants :
     i < j /\ transactions[j].expires - transactions[i].expires < Month}

\* When requests do not overlap, the free grant is monthly, except for one after each
\* request that was cut short before it set lastCreditRefreshAt
\* (addFreeMonthlyCreditsIfNeeded).
OneFreeGrantPerMonth == Cardinality(EarlyGrants) <= failures

\* When requests do not overlap, a grant that was processed as expired holds
\* nothing and every other grant holds its amount less what was drawn from it,
\* even when requests are cut short.
GrantsAreExact ==
  \A i \in Grants :
    /\ transactions[i].remaining = transactions[i].amount - taken[i]
    /\ transactions[i].processed # Never => transactions[i].remaining = 0

\* "Insufficient credits" is thrown so that the balance never goes below zero.
NoOverdraft == currentCredits >= 0
=============================================================================
