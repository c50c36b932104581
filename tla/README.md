# Verification of changan-penpen

TLA+ models of the parts of changan-penpen whose correctness depends on the
order of steps: the credit account, payment webhooks, the circuit breaker around
Workers AI, three caches, the publishing of marketing content, and the metrics
buffer. TLC checks small instances; TLAPS proves the properties listed below for
every value of the constants.

All paths are relative to `src/`, the root of the repository; the application
itself is in `src/src/`.

## The system

A Next.js application on Cloudflare Workers. Requests are served by isolates
that share nothing but the stores: D1 (SQLite, one statement at a time, no
transaction is opened anywhere in the modelled code), Redis (Upstash), KV and
R2. Inside an isolate, module variables are shared by all the requests it
serves, and JavaScript interleaves requests at `await` only. A request may be
dropped by the runtime at any await, and any statement may reject.

| component | state | operations | what is hard | what makes it correct |
| --- | --- | --- | --- | --- |
| Credit ledger (`modules/billing/services/credits.service.ts`) | `user.currentCredits`, `user.lastCreditRefreshAt`, rows of `credit_transactions` | `addCredits`, `consumeCredits`, `processExpiredCredits`, `addFreeMonthlyCreditsIfNeeded` | 3 to 20 statements per request without a transaction; snapshots of rows used after other requests changed them; expiry is lazy | a grant is never overdrawn, the balance is explained by the log and backed by grants, one free grant a month |
| Usage tracking (`modules/creem/services/usage.service.ts`) | `usage_events`, `usage_daily`, `customers.credits` | `recordUsage`, `getUsageStats` | charges first, records after | what was charged is recorded |
| Payment webhook (`webhooks/creem/route.ts`, `creem/utils/verify-signature.ts`, `creem/services/billing.service.ts`) | `customers`, `subscriptions`, `credits_history`, the replay store | verification, dispatch, `createOrUpdateCustomer`, `createOrUpdateSubscription`, `addCreditsToCustomer` | deliveries repeated, resent, late and concurrent; verification that awaits between check and key; handlers cut short anywhere; a mirror with two writers | an order is credited once, and really credited once it counts as done; repeats are refused while their key lives; the mirror never shows too much |
| Summarizer and circuit breaker (`services/summarizer.service.ts`, `lib/utils/retry.ts`) | breaker state in module variables | `summarize`, `ensureCanAttempt`, `beforeRequest`, `recordSuccess`, `recordFailure` | answers of calls started in an earlier breaker state; retries; dropped requests | probes are bounded, an open breaker lets nothing through, it recovers |
| Dashboard cache (`modules/admin/services/analytics.service.ts`, `scripts/refresh-dashboard-metrics.ts`) | one row per tenant and filter | read, compute (five fetches), store, delete an expired row, invalidate, scheduled refresh | the five fetches and the write straddle a change and its invalidation | how old an answer can be; only who overlapped an invalidation leaves old data behind |
| Multi-level cache (`lib/cache/`) | memory of each isolate, Redis | read-through, warm-up, background writes, deletion by key, strategy, pattern | a warm-up or a late SET after a deletion; memories no deletion reaches | how old an answer can be; a deletion is felt everywhere in time |
| Marketing content (`modules/admin/services/marketing-content.service.ts`, `modules/marketing/services/preview.service.ts`, the settings page) | a draft per section, versions, a preview token, the page of each administrator | type, save, preview, publish, clean up | read-modify-write by several administrators; what is typed or fetched while a call runs | what is published is what was seen; versions are immutable; a preview link shows its draft |
| Static configuration (`lib/static-config/index.ts`, the revalidation route) | per isolate: the bundle, its loads, the fallback object | load, share a load, fall back, clear | a load in flight across a clearing; promises deleted by others' loads | who asks after a clearing is not attached to a load from before; loads are shared |
| Metrics buffer (`lib/observability/metrics.ts`, `worker.ts`, `instrumentation.ts`) | buffer, its limit, timer, the flush in flight | record, flush, put back, configure | records and flushes while a report is in flight; a failed batch meets a full buffer; timers that end with a request | order, nothing reported twice or stranded, the newest kept |
| Summarize route, site settings, checkout, rate limiting, todos and R2, client hooks | see PROJECT.json | | | not modelled, see below |
| Authentication, administration lists, health, SEO, translation, UI | | | single reads, single-row writes or rendering | not modelled |

Interactions: `GET /credits/balance` and `getCreditsSnapshot` run the refresh
before they read; the webhook handler calls `addCredits` and then invalidates
the dashboard cache (the `Mutators` of `DashboardCache` are its handlers from
their last write on); `recordUsage` calls `consumeCredits` and writes the same
`customers.credits` the webhook writes (both writers are in `CreemWebhook`). A publish of marketing content ends by
clearing the static configuration of its isolate (`Publish` and `Clear` of
`StaticConfig`). Usage is recorded by `recordUsage`, which is exported and has
its route code in `usage/record.route.ts`, not a file Next.js serves; the model
takes it as an operation any request may call.

## Modules

| module | models |
| --- | --- |
| `CreditLedger` | the credit ledger and `recordUsage`, for one user |
| `CircuitBreaker` | the breaker and the summarize requests of one isolate |
| `CreemWebhook` | provider, verification, dispatch and the billing service |
| `StalenessContract` | abstract: what a cache in front of the database promises its readers |
| `DashboardCache` | the dashboard rows, readers, the refresh job, invalidation; implements the contract |
| `MultiLevelCache` | one key in the memories of the isolates and in Redis; implements the contract |
| `MarketingContent` | one section: draft, versions, preview link, and the pages |
| `StaticConfig` | the published content of one locale in each isolate |
| `MetricsBuffer` | the buffer of one isolate and its reporter |
| `<module>Proofs` | the theorems about `<module>` |
| `MC<module>` | its instance for TLC |

In each module, an operator named `Mutant...` stands before the definition it
is a faulty variant of. No specification uses one; they document which mistake
in the code each property would notice.

### CreditLedger

`currentCredits`, `lastRefreshAt` and `transactions` are the columns and rows;
`transactions` is in `createdAt` order. Every request is a worker with a program
counter that names the statement it runs next and a record `job` with its local
variables. One action is one awaited statement together with the JavaScript up
to the next one, in the order of the code:

- `recordUsage`: `ReadBalance` (also the check that throws "Insufficient
  credits"), `SelectActive`, `DeductFromGrant` once per row, `ChargeBalance`,
  `LogUsage`, `InsertEvent`, `AddToDaily`, `MirrorCredits`;
- the refresh: `ReadRefreshState`, `SelectExpired`, `ExpireGrant` and
  `DebitExpired` once per row, `GrantMonthly`, `LogMonthly`, `MarkRefreshed`;
- a purchase: `PurchaseBalance`, `LogPurchase`.

`snap` is what a SELECT returned. Rows are then updated from `snap`, not from
the table, as the code does; balances are updated by SQL increments, as the code
does. `Abort` ends a request between two statements. `taken` and
`expiredDebits` are history variables.

The accounts of two users are never touched by one statement, so one account is
modelled. The length of a month and the times are in ticks.

The three properties that relate sums (`BalanceIsBacked`, `LogExplainsBalance`,
`UsageIsRecorded`) count what is under way in the terms of the requests
(`Unlogged`, `Uncharged`, `UnloggedCharge`) and allow one amount or record for
each request that was cut short: nothing compensates for the statements that did
not run, and nothing else may be lost or gained.

### CircuitBreaker

`breaker` is `CircuitBreakerInternalState` with `openedAt` reduced to whether
the recovery timeout has passed (`cooled`). The methods of the class are
functions of that record with the source's names. One action is what runs
between two awaits: `Start` and `Wake` run an attempt up to `ai.run`, `Succeed`
and `Fail` what follows its answer, including `release` in the finally block and
the decision of `retry`. `Cancel` is a request the runtime drops while it waits:
neither catch nor finally run. The four fault injection flags are per request. A
request that is turned away by the breaker ends with an error (`"blocked"`):
docs/env-and-secrets.md:99 speaks of the fallback path, which `summarize` takes
for other errors only.

### CreemWebhook

`Send` is the provider: it signs each attempt anew, by a clock that may be `Ahead`
of the isolates', retries an event that was not answered with 200, and may resend
one it has no answer for. A member of `sent` can be received any number of times:
the network may repeat a delivery. `Receive` is the check of the timestamp, on both
sides of the clock as `Math.abs` has it, and `Remember` the SET NX EX of the replay
key: between them the code awaits the HMAC and the fingerprint, for `MaxLatency` at
most, so a key may be set, and a repeat arrive, when the timestamp is no longer
acceptable. A SET that rejects may have set its key. `FirstStep` is the dispatch; a
type it does not know is answered with 200 and writes nothing. The remaining actions
are the statements of the handlers. A rejected INSERT (unique index, foreign key)
throws, as any statement can (`Fail`); the route then answers with an error.
`RefuseLate` and `RefuseEarly` are deliveries that are turned away before they are
remembered: signed too long ago, or refused by the rate limiter; one that is refused
for want of Redis is a branch of `Remember`.

`customers.credits` has a second writer, `recordUsage`: `ReadForUse` reads the
balance, `ChargeForUse` decreases it, `MirrorUse` sets the column to what was read
less the cost, each a step that others may come between. `GrantFree` and `Expire`
are what else moves the balance. `addCredits` appears with its two statements; the
rest of the account, with its grants and snapshots, is in `CreditLedger`. The
in-memory replay store used without Redis is not modelled. `OneCreditPerDelivery` is
stated here and proved; it needs no run of its own.

What no property says: that a subscription ends with its latest status (an older
event that is delayed or retried overwrites a newer one, and nothing in a row says
so), and that every order is credited in the end (the provider gives up; some events
are refused each time).

### StalenessContract

Three variables: the clock, the times at which the data of each scope changed,
and the answer of the last step. A version of the data was replaced at a known
time; an answer may be put together, part by part, from versions that are current
or were replaced less than `MaxStale` ago. Nothing is said of rows, levels,
isolates or invalidations: that is what the two caches add, each with the
`MaxStale` that its TTLs and latencies give.

### DashboardCache

`rows` is the table `admin_dashboard_cache`; a row records the version of the
data each of its parts was read at. `Select`, `Prune`, `Fetch` (one of the five
reads that run in parallel) and `Write` are the statements of
`getDashboardMetrics`; `RefreshMetrics` is the scheduled job, which skips the
lookup and has its own TTL. `Change` is the last write of a billing handler,
`Invalidate` one of its two DELETEs (its tenant's rows and those of all tenants),
`LoseInvalidation` a DELETE that is rejected, which the code only logs. `overtaken`
and `cleared` are history. The platform ends a request that takes longer than
`MaxLatency`; without such an end nothing bounds the age of an answer.
Refines `StalenessContract` with `MaxTtl + MaxLatency`: a row expires its TTL
after the write, and the write may come a latency after the reads.

### MultiLevelCache

One key. `memory` is the copy of each isolate, `redis` the shared one, `pending`
the SET and DEL commands that were issued in the background (`waitUntil`) and may
be executed in any order, late, or never. `Get`, `RedisGet` and `WarmUp` are a
read-through; a hit in Redis is copied to the memory level with that level's TTL,
from the moment of the copy. `Refresh` is a call with `bypassCache`; `Store`
writes memory and issues the SET. A call that has its value still awaits the counter
of hits or misses (`Answer`), so that an answer may come after its copy expired.

There are two deletions. `DeleteValue` is by key: the isolate's own copy at once, a
DEL in the background. `invalidateStrategy` does that for the keys of the isolate's
index; whether the index lists the key is left open. `InvalidatePattern` deletes what
SCAN finds in Redis and no copy in memory, not even that of the isolate that asks.
`purge` is history: the last deletion that counts, that is, one that follows a change
and finds no older value on its way to a level; it stops counting when its DEL is lost.

The KV level is disabled in every environment of `config/`; it is left out. In the
application itself no caller uses `handleInvalidation` or `invalidateAdminCache`, and
the patterns of the levels (`admin:user:...`) never match the composed keys
(`cache:admin:...`); the operations are modelled as the module exports them.
Both TTLs of a stored value are the caller's, or both are those of the levels,
hence the assumption `SetMemoryTtl \in {SetRedisTtl, WarmTtl}`.

Refines `StalenessContract` with `4 * MaxLatency + SetRedisTtl + WarmTtl - 1`: a
computation, a background write, a GET and a hit that awaits its counter, each of one
latency, and one TTL per level. That warm-ups do not renew each other is the point: a
copy in memory is never written back to Redis.

### MarketingContent

`draft` is the one row of the section in `marketing_content_drafts`, `versions`
the rows of `marketing_content_versions`; each administrator has a page (`editor`,
with what it shows and what is typed), a GET, a save, a preview and a publish.
The statements of the service are actions: `Upsert`; `PreviewSelect`, `PreviewUpdate`;
`PublishSelect`, `PublishMax`, `PublishInsert`, `PublishUpdate`; what follows the last
statement that matters, the log rows and the page's `onSuccess`, is `SaveDone`,
`PreviewDone` and `PublishDone`. The INSERT meets
the unique index on locale, section and version. A call may fail before each of its actions. Tokens are random: a row has none, or one, written as the payload it
was made for. `excused`, `overtaken` and `seen` are history.

What `PublishedAsSeen` excuses is what the code does not prevent: a page that was
loaded before somebody else saved; typing while one's own publish or save is in
flight, whose `onSuccess` then marks the page as saved, or overwrites it. The
response of a save combines the payload that was sent with a row that another
save may have written since. The page shows version 1 for a section without a
draft. One section is modelled: a page whose section is switched while a call is in
flight is outside the model.

### StaticConfig

Per isolate `bundleCache`, `fallbackCache` and `bundlePromises` of one locale,
with content abstracted to the number of publishes it reflects. `StartLoad`,
`Join`, `Query`, `Complete`, `CompleteWithoutDb` and `Reject` are
`ensureBundleLoaded` and the loads it starts; `Settle` is what the requests that
waited do when their load ends, which includes deleting the locale's promise, be
it theirs or another's. `Clear` is `clearStaticConfigCache`, in one isolate.

Two things the model makes visible. `applyRowsToBundle` writes into the cached
fallback object, so what is "built in" is the last content loaded (`Began`). And
an isolate that nobody clears keeps its bundle for as long as it lives: a
publish reaches the isolate that runs it only, and nothing expires. The same holds of
a bundle whose load straddled a clearing: it is stored after the clearing and stays.
`FreshAfterClear` is therefore stated per isolate and excuses such a bundle; what it
rules out is that a request that comes after a clearing waits for a load from before.

### MetricsBuffer

`buffer`, `limit`, `timer` and `flight` are the module variables; metrics are
numbered in the order of recording. `Record`, `Configure`, `EndOfRequest`,
`FireTimer` call the functions `enforceBufferLimit`, `requeueBatch`,
`scheduleFlushTimer` and `flushMetrics`; `Succeed` and `Fail` are the answers of
the reporter. An HTTP error status is an answer like any other: the code does not
look at it, so such a batch counts as delivered. `CancelTimer` and `Drop` are the runtime:
it ends a timer with the request that set it, and `flushTimer` stays set (`"dead"`); it
drops a request that awaits its report, and `flushInFlight` stays set, after which the
isolate reports nothing more. `lost` is history: the batch of such a report. A request
ends with a flush (`EndOfRequest`) only if it reached the application: the worker
answers one that its own cache holds without flushing (`worker.ts:243-247`).

## Runs

| run | instance | question |
| --- | --- | --- |
| `CreditLedgerConcurrent` | 2 requests in flight, 4 in all, 1 failure, month of 1 tick, 3 ticks | do stale snapshots overdraw a grant, lose a balance update, or leave credits without a grant, and how much can overlapping uses spend on stale balances? |
| `CreditLedgerSerial` | 1 request in flight, 6 in all, 1 failure, month of 2 ticks, 5 ticks | is the free grant monthly, are grants exact when requests do not overlap? |
| `CreditLedgerOverdraft` (violation) | 1 request in flight | does the check against "Insufficient credits" keep the balance above zero? |
| `CircuitBreakerSafety` | 3 requests, 2 attempts, 2 probes, threshold 3, 1 dropped request | are probes bounded and counters exact with late answers, retries, injected faults? |
| `CircuitBreakerRecovery` | 2 requests, 2 attempts, 1 probe, threshold 2 | does the breaker always probe again, and close once Workers AI stays up? |
| `CreemWebhookOrders` | 2 handlers, 2 credit orders of one user, 1 recorded usage, a free grant, tolerance 1, 2 deliveries, 1 failure | is what counts as done really credited, does the mirror never show too much? |
| `CreemWebhookSerial` | 1 handler, 4 kinds of events, tolerance 1, clock ahead by 1, latency 1, 4 ticks, 2 deliveries, 1 resend, 1 failure, 1 refusal, an expiry | is an order credited once, how often can a repeat be dispatched? |
| `DashboardCache` | 2 readers, 1 billing handler, 2 parts, TTLs and latency of 1 tick, 3 ticks, 1 change, 1 failure | how stale can an answer be, and who leaves stale rows? |
| `MultiLevelCache` | 2 isolates, 2 requests, TTLs of 1 and 3 ticks, latency of 1, 8 ticks, 1 change, 2 pieces of work in flight | how stale can an answer be, and when is a deletion felt? |
| `MarketingContent` | 2 administrators, 2 payloads, 2 saves, 2 versions, 2 calls in flight | is what is published what was seen, are status, preview and versions true? |
| `StaticConfig` | 2 isolates, 2 requests, 3 loads, 2 publishes | is an answer after a clearing fresh, are loads shared? |
| `MetricsBuffer` | 7 metrics, limits 2 and 3, 3 failures, any number of cancelled timers, a dropped request | order, loss and liveness of reporting |

Deadlock is not checked where requests, deliveries, changes or metrics are
bounded: those instances end when the bound is used up. The breaker's requests
are not bounded, and there deadlock is checked.

Bounds. Two requests in flight are enough for every stale read, since a
statement conflicts with at most one other. Four requests in the ledger give a
grant, its expiry, and two overlapping charges or refreshes of it; a grant of 2,
a purchase of 2 and charges of 1 and 3 let a charge end inside a grant, at its
end, in the next one, and beyond the last one. Three ticks with a month of one
tick give three refreshes; with a month of two ticks the off-by-one of the due
date is visible. In the breaker, three requests let an answer of an earlier
half-open period arrive while two probes of a later one are in flight. In the
serial webhook run, three ticks are tolerance, latency and skew: a delivery reaches
the replay store again each time its key has expired, the last time as late as it
can, which is the four dispatches that `RepeatsAreBounded` allows. In the other one,
two handlers and a usage are every pair of writers of the mirror. In the caches, with
TTLs and latencies of one tick (Redis: three), one change is enough for the age of an
answer to reach the bound of the contract: the changes before it make no copy older,
and the runs stop after the last tick at which an answer could still show the old
version. Redis' longer TTL is what tells a deletion that is felt from one that is
only waited out. Three loads
are one that a clearing made obsolete, its successor, and one that began after
the first one's end deleted the promise of the second. Seven metrics fill the
largest buffer twice, also when its limit is lowered in between. The theorems below hold without any of these bounds.

Fairness is used in two runs. `CircuitBreakerRecovery`: timers fire (the recovery
timeout, the sleep of `retry`), a pending `ai.run` is answered, and requests keep
arriving; nothing is assumed of the health of Workers AI, except in the premise of
`Recovers`. `MetricsBuffer`: requests that reach the application keep coming to the
isolate and end with a flush, and a report is answered or its request dropped. Nothing
is assumed of timers, which the runtime may cancel; once a request was dropped while it
reported, nothing is claimed either. An isolate that gets no more requests keeps what
is in its buffer.

## What the runs show

Holding: see the table. The violation is a disagreement of the code with its own
message: `NoOverdraft`. A charge can take credits of a grant whose expiry has
passed but was not processed: the balance still holds them, the SELECT of active
rows skips the grant. The next refresh debits the grant again and the balance
becomes negative, with no two requests overlapping.

Premises that properties need, because without them the code behaves otherwise:

- `OneFreeGrantPerMonth` is checked without overlapping refreshes:
  `lastCreditRefreshAt` is written last, so two overlapping balance requests both
  find the refresh due. For the same reason each refresh that dies between the
  grant and that column allows one early grant.
- `GrantsAreExact` is checked without overlapping requests: the snapshots are read long
  before they are used. `SpendingIsCovered` is checked with them, and allows one cost
  for each other request in flight: that many can pass the check on one balance.
- `OneCreditPerOrder` is checked without overlapping handlers: the row of
  `credits_history` that the lookup relies on is inserted last, and each handler
  that dies before it allows one more credit. That handlers overlap at one order is the
  only further way to credit it twice; see `SerialOrdersAreCreditedOnce`.
- `RepeatsAreBounded` is what the replay protection of docs/architecture-overview.md:67
  amounts to: a repeated delivery is refused while its key lives, but the key lives for
  the tolerance from its SET, and a signature can be accepted for longer: when its
  timestamp lies in the future, or when verification takes long. A second delivery of
  an order does no harm once the first has left its marker.
- `MirrorIsEarned` bounds the mirror from above only: a stale write of either writer
  can lose what the other wrote.
- `DeletionIsFelt` is about deletions that count: a value that was computed before the
  change and is stored after the deletion lives as long as any other, and so does one
  whose DEL is lost.
- `NeverSticks` is checked without dropped requests: a dropped probe keeps its
  half-open slot, and half-open has no timeout.
- `Recovers` is checked without the `retry-attempt` fault, which is thrown outside
  the try block that records failures.
- `FreshAfterClear` is about the isolate that was cleared, and not about bundles whose
  load straddled the clearing.
- `EventuallyReported` needs requests that keep coming, and excuses what follows a
  request that was dropped while it reported.

## What is proved

The proof modules use only the assumptions named `...Assumption` of the modules:
natural numbers, positive where the code takes a maximum with 1 or a TTL is at
least a second. Sets of readers, isolates, administrators, payloads and scopes are
arbitrary, finite or not, and so are the numbers that bound requests, failures
and time in the runs. The requests in flight, costs and packages of the ledger,
and the handlers and events of the webhook, are finite and as many as one likes:
the properties add up over them. `MaxLatency` stands for what the platform does (it
ends a request) where an age is bounded: in the caches for the whole of a request, in
the webhook for the time from the check of a timestamp to the SET of its key. `Ahead`
may be any integer.

Some theorems have a hypothesis that the program does not establish by itself:

- `Serial`, requests of one account do not overlap (`\A v, w \in Workers : v = w`);
- `OrdersAreSerial`, no two handlers are between lookup and marker of one order;
- `OrdersMakeSense`, the events of one order agree on user and credits, and a
  customer of the provider belongs to one user.

The instances of the runs that check the same property satisfy them.

| theorem | statement |
| --- | --- |
| `CreditLedgerProofs!TypeCorrect` | `Spec => []TypeOK` |
| `CreditLedgerProofs!GrantsAreAccounted` | `Spec => []GrantAccounted` |
| `CreditLedgerProofs!LogExplainsTheBalance` | `Spec => []LogExplainsBalance` |
| `CreditLedgerProofs!BalancesAreBacked` | `Spec => []BalanceIsBacked` |
| `CreditLedgerProofs!UsesAreRecorded` | `Spec => []UsageIsRecorded` |
| `CreditLedgerProofs!SpendingStaysCovered` | `Spec => []SpendingIsCovered` |
| `CreditLedgerProofs!SerialGrantsAreExact` | under `Serial`, `Spec => []GrantsAreExact` |
| `CreditLedgerProofs!SerialFreeGrantsAreMonthly` | under `Serial`, `Spec => []OneFreeGrantPerMonth` |
| `CircuitBreakerProofs!TypeCorrect` | `Spec => []TypeOK` |
| `CircuitBreakerProofs!ProbesAreBounded` | `Spec => []ProbesBounded` |
| `CircuitBreakerProofs!SlotsAreExact` | `Spec => []SlotsMatchProbes` |
| `CircuitBreakerProofs!CountIsExact` | `Spec => []CountsConsecutive` |
| `CircuitBreakerProofs!OpenIsLeftOnlyByProbing` | `Spec => OpenIsLeftByProbing` |
| `CircuitBreakerProofs!EveryCallIsAdmitted` | `Spec => CallsAreAdmitted` |
| `CreemWebhookProofs!TypeCorrect` | `Spec => []TypeOK` |
| `CreemWebhookProofs!RepeatsAreFew` | `Spec => []RepeatsAreBounded` |
| `CreemWebhookProofs!DoneOrdersAreCredited` | under `OrdersMakeSense`, `Spec => []DoneMeansCredited` |
| `CreemWebhookProofs!SerialOrdersAreCreditedOnce` | `Spec /\ []OrdersAreSerial => []OneCreditPerOrder` |
| `CreemWebhookProofs!OneHandlerCreditsOnce` | with one handler, `Spec => []OneCreditPerOrder` |
| `CreemWebhookProofs!CreditsAreDelivered` | `Spec => []OneCreditPerDelivery` |
| `CreemWebhookProofs!MirrorsAreEarned` | under `OrdersMakeSense`, `Spec => []MirrorIsEarned` |
| `DashboardCacheProofs!TypeCorrect` | `Spec => []TypeOK` |
| `DashboardCacheProofs!StaleRowsWereOvertaken` | `Spec => []OnlyOverlapLeavesStale` |
| `DashboardCacheProofs!ImplementsContract` | `Spec => BoundedStaleness` (the contract's `Spec`) |
| `MultiLevelCacheProofs!TypeCorrect` | `Spec => []TypeOK` |
| `MultiLevelCacheProofs!DeletionsAreFelt` | `Spec => []DeletionIsFelt` |
| `MultiLevelCacheProofs!ImplementsContract` | `Spec => BoundedStaleness` (the contract's `Spec`) |
| `MarketingContentProofs!TypeCorrect` | `Spec => []TypeOK` |
| `MarketingContentProofs!PublishesWhatIsShown` | `Spec => []PublishedAsSeen` |
| `MarketingContentProofs!StatusTells` | `Spec => []StatusIsTrue` |
| `MarketingContentProofs!PreviewsAreExact` | `Spec => []PreviewShowsItsDraft` |
| `MarketingContentProofs!PublishedStays` | `Spec => VersionsAreKept` |
| `StaticConfigProofs!TypeCorrect` | `Spec => []TypeOK` |
| `StaticConfigProofs!AnswersAreFresh` | `Spec => []FreshAfterClear` |
| `StaticConfigProofs!OneLoadAtATime` | `Spec => []LoadsAreShared` |
| `MetricsBufferProofs!TypeCorrect` | `Spec => []TypeOK` |
| `MetricsBufferProofs!ReportedInOrder` | `Spec => []InOrder` |
| `MetricsBufferProofs!NeverStranded` | `Spec => []NothingStranded` |
| `MetricsBufferProofs!NewestSurvive` | `Spec => []NewestAreKept` |

Each module's invariant is proved inductive (`IInv`; in the ledger also `Accounts`,
`SpendingInv`, `Recorded`, `ExactRows` and `MonthlyInv`; in the webhook `TInv`, `CInv`,
`OnceInv`, `PaidByDeliveries` and `Mirrored`; in the multi-level cache `FInv`) by one lemma per
action; the theorems follow from it.

*Ledger.* `GrantAccounted` is not inductive: a request writes a remainder computed
from its snapshot, so the proof must know what snapshots can hold. The inductive
invariant adds, for every request and every row of its snapshot, that the row is
a grant, that the snapshot lies between one and the grant's amount, and that it
shows at least what was not drawn from the row, `amount <= snap[i] + taken[i]`:
`taken` only grows, so an old snapshot shows too much, never too little. A write
of `snap[i] - deducted` adds `deducted` to `taken[i]` and keeps the inequality,
and `deducted <= snap[i]` keeps the remainder from going below zero.

*Ledger, sums.* `LogExplainsBalance` and `BalanceIsBacked` follow from two accounts
(`Accounts`): the balance is the sum of the logged amounts, less what expired, plus
what is under way; and what was drawn from rows is charged, expired or under way.
The second is what `BalanceIsBacked` lacks: `taken` counts a draw from a row even
where two requests write the same remainder over each other, so the rows together
hold at least their amounts less `taken` (`GrantAccounted`), and every credit that
was drawn has left the balance or is about to. Each statement is shown to move both
sides of each account by the same amount (`EntriesBalance`), and a request that is
cut short moves one side by at most `LargestAmount`, which `Slack` grows by. What a
step does to a sum over rows or requests is derived from the definition of
`SumFunction` by taking a least set on which it would fail (`WFMin` over the
proper-subset order), since the library's induction theorems take an operator.
`UsageIsRecorded` counts USAGE rows, events and requests between them in the same
way (`Recorded`).

*Ledger, spending.* Credits granted and not spent, plus one cost per other request, are
at least what requests that passed the check have yet to charge (`SpendingInv`). A
charge takes its cost off both sides; the check compares the balance with one cost
when the others have at most one cost each to charge. A purchase or a refresh only
adds, and what an expiry takes is counted back.

*Ledger, serial.* With one request at a time, the
snapshot of a loop shows what the rows hold (`SnapIsCurrent`), so that a remainder
written from it is exact (`ExactRows`). For the month: when a refresh inserts its
grant, what `ReadRefreshState` decided is still true (`RefreshIsDue`), and
`lastCreditRefreshAt` knows of every earlier grant (`GrantIsRemembered`) unless the
request that inserted it was cut short before it set the column: then one failure
is not used up by an early grant, and pays for the next (`MonthlyInv`).

*Breaker.* The invariant joins the slot counter, the number of calls admitted in
the period, the failure count and the run of failures. The late release of a call
of an earlier period cannot lower the counter unnoticed: a release follows
`recordSuccess` or `recordFailure` in the same action, and in a half-open breaker
both leave the state, which clears the counter.

*Webhook.* For replay protection: the key of a delivery was set as often as it was
dispatched, each time when the one before had expired, so it expires no earlier than
that many tolerances after the delivery was sent (`Spaced`); and a handler about to set
it checked the timestamp no longer than `MaxLatency` ago (`Checked`). For `DoneMeansCredited`: a
handler past `readCustomer` works on the account of the user who paid, one past
`addBalance` has put the credits there, and one past `logPurchase` has made the
order `Credited`; balances and purchases only grow, so it stays so; the marker
and the answer 200 come after. This needs two facts about the provider's data,
stated as `OrdersMakeSense`: the events of one order agree on user and credits,
and a customer of the provider belongs to one user.

*Webhook, once.* An order whose credits are one more than the failures is marked in
`credits_history`, or its handler is at the insert of the marker; a handler between
the lookup and its own credits has an order that was credited by requests that were
cut short only (`OrderOnce`). The lookup gives the second half, and that no other
handler of the order runs in between keeps it. Without that premise
`CreditsAreDelivered` is what remains: each dispatch of a delivery has one handler,
which credits once (`PaidByDeliveries`); by `RepeatsAreFew` there are few of them.

*Webhook, mirror.* Whatever is about to be written to `customers.credits` was earned
when it was computed (`Mirrored`): for the webhook, what it read was in the column and
its package counts as being earned from the write on; for a recorded usage, what it
read was the balance, which is at most what was earned by those whose PURCHASE row is
still to come. What was earned never decreases (`NobodyEarnsLess`), so a stale write
is of too little, never of too much. A handler that dies takes its package out of what
is being earned and adds a failure, which allows for a package at least as large.

*Caches.* Ages are counted back from the expiry: a row, or a copy in a level,
shows data that was current at `expires - MaxStale` or later (`RowFits`,
`MemoryFits`, `RedisFits`), which does not change as time passes; what a request
or a background command holds was current at a time relative to when it began.
The refinement then needs only that what is served had not expired when its request
found it. `overtaken` is part of the same predicates. For `DeletionIsFelt` (`FInv`):
while Redis has what was deleted, the DEL is on its way; nothing that is on its way to
Redis is older; a request that got it there was called while the DEL was pending, and a
copy in memory expires a memory TTL and two latencies after the deletion at the latest.

*Marketing.* Whoever has no excuse agrees with the draft: what a page shows
(`EditorFits`), what a GET has read (`ReadingFits`), what a save was given
(`SaveFits`), what a publish has seen, read and inserted (`PublishFits`). A save
changes the draft and excuses everybody else in the same step.

*Static configuration.* The promise of an isolate is exactly its load that was
neither missed by a clearing nor orphaned (`PromisesFit`); such a load has rows at
least as new as the last clearing (`LoadsFit`), and so has what the requests that
wait for it need (`RequestsFit`).

*Metrics.* The buffer is a sequence of numbers at least one apart (`Spread`), so
that what is dropped from the front of `k` metrics is at least `k` behind the
newest (`Kept`); the batch in flight comes before it, what was reported before
both (`Sound`). A batch whose request was dropped stays where it is, in flight for
ever: as far as the code knows, it is still being reported.

Only model-checked: the liveness properties `Recovers`, `NeverSticks` and
`EventuallyReported` (fairness is outside what the prover does). Every other
property of a passing run is stated by a theorem; `NoOverdraft` is what its run
refutes.

## Not modelled

- Formatting, validation of request bodies, logging, metrics' contents and HTML;
  sessions, which a library keeps; KV and R2 internals.
- The sliding window of the rate limiter, which is a library's; what the program
  adds is failing open, a choice in `CreemWebhook`.
- The summarize route: one read-through of the modelled cache around the modelled
  summarizer. A degraded summary is stored for as long as a real one.
- Site settings: read one row, merge, write it; of two overlapping saves the later
  one wins, which the code does not claim to prevent.
- Checkout and customer portal: one upstream call per request; the program keeps
  no state of it, orders enter through the webhook.
- Todos and categories: single-row writes of one owner, an image and its row in
  two steps that nothing relates afterwards.
- Client hooks: overlapping actions of one hook show the result that comes last;
  no state outlives the component.
- Next's "use cache" layer above `lib/static-config`: the framework's. The
  construction of a bundle from messages: a pure function.
- Administration lists, SEO, health, translation, OpenAPI, UI, build and
  documentation scripts: by far the most of the lines of the repository. They are
  rendering, formatting, pure I/O or single statements, with no step between
  which another actor could come. This is why the modelled code is a small part
  of the repository.

PROJECT.json lists every component with its status, and every hazard with the
property that covers it, or why none does.

## Plan

1. `CreditAccount`, an abstract account with grants, charges and expiries as single
   steps, implemented by `CreditLedger` with one worker: what a request promises
   when it is alone.
2. `OrderFulfilment` (an order is paid, credited, done), implemented by
   `CreemWebhook` under `OrdersAreSerial`.
3. Bounds without `Serial`: how many early grants overlapping refreshes can make, in
   the manner of `CreditsAreDelivered`.
4. `TodoImages` (upload, row, removal) if the code comes to relate the two, and
   `SiteSettings` if it comes to detect overlapping saves.
