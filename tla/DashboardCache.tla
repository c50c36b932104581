---------------------------- MODULE DashboardCache ----------------------------
(***************************************************************************)
(* The persisted dashboard metrics: readers answer from a row of           *)
(* admin_dashboard_cache or compute the metrics and upsert the row, a      *)
(* scheduled job recomputes rows with a TTL of its own, and the billing    *)
(* service deletes the rows of a tenant, and those of all tenants, after   *)
(* it changed a subscription or a balance                                  *)
(* (admin/services/analytics.service.ts, creem/services/billing.service.ts,*)
(* scripts/refresh-dashboard-metrics.ts).                                  *)
(*                                                                         *)
(* Every statement is an action; the statements of one Promise.all run in  *)
(* any order.  Data is abstracted to the number of changes it reflects.    *)
(* What a row holds was written by JSON.stringify, so it parses; the ids   *)
(* of tenants differ from "global".  The platform ends a request that      *)
(* takes longer than MaxLatency.                                           *)
(***************************************************************************)
EXTENDS Integers, Sequences, FiniteSets

CONSTANTS
  Readers,     \* dashboard requests and refresh jobs that can run together
  Mutators,    \* billing handlers that can run together
  Tenants,
  Froms,       \* the `from` filters asked for
  Parts,       \* the five fetches of computeDashboardMetrics
  DefaultTtl,  \* DEFAULT_CACHE_TTL_MS, in clock ticks
  JobTtls,     \* TTLs the refresh job is started with
  MaxTtl,      \* the longest of them all
  MaxLatency,  \* ticks a request may take
  MaxTime,     \* bound: last clock tick
  MaxChanges,  \* bound: changes of the data
  MaxFailures  \* bound: statements that fail and handlers that die

\* tenantId null: the metrics of all tenants.
Global == "global"
Scopes == Tenants \cup {Global}
Keys == [tenant: Scopes, from: Froms]

ASSUME DashboardAssumption ==
  /\ Global \notin Tenants
  /\ DefaultTtl \in Nat \ {0} /\ JobTtls \subseteq Nat
  /\ MaxTtl \in Nat /\ \A t \in JobTtls \cup {DefaultTtl} : t <= MaxTtl
  /\ {MaxLatency, MaxTime, MaxChanges, MaxFailures} \subseteq Nat
  /\ Parts # {} /\ Froms # {}

VARIABLES
  now,
  changedAt, \* scope -> times of the changes of its data
  rows,      \* admin_dashboard_cache: key -> row, the rows that exist
  pc,        \* per reader: the statement it runs next
  key,       \* per reader: the key it was called with
  ttl,       \* per reader: the TTL it will write
  started,   \* per reader: when it was called
  fetched,   \* per reader: the parts it has, part -> version
  overtaken, \* per reader, history: an invalidation overtook parts it has
  todo,      \* per mutator: the scopes it has yet to invalidate
  made,      \* per mutator: the version its change made, per scope
  cleared,   \* scope -> history: the newest change followed by an invalidation
  failures,
  answers    \* history: the answer given by the last step, if it gave one

reader == <<pc, key, ttl, started, fetched, overtaken>>
mutator == <<todo, made, cleared>>
vars == <<now, changedAt, rows, reader, mutator, failures, answers>>

Contract == INSTANCE StalenessContract WITH MaxStale <- MaxTtl + MaxLatency

Version(s) == Len(changedAt[s])
Nothing == [p \in {} |-> 0]
Extend(f, k, v) == [x \in DOMAIN f \cup {k} |-> IF x = k THEN v ELSE f[x]]
Without(f, K) == [x \in DOMAIN f \ K |-> f[x]]
NoKey == CHOOSE k \in Keys : TRUE

Init ==
  /\ now = 0
  /\ changedAt = [s \in Scopes |-> <<>>]
  /\ rows = Nothing
  /\ pc = [r \in Readers |-> "idle"]
  /\ key = [r \in Readers |-> NoKey]
  /\ ttl = [r \in Readers |-> DefaultTtl]
  /\ started = [r \in Readers |-> 0]
  /\ fetched = [r \in Readers |-> Nothing]
  /\ overtaken = [r \in Readers |-> FALSE]
  /\ todo = [m \in Mutators |-> {}]
  /\ made = [m \in Mutators |-> [s \in Scopes |-> 0]]
  /\ cleared = [s \in Scopes |-> 0]
  /\ failures = 0
  /\ answers = {}

-----------------------------------------------------------------------------
(* getDashboardMetrics and refreshDashboardMetricsCache.                   *)

Call(r, k, t, first) ==
  /\ pc[r] = "idle"
  /\ pc' = [pc EXCEPT ![r] = first]
  /\ key' = [key EXCEPT ![r] = k]
  /\ ttl' = [ttl EXCEPT ![r] = t]
  /\ started' = [started EXCEPT ![r] = now]
  /\ fetched' = [fetched EXCEPT ![r] = Nothing]
  /\ overtaken' = [overtaken EXCEPT ![r] = FALSE]
  /\ UNCHANGED <<now, changedAt, rows, mutator, failures>>
  /\ answers' = {}

GetMetrics(r, k) == Call(r, k, DefaultTtl, "select")

RefreshMetrics(r, k, t) == Call(r, k, t, "fetch")

Goto(r, step) ==
  /\ pc' = [pc EXCEPT ![r] = step]
  /\ answers' = {}
  /\ UNCHANGED <<key, ttl, started, overtaken>>

\* The call ends.
Leave(r) ==
  /\ pc' = [pc EXCEPT ![r] = "idle"]
  /\ key' = [key EXCEPT ![r] = NoKey]
  /\ ttl' = [ttl EXCEPT ![r] = DefaultTtl]
  /\ started' = [started EXCEPT ![r] = 0]
  /\ fetched' = [fetched EXCEPT ![r] = Nothing]
  /\ overtaken' = [overtaken EXCEPT ![r] = FALSE]

Reply(r, versions) ==
  /\ Leave(r)
  /\ answers' = {[scope |-> key[r].tenant, versions |-> versions]}

\* Mutant: an expired row is served one more tick.
MutantExpired(row) == row.expires < now

Expired(row) == row.expires <= now

\* loadCachedDashboardMetrics: the SELECT.
Select(r) ==
  /\ pc[r] = "select"
  /\ \/ key[r] \notin DOMAIN rows /\ Goto(r, "fetch") /\ UNCHANGED fetched
     \/ /\ key[r] \in DOMAIN rows
        /\ \/ Expired(rows[key[r]]) /\ Goto(r, "prune") /\ UNCHANGED fetched
           \/ ~Expired(rows[key[r]]) /\ Reply(r, rows[key[r]].versions)
  /\ UNCHANGED <<now, changedAt, rows, mutator, failures>>

\* The DELETE of the expired row, whatever row has the key by now.
Prune(r) ==
  /\ pc[r] = "prune"
  /\ Goto(r, "fetch")
  /\ rows' = Without(rows, {key[r]})
  /\ UNCHANGED <<now, changedAt, fetched, mutator, failures>>

\* Mutant: the metrics are put together when the first fetch has answered.
MutantComplete(parts) == parts # {}

Complete(parts) == Parts \subseteq parts

\* computeDashboardMetrics: one of the fetches.
Fetch(r, p) ==
  /\ pc[r] = "fetch" /\ p \notin DOMAIN fetched[r]
  /\ fetched' = [fetched EXCEPT ![r] = Extend(fetched[r], p, Version(key[r].tenant))]
  /\ Goto(r, IF Complete(DOMAIN fetched[r] \cup {p}) THEN "write" ELSE "fetch")
  /\ UNCHANGED <<now, changedAt, rows, mutator, failures>>

Row(r) == [versions |-> fetched[r], expires |-> now + ttl[r], overtaken |-> overtaken[r]]

\* writeDashboardCacheEntry: the TTL counts from the write.
Write(r) ==
  /\ pc[r] = "write"
  /\ rows' = Extend(rows, key[r], Row(r))
  /\ Reply(r, fetched[r])
  /\ UNCHANGED <<now, changedAt, mutator, failures>>

\* A statement rejects or the request is dropped: no answer.
Fail(r) ==
  /\ pc[r] # "idle" /\ failures < MaxFailures
  /\ failures' = failures + 1
  /\ Leave(r) /\ answers' = {}
  /\ UNCHANGED <<now, changedAt, rows, mutator>>

-----------------------------------------------------------------------------
(* createOrUpdateSubscription and addCreditsToCustomer, from their last    *)
(* write on; invalidateDashboardCacheForTenant.                            *)

Affected(t) == {Global, t}

\* The write of the billing service.
Change(m, t) ==
  /\ todo[m] = {} /\ Len(changedAt[Global]) < MaxChanges
  /\ changedAt' = [s \in Scopes |-> IF s \in Affected(t) THEN Append(changedAt[s], now)
                                                         ELSE changedAt[s]]
  /\ todo' = [todo EXCEPT ![m] = Affected(t)]
  /\ made' = [made EXCEPT ![m] = [s \in Scopes |-> Len(changedAt'[s])]]
  /\ answers' = {}
  /\ UNCHANGED <<now, rows, reader, cleared, failures>>

\* Mutant: the column is compared with null, which matches no row.
MutantRowsOf(s) == {k \in DOMAIN rows : k.tenant = s /\ s # Global}

\* The WHERE of invalidateDashboardMetricsCache({ tenantId }): any `from`.
RowsOf(s) == {k \in DOMAIN rows : k.tenant = s}

\* The call has parts that are older than the change.
Overtaken(r, s, v) ==
  pc[r] # "idle" /\ key[r].tenant = s /\ \E p \in DOMAIN fetched[r] : fetched[r][p] < v

\* One of the two DELETEs that run in parallel.
Invalidate(m, s) ==
  /\ s \in todo[m]
  /\ todo' = [todo EXCEPT ![m] = todo[m] \ {s}]
  /\ rows' = Without(rows, RowsOf(s))
  /\ cleared' = [cleared EXCEPT ![s] = IF made[m][s] > cleared[s] THEN made[m][s] ELSE cleared[s]]
  /\ overtaken' = [r \in Readers |-> overtaken[r] \/ Overtaken(r, s, made[m][s])]
  /\ UNCHANGED <<now, changedAt, pc, key, ttl, started, fetched, made, failures>>
  /\ answers' = {}

\* Its rejection is only logged; a handler that dies is the loss of both.
LoseInvalidation(m, s) ==
  /\ s \in todo[m] /\ failures < MaxFailures
  /\ failures' = failures + 1
  /\ todo' = [todo EXCEPT ![m] = todo[m] \ {s}]
  /\ UNCHANGED <<now, changedAt, rows, reader, made, cleared>>
  /\ answers' = {}

\* No request outlives MaxLatency.
Tick ==
  /\ now < MaxTime
  /\ \A r \in Readers : pc[r] # "idle" => now < started[r] + MaxLatency
  /\ now' = now + 1
  /\ answers' = {}
  /\ UNCHANGED <<changedAt, rows, reader, mutator, failures>>

Next ==
  \/ Tick
  \/ \E r \in Readers, k \in Keys :
       GetMetrics(r, k) \/ \E t \in JobTtls : RefreshMetrics(r, k, t)
  \/ \E r \in Readers : Select(r) \/ Prune(r) \/ Write(r) \/ Fail(r) \/ \E p \in Parts : Fetch(r, p)
  \/ \E m \in Mutators : \/ \E t \in Tenants : Change(m, t)
                         \/ \E s \in Scopes : Invalidate(m, s) \/ LoseInvalidation(m, s)

Spec == Init /\ [][Next]_vars

-----------------------------------------------------------------------------
(* Properties.                                                             *)

Steps == {"idle", "select", "prune", "fetch", "write"}

\* Rows and calls hold what their columns and variables can hold; a call that
\* writes has every part.
TypeOK ==
  /\ now \in Nat /\ failures \in Nat
  /\ changedAt \in [Scopes -> Seq(Nat)]
  /\ DOMAIN rows \subseteq Keys
  /\ \A k \in DOMAIN rows : rows[k] \in [versions: [Parts -> Nat], expires: Nat, overtaken: BOOLEAN]
  /\ pc \in [Readers -> Steps] /\ key \in [Readers -> Keys]
  /\ ttl \in [Readers -> 0..MaxTtl] /\ started \in [Readers -> Nat]
  /\ overtaken \in [Readers -> BOOLEAN]
  /\ DOMAIN fetched = Readers
  /\ \A r \in Readers : /\ DOMAIN fetched[r] \subseteq Parts
                        /\ \A p \in DOMAIN fetched[r] : fetched[r][p] \in Nat
                        /\ pc[r] = "write" => DOMAIN fetched[r] = Parts
  /\ todo \in [Mutators -> SUBSET Scopes]
  /\ made \in [Mutators -> [Scopes -> Nat]] /\ cleared \in [Scopes -> Nat]

\* Whoever asks, whatever overlaps, fails or dies, no part of an answer was
\* replaced as long ago as the longest TTL and the latency of the call that
\* wrote the row: the detailed cache implements the contract.
BoundedStaleness == Contract!Spec

\* A row older than a change whose invalidation was carried out was written by a
\* call that already had the old data then: readers that come after an invalidation
\* never bring the old data back (billing.service.ts invalidates after it writes).
OnlyOverlapLeavesStale ==
  \A k \in DOMAIN rows :
    (\E p \in Parts : rows[k].versions[p] < cleared[k.tenant]) => rows[k].overtaken
=============================================================================
