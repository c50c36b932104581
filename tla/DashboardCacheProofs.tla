-------------------------- MODULE DashboardCacheProofs --------------------------
(***************************************************************************)
(* Proofs about DashboardCache, for any readers, billing handlers, tenants,*)
(* TTLs and failures: it implements StalenessContract.                     *)
(***************************************************************************)
EXTENDS DashboardCache, SequenceTheorems, TLAPS

\* Version v of scope s is current, or was replaced at time t or later.
Since(changes, s, v, t) ==
  /\ v \in 0..Len(changes[s])
  /\ v < Len(changes[s]) => t <= changes[s][v + 1]

RowType == [versions: [Parts -> Nat], expires: Nat, overtaken: BOOLEAN]

ClockFits == now \in Nat /\ failures \in Nat /\ changedAt \in [Scopes -> Seq(Nat)]

ReadersTyped ==
  /\ pc \in [Readers -> Steps] /\ key \in [Readers -> Keys]
  /\ ttl \in [Readers -> 0..MaxTtl] /\ started \in [Readers -> Nat]
  /\ overtaken \in [Readers -> BOOLEAN] /\ DOMAIN fetched = Readers

\* A call is young, and what it has was current at some time since it was called.
ReaderFits(r) ==
  /\ pc[r] # "idle" => started[r] <= now /\ now <= started[r] + MaxLatency
  /\ pc[r] = "idle" => DOMAIN fetched[r] = {}
  /\ pc[r] = "write" => DOMAIN fetched[r] = Parts
  /\ DOMAIN fetched[r] \subseteq Parts /\ fetched[r] \in [DOMAIN fetched[r] -> Nat]
  /\ \A p \in DOMAIN fetched[r] :
       /\ Since(changedAt, key[r].tenant, fetched[r][p], started[r])
       /\ fetched[r][p] < cleared[key[r].tenant] => overtaken[r]

ReadersFit == \A r \in Readers : ReaderFits(r)

\* A row of scope s expires before its data can be older than promised.
RowFits(row, s) ==
  /\ row \in RowType
  /\ row.expires <= now + MaxTtl
  /\ \A p \in Parts : /\ Since(changedAt, s, row.versions[p], row.expires - (MaxTtl + MaxLatency))
                      /\ row.versions[p] < cleared[s] => row.overtaken

RowsFit == DOMAIN rows \subseteq Keys /\ \A k \in DOMAIN rows : RowFits(rows[k], k.tenant)

MutatorsFit ==
  /\ todo \in [Mutators -> SUBSET Scopes]
  /\ made \in [Mutators -> [Scopes -> Nat]] /\ cleared \in [Scopes -> Nat]
  /\ \A s \in Scopes : cleared[s] <= Version(s) /\ \A m \in Mutators : made[m][s] <= Version(s)

\* The inductive invariant.
IInv == ClockFits /\ ReadersTyped /\ ReadersFit /\ RowsFit /\ MutatorsFit

-----------------------------------------------------------------------------
(* The parts of the state.                                                 *)

\* TTLs and keys are what the constants say.
LEMMA Constants ==
  /\ MaxTtl \in Nat \ {0} /\ MaxLatency \in Nat
  /\ DefaultTtl \in 0..MaxTtl /\ JobTtls \subseteq 0..MaxTtl
  /\ NoKey \in Keys /\ Global \in Scopes /\ Tenants \subseteq Scopes
  /\ \A k \in Keys : k.tenant \in Scopes
<1>1. /\ MaxTtl \in Nat \ {0} /\ MaxLatency \in Nat
      /\ DefaultTtl \in 0..MaxTtl /\ JobTtls \subseteq 0..MaxTtl
  BY DashboardAssumption
<1>2. Global \in Scopes /\ Tenants \subseteq Scopes
  BY DEF Scopes
<1>3. PICK f \in Froms : TRUE
  BY DashboardAssumption
<1>4. [tenant |-> Global, from |-> f] \in Keys
  BY <1>2, <1>3 DEF Keys
<1>5. NoKey \in Keys
  BY <1>4 DEF NoKey
<1> QED
  BY <1>1, <1>2, <1>5 DEF Keys

\* Taking keys out of a function.
LEMMA WithoutUpdates ==
  ASSUME NEW f, NEW K
  PROVE  /\ DOMAIN Without(f, K) = DOMAIN f \ K
         /\ \A x \in DOMAIN f \ K : Without(f, K)[x] = f[x]
BY DEF Without

\* The rows, the clock and what was invalidated stay as they are.
Still == UNCHANGED <<now, changedAt, rows, todo, made, cleared>>

\* A step of reader r alone.
LEMMA ReaderStep ==
  ASSUME IInv, NEW r \in Readers, Still, failures' \in Nat,
         ReadersTyped', ReaderFits(r)',
         \A q \in Readers : q # r => /\ pc'[q] = pc[q] /\ key'[q] = key[q] /\ started'[q] = started[q]
                                     /\ fetched'[q] = fetched[q] /\ overtaken'[q] = overtaken[q]
  PROVE  IInv'
<1>1. UNCHANGED <<now, changedAt, rows, todo, made, cleared>>
  BY DEF Still
<1>2. ReadersFit'
  <2>1. ASSUME NEW q \in Readers, q # r
        PROVE  ReaderFits(q)'
    <3>1. /\ pc'[q] = pc[q] /\ key'[q] = key[q] /\ started'[q] = started[q]
          /\ fetched'[q] = fetched[q] /\ overtaken'[q] = overtaken[q]
      BY <2>1
    <3>2. ReaderFits(q)
      BY DEF IInv, ReadersFit
    <3> QED
      BY <1>1, <3>1, <3>2 DEF ReaderFits, Since
  <2> QED
    BY <2>1 DEF ReadersFit
<1>3. ClockFits' /\ RowsFit' /\ MutatorsFit'
  BY <1>1 DEF IInv, ClockFits, RowsFit, RowFits, MutatorsFit, Version, Since
<1> QED
  BY <1>2, <1>3 DEF IInv

\* A call that ends leaves nothing behind.
LEMMA LeaveFits ==
  ASSUME IInv, NEW r \in Readers, Leave(r)
  PROVE  /\ ReadersTyped' /\ ReaderFits(r)'
         /\ \A q \in Readers : q # r => /\ pc'[q] = pc[q] /\ key'[q] = key[q] /\ started'[q] = started[q]
                                        /\ fetched'[q] = fetched[q] /\ overtaken'[q] = overtaken[q]
<1>1. ReadersTyped
  BY DEF IInv
<1>2. ReadersTyped'
  BY <1>1, Constants DEF Leave, ReadersTyped, Steps
<1>3. pc'[r] = "idle" /\ fetched'[r] = Nothing
  BY <1>1 DEF Leave, ReadersTyped
<1>4. Nothing \in [DOMAIN Nothing -> Nat] /\ DOMAIN Nothing = {}
  BY DEF Nothing
<1>5. ReaderFits(r)'
  BY <1>3, <1>4 DEF ReaderFits
<1> QED
  BY <1>1, <1>2, <1>5 DEF Leave, ReadersTyped

\* A call goes on with its next statement.
LEMMA GotoFits ==
  ASSUME IInv, NEW r \in Readers, NEW step \in Steps, Goto(r, step)
  PROVE  /\ pc' \in [Readers -> Steps] /\ pc'[r] = step
         /\ UNCHANGED <<key, ttl, started, overtaken>>
         /\ \A q \in Readers : q # r => pc'[q] = pc[q]
BY DEF IInv, ReadersTyped, Goto

-----------------------------------------------------------------------------
(* The steps of readers.                                                   *)

\* A call begins.
LEMMA CallFits ==
  ASSUME IInv, NEW r \in Readers, NEW k \in Keys, NEW t \in 0..MaxTtl,
         NEW first \in {"select", "fetch"}, Call(r, k, t, first)
  PROVE  IInv'
<1>1. ReadersTyped /\ now \in Nat
  BY DEF IInv, ClockFits
<1>2. ReadersTyped'
  BY <1>1 DEF Call, ReadersTyped, Steps
<1>3. pc'[r] = first /\ fetched'[r] = Nothing /\ started'[r] = now
  BY <1>1 DEF Call, ReadersTyped
<1>4. Nothing \in [DOMAIN Nothing -> Nat] /\ DOMAIN Nothing = {}
  BY DEF Nothing
<1>5. now' = now /\ Still /\ failures' \in Nat
  BY DEF Call, Still, mutator, IInv, ClockFits
<1>6. ReaderFits(r)'
  BY <1>1, <1>3, <1>4, <1>5, Constants DEF ReaderFits
<1>7. \A q \in Readers : q # r => /\ pc'[q] = pc[q] /\ key'[q] = key[q] /\ started'[q] = started[q]
                                  /\ fetched'[q] = fetched[q] /\ overtaken'[q] = overtaken[q]
  BY <1>1 DEF Call, ReadersTyped
<1> QED
  BY <1>2, <1>5, <1>6, <1>7, ReaderStep

\* A call goes from one statement to another with the parts it has.
LEMMA MoveFits ==
  ASSUME IInv, NEW r \in Readers, NEW step \in {"prune", "fetch"}, Goto(r, step),
         pc[r] # "idle", fetched' = fetched, now' = now, changedAt' = changedAt, cleared' = cleared
  PROVE  /\ ReadersTyped' /\ ReaderFits(r)'
         /\ \A q \in Readers : q # r => /\ pc'[q] = pc[q] /\ key'[q] = key[q] /\ started'[q] = started[q]
                                        /\ fetched'[q] = fetched[q] /\ overtaken'[q] = overtaken[q]
<1>1. /\ pc' \in [Readers -> Steps] /\ pc'[r] = step
      /\ UNCHANGED <<key, ttl, started, overtaken>>
      /\ \A q \in Readers : q # r => pc'[q] = pc[q]
  BY GotoFits DEF Steps
<1>2. ReadersTyped'
  BY <1>1 DEF IInv, ReadersTyped
<1>3. ReaderFits(r)'
  BY <1>1 DEF IInv, ReadersFit, ReaderFits, Since
<1> QED
  BY <1>1, <1>2, <1>3

\* The SELECT.
LEMMA SelectFits ==
  ASSUME IInv, NEW r \in Readers, Select(r)
  PROVE  IInv'
<1>1. Still /\ failures' \in Nat /\ pc[r] = "select" /\ now' = now /\ changedAt' = changedAt /\ cleared' = cleared
  BY DEF Select, Still, mutator, IInv, ClockFits
<1>2. CASE Leave(r)
  BY <1>1, <1>2, LeaveFits, ReaderStep
<1>3. ASSUME NEW step \in {"prune", "fetch"}, Goto(r, step), fetched' = fetched
      PROVE  IInv'
  BY <1>1, <1>3, MoveFits, ReaderStep
<1> QED
  BY <1>2, <1>3 DEF Select, Reply

\* A fetch: the version it has is the current one.
LEMMA FetchFits ==
  ASSUME IInv, NEW r \in Readers, NEW p \in Parts, Fetch(r, p)
  PROVE  IInv'
<1> DEFINE s == key[r].tenant
           f == Extend(fetched[r], p, Version(s))
           step == IF Complete(DOMAIN fetched[r] \cup {p}) THEN "write" ELSE "fetch"
<1>1. /\ Still /\ failures' \in Nat /\ pc[r] = "fetch"
      /\ now' = now /\ changedAt' = changedAt /\ cleared' = cleared
      /\ fetched' = [fetched EXCEPT ![r] = f]
      /\ Goto(r, step)
  BY DEF Fetch, Still, mutator, IInv, ClockFits
<1>2. /\ DOMAIN fetched = Readers /\ s \in Scopes
      /\ DOMAIN fetched[r] \subseteq Parts /\ fetched[r] \in [DOMAIN fetched[r] -> Nat]
      /\ started[r] \in Nat /\ started[r] <= now /\ now <= started[r] + MaxLatency
      /\ changedAt[s] \in Seq(Nat) /\ cleared[s] <= Version(s) /\ cleared[s] \in Nat
  BY <1>1, Constants DEF IInv, ReadersTyped, ReadersFit, ReaderFits, ClockFits, MutatorsFit
<1>3. Version(s) \in Nat /\ Since(changedAt, s, Version(s), started[r]) /\ ~(Version(s) < cleared[s])
  BY <1>2 DEF Version, Since
<1>4. /\ DOMAIN f = DOMAIN fetched[r] \cup {p}
      /\ f[p] = Version(s) /\ \A x \in DOMAIN fetched[r] : x # p => f[x] = fetched[r][x]
  <2> DEFINE g == fetched[r]
             v == Version(s)
  <2> HIDE DEF g, v
  <2>1. /\ DOMAIN Extend(g, p, v) = DOMAIN g \cup {p} /\ Extend(g, p, v)[p] = v
        /\ \A x \in DOMAIN g : x # p => Extend(g, p, v)[x] = g[x]
    BY DEF Extend
  <2> QED
    BY <2>1 DEF g, v
<1>5. f \in [DOMAIN f -> Nat]
  <2>1. \A x \in DOMAIN f : f[x] \in Nat
    BY <1>2, <1>3, <1>4
  <2>2. f = [x \in DOMAIN f |-> f[x]]
    BY DEF Extend
  <2> QED
    BY <2>1, <2>2
<1>6. DOMAIN f \subseteq Parts /\ (step = "write" => DOMAIN f = Parts) /\ step \in Steps /\ step # "idle"
  BY <1>2, <1>4 DEF Complete, Steps
<1>7. /\ pc' \in [Readers -> Steps] /\ pc'[r] = step
      /\ UNCHANGED <<key, ttl, started, overtaken>>
      /\ \A q \in Readers : q # r => pc'[q] = pc[q]
  BY <1>1, <1>6, GotoFits
<1> HIDE DEF f, step
<1>8. DOMAIN fetched' = Readers /\ fetched'[r] = f /\ \A q \in Readers : q # r => fetched'[q] = fetched[q]
  BY <1>1, <1>2
<1>9. ReadersTyped'
  BY <1>7, <1>8 DEF IInv, ReadersTyped
<1>10. \A x \in DOMAIN f : Since(changedAt, s, f[x], started[r]) /\ (f[x] < cleared[s] => overtaken[r])
  BY <1>3, <1>4 DEF IInv, ReadersFit, ReaderFits
<1>11. ReaderFits(r)'
  BY <1>1, <1>2, <1>5, <1>6, <1>7, <1>8, <1>10 DEF ReaderFits
<1> QED
  BY <1>1, <1>7, <1>8, <1>9, <1>11, ReaderStep

\* A call fails or is dropped.
LEMMA FailFits ==
  ASSUME IInv, NEW r \in Readers, Fail(r)
  PROVE  IInv'
<1>1. Still /\ failures' \in Nat /\ Leave(r)
  BY DEF Fail, Still, mutator, IInv, ClockFits
<1> QED
  BY <1>1, LeaveFits, ReaderStep

\* The clock stands still and reader r alone takes a step, and rows fit.
LEMMA RowStep ==
  ASSUME IInv, NEW r \in Readers, UNCHANGED <<now, changedAt, todo, made, cleared, failures>>,
         ReadersTyped', ReaderFits(r)', RowsFit',
         \A q \in Readers : q # r => /\ pc'[q] = pc[q] /\ key'[q] = key[q] /\ started'[q] = started[q]
                                     /\ fetched'[q] = fetched[q] /\ overtaken'[q] = overtaken[q]
  PROVE  IInv'
<1>1. ReadersFit'
  BY DEF IInv, ReadersFit, ReaderFits, Since
<1>2. ClockFits' /\ MutatorsFit'
  BY DEF IInv, ClockFits, MutatorsFit, Version
<1> QED
  BY <1>1, <1>2 DEF IInv

\* Rows that are deleted leave rows that fit.
LEMMA WithoutFits ==
  ASSUME RowsFit, NEW K, rows' = Without(rows, K), UNCHANGED <<now, changedAt, cleared>>
  PROVE  RowsFit'
<1>1. DOMAIN rows' = DOMAIN rows \ K /\ \A k \in DOMAIN rows \ K : rows'[k] = rows[k]
  BY WithoutUpdates
<1> QED
  BY <1>1 DEF RowsFit, RowFits, Since

\* The DELETE of an expired row.
LEMMA PruneFits ==
  ASSUME IInv, NEW r \in Readers, Prune(r)
  PROVE  IInv'
<1>1. /\ UNCHANGED <<now, changedAt, todo, made, cleared, failures>> /\ fetched' = fetched
      /\ pc[r] # "idle" /\ Goto(r, "fetch") /\ rows' = Without(rows, {key[r]})
  BY DEF Prune, mutator
<1>2. RowsFit'
  BY <1>1, WithoutFits DEF IInv
<1> QED
  BY <1>1, <1>2, MoveFits, RowStep

\* The upsert: the row expires before its data can be older than promised.
LEMMA WriteFits ==
  ASSUME IInv, NEW r \in Readers, Write(r)
  PROVE  IInv'
<1> DEFINE s == key[r].tenant
           row == Row(r)
<1>1. /\ UNCHANGED <<now, changedAt, todo, made, cleared, failures>>
      /\ pc[r] = "write" /\ Leave(r) /\ rows' = Extend(rows, key[r], row)
  BY DEF Write, mutator, Reply
<1>2. /\ now \in Nat /\ ttl[r] \in 0..MaxTtl /\ started[r] \in Nat /\ overtaken[r] \in BOOLEAN
      /\ now <= started[r] + MaxLatency /\ key[r] \in Keys
      /\ fetched[r] \in [Parts -> Nat]
      /\ \A p \in Parts : /\ Since(changedAt, s, fetched[r][p], started[r])
                          /\ fetched[r][p] < cleared[s] => overtaken[r]
  BY <1>1 DEF IInv, ClockFits, ReadersTyped, ReadersFit, ReaderFits
<1>3. row.versions = fetched[r] /\ row.expires = now + ttl[r] /\ row.overtaken = overtaken[r]
      /\ row \in RowType
  BY <1>2 DEF Row, RowType
<1>4. row.expires - (MaxTtl + MaxLatency) <= started[r] /\ row.expires <= now + MaxTtl
  <2>1. MaxTtl \in Nat /\ MaxLatency \in Nat
    BY Constants
  <2> HIDE DEF row
  <2> QED
    BY <1>2, <1>3, <2>1
<1> HIDE DEF row, s
<1>5. ASSUME NEW p \in Parts
      PROVE  Since(changedAt, s, row.versions[p], row.expires - (MaxTtl + MaxLatency))
  <2>1. Since(changedAt, s, fetched[r][p], started[r])
    BY <1>2
  <2>2. s \in Scopes /\ changedAt[s] \in Seq(Nat)
    BY <1>2, Constants DEF s, IInv, ClockFits
  <2>3. fetched[r][p] < Len(changedAt[s]) => changedAt[s][fetched[r][p] + 1] \in Nat
    <3>1. fetched[r][p] \in Nat /\ Len(changedAt[s]) \in Nat
      BY <1>2, <2>2
    <3>2. fetched[r][p] < Len(changedAt[s]) => fetched[r][p] + 1 \in 1..Len(changedAt[s])
      BY <3>1
    <3> QED
      BY <2>2, <3>2, ElementOfSeq
  <2>4. row.expires - (MaxTtl + MaxLatency) \in Int
    BY <1>3, Constants DEF RowType
  <2> QED
    BY <1>2, <1>3, <1>4, <2>1, <2>3, <2>4 DEF Since
<1>6. /\ DOMAIN rows' = DOMAIN rows \cup {key[r]} /\ rows'[key[r]] = row
      /\ \A k \in DOMAIN rows : k # key[r] => rows'[k] = rows[k]
  <2> DEFINE k0 == key[r]
  <2> HIDE DEF k0
  <2>1. /\ DOMAIN Extend(rows, k0, row) = DOMAIN rows \cup {k0} /\ Extend(rows, k0, row)[k0] = row
        /\ \A k \in DOMAIN rows : k # k0 => Extend(rows, k0, row)[k] = rows[k]
    BY DEF Extend
  <2>2. rows' = Extend(rows, k0, row)
    BY <1>1 DEF k0
  <2> QED
    BY <2>1, <2>2 DEF k0
<1>7. ASSUME NEW k \in DOMAIN rows'
      PROVE  RowFits(rows[k], k.tenant)'
  <2>1. CASE k = key[r]
    <3>1. rows'[k] = row /\ k.tenant = s
      BY <1>6, <2>1 DEF s
    <3> QED
      BY <1>1, <1>2, <1>3, <1>4, <1>5, <3>1 DEF RowFits, Since
  <2>2. CASE k # key[r]
    <3>1. k \in DOMAIN rows /\ rows'[k] = rows[k]
      BY <1>6, <2>2
    <3> QED
      BY <1>1, <3>1 DEF IInv, RowsFit, RowFits, Since
  <2> QED
    BY <2>1, <2>2
<1>8. RowsFit'
  BY <1>2, <1>6, <1>7 DEF IInv, RowsFit
<1> QED
  BY <1>1, <1>8, LeaveFits, RowStep

-----------------------------------------------------------------------------
(* The steps of the billing service and of the clock.                      *)

\* No dashboard request has been made yet.
LEMMA InitFits == Init => IInv
<1> SUFFICES ASSUME Init
             PROVE  IInv
  OBVIOUS
<1>1. DOMAIN Nothing = {} /\ Nothing \in [DOMAIN Nothing -> Nat]
  BY DEF Nothing
<1>2. <<>> \in Seq(Nat) /\ Len(<<>>) = 0
  BY EmptySeq
<1>3. ClockFits
  BY <1>2 DEF Init, ClockFits
<1>4. ReadersTyped
  BY Constants DEF Init, ReadersTyped, Steps
<1>5. ReadersFit
  BY <1>1 DEF Init, ReadersFit, ReaderFits
<1>6. RowsFit
  BY <1>1 DEF Init, RowsFit
<1>7. MutatorsFit
  BY <1>2 DEF Init, MutatorsFit, Version
<1> QED
  BY <1>3, <1>4, <1>5, <1>6, <1>7 DEF IInv

\* A change replaces the newest version, now.
LEMMA SinceChange ==
  ASSUME ClockFits, NEW S, changedAt' = [s \in Scopes |-> IF s \in S THEN Append(changedAt[s], now) ELSE changedAt[s]],
         NEW s \in Scopes, NEW v, NEW t \in Int, t <= now, Since(changedAt, s, v, t)
  PROVE  Since(changedAt', s, v, t)
<1>1. changedAt[s] \in Seq(Nat) /\ now \in Nat
  BY DEF ClockFits
<1>2. CASE s \notin S
  <2>1. changedAt'[s] = changedAt[s]
    BY <1>2
  <2> QED
    BY <2>1 DEF Since
<1>3. CASE s \in S
  <2> DEFINE c == changedAt[s]
             d == changedAt'[s]
  <2>1. d = Append(c, now)
    BY <1>3
  <2>2. /\ Len(c) \in Nat /\ Len(d) = Len(c) + 1 /\ d[Len(c) + 1] = now
        /\ \A i \in 1..Len(c) : d[i] = c[i]
    BY <1>1, <2>1, AppendProperties
  <2>3. v \in 0..Len(c) /\ (v < Len(c) => t <= c[v + 1])
    BY DEF Since
  <2> HIDE DEF c, d
  <2>4. CASE v < Len(c)
    <3>1. v + 1 \in 1..Len(c)
      BY <2>2, <2>3, <2>4
    <3> QED
      BY <2>2, <2>3, <2>4, <3>1 DEF Since, c, d
  <2>5. CASE v = Len(c)
    BY <2>2, <2>3, <2>5 DEF Since, c, d
  <2> QED
    BY <2>2, <2>3, <2>4, <2>5
<1> QED
  BY <1>2, <1>3

\* A handler has written its change.
LEMMA ChangeFits ==
  ASSUME IInv, NEW m \in Mutators, NEW t \in Tenants, Change(m, t)
  PROVE  IInv'
<1> DEFINE S == Affected(t)
<1>1. /\ changedAt' = [s \in Scopes |-> IF s \in S THEN Append(changedAt[s], now) ELSE changedAt[s]]
      /\ todo' = [todo EXCEPT ![m] = S]
      /\ made' = [made EXCEPT ![m] = [s \in Scopes |-> Len(changedAt'[s])]]
      /\ UNCHANGED <<now, rows, pc, key, ttl, started, fetched, overtaken, cleared, failures>>
  BY DEF Change, reader
<1>2. S \in SUBSET Scopes
  BY Constants DEF Affected
<1> HIDE DEF S
<1>3. /\ now \in Nat /\ failures \in Nat /\ changedAt \in [Scopes -> Seq(Nat)] /\ ClockFits
  BY DEF IInv, ClockFits
<1>4. ASSUME NEW s \in Scopes
      PROVE  changedAt'[s] \in Seq(Nat) /\ Len(changedAt'[s]) \in Nat /\ Len(changedAt[s]) <= Len(changedAt'[s])
  <2>1. changedAt[s] \in Seq(Nat) /\ Len(changedAt[s]) \in Nat
    BY <1>3, LenProperties
  <2>2. Append(changedAt[s], now) \in Seq(Nat) /\ Len(Append(changedAt[s], now)) = Len(changedAt[s]) + 1
    BY <1>3, <2>1, AppendProperties
  <2>3. changedAt'[s] = IF s \in S THEN Append(changedAt[s], now) ELSE changedAt[s]
    BY <1>1
  <2> QED
    BY <2>1, <2>2, <2>3
<1>5. ClockFits'
  BY <1>1, <1>3, <1>4 DEF ClockFits
<1>6. ReadersTyped'
  BY <1>1 DEF IInv, ReadersTyped
<1>7. ReadersFit'
  <2> SUFFICES ASSUME NEW r \in Readers
               PROVE  ReaderFits(r)'
    BY DEF ReadersFit
  <2>1. ReaderFits(r) /\ key[r].tenant \in Scopes /\ started[r] \in Nat
    BY Constants DEF IInv, ReadersFit, ReadersTyped
  <2>2. ASSUME NEW p \in DOMAIN fetched[r]
        PROVE  Since(changedAt', key[r].tenant, fetched[r][p], started[r])
    <3>1. Since(changedAt, key[r].tenant, fetched[r][p], started[r])
      BY <2>1 DEF ReaderFits
    <3>2. started[r] <= now /\ started[r] \in Int
      BY <2>1 DEF ReaderFits
    <3> QED
      BY <1>1, <1>3, <2>1, <3>1, <3>2, SinceChange
  <2> QED
    BY <1>1, <2>1, <2>2 DEF ReaderFits
<1>8. RowsFit'
  <2> SUFFICES ASSUME NEW k \in DOMAIN rows
               PROVE  RowFits(rows[k], k.tenant)'
    BY <1>1 DEF IInv, RowsFit
  <2>1. RowFits(rows[k], k.tenant) /\ k.tenant \in Scopes
    BY Constants DEF IInv, RowsFit
  <2>2. ASSUME NEW p \in Parts
        PROVE  Since(changedAt', k.tenant, rows[k].versions[p], rows[k].expires - (MaxTtl + MaxLatency))
    <3>1. Since(changedAt, k.tenant, rows[k].versions[p], rows[k].expires - (MaxTtl + MaxLatency))
      BY <2>1 DEF RowFits
    <3>2. rows[k].expires \in Nat /\ rows[k].expires <= now + MaxTtl
      BY <2>1 DEF RowFits, RowType
    <3>3. /\ rows[k].expires - (MaxTtl + MaxLatency) \in Int
          /\ rows[k].expires - (MaxTtl + MaxLatency) <= now
      BY <1>3, <3>2, Constants
    <3> QED
      BY <1>1, <1>3, <2>1, <3>1, <3>3, SinceChange
  <2> QED
    BY <1>1, <2>1, <2>2 DEF RowFits
<1>9. MutatorsFit'
  <2>1. /\ todo \in [Mutators -> SUBSET Scopes] /\ made \in [Mutators -> [Scopes -> Nat]]
        /\ cleared \in [Scopes -> Nat]
        /\ \A s \in Scopes : /\ cleared[s] <= Len(changedAt[s]) /\ Len(changedAt[s]) \in Nat
                             /\ \A n \in Mutators : made[n][s] <= Len(changedAt[s])
    BY <1>3, LenProperties DEF IInv, MutatorsFit, Version
  <2>2. [s \in Scopes |-> Len(changedAt'[s])] \in [Scopes -> Nat]
    BY <1>4
  <2>3. todo' \in [Mutators -> SUBSET Scopes] /\ made' \in [Mutators -> [Scopes -> Nat]]
    BY <1>1, <1>2, <2>1, <2>2
  <2>4. ASSUME NEW s \in Scopes, NEW n \in Mutators
        PROVE  made'[n][s] <= Len(changedAt'[s])
    <3>1. CASE n = m
      <4>1. made'[n] = [x \in Scopes |-> Len(changedAt'[x])]
        BY <1>1, <2>1, <3>1
      <4>2. made'[n][s] = Len(changedAt'[s])
        BY <4>1
      <4> QED
        BY <1>4, <4>2
    <3>2. CASE n # m
      <4>1. made'[n] = made[n] /\ made[n][s] \in Nat
        BY <1>1, <2>1, <3>2
      <4>2. made[n][s] <= Len(changedAt[s]) /\ Len(changedAt[s]) \in Nat
        BY <2>1
      <4>3. Len(changedAt'[s]) \in Nat /\ Len(changedAt[s]) <= Len(changedAt'[s])
        BY <1>4
      <4>4. made[n][s] <= Len(changedAt'[s])
        BY <4>1, <4>2, <4>3
      <4> QED
        BY <4>1, <4>4
    <3> QED
      BY <3>1, <3>2
  <2>5. \A s \in Scopes : cleared'[s] <= Len(changedAt'[s])
    BY <1>1, <1>4, <2>1
  <2> QED
    BY <1>1, <2>1, <2>3, <2>4, <2>5 DEF MutatorsFit, Version
<1> QED
  BY <1>5, <1>6, <1>7, <1>8, <1>9 DEF IInv

\* The rows of a scope are deleted: the calls that have older parts are overtaken.
LEMMA InvalidateFits ==
  ASSUME IInv, NEW m \in Mutators, NEW s \in Scopes, Invalidate(m, s)
  PROVE  IInv'
<1> DEFINE v == made[m][s]
           w == IF v > cleared[s] THEN v ELSE cleared[s]
<1>1. /\ todo' = [todo EXCEPT ![m] = todo[m] \ {s}]
      /\ rows' = Without(rows, RowsOf(s))
      /\ cleared' = [cleared EXCEPT ![s] = w]
      /\ overtaken' = [r \in Readers |-> overtaken[r] \/ Overtaken(r, s, v)]
      /\ UNCHANGED <<now, changedAt, pc, key, ttl, started, fetched, made, failures>>
  BY DEF Invalidate
<1>2. /\ todo \in [Mutators -> SUBSET Scopes] /\ made \in [Mutators -> [Scopes -> Nat]]
      /\ cleared \in [Scopes -> Nat]
      /\ \A x \in Scopes : /\ cleared[x] <= Version(x)
                           /\ \A n \in Mutators : made[n][x] <= Version(x)
      /\ \A x \in Scopes : Version(x) \in Nat
  BY LenProperties DEF IInv, MutatorsFit, ClockFits, Version
<1>3. w \in Nat /\ w <= Version(s) /\ (w = v \/ w = cleared[s])
  BY <1>2
<1>4. \A x \in Scopes : cleared'[x] = IF x = s THEN w ELSE cleared[x]
  BY <1>1, <1>2
<1> HIDE DEF w
<1>5. MutatorsFit'
  <2>1. todo' \in [Mutators -> SUBSET Scopes] /\ cleared' \in [Scopes -> Nat]
    BY <1>1, <1>2, <1>3
  <2>2. \A x \in Scopes : Version(x)' = Version(x)
    BY <1>1 DEF Version
  <2>3. \A x \in Scopes : cleared'[x] <= Version(x)
    BY <1>2, <1>3, <1>4
  <2> QED
    BY <1>1, <1>2, <2>1, <2>2, <2>3 DEF MutatorsFit
<1>6. ClockFits'
  BY <1>1 DEF IInv, ClockFits
<1>7. ReadersTyped'
  <2>1. \A r \in Readers : Overtaken(r, s, v) \in BOOLEAN /\ overtaken[r] \in BOOLEAN
    BY DEF Overtaken, IInv, ReadersTyped
  <2> QED
    BY <1>1, <2>1 DEF IInv, ReadersTyped
<1>8. ReadersFit'
  <2> SUFFICES ASSUME NEW r \in Readers
               PROVE  ReaderFits(r)'
    BY DEF ReadersFit
  <2>1. ReaderFits(r) /\ key[r].tenant \in Scopes
    BY Constants DEF IInv, ReadersFit, ReadersTyped
  <2>2. ASSUME NEW p \in DOMAIN fetched[r], fetched[r][p] < cleared'[key[r].tenant]
        PROVE  overtaken'[r]
    <3>1. fetched[r][p] < cleared[key[r].tenant] => overtaken[r]
      BY <2>1 DEF ReaderFits
    <3>2. CASE fetched[r][p] < cleared[key[r].tenant]
      BY <1>1, <3>1, <3>2
    <3>3. CASE ~(fetched[r][p] < cleared[key[r].tenant])
      <4>1. key[r].tenant = s /\ w = v
        BY <1>3, <1>4, <2>1, <2>2, <3>3
      <4>2. fetched[r][p] < v
        BY <1>4, <2>1, <2>2, <4>1
      <4>3. pc[r] # "idle"
        BY <2>1 DEF ReaderFits
      <4>4. Overtaken(r, s, v)
        BY <4>1, <4>2, <4>3 DEF Overtaken
      <4> QED
        BY <1>1, <4>4
    <3> QED
      BY <3>2, <3>3
  <2> QED
    BY <1>1, <2>1, <2>2 DEF ReaderFits
<1>9. RowsFit'
  <2> SUFFICES ASSUME NEW k \in DOMAIN rows'
               PROVE  k \in Keys /\ RowFits(rows[k], k.tenant)'
    BY DEF RowsFit
  <2>1. k \in DOMAIN rows /\ k.tenant # s /\ rows'[k] = rows[k]
    <3>1. /\ DOMAIN rows' = DOMAIN rows \ RowsOf(s)
          /\ \A x \in DOMAIN rows \ RowsOf(s) : rows'[x] = rows[x]
      BY <1>1, WithoutUpdates
    <3> QED
      BY <3>1 DEF RowsOf
  <2>2. k \in Keys /\ k.tenant \in Scopes /\ RowFits(rows[k], k.tenant)
    BY <2>1, Constants DEF IInv, RowsFit
  <2>3. cleared'[k.tenant] = cleared[k.tenant]
    BY <1>4, <2>1, <2>2
  <2> QED
    BY <1>1, <2>1, <2>2, <2>3 DEF RowFits
<1> QED
  BY <1>5, <1>6, <1>7, <1>8, <1>9 DEF IInv

\* An invalidation is lost.
LEMMA LoseFits ==
  ASSUME IInv, NEW m \in Mutators, NEW s \in Scopes, LoseInvalidation(m, s)
  PROVE  IInv'
<1>1. /\ failures' = failures + 1 /\ todo' = [todo EXCEPT ![m] = todo[m] \ {s}]
      /\ UNCHANGED <<now, changedAt, rows, pc, key, ttl, started, fetched, overtaken, made, cleared>>
  BY DEF LoseInvalidation, reader
<1>2. MutatorsFit'
  BY <1>1 DEF IInv, MutatorsFit, Version
<1>3. ClockFits' /\ ReadersTyped' /\ ReadersFit' /\ RowsFit'
  BY <1>1 DEF IInv, ClockFits, ReadersTyped, ReadersFit, ReaderFits, RowsFit, RowFits
<1> QED
  BY <1>2, <1>3 DEF IInv

\* Time passes, but no request outlives its latency.
LEMMA TickFits == IInv /\ Tick => IInv'
<1> SUFFICES ASSUME IInv, Tick
             PROVE  IInv'
  OBVIOUS
<1>1. /\ now' = now + 1 /\ now \in Nat
      /\ \A r \in Readers : pc[r] # "idle" => now < started[r] + MaxLatency
      /\ UNCHANGED <<changedAt, rows, pc, key, ttl, started, fetched, overtaken, todo, made, cleared, failures>>
  BY DEF Tick, reader, mutator, IInv, ClockFits
<1>2. ReadersFit'
  <2> SUFFICES ASSUME NEW r \in Readers
               PROVE  ReaderFits(r)'
    BY DEF ReadersFit
  <2>1. ReaderFits(r) /\ started[r] \in Nat /\ MaxLatency \in Nat
    BY Constants DEF IInv, ReadersFit, ReadersTyped
  <2>2. pc'[r] # "idle" => started'[r] <= now' /\ now' <= started'[r] + MaxLatency
    BY <1>1, <2>1 DEF ReaderFits
  <2> QED
    BY <1>1, <2>1, <2>2 DEF ReaderFits
<1>3. RowsFit'
  <2> SUFFICES ASSUME NEW k \in DOMAIN rows
               PROVE  RowFits(rows[k], k.tenant)'
    BY <1>1 DEF IInv, RowsFit
  <2>1. RowFits(rows[k], k.tenant) /\ rows[k].expires \in Nat
    BY DEF IInv, RowsFit, RowFits, RowType
  <2>2. rows'[k].expires <= now' + MaxTtl
    BY <1>1, <2>1, Constants DEF RowFits
  <2> QED
    BY <1>1, <2>1, <2>2 DEF RowFits
<1>4. ClockFits' /\ ReadersTyped' /\ MutatorsFit'
  BY <1>1 DEF IInv, ClockFits, ReadersTyped, MutatorsFit, Version
<1> QED
  BY <1>2, <1>3, <1>4 DEF IInv

-----------------------------------------------------------------------------
(* The theorems.                                                           *)

\* Every step keeps the invariant.
LEMMA IInvInductive == IInv /\ [Next]_vars => IInv'
<1> SUFFICES ASSUME IInv, [Next]_vars
             PROVE  IInv'
  OBVIOUS
<1>1. CASE Tick
  BY <1>1, TickFits
<1>2. ASSUME NEW r \in Readers, NEW k \in Keys,
             GetMetrics(r, k) \/ \E t \in JobTtls : RefreshMetrics(r, k, t)
      PROVE  IInv'
  <2>1. CASE GetMetrics(r, k)
    <3>1. Call(r, k, DefaultTtl, "select") /\ DefaultTtl \in 0..MaxTtl
      BY <2>1, Constants DEF GetMetrics
    <3> QED
      BY <3>1, CallFits
  <2>2. ASSUME NEW t \in JobTtls, RefreshMetrics(r, k, t)
        PROVE  IInv'
    <3>1. Call(r, k, t, "fetch") /\ t \in 0..MaxTtl
      BY <2>2, Constants DEF RefreshMetrics
    <3> QED
      BY <3>1, CallFits
  <2> QED
    BY <1>2, <2>1, <2>2
<1>3. CASE \E r \in Readers : Select(r) \/ Prune(r) \/ Write(r) \/ Fail(r) \/ \E p \in Parts : Fetch(r, p)
  BY <1>3, SelectFits, PruneFits, WriteFits, FailFits, FetchFits
<1>4. CASE \E m \in Mutators : \/ \E t \in Tenants : Change(m, t)
                               \/ \E s \in Scopes : Invalidate(m, s) \/ LoseInvalidation(m, s)
  BY <1>4, ChangeFits, InvalidateFits, LoseFits
<1>5. CASE UNCHANGED vars
  <2>1. UNCHANGED <<now, changedAt, rows, pc, key, ttl, started, fetched, overtaken, todo, made, cleared, failures>>
    BY <1>5 DEF vars, reader, mutator
  <2> QED
    BY <2>1 DEF IInv, ClockFits, ReadersTyped, ReadersFit, ReaderFits, RowsFit, RowFits, MutatorsFit, Version
<1> QED
  BY <1>1, <1>2, <1>3, <1>4, <1>5 DEF Next

\* The invariant of every reachable state.
THEOREM Invariance == Spec => []IInv
<1>1. Init => IInv
  BY InitFits
<1>2. IInv /\ [Next]_vars => IInv'
  BY IInvInductive
<1> QED
  BY <1>1, <1>2, PTL DEF Spec

\* Rows and calls hold what they can hold, and a call writes only with every part.
THEOREM TypeCorrect == Spec => []TypeOK
<1>1. IInv => TypeOK
  <2> SUFFICES ASSUME IInv
               PROVE  TypeOK
    OBVIOUS
  <2>1. \A r \in Readers : /\ DOMAIN fetched[r] \subseteq Parts
                           /\ \A p \in DOMAIN fetched[r] : fetched[r][p] \in Nat
                           /\ pc[r] = "write" => DOMAIN fetched[r] = Parts
    BY DEF IInv, ReadersFit, ReaderFits
  <2>2. /\ DOMAIN rows \subseteq Keys
        /\ \A k \in DOMAIN rows : rows[k] \in [versions: [Parts -> Nat], expires: Nat, overtaken: BOOLEAN]
    BY DEF IInv, RowsFit, RowFits, RowType
  <2>3. now \in Nat /\ failures \in Nat /\ changedAt \in [Scopes -> Seq(Nat)]
    BY DEF IInv, ClockFits
  <2>4. /\ pc \in [Readers -> Steps] /\ key \in [Readers -> Keys]
        /\ ttl \in [Readers -> 0..MaxTtl] /\ started \in [Readers -> Nat]
        /\ overtaken \in [Readers -> BOOLEAN] /\ DOMAIN fetched = Readers
    BY DEF IInv, ReadersTyped
  <2>5. /\ todo \in [Mutators -> SUBSET Scopes]
        /\ made \in [Mutators -> [Scopes -> Nat]] /\ cleared \in [Scopes -> Nat]
    BY DEF IInv, MutatorsFit
  <2> QED
    BY ONLY <2>1, <2>2, <2>3, <2>4, <2>5 DEF TypeOK
<1> QED
  BY <1>1, Invariance, PTL

\* After an invalidation only calls that already had the old data bring it back.
THEOREM StaleRowsWereOvertaken == Spec => []OnlyOverlapLeavesStale
<1>1. IInv => OnlyOverlapLeavesStale
  BY DEF IInv, RowsFit, RowFits, OnlyOverlapLeavesStale
<1> QED
  BY <1>1, Invariance, PTL

\* A version that has not expired is one the contract accepts.
LEMMA AcceptableVersion ==
  ASSUME ClockFits, NEW s \in Scopes, NEW v, NEW t \in Int,
         Since(changedAt, s, v, t), now < t + (MaxTtl + MaxLatency)
  PROVE  v \in Contract!Acceptable(s)
<1>1. changedAt[s] \in Seq(Nat) /\ now \in Nat /\ Len(changedAt[s]) \in Nat
  BY LenProperties DEF ClockFits
<1>2. v \in 0..Len(changedAt[s]) /\ (v < Len(changedAt[s]) => t <= changedAt[s][v + 1])
  BY DEF Since
<1>3. v < Len(changedAt[s]) => now < changedAt[s][v + 1] + (MaxTtl + MaxLatency)
  <2> SUFFICES ASSUME v < Len(changedAt[s])
               PROVE  now < changedAt[s][v + 1] + (MaxTtl + MaxLatency)
    OBVIOUS
  <2>1. v + 1 \in 1..Len(changedAt[s])
    BY <1>1, <1>2
  <2>2. changedAt[s][v + 1] \in Nat
    BY <1>1, <2>1, ElementOfSeq
  <2>3. t <= changedAt[s][v + 1]
    BY <1>2
  <2>4. MaxTtl + MaxLatency \in Nat
    BY Constants
  <2> QED
    BY <1>1, <2>2, <2>3, <2>4
<1> QED
  BY <1>2, <1>3 DEF Contract!Acceptable, Contract!Version

\* A step that answers nothing and changes nothing the contract speaks of.
LEMMA QuietStep ==
  ASSUME answers' = {}, UNCHANGED <<now, changedAt>>
  PROVE  Contract!Next
BY DEF Contract!Next, Contract!Work

\* An answer puts together versions that the contract accepts.
LEMMA AnswerStep ==
  ASSUME IInv, NEW r \in Readers, NEW versions \in [Parts -> Nat], NEW t \in Int,
         Reply(r, versions), UNCHANGED <<now, changedAt>>,
         \A p \in Parts : Since(changedAt, key[r].tenant, versions[p], t),
         now < t + (MaxTtl + MaxLatency)
  PROVE  Contract!Next
<1> DEFINE s == key[r].tenant
<1>1. s \in Scopes /\ ClockFits
  BY Constants DEF IInv, ReadersTyped
<1>2. \A p \in Parts : versions[p] \in Contract!Acceptable(s)
  BY <1>1, AcceptableVersion
<1>3. versions \in [Parts -> Contract!Acceptable(s)]
  BY <1>2
<1>4. Contract!Answer(s, versions)
  BY DEF Reply, Contract!Answer
<1> QED
  BY <1>1, <1>3, <1>4 DEF Contract!Next

\* Every step of the cache is a step of the contract.
LEMMA StepImplements == IInv /\ [Next]_vars => [Contract!Next]_(Contract!vars)
<1> SUFFICES ASSUME IInv, [Next]_vars
             PROVE  [Contract!Next]_(Contract!vars)
  OBVIOUS
<1>1. CASE Tick
  BY <1>1 DEF Tick, Contract!Next, Contract!Tick
<1>2. CASE \E r \in Readers, k \in Keys :
             GetMetrics(r, k) \/ \E t \in JobTtls : RefreshMetrics(r, k, t)
  BY <1>2, QuietStep DEF GetMetrics, RefreshMetrics, Call
<1>3. ASSUME NEW r \in Readers, Select(r)
      PROVE  Contract!Next
  <2>1. UNCHANGED <<now, changedAt>>
    BY <1>3 DEF Select
  <2>2. CASE answers' = {}
    BY <2>1, <2>2, QuietStep
  <2>3. CASE /\ key[r] \in DOMAIN rows /\ ~Expired(rows[key[r]])
             /\ Reply(r, rows[key[r]].versions)
    <3> DEFINE row == rows[key[r]]
    <3>1. RowFits(row, key[r].tenant) /\ row \in RowType
      BY <2>3 DEF IInv, RowsFit, RowFits
    <3>2. row.versions \in [Parts -> Nat] /\ row.expires \in Nat /\ ~(row.expires <= now)
      BY <2>3, <3>1 DEF RowType, Expired
    <3> DEFINE t == row.expires - (MaxTtl + MaxLatency)
    <3>3. t \in Int /\ now < t + (MaxTtl + MaxLatency)
      BY <3>2, Constants DEF IInv, ClockFits
    <3>4. \A p \in Parts : Since(changedAt, key[r].tenant, row.versions[p], t)
      BY <3>1 DEF RowFits
    <3>5. Reply(r, row.versions)
      BY <2>3
    <3> HIDE DEF row, t
    <3> QED
      BY <2>1, <3>2, <3>3, <3>4, <3>5, AnswerStep
  <2> QED
    BY <1>3, <2>2, <2>3 DEF Select, Goto
<1>4. ASSUME NEW r \in Readers, Write(r)
      PROVE  Contract!Next
  <2>1. UNCHANGED <<now, changedAt>> /\ Reply(r, fetched[r]) /\ pc[r] = "write"
    BY <1>4 DEF Write
  <2>2. ReaderFits(r) /\ started[r] \in Nat /\ now \in Nat
    BY DEF IInv, ReadersFit, ReadersTyped, ClockFits
  <2>3. /\ fetched[r] \in [Parts -> Nat] /\ now <= started[r] + MaxLatency
        /\ \A p \in Parts : Since(changedAt, key[r].tenant, fetched[r][p], started[r])
    BY <2>1, <2>2 DEF ReaderFits
  <2>4. started[r] \in Int /\ now < started[r] + (MaxTtl + MaxLatency)
    BY <2>2, <2>3, Constants
  <2> QED
    BY <2>1, <2>3, <2>4, AnswerStep
<1>5. CASE \E r \in Readers : Prune(r) \/ Fail(r) \/ \E p \in Parts : Fetch(r, p)
  BY <1>5, QuietStep DEF Prune, Fail, Fetch, Goto
<1>6. ASSUME NEW m \in Mutators, NEW t \in Tenants, Change(m, t)
      PROVE  Contract!Next
  <2>1. Contract!Change(Affected(t)) /\ Affected(t) \in SUBSET Scopes
    BY <1>6, Constants DEF Change, Contract!Change, Affected
  <2> QED
    BY <2>1 DEF Contract!Next
<1>7. CASE \E m \in Mutators : \E s \in Scopes : Invalidate(m, s) \/ LoseInvalidation(m, s)
  BY <1>7, QuietStep DEF Invalidate, LoseInvalidation
<1>8. CASE UNCHANGED vars
  BY <1>8 DEF vars, Contract!vars
<1> QED
  BY <1>1, <1>2, <1>3, <1>4, <1>5, <1>6, <1>7, <1>8 DEF Next

\* The detailed cache implements the contract.
THEOREM ImplementsContract == Spec => BoundedStaleness
<1>1. Init => Contract!Init
  BY DEF Init, Contract!Init
<1>2. IInv /\ [Next]_vars => [Contract!Next]_(Contract!vars)
  BY StepImplements
<1> QED
  BY <1>1, <1>2, Invariance, PTL DEF Spec, BoundedStaleness, Contract!Spec
=============================================================================
