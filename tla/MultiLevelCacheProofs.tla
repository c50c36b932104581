------------------------- MODULE MultiLevelCacheProofs -------------------------
(***************************************************************************)
(* Proofs about MultiLevelCache, for any isolates, requests, TTLs and      *)
(* latencies: it implements StalenessContract, and a deletion is felt in   *)
(* every isolate.                                                          *)
(***************************************************************************)
EXTENDS MultiLevelCache, SequenceTheorems, TLAPS

\* Version v is current, or was replaced at time t or later.
Since(v, t, clock, changes) ==
  /\ v \in 0..Len(changes) /\ t <= clock
  /\ v < Len(changes) => t <= changes[v + 1]

ClockFits ==
  /\ now \in Nat /\ changedAt \in Seq(Nat) /\ Version \in Nat
  /\ purge \subseteq [version: Nat, at: Nat] /\ Single(purge)
  /\ \A p \in purge : p.version <= Version /\ p.at <= now

RequestsTyped ==
  /\ pc \in [Requests -> Steps] /\ at \in [Requests -> Isolates \cup {Nowhere}]
  /\ started \in [Requests -> Nat] /\ value \in [Requests -> SUBSET Nat]

LevelsTyped ==
  /\ memory \in [Isolates -> SUBSET Entries] /\ redis \subseteq Entries
  /\ pending \subseteq Commands

\* How old a value can be when Redis has it, when a request has it from Redis, and when
\* a memory level drops it.
RedisAge == SetRedisTtl + 2 * MaxLatency
FoundAge == RedisAge - 1
MemoryAge == LongestWay - MaxLatency

\* A request is young; what it computed was current since it was called, what it has
\* found may be as old as what Redis keeps, and what it answers as what a memory keeps.
RequestFits(r) ==
  /\ pc[r] # "idle" => /\ started[r] <= now /\ now <= started[r] + MaxLatency
                       /\ at[r] \in Isolates
  /\ Single(value[r])
  /\ pc[r] \in {"store", "answer"} => value[r] # {}
  /\ value[r] # {} => pc[r] \in {"reply", "store", "answer"}
  /\ pc[r] = "store" => \A v \in value[r] : Since(v, started[r], now, changedAt)
  /\ pc[r] = "reply" => \A v \in value[r] : Since(v, started[r] - FoundAge, now, changedAt)
  /\ pc[r] = "answer" => \A v \in value[r] : Since(v, started[r] + 1 - MemoryAge, now, changedAt)

RequestsFit == \A r \in Requests : RequestFits(r)

\* A copy expires before its data can be older than promised.
MemoryFits(i) ==
  /\ Single(memory[i])
  /\ \A e \in memory[i] : Since(e.version, e.expires - MemoryAge, now, changedAt)

MemoriesFit == \A i \in Isolates : MemoryFits(i)

RedisFits ==
  /\ Single(redis)
  /\ \A e \in redis : Since(e.version, e.expires - RedisAge, now, changedAt)

PendingFits ==
  \A op \in pending :
    /\ now <= op.since + MaxLatency /\ op.version <= Version
    /\ op.kind = "set" => Since(op.version, op.since - MaxLatency, now, changedAt)

\* The inductive invariant.
IInv ==
  /\ ClockFits /\ RequestsTyped /\ LevelsTyped
  /\ RequestsFit /\ MemoriesFit /\ RedisFits /\ PendingFits

-----------------------------------------------------------------------------
(* Ages and copies.                                                        *)

LEMMA Ages ==
  /\ SetMemoryTtl \in Nat /\ SetRedisTtl \in Nat /\ WarmTtl \in Nat \ {0}
  /\ MaxLatency \in Nat
  /\ RedisAge \in Nat /\ FoundAge \in Nat /\ LongestWay \in Nat /\ MemoryAge \in Nat
  /\ RedisAge = SetRedisTtl + 2 * MaxLatency /\ FoundAge = RedisAge - 1
  /\ MemoryAge = FoundAge + MaxLatency + WarmTtl /\ LongestWay = MemoryAge + MaxLatency
  /\ SetMemoryTtl + MaxLatency <= MemoryAge /\ 1 <= MemoryAge
<1>1. /\ SetMemoryTtl \in Nat \ {0} /\ SetRedisTtl \in Nat \ {0} /\ WarmTtl \in Nat \ {0}
      /\ SetMemoryTtl = SetRedisTtl \/ SetMemoryTtl = WarmTtl
  BY MultiLevelAssumption
<1>2. MaxLatency \in Nat
  BY MultiLevelAssumption
<1>3. \A m, r, w, l \in Nat :
        m # 0 /\ r # 0 /\ w # 0 /\ (m = r \/ m = w) =>
          /\ r + 2 * l \in Nat /\ r + 2 * l - 1 \in Nat /\ 4 * l + r + w - 1 \in Nat
          /\ 4 * l + r + w - 1 - l \in Nat
          /\ 4 * l + r + w - 1 - l = (r + 2 * l - 1) + l + w
          /\ 4 * l + r + w - 1 = (4 * l + r + w - 1 - l) + l
          /\ m + l <= 4 * l + r + w - 1 - l /\ 1 <= 4 * l + r + w - 1 - l
  OBVIOUS
<1> QED
  BY <1>1, <1>2, <1>3 DEF RedisAge, FoundAge, MemoryAge, LongestWay

\* What is no older than t is no older than an earlier time.
LEMMA SinceEarlier ==
  ASSUME NEW changes \in Seq(Nat), NEW clock \in Nat, NEW v, NEW t \in Int, NEW u \in Int,
         u <= t, Since(v, t, clock, changes)
  PROVE  Since(v, u, clock, changes)
<1>1. v \in 0..Len(changes) /\ t <= clock /\ (v < Len(changes) => t <= changes[v + 1])
  BY DEF Since
<1>2. v < Len(changes) => changes[v + 1] \in Nat
  <2>1. Len(changes) \in Nat
    BY LenProperties
  <2>2. v < Len(changes) => v + 1 \in 1..Len(changes)
    BY <1>1, <2>1
  <2> QED
    BY <2>2, ElementOfSeq
<1>3. v < Len(changes) => u <= changes[v + 1]
  BY <1>1, <1>2
<1>4. u <= clock
  BY <1>1
<1> QED
  BY <1>1, <1>3, <1>4 DEF Since

\* Time passes.
LEMMA SinceLater ==
  ASSUME NEW changes, NEW clock \in Nat, NEW v, NEW t \in Int,
         Since(v, t, clock, changes)
  PROVE  Since(v, t, clock + 1, changes)
BY DEF Since

\* The source changes.
LEMMA SinceChange ==
  ASSUME NEW changes \in Seq(Nat), NEW clock \in Nat, NEW v, NEW t \in Int,
         Since(v, t, clock, changes)
  PROVE  Since(v, t, clock, Append(changes, clock))
<1> DEFINE n == Len(changes)
           more == Append(changes, clock)
<1>1. v \in 0..n /\ t <= clock /\ (v < n => t <= changes[v + 1]) /\ n \in Nat
  BY LenProperties DEF Since
<1>2. Len(more) = n + 1 /\ more[n + 1] = clock /\ \A k \in 1..n : more[k] = changes[k]
  BY AppendProperties
<1>3. v \in 0..Len(more)
  BY <1>1, <1>2
<1>4. t <= more[v + 1]
  <2>1. CASE v < n
    <3>1. v + 1 \in 1..n
      BY <1>1, <2>1
    <3> QED
      BY <1>1, <1>2, <2>1, <3>1
  <2>2. CASE v = n
    BY <1>1, <1>2, <2>2
  <2> QED
    BY <1>1, <2>1, <2>2
<1> QED
  BY <1>1, <1>3, <1>4 DEF Since

\* The version that is current now was so at any earlier time.
LEMMA SinceNow ==
  ASSUME NEW t \in Int, t <= now, Version \in Nat
  PROVE  Since(Version, t, now, changedAt)
BY DEF Since, Version

\* The parts of an entry, a version with its expiry.
LEMMA EntryOf ==
  ASSUME NEW v \in Nat, NEW t \in Nat
  PROVE  Entry(v, t) \in Entries /\ Entry(v, t).version = v /\ Entry(v, t).expires = t
BY DEF Entry, Entries

\* The parts of a background command.
LEMMA CommandOf ==
  ASSUME NEW kind \in {"set", "del"}, NEW v \in Nat, now \in Nat
  PROVE  /\ Command(kind, v) \in Commands /\ Command(kind, v).kind = kind
         /\ Command(kind, v).version = v /\ Command(kind, v).since = now
BY DEF Command, Commands

-----------------------------------------------------------------------------
(* Steps of requests.                                                      *)

\* The clock, the source and the deletions stay as they are.
Quiet == UNCHANGED <<now, changedAt, purge>>

SameRequest(q) == pc'[q] = pc[q] /\ at'[q] = at[q] /\ started'[q] = started[q] /\ value'[q] = value[q]

\* The clock of a step that lets no time pass and changes no data.
LEMMA QuietClock ==
  ASSUME IInv, Quiet
  PROVE  ClockFits' /\ now' = now /\ changedAt' = changedAt /\ Version' = Version
BY DEF IInv, Quiet, ClockFits, Version, Single

\* Such a step keeps what a request it does not touch holds,
LEMMA QuietRequests ==
  ASSUME IInv, UNCHANGED <<now, changedAt>>, NEW q \in Requests, SameRequest(q)
  PROVE  RequestFits(q)'
BY DEF IInv, SameRequest, RequestsFit, RequestFits

\* the memory of an isolate it does not touch,
LEMMA QuietMemory ==
  ASSUME IInv, UNCHANGED <<now, changedAt>>, NEW i \in Isolates, memory'[i] = memory[i]
  PROVE  MemoryFits(i)'
BY DEF IInv, MemoriesFit, MemoryFits

\* Redis if it does not touch it,
LEMMA QuietRedis ==
  ASSUME IInv, UNCHANGED <<now, changedAt>>, redis' = redis
  PROVE  RedisFits'
BY DEF IInv, RedisFits

\* and the commands it does not add.
LEMMA QuietPending ==
  ASSUME IInv, UNCHANGED <<now, changedAt>>, pending' \subseteq pending
  PROVE  PendingFits'
BY DEF IInv, PendingFits, Version

\* A step of one request.
LEMMA RequestStep ==
  ASSUME IInv, Quiet, NEW r \in Requests, UNCHANGED levels, RequestsTyped', RequestFits(r)',
         \A q \in Requests : q # r => SameRequest(q)
  PROVE  IInv'
<1>1. UNCHANGED <<memory, redis, pending>> /\ UNCHANGED <<now, changedAt>>
  BY DEF levels, Quiet
<1>2. ClockFits'
  BY QuietClock
<1>3. RequestsFit'
  BY <1>1, QuietRequests DEF RequestsFit
<1>4. LevelsTyped' /\ MemoriesFit' /\ RedisFits' /\ PendingFits'
  BY <1>1, QuietMemory, QuietRedis, QuietPending DEF IInv, LevelsTyped, MemoriesFit
<1> QED
  BY <1>2, <1>3, <1>4 DEF IInv

\* A request goes on.
LEMMA GotoFits ==
  ASSUME IInv, NEW r \in Requests, NEW step \in Steps, Goto(r, step)
  PROVE  /\ pc' \in [Requests -> Steps] /\ pc'[r] = step /\ UNCHANGED <<at, started>>
         /\ \A q \in Requests : q # r => pc'[q] = pc[q]
BY DEF IInv, RequestsTyped, Goto

\* A request in flight is young.
LEMMA InFlight ==
  ASSUME IInv, NEW r \in Requests, pc[r] # "idle"
  PROVE  /\ now \in Nat /\ changedAt \in Seq(Nat) /\ Version \in Nat
         /\ started[r] \in Nat /\ at[r] \in Isolates
         /\ started[r] <= now /\ now <= started[r] + MaxLatency
BY DEF IInv, ClockFits, RequestsTyped, RequestsFit, RequestFits

\* Nothing is stored yet.
LEMMA InitFits == Init => IInv
<1> SUFFICES ASSUME Init
             PROVE  IInv
  OBVIOUS
<1>1. changedAt = <<>> /\ Version = 0 /\ purge = {} /\ now = 0
  BY DEF Init, Version
<1>2. ClockFits
  BY <1>1 DEF ClockFits, Single
<1>3. RequestsTyped /\ LevelsTyped
  BY DEF Init, RequestsTyped, LevelsTyped, Steps
<1>4. RequestsFit
  BY DEF Init, RequestsFit, RequestFits, Single
<1>5. MemoriesFit /\ RedisFits /\ PendingFits
  BY DEF Init, MemoriesFit, MemoryFits, RedisFits, PendingFits, Single
<1> QED
  BY <1>2, <1>3, <1>4, <1>5 DEF IInv

\* A call to the cache starts a request; what it holds at once may be as old as what a
\* memory level keeps.
LEMMA CallFits ==
  ASSUME IInv, NEW r \in Requests, NEW i \in Isolates, NEW first \in {"redis", "compute", "answer"},
         NEW got \in SUBSET Nat, Call(r, i, first, got), Single(got),
         first = "answer" <=> got # {},
         \A v \in got : Since(v, now + 1 - MemoryAge, now, changedAt)
  PROVE  IInv'
<1>1. RequestsTyped /\ now \in Nat /\ MaxLatency \in Nat
  BY Ages DEF IInv, ClockFits
<1>2. Quiet /\ UNCHANGED levels /\ pc[r] = "idle" /\ UNCHANGED <<now, changedAt>>
  BY DEF Call, Quiet
<1>3. RequestsTyped'
  BY <1>1 DEF Call, RequestsTyped, Steps
<1>4. pc'[r] = first /\ at'[r] = i /\ started'[r] = now' /\ value'[r] = got
  BY <1>1, <1>2 DEF Call, RequestsTyped
<1>5. RequestFits(r)'
  <2>1. now' \in Nat /\ now' <= now' + MaxLatency /\ now' <= now'
    BY <1>1, <1>2
  <2>2. \A v \in got : Since(v, now' + 1 - MemoryAge, now', changedAt')
    BY <1>2
  <2>3. pc'[r] # "store" /\ pc'[r] # "reply" /\ pc'[r] # "idle"
    BY <1>4
  <2>4. pc'[r] = "answer" => \A v \in value'[r] : Since(v, started'[r] + 1 - MemoryAge, now', changedAt')
    BY <1>4, <2>2
  <2> QED
    BY <1>4, <2>1, <2>3, <2>4 DEF RequestFits
<1>6. \A q \in Requests : q # r => SameRequest(q)
  BY <1>1 DEF Call, RequestsTyped, SameRequest
<1> QED
  BY <1>2, <1>3, <1>5, <1>6, RequestStep

\* A call that misses the memory, or bypasses it.
LEMMA LookupFits ==
  ASSUME IInv, NEW r \in Requests, NEW i \in Isolates, Get(r, i) \/ Refresh(r, i)
  PROVE  IInv'
<1>1. PICK first \in {"redis", "compute"} : Call(r, i, first, {})
  BY DEF Get, Refresh
<1>2. first \in {"redis", "compute", "answer"} /\ first # "answer"
  OBVIOUS
<1>3. Single({})
  BY DEF Single
<1>4. {} \in SUBSET Nat
  OBVIOUS
<1> QED
  BY <1>1, <1>2, <1>3, <1>4, CallFits

\* What the memory has expires after now, so it is no older than a memory keeps it.
LEMMA GetFromMemoryFits ==
  ASSUME IInv, NEW r \in Requests, NEW i \in Isolates, GetFromMemory(r, i)
  PROVE  IInv'
<1>1. PICK e \in Live(memory[i], now) : Call(r, i, "answer", {e.version})
  BY DEF GetFromMemory
<1>2. /\ e \in Entries /\ e.version \in Nat /\ e.expires \in Nat /\ e.expires > now
      /\ now \in Nat /\ changedAt \in Seq(Nat)
      /\ Since(e.version, e.expires - MemoryAge, now, changedAt)
  BY <1>1 DEF Live, IInv, ClockFits, LevelsTyped, MemoriesFit, MemoryFits, Entries
<1>3. /\ e.expires - MemoryAge \in Int /\ now + 1 - MemoryAge \in Int
      /\ now + 1 - MemoryAge <= e.expires - MemoryAge
  <2> DEFINE x == e.expires
  <2>1. x \in Nat /\ x > now /\ now \in Nat
    BY <1>2
  <2> HIDE DEF x
  <2>2. x - MemoryAge \in Int /\ now + 1 - MemoryAge \in Int /\ now + 1 - MemoryAge <= x - MemoryAge
    BY <2>1, Ages
  <2> QED
    BY <2>2 DEF x
<1>4. Since(e.version, now + 1 - MemoryAge, now, changedAt)
  BY <1>2, <1>3, SinceEarlier
<1>5. {e.version} \in SUBSET Nat /\ Single({e.version}) /\ {e.version} # {}
  BY <1>2 DEF Single
<1>6. \A v \in {e.version} : Since(v, now + 1 - MemoryAge, now, changedAt)
  BY <1>4
<1>7. "answer" \in {"redis", "compute", "answer"}
  OBVIOUS
<1> QED
  BY <1>1, <1>5, <1>6, <1>7, CallFits

\* What Redis had expires after now, so it is no older than what a request may find.
LEMMA RedisGetFits ==
  ASSUME IInv, NEW r \in Requests, RedisGet(r)
  PROVE  IInv'
<1>1. PICK found \in {{}, {e.version : e \in Live(redis, now)}} :
        value' = [value EXCEPT ![r] = found]
  BY DEF RedisGet
<1>2. pc[r] = "redis" /\ Goto(r, "reply") /\ Quiet /\ UNCHANGED levels
  BY DEF RedisGet, Quiet
<1>3. /\ pc' \in [Requests -> Steps] /\ pc'[r] = "reply" /\ UNCHANGED <<at, started>>
      /\ \A q \in Requests : q # r => pc'[q] = pc[q]
  BY <1>2, GotoFits DEF Steps
<1>4. /\ now \in Nat /\ changedAt \in Seq(Nat) /\ started[r] \in Nat /\ at[r] \in Isolates
      /\ started[r] <= now /\ now <= started[r] + MaxLatency
  BY <1>2, InFlight
<1>5. ASSUME NEW v \in found
      PROVE  v \in Nat /\ Since(v, started[r] - FoundAge, now, changedAt)
  <2>1. PICK e \in Live(redis, now) : v = e.version
    BY <1>1
  <2>2. /\ e \in Entries /\ e.version \in Nat /\ e.expires \in Nat
        /\ e.expires > now /\ Since(v, e.expires - RedisAge, now, changedAt)
    BY <2>1 DEF Live, IInv, LevelsTyped, RedisFits, Entries
  <2>3. /\ e.expires - RedisAge \in Int /\ started[r] - FoundAge \in Int
        /\ started[r] - FoundAge <= e.expires - RedisAge
    <3> DEFINE x == e.expires
               s == started[r]
    <3>1. x \in Nat /\ s \in Nat /\ x > now /\ s <= now /\ now \in Nat
      BY <1>4, <2>2
    <3> HIDE DEF x, s
    <3>2. x - RedisAge \in Int /\ s - FoundAge \in Int /\ s - FoundAge <= x - RedisAge
      BY <3>1, Ages
    <3> QED
      BY <3>2 DEF x, s
  <2> QED
    BY <1>4, <2>1, <2>2, <2>3, SinceEarlier
<1>6. Single(found)
  BY <1>1 DEF Single, Live, IInv, RedisFits
<1>7. /\ value' \in [Requests -> SUBSET Nat] /\ value'[r] = found
      /\ \A q \in Requests : q # r => value'[q] = value[q]
  BY <1>1, <1>5 DEF IInv, RequestsTyped
<1>8. RequestsTyped'
  BY <1>3, <1>7 DEF IInv, RequestsTyped
<1>9. RequestFits(r)'
  BY <1>2, <1>3, <1>4, <1>5, <1>6, <1>7, QuietClock DEF RequestFits
<1>10. \A q \in Requests : q # r => SameRequest(q)
  BY <1>3, <1>7 DEF SameRequest
<1> QED
  BY <1>2, <1>8, <1>9, <1>10, RequestStep

\* The source is read: what a request has then is current.
LEMMA ComputedFits ==
  ASSUME IInv, NEW r \in Requests, NEW step \in {"store", "answer"}, pc[r] = "compute",
         value' = [value EXCEPT ![r] = {Version}], Goto(r, step), Quiet, UNCHANGED levels
  PROVE  IInv'
<1>1. step \in Steps
  BY DEF Steps
<1>2. /\ pc' \in [Requests -> Steps] /\ pc'[r] = step /\ UNCHANGED <<at, started>>
      /\ \A q \in Requests : q # r => pc'[q] = pc[q]
  BY <1>1, GotoFits
<1>3. /\ now \in Nat /\ changedAt \in Seq(Nat) /\ started[r] \in Nat /\ at[r] \in Isolates
      /\ started[r] <= now /\ now <= started[r] + MaxLatency /\ Version \in Nat
  BY InFlight
<1>4. /\ started[r] \in Int /\ started[r] + 1 - MemoryAge \in Int
      /\ started[r] + 1 - MemoryAge <= now
  <2> DEFINE s == started[r]
  <2>1. s \in Nat /\ s <= now /\ now \in Nat
    BY <1>3
  <2> HIDE DEF s
  <2>2. s \in Int /\ s + 1 - MemoryAge \in Int /\ s + 1 - MemoryAge <= now
    BY <2>1, Ages
  <2> QED
    BY <2>2 DEF s
<1>5. /\ Since(Version, started[r], now, changedAt)
      /\ Since(Version, started[r] + 1 - MemoryAge, now, changedAt)
  BY <1>3, <1>4, SinceNow
<1>6. /\ value' \in [Requests -> SUBSET Nat] /\ value'[r] = {Version}
      /\ \A q \in Requests : q # r => value'[q] = value[q]
  BY <1>3 DEF IInv, RequestsTyped
<1>7. RequestsTyped'
  BY <1>2, <1>6 DEF IInv, RequestsTyped
<1>8. RequestFits(r)'
  BY <1>2, <1>3, <1>5, <1>6, QuietClock DEF RequestFits, Single
<1>9. \A q \in Requests : q # r => SameRequest(q)
  BY <1>2, <1>6 DEF SameRequest
<1> QED
  BY <1>7, <1>8, <1>9, RequestStep

\* A request puts an entry in its isolate's memory, and perhaps on its way to Redis, and
\* goes on to its answer.
LEMMA PutFits ==
  ASSUME IInv, Quiet, NEW r \in Requests, Goto(r, "answer"), pc[r] # "idle", UNCHANGED <<redis, value>>,
         value[r] # {}, \A v \in value[r] : Since(v, started[r] + 1 - MemoryAge, now, changedAt),
         NEW e \in Entries, memory' = [memory EXCEPT ![at[r]] = {e}],
         Since(e.version, e.expires - MemoryAge, now, changedAt),
         pending' \subseteq Commands, PendingFits'
  PROVE  IInv'
<1>1. /\ pc' \in [Requests -> Steps] /\ pc'[r] = "answer" /\ UNCHANGED <<at, started, now, changedAt>>
      /\ \A q \in Requests : q # r => pc'[q] = pc[q]
  BY GotoFits DEF Steps, Quiet
<1>2. RequestsTyped'
  BY <1>1 DEF IInv, RequestsTyped
<1>3. RequestFits(r)'
  BY <1>1, InFlight DEF RequestFits, IInv, RequestsFit
<1>4. RequestsFit'
  BY <1>1, <1>3, QuietRequests DEF RequestsFit, SameRequest
<1>5. at[r] \in Isolates
  BY InFlight
<1>6. /\ memory' \in [Isolates -> SUBSET Entries] /\ memory'[at[r]] = {e}
      /\ \A j \in Isolates : j # at[r] => memory'[j] = memory[j]
  BY <1>5 DEF IInv, LevelsTyped
<1>7. MemoryFits(at[r])'
  BY <1>1, <1>6 DEF MemoryFits, Single
<1>8. MemoriesFit'
  BY <1>1, <1>6, <1>7, QuietMemory DEF MemoriesFit
<1>9. LevelsTyped'
  BY <1>6 DEF IInv, LevelsTyped
<1> QED
  BY <1>1, <1>2, <1>4, <1>8, <1>9, QuietClock, QuietRedis DEF IInv

\* A miss is computed, a hit warms the memory.
LEMMA WarmUpFits ==
  ASSUME IInv, NEW r \in Requests, WarmUp(r)
  PROVE  IInv'
<1>1. pc[r] = "reply" /\ Quiet /\ value' = value /\ UNCHANGED <<now, changedAt>>
  BY DEF WarmUp, Quiet
<1>2. /\ now \in Nat /\ changedAt \in Seq(Nat) /\ started[r] \in Nat /\ at[r] \in Isolates
      /\ started[r] <= now /\ now <= started[r] + MaxLatency
  BY <1>1, InFlight
<1>3. CASE value[r] = {} /\ Goto(r, AfterMiss) /\ UNCHANGED levels
  <2>1. /\ pc' \in [Requests -> Steps] /\ pc'[r] = "compute" /\ UNCHANGED <<at, started>>
        /\ \A q \in Requests : q # r => pc'[q] = pc[q]
    BY <1>3, GotoFits DEF Steps, AfterMiss
  <2>2. RequestsTyped' /\ \A q \in Requests : q # r => SameRequest(q)
    BY <1>1, <2>1 DEF IInv, RequestsTyped, SameRequest
  <2>3. RequestFits(r)'
    BY <1>1, <1>2, <1>3, <2>1 DEF RequestFits, Single
  <2> QED
    BY <1>1, <1>3, <2>2, <2>3, RequestStep
<1>4. ASSUME NEW v \in value[r],
             memory' = [memory EXCEPT ![at[r]] = {Entry(v, now + WarmTtl)}],
             Goto(r, "answer"), UNCHANGED <<redis, pending>>
      PROVE  IInv'
  <2> DEFINE e == Entry(v, now + WarmTtl)
  <2>1. v \in Nat /\ \A u \in value[r] : Since(u, started[r] - FoundAge, now, changedAt)
    BY <1>1 DEF IInv, RequestsTyped, RequestsFit, RequestFits
  <2>2. /\ now + WarmTtl \in Nat /\ (now + WarmTtl) - MemoryAge \in Int
        /\ started[r] - FoundAge \in Int /\ (now + WarmTtl) - MemoryAge <= started[r] - FoundAge
        /\ started[r] + 1 - MemoryAge \in Int /\ started[r] + 1 - MemoryAge <= started[r] - FoundAge
    <3> DEFINE s == started[r]
    <3>1. s \in Nat /\ now <= s + MaxLatency /\ now \in Nat
      BY <1>2
    <3> HIDE DEF s, e
    <3>2. /\ now + WarmTtl \in Nat /\ (now + WarmTtl) - MemoryAge \in Int
          /\ s - FoundAge \in Int /\ (now + WarmTtl) - MemoryAge <= s - FoundAge
          /\ s + 1 - MemoryAge \in Int /\ s + 1 - MemoryAge <= s - FoundAge
      BY <3>1, Ages
    <3> QED
      BY <3>2 DEF s
  <2>3. e \in Entries /\ e.expires = now + WarmTtl /\ e.version = v
    BY <2>1, <2>2, EntryOf
  <2>4. memory' = [memory EXCEPT ![at[r]] = {e}]
    BY <1>4 DEF e
  <2> HIDE DEF e
  <2>5. \A u \in value[r] : /\ Since(u, (now + WarmTtl) - MemoryAge, now, changedAt)
                            /\ Since(u, started[r] + 1 - MemoryAge, now, changedAt)
    BY <1>2, <2>1, <2>2, SinceEarlier
  <2>6. Since(v, (now + WarmTtl) - MemoryAge, now, changedAt)
    BY <2>5
  <2>9. Since(e.version, e.expires - MemoryAge, now, changedAt)
    BY <2>3, <2>6
  <2>7. PendingFits' /\ pending' \subseteq Commands /\ redis' = redis
    BY <1>1, <1>4, QuietPending DEF IInv, LevelsTyped
  <2>8. value[r] # {} /\ pc[r] # "idle"
    BY <1>1
  <2> QED
    BY <1>1, <1>4, <2>3, <2>4, <2>5, <2>7, <2>8, <2>9, PutFits
<1> QED
  BY <1>3, <1>4 DEF WarmUp

\* What was computed is stored.
LEMMA StoreFits ==
  ASSUME IInv, NEW r \in Requests, Store(r)
  PROVE  IInv'
<1>1. /\ pc[r] = "store" /\ Quiet /\ Goto(r, "answer") /\ redis' = redis /\ value' = value
      /\ UNCHANGED <<now, changedAt>>
  BY DEF Store, Quiet
<1>2. /\ now \in Nat /\ changedAt \in Seq(Nat) /\ started[r] \in Nat /\ at[r] \in Isolates
      /\ started[r] <= now /\ now <= started[r] + MaxLatency
  BY <1>1, InFlight
<1>3. PICK v \in value[r] :
        /\ memory' = [memory EXCEPT ![at[r]] = {Entry(v, now + SetMemoryTtl)}]
        /\ pending' = pending \cup {Command("set", v)}
  BY DEF Store
<1> DEFINE e == Entry(v, now + SetMemoryTtl)
           op == Command("set", v)
<1>4. v \in Nat /\ \A u \in value[r] : Since(u, started[r], now, changedAt)
  BY <1>1 DEF IInv, RequestsTyped, RequestsFit, RequestFits
<1>5. /\ now + SetMemoryTtl \in Nat /\ (now + SetMemoryTtl) - MemoryAge \in Int
      /\ (now + SetMemoryTtl) - MemoryAge <= started[r] /\ started[r] \in Int
      /\ now - MaxLatency \in Int /\ now - MaxLatency <= started[r] /\ now <= now + MaxLatency
      /\ started[r] + 1 - MemoryAge \in Int /\ started[r] + 1 - MemoryAge <= started[r]
  <2> DEFINE s == started[r]
  <2>1. s \in Nat /\ now <= s + MaxLatency /\ now \in Nat
    BY <1>2
  <2> HIDE DEF s, e, op
  <2>2. /\ now + SetMemoryTtl \in Nat /\ (now + SetMemoryTtl) - MemoryAge \in Int
        /\ (now + SetMemoryTtl) - MemoryAge <= s /\ s \in Int
        /\ now - MaxLatency \in Int /\ now - MaxLatency <= s /\ now <= now + MaxLatency
        /\ s + 1 - MemoryAge \in Int /\ s + 1 - MemoryAge <= s
    BY <2>1, Ages
  <2> QED
    BY <2>2 DEF s
<1>6. e \in Entries /\ e.expires = now + SetMemoryTtl /\ e.version = v
  BY <1>4, <1>5, EntryOf
<1>7. op \in Commands /\ op.since = now /\ op.version = v
  BY <1>2, <1>4, CommandOf
<1>8. memory' = [memory EXCEPT ![at[r]] = {e}] /\ pending' = pending \cup {op}
  BY <1>3
<1> HIDE DEF e, op
<1>9. \A u \in value[r] : /\ Since(u, (now + SetMemoryTtl) - MemoryAge, now, changedAt)
                          /\ Since(u, now - MaxLatency, now, changedAt)
                          /\ Since(u, started[r] + 1 - MemoryAge, now, changedAt)
  BY <1>2, <1>4, <1>5, SinceEarlier
<1>10. /\ Since(e.version, e.expires - MemoryAge, now, changedAt)
       /\ Since(op.version, op.since - MaxLatency, now, changedAt)
  <2>1. Since(v, (now + SetMemoryTtl) - MemoryAge, now, changedAt) /\ Since(v, now - MaxLatency, now, changedAt)
    BY <1>9
  <2> QED
    BY <1>6, <1>7, <2>1
<1>11. op.version <= Version
  BY <1>10, LenProperties DEF Since, Version, IInv, ClockFits
<1>12. now <= op.since + MaxLatency
  BY <1>5, <1>7
<1>13. PendingFits'
  BY <1>1, <1>8, <1>10, <1>11, <1>12 DEF IInv, PendingFits, Version
<1>14. pending' \subseteq Commands
  BY <1>7, <1>8 DEF IInv, LevelsTyped
<1>15. value[r] # {} /\ pc[r] # "idle"
  BY <1>1, <1>3
<1> QED
  BY <1>1, <1>6, <1>8, <1>9, <1>10, <1>13, <1>14, <1>15, PutFits

\* A request is answered.
LEMMA AnswerFits ==
  ASSUME IInv, NEW r \in Requests, Answer(r)
  PROVE  IInv'
<1>1. RequestsTyped /\ Quiet /\ UNCHANGED levels
  BY DEF Answer, Quiet, IInv
<1>2. RequestsTyped'
  BY <1>1 DEF Answer, RequestsTyped, Steps
<1>3. pc'[r] = "idle" /\ value'[r] = {}
  BY <1>1 DEF Answer, RequestsTyped
<1>4. RequestFits(r)'
  BY <1>3 DEF RequestFits, Single
<1>5. \A q \in Requests : q # r => SameRequest(q)
  BY <1>1 DEF Answer, RequestsTyped, SameRequest
<1> QED
  BY <1>1, <1>2, <1>4, <1>5, RequestStep

-----------------------------------------------------------------------------
(* Deletions, Redis, the source and the platform.                          *)

\* What is deleted at once is gone, what is deleted in Redis is on its way.
LEMMA DeleteFits ==
  ASSUME IInv, NEW left, left \in [Isolates -> SUBSET Entries],
         \A i \in Isolates : left[i] \subseteq memory[i],
         NEW commands, commands \subseteq Del, Delete(left, commands)
  PROVE  IInv'
<1>1. /\ memory' = left /\ pending' = pending \cup commands
      /\ purge' \in {purge, {[version |-> Version, at |-> now]}}
      /\ UNCHANGED <<now, changedAt, redis, pc, at, started, value>>
  BY DEF Delete, request
<1>2. /\ now \in Nat /\ Version \in Nat /\ MaxLatency \in Nat /\ Version' = Version
      /\ changedAt \in Seq(Nat)
  BY <1>1, Ages DEF IInv, ClockFits, Version
<1>3. ClockFits'
  <2>1. CASE purge' = purge
    BY <1>1, <1>2, <2>1 DEF IInv, ClockFits, Single
  <2>2. CASE purge' = {[version |-> Version, at |-> now]}
    BY <1>1, <1>2, <2>2 DEF ClockFits, Single
  <2> QED
    BY <1>1, <2>1, <2>2
<1>4. \A op \in commands : op \in Commands /\ op.kind = "del" /\ op.since = now /\ op.version = 0
  BY <1>2, CommandOf DEF Del
<1>5. RequestsTyped' /\ RequestsFit'
  BY <1>1, QuietRequests DEF IInv, RequestsTyped, RequestsFit, SameRequest
<1>6. MemoriesFit'
  BY <1>1 DEF IInv, MemoriesFit, MemoryFits, Single
<1>7. RedisFits'
  BY <1>1, QuietRedis
<1>8. LevelsTyped'
  BY <1>1, <1>4 DEF IInv, LevelsTyped
<1>9. PendingFits'
  BY <1>1, <1>2, <1>4 DEF IInv, PendingFits
<1> QED
  BY <1>3, <1>5, <1>6, <1>7, <1>8, <1>9 DEF IInv

\* By key and by pattern.
LEMMA DeletionFits ==
  ASSUME IInv, InvalidatePattern \/ \E i \in Isolates : DeleteValue(i)
  PROVE  IInv'
<1>1. memory \in [Isolates -> SUBSET Entries]
  BY DEF IInv, LevelsTyped
<1>2. CASE InvalidatePattern
  BY <1>1, <1>2, DeleteFits DEF InvalidatePattern
<1>3. ASSUME NEW i \in Isolates, DeleteValue(i)
      PROVE  IInv'
  <2> DEFINE left == [memory EXCEPT ![i] = {}]
  <2>1. left \in [Isolates -> SUBSET Entries] /\ \A j \in Isolates : left[j] \subseteq memory[j]
    BY <1>1
  <2>2. Delete(left, Del)
    BY <1>3 DEF DeleteValue
  <2> HIDE DEF left
  <2> QED
    BY <2>1, <2>2, DeleteFits
<1> QED
  BY <1>2, <1>3

\* A SET reaches Redis.
LEMMA ExecuteSetFits ==
  ASSUME IInv, NEW op, ExecuteSet(op)
  PROVE  IInv'
<1> DEFINE e == Entry(op.version, now + SetRedisTtl)
<1>1. /\ op \in pending /\ op.kind = "set" /\ pending' = pending \ {op} /\ redis' = {e}
      /\ Quiet /\ UNCHANGED <<now, changedAt, memory, pc, at, started, value>>
  BY DEF ExecuteSet, Quiet, request
<1>2. /\ now \in Nat /\ changedAt \in Seq(Nat) /\ op \in Commands
      /\ op.version \in Nat /\ op.since \in Nat
      /\ now <= op.since + MaxLatency /\ Since(op.version, op.since - MaxLatency, now, changedAt)
  BY <1>1 DEF IInv, ClockFits, LevelsTyped, PendingFits, Commands
<1>3. now + SetRedisTtl \in Nat
  BY <1>2, Ages
<1>4. e \in Entries /\ e.expires = now + SetRedisTtl /\ e.version = op.version
  BY <1>2, <1>3, EntryOf
<1> HIDE DEF e
<1>5. /\ e.expires - RedisAge \in Int /\ op.since - MaxLatency \in Int
      /\ e.expires - RedisAge <= op.since - MaxLatency
  <2> DEFINE s == op.since
  <2>1. s \in Nat /\ now <= s + MaxLatency /\ now \in Nat
    BY <1>2
  <2> HIDE DEF s
  <2>2. /\ (now + SetRedisTtl) - RedisAge \in Int /\ s - MaxLatency \in Int
        /\ (now + SetRedisTtl) - RedisAge <= s - MaxLatency
    BY <2>1, Ages
  <2> QED
    BY <1>4, <2>2 DEF s
<1>6. Since(e.version, e.expires - RedisAge, now, changedAt)
  BY <1>2, <1>4, <1>5, SinceEarlier
<1>7. RedisFits'
  BY <1>1, <1>6 DEF RedisFits, Single
<1>8. LevelsTyped' /\ PendingFits'
  BY <1>1, <1>4, QuietPending DEF IInv, LevelsTyped
<1>9. RequestsTyped' /\ RequestsFit' /\ MemoriesFit'
  BY <1>1, QuietRequests, QuietMemory DEF IInv, RequestsTyped, RequestsFit, MemoriesFit, SameRequest
<1> QED
  BY <1>1, <1>7, <1>8, <1>9, QuietClock DEF IInv

\* A DEL reaches Redis, or a command is lost.
LEMMA CommandGone ==
  ASSUME IInv, UNCHANGED <<now, changedAt>>, purge' \subseteq purge, redis' \subseteq redis,
         pending' \subseteq pending, UNCHANGED <<memory, pc, at, started, value>>
  PROVE  IInv'
<1>1. ClockFits'
  BY DEF IInv, ClockFits, Version, Single
<1>2. RedisFits'
  BY DEF IInv, RedisFits, Single
<1>3. LevelsTyped' /\ PendingFits'
  BY QuietPending DEF IInv, LevelsTyped
<1>4. RequestsTyped' /\ RequestsFit' /\ MemoriesFit'
  BY QuietRequests, QuietMemory DEF IInv, RequestsTyped, RequestsFit, MemoriesFit, SameRequest
<1> QED
  BY <1>1, <1>2, <1>3, <1>4 DEF IInv

\* A copy is pushed out, and what else dies with its isolate.
LEMMA MemoryGone ==
  ASSUME IInv, Quiet, NEW i \in Isolates, memory' = [memory EXCEPT ![i] = {}],
         UNCHANGED <<redis, pending>>, RequestsTyped', RequestsFit'
  PROVE  IInv'
<1>1. /\ memory' \in [Isolates -> SUBSET Entries] /\ memory'[i] = {}
      /\ \A j \in Isolates : j # i => memory'[j] = memory[j]
  BY DEF IInv, LevelsTyped
<1>2. UNCHANGED <<now, changedAt>>
  BY DEF Quiet
<1>3. MemoriesFit'
  BY <1>1, <1>2, QuietMemory DEF MemoriesFit, MemoryFits, Single
<1>4. LevelsTyped' /\ PendingFits' /\ RedisFits'
  BY <1>1, <1>2, QuietPending, QuietRedis DEF IInv, LevelsTyped
<1> QED
  BY <1>3, <1>4, QuietClock DEF IInv

\* The memory level may drop a key at any time.
LEMMA EvictFits ==
  ASSUME IInv, NEW i \in Isolates, Evict(i)
  PROVE  IInv'
<1>1. /\ Quiet /\ memory' = [memory EXCEPT ![i] = {}]
      /\ UNCHANGED <<now, changedAt, redis, pending, pc, at, started, value>>
  BY DEF Evict, Quiet, request
<1>2. RequestsTyped' /\ RequestsFit'
  BY <1>1, QuietRequests DEF IInv, RequestsTyped, RequestsFit, SameRequest
<1> QED
  BY <1>1, <1>2, MemoryGone

\* A new isolate has an empty memory, and its requests are gone.
LEMMA RestartFits ==
  ASSUME IInv, NEW i \in Isolates, Restart(i)
  PROVE  IInv'
<1>1. /\ Quiet /\ memory' = [memory EXCEPT ![i] = {}] /\ UNCHANGED <<now, changedAt, redis, pending>>
      /\ pc' = [r \in Requests |-> IF at[r] = i THEN "idle" ELSE pc[r]]
      /\ at' = [r \in Requests |-> IF at[r] = i THEN Nowhere ELSE at[r]]
      /\ started' = [r \in Requests |-> IF at[r] = i THEN 0 ELSE started[r]]
      /\ value' = [r \in Requests |-> IF at[r] = i THEN {} ELSE value[r]]
  BY DEF Restart, Quiet
<1>2. RequestsTyped'
  BY <1>1 DEF IInv, RequestsTyped, Steps
<1>3. ASSUME NEW r \in Requests
      PROVE  RequestFits(r)'
  <2>1. CASE at[r] = i
    BY <1>1, <2>1 DEF RequestFits, Single
  <2>2. CASE at[r] # i
    BY <1>1, <2>2, QuietRequests DEF SameRequest
  <2> QED
    BY <2>1, <2>2
<1>4. RequestsFit'
  BY <1>3 DEF RequestsFit
<1> QED
  BY <1>1, <1>2, <1>4, MemoryGone

\* The source changes: what was current was so until now.
LEMMA ChangeFits ==
  ASSUME IInv, Change
  PROVE  IInv'
<1>1. /\ changedAt' = Append(changedAt, now) /\ UNCHANGED <<now, purge>>
      /\ UNCHANGED <<memory, redis, pending, pc, at, started, value>>
  BY DEF Change, levels, request
<1>2. now \in Nat /\ changedAt \in Seq(Nat) /\ Version \in Nat
  BY DEF IInv, ClockFits
<1>3. changedAt' \in Seq(Nat) /\ Version' = Version + 1
  BY <1>1, <1>2, AppendProperties DEF Version
<1>4. ClockFits'
  BY <1>1, <1>2, <1>3 DEF IInv, ClockFits, Single
<1>5. ASSUME NEW v, NEW t \in Int, Since(v, t, now, changedAt)
      PROVE  Since(v, t, now, changedAt')
  BY <1>1, <1>2, <1>5, SinceChange
<1>6. RequestsTyped' /\ LevelsTyped'
  BY <1>1 DEF IInv, RequestsTyped, LevelsTyped
<1>7. RequestsFit'
  <2> SUFFICES ASSUME NEW r \in Requests
               PROVE  RequestFits(r)'
    BY DEF RequestsFit
  <2>1. /\ started[r] \in Int /\ started[r] - FoundAge \in Int
        /\ started[r] + 1 - MemoryAge \in Int /\ RequestFits(r)
    BY Ages DEF IInv, RequestsTyped, RequestsFit
  <2> QED
    BY <1>1, <1>5, <2>1 DEF RequestFits
<1>8. MemoriesFit'
  <2> SUFFICES ASSUME NEW i \in Isolates
               PROVE  MemoryFits(i)'
    BY DEF MemoriesFit
  <2>1. MemoryFits(i) /\ \A e \in memory[i] : e.expires - MemoryAge \in Int
    BY Ages DEF IInv, LevelsTyped, MemoriesFit, Entries
  <2> QED
    BY <1>1, <1>5, <2>1 DEF MemoryFits
<1>9. RedisFits'
  <2>1. RedisFits /\ \A e \in redis : e.expires - RedisAge \in Int
    BY Ages DEF IInv, LevelsTyped, Entries
  <2> QED
    BY <1>1, <1>5, <2>1 DEF RedisFits
<1>10. PendingFits'
  <2>1. PendingFits /\ \A op \in pending : op.version \in Nat /\ op.since - MaxLatency \in Int
    BY Ages DEF IInv, LevelsTyped, Commands
  <2> QED
    BY <1>1, <1>2, <1>3, <1>5, <2>1 DEF PendingFits
<1> QED
  BY <1>4, <1>6, <1>7, <1>8, <1>9, <1>10 DEF IInv

\* Time passes, but no request and no command outlives its latency.
LEMMA TickFits ==
  ASSUME IInv, Tick
  PROVE  IInv'
<1>1. /\ now' = now + 1
      /\ \A r \in Requests : pc[r] # "idle" => now < started[r] + MaxLatency
      /\ \A op \in pending : now < op.since + MaxLatency
      /\ memory' = [i \in Isolates |-> Live(memory[i], now + 1)]
      /\ redis' = Live(redis, now + 1)
      /\ UNCHANGED <<changedAt, purge, pending, pc, at, started, value>>
  BY DEF Tick, request
<1>2. now \in Nat /\ MaxLatency \in Nat
  BY Ages DEF IInv, ClockFits
<1>3. ClockFits'
  BY <1>1, <1>2 DEF IInv, ClockFits, Version, Single
<1>4. ASSUME NEW v, NEW t \in Int, Since(v, t, now, changedAt)
      PROVE  Since(v, t, now + 1, changedAt)
  BY <1>2, <1>4, SinceLater
<1>5. \A S, t : Live(S, t) \subseteq S
  BY DEF Live
<1>6. RequestsTyped' /\ LevelsTyped'
  BY <1>1, <1>5 DEF IInv, RequestsTyped, LevelsTyped
<1>7. RequestsFit'
  <2> SUFFICES ASSUME NEW r \in Requests
               PROVE  RequestFits(r)'
    BY DEF RequestsFit
  <2>1. /\ started[r] \in Nat /\ started[r] - FoundAge \in Int
        /\ started[r] + 1 - MemoryAge \in Int /\ RequestFits(r)
    BY Ages DEF IInv, RequestsTyped, RequestsFit
  <2>2. pc[r] # "idle" => started[r] <= now + 1 /\ now + 1 <= started[r] + MaxLatency /\ at[r] \in Isolates
    BY <1>1, <1>2, <2>1 DEF RequestFits
  <2> QED
    BY <1>1, <1>4, <2>1, <2>2 DEF RequestFits
<1>8. MemoriesFit'
  <2> SUFFICES ASSUME NEW i \in Isolates
               PROVE  MemoryFits(i)'
    BY DEF MemoriesFit
  <2>1. MemoryFits(i) /\ \A e \in memory[i] : e.expires - MemoryAge \in Int
    BY Ages DEF IInv, LevelsTyped, MemoriesFit, Entries
  <2>2. memory'[i] \subseteq memory[i]
    BY <1>1, <1>5
  <2> QED
    BY <1>1, <1>4, <2>1, <2>2 DEF MemoryFits, Single
<1>9. RedisFits'
  <2>1. RedisFits /\ \A e \in redis : e.expires - RedisAge \in Int
    BY Ages DEF IInv, LevelsTyped, Entries
  <2>2. redis' \subseteq redis
    BY <1>1, <1>5
  <2> QED
    BY <1>1, <1>4, <2>1, <2>2 DEF RedisFits, Single
<1>10. PendingFits'
  <2> SUFFICES ASSUME NEW op \in pending
               PROVE  /\ now + 1 <= op.since + MaxLatency /\ op.version <= Version
                      /\ op.kind = "set" => Since(op.version, op.since - MaxLatency, now + 1, changedAt)
    BY <1>1 DEF PendingFits, Version
  <2>1. /\ op.since \in Nat /\ op.since - MaxLatency \in Int /\ op.version <= Version
        /\ op.kind = "set" => Since(op.version, op.since - MaxLatency, now, changedAt)
    BY <1>2 DEF IInv, LevelsTyped, Commands, PendingFits
  <2>2. now + 1 <= op.since + MaxLatency
    BY <1>1, <1>2, <2>1
  <2> QED
    BY <1>4, <2>1, <2>2
<1> QED
  BY <1>3, <1>6, <1>7, <1>8, <1>9, <1>10 DEF IInv

-----------------------------------------------------------------------------
(* The contract.                                                           *)

\* Every step keeps the invariant.
LEMMA IInvInductive == IInv /\ [Next]_vars => IInv'
<1> SUFFICES ASSUME IInv, [Next]_vars
             PROVE  IInv'
  OBVIOUS
<1>1. CASE Change \/ Tick
  BY <1>1, ChangeFits, TickFits
<1>2. ASSUME NEW r \in Requests, NEW i \in Isolates, GetFromMemory(r, i) \/ Get(r, i) \/ Refresh(r, i)
      PROVE  IInv'
  BY <1>2, GetFromMemoryFits, LookupFits
<1>3. ASSUME NEW r \in Requests, RedisGet(r) \/ WarmUp(r) \/ Store(r) \/ Answer(r)
      PROVE  IInv'
  BY <1>3, RedisGetFits, WarmUpFits, StoreFits, AnswerFits
<1>4. ASSUME NEW r \in Requests, Compute(r) \/ ComputeUncached(r)
      PROVE  IInv'
  BY <1>4, ComputedFits DEF Compute, ComputeUncached, Quiet
<1>5. CASE InvalidatePattern \/ \E i \in Isolates : DeleteValue(i)
  BY <1>5, DeletionFits
<1>6. ASSUME NEW i \in Isolates, Evict(i) \/ Restart(i)
      PROVE  IInv'
  BY <1>6, EvictFits, RestartFits
<1>7. ASSUME NEW op \in pending, ExecuteSet(op)
      PROVE  IInv'
  BY <1>7, ExecuteSetFits
<1>8. ASSUME NEW op \in pending, ExecuteDel(op) \/ LoseCommand(op)
      PROVE  IInv'
  BY <1>8, CommandGone DEF ExecuteDel, LoseCommand, request
<1>9. CASE UNCHANGED vars
  <2>1. UNCHANGED <<now, changedAt, purge, memory, redis, pending, pc, at, started, value>>
    BY <1>9 DEF vars, levels, request
  <2> QED
    BY <2>1, CommandGone
<1> QED
  BY <1>1, <1>2, <1>3, <1>4, <1>5, <1>6, <1>7, <1>8, <1>9 DEF Next

\* The inductive invariant holds in every reachable state.
THEOREM Invariance == Spec => []IInv
BY InitFits, IInvInductive, PTL DEF Spec

\* A level holds at most one copy of the key, no copy, call or command is newer than the
\* source, and a request stores and answers only what it has got.
THEOREM TypeCorrect == Spec => []TypeOK
<1>1. ASSUME IInv
      PROVE  TypeOK
  <2>1. /\ now \in Nat /\ changedAt \in Seq(Nat) /\ Version \in Nat
        /\ memory \in [Isolates -> SUBSET Entries] /\ redis \subseteq Entries
        /\ pending \subseteq Commands
        /\ pc \in [Requests -> Steps] /\ at \in [Requests -> Isolates \cup {Nowhere}]
        /\ started \in [Requests -> Nat] /\ value \in [Requests -> SUBSET Nat]
        /\ purge \subseteq [version: Nat, at: Nat] /\ Single(purge)
        /\ \A p \in purge : p.version <= Version
    BY <1>1 DEF IInv, ClockFits, LevelsTyped, RequestsTyped
  <2>2. \A v, t, clock : Since(v, t, clock, changedAt) => v <= Version
    BY <2>1 DEF Since, Version
  <2>3. \A r \in Requests : /\ pc[r] \in {"store", "answer"} => value[r] # {}
                            /\ Single(value[r]) /\ \A v \in value[r] : v <= Version
    BY <1>1, <2>2 DEF IInv, RequestsFit, RequestFits
  <2>4. \A i \in Isolates : Single(memory[i]) /\ \A e \in memory[i] : e.version <= Version
    BY <1>1, <2>2 DEF IInv, MemoriesFit, MemoryFits
  <2>5. Single(redis) /\ \A e \in redis : e.version <= Version
    BY <1>1, <2>2 DEF IInv, RedisFits
  <2>6. \A op \in pending : op.version <= Version
    BY <1>1 DEF IInv, PendingFits
  <2> QED
    BY <2>1, <2>3, <2>4, <2>5, <2>6 DEF TypeOK
<1> QED
  BY <1>1, Invariance, PTL

\* An answer that was not replaced for too long is one the contract accepts.
LEMMA AnswerImplements ==
  ASSUME IInv, NEW v, NEW t \in Int, Since(v, t, now, changedAt),
         now < t + LongestWay, answers' = {v}, UNCHANGED <<now, changedAt>>
  PROVE  Contract!Next
<1> DEFINE told == [p \in {"value"} |-> v]
           changes == [s \in {"key"} |-> changedAt]
<1>1. /\ now \in Nat /\ changedAt \in Seq(Nat) /\ Len(changedAt) \in Nat
      /\ v \in 0..Len(changedAt) /\ (v < Len(changedAt) => t <= changedAt[v + 1])
  BY LenProperties DEF IInv, ClockFits, Since
<1>2. v < Len(changedAt) => now < changedAt[v + 1] + LongestWay
  <2> SUFFICES ASSUME v < Len(changedAt)
               PROVE  now < changedAt[v + 1] + LongestWay
    OBVIOUS
  <2>1. v + 1 \in 1..Len(changedAt)
    BY <1>1
  <2>2. changedAt[v + 1] \in Nat
    BY <1>1, <2>1, ElementOfSeq
  <2> QED
    BY <1>1, <2>2, Ages
<1>3. v \in Contract!Acceptable("key")
  BY <1>1, <1>2 DEF Contract!Acceptable, Contract!Version
<1>4. told \in [{"value"} -> Contract!Acceptable("key")]
  BY <1>3
<1>5. {[scope |-> "key", versions |-> [p \in {"value"} |-> w]] : w \in answers'}
        = {[scope |-> "key", versions |-> told]}
  OBVIOUS
<1>6. Contract!Answer("key", told)
  BY <1>5 DEF Contract!Answer
<1> QED
  BY <1>4, <1>6 DEF Contract!Next

\* A step that answers nothing.
LEMMA QuietImplements ==
  ASSUME answers' = {}, UNCHANGED <<now, changedAt>>
  PROVE  Contract!Next
BY DEF Contract!Next, Contract!Work

\* Every step of the cache is a step of the contract.
LEMMA StepImplements == IInv /\ [Next]_vars => [Contract!Next]_(Contract!vars)
<1> SUFFICES ASSUME IInv, [Next]_vars
             PROVE  [Contract!Next]_(Contract!vars)
  OBVIOUS
<1>1. CASE Change
  <2>1. Contract!Change({"key"})
    BY <1>1 DEF Change, Contract!Change
  <2> QED
    BY <2>1 DEF Contract!Next
<1>2. CASE Tick
  BY <1>2 DEF Tick, Contract!Next, Contract!Tick
<1>3. CASE \E r \in Requests, i \in Isolates : GetFromMemory(r, i) \/ Get(r, i) \/ Refresh(r, i)
  BY <1>3, QuietImplements DEF GetFromMemory, Get, Refresh, Call
<1>4. CASE \E r \in Requests : RedisGet(r) \/ WarmUp(r) \/ Compute(r) \/ ComputeUncached(r) \/ Store(r)
  BY <1>4, QuietImplements DEF RedisGet, WarmUp, Compute, ComputeUncached, Store, Goto
<1>5. ASSUME NEW r \in Requests, Answer(r)
      PROVE  Contract!Next
  <2> DEFINE s == started[r]
  <2>1. /\ pc[r] = "answer" /\ answers' = value[r] /\ UNCHANGED <<now, changedAt>>
    BY <1>5 DEF Answer
  <2>2. /\ s \in Nat /\ now \in Nat /\ now <= s + MaxLatency
        /\ value[r] # {} /\ Single(value[r])
        /\ \A v \in value[r] : Since(v, s + 1 - MemoryAge, now, changedAt)
    BY <2>1, InFlight DEF IInv, RequestsFit, RequestFits
  <2> HIDE DEF s
  <2>3. PICK v \in value[r] : value[r] = {v}
    BY <2>2 DEF Single
  <2>4. s + 1 - MemoryAge \in Int /\ now < (s + 1 - MemoryAge) + LongestWay
    BY <2>2, Ages
  <2>5. Since(v, s + 1 - MemoryAge, now, changedAt) /\ answers' = {v}
    BY <2>1, <2>2, <2>3
  <2> QED
    BY <2>1, <2>4, <2>5, AnswerImplements
<1>6. CASE InvalidatePattern \/ \E i \in Isolates : DeleteValue(i) \/ Evict(i) \/ Restart(i)
  BY <1>6, QuietImplements DEF InvalidatePattern, DeleteValue, Delete, Evict, Restart
<1>7. CASE \E op \in pending : ExecuteSet(op) \/ ExecuteDel(op) \/ LoseCommand(op)
  BY <1>7, QuietImplements DEF ExecuteSet, ExecuteDel, LoseCommand
<1>8. CASE UNCHANGED vars
  BY <1>8 DEF vars, Contract!vars
<1> QED
  BY <1>1, <1>2, <1>3, <1>4, <1>5, <1>6, <1>7, <1>8 DEF Next

\* The multi-level cache implements the contract: no answer is older than one
\* computation, one background write, one GET, both TTLs and the latency of a hit.
THEOREM ImplementsContract == Spec => BoundedStaleness
<1>1. Init => Contract!Init
  BY DEF Init, Contract!Init
<1> QED
  BY <1>1, StepImplements, Invariance, PTL DEF Spec, BoundedStaleness, Contract!Spec

-----------------------------------------------------------------------------
(* Deletions.                                                              *)

\* How long after a deletion a memory level may still keep what it deleted.
Felt(p) == p.at + 2 * MaxLatency + MemoryTtl

\* A request that has what a deletion deleted got it before the DEL was executed, or from
\* the memory.
RequestForgets(r) ==
  \A p \in purge : \A v \in value[r] :
    v < p.version => \/ pc[r] = "reply" /\ started[r] <= p.at + MaxLatency
                     \/ pc[r] = "answer" /\ started[r] < Felt(p)

\* A memory level keeps it for its TTL.
MemoryForgets(i) ==
  \A e \in memory[i] : /\ e.expires <= now + MemoryTtl
                       /\ \A p \in purge : e.version < p.version => e.expires <= Felt(p)

\* Redis keeps it until the DEL.
RedisForgets ==
  \A p \in purge : \A e \in redis :
    e.version < p.version => \E op \in pending : op.kind = "del" /\ op.since = p.at

\* Nothing on its way to Redis is older.
PendingForgets ==
  \A p \in purge : \A op \in pending : op.kind = "set" => op.version >= p.version

RequestsForget == \A r \in Requests : RequestForgets(r)
MemoriesForget == \A i \in Isolates : MemoryForgets(i)

\* The strengthening of DeletionIsFelt.
FInv == RequestsForget /\ MemoriesForget /\ RedisForgets /\ PendingForgets /\ DeletionIsFelt

\* The memory TTL is the longer one.
LEMMA MemoryTtls ==
  MemoryTtl \in Nat \ {0} /\ WarmTtl <= MemoryTtl /\ SetMemoryTtl <= MemoryTtl
<1>1. SetMemoryTtl \in Nat \ {0} /\ WarmTtl \in Nat \ {0}
  BY MultiLevelAssumption
<1> QED
  BY <1>1 DEF MemoryTtl

\* The numbers of a deletion.
LEMMA PurgeTyped ==
  ASSUME IInv, NEW p \in purge
  PROVE  /\ p.version \in Nat /\ p.at \in Nat /\ p.at <= now /\ p.version <= Version
         /\ now \in Nat /\ Version \in Nat /\ MaxLatency \in Nat /\ MemoryTtl \in Nat \ {0}
         /\ Felt(p) = p.at + 2 * MaxLatency + MemoryTtl /\ Felt(p) \in Nat
<1>1. /\ p.version \in Nat /\ p.at \in Nat /\ p.at <= now /\ p.version <= Version
      /\ now \in Nat /\ Version \in Nat
  BY DEF IInv, ClockFits
<1> DEFINE a == p.at
<1>2. a \in Nat
  BY <1>1
<1> HIDE DEF a
<1>3. a + 2 * MaxLatency + MemoryTtl \in Nat
  BY <1>2, Ages, MemoryTtls
<1> QED
  BY <1>1, <1>3, Ages, MemoryTtls DEF Felt, a

\* A step that answers nothing and touches no deletion keeps what it leaves alone.
LEMMA SilentStep ==
  ASSUME IInv, FInv, answers' = {}, UNCHANGED <<now, purge>>
  PROVE  /\ DeletionIsFelt'
         /\ \A r \in Requests : SameRequest(r) \/ value'[r] = {} => RequestForgets(r)'
         /\ \A i \in Isolates : memory'[i] \subseteq memory[i] => MemoryForgets(i)'
         /\ redis' \subseteq redis /\ pending \subseteq pending' => RedisForgets'
         /\ pending' \subseteq pending => PendingForgets'
<1>1. DeletionIsFelt'
  BY DEF DeletionIsFelt
<1>2. ASSUME NEW r \in Requests, SameRequest(r) \/ value'[r] = {}
      PROVE  RequestForgets(r)'
  BY <1>2 DEF FInv, RequestsForget, RequestForgets, SameRequest, Felt
<1>3. ASSUME NEW i \in Isolates, memory'[i] \subseteq memory[i]
      PROVE  MemoryForgets(i)'
  BY <1>3 DEF FInv, MemoriesForget, MemoryForgets, Felt
<1>4. redis' \subseteq redis /\ pending \subseteq pending' => RedisForgets'
  BY DEF FInv, RedisForgets
<1>5. pending' \subseteq pending => PendingForgets'
  BY DEF FInv, PendingForgets
<1> QED
  BY <1>1, <1>2, <1>3, <1>4, <1>5

\* A step of one request that leaves the levels alone and answers nothing.
LEMMA RequestForgetsStep ==
  ASSUME IInv, FInv, answers' = {}, UNCHANGED <<now, purge, memory, redis, pending>>,
         NEW r \in Requests, RequestForgets(r)', \A q \in Requests : q # r => SameRequest(q)
  PROVE  FInv'
BY SilentStep DEF FInv, RequestsForget, MemoriesForget

\* A call: what the memory has expires after now.
LEMMA CallForgets ==
  ASSUME IInv, FInv, NEW r \in Requests, NEW i \in Isolates,
         GetFromMemory(r, i) \/ Get(r, i) \/ Refresh(r, i)
  PROVE  FInv'
<1>1. PICK first, got : /\ Call(r, i, first, got)
                        /\ \/ got = {}
                           \/ first = "answer" /\ \E e \in Live(memory[i], now) : got = {e.version}
  BY DEF GetFromMemory, Get, Refresh
<1>2. /\ RequestsTyped /\ answers' = {}
      /\ UNCHANGED <<now, purge, memory, redis, pending>>
  BY <1>1 DEF Call, IInv, levels
<1>3. pc'[r] = first /\ started'[r] = now /\ value'[r] = got
  BY <1>1, <1>2 DEF Call, RequestsTyped
<1>4. \A q \in Requests : q # r => SameRequest(q)
  BY <1>1, <1>2 DEF Call, RequestsTyped, SameRequest
<1>5. RequestForgets(r)'
  <2> SUFFICES ASSUME NEW p \in purge, NEW v \in got, v < p.version
               PROVE  first = "answer" /\ now < Felt(p)
    BY <1>2, <1>3 DEF RequestForgets, Felt
  <2>1. PICK e \in Live(memory[i], now) : got = {e.version}
    BY <1>1
  <2>2. /\ e \in memory[i] /\ e.expires > now /\ e.expires \in Nat /\ v = e.version
        /\ first = "answer"
    BY <1>1, <2>1 DEF Live, IInv, LevelsTyped, Entries
  <2>3. e.expires <= Felt(p)
    BY <2>2 DEF FInv, MemoriesForget, MemoryForgets
  <2>4. Felt(p) \in Nat /\ now \in Nat
    BY PurgeTyped
  <2> QED
    BY <2>2, <2>3, <2>4
<1> QED
  BY <1>2, <1>4, <1>5, RequestForgetsStep

\* A GET that finds what was deleted overtook the DEL.
LEMMA RedisGetForgets ==
  ASSUME IInv, FInv, NEW r \in Requests, RedisGet(r)
  PROVE  FInv'
<1>1. PICK found \in {{}, {e.version : e \in Live(redis, now)}} :
        value' = [value EXCEPT ![r] = found]
  BY DEF RedisGet
<1>2. /\ RequestsTyped /\ answers' = {} /\ pc[r] = "redis" /\ Goto(r, "reply")
      /\ UNCHANGED <<now, purge, memory, redis, pending>>
  BY DEF RedisGet, Goto, IInv, levels
<1>3. pc'[r] = "reply" /\ started'[r] = started[r] /\ value'[r] = found
  BY <1>1, <1>2 DEF Goto, RequestsTyped
<1>4. \A q \in Requests : q # r => SameRequest(q)
  BY <1>1, <1>2 DEF Goto, RequestsTyped, SameRequest
<1>5. RequestForgets(r)'
  <2> SUFFICES ASSUME NEW p \in purge, NEW v \in found, v < p.version
               PROVE  started[r] <= p.at + MaxLatency
    BY <1>2, <1>3 DEF RequestForgets, Felt
  <2>1. PICK e \in redis : v = e.version
    BY <1>1 DEF Live
  <2>2. PICK op \in pending : op.since = p.at
    BY <2>1 DEF FInv, RedisForgets
  <2>3. now <= p.at + MaxLatency
    BY <2>2 DEF IInv, PendingFits
  <2>4. started[r] \in Nat /\ started[r] <= now
    BY <1>2, InFlight
  <2> QED
    BY <2>3, <2>4, PurgeTyped
<1> QED
  BY <1>2, <1>4, <1>5, RequestForgetsStep

\* What is computed after a deletion is newer.
LEMMA ComputedForgets ==
  ASSUME IInv, FInv, NEW r \in Requests, Compute(r) \/ ComputeUncached(r)
  PROVE  FInv'
<1>1. PICK step : /\ value' = [value EXCEPT ![r] = {Version}] /\ Goto(r, step)
                  /\ UNCHANGED <<now, purge, levels>>
  BY DEF Compute, ComputeUncached
<1>2. /\ RequestsTyped /\ answers' = {} /\ UNCHANGED <<now, purge, memory, redis, pending>>
  BY <1>1 DEF Goto, IInv, levels
<1>3. value'[r] = {Version}
  BY <1>1, <1>2 DEF RequestsTyped
<1>4. \A q \in Requests : q # r => SameRequest(q)
  BY <1>1, <1>2 DEF Goto, RequestsTyped, SameRequest
<1>5. RequestForgets(r)'
  <2>1. \A p \in purge : ~ Version < p.version
    BY PurgeTyped
  <2> QED
    BY <1>2, <1>3, <2>1 DEF RequestForgets
<1> QED
  BY <1>2, <1>4, <1>5, RequestForgetsStep

\* An entry that is put in a memory.
LEMMA PutForgets ==
  ASSUME IInv, FInv, answers' = {}, UNCHANGED <<now, purge>>, NEW i \in Isolates, NEW e,
         memory' = [memory EXCEPT ![i] = {e}], e.expires <= now + MemoryTtl,
         \A p \in purge : e.version < p.version => e.expires <= Felt(p)
  PROVE  MemoriesForget'
<1>1. memory'[i] = {e} /\ \A j \in Isolates : j # i => memory'[j] = memory[j]
  BY DEF IInv, LevelsTyped
<1>2. MemoryForgets(i)'
  BY <1>1 DEF MemoryForgets, Felt
<1> QED
  BY <1>1, <1>2, SilentStep DEF MemoriesForget

\* A hit warms the memory soon enough.
LEMMA WarmUpForgets ==
  ASSUME IInv, FInv, NEW r \in Requests, WarmUp(r)
  PROVE  FInv'
<1>1. /\ RequestsTyped /\ answers' = {} /\ pc[r] = "reply" /\ value' = value
      /\ UNCHANGED <<now, purge, redis, pending>>
  BY DEF WarmUp, Goto, IInv, levels
<1>2. PICK step : Goto(r, step)
  BY DEF WarmUp
<1>3. \A q \in Requests : q # r => SameRequest(q)
  BY <1>1, <1>2 DEF Goto, RequestsTyped, SameRequest
<1>4. CASE value[r] = {} /\ UNCHANGED levels
  BY <1>1, <1>3, <1>4, RequestForgetsStep DEF RequestForgets, levels
<1>5. ASSUME NEW v \in value[r], memory' = [memory EXCEPT ![at[r]] = {Entry(v, now + WarmTtl)}],
             Goto(r, "answer")
      PROVE  FInv'
  <2>1. /\ now \in Nat /\ started[r] \in Nat /\ at[r] \in Isolates /\ v \in Nat
        /\ now <= started[r] + MaxLatency /\ Single(value[r])
    BY <1>1, InFlight DEF IInv, RequestsFit, RequestFits, RequestsTyped
  <2>2. pc'[r] = "answer" /\ started' = started
    BY <1>1, <1>5 DEF Goto, RequestsTyped
  <2>3. ASSUME NEW p \in purge, NEW u \in value[r], u < p.version
        PROVE  started[r] < Felt(p) /\ now + WarmTtl <= Felt(p)
    <3> DEFINE s == started[r]
               a == p.at
    <3>1. s <= a + MaxLatency
      BY <1>1, <2>3 DEF FInv, RequestsForget, RequestForgets
    <3>2. s \in Nat /\ a \in Nat /\ now <= s + MaxLatency /\ Felt(p) = a + 2 * MaxLatency + MemoryTtl
      BY <2>1, PurgeTyped
    <3> HIDE DEF s, a
    <3>3. s < a + 2 * MaxLatency + MemoryTtl /\ now + WarmTtl <= a + 2 * MaxLatency + MemoryTtl
      BY <2>1, <3>1, <3>2, Ages, MemoryTtls
    <3> QED
      BY <3>2, <3>3 DEF s
  <2>4. RequestForgets(r)'
    BY <1>1, <2>2, <2>3 DEF RequestForgets, Felt
  <2>6. now + WarmTtl \in Nat /\ now + WarmTtl <= now + MemoryTtl
    BY <2>1, Ages, MemoryTtls
  <2>7. /\ Entry(v, now + WarmTtl).version = v
        /\ Entry(v, now + WarmTtl).expires = now + WarmTtl
    BY <2>1, <2>6, EntryOf
  <2>8. \A p \in purge : v < p.version => now + WarmTtl <= Felt(p)
    BY <2>3
  <2>9. MemoriesForget'
    <3> DEFINE e == Entry(v, now + WarmTtl)
    <3>1. /\ e.version = v /\ e.expires = now + WarmTtl
          /\ memory' = [memory EXCEPT ![at[r]] = {e}]
      BY <1>5, <2>7
    <3> HIDE DEF e
    <3>2. e.expires <= now + MemoryTtl /\ \A p \in purge : e.version < p.version => e.expires <= Felt(p)
      BY <2>6, <2>8, <3>1
    <3> QED
      BY <1>1, <2>1, <3>1, <3>2, PutForgets
  <2> QED
    BY <1>1, <1>3, <2>4, <2>9, SilentStep DEF FInv, RequestsForget
<1> QED
  BY <1>4, <1>5 DEF WarmUp

\* What is stored after a deletion is newer.
LEMMA StoreForgets ==
  ASSUME IInv, FInv, NEW r \in Requests, Store(r)
  PROVE  FInv'
<1>1. /\ RequestsTyped /\ answers' = {} /\ pc[r] = "store" /\ value' = value /\ Goto(r, "answer")
      /\ UNCHANGED <<now, purge, redis>>
  BY DEF Store, Goto, IInv
<1>2. PICK v \in value[r] :
        /\ memory' = [memory EXCEPT ![at[r]] = {Entry(v, now + SetMemoryTtl)}]
        /\ pending' = pending \cup {Command("set", v)}
  BY DEF Store
<1>3. \A q \in Requests : q # r => SameRequest(q)
  BY <1>1 DEF Goto, RequestsTyped, SameRequest
<1>4. now \in Nat /\ at[r] \in Isolates /\ v \in Nat
  BY <1>1, InFlight DEF RequestsTyped
<1>5. \A p \in purge : \A u \in value[r] : ~ u < p.version
  BY <1>1 DEF FInv, RequestsForget, RequestForgets
<1>6. RequestForgets(r)'
  BY <1>1, <1>5 DEF RequestForgets
<1>7. \A p \in purge : ~ v < p.version
  BY <1>5
<1>8. now + SetMemoryTtl \in Nat /\ now + SetMemoryTtl <= now + MemoryTtl
  BY <1>4, Ages, MemoryTtls
<1>9. /\ Entry(v, now + SetMemoryTtl).version = v
      /\ Entry(v, now + SetMemoryTtl).expires = now + SetMemoryTtl
  BY <1>4, <1>8, EntryOf
<1>11. MemoriesForget'
  <2> DEFINE e == Entry(v, now + SetMemoryTtl)
  <2>1. /\ e.version = v /\ e.expires = now + SetMemoryTtl
        /\ memory' = [memory EXCEPT ![at[r]] = {e}]
    BY <1>2, <1>9
  <2> HIDE DEF e
  <2>2. e.expires <= now + MemoryTtl /\ \A p \in purge : e.version < p.version => e.expires <= Felt(p)
    BY <1>7, <1>8, <2>1
  <2> QED
    BY <1>1, <1>4, <2>1, <2>2, PutForgets
<1>12. Command("set", v).version = v
  BY <1>4, CommandOf
<1>13. PendingForgets'
  <2>1. \A p \in purge : v >= p.version
    BY <1>4, <1>5, PurgeTyped
  <2> QED
    BY <1>1, <1>2, <1>12, <2>1 DEF FInv, PendingForgets
<1> QED
  BY <1>1, <1>2, <1>3, <1>6, <1>11, <1>13, SilentStep DEF FInv, RequestsForget

\* An answer comes a latency after its call at most.
LEMMA AnswerForgets ==
  ASSUME IInv, FInv, NEW r \in Requests, Answer(r)
  PROVE  FInv'
<1>1. /\ RequestsTyped /\ pc[r] = "answer" /\ answers' = value[r]
      /\ UNCHANGED <<now, purge, memory, redis, pending>>
  BY DEF Answer, IInv, levels
<1>2. value'[r] = {} /\ \A q \in Requests : q # r => SameRequest(q)
  BY <1>1 DEF Answer, RequestsTyped, SameRequest
<1>3. DeletionIsFelt'
  <2> SUFFICES ASSUME NEW p \in purge, NEW v \in value[r], v < p.version
               PROVE  now < p.at + 3 * MaxLatency + MemoryTtl
    BY <1>1 DEF DeletionIsFelt
  <2> DEFINE s == started[r]
             a == p.at
  <2>1. s < Felt(p)
    BY <1>1 DEF FInv, RequestsForget, RequestForgets
  <2>2. /\ s \in Nat /\ a \in Nat /\ now \in Nat /\ now <= s + MaxLatency
        /\ Felt(p) = a + 2 * MaxLatency + MemoryTtl
    BY <1>1, InFlight, PurgeTyped
  <2> HIDE DEF s, a
  <2>3. now < a + 3 * MaxLatency + MemoryTtl
    BY <2>1, <2>2, Ages, MemoryTtls
  <2> QED
    BY <2>3 DEF a
<1>4. RequestsForget'
  BY <1>1, <1>2 DEF FInv, RequestsForget, RequestForgets, SameRequest, Felt
<1> QED
  BY <1>1, <1>3, <1>4
  DEF FInv, MemoriesForget, MemoryForgets, RedisForgets, PendingForgets, Felt

\* A deletion that counts finds only what its bound allows.
LEMMA DeleteForgets ==
  ASSUME IInv, FInv, NEW left, \A i \in Isolates : left[i] \subseteq memory[i],
         NEW commands, commands \subseteq Del, redis # {} => commands = Del,
         Delete(left, commands)
  PROVE  FInv'
<1>1. /\ memory' = left /\ pending' = pending \cup commands /\ answers' = {}
      /\ purge' = IF Counts THEN {[version |-> Version, at |-> now]} ELSE purge
      /\ UNCHANGED <<now, redis, pc, at, started, value>>
  BY DEF Delete, request
<1>2. now \in Nat /\ MaxLatency \in Nat /\ MemoryTtl \in Nat \ {0}
  BY Ages, MemoryTtls DEF IInv, ClockFits
<1>3. \A op \in Del : op.kind = "del" /\ op.since = now
  BY DEF Del, Command
<1>4. DeletionIsFelt'
  BY <1>1 DEF DeletionIsFelt
<1>5. CASE ~Counts
  <2>1. purge' = purge
    BY <1>1, <1>5
  <2>2. PendingForgets'
    BY <1>1, <1>3, <2>1 DEF FInv, PendingForgets
  <2>3. RequestsForget' /\ MemoriesForget' /\ RedisForgets'
    BY <1>1, <2>1, SilentStep DEF RequestsForget, MemoriesForget, SameRequest
  <2> QED
    BY <1>4, <2>2, <2>3 DEF FInv
<1>6. CASE Counts
  <2> DEFINE d == [version |-> Version, at |-> now]
  <2>1. purge' = {d} /\ d.version = Version /\ d.at = now
    BY <1>1, <1>6
  <2>2. Felt(d) = now + 2 * MaxLatency + MemoryTtl /\ Felt(d)' = Felt(d)
    BY <1>1, <2>1 DEF Felt
  <2> HIDE DEF d
  <2>3. now <= now + MaxLatency /\ now < Felt(d) /\ now + MemoryTtl <= Felt(d) /\ Felt(d) \in Nat
    BY <1>2, <2>2
  <2>4. ASSUME NEW r \in Requests
        PROVE  RequestForgets(r)'
    <3>1. ASSUME NEW v \in value[r], v < Version
          PROVE  \/ pc[r] = "reply" /\ started[r] <= now + MaxLatency
                 \/ pc[r] = "answer" /\ started[r] < Felt(d)
      <4>1. pc[r] \in {"reply", "store", "answer"}
        BY DEF IInv, RequestsFit, RequestFits
      <4>2. pc[r] # "store"
        BY <1>6, <3>1 DEF Counts, IInv, ClockFits
      <4>3. started[r] \in Nat /\ started[r] <= now
        BY <4>1, InFlight
      <4> QED
        BY <1>2, <2>3, <4>1, <4>2, <4>3
    <3> QED
      BY <1>1, <2>1, <2>2, <3>1 DEF RequestForgets
  <2>5. ASSUME NEW i \in Isolates
        PROVE  MemoryForgets(i)'
    <3>1. \A e \in memory'[i] : e.expires \in Nat /\ e.expires <= now + MemoryTtl
      BY <1>1 DEF FInv, MemoriesForget, MemoryForgets, IInv, LevelsTyped, Entries
    <3>2. \A e \in memory'[i] : e.expires <= Felt(d)
      BY <1>2, <2>3, <3>1
    <3> QED
      BY <1>1, <2>1, <2>2, <3>1, <3>2 DEF MemoryForgets
  <2>6. RedisForgets'
    BY <1>1, <1>3, <2>1 DEF RedisForgets, Del
  <2>7. PendingForgets'
    <3>1. \A op \in pending' : op.kind = "set" => op.version = Version
      BY <1>1, <1>3, <1>6 DEF Counts
    <3>2. Version \in Nat
      BY DEF IInv, ClockFits
    <3> QED
      BY <2>1, <3>1, <3>2 DEF PendingForgets
  <2> QED
    BY <1>4, <2>4, <2>5, <2>6, <2>7 DEF FInv, RequestsForget, MemoriesForget
<1> QED
  BY <1>5, <1>6

\* By key and by pattern.
LEMMA DeletionForgets ==
  ASSUME IInv, FInv, InvalidatePattern \/ \E i \in Isolates : DeleteValue(i)
  PROVE  FInv'
<1>1. CASE InvalidatePattern
  BY <1>1, DeleteForgets DEF InvalidatePattern
<1>2. ASSUME NEW i \in Isolates, DeleteValue(i)
      PROVE  FInv'
  <2> DEFINE left == [memory EXCEPT ![i] = {}]
  <2>1. \A j \in Isolates : left[j] \subseteq memory[j]
    BY DEF IInv, LevelsTyped
  <2>2. Delete(left, Del)
    BY <1>2 DEF DeleteValue
  <2> HIDE DEF left
  <2> QED
    BY <2>1, <2>2, DeleteForgets
<1> QED
  BY <1>1, <1>2

\* A command is executed or lost.
LEMMA CommandForgets ==
  ASSUME IInv, FInv, NEW op \in pending, ExecuteSet(op) \/ ExecuteDel(op) \/ LoseCommand(op)
  PROVE  FInv'
<1>1. /\ answers' = {} /\ pending' = pending \ {op} /\ purge' \in {{}, purge}
      /\ UNCHANGED <<now, memory, pc, at, started, value>>
  BY DEF ExecuteSet, ExecuteDel, LoseCommand, request
<1>2. CASE purge' = {}
  <2>1. MemoriesForget'
    BY <1>1, <1>2 DEF FInv, MemoriesForget, MemoryForgets
  <2> QED
    BY <1>2, <2>1
    DEF FInv, RequestsForget, RequestForgets, RedisForgets, PendingForgets, DeletionIsFelt
<1>3. CASE purge' = purge
  <2>1. /\ DeletionIsFelt' /\ PendingForgets' /\ RequestsForget' /\ MemoriesForget'
    BY <1>1, <1>3, SilentStep DEF RequestsForget, MemoriesForget, SameRequest
  <2>2. RedisForgets'
    <3>1. CASE ExecuteSet(op)
      <4>1. redis' = {Entry(op.version, now + SetRedisTtl)} /\ op.kind = "set"
        BY <3>1 DEF ExecuteSet
      <4>2. Entry(op.version, now + SetRedisTtl).version = op.version
        BY DEF Entry
      <4>3. \A p \in purge : ~ op.version < p.version
        BY <4>1, PurgeTyped DEF FInv, PendingForgets, IInv, LevelsTyped, Commands
      <4> QED
        BY <1>3, <4>1, <4>2, <4>3 DEF RedisForgets
    <3>2. CASE ExecuteDel(op)
      BY <3>2 DEF ExecuteDel, RedisForgets
    <3>3. CASE LoseCommand(op)
      <4>1. redis' = redis /\ (op.kind # "del" \/ purge' = {})
        BY <3>3 DEF LoseCommand
      <4> QED
        BY <1>1, <1>3, <4>1 DEF FInv, RedisForgets
    <3> QED
      BY <3>1, <3>2, <3>3
  <2> QED
    BY <2>1, <2>2 DEF FInv
<1> QED
  BY <1>1, <1>2, <1>3

\* The platform and the source.
LEMMA RestForgets ==
  ASSUME IInv, FInv, Change \/ (\E i \in Isolates : Evict(i) \/ Restart(i)) \/ UNCHANGED vars
  PROVE  FInv'
<1>1. CASE UNCHANGED vars
  BY <1>1
  DEF vars, levels, request, FInv, RequestsForget, RequestForgets, MemoriesForget, MemoryForgets,
      RedisForgets, PendingForgets, DeletionIsFelt, Felt
<1>2. CASE Change
  BY <1>2, SilentStep DEF Change, levels, request, FInv, RequestsForget, MemoriesForget, SameRequest
<1>3. ASSUME NEW i \in Isolates, Evict(i) \/ Restart(i)
      PROVE  FInv'
  <2>1. /\ answers' = {} /\ UNCHANGED <<now, purge, redis, pending>>
        /\ memory' = [memory EXCEPT ![i] = {}]
    BY <1>3 DEF Evict, Restart
  <2>2. \A j \in Isolates : memory'[j] \subseteq memory[j]
    BY <2>1 DEF IInv, LevelsTyped
  <2>3. \A r \in Requests : SameRequest(r) \/ value'[r] = {}
    <3>1. CASE Evict(i)
      BY <3>1 DEF Evict, request, SameRequest
    <3>2. CASE Restart(i)
      BY <3>2 DEF Restart, SameRequest
    <3> QED
      BY <1>3, <3>1, <3>2
  <2> QED
    BY <2>1, <2>2, <2>3, SilentStep DEF FInv, RequestsForget, MemoriesForget
<1> QED
  BY <1>1, <1>2, <1>3

\* Time passes.
LEMMA TickForgets ==
  ASSUME IInv, FInv, Tick
  PROVE  FInv'
<1>1. /\ now' = now + 1 /\ answers' = {}
      /\ memory' = [i \in Isolates |-> Live(memory[i], now + 1)]
      /\ redis' = Live(redis, now + 1)
      /\ UNCHANGED <<purge, pending, pc, at, started, value>>
  BY DEF Tick, request
<1>2. now \in Nat /\ MemoryTtl \in Nat
  BY MemoryTtls DEF IInv, ClockFits
<1>3. \A S, t : Live(S, t) \subseteq S
  BY DEF Live
<1>4. RequestsForget'
  BY <1>1 DEF FInv, RequestsForget, RequestForgets, Felt
<1>5. ASSUME NEW i \in Isolates
      PROVE  MemoryForgets(i)'
  <2>1. memory'[i] \subseteq memory[i] /\ MemoryForgets(i)
    BY <1>1, <1>3 DEF FInv, MemoriesForget
  <2>2. \A e \in memory[i] : e.expires \in Nat
    BY DEF IInv, LevelsTyped, Entries
  <2>3. \A e \in memory'[i] : e.expires <= now' + MemoryTtl
    BY <1>1, <1>2, <2>1, <2>2 DEF MemoryForgets
  <2> QED
    BY <1>1, <2>1, <2>3 DEF MemoryForgets, Felt
<1>6. RedisForgets'
  BY <1>1, <1>3 DEF FInv, RedisForgets
<1>7. PendingForgets' /\ DeletionIsFelt'
  BY <1>1 DEF FInv, PendingForgets, DeletionIsFelt
<1> QED
  BY <1>4, <1>5, <1>6, <1>7 DEF FInv, MemoriesForget

\* A deletion by key or by pattern (deleteValue, invalidatePattern), whose DEL is not lost
\* and that finds nothing older on its way, is felt everywhere after the TTL of a memory
\* level and three latencies, however long the TTL of Redis is.
THEOREM DeletionsAreFelt == Spec => []DeletionIsFelt
<1>1. Init => FInv
  BY DEF Init, FInv, RequestsForget, RequestForgets, MemoriesForget, MemoryForgets, RedisForgets,
         PendingForgets, DeletionIsFelt
<1>2. IInv /\ FInv /\ [Next]_vars => FInv'
  <2> SUFFICES ASSUME IInv, FInv, [Next]_vars
               PROVE  FInv'
    OBVIOUS
  <2>1. CASE \E r \in Requests, i \in Isolates : GetFromMemory(r, i) \/ Get(r, i) \/ Refresh(r, i)
    BY <2>1, CallForgets
  <2>2. CASE \E r \in Requests : \/ RedisGet(r) \/ WarmUp(r) \/ Compute(r) \/ ComputeUncached(r)
                                \/ Store(r) \/ Answer(r)
    BY <2>2, RedisGetForgets, WarmUpForgets, ComputedForgets, StoreForgets, AnswerForgets
  <2>3. CASE InvalidatePattern \/ \E i \in Isolates : DeleteValue(i)
    BY <2>3, DeletionForgets
  <2>4. CASE \E op \in pending : ExecuteSet(op) \/ ExecuteDel(op) \/ LoseCommand(op)
    BY <2>4, CommandForgets
  <2>5. CASE Change \/ (\E i \in Isolates : Evict(i) \/ Restart(i)) \/ UNCHANGED vars
    BY <2>5, RestForgets
  <2>6. CASE Tick
    BY <2>6, TickForgets
  <2> QED
    BY <2>1, <2>2, <2>3, <2>4, <2>5, <2>6 DEF Next
<1>3. FInv => DeletionIsFelt
  BY DEF FInv
<1> QED
  BY <1>1, <1>2, <1>3, Invariance, PTL DEF Spec
=============================================================================
