---------------------------- MODULE MultiLevelCache ----------------------------
(***************************************************************************)
(* One key of the multi-level cache: a copy in the memory of each isolate, *)
(* a copy in Redis, read-through, warm-up of the memory from Redis, and    *)
(* deletion by key and by Redis pattern                                    *)
(* (lib/cache/multi-level-cache.ts, lib/cache/admin-cache.ts).             *)
(*                                                                         *)
(* The KV level is disabled in every environment of config/.  What runs    *)
(* between two awaits of network calls is one action.  Keys share only the *)
(* room in a memory level: what the others push out is an eviction.  The   *)
(* value is abstracted to the number of changes of its source it reflects. *)
(* Levels, strategies and TTLs come from the configuration, which gives    *)
(* every TTL at least a second.  The platform ends a request, from its     *)
(* call to its answer, and the work it left behind with waitUntil, after   *)
(* MaxLatency.                                                             *)
(***************************************************************************)
EXTENDS Integers, Sequences, FiniteSets

CONSTANTS
  Isolates,
  Requests,      \* calls that can be in flight together
  SetMemoryTtl,  \* TTLs of a stored value: both are ttlSeconds if the caller gives one,
  SetRedisTtl,   \* else they are those of the levels
  WarmTtl,       \* TTL of the memory level, used for a value that came from Redis
  MaxLatency,    \* ticks a request, or a background operation, may take
  MaxWork,       \* bound: requests and background commands in flight together
  MaxTime,       \* bound: last clock tick
  MaxChanges     \* bound: changes of the source

ASSUME MultiLevelAssumption ==
  /\ "nowhere" \notin Isolates
  /\ {SetMemoryTtl, SetRedisTtl, WarmTtl} \subseteq Nat \ {0}
  /\ SetMemoryTtl \in {SetRedisTtl, WarmTtl}
  /\ {MaxLatency, MaxWork, MaxTime, MaxChanges} \subseteq Nat

VARIABLES
  now,
  changedAt, \* times of the changes of the source
  memory,    \* isolate -> its copy: {} or {entry}
  redis,     \* the shared copy: {} or {entry}
  pending,   \* Redis commands issued in the background and not executed yet
  pc,        \* per request: what it waits for
  at,        \* per request: its isolate
  started,   \* per request: when it was called
  value,     \* per request: the version it has got: {} or {version}
  purge,     \* history: the last deletion that counts: {} or {[version, at]}
  answers    \* history: the version answered by the last step, if it answered

request == <<pc, at, started, value>>
levels == <<memory, redis, pending>>
vars == <<now, changedAt, levels, request, purge, answers>>

Version == Len(changedAt)
Nowhere == "nowhere"

Entry(v, expires) == [version |-> v, expires |-> expires]

Init ==
  /\ now = 0 /\ changedAt = <<>>
  /\ memory = [i \in Isolates |-> {}] /\ redis = {} /\ pending = {}
  /\ pc = [r \in Requests |-> "idle"]
  /\ at = [r \in Requests |-> Nowhere]
  /\ started = [r \in Requests |-> 0]
  /\ value = [r \in Requests |-> {}]
  /\ purge = {}
  /\ answers = {}

-----------------------------------------------------------------------------
(* getValue, readThroughMultiLevelCache, withAdminCache.                   *)

\* Mutant: what is past its expiry is still found.
MutantLive(entries, t) == {e \in entries : e.expires >= t}

Live(entries, t) == {e \in entries : e.expires > t}

Goto(r, step) ==
  /\ pc' = [pc EXCEPT ![r] = step]
  /\ answers' = {}
  /\ UNCHANGED <<at, started>>

Busy == {r \in Requests : pc[r] # "idle"}
RoomForWork == Cardinality(Busy) + Cardinality(pending) < MaxWork

\* A call arrives; it holds `got` and waits for `first`.
Call(r, i, first, got) ==
  /\ pc[r] = "idle" /\ RoomForWork
  /\ pc' = [pc EXCEPT ![r] = first]
  /\ at' = [at EXCEPT ![r] = i]
  /\ started' = [started EXCEPT ![r] = now]
  /\ value' = [value EXCEPT ![r] = got]
  /\ answers' = {}
  /\ UNCHANGED <<now, changedAt, levels, purge>>

\* The memory level has it.
GetFromMemory(r, i) == \E e \in Live(memory[i], now) : Call(r, i, "answer", {e.version})

Get(r, i) == Live(memory[i], now) = {} /\ Call(r, i, "redis", {})

\* bypassCache of the performance route: compute and store without a lookup.
Refresh(r, i) == Call(r, i, "compute", {})

\* Redis executes the GET, or it fails, which counts as a miss.
RedisGet(r) ==
  /\ pc[r] = "redis"
  /\ \E found \in {{}, {e.version : e \in Live(redis, now)}} :
       value' = [value EXCEPT ![r] = found]
  /\ Goto(r, "reply")
  /\ UNCHANGED <<now, changedAt, levels, purge>>

\* Mutant: a miss is stored as it is.
MutantAfterMiss == "store"

AfterMiss == "compute"

\* The isolate has Redis' reply: a miss is computed, a hit warms the memory level.
WarmUp(r) ==
  /\ pc[r] = "reply"
  /\ \/ /\ value[r] = {}
        /\ Goto(r, AfterMiss)
        /\ UNCHANGED levels
     \/ \E v \in value[r] :
          /\ memory' = [memory EXCEPT ![at[r]] = {Entry(v, now + WarmTtl)}]
          /\ Goto(r, "answer")
          /\ UNCHANGED <<redis, pending>>
  /\ UNCHANGED <<now, changedAt, value, purge>>

\* The source is read, some time before compute() returns.
Compute(r) ==
  /\ pc[r] = "compute"
  /\ value' = [value EXCEPT ![r] = {Version}]
  /\ Goto(r, "store")
  /\ UNCHANGED <<now, changedAt, levels, purge>>

\* withAdminCache computes once more when anything was thrown; it stores nothing then.
ComputeUncached(r) ==
  /\ pc[r] = "compute"
  /\ value' = [value EXCEPT ![r] = {Version}]
  /\ Goto(r, "answer")
  /\ UNCHANGED <<now, changedAt, levels, purge>>

Command(kind, v) == [kind |-> kind, version |-> v, since |-> now]

\* setValue: the memory level at once, Redis in the background.
Store(r) ==
  /\ pc[r] = "store"
  /\ \E v \in value[r] :
       /\ memory' = [memory EXCEPT ![at[r]] = {Entry(v, now + SetMemoryTtl)}]
       /\ pending' = pending \cup {Command("set", v)}
  /\ Goto(r, "answer")
  /\ UNCHANGED <<now, changedAt, redis, value, purge>>

\* withAdminCache awaits the counter of hits or misses before it returns what it has;
\* its failure is only logged.
Answer(r) ==
  /\ pc[r] = "answer"
  /\ answers' = value[r]
  /\ pc' = [pc EXCEPT ![r] = "idle"]
  /\ at' = [at EXCEPT ![r] = Nowhere]
  /\ started' = [started EXCEPT ![r] = 0]
  /\ value' = [value EXCEPT ![r] = {}]
  /\ UNCHANGED <<now, changedAt, levels, purge>>

-----------------------------------------------------------------------------
(* deleteValue, invalidateStrategy, invalidatePattern.                     *)

\* The deletion follows a change, and nothing computed before the last change is yet to
\* be stored.
Counts ==
  /\ Version > 0
  /\ \A op \in pending : op.kind = "set" => op.version = Version
  /\ \A r \in Requests : pc[r] = "store" => value[r] = {Version}

\* A deletion: what it deletes in memory it does at once, what it deletes in Redis is on
\* its way.
Delete(memoryLeft, commands) ==
  /\ RoomForWork
  /\ memory' = memoryLeft
  /\ pending' = pending \cup commands
  /\ purge' = IF Counts THEN {[version |-> Version, at |-> now]} ELSE purge
  /\ answers' = {}
  /\ UNCHANGED <<now, changedAt, redis, request>>

\* Mutant: Redis is not told.
MutantDel == {}

Del == {Command("del", 0)}

\* By key: the memory level of this isolate, and Redis in the background.
\* invalidateStrategy does it for the keys of its isolate's index, which lists what that
\* stored but not what it only read; whether it lists this key is left open.
DeleteValue(i) == Delete([memory EXCEPT ![i] = {}], Del)

\* By pattern: what SCAN finds in Redis, and nothing else; the memory of the isolate that
\* asks keeps its copy.
InvalidatePattern == Delete(memory, IF redis = {} THEN {} ELSE Del)

-----------------------------------------------------------------------------
(* Redis, the source, the platform (external).                             *)

ExecuteSet(op) ==
  /\ op \in pending /\ op.kind = "set"
  /\ pending' = pending \ {op}
  /\ redis' = {Entry(op.version, now + SetRedisTtl)}
  /\ answers' = {}
  /\ UNCHANGED <<now, changedAt, memory, request, purge>>

ExecuteDel(op) ==
  /\ op \in pending /\ op.kind = "del"
  /\ pending' = pending \ {op}
  /\ redis' = {}
  /\ answers' = {}
  /\ UNCHANGED <<now, changedAt, memory, request, purge>>

\* The command fails, which is only logged, or its isolate dies first.  A deletion whose
\* DEL is lost is not one that counts.
LoseCommand(op) ==
  /\ op \in pending
  /\ pending' = pending \ {op}
  /\ purge' = IF op.kind = "del" THEN {} ELSE purge
  /\ answers' = {}
  /\ UNCHANGED <<now, changedAt, memory, redis, request>>

\* The memory level is full: this key is its oldest.
Evict(i) ==
  /\ memory[i] # {}
  /\ memory' = [memory EXCEPT ![i] = {}]
  /\ answers' = {}
  /\ UNCHANGED <<now, changedAt, redis, pending, request, purge>>

\* The isolate is replaced: its memory and its requests are gone.
Restart(i) ==
  /\ memory' = [memory EXCEPT ![i] = {}]
  /\ LET Dies(r) == at[r] = i
     IN  /\ pc' = [r \in Requests |-> IF Dies(r) THEN "idle" ELSE pc[r]]
         /\ at' = [r \in Requests |-> IF Dies(r) THEN Nowhere ELSE at[r]]
         /\ started' = [r \in Requests |-> IF Dies(r) THEN 0 ELSE started[r]]
         /\ value' = [r \in Requests |-> IF Dies(r) THEN {} ELSE value[r]]
  /\ answers' = {}
  /\ UNCHANGED <<now, changedAt, redis, pending, purge>>

Change ==
  /\ Version < MaxChanges
  /\ changedAt' = Append(changedAt, now)
  /\ answers' = {}
  /\ UNCHANGED <<now, levels, request, purge>>

\* What has expired is gone: Redis deletes it, the memory level does at its next use.
Tick ==
  /\ now < MaxTime
  /\ \A r \in Requests : pc[r] # "idle" => now < started[r] + MaxLatency
  /\ \A op \in pending : now < op.since + MaxLatency
  /\ now' = now + 1
  /\ memory' = [i \in Isolates |-> Live(memory[i], now + 1)]
  /\ redis' = Live(redis, now + 1)
  /\ answers' = {}
  /\ UNCHANGED <<changedAt, pending, request, purge>>

Next ==
  \/ Change \/ Tick
  \/ \E r \in Requests, i \in Isolates : GetFromMemory(r, i) \/ Get(r, i) \/ Refresh(r, i)
  \/ \E r \in Requests : \/ RedisGet(r) \/ WarmUp(r) \/ Compute(r) \/ ComputeUncached(r)
                         \/ Store(r) \/ Answer(r)
  \/ InvalidatePattern
  \/ \E i \in Isolates : DeleteValue(i) \/ Evict(i) \/ Restart(i)
  \/ \E op \in pending : ExecuteSet(op) \/ ExecuteDel(op) \/ LoseCommand(op)

Spec == Init /\ [][Next]_vars

-----------------------------------------------------------------------------
(* Properties.                                                             *)

Entries == [version: Nat, expires: Nat]
Commands == [kind: {"set", "del"}, version: Nat, since: Nat]

Steps == {"idle", "redis", "reply", "compute", "store", "answer"}

Single(S) == \A c, d \in S : c = d

\* Entries, commands and calls are what the code can hold: at most one copy per level,
\* none newer than the source, and a call stores and answers only what it has got.
TypeOK ==
  /\ now \in Nat /\ changedAt \in Seq(Nat)
  /\ memory \in [Isolates -> SUBSET Entries] /\ redis \subseteq Entries
  /\ pending \subseteq Commands
  /\ pc \in [Requests -> Steps] /\ at \in [Requests -> Isolates \cup {Nowhere}]
  /\ started \in [Requests -> Nat] /\ value \in [Requests -> SUBSET Nat]
  /\ purge \subseteq [version: Nat, at: Nat]
  /\ \A r \in Requests : pc[r] \in {"store", "answer"} => value[r] # {}
  /\ Single(redis) /\ Single(purge)
  /\ (\A i \in Isolates : Single(memory[i])) /\ (\A r \in Requests : Single(value[r]))
  /\ \A c \in redis \cup pending \cup purge : c.version <= Version
  /\ \A i \in Isolates : \A e \in memory[i] : e.version <= Version
  /\ \A r \in Requests : \A v \in value[r] : v <= Version

\* One answer goes through a computation, a background write, a GET, the TTLs of both
\* levels and the call that finds it in memory at most.
LongestWay == 4 * MaxLatency + SetRedisTtl + WarmTtl - 1

Contract == INSTANCE StalenessContract
  WITH Scopes <- {"key"}, Parts <- {"value"}, MaxStale <- LongestWay,
       changedAt <- [s \in {"key"} |-> changedAt],
       answers <- {[scope |-> "key", versions |-> [p \in {"value"} |-> v]] : v \in answers}

\* A value is never served longer than that after it was replaced, whichever levels
\* and isolates it went through: warm-ups do not renew each other.
BoundedStaleness == Contract!Spec

\* The longest a memory level keeps a copy.
MemoryTtl == IF SetMemoryTtl > WarmTtl THEN SetMemoryTtl ELSE WarmTtl

\* A deletion, by key or by pattern (deleteValue, invalidatePattern), that is not lost
\* and finds nothing older on its way to the levels is felt everywhere: what Redis could
\* have kept for its own TTL is answered no longer than a memory level keeps it, after
\* the GETs that overtook the DEL.
DeletionIsFelt ==
  \A v \in answers : \A p \in purge : v < p.version => now < p.at + 3 * MaxLatency + MemoryTtl
=============================================================================
