------------------------- MODULE MetricsBufferProofs -------------------------
(***************************************************************************)
(* Proofs about MetricsBuffer, for any number of metrics and failures and  *)
(* any limits the reporter is configured with.                             *)
(***************************************************************************)
EXTENDS MetricsBuffer, SequenceTheorems, FiniteSetTheorems, TLAPS

\* Recorded at different times: as many numbers lie between two metrics as
\* positions, or more.
Spread(s) == \A k, l \in 1..Len(s) : k <= l => s[k] + (l - k) <= s[l]

Before(s, t) == \A k \in 1..Len(s), l \in 1..Len(t) : s[k] < t[l]

After(S, s) == \A m \in S, k \in 1..Len(s) : m < s[k]

\* Batches b in the buffer, `batches' in flight and those done are of the first n
\* metrics, and in the order of recording.
Sound(n, b, batches, done) ==
  /\ b \in Seq(1..n) /\ done \subseteq 1..n
  /\ Spread(b) /\ After(done, b)
  /\ \A x \in batches : /\ x \in Seq(1..n) /\ x # <<>>
                        /\ Spread(x) /\ Before(x, b) /\ After(done, x)
  /\ \A x, y \in batches : x = y

\* A metric is accounted for: reported, in the buffer, in flight, or dropped for as
\* many newer ones as a limit allows.
Kept(m, n, b, batches, done) ==
  \/ m \in done
  \/ m \in Range(b)
  \/ \E x \in batches : m \in Range(x)
  \/ \E max \in AllLimits : m + max <= n

AllKept(n, b, batches, done) == \A m \in 1..n : Kept(m, n, b, batches, done)

Typed ==
  /\ recorded \in Nat /\ failures \in Nat /\ limit \in AllLimits
  /\ reporter \in BOOLEAN /\ timer \in Timers /\ lost \subseteq 1..recorded
  /\ Len(buffer) <= limit

\* The inductive invariant.
IInv ==
  /\ Typed
  /\ Sound(recorded, buffer, flight, reported)
  /\ AllKept(recorded, buffer, flight, reported)
  /\ NothingStranded

-----------------------------------------------------------------------------
(* enforceBufferLimit and requeueBatch.                                    *)

\* Limits are positive.
LEMMA LimitsArePositive == AllLimits \subseteq Nat \ {0}
BY MetricsAssumption DEF AllLimits

\* What enforceBufferLimit leaves is the end of the buffer, within the limit.
LEMMA EnforcedIsSuffix ==
  ASSUME NEW S, NEW b \in Seq(S), NEW max \in Nat \ {0}
  PROVE  /\ Enforced(b, max) \in Seq(S)
         /\ Len(Enforced(b, max)) <= max
         /\ \E d \in Nat : /\ Len(Enforced(b, max)) = Len(b) - d
                           /\ d > 0 => Len(Enforced(b, max)) = max
                           /\ \A k \in 1..Len(Enforced(b, max)) : Enforced(b, max)[k] = b[k + d]
<1>1. Len(b) \in Nat
  OBVIOUS
<1>2. CASE Len(b) > max
  <2>1. Enforced(b, max) = SubSeq(b, Len(b) - max + 1, Len(b))
    BY <1>2 DEF Enforced
  <2>2. Len(b) - max \in Nat /\ Len(b) - max + 1 \in 1..Len(b)
    BY <1>1, <1>2
  <2>3. /\ Enforced(b, max) \in Seq(S)
        /\ Len(Enforced(b, max)) = max
        /\ \A k \in 1..max : Enforced(b, max)[k] = b[k + (Len(b) - max)]
    <3>1. \A i \in (Len(b) - max + 1)..Len(b) : b[i] \in S
      BY <1>1, <2>2, ElementOfSeq
    <3>2. Len(b) - (Len(b) - max + 1) + 1 = max /\ Len(b) - max + 1 <= Len(b)
      BY <1>1, <2>2
    <3>3. /\ Enforced(b, max) \in Seq(S)
          /\ Len(Enforced(b, max)) = max
          /\ \A k \in 1..max : Enforced(b, max)[k] = b[(Len(b) - max + 1) + k - 1]
      BY <1>1, <2>1, <2>2, <3>1, <3>2, SubSeqProperties
    <3>4. \A k \in 1..max : (Len(b) - max + 1) + k - 1 = k + (Len(b) - max)
      BY <1>1
    <3> QED
      BY <3>3, <3>4
  <2>4. Len(Enforced(b, max)) <= max /\ Len(Enforced(b, max)) = Len(b) - (Len(b) - max)
    BY <1>1, <2>3
  <2>5. \A k \in 1..Len(Enforced(b, max)) : Enforced(b, max)[k] = b[k + (Len(b) - max)]
    BY <2>3
  <2> QED
    BY <2>2, <2>3, <2>4, <2>5
<1>3. CASE ~(Len(b) > max)
  <2>1. Enforced(b, max) = SubSeq(b, 1, Len(b))
    BY <1>3 DEF Enforced
  <2>2. Enforced(b, max) \in Seq(S) /\ Len(Enforced(b, max)) = Len(b)
        /\ \A k \in 1..Len(b) : Enforced(b, max)[k] = b[k + 0]
    BY <1>1, <2>1, SubSeqFull
  <2> QED
    BY <1>1, <1>3, <2>2
<1> QED
  BY <1>2, <1>3

\* It keeps what is in order in order, and drops a metric only for a limit's worth of
\* newer ones.
LEMMA EnforcedKeeps ==
  ASSUME NEW n \in Nat, NEW b \in Seq(1..n), NEW max \in AllLimits, Spread(b)
  PROVE  /\ Enforced(b, max) \in Seq(1..n)
         /\ Len(Enforced(b, max)) <= max
         /\ Spread(Enforced(b, max))
         /\ \A S : After(S, b) => After(S, Enforced(b, max))
         /\ \A s : Before(s, b) => Before(s, Enforced(b, max))
         /\ \A m \in Range(b) : m \in Range(Enforced(b, max)) \/ m + max <= n
<1> DEFINE e == Enforced(b, max)
<1>1. max \in Nat \ {0}
  BY LimitsArePositive
<1>2. e \in Seq(1..n) /\ Len(e) <= max
  BY <1>1, EnforcedIsSuffix
<1>3. PICK d \in Nat : /\ Len(e) = Len(b) - d
                       /\ d > 0 => Len(e) = max
                       /\ \A k \in 1..Len(e) : e[k] = b[k + d]
  BY <1>1, EnforcedIsSuffix
<1>4. Len(e) \in Nat /\ Len(b) \in Nat /\ \A k \in 1..Len(b) : b[k] \in 1..n
  BY <1>2, ElementOfSeq, LenProperties
<1> HIDE DEF e
<1>5. \A k \in 1..Len(e) : k + d \in 1..Len(b)
  BY <1>3, <1>4
<1>6. Spread(e)
  <2> SUFFICES ASSUME NEW k \in 1..Len(e), NEW l \in 1..Len(e), k <= l
               PROVE  e[k] + (l - k) <= e[l]
    BY DEF Spread
  <2>0. k + d \in 1..Len(b) /\ l + d \in 1..Len(b) /\ k + d <= l + d
    BY <1>5
  <2>1. b[k + d] + ((l + d) - (k + d)) <= b[l + d]
    BY <2>0 DEF Spread
  <2>2. (l + d) - (k + d) = l - k
    BY <1>4
  <2> QED
    BY <1>3, <2>1, <2>2
<1>7. \A S : After(S, b) => After(S, e)
  BY <1>3, <1>5 DEF After
<1>8. \A s : Before(s, b) => Before(s, e)
  BY <1>3, <1>5 DEF Before
<1>9. ASSUME NEW m \in Range(b)
      PROVE  m \in Range(e) \/ m + max <= n
  <2>1. PICK k \in 1..Len(b) : m = b[k]
    BY DEF Range
  <2>2. CASE k > d
    <3>1. k - d \in 1..Len(e) /\ (k - d) + d = k
      BY <1>3, <1>4, <2>2
    <3>2. e[k - d] = m
      BY <1>3, <2>1, <3>1
    <3>3. DOMAIN e = 1..Len(e)
      BY <1>2
    <3> QED
      BY <3>1, <3>2, <3>3 DEF Range
  <2>3. CASE k <= d
    <3>1. Len(e) = max /\ d + max = Len(b)
      BY <1>1, <1>3, <1>4, <2>3
    <3>2. Len(b) \in 1..Len(b) /\ k <= Len(b) /\ max <= Len(b) - k
      BY <1>1, <1>4, <2>3, <3>1
    <3>3. b[k] + (Len(b) - k) <= b[Len(b)]
      BY <3>2 DEF Spread
    <3>4. b[Len(b)] <= n /\ b[k] \in Nat
      BY <1>4, <3>2
    <3>5. \A x, y \in Nat : \A z \in Int : x + z <= y /\ y <= n /\ max <= z => x + max <= n
      BY <1>1
    <3>6. b[Len(b)] \in Nat /\ Len(b) - k \in Int
      BY <1>4, <3>2
    <3> QED
      BY <2>1, <3>2, <3>3, <3>4, <3>5, <3>6
  <2> QED
    BY <1>4, <2>2, <2>3
<1> QED
  BY <1>2, <1>6, <1>7, <1>8, <1>9 DEF e

\* A batch put back in front of what was recorded after it.
LEMMA RequeuedKeeps ==
  ASSUME NEW n \in Nat, NEW s \in Seq(1..n), NEW b \in Seq(1..n),
         Spread(s), Spread(b), Before(s, b)
  PROVE  /\ Requeued(s, b) \in Seq(1..n)
         /\ Spread(Requeued(s, b))
         /\ \A S : After(S, s) /\ After(S, b) => After(S, Requeued(s, b))
         /\ Range(Requeued(s, b)) = Range(s) \cup Range(b)
<1> DEFINE r == Requeued(s, b)
<1>1. r = s \o b
  BY DEF Requeued
<1>2. /\ r \in Seq(1..n) /\ Len(r) = Len(s) + Len(b)
      /\ Len(s) \in Nat /\ Len(b) \in Nat
      /\ \A k \in 1..Len(s) : k \in 1..Len(r) /\ r[k] = s[k]
      /\ \A k \in 1..Len(b) : k + Len(s) \in 1..Len(r) /\ r[k + Len(s)] = b[k]
  <2>1. /\ r \in Seq(1..n) /\ Len(r) = Len(s) + Len(b)
        /\ Len(s) \in Nat /\ Len(b) \in Nat
        /\ \A k \in 1..(Len(s) + Len(b)) : r[k] = IF k <= Len(s) THEN s[k] ELSE b[k - Len(s)]
    BY <1>1, ConcatProperties, LenProperties
  <2> HIDE DEF r
  <2>2. ASSUME NEW k \in 1..Len(s)
        PROVE  k \in 1..Len(r) /\ r[k] = s[k]
    BY <2>1
  <2>3. ASSUME NEW k \in 1..Len(b)
        PROVE  k + Len(s) \in 1..Len(r) /\ r[k + Len(s)] = b[k]
    <3>1. k + Len(s) \in 1..Len(r) /\ ~(k + Len(s) <= Len(s)) /\ (k + Len(s)) - Len(s) = k
      BY <2>1
    <3> QED
      BY <2>1, <3>1
  <2> QED
    BY <2>1, <2>2, <2>3
<1>3. /\ \A k \in 1..Len(s) : s[k] \in 1..n
      /\ \A k \in 1..Len(b) : b[k] \in 1..n
  BY ElementOfSeq
<1>4. DOMAIN r = 1..Len(r) /\ DOMAIN s = 1..Len(s) /\ DOMAIN b = 1..Len(b)
  BY <1>2, LenProperties
<1>0. ASSUME NEW k \in 1..Len(r)
      PROVE  k \in 1..Len(s) \/ \E j \in 1..Len(b) : k = j + Len(s)
  <2>1. CASE k <= Len(s)
    BY <1>2, <2>1
  <2>2. CASE k > Len(s)
    <3>1. k - Len(s) \in 1..Len(b) /\ k = (k - Len(s)) + Len(s)
      BY <1>2, <2>2
    <3> QED
      BY <3>1
  <2> QED
    BY <1>2, <2>1, <2>2
<1> HIDE DEF r
<1>5. ASSUME NEW k \in 1..Len(r), NEW l \in 1..Len(r), k <= l
      PROVE  r[k] + (l - k) <= r[l]
  <2>1. CASE l \in 1..Len(s)
    <3>1. k \in 1..Len(s)
      BY <1>2, <1>5, <2>1
    <3> QED
      BY <1>2, <1>5, <2>1, <3>1 DEF Spread
  <2>2. ASSUME NEW i \in 1..Len(b), k = i + Len(s), NEW j \in 1..Len(b), l = j + Len(s)
        PROVE  r[k] + (l - k) <= r[l]
    <3>1. i <= j /\ l - k = j - i
      BY <1>2, <1>5, <2>2
    <3>2. b[i] + (j - i) <= b[j]
      BY <3>1 DEF Spread
    <3> QED
      BY <1>2, <2>2, <3>1, <3>2
  <2>3. ASSUME k \in 1..Len(s), NEW j \in 1..Len(b), l = j + Len(s)
        PROVE  r[k] + (l - k) <= r[l]
    <3>1. /\ Len(s) \in 1..Len(s) /\ k <= Len(s) /\ 1 \in 1..Len(b) /\ 1 <= j
          /\ k \in Int /\ j \in Int /\ Len(s) \in Int
      <4>1. Len(s) \in Nat /\ Len(b) \in Nat /\ j \in 1..Len(b)
        BY <1>2
      <4>2. k \in 1..Len(s)
        BY <2>3
      <4> QED
        BY <4>1, <4>2
    <3>2. s[k] + (Len(s) - k) <= s[Len(s)]
      BY <2>3, <3>1 DEF Spread
    <3>3. s[Len(s)] < b[1]
      BY <3>1 DEF Before
    <3>4. b[1] + (j - 1) <= b[j]
      BY <2>3, <3>1 DEF Spread
    <3>5. s[k] \in Int /\ s[Len(s)] \in Int /\ b[1] \in Int /\ b[j] \in Int
      <4>1. \A x \in 1..n : x \in Int
        OBVIOUS
      <4>2. s[k] \in 1..n /\ s[Len(s)] \in 1..n
        BY <1>3, <2>3, <3>1
      <4>3. b[1] \in 1..n /\ b[j] \in 1..n
        BY <1>3, <2>3, <3>1
      <4> QED
        BY <4>1, <4>2, <4>3
    <3>6. r[k] = s[k] /\ r[l] = b[j]
      BY <1>2, <2>3
    <3>7. s[k] + (j + Len(s) - k) <= b[j]
      <4> DEFINE x == s[k]
                 y == s[Len(s)]
                 z == b[1]
                 w == b[j]
                 n1 == Len(s)
      <4>1. x + (n1 - k) <= y /\ y < z /\ z + (j - 1) <= w
        BY <3>2, <3>3, <3>4
      <4>2. x \in Int /\ y \in Int /\ z \in Int /\ w \in Int /\ k \in Int /\ j \in Int /\ n1 \in Int
        BY <3>1, <3>5
      <4> HIDE DEF x, y, z, w, n1
      <4>3. x + (j + n1 - k) <= w
        BY <4>1, <4>2
      <4> QED
        BY <4>3 DEF x, w, n1
    <3> QED
      BY <2>3, <3>6, <3>7
  <2> QED
    BY <1>0, <1>2, <1>5, <2>1, <2>2, <2>3
<1>6. \A S : After(S, s) /\ After(S, b) => After(S, r)
  <2> SUFFICES ASSUME NEW S, After(S, s), After(S, b), NEW m \in S, NEW k \in 1..Len(r)
               PROVE  m < r[k]
    BY DEF After
  <2>1. CASE k \in 1..Len(s)
    BY <1>2, <2>1 DEF After
  <2>2. ASSUME NEW j \in 1..Len(b), k = j + Len(s)
        PROVE  m < r[k]
    BY <1>2, <2>2 DEF After
  <2> QED
    BY <1>0, <2>1, <2>2
<1>7. Range(r) = Range(s) \cup Range(b)
  BY <1>1, RangeConcatenation
<1> QED
  BY <1>2, <1>5, <1>6, <1>7 DEF r, Spread

\* A new metric at the end of the buffer.
LEMMA AppendKeeps ==
  ASSUME NEW n \in Nat, NEW b \in Seq(1..n), Spread(b)
  PROVE  /\ Append(b, n + 1) \in Seq(1..(n + 1))
         /\ Spread(Append(b, n + 1))
         /\ \A S : S \subseteq 1..n /\ After(S, b) => After(S, Append(b, n + 1))
         /\ \A s \in Seq(1..n) : Before(s, b) => Before(s, Append(b, n + 1))
         /\ Range(Append(b, n + 1)) = Range(b) \cup {n + 1}
         /\ Append(b, n + 1) # <<>>
<1> DEFINE a == Append(b, n + 1)
<1>1. /\ Len(b) \in Nat /\ Len(a) = Len(b) + 1
      /\ \A k \in 1..Len(b) : a[k] = b[k] /\ b[k] \in 1..n
      /\ a[Len(a)] = n + 1
      /\ DOMAIN a = 1..Len(a) /\ DOMAIN b = 1..Len(b)
      /\ a \in Seq(1..(n + 1)) /\ a # <<>>
  <2>1. 1..n \subseteq 1..(n + 1) /\ n + 1 \in 1..(n + 1)
    OBVIOUS
  <2>2. b \in Seq(1..(n + 1))
    BY <2>1, SeqMonotonic
  <2>3. /\ a \in Seq(1..(n + 1)) /\ a # <<>> /\ Len(a) = Len(b) + 1
        /\ \A k \in 1..Len(b) : a[k] = b[k]
        /\ a[Len(b) + 1] = n + 1
    BY <2>1, <2>2, AppendProperties
  <2>4. Len(b) \in Nat /\ \A k \in 1..Len(b) : b[k] \in 1..n
    BY ElementOfSeq, LenProperties
  <2>5. DOMAIN a = 1..Len(a) /\ DOMAIN b = 1..Len(b)
    BY <2>3, LenProperties
  <2> QED
    BY <2>3, <2>4, <2>5
<1> HIDE DEF a
<1>3. Spread(a)
  <2> SUFFICES ASSUME NEW k \in 1..Len(a), NEW l \in 1..Len(a), k <= l
               PROVE  a[k] + (l - k) <= a[l]
    BY DEF Spread
  <2>1. CASE l <= Len(b)
    <3>1. k \in 1..Len(b) /\ l \in 1..Len(b)
      BY <1>1, <2>1
    <3>2. b[k] + (l - k) <= b[l]
      BY <3>1 DEF Spread
    <3> QED
      BY <1>1, <3>1, <3>2
  <2>2. CASE l = Len(a) /\ k <= Len(b)
    <3>1. Len(b) \in 1..Len(b) /\ k \in 1..Len(b)
      BY <1>1, <2>2
    <3>2. b[k] + (Len(b) - k) <= b[Len(b)] /\ b[Len(b)] <= n /\ b[Len(b)] \in Int /\ b[k] \in Int
      BY <1>1, <2>2, <3>1 DEF Spread
    <3> QED
      BY <1>1, <2>2, <3>1, <3>2
  <2>3. CASE k = Len(a) /\ l = Len(a)
    BY <1>1, <2>3
  <2> QED
    BY <1>1, <2>1, <2>2, <2>3
<1>4. \A S : S \subseteq 1..n /\ After(S, b) => After(S, a)
  <2> SUFFICES ASSUME NEW S, S \subseteq 1..n, After(S, b), NEW m \in S, NEW k \in 1..Len(a)
               PROVE  m < a[k]
    BY DEF After
  <2>1. k \in 1..Len(b) \/ k = Len(a)
    BY <1>1
  <2>2. m \in 1..n
    OBVIOUS
  <2> QED
    BY <1>1, <2>1, <2>2 DEF After
<1>5. ASSUME NEW s \in Seq(1..n), Before(s, b)
      PROVE  Before(s, a)
  <2> SUFFICES ASSUME NEW k \in 1..Len(s), NEW l \in 1..Len(a)
               PROVE  s[k] < a[l]
    BY DEF Before
  <2>1. l \in 1..Len(b) \/ l = Len(a)
    BY <1>1
  <2>2. s[k] \in 1..n
    BY ElementOfSeq
  <2> QED
    BY <1>1, <1>5, <2>1, <2>2 DEF Before
<1>6. Range(a) = Range(b) \cup {n + 1}
  <2>1. 1..Len(a) = 1..Len(b) \cup {Len(a)}
    BY <1>1
  <2> QED
    BY <1>1, <2>1 DEF Range
<1> QED
  BY <1>1, <1>3, <1>4, <1>5, <1>6 DEF a

-----------------------------------------------------------------------------
(* Buffers, batches and reports together.                                  *)

\* Nothing is in order.
LEMMA NothingIsSound ==
  ASSUME NEW n \in Nat
  PROVE  /\ <<>> \in Seq(1..n) /\ Len(<<>>) = 0 /\ Spread(<<>>) /\ Range(<<>>) = {}
         /\ \A S : After(S, <<>>)
         /\ \A s : Before(s, <<>>)
<1>1. <<>> \in Seq(1..n) /\ Len(<<>>) = 0
  BY EmptySeq
<1>2. Range(<<>>) = {}
  <2>1. Range(<<>>) = {<<>>[i] : i \in 1..Len(<<>>)}
    BY <1>1, RangeEquality
  <2>2. 1..Len(<<>>) = {}
    BY <1>1
  <2> QED
    BY <2>1, <2>2
<1> QED
  BY <1>1, <1>2 DEF Spread, After, Before

\* The limit keeps a sound buffer sound and every metric accounted for.
LEMMA EnforcedSound ==
  ASSUME NEW n \in Nat, NEW b, NEW batches, NEW done, NEW max \in AllLimits,
         Sound(n, b, batches, done), AllKept(n, b, batches, done)
  PROVE  /\ Sound(n, Enforced(b, max), batches, done)
         /\ AllKept(n, Enforced(b, max), batches, done)
         /\ Len(Enforced(b, max)) <= max
<1> DEFINE e == Enforced(b, max)
<1>1. b \in Seq(1..n) /\ Spread(b)
  BY DEF Sound
<1>2. /\ e \in Seq(1..n) /\ Len(e) <= max /\ Spread(e)
      /\ \A S : After(S, b) => After(S, e)
      /\ \A s : Before(s, b) => Before(s, e)
      /\ \A m \in Range(b) : m \in Range(e) \/ m + max <= n
  BY <1>1, EnforcedKeeps
<1> HIDE DEF e
<1>3. Sound(n, e, batches, done)
  BY <1>2 DEF Sound
<1>4. AllKept(n, e, batches, done)
  BY <1>2 DEF AllKept, Kept
<1> QED
  BY <1>2, <1>3, <1>4 DEF e

\* A flush takes the buffer as a batch, or waits for the one in flight.
LEMMA FlushSound ==
  ASSUME NEW n \in Nat, NEW b, NEW t \in Timers, NEW done,
         Sound(n, b, flight, done), AllKept(n, b, flight, done), Flush(b, t)
  PROVE  /\ Sound(n, buffer', flight', done)
         /\ AllKept(n, buffer', flight', done)
         /\ buffer' = b \/ buffer' = <<>>
         /\ buffer' # <<>> => flight' # {}
         /\ timer' \in Timers
<1>0. "unset" \in Timers
  BY DEF Timers
<1>1. CASE flight # {}
  BY <1>1 DEF Flush, Busy
<1>2. CASE flight = {} /\ b = <<>>
  <2>1. buffer' = b /\ flight' = flight /\ timer' = "unset"
    BY <1>2 DEF Flush, Busy
  <2> QED
    BY <1>0, <1>2, <2>1
<1>3. CASE flight = {} /\ b # <<>>
  <2>1. buffer' = <<>> /\ flight' = {b} /\ timer' = "unset"
    BY <1>3 DEF Flush, Busy
  <2>2. Sound(n, buffer', flight', done)
    BY <1>3, <2>1, NothingIsSound DEF Sound
  <2>3. AllKept(n, buffer', flight', done)
    BY <1>3, <2>1 DEF AllKept, Kept
  <2> QED
    BY <1>0, <2>1, <2>2, <2>3
<1> QED
  BY <1>1, <1>2, <1>3

-----------------------------------------------------------------------------
(* The steps.                                                              *)

\* An isolate starts with nothing recorded.
LEMMA InitSound == Init => IInv
<1> SUFFICES ASSUME Init
             PROVE  IInv
  OBVIOUS
<1>1. DefaultLimit \in AllLimits /\ 0 <= DefaultLimit
  BY MetricsAssumption DEF AllLimits
<1>2. 1..0 = {}
  OBVIOUS
<1>3. Sound(recorded, buffer, flight, reported)
  <2>1. recorded = 0 /\ buffer = <<>> /\ flight = {} /\ reported = {}
    BY DEF Init
  <2>2. /\ <<>> \in Seq(1..0) /\ Spread(<<>>)
        /\ \A S : After(S, <<>>)
    BY NothingIsSound
  <2>3. Sound(0, <<>>, {}, {})
    BY <2>2 DEF Sound
  <2> QED
    BY <2>1, <2>3
<1>4. AllKept(recorded, buffer, flight, reported)
  BY <1>2 DEF Init, AllKept
<1>5. Typed
  BY <1>1, NothingIsSound DEF Init, Typed, Timers
<1> QED
  BY <1>3, <1>4, <1>5 DEF Init, IInv, NothingStranded

\* A metric is recorded.
LEMMA RecordSound == IInv /\ Record => IInv'
<1> SUFFICES ASSUME IInv, Record
             PROVE  IInv'
  OBVIOUS
<1> DEFINE n == recorded
           a == Append(buffer, n + 1)
           b == Enforced(a, limit)
<1>1. n \in Nat /\ limit \in AllLimits /\ timer \in Timers /\ reporter \in BOOLEAN
  BY DEF IInv, Typed
<1>2. n + 1 \in Nat /\ 1..n \subseteq 1..(n + 1) /\ 1..(n + 1) = 1..n \cup {n + 1}
  BY <1>1
<1>3. Sound(n, buffer, flight, reported) /\ AllKept(n, buffer, flight, reported)
  BY DEF IInv
<1>4. /\ a \in Seq(1..(n + 1)) /\ Spread(a)
      /\ \A S : S \subseteq 1..n /\ After(S, buffer) => After(S, a)
      /\ \A s \in Seq(1..n) : Before(s, buffer) => Before(s, a)
      /\ Range(a) = Range(buffer) \cup {n + 1}
  BY <1>1, <1>3, AppendKeeps DEF Sound
<1>5. recorded' = n + 1 /\ limit' = limit /\ reporter' = reporter /\ reported' = reported
      /\ lost' = lost /\ failures' = failures
  BY DEF Record
<1>6. IF Len(b) >= limit THEN Flush(b, timer)
      ELSE buffer' = b /\ timer' = Scheduled(timer, b, reporter) /\ flight' = flight
  BY DEF Record
<1>13. lost' \subseteq 1..recorded'
  BY <1>2, <1>5 DEF IInv, Typed
<1> HIDE DEF n, a
<1>7. \A x \in flight : x \in Seq(1..n) /\ x \in Seq(1..(n + 1))
  BY <1>2, <1>3, SeqMonotonic DEF Sound
<1>8. Sound(n + 1, a, flight, reported)
  BY <1>2, <1>3, <1>4, <1>7 DEF Sound
<1>9. AllKept(n + 1, a, flight, reported)
  <2> SUFFICES ASSUME NEW m \in 1..(n + 1)
               PROVE  Kept(m, n + 1, a, flight, reported)
    BY DEF AllKept
  <2>1. CASE m = n + 1
    BY <1>4, <2>1 DEF Kept
  <2>2. CASE m \in 1..n
    <3>1. Kept(m, n, buffer, flight, reported)
      BY <1>3, <2>2 DEF AllKept
    <3>2. \A max \in AllLimits : m + max <= n => m + max <= n + 1
      BY <1>1, LimitsArePositive
    <3> QED
      BY <1>4, <3>1, <3>2 DEF Kept
  <2> QED
    BY <1>2, <2>1, <2>2
<1>10. /\ Sound(n + 1, b, flight, reported) /\ AllKept(n + 1, b, flight, reported)
       /\ Len(b) <= limit
  BY <1>1, <1>2, <1>8, <1>9, EnforcedSound
<1> HIDE DEF b
<1>11. CASE Flush(b, timer)
  <2>1. /\ Sound(n + 1, buffer', flight', reported)
        /\ AllKept(n + 1, buffer', flight', reported)
        /\ buffer' = b \/ buffer' = <<>>
        /\ buffer' # <<>> => flight' # {}
        /\ timer' \in Timers
    BY <1>1, <1>2, <1>10, <1>11, FlushSound
  <2>2. Len(buffer') <= limit
    BY <1>1, <1>10, <2>1, LimitsArePositive, NothingIsSound
  <2>3. Typed'
    BY <1>1, <1>2, <1>5, <1>13, <2>1, <2>2 DEF IInv, Typed
  <2> QED
    BY <1>5, <2>1, <2>3 DEF IInv, NothingStranded
<1>12. CASE buffer' = b /\ timer' = Scheduled(timer, b, reporter) /\ flight' = flight
  <2>1. Typed'
    BY <1>1, <1>2, <1>5, <1>10, <1>12, <1>13 DEF IInv, Typed, Scheduled, Timers
  <2>2. NothingStranded'
    BY <1>1, <1>5, <1>12 DEF NothingStranded, Scheduled, Timers
  <2> QED
    BY <1>5, <1>10, <1>12, <2>1, <2>2 DEF IInv
<1> QED
  BY <1>6, <1>11, <1>12

\* The reporter is configured anew.
LEMMA ConfigureSound ==
  ASSUME IInv, NEW max \in AllLimits, Configure(max)
  PROVE  IInv'
<1> DEFINE b == Enforced(buffer, max)
<1>1. /\ recorded' = recorded /\ flight' = flight /\ reported' = reported /\ failures' = failures
      /\ lost' = lost /\ limit' = max /\ reporter' = TRUE /\ buffer' = b /\ timer' = Scheduled("unset", b, TRUE)
  BY DEF Configure
<1>2. /\ Sound(recorded, b, flight, reported) /\ AllKept(recorded, b, flight, reported)
      /\ Len(b) <= max
  BY EnforcedSound DEF IInv, Typed
<1> HIDE DEF b
<1>3. Typed' /\ NothingStranded'
  BY <1>1, <1>2 DEF IInv, Typed, NothingStranded, Scheduled, Timers
<1> QED
  BY <1>1, <1>2, <1>3 DEF IInv

\* A flush at the end of a request or from the timer.
LEMMA FlushStep ==
  ASSUME IInv, NEW t \in Timers, Flush(buffer, t),
         UNCHANGED <<recorded, limit, reporter, reported, lost, failures>>
  PROVE  IInv'
<1>1. /\ recorded' = recorded /\ limit' = limit /\ reporter' = reporter
      /\ reported' = reported /\ lost' = lost /\ failures' = failures
  OBVIOUS
<1>2. /\ Sound(recorded, buffer', flight', reported)
      /\ AllKept(recorded, buffer', flight', reported)
      /\ buffer' = buffer \/ buffer' = <<>>
      /\ buffer' # <<>> => flight' # {}
      /\ timer' \in Timers
  BY FlushSound DEF IInv, Typed
<1>3. Len(<<>>) = 0 /\ 0 <= limit
  BY NothingIsSound, LimitsArePositive DEF IInv, Typed
<1>4. Typed' /\ NothingStranded'
  BY <1>1, <1>2, <1>3 DEF IInv, Typed, NothingStranded
<1> QED
  BY <1>1, <1>2, <1>4 DEF IInv

\* A report resolves: the batch was ahead of the buffer.
LEMMA SucceedSound == IInv /\ Succeed => IInv'
<1> SUFFICES ASSUME IInv, Succeed
             PROVE  IInv'
  OBVIOUS
<1>1. PICK batch \in flight :
        /\ flight' = {}
        /\ timer' = AfterFlight(timer, buffer)
        /\ reported' = reported \cup Range(batch)
        /\ UNCHANGED <<recorded, buffer, limit, reporter, lost, failures>>
  BY DEF Succeed, Awaited
<1>2. /\ Sound(recorded, buffer, flight, reported)
      /\ AllKept(recorded, buffer, flight, reported)
      /\ batch \in Seq(1..recorded) /\ Before(batch, buffer)
      /\ flight = {batch}
  BY DEF IInv, Sound
<1>3. Range(batch) = {batch[k] : k \in 1..Len(batch)} /\ Range(batch) \subseteq 1..recorded
  BY <1>2, RangeEquality, RangeOfSeq
<1>4. After(reported', buffer)
  BY <1>1, <1>2, <1>3 DEF Sound, After, Before
<1>5. Sound(recorded, buffer, {}, reported')
  BY <1>1, <1>2, <1>3, <1>4 DEF Sound
<1>6. AllKept(recorded, buffer, {}, reported')
  BY <1>1, <1>2 DEF AllKept, Kept
<1>7. Typed' /\ NothingStranded'
  BY <1>1 DEF IInv, Typed, NothingStranded, AfterFlight, Scheduled, Timers
<1> QED
  BY <1>1, <1>5, <1>6, <1>7 DEF IInv

\* A report fails: the batch goes back in front of what was recorded meanwhile.
LEMMA FailSound == IInv /\ Fail => IInv'
<1> SUFFICES ASSUME IInv, Fail
             PROVE  IInv'
  OBVIOUS
<1>1. PICK batch \in flight :
        /\ flight' = {}
        /\ buffer' = Enforced(Requeued(batch, buffer), limit)
        /\ timer' = AfterFlight(timer, buffer')
  BY DEF Fail, Awaited
<1>2. /\ recorded' = recorded /\ limit' = limit /\ reporter' = reporter
      /\ reported' = reported /\ lost' = lost /\ failures' = failures + 1
  BY DEF Fail
<1> DEFINE r == Requeued(batch, buffer)
<1>3. /\ Sound(recorded, buffer, flight, reported)
      /\ AllKept(recorded, buffer, flight, reported)
      /\ batch \in Seq(1..recorded) /\ Spread(batch) /\ Before(batch, buffer) /\ After(reported, batch)
      /\ flight = {batch}
      /\ recorded \in Nat /\ limit \in AllLimits /\ failures \in Nat
  BY DEF IInv, Sound, Typed
<1>4. buffer \in Seq(1..recorded) /\ Spread(buffer) /\ After(reported, buffer) /\ reported \subseteq 1..recorded
  BY <1>3 DEF Sound
<1>5. /\ r \in Seq(1..recorded) /\ Spread(r)
      /\ \A S : After(S, batch) /\ After(S, buffer) => After(S, r)
      /\ Range(r) = Range(batch) \cup Range(buffer)
  BY <1>3, <1>4, RequeuedKeeps
<1> HIDE DEF r
<1>6. Sound(recorded, r, {}, reported)
  BY <1>3, <1>4, <1>5 DEF Sound
<1>7. AllKept(recorded, r, {}, reported)
  BY <1>3, <1>5 DEF AllKept, Kept
<1>8. /\ Sound(recorded, buffer', {}, reported) /\ AllKept(recorded, buffer', {}, reported)
      /\ Len(buffer') <= limit
  BY <1>1, <1>3, <1>6, <1>7, EnforcedSound DEF r
<1>9. Typed' /\ NothingStranded'
  BY <1>1, <1>2, <1>3, <1>8 DEF IInv, Typed, NothingStranded, AfterFlight, Scheduled, Timers
<1> QED
  BY <1>1, <1>2, <1>8, <1>9 DEF IInv

\* Every step keeps the invariant.
LEMMA IInvInductive == IInv /\ [Next]_vars => IInv'
<1> SUFFICES ASSUME IInv, [Next]_vars
             PROVE  IInv'
  OBVIOUS
<1>1. CASE Record
  BY <1>1, RecordSound
<1>2. CASE EndOfRequest
  <2>1. timer \in Timers
    BY DEF IInv, Typed
  <2> QED
    BY <1>2, <2>1, FlushStep DEF EndOfRequest
<1>3. CASE FireTimer
  BY <1>3, FlushStep DEF FireTimer, Timers
<1>4. CASE Succeed
  BY <1>4, SucceedSound
<1>5. CASE Fail
  BY <1>5, FailSound
<1>8. CASE CancelTimer
  <2>1. /\ recorded' = recorded /\ buffer' = buffer /\ limit' = limit /\ reporter' = reporter
        /\ timer' = "dead" /\ flight' = flight /\ reported' = reported /\ lost' = lost
        /\ failures' = failures
    BY <1>8 DEF CancelTimer
  <2> QED
    BY <2>1 DEF IInv, Typed, NothingStranded, Timers
<1>9. CASE Drop
  <2>1. PICK batch \in flight : lost' = lost \cup Range(batch)
    BY <1>9 DEF Drop, Awaited
  <2>2. /\ recorded' = recorded /\ buffer' = buffer /\ limit' = limit /\ reporter' = reporter
        /\ timer' = timer /\ flight' = flight /\ reported' = reported /\ failures' = failures
    BY <1>9 DEF Drop
  <2>3. batch \in Seq(1..recorded)
    BY <2>1 DEF IInv, Sound
  <2>4. Range(batch) \subseteq 1..recorded
    BY <2>3, RangeOfSeq
  <2> QED
    BY <2>1, <2>2, <2>4 DEF IInv, Typed, NothingStranded
<1>6. CASE \E max \in AllLimits : Configure(max)
  BY <1>6, ConfigureSound
<1>7. CASE UNCHANGED vars
  <2>1. /\ recorded' = recorded /\ buffer' = buffer /\ limit' = limit /\ reporter' = reporter
        /\ timer' = timer /\ flight' = flight /\ reported' = reported /\ lost' = lost
        /\ failures' = failures
    BY <1>7 DEF vars
  <2> QED
    BY <2>1 DEF IInv, Typed, NothingStranded
<1> QED
  BY <1>1, <1>2, <1>3, <1>4, <1>5, <1>6, <1>7, <1>8, <1>9 DEF Next, Answer

\* The invariant of every reachable state.
THEOREM Invariance == Spec => []IInv
<1>1. Init => IInv
  BY InitSound
<1>2. IInv /\ [Next]_vars => IInv'
  BY IInvInductive
<1> QED
  BY <1>1, <1>2, PTL DEF Spec

-----------------------------------------------------------------------------
(* What the runs check.                                                    *)

\* At most one batch is in flight, and the buffer is within its limit.
THEOREM TypeCorrect == Spec => []TypeOK
<1>1. IInv => TypeOK
  <2> SUFFICES ASSUME IInv
               PROVE  TypeOK
    OBVIOUS
  <2>1. flight = {} \/ \E x : flight = {x}
    <3>1. \A x, y \in flight : x = y
      BY DEF IInv, Sound
    <3>2. CASE flight # {}
      <4>1. PICK x \in flight : TRUE
        BY <3>2
      <4>2. flight = {x}
        BY <3>1, <4>1
      <4> QED
        BY <4>2
    <3> QED
      BY <3>2
  <2>2. Cardinality(flight) <= 1
    <3>1. CASE flight = {}
      BY <3>1, FS_EmptySet
    <3>2. CASE \E x : flight = {x}
      <4>1. PICK x : flight = {x}
        BY <3>2
      <4>2. Cardinality({x}) = 1
        BY FS_Singleton
      <4> QED
        BY <4>1, <4>2
    <3> QED
      BY <2>1, <3>1, <3>2
  <2>3. flight \subseteq Batches
    BY DEF IInv, Sound, Batches, Metrics
  <2> QED
    BY <2>2, <2>3 DEF IInv, Typed, Sound, TypeOK, Metrics
<1> QED
  BY <1>1, Invariance, PTL

\* What waits is the batch in flight and the buffer behind it.
LEMMA WaitingIsSound ==
  ASSUME IInv
  PROVE  /\ Waiting \in Seq(1..recorded)
         /\ Spread(Waiting) /\ After(reported, Waiting)
         /\ Range(Waiting) = Range(buffer) \cup UNION {Range(x) : x \in flight}
<1>1. Sound(recorded, buffer, flight, reported) /\ recorded \in Nat
  BY DEF IInv, Typed
<1>2. CASE flight = {}
  BY <1>1, <1>2 DEF Waiting, Sound
<1>3. CASE flight # {}
  <2>1. PICK x \in flight : x = CHOOSE y \in flight : TRUE
    BY <1>3
  <2>2. flight = {x} /\ Waiting = Requeued(x, buffer)
    BY <1>1, <1>3, <2>1 DEF Sound, Waiting, Requeued
  <2>3. /\ x \in Seq(1..recorded) /\ Spread(x) /\ Before(x, buffer) /\ After(reported, x)
        /\ buffer \in Seq(1..recorded) /\ Spread(buffer) /\ After(reported, buffer)
    BY <1>1 DEF Sound
  <2>4. /\ Waiting \in Seq(1..recorded) /\ Spread(Waiting) /\ After(reported, Waiting)
        /\ Range(Waiting) = Range(x) \cup Range(buffer)
    BY <1>1, <2>2, <2>3, RequeuedKeeps
  <2> QED
    BY <2>2, <2>4
<1> QED
  BY <1>2, <1>3

\* Metrics are reported in the order of recording, once.
THEOREM ReportedInOrder == Spec => []InOrder
<1>1. IInv => InOrder
  <2> SUFFICES ASSUME IInv
               PROVE  InOrder
    OBVIOUS
  <2> DEFINE w == Waiting
  <2>1. w \in Seq(1..recorded) /\ Spread(w) /\ After(reported, w)
    BY WaitingIsSound
  <2>2. DOMAIN w = 1..Len(w) /\ Len(w) \in Nat /\ \A k \in 1..Len(w) : w[k] \in 1..recorded
    BY <2>1, LenProperties, ElementOfSeq
  <2> HIDE DEF w
  <2>3. ASSUME NEW k \in 1..Len(w), NEW l \in 1..Len(w), k < l
        PROVE  w[k] < w[l]
    <3>1. w[k] + (l - k) <= w[l]
      BY <2>1, <2>3 DEF Spread
    <3>2. w[k] \in Int /\ w[l] \in Int /\ l - k > 0 /\ l - k \in Int
      BY <2>2, <2>3
    <3> QED
      BY <3>1, <3>2
  <2>4. Ascending(w)
    BY <2>2, <2>3 DEF Ascending
  <2>5. \A m \in reported, k \in DOMAIN w : m < w[k]
    BY <2>1, <2>2 DEF After
  <2> QED
    BY <2>4, <2>5 DEF InOrder, w
<1> QED
  BY <1>1, Invariance, PTL

\* With a reporter, metrics in the buffer have a timer set or a flush in flight.
THEOREM NeverStranded == Spec => []NothingStranded
<1>1. IInv => NothingStranded
  BY DEF IInv
<1> QED
  BY <1>1, Invariance, PTL

\* A metric that is neither reported nor waiting nor in a report whose request was
\* dropped is older than as many metrics as the smallest limit.
THEOREM NewestSurvive == Spec => []NewestAreKept
<1>1. IInv => NewestAreKept
  <2> SUFFICES ASSUME IInv, NEW m \in 1..recorded
               PROVE  m \in reported \cup Range(Waiting)
                      \/ \E max \in AllLimits : m + max <= recorded
    BY DEF NewestAreKept, Metrics
  <2>1. Kept(m, recorded, buffer, flight, reported)
    BY DEF IInv, AllKept
  <2>2. Range(Waiting) = Range(buffer) \cup UNION {Range(x) : x \in flight}
    BY WaitingIsSound
  <2> QED
    BY <2>1, <2>2 DEF Kept
<1> QED
  BY <1>1, Invariance, PTL
=============================================================================
