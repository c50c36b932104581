------------------------- MODULE CreditLedgerProofs -------------------------
(***************************************************************************)
(* Proofs about CreditLedger, for any number of concurrent requests, any   *)
(* costs, packages and clock, and any number of failures: types and what a *)
(* row can hold; for requests that do not overlap, uses, grants and the    *)
(* month; and, for all, the sums over rows and requests that relate the    *)
(* balance, the log and the records of usage.                              *)
(***************************************************************************)
EXTENDS CreditLedger, SequenceTheorems, FiniteSetTheorems, WellFoundedInduction, TLAPS

\* What GrantAccounted says of a row, given what was drawn from it; the log of
\* a charge moreover has no positive amount, so that no SELECT returns it, and a
\* grant that was processed was drawn from to the last credit.
RowFits(row, drawn) ==
  IF row.type = "USAGE"
    THEN row.remaining = row.amount /\ row.amount <= 0 /\ drawn = 0
    ELSE /\ row.remaining \in 0..row.amount /\ row.amount <= row.remaining + drawn
         /\ row.processed # Never => row.amount <= drawn

TableFits(rows, drawn) ==
  /\ rows \in Seq(Row) /\ drawn \in Seq(Nat) /\ Len(drawn) = Len(rows)
  /\ \A i \in 1..Len(rows) : RowFits(rows[i], drawn[i])

\* A snapshot, however old, is of grants, and shows no less of a grant than what
\* was not drawn from it by now.
SnapFits(snap, rows, drawn) ==
  \A i \in DOMAIN snap :
    /\ i \in 1..Len(rows) /\ rows[i].type # "USAGE"
    /\ snap[i] <= rows[i].amount /\ rows[i].amount <= snap[i] + drawn[i]

\* What a step may do to the table: rows stay, keep type and amount, and what
\* was drawn from them only grows.
Evolves(rows, drawn, rows2, drawn2) ==
  /\ Len(rows) <= Len(rows2)
  /\ \A i \in 1..Len(rows) :
       /\ rows2[i].type = rows[i].type /\ rows2[i].amount = rows[i].amount
       /\ drawn[i] <= drawn2[i]

JobsFit == \A w \in Workers : SnapFits(job[w].snap, transactions, taken)

\* The inductive invariant.
IInv == TypeOK /\ TableFits(transactions, taken) /\ JobsFit

-----------------------------------------------------------------------------
\* Math.min in the loop of consumeCredits.
LEMMA LesserIsLesser ==
  ASSUME NEW a \in Nat, NEW b \in Nat
  PROVE  Lesser(a, b) \in Nat /\ Lesser(a, b) <= a /\ Lesser(a, b) <= b
BY DEF Lesser

\* logCreditTransaction adds a row that fits.
LEMMA AppendFits ==
  ASSUME NEW rows, NEW drawn, TableFits(rows, drawn),
         NEW row \in Row, RowFits(row, 0)
  PROVE  /\ TableFits(Append(rows, row), Append(drawn, 0))
         /\ Evolves(rows, drawn, Append(rows, row), Append(drawn, 0))
<1>1. rows \in Seq(Row) /\ drawn \in Seq(Nat) /\ Len(drawn) = Len(rows)
  BY DEF TableFits
<1> DEFINE rows2 == Append(rows, row)
           drawn2 == Append(drawn, 0)
<1>2. /\ rows2 \in Seq(Row) /\ Len(rows2) = Len(rows) + 1
      /\ \A i \in 1..Len(rows) : rows2[i] = rows[i]
      /\ rows2[Len(rows) + 1] = row
  BY <1>1, AppendProperties
<1>3. /\ drawn2 \in Seq(Nat) /\ Len(drawn2) = Len(rows) + 1
      /\ \A i \in 1..Len(rows) : drawn2[i] = drawn[i]
      /\ drawn2[Len(rows) + 1] = 0
  BY <1>1, AppendProperties
<1>4. Len(rows) \in Nat /\ \A i \in 1..Len(rows) : drawn[i] \in Nat
  BY <1>1, LenProperties, ElementOfSeq
<1> HIDE DEF rows2, drawn2
<1>5. \A i \in 1..(Len(rows) + 1) : i \in 1..Len(rows) \/ i = Len(rows) + 1
  BY <1>4
<1>6. TableFits(rows2, drawn2)
  BY <1>1, <1>2, <1>3, <1>5 DEF TableFits
<1>7. Evolves(rows, drawn, rows2, drawn2)
  BY <1>2, <1>3, <1>4 DEF Evolves
<1> QED
  BY <1>6, <1>7 DEF rows2, drawn2

\* An UPDATE of one grant that keeps type and amount, leaves between nothing and
\* the amount, and does not lose more than it is recorded to draw, fits too.
LEMMA UpdateFits ==
  ASSUME NEW rows, NEW drawn, TableFits(rows, drawn),
         NEW i \in 1..Len(rows), rows[i].type # "USAGE",
         NEW row \in Row, row.type = rows[i].type, row.amount = rows[i].amount,
         row.remaining \in 0..row.amount,
         NEW more \in Nat, row.amount <= row.remaining + drawn[i] + more,
         row.processed # Never => row.amount <= drawn[i] + more
  PROVE  /\ TableFits([rows EXCEPT ![i] = row], [drawn EXCEPT ![i] = @ + more])
         /\ Evolves(rows, drawn, [rows EXCEPT ![i] = row], [drawn EXCEPT ![i] = @ + more])
<1>1. rows \in Seq(Row) /\ drawn \in Seq(Nat) /\ Len(drawn) = Len(rows)
  BY DEF TableFits
<1>2. \A k \in 1..Len(rows) : drawn[k] \in Nat /\ rows[k] \in Row
  BY <1>1, ElementOfSeq
<1> DEFINE rows2 == [rows EXCEPT ![i] = row]
           drawn2 == [drawn EXCEPT ![i] = @ + more]
<1>3. /\ rows2 \in Seq(Row) /\ Len(rows2) = Len(rows)
      /\ \A k \in 1..Len(rows) : rows2[k] = IF k = i THEN row ELSE rows[k]
  BY <1>1, ExceptSeq
<1>4. drawn[i] + more \in Nat
  BY <1>2
<1>5. /\ drawn2 \in Seq(Nat) /\ Len(drawn2) = Len(rows)
      /\ \A k \in 1..Len(rows) : drawn2[k] = IF k = i THEN drawn[i] + more ELSE drawn[k]
  BY <1>1, <1>4, ExceptSeq
<1> HIDE DEF rows2, drawn2
<1>6. RowFits(row, drawn[i] + more)
  BY <1>2 DEF RowFits, Row
<1>7. TableFits(rows2, drawn2)
  BY <1>1, <1>3, <1>5, <1>6 DEF TableFits
<1>8. Evolves(rows, drawn, rows2, drawn2)
  <2>1. Len(rows) \in Nat
    BY <1>1, LenProperties
  <2>2. ASSUME NEW k \in 1..Len(rows)
        PROVE  /\ rows2[k].type = rows[k].type /\ rows2[k].amount = rows[k].amount
               /\ drawn[k] <= drawn2[k]
    <3>1. CASE k = i
      BY <1>2, <1>3, <1>5, <3>1
    <3>2. CASE k # i
      BY <1>2, <1>3, <1>5, <3>2
    <3> QED
      BY <3>1, <3>2
  <2> QED
    BY <1>3, <2>1, <2>2 DEF Evolves
<1> QED
  BY <1>7, <1>8 DEF rows2, drawn2

\* A snapshot keeps fitting while the table evolves.
LEMMA SnapKeepsFitting ==
  ASSUME NEW rows, NEW drawn, NEW rows2, NEW drawn2, NEW snap, NEW snap2,
         TableFits(rows, drawn), TableFits(rows2, drawn2),
         Evolves(rows, drawn, rows2, drawn2), SnapFits(snap, rows, drawn),
         DOMAIN snap2 \subseteq DOMAIN snap,
         \A i \in DOMAIN snap2 : snap2[i] = snap[i] /\ snap[i] \in Nat
  PROVE  SnapFits(snap2, rows2, drawn2)
<1>1. Len(rows) \in Nat /\ Len(rows2) \in Nat /\ Len(rows) <= Len(rows2)
  BY LenProperties DEF TableFits, Evolves
<1>2. \A i \in 1..Len(rows) : drawn[i] \in Nat /\ drawn2[i] \in Nat /\ rows[i].amount \in Int
  <2>1. rows \in Seq(Row) /\ drawn \in Seq(Nat) /\ drawn2 \in Seq(Nat)
        /\ Len(drawn) = Len(rows) /\ Len(drawn2) = Len(rows2)
    BY DEF TableFits
  <2>2. \A i \in 1..Len(rows) : rows[i] \in Row /\ drawn[i] \in Nat
    BY <2>1, ElementOfSeq
  <2>3. \A i \in 1..Len(rows2) : drawn2[i] \in Nat
    BY <2>1, ElementOfSeq
  <2> QED
    BY <1>1, <2>2, <2>3 DEF Row
<1> SUFFICES ASSUME NEW i \in DOMAIN snap2
             PROVE  /\ i \in 1..Len(rows2) /\ rows2[i].type # "USAGE"
                    /\ snap2[i] <= rows2[i].amount
                    /\ rows2[i].amount <= snap2[i] + drawn2[i]
  BY DEF SnapFits
<1>3. /\ i \in 1..Len(rows) /\ rows[i].type # "USAGE"
      /\ snap[i] <= rows[i].amount /\ rows[i].amount <= snap[i] + drawn[i]
  BY DEF SnapFits
<1>4. /\ rows2[i].type = rows[i].type /\ rows2[i].amount = rows[i].amount
      /\ drawn[i] <= drawn2[i] /\ i \in 1..Len(rows2)
  BY <1>1, <1>3 DEF Evolves
<1>5. snap2[i] = snap[i] /\ snap[i] \in Nat
  OBVIOUS
<1>6. drawn[i] \in Nat /\ drawn2[i] \in Nat /\ rows[i].amount \in Int
  BY <1>2, <1>3
<1>7. \A a \in Int : \A s, d, e \in Nat : a <= s + d /\ d <= e => a <= s + e
  OBVIOUS
<1> QED
  BY <1>3, <1>4, <1>5, <1>6, <1>7

\* A SELECT of grants that hold something fits at the time it is made.
LEMMA SelectionFits ==
  ASSUME TableFits(transactions, taken),
         NEW S, S \subseteq Rows, \A i \in S : transactions[i].remaining > 0
  PROVE  /\ SnapFits(Snapshot(S), transactions, taken)
         /\ Snapshot(S) \in [S -> Nat \ {0}]
<1>1. Rows = 1..Len(transactions)
  BY LenProperties DEF TableFits, Rows
<1>2. \A i \in S : transactions[i] \in Row /\ taken[i] \in Nat /\ RowFits(transactions[i], taken[i])
  BY <1>1, ElementOfSeq DEF TableFits
<1>3. \A i \in S : /\ transactions[i].type # "USAGE"
                   /\ transactions[i].remaining \in Nat \ {0}
                   /\ transactions[i].remaining <= transactions[i].amount
                   /\ transactions[i].amount <= transactions[i].remaining + taken[i]
  BY <1>2 DEF RowFits, Row
<1> QED
  BY <1>1, <1>3 DEF SnapFits, Snapshot
-----------------------------------------------------------------------------
\* The jobs keep fitting when the table evolves and at most one worker's job
\* changes, to one that fits the new table.
LEMMA OneJobChanges ==
  ASSUME IInv, TableFits(transactions', taken'),
         Evolves(transactions, taken, transactions', taken'),
         NEW w \in Workers, NEW j, JobTyped(j), SnapFits(j.snap, transactions', taken'),
         job' = [job EXCEPT ![w] = j]
  PROVE  JobsAreTyped' /\ JobsFit'
<1>1. DOMAIN job = Workers /\ \A v \in Workers : JobTyped(job[v])
  BY DEF IInv, TypeOK, JobsAreTyped
<1>2. Rows' = 1..Len(transactions')
  BY LenProperties DEF TableFits, Rows
<1>3. DOMAIN job' = Workers /\ job'[w] = j /\ \A v \in Workers \ {w} : job'[v] = job[v]
  BY <1>1
<1>4. ASSUME NEW v \in Workers
      PROVE  JobTyped(job'[v]) /\ SnapFits(job'[v].snap, transactions', taken')
  <2>1. CASE v = w
    BY <1>3, <2>1
  <2>2. CASE v # w
    <3>1. SnapFits(job[v].snap, transactions, taken) /\ TableFits(transactions, taken)
      BY DEF IInv, JobsFit
    <3>2. \A i \in DOMAIN job[v].snap : job[v].snap[i] \in Nat
      BY <1>1 DEF JobTyped
    <3>3. SnapFits(job[v].snap, transactions', taken')
      BY <3>1, <3>2, SnapKeepsFitting
    <3> QED
      BY <1>1, <1>3, <2>2, <3>3
  <2> QED
    BY <2>1, <2>2
<1>5. \A v \in Workers : DOMAIN job'[v].snap \subseteq Rows'
  BY <1>2, <1>4 DEF SnapFits
<1> QED
  BY <1>3, <1>4, <1>5 DEF JobsAreTyped, JobTyped, JobsFit, SnapFits

\* A change of the table alone leaves every job's snapshot fitting.
LEMMA NoJobChanges ==
  ASSUME IInv, TableFits(transactions', taken'),
         Evolves(transactions, taken, transactions', taken'), job' = job
  PROVE  JobsAreTyped' /\ JobsFit'
<1>1. DOMAIN job = Workers /\ \A v \in Workers : JobTyped(job[v])
  BY DEF IInv, TypeOK, JobsAreTyped
<1>2. Rows' = 1..Len(transactions')
  BY LenProperties DEF TableFits, Rows
<1>3. ASSUME NEW v \in Workers
      PROVE  SnapFits(job[v].snap, transactions', taken')
  <2>1. SnapFits(job[v].snap, transactions, taken) /\ TableFits(transactions, taken)
    BY DEF IInv, JobsFit
  <2>2. \A i \in DOMAIN job[v].snap : job[v].snap[i] \in Nat
    BY <1>1 DEF JobTyped
  <2> QED
    BY <2>1, <2>2, SnapKeepsFitting
<1>4. \A v \in Workers : DOMAIN job[v].snap \subseteq Rows'
  BY <1>2, <1>3 DEF SnapFits
<1> QED
  BY <1>1, <1>3, <1>4 DEF JobsAreTyped, JobTyped, JobsFit, SnapFits

\* An untouched table evolves.
LEMMA TableStays ==
  ASSUME IInv, UNCHANGED <<transactions, taken>>
  PROVE  /\ TableFits(transactions', taken')
         /\ Evolves(transactions, taken, transactions', taken')
<1>1. TableFits(transactions, taken)
  BY DEF IInv
<1>2. Len(transactions) \in Nat /\ taken \in Seq(Nat) /\ Len(taken) = Len(transactions)
  BY <1>1, LenProperties DEF TableFits
<1>3. \A i \in 1..Len(transactions) : taken[i] \in Nat
  BY <1>2, ElementOfSeq
<1> QED
  BY <1>1, <1>2, <1>3 DEF Evolves

\* Idle requests hold nothing.
LEMMA IdleJobFits ==
  ASSUME NEW rows, NEW drawn
  PROVE  JobTyped(IdleJob) /\ SnapFits(IdleJob.snap, rows, drawn)
<1>1. IdleJob.snap = NoRows /\ DOMAIN NoRows = {} /\ NoRows \in [DOMAIN NoRows -> Nat \ {0}]
  BY DEF IdleJob, NewJob, NoRows
<1>2. JobTyped(IdleJob)
  BY <1>1 DEF IdleJob, NewJob, JobTyped
<1> QED
  BY <1>1, <1>2 DEF SnapFits

\* A new row of the log.
LEMMA LogFits ==
  ASSUME IInv, NEW type \in Kinds, NEW amount \in Int, NEW expires \in Nat \cup {Never},
         type = "USAGE" => amount <= 0, type # "USAGE" => amount >= 0,
         Log(type, amount, expires)
  PROVE  /\ TableFits(transactions', taken')
         /\ Evolves(transactions, taken, transactions', taken')
<1> DEFINE row == [type |-> type, amount |-> amount, remaining |-> amount,
                   expires |-> expires, processed |-> Never]
<1>1. row \in Row
  BY DEF Row
<1>2. RowFits(row, 0)
  BY DEF RowFits
<1>3. transactions' = Append(transactions, row) /\ taken' = Append(taken, 0)
  BY DEF Log
<1> HIDE DEF row
<1> QED
  BY <1>1, <1>2, <1>3, AppendFits DEF IInv
-----------------------------------------------------------------------------
\* Changes of a job that keep its type.
LEMMA JobWithSnap ==
  ASSUME NEW j, JobTyped(j), NEW s, s \in [DOMAIN s -> Nat \ {0}]
  PROVE  JobTyped([j EXCEPT !.snap = s]) /\ [j EXCEPT !.snap = s].snap = s
BY DEF JobTyped

\* A round of the loop of consumeCredits keeps the job typed.
LEMMA JobWithLeft ==
  ASSUME NEW j, JobTyped(j), NEW s, s \in [DOMAIN s -> Nat \ {0}],
         NEW l \in Nat, l <= j.cost
  PROVE  /\ JobTyped([j EXCEPT !.left = l, !.snap = s])
         /\ [j EXCEPT !.left = l, !.snap = s].snap = s
BY DEF JobTyped

\* Taking up an expired row keeps the job typed.
LEMMA JobWithDebit ==
  ASSUME NEW j, JobTyped(j), NEW s, s \in [DOMAIN s -> Nat \ {0}], NEW d \in Nat
  PROVE  /\ JobTyped([j EXCEPT !.debit = d, !.snap = s])
         /\ [j EXCEPT !.debit = d, !.snap = s].snap = s
BY DEF JobTyped

\* Debiting it does too, and leaves the snapshot alone.
LEMMA JobDebited ==
  ASSUME NEW j, JobTyped(j)
  PROVE  JobTyped([j EXCEPT !.debit = 0]) /\ [j EXCEPT !.debit = 0].snap = j.snap
BY DEF JobTyped

\* The jobs requests begin with.
LEMMA NewJobs ==
  ASSUME NEW cost \in Nat, NEW at \in Nat, NEW read \in Int, NEW left \in Nat, left <= cost
  PROVE  JobTyped(NewJob(cost, at, read, left)) /\ NewJob(cost, at, read, left).snap = NoRows
<1>1. DOMAIN NoRows = {} /\ NoRows \in [DOMAIN NoRows -> Nat \ {0}]
  BY DEF NoRows
<1> QED
  BY <1>1 DEF NewJob, JobTyped

\* Changes of a row that keep its type.
LEMMA RowWithRemaining ==
  ASSUME NEW row \in Row, NEW n \in Nat
  PROVE  /\ [row EXCEPT !.remaining = n] \in Row
         /\ [row EXCEPT !.remaining = n].type = row.type
         /\ [row EXCEPT !.remaining = n].amount = row.amount
         /\ [row EXCEPT !.remaining = n].remaining = n
         /\ [row EXCEPT !.remaining = n].processed = row.processed
BY DEF Row

\* Expiry empties a row and keeps its type and amount.
LEMMA RowExpired ==
  ASSUME NEW row \in Row, NEW n \in Nat
  PROVE  /\ [row EXCEPT !.remaining = 0, !.processed = n] \in Row
         /\ [row EXCEPT !.remaining = 0, !.processed = n].type = row.type
         /\ [row EXCEPT !.remaining = 0, !.processed = n].amount = row.amount
         /\ [row EXCEPT !.remaining = 0, !.processed = n].remaining = 0
<1> DEFINE spent == [row EXCEPT !.remaining = 0]
<1>1. /\ spent \in Row /\ spent.type = row.type /\ spent.amount = row.amount
      /\ spent.remaining = 0
  BY RowWithRemaining
<1> HIDE DEF spent
<1> DEFINE dead == [spent EXCEPT !.processed = n]
<1>2. /\ dead \in Row /\ dead.type = row.type /\ dead.amount = row.amount
      /\ dead.remaining = 0
  BY <1>1 DEF Row
<1> QED
  BY <1>2 DEF spent

\* What is left of a snapshot after one of its rows was visited.
LEMMA WithoutIsSmaller ==
  ASSUME NEW s, s \in [DOMAIN s -> Nat \ {0}], NEW i \in DOMAIN s
  PROVE  /\ Without(s, i) \in [DOMAIN Without(s, i) -> Nat \ {0}]
         /\ DOMAIN Without(s, i) \subseteq DOMAIN s
         /\ \A k \in DOMAIN Without(s, i) : Without(s, i)[k] = s[k] /\ s[k] \in Nat
BY DEF Without
-----------------------------------------------------------------------------
\* What every step has to establish.
LEMMA Assemble ==
  ASSUME TableFits(transactions', taken'), JobsAreTyped', JobsFit',
         pc' \in [Workers -> PcValues], now' \in Nat, started' \in Nat, failures' \in Nat,
         currentCredits' \in Int, lastRefreshAt' \in Nat \cup {Never},
         mirror' \in Int, events' \in Nat, dailyTotal' \in Nat, expiredDebits' \in Nat
  PROVE  IInv'
BY DEF IInv, TypeOK, TableFits, JobsFit

\* A new account has no rows and no requests.
LEMMA InitEstablishesIInv == Init => IInv
<1> SUFFICES ASSUME Init
             PROVE  IInv
  OBVIOUS
<1>1. TableFits(transactions, taken)
  BY DEF Init, TableFits
<1>2. \A w \in Workers : job[w] = IdleJob
  BY DEF Init
<1>3. JobTyped(IdleJob) /\ DOMAIN IdleJob.snap = {}
  BY IdleJobFits DEF IdleJob, NewJob, NoRows
<1>4. JobsAreTyped /\ JobsFit
  BY <1>2, <1>3 DEF Init, JobsAreTyped, JobsFit, SnapFits
<1> QED
  BY <1>1, <1>4, LedgerAssumption DEF Init, IInv, TypeOK, TableFits, PcValues, Never

\* The steps of recordUsage.
LEMMA RecordUsageKeepsIInv ==
  ASSUME IInv, NEW w \in Workers, RecordUsage(w)
  PROVE  IInv'
<1> USE LedgerAssumption
<1>1. TypeOK /\ TableFits(transactions, taken) /\ JobTyped(job[w]) /\ DOMAIN job = Workers
      /\ SnapFits(job[w].snap, transactions, taken) /\ DOMAIN job[w].snap \subseteq Rows
  BY DEF IInv, TypeOK, JobsAreTyped, JobsFit
<1>2. /\ job[w].cost \in Nat /\ job[w].left \in Nat /\ job[w].read \in Int
      /\ job[w].left <= job[w].cost /\ job[w].snap \in [DOMAIN job[w].snap -> Nat \ {0}]
      /\ Rows = 1..Len(transactions)
  BY <1>1, LenProperties DEF JobTyped, TableFits, Rows
<1>3. CASE ReadBalance(w)
  <2>1. TableFits(transactions', taken') /\ Evolves(transactions, taken, transactions', taken')
    BY <1>3, TableStays DEF ReadBalance, accountVars, historyVars
  <2>2. PICK c \in Costs :
          \/ c = 0 /\ pc' = [pc EXCEPT ![w] = "event"] /\ UNCHANGED job
          \/ c > 0 /\ ~Sufficient(c) /\ UNCHANGED <<pc, job>>
          \/ /\ c > 0 /\ Sufficient(c)
             /\ pc' = [pc EXCEPT ![w] = "select"]
             /\ job' = [job EXCEPT ![w] = NewJob(c, 0, currentCredits, c)]
    BY <1>3 DEF ReadBalance
  <2>3. pc' \in [Workers -> PcValues]
    BY <1>1, <2>2 DEF TypeOK, PcValues
  <2>4. JobsAreTyped' /\ JobsFit'
    <3>1. CASE UNCHANGED job
      BY <2>1, <3>1, NoJobChanges
    <3>2. CASE job' = [job EXCEPT ![w] = NewJob(c, 0, currentCredits, c)]
      <4> DEFINE j == NewJob(c, 0, currentCredits, c)
      <4>1. c \in Nat /\ c <= c /\ 0 \in Nat /\ currentCredits \in Int
        BY <1>1 DEF TypeOK
      <4>2. JobTyped(j) /\ j.snap = NoRows
        BY <4>1, NewJobs
      <4>3. SnapFits(j.snap, transactions', taken')
        BY <4>2 DEF SnapFits, NoRows
      <4>4. job' = [job EXCEPT ![w] = j]
        BY <3>2
      <4> HIDE DEF j
      <4> QED
        BY <2>1, <4>2, <4>3, <4>4, OneJobChanges
    <3> QED
      BY <2>2, <3>1, <3>2
  <2> QED
    BY <1>1, <1>3, <2>1, <2>3, <2>4, Assemble
       DEF TypeOK, ReadBalance, Begin, accountVars, usageVars, historyVars
<1>4. CASE SelectActive(w)
  <2>1. TableFits(transactions', taken') /\ Evolves(transactions, taken, transactions', taken')
    BY <1>4, TableStays DEF SelectActive, accountVars, historyVars
  <2> DEFINE S == {i \in Rows : Active(i, now)}
             j == [job[w] EXCEPT !.snap = Snapshot(S)]
  <2>2. \A i \in S : transactions[i].remaining > 0
    BY DEF Active
  <2>3. SnapFits(Snapshot(S), transactions, taken) /\ Snapshot(S) \in [S -> Nat \ {0}]
    <3> HIDE DEF S
    <3>1. S \subseteq Rows
      BY DEF S
    <3> QED
      BY <1>1, <2>2, <3>1, SelectionFits
  <2>4. JobTyped(j) /\ j.snap = Snapshot(S)
    <3> HIDE DEF S
    <3>1. Snapshot(S) \in [DOMAIN Snapshot(S) -> Nat \ {0}]
      BY <2>3
    <3> QED
      BY <1>1, <1>2, <3>1, JobWithSnap
  <2>5. SnapFits(j.snap, transactions', taken')
    BY <1>4, <2>3, <2>4 DEF SelectActive, accountVars, historyVars
  <2>6. job' = [job EXCEPT ![w] = j]
    BY <1>4 DEF SelectActive
  <2>7. JobsAreTyped' /\ JobsFit'
    <3> HIDE DEF j
    <3> QED
      BY <2>1, <2>4, <2>5, <2>6, OneJobChanges
  <2> QED
    BY <1>1, <1>4, <2>1, <2>7, Assemble
       DEF TypeOK, SelectActive, Goto, PcValues, accountVars, usageVars, historyVars
<1>5. CASE DeductFromGrant(w)
  <2> DEFINE Deducted(i) == Lesser(job[w].snap[i], job[w].left)
             Left(i) == [transactions[i] EXCEPT !.remaining = job[w].snap[i] - Deducted(i)]
             J(i) == [job[w] EXCEPT !.left = job[w].left - Deducted(i),
                                    !.snap = Without(job[w].snap, i)]
  <2>0. PICK i \in DOMAIN job[w].snap :
          /\ transactions' = [transactions EXCEPT ![i].remaining = job[w].snap[i] - Deducted(i)]
          /\ taken' = [taken EXCEPT ![i] = @ + Deducted(i)]
          /\ job' = [job EXCEPT ![w].left = @ - Deducted(i), ![w].snap = Without(@, i)]
    BY <1>5, Zenon DEF DeductFromGrant, Rest
  <2>1. /\ transactions' = [transactions EXCEPT ![i] = Left(i)]
        /\ taken' = [taken EXCEPT ![i] = @ + Deducted(i)]
        /\ job' = [job EXCEPT ![w] = J(i)]
    <3> HIDE DEF Deducted
    <3>1. transactions' = [transactions EXCEPT ![i] = Left(i)]
      BY <2>0
    <3>2. job' = [job EXCEPT ![w] = J(i)]
      BY <1>2, <2>0
    <3> QED
      BY <2>0, <3>1, <3>2
  <2>2. job[w].snap[i] \in Nat /\ i \in 1..Len(transactions)
        /\ transactions[i] \in Row /\ taken[i] \in Nat
    BY <1>1, <1>2, ElementOfSeq DEF TableFits
  <2>3. Deducted(i) \in Nat /\ Deducted(i) <= job[w].snap[i] /\ Deducted(i) <= job[w].left
    BY <1>2, <2>2, LesserIsLesser
  <2> HIDE DEF Deducted
  <2>3a. job[w].snap[i] - Deducted(i) \in Nat
    BY <2>2, <2>3
  <2>4. transactions[i].type # "USAGE" /\ job[w].snap[i] <= transactions[i].amount
        /\ transactions[i].amount <= job[w].snap[i] + taken[i]
    BY <1>1 DEF SnapFits
  <2>5. /\ Left(i) \in Row /\ Left(i).type = transactions[i].type
        /\ Left(i).amount = transactions[i].amount
        /\ Left(i).remaining = job[w].snap[i] - Deducted(i)
        /\ Left(i).processed = transactions[i].processed
    BY <2>2, <2>3a, RowWithRemaining
  <2>6. /\ Left(i).remaining \in 0..Left(i).amount
        /\ Left(i).amount <= Left(i).remaining + taken[i] + Deducted(i)
        /\ Left(i).processed # Never => Left(i).amount <= taken[i] + Deducted(i)
    <3>1. transactions[i].amount \in Int
      BY <2>2 DEF Row
    <3>2. transactions[i].processed # Never => transactions[i].amount <= taken[i]
      BY <1>1, <2>2, <2>4 DEF TableFits, RowFits
    <3>3. \A t, d \in Nat : \A s \in Nat : \A a \in Int :
            d <= s /\ s <= a /\ a <= s + t => s - d \in 0..a /\ a <= (s - d) + t + d
      OBVIOUS
    <3>4. \A t, d \in Nat : \A a \in Int : a <= t => a <= t + d
      OBVIOUS
    <3> HIDE DEF Left, J
    <3>5. /\ Left(i).remaining \in 0..Left(i).amount
          /\ Left(i).amount <= Left(i).remaining + taken[i] + Deducted(i)
      BY <2>2, <2>3, <2>4, <2>5, <3>1, <3>3
    <3> QED
      BY <2>2, <2>3, <2>5, <3>1, <3>2, <3>4, <3>5
  <2>7. TableFits(transactions', taken') /\ Evolves(transactions, taken, transactions', taken')
    <3> HIDE DEF Left, J
    <3>1. /\ TableFits([transactions EXCEPT ![i] = Left(i)],
                       [taken EXCEPT ![i] = @ + Deducted(i)])
          /\ Evolves(transactions, taken, [transactions EXCEPT ![i] = Left(i)],
                     [taken EXCEPT ![i] = @ + Deducted(i)])
      BY <1>1, <2>2, <2>3, <2>4, <2>5, <2>6, UpdateFits
    <3> QED
      BY <2>1, <3>1
  <2>8. /\ Without(job[w].snap, i) \in [DOMAIN Without(job[w].snap, i) -> Nat \ {0}]
        /\ DOMAIN Without(job[w].snap, i) \subseteq DOMAIN job[w].snap
        /\ \A k \in DOMAIN Without(job[w].snap, i) :
             Without(job[w].snap, i)[k] = job[w].snap[k] /\ job[w].snap[k] \in Nat
    BY <1>2, WithoutIsSmaller
  <2>9. SnapFits(Without(job[w].snap, i), transactions', taken')
    BY <1>1, <2>7, <2>8, SnapKeepsFitting
  <2>10. job[w].left - Deducted(i) \in Nat /\ job[w].left - Deducted(i) <= job[w].cost
    BY <1>2, <2>3
  <2>11. JobTyped(J(i)) /\ J(i).snap = Without(job[w].snap, i)
    <3> DEFINE l == job[w].left - Deducted(i)
               s == Without(job[w].snap, i)
    <3>1. l \in Nat /\ l <= job[w].cost /\ s \in [DOMAIN s -> Nat \ {0}]
      BY <2>8, <2>10
    <3> HIDE DEF l, s
    <3>2. JobTyped([job[w] EXCEPT !.left = l, !.snap = s])
          /\ [job[w] EXCEPT !.left = l, !.snap = s].snap = s
      BY <1>1, <3>1, JobWithLeft
    <3> QED
      BY <3>2 DEF l, s
  <2>12. JobsAreTyped' /\ JobsFit'
    <3> HIDE DEF J
    <3> QED
      BY <2>1, <2>7, <2>9, <2>11, OneJobChanges
  <2> QED
    BY <1>1, <1>5, <2>7, <2>12, Assemble DEF TypeOK, DeductFromGrant, usageVars
<1>6. CASE ChargeBalance(w) \/ InsertEvent(w)
  <2>1. TableFits(transactions', taken') /\ Evolves(transactions, taken, transactions', taken')
    BY <1>6, TableStays DEF ChargeBalance, InsertEvent, accountVars, historyVars
  <2>2. JobsAreTyped' /\ JobsFit'
    BY <1>6, <2>1, NoJobChanges DEF ChargeBalance, InsertEvent
  <2>3. CASE ChargeBalance(w)
    <3>1. currentCredits' \in Int
      BY <1>1, <1>2, <2>3 DEF TypeOK, ChargeBalance, BalanceAfterCharge
    <3> QED
      BY <1>1, <2>1, <2>2, <2>3, <3>1, Assemble
         DEF TypeOK, ChargeBalance, Goto, PcValues, usageVars, historyVars
  <2>4. CASE InsertEvent(w)
    BY <1>1, <2>1, <2>2, <2>4, Assemble
       DEF TypeOK, InsertEvent, Goto, PcValues, accountVars, historyVars
  <2> QED
    BY <1>6, <2>3, <2>4
<1>7. CASE LogUsage(w)
  <2>1. TableFits(transactions', taken') /\ Evolves(transactions, taken, transactions', taken')
    <3>1. -job[w].cost \in Int /\ -job[w].cost <= 0 /\ "USAGE" \in Kinds
          /\ Never \in Nat \cup {Never}
      BY <1>2 DEF Kinds
    <3> QED
      BY <1>7, <3>1, LogFits DEF LogUsage
  <2>2. JobsAreTyped' /\ JobsFit'
    BY <1>7, <2>1, NoJobChanges DEF LogUsage
  <2> QED
    BY <1>1, <1>7, <2>1, <2>2, Assemble
       DEF TypeOK, LogUsage, Goto, PcValues, usageVars
<1>8. CASE AddToDaily(w) \/ MirrorCredits(w)
  <2>1. TableFits(transactions', taken') /\ Evolves(transactions, taken, transactions', taken')
    BY <1>8, TableStays DEF AddToDaily, MirrorCredits, accountVars, historyVars
  <2>2. JobsAreTyped' /\ JobsFit'
    <3>1. CASE UNCHANGED job
      BY <2>1, <3>1, NoJobChanges
    <3>2. CASE job' = [job EXCEPT ![w] = IdleJob]
      BY <2>1, <3>2, IdleJobFits, OneJobChanges
    <3> QED
      BY <1>8, <3>1, <3>2 DEF AddToDaily, MirrorCredits, Finish
  <2>3. pc' \in [Workers -> PcValues]
    BY <1>1, <1>8 DEF TypeOK, AddToDaily, MirrorCredits, Finish, PcValues
  <2>4. mirror' \in Int /\ dailyTotal' \in Nat
    BY <1>1, <1>2, <1>8 DEF TypeOK, AddToDaily, MirrorCredits, DailyAfter
  <2> QED
    BY <1>1, <1>8, <2>1, <2>2, <2>3, <2>4, Assemble
       DEF TypeOK, AddToDaily, MirrorCredits, accountVars, historyVars
<1> QED
  BY <1>3, <1>4, <1>5, <1>6, <1>7, <1>8 DEF RecordUsage

\* The steps of addFreeMonthlyCreditsIfNeeded and processExpiredCredits.
LEMMA RefreshKeepsIInv ==
  ASSUME IInv, NEW w \in Workers, Refresh(w)
  PROVE  IInv'
<1> USE LedgerAssumption
<1>1. TypeOK /\ TableFits(transactions, taken) /\ JobTyped(job[w]) /\ DOMAIN job = Workers
      /\ SnapFits(job[w].snap, transactions, taken) /\ DOMAIN job[w].snap \subseteq Rows
  BY DEF IInv, TypeOK, JobsAreTyped, JobsFit
<1>2. /\ job[w].at \in Nat /\ job[w].debit \in Nat
      /\ job[w].snap \in [DOMAIN job[w].snap -> Nat \ {0}]
      /\ Rows = 1..Len(transactions)
  BY <1>1, LenProperties DEF JobTyped, TableFits, Rows
<1>3. CASE ReadRefreshState(w)
  <2>1. TableFits(transactions', taken') /\ Evolves(transactions, taken, transactions', taken')
    BY <1>3, TableStays DEF ReadRefreshState, accountVars, historyVars
  <2>2. CASE UNCHANGED <<pc, job>>
    <3>1. JobsAreTyped' /\ JobsFit'
      BY <2>1, <2>2, NoJobChanges
    <3> QED
      BY <1>1, <1>3, <2>1, <2>2, <3>1, Assemble
         DEF TypeOK, ReadRefreshState, Begin, accountVars, usageVars, historyVars
  <2>3. CASE /\ pc' = [pc EXCEPT ![w] = "selectExpired"]
             /\ job' = [job EXCEPT ![w] = NewJob(0, now, 0, 0)]
    <3> DEFINE j == NewJob(0, now, 0, 0)
    <3>1. JobTyped(j) /\ j.snap = NoRows
      <4>1. now \in Nat /\ 0 \in Nat /\ 0 \in Int /\ 0 <= 0
        BY <1>1 DEF TypeOK
      <4> QED
        BY <4>1, NewJobs
    <3>2. SnapFits(j.snap, transactions', taken')
      BY <3>1 DEF SnapFits, NoRows
    <3>3. job' = [job EXCEPT ![w] = j]
      BY <2>3
    <3> HIDE DEF j
    <3>4. JobsAreTyped' /\ JobsFit'
      BY <2>1, <3>1, <3>2, <3>3, OneJobChanges
    <3> QED
      BY <1>1, <1>3, <2>1, <2>3, <3>4, Assemble
         DEF TypeOK, ReadRefreshState, Begin, PcValues, accountVars, usageVars, historyVars
  <2> QED
    BY <1>3, <2>2, <2>3 DEF ReadRefreshState
<1>4. CASE SelectExpired(w)
  <2>1. TableFits(transactions', taken') /\ Evolves(transactions, taken, transactions', taken')
    BY <1>4, TableStays DEF SelectExpired, accountVars, historyVars
  <2> DEFINE S == {i \in Rows : Expired(i, job[w].at)}
             j == [job[w] EXCEPT !.snap = Snapshot(S)]
  <2>2. S \subseteq Rows /\ \A i \in S : transactions[i].remaining > 0
    BY DEF Expired
  <2> HIDE DEF S
  <2>3. SnapFits(Snapshot(S), transactions, taken) /\ Snapshot(S) \in [S -> Nat \ {0}]
    BY <1>1, <2>2, SelectionFits
  <2>4. JobTyped(j) /\ j.snap = Snapshot(S)
    <3>1. Snapshot(S) \in [DOMAIN Snapshot(S) -> Nat \ {0}]
      BY <2>3
    <3> QED
      BY <1>1, <1>2, <3>1, JobWithSnap
  <2>5. SnapFits(j.snap, transactions', taken')
    BY <1>4, <2>3, <2>4 DEF SelectExpired, accountVars, historyVars
  <2>6. job' = [job EXCEPT ![w] = j]
    BY <1>4 DEF SelectExpired, S
  <2>7. JobsAreTyped' /\ JobsFit'
    <3> HIDE DEF j
    <3> QED
      BY <2>1, <2>4, <2>5, <2>6, OneJobChanges
  <2> QED
    BY <1>1, <1>4, <2>1, <2>7, Assemble
       DEF TypeOK, SelectExpired, Goto, PcValues, accountVars, usageVars, historyVars
<1>5. CASE ExpireGrant(w)
  <2> DEFINE Spent(i) == [transactions[i] EXCEPT !.remaining = 0, !.processed = job[w].at]
             J(i) == [job[w] EXCEPT !.debit = job[w].snap[i], !.snap = Without(job[w].snap, i)]
  <2>1. PICK i \in DOMAIN job[w].snap :
          /\ transactions' = [transactions EXCEPT ![i] = Spent(i)]
          /\ taken' = [taken EXCEPT ![i] = @ + job[w].snap[i]]
          /\ job' = [job EXCEPT ![w] = J(i)]
    <3>1. PICK i \in DOMAIN job[w].snap :
            /\ transactions' = [transactions EXCEPT
                  ![i] = [@ EXCEPT !.remaining = 0, !.processed = job[w].at]]
            /\ taken' = [taken EXCEPT ![i] = @ + job[w].snap[i]]
            /\ job' = [job EXCEPT ![w].debit = job[w].snap[i], ![w].snap = Without(@, i)]
      BY <1>5 DEF ExpireGrant, Expire
    <3>2. transactions' = [transactions EXCEPT ![i] = Spent(i)]
      BY <3>1
    <3>3. job' = [job EXCEPT ![w] = J(i)]
      BY <3>1
    <3> HIDE DEF Spent, J
    <3> QED
      BY <3>1, <3>2, <3>3
  <2>2. job[w].snap[i] \in Nat /\ i \in 1..Len(transactions)
        /\ transactions[i] \in Row /\ taken[i] \in Nat
    BY <1>1, <1>2, ElementOfSeq DEF TableFits
  <2>3. transactions[i].type # "USAGE" /\ job[w].snap[i] <= transactions[i].amount
        /\ transactions[i].amount <= job[w].snap[i] + taken[i]
    BY <1>1 DEF SnapFits
  <2>4. /\ Spent(i) \in Row /\ Spent(i).type = transactions[i].type
        /\ Spent(i).amount = transactions[i].amount /\ Spent(i).remaining = 0
    BY <1>2, <2>2, RowExpired
  <2>5. /\ Spent(i).remaining \in 0..Spent(i).amount
        /\ Spent(i).amount <= Spent(i).remaining + taken[i] + job[w].snap[i]
        /\ Spent(i).amount <= taken[i] + job[w].snap[i]
    <3>1. transactions[i].amount \in Int
      BY <2>2 DEF Row
    <3> HIDE DEF Spent
    <3> QED
      BY <2>2, <2>3, <2>4, <3>1
  <2>6. TableFits(transactions', taken') /\ Evolves(transactions, taken, transactions', taken')
    <3> HIDE DEF Spent
    <3> QED
      BY <1>1, <2>1, <2>2, <2>3, <2>4, <2>5, UpdateFits
  <2>7. /\ Without(job[w].snap, i) \in [DOMAIN Without(job[w].snap, i) -> Nat \ {0}]
        /\ DOMAIN Without(job[w].snap, i) \subseteq DOMAIN job[w].snap
        /\ \A k \in DOMAIN Without(job[w].snap, i) :
             Without(job[w].snap, i)[k] = job[w].snap[k] /\ job[w].snap[k] \in Nat
    BY <1>2, WithoutIsSmaller
  <2>8. SnapFits(Without(job[w].snap, i), transactions', taken')
    BY <1>1, <2>6, <2>7, SnapKeepsFitting
  <2>9. JobTyped(J(i)) /\ J(i).snap = Without(job[w].snap, i)
    <3> DEFINE d == job[w].snap[i]
               s == Without(job[w].snap, i)
    <3>1. d \in Nat /\ s \in [DOMAIN s -> Nat \ {0}]
      BY <2>2, <2>7
    <3> HIDE DEF d, s
    <3>2. JobTyped([job[w] EXCEPT !.debit = d, !.snap = s])
          /\ [job[w] EXCEPT !.debit = d, !.snap = s].snap = s
      BY <1>1, <3>1, JobWithDebit
    <3> QED
      BY <3>2 DEF d, s
  <2>10. JobsAreTyped' /\ JobsFit'
    <3> HIDE DEF J
    <3> QED
      BY <2>1, <2>6, <2>8, <2>9, OneJobChanges
  <2> QED
    BY <1>1, <1>5, <2>6, <2>10, Assemble DEF TypeOK, ExpireGrant, Goto, PcValues, usageVars
<1>6. CASE DebitExpired(w)
  <2>1. TableFits(transactions', taken') /\ Evolves(transactions, taken, transactions', taken')
    BY <1>6, TableStays DEF DebitExpired
  <2> DEFINE j == [job[w] EXCEPT !.debit = 0]
  <2>2. JobTyped(j) /\ j.snap = job[w].snap
    BY <1>1, JobDebited
  <2>3. SnapFits(j.snap, transactions', taken')
    BY <1>1, <1>6, <2>2 DEF DebitExpired
  <2>4. job' = [job EXCEPT ![w] = j]
    BY <1>6 DEF DebitExpired
  <2>5. JobsAreTyped' /\ JobsFit'
    <3> HIDE DEF j
    <3> QED
      BY <2>1, <2>2, <2>3, <2>4, OneJobChanges
  <2>6. currentCredits' \in Int /\ expiredDebits' \in Nat
    <3>1. currentCredits \in Int /\ expiredDebits \in Nat
      BY <1>1 DEF TypeOK
    <3>2. /\ currentCredits' = currentCredits - job[w].debit
          /\ expiredDebits' = expiredDebits + job[w].debit
      BY <1>6 DEF DebitExpired, BalanceAfterExpiry
    <3> QED
      BY <1>2, <3>1, <3>2
  <2> QED
    BY <1>1, <1>6, <2>1, <2>5, <2>6, Assemble DEF TypeOK, DebitExpired, Goto, PcValues, usageVars
<1>7. CASE GrantMonthly(w)
  <2>1. TableFits(transactions', taken') /\ Evolves(transactions, taken, transactions', taken')
    BY <1>7, TableStays DEF GrantMonthly, historyVars
  <2>2. JobsAreTyped' /\ JobsFit'
    BY <1>7, <2>1, NoJobChanges DEF GrantMonthly
  <2>3. currentCredits' \in Int
    BY <1>1, <1>7 DEF TypeOK, GrantMonthly
  <2> QED
    BY <1>1, <1>7, <2>1, <2>2, <2>3, Assemble
       DEF TypeOK, GrantMonthly, Goto, PcValues, usageVars, historyVars
<1>8. CASE LogMonthly(w)
  <2>1. TableFits(transactions', taken') /\ Evolves(transactions, taken, transactions', taken')
    <3>1. /\ "MONTHLY_REFRESH" \in Kinds /\ FreeMonthlyCredits \in Int
          /\ FreeMonthlyCredits >= 0 /\ job[w].at + Month \in Nat \cup {Never}
      BY <1>2 DEF Kinds
    <3> QED
      BY <1>8, <3>1, LogFits DEF LogMonthly
  <2>2. JobsAreTyped' /\ JobsFit'
    BY <1>8, <2>1, NoJobChanges DEF LogMonthly
  <2> QED
    BY <1>1, <1>8, <2>1, <2>2, Assemble DEF TypeOK, LogMonthly, Goto, PcValues, usageVars
<1>9. CASE MarkRefreshed(w)
  <2>1. TableFits(transactions', taken') /\ Evolves(transactions, taken, transactions', taken')
    BY <1>9, TableStays DEF MarkRefreshed, historyVars
  <2>2. JobsAreTyped' /\ JobsFit'
    BY <1>9, <2>1, IdleJobFits, OneJobChanges DEF MarkRefreshed, Finish
  <2> QED
    BY <1>1, <1>2, <1>9, <2>1, <2>2, Assemble
       DEF TypeOK, MarkRefreshed, Finish, PcValues, usageVars, historyVars
<1> QED
  BY <1>3, <1>4, <1>5, <1>6, <1>7, <1>8, <1>9 DEF Refresh

\* The steps of a purchase, and a request that is cut short.
LEMMA PurchaseOrAbortKeepsIInv ==
  ASSUME IInv, NEW w \in Workers, Purchase(w) \/ Abort(w)
  PROVE  IInv'
<1> USE LedgerAssumption
<1>1. TypeOK /\ JobTyped(job[w]) /\ job[w].cost \in Nat
  BY DEF IInv, TypeOK, JobsAreTyped, JobTyped
<1>2. CASE PurchaseBalance(w)
  <2>1. TableFits(transactions', taken') /\ Evolves(transactions, taken, transactions', taken')
    BY <1>2, TableStays DEF PurchaseBalance, historyVars
  <2>2. PICK n \in Purchases :
          currentCredits' = currentCredits + n /\ job' = [job EXCEPT ![w] = NewJob(n, 0, 0, 0)]
    BY <1>2 DEF PurchaseBalance
  <2> DEFINE j == NewJob(n, 0, 0, 0)
  <2>3. JobTyped(j) /\ j.snap = NoRows
    BY NewJobs
  <2>4. SnapFits(j.snap, transactions', taken')
    BY <2>3 DEF SnapFits, NoRows
  <2>5. job' = [job EXCEPT ![w] = j]
    BY <2>2
  <2> HIDE DEF j
  <2>6. JobsAreTyped' /\ JobsFit'
    BY <2>1, <2>3, <2>4, <2>5, OneJobChanges
  <2>7. currentCredits' \in Int
    BY <1>1, <2>2 DEF TypeOK
  <2> QED
    BY <1>1, <1>2, <2>1, <2>6, <2>7, Assemble
       DEF TypeOK, PurchaseBalance, Begin, PcValues, usageVars, historyVars
<1>3. CASE LogPurchase(w)
  <2>1. TableFits(transactions', taken') /\ Evolves(transactions, taken, transactions', taken')
    <3>1. "PURCHASE" \in Kinds /\ job[w].cost \in Int /\ job[w].cost >= 0
          /\ Never \in Nat \cup {Never}
      BY <1>1 DEF Kinds
    <3> QED
      BY <1>3, <3>1, LogFits DEF LogPurchase
  <2>2. JobsAreTyped' /\ JobsFit'
    BY <1>3, <2>1, IdleJobFits, OneJobChanges DEF LogPurchase, Finish
  <2> QED
    BY <1>1, <1>3, <2>1, <2>2, Assemble DEF TypeOK, LogPurchase, Finish, PcValues, usageVars
<1>4. CASE Abort(w)
  <2>1. TableFits(transactions', taken') /\ Evolves(transactions, taken, transactions', taken')
    BY <1>4, TableStays DEF Abort, accountVars, historyVars
  <2>2. JobsAreTyped' /\ JobsFit'
    BY <1>4, <2>1, IdleJobFits, OneJobChanges DEF Abort, Finish
  <2> QED
    BY <1>1, <1>4, <2>1, <2>2, Assemble
       DEF TypeOK, Abort, Finish, PcValues, accountVars, usageVars, historyVars
<1> QED
  BY <1>2, <1>3, <1>4 DEF Purchase

\* The clock and stuttering leave the account alone.
LEMMA QuietStepKeepsIInv ==
  ASSUME IInv, Tick \/ UNCHANGED vars
  PROVE  IInv'
<1>1. TableFits(transactions', taken') /\ Evolves(transactions, taken, transactions', taken')
  BY TableStays DEF Tick, vars, accountVars, historyVars
<1>2. JobsAreTyped' /\ JobsFit'
  BY <1>1, NoJobChanges DEF Tick, vars
<1>3. now' \in Nat
  BY DEF IInv, TypeOK, Tick, vars
<1> QED
  BY <1>1, <1>2, <1>3, Assemble
     DEF IInv, TypeOK, Tick, vars, accountVars, usageVars, historyVars

\* Every step keeps the inductive invariant.
LEMMA NextKeepsIInv == IInv /\ [Next]_vars => IInv'
BY RecordUsageKeepsIInv, RefreshKeepsIInv, PurchaseOrAbortKeepsIInv, QuietStepKeepsIInv DEF Next

\* The inductive invariant holds in every reachable state.
LEMMA Invariance == Spec => []IInv
BY InitEstablishesIInv, NextKeepsIInv, PTL DEF Spec
-----------------------------------------------------------------------------
\* Whatever requests overlap and fail, the account's columns and the requests'
\* local variables keep their types; in particular no snapshot row is ever lost.
THEOREM TypeCorrect == Spec => []TypeOK
<1>1. IInv => TypeOK
  BY DEF IInv
<1> QED
  BY <1>1, Invariance, PTL

\* A grant never holds less than nothing or more than its amount, and never loses
\* more than the requests drew from it, in every interleaving of any number of
\* requests that write from stale snapshots.
THEOREM GrantsAreAccounted == Spec => []GrantAccounted
<1>1. IInv => GrantAccounted
  <2> SUFFICES ASSUME TableFits(transactions, taken)
               PROVE  GrantAccounted
    BY DEF IInv
  <2>1. Rows = 1..Len(transactions)
    BY LenProperties DEF TableFits, Rows
  <2>2. \A i \in Rows : RowFits(transactions[i], taken[i])
    BY <2>1 DEF TableFits
  <2> QED
    BY <2>2 DEF GrantAccounted, RowFits
<1> QED
  BY <1>1, Invariance, PTL
-----------------------------------------------------------------------------
(* Sums.  The library's induction theorems take the induction hypothesis as an
   operator; these lemmas use that the strict subsets of a finite set are well
   founded (FS_StrictSubsetOrderingWellFounded, WFMin) instead. *)

\* The element that the folds of the community modules take out of s.
Any(s) == CHOOSE x \in s : TRUE

\* The recursive function behind a sum of F over the subsets of S.
SumStep(F, g, s) == IF s = {} THEN 0 ELSE F[Any(s)] + g[s \ {Any(s)}]
IsSum(g, F, S) == g = [s \in SUBSET S |-> SumStep(F, g, s)]

\* The element picked by CHOOSE is one.
LEMMA AnyIn ==
  ASSUME NEW s, s # {}
  PROVE  Any(s) \in s
BY DEF Any

\* SumFunctionOnSet of the community modules is that recursive function's last value.
LEMMA SumIsChosen ==
  ASSUME NEW F, NEW S
  PROVE  SumFunctionOnSet(F, S) = (CHOOSE g : IsSum(g, F, S))[S]
BY DEF SumFunctionOnSet, FoldFunctionOnSet, MapThenFoldSet, IsSum, SumStep, Any

\* Every class of subsets of a finite set has a smallest one: the least counterexample
\* of the proofs by induction below.
LEMMA SmallestSet ==
  ASSUME NEW S, IsFiniteSet(S), NEW T, T \subseteq SUBSET S, T # {}
  PROVE  \E x \in T : \A y \in T : ~(y \subseteq x /\ y # x)
<1>1. IsWellFoundedOn(StrictSubsetOrdering(S), FiniteSubsetsOf(S))
  BY FS_StrictSubsetOrderingWellFounded
<1>2. FiniteSubsetsOf(S) = SUBSET S
  BY FS_Subset DEF FiniteSubsetsOf
<1>3. \E x \in T : \A y \in T : ~(<<y, x>> \in StrictSubsetOrdering(S))
  BY <1>1, <1>2, WFMin
<1> QED
  BY <1>3 DEF StrictSubsetOrdering

\* The recursive function is determined by its equation.
LEMMA SumIsUnique ==
  ASSUME NEW S, IsFiniteSet(S), NEW F, NEW g, NEW T, NEW h,
         IsSum(g, F, S), IsSum(h, F, T), S \subseteq T
  PROVE  \A s \in SUBSET S : g[s] = h[s]
<1> DEFINE Bad == {s \in SUBSET S : g[s] # h[s]}
<1> SUFFICES ASSUME Bad # {}
             PROVE  FALSE
  OBVIOUS
<1>0. Bad \subseteq SUBSET S
  OBVIOUS
<1> HIDE DEF Bad
<1>1. PICK s \in Bad : \A y \in Bad : ~(y \subseteq s /\ y # s)
  BY <1>0, SmallestSet
<1> USE DEF Bad
<1>2. g[s] = SumStep(F, g, s) /\ h[s] = SumStep(F, h, s)
  BY DEF IsSum
<1>3. s # {}
  BY <1>2 DEF SumStep
<1>4. s \ {Any(s)} \notin Bad
  BY <1>1, <1>3, AnyIn
<1> QED
  BY <1>2, <1>3, <1>4 DEF SumStep

\* There is a function that satisfies the equation.
LEMMA SumExists ==
  ASSUME NEW S, IsFiniteSet(S), NEW F
  PROVE  \E g : IsSum(g, F, S)
<1> DEFINE Bad == {s \in SUBSET S : ~ \E g : IsSum(g, F, s)}
<1> SUFFICES ASSUME Bad # {}
             PROVE  FALSE
  OBVIOUS
<1>0. Bad \subseteq SUBSET S
  OBVIOUS
<1> HIDE DEF Bad
<1>1. PICK x \in Bad : \A y \in Bad : ~(y \subseteq x /\ y # x)
  BY <1>0, SmallestSet
<1> USE DEF Bad
<1> DEFINE G(z) == CHOOSE g : IsSum(g, F, z)
           V == [z \in SUBSET x |-> G(z)[z]]
           H == [z \in SUBSET x |-> SumStep(F, V, z)]
<1>2. ASSUME NEW z \in SUBSET x, z # x
      PROVE  IsSum(G(z), F, z) /\ IsFiniteSet(z)
  <2>1. z \in SUBSET S /\ z \notin Bad
    BY <1>1, <1>2
  <2>2. \E g : IsSum(g, F, z)
    BY <2>1
  <2>3. IsFiniteSet(z)
    BY <2>1, FS_Subset
  <2> QED
    BY <2>2, <2>3
<1> HIDE DEF G
<1>3. ASSUME NEW z \in SUBSET x, z # x
      PROVE  V[z] = SumStep(F, V, z)
  <2>1. IsSum(G(z), F, z)
    BY <1>2, <1>3
  <2>2. G(z)[z] = SumStep(F, G(z), z)
    BY <2>1 DEF IsSum
  <2>3. CASE z = {}
    BY <2>2, <2>3 DEF SumStep
  <2>4. CASE z # {}
    <3> DEFINE r == z \ {Any(z)}
    <3>1. r \subseteq z /\ r # x /\ r \subseteq x
      BY <2>4, <1>3, AnyIn
    <3>2. IsSum(G(r), F, r) /\ IsFiniteSet(r)
      BY <1>2, <3>1
    <3>3. G(r)[r] = G(z)[r]
      BY <3>1, <3>2, <2>1, SumIsUnique
    <3> QED
      BY <2>2, <2>4, <3>1, <3>3 DEF SumStep
  <2> QED
    BY <2>3, <2>4
<1>4. ASSUME NEW z \in SUBSET x
      PROVE  H[z] = SumStep(F, H, z)
  <2>1. CASE z = {}
    BY <2>1 DEF SumStep
  <2>2. CASE z # {}
    <3> DEFINE r == z \ {Any(z)}
    <3>1. r \subseteq z /\ r # x /\ r \subseteq x
      BY <2>2, AnyIn
    <3>2. V[r] = H[r]
      BY <3>1, <1>3
    <3> QED
      BY <3>2, <2>2 DEF SumStep
  <2> QED
    BY <2>1, <2>2
<1>5. IsSum(H, F, x)
  BY <1>4 DEF IsSum
<1> QED
  BY <1>5

\* F summed over S.
Sum(F, S) == SumFunctionOnSet(F, S)

\* The sum of nothing is zero; any other is one term and the sum of the rest.
LEMMA SumEquation ==
  ASSUME NEW S, IsFiniteSet(S), NEW F
  PROVE  /\ S = {} => Sum(F, S) = 0
         /\ S # {} => Sum(F, S) = F[Any(S)] + Sum(F, S \ {Any(S)})
<1> DEFINE r == S \ {Any(S)}
           g == CHOOSE f : IsSum(f, F, S)
           h == CHOOSE f : IsSum(f, F, r)
<1>1. IsFiniteSet(r) /\ r \subseteq S
  BY FS_Subset
<1>2. IsSum(g, F, S) /\ IsSum(h, F, r)
  BY <1>1, SumExists
<1>3. Sum(F, S) = g[S] /\ Sum(F, r) = h[r]
  BY SumIsChosen DEF Sum
<1> HIDE DEF g, h
<1>4. h[r] = g[r]
  BY <1>1, <1>2, SumIsUnique
<1>5. g[S] = SumStep(F, g, S)
  BY <1>2 DEF IsSum
<1> QED
  BY <1>3, <1>4, <1>5 DEF SumStep

\* Integers add up to an integer.
LEMMA SumIsInteger ==
  ASSUME NEW S, IsFiniteSet(S), NEW F, \A i \in S : F[i] \in Int
  PROVE  \A s \in SUBSET S : Sum(F, s) \in Int
<1> DEFINE Bad == {s \in SUBSET S : Sum(F, s) \notin Int}
<1> SUFFICES ASSUME Bad # {}
             PROVE  FALSE
  OBVIOUS
<1>1. Bad \subseteq SUBSET S
  OBVIOUS
<1> HIDE DEF Bad
<1>2. PICK s \in Bad : \A y \in Bad : ~(y \subseteq s /\ y # s)
  BY <1>1, SmallestSet
<1> USE DEF Bad
<1>3. IsFiniteSet(s)
  BY FS_Subset
<1>4. CASE s = {}
  BY <1>3, <1>4, SumEquation
<1>5. CASE s # {}
  <2>1. Any(s) \in s /\ F[Any(s)] \in Int
    BY <1>5, AnyIn
  <2>2. s \ {Any(s)} \notin Bad
    BY <1>2, <2>1
  <2>3. Sum(F, s) = F[Any(s)] + Sum(F, s \ {Any(s)})
    BY <1>3, <1>5, SumEquation
  <2> QED
    BY <2>1, <2>2, <2>3
<1> QED
  BY <1>4, <1>5

\* Whichever term is taken out first, the sum is the same.
LEMMA SumSplits ==
  ASSUME NEW S, IsFiniteSet(S), NEW F, \A i \in S : F[i] \in Int
  PROVE  \A i \in S : Sum(F, S) = F[i] + Sum(F, S \ {i})
<1> DEFINE Good(s) == \A i \in s : Sum(F, s) = F[i] + Sum(F, s \ {i})
           Bad == {s \in SUBSET S : ~Good(s)}
<1> SUFFICES ASSUME Bad # {}
             PROVE  FALSE
  OBVIOUS
<1>1. Bad \subseteq SUBSET S
  OBVIOUS
<1> HIDE DEF Bad
<1>2. PICK s \in Bad : \A y \in Bad : ~(y \subseteq s /\ y # s)
  BY <1>1, SmallestSet
<1> USE DEF Bad
<1>3. PICK i \in s : Sum(F, s) # F[i] + Sum(F, s \ {i})
  OBVIOUS
<1>4. \A k \in s : Good(s \ {k})
  BY <1>2
<1> DEFINE a == Any(s)
<1>5. IsFiniteSet(s) /\ s \subseteq S
  BY FS_Subset
<1>6. a \in s /\ Sum(F, s) = F[a] + Sum(F, s \ {a})
  BY <1>3, <1>5, AnyIn, SumEquation
<1> HIDE DEF a, Bad
<1>7. a # i
  BY <1>3, <1>6
<1>8. Sum(F, s \ {a}) = F[i] + Sum(F, (s \ {a}) \ {i})
  BY <1>3, <1>4, <1>6, <1>7
<1>9. Sum(F, s \ {i}) = F[a] + Sum(F, (s \ {i}) \ {a})
  BY <1>3, <1>4, <1>6, <1>7
<1> DEFINE r == (s \ {a}) \ {i}
<1>10. (s \ {i}) \ {a} = r
  OBVIOUS
<1>11. Sum(F, r) \in Int /\ F[a] \in Int /\ F[i] \in Int
  BY <1>3, <1>5, <1>6, SumIsInteger
<1> HIDE DEF r
<1>12. Sum(F, s \ {a}) = F[i] + Sum(F, r)
  BY <1>8 DEF r
<1>13. Sum(F, s \ {i}) = F[a] + Sum(F, r)
  BY <1>9, <1>10
<1> QED
  BY <1>3, <1>6, <1>11, <1>12, <1>13

\* Larger terms have a larger sum.
LEMMA SumsCompare ==
  ASSUME NEW S, IsFiniteSet(S), NEW F, NEW G,
         \A i \in S : F[i] \in Int /\ G[i] \in Int /\ F[i] <= G[i]
  PROVE  Sum(F, S) <= Sum(G, S)
<1> DEFINE Bad == {s \in SUBSET S : ~(Sum(F, s) <= Sum(G, s))}
<1> SUFFICES ASSUME Bad # {}
             PROVE  FALSE
  OBVIOUS
<1>1. Bad \subseteq SUBSET S
  OBVIOUS
<1> HIDE DEF Bad
<1>2. PICK s \in Bad : \A y \in Bad : ~(y \subseteq s /\ y # s)
  BY <1>1, SmallestSet
<1> USE DEF Bad
<1>3. IsFiniteSet(s) /\ s \subseteq S
  BY FS_Subset
<1>4. CASE s = {}
  BY <1>3, <1>4, SumEquation
<1>5. CASE s # {}
  <2> DEFINE a == Any(s)
             r == s \ {a}
  <2>1. a \in s
    BY <1>5, AnyIn
  <2>2. Sum(F, s) = F[a] + Sum(F, r) /\ Sum(G, s) = G[a] + Sum(G, r)
    BY <1>3, <1>5, SumEquation
  <2>3. r \notin Bad /\ r \subseteq S
    BY <1>2, <2>1
  <2>4. Sum(F, r) \in Int /\ Sum(G, r) \in Int
    BY <2>3, SumIsInteger
  <2>5. F[a] \in Int /\ G[a] \in Int /\ F[a] <= G[a]
    BY <1>3, <2>1
  <2>6. Sum(F, r) <= Sum(G, r)
    BY <2>3
  <2> HIDE DEF a, r
  <2> QED
    BY <2>2, <2>4, <2>5, <2>6
<1> QED
  BY <1>4, <1>5

\* Equal terms have equal sums.
LEMMA SumsAgree ==
  ASSUME NEW S, IsFiniteSet(S), NEW F, NEW G, \A i \in S : F[i] \in Int /\ G[i] = F[i]
  PROVE  Sum(G, S) = Sum(F, S)
<1>1. Sum(F, S) <= Sum(G, S) /\ Sum(G, S) <= Sum(F, S)
  BY SumsCompare
<1>2. Sum(F, S) \in Int /\ Sum(G, S) \in Int
  BY SumIsInteger
<1> QED
  BY <1>1, <1>2

\* When one term changes, the sum changes by as much.
LEMMA SumChanges ==
  ASSUME NEW S, IsFiniteSet(S), NEW F, NEW G, NEW k \in S,
         \A i \in S : F[i] \in Int /\ G[i] \in Int,
         \A i \in S \ {k} : G[i] = F[i]
  PROVE  Sum(G, S) = Sum(F, S) + (G[k] - F[k])
<1> DEFINE r == S \ {k}
<1>1. IsFiniteSet(r)
  BY FS_Subset
<1>2. Sum(F, S) = F[k] + Sum(F, r) /\ Sum(G, S) = G[k] + Sum(G, r)
  BY SumSplits
<1>3. Sum(G, r) = Sum(F, r)
  BY <1>1, SumsAgree
<1>4. Sum(F, r) \in Int
  BY SumIsInteger
<1> HIDE DEF r
<1> QED
  BY <1>2, <1>3, <1>4

\* A term more.
LEMMA SumExtends ==
  ASSUME NEW S, IsFiniteSet(S), NEW F, NEW G, NEW k, k \notin S, G[k] \in Int,
         \A i \in S : F[i] \in Int /\ G[i] = F[i]
  PROVE  Sum(G, S \cup {k}) = Sum(F, S) + G[k]
<1> DEFINE T == S \cup {k}
<1>1. IsFiniteSet(T)
  BY FS_AddElement
<1>2. \A i \in T : G[i] \in Int
  OBVIOUS
<1>3. k \in T /\ T \ {k} = S
  OBVIOUS
<1> HIDE DEF T
<1>4. Sum(G, T) = G[k] + Sum(G, S)
  BY <1>1, <1>2, <1>3, SumSplits
<1>5. Sum(G, S) = Sum(F, S) /\ Sum(F, S) \in Int
  BY SumsAgree, SumIsInteger
<1> QED
  BY <1>4, <1>5 DEF T

\* The sum of two sums is the sum of the sums of their terms.
LEMMA SumOfSums ==
  ASSUME NEW S, IsFiniteSet(S), NEW F, NEW G, \A i \in S : F[i] \in Int /\ G[i] \in Int
  PROVE  Sum([i \in S |-> F[i] + G[i]], S) = Sum(F, S) + Sum(G, S)
<1> DEFINE H == [i \in S |-> F[i] + G[i]]
           Bad == {s \in SUBSET S : ~(Sum(H, s) = Sum(F, s) + Sum(G, s))}
<1> SUFFICES ASSUME Bad # {}
             PROVE  FALSE
  OBVIOUS
<1>1. Bad \subseteq SUBSET S
  OBVIOUS
<1> HIDE DEF Bad
<1>2. PICK s \in Bad : \A y \in Bad : ~(y \subseteq s /\ y # s)
  BY <1>1, SmallestSet
<1> USE DEF Bad
<1>3. IsFiniteSet(s) /\ s \subseteq S
  BY FS_Subset
<1>4. CASE s = {}
  <2>1. Sum(F, s) = 0 /\ Sum(G, s) = 0 /\ Sum(H, s) = 0
    BY <1>3, <1>4, SumEquation
  <2> QED
    BY <2>1
<1>5. CASE s # {}
  <2> DEFINE a == Any(s)
             r == s \ {a}
  <2>1. a \in s
    BY <1>5, AnyIn
  <2>2. /\ Sum(F, s) = F[a] + Sum(F, r) /\ Sum(G, s) = G[a] + Sum(G, r)
        /\ Sum(H, s) = H[a] + Sum(H, r)
    BY <1>3, <1>5, SumEquation
  <2>3. r \notin Bad /\ r \subseteq S
    BY <1>2, <2>1
  <2>4. Sum(F, r) \in Int /\ Sum(G, r) \in Int
    BY <2>3, SumIsInteger
  <2>5. F[a] \in Int /\ G[a] \in Int /\ H[a] = F[a] + G[a]
    BY <1>3, <2>1
  <2>6. Sum(H, r) = Sum(F, r) + Sum(G, r)
    BY <2>3
  <2> HIDE DEF a, r, H
  <2> QED
    BY <2>2, <2>4, <2>5, <2>6
<1> QED
  BY <1>4, <1>5

\* The same for the sum of a whole function.
LEMMA SumFunctionIsInteger ==
  ASSUME NEW S, IsFiniteSet(S), NEW F \in [S -> Int]
  PROVE  SumFunction(F) \in Int /\ SumFunction(F) = Sum(F, S)
<1>1. SumFunction(F) = Sum(F, S)
  BY DEF SumFunction, Sum
<1> QED
  BY <1>1, SumIsInteger

\* One value of the function changes.
LEMMA SumMoves ==
  ASSUME NEW S, IsFiniteSet(S), NEW F \in [S -> Int], NEW G \in [S -> Int], NEW k \in S,
         \A i \in S \ {k} : G[i] = F[i]
  PROVE  SumFunction(G) = SumFunction(F) + (G[k] - F[k])
BY SumFunctionIsInteger, SumChanges

\* The function is extended.
LEMMA SumGains ==
  ASSUME NEW S, IsFiniteSet(S), NEW F \in [S -> Int], NEW k, k \notin S,
         NEW G \in [S \cup {k} -> Int], \A i \in S : G[i] = F[i]
  PROVE  SumFunction(G) = SumFunction(F) + G[k]
<1>1. IsFiniteSet(S \cup {k})
  BY FS_AddElement
<1>2. SumFunction(G) = Sum(G, S \cup {k})
  BY <1>1, SumFunctionIsInteger
<1>3. SumFunction(F) = Sum(F, S)
  BY SumFunctionIsInteger
<1> QED
  BY <1>2, <1>3, SumExtends

\* Zeros add up to zero: their sum is twice itself.
LEMMA SumOfZeros ==
  ASSUME NEW S, IsFiniteSet(S)
  PROVE  SumFunction([i \in S |-> 0]) = 0
<1> DEFINE Z == [i \in S |-> 0]
           W == [i \in S |-> Z[i] + Z[i]]
<1>1. Z \in [S -> Int] /\ W = Z
  OBVIOUS
<1> HIDE DEF Z
<1>2. Sum(W, S) = Sum(Z, S) + Sum(Z, S)
  BY <1>1, SumOfSums
<1>3. SumFunction(Z) \in Int /\ SumFunction(Z) = Sum(Z, S)
  BY <1>1, SumFunctionIsInteger
<1> HIDE DEF W
<1>4. Sum(Z, S) = Sum(Z, S) + Sum(Z, S)
  BY <1>1, <1>2
<1> DEFINE n == Sum(Z, S)
<1>5. n \in Int /\ n = n + n
  BY <1>3, <1>4
<1> HIDE DEF n
<1>6. n = 0
  BY <1>5
<1> QED
  BY <1>3, <1>6 DEF n, Z
-----------------------------------------------------------------------------
(* Accounting.  BalanceIsBacked is not inductive: a request that writes an old
   remainder over a newer one can give a row credits back, which a later request
   draws from a smaller snapshot.  What every step keeps is an account of the
   amounts, off by at most one amount for each request that was cut short: the balance
   is explained by the log, and so is what is left of it after all that was drawn. *)

\* The balance follows from the log.
Amounts == SumFunction([i \in Rows |-> transactions[i].amount])
UnloggedSum == SumFunction([w \in Workers |-> Unlogged(w)])
UnloggedCharges == SumFunction([w \in Workers |-> UnloggedCharge(w)])
UnchargedSum == SumFunction([w \in Workers |-> Uncharged(w)])
BackingSum == SumFunction([i \in Rows |-> Backing(i)])

\* The charges in the log.
Charged(i) == IF transactions[i].type = "USAGE" THEN -transactions[i].amount ELSE 0
ChargedSum == SumFunction([i \in Rows |-> Charged(i)])

\* All that was drawn.
TakenSum == SumFunction([i \in Rows |-> taken[i]])

\* The terms are integers.
TermsAreIntegers ==
  /\ IsFiniteSet(Rows) /\ Rows = 1..Len(transactions) /\ Len(transactions) \in Nat
  /\ \A i \in Rows : /\ transactions[i] \in Row /\ taken[i] \in Nat
                     /\ Charged(i) \in Int /\ Backing(i) \in Int
  /\ \A w \in Workers : Unlogged(w) \in Nat /\ UnloggedCharge(w) \in Nat /\ Uncharged(w) \in Nat

\* In a state that satisfies the inductive invariant they are.
LEMMA Terms == IInv => TermsAreIntegers
<1> SUFFICES ASSUME IInv
             PROVE  TermsAreIntegers
  OBVIOUS
<1>1. Rows = 1..Len(transactions) /\ Len(transactions) \in Nat
  BY LenProperties DEF IInv, TableFits, Rows
<1>2. IsFiniteSet(Rows)
  BY <1>1, FS_Interval
<1>3. \A i \in Rows : transactions[i] \in Row /\ taken[i] \in Nat
  BY <1>1, ElementOfSeq DEF IInv, TableFits
<1>4. \A i \in Rows : Charged(i) \in Int /\ Backing(i) \in Int
  BY <1>3 DEF Row, Charged, Backing
<1>5. ASSUME NEW w \in Workers
      PROVE  Unlogged(w) \in Nat /\ UnloggedCharge(w) \in Nat /\ Uncharged(w) \in Nat
  <2>1. /\ job[w].cost \in Nat /\ job[w].left \in Nat /\ job[w].debit \in Nat
        /\ job[w].left <= job[w].cost /\ FreeMonthlyCredits \in Nat
    BY LedgerAssumption DEF IInv, TypeOK, JobsAreTyped, JobTyped
  <2> QED
    BY <2>1 DEF Unlogged, UnloggedCharge, Uncharged
<1> QED
  BY <1>1, <1>2, <1>3, <1>4, <1>5 DEF TermsAreIntegers

\* Also after a step.
LEMMA TermsNext == IInv' => TermsAreIntegers'
BY Terms, PTL

\* What logCreditTransaction does to the table.
RowAdded(k, type, amount, expires) ==
  /\ Rows' = Rows \cup {k} /\ k \notin Rows /\ \A i \in Rows : i < k
  /\ \A i \in Rows : transactions'[i] = transactions[i] /\ taken'[i] = taken[i]
  /\ transactions'[k].type = type /\ transactions'[k].amount = amount
  /\ transactions'[k].remaining = amount /\ transactions'[k].expires = expires
  /\ transactions'[k].processed = Never /\ taken'[k] = 0

\* logCreditTransaction appends one row from which nothing was drawn yet.
LEMMA LogAddsRow ==
  ASSUME IInv, NEW type, NEW amount, NEW expires, Log(type, amount, expires)
  PROVE  RowAdded(Len(transactions) + 1, type, amount, expires)
<1> DEFINE k == Len(transactions) + 1
           row == [type |-> type, amount |-> amount, remaining |-> amount,
                   expires |-> expires, processed |-> Never]
<1>1. /\ transactions \in Seq(Row) /\ taken \in Seq(Nat) /\ Len(taken) = Len(transactions)
      /\ Rows = 1..Len(transactions) /\ Len(transactions) \in Nat
  BY Terms DEF IInv, TableFits, TermsAreIntegers
<1>2. transactions' = Append(transactions, row) /\ taken' = Append(taken, 0)
  BY DEF Log
<1>3. /\ row.type = type /\ row.amount = amount /\ row.remaining = amount
      /\ row.expires = expires /\ row.processed = Never
  OBVIOUS
<1> HIDE DEF row
<1>4. /\ transactions'[k] = row /\ taken'[k] = 0
      /\ \A i \in Rows : transactions'[i] = transactions[i] /\ taken'[i] = taken[i]
  BY <1>1, <1>2
<1>5. Rows' = Rows \cup {k} /\ k \notin Rows /\ \A i \in Rows : i < k
  <2>1. Rows' = 1..(Len(transactions) + 1)
    BY <1>1, <1>2 DEF Rows
  <2> QED
    BY <1>1, <2>1
<1> QED
  BY <1>3, <1>4, <1>5 DEF RowAdded

\* What the UPDATEs of the loops do to it: row i is left with rest, d was drawn.
RowWritten(i, rest, processed, d) ==
  /\ Rows' = Rows /\ i \in Rows
  /\ \A k \in Rows : /\ transactions'[k].type = transactions[k].type
                     /\ transactions'[k].amount = transactions[k].amount
                     /\ transactions'[k].expires = transactions[k].expires
  /\ \A k \in Rows \ {i} : transactions'[k] = transactions[k] /\ taken'[k] = taken[k]
  /\ transactions'[i].remaining = rest /\ transactions'[i].processed = processed
  /\ taken'[i] = taken[i] + d

\* A turn of the loop of consumeCredits writes one row of its snapshot and leaves it behind.
LEMMA DeductWritesRow ==
  ASSUME IInv, NEW w \in Workers, DeductFromGrant(w)
  PROVE  \E i \in DOMAIN job[w].snap : \E d \in Nat :
           /\ d <= job[w].snap[i] /\ d <= job[w].left
           /\ RowWritten(i, job[w].snap[i] - d, transactions[i].processed, d)
           /\ job'[w].snap = Without(job[w].snap, i) /\ job'[w].left = job[w].left - d
           /\ job'[w].cost = job[w].cost /\ job'[w].debit = job[w].debit
<1>1. /\ DOMAIN job = Workers /\ JobTyped(job[w]) /\ DOMAIN job[w].snap \subseteq Rows
      /\ transactions \in Seq(Row) /\ taken \in Seq(Nat) /\ Len(taken) = Len(transactions)
      /\ Rows = 1..Len(transactions) /\ \A i \in Rows : transactions[i] \in Row /\ taken[i] \in Nat
  BY Terms DEF IInv, TypeOK, JobsAreTyped, TableFits, TermsAreIntegers
<1>2. job[w].left \in Nat /\ job[w].snap \in [DOMAIN job[w].snap -> Nat \ {0}]
  BY <1>1 DEF JobTyped
<1> DEFINE Deducted(i) == Lesser(job[w].snap[i], job[w].left)
           Left(i) == [transactions[i] EXCEPT !.remaining = job[w].snap[i] - Deducted(i)]
<1>3. PICK i \in DOMAIN job[w].snap :
        /\ transactions' = [transactions EXCEPT ![i] = Left(i)]
        /\ taken' = [taken EXCEPT ![i] = @ + Deducted(i)]
        /\ job' = [job EXCEPT ![w].left = @ - Deducted(i), ![w].snap = Without(@, i)]
  BY DEF DeductFromGrant, Rest
<1>4. Deducted(i) \in Nat /\ Deducted(i) <= job[w].snap[i] /\ Deducted(i) <= job[w].left
  BY <1>2, LesserIsLesser
<1> HIDE DEF Deducted
<1>5. i \in Rows /\ transactions[i] \in Row
  BY <1>1
<1>6. /\ Left(i).type = transactions[i].type /\ Left(i).amount = transactions[i].amount
      /\ Left(i).expires = transactions[i].expires
      /\ Left(i).processed = transactions[i].processed
      /\ Left(i).remaining = job[w].snap[i] - Deducted(i)
  BY <1>5 DEF Row
<1>7. /\ job'[w].snap = Without(job[w].snap, i) /\ job'[w].left = job[w].left - Deducted(i)
      /\ job'[w].cost = job[w].cost /\ job'[w].debit = job[w].debit
  BY <1>1, <1>3 DEF JobTyped
<1> HIDE DEF Left
<1>8. Rows' = Rows
  BY <1>1, <1>3 DEF Rows
<1>9. /\ transactions'[i] = Left(i) /\ taken'[i] = taken[i] + Deducted(i)
      /\ \A k \in Rows \ {i} : transactions'[k] = transactions[k] /\ taken'[k] = taken[k]
  BY <1>1, <1>3, <1>5
<1>10. RowWritten(i, job[w].snap[i] - Deducted(i), transactions[i].processed, Deducted(i))
  BY <1>5, <1>6, <1>8, <1>9 DEF RowWritten
<1> QED
  BY <1>4, <1>7, <1>10

\* A turn of the loop of processExpiredCredits empties one row of its snapshot.
LEMMA ExpireWritesRow ==
  ASSUME IInv, NEW w \in Workers, ExpireGrant(w)
  PROVE  \E i \in DOMAIN job[w].snap :
           /\ RowWritten(i, 0, job[w].at, job[w].snap[i])
           /\ job'[w].snap = Without(job[w].snap, i)
           /\ job'[w].debit = job[w].snap[i] /\ job'[w].cost = job[w].cost
<1>1. /\ DOMAIN job = Workers /\ JobTyped(job[w]) /\ DOMAIN job[w].snap \subseteq Rows
      /\ transactions \in Seq(Row) /\ taken \in Seq(Nat) /\ Len(taken) = Len(transactions)
      /\ Rows = 1..Len(transactions) /\ \A i \in Rows : transactions[i] \in Row /\ taken[i] \in Nat
  BY Terms DEF IInv, TypeOK, JobsAreTyped, TableFits, TermsAreIntegers
<1> DEFINE Spent(i) == [transactions[i] EXCEPT !.remaining = 0, !.processed = job[w].at]
<1>2. PICK i \in DOMAIN job[w].snap :
        /\ transactions' = [transactions EXCEPT ![i] = Spent(i)]
        /\ taken' = [taken EXCEPT ![i] = @ + job[w].snap[i]]
        /\ job' = [job EXCEPT ![w].debit = job[w].snap[i], ![w].snap = Without(@, i)]
  BY DEF ExpireGrant, Expire
<1>3. i \in Rows /\ transactions[i] \in Row
  BY <1>1
<1>4. /\ Spent(i).type = transactions[i].type /\ Spent(i).amount = transactions[i].amount
      /\ Spent(i).expires = transactions[i].expires
      /\ Spent(i).processed = job[w].at /\ Spent(i).remaining = 0
  BY <1>3 DEF Row
<1>5. /\ job'[w].snap = Without(job[w].snap, i)
      /\ job'[w].debit = job[w].snap[i] /\ job'[w].cost = job[w].cost
  BY <1>1, <1>2 DEF JobTyped
<1> HIDE DEF Spent
<1>6. Rows' = Rows
  BY <1>1, <1>2 DEF Rows
<1>7. /\ transactions'[i] = Spent(i) /\ taken'[i] = taken[i] + job[w].snap[i]
      /\ \A k \in Rows \ {i} : transactions'[k] = transactions[k] /\ taken'[k] = taken[k]
  BY <1>1, <1>2, <1>3
<1>8. RowWritten(i, 0, job[w].at, job[w].snap[i])
  BY <1>3, <1>4, <1>6, <1>7 DEF RowWritten
<1> QED
  BY <1>5, <1>8

\* So are the sums.
LEMMA Totals ==
  ASSUME IInv
  PROVE  /\ Amounts \in Int /\ ChargedSum \in Int /\ TakenSum \in Int /\ BackingSum \in Int
         /\ UnloggedSum \in Int /\ UnloggedCharges \in Int /\ UnchargedSum \in Int
<1>1. /\ [i \in Rows |-> transactions[i].amount] \in [Rows -> Int]
      /\ [i \in Rows |-> Charged(i)] \in [Rows -> Int]
      /\ [i \in Rows |-> taken[i]] \in [Rows -> Int]
      /\ [i \in Rows |-> Backing(i)] \in [Rows -> Int]
  BY Terms DEF TermsAreIntegers, Row
<1>2. /\ [w \in Workers |-> Unlogged(w)] \in [Workers -> Int]
      /\ [w \in Workers |-> UnloggedCharge(w)] \in [Workers -> Int]
      /\ [w \in Workers |-> Uncharged(w)] \in [Workers -> Int]
  BY Terms DEF TermsAreIntegers
<1>3. IsFiniteSet(Rows) /\ IsFiniteSet(Workers)
  BY Terms, LedgerAssumption DEF TermsAreIntegers
<1>4. Amounts \in Int /\ ChargedSum \in Int /\ TakenSum \in Int /\ BackingSum \in Int
  BY <1>1, <1>3, SumFunctionIsInteger DEF Amounts, ChargedSum, TakenSum, BackingSum
<1> QED
  BY <1>2, <1>3, <1>4, SumFunctionIsInteger DEF UnloggedSum, UnloggedCharges, UnchargedSum

\* A new row of the log adds its amount.
LEMMA LogSums ==
  ASSUME IInv, NEW k, NEW type, NEW amount \in Int, NEW expires,
         RowAdded(k, type, amount, expires)
  PROVE  /\ Amounts' = Amounts + amount
         /\ ChargedSum' = ChargedSum + (IF type = "USAGE" THEN -amount ELSE 0)
         /\ TakenSum' = TakenSum
<1> DEFINE A == [i \in Rows |-> transactions[i].amount]
           C == [i \in Rows |-> Charged(i)]
           T == [i \in Rows |-> taken[i]]
           A2 == [i \in Rows' |-> transactions'[i].amount]
           C2 == [i \in Rows' |-> Charged(i)']
           T2 == [i \in Rows' |-> taken'[i]]
<1>1. IsFiniteSet(Rows) /\ k \notin Rows /\ Rows' = Rows \cup {k}
  BY Terms DEF TermsAreIntegers, RowAdded
<1>2. A \in [Rows -> Int] /\ C \in [Rows -> Int] /\ T \in [Rows -> Int]
  BY Terms DEF TermsAreIntegers, Row
<1>3. /\ A2[k] = amount /\ C2[k] = (IF type = "USAGE" THEN -amount ELSE 0) /\ T2[k] = 0
      /\ \A i \in Rows : A2[i] = A[i] /\ C2[i] = C[i] /\ T2[i] = T[i]
  BY DEF RowAdded, Charged
<1>4. A2 \in [Rows \cup {k} -> Int] /\ C2 \in [Rows \cup {k} -> Int] /\ T2 \in [Rows \cup {k} -> Int]
  <2>1. \A i \in Rows' : i = k \/ i \in Rows
    BY <1>1
  <2> QED
    BY <1>1, <1>2, <1>3, <2>1
<1>5. /\ Amounts = SumFunction(A) /\ ChargedSum = SumFunction(C) /\ TakenSum = SumFunction(T)
      /\ Amounts' = SumFunction(A2) /\ ChargedSum' = SumFunction(C2) /\ TakenSum' = SumFunction(T2)
  BY DEF Amounts, ChargedSum, TakenSum
<1> HIDE DEF A, C, T, A2, C2, T2
<1>6. IsFiniteSet(Rows) /\ k \notin Rows
  BY <1>1
<1>7. SumFunction(A2) = SumFunction(A) + A2[k]
  <2>1. A \in [Rows -> Int] /\ A2 \in [Rows \cup {k} -> Int] /\ \A i \in Rows : A2[i] = A[i]
    BY <1>2, <1>3, <1>4
  <2> QED
    BY <1>6, <2>1, SumGains
<1>8. SumFunction(C2) = SumFunction(C) + C2[k]
  <2>1. C \in [Rows -> Int] /\ C2 \in [Rows \cup {k} -> Int] /\ \A i \in Rows : C2[i] = C[i]
    BY <1>2, <1>3, <1>4
  <2> QED
    BY <1>6, <2>1, SumGains
<1>9. SumFunction(T2) = SumFunction(T) + T2[k]
  <2>1. T \in [Rows -> Int] /\ T2 \in [Rows \cup {k} -> Int] /\ \A i \in Rows : T2[i] = T[i]
    BY <1>2, <1>3, <1>4
  <2> QED
    BY <1>6, <2>1, SumGains
<1>10. TakenSum \in Int
  BY Totals
<1> QED
  BY <1>3, <1>5, <1>7, <1>8, <1>9, <1>10

\* A draw from a row changes what was drawn, and no amount.
LEMMA DrawSums ==
  ASSUME IInv, NEW i, NEW rest, NEW processed, NEW d \in Nat, RowWritten(i, rest, processed, d)
  PROVE  Amounts' = Amounts /\ ChargedSum' = ChargedSum /\ TakenSum' = TakenSum + d
<1> DEFINE T == [k \in Rows |-> taken[k]]
           T2 == [k \in Rows' |-> taken'[k]]
<1>1. /\ Rows' = Rows /\ i \in Rows /\ IsFiniteSet(Rows)
      /\ \A k \in Rows : taken[k] \in Nat
  BY Terms DEF TermsAreIntegers, RowWritten
<1>2. /\ [k \in Rows' |-> transactions'[k].amount] = [k \in Rows |-> transactions[k].amount]
      /\ [k \in Rows' |-> Charged(k)'] = [k \in Rows |-> Charged(k)]
  BY DEF RowWritten, Charged
<1>3. Amounts' = Amounts /\ ChargedSum' = ChargedSum
  BY <1>2 DEF Amounts, ChargedSum
<1>4. /\ T \in [Rows -> Int] /\ T2 \in [Rows -> Int] /\ T2[i] = T[i] + d
      /\ \A k \in Rows \ {i} : T2[k] = T[k]
  <2>1. \A k \in Rows : taken'[k] = IF k = i THEN taken[k] + d ELSE taken[k]
    BY DEF RowWritten
  <2> QED
    BY <1>1, <2>1
<1>5. TakenSum = SumFunction(T) /\ TakenSum' = SumFunction(T2)
  BY DEF TakenSum
<1> HIDE DEF T, T2
<1>6. SumFunction(T2) = SumFunction(T) + (T2[i] - T[i])
  BY <1>1, <1>4, SumMoves
<1>7. T[i] \in Int /\ TakenSum \in Int
  BY <1>1, <1>4, Totals
<1> QED
  BY <1>3, <1>4, <1>5, <1>6, <1>7

\* A step that leaves the rows alone leaves their sums alone.
LEMMA RowSumsStay ==
  ASSUME UNCHANGED <<transactions, taken>>
  PROVE  Amounts' = Amounts /\ ChargedSum' = ChargedSum /\ TakenSum' = TakenSum
BY DEF Amounts, ChargedSum, TakenSum, Charged, Rows

\* A step of one request changes the terms of that request only.
OnlyMoves(w) ==
  /\ DOMAIN pc' = Workers /\ DOMAIN job' = Workers
  /\ \A v \in Workers \ {w} : pc'[v] = pc[v] /\ job'[v] = job[v]

\* Every action of a request is one of that request.
LEMMA RequestsMoveAlone ==
  ASSUME IInv, NEW w \in Workers, RecordUsage(w) \/ Refresh(w) \/ Purchase(w) \/ Abort(w)
  PROVE  OnlyMoves(w)
<1>1. DOMAIN pc = Workers /\ DOMAIN job = Workers
  BY DEF IInv, TypeOK, JobsAreTyped
<1>2. CASE RecordUsage(w)
  <2>1. CASE ReadBalance(w) \/ SelectActive(w) \/ DeductFromGrant(w) \/ ChargeBalance(w)
    BY <1>1, <2>1 DEF OnlyMoves, ReadBalance, SelectActive, DeductFromGrant, ChargeBalance, Goto
  <2>2. CASE LogUsage(w) \/ InsertEvent(w) \/ AddToDaily(w) \/ MirrorCredits(w)
    BY <1>1, <2>2 DEF OnlyMoves, LogUsage, InsertEvent, AddToDaily, MirrorCredits, Goto, Finish
  <2> QED
    BY <1>2, <2>1, <2>2 DEF RecordUsage
<1>3. CASE Refresh(w)
  <2>1. CASE ReadRefreshState(w) \/ SelectExpired(w) \/ ExpireGrant(w) \/ DebitExpired(w)
    BY <1>1, <2>1 DEF OnlyMoves, ReadRefreshState, SelectExpired, ExpireGrant, DebitExpired, Goto
  <2>2. CASE GrantMonthly(w) \/ LogMonthly(w) \/ MarkRefreshed(w)
    BY <1>1, <2>2 DEF OnlyMoves, GrantMonthly, LogMonthly, MarkRefreshed, Goto, Finish
  <2> QED
    BY <1>3, <2>1, <2>2 DEF Refresh
<1>4. CASE Purchase(w) \/ Abort(w)
  BY <1>1, <1>4 DEF OnlyMoves, Purchase, PurchaseBalance, LogPurchase, Abort, Finish
<1> QED
  BY <1>2, <1>3, <1>4

\* A finite set of numbers has a largest one.
LEMMA LargestExists ==
  ASSUME NEW S, \A n \in S : n \in Nat, IsFiniteSet(S), S # {}
  PROVE  Max(S) \in S /\ \A n \in S : Max(S) >= n
<1> DEFINE Above(m) == {n \in S : n >= m}
           T == {Above(m) : m \in S}
<1>1. IsFiniteSet(S) /\ \A n \in S : n \in Nat
  OBVIOUS
<1>2. T \subseteq SUBSET S /\ T # {}
  OBVIOUS
<1> HIDE DEF T, Above
<1>3. \E x \in T : \A y \in T : ~(y \subseteq x /\ y # x)
  BY <1>1, <1>2, SmallestSet
<1>4. PICK x \in T : \A y \in T : ~(y \subseteq x /\ y # x)
  BY <1>3
<1>5. PICK m \in S : x = Above(m)
  BY DEF T
<1>6. ASSUME NEW n \in S, n > m
      PROVE  FALSE
  <2>1. m \in Nat /\ n \in Nat
    BY <1>1
  <2>2. Above(n) \subseteq Above(m)
    <3> SUFFICES ASSUME NEW k \in S, k >= n
                 PROVE  k >= m
      BY DEF Above
    <3>1. k \in Nat
      BY <1>1
    <3> QED
      BY <1>6, <2>1, <3>1
  <2>3. m \in Above(m) /\ m \notin Above(n)
    BY <1>6, <2>1 DEF Above
  <2>4. Above(n) \in T
    BY DEF T
  <2> QED
    BY <1>4, <1>5, <2>2, <2>3, <2>4
<1>7. \E a \in S : \A b \in S : a >= b
  <2> SUFFICES ASSUME NEW n \in S
               PROVE  m >= n
    OBVIOUS
  <2>1. m \in Nat /\ n \in Nat
    BY <1>1
  <2> QED
    BY <1>6, <2>1
<1> QED
  BY <1>7 DEF Max

\* LargestAmount bounds what requests move.
LEMMA LargestIsLargest ==
  /\ LargestAmount \in Nat /\ FreeMonthlyCredits <= LargestAmount
  /\ \A c \in Costs \cup Purchases : c <= LargestAmount
<1> DEFINE S == Costs \cup Purchases \cup {FreeMonthlyCredits}
<1>1. FreeMonthlyCredits \in S /\ \A n \in S : n \in Nat
  BY LedgerAssumption
<1>2. IsFiniteSet(S)
  BY LedgerAssumption, FS_Union, FS_AddElement
<1>3. Max(S) \in S /\ \A n \in S : Max(S) >= n
  <2> HIDE DEF S
  <2> QED
    BY <1>1, <1>2, LargestExists
<1>4. LargestAmount = Max(S)
  BY DEF LargestAmount
<1> QED
  BY <1>1, <1>3, <1>4

\* Requests and rows are of those amounts.
JobIsSized(j) == j.cost <= LargestAmount /\ j.debit <= LargestAmount

Sizes ==
  /\ \A i \in Rows : transactions[i].amount <= LargestAmount
  /\ \A w \in Workers : JobIsSized(job[w])

\* Every step of a request keeps it so.
LEMMA StepKeepsSizes ==
  ASSUME IInv, Sizes, NEW w \in Workers,
         RecordUsage(w) \/ Refresh(w) \/ Purchase(w) \/ Abort(w)
  PROVE  Sizes'
<1>1. OnlyMoves(w)
  BY RequestsMoveAlone
<1>2. /\ DOMAIN pc = Workers /\ DOMAIN job = Workers /\ JobTyped(job[w])
      /\ LargestAmount \in Nat /\ JobIsSized(job[w])
  BY LargestIsLargest DEF IInv, TypeOK, JobsAreTyped, Sizes
<1>3. job[w].cost \in Nat
  BY <1>2 DEF JobTyped
<1> DEFINE RowsAreSized == \A i \in Rows : transactions[i].amount <= LargestAmount
<1>4. ASSUME RowsAreSized', JobIsSized(job'[w])
      PROVE  Sizes'
  <2>1. ASSUME NEW v \in Workers
        PROVE  JobIsSized(job'[v])
    <3>1. CASE v = w
      BY <1>4, <3>1
    <3>2. CASE v # w
      BY <1>1, <3>2 DEF OnlyMoves, Sizes
    <3> QED
      BY <3>1, <3>2
  <2> QED
    BY <1>4, <2>1 DEF Sizes
<1>5. UNCHANGED transactions => RowsAreSized'
  BY DEF Sizes, Rows
<1>6. ASSUME NEW type, NEW amount \in Int, NEW expires, Log(type, amount, expires),
             amount <= LargestAmount
      PROVE  RowsAreSized'
  <2> DEFINE k == Len(transactions) + 1
  <2>1. RowAdded(k, type, amount, expires)
    BY <1>6, LogAddsRow
  <2> HIDE DEF k
  <2> QED
    BY <1>6, <2>1 DEF RowAdded, Sizes
<1>7. ASSUME NEW i, NEW rest, NEW processed, NEW d, RowWritten(i, rest, processed, d)
      PROVE  RowsAreSized'
  BY <1>7 DEF RowWritten, Sizes
<1>8. ASSUME NEW c \in Nat, c <= LargestAmount, NEW at, NEW read, NEW left
      PROVE  JobIsSized(NewJob(c, at, read, left))
  BY <1>2, <1>8 DEF NewJob, JobIsSized
<1>9. JobIsSized(IdleJob)
  BY <1>2, <1>8 DEF IdleJob
<1>10. CASE ReadBalance(w)
  <2>1. PICK c \in Costs : UNCHANGED job \/ job' = [job EXCEPT ![w] = NewJob(c, 0, currentCredits, c)]
    BY <1>10 DEF ReadBalance
  <2>2. JobIsSized(NewJob(c, 0, currentCredits, c))
    BY <1>8, LargestIsLargest, LedgerAssumption
  <2>3. JobIsSized(job'[w])
    BY <1>2, <2>1, <2>2
  <2> QED
    BY <1>4, <1>5, <1>10, <2>3 DEF ReadBalance, accountVars
<1>11. CASE SelectActive(w) \/ SelectExpired(w)
  <2>1. UNCHANGED transactions /\ job'[w].cost = job[w].cost /\ job'[w].debit = job[w].debit
    BY <1>2, <1>11 DEF SelectActive, SelectExpired, accountVars, JobTyped
  <2> QED
    BY <1>2, <1>4, <1>5, <2>1 DEF JobIsSized
<1>12. CASE DeductFromGrant(w)
  <2>1. PICK i \in DOMAIN job[w].snap : \E d \in Nat :
          /\ RowWritten(i, job[w].snap[i] - d, transactions[i].processed, d)
          /\ job'[w].cost = job[w].cost /\ job'[w].debit = job[w].debit
    BY <1>12, DeductWritesRow
  <2>2. RowsAreSized'
    BY <1>7, <2>1
  <2> QED
    BY <1>2, <1>4, <2>1, <2>2 DEF JobIsSized
<1>13. CASE ChargeBalance(w) \/ InsertEvent(w) \/ GrantMonthly(w)
  <2>1. UNCHANGED <<transactions, job>>
    BY <1>13 DEF ChargeBalance, InsertEvent, GrantMonthly, accountVars
  <2> QED
    BY <1>2, <1>4, <1>5, <2>1
<1>14. CASE LogUsage(w)
  <2> DEFINE n == -job[w].cost
  <2>1. n \in Int /\ n <= LargestAmount /\ Log("USAGE", n, Never) /\ UNCHANGED job
    BY <1>2, <1>3, <1>14 DEF LogUsage
  <2> HIDE DEF n
  <2> QED
    BY <1>2, <1>4, <1>6, <2>1
<1>15. CASE AddToDaily(w) \/ MirrorCredits(w) \/ MarkRefreshed(w) \/ Abort(w)
  <2>1. UNCHANGED transactions /\ (job' = job \/ job' = [job EXCEPT ![w] = IdleJob])
    BY <1>15 DEF AddToDaily, MirrorCredits, MarkRefreshed, Abort, Finish, accountVars
  <2>2. JobIsSized(job'[w])
    BY <1>2, <1>9, <2>1
  <2> QED
    BY <1>4, <1>5, <2>1, <2>2
<1>16. CASE ReadRefreshState(w)
  <2>1. UNCHANGED transactions /\ (job' = job \/ job' = [job EXCEPT ![w] = NewJob(0, now, 0, 0)])
    BY <1>16 DEF ReadRefreshState, accountVars
  <2>2. JobIsSized(job'[w])
    BY <1>2, <1>8, <2>1
  <2> QED
    BY <1>4, <1>5, <2>1, <2>2
<1>17. CASE ExpireGrant(w)
  <2>1. PICK i \in DOMAIN job[w].snap :
          /\ RowWritten(i, 0, job[w].at, job[w].snap[i])
          /\ job'[w].debit = job[w].snap[i] /\ job'[w].cost = job[w].cost
    BY <1>17, ExpireWritesRow
  <2>2. RowsAreSized'
    BY <1>7, <2>1
  <2>3. job[w].snap[i] \in Nat /\ i \in Rows /\ transactions[i] \in Row
    BY <1>2, Terms DEF JobTyped, IInv, TypeOK, JobsAreTyped, TermsAreIntegers
  <2>4. job[w].snap[i] <= transactions[i].amount /\ transactions[i].amount <= LargestAmount
    BY <2>3 DEF IInv, JobsFit, SnapFits, Sizes
  <2>5. job[w].snap[i] <= LargestAmount
    BY <1>2, <2>3, <2>4 DEF Row
  <2> QED
    BY <1>2, <1>4, <2>1, <2>2, <2>5 DEF JobIsSized
<1>18. CASE DebitExpired(w)
  <2>1. UNCHANGED transactions /\ job'[w].cost = job[w].cost /\ job'[w].debit = 0
    BY <1>2, <1>18 DEF DebitExpired, JobTyped
  <2> QED
    BY <1>2, <1>4, <1>5, <2>1 DEF JobIsSized
<1>19. CASE LogMonthly(w)
  <2> DEFINE until == job[w].at + Month
  <2>1. Log("MONTHLY_REFRESH", FreeMonthlyCredits, until) /\ UNCHANGED job
    BY <1>19 DEF LogMonthly
  <2> HIDE DEF until
  <2>2. FreeMonthlyCredits \in Int /\ FreeMonthlyCredits <= LargestAmount
    BY LargestIsLargest, LedgerAssumption
  <2> QED
    BY <1>2, <1>4, <1>6, <2>1, <2>2
<1>20. CASE PurchaseBalance(w)
  <2>1. PICK n \in Purchases : job' = [job EXCEPT ![w] = NewJob(n, 0, 0, 0)]
    BY <1>20 DEF PurchaseBalance
  <2>2. JobIsSized(NewJob(n, 0, 0, 0))
    BY <1>8, LargestIsLargest, LedgerAssumption
  <2>3. JobIsSized(job'[w])
    BY <1>2, <2>1, <2>2
  <2> QED
    BY <1>4, <1>5, <1>20, <2>3 DEF PurchaseBalance
<1>21. CASE LogPurchase(w)
  <2>1. Log("PURCHASE", job[w].cost, Never) /\ job' = [job EXCEPT ![w] = IdleJob]
    BY <1>21 DEF LogPurchase, Finish
  <2>2. JobIsSized(job'[w])
    BY <1>2, <1>9, <2>1
  <2>3. RowsAreSized'
    BY <1>2, <1>3, <1>6, <2>1 DEF JobIsSized
  <2> QED
    BY <1>4, <2>2, <2>3
<1> QED
  BY <1>10, <1>11, <1>12, <1>13, <1>14, <1>15, <1>16, <1>17, <1>18, <1>19, <1>20, <1>21
     DEF RecordUsage, Refresh, Purchase

\* So they are in every reachable state.
LEMMA SizesInvariance == Spec => []Sizes
<1>1. Init => Sizes
  BY LargestIsLargest DEF Init, Sizes, JobIsSized, IdleJob, NewJob, Rows
<1>2. IInv /\ Sizes /\ [Next]_vars => Sizes'
  <2> SUFFICES ASSUME IInv, Sizes, [Next]_vars
               PROVE  Sizes'
    OBVIOUS
  <2>1. CASE Tick \/ UNCHANGED vars
    BY <2>1 DEF Tick, vars, accountVars, Sizes, Rows
  <2> QED
    BY <2>1, StepKeepsSizes DEF Next
<1> QED
  BY <1>1, <1>2, Invariance, PTL DEF Spec

\* What a request is about to log or charge, all told, is one of those amounts.
LEMMA TermsAreSized ==
  ASSUME IInv, Sizes, NEW w \in Workers
  PROVE  Unlogged(w) + Uncharged(w) <= LargestAmount /\ UnloggedCharge(w) <= LargestAmount
<1>1. /\ job[w].cost \in Nat /\ job[w].left \in Nat /\ job[w].debit \in Nat
      /\ job[w].left <= job[w].cost /\ JobIsSized(job[w])
      /\ LargestAmount \in Nat /\ FreeMonthlyCredits <= LargestAmount
      /\ FreeMonthlyCredits \in Nat
  BY LargestIsLargest, LedgerAssumption DEF IInv, TypeOK, JobsAreTyped, JobTyped, Sizes
<1> QED
  BY <1>1 DEF JobIsSized, Unlogged, Uncharged, UnloggedCharge

\* So each sum over the requests moves by what that request's term moves.
LEMMA WorkerSums ==
  ASSUME IInv, IInv', NEW w \in Workers, OnlyMoves(w)
  PROVE  /\ UnloggedSum' = UnloggedSum + (Unlogged(w)' - Unlogged(w))
         /\ UnloggedCharges' = UnloggedCharges + (UnloggedCharge(w)' - UnloggedCharge(w))
         /\ UnchargedSum' = UnchargedSum + (Uncharged(w)' - Uncharged(w))
<1> DEFINE U == [v \in Workers |-> Unlogged(v)]
           C == [v \in Workers |-> UnloggedCharge(v)]
           X == [v \in Workers |-> Uncharged(v)]
           U2 == [v \in Workers |-> Unlogged(v)']
           C2 == [v \in Workers |-> UnloggedCharge(v)']
           X2 == [v \in Workers |-> Uncharged(v)']
<1>1. U \in [Workers -> Int] /\ C \in [Workers -> Int] /\ X \in [Workers -> Int]
  BY Terms DEF TermsAreIntegers
<1>2. \A v \in Workers : Unlogged(v)' \in Nat /\ UnloggedCharge(v)' \in Nat /\ Uncharged(v)' \in Nat
  BY TermsNext DEF TermsAreIntegers
<1>3. U2 \in [Workers -> Int] /\ C2 \in [Workers -> Int] /\ X2 \in [Workers -> Int]
  BY <1>2
<1>4. ASSUME NEW v \in Workers \ {w}
      PROVE  U2[v] = U[v] /\ C2[v] = C[v] /\ X2[v] = X[v]
  BY DEF OnlyMoves, Unlogged, UnloggedCharge, Uncharged
<1>5. /\ UnloggedSum = SumFunction(U) /\ UnloggedSum' = SumFunction(U2)
      /\ UnloggedCharges = SumFunction(C) /\ UnloggedCharges' = SumFunction(C2)
      /\ UnchargedSum = SumFunction(X) /\ UnchargedSum' = SumFunction(X2)
  BY DEF UnloggedSum, UnloggedCharges, UnchargedSum
<1>6. /\ U[w] = Unlogged(w) /\ U2[w] = Unlogged(w)' /\ C[w] = UnloggedCharge(w)
      /\ C2[w] = UnloggedCharge(w)' /\ X[w] = Uncharged(w) /\ X2[w] = Uncharged(w)'
  OBVIOUS
<1> HIDE DEF U, C, X, U2, C2, X2
<1>7. /\ SumFunction(U2) = SumFunction(U) + (U2[w] - U[w])
      /\ SumFunction(C2) = SumFunction(C) + (C2[w] - C[w])
      /\ SumFunction(X2) = SumFunction(X) + (X2[w] - X[w])
  BY <1>1, <1>3, <1>4, LedgerAssumption, SumMoves
<1> QED
  BY <1>5, <1>6, <1>7

\* What the requests that were cut short can have misplaced.
Slack == failures * LargestAmount

\* It grows by one amount with each of them.
LEMMA SlackGrows ==
  ASSUME IInv
  PROVE  /\ Slack \in Nat
         /\ failures' = failures => Slack' = Slack
         /\ failures' = failures + 1 => Slack' = Slack + LargestAmount
<1>1. failures \in Nat /\ LargestAmount \in Nat
  BY LargestIsLargest DEF IInv, TypeOK
<1>2. \A m, n \in Nat : m * n \in Nat /\ (m + 1) * n = m * n + n
  OBVIOUS
<1> QED
  BY <1>1, <1>2 DEF Slack

\* The two accounts.
Explained == Amounts - expiredDebits + UnloggedSum - UnloggedCharges

Accounts ==
  /\ Explained - Slack <= currentCredits /\ currentCredits <= Explained + Slack
  /\ currentCredits + TakenSum <= Amounts + ChargedSum + UnloggedSum + UnchargedSum + Slack

\* A step keeps the accounts when what it adds to the balance is what it adds to
\* the other terms: a to the amounts, -e for what expires, and the request's terms;
\* and when what it draws, t, is charged (c) or expired or is a term of the request.
LEMMA EntriesBalance ==
  ASSUME IInv, IInv', Accounts, NEW w \in Workers, OnlyMoves(w), failures' = failures,
         NEW a \in Int, NEW c \in Int, NEW t \in Int, NEW e \in Int,
         Amounts' = Amounts + a, ChargedSum' = ChargedSum + c, TakenSum' = TakenSum + t,
         expiredDebits' = expiredDebits + e,
         currentCredits' = currentCredits + a - e + (Unlogged(w)' - Unlogged(w))
                             - (UnloggedCharge(w)' - UnloggedCharge(w)),
         t <= c + e + (UnloggedCharge(w)' - UnloggedCharge(w)) + (Uncharged(w)' - Uncharged(w))
  PROVE  Accounts'
<1> DEFINE u == Unlogged(w)' - Unlogged(w)
           v == UnloggedCharge(w)' - UnloggedCharge(w)
           x == Uncharged(w)' - Uncharged(w)
<1>1. u \in Int /\ v \in Int /\ x \in Int
  <2>1. Unlogged(w) \in Nat /\ UnloggedCharge(w) \in Nat /\ Uncharged(w) \in Nat
    BY Terms DEF TermsAreIntegers
  <2>2. Unlogged(w)' \in Nat /\ UnloggedCharge(w)' \in Nat /\ Uncharged(w)' \in Nat
    BY TermsNext DEF TermsAreIntegers
  <2> QED
    BY <2>1, <2>2
<1>2. /\ UnloggedSum' = UnloggedSum + u /\ UnloggedCharges' = UnloggedCharges + v
      /\ UnchargedSum' = UnchargedSum + x
  BY WorkerSums
<1>3. currentCredits' = currentCredits + a - e + u - v /\ t <= c + e + v + x
  OBVIOUS
<1> HIDE DEF u, v, x
<1>4. /\ Amounts \in Int /\ ChargedSum \in Int /\ TakenSum \in Int
      /\ UnloggedSum \in Int /\ UnloggedCharges \in Int /\ UnchargedSum \in Int
  BY Totals
<1>5. /\ currentCredits \in Int /\ expiredDebits \in Int
      /\ Slack \in Nat /\ Slack' = Slack
  BY SlackGrows DEF IInv, TypeOK
<1> QED
  BY <1>1, <1>2, <1>3, <1>4, <1>5 DEF Accounts, Explained

\* Rows and balance stay, and so do the request's terms, but for a part of a charge
\* that no row covered.
LEMMA NoEntry ==
  ASSUME IInv, IInv', Accounts, NEW w \in Workers, OnlyMoves(w),
         UNCHANGED <<currentCredits, transactions, taken, expiredDebits, failures>>,
         Unlogged(w)' = Unlogged(w), UnloggedCharge(w)' = UnloggedCharge(w),
         Uncharged(w)' >= Uncharged(w)
  PROVE  Accounts'
<1>1. Amounts' = Amounts /\ ChargedSum' = ChargedSum /\ TakenSum' = TakenSum
  BY RowSumsStay
<1>2. /\ Amounts \in Int /\ ChargedSum \in Int /\ TakenSum \in Int
      /\ currentCredits \in Int /\ expiredDebits \in Int
      /\ Unlogged(w) \in Int /\ UnloggedCharge(w) \in Int /\ Uncharged(w) \in Int
  BY Totals, Terms DEF IInv, TypeOK, TermsAreIntegers
<1>3. Uncharged(w)' \in Int
  BY TermsNext DEF TermsAreIntegers
<1>4. /\ Amounts' = Amounts + 0 /\ ChargedSum' = ChargedSum + 0 /\ TakenSum' = TakenSum + 0
      /\ expiredDebits' = expiredDebits + 0
      /\ currentCredits' = currentCredits + 0 - 0 + (Unlogged(w)' - Unlogged(w))
                             - (UnloggedCharge(w)' - UnloggedCharge(w))
      /\ 0 <= 0 + 0 + (UnloggedCharge(w)' - UnloggedCharge(w)) + (Uncharged(w)' - Uncharged(w))
  BY <1>1, <1>2, <1>3
<1> QED
  BY <1>4, EntriesBalance

\* The steps of recordUsage keep the accounts.
LEMMA UsageKeepsAccounts ==
  ASSUME IInv, IInv', Accounts, NEW w \in Workers, RecordUsage(w)
  PROVE  Accounts'
<1>1. OnlyMoves(w)
  BY RequestsMoveAlone
<1>2. /\ DOMAIN pc = Workers /\ DOMAIN job = Workers /\ JobTyped(job[w])
      /\ currentCredits \in Int /\ expiredDebits \in Int
  BY DEF IInv, TypeOK, JobsAreTyped
<1>3. /\ job[w].cost \in Nat /\ job[w].left \in Nat /\ job[w].debit \in Nat
      /\ job[w].left <= job[w].cost /\ job[w].snap \in [DOMAIN job[w].snap -> Nat \ {0}]
  BY <1>2 DEF JobTyped
<1>4. CASE ReadBalance(w)
  <2>1. /\ pc[w] = "idle" /\ pc'[w] \in {"idle", "event", "select"}
        /\ UNCHANGED <<currentCredits, transactions, taken, expiredDebits, failures>>
    BY <1>2, <1>4 DEF ReadBalance, Begin, accountVars, historyVars
  <2>2. /\ Unlogged(w) = 0 /\ UnloggedCharge(w) = 0 /\ Uncharged(w) = 0
        /\ Unlogged(w)' = 0 /\ UnloggedCharge(w)' = 0 /\ Uncharged(w)' = 0
    BY <2>1 DEF Unlogged, UnloggedCharge, Uncharged
  <2> QED
    BY <1>1, <2>1, <2>2, NoEntry
<1>5. CASE SelectActive(w)
  <2>1. /\ pc[w] = "select" /\ pc'[w] = "deduct"
        /\ UNCHANGED <<currentCredits, transactions, taken, expiredDebits, failures>>
    BY <1>2, <1>5 DEF SelectActive, Goto, accountVars, historyVars
  <2>2. job'[w].cost = job[w].cost /\ job'[w].left = job[w].left
    BY <1>2, <1>5 DEF SelectActive, JobTyped
  <2>3. /\ Unlogged(w) = 0 /\ UnloggedCharge(w) = 0 /\ Uncharged(w) = 0
        /\ Unlogged(w)' = 0 /\ UnloggedCharge(w)' = 0 /\ Uncharged(w)' = job[w].cost - job[w].left
    BY <2>1, <2>2 DEF Unlogged, UnloggedCharge, Uncharged
  <2>4. Uncharged(w)' >= Uncharged(w)
    BY <1>3, <2>3
  <2> QED
    BY <1>1, <2>1, <2>3, <2>4, NoEntry
<1>6. CASE DeductFromGrant(w)
  <2>1. PICK i \in DOMAIN job[w].snap, d \in Nat :
          /\ RowWritten(i, job[w].snap[i] - d, transactions[i].processed, d)
          /\ d <= job[w].left /\ job'[w].left = job[w].left - d /\ job'[w].cost = job[w].cost
    BY <1>6, DeductWritesRow
  <2>2. Amounts' = Amounts /\ ChargedSum' = ChargedSum /\ TakenSum' = TakenSum + d
    BY <2>1, DrawSums
  <2>3. /\ pc[w] = "deduct" /\ pc'[w] = "deduct"
        /\ UNCHANGED <<currentCredits, expiredDebits, failures>>
    BY <1>6 DEF DeductFromGrant
  <2>4. /\ Unlogged(w) = 0 /\ UnloggedCharge(w) = 0 /\ Uncharged(w) = job[w].cost - job[w].left
        /\ Unlogged(w)' = 0 /\ UnloggedCharge(w)' = 0
        /\ Uncharged(w)' = job[w].cost - (job[w].left - d)
    BY <2>1, <2>3 DEF Unlogged, UnloggedCharge, Uncharged
  <2>5. Amounts \in Int /\ ChargedSum \in Int
    BY Totals
  <2>6. /\ Amounts' = Amounts + 0 /\ ChargedSum' = ChargedSum + 0
        /\ expiredDebits' = expiredDebits + 0
        /\ currentCredits' = currentCredits + 0 - 0 + (Unlogged(w)' - Unlogged(w))
                               - (UnloggedCharge(w)' - UnloggedCharge(w))
        /\ d <= 0 + 0 + (UnloggedCharge(w)' - UnloggedCharge(w)) + (Uncharged(w)' - Uncharged(w))
    BY <1>2, <1>3, <2>1, <2>2, <2>3, <2>4, <2>5
  <2> QED
    BY <1>1, <2>2, <2>3, <2>6, EntriesBalance
<1>7. CASE ChargeBalance(w)
  <2>1. /\ pc[w] = "deduct" /\ pc'[w] = "logUsage" /\ job' = job
        /\ currentCredits' = currentCredits - job[w].cost
        /\ UNCHANGED <<transactions, taken, expiredDebits, failures>>
    BY <1>2, <1>7 DEF ChargeBalance, Goto, BalanceAfterCharge, historyVars
  <2>2. Amounts' = Amounts /\ ChargedSum' = ChargedSum /\ TakenSum' = TakenSum
    BY <2>1, RowSumsStay
  <2>3. /\ Unlogged(w) = 0 /\ UnloggedCharge(w) = 0 /\ Uncharged(w) = job[w].cost - job[w].left
        /\ Unlogged(w)' = 0 /\ UnloggedCharge(w)' = job[w].cost /\ Uncharged(w)' = 0
    BY <2>1 DEF Unlogged, UnloggedCharge, Uncharged
  <2>4. Amounts \in Int /\ ChargedSum \in Int /\ TakenSum \in Int
    BY Totals
  <2>5. /\ Amounts' = Amounts + 0 /\ ChargedSum' = ChargedSum + 0 /\ TakenSum' = TakenSum + 0
        /\ expiredDebits' = expiredDebits + 0
        /\ currentCredits' = currentCredits + 0 - 0 + (Unlogged(w)' - Unlogged(w))
                               - (UnloggedCharge(w)' - UnloggedCharge(w))
        /\ 0 <= 0 + 0 + (UnloggedCharge(w)' - UnloggedCharge(w)) + (Uncharged(w)' - Uncharged(w))
    BY <1>2, <1>3, <2>1, <2>2, <2>3, <2>4
  <2> QED
    BY <1>1, <2>1, <2>5, EntriesBalance
<1>8. CASE LogUsage(w)
  <2> DEFINE n == -job[w].cost
  <2>1. /\ pc[w] = "logUsage" /\ pc'[w] = "event" /\ job' = job /\ Log("USAGE", n, Never)
        /\ UNCHANGED <<currentCredits, expiredDebits, failures>>
    BY <1>2, <1>8 DEF LogUsage, Goto
  <2>2. n \in Int /\ "USAGE" \in Kinds
    BY <1>3 DEF Kinds
  <2>3. /\ Unlogged(w) = 0 /\ UnloggedCharge(w) = job[w].cost /\ Uncharged(w) = 0
        /\ Unlogged(w)' = 0 /\ UnloggedCharge(w)' = 0 /\ Uncharged(w)' = 0
    BY <2>1 DEF Unlogged, UnloggedCharge, Uncharged
  <2>4. Amounts' = Amounts + n /\ ChargedSum' = ChargedSum + (-n) /\ TakenSum' = TakenSum
    <3> HIDE DEF n
    <3> QED
      BY <2>1, <2>2, LogAddsRow, LogSums
  <2>5. TakenSum \in Int
    BY Totals
  <2>6. /\ TakenSum' = TakenSum + 0 /\ expiredDebits' = expiredDebits + 0
        /\ currentCredits' = currentCredits + n - 0 + (Unlogged(w)' - Unlogged(w))
                               - (UnloggedCharge(w)' - UnloggedCharge(w))
        /\ 0 <= (-n) + 0 + (UnloggedCharge(w)' - UnloggedCharge(w)) + (Uncharged(w)' - Uncharged(w))
        /\ -n \in Int
    BY <1>2, <1>3, <2>1, <2>3, <2>4, <2>5
  <2> HIDE DEF n
  <2> QED
    BY <1>1, <2>1, <2>2, <2>4, <2>6, EntriesBalance
<1>9. CASE InsertEvent(w) \/ AddToDaily(w) \/ MirrorCredits(w)
  <2>1. /\ pc[w] \in {"event", "daily", "mirror"} /\ pc'[w] \in {"daily", "mirror", "idle"}
        /\ UNCHANGED <<currentCredits, transactions, taken, expiredDebits, failures>>
    BY <1>2, <1>9 DEF InsertEvent, AddToDaily, MirrorCredits, Goto, Finish, accountVars, historyVars
  <2>2. /\ Unlogged(w) = 0 /\ UnloggedCharge(w) = 0 /\ Uncharged(w) = 0
        /\ Unlogged(w)' = 0 /\ UnloggedCharge(w)' = 0 /\ Uncharged(w)' = 0
    BY <2>1 DEF Unlogged, UnloggedCharge, Uncharged
  <2> QED
    BY <1>1, <2>1, <2>2, NoEntry
<1> QED
  BY <1>4, <1>5, <1>6, <1>7, <1>8, <1>9 DEF RecordUsage

\* The steps of a refresh keep the accounts.
LEMMA RefreshKeepsAccounts ==
  ASSUME IInv, IInv', Accounts, NEW w \in Workers, Refresh(w)
  PROVE  Accounts'
<1>1. OnlyMoves(w)
  BY RequestsMoveAlone
<1>2. /\ DOMAIN pc = Workers /\ DOMAIN job = Workers /\ JobTyped(job[w])
      /\ currentCredits \in Int /\ expiredDebits \in Int /\ FreeMonthlyCredits \in Nat
  BY LedgerAssumption DEF IInv, TypeOK, JobsAreTyped
<1>3. /\ job[w].debit \in Nat /\ job[w].snap \in [DOMAIN job[w].snap -> Nat \ {0}]
      /\ Amounts \in Int /\ ChargedSum \in Int /\ TakenSum \in Int
  BY <1>2, Totals DEF JobTyped
<1>4. CASE ReadRefreshState(w) \/ SelectExpired(w)
  <2>1. /\ pc[w] \in {"idle", "selectExpired"} /\ pc'[w] \in {"idle", "selectExpired", "expire"}
        /\ UNCHANGED <<currentCredits, transactions, taken, expiredDebits, failures>>
    BY <1>2, <1>4 DEF ReadRefreshState, SelectExpired, Begin, Goto, accountVars, historyVars
  <2>2. /\ Unlogged(w) = 0 /\ UnloggedCharge(w) = 0 /\ Uncharged(w) = 0
        /\ Unlogged(w)' = 0 /\ UnloggedCharge(w)' = 0 /\ Uncharged(w)' = 0
    BY <2>1 DEF Unlogged, UnloggedCharge, Uncharged
  <2> QED
    BY <1>1, <2>1, <2>2, NoEntry
<1>5. CASE ExpireGrant(w)
  <2>1. PICK i \in DOMAIN job[w].snap :
          RowWritten(i, 0, job[w].at, job[w].snap[i]) /\ job'[w].debit = job[w].snap[i]
    BY <1>5, ExpireWritesRow
  <2> DEFINE d == job[w].snap[i]
  <2>2. d \in Nat /\ RowWritten(i, 0, job[w].at, d) /\ job'[w].debit = d
    BY <1>3, <2>1
  <2> HIDE DEF d
  <2>3. Amounts' = Amounts /\ ChargedSum' = ChargedSum /\ TakenSum' = TakenSum + d
    BY <2>2, DrawSums
  <2>4. /\ pc[w] = "expire" /\ pc'[w] = "debit"
        /\ UNCHANGED <<currentCredits, expiredDebits, failures>>
    BY <1>2, <1>5 DEF ExpireGrant, Goto
  <2>5. /\ Unlogged(w) = 0 /\ UnloggedCharge(w) = 0 /\ Uncharged(w) = 0
        /\ Unlogged(w)' = 0 /\ UnloggedCharge(w)' = 0 /\ Uncharged(w)' = d
    BY <2>2, <2>4 DEF Unlogged, UnloggedCharge, Uncharged
  <2>6. /\ Amounts' = Amounts + 0 /\ ChargedSum' = ChargedSum + 0
        /\ expiredDebits' = expiredDebits + 0
        /\ currentCredits' = currentCredits + 0 - 0 + (Unlogged(w)' - Unlogged(w))
                               - (UnloggedCharge(w)' - UnloggedCharge(w))
        /\ d <= 0 + 0 + (UnloggedCharge(w)' - UnloggedCharge(w)) + (Uncharged(w)' - Uncharged(w))
    BY <1>2, <1>3, <2>2, <2>3, <2>4, <2>5
  <2> QED
    BY <1>1, <2>2, <2>3, <2>4, <2>6, EntriesBalance
<1>6. CASE DebitExpired(w)
  <2> DEFINE e == job[w].debit
  <2>1. /\ pc[w] = "debit" /\ pc'[w] = "expire"
        /\ currentCredits' = currentCredits - e /\ expiredDebits' = expiredDebits + e
        /\ UNCHANGED <<transactions, taken, failures>>
    BY <1>2, <1>6 DEF DebitExpired, Goto, BalanceAfterExpiry
  <2>2. Amounts' = Amounts /\ ChargedSum' = ChargedSum /\ TakenSum' = TakenSum
    BY <2>1, RowSumsStay
  <2>3. /\ Unlogged(w) = 0 /\ UnloggedCharge(w) = 0 /\ Uncharged(w) = e
        /\ Unlogged(w)' = 0 /\ UnloggedCharge(w)' = 0 /\ Uncharged(w)' = 0
    BY <2>1 DEF Unlogged, UnloggedCharge, Uncharged
  <2>4. e \in Int
    BY <1>3
  <2> HIDE DEF e
  <2>5. /\ Amounts' = Amounts + 0 /\ ChargedSum' = ChargedSum + 0 /\ TakenSum' = TakenSum + 0
        /\ currentCredits' = currentCredits + 0 - e + (Unlogged(w)' - Unlogged(w))
                               - (UnloggedCharge(w)' - UnloggedCharge(w))
        /\ 0 <= 0 + e + (UnloggedCharge(w)' - UnloggedCharge(w)) + (Uncharged(w)' - Uncharged(w))
    BY <1>2, <1>3, <2>1, <2>2, <2>3, <2>4
  <2> QED
    BY <1>1, <2>1, <2>4, <2>5, EntriesBalance
<1>7. CASE GrantMonthly(w)
  <2>1. /\ pc[w] = "expire" /\ pc'[w] = "logMonthly"
        /\ currentCredits' = currentCredits + FreeMonthlyCredits
        /\ UNCHANGED <<transactions, taken, expiredDebits, failures>>
    BY <1>2, <1>7 DEF GrantMonthly, Goto, historyVars
  <2>2. Amounts' = Amounts /\ ChargedSum' = ChargedSum /\ TakenSum' = TakenSum
    BY <2>1, RowSumsStay
  <2>3. /\ Unlogged(w) = 0 /\ UnloggedCharge(w) = 0 /\ Uncharged(w) = 0
        /\ Unlogged(w)' = FreeMonthlyCredits /\ UnloggedCharge(w)' = 0 /\ Uncharged(w)' = 0
    BY <2>1 DEF Unlogged, UnloggedCharge, Uncharged
  <2>4. /\ Amounts' = Amounts + 0 /\ ChargedSum' = ChargedSum + 0 /\ TakenSum' = TakenSum + 0
        /\ expiredDebits' = expiredDebits + 0
        /\ currentCredits' = currentCredits + 0 - 0 + (Unlogged(w)' - Unlogged(w))
                               - (UnloggedCharge(w)' - UnloggedCharge(w))
        /\ 0 <= 0 + 0 + (UnloggedCharge(w)' - UnloggedCharge(w)) + (Uncharged(w)' - Uncharged(w))
    BY <1>2, <1>3, <2>1, <2>2, <2>3
  <2> QED
    BY <1>1, <2>1, <2>4, EntriesBalance
<1>8. CASE LogMonthly(w)
  <2>1. /\ pc[w] = "logMonthly" /\ pc'[w] = "markRefreshed"
        /\ Log("MONTHLY_REFRESH", FreeMonthlyCredits, job[w].at + Month)
        /\ UNCHANGED <<currentCredits, expiredDebits, failures>>
    BY <1>2, <1>8 DEF LogMonthly, Goto
  <2>2. /\ Amounts' = Amounts + FreeMonthlyCredits /\ ChargedSum' = ChargedSum + 0
        /\ TakenSum' = TakenSum
    <3>1. "MONTHLY_REFRESH" \in Kinds /\ FreeMonthlyCredits \in Int
      BY <1>2 DEF Kinds
    <3> DEFINE until == job[w].at + Month
    <3>2. Log("MONTHLY_REFRESH", FreeMonthlyCredits, until)
      BY <2>1
    <3> HIDE DEF until
    <3> QED
      BY <3>1, <3>2, LogAddsRow, LogSums
  <2>3. /\ Unlogged(w) = FreeMonthlyCredits /\ UnloggedCharge(w) = 0 /\ Uncharged(w) = 0
        /\ Unlogged(w)' = 0 /\ UnloggedCharge(w)' = 0 /\ Uncharged(w)' = 0
    BY <2>1 DEF Unlogged, UnloggedCharge, Uncharged
  <2>4. /\ TakenSum' = TakenSum + 0 /\ expiredDebits' = expiredDebits + 0
        /\ currentCredits' = currentCredits + FreeMonthlyCredits - 0
                               + (Unlogged(w)' - Unlogged(w))
                               - (UnloggedCharge(w)' - UnloggedCharge(w))
        /\ 0 <= 0 + 0 + (UnloggedCharge(w)' - UnloggedCharge(w)) + (Uncharged(w)' - Uncharged(w))
    BY <1>2, <1>3, <2>1, <2>2, <2>3
  <2> QED
    BY <1>1, <1>2, <2>1, <2>2, <2>4, EntriesBalance
<1>9. CASE MarkRefreshed(w)
  <2>1. /\ pc[w] = "markRefreshed" /\ pc'[w] = "idle"
        /\ UNCHANGED <<currentCredits, transactions, taken, expiredDebits, failures>>
    BY <1>2, <1>9 DEF MarkRefreshed, Finish, historyVars
  <2>2. /\ Unlogged(w) = 0 /\ UnloggedCharge(w) = 0 /\ Uncharged(w) = 0
        /\ Unlogged(w)' = 0 /\ UnloggedCharge(w)' = 0 /\ Uncharged(w)' = 0
    BY <2>1 DEF Unlogged, UnloggedCharge, Uncharged
  <2> QED
    BY <1>1, <2>1, <2>2, NoEntry
<1> QED
  BY <1>4, <1>5, <1>6, <1>7, <1>8, <1>9 DEF Refresh

\* So do those of a purchase, and a request that is cut short misplaces one amount.
LEMMA PurchaseOrAbortKeepsAccounts ==
  ASSUME IInv, IInv', Sizes, Accounts, NEW w \in Workers, Purchase(w) \/ Abort(w)
  PROVE  Accounts'
<1>1. OnlyMoves(w)
  BY RequestsMoveAlone
<1>2. /\ DOMAIN pc = Workers /\ DOMAIN job = Workers /\ JobTyped(job[w])
      /\ currentCredits \in Int /\ expiredDebits \in Int /\ failures \in Nat
  BY DEF IInv, TypeOK, JobsAreTyped
<1>3. job[w].cost \in Nat /\ Amounts \in Int /\ ChargedSum \in Int /\ TakenSum \in Int
  BY <1>2, Totals DEF JobTyped
<1>4. CASE PurchaseBalance(w)
  <2>1. PICK n \in Purchases :
          currentCredits' = currentCredits + n /\ job' = [job EXCEPT ![w] = NewJob(n, 0, 0, 0)]
    BY <1>4 DEF PurchaseBalance
  <2>2. /\ pc[w] = "idle" /\ pc'[w] = "logPurchase" /\ job'[w].cost = n /\ n \in Nat
        /\ UNCHANGED <<transactions, taken, expiredDebits, failures>>
    BY <1>2, <1>4, <2>1, LedgerAssumption DEF PurchaseBalance, Begin, NewJob, historyVars
  <2>3. Amounts' = Amounts /\ ChargedSum' = ChargedSum /\ TakenSum' = TakenSum
    BY <2>2, RowSumsStay
  <2>4. /\ Unlogged(w) = 0 /\ UnloggedCharge(w) = 0 /\ Uncharged(w) = 0
        /\ Unlogged(w)' = n /\ UnloggedCharge(w)' = 0 /\ Uncharged(w)' = 0
    BY <2>2 DEF Unlogged, UnloggedCharge, Uncharged
  <2>5. /\ Amounts' = Amounts + 0 /\ ChargedSum' = ChargedSum + 0 /\ TakenSum' = TakenSum + 0
        /\ expiredDebits' = expiredDebits + 0
        /\ currentCredits' = currentCredits + 0 - 0 + (Unlogged(w)' - Unlogged(w))
                               - (UnloggedCharge(w)' - UnloggedCharge(w))
        /\ 0 <= 0 + 0 + (UnloggedCharge(w)' - UnloggedCharge(w)) + (Uncharged(w)' - Uncharged(w))
    BY <1>2, <1>3, <2>1, <2>2, <2>3, <2>4
  <2> QED
    BY <1>1, <2>2, <2>5, EntriesBalance
<1>5. CASE LogPurchase(w)
  <2> DEFINE n == job[w].cost
  <2>1. /\ pc[w] = "logPurchase" /\ pc'[w] = "idle" /\ Log("PURCHASE", n, Never)
        /\ UNCHANGED <<currentCredits, expiredDebits, failures>>
    BY <1>2, <1>5 DEF LogPurchase, Finish
  <2>2. n \in Int /\ "PURCHASE" \in Kinds
    BY <1>3 DEF Kinds
  <2>3. /\ Unlogged(w) = n /\ UnloggedCharge(w) = 0 /\ Uncharged(w) = 0
        /\ Unlogged(w)' = 0 /\ UnloggedCharge(w)' = 0 /\ Uncharged(w)' = 0
    BY <2>1 DEF Unlogged, UnloggedCharge, Uncharged
  <2> HIDE DEF n
  <2>4. Amounts' = Amounts + n /\ ChargedSum' = ChargedSum + 0 /\ TakenSum' = TakenSum
    BY <2>1, <2>2, LogAddsRow, LogSums
  <2>5. /\ TakenSum' = TakenSum + 0 /\ expiredDebits' = expiredDebits + 0
        /\ currentCredits' = currentCredits + n - 0 + (Unlogged(w)' - Unlogged(w))
                               - (UnloggedCharge(w)' - UnloggedCharge(w))
        /\ 0 <= 0 + 0 + (UnloggedCharge(w)' - UnloggedCharge(w)) + (Uncharged(w)' - Uncharged(w))
    BY <1>2, <1>3, <2>1, <2>2, <2>3, <2>4
  <2> QED
    BY <1>1, <2>1, <2>2, <2>4, <2>5, EntriesBalance
<1>6. CASE Abort(w)
  <2> DEFINE u == Unlogged(w)
             v == UnloggedCharge(w)
             x == Uncharged(w)
  <2>1. /\ pc'[w] = "idle" /\ failures' = failures + 1
        /\ UNCHANGED <<currentCredits, transactions, taken, expiredDebits>>
    BY <1>2, <1>6 DEF Abort, Finish, accountVars, historyVars
  <2>2. Amounts' = Amounts /\ ChargedSum' = ChargedSum /\ TakenSum' = TakenSum
    BY <2>1, RowSumsStay
  <2>3. Unlogged(w)' = 0 /\ UnloggedCharge(w)' = 0 /\ Uncharged(w)' = 0
    BY <2>1 DEF Unlogged, UnloggedCharge, Uncharged
  <2>4. /\ UnloggedSum' = UnloggedSum + (0 - u) /\ UnloggedCharges' = UnloggedCharges + (0 - v)
        /\ UnchargedSum' = UnchargedSum + (0 - x)
    BY <1>1, <2>3, WorkerSums
  <2>5. /\ u \in Nat /\ v \in Nat /\ x \in Nat /\ LargestAmount \in Nat
        /\ u + x <= LargestAmount /\ v <= LargestAmount
    BY Terms, TermsAreSized, LargestIsLargest DEF TermsAreIntegers
  <2>6. Slack \in Nat /\ Slack' = Slack + LargestAmount
    BY <2>1, SlackGrows
  <2>7. UnloggedSum \in Int /\ UnloggedCharges \in Int /\ UnchargedSum \in Int
    BY Totals
  <2> HIDE DEF u, v, x
  <2>8. /\ Explained - Slack <= currentCredits /\ currentCredits <= Explained + Slack
        /\ currentCredits + TakenSum <= Amounts + ChargedSum + UnloggedSum + UnchargedSum + Slack
    BY DEF Accounts
  <2> QED
    BY <1>2, <1>3, <2>1, <2>2, <2>4, <2>5, <2>6, <2>7, <2>8 DEF Accounts, Explained
<1> QED
  BY <1>4, <1>5, <1>6 DEF Purchase

\* A new account is in order.
LEMMA InitEstablishesAccounts == Init => Accounts
<1> SUFFICES ASSUME Init
             PROVE  Accounts
  OBVIOUS
<1>1. IInv
  BY InitEstablishesIInv
<1>2. Rows = {}
  BY DEF Init, Rows
<1>3. Amounts = 0 /\ ChargedSum = 0 /\ TakenSum = 0
  <2>1. IsFiniteSet({})
    BY FS_EmptySet
  <2>2. \A F : Sum(F, {}) = 0
    BY <2>1, SumEquation
  <2> QED
    BY <1>2, <2>2 DEF Amounts, ChargedSum, TakenSum, SumFunction, Sum
<1>4. \A w \in Workers : Unlogged(w) = 0 /\ UnloggedCharge(w) = 0 /\ Uncharged(w) = 0
  BY DEF Init, Unlogged, UnloggedCharge, Uncharged
<1>5. UnloggedSum = 0 /\ UnloggedCharges = 0 /\ UnchargedSum = 0
  <2>1. SumFunction([w \in Workers |-> 0]) = 0
    BY LedgerAssumption, SumOfZeros
  <2> QED
    BY <1>4, <2>1 DEF UnloggedSum, UnloggedCharges, UnchargedSum
<1>6. Slack = 0
  <2>1. failures = 0 /\ LargestAmount \in Nat /\ \A n \in Nat : 0 * n = 0
    BY LargestIsLargest DEF Init
  <2> QED
    BY <2>1 DEF Slack
<1> QED
  BY <1>3, <1>5, <1>6 DEF Init, Accounts, Explained

\* Every step keeps the accounts.
LEMMA NextKeepsAccounts == IInv /\ IInv' /\ Sizes /\ Accounts /\ [Next]_vars => Accounts'
<1> SUFFICES ASSUME IInv, IInv', Sizes, Accounts, [Next]_vars
             PROVE  Accounts'
  OBVIOUS
<1>1. CASE Tick \/ UNCHANGED vars
  BY <1>1 DEF Tick, vars, accountVars, historyVars, Accounts, Explained, Slack, Amounts, ChargedSum, TakenSum,
              UnloggedSum, UnloggedCharges, UnchargedSum, Charged, Unlogged, UnloggedCharge,
              Uncharged, Rows
<1> QED
  BY <1>1, UsageKeepsAccounts, RefreshKeepsAccounts, PurchaseOrAbortKeepsAccounts DEF Next

\* The accounts are in order in every reachable state.
LEMMA AccountsInvariance == Spec => []Accounts
BY InitEstablishesAccounts, NextKeepsAccounts, Invariance, SizesInvariance, PTL DEF Spec

\* No interleaving of increments and decrements loses one, for any number of requests: the
\* balance is what the log adds up to, off by at most one amount for each request that was
\* cut short.
THEOREM LogExplainsTheBalance == Spec => []LogExplainsBalance
<1>1. Accounts => LogExplainsBalance
  BY DEF Accounts, Explained, Slack, LogExplainsBalance, Amounts, UnloggedSum, UnloggedCharges
<1> QED
  BY <1>1, AccountsInvariance, PTL

\* A row backs what was not drawn from it.
LEMMA RowsAreBacked ==
  ASSUME IInv
  PROVE  Amounts + ChargedSum <= BackingSum + TakenSum
<1> DEFINE A == [i \in Rows |-> transactions[i].amount]
           C == [i \in Rows |-> Charged(i)]
           B == [i \in Rows |-> Backing(i)]
           T == [i \in Rows |-> taken[i]]
           L == [i \in Rows |-> A[i] + C[i]]
           R == [i \in Rows |-> B[i] + T[i]]
<1>1. IsFiniteSet(Rows)
  BY Terms DEF TermsAreIntegers
<1>2. \A i \in Rows : A[i] \in Int /\ C[i] \in Int /\ B[i] \in Int /\ T[i] \in Int
  BY Terms DEF TermsAreIntegers, Row
<1>3. ASSUME NEW i \in Rows
      PROVE  A[i] + C[i] <= B[i] + T[i]
  <2>1. transactions[i] \in Row /\ taken[i] \in Nat /\ RowFits(transactions[i], taken[i])
    BY Terms DEF IInv, TableFits, TermsAreIntegers
  <2>2. CASE transactions[i].type = "USAGE"
    BY <2>1, <2>2 DEF Row, RowFits, Charged, Backing
  <2>3. CASE transactions[i].type # "USAGE"
    BY <2>1, <2>3 DEF Row, RowFits, Charged, Backing
  <2> QED
    BY <2>2, <2>3
<1>4. /\ Amounts = Sum(A, Rows) /\ ChargedSum = Sum(C, Rows)
      /\ BackingSum = Sum(B, Rows) /\ TakenSum = Sum(T, Rows)
  BY DEF Amounts, ChargedSum, BackingSum, TakenSum, SumFunction, Sum
<1> HIDE DEF A, C, B, T
<1>5. Sum(L, Rows) = Sum(A, Rows) + Sum(C, Rows) /\ Sum(R, Rows) = Sum(B, Rows) + Sum(T, Rows)
  BY <1>1, <1>2, SumOfSums
<1>6. \A i \in Rows : L[i] \in Int /\ R[i] \in Int /\ L[i] <= R[i]
  BY <1>2, <1>3
<1> HIDE DEF L, R
<1>7. Sum(L, Rows) <= Sum(R, Rows)
  BY <1>1, <1>6, SumsCompare
<1> QED
  BY <1>4, <1>5, <1>7

\* No interleaving of any number of charges, expiries and refreshes lets the balance
\* promise a credit that no unprocessed grant backs, although requests write from stale
\* snapshots, but for one amount for each request that was cut short.
THEOREM BalancesAreBacked == Spec => []BalanceIsBacked
<1>1. IInv /\ Accounts => BalanceIsBacked
  <2> SUFFICES ASSUME IInv, Accounts
               PROVE  currentCredits <= BackingSum + UnloggedSum + UnchargedSum + Slack
    BY DEF BalanceIsBacked, BackingSum, UnloggedSum, UnchargedSum, Slack
  <2>1. currentCredits + TakenSum <= Amounts + ChargedSum + UnloggedSum + UnchargedSum + Slack
    BY DEF Accounts
  <2>2. Amounts + ChargedSum <= BackingSum + TakenSum
    BY RowsAreBacked
  <2>3. /\ Amounts \in Int /\ ChargedSum \in Int /\ TakenSum \in Int /\ BackingSum \in Int
        /\ UnloggedSum \in Int /\ UnchargedSum \in Int /\ Slack \in Nat /\ currentCredits \in Int
    BY Totals, SlackGrows DEF IInv, TypeOK
  <2> QED
    BY <2>1, <2>2, <2>3
<1> QED
  BY <1>1, Invariance, AccountsInvariance, PTL
-----------------------------------------------------------------------------
(* Spending.  The balance alone says nothing of the charges to come; the balance less
   what every request that passed the check is still going to take is what each step
   keeps above its bound. *)

\* What a request that passed the check has not charged yet.
Due(w) == IF pc[w] \in {"select", "deduct"} THEN job[w].cost ELSE 0
DueSum == SumFunction([w \in Workers |-> Due(w)])

\* The credits that were granted and not spent.
Unspent == currentCredits + expiredDebits

\* What the checks of requests in flight allow to be spent in excess.
Excess == (Cardinality(Workers) - 1) * LargestCost

\* No use costs more than the dearest.
UsesArePriced == \A w \in Workers : Due(w) \in 0..LargestCost

SpendingInv == UsesArePriced /\ DueSum <= Unspent + Excess

\* The dearest use is one.
LEMMA CostsAreBounded == LargestCost \in Nat /\ \A c \in Costs : c <= LargestCost
<1>1. IsFiniteSet(Costs \cup {0}) /\ \A n \in Costs \cup {0} : n \in Nat
  <2>1. IsFiniteSet(Costs)
    BY LedgerAssumption
  <2>2. IsFiniteSet(Costs \cup {0})
    BY <2>1, FS_AddElement
  <2>3. \A n \in Costs \cup {0} : n \in Nat
    BY LedgerAssumption
  <2> QED
    BY <2>2, <2>3
<1>2. Max(Costs \cup {0}) \in Costs \cup {0} /\ \A n \in Costs \cup {0} : Max(Costs \cup {0}) >= n
  BY <1>1, LargestExists
<1> QED
  BY <1>1, <1>2 DEF LargestCost

\* A sum is no larger than its number of terms times the largest.
LEMMA SumIsBounded ==
  ASSUME NEW S, IsFiniteSet(S), NEW F, NEW L \in Nat, \A i \in S : F[i] \in 0..L
  PROVE  Sum(F, S) <= Cardinality(S) * L
<1> DEFINE Bad == {s \in SUBSET S : ~(Sum(F, s) <= Cardinality(s) * L)}
<1> SUFFICES ASSUME Bad # {}
             PROVE  FALSE
  OBVIOUS
<1>1. Bad \subseteq SUBSET S
  OBVIOUS
<1> HIDE DEF Bad
<1>2. PICK s \in Bad : \A y \in Bad : ~(y \subseteq s /\ y # s)
  BY <1>1, SmallestSet
<1> USE DEF Bad
<1>3. IsFiniteSet(s) /\ s \subseteq S
  BY FS_Subset
<1>4. CASE s = {}
  <2>1. Sum(F, s) = 0 /\ Cardinality(s) = 0
    BY <1>3, <1>4, SumEquation, FS_EmptySet
  <2> HIDE DEF Bad
  <2>2. 0 * L = 0
    OBVIOUS
  <2>3. ~(Sum(F, s) <= Cardinality(s) * L)
    BY DEF Bad
  <2> QED
    BY <2>1, <2>2, <2>3
<1>5. CASE s # {}
  <2> DEFINE a == Any(s)
             r == s \ {a}
             n == Cardinality(r)
  <2>1. a \in s /\ F[a] \in 0..L
    BY <1>3, <1>5, AnyIn
  <2>2. Sum(F, s) = F[a] + Sum(F, r)
    BY <1>3, <1>5, SumEquation
  <2>3. r \notin Bad /\ r \subseteq S
    BY <1>2, <2>1
  <2>4. IsFiniteSet(r) /\ Cardinality(s) = n + 1 /\ n \in Nat
    <3>1. IsFiniteSet(r) /\ Cardinality(r) = Cardinality(s) - 1
      BY <1>3, <2>1, FS_RemoveElement
    <3>2. Cardinality(s) \in Nat /\ Cardinality(r) \in Nat
      BY <1>3, <3>1, FS_CardinalityType
    <3> QED
      BY <3>1, <3>2
  <2>5. Sum(F, r) \in Int
    BY <2>3, SumIsInteger
  <2>6. Sum(F, r) <= n * L
    BY <2>3
  <2>7. \A k, l \in Nat : k * l \in Nat /\ (k + 1) * l = k * l + l
    OBVIOUS
  <2>8. n * L \in Nat /\ Cardinality(s) * L = n * L + L
    BY <2>4, <2>7
  <2> HIDE DEF a, r, n
  <2> QED
    BY <2>1, <2>2, <2>5, <2>6, <2>8
<1> QED
  BY <1>4, <1>5

\* The terms of the argument are numbers; what is due is at most one cost per request.
LEMMA SpendingTerms ==
  ASSUME IInv, UsesArePriced
  PROVE  /\ DueSum \in Int /\ Unspent \in Int /\ Excess \in Nat
         /\ LargestCost \in Nat /\ DueSum <= Excess + LargestCost
<1> DEFINE D == [w \in Workers |-> Due(w)]
           n == Cardinality(Workers)
<1>1. LargestCost \in Nat
  BY CostsAreBounded
<1>2. \A w \in Workers : D[w] \in 0..LargestCost
  BY DEF UsesArePriced
<1>3. D \in [Workers -> Int]
  BY <1>1, <1>2
<1>4. DueSum \in Int /\ DueSum = Sum(D, Workers)
  BY <1>3, LedgerAssumption, SumFunctionIsInteger DEF DueSum
<1>5. DueSum <= n * LargestCost
  BY <1>1, <1>2, <1>4, LedgerAssumption, SumIsBounded
<1>6. n \in Nat /\ n # 0
  BY LedgerAssumption, FS_CardinalityType, FS_EmptySet
<1>7. \A k, l \in Nat : k # 0 => (k - 1) * l \in Nat /\ k * l = (k - 1) * l + l
  OBVIOUS
<1>8. (n - 1) * LargestCost \in Nat /\ n * LargestCost = (n - 1) * LargestCost + LargestCost
  BY <1>1, <1>6, <1>7
<1> HIDE DEF D
<1> QED
  BY <1>1, <1>4, <1>5, <1>8 DEF IInv, TypeOK, Unspent, Excess

\* What one request does to what it owes and to the balance, and the others do not.
LEMMA SpendingMoves ==
  ASSUME IInv, IInv', UsesArePriced, NEW w \in Workers, OnlyMoves(w),
         Due(w)' \in 0..LargestCost
  PROVE  UsesArePriced' /\ DueSum' = DueSum + (Due(w)' - Due(w)) /\ Excess' = Excess
<1> DEFINE D == [v \in Workers |-> Due(v)]
           E == [v \in Workers |-> Due(v)']
<1>1. \A v \in Workers \ {w} : Due(v)' = Due(v)
  BY DEF OnlyMoves, Due
<1>2. \A v \in Workers : Due(v) \in 0..LargestCost /\ Due(v)' \in 0..LargestCost
  BY <1>1 DEF UsesArePriced
<1>3. D \in [Workers -> Int] /\ E \in [Workers -> Int]
  BY <1>2, CostsAreBounded
<1>4. \A v \in Workers \ {w} : E[v] = D[v]
  BY <1>1
<1>5. D[w] = Due(w) /\ E[w] = Due(w)' /\ DueSum = SumFunction(D) /\ DueSum' = SumFunction(E)
  BY DEF DueSum
<1> HIDE DEF D, E
<1>6. SumFunction(E) = SumFunction(D) + (E[w] - D[w])
  BY <1>3, <1>4, LedgerAssumption, SumMoves
<1>7. UsesArePriced' /\ Excess' = Excess
  BY <1>2 DEF UsesArePriced, Excess, LargestCost
<1> QED
  BY <1>5, <1>6, <1>7

\* A step keeps the bound if it takes from the balance no more than it stops owing, or
\* if it admits a use that the balance covers.
LEMMA CoveredStep ==
  ASSUME IInv, IInv', SpendingInv, NEW w \in Workers, OnlyMoves(w),
         Due(w)' \in 0..LargestCost,
         \/ Unspent' - Unspent >= Due(w)' - Due(w)
         \/ Due(w) = 0 /\ Due(w)' <= Unspent /\ Unspent' = Unspent
  PROVE  SpendingInv'
<1>1. UsesArePriced /\ DueSum <= Unspent + Excess /\ Due(w) \in 0..LargestCost
  BY DEF SpendingInv, UsesArePriced
<1>2. UsesArePriced' /\ DueSum' = DueSum + (Due(w)' - Due(w)) /\ Excess' = Excess
  BY <1>1, SpendingMoves
<1>3. /\ DueSum \in Int /\ Unspent \in Int /\ Excess \in Nat /\ LargestCost \in Nat
  BY <1>1, SpendingTerms
<1>4. Unspent' \in Int
  BY DEF IInv, TypeOK, Unspent
<1>5. CASE Unspent' - Unspent >= Due(w)' - Due(w)
  BY <1>1, <1>2, <1>3, <1>4, <1>5 DEF SpendingInv
<1>6. CASE Due(w) = 0 /\ Due(w)' <= Unspent /\ Unspent' = Unspent
  <2> DEFINE D == [v \in Workers |-> Due(v)]
             R == Workers \ {w}
             n == Cardinality(R)
  <2>1. IsFiniteSet(R) /\ Cardinality(Workers) - 1 = n /\ n \in Nat
    BY LedgerAssumption, FS_RemoveElement, FS_CardinalityType
  <2>2. \A v \in Workers : D[v] \in 0..LargestCost /\ D[v] \in Int
    BY <1>1, <1>3 DEF UsesArePriced
  <2>3. D[w] = 0 /\ D \in [Workers -> Int] /\ DueSum = SumFunction(D)
    BY <1>6, <2>2 DEF DueSum
  <2> HIDE DEF D
  <2>4. DueSum = Sum(D, Workers)
    BY <2>3, LedgerAssumption, SumFunctionIsInteger
  <2>5. Sum(D, Workers) = D[w] + Sum(D, R)
    BY <2>2, LedgerAssumption, SumSplits
  <2>6. \A v \in R : D[v] \in 0..LargestCost
    BY <2>2
  <2> HIDE DEF R
  <2>7. Sum(D, R) <= n * LargestCost
    BY <1>3, <2>1, <2>6, SumIsBounded
  <2>8. Sum(D, R) \in Int
    <3>1. R \subseteq Workers
      BY DEF R
    <3> QED
      BY <2>2, <3>1, LedgerAssumption, SumIsInteger
  <2>9. Excess = n * LargestCost
    BY <2>1 DEF Excess
  <2>10. DueSum <= Excess
    BY <2>3, <2>4, <2>5, <2>7, <2>8, <2>9
  <2>11. Due(w)' \in Int
    BY <1>3
  <2> QED
    BY <1>2, <1>3, <1>6, <2>10, <2>11 DEF SpendingInv
<1> QED
  BY <1>5, <1>6

\* Every step of a request is of one of those kinds.
LEMMA StepKeepsSpending ==
  ASSUME IInv, IInv', SpendingInv, NEW w \in Workers,
         RecordUsage(w) \/ Refresh(w) \/ Purchase(w) \/ Abort(w)
  PROVE  SpendingInv'
<1>1. OnlyMoves(w)
  BY RequestsMoveAlone
<1>2. /\ DOMAIN pc = Workers /\ DOMAIN job = Workers /\ JobTyped(job[w]) /\ LargestCost \in Nat
      /\ currentCredits \in Int /\ expiredDebits \in Nat /\ Due(w) \in 0..LargestCost
  BY CostsAreBounded DEF IInv, TypeOK, JobsAreTyped, SpendingInv, UsesArePriced
<1>3. job[w].cost \in Nat /\ job[w].debit \in Nat
  BY <1>2 DEF JobTyped
<1>4. CASE ReadBalance(w)
  <2>1. pc[w] = "idle" /\ UNCHANGED <<currentCredits, expiredDebits>>
    BY <1>4 DEF ReadBalance, Begin, accountVars, historyVars
  <2>2. CASE pc'[w] \in {"idle", "event"}
    BY <1>1, <1>2, <2>1, <2>2, CoveredStep DEF Due, Unspent
  <2>3. CASE \E c \in Costs : /\ Sufficient(c) /\ pc'[w] = "select"
                              /\ job' = [job EXCEPT ![w] = NewJob(c, 0, currentCredits, c)]
    <3>1. PICK c \in Costs : /\ currentCredits >= c /\ pc'[w] = "select"
                             /\ job' = [job EXCEPT ![w] = NewJob(c, 0, currentCredits, c)]
      BY <2>3 DEF Sufficient
    <3>2. Due(w) = 0 /\ Due(w)' = c /\ c \in 0..LargestCost /\ c \in Nat
      BY <1>2, <2>1, <3>1, CostsAreBounded, LedgerAssumption DEF Due, NewJob
    <3>3. c <= Unspent /\ Unspent' = Unspent
      BY <1>2, <2>1, <3>1, <3>2 DEF Unspent
    <3> QED
      BY <1>1, <3>2, <3>3, CoveredStep
  <2> QED
    BY <1>2, <1>4, <2>1, <2>2, <2>3 DEF ReadBalance
<1>5. CASE SelectActive(w) \/ DeductFromGrant(w)
  <2>1. pc[w] \in {"select", "deduct"} /\ pc'[w] = "deduct"
    BY <1>2, <1>5 DEF SelectActive, DeductFromGrant, Goto
  <2>2. UNCHANGED <<currentCredits, expiredDebits>>
    BY <1>5 DEF SelectActive, DeductFromGrant, accountVars, historyVars
  <2>3. job'[w].cost = job[w].cost
    <3>1. CASE SelectActive(w)
      BY <1>2, <3>1 DEF SelectActive, JobTyped
    <3>2. CASE DeductFromGrant(w)
      BY <1>2, <3>2 DEF DeductFromGrant, JobTyped
    <3> QED
      BY <1>5, <3>1, <3>2
  <2> QED
    BY <1>1, <1>2, <2>1, <2>2, <2>3, CoveredStep DEF Due, Unspent
<1>6. CASE ChargeBalance(w)
  <2>1. /\ pc[w] = "deduct" /\ pc'[w] = "logUsage" /\ expiredDebits' = expiredDebits
        /\ currentCredits' = currentCredits - job[w].cost
    BY <1>2, <1>6 DEF ChargeBalance, BalanceAfterCharge, Goto, historyVars
  <2> QED
    BY <1>1, <1>2, <1>3, <2>1, CoveredStep DEF Due, Unspent
<1>7. CASE DebitExpired(w)
  <2>1. /\ pc[w] = "debit" /\ pc'[w] = "expire" /\ expiredDebits' = expiredDebits + job[w].debit
        /\ currentCredits' = currentCredits - job[w].debit
    BY <1>2, <1>7 DEF DebitExpired, BalanceAfterExpiry, Goto
  <2> QED
    BY <1>1, <1>2, <1>3, <2>1, CoveredStep DEF Due, Unspent
<1>8. CASE GrantMonthly(w) \/ PurchaseBalance(w)
  <2>1. /\ pc'[w] \notin {"select", "deduct"} /\ expiredDebits' = expiredDebits
        /\ \E n \in Nat : currentCredits' = currentCredits + n
    BY <1>2, <1>8, LedgerAssumption DEF GrantMonthly, PurchaseBalance, Goto, historyVars
  <2> QED
    BY <1>1, <1>2, <2>1, CoveredStep DEF Due, Unspent
<1>9. CASE \/ LogUsage(w) \/ InsertEvent(w) \/ AddToDaily(w) \/ MirrorCredits(w)
           \/ ReadRefreshState(w) \/ SelectExpired(w) \/ ExpireGrant(w) \/ LogMonthly(w)
           \/ MarkRefreshed(w) \/ LogPurchase(w) \/ Abort(w)
  <2>1. pc'[w] \notin {"select", "deduct"}
    BY <1>2, <1>9 DEF LogUsage, InsertEvent, AddToDaily, MirrorCredits, ReadRefreshState,
       SelectExpired, ExpireGrant, LogMonthly, MarkRefreshed, LogPurchase, Abort, Goto, Finish, Begin
  <2>2. UNCHANGED <<currentCredits, expiredDebits>>
    BY <1>9 DEF LogUsage, InsertEvent, AddToDaily, MirrorCredits, ReadRefreshState,
       SelectExpired, ExpireGrant, LogMonthly, MarkRefreshed, LogPurchase, Abort, accountVars,
       historyVars
  <2> QED
    BY <1>1, <1>2, <2>1, <2>2, CoveredStep DEF Due, Unspent
<1> QED
  BY <1>4, <1>5, <1>6, <1>7, <1>8, <1>9 DEF RecordUsage, Refresh, Purchase

\* However many requests pass the balance check together, and wherever they are cut
\* short, the credits spent exceed those granted by less than one cost per request.
THEOREM SpendingStaysCovered == Spec => []SpendingIsCovered
<1>1. Init => SpendingInv
  <2> SUFFICES ASSUME Init
               PROVE  SpendingInv
    OBVIOUS
  <2> DEFINE Z == [w \in Workers |-> 0]
  <2>1. \A w \in Workers : Due(w) = 0
    BY DEF Init, Due
  <2>2. UsesArePriced
    BY <2>1, CostsAreBounded DEF UsesArePriced
  <2>3. DueSum = SumFunction(Z)
    BY <2>1 DEF DueSum
  <2> HIDE DEF Z
  <2>4. DueSum = 0
    BY <2>3, SumOfZeros, LedgerAssumption DEF Z
  <2>5. Excess \in Nat
    BY <2>2, InitEstablishesIInv, SpendingTerms
  <2> QED
    BY <2>2, <2>4, <2>5 DEF SpendingInv, Unspent, Init
<1>2. IInv /\ IInv' /\ SpendingInv /\ [Next]_vars => SpendingInv'
  <2> SUFFICES ASSUME IInv, IInv', SpendingInv, [Next]_vars
               PROVE  SpendingInv'
    OBVIOUS
  <2>1. CASE Tick \/ UNCHANGED vars
    BY <2>1 DEF Tick, vars, accountVars, historyVars, SpendingInv, UsesArePriced, DueSum, Due,
       Unspent, Excess, LargestCost
  <2> QED
    BY <2>1, StepKeepsSpending DEF Next
<1>3. IInv /\ SpendingInv => SpendingIsCovered
  <2> SUFFICES ASSUME IInv, SpendingInv
               PROVE  SpendingIsCovered
    OBVIOUS
  <2> DEFINE D == [w \in Workers |-> Due(w)]
             Z == [w \in Workers |-> 0]
  <2>1. UsesArePriced /\ DueSum <= Unspent + Excess
    BY DEF SpendingInv
  <2>2. LargestCost \in Nat /\ Unspent \in Int /\ Excess \in Nat /\ DueSum \in Int
    BY <2>1, SpendingTerms
  <2>3. \A w \in Workers : D[w] \in 0..LargestCost /\ Z[w] = 0
    BY <2>1 DEF UsesArePriced
  <2>4. D \in [Workers -> Int] /\ Z \in [Workers -> Int]
    BY <2>2, <2>3
  <2>5. SumFunction(Z) = 0
    BY SumOfZeros, LedgerAssumption
  <2>6. DueSum = SumFunction(D)
    BY DEF DueSum
  <2>7. \A w \in Workers : Z[w] \in Int /\ D[w] \in Int /\ Z[w] <= D[w]
    BY <2>2, <2>3
  <2> HIDE DEF D, Z
  <2>8. SumFunction(Z) = Sum(Z, Workers) /\ SumFunction(D) = Sum(D, Workers)
    BY <2>4, LedgerAssumption, SumFunctionIsInteger
  <2>9. Sum(Z, Workers) <= Sum(D, Workers)
    BY <2>7, LedgerAssumption, SumsCompare
  <2>10. 0 <= Unspent + Excess
    BY <2>1, <2>2, <2>5, <2>6, <2>8, <2>9
  <2> QED
    BY <2>10 DEF SpendingIsCovered, Unspent, Excess
<1> QED
  BY <1>1, <1>2, <1>3, Invariance, PTL DEF Spec
-----------------------------------------------------------------------------
(* Usage records. *)

\* The requests about to run statement s.
At(s) == {w \in Workers : pc[w] = s}
Waiting(s) == Cardinality(At(s))

UsageRows == {i \in Rows : transactions[i].type = "USAGE"}
UsageCount == Cardinality(UsageRows)

\* One request leaves or reaches s.
LEMMA OneIsCounted ==
  ASSUME NEW w \in Workers, OnlyMoves(w), NEW s
  PROVE  /\ Waiting(s) \in Nat /\ Waiting(s)' \in Nat
         /\ pc[w] # s /\ pc'[w] # s => Waiting(s)' = Waiting(s)
         /\ pc[w] # s /\ pc'[w] = s => Waiting(s)' = Waiting(s) + 1
         /\ pc[w] = s /\ pc'[w] # s => Waiting(s) = Waiting(s)' + 1
<1>1. IsFiniteSet(At(s)) /\ IsFiniteSet(At(s)')
  <2>1. At(s) \subseteq Workers /\ At(s)' \subseteq Workers
    BY DEF At
  <2> QED
    BY <2>1, LedgerAssumption, FS_Subset
<1>2. /\ pc[w] # s /\ pc'[w] # s => At(s)' = At(s)
      /\ pc[w] # s /\ pc'[w] = s => w \notin At(s) /\ At(s)' = At(s) \cup {w}
      /\ pc[w] = s /\ pc'[w] # s => w \notin At(s)' /\ At(s) = At(s)' \cup {w}
  BY DEF OnlyMoves, At
<1>3. /\ w \notin At(s) => Cardinality(At(s) \cup {w}) = Cardinality(At(s)) + 1
      /\ w \notin At(s)' => Cardinality(At(s)' \cup {w}) = Cardinality(At(s)') + 1
  BY <1>1, FS_AddElement
<1>4. Cardinality(At(s)) \in Nat /\ Cardinality(At(s)') \in Nat
  BY <1>1, FS_CardinalityType
<1>5. Waiting(s) = Cardinality(At(s)) /\ Waiting(s)' = Cardinality(At(s)')
  BY DEF Waiting
<1> QED
  BY <1>2, <1>3, <1>4, <1>5

\* The records of usage: each request that was cut short lost one at most.
Recorded ==
  /\ dailyTotal + Waiting("daily") <= events
  /\ events <= dailyTotal + Waiting("daily") + failures
  /\ UsageCount <= dailyTotal + Waiting("daily") + Waiting("event") + failures

\* The number of USAGE rows, before and after a step.
LEMMA UsageRowsCounted ==
  ASSUME IInv
  PROVE  IsFiniteSet(UsageRows) /\ UsageCount \in Nat
<1>1. IsFiniteSet(UsageRows)
  BY Terms, FS_Subset DEF TermsAreIntegers, UsageRows
<1> QED
  BY <1>1, FS_CardinalityType DEF UsageCount

\* A row more, which counts if it is of a charge.
LEMMA LogIsCounted ==
  ASSUME IInv, NEW type, NEW amount, NEW expires, Log(type, amount, expires)
  PROVE  /\ type # "USAGE" => UsageCount' = UsageCount
         /\ type = "USAGE" => UsageCount' = UsageCount + 1
<1> DEFINE k == Len(transactions) + 1
<1>1. RowAdded(k, type, amount, expires)
  BY LogAddsRow
<1> HIDE DEF k
<1>2. /\ type # "USAGE" => UsageRows' = UsageRows
      /\ type = "USAGE" => UsageRows' = UsageRows \cup {k} /\ k \notin UsageRows
  BY <1>1 DEF RowAdded, UsageRows
<1>3. k \notin UsageRows => Cardinality(UsageRows \cup {k}) = Cardinality(UsageRows) + 1
  BY UsageRowsCounted, FS_AddElement
<1> QED
  BY <1>2, <1>3 DEF UsageCount

\* Rows that are written keep their type.
LEMMA WriteIsNotCounted ==
  ASSUME NEW i, NEW rest, NEW processed, NEW d, RowWritten(i, rest, processed, d)
  PROVE  UsageCount' = UsageCount
BY DEF RowWritten, UsageCount, UsageRows

\* Every step of a request keeps the records.
LEMMA StepKeepsRecorded ==
  ASSUME IInv, Recorded, NEW w \in Workers,
         RecordUsage(w) \/ Refresh(w) \/ Purchase(w) \/ Abort(w)
  PROVE  Recorded'
<1>1. OnlyMoves(w)
  BY RequestsMoveAlone
<1>2. /\ DOMAIN pc = Workers /\ events \in Nat /\ dailyTotal \in Nat /\ failures \in Nat
      /\ Waiting("event") \in Nat /\ Waiting("daily") \in Nat
      /\ UsageCount \in Nat
  BY <1>1, OneIsCounted, UsageRowsCounted DEF IInv, TypeOK
<1>3. ASSUME UNCHANGED <<events, dailyTotal, failures>>, UsageCount' = UsageCount,
             pc[w] \notin {"event", "daily"}, pc'[w] \notin {"event", "daily"}
      PROVE  Recorded'
  <2>1. Waiting("event")' = Waiting("event") /\ Waiting("daily")' = Waiting("daily")
    BY <1>1, <1>3, OneIsCounted
  <2> QED
    BY <1>3, <2>1 DEF Recorded
<1>4. UNCHANGED transactions => UsageCount' = UsageCount
  BY DEF UsageCount, UsageRows, Rows
<1>5. CASE ReadBalance(w)
  <2>1. /\ pc[w] = "idle" /\ pc'[w] \in {"idle", "event", "select"}
        /\ UNCHANGED <<transactions, events, dailyTotal, failures>>
    BY <1>2, <1>5 DEF ReadBalance, Begin, accountVars, usageVars
  <2>2. CASE pc'[w] = "event"
    <3>1. Waiting("daily")' = Waiting("daily") /\ Waiting("event")' = Waiting("event") + 1
      BY <1>1, <2>1, <2>2, OneIsCounted
    <3> QED
      BY <1>2, <1>4, <2>1, <3>1 DEF Recorded
  <2> QED
    BY <1>3, <1>4, <2>1, <2>2
<1>6. CASE SelectActive(w) \/ ChargeBalance(w) \/ MirrorCredits(w)
  BY <1>2, <1>3, <1>4, <1>6
     DEF SelectActive, ChargeBalance, MirrorCredits, Goto, Finish, accountVars, usageVars
<1>7. CASE DeductFromGrant(w)
  <2>1. UsageCount' = UsageCount
    BY <1>7, DeductWritesRow, WriteIsNotCounted
  <2> QED
    BY <1>3, <1>7, <2>1 DEF DeductFromGrant, usageVars
<1>8. CASE LogUsage(w)
  <2>1. /\ pc[w] = "logUsage" /\ pc'[w] = "event"
        /\ UNCHANGED <<events, dailyTotal, failures>>
    BY <1>2, <1>8 DEF LogUsage, Goto, usageVars
  <2>2. UsageCount' = UsageCount + 1
    BY <1>8, LogIsCounted DEF LogUsage
  <2>3. Waiting("daily")' = Waiting("daily") /\ Waiting("event")' = Waiting("event") + 1
    BY <1>1, <2>1, OneIsCounted
  <2> QED
    BY <1>2, <2>1, <2>2, <2>3 DEF Recorded
<1>9. CASE InsertEvent(w)
  <2>1. /\ pc[w] = "event" /\ pc'[w] = "daily" /\ events' = events + 1
        /\ UNCHANGED <<transactions, dailyTotal, failures>>
    BY <1>2, <1>9 DEF InsertEvent, Goto, accountVars
  <2>2. /\ Waiting("event") = Waiting("event")' + 1
        /\ Waiting("daily")' = Waiting("daily") + 1 /\ Waiting("event")' \in Nat
    BY <1>1, <2>1, OneIsCounted
  <2> QED
    BY <1>2, <1>4, <2>1, <2>2 DEF Recorded
<1>10. CASE AddToDaily(w)
  <2>1. /\ pc[w] = "daily" /\ pc'[w] \in {"mirror", "idle"} /\ dailyTotal' = dailyTotal + 1
        /\ UNCHANGED <<transactions, events, failures>>
    BY <1>2, <1>10 DEF AddToDaily, DailyAfter, Finish, accountVars
  <2>2. /\ Waiting("daily") = Waiting("daily")' + 1
        /\ Waiting("event")' = Waiting("event") /\ Waiting("daily")' \in Nat
    BY <1>1, <2>1, OneIsCounted
  <2> QED
    BY <1>2, <1>4, <2>1, <2>2 DEF Recorded
<1>11. CASE Refresh(w)
  <2>1. CASE ReadRefreshState(w) \/ SelectExpired(w) \/ DebitExpired(w) \/ GrantMonthly(w)
             \/ MarkRefreshed(w)
    BY <1>2, <1>3, <1>4, <2>1
       DEF ReadRefreshState, SelectExpired, DebitExpired, GrantMonthly, MarkRefreshed, Begin,
           Goto, Finish, accountVars, usageVars
  <2>2. CASE ExpireGrant(w)
    <3>1. UsageCount' = UsageCount
      BY <2>2, ExpireWritesRow, WriteIsNotCounted
    <3> QED
      BY <1>2, <1>3, <2>2, <3>1 DEF ExpireGrant, Goto, usageVars
  <2>3. CASE LogMonthly(w)
    <3> DEFINE until == job[w].at + Month
    <3>1. Log("MONTHLY_REFRESH", FreeMonthlyCredits, until)
      BY <2>3 DEF LogMonthly
    <3> HIDE DEF until
    <3>2. UsageCount' = UsageCount
      BY <3>1, LogIsCounted
    <3> QED
      BY <1>2, <1>3, <2>3, <3>2 DEF LogMonthly, Goto, usageVars
  <2> QED
    BY <1>11, <2>1, <2>2, <2>3 DEF Refresh
<1>12. CASE Purchase(w)
  <2>1. CASE PurchaseBalance(w)
    BY <1>2, <1>3, <1>4, <2>1 DEF PurchaseBalance, Begin, usageVars
  <2>2. CASE LogPurchase(w)
    <3>1. UsageCount' = UsageCount
      BY <2>2, LogIsCounted DEF LogPurchase
    <3> QED
      BY <1>2, <1>3, <2>2, <3>1 DEF LogPurchase, Finish, usageVars
  <2> QED
    BY <1>12, <2>1, <2>2 DEF Purchase
<1>13. CASE Abort(w)
  <2>1. /\ pc'[w] = "idle" /\ failures' = failures + 1
        /\ UNCHANGED <<transactions, events, dailyTotal>>
    BY <1>2, <1>13 DEF Abort, Finish, accountVars, usageVars
  <2>2. /\ pc[w] = "daily" => Waiting("daily") = Waiting("daily")' + 1
        /\ pc[w] # "daily" => Waiting("daily")' = Waiting("daily")
        /\ pc[w] = "event" => Waiting("event") = Waiting("event")' + 1
        /\ pc[w] # "event" => Waiting("event")' = Waiting("event")
        /\ Waiting("daily")' \in Nat /\ Waiting("event")' \in Nat
    BY <1>1, <2>1, OneIsCounted
  <2> QED
    BY <1>2, <1>4, <2>1, <2>2 DEF Recorded
<1> QED
  BY <1>5, <1>6, <1>7, <1>8, <1>9, <1>10, <1>11, <1>12, <1>13 DEF RecordUsage

\* Every charged use reaches usage_events and every event the daily total, but for one
\* record of each request that was cut short, for any number of overlapping requests.
THEOREM UsesAreRecorded == Spec => []UsageIsRecorded
<1>1. Init => Recorded
  <2> SUFFICES ASSUME Init
               PROVE  Recorded
    OBVIOUS
  <2>1. At("daily") = {} /\ At("event") = {} /\ UsageRows = {}
    BY DEF Init, At, UsageRows, Rows
  <2>2. Waiting("daily") = 0 /\ Waiting("event") = 0 /\ UsageCount = 0
    BY <2>1, FS_EmptySet DEF Waiting, UsageCount
  <2> QED
    BY <2>2 DEF Init, Recorded
<1>2. IInv /\ Recorded /\ [Next]_vars => Recorded'
  <2> SUFFICES ASSUME IInv, Recorded, [Next]_vars
               PROVE  Recorded'
    OBVIOUS
  <2>1. CASE Tick \/ UNCHANGED vars
    BY <2>1 DEF Tick, vars, accountVars, usageVars, Recorded, Waiting, UsageCount, At, UsageRows, Rows
  <2> QED
    BY <2>1, StepKeepsRecorded DEF Next
<1>3. Recorded => UsageIsRecorded
  BY DEF Recorded, UsageIsRecorded, Waiting, UsageCount, At, UsageRows
<1> QED
  BY <1>1, <1>2, <1>3, Invariance, PTL DEF Spec
-----------------------------------------------------------------------------
(* One request at a time: the rows. *)

\* Requests do not overlap.
Serial == \A v, w \in Workers : v = w

\* What GrantsAreExact says of a row.
RowIsExact(i) ==
  transactions[i].type # "USAGE" =>
    /\ transactions[i].remaining = transactions[i].amount - taken[i]
    /\ transactions[i].processed # Never => transactions[i].remaining = 0

\* The snapshot of a request in its loop still shows what the rows hold.
SnapIsCurrent(w) ==
  pc[w] \in {"deduct", "expire", "debit"} =>
    \A i \in DOMAIN job[w].snap : job[w].snap[i] = transactions[i].remaining

ExactRows == (\A i \in Rows : RowIsExact(i)) /\ (\A w \in Workers : SnapIsCurrent(w))

\* A new row is exact.
LEMMA AddedRowIsExact ==
  ASSUME IInv, ExactRows, NEW k, NEW type, NEW amount \in Int, NEW expires,
         RowAdded(k, type, amount, expires)
  PROVE  (\A i \in Rows : RowIsExact(i))'
<1> SUFFICES ASSUME NEW i \in Rows'
             PROVE  RowIsExact(i)'
  OBVIOUS
<1>1. CASE i = k
  <2>1. /\ transactions'[i].amount = amount /\ transactions'[i].remaining = amount
        /\ transactions'[i].processed = Never /\ taken'[i] = 0
    BY <1>1 DEF RowAdded
  <2> QED
    BY <2>1 DEF RowIsExact
<1>2. CASE i # k
  <2>1. i \in Rows /\ transactions'[i] = transactions[i] /\ taken'[i] = taken[i]
    BY <1>2 DEF RowAdded
  <2> QED
    BY <2>1 DEF ExactRows, RowIsExact
<1> QED
  BY <1>1, <1>2

\* A row that a current snapshot is written to stays exact, and the snapshot current.
LEMMA WrittenRowIsExact ==
  ASSUME IInv, ExactRows, NEW w \in Workers, pc[w] \in {"deduct", "expire"},
         NEW i \in DOMAIN job[w].snap, NEW d \in Nat, d <= job[w].snap[i], NEW processed,
         RowWritten(i, job[w].snap[i] - d, processed, d),
         job'[w].snap = Without(job[w].snap, i),
         processed = transactions[i].processed \/ d = job[w].snap[i]
  PROVE  /\ (\A k \in Rows : RowIsExact(k))'
         /\ \A k \in DOMAIN job'[w].snap : job'[w].snap[k] = transactions'[k].remaining
<1>1. job[w].snap \in [DOMAIN job[w].snap -> Nat \ {0}] /\ DOMAIN job[w].snap \subseteq Rows
  BY DEF IInv, TypeOK, JobsAreTyped, JobTyped
<1>2. /\ job[w].snap[i] \in Nat \ {0} /\ job[w].snap[i] = transactions[i].remaining
      /\ i \in Rows /\ RowIsExact(i) /\ transactions[i] \in Row /\ taken[i] \in Nat
  BY <1>1, Terms DEF ExactRows, SnapIsCurrent, TermsAreIntegers
<1>3. ASSUME NEW k \in Rows, k # i
      PROVE  RowIsExact(k)'
  <2>1. transactions'[k] = transactions[k] /\ taken'[k] = taken[k] /\ RowIsExact(k)
    BY <1>3 DEF RowWritten, ExactRows
  <2> QED
    BY <2>1 DEF RowIsExact
<1>4. RowIsExact(i)'
  <2>1. /\ transactions'[i].type = transactions[i].type
        /\ transactions'[i].amount = transactions[i].amount
        /\ transactions'[i].remaining = transactions[i].remaining - d
        /\ transactions'[i].processed = processed /\ taken'[i] = taken[i] + d
    BY <1>2 DEF RowWritten
  <2>2. transactions[i].amount \in Int /\ transactions[i].remaining \in Int
    BY <1>2 DEF Row
  <2> QED
    BY <1>2, <2>1, <2>2 DEF RowIsExact
<1>5. Rows' = Rows
  BY DEF RowWritten
<1>6. ASSUME NEW k \in DOMAIN job'[w].snap
      PROVE  job'[w].snap[k] = transactions'[k].remaining
  <2>1. k \in DOMAIN job[w].snap /\ k # i /\ job'[w].snap[k] = job[w].snap[k]
    BY <1>6 DEF Without
  <2>2. transactions'[k] = transactions[k]
    BY <1>1, <2>1 DEF RowWritten
  <2> QED
    BY <2>1, <2>2 DEF ExactRows, SnapIsCurrent
<1> QED
  BY <1>3, <1>4, <1>5, <1>6

\* Every step of the only request keeps the rows exact.
LEMMA StepKeepsExact ==
  ASSUME Serial, IInv, ExactRows, NEW w \in Workers,
         RecordUsage(w) \/ Refresh(w) \/ Purchase(w) \/ Abort(w)
  PROVE  ExactRows'
<1>1. \A v \in Workers : v = w
  BY DEF Serial
<1>2. DOMAIN pc = Workers /\ DOMAIN job = Workers /\ JobTyped(job[w])
  BY DEF IInv, TypeOK, JobsAreTyped
<1>3. ASSUME (\A i \in Rows : RowIsExact(i))', SnapIsCurrent(w)'
      PROVE  ExactRows'
  <2>1. (\A v \in Workers : SnapIsCurrent(v))'
    BY <1>1, <1>3
  <2> QED
    BY <1>3, <2>1 DEF ExactRows
<1>4. UNCHANGED <<transactions, taken>> => (\A i \in Rows : RowIsExact(i))'
  BY DEF ExactRows, Rows, RowIsExact
<1>5. pc'[w] \notin {"deduct", "expire", "debit"} => SnapIsCurrent(w)'
  BY DEF SnapIsCurrent
<1>6. CASE ReadBalance(w) \/ ChargeBalance(w) \/ InsertEvent(w) \/ AddToDaily(w)
           \/ MirrorCredits(w)
  <2>1. pc'[w] \notin {"deduct", "expire", "debit"}
    BY <1>2, <1>6
       DEF ReadBalance, ChargeBalance, InsertEvent, AddToDaily, MirrorCredits, Begin, Goto, Finish
  <2>2. UNCHANGED <<transactions, taken>>
    BY <1>6 DEF ReadBalance, ChargeBalance, InsertEvent, AddToDaily, MirrorCredits, accountVars,
                historyVars
  <2> QED
    BY <1>3, <1>4, <1>5, <2>1, <2>2
<1>7. CASE SelectActive(w) \/ SelectExpired(w)
  <2>1. UNCHANGED <<transactions, taken>>
    BY <1>7 DEF SelectActive, SelectExpired, accountVars, historyVars
  <2>2. PICK S \in SUBSET Rows : job'[w].snap = Snapshot(S)
    <3>1. CASE SelectActive(w)
      <4>1. job'[w].snap = Snapshot({i \in Rows : Active(i, now)})
        BY <1>2, <3>1 DEF SelectActive, JobTyped
      <4> QED
        BY <4>1
    <3>2. CASE SelectExpired(w)
      <4>1. job'[w].snap = Snapshot({i \in Rows : Expired(i, job[w].at)})
        BY <1>2, <3>2 DEF SelectExpired, JobTyped
      <4> QED
        BY <4>1
    <3> QED
      BY <1>7, <3>1, <3>2
  <2>3. SnapIsCurrent(w)'
    BY <2>1, <2>2 DEF SnapIsCurrent, Snapshot
  <2> QED
    BY <1>3, <1>4, <2>1, <2>3
<1>8. CASE DeductFromGrant(w)
  <2>1. PICK i \in DOMAIN job[w].snap : \E d \in Nat :
          /\ d <= job[w].snap[i]
          /\ RowWritten(i, job[w].snap[i] - d, transactions[i].processed, d)
          /\ job'[w].snap = Without(job[w].snap, i)
    BY <1>8, DeductWritesRow
  <2>2. PICK d \in Nat :
          /\ d <= job[w].snap[i]
          /\ RowWritten(i, job[w].snap[i] - d, transactions[i].processed, d)
          /\ job'[w].snap = Without(job[w].snap, i)
    BY <2>1
  <2>3. pc[w] = "deduct"
    BY <1>8 DEF DeductFromGrant
  <2>4. /\ (\A k \in Rows : RowIsExact(k))'
        /\ \A k \in DOMAIN job'[w].snap : job'[w].snap[k] = transactions'[k].remaining
    BY <2>2, <2>3, WrittenRowIsExact
  <2> QED
    BY <1>3, <2>4 DEF SnapIsCurrent
<1>9. CASE ExpireGrant(w)
  <2>1. PICK i \in DOMAIN job[w].snap :
          /\ RowWritten(i, 0, job[w].at, job[w].snap[i])
          /\ job'[w].snap = Without(job[w].snap, i)
    BY <1>9, ExpireWritesRow
  <2> DEFINE d == job[w].snap[i]
  <2>2. d \in Nat /\ d <= d /\ d - d = 0
    BY <1>2 DEF JobTyped
  <2>3. pc[w] = "expire"
    BY <1>9 DEF ExpireGrant, Goto
  <2>4. RowWritten(i, job[w].snap[i] - d, job[w].at, d)
    BY <2>1, <2>2
  <2>5. d <= job[w].snap[i] /\ d = job[w].snap[i]
    BY <2>2
  <2> HIDE DEF d
  <2>6. /\ (\A k \in Rows : RowIsExact(k))'
        /\ \A k \in DOMAIN job'[w].snap : job'[w].snap[k] = transactions'[k].remaining
    BY <2>1, <2>2, <2>3, <2>4, <2>5, WrittenRowIsExact
  <2> QED
    BY <1>3, <2>6 DEF SnapIsCurrent
<1>10. CASE LogUsage(w) \/ LogMonthly(w) \/ LogPurchase(w)
  <2>1. pc'[w] \notin {"deduct", "expire", "debit"}
    BY <1>2, <1>10 DEF LogUsage, LogMonthly, LogPurchase, Goto, Finish
  <2>2. \E type \in Kinds, amount \in Int, expires \in Nat \cup {Never} :
          Log(type, amount, expires)
    <3>1. job[w].cost \in Nat /\ job[w].at \in Nat /\ FreeMonthlyCredits \in Nat /\ Month \in Nat
      BY <1>2, LedgerAssumption DEF JobTyped
    <3>2. CASE LogUsage(w)
      <4>1. -job[w].cost \in Int /\ Log("USAGE", -job[w].cost, Never)
        BY <3>1, <3>2 DEF LogUsage
      <4> QED
        BY <4>1 DEF Kinds
    <3>3. CASE LogMonthly(w)
      <4>1. job[w].at + Month \in Nat
        BY <3>1
      <4>2. Log("MONTHLY_REFRESH", FreeMonthlyCredits, job[w].at + Month)
        BY <3>3 DEF LogMonthly
      <4> DEFINE until == job[w].at + Month
      <4> HIDE DEF until
      <4>3. until \in Nat /\ Log("MONTHLY_REFRESH", FreeMonthlyCredits, until)
        BY <4>1, <4>2 DEF until
      <4> QED
        BY <3>1, <4>3 DEF Kinds
    <3>4. CASE LogPurchase(w)
      <4>1. "PURCHASE" \in Kinds /\ job[w].cost \in Int /\ Never \in Nat \cup {Never}
        BY <3>1 DEF Kinds
      <4>2. Log("PURCHASE", job[w].cost, Never)
        BY <3>4 DEF LogPurchase
      <4> QED
        BY <4>1, <4>2
    <3> QED
      BY <1>10, <3>2, <3>3, <3>4
  <2>3. (\A i \in Rows : RowIsExact(i))'
    BY <2>2, LogAddsRow, AddedRowIsExact
  <2> QED
    BY <1>3, <1>5, <2>1, <2>3
<1>11. CASE DebitExpired(w) \/ GrantMonthly(w)
  <2>1. UNCHANGED <<transactions, taken>> /\ job'[w].snap = job[w].snap
    BY <1>2, <1>11 DEF DebitExpired, GrantMonthly, historyVars, JobTyped
  <2>2. pc[w] \in {"expire", "debit"}
    BY <1>11 DEF DebitExpired, GrantMonthly, Goto
  <2>3. SnapIsCurrent(w)'
    BY <2>1, <2>2 DEF ExactRows, SnapIsCurrent
  <2> QED
    BY <1>3, <1>4, <2>1, <2>3
<1>12. CASE ReadRefreshState(w) \/ MarkRefreshed(w) \/ PurchaseBalance(w) \/ Abort(w)
  <2>1. pc'[w] \notin {"deduct", "expire", "debit"}
    BY <1>2, <1>12 DEF ReadRefreshState, MarkRefreshed, PurchaseBalance, Abort, Begin, Finish
  <2>2. UNCHANGED <<transactions, taken>>
    BY <1>12 DEF ReadRefreshState, MarkRefreshed, PurchaseBalance, Abort, accountVars, historyVars
  <2> QED
    BY <1>3, <1>4, <1>5, <2>1, <2>2
<1> QED
  BY <1>6, <1>7, <1>8, <1>9, <1>10, <1>11, <1>12 DEF RecordUsage, Refresh, Purchase

\* When requests do not overlap, a grant holds exactly its amount less what was
\* drawn from it, and nothing once it was processed, also when requests are cut
\* short: the absolute writes of the loops lose nothing.
THEOREM SerialGrantsAreExact ==
  ASSUME Serial
  PROVE  Spec => []GrantsAreExact
<1>1. Init => ExactRows
  BY DEF Init, ExactRows, Rows, SnapIsCurrent
<1>2. IInv /\ ExactRows /\ [Next]_vars => ExactRows'
  <2> SUFFICES ASSUME IInv, ExactRows, [Next]_vars
               PROVE  ExactRows'
    OBVIOUS
  <2>1. CASE Tick \/ UNCHANGED vars
    BY <2>1 DEF Tick, vars, accountVars, historyVars, ExactRows, RowIsExact, SnapIsCurrent, Rows
  <2> QED
    BY <2>1, StepKeepsExact DEF Next
<1>3. ExactRows => GrantsAreExact
  BY DEF ExactRows, RowIsExact, GrantsAreExact, Grants
<1> QED
  BY <1>1, <1>2, <1>3, Invariance, PTL DEF Spec

-----------------------------------------------------------------------------
(* One request at a time: the free grants. *)

\* The statements of a refresh before its row is written.
Refreshing == {"selectExpired", "expire", "debit", "logMonthly"}

EarlyCount == Cardinality(EarlyGrants)

\* lastCreditRefreshAt is up to date with the rows, or about to be.
GrantIsRemembered(w) ==
  \/ pc[w] = "markRefreshed"
  \/ \A i \in FreeGrants :
       lastRefreshAt # Never /\ transactions[i].expires <= lastRefreshAt + Month

\* What a refresh that is under way once checked is still true.
RefreshIsDue(w) ==
  pc[w] \in Refreshing => lastRefreshAt = Never \/ job[w].at - lastRefreshAt >= Month

\* A refresh that is under way began after the free grants there are.
RefreshIsNewest(w) ==
  pc[w] \in Refreshing \cup {"markRefreshed"} =>
    /\ job[w].at <= now
    /\ \A i \in FreeGrants : transactions[i].expires <= job[w].at + Month

\* A free grant that is not remembered was paid for by a request that was cut short.
MonthlyInv ==
  /\ \A i \in FreeGrants : transactions[i].expires <= now + Month
  /\ EarlyCount <= failures
  /\ \A w \in Workers :
       /\ GrantIsRemembered(w) \/ EarlyCount + 1 <= failures
       /\ RefreshIsDue(w) /\ RefreshIsNewest(w)

\* What LogMonthly alone does not satisfy: no free grant is added.
NoNewGrant ==
  \A i \in FreeGrants' : i \in FreeGrants /\ transactions'[i].expires = transactions[i].expires

\* Only LogMonthly adds a free grant, and no statement changes when one expires.
LEMMA OnlyLogMonthlyGrants ==
  ASSUME IInv, NEW w \in Workers,
         RecordUsage(w) \/ Refresh(w) \/ Purchase(w) \/ Abort(w), ~LogMonthly(w)
  PROVE  NoNewGrant
<1>1. UNCHANGED transactions => NoNewGrant
  BY DEF NoNewGrant, FreeGrants, Rows
<1>2. ASSUME NEW type, type # "MONTHLY_REFRESH", NEW amount, NEW expires,
             Log(type, amount, expires)
      PROVE  NoNewGrant
  <2> DEFINE k == Len(transactions) + 1
  <2>1. RowAdded(k, type, amount, expires)
    BY <1>2, LogAddsRow
  <2> HIDE DEF k
  <2> SUFFICES ASSUME NEW i \in Rows', transactions'[i].type = "MONTHLY_REFRESH"
               PROVE  i \in FreeGrants /\ transactions'[i].expires = transactions[i].expires
    BY DEF NoNewGrant, FreeGrants
  <2>2. i # k
    BY <1>2, <2>1 DEF RowAdded
  <2> QED
    BY <2>1, <2>2 DEF RowAdded, FreeGrants
<1>3. ASSUME NEW i, NEW rest, NEW processed, NEW d, RowWritten(i, rest, processed, d)
      PROVE  NoNewGrant
  BY <1>3 DEF RowWritten, NoNewGrant, FreeGrants
<1>4. CASE UNCHANGED transactions
  BY <1>1, <1>4
<1>5. CASE DeductFromGrant(w)
  BY <1>3, <1>5, DeductWritesRow
<1>6. CASE ExpireGrant(w)
  BY <1>3, <1>6, ExpireWritesRow
<1>7. CASE LogUsage(w)
  BY <1>2, <1>7 DEF LogUsage
<1>8. CASE LogPurchase(w)
  BY <1>2, <1>8 DEF LogPurchase
<1>9. ReadBalance(w) \/ SelectActive(w) \/ ChargeBalance(w) \/ InsertEvent(w) \/ AddToDaily(w)
        \/ MirrorCredits(w) \/ ReadRefreshState(w) \/ SelectExpired(w) \/ DebitExpired(w)
        \/ GrantMonthly(w) \/ MarkRefreshed(w) \/ PurchaseBalance(w) \/ Abort(w)
        => UNCHANGED transactions
  BY DEF ReadBalance, SelectActive, ChargeBalance, InsertEvent, AddToDaily, MirrorCredits,
         ReadRefreshState, SelectExpired, DebitExpired, GrantMonthly, MarkRefreshed,
         PurchaseBalance, Abort, accountVars
<1> QED
  BY <1>4, <1>5, <1>6, <1>7, <1>8, <1>9 DEF RecordUsage, Refresh, Purchase

\* There are finitely many free grants that came early.
LEMMA EarlyGrantsAreFinite ==
  ASSUME IInv
  PROVE  IsFiniteSet(EarlyGrants) /\ EarlyCount \in Nat
<1>1. IsFiniteSet(Rows) /\ EarlyGrants \subseteq Rows
  BY Terms DEF TermsAreIntegers, EarlyGrants, FreeGrants
<1>2. IsFiniteSet(EarlyGrants)
  BY <1>1, FS_Subset
<1> QED
  BY <1>2, FS_CardinalityType DEF EarlyCount

\* Without a new free grant no grant becomes an early one.
LEMMA NoNewGrantIsEarly ==
  ASSUME IInv, NoNewGrant
  PROVE  EarlyCount' \in Nat /\ EarlyCount' <= EarlyCount
<1>1. ASSUME NEW j \in EarlyGrants'
      PROVE  j \in EarlyGrants
  <2>1. PICK i \in FreeGrants' :
          i < j /\ transactions'[j].expires - transactions'[i].expires < Month
    BY <1>1 DEF EarlyGrants
  <2>2. j \in FreeGrants'
    BY <1>1 DEF EarlyGrants
  <2>3. /\ i \in FreeGrants /\ transactions'[i].expires = transactions[i].expires
        /\ j \in FreeGrants /\ transactions'[j].expires = transactions[j].expires
    BY <2>1, <2>2 DEF NoNewGrant
  <2>4. transactions[j].expires - transactions[i].expires < Month
    BY <2>1, <2>3
  <2> QED
    BY <2>1, <2>3, <2>4 DEF EarlyGrants
<1>2. PICK E : E = EarlyGrants'
  OBVIOUS
<1>3. E \subseteq EarlyGrants
  BY <1>1, <1>2
<1>4. IsFiniteSet(E) /\ Cardinality(E) <= Cardinality(EarlyGrants)
  BY <1>3, EarlyGrantsAreFinite, FS_Subset
<1>5. Cardinality(E) \in Nat
  BY <1>4, FS_CardinalityType
<1>6. EarlyCount' = Cardinality(E)
  BY <1>2 DEF EarlyCount
<1> QED
  BY <1>4, <1>5, <1>6 DEF EarlyCount

\* A step that adds no free grant and moves neither the clock, the failures nor
\* lastCreditRefreshAt keeps the invariant of the grants.
LEMMA OtherStepsKeepMonthly ==
  ASSUME IInv, MonthlyInv, NEW w \in Workers, NoNewGrant, pc[w] # "markRefreshed",
         now' = now, failures' = failures, lastRefreshAt' = lastRefreshAt
  PROVE  /\ \A i \in FreeGrants' : transactions'[i].expires <= now' + Month
         /\ EarlyCount' <= failures'
         /\ GrantIsRemembered(w)' \/ EarlyCount' + 1 <= failures'
<1>1. \A i \in FreeGrants' : transactions'[i].expires <= now' + Month
  BY DEF NoNewGrant, MonthlyInv
<1>2. /\ EarlyCount \in Nat /\ EarlyCount' \in Nat /\ EarlyCount' <= EarlyCount
      /\ failures \in Nat /\ EarlyCount <= failures
  BY EarlyGrantsAreFinite, NoNewGrantIsEarly DEF MonthlyInv, IInv, TypeOK
<1>3. GrantIsRemembered(w) => GrantIsRemembered(w)'
  <2> SUFFICES ASSUME GrantIsRemembered(w), NEW i \in FreeGrants'
               PROVE  lastRefreshAt' # Never /\ transactions'[i].expires <= lastRefreshAt' + Month
    BY DEF GrantIsRemembered
  <2>1. i \in FreeGrants /\ transactions'[i].expires = transactions[i].expires
    BY DEF NoNewGrant
  <2> QED
    BY <2>1 DEF GrantIsRemembered
<1>4. GrantIsRemembered(w) \/ EarlyCount + 1 <= failures
  BY DEF MonthlyInv
<1>5. EarlyCount' <= failures'
  BY <1>2
<1>6. EarlyCount + 1 <= failures => EarlyCount' + 1 <= failures'
  <2>1. \A a, b, c \in Nat : b <= a /\ a + 1 <= c => b + 1 <= c
    OBVIOUS
  <2> QED
    BY <1>2, <2>1
<1> QED
  BY <1>1, <1>3, <1>4, <1>5, <1>6

\* A free grant that is logged lies a month after the earlier ones, or was given
\* again for a refresh that was cut short.
LEMMA LogMonthlyKeepsMonthly ==
  ASSUME IInv, MonthlyInv, NEW w \in Workers, LogMonthly(w)
  PROVE  /\ \A i \in FreeGrants' : transactions'[i].expires <= now' + Month
         /\ EarlyCount' <= failures'
         /\ GrantIsRemembered(w)' /\ RefreshIsDue(w)' /\ RefreshIsNewest(w)'
<1> DEFINE k == Len(transactions) + 1
           until == job[w].at + Month
<1>1. RowAdded(k, "MONTHLY_REFRESH", FreeMonthlyCredits, until)
  BY LogAddsRow DEF LogMonthly
<1>2. k \in Nat /\ \A n \in FreeGrants : n \in Nat
  <2>1. Rows = 1..Len(transactions) /\ Len(transactions) \in Nat
    BY LenProperties DEF IInv, TableFits, Rows
  <2> QED
    BY <2>1 DEF FreeGrants
<1> HIDE DEF k
<1>3. /\ pc[w] = "logMonthly" /\ pc'[w] = "markRefreshed" /\ job' = job
      /\ lastRefreshAt' = lastRefreshAt /\ now' = now /\ failures' = failures
  BY DEF LogMonthly, Goto, IInv, TypeOK
<1>4. /\ job[w].at \in Nat /\ Month \in Nat /\ until = job[w].at + Month /\ now \in Nat
      /\ lastRefreshAt \in Nat \cup {Never} /\ failures \in Nat /\ job[w].at <= now
  BY <1>3, LedgerAssumption
     DEF IInv, TypeOK, JobsAreTyped, JobTyped, MonthlyInv, RefreshIsNewest, Refreshing
<1>5. \A i \in FreeGrants : transactions[i].expires \in Int /\ transactions[i].expires <= until
  <2>1. \A i \in FreeGrants : transactions[i].expires \in Int
    BY Terms DEF FreeGrants, TermsAreIntegers, Row, Never
  <2>2. \A i \in FreeGrants : transactions[i].expires <= until
    BY <1>3 DEF MonthlyInv, RefreshIsNewest, Refreshing
  <2> QED
    BY <2>1, <2>2
<1> HIDE DEF until
<1>6. /\ FreeGrants' = FreeGrants \cup {k} /\ \A i \in FreeGrants : i < k
      /\ transactions'[k].expires = until
      /\ \A i \in FreeGrants : transactions'[i].expires = transactions[i].expires
  BY <1>1 DEF RowAdded, FreeGrants
<1>7. \A i \in FreeGrants' : transactions'[i].expires \in Int /\ transactions'[i].expires <= until
  BY <1>4, <1>5, <1>6
<1>8. /\ \A i \in FreeGrants' : transactions'[i].expires <= now' + Month
      /\ GrantIsRemembered(w)' /\ RefreshIsDue(w)' /\ RefreshIsNewest(w)'
  <2>1. GrantIsRemembered(w)' /\ RefreshIsDue(w)'
    BY <1>3 DEF GrantIsRemembered, RefreshIsDue, Refreshing
  <2>2. until <= now' + Month
    BY <1>3, <1>4
  <2>3. \A i \in FreeGrants' : transactions'[i].expires <= now' + Month
    BY <1>3, <1>4, <1>7, <2>2
  <2>4. RefreshIsNewest(w)'
    <3>1. job'[w].at <= now' /\ until = job'[w].at + Month
      BY <1>3, <1>4
    <3> QED
      BY <1>7, <3>1 DEF RefreshIsNewest
  <2> QED
    BY <2>1, <2>3, <2>4
<1>9. ASSUME NEW j \in EarlyGrants', j # k
      PROVE  j \in EarlyGrants
  <2>1. PICK i \in FreeGrants' :
          i < j /\ transactions'[j].expires - transactions'[i].expires < Month
    BY <1>9 DEF EarlyGrants
  <2>2. j \in FreeGrants' /\ j \in FreeGrants
    BY <1>6, <1>9 DEF EarlyGrants
  <2>3. i \in FreeGrants
    BY <1>2, <1>6, <2>1, <2>2
  <2> QED
    BY <1>6, <2>1, <2>2, <2>3 DEF EarlyGrants
<1>10. PICK E : E = EarlyGrants'
  OBVIOUS
<1>11. EarlyCount' = Cardinality(E) /\ EarlyCount \in Nat /\ EarlyCount <= failures
  BY <1>10, EarlyGrantsAreFinite DEF EarlyCount, MonthlyInv
<1>12. CASE GrantIsRemembered(w)
  <2>1. ASSUME NEW i \in FreeGrants
        PROVE  until - transactions[i].expires >= Month
    <3>1. lastRefreshAt # Never /\ transactions[i].expires <= lastRefreshAt + Month
      BY <1>3, <1>12 DEF GrantIsRemembered
    <3>2. job[w].at - lastRefreshAt >= Month
      BY <1>3, <3>1 DEF MonthlyInv, RefreshIsDue, Refreshing
    <3> QED
      BY <1>4, <1>5, <3>1, <3>2
  <2>2. k \notin E
    <3>1. SUFFICES ASSUME NEW i \in FreeGrants', i < k,
                          transactions'[k].expires - transactions'[i].expires < Month
                   PROVE  FALSE
      BY <1>10 DEF EarlyGrants
    <3>2. i \in FreeGrants
      BY <1>2, <1>6, <3>1
    <3>3. until - transactions[i].expires < Month
      BY <1>6, <3>1, <3>2
    <3>4. until \in Int /\ transactions[i].expires \in Int /\ Month \in Nat
      BY <1>4, <1>5, <3>2
    <3> QED
      BY <2>1, <3>2, <3>3, <3>4
  <2>3. E \subseteq EarlyGrants
    BY <1>9, <1>10, <2>2
  <2>4. Cardinality(E) <= EarlyCount /\ IsFiniteSet(E)
    BY <2>3, EarlyGrantsAreFinite, FS_Subset DEF EarlyCount
  <2>5. Cardinality(E) \in Nat
    BY <2>4, FS_CardinalityType
  <2> QED
    BY <1>3, <1>4, <1>8, <1>11, <2>4, <2>5
<1>13. CASE ~GrantIsRemembered(w)
  <2>1. EarlyCount + 1 <= failures
    BY <1>13 DEF MonthlyInv
  <2>2. E \subseteq EarlyGrants \cup {k}
    BY <1>9, <1>10
  <2>3. /\ IsFiniteSet(EarlyGrants \cup {k})
        /\ Cardinality(EarlyGrants \cup {k}) \in Nat
        /\ Cardinality(EarlyGrants \cup {k}) <= EarlyCount + 1
    <3>1. /\ IsFiniteSet(EarlyGrants \cup {k})
          /\ \/ Cardinality(EarlyGrants \cup {k}) = Cardinality(EarlyGrants)
             \/ Cardinality(EarlyGrants \cup {k}) = Cardinality(EarlyGrants) + 1
      BY EarlyGrantsAreFinite, FS_AddElement
    <3> QED
      BY <1>11, <3>1 DEF EarlyCount
  <2>4. Cardinality(E) <= Cardinality(EarlyGrants \cup {k}) /\ IsFiniteSet(E)
    BY <2>2, <2>3, FS_Subset
  <2>5. Cardinality(E) \in Nat
    BY <2>4, FS_CardinalityType
  <2> QED
    BY <1>3, <1>4, <1>8, <1>11, <2>1, <2>3, <2>4, <2>5
<1> QED
  BY <1>12, <1>13

\* Every step of the only request keeps the invariant.
LEMMA StepKeepsMonthly ==
  ASSUME Serial, IInv, MonthlyInv, NEW w \in Workers,
         RecordUsage(w) \/ Refresh(w) \/ Purchase(w) \/ Abort(w)
  PROVE  MonthlyInv'
<1>1. \A v \in Workers : v = w
  BY DEF Serial
<1>2. /\ DOMAIN pc = Workers /\ DOMAIN job = Workers /\ JobTyped(job[w]) /\ failures \in Nat
      /\ now \in Nat
  BY DEF IInv, TypeOK, JobsAreTyped
<1>3. SUFFICES /\ \A i \in FreeGrants' : transactions'[i].expires <= now' + Month
               /\ EarlyCount' <= failures'
               /\ GrantIsRemembered(w)' \/ EarlyCount' + 1 <= failures'
               /\ RefreshIsDue(w)' /\ RefreshIsNewest(w)'
  BY <1>1 DEF MonthlyInv
<1>4. RefreshIsDue(w) /\ RefreshIsNewest(w)
  BY DEF MonthlyInv
<1>5. CASE LogMonthly(w)
  BY <1>5, LogMonthlyKeepsMonthly
<1>6. CASE MarkRefreshed(w)
  <2>1. NoNewGrant
    BY <1>6, OnlyLogMonthlyGrants DEF LogMonthly, MarkRefreshed, Goto
  <2>2. /\ pc[w] = "markRefreshed" /\ pc'[w] = "idle" /\ lastRefreshAt' = job[w].at
        /\ job[w].at \in Nat /\ now' = now /\ failures' = failures
    BY <1>2, <1>6 DEF MarkRefreshed, Finish, JobTyped
  <2>3. \A i \in FreeGrants' : transactions'[i].expires <= now' + Month
    BY <2>1, <2>2 DEF NoNewGrant, MonthlyInv
  <2>4. EarlyCount' <= failures'
    <3>1. /\ EarlyCount \in Nat /\ EarlyCount' \in Nat /\ EarlyCount' <= EarlyCount
          /\ EarlyCount <= failures
      BY <2>1, EarlyGrantsAreFinite, NoNewGrantIsEarly DEF MonthlyInv
    <3> QED
      BY <1>2, <2>2, <3>1
  <2>5. ASSUME NEW i \in FreeGrants'
        PROVE  lastRefreshAt' # Never /\ transactions'[i].expires <= lastRefreshAt' + Month
    BY <1>4, <2>1, <2>2 DEF NoNewGrant, RefreshIsNewest, Never
  <2>6. GrantIsRemembered(w)'
    BY <2>5 DEF GrantIsRemembered
  <2>7. RefreshIsDue(w)' /\ RefreshIsNewest(w)'
    BY <2>2 DEF RefreshIsDue, RefreshIsNewest, Refreshing
  <2> QED
    BY <2>3, <2>4, <2>6, <2>7
<1>7. CASE Abort(w)
  <2>1. NoNewGrant
    BY <1>2, <1>7, OnlyLogMonthlyGrants DEF LogMonthly, Abort, Goto, Finish
  <2>2. pc'[w] = "idle" /\ now' = now /\ failures' = failures + 1
    BY <1>2, <1>7 DEF Abort, Finish
  <2>3. \A i \in FreeGrants' : transactions'[i].expires <= now' + Month
    BY <2>1, <2>2 DEF NoNewGrant, MonthlyInv
  <2>4. EarlyCount' + 1 <= failures' /\ EarlyCount' <= failures'
    <3>1. /\ EarlyCount \in Nat /\ EarlyCount' \in Nat /\ EarlyCount' <= EarlyCount
          /\ EarlyCount <= failures /\ failures \in Nat /\ failures' = failures + 1
      BY <1>2, <2>1, <2>2, EarlyGrantsAreFinite, NoNewGrantIsEarly DEF MonthlyInv
    <3>2. \A a, b, c \in Nat : b <= a /\ a <= c => b + 1 <= c + 1 /\ b <= c + 1
      OBVIOUS
    <3> QED
      BY <3>1, <3>2
  <2>5. RefreshIsDue(w)' /\ RefreshIsNewest(w)'
    BY <2>2 DEF RefreshIsDue, RefreshIsNewest, Refreshing
  <2> QED
    BY <2>3, <2>4, <2>5
<1>8. CASE ~LogMonthly(w) /\ ~MarkRefreshed(w) /\ ~Abort(w)
  <2>1. NoNewGrant
    BY <1>8, OnlyLogMonthlyGrants
  <2>2. /\ pc[w] # "markRefreshed" /\ now' = now /\ failures' = failures
        /\ lastRefreshAt' = lastRefreshAt /\ RefreshIsDue(w)' /\ RefreshIsNewest(w)'
    <3>1. CASE ReadBalance(w) \/ SelectActive(w) \/ DeductFromGrant(w) \/ ChargeBalance(w)
               \/ LogUsage(w) \/ InsertEvent(w) \/ AddToDaily(w) \/ MirrorCredits(w)
               \/ PurchaseBalance(w) \/ LogPurchase(w)
      <4>1. /\ pc[w] # "markRefreshed" /\ now' = now /\ failures' = failures
            /\ lastRefreshAt' = lastRefreshAt /\ pc'[w] \notin Refreshing \cup {"markRefreshed"}
        BY <1>2, <3>1 DEF ReadBalance, SelectActive, DeductFromGrant, ChargeBalance, LogUsage,
             InsertEvent, AddToDaily, MirrorCredits, PurchaseBalance, LogPurchase, Begin, Goto,
             Finish, accountVars, historyVars, Refreshing
      <4> QED
        BY <4>1 DEF RefreshIsDue, RefreshIsNewest
    <3>2. CASE SelectExpired(w) \/ ExpireGrant(w) \/ DebitExpired(w) \/ GrantMonthly(w)
      <4>1. /\ pc[w] \in Refreshing /\ pc[w] # "markRefreshed" /\ pc'[w] # "markRefreshed"
            /\ lastRefreshAt' = lastRefreshAt /\ now' = now /\ failures' = failures
        BY <1>2, <3>2 DEF SelectExpired, ExpireGrant, DebitExpired, GrantMonthly, Goto,
             accountVars, historyVars, Refreshing
      <4>2. job'[w].at = job[w].at
        <5>1. CASE SelectExpired(w)
          BY <1>2, <5>1 DEF SelectExpired, JobTyped
        <5>2. CASE ExpireGrant(w)
          <6>1. PICK i \in DOMAIN job[w].snap :
                  job' = [job EXCEPT ![w].debit = job[w].snap[i], ![w].snap = Without(@, i)]
            BY <5>2 DEF ExpireGrant
          <6> QED
            BY <1>2, <6>1 DEF JobTyped
        <5>3. CASE DebitExpired(w) \/ GrantMonthly(w)
          BY <1>2, <5>3 DEF DebitExpired, GrantMonthly, JobTyped
        <5> QED
          BY <3>2, <5>1, <5>2, <5>3
      <4>3. RefreshIsDue(w)'
        BY <1>4, <4>1, <4>2 DEF RefreshIsDue
      <4>4. RefreshIsNewest(w)'
        BY <1>4, <2>1, <4>1, <4>2 DEF RefreshIsNewest, NoNewGrant
      <4> QED
        BY <4>1, <4>3, <4>4
    <3>3. CASE ReadRefreshState(w)
      <4>1. /\ pc[w] = "idle" /\ pc'[w] # "markRefreshed" /\ lastRefreshAt' = lastRefreshAt
            /\ now' = now /\ failures' = failures
        BY <1>2, <3>3 DEF ReadRefreshState, Begin, accountVars
      <4>2. CASE RefreshDue(now)
        <5>1. job'[w].at = now
          BY <1>2, <3>3, <4>2 DEF ReadRefreshState, NewJob
        <5>2. RefreshIsDue(w)'
          BY <4>1, <4>2, <5>1 DEF RefreshDue, RefreshIsDue
        <5>3. RefreshIsNewest(w)'
          BY <1>2, <2>1, <4>1, <5>1 DEF RefreshIsNewest, NoNewGrant, MonthlyInv
        <5> QED
          BY <4>1, <5>2, <5>3
      <4>3. CASE ~RefreshDue(now)
        <5>1. pc'[w] = "idle"
          BY <3>3, <4>1, <4>3 DEF ReadRefreshState
        <5> QED
          BY <4>1, <5>1 DEF RefreshIsDue, RefreshIsNewest, Refreshing
      <4> QED
        BY <4>2, <4>3
    <3> QED
      BY <1>8, <3>1, <3>2, <3>3 DEF RecordUsage, Refresh, Purchase
  <2> QED
    BY <2>1, <2>2, OtherStepsKeepMonthly
<1> QED
  BY <1>5, <1>6, <1>7, <1>8

\* When requests do not overlap, a free grant comes a month after the earlier ones,
\* but for one after each request that was cut short: the check of
\* addFreeMonthlyCreditsIfNeeded is still true when its grant is logged, and its
\* grant is remembered before the next check unless the request dies in between.
THEOREM SerialFreeGrantsAreMonthly ==
  ASSUME Serial
  PROVE  Spec => []OneFreeGrantPerMonth
<1>1. Init => MonthlyInv
  <2> SUFFICES ASSUME Init
               PROVE  MonthlyInv
    OBVIOUS
  <2>1. FreeGrants = {} /\ EarlyGrants = {}
    BY DEF Init, FreeGrants, EarlyGrants, Rows
  <2>2. EarlyCount = 0
    BY <2>1, FS_EmptySet DEF EarlyCount
  <2> QED
    BY <2>1, <2>2 DEF Init, MonthlyInv, GrantIsRemembered, RefreshIsDue, RefreshIsNewest, Refreshing
<1>2. IInv /\ MonthlyInv /\ [Next]_vars => MonthlyInv'
  <2> SUFFICES ASSUME IInv, MonthlyInv, [Next]_vars
               PROVE  MonthlyInv'
    OBVIOUS
  <2>1. CASE Tick \/ UNCHANGED vars
    <3>1. /\ now \in Nat /\ now' \in Nat /\ now <= now' /\ Month \in Nat
          /\ UNCHANGED <<transactions, pc, job, lastRefreshAt, failures>>
      BY <2>1, LedgerAssumption DEF Tick, vars, accountVars, historyVars, IInv, TypeOK
    <3>2. FreeGrants' = FreeGrants /\ EarlyGrants' = EarlyGrants
      BY <3>1 DEF FreeGrants, EarlyGrants, Rows
    <3>3. EarlyCount' = EarlyCount
      BY <3>2 DEF EarlyCount
    <3>4. \A i \in FreeGrants : transactions[i].expires \in Int
      BY Terms DEF FreeGrants, TermsAreIntegers, Row, Never
    <3>5. \A w \in Workers : job[w].at \in Nat
      BY DEF IInv, TypeOK, JobsAreTyped, JobTyped
    <3>6. \A i \in FreeGrants' : transactions'[i].expires <= now' + Month
      BY <3>1, <3>2, <3>4 DEF MonthlyInv
    <3>7. \A w \in Workers : /\ GrantIsRemembered(w) => GrantIsRemembered(w)'
                             /\ RefreshIsDue(w) => RefreshIsDue(w)'
      BY <3>1, <3>2 DEF GrantIsRemembered, RefreshIsDue
    <3>8. \A w \in Workers : RefreshIsNewest(w) => RefreshIsNewest(w)'
      BY <3>1, <3>2, <3>5 DEF RefreshIsNewest
    <3> QED
      BY <3>1, <3>3, <3>6, <3>7, <3>8 DEF MonthlyInv
  <2> QED
    BY <2>1, StepKeepsMonthly DEF Next
<1>3. MonthlyInv => OneFreeGrantPerMonth
  BY DEF MonthlyInv, EarlyCount, OneFreeGrantPerMonth
<1> QED
  BY <1>1, <1>2, <1>3, Invariance, PTL DEF Spec
=============================================================================
