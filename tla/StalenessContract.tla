--------------------------- MODULE StalenessContract ---------------------------
(***************************************************************************)
(* What a cache in front of the database promises to those who read        *)
(* through it: an answer is put together from data that was current, part  *)
(* by part, no longer than MaxStale ago.  The rows of a scope change; the  *)
(* version of its data is the number of changes so far.  DashboardCache    *)
(* and MultiLevelCache implement this contract, each with its own MaxStale. *)
(***************************************************************************)
EXTENDS Integers, Sequences

CONSTANTS
  Scopes,   \* whose data is read
  Parts,    \* what an answer is put together from
  MaxStale  \* how long data may be served after it was replaced

VARIABLES
  now,
  changedAt, \* scope -> times of its changes: version v was replaced by change v + 1
  answers    \* the answer given by the last step, if it gave one

vars == <<now, changedAt, answers>>

Version(s) == Len(changedAt[s])

\* The versions that are current, or were replaced less than MaxStale ago.
Acceptable(s) ==
  {v \in 0..Version(s) : v < Version(s) => now < changedAt[s][v + 1] + MaxStale}

Init ==
  /\ now = 0
  /\ changedAt = [s \in Scopes |-> <<>>]
  /\ answers = {}

Work ==
  /\ answers' = {}
  /\ UNCHANGED <<now, changedAt>>

Tick ==
  /\ now' = now + 1
  /\ answers' = {}
  /\ UNCHANGED changedAt

Change(S) ==
  /\ changedAt' = [s \in Scopes |-> IF s \in S THEN Append(changedAt[s], now) ELSE changedAt[s]]
  /\ answers' = {}
  /\ UNCHANGED now

Answer(s, versions) ==
  /\ answers' = {[scope |-> s, versions |-> versions]}
  /\ UNCHANGED <<now, changedAt>>

Next ==
  \/ Work \/ Tick
  \/ \E S \in SUBSET Scopes : Change(S)
  \/ \E s \in Scopes : \E versions \in [Parts -> Acceptable(s)] : Answer(s, versions)

Spec == Init /\ [][Next]_vars
=============================================================================
