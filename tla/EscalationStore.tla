-------------------------- MODULE EscalationStore --------------------------
(***************************************************************************)
(* The table public.hmsh_escalations and the guarded SQL statements that   *)
(* write it (services/escalation/crud.ts, bulk.ts, sql.ts,                 *)
(* claim-asserted.ts).  Every action below is ONE statement: its WHERE     *)
(* clause is the guard, its SET list the primed row.  Handlers that read,  *)
(* check and then call a statement are in EscalationApi.                   *)
(*                                                                         *)
(* A claim is implicit: the status stays "pending" and the row carries an  *)
(* assignee and the end of its window.  Time is the database clock, an     *)
(* integer that Tick advances.                                             *)
(***************************************************************************)
EXTENDS Naturals, FiniteSets

CONSTANTS
  Rows,      \* escalation ids
  Users,     \* principals that claim and resolve
  Roles,     \* queues
  NoUser,    \* assigned_to IS NULL
  Shape,     \* how the row's resolution reaches a workflow, see Shapes
  Flow,      \* workflow_id of the row
  Terms,     \* claim durations a caller may ask for
  MetaTerm,  \* the five minutes RESOLVE_BY_METADATA_ATOMIC stamps
  Horizon    \* bound of the clock

\* key     signal_key: the row and its waiter are one engine commit
\* signal  metadata.signal_id: a workflow waits, the API signals it
\* yaml    metadata.signal_routing with engine 'yaml'
\* routed  metadata.signal_routing of a durable workflow
\* rerun   workflow_type without any signal: the workflow has ended
\* note    notification only, nothing waits
Shapes == {"key", "signal", "yaml", "routed", "rerun", "note"}

ASSUME StoreAssumption ==
  /\ NoUser \notin Users
  /\ Shape \in [Rows -> Shapes]
  /\ Terms \subseteq Nat \ {0}
  /\ MetaTerm \in Nat \ {0}
  /\ Horizon \in Nat

VARIABLES
  row,   \* the table
  wait,  \* per row: what became of the workflow wait behind it
  dead,  \* workflows that were terminated
  now    \* NOW()

storeVars == <<row, wait, dead, now>>

Terminal == {"resolved", "cancelled", "expired"}
Statuses == {"none", "pending"} \cup Terminal
Waits == {"none", "waiting", "payload", "null", "timeout"}
NoWindow == 0                 \* assigned_until IS NULL

RowRecords ==
  [status : Statuses, role : Roles, assignee : Users \cup {NoUser},
   until : Nat, enriched : BOOLEAN]

Keyed(r) == Shape[r] = "key"
Flows == {Flow[r] : r \in Rows}   \* workflows that own a row
Waited == {"key", "signal", "yaml", "routed"}

Pending(r) == row[r].status = "pending"

\* A work lock: somebody is assigned and the window has not run out.
Live(r) == row[r].assignee # NoUser /\ row[r].until > now

\* Mutant: a claim may be taken while its window lasts.
ClaimableAnyway(r, u) == Pending(r)
\* claimable: free, without a window, lapsed, or already the caller's own
Claimable(r, u) ==
  /\ Pending(r)
  /\ \/ row[r].assignee = NoUser
     \/ row[r].until = NoWindow
     \/ row[r].until <= now
     \/ row[r].assignee = u

\* The predicate assertClaim adds to the guarded resolve: somebody else's
\* live window, or the caller's own lapsed one.
ClaimBlocks(r, u) ==
  /\ row[r].assignee # NoUser
  /\ row[r].until # NoWindow
  /\ (row[r].until > now) # (row[r].assignee = u)

Unassigned(e) == [e EXCEPT !.assignee = NoUser, !.until = NoWindow]
Settled(S, status) ==
  [r \in Rows |-> IF r \in S THEN [row[r] EXCEPT !.status = status] ELSE row[r]]

\* A keyed waiter is answered in the statement that settles its row, unless
\* its workflow was terminated.
Answered(S, answer) ==
  [r \in Rows |-> IF r \in S /\ Keyed(r) /\ Flow[r] \notin dead
                  THEN answer ELSE wait[r]]

-----------------------------------------------------------------------------
\* Init already names the queue a row will be created in.
StoreInit ==
  /\ row \in [Rows -> [status : {"none"}, role : Roles, assignee : {NoUser},
                       until : {NoWindow}, enriched : {FALSE}]]
  /\ wait = [r \in Rows |-> "none"]
  /\ dead = {}
  /\ now = 1

\* createEscalation, or the row condition(signalId, config) commits with its
\* waiter.  A config may pre-assign the row: an assignee without a window.
\* A routed row is born without the workflow's coordinates.
Insert(r, assignee) ==
  /\ row[r].status = "none"
  /\ Shape[r] \in Waited => Flow[r] \notin dead
  /\ row' = [row EXCEPT ![r] =
       [@ EXCEPT !.status = "pending", !.assignee = assignee,
                 !.enriched = Shape[r] # "routed"]]
  /\ wait' = [wait EXCEPT ![r] =
       IF Shape[r] \in Waited THEN "waiting" ELSE "none"]
  /\ UNCHANGED <<dead, now>>

\* enrichEscalationRouting: no status guard
Enrich(r) ==
  /\ row[r].status # "none"
  /\ row' = [row EXCEPT ![r].enriched = TRUE]
  /\ UNCHANGED <<wait, dead, now>>

ClaimRows(S, u, term) ==
  /\ term \in Terms
  /\ row' = [r \in Rows |->
       IF r \in S /\ Claimable(r, u)
       THEN [row[r] EXCEPT !.assignee = u, !.until = now + term] ELSE row[r]]
  /\ UNCHANGED <<wait, dead, now>>

ReleaseRow(r, u) ==
  /\ Pending(r)
  /\ row[r].assignee = u
  /\ row' = [row EXCEPT ![r] = Unassigned(@)]
  /\ UNCHANGED <<wait, dead, now>>

\* RELEASE_EXPIRED_CLAIMS
SweepExpired ==
  /\ row' = [r \in Rows |->
       IF /\ Pending(r)
          /\ row[r].assignee # NoUser
          /\ row[r].until # NoWindow
          /\ row[r].until <= now
       THEN Unassigned(row[r]) ELSE row[r]]
  /\ UNCHANGED <<wait, dead, now>>

\* BULK_REASSIGN: takes over live claims too
ReassignRows(S, u, term) ==
  /\ term \in Terms
  /\ row' = [r \in Rows |->
       IF r \in S /\ Pending(r)
       THEN [row[r] EXCEPT !.assignee = u, !.until = now + term] ELSE row[r]]
  /\ UNCHANGED <<wait, dead, now>>

\* BULK_UNASSIGN
UnassignRows(S) ==
  /\ row' = [r \in Rows |->
       IF r \in S /\ Pending(r) /\ row[r].assignee # NoUser
       THEN Unassigned(row[r]) ELSE row[r]]
  /\ UNCHANGED <<wait, dead, now>>

\* Mutant: the status guard is missing.
MoveRowsAnyStatus(S, role) ==
  /\ row' = [r \in Rows |->
       IF r \in S THEN [Unassigned(row[r]) EXCEPT !.role = role] ELSE row[r]]
  /\ UNCHANGED <<wait, dead, now>>
\* escalateToRole, escalateManyToRole
MoveRows(S, role) ==
  /\ row' = [r \in Rows |->
       IF r \in S /\ Pending(r)
       THEN [Unassigned(row[r]) EXCEPT !.role = role] ELSE row[r]]
  /\ UNCHANGED <<wait, dead, now>>

\* resolveEscalation: u is the principal assertClaim names, NoUser when the
\* caller passes none.
ResolveRow(r, u) ==
  /\ Pending(r)
  /\ u # NoUser => ~ClaimBlocks(r, u)
  /\ row' = Settled({r}, "resolved")
  /\ wait' = Answered({r}, "payload")
  /\ UNCHANGED <<dead, now>>

\* Mutant: the UPDATE takes rows with a signal_key too.
AckableKeyed(S) == {r \in S : Pending(r)}
\* resolveMany: UPDATE only, so rows with a signal_key are skipped
Ackable(S) == {r \in S : Pending(r) /\ ~Keyed(r)}
ResolveMany(S) ==
  /\ row' = Settled(Ackable(S), "resolved")
  /\ UNCHANGED <<wait, dead, now>>

\* resolveAllOrNone; u is the principal assertAssignee names, or NoUser
ResolveAllOrNone(S, u) ==
  /\ \A r \in S : Pending(r) /\ (u # NoUser => row[r].assignee = u)
  /\ row' = Settled(S, "resolved")
  /\ wait' = Answered(S, "payload")
  /\ UNCHANGED <<dead, now>>

\* Mutant: the window is not stamped.
StampedWithoutWindow(r, u) ==
  [row[r] EXCEPT
    !.assignee = IF @ = NoUser THEN u ELSE @,
    !.status = IF Shape[r] = "signal" THEN @ ELSE "resolved"]
\* RESOLVE_BY_METADATA_ATOMIC on the row its filter picked.  A row with a
\* signal_key is left alone; otherwise the claim is stamped, and a row
\* without a signal_id is resolved by the same UPDATE.
StampedByMetadata(r, u) ==
  [row[r] EXCEPT
    !.assignee = IF @ = NoUser THEN u ELSE @,
    !.until = IF Live(r) THEN @ ELSE now + MetaTerm,
    !.status = IF Shape[r] = "signal" THEN @ ELSE "resolved"]
ResolveByMetadata(r, u) ==
  /\ Pending(r)
  /\ ~Keyed(r)
  /\ row' = [row EXCEPT ![r] = StampedByMetadata(r, u)]
  /\ UNCHANGED <<wait, dead, now>>

\* Mutant: cancels a row that was settled meanwhile.
CancelSettledRow(r) ==
  /\ row[r].status # "none"
  /\ row' = Settled({r}, "cancelled")
  /\ wait' = Answered({r}, "null")
  /\ UNCHANGED <<dead, now>>
\* cancelEscalation
CancelRow(r) ==
  /\ Pending(r)
  /\ row' = Settled({r}, "cancelled")
  /\ wait' = Answered({r}, "null")
  /\ UNCHANGED <<dead, now>>

\* handle.terminate(): the workflow's waits will never be answered
TerminateFlow(f) ==
  /\ dead' = dead \cup {f}
  /\ UNCHANGED <<row, wait, now>>

\* cancelEscalationsByWorkflowId, after terminate(): a bare UPDATE
CancelByWorkflow(f) ==
  /\ f \in dead
  /\ row' = Settled({r \in Rows : Flow[r] = f /\ Pending(r)}, "cancelled")
  /\ UNCHANGED <<wait, dead, now>>

\* Mutant: the row takes the name of the answer.
ExpireRowAsTimeout(r) ==
  /\ Keyed(r)
  /\ Pending(r)
  /\ row' = Settled({r}, "timeout")
  /\ wait' = Answered({r}, "timeout")
  /\ UNCHANGED <<dead, now>>
\* the engine's timer of condition(signalId, {timeout})
ExpireRow(r) ==
  /\ Keyed(r)
  /\ Pending(r)
  /\ Flow[r] \notin dead
  /\ row' = Settled({r}, "expired")
  /\ wait' = Answered({r}, "timeout")
  /\ UNCHANGED <<dead, now>>

\* handle.signal / engine.signal to the workflow behind a row without a
\* signal_key.  A signal ahead of the wait is kept for it; one that follows
\* an answered wait changes nothing; one to a dead workflow fails.
Signal(r) ==
  /\ Shape[r] \in Waited \ {"key"}
  /\ row[r].status # "none"
  /\ Flow[r] \notin dead
  /\ wait' = [wait EXCEPT ![r] = "payload"]
  /\ UNCHANGED <<row, dead, now>>

Tick ==
  /\ now < Horizon
  /\ now' = now + 1
  /\ UNCHANGED <<row, wait, dead>>

\* Statements that give a live claim to nobody else.
HonouringNext ==
  \/ Tick
  \/ SweepExpired
  \/ \E r \in Rows, u \in Users \cup {NoUser} : Insert(r, u) \/ ResolveRow(r, u)
  \/ \E r \in Rows : Enrich(r) \/ CancelRow(r) \/ ExpireRow(r) \/ Signal(r)
  \/ \E r \in Rows, u \in Users : ReleaseRow(r, u) \/ ResolveByMetadata(r, u)
  \/ \E S \in SUBSET Rows :
       \/ UnassignRows(S)
       \/ ResolveMany(S)
       \/ \E role \in Roles : MoveRows(S, role)
       \/ \E u \in Users \cup {NoUser} : ResolveAllOrNone(S, u)
       \/ \E u \in Users, term \in Terms : ClaimRows(S, u, term)
  \/ \E f \in Flows : TerminateFlow(f) \/ CancelByWorkflow(f)

StoreNext ==
  \/ HonouringNext
  \/ \E S \in SUBSET Rows, u \in Users, term \in Terms : ReassignRows(S, u, term)

StoreSpec == StoreInit /\ [][StoreNext]_storeVars

-----------------------------------------------------------------------------
StoreTypeOK ==
  /\ row \in [Rows -> RowRecords]
  /\ wait \in [Rows -> Waits]
  /\ dead \subseteq Flows
  /\ now \in Nat \ {0}

Keys == {r \in Rows : Keyed(r)}
Wait == INSTANCE DurableWait
  WITH Waiters <- Keys, Runs <- Flows, Owner <- [r \in Keys |-> Flow[r]],
       decision <- [r \in Keys |-> row[r].status],
       heard <- [r \in Keys |-> wait[r]], lost <- dead
\* The keyed rows are durable waits: opened once, decided once, and heard in
\* the very statement that settles the row.
ImplementsDurableWait == Wait!WaitSpec

\* The wait behind a signal_key and its row never disagree, whichever
\* statement settled the row and however many raced: the waiter is parked
\* exactly while the row is pending and holds the answer that the row's
\* terminal status records (crud.ts: "commits each waiter's wake WITH its
\* resolve").  A terminated workflow is the only exception.
KeyedWaitInStep ==
  \A r \in Rows : Keyed(r) /\ Flow[r] \notin dead => wait[r] = Wait!Told(row[r].status)

\* An escalation is terminal once: no statement rewrites the status, the
\* role or the claim of a settled row (every statement but the routing
\* enrichment carries status = 'pending').
TerminalFrozen ==
  [][\A r \in Rows : row[r].status \in Terminal =>
       row'[r] = [row[r] EXCEPT !.enriched = row'[r].enriched]]_storeVars
=============================================================================
