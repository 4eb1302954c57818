------------------------ MODULE EscalationApiProofs ------------------------
(***************************************************************************)
(* The escalations, for any number of rows, users, queues, workflows and   *)
(* requests.  First the table by itself: its types, that a settled row is  *)
(* final, that a keyed wait never disagrees with its row, and that the     *)
(* keyed rows implement DurableWait.  Then the API: every interleaving of  *)
(* its handlers is a behaviour of the store, so that what is proved of the *)
(* statements holds of the API as well; and what a request read and        *)
(* claimed still holds when it signals or settles a row.                   *)
(***************************************************************************)
EXTENDS EscalationApi, TLAPS

-----------------------------------------------------------------------------
(* The table, statement by statement.                                      *)

LEMMA RowFields ==
  ASSUME NEW e \in RowRecords
  PROVE  /\ e.status \in Statuses /\ e.role \in Roles
         /\ e.assignee \in Users \cup {NoUser} /\ e.until \in Nat
         /\ e.enriched \in BOOLEAN
  BY DEF RowRecords

LEMMA UnassignedType ==
  ASSUME NEW e \in RowRecords
  PROVE  /\ Unassigned(e) \in RowRecords
         /\ Unassigned(e).status = e.status
  BY DEF Unassigned, RowRecords, NoWindow

\* Settling some rows keeps the table well formed and touches only their
\* status.
LEMMA SettledType ==
  ASSUME StoreTypeOK, NEW S, NEW status \in Statuses
  PROVE  /\ Settled(S, status) \in [Rows -> RowRecords]
         /\ \A r \in Rows : Settled(S, status)[r].status =
                              IF r \in S THEN status ELSE row[r].status
  BY DEF Settled, StoreTypeOK, RowRecords

LEMMA AnsweredType ==
  ASSUME StoreTypeOK, NEW S, NEW answer \in Waits
  PROVE  Answered(S, answer) \in [Rows -> Waits]
  BY DEF Answered, StoreTypeOK

LEMMA RowUpdateType ==
  ASSUME NEW e \in RowRecords, NEW a \in Users \cup {NoUser}, NEW w \in Nat,
         NEW s \in Statuses
  PROVE  [e EXCEPT !.assignee = a, !.until = w, !.status = s] \in RowRecords
  BY DEF RowRecords

LEMMA StampedType ==
  ASSUME StoreTypeOK, StoreAssumption, NEW r \in Rows, NEW u \in Users
  PROVE  StampedByMetadata(r, u) \in RowRecords
<1>1. row[r] \in RowRecords /\ now + MetaTerm \in Nat
  BY DEF StoreTypeOK, StoreAssumption
<1>2. "resolved" \in Statuses
  BY DEF Statuses, Terminal
<1>3. /\ (IF row[r].assignee = NoUser THEN u ELSE row[r].assignee) \in Users \cup {NoUser}
      /\ (IF Live(r) THEN row[r].until ELSE now + MetaTerm) \in Nat
      /\ (IF Shape[r] = "signal" THEN row[r].status ELSE "resolved") \in Statuses
  BY <1>1, <1>2, RowFields
<1> QED BY <1>1, <1>3, RowUpdateType DEF StampedByMetadata

LEMMA InitTypeOK == StoreInit => StoreTypeOK
<1> SUFFICES ASSUME StoreInit PROVE StoreTypeOK
  OBVIOUS
<1>1. ASSUME NEW e \in [status : {"none"}, role : Roles, assignee : {NoUser},
                        until : {NoWindow}, enriched : {FALSE}]
      PROVE  e \in RowRecords
  <2>1. /\ e = [status |-> e.status, role |-> e.role, assignee |-> e.assignee,
                until |-> e.until, enriched |-> e.enriched]
        /\ e.status = "none" /\ e.role \in Roles /\ e.assignee = NoUser
        /\ e.until = NoWindow /\ e.enriched = FALSE
    OBVIOUS
  <2>2. "none" \in Statuses /\ NoWindow \in Nat
    BY DEF Statuses, NoWindow
  <2> QED BY <2>1, <2>2 DEF RowRecords
<1>2. row \in [Rows -> RowRecords]
  BY <1>1 DEF StoreInit
<1> QED BY <1>2 DEF StoreInit, StoreTypeOK, Waits

LEMMA NextTypeOK ==
  ASSUME StoreAssumption, StoreTypeOK, [StoreNext]_storeVars
  PROVE  StoreTypeOK'
<1> USE DEF StoreTypeOK
<1>0. {"resolved", "cancelled", "expired", "pending"} \subseteq Statuses
  BY DEF Statuses, Terminal
<1>w. {"payload", "null", "timeout", "waiting", "none"} \subseteq Waits
  BY DEF Waits
<1>1. CASE Tick
  BY <1>1 DEF Tick
<1>2. CASE SweepExpired
  BY <1>2, UnassignedType DEF SweepExpired
<1>3. ASSUME NEW r \in Rows, NEW u \in Users \cup {NoUser}, Insert(r, u)
      PROVE  StoreTypeOK'
  <2>1. [row[r] EXCEPT !.status = "pending", !.assignee = u,
                       !.enriched = Shape[r] # "routed"] \in RowRecords
    BY <1>0 DEF RowRecords
  <2> QED BY <1>3, <2>1, <1>w DEF Insert
<1>4. ASSUME NEW r \in Rows, NEW u \in Users \cup {NoUser}, ResolveRow(r, u)
      PROVE  StoreTypeOK'
  BY <1>4, <1>0, <1>w, SettledType, AnsweredType DEF ResolveRow
<1>5. ASSUME NEW r \in Rows, Enrich(r)
      PROVE  StoreTypeOK'
  BY <1>5 DEF Enrich, RowRecords
<1>6. ASSUME NEW r \in Rows, CancelRow(r)
      PROVE  StoreTypeOK'
  BY <1>6, <1>0, <1>w, SettledType, AnsweredType DEF CancelRow
<1>7. ASSUME NEW r \in Rows, ExpireRow(r)
      PROVE  StoreTypeOK'
  BY <1>7, <1>0, <1>w, SettledType, AnsweredType DEF ExpireRow
<1>8. ASSUME NEW r \in Rows, Signal(r)
      PROVE  StoreTypeOK'
  BY <1>8, <1>w DEF Signal
<1>9. ASSUME NEW r \in Rows, NEW u \in Users, ReleaseRow(r, u)
      PROVE  StoreTypeOK'
  BY <1>9, UnassignedType DEF ReleaseRow
<1>10. ASSUME NEW r \in Rows, NEW u \in Users, ResolveByMetadata(r, u)
       PROVE  StoreTypeOK'
  BY <1>10, StampedType DEF ResolveByMetadata
<1>11. ASSUME NEW S \in SUBSET Rows, UnassignRows(S)
       PROVE  StoreTypeOK'
  BY <1>11, UnassignedType DEF UnassignRows
<1>12. ASSUME NEW S \in SUBSET Rows, ResolveMany(S)
       PROVE  StoreTypeOK'
  BY <1>12, <1>0, SettledType DEF ResolveMany
<1>13. ASSUME NEW S \in SUBSET Rows, NEW role \in Roles, MoveRows(S, role)
       PROVE  StoreTypeOK'
  <2>1. \A r \in Rows : [Unassigned(row[r]) EXCEPT !.role = role] \in RowRecords
    BY UnassignedType DEF RowRecords
  <2> QED BY <1>13, <2>1 DEF MoveRows
<1>14. ASSUME NEW S \in SUBSET Rows, NEW u \in Users \cup {NoUser}, ResolveAllOrNone(S, u)
       PROVE  StoreTypeOK'
  BY <1>14, <1>0, <1>w, SettledType, AnsweredType DEF ResolveAllOrNone
<1>15. ASSUME NEW S \in SUBSET Rows, NEW u \in Users, NEW term \in Terms,
              ClaimRows(S, u, term) \/ ReassignRows(S, u, term)
       PROVE  StoreTypeOK'
  <2>1. \A r \in Rows : [row[r] EXCEPT !.assignee = u, !.until = now + term] \in RowRecords
    <3>1. now + term \in Nat
      BY DEF StoreAssumption
    <3> QED BY <3>1 DEF RowRecords
  <2>2. row' \in [Rows -> RowRecords] /\ UNCHANGED <<wait, dead, now>>
    <3>1. CASE ClaimRows(S, u, term)
      BY <3>1, <2>1 DEF ClaimRows
    <3>2. CASE ReassignRows(S, u, term)
      BY <3>2, <2>1 DEF ReassignRows
    <3> QED BY <1>15, <3>1, <3>2
  <2> QED BY <2>2
<1>16. ASSUME NEW f \in Flows, TerminateFlow(f) \/ CancelByWorkflow(f)
       PROVE  StoreTypeOK'
  BY <1>16, <1>0, SettledType DEF TerminateFlow, CancelByWorkflow
<1>17. CASE UNCHANGED storeVars
  BY <1>17 DEF storeVars
<1> QED
  BY <1>1, <1>2, <1>3, <1>4, <1>5, <1>6, <1>7, <1>8, <1>9, <1>10, <1>11,
     <1>12, <1>13, <1>14, <1>15, <1>16, <1>17 DEF StoreNext, HonouringNext

\* Type correctness: the table, the waits, the terminated workflows and the
\* clock keep their types under every statement of services/escalation.
THEOREM StoreTypeCorrect == StoreSpec => []StoreTypeOK
<1>1. StoreInit => StoreTypeOK
  BY InitTypeOK
<1>2. StoreTypeOK /\ [StoreNext]_storeVars => StoreTypeOK'
  BY NextTypeOK, StoreAssumption
<1> QED BY <1>1, <1>2, PTL DEF StoreSpec

-----------------------------------------------------------------------------
(* Refinement.  A statement does one of four things to the keyed rows:      *)
(* nothing, open one, decide some of them alike, or lose a workflow.        *)

\* no keyed row or wait changes
Quiet ==
  /\ \A k \in Keys : row'[k].status = row[k].status /\ wait'[k] = wait[k]
  /\ dead' = dead

\* exactly the keyed rows of S are decided, as d
Decided(S, d) ==
  /\ \A k \in S : Pending(k)
  /\ \A k \in Keys : row'[k].status = IF k \in S THEN d ELSE row[k].status
  /\ \A k \in Keys : wait'[k] = IF k \in S /\ Flow[k] \notin dead
                                THEN Wait!Told(d) ELSE wait[k]
  /\ dead' = dead

LEMMA QuietRefines == ASSUME Quiet PROVE UNCHANGED Wait!waitVars
  BY DEF Quiet, Wait!waitVars

LEMMA DecidedRefines ==
  ASSUME NEW S \in SUBSET Keys, NEW d \in Wait!Decisions, Decided(S, d)
  PROVE  Wait!WaitNext
<1>1. Wait!Decide(S, d)
  BY DEF Decided, Pending, Wait!Decide
<1> QED BY <1>1 DEF Wait!WaitNext

\* A statement that settles the pending rows of T and answers them decides
\* the keyed rows among them.
LEMMA SettlingRefines ==
  ASSUME StoreTypeOK, NEW T \in SUBSET Rows, NEW d \in Wait!Decisions,
         \A r \in T : Pending(r),
         row' = Settled(T, d), wait' = Answered(T, Wait!Told(d)), dead' = dead
  PROVE  Wait!WaitNext
<1>1. d \in Statuses
  BY DEF Wait!Decisions, Statuses, Terminal
<1>2. \A k \in Keys : row'[k].status = IF k \in T \cap Keys THEN d ELSE row[k].status
  BY <1>1, SettledType DEF Keys
<1>3. \A k \in Keys : wait'[k] = IF k \in T \cap Keys /\ Flow[k] \notin dead
                                 THEN Wait!Told(d) ELSE wait[k]
  BY DEF Answered, Keys
<1>4. Decided(T \cap Keys, d)
  BY <1>2, <1>3 DEF Decided
<1> QED BY <1>4, DecidedRefines

LEMMA ToldAnswers ==
  /\ Wait!Told("resolved") = "payload" /\ Wait!Told("cancelled") = "null"
  /\ Wait!Told("expired") = "timeout" /\ Wait!Told("pending") = "waiting"
  /\ Wait!Told("none") = "none"
  /\ {"resolved", "cancelled", "expired"} = Wait!Decisions
  BY DEF Wait!Told, Wait!Decisions

LEMMA StepRefines ==
  ASSUME StoreAssumption, StoreTypeOK, [StoreNext]_storeVars
  PROVE  [Wait!WaitNext]_(Wait!waitVars)
<1> USE DEF StoreTypeOK
<1>q. ASSUME Quiet PROVE [Wait!WaitNext]_(Wait!waitVars)
  BY <1>q, QuietRefines
<1>1. CASE Tick
  BY <1>1, <1>q DEF Tick, Quiet
<1>2. CASE SweepExpired
  <2>1. Quiet
    BY <1>2, UnassignedType DEF SweepExpired, Quiet, Keys
  <2> QED BY <2>1, <1>q
<1>3. ASSUME NEW r \in Rows, NEW u \in Users \cup {NoUser}, Insert(r, u)
      PROVE  [Wait!WaitNext]_(Wait!waitVars)
  <2>1. CASE Keyed(r)
    <3>1. /\ row[r].status = "none" /\ Flow[r] \notin dead /\ dead' = dead
          /\ \A k \in Keys : row'[k].status = IF k = r THEN "pending" ELSE row[k].status
          /\ \A k \in Keys : wait'[k] = IF k = r THEN "waiting" ELSE wait[k]
      BY <1>3, <2>1 DEF Insert, Keyed, Keys, Waited, RowRecords
    <3>2. Wait!Open(r) /\ r \in Keys
      BY <3>1, <2>1 DEF Wait!Open, Keys
    <3> QED BY <3>2 DEF Wait!WaitNext
  <2>2. CASE ~Keyed(r)
    <3>1. Quiet
      BY <1>3, <2>2 DEF Insert, Quiet, Keys
    <3> QED BY <3>1, <1>q
  <2> QED BY <2>1, <2>2
<1>4. ASSUME NEW r \in Rows, NEW u \in Users \cup {NoUser}, ResolveRow(r, u)
      PROVE  [Wait!WaitNext]_(Wait!waitVars)
  BY <1>4, SettlingRefines, ToldAnswers DEF ResolveRow
<1>5. ASSUME NEW r \in Rows, Enrich(r)
      PROVE  [Wait!WaitNext]_(Wait!waitVars)
  <2>1. Quiet
    BY <1>5 DEF Enrich, Quiet, Keys, RowRecords
  <2> QED BY <2>1, <1>q
<1>6. ASSUME NEW r \in Rows, CancelRow(r)
      PROVE  [Wait!WaitNext]_(Wait!waitVars)
  BY <1>6, SettlingRefines, ToldAnswers DEF CancelRow
<1>7. ASSUME NEW r \in Rows, ExpireRow(r)
      PROVE  [Wait!WaitNext]_(Wait!waitVars)
  BY <1>7, SettlingRefines, ToldAnswers DEF ExpireRow
<1>8. ASSUME NEW r \in Rows, Signal(r)
      PROVE  [Wait!WaitNext]_(Wait!waitVars)
  <2>1. Quiet
    BY <1>8 DEF Signal, Quiet, Keys, Keyed
  <2> QED BY <2>1, <1>q
<1>9. ASSUME NEW r \in Rows, NEW u \in Users, ReleaseRow(r, u)
      PROVE  [Wait!WaitNext]_(Wait!waitVars)
  <2>1. Quiet
    BY <1>9, UnassignedType DEF ReleaseRow, Quiet, Keys
  <2> QED BY <2>1, <1>q
<1>10. ASSUME NEW r \in Rows, NEW u \in Users, ResolveByMetadata(r, u)
       PROVE  [Wait!WaitNext]_(Wait!waitVars)
  <2>1. Quiet
    BY <1>10 DEF ResolveByMetadata, Quiet, Keys
  <2> QED BY <2>1, <1>q
<1>11. ASSUME NEW S \in SUBSET Rows, UnassignRows(S)
       PROVE  [Wait!WaitNext]_(Wait!waitVars)
  <2>1. Quiet
    BY <1>11, UnassignedType DEF UnassignRows, Quiet, Keys
  <2> QED BY <2>1, <1>q
<1>12. ASSUME NEW S \in SUBSET Rows, ResolveMany(S)
       PROVE  [Wait!WaitNext]_(Wait!waitVars)
  <2>1. Quiet
    BY <1>12 DEF ResolveMany, Settled, Ackable, Quiet, Keys
  <2> QED BY <2>1, <1>q
<1>13. ASSUME NEW S \in SUBSET Rows, NEW role \in Roles, MoveRows(S, role)
       PROVE  [Wait!WaitNext]_(Wait!waitVars)
  <2>1. \A r \in Rows : [Unassigned(row[r]) EXCEPT !.role = role].status = row[r].status
    BY UnassignedType DEF RowRecords
  <2>2. Quiet
    BY <1>13, <2>1 DEF MoveRows, Quiet, Keys
  <2> QED BY <2>2, <1>q
<1>14. ASSUME NEW S \in SUBSET Rows, NEW u \in Users \cup {NoUser}, ResolveAllOrNone(S, u)
       PROVE  [Wait!WaitNext]_(Wait!waitVars)
  BY <1>14, SettlingRefines, ToldAnswers DEF ResolveAllOrNone
<1>15. ASSUME NEW S \in SUBSET Rows, NEW u \in Users, NEW term \in Terms,
              ClaimRows(S, u, term) \/ ReassignRows(S, u, term)
       PROVE  [Wait!WaitNext]_(Wait!waitVars)
  <2>1. \A r \in Rows : [row[r] EXCEPT !.assignee = u, !.until = now + term].status = row[r].status
    BY DEF RowRecords
  <2>2. CASE ClaimRows(S, u, term)
    <3>1. Quiet
      BY <2>2, <2>1 DEF ClaimRows, Quiet, Keys
    <3> QED BY <3>1, <1>q
  <2>3. CASE ReassignRows(S, u, term)
    <3>1. Quiet
      BY <2>3, <2>1 DEF ReassignRows, Quiet, Keys
    <3> QED BY <3>1, <1>q
  <2> QED BY <1>15, <2>2, <2>3
<1>16. ASSUME NEW f \in Flows, TerminateFlow(f)
       PROVE  [Wait!WaitNext]_(Wait!waitVars)
  <2>1. Wait!Lose(f)
    BY <1>16 DEF TerminateFlow, Wait!Lose
  <2> QED BY <2>1 DEF Wait!WaitNext
<1>17. ASSUME NEW f \in Flows, CancelByWorkflow(f)
       PROVE  [Wait!WaitNext]_(Wait!waitVars)
  <2> DEFINE T == {r \in Rows : Flow[r] = f /\ Pending(r)}
  <2>1. wait = Answered(T, Wait!Told("cancelled"))
    BY <1>17 DEF CancelByWorkflow, Answered
  <2>2. row' = Settled(T, "cancelled") /\ wait' = Answered(T, Wait!Told("cancelled")) /\ dead' = dead
    BY <1>17, <2>1 DEF CancelByWorkflow
  <2>3. T \in SUBSET Rows /\ \A r \in T : Pending(r)
    OBVIOUS
  <2> HIDE DEF T
  <2> QED BY <2>2, <2>3, SettlingRefines, ToldAnswers
<1>18. CASE UNCHANGED storeVars
  BY <1>18, <1>q DEF storeVars, Quiet
<1> QED
  BY <1>1, <1>2, <1>3, <1>4, <1>5, <1>6, <1>7, <1>8, <1>9, <1>10, <1>11,
     <1>12, <1>13, <1>14, <1>15, <1>16, <1>17, <1>18 DEF StoreNext, HonouringNext

\* The rows that carry a signal_key are durable waits: condition(signalId,
\* config) is answered exactly once, and by exactly the outcome its row
\* records, through whichever verb and however many race.
THEOREM StoreImplementsDurableWait == StoreSpec => ImplementsDurableWait
<1>1. StoreInit => Wait!WaitInit
  <2> SUFFICES ASSUME StoreInit PROVE Wait!WaitInit
    OBVIOUS
  <2>1. \A r \in Rows : row[r].status = "none"
    BY DEF StoreInit
  <2> QED BY <2>1 DEF StoreInit, Wait!WaitInit, Keys
<1>2. StoreTypeOK /\ [StoreNext]_storeVars => [Wait!WaitNext]_(Wait!waitVars)
  BY StepRefines, StoreAssumption
<1> QED
  BY <1>1, <1>2, StoreTypeCorrect, PTL DEF StoreSpec, ImplementsDurableWait, Wait!WaitSpec

\* A keyed wait and its row never disagree while the workflow lives.  The
\* step needs only what StepRefines says of it: a statement opens, decides,
\* loses or leaves the keyed waits.
LEMMA StepKeepsWaits ==
  ASSUME StoreTypeOK, KeyedWaitInStep, [Wait!WaitNext]_(Wait!waitVars), StoreTypeOK'
  PROVE  KeyedWaitInStep'
<1> SUFFICES ASSUME NEW k \in Keys, Flow[k] \notin dead'
             PROVE  wait'[k] = Wait!Told(row'[k].status)
  BY DEF KeyedWaitInStep, Keys
<1>0. Flow[k] \notin dead => wait[k] = Wait!Told(row[k].status)
  BY DEF KeyedWaitInStep, Keys
<1>1. ASSUME NEW w \in Keys, Wait!Open(w)
      PROVE  wait'[k] = Wait!Told(row'[k].status)
  BY <1>0, <1>1, ToldAnswers DEF Wait!Open
<1>2. ASSUME NEW S \in SUBSET Keys, NEW d \in Wait!Decisions, Wait!Decide(S, d)
      PROVE  wait'[k] = Wait!Told(row'[k].status)
  BY <1>0, <1>2 DEF Wait!Decide
<1>3. ASSUME NEW f \in Flows, Wait!Lose(f)
      PROVE  wait'[k] = Wait!Told(row'[k].status)
  <2>1. row'[k].status = row[k].status /\ wait'[k] = wait[k] /\ Flow[k] \notin dead
    BY <1>3 DEF Wait!Lose
  <2> QED BY <2>1, <1>0
<1>4. CASE UNCHANGED Wait!waitVars
  <2>1. row'[k].status = row[k].status /\ wait'[k] = wait[k] /\ Flow[k] \notin dead
    BY <1>4 DEF Wait!waitVars
  <2> QED BY <2>1, <1>0
<1> QED BY <1>1, <1>2, <1>3, <1>4 DEF Wait!WaitNext

\* The invariant of every run of the store: rows and keyed waits in step.
THEOREM StoreKeepsWaitsInStep == StoreSpec => []KeyedWaitInStep
<1>1. StoreInit => KeyedWaitInStep
  <2> SUFFICES ASSUME StoreInit, NEW r \in Rows
               PROVE  wait[r] = Wait!Told(row[r].status)
    BY DEF KeyedWaitInStep
  <2>1. row[r].status = "none" /\ wait[r] = "none"
    BY DEF StoreInit
  <2> QED BY <2>1, ToldAnswers
<1>2. /\ StoreTypeOK /\ StoreTypeOK' /\ KeyedWaitInStep /\ [StoreNext]_storeVars
      => KeyedWaitInStep'
  BY StepRefines, StepKeepsWaits, StoreAssumption
<1> QED BY <1>1, <1>2, StoreTypeCorrect, PTL DEF StoreSpec

-----------------------------------------------------------------------------
(* A settled row is final: every statement carries status = 'pending', but  *)
(* for the routing enrichment.                                              *)

LEMMA SettledKeepsOthers ==
  ASSUME NEW S \in SUBSET Rows, NEW status, \A r \in S : Pending(r),
         NEW r \in Rows, row[r].status \in Terminal
  PROVE  Settled(S, status)[r] = row[r]
  BY DEF Settled, Pending, Terminal

LEMMA StepFreezes ==
  ASSUME StoreTypeOK, [StoreNext]_storeVars, NEW r \in Rows, row[r].status \in Terminal
  PROVE  row'[r] = [row[r] EXCEPT !.enriched = row'[r].enriched]
<1> DEFINE Frozen == row'[r] = row[r]
<1>0. ~Pending(r) /\ row[r].status # "none"
  BY DEF Pending, Terminal
<1>1. CASE Frozen
  BY <1>1 DEF StoreTypeOK, RowRecords
<1>2. CASE \E q \in Rows : Enrich(q)
  <2>1. PICK q \in Rows : row' = [row EXCEPT ![q].enriched = TRUE]
    BY <1>2 DEF Enrich
  <2>2. CASE q = r
    BY <2>1, <2>2 DEF StoreTypeOK, RowRecords
  <2>3. CASE q # r
    BY <2>1, <2>3, <1>1 DEF StoreTypeOK
  <2> QED BY <2>2, <2>3
<1>3. ASSUME NEW q \in Rows, NEW u \in Users \cup {NoUser}, Insert(q, u) \/ ResolveRow(q, u)
      PROVE  Frozen
  BY <1>0, <1>3, SettledKeepsOthers DEF Insert, ResolveRow, StoreTypeOK
<1>4. ASSUME NEW q \in Rows, CancelRow(q) \/ ExpireRow(q) \/ Signal(q)
      PROVE  Frozen
  BY <1>0, <1>4, SettledKeepsOthers DEF CancelRow, ExpireRow, Signal
<1>5. ASSUME NEW q \in Rows, NEW u \in Users, ReleaseRow(q, u) \/ ResolveByMetadata(q, u)
      PROVE  Frozen
  BY <1>0, <1>5 DEF ReleaseRow, ResolveByMetadata, StoreTypeOK
<1>6. ASSUME NEW S \in SUBSET Rows, ResolveMany(S)
      PROVE  Frozen
  <2>1. \A q \in Ackable(S) : Pending(q)
    BY DEF Ackable
  <2>2. Ackable(S) \in SUBSET Rows
    BY DEF Ackable
  <2> QED BY <1>6, <2>1, <2>2, SettledKeepsOthers DEF ResolveMany
<1>6a. ASSUME NEW S \in SUBSET Rows, NEW u \in Users \cup {NoUser}, ResolveAllOrNone(S, u)
       PROVE  Frozen
  BY <1>6a, SettledKeepsOthers DEF ResolveAllOrNone
<1>7. ASSUME NEW S \in SUBSET Rows, UnassignRows(S)
      PROVE  Frozen
  BY <1>0, <1>7 DEF UnassignRows
<1>7a. ASSUME NEW S \in SUBSET Rows, NEW role \in Roles, MoveRows(S, role)
       PROVE  Frozen
  BY <1>0, <1>7a DEF MoveRows
<1>8. ASSUME NEW S \in SUBSET Rows, NEW u \in Users, NEW term \in Terms,
             ClaimRows(S, u, term) \/ ReassignRows(S, u, term)
      PROVE  Frozen
  <2>1. ~Claimable(r, u)
    BY <1>0 DEF Claimable
  <2>2. row'[r] = row[r]
    <3>1. CASE ClaimRows(S, u, term)
      BY <2>1, <3>1 DEF ClaimRows
    <3>2. CASE ReassignRows(S, u, term)
      BY <1>0, <3>2 DEF ReassignRows
    <3> QED BY <1>8, <3>1, <3>2
  <2> QED BY <2>2
<1>9. ASSUME NEW f \in Flows, TerminateFlow(f) \/ CancelByWorkflow(f)
      PROVE  Frozen
  BY <1>9, SettledKeepsOthers DEF TerminateFlow, CancelByWorkflow
<1>10. CASE Tick \/ SweepExpired \/ UNCHANGED storeVars
  <2>1. Frozen
    BY <1>0, <1>10 DEF Tick, SweepExpired, storeVars
  <2> QED BY <2>1, <1>1
<1> HIDE DEF Frozen
<1> QED
  BY <1>1, <1>2, <1>3, <1>4, <1>5, <1>6, <1>6a, <1>7, <1>7a, <1>8, <1>9,
     <1>10 DEF StoreNext, HonouringNext

\* No statement, in any order, brings a settled escalation back or rewrites
\* what it records.
THEOREM StoreFreezesTerminal == StoreSpec => TerminalFrozen
<1>1. StoreTypeOK /\ [StoreNext]_storeVars =>
        [\A r \in Rows : row[r].status \in Terminal =>
           row'[r] = [row[r] EXCEPT !.enriched = row'[r].enriched]]_storeVars
  BY StepFreezes
<1> QED BY <1>1, StoreTypeCorrect, PTL DEF StoreSpec, TerminalFrozen

-----------------------------------------------------------------------------
(* The claim is a lock.                                                     *)

LEMMA StepHoldsLock ==
  ASSUME StoreTypeOK, [HonouringNext]_storeVars, NEW r \in Rows, Live(r), Pending(r)
  PROVE  row'[r].assignee \in {row[r].assignee, NoUser}
<1> DEFINE Held == row'[r].assignee \in {row[r].assignee, NoUser}
<1> USE DEF StoreTypeOK
<1>0. row[r] \in RowRecords /\ row[r].assignee # NoUser /\ row[r].until > now /\ now \in Nat
  BY DEF Live
<1>a. Unassigned(row[r]).assignee = NoUser
  BY <1>0 DEF Unassigned, RowRecords
<1>b. \A S, status : Settled(S, status)[r].assignee = row[r].assignee
  BY <1>0 DEF Settled, RowRecords
<1>1. ASSUME NEW q \in Rows, NEW u \in Users \cup {NoUser}, Insert(q, u) \/ ResolveRow(q, u)
      PROVE  Held
  BY <1>1, <1>b DEF Insert, ResolveRow, Pending
<1>2. ASSUME NEW q \in Rows, CancelRow(q) \/ ExpireRow(q) \/ Signal(q) \/ Enrich(q)
      PROVE  Held
  <2>1. [row[r] EXCEPT !.enriched = TRUE].assignee = row[r].assignee
    BY <1>0 DEF RowRecords
  <2> QED BY <1>2, <1>b, <2>1 DEF CancelRow, ExpireRow, Signal, Enrich
<1>3. ASSUME NEW q \in Rows, NEW u \in Users, ReleaseRow(q, u)
      PROVE  Held
  BY <1>3, <1>a DEF ReleaseRow
<1>4. ASSUME NEW q \in Rows, NEW u \in Users, ResolveByMetadata(q, u)
      PROVE  Held
  <2>1. StampedByMetadata(r, u).assignee = row[r].assignee
    BY <1>0 DEF StampedByMetadata, RowRecords
  <2> QED BY <1>4, <2>1 DEF ResolveByMetadata
<1>5. ASSUME NEW S \in SUBSET Rows, UnassignRows(S) \/ ResolveMany(S)
      PROVE  Held
  BY <1>5, <1>a, <1>b DEF UnassignRows, ResolveMany
<1>6. ASSUME NEW S \in SUBSET Rows, NEW role \in Roles, MoveRows(S, role)
      PROVE  Held
  <2>1. [Unassigned(row[r]) EXCEPT !.role = role].assignee = NoUser
    BY <1>0, <1>a, UnassignedType DEF RowRecords
  <2> QED BY <1>6, <2>1 DEF MoveRows
<1>7. ASSUME NEW S \in SUBSET Rows, NEW u \in Users \cup {NoUser}, ResolveAllOrNone(S, u)
      PROVE  Held
  BY <1>7, <1>b DEF ResolveAllOrNone
<1>8. ASSUME NEW S \in SUBSET Rows, NEW u \in Users, NEW term \in Terms, ClaimRows(S, u, term)
      PROVE  Held
  <2>1. Claimable(r, u) => row[r].assignee = u
    BY <1>0 DEF Claimable, NoWindow, RowRecords
  <2>2. [row[r] EXCEPT !.assignee = u, !.until = now + term].assignee = u
    BY <1>0 DEF RowRecords
  <2>3. row'[r] = IF r \in S /\ Claimable(r, u)
                  THEN [row[r] EXCEPT !.assignee = u, !.until = now + term] ELSE row[r]
    BY <1>8 DEF ClaimRows
  <2> QED BY <2>1, <2>2, <2>3
<1>9. ASSUME NEW f \in Flows, TerminateFlow(f) \/ CancelByWorkflow(f)
      PROVE  Held
  BY <1>9, <1>b DEF TerminateFlow, CancelByWorkflow
<1>10. ASSUME Tick \/ SweepExpired \/ UNCHANGED storeVars
       PROVE  Held
  BY <1>a, <1>10 DEF Tick, SweepExpired, storeVars
<1> HIDE DEF Held, StoreTypeOK
<1>12. ASSUME NEW S \in SUBSET Rows,
              \/ UnassignRows(S)
              \/ ResolveMany(S)
              \/ \E role \in Roles : MoveRows(S, role)
              \/ \E u \in Users \cup {NoUser} : ResolveAllOrNone(S, u)
              \/ \E u \in Users, term \in Terms : ClaimRows(S, u, term)
       PROVE  Held
  BY <1>5, <1>6, <1>7, <1>8, <1>12
<1>13. CASE HonouringNext
  <2>1. Held
    BY <1>1, <1>2, <1>3, <1>4, <1>9, <1>10, <1>12, <1>13 DEF HonouringNext
  <2> QED BY <2>1 DEF Held
<1> QED BY <1>10, <1>13 DEF Held

-----------------------------------------------------------------------------
(* Request slots.                                                          *)
CallsOK == call \in [Calls -> CallRecords]

LEMMA EnterType ==
  ASSUME CallsOK, NEW c \in Calls, NEW verb, NEW S, NEW to, NEW window,
         Enter(c, verb, S, to, window),
         verb \in CallVerbs, S \in SUBSET Rows, to \in Recipients, window \in Nat,
         verb \in {"escalate", "bulkEscalate"} => to \in Roles,
         verb = "bulkAssign" => to \in Users,
         verb = "terminate" => to \in Flows
  PROVE  CallsOK'
<1>1. [verb |-> verb, on |-> S, to |-> to, window |-> window] \in CallRecords
  BY DEF CallRecords
<1> QED BY <1>1 DEF CallsOK, Enter

LEMMA DoneType == ASSUME CallsOK, NEW c \in Calls, Done(c) PROVE CallsOK'
<1>1. Idle \in CallRecords
  BY DEF Idle, CallRecords, CallVerbs, Recipients, NoWindow
<1> QED BY <1>1 DEF CallsOK, Done

LEMMA ProceedType ==
  ASSUME CallsOK, NEW c \in Calls, NEW verb \in {"routed", "triage"}, Proceed(c, verb)
  PROVE  CallsOK'
<1>1. [call[c] EXCEPT !.verb = verb] \in CallRecords
  BY DEF CallsOK, CallRecords, CallVerbs
<1> QED BY <1>1 DEF CallsOK, Proceed

LEMMA DropType ==
  ASSUME CallsOK, NEW c \in Calls, NEW r \in Rows, Drop(c, r)
  PROVE  CallsOK'
<1>2. [call[c] EXCEPT !.on = @ \ {r}] \in CallRecords
  BY DEF CallsOK, CallRecords
<1>3. CASE call[c].on = {r}
  BY <1>3, DoneType DEF Drop
<1>4. CASE call[c].on # {r}
  BY <1>2, <1>4 DEF Drop, CallsOK
<1> QED BY <1>3, <1>4

LEMMA SlotFields ==
  ASSUME CallsOK, NEW c \in Calls
  PROVE  /\ call[c].verb \in CallVerbs /\ call[c].on \in SUBSET Rows
         /\ call[c].to \in Recipients /\ call[c].window \in Nat
         /\ call[c].verb \in {"escalate", "bulkEscalate"} => call[c].to \in Roles
         /\ call[c].verb = "bulkAssign" => call[c].to \in Users
         /\ call[c].verb = "terminate" => call[c].to \in Flows
  BY DEF CallsOK, CallRecords

-----------------------------------------------------------------------------
(* Steps.  Slots keep their type and each step is a store step or none; all *)
(* but the administrators' reassign run statements that honour live claims. *)
StepOK == CallsOK' /\ [HonouringNext]_storeVars /\ jobs' \subseteq {"rerun", "triage"} \X Rows

LEMMA ByIdStepOK ==
  ASSUME ApiAssumption, StoreAssumption, ApiTypeOK, NEW c \in Calls, NEW r \in Rows,
         ByIdStep(c, r)
  PROVE  StepOK
<1> USE DEF ApiTypeOK
<1>0. CallsOK /\ Caller[c] \in Users /\ NoUser \in Recipients /\ {r} \in SUBSET Rows
  BY DEF CallsOK, ApiAssumption, Recipients
<1>1. CASE BeginResolve(c, r)
  <2>1. Enter(c, IF row[r].enriched THEN "resolve" ELSE "unrouted", {r}, NoUser,
              IF row[r].assignee = Caller[c] THEN row[r].until ELSE NoWindow)
        /\ UNCHANGED <<storeVars, jobs>>
    BY <1>1 DEF BeginResolve, Begin
  <2>2. (IF row[r].assignee = Caller[c] THEN row[r].until ELSE NoWindow) \in Nat
    BY RowFields DEF StoreTypeOK, NoWindow
  <2>3. (IF row[r].enriched THEN "resolve" ELSE "unrouted") \in {"resolve", "unrouted"}
    OBVIOUS
  <2>4. CallsOK'
    BY <2>1, <2>2, <2>3, <1>0, EnterType DEF CallVerbs
  <2> QED BY <2>1, <2>4 DEF StepOK
<1>2. CASE ResolveGuarded(c, r) \/ ResolveRouted(c, r) \/ ResolveTriaged(c, r)
  <2>1. Done(c) /\ UNCHANGED jobs /\ (ResolveRow(r, Caller[c]) \/ ResolveRow(r, NoUser))
    BY <1>2 DEF ResolveGuarded, ResolveRouted, ResolveTriaged
  <2>2. HonouringNext
    BY <2>1, <1>0 DEF HonouringNext
  <2> QED BY <2>1, <2>2, <1>0, DoneType DEF StepOK
<1>3. CASE ResolveBySignal(c, r)
  <2>1. Done(c) /\ UNCHANGED jobs /\ HonouringNext
    BY <1>3 DEF ResolveBySignal, HonouringNext
  <2> QED BY <2>1, <1>0, DoneType DEF StepOK
<1>4. CASE SignalRouted(c, r)
  <2>1. Proceed(c, "routed") /\ UNCHANGED jobs /\ HonouringNext
    BY <1>4 DEF SignalRouted, HonouringNext
  <2> QED BY <2>1, <1>0, ProceedType DEF StepOK
<1>5. CASE StartTriage(c, r)
  <2>1. Proceed(c, "triage") /\ UNCHANGED storeVars /\ jobs' = jobs \cup {<<"triage", r>>}
    BY <1>5 DEF StartTriage, Launch
  <2> QED BY <2>1, <1>0, ProceedType DEF StepOK
<1>6. CASE StartRerun(c, r)
  <2>1. Done(c) /\ UNCHANGED storeVars /\ jobs' = jobs \cup {<<"rerun", r>>}
    BY <1>6 DEF StartRerun, Launch
  <2> QED BY <2>1, <1>0, DoneType DEF StepOK
<1> QED BY <1>1, <1>2, <1>3, <1>4, <1>5, <1>6 DEF ByIdStep

LEMMA ByFacetStepOK ==
  ASSUME ApiAssumption, StoreAssumption, ApiTypeOK, NEW c \in Calls, NEW r \in Rows,
         ByFacetStep(c, r)
  PROVE  StepOK
<1> USE DEF ApiTypeOK
<1>0. CallsOK /\ Caller[c] \in Users /\ NoUser \in Recipients /\ {r} \in SUBSET Rows
  BY DEF CallsOK, ApiAssumption, Recipients
<1>1. CASE BeginByKey(c, r)
  <2>1. Enter(c, "byKey", {r}, NoUser, NoWindow) /\ UNCHANGED <<storeVars, jobs>>
    BY <1>1 DEF BeginByKey, Begin
  <2> QED BY <2>1, <1>0, EnterType DEF StepOK, CallVerbs, NoWindow
<1>2. CASE ResolveByKey(c, r)
  <2>1. Done(c) /\ UNCHANGED jobs /\ HonouringNext
    BY <1>2 DEF ResolveByKey, HonouringNext
  <2> QED BY <2>1, <1>0, DoneType DEF StepOK
<1>3. CASE ByMetadata(c, r)
  <2>1. UNCHANGED jobs
    BY <1>3 DEF ByMetadata
  <2>2. CASE Enter(c, "byKey", {r}, NoUser, NoWindow) /\ UNCHANGED storeVars
    BY <2>1, <2>2, <1>0, EnterType DEF StepOK, CallVerbs, NoWindow
  <2>3. CASE ResolveByMetadata(r, Caller[c]) /\ Enter(c, "metaSignal", {r}, NoUser, now + MetaTerm)
    <3>1. now + MetaTerm \in Nat
      BY DEF StoreTypeOK, StoreAssumption
    <3>2. CallsOK'
      BY <2>3, <3>1, <1>0, EnterType DEF CallVerbs
    <3>3. HonouringNext
      BY <2>3, <1>0 DEF HonouringNext
    <3> QED BY <2>1, <3>2, <3>3 DEF StepOK
  <2>4. CASE ResolveByMetadata(r, Caller[c]) /\ UNCHANGED call
    <3>1. HonouringNext
      BY <2>4, <1>0 DEF HonouringNext
    <3> QED BY <2>1, <2>4, <3>1, <1>0 DEF StepOK, CallsOK
  <2> QED BY <1>3, <2>2, <2>3, <2>4 DEF ByMetadata
<1>4. CASE SignalByMetadata(c, r)
  <2>1. Done(c) /\ UNCHANGED jobs /\ HonouringNext
    BY <1>4 DEF SignalByMetadata, HonouringNext
  <2> QED BY <2>1, <1>0, DoneType DEF StepOK
<1>5. ASSUME NEW term \in Terms, ClaimByMetadata(c, r, term)
      PROVE  StepOK
  <2>1. ClaimRows({r}, Caller[c], term) /\ UNCHANGED <<call, jobs>>
    BY <1>5 DEF ClaimByMetadata
  <2>2. HonouringNext
    BY <2>1, <1>0 DEF HonouringNext
  <2> QED BY <2>1, <2>2, <1>0 DEF StepOK, CallsOK
<1> QED BY <1>1, <1>2, <1>3, <1>4, <1>5 DEF ByFacetStep

LEMMA QueueStepOK ==
  ASSUME ApiAssumption, StoreAssumption, ApiTypeOK, NEW c \in Calls, NEW r \in Rows,
         QueueStep(c, r)
  PROVE  StepOK
<1> USE DEF ApiTypeOK
<1>0. CallsOK /\ Caller[c] \in Users /\ NoUser \in Recipients /\ {r} \in SUBSET Rows
  BY DEF CallsOK, ApiAssumption, Recipients
<1>1. CASE BeginClaim(c, r) \/ BeginRelease(c, r) \/ BeginCancel(c, r)
  <2>1. PICK verb \in {"claim", "release", "cancel"} :
          Enter(c, verb, {r}, NoUser, NoWindow) /\ UNCHANGED <<storeVars, jobs>>
    BY <1>1 DEF BeginClaim, BeginRelease, BeginCancel, Begin
  <2> QED BY <2>1, <1>0, EnterType DEF StepOK, CallVerbs, NoWindow
<1>2. ASSUME NEW term \in Terms, Claim(c, r, term)
      PROVE  StepOK
  <2>1. ClaimRows({r}, Caller[c], term) /\ Done(c) /\ UNCHANGED jobs
    BY <1>2 DEF Claim
  <2>2. HonouringNext
    BY <2>1, <1>0 DEF HonouringNext
  <2> QED BY <2>1, <2>2, <1>0, DoneType DEF StepOK
<1>3. CASE Release(c, r)
  <2>1. ReleaseRow(r, Caller[c]) /\ Done(c) /\ UNCHANGED jobs
    BY <1>3 DEF Release
  <2>2. HonouringNext
    BY <2>1, <1>0 DEF HonouringNext
  <2> QED BY <2>1, <2>2, <1>0, DoneType DEF StepOK
<1>4. ASSUME NEW role \in Roles, BeginEscalate(c, r, role)
      PROVE  StepOK
  <2>1. Enter(c, "escalate", {r}, role, NoWindow) /\ UNCHANGED <<storeVars, jobs>>
    BY <1>4 DEF BeginEscalate, Begin
  <2>2. role \in Recipients
    BY DEF Recipients
  <2> QED BY <2>1, <2>2, <1>0, EnterType DEF StepOK, CallVerbs, NoWindow
<1>5. CASE Escalate(c, r)
  <2>1. MoveRows({r}, call[c].to) /\ call[c].to \in Roles /\ Done(c) /\ UNCHANGED jobs
    BY <1>5, <1>0, SlotFields DEF Escalate, At
  <2>2. HonouringNext
    BY <2>1, <1>0 DEF HonouringNext
  <2> QED BY <2>1, <2>2, <1>0, DoneType DEF StepOK
<1>6. CASE Cancel(c, r)
  <2>1. Drop(c, r) /\ UNCHANGED jobs /\ HonouringNext
    BY <1>6 DEF Cancel, HonouringNext
  <2> QED BY <2>1, <1>0, DropType DEF StepOK
<1>7. CASE StartBulkTriage(c, r)
  <2>1. Drop(c, r) /\ UNCHANGED storeVars /\ jobs' = jobs \cup {<<"triage", r>>}
    BY <1>7 DEF StartBulkTriage, Launch
  <2> QED BY <2>1, <1>0, DropType DEF StepOK
<1>8. CASE EnrichRouting(c, r)
  <2>1. Enter(c, "autoClaim", {r}, NoUser, NoWindow) /\ UNCHANGED jobs /\ HonouringNext
    BY <1>8 DEF EnrichRouting, HonouringNext
  <2> QED BY <2>1, <1>0, EnterType DEF StepOK, CallVerbs, NoWindow
<1> QED BY <1>1, <1>2, <1>3, <1>4, <1>5, <1>6, <1>7, <1>8 DEF QueueStep

LEMMA SetStepOK ==
  ASSUME ApiAssumption, StoreAssumption, ApiTypeOK, NEW c \in Calls, SetStep(c)
  PROVE  StepOK
<1> USE DEF ApiTypeOK
<1>0. CallsOK /\ Caller[c] \in Users /\ NoUser \in Recipients /\ {} \in SUBSET Rows
  BY DEF CallsOK, ApiAssumption, Recipients
<1>1. ASSUME NEW S \in SUBSET Rows, BeginByIds(c, S)
      PROVE  StepOK
  <2>1. Enter(c, "byIds", S, NoUser, NoWindow) /\ UNCHANGED <<storeVars, jobs>>
    BY <1>1 DEF BeginByIds, Begin
  <2> QED BY <2>1, <1>0, EnterType DEF StepOK, CallVerbs, NoWindow
<1>2. ASSUME NEW S \in SUBSET Rows, NEW verb \in {"allOrNone", "gang"}, BeginAllOrNone(c, S, verb)
      PROVE  StepOK
  <2>1. Enter(c, verb, S, NoUser, NoWindow) /\ UNCHANGED <<storeVars, jobs>>
    BY <1>2 DEF BeginAllOrNone, Begin
  <2> QED BY <2>1, <1>0, EnterType DEF StepOK, CallVerbs, NoWindow
<1>3. ASSUME NEW S \in SUBSET Rows, NEW verb \in Verbs, NEW to \in Recipients, BeginBulk(c, verb, S, to)
      PROVE  StepOK
  <2>1. /\ Enter(c, verb, S, to, NoWindow) /\ UNCHANGED <<storeVars, jobs>>
        /\ verb \in {"bulkAssign", "bulkEscalate", "bulkCancel", "bulkTriage"}
        /\ to \in BulkTargets(verb, Caller[c], S)
    BY <1>3 DEF BeginBulk, Begin
  <2>2. verb = "bulkAssign" => to \in Users
    BY <2>1 DEF BulkTargets
  <2>3. verb = "bulkEscalate" => to \in Roles
    BY <2>1 DEF BulkTargets
  <2> QED BY <2>1, <2>2, <2>3, <1>0, EnterType DEF StepOK, CallVerbs, NoWindow
<1>4. CASE ResolveByIds(c)
  <2>1. ResolveMany(call[c].on) /\ Done(c) /\ UNCHANGED jobs
    BY <1>4 DEF ResolveByIds
  <2>2. HonouringNext
    BY <2>1, <1>0, SlotFields DEF HonouringNext
  <2> QED BY <2>1, <2>2, <1>0, DoneType DEF StepOK
<1>5. CASE AllOrNone(c)
  <2>1. /\ ResolveAllOrNone(call[c].on, Caller[c]) \/ ResolveAllOrNone(call[c].on, NoUser)
        /\ Done(c) /\ UNCHANGED jobs
    BY <1>5 DEF AllOrNone
  <2>2. HonouringNext
    BY <2>1, <1>0, SlotFields DEF HonouringNext
  <2> QED BY <2>1, <2>2, <1>0, DoneType DEF StepOK
<1>6. CASE BulkEscalate(c)
  <2>1. MoveRows(call[c].on, call[c].to) /\ call[c].to \in Roles /\ Done(c) /\ UNCHANGED jobs
    BY <1>6, <1>0, SlotFields DEF BulkEscalate, At
  <2>2. HonouringNext
    BY <2>1, <1>0, SlotFields DEF HonouringNext
  <2> QED BY <2>1, <2>2, <1>0, DoneType DEF StepOK
<1>7. CASE BulkTriage(c)
  <2>1. ResolveMany(call[c].on) /\ UNCHANGED jobs /\ Ackable(call[c].on) \in SUBSET Rows
    BY <1>7, <1>0, SlotFields DEF BulkTriage, Ackable
  <2>2. HonouringNext
    BY <2>1, <1>0, SlotFields DEF HonouringNext
  <2>3. Done(c) \/ Enter(c, "startTriage", Ackable(call[c].on), NoUser, NoWindow)
    BY <1>7 DEF BulkTriage
  <2>4. CallsOK'
    BY <2>1, <2>3, <1>0, DoneType, EnterType DEF CallVerbs, NoWindow
  <2> QED BY <2>1, <2>2, <2>4 DEF StepOK
<1>8. ASSUME NEW term \in Terms, BulkAssign(c, term)
      PROVE  StepOK
  <2>1. ClaimRows(call[c].on, call[c].to, term) /\ call[c].to \in Users /\ Done(c) /\ UNCHANGED jobs
    BY <1>8, <1>0, SlotFields DEF BulkAssign, At
  <2>2. HonouringNext
    BY <2>1, <1>0, SlotFields DEF HonouringNext
  <2> QED BY <2>1, <2>2, <1>0, DoneType DEF StepOK
<1>9. ASSUME NEW f \in Flows, Terminate(c, f)
      PROVE  StepOK
  <2>1. Enter(c, "terminate", {}, f, NoWindow) /\ UNCHANGED jobs /\ HonouringNext
    BY <1>9 DEF Terminate, HonouringNext
  <2>2. f \in Recipients
    BY DEF Recipients
  <2> QED BY <2>1, <2>2, <1>0, EnterType DEF StepOK, CallVerbs, NoWindow
<1>10. CASE CancelFlow(c)
  <2>1. CancelByWorkflow(call[c].to) /\ call[c].to \in Flows /\ Done(c) /\ UNCHANGED jobs
    BY <1>10, <1>0, SlotFields DEF CancelFlow, At
  <2>2. HonouringNext
    BY <2>1 DEF HonouringNext
  <2> QED BY <2>1, <2>2, <1>0, DoneType DEF StepOK
<1>11. CASE Abandon(c)
  <2>1. Done(c) /\ UNCHANGED <<storeVars, jobs>>
    BY <1>11 DEF Abandon
  <2> QED BY <2>1, <1>0, DoneType DEF StepOK
<1> QED BY <1>1, <1>2, <1>3, <1>4, <1>5, <1>6, <1>7, <1>8, <1>9, <1>10, <1>11 DEF SetStep

Override ==
  \E u, v \in Users, S \in SUBSET Rows, term \in Terms : Reassign(u, S, v, term)

LEMMA EnvStepOK ==
  ASSUME ApiAssumption, StoreAssumption, ApiTypeOK, EnvStep
  PROVE  StepOK \/ Override
<1> USE DEF ApiTypeOK
<1>0. ASSUME HonouringNext, UNCHANGED <<call, jobs>>
      PROVE  StepOK
  BY <1>0 DEF StepOK, CallsOK
<1>1. CASE Clock \/ Sweep
  BY <1>0, <1>1 DEF Clock, Sweep, HonouringNext
<1>2. ASSUME NEW r \in Rows, NEW u \in Users \cup {NoUser}, Park(r, u)
      PROVE  StepOK
  BY <1>0, <1>2 DEF Park, HonouringNext
<1>3. ASSUME NEW r \in Rows, DurableResolve(r) \/ RerunResolve(r) \/ Timeout(r)
      PROVE  StepOK
  BY <1>0, <1>3 DEF DurableResolve, RerunResolve, Timeout, HonouringNext
<1>4. ASSUME NEW S \in SUBSET Rows, NEW u \in Users, Unassign(u, S)
      PROVE  StepOK
  BY <1>0, <1>4 DEF Unassign, HonouringNext
<1> QED BY <1>1, <1>2, <1>3, <1>4 DEF EnvStep, Override

LEMMA ApiStepOK ==
  ASSUME ApiAssumption, StoreAssumption, ApiTypeOK, [ApiNext]_apiVars
  PROVE  StepOK \/ Override
<1>1. CASE UNCHANGED apiVars
  BY <1>1 DEF apiVars, StepOK, CallsOK, ApiTypeOK
<1> QED BY <1>1, ByIdStepOK, ByFacetStepOK, QueueStepOK, SetStepOK, EnvStepOK DEF ApiNext

LEMMA ApiStoreStep ==
  ASSUME ApiAssumption, StoreAssumption, ApiTypeOK, [ApiNext]_apiVars
  PROVE  CallsOK' /\ [StoreNext]_storeVars /\ jobs' \subseteq {"rerun", "triage"} \X Rows
<1>1. CASE StepOK
  BY <1>1 DEF StepOK, StoreNext
<1>2. CASE Override
  BY <1>2 DEF Override, Reassign, StoreNext, ApiTypeOK, CallsOK
<1> QED BY <1>1, <1>2, ApiStepOK

\* Type correctness of the API state: requests, jobs and the table.
THEOREM ApiTypeCorrect == ApiSpec => []ApiTypeOK
<1>1. ApiInit => ApiTypeOK
  <2> SUFFICES ASSUME ApiInit PROVE ApiTypeOK
    OBVIOUS
  <2>1. Idle \in CallRecords
    BY DEF Idle, CallRecords, CallVerbs, Recipients, NoWindow
  <2> QED BY <2>1, InitTypeOK DEF ApiInit, ApiTypeOK
<1>2. ApiTypeOK /\ [ApiNext]_apiVars => ApiTypeOK'
  BY ApiStoreStep, NextTypeOK, ApiAssumption, StoreAssumption DEF CallsOK, ApiTypeOK
<1> QED BY <1>1, <1>2, PTL DEF ApiSpec

\* Whatever requests interleave, crash or lose a race, they run only the
\* guarded statements of the store.
THEOREM ApiImplementsStore == ApiSpec => ImplementsStore
<1>1. ApiInit => StoreInit
  BY DEF ApiInit
<1>2. ApiTypeOK /\ [ApiNext]_apiVars => [StoreNext]_storeVars
  BY ApiStoreStep, ApiAssumption, StoreAssumption
<1> QED BY <1>1, <1>2, ApiTypeCorrect, PTL DEF ApiSpec, StoreSpec, ImplementsStore

\* Hence no interleaving of handlers leaves a live workflow parked at a wait
\* whose signal_key row was settled, or wakes it with another outcome.
THEOREM ApiKeepsWaitsInStep == ApiSpec => []KeyedWaitInStep
<1>1. ApiSpec => StoreSpec
  BY ApiImplementsStore DEF ImplementsStore
<1> QED BY <1>1, StoreKeepsWaitsInStep, PTL

-----------------------------------------------------------------------------
(* Claims under the handlers.                                              *)

\* No handler takes a pending row from the holder of a live claim: only the
\* global administrators' reassign does.
THEOREM ApiHoldsLocks == ApiSpec => LockHolds
<1>1. ApiTypeOK /\ [ApiNext]_apiVars =>
        [\A r \in Rows :
           Live(r) /\ Pending(r) /\ row'[r].assignee \notin {row[r].assignee, NoUser} =>
             \E u, v \in Users, S \in SUBSET Rows, term \in Terms :
               Reassign(u, S, v, term)]_apiVars
  <2> SUFFICES ASSUME ApiTypeOK, [ApiNext]_apiVars, NEW r \in Rows, Live(r), Pending(r),
                      row'[r].assignee \notin {row[r].assignee, NoUser}
               PROVE  Override
    BY DEF Override
  <2>1. ~StepOK
    BY StepHoldsLock DEF StepOK, ApiTypeOK
  <2> QED BY <2>1, ApiStepOK, ApiAssumption, StoreAssumption
<1> QED BY <1>1, ApiTypeCorrect, PTL DEF ApiSpec, LockHolds

\* A step of slot d leaves the other slots as they are.
Own(d) == \A c \in Calls \ {d} : call'[c] = call[c]

LEMMA SlotOps ==
  ASSUME CallsOK, NEW d \in Calls,
         \/ \E verb, S, to, window : Enter(d, verb, S, to, window)
         \/ Done(d) \/ (\E verb : Proceed(d, verb)) \/ (\E r : Drop(d, r))
         \/ UNCHANGED call
  PROVE  Own(d)
  BY DEF Own, Enter, Done, Proceed, Drop, CallsOK

\* A by-id request that ends with its row settled went through the guarded
\* resolve of that row.
LEMMA ResolveSlotStep ==
  ASSUME CallsOK, NEW c \in Calls, At(c, "resolve"), call'[c] # call[c], ApiNext
  PROVE  UNCHANGED row \/ \E r \in Rows : ResolveGuarded(c, r)
<1>1. ASSUME NEW d \in Calls, Own(d) PROVE d = c
  BY <1>1 DEF Own
<1>2. call[c] # Idle
  BY DEF At, Idle
<1>3. ASSUME NEW d \in Calls, NEW r \in Rows, ByIdStep(d, r)
      PROVE  UNCHANGED row \/ ResolveGuarded(c, r)
  <2>1. Own(d)
    BY <1>3, SlotOps DEF ByIdStep, BeginResolve, Begin, ResolveGuarded, ResolveBySignal,
       SignalRouted, ResolveRouted, StartTriage, ResolveTriaged, StartRerun
  <2>2. d = c
    BY <2>1, <1>1
  <2> QED BY <1>3, <2>2, <1>2 DEF ByIdStep, BeginResolve, Begin, ResolveBySignal, Signal,
       SignalRouted, ResolveRouted, StartTriage, ResolveTriaged, StartRerun, At, storeVars
<1>4. ASSUME NEW d \in Calls, NEW r \in Rows, ByFacetStep(d, r)
      PROVE  FALSE
  <2>1. Own(d)
    BY <1>4, SlotOps DEF ByFacetStep, BeginByKey, Begin, ResolveByKey, ByMetadata,
       SignalByMetadata, ClaimByMetadata
  <2>2. d = c
    BY <2>1, <1>1
  <2> QED BY <1>4, <2>2, <1>2 DEF ByFacetStep, BeginByKey, Begin, ResolveByKey, ByMetadata,
       SignalByMetadata, ClaimByMetadata, At
<1>5. ASSUME NEW d \in Calls, NEW r \in Rows, QueueStep(d, r)
      PROVE  FALSE
  <2>1. Own(d)
    BY <1>5, SlotOps DEF QueueStep, BeginClaim, Claim, BeginRelease, Release, BeginEscalate,
       Escalate, BeginCancel, Cancel, StartBulkTriage, EnrichRouting, Begin
  <2>2. d = c
    BY <2>1, <1>1
  <2> QED BY <1>5, <2>2, <1>2 DEF QueueStep, BeginClaim, Claim, BeginRelease, Release,
       BeginEscalate, Escalate, BeginCancel, Cancel, StartBulkTriage, EnrichRouting, Begin, At
<1>6. ASSUME NEW d \in Calls, SetStep(d)
      PROVE  UNCHANGED row
  <2>1. Own(d)
    BY <1>6, SlotOps DEF SetStep, BeginByIds, BeginAllOrNone, BeginBulk, Begin, ResolveByIds,
       AllOrNone, BulkEscalate, BulkTriage, BulkAssign, Terminate, CancelFlow, Abandon
  <2>2. d = c
    BY <2>1, <1>1
  <2> QED BY <1>6, <2>2, <1>2 DEF SetStep, BeginByIds, BeginAllOrNone, BeginBulk, Begin,
       ResolveByIds, AllOrNone, BulkEscalate, BulkTriage, BulkAssign, Terminate, CancelFlow,
       Abandon, At, storeVars
<1>7. CASE EnvStep
  BY <1>7 DEF EnvStep, Clock, Sweep, Park, DurableResolve, RerunResolve, Timeout, Unassign,
     Reassign
<1> QED BY <1>3, <1>4, <1>5, <1>6, <1>7 DEF ApiNext

\* Between the check of a by-id resolve and its statement anybody may claim
\* the row: a keyed row under a live claim is settled by that request only
\* when the claim is its caller's.
THEOREM ResolveRespectsLiveClaim == ApiSpec => LockedRowSettledByHolder
<1>1. ApiTypeOK /\ [ApiNext]_apiVars =>
        [\A c \in Calls, r \in Rows :
           /\ At(c, "resolve") /\ Keyed(r) /\ Live(r)
           /\ call'[c] # call[c] /\ row'[r].status # row[r].status
           => row[r].assignee = Caller[c]]_apiVars
  <2> SUFFICES ASSUME ApiTypeOK, ApiNext, NEW c \in Calls, NEW r \in Rows,
                      At(c, "resolve"), Live(r), call'[c] # call[c],
                      row'[r].status # row[r].status
               PROVE  row[r].assignee = Caller[c]
    OBVIOUS
  <2>1. PICK s \in Rows : ResolveGuarded(c, s)
    BY ResolveSlotStep DEF ApiTypeOK, CallsOK
  <2>2. ~ClaimBlocks(s, Caller[c]) /\ row' = Settled({s}, "resolved")
    BY <2>1, ApiAssumption, StoreAssumption DEF ResolveGuarded, ResolveRow
  <2>3. s = r
    BY <2>2 DEF Settled
  <2> QED BY <2>2, <2>3 DEF ClaimBlocks, Live, NoWindow, ApiTypeOK, StoreTypeOK, RowRecords
<1> QED BY <1>1, ApiTypeCorrect, PTL DEF ApiSpec, LockedRowSettledByHolder

-----------------------------------------------------------------------------
(* One metadata request at a time signals a row.  The statements below give *)
(* no claim up and shorten none.                                            *)
Lasting ==
  \/ Tick \/ SweepExpired
  \/ \E r \in Rows, u \in Users \cup {NoUser} : Insert(r, u) \/ ResolveRow(r, u)
  \/ \E r \in Rows : Enrich(r) \/ CancelRow(r) \/ ExpireRow(r) \/ Signal(r)
  \/ \E r \in Rows, u \in Users : ResolveByMetadata(r, u)
  \/ \E S \in SUBSET Rows :
       \/ ResolveMany(S)
       \/ \E u \in Users \cup {NoUser} : ResolveAllOrNone(S, u)
       \/ \E u \in Users, term \in Terms : ClaimRows(S, u, term)
  \/ \E f \in Flows : TerminateFlow(f) \/ CancelByWorkflow(f)

\* What they make of a row that was inserted.
Lasts(r) ==
  \/ row'[r] = row[r]
  \/ row'[r].status \in Terminal
  \/ row'[r].status = row[r].status /\ row'[r].assignee = row[r].assignee /\ row'[r].until = row[r].until
  \/ /\ Pending(r) /\ row'[r].status = "pending" /\ row'[r].assignee # NoUser
     /\ row'[r].until \in Nat /\ row'[r].until >= now + MetaTerm
  \/ Pending(r) /\ row'[r].status = "pending" /\ row[r].until <= now

LEMMA LastingRow ==
  ASSUME StoreAssumption, StoreTypeOK, \A term \in Terms : MetaTerm <= term, [Lasting]_storeVars,
         NEW r \in Rows, row[r].status # "none"
  PROVE  Lasts(r)
<1>0. row[r] \in RowRecords /\ now \in Nat /\ MetaTerm \in Nat /\ Terms \subseteq Nat
  BY DEF StoreTypeOK, StoreAssumption
<1>a. \A S, status : Settled(S, status)[r] = row[r] \/ Settled(S, status)[r].status = status
  BY <1>0 DEF Settled, RowRecords
<1>1. ASSUME NEW q \in Rows, NEW u \in Users \cup {NoUser}, Insert(q, u)
      PROVE  Lasts(r)
  <2>1. q # r
    BY <1>1 DEF Insert
  <2> QED BY <1>1, <2>1 DEF Insert, Lasts, StoreTypeOK
<1>2. ASSUME NEW S, NEW status \in Terminal, row' = Settled(S, status) PROVE Lasts(r)
  BY <1>a, <1>2 DEF Lasts
<1>3. ASSUME NEW q \in Rows, Enrich(q) PROVE Lasts(r)
  <2>1. [row[r] EXCEPT !.enriched = TRUE].status = row[r].status /\ [row[r] EXCEPT !.enriched = TRUE].assignee = row[r].assignee
        /\ [row[r] EXCEPT !.enriched = TRUE].until = row[r].until
    BY <1>0 DEF RowRecords
  <2>2. row'[r] = row[r] \/ row'[r] = [row[r] EXCEPT !.enriched = TRUE]
    BY <1>3 DEF Enrich, StoreTypeOK
  <2> QED BY <2>1, <2>2 DEF Lasts
<1>4. ASSUME NEW q \in Rows, NEW u \in Users, ResolveByMetadata(q, u) PROVE Lasts(r)
  <2>1. CASE q # r
    BY <1>4, <2>1 DEF ResolveByMetadata, StoreTypeOK, Lasts
  <2>2. CASE q = r
    <3>1. PICK e : e = StampedByMetadata(r, u)
      OBVIOUS
    <3>2. /\ e.assignee = IF row[r].assignee = NoUser THEN u ELSE row[r].assignee
          /\ e.until = IF Live(r) THEN row[r].until ELSE now + MetaTerm
          /\ e.status = IF Shape[r] = "signal" THEN row[r].status ELSE "resolved"
      BY <1>0, <3>1 DEF StampedByMetadata, RowRecords
    <3>3. row'[r] = e /\ Pending(r)
      BY <1>4, <2>2, <3>1 DEF ResolveByMetadata, StoreTypeOK
    <3>4. CASE Shape[r] # "signal"
      BY <3>2, <3>3, <3>4 DEF Lasts, Terminal
    <3>5. CASE Shape[r] = "signal" /\ Live(r)
      BY <3>2, <3>3, <3>5 DEF Lasts, Live
    <3>6. CASE Shape[r] = "signal" /\ ~Live(r)
      <4>1. e.until = now + MetaTerm /\ e.until \in Nat /\ e.status = "pending" /\ e.assignee # NoUser
        BY <1>0, <3>2, <3>3, <3>6, StoreAssumption DEF Pending
      <4> QED BY <1>0, <3>3, <4>1 DEF Lasts
    <3> QED BY <3>4, <3>5, <3>6
  <2> QED BY <2>1, <2>2
<1>5. ASSUME NEW S \in SUBSET Rows, NEW u \in Users, NEW term \in Terms, ClaimRows(S, u, term) PROVE Lasts(r)
  <2>1. PICK e : e = [row[r] EXCEPT !.assignee = u, !.until = now + term]
    OBVIOUS
  <2>2. e.assignee = u /\ e.until = now + term /\ e.status = row[r].status
    BY <1>0, <2>1 DEF RowRecords
  <2>3. row'[r] = IF r \in S /\ Claimable(r, u) THEN e ELSE row[r]
    BY <1>5, <2>1 DEF ClaimRows
  <2>4. CASE r \in S /\ Claimable(r, u)
    <3>1. Pending(r) /\ row'[r] = e
      BY <2>3, <2>4 DEF Claimable
    <3>2. term \in Nat /\ MetaTerm <= term
      BY <1>0
    <3>3. e.until \in Nat /\ e.until >= now + MetaTerm
      BY <1>0, <2>2, <3>2
    <3> QED BY <2>2, <3>1, <3>3, StoreAssumption DEF Lasts, Pending
  <2> QED BY <2>3, <2>4 DEF Lasts
<1>6. CASE SweepExpired
  <2>1. Unassigned(row[r]).status = row[r].status
    BY <1>0, UnassignedType
  <2>2. row'[r] = row[r] \/ (Pending(r) /\ row'[r] = Unassigned(row[r]) /\ row[r].until <= now)
    BY <1>6 DEF SweepExpired
  <2> QED BY <2>1, <2>2 DEF Lasts, Pending
<1>7. CASE row' = row
  BY <1>7 DEF Lasts
<1>8. "resolved" \in Terminal /\ "cancelled" \in Terminal /\ "expired" \in Terminal
  BY DEF Terminal
<1>9. ASSUME NEW q \in Rows, NEW u \in Users \cup {NoUser}, ResolveRow(q, u) PROVE Lasts(r)
  BY <1>2, <1>8, <1>9 DEF ResolveRow
<1>10. ASSUME NEW q \in Rows, CancelRow(q) \/ ExpireRow(q) \/ Signal(q) PROVE Lasts(r)
  BY <1>2, <1>7, <1>8, <1>10 DEF CancelRow, ExpireRow, Signal
<1>11. ASSUME NEW S \in SUBSET Rows, ResolveMany(S) PROVE Lasts(r)
  BY <1>2, <1>8, <1>11 DEF ResolveMany
<1>12. ASSUME NEW S \in SUBSET Rows, NEW u \in Users \cup {NoUser}, ResolveAllOrNone(S, u) PROVE Lasts(r)
  BY <1>2, <1>8, <1>12 DEF ResolveAllOrNone
<1>13. ASSUME NEW f \in Flows, TerminateFlow(f) \/ CancelByWorkflow(f) PROVE Lasts(r)
  BY <1>2, <1>7, <1>8, <1>13 DEF TerminateFlow, CancelByWorkflow
<1>14. CASE Tick \/ UNCHANGED storeVars
  BY <1>7, <1>14 DEF Tick, storeVars
<1> HIDE DEF Lasts
<1> QED BY <1>1, <1>3, <1>4, <1>5, <1>6, <1>9, <1>10, <1>11, <1>12, <1>13, <1>14 DEF Lasting

\* A row that is pending until w is claimed until w at least.
ClaimedUntil(r, w) ==
  /\ row[r].status # "none" /\ w <= now + MetaTerm
  /\ Pending(r) /\ now < w => row[r].assignee # NoUser /\ row[r].until >= w

LEMMA LastingClaim ==
  ASSUME StoreAssumption, StoreTypeOK, \A term \in Terms : MetaTerm <= term, [Lasting]_storeVars,
         NEW r \in Rows, NEW w \in Nat, ClaimedUntil(r, w)
  PROVE  ClaimedUntil(r, w)'
<1>1. Lasts(r)
  BY LastingRow DEF ClaimedUntil
<1>2. now \in Nat /\ now' \in Nat /\ now <= now' /\ MetaTerm \in Nat /\ row[r].until \in Nat
  <2>1. now' = now \/ now' = now + 1
    BY DEF Lasting, Tick, SweepExpired, Insert, ResolveRow, Enrich, CancelRow, ExpireRow, Signal, ResolveByMetadata,
       ResolveMany, ResolveAllOrNone, ClaimRows, TerminateFlow, CancelByWorkflow, storeVars
  <2>2. now \in Nat /\ MetaTerm \in Nat /\ row[r].until \in Nat
    BY DEF StoreTypeOK, StoreAssumption, RowRecords
  <2> QED BY <2>1, <2>2
<1>3. w <= now' + MetaTerm
  <2>1. PICK n, l, m \in Nat : n = now /\ l = now' /\ m = MetaTerm
    BY <1>2
  <2>2. w <= n + m /\ n <= l
    BY <1>2, <2>1 DEF ClaimedUntil
  <2>3. w <= l + m
    BY <2>2
  <2> QED BY <2>1, <2>3
<1>4. row'[r].status # "none"
  BY <1>1 DEF Lasts, ClaimedUntil, Terminal, Pending
<1>5. ASSUME row'[r].status = "pending", now' < w
      PROVE  row'[r].assignee # NoUser /\ row'[r].until >= w
  <2>1. now < w
    BY <1>2, <1>5
  <2>2. Pending(r) => row[r].assignee # NoUser /\ row[r].until >= w
    BY <2>1 DEF ClaimedUntil
  <2>3. CASE row'[r] = row[r] \/ (row'[r].status = row[r].status /\ row'[r].assignee = row[r].assignee /\ row'[r].until = row[r].until)
    BY <1>5, <2>2, <2>3 DEF Pending
  <2>4. CASE row'[r].assignee # NoUser /\ row'[r].until \in Nat /\ row'[r].until >= now + MetaTerm
    <3>1. PICK v \in Nat : v = row'[r].until
      BY <2>4
    <3>2. v >= w
      BY <1>2, <2>4, <3>1 DEF ClaimedUntil
    <3> QED BY <2>4, <3>1, <3>2
  <2>5. CASE Pending(r) /\ row[r].until <= now
    BY <1>2, <2>1, <2>2, <2>5
  <2>6. row'[r].status \notin Terminal
    BY <1>5 DEF Terminal
  <2> QED BY <1>1, <2>3, <2>4, <2>5, <2>6 DEF Lasts
<1> QED BY <1>3, <1>4, <1>5 DEF ClaimedUntil, Pending

\* Nobody is about to give a claim up, and who is about to signal a row holds it.
Givers == {"release", "escalate", "bulkEscalate"}
SignalInv ==
  /\ \A c \in Calls : call[c].verb \notin Givers
  /\ \A c \in Calls : \A r \in call[c].on :
       At(c, "metaSignal") => Shape[r] = "signal" /\ ClaimedUntil(r, call[c].window)
  /\ OneMetadataSignaller

\* No request enters upon a signal, a release or a move.
Plain ==
  \A c \in Calls :
    /\ call'[c].verb \notin Givers
    /\ At(c, "metaSignal")' => /\ At(c, "metaSignal") /\ call'[c].window = call[c].window
                               /\ call'[c].on \subseteq call[c].on

LEMMA PlainOps ==
  ASSUME CallsOK, \A c \in Calls : call[c].verb \notin Givers, NEW d \in Calls,
         \/ \E verb \in CallVerbs \ (Givers \cup {"metaSignal"}) : \E S, to, window : Enter(d, verb, S, to, window)
         \/ Done(d) \/ (\E verb \in {"routed", "triage"} : Proceed(d, verb)) \/ (\E r : Drop(d, r))
         \/ UNCHANGED call
  PROVE  Plain
<1>0. \A c \in Calls : call[c] \in CallRecords /\ Idle.verb = "idle" /\ "idle" \notin Givers
  BY DEF CallsOK, Idle, Givers
<1>1. ASSUME NEW e, call' = [call EXCEPT ![d] = e], e.verb \notin Givers \cup {"metaSignal"} PROVE Plain
  BY <1>1 DEF Plain, CallsOK, At
<1>2. ASSUME NEW verb \in CallVerbs \ (Givers \cup {"metaSignal"}), NEW S, NEW to, NEW window, Enter(d, verb, S, to, window)
      PROVE  Plain
  BY <1>1, <1>2 DEF Enter
<1>3. CASE Done(d)
  BY <1>0, <1>1, <1>3 DEF Done
<1>4. ASSUME NEW verb \in {"routed", "triage"}, Proceed(d, verb) PROVE Plain
  <2>1. PICK e : e = [call[d] EXCEPT !.verb = verb]
    OBVIOUS
  <2>2. e.verb = verb
    BY <1>0, <2>1 DEF CallRecords
  <2> QED BY <1>1, <1>4, <2>1, <2>2 DEF Proceed, Givers
<1>5. ASSUME NEW r, Drop(d, r) PROVE Plain
  <2>1. PICK e : e = [call[d] EXCEPT !.on = @ \ {r}]
    OBVIOUS
  <2>2. e.verb = call[d].verb /\ e.window = call[d].window /\ e.on = call[d].on \ {r}
    BY <1>0, <2>1 DEF CallRecords
  <2>3. Done(d) \/ call' = [call EXCEPT ![d] = e]
    BY <1>5, <2>1 DEF Drop
  <2>4. CASE call' = [call EXCEPT ![d] = e]
    BY <2>2, <2>4 DEF Plain, CallsOK, At
  <2> QED BY <1>3, <2>3, <2>4
<1>6. CASE UNCHANGED call
  BY <1>6 DEF Plain, At
<1> QED BY <1>2, <1>3, <1>4, <1>5, <1>6

\* A request that stamped the claim of a row nobody holds goes on to signal it.
Stamping(c, r) ==
  /\ call[c] = Idle /\ Pending(r) /\ Shape[r] = "signal" /\ ~Live(r)
  /\ ResolveByMetadata(r, Caller[c])
  /\ Enter(c, "metaSignal", {r}, NoUser, now + MetaTerm)

NoGiver == Verbs \cap {"release", "escalate", "bulkEscalate", "reassign"} = {}

LEMMA SignalStep ==
  ASSUME ApiAssumption, StoreAssumption, ApiTypeOK, SignalInv, NoGiver, ApiNext
  PROVE  [Lasting]_storeVars /\ (Plain \/ \E c \in Calls, r \in Rows : Stamping(c, r))
<1>0. CallsOK /\ (\A c \in Calls : call[c].verb \notin Givers) /\ (\A c \in Calls : Caller[c] \in Users)
  BY DEF ApiTypeOK, CallsOK, SignalInv, ApiAssumption
<1>1. ASSUME NEW c \in Calls, NEW r \in Rows, ByIdStep(c, r)
      PROVE  [Lasting]_storeVars /\ Plain
  <2>1. [Lasting]_storeVars
    BY <1>0, <1>1 DEF ByIdStep, BeginResolve, Begin, ResolveGuarded, ResolveBySignal, SignalRouted, ResolveRouted,
       StartTriage, ResolveTriaged, StartRerun, Lasting
  <2>2. CASE BeginResolve(c, r)
    <3>1. PICK verb \in {"resolve", "unrouted"} : \E window : Enter(c, verb, {r}, NoUser, window)
      BY <2>2 DEF BeginResolve, Begin
    <3>2. verb \in CallVerbs \ (Givers \cup {"metaSignal"})
      BY <3>1 DEF CallVerbs, Givers
    <3> QED BY <1>0, <2>1, <3>1, <3>2, PlainOps
  <2>3. CASE Done(c) \/ Proceed(c, "routed") \/ Proceed(c, "triage")
    BY <1>0, <2>1, <2>3, PlainOps
  <2> QED BY <1>1, <2>2, <2>3 DEF ByIdStep, ResolveGuarded, ResolveBySignal, SignalRouted, ResolveRouted,
       StartTriage, ResolveTriaged, StartRerun
<1>2. ASSUME NEW c \in Calls, NEW r \in Rows, ByFacetStep(c, r)
      PROVE  [Lasting]_storeVars /\ (Plain \/ Stamping(c, r))
  <2>1. "byKey" \in CallVerbs \ (Givers \cup {"metaSignal"})
    BY DEF CallVerbs, Givers
  <2>2. CASE BeginByKey(c, r) \/ ResolveByKey(c, r) \/ SignalByMetadata(c, r)
    <3>1. [Lasting]_storeVars
      BY <1>0, <2>2 DEF BeginByKey, Begin, ResolveByKey, SignalByMetadata, Lasting
    <3>2. Enter(c, "byKey", {r}, NoUser, NoWindow) \/ Done(c)
      BY <2>2 DEF BeginByKey, Begin, ResolveByKey, SignalByMetadata
    <3> QED BY <1>0, <2>1, <3>1, <3>2, PlainOps
  <2>3. CASE ByMetadata(c, r)
    <3>1. [Lasting]_storeVars
      BY <1>0, <2>3 DEF ByMetadata, Lasting
    <3>2. Stamping(c, r) \/ Enter(c, "byKey", {r}, NoUser, NoWindow) \/ UNCHANGED call
      BY <2>3 DEF ByMetadata, Stamping
    <3> QED BY <1>0, <2>1, <3>1, <3>2, PlainOps
  <2>4. ASSUME NEW term \in Terms, ClaimByMetadata(c, r, term) PROVE [Lasting]_storeVars /\ Plain
    BY <1>0, <2>4, PlainOps DEF ClaimByMetadata, Lasting
  <2> QED BY <1>2, <2>2, <2>3, <2>4 DEF ByFacetStep
<1>3. ASSUME NEW c \in Calls, NEW r \in Rows, QueueStep(c, r)
      PROVE  [Lasting]_storeVars /\ Plain
  <2>1. {"claim", "cancel", "autoClaim"} \subseteq CallVerbs \ (Givers \cup {"metaSignal"})
    BY DEF CallVerbs, Givers
  <2>2. CASE BeginClaim(c, r) \/ BeginCancel(c, r) \/ EnrichRouting(c, r)
    <3>1. [Lasting]_storeVars
      BY <2>2 DEF BeginClaim, BeginCancel, EnrichRouting, Begin, Lasting
    <3>2. \E verb \in {"claim", "cancel", "autoClaim"} : Enter(c, verb, {r}, NoUser, NoWindow)
      BY <2>2 DEF BeginClaim, BeginCancel, EnrichRouting, Begin
    <3> QED BY <1>0, <2>1, <3>1, <3>2, PlainOps
  <2>3. ASSUME NEW term \in Terms, Claim(c, r, term) PROVE [Lasting]_storeVars /\ Plain
    BY <1>0, <2>3, PlainOps DEF Claim, Lasting
  <2>4. CASE Cancel(c, r) \/ StartBulkTriage(c, r)
    <3>1. [Lasting]_storeVars
      BY <2>4 DEF Cancel, StartBulkTriage, Lasting
    <3>2. Drop(c, r)
      BY <2>4 DEF Cancel, StartBulkTriage
    <3> QED BY <1>0, <3>1, <3>2, PlainOps
  <2>5. ~BeginRelease(c, r) /\ \A role \in Roles : ~BeginEscalate(c, r, role)
    BY DEF BeginRelease, BeginEscalate, NoGiver
  <2>6. ~Release(c, r) /\ ~Escalate(c, r)
    BY <1>0 DEF Release, Escalate, At, Givers
  <2> QED BY <1>3, <2>2, <2>3, <2>4, <2>5, <2>6 DEF QueueStep
<1>4. ASSUME NEW c \in Calls, SetStep(c)
      PROVE  [Lasting]_storeVars /\ Plain
  <2>1. {"byIds", "allOrNone", "gang", "bulkAssign", "bulkCancel", "bulkTriage", "startTriage", "terminate"}
          \subseteq CallVerbs \ (Givers \cup {"metaSignal"})
    BY DEF CallVerbs, Givers
  <2>2. ASSUME NEW S \in SUBSET Rows, BeginByIds(c, S) PROVE [Lasting]_storeVars /\ Plain
    BY <1>0, <2>1, <2>2, PlainOps DEF BeginByIds, Begin
  <2>3. ASSUME NEW S \in SUBSET Rows, NEW verb \in {"allOrNone", "gang"}, BeginAllOrNone(c, S, verb)
        PROVE  [Lasting]_storeVars /\ Plain
    BY <1>0, <2>1, <2>3, PlainOps DEF BeginAllOrNone, Begin
  <2>4. ASSUME NEW S \in SUBSET Rows, NEW verb \in Verbs, NEW to \in Recipients, BeginBulk(c, verb, S, to)
        PROVE  [Lasting]_storeVars /\ Plain
    <3>1. verb \in {"bulkAssign", "bulkCancel", "bulkTriage"} /\ Enter(c, verb, S, to, NoWindow) /\ UNCHANGED storeVars
      BY <2>4 DEF BeginBulk, Begin, NoGiver
    <3> QED BY <1>0, <2>1, <3>1, PlainOps
  <2>5. CASE ResolveByIds(c) \/ AllOrNone(c) \/ CancelFlow(c) \/ Abandon(c)
    <3>1. Done(c)
      BY <2>5 DEF ResolveByIds, AllOrNone, CancelFlow, Abandon
    <3>2. call[c].on \in SUBSET Rows /\ (At(c, "terminate") => call[c].to \in Flows)
      BY <1>0, SlotFields DEF At
    <3>3. [Lasting]_storeVars
      BY <1>0, <2>5, <3>2 DEF ResolveByIds, AllOrNone, CancelFlow, Abandon, Lasting
    <3> QED BY <1>0, <3>1, <3>3, PlainOps
  <2>6. ~BulkEscalate(c)
    BY <1>0 DEF BulkEscalate, At, Givers
  <2>7. CASE BulkTriage(c)
    <3>1. call[c].on \in SUBSET Rows /\ ResolveMany(call[c].on)
      BY <1>0, <2>7, SlotFields DEF BulkTriage
    <3>2. [Lasting]_storeVars
      BY <3>1 DEF Lasting
    <3>3. Done(c) \/ \E S : Enter(c, "startTriage", S, NoUser, NoWindow)
      BY <2>7 DEF BulkTriage
    <3> QED BY <1>0, <2>1, <3>2, <3>3, PlainOps
  <2>8. ASSUME NEW term \in Terms, BulkAssign(c, term) PROVE [Lasting]_storeVars /\ Plain
    <3>1. call[c].on \in SUBSET Rows /\ call[c].to \in Users /\ ClaimRows(call[c].on, call[c].to, term) /\ Done(c)
      BY <1>0, <2>8, SlotFields DEF BulkAssign, At
    <3>2. [Lasting]_storeVars
      BY <3>1 DEF Lasting
    <3> QED BY <1>0, <3>1, <3>2, PlainOps
  <2>9. ASSUME NEW f \in Flows, Terminate(c, f) PROVE [Lasting]_storeVars /\ Plain
    <3>1. [Lasting]_storeVars /\ Enter(c, "terminate", {}, f, NoWindow)
      BY <2>9 DEF Terminate, Lasting
    <3> QED BY <1>0, <2>1, <3>1, PlainOps
  <2> QED BY <1>4, <2>2, <2>3, <2>4, <2>5, <2>6, <2>7, <2>8, <2>9 DEF SetStep
<1>5. CASE EnvStep
  <2>1. (\A u \in Users, S \in SUBSET Rows : ~Unassign(u, S)) /\ \A u, v \in Users, S \in SUBSET Rows, term \in Terms : ~Reassign(u, S, v, term)
    BY DEF Unassign, Reassign, NoGiver
  <2>2. CASE Clock \/ Sweep
    BY <1>0, <2>2 DEF Clock, Sweep, Lasting, Plain, At
  <2>3. ASSUME NEW r \in Rows, NEW u \in Users \cup {NoUser}, Park(r, u) PROVE [Lasting]_storeVars /\ Plain
    BY <1>0, <2>3 DEF Park, Lasting, Plain, At
  <2>4. ASSUME NEW r \in Rows, DurableResolve(r) \/ RerunResolve(r) \/ Timeout(r) PROVE [Lasting]_storeVars /\ Plain
    BY <1>0, <2>4 DEF DurableResolve, RerunResolve, Timeout, Lasting, Plain, At
  <2> QED BY <1>5, <2>1, <2>2, <2>3, <2>4 DEF EnvStep
<1> QED BY <1>1, <1>2, <1>3, <1>4, <1>5 DEF ApiNext

\* Where no request releases, escalates or overrides a claim, and none asks for a window
\* shorter than the one a metadata resolve stamps, two metadata requests never both stand
\* before the signal of one row, whatever the other verbs, the sweeper and the clock do.
THEOREM OneMetadataRequestSignals ==
  ASSUME NoGiver, \A term \in Terms : MetaTerm <= term
  PROVE  ApiSpec => []OneMetadataSignaller
<1>1. ApiInit => SignalInv
  BY DEF ApiInit, SignalInv, Idle, At, Givers, OneMetadataSignaller
<1>2. ApiTypeOK /\ SignalInv /\ [ApiNext]_apiVars => SignalInv'
  <2> SUFFICES ASSUME ApiTypeOK, SignalInv, [ApiNext]_apiVars PROVE SignalInv'
    OBVIOUS
  <2>a. \A c \in Calls : call[c].window \in Nat /\ call[c].on \subseteq Rows
    BY SlotFields DEF ApiTypeOK, CallsOK
  <2>1. CASE UNCHANGED apiVars
    BY <2>1 DEF apiVars, storeVars, SignalInv, At, ClaimedUntil, Pending, OneMetadataSignaller
  <2>2. CASE ApiNext
    <3>1. [Lasting]_storeVars /\ (Plain \/ \E c \in Calls, r \in Rows : Stamping(c, r))
      BY <2>2, SignalStep, ApiAssumption, StoreAssumption
    <3>2. \A r \in Rows, w \in Nat : ClaimedUntil(r, w) => ClaimedUntil(r, w)'
      BY <3>1, LastingClaim, StoreAssumption DEF ApiTypeOK
    <3>n. now \in Nat /\ now' \in Nat /\ now <= now'
      <4>1. now \in Nat
        BY DEF ApiTypeOK, StoreTypeOK
      <4>2. now' = now \/ now' = now + 1
        BY <3>1 DEF Lasting, Tick, SweepExpired, Insert, ResolveRow, Enrich, CancelRow, ExpireRow, Signal, ResolveByMetadata,
           ResolveMany, ResolveAllOrNone, ClaimRows, TerminateFlow, CancelByWorkflow, storeVars
      <4> QED BY <4>1, <4>2
    <3>3. CASE Plain
      <4>1. \A c \in Calls : call'[c].verb \notin Givers
        BY <3>3 DEF Plain
      <4>2. \A c \in Calls : At(c, "metaSignal")' => /\ At(c, "metaSignal") /\ call'[c].window = call[c].window
                                                     /\ call'[c].on \subseteq call[c].on
        BY <3>3 DEF Plain
      <4>3. ASSUME NEW c \in Calls, NEW r \in call'[c].on, At(c, "metaSignal")'
            PROVE  Shape[r] = "signal" /\ ClaimedUntil(r, call[c].window)'
        <5>1. PICK w \in Nat : w = call[c].window
          BY <2>a
        <5>2. r \in Rows /\ At(c, "metaSignal") /\ call'[c].window = w /\ r \in call[c].on
          BY <2>a, <4>2, <4>3, <5>1
        <5>3. Shape[r] = "signal" /\ ClaimedUntil(r, w)
          BY <5>1, <5>2 DEF SignalInv
        <5>4. ClaimedUntil(r, w)'
          BY <3>2, <5>2, <5>3
        <5> QED BY <5>2, <5>3, <5>4 DEF ClaimedUntil
      <4>4. OneMetadataSignaller'
        <5> SUFFICES ASSUME NEW c \in Calls, NEW d \in Calls, NEW r \in call'[c].on \cap call'[d].on,
                            At(c, "metaSignal")', At(d, "metaSignal")', now' < call'[c].window, now' < call'[d].window
                     PROVE  c = d
          BY DEF OneMetadataSignaller
        <5>1. At(c, "metaSignal") /\ At(d, "metaSignal") /\ r \in call[c].on \cap call[d].on
              /\ now' < call[c].window /\ now' < call[d].window
          BY <4>2
        <5>2. now < call[c].window /\ now < call[d].window
          BY <2>a, <3>n, <5>1
        <5> QED BY <5>1, <5>2 DEF SignalInv, OneMetadataSignaller
      <4> QED BY <4>1, <4>3, <4>4 DEF SignalInv
    <3>4. ASSUME NEW b \in Calls, NEW q \in Rows, Stamping(b, q) PROVE SignalInv'
      <4>1. PICK e : e = [verb |-> "metaSignal", on |-> {q}, to |-> NoUser, window |-> now + MetaTerm]
        OBVIOUS
      <4>2. e.verb = "metaSignal" /\ e.on = {q} /\ e.window = now + MetaTerm
        BY <4>1
      <4>3. call' = [call EXCEPT ![b] = e]
        BY <3>4, <4>1 DEF Stamping, Enter
      <4>4. call'[b] = e /\ \A c \in Calls \ {b} : call'[c] = call[c]
        BY <4>3 DEF ApiTypeOK
      <4>5. PICK x : x = StampedByMetadata(q, Caller[b])
        OBVIOUS
      <4>6. row'[q] = x /\ now' = now /\ ~Live(q) /\ Pending(q) /\ Shape[q] = "signal"
        BY <3>4, <4>5 DEF Stamping, ResolveByMetadata, ApiTypeOK, StoreTypeOK
      <4>7. x.assignee # NoUser /\ x.until = now + MetaTerm /\ x.status = "pending"
        BY <4>5, <4>6, StoreAssumption, ApiAssumption DEF StampedByMetadata, RowRecords, ApiTypeOK, StoreTypeOK, Pending
      <4>8. ClaimedUntil(q, now + MetaTerm)'
        BY <3>n, <4>6, <4>7, StoreAssumption DEF ClaimedUntil
      <4>9. ASSUME NEW c \in Calls \ {b}, q \in call[c].on, At(c, "metaSignal"), now < call[c].window PROVE FALSE
        <5>1. ClaimedUntil(q, call[c].window)
          BY <4>9 DEF SignalInv
        <5>2. row[q].assignee # NoUser /\ row[q].until >= call[c].window
          BY <4>6, <4>9, <5>1 DEF ClaimedUntil
        <5>3. row[q].until \in Nat
          BY DEF ApiTypeOK, StoreTypeOK, RowRecords
        <5>4. row[q].until > now
          BY <2>a, <3>n, <4>9, <5>2, <5>3
        <5> QED BY <4>6, <5>2, <5>4 DEF Live
      <4>10. \A c \in Calls : call'[c].verb \notin Givers
        BY <4>2, <4>4 DEF SignalInv, Givers
      <4>11. ASSUME NEW c \in Calls, NEW r \in call'[c].on, At(c, "metaSignal")'
             PROVE  Shape[r] = "signal" /\ ClaimedUntil(r, call[c].window)'
        <5>1. CASE c = b
          <6>1. r = q /\ call'[c].window = now + MetaTerm
            BY <4>2, <4>4, <4>11, <5>1
          <6> QED BY <4>6, <4>8, <6>1 DEF ClaimedUntil
        <5>2. CASE c # b
          <6>1. PICK w \in Nat : w = call[c].window
            BY <2>a
          <6>2. r \in Rows /\ At(c, "metaSignal") /\ call'[c].window = w /\ r \in call[c].on
            BY <2>a, <4>4, <4>11, <5>2, <6>1 DEF At
          <6>3. Shape[r] = "signal" /\ ClaimedUntil(r, w)
            BY <6>1, <6>2 DEF SignalInv
          <6>4. ClaimedUntil(r, w)'
            BY <3>2, <6>2, <6>3
          <6> QED BY <6>2, <6>3, <6>4 DEF ClaimedUntil
        <5> QED BY <5>1, <5>2
      <4>12. OneMetadataSignaller'
        <5> SUFFICES ASSUME NEW c \in Calls, NEW d \in Calls, NEW r \in call'[c].on \cap call'[d].on,
                            At(c, "metaSignal")', At(d, "metaSignal")', now' < call'[c].window, now' < call'[d].window
                     PROVE  c = d
          BY DEF OneMetadataSignaller
        <5>1. CASE c # b /\ d # b
          BY <4>4, <4>6, <5>1 DEF SignalInv, OneMetadataSignaller, At
        <5>2. CASE c = b /\ d # b
          BY <4>2, <4>4, <4>6, <4>9, <5>2 DEF At
        <5>3. CASE c # b /\ d = b
          BY <4>2, <4>4, <4>6, <4>9, <5>3 DEF At
        <5> QED BY <5>1, <5>2, <5>3
      <4> QED BY <4>10, <4>11, <4>12 DEF SignalInv
    <3> QED BY <3>1, <3>3, <3>4
  <2> QED BY <2>1, <2>2
<1>3. SignalInv => OneMetadataSignaller
  BY DEF SignalInv
<1> QED BY <1>1, <1>2, <1>3, ApiTypeCorrect, PTL DEF ApiSpec

-----------------------------------------------------------------------------
(* Who may leave a workflow parked behind a resolved row.                   *)
Heard(r) == row[r].status # "none" /\ wait[r] # "waiting"

\* A wait opens with its row and never again.
LEMMA StaysHeard ==
  ASSUME StoreTypeOK, [StoreNext]_storeVars, NEW r \in Rows, Heard(r)
  PROVE  Heard(r)'
<1>0. row[r] \in RowRecords /\ wait \in [Rows -> Waits] /\ row \in [Rows -> RowRecords]
  BY DEF StoreTypeOK
<1>a. \A S, status : Settled(S, status)[r].status \in {row[r].status, status}
  BY <1>0 DEF Settled, RowRecords
<1>b. \A S, answer : Answered(S, answer)[r] \in {wait[r], answer}
  BY DEF Answered
<1>u. Unassigned(row[r]).status = row[r].status
  BY <1>0, UnassignedType
<1>1. ASSUME NEW q \in Rows, NEW u \in Users \cup {NoUser}, Insert(q, u) PROVE Heard(r)'
  <2>1. q # r
    BY <1>1 DEF Insert, Heard
  <2> QED BY <1>0, <1>1, <2>1 DEF Insert, Heard
<1>2. ASSUME NEW q \in Rows, NEW u \in Users \cup {NoUser}, ResolveRow(q, u) PROVE Heard(r)'
  <2>1. row'[r].status \in {row[r].status, "resolved"} /\ wait'[r] \in {wait[r], "payload"}
    BY <1>2, <1>a, <1>b DEF ResolveRow
  <2> QED BY <2>1 DEF Heard
<1>3. ASSUME NEW q \in Rows, CancelRow(q) \/ ExpireRow(q) PROVE Heard(r)'
  <2>1. row'[r].status \in {row[r].status, "cancelled", "expired"} /\ wait'[r] \in {wait[r], "null", "timeout"}
    BY <1>3, <1>a, <1>b DEF CancelRow, ExpireRow
  <2> QED BY <2>1 DEF Heard
<1>4. ASSUME NEW q \in Rows, Enrich(q) \/ Signal(q) PROVE Heard(r)'
  <2>1. [row[r] EXCEPT !.enriched = TRUE].status = row[r].status
    BY <1>0 DEF RowRecords
  <2>2. row'[r].status = row[r].status /\ wait'[r] \in {wait[r], "payload"}
    BY <1>0, <1>4, <2>1 DEF Enrich, Signal
  <2> QED BY <2>2 DEF Heard
<1>5. ASSUME NEW S \in SUBSET Rows, NEW u \in Users \cup {NoUser}, ResolveMany(S) \/ ResolveAllOrNone(S, u) PROVE Heard(r)'
  <2>1. row'[r].status \in {row[r].status, "resolved"} /\ wait'[r] \in {wait[r], "payload"}
    BY <1>5, <1>a, <1>b DEF ResolveMany, ResolveAllOrNone
  <2> QED BY <2>1 DEF Heard
<1>6. ASSUME NEW q \in Rows, NEW u \in Users, ReleaseRow(q, u) PROVE Heard(r)'
  <2>1. row'[r].status = row[r].status /\ wait' = wait
    BY <1>0, <1>6, <1>u DEF ReleaseRow
  <2> QED BY <2>1 DEF Heard
<1>7. ASSUME NEW q \in Rows, NEW u \in Users, ResolveByMetadata(q, u) PROVE Heard(r)'
  <2>1. PICK e : e = StampedByMetadata(r, u)
    OBVIOUS
  <2>2. e.status \in {row[r].status, "resolved"}
    BY <1>0, <2>1 DEF StampedByMetadata, RowRecords
  <2>3. row'[r] \in {row[r], e} /\ wait' = wait
    BY <1>0, <1>7, <2>1 DEF ResolveByMetadata
  <2> QED BY <2>2, <2>3 DEF Heard
<1>8. ASSUME NEW S \in SUBSET Rows, NEW role, UnassignRows(S) \/ MoveRows(S, role) PROVE Heard(r)'
  <2>1. PICK e : e = [Unassigned(row[r]) EXCEPT !.role = role]
    OBVIOUS
  <2>2. e.status = row[r].status
    BY <1>0, <1>u, <2>1, UnassignedType DEF RowRecords
  <2>3. row'[r] \in {row[r], Unassigned(row[r]), e} /\ wait' = wait
    BY <1>8, <2>1 DEF UnassignRows, MoveRows
  <2> QED BY <1>u, <2>2, <2>3 DEF Heard
<1>9. ASSUME NEW S \in SUBSET Rows, NEW u \in Users, NEW term \in Terms, ClaimRows(S, u, term) \/ ReassignRows(S, u, term)
      PROVE  Heard(r)'
  <2>1. PICK e : e = [row[r] EXCEPT !.assignee = u, !.until = now + term]
    OBVIOUS
  <2>2. e.status = row[r].status
    BY <1>0, <2>1 DEF RowRecords
  <2>3. row'[r] \in {row[r], e} /\ wait' = wait
    BY <1>9, <2>1 DEF ClaimRows, ReassignRows
  <2> QED BY <2>2, <2>3 DEF Heard
<1>10. ASSUME NEW f \in Flows, TerminateFlow(f) \/ CancelByWorkflow(f) PROVE Heard(r)'
  <2>1. row'[r].status \in {row[r].status, "cancelled"} /\ wait' = wait
    BY <1>10, <1>a DEF TerminateFlow, CancelByWorkflow
  <2> QED BY <2>1 DEF Heard
<1>11. CASE Tick \/ SweepExpired \/ UNCHANGED storeVars
  <2>1. row'[r] \in {row[r], Unassigned(row[r])} /\ wait' = wait
    BY <1>11 DEF Tick, SweepExpired, storeVars
  <2> QED BY <1>u, <2>1 DEF Heard
<1> HIDE DEF Heard
<1>12. CASE HonouringNext
  BY <1>1, <1>2, <1>3, <1>4, <1>5, <1>6, <1>7, <1>8, <1>9, <1>10, <1>11, <1>12 DEF HonouringNext
<1> QED BY <1>9, <1>11, <1>12 DEF StoreNext

\* Statements that resolve no row.
Sparing ==
  \/ Tick \/ SweepExpired
  \/ \E r \in Rows, u \in Users \cup {NoUser} : Insert(r, u)
  \/ \E r \in Rows : Enrich(r) \/ CancelRow(r) \/ ExpireRow(r) \/ Signal(r)
  \/ \E r \in Rows, u \in Users : ReleaseRow(r, u)
  \/ \E S \in SUBSET Rows :
       \/ UnassignRows(S)
       \/ \E role \in Roles : MoveRows(S, role)
       \/ \E u \in Users, term \in Terms : ClaimRows(S, u, term) \/ ReassignRows(S, u, term)
  \/ \E f \in Flows : TerminateFlow(f) \/ CancelByWorkflow(f)

LEMMA SparingStrands ==
  ASSUME StoreTypeOK, [Sparing]_storeVars, NEW r \in Rows, row'[r].status = "resolved"
  PROVE  row[r].status = "resolved"
<1>0. row[r] \in RowRecords /\ row \in [Rows -> RowRecords]
  BY DEF StoreTypeOK
<1>a. \A S, status : Settled(S, status)[r].status \in {row[r].status, status}
  BY <1>0 DEF Settled, RowRecords
<1>u. Unassigned(row[r]).status = row[r].status
  BY <1>0, UnassignedType
<1>1. ASSUME NEW q \in Rows, NEW u \in Users \cup {NoUser}, Insert(q, u) PROVE row[r].status = "resolved"
  <2>1. PICK e : e = [row[r] EXCEPT !.status = "pending", !.assignee = u, !.enriched = Shape[r] # "routed"]
    OBVIOUS
  <2>2. e.status = "pending" /\ row'[r] \in {row[r], e}
    BY <1>0, <1>1, <2>1 DEF Insert, RowRecords
  <2> QED BY <2>2
<1>2. ASSUME NEW q \in Rows, CancelRow(q) \/ ExpireRow(q) PROVE row[r].status = "resolved"
  <2>1. row'[r].status \in {row[r].status, "cancelled", "expired"}
    BY <1>2, <1>a DEF CancelRow, ExpireRow
  <2> QED BY <2>1
<1>3. ASSUME NEW q \in Rows, Enrich(q) \/ Signal(q) PROVE row[r].status = "resolved"
  <2>1. [row[r] EXCEPT !.enriched = TRUE].status = row[r].status
    BY <1>0 DEF RowRecords
  <2> QED BY <1>0, <1>3, <2>1 DEF Enrich, Signal
<1>4. ASSUME NEW q \in Rows, NEW u \in Users, ReleaseRow(q, u) PROVE row[r].status = "resolved"
  BY <1>0, <1>4, <1>u DEF ReleaseRow
<1>5. ASSUME NEW S \in SUBSET Rows, NEW role, UnassignRows(S) \/ MoveRows(S, role) PROVE row[r].status = "resolved"
  <2>1. PICK e : e = [Unassigned(row[r]) EXCEPT !.role = role]
    OBVIOUS
  <2>2. e.status = row[r].status
    BY <1>0, <1>u, <2>1, UnassignedType DEF RowRecords
  <2>3. row'[r] \in {row[r], Unassigned(row[r]), e}
    BY <1>5, <2>1 DEF UnassignRows, MoveRows
  <2> QED BY <1>u, <2>2, <2>3
<1>6. ASSUME NEW S \in SUBSET Rows, NEW u \in Users, NEW term \in Terms, ClaimRows(S, u, term) \/ ReassignRows(S, u, term)
      PROVE  row[r].status = "resolved"
  <2>1. PICK e : e = [row[r] EXCEPT !.assignee = u, !.until = now + term]
    OBVIOUS
  <2>2. e.status = row[r].status
    BY <1>0, <2>1 DEF RowRecords
  <2>3. row'[r] \in {row[r], e}
    BY <1>6, <2>1 DEF ClaimRows, ReassignRows
  <2> QED BY <2>2, <2>3
<1>7. ASSUME NEW f \in Flows, TerminateFlow(f) \/ CancelByWorkflow(f) PROVE row[r].status = "resolved"
  <2>1. row'[r].status \in {row[r].status, "cancelled"}
    BY <1>7, <1>a DEF TerminateFlow, CancelByWorkflow
  <2> QED BY <2>1
<1>8. CASE Tick \/ SweepExpired \/ UNCHANGED storeVars
  <2>1. row'[r] \in {row[r], Unassigned(row[r])}
    BY <1>8 DEF Tick, SweepExpired, storeVars
  <2> QED BY <1>u, <2>1
<1> QED BY <1>1, <1>2, <1>3, <1>4, <1>5, <1>6, <1>7, <1>8 DEF Sparing

\* What the read of a handler tells its later statement about the rows it took.
SlotOK(k) ==
  /\ k.verb = "resolve" => \A r, s \in k.on : r = s
  /\ k.verb = "routed" => \A r \in k.on : Heard(r)
  /\ k.verb = "triage" => \A r \in k.on : Shape[r] \in {"rerun", "note"}
  /\ k.verb = "byKey" => \A r \in k.on : Keyed(r)
  /\ k.verb \in {"allOrNone", "gang"} => \A r \in k.on : Shape[r] \notin SingleResolveOnly
StrandInv ==
  /\ \A c \in Calls : SlotOK(call[c])
  /\ \A r \in Rows : <<"rerun", r>> \in jobs => Shape[r] = "rerun"

Taking == {"resolve", "routed", "triage", "byKey", "allOrNone", "gang"}

\* One slot moved, to one that tells what it should.
LEMMA SlotMoves ==
  ASSUME ApiTypeOK, [StoreNext]_storeVars, StrandInv, NEW d \in Calls, NEW e, call' = [call EXCEPT ![d] = e],
         SlotOK(e)'
  PROVE  \A c \in Calls : SlotOK(call[c])'
<1>1. call'[d] = e /\ \A c \in Calls \ {d} : call'[c] = call[c]
  BY DEF ApiTypeOK
<1>2. ASSUME NEW c \in Calls \ {d} PROVE SlotOK(call[c])'
  <2>1. PICK k : k = call[c]
    OBVIOUS
  <2>2. SlotOK(k) /\ k.on \subseteq Rows /\ call'[c] = k
    BY <1>1, <2>1, SlotFields DEF StrandInv, ApiTypeOK, CallsOK
  <2>3. \A r \in k.on : Heard(r) => Heard(r)'
    BY <2>2, StaysHeard DEF ApiTypeOK
  <2>4. SlotOK(k)'
    BY <2>2, <2>3 DEF SlotOK
  <2> QED BY <2>2, <2>4 DEF SlotOK
<1>3. SlotOK(call[d])'
  BY <1>1 DEF SlotOK
<1> QED BY <1>2, <1>3

LEMMA SlotsKept ==
  ASSUME ApiTypeOK, [StoreNext]_storeVars, StrandInv, NEW d \in Calls,
         \/ \E verb \in CallVerbs \ Taking : \E S, to, window : Enter(d, verb, S, to, window)
         \/ Done(d) \/ (\E r : Drop(d, r)) \/ UNCHANGED call
  PROVE  \A c \in Calls : SlotOK(call[c])'
<1>0. call[d] \in CallRecords /\ SlotOK(call[d]) /\ call[d].on \subseteq Rows /\ (\A r \in call[d].on : Heard(r) => Heard(r)')
  <2>1. call[d].on \subseteq Rows
    BY SlotFields DEF ApiTypeOK, CallsOK
  <2> QED BY <2>1, StaysHeard DEF ApiTypeOK, StrandInv
<1>1. ASSUME NEW verb \in CallVerbs \ Taking, NEW S, NEW to, NEW window, Enter(d, verb, S, to, window)
      PROVE  \A c \in Calls : SlotOK(call[c])'
  <2>1. PICK e : e = [verb |-> verb, on |-> S, to |-> to, window |-> window]
    OBVIOUS
  <2>2. SlotOK(e)' /\ call' = [call EXCEPT ![d] = e]
    BY <1>1, <2>1 DEF SlotOK, Taking, Enter
  <2> QED BY <2>2, SlotMoves
<1>2. CASE Done(d)
  BY <1>2, SlotMoves DEF Done, SlotOK, Idle
<1>3. ASSUME NEW q, Drop(d, q) PROVE \A c \in Calls : SlotOK(call[c])'
  <2>1. PICK e : e = [call[d] EXCEPT !.on = @ \ {q}]
    OBVIOUS
  <2>2. e.verb = call[d].verb /\ e.on = call[d].on \ {q}
    BY <1>0, <2>1 DEF CallRecords
  <2>3. Done(d) \/ call' = [call EXCEPT ![d] = e]
    BY <1>3, <2>1 DEF Drop
  <2>4. SlotOK(e)'
    BY <1>0, <2>2 DEF SlotOK
  <2> QED BY <1>2, <2>3, <2>4, SlotMoves
<1>4. CASE UNCHANGED call
  <2>1. call' = [call EXCEPT ![d] = call[d]]
    BY <1>4 DEF ApiTypeOK
  <2>2. PICK k : k = call[d]
    OBVIOUS
  <2>3. SlotOK(k)'
    BY <1>0, <2>2 DEF SlotOK
  <2> QED BY <2>1, <2>2, <2>3, SlotMoves
<1> QED BY <1>1, <1>2, <1>3, <1>4

LEMMA StrandInvStep ==
  ASSUME ApiAssumption, StoreAssumption, ApiTypeOK, StrandInv, ApiNext
  PROVE  StrandInv'
<1>0. [StoreNext]_storeVars
  BY ApiStoreStep
<1>j. ASSUME \A c \in Calls : SlotOK(call[c])', jobs' = jobs \/ \E r \in Rows : jobs' = jobs \cup {<<"triage", r>>}
      PROVE  StrandInv'
  BY <1>j DEF StrandInv
<1>1. ASSUME NEW c \in Calls, NEW r \in Rows, ByIdStep(c, r) PROVE StrandInv'
  <2>a. call[c] \in CallRecords /\ SlotOK(call[c])
    BY DEF ApiTypeOK, StrandInv
  <2>1. CASE BeginResolve(c, r)
    <3>0. PICK verb \in {"resolve", "unrouted"} : \E window : Enter(c, verb, {r}, NoUser, window) /\ jobs' = jobs
      BY <2>1 DEF BeginResolve, Begin
    <3>1. PICK window : Enter(c, verb, {r}, NoUser, window) /\ jobs' = jobs
      BY <3>0
    <3>2. PICK e : e = [verb |-> verb, on |-> {r}, to |-> NoUser, window |-> window]
      OBVIOUS
    <3>3. SlotOK(e)' /\ call' = [call EXCEPT ![c] = e]
      BY <3>1, <3>2 DEF SlotOK, Enter
    <3>4. \A d \in Calls : SlotOK(call[d])'
      BY <1>0, <3>3, SlotMoves
    <3> QED BY <1>j, <3>1, <3>4
  <2>2. CASE ResolveGuarded(c, r) \/ ResolveBySignal(c, r) \/ ResolveRouted(c, r) \/ ResolveTriaged(c, r)
    <3>1. Done(c) /\ jobs' = jobs
      BY <2>2 DEF ResolveGuarded, ResolveBySignal, ResolveRouted, ResolveTriaged
    <3> QED BY <1>0, <1>j, <3>1, SlotsKept
  <2>3. CASE SignalRouted(c, r)
    <3>1. PICK e : e = [call[c] EXCEPT !.verb = "routed"]
      OBVIOUS
    <3>2. e.verb = "routed" /\ e.on = call[c].on /\ call' = [call EXCEPT ![c] = e] /\ jobs' = jobs
      BY <2>3, <2>a, <3>1 DEF SignalRouted, Proceed, CallRecords
    <3>3. Heard(r)'
      BY <2>3 DEF SignalRouted, Signal, Heard, ApiTypeOK, StoreTypeOK
    <3>4. \A s \in call[c].on : s = r
      BY <2>3, <2>a DEF SignalRouted, At, SlotOK
    <3>5. SlotOK(e)'
      BY <3>2, <3>3, <3>4 DEF SlotOK
    <3> QED BY <1>0, <1>j, <3>2, <3>5, SlotMoves
  <2>4. CASE StartTriage(c, r)
    <3>1. PICK e : e = [call[c] EXCEPT !.verb = "triage"]
      OBVIOUS
    <3>2. e.verb = "triage" /\ e.on = call[c].on /\ call' = [call EXCEPT ![c] = e] /\ jobs' = jobs \cup {<<"triage", r>>}
      BY <2>4, <2>a, <3>1 DEF StartTriage, Proceed, CallRecords, Launch
    <3>4. (\A s \in call[c].on : s = r) /\ Shape[r] \in {"rerun", "note"}
      BY <2>4, <2>a DEF StartTriage, At, SlotOK
    <3>5. SlotOK(e)'
      BY <3>2, <3>4 DEF SlotOK
    <3> QED BY <1>0, <1>j, <3>2, <3>5, SlotMoves
  <2>5. CASE StartRerun(c, r)
    <3>1. Done(c) /\ jobs' = jobs \cup {<<"rerun", r>>} /\ Shape[r] = "rerun"
      BY <2>5 DEF StartRerun, Launch
    <3>2. \A d \in Calls : SlotOK(call[d])'
      BY <1>0, <3>1, SlotsKept
    <3> QED BY <3>1, <3>2 DEF StrandInv
  <2> QED BY <1>1, <2>1, <2>2, <2>3, <2>4, <2>5 DEF ByIdStep
<1>2. ASSUME NEW c \in Calls, NEW r \in Rows, ByFacetStep(c, r) PROVE StrandInv'
  <2>k. ASSUME Keyed(r), Enter(c, "byKey", {r}, NoUser, NoWindow), jobs' = jobs PROVE StrandInv'
    <3>2. PICK e : e = [verb |-> "byKey", on |-> {r}, to |-> NoUser, window |-> NoWindow]
      OBVIOUS
    <3>3. SlotOK(e)' /\ call' = [call EXCEPT ![c] = e]
      BY <2>k, <3>2 DEF SlotOK, Enter, Keyed
    <3> QED BY <1>0, <1>j, <2>k, <3>3, SlotMoves
  <2>1. CASE BeginByKey(c, r)
    BY <2>k, <2>1 DEF BeginByKey, Begin
  <2>2. CASE ResolveByKey(c, r) \/ SignalByMetadata(c, r)
    <3>1. Done(c) /\ jobs' = jobs
      BY <2>2 DEF ResolveByKey, SignalByMetadata
    <3> QED BY <1>0, <1>j, <3>1, SlotsKept
  <2>3. CASE ByMetadata(c, r)
    <3>1. jobs' = jobs /\ (\/ Keyed(r) /\ Enter(c, "byKey", {r}, NoUser, NoWindow)
                           \/ Enter(c, "metaSignal", {r}, NoUser, now + MetaTerm) \/ UNCHANGED call)
      BY <2>3 DEF ByMetadata
    <3>2. "metaSignal" \in CallVerbs \ Taking
      BY DEF CallVerbs, Taking
    <3> QED BY <1>0, <1>j, <2>k, <3>1, <3>2, SlotsKept
  <2>4. ASSUME NEW term \in Terms, ClaimByMetadata(c, r, term) PROVE StrandInv'
    BY <1>0, <1>j, <2>4, SlotsKept DEF ClaimByMetadata
  <2> QED BY <1>2, <2>1, <2>2, <2>3, <2>4 DEF ByFacetStep
<1>3. ASSUME NEW c \in Calls, NEW r \in Rows, QueueStep(c, r) PROVE StrandInv'
  <2>1. {"claim", "release", "cancel", "escalate", "autoClaim"} \subseteq CallVerbs \ Taking
    BY DEF CallVerbs, Taking
  <2>2. /\ jobs' = jobs \/ jobs' = jobs \cup {<<"triage", r>>}
        /\ \/ \E verb \in {"claim", "release", "cancel", "escalate", "autoClaim"} : \E S, to, window : Enter(c, verb, S, to, window)
           \/ Done(c) \/ Drop(c, r)
    BY <1>3 DEF QueueStep, BeginClaim, Claim, BeginRelease, Release, BeginEscalate, Escalate, BeginCancel, Cancel,
       StartBulkTriage, EnrichRouting, Begin, Launch
  <2>3. \A d \in Calls : SlotOK(call[d])'
    BY <1>0, <2>1, <2>2, SlotsKept
  <2> QED BY <1>j, <2>2, <2>3
<1>4. ASSUME NEW c \in Calls, SetStep(c) PROVE StrandInv'
  <2>1. {"byIds", "bulkAssign", "bulkEscalate", "bulkCancel", "bulkTriage", "startTriage", "terminate"} \subseteq CallVerbs \ Taking
    BY DEF CallVerbs, Taking
  <2>2. jobs' = jobs
    BY <1>4 DEF SetStep, BeginByIds, BeginAllOrNone, BeginBulk, Begin, ResolveByIds, AllOrNone, BulkEscalate, BulkTriage,
       BulkAssign, Terminate, CancelFlow, Abandon
  <2>3. ASSUME NEW S \in SUBSET Rows, NEW verb \in {"allOrNone", "gang"}, BeginAllOrNone(c, S, verb) PROVE StrandInv'
    <3>2. PICK e : e = [verb |-> verb, on |-> S, to |-> NoUser, window |-> NoWindow]
      OBVIOUS
    <3>3. SlotOK(e)' /\ call' = [call EXCEPT ![c] = e]
      BY <2>3, <3>2 DEF SlotOK, Enter, BeginAllOrNone, Begin
    <3> QED BY <1>0, <1>j, <2>2, <3>3, SlotMoves
  <2>4. CASE \/ \E verb \in {"byIds", "bulkAssign", "bulkEscalate", "bulkCancel", "bulkTriage", "startTriage", "terminate"} :
                  \E S, to, window : Enter(c, verb, S, to, window)
             \/ Done(c)
    BY <1>0, <1>j, <2>1, <2>2, <2>4, SlotsKept
  <2> QED BY <1>4, <2>3, <2>4 DEF SetStep, BeginByIds, BeginBulk, Begin, ResolveByIds, AllOrNone, BulkEscalate, BulkTriage,
       BulkAssign, Terminate, CancelFlow, Abandon
<1>5. CASE EnvStep
  <2>1. UNCHANGED <<call, jobs>>
    BY <1>5 DEF EnvStep, Clock, Sweep, Park, DurableResolve, RerunResolve, Timeout, Unassign, Reassign
  <2>2. ASSUME NEW c \in Calls PROVE SlotOK(call[c])'
    BY <1>0, <2>1, <2>2, SlotsKept
  <2> QED BY <1>j, <2>1, <2>2
<1> QED BY <1>1, <1>2, <1>3, <1>4, <1>5 DEF ApiNext

\* The steps of requests and workflows that resolve rows.
Resolving ==
  \/ \E c \in Calls, r \in Rows :
       \/ ResolveGuarded(c, r) \/ ResolveRouted(c, r) \/ ResolveTriaged(c, r) \/ ResolveByKey(c, r) \/ ByMetadata(c, r)
  \/ \E c \in Calls : ResolveByIds(c) \/ AllOrNone(c) \/ BulkTriage(c)
  \/ \E r \in Rows : DurableResolve(r) \/ RerunResolve(r)

LEMMA ResolvingOrSparing ==
  ASSUME ApiAssumption, StoreAssumption, ApiTypeOK, ApiNext
  PROVE  Resolving \/ [Sparing]_storeVars
<1>0. CallsOK /\ \A c \in Calls : Caller[c] \in Users
  BY DEF ApiTypeOK, CallsOK, ApiAssumption
<1>1. ASSUME NEW c \in Calls, NEW r \in Rows, ByIdStep(c, r) PROVE Resolving \/ [Sparing]_storeVars
  BY <1>1 DEF ByIdStep, BeginResolve, Begin, ResolveBySignal, SignalRouted, StartTriage, StartRerun, Sparing, Resolving
<1>2. ASSUME NEW c \in Calls, NEW r \in Rows, ByFacetStep(c, r) PROVE Resolving \/ [Sparing]_storeVars
  BY <1>0, <1>2 DEF ByFacetStep, BeginByKey, Begin, SignalByMetadata, ClaimByMetadata, Sparing, Resolving
<1>3. ASSUME NEW c \in Calls, NEW r \in Rows, QueueStep(c, r) PROVE [Sparing]_storeVars
  <2>1. CASE BeginClaim(c, r) \/ BeginRelease(c, r) \/ BeginCancel(c, r) \/ Cancel(c, r) \/ StartBulkTriage(c, r) \/ EnrichRouting(c, r)
             \/ \E role \in Roles : BeginEscalate(c, r, role)
    BY <2>1 DEF BeginClaim, BeginRelease, BeginCancel, Cancel, StartBulkTriage, EnrichRouting, BeginEscalate, Begin, Sparing
  <2>2. ASSUME NEW term \in Terms, Claim(c, r, term) PROVE [Sparing]_storeVars
    BY <1>0, <2>2 DEF Claim, Sparing
  <2>3. CASE Release(c, r)
    BY <1>0, <2>3 DEF Release, Sparing
  <2>4. CASE Escalate(c, r)
    <3>1. MoveRows({r}, call[c].to) /\ call[c].to \in Roles /\ {r} \in SUBSET Rows
      BY <1>0, <2>4, SlotFields DEF Escalate, At
    <3> QED BY <3>1 DEF Sparing
  <2> QED BY <1>3, <2>1, <2>2, <2>3, <2>4 DEF QueueStep
<1>4. ASSUME NEW c \in Calls, SetStep(c) PROVE Resolving \/ [Sparing]_storeVars
  <2>a. /\ call[c].on \in SUBSET Rows /\ (At(c, "bulkEscalate") => call[c].to \in Roles) /\ (At(c, "bulkAssign") => call[c].to \in Users)
        /\ (At(c, "terminate") => call[c].to \in Flows)
    BY <1>0, SlotFields DEF At
  <2>1. CASE \/ \E S \in SUBSET Rows :
                  \/ BeginByIds(c, S)
                  \/ \E verb \in {"allOrNone", "gang"} : BeginAllOrNone(c, S, verb)
                  \/ \E verb \in Verbs, to \in Recipients : BeginBulk(c, verb, S, to)
             \/ Abandon(c)
    BY <2>1 DEF BeginByIds, BeginAllOrNone, BeginBulk, Begin, Abandon
  <2>2. CASE BulkEscalate(c)
    BY <2>a, <2>2 DEF BulkEscalate, Sparing
  <2>3. ASSUME NEW term \in Terms, BulkAssign(c, term) PROVE [Sparing]_storeVars
    BY <2>a, <2>3 DEF BulkAssign, Sparing
  <2>4. ASSUME NEW f \in Flows, Terminate(c, f) PROVE [Sparing]_storeVars
    BY <2>4 DEF Terminate, Sparing
  <2>5. CASE CancelFlow(c)
    BY <2>a, <2>5 DEF CancelFlow, Sparing
  <2> QED BY <1>4, <2>1, <2>2, <2>3, <2>4, <2>5 DEF SetStep, Resolving
<1>5. CASE EnvStep
  <2>1. CASE Clock \/ Sweep
    BY <2>1 DEF Clock, Sweep, Sparing
  <2>2. ASSUME NEW r \in Rows, NEW u \in Users \cup {NoUser}, Park(r, u) PROVE [Sparing]_storeVars
    BY <2>2 DEF Park, Sparing
  <2>3. ASSUME NEW r \in Rows, Timeout(r) PROVE [Sparing]_storeVars
    BY <2>3 DEF Timeout, Sparing
  <2>4. ASSUME NEW u \in Users, NEW S \in SUBSET Rows, Unassign(u, S) \/ \E v \in Users, term \in Terms : Reassign(u, S, v, term)
        PROVE  [Sparing]_storeVars
    BY <2>4 DEF Unassign, Reassign, Sparing
  <2> QED BY <1>5, <2>1, <2>2, <2>3, <2>4 DEF EnvStep, Resolving
<1> QED BY <1>1, <1>2, <1>3, <1>4, <1>5 DEF ApiNext

\* Only an acknowledging request, or a metadata resolve of a row without signal_id,
\* leaves a live workflow parked behind a resolved row; every other handler signalled it
\* before, whatever ran, crashed or was overtaken in between.
THEOREM OnlyAcknowledgedWorkStrands == ApiSpec => OnlyAcksStrand
<1>1. ApiInit => StrandInv
  BY DEF ApiInit, StrandInv, SlotOK, Idle
<1>2. ApiTypeOK /\ StrandInv /\ [ApiNext]_apiVars => StrandInv'
  <2>1. ApiTypeOK /\ StrandInv /\ ApiNext => StrandInv'
    BY StrandInvStep, ApiAssumption, StoreAssumption
  <2>2. StrandInv /\ UNCHANGED apiVars => StrandInv'
    BY DEF apiVars, storeVars, StrandInv, SlotOK, Heard
  <2> QED BY <2>1, <2>2
<1>3. ApiTypeOK /\ StrandInv /\ [ApiNext]_apiVars =>
        [\A r \in Rows : Stranded(r)' /\ ~Stranded(r) =>
           \/ \E c \in Calls : /\ call[c].verb \in AckVerbs /\ r \in call[c].on
                               /\ call'[c] # call[c]
           \/ Shape[r] # "signal" /\ UNCHANGED call]_apiVars
  <2> SUFFICES ASSUME ApiTypeOK, StrandInv, ApiNext, NEW r \in Rows, Stranded(r)', ~Stranded(r)
               PROVE  \/ \E c \in Calls : call[c].verb \in AckVerbs /\ r \in call[c].on /\ call'[c] # call[c]
                      \/ Shape[r] # "signal" /\ UNCHANGED call
    OBVIOUS
  <2>0. [StoreNext]_storeVars
    BY ApiStoreStep, ApiAssumption, StoreAssumption
  <2>1. Shape[r] \in SingleResolveOnly /\ row'[r].status = "resolved" /\ wait'[r] = "waiting" /\ Flow[r] \notin dead'
    BY DEF Stranded
  <2>a. ~Keyed(r) /\ Shape[r] \notin {"rerun", "note", "key"}
    BY <2>1 DEF SingleResolveOnly, Keyed
  <2>2. dead \subseteq dead'
    BY <2>0 DEF StoreNext, HonouringNext, Tick, SweepExpired, Insert, ResolveRow, Enrich, CancelRow, ExpireRow, Signal,
       ReleaseRow, ResolveByMetadata, UnassignRows, ResolveMany, MoveRows, ResolveAllOrNone, ClaimRows, TerminateFlow,
       CancelByWorkflow, ReassignRows, storeVars
  <2>3. row[r].status # "resolved" \/ wait[r] # "waiting"
    BY <2>1, <2>2 DEF Stranded
  <2>4. row[r].status = "none" \/ wait[r] = "waiting"
    BY <2>0, <2>1, StaysHeard DEF ApiTypeOK, Heard
  <2>5. row[r].status # "resolved"
    BY <2>3, <2>4
  <2>6. Resolving
    BY <2>1, <2>5, ResolvingOrSparing, SparingStrands, ApiAssumption, StoreAssumption DEF ApiTypeOK
  <2>s. \A S, status : Settled(S, status)[r] # row[r] => r \in S /\ Settled(S, status)[r].status = status
    BY DEF Settled, ApiTypeOK, StoreTypeOK, RowRecords
  <2>7. ASSUME NEW q \in Rows, NEW u, ResolveRow(q, u) PROVE q = r /\ wait[r] = "waiting"
    <3>1. row' = Settled({q}, "resolved") /\ wait' = Answered({q}, "payload") /\ Pending(q)
      BY <2>7 DEF ResolveRow
    <3>2. q = r
      BY <2>1, <2>5, <2>s, <3>1
    <3> QED BY <2>1, <2>a, <3>1, <3>2 DEF Answered
  <2>8. \A c \in Calls : SlotOK(call[c])
    BY DEF StrandInv
  <2>9. ASSUME NEW c \in Calls, NEW q \in Rows, ResolveGuarded(c, q) \/ ResolveTriaged(c, q) \/ ResolveByKey(c, q) PROVE FALSE
    <3>1. q = r
      BY <2>7, <2>9 DEF ResolveGuarded, ResolveTriaged, ResolveByKey
    <3> QED BY <2>8, <2>9, <2>a, <3>1 DEF ResolveGuarded, ResolveTriaged, ResolveByKey, At, SlotOK
  <2>10. ASSUME NEW c \in Calls, NEW q \in Rows, ResolveRouted(c, q)
         PROVE  call[c].verb \in AckVerbs /\ r \in call[c].on /\ call'[c] # call[c]
    <3>1. q = r /\ wait[r] = "waiting"
      BY <2>7, <2>10 DEF ResolveRouted
    <3>2. call[c].verb = "unrouted" /\ r \in call[c].on /\ Done(c)
      BY <2>8, <2>10, <3>1 DEF ResolveRouted, SlotOK, Heard
    <3>3. call'[c] = Idle
      BY <3>2 DEF Done, ApiTypeOK
    <3> QED BY <3>2, <3>3 DEF AckVerbs, Idle
  <2>11. ASSUME NEW c \in Calls, NEW q \in Rows, ByMetadata(c, q) PROVE Shape[r] # "signal" /\ UNCHANGED call
    <3>1. ResolveByMetadata(q, Caller[c])
      BY <2>1, <2>5, <2>11 DEF ByMetadata, storeVars
    <3>2. q = r
      BY <2>1, <2>5, <3>1 DEF ResolveByMetadata, ApiTypeOK, StoreTypeOK
    <3>3. PICK e : e = StampedByMetadata(r, Caller[c])
      OBVIOUS
    <3>4. e.status = IF Shape[r] = "signal" THEN row[r].status ELSE "resolved"
      BY <3>3 DEF StampedByMetadata, ApiTypeOK, StoreTypeOK, RowRecords
    <3>5. row'[r] = e
      BY <3>1, <3>2, <3>3 DEF ResolveByMetadata, ApiTypeOK, StoreTypeOK
    <3>6. Shape[r] # "signal"
      BY <2>1, <2>5, <3>4, <3>5
    <3> QED BY <2>11, <2>a, <3>2, <3>6 DEF ByMetadata
  <2>12. ASSUME NEW S, ResolveMany(S) PROVE r \in S
    <3>1. row' = Settled(Ackable(S), "resolved")
      BY <2>12 DEF ResolveMany
    <3>2. r \in Ackable(S)
      BY <2>1, <2>5, <2>s, <3>1
    <3> QED BY <3>2 DEF Ackable
  <2>13. ASSUME NEW c \in Calls, ResolveByIds(c) \/ BulkTriage(c)
         PROVE  call[c].verb \in AckVerbs /\ r \in call[c].on /\ call'[c] # call[c]
    <3>1. r \in call[c].on /\ call[c].verb \in {"byIds", "bulkTriage"}
      BY <2>12, <2>13 DEF ResolveByIds, BulkTriage, At
    <3>2. Done(c) \/ \E S : Enter(c, "startTriage", S, NoUser, NoWindow)
      BY <2>13 DEF ResolveByIds, BulkTriage
    <3>3. call'[c].verb \in {"idle", "startTriage"}
      BY <3>2 DEF Done, Enter, Idle, ApiTypeOK
    <3> QED BY <3>1, <3>3 DEF AckVerbs
  <2>14. ASSUME NEW c \in Calls, AllOrNone(c) PROVE FALSE
    <3>1. row' = Settled(call[c].on, "resolved") /\ call[c].verb \in {"allOrNone", "gang"}
      BY <2>14 DEF AllOrNone, ResolveAllOrNone
    <3>2. r \in call[c].on
      BY <2>1, <2>5, <2>s, <3>1
    <3> QED BY <2>1, <2>8, <3>1, <3>2 DEF SlotOK
  <2>15. ASSUME NEW q \in Rows, DurableResolve(q) \/ RerunResolve(q) PROVE FALSE
    <3>1. q = r /\ wait[r] = "waiting"
      BY <2>7, <2>15 DEF DurableResolve, RerunResolve
    <3>2. <<"rerun", r>> \in jobs => Shape[r] = "rerun"
      BY DEF StrandInv
    <3> QED BY <2>15, <2>a, <3>1, <3>2 DEF DurableResolve, RerunResolve
  <2> QED BY <2>6, <2>9, <2>10, <2>11, <2>13, <2>14, <2>15 DEF Resolving
<1> QED BY <1>1, <1>2, <1>3, ApiTypeCorrect, PTL DEF ApiSpec, OnlyAcksStrand
=============================================================================
