------------------------ MODULE LineLeadershipProofs ------------------------
(***************************************************************************)
(* What the advisory lock gives for any number of replicas and of faults:  *)
(* one gateway as long as no session ends under its replica, and a stop()  *)
(* that is final.                                                          *)
(***************************************************************************)
EXTENDS LineLeadership, TLAPS

\* Type correctness.
THEOREM LineTypeCorrect == LineSpec => []LineTypeOK
<1>1. LineInit => LineTypeOK
  BY DEF LineInit, LineTypeOK, Phases, Conns, Gates, Halts
<1>2. LineTypeOK /\ [LineNext]_lineVars => LineTypeOK'
  <2> SUFFICES ASSUME LineTypeOK, [LineNext]_lineVars PROVE LineTypeOK'
    OBVIOUS
  <2> USE DEF LineTypeOK, Phases, Conns, Gates, Halts
  <2>1. CASE UNCHANGED lineVars
    BY <2>1 DEF lineVars
  <2>2. ASSUME NEW r \in Runs,
               \/ Connect(r) \/ Granted(r) \/ Grant(r) \/ Bots(r) \/ Launch(r)
               \/ Retry(r) \/ GatewayDown(r)
        PROVE  LineTypeOK'
    BY <2>2 DEF Connect, Granted, Grant, Bots, Launch, Retry, GatewayDown, Go
  <2>3. ASSUME NEW r \in Runs, NotGranted(r) \/ TurnOver(r) \/ Refused(r) \/ LeadFails(r)
        PROVE  LineTypeOK'
    BY <2>3 DEF NotGranted, TurnOver, Refused, LeadFails, EndTurn, WindDown, Go, Fault
  <2>4. ASSUME NEW r \in Runs, Lost(r) \/ Crash(r)
        PROVE  LineTypeOK'
    <3>1. Freed(r) \in Runs \cup {Nobody}
      BY DEF Freed
    <3> QED BY <2>4, <3>1 DEF Lost, Crash, LetGo, Go, Fault
  <2>7. ASSUME NEW r \in Runs, Drop(r) \/ Relinquish(r)
        PROVE  LineTypeOK'
    <3>1. ended' = [ended EXCEPT ![r] = TRUE] /\ faults' = faults + 1
      BY <2>7 DEF Drop, Relinquish, Fault
    <3>2. ended' \in [Runs -> BOOLEAN] /\ faults' \in Nat
      BY <3>1
    <3>3. conn' \in [Runs -> Conns] /\ lock' \in Runs \cup {Nobody} /\ UNCHANGED <<phase, gate, halt>>
      BY <2>7 DEF Drop, Relinquish, Freed
    <3> QED BY <3>2, <3>3
  <2>5. ASSUME NEW r \in Runs, Stop(r) \/ LeadSettled(r)
        PROVE  LineTypeOK'
    BY <2>5 DEF Stop, LeadSettled, WindDown
  <2>6. ASSUME NEW r \in Runs, StopLeadership(r) \/ Unlock(r)
        PROVE  LineTypeOK'
    BY <2>6 DEF StopLeadership, Unlock, LetGo, Freed
  <2> QED BY <2>1, <2>2, <2>3, <2>4, <2>5, <2>6, <2>7 DEF LineNext, Own
<1> QED BY <1>1, <1>2, PTL DEF LineSpec

-----------------------------------------------------------------------------
(* The inductive invariant: a gateway lives under the lock or under a       *)
(* session that ended; a session that is gone belongs to a stopped run.     *)
Turn == {"bots", "launching", "turn"}
GatewayUnderLock ==
  \A r \in Runs : gate[r] # "none" =>
    /\ phase[r] \in {"launching", "turn", "losing"}
    /\ conn[r] # "none"
    /\ conn[r] = "open" => lock = r
    /\ ~Stopped(r)
TurnUnderLock ==
  \A r \in Runs : phase[r] \in Turn =>
    /\ conn[r] = "open" => lock = r
    /\ conn[r] = "none" => Stopped(r)
    /\ phase[r] = "launching" => halt[r] \in {"no", "lead"}
LockNeedsSession == \A r \in Runs : lock = r => conn[r] = "open"
DoneHasNoSession == \A r \in Runs : halt[r] = "done" => conn[r] = "none"
LineInv == GatewayUnderLock /\ TurnUnderLock /\ LockNeedsSession /\ DoneHasNoSession

LEMMA LineInvHolds == LineSpec => []LineInv
<1>1. LineInit => LineInv
  BY LineAssumption DEF LineInit, LineInv, GatewayUnderLock, TurnUnderLock, Turn,
     LockNeedsSession, DoneHasNoSession, Stopped
<1>2. LineTypeOK /\ LineInv /\ [LineNext]_lineVars => LineInv'
  <2> SUFFICES ASSUME LineTypeOK, LineInv, [LineNext]_lineVars PROVE LineInv'
    OBVIOUS
  <2> USE LineAssumption DEF LineTypeOK, LineInv, GatewayUnderLock, TurnUnderLock, Turn,
      LockNeedsSession, DoneHasNoSession, Stopped, RunStopped, At
  <2>1. CASE UNCHANGED lineVars
    BY <2>1 DEF lineVars
  <2>2. ASSUME NEW r \in Runs, Connect(r) PROVE LineInv'
    BY <2>2 DEF Connect, Go
  <2>3. ASSUME NEW r \in Runs, Grant(r) \/ Granted(r) PROVE LineInv'
    BY <2>3 DEF Grant, Granted, Go
  <2>4. ASSUME NEW r \in Runs, NotGranted(r) \/ TurnOver(r) \/ Refused(r) \/ LeadFails(r)
        PROVE  LineInv'
    BY <2>4 DEF NotGranted, TurnOver, Refused, LeadFails, EndTurn, WindDown, Go
  <2>5. ASSUME NEW r \in Runs, Bots(r) \/ Launch(r) PROVE LineInv'
    BY <2>5 DEF Bots, Launch, Go
  <2>6. ASSUME NEW r \in Runs, Lost(r) \/ Crash(r) PROVE LineInv'
    BY <2>6 DEF Lost, Crash, LetGo, Freed, Go
  <2>7. ASSUME NEW r \in Runs, Retry(r) \/ GatewayDown(r) \/ Relinquish(r) PROVE LineInv'
    BY <2>7 DEF Retry, GatewayDown, Relinquish, Go
  <2>8. ASSUME NEW r \in Runs, Drop(r) PROVE LineInv'
    BY <2>8 DEF Drop, Freed
  <2>9. ASSUME NEW r \in Runs, Stop(r) \/ LeadSettled(r) PROVE LineInv'
    BY <2>9 DEF Stop, LeadSettled, WindDown
  <2>10. ASSUME NEW r \in Runs, StopLeadership(r) \/ Unlock(r) PROVE LineInv'
    BY <2>10 DEF StopLeadership, Unlock, LetGo, Freed, Leading
  <2> QED BY <2>1, <2>2, <2>3, <2>4, <2>5, <2>6, <2>7, <2>8, <2>9, <2>10 DEF LineNext, Own
<1> QED BY <1>1, <1>2, LineTypeCorrect, PTL DEF LineSpec

\* While no session ends under its replica, one run at most has a gateway,
\* starting, running or stopping.
THEOREM OneGatewayHolds == LineSpec => []OneGatewayPerSession
<1>1. LineTypeOK /\ LineInv => OneGatewayPerSession
  BY DEF LineTypeOK, LineInv, GatewayUnderLock, OneGatewayPerSession, Conns
<1> QED BY <1>1, LineTypeCorrect, LineInvHolds, PTL

\* A run whose stop() has returned has no gateway, session or lock again.
THEOREM StopStays == LineSpec => StopIsFinal
<1>1. LineTypeOK /\ LineInv /\ LineInv' /\ [LineNext]_lineVars =>
        [\A r \in Runs : halt[r] = "done" =>
           gate'[r] = "none" /\ lock' # r /\ conn'[r] = "none" /\ halt'[r] = "done"]_lineVars
  <2> SUFFICES ASSUME LineTypeOK, LineInv', LineNext, NEW r \in Runs, halt[r] = "done"
               PROVE  gate'[r] = "none" /\ lock' # r /\ conn'[r] = "none" /\ halt'[r] = "done"
    OBVIOUS
  <2>1. halt'[r] = "done"
    BY DEF LineTypeOK, LineNext, Own, Connect, Granted, Grant, NotGranted, Bots, Launch,
       TurnOver, Lost, Retry, GatewayDown, Refused, LeadFails, Relinquish, Drop, Crash,
       Stop, LeadSettled, StopLeadership, Unlock
  <2> QED BY <2>1 DEF LineInv, GatewayUnderLock, LockNeedsSession, DoneHasNoSession, Stopped
<1> QED BY <1>1, LineTypeCorrect, LineInvHolds, PTL DEF LineSpec, StopIsFinal
=============================================================================
