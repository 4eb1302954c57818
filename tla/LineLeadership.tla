--------------------------- MODULE LineLeadership ---------------------------
(***************************************************************************)
(* One gateway per machine line: LineLeadership                            *)
(* (services/machines/leadership.ts) under the LineRun that uses it        *)
(* (services/machines/surface.ts).  Every replica runs the line once; a    *)
(* line declared again is a new run.  A run contends for a Postgres        *)
(* advisory lock on a connection of its own, starts the gateway under the  *)
(* lock, and gives its turn up on an error, on relinquish() or on stop().  *)
(* The server frees the lock of a session that ends, however it ends.      *)
(***************************************************************************)
EXTENDS Naturals

CONSTANTS
  Runs,      \* LineRun objects, one per replica
  Nobody,    \* the lock is free
  MaxFaults  \* bound of the environment's faults and relinquished turns

ASSUME LineAssumption == Nobody \notin Runs /\ MaxFaults \in Nat

VARIABLES
  phase,   \* where run() of each leadership is
  conn,    \* this.client: its session, as the server and the replica see it
  lock,    \* the session that holds the advisory lock
  ended,   \* the promise `ended` of the current turn has resolved
  gate,    \* the gateway of the run
  halt,    \* how far LineRun.stop() is
  faults   \* faults so far

lineVars == <<phase, conn, lock, ended, gate, halt, faults>>

\* connecting  connect()              contending  the lock query
\* bots        ensureLineBots         launching   gateway.start()
\* turn        awaiting `ended`       losing      the lost callback
\* paused      the retry timer        over        run() has returned
Phases == {"connecting", "contending", "bots", "launching", "turn", "losing",
           "paused", "over"}
\* none, or open; dropped: the session has ended and nobody has let the
\* client go yet
Conns == {"none", "open", "dropped"}
Gates == {"none", "starting", "running", "stopping"}
\* no           not stopped
\* lead         awaits a lead() that was under way
\* gateway      awaits gateway.stop()
\* unlock       awaits the unlock query; the leadership is stopped
\* done         stop() has returned
Halts == {"no", "lead", "gateway", "unlock", "done"}

Leading(r) == phase[r] \in {"bots", "launching", "turn"}   \* this.leading
RunStopped(r) == halt[r] # "no"                            \* LineRun.stopped
Stopped(r) == halt[r] \in {"unlock", "done"}               \* LineLeadership.stopped

At(r, p) == phase[r] = p
Go(r, p) == phase' = [phase EXCEPT ![r] = p]
\* the session ends: the server frees its lock
Freed(r) == IF lock = r THEN Nobody ELSE lock
\* client.release(true)
LetGo(r) == conn' = [conn EXCEPT ![r] = "none"] /\ lock' = Freed(r)
\* gateway.stop() begins: idempotent, absent when no gateway was made
WindDown(r) ==
  gate' = [gate EXCEPT ![r] = IF @ = "none" THEN @ ELSE "stopping"]
\* holdLock returned: a stopped leadership leaves, another runs `lost`
EndTurn(r) ==
  IF Stopped(r) THEN Go(r, "over") /\ UNCHANGED gate
  ELSE Go(r, "losing") /\ WindDown(r)
Fault == faults < MaxFaults /\ faults' = faults + 1

LineInit ==
  /\ phase = [r \in Runs |-> "connecting"]
  /\ conn = [r \in Runs |-> "none"]
  /\ lock = Nobody
  /\ ended = [r \in Runs |-> FALSE]
  /\ gate = [r \in Runs |-> "none"]
  /\ halt = [r \in Runs |-> "no"]
  /\ faults = 0

-----------------------------------------------------------------------------
\* run(), leadOnce() and holdLock()
Connect(r) ==
  /\ At(r, "connecting")
  /\ IF Stopped(r) THEN Go(r, "over") /\ UNCHANGED <<conn, ended>>
     ELSE /\ Go(r, "contending")
          /\ conn' = [conn EXCEPT ![r] = "open"]
          /\ ended' = [ended EXCEPT ![r] = FALSE]
  /\ UNCHANGED <<lock, gate, halt, faults>>
Refused(r) ==
  /\ At(r, "connecting") /\ Fault
  /\ EndTurn(r)
  /\ UNCHANGED <<conn, lock, ended, halt>>

\* pg_advisory_lock: the server grants, the replica learns of it later
Grant(r) ==
  /\ At(r, "contending") /\ conn[r] = "open" /\ lock = Nobody
  /\ lock' = r
  /\ UNCHANGED <<phase, conn, ended, gate, halt, faults>>
Granted(r) ==
  /\ At(r, "contending") /\ conn[r] = "open" /\ lock = r
  /\ Go(r, "bots")
  /\ UNCHANGED <<conn, lock, ended, gate, halt, faults>>
\* the query rejects with its session
NotGranted(r) ==
  /\ At(r, "contending") /\ conn[r] # "open"
  /\ EndTurn(r)
  /\ UNCHANGED <<conn, lock, ended, halt, faults>>

\* Mutant: lead() starts the gateway of a run that is being stopped.
BotsUnchecked(r) ==
  /\ At(r, "bots")
  /\ Go(r, "launching") /\ gate' = [gate EXCEPT ![r] = "starting"]
  /\ UNCHANGED <<conn, lock, ended, halt, faults>>
\* lead(): a run that is being stopped makes no gateway
Bots(r) ==
  /\ At(r, "bots")
  /\ IF RunStopped(r) THEN Go(r, "turn") /\ UNCHANGED gate
     ELSE Go(r, "launching") /\ gate' = [gate EXCEPT ![r] = "starting"]
  /\ UNCHANGED <<conn, lock, ended, halt, faults>>
Launch(r) ==
  /\ At(r, "launching")
  /\ Go(r, "turn")
  /\ gate' = [gate EXCEPT ![r] = "running"]
  /\ UNCHANGED <<conn, lock, ended, halt, faults>>
LeadFails(r) ==
  /\ phase[r] \in {"bots", "launching"} /\ Fault
  /\ EndTurn(r)
  /\ UNCHANGED <<conn, lock, ended, halt>>
TurnOver(r) ==
  /\ At(r, "turn") /\ ended[r]
  /\ EndTurn(r)
  /\ UNCHANGED <<conn, lock, ended, halt, faults>>

\* Mutant: the client goes while the gateway still winds down.
LostUnawaited(r) ==
  /\ At(r, "losing")
  /\ LetGo(r)
  /\ Go(r, IF Stopped(r) THEN "over" ELSE "paused")
  /\ UNCHANGED <<ended, gate, halt, faults>>
\* `lost` has awaited gateway.stop(); then the client goes
Lost(r) ==
  /\ At(r, "losing") /\ gate[r] = "none"
  /\ LetGo(r)
  /\ Go(r, IF Stopped(r) THEN "over" ELSE "paused")
  /\ UNCHANGED <<ended, gate, halt, faults>>
\* Mutant: a turn that ended is the last one.
RetryNever(r) ==
  /\ At(r, "paused")
  /\ Go(r, "over")
  /\ UNCHANGED <<conn, lock, ended, gate, halt, faults>>
Retry(r) ==
  /\ At(r, "paused")
  /\ Go(r, IF Stopped(r) THEN "over" ELSE "connecting")
  /\ UNCHANGED <<conn, lock, ended, gate, halt, faults>>

\* Mutant: the stopped gateway is kept.
GatewayKept(r) ==
  /\ gate[r] = "stopping"
  /\ gate' = [gate EXCEPT ![r] = "stopped"]
  /\ UNCHANGED <<phase, conn, lock, ended, halt, faults>>
GatewayDown(r) ==
  /\ gate[r] = "stopping"
  /\ gate' = [gate EXCEPT ![r] = "none"]
  /\ UNCHANGED <<phase, conn, lock, ended, halt, faults>>

\* relinquish(): the wire of a leader's gateway stopped delivering
Relinquish(r) ==
  /\ Leading(r) /\ gate[r] # "none" /\ Fault
  /\ ended' = [ended EXCEPT ![r] = TRUE]
  /\ UNCHANGED <<phase, conn, lock, gate, halt>>

\* ------------------------------------------------------------ LineRun.stop()
Stop(r) ==
  /\ halt[r] = "no"
  /\ IF phase[r] \in {"bots", "launching"}
     THEN halt' = [halt EXCEPT ![r] = "lead"] /\ UNCHANGED gate
     ELSE halt' = [halt EXCEPT ![r] = "gateway"] /\ WindDown(r)
  /\ UNCHANGED <<phase, conn, lock, ended, faults>>
LeadSettled(r) ==
  /\ halt[r] = "lead" /\ phase[r] \notin {"bots", "launching"}
  /\ halt' = [halt EXCEPT ![r] = "gateway"]
  /\ WindDown(r)
  /\ UNCHANGED <<phase, conn, lock, ended, faults>>
\* Mutant: stop() does not end the turn.
StopWithoutEnd(r) ==
  /\ halt[r] = "gateway" /\ gate[r] = "none"
  /\ IF Leading(r) /\ conn[r] # "none"
     THEN halt' = [halt EXCEPT ![r] = "unlock"] /\ UNCHANGED <<conn, lock>>
     ELSE halt' = [halt EXCEPT ![r] = "done"] /\ LetGo(r)
  /\ UNCHANGED <<phase, ended, gate, faults>>
\* leadership.stop(): a leader unlocks, anyone else drops the connection
StopLeadership(r) ==
  /\ halt[r] = "gateway" /\ gate[r] = "none"
  /\ ended' = [ended EXCEPT ![r] = TRUE]
  /\ IF Leading(r) /\ conn[r] # "none"
     THEN halt' = [halt EXCEPT ![r] = "unlock"] /\ UNCHANGED <<conn, lock>>
     ELSE halt' = [halt EXCEPT ![r] = "done"] /\ LetGo(r)
  /\ UNCHANGED <<phase, gate, faults>>
Unlock(r) ==
  /\ halt[r] = "unlock"
  /\ halt' = [halt EXCEPT ![r] = "done"]
  /\ LetGo(r)
  /\ UNCHANGED <<phase, ended, gate, faults>>

\* ------------------------------------------------------------- environment
\* The session ends under the replica (a restart of Postgres, a network
\* partition): its lock is free at once, the replica learns by the error.
Drop(r) ==
  /\ conn[r] = "open" /\ Fault
  /\ conn' = [conn EXCEPT ![r] = "dropped"]
  /\ lock' = Freed(r)
  /\ ended' = [ended EXCEPT ![r] = TRUE]
  /\ UNCHANGED <<phase, gate, halt>>
\* the process dies
Crash(r) ==
  /\ phase[r] # "over" /\ Fault
  /\ Go(r, "over")
  /\ LetGo(r)
  /\ gate' = [gate EXCEPT ![r] = "none"]
  /\ halt' = [halt EXCEPT ![r] = "done"]
  /\ UNCHANGED ended

Own(r) ==
  \/ Connect(r) \/ Granted(r) \/ NotGranted(r) \/ Bots(r) \/ Launch(r)
  \/ TurnOver(r) \/ Lost(r) \/ Retry(r)
  \/ LeadSettled(r) \/ StopLeadership(r) \/ Unlock(r)
LineNext ==
  \E r \in Runs :
    \/ Own(r) \/ Grant(r) \/ GatewayDown(r) \/ Stop(r)
    \/ Refused(r) \/ LeadFails(r) \/ Relinquish(r) \/ Drop(r) \/ Crash(r)

LineSpec == LineInit /\ [][LineNext]_lineVars

\* The event loop resumes what is ready, the server grants a free lock to a
\* session that waits for it, and gateway.stop() returns.  Postgres serves
\* the queue of waiters in order; weak fairness of the grant is enough here.
FairLineSpec ==
  /\ LineSpec
  /\ \A r \in Runs : WF_lineVars(Own(r)) /\ WF_lineVars(GatewayDown(r)) /\ WF_lineVars(Grant(r))

-----------------------------------------------------------------------------
LineTypeOK ==
  /\ phase \in [Runs -> Phases]
  /\ conn \in [Runs -> Conns]
  /\ lock \in Runs \cup {Nobody}
  /\ ended \in [Runs -> BOOLEAN]
  /\ gate \in [Runs -> Gates]
  /\ halt \in [Runs -> Halts]
  /\ faults \in Nat

\* leadership.ts: "no other replica leads alongside a gateway that is
\* stopping".  As far as the lock gives it: as long as neither session ended
\* under its replica, at most one run has a gateway in any state, whatever
\* fails, is stopped or is given up in between.  (A session that drops frees
\* the lock before its replica has wound down.)
OneGatewayPerSession ==
  \A r, s \in Runs :
    gate[r] # "none" /\ gate[s] # "none" /\ conn[r] # "dropped" /\ conn[s] # "dropped" => r = s

\* leadership.ts, stop(): once it has returned, the run has no gateway, holds
\* no lock and starts nothing any more, wherever run() was at the time.
StopIsFinal ==
  [][\A r \in Runs : halt[r] = "done" =>
       gate'[r] = "none" /\ lock' # r /\ conn'[r] = "none" /\ halt'[r] = "done"]_lineVars

\* leadership.ts: the next replica "takes over the moment the leader's session
\* ends", and a replica that was refused contends again: as long as one run
\* is not stopped and the faults end, the line gets a running gateway.
SomebodyLeads ==
  []<>(\/ \E r \in Runs : gate[r] = "running"
       \/ \A r \in Runs : halt[r] # "no")

\* stop() returns and run() ends, from wherever they are.
StopEnds ==
  \A r \in Runs : halt[r] # "no" ~> halt[r] = "done" /\ phase[r] = "over"
=============================================================================
