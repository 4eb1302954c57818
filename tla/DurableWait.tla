---------------------------- MODULE DurableWait ----------------------------
(***************************************************************************)
(* What condition(signalId, config) promises the workflow that calls it,   *)
(* without rows, claims, queues, handlers or clocks: the wait opens once,  *)
(* is decided once, and the workflow hears exactly that decision in the    *)
(* step that takes it, unless its run was terminated first.                *)
(* EscalationStore implements this with the rows that carry a signal_key.  *)
(***************************************************************************)
CONSTANTS
  Waiters,  \* calls of condition()
  Runs,     \* workflow runs
  Owner     \* the run of each waiter: [Waiters -> Runs]

VARIABLES
  decision,  \* what was decided about the wait
  heard,     \* what the workflow was told
  lost       \* terminated runs

waitVars == <<decision, heard, lost>>

Decisions == {"resolved", "cancelled", "expired"}
\* a payload, null or false: what condition() returns for each decision
Told(d) ==
  CASE d = "none"      -> "none"
    [] d = "pending"   -> "waiting"
    [] d = "resolved"  -> "payload"
    [] d = "cancelled" -> "null"
    [] d = "expired"   -> "timeout"

WaitInit ==
  /\ decision = [w \in Waiters |-> "none"]
  /\ heard = [w \in Waiters |-> "none"]
  /\ lost = {}

Open(w) ==
  /\ decision[w] = "none" /\ Owner[w] \notin lost
  /\ decision' = [decision EXCEPT ![w] = "pending"]
  /\ heard' = [heard EXCEPT ![w] = "waiting"]
  /\ UNCHANGED lost

\* Several waits may be decided by one statement, and all alike.
Decide(S, d) ==
  /\ \A w \in S : decision[w] = "pending"
  /\ decision' = [w \in Waiters |-> IF w \in S THEN d ELSE decision[w]]
  /\ heard' = [w \in Waiters |->
       IF w \in S /\ Owner[w] \notin lost THEN Told(d) ELSE heard[w]]
  /\ UNCHANGED lost

Lose(f) == lost' = lost \cup {f} /\ UNCHANGED <<decision, heard>>

WaitNext ==
  \/ \E w \in Waiters : Open(w)
  \/ \E S \in SUBSET Waiters, d \in Decisions : Decide(S, d)
  \/ \E f \in Runs : Lose(f)

WaitSpec == WaitInit /\ [][WaitNext]_waitVars
=============================================================================
