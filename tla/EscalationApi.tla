---------------------------- MODULE EscalationApi ----------------------------
(***************************************************************************)
(* The handlers of api/escalations over the statements of EscalationStore. *)
(* A handler reads the row, checks status, scope and claim, and only then  *)
(* runs its guarded statement or signals a workflow: between the two any   *)
(* other handler may run.  Each in-flight request is a slot of `call`; one *)
(* whose statement finds no row (409), that throws (500) or whose process  *)
(* dies ends without another step (Abandon).                               *)
(***************************************************************************)
EXTENDS EscalationStore

CONSTANTS
  Calls,       \* request slots
  Caller,      \* the principal of each slot
  Verbs,       \* the handlers this instance exercises; "crash" lets requests end early
  Global,      \* users with global escalation access
  AdminOf,     \* roles a user administers (checkBulkPermission)
  ReadScope, WriteScope,  \* user -> role -> "all" | "self" | "none"
  Chain        \* configured <<source role, target role>> escalations

Recipients == Users \cup Roles \cup Flows \cup {NoUser}

\* verbs whose slot survives a first step, and the steps that follow it
CallVerbs ==
  {"idle", "resolve", "unrouted", "routed", "triage", "byKey", "metaSignal",
   "claim", "autoClaim", "release", "escalate", "cancel", "byIds", "allOrNone",
   "gang", "bulkAssign", "bulkEscalate", "bulkCancel", "bulkTriage",
   "startTriage", "terminate"}

ASSUME ApiAssumption ==
  /\ Caller \in [Calls -> Users]
  /\ Global \subseteq Users
  /\ AdminOf \in [Users -> SUBSET Roles]
  /\ ReadScope \in [Users -> [Roles -> {"all", "self", "none"}]]
  /\ WriteScope \in [Users -> [Roles -> {"all", "self", "none"}]]
  /\ Chain \subseteq Roles \X Roles

VARIABLES
  call,  \* what each request still has to do
  jobs   \* follow-up workflows started: <<"rerun" | "triage", row>>

apiVars == <<storeVars, call, jobs>>

CallRecords ==
  {k \in [verb : CallVerbs, on : SUBSET Rows, to : Recipients, window : Nat] :
     /\ k.verb \in {"escalate", "bulkEscalate"} => k.to \in Roles
     /\ k.verb = "bulkAssign" => k.to \in Users
     /\ k.verb = "terminate" => k.to \in Flows}
Idle == [verb |-> "idle", on |-> {}, to |-> NoUser, window |-> NoWindow]

\* ------------------------------------------------------------ authorization
InScope(scope, u, r) ==
  \/ u \in Global
  \/ scope[u][row[r].role] = "all"
  \/ scope[u][row[r].role] = "self" /\ row[r].assignee = u
CanRead(u, r) == InScope(ReadScope, u, r)
CanWrite(u, r) == InScope(WriteScope, u, r)
CanManage(u, r) == u \in Global \/ WriteScope[u][row[r].role] = "all"
Member(u, role) == ReadScope[u][role] # "none"
BulkPermitted(u, S) == u \in Global \/ \A r \in S : row[r].role \in AdminOf[u]

\* --------------------------------------------------------------- call slots
Enter(c, verb, S, to, window) ==
  call' = [call EXCEPT ![c] =
             [verb |-> verb, on |-> S, to |-> to, window |-> window]]
Begin(c, verb, S, to, window) ==
  /\ call[c] = Idle
  /\ Enter(c, verb, S, to, window)
  /\ UNCHANGED <<storeVars, jobs>>
At(c, verb) == call[c].verb = verb
Proceed(c, verb) == call' = [call EXCEPT ![c].verb = verb]
Done(c) == call' = [call EXCEPT ![c] = Idle]
Drop(c, r) ==
  IF call[c].on = {r} THEN Done(c) ELSE call' = [call EXCEPT ![c].on = @ \ {r}]
Launch(kind, r) == jobs' = jobs \cup {<<kind, r>>}
Abandon(c) ==
  /\ "crash" \in Verbs /\ call[c] # Idle
  /\ Done(c)
  /\ UNCHANGED <<storeVars, jobs>>

\* ------------------------------------------------- resolve by escalation id
\* The read: status, read and write scope, advisory claim check.  A routed
\* row read before its enrichment carries no workflow to signal, and the
\* handler goes straight to its resolve.  window records the claim the
\* caller held when checked.
BeginResolve(c, r) ==
  LET u == Caller[c] IN
  /\ "resolve" \in Verbs
  /\ Pending(r)
  /\ CanRead(u, r)
  /\ CanWrite(u, r)
  /\ ~ClaimBlocks(r, u)
  /\ Begin(c, IF row[r].enriched THEN "resolve" ELSE "unrouted", {r}, NoUser,
           IF row[r].assignee = u THEN row[r].until ELSE NoWindow)

\* Mutant: the claim is checked at the read only.
ResolveUnasserted(c, r) ==
  /\ At(c, "resolve") /\ r \in call[c].on
  /\ Shape[r] \in {"key", "note"}
  /\ ResolveRow(r, NoUser)
  /\ Done(c)
  /\ UNCHANGED jobs
\* paths 0 and D: one guarded statement, with the claim asserted
ResolveGuarded(c, r) ==
  /\ At(c, "resolve") /\ r \in call[c].on
  /\ Shape[r] \in {"key", "note"}
  /\ ResolveRow(r, Caller[c])
  /\ Done(c)
  /\ UNCHANGED jobs

\* Mutant: the handler answers before it signalled.
ResolveUnsignalled(c, r) ==
  /\ At(c, "resolve") /\ r \in call[c].on
  /\ Shape[r] \in {"signal", "yaml"}
  /\ Done(c)
  /\ UNCHANGED <<storeVars, jobs>>
\* path A, and path B of a YAML engine: signal only, the workflow resolves
ResolveBySignal(c, r) ==
  /\ At(c, "resolve") /\ r \in call[c].on
  /\ Shape[r] \in {"signal", "yaml"}
  /\ Signal(r)
  /\ Done(c)
  /\ UNCHANGED jobs

\* path B of a durable workflow: signal, then resolve
SignalRouted(c, r) ==
  /\ At(c, "resolve") /\ r \in call[c].on
  /\ Shape[r] = "routed"
  /\ Signal(r)
  /\ Proceed(c, "routed")
  /\ UNCHANGED jobs
ResolveRouted(c, r) ==
  /\ call[c].verb \in {"unrouted", "routed"} /\ r \in call[c].on
  /\ ResolveRow(r, NoUser)
  /\ Done(c)
  /\ UNCHANGED jobs

\* path C: the strategy redirects to triage: start the job, then resolve
StartTriage(c, r) ==
  /\ At(c, "resolve") /\ r \in call[c].on
  /\ Shape[r] \in {"rerun", "note"}
  /\ Launch("triage", r)
  /\ Proceed(c, "triage")
  /\ UNCHANGED storeVars
ResolveTriaged(c, r) ==
  /\ At(c, "triage") /\ r \in call[c].on
  /\ ResolveRow(r, NoUser)
  /\ Done(c)
  /\ UNCHANGED jobs

\* path E: start the re-run; its interceptor resolves the row
StartRerun(c, r) ==
  /\ At(c, "resolve") /\ r \in call[c].on
  /\ Shape[r] = "rerun"
  /\ Launch("rerun", r)
  /\ Done(c)
  /\ UNCHANGED storeVars

\* ----------------------------------------- resolve by signal key, metadata
BeginByKey(c, r) ==
  /\ "byKey" \in Verbs
  /\ Keyed(r) /\ Pending(r) /\ CanWrite(Caller[c], r)
  /\ Begin(c, "byKey", {r}, NoUser, NoWindow)
ResolveByKey(c, r) ==
  /\ At(c, "byKey") /\ r \in call[c].on
  /\ ResolveRow(r, NoUser)
  /\ Done(c)
  /\ UNCHANGED jobs

\* One statement picks the row.  A keyed row is left for resolveEscalation;
\* a signal_id row under a live claim is a conflict; another is claimed for
\* the caller, who then signals; any other row is resolved on the spot.
ByMetadata(c, r) ==
  LET u == Caller[c] IN
  /\ "metadata" \in Verbs
  /\ call[c] = Idle
  /\ Pending(r) /\ CanWrite(u, r)
  /\ \/ /\ Keyed(r)
        /\ Enter(c, "byKey", {r}, NoUser, NoWindow)
        /\ UNCHANGED storeVars
     \/ /\ Shape[r] = "signal" /\ ~Live(r)
        /\ ResolveByMetadata(r, u)
        /\ Enter(c, "metaSignal", {r}, NoUser, now + MetaTerm)
     \/ /\ Shape[r] # "signal"
        /\ ResolveByMetadata(r, u)
        /\ UNCHANGED call
  /\ UNCHANGED jobs
SignalByMetadata(c, r) ==
  /\ At(c, "metaSignal") /\ r \in call[c].on
  /\ Signal(r)
  /\ Done(c)
  /\ UNCHANGED jobs

\* claimByMetadata, claimAssertedByMetadata: scope inside the statement
ClaimByMetadata(c, r, term) ==
  /\ "metadata" \in Verbs
  /\ call[c] = Idle
  /\ CanManage(Caller[c], r) /\ Claimable(r, Caller[c])
  /\ ClaimRows({r}, Caller[c], term)
  /\ UNCHANGED <<call, jobs>>

\* ------------------------------------- claim, release, escalate and cancel
BeginClaim(c, r) ==
  /\ "claim" \in Verbs
  /\ row[r].status # "none" /\ CanWrite(Caller[c], r)
  /\ Begin(c, "claim", {r}, NoUser, NoWindow)
Claim(c, r, term) ==
  /\ call[c].verb \in {"claim", "autoClaim"} /\ r \in call[c].on
  /\ Claimable(r, Caller[c])
  /\ ClaimRows({r}, Caller[c], term)
  /\ Done(c)
  /\ UNCHANGED jobs

BeginRelease(c, r) ==
  /\ "release" \in Verbs
  /\ row[r].status # "none" /\ CanManage(Caller[c], r)
  /\ Begin(c, "release", {r}, NoUser, NoWindow)
Release(c, r) ==
  /\ At(c, "release") /\ r \in call[c].on
  /\ ReleaseRow(r, Caller[c])
  /\ Done(c)
  /\ UNCHANGED jobs

BeginEscalate(c, r, role) ==
  LET u == Caller[c] IN
  /\ "escalate" \in Verbs
  /\ Pending(r) /\ CanManage(u, r)
  /\ u \in Global \/ (Member(u, row[r].role) /\ <<row[r].role, role>> \in Chain)
  /\ Begin(c, "escalate", {r}, role, NoWindow)
\* Mutant: trusts the status read before the await.
EscalateUnguarded(c, r) ==
  /\ At(c, "escalate") /\ r \in call[c].on
  /\ row' = [row EXCEPT ![r] = [Unassigned(@) EXCEPT !.role = call[c].to]]
  /\ Done(c)
  /\ UNCHANGED <<wait, dead, now, jobs>>
Escalate(c, r) ==
  /\ At(c, "escalate") /\ r \in call[c].on
  /\ Pending(r)
  /\ MoveRows({r}, call[c].to)
  /\ Done(c)
  /\ UNCHANGED jobs

BeginCancel(c, r) ==
  /\ "cancel" \in Verbs
  /\ row[r].status # "none" /\ CanWrite(Caller[c], r)
  /\ Begin(c, "cancel", {r}, NoUser, NoWindow)
\* cancelSingleEscalation, and one row of bulkCancel
Cancel(c, r) ==
  /\ call[c].verb \in {"cancel", "bulkCancel"} /\ r \in call[c].on
  /\ CancelRow(r)
  /\ Drop(c, r)
  /\ UNCHANGED jobs

\* ------------------------------------------------------------- sets of rows
BeginByIds(c, S) ==
  /\ "byIds" \in Verbs
  /\ S # {} /\ \A r \in S : row[r].status # "none" /\ CanWrite(Caller[c], r)
  /\ Begin(c, "byIds", S, NoUser, NoWindow)
ResolveByIds(c) ==
  /\ At(c, "byIds")
  /\ ResolveMany(call[c].on)
  /\ Done(c)
  /\ UNCHANGED jobs

\* Rows that only a separate signal can wake block the batch; gang is
\* requireClaimed.
SingleResolveOnly == {"signal", "yaml", "routed"}
\* Mutant: no gate for rows that need a signal of their own.
BeginUngated(c, S, verb) ==
  /\ "allOrNone" \in Verbs
  /\ verb \in {"allOrNone", "gang"}
  /\ S # {} /\ \A r \in S : row[r].status # "none" /\ CanWrite(Caller[c], r)
  /\ Begin(c, verb, S, NoUser, NoWindow)
BeginAllOrNone(c, S, verb) ==
  /\ "allOrNone" \in Verbs
  /\ verb \in {"allOrNone", "gang"}
  /\ S # {} /\ \A r \in S : row[r].status # "none" /\ CanWrite(Caller[c], r)
  /\ \A r \in S : Shape[r] \notin SingleResolveOnly
  /\ Begin(c, verb, S, NoUser, NoWindow)
AllOrNone(c) ==
  /\ call[c].verb \in {"allOrNone", "gang"}
  /\ ResolveAllOrNone(call[c].on, IF At(c, "gang") THEN Caller[c] ELSE NoUser)
  /\ Done(c)
  /\ UNCHANGED jobs

\* bulkClaim (to = caller), bulkAssign, bulkEscalate, bulkCancel, bulkTriage
BulkTargets(verb, u, S) ==
  CASE verb = "bulkAssign" ->
         {v \in Users : v = u \/ u \in Global \/ \A r \in S : Member(v, row[r].role)}
    [] verb = "bulkEscalate" -> Roles
    [] OTHER -> {NoUser}
BeginBulk(c, verb, S, to) ==
  /\ verb \in Verbs \cap {"bulkAssign", "bulkEscalate", "bulkCancel", "bulkTriage"}
  /\ S # {} /\ \A r \in S : row[r].status # "none"
  /\ BulkPermitted(Caller[c], S)
  /\ to \in BulkTargets(verb, Caller[c], S)
  /\ Begin(c, verb, S, to, NoWindow)
BulkAssign(c, term) ==
  /\ At(c, "bulkAssign")
  /\ ClaimRows(call[c].on, call[c].to, term)
  /\ Done(c)
  /\ UNCHANGED jobs
BulkEscalate(c) ==
  /\ At(c, "bulkEscalate")
  /\ MoveRows(call[c].on, call[c].to)
  /\ Done(c)
  /\ UNCHANGED jobs
\* the set is resolved first, then a triage job is started per resolved row
BulkTriage(c) ==
  /\ At(c, "bulkTriage")
  /\ ResolveMany(call[c].on)
  /\ LET won == Ackable(call[c].on) IN
     IF won = {} THEN Done(c) ELSE Enter(c, "startTriage", won, NoUser, NoWindow)
  /\ UNCHANGED jobs
StartBulkTriage(c, r) ==
  /\ At(c, "startTriage") /\ r \in call[c].on
  /\ Launch("triage", r)
  /\ Drop(c, r)
  /\ UNCHANGED storeVars

\* Overrides of a live claim need global access only, which no step changes.
Reassign(u, S, v, term) ==
  /\ "reassign" \in Verbs /\ u \in Global
  /\ ReassignRows(S, v, term)
  /\ UNCHANGED <<call, jobs>>
Unassign(u, S) ==
  /\ "reassign" \in Verbs /\ u \in Global
  /\ UnassignRows(S)
  /\ UNCHANGED <<call, jobs>>
Sweep == "sweep" \in Verbs /\ SweepExpired /\ UNCHANGED <<call, jobs>>

\* terminateWorkflow: the workflow first, its rows after
Terminate(c, f) ==
  /\ "terminate" \in Verbs
  /\ call[c] = Idle
  /\ TerminateFlow(f)
  /\ Enter(c, "terminate", {}, f, NoWindow)
  /\ UNCHANGED jobs
CancelFlow(c) ==
  /\ At(c, "terminate")
  /\ CancelByWorkflow(call[c].to)
  /\ Done(c)
  /\ UNCHANGED jobs

\* ------------------------------------------------------ workflows and clock
Park(r, u) == Insert(r, u) /\ UNCHANGED <<call, jobs>>

\* ltEnrichEscalationRouting: the routing, then a claim for the initiator
EnrichRouting(c, r) ==
  /\ Shape[r] = "routed" /\ Flow[r] \notin dead
  /\ call[c] = Idle
  /\ Enrich(r)
  /\ Enter(c, "autoClaim", {r}, NoUser, NoWindow)
  /\ UNCHANGED jobs

\* the signalled workflow resolves its row as a durable activity
DurableResolve(r) ==
  /\ Shape[r] \in {"signal", "yaml"} /\ wait[r] = "payload" /\ Flow[r] \notin dead
  /\ ResolveRow(r, NoUser)
  /\ UNCHANGED <<call, jobs>>
\* the interceptor of the re-run resolves the escalation that caused it
RerunResolve(r) ==
  /\ <<"rerun", r>> \in jobs
  /\ ResolveRow(r, NoUser)
  /\ UNCHANGED <<call, jobs>>
Timeout(r) == ExpireRow(r) /\ UNCHANGED <<call, jobs>>
Clock == Tick /\ UNCHANGED <<call, jobs>>

-----------------------------------------------------------------------------
ApiInit == StoreInit /\ call = [c \in Calls |-> Idle] /\ jobs = {}

ByIdStep(c, r) ==
  \/ BeginResolve(c, r) \/ ResolveGuarded(c, r) \/ ResolveBySignal(c, r)
  \/ SignalRouted(c, r) \/ ResolveRouted(c, r)
  \/ StartTriage(c, r) \/ ResolveTriaged(c, r) \/ StartRerun(c, r)
ByFacetStep(c, r) ==
  \/ BeginByKey(c, r) \/ ResolveByKey(c, r)
  \/ ByMetadata(c, r) \/ SignalByMetadata(c, r)
  \/ \E term \in Terms : ClaimByMetadata(c, r, term)
QueueStep(c, r) ==
  \/ BeginClaim(c, r) \/ \E term \in Terms : Claim(c, r, term)
  \/ BeginRelease(c, r) \/ Release(c, r)
  \/ \E role \in Roles : BeginEscalate(c, r, role)
  \/ Escalate(c, r) \/ BeginCancel(c, r) \/ Cancel(c, r)
  \/ StartBulkTriage(c, r) \/ EnrichRouting(c, r)
SetStep(c) ==
  \/ \E S \in SUBSET Rows :
       \/ BeginByIds(c, S)
       \/ \E verb \in {"allOrNone", "gang"} : BeginAllOrNone(c, S, verb)
       \/ \E verb \in Verbs, to \in Recipients : BeginBulk(c, verb, S, to)
  \/ ResolveByIds(c) \/ AllOrNone(c) \/ BulkEscalate(c) \/ BulkTriage(c)
  \/ \E term \in Terms : BulkAssign(c, term)
  \/ \E f \in Flows : Terminate(c, f)
  \/ CancelFlow(c) \/ Abandon(c)
EnvStep ==
  \/ Clock \/ Sweep
  \/ \E r \in Rows : \E u \in Users \cup {NoUser} : Park(r, u)
  \/ \E r \in Rows : DurableResolve(r) \/ RerunResolve(r) \/ Timeout(r)
  \/ \E u \in Users, S \in SUBSET Rows :
       Unassign(u, S) \/ \E v \in Users, term \in Terms : Reassign(u, S, v, term)

ApiNext ==
  \/ \E c \in Calls, r \in Rows : ByIdStep(c, r) \/ ByFacetStep(c, r) \/ QueueStep(c, r)
  \/ \E c \in Calls : SetStep(c)
  \/ EnvStep

ApiSpec == ApiInit /\ [][ApiNext]_apiVars

\* A handler whose process lives runs on to its next step, and the engine
\* re-runs the activity of a signalled or restarted workflow until it is done
\* (at most three attempts; a workflow that fails all three is not modelled).
\* Nothing is assumed of the guarded statements themselves: they may lose.
HandlerFairness ==
  \A c \in Calls, r \in Rows :
    WF_apiVars(\/ ResolveBySignal(c, r) \/ SignalByMetadata(c, r)
               \/ ResolveTriaged(c, r) \/ StartBulkTriage(c, r))
FairApiSpec ==
  /\ ApiSpec
  /\ HandlerFairness
  /\ \A r \in Rows : WF_apiVars(DurableResolve(r)) /\ WF_apiVars(RerunResolve(r))

-----------------------------------------------------------------------------
ApiTypeOK ==
  /\ StoreTypeOK
  /\ call \in [Calls -> CallRecords]
  /\ jobs \subseteq {"rerun", "triage"} \X Rows

\* Every step of every handler is one guarded statement of the store or
\* leaves the table alone; in particular no handler writes past the status
\* guard with what it read before its await.
ImplementsStore == StoreSpec

\* Rows whose workflow is woken by a signal of its own, after or before the
\* row is resolved: a resolved one whose live workflow still waits is
\* stranded, since no verb accepts a resolved row any more.
Stranded(r) ==
  /\ Shape[r] \in SingleResolveOnly
  /\ row[r].status = "resolved" /\ wait[r] = "waiting" /\ Flow[r] \notin dead
\* resolve.ts: bulk-resolving a row whose workflow needs a signal of its own
\* "would mark it settled while the workflow stays parked forever".  Only the
\* acknowledging verbs do that (resolve by ids, bulk triage, and metadata on a
\* row without signal_id), and the by-id resolve of a routed row that was read
\* before its enrichment; every other handler has the workflow signalled
\* before the row is settled, whatever ran or crashed in between.
AckVerbs == {"byIds", "bulkTriage", "unrouted"}
OnlyAcksStrand ==
  [][\A r \in Rows : Stranded(r)' /\ ~Stranded(r) =>
       \/ \E c \in Calls : /\ call[c].verb \in AckVerbs /\ r \in call[c].on
                           /\ call'[c] # call[c]
       \/ Shape[r] # "signal" /\ UNCHANGED call]_apiVars

\* sql.ts: stamping the claim makes "a concurrent second caller" abort: at
\* most one metadata request at a time is about to signal a row, as long as
\* the stamped window lasts and nobody gives the claim up or shortens it
\* (release, escalation, the admin overrides, a shorter claim of one's own).
OneMetadataSignaller ==
  \A c, d \in Calls : \A r \in call[c].on \cap call[d].on :
    /\ At(c, "metaSignal") /\ At(d, "metaSignal")
    /\ now < call[c].window /\ now < call[d].window
    => c = d

\* docs/hitl/resolution.md, "Live window, held by someone else: 409": between
\* the check of a by-id resolve and its statement, a claim by somebody else
\* wins.  A keyed row under a live claim is settled by its holder or by a
\* claim-agnostic verb (signal key, metadata, sets, cancellation, the timer).
LockedRowSettledByHolder ==
  [][\A c \in Calls, r \in Rows :
       /\ At(c, "resolve") /\ Keyed(r) /\ Live(r)
       /\ call'[c] # call[c] /\ row'[r].status # row[r].status
       => row[r].assignee = Caller[c]]_apiVars

\* docs/hitl/resolution.md: "A claim is a work lock"; sql.ts: only the management
\* override takes in "rows under a live claim".  Whatever the
\* claim verbs, the metadata stamps, the sweeper and the resolves of other
\* requests do, and whenever their callers were checked, a pending row under a
\* live claim passes to another principal by the global administrators'
\* reassign only; every other step keeps the holder or frees the row.
LockHolds ==
  [][\A r \in Rows :
       Live(r) /\ Pending(r) /\ row'[r].assignee \notin {row[r].assignee, NoUser} =>
         \E u, v \in Users, S \in SUBSET Rows, term \in Terms :
           Reassign(u, S, v, term)]_apiVars

\* A request that claimed a row by metadata and goes on to signal its
\* workflow, or a by-id request that passed its checks on such a row, ends
\* with the row out of the queue: the signalled workflow resolves it, unless
\* somebody else settled it or the workflow was terminated first.
SignallerClosesRow ==
  \A c \in Calls, r \in Rows :
    (/\ r \in call[c].on /\ Shape[r] \in {"signal", "yaml"}
     /\ call[c].verb \in {"resolve", "metaSignal"})
      ~> (~Pending(r) \/ Flow[r] \in dead)
=============================================================================
