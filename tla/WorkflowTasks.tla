--------------------------- MODULE WorkflowTasks ---------------------------
(***************************************************************************)
(* Certified workflows and their tasks: the interceptor around every run   *)
(* (services/interceptor), executeLT (services/orchestrator), the tasks    *)
(* (services/task), and what answering an escalation starts: a re-run of   *)
(* the work, or a triage of it (api/escalations/resolve.ts and bulk.ts,    *)
(* system/workflows/mcp-triage).                                           *)
(*                                                                         *)
(* One piece of work, run on its own or as the child of a parent that      *)
(* waits for it in executeLT.  A run is a durable workflow: it goes on     *)
(* where it was after a crash, one proxied activity after the other.  An   *)
(* activity whose answer is lost runs again.  A task is named by the       *)
(* workflow it belongs to (lt_tasks.workflow_id is unique).                *)
(***************************************************************************)
EXTENDS Naturals, Sequences, FiniteSets

CONSTANTS
  Settings,  \* what a behaviour has, of Setting below
  MaxRows    \* highest bound of the escalations parked

Ways == {"rerun", "triage", "bulk"}
OutcomeKinds == {"return", "exhausted", "plain", "escalation", "throw"}
FindingKinds == {"unresolved", "direct", "review", "throw"}

\* Whether a parent waits for the work, how its rows are answered, how a body of
\* the work and a triage may end; and the bounds of the rows parked, the activities
\* whose answer is lost and the requests cut off between two steps.
Setting == [parent : BOOLEAN, ways : SUBSET Ways,
            outcomes : SUBSET OutcomeKinds, findings : SUBSET FindingKinds,
            rows : 0..MaxRows, losses : Nat, crashes : Nat]

ASSUME TasksAssumption ==
  /\ Settings \subseteq Setting
  /\ MaxRows \in Nat

VARIABLES
  setting, \* the setting of this behaviour
  rows,    \* lt_escalations: the rows of these workflows, in the order they are parked
  task,    \* lt_tasks: status, and the parent its metadata routes the result to
  run,     \* the workflows
  heard,   \* the first result signalled to a workflow that waits in executeLT
  call,    \* where the request that answers a row in a certain way stands
  lost, crashed

vars == <<setting, rows, task, run, heard, call, lost, crashed>>

RowIds == 1..MaxRows
None == <<"none", 0>>
Parent == <<"parent", 0>>
Work == <<"work", 0>>
Ids == {Parent, Work} \union ({"rerun", "triage", "leaf", "again"} \X RowIds)
TaskIds == Ids \union ({"stray"} \X RowIds)

\* The part of an envelope that decides where a run belongs: lt.taskId, the
\* routing in lt, lt.escalationId when the envelope carries a resolver (0
\* otherwise), and what a triage is about (data.originalTaskId, .escalationId).
Envelope == [task : TaskIds \union {None}, to : Ids \union {None}, row : 0..MaxRows,
             orig : TaskIds \union {None}, about : 0..MaxRows]

BareEnvelope == [task |-> None, to |-> None, row |-> 0, orig |-> None, about |-> 0]

Kinds == {"work", "triage", "orchestrator"}

Absent == [kind |-> "work", env |-> BareEnvelope, pc |-> "absent", result |-> "none",
           task |-> None, to |-> None]

\* A workflow as client.workflow.start leaves it: settle comes first on a re-run.
Started(kind, env) ==
  [Absent EXCEPT !.kind = kind, !.env = env, !.pc = IF env.row = 0 THEN "ensure" ELSE "settle"]

\* client.workflow.start and startChild: a workflow id is started once.
Start(w, kind, env) ==
  run' = IF run[w].pc = "absent" THEN [run EXCEPT ![w] = Started(kind, env)] ELSE run

Init ==
  /\ setting \in Settings
  /\ rows = <<>>
  /\ task = [t \in TaskIds |-> [status |-> "none", to |-> None]]
  /\ run = [[w \in Ids |-> Absent] EXCEPT
              ![IF setting.parent THEN Parent ELSE Work] =
                 Started(IF setting.parent THEN "orchestrator" ELSE "work", BareEnvelope)]
  /\ heard = [w \in Ids |-> None]
  /\ call = [r \in RowIds |-> [way \in Ways |-> "idle"]]
  /\ lost = 0 /\ crashed = 0
-----------------------------------------------------------------------------
(* Tasks and the completion of an activity *)

\* createTask: ON CONFLICT (workflow_id) keeps the task that is there.
CreateTask(t, status, to) ==
  task' = IF task[t].status = "none" THEN [task EXCEPT ![t] = [status |-> status, to |-> to]] ELSE task

SetTask(t, status) == task' = [task EXCEPT ![t].status = status]

\* The run goes on as `next` says; or the activity's answer is lost, and it
\* runs again.
Proceed(w, next) ==
  \/ run' = [run EXCEPT ![w] = next] /\ UNCHANGED lost
  \/ lost < setting.losses /\ lost' = lost + 1 /\ UNCHANGED run

Goto(w, pc) == Proceed(w, [run[w] EXCEPT !.pc = pc])

\* Variant: settled under a status of its own.
SettleAsClosed(r) == rows' = [rows EXCEPT ![r].status = "closed"]
\* A row settles once, whoever asks (status = 'pending' guards the update).
Settle(r) == rows' = [rows EXCEPT ![r].status = "resolved"]

\* Room for one more row, those on their way included (a bound of the model).
Parking == {w \in Ids : run[w].pc \in {"escalate", "park", "review"}}
Room == Len(rows) + Cardinality(Parking) + (setting.losses - lost) < setting.rows

\* ltCreateEscalation.
ParkRow(t, kind, env) ==
  rows' = Append(rows, [status |-> "pending", task |-> t, kind |-> kind, env |-> env])

\* ltSignalParent: the first signal is the one a wait resumes with.
SignalParent(w) ==
  heard' = IF heard[run[w].to] = None THEN [heard EXCEPT ![run[w].to] = w] ELSE heard
-----------------------------------------------------------------------------
(* The interceptor *)

\* Variant: a re-run leaves the row it answers open.
ResolveReRunUnsettled(w) ==
  /\ run[w].pc = "settle"
  /\ Goto(w, "ensure")
  /\ UNCHANGED <<setting, rows, task, heard, call, crashed>>
\* resolveReRun: a re-run settles the row it answers; when the row is settled
\* already the run goes on.
ResolveReRun(w) ==
  /\ run[w].pc = "settle"
  /\ Settle(run[w].env.row)
  /\ Goto(w, "ensure")
  /\ UNCHANGED <<setting, task, heard, call, crashed>>

\* Variant: a re-run looks for a task by its own workflow id only.
FoundTaskOfOwnId(w) == IF task[w].status # "none" THEN w ELSE None
\* ensureTaskWithRouting.  The task is the run's own, or on a re-run the one its
\* envelope names; the routing is the task's, else the envelope's.
FoundTask(w) ==
  IF task[w].status # "none" THEN w
  ELSE IF run[w].env.row # 0 THEN run[w].env.task ELSE None

Routing(w) ==
  LET t == FoundTask(w) IN
  IF t # None /\ task[t].to # None THEN task[t].to ELSE run[w].env.to

EnsureTask(w) ==
  LET t == FoundTask(w) IN
  /\ run[w].pc = "ensure"
  /\ \/ t = None /\ CreateTask(w, "in_progress", None)
     \/ t = w /\ task[w].status = "pending" /\ SetTask(w, "in_progress")
     \/ t # None /\ ~(t = w /\ task[w].status = "pending") /\ UNCHANGED task
  /\ Proceed(w, [run[w] EXCEPT !.pc = IF run[w].kind = "orchestrator" THEN "create" ELSE "body",
                               !.task = IF t = None THEN w ELSE t,
                               !.to = Routing(w)])
  /\ UNCHANGED <<setting, rows, heard, call, crashed>>

\* The body of the work ends.  A re-run that used up its rounds parks no row.
RunWork(w, o) ==
  /\ run[w].pc = "body" /\ run[w].kind = "work"
  /\ LET parks == o \in {"escalation", "throw"} \/ (o = "exhausted" /\ run[w].env.row = 0) IN
     /\ parks => Room
     /\ run' = [run EXCEPT ![w].result = o,
                           ![w].pc = IF parks THEN "escalate"
                                     ELSE IF o = "plain" THEN "complete" ELSE "reply"]
  /\ UNCHANGED <<setting, rows, task, heard, call, lost, crashed>>

\* buildStoredEnvelope: the run's envelope with its task and its routing.
StoredEnvelope(w) ==
  [run[w].env EXCEPT !.task = run[w].task,
                     !.to = IF run[w].to # None THEN run[w].to ELSE @,
                     !.row = 0]

\* handleEscalation, handleErrorEscalation and createAdvisoryEscalation: the
\* task is marked first, the row is parked next.
EscalateTask(w) ==
  /\ run[w].pc = "escalate"
  /\ SetTask(run[w].task, "needs_intervention")
  /\ Goto(w, "park")
  /\ UNCHANGED <<setting, rows, heard, call, crashed>>

ParkEscalation(w) ==
  /\ run[w].pc = "park"
  /\ ParkRow(run[w].task, run[w].kind, StoredEnvelope(w))
  /\ Goto(w, IF run[w].result = "exhausted" THEN "reply" ELSE "ended")
  /\ UNCHANGED <<setting, task, heard, call, crashed>>

\* Variant: the run closes its task itself and tells nobody.
ReplyUntold(w) ==
  /\ run[w].pc = "reply"
  /\ SetTask(run[w].task, "completed")
  /\ Goto(w, "ended")
  /\ UNCHANGED <<setting, rows, heard, call, crashed>>
\* handleCompletion: the parent is told, and closes the task itself; a run
\* without a parent closes its own.
Reply(w) ==
  /\ run[w].pc = "reply"
  /\ \/ run[w].to # None /\ SignalParent(w) /\ UNCHANGED task
     \/ run[w].to = None /\ SetTask(run[w].task, "completed") /\ UNCHANGED heard
  /\ Goto(w, "ended")
  /\ UNCHANGED <<setting, rows, call, crashed>>

\* completePlainResult: a plain result closes the task, then the parent is told.
CompletePlain(w) ==
  /\ run[w].pc = "complete"
  /\ SetTask(run[w].task, "completed")
  /\ Goto(w, IF run[w].to = None THEN "ended" ELSE "tell")
  /\ UNCHANGED <<setting, rows, heard, call, crashed>>

TellParent(w) ==
  /\ run[w].pc = "tell"
  /\ SignalParent(w)
  /\ Goto(w, "ended")
  /\ UNCHANGED <<setting, rows, task, call, crashed>>
-----------------------------------------------------------------------------
(* executeLT, in the parent of the work and in the triage router *)

Child(w) == IF w = Parent THEN Work ELSE <<"leaf", w[2]>>
ChildKind(w) == IF w = Parent THEN "work" ELSE "triage"

CreateChildTask(w) ==
  /\ run[w].pc = "create"
  /\ CreateTask(Child(w), "pending", w)
  /\ Goto(w, "begin")
  /\ UNCHANGED <<setting, rows, heard, call, crashed>>

BeginChildTask(w) ==
  /\ run[w].pc = "begin"
  /\ SetTask(Child(w), "in_progress")
  /\ Goto(w, "spawn")
  /\ UNCHANGED <<setting, rows, heard, call, crashed>>

\* startChild, which the engine does once.
SpawnChild(w) ==
  /\ run[w].pc = "spawn"
  /\ run' = [run EXCEPT ![w].pc = "wait",
                        ![Child(w)] = Started(ChildKind(w), [run[w].env EXCEPT !.task = Child(w)])]
  /\ UNCHANGED <<setting, rows, task, heard, call, lost, crashed>>

\* condition(signalId): the wait resumes with the result.
Resume(w) ==
  /\ run[w].pc = "wait" /\ heard[w] # None
  /\ run' = [run EXCEPT ![w].pc = "close", ![w].result = "return"]
  /\ UNCHANGED <<setting, rows, task, heard, call, lost, crashed>>

CloseChildTask(w) ==
  /\ run[w].pc = "close"
  /\ SetTask(Child(w), "completed")
  /\ Goto(w, "reply")
  /\ UNCHANGED <<setting, rows, heard, call, crashed>>
-----------------------------------------------------------------------------
(* The triage (mcp-triage/response.ts) *)

RunTriage(w, f) ==
  /\ run[w].pc = "body" /\ run[w].kind = "triage"
  /\ f \in {"review", "throw"} => Room
  /\ run' = [run EXCEPT ![w].result = f,
                        ![w].pc = CASE f = "unresolved" -> "reply" [] f = "direct" -> "record"
                                    [] f = "review" -> "review" [] f = "throw" -> "escalate"]
  /\ UNCHANGED <<setting, rows, task, heard, call, lost, crashed>>

\* reconstructOriginalEnvelope: the original task and its routing.
OriginalEnvelope(w) ==
  [BareEnvelope EXCEPT !.task = run[w].env.orig, !.to = task[run[w].env.orig].to]

\* The row a run of the triage answers to: its own, or the one it is run again for.
TriageRow(w) == IF run[w].env.row = 0 THEN run[w].env.about ELSE run[w].env.row

\* rerunOriginalWorkflow.  The id ends in Durable.guid(), which the body draws
\* anew each time it is replayed: the task is created under another id than the
\* workflow that is started.
RecordAgain(w) ==
  /\ run[w].pc = "record"
  /\ CreateTask(<<"stray", TriageRow(w)>>, "pending", None)
  /\ Goto(w, "start")
  /\ UNCHANGED <<setting, rows, heard, call, crashed>>

StartAgain(w) ==
  /\ run[w].pc = "start"
  /\ LET again == <<"again", TriageRow(w)>> IN
     run' = [run EXCEPT ![again] = Started("work", [OriginalEnvelope(w) EXCEPT !.row = run[w].env.about]),
                        ![w].pc = "reply"]
  /\ UNCHANGED <<setting, rows, task, heard, call, lost, crashed>>

\* createReviewEscalation: a row on the original task.
ParkReview(w) ==
  /\ run[w].pc = "review"
  /\ ParkRow(run[w].env.orig, "work", OriginalEnvelope(w))
  /\ Goto(w, "reply")
  /\ UNCHANGED <<setting, task, heard, call, crashed>>
-----------------------------------------------------------------------------
(* Answering a row *)

Pending(r) == r \in DOMAIN rows /\ rows[r].status = "pending"

At(r, way, pc) == call[r][way] = pc
CallTo(r, way, pc) == call' = [call EXCEPT ![r][way] = pc]

\* resolveEscalation reads the row and picks its path; a triage's own rows are
\* answered by a re-run (a bound of the model).
Answer(r, way) ==
  /\ way \in setting.ways \ {"bulk"} /\ At(r, way, "idle") /\ Pending(r)
  /\ way = "triage" => rows[r].kind = "work"
  /\ CallTo(r, way, IF way = "rerun" THEN "start" ELSE "create")
  /\ UNCHANGED <<setting, rows, task, run, heard, lost, crashed>>

\* resolveViaRerun: the workflow again, with the resolver's payload.
StartRerun(r) ==
  /\ At(r, "rerun", "start")
  /\ Start(<<"rerun", r>>, rows[r].kind, [rows[r].env EXCEPT !.row = r])
  /\ CallTo(r, "rerun", "done")
  /\ UNCHANGED <<setting, rows, task, heard, lost, crashed>>

TriageOf(r) == <<"triage", r>>

\* Variant: the row is resolved before the triage is started.
CreateTriageTaskSettling(r) ==
  /\ At(r, "triage", "create")
  /\ CreateTask(TriageOf(r), "pending", None)
  /\ Settle(r)
  /\ CallTo(r, "triage", "start")
  /\ UNCHANGED <<setting, run, heard, lost, crashed>>
\* resolveViaTriage: a task, the router with the routing stripped from its
\* envelope, then the row.
CreateTriageTask(r) ==
  /\ At(r, "triage", "create")
  /\ CreateTask(TriageOf(r), "pending", None)
  /\ CallTo(r, "triage", "start")
  /\ UNCHANGED <<setting, rows, run, heard, lost, crashed>>

\* Variant: the triage's envelope keeps the routing of the work.
TriageEnvelopeRouted(r) == [rows[r].env EXCEPT !.orig = rows[r].task, !.about = r]
TriageEnvelope(r) == [BareEnvelope EXCEPT !.orig = rows[r].task, !.about = r]

StartTriage(r) ==
  /\ At(r, "triage", "start")
  /\ Start(TriageOf(r), "orchestrator", TriageEnvelope(r))
  /\ CallTo(r, "triage", "settle")
  /\ UNCHANGED <<setting, rows, task, heard, lost, crashed>>

SettleTriaged(r) ==
  /\ At(r, "triage", "settle")
  /\ Settle(r)
  /\ CallTo(r, "triage", "done")
  /\ UNCHANGED <<setting, task, run, heard, lost, crashed>>

\* bulkTriage: the rows are resolved first; each then gets a triage task with the
\* routing of its own task, and the triage itself with the row's envelope.
BulkResolve(r) ==
  /\ "bulk" \in setting.ways /\ At(r, "bulk", "idle") /\ Pending(r) /\ rows[r].kind = "work"
  /\ Settle(r)
  /\ CallTo(r, "bulk", "create")
  /\ UNCHANGED <<setting, task, run, heard, lost, crashed>>

BulkCreateTask(r) ==
  /\ At(r, "bulk", "create")
  /\ CreateTask(TriageOf(r), "pending", task[rows[r].task].to)
  /\ CallTo(r, "bulk", "start")
  /\ UNCHANGED <<setting, rows, run, heard, lost, crashed>>

BulkStart(r) ==
  /\ At(r, "bulk", "start")
  /\ Start(TriageOf(r), "triage", [rows[r].env EXCEPT !.orig = rows[r].task, !.about = r])
  /\ CallTo(r, "bulk", "done")
  /\ UNCHANGED <<setting, rows, task, heard, lost, crashed>>

\* The server stops inside the request; the caller may ask again.
Crash(r, way) ==
  /\ call[r][way] \notin {"idle", "done"} /\ crashed < setting.crashes
  /\ crashed' = crashed + 1
  /\ CallTo(r, way, "idle")
  /\ UNCHANGED <<setting, rows, task, run, heard, lost>>
-----------------------------------------------------------------------------
Step(w) ==
  \/ ResolveReRun(w) \/ EnsureTask(w)
  \/ \E o \in setting.outcomes : RunWork(w, o)
  \/ EscalateTask(w) \/ ParkEscalation(w)
  \/ Reply(w) \/ CompletePlain(w) \/ TellParent(w)
  \/ CreateChildTask(w) \/ BeginChildTask(w) \/ SpawnChild(w) \/ Resume(w) \/ CloseChildTask(w)
  \/ \E f \in setting.findings : RunTriage(w, f)
  \/ RecordAgain(w) \/ StartAgain(w) \/ ParkReview(w)

Serve(r) ==
  \/ StartRerun(r) \/ CreateTriageTask(r) \/ StartTriage(r) \/ SettleTriaged(r)
  \/ BulkCreateTask(r) \/ BulkStart(r)

Ask(r) == BulkResolve(r) \/ \E way \in Ways : Answer(r, way)

Next ==
  \/ \E w \in Ids : Step(w)
  \/ \E r \in RowIds : Serve(r) \/ Ask(r) \/ \E way \in Ways : Crash(r, way)

Spec == Init /\ [][Next]_vars

\* Fairness: the engine goes on with a workflow that can go on, a server with
\* a request it has read, and somebody answers a row that stays pending.
FairSpec ==
  /\ Spec
  /\ \A w \in Ids : WF_vars(Step(w))
  /\ \A r \in RowIds : WF_vars(Serve(r)) /\ WF_vars(Ask(r))
-----------------------------------------------------------------------------
(* Properties *)
Stages == {"absent", "settle", "ensure", "body", "escalate", "park", "reply", "complete", "tell",
           "create", "begin", "spawn", "wait", "close", "record", "start", "review", "ended"}

Escalation == [status : {"pending", "resolved"}, task : TaskIds, kind : Kinds, env : Envelope]
Task == [status : {"none", "pending", "in_progress", "needs_intervention", "completed"},
         to : Ids \union {None}]
Run == [kind : Kinds, env : Envelope, pc : Stages,
        result : OutcomeKinds \union FindingKinds \union {"none"},
        task : TaskIds \union {None}, to : Ids \union {None}]

\* Type correctness.
TasksTypeOK ==
  /\ setting \in Settings
  /\ rows \in Seq(Escalation) /\ Len(rows) <= MaxRows
  /\ task \in [TaskIds -> Task]
  /\ run \in [Ids -> Run]
  /\ heard \in [Ids -> Ids \union {None}]
  /\ call \in [RowIds -> [Ways -> {"idle", "create", "start", "settle", "done"}]]
  /\ lost \in 0..setting.losses /\ crashed \in 0..setting.crashes

\* A parent resumes only when its child has completed: what it hears comes from
\* a run of the child's own workflow, never from the triage of one of the
\* child's escalations, however many re-runs and triages lie between.
HearsItsChild ==
  \A w \in Ids : heard[w] # None => run[heard[w]].kind = ChildKind(w)

\* A resolved row has been acted on: a workflow that takes its answer further
\* was started, even when the request that answered it was cut off or two
\* requests answered it at once; or the bulk request that resolved it is about to.
ResolvedIsActedOn ==
  \A r \in DOMAIN rows : rows[r].status = "resolved" =>
     \/ call[r]["bulk"] \in {"create", "start"}
     \/ \E w \in {<<"rerun", r>>, TriageOf(r)} : run[w].pc # "absent"

Live(w) == run[w].pc \notin {"absent", "ended"}

\* The result of the work got where it is awaited.
Delivered ==
  IF setting.parent THEN heard[Parent] # None ELSE task[Work].status = "completed"

\* Somebody is asked for the work, a run that goes on works on it, or a request
\* that read one of its rows is about to start one.
Underway ==
  \/ \E r \in DOMAIN rows : rows[r].kind = "work"
       /\ (rows[r].status = "pending" \/ \E way \in Ways : ~At(r, way, "idle") /\ ~At(r, way, "done"))
  \/ \E w \in Ids : Live(w) /\ (w # Parent \/ run[w].pc # "wait")

\* The work is never silently lost: until its result is delivered, somebody or
\* something is at it.
WorkNeverVanishes == Delivered \/ Underway

\* While rows are answered by re-runs alone the work has one open row, and one
\* more at most for every activity whose answer was lost: its people are not
\* asked twice for the same failure.
OneOpenRow ==
  setting.ways = {"rerun"} =>
    Cardinality({r \in DOMAIN rows : rows[r].status = "pending"}) <= 1 + lost

\* The work ends: its result is delivered, and a parent that waits for it goes
\* on to its own end.
EveryWorkEnds == <>(Delivered /\ ~Live(Parent))
=============================================================================
