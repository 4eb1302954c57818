------------------------ MODULE WorkflowTasksProofs ------------------------
(***************************************************************************)
(* For any number of rows, lost answers and requests cut off: the types,   *)
(* that a parent hears its own child only, that a resolved row was acted   *)
(* on, that the work is asked about once, and that it is never lost.       *)
(***************************************************************************)
EXTENDS WorkflowTasks, FiniteSetTheorems, SequenceTheorems, TLAPS

-----------------------------------------------------------------------------
(* What is known of runs, rows, tasks and requests                          *)

\* The families of workflows, one of each for a row.
Triages == {"triage"} \X RowIds
Leaves == {"leaf"} \X RowIds
Reruns == {"rerun"} \X RowIds
Agains == {"again"} \X RowIds
LeafOf(r) == <<"leaf", r>>
RerunOf(r) == <<"rerun", r>>
AgainOf(r) == <<"again", r>>
StrayOf(r) == <<"stray", r>>
RowOf(w) == w[2]

\* The tasks of the triages of a row: the router's, and its leaf's.
TriageTasks(r) == {TriageOf(r), LeafOf(r)}

Begun(w) == run[w].pc # "absent"

\* The stages of a run of each kind.
StagesOf(kind) ==
  IF kind = "work"
  THEN {"settle", "ensure", "body", "escalate", "park", "reply", "complete", "tell", "ended"}
  ELSE IF kind = "triage"
  THEN {"settle", "ensure", "body", "escalate", "park", "record", "start", "review", "reply", "ended"}
  ELSE {"ensure", "create", "begin", "spawn", "wait", "close", "reply", "ended"}

\* Bulk triage may hand the routing of the work to a triage (the finding BulkTriage).
Misrouted == setting.parent /\ "bulk" \in setting.ways

\* The routing of each kind of run, about row r where it is a triage.
RouteOK(kind, r, to) ==
  \/ to = None
  \/ kind = "work" /\ to = Parent /\ setting.parent
  \/ kind = "triage" /\ to = TriageOf(r)
  \/ kind # "work" /\ to = Parent /\ Misrouted

Made(t) == task[t].status # "none"

\* The envelope of each kind of run.  What a triage is about was triaged.
EnvOK(kind, env) ==
  /\ RouteOK(kind, env.about, env.to)
  /\ env.task # None => Made(env.task)
  /\ env.orig # None => Made(env.orig)
  /\ kind = "work" => env.task \in {None, Work} /\ (env.row # 0 => env.task = Work)
  /\ kind = "triage" =>
       /\ env.orig = Work
       /\ env.about \in DOMAIN rows /\ rows[env.about].kind = "work"
       /\ Begun(TriageOf(env.about))
       /\ env.row # 0 => env.task \in TriageTasks(env.about)

\* Which kind of run each workflow is, and the row it answers or is about.
NameOK(w) ==
  LET x == run[w] IN
  /\ w = Parent => x.kind = "orchestrator"
  /\ w = Work \/ w \in Agains => x.kind = "work"
  /\ w \in Leaves => /\ x.kind = "triage" /\ x.env.about = RowOf(w)
                     /\ Begun(TriageOf(RowOf(w))) /\ run[TriageOf(RowOf(w))].kind = "orchestrator"
  /\ w \in Triages => /\ x.kind # "work" /\ x.env.about = RowOf(w) /\ x.env.orig = Work
                      /\ RowOf(w) \in DOMAIN rows /\ rows[RowOf(w)].kind = "work"
  /\ w \in Reruns => RowOf(w) \in DOMAIN rows /\ x.kind = rows[RowOf(w)].kind /\ x.env.row = RowOf(w)
  /\ w \in Agains => x.env.row \in DOMAIN rows /\ Begun(TriageOf(x.env.row))
  /\ w \notin Reruns \union Agains => x.env.row = 0
  /\ x.kind = "orchestrator" => (w = Parent \/ w \in Triages) /\ x.env.to = None

\* Once its task is ensured a run has it, and work knows its parent.
EnsuredOK(w) ==
  LET x == run[w] IN
  x.pc \notin {"settle", "ensure"} =>
    /\ x.task # None /\ Made(x.task) /\ RouteOK(x.kind, x.env.about, x.to)
    /\ x.kind = "work" => x.task = Work /\ (setting.parent => x.to = Parent)
    /\ x.kind = "triage" => x.task \in TriageTasks(x.env.about)

RunOK(w) ==
  Begun(w) =>
    /\ NameOK(w) /\ EnvOK(run[w].kind, run[w].env) /\ EnsuredOK(w)
    /\ run[w].pc \in StagesOf(run[w].kind)
    /\ run[w].pc = "settle" => run[w].env.row # 0

RowOK(r) ==
  LET x == rows[r] IN
  /\ x.kind # "orchestrator" /\ x.env.row = 0 /\ x.env.task = x.task /\ EnvOK(x.kind, x.env)
  /\ x.kind = "work" => x.task = Work
  /\ x.kind = "triage" => x.task \in TriageTasks(x.env.about)

TaskOK(t) ==
  /\ Made(t) => t \notin Reruns \union Agains
  /\ \/ task[t].to = None
     \/ t = Work /\ task[t].to = Parent /\ setting.parent
     \/ t \in Leaves /\ task[t].to = TriageOf(RowOf(t))
     \/ t \in Triages /\ task[t].to = Parent /\ Misrouted
  /\ t = Work /\ setting.parent /\ Made(t) => task[t].to = Parent

\* An orchestrator, and the child it creates the task of, starts and waits for.
Waiting(w) == Begun(w) /\ run[w].kind = "orchestrator"
ChildOK(w) ==
  Waiting(w) =>
    /\ run[w].pc \in {"ensure", "create", "begin", "spawn"} => ~Begun(Child(w))
    /\ run[w].pc \notin {"ensure", "create"} => Made(Child(w))
    /\ run[w].pc \notin {"ensure", "create", "begin", "spawn"} => Begun(Child(w))

HeardOK(w) ==
  heard[w] # None =>
    LET x == run[heard[w]] IN
    /\ Begun(heard[w])
    /\ \/ w = Parent /\ (x.kind = "work" \/ Misrouted)
       \/ w \in Triages /\ x.kind = "triage" /\ x.env.about = RowOf(w)

CallOK(r) ==
  /\ \A way \in Ways : ~At(r, way, "idle") => r \in DOMAIN rows
  /\ ~At(r, "triage", "idle") \/ ~At(r, "bulk", "idle") => rows[r].kind = "work"
  /\ ~At(r, "bulk", "idle") => "bulk" \in setting.ways
  /\ call[r]["triage"] \in {"start", "settle", "done"} => Made(TriageOf(r))
  /\ call[r]["bulk"] \in {"start", "settle", "done"} => Made(TriageOf(r))
  /\ call[r]["triage"] \in {"settle", "done"} => Begun(TriageOf(r))
  /\ Begun(TriageOf(r)) => Made(TriageOf(r))

\* Each run of a triage starts the work anew at most once.
AgainOK(r) ==
  Begun(AgainOf(r)) =>
    \E v \in Ids : /\ Begun(v) /\ run[v].kind = "triage" /\ TriageRow(v) = r
                   /\ run[v].pc \in {"reply", "ended"}

FirstOK ==
  IF setting.parent THEN Begun(Parent) /\ (Begun(Work) => Made(Work))
  ELSE Begun(Work) /\ ~Begun(Parent)

RoomKept ==
  \/ Len(rows) = 0 /\ Parking = {}
  \/ Len(rows) + Cardinality(Parking) + (setting.losses - lost) <= setting.rows

WorkInv ==
  /\ \A w \in Ids : RunOK(w) /\ ChildOK(w) /\ HeardOK(w)
  /\ \A r \in DOMAIN rows : RowOK(r)
  /\ \A t \in TaskIds : TaskOK(t)
  /\ \A r \in RowIds : CallOK(r) /\ AgainOK(r)
  /\ FirstOK /\ RoomKept
-----------------------------------------------------------------------------
(* Names, settings and bounds                                               *)

LEMMA Names ==
  /\ Parent \in Ids /\ Work \in Ids /\ Parent # Work
  /\ Parent \notin Triages \union Leaves \union Reruns \union Agains
  /\ Work \notin Triages \union Leaves \union Reruns \union Agains
  /\ Ids \subseteq TaskIds /\ None \notin TaskIds
  /\ Ids = {Parent, Work} \union Triages \union Leaves \union Reruns \union Agains
  /\ Triages \intersect (Leaves \union Reruns \union Agains) = {}
  /\ Leaves \intersect (Reruns \union Agains) = {} /\ Reruns \intersect Agains = {}
BY DEF Parent, Work, None, Ids, TaskIds, Triages, Leaves, Reruns, Agains

LEMMA Families ==
  /\ \A w \in Triages : RowOf(w) \in RowIds /\ w = TriageOf(RowOf(w))
  /\ \A w \in Leaves : RowOf(w) \in RowIds /\ w = LeafOf(RowOf(w))
  /\ \A w \in Reruns : RowOf(w) \in RowIds /\ w = RerunOf(RowOf(w))
  /\ \A w \in Agains : RowOf(w) \in RowIds /\ w = AgainOf(RowOf(w))
BY DEF Triages, Leaves, Reruns, Agains, RowOf, TriageOf, LeafOf, RerunOf, AgainOf

LEMMA OfRow ==
  ASSUME NEW r \in RowIds
  PROVE  /\ TriageOf(r) \in Triages /\ LeafOf(r) \in Leaves /\ RerunOf(r) \in Reruns
         /\ AgainOf(r) \in Agains
         /\ RowOf(TriageOf(r)) = r /\ RowOf(LeafOf(r)) = r /\ RowOf(RerunOf(r)) = r /\ RowOf(AgainOf(r)) = r
         /\ StrayOf(r) \in TaskIds \ Ids
BY DEF Triages, Leaves, Reruns, Agains, RowOf, TriageOf, LeafOf, RerunOf, AgainOf, StrayOf, TaskIds, Ids,
       Parent, Work

LEMMA ChildNames ==
  /\ Child(Parent) = Work
  /\ \A w \in Triages : Child(w) = LeafOf(RowOf(w)) /\ Child(w) \in Leaves
BY Families, OfRow, Names DEF Child, LeafOf, RowOf

LEMMA SettingShape ==
  ASSUME TasksTypeOK
  PROVE  /\ setting \in Setting /\ setting.losses \in Nat /\ setting.rows \in 0..MaxRows /\ MaxRows \in Nat
         /\ lost \in Nat /\ lost <= setting.losses
         /\ setting.parent \in BOOLEAN
BY TasksAssumption DEF TasksTypeOK, Setting

LEMMA RowsShape ==
  ASSUME TasksTypeOK
  PROVE  /\ Len(rows) \in Nat /\ DOMAIN rows = 1..Len(rows) /\ DOMAIN rows \subseteq RowIds
         /\ \A r \in DOMAIN rows : rows[r] \in Escalation
<1>1. rows \in Seq(Escalation) /\ Len(rows) <= MaxRows /\ MaxRows \in Nat
  BY TasksAssumption DEF TasksTypeOK
<1> QED BY <1>1, LenProperties, ElementOfSeq DEF RowIds

LEMMA IdsFinite == IsFiniteSet(Ids)
<1>1. IsFiniteSet(RowIds)
  BY TasksAssumption, FS_Interval DEF RowIds
<1>2. IsFiniteSet({"rerun", "triage", "leaf", "again"})
  <2>1. /\ IsFiniteSet({"rerun"}) /\ IsFiniteSet({"triage"}) /\ IsFiniteSet({"leaf"})
        /\ IsFiniteSet({"again"})
    BY FS_Singleton
  <2>2. IsFiniteSet({"rerun"} \union {"triage"}) /\ IsFiniteSet({"leaf"} \union {"again"})
    BY <2>1, FS_Union
  <2>3. IsFiniteSet(({"rerun"} \union {"triage"}) \union ({"leaf"} \union {"again"}))
    BY <2>2, FS_Union
  <2>4. ({"rerun"} \union {"triage"}) \union ({"leaf"} \union {"again"})
          = {"rerun", "triage", "leaf", "again"}
    OBVIOUS
  <2> QED BY <2>3, <2>4
<1>3. IsFiniteSet({"rerun", "triage", "leaf", "again"} \X RowIds)
  BY <1>1, <1>2, FS_Product
<1>4. IsFiniteSet({Parent, Work})
  <2>1. IsFiniteSet({Parent} \union {Work})
    BY FS_Singleton, FS_Union
  <2> QED BY <2>1
<1> QED BY <1>3, <1>4, FS_Union DEF Ids

-----------------------------------------------------------------------------
(* What the building blocks of the actions do                               *)

\* A run goes on, or stays where it is because an answer was lost.
LEMMA GotoEffect ==
  ASSUME TasksTypeOK, NEW w \in Ids, NEW pc \in Stages, Goto(w, pc)
  PROVE  /\ run' \in [Ids -> Run]
         /\ \A v \in Ids : v # w => run'[v] = run[v]
         /\ run'[w].kind = run[w].kind /\ run'[w].env = run[w].env /\ run'[w].result = run[w].result
         /\ run'[w].task = run[w].task /\ run'[w].to = run[w].to
         /\ \/ run'[w].pc = pc /\ lost' = lost
            \/ run'[w].pc = run[w].pc /\ lost' = lost + 1 /\ lost < setting.losses
BY DEF Goto, Proceed, TasksTypeOK, Run

LEMMA CreateTaskEffect ==
  ASSUME TasksTypeOK, NEW t \in TaskIds, NEW status \in {"pending", "in_progress"},
         NEW to \in Ids \union {None}, CreateTask(t, status, to)
  PROVE  /\ task' \in [TaskIds -> Task]
         /\ \A u \in TaskIds : u # t => task'[u] = task[u]
         /\ Made(t)'
         /\ task'[t] = task[t] \/ (~Made(t) /\ task'[t].to = to)
BY DEF CreateTask, TasksTypeOK, Task, Made

LEMMA SetTaskEffect ==
  ASSUME TasksTypeOK, NEW t \in TaskIds, NEW status \in {"in_progress", "needs_intervention", "completed"},
         SetTask(t, status)
  PROVE  /\ task' \in [TaskIds -> Task]
         /\ \A u \in TaskIds : task'[u].to = task[u].to /\ (u # t => task'[u] = task[u])
         /\ task'[t].status = status
BY DEF SetTask, TasksTypeOK, Task

LEMMA SettleEffect ==
  ASSUME TasksTypeOK, NEW r \in DOMAIN rows, Settle(r)
  PROVE  /\ rows' \in Seq(Escalation) /\ Len(rows') = Len(rows) /\ DOMAIN rows' = DOMAIN rows
         /\ \A q \in DOMAIN rows : /\ rows'[q].kind = rows[q].kind /\ rows'[q].env = rows[q].env
                                   /\ rows'[q].task = rows[q].task
                                   /\ q # r => rows'[q] = rows[q]
         /\ rows'[r].status = "resolved"
<1> DEFINE x == [rows[r] EXCEPT !.status = "resolved"]
<1>1. rows[r] \in Escalation /\ rows \in Seq(Escalation)
  BY RowsShape DEF TasksTypeOK
<1>2. x \in Escalation
  BY <1>1 DEF Escalation
<1>3. rows' = [rows EXCEPT ![r] = x]
  BY DEF Settle
<1>4. rows' \in Seq(Escalation) /\ Len(rows') = Len(rows)
  BY <1>1, <1>2, <1>3, ExceptSeq
<1>5. x.kind = rows[r].kind /\ x.env = rows[r].env /\ x.task = rows[r].task /\ x.status = "resolved"
  BY <1>1 DEF Escalation
<1> HIDE DEF x
<1> QED BY <1>1, <1>3, <1>4, <1>5

LEMMA ParkRowEffect ==
  ASSUME TasksTypeOK, NEW t \in TaskIds, NEW kind \in Kinds, NEW env \in Envelope, ParkRow(t, kind, env)
  PROVE  /\ rows' \in Seq(Escalation) /\ Len(rows') = Len(rows) + 1
         /\ DOMAIN rows' = DOMAIN rows \union {Len(rows) + 1}
         /\ \A q \in DOMAIN rows : rows'[q] = rows[q]
         /\ rows'[Len(rows) + 1] = [status |-> "pending", task |-> t, kind |-> kind, env |-> env]
<1> DEFINE x == [status |-> "pending", task |-> t, kind |-> kind, env |-> env]
<1>1. rows \in Seq(Escalation) /\ x \in Escalation
  BY DEF TasksTypeOK, Escalation
<1>2. rows' = Append(rows, x)
  BY DEF ParkRow
<1> HIDE DEF x
<1>3. /\ rows' \in Seq(Escalation) /\ Len(rows') = Len(rows) + 1
      /\ \A q \in 1..Len(rows) : rows'[q] = rows[q]
      /\ rows'[Len(rows) + 1] = x
  BY <1>1, <1>2, AppendProperties
<1>4. DOMAIN rows = 1..Len(rows) /\ DOMAIN rows' = 1..Len(rows') /\ Len(rows) \in Nat
  BY <1>1, <1>3, LenProperties
<1> QED BY <1>3, <1>4 DEF x

LEMMA CallEffect ==
  ASSUME TasksTypeOK, NEW r \in RowIds, NEW way \in Ways,
         NEW pc \in {"idle", "create", "start", "settle", "done"}, CallTo(r, way, pc)
  PROVE  /\ call' \in [RowIds -> [Ways -> {"idle", "create", "start", "settle", "done"}]]
         /\ call'[r][way] = pc
         /\ \A q \in RowIds, u \in Ways : q # r \/ u # way => call'[q][u] = call[q][u]
BY DEF CallTo, TasksTypeOK

\* A workflow is started once, as it comes out of Started.
LEMMA StartEffect ==
  ASSUME TasksTypeOK, NEW w \in Ids, NEW kind \in Kinds, NEW env \in Envelope, Start(w, kind, env)
  PROVE  /\ run' \in [Ids -> Run]
         /\ \A v \in Ids : v # w => run'[v] = run[v]
         /\ Begun(w)'
         /\ \/ Begun(w) /\ run'[w] = run[w]
            \/ ~Begun(w) /\ run'[w] = Started(kind, env)
<1>1. Started(kind, env) \in Run /\ Started(kind, env).pc # "absent"
  BY DEF Started, Absent, Run, Stages, Envelope, BareEnvelope
<1> QED BY <1>1 DEF Start, Begun, TasksTypeOK

LEMMA StartedShape ==
  ASSUME NEW kind \in Kinds, NEW env \in Envelope
  PROVE  /\ Started(kind, env) \in Run /\ Started(kind, env).kind = kind /\ Started(kind, env).env = env
         /\ Started(kind, env).pc = IF env.row = 0 THEN "ensure" ELSE "settle"
BY DEF Started, Absent, Run, Stages, Envelope, BareEnvelope

-----------------------------------------------------------------------------
(* What no step takes back                                                  *)

\* Rows stay what they are about, runs keep their kind and envelope and end once,
\* tasks stay.
Grown ==
  /\ setting' = setting
  /\ DOMAIN rows \subseteq DOMAIN rows'
  /\ \A r \in DOMAIN rows : /\ rows'[r].kind = rows[r].kind /\ rows'[r].task = rows[r].task
                            /\ rows'[r].env = rows[r].env
  /\ \A w \in Ids : Begun(w) => /\ Begun(w)' /\ run'[w].kind = run[w].kind
                                /\ run'[w].env = run[w].env
  /\ \A w \in Ids : run[w].pc \in {"reply", "ended"} => run'[w].pc \in {"reply", "ended"}
  /\ \A t \in TaskIds : Made(t) => Made(t)'

LEMMA EnvKept ==
  ASSUME TasksTypeOK, Grown, NEW k \in Kinds, NEW e \in Envelope, EnvOK(k, e)
  PROVE  EnvOK(k, e)'
<1>1. /\ e.task \in TaskIds \union {None} /\ e.orig \in TaskIds \union {None}
      /\ e.about \in DOMAIN rows => e.about \in RowIds
  BY RowsShape DEF Envelope
<1>2. \A r \in RowIds : TriageOf(r) \in Ids
  BY OfRow, Names
<1> QED BY <1>1, <1>2 DEF Grown, EnvOK, RouteOK, Misrouted

LEMMA RunShape ==
  ASSUME TasksTypeOK, NEW w \in Ids
  PROVE  /\ run[w] \in Run /\ run[w].kind \in Kinds /\ run[w].env \in Envelope /\ run[w].pc \in Stages
         /\ run[w].env.row \in 0..MaxRows /\ run[w].env.about \in 0..MaxRows
         /\ run[w].env.task \in TaskIds \union {None} /\ run[w].env.orig \in TaskIds \union {None}
         /\ run[w].task \in TaskIds \union {None} /\ run[w].to \in Ids \union {None}
         /\ run[w].env.to \in Ids \union {None}
BY DEF TasksTypeOK, Run, Envelope

\* A run that goes on is still what its name says.
LEMMA NameKept ==
  ASSUME TasksTypeOK, Grown, NEW w \in Ids, Begun(w), NameOK(w)
  PROVE  NameOK(w)'
<1>1. \A r \in RowIds : TriageOf(r) \in Ids
  BY OfRow, Names
<1>2. w \in Leaves \union Triages \union Reruns => RowOf(w) \in RowIds
  BY Families
<1>3. DOMAIN rows \subseteq RowIds
  BY RowsShape
<1> QED BY <1>1, <1>2, <1>3 DEF Grown, NameOK

LEMMA RunKept ==
  ASSUME TasksTypeOK, Grown, NEW w \in Ids, RunOK(w), Begun(w), EnsuredOK(w)',
         run'[w].pc \in StagesOf(run[w].kind), run'[w].pc = "settle" => run[w].pc = "settle"
  PROVE  RunOK(w)'
<1>1. NameOK(w)'
  BY NameKept DEF RunOK
<1>2. EnvOK(run[w].kind, run[w].env)'
  <2> DEFINE k == run[w].kind  e == run[w].env
  <2>1. PICK kk \in Kinds, ee \in Envelope : kk = run[w].kind /\ ee = run[w].env
    BY RunShape
  <2>2. EnvOK(kk, ee)
    BY <2>1 DEF RunOK
  <2>3. EnvOK(kk, ee)'
    BY <2>2, EnvKept
  <2>4. kk = run'[w].kind /\ ee = run'[w].env
    BY <2>1 DEF Grown
  <2> QED BY <2>3, <2>4 DEF EnvOK
<1> QED BY <1>1, <1>2 DEF RunOK, Grown

LEMMA EnsuredKept ==
  ASSUME TasksTypeOK, Grown, NEW w \in Ids, Begun(w), EnsuredOK(w),
         run'[w].task = run[w].task, run'[w].to = run[w].to,
         run[w].pc \in {"settle", "ensure"} => run'[w].pc \in {"settle", "ensure"}
  PROVE  EnsuredOK(w)'
BY RunShape DEF EnsuredOK, Grown, RouteOK, Misrouted

LEMMA RunStays ==
  ASSUME TasksTypeOK, Grown, NEW w \in Ids, RunOK(w), run'[w] = run[w]
  PROVE  RunOK(w)'
<1>1. CASE Begun(w)
  BY <1>1, RunKept, EnsuredKept DEF RunOK
<1>2. CASE ~Begun(w)
  BY <1>2 DEF Begun, RunOK
<1> QED BY <1>1, <1>2

LEMMA RowKept ==
  ASSUME TasksTypeOK, Grown, NEW r \in DOMAIN rows, RowOK(r)
  PROVE  RowOK(r)'
<1>1. PICK k \in Kinds, e \in Envelope : k = rows[r].kind /\ e = rows[r].env
  BY RowsShape DEF Escalation
<1>2. EnvOK(k, e)
  BY <1>1 DEF RowOK
<1>3. EnvOK(k, e)'
  BY <1>2, EnvKept
<1>4. k = rows'[r].kind /\ e = rows'[r].env
  BY <1>1 DEF Grown
<1>5. EnvOK(rows[r].kind, rows[r].env)'
  BY <1>3, <1>4 DEF EnvOK
<1> QED BY <1>5 DEF RowOK, Grown

LEMMA HeardKept ==
  ASSUME TasksTypeOK, Grown, NEW w \in Ids, HeardOK(w), heard'[w] = heard[w]
  PROVE  HeardOK(w)'
BY DEF TasksTypeOK, HeardOK, Grown, Misrouted

LEMMA AgainKept ==
  ASSUME TasksTypeOK, Grown, NEW r \in RowIds, AgainOK(r), Begun(AgainOf(r))' => Begun(AgainOf(r))
  PROVE  AgainOK(r)'
BY DEF AgainOK, Grown, TriageRow

LEMMA CallKept ==
  ASSUME TasksTypeOK, Grown, NEW r \in RowIds, CallOK(r), call'[r] = call[r],
         Begun(TriageOf(r))' => Begun(TriageOf(r))
  PROVE  CallOK(r)'
<1>1. TriageOf(r) \in Ids /\ TriageOf(r) \in TaskIds
  BY OfRow, Names
<1> QED BY <1>1 DEF CallOK, Grown, At, Ways

-----------------------------------------------------------------------------
(* A run that goes on                                                       *)

\* Only w moves; no workflow is started.
Moves(w) ==
  /\ Begun(w) /\ Begun(w)'
  /\ run'[w].kind = run[w].kind /\ run'[w].env = run[w].env
  /\ \A v \in Ids : v # w => run'[v] = run[v]

\* Rows and tasks are kept, and typed.
DataGrows ==
  /\ setting' = setting /\ call' = call /\ crashed' = crashed
  /\ rows' \in Seq(Escalation) /\ Len(rows') <= MaxRows /\ DOMAIN rows \subseteq DOMAIN rows'
  /\ \A r \in DOMAIN rows : /\ rows'[r].kind = rows[r].kind /\ rows'[r].task = rows[r].task
                            /\ rows'[r].env = rows[r].env
  /\ task' \in [TaskIds -> Task] /\ (\A t \in TaskIds : Made(t) => Made(t)')
  /\ heard' \in [Ids -> Ids \union {None}]

LEMMA GotoKeeps ==
  ASSUME TasksTypeOK, NEW w \in Ids, RunOK(w), NEW pc \in Stages, Goto(w, pc), DataGrows,
         run[w].pc \notin {"absent", "ensure", "ended"}, pc \in StagesOf(run[w].kind) \ {"settle"},
         run[w].pc = "settle" => pc = "ensure", run[w].pc = "reply" => pc = "ended"
  PROVE  TasksTypeOK' /\ Grown /\ Moves(w) /\ RunOK(w)'
<1>1. TasksTypeOK'
  BY GotoEffect, SettingShape DEF TasksTypeOK, DataGrows
<1>2. pc # "absent"
  BY DEF StagesOf
<1>3. Moves(w)
  BY <1>2, GotoEffect DEF Moves, Begun
<1>4. Grown
  <2>1. \A v \in Ids : Begun(v) => Begun(v)' /\ run'[v].kind = run[v].kind /\ run'[v].env = run[v].env
    BY <1>3 DEF Moves, Begun
  <2>2. \A v \in Ids : run[v].pc \in {"reply", "ended"} => run'[v].pc \in {"reply", "ended"}
    BY GotoEffect
  <2> QED BY <2>1, <2>2 DEF Grown, DataGrows
<1>5. EnsuredOK(w)'
  <2>1. run[w].pc = "settle" => run'[w].pc \in {"settle", "ensure"}
    BY GotoEffect
  <2> QED BY <1>3, <1>4, <2>1, GotoEffect, EnsuredKept DEF RunOK, Moves
<1>6. run'[w].pc \in StagesOf(run[w].kind) /\ (run'[w].pc = "settle" => run[w].pc = "settle")
  BY <1>3, GotoEffect DEF RunOK, Moves
<1> QED BY <1>1, <1>3, <1>4, <1>5, <1>6, RunKept DEF Moves

\* The children of the orchestrators; the others have none.
LEMMA WaitingNames ==
  ASSUME NEW w \in Ids, RunOK(w), Waiting(w)
  PROVE  Child(w) \in Ids /\ Child(w) \in TaskIds /\ (w = Parent \/ w \in Triages)
BY Names, ChildNames DEF RunOK, NameOK, Waiting

LEMMA ChildStays ==
  ASSUME TasksTypeOK, Grown, NEW w \in Ids, RunOK(w), ChildOK(w),
         Waiting(w)' => Waiting(w), run'[w].pc = run[w].pc,
         Waiting(w) => (Begun(Child(w))' => Begun(Child(w)))
  PROVE  ChildOK(w)'
<1>1. CASE Waiting(w)
  BY <1>1, WaitingNames DEF ChildOK, Grown
<1>2. CASE ~Waiting(w)'
  BY <1>2 DEF ChildOK
<1> QED BY <1>1, <1>2

LEMMA ChildLater ==
  ASSUME TasksTypeOK, Grown, NEW w \in Ids, Moves(w), RunOK(w), ChildOK(w),
         \/ run[w].kind # "orchestrator"
         \/ /\ run[w].pc \notin {"ensure", "create", "begin", "spawn"}
            /\ run'[w].pc \notin {"ensure", "create", "begin", "spawn"}
  PROVE  ChildOK(w)'
<1>1. CASE run[w].kind = "orchestrator"
  <2>1. Waiting(w)
    BY <1>1 DEF Waiting, Moves
  <2> QED BY <1>1, <2>1, WaitingNames DEF ChildOK, Grown
<1>2. CASE run[w].kind # "orchestrator"
  BY <1>2 DEF ChildOK, Waiting, Moves
<1> QED BY <1>1, <1>2

\* What is left to show when no workflow is started.
LEMMA MoveKeeps ==
  ASSUME TasksTypeOK, TasksTypeOK', WorkInv, Grown, NEW w \in Ids, Moves(w), call' = call,
         RunOK(w)', ChildOK(w)',
         \A v \in Ids : heard'[v] = heard[v] \/ HeardOK(v)',
         \A r \in DOMAIN rows' \ DOMAIN rows : RowOK(r)',
         \A t \in TaskIds : (task'[t].to = task[t].to /\ (Made(t)' => Made(t))) \/ TaskOK(t)',
         RoomKept'
  PROVE  WorkInv'
<1>1. \A v \in Ids : Begun(v)' => Begun(v)
  BY DEF Moves, Begun
<1>2. ASSUME NEW v \in Ids PROVE RunOK(v)' /\ ChildOK(v)' /\ HeardOK(v)'
  <2>1. RunOK(v)'
    BY RunStays DEF WorkInv, Moves
  <2>2. ChildOK(v)'
    <3>1. CASE v # w
      <4>1. run'[v] = run[v]
        BY <3>1 DEF Moves
      <4>2. Waiting(v) => Child(v) \in Ids
        BY WaitingNames DEF WorkInv
      <4>3. Waiting(v)' => Waiting(v)
        BY <4>1 DEF Waiting, Begun
      <4>4. RunOK(v) /\ ChildOK(v)
        BY DEF WorkInv
      <4> QED BY <1>1, <4>1, <4>2, <4>3, <4>4, ChildStays
    <3> QED BY <3>1
  <2>3. HeardOK(v)'
    BY HeardKept DEF WorkInv
  <2> QED BY <2>1, <2>2, <2>3
<1>3. ASSUME NEW r \in DOMAIN rows' PROVE RowOK(r)'
  BY RowKept DEF WorkInv
<1>4. ASSUME NEW t \in TaskIds PROVE TaskOK(t)'
  BY DEF WorkInv, TaskOK, Grown, Misrouted
<1>5. ASSUME NEW r \in RowIds PROVE CallOK(r)' /\ AgainOK(r)'
  BY <1>1, OfRow, Names, CallKept, AgainKept DEF WorkInv
<1>6. FirstOK'
  BY <1>1, Names DEF WorkInv, FirstOK, Grown
<1> QED BY <1>2, <1>3, <1>4, <1>5, <1>6 DEF WorkInv

-----------------------------------------------------------------------------
(* The room of the rows                                                     *)

LEMMA ParkingFinite ==
  IsFiniteSet(Parking) /\ Cardinality(Parking) \in Nat
BY IdsFinite, FS_Subset, FS_CardinalityType DEF Parking

LEMMA ParkingFiniteNext ==
  IsFiniteSet(Parking') /\ Cardinality(Parking') \in Nat
<1>1. Parking' \subseteq Ids
  BY DEF Parking
<1> QED BY <1>1, IdsFinite, FS_Subset, FS_CardinalityType

LEMMA RoomStays ==
  ASSUME TasksTypeOK, TasksTypeOK', RoomKept, setting' = setting, Len(rows') = Len(rows),
         lost' >= lost, Parking' \subseteq Parking
  PROVE  RoomKept'
<1>1. Cardinality(Parking') <= Cardinality(Parking)
  BY ParkingFinite, FS_Subset
<1>2. lost' \in Nat /\ Len(rows') \in Nat
  BY RowsShape DEF TasksTypeOK
<1> QED BY <1>1, <1>2, ParkingFinite, ParkingFiniteNext, SettingShape, RowsShape DEF RoomKept

LEMMA RoomTaken ==
  ASSUME TasksTypeOK, TasksTypeOK', RoomKept, setting' = setting, Len(rows') = Len(rows),
         lost' = lost, NEW w \in Ids, Parking' \subseteq Parking \union {w}, Room
  PROVE  RoomKept'
<1>1. Cardinality(Parking \union {w}) <= Cardinality(Parking) + 1 /\ IsFiniteSet(Parking \union {w})
  <2>1. /\ IsFiniteSet(Parking \union {w})
        /\ Cardinality(Parking \union {w}) =
             IF w \in Parking THEN Cardinality(Parking) ELSE Cardinality(Parking) + 1
    <3> HIDE DEF Parking
    <3> QED BY ParkingFinite, FS_AddElement
  <2> QED BY <2>1, ParkingFinite
<1>2. Cardinality(Parking') <= Cardinality(Parking) + 1
  BY <1>1, ParkingFinite, ParkingFiniteNext, FS_Subset, FS_CardinalityType
<1> QED BY <1>2, ParkingFinite, ParkingFiniteNext, SettingShape, RowsShape DEF RoomKept, Room

\* A run that parks its row leaves, or its answer is lost and it parks again.
LEMMA RoomUsed ==
  ASSUME TasksTypeOK, RoomKept, NEW w \in Parking, setting' = setting, Len(rows') = Len(rows) + 1,
         Parking' \subseteq Parking, lost' \in Nat,
         (lost' = lost /\ w \notin Parking') \/ (lost' = lost + 1)
  PROVE  RoomKept'
<1>1. Cardinality(Parking') <= Cardinality(Parking)
  BY ParkingFinite, FS_Subset
<1>2. CASE lost' = lost /\ w \notin Parking'
  <2>1. Cardinality(Parking \ {w}) = Cardinality(Parking) - 1
    BY ParkingFinite, FS_RemoveElement
  <2>2. IsFiniteSet(Parking \ {w}) /\ Parking' \subseteq Parking \ {w}
    BY <1>2, ParkingFinite, FS_Subset
  <2>3. Cardinality(Parking') <= Cardinality(Parking) - 1
    BY <2>1, <2>2, FS_Subset
  <2> QED BY <1>2, <2>3, ParkingFinite, ParkingFiniteNext, SettingShape, RowsShape DEF RoomKept
<1>3. CASE lost' = lost + 1
  BY <1>1, <1>3, ParkingFinite, ParkingFiniteNext, SettingShape, RowsShape DEF RoomKept
<1> QED BY <1>2, <1>3

\* Who parks a row finds room for it.
LEMMA RoomLeft ==
  ASSUME TasksTypeOK, RoomKept, NEW w \in Parking
  PROVE  Len(rows) + 1 <= MaxRows
<1>1. Cardinality(Parking) >= 1
  BY ParkingFinite, FS_EmptySet, FS_CardinalityType
<1> QED BY <1>1, ParkingFinite, SettingShape, RowsShape DEF RoomKept

LEMMA ParkingMoves ==
  ASSUME NEW w \in Ids, Moves(w)
  PROVE  /\ Parking' \subseteq Parking \union {w}
         /\ w \in Parking' <=> run'[w].pc \in {"escalate", "park", "review"}
         /\ w \in Parking <=> run[w].pc \in {"escalate", "park", "review"}
BY DEF Parking, Moves

-----------------------------------------------------------------------------
(* The steps of a run                                                       *)

LEMMA StepResolveReRun ==
  ASSUME TasksTypeOK, WorkInv, NEW w \in Ids, ResolveReRun(w)
  PROVE  TasksTypeOK' /\ WorkInv' /\ Grown /\ Moves(w)
<1> DEFINE r == run[w].env.row
<1>1. RunOK(w) /\ Begun(w) /\ run[w].pc = "settle" /\ ChildOK(w) /\ RoomKept
  BY DEF WorkInv, ResolveReRun, Begun
<1>2. r \in DOMAIN rows /\ run[w].kind # "orchestrator"
  BY <1>1, Families, Names DEF RunOK, NameOK, StagesOf
<1>3. Goto(w, "ensure") /\ Settle(r)
  BY DEF ResolveReRun
<1>4. DataGrows
  BY <1>2, <1>3, SettleEffect DEF DataGrows, ResolveReRun, TasksTypeOK, Made
<1>5. TasksTypeOK' /\ Grown /\ Moves(w) /\ RunOK(w)'
  <2>1. "ensure" \in StagesOf(run[w].kind) \ {"settle"} /\ "ensure" \in Stages
    BY DEF StagesOf, Stages
  <2> QED BY <1>1, <1>3, <1>4, <2>1, GotoKeeps
<1>6. ChildOK(w)'
  BY <1>1, <1>2, <1>5, ChildLater
<1>7. RoomKept'
  <2>1. Len(rows') = Len(rows) /\ setting' = setting
    BY <1>2, <1>3, SettleEffect DEF ResolveReRun
  <2>2. lost' >= lost /\ run'[w].pc \in {"settle", "ensure"}
    BY <1>1, <1>3, GotoEffect, SettingShape DEF Stages
  <2>3. Parking' \subseteq Parking
    BY <1>5, <2>2, ParkingMoves
  <2> QED BY <1>1, <1>5, <2>1, <2>2, <2>3, RoomStays
<1>8. heard' = heard /\ task' = task /\ call' = call /\ DOMAIN rows' = DOMAIN rows
  BY <1>2, <1>3, SettleEffect DEF ResolveReRun
<1>9. WorkInv'
  BY <1>5, <1>6, <1>7, <1>8, MoveKeeps DEF Made
<1> QED BY <1>5, <1>9

LEMMA ChildGoes ==
  ASSUME TasksTypeOK, Grown, NEW w \in Ids, Moves(w), RunOK(w), ChildOK(w), Waiting(w),
         run[w].pc \in {"create", "begin"}, run'[w].pc \in {"create", "begin", "spawn"},
         run'[w].pc = "create" \/ Made(Child(w))'
  PROVE  ChildOK(w)'
<1>1. Child(w) \in Ids /\ Child(w) # w
  BY WaitingNames, ChildNames, Names
<1>2. ~Begun(Child(w))'
  BY <1>1 DEF ChildOK, Moves, Begun
<1> QED BY <1>2 DEF ChildOK

\* A run that goes on, tells its parent perhaps, and parks no row.
LEMMA QuietStep ==
  ASSUME TasksTypeOK, WorkInv, NEW w \in Ids, NEW pc \in Stages, Goto(w, pc),
         UNCHANGED <<setting, rows, call, crashed>>,
         run[w].pc \notin {"absent", "ensure", "ended"}, pc \in StagesOf(run[w].kind) \ {"settle"},
         run[w].pc = "settle" => pc = "ensure", run[w].pc = "reply" => pc = "ended",
         pc \in {"escalate", "park", "review"} => run[w].pc \in {"escalate", "park", "review"},
         heard' \in [Ids -> Ids \union {None}],
         \A v \in Ids : heard'[v] = heard[v] \/ (heard'[v] = w /\ RouteOK(run[w].kind, run[w].env.about, v)),
         task' \in [TaskIds -> Task], \A t \in TaskIds : Made(t) => Made(t)',
         \A t \in TaskIds : (task'[t].to = task[t].to /\ (Made(t)' => Made(t))) \/ TaskOK(t)',
         \/ run[w].kind # "orchestrator"
         \/ run[w].pc \notin {"create", "begin", "spawn"} /\ pc \notin {"ensure", "create", "begin", "spawn"}
         \/ run[w].pc = "create" /\ pc = "begin" /\ Made(Child(w))'
         \/ run[w].pc = "begin" /\ pc = "spawn"
  PROVE  TasksTypeOK' /\ WorkInv' /\ Grown /\ Moves(w)
<1>1. RunOK(w) /\ Begun(w) /\ ChildOK(w) /\ RoomKept
  BY DEF WorkInv, Begun
<1>2. DataGrows
  BY DEF DataGrows, TasksTypeOK
<1>3. TasksTypeOK' /\ Grown /\ Moves(w) /\ RunOK(w)'
  BY <1>1, <1>2, GotoKeeps
<1>4. ChildOK(w)'
  <2>1. CASE Waiting(w) /\ run[w].pc \in {"create", "begin"}
    <3>1. run'[w].pc \in {"create", "begin", "spawn"} /\ (run'[w].pc = "create" => run[w].pc = "create")
      BY <2>1, GotoEffect DEF Waiting
    <3>2. run[w].pc = "begin" => Made(Child(w))'
      BY <1>1, <1>3, <2>1, WaitingNames DEF ChildOK, Grown
    <3>3. run'[w].pc = "create" \/ Made(Child(w))'
      BY <2>1, <3>2, GotoEffect DEF Waiting
    <3> QED BY <1>1, <1>3, <2>1, <3>1, <3>3, ChildGoes
  <2>2. CASE ~(Waiting(w) /\ run[w].pc \in {"create", "begin"})
    BY <1>1, <1>3, <2>2, GotoEffect, ChildLater DEF Waiting
  <2> QED BY <2>1, <2>2
<1>5. \A v \in Ids : heard'[v] = heard[v] \/ HeardOK(v)'
  <2> SUFFICES ASSUME NEW v \in Ids, heard'[v] = w, RouteOK(run[w].kind, run[w].env.about, v)
               PROVE  HeardOK(v)'
    OBVIOUS
  <2>1. v # None /\ Begun(w)' /\ run'[w].kind = run[w].kind /\ run'[w].env = run[w].env /\ setting' = setting
    BY <1>3, Names DEF Moves, Grown
  <2>2. \/ v = Parent /\ (run[w].kind = "work" \/ Misrouted)
        \/ v = TriageOf(run[w].env.about) /\ run[w].kind = "triage"
    BY <2>1 DEF RouteOK
  <2>3. v = TriageOf(run[w].env.about) /\ run[w].kind = "triage"
          => v \in Triages /\ RowOf(v) = run[w].env.about
    <3>1. run[w].kind = "triage" => run[w].env.about \in RowIds
      BY <1>1, RowsShape DEF RunOK, EnvOK
    <3> QED BY <3>1, OfRow
  <2> QED BY <2>1, <2>2, <2>3 DEF HeardOK, Misrouted
<1>6. RoomKept'
  <2>1. lost' >= lost /\ (run'[w].pc \in {"escalate", "park", "review"}
                            => run[w].pc \in {"escalate", "park", "review"})
    BY GotoEffect, SettingShape
  <2>2. Parking' \subseteq Parking
    BY <1>3, <2>1, ParkingMoves
  <2> QED BY <1>1, <1>3, <2>1, <2>2, RoomStays
<1>7. call' = call /\ DOMAIN rows' = DOMAIN rows
  OBVIOUS
<1>8. WorkInv'
  BY <1>3, <1>4, <1>5, <1>6, <1>7, MoveKeeps
<1> QED BY <1>3, <1>8

\* A task that was made stays what it is when its status is set.
LEMMA SetTaskKeeps ==
  ASSUME TasksTypeOK, NEW t \in TaskIds, Made(t),
         NEW status \in {"in_progress", "needs_intervention", "completed"}, SetTask(t, status)
  PROVE  /\ task' \in [TaskIds -> Task] /\ (\A u \in TaskIds : Made(u) => Made(u)')
         /\ \A u \in TaskIds : task'[u].to = task[u].to /\ (Made(u)' => Made(u))
BY SetTaskEffect DEF Made

\* What is known of a run at a step after its task was ensured.
LEMMA EnsuredRun ==
  ASSUME TasksTypeOK, WorkInv, NEW w \in Ids, run[w].pc \notin {"absent", "settle", "ensure"}
  PROVE  /\ run[w].task \in TaskIds /\ Made(run[w].task)
         /\ RouteOK(run[w].kind, run[w].env.about, run[w].to)
         /\ run[w].pc \in StagesOf(run[w].kind) /\ run[w].kind \in Kinds
BY RunShape DEF WorkInv, RunOK, EnsuredOK, Begun

LEMMA StepEscalateTask ==
  ASSUME TasksTypeOK, WorkInv, NEW w \in Ids, EscalateTask(w)
  PROVE  TasksTypeOK' /\ WorkInv' /\ Grown /\ Moves(w)
<1>1. /\ run[w].pc = "escalate" /\ Goto(w, "park") /\ SetTask(run[w].task, "needs_intervention")
      /\ UNCHANGED <<setting, rows, heard, call, crashed>>
  BY DEF EscalateTask
<1>2. run[w].task \in TaskIds /\ Made(run[w].task) /\ "park" \in Stages
  BY <1>1, EnsuredRun DEF Stages
<1>3. "park" \in StagesOf(run[w].kind) \ {"settle"} /\ run[w].kind # "orchestrator"
  BY <1>1, EnsuredRun DEF StagesOf
<1>4. heard' \in [Ids -> Ids \union {None}]
  BY <1>1 DEF TasksTypeOK
<1> QED BY <1>1, <1>2, <1>3, <1>4, SetTaskKeeps, QuietStep

\* The first signal a parent gets comes along the routing of the run.
LEMMA SignalParentEffect ==
  ASSUME TasksTypeOK, NEW w \in Ids, RouteOK(run[w].kind, run[w].env.about, run[w].to), SignalParent(w)
  PROVE  /\ heard' \in [Ids -> Ids \union {None}]
         /\ \A v \in Ids : heard'[v] = heard[v] \/ (heard'[v] = w /\ RouteOK(run[w].kind, run[w].env.about, v))
         /\ \A v \in Ids : heard'[v] = heard[v] \/ (heard[v] = None /\ heard'[v] = w /\ v = run[w].to)
         /\ run[w].to # None => heard'[run[w].to] # None
<1>1. heard \in [Ids -> Ids \union {None}] /\ run[w].to \in Ids \union {None} /\ None \notin Ids
  BY RunShape, Names DEF TasksTypeOK
<1>2. \A v \in Ids : heard'[v] = heard[v] \/ (heard[v] = None /\ heard'[v] = w /\ v = run[w].to)
  BY <1>1 DEF SignalParent
<1>3. heard' \in [Ids -> Ids \union {None}]
  BY <1>1 DEF SignalParent
<1>4. run[w].to # None => heard'[run[w].to] # None
  BY <1>1 DEF SignalParent
<1> QED BY <1>2, <1>3, <1>4

LEMMA StepReply ==
  ASSUME TasksTypeOK, WorkInv, NEW w \in Ids, Reply(w)
  PROVE  TasksTypeOK' /\ WorkInv' /\ Grown /\ Moves(w)
<1>1. /\ run[w].pc = "reply" /\ Goto(w, "ended") /\ UNCHANGED <<setting, rows, call, crashed>>
      /\ \/ SignalParent(w) /\ task' = task
         \/ SetTask(run[w].task, "completed") /\ heard' = heard
  BY DEF Reply
<1>2. /\ run[w].task \in TaskIds /\ Made(run[w].task) /\ "ended" \in Stages
      /\ RouteOK(run[w].kind, run[w].env.about, run[w].to)
  BY <1>1, EnsuredRun DEF Stages
<1>3. "ended" \in StagesOf(run[w].kind) \ {"settle"}
  BY DEF StagesOf
<1>4. /\ heard' \in [Ids -> Ids \union {None}]
      /\ \A v \in Ids : heard'[v] = heard[v] \/ (heard'[v] = w /\ RouteOK(run[w].kind, run[w].env.about, v))
  BY <1>1, <1>2, SignalParentEffect DEF TasksTypeOK
<1>5. /\ task' \in [TaskIds -> Task] /\ (\A u \in TaskIds : Made(u) => Made(u)')
      /\ \A u \in TaskIds : task'[u].to = task[u].to /\ (Made(u)' => Made(u))
  <2>1. CASE task' = task
    BY <2>1 DEF Made, TasksTypeOK
  <2>2. CASE SetTask(run[w].task, "completed")
    BY <1>2, <2>2, SetTaskKeeps
  <2> QED BY <1>1, <2>1, <2>2
<1> QED BY <1>1, <1>2, <1>3, <1>4, <1>5, QuietStep

LEMMA StepCompletePlain ==
  ASSUME TasksTypeOK, WorkInv, NEW w \in Ids, CompletePlain(w)
  PROVE  TasksTypeOK' /\ WorkInv' /\ Grown /\ Moves(w)
<1>1. /\ run[w].pc = "complete" /\ SetTask(run[w].task, "completed")
      /\ UNCHANGED <<setting, rows, heard, call, crashed>>
  BY DEF CompletePlain
<1>2. PICK pc \in {"ended", "tell"} : Goto(w, pc)
  BY DEF CompletePlain
<1>3. run[w].task \in TaskIds /\ Made(run[w].task) /\ pc \in Stages
  BY <1>1, EnsuredRun DEF Stages
<1>4. pc \in StagesOf(run[w].kind) \ {"settle"} /\ run[w].kind # "orchestrator"
  BY <1>1, EnsuredRun DEF StagesOf
<1>5. heard' \in [Ids -> Ids \union {None}]
  BY <1>1 DEF TasksTypeOK
<1> QED BY <1>1, <1>2, <1>3, <1>4, <1>5, SetTaskKeeps, QuietStep

LEMMA StepTellParent ==
  ASSUME TasksTypeOK, WorkInv, NEW w \in Ids, TellParent(w)
  PROVE  TasksTypeOK' /\ WorkInv' /\ Grown /\ Moves(w)
<1>1. /\ run[w].pc = "tell" /\ Goto(w, "ended") /\ SignalParent(w)
      /\ UNCHANGED <<setting, rows, task, call, crashed>>
  BY DEF TellParent
<1>2. "ended" \in Stages /\ RouteOK(run[w].kind, run[w].env.about, run[w].to)
  BY <1>1, EnsuredRun DEF Stages
<1>3. "ended" \in StagesOf(run[w].kind) \ {"settle"} /\ run[w].kind # "orchestrator"
  BY <1>1, EnsuredRun DEF StagesOf
<1>4. task' \in [TaskIds -> Task] /\ \A u \in TaskIds : task'[u] = task[u] /\ (Made(u)' <=> Made(u))
  BY <1>1 DEF Made, TasksTypeOK
<1> QED BY <1>1, <1>2, <1>3, <1>4, SignalParentEffect, QuietStep

LEMMA StepCloseChildTask ==
  ASSUME TasksTypeOK, WorkInv, NEW w \in Ids, CloseChildTask(w)
  PROVE  TasksTypeOK' /\ WorkInv' /\ Grown /\ Moves(w)
<1>1. /\ run[w].pc = "close" /\ Goto(w, "reply") /\ SetTask(Child(w), "completed")
      /\ UNCHANGED <<setting, rows, heard, call, crashed>>
  BY DEF CloseChildTask
<1>2. Waiting(w)
  BY <1>1, EnsuredRun DEF Waiting, Begun, StagesOf, Kinds
<1>3. Child(w) \in TaskIds /\ Made(Child(w))
  BY <1>1, <1>2, WaitingNames DEF WorkInv, ChildOK
<1>4. "reply" \in StagesOf(run[w].kind) \ {"settle"} /\ "reply" \in Stages
  BY DEF StagesOf, Stages
<1>5. heard' \in [Ids -> Ids \union {None}]
  BY <1>1 DEF TasksTypeOK
<1> QED BY <1>1, <1>3, <1>4, <1>5, SetTaskKeeps, QuietStep

LEMMA StepBeginChildTask ==
  ASSUME TasksTypeOK, WorkInv, NEW w \in Ids, BeginChildTask(w)
  PROVE  TasksTypeOK' /\ WorkInv' /\ Grown /\ Moves(w)
<1>1. /\ run[w].pc = "begin" /\ Goto(w, "spawn") /\ SetTask(Child(w), "in_progress")
      /\ UNCHANGED <<setting, rows, heard, call, crashed>>
  BY DEF BeginChildTask
<1>2. Waiting(w)
  BY <1>1, EnsuredRun DEF Waiting, Begun, StagesOf, Kinds
<1>3. Child(w) \in TaskIds /\ Made(Child(w))
  BY <1>1, <1>2, WaitingNames DEF WorkInv, ChildOK
<1>4. "spawn" \in StagesOf(run[w].kind) \ {"settle"} /\ "spawn" \in Stages
  BY <1>2 DEF StagesOf, Stages, Waiting
<1>5. heard' \in [Ids -> Ids \union {None}]
  BY <1>1 DEF TasksTypeOK
<1> QED BY <1>1, <1>3, <1>4, <1>5, SetTaskKeeps, QuietStep

LEMMA StepCreateChildTask ==
  ASSUME TasksTypeOK, WorkInv, NEW w \in Ids, CreateChildTask(w)
  PROVE  TasksTypeOK' /\ WorkInv' /\ Grown /\ Moves(w)
<1>1. /\ run[w].pc = "create" /\ Goto(w, "begin") /\ CreateTask(Child(w), "pending", w)
      /\ UNCHANGED <<setting, rows, heard, call, crashed>>
  BY DEF CreateChildTask
<1>2. Waiting(w) /\ RunOK(w)
  BY <1>1, EnsuredRun DEF Waiting, Begun, StagesOf, Kinds, WorkInv
<1>3. Child(w) \in TaskIds /\ (w = Parent \/ w \in Triages)
  BY <1>2, WaitingNames
<1>4. "begin" \in StagesOf(run[w].kind) \ {"settle"} /\ "begin" \in Stages
  BY <1>2 DEF StagesOf, Stages, Waiting
<1>5. heard' \in [Ids -> Ids \union {None}]
  BY <1>1 DEF TasksTypeOK
<1>6. /\ task' \in [TaskIds -> Task] /\ Made(Child(w))'
      /\ \A u \in TaskIds : u # Child(w) => task'[u] = task[u]
      /\ task'[Child(w)] = task[Child(w)] \/ (~Made(Child(w)) /\ task'[Child(w)].to = w)
  BY <1>1, <1>3, CreateTaskEffect
<1>7. PICK t \in TaskIds : t = Child(w)
  BY <1>3
<1>8. ~Made(t) => TaskOK(t)'
  <2>1. task'[t] = task[t] \/ task'[t].to = w
    BY <1>6, <1>7
  <2>2. TaskOK(t) /\ t \notin Reruns \union Agains
    BY <1>3, <1>7, ChildNames, Names DEF WorkInv
  <2>3. CASE w = Parent
    <3>1. t = Work /\ setting.parent /\ setting' = setting
      BY <1>1, <1>2, <1>7, <2>3, ChildNames DEF WorkInv, FirstOK, Waiting
    <3>2. task'[t] = task[t] /\ ~Made(t) => ~Made(t)'
      BY DEF Made
    <3> QED BY <2>1, <2>2, <2>3, <3>1, <3>2 DEF TaskOK
  <2>4. CASE w \in Triages
    <3>1. w = TriageOf(RowOf(t)) /\ t \in Leaves /\ t # Work
      BY <1>7, <2>4, ChildNames, Families, OfRow, Names
    <3> QED BY <1>1, <2>1, <2>2, <3>1 DEF TaskOK, Misrouted
  <2> QED BY <1>3, <2>3, <2>4
<1>9. /\ \A u \in TaskIds : Made(u) => Made(u)'
      /\ \A u \in TaskIds : (task'[u].to = task[u].to /\ (Made(u)' => Made(u))) \/ TaskOK(u)'
  BY <1>6, <1>7, <1>8 DEF Made
<1> QED BY <1>1, <1>4, <1>5, <1>6, <1>9, QuietStep

\* The triage of work that is there, and the row its run is known by.
LEMMA TriageRun ==
  ASSUME TasksTypeOK, WorkInv, NEW w \in Ids, Begun(w), run[w].kind = "triage"
  PROVE  /\ run[w].env.orig = Work /\ Made(Work) /\ run[w].env.about \in DOMAIN rows
         /\ run[w].env.about \in RowIds /\ Begun(TriageOf(run[w].env.about))
         /\ rows[run[w].env.about].kind = "work"
         /\ TriageRow(w) \in RowIds
<1>1. RunOK(w)
  BY DEF WorkInv
<1>2. run[w].env.row \in RowIds \union {0}
  BY RunShape, SettingShape DEF RowIds
<1> QED BY <1>1, <1>2, RowsShape, Names DEF RunOK, EnvOK, TriageRow

LEMMA StepRecordAgain ==
  ASSUME TasksTypeOK, WorkInv, NEW w \in Ids, RecordAgain(w)
  PROVE  TasksTypeOK' /\ WorkInv' /\ Grown /\ Moves(w)
<1>1. /\ run[w].pc = "record" /\ Goto(w, "start") /\ CreateTask(StrayOf(TriageRow(w)), "pending", None)
      /\ UNCHANGED <<setting, rows, heard, call, crashed>>
  BY DEF RecordAgain, StrayOf
<1>2. run[w].kind = "triage" /\ Begun(w)
  BY <1>1, EnsuredRun DEF StagesOf, Kinds, Begun
<1>3. PICK t \in TaskIds \ Ids : t = StrayOf(TriageRow(w))
  BY <1>2, TriageRun, OfRow
<1>4. /\ task' \in [TaskIds -> Task]
      /\ \A u \in TaskIds : u # t => task'[u] = task[u]
      /\ Made(t)' /\ (task'[t] = task[t] \/ task'[t].to = None)
  BY <1>1, <1>3, CreateTaskEffect
<1>5. TaskOK(t)'
  <2>1. t \notin Reruns \union Agains /\ t # Work
    BY <1>3, Names
  <2>2. TaskOK(t) /\ setting' = setting
    BY <1>1 DEF WorkInv
  <2> QED BY <1>4, <2>1, <2>2 DEF TaskOK, Misrouted
<1>6. /\ \A u \in TaskIds : Made(u) => Made(u)'
      /\ \A u \in TaskIds : (task'[u].to = task[u].to /\ (Made(u)' => Made(u))) \/ TaskOK(u)'
  BY <1>4, <1>5 DEF Made
<1>7. "start" \in StagesOf(run[w].kind) \ {"settle"} /\ "start" \in Stages
  BY <1>2 DEF StagesOf, Stages
<1>8. heard' \in [Ids -> Ids \union {None}]
  BY <1>1 DEF TasksTypeOK
<1> QED BY <1>1, <1>2, <1>4, <1>6, <1>7, <1>8, QuietStep

\* A body ends, or a wait: nothing but the run changes.
LEMMA BodyStep ==
  ASSUME TasksTypeOK, WorkInv, NEW w \in Ids, NEW x \in Run, run' = [run EXCEPT ![w] = x],
         UNCHANGED <<setting, rows, task, heard, call, lost, crashed>>,
         x.kind = run[w].kind, x.env = run[w].env, x.task = run[w].task, x.to = run[w].to,
         run[w].pc \in {"body", "wait"},
         x.pc \in StagesOf(run[w].kind) \ {"settle", "ensure", "create", "begin", "spawn"},
         x.pc \in {"escalate", "park", "review"} => Room
  PROVE  TasksTypeOK' /\ WorkInv' /\ Grown /\ Moves(w)
<1>1. RunOK(w) /\ ChildOK(w) /\ RoomKept /\ run[w].pc \in StagesOf(run[w].kind)
  BY DEF WorkInv, RunOK, Begun
<1>2. run'[w] = x /\ (\A v \in Ids : v # w => run'[v] = run[v])
  BY DEF TasksTypeOK
<1>3. TasksTypeOK'
  BY DEF TasksTypeOK
<1>4. x.pc # "absent" /\ run[w].pc \notin {"absent", "settle", "ensure", "reply", "ended"}
  BY DEF StagesOf
<1>5. Moves(w)
  BY <1>2, <1>4 DEF Moves, Begun
<1>6. Grown
  <2>1. \A v \in Ids : Begun(v) => Begun(v)' /\ run'[v].kind = run[v].kind /\ run'[v].env = run[v].env
    BY <1>5 DEF Moves, Begun
  <2>2. \A v \in Ids : run[v].pc \in {"reply", "ended"} => run'[v].pc \in {"reply", "ended"}
    BY <1>2, <1>4
  <2> QED BY <2>1, <2>2 DEF Grown, Made
<1>7. RunOK(w)'
  <2>1. EnsuredOK(w)'
    BY <1>1, <1>2, <1>4, <1>5, <1>6, EnsuredKept DEF RunOK, Moves
  <2> QED BY <1>1, <1>2, <1>5, <1>6, <2>1, RunKept DEF Moves
<1>8. ChildOK(w)'
  BY <1>1, <1>2, <1>5, <1>6, ChildLater
<1>9. RoomKept'
  <2>1. CASE Room
    BY <1>1, <1>3, <1>5, <2>1, ParkingMoves, RoomTaken
  <2>2. CASE x.pc \notin {"escalate", "park", "review"}
    <3>1. Parking' \subseteq Parking
      BY <1>2, <1>5, <2>2, ParkingMoves
    <3> QED BY <1>1, <1>3, <3>1, SettingShape, RoomStays
  <2> QED BY <2>1, <2>2
<1>10. /\ call' = call /\ DOMAIN rows' = DOMAIN rows /\ heard' = heard
       /\ \A t \in TaskIds : task'[t].to = task[t].to /\ (Made(t)' => Made(t))
  BY DEF Made
<1> QED BY <1>3, <1>5, <1>6, <1>7, <1>8, <1>9, <1>10, MoveKeeps

LEMMA StepRunWork ==
  ASSUME TasksTypeOK, WorkInv, NEW w \in Ids, NEW o \in setting.outcomes, RunWork(w, o)
  PROVE  TasksTypeOK' /\ WorkInv' /\ Grown /\ Moves(w)
<1>1. o \in OutcomeKinds
  BY SettingShape DEF Setting
<1>2. PICK pc \in {"escalate", "complete", "reply"} :
        /\ run' = [run EXCEPT ![w].result = o, ![w].pc = pc]
        /\ pc = "escalate" => Room
  BY DEF RunWork
<1>3. run[w].pc = "body" /\ run[w].kind = "work" /\ UNCHANGED <<setting, rows, task, heard, call, lost, crashed>>
  BY DEF RunWork
<1> DEFINE x == [run[w] EXCEPT !.result = o, !.pc = pc]
<1>4. /\ x \in Run /\ x.pc = pc /\ x.kind = run[w].kind /\ x.env = run[w].env
      /\ x.task = run[w].task /\ x.to = run[w].to
  BY <1>1, RunShape DEF Run, Stages
<1>5. run' = [run EXCEPT ![w] = x]
  BY <1>2
<1>6. pc \in StagesOf(run[w].kind) \ {"settle", "ensure", "create", "begin", "spawn"}
  BY <1>3 DEF StagesOf
<1> HIDE DEF x
<1> QED BY <1>2, <1>3, <1>4, <1>5, <1>6, BodyStep

LEMMA StepRunTriage ==
  ASSUME TasksTypeOK, WorkInv, NEW w \in Ids, NEW f \in setting.findings, RunTriage(w, f)
  PROVE  TasksTypeOK' /\ WorkInv' /\ Grown /\ Moves(w)
<1>1. f \in FindingKinds
  BY SettingShape DEF Setting
<1>2. PICK pc \in {"escalate", "record", "review", "reply"} :
        /\ run' = [run EXCEPT ![w].result = f, ![w].pc = pc]
        /\ pc \in {"escalate", "review"} => Room
  BY <1>1 DEF RunTriage, FindingKinds
<1>3. run[w].pc = "body" /\ run[w].kind = "triage" /\ UNCHANGED <<setting, rows, task, heard, call, lost, crashed>>
  BY DEF RunTriage
<1> DEFINE x == [run[w] EXCEPT !.result = f, !.pc = pc]
<1>4. /\ x \in Run /\ x.pc = pc /\ x.kind = run[w].kind /\ x.env = run[w].env
      /\ x.task = run[w].task /\ x.to = run[w].to
  BY <1>1, RunShape DEF Run, Stages
<1>5. run' = [run EXCEPT ![w] = x]
  BY <1>2
<1>6. pc \in StagesOf(run[w].kind) \ {"settle", "ensure", "create", "begin", "spawn"}
  BY <1>3 DEF StagesOf
<1> HIDE DEF x
<1> QED BY <1>2, <1>3, <1>4, <1>5, <1>6, BodyStep

LEMMA StepResume ==
  ASSUME TasksTypeOK, WorkInv, NEW w \in Ids, Resume(w)
  PROVE  TasksTypeOK' /\ WorkInv' /\ Grown /\ Moves(w)
<1>1. /\ run[w].pc = "wait" /\ UNCHANGED <<setting, rows, task, heard, call, lost, crashed>>
      /\ run' = [run EXCEPT ![w].pc = "close", ![w].result = "return"]
  BY DEF Resume
<1>2. run[w].kind = "orchestrator"
  BY <1>1, EnsuredRun DEF StagesOf, Kinds
<1> DEFINE x == [run[w] EXCEPT !.pc = "close", !.result = "return"]
<1>3. /\ x \in Run /\ x.pc = "close" /\ x.kind = run[w].kind /\ x.env = run[w].env
      /\ x.task = run[w].task /\ x.to = run[w].to
  BY RunShape DEF Run, Stages, OutcomeKinds
<1>4. run' = [run EXCEPT ![w] = x]
  BY <1>1
<1>5. "close" \in StagesOf(run[w].kind) \ {"settle", "ensure", "create", "begin", "spawn"}
  BY <1>2 DEF StagesOf
<1> HIDE DEF x
<1> QED BY <1>1, <1>3, <1>4, <1>5, BodyStep

\* A row is parked, and the run goes on or parks it again.
LEMMA ParkStep ==
  ASSUME TasksTypeOK, WorkInv, NEW w \in Ids, NEW t \in TaskIds, NEW kind \in Kinds, NEW env \in Envelope,
         ParkRow(t, kind, env), NEW pc \in {"reply", "ended"}, Goto(w, pc),
         UNCHANGED <<setting, task, heard, call, crashed>>,
         run[w].pc \in {"park", "review"}, pc \in StagesOf(run[w].kind),
         kind # "orchestrator", env.row = 0, env.task = t, EnvOK(kind, env),
         kind = "work" => t = Work, kind = "triage" => t \in TriageTasks(env.about)
  PROVE  TasksTypeOK' /\ WorkInv' /\ Grown /\ Moves(w)
<1>1. RunOK(w) /\ ChildOK(w) /\ RoomKept /\ w \in Parking
  BY DEF WorkInv, Parking
<1>2. pc \in Stages /\ pc \in StagesOf(run[w].kind) \ {"settle"} /\ run[w].kind # "orchestrator"
  BY <1>1 DEF Stages, RunOK, Begun, StagesOf
<1>3. /\ rows' \in Seq(Escalation) /\ Len(rows') = Len(rows) + 1
      /\ DOMAIN rows' = DOMAIN rows \union {Len(rows) + 1}
      /\ \A q \in DOMAIN rows : rows'[q] = rows[q]
      /\ rows'[Len(rows) + 1] = [status |-> "pending", task |-> t, kind |-> kind, env |-> env]
  BY ParkRowEffect
<1>4. DataGrows
  BY <1>1, <1>3, RoomLeft DEF DataGrows, TasksTypeOK, Made
<1>5. TasksTypeOK' /\ Grown /\ Moves(w) /\ RunOK(w)'
  BY <1>1, <1>2, <1>4, GotoKeeps
<1>6. ChildOK(w)'
  BY <1>1, <1>2, <1>5, ChildLater
<1>7. RoomKept'
  <2>1. lost' \in Nat /\ ((lost' = lost /\ run'[w].pc = pc) \/ lost' = lost + 1)
    BY <1>2, GotoEffect, SettingShape
  <2>2. Parking' \subseteq Parking /\ (run'[w].pc = pc => w \notin Parking')
    BY <1>1, <1>5, ParkingMoves
  <2> QED BY <1>1, <1>3, <2>1, <2>2, RoomUsed
<1>8. \A r \in DOMAIN rows' \ DOMAIN rows : RowOK(r)'
  <2>1. EnvOK(kind, env)'
    BY <1>5, EnvKept
  <2>2. SUFFICES ASSUME NEW r, r = Len(rows) + 1 PROVE RowOK(r)'
    BY <1>3
  <2>3. rows'[r].kind = kind /\ rows'[r].env = env /\ rows'[r].task = t
    BY <1>3, <2>2
  <2>4. EnvOK(rows[r].kind, rows[r].env)'
    BY <2>1, <2>3 DEF EnvOK
  <2> QED BY <2>3, <2>4 DEF RowOK
<1>9. call' = call /\ heard' = heard /\ \A u \in TaskIds : task'[u].to = task[u].to /\ (Made(u)' => Made(u))
  BY DEF Made
<1> QED BY <1>5, <1>6, <1>7, <1>8, <1>9, MoveKeeps

LEMMA BareShape ==
  /\ BareEnvelope \in Envelope /\ BareEnvelope.task = None /\ BareEnvelope.to = None
  /\ BareEnvelope.row = 0 /\ BareEnvelope.orig = None /\ BareEnvelope.about = 0
BY TasksAssumption DEF BareEnvelope, Envelope

LEMMA StepParkEscalation ==
  ASSUME TasksTypeOK, WorkInv, NEW w \in Ids, ParkEscalation(w)
  PROVE  TasksTypeOK' /\ WorkInv' /\ Grown /\ Moves(w)
<1>1. /\ run[w].pc = "park" /\ ParkRow(run[w].task, run[w].kind, StoredEnvelope(w))
      /\ UNCHANGED <<setting, task, heard, call, crashed>>
  BY DEF ParkEscalation
<1>2. PICK pc \in {"reply", "ended"} : Goto(w, pc)
  BY DEF ParkEscalation
<1>3. RunOK(w) /\ Begun(w)
  BY <1>1 DEF WorkInv, Begun
<1>4. /\ run[w].kind \in {"work", "triage"} /\ pc \in StagesOf(run[w].kind)
  BY <1>1, EnsuredRun DEF StagesOf, Kinds
<1> DEFINE to == IF run[w].to # None THEN run[w].to ELSE run[w].env.to
<1>13. PICK zero \in 0..MaxRows : zero = 0
  BY TasksAssumption
<1> DEFINE e == [run[w].env EXCEPT !.task = run[w].task, !.to = to, !.row = zero]
<1>5. /\ e \in Envelope /\ e.row = 0 /\ e.task = run[w].task /\ e.orig = run[w].env.orig
      /\ e.about = run[w].env.about /\ e.to = to /\ e = StoredEnvelope(w)
  <2>1. PICK a \in Envelope, t \in TaskIds, o \in Ids \union {None} :
          a = run[w].env /\ t = run[w].task /\ o = to
    BY <1>1, EnsuredRun, RunShape
  <2>2. e = StoredEnvelope(w)
    BY <1>13 DEF StoredEnvelope
  <2> DEFINE x == [a EXCEPT !.task = t, !.to = o, !.row = zero]
  <2>3. e = x
    BY <2>1
  <2>4. x \in Envelope
    BY DEF Envelope
  <2>5. x.task = t /\ x.to = o /\ x.row = zero /\ x.orig = a.orig /\ x.about = a.about
    BY DEF Envelope
  <2> HIDE DEF to, e, x
  <2> QED BY <1>13, <2>1, <2>2, <2>3, <2>4, <2>5
<1>6. PICK env \in Envelope :
        /\ env = StoredEnvelope(w)
        /\ env.row = 0 /\ env.task = run[w].task /\ env.orig = run[w].env.orig /\ env.about = run[w].env.about
        /\ env.to = run[w].to \/ env.to = run[w].env.to
  <2> HIDE DEF e
  <2> QED BY <1>5
<1>7. EnsuredOK(w) /\ EnvOK(run[w].kind, run[w].env)
  BY <1>3 DEF RunOK
<1>8. EnvOK(run[w].kind, env)
  BY <1>1, <1>6, <1>7 DEF EnvOK, EnsuredOK
<1>9. /\ run[w].task \in TaskIds
      /\ run[w].kind = "work" => run[w].task = Work
      /\ run[w].kind = "triage" => run[w].task \in TriageTasks(run[w].env.about)
  BY <1>1, <1>7, EnsuredRun DEF EnsuredOK
<1>10. PICK k \in Kinds : k = run[w].kind
  BY RunShape
<1>11. EnvOK(k, env)
  BY <1>8, <1>10 DEF EnvOK
<1>12. PICK t \in TaskIds : t = run[w].task
  BY <1>9
<1>14. ParkRow(t, k, env)
  BY <1>1, <1>6, <1>10, <1>12
<1> QED BY <1>1, <1>2, <1>4, <1>6, <1>9, <1>10, <1>11, <1>12, <1>14, ParkStep

LEMMA OriginalShape ==
  ASSUME TasksTypeOK, WorkInv, NEW w \in Ids, Begun(w), run[w].kind = "triage"
  PROVE  LET x == OriginalEnvelope(w) IN
         /\ x \in Envelope /\ x.task = Work /\ x.to = task[Work].to
         /\ x.row = 0 /\ x.orig = None /\ x.about = 0
<1> DEFINE x == [BareEnvelope EXCEPT !.task = Work, !.to = task[Work].to]
<1>1. run[w].env.orig = Work /\ Work \in TaskIds
  BY TriageRun, Names
<1>2. task[Work].to \in Ids \union {None}
  BY <1>1 DEF TasksTypeOK, Task
<1>3. OriginalEnvelope(w) = x
  BY <1>1 DEF OriginalEnvelope
<1>4. x \in Envelope
  BY <1>1, <1>2, BareShape DEF Envelope
<1>5. x.task = Work /\ x.to = task[Work].to /\ x.row = 0 /\ x.orig = None /\ x.about = 0
  BY DEF BareEnvelope
<1> HIDE DEF x
<1> QED BY <1>3, <1>4, <1>5

LEMMA StepParkReview ==
  ASSUME TasksTypeOK, WorkInv, NEW w \in Ids, ParkReview(w)
  PROVE  TasksTypeOK' /\ WorkInv' /\ Grown /\ Moves(w)
<1>1. /\ run[w].pc = "review" /\ ParkRow(run[w].env.orig, "work", OriginalEnvelope(w)) /\ Goto(w, "reply")
      /\ UNCHANGED <<setting, task, heard, call, crashed>>
  BY DEF ParkReview
<1>2. run[w].kind = "triage" /\ Begun(w)
  BY <1>1, EnsuredRun DEF StagesOf, Kinds, Begun
<1>3. run[w].env.orig = Work /\ Made(Work) /\ Work \in TaskIds
  BY <1>2, TriageRun, Names
<1>4. TaskOK(Work) /\ task[Work].to \in Ids \union {None}
  BY <1>3 DEF WorkInv, TasksTypeOK, Task
<1>5. PICK env \in Envelope :
        /\ env = OriginalEnvelope(w)
        /\ env.row = 0 /\ env.task = Work /\ env.orig = None /\ env.about = 0 /\ env.to = task[Work].to
  BY <1>2, OriginalShape
<1>6. env.row = 0 /\ env.task = Work /\ env.orig = None /\ env.about = 0 /\ env.to = task[Work].to
  BY <1>5
<1>7. env.to = None \/ (env.to = Parent /\ setting.parent)
  BY <1>4, <1>6, Names DEF TaskOK
<1>8. EnvOK("work", env)
  BY <1>3, <1>6, <1>7 DEF EnvOK, RouteOK
<1>9. "work" \in Kinds /\ "reply" \in StagesOf(run[w].kind)
  BY DEF Kinds, StagesOf
<1> QED BY <1>1, <1>3, <1>5, <1>6, <1>8, <1>9, ParkStep

LEMMA StepEnsureTask ==
  ASSUME TasksTypeOK, WorkInv, NEW w \in Ids, EnsureTask(w)
  PROVE  TasksTypeOK' /\ WorkInv' /\ Grown /\ Moves(w)
<1>1. /\ run[w].pc = "ensure" /\ Begun(w) /\ UNCHANGED <<setting, rows, heard, call, crashed>>
      /\ run[w].kind \in Kinds /\ RunOK(w) /\ ChildOK(w) /\ RoomKept
  BY RunShape DEF EnsureTask, Begun, WorkInv
<1>2. PICK t \in TaskIds \union {None} : t = FoundTask(w)
  BY RunShape, Names DEF FoundTask
<1>3. NameOK(w) /\ EnvOK(run[w].kind, run[w].env) /\ w \in TaskIds /\ None \notin TaskIds
  BY <1>1, Names DEF RunOK
<1>4. \/ t = w /\ Made(w)
      \/ t = run[w].env.task /\ run[w].env.row # 0 /\ ~Made(w)
      \/ t = None /\ run[w].env.row = 0 /\ ~Made(w)
  BY <1>2, <1>3 DEF FoundTask, Made
<1>21. t # None => Made(t)
  BY <1>3, <1>4 DEF EnvOK
<1> DEFINE own == IF t = None THEN w ELSE t
<1>5. /\ own \in TaskIds /\ own # None
      /\ run[w].kind = "work" => own = Work
      /\ run[w].kind = "triage" => own \in TriageTasks(run[w].env.about)
      /\ run[w].kind = "orchestrator" => own = w /\ run[w].env.row = 0
      /\ Made(own) \/ (t = None /\ own = w)
      /\ t = None => run[w].env.row = 0
  <2>1. CASE run[w].kind = "work"
    <3>1. w = Work \/ w \in Reruns \union Agains
      BY <1>3, <2>1, Names DEF NameOK
    <3>2. w \in Reruns \union Agains => run[w].env.row # 0 /\ ~Made(w)
      BY <1>3, Families, RowsShape DEF NameOK, WorkInv, TaskOK, RowIds
    <3> QED BY <1>3, <1>4, <2>1, <3>1, <3>2, Names DEF EnvOK
  <2>2. CASE run[w].kind = "triage"
    <3>1. w \in Leaves \union Triages \union Reruns
      BY <1>3, <2>2, Names DEF NameOK
    <3>2. w \in Reruns => run[w].env.row # 0 /\ ~Made(w)
      BY <1>3, Families, RowsShape DEF NameOK, WorkInv, TaskOK, RowIds
    <3>3. w \in Leaves \union Triages => w \in TriageTasks(run[w].env.about) /\ run[w].env.row = 0
      BY <1>3, Families, Names DEF TriageTasks, NameOK
    <3>4. TriageTasks(run[w].env.about) \subseteq TaskIds
      BY <1>1, <2>2, TriageRun, OfRow, Names DEF TriageTasks
    <3> QED BY <1>3, <1>4, <2>2, <3>1, <3>2, <3>3, <3>4 DEF EnvOK
  <2>3. CASE run[w].kind = "orchestrator"
    <3>1. run[w].env.row = 0
      BY <1>3, <2>3, Names DEF NameOK
    <3> QED BY <1>2, <1>3, <1>4, <2>3, <3>1
  <2> QED BY <1>1, <2>1, <2>2, <2>3 DEF Kinds
<1> HIDE DEF own
<1>6. PICK to \in Ids \union {None} :
        /\ to = Routing(w)
        /\ to = run[w].env.to \/ (t # None /\ t = own /\ to = task[t].to /\ to # None)
        /\ t # None /\ task[t].to # None => to = task[t].to
  BY <1>2, RunShape DEF Routing, TasksTypeOK, Task, own
<1>7. RouteOK(run[w].kind, run[w].env.about, to)
  <2>1. CASE to = run[w].env.to
    BY <1>3, <2>1 DEF EnvOK
  <2>2. CASE t = own /\ to = task[own].to /\ to # None
    <3>1. TaskOK(own)
      BY <1>5 DEF WorkInv
    <3>2. CASE own = Work /\ to = Parent /\ setting.parent
      <4>1. run[w].kind = "work"
        <5>1. Work \notin TriageTasks(run[w].env.about) \/ run[w].kind # "triage"
          BY <1>1, TriageRun, OfRow, Names DEF TriageTasks
        <5>2. run[w].kind = "orchestrator" => w # Work
          BY <1>3 DEF NameOK
        <5> QED BY <1>1, <1>5, <3>2, <5>1, <5>2 DEF Kinds
      <4> QED BY <3>2, <4>1 DEF RouteOK
    <3>3. CASE own \in Leaves /\ to = TriageOf(RowOf(own))
      <4>1. run[w].kind = "triage"
        <5>1. run[w].kind # "orchestrator"
          BY <1>3, <1>5, <3>3, Names DEF NameOK
        <5> QED BY <1>1, <1>5, <3>3, <5>1, Names DEF Kinds
      <4>2. RowOf(own) = run[w].env.about
        BY <1>1, <1>5, <4>1, TriageRun, OfRow DEF TriageTasks
      <4> QED BY <3>3, <4>1, <4>2 DEF RouteOK
    <3>4. CASE own \in Triages /\ to = Parent /\ Misrouted
      BY <1>5, <3>4, Names DEF RouteOK
    <3> QED BY <2>2, <3>1, <3>2, <3>3, <3>4 DEF TaskOK
  <2> QED BY <1>6, <2>1, <2>2
<1>8. run[w].kind = "work" /\ setting.parent => to = Parent
  <2> SUFFICES ASSUME run[w].kind = "work", setting.parent PROVE to = Parent
    OBVIOUS
  <2>1. own = Work
    BY <1>5
  <2>2. Made(Work) /\ t # None
    <3>1. w = Work => Made(Work)
      BY <1>1 DEF WorkInv, FirstOK
    <3> QED BY <1>4, <1>5, <2>1, <3>1 DEF own
  <2>3. TaskOK(Work)
    BY <2>1, <1>5 DEF WorkInv
  <2> QED BY <1>6, <2>1, <2>2, <2>3, Names DEF TaskOK, own
<1>9. PICK pc \in {"create", "body"} :
        /\ Proceed(w, [run[w] EXCEPT !.pc = pc, !.task = own, !.to = to])
        /\ pc = IF run[w].kind = "orchestrator" THEN "create" ELSE "body"
  BY <1>2, <1>6 DEF EnsureTask, own
<1>10. /\ run' \in [Ids -> Run]
       /\ \A v \in Ids : v # w => run'[v] = run[v]
       /\ run'[w].kind = run[w].kind /\ run'[w].env = run[w].env
       /\ \/ /\ run'[w].pc = pc /\ run'[w].task = own /\ run'[w].to = to /\ lost' = lost
          \/ run'[w] = run[w] /\ lost' = lost + 1 /\ lost < setting.losses
  <2> DEFINE x == [run[w] EXCEPT !.pc = pc, !.task = own, !.to = to]
  <2>1. /\ x \in Run /\ x.kind = run[w].kind /\ x.env = run[w].env
        /\ x.pc = pc /\ x.task = own /\ x.to = to
    BY <1>5, RunShape DEF Run, Stages
  <2>2. Proceed(w, x)
    BY <1>9
  <2> HIDE DEF x
  <2> QED BY <2>1, <2>2 DEF Proceed, TasksTypeOK
<1>11. /\ task' \in [TaskIds -> Task]
       /\ \A u \in TaskIds : u # w => task'[u] = task[u]
       /\ Made(w) => task'[w].to = task[w].to
       /\ ~Made(w) => task'[w] = task[w] \/ (t = None /\ task'[w].to = None)
       /\ Made(w) => Made(w)'
       /\ Made(w)' => Made(w) \/ t = None
       /\ t = None => Made(w)'
  <2>1. CASE t = None /\ CreateTask(w, "in_progress", None)
    BY <1>3, <2>1, CreateTaskEffect
  <2>2. CASE t = w /\ SetTask(w, "in_progress")
    BY <1>3, <1>21, <2>2, SetTaskKeeps, SetTaskEffect
  <2>3. CASE t # None /\ task' = task
    BY <2>3 DEF TasksTypeOK, Made
  <2> QED BY <1>2, <2>1, <2>2, <2>3 DEF EnsureTask
<1>12. TasksTypeOK'
  BY <1>1, <1>10, <1>11, SettingShape DEF TasksTypeOK
<1>13. Moves(w)
  BY <1>1, <1>10 DEF Moves, Begun
<1>14. Grown
  <2>1. \A v \in Ids : Begun(v) => Begun(v)' /\ run'[v].kind = run[v].kind /\ run'[v].env = run[v].env
    BY <1>13 DEF Moves, Begun
  <2>2. \A v \in Ids : run[v].pc \in {"reply", "ended"} => run'[v].pc \in {"reply", "ended"}
    BY <1>1, <1>10
  <2>3. \A u \in TaskIds : Made(u) => Made(u)'
    BY <1>11 DEF Made
  <2> QED BY <1>1, <2>1, <2>2, <2>3 DEF Grown
<1>15. RunOK(w)'
  <2>1. EnsuredOK(w)'
    <3>1. CASE run'[w].pc = "ensure"
      BY <3>1 DEF EnsuredOK
    <3>2. CASE run'[w].task = own /\ run'[w].to = to
      <4>1. Made(own)'
        BY <1>5, <1>11, <1>14 DEF Grown
      <4>2. RouteOK(run[w].kind, run[w].env.about, run[w].to)'
        BY <1>1, <1>7, <1>10, <3>2 DEF RouteOK, Misrouted
      <4> QED BY <1>1, <1>5, <1>8, <1>10, <3>2, <4>1, <4>2 DEF EnsuredOK
    <3> QED BY <1>1, <1>10, <3>1, <3>2
  <2>2. run'[w].pc \in StagesOf(run[w].kind) /\ run'[w].pc # "settle"
    BY <1>1, <1>9, <1>10 DEF StagesOf, Kinds
  <2> QED BY <1>1, <1>14, <2>1, <2>2, RunKept
<1>16. ChildOK(w)'
  <2>1. CASE Waiting(w)
    <3>1. Child(w) \in Ids /\ Child(w) # w
      BY <1>1, <2>1, WaitingNames, ChildNames, Names
    <3>2. ~Begun(Child(w))' /\ run'[w].pc \in {"ensure", "create"}
      BY <1>1, <1>9, <1>10, <2>1, <3>1 DEF ChildOK, Begun, Waiting
    <3> QED BY <3>2 DEF ChildOK
  <2>2. CASE ~Waiting(w)
    BY <1>1, <1>10, <2>2 DEF ChildOK, Waiting
  <2> QED BY <2>1, <2>2
<1>17. \A u \in TaskIds : (task'[u].to = task[u].to /\ (Made(u)' => Made(u))) \/ TaskOK(u)'
  <2>1. \A u \in TaskIds : u # w => task'[u].to = task[u].to /\ (Made(u)' => Made(u))
    BY <1>11 DEF Made
  <2>2. CASE Made(w)
    BY <1>11, <2>1, <2>2
  <2>3. CASE ~Made(w) /\ t # None
    BY <1>11, <2>1, <2>3
  <2>4. CASE t = None
    <3>1. w \notin Reruns \union Agains
      BY <1>3, <1>5, <2>4, RowsShape, Families DEF NameOK, RowIds
    <3>2. w = Work /\ setting.parent => Made(w)
      BY <1>1 DEF WorkInv, FirstOK
    <3>3. TaskOK(w)
      BY <1>3 DEF WorkInv
    <3>4. task'[w].to = task[w].to \/ task'[w].to = None
      BY <1>11
    <3>5. w = Work /\ setting.parent => task'[w].to = task[w].to /\ setting' = setting
      BY <1>1, <1>11, <3>2
    <3>6. TaskOK(w)'
      BY <1>1, <3>1, <3>2, <3>3, <3>4, <3>5 DEF TaskOK, Misrouted
    <3> QED BY <2>1, <3>6
  <2> QED BY <2>2, <2>3, <2>4
<1>18. RoomKept'
  <2>1. lost' >= lost /\ run'[w].pc \notin {"escalate", "park", "review"}
    BY <1>1, <1>10, SettingShape
  <2>2. Parking' \subseteq Parking
    BY <1>13, <2>1, ParkingMoves
  <2> QED BY <1>1, <1>12, <2>1, <2>2, RoomStays
<1>19. call' = call /\ heard' = heard /\ DOMAIN rows' = DOMAIN rows
  BY <1>1
<1>20. WorkInv'
  BY <1>12, <1>13, <1>14, <1>15, <1>16, <1>17, <1>18, <1>19, MoveKeeps
<1> QED BY <1>12, <1>13, <1>14, <1>20

-----------------------------------------------------------------------------
(* A workflow is started                                                    *)

\* What is left to show when a workflow is started, or a request goes on.
LEMMA Assemble ==
  ASSUME TasksTypeOK, TasksTypeOK', WorkInv, Grown,
         \A v \in Ids : (run'[v] = run[v] \/ RunOK(v)') /\ ChildOK(v)',
         heard' = heard, DOMAIN rows' = DOMAIN rows,
         \A t \in TaskIds : (task'[t].to = task[t].to /\ (Made(t)' => Made(t))) \/ TaskOK(t)',
         \A r \in RowIds : \/ call'[r] = call[r] /\ (Begun(TriageOf(r))' => Begun(TriageOf(r)))
                          \/ CallOK(r)',
         \A r \in RowIds : (Begun(AgainOf(r))' => Begun(AgainOf(r))) \/ AgainOK(r)',
         Begun(Parent)' => Begun(Parent), Begun(Work)' => Begun(Work) \/ Made(Work)',
         RoomKept'
  PROVE  WorkInv'
<1>1. ASSUME NEW v \in Ids PROVE RunOK(v)' /\ HeardOK(v)'
  BY RunStays, HeardKept DEF WorkInv
<1>2. ASSUME NEW r \in DOMAIN rows' PROVE RowOK(r)'
  BY RowKept DEF WorkInv
<1>3. ASSUME NEW t \in TaskIds PROVE TaskOK(t)'
  BY DEF WorkInv, TaskOK, Grown, Misrouted
<1>4. ASSUME NEW r \in RowIds PROVE CallOK(r)' /\ AgainOK(r)'
  BY CallKept, AgainKept DEF WorkInv
<1>5. FirstOK'
  BY Names DEF WorkInv, FirstOK, Grown
<1> QED BY <1>1, <1>2, <1>3, <1>4, <1>5 DEF WorkInv

LEMMA StartedRunOK ==
  ASSUME TasksTypeOK, Grown, NEW c \in Ids, NEW kind \in Kinds, NEW env \in Envelope,
         run'[c] = Started(kind, env), NameOK(c)', EnvOK(kind, env)',
         kind = "orchestrator" => env.row = 0
  PROVE  RunOK(c)'
<1>1. /\ run'[c].kind = kind /\ run'[c].env = env
      /\ run'[c].pc = IF env.row = 0 THEN "ensure" ELSE "settle"
  BY StartedShape
<1>2. EnsuredOK(c)'
  BY <1>1 DEF EnsuredOK
<1>3. EnvOK(run[c].kind, run[c].env)'
  BY <1>1 DEF EnvOK
<1>4. run'[c].pc \in StagesOf(kind) /\ (run'[c].pc = "settle" => env.row # 0)
  BY <1>1 DEF StagesOf, Kinds
<1> QED BY <1>1, <1>2, <1>3, <1>4 DEF RunOK

\* A request starts at most its re-run or its triage.
LEMMA RequestKeeps ==
  ASSUME TasksTypeOK, TasksTypeOK', WorkInv, Grown, NEW c \in Triages \union Reruns,
         \A v \in Ids : v # c => run'[v] = run[v],
         run'[c] = run[c] \/ (~Begun(c) /\ RunOK(c)' /\ run'[c].pc \in {"ensure", "settle"}),
         heard' = heard, DOMAIN rows' = DOMAIN rows, lost' = lost,
         \A t \in TaskIds : (task'[t].to = task[t].to /\ (Made(t)' => Made(t))) \/ TaskOK(t)',
         \A r \in RowIds : \/ call'[r] = call[r] /\ (Begun(TriageOf(r))' => Begun(TriageOf(r)))
                          \/ CallOK(r)'
  PROVE  WorkInv'
<1>1. c \in Ids /\ c # Parent /\ c # Work /\ c \notin Leaves \union Agains
  BY Names
<1>2. ASSUME NEW v \in Ids PROVE ChildOK(v)'
  <2>1. RunOK(v) /\ ChildOK(v)
    BY DEF WorkInv
  <2>2. CASE run'[v] = run[v]
    <3>1. Waiting(v) => Child(v) \in Ids /\ Child(v) # c
      BY <1>1, <2>1, WaitingNames, ChildNames
    <3>2. Waiting(v) => (Begun(Child(v))' => Begun(Child(v)))
      BY <3>1 DEF Begun
    <3> QED BY <2>1, <2>2, <3>2, ChildStays DEF Waiting, Begun
  <2>3. CASE v = c /\ ~Begun(c) /\ RunOK(c)' /\ run'[c].pc \in {"ensure", "settle"}
    <3>1. CASE Waiting(c)'
      <4>1. c \in Triages /\ run'[c].pc = "ensure"
        BY <1>1, <2>3, <3>1 DEF RunOK, NameOK, Waiting, StagesOf
      <4>2. Child(c) \in Leaves /\ Child(c) \in Ids /\ TriageOf(RowOf(Child(c))) = c /\ Child(c) # c
        BY <1>1, <4>1, ChildNames, Families, OfRow, Names
      <4>3. ~Begun(Child(c))
        BY <2>3, <4>2 DEF WorkInv, RunOK, NameOK
      <4>4. ~Begun(Child(c))'
        BY <4>2, <4>3 DEF Begun
      <4> QED BY <2>3, <4>1, <4>4 DEF ChildOK
    <3>2. CASE ~Waiting(c)'
      BY <2>3, <3>2 DEF ChildOK
    <3> QED BY <3>1, <3>2
  <2> QED BY <2>2, <2>3
<1>3. \A r \in RowIds : Begun(AgainOf(r))' => Begun(AgainOf(r))
  <2>1. \A r \in RowIds : AgainOf(r) \in Ids /\ AgainOf(r) # c
    BY <1>1, OfRow, Names
  <2> QED BY <2>1 DEF Begun
<1>4. (Begun(Parent)' => Begun(Parent)) /\ (Begun(Work)' => Begun(Work))
  BY <1>1, Names DEF Begun
<1>5. RoomKept'
  <2>1. Parking' \subseteq Parking
    BY DEF Parking
  <2>2. Len(rows') = Len(rows) /\ setting' = setting
    <3>1. rows' \in Seq(Escalation) /\ rows \in Seq(Escalation)
      BY DEF TasksTypeOK
    <3>2. DOMAIN rows = 1..Len(rows) /\ DOMAIN rows' = 1..Len(rows') /\ Len(rows) \in Nat /\ Len(rows') \in Nat
      BY <3>1, LenProperties
    <3> QED BY <3>2 DEF Grown
  <2>3. RoomKept /\ lost' >= lost
    BY SettingShape DEF WorkInv
  <2> QED BY <2>1, <2>2, <2>3, RoomStays
<1> QED BY <1>2, <1>3, <1>4, <1>5, Assemble

LEMMA RequestGrown ==
  ASSUME TasksTypeOK, NEW c \in Ids, \A v \in Ids : v # c => run'[v] = run[v],
         run'[c] = run[c] \/ ~Begun(c),
         setting' = setting, DOMAIN rows' = DOMAIN rows,
         \A r \in DOMAIN rows : /\ rows'[r].kind = rows[r].kind /\ rows'[r].task = rows[r].task
                               /\ rows'[r].env = rows[r].env,
         \A t \in TaskIds : Made(t) => Made(t)'
  PROVE  Grown
BY DEF Grown, Begun

\* The other rows' requests, and this one's other ways, stand where they stood.
LEMMA CallMoves ==
  ASSUME TasksTypeOK, NEW r \in RowIds, NEW way \in Ways,
         NEW pc \in {"idle", "create", "start", "settle", "done"}, CallTo(r, way, pc)
  PROVE  /\ call' \in [RowIds -> [Ways -> {"idle", "create", "start", "settle", "done"}]]
         /\ \A q \in RowIds : q # r => call'[q] = call[q]
         /\ call'[r][way] = pc /\ \A u \in Ways : u # way => call'[r][u] = call[r][u]
BY DEF CallTo, TasksTypeOK

LEMMA WayNames == Ways = {"rerun", "triage", "bulk"}
BY DEF Ways

LEMMA AskAnswer ==
  ASSUME TasksTypeOK, WorkInv, NEW r \in RowIds, NEW way \in Ways, Answer(r, way)
  PROVE  TasksTypeOK' /\ WorkInv' /\ Grown
<1>1. PICK pc \in {"create", "start"} : CallTo(r, way, pc) /\ pc = IF way = "rerun" THEN "start" ELSE "create"
  BY DEF Answer
<1>2. /\ UNCHANGED <<setting, rows, task, run, heard, lost, crashed>> /\ way # "bulk" /\ r \in DOMAIN rows
      /\ way = "triage" => rows[r].kind = "work"
  BY DEF Answer, Pending
<1>3. TasksTypeOK'
  BY <1>1, <1>2, CallMoves DEF TasksTypeOK
<1>4. TriageOf(r) \in Triages /\ TriageOf(r) \in Ids
  BY OfRow, Names
<1>5. Grown
  BY <1>2, <1>4, RequestGrown DEF Made
<1>6. CallOK(r)'
  <2>1. CallOK(r)
    BY DEF WorkInv
  <2>2. Begun(TriageOf(r))' = Begun(TriageOf(r)) /\ Made(TriageOf(r))' = Made(TriageOf(r))
    BY <1>2 DEF Begun, Made
  <2> QED BY <1>1, <1>2, <2>1, <2>2, CallMoves, WayNames DEF CallOK, At
<1>7. WorkInv'
  <2>1. \A t \in TaskIds : task'[t].to = task[t].to /\ (Made(t)' => Made(t))
    BY <1>2 DEF Made
  <2>2. \A q \in RowIds : q # r => call'[q] = call[q] /\ (Begun(TriageOf(q))' => Begun(TriageOf(q)))
    BY <1>1, <1>2, CallMoves DEF Begun
  <2> QED BY <1>2, <1>3, <1>4, <1>5, <1>6, <2>1, <2>2, RequestKeeps
<1> QED BY <1>3, <1>5, <1>7

LEMMA CrashRequest ==
  ASSUME TasksTypeOK, WorkInv, NEW r \in RowIds, NEW way \in Ways, Crash(r, way)
  PROVE  TasksTypeOK' /\ WorkInv' /\ Grown
<1>1. CallTo(r, way, "idle") /\ UNCHANGED <<setting, rows, task, run, heard, lost>>
  BY DEF Crash
<1>2. TasksTypeOK'
  BY <1>1, CallMoves, SettingShape DEF TasksTypeOK, Crash, Setting
<1>3. TriageOf(r) \in Triages /\ TriageOf(r) \in Ids
  BY OfRow, Names
<1>4. Grown
  BY <1>1, <1>3, RequestGrown DEF Made
<1>5. CallOK(r)'
  <2>1. CallOK(r)
    BY DEF WorkInv
  <2>2. Begun(TriageOf(r))' = Begun(TriageOf(r)) /\ Made(TriageOf(r))' = Made(TriageOf(r))
    BY <1>1 DEF Begun, Made
  <2> QED BY <1>1, <2>1, <2>2, CallMoves, WayNames DEF CallOK, At
<1>6. WorkInv'
  <2>1. \A t \in TaskIds : task'[t].to = task[t].to /\ (Made(t)' => Made(t))
    BY <1>1 DEF Made
  <2>2. \A q \in RowIds : q # r => call'[q] = call[q] /\ (Begun(TriageOf(q))' => Begun(TriageOf(q)))
    BY <1>1, CallMoves DEF Begun
  <2> QED BY <1>1, <1>2, <1>3, <1>4, <1>5, <2>1, <2>2, RequestKeeps
<1> QED BY <1>2, <1>4, <1>6

\* A row is settled by the request that triages it.
LEMMA SettlingRequest ==
  ASSUME TasksTypeOK, WorkInv, NEW r \in DOMAIN rows, NEW way \in {"triage", "bulk"},
         NEW pc \in {"create", "done"}, CallTo(r, way, pc), Settle(r),
         UNCHANGED <<setting, task, run, heard, lost, crashed>>,
         rows[r].kind = "work", way = "bulk" => "bulk" \in setting.ways /\ pc = "create",
         way = "triage" => At(r, "triage", "settle")
  PROVE  TasksTypeOK' /\ WorkInv' /\ Grown
<1>1. r \in RowIds /\ TriageOf(r) \in Triages /\ TriageOf(r) \in Ids /\ way \in Ways
  BY RowsShape, OfRow, Names DEF Ways
<1>2. TasksTypeOK'
  BY <1>1, SettleEffect, CallMoves DEF TasksTypeOK
<1>3. Grown
  BY <1>1, SettleEffect, RequestGrown DEF Made
<1>4. CallOK(r)'
  <2>1. CallOK(r)
    BY <1>1 DEF WorkInv
  <2>2. Begun(TriageOf(r))' = Begun(TriageOf(r)) /\ Made(TriageOf(r))' = Made(TriageOf(r))
    BY DEF Begun, Made
  <2>3. rows'[r].kind = "work" /\ r \in DOMAIN rows'
    BY SettleEffect
  <2> QED BY <1>1, <2>1, <2>2, <2>3, CallMoves, WayNames DEF CallOK, At
<1>5. WorkInv'
  <2>1. \A t \in TaskIds : task'[t].to = task[t].to /\ (Made(t)' => Made(t))
    BY DEF Made
  <2>2. \A q \in RowIds : q # r => call'[q] = call[q] /\ (Begun(TriageOf(q))' => Begun(TriageOf(q)))
    BY <1>1, CallMoves DEF Begun
  <2>3. DOMAIN rows' = DOMAIN rows
    BY SettleEffect
  <2> QED BY <1>1, <1>2, <1>3, <1>4, <2>1, <2>2, <2>3, RequestKeeps
<1> QED BY <1>2, <1>3, <1>5

LEMMA ServeSettleTriaged ==
  ASSUME TasksTypeOK, WorkInv, NEW r \in RowIds, SettleTriaged(r)
  PROVE  TasksTypeOK' /\ WorkInv' /\ Grown
<1>1. CallOK(r) /\ At(r, "triage", "settle")
  BY DEF WorkInv, SettleTriaged
<1>2. r \in DOMAIN rows /\ rows[r].kind = "work"
  BY <1>1, WayNames DEF CallOK, At
<1> QED BY <1>1, <1>2, SettlingRequest DEF SettleTriaged

LEMMA AskBulkResolve ==
  ASSUME TasksTypeOK, WorkInv, NEW r \in RowIds, BulkResolve(r)
  PROVE  TasksTypeOK' /\ WorkInv' /\ Grown
BY SettlingRequest DEF BulkResolve, Pending

\* A triage's task is made with the routing the request may hand it.
LEMMA TaskRequest ==
  ASSUME TasksTypeOK, WorkInv, NEW r \in RowIds, NEW way \in {"triage", "bulk"},
         NEW to \in Ids \union {None}, CreateTask(TriageOf(r), "pending", to), CallTo(r, way, "start"),
         At(r, way, "create"), to = None \/ (to = Parent /\ Misrouted),
         UNCHANGED <<setting, rows, run, heard, lost, crashed>>
  PROVE  TasksTypeOK' /\ WorkInv' /\ Grown
<1>1. TriageOf(r) \in Triages /\ TriageOf(r) \in Ids /\ TriageOf(r) \in TaskIds /\ way \in Ways
  BY OfRow, Names DEF Ways
<1>2. PICK t \in Triages : t = TriageOf(r) /\ t \in TaskIds /\ t # Work /\ t \notin Reruns \union Agains
  BY <1>1, Names
<1>3. /\ task' \in [TaskIds -> Task]
      /\ \A u \in TaskIds : u # t => task'[u] = task[u]
      /\ Made(t)' /\ (task'[t].to = task[t].to \/ task'[t].to = to)
  BY <1>2, CreateTaskEffect
<1>4. TasksTypeOK'
  BY <1>1, <1>3, CallMoves DEF TasksTypeOK
<1>5. \A u \in TaskIds : Made(u) => Made(u)'
  BY <1>3 DEF Made
<1>6. Grown
  BY <1>1, <1>5, RequestGrown
<1>7. CallOK(r)'
  <2>1. CallOK(r)
    BY DEF WorkInv
  <2>2. Begun(TriageOf(r))' = Begun(TriageOf(r)) /\ Made(TriageOf(r))'
    BY <1>2, <1>3 DEF Begun
  <2> QED BY <1>1, <2>1, <2>2, CallMoves, WayNames DEF CallOK, At
<1>8. TaskOK(t)'
  <2>1. TaskOK(t)
    BY <1>2 DEF WorkInv
  <2> QED BY <1>2, <1>3, <2>1 DEF TaskOK, Misrouted
<1>9. WorkInv'
  <2>1. \A u \in TaskIds : (task'[u].to = task[u].to /\ (Made(u)' => Made(u))) \/ TaskOK(u)'
    BY <1>3, <1>8 DEF Made
  <2>2. \A q \in RowIds : q # r => call'[q] = call[q] /\ (Begun(TriageOf(q))' => Begun(TriageOf(q)))
    BY <1>1, CallMoves DEF Begun
  <2> QED BY <1>1, <1>4, <1>6, <1>7, <2>1, <2>2, RequestKeeps
<1> QED BY <1>4, <1>6, <1>9

LEMMA ServeCreateTriageTask ==
  ASSUME TasksTypeOK, WorkInv, NEW r \in RowIds, CreateTriageTask(r)
  PROVE  TasksTypeOK' /\ WorkInv' /\ Grown
BY TaskRequest DEF CreateTriageTask

LEMMA ServeBulkCreateTask ==
  ASSUME TasksTypeOK, WorkInv, NEW r \in RowIds, BulkCreateTask(r)
  PROVE  TasksTypeOK' /\ WorkInv' /\ Grown
<1>1. /\ At(r, "bulk", "create") /\ CreateTask(TriageOf(r), "pending", task[rows[r].task].to)
      /\ CallTo(r, "bulk", "start") /\ UNCHANGED <<setting, rows, run, heard, lost, crashed>>
  BY DEF BulkCreateTask
<1>2. r \in DOMAIN rows /\ rows[r].kind = "work" /\ "bulk" \in setting.ways
  BY <1>1, WayNames DEF WorkInv, CallOK, At
<1>3. rows[r].task = Work /\ TaskOK(Work) /\ task[Work].to \in Ids \union {None}
  BY <1>2, Names DEF WorkInv, RowOK, TasksTypeOK, Task
<1>4. task[Work].to = None \/ (task[Work].to = Parent /\ Misrouted)
  BY <1>2, <1>3, Names DEF TaskOK, Misrouted
<1> QED BY <1>1, <1>3, <1>4, TaskRequest

\* A row of the work, and what a triage of it starts from.
LEMMA WorkRow ==
  ASSUME TasksTypeOK, WorkInv, NEW r \in DOMAIN rows, rows[r].kind = "work"
  PROVE  /\ rows[r].task = Work /\ Made(Work) /\ rows[r].env \in Envelope /\ rows[r].env.row = 0
         /\ EnvOK("work", rows[r].env) /\ rows[r].env.task = Work
<1>1. RowOK(r) /\ rows[r] \in Escalation
  BY RowsShape DEF WorkInv
<1>2. EnvOK("work", rows[r].env)
  BY <1>1 DEF RowOK, EnvOK
<1> QED BY <1>1, <1>2, Names DEF RowOK, EnvOK, Escalation

LEMMA StartStep ==
  ASSUME TasksTypeOK, WorkInv, NEW r \in RowIds, NEW way \in Ways, NEW pc \in {"settle", "done"},
         CallTo(r, way, pc), UNCHANGED <<setting, rows, task, heard, lost, crashed>>,
         NEW c \in Triages \union Reruns, NEW kind \in Kinds, NEW env \in Envelope, Start(c, kind, env),
         kind = "orchestrator" => env.row = 0, c \in Triages => c = TriageOf(r),
         ~Begun(c) /\ run'[c] = Started(kind, env) /\ Grown => NameOK(c)' /\ EnvOK(kind, env)',
         CallOK(r)'
  PROVE  TasksTypeOK' /\ WorkInv' /\ Grown
<1>1. c \in Ids
  BY Names
<1>2. /\ run' \in [Ids -> Run] /\ (\A v \in Ids : v # c => run'[v] = run[v])
      /\ run'[c] = run[c] \/ (~Begun(c) /\ run'[c] = Started(kind, env))
  BY <1>1, StartEffect
<1>3. TasksTypeOK'
  BY <1>2, CallMoves DEF TasksTypeOK
<1>4. Grown
  BY <1>1, <1>2, RequestGrown DEF Made
<1>5. run'[c] = run[c] \/ (~Begun(c) /\ RunOK(c)' /\ run'[c].pc \in {"ensure", "settle"})
  <2> SUFFICES ASSUME ~Begun(c), run'[c] = Started(kind, env)
               PROVE  RunOK(c)' /\ run'[c].pc \in {"ensure", "settle"}
    BY <1>2
  <2>1. RunOK(c)'
    BY <1>1, <1>4, StartedRunOK
  <2> QED BY <2>1, StartedShape
<1>6. \A q \in RowIds : q # r => call'[q] = call[q] /\ (Begun(TriageOf(q))' => Begun(TriageOf(q)))
  <2> SUFFICES ASSUME NEW q \in RowIds, q # r
               PROVE  call'[q] = call[q] /\ (Begun(TriageOf(q))' => Begun(TriageOf(q)))
    OBVIOUS
  <2>1. TriageOf(q) # c /\ TriageOf(q) \in Ids
    BY OfRow, Names
  <2> QED BY <1>2, <2>1, CallMoves DEF Begun
<1>7. WorkInv'
  <2>1. \A t \in TaskIds : task'[t].to = task[t].to /\ (Made(t)' => Made(t))
    BY DEF Made
  <2> QED BY <1>2, <1>3, <1>4, <1>5, <1>6, <2>1, RequestKeeps
<1> QED BY <1>3, <1>4, <1>7

LEMMA ServeStartRerun ==
  ASSUME TasksTypeOK, WorkInv, NEW r \in RowIds, StartRerun(r)
  PROVE  TasksTypeOK' /\ WorkInv' /\ Grown
<1>1. /\ At(r, "rerun", "start") /\ CallTo(r, "rerun", "done")
      /\ Start(RerunOf(r), rows[r].kind, [rows[r].env EXCEPT !.row = r])
      /\ UNCHANGED <<setting, rows, task, heard, lost, crashed>>
  BY DEF StartRerun, RerunOf
<1>2. CallOK(r) /\ r \in DOMAIN rows
  BY <1>1, WayNames DEF WorkInv, CallOK, At
<1>3. RowOK(r) /\ rows[r] \in Escalation
  BY <1>2, RowsShape DEF WorkInv
<1>4. PICK kind \in Kinds, e \in Envelope : kind = rows[r].kind /\ e = rows[r].env
  BY <1>3 DEF Escalation
<1> DEFINE env == [e EXCEPT !.row = r]
<1>5. /\ env \in Envelope /\ env.row = r /\ env.task = e.task /\ env.to = e.to
      /\ env.orig = e.orig /\ env.about = e.about
  BY DEF Envelope, RowIds
<1>6. Start(RerunOf(r), kind, env)
  BY <1>1, <1>4
<1> HIDE DEF env
<1>7. EnvOK(kind, env)
  <2>1. EnvOK(rows[r].kind, rows[r].env) /\ e.task = rows[r].task
    BY <1>3, <1>4 DEF RowOK
  <2> QED BY <1>3, <1>4, <1>5, <2>1 DEF EnvOK, RowOK
<1>8. kind # "orchestrator" /\ RerunOf(r) \in Reruns /\ RowOf(RerunOf(r)) = r /\ RerunOf(r) \in Ids
  BY <1>3, <1>4, OfRow, Names DEF RowOK
<1>9. ASSUME run'[RerunOf(r)] = Started(kind, env), Grown
      PROVE  NameOK(RerunOf(r))' /\ EnvOK(kind, env)'
  <2>1. EnvOK(kind, env)'
    BY <1>5, <1>7, <1>9, EnvKept
  <2>2. run'[RerunOf(r)].kind = kind /\ run'[RerunOf(r)].env = env
    BY <1>5, <1>9, StartedShape
  <2>3. RerunOf(r) # Parent /\ RerunOf(r) # Work /\ RerunOf(r) \notin Agains \union Leaves \union Triages
    BY <1>8, Names
  <2>4. rows' = rows
    BY <1>1
  <2> QED BY <1>2, <1>4, <1>5, <1>8, <2>1, <2>2, <2>3, <2>4 DEF NameOK
<1>10. CallOK(r)'
  <2>1. TriageOf(r) \in Ids /\ TriageOf(r) # RerunOf(r)
    BY OfRow, Names
  <2>2. Begun(TriageOf(r))' = Begun(TriageOf(r)) /\ Made(TriageOf(r))' = Made(TriageOf(r)) /\ rows' = rows
    BY <1>1, <1>5, <1>6, <1>8, <2>1, StartEffect DEF Begun, Made
  <2>3. "rerun" \in Ways
    BY WayNames
  <2> QED BY <1>1, <1>2, <2>2, <2>3, CallMoves, WayNames DEF CallOK, At
<1>11. RerunOf(r) \notin Triages /\ "rerun" \in Ways
  BY <1>8, Names, WayNames
<1> QED BY <1>1, <1>5, <1>6, <1>8, <1>9, <1>10, <1>11, StartStep

\* The router or the triage of a row is started.
LEMMA TriageStarts ==
  ASSUME TasksTypeOK, WorkInv, NEW r \in DOMAIN rows, rows[r].kind = "work",
         NEW way \in {"triage", "bulk"}, NEW pc \in {"settle", "done"}, CallTo(r, way, pc),
         UNCHANGED <<setting, rows, task, heard, lost, crashed>>,
         At(r, way, "start"), way = "triage" => pc = "settle",
         NEW kind \in {"orchestrator", "triage"}, NEW env \in Envelope, Start(TriageOf(r), kind, env),
         env.row = 0, env.orig = Work, env.about = r, RouteOK(kind, r, env.to),
         kind = "orchestrator" => env.to = None, env.task # None => Made(env.task)
  PROVE  TasksTypeOK' /\ WorkInv' /\ Grown
<1> DEFINE c == TriageOf(r)
<1>1. r \in RowIds /\ c \in Triages /\ RowOf(c) = r /\ way \in Ways /\ kind \in Kinds
  BY RowsShape, OfRow DEF Ways, Kinds
<1>2. c \in Ids /\ c # Parent /\ c # Work /\ c \notin Leaves \union Reruns \union Agains
  BY <1>1, Names
<1>3. Begun(c)' /\ Made(Work)' /\ CallOK(r)
  BY <1>1, <1>2, StartEffect, WorkRow DEF WorkInv, Made
<1> HIDE DEF c
<1>4. ASSUME run'[c] = Started(kind, env) PROVE NameOK(c)' /\ EnvOK(kind, env)'
  <2>1. run'[c].kind = kind /\ run'[c].env = env /\ rows' = rows
    BY <1>1, <1>4, StartedShape
  <2>2. NameOK(c)'
    BY <1>1, <1>2, <2>1 DEF NameOK
  <2>3. RouteOK(kind, r, env.to)'
    BY DEF RouteOK, Misrouted
  <2>4. env.task # None => Made(env.task)'
    BY DEF Made
  <2>5. Begun(TriageOf(env.about))'
    BY <1>3 DEF c
  <2> QED BY <1>3, <2>1, <2>2, <2>3, <2>4, <2>5 DEF EnvOK
<1>5. CallOK(r)'
  <2>1. Made(c)' = Made(c) /\ rows' = rows
    BY DEF Made
  <2> QED BY <1>1, <1>3, <2>1, CallMoves, WayNames DEF CallOK, At, c
<1> QED BY <1>1, <1>4, <1>5, StartStep DEF c

LEMMA ServeStartTriage ==
  ASSUME TasksTypeOK, WorkInv, NEW r \in RowIds, StartTriage(r)
  PROVE  TasksTypeOK' /\ WorkInv' /\ Grown
<1>1. /\ At(r, "triage", "start") /\ CallTo(r, "triage", "settle")
      /\ Start(TriageOf(r), "orchestrator", TriageEnvelope(r))
      /\ UNCHANGED <<setting, rows, task, heard, lost, crashed>>
  BY DEF StartTriage
<1>2. r \in DOMAIN rows /\ rows[r].kind = "work"
  BY <1>1, WayNames DEF WorkInv, CallOK, At
<1>3. rows[r].task = Work /\ Work \in TaskIds
  BY <1>2, WorkRow, Names
<1> DEFINE env == [BareEnvelope EXCEPT !.orig = Work, !.about = r]
<1>4. env \in Envelope
  <2>1. PICK o \in TaskIds \union {None}, q \in 0..MaxRows : o = Work /\ q = r
    BY <1>3 DEF RowIds
  <2>2. [BareEnvelope EXCEPT !.orig = o, !.about = q] \in Envelope
    BY BareShape DEF Envelope
  <2> QED BY <2>1, <2>2
<1>5. env.row = 0 /\ env.orig = Work /\ env.about = r /\ env.to = None /\ env.task = None
  BY DEF BareEnvelope
<1>6. Start(TriageOf(r), "orchestrator", env)
  BY <1>1, <1>3 DEF TriageEnvelope
<1> HIDE DEF env
<1>7. RouteOK("orchestrator", r, env.to)
  BY <1>5 DEF RouteOK
<1> QED BY <1>1, <1>2, <1>4, <1>5, <1>6, <1>7, TriageStarts

LEMMA ServeBulkStart ==
  ASSUME TasksTypeOK, WorkInv, NEW r \in RowIds, BulkStart(r)
  PROVE  TasksTypeOK' /\ WorkInv' /\ Grown
<1>1. /\ At(r, "bulk", "start") /\ CallTo(r, "bulk", "done")
      /\ Start(TriageOf(r), "triage", [rows[r].env EXCEPT !.orig = rows[r].task, !.about = r])
      /\ UNCHANGED <<setting, rows, task, heard, lost, crashed>>
  BY DEF BulkStart
<1>2. r \in DOMAIN rows /\ rows[r].kind = "work" /\ "bulk" \in setting.ways
  BY <1>1, WayNames DEF WorkInv, CallOK, At
<1>3. /\ rows[r].task = Work /\ Work \in TaskIds /\ Made(Work) /\ rows[r].env.row = 0
      /\ EnvOK("work", rows[r].env) /\ rows[r].env.task = Work
  BY <1>2, WorkRow, Names
<1>4. PICK e \in Envelope : e = rows[r].env
  BY <1>2, WorkRow
<1> DEFINE env == [e EXCEPT !.orig = Work, !.about = r]
<1>5. env \in Envelope
  <2>1. PICK o \in TaskIds \union {None}, q \in 0..MaxRows : o = Work /\ q = r
    BY <1>3 DEF RowIds
  <2>2. [e EXCEPT !.orig = o, !.about = q] \in Envelope
    BY DEF Envelope
  <2> QED BY <2>1, <2>2
<1>6. env.row = e.row /\ env.orig = Work /\ env.about = r /\ env.to = e.to /\ env.task = e.task
  BY DEF Envelope
<1>7. Start(TriageOf(r), "triage", env)
  BY <1>1, <1>3, <1>4
<1> HIDE DEF env
<1>8. RouteOK("triage", r, env.to)
  BY <1>2, <1>3, <1>4, <1>6 DEF EnvOK, RouteOK, Misrouted
<1> QED BY <1>1, <1>2, <1>3, <1>4, <1>5, <1>6, <1>7, <1>8, TriageStarts

\* A run starts another and goes on.
LEMMA StarterStep ==
  ASSUME TasksTypeOK, WorkInv, NEW w \in Ids, NEW c \in {Work} \union Leaves \union Agains, c # w,
         Begun(w), ~Begun(c), UNCHANGED <<setting, rows, task, heard, call, lost, crashed>>,
         NEW x \in Run, NEW kind \in {"work", "triage"}, NEW env \in Envelope,
         run' \in [Ids -> Run], run'[w] = x, run'[c] = Started(kind, env),
         \A v \in Ids : v # c /\ v # w => run'[v] = run[v],
         x.kind = run[w].kind, x.env = run[w].env, x.task = run[w].task, x.to = run[w].to,
         run[w].pc \in {"spawn", "start"}, x.pc \in {"wait", "reply"}, x.pc \in StagesOf(run[w].kind),
         run[w].kind = "orchestrator" => c = Child(w) /\ Made(c),
         c = Work => Made(Work) /\ w = Parent, c \in Leaves => w = TriageOf(RowOf(c)),
         c \in Agains => run[w].kind = "triage" /\ TriageRow(w) = RowOf(c) /\ x.pc = "reply",
         Grown => NameOK(c)' /\ EnvOK(kind, env)'
  PROVE  TasksTypeOK' /\ WorkInv' /\ Grown
<1>1. c \in Ids /\ c # Parent /\ c \notin Triages \union Reruns /\ kind \in Kinds /\ RunOK(w) /\ ChildOK(w)
  BY Names DEF Kinds, WorkInv
<1>3. /\ run' \in [Ids -> Run] /\ (\A v \in Ids : v # c /\ v # w => run'[v] = run[v])
      /\ run'[w] = x /\ run'[c] = Started(kind, env)
  OBVIOUS
<1>4. TasksTypeOK'
  BY <1>3 DEF TasksTypeOK
<1>5. x.pc # "absent" /\ Started(kind, env).pc \in {"ensure", "settle"}
  BY <1>1, StartedShape
<1>6. Grown
  <2>1. \A v \in Ids : Begun(v) => Begun(v)' /\ run'[v].kind = run[v].kind /\ run'[v].env = run[v].env
    BY <1>3, <1>5 DEF Begun
  <2>2. \A v \in Ids : run[v].pc \in {"reply", "ended"} => run'[v].pc \in {"reply", "ended"}
    BY <1>3 DEF Begun
  <2> QED BY <2>1, <2>2 DEF Grown, Made
<1>7. RunOK(c)'
  BY <1>1, <1>3, <1>6, StartedRunOK
<1>8. RunOK(w)'
  <2>1. EnsuredOK(w)'
    BY <1>1, <1>3, <1>6, EnsuredKept DEF RunOK
  <2> QED BY <1>1, <1>3, <1>6, <2>1, RunKept
<1>9. ASSUME NEW v \in Ids PROVE ChildOK(v)'
  <2>1. CASE v = w
    <3>1. CASE Waiting(w)
      BY <1>3, <1>5, <1>6, <2>1, <3>1 DEF ChildOK, Waiting, Begun, Grown, Made
    <3>2. CASE ~Waiting(w)
      BY <1>3, <2>1, <3>2 DEF ChildOK, Waiting
    <3> QED BY <3>1, <3>2
  <2>2. CASE v = c
    <3>1. run'[c].kind # "orchestrator"
      BY <1>1, <1>3, StartedShape
    <3> QED BY <2>2, <3>1 DEF ChildOK, Waiting
  <2>3. CASE v # w /\ v # c
    <3>1. RunOK(v) /\ ChildOK(v) /\ run'[v] = run[v]
      BY <1>3, <2>3 DEF WorkInv
    <3>2. CASE Waiting(v)
      <4>1. Child(v) \in Ids /\ Child(v) \notin Agains /\ (v = Parent \/ v \in Triages)
        BY <3>1, <3>2, WaitingNames, ChildNames, Names
      <4>2. Child(v) # w \/ Begun(w)
        OBVIOUS
      <4>3. Child(v) # c
        <5>1. CASE c = Work
          <6>1. ASSUME Child(v) = Work PROVE FALSE
            <7>1. v = Parent
              BY <4>1, <6>1, ChildNames, Names
            <7> QED BY <2>3, <5>1, <7>1
          <6> QED BY <5>1, <6>1
        <5>2. CASE c \in Leaves
          BY <2>3, <4>1, <5>2, ChildNames, Families, OfRow, Names
        <5> QED BY <4>1, <5>1, <5>2
      <4>4. Begun(Child(v))' => Begun(Child(v))
        BY <1>3, <4>1, <4>3 DEF Begun
      <4> QED BY <1>6, <3>1, <4>4, ChildStays DEF Waiting, Begun
    <3>3. CASE ~Waiting(v)
      BY <3>1, <3>3 DEF ChildOK, Waiting, Begun
    <3> QED BY <3>2, <3>3
  <2> QED BY <2>1, <2>2, <2>3
<1>10. \A r \in RowIds : (Begun(AgainOf(r))' => Begun(AgainOf(r))) \/ AgainOK(r)'
  <2> SUFFICES ASSUME NEW r \in RowIds PROVE (Begun(AgainOf(r))' => Begun(AgainOf(r))) \/ AgainOK(r)'
    OBVIOUS
  <2>1. CASE AgainOf(r) # c
    <3>1. AgainOf(r) \in Ids
      BY OfRow, Names
    <3> QED BY <1>3, <2>1, <3>1 DEF Begun
  <2>2. CASE AgainOf(r) = c
    <3>1. run[w].kind = "triage" /\ TriageRow(w) = r /\ x.pc = "reply"
      BY <2>2, OfRow
    <3>2. Begun(w)' /\ run'[w].kind = "triage" /\ run'[w].pc \in {"reply", "ended"} /\ TriageRow(w)' = r
      BY <1>3, <1>5, <3>1 DEF Begun, TriageRow
    <3> QED BY <3>2 DEF AgainOK
  <2> QED BY <2>1, <2>2
<1>11. \A r \in RowIds : call'[r] = call[r] /\ (Begun(TriageOf(r))' => Begun(TriageOf(r)))
  <2>1. \A r \in RowIds : TriageOf(r) \in Ids /\ TriageOf(r) # c
    BY <1>1, OfRow, Names
  <2> QED BY <1>3, <2>1 DEF Begun
<1>12. (Begun(Parent)' => Begun(Parent)) /\ (Begun(Work)' => Begun(Work) \/ Made(Work)')
  BY <1>1, <1>3, Names DEF Begun, Made
<1>13. RoomKept'
  <2>1. Parking' \subseteq Parking
    BY <1>3, <1>5 DEF Parking
  <2> QED BY <1>4, <2>1, RoomStays, SettingShape DEF WorkInv
<1>14. \A t \in TaskIds : task'[t].to = task[t].to /\ (Made(t)' => Made(t))
  BY DEF Made
<1>15. \A v \in Ids : run'[v] = run[v] \/ RunOK(v)'
  BY <1>3, <1>7, <1>8
<1>16. WorkInv'
  BY <1>4, <1>6, <1>9, <1>10, <1>11, <1>12, <1>13, <1>14, <1>15, Assemble
<1> QED BY <1>4, <1>6, <1>16

LEMMA StepSpawnChild ==
  ASSUME TasksTypeOK, WorkInv, NEW w \in Ids, SpawnChild(w)
  PROVE  TasksTypeOK' /\ WorkInv' /\ Grown
<1>1. /\ run[w].pc = "spawn" /\ UNCHANGED <<setting, rows, task, heard, call, lost, crashed>>
      /\ run' = [run EXCEPT ![w].pc = "wait",
                            ![Child(w)] = Started(ChildKind(w), [run[w].env EXCEPT !.task = Child(w)])]
  BY DEF SpawnChild
<1>2. Waiting(w) /\ Begun(w) /\ run[w].kind = "orchestrator" /\ RunOK(w) /\ ChildOK(w)
  BY <1>1, EnsuredRun DEF Waiting, Begun, StagesOf, Kinds, WorkInv
<1>3. PICK c \in Ids : c = Child(w) /\ c \in TaskIds /\ (w = Parent \/ w \in Triages)
  BY <1>2, WaitingNames
<1>4. ~Begun(c) /\ Made(c) /\ c # w
  BY <1>1, <1>2, <1>3, ChildNames, Names DEF ChildOK
<1> DEFINE on == [run[w] EXCEPT !.pc = "wait"]
           for == [run[w].env EXCEPT !.task = c]
<1>5. PICK x \in Run : /\ x = on /\ x.pc = "wait" /\ x.kind = run[w].kind
                        /\ x.env = run[w].env /\ x.task = run[w].task /\ x.to = run[w].to
  <2>1. /\ on \in Run /\ on.pc = "wait" /\ on.kind = run[w].kind
        /\ on.env = run[w].env /\ on.task = run[w].task /\ on.to = run[w].to
    BY RunShape DEF Run, Stages
  <2> HIDE DEF on
  <2> QED BY <2>1
<1>6. PICK env \in Envelope :
        /\ env = for /\ env.task = c /\ env.to = run[w].env.to
        /\ env.row = run[w].env.row /\ env.orig = run[w].env.orig /\ env.about = run[w].env.about
  <2>1. /\ for \in Envelope /\ for.task = c /\ for.to = run[w].env.to
        /\ for.row = run[w].env.row /\ for.orig = run[w].env.orig /\ for.about = run[w].env.about
    BY <1>3, RunShape DEF Envelope
  <2> HIDE DEF for
  <2> QED BY <2>1
<1>7. PICK kind \in {"work", "triage"} : kind = ChildKind(w)
  BY DEF ChildKind
<1>8. run' = [run EXCEPT ![w] = x, ![c] = Started(kind, env)]
  BY <1>1, <1>3, <1>5, <1>6, <1>7
<1> HIDE DEF on, for
<1>9. NameOK(w) /\ EnvOK("orchestrator", run[w].env) /\ run[w].env.to = None /\ run[w].env.row = 0
  <2>1. NameOK(w) /\ EnvOK(run[w].kind, run[w].env)
    BY <1>2 DEF RunOK
  <2> QED BY <1>2, <1>3, <2>1, Names DEF NameOK, EnvOK
<1>10. ASSUME Grown PROVE NameOK(c)' /\ EnvOK(kind, env)'
  <2>1. run'[c] = Started(kind, env) /\ kind \in Kinds
    BY <1>4, <1>8 DEF TasksTypeOK, Kinds
  <2>2. run'[c].kind = kind /\ run'[c].env = env
    BY <2>1, StartedShape
  <2>3. Made(c)' /\ (env.orig # None => Made(env.orig)')
    BY <1>1, <1>4, <1>6, <1>9 DEF EnvOK, Made
  <2>4. CASE w = Parent
    <3>1. c = Work /\ kind = "work" /\ c \notin Leaves \union Triages \union Reruns \union Agains
      BY <1>3, <1>7, <2>4, ChildNames, Names DEF ChildKind
    <3>2. NameOK(c)'
      BY <1>6, <1>9, <2>2, <3>1, Names DEF NameOK
    <3>3. EnvOK(kind, env)'
      BY <1>6, <1>9, <2>3, <3>1 DEF EnvOK, RouteOK
    <3> QED BY <3>2, <3>3
  <2>5. CASE w \in Triages
    <3>1. /\ c \in Leaves /\ kind = "triage" /\ RowOf(c) = RowOf(w) /\ w = TriageOf(RowOf(c))
          /\ c # Parent /\ c # Work /\ c \notin Triages \union Reruns \union Agains
      BY <1>3, <1>7, <2>5, ChildNames, Families, OfRow, Names DEF ChildKind
    <3>2. run[w].env.about = RowOf(w) /\ run[w].env.orig = Work /\ RowOf(w) \in DOMAIN rows /\ rows[RowOf(w)].kind = "work"
      BY <1>9, <2>5 DEF NameOK
    <3>3. Begun(w)' /\ run'[w].kind = "orchestrator" /\ rows' = rows
      BY <1>1, <1>2, <1>10 DEF Grown
    <3>4. NameOK(c)'
      BY <1>6, <1>9, <2>2, <3>1, <3>2, <3>3 DEF NameOK
    <3>5. EnvOK(kind, env)'
      BY <1>6, <1>9, <2>3, <3>1, <3>2, <3>3 DEF EnvOK, RouteOK
    <3> QED BY <3>4, <3>5
  <2> QED BY <1>3, <2>4, <2>5
<1>11. /\ c \in {Work} \union Leaves
       /\ c \in Leaves => w = TriageOf(RowOf(c))
       /\ c \notin Agains
       /\ c = Work => w = Parent
  BY <1>3, ChildNames, Families, OfRow, Names
<1>12. "wait" \in StagesOf(run[w].kind)
  BY <1>2 DEF StagesOf
<1>13. /\ run' \in [Ids -> Run] /\ run'[w] = x /\ run'[c] = Started(kind, env)
       /\ \A v \in Ids : v # c /\ v # w => run'[v] = run[v]
  <2>1. Started(kind, env) \in Run
    BY StartedShape DEF Kinds
  <2> QED BY <1>4, <1>8, <2>1 DEF TasksTypeOK
<1> QED BY <1>1, <1>2, <1>3, <1>4, <1>5, <1>6, <1>7, <1>10, <1>11, <1>12, <1>13, StarterStep

\* The runs of the triages of a row: its leaf, the row's own bulk triage, or the
\* re-run of a triage's row; never two of them.
LEMMA TriageName ==
  ASSUME TasksTypeOK, WorkInv, NEW v \in Ids, Begun(v), run[v].kind = "triage"
  PROVE  LET r == TriageRow(v) IN
         \/ v = LeafOf(r) /\ run[TriageOf(r)].kind = "orchestrator" /\ rows[r].kind = "work"
         \/ v = TriageOf(r) /\ rows[r].kind = "work"
         \/ v = RerunOf(r) /\ rows[r].kind = "triage"
<1>1. NameOK(v) /\ (v \in Leaves \/ v \in Triages \/ v \in Reruns)
  BY Names DEF WorkInv, RunOK, NameOK
<1>2. CASE v \in Leaves
  <2>1. TriageRow(v) = RowOf(v) /\ v = LeafOf(RowOf(v)) /\ Begun(TriageOf(RowOf(v)))
        /\ run[TriageOf(RowOf(v))].kind = "orchestrator" /\ RowOf(v) \in RowIds
    BY <1>1, <1>2, Families, Names DEF NameOK, TriageRow
  <2>2. TriageOf(RowOf(v)) \in Ids /\ TriageOf(RowOf(v)) \in Triages /\ RowOf(TriageOf(RowOf(v))) = RowOf(v)
    BY <2>1, OfRow, Names
  <2>3. rows[RowOf(v)].kind = "work"
    BY <2>1, <2>2 DEF WorkInv, RunOK, NameOK
  <2> QED BY <2>1, <2>3
<1>3. CASE v \in Triages
  BY <1>1, <1>3, Families, Names DEF NameOK, TriageRow
<1>4. CASE v \in Reruns
  <2>1. RowOf(v) \in RowIds /\ RowOf(v) # 0
    BY <1>4, Families DEF RowIds
  <2> QED BY <1>1, <1>4, <2>1, Families DEF NameOK, TriageRow
<1> QED BY <1>1, <1>2, <1>3, <1>4

LEMMA StepStartAgain ==
  ASSUME TasksTypeOK, WorkInv, NEW w \in Ids, StartAgain(w)
  PROVE  TasksTypeOK' /\ WorkInv' /\ Grown /\ ~Begun(AgainOf(TriageRow(w)))
<1>1. /\ run[w].pc = "start" /\ UNCHANGED <<setting, rows, task, heard, call, lost, crashed>>
      /\ run' = [run EXCEPT ![AgainOf(TriageRow(w))] =
                               Started("work", [OriginalEnvelope(w) EXCEPT !.row = run[w].env.about]),
                            ![w].pc = "reply"]
  BY DEF StartAgain, AgainOf
<1>2. run[w].kind = "triage" /\ Begun(w) /\ RunOK(w)
  BY <1>1, EnsuredRun DEF StagesOf, Kinds, Begun, WorkInv
<1>3. /\ run[w].env.orig = Work /\ Made(Work) /\ run[w].env.about \in DOMAIN rows
      /\ run[w].env.about \in RowIds /\ Begun(TriageOf(run[w].env.about)) /\ TriageRow(w) \in RowIds
  BY <1>2, TriageRun
<1>4. PICK c \in Agains : c = AgainOf(TriageRow(w)) /\ c \in Ids /\ c # w /\ RowOf(c) = TriageRow(w)
  <2>1. AgainOf(TriageRow(w)) \in Agains /\ RowOf(AgainOf(TriageRow(w))) = TriageRow(w)
    BY <1>3, OfRow
  <2>2. w \notin Agains
    BY <1>2 DEF RunOK, NameOK
  <2> QED BY <2>1, <2>2, Names
<1>5. ~Begun(c)
  <2> SUFFICES ASSUME Begun(c) PROVE FALSE
    OBVIOUS
  <2>1. PICK v \in Ids : /\ Begun(v) /\ run[v].kind = "triage" /\ TriageRow(v) = TriageRow(w)
                         /\ run[v].pc \in {"reply", "ended"}
    BY <1>3, <1>4 DEF WorkInv, AgainOK
  <2>2. TriageOf(TriageRow(w)) \in Triages /\ LeafOf(TriageRow(w)) \in Leaves
    BY <1>3, OfRow
  <2>3. v = w
    BY <1>2, <2>1, <2>2, TriageName, Names
  <2> QED BY <1>1, <2>1, <2>3
<1> DEFINE on == [run[w] EXCEPT !.pc = "reply"]
           for == [OriginalEnvelope(w) EXCEPT !.row = run[w].env.about]
<1>6. PICK x \in Run : /\ x = on /\ x.pc = "reply" /\ x.kind = run[w].kind
                        /\ x.env = run[w].env /\ x.task = run[w].task /\ x.to = run[w].to
  <2>1. /\ on \in Run /\ on.pc = "reply" /\ on.kind = run[w].kind
        /\ on.env = run[w].env /\ on.task = run[w].task /\ on.to = run[w].to
    BY RunShape DEF Run, Stages
  <2> HIDE DEF on
  <2> QED BY <2>1
<1>7. PICK env \in Envelope :
        /\ env = for /\ env.task = Work /\ env.to = task[Work].to /\ env.row = run[w].env.about
        /\ env.orig = None /\ env.about = 0
  <2>1. PICK a \in Envelope, q \in 0..MaxRows :
          /\ a = OriginalEnvelope(w) /\ q = run[w].env.about
          /\ a.task = Work /\ a.to = task[Work].to /\ a.orig = None /\ a.about = 0
    BY <1>2, OriginalShape, RunShape
  <2> DEFINE e == [a EXCEPT !.row = q]
  <2>2. e \in Envelope /\ e.task = a.task /\ e.to = a.to /\ e.row = q /\ e.orig = a.orig /\ e.about = a.about
    BY DEF Envelope
  <2>3. e = for
    BY <2>1
  <2> HIDE DEF e, for
  <2> QED BY <2>1, <2>2, <2>3
<1>8. run' = [run EXCEPT ![c] = Started("work", env), ![w] = x]
  BY <1>1, <1>4, <1>6, <1>7
<1> HIDE DEF on, for
<1>9. /\ run' \in [Ids -> Run] /\ run'[w] = x /\ run'[c] = Started("work", env)
      /\ \A v \in Ids : v # c /\ v # w => run'[v] = run[v]
  <2>1. Started("work", env) \in Run
    BY StartedShape DEF Kinds
  <2> QED BY <1>4, <1>8, <2>1 DEF TasksTypeOK
<1>10. ASSUME Grown PROVE NameOK(c)' /\ EnvOK("work", env)'
  <2>1. run'[c].kind = "work" /\ run'[c].env = env
    BY <1>9, StartedShape DEF Kinds
  <2>2. Made(Work)' /\ rows' = rows /\ setting' = setting
    BY <1>1, <1>3 DEF Made
  <2>3. TriageOf(env.row) \in Ids /\ Begun(TriageOf(env.row))'
    <3>1. TriageOf(env.row) \in Ids
      BY <1>3, <1>7, OfRow, Names
    <3> QED BY <1>3, <1>7, <1>10, <3>1 DEF Grown
  <2>4. NameOK(c)'
    <3>1. c # Parent /\ c \notin Leaves \union Triages \union Reruns
      BY <1>4, Names
    <3> QED BY <1>3, <1>4, <1>7, <2>1, <2>2, <2>3, <3>1 DEF NameOK
  <2>5. EnvOK("work", env)'
    <3>1. TaskOK(Work)
      BY Names DEF WorkInv
    <3>2. task[Work].to = None \/ (task[Work].to = Parent /\ setting.parent)
      BY <3>1, Names DEF TaskOK
    <3> QED BY <1>7, <2>2, <3>2 DEF EnvOK, RouteOK
  <2> QED BY <2>4, <2>5
<1>11. c # Work /\ c \notin Leaves /\ "reply" \in StagesOf(run[w].kind)
  BY <1>4, Names DEF StagesOf
<1>12. TasksTypeOK' /\ WorkInv' /\ Grown
  BY <1>1, <1>2, <1>4, <1>5, <1>6, <1>9, <1>10, <1>11, StarterStep
<1> QED BY <1>4, <1>5, <1>12

-----------------------------------------------------------------------------
(* The invariant                                                            *)

LEMMA InitWork == Init => TasksTypeOK /\ WorkInv
<1> SUFFICES ASSUME Init PROVE TasksTypeOK /\ WorkInv
  OBVIOUS
<1> DEFINE first == IF setting.parent THEN Parent ELSE Work
           kind == IF setting.parent THEN "orchestrator" ELSE "work"
<1>1. setting \in Setting /\ setting.losses \in Nat /\ setting.crashes \in Nat /\ setting.rows \in 0..MaxRows
  BY TasksAssumption DEF Init, Setting
<1>2. first \in {Parent, Work} /\ first \in Ids /\ kind \in Kinds
  BY Names DEF Kinds
<1>3. Absent \in Run /\ Absent.pc = "absent" /\ Absent.kind = "work"
  BY BareShape DEF Absent, Run, Kinds, Stages
<1>4. /\ run \in [Ids -> Run] /\ run[first] = Started(kind, BareEnvelope)
      /\ \A v \in Ids : v # first => run[v] = Absent
  <2>1. Started(kind, BareEnvelope) \in Run
    BY <1>2, BareShape, StartedShape
  <2>2. run = [[w \in Ids |-> Absent] EXCEPT ![first] = Started(kind, BareEnvelope)]
    BY DEF Init
  <2> HIDE DEF first, kind
  <2> QED BY <1>2, <1>3, <2>1, <2>2
<1>5. run[first].kind = kind /\ run[first].env = BareEnvelope /\ run[first].pc = "ensure"
  BY <1>2, <1>4, BareShape, StartedShape
<1>6. \A v \in Ids : Begun(v) <=> v = first
  BY <1>3, <1>4, <1>5 DEF Begun
<1>7. rows = <<>> /\ Len(rows) = 0 /\ DOMAIN rows = {} /\ rows \in Seq(Escalation)
  BY DEF Init
<1>8. task \in [TaskIds -> Task] /\ \A t \in TaskIds : ~Made(t) /\ task[t].to = None
  BY DEF Init, Task, Made
<1>9. TasksTypeOK
  BY <1>1, <1>4, <1>7, <1>8, TasksAssumption DEF Init, TasksTypeOK
<1>10. ASSUME NEW w \in Ids PROVE RunOK(w) /\ ChildOK(w) /\ HeardOK(w)
  <2>1. RunOK(w)
    <3> SUFFICES ASSUME w = first PROVE RunOK(w)
      BY <1>6 DEF RunOK
    <3>1. NameOK(w) /\ EnvOK(run[w].kind, run[w].env)
      BY <1>2, <1>5, BareShape, Names DEF NameOK, EnvOK, RouteOK
    <3> QED BY <1>5, <3>1 DEF RunOK, EnsuredOK, StagesOf
  <2>2. ChildOK(w)
    <3> SUFFICES ASSUME w = first, Waiting(w) PROVE ChildOK(w)
      BY <1>6 DEF ChildOK, Waiting
    <3>1. w = Parent
      BY <1>5 DEF Waiting
    <3>2. Child(w) \in Ids /\ Child(w) # first
      BY <3>1, ChildNames, Names
    <3> QED BY <1>5, <1>6, <3>2 DEF ChildOK
  <2>3. HeardOK(w)
    BY DEF Init, HeardOK
  <2> QED BY <2>1, <2>2, <2>3
<1>11. \A t \in TaskIds : TaskOK(t)
  BY <1>8 DEF TaskOK
<1>12. ASSUME NEW r \in RowIds PROVE CallOK(r) /\ AgainOK(r)
  <2>1. TriageOf(r) \in Ids /\ AgainOf(r) \in Ids /\ TriageOf(r) # first /\ AgainOf(r) # first
    BY OfRow, Names
  <2> QED BY <1>6, <2>1, WayNames DEF Init, CallOK, AgainOK, At
<1>13. FirstOK
  BY <1>6, Names DEF FirstOK
<1>14. RoomKept
  BY <1>3, <1>4, <1>5, <1>7 DEF RoomKept, Parking
<1> QED BY <1>7, <1>9, <1>10, <1>11, <1>12, <1>13, <1>14 DEF WorkInv

LEMMA NextWork == TasksTypeOK /\ WorkInv /\ [Next]_vars => TasksTypeOK' /\ WorkInv' /\ (Grown \/ UNCHANGED vars)
<1> SUFFICES ASSUME TasksTypeOK, WorkInv, [Next]_vars
             PROVE  TasksTypeOK' /\ WorkInv' /\ (Grown \/ UNCHANGED vars)
  OBVIOUS
<1>1. ASSUME NEW w \in Ids, Step(w) PROVE TasksTypeOK' /\ WorkInv' /\ Grown
  <2>1. CASE ResolveReRun(w) \/ EnsureTask(w)
    BY <2>1, StepResolveReRun, StepEnsureTask
  <2>2. CASE \E o \in setting.outcomes : RunWork(w, o)
    BY <2>2, StepRunWork
  <2>3. CASE EscalateTask(w) \/ ParkEscalation(w)
    BY <2>3, StepEscalateTask, StepParkEscalation
  <2>4. CASE Reply(w) \/ CompletePlain(w) \/ TellParent(w)
    BY <2>4, StepReply, StepCompletePlain, StepTellParent
  <2>5. CASE CreateChildTask(w) \/ BeginChildTask(w) \/ SpawnChild(w)
    BY <2>5, StepCreateChildTask, StepBeginChildTask, StepSpawnChild
  <2>6. CASE Resume(w) \/ CloseChildTask(w)
    BY <2>6, StepResume, StepCloseChildTask
  <2>7. CASE \E f \in setting.findings : RunTriage(w, f)
    BY <2>7, StepRunTriage
  <2>8. CASE RecordAgain(w) \/ StartAgain(w) \/ ParkReview(w)
    BY <2>8, StepRecordAgain, StepStartAgain, StepParkReview
  <2> QED BY <1>1, <2>1, <2>2, <2>3, <2>4, <2>5, <2>6, <2>7, <2>8 DEF Step
<1>2. ASSUME NEW r \in RowIds, Serve(r) PROVE TasksTypeOK' /\ WorkInv' /\ Grown
  BY <1>2, ServeStartRerun, ServeCreateTriageTask, ServeStartTriage, ServeSettleTriaged,
     ServeBulkCreateTask, ServeBulkStart DEF Serve
<1>3. ASSUME NEW r \in RowIds, Ask(r) PROVE TasksTypeOK' /\ WorkInv' /\ Grown
  BY <1>3, AskBulkResolve, AskAnswer DEF Ask
<1>4. ASSUME NEW r \in RowIds, NEW way \in Ways, Crash(r, way) PROVE TasksTypeOK' /\ WorkInv' /\ Grown
  BY <1>4, CrashRequest
<1>5. CASE UNCHANGED vars
  <2>1. TasksTypeOK'
    BY <1>5 DEF vars, TasksTypeOK
  <2>2. WorkInv'
    BY <1>5 DEF vars, WorkInv, RunOK, NameOK, EnvOK, EnsuredOK, RowOK, RouteOK, Misrouted, Made, TaskOK,
       ChildOK, Waiting, HeardOK, CallOK, At, AgainOK, TriageRow, FirstOK, RoomKept, Parking, Begun
  <2> QED BY <1>5, <2>1, <2>2
<1> QED BY <1>1, <1>2, <1>3, <1>4, <1>5 DEF Next

\* Type correctness: no run settles a row that is not there, and no row is parked
\* beyond the room the runs on their way to park one leave.
THEOREM TasksTypeCorrect == Spec => []TasksTypeOK
<1>1. Init => TasksTypeOK /\ WorkInv
  BY InitWork
<1>2. TasksTypeOK /\ WorkInv /\ [Next]_vars => TasksTypeOK' /\ WorkInv'
  BY NextWork
<1> QED BY <1>1, <1>2, PTL DEF Spec

LEMMA WorkInvHolds == Spec => [](TasksTypeOK /\ WorkInv)
<1>1. Init => TasksTypeOK /\ WorkInv
  BY InitWork
<1>2. (TasksTypeOK /\ WorkInv) /\ [Next]_vars => (TasksTypeOK /\ WorkInv)'
  BY NextWork
<1> QED BY <1>1, <1>2, PTL DEF Spec

-----------------------------------------------------------------------------
(* A parent hears its own child                                             *)

\* Where no work with a parent is triaged in bulk, what a parent or a triage's
\* router hears comes from a run of the workflow it started (executeLT), however
\* many re-runs and triages of its rows lie between.
THEOREM ParentsHearTheirChild ==
  ASSUME \A s \in Settings : s.parent => "bulk" \notin s.ways
  PROVE  Spec => []HearsItsChild
<1>1. TasksTypeOK /\ WorkInv => HearsItsChild
  <2> SUFFICES ASSUME TasksTypeOK, WorkInv, NEW w \in Ids, heard[w] # None
               PROVE  run[heard[w]].kind = ChildKind(w)
    BY DEF HearsItsChild
  <2>1. ~Misrouted
    BY DEF TasksTypeOK, Misrouted
  <2>2. HeardOK(w) /\ Parent \notin Triages
    BY Names DEF WorkInv
  <2> QED BY <2>1, <2>2 DEF HeardOK, ChildKind
<1> QED BY <1>1, WorkInvHolds, PTL

-----------------------------------------------------------------------------
(* A resolved row was acted on                                              *)

Resolved(r) == r \in DOMAIN rows /\ rows[r].status = "resolved"
InBulk(r) == call[r]["bulk"] \in {"create", "start"}

LEMMA ParkedPending ==
  ASSUME TasksTypeOK, TasksTypeOK', NEW t, NEW kind, NEW env, ParkRow(t, kind, env), NEW r \in DOMAIN rows'
  PROVE  (r \in DOMAIN rows /\ rows'[r] = rows[r]) \/ (r = Len(rows) + 1 /\ rows'[r].status = "pending")
<1> DEFINE x == [status |-> "pending", task |-> t, kind |-> kind, env |-> env]
<1>1. rows' = Append(rows, x) /\ x.status = "pending"
  BY DEF ParkRow
<1> HIDE DEF x
<1>2. /\ Len(rows') = Len(rows) + 1
      /\ \A q \in 1..Len(rows) : rows'[q] = rows[q]
      /\ rows'[Len(rows) + 1] = x
  BY <1>1, RowsShape DEF TasksTypeOK
<1>3. DOMAIN rows = 1..Len(rows) /\ DOMAIN rows' = 1..Len(rows') /\ Len(rows) \in Nat
  BY LenProperties DEF TasksTypeOK
<1> QED BY <1>1, <1>2, <1>3

\* Who resolves a row.
LEMMA WhoResolves ==
  ASSUME TasksTypeOK, TasksTypeOK', WorkInv, Next, NEW r \in RowIds, Resolved(r)', ~Resolved(r)
  PROVE  \/ \E w \in Ids : ResolveReRun(w) /\ run[w].env.row = r
         \/ SettleTriaged(r) \/ BulkResolve(r)
<1>1. rows' # rows
  BY DEF Resolved
<1>2. ASSUME NEW q \in DOMAIN rows, Settle(q) PROVE q = r
  BY <1>2, SettleEffect DEF Resolved
<1>3. ASSUME NEW w \in Ids, ParkEscalation(w) \/ ParkReview(w) PROVE FALSE
  <2>1. PICK t, kind, env : ParkRow(t, kind, env)
    BY <1>3 DEF ParkEscalation, ParkReview
  <2> QED BY <2>1, ParkedPending DEF Resolved
<1>4. ASSUME NEW w \in Ids, ResolveReRun(w) PROVE run[w].env.row = r
  <2>1. run[w].env.row \in DOMAIN rows
    BY <1>4, Families, Names DEF ResolveReRun, WorkInv, RunOK, NameOK, Begun
  <2> QED BY <1>2, <1>4, <2>1 DEF ResolveReRun
<1>5. ASSUME NEW q \in RowIds, SettleTriaged(q) \/ BulkResolve(q) PROVE q = r
  <2>1. q \in DOMAIN rows
    BY <1>5, WayNames DEF SettleTriaged, BulkResolve, Pending, WorkInv, CallOK, At
  <2> QED BY <1>2, <1>5, <2>1 DEF SettleTriaged, BulkResolve
<1>6. \/ \E w \in Ids : ResolveReRun(w) \/ ParkEscalation(w) \/ ParkReview(w)
      \/ \E q \in RowIds : SettleTriaged(q) \/ BulkResolve(q)
  <2>1. ASSUME NEW w \in Ids, Step(w), ~(ResolveReRun(w) \/ ParkEscalation(w) \/ ParkReview(w))
        PROVE  rows' = rows
    BY <2>1 DEF Step, EnsureTask, RunWork, EscalateTask, Reply, CompletePlain, TellParent,
       CreateChildTask, BeginChildTask, SpawnChild, Resume, CloseChildTask, RunTriage, RecordAgain, StartAgain
  <2>2. ASSUME NEW q \in RowIds, Serve(q), ~SettleTriaged(q) PROVE rows' = rows
    BY <2>2 DEF Serve, StartRerun, CreateTriageTask, StartTriage, BulkCreateTask, BulkStart
  <2>3. ASSUME NEW q \in RowIds, Ask(q), ~BulkResolve(q) PROVE rows' = rows
    BY <2>3 DEF Ask, Answer
  <2>4. ASSUME NEW q \in RowIds, NEW way \in Ways, Crash(q, way) PROVE rows' = rows
    BY <2>4 DEF Crash
  <2> QED BY <1>1, <2>1, <2>2, <2>3, <2>4 DEF Next
<1> QED BY <1>3, <1>4, <1>5, <1>6

\* A bulk request that is to act on its row goes on until it started the triage.
LEMMA BulkGoesOn ==
  ASSUME TasksTypeOK, TasksTypeOK', WorkInv, Next, NEW r \in RowIds,
         "bulk" \in setting.ways => setting.crashes = 0,
         InBulk(r)
  PROVE  InBulk(r)' \/ BulkStart(r)
<1>1. "bulk" \in setting.ways /\ setting.crashes = 0
  BY WayNames DEF WorkInv, CallOK, At, InBulk
<1>2. SUFFICES ASSUME call'[r]["bulk"] # call[r]["bulk"]
               PROVE  call'[r]["bulk"] \in {"create", "start"} \/ BulkStart(r)
  BY DEF InBulk
<1>3. ASSUME NEW q \in RowIds, NEW way \in Ways,
             NEW pc \in {"idle", "create", "start", "settle", "done"}, CallTo(q, way, pc)
      PROVE  q = r /\ way = "bulk" /\ call'[r]["bulk"] = pc
  BY <1>2, <1>3, CallMoves, WayNames
<1>4. ASSUME NEW w \in Ids, Step(w) PROVE call' = call
  BY <1>4 DEF Step, ResolveReRun, EnsureTask, RunWork, EscalateTask, ParkEscalation, Reply, CompletePlain,
     TellParent, CreateChildTask, BeginChildTask, SpawnChild, Resume, CloseChildTask, RunTriage,
     RecordAgain, StartAgain, ParkReview
<1>5. ASSUME NEW q \in RowIds, Serve(q) PROVE call'[r]["bulk"] \in {"create", "start"} \/ BulkStart(r)
  <2>1. CASE StartRerun(q) \/ CreateTriageTask(q) \/ StartTriage(q) \/ SettleTriaged(q)
    BY <1>3, <2>1, WayNames DEF StartRerun, CreateTriageTask, StartTriage, SettleTriaged
  <2>2. CASE BulkCreateTask(q)
    BY <1>3, <2>2, WayNames DEF BulkCreateTask
  <2>3. CASE BulkStart(q)
    BY <1>3, <2>3, WayNames DEF BulkStart
  <2> QED BY <1>5, <2>1, <2>2, <2>3 DEF Serve
<1>6. ASSUME NEW q \in RowIds, Ask(q) PROVE call'[r]["bulk"] \in {"create", "start"}
  <2>1. CASE BulkResolve(q)
    BY <1>3, <2>1, WayNames DEF BulkResolve
  <2>2. CASE \E way \in Ways : Answer(q, way)
    BY <1>3, <2>2, WayNames DEF Answer
  <2> QED BY <1>6, <2>1, <2>2 DEF Ask
<1>7. ASSUME NEW q \in RowIds, NEW way \in Ways, Crash(q, way) PROVE FALSE
  BY <1>1, <1>7 DEF Crash, TasksTypeOK
<1> QED BY <1>2, <1>4, <1>5, <1>6, <1>7 DEF Next

LEMMA BulkStarts ==
  ASSUME TasksTypeOK, NEW r \in RowIds, BulkStart(r)
  PROVE  Begun(TriageOf(r))'
<1>1. TriageOf(r) \in Ids
  BY OfRow, Names
<1> QED BY <1>1 DEF BulkStart, Start, Begun, Started, Absent, TasksTypeOK

\* Where no bulk triage is cut off after it resolved its rows, a resolved row was
\* acted on: a workflow was started for it, or the bulk request is about to.
THEOREM ResolvedRowsAreActedOn ==
  ASSUME \A s \in Settings : "bulk" \in s.ways => s.crashes = 0
  PROVE  Spec => []ResolvedIsActedOn
<1>1. Init => ResolvedIsActedOn
  BY DEF Init, ResolvedIsActedOn
<1>2. ASSUME TasksTypeOK, WorkInv, [Next]_vars, ResolvedIsActedOn PROVE ResolvedIsActedOn'
  <2>1. CASE UNCHANGED vars
    BY <1>2, <2>1 DEF vars, ResolvedIsActedOn
  <2>2. CASE ~UNCHANGED vars
    <3>1. Next /\ TasksTypeOK' /\ WorkInv' /\ Grown
      BY <1>2, <2>2, NextWork
    <3>2. SUFFICES ASSUME NEW r \in DOMAIN rows', rows'[r].status = "resolved"
                   PROVE  call'[r]["bulk"] \in {"create", "start"} \/ Begun(RerunOf(r))' \/ Begun(TriageOf(r))'
      BY DEF ResolvedIsActedOn, Begun, RerunOf
    <3>3. r \in RowIds /\ TriageOf(r) \in Ids /\ RerunOf(r) \in Ids
      <4>1. rows' \in Seq(Escalation) /\ Len(rows') <= MaxRows
        BY <3>1 DEF TasksTypeOK
      <4>2. DOMAIN rows' = 1..Len(rows') /\ Len(rows') \in Nat
        BY <4>1, LenProperties
      <4>3. r \in RowIds
        BY <4>1, <4>2, TasksAssumption DEF RowIds
      <4> QED BY <4>3, OfRow, Names
    <3>4. "bulk" \in setting.ways => setting.crashes = 0
      BY <1>2 DEF TasksTypeOK
    <3>5. CASE Resolved(r)
      <4>1. InBulk(r) \/ Begun(RerunOf(r)) \/ Begun(TriageOf(r))
        BY <1>2, <3>5 DEF ResolvedIsActedOn, Resolved, Begun, RerunOf, InBulk
      <4>2. InBulk(r) => InBulk(r)' \/ Begun(TriageOf(r))'
        BY <1>2, <3>1, <3>3, <3>4, BulkGoesOn, BulkStarts
      <4> QED BY <3>1, <3>3, <4>1, <4>2 DEF Grown, InBulk
    <3>6. CASE ~Resolved(r)
      <4>1. Resolved(r)'
        BY <3>2 DEF Resolved
      <4>2. CASE \E w \in Ids : ResolveReRun(w) /\ run[w].env.row = r
        <5>1. PICK w \in Ids : run[w].pc = "settle" /\ run[w].env.row = r /\ RunOK(w)
          BY <1>2, <4>2 DEF ResolveReRun, WorkInv
        <5>2. r # 0
          BY <3>3 DEF RowIds
        <5>3. NameOK(w) /\ Begun(w)
          BY <5>1 DEF RunOK, Begun
        <5>4. w = RerunOf(r) \/ Begun(TriageOf(r))
          BY <5>1, <5>2, <5>3, Families DEF NameOK
        <5> QED BY <3>1, <3>3, <5>3, <5>4 DEF Grown
      <4>3. CASE SettleTriaged(r)
        BY <1>2, <3>1, <3>3, <4>3 DEF SettleTriaged, WorkInv, CallOK, At, Grown
      <4>4. CASE BulkResolve(r)
        BY <1>2, <3>3, <4>4, CallMoves, WayNames DEF BulkResolve
      <4> QED BY <1>2, <3>1, <3>3, <3>6, <4>1, <4>2, <4>3, <4>4, WhoResolves
    <3> QED BY <3>5, <3>6
  <2> QED BY <2>1, <2>2
<1> QED BY <1>1, <1>2, WorkInvHolds, PTL DEF Spec

-----------------------------------------------------------------------------
(* The work has one open row                                                *)

Open == {r \in DOMAIN rows : rows[r].status = "pending"}

\* The runs that may park a row yet: the work before it starts, and a run of it
\* until it has parked one.  A re-run takes over from its row when it settles it.
Asking ==
  {w \in Ids : \/ w = Work /\ ~Begun(w)
               \/ /\ Begun(w) /\ run[w].kind = "work"
                  /\ \/ run[w].pc \in {"ensure", "body", "escalate", "park"}
                     \/ run[w].pc = "settle" /\ rows[run[w].env.row].status # "pending"}

\* With re-runs alone no triage begins, and a resolved row has its re-run.
RerunsOnly ==
  /\ \A r \in RowIds : At(r, "triage", "idle") /\ At(r, "bulk", "idle") /\ ~Begun(TriageOf(r))
  /\ \A r \in DOMAIN rows : rows[r].status = "pending" \/ Begun(RerunOf(r))

AskedOnce ==
  setting.ways = {"rerun"} => RerunsOnly /\ Cardinality(Open) + Cardinality(Asking) <= 1 + lost

LEMMA OpenFinite ==
  ASSUME TasksTypeOK
  PROVE  /\ IsFiniteSet(Open) /\ Cardinality(Open) \in Nat
         /\ IsFiniteSet(Asking) /\ Cardinality(Asking) \in Nat
<1>1. IsFiniteSet(DOMAIN rows)
  BY RowsShape, FS_Interval
<1>2. Open \subseteq DOMAIN rows /\ Asking \subseteq Ids
  BY DEF Open, Asking
<1> QED BY <1>1, <1>2, IdsFinite, FS_Subset, FS_CardinalityType

LEMMA OpenFiniteNext ==
  ASSUME TasksTypeOK'
  PROVE  /\ IsFiniteSet(Open') /\ Cardinality(Open') \in Nat
         /\ IsFiniteSet(Asking') /\ Cardinality(Asking') \in Nat
<1>1. rows' \in Seq(Escalation)
  BY DEF TasksTypeOK
<1>2. DOMAIN rows' = 1..Len(rows') /\ Len(rows') \in Nat
  BY <1>1, LenProperties
<1>3. IsFiniteSet(DOMAIN rows')
  BY <1>2, FS_Interval
<1>4. Open' \subseteq DOMAIN rows' /\ Asking' \subseteq Ids
  BY DEF Open, Asking
<1> QED BY <1>3, <1>4, IdsFinite, FS_Subset, FS_CardinalityType

\* Only the work and its re-runs run.
LEMMA NoTriages ==
  ASSUME TasksTypeOK, WorkInv, RerunsOnly, NEW w \in Ids, Begun(w)
  PROVE  /\ run[w].kind # "triage" /\ w \notin Triages \union Leaves \union Agains
         /\ run[w].env.row # 0 => w = RerunOf(run[w].env.row) /\ run[w].env.row \in DOMAIN rows
<1>1. NameOK(w) /\ EnvOK(run[w].kind, run[w].env)
  BY DEF WorkInv, RunOK
<1>2. run[w].kind # "triage"
  BY <1>1, RowsShape DEF EnvOK, RerunsOnly
<1>3. w \notin Triages \union Leaves
  BY <1>1, Families DEF NameOK, RerunsOnly
<1>4. w \notin Agains
  BY <1>1, RowsShape DEF NameOK, RerunsOnly
<1> QED BY <1>1, <1>2, <1>3, <1>4, Families DEF NameOK

LEMMA CountStays ==
  ASSUME TasksTypeOK, TasksTypeOK', Cardinality(Open) + Cardinality(Asking) <= 1 + lost,
         Open' \subseteq Open, Asking' \subseteq Asking, lost' >= lost
  PROVE  Cardinality(Open') + Cardinality(Asking') <= 1 + lost'
<1>1. Cardinality(Open') <= Cardinality(Open) /\ Cardinality(Asking') <= Cardinality(Asking)
  BY OpenFinite, FS_Subset
<1>2. lost \in Nat /\ lost' \in Nat
  BY SettingShape DEF TasksTypeOK
<1> QED BY <1>1, <1>2, OpenFinite, OpenFiniteNext

\* A run that goes on without settling or parking asks no more than before.
LEMMA AskingStays ==
  ASSUME TasksTypeOK, NEW w \in Ids, Moves(w), rows' = rows,
         run[w].kind = "work" /\ run'[w].pc \in {"settle", "ensure", "body", "escalate", "park"}
           => run[w].pc \in {"ensure", "body", "escalate", "park"} /\ run'[w].pc # "settle"
  PROVE  Asking' \subseteq Asking /\ Open' = Open
BY DEF Asking, Open, Moves, Begun

LEMMA CountSettle ==
  ASSUME TasksTypeOK, TasksTypeOK', WorkInv, RerunsOnly,
         Cardinality(Open) + Cardinality(Asking) <= 1 + lost, NEW w \in Ids, ResolveReRun(w), Moves(w)
  PROVE  Cardinality(Open') + Cardinality(Asking') <= 1 + lost'
<1> DEFINE r == run[w].env.row
<1>1. run[w].pc = "settle" /\ Settle(r) /\ Goto(w, "ensure") /\ RunOK(w) /\ Begun(w)
  BY DEF ResolveReRun, WorkInv, Moves
<1>2. w = RerunOf(r) /\ r \in DOMAIN rows /\ run[w].kind = "work"
  BY <1>1, NoTriages, Names DEF RunOK, StagesOf, Kinds, TasksTypeOK, Run
<1>3. /\ DOMAIN rows' = DOMAIN rows /\ rows'[r].status = "resolved"
      /\ \A q \in DOMAIN rows : q # r => rows'[q] = rows[q]
  BY <1>1, <1>2, SettleEffect
<1>4. lost' >= lost /\ run'[w].pc \in {"settle", "ensure"}
  BY <1>1, GotoEffect, SettingShape DEF Stages
<1>5. Open' = Open \ {r}
  BY <1>2, <1>3 DEF Open
<1>6. Asking' \subseteq Asking \union {w}
  <2> SUFFICES ASSUME NEW v \in Asking', v # w PROVE v \in Asking
    OBVIOUS
  <2>1. v \in Ids /\ run'[v] = run[v]
    BY DEF Asking, Moves
  <2>2. CASE Begun(v) /\ run[v].pc = "settle"
    <3>1. run[v].env.row # 0
      BY <2>1, <2>2 DEF WorkInv, RunOK
    <3>2. v = RerunOf(run[v].env.row) /\ run[v].env.row \in DOMAIN rows
      BY <2>1, <2>2, <3>1, NoTriages
    <3>3. run[v].env.row # r
      BY <1>2, <3>2
    <3> QED BY <1>3, <2>1, <2>2, <3>2, <3>3 DEF Asking, Begun
  <2>3. CASE ~(Begun(v) /\ run[v].pc = "settle")
    BY <2>1, <2>3 DEF Asking, Begun
  <2> QED BY <2>2, <2>3
<1> HIDE DEF r
<1>7. CASE r \in Open
  <2>1. Cardinality(Open') = Cardinality(Open) - 1
    BY <1>5, <1>7, OpenFinite, FS_RemoveElement
  <2>2. IsFiniteSet(Asking \union {w}) /\ Cardinality(Asking \union {w}) <= Cardinality(Asking) + 1
    <3>1. /\ IsFiniteSet(Asking \union {w})
          /\ Cardinality(Asking \union {w}) = IF w \in Asking THEN Cardinality(Asking) ELSE Cardinality(Asking) + 1
      BY OpenFinite, FS_AddElement
    <3> QED BY <3>1, OpenFinite
  <2>3. Cardinality(Asking') <= Cardinality(Asking \union {w}) /\ Cardinality(Asking \union {w}) \in Nat
    BY <1>6, <2>2, FS_Subset, FS_CardinalityType
  <2>4. lost \in Nat /\ lost' \in Nat
    BY SettingShape DEF TasksTypeOK
  <2> QED BY <1>4, <2>1, <2>2, <2>3, <2>4, OpenFinite, OpenFiniteNext
<1>8. CASE r \notin Open
  <2>1. w \in Asking
    BY <1>1, <1>2, <1>8 DEF Asking, Open, r
  <2>2. Asking' \subseteq Asking /\ Open' \subseteq Open
    BY <1>5, <1>6, <2>1
  <2> QED BY <1>4, <2>2, CountStays
<1> QED BY <1>7, <1>8

LEMMA CountPark ==
  ASSUME TasksTypeOK, TasksTypeOK', WorkInv, RerunsOnly,
         Cardinality(Open) + Cardinality(Asking) <= 1 + lost, NEW w \in Ids, ParkEscalation(w), Moves(w)
  PROVE  Cardinality(Open') + Cardinality(Asking') <= 1 + lost'
<1>1. PICK pc \in {"reply", "ended"} : Goto(w, pc)
  BY DEF ParkEscalation
<1>2. run[w].pc = "park" /\ Begun(w) /\ run[w].kind = "work"
  BY NoTriages, EnsuredRun DEF ParkEscalation, Moves, StagesOf, Kinds
<1>3. \A r \in DOMAIN rows' : (r \in DOMAIN rows /\ rows'[r] = rows[r]) \/ r = Len(rows) + 1
  BY ParkedPending DEF ParkEscalation
<1>4. Open' \subseteq Open \union {Len(rows) + 1}
  BY <1>3 DEF Open
<1>5. Cardinality(Open') <= Cardinality(Open) + 1
  <2> DEFINE n == Len(rows) + 1
  <2>1. /\ IsFiniteSet(Open \union {n})
        /\ Cardinality(Open \union {n}) = IF n \in Open THEN Cardinality(Open) ELSE Cardinality(Open) + 1
    <3> HIDE DEF n
    <3> QED BY OpenFinite, FS_AddElement
  <2>2. Cardinality(Open') <= Cardinality(Open \union {n}) /\ Cardinality(Open \union {n}) \in Nat
    BY <1>4, <2>1, FS_Subset, FS_CardinalityType
  <2> HIDE DEF n
  <2> QED BY <2>1, <2>2, OpenFinite, OpenFiniteNext
<1>6. w \in Asking
  BY <1>2 DEF Asking
<1>7. Asking' \subseteq Asking /\ (run'[w].pc = pc => w \notin Asking')
  <2>1. run'[w].pc \in {pc, "park"}
    BY <1>1, <1>2, GotoEffect DEF Stages
  <2>2. ASSUME NEW v \in Asking', v # w PROVE v \in Asking
    <3>1. v \in Ids /\ run'[v] = run[v]
      BY <2>2 DEF Asking, Moves
    <3>2. CASE Begun(v) /\ run[v].pc = "settle"
      <4>1. run[v].env.row \in DOMAIN rows
        BY <3>1, <3>2, NoTriages DEF WorkInv, RunOK
      <4>2. rows'[run[v].env.row] = rows[run[v].env.row]
        <5>1. DOMAIN rows \subseteq DOMAIN rows' /\ run[v].env.row # Len(rows) + 1
          <6>1. PICK t, k, e : ParkRow(t, k, e)
            BY DEF ParkEscalation
          <6>2. Len(rows') = Len(rows) + 1 /\ DOMAIN rows' = 1..Len(rows')
            BY <6>1, RowsShape, LenProperties DEF ParkRow, TasksTypeOK
          <6> QED BY <4>1, <6>2, RowsShape
        <5> QED BY <1>3, <4>1, <5>1
      <4> QED BY <2>2, <3>1, <3>2, <4>2 DEF Asking, Begun
    <3>3. CASE ~(Begun(v) /\ run[v].pc = "settle")
      BY <2>2, <3>1, <3>3 DEF Asking, Begun
    <3> QED BY <3>2, <3>3
  <2>3. run'[w].pc = pc => w \notin Asking'
    BY DEF Asking, Moves
  <2> QED BY <1>6, <2>2, <2>3
<1>8. CASE run'[w].pc = pc /\ lost' = lost
  <2>1. Asking' \subseteq Asking \ {w}
    BY <1>7, <1>8
  <2>2. IsFiniteSet(Asking \ {w}) /\ Cardinality(Asking \ {w}) = Cardinality(Asking) - 1
    BY <1>6, OpenFinite, FS_RemoveElement
  <2>3. Cardinality(Asking') <= Cardinality(Asking) - 1
    BY <2>1, <2>2, FS_Subset
  <2> QED BY <1>5, <1>8, <2>3, OpenFinite, OpenFiniteNext, SettingShape
<1>9. CASE lost' = lost + 1
  <2>1. Cardinality(Asking') <= Cardinality(Asking)
    BY <1>7, OpenFinite, FS_Subset
  <2> QED BY <1>5, <1>9, <2>1, OpenFinite, OpenFiniteNext, SettingShape
<1> QED BY <1>1, <1>8, <1>9, GotoEffect DEF Stages

\* An ensured run goes on to its body, or to the child of an orchestrator.
LEMMA EnsureMoves ==
  ASSUME TasksTypeOK, NEW w \in Ids, EnsureTask(w)
  PROVE  /\ run[w].pc = "ensure" /\ rows' = rows /\ lost' >= lost
         /\ run'[w].pc \in {"ensure", IF run[w].kind = "orchestrator" THEN "create" ELSE "body"}
         /\ run'[w].result = run[w].result
<1> DEFINE t == IF FoundTask(w) = None THEN w ELSE FoundTask(w)
           to == Routing(w)
           pc == IF run[w].kind = "orchestrator" THEN "create" ELSE "body"
<1>1. /\ Proceed(w, [run[w] EXCEPT !.pc = pc, !.task = t, !.to = to])
      /\ run[w].pc = "ensure" /\ rows' = rows
  BY DEF EnsureTask
<1> HIDE DEF t, to, pc
<1>2. PICK x : x = [run[w] EXCEPT !.pc = pc, !.task = t, !.to = to]
  OBVIOUS
<1>3. x.pc = pc /\ x.result = run[w].result
  BY <1>2, RunShape DEF Run
<1>4. (run' = [run EXCEPT ![w] = x] /\ lost' = lost) \/ (run' = run /\ lost' = lost + 1)
  BY <1>1, <1>2 DEF Proceed
<1> QED BY <1>1, <1>3, <1>4, SettingShape DEF TasksTypeOK, pc

\* No triage runs a step.
LEMMA NoTriageSteps ==
  ASSUME TasksTypeOK, WorkInv, RerunsOnly, NEW w \in Ids, Step(w)
  PROVE  /\ ~RecordAgain(w) /\ ~StartAgain(w) /\ ~ParkReview(w)
         /\ \A f \in setting.findings : ~RunTriage(w, f)
         /\ SpawnChild(w) => w = Parent
         /\ SpawnChild(w) \/ Moves(w)
<1>1. ASSUME run[w].pc \in {"record", "start", "review", "spawn"} \/ (run[w].pc = "body" /\ run[w].kind = "triage")
      PROVE  run[w].pc = "spawn" /\ w = Parent
  <2>1. Begun(w) /\ run[w].kind # "triage" /\ w \notin Triages
    BY <1>1, NoTriages DEF Begun
  <2>2. run[w].pc \in StagesOf(run[w].kind) /\ run[w].kind \in Kinds /\ RunOK(w)
    BY <1>1, EnsuredRun DEF WorkInv
  <2>3. run[w].kind = "orchestrator" /\ run[w].pc = "spawn"
    BY <1>1, <2>1, <2>2 DEF StagesOf, Kinds
  <2> QED BY <2>1, <2>2, <2>3 DEF RunOK, NameOK
<1>2. /\ ~RecordAgain(w) /\ ~StartAgain(w) /\ ~ParkReview(w) /\ (SpawnChild(w) => w = Parent)
      /\ \A f \in setting.findings : ~RunTriage(w, f)
  BY <1>1 DEF RecordAgain, StartAgain, ParkReview, RunTriage, SpawnChild
<1>3. CASE ResolveReRun(w) \/ EnsureTask(w)
  BY <1>2, <1>3, StepResolveReRun, StepEnsureTask
<1>4. CASE \E o \in setting.outcomes : RunWork(w, o)
  BY <1>2, <1>4, StepRunWork
<1>5. CASE EscalateTask(w) \/ ParkEscalation(w)
  BY <1>2, <1>5, StepEscalateTask, StepParkEscalation
<1>6. CASE Reply(w) \/ CompletePlain(w) \/ TellParent(w)
  BY <1>2, <1>6, StepReply, StepCompletePlain, StepTellParent
<1>7. CASE CreateChildTask(w) \/ BeginChildTask(w) \/ Resume(w) \/ CloseChildTask(w)
  BY <1>2, <1>7, StepCreateChildTask, StepBeginChildTask, StepResume, StepCloseChildTask
<1> QED BY <1>2, <1>3, <1>4, <1>5, <1>6, <1>7 DEF Step

\* The requests that can stand anywhere but at the start are re-runs.
LEMMA RerunRequests ==
  ASSUME TasksTypeOK, WorkInv, setting.ways = {"rerun"}, RerunsOnly, NEW r \in RowIds
  PROVE  /\ Serve(r) => StartRerun(r)
         /\ Ask(r) => Answer(r, "rerun")
         /\ \A way \in Ways : Crash(r, way) => way = "rerun"
<1>1. At(r, "triage", "idle") /\ At(r, "bulk", "idle")
  BY DEF RerunsOnly
<1>2. Serve(r) => StartRerun(r)
  BY <1>1 DEF Serve, CreateTriageTask, StartTriage, SettleTriaged, BulkCreateTask, BulkStart, At
<1>3. Ask(r) => Answer(r, "rerun")
  BY DEF Ask, BulkResolve, Answer
<1>4. \A way \in Ways : Crash(r, way) => way = "rerun"
  BY <1>1, WayNames DEF Crash, At
<1> QED BY <1>2, <1>3, <1>4

LEMMA RerunsOnlyNext ==
  ASSUME TasksTypeOK, TasksTypeOK', WorkInv, Next, Grown, setting.ways = {"rerun"}, RerunsOnly
  PROVE  RerunsOnly'
<1>1. ASSUME NEW r \in RowIds PROVE At(r, "triage", "idle")' /\ At(r, "bulk", "idle")'
  <2>1. At(r, "triage", "idle") /\ At(r, "bulk", "idle")
    BY DEF RerunsOnly
  <2>2. ASSUME NEW w \in Ids, Step(w) PROVE call' = call
    BY <2>2 DEF Step, ResolveReRun, EnsureTask, RunWork, EscalateTask, ParkEscalation, Reply, CompletePlain,
       TellParent, CreateChildTask, BeginChildTask, SpawnChild, Resume, CloseChildTask, RunTriage,
       RecordAgain, StartAgain, ParkReview
  <2>3. ASSUME NEW q \in RowIds, Serve(q) \/ Ask(q) \/ \E way \in Ways : Crash(q, way)
        PROVE  \E pc \in {"idle", "create", "start", "settle", "done"} : CallTo(q, "rerun", pc)
    BY <2>3, RerunRequests DEF StartRerun, Answer, Crash
  <2>4. ASSUME NEW q \in RowIds, NEW pc \in {"idle", "create", "start", "settle", "done"}, CallTo(q, "rerun", pc)
        PROVE  call'[r]["triage"] = call[r]["triage"] /\ call'[r]["bulk"] = call[r]["bulk"]
    BY <2>4, CallMoves, WayNames
  <2> QED BY <2>1, <2>2, <2>3, <2>4 DEF Next, At
<1>2. ASSUME NEW r \in RowIds PROVE ~Begun(TriageOf(r))'
  <2>1. ~Begun(TriageOf(r)) /\ TriageOf(r) \in Triages /\ TriageOf(r) \in Ids
    BY OfRow, Names DEF RerunsOnly
  <2>2. ASSUME NEW w \in Ids, Step(w) PROVE run'[TriageOf(r)] = run[TriageOf(r)] \/ Begun(TriageOf(r))
    <3>1. CASE Moves(w)
      BY <2>1, <3>1 DEF Moves
    <3>2. CASE SpawnChild(w)
      <4>1. w = Parent /\ Child(w) = Work
        BY <2>2, <3>2, NoTriageSteps, ChildNames
      <4>2. TriageOf(r) # w /\ TriageOf(r) # Child(w)
        BY <2>1, <4>1, Names
      <4> QED BY <2>1, <3>2, <4>2 DEF SpawnChild, TasksTypeOK
    <3> QED BY <2>2, <3>1, <3>2, NoTriageSteps
  <2>3. ASSUME NEW q \in RowIds, Serve(q) \/ Ask(q) \/ \E way \in Ways : Crash(q, way)
        PROVE  run'[TriageOf(r)] = run[TriageOf(r)]
    <3>1. RerunOf(q) # TriageOf(r)
      BY DEF RerunOf, TriageOf
    <3> QED BY <2>1, <2>3, <3>1, RerunRequests DEF StartRerun, Start, RerunOf, Answer, Crash, TasksTypeOK
  <2> QED BY <2>1, <2>2, <2>3 DEF Next, Begun
<1>3. ASSUME NEW r \in DOMAIN rows', rows'[r].status # "pending" PROVE Begun(RerunOf(r))'
  <2>1. rows' \in Seq(Escalation) /\ Len(rows') <= MaxRows /\ MaxRows \in Nat
    BY TasksAssumption DEF TasksTypeOK
  <2>2. r \in RowIds /\ rows'[r] \in Escalation
    BY <2>1, LenProperties, ElementOfSeq DEF RowIds
  <2>3. Resolved(r)' /\ RerunOf(r) \in Ids
    BY <1>3, <2>2, OfRow, Names DEF Resolved, Escalation
  <2>4. CASE Resolved(r)
    BY <2>3, <2>4 DEF RerunsOnly, Resolved, Grown
  <2>5. CASE ~Resolved(r)
    <3>1. PICK w \in Ids : ResolveReRun(w) /\ run[w].env.row = r
      <4>1. At(r, "triage", "idle") /\ At(r, "bulk", "idle")
        BY <2>2 DEF RerunsOnly
      <4> QED BY <2>2, <2>3, <2>5, <4>1, WhoResolves DEF SettleTriaged, BulkResolve, At
    <3>2. Begun(w) /\ r # 0
      BY <2>2, <3>1 DEF ResolveReRun, Begun, RowIds
    <3>3. w = RerunOf(r)
      BY <3>1, <3>2, NoTriages
    <3> QED BY <3>2, <3>3 DEF Grown
  <2> QED BY <2>4, <2>5
<1> QED BY <1>1, <1>2, <1>3 DEF RerunsOnly

\* A run that goes on asks no more than before.
LEMMA CountStep ==
  ASSUME TasksTypeOK, TasksTypeOK', WorkInv, RerunsOnly,
         Cardinality(Open) + Cardinality(Asking) <= 1 + lost, NEW w \in Ids, Step(w)
  PROVE  Cardinality(Open') + Cardinality(Asking') <= 1 + lost'
<1>1. CASE ResolveReRun(w)
  BY <1>1, StepResolveReRun, CountSettle
<1>2. CASE ParkEscalation(w)
  BY <1>2, StepParkEscalation, CountPark
<1>3. CASE SpawnChild(w)
  <2>1. w = Parent /\ Child(w) = Work /\ Work # Parent /\ Work \in Ids
    BY <1>3, NoTriageSteps, ChildNames, Names
  <2>2. run[w].pc = "spawn" /\ RunOK(w) /\ ChildOK(w) /\ Begun(w) /\ run[w].kind = "orchestrator"
    BY <1>3, <2>1 DEF SpawnChild, WorkInv, RunOK, NameOK, Begun
  <2>3. Work \in Asking
    BY <2>1, <2>2 DEF ChildOK, Waiting, Asking
  <2>4. /\ \A v \in Ids : v # w /\ v # Work => run'[v] = run[v]
        /\ run'[w].kind = run[w].kind /\ rows' = rows /\ lost' = lost
    BY <1>3, <2>1 DEF SpawnChild, TasksTypeOK, Run
  <2>5. w \notin Asking' /\ Asking' \subseteq Asking /\ Open' = Open
    BY <2>1, <2>2, <2>3, <2>4 DEF Asking, Open, Begun
  <2> QED BY <2>4, <2>5, CountStays, SettingShape
<1>4. CASE ~ResolveReRun(w) /\ ~ParkEscalation(w) /\ ~SpawnChild(w)
  <2>1. Moves(w)
    BY <1>4, NoTriageSteps
  <2>2. /\ rows' = rows /\ lost' >= lost
        /\ run[w].kind = "work" /\ run'[w].pc \in {"settle", "ensure", "body", "escalate", "park"}
             => run[w].pc \in {"ensure", "body", "escalate", "park"} /\ run'[w].pc # "settle"
    <3>1. lost \in Nat /\ run[w] \in Run
      BY SettingShape, RunShape
    <3>2. CASE EnsureTask(w)
      BY <3>2, EnsureMoves
    <3>3. CASE \E o \in setting.outcomes : RunWork(w, o)
      BY <3>1, <3>3 DEF RunWork, TasksTypeOK, Run
    <3>4. CASE EscalateTask(w)
      BY <3>1, <3>4, GotoEffect DEF EscalateTask, Stages
    <3>5. CASE Reply(w) \/ CompletePlain(w) \/ TellParent(w)
      <4>1. PICK pc \in {"ended", "tell"} : Goto(w, pc) /\ rows' = rows
        BY <3>5 DEF Reply, CompletePlain, TellParent
      <4>2. run[w].pc \in {"reply", "complete", "tell"}
        BY <3>5 DEF Reply, CompletePlain, TellParent
      <4> QED BY <3>1, <4>1, <4>2, GotoEffect DEF Stages
    <3>6. CASE CreateChildTask(w) \/ BeginChildTask(w) \/ CloseChildTask(w)
      <4>1. PICK pc \in {"begin", "spawn", "reply"} : Goto(w, pc) /\ rows' = rows
        BY <3>6 DEF CreateChildTask, BeginChildTask, CloseChildTask
      <4>2. run[w].pc \in {"create", "begin", "close"}
        BY <3>6 DEF CreateChildTask, BeginChildTask, CloseChildTask
      <4> QED BY <3>1, <4>1, <4>2, GotoEffect DEF Stages
    <3>7. CASE Resume(w)
      BY <3>1, <3>7 DEF Resume, TasksTypeOK, Run
    <3> QED BY <1>4, <3>2, <3>3, <3>4, <3>5, <3>6, <3>7, NoTriageSteps DEF Step
  <2> QED BY <2>1, <2>2, AskingStays, CountStays
<1> QED BY <1>1, <1>2, <1>3, <1>4

\* A re-run that starts takes over from its row, which is open until then.
LEMMA CountStart ==
  ASSUME TasksTypeOK, TasksTypeOK', WorkInv, WorkInv', RerunsOnly,
         Cardinality(Open) + Cardinality(Asking) <= 1 + lost, NEW r \in RowIds, StartRerun(r)
  PROVE  Cardinality(Open') + Cardinality(Asking') <= 1 + lost'
<1>1. /\ Start(RerunOf(r), rows[r].kind, [rows[r].env EXCEPT !.row = r])
      /\ rows' = rows /\ lost' = lost /\ RerunOf(r) \in Ids /\ RerunOf(r) \in Reruns /\ RerunOf(r) # Work
  BY OfRow, Names DEF StartRerun, RerunOf
<1>2. \A v \in Ids : v # RerunOf(r) => run'[v] = run[v]
  BY <1>1 DEF Start, TasksTypeOK
<1>3. r \in DOMAIN rows /\ r # 0
  BY WayNames DEF StartRerun, WorkInv, CallOK, At, RowIds
<1>4. CASE Begun(RerunOf(r))
  <2>1. run' = run
    BY <1>1, <1>4 DEF Start, Begun
  <2>2. Asking' = Asking /\ Open' = Open
    BY <1>1, <2>1 DEF Asking, Open, Begun
  <2> QED BY <1>1, <2>2
<1>5. CASE ~Begun(RerunOf(r))
  <2>1. rows[r].status = "pending"
    BY <1>3, <1>5 DEF RerunsOnly
  <2>2. run'[RerunOf(r)] = Started(rows[r].kind, [rows[r].env EXCEPT !.row = r])
    BY <1>1, <1>5 DEF Start, Begun, TasksTypeOK
  <2>3. Begun(RerunOf(r))'
    BY <2>2 DEF Begun, Started, Absent
  <2>4. run'[RerunOf(r)].env.row = r
    BY <1>1, <2>3, OfRow DEF WorkInv, RunOK, NameOK
  <2>5. run'[RerunOf(r)].pc = IF run'[RerunOf(r)].env.row = 0 THEN "ensure" ELSE "settle"
    BY <2>2 DEF Started, Absent
  <2>6. RerunOf(r) \notin Asking'
    BY <1>1, <1>3, <2>1, <2>3, <2>4, <2>5 DEF Asking
  <2>7. Asking' \subseteq Asking /\ Open' = Open
    BY <1>1, <1>2, <2>6 DEF Asking, Open, Begun
  <2> QED BY <1>1, <2>7, CountStays, SettingShape
<1> QED BY <1>4, <1>5

\* While rows are answered by re-runs alone (api/escalations/resolve.ts) the work
\* has one open row, and one more at most for every answer lost when a row was
\* parked: each row and each run that may yet park one is counted once.
THEOREM WorkIsAskedOnce == Spec => []OneOpenRow
<1>1. Init => AskedOnce
  <2> SUFFICES ASSUME Init, setting.ways = {"rerun"}
               PROVE  RerunsOnly /\ Cardinality(Open) + Cardinality(Asking) <= 1 + lost
    BY DEF AskedOnce
  <2>1. TasksTypeOK /\ WorkInv
    BY InitWork
  <2>2. rows = <<>> /\ DOMAIN rows = {} /\ lost = 0 /\ \A r \in RowIds, way \in Ways : At(r, way, "idle")
    BY DEF Init, At
  <2>3. \A v \in Ids : Begun(v) => v \in {Parent, Work} /\ (v = Parent => run[v].kind = "orchestrator")
    <3>1. \A v \in Ids \ {Parent, Work} : run[v].pc = "absent"
      BY DEF Init, Absent
    <3> QED BY <2>1, <3>1 DEF Begun, WorkInv, RunOK, NameOK
  <2>4. RerunsOnly
    <3>1. \A r \in RowIds : TriageOf(r) \in Ids /\ TriageOf(r) \notin {Parent, Work}
      BY OfRow, Names
    <3> QED BY <2>2, <2>3, <3>1, WayNames DEF RerunsOnly
  <2>5. Open = {} /\ Asking \subseteq {Work}
    BY <2>2, <2>3, Names DEF Open, Asking
  <2>6. Cardinality(Open) = 0 /\ Cardinality(Asking) <= 1
    <3>1. Cardinality({Work}) = 1 /\ IsFiniteSet({Work})
      BY FS_Singleton
    <3> QED BY <2>5, <3>1, FS_Subset, FS_EmptySet
  <2> QED BY <2>1, <2>2, <2>4, <2>6, OpenFinite
<1>2. ASSUME TasksTypeOK, WorkInv, [Next]_vars, AskedOnce PROVE AskedOnce'
  <2>1. CASE UNCHANGED vars
    BY <1>2, <2>1 DEF vars, AskedOnce, RerunsOnly, At, Begun, Open, Asking
  <2>2. CASE ~UNCHANGED vars
    <3>1. Next /\ TasksTypeOK' /\ WorkInv' /\ Grown
      BY <1>2, <2>2, NextWork
    <3> SUFFICES ASSUME setting.ways = {"rerun"}
                 PROVE  RerunsOnly' /\ Cardinality(Open') + Cardinality(Asking') <= 1 + lost'
      BY <3>1 DEF AskedOnce, Grown
    <3>2. RerunsOnly /\ Cardinality(Open) + Cardinality(Asking) <= 1 + lost
      BY <1>2 DEF AskedOnce
    <3>3. RerunsOnly'
      BY <1>2, <3>1, <3>2, RerunsOnlyNext
    <3>4. ASSUME NEW w \in Ids, Step(w) PROVE Cardinality(Open') + Cardinality(Asking') <= 1 + lost'
      BY <1>2, <3>1, <3>2, <3>4, CountStep
    <3>5. ASSUME NEW r \in RowIds, StartRerun(r) PROVE Cardinality(Open') + Cardinality(Asking') <= 1 + lost'
      BY <1>2, <3>1, <3>2, <3>5, CountStart
    <3>6. ASSUME NEW r \in RowIds, Ask(r) \/ \E way \in Ways : Crash(r, way)
          PROVE  Cardinality(Open') + Cardinality(Asking') <= 1 + lost'
      <4>1. UNCHANGED <<rows, run, lost>>
        BY <1>2, <3>2, <3>6, RerunRequests DEF Answer, Crash
      <4>2. Open' = Open /\ Asking' = Asking
        BY <4>1 DEF Open, Asking, Begun
      <4> QED BY <3>2, <4>1, <4>2
    <3> QED BY <1>2, <3>1, <3>2, <3>3, <3>4, <3>5, <3>6, RerunRequests DEF Next
  <2> QED BY <2>1, <2>2
<1>3. TasksTypeOK /\ AskedOnce => OneOpenRow
  <2> SUFFICES ASSUME TasksTypeOK, AskedOnce, setting.ways = {"rerun"}
               PROVE  Cardinality({r \in DOMAIN rows : rows[r].status = "pending"}) <= 1 + lost
    BY DEF OneOpenRow
  <2>1. Cardinality(Open) <= 1 + lost
    BY OpenFinite, SettingShape DEF AskedOnce
  <2> QED BY <2>1 DEF Open
<1> QED BY <1>1, <1>2, <1>3, WorkInvHolds, PTL DEF Spec

-----------------------------------------------------------------------------
(* The work is never silently lost                                          *)

\* A triage of row r has handed it on: it started the work anew, or parked a row.
HandedBy(v, r) ==
  /\ Begun(v) /\ run[v].kind = "triage" /\ run[v].env.about = r
  /\ run[v].pc \in {"reply", "ended"} /\ run[v].result \in {"direct", "review"}
Handed(r) == \E v \in Ids : HandedBy(v, r)
InTriage(r) == Begun(TriageOf(r)) /\ ~Handed(r)

\* A run of the work that answers row r or a later one, or is about to park a row.
Works(w, r) ==
  /\ Begun(w) /\ run[w].kind = "work" /\ run[w].pc # "ended"
  /\ run[w].pc \in {"escalate", "park"} \/ run[w].env.row >= r
Asked(r) == rows[r].kind = "work" /\ rows[r].status = "pending"

\* Somebody or something is at the work from row r on.
Carried(r) ==
  \/ \E w \in Ids : Works(w, r)
  \/ \E t \in RowIds : t >= r /\ InTriage(t)
  \/ \E b \in RowIds : b > r /\ InBulk(b)
  \/ \E o \in DOMAIN rows : o > r /\ Asked(o)

\* The work has begun (0), or the triage of a row.
Reached(r) == IF r = 0 THEN Begun(Work) ELSE Begun(TriageOf(r))

\* What a run of a triage found, at each of its stages.
FoundAt(pc) ==
  IF pc \in {"record", "start"} THEN {"direct"}
  ELSE IF pc = "review" THEN {"review"}
  ELSE IF pc \in {"escalate", "park"} THEN {"throw"}
  ELSE IF pc = "reply" THEN {"direct", "review"}
  ELSE {"direct", "review", "throw"}

FoundOK(v) ==
  Begun(v) /\ run[v].kind = "triage" =>
    /\ run[v].pc \notin {"settle", "ensure", "body"} => run[v].result \in FoundAt(run[v].pc)
    /\ run[v].result = "throw" => "throw" \in setting.findings

\* The router of row r goes on when the triage has handed the row on; a bulk
\* triage has no router.
RouterOK(r) ==
  /\ heard[TriageOf(r)] # None => Handed(r)
  /\ Begun(TriageOf(r)) => IF run[TriageOf(r)].kind = "orchestrator"
                           THEN run[TriageOf(r)].pc \in {"close", "reply", "ended"} => Handed(r)
                           ELSE "bulk" \in setting.ways

\* Only a run with a parent tells it.
TellOK(w) == run[w].pc = "tell" => setting.parent

TriageInv == (\A v \in Ids : FoundOK(v) /\ TellOK(v)) /\ \A r \in RowIds : RouterOK(r)

CarriedOn == \A r \in 0..MaxRows : Reached(r) => Delivered \/ Carried(r)

\* Every finding hands the row on, and no bulk triage is cut off or fails.
HandsOn(s) ==
  /\ "unresolved" \notin s.findings
  /\ "bulk" \in s.ways => s.crashes = 0 /\ "throw" \notin s.findings

LEMMA StartedFields ==
  ASSUME NEW kind, NEW env
  PROVE  LET x == Started(kind, env) IN
         /\ x.kind = kind /\ x.env = env /\ x.result = "none"
         /\ x.pc = IF env.row = 0 THEN "ensure" ELSE "settle"
BY DEF Started, Absent

\* A run that has begun is changed by its own steps only.
LEMMA OnlyOwnSteps ==
  ASSUME TasksTypeOK, WorkInv, Next, NEW v \in Ids, Begun(v)
  PROVE  run'[v] = run[v] \/ Step(v)
<1>1. ASSUME NEW w \in Ids, Step(w), w # v PROVE run'[v] = run[v]
  <2>1. CASE ResolveReRun(w) \/ EnsureTask(w)
    BY <1>1, <2>1, StepResolveReRun, StepEnsureTask DEF Moves
  <2>2. CASE \E o \in setting.outcomes : RunWork(w, o)
    BY <1>1, <2>2, StepRunWork DEF Moves
  <2>3. CASE EscalateTask(w) \/ ParkEscalation(w)
    BY <1>1, <2>3, StepEscalateTask, StepParkEscalation DEF Moves
  <2>4. CASE Reply(w) \/ CompletePlain(w) \/ TellParent(w)
    BY <1>1, <2>4, StepReply, StepCompletePlain, StepTellParent DEF Moves
  <2>5. CASE CreateChildTask(w) \/ BeginChildTask(w) \/ Resume(w) \/ CloseChildTask(w)
    BY <1>1, <2>5, StepCreateChildTask, StepBeginChildTask, StepResume, StepCloseChildTask DEF Moves
  <2>6. CASE SpawnChild(w)
    <3>1. Waiting(w) /\ RunOK(w) /\ ChildOK(w) /\ run[w].pc = "spawn"
      BY <2>6, EnsuredRun DEF SpawnChild, Waiting, Begun, StagesOf, Kinds, WorkInv
    <3>2. Child(w) # v
      BY <3>1 DEF ChildOK
    <3> QED BY <1>1, <2>6, <3>2 DEF SpawnChild, TasksTypeOK
  <2>7. CASE \E f \in setting.findings : RunTriage(w, f)
    BY <1>1, <2>7, StepRunTriage DEF Moves
  <2>8. CASE RecordAgain(w) \/ ParkReview(w)
    BY <1>1, <2>8, StepRecordAgain, StepParkReview DEF Moves
  <2>9. CASE StartAgain(w)
    <3>1. AgainOf(TriageRow(w)) # v
      BY <2>9, StepStartAgain
    <3> QED BY <1>1, <2>9, <3>1 DEF StartAgain, TasksTypeOK, AgainOf
  <2> QED BY <1>1, <2>1, <2>2, <2>3, <2>4, <2>5, <2>6, <2>7, <2>8, <2>9 DEF Step
<1>2. ASSUME NEW r \in RowIds, Serve(r) PROVE run'[v] = run[v]
  BY <1>2 DEF Serve, StartRerun, CreateTriageTask, StartTriage, SettleTriaged, BulkCreateTask, BulkStart,
     Start, Begun, TasksTypeOK
<1>3. ASSUME NEW r \in RowIds, Ask(r) \/ \E way \in Ways : Crash(r, way) PROVE run'[v] = run[v]
  BY <1>3 DEF Ask, BulkResolve, Answer, Crash
<1> QED BY <1>1, <1>2, <1>3 DEF Next

\* Who starts a workflow, and where it starts.
LEMMA Newcomers ==
  ASSUME TasksTypeOK, WorkInv, Next, NEW v \in Ids, ~Begun(v), Begun(v)'
  PROVE  /\ run'[v].pc \in {"ensure", "settle"} /\ run'[v].result = "none"
         /\ v \in Triages => \/ run'[v].kind = "orchestrator"
                             \/ "bulk" \in setting.ways
<1> DEFINE new == \E kind, env : run'[v] = Started(kind, env)
<1>1. ASSUME new PROVE run'[v].pc \in {"ensure", "settle"} /\ run'[v].result = "none"
  BY <1>1, StartedFields
<1>2. ASSUME NEW w \in Ids, Step(w) PROVE new /\ v \notin Triages
  <2>1. ~Moves(w)
    BY DEF Moves, Begun
  <2>2. SpawnChild(w) \/ StartAgain(w)
    BY <1>2, <2>1, StepResolveReRun, StepEnsureTask, StepRunWork, StepEscalateTask, StepParkEscalation,
       StepReply, StepCompletePlain, StepTellParent, StepCreateChildTask, StepBeginChildTask, StepResume,
       StepCloseChildTask, StepRunTriage, StepRecordAgain, StepParkReview DEF Step
  <2>3. CASE SpawnChild(w)
    <3>1. Waiting(w) /\ RunOK(w) /\ run[w].pc = "spawn"
      BY <2>3, EnsuredRun DEF SpawnChild, Waiting, Begun, StagesOf, Kinds, WorkInv
    <3>2. Child(w) \notin Triages /\ v # w
      BY <3>1, WaitingNames, ChildNames, Names DEF Waiting
    <3>3. run'[v] = run[v] \/ (v = Child(w) /\ new)
      BY <2>3, <3>2 DEF SpawnChild, TasksTypeOK
    <3> QED BY <3>2, <3>3 DEF Begun
  <2>4. CASE StartAgain(w)
    <3>1. Begun(w) /\ v # w
      BY <2>4 DEF StartAgain, Begun
    <3>2. run'[v] = run[v] \/ (v = <<"again", TriageRow(w)>> /\ new)
      BY <2>4, <3>1 DEF StartAgain, TasksTypeOK
    <3>3. v = <<"again", TriageRow(w)>> => v \notin Triages
      BY DEF Triages
    <3> QED BY <3>2, <3>3 DEF Begun
  <2> QED BY <2>2, <2>3, <2>4
<1>3. ASSUME NEW r \in RowIds, Serve(r)
      PROVE  new /\ (v \in Triages => run'[v].kind = "orchestrator" \/ "bulk" \in setting.ways)
  <2>1. CASE StartRerun(r)
    <3>1. new /\ v = <<"rerun", r>>
      BY <2>1 DEF StartRerun, Start, Begun, TasksTypeOK
    <3>2. v \notin Triages
      BY <3>1 DEF Triages
    <3> QED BY <3>1, <3>2
  <2>2. CASE StartTriage(r)
    <3>1. run'[v] = Started("orchestrator", TriageEnvelope(r))
      BY <2>2 DEF StartTriage, Start, Begun, TasksTypeOK
    <3> QED BY <3>1, StartedFields
  <2>3. CASE BulkStart(r)
    <3>1. new
      BY <2>3 DEF BulkStart, Start, Begun, TasksTypeOK
    <3>2. "bulk" \in setting.ways
      BY <2>3 DEF BulkStart, WorkInv, CallOK, At
    <3> QED BY <3>1, <3>2
  <2>4. ~CreateTriageTask(r) /\ ~SettleTriaged(r) /\ ~BulkCreateTask(r)
    BY DEF CreateTriageTask, SettleTriaged, BulkCreateTask, Begun
  <2> QED BY <1>3, <2>1, <2>2, <2>3, <2>4 DEF Serve
<1>4. ASSUME NEW r \in RowIds, Ask(r) \/ \E way \in Ways : Crash(r, way) PROVE FALSE
  BY <1>4 DEF Ask, BulkResolve, Answer, Crash, Begun
<1> QED BY <1>1, <1>2, <1>3, <1>4 DEF Next

\* A run of a triage finds something once, and ends on it: having started the work
\* anew, or having parked a row.
LEMMA TriageStep ==
  ASSUME TasksTypeOK, WorkInv, NEW v \in Ids, FoundOK(v), Step(v), run[v].kind = "triage",
         "unresolved" \notin setting.findings
  PROVE  /\ FoundOK(v)'
         /\ run'[v].pc \in {"reply", "ended"} =>
              run[v].pc \in {"reply", "ended"} \/ StartAgain(v) \/ ParkReview(v) \/ run'[v].result = "throw"
         /\ run[v].pc \in {"reply", "ended"} => run'[v].result = run[v].result
<1>1. /\ run[v] \in Run /\ setting' = setting
      /\ run[v].pc \notin {"absent", "settle", "ensure"} => run[v].pc \in StagesOf("triage")
  BY RunShape, EnsuredRun DEF Step, ResolveReRun, EnsureTask, RunWork, EscalateTask, ParkEscalation, Reply,
     CompletePlain, TellParent, CreateChildTask, BeginChildTask, SpawnChild, Resume, CloseChildTask,
     RunTriage, RecordAgain, StartAgain, ParkReview
<1>2. run[v].pc \notin {"complete", "tell", "create", "begin", "spawn", "wait", "close"}
  BY <1>1 DEF StagesOf
<1>3. ASSUME ResolveReRun(v) \/ EnsureTask(v)
      PROVE  FoundOK(v)' /\ run'[v].pc \in {"settle", "ensure", "body"}
  <2>1. run[v].pc \in {"settle", "ensure"} /\ run'[v].pc \in {"settle", "ensure", "body"}
        /\ run'[v].result = run[v].result
    <3>1. CASE ResolveReRun(v)
      BY <3>1, GotoEffect DEF ResolveReRun, Stages
    <3>2. CASE EnsureTask(v)
      BY <3>2, EnsureMoves
    <3> QED BY <1>3, <3>1, <3>2
  <2>2. run'[v].kind = "triage" /\ Begun(v)
    BY <1>3, <2>1, StepResolveReRun, StepEnsureTask DEF Moves
  <2> QED BY <1>1, <2>1, <2>2 DEF FoundOK, Begun
<1>4. ASSUME NEW f \in setting.findings, RunTriage(v, f)
      PROVE  /\ FoundOK(v)' /\ run[v].pc = "body"
             /\ run'[v].pc \notin {"reply", "ended"}
  <2>1. f \in {"direct", "review", "throw"}
    BY <1>4, SettingShape DEF Setting, FindingKinds
  <2>2. /\ run'[v].result = f /\ run[v].pc = "body"
        /\ run'[v].pc = CASE f = "direct" -> "record" [] f = "review" -> "review" [] f = "throw" -> "escalate"
    BY <1>1, <1>4, <2>1 DEF RunTriage, TasksTypeOK, Run
  <2> QED BY <1>1, <1>4, <2>1, <2>2 DEF FoundOK, FoundAt
<1>5. CASE EscalateTask(v) \/ RecordAgain(v) \/ Reply(v)
  <2>1. PICK pc \in {"park", "start", "ended"} :
          /\ Goto(v, pc) /\ (pc = "park" => run[v].pc = "escalate") /\ (pc = "start" => run[v].pc = "record")
          /\ pc = "ended" => run[v].pc = "reply"
    BY <1>5 DEF EscalateTask, RecordAgain, Reply
  <2>2. /\ run'[v].pc \in {pc, run[v].pc} /\ run'[v].result = run[v].result /\ run'[v].kind = run[v].kind
    BY <2>1, GotoEffect DEF Stages
  <2> QED BY <1>1, <2>1, <2>2 DEF FoundOK, FoundAt, Begun
<1>6. CASE ParkEscalation(v)
  <2>1. run[v].pc = "park" /\ run[v].result = "throw"
    BY <1>6 DEF ParkEscalation, FoundOK, FoundAt, Begun
  <2>2. Goto(v, "ended")
    BY <1>6, <2>1 DEF ParkEscalation
  <2>3. run'[v].pc \in {"ended", "park"} /\ run'[v].result = run[v].result /\ run'[v].kind = run[v].kind
    BY <2>1, <2>2, GotoEffect DEF Stages
  <2> QED BY <1>1, <2>1, <2>3 DEF FoundOK, FoundAt, Begun
<1>7. CASE ParkReview(v)
  <2>1. run[v].pc = "review" /\ Goto(v, "reply")
    BY <1>7 DEF ParkReview
  <2>2. run'[v].pc \in {"reply", "review"} /\ run'[v].result = run[v].result /\ run'[v].kind = run[v].kind
    BY <2>1, GotoEffect DEF Stages
  <2> QED BY <1>1, <1>7, <2>1, <2>2 DEF FoundOK, FoundAt, Begun
<1>8. CASE StartAgain(v)
  <2>1. v # <<"again", TriageRow(v)>>
    <3>1. Begun(v) /\ v # AgainOf(TriageRow(v))
      BY <1>8, StepStartAgain DEF StartAgain, Begun
    <3> QED BY <3>1 DEF AgainOf
  <2>2. run'[v].pc = "reply" /\ run'[v].result = run[v].result /\ run[v].pc = "start"
    BY <1>1, <1>8, <2>1 DEF StartAgain, TasksTypeOK, Run
  <2> QED BY <1>1, <1>8, <2>2 DEF FoundOK, FoundAt, Begun
<1>9. \/ ResolveReRun(v) \/ EnsureTask(v) \/ (\E f \in setting.findings : RunTriage(v, f))
      \/ EscalateTask(v) \/ RecordAgain(v) \/ Reply(v) \/ ParkEscalation(v) \/ ParkReview(v) \/ StartAgain(v)
  BY <1>2 DEF Step, RunWork, CompletePlain, TellParent, CreateChildTask, BeginChildTask, SpawnChild, Resume,
     CloseChildTask
<1>10. run[v].pc \in {"reply", "ended"} => ~ResolveReRun(v) /\ ~EnsureTask(v) /\ run'[v].result = run[v].result
  <2> SUFFICES ASSUME run[v].pc \in {"reply", "ended"}
               PROVE  ~ResolveReRun(v) /\ ~EnsureTask(v) /\ run'[v].result = run[v].result
    OBVIOUS
  <2>1. Reply(v) /\ ~ResolveReRun(v) /\ ~EnsureTask(v)
    BY <1>9 DEF ResolveReRun, EnsureTask, RunTriage, EscalateTask, RecordAgain, ParkEscalation, ParkReview,
       StartAgain
  <2> QED BY <2>1, GotoEffect DEF Reply, Stages
<1>11. FoundOK(v)'
  BY <1>3, <1>4, <1>5, <1>6, <1>7, <1>8, <1>9
<1>12. ASSUME run'[v].pc \in {"reply", "ended"}
       PROVE  run[v].pc \in {"reply", "ended"} \/ StartAgain(v) \/ ParkReview(v) \/ run'[v].result = "throw"
  <2>1. CASE EscalateTask(v) \/ RecordAgain(v)
    BY <1>12, <2>1, GotoEffect DEF EscalateTask, RecordAgain, Stages
  <2>2. CASE Reply(v)
    BY <2>2 DEF Reply
  <2>3. CASE ParkEscalation(v)
    BY <2>3, <1>11, <1>12, GotoEffect DEF ParkEscalation, FoundOK, FoundAt, Begun, Stages
  <2> QED BY <1>3, <1>4, <1>9, <1>12, <2>1, <2>2, <2>3
<1> QED BY <1>10, <1>11, <1>12

LEMMA HandedStays ==
  ASSUME TasksTypeOK, WorkInv, TriageInv, Next, Grown, "unresolved" \notin setting.findings,
         NEW v \in Ids, NEW r, HandedBy(v, r)
  PROVE  HandedBy(v, r)'
<1>1. Begun(v) /\ run[v].kind = "triage" /\ run[v].pc \in {"reply", "ended"}
  BY DEF HandedBy
<1>2. run'[v].result = run[v].result
  BY <1>1, OnlyOwnSteps, TriageStep DEF TriageInv
<1> QED BY <1>2 DEF HandedBy, Grown

\* What is heard first is what is heard.
LEMMA HeardChanges ==
  ASSUME TasksTypeOK, WorkInv, Next, NEW v \in Ids, heard'[v] # heard[v]
  PROVE  heard[v] = None /\ \E w \in Ids : heard'[v] = w /\ (Reply(w) \/ TellParent(w))
<1>1. PICK w \in Ids : (Reply(w) \/ TellParent(w)) /\ SignalParent(w)
  <2>1. \E w \in Ids : Reply(w) \/ TellParent(w)
    BY DEF Next, Step, ResolveReRun, EnsureTask, RunWork, EscalateTask, ParkEscalation,
     CompletePlain, CreateChildTask, BeginChildTask, SpawnChild, Resume, CloseChildTask,
     RunTriage, RecordAgain, StartAgain, ParkReview, Serve, StartRerun, CreateTriageTask, StartTriage,
     SettleTriaged, BulkCreateTask, BulkStart, Ask, BulkResolve, Answer, Crash
  <2> QED BY <2>1 DEF Reply, TellParent
<1>2. heard'[v] = heard[v] \/ (heard[v] = None /\ heard'[v] = w)
  BY <1>1 DEF SignalParent, TasksTypeOK
<1> QED BY <1>1, <1>2

LEMMA TellNext ==
  ASSUME TasksTypeOK, WorkInv, Next, Grown, NEW v \in Ids, TellOK(v)
  PROVE  TellOK(v)'
<1> SUFFICES ASSUME run'[v].pc = "tell", run[v].pc # "tell" PROVE setting.parent
  BY DEF TellOK, Grown
<1>1. Begun(v)
  <2>1. Begun(v)'
    BY DEF Begun
  <2> QED BY <2>1, Newcomers
<1>2. Step(v) /\ run[v] \in Run
  BY <1>1, OnlyOwnSteps, RunShape
<1>3. CompletePlain(v)
  <2>1. ~ResolveReRun(v) /\ ~EscalateTask(v) /\ ~ParkEscalation(v) /\ ~Reply(v) /\ ~TellParent(v)
        /\ ~CreateChildTask(v) /\ ~BeginChildTask(v) /\ ~CloseChildTask(v) /\ ~RecordAgain(v) /\ ~ParkReview(v)
    BY <1>2, GotoEffect DEF ResolveReRun, EscalateTask, ParkEscalation, Reply, TellParent, CreateChildTask,
       BeginChildTask, CloseChildTask, RecordAgain, ParkReview, Stages
  <2>2. ~EnsureTask(v)
    BY EnsureMoves
  <2>3. \A o \in setting.outcomes : ~RunWork(v, o)
    BY <1>2 DEF RunWork, TasksTypeOK, Run
  <2>4. \A f \in setting.findings : ~RunTriage(v, f)
    <3> SUFFICES ASSUME NEW f \in setting.findings, RunTriage(v, f) PROVE FALSE
      OBVIOUS
    <3>1. f \in FindingKinds
      BY SettingShape DEF Setting
    <3> QED BY <1>2, <3>1 DEF RunTriage, TasksTypeOK, Run, FindingKinds
  <2>5. ~Resume(v)
    BY <1>2 DEF Resume, TasksTypeOK, Run
  <2>6. ~SpawnChild(v)
    <3> SUFFICES ASSUME SpawnChild(v) PROVE FALSE
      OBVIOUS
    <3>1. run'[v].pc = "wait" \/ \E kind, env : run'[v] = Started(kind, env)
      BY <1>2 DEF SpawnChild, TasksTypeOK, Run
    <3> QED BY <3>1, StartedFields
  <2>7. ~StartAgain(v)
    <3> SUFFICES ASSUME StartAgain(v) PROVE FALSE
      OBVIOUS
    <3>1. run'[v].pc = "reply" \/ \E kind, env : run'[v] = Started(kind, env)
      BY <1>2 DEF StartAgain, TasksTypeOK, Run
    <3> QED BY <3>1, StartedFields
  <2> QED BY <1>2, <2>1, <2>2, <2>3, <2>4, <2>5, <2>6, <2>7 DEF Step
<1>4. run[v].pc = "complete" /\ run[v].to # None
  <2>1. run[v].pc = "complete" /\ Goto(v, IF run[v].to = None THEN "ended" ELSE "tell")
    BY <1>3 DEF CompletePlain
  <2>2. run[v].to = None => run'[v].pc \in {"ended", "complete"}
    BY <2>1, GotoEffect DEF Stages
  <2> QED BY <2>1, <2>2
<1>5. run[v].kind = "work" /\ RouteOK(run[v].kind, run[v].env.about, run[v].to)
  BY <1>1, <1>4, EnsuredRun DEF StagesOf, Kinds
<1> QED BY <1>4, <1>5 DEF RouteOK

LEMMA RouterNext ==
  ASSUME TasksTypeOK, TasksTypeOK', WorkInv, WorkInv', TriageInv, Next, Grown,
         "unresolved" \notin setting.findings, NEW r \in RowIds
  PROVE  RouterOK(r)'
<1> DEFINE t == TriageOf(r)
<1>1. t \in Ids /\ t \in Triages /\ RowOf(t) = r /\ t # Parent /\ t # Work
  BY OfRow, Names
<1>2. Handed(r) => Handed(r)'
  BY HandedStays DEF Handed
<1>3. RouterOK(r)
  BY DEF TriageInv
<1> HIDE DEF t
<1>4. ASSUME heard'[t] # None PROVE Handed(r)'
  <2>1. CASE heard[t] # None
    BY <1>2, <1>3, <2>1 DEF RouterOK, t
  <2>2. CASE heard[t] = None
    <3>1. PICK w \in Ids : heard'[t] = w /\ (Reply(w) \/ TellParent(w))
      BY <1>1, <1>4, <2>2, HeardChanges
    <3>2. run'[w].kind = "triage" /\ run'[w].env.about = r
      BY <1>1, <1>4, <3>1 DEF WorkInv, HeardOK
    <3>3. Begun(w) /\ run[w].pc \in {"reply", "tell"}
      BY <3>1 DEF Reply, TellParent, Begun
    <3>4. run[w].kind = "triage" /\ run[w].env.about = r
      BY <3>2, <3>3 DEF Grown
    <3>5. run[w].pc = "reply"
      BY <3>3, <3>4, EnsuredRun DEF StagesOf
    <3>6. HandedBy(w, r)
      BY <3>3, <3>4, <3>5 DEF TriageInv, FoundOK, FoundAt, HandedBy
    <3> QED BY <1>2, <3>6 DEF Handed
  <2> QED BY <2>1, <2>2
<1>5. ASSUME Begun(t)', run'[t].kind = "orchestrator", run'[t].pc \in {"close", "reply", "ended"}
      PROVE  Handed(r)'
  <2>1. Begun(t) /\ run[t].kind = "orchestrator"
    BY <1>1, <1>5, Newcomers DEF Grown
  <2>2. CASE run[t].pc \in {"close", "reply", "ended"}
    BY <1>2, <1>3, <2>1, <2>2 DEF RouterOK, t
  <2>3. CASE run[t].pc \notin {"close", "reply", "ended"}
    <3>1. Step(t) /\ run[t] \in Run
      BY <1>1, <1>5, <2>1, <2>3, OnlyOwnSteps, RunShape
    <3>2. /\ run[t].pc \in {"ensure", "create", "begin", "spawn", "wait"}
      <4>1. run[t].pc \in StagesOf("orchestrator")
        BY <1>1, <2>1 DEF WorkInv, RunOK
      <4> QED BY <2>3, <4>1 DEF StagesOf
    <3>3. ~EnsureTask(t)
      BY <1>1, <1>5, <2>3, EnsureMoves
    <3>4. ~CreateChildTask(t) /\ ~BeginChildTask(t)
      BY <1>1, <1>5, <2>3, GotoEffect DEF CreateChildTask, BeginChildTask, Stages
    <3>5. ~SpawnChild(t)
      <4> SUFFICES ASSUME SpawnChild(t) PROVE FALSE
        OBVIOUS
      <4>1. Child(t) # t
        BY <1>1, ChildNames, Names
      <4> QED BY <1>1, <1>5, <3>1, <4>1 DEF SpawnChild, TasksTypeOK, Run
    <3>6. Resume(t)
      BY <2>1, <3>1, <3>2, <3>3, <3>4, <3>5 DEF Step, ResolveReRun, RunWork, EscalateTask, ParkEscalation,
         Reply, CompletePlain, TellParent, CloseChildTask, RunTriage, RecordAgain, StartAgain, ParkReview
    <3> QED BY <1>2, <1>3, <3>6 DEF Resume, RouterOK, t
  <2> QED BY <2>2, <2>3
<1>6. Begun(t)' => run'[t].kind = "orchestrator" \/ "bulk" \in setting'.ways
  BY <1>1, <1>3, Newcomers DEF RouterOK, Grown, t
<1> QED BY <1>4, <1>5, <1>6 DEF RouterOK, t

LEMMA TriageInvNext ==
  ASSUME TasksTypeOK, TasksTypeOK', WorkInv, WorkInv', TriageInv, Next, Grown,
         "unresolved" \notin setting.findings
  PROVE  TriageInv'
<1>1. ASSUME NEW v \in Ids PROVE FoundOK(v)'
  <2>1. CASE ~Begun(v)
    BY <2>1, Newcomers DEF FoundOK
  <2>2. CASE Begun(v) /\ run[v].kind # "triage"
    BY <2>2 DEF FoundOK, Grown
  <2>3. CASE Begun(v) /\ run[v].kind = "triage" /\ run'[v] = run[v]
    BY <2>3 DEF TriageInv, FoundOK, Grown, Begun
  <2>4. CASE Begun(v) /\ run[v].kind = "triage" /\ run'[v] # run[v]
    BY <2>4, OnlyOwnSteps, TriageStep DEF TriageInv
  <2> QED BY <2>1, <2>2, <2>3, <2>4
<1> QED BY <1>1, TellNext, RouterNext DEF TriageInv

\* Work that is done may be marked again only by a run of it that escalates.
LEMMA DeliveredStays ==
  ASSUME TasksTypeOK, WorkInv, Next, Grown, Delivered
  PROVE  Delivered' \/ \E w \in Ids : EscalateTask(w) /\ run[w].kind = "work"
<1>1. CASE setting.parent
  BY <1>1, HeardChanges, Names DEF Delivered, Grown
<1>2. CASE ~setting.parent
  <2> SUFFICES ASSUME ~\E w \in Ids : EscalateTask(w) /\ run[w].kind = "work"
               PROVE  task'[Work].status = "completed"
    BY <1>2 DEF Delivered, Grown
  <2>1. task[Work].status = "completed" /\ Work \in TaskIds /\ task \in [TaskIds -> Task]
    BY <1>2, Names DEF Delivered, TasksTypeOK
  <2>2. ASSUME NEW t, NEW status, NEW to, CreateTask(t, status, to) PROVE task'[Work] = task[Work]
    BY <2>1, <2>2 DEF CreateTask
  <2>3. ASSUME NEW t, NEW status, SetTask(t, status), t # Work \/ status = "completed"
        PROVE  task'[Work].status = "completed"
    BY <2>1, <2>3 DEF SetTask, Task
  <2>4. ASSUME NEW w \in Ids, Step(w) PROVE task'[Work].status = "completed"
    <3>1. CASE EnsureTask(w)
      BY <2>1, <2>2, <2>3, <3>1 DEF EnsureTask
    <3>2. CASE EscalateTask(w)
      <4>1. run[w].kind = "triage" /\ run[w].task \in TriageTasks(run[w].env.about)
        BY <2>4, <3>2, EnsuredRun DEF EscalateTask, StagesOf, Kinds, WorkInv, RunOK, EnsuredOK, Begun
      <4>2. run[w].env.about \in RowIds
        BY <3>2, <4>1, RowsShape DEF EscalateTask, WorkInv, RunOK, EnvOK, Begun
      <4>3. run[w].task # Work
        BY <4>1, <4>2, OfRow, Names DEF TriageTasks
      <4> QED BY <2>3, <3>2, <4>3 DEF EscalateTask
    <3>3. CASE Reply(w) \/ CompletePlain(w) \/ CloseChildTask(w)
      BY <2>1, <2>3, <3>3 DEF Reply, CompletePlain, CloseChildTask
    <3>4. CASE CreateChildTask(w)
      BY <2>1, <2>2, <3>4 DEF CreateChildTask
    <3>5. CASE RecordAgain(w)
      BY <2>1, <2>2, <3>5 DEF RecordAgain
    <3>6. CASE BeginChildTask(w)
      <4>1. Waiting(w) /\ RunOK(w) /\ w # Parent
        BY <1>2, <3>6, EnsuredRun DEF BeginChildTask, Waiting, Begun, StagesOf, Kinds, WorkInv, FirstOK
      <4>2. Child(w) # Work
        BY <4>1, WaitingNames, ChildNames, Names
      <4> QED BY <2>3, <3>6, <4>2 DEF BeginChildTask
    <3>7. CASE ~EnsureTask(w) /\ ~EscalateTask(w) /\ ~Reply(w) /\ ~CompletePlain(w) /\ ~CloseChildTask(w)
               /\ ~CreateChildTask(w) /\ ~RecordAgain(w) /\ ~BeginChildTask(w)
      BY <2>1, <2>4, <3>7 DEF Step, ResolveReRun, RunWork, ParkEscalation, TellParent, SpawnChild, Resume,
         RunTriage, StartAgain, ParkReview
    <3> QED BY <3>1, <3>2, <3>3, <3>4, <3>5, <3>6, <3>7
  <2>5. ASSUME NEW r \in RowIds, Serve(r) \/ Ask(r) \/ \E way \in Ways : Crash(r, way)
        PROVE  task'[Work] = task[Work]
    BY <2>2, <2>5 DEF Serve, StartRerun, CreateTriageTask, StartTriage, SettleTriaged, BulkCreateTask,
       BulkStart, Ask, BulkResolve, Answer, Crash
  <2> QED BY <2>1, <2>4, <2>5 DEF Next
<1> QED BY <1>1, <1>2

\* A new row is the last one.
LEMMA NewRow ==
  ASSUME TasksTypeOK, NEW t, NEW kind, NEW env, ParkRow(t, kind, env)
  PROVE  \E o \in DOMAIN rows' : o > Len(rows) /\ rows'[o].kind = kind /\ rows'[o].status = "pending"
<1> DEFINE x == [status |-> "pending", task |-> t, kind |-> kind, env |-> env]
<1>1. rows' = Append(rows, x) /\ x.status = "pending" /\ x.kind = kind /\ Len(rows) \in Nat
  BY RowsShape DEF ParkRow
<1> HIDE DEF x
<1>2. Len(rows') = Len(rows) + 1 /\ rows'[Len(rows) + 1] = x /\ DOMAIN rows' = 1..Len(rows')
  BY <1>1, RowsShape DEF TasksTypeOK
<1> QED BY <1>1, <1>2

\* A run of the work ends with its result delivered, or a row parked.
LEMMA WorksGoOn ==
  ASSUME TasksTypeOK, WorkInv, TriageInv, Next, Grown, NEW w \in Ids, NEW r, Works(w, r)
  PROVE  \/ Works(w, r)' \/ Delivered'
         \/ \E o \in DOMAIN rows' : o > Len(rows) /\ Asked(o)'
<1>1. /\ Begun(w) /\ run[w].kind = "work" /\ run[w].pc \notin {"absent", "ended"} /\ run[w] \in Run
      /\ Begun(w)' /\ run'[w].kind = "work" /\ run'[w].env = run[w].env
  BY RunShape DEF Works, Begun, Grown
<1>2. SUFFICES ASSUME Step(w)
               PROVE  \/ Works(w, r)' \/ Delivered'
                      \/ \E o \in DOMAIN rows' : o > Len(rows) /\ Asked(o)'
  BY <1>1, OnlyOwnSteps DEF Works, Begun
<1>3. CASE ParkEscalation(w)
  <2>1. \E o \in DOMAIN rows' : o > Len(rows) /\ rows'[o].kind = "work" /\ rows'[o].status = "pending"
    BY <1>1, <1>3, NewRow DEF ParkEscalation
  <2> QED BY <2>1 DEF Asked
<1>4. CASE EscalateTask(w)
  BY <1>1, <1>4, GotoEffect DEF EscalateTask, Works, Stages
<1>5. ASSUME run[w].pc \notin {"absent", "settle", "ensure"}
      PROVE  run[w].task = Work /\ run[w].to = IF setting.parent THEN Parent ELSE None
  BY <1>1, <1>5 DEF WorkInv, RunOK, EnsuredOK, RouteOK
<1>6. ASSUME SignalParent(w), run[w].to = Parent, setting.parent PROVE Delivered'
  <2>1. heard'[Parent] # None
    BY <1>6, Names DEF SignalParent, TasksTypeOK
  <2> QED BY <1>6, <2>1 DEF Delivered, Grown
<1>7. ASSUME SetTask(run[w].task, "completed"), run[w].task = Work, ~setting.parent PROVE Delivered'
  <2>1. task'[Work].status = "completed"
    BY <1>7, Names DEF SetTask, TasksTypeOK, Task
  <2> QED BY <1>7, <2>1 DEF Delivered, Grown
<1>8. CASE Reply(w)
  BY <1>5, <1>6, <1>7, <1>8, Names DEF Reply
<1>9. CASE TellParent(w)
  BY <1>5, <1>6, <1>9 DEF TellParent, TriageInv, TellOK
<1>10. CASE CompletePlain(w)
  <2>1. CASE ~setting.parent
    BY <1>5, <1>7, <1>10, <2>1 DEF CompletePlain
  <2>2. CASE setting.parent
    <3>1. run[w].pc = "complete" /\ Goto(w, "tell")
      BY <1>5, <1>10, <2>2, Names DEF CompletePlain
    <3> QED BY <1>1, <3>1, GotoEffect DEF Works, Stages
  <2> QED BY <2>1, <2>2
<1>11. CASE ResolveReRun(w)
  BY <1>1, <1>11, GotoEffect DEF ResolveReRun, Works, Stages
<1>12. CASE EnsureTask(w)
  BY <1>1, <1>12, EnsureMoves DEF Works
<1>13. CASE \E o \in setting.outcomes : RunWork(w, o)
  <2>1. run[w].pc = "body" /\ run'[w].pc \in {"escalate", "complete", "reply"}
    BY <1>1, <1>13 DEF RunWork, TasksTypeOK, Run
  <2> QED BY <1>1, <2>1 DEF Works
<1>14. run[w].pc \in StagesOf("work")
  BY <1>1 DEF WorkInv, RunOK
<1> QED BY <1>1, <1>2, <1>3, <1>4, <1>8, <1>9, <1>10, <1>11, <1>12, <1>13, <1>14 DEF Step, StagesOf,
       CreateChildTask, BeginChildTask, SpawnChild, Resume, CloseChildTask, RunTriage, RecordAgain, StartAgain,
       ParkReview

\* A triage hands its row on to work that starts anew, or to a row it parks.
LEMMA TriageGoesOn ==
  ASSUME TasksTypeOK, TasksTypeOK', WorkInv, TriageInv, Next, Grown, "unresolved" \notin setting.findings,
         NEW t \in RowIds, InTriage(t)
  PROVE  \/ InTriage(t)' \/ \E w \in Ids : Works(w, t)'
         \/ \E o \in DOMAIN rows' : o > Len(rows) /\ Asked(o)'
<1>1. Begun(TriageOf(t))'
  BY OfRow, Names DEF InTriage, Grown
<1>2. SUFFICES ASSUME NEW v \in Ids, HandedBy(v, t)'
               PROVE  \/ \E w \in Ids : Works(w, t)'
                      \/ \E o \in DOMAIN rows' : o > Len(rows) /\ Asked(o)'
  BY <1>1 DEF InTriage, Handed
<1>3. Begun(v) /\ run[v].kind = "triage" /\ run[v].env.about = t /\ ~HandedBy(v, t)
  BY <1>2, Newcomers DEF HandedBy, Grown, InTriage, Handed
<1>4. Step(v) /\ FoundOK(v)
  BY <1>2, <1>3, OnlyOwnSteps DEF HandedBy, TriageInv, Begun
<1>5. StartAgain(v) \/ ParkReview(v)
  BY <1>2, <1>3, <1>4, TriageStep DEF HandedBy
<1>6. CASE StartAgain(v)
  <2> DEFINE env == [OriginalEnvelope(v) EXCEPT !.row = t]
  <2>1. PICK w \in Ids : w = AgainOf(TriageRow(v)) /\ w # v
    <3>1. RunOK(v) /\ TriageRow(v) \in RowIds
      BY <1>3, RowsShape, RunShape DEF WorkInv, RunOK, EnvOK, TriageRow, RowIds
    <3> QED BY <1>3, <1>6, <3>1, StepStartAgain, OfRow, Names
  <2>2. run'[w] = Started("work", env)
    BY <1>3, <1>6, <2>1 DEF StartAgain, TasksTypeOK, AgainOf
  <2>3. env.row = t
    BY DEF OriginalEnvelope, BareEnvelope
  <2> HIDE DEF env
  <2>4. run'[w].kind = "work" /\ run'[w].env.row = t /\ run'[w].pc \in {"ensure", "settle"}
    BY <2>2, <2>3, StartedFields
  <2>5. Works(w, t)'
    BY <2>4 DEF Works, Begun, RowIds
  <2> QED BY <2>1, <2>5
<1>7. CASE ParkReview(v)
  <2>1. \E o \in DOMAIN rows' : o > Len(rows) /\ rows'[o].kind = "work" /\ rows'[o].status = "pending"
    BY <1>7, NewRow DEF ParkReview
  <2> QED BY <2>1 DEF Asked
<1> QED BY <1>5, <1>6, <1>7

\* A row is asked about until somebody takes it on.
LEMMA AskedGoesOn ==
  ASSUME TasksTypeOK, TasksTypeOK', WorkInv, Next, Grown, NEW o \in DOMAIN rows, Asked(o)
  PROVE  Asked(o)' \/ SettleTriaged(o) \/ BulkResolve(o) \/ \E w \in Ids : Works(w, o)'
<1>1. o \in RowIds /\ o # 0 /\ rows'[o].kind = "work" /\ o \in DOMAIN rows'
  BY RowsShape DEF RowIds, Grown, Asked
<1>2. rows'[o].status \in {"pending", "resolved"}
  <2>1. rows' \in Seq(Escalation)
    BY DEF TasksTypeOK
  <2>2. rows'[o] \in Escalation
    BY <1>1, <2>1, LenProperties, ElementOfSeq
  <2> QED BY <2>2 DEF Escalation
<1>3. SUFFICES ASSUME NEW w \in Ids, ResolveReRun(w), run[w].env.row = o
               PROVE  Works(w, o)'
  BY <1>1, <1>2, WhoResolves DEF Asked, Resolved
<1>4. Begun(w) /\ RunOK(w)
  BY <1>3 DEF ResolveReRun, Begun, WorkInv
<1>5. run[w].kind = "work"
  BY <1>1, <1>3, <1>4 DEF RunOK, NameOK, Asked
<1>6. run'[w].pc \in {"settle", "ensure"}
  BY <1>3, GotoEffect DEF ResolveReRun, Stages
<1> QED BY <1>1, <1>3, <1>4, <1>5, <1>6 DEF Works, Grown, RowIds

\* What is reached newly is carried on by what was started.
LEMMA NewlyReached ==
  ASSUME TasksTypeOK, TasksTypeOK', WorkInv, WorkInv', Next, Grown, NEW q \in 0..MaxRows,
         ~Reached(q), Reached(q)'
  PROVE  Carried(q)'
<1>1. CASE q = 0
  <2>1. Begun(Work)' /\ run'[Work].pc \in {"ensure", "settle"} /\ Work \in Ids
    BY <1>1, Names, Newcomers DEF Reached
  <2>2. run'[Work].kind = "work"
    BY <2>1 DEF WorkInv, RunOK, NameOK
  <2>3. run'[Work].env.row \in 0..MaxRows
    BY <2>1 DEF TasksTypeOK, Run, Envelope
  <2>4. Works(Work, q)'
    BY <1>1, <2>1, <2>2, <2>3, TasksAssumption DEF Works
  <2> QED BY <2>1, <2>4 DEF Carried
<1>2. CASE q # 0
  <2>1. q \in RowIds /\ ~Begun(TriageOf(q)) /\ Begun(TriageOf(q))'
    BY <1>2, TasksAssumption DEF Reached, RowIds
  <2>2. ASSUME NEW v \in Ids, HandedBy(v, q)' PROVE FALSE
    <3>1. Begun(v) /\ run[v].kind = "triage" /\ run[v].env.about = q
      BY <2>2, Newcomers DEF HandedBy, Grown
    <3> QED BY <2>1, <3>1 DEF WorkInv, RunOK, EnvOK
  <2>3. InTriage(q)'
    BY <2>1, <2>2 DEF InTriage, Handed
  <2> QED BY <2>1, <2>3 DEF Carried, RowIds
<1> QED BY <1>1, <1>2

LEMMA CarriedFrom ==
  ASSUME TasksTypeOK', NEW q \in 0..MaxRows, NEW b \in 0..MaxRows, q <= b, Carried(b)'
  PROVE  Carried(q)'
<1>1. DOMAIN rows' \subseteq Nat /\ RowIds \subseteq Nat /\ q \in Nat /\ b \in Nat
  BY LenProperties, TasksAssumption DEF TasksTypeOK, RowIds
<1>2. \A w \in Ids : run'[w].env.row \in Nat
  BY TasksAssumption DEF TasksTypeOK, Run, Envelope
<1>3. \A w \in Ids : Works(w, b)' => Works(w, q)'
  BY <1>1, <1>2 DEF Works
<1> QED BY <1>1, <1>3 DEF Carried

\* A request that starts the triage of a row or settles the row leaves the rest.
LEMMA RequestCarries ==
  ASSUME TasksTypeOK, WorkInv, Next, Grown, NEW b \in RowIds, BulkStart(b) \/ SettleTriaged(b),
         Delivered \/ Carried(b)
  PROVE  Delivered' \/ Carried(b)'
<1>1. UNCHANGED <<setting, task, heard>> /\ \A v \in Ids : Begun(v) => run'[v] = run[v]
  BY DEF BulkStart, SettleTriaged, Start, Begun, TasksTypeOK
<1>2. CASE Delivered
  BY <1>1, <1>2 DEF Delivered
<1>3. ASSUME NEW w \in Ids, Works(w, b) PROVE Works(w, b)'
  BY <1>1, <1>3 DEF Works, Begun
<1>4. ASSUME NEW t \in RowIds, InTriage(t) PROVE InTriage(t)'
  <2>1. Begun(TriageOf(t))'
    BY <1>4, OfRow, Names DEF InTriage, Grown
  <2>2. ASSUME NEW v \in Ids, HandedBy(v, t)' PROVE FALSE
    <3>1. Begun(v)
      BY <2>2, Newcomers DEF HandedBy
    <3> QED BY <1>1, <1>4, <2>2, <3>1 DEF HandedBy, InTriage, Handed
  <2> QED BY <2>1, <2>2 DEF InTriage, Handed
<1>5. ASSUME NEW c \in RowIds, c > b, InBulk(c) PROVE InBulk(c)'
  <2>1. \E way \in Ways : CallTo(b, way, "done")
    BY WayNames DEF BulkStart, SettleTriaged
  <2>2. c # b
    BY <1>5, TasksAssumption DEF RowIds
  <2> QED BY <1>5, <2>1, <2>2, CallMoves DEF InBulk
<1>6. ASSUME NEW o \in DOMAIN rows, o > b, Asked(o) PROVE o \in DOMAIN rows' /\ Asked(o)'
  <2>1. o # b /\ o \in DOMAIN rows'
    BY <1>6, RowsShape, TasksAssumption DEF RowIds, Grown
  <2>2. rows'[o] = rows[o]
    BY <1>6, <2>1 DEF BulkStart, SettleTriaged, Settle
  <2> QED BY <1>6, <2>1, <2>2 DEF Asked
<1>7. CASE Carried(b)
  BY <1>3, <1>4, <1>5, <1>6, <1>7 DEF Carried
<1> QED BY <1>2, <1>7

LEMMA CarriedGoesOn ==
  ASSUME TasksTypeOK, TasksTypeOK', WorkInv, WorkInv', TriageInv, CarriedOn, Next, Grown, HandsOn(setting),
         NEW q \in 0..MaxRows, q <= Len(rows), Carried(q)
  PROVE  Delivered' \/ Carried(q)'
<1>1. /\ q \in Nat /\ RowIds \subseteq Nat /\ RowIds \subseteq 0..MaxRows
      /\ DOMAIN rows \subseteq RowIds /\ DOMAIN rows' \subseteq Nat /\ Len(rows) \in Nat
      /\ \A w \in Ids : run'[w].env.row \in Nat
  BY RowsShape, LenProperties, TasksAssumption DEF TasksTypeOK, RowIds, Run, Envelope
<1>2. ASSUME NEW o \in DOMAIN rows', o > Len(rows), Asked(o)' PROVE Carried(q)'
  BY <1>1, <1>2 DEF Carried
<1>3. ASSUME NEW w \in Ids, NEW b \in RowIds, b >= q, Works(w, b)' PROVE Carried(q)'
  BY <1>1, <1>3 DEF Carried, Works
<1>4. ASSUME NEW b \in RowIds, b > q, BulkStart(b) \/ SettleTriaged(b) PROVE Delivered' \/ Carried(q)'
  <2>1. b # 0 /\ b \in 0..MaxRows /\ q <= b
    BY <1>1, <1>4 DEF RowIds
  <2>2. Begun(TriageOf(b))'
    BY <1>4, BulkStarts, OfRow, Names DEF SettleTriaged, WorkInv, CallOK, At, Grown
  <2>3. CASE Begun(TriageOf(b))
    BY <1>4, <2>1, <2>3, RequestCarries, CarriedFrom DEF CarriedOn, Reached
  <2>4. CASE ~Begun(TriageOf(b))
    BY <2>1, <2>2, <2>4, NewlyReached, CarriedFrom DEF Reached
  <2> QED BY <2>3, <2>4
<1>5. CASE \E w \in Ids : Works(w, q)
  <2>1. PICK w \in Ids : Works(w, q)
    BY <1>5
  <2>2. CASE Works(w, q)'
    BY <2>2 DEF Carried
  <2> QED BY <1>2, <2>1, <2>2, WorksGoOn
<1>6. CASE \E t \in RowIds : t >= q /\ InTriage(t)
  <2>1. PICK t \in RowIds : t >= q /\ InTriage(t)
    BY <1>6
  <2>2. CASE InTriage(t)'
    BY <2>1, <2>2 DEF Carried
  <2> QED BY <1>2, <1>3, <2>1, <2>2, TriageGoesOn DEF HandsOn
<1>7. CASE \E b \in RowIds : b > q /\ InBulk(b)
  <2>1. PICK b \in RowIds : b > q /\ InBulk(b)
    BY <1>7
  <2>2. CASE InBulk(b)'
    BY <2>1, <2>2 DEF Carried
  <2>3. InBulk(b)' \/ BulkStart(b)
    BY <2>1, BulkGoesOn DEF HandsOn
  <2> QED BY <1>4, <2>1, <2>2, <2>3
<1>8. CASE \E o \in DOMAIN rows : o > q /\ Asked(o)
  <2>1. PICK o \in DOMAIN rows : o > q /\ Asked(o)
    BY <1>8
  <2>2. o \in RowIds /\ o >= q /\ o \in DOMAIN rows'
    BY <1>1, <2>1 DEF Grown
  <2>3. CASE Asked(o)'
    BY <2>1, <2>2, <2>3 DEF Carried
  <2>4. CASE BulkResolve(o)
    <3>1. InBulk(o)'
      BY <2>2, <2>4, CallMoves, WayNames DEF BulkResolve, InBulk
    <3> QED BY <2>1, <2>2, <3>1 DEF Carried
  <2> QED BY <1>3, <1>4, <2>1, <2>2, <2>3, <2>4, AskedGoesOn
<1> QED BY <1>5, <1>6, <1>7, <1>8 DEF Carried

LEMMA CarriedOnNext ==
  ASSUME TasksTypeOK, TasksTypeOK', WorkInv, WorkInv', TriageInv, CarriedOn, Next, Grown, HandsOn(setting)
  PROVE  CarriedOn'
<1> SUFFICES ASSUME NEW q \in 0..MaxRows, Reached(q)' PROVE Delivered' \/ Carried(q)'
  BY DEF CarriedOn
<1>1. CASE ~Reached(q)
  BY <1>1, NewlyReached
<1>2. CASE Reached(q) /\ Delivered
  <2>1. SUFFICES ASSUME NEW w \in Ids, EscalateTask(w), run[w].kind = "work" PROVE Works(w, q)'
    BY <1>2, DeliveredStays DEF Carried
  <2>2. Begun(w) /\ run'[w].pc \in {"escalate", "park"}
    BY <2>1, GotoEffect DEF EscalateTask, Begun, Stages
  <2> QED BY <2>1, <2>2 DEF Works, Grown
<1>3. CASE Reached(q) /\ Carried(q)
  <2>1. q <= Len(rows)
    <3>1. CASE q = 0
      BY <3>1, RowsShape
    <3>2. CASE q # 0
      <4>1. q \in RowIds /\ Begun(TriageOf(q))
        BY <1>3, <3>2, TasksAssumption DEF Reached, RowIds
      <4>2. q \in DOMAIN rows
        BY <4>1, OfRow, Names DEF WorkInv, RunOK, NameOK
      <4> QED BY <4>2, RowsShape
    <3> QED BY <3>1, <3>2
  <2> QED BY <1>3, <2>1, CarriedGoesOn
<1> QED BY <1>1, <1>2, <1>3 DEF CarriedOn

\* Where the findings of a triage hand its row on, the work is never silently lost:
\* until its result is delivered somebody is asked for it, a run of it or of a
\* triage goes on, or a request is about to start one.
THEOREM WorkIsNeverLost ==
  ASSUME \A s \in Settings : HandsOn(s)
  PROVE  Spec => []WorkNeverVanishes
<1>1. Init => TriageInv /\ CarriedOn
  <2> SUFFICES ASSUME Init PROVE TriageInv /\ CarriedOn
    OBVIOUS
  <2>1. TasksTypeOK /\ WorkInv
    BY InitWork
  <2>2. \A v \in Ids : Begun(v) => v \in {Parent, Work} /\ run[v].pc = "ensure" /\ run[v].kind # "triage"
    <3>1. \A v \in Ids : run[v].pc \in {"absent", "ensure"} /\ (v \notin {Parent, Work} => run[v].pc = "absent")
      <4>1. Absent.pc = "absent"
        BY DEF Absent
      <4>2. \A kind : Started(kind, BareEnvelope).pc = "ensure"
        BY StartedFields DEF BareEnvelope
      <4> QED BY <4>1, <4>2, Names DEF Init
    <3> QED BY <2>1, <3>1, Names DEF Begun, WorkInv, RunOK, NameOK
  <2>3. \A r \in RowIds : ~Begun(TriageOf(r)) /\ heard[TriageOf(r)] = None
    BY <2>2, OfRow, Names DEF Init
  <2>4. TriageInv
    BY <2>2, <2>3 DEF TriageInv, FoundOK, TellOK, RouterOK, Begun
  <2>5. CarriedOn
    <3> SUFFICES ASSUME NEW q \in 0..MaxRows, Reached(q) PROVE Carried(q)
      BY DEF CarriedOn
    <3>1. q = 0 /\ Begun(Work)
      BY <2>3, TasksAssumption DEF Reached, RowIds
    <3>2. run[Work].kind = "work" /\ run[Work].pc = "ensure" /\ run[Work].env.row = 0
      BY <2>1, <2>2, <3>1, Names DEF WorkInv, RunOK, NameOK
    <3> QED BY <3>1, <3>2, Names DEF Carried, Works
  <2> QED BY <2>4, <2>5
<1>2. ASSUME TasksTypeOK, WorkInv, TriageInv, CarriedOn, [Next]_vars PROVE TriageInv' /\ CarriedOn'
  <2>1. CASE UNCHANGED vars
    BY <1>2, <2>1 DEF vars, TriageInv, FoundOK, TellOK, RouterOK, Handed, HandedBy, CarriedOn, Reached, Delivered,
       Carried, Works, InTriage, InBulk, Asked, Begun
  <2>2. CASE ~UNCHANGED vars
    <3>1. Next /\ TasksTypeOK' /\ WorkInv' /\ Grown
      BY <1>2, <2>2, NextWork
    <3>2. HandsOn(setting)
      BY <1>2 DEF TasksTypeOK
    <3> QED BY <1>2, <3>1, <3>2, TriageInvNext, CarriedOnNext DEF HandsOn
  <2> QED BY <2>1, <2>2
<1>3. ASSUME TasksTypeOK, WorkInv, TriageInv, CarriedOn PROVE WorkNeverVanishes
  <2>1. HandsOn(setting) /\ 0 \in 0..MaxRows
    BY <1>3, TasksAssumption DEF TasksTypeOK
  <2>2. ASSUME NEW w \in Ids, Begun(w), run[w].pc # "ended", w # Parent \/ run[w].pc # "wait" PROVE Underway
    BY <2>2 DEF Underway, Live, Begun
  <2>3. ASSUME NEW w \in Ids, Works(w, 0) PROVE Underway
    <3>1. w # Parent
      BY <1>3, <2>3 DEF Works, WorkInv, RunOK, NameOK
    <3> QED BY <2>2, <2>3, <3>1 DEF Works
  <2>4. ASSUME NEW t \in RowIds, InTriage(t) PROVE Underway
    <3> DEFINE v == TriageOf(t)
    <3>1. v \in Ids /\ v \in Triages /\ RowOf(v) = t /\ v # Parent /\ Begun(v)
      BY <2>4, OfRow, Names DEF InTriage
    <3>2. run[v].kind # "work" /\ run[v].env.about = t /\ run[v].kind \in Kinds
      BY <1>3, <3>1, RunShape DEF WorkInv, RunOK, NameOK
    <3>3. RouterOK(t) /\ FoundOK(v)
      BY <1>3, <3>1 DEF TriageInv
    <3>4. run[v].pc # "ended"
      <4>1. CASE run[v].kind = "orchestrator"
        BY <2>4, <3>1, <3>3, <4>1 DEF RouterOK, InTriage
      <4>2. CASE run[v].kind = "triage"
        <5> SUFFICES ASSUME run[v].pc = "ended" PROVE FALSE
          OBVIOUS
        <5>1. run[v].result \in {"direct", "review", "throw"} /\ "bulk" \in setting.ways
          BY <3>1, <3>3, <4>2 DEF FoundOK, FoundAt, RouterOK
        <5>2. run[v].result # "throw"
          BY <2>1, <3>1, <3>3, <4>2, <5>1 DEF FoundOK, HandsOn
        <5>3. HandedBy(v, t)
          BY <3>1, <3>2, <4>2, <5>1, <5>2 DEF HandedBy
        <5> QED BY <2>4, <3>1, <5>3 DEF InTriage, Handed
      <4> QED BY <3>2, <4>1, <4>2 DEF Kinds
    <3> QED BY <2>2, <3>1, <3>4
  <2>5. ASSUME NEW b \in RowIds, InBulk(b) PROVE Underway
    <3>1. ~At(b, "bulk", "idle") /\ ~At(b, "bulk", "done") /\ CallOK(b)
      BY <1>3, <2>5 DEF InBulk, At, WorkInv
    <3> QED BY <3>1, WayNames DEF CallOK, Underway
  <2>6. ASSUME NEW o \in DOMAIN rows, Asked(o) PROVE Underway
    BY <2>6 DEF Asked, Underway
  <2>7. CASE Begun(Work)
    <3>1. Delivered \/ Carried(0)
      BY <1>3, <2>1, <2>7 DEF CarriedOn, Reached
    <3> QED BY <2>3, <2>4, <2>5, <2>6, <3>1 DEF Carried, WorkNeverVanishes
  <2>8. CASE ~Begun(Work)
    <3>1. Begun(Parent) /\ RunOK(Parent) /\ ChildOK(Parent) /\ Parent \in Ids /\ Child(Parent) = Work
      BY <1>3, <2>8, Names, ChildNames DEF WorkInv, FirstOK
    <3>2. run[Parent].kind = "orchestrator"
      BY <3>1 DEF RunOK, NameOK
    <3>3. run[Parent].pc \in {"ensure", "create", "begin", "spawn"}
      BY <2>8, <3>1, <3>2 DEF ChildOK, Waiting
    <3> QED BY <2>2, <3>1, <3>3 DEF WorkNeverVanishes
  <2> QED BY <2>7, <2>8
<1> QED BY <1>1, <1>2, <1>3, WorkInvHolds, PTL DEF Spec
=============================================================================
