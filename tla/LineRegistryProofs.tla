------------------------- MODULE LineRegistryProofs -------------------------
(***************************************************************************)
(* For any number of replicas, editors, definitions and faults: the types, *)
(* what a version names, that every replica is told, and that a replica    *)
(* with one handler at a time leaves no run behind and ends in step.       *)
(***************************************************************************)
EXTENDS LineRegistry, FiniteSetTheorems, TLAPS

(* What the helpers do to a well-typed state.                               *)
RunsOK == /\ mapped \in [Replicas -> Mapping \cup {Unmapped}]
          /\ run \in [Replicas -> [RunIds -> Run \cup {NoRun}]]
TasksOK == task \in [Replicas -> [Handlers -> Task]]

LEMMA RunShape == /\ NoRun \notin Run /\ \A x \in Run : x.def \in Defs /\ x.stopping \in BOOLEAN
                  /\ \A x \in Run : [x EXCEPT !.stopping = TRUE] \in Run
                  /\ \A d \in Defs : [def |-> d, stopping |-> FALSE] \in Run
                  /\ Unmapped \notin Mapping /\ Idle \in Task /\ NoRow \notin Row
  BY RegistryAssumption DEF Run, NoRun, Mapping, Unmapped, Idle, Task, Kinds, Pcs, NoRow, Row

\* Setting a task keeps the table of tasks.
LEMMA SetType ==
  ASSUME TasksOK, NEW r \in Replicas, NEW h \in Handlers, NEW t \in Task, Set(r, h, t)
  PROVE  TasksOK'
  BY DEF TasksOK, Set

LEMMA ToType ==
  ASSUME TasksOK, NEW r \in Replicas, NEW h \in Handlers, NEW p \in Pcs, To(r, h, p)
  PROVE  TasksOK'
<1>1. task[r][h] \in Task
  BY DEF TasksOK
<1>2. [task[r][h] EXCEPT !.pc = p] \in Task
  BY <1>1 DEF Task
<1> QED BY <1>2, SetType DEF To

LEMMA SurfacedType ==
  ASSUME TasksOK, NEW r \in Replicas, NEW h \in Handlers, Surfaced(r, h)
  PROVE  TasksOK'
  BY ToType, SetType, RunShape DEF Surfaced, Pcs

\* A run begins on an identifier that is free.
LEMMA BeginType ==
  ASSUME RunsOK, NEW r \in Replicas, NEW d \in Defs, Begin(r, d)
  PROVE  /\ RunsOK'
         /\ \E i \in RunIds \ Live(r) :
              /\ run' = [run EXCEPT ![r][i] = [def |-> d, stopping |-> FALSE]]
              /\ mapped' = [mapped EXCEPT ![r] = [id |-> i, def |-> d]]
<1>1. Live(r) \subseteq RunIds /\ Live(r) # RunIds
  BY DEF Live, Begin
<1> DEFINE i == CHOOSE j \in RunIds \ Live(r) : TRUE
<1>2. i \in RunIds \ Live(r)
  BY <1>1
<1>3. /\ run' = [run EXCEPT ![r][i] = [def |-> d, stopping |-> FALSE]]
      /\ mapped' = [mapped EXCEPT ![r] = [id |-> i, def |-> d]]
  BY DEF Begin
<1>4. [id |-> i, def |-> d] \in Mapping
  BY <1>2 DEF Mapping
<1> HIDE DEF i
<1>5. RunsOK'
  BY <1>2, <1>3, <1>4, RunShape DEF RunsOK
<1> QED BY <1>2, <1>3, <1>5

\* Awaiting the stop of the run in the map.
LEMMA AwaitStopType ==
  ASSUME RunsOK, TasksOK, NEW r \in Replicas, NEW h \in Handlers, NEW t \in Task,
         mapped[r].id \in RunIds, AwaitStop(r, h, t)
  PROVE  /\ TasksOK' /\ run' \in [Replicas -> [RunIds -> Run \cup {NoRun}]]
         /\ \E u \in Task : u.pc \in {"stopped", "stopping"} /\ task' = [task EXCEPT ![r][h] = u]
         /\ \A s \in Replicas, i \in RunIds :
              \/ run'[s][i] = run[s][i] /\ (s # r \/ i # mapped[r].id \/ run[s][i] = NoRun)
              \/ run'[s][i] # NoRun /\ run[s][i] # NoRun /\ run'[s][i].stopping
<1> DEFINE i == mapped[r].id
<1>1. CASE run[r][i] = NoRun
  <2>1. [t EXCEPT !.pc = "stopped"] \in Task
    BY DEF Task, Pcs
  <2>2. Set(r, h, [t EXCEPT !.pc = "stopped"]) /\ run' = run
    BY <1>1 DEF AwaitStop
  <2>3. TasksOK'
    BY <2>1, <2>2, SetType
  <2>4. [t EXCEPT !.pc = "stopped"].pc = "stopped"
    BY DEF Task
  <2> QED BY <1>1, <2>1, <2>2, <2>3, <2>4 DEF RunsOK, Set
<1>2. CASE run[r][i] # NoRun
  <2>1. [t EXCEPT !.pc = "stopping", !.on = i] \in Task
    BY DEF Task, Pcs
  <2>2. /\ Set(r, h, [t EXCEPT !.pc = "stopping", !.on = i])
        /\ run' = [run EXCEPT ![r][i].stopping = TRUE]
    BY <1>2 DEF AwaitStop
  <2>3. TasksOK'
    BY <2>1, <2>2, SetType
  <2>4. run[r][i] \in Run
    BY <1>2 DEF RunsOK
  <2>5. [run[r][i] EXCEPT !.stopping = TRUE] \in Run /\ [run[r][i] EXCEPT !.stopping = TRUE].stopping
    BY <2>4 DEF Run
  <2>6. run' \in [Replicas -> [RunIds -> Run \cup {NoRun}]]
    BY <2>2, <2>5 DEF RunsOK
  <2>7. \A s \in Replicas, j \in RunIds : run'[s][j] =
          IF s = r /\ j = i THEN [run[r][i] EXCEPT !.stopping = TRUE] ELSE run[s][j]
    BY <2>2 DEF RunsOK
  <2>8. [run[r][i] EXCEPT !.stopping = TRUE] # NoRun
    BY <2>5, RunShape
  <2>9. [t EXCEPT !.pc = "stopping", !.on = i].pc = "stopping"
    BY DEF Task
  <2> QED BY <1>2, <2>1, <2>2, <2>3, <2>5, <2>6, <2>7, <2>8, <2>9 DEF Set
<1> QED BY <1>1, <1>2

-----------------------------------------------------------------------------
(* A handler of a replica that is up: its map names a run or is empty, and  *)
(* only the run in the map is not on its way out.                           *)
MapOK(r) == mapped[r] # Unmapped => mapped[r].id \in RunIds
Clean(r) == \A i \in RunIds : run[r][i] # NoRun => run[r][i].stopping \/ mapped[r].id = i
\* no run but those on their way out: what a handler that awaited a stop finds
Emptied(r) == \A i \in RunIds : run[r][i] # NoRun => run[r][i].stopping
\* one handler stepped, on its own replica
Stepped(r, h) ==
  /\ RunsOK' /\ TasksOK' /\ MapOK(r)'
  /\ \E t \in Task : t.pc # "roles" /\ task' = [task EXCEPT ![r][h] = t]
  /\ \A s \in Replicas \ {r} : run'[s] = run[s] /\ mapped'[s] = mapped[s]
StopFirst(r, h) == task[r][h].pc \in {"stopping", "stopped"} => Emptied(r)

LEMMA SurfacedStep ==
  ASSUME TasksOK, NEW r \in Replicas, NEW h \in Handlers, Surfaced(r, h)
  PROVE  \E t \in Task : t.pc \in {"publish", "idle"} /\ task' = [task EXCEPT ![r][h] = t]
<1>1. CASE task[r][h].kind \in {"put", "delete"}
  <2>1. task[r][h] \in Task
    BY DEF TasksOK
  <2>2. [task[r][h] EXCEPT !.pc = "publish"] \in Task /\ [task[r][h] EXCEPT !.pc = "publish"].pc = "publish"
    BY <2>1 DEF Task, Pcs
  <2> QED BY <1>1, <2>2 DEF Surfaced, To, Set
<1>2. CASE task[r][h].kind \notin {"put", "delete"}
  <2>1. Idle \in Task /\ Idle.pc = "idle"
    BY RunShape DEF Idle
  <2> QED BY <1>2, <2>1 DEF Surfaced, Set
<1> QED BY <1>1, <1>2

LEMMA BeginStep ==
  ASSUME RunsOK, TasksOK, NEW r \in Replicas, NEW h \in Handlers, NEW d \in Defs,
         Begin(r, d), Surfaced(r, h)
  PROVE  Stepped(r, h) /\ (Emptied(r) => Clean(r)') /\ StopFirst(r, h)'
<1>1. RunsOK' /\ TasksOK'
  BY BeginType, SurfacedType
<1>2. PICK i \in RunIds \ Live(r) :
        /\ run' = [run EXCEPT ![r][i] = [def |-> d, stopping |-> FALSE]]
        /\ mapped' = [mapped EXCEPT ![r] = [id |-> i, def |-> d]]
  BY BeginType
<1>3. PICK t \in Task : t.pc \in {"publish", "idle"} /\ task' = [task EXCEPT ![r][h] = t]
  BY SurfacedStep
<1>4. mapped'[r].id = i /\ MapOK(r)'
  BY <1>2 DEF MapOK, RunsOK
<1>5. \A s \in Replicas \ {r} : run'[s] = run[s] /\ mapped'[s] = mapped[s]
  BY <1>2 DEF RunsOK
<1>6. Emptied(r) => Clean(r)'
  BY <1>2, <1>4 DEF Emptied, Clean, RunsOK
<1>7. task'[r][h].pc \in {"publish", "idle"}
  BY <1>3 DEF TasksOK
<1>8. \E u \in Task : u.pc # "roles" /\ task' = [task EXCEPT ![r][h] = u]
  BY <1>3
<1> QED BY <1>1, <1>4, <1>5, <1>6, <1>7, <1>8 DEF Stepped, StopFirst

LEMMA AwaitStep ==
  ASSUME RunsOK, TasksOK, NEW r \in Replicas, NEW h \in Handlers, NEW t \in Task,
         mapped[r] # Unmapped, MapOK(r), AwaitStop(r, h, t),
         \/ UNCHANGED mapped
         \/ mapped' = [mapped EXCEPT ![r] = Unmapped]
  PROVE  Stepped(r, h) /\ (Clean(r) => Clean(r)' /\ StopFirst(r, h)')
<1>1. mapped[r].id \in RunIds
  BY DEF MapOK
<1>2. /\ TasksOK' /\ run' \in [Replicas -> [RunIds -> Run \cup {NoRun}]]
      /\ \A s \in Replicas, i \in RunIds :
           \/ run'[s][i] = run[s][i] /\ (s # r \/ i # mapped[r].id \/ run[s][i] = NoRun)
           \/ run'[s][i] # NoRun /\ run[s][i] # NoRun /\ run'[s][i].stopping
  BY <1>1, AwaitStopType
<1>3. mapped' \in [Replicas -> Mapping \cup {Unmapped}] /\ MapOK(r)'
  BY DEF RunsOK, MapOK
<1>4. PICK u \in Task : u.pc \in {"stopped", "stopping"} /\ task' = [task EXCEPT ![r][h] = u]
  BY <1>1, AwaitStopType
<1>7. \A s \in Replicas \ {r} : run'[s] = run[s] /\ mapped'[s] = mapped[s]
  BY DEF AwaitStop, RunsOK
<1>8. Clean(r) => Emptied(r)'
  BY <1>2 DEF Clean, Emptied
<1>9. Emptied(r)' => Clean(r)'
  BY DEF Emptied, Clean
<1>10. \E w \in Task : w.pc # "roles" /\ task' = [task EXCEPT ![r][h] = w]
  BY <1>4
<1> QED BY <1>2, <1>3, <1>7, <1>8, <1>9, <1>10 DEF Stepped, StopFirst, RunsOK

LEMMA StillStep ==
  ASSUME RunsOK, TasksOK, NEW r \in Replicas, NEW h \in Handlers, MapOK(r),
         UNCHANGED <<run, mapped>>,
         NEW t \in Task, t.pc \notin {"roles", "stopping", "stopped"}, Set(r, h, t)
  PROVE  Stepped(r, h) /\ (Clean(r) => Clean(r)') /\ StopFirst(r, h)'
<1>1. TasksOK'
  BY SetType
<1>2. task'[r][h] = t
  BY DEF Set, TasksOK
<1> QED BY <1>1, <1>2 DEF Stepped, StopFirst, RunsOK, MapOK, Clean, Set

LEMMA DeclareStep ==
  ASSUME RunsOK, TasksOK, NEW r \in Replicas, NEW h \in Handlers, NEW d \in Defs,
         MapOK(r), Declare(r, h, d)
  PROVE  Stepped(r, h) /\ (Clean(r) => Clean(r)' /\ StopFirst(r, h)')
<1>1. CASE mapped[r].def = d
  <2>1. Surfaced(r, h) /\ UNCHANGED <<run, mapped>>
    BY <1>1 DEF Declare
  <2>2. PICK t \in Task : t.pc \in {"publish", "idle"} /\ task' = [task EXCEPT ![r][h] = t]
    BY <2>1, SurfacedStep
  <2> QED BY <2>1, <2>2, StillStep DEF Set
<1>2. CASE mapped[r].def # d /\ mapped[r] # Unmapped
  <2>1. task[r][h] \in Task
    BY DEF TasksOK
  <2>2. AwaitStop(r, h, task[r][h]) /\ UNCHANGED mapped
    BY <1>2 DEF Declare
  <2> QED BY <1>2, <2>1, <2>2, AwaitStep
<1>3. CASE mapped[r].def # d /\ mapped[r] = Unmapped
  <2>1. Begin(r, d) /\ Surfaced(r, h)
    BY <1>3 DEF Declare
  <2>2. Clean(r) => Emptied(r)
    BY <1>3, RegistryAssumption DEF Clean, Emptied, Unmapped
  <2> QED BY <2>1, <2>2, BeginStep
<1> QED BY <1>1, <1>2, <1>3

LEMMA RetireStep ==
  ASSUME RunsOK, TasksOK, NEW r \in Replicas, NEW h \in Handlers, NEW t \in Task,
         MapOK(r), Retire(r, h, t)
  PROVE  Stepped(r, h) /\ (Clean(r) => Clean(r)' /\ StopFirst(r, h)')
<1>1. CASE mapped[r] # Unmapped
  BY <1>1, AwaitStep DEF Retire
<1>2. CASE mapped[r] = Unmapped
  <2>1. [t EXCEPT !.pc = "publish"] \in Task /\ [t EXCEPT !.pc = "publish"].pc = "publish"
    BY DEF Task, Pcs
  <2>2. Idle \in Task /\ Idle.pc = "idle"
    BY RunShape DEF Idle
  <2>3. UNCHANGED <<run, mapped>> /\ (Set(r, h, [t EXCEPT !.pc = "publish"]) \/ Set(r, h, Idle))
    BY <1>2 DEF Retire
  <2> QED BY <2>1, <2>2, <2>3, StillStep
<1> QED BY <1>1, <1>2

-----------------------------------------------------------------------------
(* The inductive invariant: a replica that has not started runs nothing and *)
(* handles nothing, and a handler about to declare holds a definition.      *)
NotStarted == {"down", "listing", "listed"}
StillDown(r) == up[r] \in NotStarted =>
  (\A i \in RunIds : run[r][i] = NoRun) /\ (\A h \in Handlers : IsIdle(r, h))
RegistryInv ==
  /\ RegistryTypeOK
  /\ \A r \in Replicas : StillDown(r) /\ (up[r] # "listed" => MapOK(r))
  /\ \A r \in Replicas, h \in Handlers : At(r, h, "roles") => task[r][h].def \in Defs

\* What a handler's step leaves of the invariant.
LEMMA SteppedKeeps ==
  ASSUME RegistryInv, NEW r \in Replicas, NEW h \in Handlers, up[r] \notin NotStarted,
         Stepped(r, h), UNCHANGED up
  PROVE  /\ RunsOK' /\ TasksOK'
         /\ \A s \in Replicas : StillDown(s)' /\ (up'[s] # "listed" => MapOK(s)')
         /\ \A s \in Replicas, g \in Handlers : At(s, g, "roles")' => task'[s][g].def \in Defs
<1>1. PICK t \in Task : t.pc # "roles" /\ task' = [task EXCEPT ![r][h] = t]
  BY DEF Stepped
<1>2. \A s \in Replicas, g \in Handlers : task'[s][g] = IF s = r /\ g = h THEN t ELSE task[s][g]
  BY <1>1 DEF RegistryInv, RegistryTypeOK
<1>3. \A s \in Replicas \ {r} : run'[s] = run[s] /\ mapped'[s] = mapped[s]
  BY DEF Stepped
<1>4. \A s \in Replicas, g \in Handlers : At(s, g, "roles")' => task'[s][g].def \in Defs
  BY <1>1, <1>2 DEF RegistryInv, At
<1>5. \A s \in Replicas : StillDown(s)'
  BY <1>2, <1>3 DEF RegistryInv, StillDown, IsIdle
<1>6. \A s \in Replicas : up'[s] # "listed" => MapOK(s)'
  BY <1>3 DEF RegistryInv, MapOK, Stepped
<1> QED BY <1>4, <1>5, <1>6 DEF Stepped

\* A handler that is not idle belongs to a replica that is up or closing.
LEMMA BusyIsUp ==
  ASSUME RegistryInv, NEW r \in Replicas, NEW h \in Handlers, ~IsIdle(r, h)
  PROVE  up[r] \notin NotStarted /\ MapOK(r)
  BY DEF RegistryInv, StillDown, NotStarted

\* A write leaves a row.
LEMMA WriteType ==
  ASSUME RegistryTypeOK, NEW d \in Defs, NEW c \in {"code", "api"}, Write(d, c)
  PROVE  reg' \in Row /\ writes' \in Nat /\ told' \in SUBSET Replicas
<1>1. writes \in Nat /\ writes' = writes + 1 /\ told' = {}
  BY DEF RegistryTypeOK, Write
<1>2. CASE Present
  <2>1. reg \in Row
    BY <1>2 DEF RegistryTypeOK, Present
  <2>2. reg' = [reg EXCEPT !.def = d, !.source = c, !.version = @ + 1, !.stamp = writes + 1]
    BY <1>2 DEF Write
  <2>3. reg.version + 1 \in Nat /\ writes + 1 \in Nat
    BY <1>1, <2>1 DEF Row
  <2>4. reg' \in Row
    BY <2>1, <2>2, <2>3, Zenon DEF Row
  <2> QED BY <1>1, <2>3, <2>4
<1>3. CASE ~Present
  BY <1>1, <1>3 DEF Write, Row
<1> QED BY <1>1, <1>2, <1>3

LEMMA RegistryInvHolds == RegistrySpec => []RegistryInv
<1>1. RegistryInit => RegistryInv
  <2> SUFFICES ASSUME RegistryInit PROVE RegistryInv
    OBVIOUS
  <2>1. reg \in Row \cup {NoRow}
    BY DEF RegistryInit, Row, NoRow
  <2>2. RegistryTypeOK
    BY <2>1, RunShape DEF RegistryInit, RegistryTypeOK
  <2>3. \A r \in Replicas, h \in Handlers : task[r][h].pc = "idle"
    BY DEF RegistryInit, Idle
  <2>4. \A r \in Replicas : mapped[r] = Unmapped /\ \A i \in RunIds : run[r][i] = NoRun
    BY DEF RegistryInit
  <2> QED BY <2>2, <2>3, <2>4 DEF RegistryInv, StillDown, IsIdle, At, MapOK
<1>2. RegistryInv /\ [RegistryNext]_registryVars => RegistryInv'
  <2> SUFFICES ASSUME RegistryInv, [RegistryNext]_registryVars PROVE RegistryInv'
    OBVIOUS
  <2>a. RunsOK /\ TasksOK
    BY DEF RegistryInv, RegistryTypeOK, RunsOK, TasksOK
  <2>1. CASE UNCHANGED registryVars
    BY <2>1 DEF registryVars, RegistryInv, RegistryTypeOK, StillDown, MapOK, At, IsIdle
  <2>2. ASSUME NEW e \in Editors, ReadRow(e) PROVE RegistryInv'
    <3>1. known' \in [Editors -> Row \cup {NoRow}]
      BY <2>2 DEF ReadRow, RegistryInv, RegistryTypeOK
    <3> QED BY <2>2, <3>1 DEF ReadRow, RegistryInv, RegistryTypeOK, StillDown, MapOK, At, IsIdle
  <2>3. ASSUME NEW r \in Replicas, BootApply(r) PROVE RegistryInv'
    <3>1. CASE CodeLineWrites(CodeLine[r])
      <4>1. Write(CodeLine[r], "code") /\ CodeLine[r] \in Defs
        BY <2>3, <3>1, RegistryAssumption DEF BootApply, CodeLineWrites
      <4>2. reg' \in Row /\ writes' \in Nat /\ told' \in SUBSET Replicas
        BY <4>1, WriteType DEF RegistryInv
      <4> QED BY <2>3, <4>2 DEF BootApply, RegistryInv, RegistryTypeOK, StillDown, NotStarted, MapOK, At, IsIdle
    <3>2. CASE ~CodeLineWrites(CodeLine[r])
      BY <2>3, <3>2 DEF BootApply, RegistryInv, RegistryTypeOK, StillDown, NotStarted, MapOK, At, IsIdle
    <3> QED BY <3>1, <3>2
  <2>4. ASSUME NEW r \in Replicas, BootList(r) PROVE RegistryInv'
    <3>1. [id |-> Nobody, def |-> reg.def] \in Mapping \cup {Unmapped}
      BY DEF Mapping, Unmapped, RegistryInv, RegistryTypeOK, Row, NoRow
    <3>2. /\ mapped' \in [Replicas -> Mapping \cup {Unmapped}]
          /\ \A s \in Replicas \ {r} : mapped'[s] = mapped[s] /\ up'[s] = up[s]
          /\ up' \in [Replicas -> {"down", "listing", "listed", "up", "closed"}] /\ up'[r] = "listed"
          /\ told' \in SUBSET Replicas
      BY <2>4, <3>1 DEF BootList, RegistryInv, RegistryTypeOK
    <3> QED BY <2>4, <3>2 DEF BootList, RegistryInv, RegistryTypeOK, StillDown, NotStarted, MapOK, At, IsIdle
  <2>5. ASSUME NEW r \in Replicas, BootStart(r) PROVE RegistryInv'
    <3>1. CASE mapped[r].def = NoDef
      <4>1. mapped[r] = Unmapped
        BY <3>1, RegistryAssumption, <2>a DEF RunsOK, Mapping
      <4> QED BY <2>5, <3>1, <4>1 DEF BootStart, RegistryInv, RegistryTypeOK, StillDown, NotStarted, MapOK, At, IsIdle
    <3>2. CASE mapped[r].def # NoDef
      <4>1. mapped[r].def \in Defs /\ Begin(r, mapped[r].def)
        BY <2>5, <3>2, <2>a DEF BootStart, RunsOK, Mapping, Unmapped
      <4>2. RunsOK'
        BY <2>a, <4>1, BeginType
      <4>3. PICK i \in RunIds \ Live(r) :
              /\ run' = [run EXCEPT ![r][i] = [def |-> mapped[r].def, stopping |-> FALSE]]
              /\ mapped' = [mapped EXCEPT ![r] = [id |-> i, def |-> mapped[r].def]]
        BY <2>a, <4>1, BeginType
      <4>4. mapped'[r].id \in RunIds /\ \A s \in Replicas \ {r} : mapped'[s] = mapped[s] /\ run'[s] = run[s]
        BY <2>a, <4>3 DEF RunsOK
      <4>5. up'[r] = "up" /\ \A s \in Replicas \ {r} : up'[s] = up[s]
        BY <2>5 DEF BootStart, RegistryInv, RegistryTypeOK
      <4>6. \A s \in Replicas : StillDown(s)'
        BY <2>5, <4>4, <4>5 DEF BootStart, RegistryInv, StillDown, NotStarted, IsIdle
      <4>7. \A s \in Replicas : up'[s] # "listed" => MapOK(s)'
        BY <4>4, <4>5 DEF MapOK, RegistryInv
      <4> QED BY <2>5, <4>2, <4>6, <4>7 DEF BootStart, RegistryInv, RegistryTypeOK, RunsOK, At
    <3> QED BY <3>1, <3>2
  <2>6. ASSUME NEW r \in Replicas, Crash(r) PROVE RegistryInv'
    <3>1. /\ mapped' \in [Replicas -> Mapping \cup {Unmapped}]
          /\ run' \in [Replicas -> [RunIds -> Run \cup {NoRun}]]
          /\ task' \in [Replicas -> [Handlers -> Task]]
          /\ mail' \in [Replicas -> Nat] /\ faults' \in Nat
          /\ up' \in [Replicas -> {"down", "listing", "listed", "up", "closed"}]
      BY <2>6, RunShape, <2>a DEF Crash, Fault, RegistryInv, RegistryTypeOK
    <3>2. /\ up'[r] = "down" /\ mapped'[r] = Unmapped
          /\ \A i \in RunIds : run'[r][i] = NoRun
          /\ \A h \in Handlers : task'[r][h].pc = "idle"
          /\ \A s \in Replicas \ {r} : up'[s] = up[s] /\ mapped'[s] = mapped[s] /\ run'[s] = run[s] /\ task'[s] = task[s]
      BY <2>6 DEF Crash, RegistryInv, RegistryTypeOK, Idle
    <3>3. \A s \in Replicas : StillDown(s)' /\ (up'[s] # "listed" => MapOK(s)')
      BY <3>2 DEF RegistryInv, StillDown, MapOK, IsIdle
    <3>4. \A s \in Replicas, h \in Handlers : At(s, h, "roles")' => task'[s][h].def \in Defs
      BY <3>2 DEF RegistryInv, At
    <3> QED BY <2>6, <3>1, <3>3, <3>4 DEF Crash, RegistryInv, RegistryTypeOK
  <2>7. ASSUME NEW r \in Replicas, NEW i \in RunIds, StopReturns(r, i) PROVE RegistryInv'
    <3> DEFINE U(h) == IF task[r][h].pc = "stopping" /\ task[r][h].on = i
                       THEN [task[r][h] EXCEPT !.pc = "stopped", !.on = Nobody] ELSE task[r][h]
    <3>1. \A h \in Handlers : U(h) \in Task /\ U(h).def = task[r][h].def /\ (U(h).pc = "roles" <=> task[r][h].pc = "roles")
                              /\ (task[r][h].pc = "idle" => U(h) = task[r][h])
      <4> SUFFICES ASSUME NEW h \in Handlers
                   PROVE  U(h) \in Task /\ U(h).def = task[r][h].def /\ (U(h).pc = "roles" <=> task[r][h].pc = "roles")
                              /\ (task[r][h].pc = "idle" => U(h) = task[r][h])
        OBVIOUS
      <4>1. task[r][h] \in Task
        BY <2>a DEF TasksOK
      <4> QED BY <4>1 DEF Task, Pcs
    <3>2. task' = [task EXCEPT ![r] = [h \in Handlers |-> U(h)]]
      BY <2>7 DEF StopReturns
    <3> HIDE DEF U
    <3>3. /\ task' \in [Replicas -> [Handlers -> Task]]
          /\ \A h \in Handlers : task'[r][h] = U(h)
          /\ \A s \in Replicas \ {r} : task'[s] = task[s]
      BY <3>1, <3>2, <2>a DEF TasksOK
    <3>4. /\ run' \in [Replicas -> [RunIds -> Run \cup {NoRun}]]
          /\ \A s \in Replicas, j \in RunIds : run'[s][j] = run[s][j] \/ run'[s][j] = NoRun
      BY <2>7, <2>a DEF StopReturns, RunsOK
    <3>5. \A s \in Replicas : StillDown(s)'
      <4> SUFFICES ASSUME NEW s \in Replicas, up[s] \in NotStarted
                   PROVE  (\A j \in RunIds : run'[s][j] = NoRun) /\ \A h \in Handlers : task'[s][h].pc = "idle"
        BY <2>7 DEF StopReturns, StillDown, IsIdle
      <4>1. (\A j \in RunIds : run[s][j] = NoRun) /\ \A h \in Handlers : task[s][h].pc = "idle"
        BY DEF RegistryInv, StillDown, IsIdle
      <4>2. \A h \in Handlers : task'[s][h] = task[s][h]
        BY <3>1, <3>3, <4>1
      <4> QED BY <3>4, <4>1, <4>2
    <3>6. \A s \in Replicas, h \in Handlers : At(s, h, "roles")' => task'[s][h].def \in Defs
      BY <3>1, <3>3 DEF RegistryInv, At
    <3> QED BY <2>7, <3>3, <3>4, <3>5, <3>6 DEF StopReturns, RegistryInv, RegistryTypeOK, MapOK
  <2>8. ASSUME NEW r \in Replicas, NEW h \in Handlers, RolesApplied(r, h) PROVE RegistryInv'
    <3>1. task[r][h].def \in Defs /\ ~IsIdle(r, h)
      BY <2>8 DEF RolesApplied, RegistryInv, At, IsIdle
    <3>2. Stepped(r, h)
      BY <2>8, <3>1, <2>a, BusyIsUp, DeclareStep DEF RolesApplied
    <3> QED BY <2>8, <3>1, <3>2, BusyIsUp, SteppedKeeps DEF RolesApplied, RegistryInv, RegistryTypeOK, RunsOK, TasksOK
  <2>9. ASSUME NEW r \in Replicas, NEW h \in Handlers, Resume(r, h) PROVE RegistryInv'
    <3>1. ~IsIdle(r, h)
      BY <2>9 DEF Resume, At, IsIdle
    <3>2. task[r][h].def \in Defs \cup {NoDef}
      BY <2>a DEF TasksOK, Task
    <3>3. Stepped(r, h)
      <4>1. CASE task[r][h].def # NoDef
        BY <2>9, <3>2, <4>1, <2>a, BeginStep DEF Resume
      <4>2. CASE task[r][h].def = NoDef
        <5>1. Surfaced(r, h) /\ UNCHANGED <<run, mapped>>
          BY <2>9, <4>2 DEF Resume
        <5>2. PICK t \in Task : t.pc \in {"publish", "idle"} /\ task' = [task EXCEPT ![r][h] = t]
          BY <5>1, <2>a, SurfacedStep
        <5> QED BY <5>1, <5>2, <2>a, <3>1, BusyIsUp, StillStep DEF Set
      <4> QED BY <4>1, <4>2
    <3> QED BY <2>9, <3>1, <3>3, BusyIsUp, SteppedKeeps DEF Resume, RegistryInv, RegistryTypeOK, RunsOK, TasksOK
  <2>10. ASSUME NEW r \in Replicas, NEW h \in Handlers, Publish(r, h) PROVE RegistryInv'
    <3>1. ~IsIdle(r, h)
      BY <2>10 DEF Publish, At, IsIdle
    <3>2. mail' \in [Replicas -> Nat] /\ faults' \in Nat
      BY <2>10 DEF Publish, Fault, RegistryInv, RegistryTypeOK
    <3>3. [Idle EXCEPT !.pc = "reading"] \in Task /\ [Idle EXCEPT !.pc = "reading"].pc = "reading"
      BY RunShape DEF Task, Pcs
    <3>4. Stepped(r, h)
      BY <2>10, <3>1, <3>3, <2>a, BusyIsUp, StillStep DEF Publish
    <3> QED BY <2>10, <3>1, <3>2, <3>4, BusyIsUp, SteppedKeeps DEF Publish, RegistryInv, RegistryTypeOK, RunsOK, TasksOK
  <2>11. ASSUME NEW r \in Replicas, NEW h \in Handlers, GetLine(r, h) PROVE RegistryInv'
    <3>1. ~IsIdle(r, h)
      BY <2>11 DEF GetLine, At, IsIdle
    <3>2. task[r][h] \in Task /\ reg.def \in Defs \cup {NoDef}
      BY <2>a DEF TasksOK, RegistryInv, RegistryTypeOK, Row, NoRow
    <3>3. [task[r][h] EXCEPT !.pc = "decide", !.def = reg.def] \in Task
          /\ [task[r][h] EXCEPT !.pc = "decide", !.def = reg.def].pc = "decide"
      BY <3>2 DEF Task, Pcs
    <3>4. Stepped(r, h)
      BY <2>11, <3>1, <3>3, <2>a, BusyIsUp, StillStep DEF GetLine
    <3>5. told' \in SUBSET Replicas
      BY <2>11 DEF GetLine, RegistryInv, RegistryTypeOK
    <3> QED BY <2>11, <3>1, <3>4, <3>5, BusyIsUp, SteppedKeeps DEF GetLine, RegistryInv, RegistryTypeOK, RunsOK, TasksOK
  <2>12. ASSUME NEW r \in Replicas, NEW h \in Handlers, Follow(r, h) PROVE RegistryInv'
    <3>1. ~IsIdle(r, h) /\ task[r][h] \in Task
      BY <2>12, <2>a DEF Follow, At, IsIdle, TasksOK
    <3>2. task[r][h].def \in Defs \cup {NoDef}
      BY <3>1 DEF Task
    <3>3. Stepped(r, h)
      BY <2>12, <3>1, <3>2, <2>a, BusyIsUp, DeclareStep, RetireStep DEF Follow
    <3> QED BY <2>12, <3>1, <3>3, BusyIsUp, SteppedKeeps DEF Follow, RegistryInv, RegistryTypeOK, RunsOK, TasksOK
  <2>13. ASSUME NEW r \in Replicas, NEW h \in Handlers, Closed(r, h) PROVE RegistryInv'
    <3>1. ~IsIdle(r, h)
      BY <2>13 DEF Closed, At, IsIdle
    <3>2. /\ TasksOK' /\ mapped' \in [Replicas -> Mapping \cup {Unmapped}] /\ mapped'[r] = Unmapped
          /\ \A s \in Replicas \ {r} : mapped'[s] = mapped[s]
      BY <2>13, <2>a, RunShape, SetType DEF Closed, RunsOK
    <3>3. Stepped(r, h)
      BY <2>13, <2>a, <3>2, RunShape DEF Closed, Stepped, RunsOK, MapOK, Set, Idle
    <3> QED BY <2>13, <3>1, <3>3, BusyIsUp, SteppedKeeps DEF Closed, RegistryInv, RegistryTypeOK, RunsOK, TasksOK
  <2>14. ASSUME NEW r \in Replicas, NEW h \in Handlers, Deliver(r, h) PROVE RegistryInv'
    <3>1. up[r] \notin NotStarted /\ MapOK(r)
      BY <2>14 DEF Deliver, RegistryInv, NotStarted
    <3>2. mail' \in [Replicas -> Nat]
      BY <2>14 DEF Deliver, RegistryInv, RegistryTypeOK
    <3>3. [Idle EXCEPT !.pc = "reading"] \in Task /\ [Idle EXCEPT !.pc = "reading"].pc = "reading"
      BY RunShape DEF Task, Pcs
    <3>4. Stepped(r, h)
      BY <2>14, <3>1, <3>3, <2>a, StillStep DEF Deliver
    <3> QED BY <2>14, <3>1, <3>2, <3>4, SteppedKeeps DEF Deliver, RegistryInv, RegistryTypeOK, RunsOK, TasksOK
  <2>15. ASSUME NEW r \in Replicas, NEW h \in Handlers, Delete(r, h) PROVE RegistryInv'
    <3>1. up[r] \notin NotStarted /\ MapOK(r)
      BY <2>15 DEF Delete, RegistryInv, NotStarted
    <3>2. writes' \in Nat /\ reg' \in Row \cup {NoRow} /\ told' \in SUBSET Replicas
      BY <2>15 DEF Delete, RegistryInv, RegistryTypeOK
    <3>3. [Idle EXCEPT !.kind = "delete"] \in Task
      BY RunShape DEF Task, Kinds
    <3>4. Stepped(r, h)
      BY <2>15, <3>1, <3>3, <2>a, RetireStep DEF Delete
    <3> QED BY <2>15, <3>1, <3>2, <3>4, SteppedKeeps DEF Delete, RegistryInv, RegistryTypeOK, RunsOK, TasksOK
  <2>16. ASSUME NEW r \in Replicas, NEW h \in Handlers, Close(r, h) PROVE RegistryInv'
    <3>1. up[r] = "up" /\ MapOK(r) /\ mail' \in [Replicas -> Nat]
      BY <2>16 DEF Close, RegistryInv, RegistryTypeOK
    <3>2. /\ up' \in [Replicas -> {"down", "listing", "listed", "up", "closed"}] /\ up'[r] = "closed"
          /\ \A s \in Replicas \ {r} : up'[s] = up[s]
      BY <2>16 DEF Close, RegistryInv, RegistryTypeOK
    <3>3. CASE mapped[r] = Unmapped
      BY <2>16, <3>1, <3>2, <3>3 DEF Close, RegistryInv, RegistryTypeOK, StillDown, NotStarted, MapOK, At, IsIdle
    <3>4. CASE mapped[r] # Unmapped
      <4>1. [Idle EXCEPT !.kind = "close"] \in Task
        BY RunShape DEF Task, Kinds
      <4>2. Stepped(r, h)
        BY <2>16, <3>1, <3>4, <4>1, <2>a, AwaitStep DEF Close
      <4>3. PICK t \in Task : t.pc # "roles" /\ task' = [task EXCEPT ![r][h] = t]
        BY <4>2 DEF Stepped
      <4>4. \A s \in Replicas, g \in Handlers : task'[s][g] = IF s = r /\ g = h THEN t ELSE task[s][g]
        BY <4>3, <2>a DEF TasksOK
      <4>5. \A s \in Replicas \ {r} : run'[s] = run[s] /\ mapped'[s] = mapped[s]
        BY <4>2 DEF Stepped
      <4>6. \A s \in Replicas : StillDown(s)'
        BY <3>2, <4>4, <4>5 DEF RegistryInv, StillDown, NotStarted, IsIdle
      <4>7. \A s \in Replicas : up'[s] # "listed" => MapOK(s)'
        BY <3>2, <4>2, <4>5 DEF RegistryInv, MapOK, Stepped
      <4>8. \A s \in Replicas, g \in Handlers : At(s, g, "roles")' => task'[s][g].def \in Defs
        BY <4>3, <4>4 DEF RegistryInv, At
      <4> QED BY <2>16, <3>1, <3>2, <4>2, <4>6, <4>7, <4>8 DEF Close, Stepped, RunsOK, TasksOK, RegistryInv, RegistryTypeOK
    <3> QED BY <3>3, <3>4
  <2>17. ASSUME NEW r \in Replicas, NEW h \in Handlers, RolesFail(r, h) \/ FollowFails(r, h) PROVE RegistryInv'
    <3>1. ~IsIdle(r, h) /\ faults' \in Nat
      BY <2>17 DEF RolesFail, FollowFails, At, IsIdle, Fault, RegistryInv, RegistryTypeOK
    <3>2. Stepped(r, h)
      BY <2>17, <3>1, <2>a, BusyIsUp, StillStep, RunShape DEF RolesFail, FollowFails, Idle
    <3> QED BY <2>17, <3>1, <3>2, BusyIsUp, SteppedKeeps DEF RolesFail, FollowFails, RegistryInv, RegistryTypeOK, RunsOK, TasksOK
  <2>18. ASSUME NEW r \in Replicas, NEW h \in Handlers, NEW d \in Defs, NEW e \in Editors \cup {Nobody}, Put(r, h, e, d)
         PROVE  RegistryInv'
    <3>1. reg' \in Row /\ writes' \in Nat /\ told' \in SUBSET Replicas
      <4>1. Write(d, "api")
        BY <2>18 DEF Put
      <4> QED BY <4>1, WriteType DEF RegistryInv
    <3> DEFINE t == [kind |-> "put", pc |-> "roles", def |-> d, on |-> Nobody, by |-> e]
    <3>2. t \in Task /\ t.def \in Defs
      BY DEF Task, Kinds, Pcs
    <3>3. task' = [task EXCEPT ![r][h] = t]
      BY <2>18 DEF Put, Set
    <3> HIDE DEF t
    <3>4. TasksOK' /\ \A s \in Replicas, g \in Handlers : task'[s][g] = IF s = r /\ g = h THEN t ELSE task[s][g]
      BY <3>2, <3>3, <2>a DEF TasksOK
    <3>5. \A s \in Replicas : StillDown(s)'
      BY <2>18, <3>4 DEF Put, RegistryInv, StillDown, NotStarted, IsIdle
    <3>6. \A s \in Replicas, g \in Handlers : At(s, g, "roles")' => task'[s][g].def \in Defs
      BY <3>2, <3>4 DEF RegistryInv, At
    <3> QED BY <2>18, <3>1, <3>4, <3>5, <3>6 DEF Put, RegistryInv, RegistryTypeOK, TasksOK, MapOK
  <2> QED BY <2>1, <2>2, <2>3, <2>4, <2>5, <2>6, <2>7, <2>8, <2>9, <2>10, <2>11, <2>12, <2>13, <2>14, <2>15,
             <2>16, <2>17, <2>18 DEF RegistryNext, HandlerStep, Booting
<1> QED BY <1>1, <1>2, PTL DEF RegistrySpec

\* Type correctness of the registry and of the replicas' surfaces.
THEOREM RegistryTypeCorrect == RegistrySpec => []RegistryTypeOK
<1>1. RegistryInv => RegistryTypeOK
  BY DEF RegistryInv
<1> QED BY <1>1, RegistryInvHolds, PTL

-----------------------------------------------------------------------------
(* Versions.  The row an editor knows, if it is the row still there, has at *)
(* most its version, and with the same version it is the same write.        *)
StampsInOrder == reg.born <= writes /\ reg.stamp <= writes
KnownInOrder(e) == known[e] # NoRow =>
  /\ known[e].born <= writes
  /\ Present /\ known[e].born = reg.born =>
       /\ known[e].version <= reg.version
       /\ known[e].version = reg.version => known[e].stamp = reg.stamp
VersionInv == StampsInOrder /\ \A e \in Editors : KnownInOrder(e)

LEMMA WriteKeepsVersions ==
  ASSUME RegistryTypeOK, VersionInv, NEW d \in Defs, NEW c \in {"code", "api"}, Write(d, c), UNCHANGED known
  PROVE  VersionInv'
<1>1. writes \in Nat /\ writes' = writes + 1
  BY DEF RegistryTypeOK, Write
<1>2. CASE Present
  <2>1. reg \in Row
    BY <1>2 DEF RegistryTypeOK, Present
  <2>2. reg' = [reg EXCEPT !.def = d, !.source = c, !.version = @ + 1, !.stamp = writes + 1]
    BY <1>2 DEF Write
  <2>3. reg'.born = reg.born /\ reg'.version = reg.version + 1 /\ reg'.stamp = writes + 1
    BY <2>1, <2>2, Zenon DEF Row
  <2>4. reg.version \in Nat /\ reg.born \in Nat /\ reg.stamp \in Nat
    BY <2>1 DEF Row
  <2>5. ASSUME NEW e \in Editors PROVE KnownInOrder(e)'
    <3>1. CASE known[e] # NoRow
      <4>1. known[e] \in Row
        BY <3>1 DEF RegistryTypeOK
      <4>2. known[e].version \in Nat /\ known[e].born \in Nat
        BY <4>1 DEF Row
      <4> QED BY <1>1, <1>2, <2>3, <2>4, <4>2 DEF VersionInv, KnownInOrder
    <3>2. CASE known[e] = NoRow
      BY <3>2 DEF KnownInOrder
    <3> QED BY <3>1, <3>2
  <2>6. StampsInOrder'
    BY <1>1, <2>3, <2>4 DEF VersionInv, StampsInOrder
  <2> QED BY <2>5, <2>6 DEF VersionInv
<1>3. CASE ~Present
  <2>1. reg'.born = writes + 1 /\ reg'.stamp = writes + 1
    BY <1>3 DEF Write
  <2>2. ASSUME NEW e \in Editors, known[e] # NoRow PROVE known[e].born \in Nat /\ known[e].born <= writes
    <3>1. known[e] \in Row
      BY <2>2 DEF RegistryTypeOK
    <3> QED BY <2>2, <3>1 DEF Row, VersionInv, KnownInOrder
  <2>3. StampsInOrder'
    BY <1>1, <2>1 DEF StampsInOrder
  <2>4. \A e \in Editors : KnownInOrder(e)'
    BY <1>1, <2>1, <2>2 DEF KnownInOrder
  <2> QED BY <2>3, <2>4 DEF VersionInv
<1> QED BY <1>2, <1>3

LEMMA VersionInvHolds == RegistrySpec => []VersionInv
<1>1. RegistryInit => VersionInv
  BY DEF RegistryInit, VersionInv, StampsInOrder, KnownInOrder, NoRow
<1>2. RegistryInv /\ VersionInv /\ [RegistryNext]_registryVars => VersionInv'
  <2> SUFFICES ASSUME RegistryInv, VersionInv, [RegistryNext]_registryVars PROVE VersionInv'
    OBVIOUS
  <2>a. RegistryTypeOK
    BY DEF RegistryInv
  <2>1. CASE UNCHANGED <<reg, writes, known>>
    BY <2>1 DEF VersionInv, StampsInOrder, KnownInOrder, Present
  <2>2. ASSUME NEW e \in Editors, ReadRow(e) PROVE VersionInv'
    <3>1. Present /\ known' = [known EXCEPT ![e] = reg] /\ reg' = reg /\ writes' = writes
      BY <2>2 DEF ReadRow
    <3>2. reg \in Row
      BY <2>a, <3>1 DEF RegistryTypeOK, Present
    <3>3. reg.version \in Nat /\ reg.version <= reg.version
      BY <3>2 DEF Row
    <3>4. \A f \in Editors : known'[f] = IF f = e THEN reg ELSE known[f]
      BY <2>a, <3>1 DEF RegistryTypeOK
    <3> QED BY <3>1, <3>3, <3>4 DEF VersionInv, StampsInOrder, KnownInOrder, Present
  <2>3. ASSUME NEW r \in Replicas, BootApply(r) PROVE VersionInv'
    <3>1. CASE CodeLineWrites(CodeLine[r])
      <4>1. Write(CodeLine[r], "code") /\ CodeLine[r] \in Defs /\ UNCHANGED known
        BY <2>3, <3>1, RegistryAssumption DEF BootApply, CodeLineWrites
      <4> QED BY <2>a, <4>1, WriteKeepsVersions
    <3>2. CASE ~CodeLineWrites(CodeLine[r])
      BY <2>1, <2>3, <3>2 DEF BootApply
    <3> QED BY <3>1, <3>2
  <2>4. ASSUME NEW r \in Replicas, NEW h \in Handlers, NEW d \in Defs, NEW e \in Editors \cup {Nobody}, Put(r, h, e, d)
        PROVE  VersionInv'
    BY <2>4, <2>a, WriteKeepsVersions DEF Put
  <2>5. ASSUME NEW r \in Replicas, NEW h \in Handlers, Delete(r, h) PROVE VersionInv'
    <3>1. reg' = NoRow /\ writes' = writes + 1 /\ known' = known /\ writes \in Nat
      BY <2>5, <2>a DEF Delete, RegistryTypeOK
    <3>2. StampsInOrder'
      BY <3>1 DEF StampsInOrder, NoRow
    <3>3. ASSUME NEW e \in Editors PROVE KnownInOrder(e)'
      <4>1. known[e] # NoRow => known[e].born \in Nat /\ known[e].born <= writes
        BY <2>a DEF RegistryTypeOK, Row, VersionInv, KnownInOrder
      <4> QED BY <3>1, <4>1 DEF KnownInOrder, Present
    <3> QED BY <3>2, <3>3 DEF VersionInv
  <2>6. ASSUME NEW r \in Replicas, BootList(r) \/ BootStart(r) \/ Crash(r) PROVE VersionInv'
    BY <2>1, <2>6 DEF BootList, BootStart, Crash
  <2>7. ASSUME NEW r \in Replicas, NEW i \in RunIds, StopReturns(r, i) PROVE VersionInv'
    BY <2>1, <2>7 DEF StopReturns
  <2>8. ASSUME NEW r \in Replicas, NEW h \in Handlers,
               \/ HandlerStep(r, h) \/ Deliver(r, h) \/ Close(r, h) \/ RolesFail(r, h) \/ FollowFails(r, h)
        PROVE  VersionInv'
    BY <2>1, <2>8 DEF HandlerStep, RolesApplied, Resume, Publish, GetLine, Follow, Closed, Deliver, Close,
       RolesFail, FollowFails
  <2>9. CASE UNCHANGED registryVars
    BY <2>1, <2>9 DEF registryVars
  <2> QED BY <2>2, <2>3, <2>4, <2>5, <2>6, <2>7, <2>8, <2>9 DEF RegistryNext, Booting
<1> QED BY <1>1, <1>2, RegistryInvHolds, PTL DEF RegistrySpec

\* Only a put takes an idle handler to the roles.
LEMMA OnlyPutLands ==
  ASSUME RegistryInv, [RegistryNext]_registryVars, NEW e \in Editors, Landing(e)
  PROVE  VersionMatches(e)
<1>1. PICK r \in Replicas, h \in Handlers : IsIdle(r, h) /\ task'[r][h].pc = "roles" /\ task'[r][h].by = e
  BY DEF Landing
<1>a. RunsOK /\ TasksOK
  BY DEF RegistryInv, RegistryTypeOK, RunsOK, TasksOK
<1>2. task'[r][h] # task[r][h]
  BY <1>1 DEF IsIdle
<1>3. CASE UNCHANGED task
  BY <1>2, <1>3
<1>4. ASSUME NEW s \in Replicas, NEW g \in Handlers, NEW d \in Defs, NEW f \in Editors \cup {Nobody}, Put(s, g, f, d)
      PROVE  VersionMatches(e)
  <2> DEFINE t == [kind |-> "put", pc |-> "roles", def |-> d, on |-> Nobody, by |-> f]
  <2>1. task' = [task EXCEPT ![s][g] = t] /\ t.by = f
    BY <1>4 DEF Put, Set
  <2> HIDE DEF t
  <2>2. \A u \in Replicas, k \in Handlers : task'[u][k] = IF u = s /\ k = g THEN t ELSE task[u][k]
    BY <1>a, <2>1 DEF TasksOK
  <2>3. f = e
    BY <1>1, <1>2, <2>1, <2>2
  <2> QED BY <1>4, <2>3 DEF Put
<1>5. ASSUME NEW s \in Replicas, NEW g \in Handlers, NEW t \in Task, t.pc # "roles", task' = [task EXCEPT ![s][g] = t]
      PROVE  FALSE
  <2>1. \A u \in Replicas, k \in Handlers : task'[u][k] = IF u = s /\ k = g THEN t ELSE task[u][k]
    BY <1>a, <1>5 DEF TasksOK
  <2> QED BY <1>1, <1>2, <1>5, <2>1
<1>6. ASSUME NEW s \in Replicas, Crash(s) PROVE FALSE
  <2>1. task'[r] = IF r = s THEN [k \in Handlers |-> Idle] ELSE task[r]
    BY <1>6, <1>a DEF Crash, TasksOK
  <2> QED BY <1>1, <1>2, <2>1 DEF Idle
<1>7. ASSUME NEW s \in Replicas, NEW i \in RunIds, StopReturns(s, i) PROVE FALSE
  <2>1. task'[r] = IF r = s THEN [k \in Handlers |-> IF task[s][k].pc = "stopping" /\ task[s][k].on = i
                                   THEN [task[s][k] EXCEPT !.pc = "stopped", !.on = Nobody] ELSE task[s][k]]
                   ELSE task[r]
    BY <1>7, <1>a DEF StopReturns, TasksOK
  <2> QED BY <1>1, <1>2, <2>1 DEF IsIdle
<1>8. ASSUME NEW s \in Replicas, NEW g \in Handlers, Stepped(s, g) PROVE FALSE
  BY <1>5, <1>8 DEF Stepped
<1>9. ASSUME NEW s \in Replicas, NEW g \in Handlers, NEW t \in Task, t.pc \in {"idle", "reading", "decide", "publish"}, Set(s, g, t)
      PROVE  FALSE
  BY <1>5, <1>9 DEF Set
<1>10. Idle \in Task /\ Idle.pc = "idle" /\ [Idle EXCEPT !.pc = "reading"] \in Task /\ [Idle EXCEPT !.pc = "reading"].pc = "reading"
       /\ [Idle EXCEPT !.kind = "delete"] \in Task /\ [Idle EXCEPT !.kind = "close"] \in Task
  BY RunShape DEF Idle, Task, Pcs, Kinds
<1>11. ASSUME NEW s \in Replicas, NEW g \in Handlers,
              Publish(s, g) \/ Deliver(s, g) \/ Closed(s, g) \/ RolesFail(s, g) \/ FollowFails(s, g)
       PROVE  FALSE
  BY <1>9, <1>10, <1>11 DEF Publish, Deliver, Closed, RolesFail, FollowFails
<1>12. ASSUME NEW s \in Replicas, NEW g \in Handlers, GetLine(s, g) PROVE FALSE
  <2>1. task[s][g] \in Task /\ reg.def \in Defs \cup {NoDef}
    BY <1>a DEF TasksOK, RegistryInv, RegistryTypeOK, Row, NoRow
  <2>2. [task[s][g] EXCEPT !.pc = "decide", !.def = reg.def] \in Task
        /\ [task[s][g] EXCEPT !.pc = "decide", !.def = reg.def].pc = "decide"
    BY <2>1 DEF Task, Pcs
  <2> QED BY <1>9, <1>12, <2>2 DEF GetLine
<1>13. ASSUME NEW s \in Replicas, NEW g \in Handlers,
              RolesApplied(s, g) \/ Follow(s, g) \/ Delete(s, g)
       PROVE  FALSE
  <2>1. MapOK(s) /\ task[s][g] \in Task /\ task[s][g].def \in Defs \cup {NoDef}
    <3>1. MapOK(s)
      BY <1>13, BusyIsUp DEF RolesApplied, Follow, Delete, At, IsIdle, RegistryInv
    <3>2. task[s][g] \in Task
      BY <1>a DEF TasksOK
    <3> QED BY <3>1, <3>2 DEF Task
  <2>2. CASE RolesApplied(s, g)
    BY <2>1, <2>2, <1>a, <1>8, DeclareStep DEF RolesApplied, RegistryInv, At
  <2>3. CASE Follow(s, g)
    BY <2>1, <2>3, <1>a, <1>8, DeclareStep, RetireStep DEF Follow
  <2>4. CASE Delete(s, g)
    BY <2>1, <2>4, <1>a, <1>8, <1>10, RetireStep DEF Delete
  <2> QED BY <1>13, <2>2, <2>3, <2>4
<1>14. ASSUME NEW s \in Replicas, NEW g \in Handlers, Resume(s, g) PROVE FALSE
  <2>1. PICK t \in Task : t.pc \in {"publish", "idle"} /\ task' = [task EXCEPT ![s][g] = t]
    BY <1>14, <1>a, SurfacedStep DEF Resume
  <2> QED BY <1>5, <2>1
<1>15. ASSUME NEW s \in Replicas, NEW g \in Handlers, Close(s, g) PROVE FALSE
  <2>1. MapOK(s)
    BY <1>15 DEF Close, RegistryInv
  <2>2. CASE mapped[s] = Unmapped
    BY <1>3, <1>15, <2>2, <1>2 DEF Close
  <2>3. CASE mapped[s] # Unmapped
    BY <1>8, <1>10, <1>15, <1>a, <2>1, <2>3, AwaitStep DEF Close
  <2> QED BY <2>2, <2>3
<1>16. ASSUME NEW s \in Replicas, Booting(s) PROVE FALSE
  BY <1>2, <1>16 DEF Booting, BootApply, BootList, BootStart
<1>17. ASSUME NEW f \in Editors, ReadRow(f) PROVE FALSE
  BY <1>2, <1>17 DEF ReadRow
<1>18. CASE UNCHANGED registryVars
  BY <1>2, <1>18 DEF registryVars
<1> QED BY <1>4, <1>6, <1>7, <1>11, <1>12, <1>13, <1>14, <1>15, <1>16, <1>17, <1>18 DEF RegistryNext, HandlerStep

\* One version of one row is one write: a write that names the version its
\* caller last read replaces the row he read, unless the line was retired and
\* declared again in between.
THEOREM VersionNamesOneWriteHolds == RegistrySpec => VersionNamesOneWrite
<1>1. RegistryInv /\ VersionInv /\ [RegistryNext]_registryVars =>
        [\A e \in Editors :
           Landing(e) /\ Present /\ reg.born = known[e].born => reg.stamp = known[e].stamp]_registryVars
  <2> SUFFICES ASSUME RegistryInv, VersionInv, [RegistryNext]_registryVars,
                      NEW e \in Editors, Landing(e), Present, reg.born = known[e].born
               PROVE  reg.stamp = known[e].stamp
    OBVIOUS
  <2>1. known[e] # NoRow /\ reg.version = known[e].version
    BY OnlyPutLands DEF VersionMatches
  <2> QED BY <2>1 DEF VersionInv, KnownInOrder
<1> QED BY <1>1, RegistryInvHolds, VersionInvHolds, PTL DEF RegistrySpec, VersionNamesOneWrite

-----------------------------------------------------------------------------
(* What a handler's parts leave in its task.                                *)
Ended(r, h, u) ==
  \/ task[r][h].kind \in {"put", "delete"} /\ u.kind = task[r][h].kind /\ u.pc = "publish"
  \/ task[r][h].kind \notin {"put", "delete"} /\ u = Idle

LEMMA SurfacedIs ==
  ASSUME TasksOK, NEW r \in Replicas, NEW h \in Handlers, Surfaced(r, h)
  PROVE  \E u \in Task : Ended(r, h, u) /\ task' = [task EXCEPT ![r][h] = u]
<1>1. CASE task[r][h].kind \in {"put", "delete"}
  <2>1. task[r][h] \in Task
    BY DEF TasksOK
  <2>2. PICK u : u = [task[r][h] EXCEPT !.pc = "publish"]
    OBVIOUS
  <2>3. u \in Task /\ u.pc = "publish" /\ u.kind = task[r][h].kind
    BY <2>1, <2>2 DEF Task, Pcs
  <2>4. task' = [task EXCEPT ![r][h] = u]
    BY <1>1, <2>2 DEF Surfaced, To, Set
  <2> QED BY <1>1, <2>3, <2>4 DEF Ended
<1>2. CASE task[r][h].kind \notin {"put", "delete"}
  <2>1. task' = [task EXCEPT ![r][h] = Idle]
    BY <1>2 DEF Surfaced, Set
  <2> QED BY <1>2, <2>1, RunShape DEF Ended
<1> QED BY <1>1, <1>2

\* The run in the map has stopped already, or its stop is awaited.
Stops(r, u) ==
  LET i == mapped[r].id IN
  \/ run[r][i] = NoRun /\ u.pc = "stopped" /\ run' = run
  \/ /\ run[r][i] # NoRun /\ u.pc = "stopping" /\ u.on = i
     /\ run' \in [Replicas -> [RunIds -> Run \cup {NoRun}]]
     /\ run'[r][i] # NoRun /\ run'[r][i].def = run[r][i].def /\ run'[r][i].stopping
     /\ \A s \in Replicas, j \in RunIds : s # r \/ j # i => run'[s][j] = run[s][j]

LEMMA AwaitIs ==
  ASSUME RunsOK, TasksOK, NEW r \in Replicas, NEW h \in Handlers, NEW t \in Task,
         mapped[r].id \in RunIds, AwaitStop(r, h, t)
  PROVE  \E u \in Task : /\ task' = [task EXCEPT ![r][h] = u] /\ u.kind = t.kind /\ u.def = t.def
                         /\ Stops(r, u)
<1>1. PICK i \in RunIds : i = mapped[r].id
  OBVIOUS
<1>2. CASE run[r][i] = NoRun
  <2>1. PICK u : u = [t EXCEPT !.pc = "stopped"]
    OBVIOUS
  <2>2. u \in Task /\ u.kind = t.kind /\ u.def = t.def /\ u.pc = "stopped"
    BY <2>1 DEF Task, Pcs
  <2>3. task' = [task EXCEPT ![r][h] = u] /\ run' = run
    BY <1>1, <1>2, <2>1 DEF AwaitStop, Set
  <2> QED BY <1>1, <1>2, <2>2, <2>3 DEF Stops
<1>3. CASE run[r][i] # NoRun
  <2>1. PICK u : u = [t EXCEPT !.pc = "stopping", !.on = i]
    OBVIOUS
  <2>2. u \in Task /\ u.kind = t.kind /\ u.def = t.def /\ u.pc = "stopping" /\ u.on = i
    BY <2>1 DEF Task, Pcs
  <2>3. task' = [task EXCEPT ![r][h] = u] /\ run' = [run EXCEPT ![r][i].stopping = TRUE]
    BY <1>1, <1>3, <2>1 DEF AwaitStop, Set
  <2>4. run[r][i] \in Run
    BY <1>3 DEF RunsOK
  <2>5. PICK x : x = [run[r][i] EXCEPT !.stopping = TRUE]
    OBVIOUS
  <2>6. x \in Run /\ x # NoRun /\ x.def = run[r][i].def /\ x.stopping
    BY <2>4, <2>5, RunShape DEF Run
  <2>7. run' = [run EXCEPT ![r][i] = x]
    BY <2>3, <2>5 DEF RunsOK
  <2>8. /\ run'[r][i] = x /\ \A s \in Replicas, j \in RunIds : s # r \/ j # i => run'[s][j] = run[s][j]
        /\ run' \in [Replicas -> [RunIds -> Run \cup {NoRun}]]
    BY <2>6, <2>7 DEF RunsOK
  <2> QED BY <1>1, <1>3, <2>2, <2>3, <2>6, <2>8 DEF Stops
<1> QED BY <1>2, <1>3

\* What a declaration and a retirement do next.
LEMMA DeclareIs ==
  ASSUME RunsOK, TasksOK, NEW r \in Replicas, NEW h \in Handlers, NEW d \in Defs, MapOK(r), Declare(r, h, d)
  PROVE  \E u \in Task :
           /\ task' = [task EXCEPT ![r][h] = u]
           /\ \/ Ended(r, h, u) /\ mapped[r].def = d /\ UNCHANGED <<run, mapped>>
              \/ /\ mapped[r] # Unmapped /\ u.kind = task[r][h].kind /\ u.def = task[r][h].def
                 /\ Stops(r, u) /\ mapped' = mapped
              \/ Ended(r, h, u) /\ mapped[r] = Unmapped /\ Begin(r, d)
<1>1. CASE mapped[r].def = d
  BY <1>1, SurfacedIs DEF Declare
<1>2. CASE mapped[r].def # d /\ mapped[r] # Unmapped
  <2>1. task[r][h] \in Task /\ AwaitStop(r, h, task[r][h]) /\ mapped' = mapped
    BY <1>2 DEF Declare, TasksOK
  <2> QED BY <1>2, <2>1, AwaitIs DEF MapOK
<1>3. CASE mapped[r].def # d /\ mapped[r] = Unmapped
  BY <1>3, SurfacedIs DEF Declare
<1> QED BY <1>1, <1>2, <1>3

LEMMA RetireIs ==
  ASSUME RunsOK, TasksOK, NEW r \in Replicas, NEW h \in Handlers, NEW t \in Task, MapOK(r), Retire(r, h, t)
  PROVE  \E u \in Task :
           /\ task' = [task EXCEPT ![r][h] = u]
           /\ \/ /\ mapped[r] = Unmapped /\ UNCHANGED <<run, mapped>>
                 /\ IF t.kind = "delete" THEN u.kind = "delete" /\ u.pc = "publish" ELSE u = Idle
              \/ /\ mapped[r] # Unmapped /\ u.kind = t.kind /\ u.def = t.def
                 /\ Stops(r, u) /\ mapped' = [mapped EXCEPT ![r] = Unmapped]
<1>1. CASE mapped[r] = Unmapped
  <2>1. PICK u : u = IF t.kind = "delete" THEN [t EXCEPT !.pc = "publish"] ELSE Idle
    OBVIOUS
  <2>2. u \in Task /\ IF t.kind = "delete" THEN u.kind = "delete" /\ u.pc = "publish" ELSE u = Idle
    BY <2>1, RunShape DEF Task, Pcs
  <2>3. task' = [task EXCEPT ![r][h] = u] /\ UNCHANGED <<run, mapped>>
    BY <1>1, <2>1 DEF Retire, Set
  <2> QED BY <1>1, <2>2, <2>3
<1>2. CASE mapped[r] # Unmapped
  <2>1. AwaitStop(r, h, t) /\ mapped' = [mapped EXCEPT ![r] = Unmapped]
    BY <1>2 DEF Retire
  <2> QED BY <1>2, <2>1, AwaitIs DEF MapOK
<1> QED BY <1>1, <1>2

\* A stop that returns moves the handlers that await it on.
LEMMA ReturnIs ==
  ASSUME TasksOK, NEW r \in Replicas, NEW i \in RunIds, StopReturns(r, i)
  PROVE  /\ \A s \in Replicas \ {r} : task'[s] = task[s]
         /\ \A h \in Handlers :
              IF At(r, h, "stopping") /\ task[r][h].on = i
              THEN At(r, h, "stopped")' /\ task'[r][h].kind = task[r][h].kind /\ task'[r][h].def = task[r][h].def
              ELSE task'[r][h] = task[r][h]
<1> DEFINE U(h) == IF task[r][h].pc = "stopping" /\ task[r][h].on = i
                   THEN [task[r][h] EXCEPT !.pc = "stopped", !.on = Nobody] ELSE task[r][h]
<1>1. task' = [task EXCEPT ![r] = [h \in Handlers |-> U(h)]]
  BY DEF StopReturns
<1>2. \A h \in Handlers :
        IF task[r][h].pc = "stopping" /\ task[r][h].on = i
        THEN U(h).pc = "stopped" /\ U(h).kind = task[r][h].kind /\ U(h).def = task[r][h].def
        ELSE U(h) = task[r][h]
  BY DEF TasksOK, Task
<1> HIDE DEF U
<1>3. (\A s \in Replicas \ {r} : task'[s] = task[s]) /\ \A h \in Handlers : task'[r][h] = U(h)
  BY <1>1 DEF TasksOK
<1> QED BY <1>2, <1>3 DEF At

-----------------------------------------------------------------------------
(* Whoever is up and was not told of the last write has an event on its way, *)
(* reads the row, or is about to be told by the request that wrote it.       *)
Awake == {"listed", "up"}
Telling(s, g) == task[s][g].kind \in {"put", "delete"} /\ task[s][g].pc \in {"roles", "stopping", "stopped", "publish"}
Hears(r) == r \in told \/ mail[r] > 0 \/ \E h \in Handlers : At(r, h, "reading")
TellingInv == faults = 0 /\ reg.source = "api" =>
  \A r \in Replicas : up[r] \in Awake => Hears(r) \/ \E s \in Replicas, g \in Handlers : Telling(s, g)

LEMMA TellingKept ==
  ASSUME TellingInv, faults' = faults, reg' = reg, mail' = mail, told \subseteq told',
         \A s \in Replicas : up'[s] \in Awake => up[s] \in Awake \/ s \in told',
         \A s \in Replicas, g \in Handlers : Telling(s, g) => Telling(s, g)',
         \A s \in Replicas, g \in Handlers : At(s, g, "reading") => At(s, g, "reading")' \/ s \in told'
  PROVE  TellingInv'
<1> SUFFICES ASSUME faults = 0, reg.source = "api", NEW r \in Replicas, up'[r] \in Awake, r \notin told'
             PROVE  Hears(r)' \/ \E s \in Replicas, g \in Handlers : Telling(s, g)'
  BY DEF TellingInv, Hears
<1>1. CASE \E s \in Replicas, g \in Handlers : Telling(s, g)
  BY <1>1
<1>2. CASE Hears(r)
  BY <1>2 DEF Hears
<1> QED BY <1>1, <1>2 DEF TellingInv

\* One handler steps, and still tells if it was to tell.
LEMMA TellingStep ==
  ASSUME RegistryInv, TellingInv, UNCHANGED <<faults, reg, mail, up>>, told \subseteq told', NEW r \in Replicas, NEW h \in Handlers,
         NEW u \in Task, task' = [task EXCEPT ![r][h] = u],
         Telling(r, h) => u.kind \in {"put", "delete"} /\ u.pc \in {"roles", "stopping", "stopped", "publish"},
         ~At(r, h, "reading") \/ r \in told'
  PROVE  TellingInv'
<1>1. \A s \in Replicas, g \in Handlers : task'[s][g] = IF s = r /\ g = h THEN u ELSE task[s][g]
  BY DEF RegistryInv, RegistryTypeOK
<1>2. \A s \in Replicas, g \in Handlers : Telling(s, g) => Telling(s, g)'
  BY <1>1 DEF Telling
<1>3. \A s \in Replicas, g \in Handlers : At(s, g, "reading") => At(s, g, "reading")' \/ s \in told'
  BY <1>1 DEF At
<1> QED BY <1>2, <1>3, TellingKept

\* Nobody who is up misses a write of the API: every such replica was told of the last
\* one when nothing is in flight and nothing has failed, for any number of replicas,
\* handlers and writes.
THEOREM RegistryTellsEveryReplica == RegistrySpec => []EveryReplicaTold
<1>1. RegistryInit => TellingInv
  BY DEF RegistryInit, TellingInv, Awake
<1>2. RegistryInv /\ TellingInv /\ [RegistryNext]_registryVars => TellingInv'
  <2> SUFFICES ASSUME RegistryInv, TellingInv, [RegistryNext]_registryVars PROVE TellingInv'
    OBVIOUS
  <2>a. RunsOK /\ TasksOK
    BY DEF RegistryInv, RegistryTypeOK, RunsOK, TasksOK
  <2>b. Idle \in Task /\ Idle.pc = "idle" /\ Idle.kind = "follow"
    BY RunShape DEF Idle
  <2>c. \A r \in Replicas, h \in Handlers : task[r][h] \in Task /\ task[r][h].def \in Defs \cup {NoDef}
    BY <2>a DEF TasksOK, Task
  <2>1. CASE UNCHANGED <<reg, up, task, mail, told, faults>>
    BY <2>1, TellingKept DEF Telling, At
  <2>2. ASSUME faults' = faults + 1 PROVE TellingInv'
    BY <2>2 DEF TellingInv, RegistryInv, RegistryTypeOK
  <2>3. ASSUME NEW r \in Replicas, BootApply(r) PROVE TellingInv'
    <3>1. \A s \in Replicas : up'[s] \in Awake => up[s] \in Awake
      BY <2>3 DEF BootApply, RegistryInv, RegistryTypeOK, Awake
    <3>2. CASE CodeLineWrites(CodeLine[r])
      <4>1. Write(CodeLine[r], "code")
        BY <2>3, <3>2 DEF BootApply
      <4>2. reg'.source = "code"
        BY <4>1 DEF Write, Present, RegistryInv, RegistryTypeOK, Row
      <4> QED BY <4>2 DEF TellingInv
    <3>3. CASE ~CodeLineWrites(CodeLine[r])
      BY <2>3, <3>1, <3>3, TellingKept DEF BootApply, Telling, At
    <3> QED BY <3>2, <3>3
  <2>4. ASSUME NEW r \in Replicas, BootList(r) PROVE TellingInv'
    BY <2>4, TellingKept DEF BootList, RegistryInv, RegistryTypeOK, Telling, At
  <2>5. ASSUME NEW r \in Replicas, BootStart(r) PROVE TellingInv'
    BY <2>5, TellingKept DEF BootStart, RegistryInv, RegistryTypeOK, Telling, At, Awake
  <2>6. ASSUME NEW r \in Replicas, Crash(r) PROVE TellingInv'
    BY <2>2, <2>6 DEF Crash, Fault
  <2>7. ASSUME NEW r \in Replicas, NEW i \in RunIds, StopReturns(r, i) PROVE TellingInv'
    <3>1. \A s \in Replicas, g \in Handlers :
            \/ task'[s][g] = task[s][g]
            \/ At(s, g, "stopping") /\ At(s, g, "stopped")' /\ task'[s][g].kind = task[s][g].kind
      BY <2>7, <2>a, ReturnIs
    <3> QED BY <2>7, <3>1, TellingKept DEF StopReturns, Telling, At
  <2>8. ASSUME NEW r \in Replicas, NEW h \in Handlers, RolesApplied(r, h) PROVE TellingInv'
    <3>1. Declare(r, h, task[r][h].def) /\ task[r][h].def \in Defs /\ MapOK(r) /\ At(r, h, "roles")
      BY <2>8, BusyIsUp DEF RolesApplied, RegistryInv, At, IsIdle
    <3>2. PICK u \in Task : /\ task' = [task EXCEPT ![r][h] = u]
                            /\ Ended(r, h, u) \/ (u.kind = task[r][h].kind /\ Stops(r, u))
      BY <2>a, <3>1, DeclareIs
    <3> QED BY <2>8, <3>1, <3>2, TellingStep DEF RolesApplied, Telling, Ended, Stops, At
  <2>9. ASSUME NEW r \in Replicas, NEW h \in Handlers, Resume(r, h) PROVE TellingInv'
    <3>1. PICK u \in Task : Ended(r, h, u) /\ task' = [task EXCEPT ![r][h] = u]
      BY <2>9, <2>a, SurfacedIs DEF Resume
    <3> QED BY <2>9, <3>1, TellingStep DEF Resume, Telling, Ended, At
  <2>10. ASSUME NEW r \in Replicas, NEW h \in Handlers, Publish(r, h) PROVE TellingInv'
    <3>1. PICK got \in SUBSET {s \in Replicas \ {r} : up[s] = "up"} :
             /\ mail' = [s \in Replicas |-> IF s \in got THEN mail[s] + 1 ELSE mail[s]]
             /\ IF \E s \in Replicas \ ({r} \cup got) : up[s] \in {"up", "listed"} THEN Fault ELSE UNCHANGED faults
      BY <2>10 DEF Publish
    <3>2. CASE \E s \in Replicas \ ({r} \cup got) : up[s] \in {"up", "listed"}
      BY <2>2, <3>1, <3>2 DEF Fault
    <3>3. CASE ~\E s \in Replicas \ ({r} \cup got) : up[s] \in {"up", "listed"}
      <4>1. At(r, h, "reading")'
        <5>1. PICK t : t = [Idle EXCEPT !.pc = "reading"]
          OBVIOUS
        <5>2. task' = [task EXCEPT ![r][h] = t] /\ t.pc = "reading"
          BY <2>10, <5>1 DEF Publish, Set, Idle
        <5> QED BY <5>2, <2>a DEF TasksOK, At
      <4>2. \A s \in got : mail'[s] > 0
        BY <3>1 DEF RegistryInv, RegistryTypeOK
      <4>3. \A s \in Replicas : up[s] \in Awake => s \in got \/ s = r
        BY <3>3 DEF Awake
      <4> QED BY <2>10, <4>1, <4>2, <4>3 DEF Publish, TellingInv, Hears
    <3> QED BY <3>2, <3>3
  <2>11. ASSUME NEW r \in Replicas, NEW h \in Handlers, GetLine(r, h) PROVE TellingInv'
    <3>1. PICK u : u = [task[r][h] EXCEPT !.pc = "decide", !.def = reg.def]
      OBVIOUS
    <3>a. reg.def \in Defs \cup {NoDef} /\ task[r][h] \in Task
      BY <2>c DEF RegistryInv, RegistryTypeOK, Row, NoRow
    <3>2. u \in Task
      BY <3>a, <3>1 DEF Task, Pcs
    <3>3. task' = [task EXCEPT ![r][h] = u] /\ ~Telling(r, h) /\ r \in told' /\ told \subseteq told'
      BY <2>11, <3>1 DEF GetLine, Set, Telling, At
    <3> QED BY <2>11, <3>2, <3>3, TellingStep DEF GetLine
  <2>12. ASSUME NEW r \in Replicas, NEW h \in Handlers, Follow(r, h) PROVE TellingInv'
    <3>1. MapOK(r) /\ At(r, h, "decide")
      BY <2>12, BusyIsUp DEF Follow, At, IsIdle
    <3>2. PICK u \in Task : task' = [task EXCEPT ![r][h] = u]
      BY <2>12, <2>a, <2>c, <3>1, DeclareIs, RetireIs DEF Follow
    <3> QED BY <2>12, <3>1, <3>2, TellingStep DEF Follow, Telling, At
  <2>13. ASSUME NEW r \in Replicas, NEW h \in Handlers, Closed(r, h) PROVE TellingInv'
    BY <2>13, <2>b, TellingStep DEF Closed, Set, Telling, At
  <2>14. ASSUME NEW r \in Replicas, NEW h \in Handlers, Deliver(r, h) PROVE TellingInv'
    <3>1. PICK t : t = [Idle EXCEPT !.pc = "reading"]
      OBVIOUS
    <3>2. task' = [task EXCEPT ![r][h] = t] /\ t.pc = "reading" /\ task[r][h].pc = "idle"
      BY <2>14, <3>1 DEF Deliver, Set, Idle, IsIdle
    <3>3. \A s \in Replicas, g \in Handlers : task'[s][g] = IF s = r /\ g = h THEN t ELSE task[s][g]
      BY <2>a, <3>2 DEF TasksOK
    <3>4. \A s \in Replicas, g \in Handlers : (Telling(s, g) => Telling(s, g)') /\ (At(s, g, "reading") => At(s, g, "reading")')
      BY <3>2, <3>3 DEF Telling, At
    <3>5. At(r, h, "reading")' /\ \A s \in Replicas \ {r} : mail'[s] = mail[s]
      BY <2>14, <3>2, <3>3 DEF Deliver, At, RegistryInv, RegistryTypeOK
    <3>6. \A s \in Replicas : Hears(s) => Hears(s)'
      BY <2>14, <3>4, <3>5 DEF Hears, Deliver
    <3> QED BY <2>14, <3>4, <3>6 DEF Deliver, TellingInv
  <2>15. ASSUME NEW r \in Replicas, NEW h \in Handlers, Telling(r, h)' PROVE TellingInv'
    BY <2>15 DEF TellingInv
  <2>16. ASSUME NEW r \in Replicas, NEW h \in Handlers, Delete(r, h) PROVE TellingInv'
    <3>1. PICK t : t = [Idle EXCEPT !.kind = "delete"]
      OBVIOUS
    <3>2. t \in Task /\ t.kind = "delete" /\ MapOK(r)
      BY <2>16, <3>1, RunShape DEF Idle, Task, Kinds, Delete, RegistryInv
    <3>3. Retire(r, h, t)
      BY <2>16, <3>1 DEF Delete
    <3>4. PICK u \in Task : /\ task' = [task EXCEPT ![r][h] = u] /\ u.kind = "delete"
                            /\ u.pc \in {"publish", "stopping", "stopped"}
      BY <2>a, <3>2, <3>3, RetireIs DEF Stops
    <3>5. task'[r][h] = u
      BY <2>a, <3>4 DEF TasksOK
    <3> QED BY <2>15, <3>4, <3>5 DEF Telling
  <2>17. ASSUME NEW r \in Replicas, NEW h \in Handlers, NEW d \in Defs, NEW e \in Editors \cup {Nobody}, Put(r, h, e, d)
         PROVE  TellingInv'
    <3>1. PICK t : t = [kind |-> "put", pc |-> "roles", def |-> d, on |-> Nobody, by |-> e]
      OBVIOUS
    <3>2. task' = [task EXCEPT ![r][h] = t] /\ t.kind = "put" /\ t.pc = "roles"
      BY <2>17, <3>1 DEF Put, Set
    <3>3. task'[r][h] = t
      BY <2>a, <3>2 DEF TasksOK
    <3> QED BY <2>15, <3>2, <3>3 DEF Telling
  <2>18. ASSUME NEW r \in Replicas, NEW h \in Handlers, Close(r, h) PROVE TellingInv'
    <3>1. \A g \in Handlers : ~Telling(r, g)
      BY <2>18 DEF Close, IsIdle, Telling
    <3>2. /\ mail'[r] = 0 /\ up'[r] = "closed" /\ \A s \in Replicas \ {r} : mail'[s] = mail[s] /\ up'[s] = up[s]
          /\ UNCHANGED <<reg, told, faults>>
      BY <2>18 DEF Close, RegistryInv, RegistryTypeOK
    <3>3. \A s \in Replicas \ {r} : task'[s] = task[s]
      BY <2>18, <2>a DEF Close, AwaitStop, Set, TasksOK
    <3>4. \A s \in Replicas \ {r} : Hears(s) => Hears(s)'
      BY <3>2, <3>3 DEF Hears, At
    <3>5. \A s \in Replicas, g \in Handlers : Telling(s, g) => Telling(s, g)'
      BY <3>1, <3>3 DEF Telling
    <3> QED BY <3>2, <3>4, <3>5 DEF TellingInv, Awake
  <2>19. ASSUME NEW r \in Replicas, NEW h \in Handlers, RolesFail(r, h) \/ FollowFails(r, h) PROVE TellingInv'
    BY <2>2, <2>19 DEF RolesFail, FollowFails, Fault
  <2>20. ASSUME NEW e \in Editors, ReadRow(e) PROVE TellingInv'
    BY <2>1, <2>20 DEF ReadRow
  <2>21. CASE UNCHANGED registryVars
    BY <2>1, <2>21 DEF registryVars
  <2> QED BY <2>3, <2>4, <2>5, <2>6, <2>7, <2>8, <2>9, <2>10, <2>11, <2>12, <2>13, <2>14, <2>16,
             <2>17, <2>18, <2>19, <2>20, <2>21 DEF RegistryNext, HandlerStep, Booting
<1>3. TellingInv => EveryReplicaTold
  <2> SUFFICES ASSUME TellingInv, Quiet, faults = 0, reg.source = "api", NEW r \in Replicas, up[r] = "up" PROVE r \in told
    BY DEF EveryReplicaTold
  <2> QED BY DEF TellingInv, Quiet, IsIdle, Telling, Hears, At, Awake
<1> QED BY <1>1, <1>2, <1>3, RegistryInvHolds, PTL DEF RegistrySpec

-----------------------------------------------------------------------------
(* One handler at a time.  While it awaits a stop, every run is on its way  *)
(* out, so the one it begins afterwards is alone.                           *)
CleanInv == \A r \in Replicas : Clean(r) /\ \A h \in Handlers : StopFirst(r, h)

LEMMA CleanStepped ==
  ASSUME \A g, k \in Handlers : g = k, RegistryInv, CleanInv, NEW r \in Replicas, NEW h \in Handlers,
         Stepped(r, h), Clean(r)', StopFirst(r, h)'
  PROVE  CleanInv'
<1>1. PICK t \in Task : t.pc # "roles" /\ task' = [task EXCEPT ![r][h] = t]
  BY DEF Stepped
<1>2. \A s \in Replicas \ {r} : task'[s] = task[s] /\ run'[s] = run[s] /\ mapped'[s] = mapped[s]
  BY <1>1 DEF Stepped, RegistryInv, RegistryTypeOK
<1>3. \A s \in Replicas \ {r} : Clean(s)' /\ \A g \in Handlers : StopFirst(s, g)'
  BY <1>2 DEF CleanInv, Clean, StopFirst, Emptied
<1> QED BY <1>3 DEF CleanInv

\* The steps that move no run.
LEMMA CleanStill ==
  ASSUME CleanInv, UNCHANGED <<run, mapped>>,
         \A r \in Replicas, h \in Handlers : task'[r][h].pc \in {"stopping", "stopped"} => task[r][h].pc \in {"stopping", "stopped"}
  PROVE  CleanInv'
  BY DEF CleanInv, Clean, StopFirst, Emptied

\* No run is left behind where a replica handles one request or event at a
\* time.  (With two, both may await the stop of one run and then each begin another.)
THEOREM OneHandlerNoOrphan ==
  ASSUME \A g, k \in Handlers : g = k
  PROVE  RegistrySpec => []NoOrphan
<1>1. RegistryInit => CleanInv
  BY DEF RegistryInit, CleanInv, Clean, StopFirst, Emptied
<1>2. RegistryInv /\ CleanInv /\ [RegistryNext]_registryVars => CleanInv'
  <2> SUFFICES ASSUME RegistryInv, CleanInv, [RegistryNext]_registryVars PROVE CleanInv'
    OBVIOUS
  <2>a. RunsOK /\ TasksOK
    BY DEF RegistryInv, RegistryTypeOK, RunsOK, TasksOK
  <2>b. Idle \in Task /\ Idle.pc = "idle" /\ [Idle EXCEPT !.pc = "reading"] \in Task /\ [Idle EXCEPT !.pc = "reading"].pc = "reading"
        /\ [Idle EXCEPT !.kind = "delete"] \in Task /\ [Idle EXCEPT !.kind = "close"] \in Task
    BY RunShape DEF Idle, Task, Pcs, Kinds
  <2>c. \A r \in Replicas : Clean(r)
    BY DEF CleanInv
  <2>1. CASE UNCHANGED <<run, mapped, task>>
    BY <2>1, CleanStill
  <2>2. ASSUME NEW r \in Replicas, BootApply(r) PROVE CleanInv'
    BY <2>1, <2>2 DEF BootApply
  <2>3. ASSUME NEW r \in Replicas, BootList(r) PROVE CleanInv'
    <3>1. \A i \in RunIds : run[r][i] = NoRun
      BY <2>3 DEF BootList, RegistryInv, StillDown, NotStarted
    <3>2. run' = run /\ task' = task /\ \A s \in Replicas \ {r} : mapped'[s] = mapped[s]
      BY <2>3, <2>a DEF BootList, RunsOK
    <3> QED BY <3>1, <3>2 DEF CleanInv, Clean, StopFirst, Emptied
  <2>4. ASSUME NEW r \in Replicas, BootStart(r) PROVE CleanInv'
    <3>1. (\A i \in RunIds : run[r][i] = NoRun) /\ \A h \in Handlers : task[r][h].pc = "idle"
      BY <2>4 DEF BootStart, RegistryInv, StillDown, NotStarted, IsIdle
    <3>2. CASE mapped[r].def = NoDef
      BY <2>1, <2>4, <3>2 DEF BootStart
    <3>3. CASE mapped[r].def # NoDef
      <4>1. mapped[r].def \in Defs /\ Begin(r, mapped[r].def)
        BY <2>4, <3>3, <2>a DEF BootStart, RunsOK, Mapping, Unmapped
      <4>2. PICK i \in RunIds \ Live(r) :
              /\ run' = [run EXCEPT ![r][i] = [def |-> mapped[r].def, stopping |-> FALSE]]
              /\ mapped' = [mapped EXCEPT ![r] = [id |-> i, def |-> mapped[r].def]]
        BY <2>a, <4>1, BeginType
      <4>3. /\ mapped'[r].id = i /\ \A j \in RunIds \ {i} : run'[r][j] = NoRun
            /\ \A s \in Replicas \ {r} : run'[s] = run[s] /\ mapped'[s] = mapped[s]
        BY <2>a, <3>1, <4>2 DEF RunsOK
      <4>4. task' = task
        BY <2>4 DEF BootStart
      <4> QED BY <3>1, <4>3, <4>4 DEF CleanInv, Clean, StopFirst, Emptied
    <3> QED BY <3>2, <3>3
  <2>5. ASSUME NEW r \in Replicas, Crash(r) PROVE CleanInv'
    <3>1. /\ \A i \in RunIds : run'[r][i] = NoRun
          /\ \A h \in Handlers : task'[r][h].pc = "idle"
          /\ \A s \in Replicas \ {r} : mapped'[s] = mapped[s] /\ run'[s] = run[s] /\ task'[s] = task[s]
      BY <2>5 DEF Crash, RegistryInv, RegistryTypeOK, Idle
    <3> QED BY <3>1 DEF CleanInv, Clean, StopFirst, Emptied
  <2>6. ASSUME NEW r \in Replicas, NEW i \in RunIds, StopReturns(r, i) PROVE CleanInv'
    <3>1. \A s \in Replicas, j \in RunIds : run'[s][j] = run[s][j] \/ run'[s][j] = NoRun
      BY <2>6, <2>a DEF StopReturns, RunsOK
    <3>2. \A s \in Replicas, h \in Handlers :
            task'[s][h].pc \in {"stopping", "stopped"} => task[s][h].pc \in {"stopping", "stopped"}
      <4>1. task' = [task EXCEPT ![r] = [h \in Handlers |->
               IF task[r][h].pc = "stopping" /\ task[r][h].on = i
               THEN [task[r][h] EXCEPT !.pc = "stopped", !.on = Nobody] ELSE task[r][h]]]
        BY <2>6 DEF StopReturns
      <4> QED BY <4>1, <2>a DEF TasksOK
    <3>3. mapped' = mapped
      BY <2>6 DEF StopReturns
    <3> QED BY <3>1, <3>2, <3>3 DEF CleanInv, Clean, StopFirst, Emptied
  <2>7. ASSUME NEW r \in Replicas, NEW h \in Handlers, RolesApplied(r, h) PROVE CleanInv'
    <3>1. task[r][h].def \in Defs /\ MapOK(r)
      BY <2>7, BusyIsUp DEF RolesApplied, RegistryInv, At, IsIdle
    <3> QED BY <2>7, <3>1, <2>a, <2>c, DeclareStep, CleanStepped DEF RolesApplied
  <2>8. ASSUME NEW r \in Replicas, NEW h \in Handlers, Resume(r, h) PROVE CleanInv'
    <3>1. MapOK(r) /\ task[r][h] \in Task
      BY <2>8, <2>a, BusyIsUp DEF Resume, At, IsIdle, TasksOK
    <3>2. task[r][h].def \in Defs \cup {NoDef}
      BY <3>1 DEF Task
    <3>3. Emptied(r)
      BY <2>8 DEF Resume, At, CleanInv, StopFirst
    <3>4. CASE task[r][h].def # NoDef
      BY <2>8, <3>2, <3>3, <3>4, <2>a, BeginStep, CleanStepped DEF Resume
    <3>5. CASE task[r][h].def = NoDef
      <4>1. Surfaced(r, h) /\ UNCHANGED <<run, mapped>>
        BY <2>8, <3>5 DEF Resume
      <4>2. PICK t \in Task : t.pc \in {"publish", "idle"} /\ task' = [task EXCEPT ![r][h] = t]
        BY <4>1, <2>a, SurfacedStep
      <4> QED BY <4>1, <4>2, <2>a, <2>c, <3>1, StillStep, CleanStepped DEF Set
    <3> QED BY <3>4, <3>5
  <2>9. ASSUME NEW r \in Replicas, NEW h \in Handlers, Publish(r, h) PROVE CleanInv'
    <3>1. MapOK(r)
      BY <2>9, BusyIsUp DEF Publish, At, IsIdle
    <3> QED BY <2>9, <3>1, <2>a, <2>b, <2>c, StillStep, CleanStepped DEF Publish
  <2>10. ASSUME NEW r \in Replicas, NEW h \in Handlers, GetLine(r, h) PROVE CleanInv'
    <3>1. MapOK(r) /\ task[r][h] \in Task /\ reg.def \in Defs \cup {NoDef}
      BY <2>10, <2>a, BusyIsUp DEF GetLine, At, IsIdle, TasksOK, RegistryInv, RegistryTypeOK, Row, NoRow
    <3>2. [task[r][h] EXCEPT !.pc = "decide", !.def = reg.def] \in Task
          /\ [task[r][h] EXCEPT !.pc = "decide", !.def = reg.def].pc = "decide"
      BY <3>1 DEF Task, Pcs
    <3> QED BY <2>10, <3>1, <3>2, <2>a, <2>c, StillStep, CleanStepped DEF GetLine
  <2>11. ASSUME NEW r \in Replicas, NEW h \in Handlers, Follow(r, h) PROVE CleanInv'
    <3>1. MapOK(r) /\ task[r][h] \in Task
      BY <2>11, <2>a, BusyIsUp DEF Follow, At, IsIdle, TasksOK
    <3>2. task[r][h].def \in Defs \cup {NoDef}
      BY <3>1 DEF Task
    <3> QED BY <2>11, <3>1, <3>2, <2>a, <2>c, DeclareStep, RetireStep, CleanStepped DEF Follow
  <2>12. ASSUME NEW r \in Replicas, NEW h \in Handlers, Closed(r, h) PROVE CleanInv'
    <3>1. Emptied(r)
      BY <2>12 DEF Closed, At, CleanInv, StopFirst
    <3>2. \A s \in Replicas, g \in Handlers : task'[s][g] = IF s = r /\ g = h THEN Idle ELSE task[s][g]
      BY <2>12, <2>a DEF Closed, Set, TasksOK
    <3>3. run' = run /\ \A s \in Replicas \ {r} : mapped'[s] = mapped[s]
      BY <2>12, <2>a DEF Closed, RunsOK
    <3> QED BY <2>b, <3>1, <3>2, <3>3 DEF CleanInv, Clean, StopFirst, Emptied
  <2>13. ASSUME NEW r \in Replicas, NEW h \in Handlers, Deliver(r, h) PROVE CleanInv'
    <3>1. MapOK(r)
      BY <2>13 DEF Deliver, RegistryInv
    <3> QED BY <2>13, <3>1, <2>a, <2>b, <2>c, StillStep, CleanStepped DEF Deliver
  <2>14. ASSUME NEW r \in Replicas, NEW h \in Handlers, Delete(r, h) PROVE CleanInv'
    <3>1. MapOK(r)
      BY <2>14 DEF Delete, RegistryInv
    <3> QED BY <2>14, <3>1, <2>a, <2>b, <2>c, RetireStep, CleanStepped DEF Delete
  <2>15. ASSUME NEW r \in Replicas, NEW h \in Handlers, Close(r, h) PROVE CleanInv'
    <3>1. MapOK(r)
      BY <2>15 DEF Close, RegistryInv
    <3>2. CASE mapped[r] = Unmapped
      BY <2>1, <2>15, <3>2 DEF Close
    <3>3. CASE mapped[r] # Unmapped
      BY <2>15, <3>1, <3>3, <2>a, <2>b, <2>c, AwaitStep, CleanStepped DEF Close
    <3> QED BY <3>2, <3>3
  <2>16. ASSUME NEW r \in Replicas, NEW h \in Handlers, RolesFail(r, h) \/ FollowFails(r, h) PROVE CleanInv'
    <3>1. MapOK(r)
      BY <2>16, BusyIsUp DEF RolesFail, FollowFails, At, IsIdle
    <3> QED BY <2>16, <3>1, <2>a, <2>b, <2>c, StillStep, CleanStepped DEF RolesFail, FollowFails
  <2>17. ASSUME NEW r \in Replicas, NEW h \in Handlers, NEW d \in Defs, NEW e \in Editors \cup {Nobody}, Put(r, h, e, d)
         PROVE  CleanInv'
    <3> DEFINE t == [kind |-> "put", pc |-> "roles", def |-> d, on |-> Nobody, by |-> e]
    <3>1. task' = [task EXCEPT ![r][h] = t] /\ t.pc = "roles" /\ UNCHANGED <<run, mapped>>
      BY <2>17 DEF Put, Set
    <3> HIDE DEF t
    <3>2. \A s \in Replicas, g \in Handlers : task'[s][g] = IF s = r /\ g = h THEN t ELSE task[s][g]
      BY <3>1, <2>a DEF TasksOK
    <3> QED BY <3>1, <3>2, CleanStill
  <2>18. ASSUME NEW e \in Editors, ReadRow(e) PROVE CleanInv'
    BY <2>1, <2>18 DEF ReadRow
  <2>19. CASE UNCHANGED registryVars
    BY <2>1, <2>19 DEF registryVars
  <2> QED BY <2>2, <2>3, <2>4, <2>5, <2>6, <2>7, <2>8, <2>9, <2>10, <2>11, <2>12, <2>13, <2>14, <2>15, <2>16,
             <2>17, <2>18, <2>19 DEF RegistryNext, HandlerStep, Booting
<1>3. CleanInv => NoOrphan
  BY DEF CleanInv, Clean, NoOrphan, Live
<1> QED BY <1>1, <1>2, <1>3, RegistryInvHolds, PTL DEF RegistrySpec
-----------------------------------------------------------------------------
(* One handler at a time, a replica that was told of the last write: its    *)
(* map holds the registry's definition or its handler is about to see to    *)
(* that.  The map's run runs unless it stopped under the handler that       *)
(* replaces it, and every stop has a handler that awaits it.                *)
Awaited(r) == \A i \in RunIds : run[r][i] # NoRun /\ run[r][i].stopping =>
  \E h \in Handlers : At(r, h, "stopping") /\ task[r][h].on = i
MapRuns(r) == up[r] \in {"up", "closed"} /\ mapped[r] # Unmapped =>
  /\ \A h \in Handlers : task[r][h].pc \in {"stopping", "stopped"} =>
       task[r][h].def # NoDef \/ task[r][h].kind = "close"
  /\ \/ run[r][mapped[r].id] # NoRun /\ run[r][mapped[r].id].def = mapped[r].def
     \/ \E h \in Handlers : At(r, h, "stopped")
Reads(r) == \A h \in Handlers : task[r][h].pc \in {"reading", "decide"} => task[r][h].kind = "follow"
Current(r) == r \in told /\ up[r] \in Awake =>
  /\ mapped[r].def = reg.def \/ \E h \in Handlers : task[r][h].pc \in {"decide", "stopping", "stopped"}
  /\ \A h \in Handlers :
       /\ task[r][h].pc \notin {"roles", "publish"}
       /\ task[r][h].pc \in {"decide", "stopping", "stopped"} => task[r][h].def = reg.def /\ task[r][h].kind = "follow"
InOrder(r) == Awaited(r) /\ MapRuns(r) /\ Reads(r) /\ Current(r)
OrderInv == \A r \in Replicas : InOrder(r)

\* A step leaves the replicas it does not touch in order, whatever it writes.
LEMMA OthersInOrder ==
  ASSUME OrderInv, NEW r \in Replicas, InOrder(r)',
         \A s \in Replicas \ {r} : task'[s] = task[s] /\ run'[s] = run[s] /\ mapped'[s] = mapped[s] /\ up'[s] = up[s],
         told' = {} \/ (reg' = reg /\ told' \subseteq told \cup {r})
  PROVE  OrderInv'
<1> SUFFICES ASSUME NEW s \in Replicas \ {r} PROVE InOrder(s)'
  BY DEF OrderInv
<1>1. Awaited(s)' /\ MapRuns(s)' /\ Reads(s)'
  BY DEF OrderInv, InOrder, Awaited, MapRuns, Reads, At
<1>2. Current(s)'
  BY DEF OrderInv, InOrder, Current
<1> QED BY <1>1, <1>2 DEF InOrder

\* The table of tasks after one handler moved.
LEMMA TaskIs ==
  ASSUME TasksOK, NEW r \in Replicas, NEW h \in Handlers, NEW u, task' = [task EXCEPT ![r][h] = u]
  PROVE  task'[r][h] = u /\ \A s \in Replicas \ {r} : task'[s] = task[s]
  BY DEF TasksOK

\* The only handler moved and no run did.
LEMMA StillInOrder ==
  ASSUME NEW r \in Replicas, NEW h \in Handlers, \A g \in Handlers : g = h, InOrder(r),
         run'[r] = run[r], mapped'[r] = mapped[r], UNCHANGED up,
         task[r][h].pc \notin {"stopping", "stopped"}, task'[r][h].pc \notin {"stopping", "stopped"},
         task'[r][h].pc \in {"reading", "decide"} => task'[r][h].kind = "follow",
         r \in told' /\ up[r] \in Awake =>
           /\ task'[r][h].pc \notin {"roles", "publish"}
           /\ \/ task'[r][h].pc = "decide" /\ task'[r][h].def = reg'.def
              \/ task'[r][h].pc # "decide" /\ mapped[r].def = reg'.def
  PROVE  InOrder(r)'
<1>1. Awaited(r)' /\ MapRuns(r)' /\ Reads(r)'
  BY DEF InOrder, Awaited, MapRuns, Reads, At
<1>2. Current(r)'
  BY <1>1 DEF Current, Reads
<1> QED BY <1>1, <1>2 DEF InOrder

\* The only handler begins a run; no stop is under way.
LEMMA BeginInOrder ==
  ASSUME RunsOK, TasksOK, NEW r \in Replicas, NEW h \in Handlers, \A g \in Handlers : g = h, InOrder(r),
         task[r][h].pc # "stopping", NEW d \in Defs, Begin(r, d), UNCHANGED <<up, reg, told>>,
         NEW u, task' = [task EXCEPT ![r][h] = u], Ended(r, h, u),
         r \in told /\ up[r] \in Awake => d = reg.def /\ task[r][h].kind = "follow"
  PROVE  InOrder(r)' /\ \A s \in Replicas \ {r} : task'[s] = task[s] /\ run'[s] = run[s] /\ mapped'[s] = mapped[s]
<1>1. PICK i \in RunIds \ Live(r) :
        /\ run' = [run EXCEPT ![r][i] = [def |-> d, stopping |-> FALSE]]
        /\ mapped' = [mapped EXCEPT ![r] = [id |-> i, def |-> d]]
  BY BeginType
<1>2. /\ mapped'[r].id = i /\ mapped'[r].def = d /\ run'[r][i] # NoRun /\ run'[r][i].def = d /\ ~run'[r][i].stopping
      /\ \A j \in RunIds \ {i} : run'[r][j] = run[r][j]
      /\ \A s \in Replicas \ {r} : run'[s] = run[s] /\ mapped'[s] = mapped[s]
  BY <1>1, RegistryAssumption DEF RunsOK, NoRun
<1>3. task'[r][h] = u /\ \A s \in Replicas \ {r} : task'[s] = task[s]
  BY TaskIs
<1>4. u.pc \in {"publish", "idle"} /\ (task[r][h].kind = "follow" => u.pc = "idle")
  BY DEF Ended, Idle
<1>5. Awaited(r)'
  BY <1>2 DEF InOrder, Awaited, At
<1>6. MapRuns(r)' /\ Reads(r)'
  BY <1>2, <1>3, <1>4 DEF MapRuns, Reads
<1>7. Current(r)'
  BY <1>2, <1>3, <1>4 DEF Current
<1> QED BY <1>2, <1>3, <1>5, <1>6, <1>7 DEF InOrder

\* The only handler stops the run in the map, which it replaces or drops.
LEMMA StopsInOrder ==
  ASSUME RunsOK, TasksOK, NEW r \in Replicas, NEW h \in Handlers, \A g \in Handlers : g = h, InOrder(r),
         task[r][h].pc \notin {"stopping", "stopped"}, MapOK(r), mapped[r] # Unmapped,
         NEW u, task' = [task EXCEPT ![r][h] = u], Stops(r, u),
         \/ mapped' = mapped /\ (u.def # NoDef \/ u.kind = "close")
         \/ mapped' = [mapped EXCEPT ![r] = Unmapped],
         up'[r] \in {"up", "closed"} => up[r] \in {"up", "closed"},
         r \in told' /\ up'[r] \in Awake => u.def = reg'.def /\ u.kind = "follow"
  PROVE  InOrder(r)' /\ \A s \in Replicas \ {r} : task'[s] = task[s] /\ run'[s] = run[s] /\ mapped'[s] = mapped[s]
<1>1. PICK i \in RunIds : i = mapped[r].id
  BY DEF MapOK
<1>a. task'[r][h] = u /\ \A s \in Replicas \ {r} : task'[s] = task[s]
  BY TaskIs
<1>b. u.pc \in {"stopping", "stopped"}
  BY DEF Stops
<1>2. task'[r][h] = u /\ u.pc \in {"stopping", "stopped"} /\ \A s \in Replicas \ {r} : task'[s] = task[s]
  BY <1>a, <1>b
<1>3. /\ \A j \in RunIds \ {i} : run'[r][j] = run[r][j]
      /\ \A s \in Replicas \ {r}, j \in RunIds : run'[s][j] = run[s][j]
      /\ run' \in [Replicas -> [RunIds -> Run \cup {NoRun}]]
  BY <1>1 DEF Stops, RunsOK
<1>4. \A s \in Replicas \ {r} : run'[s] = run[s] /\ mapped'[s] = mapped[s]
  BY <1>3 DEF RunsOK
<1>5. Awaited(r)'
  BY <1>1, <1>2, <1>3 DEF InOrder, Awaited, At, Stops
<1>6. MapRuns(r)'
  <2> SUFFICES ASSUME up'[r] \in {"up", "closed"}, mapped'[r] # Unmapped PROVE MapRuns(r)'
    BY DEF MapRuns
  <2>1. mapped' = mapped /\ (u.def # NoDef \/ u.kind = "close")
    BY DEF RunsOK
  <2>2. CASE u.pc = "stopped"
    BY <1>2, <2>1, <2>2 DEF MapRuns, At
  <2>3. CASE u.pc = "stopping"
    <3>1. run[r][i] # NoRun /\ run'[r][i] # NoRun /\ run'[r][i].def = run[r][i].def
      BY <1>1, <2>3 DEF Stops
    <3>2. run[r][i].def = mapped[r].def
      BY <1>1, <2>1 DEF InOrder, MapRuns, At
    <3> QED BY <1>1, <1>2, <2>1, <3>1, <3>2 DEF MapRuns
  <2> QED BY <1>2, <2>2, <2>3
<1>7. Reads(r)' /\ Current(r)'
  BY <1>2 DEF Reads, Current
<1> QED BY <1>2, <1>4, <1>5, <1>6, <1>7 DEF InOrder

\* MachineSurface.declare and retire, for what the only handler decided.
LEMMA DeclareInOrder ==
  ASSUME RunsOK, TasksOK, NEW r \in Replicas, NEW h \in Handlers, \A g \in Handlers : g = h, InOrder(r), MapOK(r),
         task[r][h].pc \in {"roles", "decide"}, task[r][h].def \in Defs, Declare(r, h, task[r][h].def),
         UNCHANGED <<up, reg, told>>
  PROVE  InOrder(r)' /\ \A s \in Replicas \ {r} : task'[s] = task[s] /\ run'[s] = run[s] /\ mapped'[s] = mapped[s]
<1>1. PICK d \in Defs : d = task[r][h].def
  OBVIOUS
<1>2. PICK u \in Task :
        /\ task' = [task EXCEPT ![r][h] = u]
        /\ \/ Ended(r, h, u) /\ mapped[r].def = d /\ UNCHANGED <<run, mapped>>
           \/ /\ mapped[r] # Unmapped /\ u.kind = task[r][h].kind /\ u.def = task[r][h].def
              /\ Stops(r, u) /\ mapped' = mapped
           \/ Ended(r, h, u) /\ mapped[r] = Unmapped /\ Begin(r, d)
  BY <1>1, DeclareIs
<1>3. r \in told /\ up[r] \in Awake => d = reg.def /\ task[r][h].kind = "follow"
  BY <1>1 DEF InOrder, Current
<1>4. d # NoDef
  BY RegistryAssumption
<1>5. CASE Ended(r, h, u) /\ mapped[r].def = d /\ UNCHANGED <<run, mapped>>
  <2>1. task'[r][h] = u /\ \A s \in Replicas \ {r} : task'[s] = task[s]
    BY <1>2, TaskIs
  <2>2. u.pc \in {"publish", "idle"} /\ (task[r][h].kind = "follow" => u.pc = "idle")
    BY <1>5 DEF Ended, Idle
  <2>3. InOrder(r)'
    BY <1>3, <1>5, <2>1, <2>2, StillInOrder
  <2> QED BY <1>5, <2>1, <2>3
<1>6. CASE /\ mapped[r] # Unmapped /\ u.kind = task[r][h].kind /\ u.def = task[r][h].def
           /\ Stops(r, u) /\ mapped' = mapped
  BY <1>1, <1>2, <1>3, <1>4, <1>6, StopsInOrder
<1>7. CASE Ended(r, h, u) /\ mapped[r] = Unmapped /\ Begin(r, d)
  BY <1>2, <1>3, <1>7, BeginInOrder
<1> QED BY <1>2, <1>5, <1>6, <1>7

LEMMA RetireInOrder ==
  ASSUME RunsOK, TasksOK, NEW r \in Replicas, NEW h \in Handlers, \A g \in Handlers : g = h, InOrder(r), MapOK(r),
         task[r][h].pc \in {"idle", "decide"}, NEW t \in Task, t.def = NoDef, Retire(r, h, t), up' = up,
         r \in told' /\ up[r] \in Awake => reg'.def = NoDef /\ t.kind = "follow"
  PROVE  InOrder(r)' /\ \A s \in Replicas \ {r} : task'[s] = task[s] /\ run'[s] = run[s] /\ mapped'[s] = mapped[s]
<1>1. PICK u \in Task :
        /\ task' = [task EXCEPT ![r][h] = u]
        /\ \/ /\ mapped[r] = Unmapped /\ UNCHANGED <<run, mapped>>
              /\ IF t.kind = "delete" THEN u.kind = "delete" /\ u.pc = "publish" ELSE u = Idle
           \/ /\ mapped[r] # Unmapped /\ u.kind = t.kind /\ u.def = t.def
              /\ Stops(r, u) /\ mapped' = [mapped EXCEPT ![r] = Unmapped]
  BY RetireIs
<1>2. CASE /\ mapped[r] = Unmapped /\ UNCHANGED <<run, mapped>>
           /\ IF t.kind = "delete" THEN u.kind = "delete" /\ u.pc = "publish" ELSE u = Idle
  <2>1. task'[r][h] = u /\ \A s \in Replicas \ {r} : task'[s] = task[s]
    BY <1>1, TaskIs
  <2>2. u.pc \in {"publish", "idle"} /\ (t.kind = "follow" => u.pc = "idle")
    BY <1>2 DEF Idle
  <2>3. mapped[r].def = NoDef
    BY <1>2 DEF Unmapped
  <2>4. InOrder(r)'
    BY <1>2, <2>1, <2>2, <2>3, StillInOrder
  <2> QED BY <1>2, <2>1, <2>4
<1>3. CASE /\ mapped[r] # Unmapped /\ u.kind = t.kind /\ u.def = t.def
           /\ Stops(r, u) /\ mapped' = [mapped EXCEPT ![r] = Unmapped]
  BY <1>1, <1>3, StopsInOrder
<1> QED BY <1>1, <1>2, <1>3

\* With nothing in flight, a told replica runs what the registry holds.
LEMMA QuietInStep ==
  ASSUME RegistryInv, OrderInv, NoOrphan, Quiet, NEW r \in Replicas, up[r] = "up", r \in told
  PROVE  InStep(r)
<1>1. \A h \in Handlers : task[r][h].pc = "idle"
  BY DEF Quiet, IsIdle
<1>2. mapped[r].def = reg.def
  BY <1>1 DEF OrderInv, InOrder, Current, Awake
<1>3. \A i \in Live(r) : mapped[r].id = i
  BY <1>1 DEF NoOrphan, OrderInv, InOrder, Awaited, At, Live
<1>4. CASE mapped[r] = Unmapped
  <2>1. Live(r) = {}
    BY <1>3, <1>4, RegistryAssumption DEF Live, Unmapped
  <2>2. Cardinality(Live(r)) = 0
    BY <2>1, FS_EmptySet
  <2>3. Running(r) = {} /\ reg.def = NoDef
    BY <1>2, <1>4, <2>1 DEF Running, Unmapped
  <2> QED BY <2>2, <2>3 DEF InStep
<1>5. CASE mapped[r] # Unmapped
  <2>1. PICK i \in RunIds : i = mapped[r].id
    BY <1>5 DEF RegistryInv, MapOK
  <2>2. run[r][i] # NoRun /\ run[r][i].def = reg.def
    BY <1>1, <1>2, <1>5, <2>1 DEF OrderInv, InOrder, MapRuns, At
  <2>3. Live(r) = {i}
    BY <1>3, <2>1, <2>2 DEF Live
  <2>4. Cardinality(Live(r)) = 1
    BY <2>3, FS_Singleton
  <2>5. reg.def # NoDef
    BY <2>2, RegistryAssumption DEF RegistryInv, RegistryTypeOK, Run
  <2>6. Running(r) = {reg.def}
    BY <2>2, <2>3 DEF Running
  <2> QED BY <2>4, <2>5, <2>6 DEF InStep
<1> QED BY <1>4, <1>5

\* Where a replica handles one request or event at a time, nothing in flight means that
\* each replica that was told runs the definition of the registry, once, whatever the
\* requests, events, boots and crashes of any number of replicas did before.
THEOREM OneHandlerInStep ==
  ASSUME \A g, k \in Handlers : g = k
  PROVE  RegistrySpec => []SurfaceInStep
<1>1. RegistryInit => OrderInv
  BY DEF RegistryInit, OrderInv, InOrder, Awaited, MapRuns, Reads, Current, Idle, At
<1>2. RegistryInv /\ OrderInv /\ [RegistryNext]_registryVars => OrderInv'
  <2> SUFFICES ASSUME RegistryInv, OrderInv, [RegistryNext]_registryVars PROVE OrderInv'
    OBVIOUS
  <2>a. RunsOK /\ TasksOK
    BY DEF RegistryInv, RegistryTypeOK, RunsOK, TasksOK
  <2>b. \A h \in Handlers : \A g \in Handlers : g = h
    OBVIOUS
  <2>c. \A r \in Replicas : InOrder(r)
    BY DEF OrderInv
  <2>d. \A r \in Replicas, h \in Handlers : task[r][h] \in Task /\ task[r][h].def \in Defs \cup {NoDef}
    BY <2>a DEF TasksOK, Task
  <2>1. CASE UNCHANGED <<reg, up, mapped, run, task, told>>
    BY <2>1 DEF OrderInv, InOrder, Awaited, MapRuns, Reads, Current, At
  <2>2. ASSUME NEW r \in Replicas, BootApply(r) PROVE OrderInv'
    <3>1. UNCHANGED <<mapped, run, task>> /\ up' = [up EXCEPT ![r] = "listing"]
          /\ (told' = {} \/ (told' = told /\ reg' = reg))
      BY <2>2 DEF BootApply, Write
    <3>2. up'[r] = "listing" /\ \A s \in Replicas \ {r} : up'[s] = up[s]
      BY <3>1 DEF RegistryInv, RegistryTypeOK
    <3>3. InOrder(r)'
      BY <2>c, <3>1, <3>2 DEF InOrder, Awaited, MapRuns, Reads, Current, At, Awake
    <3> QED BY <3>1, <3>2, <3>3, OthersInOrder
  <2>3. ASSUME NEW r \in Replicas, BootList(r) PROVE OrderInv'
    <3>1. UNCHANGED <<run, task, reg>> /\ told' = told \cup {r}
      BY <2>3 DEF BootList
    <3>2. /\ up'[r] = "listed" /\ mapped'[r].def = reg.def
          /\ \A s \in Replicas \ {r} : up'[s] = up[s] /\ mapped'[s] = mapped[s]
      BY <2>3 DEF BootList, RegistryInv, RegistryTypeOK
    <3>3. (\A i \in RunIds : run[r][i] = NoRun) /\ \A h \in Handlers : task[r][h].pc = "idle"
      BY <2>3 DEF BootList, RegistryInv, StillDown, NotStarted, IsIdle
    <3>4. InOrder(r)'
      BY <3>1, <3>2, <3>3 DEF InOrder, Awaited, MapRuns, Reads, Current, At
    <3> QED BY <3>1, <3>2, <3>4, OthersInOrder
  <2>4. ASSUME NEW r \in Replicas, BootStart(r) PROVE OrderInv'
    <3>1. UNCHANGED <<task, reg, told>> /\ up'[r] = "up" /\ \A s \in Replicas \ {r} : up'[s] = up[s]
      BY <2>4 DEF BootStart, RegistryInv, RegistryTypeOK
    <3>2. (\A i \in RunIds : run[r][i] = NoRun) /\ \A h \in Handlers : task[r][h].pc = "idle"
      BY <2>4 DEF BootStart, RegistryInv, StillDown, NotStarted, IsIdle
    <3>3. r \in told => mapped[r].def = reg.def
      BY <2>4, <2>c, <3>2 DEF BootStart, InOrder, Current, Awake
    <3>4. CASE mapped[r].def = NoDef
      <4>1. UNCHANGED <<run, mapped>> /\ mapped[r] = Unmapped
        BY <2>4, <3>4, <2>a, RegistryAssumption DEF BootStart, RunsOK, Mapping
      <4>2. InOrder(r)'
        BY <3>1, <3>2, <3>3, <4>1 DEF InOrder, Awaited, MapRuns, Reads, Current, At
      <4> QED BY <3>1, <4>1, <4>2, OthersInOrder
    <3>5. CASE mapped[r].def # NoDef
      <4>1. PICK d \in Defs : d = mapped[r].def
        BY <3>5, <2>a DEF RunsOK, Mapping, Unmapped
      <4>2. Begin(r, d)
        BY <2>4, <3>5, <4>1 DEF BootStart
      <4>3. PICK i \in RunIds \ Live(r) :
              /\ run' = [run EXCEPT ![r][i] = [def |-> d, stopping |-> FALSE]]
              /\ mapped' = [mapped EXCEPT ![r] = [id |-> i, def |-> d]]
        BY <2>a, <4>2, BeginType
      <4>4. /\ mapped'[r].id = i /\ mapped'[r].def = d /\ run'[r][i] # NoRun /\ run'[r][i].def = d /\ ~run'[r][i].stopping
            /\ \A j \in RunIds \ {i} : run'[r][j] = run[r][j]
            /\ \A s \in Replicas \ {r} : run'[s] = run[s] /\ mapped'[s] = mapped[s]
        BY <2>a, <4>3, RegistryAssumption DEF RunsOK, NoRun
      <4>5. InOrder(r)'
        BY <3>1, <3>2, <3>3, <4>1, <4>4 DEF InOrder, Awaited, MapRuns, Reads, Current, At
      <4> QED BY <3>1, <4>4, <4>5, OthersInOrder
    <3> QED BY <3>4, <3>5
  <2>5. ASSUME NEW r \in Replicas, Crash(r) PROVE OrderInv'
    <3>1. /\ \A i \in RunIds : run'[r][i] = NoRun
          /\ \A h \in Handlers : task'[r][h].pc = "idle"
          /\ up'[r] = "down" /\ UNCHANGED <<told, reg>>
          /\ \A s \in Replicas \ {r} : mapped'[s] = mapped[s] /\ run'[s] = run[s] /\ task'[s] = task[s] /\ up'[s] = up[s]
      BY <2>5 DEF Crash, RegistryInv, RegistryTypeOK, Idle
    <3>2. InOrder(r)'
      BY <3>1 DEF InOrder, Awaited, MapRuns, Reads, Current, At, Awake
    <3> QED BY <3>1, <3>2, OthersInOrder
  <2>6. ASSUME NEW r \in Replicas, NEW i \in RunIds, StopReturns(r, i) PROVE OrderInv'
    <3>1. /\ \A s \in Replicas \ {r} : task'[s] = task[s]
          /\ \A h \in Handlers :
               IF At(r, h, "stopping") /\ task[r][h].on = i
               THEN At(r, h, "stopped")' /\ task'[r][h].kind = task[r][h].kind /\ task'[r][h].def = task[r][h].def
               ELSE task'[r][h] = task[r][h]
      BY <2>6, <2>a, ReturnIs
    <3>2. /\ run'[r][i] = NoRun /\ run[r][i].stopping /\ \A j \in RunIds \ {i} : run'[r][j] = run[r][j]
          /\ \A s \in Replicas \ {r} : run'[s] = run[s]
          /\ UNCHANGED <<mapped, up, reg, told>>
      BY <2>6, <2>a DEF StopReturns, RunsOK
    <3>3. run[r][i] # NoRun
      BY <3>2 DEF NoRun
    <3>4. PICK h \in Handlers : At(r, h, "stopping") /\ task[r][h].on = i
      BY <2>c, <3>2, <3>3 DEF InOrder, Awaited
    <3>5. At(r, h, "stopped")' /\ task'[r][h].kind = task[r][h].kind /\ task'[r][h].def = task[r][h].def /\ \A g \in Handlers : g = h
      BY <3>1, <3>4
    <3>6. Awaited(r)'
      BY <2>c, <3>2, <3>4, <3>5 DEF InOrder, Awaited
    <3>7. MapRuns(r)'
      BY <2>c, <3>2, <3>4, <3>5 DEF InOrder, MapRuns, At
    <3>8. Reads(r)' /\ Current(r)'
      BY <2>c, <3>2, <3>4, <3>5 DEF InOrder, Reads, Current, At
    <3> QED BY <3>1, <3>2, <3>6, <3>7, <3>8, OthersInOrder DEF InOrder
  <2>7. ASSUME NEW r \in Replicas, NEW h \in Handlers, RolesApplied(r, h) PROVE OrderInv'
    <3>1. task[r][h].def \in Defs /\ MapOK(r) /\ task[r][h].pc = "roles"
      BY <2>7, BusyIsUp DEF RolesApplied, RegistryInv, At, IsIdle
    <3>2. Declare(r, h, task[r][h].def) /\ UNCHANGED <<up, reg, told>>
      BY <2>7 DEF RolesApplied
    <3>3. InOrder(r)' /\ \A s \in Replicas \ {r} : task'[s] = task[s] /\ run'[s] = run[s] /\ mapped'[s] = mapped[s]
      BY <2>a, <2>b, <2>c, <3>1, <3>2, DeclareInOrder
    <3> QED BY <3>2, <3>3, OthersInOrder
  <2>8. ASSUME NEW r \in Replicas, NEW h \in Handlers, Resume(r, h) PROVE OrderInv'
    <3>1. task[r][h].pc = "stopped" /\ task[r][h].kind # "close" /\ Surfaced(r, h) /\ UNCHANGED <<up, reg, told>>
      BY <2>8 DEF Resume, At
    <3>2. PICK u \in Task : Ended(r, h, u) /\ task' = [task EXCEPT ![r][h] = u]
      BY <2>a, <3>1, SurfacedIs
    <3>3. r \in told /\ up[r] \in Awake => task[r][h].def = reg.def /\ task[r][h].kind = "follow"
      BY <2>c, <3>1 DEF InOrder, Current
    <3>4. CASE task[r][h].def # NoDef
      <4>1. PICK d \in Defs : d = task[r][h].def
        BY <2>d, <3>4
      <4>2. Begin(r, d)
        BY <2>8, <3>4, <4>1 DEF Resume
      <4>3. InOrder(r)' /\ \A s \in Replicas \ {r} : task'[s] = task[s] /\ run'[s] = run[s] /\ mapped'[s] = mapped[s]
        BY <2>a, <2>b, <2>c, <3>1, <3>2, <3>3, <4>1, <4>2, BeginInOrder
      <4> QED BY <3>1, <4>3, OthersInOrder
    <3>5. CASE task[r][h].def = NoDef
      <4>1. UNCHANGED <<run, mapped>>
        BY <2>8, <3>5 DEF Resume
      <4>2. task'[r][h] = u /\ \A s \in Replicas \ {r} : task'[s] = task[s]
        BY <2>a, <3>2, TaskIs
      <4>3. u.pc \in {"publish", "idle"} /\ (task[r][h].kind = "follow" => u.pc = "idle")
        BY <3>2 DEF Ended, Idle
      <4>4. up[r] \in {"up", "closed"} => mapped[r] = Unmapped
        BY <2>c, <3>1, <3>5 DEF InOrder, MapRuns
      <4>5. ~IsIdle(r, h)
        BY <3>1 DEF IsIdle
      <4>6. up[r] \in {"up", "closed"}
        BY <4>5, BusyIsUp DEF NotStarted, RegistryInv, RegistryTypeOK
      <4>7. mapped[r] = Unmapped /\ mapped[r].def = NoDef
        BY <4>4, <4>6 DEF Unmapped
      <4>8. Awaited(r)'
        BY <2>b, <2>c, <3>1, <4>1 DEF InOrder, Awaited, At
      <4>9. MapRuns(r)' /\ Reads(r)'
        BY <2>b, <4>1, <4>2, <4>3, <4>7 DEF MapRuns, Reads
      <4>10. Current(r)'
        BY <2>b, <3>1, <3>3, <3>5, <4>1, <4>2, <4>3, <4>7 DEF Current
      <4> QED BY <3>1, <4>1, <4>2, <4>8, <4>9, <4>10, OthersInOrder DEF InOrder
    <3> QED BY <3>4, <3>5
  <2>9. ASSUME NEW r \in Replicas, NEW h \in Handlers, Publish(r, h) PROVE OrderInv'
    <3>1. PICK u : u = [Idle EXCEPT !.pc = "reading"]
      OBVIOUS
    <3>2. u.pc = "reading" /\ u.kind = "follow" /\ task[r][h].pc = "publish"
      BY <2>9, <3>1 DEF Publish, At, Idle
    <3>3. task' = [task EXCEPT ![r][h] = u] /\ UNCHANGED <<up, reg, told, run, mapped>>
      BY <2>9, <3>1 DEF Publish, Set
    <3>4. task'[r][h] = u /\ \A s \in Replicas \ {r} : task'[s] = task[s]
      BY <2>a, <3>3, TaskIs
    <3>5. ~(r \in told /\ up[r] \in Awake)
      BY <2>c, <3>2 DEF InOrder, Current
    <3>6. InOrder(r)'
      BY <2>b, <2>c, <3>2, <3>3, <3>4, <3>5, StillInOrder
    <3> QED BY <3>3, <3>4, <3>6, OthersInOrder
  <2>10. ASSUME NEW r \in Replicas, NEW h \in Handlers, GetLine(r, h) PROVE OrderInv'
    <3>1. PICK u : u = [task[r][h] EXCEPT !.pc = "decide", !.def = reg.def]
      OBVIOUS
    <3>2. u.pc = "decide" /\ u.def = reg.def /\ u.kind = task[r][h].kind /\ task[r][h].pc = "reading"
      BY <2>10, <2>d, <3>1 DEF GetLine, At, Task
    <3>3. task' = [task EXCEPT ![r][h] = u] /\ UNCHANGED <<up, reg, run, mapped>> /\ told' = told \cup {r}
      BY <2>10, <3>1 DEF GetLine, Set
    <3>4. task'[r][h] = u /\ \A s \in Replicas \ {r} : task'[s] = task[s]
      BY <2>a, <3>3, TaskIs
    <3>5. u.kind = "follow"
      BY <2>c, <3>2 DEF InOrder, Reads
    <3>6. InOrder(r)'
      BY <2>b, <2>c, <3>2, <3>3, <3>4, <3>5, StillInOrder
    <3> QED BY <3>3, <3>4, <3>6, OthersInOrder
  <2>11. ASSUME NEW r \in Replicas, NEW h \in Handlers, Follow(r, h) PROVE OrderInv'
    <3>1. task[r][h].pc = "decide" /\ MapOK(r) /\ UNCHANGED <<up, reg, told>>
      BY <2>11, BusyIsUp DEF Follow, At, IsIdle
    <3>2. r \in told /\ up[r] \in Awake => task[r][h].def = reg.def /\ task[r][h].kind = "follow"
      BY <2>c, <3>1 DEF InOrder, Current
    <3>3. CASE task[r][h].def = NoDef
      <4>1. Retire(r, h, task[r][h])
        BY <2>11, <3>3 DEF Follow
      <4>2. InOrder(r)' /\ \A s \in Replicas \ {r} : task'[s] = task[s] /\ run'[s] = run[s] /\ mapped'[s] = mapped[s]
        BY <2>a, <2>b, <2>c, <2>d, <3>1, <3>2, <3>3, <4>1, RetireInOrder
      <4> QED BY <3>1, <4>2, OthersInOrder
    <3>4. CASE task[r][h].def # NoDef
      <4>1. Declare(r, h, task[r][h].def) /\ task[r][h].def \in Defs
        BY <2>11, <2>d, <3>4 DEF Follow
      <4>2. InOrder(r)' /\ \A s \in Replicas \ {r} : task'[s] = task[s] /\ run'[s] = run[s] /\ mapped'[s] = mapped[s]
        BY <2>a, <2>b, <2>c, <3>1, <4>1, DeclareInOrder
      <4> QED BY <3>1, <4>2, OthersInOrder
    <3> QED BY <3>3, <3>4
  <2>12. ASSUME NEW r \in Replicas, NEW h \in Handlers, Closed(r, h) PROVE OrderInv'
    <3>1. task[r][h].pc = "stopped" /\ task[r][h].kind = "close" /\ UNCHANGED <<up, reg, told, run>>
      BY <2>12 DEF Closed, At
    <3>2. task' = [task EXCEPT ![r][h] = Idle]
      BY <2>12 DEF Closed, Set
    <3>3. task'[r][h] = Idle /\ \A s \in Replicas \ {r} : task'[s] = task[s]
      BY <2>a, <3>2, TaskIs
    <3>4. mapped'[r] = Unmapped /\ \A s \in Replicas \ {r} : mapped'[s] = mapped[s]
      BY <2>12, <2>a DEF Closed, RunsOK
    <3>5. ~(r \in told /\ up[r] \in Awake)
      BY <2>c, <3>1 DEF InOrder, Current
    <3>6. InOrder(r)'
      BY <2>b, <2>c, <3>1, <3>3, <3>4, <3>5 DEF InOrder, Awaited, MapRuns, Reads, Current, At, Idle
    <3> QED BY <3>1, <3>3, <3>4, <3>6, OthersInOrder
  <2>13. ASSUME NEW r \in Replicas, NEW h \in Handlers, Deliver(r, h) PROVE OrderInv'
    <3>1. PICK u : u = [Idle EXCEPT !.pc = "reading"]
      OBVIOUS
    <3>2. u.pc = "reading" /\ u.kind = "follow" /\ task[r][h].pc = "idle"
      BY <2>13, <3>1 DEF Deliver, IsIdle, Idle
    <3>3. task' = [task EXCEPT ![r][h] = u] /\ UNCHANGED <<up, reg, told, run, mapped>>
      BY <2>13, <3>1 DEF Deliver, Set
    <3>4. task'[r][h] = u /\ \A s \in Replicas \ {r} : task'[s] = task[s]
      BY <2>a, <3>3, TaskIs
    <3>5. r \in told /\ up[r] \in Awake => mapped[r].def = reg.def
      BY <2>b, <2>c, <3>2 DEF InOrder, Current
    <3>6. InOrder(r)'
      BY <2>b, <2>c, <3>2, <3>3, <3>4, <3>5, StillInOrder
    <3> QED BY <3>3, <3>4, <3>6, OthersInOrder
  <2>14. ASSUME NEW r \in Replicas, NEW h \in Handlers, Delete(r, h) PROVE OrderInv'
    <3>1. PICK t : t = [Idle EXCEPT !.kind = "delete"]
      OBVIOUS
    <3>2. t \in Task /\ t.def = NoDef /\ MapOK(r) /\ task[r][h].pc = "idle"
      BY <2>14, <3>1, RunShape DEF Idle, Task, Kinds, Delete, RegistryInv, IsIdle
    <3>3. Retire(r, h, t) /\ told' = {} /\ up' = up
      BY <2>14, <3>1 DEF Delete
    <3>4. InOrder(r)' /\ \A s \in Replicas \ {r} : task'[s] = task[s] /\ run'[s] = run[s] /\ mapped'[s] = mapped[s]
      BY <2>a, <2>b, <2>c, <3>2, <3>3, RetireInOrder
    <3> QED BY <3>3, <3>4, OthersInOrder
  <2>15. ASSUME NEW r \in Replicas, NEW h \in Handlers, Close(r, h) PROVE OrderInv'
    <3>1. PICK t : t = [Idle EXCEPT !.kind = "close"]
      OBVIOUS
    <3>2. t \in Task /\ t.kind = "close" /\ MapOK(r) /\ task[r][h].pc = "idle" /\ up[r] = "up"
      BY <2>15, <3>1, RunShape DEF Idle, Task, Kinds, Close, RegistryInv, IsIdle
    <3>3. UNCHANGED <<reg, mapped, told>> /\ up'[r] = "closed" /\ \A s \in Replicas \ {r} : up'[s] = up[s]
      BY <2>15 DEF Close, RegistryInv, RegistryTypeOK
    <3>4. CASE mapped[r] = Unmapped
      <4>1. UNCHANGED <<run, task>>
        BY <2>15, <3>4 DEF Close
      <4>2. InOrder(r)'
        BY <2>c, <3>3, <3>4, <4>1 DEF InOrder, Awaited, MapRuns, Reads, Current, At, Awake
      <4> QED BY <3>3, <4>1, <4>2, OthersInOrder
    <3>5. CASE mapped[r] # Unmapped
      <4>1. AwaitStop(r, h, t) /\ mapped[r].id \in RunIds
        BY <2>15, <3>1, <3>2, <3>5 DEF Close, MapOK
      <4>2. PICK u \in Task : task' = [task EXCEPT ![r][h] = u] /\ u.kind = t.kind /\ Stops(r, u)
        BY <2>a, <3>2, <4>1, AwaitIs
      <4>3. InOrder(r)' /\ \A s \in Replicas \ {r} : task'[s] = task[s] /\ run'[s] = run[s] /\ mapped'[s] = mapped[s]
        BY <2>a, <2>b, <2>c, <3>2, <3>3, <3>5, <4>2, StopsInOrder DEF Awake
      <4> QED BY <3>3, <4>3, OthersInOrder
    <3> QED BY <3>4, <3>5
  <2>16. ASSUME NEW r \in Replicas, NEW h \in Handlers, RolesFail(r, h) \/ FollowFails(r, h) PROVE OrderInv'
    <3>1. task[r][h].pc \in {"roles", "reading"} /\ UNCHANGED <<up, reg, told, run, mapped>>
          /\ task' = [task EXCEPT ![r][h] = Idle]
      BY <2>16 DEF RolesFail, FollowFails, At, Set
    <3>2. task'[r][h] = Idle /\ \A s \in Replicas \ {r} : task'[s] = task[s]
      BY <2>a, <3>1, TaskIs
    <3>3. r \in told /\ up[r] \in Awake => mapped[r].def = reg.def
      BY <2>b, <2>c, <3>1 DEF InOrder, Current
    <3>4. InOrder(r)'
      BY <2>b, <2>c, <3>1, <3>2, <3>3, StillInOrder DEF Idle
    <3> QED BY <3>1, <3>2, <3>4, OthersInOrder
  <2>17. ASSUME NEW r \in Replicas, NEW h \in Handlers, NEW d \in Defs, NEW e \in Editors \cup {Nobody}, Put(r, h, e, d)
         PROVE  OrderInv'
    <3>1. PICK u : u = [kind |-> "put", pc |-> "roles", def |-> d, on |-> Nobody, by |-> e]
      OBVIOUS
    <3>2. u.pc = "roles" /\ task[r][h].pc = "idle"
      BY <2>17, <3>1 DEF Put, IsIdle
    <3>3. task' = [task EXCEPT ![r][h] = u] /\ UNCHANGED <<up, run, mapped>> /\ told' = {}
      BY <2>17, <3>1 DEF Put, Set, Write
    <3>4. task'[r][h] = u /\ \A s \in Replicas \ {r} : task'[s] = task[s]
      BY <2>a, <3>3, TaskIs
    <3>5. InOrder(r)'
      BY <2>b, <2>c, <3>2, <3>3, <3>4, StillInOrder
    <3> QED BY <3>3, <3>4, <3>5, OthersInOrder
  <2>18. ASSUME NEW e \in Editors, ReadRow(e) PROVE OrderInv'
    BY <2>1, <2>18 DEF ReadRow
  <2>19. CASE UNCHANGED registryVars
    BY <2>1, <2>19 DEF registryVars
  <2> QED BY <2>2, <2>3, <2>4, <2>5, <2>6, <2>7, <2>8, <2>9, <2>10, <2>11, <2>12, <2>13, <2>14, <2>15, <2>16,
             <2>17, <2>18, <2>19 DEF RegistryNext, HandlerStep, Booting
<1>3. RegistryInv /\ OrderInv /\ NoOrphan => SurfaceInStep
  BY QuietInStep DEF SurfaceInStep
<1>4. RegistrySpec => []NoOrphan
  BY OneHandlerNoOrphan
<1> QED BY <1>1, <1>2, <1>3, <1>4, RegistryInvHolds, PTL DEF RegistrySpec
=============================================================================
