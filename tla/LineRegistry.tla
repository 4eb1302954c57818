---------------------------- MODULE LineRegistry ----------------------------
(***************************************************************************)
(* One machine line in the registry (services/machines/registry*.ts) and   *)
(* on the replicas that run it (MachineSurface in surface.ts).  Lines are  *)
(* independent: the row and the map of runs are keyed by the line.         *)
(*                                                                         *)
(* A replica's handlers are the requests that declare or retire the line,  *)
(* and the follow() of each event.  They run concurrently; between two     *)
(* awaits any other handler may run.  An event names the line and carries  *)
(* nothing else; it is delivered at most once, in any order.               *)
(***************************************************************************)
EXTENDS Naturals, FiniteSets

CONSTANTS
  Replicas,
  Handlers,   \* handlers a replica has in flight at a time
  Editors,    \* clients that send the version they last read
  Defs,       \* definitions of the line
  NoDef,      \* no definition: an absent row
  Nobody,     \* a write that names no version
  RunIds,     \* LineRun objects a replica can hold at a time
  CodeLine,   \* what start({ machines }) declares on each replica
  CodeOwned,  \* configSource: code
  MaxWrites,  \* bound of registry writes
  MaxFaults   \* bound of crashes, lost events and failed requests

ASSUME RegistryAssumption ==
  /\ NoDef \notin Defs /\ Nobody \notin Editors \cup RunIds
  /\ CodeLine \in [Replicas -> Defs \cup {NoDef}]
  /\ CodeOwned \in BOOLEAN
  /\ MaxWrites \in Nat /\ MaxFaults \in Nat

VARIABLES
  reg,     \* the row in lt_machine_lines
  writes,  \* writes so far
  known,   \* the row each editor last read
  up,      \* where each replica is between boot and shutdown
  mapped,  \* surface.runs: the run the replica's map holds
  run,     \* the LineRun objects that were started and have not stopped
  task,    \* the handlers
  mail,    \* events on their way to each replica
  told,    \* replicas that read the row since its last write
  faults

registryVars == <<reg, writes, known, up, mapped, run, task, mail, told, faults>>

\* born and stamp are the writes that inserted the row and wrote it last
Row == [def: Defs, version: Nat, source: {"code", "api"}, born: Nat, stamp: Nat]
NoRow == [def |-> NoDef, version |-> 0, source |-> "api", born |-> 0, stamp |-> 0]
Run == [def: Defs, stopping: BOOLEAN]
NoRun == [def |-> NoDef, stopping |-> FALSE]
Mapping == [id: RunIds \cup {Nobody}, def: Defs]
Unmapped == [id |-> Nobody, def |-> NoDef]
\* reading  getLine() of a follow is under way     decide    its answer is in
\* roles    applyLineRoles                         publish   the surface is done
\* stopping current.stop() is awaited              stopped   and has returned
Pcs == {"idle", "reading", "decide", "roles", "stopping", "stopped", "publish"}
Kinds == {"put", "delete", "follow", "close"}
Task == [kind: Kinds, pc: Pcs, def: Defs \cup {NoDef}, on: RunIds \cup {Nobody},
         by: Editors \cup {Nobody}]
Idle == [kind |-> "follow", pc |-> "idle", def |-> NoDef, on |-> Nobody, by |-> Nobody]

Present == reg # NoRow
IsIdle(r, h) == task[r][h].pc = "idle"
At(r, h, p) == task[r][h].pc = p
Set(r, h, t) == task' = [task EXCEPT ![r][h] = t]
To(r, h, p) == Set(r, h, [task[r][h] EXCEPT !.pc = p])
Fault == faults < MaxFaults /\ faults' = faults + 1
Live(r) == {i \in RunIds : run[r][i] # NoRun}

RegistryInit ==
  /\ \/ reg = NoRow
     \/ \E d \in Defs :
          reg = [def |-> d, version |-> 1, source |-> "api", born |-> 0, stamp |-> 0]
  /\ writes = 0
  /\ known = [e \in Editors |-> NoRow]
  /\ up = [r \in Replicas |-> "down"]
  /\ mapped = [r \in Replicas |-> Unmapped]
  /\ run = [r \in Replicas |-> [i \in RunIds |-> NoRun]]
  /\ task = [r \in Replicas |-> [h \in Handlers |-> Idle]]
  /\ mail = [r \in Replicas |-> 0]
  /\ told = {}
  /\ faults = 0

-----------------------------------------------------------------------------
(* The registry's statements.  Each is one statement and one action.       *)

\* Mutant: a write through the API leaves the version as it is.
WriteKeepingVersion(d, source) ==
  /\ writes < MaxWrites /\ writes' = writes + 1
  /\ reg' = IF Present
            THEN [reg EXCEPT !.def = d, !.source = source, !.stamp = writes + 1]
            ELSE [def |-> d, version |-> 1, source |-> source,
                  born |-> writes + 1, stamp |-> writes + 1]
  /\ told' = {}
\* INSERT ... ON CONFLICT DO UPDATE: the first version, or the next one
Write(d, source) ==
  /\ writes < MaxWrites /\ writes' = writes + 1
  /\ reg' = IF Present
            THEN [reg EXCEPT !.def = d, !.source = source, !.version = @ + 1, !.stamp = writes + 1]
            ELSE [def |-> d, version |-> 1, source |-> source,
                  born |-> writes + 1, stamp |-> writes + 1]
  /\ told' = {}

\* A client reads the row and its version.
ReadRow(e) ==
  /\ Present /\ known[e] # reg
  /\ known' = [known EXCEPT ![e] = reg]
  /\ UNCHANGED <<reg, writes, up, mapped, run, task, mail, told, faults>>

\* WHERE $5 IS NULL OR version = $5: of the UPDATE, not of the INSERT
VersionMatches(e) ==
  e \in Editors => /\ known[e] # NoRow
                   /\ Present => reg.version = known[e].version

\* declareLine: a version that does not match is 409 and changes nothing
Put(r, h, e, d) ==
  /\ up[r] = "up" /\ IsIdle(r, h)
  /\ VersionMatches(e)
  /\ Write(d, "api")
  /\ Set(r, h, [kind |-> "put", pc |-> "roles", def |-> d, on |-> Nobody, by |-> e])
  /\ UNCHANGED <<known, up, mapped, run, mail, faults>>
\* applyLineRoles throws: the row stays written, nobody is told
RolesFail(r, h) ==
  /\ At(r, h, "roles") /\ Fault
  /\ Set(r, h, Idle)
  /\ UNCHANGED <<reg, writes, known, up, mapped, run, mail, told>>

-----------------------------------------------------------------------------
(* MachineSurface                                                          *)

\* begin(): a new run, which the map holds from now on
Begin(r, d) ==
  /\ Live(r) # RunIds
  /\ LET i == CHOOSE j \in RunIds \ Live(r) : TRUE IN
       /\ run' = [run EXCEPT ![r][i] = [def |-> d, stopping |-> FALSE]]
       /\ mapped' = [mapped EXCEPT ![r] = [id |-> i, def |-> d]]

\* await current.stop(): a run that has stopped already resolves at once
AwaitStop(r, h, t) ==
  LET i == mapped[r].id IN
    IF run[r][i] = NoRun
    THEN Set(r, h, [t EXCEPT !.pc = "stopped"]) /\ UNCHANGED run
    ELSE /\ Set(r, h, [t EXCEPT !.pc = "stopping", !.on = i])
         /\ run' = [run EXCEPT ![r][i].stopping = TRUE]

\* Mutant: a retirement is not published.
SurfacedQuietly(r, h) ==
  IF task[r][h].kind = "put" THEN To(r, h, "publish") ELSE Set(r, h, Idle)
\* what follows surface.declare and surface.retire: a request publishes
Surfaced(r, h) ==
  IF task[r][h].kind \in {"put", "delete"} THEN To(r, h, "publish") ELSE Set(r, h, Idle)

\* Mutant: the current run is dropped, not stopped.
DeclareWithoutStop(r, h, d) ==
  IF mapped[r].def = d THEN Surfaced(r, h) /\ UNCHANGED <<run, mapped>>
  ELSE Begin(r, d) /\ Surfaced(r, h)
\* MachineSurface.declare
Declare(r, h, d) ==
  IF mapped[r].def = d THEN Surfaced(r, h) /\ UNCHANGED <<run, mapped>>
  ELSE IF mapped[r] # Unmapped
  THEN AwaitStop(r, h, task[r][h]) /\ UNCHANGED mapped
  ELSE Begin(r, d) /\ Surfaced(r, h)

\* MachineSurface.retire: out of the map first, then stopped
Retire(r, h, t) ==
  IF mapped[r] = Unmapped
  THEN /\ IF t.kind = "delete" THEN Set(r, h, [t EXCEPT !.pc = "publish"]) ELSE Set(r, h, Idle)
       /\ UNCHANGED <<run, mapped>>
  ELSE AwaitStop(r, h, t) /\ mapped' = [mapped EXCEPT ![r] = Unmapped]

RolesApplied(r, h) ==
  /\ At(r, h, "roles")
  /\ Declare(r, h, task[r][h].def)
  /\ UNCHANGED <<reg, writes, known, up, mail, told, faults>>

\* retireLine: DELETE ... RETURNING, and the surface right after it
Delete(r, h) ==
  /\ up[r] = "up" /\ IsIdle(r, h) /\ Present
  /\ writes < MaxWrites /\ writes' = writes + 1
  /\ reg' = NoRow /\ told' = {}
  /\ Retire(r, h, [Idle EXCEPT !.kind = "delete"])
  /\ UNCHANGED <<known, up, mail, faults>>

\* Mutant: the handlers that await a stop are not resumed.
StopForgotten(r, i) ==
  /\ run[r][i].stopping
  /\ run' = [run EXCEPT ![r][i] = NoRun]
  /\ UNCHANGED <<reg, writes, known, up, mapped, task, mail, told, faults>>
\* LineRun.stop() returns (StopEnds of LineLeadership): whoever awaited it goes on
StopReturns(r, i) ==
  /\ run[r][i].stopping
  /\ run' = [run EXCEPT ![r][i] = NoRun]
  /\ task' = [task EXCEPT ![r] = [h \in Handlers |->
       IF @[h].pc = "stopping" /\ @[h].on = i
       THEN [@[h] EXCEPT !.pc = "stopped", !.on = Nobody] ELSE @[h]]]
  /\ UNCHANGED <<reg, writes, known, up, mapped, mail, told, faults>>

\* Mutant: a retirement ends as a declaration does.
ResumeBeginning(r, h) ==
  /\ At(r, h, "stopped") /\ task[r][h].kind # "close"
  /\ Begin(r, task[r][h].def)
  /\ Surfaced(r, h)
  /\ UNCHANGED <<reg, writes, known, up, mail, told, faults>>
\* the rest of declare or retire after its await
Resume(r, h) ==
  /\ At(r, h, "stopped") /\ task[r][h].kind # "close"
  /\ IF task[r][h].def # NoDef THEN Begin(r, task[r][h].def) ELSE UNCHANGED <<run, mapped>>
  /\ Surfaced(r, h)
  /\ UNCHANGED <<reg, writes, known, up, mail, told, faults>>

-----------------------------------------------------------------------------
(* Events                                                                  *)

\* publishMachineLineEvent: the bus may lose the event for some replicas, and
\* one that has listed the lines and not begun to watch misses it; the
\* in-process adapter hands it to this replica's own follow() at once
Publish(r, h) ==
  /\ At(r, h, "publish")
  /\ \E got \in SUBSET {s \in Replicas \ {r} : up[s] = "up"} :
       /\ mail' = [s \in Replicas |-> IF s \in got THEN mail[s] + 1 ELSE mail[s]]
       /\ IF \E s \in Replicas \ ({r} \cup got) : up[s] \in {"up", "listed"} THEN Fault ELSE UNCHANGED faults
  /\ Set(r, h, [Idle EXCEPT !.pc = "reading"])
  /\ UNCHANGED <<reg, writes, known, up, mapped, run, told>>

\* watchLineRegistry's callback: follow() begins with getLine()
Deliver(r, h) ==
  /\ mail[r] > 0 /\ up[r] = "up" /\ IsIdle(r, h)
  /\ mail' = [mail EXCEPT ![r] = @ - 1]
  /\ Set(r, h, [Idle EXCEPT !.pc = "reading"])
  /\ UNCHANGED <<reg, writes, known, up, mapped, run, told, faults>>
\* the server answers; the replica acts on it later
GetLine(r, h) ==
  /\ At(r, h, "reading")
  /\ Set(r, h, [task[r][h] EXCEPT !.pc = "decide", !.def = reg.def])
  /\ told' = told \cup {r}
  /\ UNCHANGED <<reg, writes, known, up, mapped, run, mail, faults>>
FollowFails(r, h) ==
  /\ At(r, h, "reading") /\ Fault
  /\ Set(r, h, Idle)
  /\ UNCHANGED <<reg, writes, known, up, mapped, run, mail, told>>
\* Mutant: an event for a line the registry does not hold is ignored.
FollowKeeping(r, h) ==
  /\ At(r, h, "decide")
  /\ IF task[r][h].def = NoDef THEN Set(r, h, Idle) /\ UNCHANGED <<run, mapped>>
     ELSE Declare(r, h, task[r][h].def)
  /\ UNCHANGED <<reg, writes, known, up, mail, told, faults>>
Follow(r, h) ==
  /\ At(r, h, "decide")
  /\ IF task[r][h].def = NoDef THEN Retire(r, h, task[r][h])
     ELSE Declare(r, h, task[r][h].def)
  /\ UNCHANGED <<reg, writes, known, up, mail, told, faults>>

-----------------------------------------------------------------------------
(* Boot, shutdown, crash                                                   *)

\* syncDeclaredLines: under the config lock the code line is seeded, or
\* applied when code owns it
CodeLineWrites(d) ==
  /\ d # NoDef
  /\ ~Present \/ (CodeOwned /\ (reg.def # d \/ reg.source # "code"))
BootApply(r) ==
  /\ up[r] = "down"
  /\ IF CodeLineWrites(CodeLine[r]) THEN Write(CodeLine[r], "code")
     ELSE UNCHANGED <<reg, writes, told>>
  /\ up' = [up EXCEPT ![r] = "listing"]
  /\ UNCHANGED <<known, mapped, run, task, mail, faults>>
\* listEnabledLines; until the surface starts, `mapped` holds its answer
BootList(r) ==
  /\ up[r] = "listing"
  /\ up' = [up EXCEPT ![r] = "listed"]
  /\ told' = told \cup {r}
  /\ mapped' = [mapped EXCEPT ![r] = [id |-> Nobody, def |-> reg.def]]
  /\ UNCHANGED <<reg, writes, known, run, task, mail, faults>>
\* MachineSurface.start, and from then on the replica watches
BootStart(r) ==
  /\ up[r] = "listed"
  /\ up' = [up EXCEPT ![r] = "up"]
  /\ IF mapped[r].def = NoDef THEN UNCHANGED <<run, mapped>> ELSE Begin(r, mapped[r].def)
  /\ UNCHANGED <<reg, writes, known, task, mail, told, faults>>

\* shutdown(): no request is in flight any more, events are not watched;
\* surface.stop() stops the runs in the map and clears it
Close(r, h) ==
  /\ up[r] = "up" /\ IsIdle(r, h)
  /\ \A g \in Handlers : ~IsIdle(r, g) => task[r][g].kind = "follow"
  /\ up' = [up EXCEPT ![r] = "closed"]
  /\ mail' = [mail EXCEPT ![r] = 0]
  /\ IF mapped[r] = Unmapped THEN UNCHANGED <<run, task>>
     ELSE AwaitStop(r, h, [Idle EXCEPT !.kind = "close"])
  /\ UNCHANGED <<reg, writes, known, mapped, told, faults>>
Closed(r, h) ==
  /\ At(r, h, "stopped") /\ task[r][h].kind = "close"
  /\ mapped' = [mapped EXCEPT ![r] = Unmapped]
  /\ Set(r, h, Idle)
  /\ UNCHANGED <<reg, writes, known, up, run, mail, told, faults>>
\* the process dies, or ends after a shutdown; it may boot again
Crash(r) ==
  /\ up[r] # "down" /\ Fault
  /\ up' = [up EXCEPT ![r] = "down"]
  /\ mapped' = [mapped EXCEPT ![r] = Unmapped]
  /\ run' = [run EXCEPT ![r] = [i \in RunIds |-> NoRun]]
  /\ task' = [task EXCEPT ![r] = [h \in Handlers |-> Idle]]
  /\ mail' = [mail EXCEPT ![r] = 0]
  /\ UNCHANGED <<reg, writes, known, told>>

HandlerStep(r, h) ==
  \/ RolesApplied(r, h) \/ Resume(r, h) \/ Publish(r, h)
  \/ GetLine(r, h) \/ Follow(r, h) \/ Closed(r, h)
Booting(r) == BootApply(r) \/ BootList(r) \/ BootStart(r)
RegistryNext ==
  \/ \E e \in Editors : ReadRow(e)
  \/ \E r \in Replicas :
       \/ Booting(r) \/ Crash(r)
       \/ \E i \in RunIds : StopReturns(r, i)
       \/ \E h \in Handlers :
            \/ HandlerStep(r, h) \/ Deliver(r, h)
            \/ Delete(r, h) \/ Close(r, h)
            \/ RolesFail(r, h) \/ FollowFails(r, h)
            \/ \E d \in Defs, e \in Editors \cup {Nobody} : Put(r, h, e, d)

RegistrySpec == RegistryInit /\ [][RegistryNext]_registryVars

\* Handlers run on from their awaits, stop() returns, events that were not
\* lost arrive, and a replica that boots gets through its boot.
FairRegistrySpec ==
  /\ RegistrySpec
  /\ \A r \in Replicas :
       /\ WF_registryVars(Booting(r))
       /\ \A i \in RunIds : WF_registryVars(StopReturns(r, i))
       /\ \A h \in Handlers :
            WF_registryVars(HandlerStep(r, h)) /\ WF_registryVars(Deliver(r, h))

-----------------------------------------------------------------------------
RegistryTypeOK ==
  /\ reg \in Row \cup {NoRow}
  /\ writes \in Nat
  /\ known \in [Editors -> Row \cup {NoRow}]
  /\ up \in [Replicas -> {"down", "listing", "listed", "up", "closed"}]
  /\ mapped \in [Replicas -> Mapping \cup {Unmapped}]
  /\ run \in [Replicas -> [RunIds -> Run \cup {NoRun}]]
  /\ task \in [Replicas -> [Handlers -> Task]]
  /\ mail \in [Replicas -> Nat]
  /\ told \in SUBSET Replicas
  /\ faults \in Nat

\* a write that names a version lands
Landing(e) ==
  \E r \in Replicas, h \in Handlers :
    IsIdle(r, h) /\ task'[r][h].pc = "roles" /\ task'[r][h].by = e

Quiet ==
  \A r \in Replicas :
    /\ mail[r] = 0 /\ up[r] \notin {"listing", "listed"}
    /\ \A h \in Handlers : IsIdle(r, h)
Running(r) == {run[r][i].def : i \in Live(r)}
InStep(r) ==
  /\ Cardinality(Live(r)) <= 1
  /\ Running(r) = {reg.def} \ {NoDef}

\* registry-sync.ts: "Keeps the running surface in step with the line
\* registry."  Whenever nothing is in flight, a replica that was told of the
\* last write runs the definition the registry holds, once, and nothing when
\* the line is retired.
SurfaceInStep ==
  Quiet => \A r \in Replicas : up[r] = "up" /\ r \in told => InStep(r)

\* registry-sync.ts: a declaration "tells every other replica".  Whenever
\* nothing is in flight and nothing failed, every replica was told of the last
\* write, whoever made it and however the requests of two replicas crossed.
\* A write at boot is told to nobody: it is left out here.
EveryReplicaTold ==
  Quiet /\ faults = 0 /\ reg.source = "api" => \A r \in Replicas : up[r] = "up" => r \in told

\* No run is left behind by the map, whichever handler replaced or retired it
\* and when: what runs is what the map holds, or is on its way out.  So
\* nothing runs once a shutdown has returned.
NoOrphan ==
  \A r \in Replicas : \A i \in Live(r) : run[r][i].stopping \/ mapped[r].id = i

\* Wherever the races of requests, events and boots end, the replicas end in
\* step: from some point on each one that was told runs what the registry holds.
EndsInStep ==
  <>[](\A r \in Replicas : up[r] = "up" /\ r \in told => InStep(r))

\* registry-sql.ts: "a stale writer gets zero rows back".  A write that names
\* the version its caller last read replaces the very row the caller read, as
\* long as the line was not retired in between: no sequence of writes through
\* the API and at boot gives one version to two writes.  (A retired line is
\* inserted again by such a write, and one declared anew starts at version 1.)
VersionNamesOneWrite ==
  [][\A e \in Editors :
       Landing(e) /\ Present /\ reg.born = known[e].born => reg.stamp = known[e].stamp]_registryVars
=============================================================================
