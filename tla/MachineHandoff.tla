--------------------------- MODULE MachineHandoff ---------------------------
(***************************************************************************)
(* Handoffs into one machine (services/machines/gateway): rows parked on   *)
(* the machine's role, the gateway that leads the line, and the machine    *)
(* behind its broker.  A row is one job of one unit; the codec dispatches  *)
(* before arrival.                                                         *)
(*                                                                         *)
(* Escalation events are handled one at a time, machine messages one at a  *)
(* time; the two lanes and the detached dispatches interleave where they   *)
(* wait for Long Tail or the machine, and run on without a break between   *)
(* two such waits.  A verb lands in one step, its answer comes in a later. *)
(***************************************************************************)
EXTENDS Naturals, Sequences, FiniteSets, SequencesExt, Functions

CONSTANTS
  Rows,     \* handoff rows, numbered in the order they are parked: 1, 2, ...
  Settings  \* what a behaviour has, of Setting below

FaultKinds == {"timeout", "period", "beat", "restart", "crash"}

\* How many rows are parked; the machine's queueDepth and dispatchAttempts; the rows
\* the gateway refuses (no artifact for a machine that requires one), the machine
\* declines (a recipe it does not hold) and reads on a wrong carrier the first time;
\* whether rows are parked and withdrawn while no gateway is up, too; what may go
\* wrong, and the bound of what goes wrong.
Setting == [parks : Nat, depth : Nat \ {0}, attempts : Nat \ {0},
            unfit : SUBSET Rows, declined : SUBSET Rows, misread : SUBSET Rows,
            busyTakeover : BOOLEAN, faults : SUBSET FaultKinds, maxFaults : Nat]

ASSUME HandoffAssumption == Rows \subseteq Nat \ {0} /\ IsFiniteSet(Rows) /\ Settings \subseteq Setting

VARIABLES
  setting, \* the setting of this behaviour
  db,      \* Long Tail's rows: status, the machine's claim, the arrival item
  events,  \* escalation events on their way to the gateway
  gateway, \* "down", "reading" the line back, "sending" what waits, or "up"
  state,   \* GatewayState
  lane,    \* the verbs each serial handler still has to perform
  task,    \* the detached dispatches
  cmds,    \* commands on their way to the machine
  machine, \* its jobs, the commands it ran, its boot, its retained snapshot
  mail,    \* its messages, kept until they are acked
  period,  \* the validity period of a dispatch made now
  spent    \* how often each fault happened

leaderVars == <<gateway, state, lane, task>>
machineVars == <<machine, period>>
handoffVars == <<setting, db, events, gateway, state, lane, task, cmds, machine, mail, period, spent>>

Statuses == {"none", "pending", "received", "failed", "withdrawn"}
Dispatches == {"unknown", "waiting", "pending", "accepted", "refused", "closed"}
Open == {"waiting", "pending", "accepted", "refused"}
Sent == {"pending", "accepted"}
Lanes == {"events", "messages"}
Sends == {"first", "again"}  \* a dispatch, and one sent again after a restart
Verbs == {"accumulate", "receive", "fail", "refuse"}  \* refuse: a failure the controller reports

Do(what, r) == [do |-> what, row |-> r]
Idle == [pc |-> "idle", todo |-> <<>>, landed |-> FALSE]
NoTask == [pc |-> "idle", attempt |-> 0, of |-> 0, ended |-> FALSE, refused |-> FALSE, done |-> FALSE]
Blank == [row |-> [r \in Rows |-> "unknown"], held |-> {}, sent |-> {}, over |-> {}, boot |-> 0, jobs |-> {}]

HandoffInit ==
  /\ setting \in Settings
  /\ db = [r \in Rows |-> [status |-> "none", claimed |-> FALSE, item |-> FALSE]]
  /\ events = {}
  /\ gateway = "down"
  /\ state = Blank
  /\ lane = [l \in Lanes |-> Idle]
  /\ task = [x \in Rows \X Sends |-> NoTask]
  /\ cmds = <<>>
  /\ machine = [job |-> [r \in Rows |-> "none"], ran |-> {}, boot |-> 1,
                said |-> [boot |-> 1, jobs |-> {}], misread |-> {}]
  /\ mail = <<>>
  /\ period = 1
  /\ spent = [f \in FaultKinds |-> 0]

Spend(f) ==
  /\ f \in setting.faults /\ SumFunction(spent) < setting.maxFaults
  /\ spent' = [spent EXCEPT ![f] = @ + 1]
\* a slow machine may stay slow: only the first late answer counts as a fault
Late == IF spent.timeout = 0 THEN Spend("timeout") ELSE UNCHANGED spent

-----------------------------------------------------------------------------
(* Long Tail and its hosts                                                 *)

\* the feed replays nothing: an event no gateway listens to is gone
Emit(r, verb) == events' = IF gateway = "up" THEN events \cup {<<r, verb>>} ELSE events
HostActs == gateway = "up" \/ setting.busyTakeover

Park(r) ==
  /\ r <= setting.parks /\ db[r].status = "none" /\ HostActs
  /\ \A q \in Rows : q < r => db[q].status # "none"
  /\ db' = [db EXCEPT ![r].status = "pending"]
  /\ Emit(r, "created")
  /\ UNCHANGED <<leaderVars, cmds, machineVars, mail, spent>>
\* a workflow cancels the wait, or it expires
Withdraw(r) ==
  /\ db[r].status = "pending" /\ HostActs
  /\ db' = [db EXCEPT ![r].status = "withdrawn"]
  /\ Emit(r, "ended")
  /\ UNCHANGED <<leaderVars, cmds, machineVars, mail, spent>>

\* what a verb does to its row: one no longer pending is left alone, and a
\* claimed row is ended by its claimant, the machine, only
Land(verb, r) ==
  LET pending == db[r].status = "pending" IN
    CASE verb = "claim" /\ pending ->
           db' = [db EXCEPT ![r].claimed = TRUE] /\ UNCHANGED events
      [] verb = "accumulate" /\ pending ->
           db' = [db EXCEPT ![r].item = TRUE] /\ UNCHANGED events
      [] verb = "receive" /\ pending ->
           db' = [db EXCEPT ![r].status = "received"] /\ Emit(r, "resolved")
      [] verb \in {"fail", "refuse"} /\ pending /\ (verb = "refuse" => ~db[r].claimed) ->
           db' = [db EXCEPT ![r].status = "failed"] /\ Emit(r, "resolved")
      [] OTHER -> UNCHANGED <<db, events>>

-----------------------------------------------------------------------------
(* Plans: what a handler decides, from the gateway's state alone           *)

IsOpen(s, r) == s.row[r] \in Open
\* Mutant: only what was sent is closed.
ShutSent(s, r) == IF s.row[r] \in Sent THEN [s EXCEPT !.row[r] = "closed"] ELSE s
Shut(s, r) == IF IsOpen(s, r) THEN [s EXCEPT !.row[r] = "closed"] ELSE s

\* Mutant: only a dispatch the machine accepted is cancelled.
CancelAccepted(s, r) ==
  IF s.row[r] = "accepted" /\ r \notin s.held THEN <<Do("cancel", r)>> ELSE <<>>
\* an open dispatch that may still sit in the machine's queue is withdrawn
CancelDispatch(s, r) ==
  IF s.row[r] \in Sent /\ r \notin s.held THEN <<Do("cancel", r)>> ELSE <<>>
FailHandoff(s, r) == <<Do("fail", r)>> \o CancelDispatch(s, r)
\* Mutant: a released unit keeps its room.
LetGoNothing(s, r) == s
LetGo(s, r) ==
  IF r \in s.held
  THEN [s EXCEPT !.held = @ \ {r}, !.sent = @ \ {r}, !.over = @ \cup {r}] ELSE s

MachineLoad(s) == s.held \cup {r \in Rows : s.row[r] \in Sent}
\* Mutant: one job more than queueDepth.
FitsOneMore(load) == load = {} \/ Cardinality(load) <= setting.depth
Fits(load) == load = {} \/ Cardinality(load) + 1 <= setting.depth

\* waiting rows go out in order while the machine has room; a refused one takes none
Waiting(s) == {r \in Rows : s.row[r] = "waiting"}
Goes(s) == {r \in Waiting(s) : \A q \in Waiting(s) : q <= r =>
             Fits(MachineLoad(s) \cup ({p \in Waiting(s) : p < q} \ setting.unfit))}
Admit(s, R) ==
  [s EXCEPT !.row = [r \in Rows |-> IF r \notin R THEN s.row[r]
                                    ELSE IF r \in setting.unfit THEN "refused" ELSE "pending"]]
Sorted(R) == CHOOSE s \in [1..Cardinality(R) -> R] : \A i, j \in DOMAIN s : i < j => s[i] < s[j]
Actions(R) == [i \in 1..Cardinality(R) |->
  Do(IF Sorted(R)[i] \in setting.unfit THEN "refuse" ELSE "dispatch", Sorted(R)[i])]

-----------------------------------------------------------------------------
(* The executor: dispatches and commands run detached, a verb is awaited   *)

Upto(list) == LET awaited == {i \in 1..Len(list) : list[i].do \in Verbs}
              IN  IF awaited = {} THEN Len(list) ELSE Min(awaited) - 1
Asked(t, X, again) ==
  [x \in DOMAIN t |-> IF x \in X THEN [NoTask EXCEPT !.pc = "reply", !.attempt = 1, !.of = period, !.ended = again]
                      ELSE t[x]]
Command(op, r, of) == [op |-> op, row |-> r, of |-> of]
Cancel(r) == Command("cancel", r, 0)

\* start what list begins with, up to its first verb
Begun(t, list) ==
  Asked(t, {<<list[i].row, "first">> : i \in {j \in 1..Upto(list) : list[j].do = "dispatch"}}, FALSE)
Published(list) ==
  [i \in 1..Upto(list) |-> IF list[i].do = "cancel" THEN Cancel(list[i].row) ELSE Command("dispatch", list[i].row, period)]
Rest(list) == SubSeq(list, Upto(list) + 1, Len(list))

\* lane l performs list, then sends what waits: at once when list has no verb
\* left, otherwise when the last one has answered; a message is acked at the end
Perform(l, s, t, out, list, paced) ==
  LET R == Goes(s)
      now == Rest(list) = <<>> /\ ~paced
      pace == IF now THEN Actions(R) ELSE <<>>
      left == IF now THEN Rest(pace) ELSE Rest(list)
  IN  /\ state' = IF now THEN Admit(s, R) ELSE s
      /\ task' = Begun(Begun(t, list), pace)
      /\ cmds' = cmds \o out \o Published(list) \o Published(pace)
      /\ lane' = [lane EXCEPT ![l] =
           IF left = <<>> THEN Idle ELSE [Idle EXCEPT !.pc = IF now \/ paced THEN "pacing" ELSE "acting", !.todo = left]]
      /\ mail' = IF l = "messages" /\ left = <<>> THEN Tail(mail) ELSE mail

VerbLands(l) ==
  /\ lane[l].todo # <<>> /\ ~lane[l].landed
  /\ Land(Head(lane[l].todo).do, Head(lane[l].todo).row)
  /\ lane' = [lane EXCEPT ![l].landed = TRUE]
  /\ UNCHANGED <<gateway, state, task, cmds, machineVars, mail, spent>>

\* a row that now holds its arrival is received; one that was ended is closed
VerbReturns(l) ==
  LET a == Head(lane[l].todo)
      more == Tail(lane[l].todo)
      complete == a.do = "accumulate" /\ db[a.row].item
  IN  /\ lane[l].todo # <<>> /\ lane[l].landed
      /\ Perform(l, IF a.do = "accumulate" THEN state ELSE Shut(state, a.row), task, <<>>,
                 IF complete THEN <<Do("receive", a.row)>> \o more ELSE more, lane[l].pc = "pacing")
      /\ gateway' = IF gateway = "sending" /\ lane'[l] = Idle THEN "up" ELSE gateway
      /\ UNCHANGED <<db, events, machineVars, spent>>

-----------------------------------------------------------------------------
(* Escalation events                                                       *)

Fitting == [created |-> {"pending"}, ended |-> {"withdrawn"}, resolved |-> {"received", "failed"}]

\* an event only says which row to look at: the stored row is read back, and an
\* event that disagrees with it does nothing.  A host that ends the row between
\* the read and the plan emits an event of its own, so the two are one step.
OnEscalation(r, verb) ==
  LET fits == db[r].status \in Fitting[verb]
      new == fits /\ verb = "created" /\ state.row[r] = "unknown"
      goes == new /\ Fits(MachineLoad(state))
      over == fits /\ verb # "created"
  IN  /\ gateway = "up" /\ lane["events"] = Idle /\ <<r, verb>> \in events
      /\ events' = events \ {<<r, verb>>}
      /\ Perform("events",
           CASE goes -> Admit(state, {r})
             [] new /\ ~goes -> [state EXCEPT !.row[r] = "waiting"]
             [] over -> Shut(state, r)
             [] OTHER -> state,
           task, <<>>,
           IF goes THEN Actions({r}) ELSE IF over /\ verb = "ended" THEN CancelDispatch(state, r) ELSE <<>>,
           FALSE)
      /\ UNCHANGED <<db, gateway, machineVars, spent>>

-----------------------------------------------------------------------------
(* Dispatches                                                              *)

\* the dispatches X end: their machine took the jobs of rows T, and refused the
\* others itself or is taken not to hold them
Concluded(s, X, T) ==
  LET R == {x[1] : x \in {y \in X : ~task[y].ended}}
  IN  [s EXCEPT !.row = [r \in Rows |-> IF r \notin R \/ ~IsOpen(s, r) THEN s.row[r]
                                        ELSE IF r \in T THEN "accepted" ELSE "refused"],
                !.sent = @ \cup (R \cap T)]
Answered(s, X, T, refused) ==
  [x \in DOMAIN task |->
     CASE x \notin X -> task[x]
       [] x \in X /\ ~task[x].ended /\ x[1] \in T -> [NoTask EXCEPT !.pc = "claim"]
       [] x \in X /\ ~task[x].ended /\ x[1] \notin T /\ IsOpen(s, x[1]) ->
            [NoTask EXCEPT !.pc = "fail", !.refused = refused]
       [] OTHER -> NoTask]

\* Mutant: one attempt more than dispatchAttempts.
ReplyLateOnceMore(x) ==
  LET again == task[x].attempt <= setting.attempts IN
    /\ task[x].pc = "reply" /\ Late
    /\ task' = [task EXCEPT ![x].attempt = IF again THEN @ + 1 ELSE @, ![x].pc = IF again THEN @ ELSE "status"]
    /\ cmds' = Append(cmds, Command(IF again THEN "dispatch" ELSE "snapshot", x[1], task[x].of))
    /\ UNCHANGED <<db, events, gateway, state, lane, machineVars, mail>>
\* no answer in time: ask again, with the same command; at the end ask what the machine holds
ReplyLate(x) ==
  LET again == task[x].attempt < setting.attempts IN
    /\ task[x].pc = "reply" /\ Late
    /\ task' = [task EXCEPT ![x].attempt = IF again THEN @ + 1 ELSE @, ![x].pc = IF again THEN @ ELSE "status"]
    /\ cmds' = Append(cmds, Command(IF again THEN "dispatch" ELSE "snapshot", x[1], task[x].of))
    /\ UNCHANGED <<db, events, gateway, state, lane, machineVars, mail>>
StatusLate(x) ==
  /\ task[x].pc = "status" /\ Late
  /\ state' = Concluded(state, {x}, {})
  /\ task' = Answered(state, {x}, {}, FALSE)
  /\ UNCHANGED <<db, events, gateway, lane, cmds, machineVars, mail>>

TaskClaims(x) ==
  /\ task[x].pc = "claim"
  /\ Land("claim", x[1])
  /\ task' = [task EXCEPT ![x] = NoTask]
  /\ UNCHANGED <<gateway, state, lane, cmds, machineVars, mail, spent>>
TaskFails(x) ==
  /\ task[x].pc = "fail"
  /\ Land(IF task[x].refused THEN "fail" ELSE "refuse", x[1])
  /\ task' = [task EXCEPT ![x].pc = "failed", ![x].done = db' # db]
  /\ UNCHANGED <<gateway, state, lane, cmds, machineVars, mail, spent>>
\* the row is closed, and a job the machine may still receive is cancelled
TaskEnds(x) ==
  /\ task[x].pc = "failed"
  /\ state' = Shut(state, x[1])
  /\ cmds' = IF task[x].done /\ ~task[x].refused THEN Append(cmds, Cancel(x[1])) ELSE cmds
  /\ task' = [task EXCEPT ![x] = NoTask]
  /\ UNCHANGED <<db, events, gateway, lane, machineVars, mail, spent>>

-----------------------------------------------------------------------------
(* Machine messages                                                        *)

Reading(kind) == gateway = "up" /\ lane["messages"] = Idle /\ mail # <<>> /\ Head(mail).kind = kind
HandlerUnchanged == UNCHANGED <<db, events, gateway, machineVars, spent>>

TakeReply ==
  LET m == Head(mail)
      X == {x \in DOMAIN task : task[x].pc = "reply" /\ x[1] = m.row /\ task[x].of = m.of}
      T == IF m.ok THEN {m.row} ELSE {}
  IN  /\ Reading("reply")
      /\ Perform("messages", Concluded(state, X, T), Answered(state, X, T, TRUE), <<>>, <<>>, FALSE)
      /\ HandlerUnchanged

\* a message whose row the gateway does not hold open only tells where the unit is
TakeJob ==
  LET m == Head(mail)
      s == CASE m.kind = "arrived" /\ IsOpen(state, m.row) -> [state EXCEPT !.held = @ \cup {m.row}]
             [] m.kind \in {"released", "withdrawn"} -> LetGo(state, m.row)
             [] OTHER -> state
  IN  /\ \E kind \in {"arrived", "released", "withdrawn", "misread"} : Reading(kind)
      /\ Perform("messages", s, task, <<>>,
           CASE m.kind = "released" \/ ~IsOpen(state, m.row) -> <<>>
             [] m.kind = "arrived" /\ IsOpen(state, m.row) -> <<Do("accumulate", m.row)>>
             [] OTHER -> FailHandoff(s, m.row),
           FALSE)
      /\ HandlerUnchanged

\* jobs a restarted machine lost, of rows that ended: held there or listed before
Lost(s, listed) == {r \in (s.held \cup s.jobs) \ (listed \cup s.over) : s.row[r] = "closed" /\ r \in s.sent}
KeepHeld(s, listed, boot) ==
  LET gone == s.held \ listed
  IN  [s EXCEPT !.held = @ \ gone, !.sent = @ \ gone, !.over = {}, !.boot = boot]

\* a new boot id: its open dispatches are sent again, and the jobs it lost
TakeSnapshot ==
  LET m == Head(mail)
      rebooted == state.boot \notin {0, m.boot}
      again == IF rebooted THEN Lost(state, m.jobs) ELSE {}
      open == IF rebooted THEN {r \in Rows \ m.jobs : state.row[r] = "accepted"} ELSE {}
      X == {x \in DOMAIN task : task[x].pc = "status"}
      kept == [KeepHeld(state, m.jobs \cup again, m.boot) EXCEPT !.jobs = m.jobs]
      twice(R) == {<<r, "again">> : r \in R}
  IN  /\ Reading("snapshot")
      /\ Perform("messages", Concluded(kept, X, m.jobs),
           [x \in DOMAIN task |-> IF x \in twice(open) THEN Asked(task, {x}, FALSE)[x]
                                  ELSE IF x \in twice(again) THEN Asked(task, {x}, TRUE)[x]
                                  ELSE Answered(kept, X, m.jobs, FALSE)[x]],
           [i \in 1..Cardinality(open \cup again) |->
              Command("dispatch", Sorted(open \cup again)[i], period)],
           <<>>, FALSE)
      /\ HandlerUnchanged

-----------------------------------------------------------------------------
(* Taking the line over, and losing it                                     *)

\* open rows are read back: a claimed one was accepted, and its arrivals are items
TakeOver ==
  LET claimed == {r \in Rows : db[r].status = "pending" /\ db[r].claimed}
      arrived == {r \in claimed : db[r].item}
      s == [Blank EXCEPT !.held = arrived, !.row = [r \in Rows |->
              IF r \in claimed THEN "accepted" ELSE IF db[r].status = "pending" THEN "waiting" ELSE "unknown"]]
  IN  /\ gateway = "down" /\ gateway' = "reading"
      /\ Perform("events", s, task, <<>>,
                 [i \in 1..Cardinality(arrived) |-> Do("receive", Sorted(arrived)[i])], TRUE)
      /\ UNCHANGED <<db, events, machineVars, spent>>
\* Mutant: nothing is sent once the line is read back.
ReadBackOnly ==
  /\ gateway = "reading" /\ lane["events"] = Idle
  /\ Perform("events", [KeepHeld(state, machine.said.jobs, machine.said.boot) EXCEPT !.jobs = machine.said.jobs],
             task, <<>>, <<>>, TRUE)
  /\ gateway' = IF lane'["events"] = Idle THEN "up" ELSE "sending"
  /\ UNCHANGED <<db, events, machineVars, spent>>
\* the machine's retained snapshot, then every waiting row there is room for
ReadBack ==
  /\ gateway = "reading" /\ lane["events"] = Idle
  /\ Perform("events", [KeepHeld(state, machine.said.jobs, machine.said.boot) EXCEPT !.jobs = machine.said.jobs],
             task, <<>>, <<>>, FALSE)
  /\ gateway' = IF lane'["events"] = Idle THEN "up" ELSE "sending"
  /\ UNCHANGED <<db, events, machineVars, spent>>
Crash ==
  /\ gateway # "down" /\ Spend("crash")
  /\ gateway' = "down" /\ state' = Blank /\ events' = {}
  /\ lane' = [l \in Lanes |-> Idle] /\ task' = [x \in DOMAIN task |-> NoTask]
  /\ UNCHANGED <<db, cmds, machineVars, mail>>

-----------------------------------------------------------------------------
(* The machine                                                             *)

JobsAt(job) == {r \in Rows : job[r] # "none"}
Note(kind, r) == [kind |-> kind, row |-> r]
Snapshot(m) == [kind |-> "snapshot", boot |-> m.boot, jobs |-> JobsAt(m.job)]
Saying(m) == [m EXCEPT !.said = [boot |-> m.boot, jobs |-> JobsAt(m.job)]]
MachineOnly == UNCHANGED <<db, events, leaderVars, period>>

\* one command at a time; a command id it has is answered the same and not run
RunCommand ==
  LET c == Head(cmds)
      before == {e \in machine.ran : e.cmd = c}
      new == before = {}
      queued == machine.job[c.row] = "queued"
      ok == IF new THEN c.of >= period /\ c.row \notin setting.declined /\ machine.job[c.row] # "present"
            ELSE \E e \in before : e.ok
      done(m) == [m EXCEPT !.ran = @ \cup {[cmd |-> c, ok |-> ok]}]
  IN  /\ cmds # <<>> /\ cmds' = Tail(cmds)
      /\ CASE c.op = "dispatch" ->
                /\ machine' = done([machine EXCEPT !.job[c.row] = IF new /\ ok THEN "queued" ELSE @])
                /\ mail' = Append(mail, [kind |-> "reply", row |-> c.row, of |-> c.of, ok |-> ok])
           [] c.op = "cancel" ->
                /\ machine' = done([machine EXCEPT !.job[c.row] = IF new /\ queued THEN "none" ELSE @])
                /\ mail' = IF new /\ queued THEN Append(mail, Note("withdrawn", c.row)) ELSE mail
           [] c.op = "snapshot" ->
                /\ machine' = IF new THEN Saying(done(machine)) ELSE machine
                /\ mail' = IF new THEN Append(mail, Snapshot(machine)) ELSE mail
      /\ MachineOnly /\ UNCHANGED <<setting, spent>>
Arrive(r) ==
  LET wrong == r \in setting.misread \ machine.misread IN
    /\ machine.job[r] = "queued"
    /\ machine' = IF wrong THEN [machine EXCEPT !.misread = @ \cup {r}] ELSE [machine EXCEPT !.job[r] = "present"]
    /\ mail' = Append(mail, Note(IF wrong THEN "misread" ELSE "arrived", r))
    /\ MachineOnly /\ UNCHANGED <<cmds, spent>>
Release(r) ==
  /\ machine.job[r] = "present"
  /\ machine' = [machine EXCEPT !.job[r] = "none"]
  /\ mail' = Append(mail, Note("released", r))
  /\ MachineOnly /\ UNCHANGED <<cmds, spent>>
Beat ==
  /\ Spend("beat")
  /\ machine' = Saying(machine) /\ mail' = Append(mail, Snapshot(machine))
  /\ MachineOnly /\ UNCHANGED cmds
\* queue, station and command memory are lost
Restart ==
  LET fresh == [machine EXCEPT !.job = [r \in Rows |-> "none"], !.ran = {}, !.boot = @ + 1] IN
    /\ Spend("restart")
    /\ machine' = Saying(fresh) /\ mail' = Append(mail, Snapshot(fresh))
    /\ MachineOnly /\ UNCHANGED cmds
EndPeriod ==
  /\ Spend("period") /\ period' = period + 1
  /\ UNCHANGED <<db, events, leaderVars, cmds, machine, mail>>

-----------------------------------------------------------------------------

GatewayStep ==
  /\ UNCHANGED setting
  /\ \/ \E l \in Lanes : VerbLands(l) \/ VerbReturns(l)
     \/ \E r \in Rows, verb \in DOMAIN Fitting : OnEscalation(r, verb)
     \/ TakeReply \/ TakeJob \/ TakeSnapshot
     \/ \E x \in DOMAIN task : TaskClaims(x) \/ TaskFails(x) \/ TaskEnds(x)
Takeover == UNCHANGED setting /\ (TakeOver \/ ReadBack)
HostStep == UNCHANGED setting /\ \E r \in Rows : Park(r) \/ Withdraw(r)
UnitMoves == UNCHANGED setting /\ \E r \in Rows : Arrive(r) \/ Release(r)
FaultStep ==
  /\ UNCHANGED setting
  /\ \/ \E x \in DOMAIN task : ReplyLate(x) \/ StatusLate(x)
     \/ Crash \/ Beat \/ Restart \/ EndPeriod

HandoffNext == GatewayStep \/ Takeover \/ HostStep \/ RunCommand \/ UnitMoves \/ FaultStep
HandoffSpec == HandoffInit /\ [][HandoffNext]_handoffVars
FairHandoffSpec ==
  /\ HandoffSpec
  /\ WF_handoffVars(GatewayStep) /\ WF_handoffVars(Takeover)
  /\ WF_handoffVars(RunCommand) /\ WF_handoffVars(UnitMoves)

-----------------------------------------------------------------------------
(* Properties                                                              *)

\* nothing is on its way between Long Tail, the gateway and the machine
Quiet == gateway = "up" /\ events = {} /\ cmds = <<>> /\ mail = <<>>
         /\ lane = [l \in Lanes |-> Idle] /\ \A x \in DOMAIN task : task[x].pc = "idle"
Never(faults) == \A f \in faults : spent[f] = 0
Stray(r) == machine.job[r] = "queued" /\ db[r].status # "pending"

\* The variables keep their types, and no dispatch is asked for more often than
\* dispatchAttempts (dispatcher.ts).
HandoffTypeOK ==
  /\ setting \in Settings
  /\ db \in [Rows -> [status : Statuses, claimed : BOOLEAN, item : BOOLEAN]]
  /\ events \subseteq Rows \X DOMAIN Fitting
  /\ gateway \in {"down", "reading", "sending", "up"}
  /\ state.row \in [Rows -> Dispatches]
  /\ state.held \cup state.sent \cup state.over \cup state.jobs \subseteq Rows
  /\ \A l \in Lanes : lane[l].pc \in {"idle", "acting", "pacing"}
  /\ \A x \in DOMAIN task :
       task[x].pc \in {"idle", "reply", "status", "claim", "fail", "failed"} /\ task[x].attempt \in 0..setting.attempts
  /\ machine.job \in [Rows -> {"none", "queued", "present"}]

\* A dispatch whose row ended does not stay queued at the machine: whoever ends
\* the row, the gateway cancels the job (plan-shared.ts, dispatcher.ts).  Where
\* answers are late, the cancel is missing for a row that was withdrawn, or that
\* a misread unit failed, while its own failure was being reported; and it is
\* sent too early for a row withdrawn while its dispatch waits behind a refusal.
NoStrayJob == Quiet /\ Never({"crash", "restart"}) => \A r \in Rows : Stray(r) =>
  \/ ~Never({"timeout"}) /\ (db[r].status = "withdrawn" \/ r \in machine.misread)
  \/ setting.unfit # {} /\ db[r].status = "withdrawn"

\* Of rows that were not withdrawn or failed, a machine never has more units than
\* its queueDepth, dispatched and present together (pacing.ts), however events,
\* replies and arrivals interleave.
OpenDepthKept == Never({"crash", "timeout", "restart"}) =>
  Cardinality({r \in Rows : machine.job[r] # "none" /\ db[r].status \in {"pending", "received"}}) <= setting.depth

\* When nothing is under way the gateway holds open exactly the rows that are
\* pending, through takeovers too: none waits that nobody will dispatch or end,
\* and no ended one takes up room (gateway.ts resync, onEscalation).
NoneForgotten == Quiet /\ (Never({"restart"}) \/ Never({"timeout"})) => \A r \in Rows :
  db[r].status = "pending" <=> IsOpen(state, r)

\* When nothing is under way the gateway's picture of the machine is right: a
\* unit it counts as present is there, and a job it counts as accepted is queued,
\* over retries, restarts and takeovers (state.ts, plan-machine.ts).
AcceptedIsThere == Quiet => \A r \in Rows :
  /\ r \in state.held /\ Never({"restart"}) => machine.job[r] = "present"
  /\ state.row[r] = "accepted" /\ (Never({"crash"}) \/ Never({"restart"})) => machine.job[r] = "queued"

\* Every row parked on the machine ends, or is received, as long as gateway and
\* machine run on after what went wrong.  A machine that restarts while a gateway
\* gives up on it, or while none is up, leaves rows nobody ends.
RebootHidden == ~Never({"restart"}) /\ ~Never({"timeout", "crash"})
EveryHandoffEnds == []<>(RebootHidden \/ \A r \in Rows : db[r].status # "pending")
=============================================================================
