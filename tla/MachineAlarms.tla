--------------------------- MODULE MachineAlarms ---------------------------
(***************************************************************************)
(* The rows a line's gateway raises for people on one machine's account    *)
(* (services/machines/gateway): a row per raise of an alarm, and a row     *)
(* while the machine is offline.  The codec retains active alarms on the   *)
(* broker, as it retains presence.                                         *)
(*                                                                         *)
(* Machine messages are handled one at a time, escalation events one at a  *)
(* time, the offline debounce runs detached; they interleave where they    *)
(* wait for Long Tail.  A handler plans from the gateway's state in one    *)
(* step and then performs its verbs one by one; the answer of a creation   *)
(* comes a step after its row.                                             *)
(***************************************************************************)
EXTENDS Naturals, Sequences, FiniteSets

CONSTANT Settings  \* what a behaviour has, of Setting below

Buses == {"mqtt", "stream"}

\* The bus; how often the machine raises the alarm and drops off; how often the
\* line is handed over or its leader dies; how many verbs fail for real (5xx).
Setting == [bus : Buses, raises : Nat, drops : Nat, takeovers : Nat, failures : Nat]

ASSUME AlarmAssumption == Settings \subseteq Setting

VARIABLES
  setting, \* the setting of this behaviour
  machine, \* the raise that is active (0: none), the raises and drops so far, its link
  mail,    \* its messages, in order, that no gateway has taken
  late,    \* messages that come again after later ones
  rows,    \* the rows raised, in order
  feed,    \* escalation events the gateway has yet to hear
  gateway, \* "down", "restored", "reading", "up" or "stopping"
  state,   \* GatewayState: the alarm and the link it tracks, timers, retained messages to apply
  lane,    \* the message at hand and the verbs left of it
  heard,   \* the event at hand, its row read back
  raiser,  \* the creation of an offline row
  acks,    \* the rows for which the machine was sent ack-alarm
  spent,   \* handovers and failures so far
  spoilt   \* what the liveness properties except: "failed", "reordered"

leaderVars == <<feed, gateway, state, lane, heard, raiser>>
vars == <<setting, machine, mail, late, rows, leaderVars, acks, spent, spoilt>>

NoTrack == [raise |-> 0, row |-> 0, open |-> FALSE]
Fresh == [alarm |-> NoTrack, online |-> TRUE, watching |-> FALSE, link |-> 0, timers |-> 0, read |-> <<>>]
Message(kind, n) == [kind |-> kind, n |-> n]
NoMessage == Message("none", 0)
\* `live`: the executor was not stopped when the head of `todo` was called.
IdleLane == [msg |-> NoMessage, todo |-> <<>>, live |-> TRUE]
IdleRaiser == [pc |-> "idle", row |-> 0]
NoEvent == [row |-> 0, verb |-> "none"]

Init ==
  /\ setting \in Settings
  /\ machine = [raise |-> 0, raises |-> 0, online |-> TRUE, drops |-> 0]
  /\ mail = <<>> /\ late = {} /\ rows = <<>> /\ feed = <<>>
  /\ gateway = "up" /\ state = Fresh /\ lane = IdleLane /\ heard = NoEvent /\ raiser = IdleRaiser
  /\ acks = {} /\ spoilt = {}
  /\ spent = [takeovers |-> 0, failures |-> 0]
-----------------------------------------------------------------------------
(* Rows in Long Tail.  The feed replays nothing: an event no gateway hears   *)
(* is gone.                                                                  *)

Emit(r, verb) == feed' = IF gateway = "up" THEN Append(feed, [row |-> r, verb |-> verb]) ELSE feed

Insert(kind, n) ==
  /\ rows' = Append(rows, [kind |-> kind, of |-> n, status |-> "pending", by |-> "nobody", held |-> FALSE, at |-> 0])
  /\ Emit(Len(rows) + 1, "created")

\* the controller resolves a row; one that has ended, or that a person has
\* claimed (409), is left alone
Free(r) == rows[r].status = "pending" /\ ~rows[r].held
Close(r) ==
  IF Free(r)
  THEN rows' = [rows EXCEPT ![r].status = "resolved", ![r].by = "controller"] /\ Emit(r, "resolved")
  ELSE UNCHANGED <<rows, feed>>

\* somebody claims, resolves or cancels a row
Claim(r) ==
  /\ Free(r)
  /\ rows' = [rows EXCEPT ![r].held = TRUE]
  /\ UNCHANGED <<setting, machine, mail, late, leaderVars, acks, spent, spoilt>>
Answer(r, status) ==
  /\ rows[r].status = "pending"
  /\ rows' = [rows EXCEPT ![r].status = status, ![r].by = "person", ![r].at = machine.drops]
  /\ Emit(r, status)
  /\ UNCHANGED <<setting, machine, mail, late, gateway, state, lane, heard, raiser, acks, spent, spoilt>>
-----------------------------------------------------------------------------
(* The machine: its messages are queued, its last state stays retained       *)

Tell(m, kind, n) ==
  /\ machine' = m /\ mail' = Append(mail, Message(kind, n))
  /\ UNCHANGED <<setting, late, rows, leaderVars, acks, spent, spoilt>>

Raise ==
  /\ machine.online /\ machine.raises < setting.raises
  /\ LET n == machine.raises + 1 IN Tell([machine EXCEPT !.raise = n, !.raises = n], "raise", n)
Clear ==
  /\ machine.online /\ machine.raise # 0
  /\ Tell([machine EXCEPT !.raise = 0], "clear", machine.raise)
\* Bound: a machine drops off again only once its last drop was dealt with, and not
\* while a new leader reads the line back.
Settled ==
  /\ gateway \notin {"restored", "reading"}
  /\ mail = <<>> /\ lane = IdleLane /\ feed = <<>> /\ heard = NoEvent
  /\ state.timers = 0 /\ raiser = IdleRaiser
DropOff ==
  /\ machine.online /\ machine.drops < setting.drops /\ (machine.drops = 0 \/ Settled)
  /\ LET d == machine.drops + 1 IN Tell([machine EXCEPT !.online = FALSE, !.drops = d], "off", d)
ComeBack ==
  /\ ~machine.online
  /\ Tell([machine EXCEPT !.online = TRUE], "on", machine.drops)
-----------------------------------------------------------------------------
(* Plans: what a message means for the gateway's state, and the verbs it asks *)

Do(what, x) == [do |-> what, of |-> x]
Plan(s, todo) == [state |-> s, todo |-> todo]
EndOf(track) == IF track.open /\ track.row # 0 THEN <<Do("resolve", track.row)>> ELSE <<>>

\* Variant: a new raise leaves the row of the last one alone.
RaisedOver(s, n) ==
  IF s.alarm.raise = n THEN Plan(s, <<>>)
  ELSE Plan([s EXCEPT !.alarm = [raise |-> n, row |-> 0, open |-> TRUE]], <<Do("create", n)>>)
Raised(s, n) ==
  IF s.alarm.raise = n THEN Plan(s, <<>>)
  ELSE Plan([s EXCEPT !.alarm = [raise |-> n, row |-> 0, open |-> TRUE]],
            Append(EndOf(s.alarm), Do("create", n)))

\* Variant: the track is kept until the row has ended.
ClearedKeeping(s) == Plan(s, EndOf(s.alarm))
Cleared(s) == Plan([s EXCEPT !.alarm = NoTrack], EndOf(s.alarm))

WentOff(s) ==
  LET off == [s EXCEPT !.online = FALSE] IN
  IF s.link # 0 \/ s.watching THEN Plan(off, <<>>)
  ELSE Plan([off EXCEPT !.watching = TRUE, !.timers = @ + 1], <<>>)

CameBack(s) ==
  Plan([s EXCEPT !.online = TRUE, !.watching = FALSE, !.link = 0],
       IF s.link # 0 THEN <<Do("resolve", s.link)>> ELSE <<>>)

\* "absent": the retained messages hold no active alarm
Planned(s, m) ==
  CASE m.kind = "raise" -> Raised(s, m.n)
    [] m.kind \in {"clear", "absent"} -> Cleared(s)
    [] m.kind = "off" -> WentOff(s)
    [] m.kind = "on" -> CameBack(s)
-----------------------------------------------------------------------------
(* The message lane                                                          *)

Begin(m, s) ==
  LET plan == Planned(s, m) IN
  /\ state' = plan.state
  /\ lane' = IF plan.todo = <<>> THEN IdleLane
             ELSE [msg |-> m, todo |-> plan.todo, live |-> TRUE]

Take ==
  /\ gateway = "up" /\ lane = IdleLane
  /\ \/ /\ mail # <<>> /\ Begin(Head(mail), state)
        /\ mail' = Tail(mail) /\ UNCHANGED late
     \/ \E m \in late : Begin(m, state) /\ late' = late \ {m} /\ UNCHANGED mail
  /\ UNCHANGED <<setting, machine, rows, feed, gateway, heard, raiser, acks, spent, spoilt>>

GoOn(todo) ==
  lane' = IF todo = <<>> THEN IdleLane ELSE [lane EXCEPT !.todo = todo, !.live = gateway # "stopping"]

\* On every bus messages are handled one at a time, so a new row's raise is still
\* the one tracked and the row is always adopted.
Perform ==
  LET a == Head(lane.todo)
      more == Tail(lane.todo)
  IN
  /\ lane.todo # <<>>
  /\ \/ /\ a.do = "resolve" /\ Close(a.of) /\ GoOn(more) /\ UNCHANGED state
     \/ /\ a.do = "create" /\ lane.live /\ Insert("alarm", a.of)
        /\ GoOn(<<Do("adopt", Len(rows) + 1)>> \o more) /\ UNCHANGED state
     \/ /\ a.do = "adopt" /\ state' = [state EXCEPT !.alarm.row = a.of]
        /\ GoOn(more) /\ UNCHANGED <<rows, feed>>
  /\ UNCHANGED <<setting, machine, mail, late, gateway, heard, raiser, acks, spent, spoilt>>

\* The message is not done: it is delivered again after a delay, and later ones
\* may be handled before.  A plain MQTT session redelivers in this process only,
\* and a message read back is not delivered at all.
Nak ==
  /\ late' = IF gateway = "reading" \/ (gateway = "stopping" /\ setting.bus = "mqtt") THEN late
             ELSE late \union {lane.msg}
  /\ lane' = IdleLane
  /\ UNCHANGED <<setting, machine, mail, rows, feed, heard, raiser, acks>>

Refuse ==
  /\ lane.todo # <<>> /\ Head(lane.todo).do = "create" /\ ~lane.live
  /\ Nak
  /\ spoilt' = IF setting.bus = "stream" THEN spoilt \union {"reordered"} ELSE spoilt
  /\ UNCHANGED <<gateway, state, spent>>

Failing ==
  /\ spent.failures < setting.failures
  /\ spent' = [spent EXCEPT !.failures = @ + 1]
  /\ spoilt' = spoilt \union {"failed"}

\* a verb throws: a failed resolve of what the retained messages no longer hold
\* ends the start, every other failure its message (bound: no start ends while
\* an offline row is being raised)
Fail ==
  /\ lane.todo # <<>> /\ Head(lane.todo).do \in {"resolve", "create"}
  /\ Failing /\ Nak
  /\ IF lane.msg.kind = "absent"
     THEN raiser = IdleRaiser /\ gateway' = "down" /\ state' = Fresh
     ELSE UNCHANGED <<gateway, state>>
-----------------------------------------------------------------------------
(* The event lane                                                            *)

StatusFor == [created |-> "pending", resolved |-> "resolved", cancelled |-> "cancelled"]

\* an event only says which row to look at
Hear ==
  /\ gateway = "up" /\ heard = NoEvent /\ feed # <<>>
  /\ heard' = IF rows[Head(feed).row].status = StatusFor[Head(feed).verb] THEN Head(feed) ELSE NoEvent
  /\ feed' = Tail(feed)
  /\ UNCHANGED <<setting, machine, mail, late, rows, gateway, state, lane, raiser, acks, spent, spoilt>>

\* Variant: a row for any raise is taken for the tracked one.
BelongsAnyway(r) == state.alarm.row = 0
Belongs(r) == state.alarm.row = 0 /\ state.alarm.raise = rows[r].of

HeedAlarm(r, verb) ==
  LET mine == state.alarm.row = r IN
  /\ state' = [state EXCEPT !.alarm =
       IF verb = "created" THEN (IF Belongs(r) THEN [@ EXCEPT !.row = r] ELSE @)
       ELSE IF mine THEN [@ EXCEPT !.open = FALSE] ELSE @]
  /\ acks' = IF verb = "resolved" /\ mine THEN acks \union {r} ELSE acks

HeedLink(r, verb) ==
  /\ state' = [state EXCEPT !.link =
       IF verb = "created" THEN r ELSE IF @ = r THEN 0 ELSE @]
  /\ UNCHANGED acks

Heed ==
  /\ heard # NoEvent
  /\ IF rows[heard.row].kind = "alarm" THEN HeedAlarm(heard.row, heard.verb) ELSE HeedLink(heard.row, heard.verb)
  /\ heard' = NoEvent
  /\ UNCHANGED <<setting, machine, mail, late, rows, feed, gateway, lane, raiser, spent, spoilt>>
-----------------------------------------------------------------------------
(* The offline debounce.  Bound: no timer fires while a creation is out, or    *)
(* while a row is being read back for an event.                              *)

Fires ==
  /\ state.timers > 0 /\ raiser = IdleRaiser /\ heard = NoEvent
  /\ state' = [state EXCEPT !.timers = @ - 1, !.watching = FALSE]
  /\ raiser' = IF state.online \/ state.link # 0 THEN IdleRaiser ELSE [pc |-> "create", row |-> 0]
  /\ UNCHANGED <<setting, machine, mail, late, rows, feed, gateway, lane, heard, acks, spent, spoilt>>

RaiseOffline ==
  /\ \/ /\ raiser.pc = "create" /\ Insert("offline", 0)
        /\ raiser' = [pc |-> "adopt", row |-> Len(rows) + 1] /\ UNCHANGED state
     \/ /\ raiser.pc = "adopt" /\ ~state.online
        /\ state' = [state EXCEPT !.link = raiser.row]
        /\ raiser' = IdleRaiser /\ UNCHANGED <<rows, feed>>
     \/ /\ raiser.pc = "adopt" /\ state.online
        /\ raiser' = [raiser EXCEPT !.pc = "restore"] /\ UNCHANGED <<state, rows, feed>>
     \/ /\ raiser.pc = "restore" /\ Close(raiser.row)
        /\ raiser' = IdleRaiser /\ UNCHANGED state
  /\ UNCHANGED <<setting, machine, mail, late, gateway, lane, heard, acks, spent, spoilt>>

FailOffline ==
  /\ raiser.pc \in {"create", "restore"} /\ Failing
  /\ raiser' = IdleRaiser
  /\ UNCHANGED <<setting, machine, mail, late, rows, feed, gateway, state, lane, heard, acks>>
-----------------------------------------------------------------------------
(* Taking the line, handing it over, losing it                               *)

Newest(kind) ==
  LET open == {r \in DOMAIN rows : rows[r].kind = kind /\ rows[r].status = "pending"} IN
  IF open = {} THEN 0 ELSE CHOOSE r \in open : \A o \in open : o <= r

\* Variant: alarm rows are not read back.
RestoredWithout == Fresh
\* restoreLineRows: the last open row of each kind
Restored ==
  LET a == Newest("alarm") o == Newest("offline") IN
  [Fresh EXCEPT !.alarm = IF a = 0 THEN NoTrack ELSE [raise |-> rows[a].of, row |-> a, open |-> TRUE],
                !.online = o = 0, !.link = o]

TakeOver ==
  /\ gateway = "down"
  /\ gateway' = "restored" /\ state' = Restored
  /\ UNCHANGED <<setting, machine, mail, late, rows, feed, lane, heard, raiser, acks, spent, spoilt>>

Presence == Message(IF machine.online THEN "on" ELSE "off", machine.drops)
\* Variant: only presence is read back.
RetainedPresence == <<Presence>>
Retained ==
  <<IF machine.raise # 0 THEN Message("raise", machine.raise) ELSE Message("absent", 0), Presence>>

ReadRetained ==
  /\ gateway = "restored"
  /\ gateway' = "reading" /\ state' = [state EXCEPT !.read = Retained]
  /\ UNCHANGED <<setting, machine, mail, late, rows, feed, lane, heard, raiser, acks, spent, spoilt>>

Resync ==
  /\ gateway = "reading" /\ lane = IdleLane
  /\ IF state.read # <<>>
     THEN Begin(Head(state.read), [state EXCEPT !.read = Tail(@)]) /\ UNCHANGED gateway
     ELSE gateway' = "up" /\ UNCHANGED <<state, lane>>
  /\ UNCHANGED <<setting, machine, mail, late, rows, feed, heard, raiser, acks, spent, spoilt>>

\* What the process had received goes with it: a plain MQTT session had confirmed
\* it, a stream delivers it again once its wait is over, after newer messages.
Leave(k, holding) ==
  LET had == {mail[i] : i \in 1..k} \union (IF holding THEN {lane.msg} ELSE {}) IN
  /\ gateway' = "down" /\ state' = Fresh /\ lane' = IdleLane
  /\ feed' = <<>> /\ heard' = NoEvent /\ raiser' = IdleRaiser
  /\ mail' = SubSeq(mail, k + 1, Len(mail))
  /\ late' = IF setting.bus = "mqtt" THEN {} ELSE late \union had
  /\ spoilt' = IF setting.bus = "stream" /\ had # {} THEN spoilt \union {"reordered"} ELSE spoilt
  /\ UNCHANGED <<setting, machine, rows, acks>>

Handover ==
  /\ spent.takeovers < setting.takeovers
  /\ spent' = [spent EXCEPT !.takeovers = @ + 1]

Crash ==
  /\ gateway # "down" /\ Handover
  /\ \E k \in 0..Len(mail) : Leave(k, lane # IdleLane /\ gateway \in {"up", "stopping"})

\* stop(): timers are cleared and no event or message is taken any more
Stop ==
  /\ gateway = "up" /\ Handover
  /\ gateway' = "stopping" /\ state' = [state EXCEPT !.timers = 0] /\ feed' = <<>>
  /\ raiser' = raiser
  /\ UNCHANGED <<setting, machine, mail, late, rows, lane, heard, acks, spoilt>>
Stopped ==
  /\ gateway = "stopping" /\ lane = IdleLane /\ heard = NoEvent /\ raiser = IdleRaiser
  /\ \E k \in 0..Len(mail) : Leave(k, FALSE)
  /\ UNCHANGED spent
-----------------------------------------------------------------------------
Machine == Raise \/ Clear \/ DropOff \/ ComeBack
People == \E r \in DOMAIN rows : Claim(r) \/ \E status \in {"resolved", "cancelled"} : Answer(r, status)
MessageLane == Take \/ Perform \/ Refuse
EventLane == Hear \/ Heed
Debounce == Fires \/ RaiseOffline
Lead == TakeOver \/ ReadRetained \/ Resync \/ Stopped

Next ==
  \/ Machine \/ People
  \/ MessageLane \/ Fail \/ EventLane \/ Debounce \/ FailOffline
  \/ Lead \/ Crash \/ Stop

Spec == Init /\ [][Next]_vars

\* A replica takes the line, and its lanes and timers run on.
FairSpec ==
  /\ Spec
  /\ WF_vars(MessageLane) /\ WF_vars(EventLane) /\ WF_vars(Debounce) /\ WF_vars(Lead)
-----------------------------------------------------------------------------
(* Properties *)

Row == [kind : {"alarm", "offline"}, of : Nat, status : {"pending", "resolved", "cancelled"},
        by : {"nobody", "controller", "person"}, held : BOOLEAN, at : Nat]

\* Types; a row is tracked for a raise only, and what is at hand is there.
AlarmTypeOK ==
  /\ rows \in Seq(Row)
  /\ gateway \in {"down", "restored", "reading", "up", "stopping"}
  /\ state.alarm \in [raise : Nat, row : 0..Len(rows), open : BOOLEAN]
  /\ state.alarm.row # 0 => state.alarm.raise = rows[state.alarm.row].of
  /\ state.link \in 0..Len(rows) /\ state.timers \in Nat
  /\ heard.row \in 0..Len(rows) /\ raiser.row \in 0..Len(rows)
  /\ gateway = "down" => state = Fresh /\ lane = IdleLane /\ feed = <<>>

Waits(r) == rows[r].status = "pending"
Answered(r) == rows[r].by = "person"

\* What a person should find: a row for the active raise, or one that was answered;
\* and a row while the machine is offline, or one that was answered since it dropped.
AlarmShown == machine.raise # 0 =>
  \E r \in DOMAIN rows : rows[r].kind = "alarm" /\ rows[r].of = machine.raise /\ (Waits(r) \/ Answered(r))
DropShown == ~machine.online =>
  \E r \in DOMAIN rows : rows[r].kind = "offline" /\ (Waits(r) \/ (Answered(r) /\ rows[r].at = machine.drops))

\* However the line changes hands and whatever a person claims or answers meanwhile,
\* an alarm that stays raised and a machine that stays away end up with their row,
\* and keep it (docs/machines.md, "Rows for people"), unless a verb failed for real
\* or a stream delivered a message after newer ones.
TroubleIsShown == <>[](spoilt # {} \/ (AlarmShown /\ DropShown))

\* lt-http.ts:4-6 lets a real failure throw, "so the message that caused it is
\* delivered again" (and gateway.ts:298, "A failed verb always retries."): a raise
\* whose row could not be created gets its row in the end.
RaiseIsRetried == <>[]("reordered" \in spoilt \/ AlarmShown)

\* A row is not left behind: once an alarm has cleared or was raised anew, and once
\* the machine is back, its row ends, unless a person holds it.
NothingLeftOver == <>[](spoilt # {} \/ \A r \in DOMAIN rows :
  Free(r) => IF rows[r].kind = "alarm" THEN machine.raise = rows[r].of ELSE ~machine.online)

\* The machine is told that an alarm was acknowledged for a row a person resolved
\* only; rows the gateway itself ends acknowledge nothing (plan-escalation.ts:192).
AcksArePeoples == \A r \in acks : rows[r].kind = "alarm" /\ Answered(r)

\* No raise waits in two rows that nobody holds, whatever is delivered again and
\* however often the line changes hands, or whatever fails under one leader.  (A
\* resolve that fails under a later leader leaves a row that nobody tracks, and a
\* raise delivered again then gets another.)
OneRowPerRaise == "failed" \notin spoilt \/ spent.takeovers = 0 =>
  \A r, o \in DOMAIN rows :
    r # o /\ rows[r].kind = "alarm" /\ rows[o].kind = "alarm" /\ Free(r) /\ Free(o)
      => rows[r].of # rows[o].of
=============================================================================
