------------------------ MODULE MachineAlarmsProofs ------------------------
(***************************************************************************)
(* For any number of raises, drops, handovers and failures: the types,     *)
(* that the machine is told of acknowledgements by people only, and that   *)
(* no raise waits in two free rows.                                        *)
(***************************************************************************)
EXTENDS MachineAlarms, SequenceTheorems, WellFoundedInduction, TLAPS

-----------------------------------------------------------------------------
(* What is known of messages, rows, the gateway and its lanes               *)

\* What the machine sends, and what the gateway reads back of it.
Mails == [kind : {"raise", "clear", "off", "on"}, n : Nat]
Messages == [kind : {"raise", "clear", "off", "on", "absent"}, n : Nat]
Verbs == {"created", "resolved", "cancelled"}
Events == [row : Nat, verb : Verbs]
Steps == [do : {"resolve", "create", "adopt"}, of : Nat]
Track == [raise : Nat, row : Nat, open : BOOLEAN]

\* A raise is one that was made.
Known(m) == m.kind = "raise" => 1 <= m.n /\ m.n <= machine.raises
Mailed == {mail[i] : i \in DOMAIN mail}
Read == {state.read[i] : i \in DOMAIN state.read}
Alarms == {r \in DOMAIN rows : rows[r].kind = "alarm"}
Offlines == {r \in DOMAIN rows : rows[r].kind = "offline"}

MachineOK ==
  /\ setting \in Setting
  /\ machine \in [raise : Nat, raises : Nat, online : BOOLEAN, drops : Nat]
  /\ machine.raise <= machine.raises
  /\ spent \in [takeovers : Nat, failures : Nat]

MailOK ==
  /\ mail \in Seq(Mails) /\ late \subseteq Mails
  /\ \A m \in Mailed \union late : Known(m)

\* Who ended a row is known; a row for an alarm is for a raise that was made.
RowsOK ==
  /\ rows \in Seq(Row)
  /\ \A r \in DOMAIN rows : rows[r].status = "pending" <=> rows[r].by = "nobody"
  /\ \A r \in Alarms : 1 <= rows[r].of /\ rows[r].of <= machine.raises

FeedOK ==
  /\ feed \in Seq(Events)
  /\ \A i \in DOMAIN feed : feed[i].row \in DOMAIN rows
  /\ heard = NoEvent \/ (heard \in Events /\ heard.row \in DOMAIN rows)
  /\ heard.verb \in {"resolved", "cancelled"} => rows[heard.row].status = heard.verb

\* The lane is idle, or at one of the plans of a message.
Making == lane.todo # <<>> /\ lane.todo[Len(lane.todo)].do = "create"
Ends(r) == lane.todo # <<>> /\ lane.todo[1] = Do("resolve", r)
Adopting(r) == lane.todo = <<Do("adopt", r)>>
LaneOK ==
  \/ lane = IdleLane
  \/ /\ lane \in [msg : Messages, todo : Seq(Steps), live : BOOLEAN] /\ Known(lane.msg)
     /\ lane.msg.kind = "absent" => gateway = "reading"
     /\ \/ \E r \in DOMAIN rows : lane.todo = <<Do("resolve", r)>> /\ lane.msg.kind # "raise"
        \/ /\ lane.msg.kind = "raise"
           /\ \/ lane.todo = <<Do("create", lane.msg.n)>>
              \/ \E r \in Alarms : lane.todo = <<Do("resolve", r), Do("create", lane.msg.n)>>
              \/ \E r \in Alarms : lane.todo = <<Do("adopt", r)>> /\ rows[r].of = lane.msg.n

RaiserOK ==
  /\ raiser \in [pc : {"idle", "create", "adopt", "restore"}, row : Nat]
  /\ IF raiser.pc \in {"adopt", "restore"} THEN raiser.row \in Offlines ELSE raiser.row = 0

GatewayOK ==
  /\ gateway \in {"down", "restored", "reading", "up", "stopping"}
  /\ gateway # "up" => feed = <<>>
  /\ gateway \in {"down", "restored", "reading"} => heard = NoEvent
  /\ gateway = "restored" => lane = IdleLane
  /\ gateway = "down" => state = Fresh /\ lane = IdleLane /\ raiser = IdleRaiser

\* The controller never ended the row that is tracked, and it does not end it while
\* it is: what the lane is about to end is the row of another raise.
TrackOK ==
  /\ state \in [alarm : Track, online : BOOLEAN, watching : BOOLEAN, link : Nat, timers : Nat, read : Seq(Messages)]
  /\ \A m \in Read : Known(m)
  /\ state.alarm.row # 0 =>
       state.alarm.row \in Alarms /\ rows[state.alarm.row].of = state.alarm.raise
         /\ rows[state.alarm.row].by # "controller"
  /\ state.link # 0 => state.link \in Offlines
  /\ Making => state.alarm = [raise |-> lane.msg.n, row |-> 0, open |-> TRUE]
  /\ \A r \in Alarms : Ends(r) => state.alarm.raise # rows[r].of
  /\ \A r \in Alarms : Adopting(r) =>
       /\ state.alarm.raise = lane.msg.n /\ rows[r].by # "controller"
       /\ \/ state.alarm.row = 0 /\ state.alarm.open
          \/ state.alarm.row = r /\ (state.alarm.open \/ ~Free(r))

AcksOK == \A r \in acks : r \in Alarms /\ rows[r].by = "person"

\* A raise is in one place at a time: queued, to come again, or at hand.
RaiseMessage(n) == Message("raise", n)
Holding == lane # IdleLane /\ gateway \in {"up", "stopping"}
Once ==
  /\ \A i, j \in DOMAIN mail : mail[i].kind = "raise" /\ mail[i] = mail[j] => i = j
  /\ \A m \in Mailed : m.kind = "raise" => m \notin late
  /\ \A m \in Mailed \union late : m.kind = "raise" /\ Holding => lane.msg # m

\* While the creation of an alarm's row is still to be heard of, its message does not
\* come again, and the row is the one that is adopted.
Announced(r) ==
  \/ heard = [row |-> r, verb |-> "created"]
  \/ \E i \in DOMAIN feed : feed[i] = [row |-> r, verb |-> "created"]
AnnouncedOK == \A r \in Alarms : Announced(r) =>
  /\ RaiseMessage(rows[r].of) \notin Mailed \union late
  /\ lane.msg = RaiseMessage(rows[r].of) => Adopting(r)
  /\ state.alarm.raise = rows[r].of /\ state.alarm.row = 0 => Adopting(r)

AlarmInv ==
  /\ MachineOK /\ MailOK /\ RowsOK /\ FeedOK /\ LaneOK /\ RaiserOK /\ GatewayOK
  /\ TrackOK /\ AcksOK /\ Once /\ AnnouncedOK

\* Under one leader a raise is told once, so it gets one row.
OneLeader == spent.takeovers = 0 =>
  /\ gateway = "up"
  /\ \A r \in Alarms : RaiseMessage(rows[r].of) \notin Mailed \union late /\ (Making => lane.msg.n # rows[r].of)
  /\ \A r, o \in Alarms : rows[r].of = rows[o].of => r = o

\* While no verb fails, only the last row can be free, and the gateway tracks it,
\* is about to end it, or is about to adopt it.
NoneFailed == "failed" \notin spoilt =>
  /\ \A r, o \in Alarms : r < o => ~Free(r)
  /\ gateway # "down" => \A r \in Alarms : Free(r) =>
       \/ state.alarm.row = r /\ state.alarm.open /\ ~Making
       \/ Ends(r)
       \/ Adopting(r)
-----------------------------------------------------------------------------
(* Types                                                                    *)

LEMMA TypesFollow == AlarmInv => AlarmTypeOK
<1> SUFFICES ASSUME AlarmInv PROVE AlarmTypeOK
  OBVIOUS
<1>1. Len(rows) \in Nat /\ DOMAIN rows = 1..Len(rows)
  BY LenProperties DEF AlarmInv, RowsOK
<1>2. state.alarm \in [raise : Nat, row : 0..Len(rows), open : BOOLEAN]
  <2>1. state.alarm \in Track /\ (state.alarm.row # 0 => state.alarm.row \in DOMAIN rows)
    BY DEF AlarmInv, TrackOK, Alarms
  <2>2. state.alarm.row \in 0..Len(rows)
    BY <1>1, <2>1 DEF Track
  <2> QED BY <2>1, <2>2 DEF Track
<1>3. state.link \in 0..Len(rows) /\ state.timers \in Nat
  BY <1>1 DEF AlarmInv, TrackOK, Offlines
<1>4. heard.row \in 0..Len(rows) /\ raiser.row \in 0..Len(rows)
  BY <1>1 DEF AlarmInv, FeedOK, RaiserOK, NoEvent, Offlines
<1> QED BY <1>2, <1>3, <1>4 DEF AlarmInv, AlarmTypeOK, RowsOK, GatewayOK, TrackOK

LEMMA InitAlarms == Init => AlarmInv /\ OneLeader /\ NoneFailed
<1> SUFFICES ASSUME Init PROVE AlarmInv /\ OneLeader /\ NoneFailed
  OBVIOUS
<1>1. /\ mail = <<>> /\ rows = <<>> /\ feed = <<>> /\ late = {} /\ state.read = <<>>
      /\ Mailed = {} /\ Alarms = {} /\ Offlines = {} /\ Read = {}
  BY DEF Init, Fresh, Mailed, Alarms, Offlines, Read
<1>2. MachineOK
  BY AlarmAssumption DEF Init, MachineOK
<1>3. MailOK /\ RowsOK /\ Once
  BY <1>1 DEF MailOK, RowsOK, Once, Init
<1>4. FeedOK /\ LaneOK /\ RaiserOK /\ GatewayOK /\ AcksOK
  BY <1>1 DEF Init, FeedOK, LaneOK, RaiserOK, GatewayOK, AcksOK, IdleRaiser, NoEvent
<1>5. ~Making
  BY DEF Init, IdleLane, Making
<1>6. TrackOK
  <2>1. state = Fresh
    BY DEF Init
  <2> QED BY <1>1, <1>5, <2>1 DEF TrackOK, Fresh, NoTrack, Track
<1>7. AnnouncedOK /\ OneLeader /\ NoneFailed
  BY <1>1 DEF AnnouncedOK, OneLeader, NoneFailed, Init
<1> QED BY <1>2, <1>3, <1>4, <1>6, <1>7 DEF AlarmInv

-----------------------------------------------------------------------------
(* What the parts of a step do                                              *)

\* Rows are added; one that has ended stays as it is, and none becomes free.
Grows ==
  /\ rows' \in Seq(Row)
  /\ \A r \in DOMAIN rows :
       /\ r \in DOMAIN rows' /\ rows'[r].kind = rows[r].kind /\ rows'[r].of = rows[r].of
       /\ rows[r].status # "pending" => rows'[r] = rows[r]
       /\ Free(r)' => Free(r)

LEMMA RowInserted ==
  ASSUME RowsOK, NEW kind \in {"alarm", "offline"}, NEW n \in Nat, Insert(kind, n), machine' = machine,
         kind = "alarm" => 1 <= n /\ n <= machine.raises
  PROVE  LET new == Len(rows) + 1 IN
         /\ RowsOK' /\ Grows
         /\ new \in Nat \ {0} /\ new \notin DOMAIN rows /\ DOMAIN rows' = DOMAIN rows \union {new}
         /\ \A r \in DOMAIN rows : r < new
         /\ \A r \in DOMAIN rows : rows'[r] = rows[r]
         /\ rows'[new] = [kind |-> kind, of |-> n, status |-> "pending", by |-> "nobody", held |-> FALSE, at |-> 0]
         /\ Alarms' = IF kind = "alarm" THEN Alarms \union {new} ELSE Alarms
         /\ Offlines' = IF kind = "offline" THEN Offlines \union {new} ELSE Offlines
<1> DEFINE new == Len(rows) + 1
           row == [kind |-> kind, of |-> n, status |-> "pending", by |-> "nobody", held |-> FALSE, at |-> 0]
<1>1. rows \in Seq(Row) /\ row \in Row /\ rows' = Append(rows, row)
  BY DEF RowsOK, Row, Insert
<1>2. /\ rows' \in Seq(Row) /\ Len(rows) \in Nat /\ DOMAIN rows = 1..Len(rows) /\ DOMAIN rows' = 1..new
      /\ rows'[new] = row /\ \A r \in DOMAIN rows : rows'[r] = rows[r]
  BY <1>1, AppendProperties, LenProperties
<1> HIDE DEF row
<1>3. new \in Nat \ {0} /\ new \notin DOMAIN rows /\ DOMAIN rows' = DOMAIN rows \union {new} /\ \A r \in DOMAIN rows : r < new
  BY <1>2
<1> HIDE DEF new
<1>4. Grows
  BY <1>2, <1>3 DEF Grows, Free
<1>5. row.kind = kind /\ row.of = n /\ row.status = "pending" /\ row.by = "nobody"
  BY DEF row
<1>6. /\ Alarms' = IF kind = "alarm" THEN Alarms \union {new} ELSE Alarms
      /\ Offlines' = IF kind = "offline" THEN Offlines \union {new} ELSE Offlines
  BY <1>2, <1>3, <1>5 DEF Alarms, Offlines
<1>7. RowsOK'
  <2>1. \A r \in DOMAIN rows' : rows'[r].status = "pending" <=> rows'[r].by = "nobody"
    BY <1>2, <1>3, <1>5 DEF RowsOK
  <2>2. \A r \in Alarms' : 1 <= rows'[r].of /\ rows'[r].of <= machine.raises
    BY <1>2, <1>3, <1>5, <1>6 DEF RowsOK, Alarms
  <2> QED BY <1>2, <2>1, <2>2 DEF RowsOK
<1> QED BY <1>2, <1>3, <1>4, <1>6, <1>7 DEF new, row

\* One row changes: it is taken by somebody, or it ends.
Touched(r, q) ==
  /\ Grows /\ RowsOK' /\ DOMAIN rows' = DOMAIN rows /\ Alarms' = Alarms /\ Offlines' = Offlines
  /\ q # r => rows'[q] = rows[q]

LEMMA RowTouched ==
  ASSUME RowsOK, machine' = machine, NEW r \in DOMAIN rows, NEW row \in Row, rows' = [rows EXCEPT ![r] = row],
         row.kind = rows[r].kind, row.of = rows[r].of, row.status = "pending" <=> row.by = "nobody",
         rows[r].status = "pending", row.status = "pending" /\ ~row.held => Free(r)
  PROVE  (\A q \in DOMAIN rows : Touched(r, q)) /\ rows'[r] = row
<1>1. rows \in Seq(Row)
  BY DEF RowsOK
<1>2. rows' \in Seq(Row) /\ DOMAIN rows' = DOMAIN rows
  BY <1>1, ExceptSeq
<1>3. rows'[r] = row /\ \A q \in DOMAIN rows : q # r => rows'[q] = rows[q]
  OBVIOUS
<1>4. Grows
  BY <1>2, <1>3 DEF Grows, Free
<1>5. Alarms' = Alarms /\ Offlines' = Offlines
  BY <1>2, <1>3 DEF Alarms, Offlines
<1>6. RowsOK'
  <2>1. \A q \in DOMAIN rows' : rows'[q].status = "pending" <=> rows'[q].by = "nobody"
    BY <1>2, <1>3 DEF RowsOK
  <2>2. \A q \in Alarms' : 1 <= rows'[q].of /\ rows'[q].of <= machine.raises
    BY <1>3, <1>5 DEF RowsOK, Alarms
  <2> QED BY <1>2, <2>1, <2>2 DEF RowsOK
<1> QED BY <1>2, <1>3, <1>4, <1>5, <1>6 DEF Touched

LEMMA FeedEmitted ==
  ASSUME feed \in Seq(Events), NEW r \in Nat, NEW verb \in Verbs, Emit(r, verb)
  PROVE  /\ feed' \in Seq(Events)
         /\ \A i \in DOMAIN feed' : (i \in DOMAIN feed /\ feed'[i] = feed[i]) \/ feed'[i] = [row |-> r, verb |-> verb]
         /\ gateway # "up" => feed' = feed
<1>1. CASE feed' = feed
  BY <1>1
<1>2. CASE gateway = "up" /\ feed' = Append(feed, [row |-> r, verb |-> verb])
  <2>1. [row |-> r, verb |-> verb] \in Events
    BY DEF Events
  <2> QED BY <1>2, <2>1, AppendProperties, LenProperties
<1> QED BY <1>1, <1>2 DEF Emit

\* What the lane's plans say of what it is doing.
FormsOK ==
  /\ lane.todo = <<>> => ~Making /\ \A q : ~Ends(q) /\ ~Adopting(q)
  /\ \A r : lane.todo = <<Do("resolve", r)>> => ~Making /\ \A q : (Ends(q) <=> q = r) /\ ~Adopting(q)
  /\ \A n : lane.todo = <<Do("create", n)>> => Making /\ \A q : ~Ends(q) /\ ~Adopting(q)
  /\ \A r, n : lane.todo = <<Do("resolve", r), Do("create", n)>> =>
       Making /\ \A q : (Ends(q) <=> q = r) /\ ~Adopting(q)
  /\ \A r : lane.todo = <<Do("adopt", r)>> => ~Making /\ \A q : ~Ends(q) /\ (Adopting(q) <=> q = r)

LEMMA Forms == FormsOK
<1>1. \A x, y : Do("resolve", x) = Do("resolve", y) <=> x = y
  BY DEF Do
<1>2. \A x, y : Do("adopt", x) = Do("adopt", y) <=> x = y
  BY DEF Do
<1>3. \A x, y : Do("resolve", x) # Do("create", y) /\ Do("resolve", x) # Do("adopt", y) /\ Do("create", x) # Do("adopt", y)
  BY DEF Do
<1>4. \A x : Do("create", x).do = "create" /\ Do("resolve", x).do # "create" /\ Do("adopt", x).do # "create"
  BY DEF Do
<1> HIDE DEF Do
<1>5. lane.todo = <<>> => ~Making /\ \A q : ~Ends(q) /\ ~Adopting(q)
  BY DEF Making, Ends, Adopting
<1>6. ASSUME NEW r, lane.todo = <<Do("resolve", r)>> PROVE ~Making /\ \A q : (Ends(q) <=> q = r) /\ ~Adopting(q)
  BY <1>1, <1>3, <1>4, <1>6 DEF Making, Ends, Adopting
<1>7. ASSUME NEW n, lane.todo = <<Do("create", n)>> PROVE Making /\ \A q : ~Ends(q) /\ ~Adopting(q)
  BY <1>3, <1>4, <1>7 DEF Making, Ends, Adopting
<1>8. ASSUME NEW r, NEW n, lane.todo = <<Do("resolve", r), Do("create", n)>>
      PROVE Making /\ \A q : (Ends(q) <=> q = r) /\ ~Adopting(q)
  BY <1>1, <1>3, <1>4, <1>8 DEF Making, Ends, Adopting
<1>9. ASSUME NEW r, lane.todo = <<Do("adopt", r)>> PROVE ~Making /\ \A q : ~Ends(q) /\ (Adopting(q) <=> q = r)
  BY <1>2, <1>3, <1>4, <1>9 DEF Making, Ends, Adopting
<1> QED BY <1>5, <1>6, <1>7, <1>8, <1>9 DEF FormsOK

LEMMA FormsNext == FormsOK'
BY Forms, PTL

LEMMA RowClosed ==
  ASSUME RowsOK, feed \in Seq(Events), machine' = machine, NEW r \in DOMAIN rows, Close(r)
  PROVE  /\ Grows /\ RowsOK' /\ DOMAIN rows' = DOMAIN rows /\ Alarms' = Alarms /\ Offlines' = Offlines
         /\ \A q \in DOMAIN rows : q # r => rows'[q] = rows[q]
         /\ ~Free(r)'
         /\ feed' \in Seq(Events)
         /\ \A i \in DOMAIN feed' : (i \in DOMAIN feed /\ feed'[i] = feed[i]) \/ feed'[i] = [row |-> r, verb |-> "resolved"]
         /\ gateway # "up" => feed' = feed
<1>1. CASE ~Free(r)
  <2>1. rows' = rows /\ feed' = feed
    BY <1>1 DEF Close
  <2>2. Grows /\ RowsOK' /\ Alarms' = Alarms /\ Offlines' = Offlines /\ ~Free(r)'
    BY <1>1, <2>1 DEF Grows, RowsOK, Alarms, Offlines, Free
  <2> QED BY <2>1, <2>2
<1>2. CASE Free(r)
  <2>1. PICK row : row = [rows[r] EXCEPT !.status = "resolved", !.by = "controller"]
    OBVIOUS
  <2>2. rows[r] \in Row
    BY ElementOfSeq, LenProperties DEF RowsOK
  <2>3. row \in Row /\ row.kind = rows[r].kind /\ row.of = rows[r].of /\ row.status = "resolved" /\ row.by = "controller"
    BY <2>1, <2>2 DEF Row
  <2>4. rows' = [rows EXCEPT ![r] = row] /\ Emit(r, "resolved")
    BY <1>2, <2>1, <2>2 DEF Close, Row
  <2>5. (\A q \in DOMAIN rows : Touched(r, q)) /\ rows'[r] = row
    BY <1>2, <2>3, <2>4, RowTouched DEF Free
  <2>6. r \in Nat
    BY LenProperties DEF RowsOK
  <2>7. /\ feed' \in Seq(Events)
        /\ \A i \in DOMAIN feed' : (i \in DOMAIN feed /\ feed'[i] = feed[i]) \/ feed'[i] = [row |-> r, verb |-> "resolved"]
        /\ gateway # "up" => feed' = feed
    BY <2>4, <2>6, FeedEmitted DEF Verbs
  <2> QED BY <2>3, <2>5, <2>7 DEF Touched, Free
<1> QED BY <1>1, <1>2

\* What a step leaves alone stays as it should be.
LEMMA Frame ==
  ASSUME AlarmInv
  PROVE  /\ UNCHANGED <<setting, machine, spent>> => MachineOK'
         /\ UNCHANGED <<machine, mail, late>> => MailOK'
         /\ UNCHANGED <<machine, rows>> => RowsOK'
         /\ UNCHANGED <<feed, heard>> /\ Grows => FeedOK'
         /\ UNCHANGED <<machine, lane, gateway>> /\ Grows => LaneOK'
         /\ UNCHANGED raiser /\ Grows => RaiserOK'
         /\ UNCHANGED <<gateway, feed, heard, state, lane, raiser>> => GatewayOK'
         /\ UNCHANGED acks /\ Grows => AcksOK'
         /\ UNCHANGED <<mail, late, lane, gateway>> => Once'
<1>1. UNCHANGED <<setting, machine, spent>> => MachineOK'
  BY DEF AlarmInv, MachineOK
<1>2. UNCHANGED <<machine, mail, late>> => MailOK'
  BY DEF AlarmInv, MailOK, Mailed, Known
<1>3. UNCHANGED <<machine, rows>> => RowsOK'
  BY DEF AlarmInv, RowsOK, Alarms
<1>4. UNCHANGED <<feed, heard>> /\ Grows => FeedOK'
  <2> SUFFICES ASSUME UNCHANGED <<feed, heard>>, Grows PROVE FeedOK'
    OBVIOUS
  <2>1. heard.verb \in {"resolved", "cancelled"} => heard.row \in DOMAIN rows /\ rows[heard.row].status = heard.verb
    BY DEF AlarmInv, FeedOK, NoEvent
  <2> QED BY <2>1 DEF AlarmInv, FeedOK, Grows
<1>5. UNCHANGED <<machine, lane, gateway>> /\ Grows => LaneOK'
  <2> SUFFICES ASSUME UNCHANGED <<machine, lane, gateway>>, Grows PROVE LaneOK'
    OBVIOUS
  <2>1. \A r \in Alarms : r \in Alarms' /\ rows'[r].of = rows[r].of
    BY DEF Grows, Alarms
  <2>2. \A r \in DOMAIN rows : r \in DOMAIN rows'
    BY DEF Grows
  <2> HIDE DEF Grows
  <2> QED BY <2>1, <2>2 DEF AlarmInv, LaneOK, Known
<1>6. UNCHANGED raiser /\ Grows => RaiserOK'
  BY DEF AlarmInv, RaiserOK, Grows, Offlines
<1>7. UNCHANGED <<gateway, feed, heard, state, lane, raiser>> => GatewayOK'
  BY DEF AlarmInv, GatewayOK
<1>8. UNCHANGED acks /\ Grows => AcksOK'
  <2> SUFFICES ASSUME UNCHANGED acks, Grows, NEW r \in acks PROVE r \in Alarms' /\ rows'[r].by = "person"
    BY DEF AcksOK
  <2>1. r \in DOMAIN rows /\ rows[r].kind = "alarm" /\ rows[r].by = "person" /\ rows[r].status # "pending"
    BY DEF AlarmInv, AcksOK, Alarms, RowsOK
  <2> QED BY <2>1 DEF Grows, Alarms
<1>9. UNCHANGED <<mail, late, lane, gateway>> => Once'
  BY DEF AlarmInv, Once, Mailed, Holding
<1> QED BY <1>1, <1>2, <1>3, <1>4, <1>5, <1>6, <1>7, <1>8, <1>9

LEMMA GrowsAlone == RowsOK /\ UNCHANGED rows => Grows
BY DEF RowsOK, Grows, Free

\* The track is kept where the controller ends no row that is tracked.
LEMMA FrameTrack ==
  ASSUME AlarmInv, Grows, Alarms' = Alarms, UNCHANGED <<machine, lane>>, state' = state,
         \A r \in Alarms : state.alarm.row = r \/ Adopting(r) => rows'[r].by # "controller" \/ rows'[r] = rows[r]
  PROVE  TrackOK'
<1>1. Read' = Read /\ (\A q : Ends(q)' <=> Ends(q)) /\ (\A q : Adopting(q)' <=> Adopting(q)) /\ (Making' <=> Making)
  BY DEF Read, Ends, Adopting, Making
<1>2. \A m \in Read : Known(m)'
  BY DEF AlarmInv, TrackOK, Known
<1>3. \A r \in Alarms : r \in DOMAIN rows /\ rows'[r].of = rows[r].of /\ (Free(r)' => Free(r))
  BY DEF Alarms, Grows
<1>4. state.link # 0 => state.link \in Offlines'
  BY DEF AlarmInv, TrackOK, Offlines, Grows
<1>5. state.alarm.row # 0 =>
       state.alarm.row \in Alarms' /\ rows'[state.alarm.row].of = state.alarm.raise
         /\ rows'[state.alarm.row].by # "controller"
  BY <1>3 DEF AlarmInv, TrackOK
<1>6. \A r \in Alarms : Ends(r) => state.alarm.raise # rows'[r].of
  BY <1>3 DEF AlarmInv, TrackOK
<1>7. \A r \in Alarms : Adopting(r) =>
       /\ state.alarm.raise = lane.msg.n /\ rows'[r].by # "controller"
       /\ \/ state.alarm.row = 0 /\ state.alarm.open
          \/ state.alarm.row = r /\ (state.alarm.open \/ ~Free(r)')
  BY <1>3 DEF AlarmInv, TrackOK
<1> QED BY <1>1, <1>2, <1>4, <1>5, <1>6, <1>7 DEF AlarmInv, TrackOK

LEMMA FrameAnnounced ==
  ASSUME AlarmInv, Grows, Alarms' = Alarms, UNCHANGED <<mail, late, lane, state>>,
         \A r \in Alarms : Announced(r)' => Announced(r)
  PROVE  AnnouncedOK'
<1>1. Mailed' = Mailed /\ \A q : Adopting(q)' <=> Adopting(q)
  BY DEF Mailed, Adopting
<1>2. \A r \in Alarms : rows'[r].of = rows[r].of
  BY DEF Alarms, Grows
<1> QED BY <1>1, <1>2 DEF AlarmInv, AnnouncedOK

\* So are the last two parts, where rows only end.
LEMMA FrameLast ==
  ASSUME AlarmInv, OneLeader, NoneFailed, Grows, Alarms' = Alarms, UNCHANGED <<lane, gateway>>,
         state'.alarm = state.alarm, spent'.takeovers = spent.takeovers, spoilt \subseteq spoilt',
         \A m \in Mailed' \union late' : m.kind = "raise" => m \in Mailed \union late
  PROVE  OneLeader' /\ NoneFailed'
<1>1. (\A q : Ends(q)' <=> Ends(q)) /\ (\A q : Adopting(q)' <=> Adopting(q)) /\ (Making' <=> Making)
  BY DEF Ends, Adopting, Making
<1>2. \A r \in Alarms : r \in DOMAIN rows /\ rows'[r].of = rows[r].of /\ (Free(r)' => Free(r))
  BY DEF Alarms, Grows
<1>3. \A n : RaiseMessage(n).kind = "raise"
  BY DEF RaiseMessage, Message
<1>4. OneLeader'
  BY <1>1, <1>2, <1>3 DEF OneLeader
<1>5. NoneFailed'
  BY <1>1, <1>2 DEF NoneFailed
<1> QED BY <1>4, <1>5

Inv == AlarmInv /\ OneLeader /\ NoneFailed

LEMMA MailedAre ==
  AlarmInv => Mailed \subseteq Mails /\ Mails \subseteq Messages /\ Read \subseteq Messages /\ late \subseteq Messages
<1> SUFFICES ASSUME AlarmInv PROVE Mailed \subseteq Mails /\ Mails \subseteq Messages /\ Read \subseteq Messages
  BY DEF AlarmInv, MailOK
<1>1. mail \in Seq(Mails) /\ state.read \in Seq(Messages)
  BY DEF AlarmInv, MailOK, TrackOK
<1>2. Mails \subseteq Messages
  BY DEF Mails, Messages
<1> HIDE DEF Mails, Messages
<1>3. (\A i \in DOMAIN mail : mail[i] \in Mails) /\ \A i \in DOMAIN state.read : state.read[i] \in Messages
  BY <1>1, ElementOfSeq, LenProperties
<1> QED BY <1>2, <1>3 DEF Mailed, Read

-----------------------------------------------------------------------------
(* The machine and the people                                               *)

LEMMA MachineTells ==
  ASSUME Inv, NEW m, NEW kind \in {"raise", "clear", "off", "on"}, NEW n \in Nat, Tell(m, kind, n),
         m \in [raise : Nat, raises : Nat, online : BOOLEAN, drops : Nat],
         m.raise <= m.raises, machine.raises <= m.raises,
         kind = "raise" => n = machine.raises + 1 /\ n = m.raises
  PROVE  Inv'
<1> DEFINE new == Message(kind, n)
<1>1. machine' = m /\ mail' = Append(mail, new) /\ UNCHANGED <<setting, late, rows, leaderVars, acks, spent, spoilt>>
  BY DEF Tell
<1>2. UNCHANGED <<setting, late, rows, feed, gateway, state, lane, heard, raiser, acks, spent, spoilt>>
  BY <1>1 DEF leaderVars
<1>3. new \in Mails /\ new.kind = kind /\ new.n = n
  BY DEF Message, Mails
<1> HIDE DEF new
<1>4. mail \in Seq(Mails) /\ machine.raises \in Nat
  BY DEF Inv, AlarmInv, MailOK, MachineOK
<1>5. /\ mail' \in Seq(Mails) /\ Len(mail) \in Nat /\ DOMAIN mail = 1..Len(mail) /\ DOMAIN mail' = 1..(Len(mail) + 1)
      /\ mail'[Len(mail) + 1] = new /\ \A i \in DOMAIN mail : mail'[i] = mail[i]
  BY <1>1, <1>3, <1>4, AppendProperties, LenProperties
<1>6. Mailed' = Mailed \union {new}
  BY <1>5 DEF Mailed
<1>7. \A x \in Messages : Known(x) => Known(x)'
  BY <1>1, <1>4 DEF Known, Messages
<1>8. Known(new)'
  BY <1>1, <1>3, <1>4 DEF Known
<1>9. \A x \in Mailed \union late : x.kind = "raise" => x # new
  BY <1>3, <1>4 DEF Inv, AlarmInv, MailOK, Known
<1>10. MachineOK'
  BY <1>1, <1>2 DEF Inv, AlarmInv, MachineOK
<1>11. MailOK'
  <2> QED BY <1>2, <1>3, <1>5, <1>6, <1>7, <1>8, MailedAre DEF Inv, AlarmInv, MailOK
<1>12. RowsOK'
  <2>1. \A r \in Alarms : rows[r].of \in Nat
    <3>1. \A r \in DOMAIN rows : rows[r] \in Row
      BY ElementOfSeq, LenProperties DEF Inv, AlarmInv, RowsOK
    <3> QED BY <3>1 DEF Alarms, Row
  <2>2. Alarms' = Alarms
    BY <1>2 DEF Alarms
  <2>3. \A r \in Alarms : 1 <= rows[r].of /\ rows[r].of <= m.raises
    BY <1>4, <2>1 DEF Inv, AlarmInv, RowsOK
  <2> QED BY <1>1, <1>2, <2>2, <2>3 DEF Inv, AlarmInv, RowsOK
<1>13. Grows /\ FeedOK' /\ RaiserOK' /\ GatewayOK' /\ AcksOK'
  BY <1>2, GrowsAlone, Frame DEF Inv, AlarmInv
<1>14. LaneOK'
  <2>1. Alarms' = Alarms
    BY <1>2 DEF Alarms
  <2> QED BY <1>2, <1>7, <2>1 DEF Inv, AlarmInv, LaneOK
<1>15. TrackOK'
  <2>1. Alarms' = Alarms /\ Offlines' = Offlines /\ Read' = Read /\ (Making' <=> Making)
    BY <1>2 DEF Alarms, Offlines, Read, Making
  <2>2. \A q : (Ends(q)' <=> Ends(q)) /\ (Adopting(q)' <=> Adopting(q)) /\ (Free(q)' <=> Free(q))
    BY <1>2 DEF Ends, Adopting, Free
  <2> QED BY <1>2, <1>7, <2>1, <2>2, MailedAre DEF Inv, AlarmInv, TrackOK
<1>16. lane.msg.kind = "raise" => lane.msg # new
  <2>1. CASE lane = IdleLane
    BY <2>1 DEF IdleLane, NoMessage, Message
  <2>2. CASE lane # IdleLane
    <3>1. Known(lane.msg)
      BY <2>2 DEF Inv, AlarmInv, LaneOK
    <3> QED BY <1>3, <1>4, <3>1 DEF Known
  <2> QED BY <2>1, <2>2
<1>17. Once'
  <2>1. Holding' <=> Holding
    BY <1>2 DEF Holding
  <2>2. \A i, j \in DOMAIN mail' : mail'[i].kind = "raise" /\ mail'[i] = mail'[j] => i = j
    <3> SUFFICES ASSUME NEW i \in DOMAIN mail', NEW j \in DOMAIN mail', mail'[i].kind = "raise", mail'[i] = mail'[j]
                 PROVE  i = j
      OBVIOUS
    <3>1. CASE i \in DOMAIN mail /\ j \in DOMAIN mail
      BY <1>5, <3>1 DEF Inv, AlarmInv, Once
    <3>2. \A k \in DOMAIN mail : mail'[k].kind = "raise" => mail'[k] # new
      BY <1>5, <1>9 DEF Mailed
    <3> QED BY <1>5, <3>1, <3>2
  <2>3. \A x \in Mailed' : x.kind = "raise" => x \notin late
    BY <1>6, <1>9 DEF Inv, AlarmInv, Once
  <2>4. \A x \in Mailed' \union late : x.kind = "raise" /\ Holding => lane.msg # x
    BY <1>6, <1>16 DEF Inv, AlarmInv, Once
  <2> QED BY <1>2, <2>1, <2>2, <2>3, <2>4 DEF Once
<1>18. \A r \in Alarms : RaiseMessage(rows[r].of) # new
  <2>1. \A r \in Alarms : rows[r].of <= machine.raises /\ rows[r].of \in Nat
    <3>1. \A r \in DOMAIN rows : rows[r] \in Row
      BY ElementOfSeq, LenProperties DEF Inv, AlarmInv, RowsOK
    <3> QED BY <3>1 DEF Alarms, Row, Inv, AlarmInv, RowsOK
  <2>2. \A k : RaiseMessage(k).kind = "raise" /\ RaiseMessage(k).n = k
    BY DEF RaiseMessage, Message
  <2> QED BY <1>3, <1>4, <2>1, <2>2
<1>19. /\ Alarms' = Alarms /\ (Making' <=> Making)
       /\ \A q : (Ends(q)' <=> Ends(q)) /\ (Adopting(q)' <=> Adopting(q)) /\ (Free(q)' <=> Free(q)) /\ (Announced(q)' <=> Announced(q))
  BY <1>2 DEF Ends, Adopting, Free, Announced, Alarms, Making
<1>20. AnnouncedOK'
  BY <1>2, <1>6, <1>18, <1>19 DEF Inv, AlarmInv, AnnouncedOK
<1>21. OneLeader' /\ NoneFailed'
  <2>1. OneLeader'
    BY <1>2, <1>6, <1>18, <1>19 DEF Inv, OneLeader
  <2>2. NoneFailed'
    BY <1>2, <1>19 DEF Inv, NoneFailed
  <2> QED BY <2>1, <2>2
<1> QED BY <1>10, <1>11, <1>12, <1>13, <1>14, <1>15, <1>17, <1>20, <1>21 DEF Inv, AlarmInv

LEMMA MachineSteps == Inv /\ Machine => Inv'
<1> SUFFICES ASSUME Inv, Machine PROVE Inv'
  OBVIOUS
<1>1. machine \in [raise : Nat, raises : Nat, online : BOOLEAN, drops : Nat] /\ machine.raise <= machine.raises
  BY DEF Inv, AlarmInv, MachineOK
<1>2. CASE Raise
  <2>1. PICK m : m = [machine EXCEPT !.raise = machine.raises + 1, !.raises = machine.raises + 1]
    OBVIOUS
  <2>2. /\ m = [raise |-> machine.raises + 1, raises |-> machine.raises + 1, online |-> machine.online, drops |-> machine.drops]
        /\ machine.raises \in Nat /\ machine.online \in BOOLEAN /\ machine.drops \in Nat
    BY <1>1, <2>1
  <2>3. Tell(m, "raise", machine.raises + 1)
    BY <1>2, <2>1 DEF Raise
  <2> QED BY <1>1, <2>2, <2>3, MachineTells
<1>3. CASE Clear
  <2>1. PICK m : m = [machine EXCEPT !.raise = 0]
    OBVIOUS
  <2>2. m.raise = 0 /\ m.raises = machine.raises /\ m \in [raise : Nat, raises : Nat, online : BOOLEAN, drops : Nat]
    BY <1>1, <2>1
  <2>3. Tell(m, "clear", machine.raise)
    BY <1>3, <2>1 DEF Clear
  <2> QED BY <1>1, <2>2, <2>3, MachineTells
<1>4. CASE DropOff
  <2>1. machine.drops \in Nat
    BY <1>1
  <2>2. PICK d \in Nat : d = machine.drops + 1
    BY <2>1
  <2>3. PICK m : m = [machine EXCEPT !.online = FALSE, !.drops = d]
    OBVIOUS
  <2>4. m \in [raise : Nat, raises : Nat, online : BOOLEAN, drops : Nat]
    BY <1>1, <2>3
  <2>5. m.raise = machine.raise
    BY <1>1, <2>3
  <2>6. m.raises = machine.raises
    BY <1>1, <2>3
  <2>7. Tell(m, "off", d)
    BY <1>4, <2>2, <2>3 DEF DropOff
  <2>8. machine.raise <= machine.raises /\ machine.raises \in Nat
    BY <1>1
  <2> QED BY <2>4, <2>5, <2>6, <2>7, <2>8, MachineTells
<1>5. CASE ComeBack
  <2>1. PICK m : m = [machine EXCEPT !.online = TRUE]
    OBVIOUS
  <2>2. m.raise = machine.raise /\ m.raises = machine.raises /\ m \in [raise : Nat, raises : Nat, online : BOOLEAN, drops : Nat]
    BY <1>1, <2>1
  <2>3. Tell(m, "on", machine.drops)
    BY <1>5, <2>1 DEF ComeBack
  <2> QED BY <1>1, <2>2, <2>3, MachineTells
<1> QED BY <1>2, <1>3, <1>4, <1>5 DEF Machine

LEMMA RowsAre == RowsOK => \A r \in DOMAIN rows : rows[r] \in Row /\ r \in Nat \ {0}
BY ElementOfSeq, LenProperties DEF RowsOK

\* Nothing new is announced where the feed grows by the end of a row.
LEMMA AnnouncesNoMore ==
  ASSUME heard' = heard, NEW r, NEW verb \in {"resolved", "cancelled"},
         \A i \in DOMAIN feed' : (i \in DOMAIN feed /\ feed'[i] = feed[i]) \/ feed'[i] = [row |-> r, verb |-> verb]
  PROVE  \A q : Announced(q)' => Announced(q)
<1> SUFFICES ASSUME NEW q, Announced(q)' PROVE Announced(q)
  OBVIOUS
<1>1. [row |-> q, verb |-> "created"] # [row |-> r, verb |-> verb]
  <2>1. [row |-> q, verb |-> "created"].verb = "created" /\ [row |-> r, verb |-> verb].verb = verb
    OBVIOUS
  <2> QED BY <2>1
<1> QED BY <1>1 DEF Announced

\* The events still name rows that are there.
LEMMA FeedKept ==
  ASSUME FeedOK, RowsOK, Grows, heard' = heard, feed' \in Seq(Events), NEW r \in DOMAIN rows', NEW verb,
         \A i \in DOMAIN feed' : (i \in DOMAIN feed /\ feed'[i] = feed[i]) \/ feed'[i] = [row |-> r, verb |-> verb]
  PROVE  FeedOK'
<1>1. \A i \in DOMAIN feed' : feed'[i].row \in DOMAIN rows'
  BY DEF FeedOK, Grows
<1>2. heard = NoEvent \/ (heard \in Events /\ heard.row \in DOMAIN rows')
  BY DEF FeedOK, Grows
<1>3. heard.verb \in {"resolved", "cancelled"} => rows'[heard.row].status = heard.verb
  <2> SUFFICES ASSUME heard.verb \in {"resolved", "cancelled"} PROVE rows'[heard.row].status = heard.verb
    OBVIOUS
  <2>1. heard.row \in DOMAIN rows /\ rows[heard.row].status = heard.verb
    BY DEF FeedOK, NoEvent
  <2> QED BY <2>1 DEF Grows
<1> QED BY <1>1, <1>2, <1>3 DEF FeedOK

LEMMA PeopleSteps == Inv /\ People => Inv'
<1> SUFFICES ASSUME Inv, People PROVE Inv'
  OBVIOUS
<1>1. PICK r \in DOMAIN rows : Claim(r) \/ \E status \in {"resolved", "cancelled"} : Answer(r, status)
  BY DEF People
<1>2. /\ RowsOK /\ feed \in Seq(Events) /\ rows[r] \in Row /\ r \in Nat
      /\ (rows[r].status = "pending" <=> rows[r].by = "nobody")
  BY RowsAre DEF Inv, AlarmInv, FeedOK, RowsOK
<1>3. CASE Claim(r)
  <2>1. UNCHANGED <<setting, machine, mail, late, feed, gateway, state, lane, heard, raiser, acks, spent, spoilt>>
    BY <1>3 DEF Claim, leaderVars
  <2>2. PICK row : row = [rows[r] EXCEPT !.held = TRUE]
    OBVIOUS
  <2>3. row \in Row /\ row.kind = rows[r].kind /\ row.of = rows[r].of /\ row.status = rows[r].status
        /\ row.by = rows[r].by /\ row.held
    BY <1>2, <2>2 DEF Row
  <2>4. rows' = [rows EXCEPT ![r] = row] /\ Free(r)
    BY <1>2, <1>3, <2>2 DEF Claim, Row
  <2>5. (\A q \in DOMAIN rows : Touched(r, q)) /\ rows'[r] = row
    BY <1>2, <2>1, <2>3, <2>4, RowTouched DEF Free
  <2>6. Grows /\ RowsOK' /\ Alarms' = Alarms /\ Offlines' = Offlines /\ DOMAIN rows' = DOMAIN rows
        /\ \A q \in DOMAIN rows : rows'[q].by = rows[q].by
    BY <2>3, <2>5 DEF Touched
  <2>7. MachineOK' /\ MailOK' /\ FeedOK' /\ LaneOK' /\ RaiserOK' /\ GatewayOK' /\ AcksOK' /\ Once'
    BY <2>1, <2>6, Frame DEF Inv
  <2>8. \A q \in Alarms : state.alarm.row = q \/ Adopting(q) => rows'[q].by # "controller"
    BY <1>2, <2>6, RowsAre DEF Inv, AlarmInv, TrackOK, Alarms
  <2>9. TrackOK'
    BY <2>1, <2>6, <2>8, FrameTrack DEF Inv
  <2>10. \A q \in Alarms : Announced(q)' => Announced(q)
    BY <2>1 DEF Announced
  <2>11. AnnouncedOK'
    BY <2>1, <2>6, <2>10, FrameAnnounced DEF Inv
  <2>12. Mailed' = Mailed
    BY <2>1 DEF Mailed
  <2>13. OneLeader' /\ NoneFailed'
    BY <2>1, <2>6, <2>12, FrameLast DEF Inv
  <2> QED BY <2>6, <2>7, <2>9, <2>11, <2>13 DEF Inv, AlarmInv
<1>4. ASSUME NEW status \in {"resolved", "cancelled"}, Answer(r, status) PROVE Inv'
  <2>1. UNCHANGED <<setting, machine, mail, late, gateway, state, lane, heard, raiser, acks, spent, spoilt>>
    BY <1>4 DEF Answer
  <2>2. PICK row : row = [rows[r] EXCEPT !.status = status, !.by = "person", !.at = machine.drops]
    OBVIOUS
  <2>3. machine.drops \in Nat
    BY DEF Inv, AlarmInv, MachineOK
  <2>4. row.kind = rows[r].kind /\ row.of = rows[r].of /\ row.held = rows[r].held
    BY <1>2, <2>2 DEF Row
  <2>5. row.status = status /\ row.by = "person"
    BY <1>2, <2>2 DEF Row
  <2>6. row \in Row
    BY <1>2, <2>2, <2>3 DEF Row
  <2>7. rows' = [rows EXCEPT ![r] = row] /\ Emit(r, status) /\ rows[r].status = "pending"
    BY <1>2, <1>4, <2>2 DEF Answer, Row
  <2>8. (\A q \in DOMAIN rows : Touched(r, q)) /\ rows'[r] = row
    BY <1>2, <2>1, <2>4, <2>5, <2>6, <2>7, RowTouched
  <2>9. Grows /\ RowsOK' /\ Alarms' = Alarms /\ Offlines' = Offlines /\ DOMAIN rows' = DOMAIN rows
        /\ \A q \in DOMAIN rows : rows'[q].by = rows[q].by \/ rows'[q].by = "person"
    BY <2>5, <2>8 DEF Touched
  <2>10. /\ feed' \in Seq(Events)
         /\ \A i \in DOMAIN feed' : (i \in DOMAIN feed /\ feed'[i] = feed[i]) \/ feed'[i] = [row |-> r, verb |-> status]
         /\ gateway # "up" => feed' = feed
    BY <1>2, <2>7, FeedEmitted DEF Verbs
  <2>11. MachineOK' /\ MailOK' /\ LaneOK' /\ RaiserOK' /\ AcksOK' /\ Once'
    BY <2>1, <2>9, Frame DEF Inv
  <2>12. FeedOK'
    BY <1>2, <2>1, <2>9, <2>10, FeedKept DEF Inv, AlarmInv
  <2>13. GatewayOK'
    BY <2>1, <2>10 DEF Inv, AlarmInv, GatewayOK
  <2>14. \A q \in Alarms : state.alarm.row = q \/ Adopting(q) => rows'[q].by # "controller"
    BY <1>2, <2>9, RowsAre DEF Inv, AlarmInv, TrackOK, Alarms
  <2>15. TrackOK'
    BY <2>1, <2>9, <2>14, FrameTrack DEF Inv
  <2>16. \A q \in Alarms : Announced(q)' => Announced(q)
    BY <2>1, <2>10, AnnouncesNoMore
  <2>17. AnnouncedOK'
    BY <2>1, <2>9, <2>16, FrameAnnounced DEF Inv
  <2>18. Mailed' = Mailed
    BY <2>1 DEF Mailed
  <2>19. OneLeader' /\ NoneFailed'
    BY <2>1, <2>9, <2>18, FrameLast DEF Inv
  <2> QED BY <2>9, <2>11, <2>12, <2>13, <2>15, <2>17, <2>19 DEF Inv, AlarmInv
<1> QED BY <1>1, <1>3, <1>4

-----------------------------------------------------------------------------
(* The event lane                                                           *)

LEMMA HearSteps == Inv /\ Hear => Inv'
<1> SUFFICES ASSUME Inv, Hear PROVE Inv'
  OBVIOUS
<1>1. UNCHANGED <<setting, machine, mail, late, rows, gateway, state, lane, raiser, acks, spent, spoilt>>
  BY DEF Hear
<1>2. /\ feed \in Seq(Events) /\ feed # <<>> /\ feed' = Tail(feed) /\ gateway = "up"
      /\ heard' = IF rows[Head(feed).row].status = StatusFor[Head(feed).verb] THEN Head(feed) ELSE NoEvent
  BY DEF Hear, Inv, AlarmInv, FeedOK
<1>3. /\ feed' \in Seq(Events) /\ Head(feed) = feed[1] /\ 1 \in DOMAIN feed /\ feed[1] \in Events
      /\ \A i \in DOMAIN feed' : i + 1 \in DOMAIN feed /\ feed'[i] = feed[i + 1]
  BY <1>2, HeadTailProperties, LenProperties, ElementOfSeq, EmptySeq
<1>4. FeedOK'
  <2>1. \A i \in DOMAIN feed' : feed'[i].row \in DOMAIN rows
    BY <1>3 DEF Inv, AlarmInv, FeedOK
  <2>2. CASE heard' = NoEvent
    BY <1>1, <1>3, <2>1, <2>2 DEF FeedOK, NoEvent
  <2>3. CASE heard' = feed[1] /\ rows[feed[1].row].status = StatusFor[feed[1].verb]
    <3>1. feed[1].row \in DOMAIN rows
      BY <1>3 DEF Inv, AlarmInv, FeedOK
    <3>2. feed[1].verb \in {"resolved", "cancelled"} => StatusFor[feed[1].verb] = feed[1].verb
      BY DEF StatusFor
    <3> QED BY <1>1, <1>3, <2>1, <2>3, <3>1, <3>2 DEF FeedOK
  <2> QED BY <1>2, <1>3, <2>2, <2>3
<1>5. Grows /\ RowsOK' /\ MachineOK' /\ MailOK' /\ LaneOK' /\ RaiserOK' /\ AcksOK' /\ Once'
  BY <1>1, GrowsAlone, Frame DEF Inv, AlarmInv
<1>6. GatewayOK'
  BY <1>1, <1>2 DEF Inv, AlarmInv, GatewayOK
<1>7. Alarms' = Alarms /\ Mailed' = Mailed
  BY <1>1 DEF Alarms, Mailed
<1>8. TrackOK'
  BY <1>1, <1>5, <1>7, FrameTrack DEF Inv
<1>9. \A r \in Alarms : Announced(r)' => Announced(r)
  <2> SUFFICES ASSUME NEW r \in Alarms, Announced(r)' PROVE Announced(r)
    OBVIOUS
  <2>1. CASE heard' = [row |-> r, verb |-> "created"]
    <3>1. heard' # NoEvent
      BY <2>1 DEF NoEvent
    <3> QED BY <1>2, <1>3, <2>1, <3>1 DEF Announced
  <2>2. CASE \E i \in DOMAIN feed' : feed'[i] = [row |-> r, verb |-> "created"]
    BY <1>3, <2>2 DEF Announced
  <2> QED BY <2>1, <2>2 DEF Announced
<1>10. AnnouncedOK'
  BY <1>1, <1>5, <1>7, <1>9, FrameAnnounced DEF Inv
<1>11. OneLeader' /\ NoneFailed'
  BY <1>1, <1>5, <1>7, FrameLast DEF Inv
<1> QED BY <1>4, <1>5, <1>6, <1>8, <1>10, <1>11 DEF Inv, AlarmInv

LEMMA HeedLinks ==
  ASSUME Inv, Heed, rows[heard.row].kind # "alarm"
  PROVE  Inv'
<1>1. UNCHANGED <<setting, machine, mail, late, rows, feed, gateway, lane, raiser, acks, spent, spoilt>>
  BY DEF Heed, HeedLink
<1>2. heard # NoEvent /\ heard' = NoEvent /\ heard.row \in DOMAIN rows
  BY DEF Heed, Inv, AlarmInv, FeedOK
<1>3. heard.row \in Offlines
  BY <1>2, RowsAre DEF Inv, AlarmInv, Offlines, Row
<1>4. PICK link : state' = [state EXCEPT !.link = link] /\ link \in {heard.row, 0, state.link}
  BY DEF Heed, HeedLink
<1>5. state \in [alarm : Track, online : BOOLEAN, watching : BOOLEAN, link : Nat, timers : Nat, read : Seq(Messages)]
  BY DEF Inv, AlarmInv, TrackOK
<1>6. link \in Nat /\ (link # 0 => link \in Offlines)
  BY <1>3, <1>4, <1>5, RowsAre DEF Inv, AlarmInv, TrackOK, Offlines
<1>7. /\ state'.alarm = state.alarm /\ state'.link = link /\ state'.read = state.read
      /\ state' \in [alarm : Track, online : BOOLEAN, watching : BOOLEAN, link : Nat, timers : Nat, read : Seq(Messages)]
  BY <1>4, <1>5, <1>6
<1>8. Grows /\ RowsOK' /\ MachineOK' /\ MailOK' /\ LaneOK' /\ RaiserOK' /\ AcksOK' /\ Once'
  BY <1>1, GrowsAlone, Frame DEF Inv, AlarmInv
<1>9. FeedOK'
  BY <1>1, <1>2 DEF Inv, AlarmInv, FeedOK, NoEvent
<1>10. GatewayOK'
  BY <1>1, <1>2 DEF Inv, AlarmInv, GatewayOK
<1>11. /\ Alarms' = Alarms /\ Offlines' = Offlines /\ Mailed' = Mailed /\ Read' = Read /\ (Making' <=> Making)
       /\ \A q : (Ends(q)' <=> Ends(q)) /\ (Adopting(q)' <=> Adopting(q)) /\ (Free(q)' <=> Free(q))
  BY <1>1, <1>7 DEF Alarms, Offlines, Mailed, Read, Making, Ends, Adopting, Free
<1>12. \A r : Announced(r)' => Announced(r)
  BY <1>1, <1>2 DEF Announced, NoEvent
<1>13. TrackOK'
  BY <1>1, <1>6, <1>7, <1>11, MailedAre DEF Inv, AlarmInv, TrackOK, Known
<1>14. AnnouncedOK'
  BY <1>1, <1>7, <1>11, <1>12 DEF Inv, AlarmInv, AnnouncedOK
<1>15. OneLeader' /\ NoneFailed'
  BY <1>1, <1>7, <1>8, <1>11, FrameLast DEF Inv
<1> QED BY <1>8, <1>9, <1>10, <1>13, <1>14, <1>15 DEF Inv, AlarmInv

LEMMA HeedAlarms ==
  ASSUME Inv, Heed, rows[heard.row].kind = "alarm"
  PROVE  Inv'
<1> DEFINE r == heard.row
           mine == state.alarm.row = r
<1>1. UNCHANGED <<setting, machine, mail, late, rows, feed, gateway, lane, raiser, spent, spoilt>>
  BY DEF Heed
<1>2. heard # NoEvent /\ heard' = NoEvent /\ r \in Alarms /\ r \in DOMAIN rows /\ heard.verb \in Verbs /\ heard = [row |-> r, verb |-> heard.verb]
  BY DEF Heed, Inv, AlarmInv, FeedOK, Alarms, Events
<1>3. /\ state.alarm \in Track /\ r \in Nat \ {0} /\ rows[r] \in Row
      /\ state \in [alarm : Track, online : BOOLEAN, watching : BOOLEAN, link : Nat, timers : Nat, read : Seq(Messages)]
  BY <1>2, RowsAre DEF Inv, AlarmInv, TrackOK
<1>4. PICK alarm :
        /\ state' = [state EXCEPT !.alarm = alarm]
        /\ alarm = IF heard.verb = "created" THEN (IF Belongs(r) THEN [state.alarm EXCEPT !.row = r] ELSE state.alarm)
                   ELSE IF mine THEN [state.alarm EXCEPT !.open = FALSE] ELSE state.alarm
  BY DEF Heed, HeedAlarm
<1>5. acks' = IF heard.verb = "resolved" /\ mine THEN acks \union {r} ELSE acks
  BY DEF Heed, HeedAlarm
<1>6. /\ \/ alarm = state.alarm
         \/ Adopting(r) /\ state.alarm.row = 0 /\ alarm = [raise |-> state.alarm.raise, row |-> r, open |-> state.alarm.open]
              /\ state.alarm.raise = rows[r].of
         \/ mine /\ ~Free(r) /\ alarm = [raise |-> state.alarm.raise, row |-> r, open |-> FALSE]
      /\ alarm \in Track
  <2>1. CASE heard.verb = "created" /\ Belongs(r)
    <3>1. Announced(r) /\ state.alarm.raise = rows[r].of /\ state.alarm.row = 0
      BY <1>2, <2>1 DEF Announced, Belongs
    <3>2. Adopting(r)
      BY <1>2, <3>1 DEF Inv, AlarmInv, AnnouncedOK
    <3>3. alarm = [raise |-> state.alarm.raise, row |-> r, open |-> state.alarm.open]
      BY <1>3, <1>4, <2>1 DEF Track
    <3> QED BY <1>3, <3>1, <3>2, <3>3 DEF Track
  <2>2. CASE heard.verb # "created" /\ mine
    <3>1. alarm = [raise |-> state.alarm.raise, row |-> r, open |-> FALSE]
      BY <1>3, <1>4, <2>2 DEF Track
    <3>2. ~Free(r)
      BY <1>2, <2>2 DEF Inv, AlarmInv, FeedOK, Free, Verbs
    <3> QED BY <1>3, <2>2, <3>1, <3>2 DEF Track
  <2> QED BY <1>3, <1>4, <2>1, <2>2
<1> HIDE DEF r, mine
<1>7. /\ state'.alarm = alarm /\ state'.link = state.link /\ state'.read = state.read
      /\ state' \in [alarm : Track, online : BOOLEAN, watching : BOOLEAN, link : Nat, timers : Nat, read : Seq(Messages)]
  BY <1>3, <1>4, <1>6
<1>8. Grows /\ RowsOK' /\ MachineOK' /\ MailOK' /\ LaneOK' /\ RaiserOK' /\ Once'
  BY <1>1, GrowsAlone, Frame DEF Inv, AlarmInv
<1>9. FeedOK'
  BY <1>1, <1>2 DEF Inv, AlarmInv, FeedOK, NoEvent
<1>10. GatewayOK'
  BY <1>1, <1>2 DEF Inv, AlarmInv, GatewayOK
<1>11. /\ Alarms' = Alarms /\ Offlines' = Offlines /\ Mailed' = Mailed /\ Read' = Read /\ (Making' <=> Making)
       /\ \A q : (Ends(q)' <=> Ends(q)) /\ (Adopting(q)' <=> Adopting(q)) /\ (Free(q)' <=> Free(q))
  BY <1>1, <1>7 DEF Alarms, Offlines, Mailed, Read, Making, Ends, Adopting, Free
<1>12. \A q : Announced(q)' => Announced(q)
  BY <1>1, <1>2 DEF Announced, NoEvent
<1>13. AcksOK'
  <2>1. CASE heard.verb = "resolved" /\ state.alarm.row = r
    <3>1. rows[r].status = "resolved"
      BY <2>1 DEF Inv, AlarmInv, FeedOK, r
    <3>2. rows[r].by = "person"
      BY <1>2, <1>3, <2>1, <3>1 DEF Inv, AlarmInv, TrackOK, RowsOK, Row
    <3> QED BY <1>1, <1>2, <1>5, <1>11, <3>2 DEF Inv, AlarmInv, AcksOK
  <2>2. CASE acks' = acks
    BY <1>1, <1>11, <2>2 DEF Inv, AlarmInv, AcksOK
  <2> QED BY <1>5, <2>1, <2>2 DEF mine
<1>14. \A q \in Alarms : q \in Nat \ {0}
  BY RowsAre DEF Alarms, Inv, AlarmInv
<1>15. CASE alarm = state.alarm
  <2>1. TrackOK'
    BY <1>1, <1>7, <1>11, <1>15, MailedAre DEF Inv, AlarmInv, TrackOK, Known
  <2>2. AnnouncedOK'
    BY <1>1, <1>7, <1>11, <1>12, <1>15 DEF Inv, AlarmInv, AnnouncedOK
  <2>3. OneLeader' /\ NoneFailed'
    BY <1>1, <1>7, <1>8, <1>11, <1>15, FrameLast DEF Inv
  <2> QED BY <1>8, <1>9, <1>10, <1>13, <2>1, <2>2, <2>3 DEF Inv, AlarmInv
<1>16. CASE \/ Adopting(r) /\ state.alarm.row = 0 /\ alarm = [raise |-> state.alarm.raise, row |-> r, open |-> state.alarm.open]
                 /\ state.alarm.raise = rows[r].of
            \/ state.alarm.row = r /\ ~Free(r) /\ alarm = [raise |-> state.alarm.raise, row |-> r, open |-> FALSE]
  <2>1. alarm.raise = state.alarm.raise /\ alarm.row = r
    BY <1>16
  <2>2. ~Making
    <3>1. CASE Adopting(r)
      BY <3>1, Forms DEF FormsOK, Adopting
    <3>2. CASE state.alarm.row = r
      BY <1>3, <3>2 DEF Inv, AlarmInv, TrackOK
    <3> QED BY <1>16, <3>1, <3>2
  <2>3. rows[r].of = state.alarm.raise /\ rows[r].by # "controller"
    BY <1>2, <1>3, <1>16 DEF Inv, AlarmInv, TrackOK
  <2>4. \A q \in Alarms : Adopting(q) => q = r /\ (alarm.open \/ ~Free(r))
    <3> SUFFICES ASSUME NEW q \in Alarms, Adopting(q) PROVE q = r /\ (alarm.open \/ ~Free(r))
      OBVIOUS
    <3>1. \/ state.alarm.row = 0 /\ state.alarm.open
          \/ state.alarm.row = q /\ (state.alarm.open \/ ~Free(q))
      BY DEF Inv, AlarmInv, TrackOK
    <3>2. CASE Adopting(r) /\ state.alarm.row = 0 /\ alarm = [raise |-> state.alarm.raise, row |-> r, open |-> state.alarm.open]
      <4>1. q = r
        BY <3>2, Forms DEF FormsOK, Adopting
      <4> QED BY <1>14, <3>1, <3>2, <4>1
    <3>3. CASE state.alarm.row = r /\ ~Free(r)
      BY <1>3, <3>1, <3>3
    <3> QED BY <1>16, <3>2, <3>3
  <2>5. \A q \in Alarms : Ends(q) => state.alarm.raise # rows[q].of
    BY DEF Inv, AlarmInv, TrackOK
  <2>6. \A q \in Alarms : Adopting(q) => state.alarm.raise = lane.msg.n /\ rows[q].by # "controller"
    BY DEF Inv, AlarmInv, TrackOK
  <2>7. /\ state.link # 0 => state.link \in Offlines
        /\ \A m \in Read : Known(m)'
    BY <1>1 DEF Inv, AlarmInv, TrackOK, Known
  <2>8. TrackOK'
    BY <1>1, <1>2, <1>7, <1>11, <2>1, <2>2, <2>3, <2>4, <2>5, <2>6, <2>7 DEF TrackOK
  <2>9. AnnouncedOK'
    BY <1>1, <1>3, <1>7, <1>11, <1>12, <2>1 DEF Inv, AlarmInv, AnnouncedOK
  <2>10. OneLeader'
    BY <1>1, <1>11 DEF Inv, OneLeader
  <2>11. NoneFailed'
    <3>1. \A q \in Alarms : Free(q) /\ state.alarm.row = q /\ state.alarm.open /\ ~Making => FALSE \/ Adopting(q)
      BY <1>14, <1>16
    <3> QED BY <1>1, <1>11, <3>1 DEF Inv, NoneFailed
  <2> QED BY <1>8, <1>9, <1>10, <1>13, <2>8, <2>9, <2>10, <2>11 DEF Inv, AlarmInv
<1> QED BY <1>6, <1>15, <1>16 DEF mine

-----------------------------------------------------------------------------
(* The offline debounce                                                     *)

StateType == [alarm : Track, online : BOOLEAN, watching : BOOLEAN, link : Nat, timers : Nat, read : Seq(Messages)]

\* A step of the link leaves the track of the alarm alone.
LEMMA FrameLink ==
  ASSUME AlarmInv, UNCHANGED <<machine, rows, mail, late, lane, feed, heard>>, state' \in StateType,
         state'.alarm = state.alarm, state'.read = state.read, state'.link # 0 => state'.link \in Offlines
  PROVE  TrackOK' /\ AnnouncedOK'
<1>1. /\ Alarms' = Alarms /\ Offlines' = Offlines /\ Mailed' = Mailed /\ Read' = Read /\ (Making' <=> Making)
      /\ \A q : (Ends(q)' <=> Ends(q)) /\ (Adopting(q)' <=> Adopting(q)) /\ (Free(q)' <=> Free(q)) /\ (Announced(q)' <=> Announced(q))
  BY DEF Alarms, Offlines, Mailed, Read, Making, Ends, Adopting, Free, Announced
<1>2. TrackOK'
  BY <1>1, MailedAre DEF AlarmInv, TrackOK, Known, StateType
<1>3. AnnouncedOK'
  BY <1>1 DEF AlarmInv, AnnouncedOK
<1> QED BY <1>2, <1>3

LEMMA FiresSteps == Inv /\ Fires => Inv'
<1> SUFFICES ASSUME Inv, Fires PROVE Inv'
  OBVIOUS
<1>1. UNCHANGED <<setting, machine, mail, late, rows, feed, gateway, lane, heard, acks, spent, spoilt>>
  BY DEF Fires
<1>2. state \in StateType /\ state.timers > 0 /\ raiser = IdleRaiser /\ raiser' \in {IdleRaiser, [pc |-> "create", row |-> 0]}
  BY DEF Fires, Inv, AlarmInv, TrackOK, StateType
<1>3. PICK t \in Nat : t = state.timers - 1
  BY <1>2 DEF StateType
<1>4. state' = [state EXCEPT !.timers = t, !.watching = FALSE]
  BY <1>3 DEF Fires
<1>5. state'.alarm = state.alarm /\ state'.link = state.link /\ state'.read = state.read
  BY <1>2, <1>4 DEF StateType
<1>6. state' \in StateType
  BY <1>2, <1>3, <1>4 DEF StateType
<1>7. Grows /\ RowsOK' /\ FeedOK' /\ MachineOK' /\ MailOK' /\ LaneOK' /\ AcksOK' /\ Once'
  BY <1>1, GrowsAlone, Frame DEF Inv, AlarmInv
<1>8. RaiserOK'
  BY <1>2 DEF RaiserOK, IdleRaiser
<1>9. GatewayOK'
  <2>1. gateway # "down"
    BY <1>2 DEF Inv, AlarmInv, GatewayOK, Fresh
  <2> QED BY <1>1, <2>1 DEF Inv, AlarmInv, GatewayOK
<1>10. TrackOK' /\ AnnouncedOK'
  BY <1>1, <1>5, <1>6, FrameLink DEF Inv, AlarmInv, TrackOK
<1>11. Alarms' = Alarms /\ Mailed' = Mailed
  BY <1>1 DEF Alarms, Mailed
<1>12. OneLeader' /\ NoneFailed'
  BY <1>1, <1>5, <1>7, <1>11, FrameLast DEF Inv
<1> QED BY <1>7, <1>8, <1>9, <1>10, <1>12 DEF Inv, AlarmInv

\* A row is raised for a machine that is offline.
LEMMA OfflineCreated ==
  ASSUME Inv, RaiseOffline, raiser.pc = "create"
  PROVE  Inv'
<1>1. UNCHANGED <<setting, machine, mail, late, gateway, lane, heard, acks, spent, spoilt, state>>
  BY DEF RaiseOffline
<1>2. Insert("offline", 0) /\ raiser' = [pc |-> "adopt", row |-> Len(rows) + 1]
  BY DEF RaiseOffline
<1>3. PICK new : new = Len(rows) + 1
  OBVIOUS
<1>4. /\ RowsOK' /\ Grows /\ new \in Nat \ {0} /\ DOMAIN rows' = DOMAIN rows \union {new}
      /\ (\A r \in DOMAIN rows : rows'[r] = rows[r])
      /\ Alarms' = Alarms /\ Offlines' = Offlines \union {new}
  BY <1>1, <1>2, <1>3, RowInserted DEF Inv, AlarmInv
<1>5. Emit(new, "created") /\ feed \in Seq(Events)
  BY <1>2, <1>3 DEF Insert, Inv, AlarmInv, FeedOK
<1>6. /\ feed' \in Seq(Events)
      /\ \A i \in DOMAIN feed' : (i \in DOMAIN feed /\ feed'[i] = feed[i]) \/ feed'[i] = [row |-> new, verb |-> "created"]
      /\ gateway # "up" => feed' = feed
  BY <1>4, <1>5, FeedEmitted DEF Verbs
<1>7. MachineOK' /\ MailOK' /\ LaneOK' /\ AcksOK' /\ Once'
  BY <1>1, <1>4, Frame DEF Inv
<1>8. FeedOK'
  BY <1>1, <1>4, <1>6, FeedKept DEF Inv, AlarmInv
<1>9. RaiserOK'
  BY <1>2, <1>3, <1>4 DEF RaiserOK
<1>10. GatewayOK'
  <2>1. gateway # "down"
    BY DEF Inv, AlarmInv, GatewayOK, IdleRaiser
  <2> QED BY <1>1, <1>6, <2>1 DEF Inv, AlarmInv, GatewayOK
<1>11. TrackOK'
  <2>1. \A r \in Alarms : rows'[r] = rows[r]
    BY <1>4 DEF Alarms
  <2> QED BY <1>1, <1>4, <2>1, FrameTrack DEF Inv
<1>12. \A r \in Alarms : Announced(r)' => Announced(r)
  <2> SUFFICES ASSUME NEW r \in Alarms, Announced(r)' PROVE Announced(r)
    OBVIOUS
  <2>1. r # new
    <3>1. new \in Offlines'
      BY <1>4
    <3>2. r \in Alarms'
      BY <1>4
    <3> QED BY <3>1, <3>2 DEF Offlines, Alarms
  <2>2. [row |-> r, verb |-> "created"] # [row |-> new, verb |-> "created"]
    BY <2>1
  <2> QED BY <1>1, <1>6, <2>2 DEF Announced
<1>13. AnnouncedOK'
  BY <1>1, <1>4, <1>12, FrameAnnounced DEF Inv
<1>14. Mailed' = Mailed
  BY <1>1 DEF Mailed
<1>15. OneLeader' /\ NoneFailed'
  BY <1>1, <1>4, <1>14, FrameLast DEF Inv
<1> QED BY <1>4, <1>7, <1>8, <1>9, <1>10, <1>11, <1>13, <1>15 DEF Inv, AlarmInv

\* The controller ends a row for an offline machine.
LEMMA OfflineClosed ==
  ASSUME Inv, NEW r \in Offlines, Close(r),
         UNCHANGED <<setting, machine, mail, late, gateway, heard, acks, spent, spoilt, lane, state>>,
         raiser' = IdleRaiser
  PROVE  Inv'
<1>1. r \in DOMAIN rows /\ r \notin Alarms
  BY DEF Offlines, Alarms
<1>2. /\ Grows /\ RowsOK' /\ DOMAIN rows' = DOMAIN rows /\ Alarms' = Alarms /\ Offlines' = Offlines
      /\ \A q \in DOMAIN rows : q # r => rows'[q] = rows[q]
      /\ feed' \in Seq(Events)
      /\ \A i \in DOMAIN feed' : (i \in DOMAIN feed /\ feed'[i] = feed[i]) \/ feed'[i] = [row |-> r, verb |-> "resolved"]
      /\ gateway # "up" => feed' = feed
  BY <1>1, RowClosed DEF Inv, AlarmInv, FeedOK
<1>3. MachineOK' /\ MailOK' /\ LaneOK' /\ AcksOK' /\ Once'
  BY <1>2, Frame DEF Inv
<1>4. FeedOK'
  BY <1>1, <1>2, FeedKept DEF Inv, AlarmInv
<1>5. RaiserOK'
  BY DEF RaiserOK, IdleRaiser
<1>6. GatewayOK'
  BY <1>2 DEF Inv, AlarmInv, GatewayOK
<1>7. TrackOK'
  <2>1. \A q \in Alarms : rows'[q] = rows[q]
    BY <1>1, <1>2 DEF Alarms
  <2> QED BY <1>2, <2>1, FrameTrack DEF Inv
<1>8. \A q \in Alarms : Announced(q)' => Announced(q)
  BY <1>2, AnnouncesNoMore
<1>9. AnnouncedOK'
  BY <1>2, <1>8, FrameAnnounced DEF Inv
<1>10. Mailed' = Mailed
  BY DEF Mailed
<1>11. OneLeader' /\ NoneFailed'
  BY <1>2, <1>10, FrameLast DEF Inv
<1> QED BY <1>2, <1>3, <1>4, <1>5, <1>6, <1>7, <1>9, <1>11 DEF Inv, AlarmInv

LEMMA RaiseOfflineSteps == Inv /\ RaiseOffline => Inv'
<1> SUFFICES ASSUME Inv, RaiseOffline PROVE Inv'
  OBVIOUS
<1>1. UNCHANGED <<setting, machine, mail, late, gateway, lane, heard, acks, spent, spoilt>>
  BY DEF RaiseOffline
<1>2. CASE raiser.pc = "create"
  BY <1>2, OfflineCreated
<1>3. CASE raiser.pc = "adopt"
  <2>1. UNCHANGED <<rows, feed>> /\ raiser.row \in Offlines /\ gateway # "down" /\ raiser.row \in Nat
    BY <1>3 DEF RaiseOffline, Inv, AlarmInv, RaiserOK, GatewayOK, IdleRaiser
  <2>2. state \in StateType
    BY DEF Inv, AlarmInv, TrackOK, StateType
  <2>3. /\ state' \in StateType /\ state'.alarm = state.alarm /\ state'.read = state.read
        /\ state'.link # 0 => state'.link \in Offlines
    <3>1. CASE state' = [state EXCEPT !.link = raiser.row]
      BY <2>1, <2>2, <3>1 DEF StateType
    <3>2. CASE state' = state
      BY <2>2, <3>2 DEF Inv, AlarmInv, TrackOK
    <3> QED BY <1>3, <3>1, <3>2 DEF RaiseOffline
  <2>4. Offlines' = Offlines /\ Alarms' = Alarms /\ Mailed' = Mailed
    BY <1>1, <2>1 DEF Offlines, Alarms, Mailed
  <2>5. RaiserOK'
    <3>1. CASE raiser' = IdleRaiser
      BY <3>1 DEF RaiserOK, IdleRaiser
    <3>2. CASE raiser' = [raiser EXCEPT !.pc = "restore"]
      BY <2>1, <2>4, <3>2 DEF Inv, AlarmInv, RaiserOK
    <3> QED BY <1>3, <3>1, <3>2 DEF RaiseOffline
  <2>6. Grows /\ RowsOK' /\ FeedOK' /\ MachineOK' /\ MailOK' /\ LaneOK' /\ AcksOK' /\ Once'
    BY <1>1, <2>1, GrowsAlone, Frame DEF Inv, AlarmInv
  <2>7. GatewayOK'
    BY <1>1, <2>1 DEF Inv, AlarmInv, GatewayOK
  <2>8. TrackOK' /\ AnnouncedOK'
    BY <1>1, <2>1, <2>3, FrameLink DEF Inv
  <2>9. OneLeader' /\ NoneFailed'
    BY <1>1, <2>3, <2>4, <2>6, FrameLast DEF Inv
  <2> QED BY <2>5, <2>6, <2>7, <2>8, <2>9 DEF Inv, AlarmInv
<1>4. CASE raiser.pc = "restore"
  <2>1. Close(raiser.row) /\ raiser' = IdleRaiser /\ UNCHANGED state /\ raiser.row \in Offlines
    BY <1>4 DEF RaiseOffline, Inv, AlarmInv, RaiserOK
  <2> QED BY <1>1, <2>1, OfflineClosed
<1> QED BY <1>2, <1>3, <1>4 DEF RaiseOffline

LEMMA FailOfflineSteps == Inv /\ FailOffline => Inv'
<1> SUFFICES ASSUME Inv, FailOffline PROVE Inv'
  OBVIOUS
<1>1. UNCHANGED <<setting, machine, mail, late, rows, feed, gateway, state, lane, heard, acks>> /\ raiser' = IdleRaiser
  BY DEF FailOffline
<1>2. spent' = [spent EXCEPT !.failures = spent.failures + 1] /\ spoilt' = spoilt \union {"failed"}
  BY DEF FailOffline, Failing
<1>3. spent'.takeovers = spent.takeovers /\ spent' \in [takeovers : Nat, failures : Nat]
  BY <1>2 DEF Inv, AlarmInv, MachineOK
<1>4. Grows /\ RowsOK' /\ FeedOK' /\ MailOK' /\ LaneOK' /\ AcksOK' /\ Once'
  BY <1>1, GrowsAlone, Frame DEF Inv, AlarmInv
<1>5. MachineOK'
  BY <1>1, <1>3 DEF Inv, AlarmInv, MachineOK
<1>6. RaiserOK' /\ GatewayOK'
  BY <1>1 DEF RaiserOK, IdleRaiser, Inv, AlarmInv, GatewayOK
<1>7. TrackOK' /\ AnnouncedOK'
  BY <1>1, FrameLink DEF Inv, AlarmInv, TrackOK, StateType
<1>8. Alarms' = Alarms /\ Mailed' = Mailed
  BY <1>1 DEF Alarms, Mailed
<1>9. OneLeader' /\ NoneFailed'
  BY <1>1, <1>2, <1>3, <1>4, <1>8, FrameLast DEF Inv
<1> QED BY <1>4, <1>5, <1>6, <1>7, <1>9 DEF Inv, AlarmInv

-----------------------------------------------------------------------------
(* The message lane takes a message                                         *)

LaneFor(m, todo) == [msg |-> m, todo |-> todo, live |-> TRUE]
Tracks(s) == s.alarm.open /\ s.alarm.row # 0

LEMMA Tuples ==
  ASSUME NEW x, NEW y
  PROVE  /\ <<x>> # <<>> /\ <<y, x>> # <<>>
         /\ Append(<<>>, x) = <<x>> /\ Append(<<y>>, x) = <<y, x>>
<1>1. Len(<<x>>) = 1 /\ Len(<<y, x>>) = 2 /\ Len(<<>>) = 0
  OBVIOUS
<1>2. Append(<<>>, x) = <<x>>
  OBVIOUS
<1>3. Append(<<y>>, x) = <<y, x>>
  <2>1. <<y>> \in Seq({x, y}) /\ <<y, x>> \in Seq({x, y})
    OBVIOUS
  <2>2. PICK t : t = Append(<<y>>, x)
    OBVIOUS
  <2>3. t \in Seq({x, y}) /\ Len(t) = 2 /\ t[1] = y /\ t[2] = x
    BY <1>1, <2>1, <2>2, AppendProperties
  <2>4. \A i \in 1..2 : t[i] = <<y, x>>[i]
    BY <2>3
  <2>5. t = <<y, x>>
    BY <1>1, <2>1, <2>3, <2>4, SeqEqual
  <2> QED BY <2>2, <2>5
<1> QED BY <1>1, <1>2, <1>3

\* What a plan does, case by case.
LEMMA PlanShape ==
  ASSUME NEW s \in StateType, NEW m \in Messages, Begin(m, s)
  PROVE  /\ state' \in StateType /\ state'.read = s.read /\ state'.link \in {s.link, 0}
         /\ \/ lane' = IdleLane /\ state'.alarm = s.alarm
            \/ /\ m.kind = "on" /\ s.link # 0 /\ state'.alarm = s.alarm
               /\ lane' = LaneFor(m, <<Do("resolve", s.link)>>)
            \/ /\ m.kind # "raise" /\ state'.alarm = NoTrack
               /\ IF Tracks(s) THEN lane' = LaneFor(m, <<Do("resolve", s.alarm.row)>>) ELSE lane' = IdleLane
            \/ /\ m.kind = "raise" /\ s.alarm.raise # m.n
               /\ state'.alarm = [raise |-> m.n, row |-> 0, open |-> TRUE]
               /\ lane' = LaneFor(m, IF Tracks(s) THEN <<Do("resolve", s.alarm.row), Do("create", m.n)>>
                                     ELSE <<Do("create", m.n)>>)
<1>1. m.kind \in {"raise", "clear", "off", "on", "absent"} /\ m.n \in Nat
  BY DEF Messages
<1>2. PICK plan : plan = Planned(s, m)
  OBVIOUS
<1>3. /\ state' = plan.state
      /\ lane' = IF plan.todo = <<>> THEN IdleLane ELSE LaneFor(m, plan.todo)
  BY <1>2 DEF Begin, LaneFor
<1>4. NoTrack \in Track
  BY DEF NoTrack, Track
<1>5. \A x, y : /\ <<x>> # <<>> /\ <<y, x>> # <<>>
                /\ Append(<<>>, x) = <<x>> /\ Append(<<y>>, x) = <<y, x>>
  BY Tuples
<1>6. CASE m.kind = "raise"
  <2>1. plan = Raised(s, m.n)
    BY <1>2, <1>6 DEF Planned
  <2>2. CASE s.alarm.raise = m.n
    <3>1. plan.state = s /\ plan.todo = <<>>
      BY <2>1, <2>2 DEF Raised, Plan
    <3> QED BY <1>3, <3>1
  <2>3. CASE s.alarm.raise # m.n
    <3>1. PICK track : track = [raise |-> m.n, row |-> 0, open |-> TRUE]
      OBVIOUS
    <3>2. track \in Track
      BY <1>1, <3>1 DEF Track
    <3>3. plan.state = [s EXCEPT !.alarm = track] /\ plan.todo = Append(EndOf(s.alarm), Do("create", m.n))
      BY <2>1, <2>3, <3>1 DEF Raised, Plan
    <3>4. state' \in StateType /\ state'.alarm = track /\ state'.read = s.read /\ state'.link = s.link
      BY <1>3, <3>2, <3>3 DEF StateType
    <3>5. plan.todo = IF Tracks(s) THEN <<Do("resolve", s.alarm.row), Do("create", m.n)>> ELSE <<Do("create", m.n)>>
      <4> HIDE DEF Do
      <4> QED BY <1>5, <3>3 DEF EndOf, Tracks
    <3>6. plan.todo # <<>>
      <4> HIDE DEF Do
      <4> QED BY <1>5, <3>5
    <3> QED BY <1>3, <1>6, <2>3, <3>1, <3>4, <3>5, <3>6
  <2> QED BY <2>2, <2>3
<1>7. CASE m.kind \in {"clear", "absent"}
  <2>1. plan = Cleared(s)
    BY <1>2, <1>7 DEF Planned
  <2>2. plan.state = [s EXCEPT !.alarm = NoTrack] /\ plan.todo = EndOf(s.alarm)
    BY <2>1 DEF Cleared, Plan
  <2>3. state' \in StateType /\ state'.alarm = NoTrack /\ state'.read = s.read /\ state'.link = s.link
    BY <1>3, <1>4, <2>2 DEF StateType
  <2>4. plan.todo = IF Tracks(s) THEN <<Do("resolve", s.alarm.row)>> ELSE <<>>
    BY <2>2 DEF EndOf, Tracks
  <2>5. Tracks(s) => plan.todo # <<>>
    <3> HIDE DEF Do
    <3> QED BY <1>5, <2>4
  <2> QED BY <1>3, <1>7, <2>3, <2>4, <2>5
<1>8. CASE m.kind = "off"
  <2>1. plan = WentOff(s)
    BY <1>2, <1>8 DEF Planned
  <2>2. PICK off : off = [s EXCEPT !.online = FALSE]
    OBVIOUS
  <2>3. off \in StateType /\ off.alarm = s.alarm /\ off.read = s.read /\ off.link = s.link
    BY <2>2 DEF StateType
  <2>4. plan.todo = <<>> /\ (plan.state = off \/ plan.state = [off EXCEPT !.watching = TRUE, !.timers = off.timers + 1])
    BY <2>1, <2>2 DEF WentOff, Plan
  <2>5. PICK t \in Nat : t = off.timers + 1
    BY <2>3 DEF StateType
  <2>6. plan.state \in StateType
    BY <2>3, <2>4, <2>5 DEF StateType
  <2>7. plan.state.alarm = s.alarm /\ plan.state.read = s.read /\ plan.state.link = s.link
    BY <2>3, <2>4 DEF StateType
  <2> QED BY <1>3, <2>4, <2>6, <2>7
<1>9. CASE m.kind = "on"
  <2>1. plan = CameBack(s)
    BY <1>2, <1>9 DEF Planned
  <2>2. /\ plan.state = [s EXCEPT !.online = TRUE, !.watching = FALSE, !.link = 0]
        /\ plan.todo = IF s.link # 0 THEN <<Do("resolve", s.link)>> ELSE <<>>
    BY <2>1 DEF CameBack, Plan
  <2>3. PICK t : t = [s EXCEPT !.online = TRUE]
    OBVIOUS
  <2>4. t \in StateType /\ t.alarm = s.alarm /\ t.read = s.read
    BY <2>3 DEF StateType
  <2>5. PICK q : q = [t EXCEPT !.watching = FALSE]
    OBVIOUS
  <2>6. q \in StateType /\ q.alarm = s.alarm /\ q.read = s.read
    BY <2>4, <2>5 DEF StateType
  <2>7. plan.state = [q EXCEPT !.link = 0]
    BY <2>2, <2>3, <2>5
  <2>8. plan.state \in StateType /\ plan.state.alarm = s.alarm /\ plan.state.read = s.read /\ plan.state.link = 0
    BY <2>6, <2>7 DEF StateType
  <2>9. s.link # 0 => plan.todo # <<>>
    <3> HIDE DEF Do
    <3> QED BY <1>5, <2>2
  <2> QED BY <1>3, <1>9, <2>2, <2>8, <2>9
<1> QED BY <1>1, <1>6, <1>7, <1>8, <1>9

LEMMA IdleForms == lane = IdleLane => ~Making /\ \A q : ~Ends(q) /\ ~Adopting(q)
BY Forms DEF FormsOK, IdleLane

LEMMA Known0 == AlarmInv => \A r \in Alarms : rows[r].of \in Nat \ {0} /\ r \in Nat \ {0}
<1> SUFFICES ASSUME AlarmInv, NEW r \in Alarms PROVE rows[r].of \in Nat \ {0} /\ r \in Nat \ {0}
  OBVIOUS
<1>1. rows[r] \in Row /\ r \in Nat \ {0} /\ 1 <= rows[r].of
  BY RowsAre DEF AlarmInv, RowsOK, Alarms
<1>2. rows[r].of \in Nat
  BY <1>1 DEF Row
<1> QED BY <1>1, <1>2

LEMMA RaiseMessages == \A n : RaiseMessage(n).kind = "raise" /\ RaiseMessage(n).n = n
BY DEF RaiseMessage, Message

LEMMA RaiseIs == \A m \in Messages : m.kind = "raise" => m = RaiseMessage(m.n)
BY DEF Messages, RaiseMessage, Message

\* A message is begun: one that was mailed, which then is not mailed any more, or one
\* that was read back before anything is heard.
LEMMA BeginKeeps ==
  ASSUME Inv, lane = IdleLane, NEW s \in StateType, NEW m \in Messages, Begin(m, s), Known(m),
         s.alarm = state.alarm, s.link = state.link, \A x : x \in {s.read[i] : i \in DOMAIN s.read} => Known(x),
         UNCHANGED <<setting, machine, rows, feed, gateway, heard, raiser, acks, spent, spoilt>>,
         MailOK', Mailed' \subseteq Mailed, late' \subseteq late,
         \A i, j \in DOMAIN mail' : mail'[i].kind = "raise" /\ mail'[i] = mail'[j] => i = j,
         \/ gateway = "reading"
         \/ gateway = "up" /\ m.kind # "absent" /\ m \in Mailed \union late /\ (m.kind = "raise" => m \notin Mailed' \union late')
  PROVE  Inv'
<1>1. /\ state' \in StateType /\ state'.read = s.read /\ state'.link \in {state.link, 0}
      /\ \/ lane' = IdleLane /\ state'.alarm = state.alarm
         \/ /\ m.kind = "on" /\ state.link # 0 /\ state'.alarm = state.alarm
            /\ lane' = LaneFor(m, <<Do("resolve", state.link)>>)
         \/ /\ m.kind # "raise" /\ state'.alarm = NoTrack
            /\ IF Tracks(state) THEN lane' = LaneFor(m, <<Do("resolve", state.alarm.row)>>) ELSE lane' = IdleLane
         \/ /\ m.kind = "raise" /\ state.alarm.raise # m.n
            /\ state'.alarm = [raise |-> m.n, row |-> 0, open |-> TRUE]
            /\ lane' = LaneFor(m, IF Tracks(state) THEN <<Do("resolve", state.alarm.row), Do("create", m.n)>>
                                  ELSE <<Do("create", m.n)>>)
  BY PlanShape DEF Tracks
<1>2. ~Making /\ \A q : ~Ends(q) /\ ~Adopting(q)
  BY IdleForms
<1>3. /\ Alarms' = Alarms /\ Offlines' = Offlines
      /\ \A q : (Free(q)' <=> Free(q)) /\ (Announced(q)' <=> Announced(q))
  BY DEF Alarms, Offlines, Free, Announced
<1>4. \A r \in Alarms : rows[r].of \in Nat \ {0} /\ r \in Nat \ {0} /\ r \notin Offlines
  BY Known0 DEF Inv, Alarms, Offlines
<1>5. Grows /\ RowsOK' /\ MachineOK' /\ FeedOK' /\ RaiserOK' /\ AcksOK'
  BY GrowsAlone, Frame DEF Inv, AlarmInv
<1>6. GatewayOK'
  BY DEF Inv, AlarmInv, GatewayOK
<1>7. m.n \in Nat /\ (m.kind = "absent" => gateway = "reading") /\ (m.kind = "raise" => m = RaiseMessage(m.n))
  BY RaiseIs DEF Messages
<1>8. Tracks(state) => state.alarm.row \in Alarms /\ rows[state.alarm.row].of = state.alarm.raise
  BY DEF Tracks, Inv, AlarmInv, TrackOK
<1>9. state.link # 0 => state.link \in Offlines
  BY DEF Inv, AlarmInv, TrackOK
<1>10. /\ state'.link # 0 => state'.link \in Offlines'
       /\ \A x \in Read' : Known(x)'
  BY <1>1, <1>3, <1>9 DEF Read, Known
<1>11. \A todo : LaneFor(m, todo).msg = m /\ LaneFor(m, todo).todo = todo /\ LaneFor(m, todo).live
  BY DEF LaneFor
<1>12. /\ \A x \in Nat : <<Do("resolve", x)>> \in Seq(Steps) /\ <<Do("create", x)>> \in Seq(Steps)
       /\ \A x, y \in Nat : <<Do("resolve", x), Do("create", y)>> \in Seq(Steps)
  BY DEF Do, Steps
<1>13. \A todo \in Seq(Steps) : LaneFor(m, todo) \in [msg : Messages, todo : Seq(Steps), live : BOOLEAN]
  BY DEF LaneFor
<1>14. \A r \in Offlines : r \in Nat /\ r \in DOMAIN rows
  BY RowsAre DEF Offlines, Inv, AlarmInv
<1>15. \A r \in Alarms : r \in DOMAIN rows
  BY DEF Alarms
<1>16. Known(m)'
  BY DEF Known
<1>17. \A r \in Alarms : Free(r) /\ gateway # "down" /\ "failed" \notin spoilt => Tracks(state) /\ state.alarm.row = r
  BY <1>2, <1>4 DEF Inv, NoneFailed, Tracks
<1>18. (lane' = IdleLane => ~Making' /\ \A q : ~Ends(q)' /\ ~Adopting(q)') /\ FormsOK'
  BY FormsNext DEF FormsOK, IdleLane
<1>19. "failed" \notin spoilt => \A r, o \in Alarms : r < o => ~Free(r)
  BY DEF Inv, NoneFailed
<1>20. \A r \in Alarms : Announced(r) =>
         /\ gateway = "up" /\ m # RaiseMessage(rows[r].of)
         /\ RaiseMessage(rows[r].of) \notin Mailed \union late
         /\ ~(state.alarm.raise = rows[r].of /\ state.alarm.row = 0)
  <2> SUFFICES ASSUME NEW r \in Alarms, Announced(r)
               PROVE  /\ gateway = "up" /\ m # RaiseMessage(rows[r].of)
                      /\ RaiseMessage(rows[r].of) \notin Mailed \union late
                      /\ ~(state.alarm.raise = rows[r].of /\ state.alarm.row = 0)
    OBVIOUS
  <2>1. /\ RaiseMessage(rows[r].of) \notin Mailed \union late
        /\ ~(state.alarm.raise = rows[r].of /\ state.alarm.row = 0)
    BY <1>2 DEF Inv, AlarmInv, AnnouncedOK
  <2>2. gateway # "reading"
    <3> SUFFICES ASSUME gateway = "reading" PROVE FALSE
      OBVIOUS
    <3>1. feed = <<>> /\ heard = NoEvent
      BY DEF Inv, AlarmInv, GatewayOK
    <3> QED BY <3>1 DEF Announced, NoEvent
  <2> QED BY <2>1, <2>2
<1>21. \A n : RaiseMessage(n).kind = "raise"
  BY RaiseMessages
<1>22. \A r \in Alarms : spent.takeovers = 0 => m # RaiseMessage(rows[r].of)
  BY DEF Inv, OneLeader
<1>23. OneLeader' <=> (spent.takeovers = 0 =>
         /\ gateway = "up"
         /\ \A r \in Alarms : RaiseMessage(rows[r].of) \notin Mailed' \union late' /\ (Making' => lane'.msg.n # rows[r].of)
         /\ \A r, o \in Alarms : rows[r].of = rows[o].of => r = o)
  BY <1>3 DEF OneLeader
<1>24. NoneFailed' <=> ("failed" \notin spoilt =>
         /\ \A r, o \in Alarms : r < o => ~Free(r)
         /\ gateway # "down" => \A r \in Alarms : Free(r) =>
              \/ state'.alarm.row = r /\ state'.alarm.open /\ ~Making'
              \/ Ends(r)'
              \/ Adopting(r)')
  BY <1>3 DEF NoneFailed
<1>25. spent.takeovers = 0 =>
         /\ gateway = "up"
         /\ \A r \in Alarms : RaiseMessage(rows[r].of) \notin Mailed' \union late'
         /\ \A r, o \in Alarms : rows[r].of = rows[o].of => r = o
  BY DEF Inv, OneLeader
<1>26. Once' <=>
         /\ \A x \in Mailed' \union late' : x.kind = "raise" /\ Holding' => lane'.msg # x
  <2>1. \A x \in Mailed' : x.kind = "raise" => x \notin late'
    BY DEF Inv, AlarmInv, Once
  <2> QED BY <2>1 DEF Once
<1>27. CASE lane' = IdleLane /\ (state'.alarm = state.alarm \/ (state'.alarm = NoTrack /\ ~Tracks(state)))
  <2>1. lane'.msg.kind = "none" /\ ~Holding' /\ LaneOK'
    BY <1>27 DEF IdleLane, NoMessage, Message, Holding, LaneOK
  <2>2. TrackOK'
    <3>1. state'.alarm.row # 0 => state'.alarm = state.alarm
      BY <1>27 DEF NoTrack
    <3> QED BY <1>1, <1>3, <1>10, <1>18, <1>27, <3>1 DEF TrackOK, StateType, Inv, AlarmInv
  <2>3. AnnouncedOK'
    <3>1. \A r \in Alarms : state'.alarm.raise = rows[r].of /\ state'.alarm.row = 0 => state'.alarm = state.alarm
      BY <1>4, <1>27 DEF NoTrack
    <3> QED BY <1>3, <1>20, <1>21, <2>1, <3>1 DEF AnnouncedOK
  <2>4. OneLeader'
    BY <1>18, <1>23, <1>25, <1>27
  <2>5. NoneFailed'
    BY <1>17, <1>18, <1>19, <1>24, <1>27 DEF Tracks
  <2> QED BY <1>5, <1>6, <1>26, <2>1, <2>2, <2>3, <2>4, <2>5 DEF Inv, AlarmInv
<1>28. CASE /\ m.kind = "on" /\ state.link # 0 /\ state'.alarm = state.alarm
            /\ lane' = LaneFor(m, <<Do("resolve", state.link)>>)
  <2> DEFINE l == state.link
  <2>1. l \in Offlines /\ lane'.msg = m /\ lane'.todo = <<Do("resolve", l)>>
    BY <1>9, <1>11, <1>28
  <2>2. ~Making' /\ \A q : (Ends(q)' <=> q = l) /\ ~Adopting(q)'
    BY <1>18, <2>1 DEF FormsOK
  <2>3. LaneOK'
    BY <1>7, <1>12, <1>13, <1>14, <1>16, <1>28, <2>1 DEF LaneOK
  <2>4. TrackOK'
    BY <1>1, <1>3, <1>4, <1>10, <1>28, <2>1, <2>2 DEF TrackOK, StateType, Inv, AlarmInv
  <2>5. AnnouncedOK'
    BY <1>3, <1>20, <1>28, <2>1, <2>2 DEF AnnouncedOK
  <2>6. OneLeader' /\ NoneFailed'
    BY <1>17, <1>19, <1>23, <1>24, <1>25, <1>28, <2>2 DEF Tracks
  <2>7. Once'
    BY <1>26, <1>28, <2>1
  <2> QED BY <1>5, <1>6, <2>3, <2>4, <2>5, <2>6, <2>7 DEF Inv, AlarmInv
<1>29. CASE /\ m.kind # "raise" /\ state'.alarm = NoTrack /\ Tracks(state)
            /\ lane' = LaneFor(m, <<Do("resolve", state.alarm.row)>>)
  <2> DEFINE l == state.alarm.row
  <2>1. l \in Alarms /\ lane'.msg = m /\ lane'.todo = <<Do("resolve", l)>>
    BY <1>8, <1>11, <1>29
  <2>2. ~Making' /\ \A q : (Ends(q)' <=> q = l) /\ ~Adopting(q)'
    BY <1>18, <2>1 DEF FormsOK
  <2>3. NoTrack.raise = 0 /\ NoTrack.row = 0
    BY DEF NoTrack
  <2>4. LaneOK'
    BY <1>4, <1>7, <1>12, <1>13, <1>15, <1>16, <1>29, <2>1 DEF LaneOK
  <2>5. TrackOK'
    BY <1>1, <1>3, <1>4, <1>10, <1>29, <2>1, <2>2, <2>3 DEF TrackOK, StateType
  <2>6. AnnouncedOK'
    BY <1>3, <1>4, <1>20, <1>29, <2>1, <2>2, <2>3 DEF AnnouncedOK
  <2>7. OneLeader' /\ NoneFailed'
    BY <1>17, <1>19, <1>23, <1>24, <1>25, <1>29, <2>2
  <2>8. Once'
    BY <1>26, <1>29, <2>1
  <2> QED BY <1>5, <1>6, <2>4, <2>5, <2>6, <2>7, <2>8 DEF Inv, AlarmInv
<1>30. CASE /\ m.kind = "raise" /\ state.alarm.raise # m.n
            /\ state'.alarm = [raise |-> m.n, row |-> 0, open |-> TRUE]
            /\ lane' = LaneFor(m, IF Tracks(state) THEN <<Do("resolve", state.alarm.row), Do("create", m.n)>>
                                  ELSE <<Do("create", m.n)>>)
  <2> DEFINE l == state.alarm.row
  <2>1. lane'.msg = m /\ state'.alarm.raise = m.n /\ state'.alarm.row = 0
    BY <1>11, <1>30
  <2>2. Making' /\ (\A q : ~Adopting(q)') /\ \A q : Ends(q)' <=> Tracks(state) /\ q = l
    <3>1. CASE Tracks(state)
      <4>1. lane'.todo = <<Do("resolve", l), Do("create", m.n)>>
        BY <1>11, <1>30, <3>1
      <4> QED BY <1>18, <3>1, <4>1 DEF FormsOK
    <3>2. CASE ~Tracks(state)
      <4>1. lane'.todo = <<Do("create", m.n)>>
        BY <1>11, <1>30, <3>2
      <4> QED BY <1>18, <3>2, <4>1 DEF FormsOK
    <3> QED BY <3>1, <3>2
  <2>3. LaneOK'
    <3>1. CASE Tracks(state)
      <4>1. lane' = LaneFor(m, <<Do("resolve", l), Do("create", m.n)>>) /\ l \in Alarms
        BY <1>8, <1>30, <3>1
      <4>2. l \in Alarms' /\ lane'.msg.kind = "raise" /\ Known(lane.msg)'
        BY <1>3, <1>16, <1>30, <2>1, <4>1 DEF Known
      <4>3. lane'.todo = <<Do("resolve", l), Do("create", lane'.msg.n)>>
        BY <1>11, <2>1, <4>1
      <4>4. lane' \in [msg : Messages, todo : Seq(Steps), live : BOOLEAN]
        BY <1>4, <1>7, <1>12, <1>13, <4>1
      <4> QED BY <4>2, <4>3, <4>4 DEF LaneOK
    <3>2. CASE ~Tracks(state)
      <4>1. lane' = LaneFor(m, <<Do("create", m.n)>>)
        BY <1>30, <3>2
      <4>2. lane'.msg.kind = "raise" /\ Known(lane.msg)'
        BY <1>16, <1>30, <2>1 DEF Known
      <4>3. lane'.todo = <<Do("create", lane'.msg.n)>>
        BY <1>11, <2>1, <4>1
      <4>4. lane' \in [msg : Messages, todo : Seq(Steps), live : BOOLEAN]
        BY <1>7, <1>12, <1>13, <4>1
      <4> QED BY <4>2, <4>3, <4>4 DEF LaneOK
    <3> QED BY <3>1, <3>2
  <2>4. \A q \in Alarms : Ends(q)' => rows[q].of # m.n
    BY <1>8, <1>30, <2>2
  <2>5. TrackOK'
    BY <1>1, <1>3, <1>10, <1>30, <2>1, <2>2, <2>4 DEF TrackOK, StateType
  <2>6. AnnouncedOK'
    BY <1>3, <1>7, <1>20, <1>30, <2>1 DEF AnnouncedOK
  <2>7. OneLeader'
    BY <1>7, <1>22, <1>23, <1>25, <1>30, <2>1
  <2>8. NoneFailed'
    BY <1>17, <1>19, <1>24, <2>2
  <2>9. Once'
    <3>1. Holding' => gateway # "reading"
      BY DEF Holding
    <3> QED BY <1>26, <1>30, <2>1, <3>1
  <2> QED BY <1>5, <1>6, <2>3, <2>5, <2>6, <2>7, <2>8, <2>9 DEF Inv, AlarmInv
<1>31. CASE /\ m.kind # "raise" /\ state'.alarm = NoTrack
            /\ IF Tracks(state) THEN lane' = LaneFor(m, <<Do("resolve", state.alarm.row)>>) ELSE lane' = IdleLane
  <2>1. CASE Tracks(state)
    BY <1>29, <1>31, <2>1
  <2>2. CASE ~Tracks(state)
    BY <1>27, <1>31, <2>2
  <2> QED BY <2>1, <2>2
<1>32. CASE lane' = IdleLane /\ state'.alarm = state.alarm
  BY <1>27, <1>32
<1> QED BY <1>1, <1>28, <1>30, <1>31, <1>32

LEMMA TakeSteps == Inv /\ Take => Inv'
<1> SUFFICES ASSUME Inv, Take PROVE Inv'
  OBVIOUS
<1>1. gateway = "up" /\ lane = IdleLane /\ UNCHANGED <<setting, machine, rows, feed, gateway, heard, raiser, acks, spent, spoilt>>
  BY DEF Take
<1>2. state \in StateType /\ \A x : x \in {state.read[i] : i \in DOMAIN state.read} => Known(x)
  BY DEF Inv, AlarmInv, TrackOK, StateType, Read
<1>3. /\ mail \in Seq(Mails) /\ late \subseteq Mails /\ Mailed \subseteq Mails /\ Mails \subseteq Messages
      /\ \A m \in Mailed \union late : Known(m)
  BY MailedAre DEF Inv, AlarmInv, MailOK
<1>4. \A m \in Mails : m.kind # "absent"
  BY DEF Mails
<1>5. /\ \A i, j \in DOMAIN mail : mail[i].kind = "raise" /\ mail[i] = mail[j] => i = j
      /\ \A m \in Mailed : m.kind = "raise" => m \notin late
  BY DEF Inv, AlarmInv, Once
<1>6. CASE mail # <<>> /\ Begin(Head(mail), state) /\ mail' = Tail(mail) /\ UNCHANGED late
  <2>1. /\ mail' \in Seq(Mails) /\ Head(mail) = mail[1] /\ 1 \in DOMAIN mail
        /\ \A i \in DOMAIN mail' : i \in Nat \ {0} /\ i + 1 \in DOMAIN mail /\ mail'[i] = mail[i + 1]
    BY <1>3, <1>6, HeadTailProperties, LenProperties, EmptySeq
  <2>2. Mailed' \subseteq Mailed /\ mail[1] \in Mailed
    BY <2>1 DEF Mailed
  <2>3. \A i, j \in DOMAIN mail' : mail'[i].kind = "raise" /\ mail'[i] = mail'[j] => i = j
    <3> SUFFICES ASSUME NEW i \in DOMAIN mail', NEW j \in DOMAIN mail', mail'[i].kind = "raise", mail'[i] = mail'[j]
                 PROVE  i = j
      OBVIOUS
    <3>1. i + 1 = j + 1
      BY <1>5, <2>1
    <3> QED BY <2>1, <3>1
  <2>4. mail[1].kind = "raise" => mail[1] \notin Mailed' \union late'
    <3> SUFFICES ASSUME mail[1].kind = "raise" PROVE mail[1] \notin Mailed' /\ mail[1] \notin late'
      OBVIOUS
    <3>1. \A i \in DOMAIN mail' : mail'[i] # mail[1]
      <4> SUFFICES ASSUME NEW i \in DOMAIN mail', mail'[i] = mail[1] PROVE FALSE
        OBVIOUS
      <4>1. i + 1 = 1
        BY <1>5, <2>1
      <4> QED BY <2>1, <4>1
    <3> QED BY <1>5, <1>6, <2>2, <3>1 DEF Mailed
  <2>5. MailOK'
    BY <1>1, <1>3, <1>6, <2>1, <2>2 DEF MailOK, Known
  <2> QED BY <1>1, <1>2, <1>3, <1>4, <1>6, <2>1, <2>2, <2>3, <2>4, <2>5, BeginKeeps
<1>7. ASSUME NEW m \in late, Begin(m, state), late' = late \ {m}, UNCHANGED mail PROVE Inv'
  <2>1. Mailed' = Mailed
    BY <1>7 DEF Mailed
  <2>2. MailOK'
    BY <1>1, <1>3, <1>7, <2>1 DEF MailOK, Known
  <2>3. m.kind = "raise" => m \notin Mailed' \union late'
    BY <1>5, <1>7, <2>1
  <2> QED BY <1>1, <1>2, <1>3, <1>4, <1>5, <1>7, <2>1, <2>2, <2>3, BeginKeeps
<1> QED BY <1>6, <1>7 DEF Take

-----------------------------------------------------------------------------
(* The message lane performs a plan                                         *)

\* What is left of a plan, by its head.
LEMMA LaneCases ==
  ASSUME Inv, lane.todo # <<>>
  PROVE  /\ lane # IdleLane /\ lane \in [msg : Messages, todo : Seq(Steps), live : BOOLEAN] /\ Known(lane.msg)
         /\ lane.msg.kind = "absent" => gateway = "reading"
         /\ gateway \notin {"down", "restored"}
         /\ \/ \E r \in DOMAIN rows :
                 /\ Head(lane.todo) = Do("resolve", r) /\ (\A q : (Ends(q) <=> q = r) /\ ~Adopting(q))
                 /\ \/ Tail(lane.todo) = <<>> /\ ~Making /\ lane.msg.kind # "raise"
                    \/ /\ Tail(lane.todo) = <<Do("create", lane.msg.n)>> /\ Making /\ lane.msg.kind = "raise"
            \/ /\ Head(lane.todo) = Do("create", lane.msg.n) /\ Tail(lane.todo) = <<>>
               /\ Making /\ (\A q : ~Ends(q) /\ ~Adopting(q)) /\ lane.msg.kind = "raise"
            \/ \E r \in Alarms :
                 /\ Head(lane.todo) = Do("adopt", r) /\ Tail(lane.todo) = <<>> /\ rows[r].of = lane.msg.n
                 /\ ~Making /\ (\A q : ~Ends(q) /\ (Adopting(q) <=> q = r)) /\ lane.msg.kind = "raise"
<1>1. lane # IdleLane
  BY DEF IdleLane
<1>2. /\ lane \in [msg : Messages, todo : Seq(Steps), live : BOOLEAN] /\ Known(lane.msg)
      /\ lane.msg.kind = "absent" => gateway = "reading"
  BY <1>1 DEF Inv, AlarmInv, LaneOK
<1>3. gateway \notin {"down", "restored"}
  BY <1>1 DEF Inv, AlarmInv, GatewayOK
<1>4. \A x, y : Head(<<x>>) = x /\ Tail(<<x>>) = <<>> /\ Head(<<x, y>>) = x /\ Tail(<<x, y>>) = <<y>>
  OBVIOUS
<1>5. Alarms \subseteq DOMAIN rows
  BY DEF Alarms
<1> HIDE DEF Do
<1>6. CASE \E r \in DOMAIN rows : lane.todo = <<Do("resolve", r)>> /\ lane.msg.kind # "raise"
  <2>1. PICK r \in DOMAIN rows : lane.todo = <<Do("resolve", r)>> /\ lane.msg.kind # "raise"
    BY <1>6
  <2>2. Head(lane.todo) = Do("resolve", r) /\ Tail(lane.todo) = <<>>
    BY <1>4, <2>1
  <2>3. ~Making /\ \A q : (Ends(q) <=> q = r) /\ ~Adopting(q)
    BY <2>1, Forms DEF FormsOK
  <2> QED BY <1>1, <1>2, <1>3, <2>1, <2>2, <2>3
<1>7. CASE lane.msg.kind = "raise" /\ lane.todo = <<Do("create", lane.msg.n)>>
  <2>1. Head(lane.todo) = Do("create", lane.msg.n) /\ Tail(lane.todo) = <<>>
    BY <1>4, <1>7
  <2>2. Making /\ \A q : ~Ends(q) /\ ~Adopting(q)
    BY <1>7, Forms DEF FormsOK
  <2> QED BY <1>1, <1>2, <1>3, <1>7, <2>1, <2>2
<1>8. CASE lane.msg.kind = "raise" /\ \E r \in Alarms : lane.todo = <<Do("resolve", r), Do("create", lane.msg.n)>>
  <2>1. PICK r \in Alarms : lane.todo = <<Do("resolve", r), Do("create", lane.msg.n)>>
    BY <1>8
  <2>2. Head(lane.todo) = Do("resolve", r) /\ Tail(lane.todo) = <<Do("create", lane.msg.n)>>
    BY <1>4, <2>1
  <2>3. Making /\ \A q : (Ends(q) <=> q = r) /\ ~Adopting(q)
    BY <2>1, Forms DEF FormsOK
  <2> QED BY <1>1, <1>2, <1>3, <1>5, <1>8, <2>2, <2>3
<1>9. CASE lane.msg.kind = "raise" /\ \E r \in Alarms : lane.todo = <<Do("adopt", r)>> /\ rows[r].of = lane.msg.n
  <2>1. PICK r \in Alarms : lane.todo = <<Do("adopt", r)>> /\ rows[r].of = lane.msg.n
    BY <1>9
  <2>2. Head(lane.todo) = Do("adopt", r) /\ Tail(lane.todo) = <<>>
    BY <1>4, <2>1
  <2>3. ~Making /\ \A q : ~Ends(q) /\ (Adopting(q) <=> q = r)
    BY <2>1, Forms DEF FormsOK
  <2> QED BY <1>1, <1>2, <1>3, <1>9, <2>1, <2>2, <2>3
<1> QED BY <1>1, <1>6, <1>7, <1>8, <1>9 DEF Inv, AlarmInv, LaneOK

\* The verbs of a plan differ.
LEMMA Verb ==
  /\ \A x : Do("resolve", x).do = "resolve" /\ Do("create", x).do = "create" /\ Do("adopt", x).do = "adopt"
  /\ \A w, x : Do(w, x).of = x
BY DEF Do

LEMMA PerformResolve ==
  ASSUME Inv, NEW r \in DOMAIN rows, lane.todo # <<>>, Head(lane.todo) = Do("resolve", r), Close(r), GoOn(Tail(lane.todo)),
         UNCHANGED <<setting, machine, mail, late, gateway, heard, raiser, acks, spent, spoilt, state>>
  PROVE  Inv'
<1>1. /\ lane # IdleLane /\ lane \in [msg : Messages, todo : Seq(Steps), live : BOOLEAN] /\ Known(lane.msg)
      /\ lane.msg.kind = "absent" => gateway = "reading"
      /\ gateway \notin {"down", "restored"}
      /\ (\A q : (Ends(q) <=> q = r) /\ ~Adopting(q))
      /\ \/ Tail(lane.todo) = <<>> /\ ~Making /\ lane.msg.kind # "raise"
         \/ /\ Tail(lane.todo) = <<Do("create", lane.msg.n)>> /\ Making /\ lane.msg.kind = "raise"
  <2>1. \A q : Do("resolve", q) = Do("resolve", r) => q = r
    BY Verb
  <2>2. \A q : Do("create", q) # Do("resolve", r) /\ Do("adopt", q) # Do("resolve", r)
    BY Verb
  <2> HIDE DEF Do
  <2> QED BY <2>1, <2>2, LaneCases
<1>2. /\ Grows /\ RowsOK' /\ DOMAIN rows' = DOMAIN rows /\ Alarms' = Alarms /\ Offlines' = Offlines
      /\ \A q \in DOMAIN rows : q # r => rows'[q] = rows[q]
      /\ ~Free(r)'
      /\ feed' \in Seq(Events)
      /\ \A i \in DOMAIN feed' : (i \in DOMAIN feed /\ feed'[i] = feed[i]) \/ feed'[i] = [row |-> r, verb |-> "resolved"]
      /\ gateway # "up" => feed' = feed
  BY RowClosed DEF Inv, AlarmInv, FeedOK
<1>3. \/ lane' = IdleLane /\ ~Making
      \/ /\ lane' = [lane EXCEPT !.todo = <<Do("create", lane.msg.n)>>, !.live = gateway # "stopping"]
         /\ Making /\ lane.msg.kind = "raise"
  <2>1. <<Do("create", lane.msg.n)>> # <<>>
    BY Tuples
  <2> HIDE DEF Do
  <2> QED BY <1>1, <2>1 DEF GoOn
<1>4. lane.msg.n \in Nat /\ lane.msg \in Messages
  BY <1>1 DEF Messages
<1>5. \/ /\ lane' = IdleLane /\ ~Making
      \/ /\ lane' \in [msg : Messages, todo : Seq(Steps), live : BOOLEAN] /\ lane'.msg = lane.msg
         /\ lane'.todo = <<Do("create", lane.msg.n)>> /\ Making /\ lane.msg.kind = "raise" /\ lane' # IdleLane
  <2>1. <<Do("create", lane.msg.n)>> \in Seq(Steps)
    BY <1>4 DEF Do, Steps
  <2>2. <<Do("create", lane.msg.n)>> # <<>>
    BY Tuples
  <2>3. PICK todo \in Seq(Steps) : todo = <<Do("create", lane.msg.n)>> /\ todo # <<>>
    BY <2>1, <2>2
  <2>4. PICK live \in BOOLEAN : live = (gateway # "stopping")
    OBVIOUS
  <2> HIDE DEF Do
  <2>5. CASE lane' = [lane EXCEPT !.todo = todo, !.live = live]
    <3>1. lane' = [msg |-> lane.msg, todo |-> todo, live |-> live]
      BY <1>1, <2>5
    <3> QED BY <1>3, <1>4, <2>3, <3>1 DEF IdleLane
  <2> QED BY <1>3, <2>3, <2>4, <2>5
<1>6. (Making' <=> Making) /\ \A q : ~Ends(q)' /\ ~Adopting(q)'
  BY <1>5, FormsNext DEF FormsOK, IdleLane
<1>7. MachineOK' /\ MailOK' /\ RaiserOK' /\ AcksOK'
  BY <1>2, Frame DEF Inv
<1>8. FeedOK'
  BY <1>2, FeedKept DEF Inv, AlarmInv
<1>9. GatewayOK'
  BY <1>1, <1>2 DEF Inv, AlarmInv, GatewayOK
<1>10. LaneOK'
  <2>1. CASE lane' = IdleLane
    BY <2>1 DEF LaneOK
  <2>2. CASE /\ lane' \in [msg : Messages, todo : Seq(Steps), live : BOOLEAN] /\ lane'.msg = lane.msg
             /\ lane'.todo = <<Do("create", lane.msg.n)>> /\ lane.msg.kind = "raise"
    <3>1. Known(lane.msg)'
      BY <1>1, <2>2 DEF Known
    <3>2. lane'.todo = <<Do("create", lane'.msg.n)>> /\ lane'.msg.kind = "raise"
      BY <2>2
    <3> QED BY <2>2, <3>1, <3>2 DEF LaneOK
  <2> QED BY <1>5, <2>1, <2>2
<1>11. \A q \in Alarms : q \in DOMAIN rows /\ rows'[q].of = rows[q].of /\ (Free(q)' => Free(q) /\ q # r)
  BY <1>2 DEF Alarms, Grows
<1>12. state.alarm.row # 0 => state.alarm.row # r /\ state.alarm.row \in Alarms
  BY <1>1 DEF Inv, AlarmInv, TrackOK
<1>13. TrackOK'
  <2>1. Read' = Read /\ \A m \in Read : Known(m)'
    BY DEF Inv, AlarmInv, TrackOK, Read, Known
  <2>2. state.alarm.row # 0 =>
          state.alarm.row \in Alarms' /\ rows'[state.alarm.row].of = state.alarm.raise
            /\ rows'[state.alarm.row].by # "controller"
    BY <1>2, <1>11, <1>12 DEF Inv, AlarmInv, TrackOK
  <2>3. Making' => state.alarm = [raise |-> lane'.msg.n, row |-> 0, open |-> TRUE]
    BY <1>5, <1>6, IdleForms DEF Inv, AlarmInv, TrackOK
  <2> QED BY <1>2, <1>6, <2>1, <2>2, <2>3 DEF Inv, AlarmInv, TrackOK
<1>14. \A q \in Alarms : Announced(q)' => Announced(q)
  BY <1>2, AnnouncesNoMore
<1>15. lane'.msg = lane.msg \/ lane'.msg.kind = "none"
  BY <1>5 DEF IdleLane, NoMessage, Message
<1>16. AnnouncedOK'
  <2> SUFFICES ASSUME NEW q \in Alarms, Announced(q)
               PROVE  /\ RaiseMessage(rows[q].of) \notin Mailed \union late
                      /\ lane'.msg # RaiseMessage(rows[q].of)
                      /\ ~(state.alarm.raise = rows[q].of /\ state.alarm.row = 0)
    BY <1>2, <1>11, <1>14 DEF AnnouncedOK, Mailed
  <2> QED BY <1>1, <1>15, RaiseMessages DEF Inv, AlarmInv, AnnouncedOK
<1>17. Mailed' = Mailed /\ (Holding' => Holding /\ lane'.msg = lane.msg)
  BY <1>1, <1>5 DEF Mailed, Holding
<1>18. Once'
  BY <1>17 DEF Inv, AlarmInv, Once
<1>19. OneLeader'
  <2>1. Making' => lane'.msg.n = lane.msg.n
    BY <1>5, <1>6
  <2> QED BY <1>2, <1>6, <1>11, <1>17, <2>1 DEF Inv, OneLeader
<1>20. NoneFailed'
  <2>1. "failed" \notin spoilt => \A q \in Alarms : Free(q)' => state.alarm.row = q /\ state.alarm.open /\ ~Making'
    BY <1>1, <1>6, <1>11 DEF Inv, NoneFailed
  <2>2. "failed" \notin spoilt => \A q, o \in Alarms : q < o => ~Free(q)'
    BY <1>11 DEF Inv, NoneFailed
  <2> QED BY <1>2, <2>1, <2>2 DEF NoneFailed
<1> QED BY <1>2, <1>7, <1>8, <1>9, <1>10, <1>13, <1>16, <1>18, <1>19, <1>20 DEF Inv, AlarmInv

LEMMA PerformCreate ==
  ASSUME Inv, lane.todo # <<>>, Head(lane.todo) = Do("create", lane.msg.n), Tail(lane.todo) = <<>>,
         Insert("alarm", lane.msg.n), GoOn(<<Do("adopt", Len(rows) + 1)>> \o Tail(lane.todo)),
         UNCHANGED <<setting, machine, mail, late, gateway, heard, raiser, acks, spent, spoilt, state>>
  PROVE  Inv'
<1> DEFINE n == lane.msg.n
<1>1. /\ lane # IdleLane /\ lane \in [msg : Messages, todo : Seq(Steps), live : BOOLEAN] /\ Known(lane.msg)
      /\ gateway \notin {"down", "restored"}
      /\ Making /\ (\A q : ~Ends(q) /\ ~Adopting(q)) /\ lane.msg.kind = "raise"
  <2>1. \A q : Do("resolve", q) # Do("create", n) /\ Do("adopt", q) # Do("create", n)
    BY Verb
  <2> HIDE DEF Do
  <2> QED BY <2>1, LaneCases
<1>2. n \in Nat /\ 1 <= n /\ n <= machine.raises /\ lane.msg \in Messages /\ lane.msg = RaiseMessage(n)
  BY <1>1, RaiseIs DEF Messages, Known
<1>3. PICK new : new = Len(rows) + 1
  OBVIOUS
<1>4. /\ RowsOK' /\ Grows /\ new \in Nat \ {0} /\ new \notin DOMAIN rows /\ DOMAIN rows' = DOMAIN rows \union {new}
      /\ (\A r \in DOMAIN rows : r < new) /\ (\A r \in DOMAIN rows : rows'[r] = rows[r])
      /\ rows'[new] = [kind |-> "alarm", of |-> n, status |-> "pending", by |-> "nobody", held |-> FALSE, at |-> 0]
      /\ Alarms' = Alarms \union {new} /\ Offlines' = Offlines
  BY <1>2, <1>3, RowInserted DEF Inv, AlarmInv
<1>5. rows'[new].of = n /\ rows'[new].by = "nobody" /\ rows'[new].kind = "alarm"
  BY <1>4
<1>6. /\ feed' \in Seq(Events)
      /\ \A i \in DOMAIN feed' : (i \in DOMAIN feed /\ feed'[i] = feed[i]) \/ feed'[i] = [row |-> new, verb |-> "created"]
      /\ gateway # "up" => feed' = feed
  <2>1. Emit(new, "created") /\ feed \in Seq(Events)
    BY <1>3 DEF Insert, Inv, AlarmInv, FeedOK
  <2> QED BY <1>4, <2>1, FeedEmitted DEF Verbs
<1>7. /\ lane' \in [msg : Messages, todo : Seq(Steps), live : BOOLEAN] /\ lane'.msg = lane.msg
      /\ lane'.todo = <<Do("adopt", new)>> /\ lane' # IdleLane
  <2>1. PICK todo : todo = <<Do("adopt", new)>>
    OBVIOUS
  <2>2. todo \in Seq(Steps)
    BY <1>4, <2>1 DEF Do, Steps
  <2>3. <<Do("adopt", new)>> \o <<>> = <<Do("adopt", new)>>
    BY <2>1, <2>2, ConcatEmptySeq
  <2>4. todo # <<>>
    BY <2>1, Tuples
  <2>5. PICK live \in BOOLEAN : live = (gateway # "stopping")
    OBVIOUS
  <2> HIDE DEF Do
  <2>6. GoOn(todo)
    BY <1>3, <2>1, <2>3
  <2>7. lane' = [lane EXCEPT !.todo = todo, !.live = live]
    BY <2>4, <2>5, <2>6 DEF GoOn
  <2>8. lane' = [msg |-> lane.msg, todo |-> todo, live |-> live]
    BY <1>1, <2>7
  <2> QED BY <1>2, <2>1, <2>2, <2>4, <2>5, <2>8 DEF IdleLane
<1>8. ~Making' /\ \A q : ~Ends(q)' /\ (Adopting(q)' <=> q = new)
  BY <1>7, FormsNext DEF FormsOK
<1>9. MachineOK' /\ MailOK' /\ RaiserOK' /\ AcksOK'
  BY <1>4, Frame DEF Inv
<1>10. FeedOK'
  BY <1>4, <1>6, FeedKept DEF Inv, AlarmInv
<1>11. GatewayOK'
  BY <1>1, <1>6 DEF Inv, AlarmInv, GatewayOK
<1>12. LaneOK'
  <2>1. Known(lane.msg)' /\ lane'.msg.kind = "raise"
    BY <1>1, <1>7 DEF Known
  <2>2. new \in Alarms' /\ rows'[new].of = lane'.msg.n
    BY <1>4, <1>5, <1>7
  <2> QED BY <1>7, <2>1, <2>2 DEF LaneOK
<1>13. state.alarm.row = 0 /\ state.alarm.raise = n /\ state.alarm.open
  BY <1>1 DEF Inv, AlarmInv, TrackOK
<1>14. \A q \in Alarms : q # new /\ rows'[q] = rows[q] /\ q < new
  BY <1>4 DEF Alarms
<1>15. TrackOK'
  <2>1. Read' = Read /\ \A m \in Read : Known(m)'
    BY DEF Inv, AlarmInv, TrackOK, Read, Known
  <2>2. \A q \in Alarms' : Adopting(q)' => state.alarm.raise = lane'.msg.n /\ rows'[q].by # "controller"
    BY <1>5, <1>7, <1>8, <1>13
  <2> QED BY <1>4, <1>8, <1>13, <2>1, <2>2 DEF Inv, AlarmInv, TrackOK
<1>16. \A q \in Alarms : Announced(q)' => Announced(q)
  <2> SUFFICES ASSUME NEW q \in Alarms, Announced(q)' PROVE Announced(q)
    OBVIOUS
  <2>1. [row |-> q, verb |-> "created"] # [row |-> new, verb |-> "created"]
    BY <1>14
  <2> QED BY <1>6, <2>1 DEF Announced
<1>17. Holding => RaiseMessage(n) \notin Mailed \union late
  BY <1>1, <1>2 DEF Inv, AlarmInv, Once
<1>18. Announced(new)' => gateway = "up"
  <2> SUFFICES ASSUME gateway # "up" PROVE ~Announced(new)'
    OBVIOUS
  <2>1. \A i \in DOMAIN feed' : feed'[i].row \in DOMAIN rows
    BY <1>6 DEF Inv, AlarmInv, FeedOK
  <2>2. heard = NoEvent \/ heard.row \in DOMAIN rows
    BY DEF Inv, AlarmInv, FeedOK
  <2> QED BY <1>4, <2>1, <2>2 DEF Announced, NoEvent
<1>19. AnnouncedOK'
  <2>1. \A q \in Alarms : Announced(q) =>
          /\ RaiseMessage(rows[q].of) \notin Mailed \union late
          /\ lane.msg # RaiseMessage(rows[q].of)
          /\ ~(state.alarm.raise = rows[q].of /\ state.alarm.row = 0)
    BY <1>1 DEF Inv, AlarmInv, AnnouncedOK
  <2>2. Announced(new)' => RaiseMessage(rows'[new].of) \notin Mailed \union late
    BY <1>1, <1>5, <1>17, <1>18 DEF Holding
  <2>3. Mailed' = Mailed /\ Adopting(new)'
    BY <1>8 DEF Mailed
  <2>4. ASSUME NEW q \in Alarms', Announced(q)'
        PROVE  /\ RaiseMessage(rows'[q].of) \notin Mailed \union late
               /\ lane'.msg = RaiseMessage(rows'[q].of) => Adopting(q)'
               /\ state.alarm.raise = rows'[q].of /\ state.alarm.row = 0 => Adopting(q)'
    <3>1. CASE q = new
      BY <2>2, <2>3, <2>4, <3>1
    <3>2. CASE q \in Alarms
      BY <1>7, <1>14, <1>16, <2>1, <2>4, <3>2
    <3> QED BY <1>4, <3>1, <3>2
  <2> QED BY <2>3, <2>4 DEF AnnouncedOK
<1>20. Mailed' = Mailed /\ (Holding' <=> Holding)
  BY <1>1, <1>7 DEF Mailed, Holding
<1>21. Once'
  BY <1>7, <1>20 DEF Inv, AlarmInv, Once
<1>22. OneLeader'
  <2> SUFFICES ASSUME spent.takeovers = 0
               PROVE  /\ gateway = "up"
                      /\ \A r \in Alarms' : RaiseMessage(rows'[r].of) \notin Mailed \union late
                      /\ \A r, o \in Alarms' : rows'[r].of = rows'[o].of => r = o
    BY <1>8, <1>20 DEF OneLeader
  <2>1. /\ gateway = "up"
        /\ \A r \in Alarms : RaiseMessage(rows[r].of) \notin Mailed \union late /\ n # rows[r].of
        /\ \A r, o \in Alarms : rows[r].of = rows[o].of => r = o
    BY <1>1 DEF Inv, OneLeader
  <2>2. RaiseMessage(n) \notin Mailed \union late
    BY <1>1, <1>17, <2>1 DEF Holding
  <2> QED BY <1>4, <1>5, <1>14, <2>1, <2>2
<1>23. NoneFailed'
  <2> SUFFICES ASSUME "failed" \notin spoilt
               PROVE  /\ \A r, o \in Alarms' : r < o => ~Free(r)'
                      /\ \A r \in Alarms' : Free(r)' => Adopting(r)'
    BY DEF NoneFailed
  <2>1. \A r \in Alarms : ~Free(r)'
    BY <1>1, <1>14 DEF Inv, NoneFailed, Free
  <2>2. \A r \in Alarms' : Free(r)' => r = new
    BY <1>4, <2>1
  <2>3. \A o \in Alarms' : ~(new < o)
    <3>1. \A o \in Alarms : o \in Nat /\ o < new
      BY <1>14, Known0 DEF Inv
    <3> QED BY <1>4, <3>1
  <2> QED BY <1>8, <2>2, <2>3
<1> QED BY <1>4, <1>9, <1>10, <1>11, <1>12, <1>15, <1>19, <1>21, <1>22, <1>23 DEF Inv, AlarmInv

LEMMA PerformAdopt ==
  ASSUME Inv, NEW r \in Alarms, lane.todo # <<>>, Head(lane.todo) = Do("adopt", r), Tail(lane.todo) = <<>>,
         Adopting(r), state' = [state EXCEPT !.alarm.row = r], GoOn(Tail(lane.todo)),
         UNCHANGED <<setting, machine, mail, late, rows, feed, gateway, heard, raiser, acks, spent, spoilt>>
  PROVE  Inv'
<1>1. lane # IdleLane /\ gateway \notin {"down", "restored"} /\ lane' = IdleLane
  <2>1. lane # IdleLane /\ gateway \notin {"down", "restored"}
    BY LaneCases
  <2> QED BY <2>1 DEF GoOn
<1>2. ~Making /\ \A q : ~Ends(q) /\ (Adopting(q) <=> q = r)
  BY Forms DEF FormsOK, Adopting
<1>3. /\ state.alarm.raise = lane.msg.n /\ rows[r].by # "controller"
      /\ \/ state.alarm.row = 0 /\ state.alarm.open
         \/ state.alarm.row = r /\ (state.alarm.open \/ ~Free(r))
  BY DEF Inv, AlarmInv, TrackOK
<1>4. rows[r].of = lane.msg.n
  <2>1. \A x : Do("resolve", x) # Do("adopt", r) /\ Do("create", x) # Do("adopt", r) /\ (Do("adopt", x) = Do("adopt", r) => x = r)
    BY Verb
  <2> HIDE DEF Do
  <2> QED BY <2>1, LaneCases
<1>5. state \in StateType /\ r \in Nat \ {0}
  BY Known0 DEF Inv, AlarmInv, TrackOK, StateType
<1>6. PICK alarm : alarm = [state.alarm EXCEPT !.row = r]
  OBVIOUS
<1>7. alarm \in Track /\ alarm.raise = state.alarm.raise /\ alarm.row = r /\ alarm.open = state.alarm.open
  BY <1>5, <1>6 DEF StateType, Track
<1>8. state' = [state EXCEPT !.alarm = alarm]
  BY <1>5, <1>6 DEF StateType
<1>9. state' \in StateType /\ state'.alarm = alarm /\ state'.read = state.read /\ state'.link = state.link
  BY <1>5, <1>7, <1>8 DEF StateType
<1>10. ~Making' /\ \A q : ~Ends(q)' /\ ~Adopting(q)'
  BY <1>1, FormsNext DEF FormsOK, IdleLane
<1>11. Grows /\ RowsOK' /\ MachineOK' /\ MailOK' /\ RaiserOK' /\ AcksOK' /\ FeedOK'
  BY GrowsAlone, Frame DEF Inv, AlarmInv
<1>12. GatewayOK' /\ LaneOK'
  BY <1>1 DEF Inv, AlarmInv, GatewayOK, LaneOK
<1>13. /\ Alarms' = Alarms /\ Offlines' = Offlines /\ Mailed' = Mailed /\ Read' = Read
       /\ \A q : (Free(q)' <=> Free(q)) /\ (Announced(q)' <=> Announced(q))
  BY <1>9 DEF Alarms, Offlines, Mailed, Read, Free, Announced
<1>14. TrackOK'
  <2>1. \A m \in Read : Known(m)'
    BY DEF Inv, AlarmInv, TrackOK, Known
  <2>2. state.link # 0 => state.link \in Offlines
    BY DEF Inv, AlarmInv, TrackOK
  <2> QED BY <1>3, <1>4, <1>7, <1>9, <1>10, <1>13, <2>1, <2>2 DEF TrackOK, StateType
<1>15. lane'.msg.kind = "none" /\ ~Holding'
  BY <1>1 DEF IdleLane, NoMessage, Message, Holding
<1>16. AnnouncedOK'
  BY <1>5, <1>7, <1>9, <1>13, <1>15, RaiseMessages DEF Inv, AlarmInv, AnnouncedOK
<1>17. Once'
  BY <1>13, <1>15 DEF Inv, AlarmInv, Once
<1>18. OneLeader'
  BY <1>10, <1>13 DEF Inv, OneLeader
<1>19. NoneFailed'
  <2>1. \A q \in Alarms : q # 0
    BY Known0 DEF Inv
  <2>2. "failed" \notin spoilt => \A q \in Alarms : Free(q) => q = r /\ alarm.open
    BY <1>1, <1>2, <1>3, <1>7, <2>1 DEF Inv, NoneFailed
  <2> QED BY <1>7, <1>9, <1>10, <1>13, <2>2 DEF Inv, NoneFailed
<1> QED BY <1>11, <1>12, <1>14, <1>16, <1>17, <1>18, <1>19 DEF Inv, AlarmInv

LEMMA PerformSteps == Inv /\ Perform => Inv'
<1> SUFFICES ASSUME Inv, Perform PROVE Inv'
  OBVIOUS
<1>1. lane.todo # <<>> /\ UNCHANGED <<setting, machine, mail, late, gateway, heard, raiser, acks, spent, spoilt>>
  BY DEF Perform
<1>2. PICK a, more : a = Head(lane.todo) /\ more = Tail(lane.todo)
  OBVIOUS
<1>3. \/ a.do = "resolve" /\ Close(a.of) /\ GoOn(more) /\ UNCHANGED state
      \/ a.do = "create" /\ Insert("alarm", a.of) /\ GoOn(<<Do("adopt", Len(rows) + 1)>> \o more) /\ UNCHANGED state
      \/ a.do = "adopt" /\ state' = [state EXCEPT !.alarm.row = a.of] /\ GoOn(more) /\ UNCHANGED <<rows, feed>>
  BY <1>2 DEF Perform
<1>4. \/ \E r \in DOMAIN rows : a = Do("resolve", r)
      \/ a = Do("create", lane.msg.n) /\ more = <<>>
      \/ \E r \in Alarms : a = Do("adopt", r) /\ more = <<>> /\ Adopting(r)
  BY <1>1, <1>2, LaneCases
<1> HIDE DEF Do
<1>5. CASE \E r \in DOMAIN rows : a = Do("resolve", r)
  <2>1. PICK r \in DOMAIN rows : a = Do("resolve", r)
    BY <1>5
  <2>2. Close(r) /\ GoOn(more) /\ UNCHANGED state
    BY <1>3, <2>1, Verb
  <2> QED BY <1>1, <1>2, <2>1, <2>2, PerformResolve
<1>6. CASE a = Do("create", lane.msg.n) /\ more = <<>>
  <2>1. Insert("alarm", lane.msg.n) /\ GoOn(<<Do("adopt", Len(rows) + 1)>> \o more) /\ UNCHANGED state
    BY <1>3, <1>6, Verb
  <2> QED BY <1>1, <1>2, <1>6, <2>1, PerformCreate
<1>7. CASE \E r \in Alarms : a = Do("adopt", r) /\ more = <<>> /\ Adopting(r)
  <2>1. PICK r \in Alarms : a = Do("adopt", r) /\ more = <<>> /\ Adopting(r)
    BY <1>7
  <2>2. state' = [state EXCEPT !.alarm.row = r] /\ GoOn(more) /\ UNCHANGED <<rows, feed>>
    BY <1>3, <2>1, Verb
  <2> QED BY <1>1, <1>2, <2>1, <2>2, PerformAdopt
<1> QED BY <1>4, <1>5, <1>6, <1>7

-----------------------------------------------------------------------------
(* A message is put back                                                    *)

\* The rest of a plan is dropped: the message comes again, or is forgotten.
LEMMA NakKeeps ==
  ASSUME Inv, lane.todo # <<>>, Head(lane.todo).do \in {"resolve", "create"}, Nak,
         UNCHANGED <<gateway, state, raiser>>, spoilt \subseteq spoilt', spent' \in [takeovers : Nat, failures : Nat],
         spent'.takeovers = spent.takeovers, "failed" \in spoilt' \/ Head(lane.todo).do = "create"
  PROVE  Inv'
<1>1. /\ lane # IdleLane /\ lane \in [msg : Messages, todo : Seq(Steps), live : BOOLEAN] /\ Known(lane.msg)
      /\ lane.msg.kind = "absent" => gateway = "reading"
      /\ gateway \notin {"down", "restored"}
      /\ \A q : ~Adopting(q)
      /\ lane.msg.kind = "raise" => Making
      /\ Head(lane.todo).do = "create" => \A q : ~Ends(q)
  <2> HIDE DEF Do
  <2> QED BY LaneCases, Verb
<1>2. lane' = IdleLane /\ UNCHANGED <<setting, machine, mail, rows, feed, heard, raiser, acks>>
  BY DEF Nak
<1>3. \/ late' = late
      \/ late' = late \union {lane.msg} /\ Holding
  <2>1. gateway \in {"reading", "up", "stopping"}
    BY <1>1 DEF Inv, AlarmInv, GatewayOK
  <2> QED BY <1>1, <2>1 DEF Nak, Holding
<1>4. lane.msg \in Mails \/ late' = late
  BY <1>1, <1>3 DEF Holding, Mails, Messages
<1>5. /\ Alarms' = Alarms /\ Offlines' = Offlines /\ Mailed' = Mailed /\ Read' = Read
      /\ \A q : (Free(q)' <=> Free(q)) /\ (Announced(q)' <=> Announced(q))
  BY <1>2 DEF Alarms, Offlines, Mailed, Read, Free, Announced
<1>6. ~Making' /\ \A q : ~Ends(q)' /\ ~Adopting(q)'
  BY <1>2, FormsNext DEF FormsOK, IdleLane
<1>7. lane'.msg.kind = "none" /\ ~Holding'
  BY <1>2 DEF IdleLane, NoMessage, Message, Holding
<1>8. MachineOK'
  BY <1>2 DEF Inv, AlarmInv, MachineOK
<1>9. MailOK'
  <2>1. \A m \in Mailed \union late' : Known(m)'
    BY <1>1, <1>2, <1>3 DEF Inv, AlarmInv, MailOK, Known
  <2> QED BY <1>2, <1>3, <1>4, <1>5, <2>1 DEF Inv, AlarmInv, MailOK
<1>10. Grows /\ RowsOK' /\ FeedOK' /\ RaiserOK' /\ AcksOK'
  BY <1>2, GrowsAlone, Frame DEF Inv, AlarmInv
<1>11. GatewayOK' /\ LaneOK'
  BY <1>1, <1>2 DEF Inv, AlarmInv, GatewayOK, LaneOK
<1>12. TrackOK'
  <2>1. \A m \in Read : Known(m)'
    BY <1>2 DEF Inv, AlarmInv, TrackOK, Known
  <2> QED BY <1>2, <1>5, <1>6, <2>1 DEF Inv, AlarmInv, TrackOK
<1>13. Once'
  <2>1. \A m \in Mailed : m.kind = "raise" => m \notin late'
    BY <1>3 DEF Inv, AlarmInv, Once
  <2> QED BY <1>2, <1>5, <1>7, <2>1 DEF Inv, AlarmInv, Once
<1>14. AnnouncedOK'
  <2> SUFFICES ASSUME NEW r \in Alarms, Announced(r)
               PROVE  /\ RaiseMessage(rows[r].of) \notin Mailed \union late'
                      /\ ~(state.alarm.raise = rows[r].of /\ state.alarm.row = 0)
    BY <1>2, <1>5, <1>7, RaiseMessages DEF AnnouncedOK
  <2> QED BY <1>1, <1>3 DEF Inv, AlarmInv, AnnouncedOK
<1>15. OneLeader'
  <2> SUFFICES ASSUME spent.takeovers = 0
               PROVE  /\ gateway = "up"
                      /\ \A r \in Alarms : RaiseMessage(rows[r].of) \notin Mailed \union late'
                      /\ \A r, o \in Alarms : rows[r].of = rows[o].of => r = o
    BY <1>2, <1>5, <1>6 DEF OneLeader
  <2>1. \A r \in Alarms : RaiseMessage(rows[r].of) # lane.msg
    BY <1>1, RaiseMessages DEF Inv, OneLeader
  <2> QED BY <1>3, <2>1 DEF Inv, OneLeader
<1>16. NoneFailed'
  <2> SUFFICES ASSUME "failed" \notin spoilt' PROVE NoneFailed'
    BY DEF NoneFailed
  <2>1. "failed" \notin spoilt /\ Head(lane.todo).do = "create"
    OBVIOUS
  <2>2. Making
    <3> HIDE DEF Do
    <3> QED BY <2>1, LaneCases, Verb
  <2>3. \A r \in Alarms : ~Free(r)
    BY <1>1, <2>1, <2>2 DEF Inv, NoneFailed
  <2> QED BY <1>5, <2>3 DEF NoneFailed
<1> QED BY <1>8, <1>9, <1>10, <1>11, <1>12, <1>13, <1>14, <1>15, <1>16 DEF Inv, AlarmInv

LEMMA RefuseSteps == Inv /\ Refuse => Inv'
<1> SUFFICES ASSUME Inv, Refuse PROVE Inv'
  OBVIOUS
<1>1. lane.todo # <<>> /\ Head(lane.todo).do = "create" /\ Nak /\ UNCHANGED <<gateway, state, spent, raiser>>
  BY DEF Refuse, Nak
<1>2. spoilt \subseteq spoilt' /\ spent \in [takeovers : Nat, failures : Nat]
  BY DEF Refuse, Inv, AlarmInv, MachineOK
<1> QED BY <1>1, <1>2, NakKeeps

\* A leader gives up: nobody leads the line, and nothing of it is left but the rows.
LEMMA LedByNobody ==
  ASSUME Inv, gateway' = "down", state' = Fresh, lane' = IdleLane, feed' = <<>>, heard' = NoEvent, raiser' = IdleRaiser,
         UNCHANGED <<setting, machine, rows, acks>>, MachineOK', MailOK',
         \A i, j \in DOMAIN mail' : mail'[i].kind = "raise" /\ mail'[i] = mail'[j] => i = j,
         \A m \in Mailed' : m.kind = "raise" => m \notin late',
         spent'.takeovers # 0, spoilt \subseteq spoilt',
         "failed" \in spoilt' \/ \A r, o \in Alarms : r < o => ~Free(r)
  PROVE  Inv'
<1>1. /\ Alarms' = Alarms /\ Offlines' = Offlines /\ \A q : (Free(q)' <=> Free(q)) /\ ~Announced(q)'
  BY DEF Alarms, Offlines, Free, Announced, NoEvent
<1>2. ~Making' /\ \A q : ~Ends(q)' /\ ~Adopting(q)'
  BY FormsNext DEF FormsOK, IdleLane
<1>3. Grows /\ RowsOK' /\ AcksOK'
  BY GrowsAlone, Frame DEF Inv, AlarmInv
<1>4. FeedOK' /\ RaiserOK' /\ GatewayOK' /\ LaneOK'
  BY DEF FeedOK, RaiserOK, GatewayOK, LaneOK, IdleRaiser, NoEvent
<1>5. TrackOK'
  <2>1. Read' = {}
    BY DEF Read, Fresh
  <2> QED BY <1>2, <2>1 DEF TrackOK, Fresh, NoTrack, Track
<1>6. Once'
  BY DEF Once, Holding
<1>7. AnnouncedOK' /\ OneLeader' /\ NoneFailed'
  BY <1>1 DEF AnnouncedOK, OneLeader, NoneFailed
<1> QED BY <1>3, <1>4, <1>5, <1>6, <1>7 DEF Inv, AlarmInv

LEMMA FailSteps == Inv /\ Fail => Inv'
<1> SUFFICES ASSUME Inv, Fail PROVE Inv'
  OBVIOUS
<1>1. /\ lane.todo # <<>> /\ Head(lane.todo).do \in {"resolve", "create"} /\ Nak
      /\ spoilt' = spoilt \union {"failed"} /\ spent' = [spent EXCEPT !.failures = spent.failures + 1]
  BY DEF Fail, Failing
<1>2. spent' \in [takeovers : Nat, failures : Nat] /\ spent'.takeovers = spent.takeovers
  BY <1>1 DEF Inv, AlarmInv, MachineOK
<1>3. CASE lane.msg.kind # "absent"
  BY <1>1, <1>2, <1>3, NakKeeps DEF Fail, Nak
<1>4. CASE lane.msg.kind = "absent"
  <2>1. gateway' = "down" /\ state' = Fresh /\ raiser = IdleRaiser
    BY <1>4 DEF Fail
  <2>2. gateway = "reading"
    BY <1>1, <1>4, LaneCases
  <2>3. feed = <<>> /\ heard = NoEvent /\ spent.takeovers # 0
    BY <2>2 DEF Inv, AlarmInv, GatewayOK, OneLeader
  <2>4. UNCHANGED <<setting, machine, mail, late, rows, feed, heard, raiser, acks>> /\ lane' = IdleLane
    BY <1>1, <2>2 DEF Nak
  <2>5. MachineOK'
    BY <1>2, <2>4 DEF Inv, AlarmInv, MachineOK
  <2>6. MailOK' /\ Mailed' = Mailed
    BY <2>4, Frame DEF Inv, Mailed
  <2> QED BY <1>1, <1>2, <2>1, <2>3, <2>4, <2>5, <2>6, LedByNobody DEF Inv, AlarmInv, Once
<1> QED BY <1>3, <1>4

-----------------------------------------------------------------------------
(* Taking the line                                                          *)

\* Numbers up to a bound have a greatest one among them.
LEMMA Greatest ==
  ASSUME NEW n \in Nat, NEW S, S \subseteq 1..n, S # {}
  PROVE  \E r \in S : \A o \in S : o <= r
<1>1. PICK R : R = OpToRel(<, Nat)
  OBVIOUS
<1>2. IsWellFoundedOn(R, Nat)
  BY <1>1, NatLessThanWellFounded
<1>3. \A x, y \in Nat : <<x, y>> \in R <=> x < y
  BY <1>1 DEF OpToRel
<1>4. PICK T : T = {n - r : r \in S}
  OBVIOUS
<1>5. \A r \in S : r \in Nat /\ n - r \in Nat
  OBVIOUS
<1>6. T \subseteq Nat /\ T # {}
  BY <1>4, <1>5
<1>7. PICK x \in T : \A y \in T : ~ (<<y, x>> \in R)
  BY <1>2, <1>6, WFMin
<1>8. PICK r \in S : x = n - r
  BY <1>4, <1>7
<1>9. \A o \in S : n - o \in T /\ ~(n - o < n - r)
  BY <1>3, <1>4, <1>5, <1>6, <1>7, <1>8
<1>10. \A o \in S : o <= r
  BY <1>5, <1>9
<1> QED BY <1>10

LEMMA NewestIs ==
  ASSUME RowsOK, NEW kind
  PROVE  \/ Newest(kind) = 0 /\ \A r \in DOMAIN rows : rows[r].kind = kind => rows[r].status # "pending"
         \/ /\ Newest(kind) \in DOMAIN rows /\ rows[Newest(kind)].kind = kind /\ rows[Newest(kind)].status = "pending"
            /\ \A r \in DOMAIN rows : rows[r].kind = kind /\ rows[r].status = "pending" => r <= Newest(kind)
<1> DEFINE open == {r \in DOMAIN rows : rows[r].kind = kind /\ rows[r].status = "pending"}
<1>1. CASE open = {}
  BY <1>1 DEF Newest
<1>2. CASE open # {}
  <2>1. Len(rows) \in Nat /\ open \subseteq 1..Len(rows)
    BY LenProperties DEF RowsOK
  <2>2. \E r \in open : \A o \in open : o <= r
    BY <1>2, <2>1, Greatest
  <2>3. Newest(kind) = CHOOSE r \in open : \A o \in open : o <= r
    BY <1>2 DEF Newest
  <2> HIDE DEF open
  <2>4. Newest(kind) \in open /\ \A o \in open : o <= Newest(kind)
    BY <2>2, <2>3
  <2> QED BY <2>4 DEF open
<1> QED BY <1>1, <1>2

LEMMA TakeOverSteps == Inv /\ TakeOver => Inv'
<1> SUFFICES ASSUME Inv, TakeOver PROVE Inv'
  OBVIOUS
<1>1. /\ gateway = "down" /\ gateway' = "restored" /\ state' = Restored
      /\ UNCHANGED <<setting, machine, mail, late, rows, feed, lane, heard, raiser, acks, spent, spoilt>>
  BY DEF TakeOver
<1>2. lane = IdleLane /\ feed = <<>> /\ heard = NoEvent /\ raiser = IdleRaiser
  BY <1>1 DEF Inv, AlarmInv, GatewayOK
<1>3. PICK a, o : a = Newest("alarm") /\ o = Newest("offline")
  OBVIOUS
<1>4. PICK track : track = IF a = 0 THEN NoTrack ELSE [raise |-> rows[a].of, row |-> a, open |-> TRUE]
  OBVIOUS
<1>5. \A r \in DOMAIN rows : rows[r] \in Row /\ r \in Nat \ {0}
  BY RowsAre DEF Inv, AlarmInv
<1>6. /\ \/ a = 0 /\ \A r \in Alarms : ~Free(r)
         \/ /\ a \in Alarms /\ rows[a].by = "nobody" /\ rows[a].of \in Nat /\ a \in Nat \ {0}
            /\ \A r \in Alarms : Free(r) => r <= a
      /\ \/ o = 0
         \/ o \in Offlines /\ o \in Nat \ {0}
  BY <1>3, <1>5, NewestIs DEF Inv, AlarmInv, RowsOK, Alarms, Offlines, Free, Row
<1>7. track \in Track /\ o \in Nat
  BY <1>4, <1>6 DEF Track, NoTrack
<1>8. state' = [alarm |-> track, online |-> (o = 0), watching |-> FALSE, link |-> o, timers |-> 0, read |-> <<>>]
  BY <1>1, <1>3, <1>4 DEF Restored, Fresh
<1>9. /\ state' \in [alarm : Track, online : BOOLEAN, watching : BOOLEAN, link : Nat, timers : Nat, read : Seq(Messages)]
      /\ state'.alarm = track /\ state'.link = o /\ state'.read = <<>>
  BY <1>7, <1>8
<1>10. /\ Alarms' = Alarms /\ Offlines' = Offlines /\ Mailed' = Mailed /\ Read' = {}
       /\ \A q : (Free(q)' <=> Free(q)) /\ ~Announced(q)'
  BY <1>1, <1>2, <1>9 DEF Alarms, Offlines, Mailed, Read, Free, Announced, NoEvent
<1>11. ~Making' /\ \A q : ~Ends(q)' /\ ~Adopting(q)'
  BY <1>1, <1>2, FormsNext DEF FormsOK, IdleLane
<1>12. Grows /\ RowsOK' /\ MachineOK' /\ MailOK' /\ FeedOK' /\ RaiserOK' /\ AcksOK'
  BY <1>1, GrowsAlone, Frame DEF Inv, AlarmInv
<1>13. GatewayOK' /\ LaneOK'
  BY <1>1, <1>2 DEF GatewayOK, LaneOK
<1>14. TrackOK'
  <2>1. track.row # 0 => track.row \in Alarms /\ rows[track.row].of = track.raise /\ rows[track.row].by # "controller"
    BY <1>4, <1>6 DEF NoTrack
  <2> QED BY <1>1, <1>6, <1>9, <1>10, <1>11, <2>1 DEF TrackOK
<1>15. Once'
  BY <1>1, <1>2, <1>10 DEF Inv, AlarmInv, Once, Holding
<1>16. AnnouncedOK' /\ OneLeader'
  BY <1>1, <1>10 DEF AnnouncedOK, Inv, OneLeader
<1>17. NoneFailed'
  <2> SUFFICES ASSUME "failed" \notin spoilt, NEW r \in Alarms, Free(r) PROVE track.row = r /\ track.open
    BY <1>1, <1>9, <1>10, <1>11 DEF Inv, NoneFailed
  <2>1. a \in Alarms /\ r <= a /\ a \in Nat /\ r \in Nat /\ a # 0
    BY <1>6, Known0 DEF Inv
  <2>2. ~(r < a)
    BY <2>1 DEF Inv, NoneFailed
  <2> QED BY <1>4, <2>1, <2>2
<1> QED BY <1>12, <1>13, <1>14, <1>15, <1>16, <1>17 DEF Inv, AlarmInv

\* Where only the retained messages and the gateway's phase change, before it hears events.
LEMMA LeadKeeps ==
  ASSUME Inv, gateway \in {"restored", "reading"}, gateway' \in {"reading", "up"}, lane = IdleLane,
         NEW read \in Seq(Messages), state' = [state EXCEPT !.read = read], \A i \in DOMAIN read : Known(read[i]),
         UNCHANGED <<setting, machine, mail, late, rows, feed, lane, heard, raiser, acks, spent, spoilt>>
  PROVE  Inv'
<1>1. /\ state' \in StateType /\ state'.alarm = state.alarm /\ state'.link = state.link /\ state'.read = read
  BY DEF Inv, AlarmInv, TrackOK, StateType
<1>2. feed = <<>> /\ heard = NoEvent /\ spent.takeovers # 0
  BY DEF Inv, AlarmInv, GatewayOK, OneLeader
<1>3. /\ Alarms' = Alarms /\ Offlines' = Offlines /\ Mailed' = Mailed
      /\ \A q : (Free(q)' <=> Free(q)) /\ ~Announced(q)'
  BY <1>2 DEF Alarms, Offlines, Mailed, Free, Announced, NoEvent
<1>4. ~Making' /\ \A q : ~Ends(q)' /\ ~Adopting(q)'
  BY FormsNext DEF FormsOK, IdleLane
<1>5. Grows /\ RowsOK' /\ MachineOK' /\ MailOK' /\ FeedOK' /\ RaiserOK' /\ AcksOK'
  BY GrowsAlone, Frame DEF Inv, AlarmInv
<1>6. GatewayOK' /\ LaneOK'
  BY <1>2 DEF GatewayOK, LaneOK
<1>7. TrackOK'
  <2>1. \A m \in Read' : Known(m)'
    BY <1>1 DEF Read, Known
  <2> QED BY <1>1, <1>3, <1>4, <2>1 DEF Inv, AlarmInv, TrackOK, StateType
<1>8. Once'
  BY <1>3 DEF Inv, AlarmInv, Once, Holding
<1>9. AnnouncedOK' /\ OneLeader'
  BY <1>2, <1>3 DEF AnnouncedOK, OneLeader
<1>10. NoneFailed'
  <2>1. gateway # "down" /\ ~Making /\ \A q : ~Ends(q) /\ ~Adopting(q)
    BY IdleForms
  <2> QED BY <1>1, <1>3, <1>4, <2>1 DEF Inv, NoneFailed
<1> QED BY <1>5, <1>6, <1>7, <1>8, <1>9, <1>10 DEF Inv, AlarmInv

LEMMA ReadSteps == Inv /\ ReadRetained => Inv'
<1> SUFFICES ASSUME Inv, ReadRetained PROVE Inv'
  OBVIOUS
<1>1. /\ gateway = "restored" /\ gateway' = "reading" /\ state' = [state EXCEPT !.read = Retained]
      /\ UNCHANGED <<setting, machine, mail, late, rows, feed, lane, heard, raiser, acks, spent, spoilt>>
  BY DEF ReadRetained
<1>2. lane = IdleLane
  BY <1>1 DEF Inv, AlarmInv, GatewayOK
<1>3. machine.raise \in Nat /\ machine.raises \in Nat /\ machine.drops \in Nat /\ machine.raise <= machine.raises
  BY DEF Inv, AlarmInv, MachineOK
<1>4. PICK m, p : /\ m = IF machine.raise # 0 THEN Message("raise", machine.raise) ELSE Message("absent", 0)
                  /\ p = Presence
  OBVIOUS
<1>5. m \in Messages /\ p \in Messages /\ Known(m) /\ Known(p)
  <2>1. m \in Messages /\ Known(m)
    BY <1>3, <1>4 DEF Messages, Message, Known
  <2>2. p \in Messages /\ p.kind # "raise"
    BY <1>3, <1>4 DEF Presence, Messages, Message
  <2> QED BY <2>1, <2>2 DEF Known
<1>6. Retained = <<m, p>>
  BY <1>4 DEF Retained
<1> HIDE DEF Messages, Known
<1>7. <<m, p>> \in Seq(Messages) /\ \A i \in DOMAIN <<m, p>> : Known(<<m, p>>[i])
  BY <1>5
<1> QED BY <1>1, <1>2, <1>6, <1>7, LeadKeeps

LEMMA ResyncSteps == Inv /\ Resync => Inv'
<1> SUFFICES ASSUME Inv, Resync PROVE Inv'
  OBVIOUS
<1>1. /\ gateway = "reading" /\ lane = IdleLane
      /\ UNCHANGED <<setting, machine, mail, late, rows, feed, heard, raiser, acks, spent, spoilt>>
  BY DEF Resync
<1>2. state \in StateType /\ state.read \in Seq(Messages) /\ \A i \in DOMAIN state.read : Known(state.read[i])
  BY DEF Inv, AlarmInv, TrackOK, StateType, Read
<1>3. CASE state.read = <<>>
  <2>1. gateway' = "up" /\ UNCHANGED <<state, lane>>
    BY <1>3 DEF Resync
  <2>2. state' = [state EXCEPT !.read = state.read]
    BY <1>2, <2>1 DEF StateType
  <2> QED BY <1>1, <1>2, <2>1, <2>2, LeadKeeps
<1>4. CASE state.read # <<>>
  <2>1. PICK s, m : s = [state EXCEPT !.read = Tail(state.read)] /\ m = Head(state.read)
    OBVIOUS
  <2>2. Begin(m, s) /\ UNCHANGED gateway
    BY <1>4, <2>1 DEF Resync
  <2>3. /\ Tail(state.read) \in Seq(Messages) /\ m \in Messages /\ Head(state.read) = state.read[1] /\ 1 \in DOMAIN state.read
        /\ \A i \in DOMAIN Tail(state.read) : i + 1 \in DOMAIN state.read /\ Tail(state.read)[i] = state.read[i + 1]
    <3>1. Head(state.read) = state.read[1] /\ Head(state.read) \in Messages
      BY <1>2, <1>4, HeadTailProperties
    <3> QED BY <1>2, <1>4, <2>1, <3>1, HeadTailProperties, LenProperties, EmptySeq
  <2>4. s \in StateType /\ s.alarm = state.alarm /\ s.link = state.link /\ s.read = Tail(state.read)
    BY <1>2, <2>1, <2>3 DEF StateType
  <2>5. Known(m) /\ \A x : x \in {s.read[i] : i \in DOMAIN s.read} => Known(x)
    BY <1>2, <2>1, <2>3, <2>4
  <2>6. MailOK' /\ Mailed' = Mailed
    BY <1>1, Frame DEF Inv, Mailed
  <2>7. \A i, j \in DOMAIN mail' : mail'[i].kind = "raise" /\ mail'[i] = mail'[j] => i = j
    BY <1>1 DEF Inv, AlarmInv, Once
  <2>8. late' \subseteq late /\ Mailed' \subseteq Mailed /\ UNCHANGED <<setting, machine, rows, feed, gateway, heard, raiser, acks, spent, spoilt>>
    BY <1>1, <2>2, <2>6
  <2> QED BY <1>1, <2>2, <2>3, <2>4, <2>5, <2>6, <2>7, <2>8, BeginKeeps
<1> QED BY <1>3, <1>4

-----------------------------------------------------------------------------
(* Handing the line over, losing it                                         *)

\* What the process had received is gone, or comes again.
LEMMA LeaveKeeps ==
  ASSUME Inv, NEW k \in 0..Len(mail), NEW holding \in BOOLEAN, holding => Holding, Leave(k, holding),
         spent' \in [takeovers : Nat, failures : Nat], spent'.takeovers # 0
  PROVE  Inv'
<1>1. /\ gateway' = "down" /\ state' = Fresh /\ lane' = IdleLane /\ feed' = <<>> /\ heard' = NoEvent /\ raiser' = IdleRaiser
      /\ mail' = SubSeq(mail, k + 1, Len(mail)) /\ UNCHANGED <<setting, machine, rows, acks>>
  BY DEF Leave
<1>2. PICK had : had = {mail[i] : i \in 1..k} \union (IF holding THEN {lane.msg} ELSE {})
  OBVIOUS
<1>3. (late' = {} \/ late' = late \union had) /\ spoilt' \in {spoilt, spoilt \union {"reordered"}}
  BY <1>2 DEF Leave
<1>4. mail \in Seq(Mails) /\ Len(mail) \in Nat /\ DOMAIN mail = 1..Len(mail) /\ k \in Nat /\ k <= Len(mail)
  BY LenProperties DEF Inv, AlarmInv, MailOK
<1>5. /\ mail' \in Seq(Mails)
      /\ \A i \in DOMAIN mail' : i \in Nat \ {0} /\ k + i \in DOMAIN mail /\ mail'[i] = mail[k + i]
  <2>1. \A i \in (k + 1)..Len(mail) : mail[i] \in Mails
    BY <1>4, ElementOfSeq
  <2>2. /\ mail' \in Seq(Mails) /\ Len(mail') = IF k + 1 <= Len(mail) THEN Len(mail) - (k + 1) + 1 ELSE 0
        /\ \A i \in 1..(Len(mail) - (k + 1) + 1) : mail'[i] = mail[k + 1 + i - 1]
    BY <1>1, <1>4, <2>1, SubSeqProperties
  <2>3. DOMAIN mail' = 1..(Len(mail) - k)
    <3>1. Len(mail') = Len(mail) - k
      <4>1. PICK n \in Nat : n = Len(mail)
        BY <1>4
      <4>2. PICK l : l = Len(mail')
        OBVIOUS
      <4>3. k \in Nat /\ k <= n /\ l = IF k + 1 <= n THEN n - (k + 1) + 1 ELSE 0
        BY <1>4, <2>2, <4>1, <4>2
      <4>4. l = n - k
        BY <4>3
      <4> QED BY <4>1, <4>2, <4>4
    <3>2. DOMAIN mail' = 1..Len(mail')
      BY <2>2, LenProperties
    <3> QED BY <3>1, <3>2
  <2>4. \A i \in DOMAIN mail' : i \in Nat \ {0} /\ k + i \in DOMAIN mail /\ k + 1 + i - 1 = k + i /\ i \in 1..(Len(mail) - (k + 1) + 1)
    BY <1>4, <2>3
  <2> QED BY <2>2, <2>4
<1>6. Mailed' \subseteq Mailed /\ had \subseteq Mailed \union (IF holding THEN {lane.msg} ELSE {})
  <2>1. Mailed' \subseteq Mailed
    BY <1>5 DEF Mailed
  <2>2. 1..k \subseteq DOMAIN mail
    BY <1>4
  <2>3. \A i \in 1..k : mail[i] \in Mailed
    BY <2>2 DEF Mailed
  <2> QED BY <1>2, <2>1, <2>3
<1>7. \A i, j \in DOMAIN mail : mail[i].kind = "raise" /\ mail[i] = mail[j] => i = j
  BY DEF Inv, AlarmInv, Once
<1>8. \A i, j \in DOMAIN mail' : mail'[i].kind = "raise" /\ mail'[i] = mail'[j] => i = j
  <2> SUFFICES ASSUME NEW i \in DOMAIN mail', NEW j \in DOMAIN mail', mail'[i].kind = "raise", mail'[i] = mail'[j]
               PROVE  i = j
    OBVIOUS
  <2>1. k + i = k + j
    BY <1>5, <1>7
  <2> QED BY <1>4, <1>5, <2>1
<1>9. \A m \in Mailed' : m.kind = "raise" => m \notin late \union had
  <2> SUFFICES ASSUME NEW j \in DOMAIN mail', mail'[j].kind = "raise" PROVE mail'[j] \notin late \union had
    BY DEF Mailed
  <2>1. k + j \in DOMAIN mail /\ mail'[j] = mail[k + j] /\ mail'[j] \in Mailed
    BY <1>5 DEF Mailed
  <2>2. mail'[j] \notin late /\ (holding => mail'[j] # lane.msg)
    BY <2>1 DEF Inv, AlarmInv, Once
  <2>3. \A i \in 1..k : mail[i] # mail'[j]
    <3> SUFFICES ASSUME NEW i \in 1..k, mail[i] = mail'[j] PROVE FALSE
      OBVIOUS
    <3>1. i \in DOMAIN mail
      BY <1>4
    <3>2. i = k + j
      BY <1>7, <2>1, <3>1
    <3> QED BY <1>4, <1>5, <3>2
  <2> QED BY <1>2, <2>2, <2>3
<1>10. MailOK'
  <2>1. holding => lane.msg \in Mails /\ Known(lane.msg)
    <3> SUFFICES ASSUME holding PROVE lane.msg \in Mails /\ Known(lane.msg)
      OBVIOUS
    <3>1. lane.msg \in Messages /\ Known(lane.msg) /\ lane.msg.kind # "absent"
      BY DEF Holding, Inv, AlarmInv, LaneOK
    <3> QED BY <3>1 DEF Messages, Mails
  <2>2. late' \subseteq late \union had
    BY <1>3
  <2>3. late' \subseteq Mails
    BY <1>6, <2>1, <2>2, MailedAre DEF Inv, AlarmInv, MailOK
  <2>4. \A m \in Mailed' \union late' : Known(m)'
    BY <1>1, <1>6, <2>1, <2>2 DEF Inv, AlarmInv, MailOK, Known
  <2> QED BY <1>5, <2>3, <2>4 DEF MailOK
<1>11. MachineOK'
  BY <1>1 DEF Inv, AlarmInv, MachineOK
<1>12. "failed" \in spoilt' \/ \A r, o \in Alarms : r < o => ~Free(r)
  BY <1>3 DEF Inv, NoneFailed
<1> QED BY <1>1, <1>3, <1>8, <1>9, <1>10, <1>11, <1>12, LedByNobody

LEMMA Handed ==
  ASSUME Inv, Handover
  PROVE  spent' \in [takeovers : Nat, failures : Nat] /\ spent'.takeovers # 0
<1>1. spent' = [spent EXCEPT !.takeovers = spent.takeovers + 1] /\ spent \in [takeovers : Nat, failures : Nat]
  BY DEF Handover, Inv, AlarmInv, MachineOK
<1>2. PICK t \in Nat \ {0} : t = spent.takeovers + 1
  BY <1>1
<1> QED BY <1>1, <1>2

LEMMA CrashSteps == Inv /\ Crash => Inv'
<1> SUFFICES ASSUME Inv, Crash PROVE Inv'
  OBVIOUS
<1>1. PICK holding \in BOOLEAN : holding = (lane # IdleLane /\ gateway \in {"up", "stopping"})
  OBVIOUS
<1>2. Handover /\ \E k \in 0..Len(mail) : Leave(k, holding)
  BY <1>1 DEF Crash
<1> QED BY <1>1, <1>2, Handed, LeaveKeeps DEF Holding

LEMMA StoppedSteps == Inv /\ Stopped => Inv'
<1> SUFFICES ASSUME Inv, Stopped PROVE Inv'
  OBVIOUS
<1>1. gateway = "stopping" /\ UNCHANGED spent /\ \E k \in 0..Len(mail) : Leave(k, FALSE)
  BY DEF Stopped
<1>2. spent \in [takeovers : Nat, failures : Nat] /\ spent.takeovers # 0
  BY <1>1 DEF Inv, AlarmInv, MachineOK, OneLeader
<1> QED BY <1>1, <1>2, LeaveKeeps

LEMMA StopSteps == Inv /\ Stop => Inv'
<1> SUFFICES ASSUME Inv, Stop PROVE Inv'
  OBVIOUS
<1>1. /\ gateway = "up" /\ gateway' = "stopping" /\ state' = [state EXCEPT !.timers = 0] /\ feed' = <<>>
      /\ UNCHANGED <<setting, machine, mail, late, rows, lane, heard, raiser, acks, spoilt>>
  BY DEF Stop
<1>2. spent' \in [takeovers : Nat, failures : Nat] /\ spent'.takeovers # 0
  BY Handed DEF Stop
<1>3. /\ state' \in StateType /\ state'.alarm = state.alarm /\ state'.link = state.link /\ state'.read = state.read
  BY <1>1 DEF Inv, AlarmInv, TrackOK, StateType
<1>4. /\ Alarms' = Alarms /\ Offlines' = Offlines /\ Mailed' = Mailed /\ Read' = Read
      /\ \A q : (Free(q)' <=> Free(q)) /\ (Announced(q)' => Announced(q))
      /\ \A q : (Ends(q)' <=> Ends(q)) /\ (Adopting(q)' <=> Adopting(q))
      /\ (Making' <=> Making) /\ (Holding' <=> Holding)
  BY <1>1, <1>3 DEF Alarms, Offlines, Mailed, Read, Free, Announced, Ends, Adopting, Making, Holding
<1>5. Grows /\ RowsOK' /\ MailOK' /\ RaiserOK' /\ AcksOK'
  BY <1>1, GrowsAlone, Frame DEF Inv, AlarmInv
<1>6. MachineOK' /\ FeedOK' /\ GatewayOK'
  BY <1>1, <1>2 DEF Inv, AlarmInv, MachineOK, FeedOK, GatewayOK
<1>7. LaneOK'
  <2>1. lane.msg.kind # "absent"
    BY <1>1 DEF Inv, AlarmInv, LaneOK, IdleLane, NoMessage, Message
  <2> QED BY <1>1, <1>4, <2>1 DEF Inv, AlarmInv, LaneOK, Known
<1>8. TrackOK'
  <2>1. \A m \in Read : Known(m)'
    BY <1>1 DEF Inv, AlarmInv, TrackOK, Known
  <2> QED BY <1>1, <1>3, <1>4, <2>1 DEF Inv, AlarmInv, TrackOK, StateType
<1>9. Once'
  BY <1>1, <1>4 DEF Inv, AlarmInv, Once
<1>10. AnnouncedOK'
  BY <1>1, <1>3, <1>4 DEF Inv, AlarmInv, AnnouncedOK
<1>11. OneLeader' /\ NoneFailed'
  BY <1>1, <1>2, <1>3, <1>4 DEF Inv, OneLeader, NoneFailed
<1> QED BY <1>5, <1>6, <1>7, <1>8, <1>9, <1>10, <1>11 DEF Inv, AlarmInv

-----------------------------------------------------------------------------
(* Every behaviour                                                          *)

LEMMA NextSteps == Inv /\ [Next]_vars => Inv'
<1> SUFFICES ASSUME Inv, [Next]_vars PROVE Inv'
  OBVIOUS
<1>1. CASE Machine
  BY <1>1, MachineSteps
<1>2. CASE People
  BY <1>2, PeopleSteps
<1>3. CASE MessageLane \/ Fail
  BY <1>3, TakeSteps, PerformSteps, RefuseSteps, FailSteps DEF MessageLane
<1>4. CASE EventLane
  BY <1>4, HearSteps, HeedLinks, HeedAlarms DEF EventLane
<1>5. CASE Debounce \/ FailOffline
  BY <1>5, FiresSteps, RaiseOfflineSteps, FailOfflineSteps DEF Debounce
<1>6. CASE Lead
  BY <1>6, TakeOverSteps, ReadSteps, ResyncSteps, StoppedSteps DEF Lead
<1>7. CASE Crash \/ Stop
  BY <1>7, CrashSteps, StopSteps
<1>8. CASE UNCHANGED vars
  <2>1. UNCHANGED <<setting, machine, mail, late, rows, feed, gateway, state, lane, heard, raiser, acks, spent, spoilt>>
    BY <1>8 DEF vars, leaderVars
  <2>2. Grows
    BY <2>1, GrowsAlone DEF Inv, AlarmInv
  <2>3. Alarms' = Alarms /\ Mailed' = Mailed
    BY <2>1 DEF Alarms, Mailed
  <2>4. /\ MachineOK' /\ MailOK' /\ RowsOK' /\ FeedOK' /\ LaneOK' /\ RaiserOK' /\ GatewayOK' /\ AcksOK' /\ Once'
    BY <2>1, <2>2, Frame DEF Inv
  <2>5. TrackOK'
    BY <2>1, <2>2, <2>3, FrameTrack DEF Inv
  <2>6. AnnouncedOK'
    BY <2>1, <2>2, <2>3, FrameAnnounced DEF Inv, Announced
  <2>7. OneLeader' /\ NoneFailed'
    BY <2>1, <2>2, <2>3, FrameLast DEF Inv
  <2> QED BY <2>4, <2>5, <2>6, <2>7 DEF Inv, AlarmInv
<1> QED BY <1>1, <1>2, <1>3, <1>4, <1>5, <1>6, <1>7, <1>8 DEF Next

LEMMA AlwaysInv == Spec => []Inv
<1>1. Init => Inv
  BY InitAlarms DEF Inv
<1> QED BY <1>1, NextSteps, PTL DEF Spec

\* Whatever the machine, the people, the failures and the handovers: the rows and what
\* the gateway tracks of them keep their types, a row that is tracked belongs to the
\* raise it is tracked for, and a gateway that is down holds nothing.
THEOREM AlarmTypeCorrect == Spec => []AlarmTypeOK
<1>1. Inv => AlarmTypeOK
  BY TypesFollow DEF Inv
<1> QED BY <1>1, AlwaysInv, PTL

\* The machine hears that an alarm is acknowledged only for an alarm's row that a
\* person resolved: the row that is tracked is never one the controller has ended.
THEOREM AcksAreOfPeople == Spec => []AcksArePeoples
<1>1. Inv => AcksArePeoples
  BY DEF Inv, AlarmInv, AcksOK, AcksArePeoples, Answered, Alarms
<1> QED BY <1>1, AlwaysInv, PTL

\* No raise waits in two rows that nobody holds: under one leader because a raise is
\* told once and answered with one row; without failures because every row but the
\* newest has ended or is held.
THEOREM OneRowForARaise == Spec => []OneRowPerRaise
<1>1. Inv => OneRowPerRaise
  <2> SUFFICES ASSUME Inv, "failed" \notin spoilt \/ spent.takeovers = 0,
                      NEW r \in Alarms, NEW o \in Alarms, r # o, Free(r), Free(o)
               PROVE  rows[r].of # rows[o].of
    BY DEF OneRowPerRaise, Alarms
  <2>1. CASE spent.takeovers = 0
    BY <2>1 DEF Inv, OneLeader
  <2>2. CASE "failed" \notin spoilt
    <3>1. r < o \/ o < r
      BY Known0 DEF Inv
    <3> QED BY <2>2, <3>1 DEF Inv, NoneFailed
  <2> QED BY <2>1, <2>2
<1> QED BY <1>1, AlwaysInv, PTL

=============================================================================
