------------------------- MODULE MachineUnitsProofs -------------------------
(***************************************************************************)
(* Where the units and the jobs of a machine line are, for any number of   *)
(* rows and any length of its wire.  As long as no machine restarts, a     *)
(* unit the gateway counts as present is there and a job it counts as      *)
(* accepted is queued, or the mail or the work in hand is about to tell it *)
(* otherwise.  As long as the gateway does not crash either, a job whose   *)
(* row ended is cancelled: its cancel comes after its dispatch, and comes  *)
(* once.  Built on the invariants of MachineHandoffProofs.                 *)
(***************************************************************************)
EXTENDS MachineHandoffProofs

-----------------------------------------------------------------------------
(* Where the units are, as long as no machine restarts: over crashes, late   *)
(* answers and takeovers, what the gateway is still to hear is in the mail.   *)

Taken(M, r) == \E e \in M.ran : e.ok /\ e.cmd.op = "dispatch" /\ e.cmd.row = r
Cancels(c, r) == \E i \in DOMAIN c : c[i].op = "cancel" /\ c[i].row = r
Tells(h, r) == \/ h.kind = "arrived" /\ h.row = r
               \/ h.kind = "reply" /\ h.row = r /\ h.ok
               \/ h.kind = "snapshot" /\ r \in h.jobs
Knows(m, r) == \E i \in DOMAIN m : Tells(m[i], r)
Stays(m, r) == \E i \in DOMAIN m : /\ m[i].kind = "arrived" /\ m[i].row = r
                                   /\ \A k \in DOMAIN m : k > i => ~(m[k].kind = "released" /\ m[k].row = r)
Ended(rec, r) == rec[r].status \notin {"none", "pending"}

\* Commands and letters that are read and written, as far as this part needs.
LEMMA CancelsTaken ==
  ASSUME NEW c \in Seq(Cmds), c # <<>>, NEW r \in Rows
  PROVE  /\ Cancels(Tail(c), r) => Cancels(c, r)
         /\ c[1].op = "cancel" /\ c[1].row = r => Cancels(c, r)
<1>1. PICK n, t : n = Len(c) /\ t = Tail(c)
  OBVIOUS
<1>2. n \in Nat \ {0} /\ DOMAIN c = 1..n /\ DOMAIN t = 1..(n - 1) /\ \A i \in 1..(n - 1) : t[i] = c[i + 1]
  <2>1. t \in Seq(Cmds) /\ Len(t) = n - 1 /\ \A i \in 1..Len(t) : t[i] = c[i + 1]
    BY <1>1, HeadTailProperties
  <2>2. n \in Nat \ {0} /\ DOMAIN c = 1..n /\ DOMAIN t = 1..Len(t)
    BY <1>1, <2>1, LenProperties, EmptySeq
  <2> QED BY <2>1, <2>2
<1>3. \A i \in DOMAIN t : i + 1 \in DOMAIN c /\ t[i] = c[i + 1]
  BY <1>2
<1>4. 1 \in DOMAIN c
  BY <1>2
<1> QED BY <1>1, <1>3, <1>4 DEF Cancels
LEMMA CancelsAdded ==
  ASSUME NEW c \in Seq(Cmds), NEW p \in Seq(Cmds), NEW r \in Rows
  PROVE  Cancels(c \o p, r) => Cancels(c, r) \/ Cancels(p, r)
<1>1. PICK n, k, b : n = Len(c) /\ k = Len(p) /\ b = c \o p
  OBVIOUS
<1>2. n \in Nat /\ k \in Nat /\ DOMAIN c = 1..n /\ DOMAIN p = 1..k /\ DOMAIN b = 1..(n + k)
  <2>1. b \in Seq(Cmds) /\ Len(b) = n + k
    BY <1>1, ConcatProperties
  <2>2. DOMAIN b = 1..Len(b)
    BY <2>1, LenProperties
  <2> QED BY <1>1, <2>1, <2>2, LenProperties
<1>3. \A i \in 1..(n + k) : b[i] = IF i <= n THEN c[i] ELSE p[i - n]
  BY <1>1, ConcatProperties
<1>4. \A i \in DOMAIN b : (i \in DOMAIN c /\ b[i] = c[i]) \/ (i - n \in DOMAIN p /\ b[i] = p[i - n])
  <2> SUFFICES ASSUME NEW i \in 1..(n + k)
               PROVE  (i \in 1..n /\ b[i] = c[i]) \/ (i - n \in 1..k /\ b[i] = p[i - n])
    BY <1>2
  <2>1. CASE i <= n
    BY <1>2, <1>3, <2>1
  <2>2. CASE ~(i <= n)
    <3>1. i - n \in 1..k
      BY <1>2, <2>2
    <3> QED BY <1>2, <1>3, <2>2, <3>1
  <2> QED BY <2>1, <2>2
<1> QED BY <1>1, <1>4 DEF Cancels
LEMMA CommandAdded ==
  ASSUME NEW c \in Seq(Cmds), NEW k \in Cmds, NEW r \in Rows
  PROVE  /\ Wired(Append(c, k), r) => Wired(c, r) \/ (k.op = "dispatch" /\ k.row = r)
         /\ Cancels(Append(c, k), r) => Cancels(c, r) \/ (k.op = "cancel" /\ k.row = r)
<1>1. PICK n, b : n = Len(c) /\ b = Append(c, k)
  OBVIOUS
<1>2. n \in Nat /\ DOMAIN c = 1..n /\ DOMAIN b = 1..(n + 1) /\ b[n + 1] = k /\ \A i \in 1..n : b[i] = c[i]
  <2>1. b \in Seq(Cmds) /\ Len(b) = n + 1 /\ b[n + 1] = k /\ \A i \in 1..n : b[i] = c[i]
    BY <1>1, AppendProperties
  <2> QED BY <1>1, <2>1, LenProperties
<1>3. \A i \in DOMAIN b : b[i] = k \/ (i \in DOMAIN c /\ b[i] = c[i])
  BY <1>2
<1> QED BY <1>1, <1>3 DEF Wired, Cancels
LEMMA LetterRead ==
  ASSUME NEW m \in Seq(Letters), m # <<>>, NEW r \in Rows
  PROVE  LET h == m[1]
             t == Tail(m)
         IN
         /\ Knows(t, r) => Knows(m, r)
         /\ Stays(t, r) => Stays(m, r)
         /\ \A kind : Says(m, kind, r) => Says(t, kind, r) \/ (h.kind = kind /\ h.row = r)
         /\ Tells(h, r) => Knows(m, r)
         /\ h.kind = "arrived" /\ h.row = r => Stays(m, r) \/ Says(m, "released", r)
         /\ Says(m, "arrived", r) => Stays(m, r) \/ Says(m, "released", r)
<1>1. PICK n, t, h : n = Len(m) /\ t = Tail(m) /\ h = m[1]
  OBVIOUS
<1>2. n \in Nat \ {0} /\ DOMAIN m = 1..n /\ DOMAIN t = 1..(n - 1) /\ \A i \in 1..(n - 1) : t[i] = m[i + 1]
  <2>1. t \in Seq(Letters) /\ Len(t) = n - 1 /\ \A i \in 1..Len(t) : t[i] = m[i + 1]
    BY <1>1, HeadTailProperties
  <2>2. n \in Nat \ {0} /\ DOMAIN m = 1..n /\ DOMAIN t = 1..Len(t)
    BY <1>1, <2>1, LenProperties, EmptySeq
  <2> QED BY <2>1, <2>2
<1>3. \A i \in DOMAIN t : i \in Nat /\ i + 1 \in DOMAIN m /\ t[i] = m[i + 1]
  BY <1>2
<1>4. \A i \in DOMAIN m : i \in Nat /\ (m[i] = h \/ (i - 1 \in DOMAIN t /\ m[i] = t[i - 1]))
  <2> SUFFICES ASSUME NEW i \in 1..n PROVE i \in Nat /\ (m[i] = h \/ (i - 1 \in 1..(n - 1) /\ m[i] = t[i - 1]))
    BY <1>2
  <2>1. CASE i = 1
    BY <1>1, <2>1
  <2>2. CASE i # 1
    <3>1. i - 1 \in 1..(n - 1) /\ (i - 1) + 1 = i
      BY <1>2, <2>2
    <3>2. t[i - 1] = m[(i - 1) + 1]
      BY <1>2, <3>1
    <3> QED BY <3>1, <3>2
  <2> QED BY <2>1, <2>2
<1>5. Knows(t, r) => Knows(m, r)
  BY <1>3 DEF Knows
<1>6. ASSUME Stays(t, r) PROVE Stays(m, r)
  <2>1. PICK i \in DOMAIN t : /\ t[i].kind = "arrived" /\ t[i].row = r
                              /\ \A k \in DOMAIN t : k > i => ~(t[k].kind = "released" /\ t[k].row = r)
    BY <1>6 DEF Stays
  <2>2. i + 1 \in DOMAIN m /\ m[i + 1] = t[i]
    BY <1>3
  <2>3. ASSUME NEW k \in DOMAIN m, k > i + 1 PROVE ~(m[k].kind = "released" /\ m[k].row = r)
    <3>1. k - 1 \in DOMAIN t /\ k - 1 > i /\ m[k] = t[k - 1]
      <4>1. k \in 1..n /\ i \in Nat
        BY <1>2, <1>3
      <4>2. k - 1 \in 1..(n - 1) /\ k - 1 > i /\ (k - 1) + 1 = k
        BY <1>2, <2>3, <4>1
      <4>3. t[k - 1] = m[(k - 1) + 1]
        BY <1>2, <4>2
      <4> QED BY <1>2, <4>2, <4>3
    <3> QED BY <2>1, <3>1
  <2> QED BY <2>1, <2>2, <2>3 DEF Stays
<1>7. \A kind : Says(m, kind, r) => Says(t, kind, r) \/ (h.kind = kind /\ h.row = r)
  BY <1>4 DEF Says
<1>8. 1 \in DOMAIN m
  BY <1>2
<1>9. Tells(h, r) => Knows(m, r)
  BY <1>1, <1>8 DEF Knows
<1>10. Says(m, "arrived", r) => Stays(m, r) \/ Says(m, "released", r)
  BY DEF Says, Stays
<1>11. h.kind = "arrived" /\ h.row = r => Says(m, "arrived", r)
  BY <1>1, <1>8 DEF Says
<1> QED BY <1>1, <1>5, <1>6, <1>7, <1>9, <1>10, <1>11
LEMMA LetterWritten ==
  ASSUME NEW m \in Seq(Letters), NEW h \in Letters, NEW r \in Rows
  PROVE  LET t == Append(m, h) IN
         /\ Knows(t, r) => Knows(m, r) \/ Tells(h, r)
         /\ Stays(t, r) => \/ Stays(m, r) /\ ~(h.kind = "released" /\ h.row = r)
                           \/ h.kind = "arrived" /\ h.row = r
         /\ \A kind : Says(m, kind, r) \/ (h.kind = kind /\ h.row = r) => Says(t, kind, r)
         /\ m # <<>> => t # <<>> /\ t[1] = m[1]
<1>1. PICK n, t : n = Len(m) /\ t = Append(m, h)
  OBVIOUS
<1>2. n \in Nat /\ DOMAIN m = 1..n /\ DOMAIN t = 1..(n + 1) /\ t[n + 1] = h /\ \A i \in 1..n : t[i] = m[i]
  <2>1. t \in Seq(Letters) /\ Len(t) = n + 1 /\ t[n + 1] = h /\ \A i \in 1..n : t[i] = m[i]
    BY <1>1, AppendProperties
  <2> QED BY <1>1, <2>1, LenProperties
<1>3. \A i \in DOMAIN t : (i = n + 1 /\ t[i] = h) \/ (i \in DOMAIN m /\ t[i] = m[i])
  BY <1>2
<1>4. n + 1 \in DOMAIN t /\ \A i \in DOMAIN m : i \in DOMAIN t /\ t[i] = m[i] /\ n + 1 > i
  BY <1>2
<1>5. Knows(t, r) => Knows(m, r) \/ Tells(h, r)
  BY <1>3 DEF Knows
<1>6. ASSUME Stays(t, r), ~(h.kind = "arrived" /\ h.row = r)
      PROVE  Stays(m, r) /\ ~(h.kind = "released" /\ h.row = r)
  <2>1. PICK i \in DOMAIN t : /\ t[i].kind = "arrived" /\ t[i].row = r
                              /\ \A k \in DOMAIN t : k > i => ~(t[k].kind = "released" /\ t[k].row = r)
    BY <1>6 DEF Stays
  <2>2. i \in DOMAIN m /\ t[i] = m[i]
    BY <1>3, <1>6, <2>1
  <2>3. ~(h.kind = "released" /\ h.row = r)
    BY <1>2, <1>4, <2>1, <2>2
  <2>4. \A k \in DOMAIN m : k > i => ~(m[k].kind = "released" /\ m[k].row = r)
    BY <1>4, <2>1
  <2> QED BY <2>1, <2>2, <2>3, <2>4 DEF Stays
<1>7. \A kind : Says(m, kind, r) \/ (h.kind = kind /\ h.row = r) => Says(t, kind, r)
  BY <1>2, <1>4 DEF Says
<1>8. m # <<>> => t # <<>> /\ t[1] = m[1]
  <2>1. m # <<>> => 1 \in DOMAIN m
    <3>1. m # <<>> => n # 0
      BY <1>1, EmptySeq
    <3> QED BY <1>2, <3>1
  <2>2. t # <<>>
    BY <1>1, AppendProperties
  <2> QED BY <1>2, <2>1, <2>2
<1> QED BY <1>1, <1>5, <1>6, <1>7, <1>8

\* A row the machine took is no longer new; while it is pending its job is queued, or
\* its arrival is in the mail; a cancelled row ended; a unit whose arrival is in the
\* mail, and not its release, is there.
WireOK(rec, M, c, m, r) ==
  /\ rec[r].status = "none" => ~Taken(M, r) /\ ~Wired(c, r) /\ ~rec[r].item
  /\ M.job[r] # "none" \/ Knows(m, r) \/ rec[r].claimed => Taken(M, r)
  /\ Taken(M, r) /\ rec[r].status = "pending" => M.job[r] = "queued" \/ Says(m, "arrived", r)
  /\ Cancels(c, r) => Ended(rec, r)
  /\ rec[r].item /\ rec[r].status = "pending" => Says(m, "arrived", r)
  /\ Stays(m, r) => M.job[r] = "present"
\* What the gateway accepted was taken; what it does not know was not; a unit it holds
\* is there, or its release is in the mail.
ViewOK(rec, M, c, m, g, s, t, r) ==
  /\ s.row[r] = "accepted" \/ (\E k \in Sends : t[<<r, k>>].pc = "claim") => Taken(M, r)
  /\ g # "down" /\ s.row[r] = "unknown" /\ rec[r].status = "pending" => ~Taken(M, r) /\ ~Wired(c, r)
  /\ r \in s.held => M.job[r] = "present" \/ Says(m, "released", r)
\* A cancel follows the failure it belongs to; an arrival is filed, then received,
\* before its message is acked; a unit that was released is not held again.
Arriving(rec, ln, r) ==
  /\ ln.todo[1].row = r
  /\ \/ ln.todo[1].do = "accumulate" /\ (ln.landed => rec[r].item)
     \/ ln.todo[1].do = "receive" /\ ~ln.landed
ActsAt(list, l, m) == \A i \in DOMAIN list :
  /\ list[i].do = "cancel" => i = 2 /\ list[1].do = "fail" /\ list[1].row = list[i].row
  /\ list[i].do = "accumulate" => l = "messages" /\ m[1].kind = "arrived" /\ m[1].row = list[i].row
LanesAt(rec, ln, m, s) ==
  /\ \A l \in Lanes : ActsAt(ln[l].todo, l, m)
  /\ ln["messages"].todo # <<>> =>
       /\ m[1].kind = "arrived" /\ rec[m[1].row].status = "pending" => Arriving(rec, ln["messages"], m[1].row)
       /\ m[1].kind = "released" => m[1].row \notin s.held
InPlace(r) == WireOK(db, machine, cmds, mail, r) /\ ViewOK(db, machine, cmds, mail, gateway, state, task, r)
Placed == (\A r \in Rows : InPlace(r)) /\ LanesAt(db, lane, mail, state)
PlacedNext ==
  /\ \A r \in Rows : WireOK(db', machine', cmds', mail', r) /\ ViewOK(db', machine', cmds', mail', gateway', state', task', r)
  /\ LanesAt(db', lane', mail', state')
LEMMA PlacedThen == PlacedNext => Placed'
BY DEF PlacedNext, Placed, InPlace

\* A step of the gateway's: what it sends is known, what it cancels ended, and what it
\* acks is filed.
LEMMA GatewayMoves ==
  ASSUME TypeInv, UNCHANGED <<db, machine>>, NEW r \in Rows, InPlace(r),
         Wired(cmds', r) => Wired(cmds, r) \/ (db[r].status # "none" /\ state'.row[r] # "unknown"),
         Cancels(cmds', r) => Cancels(cmds, r) \/ Ended(db, r),
         state'.row[r] = "accepted" \/ (\E k \in Sends : task'[<<r, k>>].pc = "claim") => Taken(machine, r),
         gateway' # "down" /\ state'.row[r] = "unknown" /\ db[r].status = "pending" => gateway # "down" /\ state.row[r] = "unknown",
         r \in state'.held => r \in state.held \/ machine.job[r] = "present" \/ Says(mail', "released", r),
         \/ mail' = mail
         \/ /\ mail # <<>> /\ mail' = Tail(mail)
            /\ mail[1].kind = "arrived" /\ mail[1].row = r => db[r].status # "pending"
            /\ mail[1].kind = "released" /\ mail[1].row = r => r \notin state'.held
  PROVE  WireOK(db', machine', cmds', mail', r) /\ ViewOK(db', machine', cmds', mail', gateway', state', task', r)
<1>1. PICK rec, M, c2, m2, g2, s2, t2 :
        rec = db /\ M = machine /\ c2 = cmds' /\ m2 = mail' /\ g2 = gateway' /\ s2 = state' /\ t2 = task'
  OBVIOUS
<1>2. WireOK(rec, M, cmds, mail, r) /\ ViewOK(rec, M, cmds, mail, gateway, state, task, r)
  BY <1>1 DEF InPlace
<1>3. /\ Wired(c2, r) => Wired(cmds, r) \/ (rec[r].status # "none" /\ s2.row[r] # "unknown")
      /\ Cancels(c2, r) => Cancels(cmds, r) \/ Ended(rec, r)
      /\ s2.row[r] = "accepted" \/ (\E k \in Sends : t2[<<r, k>>].pc = "claim") => Taken(M, r)
      /\ g2 # "down" /\ s2.row[r] = "unknown" /\ rec[r].status = "pending" => gateway # "down" /\ state.row[r] = "unknown"
      /\ r \in s2.held => r \in state.held \/ M.job[r] = "present" \/ Says(m2, "released", r)
  BY <1>1
<1>4. /\ Knows(m2, r) => Knows(mail, r)
      /\ Stays(m2, r) => Stays(mail, r)
      /\ rec[r].status = "pending" => (Says(mail, "arrived", r) => Says(m2, "arrived", r))
      /\ r \in s2.held => (Says(mail, "released", r) => Says(m2, "released", r))
  <2>1. CASE m2 = mail
    BY <2>1
  <2>2. CASE /\ mail # <<>> /\ m2 = Tail(mail)
             /\ mail[1].kind = "arrived" /\ mail[1].row = r => rec[r].status # "pending"
             /\ mail[1].kind = "released" /\ mail[1].row = r => r \notin s2.held
    <3>1. mail \in Seq(Letters)
      BY DEF TypeInv
    <3>2. PICK h : h = mail[1]
      OBVIOUS
    <3>3. /\ Knows(m2, r) => Knows(mail, r)
          /\ Stays(m2, r) => Stays(mail, r)
          /\ \A kind : Says(mail, kind, r) => Says(m2, kind, r) \/ (h.kind = kind /\ h.row = r)
      BY <2>2, <3>1, <3>2, LetterRead
    <3> HIDE DEF Knows, Stays, Says
    <3> QED BY <2>2, <3>2, <3>3
  <2> QED BY <1>1, <2>1, <2>2
<1> HIDE DEF Taken, Wired, Cancels, Knows, Says, Stays
<1>5. WireOK(rec, M, c2, m2, r)
  BY <1>2, <1>3, <1>4 DEF WireOK, Ended
<1>6. ViewOK(rec, M, c2, m2, g2, s2, t2, r)
  BY <1>2, <1>3, <1>4 DEF ViewOK
<1> QED BY <1>1, <1>5, <1>6

\* A list goes out: what it dispatches is known, what it cancels ended.
Sendable(list, s, l, m) == \A i \in DOMAIN list :
  /\ list[i].do = "dispatch" => s.row[list[i].row] # "unknown"
  /\ list[i].do = "cancel" => \/ i = 1 /\ Ended(db, list[i].row)
                              \/ i = 2 /\ list[1].do = "fail" /\ list[1].row = list[i].row
  /\ list[i].do = "accumulate" => l = "messages" /\ m[1].kind = "arrived" /\ m[1].row = list[i].row
LEMMA ListGoes ==
  ASSUME TypeInv, NEW list \in Seq(Acts), NEW s, NEW l, NEW m, Sendable(list, s, l, m)
  PROVE  /\ \A r \in Rows : Wired(Published(list), r) => s.row[r] # "unknown"
         /\ \A r \in Rows : Cancels(Published(list), r) => Ended(db, r)
         /\ ActsAt(Rest(list), l, m)
<1>1. PICK u, p, rest : u = Upto(list) /\ p = Published(list) /\ rest = Rest(list)
  OBVIOUS
<1>2. /\ p \in Seq(Cmds) /\ Len(p) = u
      /\ \A i \in 1..u : p[i].row = list[i].row /\ (p[i].op = "dispatch" <=> list[i].do = "dispatch")
  BY <1>1, PublishedOf
<1>3. /\ rest \in Seq(Acts) /\ Len(rest) = Len(list) - u /\ Len(rest) \in Nat
      /\ \A i \in DOMAIN rest : u + i \in DOMAIN list /\ rest[i] = list[u + i]
      /\ DOMAIN rest = 1..(Len(list) - u)
  BY <1>1, RestOf
<1>4. Len(list) \in Nat /\ DOMAIN list = 1..Len(list) /\ DOMAIN p = 1..u /\ u \in Nat
  <2>1. Len(p) \in Nat /\ DOMAIN p = 1..Len(p)
    BY <1>2, LenProperties
  <2> QED BY <1>2, <2>1, LenProperties
<1>5. u <= Len(list)
  BY <1>3, <1>4
<1>6. \A i \in DOMAIN p : i \in DOMAIN list
  BY <1>4, <1>5
<1>7. \A i \in DOMAIN p : list[i].do \notin Verbs /\ (p[i].op = "cancel" => list[i].do = "cancel")
  <2>1. \A i \in 1..Upto(list) : list[i].do \notin Verbs
    BY Cut
  <2>2. \A i \in 1..Upto(list) : Published(list)[i].op = "cancel" => list[i].do = "cancel"
    BY DEF Published, Command
  <2> QED BY <1>1, <1>4, <2>1, <2>2
<1>8. ASSUME NEW r \in Rows, Wired(p, r) PROVE s.row[r] # "unknown"
  <2>1. PICK i \in DOMAIN p : p[i].op = "dispatch" /\ p[i].row = r
    BY <1>8 DEF Wired
  <2>2. i \in DOMAIN list /\ list[i].do = "dispatch" /\ list[i].row = r
    BY <1>2, <1>4, <1>6, <2>1
  <2> QED BY <2>2 DEF Sendable
<1>9. ASSUME NEW r \in Rows, Cancels(p, r) PROVE Ended(db, r)
  <2>1. PICK i \in DOMAIN p : p[i].op = "cancel" /\ p[i].row = r
    BY <1>9 DEF Cancels
  <2>2. i \in DOMAIN list /\ list[i].do = "cancel" /\ list[i].row = r
    BY <1>2, <1>4, <1>6, <1>7, <2>1
  <2>3. CASE i = 2 /\ list[1].do = "fail"
    <3>1. 1 \in DOMAIN p
      BY <1>4, <2>1, <2>3
    <3>2. list[1].do \notin Verbs
      BY <1>7, <3>1
    <3> QED BY <2>3, <3>2 DEF Verbs
  <2> QED BY <2>2, <2>3 DEF Sendable
<1>10. ActsAt(rest, l, m)
  <2> SUFFICES ASSUME NEW i \in DOMAIN rest
               PROVE  /\ rest[i].do = "cancel" => i = 2 /\ rest[1].do = "fail" /\ rest[1].row = rest[i].row
                      /\ rest[i].do = "accumulate" => l = "messages" /\ m[1].kind = "arrived" /\ m[1].row = rest[i].row
    BY DEF ActsAt
  <2>1. u + i \in DOMAIN list /\ rest[i] = list[u + i] /\ i \in Nat \ {0}
    BY <1>3
  <2>2. ASSUME rest[i].do = "cancel" PROVE i = 2 /\ rest[1].do = "fail" /\ rest[1].row = rest[i].row
    <3>1. rest[1].do \in Verbs /\ 1 \in DOMAIN rest
      <4>1. rest # <<>>
        BY EmptySeq
      <4>2. rest[1].do \in Verbs
        BY <1>1, <4>1, RestOf
      <4> QED BY <1>3, <1>4, <2>1, <4>2
    <3>2. i # 1
      BY <2>2, <3>1 DEF Verbs
    <3>3. u + i = 2 /\ list[1].do = "fail" /\ list[1].row = list[u + i].row
      <4>1. u + i # 1
        BY <1>4, <2>1, <3>2
      <4>2. list[u + i].do = "cancel"
        BY <2>1, <2>2
      <4> QED BY <2>1, <4>1, <4>2 DEF Sendable
    <3>4. u = 0 /\ i = 2
      BY <1>4, <2>1, <3>2, <3>3
    <3>5. rest[1] = list[1]
      <4>1. rest[1] = list[u + 1]
        BY <1>3, <3>1
      <4> QED BY <3>4, <4>1
    <3> QED BY <2>1, <3>3, <3>4, <3>5
  <2>3. ASSUME rest[i].do = "accumulate" PROVE l = "messages" /\ m[1].kind = "arrived" /\ m[1].row = rest[i].row
    BY <2>1, <2>3 DEF Sendable
  <2> QED BY <2>2, <2>3
<1> QED BY <1>1, <1>8, <1>9, <1>10

LEMMA VerbFirst ==
  ASSUME NEW list \in Seq(Acts), list # <<>>, list[1].do \in Verbs
  PROVE  Rest(list) = list
<1>1. PICK n, u : n = Len(list) /\ u = Upto(list)
  OBVIOUS
<1>2. n \in Nat \ {0} /\ DOMAIN list = 1..n /\ u \in 0..n /\ \A i \in 1..u : list[i].do \notin Verbs
  BY <1>1, Cut, EmptySeq
<1>3. u = 0
  <2>1. ~(1 \in 1..u)
    BY <1>2
  <2> QED BY <1>2, <2>1
<1>4. PICK rest : rest = Rest(list)
  OBVIOUS
<1>5. rest \in Seq(Acts) /\ Len(rest) = n /\ \A i \in 1..n : rest[i] = list[i]
  <2>1. /\ rest \in Seq(Acts) /\ Len(rest) = n - u /\ DOMAIN rest = 1..(n - u)
        /\ \A i \in DOMAIN rest : rest[i] = list[u + i]
    BY <1>1, <1>4, RestOf
  <2>2. n - u = n /\ \A i \in 1..n : u + i = i
    BY <1>2, <1>3
  <2> QED BY <2>1, <2>2
<1>6. rest = list
  BY <1>1, <1>2, <1>5, SeqEqual
<1> QED BY <1>4, <1>6
LEMMA PerformGoes ==
  ASSUME TypeInv, NEW l \in Lanes, NEW s \in Pictures, NEW t \in [TaskNames -> Tasks],
         NEW out \in Seq(Cmds), NEW list \in Seq(Acts), NEW paced \in BOOLEAN,
         Perform(l, s, t, out, list, paced), l = "messages" => mail # <<>>, Sendable(list, s, l, mail)
  PROVE  /\ state'.held = s.held
         /\ \A r \in Rows : state'.row[r] = s.row[r] \/ (s.row[r] = "waiting" /\ state'.row[r] \in {"pending", "refused"})
         /\ \A r \in Rows : Wired(cmds', r) => Wired(cmds \o out, r) \/ state'.row[r] # "unknown"
         /\ \A r \in Rows : Cancels(cmds', r) => Cancels(cmds \o out, r) \/ Ended(db, r)
         /\ \A x \in TaskNames : task'[x].pc = "claim" => t[x].pc = "claim"
         /\ \A k \in Lanes : IF k = l THEN ~lane'[k].landed ELSE lane'[k] = lane[k]
         /\ ActsAt(lane'[l].todo, l, mail)
         /\ list # <<>> /\ list[1].do \in Verbs => lane'[l].todo = list
         /\ mail' = IF l = "messages" /\ lane'[l].todo = <<>> THEN Tail(mail) ELSE mail
<1>0. /\ Actions(Goes(s)) \in Seq(Acts) /\ Goes(s) \subseteq Rows
      /\ \/ /\ state' = s /\ task' = Begun(t, list) /\ cmds' = cmds \o out \o Published(list)
            /\ Todo' = [Todo EXCEPT ![l] = Rest(list)]
         \/ /\ Rest(list) = <<>>
            /\ state' = Admit(s, Goes(s)) /\ task' = Begun(Begun(t, list), Actions(Goes(s)))
            /\ cmds' = cmds \o out \o Published(list) \o Published(Actions(Goes(s)))
            /\ Todo' = [Todo EXCEPT ![l] = Rest(Actions(Goes(s)))]
      /\ \A m \in Lanes : IF m = l THEN ~lane'[m].landed ELSE lane'[m] = lane[m]
      /\ mail' = IF l = "messages" /\ Todo'[l] = <<>> THEN Tail(mail) ELSE mail
      /\ state' \in Pictures /\ task' \in [TaskNames -> Tasks] /\ cmds' \in Seq(Cmds) /\ LanesOK'
      /\ mail' \in Seq(Letters)
  BY Performs
<1>1. PICK n, u, c3, td, ln : n = state' /\ u = task' /\ c3 = cmds' /\ td = Todo' /\ ln = lane'
  OBVIOUS
<1>2. PICK rest, p, R, more, q, c :
        rest = Rest(list) /\ p = Published(list) /\ R = Goes(s) /\ more = Actions(R) /\ q = Published(more) /\ c = cmds \o out
  OBVIOUS
<1>3. /\ rest \in Seq(Acts) /\ p \in Seq(Cmds) /\ q \in Seq(Cmds) /\ more \in Seq(Acts) /\ R \in SUBSET Rows
      /\ c \in Seq(Cmds) /\ c \o p \in Seq(Cmds)
  <2>1. cmds \in Seq(Cmds)
    BY DEF TypeInv
  <2>2. more \in Seq(Acts) /\ R \in SUBSET Rows
    BY <1>0, <1>2
  <2>3. q \in Seq(Cmds)
    BY <1>2, <2>2, PublishedOf
  <2>4. p \in Seq(Cmds) /\ rest \in Seq(Acts)
    BY <1>2, PublishedOf, RestOf
  <2> QED BY <1>2, <2>1, <2>2, <2>3, <2>4, ConcatProperties
<1>4. ln[l].todo = td[l]
  <2>1. td = [k \in Lanes |-> ln[k].todo]
    BY <1>1 DEF Todo
  <2> QED BY <2>1
<1>5. /\ \A r \in Rows : Wired(p, r) => s.row[r] # "unknown"
      /\ \A r \in Rows : Cancels(p, r) => Ended(db, r)
      /\ ActsAt(rest, l, mail)
  <2>1. /\ \A r \in Rows : Wired(Published(list), r) => s.row[r] # "unknown"
        /\ \A r \in Rows : Cancels(Published(list), r) => Ended(db, r)
        /\ ActsAt(Rest(list), l, mail)
    BY ListGoes
  <2> QED BY <1>2, <2>1
<1>6. \A x \in TaskNames : Begun(t, list)[x].pc = "claim" => t[x].pc = "claim"
  <2>1. \A x \in TaskNames : Begun(t, list)[x] = IF x[2] = "first" /\ x[1] \in Starts(list) THEN Asking(FALSE) ELSE t[x]
    BY BegunOf
  <2>2. Asking(FALSE).pc = "reply"
    BY DEF Asking, NoTask
  <2> QED BY <2>1, <2>2
<1>7. \A r \in Rows : (Wired(c \o p, r) => Wired(c, r) \/ Wired(p, r)) /\ (Cancels(c \o p, r) => Cancels(c, r) \/ Cancels(p, r))
  BY <1>3, CommandsAdded, CancelsAdded
<1>8. list # <<>> /\ list[1].do \in Verbs => rest = list /\ rest # <<>>
  BY <1>2, VerbFirst
<1>9. CASE state' = s /\ task' = Begun(t, list) /\ cmds' = cmds \o out \o Published(list) /\ Todo' = [Todo EXCEPT ![l] = Rest(list)]
  <2>1. n = s /\ u = Begun(t, list) /\ c3 = c \o p /\ td[l] = rest
    <3>1. l \in DOMAIN Todo
      BY DEF Todo
    <3> QED BY <1>1, <1>2, <1>9, <3>1
  <2>2. \A r \in Rows : (Wired(c3, r) => Wired(c, r) \/ n.row[r] # "unknown") /\ (Cancels(c3, r) => Cancels(c, r) \/ Ended(db, r))
    BY <1>5, <1>7, <2>1
  <2>3. ActsAt(ln[l].todo, l, mail) /\ (list # <<>> /\ list[1].do \in Verbs => ln[l].todo = list)
    BY <1>4, <1>5, <1>8, <2>1
  <2>4. mail' = IF l = "messages" /\ ln[l].todo = <<>> THEN Tail(mail) ELSE mail
    BY <1>0, <1>1, <1>4
  <2> HIDE DEF Wired, Cancels, Ended, ActsAt
  <2> QED BY <1>0, <1>1, <1>2, <1>6, <2>1, <2>2, <2>3, <2>4
<1>10. CASE /\ Rest(list) = <<>>
            /\ state' = Admit(s, Goes(s)) /\ task' = Begun(Begun(t, list), Actions(Goes(s)))
            /\ cmds' = cmds \o out \o Published(list) \o Published(Actions(Goes(s)))
            /\ Todo' = [Todo EXCEPT ![l] = Rest(Actions(Goes(s)))]
  <2>1. n = Admit(s, R) /\ u = Begun(Begun(t, list), more) /\ c3 = (c \o p) \o q /\ td[l] = Rest(more) /\ rest = <<>>
    <3>1. l \in DOMAIN Todo
      BY DEF Todo
    <3> QED BY <1>1, <1>2, <1>10, <3>1
  <2>2. /\ n.held = s.held
        /\ \A r \in Rows : n.row[r] = IF r \notin R THEN s.row[r] ELSE IF r \in setting.unfit THEN "refused" ELSE "pending"
    BY <1>3, <2>1, AdmitOf
  <2>3. \A r \in R : s.row[r] = "waiting"
    BY <1>2 DEF Goes, Waiting
  <2>4. \A r \in Rows : n.row[r] = s.row[r] \/ (s.row[r] = "waiting" /\ n.row[r] \in {"pending", "refused"})
    BY <2>2, <2>3
  <2>5. /\ DOMAIN more = 1..Cardinality(R)
        /\ \A i \in DOMAIN more : more[i].row \in R /\ more[i].do \in {"dispatch", "refuse"}
    <3>1. /\ DOMAIN Actions(R) = 1..Cardinality(R)
          /\ \A i \in DOMAIN Actions(R) :
               /\ Actions(R)[i].row \in R
               /\ Actions(R)[i].do = IF Actions(R)[i].row \in setting.unfit THEN "refuse" ELSE "dispatch"
      BY <1>3, ActionsOf
    <3> QED BY <1>2, <3>1
  <2>6. Sendable(more, n, l, mail)
    <3>1. \A i \in DOMAIN more : more[i].do \notin {"cancel", "accumulate"} /\ n.row[more[i].row] # "unknown"
      BY <1>3, <2>2, <2>5
    <3> QED BY <3>1 DEF Sendable
  <2>7. /\ \A r \in Rows : Wired(q, r) => n.row[r] # "unknown"
        /\ \A r \in Rows : Cancels(q, r) => Ended(db, r)
        /\ ActsAt(Rest(more), l, mail)
    <3>1. /\ \A r \in Rows : Wired(Published(more), r) => n.row[r] # "unknown"
          /\ \A r \in Rows : Cancels(Published(more), r) => Ended(db, r)
          /\ ActsAt(Rest(more), l, mail)
      BY <1>3, <2>6, ListGoes
    <3> QED BY <1>2, <3>1
  <2>8. \A r \in Rows : /\ Wired(c3, r) => Wired(c \o p, r) \/ Wired(q, r)
                        /\ Cancels(c3, r) => Cancels(c \o p, r) \/ Cancels(q, r)
    BY <1>3, <2>1, CommandsAdded, CancelsAdded
  <2>9. \A r \in Rows : (Wired(c3, r) => Wired(c, r) \/ n.row[r] # "unknown") /\ (Cancels(c3, r) => Cancels(c, r) \/ Ended(db, r))
    <3> HIDE DEF Wired, Cancels, Ended
    <3> QED BY <1>5, <1>7, <2>4, <2>7, <2>8
  <2>10. \A x \in TaskNames : u[x].pc = "claim" => t[x].pc = "claim"
    <3>1. PICK b : b = Begun(t, list)
      OBVIOUS
    <3>2. b \in [TaskNames -> Tasks]
      BY <3>1, BegunOf
    <3>3. \A x \in TaskNames : Begun(b, more)[x] = IF x[2] = "first" /\ x[1] \in Starts(more) THEN Asking(FALSE) ELSE b[x]
      BY <1>3, <3>2, BegunOf
    <3>4. Asking(FALSE).pc = "reply"
      BY DEF Asking, NoTask
    <3> QED BY <1>6, <2>1, <3>1, <3>3, <3>4
  <2>11. ActsAt(ln[l].todo, l, mail)
    BY <1>4, <2>1, <2>7
  <2>12. ~(list # <<>> /\ list[1].do \in Verbs)
    BY <1>8, <2>1
  <2>13. mail' = IF l = "messages" /\ ln[l].todo = <<>> THEN Tail(mail) ELSE mail
    BY <1>0, <1>1, <1>4
  <2> HIDE DEF Wired, Cancels, Ended, ActsAt
  <2> QED BY <1>0, <1>1, <1>2, <2>2, <2>4, <2>9, <2>10, <2>11, <2>12, <2>13
<1> QED BY <1>0, <1>9, <1>10

\* What a handler's plan must keep: PlanOK, of its picture, tasks and list.
PlanOK(l, s, t, list) ==
  /\ Sendable(list, s, l, mail)
  /\ \A r \in Rows :
       /\ s.row[r] # "unknown" => db[r].status # "none"
       /\ s.row[r] = "accepted" \/ (\E k \in Sends : t[<<r, k>>].pc = "claim") => Taken(machine, r)
       /\ s.row[r] = "unknown" /\ db[r].status = "pending" => gateway # "down" /\ state.row[r] = "unknown"
       /\ r \in s.held => r \in state.held \/ machine.job[r] = "present" \/ Says(mail, "released", r)
  /\ l = "messages" =>
       /\ mail[1].kind = "arrived" /\ db[mail[1].row].status = "pending" =>
            list # <<>> /\ list[1].do \in {"accumulate", "receive"} /\ list[1].row = mail[1].row
       /\ mail[1].kind = "released" => mail[1].row \notin s.held
  /\ l = "events" /\ lane["messages"].todo # <<>> /\ mail[1].kind = "released" => mail[1].row \notin s.held
LEMMA HandlerMoves ==
  ASSUME TypeInv, Placed, UNCHANGED <<db, machine>>, NEW l \in Lanes, NEW s \in Pictures, NEW t \in [TaskNames -> Tasks],
         NEW list \in Seq(Acts), NEW paced \in BOOLEAN,
         Perform(l, s, t, <<>>, list, paced), l = "messages" => mail # <<>>, PlanOK(l, s, t, list)
  PROVE  PlacedNext
<1>1. PICK e : e = <<>>
  OBVIOUS
<1>2. e \in Seq(Cmds) /\ \A r \in Rows : ~Wired(e, r) /\ ~Cancels(e, r)
  <2>1. e \in Seq(Cmds) /\ DOMAIN e = {}
    BY <1>1, EmptySeq
  <2> QED BY <2>1 DEF Wired, Cancels
<1>3. PICK n, u, c3, ln, m2, c, rec, M : /\ n = state' /\ u = task' /\ c3 = cmds' /\ ln = lane' /\ m2 = mail' /\ c = cmds \o e
                                         /\ rec = db /\ M = machine
  OBVIOUS
<1>4. /\ n.held = s.held
      /\ \A r \in Rows : n.row[r] = s.row[r] \/ (s.row[r] = "waiting" /\ n.row[r] \in {"pending", "refused"})
      /\ \A r \in Rows : Wired(c3, r) => Wired(c, r) \/ n.row[r] # "unknown"
      /\ \A r \in Rows : Cancels(c3, r) => Cancels(c, r) \/ Ended(rec, r)
      /\ \A x \in TaskNames : u[x].pc = "claim" => t[x].pc = "claim"
      /\ \A k \in Lanes : IF k = l THEN ~ln[k].landed ELSE ln[k] = lane[k]
      /\ ActsAt(ln[l].todo, l, mail)
      /\ list # <<>> /\ list[1].do \in Verbs => ln[l].todo = list
      /\ m2 = IF l = "messages" /\ ln[l].todo = <<>> THEN Tail(mail) ELSE mail
  <2>1. Perform(l, s, t, e, list, paced) /\ Sendable(list, s, l, mail)
    BY <1>1 DEF PlanOK
  <2>2. /\ state'.held = s.held
        /\ \A r \in Rows : state'.row[r] = s.row[r] \/ (s.row[r] = "waiting" /\ state'.row[r] \in {"pending", "refused"})
        /\ \A r \in Rows : Wired(cmds', r) => Wired(cmds \o e, r) \/ state'.row[r] # "unknown"
        /\ \A r \in Rows : Cancels(cmds', r) => Cancels(cmds \o e, r) \/ Ended(db, r)
        /\ \A x \in TaskNames : task'[x].pc = "claim" => t[x].pc = "claim"
        /\ \A k \in Lanes : IF k = l THEN ~lane'[k].landed ELSE lane'[k] = lane[k]
        /\ ActsAt(lane'[l].todo, l, mail)
        /\ list # <<>> /\ list[1].do \in Verbs => lane'[l].todo = list
        /\ mail' = IF l = "messages" /\ lane'[l].todo = <<>> THEN Tail(mail) ELSE mail
    <3> HIDE DEF Perform, Sendable, Wired, Cancels, Ended, ActsAt
    <3> QED BY <1>2, <2>1, PerformGoes
  <2> HIDE DEF Wired, Cancels, Ended, ActsAt
  <2> QED BY <1>3, <2>2
<1>5. \A r \in Rows : (Wired(c, r) => Wired(cmds, r)) /\ (Cancels(c, r) => Cancels(cmds, r))
  <2>1. cmds \in Seq(Cmds)
    BY DEF TypeInv
  <2>2. \A r \in Rows : /\ Wired(cmds \o e, r) => Wired(cmds, r) \/ Wired(e, r)
                        /\ Cancels(cmds \o e, r) => Cancels(cmds, r) \/ Cancels(e, r)
    BY <1>2, <2>1, CommandsAdded, CancelsAdded
  <2> HIDE DEF Wired, Cancels
  <2> QED BY <1>2, <1>3, <2>2
<1>6. /\ \A r \in Rows : InPlace(r)
      /\ LanesAt(rec, lane, mail, state)
  BY <1>3 DEF Placed
<1>7. \A r \in Rows :
        /\ s.row[r] # "unknown" => rec[r].status # "none"
        /\ s.row[r] = "accepted" \/ (\E k \in Sends : t[<<r, k>>].pc = "claim") => Taken(M, r)
        /\ s.row[r] = "unknown" /\ rec[r].status = "pending" => gateway # "down" /\ state.row[r] = "unknown"
        /\ r \in s.held => r \in state.held \/ M.job[r] = "present" \/ Says(mail, "released", r)
  BY <1>3 DEF PlanOK
<1>8. /\ l = "messages" =>
           /\ mail[1].kind = "arrived" /\ rec[mail[1].row].status = "pending" =>
                list # <<>> /\ list[1].do \in {"accumulate", "receive"} /\ list[1].row = mail[1].row
           /\ mail[1].kind = "released" => mail[1].row \notin s.held
      /\ l = "events" /\ lane["messages"].todo # <<>> /\ mail[1].kind = "released" => mail[1].row \notin s.held
  BY <1>3 DEF PlanOK
<1>9. l \in {"events", "messages"} /\ {"accumulate", "receive"} \subseteq Verbs
  BY DEF Lanes, Verbs
<1>10. LanesAt(rec, ln, m2, n)
  <2> HIDE DEF ActsAt
  <2>1. l = "messages" /\ ln[l].todo # <<>> => m2 = mail
    BY <1>4
  <2>2. l = "events" => m2 = mail /\ ln["messages"] = lane["messages"]
    BY <1>4 DEF Lanes
  <2>3. ASSUME NEW k \in Lanes PROVE ActsAt(ln[k].todo, k, m2)
    <3>1. CASE k # l
      <4>1. ln[k] = lane[k] /\ ActsAt(lane[k].todo, k, mail)
        BY <1>4, <1>6, <3>1 DEF LanesAt
      <4>2. CASE m2 = mail
        BY <4>1, <4>2
      <4>3. CASE k = "events"
        BY <4>1, <4>3 DEF ActsAt
      <4> QED BY <1>4, <1>9, <3>1, <4>2, <4>3 DEF Lanes
    <3>2. CASE k = l /\ ln[l].todo # <<>>
      <4>1. m2 = mail
        BY <1>4, <3>2
      <4> QED BY <1>4, <3>2, <4>1
    <3>3. CASE k = l /\ ln[l].todo = <<>>
      <4>1. DOMAIN ln[k].todo = {}
        BY <3>3
      <4> QED BY <4>1 DEF ActsAt
    <3> QED BY <3>1, <3>2, <3>3
  <2>4. ASSUME ln["messages"].todo # <<>>
        PROVE  /\ m2[1].kind = "arrived" /\ rec[m2[1].row].status = "pending" => Arriving(rec, ln["messages"], m2[1].row)
               /\ m2[1].kind = "released" => m2[1].row \notin n.held
    <3>1. CASE l = "messages"
      <4>1. m2 = mail /\ ~ln["messages"].landed
        BY <1>4, <2>4, <3>1 DEF Lanes
      <4>2. m2[1].kind = "released" => m2[1].row \notin n.held
        BY <1>4, <1>8, <3>1, <4>1
      <4>3. ASSUME m2[1].kind = "arrived", rec[m2[1].row].status = "pending" PROVE Arriving(rec, ln["messages"], m2[1].row)
        <5>1. list # <<>> /\ list[1].do \in {"accumulate", "receive"} /\ list[1].row = m2[1].row
          BY <1>8, <3>1, <4>1, <4>3
        <5>2. ln["messages"].todo = list
          BY <1>4, <1>9, <3>1, <5>1
        <5> QED BY <4>1, <5>1, <5>2 DEF Arriving
      <4> QED BY <4>2, <4>3
    <3>2. CASE l = "events"
      <4>1. m2 = mail /\ ln["messages"] = lane["messages"]
        BY <2>2, <3>2
      <4>2. m2[1].kind = "released" => m2[1].row \notin n.held
        BY <1>4, <1>8, <2>4, <3>2, <4>1
      <4>3. m2[1].kind = "arrived" /\ rec[m2[1].row].status = "pending" => Arriving(rec, ln["messages"], m2[1].row)
        BY <1>6, <2>4, <4>1 DEF LanesAt
      <4> QED BY <4>2, <4>3
    <3> QED BY <1>9, <3>1, <3>2
  <2> QED BY <2>3, <2>4 DEF LanesAt
<1>11. ASSUME NEW r \in Rows
       PROVE  WireOK(db', machine', cmds', mail', r) /\ ViewOK(db', machine', cmds', mail', gateway', state', task', r)
  <2> HIDE DEF Wired, Cancels, Ended, Taken, Says, ActsAt
  <2>1. Wired(c3, r) => Wired(cmds, r) \/ (rec[r].status # "none" /\ n.row[r] # "unknown")
    BY <1>4, <1>5, <1>7
  <2>2. Cancels(c3, r) => Cancels(cmds, r) \/ Ended(rec, r)
    BY <1>4, <1>5
  <2>3. n.row[r] = "accepted" \/ (\E k \in Sends : u[<<r, k>>].pc = "claim") => Taken(M, r)
    <3>1. \A k \in Sends : <<r, k>> \in TaskNames
      BY DEF TaskNames
    <3> QED BY <1>4, <1>7, <3>1
  <2>4. n.row[r] = "unknown" /\ rec[r].status = "pending" => gateway # "down" /\ state.row[r] = "unknown"
    BY <1>4, <1>7
  <2>5. \/ m2 = mail
        \/ /\ mail # <<>> /\ m2 = Tail(mail)
           /\ mail[1].kind = "arrived" /\ mail[1].row = r => rec[r].status # "pending"
           /\ mail[1].kind = "released" /\ mail[1].row = r => r \notin n.held
    <3>1. CASE l = "messages" /\ ln[l].todo = <<>>
      <4>1. mail # <<>> /\ m2 = Tail(mail)
        BY <1>4, <3>1
      <4>2. ASSUME mail[1].kind = "arrived", mail[1].row = r, rec[r].status = "pending" PROVE FALSE
        <5>1. list # <<>> /\ list[1].do \in {"accumulate", "receive"}
          BY <1>8, <3>1, <4>2
        <5>2. ln[l].todo = list
          BY <1>4, <1>9, <5>1
        <5> QED BY <3>1, <5>1, <5>2
      <4>3. mail[1].kind = "released" /\ mail[1].row = r => r \notin n.held
        BY <1>4, <1>8, <3>1
      <4> QED BY <4>1, <4>2, <4>3
    <3>2. CASE ~(l = "messages" /\ ln[l].todo = <<>>)
      BY <1>4, <3>2
    <3> QED BY <3>1, <3>2
  <2>6. r \in n.held => r \in state.held \/ M.job[r] = "present" \/ Says(m2, "released", r)
    <3>1. r \in n.held => r \in state.held \/ M.job[r] = "present" \/ Says(mail, "released", r)
      BY <1>4, <1>7
    <3>2. CASE m2 = mail
      BY <3>1, <3>2
    <3>3. CASE /\ mail # <<>> /\ m2 = Tail(mail)
               /\ mail[1].kind = "released" /\ mail[1].row = r => r \notin n.held
      <4>1. mail \in Seq(Letters)
        BY DEF TypeInv
      <4>2. Says(mail, "released", r) => Says(m2, "released", r) \/ (mail[1].kind = "released" /\ mail[1].row = r)
        BY <3>3, <4>1, LetterRead
      <4> QED BY <3>1, <3>3, <4>2
    <3> QED BY <2>5, <3>2, <3>3
  <2>7. /\ Wired(cmds', r) => Wired(cmds, r) \/ (db[r].status # "none" /\ state'.row[r] # "unknown")
        /\ Cancels(cmds', r) => Cancels(cmds, r) \/ Ended(db, r)
        /\ state'.row[r] = "accepted" \/ (\E k \in Sends : task'[<<r, k>>].pc = "claim") => Taken(machine, r)
        /\ gateway' # "down" /\ state'.row[r] = "unknown" /\ db[r].status = "pending" => gateway # "down" /\ state.row[r] = "unknown"
        /\ r \in state'.held => r \in state.held \/ machine.job[r] = "present" \/ Says(mail', "released", r)
        /\ \/ mail' = mail
           \/ /\ mail # <<>> /\ mail' = Tail(mail)
              /\ mail[1].kind = "arrived" /\ mail[1].row = r => db[r].status # "pending"
              /\ mail[1].kind = "released" /\ mail[1].row = r => r \notin state'.held
    BY <1>3, <2>1, <2>2, <2>3, <2>4, <2>5, <2>6
  <2> HIDE DEF InPlace, WireOK, ViewOK
  <2> QED BY <1>6, <2>7, GatewayMoves
<1>12. LanesAt(db', lane', mail', state')
  <2> HIDE DEF LanesAt
  <2> QED BY <1>3, <1>10
<1> QED BY <1>11, <1>12 DEF PlacedNext

\* What is placed, and in step, beside a gateway at work.
LEMMA StandsSo ==
  ASSUME TypeInv, Placed, InStep(World, state, task, Todo, events, Landed)
  PROVE  \A r \in Rows :
         /\ state.row[r] # "unknown" => db[r].status # "none"
         /\ state.row[r] = "closed" => Ended(db, r)
         /\ state.row[r] = "accepted" \/ (\E k \in Sends : task[<<r, k>>].pc = "claim") => Taken(machine, r)
         /\ Knows(mail, r) => Taken(machine, r)
         /\ state.row[r] = "unknown" /\ db[r].status = "pending" /\ gateway # "down" => ~Taken(machine, r)
<1> SUFFICES ASSUME NEW r \in Rows
             PROVE  /\ state.row[r] # "unknown" => db[r].status # "none"
                    /\ state.row[r] = "closed" => Ended(db, r)
                    /\ state.row[r] = "accepted" \/ (\E k \in Sends : task[<<r, k>>].pc = "claim") => Taken(machine, r)
                    /\ Knows(mail, r) => Taken(machine, r)
                    /\ state.row[r] = "unknown" /\ db[r].status = "pending" /\ gateway # "down" => ~Taken(machine, r)
  OBVIOUS
<1>1. InPlace(r)
  BY DEF Placed
<1>2. RowInStep(World, state, task, events, Landed, r) /\ World.db = db
  BY DEF InStep, RowsInStep, World
<1> HIDE DEF Taken, Knows, Wired
<1>3. /\ state.row[r] # "unknown" => db[r].status # "none"
      /\ state.row[r] = "closed" => Ended(db, r)
  BY <1>2 DEF RowInStep, Over, Ended
<1>4. Knows(mail, r) => Taken(machine, r)
  BY <1>1 DEF InPlace, WireOK
<1>5. /\ state.row[r] = "accepted" \/ (\E k \in Sends : task[<<r, k>>].pc = "claim") => Taken(machine, r)
      /\ state.row[r] = "unknown" /\ db[r].status = "pending" /\ gateway # "down" => ~Taken(machine, r)
  BY <1>1 DEF InPlace, ViewOK
<1> QED BY <1>3, <1>4, <1>5
LEMMA PlanFits ==
  ASSUME TypeInv, Placed, gateway # "down", InStep(World, state, task, Todo, events, Landed),
         NEW l \in Lanes, NEW s, NEW t, NEW list, Sendable(list, s, l, mail),
         \A r \in Rows :
           /\ \/ s.row[r] = state.row[r]
              \/ s.row[r] # "unknown" /\ db[r].status # "none" /\ (s.row[r] = "accepted" => Taken(machine, r))
           /\ \A k \in Sends : t[<<r, k>>].pc = "claim" => task[<<r, k>>].pc = "claim" \/ Taken(machine, r)
           /\ r \in s.held => r \in state.held \/ machine.job[r] = "present" \/ Says(mail, "released", r),
         l = "messages" =>
           /\ mail[1].kind = "arrived" /\ db[mail[1].row].status = "pending" =>
                list # <<>> /\ list[1].do \in {"accumulate", "receive"} /\ list[1].row = mail[1].row
           /\ mail[1].kind = "released" => mail[1].row \notin s.held,
         l = "events" => s.held = state.held
  PROVE  PlanOK(l, s, t, list)
<1>1. l = "events" /\ lane["messages"].todo # <<>> /\ mail[1].kind = "released" => mail[1].row \notin s.held
  BY DEF Placed, LanesAt
<1>2. ASSUME NEW r \in Rows
      PROVE  /\ s.row[r] # "unknown" => db[r].status # "none"
             /\ s.row[r] = "accepted" \/ (\E k \in Sends : t[<<r, k>>].pc = "claim") => Taken(machine, r)
             /\ s.row[r] = "unknown" /\ db[r].status = "pending" => gateway # "down" /\ state.row[r] = "unknown"
             /\ r \in s.held => r \in state.held \/ machine.job[r] = "present" \/ Says(mail, "released", r)
  <2>1. /\ state.row[r] # "unknown" => db[r].status # "none"
        /\ state.row[r] = "accepted" \/ (\E k \in Sends : task[<<r, k>>].pc = "claim") => Taken(machine, r)
    BY StandsSo
  <2> HIDE DEF Taken, Says
  <2> QED BY <2>1
<1> HIDE DEF Sendable, Taken, Says
<1> QED BY <1>1, <1>2 DEF PlanOK

\* A verb's lane goes on with what it has left, after a receive if the row is complete.
LEMMA GoesOn ==
  ASSUME NEW todo \in Seq(Acts), todo # <<>>, NEW list \in Seq(Acts), NEW r \in Rows
  PROVE  /\ list = Tail(todo) => \A i \in DOMAIN list : i + 1 \in DOMAIN todo /\ list[i] = todo[i + 1] /\ i \in Nat \ {0}
         /\ list = <<Do("receive", r)>> \o Tail(todo) =>
            /\ list # <<>> /\ list[1] = Do("receive", r)
            /\ \A i \in DOMAIN list : list[i] = Do("receive", r) \/ (i \in DOMAIN todo /\ list[i] = todo[i] /\ i # 1)
<1>1. PICK n, more : n = Len(todo) /\ more = Tail(todo)
  OBVIOUS
<1>2. /\ n \in Nat \ {0} /\ DOMAIN todo = 1..n /\ more \in Seq(Acts) /\ Len(more) = n - 1 /\ DOMAIN more = 1..(n - 1)
      /\ \A i \in 1..(n - 1) : more[i] = todo[i + 1]
  <2>1. more \in Seq(Acts) /\ Len(more) = n - 1 /\ \A i \in 1..Len(more) : more[i] = todo[i + 1]
    BY <1>1, HeadTailProperties
  <2>2. n \in Nat \ {0} /\ DOMAIN todo = 1..n /\ DOMAIN more = 1..Len(more)
    BY <1>1, <2>1, LenProperties, EmptySeq
  <2> QED BY <2>1, <2>2
<1>3. ASSUME list = Tail(todo) PROVE \A i \in DOMAIN list : i + 1 \in DOMAIN todo /\ list[i] = todo[i + 1] /\ i \in Nat \ {0}
  <2>1. list = more
    BY <1>1, <1>3
  <2>2. \A i \in 1..(n - 1) : i + 1 \in 1..n /\ i \in Nat \ {0}
    BY <1>2
  <2>3. \A i \in DOMAIN more : i + 1 \in DOMAIN todo /\ more[i] = todo[i + 1] /\ i \in Nat \ {0}
    BY <1>2, <2>2
  <2> QED BY <1>1, <2>1, <2>3
<1>4. ASSUME list = <<Do("receive", r)>> \o Tail(todo)
      PROVE  /\ list # <<>> /\ list[1] = Do("receive", r)
             /\ \A i \in DOMAIN list : list[i] = Do("receive", r) \/ (i \in DOMAIN todo /\ list[i] = todo[i] /\ i # 1)
  <2>1. PICK one : one = <<Do("receive", r)>>
    OBVIOUS
  <2>2. one \in Seq(Acts) /\ Len(one) = 1 /\ one[1] = Do("receive", r)
    <3>1. <<Do("receive", r)>> \in Seq(Acts) /\ Len(<<Do("receive", r)>>) = 1
      BY DEF Do, Acts, Verbs
    <3> QED BY <2>1, <3>1
  <2>3. /\ Len(list) = 1 + (n - 1)
        /\ \A i \in 1..Len(list) : list[i] = IF i <= 1 THEN one[i] ELSE more[i - 1]
    BY <1>1, <1>2, <1>4, <2>1, <2>2, ConcatProperties
  <2>4. DOMAIN list = 1..n /\ Len(list) = n
    <3>1. DOMAIN list = 1..Len(list)
      BY LenProperties
    <3> QED BY <1>2, <2>3, <3>1
  <2>5. list[1] = Do("receive", r) /\ list # <<>>
    <3>1. 1 \in 1..n /\ 1 <= 1
      BY <1>2
    <3> QED BY <2>2, <2>3, <2>4, <3>1, EmptySeq
  <2>6. ASSUME NEW i \in 1..n, i # 1 PROVE list[i] = todo[i]
    <3>1. i - 1 \in 1..(n - 1) /\ ~(i <= 1) /\ (i - 1) + 1 = i
      BY <1>2, <2>6
    <3>2. list[i] = more[i - 1] /\ more[i - 1] = todo[(i - 1) + 1]
      BY <1>2, <2>3, <2>4, <2>6, <3>1
    <3> QED BY <3>1, <3>2
  <2> QED BY <1>2, <2>4, <2>5, <2>6
<1> QED BY <1>3, <1>4

\* A verb has answered: its row ended, or holds its arrival.
LEMMA ReturnsPlaced ==
  ASSUME TypeInv, Placed, InStep(World, state, task, Todo, events, Landed), NEW l \in Lanes, VerbReturns(l)
  PROVE  PlacedNext
<1>1. PICK a \in Acts, s \in Pictures, list \in Seq(Acts) :
         /\ lane[l].todo # <<>> /\ lane[l].landed /\ a = lane[l].todo[1]
         /\ s = IF a.do = "accumulate" THEN state ELSE Shut(state, a.row)
         /\ list = IF a.do = "accumulate" /\ db[a.row].item THEN <<Do("receive", a.row)>> \o Tail(lane[l].todo)
                   ELSE Tail(lane[l].todo)
         /\ Perform(l, s, task, <<>>, list, lane[l].pc = "pacing")
         /\ gateway # "down" /\ UNCHANGED <<db, machine>>
  BY VerbReturnsPlan
<1>2. PICK todo, r, p : todo = lane[l].todo /\ r = a.row /\ p = (lane[l].pc = "pacing")
  OBVIOUS
<1>3. /\ todo \in Seq(Acts) /\ todo # <<>> /\ a = todo[1] /\ r \in Rows /\ a.do \in Verbs /\ (l = "messages" => mail # <<>>)
      /\ 1 \in DOMAIN todo /\ p \in BOOLEAN
  <2>1. lane[l].todo # <<>> /\ a = lane[l].todo[1]
    BY <1>1
  <2>2. /\ lane[l].todo[1].row \in Rows /\ lane[l].todo[1].do \in Verbs /\ lane[l].todo \in Seq(Acts)
        /\ 1 \in DOMAIN lane[l].todo /\ (l = "messages" => mail # <<>>)
    BY <2>1, AtWork
  <2> QED BY <1>2, <2>1, <2>2
<1>4. task \in [TaskNames -> Tasks] /\ state \in Pictures
  BY DEF TypeInv
<1>5. s.held = state.held /\ \A q \in Rows : s.row[q] = state.row[q] \/ (s.row[q] = "closed" /\ IsOpen(state, q))
  <2>1. PICK t : t = Shut(state, r)
    OBVIOUS
  <2>2. s = state \/ s = t
    BY <1>1, <1>2, <2>1
  <2>3. t.held = state.held /\ \A q \in Rows : t.row[q] = state.row[q] \/ (t.row[q] = "closed" /\ IsOpen(state, q))
    BY <1>3, <1>4, <2>1, ShutOf
  <2> QED BY <2>2, <2>3
<1>6. \A q \in Rows : s.row[q] = "unknown" <=> state.row[q] = "unknown"
  BY <1>5 DEF IsOpen, Open
<1>7. IF a.do = "accumulate" /\ db[r].item
      THEN /\ list # <<>> /\ list[1] = Do("receive", r)
           /\ \A i \in DOMAIN list : list[i] = Do("receive", r) \/ (i \in DOMAIN todo /\ list[i] = todo[i] /\ i # 1)
      ELSE \A i \in DOMAIN list : i + 1 \in DOMAIN todo /\ list[i] = todo[i + 1] /\ i \in Nat \ {0}
  <2>1. list = IF a.do = "accumulate" /\ db[r].item THEN <<Do("receive", r)>> \o Tail(todo) ELSE Tail(todo)
    BY <1>1, <1>2
  <2> QED BY <1>3, <2>1, GoesOn
<1>8. ActsAt(todo, l, mail)
  BY <1>2 DEF Placed, LanesAt
<1>9. \A i \in DOMAIN todo : todo[i].do = "dispatch" => s.row[todo[i].row] # "unknown"
  <2> SUFFICES ASSUME NEW i \in DOMAIN todo, todo[i].do = "dispatch" PROVE s.row[todo[i].row] # "unknown"
    OBVIOUS
  <2>1. Todo[l] = todo
    BY <1>2 DEF Todo
  <2>2. ActInStep(World, state, task, todo[i])
    BY <2>1 DEF InStep, ActsInStep
  <2>3. todo[i].row \in Rows
    <3>1. todo[i] \in Acts
      BY <1>3
    <3> QED BY <3>1 DEF Acts
  <2> QED BY <1>6, <2>2, <2>3 DEF ActInStep
<1>10. a.do = "fail" => Ended(db, r)
  <2> SUFFICES ASSUME a.do = "fail" PROVE Ended(db, r)
    OBVIOUS
  <2>1. r \in Landed
    BY <1>1, <1>2, <1>3 DEF Landed, Closing
  <2>2. Over(World, r)
    BY <2>1 DEF InStep
  <2> QED BY <2>2 DEF Over, Ended, World
<1>11. Sendable(list, s, l, mail)
  <2> HIDE DEF Ended
  <2>1. CASE \A i \in DOMAIN list : i + 1 \in DOMAIN todo /\ list[i] = todo[i + 1] /\ i \in Nat \ {0}
    <3> SUFFICES ASSUME NEW i \in DOMAIN list
                 PROVE  /\ list[i].do = "dispatch" => s.row[list[i].row] # "unknown"
                        /\ list[i].do = "cancel" => i = 1 /\ Ended(db, list[i].row)
                        /\ list[i].do = "accumulate" => l = "messages" /\ mail[1].kind = "arrived" /\ mail[1].row = list[i].row
      BY DEF Sendable
    <3>1. i + 1 \in DOMAIN todo /\ list[i] = todo[i + 1] /\ i \in Nat \ {0}
      BY <2>1
    <3>2. ASSUME list[i].do = "cancel" PROVE i = 1 /\ Ended(db, list[i].row)
      <4>1. i + 1 = 2 /\ todo[1].do = "fail" /\ todo[1].row = list[i].row
        BY <1>8, <3>1, <3>2 DEF ActsAt
      <4>2. i = 1
        BY <3>1, <4>1
      <4> QED BY <1>2, <1>3, <1>10, <4>1, <4>2
    <3>3. list[i].do = "accumulate" => l = "messages" /\ mail[1].kind = "arrived" /\ mail[1].row = list[i].row
      BY <1>8, <3>1 DEF ActsAt
    <3>4. list[i].do = "dispatch" => s.row[list[i].row] # "unknown"
      BY <1>9, <3>1
    <3> QED BY <3>2, <3>3, <3>4
  <2>2. CASE /\ list # <<>> /\ list[1] = Do("receive", r)
             /\ \A i \in DOMAIN list : list[i] = Do("receive", r) \/ (i \in DOMAIN todo /\ list[i] = todo[i] /\ i # 1)
             /\ a.do = "accumulate"
    <3> SUFFICES ASSUME NEW i \in DOMAIN list
                 PROVE  /\ list[i].do = "dispatch" => s.row[list[i].row] # "unknown"
                        /\ list[i].do # "cancel"
                        /\ list[i].do = "accumulate" => l = "messages" /\ mail[1].kind = "arrived" /\ mail[1].row = list[i].row
      BY DEF Sendable
    <3>1. CASE list[i] = Do("receive", r)
      BY <3>1 DEF Do
    <3>2. CASE i \in DOMAIN todo /\ list[i] = todo[i]
      BY <1>3, <1>8, <1>9, <2>2, <3>2 DEF ActsAt
    <3> QED BY <2>2, <3>1, <3>2
  <2> QED BY <1>7, <2>1, <2>2
<1>12. l = "messages" =>
         /\ mail[1].kind = "arrived" /\ db[mail[1].row].status = "pending" =>
              list # <<>> /\ list[1].do \in {"accumulate", "receive"} /\ list[1].row = mail[1].row
         /\ mail[1].kind = "released" => mail[1].row \notin s.held
  <2> SUFFICES ASSUME l = "messages"
               PROVE  /\ mail[1].kind = "arrived" /\ db[mail[1].row].status = "pending" =>
                           list # <<>> /\ list[1].do \in {"accumulate", "receive"} /\ list[1].row = mail[1].row
                      /\ mail[1].kind = "released" => mail[1].row \notin s.held
    OBVIOUS
  <2>1. /\ mail[1].kind = "arrived" /\ db[mail[1].row].status = "pending" => Arriving(db, lane["messages"], mail[1].row)
        /\ mail[1].kind = "released" => mail[1].row \notin state.held
    BY <1>1 DEF Placed, LanesAt
  <2>2. ASSUME mail[1].kind = "arrived", db[mail[1].row].status = "pending"
        PROVE  list # <<>> /\ list[1].do \in {"accumulate", "receive"} /\ list[1].row = mail[1].row
    <3>1. a.do = "accumulate" /\ db[r].item /\ r = mail[1].row
      BY <1>1, <1>2, <2>1, <2>2 DEF Arriving
    <3>2. list # <<>> /\ list[1] = Do("receive", r)
      BY <1>7, <3>1
    <3> QED BY <3>1, <3>2 DEF Do
  <2> QED BY <1>5, <2>1, <2>2
<1>13. \A q \in Rows :
         /\ \/ s.row[q] = state.row[q]
            \/ s.row[q] # "unknown" /\ db[q].status # "none" /\ (s.row[q] = "accepted" => Taken(machine, q))
         /\ \A k \in Sends : task[<<q, k>>].pc = "claim" => task[<<q, k>>].pc = "claim" \/ Taken(machine, q)
         /\ q \in s.held => q \in state.held \/ machine.job[q] = "present" \/ Says(mail, "released", q)
  <2>1. \A q \in Rows : state.row[q] # "unknown" => db[q].status # "none"
    BY StandsSo
  <2> HIDE DEF Taken, Says
  <2> QED BY <1>5, <1>6, <2>1
<1>14. PlanOK(l, s, task, list)
  <2> HIDE DEF Sendable, Taken, Says, PlanOK
  <2> QED BY <1>1, <1>5, <1>11, <1>12, <1>13, PlanFits
<1>15. Perform(l, s, task, <<>>, list, p) /\ UNCHANGED <<db, machine>>
  BY <1>1, <1>2
<1> HIDE DEF PlanOK, Perform, Placed, PlacedNext
<1> QED BY <1>3, <1>4, <1>14, <1>15, HandlerMoves

LEMMA FailTwo ==
  ASSUME NEW s, NEW r \in Rows
  PROVE  /\ DOMAIN CancelDispatch(s, r) \subseteq {1}
         /\ DOMAIN FailHandoff(s, r) \subseteq {1, 2} /\ 1 \in DOMAIN FailHandoff(s, r)
<1>1. PICK c, f : c = Do("cancel", r) /\ f = Do("fail", r)
  OBVIOUS
<1>2. CancelDispatch(s, r) = <<c>> \/ CancelDispatch(s, r) = <<>>
  BY <1>1 DEF CancelDispatch
<1>3. PICK d, h, one : d = CancelDispatch(s, r) /\ h = FailHandoff(s, r) /\ one = <<f>>
  OBVIOUS
<1>4. d \in Seq(Acts) /\ Len(d) \in {0, 1} /\ one \in Seq(Acts) /\ Len(one) = 1 /\ h = one \o d
  <2>1. c \in Acts /\ f \in Acts
    BY <1>1 DEF Do, Acts, Verbs
  <2>2. h = one \o d
    BY <1>1, <1>3 DEF FailHandoff
  <2>3. d = <<c>> \/ d = <<>>
    BY <1>2, <1>3
  <2>4. <<c>> \in Seq(Acts) /\ Len(<<c>>) = 1 /\ <<f>> \in Seq(Acts) /\ Len(<<f>>) = 1
    BY <2>1
  <2>5. d = <<c>> => d \in Seq(Acts) /\ Len(d) = 1
    BY <2>4
  <2>6. d = <<>> => d \in Seq(Acts) /\ Len(d) = 0
    BY EmptySeq
  <2> QED BY <1>3, <2>2, <2>3, <2>4, <2>5, <2>6
<1>5. h \in Seq(Acts) /\ Len(h) = 1 + Len(d)
  BY <1>4, ConcatProperties
<1>6. DOMAIN d = 1..Len(d) /\ DOMAIN h = 1..Len(h)
  BY <1>4, <1>5, LenProperties
<1>7. PICK n : n = Len(d)
  OBVIOUS
<1>8. n \in {0, 1} /\ DOMAIN d = 1..n /\ DOMAIN h = 1..(1 + n)
  BY <1>4, <1>5, <1>6, <1>7
<1>9. DOMAIN d \subseteq {1} /\ DOMAIN h \subseteq {1, 2} /\ 1 \in DOMAIN h
  BY <1>8
<1> QED BY <1>3, <1>9

\* An event sends a pending row, has it wait, or closes one that ended.
LEMMA HearsPlaced ==
  ASSUME TypeInv, Placed, InStep(World, state, task, Todo, events, Landed),
         NEW r \in Rows, NEW verb \in Happenings, OnEscalation(r, verb)
  PROVE  PlacedNext
<1>0. PICK s \in Pictures, list \in Seq(Acts), fits \in BOOLEAN :
         /\ fits = (db[r].status \in Fitting[verb])
         /\ \/ /\ fits /\ verb = "created" /\ state.row[r] = "unknown" /\ Fits(MachineLoad(state))
               /\ s = Admit(state, {r}) /\ list = Actions({r})
            \/ /\ fits /\ verb = "created" /\ state.row[r] = "unknown"
               /\ s = [state EXCEPT !.row[r] = "waiting"] /\ list = <<>>
            \/ fits /\ verb # "created" /\ s = Shut(state, r) /\ list = IF verb = "ended" THEN CancelDispatch(state, r) ELSE <<>>
            \/ (fits => verb = "created" /\ state.row[r] # "unknown") /\ s = state /\ list = <<>>
         /\ gateway = "up" /\ gateway' = gateway /\ lane["events"] = Idle
         /\ <<r, verb>> \in events /\ events' = events \ {<<r, verb>>}
         /\ Perform("events", s, task, <<>>, list, FALSE)
         /\ UNCHANGED <<db, machine, period, spent>>
  BY OnEscalationPlan, ZenonT(30)
<1>1. /\ fits = (db[r].status \in Fitting[verb])
      /\ \/ /\ fits /\ verb = "created"
            /\ s = Admit(state, {r}) /\ list = Actions({r})
         \/ /\ fits /\ verb = "created"
            /\ s = [state EXCEPT !.row[r] = "waiting"] /\ list = <<>>
         \/ fits /\ verb # "created" /\ s = Shut(state, r) /\ list = IF verb = "ended" THEN CancelDispatch(state, r) ELSE <<>>
         \/ (fits => verb = "created" /\ state.row[r] # "unknown") /\ s = state /\ list = <<>>
      /\ gateway = "up" /\ Perform("events", s, task, <<>>, list, FALSE)
      /\ UNCHANGED <<db, machine>>
  BY <1>0
<1>2. task \in [TaskNames -> Tasks] /\ state \in Pictures /\ "events" \in Lanes /\ FALSE \in BOOLEAN
  BY DEF TypeInv, Lanes
<1>3. /\ s.held = state.held
      /\ \A q \in Rows : s.row[q] = state.row[q] \/ (s.row[q] \notin {"unknown", "accepted"} /\ (q = r \/ state.row[q] # "unknown"))
      /\ fits /\ verb = "created" => s.row[r] # "unknown"
  <2>1. CASE s = Admit(state, {r})
    <3>1. {r} \subseteq Rows
      OBVIOUS
    <3>2. /\ s.held = state.held
          /\ \A q \in Rows : s.row[q] = IF q \notin {r} THEN state.row[q] ELSE IF q \in setting.unfit THEN "refused" ELSE "pending"
      BY <1>2, <2>1, <3>1, AdmitOf
    <3> QED BY <3>2
  <2>2. CASE s = [state EXCEPT !.row[r] = "waiting"]
    <3>1. s.held = state.held /\ \A q \in Rows : s.row[q] = IF q = r THEN "waiting" ELSE state.row[q]
      BY <1>2, <2>2 DEF Pictures
    <3> QED BY <3>1
  <2>3. CASE verb # "created" /\ s = Shut(state, r)
    <3>1. s.held = state.held /\ \A q \in Rows : s.row[q] = IF q = r /\ IsOpen(state, r) THEN "closed" ELSE state.row[q]
      BY <1>2, <2>3, ShutOf
    <3>2. IsOpen(state, r) => state.row[r] # "unknown"
      BY DEF IsOpen, Open
    <3>3. \A q \in Rows : s.row[q] = state.row[q] \/ (s.row[q] \notin {"unknown", "accepted"} /\ (q = r \/ state.row[q] # "unknown"))
      BY <3>1, <3>2
    <3> QED BY <2>3, <3>1, <3>3
  <2>4. CASE (fits => verb = "created" /\ state.row[r] # "unknown") /\ s = state
    BY <2>4
  <2> QED BY <1>1, <2>1, <2>2, <2>3, <2>4
<1>4. /\ fits => db[r].status # "none"
      /\ fits /\ verb = "ended" => Ended(db, r)
  <2>1. /\ Fitting["created"] = {"pending"} /\ Fitting["ended"] = {"withdrawn"} /\ Fitting["resolved"] = {"received", "failed"}
        /\ verb \in {"created", "ended", "resolved"}
    BY DEF Fitting, Happenings
  <2>2. fits = (db[r].status \in Fitting[verb])
    BY <1>1
  <2> QED BY <2>1, <2>2 DEF Ended
<1>5. fits \/ s = state
  BY <1>1
<1>6. Sendable(list, s, "events", mail)
  <2> HIDE DEF Ended
  <2>1. CASE fits /\ verb = "created" /\ s = Admit(state, {r}) /\ list = Actions({r})
    <3>1. \A i \in DOMAIN Actions({r}) : Actions({r})[i].row \in {r} /\ Actions({r})[i].do \in {"refuse", "dispatch"}
      BY ActionsOf
    <3>2. \A i \in DOMAIN list : list[i].row = r /\ list[i].do \in {"refuse", "dispatch"}
      BY <2>1, <3>1
    <3> QED BY <1>3, <2>1, <3>2 DEF Sendable
  <2>2. CASE list = <<>>
    <3>1. DOMAIN list = {}
      BY <2>2
    <3> QED BY <3>1 DEF Sendable
  <2>3. CASE fits /\ verb = "ended" /\ list = CancelDispatch(state, r)
    <3>1. \A i \in DOMAIN list : i = 1 /\ list[i] = Do("cancel", r)
      BY <1>2, <2>3, CancelOf, FailTwo
    <3>2. \A i \in DOMAIN list : i = 1 /\ list[i].do = "cancel" /\ list[i].row = r
      BY <3>1 DEF Do
    <3> QED BY <1>4, <2>3, <3>2 DEF Sendable
  <2> QED BY <1>1, <2>1, <2>2, <2>3
<1>7. \A q \in Rows :
         /\ \/ s.row[q] = state.row[q]
            \/ s.row[q] # "unknown" /\ db[q].status # "none" /\ (s.row[q] = "accepted" => Taken(machine, q))
         /\ \A k \in Sends : task[<<q, k>>].pc = "claim" => task[<<q, k>>].pc = "claim" \/ Taken(machine, q)
         /\ q \in s.held => q \in state.held \/ machine.job[q] = "present" \/ Says(mail, "released", q)
  <2>1. \A q \in Rows : state.row[q] # "unknown" => db[q].status # "none"
    BY StandsSo
  <2> HIDE DEF Taken, Says
  <2> QED BY <1>3, <1>4, <1>5, <2>1
<1>8. PlanOK("events", s, task, list)
  <2>1. gateway # "down"
    BY <1>1
  <2> HIDE DEF Sendable, Taken, Says, PlanOK
  <2> QED BY <1>2, <1>3, <1>6, <1>7, <2>1, PlanFits
<1>9. Perform("events", s, task, <<>>, list, FALSE) /\ UNCHANGED <<db, machine>>
  BY <1>1
<1> HIDE DEF PlanOK, Perform, Placed, PlacedNext
<1> QED BY <1>2, <1>8, <1>9, HandlerMoves

\* Asks that end: the machine took the jobs of rows T.
AnswerPlan(k, X, T, refused, t) ==
  /\ k \in Pictures /\ t \in [TaskNames -> Tasks] /\ X \subseteq TaskNames /\ refused \in BOOLEAN
  /\ k.held \subseteq state.held /\ \A r \in Rows : k.row[r] = state.row[r] /\ (r \in T => Taken(machine, r))
  /\ \A x \in TaskNames : t[x].pc = "claim" => Answered(k, X, T, refused)[x].pc = "claim"
  /\ mail # <<>> /\ mail[1].kind \notin {"arrived", "released"}
LEMMA AnswersPlaced ==
  ASSUME TypeInv, Placed, InStep(World, state, task, Todo, events, Landed), gateway # "down", UNCHANGED <<db, machine>>,
         NEW k, NEW X, NEW T, NEW refused, NEW t, AnswerPlan(k, X, T, refused, t),
         Perform("messages", Concluded(k, X, T), t, <<>>, <<>>, FALSE)
  PROVE  PlacedNext
<1> /\ k \in Pictures /\ t \in [TaskNames -> Tasks] /\ X \subseteq TaskNames /\ refused \in BOOLEAN
    /\ k.held \subseteq state.held /\ \A r \in Rows : k.row[r] = state.row[r] /\ (r \in T => Taken(machine, r))
    /\ \A x \in TaskNames : t[x].pc = "claim" => Answered(k, X, T, refused)[x].pc = "claim"
    /\ mail # <<>> /\ mail[1].kind \notin {"arrived", "released"}
  BY DEF AnswerPlan
<1>1. PICK s, e : s = Concluded(k, X, T) /\ e = <<>>
  OBVIOUS
<1>2. /\ s \in Pictures /\ s.held = k.held
      /\ \A r \in Rows : s.row[r] = IF r \notin Asks(X) \/ ~IsOpen(k, r) THEN k.row[r] ELSE IF r \in T THEN "accepted" ELSE "refused"
  <2>1. /\ Concluded(k, X, T) \in Pictures /\ Concluded(k, X, T).held = k.held
        /\ \A r \in Rows : Concluded(k, X, T).row[r] =
             IF r \notin Asks(X) \/ ~IsOpen(k, r) THEN k.row[r] ELSE IF r \in T THEN "accepted" ELSE "refused"
    BY ConcludedOf
  <2> QED BY <1>1, <2>1
<1>3. "messages" \in Lanes /\ FALSE \in BOOLEAN /\ e \in Seq(Acts) /\ DOMAIN e = {}
  BY <1>1, EmptySeq DEF Lanes
<1>4. Sendable(e, s, "messages", mail)
  BY <1>3 DEF Sendable
<1>5. \A r \in Rows : s.row[r] = state.row[r] \/ (state.row[r] # "unknown" /\ s.row[r] # "unknown" /\ (s.row[r] = "accepted" => Taken(machine, r)))
  <2> HIDE DEF Taken
  <2> QED BY <1>2 DEF IsOpen, Open
<1>6. \A r \in Rows : \A h \in Sends : t[<<r, h>>].pc = "claim" => task[<<r, h>>].pc = "claim" \/ Taken(machine, r)
  <2> SUFFICES ASSUME NEW r \in Rows, NEW h \in Sends, t[<<r, h>>].pc = "claim" PROVE task[<<r, h>>].pc = "claim" \/ Taken(machine, r)
    OBVIOUS
  <2>1. PICK x : x = <<r, h>>
    OBVIOUS
  <2>2. x \in TaskNames /\ x[1] = r
    BY <2>1 DEF TaskNames
  <2>3. /\ x \notin X => Answered(k, X, T, refused)[x] = task[x]
        /\ x \in X /\ Answered(k, X, T, refused)[x].pc = "claim" => x[1] \in T
    BY <2>2, AnsweredOf
  <2> HIDE DEF Taken
  <2> QED BY <2>1, <2>2, <2>3
<1>7. \A r \in Rows :
         /\ \/ s.row[r] = state.row[r]
            \/ s.row[r] # "unknown" /\ db[r].status # "none" /\ (s.row[r] = "accepted" => Taken(machine, r))
         /\ \A h \in Sends : t[<<r, h>>].pc = "claim" => task[<<r, h>>].pc = "claim" \/ Taken(machine, r)
         /\ r \in s.held => r \in state.held \/ machine.job[r] = "present" \/ Says(mail, "released", r)
  <2>1. \A r \in Rows : state.row[r] # "unknown" => db[r].status # "none"
    BY StandsSo
  <2> HIDE DEF Taken, Says
  <2> QED BY <1>2, <1>5, <1>6, <2>1
<1>8. PlanOK("messages", s, t, e)
  <2>1. "messages" # "events"
    OBVIOUS
  <2> HIDE DEF Sendable, Taken, Says, PlanOK
  <2> QED BY <1>3, <1>4, <1>7, <2>1, PlanFits
<1>9. Perform("messages", s, t, <<>>, e, FALSE)
  BY <1>1
<1> HIDE DEF PlanOK, Perform, Placed, PlacedNext
<1> QED BY <1>2, <1>3, <1>8, <1>9, HandlerMoves

\* A reply says whether the machine took the job.
LEMMA RepliesPlaced ==
  ASSUME TypeInv, Placed, InStep(World, state, task, Todo, events, Landed), TakeReply
  PROVE  PlacedNext
<1>1. PICK m \in Letters, s \in Pictures, t \in [TaskNames -> Tasks] : \E X \in SUBSET TaskNames : \E T \in SUBSET Rows :
         /\ m = mail[1] /\ m.kind = "reply" /\ m.row \in Rows /\ T = IF m.ok THEN {m.row} ELSE {}
         /\ X = {x \in TaskNames : task[x].pc = "reply" /\ x[1] = m.row /\ task[x].of = m.of}
         /\ s = Concluded(state, X, T) /\ t = Answered(state, X, T, TRUE)
         /\ Perform("messages", s, t, <<>>, <<>>, FALSE)
         /\ gateway = "up" /\ lane["messages"] = Idle /\ mail # <<>> /\ UNCHANGED <<db, events, gateway, machine, period, spent>>
  BY TakeReplyPlan, ZenonT(30)
<1>2. PICK X \in SUBSET TaskNames : \E T \in SUBSET Rows :
         /\ m = mail[1] /\ m.kind = "reply" /\ m.row \in Rows /\ T = IF m.ok THEN {m.row} ELSE {}
         /\ s = Concluded(state, X, T) /\ t = Answered(state, X, T, TRUE)
         /\ Perform("messages", s, t, <<>>, <<>>, FALSE)
         /\ gateway = "up" /\ lane["messages"] = Idle /\ mail # <<>> /\ UNCHANGED <<db, machine>>
  BY <1>1
<1>3. PICK T \in SUBSET Rows :
         /\ m = mail[1] /\ m.kind = "reply" /\ m.row \in Rows /\ T = IF m.ok THEN {m.row} ELSE {}
         /\ s = Concluded(state, X, T) /\ t = Answered(state, X, T, TRUE)
         /\ Perform("messages", s, t, <<>>, <<>>, FALSE)
         /\ gateway = "up" /\ lane["messages"] = Idle /\ mail # <<>> /\ UNCHANGED <<db, machine>>
  BY <1>2
<1>4. PICK k : k = state
  OBVIOUS
<1>5. \A r \in Rows : r \in T => Taken(machine, r)
  <2>1. m.ok => Tells(m, m.row)
    BY <1>3 DEF Tells
  <2>2. mail \in Seq(Letters) /\ m.row \in Rows
    BY <1>3 DEF TypeInv
  <2>3. m.ok => Knows(mail, m.row)
    BY <1>3, <2>1, <2>2, LetterRead
  <2>4. m.ok => Taken(machine, m.row)
    BY <2>2, <2>3, StandsSo
  <2> HIDE DEF Taken
  <2> QED BY <1>3, <2>4
<1>6. Perform("messages", Concluded(k, X, T), t, <<>>, <<>>, FALSE) /\ UNCHANGED <<db, machine>> /\ gateway # "down"
  BY <1>3, <1>4
<1>7. AnswerPlan(k, X, T, TRUE, t)
  <2>1. k \in Pictures /\ t = Answered(k, X, T, TRUE) /\ mail # <<>> /\ mail[1].kind \notin {"arrived", "released"}
    BY <1>3, <1>4 DEF TypeInv
  <2>2. \A x \in TaskNames : t[x].pc = "claim" => Answered(k, X, T, TRUE)[x].pc = "claim"
    BY <2>1
  <2> HIDE DEF Taken
  <2> QED BY <1>4, <1>5, <2>1, <2>2 DEF AnswerPlan
<1> HIDE DEF Perform, Placed, PlacedNext, AnswerPlan
<1> QED BY <1>6, <1>7, AnswersPlaced

\* A unit that arrived on a pending row is filed; one that left is let go.
LEMMA JobsPlaced ==
  ASSUME TypeInv, Placed, InStep(World, state, task, Todo, events, Landed), TakeJob
  PROVE  PlacedNext
<1>1. PICK m \in Letters, s \in Pictures, list \in Seq(Acts) :
         /\ m = mail[1] /\ m.kind \in {"arrived", "released", "withdrawn", "misread"} /\ m.row \in Rows
         /\ s = CASE m.kind = "arrived" /\ IsOpen(state, m.row) -> [state EXCEPT !.held = @ \cup {m.row}]
                  [] m.kind \in {"released", "withdrawn"} -> LetGo(state, m.row)
                  [] OTHER -> state
         /\ s.row = state.row /\ s.boot = state.boot /\ s.sent \subseteq state.sent
         /\ \/ (m.kind = "released" \/ ~IsOpen(state, m.row)) /\ list = <<>>
            \/ m.kind = "arrived" /\ IsOpen(state, m.row) /\ list = <<Do("accumulate", m.row)>>
            \/ m.kind \in {"withdrawn", "misread"} /\ IsOpen(state, m.row) /\ list = FailHandoff(s, m.row)
         /\ Perform("messages", s, task, <<>>, list, FALSE)
         /\ gateway = "up" /\ lane["messages"] = Idle /\ mail # <<>> /\ UNCHANGED <<db, events, gateway, machine, period, spent>>
  BY TakeJobPlan, ZenonT(30)
<1>2. PICK r : r = m.row
  OBVIOUS
<1>3. r \in Rows /\ mail \in Seq(Letters) /\ mail # <<>> /\ m = mail[1] /\ state \in Pictures /\ task \in [TaskNames -> Tasks]
  BY <1>1, <1>2 DEF TypeInv
<1>4. /\ s.held \subseteq state.held \cup {r}
      /\ r \in s.held => r \in state.held \/ m.kind = "arrived"
      /\ m.kind = "released" => r \notin s.held
  <2>1. CASE m.kind = "arrived" /\ IsOpen(state, m.row)
    <3>1. s = [state EXCEPT !.held = @ \cup {m.row}]
      BY <1>1, <2>1
    <3>2. s.held = state.held \cup {r}
      BY <1>2, <1>3, <3>1 DEF Pictures
    <3> QED BY <2>1, <3>2
  <2>2. CASE m.kind \in {"released", "withdrawn"}
    <3>1. s = LetGo(state, m.row)
      BY <1>1, <2>2
    <3>2. s.held = state.held \ {r}
      BY <1>2, <1>3, <3>1, LetGoOf
    <3> QED BY <2>2, <3>2
  <2>3. CASE m.kind \notin {"released", "withdrawn"} /\ ~(m.kind = "arrived" /\ IsOpen(state, m.row))
    <3>1. s = state
      BY <1>1, <2>3
    <3> QED BY <2>3, <3>1
  <2> QED BY <2>1, <2>2, <2>3
<1>5. m.kind = "arrived" => machine.job[r] = "present" \/ Says(mail, "released", r)
  <2>1. m.kind = "arrived" => Stays(mail, r) \/ Says(mail, "released", r)
    BY <1>2, <1>3, LetterRead
  <2>2. InPlace(r)
    BY <1>3 DEF Placed
  <2> HIDE DEF Stays, Says, Taken, Wired, Cancels, Knows
  <2> QED BY <2>1, <2>2 DEF InPlace, WireOK
<1>6. m.kind = "arrived" /\ db[r].status = "pending" => IsOpen(state, r)
  <2> SUFFICES ASSUME m.kind = "arrived", db[r].status = "pending" PROVE IsOpen(state, r)
    OBVIOUS
  <2>1. Tells(m, r)
    BY <1>2 DEF Tells
  <2>2. Knows(mail, r)
    BY <1>3, <2>1, LetterRead
  <2>3. state.row[r] # "unknown" /\ state.row[r] # "closed"
    <3>1. /\ state.row[r] = "closed" => Ended(db, r)
          /\ Knows(mail, r) => Taken(machine, r)
          /\ state.row[r] = "unknown" /\ db[r].status = "pending" /\ gateway # "down" => ~Taken(machine, r)
      BY <1>3, StandsSo
    <3>2. gateway # "down"
      BY <1>1
    <3> HIDE DEF Knows, Taken
    <3> QED BY <2>2, <3>1, <3>2 DEF Ended
  <2>4. state.row[r] \in Dispatches
    BY <1>3 DEF Pictures
  <2> QED BY <2>3, <2>4 DEF IsOpen, Open, Dispatches
<1>7. Sendable(list, s, "messages", mail)
  <2>1. CASE list = <<>>
    <3>1. DOMAIN list = {}
      BY <2>1
    <3> QED BY <3>1 DEF Sendable
  <2>2. CASE m.kind = "arrived" /\ list = <<Do("accumulate", m.row)>>
    <3>1. DOMAIN list = {1} /\ list[1].do = "accumulate" /\ list[1].row = r
      BY <1>2, <2>2 DEF Do
    <3> QED BY <1>2, <1>3, <2>2, <3>1 DEF Sendable
  <2>3. CASE list = FailHandoff(s, m.row)
    <3>1. \A i \in DOMAIN list : i \in {1, 2} /\ list[i] = IF i = 1 THEN Do("fail", r) ELSE Do("cancel", r)
      BY <1>2, <1>3, <2>3, CancelOf, FailTwo
    <3>2. 1 \in DOMAIN list
      BY <1>2, <1>3, <2>3, FailTwo
    <3>3. list[1].do = "fail" /\ list[1].row = r
      BY <3>1, <3>2 DEF Do
    <3>4. \A i \in DOMAIN list : list[i].do \in {"fail", "cancel"} /\ list[i].row = r /\ (list[i].do = "cancel" => i = 2)
      BY <3>1 DEF Do
    <3> HIDE DEF Ended
    <3> QED BY <3>3, <3>4 DEF Sendable
  <2> QED BY <1>1, <2>1, <2>2, <2>3
<1>8. /\ mail[1].kind = "arrived" /\ db[mail[1].row].status = "pending" =>
           list # <<>> /\ list[1].do \in {"accumulate", "receive"} /\ list[1].row = mail[1].row
      /\ mail[1].kind = "released" => mail[1].row \notin s.held
  <2>1. ASSUME m.kind = "arrived", db[r].status = "pending"
        PROVE  list # <<>> /\ list[1].do \in {"accumulate", "receive"} /\ list[1].row = r
    <3>1. list = <<Do("accumulate", m.row)>>
      BY <1>1, <1>2, <1>6, <2>1
    <3> QED BY <1>2, <3>1 DEF Do
  <2> QED BY <1>2, <1>3, <1>4, <2>1
<1>9. \A q \in Rows :
         /\ \/ s.row[q] = state.row[q]
            \/ s.row[q] # "unknown" /\ db[q].status # "none" /\ (s.row[q] = "accepted" => Taken(machine, q))
         /\ \A k \in Sends : task[<<q, k>>].pc = "claim" => task[<<q, k>>].pc = "claim" \/ Taken(machine, q)
         /\ q \in s.held => q \in state.held \/ machine.job[q] = "present" \/ Says(mail, "released", q)
  <2>1. s.row = state.row
    BY <1>1
  <2> HIDE DEF Taken, Says
  <2> QED BY <1>4, <1>5, <2>1
<1>10. "messages" \in Lanes /\ FALSE \in BOOLEAN /\ gateway # "down" /\ "messages" # "events"
  BY <1>1 DEF Lanes
<1>11. PlanOK("messages", s, task, list)
  <2> HIDE DEF Sendable, Taken, Says, PlanOK
  <2> QED BY <1>7, <1>8, <1>9, <1>10, PlanFits
<1>12. Perform("messages", s, task, <<>>, list, FALSE) /\ UNCHANGED <<db, machine>>
  BY <1>1
<1> HIDE DEF PlanOK, Perform, Placed, PlacedNext
<1> QED BY <1>3, <1>10, <1>11, <1>12, HandlerMoves

\* A snapshot of the same boot: who asked for it hears of it, nothing is sent again.
LEMMA SnapshotsPlaced ==
  ASSUME TypeInv, Placed, Kept, InStep(World, state, task, Todo, events, Landed), spent["restart"] = 0, TakeSnapshot
  PROVE  PlacedNext
<1>1. PICK m \in Letters, k \in Pictures, s \in Pictures, t \in [TaskNames -> Tasks], out \in Seq(Cmds) :
        \E X \in SUBSET TaskNames : \E open \in SUBSET Rows : \E again \in SUBSET Rows :
          SnapshotPlan(m, k, s, t, out, X, open, again) /\ Perform("messages", s, t, out, <<>>, FALSE)
  BY TakeSnapshotPlan
<1>2. PICK X \in SUBSET TaskNames, open \in SUBSET Rows, again \in SUBSET Rows :
        SnapshotPlan(m, k, s, t, out, X, open, again) /\ Perform("messages", s, t, out, <<>>, FALSE)
  BY <1>1
<1>3. gateway # "down" /\ mail # <<>> /\ UNCHANGED <<db, machine>>
  BY TakeSnapshotPlan
<1>4. m = mail[1] /\ m.kind = "snapshot" /\ 1 \in DOMAIN mail /\ mail \in Seq(Letters)
  <2>1. m = mail[1] /\ m.kind = "snapshot"
    BY <1>2 DEF SnapshotPlan
  <2>2. Len(mail) \in Nat \ {0} /\ mail \in Seq(Letters)
    BY <1>3, LetterOf DEF TypeInv
  <2>3. DOMAIN mail = 1..Len(mail)
    BY LenProperties DEF TypeInv
  <2> QED BY <2>1, <2>2, <2>3
<1>5. open = {} /\ again = {}
  <2>1. m.boot = 1
    BY <1>4 DEF Kept
  <2>2. state.boot \in {0, 1}
    BY DEF InStep, World
  <2> QED BY <1>2, <2>1, <2>2 DEF SnapshotPlan
<1>6. PICK T : T = m.jobs
  OBVIOUS
<1>7. \A r \in Rows : r \in T => Taken(machine, r)
  <2> SUFFICES ASSUME NEW r \in Rows, r \in T PROVE Taken(machine, r)
    OBVIOUS
  <2>1. Tells(m, r)
    BY <1>4, <1>6 DEF Tells
  <2>2. Knows(mail, r)
    BY <1>3, <1>4, <2>1, LetterRead
  <2> QED BY <2>2, StandsSo
<1>8. /\ out = <<>> /\ s = Concluded(k, X, T) /\ k.row = state.row /\ \A r \in Rows : r \in k.held => r \in state.held
      /\ \A x \in TaskNames : t[x] = Answered(k, X, T, FALSE)[x]
  BY <1>2, <1>5, <1>6 DEF SnapshotPlan
<1>9. AnswerPlan(k, X, T, FALSE, t)
  <2>1. k.held \subseteq state.held
    BY <1>8 DEF Pictures
  <2> HIDE DEF Taken
  <2> QED BY <1>3, <1>4, <1>7, <1>8, <2>1 DEF AnswerPlan
<1>10. Perform("messages", Concluded(k, X, T), t, <<>>, <<>>, FALSE)
  BY <1>2, <1>8
<1> HIDE DEF Perform, Placed, PlacedNext, AnswerPlan
<1> QED BY <1>3, <1>9, <1>10, AnswersPlaced

\* The snapshot that is read back tells of units that left.
LEMMA ReadBackPlaced ==
  ASSUME TypeInv, Placed, InStep(World, state, task, Todo, events, Landed), ReadBack
  PROVE  PlacedNext
<1>1. PICK k \in Pictures :
         /\ k.row = state.row /\ \A r \in Rows : r \in k.held <=> r \in state.held /\ r \in machine.said.jobs
         /\ Perform("events", k, task, <<>>, <<>>, FALSE)
         /\ gateway = "reading" /\ UNCHANGED <<db, machine>>
  BY ReadBackPlan
<1>2. PICK e : e = <<>>
  OBVIOUS
<1>3. e \in Seq(Acts) /\ DOMAIN e = {} /\ "events" \in Lanes /\ FALSE \in BOOLEAN /\ task \in [TaskNames -> Tasks]
  BY <1>2, EmptySeq DEF Lanes, TypeInv
<1>4. PlanOK("events", k, task, e)
  <2>1. ASSUME NEW r \in Rows
        PROVE  /\ k.row[r] # "unknown" => db[r].status # "none"
               /\ k.row[r] = "accepted" \/ (\E h \in Sends : task[<<r, h>>].pc = "claim") => Taken(machine, r)
               /\ k.row[r] = "unknown" /\ db[r].status = "pending" => gateway # "down" /\ state.row[r] = "unknown"
               /\ r \in k.held => r \in state.held \/ machine.job[r] = "present" \/ Says(mail, "released", r)
    <3>1. /\ state.row[r] # "unknown" => db[r].status # "none"
          /\ state.row[r] = "accepted" \/ (\E h \in Sends : task[<<r, h>>].pc = "claim") => Taken(machine, r)
      BY StandsSo
    <3> HIDE DEF Taken, Says
    <3> QED BY <1>1, <3>1
  <2>2. lane["messages"].todo # <<>> /\ mail[1].kind = "released" => mail[1].row \notin k.held
    <3>1. lane["messages"].todo # <<>> /\ mail[1].kind = "released" => mail[1].row \notin state.held
      BY DEF Placed, LanesAt
    <3>2. k.held \subseteq state.held
      BY <1>1 DEF Pictures
    <3> QED BY <3>1, <3>2
  <2>3. Sendable(e, k, "events", mail)
    BY <1>3 DEF Sendable
  <2> HIDE DEF Taken, Says, Sendable
  <2> QED BY <2>1, <2>2, <2>3 DEF PlanOK
<1>5. Perform("events", k, task, <<>>, e, FALSE) /\ UNCHANGED <<db, machine>>
  BY <1>1, <1>2
<1> HIDE DEF PlanOK, Perform, Placed, PlacedNext
<1> QED BY <1>3, <1>4, <1>5, HandlerMoves

\* Who takes over reads open rows back: the claimed ones were taken, and the arrivals
\* they hold are in the mail, or their units there.
LEMMA TakeOverPlaced ==
  ASSUME TypeInv, Placed, TakeOver
  PROVE  PlacedNext
<1>1. PICK s \in Pictures, list \in Seq(Acts) :
         /\ \A r \in Rows : s.row[r] = IF Claimed(r) THEN "accepted" ELSE IF db[r].status = "pending" THEN "waiting" ELSE "unknown"
         /\ \A r \in Rows : r \in s.held <=> Claimed(r) /\ db[r].item
         /\ \A i \in DOMAIN list : list[i].do = "receive" /\ list[i].row \in Rows /\ Claimed(list[i].row)
         /\ Perform("events", s, task, <<>>, list, TRUE)
         /\ gateway = "down" /\ UNCHANGED <<db, machine>>
  BY TakeOverPlan
<1>2. /\ lane["messages"].todo = <<>> /\ "events" \in Lanes /\ TRUE \in BOOLEAN /\ task \in [TaskNames -> Tasks]
      /\ \A r \in Rows, k \in Sends : task[<<r, k>>].pc = "idle"
  <2>1. lane = [l \in Lanes |-> Idle] /\ task = [x \in TaskNames |-> NoTask]
    BY <1>1 DEF TypeInv, DownOK
  <2>2. task \in [TaskNames -> Tasks]
    BY DEF TypeInv
  <2> QED BY <2>1, <2>2 DEF Lanes, Idle, NoTask, TaskNames
<1>3. PlanOK("events", s, task, list)
  <2>1. ASSUME NEW r \in Rows
        PROVE  /\ s.row[r] # "unknown" => db[r].status # "none"
               /\ s.row[r] = "accepted" \/ (\E k \in Sends : task[<<r, k>>].pc = "claim") => Taken(machine, r)
               /\ s.row[r] = "unknown" /\ db[r].status = "pending" => gateway # "down" /\ state.row[r] = "unknown"
               /\ r \in s.held => r \in state.held \/ machine.job[r] = "present" \/ Says(mail, "released", r)
    <3>1. InPlace(r)
      BY DEF Placed
    <3>2. Says(mail, "arrived", r) => Stays(mail, r) \/ Says(mail, "released", r)
      <4>1. mail \in Seq(Letters)
        BY DEF TypeInv
      <4> QED BY DEF Says, Stays
    <3> HIDE DEF Taken, Says, Stays, Wired, Cancels, Knows
    <3>3. /\ db[r].claimed => Taken(machine, r)
          /\ db[r].item /\ db[r].status = "pending" => Says(mail, "arrived", r)
          /\ Stays(mail, r) => machine.job[r] = "present"
      BY <3>1 DEF InPlace, WireOK
    <3> QED BY <1>1, <1>2, <3>2, <3>3 DEF Claimed
  <2>2. Sendable(list, s, "events", mail)
    BY <1>1 DEF Sendable
  <2> HIDE DEF Taken, Says, Sendable
  <2> QED BY <1>2, <2>1, <2>2 DEF PlanOK
<1>4. Perform("events", s, task, <<>>, list, TRUE) /\ UNCHANGED <<db, machine>>
  BY <1>1
<1> HIDE DEF PlanOK, Perform, Placed, PlacedNext
<1> QED BY <1>2, <1>3, <1>4, HandlerMoves

\* A step of the rows': one is parked, ends, is claimed once its job was taken, or has
\* an arrival that is in the mail filed on it.
RowMoves(rec, M, m, n, r) ==
  /\ \/ n[r].status = rec[r].status
     \/ rec[r].status = "pending" /\ n[r].status \notin {"none", "pending"}
     \/ rec[r].status = "none" /\ n[r].status = "pending"
  /\ n[r].claimed => rec[r].claimed \/ Taken(M, r)
  /\ n[r].item => rec[r].item \/ (rec[r].status = "pending" /\ Says(m, "arrived", r))
LEMMA RowsMove ==
  ASSUME TypeInv, Placed, UNCHANGED <<gateway, state, cmds, machine, mail>>,
         \A r \in Rows : RowMoves(db, machine, mail, db', r),
         \A r \in Rows, k \in Sends : task'[<<r, k>>].pc = "claim" => task[<<r, k>>].pc = "claim",
         \A l \in Lanes : lane'[l].todo = lane[l].todo,
         \A r \in Rows : db[r].status = "pending" /\ db'[r].status = "pending" /\ Arriving(db, lane["messages"], r)
                           => Arriving(db', lane'["messages"], r)
  PROVE  PlacedNext
<1>1. PICK rec, n, M, t2, n2 : rec = db /\ n = db' /\ M = machine /\ t2 = task' /\ n2 = lane'
  OBVIOUS
<1>2. ASSUME NEW r \in Rows
      PROVE  WireOK(n, M, cmds, mail, r) /\ ViewOK(n, M, cmds, mail, gateway, state, t2, r)
  <2>1. /\ WireOK(rec, M, cmds, mail, r) /\ ViewOK(rec, M, cmds, mail, gateway, state, task, r)
        /\ RowMoves(rec, M, mail, n, r)
        /\ \A k \in Sends : t2[<<r, k>>].pc = "claim" => task[<<r, k>>].pc = "claim"
    BY <1>1 DEF Placed, InPlace
  <2> HIDE DEF Taken, Wired, Cancels, Knows, Says, Stays
  <2>2. WireOK(n, M, cmds, mail, r)
    BY <2>1 DEF WireOK, RowMoves, Ended
  <2>3. ViewOK(n, M, cmds, mail, gateway, state, t2, r)
    BY <2>1 DEF WireOK, ViewOK, RowMoves
  <2> QED BY <2>2, <2>3
<1>3. LanesAt(n, n2, mail, state)
  <2>1. LanesAt(rec, lane, mail, state) /\ \A l \in Lanes : n2[l].todo = lane[l].todo
    BY <1>1 DEF Placed
  <2>2. \A l \in Lanes : ActsAt(n2[l].todo, l, mail)
    BY <2>1 DEF LanesAt
  <2>3. "messages" \in Lanes
    BY DEF Lanes
  <2>4. ASSUME n2["messages"].todo # <<>>, mail[1].kind = "arrived", n[mail[1].row].status = "pending"
        PROVE  Arriving(n, n2["messages"], mail[1].row)
    <3>1. PICK h, r : h = mail[1] /\ r = h.row
      OBVIOUS
    <3>2. mail # <<>> /\ mail \in Seq(Letters)
      BY <2>1, <2>3, <2>4 DEF TypeInv, LanesOK
    <3>3. h \in Letters
      BY <3>1, <3>2, LetterOf
    <3>4. r \in Rows
      BY <2>4, <3>1, <3>3 DEF Letters
    <3>5. Taken(M, r)
      <4>1. Tells(h, r)
        BY <2>4, <3>1 DEF Tells
      <4>2. Knows(mail, r)
        BY <3>1, <3>2, <3>4, <4>1, LetterRead
      <4>3. WireOK(rec, M, cmds, mail, r)
        BY <1>1, <3>4 DEF Placed, InPlace
      <4> HIDE DEF Taken, Wired, Cancels, Knows, Says, Stays
      <4> QED BY <4>2, <4>3 DEF WireOK
    <3>6. rec[r].status = "pending"
      <4>1. WireOK(rec, M, cmds, mail, r) /\ RowMoves(rec, M, mail, n, r)
        BY <1>1, <3>4 DEF Placed, InPlace
      <4> HIDE DEF Taken, Wired, Cancels, Knows, Says, Stays
      <4> QED BY <2>4, <3>1, <3>5, <4>1 DEF WireOK, RowMoves
    <3>7. Arriving(rec, lane["messages"], r)
      BY <2>1, <2>3, <2>4, <3>1, <3>6 DEF LanesAt
    <3> QED BY <1>1, <2>4, <3>1, <3>4, <3>6, <3>7
  <2>5. n2["messages"].todo # <<>> /\ mail[1].kind = "released" => mail[1].row \notin state.held
    BY <2>1, <2>3 DEF LanesAt
  <2> QED BY <2>2, <2>4, <2>5 DEF LanesAt
<1>4. /\ \A r \in Rows : WireOK(db', machine', cmds', mail', r) /\ ViewOK(db', machine', cmds', mail', gateway', state', task', r)
      /\ LanesAt(db', lane', mail', state')
  BY <1>1, <1>2, <1>3
<1> QED BY <1>4 DEF PlacedNext

\* Parking and withdrawing.
LEMMA HostsPlaced ==
  ASSUME TypeInv, Placed, NEW r \in Rows, Park(r) \/ Withdraw(r)
  PROVE  PlacedNext
<1>1. UNCHANGED <<gateway, state, lane, task, cmds, machine, mail>>
  BY DEF Park, Withdraw, leaderVars, machineVars
<1>2. \/ db[r].status = "none" /\ db' = [db EXCEPT ![r].status = "pending"]
      \/ db[r].status = "pending" /\ db' = [db EXCEPT ![r].status = "withdrawn"]
  BY DEF Park, Withdraw
<1>3. db \in [Rows -> DbRecords]
  BY DEF TypeInv
<1>4. \A q \in Rows : /\ db'[q].claimed = db[q].claimed /\ db'[q].item = db[q].item
                      /\ \/ db'[q].status = db[q].status
                         \/ db[q].status = "pending" /\ db'[q].status \notin {"none", "pending"}
                         \/ db[q].status = "none" /\ db'[q].status = "pending"
  BY <1>2, <1>3 DEF DbRecords
<1>5. \A q \in Rows : RowMoves(db, machine, mail, db', q)
  <2> HIDE DEF Taken, Says
  <2> QED BY <1>4 DEF RowMoves
<1>6. \A q \in Rows : db[q].status = "pending" /\ db'[q].status = "pending" /\ Arriving(db, lane["messages"], q)
                         => Arriving(db', lane'["messages"], q)
  BY <1>1, <1>4 DEF Arriving
<1>7. /\ \A q \in Rows, k \in Sends : task'[<<q, k>>].pc = "claim" => task[<<q, k>>].pc = "claim"
      /\ \A l \in Lanes : lane'[l].todo = lane[l].todo
  BY <1>1
<1> HIDE DEF RowMoves, Placed, PlacedNext, Arriving
<1> QED BY <1>1, <1>5, <1>6, <1>7, RowsMove

\* What a verb leaves of the rows.
LEMMA LandMoves ==
  ASSUME TypeInv, NEW verb \in Verbs \cup {"claim"}, NEW r \in Rows, Land(verb, r)
  PROVE  \A q \in Rows :
           /\ db'[q].status = db[q].status \/ (db[q].status = "pending" /\ q = r /\ db'[q].status \notin {"none", "pending"})
           /\ db'[q].claimed => db[q].claimed \/ (verb = "claim" /\ q = r)
           /\ db'[q].item => db[q].item \/ (db[q].status = "pending" /\ verb = "accumulate" /\ q = r)
           /\ db[q].item => db'[q].item
           /\ verb = "accumulate" /\ q = r /\ db[q].status = "pending" => db'[q].item
           /\ verb = "receive" /\ q = r => db'[q].status # "pending"
<1>1. db \in [Rows -> DbRecords]
  BY DEF TypeInv
<1>2. CASE db[r].status # "pending"
  <2>1. db' = db
    BY <1>2 DEF Land, Verbs
  <2> QED BY <1>1, <1>2, <2>1
<1>3. CASE db[r].status = "pending" /\ verb = "claim"
  <2>1. db' = [db EXCEPT ![r].claimed = TRUE]
    BY <1>3 DEF Land
  <2> QED BY <1>1, <1>3, <2>1 DEF DbRecords
<1>4. CASE db[r].status = "pending" /\ verb = "accumulate"
  <2>1. db' = [db EXCEPT ![r].item = TRUE]
    BY <1>4 DEF Land
  <2> QED BY <1>1, <1>4, <2>1 DEF DbRecords
<1>5. CASE db[r].status = "pending" /\ verb = "receive"
  <2>1. db' = [db EXCEPT ![r].status = "received"]
    BY <1>5 DEF Land
  <2> QED BY <1>1, <1>5, <2>1 DEF DbRecords
<1>6. CASE db[r].status = "pending" /\ (verb = "fail" \/ (verb = "refuse" /\ ~db[r].claimed))
  <2>1. db' = [db EXCEPT ![r].status = "failed"]
    BY <1>6 DEF Land
  <2> QED BY <1>1, <1>6, <2>1 DEF DbRecords
<1>7. CASE db[r].status = "pending" /\ verb = "refuse" /\ db[r].claimed
  <2>1. db' = db
    BY <1>7 DEF Land
  <2> QED BY <1>1, <1>7, <2>1
<1> QED BY <1>2, <1>3, <1>4, <1>5, <1>6, <1>7 DEF Verbs

\* A verb lands: an accumulate files the arrival its message told of.
LEMMA LandsPlaced ==
  ASSUME TypeInv, Placed, NEW l \in Lanes, VerbLands(l)
  PROVE  PlacedNext
<1>1. /\ lane[l].todo # <<>> /\ Land(Head(lane[l].todo).do, Head(lane[l].todo).row)
      /\ lane' = [lane EXCEPT ![l].landed = TRUE] /\ UNCHANGED <<gateway, state, task, cmds, machine, mail>>
  BY DEF VerbLands, machineVars
<1>2. PICK a : a = lane[l].todo[1]
  OBVIOUS
<1>3. Head(lane[l].todo) = a /\ a.row \in Rows /\ a.do \in Verbs /\ 1 \in DOMAIN lane[l].todo
  BY <1>1, <1>2, AtWork
<1>4. lane \in [Lanes -> LaneRecords] /\ "messages" \in Lanes
  BY DEF TypeInv, LanesOK, Lanes
<1>5. \A k \in Lanes : lane'[k].todo = lane[k].todo /\ (k # l => lane'[k] = lane[k])
  BY <1>1, <1>4 DEF LaneRecords
<1>6. \A q \in Rows :
        /\ db'[q].status = db[q].status \/ (db[q].status = "pending" /\ q = a.row /\ db'[q].status \notin {"none", "pending"})
        /\ db'[q].claimed => db[q].claimed
        /\ db'[q].item => db[q].item \/ (db[q].status = "pending" /\ a.do = "accumulate" /\ q = a.row)
        /\ db[q].item => db'[q].item
        /\ a.do = "accumulate" /\ q = a.row /\ db[q].status = "pending" => db'[q].item
        /\ a.do = "receive" /\ q = a.row => db'[q].status # "pending"
  <2>1. Land(a.do, a.row) /\ a.do # "claim" /\ a.do \in Verbs \cup {"claim"}
    BY <1>1, <1>3 DEF Verbs
  <2> QED BY <1>3, <2>1, LandMoves
<1>7. a.do = "accumulate" => Says(mail, "arrived", a.row)
  <2>1. a.do = "accumulate" => l = "messages" /\ mail[1].kind = "arrived" /\ mail[1].row = a.row
    BY <1>2, <1>3 DEF Placed, LanesAt, ActsAt
  <2>2. l = "messages" => 1 \in DOMAIN mail
    <3>1. l = "messages" => mail # <<>> /\ mail \in Seq(Letters)
      BY <1>1 DEF TypeInv, LanesOK
    <3>2. l = "messages" => Len(mail) \in Nat \ {0} /\ DOMAIN mail = 1..Len(mail)
      BY <3>1, LenProperties, EmptySeq
    <3> QED BY <3>2
  <2> QED BY <2>1, <2>2 DEF Says
<1>8. \A q \in Rows : RowMoves(db, machine, mail, db', q)
  <2> HIDE DEF Taken, Says
  <2> QED BY <1>6, <1>7 DEF RowMoves
<1>9. ASSUME NEW q \in Rows, db[q].status = "pending", db'[q].status = "pending", Arriving(db, lane["messages"], q)
      PROVE  Arriving(db', lane'["messages"], q)
  <2>1. CASE l # "messages"
    <3>1. lane'["messages"] = lane["messages"]
      BY <1>4, <1>5, <2>1
    <3> QED BY <1>6, <1>9, <3>1 DEF Arriving
  <2>2. CASE l = "messages"
    <3>1. lane'["messages"].todo[1] = a /\ lane["messages"].todo[1] = a
      BY <1>2, <1>4, <1>5, <2>2
    <3>2. a.row = q /\ a.do # "receive"
      BY <1>6, <1>9, <3>1 DEF Arriving
    <3>3. a.do = "accumulate" /\ db'[q].item
      BY <1>6, <1>9, <3>1, <3>2 DEF Arriving
    <3> QED BY <3>1, <3>2, <3>3 DEF Arriving
  <2> QED BY <2>1, <2>2
<1>10. /\ \A q \in Rows, k \in Sends : task'[<<q, k>>].pc = "claim" => task[<<q, k>>].pc = "claim"
       /\ \A k \in Lanes : lane'[k].todo = lane[k].todo
       /\ UNCHANGED <<gateway, state, cmds, machine, mail>>
  BY <1>1, <1>5
<1> HIDE DEF RowMoves, Placed, PlacedNext, Arriving
<1> QED BY <1>8, <1>9, <1>10, RowsMove

\* A task claims a row whose job was taken, or fails one.
LEMMA TasksPlaced ==
  ASSUME TypeInv, Placed, NEW x \in TaskNames, TaskClaims(x) \/ TaskFails(x)
  PROVE  PlacedNext
<1>1. UNCHANGED <<gateway, state, lane, cmds, machine, mail>>
  BY DEF TaskClaims, TaskFails, machineVars
<1>2. PICK r : r = x[1]
  OBVIOUS
<1>3. r \in Rows /\ \E k \in Sends : x = <<r, k>>
  BY <1>2 DEF TaskNames
<1>4. \E verb \in {"claim", "fail", "refuse"} : Land(verb, r) /\ (verb = "claim" => task[x].pc = "claim")
  BY <1>2 DEF TaskClaims, TaskFails
<1>5. PICK verb \in {"claim", "fail", "refuse"} : Land(verb, r) /\ (verb = "claim" => task[x].pc = "claim")
  BY <1>4
<1>6. \A q \in Rows :
        /\ db'[q].status = db[q].status \/ (db[q].status = "pending" /\ q = r /\ db'[q].status \notin {"none", "pending"})
        /\ db'[q].claimed => db[q].claimed \/ (verb = "claim" /\ q = r)
        /\ db'[q].item => db[q].item
        /\ db[q].item => db'[q].item
  <2>1. verb \in Verbs \cup {"claim"} /\ verb # "accumulate"
    BY <1>5 DEF Verbs
  <2> QED BY <1>3, <1>5, <2>1, LandMoves
<1>7. verb = "claim" => Taken(machine, r)
  <2>1. InPlace(r)
    BY <1>3 DEF Placed
  <2> HIDE DEF Taken, Wired, Says
  <2> QED BY <1>3, <1>5, <2>1 DEF InPlace, ViewOK
<1>8. \A q \in Rows : RowMoves(db, machine, mail, db', q)
  <2> HIDE DEF Taken, Says
  <2> QED BY <1>6, <1>7 DEF RowMoves
<1>9. \A q \in Rows : db[q].status = "pending" /\ db'[q].status = "pending" /\ Arriving(db, lane["messages"], q)
                         => Arriving(db', lane'["messages"], q)
  BY <1>1, <1>6 DEF Arriving
<1>10. \A q \in Rows, k \in Sends : task'[<<q, k>>].pc = "claim" => task[<<q, k>>].pc = "claim"
  <2>1. task \in [TaskNames -> Tasks] /\ NoTask.pc # "claim"
    BY DEF TypeInv, NoTask
  <2>2. task' = [task EXCEPT ![x] = NoTask] \/ \E d : task' = [task EXCEPT ![x].pc = "failed", ![x].done = d]
    BY DEF TaskClaims, TaskFails
  <2>3. \A y \in TaskNames : task'[y].pc = "claim" => task[y].pc = "claim"
    <3>1. CASE task' = [task EXCEPT ![x] = NoTask]
      BY <2>1, <3>1
    <3>2. ASSUME NEW d, task' = [task EXCEPT ![x].pc = "failed", ![x].done = d]
          PROVE  \A y \in TaskNames : task'[y].pc = "claim" => task[y].pc = "claim"
      BY <2>1, <3>2 DEF Tasks
    <3> QED BY <2>2, <3>1, <3>2
  <2> QED BY <2>3 DEF TaskNames
<1>11. \A k \in Lanes : lane'[k].todo = lane[k].todo
  BY <1>1
<1> HIDE DEF RowMoves, Placed, PlacedNext, Arriving
<1> QED BY <1>1, <1>8, <1>9, <1>10, <1>11, RowsMove

\* Where lanes and mail stay as they are, or every lane stops.
LEMMA GatewayRests ==
  ASSUME TypeInv, Placed, UNCHANGED <<db, machine, mail>>, lane' = lane \/ lane' = [l \in Lanes |-> Idle],
         \A r \in Rows :
           /\ Wired(cmds', r) => Wired(cmds, r) \/ (db[r].status # "none" /\ state'.row[r] # "unknown")
           /\ Cancels(cmds', r) => Cancels(cmds, r) \/ Ended(db, r)
           /\ state'.row[r] = "accepted" \/ (\E k \in Sends : task'[<<r, k>>].pc = "claim") => Taken(machine, r)
           /\ gateway' # "down" /\ state'.row[r] = "unknown" => gateway # "down" /\ state.row[r] = "unknown",
         state'.held \subseteq state.held
  PROVE  PlacedNext
<1>1. PICK n2, s2 : n2 = lane' /\ s2 = state'
  OBVIOUS
<1>2. s2.held \subseteq state.held /\ (n2 = lane \/ n2 = [l \in Lanes |-> Idle])
  BY <1>1
<1>3. ASSUME NEW r \in Rows
      PROVE  WireOK(db', machine', cmds', mail', r) /\ ViewOK(db', machine', cmds', mail', gateway', state', task', r)
  <2>1. InPlace(r) /\ UNCHANGED <<db, machine>> /\ mail' = mail
    BY DEF Placed
  <2>2. /\ Wired(cmds', r) => Wired(cmds, r) \/ (db[r].status # "none" /\ state'.row[r] # "unknown")
        /\ Cancels(cmds', r) => Cancels(cmds, r) \/ Ended(db, r)
        /\ state'.row[r] = "accepted" \/ (\E k \in Sends : task'[<<r, k>>].pc = "claim") => Taken(machine, r)
        /\ gateway' # "down" /\ state'.row[r] = "unknown" => gateway # "down" /\ state.row[r] = "unknown"
        /\ r \in state'.held => r \in state.held
    BY <1>1, <1>2
  <2> HIDE DEF Taken, Says, Wired, Cancels, InPlace, WireOK, ViewOK, Ended
  <2> QED BY <2>1, <2>2, GatewayMoves
<1>4. LanesAt(db, n2, mail, s2)
  <2>1. LanesAt(db, lane, mail, state) /\ "messages" \in Lanes
    BY DEF Placed, Lanes
  <2>2. CASE n2 = lane
    BY <1>2, <2>1, <2>2 DEF LanesAt
  <2>3. CASE n2 = [l \in Lanes |-> Idle]
    <3>1. PICK e : e = <<>>
      OBVIOUS
    <3>2. \A l \in Lanes : n2[l].todo = e
      BY <2>3, <3>1 DEF Idle
    <3>3. DOMAIN e = {}
      BY <3>1
    <3>4. \A l \in Lanes : ActsAt(n2[l].todo, l, mail)
      BY <3>2, <3>3 DEF ActsAt
    <3>5. n2["messages"].todo = <<>>
      BY <2>1, <3>1, <3>2
    <3> QED BY <3>4, <3>5 DEF LanesAt
  <2> QED BY <1>2, <2>2, <2>3
<1>5. LanesAt(db', lane', mail', state')
  BY <1>1, <1>4
<1> QED BY <1>3, <1>5 DEF PlacedNext

\* A gateway crashes: what it knew is gone.
LEMMA CrashPlaced ==
  ASSUME TypeInv, Placed, Crash
  PROVE  PlacedNext
<1>1. /\ gateway' = "down" /\ state' = Blank /\ lane' = [l \in Lanes |-> Idle]
      /\ task' = [x \in DOMAIN task |-> NoTask] /\ UNCHANGED <<db, cmds, machine, mail>>
  BY DEF Crash, machineVars
<1>2. DOMAIN task = TaskNames
  BY DEF TypeInv
<1>3. \A r \in Rows, k \in Sends : task'[<<r, k>>].pc # "claim"
  BY <1>1, <1>2 DEF TaskNames, NoTask
<1>4. state'.held = {} /\ \A r \in Rows : state'.row[r] = "unknown"
  BY <1>1 DEF Blank
<1> HIDE DEF Taken, Wired, Cancels, Ended, Placed, PlacedNext
<1>5. \A r \in Rows :
        /\ Wired(cmds', r) => Wired(cmds, r) \/ (db[r].status # "none" /\ state'.row[r] # "unknown")
        /\ Cancels(cmds', r) => Cancels(cmds, r) \/ Ended(db, r)
        /\ state'.row[r] = "accepted" \/ (\E k \in Sends : task'[<<r, k>>].pc = "claim") => Taken(machine, r)
        /\ gateway' # "down" /\ state'.row[r] = "unknown" => gateway # "down" /\ state.row[r] = "unknown"
  BY <1>1, <1>3, <1>4
<1>6. state'.held \subseteq state.held
  BY <1>4
<1> QED BY <1>1, <1>5, <1>6, GatewayRests

\* No answer in time: the same command is sent once more, or the machine is asked what it has.
LEMMA LatePlaced ==
  ASSUME TypeInv, Placed, InStep(World, state, task, Todo, events, Landed), gateway # "down",
         NEW x \in TaskNames, ReplyLate(x) \/ StatusLate(x)
  PROVE  PlacedNext
<1>1. PICK r : r = x[1]
  OBVIOUS
<1>2. r \in Rows /\ task \in [TaskNames -> Tasks] /\ cmds \in Seq(Cmds) /\ state \in Pictures /\ \E k \in Sends : x = <<r, k>>
  BY <1>1 DEF TaskNames, TypeInv
<1>3. UNCHANGED <<db, lane, machine, mail, gateway>>
  BY DEF ReplyLate, StatusLate, machineVars
<1>4. CASE ReplyLate(x)
  <2>1. PICK k : /\ cmds' = Append(cmds, k) /\ k.op \in {"dispatch", "snapshot"} /\ k.row = r /\ k.of = task[x].of
                 /\ k = Command(k.op, k.row, k.of)
    BY <1>1, <1>4 DEF ReplyLate, Command
  <2>2. k \in Cmds
    BY <1>2, <2>1 DEF Command, Cmds, Tasks
  <2>3. state' = state /\ \A y \in TaskNames : task'[y].pc = "claim" => task[y].pc = "claim"
    BY <1>2, <1>4 DEF ReplyLate, Tasks
  <2>4. state.row[r] # "unknown" /\ task[x].pc = "reply"
    <3>1. task[x].pc = "reply"
      BY <1>4 DEF ReplyLate
    <3>2. PICK h \in Sends : x = <<r, h>>
      BY <1>2
    <3>3. TaskInStep(World, state, task, r, h)
      BY <1>2 DEF InStep, TasksInStep
    <3> QED BY <3>1, <3>2, <3>3 DEF TaskInStep
  <2>5. ASSUME NEW q \in Rows
        PROVE  /\ Wired(cmds', q) => Wired(cmds, q) \/ (db[q].status # "none" /\ state'.row[q] # "unknown")
               /\ Cancels(cmds', q) => Cancels(cmds, q) \/ Ended(db, q)
               /\ state'.row[q] = "accepted" \/ (\E j \in Sends : task'[<<q, j>>].pc = "claim") => Taken(machine, q)
               /\ gateway' # "down" /\ state'.row[q] = "unknown" => gateway # "down" /\ state.row[q] = "unknown"
    <3>1. /\ Wired(Append(cmds, k), q) => Wired(cmds, q) \/ (k.op = "dispatch" /\ k.row = q)
          /\ Cancels(Append(cmds, k), q) => Cancels(cmds, q) \/ (k.op = "cancel" /\ k.row = q)
      BY <1>2, <2>2, CommandAdded
    <3>2. /\ state.row[q] # "unknown" => db[q].status # "none"
          /\ state.row[q] = "accepted" \/ (\E j \in Sends : task[<<q, j>>].pc = "claim") => Taken(machine, q)
      BY StandsSo
    <3>3. \A j \in Sends : task'[<<q, j>>].pc = "claim" => task[<<q, j>>].pc = "claim"
      BY <2>3 DEF TaskNames
    <3> HIDE DEF Taken, Wired, Cancels, Ended
    <3> QED BY <1>3, <2>1, <2>3, <2>4, <3>1, <3>2, <3>3
  <2>6. state'.held \subseteq state.held /\ lane' = lane
    BY <1>3, <2>3
  <2> HIDE DEF Taken, Wired, Cancels, Ended, Placed, PlacedNext
  <2> QED BY <1>3, <2>5, <2>6, GatewayRests
<1>5. CASE StatusLate(x)
  <2>1. PICK s, t : s = state' /\ t = task'
    OBVIOUS
  <2>2. /\ s.held = state.held /\ cmds' = cmds
        /\ \A q \in Rows : s.row[q] = state.row[q] \/ (s.row[q] = "refused" /\ IsOpen(state, q))
        /\ \A y \in TaskNames : t[y].pc = "claim" => task[y].pc = "claim"
    <3>1. PICK X, T, f : X = {x} /\ T = {} /\ f = FALSE
      OBVIOUS
    <3>2. X \subseteq TaskNames /\ f \in BOOLEAN
      BY <3>1
    <3>3. s = Concluded(state, X, T) /\ t = Answered(state, X, T, f) /\ cmds' = cmds
      BY <1>5, <2>1, <3>1 DEF StatusLate
    <3>a. state \in Pictures
      BY <1>2
    <3>4. /\ \A q \in Rows : s.row[q] =
               IF q \notin Asks(X) \/ ~IsOpen(state, q) THEN state.row[q] ELSE IF q \in T THEN "accepted" ELSE "refused"
          /\ s.held = state.held
      <4>1. /\ \A q \in Rows : Concluded(state, X, T).row[q] =
                 IF q \notin Asks(X) \/ ~IsOpen(state, q) THEN state.row[q] ELSE IF q \in T THEN "accepted" ELSE "refused"
            /\ Concluded(state, X, T).held = state.held
        BY <3>2, <3>a, ConcludedOf
      <4> HIDE DEF Concluded
      <4> QED BY <3>3, <4>1
    <3>5. ASSUME NEW y \in TaskNames PROVE (y \notin X => t[y] = task[y]) /\ (y \in X /\ t[y].pc = "claim" => y[1] \in T)
      <4>1. \A z \in TaskNames :
              /\ z \notin X => Answered(state, X, T, f)[z] = task[z]
              /\ z \in X => LET u == Answered(state, X, T, f)[z] IN
                   /\ u.pc \in {"idle", "claim", "fail"} /\ (u.pc # "idle" => ~task[z].ended)
                   /\ u.pc = "claim" => z[1] \in T
                   /\ u.pc = "fail" => z[1] \notin T /\ IsOpen(state, z[1]) /\ u.refused = f
        BY <3>2, <3>a, AnsweredOf
      <4> HIDE DEF Answered
      <4> QED BY <3>3, <4>1
    <3> QED BY <3>1, <3>3, <3>4, <3>5
  <2>3. ASSUME NEW q \in Rows
        PROVE  /\ Wired(cmds', q) => Wired(cmds, q) \/ (db[q].status # "none" /\ state'.row[q] # "unknown")
               /\ Cancels(cmds', q) => Cancels(cmds, q) \/ Ended(db, q)
               /\ state'.row[q] = "accepted" \/ (\E j \in Sends : task'[<<q, j>>].pc = "claim") => Taken(machine, q)
               /\ gateway' # "down" /\ state'.row[q] = "unknown" => gateway # "down" /\ state.row[q] = "unknown"
    <3>1. state.row[q] = "accepted" \/ (\E j \in Sends : task[<<q, j>>].pc = "claim") => Taken(machine, q)
      BY StandsSo
    <3>2. \A j \in Sends : task'[<<q, j>>].pc = "claim" => task[<<q, j>>].pc = "claim"
      BY <2>1, <2>2 DEF TaskNames
    <3> HIDE DEF Taken, Wired, Cancels, Ended
    <3> QED BY <1>3, <2>1, <2>2, <3>1, <3>2
  <2>4. state'.held \subseteq state.held /\ lane' = lane
    BY <1>3, <2>1, <2>2
  <2> HIDE DEF Taken, Wired, Cancels, Ended, Placed, PlacedNext
  <2> QED BY <1>3, <2>3, <2>4, GatewayRests
<1> QED BY <1>4, <1>5

\* A failed dispatch shuts its row, which ended, and cancels it.
LEMMA EndsPlaced ==
  ASSUME TypeInv, Placed, InStep(World, state, task, Todo, events, Landed), gateway # "down",
         NEW x \in TaskNames, TaskEnds(x)
  PROVE  PlacedNext
<1>1. PICK r, k : r = x[1] /\ k = Cancel(r)
  OBVIOUS
<1>2. r \in Rows /\ task \in [TaskNames -> Tasks] /\ cmds \in Seq(Cmds) /\ state \in Pictures /\ \E h \in Sends : x = <<r, h>>
  BY <1>1 DEF TaskNames, TypeInv
<1>3. /\ UNCHANGED <<db, lane, machine, mail, gateway>> /\ state' = Shut(state, r) /\ task[x].pc = "failed"
      /\ cmds' = cmds \/ cmds' = Append(cmds, k)
      /\ task' = [task EXCEPT ![x] = NoTask]
  BY <1>1 DEF TaskEnds, machineVars
<1>4. k \in Cmds /\ k.op = "cancel" /\ k.row = r
  BY <1>1, <1>2 DEF Cancel, Command, Cmds
<1>5. Ended(db, r)
  <2>1. PICK h \in Sends : x = <<r, h>>
    BY <1>2
  <2>2. TaskInStep(World, state, task, r, h)
    BY <1>2 DEF InStep, TasksInStep
  <2> QED BY <1>3, <2>1, <2>2 DEF TaskInStep, Over, World, Ended
<1>6. /\ state'.held = state.held
      /\ \A q \in Rows : state'.row[q] = state.row[q] \/ state'.row[q] = "closed"
      /\ \A y \in TaskNames : task'[y].pc = "claim" => task[y].pc = "claim"
  <2>1. \A q \in Rows : Shut(state, r).row[q] = IF q = r /\ IsOpen(state, r) THEN "closed" ELSE state.row[q]
    BY <1>2, ShutOf
  <2>2. Shut(state, r).held = state.held
    BY <1>2, ShutOf
  <2>3. \A y \in TaskNames : task'[y].pc = "claim" => task[y].pc = "claim"
    BY <1>2, <1>3 DEF NoTask
  <2> QED BY <1>3, <2>1, <2>2, <2>3
<1>7. ASSUME NEW q \in Rows
      PROVE  /\ Wired(cmds', q) => Wired(cmds, q) \/ (db[q].status # "none" /\ state'.row[q] # "unknown")
             /\ Cancels(cmds', q) => Cancels(cmds, q) \/ Ended(db, q)
             /\ state'.row[q] = "accepted" \/ (\E j \in Sends : task'[<<q, j>>].pc = "claim") => Taken(machine, q)
             /\ gateway' # "down" /\ state'.row[q] = "unknown" => gateway # "down" /\ state.row[q] = "unknown"
  <2>1. /\ Wired(Append(cmds, k), q) => Wired(cmds, q) \/ (k.op = "dispatch" /\ k.row = q)
        /\ Cancels(Append(cmds, k), q) => Cancels(cmds, q) \/ (k.op = "cancel" /\ k.row = q)
    BY <1>2, <1>4, CommandAdded
  <2>2. state.row[q] = "accepted" \/ (\E j \in Sends : task[<<q, j>>].pc = "claim") => Taken(machine, q)
    BY StandsSo
  <2>3. \A j \in Sends : task'[<<q, j>>].pc = "claim" => task[<<q, j>>].pc = "claim"
    BY <1>6 DEF TaskNames
  <2> HIDE DEF Taken, Wired, Cancels, Ended
  <2> QED BY <1>3, <1>4, <1>5, <1>6, <2>1, <2>2, <2>3
<1>8. state'.held \subseteq state.held /\ lane' = lane
  BY <1>3, <1>6
<1> HIDE DEF Taken, Wired, Cancels, Ended, Placed, PlacedNext
<1> QED BY <1>3, <1>7, <1>8, GatewayRests

\* What the machine does of a row: it takes its job in, drops a cancelled one, or says
\* where its unit went.
Unheard(m, m2, h, r) == m2 = m \/ ~(h.kind \in {"arrived", "released"} /\ h.row = r)
Handled(M, M2, c, c2, m, m2, h, r) ==
  /\ (Wired(c2, r) => Wired(c, r)) /\ (Cancels(c2, r) => Cancels(c, r))
  /\ Taken(M, r) => Taken(M2, r)
  /\ Taken(M2, r) => Taken(M, r) \/ (Wired(c, r) /\ M2.job[r] = "queued")
  /\ m2 # m => (Tells(h, r) => Taken(M2, r))
  /\ \/ M2.job[r] = M.job[r] /\ Unheard(m, m2, h, r)
     \/ M2.job[r] = "queued" /\ M.job[r] # "present" /\ Taken(M2, r) /\ Unheard(m, m2, h, r)
     \/ M2.job[r] = "none" /\ M.job[r] = "queued" /\ Cancels(c, r) /\ Unheard(m, m2, h, r)
     \/ M2.job[r] = "present" /\ M.job[r] = "queued" /\ m2 # m /\ h.kind = "arrived" /\ h.row = r
     \/ M2.job[r] = "none" /\ M.job[r] = "present" /\ m2 # m /\ h.kind = "released" /\ h.row = r
LEMMA FirstStays ==
  ASSUME NEW m \in Seq(Letters), NEW h \in Letters, m # <<>>
  PROVE  Append(m, h)[1] = m[1]
<1>1. PICK n, t : n = Len(m) /\ t = Append(m, h)
  OBVIOUS
<1>2. n \in Nat \ {0}
  BY <1>1, EmptySeq
<1>3. \A i \in 1..n : t[i] = m[i]
  BY <1>1, AppendProperties
<1>4. 1 \in 1..n
  BY <1>2
<1> QED BY <1>1, <1>3, <1>4
LEMMA MachineMoves ==
  ASSUME TypeInv, Placed, UNCHANGED <<db, gateway, state, task, lane>>, NEW h,
         mail' = mail \/ (mail' = Append(mail, h) /\ h \in Letters),
         \A r \in Rows : Handled(machine, machine', cmds, cmds', mail, mail', h, r)
  PROVE  PlacedNext
<1>1. PICK M, M2, c2, m2 : M = machine /\ M2 = machine' /\ c2 = cmds' /\ m2 = mail'
  OBVIOUS
<1>2. mail \in Seq(Letters)
  BY DEF TypeInv
<1>3. ASSUME NEW r \in Rows PROVE WireOK(db, M2, c2, m2, r) /\ ViewOK(db, M2, c2, m2, gateway, state, task, r)
  <2>1. /\ WireOK(db, M, cmds, mail, r) /\ ViewOK(db, M, cmds, mail, gateway, state, task, r)
        /\ Handled(M, M2, cmds, c2, mail, m2, h, r)
    BY <1>1 DEF Placed, InPlace
  <2>2. /\ Knows(m2, r) => Knows(mail, r) \/ Taken(M2, r)
        /\ Stays(m2, r) => \/ Stays(mail, r) /\ (m2 # mail => ~(h.kind = "released" /\ h.row = r))
                           \/ m2 # mail /\ h.kind = "arrived" /\ h.row = r
        /\ \A kind : Says(mail, kind, r) \/ (m2 # mail /\ h.kind = kind /\ h.row = r) => Says(m2, kind, r)
    <3>1. CASE m2 = mail
      BY <3>1
    <3>2. CASE m2 # mail
      <4>1. m2 = Append(mail, h) /\ h \in Letters /\ (Tells(h, r) => Taken(M2, r))
        BY <1>1, <2>1, <3>2 DEF Handled
      <4>2. /\ Knows(m2, r) => Knows(mail, r) \/ Tells(h, r)
            /\ Stays(m2, r) => \/ Stays(mail, r) /\ ~(h.kind = "released" /\ h.row = r)
                               \/ h.kind = "arrived" /\ h.row = r
            /\ \A kind : Says(mail, kind, r) \/ (h.kind = kind /\ h.row = r) => Says(m2, kind, r)
        BY <1>2, <4>1, LetterWritten
      <4> HIDE DEF Taken, Knows, Stays, Says, Tells
      <4> QED BY <3>2, <4>1, <4>2
    <3> QED BY <3>1, <3>2
  <2> HIDE DEF Taken, Wired, Cancels, Knows, Says, Stays, Tells
  <2>3. Says(mail, "arrived", r) => Says(m2, "arrived", r)
    BY <2>2
  <2>4. Says(mail, "released", r) => Says(m2, "released", r)
    BY <2>2
  <2>5. m2 # mail /\ h.kind \in {"arrived", "released"} /\ h.row = r => Says(m2, h.kind, r)
    BY <2>2
  <2>6. /\ db[r].status = "none" => ~Taken(M2, r) /\ ~Wired(c2, r) /\ ~db[r].item
        /\ M2.job[r] # "none" \/ Knows(m2, r) \/ db[r].claimed => Taken(M2, r)
        /\ Cancels(c2, r) => Ended(db, r)
        /\ db[r].item /\ db[r].status = "pending" => Says(m2, "arrived", r)
    BY <2>1, <2>2, <2>3 DEF WireOK, Handled
  <2>7. Taken(M2, r) /\ db[r].status = "pending" => M2.job[r] = "queued" \/ Says(m2, "arrived", r)
    BY <2>1, <2>3, <2>5 DEF WireOK, Handled, Ended
  <2>8. Stays(m2, r) => M2.job[r] = "present"
    BY <2>1, <2>2 DEF WireOK, Handled, Unheard
  <2>9. WireOK(db, M2, c2, m2, r)
    BY <2>6, <2>7, <2>8 DEF WireOK
  <2>10. r \in state.held => M2.job[r] = "present" \/ Says(m2, "released", r)
    BY <2>1, <2>4, <2>5 DEF ViewOK, Handled
  <2>11. ViewOK(db, M2, c2, m2, gateway, state, task, r)
    <3>1. /\ state.row[r] = "accepted" \/ (\E k \in Sends : task[<<r, k>>].pc = "claim") => Taken(M2, r)
          /\ gateway # "down" /\ state.row[r] = "unknown" /\ db[r].status = "pending" => ~Taken(M2, r) /\ ~Wired(c2, r)
      BY <2>1 DEF ViewOK, Handled
    <3> QED BY <2>10, <3>1 DEF ViewOK
  <2> QED BY <2>9, <2>11
<1>4. LanesAt(db, lane, m2, state)
  <2>1. LanesAt(db, lane, mail, state) /\ "messages" \in Lanes
    BY DEF Placed, Lanes
  <2>2. mail # <<>> => m2[1] = mail[1]
    <3>1. CASE m2 = mail
      BY <3>1
    <3>2. CASE m2 = Append(mail, h) /\ h \in Letters
      BY <1>2, <3>2, FirstStays
    <3> QED BY <1>1, <3>1, <3>2
  <2>3. lane["messages"].todo # <<>> => mail # <<>>
    BY DEF TypeInv, LanesOK
  <2>4. ASSUME NEW l \in Lanes PROVE ActsAt(lane[l].todo, l, m2)
    <3>1. ActsAt(lane[l].todo, l, mail)
      BY <2>1 DEF LanesAt
    <3>2. ASSUME NEW i \in DOMAIN lane[l].todo, l = "messages" PROVE m2[1] = mail[1]
      <4>1. lane[l].todo # <<>>
        BY <3>2
      <4> QED BY <2>2, <2>3, <3>2, <4>1
    <3> QED BY <3>1, <3>2 DEF ActsAt
  <2> QED BY <2>1, <2>2, <2>3, <2>4 DEF LanesAt
<1>5. /\ \A r \in Rows : WireOK(db', machine', cmds', mail', r) /\ ViewOK(db', machine', cmds', mail', gateway', state', task', r)
      /\ LanesAt(db', lane', mail', state')
  BY <1>1, <1>3, <1>4
<1> QED BY <1>5 DEF PlacedNext

\* The commands a machine ran, and which dispatches it took by them.
LEMMA CommandRan ==
  ASSUME TypeInv, RunCommand
  PROVE  \E c \in Cmds :
         /\ c = cmds[1]
         /\ c.op # "dispatch" => \/ machine'.ran = machine.ran
                                 \/ \E ok \in BOOLEAN : machine'.ran = machine.ran \cup {[cmd |-> c, ok |-> ok]}
         /\ c.op = "dispatch" => \E ok \in BOOLEAN :
              /\ machine'.ran = machine.ran \cup {[cmd |-> c, ok |-> ok]}
              /\ mail' = Append(mail, [kind |-> "reply", row |-> c.row, of |-> c.of, ok |-> ok])
              /\ \/ machine'.job[c.row] = machine.job[c.row]
                 \/ ok /\ machine.job[c.row] # "present" /\ machine'.job[c.row] = "queued"
              /\ ok => machine'.job[c.row] = "queued" \/ \E e \in machine.ran : e.cmd = c /\ e.ok
<1>a. PICK c : c = Head(cmds)
  OBVIOUS
<1>1. c \in Cmds /\ c = cmds[1] /\ c.row \in Rows /\ c.op \in {"dispatch", "cancel", "snapshot"}
  <2>1. cmds \in Seq(Cmds) /\ cmds # <<>>
    BY DEF TypeInv, RunCommand
  <2>2. c = cmds[1] /\ c \in Cmds
    BY <1>a, <2>1, HeadTailProperties
  <2> QED BY <2>2 DEF Cmds
<1>2. machine \in Machines /\ machine.job \in Jobs
  BY DEF TypeInv, Machines
<1>3. PICK before : before = {e \in machine.ran : e.cmd = c}
  OBVIOUS
<1>4. PICK new, ok : /\ new = (before = {})
                     /\ ok = (IF new THEN c.of >= period /\ c.row \notin setting.declined /\ machine.job[c.row] # "present"
                              ELSE \E e \in before : e.ok)
  OBVIOUS
<1>5. new \in BOOLEAN /\ ok \in BOOLEAN /\ (new /\ ok => machine.job[c.row] # "present")
      /\ (ok /\ ~new => \E e \in machine.ran : e.cmd = c /\ e.ok)
  BY <1>3, <1>4
<1>6. PICK ran : ran = machine.ran \cup {[cmd |-> c, ok |-> ok]}
  OBVIOUS
<1>7. CASE c.op = "dispatch"
  <2>1. PICK job : job = [machine.job EXCEPT ![c.row] = IF new /\ ok THEN "queued" ELSE @]
    OBVIOUS
  <2>2. machine' = [[machine EXCEPT !.job = job] EXCEPT !.ran = ran]
    BY ZenonT(30), <1>a, <1>3, <1>4, <1>6, <1>7, <2>1 DEF RunCommand
  <2>3. mail' = Append(mail, [kind |-> "reply", row |-> c.row, of |-> c.of, ok |-> ok])
    BY <1>a, <1>3, <1>4, <1>7 DEF RunCommand
  <2>4. machine'.job = job /\ machine'.ran = ran
    BY <1>2, <2>2 DEF Machines
  <2>5. job[c.row] = IF new /\ ok THEN "queued" ELSE machine.job[c.row]
    BY <1>1, <1>2, <2>1 DEF Jobs
  <2> QED BY <1>1, <1>5, <1>6, <1>7, <2>3, <2>4, <2>5
<1>8. CASE c.op = "cancel"
  <2>1. PICK queued : queued = (machine.job[c.row] = "queued")
    OBVIOUS
  <2>2. PICK gone : gone = [machine EXCEPT !.job[c.row] = "none"]
    OBVIOUS
  <2>3. gone \in Machines /\ gone.ran = machine.ran
    BY <1>1, <1>2, <2>2 DEF Machines, Jobs
  <2>4. CASE new /\ queued
    <3>1. machine' = [[machine EXCEPT !.job[c.row] = "none"] EXCEPT !.ran = ran]
      BY ZenonT(30), <1>a, <1>3, <1>4, <1>6, <1>8, <2>1, <2>4 DEF RunCommand
    <3>2. machine'.ran = ran
      BY <2>2, <2>3, <3>1 DEF Machines
    <3> QED BY <1>1, <1>5, <1>6, <1>8, <3>2
  <2>5. CASE ~new
    <3>1. machine' = [[machine EXCEPT !.job[c.row] = machine.job[c.row]] EXCEPT !.ran = ran]
      BY <1>a, <1>3, <1>4, <1>6, <1>8, <2>5 DEF RunCommand
    <3>2. machine'.ran = ran
      BY <1>2, <3>1 DEF Machines
    <3> QED BY <1>1, <1>5, <1>6, <1>8, <3>2
  <2>6. CASE new /\ ~queued
    <3>1. machine.job[c.row] # "queued" /\ before = {}
      BY <1>4, <2>1, <2>6
    <3>2. ok = (c.of >= period /\ c.row \notin setting.declined /\ machine.job[c.row] # "present")
      BY <1>4, <2>6
    <3>3. machine' = [[machine EXCEPT !.job[c.row] = @] EXCEPT !.ran = @ \cup
            {[cmd |-> c, ok |-> c.of >= period /\ c.row \notin setting.declined /\ machine.job[c.row] # "present"]}]
      BY ZenonT(90), <1>a, <1>3, <1>8, <3>1 DEF RunCommand
    <3>4. machine'.ran = ran
      BY <1>2, <1>6, <3>2, <3>3 DEF Machines
    <3> QED BY <1>1, <1>5, <1>6, <1>8, <3>4
  <2> QED BY <2>4, <2>5, <2>6
<1>9. CASE c.op = "snapshot"
  <2>1. PICK d : d = [machine EXCEPT !.ran = ran]
    OBVIOUS
  <2>2. d \in Machines /\ d.ran = ran
    BY <1>1, <1>2, <1>5, <1>6, <2>1 DEF Machines
  <2>3. machine' = IF new THEN Saying(d) ELSE machine
    BY <1>a, <1>3, <1>4, <1>6, <1>9, <2>1 DEF RunCommand
  <2>4. Saying(d).ran = ran
    BY <2>2 DEF Saying, Machines
  <2> QED BY <1>1, <1>5, <1>6, <1>9, <2>3, <2>4
<1> QED BY <1>1, <1>7, <1>8, <1>9
LEMMA RanTakes ==
  ASSUME NEW M, NEW N, NEW e, N.ran = M.ran \cup {e}, NEW r
  PROVE  /\ Taken(M, r) => Taken(N, r)
         /\ Taken(N, r) => Taken(M, r) \/ (e.ok /\ e.cmd.op = "dispatch" /\ e.cmd.row = r)
         /\ e.ok /\ e.cmd.op = "dispatch" /\ e.cmd.row = r => Taken(N, r)
BY DEF Taken

\* What the machine says it has, it took.
LEMMA ListedTaken ==
  ASSUME TypeInv, Placed
  PROVE  /\ Snapshot(machine) \in Letters
         /\ \A r \in Rows : Tells(Snapshot(machine), r) => Taken(machine, r)
         /\ Snapshot(machine).kind = "snapshot"
<1>1. PICK h : h = Snapshot(machine)
  OBVIOUS
<1>2. h \in Letters /\ h.kind = "snapshot" /\ \A q \in Rows : q \notin h.jobs => machine.job[q] = "none"
  BY <1>1, SnapshotOf DEF TypeInv
<1>3. \A q \in Rows : q \in h.jobs => machine.job[q] # "none"
  BY <1>1 DEF Snapshot, JobsAt
<1>4. ASSUME NEW r \in Rows, Tells(h, r) PROVE Taken(machine, r)
  <2>1. machine.job[r] # "none"
    BY <1>2, <1>3, <1>4 DEF Tells
  <2>2. InPlace(r)
    BY DEF Placed
  <2> HIDE DEF Taken, Wired, Cancels, Knows, Says, Stays
  <2> QED BY <2>1, <2>2 DEF InPlace, WireOK
<1> QED BY <1>1, <1>2, <1>4
LEMMA CommandPlaced ==
  ASSUME TypeInv, Placed, RunCommand
  PROVE  PlacedNext
<1>1. PICK c \in Cmds :
         /\ cmds # <<>> /\ c = cmds[1] /\ cmds' = Tail(cmds) /\ cmds' \in Seq(Cmds)
         /\ machine' \in Machines /\ machine'.boot = machine.boot
         /\ \A r \in Rows \ {c.row} : machine'.job[r] = machine.job[r]
         /\ \/ /\ c.op = "dispatch" /\ machine'.said = machine.said
               /\ \E ok \in BOOLEAN :
                    /\ mail' = Append(mail, [kind |-> "reply", row |-> c.row, of |-> c.of, ok |-> ok])
                    /\ \/ machine'.job[c.row] = machine.job[c.row]
                       \/ ok /\ machine.job[c.row] # "present" /\ machine'.job[c.row] = "queued"
            \/ /\ c.op = "cancel" /\ machine'.said = machine.said
               /\ \/ mail' = mail /\ machine'.job[c.row] = machine.job[c.row]
                  \/ /\ machine.job[c.row] = "queued" /\ machine'.job[c.row] = "none"
                     /\ mail' = Append(mail, Note("withdrawn", c.row))
            \/ /\ c.op = "snapshot" /\ machine'.job[c.row] = machine.job[c.row]
               /\ \/ mail' = mail /\ machine'.said = machine.said
                  \/ mail' = Append(mail, Snapshot(machine)) /\ machine'.said.boot = machine.boot
         /\ UNCHANGED <<setting, db, events, gateway, state, lane, task, period, spent>>
  BY RunCommandPlan
<1>2. PICK r, M, M2, c2, m2 : r = c.row /\ M = machine /\ M2 = machine' /\ c2 = cmds' /\ m2 = mail'
  OBVIOUS
<1>3. r \in Rows /\ mail \in Seq(Letters) /\ cmds \in Seq(Cmds)
  BY <1>2 DEF Cmds, TypeInv
<1>4. PICK d \in Cmds :
         /\ d = cmds[1]
         /\ d.op # "dispatch" => \/ machine'.ran = machine.ran
                                 \/ \E ok \in BOOLEAN : machine'.ran = machine.ran \cup {[cmd |-> d, ok |-> ok]}
         /\ d.op = "dispatch" => \E ok \in BOOLEAN :
              /\ machine'.ran = machine.ran \cup {[cmd |-> d, ok |-> ok]}
              /\ mail' = Append(mail, [kind |-> "reply", row |-> d.row, of |-> d.of, ok |-> ok])
              /\ \/ machine'.job[d.row] = machine.job[d.row]
                 \/ ok /\ machine.job[d.row] # "present" /\ machine'.job[d.row] = "queued"
              /\ ok => machine'.job[d.row] = "queued" \/ \E e \in machine.ran : e.cmd = d /\ e.ok
  BY CommandRan
<1>5. d = c
  BY <1>1, <1>4
<1>6. \A q \in Rows : /\ (Wired(c2, q) => Wired(cmds, q)) /\ (Cancels(c2, q) => Cancels(cmds, q))
                      /\ c.op = "dispatch" /\ c.row = q => Wired(cmds, q)
                      /\ c.op = "cancel" /\ c.row = q => Cancels(cmds, q)
  <2>1. cmds # <<>> /\ c2 = Tail(cmds) /\ c = cmds[1]
    BY <1>1, <1>2
  <2>2. ASSUME NEW q \in Rows
        PROVE  /\ (Wired(c2, q) => Wired(cmds, q)) /\ (Twice(c2, q) => Twice(cmds, q))
               /\ c.op = "dispatch" /\ c.row = q => Wired(cmds, q) /\ (Wired(c2, q) => Twice(cmds, q))
    BY <1>3, <2>1, CommandsTaken
  <2>3. ASSUME NEW q \in Rows
        PROVE  /\ (Cancels(c2, q) => Cancels(cmds, q))
               /\ c.op = "cancel" /\ c.row = q => Cancels(cmds, q)
    BY <1>3, <2>1, CancelsTaken
  <2> HIDE DEF Wired, Cancels
  <2> QED BY <2>2, <2>3
<1>7. \A q \in Rows \ {r} : M2.job[q] = M.job[q]
  BY <1>1, <1>2
<1>8. CASE c.op = "dispatch"
  <2>1. PICK ok \in BOOLEAN :
          /\ M2.ran = M.ran \cup {[cmd |-> c, ok |-> ok]}
          /\ m2 = Append(mail, [kind |-> "reply", row |-> r, of |-> c.of, ok |-> ok])
          /\ M2.job[r] = M.job[r] \/ (ok /\ M.job[r] # "present" /\ M2.job[r] = "queued")
          /\ ok => M2.job[r] = "queued" \/ \E e \in M.ran : e.cmd = c /\ e.ok
    BY <1>2, <1>4, <1>5, <1>8
  <2>2. PICK h : h = [kind |-> "reply", row |-> r, of |-> c.of, ok |-> ok]
    OBVIOUS
  <2>3. h \in Letters /\ h.kind = "reply" /\ h.ok = ok /\ h.row = r
    BY <1>3, <2>2 DEF Letters, Cmds
  <2>4. ASSUME NEW q \in Rows
        PROVE  /\ Taken(M, q) => Taken(M2, q)
               /\ Taken(M2, q) => Taken(M, q) \/ (ok /\ c.op = "dispatch" /\ c.row = q)
               /\ ok /\ c.op = "dispatch" /\ c.row = q => Taken(M2, q)
    <3>1. PICK e : e = [cmd |-> c, ok |-> ok]
      OBVIOUS
    <3>2. M2.ran = M.ran \cup {e} /\ e.ok = ok /\ e.cmd = c
      BY <2>1, <3>1
    <3>3. /\ Taken(M, q) => Taken(M2, q)
          /\ Taken(M2, q) => Taken(M, q) \/ (e.ok /\ e.cmd.op = "dispatch" /\ e.cmd.row = q)
          /\ e.ok /\ e.cmd.op = "dispatch" /\ e.cmd.row = q => Taken(M2, q)
      BY <3>2, RanTakes
    <3> HIDE DEF Taken
    <3> QED BY <3>2, <3>3
  <2>5. ok => M2.job[r] = "queued" \/ Taken(M, r)
    BY <1>2, <1>8, <2>1 DEF Taken
  <2>6. ASSUME NEW q \in Rows PROVE Handled(M, M2, cmds, c2, mail, m2, h, q)
    <3>1. Tells(h, q) => q = r /\ ok
      BY <2>3 DEF Tells
    <3>2. Unheard(mail, m2, h, q)
      BY <2>3 DEF Unheard
    <3> HIDE DEF Taken, Wired, Cancels, Unheard, Tells
    <3>3. Taken(M2, q) => Taken(M, q) \/ (Wired(cmds, q) /\ M2.job[q] = "queued")
      BY <1>2, <1>6, <1>8, <2>4, <2>5
    <3>4. Tells(h, q) => Taken(M2, q)
      BY <1>2, <1>8, <2>4, <3>1
    <3>5. M2.job[q] = M.job[q] \/ (M2.job[q] = "queued" /\ M.job[q] # "present" /\ Taken(M2, q))
      BY <1>2, <1>7, <1>8, <2>1, <2>4
    <3> QED BY <1>6, <2>4, <3>2, <3>3, <3>4, <3>5 DEF Handled
  <2>7. \A q \in Rows : Handled(machine, machine', cmds, cmds', mail, mail', h, q)
    BY <1>2, <2>6
  <2>8. mail' = Append(mail, h) /\ h \in Letters /\ UNCHANGED <<db, gateway, state, task, lane>>
    BY <1>1, <1>2, <2>1, <2>2, <2>3
  <2> HIDE DEF Handled, Placed, PlacedNext
  <2> QED BY <2>7, <2>8, MachineMoves
<1>9. CASE c.op # "dispatch"
  <2>1. \A q \in Rows : Taken(M2, q) <=> Taken(M, q)
    <3>1. CASE M2.ran = M.ran
      BY <3>1 DEF Taken
    <3>2. ASSUME NEW ok \in BOOLEAN, M2.ran = M.ran \cup {[cmd |-> c, ok |-> ok]}, NEW q \in Rows
          PROVE  Taken(M2, q) <=> Taken(M, q)
      <4>1. PICK e : e = [cmd |-> c, ok |-> ok]
        OBVIOUS
      <4>2. M2.ran = M.ran \cup {e} /\ e.cmd = c
        BY <3>2, <4>1
      <4>3. /\ Taken(M, q) => Taken(M2, q)
            /\ Taken(M2, q) => Taken(M, q) \/ (e.ok /\ e.cmd.op = "dispatch" /\ e.cmd.row = q)
        BY <4>2, RanTakes
      <4> HIDE DEF Taken
      <4> QED BY <1>9, <4>2, <4>3
    <3> HIDE DEF Taken
    <3> QED BY <1>2, <1>4, <1>5, <1>9, <3>1, <3>2
  <2>2. PICK h \in Letters :
          /\ m2 = mail \/ m2 = Append(mail, h)
          /\ h.kind \in {"snapshot", "withdrawn"} /\ \A q \in Rows : Tells(h, q) => Taken(M, q)
          /\ M2.job[r] = M.job[r] \/ (M.job[r] = "queued" /\ M2.job[r] = "none" /\ c.op = "cancel")
    <3>1. PICK s, n : s = Snapshot(machine) /\ n = Note("withdrawn", r)
      OBVIOUS
    <3>2. /\ n \in Letters /\ n.kind = "withdrawn" /\ \A q \in Rows : ~Tells(n, q)
      <4>1. n \in Letters /\ n.kind = "withdrawn"
        BY <1>3, <3>1, NoteOf
      <4> QED BY <4>1 DEF Tells
    <3>3. s \in Letters /\ s.kind = "snapshot" /\ \A q \in Rows : Tells(s, q) => Taken(M, q)
      BY <1>2, <1>3, <3>1, ListedTaken
    <3>4. \/ m2 = mail /\ M2.job[r] = M.job[r]
          \/ c.op = "cancel" /\ M.job[r] = "queued" /\ M2.job[r] = "none" /\ m2 = Append(mail, n)
          \/ m2 = Append(mail, s) /\ M2.job[r] = M.job[r]
      BY <1>1, <1>2, <1>9, <3>1
    <3> HIDE DEF Taken, Tells
    <3> QED BY <3>2, <3>3, <3>4
  <2>3. ASSUME NEW q \in Rows PROVE Handled(M, M2, cmds, c2, mail, m2, h, q)
    <3>1. Unheard(mail, m2, h, q)
      BY <2>2 DEF Unheard
    <3> HIDE DEF Taken, Wired, Cancels, Unheard, Tells
    <3>2. M2.job[q] = M.job[q] \/ (M2.job[q] = "none" /\ M.job[q] = "queued" /\ Cancels(cmds, q))
      BY <1>2, <1>6, <1>7, <2>2
    <3> QED BY <1>6, <2>1, <2>2, <3>1, <3>2 DEF Handled
  <2>4. \A q \in Rows : Handled(machine, machine', cmds, cmds', mail, mail', h, q)
    BY <1>2, <2>3
  <2>5. (mail' = mail \/ mail' = Append(mail, h)) /\ h \in Letters /\ UNCHANGED <<db, gateway, state, task, lane>>
    BY <1>1, <1>2, <2>2
  <2> HIDE DEF Handled, Placed, PlacedNext
  <2> QED BY <2>4, <2>5, MachineMoves
<1> QED BY <1>8, <1>9
LEMMA MovesPlaced ==
  ASSUME TypeInv, Placed, NEW r \in Rows, Arrive(r) \/ Release(r)
  PROVE  PlacedNext
<1>1. UNCHANGED <<db, gateway, state, task, lane, cmds>>
  BY DEF Arrive, Release, MachineOnly, leaderVars
<1>2. PICK M, M2, m2 : M = machine /\ M2 = machine' /\ m2 = mail'
  OBVIOUS
<1>3. M \in Machines /\ M.job \in Jobs /\ mail \in Seq(Letters)
  BY <1>2 DEF TypeInv, Machines
<1>4. \E kind \in {"arrived", "misread", "released"} :
        /\ m2 = Append(mail, Note(kind, r)) /\ M2.ran = M.ran /\ \A q \in Rows \ {r} : M2.job[q] = M.job[q]
        /\ \/ kind = "misread" /\ M2.job[r] = M.job[r]
           \/ kind = "arrived" /\ M.job[r] = "queued" /\ M2.job[r] = "present"
           \/ kind = "released" /\ M.job[r] = "present" /\ M2.job[r] = "none"
  <2>1. CASE Arrive(r) /\ r \in setting.misread \ machine.misread
    <3>1. m2 = Append(mail, Note("misread", r)) /\ M2 = [M EXCEPT !.misread = @ \cup {r}]
      BY <1>2, <2>1 DEF Arrive
    <3>2. M2.job = M.job /\ M2.ran = M.ran
      BY <1>3, <3>1 DEF Machines
    <3> QED BY <3>1, <3>2
  <2>2. CASE Arrive(r) /\ r \notin setting.misread \ machine.misread
    <3>1. m2 = Append(mail, Note("arrived", r)) /\ M.job[r] = "queued" /\ M2 = [M EXCEPT !.job[r] = "present"]
      BY <1>2, <2>2 DEF Arrive
    <3>2. M2.job = [M.job EXCEPT ![r] = "present"] /\ M2.ran = M.ran
      BY <1>3, <3>1 DEF Machines
    <3> QED BY <1>3, <3>1, <3>2 DEF Jobs
  <2>3. CASE Release(r)
    <3>1. m2 = Append(mail, Note("released", r)) /\ M.job[r] = "present" /\ M2 = [M EXCEPT !.job[r] = "none"]
      BY <1>2, <2>3 DEF Release
    <3>2. M2.job = [M.job EXCEPT ![r] = "none"] /\ M2.ran = M.ran
      BY <1>3, <3>1 DEF Machines
    <3> QED BY <1>3, <3>1, <3>2 DEF Jobs
  <2> QED BY <2>1, <2>2, <2>3
<1>5. PICK kind \in {"arrived", "misread", "released"} :
        /\ m2 = Append(mail, Note(kind, r)) /\ M2.ran = M.ran /\ \A q \in Rows \ {r} : M2.job[q] = M.job[q]
        /\ \/ kind = "misread" /\ M2.job[r] = M.job[r]
           \/ kind = "arrived" /\ M.job[r] = "queued" /\ M2.job[r] = "present"
           \/ kind = "released" /\ M.job[r] = "present" /\ M2.job[r] = "none"
  BY <1>4
<1>6. PICK h : h = Note(kind, r)
  OBVIOUS
<1>7. h \in Letters /\ h.kind = kind /\ h.row = r
  BY <1>6, NoteOf
<1>8. m2 = Append(mail, h) /\ m2 # mail
  <2>1. m2 = Append(mail, h)
    BY <1>5, <1>6
  <2>2. Len(m2) = Len(mail) + 1 /\ Len(mail) \in Nat
    BY <1>3, <1>7, <2>1, AppendProperties, LenProperties
  <2>3. m2 # mail
    <3>1. PICK n : n = Len(mail)
      OBVIOUS
    <3>2. n \in Nat /\ n # n + 1
      BY <2>2, <3>1
    <3> QED BY <2>2, <3>1, <3>2
  <2> QED BY <2>1, <2>3
<1>9. \A q \in Rows : Taken(M2, q) <=> Taken(M, q)
  BY <1>5 DEF Taken
<1>10. ASSUME NEW q \in Rows PROVE Handled(M, M2, cmds, cmds, mail, m2, h, q)
  <2>1. Tells(h, q) => Taken(M2, q)
    <3>1. Tells(h, q) => q = r /\ kind = "arrived"
      BY <1>5, <1>7 DEF Tells
    <3>2. M.job[r] = "queued" => Taken(M, r)
      <4>1. InPlace(r)
        BY DEF Placed
      <4> HIDE DEF Taken, Wired, Cancels, Knows, Says, Stays
      <4> QED BY <1>2, <4>1 DEF InPlace, WireOK
    <3> HIDE DEF Taken, Tells
    <3> QED BY <1>5, <1>9, <3>1, <3>2
  <2> HIDE DEF Taken, Wired, Cancels, Tells
  <2>2. CASE q = r
    BY <1>5, <1>7, <1>8, <1>9, <2>1, <2>2 DEF Handled, Unheard
  <2>3. CASE q # r
    BY <1>5, <1>7, <1>9, <2>1, <2>3 DEF Handled, Unheard
  <2> QED BY <2>2, <2>3
<1>11. \A q \in Rows : Handled(machine, machine', cmds, cmds', mail, mail', h, q)
  BY <1>1, <1>2, <1>10
<1>12. mail' = Append(mail, h) /\ h \in Letters
  BY <1>2, <1>7, <1>8
<1> HIDE DEF Handled, Placed, PlacedNext
<1> QED BY <1>1, <1>11, <1>12, MachineMoves
LEMMA BeatsPlaced ==
  ASSUME TypeInv, Placed, Beat \/ EndPeriod \/ UNCHANGED handoffVars
  PROVE  PlacedNext
<1>1. UNCHANGED <<db, gateway, state, task, lane, cmds>>
  BY DEF Beat, EndPeriod, MachineOnly, leaderVars, handoffVars
<1>2. PICK M, M2, m2, h : M = machine /\ M2 = machine' /\ m2 = mail' /\ h = Snapshot(machine)
  OBVIOUS
<1>3. M2.job = M.job /\ M2.ran = M.ran /\ (m2 = mail \/ m2 = Append(mail, h))
  <2>1. CASE EndPeriod \/ UNCHANGED handoffVars
    BY <1>2, <2>1 DEF EndPeriod, handoffVars
  <2>2. CASE Beat
    <3>1. M2 = Saying(M) /\ m2 = Append(mail, h) /\ M \in Machines
      BY <1>2, <2>2 DEF Beat, TypeInv
    <3>2. M2.job = M.job /\ M2.ran = M.ran
      BY <3>1 DEF Saying, Machines
    <3> QED BY <3>1, <3>2
  <2> QED BY <2>1, <2>2
<1>4. h \in Letters /\ h.kind = "snapshot" /\ \A q \in Rows : Tells(h, q) => Taken(M, q)
  BY <1>2, ListedTaken
<1>5. \A q \in Rows : Taken(M2, q) <=> Taken(M, q)
  BY <1>3 DEF Taken
<1>6. ASSUME NEW q \in Rows PROVE Handled(M, M2, cmds, cmds, mail, m2, h, q)
  <2> HIDE DEF Taken, Wired, Cancels, Tells
  <2> QED BY <1>3, <1>4, <1>5 DEF Handled, Unheard
<1>7. \A q \in Rows : Handled(machine, machine', cmds, cmds', mail, mail', h, q)
  BY <1>1, <1>2, <1>6
<1>8. (mail' = mail \/ mail' = Append(mail, h)) /\ h \in Letters
  BY <1>2, <1>3, <1>4
<1> HIDE DEF Handled, Placed, PlacedNext
<1> QED BY <1>1, <1>7, <1>8, MachineMoves

\* Over any crashes, late answers, periods and heartbeats; a restart loses the jobs.
ThereInv == HandoffInv /\ (~setting.busyTakeover /\ spent["restart"] = 0 => Placed)

LEMMA ThereBegins == HandoffInit => ThereInv
<1> SUFFICES ASSUME HandoffInit PROVE ThereInv
  OBVIOUS
<1>1. HandoffInv
  BY InvBegins
<1>2. PICK c, m, M : c = cmds /\ m = mail /\ M = machine
  OBVIOUS
<1>3. /\ DOMAIN c = {} /\ DOMAIN m = {} /\ gateway = "down" /\ M.ran = {}
      /\ \A l \in Lanes : lane[l].todo = <<>>
      /\ \A r \in Rows : M.job[r] = "none" /\ db[r].status = "none" /\ ~db[r].claimed /\ ~db[r].item
      /\ \A r \in Rows : state.row[r] = "unknown" /\ r \notin state.held /\ \A k \in Sends : task[<<r, k>>].pc = "idle"
  <2>1. c = <<>> /\ m = <<>> /\ gateway = "down" /\ \A l \in Lanes : lane[l].todo = <<>>
    BY <1>2 DEF HandoffInit, Idle
  <2>2. M.ran = {} /\ \A r \in Rows : M.job[r] = "none" /\ db[r].status = "none" /\ ~db[r].claimed /\ ~db[r].item
    BY <1>2 DEF HandoffInit
  <2>3. \A r \in Rows : state.row[r] = "unknown" /\ r \notin state.held /\ \A k \in Sends : task[<<r, k>>].pc = "idle"
    BY DEF HandoffInit, Blank, NoTask
  <2>4. DOMAIN <<>> = {}
    OBVIOUS
  <2> QED BY <2>1, <2>2, <2>3, <2>4
<1>4. ASSUME NEW r \in Rows PROVE InPlace(r)
  <2>1. ~Taken(M, r) /\ ~Wired(c, r) /\ ~Cancels(c, r) /\ ~Knows(m, r) /\ ~Stays(m, r)
    BY <1>3 DEF Taken, Wired, Cancels, Knows, Stays
  <2> HIDE DEF Taken, Wired, Cancels, Knows, Stays, Says
  <2>2. WireOK(db, M, c, m, r)
    BY <1>3, <2>1 DEF WireOK
  <2>3. ViewOK(db, M, c, m, gateway, state, task, r)
    BY <1>3, <2>1 DEF ViewOK
  <2> QED BY <1>2, <2>2, <2>3 DEF InPlace
<1>5. LanesAt(db, lane, mail, state)
  <2>1. PICK e : e = <<>>
    OBVIOUS
  <2>2. DOMAIN e = {} /\ \A l \in Lanes : lane[l].todo = e
    BY <1>3, <2>1
  <2>3. \A l \in Lanes : ActsAt(lane[l].todo, l, mail)
    BY <2>2 DEF ActsAt
  <2>4. lane["messages"].todo = <<>>
    BY <2>1, <2>2 DEF Lanes
  <2> QED BY <2>3, <2>4 DEF LanesAt
<1> QED BY <1>1, <1>4, <1>5 DEF ThereInv, Placed
LEMMA ThereStep ==
  ASSUME TypeInv, Placed, Kept, gateway # "down" => InStep(World, state, task, Todo, events, Landed),
         spent["restart"] = 0, spent'["restart"] = 0, [HandoffNext]_handoffVars
  PROVE  PlacedNext
<1>1. ~Spend("restart")
  BY SpendOf DEF FaultKinds
<1>2. DOMAIN task = TaskNames /\ DOMAIN Fitting = Happenings
  BY DEF TypeInv, Fitting, Happenings
<1>3. \A x \in TaskNames : task[x].pc # "idle" => gateway # "down"
  <2>1. gateway = "down" => task = [x \in TaskNames |-> NoTask]
    BY DEF TypeInv, DownOK
  <2> QED BY <2>1 DEF NoTask
<1>4. CASE GatewayStep
  <2>1. ASSUME NEW l \in Lanes, VerbLands(l) PROVE PlacedNext
    BY <2>1, LandsPlaced
  <2>2. ASSUME NEW l \in Lanes, VerbReturns(l) PROVE PlacedNext
    <3>1. gateway # "down"
      <4>1. lane[l].todo # <<>>
        BY <2>2 DEF VerbReturns
      <4> QED BY <4>1, AtWork
    <3> QED BY <2>2, <3>1, ReturnsPlaced
  <2>3. ASSUME NEW r \in Rows, NEW verb \in Happenings, OnEscalation(r, verb) PROVE PlacedNext
    <3>1. gateway # "down"
      BY <2>3 DEF OnEscalation
    <3> QED BY <2>3, <3>1, HearsPlaced
  <2>4. CASE TakeReply \/ TakeJob \/ TakeSnapshot
    <3>1. gateway # "down"
      BY <2>4 DEF TakeReply, TakeJob, TakeSnapshot, Reading
    <3> QED BY <2>4, <3>1, RepliesPlaced, JobsPlaced, SnapshotsPlaced
  <2>5. ASSUME NEW x \in TaskNames, TaskClaims(x) \/ TaskFails(x) PROVE PlacedNext
    BY <2>5, TasksPlaced
  <2>6. ASSUME NEW x \in TaskNames, TaskEnds(x) PROVE PlacedNext
    <3>1. gateway # "down"
      BY <1>3, <2>6 DEF TaskEnds
    <3> QED BY <2>6, <3>1, EndsPlaced
  <2> QED BY <1>2, <1>4, <2>1, <2>2, <2>3, <2>4, <2>5, <2>6 DEF GatewayStep
<1>5. CASE TakeOver
  BY <1>5, TakeOverPlaced
<1>6. CASE ReadBack
  <2>1. gateway # "down"
    BY <1>6 DEF ReadBack
  <2> QED BY <1>6, <2>1, ReadBackPlaced
<1>7. CASE HostStep
  <2>1. PICK r \in Rows : Park(r) \/ Withdraw(r)
    BY <1>7 DEF HostStep
  <2> QED BY <2>1, HostsPlaced
<1>8. CASE UnitMoves
  <2>1. PICK r \in Rows : Arrive(r) \/ Release(r)
    BY <1>8 DEF UnitMoves
  <2> QED BY <2>1, MovesPlaced
<1>9. CASE RunCommand
  BY <1>9, CommandPlaced
<1>10. CASE FaultStep
  <2>1. ASSUME NEW x \in TaskNames, ReplyLate(x) \/ StatusLate(x) PROVE PlacedNext
    <3>1. gateway # "down"
      BY <1>3, <2>1 DEF ReplyLate, StatusLate
    <3> QED BY <2>1, <3>1, LatePlaced
  <2>2. CASE Crash
    BY <2>2, CrashPlaced
  <2>3. CASE Beat \/ EndPeriod
    BY <2>3, BeatsPlaced
  <2>4. ~Restart
    BY <1>1 DEF Restart
  <2> QED BY <1>2, <1>10, <2>1, <2>2, <2>3, <2>4 DEF FaultStep
<1>11. CASE UNCHANGED handoffVars
  BY <1>11, BeatsPlaced
<1> QED BY <1>4, <1>5, <1>6, <1>7, <1>8, <1>9, <1>10, <1>11 DEF HandoffNext, Takeover
LEMMA ThereKept == ThereInv /\ [HandoffNext]_handoffVars => ThereInv'
<1> SUFFICES ASSUME ThereInv, [HandoffNext]_handoffVars PROVE ThereInv'
  OBVIOUS
<1>1. HandoffInv /\ HandoffInv'
  BY InvKept DEF ThereInv
<1>2. TypeInv
  BY <1>1 DEF HandoffInv
<1>3. ASSUME ~setting'.busyTakeover, spent'["restart"] = 0 PROVE Placed'
  <2>1. setting' = setting /\ (UNCHANGED spent \/ Late \/ \E g \in FaultKinds : Spend(g))
    BY StepSpends DEF handoffVars
  <2>2. spent["restart"] = 0 /\ ~setting.busyTakeover
    BY <1>2, <1>3, <2>1, SpentGrows DEF FaultKinds
  <2>3. Placed
    BY <2>2 DEF ThereInv
  <2>4. Kept /\ (gateway # "down" => InStep(World, state, task, Todo, events, Landed))
    BY <1>1, <2>2 DEF HandoffInv, Orderly
  <2>5. PlacedNext
    BY <1>2, <1>3, <2>2, <2>3, <2>4, ThereStep
  <2> QED BY <2>5, PlacedThen
<1> QED BY <1>1, <1>3 DEF ThereInv

\* For any number of rows and any faults but a machine's restart, as long as hosts wait
\* for a gateway: when nothing is under way, every unit the gateway counts as present is
\* there, and every job it counts as accepted is queued (state.ts, plan-machine.ts: what
\* the machine did since is in the mail, which is kept until it is acked).
THEOREM UnitsAreThere == HandoffSpec => [](~setting.busyTakeover /\ Never({"restart"}) => AcceptedIsThere)
<1>1. ThereInv => (~setting.busyTakeover /\ Never({"restart"}) => AcceptedIsThere)
  <2> SUFFICES ASSUME ThereInv, ~setting.busyTakeover, Never({"restart"}), Quiet, NEW r \in Rows
               PROVE  /\ r \in state.held => machine.job[r] = "present"
                      /\ state.row[r] = "accepted" => machine.job[r] = "queued"
    BY DEF AcceptedIsThere
  <2>1. spent["restart"] = 0
    BY DEF Never
  <2>2. TypeInv /\ InPlace(r) /\ InStep(World, state, task, Todo, events, Landed) /\ gateway # "down"
    BY <2>1 DEF ThereInv, Placed, HandoffInv, Orderly, Quiet
  <2>3. ~Says(mail, "arrived", r) /\ ~Says(mail, "released", r)
    <3>1. PICK m : m = mail
      OBVIOUS
    <3>2. m = <<>>
      BY <3>1 DEF Quiet
    <3>3. DOMAIN m = {}
      BY <3>2
    <3> QED BY <3>1, <3>3 DEF Says
  <2>4. IsOpen(state, r) => db[r].status = "pending"
    BY <2>2, NothingTold
  <2>5. state.row[r] = "accepted" => Taken(machine, r) /\ db[r].status = "pending"
    <3> HIDE DEF Taken, Wired, Says
    <3> QED BY <2>2, <2>4 DEF InPlace, ViewOK, IsOpen, Open
  <2> HIDE DEF Taken, Wired, Cancels, Knows, Stays, Says
  <2> QED BY <2>2, <2>3, <2>5 DEF InPlace, WireOK, ViewOK
<1> QED BY <1>1, ThereBegins, ThereKept, PTL DEF HandoffSpec


-----------------------------------------------------------------------------
(* No job strays: of every row that ended the machine is through with its     *)
(* dispatch, or it was never dispatched, or a cancel of it is coming.         *)

Ran(M, op, r) == \E e \in M.ran : e.cmd.op = op /\ e.cmd.row = r
Issued(c, M, r) == Wired(c, r) \/ Ran(M, "dispatch", r)
\* A dispatch that ran and is queued no more is not queued again.
Through(M, r) == Ran(M, "dispatch", r) /\ M.job[r] # "queued"
TaskOf(t, r) == t[<<r, "first">>]
\* Every command that dispatches a row is the same command.
AtPeriod(c, M, t, r, p) ==
  /\ \A i \in DOMAIN c : c[i].op = "dispatch" /\ c[i].row = r => c[i].of = p
  /\ \A e \in M.ran : e.cmd.op = "dispatch" /\ e.cmd.row = r => e.cmd.of = p
  /\ TaskOf(t, r).pc = "reply" => TaskOf(t, r).of = p
Within(list, what, r) == \E i \in DOMAIN list : list[i].do = what /\ list[i].row = r
Acting(td, what, r) == \E l \in Lanes : Within(td[l], what, r)
\* A cancel is behind every dispatch of its row.
Behind(c, r) == \A i, j \in DOMAIN c :
  c[i].op = "cancel" /\ c[i].row = r /\ c[j].op = "dispatch" /\ c[j].row = r => j < i

\* A row that was not dispatched has no command, one under way has.
AskedOK(c, M, s, t, td, r) ==
  /\ \E p : AtPeriod(c, M, t, r, p)
  /\ s.row[r] \in {"unknown", "waiting"} \/ Acting(td, "dispatch", r) \/ r \in setting.unfit => ~Issued(c, M, r)
  /\ TaskOf(t, r).pc # "idle" \/ s.row[r] = "accepted" => Issued(c, M, r)
  /\ s.row[r] = "pending" => Issued(c, M, r) \/ Acting(td, "dispatch", r)
  /\ Acting(td, "refuse", r) => s.row[r] \in {"refused", "closed"}
\* What tells that the machine is through with a dispatch, or ran it.
ThroughOK(rec, M, m, s, t, td, late, r) ==
  /\ \A kind \in {"arrived", "released", "withdrawn"} : Says(m, kind, r) => Through(M, r)
  /\ Refuses(m, r) \/ rec[r].item \/ rec[r].status = "received" \/ r \in s.held => Through(M, r)
  /\ Acting(td, "accumulate", r) \/ Acting(td, "receive", r) => Through(M, r)
  /\ M.job[r] # "none" \/ Says(m, "reply", r) \/ r \in M.misread => Ran(M, "dispatch", r)
  /\ Says(m, "misread", r) => r \in M.misread
  /\ TaskOf(t, r).pc \in {"fail", "failed"} /\ (TaskOf(t, r).refused \/ ~late) => Through(M, r)
  /\ s.row[r] = "refused" /\ r \notin setting.unfit /\ ~late => Through(M, r)
\* Where NoStrayJob says nothing of a row.
Excused(rec, M, late, r) ==
  \/ late /\ (rec[r].status = "withdrawn" \/ r \in M.misread)
  \/ setting.unfit # {} /\ rec[r].status = "withdrawn"
\* The first cancel of a row comes after its dispatch; a failure brings its cancel along.
CancelOK(rec, M, c, t, td, r) ==
  /\ ~Ran(M, "cancel", r) /\ Behind(c, r)
  /\ Cancels(c, r) \/ Acting(td, "cancel", r) =>
       Issued(c, M, r) /\ (TaskOf(t, r).pc = "reply" => rec[r].status = "withdrawn" \/ r \in M.misread)
  /\ Acting(td, "fail", r) => Acting(td, "cancel", r) \/ Cancels(c, r)
Covered(rec, M, c, s, t, td, ev, r) ==
  \/ ~Issued(c, M, r) /\ ~Acting(td, "dispatch", r) /\ s.row[r] \notin {"waiting", "pending", "accepted"}
  \/ Cancels(c, r) \/ Acting(td, "cancel", r)
  \/ <<r, "ended">> \in ev /\ rec[r].status = "withdrawn" /\ IsOpen(s, r)
  \/ TaskOf(t, r).pc = "failed" /\ TaskOf(t, r).done /\ ~TaskOf(t, r).refused
StrayOK(rec, M, c, m, s, t, td, ev, late, r) ==
  /\ AskedOK(c, M, s, t, td, r)
  /\ ThroughOK(rec, M, m, s, t, td, late, r)
  /\ \/ Excused(rec, M, late, r) \/ Through(M, r)
     \/ CancelOK(rec, M, c, t, td, r) /\ (Ended(rec, r) => Covered(rec, M, c, s, t, td, ev, r))
\* A dispatch waits behind a refusal only.
Blocked(td) == \A l \in Lanes : \A i \in DOMAIN td[l] : td[l][i].do = "dispatch" => setting.unfit # {}

LEMMA ListSplit ==
  ASSUME TypeInv, NEW list \in Seq(Acts), NEW r \in Rows
  PROVE  /\ \A what : Within(Rest(list), what, r) => Within(list, what, r)
         /\ Within(list, "dispatch", r) => Within(Rest(list), "dispatch", r) \/ Wired(Published(list), r)
         /\ Within(list, "cancel", r) => Within(Rest(list), "cancel", r) \/ Cancels(Published(list), r)
         /\ Wired(Published(list), r) => Within(list, "dispatch", r)
         /\ Cancels(Published(list), r) => Within(list, "cancel", r)
         /\ \A i \in DOMAIN Published(list) : Published(list)[i].op = "dispatch" => Published(list)[i].of = period
         /\ r \in Starts(list) <=> Wired(Published(list), r)
<1>1. PICK u, p, rest, n : u = Upto(list) /\ p = Published(list) /\ rest = Rest(list) /\ n = Len(list)
  OBVIOUS
<1>2. /\ n \in Nat /\ DOMAIN list = 1..n /\ u \in 0..n /\ \A i \in 1..u : list[i].do \notin Verbs
      /\ \A i \in DOMAIN list : list[i] \in Acts
  BY <1>1, Cut, ElementOfSeq
<1>3. /\ DOMAIN rest = 1..(n - u) /\ \A i \in DOMAIN rest : u + i \in DOMAIN list /\ rest[i] = list[u + i]
  BY <1>1, RestOf
<1>4. DOMAIN p = 1..u /\ \A i \in 1..u :
        p[i] = IF list[i].do = "cancel" THEN Cancel(list[i].row) ELSE Command("dispatch", list[i].row, period)
  BY <1>1 DEF Published
<1>5. \A i \in 1..u : /\ i \in DOMAIN list /\ p[i].row = list[i].row
                      /\ p[i].op = "dispatch" <=> list[i].do = "dispatch"
                      /\ p[i].op = "cancel" <=> list[i].do = "cancel"
                      /\ p[i].op = "dispatch" => p[i].of = period
  <2>1. \A i \in 1..u : i \in DOMAIN list /\ list[i].do \in {"cancel", "dispatch"}
    BY <1>2 DEF Acts
  <2> QED BY <1>4, <2>1 DEF Cancel, Command
<1>6. ASSUME NEW i \in DOMAIN list PROVE i \in 1..u \/ (\E j \in DOMAIN rest : rest[j] = list[i])
  <2>1. CASE i > u
    <3>1. i - u \in 1..(n - u) /\ u + (i - u) = i
      BY <1>2, <2>1
    <3> QED BY <1>3, <3>1
  <2> QED BY <1>2, <2>1
<1>7. \A what : Within(rest, what, r) => Within(list, what, r)
  BY <1>3 DEF Within
<1>8. /\ Within(list, "dispatch", r) => Within(rest, "dispatch", r) \/ Wired(p, r)
      /\ Within(list, "cancel", r) => Within(rest, "cancel", r) \/ Cancels(p, r)
  BY <1>4, <1>5, <1>6 DEF Within, Wired, Cancels
<1>9. (Wired(p, r) => Within(list, "dispatch", r)) /\ (Cancels(p, r) => Within(list, "cancel", r))
  BY <1>4, <1>5 DEF Within, Wired, Cancels
<1>10. r \in Starts(list) <=> Wired(p, r)
  <2>1. Starts(list) = {list[i].row : i \in {j \in 1..u : list[j].do = "dispatch"}}
    BY <1>1 DEF Starts
  <2> QED BY <1>4, <1>5, <2>1 DEF Wired
<1> QED BY <1>1, <1>4, <1>5, <1>7, <1>8, <1>9, <1>10
LEMMA WireJoin ==
  ASSUME NEW c \in Seq(Cmds), NEW p \in Seq(Cmds), NEW r \in Rows
  PROVE  /\ Wired(c \o p, r) <=> Wired(c, r) \/ Wired(p, r)
         /\ Cancels(c \o p, r) <=> Cancels(c, r) \/ Cancels(p, r)
         /\ \A i \in DOMAIN (c \o p) : (\E j \in DOMAIN c : (c \o p)[i] = c[j]) \/ (\E j \in DOMAIN p : (c \o p)[i] = p[j])
         /\ Behind(c, r) /\ ~Wired(p, r) => Behind(c \o p, r)
<1>1. PICK n, k, b : n = Len(c) /\ k = Len(p) /\ b = c \o p
  OBVIOUS
<1>2. n \in Nat /\ k \in Nat /\ DOMAIN c = 1..n /\ DOMAIN p = 1..k
  BY <1>1, LenProperties
<1>3. DOMAIN b = 1..(n + k) /\ \A i \in 1..(n + k) : b[i] = IF i <= n THEN c[i] ELSE p[i - n]
  <2>1. b \in Seq(Cmds) /\ Len(b) = n + k /\ \A i \in 1..(n + k) : b[i] = IF i <= n THEN c[i] ELSE p[i - n]
    BY <1>1, ConcatProperties
  <2>2. DOMAIN b = 1..Len(b)
    BY <2>1, LenProperties
  <2> QED BY <2>1, <2>2
<1>4. \A i \in DOMAIN b : (i \in DOMAIN c /\ b[i] = c[i]) \/ (i > n /\ i - n \in DOMAIN p /\ b[i] = p[i - n])
  BY <1>2, <1>3
<1>5. /\ \A i \in DOMAIN c : i \in DOMAIN b /\ b[i] = c[i] /\ i <= n
      /\ \A i \in DOMAIN p : n + i \in DOMAIN b /\ b[n + i] = p[i]
  <2>1. \A i \in 1..k : n + i \in 1..(n + k) /\ ~(n + i <= n) /\ (n + i) - n = i
    BY <1>2
  <2> QED BY <1>2, <1>3, <2>1
<1>6. Wired(b, r) <=> Wired(c, r) \/ Wired(p, r)
  BY <1>4, <1>5 DEF Wired
<1>7. Cancels(b, r) <=> Cancels(c, r) \/ Cancels(p, r)
  BY <1>4, <1>5 DEF Cancels
<1>8. ASSUME Behind(c, r), ~Wired(p, r) PROVE Behind(b, r)
  <2> SUFFICES ASSUME NEW i \in DOMAIN b, NEW j \in DOMAIN b,
                      b[i].op = "cancel", b[i].row = r, b[j].op = "dispatch", b[j].row = r
               PROVE  j < i
    BY DEF Behind
  <2>1. j \in DOMAIN c /\ b[j] = c[j] /\ j <= n /\ j \in Nat
    BY <1>2, <1>4, <1>8 DEF Wired
  <2>2. CASE i \in DOMAIN c
    BY <1>5, <1>8, <2>1, <2>2 DEF Behind
  <2>3. CASE i \notin DOMAIN c
    BY <1>2, <1>3, <2>1, <2>3
  <2> QED BY <2>2, <2>3
<1> QED BY <1>1, <1>4, <1>6, <1>7, <1>8

LEMMA CmdAt ==
  ASSUME NEW c \in Seq(Cmds)
  PROVE  \A i \in DOMAIN c : c[i] \in Cmds /\ c[i].row \in Rows
<1>1. DOMAIN c = 1..Len(c)
  BY LenProperties
<1>2. ASSUME NEW i \in DOMAIN c PROVE c[i] \in Cmds
  BY <1>1, <1>2, ElementOfSeq
<1> QED BY <1>2 DEF Cmds
LEMMA SortedAll ==
  ASSUME NEW R \in SUBSET Rows, NEW r \in R
  PROVE  \E i \in 1..Cardinality(R) : Sorted(R)[i] = r
<1>1. R \subseteq Nat /\ IsFiniteSet(R) /\ Cardinality(R) \in Nat
  BY RowsFinite
<1>2. PICK f, n : f = Sorted(R) /\ n = Cardinality(R)
  OBVIOUS
<1>3. f \in [1..n -> R] /\ (\A i, j \in 1..n : i < j => f[i] < f[j]) /\ n \in Nat
  BY <1>1, <1>2, SortedList
<1>4. \A i, j \in 1..n : f[i] = f[j] => i = j
  <2> SUFFICES ASSUME NEW i \in 1..n, NEW j \in 1..n, f[i] = f[j], i # j PROVE FALSE
    OBVIOUS
  <2>1. i < j \/ j < i
    BY <1>3
  <2>2. f[i] \in Nat /\ f[j] \in Nat
    BY <1>1, <1>3
  <2>3. f[i] < f[j] \/ f[j] < f[i]
    BY <1>3, <2>1
  <2> QED BY <2>2, <2>3
<1>5. f \in Injection(1..n, R)
  BY <1>3, <1>4 DEF Injection, IsInjective
<1>6. Cardinality(1..n) = n
  <2>1. 1 \in Int /\ n \in Int /\ (1 <= n => n - 1 + 1 = n) /\ (~(1 <= n) => n = 0)
    BY <1>3
  <2> QED BY <2>1, FS_Interval
<1>7. f \in Surjection(1..n, R)
  BY <1>1, <1>2, <1>5, <1>6, FS_Injection
<1>8. \E i \in 1..n : f[i] = r
  BY <1>7 DEF Surjection
<1> QED BY <1>2, <1>8

\* What a list that is performed does to a row: q is what it publishes, n, u and new
\* are the picture, the tasks and the list that is left.
Effect(s, t, list, q, n, u, new, r) ==
  /\ Wired(q, r) => /\ TaskOf(u, r).pc = "reply" /\ TaskOf(u, r).of = period
                    /\ Within(list, "dispatch", r) \/ s.row[r] = "waiting"
  /\ ~Wired(q, r) => TaskOf(u, r) = TaskOf(t, r)
  /\ Cancels(q, r) => Within(list, "cancel", r)
  /\ Within(list, "cancel", r) => Cancels(q, r) \/ Within(new, "cancel", r)
  /\ \A what : Within(new, what, r) =>
       \/ Within(list, what, r)
       \/ s.row[r] = "waiting" /\ (what = "dispatch" \/ (what = "refuse" /\ n.row[r] = "refused"))
  /\ Within(list, "dispatch", r) \/ (s.row[r] = "waiting" /\ n.row[r] = "pending") => Wired(q, r) \/ Within(new, "dispatch", r)
  /\ \/ n.row[r] = s.row[r]
     \/ s.row[r] = "waiting" /\ (n.row[r] = "pending" \/ (n.row[r] = "refused" /\ r \in setting.unfit))
LEMMA BeginsOne ==
  ASSUME TypeInv, NEW list \in Seq(Acts), NEW t \in [TaskNames -> Tasks], NEW r \in Rows
  PROVE  /\ Wired(Published(list), r) => TaskOf(Begun(t, list), r).pc = "reply" /\ TaskOf(Begun(t, list), r).of = period
         /\ ~Wired(Published(list), r) => TaskOf(Begun(t, list), r) = TaskOf(t, r)
<1>1. r \in Starts(list) <=> Wired(Published(list), r)
  BY ListSplit
<1>2. PICK w : w = Wired(Published(list), r)
  OBVIOUS
<1>3. r \in Starts(list) <=> w
  BY <1>1, <1>2
<1>4. Begun(t, list)[<<r, "first">>] = IF r \in Starts(list) THEN Asking(FALSE) ELSE t[<<r, "first">>]
  <2>1. <<r, "first">> \in TaskNames /\ <<r, "first">>[1] = r /\ <<r, "first">>[2] = "first"
    BY DEF TaskNames, Sends
  <2>2. \A x \in TaskNames : Begun(t, list)[x] = IF x[2] = "first" /\ x[1] \in Starts(list) THEN Asking(FALSE) ELSE t[x]
    BY BegunOf
  <2> QED BY <2>1, <2>2
<1>5. Asking(FALSE).pc = "reply" /\ Asking(FALSE).of = period
  BY DEF Asking, NoTask
<1>6. (w => TaskOf(Begun(t, list), r).pc = "reply" /\ TaskOf(Begun(t, list), r).of = period)
      /\ (~w => TaskOf(Begun(t, list), r) = TaskOf(t, r))
  BY <1>3, <1>4, <1>5 DEF TaskOf
<1> QED BY <1>2, <1>6
LEMMA PerformTells ==
  ASSUME TypeInv, NEW l \in Lanes, NEW s \in Pictures, NEW t \in [TaskNames -> Tasks],
         NEW list \in Seq(Acts), NEW paced \in BOOLEAN,
         Perform(l, s, t, <<>>, list, paced), l = "messages" => mail # <<>>
  PROVE  /\ \E q \in Seq(Cmds) :
              /\ cmds' = cmds \o q
              /\ \A i \in DOMAIN q : q[i].op = "dispatch" => q[i].of = period
              /\ \A r \in Rows : Effect(s, t, list, q, state', task', Todo'[l], r)
         /\ state'.held = s.held /\ Todo' = [Todo EXCEPT ![l] = Todo'[l]]
         /\ mail' = mail \/ (mail # <<>> /\ mail' = Tail(mail))
<1>0. PICK e : e = <<>>
  OBVIOUS
<1>1. e \in Seq(Cmds) /\ Perform(l, s, t, e, list, paced)
  BY <1>0, EmptySeq
<1>2. /\ Actions(Goes(s)) \in Seq(Acts) /\ Goes(s) \subseteq Rows
      /\ \/ /\ state' = s /\ task' = Begun(t, list) /\ cmds' = cmds \o e \o Published(list)
            /\ Todo' = [Todo EXCEPT ![l] = Rest(list)]
         \/ /\ Rest(list) = <<>>
            /\ state' = Admit(s, Goes(s)) /\ task' = Begun(Begun(t, list), Actions(Goes(s)))
            /\ cmds' = cmds \o e \o Published(list) \o Published(Actions(Goes(s)))
            /\ Todo' = [Todo EXCEPT ![l] = Rest(Actions(Goes(s)))]
      /\ mail' = IF l = "messages" /\ Todo'[l] = <<>> THEN Tail(mail) ELSE mail
  BY <1>1, Performs, SMTT(30)
<1>3. PICK n, u, c3, td : n = state' /\ u = task' /\ c3 = cmds' /\ td = Todo'
  OBVIOUS
<1>4. PICK rest, p, R, more, q, b :
        /\ rest = Rest(list) /\ p = Published(list) /\ R = Goes(s) /\ more = Actions(R) /\ q = Published(more)
        /\ b = Begun(t, list)
  OBVIOUS
<1>5. /\ p \in Seq(Cmds) /\ q \in Seq(Cmds) /\ more \in Seq(Acts) /\ R \in SUBSET Rows /\ cmds \in Seq(Cmds)
      /\ p \o q \in Seq(Cmds) /\ b \in [TaskNames -> Tasks]
  <2>1. cmds \in Seq(Cmds)
    BY DEF TypeInv
  <2>2. more \in Seq(Acts) /\ R \in SUBSET Rows
    BY <1>2, <1>4
  <2>3. q \in Seq(Cmds)
    BY <1>4, <2>2, PublishedOf
  <2>4. p \in Seq(Cmds)
    BY <1>4, PublishedOf
  <2>5. b \in [TaskNames -> Tasks]
    BY <1>4, BegunOf
  <2> QED BY <2>1, <2>2, <2>3, <2>4, <2>5, ConcatProperties
<1>6. cmds \o e = cmds
  BY <1>0, <1>5, ConcatEmptySeq
<1>7. \A r \in Rows :
        /\ \A what : Within(rest, what, r) => Within(list, what, r)
        /\ Within(list, "dispatch", r) => Within(rest, "dispatch", r) \/ Wired(p, r)
        /\ Within(list, "cancel", r) => Within(rest, "cancel", r) \/ Cancels(p, r)
        /\ Wired(p, r) => Within(list, "dispatch", r)
        /\ Cancels(p, r) => Within(list, "cancel", r)
        /\ Wired(p, r) => TaskOf(b, r).pc = "reply" /\ TaskOf(b, r).of = period
        /\ ~Wired(p, r) => TaskOf(b, r) = TaskOf(t, r)
  <2> SUFFICES ASSUME NEW r \in Rows
               PROVE  /\ \A what : Within(rest, what, r) => Within(list, what, r)
                      /\ Within(list, "dispatch", r) => Within(rest, "dispatch", r) \/ Wired(p, r)
                      /\ Within(list, "cancel", r) => Within(rest, "cancel", r) \/ Cancels(p, r)
                      /\ Wired(p, r) => Within(list, "dispatch", r)
                      /\ Cancels(p, r) => Within(list, "cancel", r)
                      /\ Wired(p, r) => TaskOf(b, r).pc = "reply" /\ TaskOf(b, r).of = period
                      /\ ~Wired(p, r) => TaskOf(b, r) = TaskOf(t, r)
    OBVIOUS
  <2>1. /\ \A what : Within(Rest(list), what, r) => Within(list, what, r)
        /\ Within(list, "dispatch", r) => Within(Rest(list), "dispatch", r) \/ Wired(Published(list), r)
        /\ Within(list, "cancel", r) => Within(Rest(list), "cancel", r) \/ Cancels(Published(list), r)
        /\ Wired(Published(list), r) => Within(list, "dispatch", r)
        /\ Cancels(Published(list), r) => Within(list, "cancel", r)
    BY ListSplit
  <2>2. /\ Wired(Published(list), r) => TaskOf(Begun(t, list), r).pc = "reply" /\ TaskOf(Begun(t, list), r).of = period
        /\ ~Wired(Published(list), r) => TaskOf(Begun(t, list), r) = TaskOf(t, r)
    BY BeginsOne
  <2> HIDE DEF Within, Wired, Cancels, TaskOf
  <2> QED BY <1>4, <2>1, <2>2
<1>8. \A i \in DOMAIN p : p[i].op = "dispatch" => p[i].of = period
  <2>1. ASSUME NEW r \in Rows PROVE \A i \in DOMAIN Published(list) : Published(list)[i].op = "dispatch" => Published(list)[i].of = period
    BY ListSplit
  <2>2. ASSUME NEW i \in DOMAIN p PROVE p[i].row \in Rows
    BY <1>5, <2>2, CmdAt
  <2> QED BY <1>4, <2>1, <2>2
<1>9. l \in DOMAIN Todo /\ td = [Todo EXCEPT ![l] = td[l]]
  <2>1. DOMAIN Todo = Lanes
    BY DEF Todo
  <2> QED BY <1>2, <1>3, <2>1
<1>10. mail' = mail \/ (mail # <<>> /\ mail' = Tail(mail))
  BY <1>2
<1>11. CASE state' = s /\ task' = Begun(t, list) /\ cmds' = cmds \o e \o Published(list) /\ Todo' = [Todo EXCEPT ![l] = Rest(list)]
  <2>1. n = s /\ u = b /\ c3 = cmds \o p /\ td[l] = rest
    BY <1>3, <1>4, <1>6, <1>9, <1>11
  <2>2. ASSUME NEW r \in Rows PROVE Effect(s, t, list, p, n, u, td[l], r)
    BY <1>7, <2>1, <2>2 DEF Effect
  <2> QED BY <1>3, <1>5, <1>8, <1>9, <1>10, <2>1, <2>2
<1>12. CASE /\ Rest(list) = <<>>
            /\ state' = Admit(s, Goes(s)) /\ task' = Begun(Begun(t, list), Actions(Goes(s)))
            /\ cmds' = cmds \o e \o Published(list) \o Published(Actions(Goes(s)))
            /\ Todo' = [Todo EXCEPT ![l] = Rest(Actions(Goes(s)))]
  <2>1. n = Admit(s, R) /\ u = Begun(b, more) /\ c3 = (cmds \o p) \o q /\ td[l] = Rest(more) /\ rest = <<>>
    BY <1>3, <1>4, <1>6, <1>9, <1>12
  <2>2. PICK left : left = Rest(more)
    OBVIOUS
  <2>3. /\ n.held = s.held
        /\ \A r \in Rows : n.row[r] = IF r \notin R THEN s.row[r] ELSE IF r \in setting.unfit THEN "refused" ELSE "pending"
    BY <1>5, <2>1, AdmitOf
  <2>4. \A r \in R : s.row[r] = "waiting"
    BY <1>4 DEF Goes, Waiting
  <2>5. c3 = cmds \o (p \o q)
    BY <1>5, <2>1, ConcatAssociative
  <2>6. \A r \in Rows :
          /\ \A what : Within(left, what, r) => Within(more, what, r)
          /\ Within(more, "dispatch", r) => Within(left, "dispatch", r) \/ Wired(q, r)
          /\ Wired(q, r) => Within(more, "dispatch", r)
          /\ Cancels(q, r) => Within(more, "cancel", r)
          /\ Wired(q, r) => TaskOf(u, r).pc = "reply" /\ TaskOf(u, r).of = period
          /\ ~Wired(q, r) => TaskOf(u, r) = TaskOf(b, r)
    <3> SUFFICES ASSUME NEW r \in Rows
                 PROVE  /\ \A what : Within(left, what, r) => Within(more, what, r)
                        /\ Within(more, "dispatch", r) => Within(left, "dispatch", r) \/ Wired(q, r)
                        /\ Wired(q, r) => Within(more, "dispatch", r)
                        /\ Cancels(q, r) => Within(more, "cancel", r)
                        /\ Wired(q, r) => TaskOf(u, r).pc = "reply" /\ TaskOf(u, r).of = period
                        /\ ~Wired(q, r) => TaskOf(u, r) = TaskOf(b, r)
      OBVIOUS
    <3>1. /\ \A what : Within(Rest(more), what, r) => Within(more, what, r)
          /\ Within(more, "dispatch", r) => Within(Rest(more), "dispatch", r) \/ Wired(Published(more), r)
          /\ Wired(Published(more), r) => Within(more, "dispatch", r)
          /\ Cancels(Published(more), r) => Within(more, "cancel", r)
      BY <1>5, ListSplit
    <3>2. /\ Wired(Published(more), r) => TaskOf(Begun(b, more), r).pc = "reply" /\ TaskOf(Begun(b, more), r).of = period
          /\ ~Wired(Published(more), r) => TaskOf(Begun(b, more), r) = TaskOf(b, r)
      BY <1>5, BeginsOne
    <3> HIDE DEF Within, Wired, Cancels, TaskOf
    <3> QED BY <1>4, <2>1, <2>2, <3>1, <3>2
  <2>7. \A r \in Rows :
          /\ \A what : Within(more, what, r) => r \in R /\ what = IF r \in setting.unfit THEN "refuse" ELSE "dispatch"
          /\ r \in R /\ r \notin setting.unfit => Within(more, "dispatch", r)
    <3>1. /\ DOMAIN more = 1..Cardinality(R)
          /\ \A i \in DOMAIN more :
               /\ more[i].row \in R
               /\ more[i].do = IF more[i].row \in setting.unfit THEN "refuse" ELSE "dispatch"
      <4>1. /\ DOMAIN Actions(R) = 1..Cardinality(R)
            /\ \A i \in DOMAIN Actions(R) :
                 /\ Actions(R)[i].row \in R
                 /\ Actions(R)[i].do = IF Actions(R)[i].row \in setting.unfit THEN "refuse" ELSE "dispatch"
        BY <1>5, ActionsOf
      <4> QED BY <1>4, <4>1
    <3>2. ASSUME NEW r \in R PROVE \E i \in DOMAIN more : more[i].row = r
      <4>1. PICK f : f = Sorted(R)
        OBVIOUS
      <4>2. \E i \in 1..Cardinality(R) : Sorted(R)[i] = r
        BY <1>5, SortedAll
      <4>3. PICK i \in 1..Cardinality(R) : f[i] = r
        BY <4>1, <4>2
      <4>4. more[i].row = f[i]
        BY <1>4, <4>1, <4>3 DEF Actions, Do
      <4> QED BY <3>1, <4>3, <4>4
    <3> QED BY <3>1, <3>2 DEF Within
  <2>8. ~(\E i \in DOMAIN rest : TRUE)
    BY <2>1
  <2>9. \A r \in Rows : \A what : ~Within(rest, what, r)
    BY <2>8 DEF Within
  <2>10. \A r \in Rows : (Wired(p \o q, r) <=> Wired(p, r) \/ Wired(q, r)) /\ (Cancels(p \o q, r) <=> Cancels(p, r) \/ Cancels(q, r))
    BY <1>5, WireJoin
  <2>11. ASSUME NEW r \in Rows PROVE Effect(s, t, list, p \o q, n, u, left, r)
    <3> HIDE DEF Within, Wired, Cancels, TaskOf
    <3>1. PICK d : d = p \o q
      OBVIOUS
    <3>2. (Wired(d, r) <=> Wired(p, r) \/ Wired(q, r)) /\ (Cancels(d, r) <=> Cancels(p, r) \/ Cancels(q, r))
      BY <2>10, <3>1
    <3>3. Effect(s, t, list, d, n, u, left, r)
      BY <1>7, <2>3, <2>4, <2>6, <2>7, <2>9, <3>2 DEF Effect
    <3> QED BY <3>1, <3>3
  <2>12. \A i \in DOMAIN (p \o q) : (p \o q)[i].op = "dispatch" => (p \o q)[i].of = period
    <3>1. \A i \in DOMAIN q : q[i].op = "dispatch" => q[i].of = period
      <4>1. ASSUME NEW r \in Rows PROVE \A i \in DOMAIN Published(more) : Published(more)[i].op = "dispatch" => Published(more)[i].of = period
        BY <1>5, ListSplit
      <4>2. ASSUME NEW i \in DOMAIN q PROVE q[i].row \in Rows
        BY <1>5, <4>2, CmdAt
      <4> QED BY <1>4, <4>1, <4>2
    <3>2. ASSUME NEW r \in Rows
          PROVE \A i \in DOMAIN (p \o q) : (\E j \in DOMAIN p : (p \o q)[i] = p[j]) \/ (\E j \in DOMAIN q : (p \o q)[i] = q[j])
      BY <1>5, WireJoin
    <3>3. ASSUME NEW i \in DOMAIN (p \o q) PROVE (p \o q)[i].row \in Rows
      BY <1>5, <3>3, CmdAt
    <3> QED BY <1>8, <3>1, <3>2, <3>3
  <2> HIDE DEF Effect
  <2> QED BY <1>3, <1>5, <1>9, <1>10, <2>1, <2>2, <2>3, <2>5, <2>11, <2>12
<1> QED BY <1>2, <1>11, <1>12

LEMMA AskedOnly ==
  ASSUME NEW w, NEW s, NEW t, NEW td, NEW ev, NEW done, InStep(w, s, t, td, ev, done), NEW r \in Rows
  PROVE  /\ TaskOf(t, r).pc # "idle" =>
              s.row[r] \notin {"unknown", "waiting"} /\ r \notin w.unfit /\ ~Acting(td, "dispatch", r)
         /\ Acting(td, "dispatch", r) => s.row[r] \in {"pending", "closed"} /\ r \notin w.unfit
         /\ Acting(td, "refuse", r) => r \in w.unfit
         /\ \A what : Acting(td, what, r) => s.row[r] # "unknown"
<1>1. "first" \in Sends
  BY DEF Sends
<1>2. TaskInStep(w, s, t, r, "first") /\ \A l \in Lanes : \A i \in DOMAIN td[l] : ActInStep(w, s, t, td[l][i])
  BY <1>1 DEF InStep, TasksInStep, ActsInStep
<1>3. /\ Acting(td, "dispatch", r) => s.row[r] \in {"pending", "closed"} /\ r \notin w.unfit /\ TaskOf(t, r).pc = "idle"
      /\ Acting(td, "refuse", r) => r \in w.unfit
      /\ \A what : Acting(td, what, r) => s.row[r] # "unknown"
  BY <1>1, <1>2 DEF Acting, Within, ActInStep, TaskOf
<1> QED BY <1>2, <1>3 DEF TaskInStep, TaskOf

\* A handler's list is performed: what its plan covers is covered.
LEMMA HandlerCovers ==
  ASSUME TypeInv, UNCHANGED <<db, machine>>,
         NEW l \in Lanes, NEW s \in Pictures, NEW t \in [TaskNames -> Tasks], NEW list \in Seq(Acts), NEW paced \in BOOLEAN,
         Perform(l, s, t, <<>>, list, paced), l = "messages" => mail # <<>>, NEW late, NEW r \in Rows,
         StrayOK(db, machine, cmds, mail, s, t, [Todo EXCEPT ![l] = list], events', late, r),
         TaskOf(task', r).pc # "idle" =>
           state'.row[r] \notin {"unknown", "waiting"} /\ r \notin setting.unfit /\ ~Acting(Todo', "dispatch", r)
  PROVE  StrayOK(db', machine', cmds', mail', state', task', Todo', events', late, r)
<1>1. PICK rec, M, c, m, c2, m2, n, u, td, td2, ev :
        /\ rec = db /\ M = machine /\ c = cmds /\ m = mail /\ c2 = cmds' /\ m2 = mail' /\ n = state' /\ u = task'
        /\ td = [Todo EXCEPT ![l] = list] /\ td2 = Todo' /\ ev = events'
  OBVIOUS
<1>2. /\ \E q \in Seq(Cmds) :
           /\ c2 = c \o q
           /\ \A i \in DOMAIN q : q[i].op = "dispatch" => q[i].of = period
           /\ Effect(s, t, list, q, n, u, td2[l], r)
      /\ n.held = s.held /\ td2 = [Todo EXCEPT ![l] = td2[l]]
      /\ m2 = m \/ (m # <<>> /\ m2 = Tail(m))
  <2>1. /\ \E q \in Seq(Cmds) :
             /\ cmds' = cmds \o q
             /\ \A i \in DOMAIN q : q[i].op = "dispatch" => q[i].of = period
             /\ \A x \in Rows : Effect(s, t, list, q, state', task', Todo'[l], x)
        /\ state'.held = s.held /\ Todo' = [Todo EXCEPT ![l] = Todo'[l]]
        /\ mail' = mail \/ (mail # <<>> /\ mail' = Tail(mail))
    BY PerformTells
  <2> HIDE DEF Effect
  <2> QED BY <1>1, <2>1
<1>3. PICK q \in Seq(Cmds) :
        /\ c2 = c \o q
        /\ \A i \in DOMAIN q : q[i].op = "dispatch" => q[i].of = period
        /\ Effect(s, t, list, q, n, u, td2[l], r)
  BY <1>2
<1>4. c \in Seq(Cmds) /\ m \in Seq(Letters) /\ DOMAIN Todo = Lanes
  BY <1>1 DEF TypeInv, Todo
<1>5. /\ Wired(c2, r) <=> Wired(c, r) \/ Wired(q, r)
      /\ Cancels(c2, r) <=> Cancels(c, r) \/ Cancels(q, r)
      /\ \A i \in DOMAIN c2 : (\E j \in DOMAIN c : c2[i] = c[j]) \/ (\E j \in DOMAIN q : c2[i] = q[j])
      /\ Behind(c, r) /\ ~Wired(q, r) => Behind(c2, r)
  <2>1. /\ Wired(c \o q, r) <=> Wired(c, r) \/ Wired(q, r)
        /\ Cancels(c \o q, r) <=> Cancels(c, r) \/ Cancels(q, r)
        /\ \A i \in DOMAIN (c \o q) : (\E j \in DOMAIN c : (c \o q)[i] = c[j]) \/ (\E j \in DOMAIN q : (c \o q)[i] = q[j])
        /\ Behind(c, r) /\ ~Wired(q, r) => Behind(c \o q, r)
    BY <1>4, WireJoin
  <2> HIDE DEF Wired, Cancels, Behind
  <2> QED BY <1>3, <2>1
<1>6. StrayOK(rec, M, c, m, s, t, td, ev, late, r)
  BY <1>1
<1>7. TaskOf(u, r).pc # "idle" =>
        n.row[r] \notin {"unknown", "waiting"} /\ r \notin setting.unfit /\ ~Acting(td2, "dispatch", r)
  BY <1>1
\* the acts that are left, and those of the other lane
<1>8. /\ td[l] = list /\ \A k \in Lanes \ {l} : td[k] = td2[k]
  BY <1>1, <1>2, <1>4
<1>9. /\ \A what : Acting(td2, what, r) =>
           \/ Acting(td, what, r)
           \/ s.row[r] = "waiting" /\ (what = "dispatch" \/ (what = "refuse" /\ n.row[r] = "refused"))
      /\ Acting(td, "cancel", r) => Cancels(q, r) \/ Acting(td2, "cancel", r)
      /\ Cancels(q, r) => Acting(td, "cancel", r)
      /\ Acting(td, "dispatch", r) \/ (s.row[r] = "waiting" /\ n.row[r] = "pending") => Wired(q, r) \/ Acting(td2, "dispatch", r)
      /\ Wired(q, r) => Acting(td, "dispatch", r) \/ s.row[r] = "waiting"
  <2> HIDE DEF Within, Wired, Cancels
  <2>1. \A what : Acting(td2, what, r) => Within(td2[l], what, r) \/ Acting(td, what, r)
    BY <1>8 DEF Acting
  <2>2. \A what : Acting(td, what, r) => Within(list, what, r) \/ Acting(td2, what, r)
    BY <1>8 DEF Acting
  <2>3. \A what : (Within(list, what, r) => Acting(td, what, r)) /\ (Within(td2[l], what, r) => Acting(td2, what, r))
    BY <1>8 DEF Acting
  <2> HIDE DEF Acting
  <2> QED BY <1>3, <2>1, <2>2, <2>3 DEF Effect
<1>10. /\ Wired(q, r) => TaskOf(u, r).pc = "reply" /\ TaskOf(u, r).of = period
       /\ ~Wired(q, r) => TaskOf(u, r) = TaskOf(t, r)
       /\ \/ n.row[r] = s.row[r]
          \/ s.row[r] = "waiting" /\ (n.row[r] = "pending" \/ (n.row[r] = "refused" /\ r \in setting.unfit))
  <2> HIDE DEF Within, Wired, Cancels, TaskOf
  <2> QED BY <1>3 DEF Effect
<1>11. /\ \A kind : Says(m2, kind, r) => Says(m, kind, r)
       /\ Refuses(m2, r) => Refuses(m, r)
  <2>1. m # <<>> => (\A kind : Says(Tail(m), kind, r) => Says(m, kind, r)) /\ (Refuses(Tail(m), r) => Refuses(m, r))
    BY <1>4, MailRead
  <2> HIDE DEF Says, Refuses
  <2> QED BY <1>2, <2>1
<1>12. (Issued(c2, M, r) <=> Issued(c, M, r) \/ Wired(q, r)) /\ (Wired(q, r) => ~Issued(c, M, r))
  <2>1. s.row[r] \in {"unknown", "waiting"} \/ Acting(td, "dispatch", r) \/ r \in setting.unfit => ~Issued(c, M, r)
    BY <1>6 DEF StrayOK, AskedOK
  <2> HIDE DEF Wired, Acting, Ran
  <2>2. Issued(c2, M, r) <=> Issued(c, M, r) \/ Wired(q, r)
    BY <1>5 DEF Issued
  <2> QED BY <1>9, <2>1, <2>2
<1>13. AskedOK(c2, M, n, u, td2, r)
  <2>1. AskedOK(c, M, s, t, td, r)
    BY <1>6 DEF StrayOK
  <2>2. \E p : AtPeriod(c2, M, u, r, p)
    <3>1. CASE Wired(q, r)
      <4>1. ~Wired(c, r) /\ ~Ran(M, "dispatch", r)
        BY <1>12, <3>1 DEF Issued
      <4>2. AtPeriod(c2, M, u, r, period)
        BY <1>3, <1>5, <1>10, <3>1, <4>1 DEF AtPeriod, Wired, Ran
      <4> QED BY <4>2
    <3>2. CASE ~Wired(q, r)
      <4>1. PICK p : AtPeriod(c, M, t, r, p)
        BY <2>1 DEF AskedOK
      <4>2. AtPeriod(c2, M, u, r, p)
        BY <1>5, <1>10, <3>2, <4>1 DEF AtPeriod, Wired
      <4> QED BY <4>2
    <3> QED BY <3>1, <3>2
  <2> HIDE DEF Wired, Acting, Issued, AtPeriod, TaskOf
  <2> QED BY <1>7, <1>9, <1>10, <1>12, <2>1, <2>2 DEF AskedOK
<1>14. ThroughOK(rec, M, m2, n, u, td2, late, r)
  <2>1. ThroughOK(rec, M, m, s, t, td, late, r)
    BY <1>6 DEF StrayOK
  <2> HIDE DEF Wired, Acting, Through, TaskOf, Says, Refuses, Ran
  <2>2. TaskOf(u, r).pc \in {"fail", "failed"} => TaskOf(u, r) = TaskOf(t, r)
    BY <1>10
  <2>3. /\ Acting(td2, "accumulate", r) => Acting(td, "accumulate", r)
        /\ Acting(td2, "receive", r) => Acting(td, "receive", r)
    BY <1>9
  <2> QED BY <1>2, <1>10, <1>11, <2>1, <2>2, <2>3 DEF ThroughOK
<1>15. CASE Excused(rec, M, late, r) \/ Through(M, r)
  <2> HIDE DEF AskedOK, ThroughOK, Excused, Through
  <2> QED BY <1>1, <1>13, <1>14, <1>15 DEF StrayOK
<1>16. CASE CancelOK(rec, M, c, t, td, r) /\ (Ended(rec, r) => Covered(rec, M, c, s, t, td, ev, r))
  <2>1. CancelOK(rec, M, c2, u, td2, r)
    <3>1. CancelOK(rec, M, c, t, td, r)
      BY <1>16
    <3>2. Cancels(c2, r) \/ Acting(td2, "cancel", r) => Cancels(c, r) \/ Acting(td, "cancel", r)
      <4> HIDE DEF Cancels, Acting
      <4> QED BY <1>5, <1>9
    <3>3. Cancels(c2, r) \/ Acting(td2, "cancel", r) => Issued(c, M, r) /\ ~Wired(q, r)
      <4> HIDE DEF Cancels, Acting, Issued, Wired
      <4> QED BY <1>12, <3>1, <3>2 DEF CancelOK
    <3>4. Behind(c2, r)
      <4>1. CASE Cancels(c2, r)
        <5> HIDE DEF Cancels, Acting, Issued, Wired, Behind
        <5> QED BY <1>5, <3>1, <3>3, <4>1 DEF CancelOK
      <4>2. CASE ~Cancels(c2, r)
        BY <4>2 DEF Behind, Cancels
      <4> QED BY <4>1, <4>2
    <3>5. Acting(td2, "fail", r) => Acting(td2, "cancel", r) \/ Cancels(c2, r)
      <4> HIDE DEF Cancels, Acting, Issued, Wired, Behind
      <4> QED BY <1>5, <1>9, <3>1 DEF CancelOK
    <3> HIDE DEF Cancels, Acting, Issued, Wired, Behind, Ran, TaskOf
    <3> QED BY <1>10, <1>12, <3>1, <3>2, <3>3, <3>4, <3>5 DEF CancelOK
  <2>2. ASSUME Ended(rec, r) PROVE Covered(rec, M, c2, n, u, td2, ev, r)
    <3> HIDE DEF Cancels, Acting, Issued, Wired, TaskOf
    <3>1. Covered(rec, M, c, s, t, td, ev, r)
      BY <1>16, <2>2
    <3>2. CASE ~Issued(c, M, r) /\ ~Acting(td, "dispatch", r) /\ s.row[r] \notin {"waiting", "pending", "accepted"}
      BY <1>9, <1>10, <1>12, <3>2 DEF Covered
    <3>3. CASE Cancels(c, r) \/ Acting(td, "cancel", r)
      BY <1>5, <1>9, <3>3 DEF Covered
    <3>4. CASE <<r, "ended">> \in ev /\ rec[r].status = "withdrawn" /\ IsOpen(s, r)
      BY <1>10, <3>4 DEF Covered, IsOpen, Open
    <3>5. CASE TaskOf(t, r).pc = "failed" /\ TaskOf(t, r).done /\ ~TaskOf(t, r).refused
      <4>1. Issued(c, M, r)
        BY <1>6, <3>5 DEF StrayOK, AskedOK
      <4> QED BY <1>10, <1>12, <3>5, <4>1 DEF Covered
    <3> QED BY <3>1, <3>2, <3>3, <3>4, <3>5 DEF Covered
  <2> HIDE DEF AskedOK, ThroughOK, CancelOK, Covered, Ended
  <2> QED BY <1>1, <1>13, <1>14, <2>1, <2>2 DEF StrayOK
<1> QED BY <1>1, <1>6, <1>15, <1>16 DEF StrayOK

\* A plan that leaves a row's dispatch as it is: it may close the row, add to the acts
\* ahead, and use up an event.
PlanSteps(rec, M, c, s, t, td, ev, n, td2, ev2, late, r) ==
  /\ n.row[r] = s.row[r] \/ (IsOpen(s, r) /\ n.row[r] = "closed")
  /\ r \in n.held => r \in s.held \/ Through(M, r)
  /\ Acting(td2, "dispatch", r) <=> Acting(td, "dispatch", r)
  /\ Acting(td2, "refuse", r) => Acting(td, "refuse", r)
  /\ Acting(td2, "accumulate", r) \/ Acting(td2, "receive", r) =>
       Acting(td, "accumulate", r) \/ Acting(td, "receive", r) \/ Through(M, r)
  /\ Acting(td, "cancel", r) => Acting(td2, "cancel", r)
  /\ Excused(rec, M, late, r) \/ Through(M, r) \/
     /\ Acting(td2, "cancel", r) =>
          \/ Acting(td, "cancel", r)
          \/ Issued(c, M, r) /\ (TaskOf(t, r).pc = "reply" => rec[r].status = "withdrawn" \/ r \in M.misread)
     /\ Acting(td2, "fail", r) => Acting(td, "fail", r) \/ Acting(td2, "cancel", r)
     /\ rec[r].status = "withdrawn" /\ IsOpen(s, r) => 
          \/ (<<r, "ended">> \in ev => <<r, "ended">> \in ev2) /\ IsOpen(n, r)
          \/ Acting(td2, "cancel", r) \/ Cancels(c, r)
          \/ ~Issued(c, M, r) /\ ~Acting(td, "dispatch", r) /\ ~IsOpen(n, r)
LEMMA PlanCovers ==
  ASSUME NEW rec, NEW M, NEW c, NEW m, NEW s, NEW t, NEW td, NEW ev, NEW n, NEW td2, NEW ev2, NEW late, NEW r,
         StrayOK(rec, M, c, m, s, t, td, ev, late, r), PlanSteps(rec, M, c, s, t, td, ev, n, td2, ev2, late, r)
  PROVE  StrayOK(rec, M, c, m, n, t, td2, ev2, late, r)
<1> HIDE DEF Acting, Through, Issued, Excused, Cancels, Behind, Ran, TaskOf, Wired, AtPeriod, Says, Refuses
<1>1. AskedOK(c, M, n, t, td2, r)
  BY DEF StrayOK, AskedOK, PlanSteps, IsOpen, Open
<1>2. ThroughOK(rec, M, m, n, t, td2, late, r)
  BY DEF StrayOK, ThroughOK, PlanSteps
<1>3. CASE Excused(rec, M, late, r) \/ Through(M, r)
  BY <1>1, <1>2, <1>3 DEF StrayOK
<1>4. CASE ~Excused(rec, M, late, r) /\ ~Through(M, r)
  <2>1. CancelOK(rec, M, c, t, td, r) /\ (Ended(rec, r) => Covered(rec, M, c, s, t, td, ev, r))
    BY <1>4 DEF StrayOK
  <2>2. CancelOK(rec, M, c, t, td2, r)
    BY <1>4, <2>1 DEF CancelOK, PlanSteps
  <2>3. ASSUME Covered(rec, M, c, s, t, td, ev, r) PROVE Covered(rec, M, c, n, t, td2, ev2, r)
    <3>1. CASE ~Issued(c, M, r) /\ ~Acting(td, "dispatch", r) /\ s.row[r] \notin {"waiting", "pending", "accepted"}
      BY <3>1 DEF PlanSteps, Covered
    <3>2. CASE Cancels(c, r) \/ Acting(td, "cancel", r)
      BY <3>2 DEF PlanSteps, Covered
    <3>3. CASE <<r, "ended">> \in ev /\ rec[r].status = "withdrawn" /\ IsOpen(s, r)
      <4>1. \/ <<r, "ended">> \in ev2 /\ IsOpen(n, r)
            \/ Acting(td2, "cancel", r) \/ Cancels(c, r)
            \/ ~Issued(c, M, r) /\ ~Acting(td, "dispatch", r) /\ ~IsOpen(n, r)
        BY <1>4, <3>3 DEF PlanSteps
      <4>2. ~IsOpen(n, r) => n.row[r] \notin {"waiting", "pending", "accepted"}
        BY DEF IsOpen, Open
      <4>3. Acting(td2, "dispatch", r) <=> Acting(td, "dispatch", r)
        BY DEF PlanSteps
      <4> QED BY <3>3, <4>1, <4>2, <4>3 DEF Covered
    <3>4. CASE TaskOf(t, r).pc = "failed" /\ TaskOf(t, r).done /\ ~TaskOf(t, r).refused
      BY <3>4 DEF Covered
    <3> QED BY <2>3, <3>1, <3>2, <3>3, <3>4 DEF Covered
  <2> QED BY <1>1, <1>2, <2>1, <2>2, <2>3 DEF StrayOK
<1> QED BY <1>3, <1>4

\* A row as it is, and as it is after a step.
CoveredNow(r) == StrayOK(db, machine, cmds, mail, state, task, Todo, events, spent["timeout"] # 0, r)
CoveredNext(r) == StrayOK(db', machine', cmds', mail', state', task', Todo', events', spent'["timeout"] # 0, r)

LEMMA HandlerStays ==
  ASSUME TypeInv, UNCHANGED <<setting, db, machine, spent>>, InStep(World', state', task', Todo', events', Landed'),
         NEW l \in Lanes, NEW s \in Pictures, NEW t \in [TaskNames -> Tasks], NEW list \in Seq(Acts), NEW paced \in BOOLEAN,
         Perform(l, s, t, <<>>, list, paced), l = "messages" => mail # <<>>, NEW r \in Rows,
         StrayOK(db, machine, cmds, mail, s, t, [Todo EXCEPT ![l] = list], events', spent["timeout"] # 0, r)
  PROVE  CoveredNext(r)
<1>1. PICK w, n, u, td, ev, d : w = World' /\ n = state' /\ u = task' /\ td = Todo' /\ ev = events' /\ d = Landed'
  OBVIOUS
<1>2. InStep(w, n, u, td, ev, d) /\ w.unfit = setting.unfit
  BY <1>1 DEF World
<1>3. TaskOf(u, r).pc # "idle" =>
        n.row[r] \notin {"unknown", "waiting"} /\ r \notin setting.unfit /\ ~Acting(td, "dispatch", r)
  BY <1>2, AskedOnly
<1>4. TaskOf(task', r).pc # "idle" =>
        state'.row[r] \notin {"unknown", "waiting"} /\ r \notin setting.unfit /\ ~Acting(Todo', "dispatch", r)
  BY <1>1, <1>3
<1>5. PICK late, late2 : late = (spent["timeout"] # 0) /\ late2 = (spent'["timeout"] # 0) /\ late = late2
  OBVIOUS
<1>6. StrayOK(db, machine, cmds, mail, s, t, [Todo EXCEPT ![l] = list], events', late, r)
  BY <1>5
<1>7. StrayOK(db', machine', cmds', mail', state', task', Todo', events', late, r)
  <2> HIDE DEF StrayOK, Perform, Acting, TaskOf
  <2> QED BY <1>4, <1>6, HandlerCovers
<1> QED BY <1>5, <1>7 DEF CoveredNext

LEMMA ActsLeft ==
  ASSUME NEW todo \in Seq(Acts), todo # <<>>, NEW list \in Seq(Acts), NEW x \in Rows, NEW more \in BOOLEAN,
         more => list = <<Do("receive", x)>> \o Tail(todo), ~more => list = Tail(todo), NEW r \in Rows
  PROVE  /\ \A what : Within(list, what, r) => Within(todo, what, r) \/ (more /\ what = "receive" /\ r = x)
         /\ \A what : Within(todo, what, r) => Within(list, what, r) \/ (todo[1].do = what /\ todo[1].row = r)
<1>1. PICK n, t : n = Len(todo) /\ t = Tail(todo)
  OBVIOUS
<1>2. n \in Nat \ {0} /\ DOMAIN todo = 1..n /\ t \in Seq(Acts) /\ DOMAIN t = 1..(n - 1) /\ \A i \in 1..(n - 1) : t[i] = todo[i + 1]
  <2>1. t \in Seq(Acts) /\ Len(t) = n - 1 /\ \A i \in 1..Len(t) : t[i] = todo[i + 1]
    BY <1>1, HeadTailProperties
  <2>2. n \in Nat \ {0} /\ DOMAIN todo = 1..n /\ DOMAIN t = 1..Len(t)
    BY <1>1, <2>1, LenProperties, EmptySeq
  <2> QED BY <2>1, <2>2
<1>3. /\ \A i \in DOMAIN t : i + 1 \in DOMAIN todo /\ t[i] = todo[i + 1]
      /\ \A i \in DOMAIN todo : i = 1 \/ (i - 1 \in DOMAIN t /\ todo[i] = t[i - 1])
  <2>1. \A i \in 1..n : i = 1 \/ (i - 1 \in 1..(n - 1) /\ (i - 1) + 1 = i)
    BY <1>2
  <2> QED BY <1>2, <2>1
<1>4. /\ \A what : Within(t, what, r) => Within(todo, what, r)
      /\ \A what : Within(todo, what, r) => Within(t, what, r) \/ (todo[1].do = what /\ todo[1].row = r)
  BY <1>3 DEF Within
<1>5. CASE ~more
  BY <1>1, <1>4, <1>5
<1>6. CASE more
  <2>1. PICK a : a = Do("receive", x)
    OBVIOUS
  <2>2. a \in Acts /\ a.do = "receive" /\ a.row = x
    BY <2>1 DEF Acts, Do, Verbs
  <2>3. list = <<a>> \o t /\ <<a>> \in Seq(Acts) /\ Len(<<a>>) = 1 /\ <<a>>[1] = a /\ Len(t) = n - 1
    BY <1>1, <1>2, <1>6, <2>1, <2>2
  <2>4. Len(list) = 1 + (n - 1) /\ \A i \in 1..(1 + (n - 1)) : list[i] = IF i <= 1 THEN <<a>>[i] ELSE t[i - 1]
    BY <1>2, <2>3, ConcatProperties
  <2>5. DOMAIN list = 1..n
    <3>1. DOMAIN list = 1..Len(list)
      BY LenProperties
    <3> QED BY <1>2, <2>4, <3>1
  <2>6. \A i \in DOMAIN list : list[i] = a \/ (i - 1 \in DOMAIN t /\ list[i] = t[i - 1])
    <3>1. \A i \in 1..n : i \in 1..(1 + (n - 1)) /\ (i <= 1 => i = 1) /\ (~(i <= 1) => i - 1 \in 1..(n - 1))
      BY <1>2
    <3> QED BY <1>2, <2>3, <2>4, <2>5, <3>1
  <2>7. \A i \in DOMAIN t : i + 1 \in DOMAIN list /\ list[i + 1] = t[i]
    <3>1. \A i \in 1..(n - 1) : i + 1 \in 1..n /\ i + 1 \in 1..(1 + (n - 1)) /\ ~(i + 1 <= 1) /\ (i + 1) - 1 = i
      BY <1>2
    <3> QED BY <1>2, <2>4, <2>5, <3>1
  <2>8. /\ \A what : Within(list, what, r) => Within(t, what, r) \/ (what = "receive" /\ r = x)
        /\ \A what : Within(t, what, r) => Within(list, what, r)
    <3>1. ASSUME NEW what, Within(list, what, r) PROVE Within(t, what, r) \/ (what = "receive" /\ r = x)
      <4>1. PICK i \in DOMAIN list : list[i].do = what /\ list[i].row = r
        BY <3>1 DEF Within
      <4>2. CASE list[i] = a
        BY <2>2, <4>1, <4>2
      <4>3. CASE i - 1 \in DOMAIN t /\ list[i] = t[i - 1]
        BY <4>1, <4>3 DEF Within
      <4> QED BY <2>6, <4>2, <4>3
    <3>2. ASSUME NEW what, Within(t, what, r) PROVE Within(list, what, r)
      BY <2>7, <3>2 DEF Within
    <3> QED BY <3>1, <3>2
  <2> HIDE DEF Within
  <2> QED BY <1>4, <1>6, <2>8
<1> QED BY <1>5, <1>6
LEMMA ActsBeside ==
  ASSUME NEW td, DOMAIN td = Lanes, NEW l \in Lanes, NEW list, NEW r
  PROVE  /\ \A what : Acting([td EXCEPT ![l] = list], what, r) => Within(list, what, r) \/ Acting(td, what, r)
         /\ \A what : Acting(td, what, r) => Within(td[l], what, r) \/ Acting([td EXCEPT ![l] = list], what, r)
         /\ \A what : Within(list, what, r) => Acting([td EXCEPT ![l] = list], what, r)
         /\ \A what : Within(td[l], what, r) => Acting(td, what, r)
<1>1. PICK td2 : td2 = [td EXCEPT ![l] = list]
  OBVIOUS
<1>2. td2[l] = list /\ \A k \in Lanes \ {l} : td2[k] = td[k]
  BY <1>1
<1> HIDE DEF Within
<1>3. /\ \A what : Acting(td2, what, r) => Within(list, what, r) \/ Acting(td, what, r)
      /\ \A what : Acting(td, what, r) => Within(td[l], what, r) \/ Acting(td2, what, r)
      /\ \A what : Within(list, what, r) => Acting(td2, what, r)
      /\ \A what : Within(td[l], what, r) => Acting(td, what, r)
  BY <1>2 DEF Acting
<1> QED BY <1>1, <1>3
LEMMA PlanStays ==
  ASSUME TypeInv, UNCHANGED <<setting, db, machine, spent>>, InStep(World', state', task', Todo', events', Landed'),
         NEW l \in Lanes, NEW s \in Pictures, NEW list \in Seq(Acts), NEW paced \in BOOLEAN,
         Perform(l, s, task, <<>>, list, paced), l = "messages" => mail # <<>>, NEW r \in Rows, CoveredNow(r),
         PlanSteps(db, machine, cmds, state, task, Todo, events, s, [Todo EXCEPT ![l] = list], events', spent["timeout"] # 0, r)
  PROVE  CoveredNext(r)
<1>1. task \in [TaskNames -> Tasks]
  BY DEF TypeInv
<1>2. PICK td2, ev2, late : td2 = [Todo EXCEPT ![l] = list] /\ ev2 = events' /\ late = (spent["timeout"] # 0)
  OBVIOUS
<1>3. /\ StrayOK(db, machine, cmds, mail, state, task, Todo, events, late, r)
      /\ PlanSteps(db, machine, cmds, state, task, Todo, events, s, td2, ev2, late, r)
  BY <1>2 DEF CoveredNow
<1>4. StrayOK(db, machine, cmds, mail, s, task, td2, ev2, late, r)
  <2> HIDE DEF StrayOK, PlanSteps
  <2> QED BY <1>3, PlanCovers
<1>5. StrayOK(db, machine, cmds, mail, s, task, [Todo EXCEPT ![l] = list], events', spent["timeout"] # 0, r)
  BY <1>2, <1>4
<1> HIDE DEF StrayOK, PlanSteps, CoveredNext, Perform, Todo
<1> QED BY <1>1, <1>5, HandlerStays
\* A verb returns: the rest of its list goes on.
LEMMA ReturnsCovered ==
  ASSUME TypeInv, InStep(World, state, task, Todo, events, Landed), InStep(World', state', task', Todo', events', Landed'),
         setting' = setting, NEW r \in Rows, CoveredNow(r), NEW l \in Lanes, VerbReturns(l)
  PROVE  CoveredNext(r)
<1>1. PICK a \in Acts, s \in Pictures, list \in Seq(Acts) :
         /\ lane[l].todo # <<>> /\ a = lane[l].todo[1]
         /\ s = IF a.do = "accumulate" THEN state ELSE Shut(state, a.row)
         /\ list = IF a.do = "accumulate" /\ db[a.row].item THEN <<Do("receive", a.row)>> \o Tail(lane[l].todo)
                   ELSE Tail(lane[l].todo)
         /\ Perform(l, s, task, <<>>, list, lane[l].pc = "pacing")
         /\ events' = events /\ UNCHANGED <<db, machine, spent>>
  BY VerbReturnsPlan
<1>2. PICK todo, x, p, more, td, td2, late :
        /\ todo = lane[l].todo /\ x = a.row /\ p = (lane[l].pc = "pacing") /\ more = (a.do = "accumulate" /\ db[a.row].item)
        /\ td = Todo /\ td2 = [td EXCEPT ![l] = list] /\ late = (spent["timeout"] # 0)
  OBVIOUS
<1>3. /\ todo \in Seq(Acts) /\ todo # <<>> /\ a = todo[1] /\ x \in Rows /\ a.do \in Verbs /\ (l = "messages" => mail # <<>>)
      /\ 1 \in DOMAIN todo /\ p \in BOOLEAN /\ more \in BOOLEAN
  <2>1. lane[l].todo # <<>> /\ a = lane[l].todo[1]
    BY <1>1
  <2>2. /\ lane[l].todo[1].row \in Rows /\ lane[l].todo[1].do \in Verbs /\ lane[l].todo \in Seq(Acts)
        /\ 1 \in DOMAIN lane[l].todo /\ (l = "messages" => mail # <<>>)
    BY <2>1, AtWork
  <2> QED BY <1>2, <2>1, <2>2
<1>4. state \in Pictures /\ DOMAIN td = Lanes /\ td[l] = todo
  BY <1>2 DEF TypeInv, Todo
<1>5. /\ s.held = state.held
      /\ s.row[r] = state.row[r] \/ (s.row[r] = "closed" /\ IsOpen(state, r))
      /\ a.do = "accumulate" \/ r # x => s.row[r] = state.row[r]
  <2>1. PICK t : t = Shut(state, x)
    OBVIOUS
  <2>2. s = state \/ (a.do # "accumulate" /\ s = t)
    BY <1>1, <1>2, <2>1
  <2>3. t.held = state.held /\ t.row[r] = IF r = x /\ IsOpen(state, x) THEN "closed" ELSE state.row[r]
    BY <1>3, <1>4, <2>1, ShutOf
  <2> HIDE DEF IsOpen
  <2> QED BY <2>2, <2>3
<1>6. /\ \A what : Within(list, what, r) => Within(todo, what, r) \/ (more /\ what = "receive" /\ r = x)
      /\ \A what : Within(todo, what, r) => Within(list, what, r) \/ (todo[1].do = what /\ todo[1].row = r)
  <2>1. more \in BOOLEAN /\ (more => list = <<Do("receive", x)>> \o Tail(todo)) /\ (~more => list = Tail(todo))
    BY <1>1, <1>2
  <2>2. todo \in Seq(Acts) /\ todo # <<>> /\ x \in Rows
    BY <1>3
  <2>3. /\ \A what : Within(list, what, r) => Within(todo, what, r) \/ (more /\ what = "receive" /\ r = x)
        /\ \A what : Within(todo, what, r) => Within(list, what, r) \/ (todo[1].do = what /\ todo[1].row = r)
    BY <2>1, <2>2, ActsLeft
  <2> QED BY <2>3
<1>7. /\ \A what : Acting([td EXCEPT ![l] = list], what, r) => Within(list, what, r) \/ Acting(td, what, r)
      /\ \A what : Acting(td, what, r) => Within(td[l], what, r) \/ Acting([td EXCEPT ![l] = list], what, r)
      /\ \A what : Within(list, what, r) => Acting([td EXCEPT ![l] = list], what, r)
      /\ \A what : Within(td[l], what, r) => Acting(td, what, r)
  BY <1>4, ActsBeside
<1>8. Within(todo, a.do, x)
  BY <1>3, <1>2 DEF Within
<1>9. StrayOK(db, machine, cmds, mail, state, task, td, events, late, r)
  BY <1>2 DEF CoveredNow
<1> HIDE DEF Within, Acting
<1>10. /\ \A what : Acting(td2, what, r) => Acting(td, what, r) \/ (more /\ what = "receive" /\ r = x)
       /\ \A what : Acting(td, what, r) => Acting(td2, what, r) \/ (a.do = what /\ x = r)
       /\ r = x => Acting(td, a.do, r)
  BY <1>2, <1>3, <1>4, <1>6, <1>7, <1>8
<1>11. Acting(td, "refuse", r) => r \in setting.unfit
  <2>1. PICK w : w = World
    OBVIOUS
  <2>2. w.unfit = setting.unfit
    BY <2>1 DEF World
  <2>3. InStep(w, state, task, td, events, Landed)
    BY <1>2, <2>1
  <2> HIDE DEF InStep
  <2>4. Acting(td, "refuse", r) => r \in w.unfit
    BY <2>3, AskedOnly
  <2> QED BY <2>2, <2>4
<1>12. PlanSteps(db, machine, cmds, state, task, td, events, s, td2, events', late, r)
  <2> HIDE DEF Through, Issued, Cancels, Ran, TaskOf, Wired
  <2>1. "accumulate" # "dispatch" /\ a.do \in {"accumulate", "receive", "fail", "refuse"}
    BY <1>3 DEF Verbs
  <2>2. ASSUME db[r].status = "withdrawn", IsOpen(state, r), ~Excused(db, machine, late, r), ~Through(machine, r)
        PROVE  \/ (<<r, "ended">> \in events => <<r, "ended">> \in events') /\ IsOpen(s, r)
               \/ Acting(td2, "cancel", r) \/ Cancels(cmds, r)
    <3>1. CASE a.do = "accumulate" \/ r # x
      BY <1>1, <1>5, <2>2, <3>1 DEF IsOpen
    <3>2. CASE a.do = "receive" /\ r = x
      BY <1>9, <1>10, <2>2, <3>2 DEF StrayOK, ThroughOK
    <3>3. CASE a.do = "fail" /\ r = x
      BY <1>9, <1>10, <2>2, <3>3 DEF StrayOK, CancelOK
    <3>4. CASE a.do = "refuse" /\ r = x
      BY <1>10, <1>11, <2>2, <3>4 DEF Excused
    <3> QED BY <2>1, <3>1, <3>2, <3>3, <3>4
  <2>3. ASSUME ~Excused(db, machine, late, r), ~Through(machine, r), Acting(td2, "fail", r)
        PROVE Acting(td, "fail", r)
    BY <1>10, <2>3
  <2>4. Acting(td2, "dispatch", r) <=> Acting(td, "dispatch", r)
    BY <1>10, <2>1
  <2>5. Acting(td2, "refuse", r) => Acting(td, "refuse", r)
    BY <1>10
  <2>6. Acting(td2, "accumulate", r) \/ Acting(td2, "receive", r) => Acting(td, "accumulate", r) \/ Acting(td, "receive", r)
    BY <1>2, <1>10
  <2>7. (Acting(td, "cancel", r) => Acting(td2, "cancel", r)) /\ (Acting(td2, "cancel", r) => Acting(td, "cancel", r))
    BY <1>10, <2>1
  <2> HIDE DEF Excused, IsOpen
  <2>8. s.row[r] = state.row[r] \/ (IsOpen(state, r) /\ s.row[r] = "closed")
    BY <1>5
  <2>9. r \in s.held => r \in state.held
    BY <1>5
  <2> QED BY <2>2, <2>3, <2>4, <2>5, <2>6, <2>7, <2>8, <2>9 DEF PlanSteps
<1>13. Perform(l, s, task, <<>>, list, p) /\ UNCHANGED <<setting, db, machine, spent>>
  BY <1>1, <1>2
<1>14. PlanSteps(db, machine, cmds, state, task, Todo, events, s, [Todo EXCEPT ![l] = list], events', spent["timeout"] # 0, r)
  BY <1>2, <1>12
<1> HIDE DEF PlanSteps, Perform, CoveredNow, CoveredNext, Todo
<1> QED BY <1>3, <1>13, <1>14, PlanStays
LEMMA ActsAdded ==
  ASSUME NEW td, DOMAIN td = Lanes, NEW l \in Lanes, td[l] = <<>>, NEW list, NEW r
  PROVE  \A what : Acting([td EXCEPT ![l] = list], what, r) <=> Acting(td, what, r) \/ Within(list, what, r)
<1>1. PICK e : e = td[l]
  OBVIOUS
<1>2. DOMAIN e = {}
  BY <1>1
<1>3. \A what : ~Within(e, what, r)
  BY <1>2 DEF Within
<1>4. /\ \A what : Acting([td EXCEPT ![l] = list], what, r) => Within(list, what, r) \/ Acting(td, what, r)
      /\ \A what : Acting(td, what, r) => Within(td[l], what, r) \/ Acting([td EXCEPT ![l] = list], what, r)
      /\ \A what : Within(list, what, r) => Acting([td EXCEPT ![l] = list], what, r)
  BY ActsBeside
<1> HIDE DEF Acting, Within
<1> QED BY <1>1, <1>3, <1>4
\* A row that is new goes out, waits, or is refused.
LEMMA RowBegins ==
  ASSUME NEW rec, NEW M, NEW c, NEW m, NEW s, NEW t, NEW td, NEW ev, NEW n, NEW td2, NEW ev2, NEW late, NEW r,
         StrayOK(rec, M, c, m, s, t, td, ev, late, r), s.row[r] = "unknown", rec[r].status = "pending", n.held = s.held,
         n.row[r] = "waiting" \/ (n.row[r] = "pending" /\ Acting(td2, "dispatch", r)) \/ (n.row[r] = "refused" /\ r \in setting.unfit),
         \A what : Acting(td2, what, r) => Acting(td, what, r) \/ what = "dispatch" \/ (what = "refuse" /\ n.row[r] = "refused"),
         \A what : ~Acting(td, what, r)
  PROVE  StrayOK(rec, M, c, m, n, t, td2, ev2, late, r)
<1> HIDE DEF Acting, Through, Issued, Excused, Cancels, Behind, Ran, TaskOf, Wired, AtPeriod, Says, Refuses
<1>1. AskedOK(c, M, s, t, td, r) /\ ThroughOK(rec, M, m, s, t, td, late, r)
  BY DEF StrayOK
<1>2. AskedOK(c, M, n, t, td2, r)
  BY <1>1 DEF AskedOK
<1>3. ThroughOK(rec, M, m, n, t, td2, late, r)
  BY <1>1 DEF ThroughOK
<1>4. CASE Excused(rec, M, late, r) \/ Through(M, r)
  BY <1>2, <1>3, <1>4 DEF StrayOK
<1>5. CASE CancelOK(rec, M, c, t, td, r)
  <2>1. CancelOK(rec, M, c, t, td2, r)
    BY <1>5 DEF CancelOK
  <2>2. ~Ended(rec, r)
    BY DEF Ended
  <2> QED BY <1>2, <1>3, <2>1, <2>2 DEF StrayOK
<1> QED BY <1>4, <1>5 DEF StrayOK
LEMMA HearsCovered ==
  ASSUME TypeInv, InStep(World, state, task, Todo, events, Landed), InStep(World', state', task', Todo', events', Landed'),
         setting' = setting, NEW r \in Rows, CoveredNow(r), Blocked(Todo),
         NEW x \in Rows, NEW verb \in Happenings, OnEscalation(x, verb)
  PROVE  CoveredNext(r)
<1>1. PICK s \in Pictures, list \in Seq(Acts), fits \in BOOLEAN :
         /\ fits = (db[x].status \in Fitting[verb])
         /\ \/ /\ fits /\ verb = "created" /\ state.row[x] = "unknown" /\ Fits(MachineLoad(state))
               /\ s = Admit(state, {x}) /\ list = Actions({x})
            \/ /\ fits /\ verb = "created" /\ state.row[x] = "unknown"
               /\ s = [state EXCEPT !.row[x] = "waiting"] /\ list = <<>>
            \/ fits /\ verb # "created" /\ s = Shut(state, x) /\ list = IF verb = "ended" THEN CancelDispatch(state, x) ELSE <<>>
            \/ (fits => verb = "created" /\ state.row[x] # "unknown") /\ s = state /\ list = <<>>
         /\ lane["events"] = Idle
         /\ <<x, verb>> \in events /\ events' = events \ {<<x, verb>>}
         /\ Perform("events", s, task, <<>>, list, FALSE)
         /\ UNCHANGED <<db, machine, spent>>
  BY OnEscalationPlan, ZenonT(30)
<1>2. PICK td, td2, ev2, late : td = Todo /\ td2 = [td EXCEPT !["events"] = list] /\ ev2 = events' /\ late = (spent["timeout"] # 0)
  OBVIOUS
<1>3. state \in Pictures /\ DOMAIN td = Lanes /\ td["events"] = <<>> /\ "events" \in Lanes
  BY <1>1, <1>2 DEF TypeInv, Todo, Idle, Lanes
<1>4. \A what : Acting(td2, what, r) <=> Acting(td, what, r) \/ Within(list, what, r)
  BY <1>2, <1>3, ActsAdded
<1>5. StrayOK(db, machine, cmds, mail, state, task, td, events, late, r)
  BY <1>2 DEF CoveredNow
<1>6. /\ Acting(td, "dispatch", r) => state.row[r] \in {"pending", "closed"}
      /\ \A what : Acting(td, what, r) => state.row[r] # "unknown"
  <2>1. PICK w : w = World
    OBVIOUS
  <2>2. InStep(w, state, task, td, events, Landed)
    BY <1>2, <2>1
  <2> HIDE DEF InStep
  <2> QED BY <2>2, AskedOnly
<1>7. Fitting[verb] = IF verb = "created" THEN {"pending"} ELSE IF verb = "ended" THEN {"withdrawn"} ELSE {"received", "failed"}
  <2>1. Fitting["created"] = {"pending"} /\ Fitting["ended"] = {"withdrawn"} /\ Fitting["resolved"] = {"received", "failed"}
    BY DEF Fitting
  <2>2. verb = "created" \/ verb = "ended" \/ verb = "resolved"
    BY DEF Happenings
  <2> QED BY <2>1, <2>2
<1>8. ASSUME PlanSteps(db, machine, cmds, state, task, td, events, s, td2, ev2, late, r) PROVE CoveredNext(r)
  <2>1. PlanSteps(db, machine, cmds, state, task, Todo, events, s, [Todo EXCEPT !["events"] = list], events', spent["timeout"] # 0, r)
    BY <1>2, <1>8
  <2>2. "events" # "messages" /\ FALSE \in BOOLEAN /\ UNCHANGED <<setting, db, machine, spent>>
    BY <1>1
  <2> HIDE DEF PlanSteps, Perform, CoveredNow, CoveredNext, Todo
  <2> QED BY <1>1, <1>3, <2>1, <2>2, PlanStays
<1>9. ASSUME StrayOK(db, machine, cmds, mail, s, task, td2, ev2, late, r) PROVE CoveredNext(r)
  <2>1. StrayOK(db, machine, cmds, mail, s, task, [Todo EXCEPT !["events"] = list], events', spent["timeout"] # 0, r)
    BY <1>2, <1>9
  <2>2. "events" # "messages" /\ FALSE \in BOOLEAN /\ UNCHANGED <<setting, db, machine, spent>> /\ task \in [TaskNames -> Tasks]
    BY <1>1 DEF TypeInv
  <2> HIDE DEF StrayOK, Perform, CoveredNext, Todo
  <2> QED BY <1>1, <1>3, <2>1, <2>2, HandlerStays
<1> HIDE DEF Acting, Within, Through, Issued, Cancels, Ran, TaskOf, Wired
\* a row the plan leaves alone
<1>10. ASSUME s.row[r] = state.row[r], s.held = state.held, \A what : ~Within(list, what, r),
              db[r].status = "withdrawn" => (<<r, "ended">> \in events => <<r, "ended">> \in ev2)
       PROVE  CoveredNext(r)
  <2>1. \A what : Acting(td2, what, r) <=> Acting(td, what, r)
    BY <1>4, <1>10
  <2>2. IsOpen(state, r) => IsOpen(s, r)
    BY <1>10 DEF IsOpen
  <2> HIDE DEF Excused, IsOpen
  <2>3. PlanSteps(db, machine, cmds, state, task, td, events, s, td2, ev2, late, r)
    BY <1>10, <2>1, <2>2 DEF PlanSteps
  <2> QED BY <1>8, <2>3
<1>11. ASSUME list = <<>> PROVE \A what : ~Within(list, what, r)
  <2>1. DOMAIN list = {}
    BY <1>11
  <2> QED BY <2>1 DEF Within
<1>12. CASE fits /\ verb = "created" /\ state.row[x] = "unknown" /\ s = Admit(state, {x}) /\ list = Actions({x})
  <2>1. /\ s.held = state.held
        /\ \A q \in Rows : s.row[q] = IF q \notin {x} THEN state.row[q] ELSE IF q \in setting.unfit THEN "refused" ELSE "pending"
    <3>1. {x} \subseteq Rows
      OBVIOUS
    <3>2. /\ Admit(state, {x}).held = state.held
          /\ \A q \in Rows : Admit(state, {x}).row[q] = IF q \notin {x} THEN state.row[q] ELSE IF q \in setting.unfit THEN "refused" ELSE "pending"
      BY <1>3, <3>1, AdmitOf
    <3> QED BY <1>12, <3>2
  <2>2. /\ DOMAIN list = 1..1
        /\ \A i \in DOMAIN list : list[i].row = x /\ list[i].do = IF x \in setting.unfit THEN "refuse" ELSE "dispatch"
    <3>1. {x} \subseteq Rows /\ Cardinality({x}) = 1
      BY FS_Singleton
    <3>2. /\ DOMAIN Actions({x}) = 1..Cardinality({x})
          /\ \A i \in DOMAIN Actions({x}) :
              /\ Actions({x})[i].row \in {x}
              /\ Actions({x})[i].do = IF Actions({x})[i].row \in setting.unfit THEN "refuse" ELSE "dispatch"
      BY <3>1, ActionsOf
    <3>3. /\ DOMAIN list = 1..1
          /\ \A i \in DOMAIN list : list[i].row \in {x} /\ list[i].do = IF list[i].row \in setting.unfit THEN "refuse" ELSE "dispatch"
      BY <1>12, <3>1, <3>2
    <3> QED BY <3>3
  <2>3. CASE r # x
    <3>1. \A what : ~Within(list, what, r)
      BY <2>2, <2>3 DEF Within
    <3> QED BY <1>1, <1>2, <1>10, <2>1, <2>3, <3>1
  <2>4. CASE r = x
    <3>1. \A what : Within(list, what, r) => what = IF r \in setting.unfit THEN "refuse" ELSE "dispatch"
      BY <2>2, <2>4 DEF Within
    <3>2. r \notin setting.unfit => Within(list, "dispatch", r)
      BY <2>2, <2>4 DEF Within
    <3>3. s.row[r] = IF r \in setting.unfit THEN "refused" ELSE "pending"
      BY <2>1, <2>4
    <3>4. db[r].status = "pending" /\ state.row[r] = "unknown"
      BY <1>1, <1>7, <1>12, <2>4
    <3>5. s.row[r] = "waiting" \/ (s.row[r] = "pending" /\ Acting(td2, "dispatch", r)) \/ (s.row[r] = "refused" /\ r \in setting.unfit)
      BY <1>4, <3>2, <3>3
    <3>6. \A what : Acting(td2, what, r) => Acting(td, what, r) \/ what = "dispatch" \/ (what = "refuse" /\ s.row[r] = "refused")
      BY <1>4, <3>1, <3>3
    <3>7. StrayOK(db, machine, cmds, mail, s, task, td2, ev2, late, r)
      <4> HIDE DEF StrayOK
      <4> QED BY <1>5, <1>6, <2>1, <3>4, <3>5, <3>6, RowBegins
    <3> QED BY <1>9, <3>7
  <2> QED BY <2>3, <2>4
<1>13. CASE fits /\ verb = "created" /\ state.row[x] = "unknown" /\ s = [state EXCEPT !.row[x] = "waiting"] /\ list = <<>>
  <2>1. s.held = state.held /\ s.row[r] = IF r = x THEN "waiting" ELSE state.row[r]
    BY <1>3, <1>13 DEF Pictures
  <2>2. \A what : ~Within(list, what, r)
    BY <1>11, <1>13
  <2>3. CASE r # x
    BY <1>1, <1>2, <1>10, <2>1, <2>2, <2>3
  <2>4. CASE r = x
    <3>1. db[r].status = "pending" /\ state.row[r] = "unknown" /\ s.row[r] = "waiting"
      BY <1>1, <1>7, <1>13, <2>1, <2>4
    <3>2. \A what : Acting(td2, what, r) => Acting(td, what, r)
      BY <1>4, <2>2
    <3>3. StrayOK(db, machine, cmds, mail, s, task, td2, ev2, late, r)
      <4> HIDE DEF StrayOK
      <4> QED BY <1>5, <1>6, <2>1, <3>1, <3>2, RowBegins
    <3> QED BY <1>9, <3>3
  <2> QED BY <2>3, <2>4
<1>14. CASE fits /\ verb # "created" /\ s = Shut(state, x) /\ list = IF verb = "ended" THEN CancelDispatch(state, x) ELSE <<>>
  <2>1. s.held = state.held /\ s.row[r] = IF r = x /\ IsOpen(state, x) THEN "closed" ELSE state.row[r]
    <3> HIDE DEF IsOpen
    <3> QED BY <1>3, <1>14, ShutOf
  <2>2. /\ \A what : Within(list, what, r) => what = "cancel" /\ r = x /\ verb = "ended" /\ state.row[x] \in Sent /\ x \notin state.held
        /\ verb = "ended" /\ r = x /\ state.row[x] \in Sent /\ x \notin state.held => Within(list, "cancel", r)
    <3>1. CASE verb = "ended" /\ state.row[x] \in Sent /\ x \notin state.held
      <4>1. list = <<Do("cancel", x)>>
        BY <1>14, <3>1 DEF CancelDispatch
      <4>2. DOMAIN list = {1} /\ list[1].do = "cancel" /\ list[1].row = x
        BY <4>1 DEF Do
      <4> QED BY <3>1, <4>2 DEF Within
    <3>2. CASE ~(verb = "ended" /\ state.row[x] \in Sent /\ x \notin state.held)
      <4>1. list = <<>>
        BY <1>14, <3>2 DEF CancelDispatch
      <4> QED BY <1>11, <3>2, <4>1
    <3> QED BY <3>1, <3>2
  <2>3. CASE r # x
    BY <1>1, <1>2, <1>10, <2>1, <2>2, <2>3
  <2>4. CASE r = x
    <3>1. db[r].status = "withdrawn" => verb = "ended"
      BY <1>1, <1>7, <1>14, <2>4
    <3>2. verb = "ended" => db[r].status = "withdrawn"
      BY <1>1, <1>7, <1>14, <2>4
    <3>3. ~IsOpen(s, r)
      BY <2>1, <2>4 DEF IsOpen, Open
    <3>4. ASSUME Acting(td, "dispatch", r) PROVE setting.unfit # {}
      BY <1>2, <3>4 DEF Blocked, Acting, Within
    <3>5. AskedOK(cmds, machine, state, task, td, r) /\ ThroughOK(db, machine, mail, state, task, td, late, r)
      BY <1>5 DEF StrayOK
    <3>6. ASSUME ~Excused(db, machine, late, r), ~Through(machine, r), Within(list, "cancel", r)
          PROVE Issued(cmds, machine, r) /\ db[r].status = "withdrawn"
      <4>1. state.row[r] \in Sent /\ db[r].status = "withdrawn"
        BY <2>2, <2>4, <3>2, <3>6
      <4> QED BY <3>4, <3>5, <3>6, <4>1 DEF AskedOK, Excused, Sent
    <3>7. ASSUME ~Excused(db, machine, late, r), ~Through(machine, r), db[r].status = "withdrawn", IsOpen(state, r)
          PROVE Within(list, "cancel", r) \/ (~Issued(cmds, machine, r) /\ ~Acting(td, "dispatch", r))
      <4>1. CASE state.row[r] \in Sent
        BY <2>2, <2>4, <3>1, <3>5, <3>7, <4>1 DEF ThroughOK
      <4>2. CASE state.row[r] = "waiting"
        BY <1>6, <3>5, <4>2 DEF AskedOK
      <4>3. CASE state.row[r] = "refused"
        BY <3>5, <3>7, <4>3 DEF ThroughOK, Excused
      <4> QED BY <3>7, <4>1, <4>2, <4>3 DEF IsOpen, Open, Sent
    <3>8. s.row[r] = state.row[r] \/ (IsOpen(state, r) /\ s.row[r] = "closed")
      BY <2>1, <2>4
    <3>9. /\ \A what : what # "cancel" => (Acting(td2, what, r) <=> Acting(td, what, r))
          /\ Acting(td, "cancel", r) => Acting(td2, "cancel", r)
          /\ Acting(td2, "cancel", r) => Acting(td, "cancel", r) \/ Within(list, "cancel", r)
          /\ Within(list, "cancel", r) => Acting(td2, "cancel", r)
      BY <1>4, <2>2
    <3>10. /\ Acting(td2, "dispatch", r) <=> Acting(td, "dispatch", r)
           /\ Acting(td2, "refuse", r) => Acting(td, "refuse", r)
           /\ Acting(td2, "accumulate", r) => Acting(td, "accumulate", r)
           /\ Acting(td2, "receive", r) => Acting(td, "receive", r)
           /\ Acting(td2, "fail", r) => Acting(td, "fail", r)
      BY <3>9
    <3> HIDE DEF Excused, IsOpen
    <3>11. PlanSteps(db, machine, cmds, state, task, td, events, s, td2, ev2, late, r)
      BY <2>1, <3>3, <3>6, <3>7, <3>8, <3>9, <3>10 DEF PlanSteps
    <3> QED BY <1>8, <3>11
  <2> QED BY <2>3, <2>4
<1>15. CASE (fits => verb = "created" /\ state.row[x] # "unknown") /\ s = state /\ list = <<>>
  <2>1. db[r].status = "withdrawn" => (<<r, "ended">> \in events => <<r, "ended">> \in ev2)
    <3>1. <<r, "ended">> = <<x, verb>> => r = x /\ verb = "ended"
      OBVIOUS
    <3>2. db[x].status = "withdrawn" /\ verb = "ended" => fits
      BY <1>1, <1>7
    <3> QED BY <1>1, <1>2, <1>15, <3>1, <3>2
  <2> QED BY <1>10, <1>11, <1>15, <2>1
<1> QED BY <1>1, <1>12, <1>13, <1>14, <1>15
\* A dispatch of a row ends: the machine took it, refused it, or is taken not to hold it.
LEMMA Answers ==
  ASSUME NEW rec, NEW M, NEW c, NEW m, NEW s, NEW t, NEW td, NEW ev, NEW late, NEW n, NEW u, NEW r,
         StrayOK(rec, M, c, m, s, t, td, ev, late, r), r \in n.held => r \in s.held,
         \/ n.row[r] = s.row[r]
         \/ IsOpen(s, r) /\ TaskOf(t, r).pc # "idle" /\ n.row[r] \in {"accepted", "refused"},
         \/ TaskOf(u, r) = TaskOf(t, r)
         \/ TaskOf(t, r).pc \in InFlight /\ TaskOf(u, r).pc \in {"idle", "claim", "fail"},
         n.row[r] = "refused" => s.row[r] = "refused" \/ late \/ Through(M, r),
         TaskOf(u, r).pc = "fail" => TaskOf(u, r) = TaskOf(t, r) \/ (late /\ ~TaskOf(u, r).refused) \/ Through(M, r),
         TaskOf(t, r).pc # "idle" => ~Acting(td, "refuse", r)
  PROVE  StrayOK(rec, M, c, m, n, u, td, ev, late, r)
<1> HIDE DEF Acting, Through, Issued, Excused, Cancels, Behind, Ran, TaskOf, Wired, Says, Refuses
<1>1. AskedOK(c, M, s, t, td, r) /\ ThroughOK(rec, M, m, s, t, td, late, r)
  BY DEF StrayOK
<1>2. AskedOK(c, M, n, u, td, r)
  <2>1. PICK p : AtPeriod(c, M, t, r, p)
    BY <1>1 DEF AskedOK
  <2>2. AtPeriod(c, M, u, r, p)
    BY <2>1 DEF AtPeriod
  <2> HIDE DEF AtPeriod
  <2> QED BY <1>1, <2>2 DEF AskedOK, InFlight
<1>3. ThroughOK(rec, M, m, n, u, td, late, r)
  BY <1>1 DEF ThroughOK, InFlight
<1>4. CASE Excused(rec, M, late, r) \/ Through(M, r)
  BY <1>2, <1>3, <1>4 DEF StrayOK
<1>5. CASE CancelOK(rec, M, c, t, td, r) /\ (Ended(rec, r) => Covered(rec, M, c, s, t, td, ev, r))
  <2>1. CancelOK(rec, M, c, u, td, r)
    BY <1>5 DEF CancelOK, InFlight
  <2>2. ASSUME Covered(rec, M, c, s, t, td, ev, r) PROVE Covered(rec, M, c, n, u, td, ev, r)
    <3>1. TaskOf(t, r).pc # "idle" => Issued(c, M, r)
      BY <1>1 DEF AskedOK
    <3>2. IsOpen(s, r) => IsOpen(n, r)
      BY DEF IsOpen, Open
    <3> HIDE DEF IsOpen
    <3> QED BY <2>2, <3>1, <3>2 DEF Covered, InFlight
  <2> QED BY <1>2, <1>3, <1>5, <2>1, <2>2 DEF StrayOK
<1> QED BY <1>4, <1>5 DEF StrayOK
\* What a message handler with no acts of its own leaves.
LEMMA AnswersCovered ==
  ASSUME TypeInv, UNCHANGED <<setting, db, events, machine, spent>>, InStep(World', state', task', Todo', events', Landed'),
         lane["messages"] = Idle, mail # <<>>, NEW s \in Pictures, NEW t \in [TaskNames -> Tasks],
         Perform("messages", s, t, <<>>, <<>>, FALSE), NEW r \in Rows,
         StrayOK(db, machine, cmds, mail, s, t, Todo, events, spent["timeout"] # 0, r)
  PROVE  CoveredNext(r)
<1>1. PICK e : e = <<>>
  OBVIOUS
<1>2. e \in Seq(Acts)
  BY <1>1, EmptySeq
<1>3. [Todo EXCEPT !["messages"] = e] = Todo
  <2>1. Todo["messages"] = e /\ DOMAIN Todo = Lanes
    BY <1>1 DEF Todo, Idle, Lanes
  <2>2. Todo = [l \in Lanes |-> Todo[l]]
    BY DEF Todo
  <2> HIDE DEF Todo
  <2> QED BY <2>1, <2>2
<1>4. StrayOK(db, machine, cmds, mail, s, t, [Todo EXCEPT !["messages"] = e], events', spent["timeout"] # 0, r)
  <2>1. PICK td : td = [Todo EXCEPT !["messages"] = e]
    OBVIOUS
  <2> HIDE DEF StrayOK, Todo
  <2>2. td = Todo /\ events' = events
    BY <1>3, <2>1
  <2>3. StrayOK(db, machine, cmds, mail, s, t, td, events', spent["timeout"] # 0, r)
    BY <2>2
  <2> QED BY <2>1, <2>3
<1>5. "messages" \in Lanes /\ Perform("messages", s, t, <<>>, e, FALSE) /\ FALSE \in BOOLEAN
  BY <1>1 DEF Lanes
<1> HIDE DEF StrayOK, Perform, CoveredNext, Todo
<1> QED BY <1>2, <1>4, <1>5, HandlerStays
LEMMA RepliesCovered ==
  ASSUME TypeInv, InStep(World, state, task, Todo, events, Landed), InStep(World', state', task', Todo', events', Landed'),
         setting' = setting, spent["restart"] = 0, NEW r \in Rows, CoveredNow(r), TakeReply
  PROVE  CoveredNext(r)
<1>1. PICK m \in Letters, s \in Pictures, t \in [TaskNames -> Tasks] : \E X \in SUBSET TaskNames : \E T \in SUBSET Rows :
         /\ m = mail[1] /\ m.kind = "reply" /\ m.row \in Rows /\ T = IF m.ok THEN {m.row} ELSE {}
         /\ X = {x \in TaskNames : task[x].pc = "reply" /\ x[1] = m.row /\ task[x].of = m.of}
         /\ s = Concluded(state, X, T) /\ t = Answered(state, X, T, TRUE)
         /\ Perform("messages", s, t, <<>>, <<>>, FALSE)
         /\ lane["messages"] = Idle /\ mail # <<>> /\ UNCHANGED <<db, events, machine, spent>>
  BY TakeReplyPlan, ZenonT(30)
<1>2. PICK X \in SUBSET TaskNames, T \in SUBSET Rows :
         /\ m = mail[1] /\ m.kind = "reply" /\ m.row \in Rows /\ T = IF m.ok THEN {m.row} ELSE {}
         /\ X = {x \in TaskNames : task[x].pc = "reply" /\ x[1] = m.row /\ task[x].of = m.of}
         /\ s = Concluded(state, X, T) /\ t = Answered(state, X, T, TRUE)
         /\ Perform("messages", s, t, <<>>, <<>>, FALSE)
         /\ lane["messages"] = Idle /\ mail # <<>> /\ UNCHANGED <<db, events, machine, spent>>
  BY <1>1
<1>3. PICK late, td, x : late = (spent["timeout"] # 0) /\ td = Todo /\ x = <<r, "first">>
  OBVIOUS
<1>4. x \in TaskNames /\ x[1] = r /\ x[2] = "first" /\ state \in Pictures
  BY <1>3 DEF TaskNames, Sends, TypeInv
<1>5. StrayOK(db, machine, cmds, mail, state, task, td, events, late, r)
  BY <1>3 DEF CoveredNow
<1>6. /\ s.held = state.held
      /\ s.row[r] = IF r \notin Asks(X) \/ ~IsOpen(state, r) THEN state.row[r] ELSE IF r \in T THEN "accepted" ELSE "refused"
  <2>1. X \subseteq TaskNames
    OBVIOUS
  <2>2. /\ \A q \in Rows : Concluded(state, X, T).row[q] =
              IF q \notin Asks(X) \/ ~IsOpen(state, q) THEN state.row[q] ELSE IF q \in T THEN "accepted" ELSE "refused"
        /\ Concluded(state, X, T).held = state.held
    BY <1>4, <2>1, ConcludedOf
  <2> HIDE DEF Asks, IsOpen
  <2> QED BY <1>2, <2>2
<1>7. /\ x \notin X => t[x] = task[x]
      /\ x \in X => t[x].pc \in {"idle", "claim", "fail"} /\ (t[x].pc = "fail" => x[1] \notin T)
  <2>1. X \subseteq TaskNames /\ TRUE \in BOOLEAN
    OBVIOUS
  <2>2. \A y \in TaskNames :
          /\ y \notin X => Answered(state, X, T, TRUE)[y] = task[y]
          /\ y \in X => LET a == Answered(state, X, T, TRUE)[y] IN
               /\ a.pc \in {"idle", "claim", "fail"} /\ (a.pc # "idle" => ~task[y].ended)
               /\ a.pc = "claim" => y[1] \in T
               /\ a.pc = "fail" => y[1] \notin T /\ IsOpen(state, y[1]) /\ a.refused = TRUE
    BY <1>4, <2>1, AnsweredOf
  <2> HIDE DEF IsOpen
  <2> QED BY <1>2, <1>4, <2>2
<1>8. /\ task[x].pc # "idle" => ~Acting(td, "refuse", r)
      /\ r \in Asks(X) => x \in X
  <2>1. PICK w : w = World
    OBVIOUS
  <2>2. InStep(w, state, task, td, events, Landed) /\ ~w.restarted /\ w.unfit = setting.unfit
    BY <1>3, <2>1 DEF World
  <2>3. ASSUME NEW y \in X PROVE y[2] = "first" /\ y \in TaskNames
    <3>1. y \in TaskNames /\ task[y].pc = "reply"
      BY <1>2, <2>3
    <3>2. PICK q \in Rows, k \in Sends : y = <<q, k>>
      BY <3>1 DEF TaskNames
    <3>3. TaskInStep(w, state, task, q, k)
      BY <2>2, <3>2 DEF InStep, TasksInStep
    <3>4. k = "first"
      BY <2>2, <3>1, <3>2, <3>3 DEF TaskInStep
    <3> QED BY <3>1, <3>2, <3>4
  <2>4. r \in Asks(X) => x \in X
    <3> SUFFICES ASSUME r \in Asks(X) PROVE x \in X
      OBVIOUS
    <3>1. PICK y \in X : y[1] = r
      BY DEF Asks
    <3>2. y = x
      BY <1>3, <2>3, <3>1 DEF TaskNames
    <3> QED BY <3>1, <3>2
  <2>5. TaskOf(task, r).pc # "idle" => r \notin w.unfit
    <3> HIDE DEF InStep, Acting
    <3> QED BY <2>2, AskedOnly
  <2>6. Acting(td, "refuse", r) => r \in w.unfit
    <3> HIDE DEF InStep
    <3> QED BY <2>2, AskedOnly
  <2> QED BY <1>3, <2>4, <2>5, <2>6 DEF TaskOf
<1>9. x \in X => m.row = r /\ task[x].pc = "reply"
  BY <1>2, <1>4
<1>10. m.row = r => r \in T \/ Through(machine, r)
  <2> SUFFICES ASSUME m.row = r, r \notin T PROVE Through(machine, r)
    OBVIOUS
  <2>1. ~m.ok
    BY <1>2
  <2>2. Refuses(mail, r)
    <3>1. mail \in Seq(Letters)
      BY DEF TypeInv
    <3>2. PICK q : q = mail
      OBVIOUS
    <3>3. 1 \in DOMAIN q
      BY <1>2, <3>1, <3>2
    <3> QED BY <1>2, <2>1, <3>2, <3>3 DEF Refuses
  <2> HIDE DEF Refuses, Through
  <2> QED BY <1>5, <2>2 DEF StrayOK, ThroughOK
<1>11. StrayOK(db, machine, cmds, mail, s, t, td, events, late, r)
  <2> HIDE DEF Through, Acting, IsOpen
  <2>1. TaskOf(t, r) = t[x] /\ TaskOf(task, r) = task[x]
    BY <1>3 DEF TaskOf
  <2>2. s.row[r] = state.row[r] \/ (IsOpen(state, r) /\ TaskOf(task, r).pc # "idle" /\ s.row[r] \in {"accepted", "refused"})
    BY <1>6, <1>8, <1>9, <2>1
  <2>3. \/ TaskOf(t, r) = TaskOf(task, r)
        \/ TaskOf(task, r).pc \in InFlight /\ TaskOf(t, r).pc \in {"idle", "claim", "fail"}
    BY <1>7, <1>9, <2>1 DEF InFlight
  <2>4. s.row[r] = "refused" => state.row[r] = "refused" \/ late \/ Through(machine, r)
    BY <1>6, <1>8, <1>9, <1>10
  <2>5. TaskOf(t, r).pc = "fail" => TaskOf(t, r) = TaskOf(task, r) \/ (late /\ ~TaskOf(t, r).refused) \/ Through(machine, r)
    BY <1>4, <1>7, <1>9, <1>10, <2>1
  <2>6. TaskOf(task, r).pc # "idle" => ~Acting(td, "refuse", r)
    BY <1>8, <2>1
  <2> HIDE DEF StrayOK, TaskOf
  <2> QED BY <1>5, <1>6, <2>2, <2>3, <2>4, <2>5, <2>6, Answers
<1>12. StrayOK(db, machine, cmds, mail, s, t, Todo, events, spent["timeout"] # 0, r)
  BY <1>3, <1>11
<1> HIDE DEF StrayOK, Perform, CoveredNext, Todo
<1> QED BY <1>2, <1>12, AnswersCovered
LEMMA FailActs ==
  ASSUME NEW s \in Pictures, NEW x \in Rows, NEW r \in Rows
  PROVE  /\ \A what : Within(FailHandoff(s, x), what, r) => what \in {"fail", "cancel"} /\ r = x
         /\ s.row[x] \in Sent /\ x \notin s.held => Within(FailHandoff(s, x), "cancel", x)
<1>1. PICK list : list = FailHandoff(s, x)
  OBVIOUS
<1>2. \A i \in DOMAIN list : list[i] = IF i = 1 THEN Do("fail", x) ELSE Do("cancel", x)
  BY <1>1, CancelOf
<1>3. \A what : Within(list, what, r) => what \in {"fail", "cancel"} /\ r = x
  BY <1>2 DEF Within, Do
<1>4. ASSUME s.row[x] \in Sent /\ x \notin s.held PROVE Within(list, "cancel", x)
  <2>1. PICK f, c : f = <<Do("fail", x)>> /\ c = <<Do("cancel", x)>>
    OBVIOUS
  <2>2. list = f \o c
    BY <1>1, <1>4, <2>1 DEF FailHandoff, CancelDispatch
  <2>3. f \in Seq({Do("fail", x), Do("cancel", x)}) /\ c \in Seq({Do("fail", x), Do("cancel", x)}) /\ Len(f) = 1 /\ Len(c) = 1
    BY <2>1
  <2>4. (f \o c) \in Seq({Do("fail", x), Do("cancel", x)}) /\ Len(f \o c) = 1 + 1
    BY <2>3, ConcatProperties, SMTT(30)
  <2>5. DOMAIN list = 1..2
    <3>1. DOMAIN (f \o c) = 1..Len(f \o c)
      BY <2>4, LenProperties
    <3> QED BY <2>2, <2>4, <3>1
  <2>6. list[2] = Do("cancel", x) /\ 2 \in DOMAIN list
    BY <1>2, <2>5
  <2> QED BY <2>6 DEF Within, Do
<1> QED BY <1>1, <1>3, <1>4
LEMMA JobsCovered ==
  ASSUME TypeInv, InStep(World', state', task', Todo', events', Landed'),
         setting' = setting, NEW r \in Rows, CoveredNow(r), TakeJob
  PROVE  CoveredNext(r)
<1>1. PICK m \in Letters, s \in Pictures, list \in Seq(Acts) :
         /\ m = mail[1] /\ m.kind \in {"arrived", "released", "withdrawn", "misread"} /\ m.row \in Rows
         /\ s = CASE m.kind = "arrived" /\ IsOpen(state, m.row) -> [state EXCEPT !.held = @ \cup {m.row}]
                  [] m.kind \in {"released", "withdrawn"} -> LetGo(state, m.row)
                  [] OTHER -> state
         /\ s.row = state.row
         /\ \/ (m.kind = "released" \/ ~IsOpen(state, m.row)) /\ list = <<>>
            \/ m.kind = "arrived" /\ IsOpen(state, m.row) /\ list = <<Do("accumulate", m.row)>>
            \/ m.kind \in {"withdrawn", "misread"} /\ IsOpen(state, m.row) /\ list = FailHandoff(s, m.row)
         /\ Perform("messages", s, task, <<>>, list, FALSE)
         /\ lane["messages"] = Idle /\ mail # <<>> /\ UNCHANGED <<db, events, machine, spent>>
  BY TakeJobPlan
<1>2. PICK td, td2, ev2, late, x : td = Todo /\ td2 = [td EXCEPT !["messages"] = list] /\ ev2 = events'
                                   /\ late = (spent["timeout"] # 0) /\ x = m.row
  OBVIOUS
<1>3. state \in Pictures /\ DOMAIN td = Lanes /\ td["messages"] = <<>> /\ "messages" \in Lanes
  BY <1>1, <1>2 DEF TypeInv, Todo, Idle, Lanes
<1>4. \A what : Acting(td2, what, r) <=> Acting(td, what, r) \/ Within(list, what, r)
  BY <1>2, <1>3, ActsAdded
<1>5. StrayOK(db, machine, cmds, mail, state, task, td, events, late, r)
  BY <1>2 DEF CoveredNow
<1>6. /\ r \in s.held => r \in state.held \/ (r = x /\ m.kind = "arrived")
      /\ m.kind = "misread" => s.held = state.held
  <2>1. PICK h, g : h = [state EXCEPT !.held = @ \cup {x}] /\ g = LetGo(state, x)
    OBVIOUS
  <2>2. h.held = state.held \cup {x}
    BY <1>3, <2>1 DEF Pictures
  <2>3. g.held \subseteq state.held
    BY <1>3, <2>1 DEF LetGo, Pictures
  <2>4. (s = h /\ m.kind = "arrived") \/ (s = g /\ m.kind # "misread") \/ s = state
    BY <1>1, <1>2, <2>1
  <2> QED BY <2>2, <2>3, <2>4
<1>7. r = x => Says(mail, m.kind, r)
  <2>1. mail \in Seq(Letters)
    BY DEF TypeInv
  <2>2. PICK q : q = mail
    OBVIOUS
  <2>3. 1 \in DOMAIN q
    BY <1>1, <2>1, <2>2
  <2> QED BY <1>1, <1>2, <2>2, <2>3 DEF Says
<1>8. /\ \A what : Within(list, what, r) =>
           /\ r = x /\ IsOpen(state, r)
           /\ \/ what = "accumulate" /\ m.kind = "arrived"
              \/ what \in {"fail", "cancel"} /\ m.kind \in {"withdrawn", "misread"}
      /\ r = x /\ Within(list, "fail", r) /\ state.row[r] \in Sent /\ r \notin s.held => Within(list, "cancel", r)
  <2> HIDE DEF IsOpen
  <2>1. CASE list = <<>>
    <3>1. DOMAIN list = {}
      BY <2>1
    <3> QED BY <3>1 DEF Within
  <2>2. CASE m.kind = "arrived" /\ IsOpen(state, x) /\ list = <<Do("accumulate", x)>>
    <3>1. DOMAIN list = {1} /\ list[1].do = "accumulate" /\ list[1].row = x
      BY <2>2 DEF Do
    <3> QED BY <2>2, <3>1 DEF Within
  <2>3. CASE m.kind \in {"withdrawn", "misread"} /\ IsOpen(state, x) /\ list = FailHandoff(s, x)
    <3>1. x \in Rows
      BY <1>1, <1>2
    <3>2. /\ \A what : Within(FailHandoff(s, x), what, r) => what \in {"fail", "cancel"} /\ r = x
          /\ s.row[x] \in Sent /\ x \notin s.held => Within(FailHandoff(s, x), "cancel", x)
      BY <3>1, FailActs
    <3> HIDE DEF Within
    <3> QED BY <1>1, <2>3, <3>2
  <2> QED BY <1>1, <1>2, <2>1, <2>2, <2>3
<1>9. AskedOK(cmds, machine, state, task, td, r) /\ ThroughOK(db, machine, mail, state, task, td, late, r)
  BY <1>5 DEF StrayOK
<1> HIDE DEF Acting, Within, Through, Issued, Cancels, TaskOf, Wired, Says
<1>10. r = x /\ m.kind \in {"arrived", "released", "withdrawn"} => Through(machine, r)
  BY <1>7, <1>9 DEF ThroughOK
<1>11. r = x /\ m.kind = "misread" => r \in machine.misread /\ Issued(cmds, machine, r)
  <2> SUFFICES ASSUME r = x, m.kind = "misread" PROVE r \in machine.misread /\ Issued(cmds, machine, r)
    OBVIOUS
  <2>1. r \in machine.misread /\ Ran(machine, "dispatch", r)
    BY <1>7, <1>9 DEF ThroughOK
  <2> QED BY <2>1 DEF Issued
<1> HIDE DEF Ran
<1>12. PlanSteps(db, machine, cmds, state, task, td, events, s, td2, ev2, late, r)
  <2>1. s.row[r] = state.row[r] /\ (IsOpen(state, r) => IsOpen(s, r)) /\ ev2 = events
    BY <1>1, <1>2 DEF IsOpen
  <2>2. r \in s.held => r \in state.held \/ Through(machine, r)
    BY <1>6, <1>10
  <2>3. /\ Acting(td2, "dispatch", r) <=> Acting(td, "dispatch", r)
        /\ Acting(td2, "refuse", r) => Acting(td, "refuse", r)
        /\ Acting(td2, "accumulate", r) => Acting(td, "accumulate", r) \/ Through(machine, r)
        /\ Acting(td2, "receive", r) => Acting(td, "receive", r)
        /\ Acting(td, "cancel", r) => Acting(td2, "cancel", r)
    <3> HIDE DEF IsOpen
    <3> QED BY <1>4, <1>8, <1>10
  <2>4. ASSUME ~Excused(db, machine, late, r), ~Through(machine, r), Within(list, "cancel", r)
        PROVE  Issued(cmds, machine, r) /\ r \in machine.misread
    <3> HIDE DEF IsOpen
    <3> QED BY <1>8, <1>10, <1>11, <2>4
  <2>5. ASSUME ~Excused(db, machine, late, r), ~Through(machine, r), Within(list, "fail", r)
        PROVE  Within(list, "cancel", r)
    <3>1. r = x /\ IsOpen(state, r) /\ m.kind = "misread"
      <4> HIDE DEF IsOpen
      <4> QED BY <1>8, <1>10, <2>5
    <3>2. r \notin s.held
      BY <1>6, <1>9, <2>5, <3>1 DEF ThroughOK
    <3>3. state.row[r] # "waiting" /\ r \notin setting.unfit
      BY <1>9, <1>11, <3>1 DEF AskedOK
    <3>4. state.row[r] # "refused"
      BY <1>9, <1>11, <2>5, <3>1, <3>3 DEF ThroughOK, Excused
    <3>5. state.row[r] \in Sent
      BY <3>1, <3>3, <3>4 DEF IsOpen, Open, Sent
    <3> QED BY <1>8, <2>5, <3>1, <3>2, <3>5
  <2> HIDE DEF IsOpen, Excused
  <2>6. /\ Acting(td2, "cancel", r) => Acting(td, "cancel", r) \/ Within(list, "cancel", r)
        /\ Acting(td2, "fail", r) => Acting(td, "fail", r) \/ Within(list, "fail", r)
        /\ Within(list, "cancel", r) => Acting(td2, "cancel", r)
    BY <1>4
  <2> QED BY <2>1, <2>2, <2>3, <2>4, <2>5, <2>6 DEF PlanSteps
<1>13. PlanSteps(db, machine, cmds, state, task, Todo, events, s, [Todo EXCEPT !["messages"] = list], events', spent["timeout"] # 0, r)
  BY <1>2, <1>12
<1>14. FALSE \in BOOLEAN /\ UNCHANGED <<setting, db, machine, spent>>
  BY <1>1
<1> HIDE DEF PlanSteps, Perform, CoveredNow, CoveredNext, Todo
<1> QED BY <1>1, <1>3, <1>13, <1>14, PlanStays
LEMMA SnapshotsCovered ==
  ASSUME TypeInv, Kept, InStep(World, state, task, Todo, events, Landed), InStep(World', state', task', Todo', events', Landed'),
         setting' = setting, spent["restart"] = 0, NEW r \in Rows, CoveredNow(r), TakeSnapshot
  PROVE  CoveredNext(r)
<1>1. /\ \E m \in Letters, k \in Pictures, s \in Pictures, t \in [TaskNames -> Tasks], out \in Seq(Cmds) :
            \E X \in SUBSET TaskNames : \E open \in SUBSET Rows : \E again \in SUBSET Rows :
              SnapshotPlan(m, k, s, t, out, X, open, again) /\ Perform("messages", s, t, out, <<>>, FALSE)
      /\ lane["messages"] = Idle /\ mail # <<>> /\ UNCHANGED <<db, events, machine, spent>>
  BY TakeSnapshotPlan
<1>2. PICK m \in Letters, k \in Pictures, s \in Pictures, t \in [TaskNames -> Tasks], out \in Seq(Cmds) :
            \E X \in SUBSET TaskNames : \E open \in SUBSET Rows : \E again \in SUBSET Rows :
              SnapshotPlan(m, k, s, t, out, X, open, again) /\ Perform("messages", s, t, out, <<>>, FALSE)
  BY <1>1
<1>3. PICK X \in SUBSET TaskNames : \E open \in SUBSET Rows : \E again \in SUBSET Rows :
              SnapshotPlan(m, k, s, t, out, X, open, again) /\ Perform("messages", s, t, out, <<>>, FALSE)
  BY <1>2
<1>4. PICK open \in SUBSET Rows, again \in SUBSET Rows :
              SnapshotPlan(m, k, s, t, out, X, open, again) /\ Perform("messages", s, t, out, <<>>, FALSE)
  BY <1>3
<1>5. PICK w, late, td, x, jobs : w = World /\ late = (spent["timeout"] # 0) /\ td = Todo /\ x = <<r, "first">> /\ jobs = m.jobs
  OBVIOUS
<1>6. x \in TaskNames /\ x[1] = r /\ x[2] = "first" /\ state \in Pictures
  BY <1>5 DEF TaskNames, Sends, TypeInv
<1>7. InStep(w, state, task, td, events, Landed) /\ ~w.restarted /\ w.unfit = setting.unfit /\ (w.late <=> late)
  BY <1>5 DEF World
<1>8. open = {} /\ again = {} /\ out = <<>>
  <2>1. state.boot \in {0, 1}
    BY <1>7 DEF InStep
  <2>2. m.boot = 1
    <3>1. PICK q : q = mail
      OBVIOUS
    <3>2. 1 \in DOMAIN q
      BY <1>1, <3>1 DEF TypeInv
    <3> QED BY <1>4, <3>1, <3>2 DEF Kept, SnapshotPlan
  <2>3. open = {} /\ again = {}
    BY <1>4, <2>1, <2>2 DEF SnapshotPlan
  <2> QED BY <1>4, <2>3 DEF SnapshotPlan
<1>9. /\ X = {y \in TaskNames : task[y].pc = "status"} /\ k.row = state.row /\ s = Concluded(k, X, jobs)
      /\ \A y \in TaskNames : t[y] = Answered(k, X, jobs, FALSE)[y]
      /\ \A q \in Rows : q \in k.held => q \in state.held
  BY <1>4, <1>5, <1>8 DEF SnapshotPlan
<1>10. StrayOK(db, machine, cmds, mail, state, task, td, events, late, r)
  BY <1>5 DEF CoveredNow
<1>11. /\ s.held = k.held
       /\ s.row[r] = IF r \notin Asks(X) \/ ~IsOpen(k, r) THEN k.row[r] ELSE IF r \in jobs THEN "accepted" ELSE "refused"
  <2>1. X \subseteq TaskNames
    OBVIOUS
  <2>2. /\ \A q \in Rows : Concluded(k, X, jobs).row[q] =
              IF q \notin Asks(X) \/ ~IsOpen(k, q) THEN k.row[q] ELSE IF q \in jobs THEN "accepted" ELSE "refused"
        /\ Concluded(k, X, jobs).held = k.held
    BY <2>1, ConcludedOf, SMTT(30)
  <2> HIDE DEF Asks, IsOpen
  <2> QED BY <1>9, <2>2
<1>12. /\ x \notin X => t[x] = task[x]
       /\ x \in X => t[x].pc \in {"idle", "claim", "fail"} /\ (t[x].pc = "fail" => ~t[x].refused)
  <2>1. X \subseteq TaskNames /\ FALSE \in BOOLEAN /\ k \in Pictures
    OBVIOUS
  <2>2. \A y \in TaskNames :
          /\ y \notin X => Answered(k, X, jobs, FALSE)[y] = task[y]
          /\ y \in X => LET a == Answered(k, X, jobs, FALSE)[y] IN
               /\ a.pc \in {"idle", "claim", "fail"} /\ (a.pc # "idle" => ~task[y].ended)
               /\ a.pc = "claim" => y[1] \in jobs
               /\ a.pc = "fail" => y[1] \notin jobs /\ IsOpen(k, y[1]) /\ a.refused = FALSE
    <3>1. PICK no \in BOOLEAN : no = FALSE
      OBVIOUS
    <3>2. PICK a : a = Answered(k, X, jobs, no)
      OBVIOUS
    <3>3. \A y \in TaskNames :
            /\ y \notin X => a[y] = task[y]
            /\ y \in X => /\ a[y].pc \in {"idle", "claim", "fail"} /\ (a[y].pc # "idle" => ~task[y].ended)
                          /\ a[y].pc = "claim" => y[1] \in jobs
                          /\ a[y].pc = "fail" => y[1] \notin jobs /\ IsOpen(k, y[1]) /\ a[y].refused = no
      BY <2>1, <3>2, AnsweredOf
    <3> HIDE DEF IsOpen
    <3> QED BY <3>1, <3>2, <3>3
  <2> HIDE DEF IsOpen
  <2> QED BY <1>6, <1>9, <2>2
<1>13. /\ task[x].pc # "idle" => ~Acting(td, "refuse", r)
       /\ r \in Asks(X) => x \in X
       /\ x \in X => late
  <2>1. ASSUME NEW y \in X PROVE y[2] = "first" /\ y \in TaskNames /\ late
    <3>1. y \in TaskNames /\ task[y].pc = "status"
      BY <1>9, <2>1
    <3>2. PICK q \in Rows, j \in Sends : y = <<q, j>>
      BY <3>1 DEF TaskNames
    <3>3. TaskInStep(w, state, task, q, j)
      BY <1>7, <3>2 DEF InStep, TasksInStep
    <3>4. j = "first" /\ w.late
      BY <1>7, <3>1, <3>2, <3>3 DEF TaskInStep
    <3> QED BY <1>7, <3>1, <3>2, <3>4
  <2>2. r \in Asks(X) => x \in X
    <3> SUFFICES ASSUME r \in Asks(X) PROVE x \in X
      OBVIOUS
    <3>1. PICK y \in X : y[1] = r
      BY DEF Asks
    <3>2. y = x
      BY <1>5, <2>1, <3>1 DEF TaskNames
    <3> QED BY <3>1, <3>2
  <2>3. TaskOf(task, r).pc # "idle" => r \notin w.unfit
    <3> HIDE DEF InStep, Acting
    <3> QED BY <1>7, AskedOnly
  <2>4. Acting(td, "refuse", r) => r \in w.unfit
    <3> HIDE DEF InStep
    <3> QED BY <1>7, AskedOnly
  <2> QED BY <1>5, <2>1, <2>2, <2>3, <2>4 DEF TaskOf
<1>14. x \in X => task[x].pc = "status"
  BY <1>9
<1>15. StrayOK(db, machine, cmds, mail, s, t, td, events, late, r)
  <2> HIDE DEF Through, Acting
  <2>1. TaskOf(t, r) = t[x] /\ TaskOf(task, r) = task[x]
    BY <1>5 DEF TaskOf
  <2>2. IsOpen(k, r) <=> IsOpen(state, r)
    BY <1>9 DEF IsOpen
  <2> HIDE DEF IsOpen
  <2>3. s.row[r] = state.row[r] \/ (IsOpen(state, r) /\ TaskOf(task, r).pc # "idle" /\ s.row[r] \in {"accepted", "refused"})
    BY <1>9, <1>11, <1>13, <1>14, <2>1, <2>2
  <2>4. \/ TaskOf(t, r) = TaskOf(task, r)
        \/ TaskOf(task, r).pc \in InFlight /\ TaskOf(t, r).pc \in {"idle", "claim", "fail"}
    BY <1>12, <1>14, <2>1 DEF InFlight
  <2>5. s.row[r] = "refused" => state.row[r] = "refused" \/ late \/ Through(machine, r)
    BY <1>9, <1>11, <1>13
  <2>6. TaskOf(t, r).pc = "fail" => TaskOf(t, r) = TaskOf(task, r) \/ (late /\ ~TaskOf(t, r).refused) \/ Through(machine, r)
    BY <1>12, <1>13, <2>1
  <2>7. TaskOf(task, r).pc # "idle" => ~Acting(td, "refuse", r)
    BY <1>13, <2>1
  <2>8. r \in s.held => r \in state.held
    BY <1>9, <1>11
  <2> HIDE DEF StrayOK, TaskOf
  <2> QED BY <1>10, <2>3, <2>4, <2>5, <2>6, <2>7, <2>8, Answers
<1>16. StrayOK(db, machine, cmds, mail, s, t, Todo, events, spent["timeout"] # 0, r)
  BY <1>5, <1>15
<1>17. Perform("messages", s, t, <<>>, <<>>, FALSE) /\ UNCHANGED <<setting, db, events, machine, spent>>
  BY <1>1, <1>4, <1>8
<1> HIDE DEF StrayOK, Perform, CoveredNext, Todo
<1> QED BY <1>1, <1>16, <1>17, AnswersCovered
LEMMA ReadsBackCovered ==
  ASSUME TypeInv, InStep(World', state', task', Todo', events', Landed'),
         setting' = setting, NEW r \in Rows, CoveredNow(r), ReadBack
  PROVE  CoveredNext(r)
<1>1. PICK k \in Pictures :
         /\ k.row = state.row
         /\ \A q \in Rows : q \in k.held <=> q \in state.held /\ q \in machine.said.jobs
         /\ Perform("events", k, task, <<>>, <<>>, FALSE)
         /\ lane["events"] = Idle /\ UNCHANGED <<db, events, machine, spent>>
  BY ReadBackPlan
<1>2. PICK e, td, td2, ev2, late : e = <<>> /\ td = Todo /\ td2 = [td EXCEPT !["events"] = e] /\ ev2 = events' /\ late = (spent["timeout"] # 0)
  OBVIOUS
<1>3. DOMAIN td = Lanes /\ td["events"] = <<>> /\ "events" \in Lanes /\ e \in Seq(Acts) /\ DOMAIN e = {}
  BY <1>1, <1>2, EmptySeq DEF Todo, Idle, Lanes
<1>4. \A what : Acting(td2, what, r) <=> Acting(td, what, r) \/ Within(e, what, r)
  BY <1>2, <1>3, ActsAdded
<1>5. \A what : ~Within(e, what, r)
  BY <1>3 DEF Within
<1>6. PlanSteps(db, machine, cmds, state, task, td, events, k, td2, ev2, late, r)
  <2> HIDE DEF Acting, Within, Through, Issued, Excused, Cancels, TaskOf
  <2>1. k.row[r] = state.row[r] /\ (IsOpen(state, r) => IsOpen(k, r)) /\ (r \in k.held => r \in state.held) /\ ev2 = events
    BY <1>1, <1>2 DEF IsOpen
  <2>2. \A what : Acting(td2, what, r) <=> Acting(td, what, r)
    BY <1>4, <1>5
  <2> HIDE DEF IsOpen
  <2> QED BY <2>1, <2>2 DEF PlanSteps
<1>7. PlanSteps(db, machine, cmds, state, task, Todo, events, k, [Todo EXCEPT !["events"] = e], events', spent["timeout"] # 0, r)
  BY <1>2, <1>6
<1>8. FALSE \in BOOLEAN /\ UNCHANGED <<setting, db, machine, spent>> /\ Perform("events", k, task, <<>>, e, FALSE) /\ "events" # "messages"
  BY <1>1, <1>2
<1> HIDE DEF PlanSteps, Perform, CoveredNow, CoveredNext, Todo
<1> QED BY <1>1, <1>3, <1>7, <1>8, PlanStays
LEMMA TakesOverCovered ==
  ASSUME TypeInv, InStep(World', state', task', Todo', events', Landed'), \A q \in Rows : db[q].status = "none",
         setting' = setting, NEW r \in Rows, CoveredNow(r), TakeOver
  PROVE  CoveredNext(r)
<1>1. PICK s \in Pictures, list \in Seq(Acts) :
         /\ \A q \in Rows : s.row[q] = IF Claimed(q) THEN "accepted" ELSE IF db[q].status = "pending" THEN "waiting" ELSE "unknown"
         /\ \A q \in Rows : q \in s.held <=> Claimed(q) /\ db[q].item
         /\ \A i \in DOMAIN list : list[i].do = "receive" /\ list[i].row \in Rows /\ Claimed(list[i].row)
         /\ Perform("events", s, task, <<>>, list, TRUE)
         /\ gateway = "down" /\ UNCHANGED <<db, events, machine, spent>>
  BY TakeOverPlan
<1>2. PICK td, td2, ev2, late : td = Todo /\ td2 = [td EXCEPT !["events"] = list] /\ ev2 = events' /\ late = (spent["timeout"] # 0)
  OBVIOUS
<1>3. DOMAIN td = Lanes /\ td["events"] = <<>> /\ "events" \in Lanes
  BY <1>1, <1>2 DEF Todo, Idle, Lanes, TypeInv, DownOK
<1>4. \A what : Acting(td2, what, r) <=> Acting(td, what, r) \/ Within(list, what, r)
  BY <1>2, <1>3, ActsAdded
<1>5. \A q \in Rows : ~Claimed(q) /\ s.row[q] = "unknown" /\ q \notin s.held
  BY <1>1 DEF Claimed
<1>6. \A what : ~Within(list, what, r)
  BY <1>1, <1>5 DEF Within
<1>7. state.row[r] = "unknown"
  BY <1>1 DEF TypeInv, DownOK, Blank
<1>8. PlanSteps(db, machine, cmds, state, task, td, events, s, td2, ev2, late, r)
  <2> HIDE DEF Acting, Within, Through, Issued, Excused, Cancels, TaskOf
  <2>1. s.row[r] = state.row[r] /\ (IsOpen(state, r) => IsOpen(s, r)) /\ r \notin s.held /\ ev2 = events
    BY <1>1, <1>2, <1>5, <1>7 DEF IsOpen
  <2>2. \A what : Acting(td2, what, r) <=> Acting(td, what, r)
    BY <1>4, <1>6
  <2> HIDE DEF IsOpen
  <2> QED BY <2>1, <2>2 DEF PlanSteps
<1>9. PlanSteps(db, machine, cmds, state, task, Todo, events, s, [Todo EXCEPT !["events"] = list], events', spent["timeout"] # 0, r)
  BY <1>2, <1>8
<1>10. TRUE \in BOOLEAN /\ UNCHANGED <<setting, db, machine, spent>> /\ "events" # "messages"
  BY <1>1
<1> HIDE DEF PlanSteps, Perform, CoveredNow, CoveredNext, Todo
<1> QED BY <1>1, <1>3, <1>9, <1>10, PlanStays

\* Of a list, nothing is left to dispatch behind a verb, unless a refusal stands before it.
Unblocked(list) == setting.unfit # {} \/ (\A i \in DOMAIN list : list[i].do # "dispatch") \/ \A i \in DOMAIN list : list[i].do \notin Verbs
LEMMA RestBlocked ==
  ASSUME NEW list \in Seq(Acts), Unblocked(list), NEW i \in DOMAIN Rest(list), Rest(list)[i].do = "dispatch"
  PROVE  setting.unfit # {}
<1>1. PICK rest, u : rest = Rest(list) /\ u = Upto(list)
  OBVIOUS
<1>2. /\ \A j \in DOMAIN rest : u + j \in DOMAIN list /\ rest[j] = list[u + j]
      /\ rest # <<>> => rest[1].do \in Verbs
      /\ DOMAIN rest = 1..(Len(list) - u) /\ Len(list) \in Nat /\ u \in 0..Len(list)
  BY <1>1, RestOf, Cut
<1>3. i \in DOMAIN rest /\ rest[i].do = "dispatch"
  BY <1>1
<1>4. 1 \in DOMAIN rest /\ rest # <<>>
  <2>1. 1 \in DOMAIN rest
    BY <1>2, <1>3
  <2> QED BY <2>1
<1>5. u + i \in DOMAIN list /\ list[u + i].do = "dispatch" /\ u + 1 \in DOMAIN list /\ list[u + 1].do \in Verbs
  BY <1>2, <1>3, <1>4
<1> QED BY <1>5 DEF Unblocked
LEMMA BlockedStays ==
  ASSUME TypeInv, Blocked(Todo), NEW l \in Lanes, NEW s \in Pictures, NEW t \in [TaskNames -> Tasks],
         NEW out \in Seq(Cmds), NEW list \in Seq(Acts), NEW paced \in BOOLEAN,
         Perform(l, s, t, out, list, paced), l = "messages" => mail # <<>>, Unblocked(list)
  PROVE  Blocked(Todo')
<1>1. PICK more : more = Actions(Goes(s))
  OBVIOUS
<1>2. /\ more \in Seq(Acts) /\ Goes(s) \subseteq Rows
      /\ \/ Todo' = [Todo EXCEPT ![l] = Rest(list)]
         \/ Todo' = [Todo EXCEPT ![l] = Rest(more)]
  <2> HIDE DEF Todo
  <2> QED BY <1>1, Performs
<1>3. Unblocked(more)
  <2>1. \A i \in DOMAIN Actions(Goes(s)) :
          /\ Actions(Goes(s))[i].row \in Goes(s)
          /\ Actions(Goes(s))[i].do = IF Actions(Goes(s))[i].row \in setting.unfit THEN "refuse" ELSE "dispatch"
    BY <1>2, ActionsOf
  <2>2. \A i \in DOMAIN more : more[i].do = IF more[i].row \in setting.unfit THEN "refuse" ELSE "dispatch"
    BY <1>1, <2>1
  <2> QED BY <2>2 DEF Unblocked, Verbs
<1>4. PICK td, td2 : td = Todo /\ td2 = Todo'
  OBVIOUS
<1>5. \A k \in Lanes : td2[k] = td[k] \/ td2[k] = Rest(list) \/ td2[k] = Rest(more)
  <2>1. DOMAIN td = Lanes
    BY <1>4 DEF Todo
  <2>2. PICK a, b : a = Rest(list) /\ b = Rest(more)
    OBVIOUS
  <2>3. td2 = [td EXCEPT ![l] = a] \/ td2 = [td EXCEPT ![l] = b]
    <3> HIDE DEF Todo, Rest
    <3> QED BY <1>2, <1>4, <2>2
  <2>4. \A k \in Lanes : td2[k] = td[k] \/ td2[k] = a \/ td2[k] = b
    BY <2>1, <2>3
  <2> QED BY <2>2, <2>4
<1>6. ASSUME NEW k \in Lanes, NEW i \in DOMAIN td2[k], td2[k][i].do = "dispatch" PROVE setting.unfit # {}
  <2>1. CASE td2[k] = td[k]
    BY <1>4, <1>6, <2>1 DEF Blocked
  <2>2. CASE td2[k] = Rest(list)
    BY <1>6, <2>2, RestBlocked
  <2>3. CASE td2[k] = Rest(more)
    BY <1>2, <1>3, <1>6, <2>3, RestBlocked
  <2> QED BY <1>5, <2>1, <2>2, <2>3
<1> QED BY <1>4, <1>6 DEF Blocked
LEMMA HandlersBlocked ==
  ASSUME TypeInv, Blocked(Todo),
         \/ \E l \in Lanes : VerbReturns(l)
         \/ \E r \in Rows, verb \in Happenings : OnEscalation(r, verb)
         \/ TakeReply \/ TakeJob \/ TakeSnapshot \/ TakeOver \/ ReadBack
  PROVE  Blocked(Todo')
<1>0. /\ task \in [TaskNames -> Tasks] /\ TRUE \in BOOLEAN /\ FALSE \in BOOLEAN /\ "events" \in Lanes /\ "messages" \in Lanes
      /\ "events" # "messages"
  BY DEF TypeInv, Lanes
<1>1. PICK e, o : e = <<>> /\ o = <<>>
  OBVIOUS
<1>2. e \in Seq(Acts) /\ o \in Seq(Cmds) /\ DOMAIN e = {}
  BY <1>1, EmptySeq
<1>3. Unblocked(e)
  BY <1>2 DEF Unblocked
<1>4. ASSUME NEW l \in Lanes, NEW s \in Pictures, NEW t \in [TaskNames -> Tasks], NEW out \in Seq(Cmds), NEW list \in Seq(Acts),
             NEW paced \in BOOLEAN, Perform(l, s, t, out, list, paced), l = "messages" => mail # <<>>, Unblocked(list)
      PROVE  Blocked(Todo')
  <2> HIDE DEF Perform, Blocked, Unblocked, Todo
  <2> QED BY <1>4, BlockedStays
<1>5. ASSUME NEW l \in Lanes, VerbReturns(l) PROVE Blocked(Todo')
  <2>1. PICK a \in Acts, s \in Pictures, list \in Seq(Acts) :
         /\ lane[l].todo # <<>> /\ a = lane[l].todo[1]
         /\ list = IF a.do = "accumulate" /\ db[a.row].item THEN <<Do("receive", a.row)>> \o Tail(lane[l].todo)
                   ELSE Tail(lane[l].todo)
         /\ Perform(l, s, task, <<>>, list, lane[l].pc = "pacing")
    BY <1>5, VerbReturnsPlan
  <2>2. PICK todo, x, p, more : todo = lane[l].todo /\ x = a.row /\ p = (lane[l].pc = "pacing") /\ more = (a.do = "accumulate" /\ db[a.row].item)
    OBVIOUS
  <2>3. todo \in Seq(Acts) /\ todo # <<>> /\ x \in Rows /\ (l = "messages" => mail # <<>>) /\ more \in BOOLEAN /\ p \in BOOLEAN
    <3>1. lane[l].todo # <<>> /\ a = lane[l].todo[1]
      BY <2>1
    <3>2. lane[l].todo[1].row \in Rows /\ lane[l].todo \in Seq(Acts) /\ (l = "messages" => mail # <<>>)
      BY <3>1, AtWork
    <3> QED BY <2>2, <3>1, <3>2
  <2>4. (more => list = <<Do("receive", x)>> \o Tail(todo)) /\ (~more => list = Tail(todo))
    BY <2>1, <2>2
  <2>5. ASSUME NEW i \in DOMAIN list, list[i].do = "dispatch" PROVE setting.unfit # {}
    <3>1. list[i].row \in Rows
      <4>1. list[i] \in Acts
        BY <2>5
      <4> QED BY <4>1 DEF Acts
    <3>2. PICK r \in Rows : Within(list, "dispatch", r)
      BY <2>5, <3>1 DEF Within
    <3>3. \A what : Within(list, what, r) => Within(todo, what, r) \/ (more /\ what = "receive" /\ r = x)
      BY <2>3, <2>4, ActsLeft
    <3>4. Within(todo, "dispatch", r)
      <4> HIDE DEF Within
      <4> QED BY <3>2, <3>3
    <3>5. Todo[l] = todo
      BY <2>2 DEF Todo
    <3> QED BY <3>4, <3>5 DEF Within, Blocked
  <2>6. Unblocked(list)
    BY <2>5 DEF Unblocked
  <2>7. Perform(l, s, task, o, list, p)
    BY <1>1, <2>1, <2>2
  <2> HIDE DEF Perform, Blocked, Unblocked, Todo
  <2> QED BY <1>0, <1>2, <1>4, <2>3, <2>6, <2>7
<1>6. ASSUME NEW r \in Rows, NEW verb \in Happenings, OnEscalation(r, verb) PROVE Blocked(Todo')
  <2>1. PICK s \in Pictures, list \in Seq(Acts) :
          /\ list = Actions({r}) \/ list = e \/ list = CancelDispatch(state, r)
          /\ Perform("events", s, task, o, list, FALSE)
    BY <1>1, <1>6, OnEscalationPlan
  <2>2. CASE list = Actions({r})
    <3>1. {r} \subseteq Rows
      OBVIOUS
    <3>2. \A i \in DOMAIN Actions({r}) :
            /\ Actions({r})[i].row \in {r}
            /\ Actions({r})[i].do = IF Actions({r})[i].row \in setting.unfit THEN "refuse" ELSE "dispatch"
      BY <3>1, ActionsOf
    <3>3. \A i \in DOMAIN list : list[i].do = IF list[i].row \in setting.unfit THEN "refuse" ELSE "dispatch"
      BY <2>2, <3>2
    <3>4. Unblocked(list)
      BY <3>3 DEF Unblocked, Verbs
    <3> HIDE DEF Perform, Blocked, Unblocked, Todo
    <3> QED BY <1>0, <1>2, <1>4, <2>1, <3>4
  <2>3. CASE list = e \/ list = CancelDispatch(state, r)
    <3>1. \A i \in DOMAIN CancelDispatch(state, r) : CancelDispatch(state, r)[i] = Do("cancel", r)
      BY CancelOf DEF TypeInv
    <3>2. \A i \in DOMAIN list : list[i].do # "dispatch"
      BY <1>2, <2>3, <3>1 DEF Do
    <3>3. Unblocked(list)
      BY <3>2 DEF Unblocked
    <3> HIDE DEF Perform, Blocked, Unblocked, Todo
    <3> QED BY <1>0, <1>2, <1>4, <2>1, <3>3
  <2> QED BY <2>1, <2>2, <2>3
<1>7. CASE TakeReply
  <2>1. PICK s \in Pictures, t \in [TaskNames -> Tasks] : Perform("messages", s, t, o, e, FALSE) /\ mail # <<>>
    BY <1>1, <1>7, TakeReplyPlan
  <2> HIDE DEF Perform, Blocked, Unblocked, Todo
  <2> QED BY <1>0, <1>2, <1>3, <1>4, <2>1
<1>8. CASE TakeJob
  <2>1. PICK m \in Letters, s \in Pictures, list \in Seq(Acts) :
          /\ m.row \in Rows /\ (list = e \/ list = <<Do("accumulate", m.row)>> \/ list = FailHandoff(s, m.row))
          /\ Perform("messages", s, task, o, list, FALSE) /\ mail # <<>>
    BY <1>1, <1>8, TakeJobPlan, ZenonT(30)
  <2>2. \A i \in DOMAIN FailHandoff(s, m.row) : FailHandoff(s, m.row)[i] = IF i = 1 THEN Do("fail", m.row) ELSE Do("cancel", m.row)
    BY <2>1, CancelOf
  <2>3. \A i \in DOMAIN list : list[i].do # "dispatch"
    <3>1. CASE list = <<Do("accumulate", m.row)>>
      BY <3>1 DEF Do
    <3>2. CASE list = e \/ list = FailHandoff(s, m.row)
      BY <1>2, <2>2, <3>2 DEF Do
    <3> QED BY <2>1, <3>1, <3>2
  <2>4. Unblocked(list)
    BY <2>3 DEF Unblocked
  <2> HIDE DEF Perform, Blocked, Unblocked, Todo
  <2> QED BY <1>0, <1>2, <1>4, <2>1, <2>4
<1>9. CASE TakeSnapshot
  <2>1. PICK s \in Pictures, t \in [TaskNames -> Tasks], out \in Seq(Cmds) : Perform("messages", s, t, out, e, FALSE) /\ mail # <<>>
    BY <1>1, <1>9, TakeSnapshotPlan
  <2> HIDE DEF Perform, Blocked, Unblocked, Todo
  <2> QED BY <1>0, <1>2, <1>3, <1>4, <2>1
<1>10. CASE TakeOver
  <2>1. PICK s \in Pictures, list \in Seq(Acts) :
          /\ \A i \in DOMAIN list : list[i].do = "receive"
          /\ Perform("events", s, task, o, list, TRUE)
    BY <1>1, <1>10, TakeOverPlan
  <2>2. Unblocked(list)
    BY <2>1 DEF Unblocked
  <2> HIDE DEF Perform, Blocked, Unblocked, Todo
  <2> QED BY <1>0, <1>2, <1>4, <2>1, <2>2
<1>11. CASE ReadBack
  <2>1. PICK s \in Pictures : Perform("events", s, task, o, e, FALSE)
    BY <1>1, <1>11, ReadBackPlan
  <2> HIDE DEF Perform, Blocked, Unblocked, Todo
  <2> QED BY <1>0, <1>2, <1>3, <1>4, <2>1
<1> QED BY <1>5, <1>6, <1>7, <1>8, <1>9, <1>10, <1>11
\* A row changes in Long Tail, or a task of it moves on.
LEMMA RowChanges ==
  ASSUME NEW rec, NEW M, NEW c, NEW m, NEW s, NEW t, NEW td, NEW ev, NEW late, NEW rec2, NEW u, NEW ev2, NEW r,
         StrayOK(rec, M, c, m, s, t, td, ev, late, r), <<r, "ended">> \in ev => <<r, "ended">> \in ev2,
         rec[r].status = "withdrawn" => rec2[r].status = "withdrawn",
         rec2[r].item => rec[r].item \/ Through(M, r),
         rec2[r].status = "received" => rec[r].status = "received" \/ Through(M, r),
         \/ TaskOf(u, r) = TaskOf(t, r)
         \/ TaskOf(t, r).pc = "claim" /\ TaskOf(u, r).pc = "idle"
         \/ TaskOf(t, r).pc = "fail" /\ TaskOf(u, r).pc = "failed" /\ TaskOf(u, r).refused = TaskOf(t, r).refused,
         Ended(rec2, r) =>
           Ended(rec, r) \/ Through(M, r) \/ (CancelOK(rec, M, c, t, td, r) => Covered(rec2, M, c, s, u, td, ev2, r))
  PROVE  StrayOK(rec2, M, c, m, s, u, td, ev2, late, r)
<1> HIDE DEF Acting, Through, Issued, Cancels, Behind, Ran, TaskOf, Wired, Says, Refuses, Ended, IsOpen
<1>1. AskedOK(c, M, s, t, td, r) /\ ThroughOK(rec, M, m, s, t, td, late, r)
  BY DEF StrayOK
<1>2. AskedOK(c, M, s, u, td, r)
  <2>1. PICK p : AtPeriod(c, M, t, r, p)
    BY <1>1 DEF AskedOK
  <2>2. AtPeriod(c, M, u, r, p)
    BY <2>1 DEF AtPeriod
  <2> HIDE DEF AtPeriod
  <2> QED BY <1>1, <2>2 DEF AskedOK
<1>3. ThroughOK(rec2, M, m, s, u, td, late, r)
  BY <1>1 DEF ThroughOK
<1>4. CASE Excused(rec, M, late, r) \/ Through(M, r)
  BY <1>2, <1>3, <1>4 DEF StrayOK, Excused
<1>5. CASE CancelOK(rec, M, c, t, td, r) /\ (Ended(rec, r) => Covered(rec, M, c, s, t, td, ev, r)) /\ ~Through(M, r)
  <2>1. CancelOK(rec2, M, c, u, td, r)
    BY <1>5 DEF CancelOK
  <2>2. ASSUME Covered(rec, M, c, s, t, td, ev, r) PROVE Covered(rec2, M, c, s, u, td, ev2, r)
    BY <2>2 DEF Covered
  <2>3. Ended(rec2, r) => Covered(rec2, M, c, s, u, td, ev2, r)
    <3> HIDE DEF Covered
    <3> QED BY <1>5, <2>2
  <2> HIDE DEF Covered, CancelOK
  <2> QED BY <1>2, <1>3, <2>1, <2>3 DEF StrayOK
<1> QED BY <1>4, <1>5 DEF StrayOK
LEMMA RowStays ==
  ASSUME UNCHANGED <<cmds, machine, mail, state, spent>>, Todo' = Todo, NEW r, CoveredNow(r),
         <<r, "ended">> \in events => <<r, "ended">> \in events',
         db[r].status = "withdrawn" => db'[r].status = "withdrawn",
         db'[r].item => db[r].item \/ Through(machine, r),
         db'[r].status = "received" => db[r].status = "received" \/ Through(machine, r),
         \/ TaskOf(task', r) = TaskOf(task, r)
         \/ TaskOf(task, r).pc = "claim" /\ TaskOf(task', r).pc = "idle"
         \/ TaskOf(task, r).pc = "fail" /\ TaskOf(task', r).pc = "failed" /\ TaskOf(task', r).refused = TaskOf(task, r).refused,
         Ended(db', r) =>
           \/ Ended(db, r) \/ Through(machine, r)
           \/ CancelOK(db, machine, cmds, task, Todo, r) => Covered(db', machine, cmds, state, task', Todo, events', r)
  PROVE  CoveredNext(r)
<1>1. PICK late : late = (spent["timeout"] # 0)
  OBVIOUS
<1>2. StrayOK(db, machine, cmds, mail, state, task, Todo, events, late, r)
  BY <1>1 DEF CoveredNow
<1>3. PICK rec, u, ev, td : rec = db' /\ u = task' /\ ev = events' /\ td = Todo
  OBVIOUS
<1>4. StrayOK(rec, machine, cmds, mail, state, u, td, ev, late, r)
  <2>1. /\ <<r, "ended">> \in events => <<r, "ended">> \in ev
        /\ db[r].status = "withdrawn" => rec[r].status = "withdrawn"
        /\ rec[r].item => db[r].item \/ Through(machine, r)
        /\ rec[r].status = "received" => db[r].status = "received" \/ Through(machine, r)
    BY <1>3
  <2>2. \/ TaskOf(u, r) = TaskOf(task, r)
        \/ TaskOf(task, r).pc = "claim" /\ TaskOf(u, r).pc = "idle"
        \/ TaskOf(task, r).pc = "fail" /\ TaskOf(u, r).pc = "failed" /\ TaskOf(u, r).refused = TaskOf(task, r).refused
    BY <1>3
  <2>3. Ended(rec, r) =>
          \/ Ended(db, r) \/ Through(machine, r)
          \/ CancelOK(db, machine, cmds, task, td, r) => Covered(rec, machine, cmds, state, u, td, ev, r)
    <3> HIDE DEF Todo, CancelOK, Through
    <3> QED BY <1>3
  <2>4. StrayOK(db, machine, cmds, mail, state, task, td, events, late, r)
    BY <1>2, <1>3
  <2> HIDE DEF StrayOK, TaskOf, Through, Ended, CancelOK, Covered
  <2> QED BY <2>1, <2>2, <2>3, <2>4, RowChanges
<1>5. machine' = machine /\ cmds' = cmds /\ mail' = mail /\ state' = state /\ (spent'["timeout"] # 0) = late
  BY <1>1
<1>6. StrayOK(db', machine', cmds', mail', state', task', Todo', events', late, r)
  <2> HIDE DEF StrayOK, Todo
  <2> QED BY <1>3, <1>4, <1>5
<1> QED BY <1>5, <1>6 DEF CoveredNext
\* A verb lands: what was closed is through, or a cancel of it is coming.
LEMMA LandsCovered ==
  ASSUME TypeInv, InStep(World, state, task, Todo, events, Landed), NEW l \in Lanes, VerbLands(l), NEW r \in Rows, CoveredNow(r)
  PROVE  CoveredNext(r)
<1>1. /\ lane[l].todo # <<>> /\ Land(Head(lane[l].todo).do, Head(lane[l].todo).row)
      /\ lane' = [lane EXCEPT ![l].landed = TRUE] /\ UNCHANGED <<cmds, machine, mail, state, spent>> /\ task' = task
  BY DEF VerbLands, machineVars
<1>2. PICK a : a = lane[l].todo[1]
  OBVIOUS
<1>3. Head(lane[l].todo) = a /\ a.row \in Rows /\ a.do \in Verbs /\ 1 \in DOMAIN lane[l].todo
  BY <1>1, <1>2, AtWork
<1>4. Todo' = Todo
  <2>1. lane \in [Lanes -> LaneRecords]
    BY DEF TypeInv, LanesOK
  <2>2. \A k \in Lanes : lane'[k].todo = lane[k].todo
    BY <1>1, <2>1 DEF LaneRecords
  <2> QED BY <2>2 DEF Todo
<1>5. Acting(Todo, a.do, a.row)
  <2>1. Todo[l] = lane[l].todo
    BY DEF Todo
  <2> QED BY <1>2, <1>3, <2>1 DEF Acting, Within
<1>6. /\ \A q \in Rows \ {a.row} : db'[q] = db[q]
      /\ events \subseteq events'
      /\ db'[r].status = db[r].status \/ (db[r].status = "pending" /\ r = a.row /\ db'[r].status \notin {"none", "pending"})
      /\ db'[r].item => db[r].item \/ (a.do = "accumulate" /\ r = a.row)
      /\ a.do = "accumulate" => db'[a.row].status = db[a.row].status
      /\ db'[a.row].status = "received" => db[a.row].status = "received" \/ a.do = "receive"
  <2>1. Land(a.do, a.row) /\ a.do \in Verbs \cup {"claim"}
    BY <1>1, <1>3
  <2>2. /\ events \subseteq events' /\ \A q \in Rows \ {a.row} : db'[q] = db[q]
        /\ a.do \in {"claim", "accumulate"} => db'[a.row].status = db[a.row].status /\ events' = events
    BY <1>3, <2>1, LandOf
  <2>3. /\ db'[r].status = db[r].status \/ (db[r].status = "pending" /\ r = a.row /\ db'[r].status \notin {"none", "pending"})
        /\ db'[r].item => db[r].item \/ (db[r].status = "pending" /\ a.do = "accumulate" /\ r = a.row)
    BY <1>3, <2>1, LandMoves
  <2>4. db'[a.row].status = "received" => db[a.row].status = "received" \/ a.do = "receive"
    BY <1>3, <2>1, LandReceives
  <2> QED BY <2>2, <2>3, <2>4
<1>7. PICK td, late, w : td = Todo /\ late = (spent["timeout"] # 0) /\ w = World
  OBVIOUS
<1>8. StrayOK(db, machine, cmds, mail, state, task, td, events, late, r) /\ Acting(td, a.do, a.row)
  <2> HIDE DEF StrayOK, Todo, Acting
  <2> QED BY <1>5, <1>7 DEF CoveredNow
<1>9. AskedOK(cmds, machine, state, task, td, r) /\ ThroughOK(db, machine, mail, state, task, td, late, r)
  BY <1>8 DEF StrayOK
<1>10. r = a.row /\ a.do \in {"accumulate", "receive"} => Through(machine, r)
  <2> HIDE DEF Acting, Through
  <2> QED BY <1>8, <1>9 DEF ThroughOK
<1>11. ASSUME r = a.row, a.do \notin {"accumulate", "receive"}, CancelOK(db, machine, cmds, task, td, r)
       PROVE  Covered(db', machine, cmds, state, task, td, events', r)
  <2> HIDE DEF Acting, Through, Issued, Cancels, TaskOf
  <2>1. CASE a.do = "fail"
    BY <1>8, <1>11, <2>1 DEF CancelOK, Covered
  <2>2. CASE a.do = "refuse"
    <3>1. InStep(w, state, task, td, events, Landed)
      BY <1>7
    <3>2. /\ Acting(td, "dispatch", r) => state.row[r] \in {"pending", "closed"} /\ r \notin w.unfit
          /\ Acting(td, "refuse", r) => r \in w.unfit
      BY <3>1, AskedOnly
    <3>3. w.unfit = setting.unfit
      BY <1>7 DEF World
    <3>4. r \in setting.unfit /\ ~Acting(td, "dispatch", r) /\ ~Issued(cmds, machine, r) /\ state.row[r] \in {"refused", "closed"}
      BY <1>8, <1>9, <1>11, <2>2, <3>2, <3>3 DEF AskedOK
    <3> QED BY <3>4 DEF Covered
  <2> QED BY <1>3, <1>11, <2>1, <2>2 DEF Verbs
<1>12. /\ <<r, "ended">> \in events => <<r, "ended">> \in events'
       /\ db[r].status = "withdrawn" => db'[r].status = "withdrawn"
       /\ db'[r].item => db[r].item \/ Through(machine, r)
       /\ db'[r].status = "received" => db[r].status = "received" \/ Through(machine, r)
  <2> HIDE DEF Through
  <2> QED BY <1>6, <1>10
<1>13. Ended(db', r) =>
         \/ Ended(db, r) \/ Through(machine, r)
         \/ CancelOK(db, machine, cmds, task, Todo, r) => Covered(db', machine, cmds, state, task', Todo, events', r)
  <2>1. PICK u, rec, ev : u = task' /\ rec = db' /\ ev = events'
    OBVIOUS
  <2>2. Ended(rec, r) => Ended(db, r) \/ (r = a.row /\ a.do # "accumulate")
    BY <1>6, <2>1 DEF Ended
  <2>3. u = task
    BY <1>1, <2>1
  <2>4. Ended(rec, r) => Ended(db, r) \/ Through(machine, r) \/ (CancelOK(db, machine, cmds, task, td, r) => Covered(rec, machine, cmds, state, u, td, ev, r))
    <3>1. r = a.row /\ a.do \notin {"accumulate", "receive"} => (CancelOK(db, machine, cmds, task, td, r) => Covered(rec, machine, cmds, state, u, td, ev, r))
      <4> HIDE DEF Covered, CancelOK
      <4> QED BY <1>11, <2>1, <2>3
    <3> HIDE DEF Covered, CancelOK, Through, Ended
    <3> QED BY <1>10, <2>2, <3>1
  <2> HIDE DEF Covered, CancelOK, Through, Todo
  <2> QED BY <1>7, <2>1, <2>4
<1>14. UNCHANGED <<cmds, machine, mail, state, spent>> /\ TaskOf(task', r) = TaskOf(task, r)
  BY <1>1
<1> HIDE DEF Covered, CancelOK, Through, Todo, TaskOf, Ended, CoveredNow, CoveredNext
<1> QED BY <1>4, <1>12, <1>13, <1>14, RowStays
\* A task claims its row, or fails it: a failure that closed the row is about to cancel.
LEMMA TasksCovered ==
  ASSUME TypeInv, spent["restart"] = 0, InStep(World, state, task, Todo, events, Landed),
         NEW x \in TaskNames, TaskClaims(x) \/ TaskFails(x), NEW r \in Rows, CoveredNow(r)
  PROVE  CoveredNext(r)
<1>1. UNCHANGED <<cmds, machine, mail, state, spent>> /\ lane' = lane
  BY DEF TaskClaims, TaskFails, machineVars
<1>2. Todo' = Todo
  BY <1>1 DEF Todo
<1>3. PICK q : q = x[1]
  OBVIOUS
<1>4. q \in Rows /\ x = <<q, "first">> /\ task \in [TaskNames -> Tasks] /\ <<r, "first">> \in TaskNames
  <2>1. q \in Rows /\ x[2] \in Sends /\ x = <<q, x[2]>>
    BY <1>3 DEF TaskNames
  <2>2. TaskInStep(World, state, task, q, x[2])
    BY <2>1 DEF InStep, TasksInStep
  <2>3. task[<<q, x[2]>>].pc # "idle"
    BY <2>1 DEF TaskClaims, TaskFails
  <2>4. ~World.restarted
    BY DEF World
  <2>5. x[2] = "first"
    BY <2>2, <2>3, <2>4 DEF TaskInStep
  <2> QED BY <2>1, <2>5 DEF TypeInv, TaskNames, Sends
<1>5. r # q => TaskOf(task', r) = TaskOf(task, r)
  <2>1. r # q => <<r, "first">> # x
    BY <1>4
  <2>2. \A y \in TaskNames : y # x => task'[y] = task[y]
    BY <1>4 DEF TaskClaims, TaskFails
  <2> QED BY <1>4, <2>1, <2>2 DEF TaskOf
<1>6. \E verb \in {"claim", "fail", "refuse"} :
        /\ Land(verb, q)
        /\ verb = "claim" => TaskClaims(x)
        /\ verb # "claim" => TaskFails(x)
  BY <1>3 DEF TaskClaims, TaskFails
<1>7. PICK verb \in {"claim", "fail", "refuse"} :
        /\ Land(verb, q)
        /\ verb = "claim" => TaskClaims(x)
        /\ verb # "claim" => TaskFails(x)
  BY <1>6
<1>8. /\ events \subseteq events'
      /\ db'[r].status = db[r].status \/ (db[r].status = "pending" /\ r = q /\ db'[r].status \notin {"none", "pending"})
      /\ db'[r].item => db[r].item
      /\ verb = "claim" => db'[q].status = db[q].status
      /\ db'[r].status = "received" => db[r].status = "received"
  <2>1. verb \in Verbs \cup {"claim"}
    BY DEF Verbs
  <2>2. /\ events \subseteq events'
        /\ verb \in {"claim", "accumulate"} => db'[q].status = db[q].status /\ events' = events
    BY <1>4, <1>7, <2>1, LandOf
  <2>3. /\ db'[r].status = db[r].status \/ (db[r].status = "pending" /\ r = q /\ db'[r].status \notin {"none", "pending"})
        /\ db'[r].item => db[r].item \/ (db[r].status = "pending" /\ verb = "accumulate" /\ r = q)
    BY <1>4, <1>7, <2>1, LandMoves
  <2>4. db'[r].status = "received" => db[r].status = "received" \/ (r = q /\ verb = "receive")
    BY <1>4, <1>7, <2>1, LandReceives
  <2> QED BY <2>2, <2>3, <2>4
<1>9. verb = "claim" => TaskOf(task, q).pc = "claim" /\ TaskOf(task', q).pc = "idle"
  <2>1. verb = "claim" => task[x].pc = "claim" /\ task' = [task EXCEPT ![x] = NoTask]
    BY <1>7 DEF TaskClaims
  <2> QED BY <1>4, <2>1 DEF TaskOf, NoTask
<1>10. verb # "claim" => /\ TaskOf(task, q).pc = "fail" /\ TaskOf(task', q).pc = "failed"
                         /\ TaskOf(task', q).refused = TaskOf(task, q).refused
                         /\ db' # db => TaskOf(task', q).done
  <2>1. PICK d \in BOOLEAN : d = (db' # db)
    OBVIOUS
  <2>2. PICK n : n = [task[x] EXCEPT !.pc = "failed", !.done = d]
    OBVIOUS
  <2>3. task[x] \in Tasks
    BY <1>4
  <2>4. verb # "claim" => task[x].pc = "fail" /\ task'[x] = n /\ n.pc = "failed" /\ n.refused = task[x].refused /\ n.done = d
    <3>1. n.pc = "failed" /\ n.refused = task[x].refused /\ n.done = d
      BY <2>2, <2>3 DEF Tasks
    <3>2. verb # "claim" => task[x].pc = "fail" /\ task' = [task EXCEPT ![x] = n]
      BY <1>4, <1>7, <2>1, <2>2, <2>3 DEF TaskFails
    <3> QED BY <1>4, <3>1, <3>2
  <2>5. ASSUME db' # db, verb # "claim" PROVE task'[x].done
    <3>1. d
      BY <2>1, <2>5
    <3>2. task'[x].done = d
      BY <2>4, <2>5
    <3> QED BY <3>1, <3>2
  <2> QED BY <1>4, <2>4, <2>5 DEF TaskOf
<1>11. PICK late, u, rec, ev, td : late = (spent["timeout"] # 0) /\ u = task' /\ rec = db' /\ ev = events' /\ td = Todo
  OBVIOUS
<1>12. ThroughOK(db, machine, mail, state, task, td, late, r)
  <2> HIDE DEF Todo, ThroughOK
  <2>1. StrayOK(db, machine, cmds, mail, state, task, td, events, late, r)
    BY <1>11 DEF CoveredNow
  <2> QED BY <2>1 DEF StrayOK
<1>13. Ended(rec, r) => Ended(db, r) \/ (r = q /\ verb # "claim" /\ rec # db)
  <2>1. Ended(db', r) => Ended(db, r) \/ (r = q /\ verb # "claim" /\ db' # db)
    BY <1>8 DEF Ended
  <2> QED BY <1>11, <2>1
<1>14. ASSUME r = q, verb # "claim", rec # db
       PROVE  Through(machine, r) \/ Covered(rec, machine, cmds, state, u, td, ev, r)
  <2>1. /\ TaskOf(task, r).pc = "fail" /\ TaskOf(u, r).pc = "failed" /\ TaskOf(u, r).refused = TaskOf(task, r).refused /\ TaskOf(u, r).done
    BY <1>10, <1>11, <1>14
  <2> HIDE DEF TaskOf, Through, Issued, Acting, Cancels, IsOpen
  <2>2. CASE TaskOf(task, r).refused
    BY <1>12, <2>1, <2>2 DEF ThroughOK
  <2>3. CASE ~TaskOf(task, r).refused
    BY <2>1, <2>3 DEF Covered
  <2> QED BY <2>2, <2>3
<1>15. Ended(db', r) =>
         \/ Ended(db, r) \/ Through(machine, r)
         \/ CancelOK(db, machine, cmds, task, Todo, r) => Covered(db', machine, cmds, state, task', Todo, events', r)
  <2> HIDE DEF Covered, CancelOK, Through, Todo, Ended
  <2>1. Ended(rec, r) => Ended(db, r) \/ Through(machine, r) \/ Covered(rec, machine, cmds, state, u, td, ev, r)
    BY <1>13, <1>14
  <2> QED BY <1>11, <2>1
<1>16. /\ <<r, "ended">> \in events => <<r, "ended">> \in events'
       /\ db[r].status = "withdrawn" => db'[r].status = "withdrawn"
       /\ db'[r].item => db[r].item \/ Through(machine, r)
       /\ db'[r].status = "received" => db[r].status = "received" \/ Through(machine, r)
  BY <1>8
<1>17. \/ TaskOf(task', r) = TaskOf(task, r)
       \/ TaskOf(task, r).pc = "claim" /\ TaskOf(task', r).pc = "idle"
       \/ TaskOf(task, r).pc = "fail" /\ TaskOf(task', r).pc = "failed" /\ TaskOf(task', r).refused = TaskOf(task, r).refused
  <2> HIDE DEF TaskOf
  <2> QED BY <1>5, <1>9, <1>10
<1> HIDE DEF Covered, CancelOK, Through, Todo, TaskOf, Ended, CoveredNow, CoveredNext
<1> QED BY <1>1, <1>2, <1>15, <1>16, <1>17, RowStays
\* Parking and withdrawing: the gateway hears of what is withdrawn.
LEMMA HostsCovered ==
  ASSUME TypeInv, ~setting.busyTakeover, InStep(World, state, task, Todo, events, Landed),
         NEW q \in Rows, Park(q) \/ Withdraw(q), NEW r \in Rows, CoveredNow(r)
  PROVE  CoveredNext(r)
<1>1. UNCHANGED <<cmds, machine, mail, state, spent>> /\ lane' = lane /\ task' = task
  BY DEF Park, Withdraw, leaderVars, machineVars
<1>2. Todo' = Todo /\ TaskOf(task', r) = TaskOf(task, r)
  BY <1>1 DEF Todo
<1>3. gateway = "up" /\ db \in [Rows -> DbRecords]
  BY DEF Park, Withdraw, HostActs, TypeInv
<1>4. \/ db[q].status = "none" /\ db' = [db EXCEPT ![q].status = "pending"] /\ events' = events \cup {<<q, "created">>}
      \/ db[q].status = "pending" /\ db' = [db EXCEPT ![q].status = "withdrawn"] /\ events' = events \cup {<<q, "ended">>}
  BY <1>3 DEF Park, Withdraw, Emit
<1>5. /\ events \subseteq events' /\ db'[r].item = db[r].item
      /\ db'[r].status = "received" => db[r].status = "received"
      /\ db[r].status = "withdrawn" => db'[r].status = "withdrawn"
  BY <1>3, <1>4, SMTT(30) DEF DbRecords
<1>6. PICK late, rec, ev, td, w : late = (spent["timeout"] # 0) /\ rec = db' /\ ev = events' /\ td = Todo /\ w = World
  OBVIOUS
<1>7. Ended(rec, r) => Ended(db, r) \/ (db[r].status = "pending" /\ rec[r].status = "withdrawn" /\ <<r, "ended">> \in ev)
  <2>1. Ended(db', r) => Ended(db, r) \/ (db[r].status = "pending" /\ db'[r].status = "withdrawn" /\ <<r, "ended">> \in events')
    BY <1>3, <1>4 DEF DbRecords, Ended
  <2> QED BY <1>6, <2>1
<1>8. ASSUME db[r].status = "pending", rec[r].status = "withdrawn", <<r, "ended">> \in ev
      PROVE  Covered(rec, machine, cmds, state, task, td, ev, r)
  <2> HIDE DEF Acting, Issued, Cancels, TaskOf, Todo
  <2>1. InStep(w, state, task, td, events, Landed)
    BY <1>6
  <2>2. AskedOK(cmds, machine, state, task, td, r)
    <3>1. StrayOK(db, machine, cmds, mail, state, task, td, events, late, r)
      <4> HIDE DEF StrayOK
      <4> QED BY <1>6 DEF CoveredNow
    <3> QED BY <3>1 DEF StrayOK
  <2>3. \A what : Acting(td, what, r) => state.row[r] # "unknown"
    BY <2>1, AskedOnly
  <2>4. state.row[r] # "closed"
    <3>1. RowInStep(w, state, task, events, Landed, r)
      BY <2>1 DEF InStep, RowsInStep
    <3>2. w.db = db
      BY <1>6 DEF World
    <3> QED BY <1>8, <3>1, <3>2 DEF RowInStep, Over
  <2>5. CASE IsOpen(state, r)
    BY <1>8, <2>5 DEF Covered
  <2>6. CASE ~IsOpen(state, r)
    <3>1. state.row[r] = "unknown"
      BY <2>4, <2>6 DEF IsOpen, Open, TypeInv, Pictures, Dispatches
    <3>2. ~Acting(td, "dispatch", r) /\ ~Issued(cmds, machine, r)
      BY <2>2, <2>3, <3>1 DEF AskedOK
    <3> QED BY <3>1, <3>2 DEF Covered
  <2> QED BY <2>5, <2>6
<1>9. Ended(db', r) =>
         \/ Ended(db, r) \/ Through(machine, r)
         \/ CancelOK(db, machine, cmds, task, Todo, r) => Covered(db', machine, cmds, state, task', Todo, events', r)
  <2> HIDE DEF Covered, CancelOK, Through, Todo, Ended
  <2>1. Ended(rec, r) => Ended(db, r) \/ Covered(rec, machine, cmds, state, task, td, ev, r)
    BY <1>7, <1>8
  <2>2. PICK u : u = task'
    OBVIOUS
  <2>3. u = task
    BY <1>1, <2>2
  <2>4. Ended(rec, r) => Ended(db, r) \/ Covered(rec, machine, cmds, state, u, td, ev, r)
    BY <2>1, <2>3
  <2> QED BY <1>6, <2>2, <2>4
<1>10. /\ <<r, "ended">> \in events => <<r, "ended">> \in events'
       /\ db'[r].item => db[r].item \/ Through(machine, r)
       /\ db'[r].status = "received" => db[r].status = "received" \/ Through(machine, r)
  BY <1>5
<1> HIDE DEF Covered, CancelOK, Through, Todo, TaskOf, Ended, CoveredNow, CoveredNext
<1> QED BY <1>1, <1>2, <1>5, <1>9, <1>10, RowStays
\* A command is sent.
LEMMA CommandSent ==
  ASSUME NEW c \in Seq(Cmds), NEW k \in Cmds, NEW r \in Rows
  PROVE  /\ Wired(Append(c, k), r) <=> Wired(c, r) \/ (k.op = "dispatch" /\ k.row = r)
         /\ Cancels(Append(c, k), r) <=> Cancels(c, r) \/ (k.op = "cancel" /\ k.row = r)
         /\ \A i \in DOMAIN Append(c, k) : Append(c, k)[i] = k \/ \E j \in DOMAIN c : Append(c, k)[i] = c[j]
         /\ Behind(c, r) /\ ~(k.op = "dispatch" /\ k.row = r) => Behind(Append(c, k), r)
<1>1. PICK n, b : n = Len(c) /\ b = Append(c, k)
  OBVIOUS
<1>2. n \in Nat /\ DOMAIN c = 1..n /\ DOMAIN b = 1..(n + 1) /\ b[n + 1] = k /\ \A i \in 1..n : b[i] = c[i]
  <2>1. b \in Seq(Cmds) /\ Len(b) = n + 1 /\ b[n + 1] = k /\ \A i \in 1..n : b[i] = c[i]
    BY <1>1, AppendProperties
  <2> QED BY <1>1, <2>1, LenProperties
<1>3. \A i \in DOMAIN b : (i = n + 1 /\ b[i] = k) \/ (i \in DOMAIN c /\ b[i] = c[i] /\ i < n + 1)
  BY <1>2
<1>4. \A i \in DOMAIN c : i \in DOMAIN b /\ b[i] = c[i]
  BY <1>2
<1>5. n + 1 \in DOMAIN b /\ b[n + 1] = k
  BY <1>2
<1>6. /\ Wired(b, r) <=> Wired(c, r) \/ (k.op = "dispatch" /\ k.row = r)
      /\ Cancels(b, r) <=> Cancels(c, r) \/ (k.op = "cancel" /\ k.row = r)
  BY <1>3, <1>4, <1>5 DEF Wired, Cancels
<1>7. ASSUME Behind(c, r), ~(k.op = "dispatch" /\ k.row = r) PROVE Behind(b, r)
  <2> SUFFICES ASSUME NEW i \in DOMAIN b, NEW j \in DOMAIN b,
                      b[i].op = "cancel", b[i].row = r, b[j].op = "dispatch", b[j].row = r
               PROVE  j < i
    BY DEF Behind
  <2>1. j \in DOMAIN c /\ b[j] = c[j] /\ j < n + 1
    BY <1>3, <1>7
  <2>2. CASE i = n + 1
    BY <2>1, <2>2
  <2>3. CASE i \in DOMAIN c /\ b[i] = c[i]
    BY <1>7, <2>1, <2>3 DEF Behind
  <2> QED BY <1>3, <2>2, <2>3
<1> QED BY <1>1, <1>3, <1>6, <1>7
\* A task of a failed dispatch ends.
LEMMA Finishes ==
  ASSUME NEW rec, NEW M, NEW c, NEW m, NEW s, NEW t, NEW td, NEW ev, NEW late \in BOOLEAN, NEW c2, NEW n, NEW u, NEW r, NEW mine \in BOOLEAN,
         StrayOK(rec, M, c, m, s, t, td, ev, late, r), r \in n.held => r \in s.held,
         \/ n.row[r] = s.row[r]
         \/ mine /\ IsOpen(s, r) /\ n.row[r] = "closed",
         ~mine => n.row[r] = s.row[r] /\ TaskOf(u, r) = TaskOf(t, r),
         mine => TaskOf(t, r).pc = "failed" /\ TaskOf(u, r).pc = "idle" /\ Ended(rec, r),
         Issued(c2, M, r) <=> Issued(c, M, r), \A p : AtPeriod(c, M, t, r, p) => AtPeriod(c2, M, u, r, p),
         Cancels(c, r) => Cancels(c2, r), Cancels(c2, r) => Cancels(c, r) \/ mine, Behind(c, r) => Behind(c2, r),
         mine /\ TaskOf(t, r).done /\ ~TaskOf(t, r).refused => Cancels(c2, r)
  PROVE  StrayOK(rec, M, c2, m, n, u, td, ev, late, r)
<1> HIDE DEF Acting, Through, Issued, Cancels, Behind, Ran, TaskOf, Wired, Says, Refuses, AtPeriod
<1>1. AskedOK(c, M, s, t, td, r) /\ ThroughOK(rec, M, m, s, t, td, late, r)
  BY DEF StrayOK
<1>2. AskedOK(c2, M, n, u, td, r)
  BY <1>1 DEF AskedOK, IsOpen, Open
<1>3. ThroughOK(rec, M, m, n, u, td, late, r)
  BY <1>1 DEF ThroughOK
<1>4. CASE Excused(rec, M, late, r) \/ Through(M, r)
  BY <1>2, <1>3, <1>4 DEF StrayOK
<1>5. CASE /\ CancelOK(rec, M, c, t, td, r) /\ (Ended(rec, r) => Covered(rec, M, c, s, t, td, ev, r))
           /\ ~Excused(rec, M, late, r) /\ ~Through(M, r)
  <2>1. mine => Issued(c, M, r)
    BY <1>1 DEF AskedOK
  <2>2. CancelOK(rec, M, c2, u, td, r)
    BY <1>5, <2>1 DEF CancelOK
  <2>3. ASSUME ~mine, Covered(rec, M, c, s, t, td, ev, r) PROVE Covered(rec, M, c2, n, u, td, ev, r)
    <3> HIDE DEF Ended
    <3> QED BY <2>3 DEF Covered, IsOpen
  <2>4. ASSUME mine PROVE Cancels(c2, r) \/ Acting(td, "cancel", r)
    <3>1. ~TaskOf(t, r).refused /\ late
      BY <1>1, <1>5, <2>4 DEF ThroughOK
    <3>2. rec[r].status # "withdrawn"
      BY <1>5, <3>1 DEF Excused
    <3> HIDE DEF Ended
    <3> QED BY <1>5, <2>1, <2>4, <3>1, <3>2 DEF Covered
  <2>5. Ended(rec, r) => Covered(rec, M, c2, n, u, td, ev, r)
    <3>1. CASE mine
      BY <2>4, <3>1 DEF Covered
    <3>2. CASE ~mine
      <4> HIDE DEF Covered, Ended
      <4> QED BY <1>5, <2>3, <3>2
    <3> QED BY <3>1, <3>2
  <2> HIDE DEF Covered, CancelOK
  <2> QED BY <1>2, <1>3, <2>2, <2>5 DEF StrayOK
<1> QED BY <1>4, <1>5 DEF StrayOK
LEMMA EndsCovered ==
  ASSUME TypeInv, spent["restart"] = 0, InStep(World, state, task, Todo, events, Landed),
         NEW x \in TaskNames, TaskEnds(x), NEW r \in Rows, CoveredNow(r)
  PROVE  CoveredNext(r)
<1>1. PICK q, k : q = x[1] /\ k = Cancel(q)
  OBVIOUS
<1>2. q \in Rows /\ x = <<q, "first">> /\ task \in [TaskNames -> Tasks] /\ <<r, "first">> \in TaskNames /\ state \in Pictures /\ cmds \in Seq(Cmds)
      /\ Ended(db, q)
  <2>1. q \in Rows /\ x[2] \in Sends /\ x = <<q, x[2]>>
    BY <1>1 DEF TaskNames
  <2>2. TaskInStep(World, state, task, q, x[2])
    BY <2>1 DEF InStep, TasksInStep
  <2>3. task[<<q, x[2]>>].pc = "failed"
    BY <2>1 DEF TaskEnds
  <2>4. ~World.restarted /\ World.db = db
    BY DEF World
  <2>5. x[2] = "first" /\ Ended(db, q)
    BY <2>2, <2>3, <2>4 DEF TaskInStep, Over, Ended
  <2> QED BY <2>1, <2>5 DEF TypeInv, TaskNames, Sends
<1>3. /\ UNCHANGED <<db, events, machine, mail, spent>> /\ lane' = lane
      /\ state' = Shut(state, q) /\ task[x].pc = "failed"
      /\ cmds' = cmds \/ cmds' = Append(cmds, k)
      /\ task[x].done /\ ~task[x].refused => cmds' = Append(cmds, k)
      /\ task' = [task EXCEPT ![x] = NoTask]
  BY <1>1 DEF TaskEnds, machineVars
<1>4. k \in Cmds /\ k.op = "cancel" /\ k.row = q
  BY <1>1, <1>2 DEF Cancel, Command, Cmds
<1>5. PICK n, u, c2, td, late, mine : n = state' /\ u = task' /\ c2 = cmds' /\ td = Todo /\ late = (spent["timeout"] # 0) /\ mine = (r = q)
  OBVIOUS
<1>6. late \in BOOLEAN /\ mine \in BOOLEAN
  BY <1>5
<1>7. /\ n.held = state.held
      /\ n.row[r] = IF r = q /\ IsOpen(state, r) THEN "closed" ELSE state.row[r]
  <2>1. Shut(state, q).held = state.held /\ Shut(state, q).row[r] = IF r = q /\ IsOpen(state, r) THEN "closed" ELSE state.row[r]
    BY <1>2, ShutOf
  <2> QED BY <1>3, <1>5, <2>1
<1>8. /\ r # q => TaskOf(u, r) = TaskOf(task, r)
      /\ r = q => TaskOf(u, r).pc = "idle" /\ TaskOf(task, r).pc = "failed" /\ TaskOf(task, r) = task[x]
  <2>1. u = [task EXCEPT ![x] = NoTask]
    BY <1>3, <1>5
  <2>2. r # q => <<r, "first">> # x
    BY <1>2
  <2>3. r # q => u[<<r, "first">>] = task[<<r, "first">>]
    BY <1>2, <2>1, <2>2
  <2>4. u[x] = NoTask
    BY <1>2, <2>1
  <2>5. ASSUME r = q PROVE u[<<r, "first">>].pc = "idle" /\ task[<<r, "first">>] = task[x]
    <3>1. <<r, "first">> = x
      BY <1>2, <2>5
    <3>2. NoTask.pc = "idle"
      BY DEF NoTask
    <3> QED BY <2>4, <3>1, <3>2
  <2> QED BY <1>3, <2>3, <2>5 DEF TaskOf
<1>9. /\ Wired(c2, r) <=> Wired(cmds, r)
      /\ Cancels(cmds, r) => Cancels(c2, r)
      /\ Cancels(c2, r) => Cancels(cmds, r) \/ r = q
      /\ Behind(cmds, r) => Behind(c2, r)
      /\ \A i \in DOMAIN c2 : c2[i] = k \/ \E j \in DOMAIN cmds : c2[i] = cmds[j]
      /\ r = q /\ TaskOf(task, r).done /\ ~TaskOf(task, r).refused => Cancels(c2, r)
  <2>1. /\ Wired(Append(cmds, k), r) <=> Wired(cmds, r) \/ (k.op = "dispatch" /\ k.row = r)
        /\ Cancels(Append(cmds, k), r) <=> Cancels(cmds, r) \/ (k.op = "cancel" /\ k.row = r)
        /\ \A i \in DOMAIN Append(cmds, k) : Append(cmds, k)[i] = k \/ \E j \in DOMAIN cmds : Append(cmds, k)[i] = cmds[j]
        /\ Behind(cmds, r) /\ ~(k.op = "dispatch" /\ k.row = r) => Behind(Append(cmds, k), r)
    BY <1>2, <1>4, CommandSent
  <2>2. c2 = cmds \/ c2 = Append(cmds, k)
    BY <1>3, <1>5
  <2>3. r = q /\ TaskOf(task, r).done /\ ~TaskOf(task, r).refused => c2 = Append(cmds, k)
    BY <1>3, <1>5, <1>8
  <2> HIDE DEF Wired, Cancels, Behind, TaskOf
  <2>4. CASE c2 = cmds
    BY <1>4, <2>1, <2>3, <2>4
  <2>5. CASE c2 = Append(cmds, k)
    BY <1>4, <2>1, <2>5
  <2> QED BY <2>2, <2>4, <2>5
<1>10. /\ Issued(c2, machine, r) <=> Issued(cmds, machine, r)
       /\ \A p : AtPeriod(cmds, machine, task, r, p) => AtPeriod(c2, machine, u, r, p)
  <2>1. Issued(c2, machine, r) <=> Issued(cmds, machine, r)
    <3> HIDE DEF Wired, Ran
    <3> QED BY <1>9 DEF Issued
  <2>2. ASSUME NEW p, AtPeriod(cmds, machine, task, r, p) PROVE AtPeriod(c2, machine, u, r, p)
    <3>1. TaskOf(u, r).pc = "reply" => TaskOf(u, r) = TaskOf(task, r)
      BY <1>8
    <3>2. \A i \in DOMAIN c2 : c2[i].op = "dispatch" /\ c2[i].row = r => c2[i].of = p
      BY <1>4, <1>9, <2>2 DEF AtPeriod
    <3> HIDE DEF TaskOf
    <3> QED BY <2>2, <3>1, <3>2 DEF AtPeriod
  <2> QED BY <2>1, <2>2
<1>11. StrayOK(db, machine, cmds, mail, state, task, td, events, late, r)
  <2> HIDE DEF StrayOK, Todo
  <2> QED BY <1>5 DEF CoveredNow
<1>12. StrayOK(db, machine, c2, mail, n, u, td, events, late, r)
  <2>1. /\ r \in n.held => r \in state.held
        /\ n.row[r] = state.row[r] \/ (mine /\ IsOpen(state, r) /\ n.row[r] = "closed")
        /\ ~mine => n.row[r] = state.row[r] /\ TaskOf(u, r) = TaskOf(task, r)
        /\ mine => TaskOf(task, r).pc = "failed" /\ TaskOf(u, r).pc = "idle" /\ Ended(db, r)
        /\ Cancels(c2, r) => Cancels(cmds, r) \/ mine
        /\ mine /\ TaskOf(task, r).done /\ ~TaskOf(task, r).refused => Cancels(c2, r)
    <3> HIDE DEF TaskOf, IsOpen, Cancels, Ended
    <3> QED BY <1>2, <1>5, <1>7, <1>8, <1>9
  <2> HIDE DEF StrayOK, TaskOf, Issued, Cancels, Behind, AtPeriod, IsOpen, Ended
  <2> QED BY <1>6, <1>9, <1>10, <1>11, <2>1, Finishes
<1>13. db' = db /\ machine' = machine /\ mail' = mail /\ events' = events /\ spent' = spent /\ Todo' = td
  BY <1>3, <1>5 DEF Todo
<1>14. StrayOK(db', machine', cmds', mail', state', task', Todo', events', late, r) /\ (spent'["timeout"] # 0) = late
  <2>1. (spent'["timeout"] # 0) = late
    BY <1>5, <1>13
  <2> HIDE DEF StrayOK, Todo
  <2> QED BY <1>5, <1>12, <1>13, <2>1
<1> HIDE DEF StrayOK, Todo
<1> QED BY <1>14 DEF CoveredNext
\* An answer is late.
LEMMA LateGrows ==
  ASSUME NEW rec, NEW M, NEW c, NEW m, NEW s, NEW t, NEW td, NEW ev, NEW late \in BOOLEAN, NEW r,
         StrayOK(rec, M, c, m, s, t, td, ev, late, r)
  PROVE  StrayOK(rec, M, c, m, s, t, td, ev, TRUE, r)
<1> HIDE DEF Acting, Through, Issued, Cancels, Behind, Ran, TaskOf, Wired, Says, Refuses, Covered, CancelOK, AskedOK
<1>1. ThroughOK(rec, M, m, s, t, td, TRUE, r)
  BY DEF StrayOK, ThroughOK
<1>2. Excused(rec, M, late, r) => Excused(rec, M, TRUE, r)
  BY DEF Excused
<1> QED BY <1>1, <1>2 DEF StrayOK
\* A dispatch is asked for again, with the same command, or the machine is asked what it holds.
LEMMA SentAgain ==
  ASSUME NEW rec, NEW M, NEW c \in Seq(Cmds), NEW k \in Cmds, NEW m, NEW s, NEW t, NEW td, NEW ev, NEW u, NEW r \in Rows, NEW mine \in BOOLEAN,
         StrayOK(rec, M, c, m, s, t, td, ev, TRUE, r), k.op \in {"dispatch", "snapshot"},
         ~mine => k.row # r /\ TaskOf(u, r) = TaskOf(t, r),
         mine => /\ TaskOf(t, r).pc = "reply" /\ TaskOf(u, r).pc \in InFlight
                 /\ TaskOf(u, r).of = TaskOf(t, r).of /\ k.of = TaskOf(t, r).of,
         TaskOf(t, r).pc # "idle" => s.row[r] \notin {"unknown", "waiting"} /\ r \notin setting.unfit /\ ~Acting(td, "dispatch", r)
  PROVE  StrayOK(rec, M, Append(c, k), m, s, u, td, ev, TRUE, r)
<1>1. AskedOK(c, M, s, t, td, r) /\ ThroughOK(rec, M, m, s, t, td, TRUE, r)
  BY DEF StrayOK
<1>2. PICK b : b = Append(c, k)
  OBVIOUS
<1>3. /\ Wired(b, r) <=> Wired(c, r) \/ (k.op = "dispatch" /\ k.row = r)
      /\ Cancels(b, r) <=> Cancels(c, r)
      /\ \A i \in DOMAIN b : b[i] = k \/ \E j \in DOMAIN c : b[i] = c[j]
      /\ Behind(c, r) /\ ~(k.op = "dispatch" /\ k.row = r) => Behind(b, r)
  <2>1. /\ Wired(Append(c, k), r) <=> Wired(c, r) \/ (k.op = "dispatch" /\ k.row = r)
        /\ Cancels(Append(c, k), r) <=> Cancels(c, r) \/ (k.op = "cancel" /\ k.row = r)
        /\ \A i \in DOMAIN Append(c, k) : Append(c, k)[i] = k \/ \E j \in DOMAIN c : Append(c, k)[i] = c[j]
        /\ Behind(c, r) /\ ~(k.op = "dispatch" /\ k.row = r) => Behind(Append(c, k), r)
    BY CommandSent
  <2> HIDE DEF Wired, Cancels, Behind
  <2> QED BY <1>2, <2>1
<1>4. mine => Issued(c, M, r)
  <2> HIDE DEF TaskOf, Issued, Acting
  <2> QED BY <1>1 DEF AskedOK
<1>5. Issued(b, M, r) <=> Issued(c, M, r)
  <2> HIDE DEF Wired, Ran, TaskOf
  <2> QED BY <1>3, <1>4 DEF Issued
<1>6. ASSUME NEW p, AtPeriod(c, M, t, r, p) PROVE AtPeriod(b, M, u, r, p)
  <2>1. k.row = r => k.of = p
    <3> HIDE DEF TaskOf
    <3> QED BY <1>6 DEF AtPeriod
  <2>2. \A i \in DOMAIN b : b[i].op = "dispatch" /\ b[i].row = r => b[i].of = p
    BY <1>3, <1>6, <2>1 DEF AtPeriod
  <2> HIDE DEF TaskOf
  <2>3. TaskOf(u, r).pc = "reply" => TaskOf(u, r).of = p
    BY <1>6 DEF AtPeriod
  <2> QED BY <1>6, <2>2, <2>3 DEF AtPeriod
<1> HIDE DEF Acting, Through, Issued, Cancels, Behind, Ran, TaskOf, Wired, Says, Refuses, AtPeriod
<1>7. AskedOK(b, M, s, u, td, r)
  <2>1. \E p : AtPeriod(b, M, u, r, p)
    BY <1>1, <1>6 DEF AskedOK
  <2> QED BY <1>1, <1>4, <1>5, <2>1 DEF AskedOK, InFlight
<1>8. ThroughOK(rec, M, m, s, u, td, TRUE, r)
  BY <1>1 DEF ThroughOK, InFlight
<1>9. CASE Excused(rec, M, TRUE, r) \/ Through(M, r)
  BY <1>2, <1>7, <1>8, <1>9 DEF StrayOK
<1>10. CASE /\ CancelOK(rec, M, c, t, td, r) /\ (Ended(rec, r) => Covered(rec, M, c, s, t, td, ev, r))
            /\ ~Excused(rec, M, TRUE, r)
  <2>1. rec[r].status # "withdrawn" /\ r \notin M.misread
    BY <1>10 DEF Excused
  <2>2. mine => ~Cancels(c, r) /\ ~Acting(td, "cancel", r)
    BY <1>10, <2>1 DEF CancelOK
  <2>3. Behind(b, r)
    <3>1. CASE mine
      BY <1>3, <2>2, <3>1 DEF Cancels, Behind
    <3>2. CASE ~mine
      BY <1>3, <1>10, <3>2 DEF CancelOK
    <3> QED BY <3>1, <3>2
  <2>4. CancelOK(rec, M, b, u, td, r)
    BY <1>3, <1>5, <1>10, <2>2, <2>3 DEF CancelOK
  <2>5. Ended(rec, r) => Covered(rec, M, b, s, u, td, ev, r)
    <3>1. CASE mine
      <4>1. ~Covered(rec, M, c, s, t, td, ev, r)
        BY <1>4, <2>1, <2>2, <3>1 DEF Covered
      <4> HIDE DEF Covered, Ended
      <4> QED BY <1>10, <4>1
    <3>2. CASE ~mine
      <4> HIDE DEF Ended
      <4> QED BY <1>3, <1>5, <1>10, <3>2 DEF Covered
    <3> QED BY <3>1, <3>2
  <2> HIDE DEF Covered, CancelOK
  <2> QED BY <1>2, <1>7, <1>8, <2>4, <2>5 DEF StrayOK
<1>11. StrayOK(rec, M, c, m, s, t, td, ev, TRUE, r)
  OBVIOUS
<1> QED BY <1>9, <1>10, <1>11 DEF StrayOK
LEMMA LatesCovered ==
  ASSUME TypeInv, setting' = setting, spent["restart"] = 0, InStep(World, state, task, Todo, events, Landed),
         NEW x \in TaskNames, ReplyLate(x) \/ StatusLate(x), NEW r \in Rows, CoveredNow(r)
  PROVE  CoveredNext(r)
<1>1. UNCHANGED <<db, events, lane, machine, mail>> /\ Late
  BY DEF ReplyLate, StatusLate, machineVars
<1>2. spent'["timeout"] # 0
  <2>1. World'.late
    BY <1>1, LateWorld
  <2> QED BY <2>1 DEF World
<1>3. PICK q : q = x[1]
  OBVIOUS
<1>4. q \in Rows /\ x = <<q, "first">> /\ task \in [TaskNames -> Tasks] /\ <<r, "first">> \in TaskNames /\ state \in Pictures /\ cmds \in Seq(Cmds)
  <2>1. q \in Rows /\ x[2] \in Sends /\ x = <<q, x[2]>>
    BY <1>3 DEF TaskNames
  <2>2. TaskInStep(World, state, task, q, x[2])
    BY <2>1 DEF InStep, TasksInStep
  <2>3. task[<<q, x[2]>>].pc # "idle"
    BY <2>1 DEF ReplyLate, StatusLate
  <2>4. ~World.restarted
    BY DEF World
  <2>5. x[2] = "first"
    BY <2>2, <2>3, <2>4 DEF TaskInStep
  <2> QED BY <2>1, <2>5 DEF TypeInv, TaskNames, Sends
<1>5. PICK td, late, n, u, c2, w, mine : td = Todo /\ late = (spent["timeout"] # 0) /\ n = state' /\ u = task' /\ c2 = cmds' /\ w = World /\ mine = (r = q)
  OBVIOUS
<1>6. late \in BOOLEAN /\ mine \in BOOLEAN
  BY <1>5
<1>7. StrayOK(db, machine, cmds, mail, state, task, td, events, TRUE, r)
  <2>1. StrayOK(db, machine, cmds, mail, state, task, td, events, late, r)
    <3> HIDE DEF StrayOK, Todo
    <3> QED BY <1>5 DEF CoveredNow
  <2> HIDE DEF StrayOK
  <2> QED BY <1>6, <2>1, LateGrows
<1>8. /\ TaskOf(task, r).pc # "idle" =>
           state.row[r] \notin {"unknown", "waiting"} /\ r \notin setting.unfit /\ ~Acting(td, "dispatch", r) /\ ~Acting(td, "refuse", r)
  <2>1. InStep(w, state, task, td, events, Landed) /\ w.unfit = setting.unfit
    BY <1>5 DEF World
  <2>2. /\ TaskOf(task, r).pc # "idle" =>
             state.row[r] \notin {"unknown", "waiting"} /\ r \notin w.unfit /\ ~Acting(td, "dispatch", r)
        /\ Acting(td, "refuse", r) => r \in w.unfit
    BY <2>1, AskedOnly
  <2> HIDE DEF Acting, TaskOf
  <2> QED BY <2>1, <2>2
<1>9. (r # q => <<r, "first">> # x) /\ (r = q => <<r, "first">> = x)
  BY <1>4
<1>10. ASSUME ReplyLate(x) PROVE StrayOK(db, machine, c2, mail, n, u, td, events, TRUE, r)
  <2>1. PICK again : again = (task[x].attempt < setting.attempts)
    OBVIOUS
  <2>2. PICK k, y : k = Command(IF again THEN "dispatch" ELSE "snapshot", q, task[x].of)
                  /\ y = [task[x] EXCEPT !.attempt = IF again THEN @ + 1 ELSE @, !.pc = IF again THEN @ ELSE "status"]
    OBVIOUS
  <2>3. task[x] \in Tasks
    BY <1>4
  <2>4. task[x].pc = "reply" /\ n = state /\ c2 = Append(cmds, k) /\ u = [task EXCEPT ![x] = y]
    BY <1>3, <1>4, <1>5, <1>10, <2>1, <2>2, <2>3 DEF ReplyLate
  <2>5. k \in Cmds /\ k.op \in {"dispatch", "snapshot"} /\ k.row = q /\ k.of = task[x].of
    BY <1>4, <2>2, <2>3 DEF Command, Cmds, Tasks
  <2>6. y.pc \in InFlight /\ y.of = task[x].of
    BY <2>2, <2>3, <2>4 DEF Tasks, InFlight
  <2>7. /\ ~mine => k.row # r /\ TaskOf(u, r) = TaskOf(task, r)
        /\ mine => /\ TaskOf(task, r).pc = "reply" /\ TaskOf(u, r).pc \in InFlight
                   /\ TaskOf(u, r).of = TaskOf(task, r).of /\ k.of = TaskOf(task, r).of
    <3>1. u[x] = y /\ (r # q => u[<<r, "first">>] = task[<<r, "first">>])
      BY <1>4, <1>9, <2>4
    <3>2. CASE r = q
      BY <1>5, <1>9, <2>4, <2>5, <2>6, <3>1, <3>2 DEF TaskOf
    <3>3. CASE r # q
      BY <1>5, <2>5, <3>1, <3>3 DEF TaskOf
    <3> QED BY <3>2, <3>3
  <2>8. StrayOK(db, machine, Append(cmds, k), mail, state, u, td, events, TRUE, r)
    <3> HIDE DEF StrayOK, TaskOf, Acting
    <3> QED BY <1>4, <1>6, <1>7, <1>8, <2>5, <2>7, SentAgain
  <2> HIDE DEF StrayOK
  <2> QED BY <2>4, <2>8
<1>11. ASSUME StatusLate(x) PROVE StrayOK(db, machine, c2, mail, n, u, td, events, TRUE, r)
  <2>1. PICK no \in BOOLEAN : no = FALSE
    OBVIOUS
  <2>2. PICK X, T : X = {x} /\ T = {}
    OBVIOUS
  <2>3. n = Concluded(state, X, T) /\ u = Answered(state, X, T, no) /\ c2 = cmds /\ task[x].pc = "status" /\ X \subseteq TaskNames
    BY <1>5, <1>11, <2>1, <2>2 DEF StatusLate
  <2>4. /\ n.row[r] = IF r \notin Asks(X) \/ ~IsOpen(state, r) THEN state.row[r] ELSE IF r \in T THEN "accepted" ELSE "refused"
        /\ n.held = state.held
    <3>1. /\ Concluded(state, X, T).row[r] = IF r \notin Asks(X) \/ ~IsOpen(state, r) THEN state.row[r] ELSE IF r \in T THEN "accepted" ELSE "refused"
          /\ Concluded(state, X, T).held = state.held
      BY <1>4, <2>3, ConcludedOf, SMTT(30)
    <3> HIDE DEF Concluded
    <3> QED BY <2>3, <3>1
  <2>a. X \subseteq TaskNames /\ no \in BOOLEAN /\ state \in Pictures
    BY <1>4, <2>1, <2>3
  <2>5. Asks(X) \subseteq {q}
    BY <1>3, <2>2 DEF Asks
  <2>6. \A z \in TaskNames :
          /\ z \notin X => u[z] = task[z]
          /\ z \in X => u[z].pc \in {"idle", "claim", "fail"} /\ (u[z].pc = "fail" => u[z].refused = no)
    <3>1. \A z \in TaskNames :
            /\ z \notin X => Answered(state, X, T, no)[z] = task[z]
            /\ z \in X => LET v == Answered(state, X, T, no)[z] IN
                 /\ v.pc \in {"idle", "claim", "fail"} /\ (v.pc # "idle" => ~task[z].ended)
                 /\ v.pc = "claim" => z[1] \in T
                 /\ v.pc = "fail" => z[1] \notin T /\ IsOpen(state, z[1]) /\ v.refused = no
      BY <2>a, AnsweredOf
    <3> HIDE DEF Answered
    <3> QED BY <2>3, <3>1
  <2>7. /\ r # q => TaskOf(u, r) = TaskOf(task, r)
        /\ r = q => /\ TaskOf(task, r).pc \in InFlight /\ TaskOf(u, r).pc \in {"idle", "claim", "fail"}
                    /\ TaskOf(u, r).pc = "fail" => ~TaskOf(u, r).refused
    <3>1. r # q => <<r, "first">> \notin X
      BY <1>9, <2>2
    <3>2. r = q => <<r, "first">> \in X
      BY <1>9, <2>2
    <3>3. ASSUME r = q PROVE /\ TaskOf(task, r).pc \in InFlight /\ TaskOf(u, r).pc \in {"idle", "claim", "fail"}
                             /\ TaskOf(u, r).pc = "fail" => ~TaskOf(u, r).refused
      <4>1. u[<<r, "first">>].pc \in {"idle", "claim", "fail"} /\ (u[<<r, "first">>].pc = "fail" => u[<<r, "first">>].refused = no)
        BY <1>4, <2>6, <3>2, <3>3
      <4>2. task[<<r, "first">>].pc = "status"
        BY <1>9, <2>3, <3>3
      <4> QED BY <2>1, <4>1, <4>2 DEF TaskOf, InFlight
    <3> QED BY <1>4, <2>6, <3>1, <3>3 DEF TaskOf
  <2>8. /\ r \in n.held => r \in state.held
        /\ \/ n.row[r] = state.row[r]
           \/ IsOpen(state, r) /\ TaskOf(task, r).pc # "idle" /\ n.row[r] \in {"accepted", "refused"}
        /\ \/ TaskOf(u, r) = TaskOf(task, r)
           \/ TaskOf(task, r).pc \in InFlight /\ TaskOf(u, r).pc \in {"idle", "claim", "fail"}
        /\ TaskOf(u, r).pc = "fail" => TaskOf(u, r) = TaskOf(task, r) \/ ~TaskOf(u, r).refused
    <3>1. r = q => TaskOf(task, r).pc # "idle"
      <4> HIDE DEF TaskOf
      <4> QED BY <2>7 DEF InFlight
    <3> HIDE DEF TaskOf, IsOpen
    <3> QED BY <2>4, <2>5, <2>7, <3>1
  <2>9. PICK yes : yes = TRUE
    OBVIOUS
  <2>10. StrayOK(db, machine, cmds, mail, state, task, td, events, yes, r)
    BY <1>7, <2>9
  <2>11. StrayOK(db, machine, cmds, mail, n, u, td, events, yes, r)
    <3> HIDE DEF StrayOK, TaskOf, Acting, Through, IsOpen
    <3>1. /\ n.row[r] = "refused" => state.row[r] = "refused" \/ yes \/ Through(machine, r)
          /\ TaskOf(u, r).pc = "fail" => TaskOf(u, r) = TaskOf(task, r) \/ (yes /\ ~TaskOf(u, r).refused) \/ Through(machine, r)
          /\ TaskOf(task, r).pc # "idle" => ~Acting(td, "refuse", r)
      BY <1>8, <2>8, <2>9
    <3> QED BY <2>8, <2>10, <3>1, Answers
  <2> HIDE DEF StrayOK
  <2> QED BY <2>3, <2>9, <2>11
<1>12. db' = db /\ machine' = machine /\ mail' = mail /\ events' = events /\ Todo' = td
  BY <1>1, <1>5 DEF Todo
<1>13. StrayOK(db', machine', cmds', mail', state', task', Todo', events', TRUE, r)
  <2> HIDE DEF StrayOK, Todo
  <2> QED BY <1>5, <1>10, <1>11, <1>12
<1>14. (spent'["timeout"] # 0) = TRUE
  BY <1>2
<1> HIDE DEF StrayOK, Todo
<1> QED BY <1>13, <1>14 DEF CoveredNext
\* A command is taken off the wire, and what the machine makes of one it has seen.
LEMMA CommandGone ==
  ASSUME NEW c \in Seq(Cmds), c # <<>>, NEW r \in Rows
  PROVE  /\ Wired(c, r) <=> Wired(Tail(c), r) \/ (c[1].op = "dispatch" /\ c[1].row = r)
         /\ Cancels(c, r) <=> Cancels(Tail(c), r) \/ (c[1].op = "cancel" /\ c[1].row = r)
         /\ \A i \in DOMAIN Tail(c) : \E j \in DOMAIN c : Tail(c)[i] = c[j]
         /\ \E j \in DOMAIN c : c[j] = c[1]
         /\ Behind(c, r) => Behind(Tail(c), r) /\ (c[1].op = "cancel" /\ c[1].row = r => ~Wired(c, r))
<1>1. PICK n, b : n = Len(c) /\ b = Tail(c)
  OBVIOUS
<1>2. n \in Nat \ {0} /\ DOMAIN c = 1..n /\ DOMAIN b = 1..(n - 1) /\ \A i \in 1..(n - 1) : b[i] = c[i + 1]
  <2>1. b \in Seq(Cmds) /\ Len(b) = n - 1 /\ \A i \in 1..Len(b) : b[i] = c[i + 1]
    BY <1>1, HeadTailProperties
  <2>2. n \in Nat \ {0} /\ DOMAIN c = 1..n /\ DOMAIN b = 1..Len(b)
    BY <1>1, <2>1, LenProperties, EmptySeq
  <2> QED BY <2>1, <2>2
<1>3. \A i \in DOMAIN b : i \in Nat /\ i + 1 \in DOMAIN c /\ b[i] = c[i + 1]
  BY <1>2
<1>4. 1 \in DOMAIN c /\ \A i \in DOMAIN c : i \in Nat /\ i >= 1 /\ (i = 1 \/ (i - 1 \in DOMAIN b /\ c[i] = b[i - 1]))
  <2>1. ASSUME NEW i \in 1..n, i # 1 PROVE i - 1 \in 1..(n - 1) /\ c[i] = b[i - 1]
    <3>1. i - 1 \in 1..(n - 1) /\ (i - 1) + 1 = i
      BY <1>2, <2>1
    <3>2. b[i - 1] = c[(i - 1) + 1]
      BY <1>2, <3>1
    <3> QED BY <3>1, <3>2
  <2> QED BY <1>2, <2>1
<1>5. /\ Wired(c, r) <=> Wired(b, r) \/ (c[1].op = "dispatch" /\ c[1].row = r)
      /\ Cancels(c, r) <=> Cancels(b, r) \/ (c[1].op = "cancel" /\ c[1].row = r)
  BY <1>3, <1>4 DEF Wired, Cancels
<1>6. ASSUME Behind(c, r) PROVE Behind(b, r)
  <2> SUFFICES ASSUME NEW i \in DOMAIN b, NEW j \in DOMAIN b,
                      b[i].op = "cancel", b[i].row = r, b[j].op = "dispatch", b[j].row = r
               PROVE  j < i
    BY DEF Behind
  <2>1. i + 1 \in DOMAIN c /\ j + 1 \in DOMAIN c /\ b[i] = c[i + 1] /\ b[j] = c[j + 1] /\ i \in Nat /\ j \in Nat
    BY <1>3
  <2>2. j + 1 < i + 1
    BY <1>6, <2>1 DEF Behind
  <2> QED BY <2>1, <2>2
<1>7. ASSUME Behind(c, r), c[1].op = "cancel", c[1].row = r, Wired(c, r) PROVE FALSE
  <2>1. PICK j \in DOMAIN c : c[j].op = "dispatch" /\ c[j].row = r
    BY <1>7 DEF Wired
  <2>2. j < 1
    BY <1>4, <1>7, <2>1 DEF Behind
  <2> QED BY <1>4, <2>1, <2>2
<1> QED BY <1>1, <1>3, <1>4, <1>5, <1>6, <1>7
LEMMA CommandTells ==
  ASSUME TypeInv, RunCommand
  PROVE  \E c \in Cmds :
         /\ c = cmds[1] /\ machine'.misread = machine.misread
         /\ c.op = "dispatch" => \E ok \in BOOLEAN :
              /\ mail' = Append(mail, [kind |-> "reply", row |-> c.row, of |-> c.of, ok |-> ok])
              /\ machine'.ran = machine.ran \cup {[cmd |-> c, ok |-> ok]}
              /\ ~ok => machine'.job[c.row] = machine.job[c.row] /\ \A e \in machine.ran : e.cmd = c => ~e.ok
              /\ (\E e \in machine.ran : e.cmd = c) => machine'.job[c.row] = machine.job[c.row]
         /\ c.op = "cancel" /\ (\A e \in machine.ran : e.cmd # c) => machine'.job[c.row] # "queued"
<1>a. PICK c : c = Head(cmds)
  OBVIOUS
<1>1. c \in Cmds /\ c = cmds[1] /\ c.row \in Rows /\ c.op \in {"dispatch", "cancel", "snapshot"}
  <2>1. cmds \in Seq(Cmds) /\ cmds # <<>>
    BY DEF TypeInv, RunCommand
  <2>2. c = cmds[1] /\ c \in Cmds
    BY <1>a, <2>1, HeadTailProperties
  <2> QED BY <2>2 DEF Cmds
<1>2. machine \in Machines /\ machine.job \in Jobs
  BY DEF TypeInv, Machines
<1>3. PICK before : before = {e \in machine.ran : e.cmd = c}
  OBVIOUS
<1>4. PICK new, ok : /\ new = (before = {})
                     /\ ok = (IF new THEN c.of >= period /\ c.row \notin setting.declined /\ machine.job[c.row] # "present"
                              ELSE \E e \in before : e.ok)
  OBVIOUS
<1>5. /\ new \in BOOLEAN /\ ok \in BOOLEAN
      /\ ~ok => \A e \in machine.ran : e.cmd = c => ~e.ok
      /\ (\E e \in machine.ran : e.cmd = c) => ~new
      /\ (\A e \in machine.ran : e.cmd # c) => new
  BY <1>3, <1>4
<1>6. PICK ran : ran = machine.ran \cup {[cmd |-> c, ok |-> ok]}
  OBVIOUS
<1>7. CASE c.op = "dispatch"
  <2>1. PICK job : job = [machine.job EXCEPT ![c.row] = IF new /\ ok THEN "queued" ELSE @]
    OBVIOUS
  <2>2. machine' = [[machine EXCEPT !.job = job] EXCEPT !.ran = ran]
    BY ZenonT(30), <1>a, <1>3, <1>4, <1>6, <1>7, <2>1 DEF RunCommand
  <2>3. mail' = Append(mail, [kind |-> "reply", row |-> c.row, of |-> c.of, ok |-> ok])
    BY <1>a, <1>3, <1>4, <1>7 DEF RunCommand
  <2>4. machine'.job = job /\ machine'.misread = machine.misread /\ machine'.ran = ran
    BY <1>2, <2>2 DEF Machines
  <2>5. job[c.row] = IF new /\ ok THEN "queued" ELSE machine.job[c.row]
    BY <1>1, <1>2, <2>1 DEF Jobs
  <2> QED BY <1>1, <1>5, <1>6, <1>7, <2>3, <2>4, <2>5
<1>8. CASE c.op = "cancel"
  <2>1. PICK queued : queued = (machine.job[c.row] = "queued")
    OBVIOUS
  <2>2. PICK gone : gone = [machine EXCEPT !.job[c.row] = "none"]
    OBVIOUS
  <2>3. gone \in Machines /\ gone.job[c.row] = "none" /\ gone.misread = machine.misread
    BY <1>1, <1>2, <2>2 DEF Machines, Jobs
  <2>4. CASE new /\ queued
    <3>1. machine' = [[machine EXCEPT !.job[c.row] = "none"] EXCEPT !.ran = ran]
      BY ZenonT(30), <1>a, <1>3, <1>4, <1>6, <1>8, <2>1, <2>4 DEF RunCommand
    <3>2. machine'.job = gone.job /\ machine'.misread = machine.misread
      BY <2>2, <2>3, <3>1 DEF Machines
    <3> QED BY <1>1, <1>5, <1>8, <2>3, <3>2
  <2>5. CASE ~new
    <3>1. machine' = [[machine EXCEPT !.job[c.row] = machine.job[c.row]] EXCEPT !.ran = ran]
      BY <1>a, <1>3, <1>4, <1>6, <1>8, <2>5 DEF RunCommand
    <3>2. machine'.misread = machine.misread
      BY <1>2, <3>1 DEF Machines
    <3> QED BY <1>1, <1>5, <1>8, <2>5, <3>2
  <2>6. CASE new /\ ~queued
    <3>1. machine.job[c.row] # "queued" /\ before = {}
      BY <1>4, <2>1, <2>6
    <3>2. ok = (c.of >= period /\ c.row \notin setting.declined /\ machine.job[c.row] # "present")
      BY <1>4, <2>6
    <3>3. machine' = [[machine EXCEPT !.job[c.row] = @] EXCEPT !.ran = @ \cup
            {[cmd |-> c, ok |-> c.of >= period /\ c.row \notin setting.declined /\ machine.job[c.row] # "present"]}]
      BY ZenonT(90), <1>a, <1>3, <1>8, <3>1 DEF RunCommand
    <3>4. machine'.job[c.row] = machine.job[c.row] /\ machine'.misread = machine.misread
      BY <1>1, <1>2, <3>3 DEF Machines, Jobs
    <3> QED BY <1>1, <1>8, <3>1, <3>4
  <2> QED BY <2>4, <2>5, <2>6
<1>9. CASE c.op = "snapshot"
  <2>1. PICK d : d = [machine EXCEPT !.ran = ran]
    OBVIOUS
  <2>2. d \in Machines /\ d.misread = machine.misread
    BY <1>1, <1>2, <1>5, <1>6, <2>1 DEF Machines
  <2>3. machine' = IF new THEN Saying(d) ELSE machine
    BY <1>a, <1>3, <1>4, <1>6, <1>9, <2>1 DEF RunCommand
  <2>4. Saying(d).misread = d.misread
    BY <2>2 DEF Saying, Machines
  <2> QED BY <1>1, <1>9, <2>2, <2>3, <2>4
<1> QED BY <1>1, <1>7, <1>8, <1>9
\* A step of the machine's: what it says of a row it is through with, it ran; a
\* cancel that goes off the wire leaves no job behind.
LEMMA MachineCovers ==
  ASSUME NEW rec, NEW M, NEW c, NEW m, NEW s, NEW t, NEW td, NEW ev, NEW late, NEW M2, NEW c2, NEW m2, NEW r,
         StrayOK(rec, M, c, m, s, t, td, ev, late, r),
         Issued(c2, M2, r) <=> Issued(c, M, r), \A p : AtPeriod(c, M, t, r, p) => AtPeriod(c2, M2, t, r, p),
         Ran(M, "dispatch", r) => Ran(M2, "dispatch", r), Through(M, r) => Through(M2, r),
         \A kind \in {"arrived", "released", "withdrawn"} : Says(m2, kind, r) => Says(m, kind, r) \/ Through(M2, r),
         Refuses(m2, r) => Refuses(m, r) \/ Through(M2, r),
         M2.job[r] # "none" => M.job[r] # "none" \/ Ran(M2, "dispatch", r),
         Says(m2, "reply", r) => Says(m, "reply", r) \/ Ran(M2, "dispatch", r),
         r \in M2.misread => r \in M.misread \/ Ran(M2, "dispatch", r), r \in M.misread => r \in M2.misread,
         Says(m2, "misread", r) => Says(m, "misread", r) \/ r \in M2.misread,
         Behind(c, r) => Behind(c2, r), Cancels(c2, r) => Cancels(c, r),
         CancelOK(rec, M, c, t, td, r) =>
           Through(M2, r) \/ ((Cancels(c, r) => Cancels(c2, r)) /\ (Ran(M2, "cancel", r) => Ran(M, "cancel", r)))
  PROVE  StrayOK(rec, M2, c2, m2, s, t, td, ev, late, r)
<1> HIDE DEF Acting, Through, Issued, Cancels, Behind, Ran, TaskOf, Wired, Says, Refuses, AtPeriod
<1>1. AskedOK(c, M, s, t, td, r) /\ ThroughOK(rec, M, m, s, t, td, late, r)
  BY DEF StrayOK
<1>2. AskedOK(c2, M2, s, t, td, r)
  <2>1. \E p : AtPeriod(c2, M2, t, r, p)
    BY <1>1 DEF AskedOK
  <2> QED BY <1>1, <2>1 DEF AskedOK
<1>3. ThroughOK(rec, M2, m2, s, t, td, late, r)
  <2>1. \A kind \in {"arrived", "released", "withdrawn"} : Says(m2, kind, r) => Through(M2, r)
    BY <1>1 DEF ThroughOK
  <2>2. Refuses(m2, r) \/ rec[r].item \/ rec[r].status = "received" \/ r \in s.held => Through(M2, r)
    BY <1>1 DEF ThroughOK
  <2>3. M2.job[r] # "none" \/ Says(m2, "reply", r) \/ r \in M2.misread => Ran(M2, "dispatch", r)
    BY <1>1 DEF ThroughOK
  <2>4. Says(m2, "misread", r) => r \in M2.misread
    BY <1>1 DEF ThroughOK
  <2> QED BY <1>1, <2>1, <2>2, <2>3, <2>4 DEF ThroughOK
<1>4. CASE Excused(rec, M, late, r) \/ Through(M2, r)
  <2>1. Excused(rec, M, late, r) => Excused(rec, M2, late, r)
    BY DEF Excused
  <2> QED BY <1>2, <1>3, <1>4, <2>1 DEF StrayOK
<1>5. CASE /\ CancelOK(rec, M, c, t, td, r) /\ (Ended(rec, r) => Covered(rec, M, c, s, t, td, ev, r))
           /\ ~Through(M2, r)
  <2>1. CancelOK(rec, M2, c2, t, td, r)
    BY <1>5 DEF CancelOK
  <2>2. Ended(rec, r) => Covered(rec, M2, c2, s, t, td, ev, r)
    <3> HIDE DEF Ended
    <3> QED BY <1>5 DEF Covered
  <2> HIDE DEF Covered, CancelOK
  <2> QED BY <1>2, <1>3, <2>1, <2>2 DEF StrayOK
<1> QED BY <1>4, <1>5 DEF StrayOK
\* The machine runs a command.
LEMMA CommandsCovered ==
  ASSUME TypeInv, Placed, RunCommand, NEW r \in Rows, CoveredNow(r)
  PROVE  CoveredNext(r)
<1>1. PICK c \in Cmds :
         /\ cmds # <<>> /\ c = cmds[1] /\ cmds' = Tail(cmds) /\ cmds' \in Seq(Cmds)
         /\ machine' \in Machines /\ machine'.boot = machine.boot
         /\ \A q \in Rows \ {c.row} : machine'.job[q] = machine.job[q]
         /\ \/ /\ c.op = "dispatch" /\ machine'.said = machine.said
               /\ \E ok \in BOOLEAN :
                    /\ mail' = Append(mail, [kind |-> "reply", row |-> c.row, of |-> c.of, ok |-> ok])
                    /\ \/ machine'.job[c.row] = machine.job[c.row]
                       \/ ok /\ machine.job[c.row] # "present" /\ machine'.job[c.row] = "queued"
            \/ /\ c.op = "cancel" /\ machine'.said = machine.said
               /\ \/ mail' = mail /\ machine'.job[c.row] = machine.job[c.row]
                  \/ /\ machine.job[c.row] = "queued" /\ machine'.job[c.row] = "none"
                     /\ mail' = Append(mail, Note("withdrawn", c.row))
            \/ /\ c.op = "snapshot" /\ machine'.job[c.row] = machine.job[c.row]
               /\ \/ mail' = mail /\ machine'.said = machine.said
                  \/ mail' = Append(mail, Snapshot(machine)) /\ machine'.said.boot = machine.boot
         /\ UNCHANGED <<setting, db, events, gateway, state, lane, task, period, spent>>
  BY RunCommandPlan
<1>2. PICK M, M2, c2, m2, td, late : M = machine /\ M2 = machine' /\ c2 = cmds' /\ m2 = mail' /\ td = Todo /\ late = (spent["timeout"] # 0)
  OBVIOUS
<1>3. mail \in Seq(Letters) /\ cmds \in Seq(Cmds) /\ c.row \in Rows /\ c.op \in {"dispatch", "cancel", "snapshot"}
  BY DEF TypeInv, Cmds
<1>4. StrayOK(db, M, cmds, mail, state, task, td, events, late, r)
  <2> HIDE DEF StrayOK, Todo
  <2> QED BY <1>2 DEF CoveredNow
<1>5. AskedOK(cmds, M, state, task, td, r) /\ ThroughOK(db, M, mail, state, task, td, late, r)
  BY <1>4 DEF StrayOK
<1>6. /\ Wired(cmds, r) <=> Wired(c2, r) \/ (c.op = "dispatch" /\ c.row = r)
      /\ Cancels(cmds, r) <=> Cancels(c2, r) \/ (c.op = "cancel" /\ c.row = r)
      /\ \A i \in DOMAIN c2 : \E j \in DOMAIN cmds : c2[i] = cmds[j]
      /\ \E j \in DOMAIN cmds : cmds[j] = c
      /\ Behind(cmds, r) => Behind(c2, r) /\ (c.op = "cancel" /\ c.row = r => ~Wired(cmds, r))
  <2>1. /\ Wired(cmds, r) <=> Wired(Tail(cmds), r) \/ (cmds[1].op = "dispatch" /\ cmds[1].row = r)
        /\ Cancels(cmds, r) <=> Cancels(Tail(cmds), r) \/ (cmds[1].op = "cancel" /\ cmds[1].row = r)
        /\ \A i \in DOMAIN Tail(cmds) : \E j \in DOMAIN cmds : Tail(cmds)[i] = cmds[j]
        /\ \E j \in DOMAIN cmds : cmds[j] = cmds[1]
        /\ Behind(cmds, r) => Behind(Tail(cmds), r) /\ (cmds[1].op = "cancel" /\ cmds[1].row = r => ~Wired(cmds, r))
    BY <1>1, <1>3, CommandGone
  <2>2. c2 = Tail(cmds) /\ c = cmds[1]
    BY <1>1, <1>2
  <2> HIDE DEF Wired, Cancels, Behind
  <2> QED BY <2>1, <2>2
<1>8. /\ M2.misread = M.misread
      /\ c.op = "dispatch" => \E ok \in BOOLEAN :
              /\ m2 = Append(mail, [kind |-> "reply", row |-> c.row, of |-> c.of, ok |-> ok])
              /\ M2.ran = M.ran \cup {[cmd |-> c, ok |-> ok]}
              /\ ~ok => M2.job[c.row] = M.job[c.row] /\ \A e \in M.ran : e.cmd = c => ~e.ok
              /\ (\E e \in M.ran : e.cmd = c) => M2.job[c.row] = M.job[c.row]
      /\ c.op = "cancel" /\ (\A e \in M.ran : e.cmd # c) => M2.job[c.row] # "queued"
  <2>1. \E d \in Cmds :
         /\ d = cmds[1] /\ machine'.misread = machine.misread
         /\ d.op = "dispatch" => \E ok \in BOOLEAN :
              /\ mail' = Append(mail, [kind |-> "reply", row |-> d.row, of |-> d.of, ok |-> ok])
              /\ machine'.ran = machine.ran \cup {[cmd |-> d, ok |-> ok]}
              /\ ~ok => machine'.job[d.row] = machine.job[d.row] /\ \A e \in machine.ran : e.cmd = d => ~e.ok
              /\ (\E e \in machine.ran : e.cmd = d) => machine'.job[d.row] = machine.job[d.row]
         /\ d.op = "cancel" /\ (\A e \in machine.ran : e.cmd # d) => machine'.job[d.row] # "queued"
    BY CommandTells
  <2>2. PICK d \in Cmds :
         /\ d = cmds[1] /\ M2.misread = M.misread
         /\ d.op = "dispatch" => \E ok \in BOOLEAN :
              /\ m2 = Append(mail, [kind |-> "reply", row |-> d.row, of |-> d.of, ok |-> ok])
              /\ M2.ran = M.ran \cup {[cmd |-> d, ok |-> ok]}
              /\ ~ok => M2.job[d.row] = M.job[d.row] /\ \A e \in M.ran : e.cmd = d => ~e.ok
              /\ (\E e \in M.ran : e.cmd = d) => M2.job[d.row] = M.job[d.row]
         /\ d.op = "cancel" /\ (\A e \in M.ran : e.cmd # d) => M2.job[d.row] # "queued"
    BY <1>2, <2>1
  <2>3. d = c
    BY <1>1, <2>2
  <2> QED BY <2>2, <2>3
<1>9. c.op # "dispatch" => M2.ran = M.ran \/ \E ok \in BOOLEAN : M2.ran = M.ran \cup {[cmd |-> c, ok |-> ok]}
  <2>1. \E d \in Cmds :
         /\ d = cmds[1]
         /\ d.op # "dispatch" => \/ machine'.ran = machine.ran
                                 \/ \E ok \in BOOLEAN : machine'.ran = machine.ran \cup {[cmd |-> d, ok |-> ok]}
         /\ d.op = "dispatch" => \E ok \in BOOLEAN :
              /\ machine'.ran = machine.ran \cup {[cmd |-> d, ok |-> ok]}
              /\ mail' = Append(mail, [kind |-> "reply", row |-> d.row, of |-> d.of, ok |-> ok])
              /\ \/ machine'.job[d.row] = machine.job[d.row]
                 \/ ok /\ machine.job[d.row] # "present" /\ machine'.job[d.row] = "queued"
              /\ ok => machine'.job[d.row] = "queued" \/ \E e \in machine.ran : e.cmd = d /\ e.ok
    BY CommandRan
  <2> QED BY <1>1, <1>2, <2>1
<1>10. /\ \A e \in M.ran : e \in M2.ran
       /\ \A e \in M2.ran : e \in M.ran \/ e.cmd = c
       /\ c.op = "dispatch" => \E e \in M2.ran : e.cmd = c
  <2>1. ASSUME NEW ok, M2.ran = M.ran \cup {[cmd |-> c, ok |-> ok]}
        PROVE  /\ \A e \in M.ran : e \in M2.ran
               /\ \A e \in M2.ran : e \in M.ran \/ e.cmd = c
               /\ \E e \in M2.ran : e.cmd = c
    <3>1. PICK e : e = [cmd |-> c, ok |-> ok]
      OBVIOUS
    <3>2. e.cmd = c /\ M2.ran = M.ran \cup {e}
      BY <2>1, <3>1
    <3> QED BY <3>2
  <2>2. CASE c.op = "dispatch"
    <3>1. \E ok \in BOOLEAN : M2.ran = M.ran \cup {[cmd |-> c, ok |-> ok]}
      BY <1>8, <2>2
    <3> QED BY <2>1, <3>1
  <2>3. CASE c.op # "dispatch"
    BY <1>9, <2>1, <2>3
  <2> QED BY <2>2, <2>3
<1>11. /\ Ran(M, "dispatch", r) => Ran(M2, "dispatch", r)
       /\ \A op : Ran(M2, op, r) => Ran(M, op, r) \/ (c.op = op /\ c.row = r)
       /\ c.op = "dispatch" /\ c.row = r => Ran(M2, "dispatch", r)
  BY <1>10 DEF Ran
<1>12. Issued(c2, M2, r) <=> Issued(cmds, M, r)
  <2> HIDE DEF Wired, Ran
  <2> QED BY <1>6, <1>11 DEF Issued
<1>13. ASSUME NEW p, AtPeriod(cmds, M, task, r, p)
       PROVE  /\ AtPeriod(c2, M2, task, r, p)
              /\ c.op = "dispatch" /\ c.row = r => \A e \in M.ran : e.cmd.op = "dispatch" /\ e.cmd.row = r => e.cmd = c
  <2>1. c.op = "dispatch" /\ c.row = r => c.of = p
    BY <1>6, <1>13 DEF AtPeriod
  <2>2. \A i \in DOMAIN c2 : c2[i].op = "dispatch" /\ c2[i].row = r => c2[i].of = p
    BY <1>6, <1>13 DEF AtPeriod
  <2>3. \A e \in M2.ran : e.cmd.op = "dispatch" /\ e.cmd.row = r => e.cmd.of = p
    BY <1>10, <1>13, <2>1 DEF AtPeriod
  <2>4. AtPeriod(c2, M2, task, r, p)
    <3> HIDE DEF TaskOf
    <3> QED BY <1>13, <2>2, <2>3 DEF AtPeriod
  <2>5. ASSUME c.op = "dispatch", c.row = r, NEW e \in M.ran, e.cmd.op = "dispatch", e.cmd.row = r PROVE e.cmd = c
    <3>1. e.cmd.of = p
      BY <1>13, <2>5 DEF AtPeriod
    <3>2. e.cmd \in Cmds
      BY <1>2, <2>5 DEF TypeInv, Machines
    <3> QED BY <2>1, <2>5, <3>1, <3>2 DEF Cmds
  <2> QED BY <2>4, <2>5
<1>14. c.op = "dispatch" /\ c.row = r => \A e \in M.ran : e.cmd.op = "dispatch" /\ e.cmd.row = r => e.cmd = c
  <2>1. PICK p : AtPeriod(cmds, M, task, r, p)
    BY <1>5 DEF AskedOK
  <2> QED BY <1>13, <2>1
<1>15. M.job[r] # "none" => Taken(M, r)
  <2>1. InPlace(r)
    BY DEF Placed
  <2> HIDE DEF Taken, Wired, Says, Stays, Knows
  <2> QED BY <1>2, <2>1 DEF InPlace, WireOK
<1>16. PICK h \in Letters :
         /\ m2 = mail \/ m2 = Append(mail, h)
         /\ h.kind \in {"reply", "withdrawn", "snapshot"} /\ (h.kind # "snapshot" => h.row = c.row)
         /\ h.kind = "reply" => c.op = "dispatch" /\ (~h.ok => M2.job[c.row] = M.job[c.row] /\ \A e \in M.ran : e.cmd = c => ~e.ok)
         /\ h.kind = "withdrawn" => M.job[c.row] = "queued" /\ M2.job[c.row] = "none"
  <2>1. PICK s, n : s = Snapshot(machine) /\ n = Note("withdrawn", c.row)
    OBVIOUS
  <2>2. n \in Letters /\ n.kind = "withdrawn" /\ n.row = c.row
    BY <1>3, <2>1, NoteOf
  <2>3. s \in Letters /\ s.kind = "snapshot"
    BY <2>1, ListedTaken
  <2>4. CASE c.op = "dispatch"
    <3>1. PICK ok \in BOOLEAN :
            /\ m2 = Append(mail, [kind |-> "reply", row |-> c.row, of |-> c.of, ok |-> ok])
            /\ ~ok => M2.job[c.row] = M.job[c.row] /\ \A e \in M.ran : e.cmd = c => ~e.ok
      BY <1>8, <2>4
    <3>2. PICK a : a = [kind |-> "reply", row |-> c.row, of |-> c.of, ok |-> ok]
      OBVIOUS
    <3>3. a \in Letters /\ a.kind = "reply" /\ a.row = c.row /\ a.ok = ok
      BY <1>3, <3>2 DEF Letters, Cmds
    <3> QED BY <2>4, <3>1, <3>2, <3>3
  <2>5. CASE c.op # "dispatch"
    <3>1. \/ m2 = mail
          \/ M.job[c.row] = "queued" /\ M2.job[c.row] = "none" /\ m2 = Append(mail, n)
          \/ m2 = Append(mail, s)
      BY <1>1, <1>2, <2>1, <2>5
    <3> QED BY <2>2, <2>3, <3>1
  <2> QED BY <2>4, <2>5
<1>17. /\ \A kind : Says(m2, kind, r) => Says(mail, kind, r) \/ (h.kind = kind /\ h.row = r)
       /\ Refuses(m2, r) => Refuses(mail, r) \/ (h.kind = "reply" /\ h.row = r /\ ~h.ok)
  <2>1. CASE m2 = mail
    BY <2>1
  <2>2. CASE m2 = Append(mail, h)
    BY <1>3, <2>2, MailWritten
  <2> QED BY <1>16, <2>1, <2>2
<1>18. Through(M, r) => Through(M2, r)
  <2>1. CASE c.row # r
    BY <1>1, <1>2, <1>11, <2>1 DEF Through
  <2>2. CASE c.row = r /\ c.op = "dispatch"
    <3>1. ASSUME Ran(M, "dispatch", r) PROVE M2.job[r] = M.job[r]
      BY <1>8, <1>14, <2>2, <3>1 DEF Ran
    <3> HIDE DEF Ran
    <3> QED BY <1>11, <3>1 DEF Through
  <2>3. CASE c.row = r /\ c.op # "dispatch"
    <3>1. M2.job[r] = M.job[r] \/ M2.job[r] = "none"
      BY <1>1, <1>2, <2>3
    <3> HIDE DEF Ran
    <3> QED BY <1>11, <3>1 DEF Through
  <2> QED BY <2>1, <2>2, <2>3
<1>19. h.kind = "reply" /\ h.row = r /\ ~h.ok => Through(M2, r)
  <2> SUFFICES ASSUME h.kind = "reply", h.row = r, ~h.ok PROVE Through(M2, r)
    OBVIOUS
  <2>1. c.row = r /\ c.op = "dispatch" /\ M2.job[r] = M.job[r] /\ \A e \in M.ran : e.cmd = c => ~e.ok
    BY <1>16
  <2>2. ~Taken(M, r)
    BY <1>14, <2>1 DEF Taken
  <2>3. M2.job[r] = "none"
    BY <1>15, <2>1, <2>2
  <2> HIDE DEF Ran
  <2> QED BY <1>11, <2>1, <2>3 DEF Through
<1>20. h.kind = "withdrawn" /\ h.row = r => Through(M2, r)
  <2> SUFFICES ASSUME h.kind = "withdrawn", h.row = r PROVE Through(M2, r)
    OBVIOUS
  <2>1. M.job[r] # "none" /\ M2.job[r] = "none"
    BY <1>16
  <2>2. Ran(M, "dispatch", r)
    <3> HIDE DEF Ran, Says, Through, Refuses
    <3> QED BY <1>5, <2>1 DEF ThroughOK
  <2> HIDE DEF Ran
  <2> QED BY <1>11, <2>1, <2>2 DEF Through
<1>21. M2.job[r] # "none" => M.job[r] # "none" \/ Ran(M2, "dispatch", r)
  <2> HIDE DEF Ran
  <2> QED BY <1>1, <1>2, <1>11
<1>22. ASSUME CancelOK(db, M, cmds, task, td, r)
       PROVE  Through(M2, r) \/ ((Cancels(cmds, r) => Cancels(c2, r)) /\ (Ran(M2, "cancel", r) => Ran(M, "cancel", r)))
  <2>1. CASE ~(c.op = "cancel" /\ c.row = r)
    <3> HIDE DEF Ran, Cancels
    <3> QED BY <1>6, <1>11, <2>1
  <2>2. CASE c.op = "cancel" /\ c.row = r
    <3>1. ~Ran(M, "cancel", r) /\ ~Wired(cmds, r) /\ Issued(cmds, M, r)
      <4> HIDE DEF Ran, Cancels, Behind, Wired, Issued, TaskOf, Acting
      <4> QED BY <1>6, <1>22, <2>2 DEF CancelOK
    <3>2. Ran(M2, "dispatch", r)
      <4> HIDE DEF Ran, Wired
      <4> QED BY <1>11, <3>1 DEF Issued
    <3>3. M2.job[r] # "queued"
      BY <1>8, <2>2, <3>1 DEF Ran
    <3> QED BY <3>2, <3>3 DEF Through
  <2> QED BY <2>1, <2>2
<1>23. StrayOK(db, M2, c2, m2, state, task, td, events, late, r)
  <2>1. /\ \A kind \in {"arrived", "released", "withdrawn"} : Says(m2, kind, r) => Says(mail, kind, r) \/ Through(M2, r)
        /\ Refuses(m2, r) => Refuses(mail, r) \/ Through(M2, r)
        /\ Says(m2, "reply", r) => Says(mail, "reply", r) \/ Ran(M2, "dispatch", r)
        /\ Says(m2, "misread", r) => Says(mail, "misread", r)
    <3>1. \A kind \in {"arrived", "released", "withdrawn"} : Says(m2, kind, r) => Says(mail, kind, r) \/ Through(M2, r)
      <4> HIDE DEF Through, Says
      <4> QED BY <1>16, <1>17, <1>20
    <3>2. Says(m2, "reply", r) => Says(mail, "reply", r) \/ Ran(M2, "dispatch", r)
      <4>1. Says(m2, "reply", r) => Says(mail, "reply", r) \/ (h.kind = "reply" /\ h.row = r)
        BY <1>17
      <4> HIDE DEF Says, Ran
      <4> QED BY <1>11, <1>16, <4>1
    <3>3. Says(m2, "misread", r) => Says(mail, "misread", r)
      <4>1. Says(m2, "misread", r) => Says(mail, "misread", r) \/ (h.kind = "misread" /\ h.row = r)
        BY <1>17
      <4> HIDE DEF Says
      <4> QED BY <1>16, <4>1
    <3> HIDE DEF Through, Says, Refuses, Ran
    <3> QED BY <1>17, <1>19, <3>1, <3>2, <3>3
  <2>2. /\ Behind(cmds, r) => Behind(c2, r)
        /\ Cancels(c2, r) => Cancels(cmds, r)
    <3> HIDE DEF Behind, Cancels, Wired
    <3> QED BY <1>6
  <2>3. Ran(M, "dispatch", r) => Ran(M2, "dispatch", r)
    BY <1>11
  <2>4. \A p : AtPeriod(cmds, M, task, r, p) => AtPeriod(c2, M2, task, r, p)
    <3> HIDE DEF AtPeriod
    <3> QED BY <1>13
  <2> HIDE DEF StrayOK, Through, Says, Refuses, Ran, Behind, Cancels, Wired, Issued, AtPeriod, CancelOK
  <2> QED BY <1>4, <1>8, <1>12, <1>18, <1>21, <1>22, <2>1, <2>2, <2>3, <2>4, MachineCovers
<1>24. db' = db /\ state' = state /\ task' = task /\ events' = events /\ spent' = spent /\ lane' = lane
  BY <1>1
<1>25. Todo' = td
  BY <1>2, <1>24 DEF Todo
<1>26. StrayOK(db', machine', cmds', mail', state', task', Todo', events', late, r) /\ (spent'["timeout"] # 0) = late
  <2>1. (spent'["timeout"] # 0) = late
    BY <1>2, <1>24
  <2> HIDE DEF StrayOK, Todo
  <2> QED BY <1>2, <1>23, <1>24, <1>25, <2>1
<1> HIDE DEF StrayOK, Todo
<1> QED BY <1>26 DEF CoveredNext
\* A unit moves, the machine reports, a period ends.
LEMMA MovesCovered ==
  ASSUME TypeInv, Placed, (\E q \in Rows : Arrive(q) \/ Release(q)) \/ Beat \/ EndPeriod \/ UNCHANGED handoffVars,
         setting' = setting, NEW r \in Rows, CoveredNow(r)
  PROVE  CoveredNext(r)
<1>1. UNCHANGED <<db, events, state, lane, task, cmds>> /\ (spent' = spent \/ (spent'["timeout"] # 0 <=> spent["timeout"] # 0))
  <2>1. UNCHANGED <<db, events, state, lane, task, cmds>>
    BY DEF Arrive, Release, Beat, EndPeriod, MachineOnly, leaderVars, handoffVars
  <2>2. CASE (\E q \in Rows : Arrive(q) \/ Release(q)) \/ UNCHANGED handoffVars
    BY <2>1, <2>2 DEF Arrive, Release, handoffVars
  <2>3. CASE Beat \/ EndPeriod
    <3>1. \E f \in FaultKinds : f # "timeout" /\ Spend(f)
      BY <2>3 DEF Beat, EndPeriod, FaultKinds
    <3>2. \A f \in FaultKinds : Spend(f) =>
              /\ spent' \in [FaultKinds -> Nat] /\ spent'[f] # 0
              /\ \A g \in FaultKinds \ {f} : spent'[g] = spent[g]
      BY SpendOf
    <3>3. "timeout" \in FaultKinds
      BY DEF FaultKinds
    <3>4. spent'["timeout"] = spent["timeout"]
      BY <3>1, <3>2, <3>3
    <3> QED BY <2>1, <3>4
  <2> QED BY <2>2, <2>3
<1>2. PICK M, M2, m2, td, late : M = machine /\ M2 = machine' /\ m2 = mail' /\ td = Todo /\ late = (spent["timeout"] # 0)
  OBVIOUS
<1>3. mail \in Seq(Letters) /\ M \in Machines /\ M.job \in Jobs
  BY <1>2 DEF TypeInv, Machines
<1>4. StrayOK(db, M, cmds, mail, state, task, td, events, late, r)
  <2> HIDE DEF StrayOK, Todo
  <2> QED BY <1>2 DEF CoveredNow
<1>5. AskedOK(cmds, M, state, task, td, r) /\ ThroughOK(db, M, mail, state, task, td, late, r)
  BY <1>4 DEF StrayOK
<1>6. M.job[r] # "none" => Ran(M, "dispatch", r)
  <2> HIDE DEF Ran, Through, Says, Refuses
  <2> QED BY <1>5 DEF ThroughOK
<1>7. \E h \in Letters :
        /\ m2 = mail \/ m2 = Append(mail, h)
        /\ M2.ran = M.ran
        /\ \/ h.kind = "snapshot" /\ M2.job[r] = M.job[r] /\ M2.misread = M.misread
           \/ h.row # r /\ M2.job[r] = M.job[r] /\ (r \in M2.misread <=> r \in M.misread)
           \/ h.kind = "misread" /\ M.job[r] # "none" /\ M2.job[r] = M.job[r] /\ r \in M2.misread
           \/ h.kind = "arrived" /\ M.job[r] # "none" /\ M2.job[r] = "present" /\ M2.misread = M.misread
           \/ h.kind = "released" /\ M.job[r] # "none" /\ M2.job[r] = "none" /\ M2.misread = M.misread
  <2>1. PICK s : s = Snapshot(machine)
    OBVIOUS
  <2>2. s \in Letters /\ s.kind = "snapshot"
    BY <2>1, ListedTaken
  <2>3. CASE EndPeriod \/ UNCHANGED handoffVars
    <3>1. M2 = M /\ m2 = mail
      BY <1>2, <2>3 DEF EndPeriod, handoffVars
    <3> QED BY <2>2, <3>1
  <2>4. CASE Beat
    <3>1. M2 = Saying(M) /\ m2 = Append(mail, s)
      BY <1>2, <2>1, <2>4 DEF Beat
    <3>2. M2.job = M.job /\ M2.ran = M.ran /\ M2.misread = M.misread
      BY <1>3, <3>1 DEF Saying, Machines
    <3> QED BY <2>2, <3>1, <3>2
  <2>5. ASSUME NEW q \in Rows, Arrive(q), q \in setting.misread \ machine.misread PROVE <1>7!:
    <3>1. m2 = Append(mail, Note("misread", q)) /\ M2 = [M EXCEPT !.misread = @ \cup {q}] /\ M.job[q] = "queued"
      BY <1>2, <2>5 DEF Arrive
    <3>2. M2.job = M.job /\ M2.ran = M.ran /\ M2.misread = M.misread \cup {q}
      BY <1>3, <3>1 DEF Machines
    <3>3. PICK h : h = Note("misread", q)
      OBVIOUS
    <3>4. h \in Letters /\ h.kind = "misread" /\ h.row = q
      BY <3>3, NoteOf
    <3> QED BY <3>1, <3>2, <3>3, <3>4
  <2>6. ASSUME NEW q \in Rows, Arrive(q), q \notin setting.misread \ machine.misread PROVE <1>7!:
    <3>1. m2 = Append(mail, Note("arrived", q)) /\ M2 = [M EXCEPT !.job[q] = "present"] /\ M.job[q] = "queued"
      BY <1>2, <2>6 DEF Arrive
    <3>2. M2.job = [M.job EXCEPT ![q] = "present"] /\ M2.ran = M.ran /\ M2.misread = M.misread
      BY <1>3, <3>1 DEF Machines
    <3>3. PICK h : h = Note("arrived", q)
      OBVIOUS
    <3>4. h \in Letters /\ h.kind = "arrived" /\ h.row = q
      BY <3>3, NoteOf
    <3>5. M2.job[q] = "present" /\ (r # q => M2.job[r] = M.job[r])
      BY <1>3, <3>2 DEF Jobs
    <3> QED BY <3>1, <3>2, <3>3, <3>4, <3>5
  <2>7. ASSUME NEW q \in Rows, Release(q) PROVE <1>7!:
    <3>1. m2 = Append(mail, Note("released", q)) /\ M2 = [M EXCEPT !.job[q] = "none"] /\ M.job[q] = "present"
      BY <1>2, <2>7 DEF Release
    <3>2. M2.job = [M.job EXCEPT ![q] = "none"] /\ M2.ran = M.ran /\ M2.misread = M.misread
      BY <1>3, <3>1 DEF Machines
    <3>3. PICK h : h = Note("released", q)
      OBVIOUS
    <3>4. h \in Letters /\ h.kind = "released" /\ h.row = q
      BY <3>3, NoteOf
    <3>5. M2.job[q] = "none" /\ (r # q => M2.job[r] = M.job[r])
      BY <1>3, <3>2 DEF Jobs
    <3> QED BY <3>1, <3>2, <3>3, <3>4, <3>5
  <2> QED BY <2>3, <2>4, <2>5, <2>6, <2>7
<1>8. PICK h \in Letters :
        /\ m2 = mail \/ m2 = Append(mail, h)
        /\ M2.ran = M.ran
        /\ \/ h.kind = "snapshot" /\ M2.job[r] = M.job[r] /\ M2.misread = M.misread
           \/ h.row # r /\ M2.job[r] = M.job[r] /\ (r \in M2.misread <=> r \in M.misread)
           \/ h.kind = "misread" /\ M.job[r] # "none" /\ M2.job[r] = M.job[r] /\ r \in M2.misread
           \/ h.kind = "arrived" /\ M.job[r] # "none" /\ M2.job[r] = "present" /\ M2.misread = M.misread
           \/ h.kind = "released" /\ M.job[r] # "none" /\ M2.job[r] = "none" /\ M2.misread = M.misread
  BY <1>7
<1>9. \A op : Ran(M2, op, r) <=> Ran(M, op, r)
  BY <1>8 DEF Ran
<1>10. /\ \A kind : Says(m2, kind, r) => Says(mail, kind, r) \/ (h.kind = kind /\ h.row = r)
       /\ Refuses(m2, r) => Refuses(mail, r) \/ (h.kind = "reply" /\ h.row = r /\ ~h.ok)
  <2>1. CASE m2 = mail
    BY <2>1
  <2>2. CASE m2 = Append(mail, h)
    BY <1>3, <2>2, MailWritten
  <2> QED BY <1>8, <2>1, <2>2
<1>11. Issued(cmds, M2, r) <=> Issued(cmds, M, r)
  <2> HIDE DEF Ran
  <2> QED BY <1>9 DEF Issued
<1>12. \A p : AtPeriod(cmds, M, task, r, p) => AtPeriod(cmds, M2, task, r, p)
  <2> HIDE DEF TaskOf
  <2> QED BY <1>8 DEF AtPeriod
<1>13. /\ Through(M, r) => Through(M2, r)
       /\ h.kind \in {"arrived", "released", "withdrawn"} /\ h.row = r => Through(M2, r)
  <2> HIDE DEF Ran
  <2> QED BY <1>6, <1>8, <1>9 DEF Through
<1>14. StrayOK(db, M2, cmds, m2, state, task, td, events, late, r)
  <2>1. /\ \A kind \in {"arrived", "released", "withdrawn"} : Says(m2, kind, r) => Says(mail, kind, r) \/ Through(M2, r)
        /\ Refuses(m2, r) => Refuses(mail, r) \/ Through(M2, r)
    <3> HIDE DEF Through, Says, Refuses
    <3> QED BY <1>8, <1>10, <1>13
  <2>2. Says(m2, "reply", r) => Says(mail, "reply", r) \/ Ran(M2, "dispatch", r)
    <3>1. Says(m2, "reply", r) => Says(mail, "reply", r) \/ (h.kind = "reply" /\ h.row = r)
      BY <1>10
    <3> HIDE DEF Says, Ran
    <3> QED BY <1>8, <3>1
  <2>3. Says(m2, "misread", r) => Says(mail, "misread", r) \/ r \in M2.misread
    <3>1. Says(m2, "misread", r) => Says(mail, "misread", r) \/ (h.kind = "misread" /\ h.row = r)
      BY <1>10
    <3> HIDE DEF Says
    <3> QED BY <1>8, <3>1
  <2>4. /\ M2.job[r] # "none" => M.job[r] # "none" \/ Ran(M2, "dispatch", r)
        /\ r \in M2.misread => r \in M.misread \/ Ran(M2, "dispatch", r)
        /\ r \in M.misread => r \in M2.misread
    <3> HIDE DEF Ran
    <3> QED BY <1>6, <1>8, <1>9
  <2>5. /\ Ran(M, "dispatch", r) => Ran(M2, "dispatch", r)
        /\ Ran(M2, "cancel", r) => Ran(M, "cancel", r)
    BY <1>9
  <2> HIDE DEF StrayOK, Through, Says, Refuses, Ran, Behind, Cancels, Wired, Issued, AtPeriod, CancelOK
  <2> QED BY <1>4, <1>11, <1>12, <1>13, <2>1, <2>2, <2>3, <2>4, <2>5, MachineCovers
<1>15. Todo' = td /\ (spent'["timeout"] # 0) = late
  <2>1. (spent'["timeout"] # 0) = (spent["timeout"] # 0)
    BY <1>1
  <2> QED BY <1>1, <1>2, <2>1 DEF Todo
<1>16. StrayOK(db', machine', cmds', mail', state', task', Todo', events', late, r)
  <2> HIDE DEF StrayOK, Todo
  <2> QED BY <1>1, <1>2, <1>14, <1>15
<1> HIDE DEF StrayOK, Todo
<1> QED BY <1>15, <1>16 DEF CoveredNext
\* Nothing strays but where a machine restarts, the gateway crashes, or hosts do not
\* wait for a gateway.
Straight == ~setting.busyTakeover /\ Never({"crash", "restart"})
StrayInv == ThereInv /\ (Straight => (\A r \in Rows : CoveredNow(r)) /\ Blocked(Todo) /\ NothingYet)

LEMMA StrayBegins == HandoffInit => StrayInv
<1> SUFFICES ASSUME HandoffInit PROVE StrayInv
  OBVIOUS
<1>1. ThereInv
  BY ThereBegins
<1>2. PICK c, m, M, s, t, td, late : c = cmds /\ m = mail /\ M = machine /\ s = state /\ t = task /\ td = Todo /\ late = (spent["timeout"] # 0)
  OBVIOUS
<1>3. /\ DOMAIN c = {} /\ DOMAIN m = {} /\ M.ran = {} /\ M.misread = {}
      /\ \A r \in Rows : M.job[r] = "none" /\ db[r].status = "none" /\ ~db[r].item
      /\ \A r \in Rows : s.row[r] = "unknown" /\ r \notin s.held /\ TaskOf(t, r).pc = "idle"
      /\ \A l \in Lanes : DOMAIN td[l] = {}
  <2>1. PICK e : e = <<>>
    OBVIOUS
  <2>2. DOMAIN e = {}
    BY <2>1
  <2>3. c = e /\ m = e
    BY <1>2, <2>1 DEF HandoffInit
  <2>4. \A l \in Lanes : td[l] = e
    <3>1. \A l \in Lanes : lane[l].todo = <<>>
      BY DEF HandoffInit, Idle
    <3> QED BY <1>2, <2>1, <3>1 DEF Todo
  <2>5. M.ran = {} /\ M.misread = {} /\ \A r \in Rows : M.job[r] = "none" /\ db[r].status = "none" /\ ~db[r].item
    BY <1>2 DEF HandoffInit
  <2>6. \A r \in Rows : s.row[r] = "unknown" /\ r \notin s.held
    BY <1>2 DEF HandoffInit, Blank
  <2>7. \A r \in Rows : TaskOf(t, r).pc = "idle"
    BY <1>2 DEF HandoffInit, NoTask, Sends, TaskOf
  <2> QED BY <2>2, <2>3, <2>4, <2>5, <2>6, <2>7
<1>4. ASSUME NEW r \in Rows PROVE CoveredNow(r)
  <2>1. /\ ~Wired(c, r) /\ ~Cancels(c, r) /\ ~Refuses(m, r) /\ \A kind : ~Says(m, kind, r)
        /\ \A op : ~Ran(M, op, r)
        /\ \A what : ~Acting(td, what, r)
    BY <1>3 DEF Wired, Cancels, Refuses, Says, Ran, Acting, Within
  <2>2. ~Issued(c, M, r)
    BY <2>1 DEF Issued
  <2>3. AskedOK(c, M, s, t, td, r)
    <3>1. \E p : AtPeriod(c, M, t, r, p)
      BY <1>3 DEF AtPeriod
    <3> HIDE DEF Acting, Issued, AtPeriod, TaskOf
    <3> QED BY <1>3, <2>1, <2>2, <3>1 DEF AskedOK
  <2>4. ThroughOK(db, M, m, s, t, td, late, r)
    <3> HIDE DEF Acting, Through, Says, Refuses, Ran, TaskOf
    <3> QED BY <1>3, <2>1 DEF ThroughOK
  <2>5. CancelOK(db, M, c, t, td, r)
    <3>1. Behind(c, r)
      BY <1>3 DEF Behind
    <3> HIDE DEF Acting, Cancels, Behind, Ran, TaskOf
    <3> QED BY <2>1, <3>1 DEF CancelOK
  <2>6. ~Ended(db, r)
    BY <1>3 DEF Ended
  <2> HIDE DEF AskedOK, ThroughOK, CancelOK, Todo
  <2>7. StrayOK(db, M, c, m, s, t, td, events, late, r)
    BY <2>3, <2>4, <2>5, <2>6 DEF StrayOK
  <2> HIDE DEF StrayOK
  <2> QED BY <1>2, <2>7 DEF CoveredNow
<1>5. Blocked(Todo)
  BY <1>2, <1>3 DEF Blocked
<1>6. NothingYet
  BY DEF HandoffInit, NothingYet
<1> HIDE DEF CoveredNow, Blocked, ThereInv
<1> QED BY <1>1, <1>4, <1>5, <1>6 DEF StrayInv

\* A step that leaves the lists alone leaves a dispatch behind a refusal.
LEMMA ElseBlocked ==
  ASSUME TypeInv, Blocked(Todo),
         \/ UNCHANGED lane
         \/ \E l \in Lanes : VerbLands(l)
  PROVE  Blocked(Todo')
<1>1. \A k \in Lanes : lane'[k].todo = lane[k].todo
  <2>1. lane \in [Lanes -> LaneRecords]
    BY DEF TypeInv, LanesOK
  <2> QED BY <2>1 DEF VerbLands, LaneRecords
<1>2. PICK td, td2 : td = Todo /\ td2 = Todo'
  OBVIOUS
<1>3. \A k \in Lanes : td2[k] = td[k]
  BY <1>1, <1>2 DEF Todo
<1>4. Blocked(td2)
  BY <1>2, <1>3 DEF Blocked
<1> HIDE DEF Blocked, Todo
<1> QED BY <1>2, <1>4
LEMMA StrayStep ==
  ASSUME TypeInv, Placed, Kept, gateway # "down" => InStep(World, state, task, Todo, events, Landed),
         gateway' # "down" => InStep(World', state', task', Todo', events', Landed'),
         ~setting.busyTakeover, setting' = setting, spent["restart"] = 0, spent'["restart"] = 0, spent'["crash"] = 0,
         Blocked(Todo), NothingYet, NEW r \in Rows, CoveredNow(r), [HandoffNext]_handoffVars
  PROVE  CoveredNext(r)
<1>1. ~Spend("restart") /\ ~Spend("crash")
  BY SpendOf DEF FaultKinds
<1>2. DOMAIN task = TaskNames /\ DOMAIN Fitting = Happenings
  BY DEF TypeInv, Fitting, Happenings
<1>3. \A x \in TaskNames : task[x].pc # "idle" => gateway # "down"
  <2>1. gateway = "down" => task = [x \in TaskNames |-> NoTask]
    BY DEF TypeInv, DownOK
  <2> QED BY <2>1 DEF NoTask
<1> HIDE DEF CoveredNow, CoveredNext, Blocked, Todo, World, Landed, Placed, Kept, InStep
<1>4. CASE GatewayStep
  <2>1. ASSUME NEW l \in Lanes, VerbLands(l) PROVE CoveredNext(r)
    <3>1. gateway # "down"
      <4>1. lane[l].todo # <<>>
        BY <2>1 DEF VerbLands
      <4> QED BY <4>1, AtWork
    <3> QED BY <2>1, <3>1, LandsCovered
  <2>2. ASSUME NEW l \in Lanes, VerbReturns(l) PROVE CoveredNext(r)
    <3>1. gateway # "down" /\ gateway' # "down"
      <4>1. lane[l].todo # <<>>
        BY <2>2 DEF VerbReturns
      <4>2. gateway # "down"
        BY <4>1, AtWork
      <4> QED BY <2>2, <4>2 DEF VerbReturns
    <3> QED BY <2>2, <3>1, ReturnsCovered
  <2>3. ASSUME NEW q \in Rows, NEW verb \in Happenings, OnEscalation(q, verb) PROVE CoveredNext(r)
    <3>1. gateway # "down" /\ gateway' # "down"
      BY <2>3 DEF OnEscalation
    <3> QED BY <2>3, <3>1, HearsCovered
  <2>4. CASE TakeReply \/ TakeJob \/ TakeSnapshot
    <3>1. gateway # "down" /\ gateway' # "down"
      BY <2>4 DEF TakeReply, TakeJob, TakeSnapshot, Reading, HandlerUnchanged
    <3> QED BY <2>4, <3>1, RepliesCovered, JobsCovered, SnapshotsCovered
  <2>5. ASSUME NEW x \in TaskNames, TaskClaims(x) \/ TaskFails(x) PROVE CoveredNext(r)
    <3>1. gateway # "down"
      BY <1>3, <2>5 DEF TaskClaims, TaskFails
    <3> QED BY <2>5, <3>1, TasksCovered
  <2>6. ASSUME NEW x \in TaskNames, TaskEnds(x) PROVE CoveredNext(r)
    <3>1. gateway # "down"
      BY <1>3, <2>6 DEF TaskEnds
    <3> QED BY <2>6, <3>1, EndsCovered
  <2> QED BY <1>2, <1>4, <2>1, <2>2, <2>3, <2>4, <2>5, <2>6 DEF GatewayStep
<1>5. CASE TakeOver \/ ReadBack
  <2>1. gateway' # "down" /\ (TakeOver => \A q \in Rows : db[q].status = "none")
    BY <1>5 DEF TakeOver, ReadBack, NothingYet
  <2> QED BY <1>5, <2>1, TakesOverCovered, ReadsBackCovered
<1>6. CASE HostStep
  <2>1. PICK q \in Rows : Park(q) \/ Withdraw(q)
    BY <1>6 DEF HostStep
  <2>2. gateway # "down"
    BY <2>1 DEF Park, Withdraw, HostActs, leaderVars
  <2> QED BY <2>1, <2>2, HostsCovered
<1>7. CASE RunCommand
  BY <1>7, CommandsCovered
<1>8. ASSUME NEW x \in TaskNames, ReplyLate(x) \/ StatusLate(x) PROVE CoveredNext(r)
  <2>1. gateway # "down"
    BY <1>3, <1>8 DEF ReplyLate, StatusLate
  <2> QED BY <1>8, <2>1, LatesCovered
<1>9. ASSUME UnitMoves \/ Beat \/ EndPeriod \/ UNCHANGED handoffVars PROVE CoveredNext(r)
  <2>1. (\E q \in Rows : Arrive(q) \/ Release(q)) \/ Beat \/ EndPeriod \/ UNCHANGED handoffVars
    BY <1>9 DEF UnitMoves
  <2> QED BY <2>1, MovesCovered
<1>10. ~Crash /\ ~Restart
  BY <1>1 DEF Crash, Restart
<1> QED BY <1>2, <1>4, <1>5, <1>6, <1>7, <1>8, <1>9, <1>10 DEF HandoffNext, Takeover, FaultStep

\* Whatever step is taken, only a refusal keeps a dispatch waiting.
LEMMA BlockedStep ==
  ASSUME TypeInv, Blocked(Todo), ~Crash, [HandoffNext]_handoffVars
  PROVE  Blocked(Todo')
<1>1. CASE UNCHANGED lane \/ \E l \in Lanes : VerbLands(l)
  BY <1>1, ElseBlocked
<1>2. ASSUME \/ \E l \in Lanes : VerbReturns(l)
             \/ \E r \in Rows, verb \in Happenings : OnEscalation(r, verb)
             \/ TakeReply \/ TakeJob \/ TakeSnapshot \/ TakeOver \/ ReadBack
      PROVE  Blocked(Todo')
  BY <1>2, HandlersBlocked
<1>3. UNCHANGED handoffVars \/ HostStep \/ RunCommand \/ UnitMoves \/ FaultStep => UNCHANGED lane
  BY DEF handoffVars, HostStep, Park, Withdraw, RunCommand, UnitMoves, Arrive, Release, FaultStep, ReplyLate, StatusLate,
         Beat, Restart, EndPeriod, MachineOnly, leaderVars
<1>4. \A x \in DOMAIN task : TaskClaims(x) \/ TaskFails(x) \/ TaskEnds(x) => UNCHANGED lane
  BY DEF TaskClaims, TaskFails, TaskEnds
<1>5. DOMAIN Fitting = Happenings
  BY DEF Fitting, Happenings
<1> HIDE DEF Blocked, Todo
<1> QED BY <1>1, <1>2, <1>3, <1>4, <1>5 DEF HandoffNext, GatewayStep, Takeover
LEMMA StrayKept == StrayInv /\ [HandoffNext]_handoffVars => StrayInv'
<1> SUFFICES ASSUME StrayInv, [HandoffNext]_handoffVars PROVE StrayInv'
  OBVIOUS
<1>1. ThereInv /\ ThereInv'
  BY ThereKept DEF StrayInv
<1>2. HandoffInv /\ HandoffInv' /\ TypeInv
  BY <1>1 DEF ThereInv, HandoffInv
<1>3. ASSUME Straight' PROVE (\A r \in Rows : CoveredNow(r)') /\ Blocked(Todo)' /\ NothingYet'
  <2>1. setting' = setting /\ (UNCHANGED spent \/ Late \/ \E g \in FaultKinds : Spend(g))
    BY StepSpends DEF handoffVars
  <2>2. ~setting'.busyTakeover /\ spent'["restart"] = 0 /\ spent'["crash"] = 0
    BY <1>3 DEF Straight, Never
  <2>3. ~setting.busyTakeover /\ spent["restart"] = 0 /\ spent["crash"] = 0
    BY <1>2, <2>1, <2>2, SpentGrows DEF FaultKinds
  <2>4. Straight
    BY <2>3 DEF Straight, Never
  <2>5. (\A r \in Rows : CoveredNow(r)) /\ Blocked(Todo) /\ NothingYet /\ Placed
    <3> HIDE DEF CoveredNow, Blocked, NothingYet, Placed
    <3> QED BY <1>1, <2>3, <2>4 DEF StrayInv, ThereInv
  <2>6. Kept /\ (gateway # "down" => InStep(World, state, task, Todo, events, Landed))
    BY <1>2, <2>3 DEF HandoffInv, Orderly
  <2>7. gateway' # "down" => InStep(World', state', task', Todo', events', Landed')
    <3>1. HandoffInv' /\ Orderly'
      BY <1>2, <2>2 DEF Orderly
    <3>2. (gateway # "down" => InStep(World, state, task, Todo, events, Landed))'
      BY <3>1 DEF HandoffInv
    <3> HIDE DEF InStep, World, Todo, Landed
    <3> QED BY <3>2
  <2>8. NothingYet'
    <3>1. CASE UNCHANGED handoffVars
      BY <2>5, <3>1 DEF NothingYet, handoffVars
    <3>2. ASSUME HandoffNext PROVE NothingYet'
      <4>1. ~Crash
        BY <1>2, <2>2, SpendOf DEF Crash, FaultKinds
      <4> QED BY <1>2, <2>3, <2>5, <3>2, <4>1, NothingStill
    <3> QED BY <3>1, <3>2
  <2>9. ASSUME NEW r \in Rows PROVE CoveredNext(r)
    <3> HIDE DEF InStep, World, Todo, Landed, Kept, Placed, Blocked, CoveredNow, CoveredNext
    <3> QED BY <1>2, <2>1, <2>2, <2>3, <2>5, <2>6, <2>7, <2>9, StrayStep
  <2>10. (\A r \in Rows : CoveredNow(r)')
    <3>1. ASSUME NEW r \in Rows PROVE CoveredNow(r)'
      <4>1. CoveredNext(r)
        BY <2>9
      <4> QED BY <2>1, <4>1 DEF CoveredNow, CoveredNext, StrayOK, AskedOK, ThroughOK, Excused, CancelOK, Covered
    <3> QED BY <3>1
  <2>11. Blocked(Todo)'
    <3>1. ~Crash
      BY <1>2, <2>2, SpendOf DEF Crash, FaultKinds
    <3>2. Blocked(Todo')
      <4> HIDE DEF Blocked, Todo
      <4> QED BY <1>2, <2>5, <3>1, BlockedStep
    <3> QED BY <2>1, <3>2 DEF Blocked
  <2> QED BY <2>8, <2>10, <2>11
<1> HIDE DEF CoveredNow, Blocked, NothingYet, ThereInv, Straight
<1> QED BY <1>1, <1>3 DEF StrayInv

\* For any number of rows and any late answers, heartbeats and periods, as long as the
\* gateway and the machine stay up and hosts wait for a gateway: when nothing is under
\* way, no row that ended is still queued at the machine, but for a withdrawn or misread
\* one where answers are late, or a withdrawn one where the gateway refuses rows
\* (plan-shared.ts, dispatcher.ts: the cancel follows the dispatch on the same wire).
THEOREM NoJobStrays == HandoffSpec => [](~setting.busyTakeover => NoStrayJob)
<1>1. StrayInv => (~setting.busyTakeover => NoStrayJob)
  <2> SUFFICES ASSUME StrayInv, ~setting.busyTakeover, Quiet, Never({"crash", "restart"}), NEW r \in Rows, Stray(r)
               PROVE  \/ ~Never({"timeout"}) /\ (db[r].status = "withdrawn" \/ r \in machine.misread)
                      \/ setting.unfit # {} /\ db[r].status = "withdrawn"
    BY DEF NoStrayJob
  <2>1. spent["restart"] = 0 /\ Straight
    BY DEF Never, Straight
  <2>2. TypeInv /\ CoveredNow(r) /\ InPlace(r)
    <3> HIDE DEF CoveredNow, InPlace, Blocked, NothingYet
    <3> QED BY <2>1 DEF StrayInv, ThereInv, HandoffInv, Placed
  <2>3. PICK c, m, M, s, t, td, ev, late :
          /\ c = cmds /\ m = mail /\ M = machine /\ s = state /\ t = task /\ td = Todo /\ ev = events
          /\ late = (spent["timeout"] # 0)
    OBVIOUS
  <2>4. /\ DOMAIN c = {} /\ ev = {} /\ \A l \in Lanes : DOMAIN td[l] = {}
        /\ TaskOf(t, r).pc = "idle"
    <3>1. PICK e : e = <<>>
      OBVIOUS
    <3>2. DOMAIN e = {} /\ c = e
      BY <2>3, <3>1 DEF Quiet
    <3>3. \A l \in Lanes : td[l] = e
      BY <2>3, <3>1 DEF Quiet, Todo, Idle
    <3>4. <<r, "first">> \in DOMAIN task
      BY <2>2 DEF TypeInv, TaskNames, Sends
    <3> QED BY <2>3, <3>2, <3>3, <3>4 DEF Quiet, TaskOf
  <2>5. ~Wired(c, r) /\ ~Cancels(c, r) /\ \A what : ~Acting(td, what, r)
    BY <2>4 DEF Wired, Cancels, Acting, Within
  <2>6. StrayOK(db, M, c, m, s, t, td, ev, late, r)
    BY <2>2, <2>3 DEF CoveredNow
  <2>7. Ran(M, "dispatch", r) /\ ~Through(M, r)
    <3>1. M.job[r] = "queued"
      BY <2>3 DEF Stray
    <3>2. ThroughOK(db, M, m, s, t, td, late, r)
      BY <2>6 DEF StrayOK
    <3>3. Ran(M, "dispatch", r)
      <4> HIDE DEF Ran, Through, Acting, Says, Refuses, TaskOf
      <4> QED BY <3>1, <3>2 DEF ThroughOK
    <3> QED BY <3>1, <3>3 DEF Through
  <2>8. Ended(db, r)
    <3>1. M.job[r] = "queued" /\ db[r].status # "pending"
      BY <2>3 DEF Stray
    <3>2. WireOK(db, M, c, m, r)
      BY <2>2, <2>3 DEF InPlace
    <3>3. db[r].status # "none"
      <4> HIDE DEF Taken, Wired, Cancels, Knows, Stays, Says
      <4> QED BY <3>1, <3>2 DEF WireOK
    <3> QED BY <3>1, <3>3 DEF Ended
  <2>9. ~Covered(db, M, c, s, t, td, ev, r)
    <3> HIDE DEF Ran, Acting, Cancels, TaskOf, Wired
    <3> QED BY <2>4, <2>5, <2>7 DEF Covered, Issued
  <2>10. Excused(db, M, late, r)
    <3> HIDE DEF Covered, Excused, Through, CancelOK, AskedOK, ThroughOK, Ended
    <3> QED BY <2>6, <2>7, <2>8, <2>9 DEF StrayOK
  <2> QED BY <2>3, <2>10 DEF Excused, Never
<1>2. HandoffInit => StrayInv
  BY StrayBegins
<1>3. StrayInv /\ [HandoffNext]_handoffVars => StrayInv'
  BY StrayKept
<1> QED BY <1>1, <1>2, <1>3, PTL DEF HandoffSpec

===============================================================================
