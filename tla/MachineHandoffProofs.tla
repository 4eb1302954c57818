------------------------ MODULE MachineHandoffProofs ------------------------
(***************************************************************************)
(* For any number of rows, depths, attempts and faults: the types, that no *)
(* row is forgotten, and that the machine's queueDepth is kept.            *)
(***************************************************************************)
EXTENDS MachineHandoff, FiniteSetTheorems, SequenceTheorems, WellFoundedInduction, TLAPS

-----------------------------------------------------------------------------
(* Types                                                                    *)

Acts == [do : Verbs \cup {"cancel", "dispatch"}, row : Rows]
Cmds == [op : {"dispatch", "cancel", "snapshot"}, row : Rows, of : Nat]
Letters == [kind : {"reply"}, row : Rows, of : Nat, ok : BOOLEAN]
           \cup [kind : {"arrived", "misread", "released", "withdrawn"}, row : Rows]
           \cup [kind : {"snapshot"}, boot : Nat, jobs : SUBSET Rows]
Happenings == {"created", "ended", "resolved"}
DbRecords == [status : Statuses, claimed : BOOLEAN, item : BOOLEAN]
Pictures == [row : [Rows -> Dispatches], held : SUBSET Rows, sent : SUBSET Rows, over : SUBSET Rows,
             boot : Nat, jobs : SUBSET Rows]
LaneRecords == [pc : {"idle", "acting", "pacing"}, todo : Seq(Acts), landed : BOOLEAN]
Tasks == [pc : {"idle", "reply", "status", "claim", "fail", "failed"}, attempt : 0..setting.attempts, of : Nat,
          ended : BOOLEAN, refused : BOOLEAN, done : BOOLEAN]
TaskNames == Rows \X Sends
Jobs == [Rows -> {"none", "queued", "present"}]
Machines == [job : Jobs, ran : SUBSET [cmd : Cmds, ok : BOOLEAN], boot : Nat,
             said : [boot : Nat, jobs : SUBSET Rows], misread : SUBSET Rows]

\* A lane at work has a verb at hand, and a message lane has its message.
LanesOK ==
  /\ lane \in [Lanes -> LaneRecords]
  /\ \A l \in Lanes : lane[l].todo = <<>> => lane[l] = Idle
  /\ \A l \in Lanes : lane[l].todo # <<>> => lane[l].todo[1].do \in Verbs
  /\ lane["messages"].todo # <<>> => mail # <<>>

\* A gateway that is down has nothing of its own.
DownOK == gateway = "down" =>
  state = Blank /\ events = {} /\ lane = [l \in Lanes |-> Idle] /\ task = [x \in TaskNames |-> NoTask]

TypeInv ==
  /\ setting \in Settings
  /\ db \in [Rows -> DbRecords]
  /\ events \subseteq Rows \X Happenings
  /\ gateway \in {"down", "reading", "sending", "up"}
  /\ state \in Pictures
  /\ LanesOK
  /\ task \in [TaskNames -> Tasks]
  /\ cmds \in Seq(Cmds)
  /\ machine \in Machines
  /\ mail \in Seq(Letters)
  /\ period \in Nat
  /\ spent \in [FaultKinds -> Nat]
  /\ DownOK

-----------------------------------------------------------------------------
(* Sorted sets, lists and their first verb                                  *)

\* The rank of each member is its place: a set of naturals has a sorted list.
LEMMA SortedList ==
  ASSUME NEW R, R \subseteq Nat, IsFiniteSet(R)
  PROVE  /\ Cardinality(R) \in Nat
         /\ Sorted(R) \in [1..Cardinality(R) -> R]
         /\ \A i, j \in 1..Cardinality(R) : i < j => Sorted(R)[i] < Sorted(R)[j]
<1>1. PICK n : n = Cardinality(R)
  OBVIOUS
<1>2. n \in Nat
  BY <1>1, FS_CardinalityType
<1>3. PICK below : below = [r \in R |-> {q \in R : q <= r}]
  OBVIOUS
<1>4. PICK rank : rank = [r \in R |-> Cardinality(below[r])]
  OBVIOUS
<1>5. \A r \in R : IsFiniteSet(below[r]) /\ below[r] \subseteq R /\ rank[r] \in 1..n
  <2> SUFFICES ASSUME NEW r \in R PROVE IsFiniteSet(below[r]) /\ below[r] \subseteq R /\ rank[r] \in 1..n
    OBVIOUS
  <2>1. below[r] \in SUBSET R /\ r \in below[r]
    BY <1>3
  <2>2. IsFiniteSet(below[r]) /\ Cardinality(below[r]) <= n
    BY <1>1, <2>1, FS_Subset
  <2>3. Cardinality(below[r]) \in Nat /\ Cardinality(below[r]) # 0
    BY <2>1, <2>2, FS_CardinalityType, FS_EmptySet
  <2> QED BY <1>2, <1>4, <2>1, <2>2, <2>3
<1>6. \A q, r \in R : q < r => rank[q] < rank[r]
  <2> SUFFICES ASSUME NEW q \in R, NEW r \in R, q < r PROVE rank[q] < rank[r]
    OBVIOUS
  <2>1. q \in Nat /\ r \in Nat
    OBVIOUS
  <2>a. below[q] = {p \in R : p <= q} /\ below[r] = {p \in R : p <= r}
    BY <1>3
  <2>b. \A p \in R : p \in Nat /\ (p <= q => p <= r)
    BY <2>1
  <2>2. below[q] \in SUBSET below[r] /\ r \in below[r] /\ r \notin below[q]
    <3>1. r \in below[r] /\ r \notin below[q]
      BY <2>1, <2>a
    <3> QED BY <2>a, <2>b, <3>1
  <2>3. Cardinality(below[q]) <= Cardinality(below[r]) /\ Cardinality(below[q]) # Cardinality(below[r])
    BY <1>5, <2>2, FS_Subset
  <2> QED BY <1>4, <1>5, <2>3
<1>7. rank \in Injection(R, 1..n)
  <2>1. rank \in [R -> 1..n]
    BY <1>4, <1>5
  <2>2. \A q, r \in R : rank[q] = rank[r] => q = r
    <3> SUFFICES ASSUME NEW q \in R, NEW r \in R, rank[q] = rank[r], q # r PROVE FALSE
      OBVIOUS
    <3>1. q \in Nat /\ r \in Nat /\ rank[q] \in Nat
      BY <1>5
    <3>2. q < r \/ r < q
      BY <3>1
    <3> QED BY <1>6, <3>1, <3>2
  <2> QED BY <2>1, <2>2 DEF Injection, IsInjective
<1>8. rank \in Surjection(R, 1..n)
  <2>1. IsFiniteSet(1..n) /\ Cardinality(1..n) = n
    BY <1>2, FS_Interval
  <2> QED BY <1>1, <1>7, <2>1, FS_Injection
<1>9. \A i \in 1..n : \E r \in R : rank[r] = i
  BY <1>8 DEF Surjection
<1>10. PICK s : s = [i \in 1..n |-> CHOOSE r \in R : rank[r] = i]
  OBVIOUS
<1>11. s \in [1..n -> R] /\ \A i \in 1..n : rank[s[i]] = i
  BY <1>9, <1>10
<1>12. \A i, j \in DOMAIN s : i < j => s[i] < s[j]
  <2> SUFFICES ASSUME NEW i \in 1..n, NEW j \in 1..n, i < j PROVE s[i] < s[j]
    BY <1>11
  <2>1. s[i] \in R /\ s[j] \in R /\ rank[s[i]] = i /\ rank[s[j]] = j
    BY <1>11
  <2>a. i \in Nat /\ j \in Nat /\ i # j /\ ~ j < i
    BY <1>2
  <2>2. s[i] # s[j] /\ ~ s[j] < s[i]
    BY <1>6, <2>1, <2>a
  <2>3. s[i] \in Nat /\ s[j] \in Nat
    BY <2>1
  <2> QED BY <2>2, <2>3
<1>13. \E t \in [1..Cardinality(R) -> R] : \A i, j \in DOMAIN t : i < j => t[i] < t[j]
  BY <1>1, <1>11, <1>12
<1>14. Sorted(R) \in [1..Cardinality(R) -> R] /\ \A i, j \in DOMAIN Sorted(R) : i < j => Sorted(R)[i] < Sorted(R)[j]
  BY <1>13 DEF Sorted
<1> QED BY <1>1, <1>2, <1>14
\* The least member of a non-empty set of naturals.
LEMMA LeastOf ==
  ASSUME NEW S, S \subseteq Nat, S # {}
  PROVE  Min(S) \in S /\ \A y \in S : Min(S) <= y
<1>a. PICK R : R = OpToRel(<, Nat)
  OBVIOUS
<1>b. IsWellFoundedOn(R, Nat)
  BY <1>a, NatLessThanWellFounded
<1>c. \A x, y \in Nat : <<x, y>> \in R <=> x < y
  BY <1>a DEF OpToRel
<1>1. PICK x \in S : \A y \in S : ~ (<<y, x>> \in R)
  BY <1>b, WFMin
<1>2. \A y \in S : x <= y
  <2> SUFFICES ASSUME NEW y \in S PROVE x <= y
    OBVIOUS
  <2>1. x \in Nat /\ y \in Nat /\ ~ y < x
    BY <1>c, <1>1
  <2> QED BY <2>1
<1>3. \E m \in S : \A y \in S : m <= y
  BY <1>2
<1> QED BY <1>3 DEF Min

\* A list is cut before its first verb.
LEMMA Cut ==
  ASSUME NEW list \in Seq(Acts)
  PROVE  /\ Len(list) \in Nat /\ DOMAIN list = 1..Len(list)
         /\ Upto(list) \in 0..Len(list)
         /\ \A i \in 1..Upto(list) : list[i].do \notin Verbs
         /\ Upto(list) # Len(list) => list[Upto(list) + 1].do \in Verbs
<1>1. Len(list) \in Nat /\ DOMAIN list = 1..Len(list)
  BY LenProperties
<1>2. PICK awaited : awaited = {i \in 1..Len(list) : list[i].do \in Verbs}
  OBVIOUS
<1>3. CASE awaited = {}
  <2>1. Upto(list) = Len(list)
    BY <1>2, <1>3 DEF Upto
  <2> QED BY <1>1, <1>2, <1>3, <2>1
<1>4. CASE awaited # {}
  <2>1. PICK m : m = Min(awaited)
    OBVIOUS
  <2>a. awaited \subseteq Nat
    BY <1>2
  <2>2. m \in awaited /\ \A y \in awaited : m <= y
    BY <1>4, <2>1, <2>a, LeastOf
  <2>3. Upto(list) = m - 1
    BY <1>2, <1>4, <2>1 DEF Upto
  <2>4. m \in 1..Len(list) /\ list[m].do \in Verbs
    BY <1>2, <2>2
  <2>5. \A i \in 1..(m - 1) : i \notin awaited /\ i \in 1..Len(list)
    BY <1>1, <2>2, <2>4
  <2>6. m - 1 \in 0..Len(list) /\ m - 1 + 1 = m
    BY <1>1, <2>4
  <2> QED BY <1>1, <1>2, <2>3, <2>4, <2>5, <2>6
<1> QED BY <1>3, <1>4

LEMMA RestOf ==
  ASSUME NEW list \in Seq(Acts)
  PROVE  /\ Rest(list) \in Seq(Acts)
         /\ Len(Rest(list)) = Len(list) - Upto(list) /\ Len(Rest(list)) \in Nat
         /\ DOMAIN Rest(list) = 1..(Len(list) - Upto(list))
         /\ \A i \in DOMAIN Rest(list) : Upto(list) + i \in DOMAIN list /\ Rest(list)[i] = list[Upto(list) + i]
         /\ Rest(list) # <<>> => Rest(list)[1].do \in Verbs
         /\ Rest(list) = <<>> <=> Upto(list) = Len(list)
<1>1. PICK n, u : n = Len(list) /\ u = Upto(list)
  OBVIOUS
<1>2. n \in Nat /\ u \in Nat /\ u <= n /\ DOMAIN list = 1..n
  BY <1>1, Cut
<1>3. \A i \in (u + 1)..n : list[i] \in Acts
  BY <1>1, <1>2, ElementOfSeq
<1>4. PICK rest : rest = SubSeq(list, u + 1, n)
  OBVIOUS
<1>5. /\ rest \in Seq(Acts) /\ Len(rest) = IF u + 1 <= n THEN n - (u + 1) + 1 ELSE 0
      /\ \A i \in 1..(n - (u + 1) + 1) : rest[i] = list[u + 1 + i - 1]
  BY <1>2, <1>3, <1>4, SubSeqProperties
<1>6. Len(rest) = n - u /\ DOMAIN rest = 1..(n - u)
  <2>1. DOMAIN rest = 1..Len(rest)
    BY <1>5, LenProperties
  <2>2. PICK k : k = Len(rest)
    OBVIOUS
  <2>3. k = n - u
    BY <1>2, <1>5, <2>2
  <2> QED BY <2>1, <2>2, <2>3
<1>7. \A i \in 1..(n - u) : i \in 1..(n - (u + 1) + 1) /\ u + 1 + i - 1 = u + i /\ u + i \in 1..n
  BY <1>2
<1>8. rest = <<>> <=> u = n
  BY <1>2, <1>5, <1>6, EmptySeq
<1>9. rest # <<>> => rest[1].do \in Verbs
  <2>1. SUFFICES ASSUME u # n PROVE rest[1].do \in Verbs
    BY <1>8
  <2>2. 1 \in 1..(n - u) /\ u + 1 \in 1..n
    BY <1>2, <2>1
  <2>3. rest[1] = list[u + 1]
    BY <1>5, <1>7, <2>2
  <2> QED BY <1>1, <2>1, <2>3, Cut
<1>10. Rest(list) = rest
  BY <1>1, <1>4 DEF Rest
<1>11. \A i \in 1..(n - u) : rest[i] = list[u + i]
  BY <1>5, <1>7
<1> QED BY <1>1, <1>2, <1>5, <1>6, <1>7, <1>8, <1>9, <1>10, <1>11

\* What is published of a list: its dispatches, and its cancels.
LEMMA PublishedOf ==
  ASSUME TypeInv, NEW list \in Seq(Acts)
  PROVE  /\ Published(list) \in Seq(Cmds) /\ Len(Published(list)) = Upto(list)
         /\ \A i \in 1..Upto(list) :
              /\ Published(list)[i].row = list[i].row
              /\ Published(list)[i].op = "dispatch" <=> list[i].do = "dispatch"
<1>1. Upto(list) \in 0..Len(list) /\ Len(list) \in Nat /\ \A i \in 1..Upto(list) : list[i].do \notin Verbs
  BY Cut
<1>2. \A i \in 1..Upto(list) : list[i] \in Acts
  BY <1>1, ElementOfSeq
<1>3. \A i \in 1..Upto(list) : list[i].do \in {"cancel", "dispatch"} /\ list[i].row \in Rows
  BY <1>1, <1>2 DEF Acts
<1>4. PICK u : u = Upto(list)
  OBVIOUS
<1>5. u \in Nat /\ period \in Nat
  BY <1>1, <1>4 DEF TypeInv
<1>6. PICK pub : pub = [i \in 1..u |-> IF list[i].do = "cancel" THEN Cancel(list[i].row) ELSE Command("dispatch", list[i].row, period)]
  OBVIOUS
<1>7. \A i \in 1..u : pub[i] \in Cmds /\ pub[i].row = list[i].row /\ (pub[i].op = "dispatch" <=> list[i].do = "dispatch")
  BY <1>3, <1>4, <1>5, <1>6 DEF Cancel, Command, Cmds
<1>8. pub \in Seq(Cmds) /\ Len(pub) = u
  BY <1>5, <1>6, <1>7, IsASeq, LenProperties
<1>9. Published(list) = pub
  BY <1>4, <1>6 DEF Published
<1> QED BY <1>4, <1>7, <1>8, <1>9

\* What begins with a list: a task for each of its dispatches before a verb.
Starts(list) == {list[i].row : i \in {j \in 1..Upto(list) : list[j].do = "dispatch"}}
Asking(again) == [NoTask EXCEPT !.pc = "reply", !.attempt = 1, !.of = period, !.ended = again]

LEMMA BegunOf ==
  ASSUME TypeInv, NEW list \in Seq(Acts), NEW t \in [TaskNames -> Tasks]
  PROVE  /\ Asking(FALSE) \in Tasks /\ Asking(TRUE) \in Tasks
         /\ Starts(list) \subseteq Rows
         /\ Begun(t, list) \in [TaskNames -> Tasks]
         /\ \A x \in TaskNames : Begun(t, list)[x] =
              IF x[2] = "first" /\ x[1] \in Starts(list) THEN Asking(FALSE) ELSE t[x]
<1>1. Upto(list) \in 0..Len(list) /\ Len(list) \in Nat
  BY Cut
<1>2. \A i \in 1..Upto(list) : list[i] \in Acts
  BY <1>1, ElementOfSeq
<1>3. Starts(list) \subseteq Rows
  BY <1>2 DEF Starts, Acts
<1>4. setting.attempts \in Nat \ {0} /\ period \in Nat
  BY HandoffAssumption DEF TypeInv, Setting
<1>5. Asking(FALSE) \in Tasks /\ Asking(TRUE) \in Tasks
  <2>1. 0 \in 0..setting.attempts /\ 1 \in 0..setting.attempts
    BY <1>4
  <2> QED BY <1>4, <2>1 DEF Asking, Tasks, NoTask
<1>6. PICK X : X = {<<list[i].row, "first">> : i \in {j \in 1..Upto(list) : list[j].do = "dispatch"}}
  OBVIOUS
<1>7. Begun(t, list) = [x \in TaskNames |-> IF x \in X THEN Asking(FALSE) ELSE t[x]]
  BY <1>6 DEF Begun, Asked, Asking
<1>8. \A x \in TaskNames : x \in X <=> x[2] = "first" /\ x[1] \in Starts(list)
  <2> SUFFICES ASSUME NEW r \in Rows, NEW k \in Sends
               PROVE  <<r, k>> \in X <=> k = "first" /\ r \in Starts(list)
    BY DEF TaskNames
  <2> QED BY <1>6 DEF Starts
<1> HIDE DEF Asking, Tasks, TaskNames
<1> QED BY <1>3, <1>5, <1>7, <1>8

\* What is sent of waiting rows: one action for each, in their order.
LEMMA ActionsOf ==
  ASSUME NEW R, R \subseteq Rows
  PROVE  /\ Actions(R) \in Seq(Acts) /\ Cardinality(R) \in Nat /\ DOMAIN Actions(R) = 1..Cardinality(R)
         /\ \A i \in DOMAIN Actions(R) :
              /\ Actions(R)[i].row \in R
              /\ Actions(R)[i].do = IF Actions(R)[i].row \in setting.unfit THEN "refuse" ELSE "dispatch"
         /\ \A i, j \in DOMAIN Actions(R) : Actions(R)[i].row = Actions(R)[j].row => i = j
         /\ R = {} => Actions(R) = <<>>
<1>1. R \subseteq Nat /\ IsFiniteSet(R)
  <2>1. Rows \subseteq Nat /\ IsFiniteSet(Rows)
    BY HandoffAssumption
  <2> QED BY <2>1, FS_Subset
<1>2. PICK n, o : n = Cardinality(R) /\ o = Sorted(R)
  OBVIOUS
<1>3. n \in Nat /\ o \in [1..n -> R] /\ \A i, j \in 1..n : i < j => o[i] < o[j]
  BY <1>1, <1>2, SortedList
<1>4. PICK acts : acts = [i \in 1..n |-> Do(IF o[i] \in setting.unfit THEN "refuse" ELSE "dispatch", o[i])]
  OBVIOUS
<1>5. Actions(R) = acts
  BY <1>2, <1>4 DEF Actions
<1>6. \A i \in 1..n : /\ acts[i] \in Acts /\ acts[i].row = o[i] /\ acts[i].row \in R
                      /\ acts[i].do = IF acts[i].row \in setting.unfit THEN "refuse" ELSE "dispatch"
  BY <1>3, <1>4 DEF Do, Acts, Verbs
<1>7. acts \in Seq(Acts) /\ DOMAIN acts = 1..n
  BY <1>3, <1>4, <1>6, IsASeq
<1>8. \A i, j \in 1..n : acts[i].row = acts[j].row => i = j
  <2> SUFFICES ASSUME NEW i \in 1..n, NEW j \in 1..n, acts[i].row = acts[j].row, i # j PROVE FALSE
    OBVIOUS
  <2>1. i < j \/ j < i
    BY <1>3
  <2>2. o[i] = o[j] /\ o[i] \in R
    BY <1>3, <1>6
  <2>3. PICK k : k = o[i]
    OBVIOUS
  <2>4. k \in Nat /\ k < k
    BY <1>1, <1>3, <2>1, <2>2, <2>3
  <2> QED BY <2>4
<1>9. R = {} => acts = <<>>
  <2> SUFFICES ASSUME R = {} PROVE acts = <<>>
    OBVIOUS
  <2>1. n = 0
    BY <1>2, FS_EmptySet
  <2> QED BY <1>4, <2>1
<1> QED BY <1>2, <1>3, <1>5, <1>6, <1>7, <1>8, <1>9

\* How the gateway's picture changes.
LEMMA AdmitOf ==
  ASSUME NEW s \in Pictures, NEW R, R \subseteq Rows
  PROVE  /\ Admit(s, R) \in Pictures
         /\ \A r \in Rows : Admit(s, R).row[r] =
              IF r \notin R THEN s.row[r] ELSE IF r \in setting.unfit THEN "refused" ELSE "pending"
         /\ Admit(s, R).held = s.held /\ Admit(s, R).sent = s.sent /\ Admit(s, R).boot = s.boot
<1>1. PICK row : row = [r \in Rows |-> IF r \notin R THEN s.row[r] ELSE IF r \in setting.unfit THEN "refused" ELSE "pending"]
  OBVIOUS
<1>2. row \in [Rows -> Dispatches]
  BY <1>1 DEF Pictures, Dispatches
<1>3. PICK a : a = [s EXCEPT !.row = row]
  OBVIOUS
<1>4. a \in Pictures /\ a.row = row /\ a.held = s.held /\ a.sent = s.sent /\ a.boot = s.boot
  BY <1>2, <1>3 DEF Pictures
<1>5. Admit(s, R) = a
  BY <1>1, <1>3 DEF Admit
<1> QED BY <1>1, <1>4, <1>5

LEMMA ShutOf ==
  ASSUME NEW s \in Pictures, NEW r \in Rows
  PROVE  /\ Shut(s, r) \in Pictures
         /\ \A q \in Rows : Shut(s, r).row[q] = IF q = r /\ IsOpen(s, r) THEN "closed" ELSE s.row[q]
         /\ Shut(s, r).held = s.held /\ Shut(s, r).sent = s.sent /\ Shut(s, r).boot = s.boot
<1>1. PICK a : a = [s EXCEPT !.row[r] = "closed"]
  OBVIOUS
<1>2. a \in Pictures
  BY <1>1 DEF Pictures, Dispatches
<1>3. /\ \A q \in Rows : a.row[q] = IF q = r THEN "closed" ELSE s.row[q]
      /\ a.held = s.held /\ a.sent = s.sent /\ a.boot = s.boot
  BY <1>1 DEF Pictures
<1>4. Shut(s, r) = IF IsOpen(s, r) THEN a ELSE s
  BY <1>1 DEF Shut
<1> QED BY <1>2, <1>3, <1>4

LEMMA LetGoOf ==
  ASSUME NEW s \in Pictures, NEW r \in Rows
  PROVE  /\ LetGo(s, r) \in Pictures
         /\ LetGo(s, r).row = s.row /\ LetGo(s, r).boot = s.boot
         /\ LetGo(s, r).held = s.held \ {r} /\ LetGo(s, r).sent \subseteq s.sent
<1>1. PICK a : a = [s EXCEPT !.held = @ \ {r}, !.sent = @ \ {r}, !.over = @ \cup {r}]
  OBVIOUS
<1>2. a \in Pictures
  BY <1>1 DEF Pictures
<1>3. a.row = s.row /\ a.boot = s.boot /\ a.held = s.held \ {r} /\ a.sent = s.sent \ {r}
  BY <1>1 DEF Pictures
<1>4. LetGo(s, r) = IF r \in s.held THEN a ELSE s
  BY <1>1 DEF LetGo
<1> QED BY <1>2, <1>3, <1>4

LEMMA HoldOf ==
  ASSUME NEW s \in Pictures, NEW r \in Rows
  PROVE  LET h == [s EXCEPT !.held = @ \cup {r}] IN
         /\ h \in Pictures /\ h.row = s.row /\ h.boot = s.boot /\ h.sent = s.sent /\ h.held = s.held \cup {r}
BY DEF Pictures

Keeps(s, listed, boot, jobs) == [KeepHeld(s, listed, boot) EXCEPT !.jobs = jobs]

LEMMA KeepOf ==
  ASSUME NEW s \in Pictures, NEW listed, NEW jobs \in SUBSET Rows, NEW boot \in Nat
  PROVE  /\ Keeps(s, listed, boot, jobs) \in Pictures /\ Keeps(s, listed, boot, jobs).row = s.row
         /\ Keeps(s, listed, boot, jobs).boot = boot /\ Keeps(s, listed, boot, jobs).sent \subseteq s.sent
<1>1. PICK gone : gone = s.held \ listed
  OBVIOUS
<1>2. PICK h : h = [s EXCEPT !.held = @ \ gone, !.sent = @ \ gone, !.over = {}, !.boot = boot]
  OBVIOUS
<1>3. h \in Pictures
  BY <1>2 DEF Pictures
<1>4. h.row = s.row /\ h.boot = boot /\ h.sent = s.sent \ gone
  BY <1>2 DEF Pictures
<1>5. PICK k : k = [h EXCEPT !.jobs = jobs]
  OBVIOUS
<1>6. k \in Pictures /\ k.row = h.row /\ k.boot = h.boot /\ k.sent = h.sent
  BY <1>3, <1>5 DEF Pictures
<1>7. Keeps(s, listed, boot, jobs) = k
  BY <1>1, <1>2, <1>5 DEF Keeps, KeepHeld
<1> QED BY <1>4, <1>6, <1>7

LEMMA HeldKept ==
  ASSUME NEW s \in Pictures, NEW listed, NEW jobs \in SUBSET Rows, NEW boot \in Nat
  PROVE  \A r \in Rows : r \in Keeps(s, listed, boot, jobs).held <=> r \in s.held /\ r \in listed
BY DEF Keeps, KeepHeld, Pictures

LEMMA IdleOf == Idle \in LaneRecords /\ Idle.todo = <<>> /\ ~Idle.landed
<1>1. <<>> \in Seq(Acts)
  OBVIOUS
<1> QED BY <1>1 DEF Idle, LaneRecords

LEMMA BlankOf ==
  Blank \in Pictures /\ NoTask \in [pc : {"idle"}, attempt : {0}, of : {0}, ended : {FALSE}, refused : {FALSE}, done : {FALSE}]
BY DEF Blank, NoTask, Pictures, Dispatches

\* How dispatches end.
Asks(X) == {x[1] : x \in {y \in X : ~task[y].ended}}

LEMMA ConcludedOf ==
  ASSUME TypeInv, NEW s \in Pictures, NEW X, X \subseteq TaskNames, NEW T
  PROVE  /\ Concluded(s, X, T) \in Pictures /\ Asks(X) \subseteq Rows
         /\ \A r \in Rows : Concluded(s, X, T).row[r] =
              IF r \notin Asks(X) \/ ~IsOpen(s, r) THEN s.row[r] ELSE IF r \in T THEN "accepted" ELSE "refused"
         /\ Concluded(s, X, T).held = s.held /\ Concluded(s, X, T).boot = s.boot
         /\ Concluded(s, X, T).sent \subseteq s.sent \cup Asks(X)
<1>1. PICK R : R = {x[1] : x \in {y \in X : ~task[y].ended}}
  OBVIOUS
<1>2. R \subseteq Rows /\ Asks(X) = R
  BY <1>1 DEF TaskNames, Asks
<1>3. PICK row : row = [r \in Rows |-> IF r \notin R \/ ~IsOpen(s, r) THEN s.row[r]
                                       ELSE IF r \in T THEN "accepted" ELSE "refused"]
  OBVIOUS
<1>4. row \in [Rows -> Dispatches]
  BY <1>3 DEF Pictures, Dispatches
<1>5. PICK a : a = [s EXCEPT !.row = row, !.sent = @ \cup (R \cap T)]
  OBVIOUS
<1>6. a \in Pictures
  BY <1>2, <1>4, <1>5 DEF Pictures
<1>7. a.row = row /\ a.held = s.held /\ a.boot = s.boot /\ a.sent = s.sent \cup (R \cap T)
  BY <1>5 DEF Pictures
<1>8. Concluded(s, X, T) = a
  BY <1>1, <1>3, <1>5 DEF Concluded
<1>9. \A r \in Rows : row[r] = IF r \notin R \/ ~IsOpen(s, r) THEN s.row[r] ELSE IF r \in T THEN "accepted" ELSE "refused"
  BY <1>3
<1> HIDE DEF IsOpen
<1> QED BY <1>2, <1>6, <1>7, <1>8, <1>9

LEMMA AnsweredOf ==
  ASSUME TypeInv, NEW s \in Pictures, NEW X, X \subseteq TaskNames, NEW T, NEW refused \in BOOLEAN
  PROVE  /\ Answered(s, X, T, refused) \in [TaskNames -> Tasks]
         /\ \A x \in TaskNames :
              /\ x \notin X => Answered(s, X, T, refused)[x] = task[x]
              /\ x \in X => LET t == Answered(s, X, T, refused)[x] IN
                   /\ t.pc \in {"idle", "claim", "fail"} /\ (t.pc # "idle" => ~task[x].ended)
                   /\ t.pc = "claim" => x[1] \in T
                   /\ t.pc = "fail" => x[1] \notin T /\ IsOpen(s, x[1]) /\ t.refused = refused
<1>1. task \in [TaskNames -> Tasks] /\ DOMAIN task = TaskNames
  BY DEF TypeInv
<1>2. setting.attempts \in Nat /\ 0 \in 0..setting.attempts
  BY HandoffAssumption DEF TypeInv, Setting
<1>3. PICK claim, fail : claim = [NoTask EXCEPT !.pc = "claim"] /\ fail = [NoTask EXCEPT !.pc = "fail", !.refused = refused]
  OBVIOUS
<1>4. /\ NoTask \in Tasks /\ claim \in Tasks /\ fail \in Tasks
      /\ NoTask.pc = "idle" /\ claim.pc = "claim" /\ fail.pc = "fail" /\ fail.refused = refused
  BY <1>2, <1>3 DEF Tasks, NoTask
<1>5. Answered(s, X, T, refused) = [x \in TaskNames |->
         CASE x \notin X -> task[x]
           [] x \in X /\ ~task[x].ended /\ x[1] \in T -> claim
           [] x \in X /\ ~task[x].ended /\ x[1] \notin T /\ IsOpen(s, x[1]) -> fail
           [] OTHER -> NoTask]
  BY <1>1, <1>3 DEF Answered
<1> HIDE DEF IsOpen, Tasks, NoTask, TaskNames
<1>6. \A x \in TaskNames :
        \/ x \notin X /\ Answered(s, X, T, refused)[x] = task[x]
        \/ x \in X /\ ~task[x].ended /\ x[1] \in T /\ Answered(s, X, T, refused)[x] = claim
        \/ x \in X /\ ~task[x].ended /\ x[1] \notin T /\ IsOpen(s, x[1]) /\ Answered(s, X, T, refused)[x] = fail
        \/ x \in X /\ Answered(s, X, T, refused)[x] = NoTask
  BY <1>5
<1>7. Answered(s, X, T, refused) = [x \in TaskNames |-> Answered(s, X, T, refused)[x]]
  BY <1>5
<1>8. \A x \in TaskNames : Answered(s, X, T, refused)[x] \in Tasks
  BY <1>1, <1>4, <1>6
<1> QED BY <1>4, <1>6, <1>7, <1>8

\* What a handler leaves: it works its list up to a verb, and with no verb left it
\* sends what waits.
Todo == [l \in Lanes |-> lane[l].todo]

LEMMA Performs ==
  ASSUME TypeInv, NEW l \in Lanes, NEW s \in Pictures, NEW t \in [TaskNames -> Tasks],
         NEW out \in Seq(Cmds), NEW list \in Seq(Acts), NEW paced \in BOOLEAN,
         Perform(l, s, t, out, list, paced), l = "messages" => mail # <<>>
  PROVE  /\ Actions(Goes(s)) \in Seq(Acts) /\ Goes(s) \subseteq Rows
         /\ \/ /\ state' = s /\ task' = Begun(t, list) /\ cmds' = cmds \o out \o Published(list)
               /\ Todo' = [Todo EXCEPT ![l] = Rest(list)]
            \/ /\ Rest(list) = <<>>
               /\ state' = Admit(s, Goes(s)) /\ task' = Begun(Begun(t, list), Actions(Goes(s)))
               /\ cmds' = cmds \o out \o Published(list) \o Published(Actions(Goes(s)))
               /\ Todo' = [Todo EXCEPT ![l] = Rest(Actions(Goes(s)))]
         /\ \A m \in Lanes : IF m = l THEN ~lane'[m].landed ELSE lane'[m] = lane[m]
         /\ mail' = IF l = "messages" /\ Todo'[l] = <<>> THEN Tail(mail) ELSE mail
         /\ state' \in Pictures /\ task' \in [TaskNames -> Tasks] /\ cmds' \in Seq(Cmds) /\ LanesOK'
         /\ mail' \in Seq(Letters)
<1>1. PICK R, pace : R = Goes(s) /\ pace = Actions(R)
  OBVIOUS
<1>2. R \subseteq Rows /\ pace \in Seq(Acts) /\ Admit(s, R) \in Pictures
  <2>1. R \subseteq Rows
    BY <1>1 DEF Goes, Waiting
  <2> QED BY <1>1, <2>1, ActionsOf, AdmitOf
<1>3. /\ lane \in [Lanes -> LaneRecords] /\ mail \in Seq(Letters) /\ cmds \in Seq(Cmds)
      /\ \A m \in Lanes : lane[m].todo = <<>> => lane[m] = Idle
      /\ \A m \in Lanes : lane[m].todo # <<>> => lane[m].todo[1].do \in Verbs
      /\ lane["messages"].todo # <<>> => mail # <<>>
  BY DEF TypeInv, LanesOK
<1>4. PICK now : now = (Rest(list) = <<>> /\ ~paced)
  OBVIOUS
<1>5. PICK left : left = IF now THEN Rest(pace) ELSE Rest(list)
  OBVIOUS
<1>6. PICK rec : rec = IF left = <<>> THEN Idle
                       ELSE [Idle EXCEPT !.pc = IF now \/ paced THEN "pacing" ELSE "acting", !.todo = left]
  OBVIOUS
<1>7. left \in Seq(Acts) /\ (left # <<>> => left[1].do \in Verbs)
  BY <1>2, <1>5, RestOf
<1>8. <<>> \in Seq(Acts)
  OBVIOUS
<1>9. rec \in LaneRecords /\ rec.todo = left /\ ~rec.landed /\ (left = <<>> => rec = Idle)
  BY <1>6, <1>7, <1>8 DEF Idle, LaneRecords
<1>10. lane' = [lane EXCEPT ![l] = rec]
  BY <1>1, <1>4, <1>5, <1>6 DEF Perform
<1>11. mail' = IF l = "messages" /\ left = <<>> THEN Tail(mail) ELSE mail
  BY <1>1, <1>4, <1>5 DEF Perform
<1>12. lane' \in [Lanes -> LaneRecords] /\ \A m \in Lanes : lane'[m] = IF m = l THEN rec ELSE lane[m]
  BY <1>3, <1>9, <1>10
<1>13. Todo' = [Todo EXCEPT ![l] = left] /\ Todo'[l] = left
  BY <1>9, <1>12 DEF Todo
<1>14. mail' \in Seq(Letters)
  BY <1>3, <1>11, HeadTailProperties
<1>15. LanesOK'
  <2>1. \A m \in Lanes : lane'[m].todo = <<>> => lane'[m] = Idle
    BY <1>3, <1>9, <1>12
  <2>2. \A m \in Lanes : lane'[m].todo # <<>> => lane'[m].todo[1].do \in Verbs
    BY <1>3, <1>7, <1>9, <1>12
  <2>3. lane'["messages"].todo # <<>> => mail' # <<>>
    <3>1. CASE l = "messages"
      BY <1>9, <1>11, <1>12, <3>1 DEF Lanes
    <3>2. CASE l # "messages"
      BY <1>3, <1>11, <1>12, <3>2 DEF Lanes
    <3> QED BY <3>1, <3>2
  <2> QED BY <1>12, <2>1, <2>2, <2>3 DEF LanesOK
<1>16. Begun(t, list) \in [TaskNames -> Tasks]
  BY BegunOf
<1>17. Begun(Begun(t, list), pace) \in [TaskNames -> Tasks]
  BY <1>2, <1>16, BegunOf
<1>18. /\ Published(list) \in Seq(Cmds) /\ Published(pace) \in Seq(Cmds)
       /\ cmds \o out \o Published(list) \in Seq(Cmds)
       /\ cmds \o out \o Published(list) \o Published(pace) \in Seq(Cmds)
  <2>1. Published(list) \in Seq(Cmds) /\ Published(pace) \in Seq(Cmds)
    BY <1>2, PublishedOf
  <2>2. cmds \o out \in Seq(Cmds)
    BY <1>3, ConcatProperties
  <2>3. cmds \o out \o Published(list) \in Seq(Cmds)
    BY <2>1, <2>2, ConcatProperties
  <2> QED BY <2>1, <2>3, ConcatProperties
<1>19. \A m \in Lanes : IF m = l THEN ~lane'[m].landed ELSE lane'[m] = lane[m]
  BY <1>9, <1>12
<1>20. CASE now
  <2>1. state' = Admit(s, R) /\ task' = Begun(Begun(t, list), pace) /\ cmds' = cmds \o out \o Published(list) \o Published(pace)
    BY <1>1, <1>4, <1>20 DEF Perform
  <2>2. Rest(list) = <<>> /\ left = Rest(pace)
    BY <1>4, <1>5, <1>20
  <2> QED BY <1>1, <1>2, <1>11, <1>13, <1>14, <1>15, <1>17, <1>18, <1>19, <2>1, <2>2
<1>21. CASE ~now
  <2>1. state' = s /\ task' = Begun(Begun(t, list), <<>>) /\ cmds' = cmds \o out \o Published(list) \o Published(<<>>)
    BY <1>1, <1>4, <1>21 DEF Perform
  <2>2. Upto(<<>>) = 0
    <3>1. PICK e, u : e = <<>> /\ u = Upto(e)
      OBVIOUS
    <3>2. e \in Seq(Acts) /\ Len(e) = 0
      BY <1>8, <3>1
    <3>3. u \in 0..Len(e)
      BY <3>1, <3>2, Cut
    <3>4. u = 0
      BY <3>2, <3>3
    <3> QED BY <3>1, <3>4
  <2>3. Starts(<<>>) = {}
    BY <2>2 DEF Starts
  <2>4. Begun(Begun(t, list), <<>>) = Begun(t, list)
    <3>1. PICK b : b = Begun(t, list)
      OBVIOUS
    <3>2. Begun(b, <<>>) \in [TaskNames -> Tasks] /\ \A x \in TaskNames : Begun(b, <<>>)[x] = b[x]
      BY <1>8, <1>16, <2>3, <3>1, BegunOf
    <3>3. b \in [TaskNames -> Tasks]
      BY <1>16, <3>1
    <3> HIDE DEF TaskNames, Tasks
    <3>4. Begun(b, <<>>) = b
      BY <3>2, <3>3
    <3> QED BY <3>1, <3>4
  <2>5. Published(<<>>) = <<>>
    <3>1. Published(<<>>) \in Seq(Cmds) /\ Len(Published(<<>>)) = 0
      BY <1>8, <2>2, PublishedOf
    <3> QED BY <3>1, EmptySeq
  <2>6. cmds' = cmds \o out \o Published(list)
    BY <1>18, <2>1, <2>5, ConcatEmptySeq
  <2>7. left = Rest(list)
    BY <1>5, <1>21
  <2> QED BY <1>1, <1>2, <1>11, <1>13, <1>14, <1>15, <1>16, <1>18, <1>19, <2>1, <2>4, <2>6, <2>7
<1> QED BY <1>20, <1>21

\* The letter at hand, by its kind.
LEMMA LetterOf ==
  ASSUME TypeInv, mail # <<>>
  PROVE  /\ Head(mail) \in Letters /\ Head(mail) = mail[1] /\ Len(mail) \in Nat \ {0}
         /\ Head(mail).kind # "snapshot" => Head(mail).row \in Rows
         /\ Head(mail).kind = "reply" => Head(mail).of \in Nat /\ Head(mail).ok \in BOOLEAN
         /\ Head(mail).kind = "snapshot" => Head(mail).boot \in Nat /\ Head(mail).jobs \in SUBSET Rows
<1>1. mail \in Seq(Letters)
  BY DEF TypeInv
<1>2. PICK m : m = Head(mail)
  OBVIOUS
<1>3. m \in Letters /\ m = mail[1] /\ Len(mail) \in Nat \ {0}
  BY <1>1, <1>2, HeadTailProperties, EmptySeq
<1>4. /\ m.kind # "snapshot" => m.row \in Rows
      /\ m.kind = "reply" => m.of \in Nat /\ m.ok \in BOOLEAN
      /\ m.kind = "snapshot" => m.boot \in Nat /\ m.jobs \in SUBSET Rows
  BY <1>3 DEF Letters
<1> QED BY <1>2, <1>3, <1>4

\* A lane at work: its first act is a verb, and the gateway is not down.
LEMMA AtWork ==
  ASSUME TypeInv, NEW l \in Lanes, lane[l].todo # <<>>
  PROVE  /\ Head(lane[l].todo) = lane[l].todo[1] /\ lane[l].todo[1] \in Acts
         /\ lane[l].todo[1].row \in Rows /\ lane[l].todo[1].do \in Verbs
         /\ lane[l].todo \in Seq(Acts) /\ Tail(lane[l].todo) \in Seq(Acts)
         /\ Len(lane[l].todo) \in Nat \ {0} /\ 1 \in DOMAIN lane[l].todo
         /\ gateway # "down" /\ (l = "messages" => mail # <<>>)
<1>1. PICK todo : todo = lane[l].todo
  OBVIOUS
<1>2. todo \in Seq(Acts) /\ todo # <<>> /\ todo[1].do \in Verbs
  BY <1>1 DEF TypeInv, LanesOK, LaneRecords
<1>3. Head(todo) \in Acts /\ Head(todo) = todo[1] /\ Tail(todo) \in Seq(Acts) /\ Len(todo) \in Nat \ {0}
  BY <1>2, HeadTailProperties, EmptySeq
<1>4. todo[1].row \in Rows
  BY <1>3 DEF Acts
<1>5. gateway # "down"
  BY <1>1, <1>2 DEF TypeInv, DownOK, Idle
<1>6. 1 \in DOMAIN todo
  BY <1>2, <1>3, LenProperties
<1>7. l = "messages" => mail # <<>>
  BY <1>1, <1>2 DEF TypeInv, LanesOK
<1> QED BY <1>1, <1>2, <1>3, <1>4, <1>5, <1>6, <1>7

\* What landing does.
LEMMA LandOf ==
  ASSUME TypeInv, NEW verb \in Verbs \cup {"claim"}, NEW r \in Rows, Land(verb, r)
  PROVE  /\ db' \in [Rows -> DbRecords] /\ events \subseteq events' /\ events' \subseteq Rows \X Happenings
         /\ \A q \in Rows \ {r} : db'[q] = db[q]
         /\ db[r].status # "pending" => db' = db /\ events' = events
         /\ db[r].status = "pending" => db'[r].status # "none"
         /\ verb \in {"claim", "accumulate"} => db'[r].status = db[r].status /\ events' = events
         /\ verb # "claim" => db'[r].claimed = db[r].claimed
         /\ verb \in {"receive", "fail"} \/ (verb = "refuse" /\ ~db[r].claimed) => db'[r].status # "pending"
         /\ db'[r].status = db[r].status \/ db'[r].status \in {"received", "failed"}
         /\ gateway = "up" /\ db'[r].status # db[r].status => <<r, "resolved">> \in events'
         /\ verb \in {"claim", "receive"} => db'[r].item = db[r].item
<1>1. db \in [Rows -> DbRecords] /\ events \subseteq Rows \X Happenings /\ <<r, "resolved">> \in Rows \X Happenings
  BY DEF TypeInv, Happenings
<1>2. CASE db[r].status # "pending"
  <2>1. db' = db /\ events' = events
    BY <1>2 DEF Land, Verbs
  <2> QED BY <1>1, <1>2, <2>1
<1>3. CASE db[r].status = "pending" /\ verb = "claim"
  <2>1. db' = [db EXCEPT ![r].claimed = TRUE] /\ events' = events
    BY <1>3 DEF Land
  <2> QED BY <1>1, <1>3, <2>1 DEF DbRecords, Statuses
<1>4. CASE db[r].status = "pending" /\ verb = "accumulate"
  <2>1. db' = [db EXCEPT ![r].item = TRUE] /\ events' = events
    BY <1>4 DEF Land
  <2> QED BY <1>1, <1>4, <2>1 DEF DbRecords, Statuses
<1>5. CASE db[r].status = "pending" /\ verb = "receive"
  <2>1. db' = [db EXCEPT ![r].status = "received"] /\ Emit(r, "resolved")
    BY <1>5 DEF Land
  <2>2. events \subseteq events' /\ events' \subseteq Rows \X Happenings /\ (gateway = "up" => <<r, "resolved">> \in events')
    BY <1>1, <2>1 DEF Emit
  <2> QED BY <1>1, <1>5, <2>1, <2>2 DEF DbRecords, Statuses
<1>6. CASE db[r].status = "pending" /\ (verb = "fail" \/ (verb = "refuse" /\ ~db[r].claimed))
  <2>1. db' = [db EXCEPT ![r].status = "failed"] /\ Emit(r, "resolved")
    BY <1>6 DEF Land
  <2>2. events \subseteq events' /\ events' \subseteq Rows \X Happenings /\ (gateway = "up" => <<r, "resolved">> \in events')
    BY <1>1, <2>1 DEF Emit
  <2> QED BY <1>1, <1>6, <2>1, <2>2 DEF DbRecords, Statuses
<1>7. CASE db[r].status = "pending" /\ verb = "refuse" /\ db[r].claimed
  <2>1. db' = db /\ events' = events
    BY <1>7 DEF Land
  <2> QED BY <1>1, <1>7, <2>1
<1> QED BY <1>2, <1>3, <1>4, <1>5, <1>6, <1>7 DEF Verbs

\* A handler that performs its list keeps the types.
LEMMA PerformedTypes ==
  ASSUME TypeInv, NEW l \in Lanes, NEW s \in Pictures, NEW t \in [TaskNames -> Tasks],
         NEW out \in Seq(Cmds), NEW list \in Seq(Acts), NEW paced \in BOOLEAN,
         Perform(l, s, t, out, list, paced), l = "messages" => mail # <<>>,
         setting' = setting, period' = period, machine' = machine, spent' = spent, db' = db,
         events' \subseteq events, gateway' \in {"reading", "sending", "up"}
  PROVE  TypeInv'
<1>1. /\ state' \in Pictures /\ task' \in [TaskNames -> Tasks] /\ cmds' \in Seq(Cmds) /\ LanesOK'
      /\ mail' \in Seq(Letters)
  BY Performs
<1>2. Tasks' = Tasks /\ DownOK'
  BY DEF Tasks, DownOK
<1> QED BY <1>1, <1>2 DEF TypeInv

\* What each handler decides, with its types.
LEMMA CancelOf ==
  ASSUME NEW s \in Pictures, NEW r \in Rows
  PROVE  /\ CancelDispatch(s, r) \in Seq(Acts) /\ FailHandoff(s, r) \in Seq(Acts)
         /\ \A i \in DOMAIN CancelDispatch(s, r) : CancelDispatch(s, r)[i] = Do("cancel", r) /\ IsOpen(s, r)
         /\ \A i \in DOMAIN FailHandoff(s, r) : FailHandoff(s, r)[i] = IF i = 1 THEN Do("fail", r) ELSE Do("cancel", r)
<1>1. Do("cancel", r) \in Acts /\ Do("fail", r) \in Acts
  BY DEF Do, Acts, Verbs
<1>2. PICK c, f : c = Do("cancel", r) /\ f = Do("fail", r)
  OBVIOUS
<1>3. CancelDispatch(s, r) = IF s.row[r] \in Sent /\ r \notin s.held THEN <<c>> ELSE <<>>
  BY <1>2 DEF CancelDispatch
<1>4. <<c>> \in Seq(Acts) /\ <<>> \in Seq(Acts) /\ DOMAIN <<c>> = 1..1 /\ <<c>>[1] = c /\ DOMAIN <<>> = {}
  BY <1>1, <1>2
<1>5. s.row[r] \in Sent => IsOpen(s, r)
  BY DEF IsOpen, Sent, Open
<1>6. CancelDispatch(s, r) \in Seq(Acts) /\ \A i \in DOMAIN CancelDispatch(s, r) : CancelDispatch(s, r)[i] = c /\ IsOpen(s, r)
  BY <1>3, <1>4, <1>5
<1>7. FailHandoff(s, r) = <<f>> \o CancelDispatch(s, r)
  BY <1>2 DEF FailHandoff
<1>8. PICK d, h : d = CancelDispatch(s, r) /\ h = FailHandoff(s, r)
  OBVIOUS
<1>9. h \in Seq(Acts) /\ \A i \in DOMAIN h : h[i] = IF i = 1 THEN f ELSE c
  <2>1. <<f>> \in Seq(Acts) /\ d \in Seq(Acts) /\ Len(<<f>>) = 1 /\ <<f>>[1] = f
    BY <1>1, <1>2, <1>6, <1>8
  <2>2. h = <<f>> \o d
    BY <1>7, <1>8
  <2>3. /\ h \in Seq(Acts) /\ Len(h) = 1 + Len(d)
        /\ \A i \in 1..1 + Len(d) : h[i] = IF i <= 1 THEN f ELSE d[i - 1]
    <3>1. PICK e : e = <<f>>
      OBVIOUS
    <3>2. e \in Seq(Acts) /\ Len(e) = 1 /\ e[1] = f /\ h = e \o d
      BY <2>1, <2>2, <3>1
    <3>3. /\ h \in Seq(Acts) /\ Len(h) = 1 + Len(d)
          /\ \A i \in 1..1 + Len(d) : h[i] = IF i <= 1 THEN e[i] ELSE d[i - 1]
      BY <2>1, <3>2, ConcatProperties
    <3>4. Len(d) \in Nat
      BY <2>1, LenProperties
    <3>5. \A i \in 1..1 + Len(d) : i <= 1 => i = 1
      BY <3>4
    <3> QED BY <3>2, <3>3, <3>5
  <2>4. DOMAIN h = 1..1 + Len(d) /\ DOMAIN d = 1..Len(d) /\ Len(d) \in Nat
    BY <2>1, <2>3, LenProperties
  <2>5. \A i \in 1..1 + Len(d) : i <= 1 => i = 1
    BY <2>4
  <2>6. \A i \in 1..1 + Len(d) : i # 1 => i - 1 \in 1..Len(d) /\ ~ i <= 1
    BY <2>4
  <2>7. \A i \in DOMAIN d : d[i] = c
    BY <1>6, <1>8
  <2> QED BY <2>3, <2>4, <2>5, <2>6, <2>7
<1> QED BY <1>2, <1>6, <1>8, <1>9

LEMMA VerbReturnsPlan ==
  ASSUME TypeInv, NEW l \in Lanes, VerbReturns(l)
  PROVE  \E a \in Acts, s \in Pictures, list \in Seq(Acts) :
         /\ lane[l].todo # <<>> /\ lane[l].landed /\ a = lane[l].todo[1]
         /\ s = IF a.do = "accumulate" THEN state ELSE Shut(state, a.row)
         /\ list = IF a.do = "accumulate" /\ db[a.row].item THEN <<Do("receive", a.row)>> \o Tail(lane[l].todo)
                   ELSE Tail(lane[l].todo)
         /\ Perform(l, s, task, <<>>, list, lane[l].pc = "pacing")
         /\ gateway' \in {"reading", "sending", "up"} /\ (gateway = "up" => gateway' = "up")
         /\ gateway # "down" /\ events' = events /\ UNCHANGED <<db, machine, period, spent>>
<1>1. lane[l].todo # <<>> /\ lane[l].landed
  BY DEF VerbReturns
<1>2. PICK a : a = lane[l].todo[1]
  OBVIOUS
<1>3. /\ a \in Acts /\ a.row \in Rows /\ Head(lane[l].todo) = a /\ Tail(lane[l].todo) \in Seq(Acts)
      /\ gateway \in {"reading", "sending", "up"}
  BY <1>1, <1>2, AtWork DEF TypeInv
<1>4. PICK s : s = IF a.do = "accumulate" THEN state ELSE Shut(state, a.row)
  OBVIOUS
<1>5. PICK list : list = IF a.do = "accumulate" /\ db[a.row].item THEN <<Do("receive", a.row)>> \o Tail(lane[l].todo)
                         ELSE Tail(lane[l].todo)
  OBVIOUS
<1>6. s \in Pictures
  BY <1>3, <1>4, ShutOf DEF TypeInv
<1>7. list \in Seq(Acts)
  <2>1. <<Do("receive", a.row)>> \in Seq(Acts)
    BY <1>3 DEF Do, Acts, Verbs
  <2> QED BY <1>3, <1>5, <2>1, ConcatProperties
<1>8. Perform(l, s, task, <<>>, list, lane[l].pc = "pacing")
  BY <1>3, <1>4, <1>5 DEF VerbReturns
<1>9. gateway' = (IF gateway = "sending" /\ lane'[l] = Idle THEN "up" ELSE gateway) /\ UNCHANGED <<db, events, machine, period, spent>>
  BY DEF VerbReturns, machineVars
<1>10. gateway' \in {"reading", "sending", "up"} /\ (gateway = "up" => gateway' = "up")
  BY <1>3, <1>9
<1> QED BY <1>1, <1>2, <1>3, <1>4, <1>5, <1>6, <1>7, <1>8, <1>9, <1>10

LEMMA OnEscalationPlan ==
  ASSUME TypeInv, NEW r \in Rows, NEW verb \in Happenings, OnEscalation(r, verb)
  PROVE  \E s \in Pictures, list \in Seq(Acts), fits \in BOOLEAN :
         /\ fits = (db[r].status \in Fitting[verb])
         /\ \/ /\ fits /\ verb = "created" /\ state.row[r] = "unknown" /\ Fits(MachineLoad(state))
               /\ s = Admit(state, {r}) /\ list = Actions({r})
            \/ /\ fits /\ verb = "created" /\ state.row[r] = "unknown"
               /\ s = [state EXCEPT !.row[r] = "waiting"] /\ list = <<>>
            \/ fits /\ verb # "created" /\ s = Shut(state, r) /\ list = IF verb = "ended" THEN CancelDispatch(state, r) ELSE <<>>
            \/ (fits => verb = "created" /\ state.row[r] # "unknown") /\ s = state /\ list = <<>>
         /\ gateway = "up" /\ gateway' = gateway /\ lane["events"] = Idle
         /\ <<r, verb>> \in events /\ events' = events \ {<<r, verb>>}
         /\ Perform("events", s, task, <<>>, list, FALSE)
         /\ UNCHANGED <<db, machine, period, spent>>
<1>1. PICK fits : fits = (db[r].status \in Fitting[verb])
  OBVIOUS
<1>2. PICK new, goes, over : new = (fits /\ verb = "created" /\ state.row[r] = "unknown")
                             /\ goes = (new /\ Fits(MachineLoad(state))) /\ over = (fits /\ verb # "created")
  OBVIOUS
<1>3. PICK s : s = CASE goes -> Admit(state, {r})
                     [] new /\ ~goes -> [state EXCEPT !.row[r] = "waiting"]
                     [] over -> Shut(state, r)
                     [] OTHER -> state
  OBVIOUS
<1>4. PICK list : list = IF goes THEN Actions({r}) ELSE IF over /\ verb = "ended" THEN CancelDispatch(state, r) ELSE <<>>
  OBVIOUS
<1>5. Perform("events", s, task, <<>>, list, FALSE)
  BY <1>1, <1>2, <1>3, <1>4 DEF OnEscalation
<1>6. fits \in BOOLEAN
  BY <1>1
<1>7. gateway = "up" /\ gateway' = gateway /\ lane["events"] = Idle /\ <<r, verb>> \in events
      /\ events' = events \ {<<r, verb>>} /\ UNCHANGED <<db, machine, period, spent>>
  BY DEF OnEscalation, machineVars
<1>8. state \in Pictures
  BY DEF TypeInv
<1>9. CASE goes
  <2>1. s = Admit(state, {r}) /\ list = Actions({r})
    BY <1>2, <1>3, <1>4, <1>9
  <2>2. s \in Pictures /\ list \in Seq(Acts)
    BY <1>8, <2>1, AdmitOf, ActionsOf
  <2> QED BY <1>1, <1>2, <1>5, <1>6, <1>7, <1>9, <2>1, <2>2
<1>10. CASE new /\ ~goes
  <2>1. s = [state EXCEPT !.row[r] = "waiting"] /\ list = <<>>
    BY <1>2, <1>3, <1>4, <1>10
  <2>2. s \in Pictures
    BY <1>8, <2>1 DEF Pictures, Dispatches
  <2>3. list \in Seq(Acts)
    BY <2>1
  <2> QED BY <1>1, <1>2, <1>5, <1>6, <1>7, <1>10, <2>1, <2>2, <2>3
<1>11. CASE over
  <2>1. s = Shut(state, r) /\ list = IF verb = "ended" THEN CancelDispatch(state, r) ELSE <<>>
    BY <1>2, <1>3, <1>4, <1>11
  <2>2. <<>> \in Seq(Acts)
    OBVIOUS
  <2>3. s \in Pictures /\ list \in Seq(Acts)
    BY <1>8, <2>1, <2>2, ShutOf, CancelOf
  <2> QED BY <1>1, <1>2, <1>5, <1>6, <1>7, <1>11, <2>1, <2>3
<1>12. CASE ~new /\ ~over
  <2>1. s = state /\ list = <<>>
    BY <1>2, <1>3, <1>4, <1>12
  <2>2. list \in Seq(Acts)
    BY <2>1
  <2> QED BY <1>1, <1>2, <1>5, <1>6, <1>7, <1>8, <1>12, <2>1, <2>2
<1> QED BY <1>2, <1>9, <1>10, <1>11, <1>12

LEMMA TakeReplyPlan ==
  ASSUME TypeInv, TakeReply
  PROVE  \E m \in Letters, s \in Pictures, t \in [TaskNames -> Tasks] : \E X \in SUBSET TaskNames : \E T \in SUBSET Rows :
         /\ m = mail[1] /\ m.kind = "reply" /\ m.row \in Rows /\ T = IF m.ok THEN {m.row} ELSE {}
         /\ X = {x \in TaskNames : task[x].pc = "reply" /\ x[1] = m.row /\ task[x].of = m.of}
         /\ s = Concluded(state, X, T) /\ t = Answered(state, X, T, TRUE)
         /\ Perform("messages", s, t, <<>>, <<>>, FALSE)
         /\ gateway = "up" /\ lane["messages"] = Idle /\ mail # <<>> /\ UNCHANGED <<db, events, gateway, machine, period, spent>>
<1>1. /\ gateway = "up" /\ lane["messages"] = Idle /\ mail # <<>> /\ Head(mail).kind = "reply"
      /\ UNCHANGED <<db, events, gateway, machine, period, spent>>
  BY DEF TakeReply, Reading, HandlerUnchanged, machineVars
<1>2. PICK m : m = Head(mail)
  OBVIOUS
<1>3. m \in Letters /\ m.row \in Rows /\ m = mail[1] /\ m.kind = "reply"
  BY <1>1, <1>2, LetterOf
<1>4. PICK X, T : /\ X = {x \in TaskNames : task[x].pc = "reply" /\ x[1] = m.row /\ task[x].of = m.of}
                  /\ T = IF m.ok THEN {m.row} ELSE {}
  OBVIOUS
<1>5. X \in SUBSET TaskNames /\ T \in SUBSET Rows /\ DOMAIN task = TaskNames /\ state \in Pictures
  BY <1>3, <1>4 DEF TypeInv
<1>6. PICK s, t : s = Concluded(state, X, T) /\ t = Answered(state, X, T, TRUE)
  OBVIOUS
<1>7. Perform("messages", s, t, <<>>, <<>>, FALSE)
  BY <1>2, <1>4, <1>5, <1>6 DEF TakeReply
<1>8. s \in Pictures /\ t \in [TaskNames -> Tasks]
  BY <1>5, <1>6, ConcludedOf, AnsweredOf
<1> HIDE DEF TaskNames, Tasks, Letters, Pictures
<1> QED BY <1>1, <1>3, <1>4, <1>5, <1>6, <1>7, <1>8

LEMMA TakeJobPlan ==
  ASSUME TypeInv, TakeJob
  PROVE  \E m \in Letters, s \in Pictures, list \in Seq(Acts) :
         /\ m = mail[1] /\ m.kind \in {"arrived", "released", "withdrawn", "misread"} /\ m.row \in Rows
         /\ s = CASE m.kind = "arrived" /\ IsOpen(state, m.row) -> [state EXCEPT !.held = @ \cup {m.row}]
                  [] m.kind \in {"released", "withdrawn"} -> LetGo(state, m.row)
                  [] OTHER -> state
         /\ s.row = state.row /\ s.boot = state.boot /\ s.sent \subseteq state.sent
         /\ \/ (m.kind = "released" \/ ~IsOpen(state, m.row)) /\ list = <<>>
            \/ m.kind = "arrived" /\ IsOpen(state, m.row) /\ list = <<Do("accumulate", m.row)>>
            \/ m.kind \in {"withdrawn", "misread"} /\ IsOpen(state, m.row) /\ list = FailHandoff(s, m.row)
         /\ Perform("messages", s, task, <<>>, list, FALSE)
         /\ gateway = "up" /\ lane["messages"] = Idle /\ mail # <<>> /\ UNCHANGED <<db, events, gateway, machine, period, spent>>
<1>1. /\ gateway = "up" /\ lane["messages"] = Idle /\ mail # <<>>
      /\ Head(mail).kind \in {"arrived", "released", "withdrawn", "misread"}
      /\ UNCHANGED <<db, events, gateway, machine, period, spent>>
  BY DEF TakeJob, Reading, HandlerUnchanged, machineVars
<1>2. PICK m : m = Head(mail)
  OBVIOUS
<1>3. m \in Letters /\ m.row \in Rows /\ m = mail[1] /\ m.kind \in {"arrived", "released", "withdrawn", "misread"}
  BY <1>1, <1>2, LetterOf
<1>4. PICK s : s = CASE m.kind = "arrived" /\ IsOpen(state, m.row) -> [state EXCEPT !.held = @ \cup {m.row}]
                     [] m.kind \in {"released", "withdrawn"} -> LetGo(state, m.row)
                     [] OTHER -> state
  OBVIOUS
<1>5. PICK list : list = CASE m.kind = "released" \/ ~IsOpen(state, m.row) -> <<>>
                           [] m.kind = "arrived" /\ IsOpen(state, m.row) -> <<Do("accumulate", m.row)>>
                           [] OTHER -> FailHandoff(s, m.row)
  OBVIOUS
<1>6. Perform("messages", s, task, <<>>, list, FALSE)
  BY <1>2, <1>4, <1>5 DEF TakeJob
<1>7. state \in Pictures
  BY DEF TypeInv
<1>8. s \in Pictures /\ s.row = state.row /\ s.boot = state.boot /\ s.sent \subseteq state.sent
  <2>1. CASE m.kind = "arrived" /\ IsOpen(state, m.row)
    <3>1. s = [state EXCEPT !.held = @ \cup {m.row}]
      BY <1>4, <2>1
    <3> QED BY <1>3, <1>7, <3>1, HoldOf
  <2>2. CASE m.kind \in {"released", "withdrawn"}
    <3>1. s = LetGo(state, m.row)
      BY <1>4, <2>2
    <3> QED BY <1>3, <1>7, <3>1, LetGoOf
  <2>3. CASE ~(m.kind = "arrived" /\ IsOpen(state, m.row)) /\ m.kind \notin {"released", "withdrawn"}
    <3>1. s = state
      BY <1>4, <2>3
    <3> QED BY <1>7, <3>1
  <2> QED BY <2>1, <2>2, <2>3
<1>9. \/ (m.kind = "released" \/ ~IsOpen(state, m.row)) /\ list = <<>>
      \/ m.kind = "arrived" /\ IsOpen(state, m.row) /\ list = <<Do("accumulate", m.row)>>
      \/ m.kind \in {"withdrawn", "misread"} /\ IsOpen(state, m.row) /\ list = FailHandoff(s, m.row)
  <2> HIDE DEF IsOpen, Do, FailHandoff
  <2>1. CASE m.kind = "released" \/ ~IsOpen(state, m.row)
    BY <1>5, <2>1
  <2>2. CASE m.kind = "arrived" /\ IsOpen(state, m.row)
    BY <1>5, <2>2
  <2>3. CASE m.kind \in {"withdrawn", "misread"} /\ IsOpen(state, m.row)
    BY <1>5, <2>3
  <2> QED BY <1>3, <2>1, <2>2, <2>3
<1>10. list \in Seq(Acts)
  <2>1. <<>> \in Seq(Acts) /\ <<Do("accumulate", m.row)>> \in Seq(Acts)
    BY <1>3 DEF Do, Acts, Verbs
  <2>2. FailHandoff(s, m.row) \in Seq(Acts)
    BY <1>3, <1>8, CancelOf
  <2> QED BY <1>3, <1>5, <2>1, <2>2
<1> HIDE DEF Letters, Pictures
<1> QED BY <1>1, <1>3, <1>4, <1>6, <1>8, <1>9, <1>10

\* A snapshot that tells of a restart has dispatches sent again: the accepted
\* ones, as before, and those of rows that closed.
SnapshotPlan(m, k, s, t, out, X, open, again) ==
  /\ m = mail[1] /\ m.kind = "snapshot" /\ m.boot \in Nat /\ m.jobs \in SUBSET Rows
  /\ X = {x \in TaskNames : task[x].pc = "status"}
  /\ state.boot \in {0, m.boot} => open = {} /\ again = {}
  /\ \A r \in open : state.row[r] = "accepted"
  /\ \A r \in again : state.row[r] = "closed" /\ r \in state.sent
  /\ k.row = state.row /\ k.boot = m.boot /\ k.sent \subseteq state.sent
  /\ \A r \in Rows : r \in k.held <=> r \in state.held /\ (r \in m.jobs \/ r \in again)
  /\ s = Concluded(k, X, m.jobs)
  /\ \A x \in TaskNames :
       t[x] = IF x[2] = "again" /\ x[1] \in open THEN Asking(FALSE)
              ELSE IF x[2] = "again" /\ x[1] \in again THEN Asking(TRUE)
              ELSE Answered(k, X, m.jobs, FALSE)[x]
  /\ open \cup again = {} => out = <<>>

LEMMA TakeSnapshotPlan ==
  ASSUME TypeInv, TakeSnapshot
  PROVE  /\ \E m \in Letters, k \in Pictures, s \in Pictures, t \in [TaskNames -> Tasks], out \in Seq(Cmds) :
            \E X \in SUBSET TaskNames : \E open \in SUBSET Rows : \E again \in SUBSET Rows :
              SnapshotPlan(m, k, s, t, out, X, open, again) /\ Perform("messages", s, t, out, <<>>, FALSE)
         /\ gateway = "up" /\ lane["messages"] = Idle /\ mail # <<>> /\ UNCHANGED <<db, events, gateway, machine, period, spent>>
<1>1. /\ gateway = "up" /\ lane["messages"] = Idle /\ mail # <<>> /\ Head(mail).kind = "snapshot"
      /\ UNCHANGED <<db, events, gateway, machine, period, spent>>
  BY DEF TakeSnapshot, Reading, HandlerUnchanged, machineVars
<1>2. PICK m : m = Head(mail)
  OBVIOUS
<1>3. m \in Letters /\ m = mail[1] /\ m.kind = "snapshot" /\ m.boot \in Nat /\ m.jobs \in SUBSET Rows
  BY <1>1, <1>2, LetterOf
<1>4. PICK rebooted : rebooted = (state.boot \notin {0, m.boot})
  OBVIOUS
<1>5. PICK again, open : /\ again = (IF rebooted THEN Lost(state, m.jobs) ELSE {})
                         /\ open = (IF rebooted THEN {r \in Rows \ m.jobs : state.row[r] = "accepted"} ELSE {})
  OBVIOUS
<1>6. PICK X, k : X = {x \in TaskNames : task[x].pc = "status"}
                  /\ k = [KeepHeld(state, m.jobs \cup again, m.boot) EXCEPT !.jobs = m.jobs]
  OBVIOUS
<1>7. state \in Pictures /\ DOMAIN task = TaskNames /\ period \in Nat
  BY DEF TypeInv
<1>8. /\ open \in SUBSET Rows /\ \A r \in open : state.row[r] = "accepted"
      /\ state.boot \in {0, m.boot} => open = {}
  BY <1>4, <1>5
<1>9. /\ again \in SUBSET Rows /\ \A r \in again : state.row[r] = "closed" /\ r \in state.sent
      /\ state.boot \in {0, m.boot} => again = {}
  BY <1>4, <1>5, <1>7 DEF Lost, Pictures
<1>10. X \in SUBSET TaskNames
  BY <1>6
<1>a. PICK jobs, listed, boot : jobs = m.jobs /\ listed = m.jobs \cup again /\ boot = m.boot
  OBVIOUS
<1>11. /\ k \in Pictures /\ k.row = state.row /\ k.boot = m.boot /\ k.sent \subseteq state.sent
       /\ \A r \in Rows : r \in k.held <=> r \in state.held /\ (r \in m.jobs \/ r \in again)
  <2>1. jobs \in SUBSET Rows /\ boot \in Nat /\ k = Keeps(state, listed, boot, jobs)
    BY <1>3, <1>6, <1>a DEF Keeps
  <2>2. k \in Pictures /\ k.row = state.row /\ k.boot = boot /\ k.sent \subseteq state.sent
    BY <1>7, <2>1, KeepOf
  <2>3. \A r \in Rows : r \in k.held <=> r \in state.held /\ r \in listed
    BY <1>7, <2>1, HeldKept
  <2> QED BY <1>a, <2>2, <2>3
<1>12. PICK ans : ans = Answered(k, X, m.jobs, FALSE)
  OBVIOUS
<1>13. ans \in [TaskNames -> Tasks]
  <2>1. X \subseteq TaskNames /\ ans = Answered(k, X, jobs, FALSE) /\ FALSE \in BOOLEAN
    BY <1>10, <1>12, <1>a
  <2>2. Answered(k, X, jobs, FALSE) \in [TaskNames -> Tasks]
    BY <1>11, <2>1, AnsweredOf
  <2> QED BY <2>1, <2>2
<1>14. PICK t : t = [x \in TaskNames |-> IF x \in {<<r, "again">> : r \in open} THEN Asking(FALSE)
                                         ELSE IF x \in {<<r, "again">> : r \in again} THEN Asking(TRUE) ELSE ans[x]]
  OBVIOUS
<1>15. PICK out : out = [i \in 1..Cardinality(open \cup again) |-> Command("dispatch", Sorted(open \cup again)[i], period)]
  OBVIOUS
<1>16. PICK s : s = Concluded(k, X, m.jobs)
  OBVIOUS
<1>17. Perform("messages", s, t, out, <<>>, FALSE)
  <2>1. Perform("messages", s,
           [x \in TaskNames |-> IF x \in {<<r, "again">> : r \in open} THEN Asked(task, {x}, FALSE)[x]
                                  ELSE IF x \in {<<r, "again">> : r \in again} THEN Asked(task, {x}, TRUE)[x]
                                  ELSE ans[x]], out, <<>>, FALSE)
    BY <1>2, <1>4, <1>5, <1>6, <1>7, <1>12, <1>15, <1>16 DEF TakeSnapshot
  <2>2. \A x \in TaskNames : Asked(task, {x}, FALSE)[x] = Asking(FALSE) /\ Asked(task, {x}, TRUE)[x] = Asking(TRUE)
    BY <1>7 DEF Asked, Asking
  <2>3. [x \in TaskNames |-> IF x \in {<<r, "again">> : r \in open} THEN Asked(task, {x}, FALSE)[x]
                             ELSE IF x \in {<<r, "again">> : r \in again} THEN Asked(task, {x}, TRUE)[x]
                             ELSE ans[x]] = t
    <3> HIDE DEF Asked, Asking, TaskNames
    <3> QED BY <1>14, <2>2
  <2> QED BY <2>1, <2>3
<1>18. \A x \in TaskNames :
         /\ x \in {<<r, "again">> : r \in open} <=> x[2] = "again" /\ x[1] \in open
         /\ x \in {<<r, "again">> : r \in again} <=> x[2] = "again" /\ x[1] \in again
  BY <1>8, <1>9 DEF TaskNames
<1>19. Asking(FALSE) \in Tasks /\ Asking(TRUE) \in Tasks
  <2>1. <<>> \in Seq(Acts)
    OBVIOUS
  <2> QED BY <1>13, <2>1, BegunOf
<1>20. t \in [TaskNames -> Tasks]
  <2> HIDE DEF TaskNames, Tasks, Asking
  <2> QED BY <1>13, <1>14, <1>19
<1>21. \A x \in TaskNames :
         t[x] = IF x[2] = "again" /\ x[1] \in open THEN Asking(FALSE)
                ELSE IF x[2] = "again" /\ x[1] \in again THEN Asking(TRUE)
                ELSE Answered(k, X, m.jobs, FALSE)[x]
  <2> HIDE DEF TaskNames, Asking
  <2> QED BY <1>12, <1>14, <1>18
<1>22. out \in Seq(Cmds) /\ (open \cup again = {} => out = <<>>)
  <2>1. PICK both : both = open \cup again
    OBVIOUS
  <2>2. both \subseteq Nat /\ IsFiniteSet(both) /\ both \subseteq Rows
    <3>1. Rows \subseteq Nat /\ IsFiniteSet(Rows) /\ both \subseteq Rows
      BY <1>8, <1>9, <2>1, HandoffAssumption
    <3> QED BY <3>1, FS_Subset
  <2>3. PICK n, o : n = Cardinality(both) /\ o = Sorted(both)
    OBVIOUS
  <2>4. n \in Nat /\ o \in [1..n -> both]
    BY <2>2, <2>3, SortedList
  <2>5. out = [i \in 1..n |-> Command("dispatch", o[i], period)]
    BY <1>15, <2>1, <2>3
  <2>6. \A i \in 1..n : out[i] \in Cmds
    BY <1>7, <2>2, <2>4, <2>5 DEF Command, Cmds
  <2>7. out \in Seq(Cmds)
    BY <2>4, <2>5, <2>6, IsASeq
  <2>8. both = {} => n = 0
    BY <2>3, FS_EmptySet
  <2> QED BY <2>1, <2>5, <2>7, <2>8
<1>23. s \in Pictures
  <2>1. X \subseteq TaskNames /\ s = Concluded(k, X, jobs)
    BY <1>10, <1>16, <1>a
  <2>2. Concluded(k, X, jobs) \in Pictures
    BY <1>11, <2>1, ConcludedOf
  <2> QED BY <2>1, <2>2
<1> HIDE DEF TaskNames, Tasks, Letters, Pictures, Cmds, Asking
<1>24. SnapshotPlan(m, k, s, t, out, X, open, again)
  BY <1>3, <1>6, <1>8, <1>9, <1>11, <1>16, <1>21, <1>22 DEF SnapshotPlan
<1> QED BY <1>1, <1>3, <1>8, <1>9, <1>10, <1>11, <1>17, <1>20, <1>22, <1>23, <1>24

Claimed(r) == db[r].status = "pending" /\ db[r].claimed
LEMMA TakeOverPlan ==
  ASSUME TypeInv, TakeOver
  PROVE  \E s \in Pictures, list \in Seq(Acts) :
         /\ \A r \in Rows : s.row[r] = IF Claimed(r) THEN "accepted" ELSE IF db[r].status = "pending" THEN "waiting" ELSE "unknown"
         /\ s.sent = {} /\ s.boot = 0 /\ \A r \in Rows : r \in s.held <=> Claimed(r) /\ db[r].item
         /\ \A i \in DOMAIN list : list[i].do = "receive" /\ list[i].row \in Rows /\ Claimed(list[i].row)
         /\ Perform("events", s, task, <<>>, list, TRUE)
         /\ gateway = "down" /\ gateway' = "reading" /\ UNCHANGED <<db, events, machine, period, spent>>
<1>1. PICK claimed : claimed = {r \in Rows : db[r].status = "pending" /\ db[r].claimed}
  OBVIOUS
<1>2. PICK arrived : arrived = {r \in claimed : db[r].item}
  OBVIOUS
<1>3. PICK row : row = [r \in Rows |-> IF r \in claimed THEN "accepted" ELSE IF db[r].status = "pending" THEN "waiting" ELSE "unknown"]
  OBVIOUS
<1>4. PICK s : s = [Blank EXCEPT !.held = arrived, !.row = row]
  OBVIOUS
<1>5. PICK list : list = [i \in 1..Cardinality(arrived) |-> Do("receive", Sorted(arrived)[i])]
  OBVIOUS
<1>6. Perform("events", s, task, <<>>, list, TRUE)
  BY <1>1, <1>2, <1>3, <1>4, <1>5 DEF TakeOver
<1>7. gateway = "down" /\ gateway' = "reading" /\ UNCHANGED <<db, events, machine, period, spent>>
  BY DEF TakeOver, machineVars
<1>8. row \in [Rows -> Dispatches] /\ arrived \in SUBSET Rows
  BY <1>1, <1>2, <1>3 DEF Dispatches
<1>9. s \in Pictures
  BY <1>4, <1>8 DEF Blank, Pictures
<1>10. s.row = row /\ s.sent = {} /\ s.boot = 0 /\ s.held = arrived
  BY <1>4 DEF Blank
<1>11. list \in Seq(Acts) /\ \A i \in DOMAIN list : list[i].do = "receive" /\ list[i].row \in arrived
  <2>1. arrived \subseteq Nat /\ IsFiniteSet(arrived)
    <3>1. Rows \subseteq Nat /\ IsFiniteSet(Rows)
      BY HandoffAssumption
    <3> QED BY <1>8, <3>1, FS_Subset
  <2>2. PICK n, o : n = Cardinality(arrived) /\ o = Sorted(arrived)
    OBVIOUS
  <2>3. n \in Nat /\ o \in [1..n -> arrived]
    BY <2>1, <2>2, SortedList
  <2>4. list = [i \in 1..n |-> Do("receive", o[i])]
    BY <1>5, <2>2
  <2>5. \A i \in 1..n : list[i] \in Acts /\ list[i].do = "receive" /\ list[i].row \in arrived
    BY <1>8, <2>3, <2>4 DEF Do, Acts, Verbs
  <2>6. list \in Seq(Acts) /\ DOMAIN list = 1..n
    BY <2>3, <2>4, <2>5, IsASeq
  <2> QED BY <2>5, <2>6
<1>12. \A r \in Rows : row[r] = IF Claimed(r) THEN "accepted" ELSE IF db[r].status = "pending" THEN "waiting" ELSE "unknown"
  BY <1>1, <1>3 DEF Claimed
<1>13. \A r \in Rows : r \in arrived <=> Claimed(r) /\ db[r].item
  BY <1>1, <1>2 DEF Claimed
<1> HIDE DEF Pictures, Acts, Claimed
<1> QED BY <1>6, <1>7, <1>8, <1>9, <1>10, <1>11, <1>12, <1>13

LEMMA ReadBackPlan ==
  ASSUME TypeInv, ReadBack
  PROVE  \E k \in Pictures :
         /\ k.row = state.row /\ k.boot = machine.said.boot /\ k.sent \subseteq state.sent
         /\ \A r \in Rows : r \in k.held <=> r \in state.held /\ r \in machine.said.jobs
         /\ Perform("events", k, task, <<>>, <<>>, FALSE)
         /\ gateway = "reading" /\ gateway' \in {"sending", "up"} /\ lane["events"] = Idle
         /\ UNCHANGED <<db, events, machine, period, spent>>
<1>1. PICK jobs, boot : jobs = machine.said.jobs /\ boot = machine.said.boot
  OBVIOUS
<1>2. PICK k : k = Keeps(state, jobs, boot, jobs)
  OBVIOUS
<1>3. jobs \in SUBSET Rows /\ boot \in Nat /\ state \in Pictures
  BY <1>1 DEF TypeInv, Machines
<1>4. k \in Pictures /\ k.row = state.row /\ k.boot = boot /\ k.sent \subseteq state.sent
  BY <1>2, <1>3, KeepOf
<1>5. \A r \in Rows : r \in k.held <=> r \in state.held /\ r \in jobs
  BY <1>2, <1>3, HeldKept
<1>6. Perform("events", k, task, <<>>, <<>>, FALSE)
  BY <1>1, <1>2 DEF ReadBack, Keeps
<1>7. /\ gateway = "reading" /\ gateway' \in {"sending", "up"} /\ lane["events"] = Idle
      /\ UNCHANGED <<db, events, machine, period, spent>>
  BY DEF ReadBack, machineVars
<1> HIDE DEF Pictures
<1> QED BY <1>1, <1>4, <1>5, <1>6, <1>7

-----------------------------------------------------------------------------
(* Every step keeps the types                                               *)

LEMMA HandlersKeepTypes ==
  ASSUME TypeInv, setting' = setting
  PROVE  /\ \A l \in Lanes : VerbReturns(l) => TypeInv'
         /\ \A r \in Rows, verb \in Happenings : OnEscalation(r, verb) => TypeInv'
         /\ TakeReply \/ TakeJob \/ TakeSnapshot \/ TakeOver \/ ReadBack => TypeInv'
<1>1. <<>> \in Seq(Cmds) /\ <<>> \in Seq(Acts) /\ state \in Pictures /\ task \in [TaskNames -> Tasks]
      /\ "events" \in Lanes /\ "messages" \in Lanes
  BY DEF TypeInv, Lanes
<1>2. ASSUME NEW l \in Lanes, VerbReturns(l) PROVE TypeInv'
  <2>1. PICK a \in Acts, s \in Pictures, list \in Seq(Acts) :
         /\ lane[l].todo # <<>>
         /\ Perform(l, s, task, <<>>, list, lane[l].pc = "pacing")
         /\ gateway' \in {"reading", "sending", "up"}
         /\ events' = events /\ UNCHANGED <<db, machine, period, spent>>
    BY <1>2, VerbReturnsPlan
  <2>2. l = "messages" => mail # <<>>
    BY <2>1, AtWork
  <2>3. PICK paced : paced = (lane[l].pc = "pacing")
    OBVIOUS
  <2>4. Perform(l, s, task, <<>>, list, paced) /\ paced \in BOOLEAN
    BY <2>1, <2>3
  <2> QED BY <1>1, <2>1, <2>2, <2>4, PerformedTypes
<1>3. ASSUME NEW r \in Rows, NEW verb \in Happenings, OnEscalation(r, verb) PROVE TypeInv'
  <2>1. PICK s \in Pictures, list \in Seq(Acts) :
         /\ gateway = "up" /\ gateway' = gateway /\ events' = events \ {<<r, verb>>}
         /\ Perform("events", s, task, <<>>, list, FALSE)
         /\ UNCHANGED <<db, machine, period, spent>>
    BY <1>3, OnEscalationPlan
  <2>2. events' \subseteq events /\ gateway' \in {"reading", "sending", "up"}
    BY <2>1
  <2> QED BY <1>1, <2>1, <2>2, PerformedTypes
<1>4. ASSUME TakeReply PROVE TypeInv'
  <2>1. PICK s \in Pictures, t \in [TaskNames -> Tasks] :
         /\ Perform("messages", s, t, <<>>, <<>>, FALSE)
         /\ gateway = "up" /\ mail # <<>> /\ UNCHANGED <<db, events, gateway, machine, period, spent>>
    BY <1>4, TakeReplyPlan
  <2>2. events' \subseteq events /\ gateway' \in {"reading", "sending", "up"}
    BY <2>1
  <2> QED BY <1>1, <2>1, <2>2, PerformedTypes
<1>5. ASSUME TakeJob PROVE TypeInv'
  <2>1. PICK s \in Pictures, list \in Seq(Acts) :
         /\ Perform("messages", s, task, <<>>, list, FALSE)
         /\ gateway = "up" /\ mail # <<>> /\ UNCHANGED <<db, events, gateway, machine, period, spent>>
    BY <1>5, TakeJobPlan
  <2>2. events' \subseteq events /\ gateway' \in {"reading", "sending", "up"}
    BY <2>1
  <2> QED BY <1>1, <2>1, <2>2, PerformedTypes
<1>6. ASSUME TakeSnapshot PROVE TypeInv'
  <2>1. PICK s \in Pictures, t \in [TaskNames -> Tasks], out \in Seq(Cmds) : Perform("messages", s, t, out, <<>>, FALSE)
    BY <1>6, TakeSnapshotPlan
  <2>2. gateway = "up" /\ mail # <<>> /\ UNCHANGED <<db, events, gateway, machine, period, spent>>
    BY <1>6, TakeSnapshotPlan
  <2>3. events' \subseteq events /\ gateway' \in {"reading", "sending", "up"}
    BY <2>2
  <2> QED BY <1>1, <2>1, <2>2, <2>3, PerformedTypes
<1>7. ASSUME TakeOver PROVE TypeInv'
  <2>1. PICK s \in Pictures, list \in Seq(Acts) :
         /\ Perform("events", s, task, <<>>, list, TRUE)
         /\ gateway' = "reading" /\ UNCHANGED <<db, events, machine, period, spent>>
    BY <1>7, TakeOverPlan
  <2>2. events' \subseteq events /\ gateway' \in {"reading", "sending", "up"}
    BY <2>1
  <2> QED BY <1>1, <2>1, <2>2, PerformedTypes
<1>8. ASSUME ReadBack PROVE TypeInv'
  <2>1. PICK k \in Pictures :
         /\ Perform("events", k, task, <<>>, <<>>, FALSE)
         /\ gateway' \in {"sending", "up"} /\ UNCHANGED <<db, events, machine, period, spent>>
    BY <1>8, ReadBackPlan
  <2>2. events' \subseteq events /\ gateway' \in {"reading", "sending", "up"}
    BY <2>1
  <2> QED BY <1>1, <2>1, <2>2, PerformedTypes
<1> QED BY <1>2, <1>3, <1>4, <1>5, <1>6, <1>7, <1>8

\* Faults are counted.
LEMMA SpendOf ==
  ASSUME TypeInv
  PROVE  /\ \A f \in FaultKinds : Spend(f) =>
              /\ spent' \in [FaultKinds -> Nat] /\ spent'[f] # 0
              /\ \A g \in FaultKinds \ {f} : spent'[g] = spent[g]
         /\ Late => /\ spent' \in [FaultKinds -> Nat] /\ spent'["timeout"] # 0
                    /\ \A g \in FaultKinds \ {"timeout"} : spent'[g] = spent[g]
<1>1. spent \in [FaultKinds -> Nat] /\ "timeout" \in FaultKinds
  BY DEF TypeInv, FaultKinds
<1>2. ASSUME NEW f \in FaultKinds, Spend(f)
      PROVE  /\ spent' \in [FaultKinds -> Nat] /\ spent'[f] # 0
             /\ \A g \in FaultKinds \ {f} : spent'[g] = spent[g]
  <2>1. PICK n : n = spent[f] + 1
    OBVIOUS
  <2>2. n \in Nat /\ n # 0
    BY <1>1, <2>1
  <2>3. spent' = [spent EXCEPT ![f] = n]
    BY <1>2, <2>1 DEF Spend
  <2> QED BY <1>1, <2>2, <2>3
<1>3. ASSUME Late
      PROVE  /\ spent' \in [FaultKinds -> Nat] /\ spent'["timeout"] # 0
             /\ \A g \in FaultKinds \ {"timeout"} : spent'[g] = spent[g]
  <2>1. CASE spent.timeout = 0
    BY <1>1, <1>2, <1>3, <2>1 DEF Late
  <2>2. CASE spent.timeout # 0
    BY <1>1, <1>3, <2>2 DEF Late
  <2> QED BY <2>1, <2>2
<1> QED BY <1>2, <1>3

\* What the machine does of a command, and what it writes back.
LEMMA RunCommandPlan ==
  ASSUME TypeInv, RunCommand
  PROVE  \E c \in Cmds :
         /\ cmds # <<>> /\ c = cmds[1] /\ cmds' = Tail(cmds) /\ cmds' \in Seq(Cmds)
         /\ machine' \in Machines /\ machine'.boot = machine.boot
         /\ \A r \in Rows \ {c.row} : machine'.job[r] = machine.job[r]
         /\ \/ /\ c.op = "dispatch" /\ machine'.said = machine.said
               /\ \E ok \in BOOLEAN :
                    /\ mail' = Append(mail, [kind |-> "reply", row |-> c.row, of |-> c.of, ok |-> ok])
                    /\ \/ machine'.job[c.row] = machine.job[c.row]
                       \/ ok /\ machine.job[c.row] # "present" /\ machine'.job[c.row] = "queued"
            \/ /\ c.op = "cancel" /\ machine'.said = machine.said
               /\ \/ mail' = mail /\ machine'.job[c.row] = machine.job[c.row]
                  \/ /\ machine.job[c.row] = "queued" /\ machine'.job[c.row] = "none"
                     /\ mail' = Append(mail, Note("withdrawn", c.row))
            \/ /\ c.op = "snapshot" /\ machine'.job[c.row] = machine.job[c.row]
               /\ \/ mail' = mail /\ machine'.said = machine.said
                  \/ mail' = Append(mail, Snapshot(machine)) /\ machine'.said.boot = machine.boot
         /\ UNCHANGED <<setting, db, events, gateway, state, lane, task, period, spent>>
<1>1. cmds # <<>> /\ cmds' = Tail(cmds) /\ UNCHANGED <<setting, db, events, gateway, state, lane, task, period, spent>>
  BY DEF RunCommand, MachineOnly, leaderVars
<1>2. PICK c : c = Head(cmds)
  OBVIOUS
<1>3. c \in Cmds /\ c = cmds[1] /\ Tail(cmds) \in Seq(Cmds)
  <2>1. cmds \in Seq(Cmds)
    BY DEF TypeInv
  <2> QED BY <1>1, <1>2, <2>1, HeadTailProperties
<1>4. c.op \in {"dispatch", "cancel", "snapshot"} /\ c.row \in Rows
  BY <1>3 DEF Cmds
<1>5. machine \in Machines /\ machine.job \in Jobs
  BY DEF TypeInv, Machines
<1>6. PICK before : before = {e \in machine.ran : e.cmd = c}
  OBVIOUS
<1>7. PICK new, ok : /\ new = (before = {})
                     /\ ok = (IF new THEN c.of >= period /\ c.row \notin setting.declined /\ machine.job[c.row] # "present"
                              ELSE \E e \in before : e.ok)
  OBVIOUS
<1>8. new \in BOOLEAN /\ ok \in BOOLEAN /\ (new /\ ok => machine.job[c.row] # "present")
  BY <1>7
<1>9. PICK ran : ran = machine.ran \cup {[cmd |-> c, ok |-> ok]}
  OBVIOUS
<1>10. ran \in SUBSET [cmd : Cmds, ok : BOOLEAN]
  BY <1>3, <1>5, <1>8, <1>9 DEF Machines
<1>11. ASSUME NEW job \in Jobs
       PROVE  LET m == [[machine EXCEPT !.job = job] EXCEPT !.ran = ran]
              IN  m \in Machines /\ m.boot = machine.boot /\ m.said = machine.said /\ m.job = job
  BY <1>5, <1>10 DEF Machines
<1>12. CASE c.op = "dispatch"
  <2>1. PICK job : job = [machine.job EXCEPT ![c.row] = IF new /\ ok THEN "queued" ELSE @]
    OBVIOUS
  <2>2. job \in Jobs /\ \A r \in Rows \ {c.row} : job[r] = machine.job[r]
    BY <1>4, <1>5, <2>1 DEF Jobs
  <2>3. machine' = [[machine EXCEPT !.job = job] EXCEPT !.ran = ran]
    BY ZenonT(30), <1>2, <1>6, <1>7, <1>9, <1>12, <2>1 DEF RunCommand
  <2>4. mail' = Append(mail, [kind |-> "reply", row |-> c.row, of |-> c.of, ok |-> ok])
    BY <1>2, <1>6, <1>7, <1>12 DEF RunCommand
  <2>5. machine' \in Machines /\ machine'.boot = machine.boot /\ machine'.said = machine.said /\ machine'.job = job
    BY <1>11, <2>2, <2>3
  <2>6. job[c.row] = machine.job[c.row] \/ (ok /\ machine.job[c.row] # "present" /\ job[c.row] = "queued")
    BY <1>4, <1>5, <1>8, <2>1 DEF Jobs
  <2> QED BY <1>1, <1>3, <1>4, <1>8, <1>12, <2>2, <2>4, <2>5, <2>6
<1>13. CASE c.op = "cancel"
  <2>1. PICK queued : queued = (machine.job[c.row] = "queued")
    OBVIOUS
  <2>2. PICK job : job = [machine.job EXCEPT ![c.row] = IF new /\ queued THEN "none" ELSE @]
    OBVIOUS
  <2>3. job \in Jobs /\ \A r \in Rows \ {c.row} : job[r] = machine.job[r]
    BY <1>4, <1>5, <2>2 DEF Jobs
  <2>a. PICK v : v = IF new /\ queued THEN "none" ELSE machine.job[c.row]
    OBVIOUS
  <2>b. job = [machine.job EXCEPT ![c.row] = v]
    BY <2>2, <2>a
  <2>c. machine' = [[machine EXCEPT !.job[c.row] = v] EXCEPT !.ran = ran]
    <3>1. CASE new /\ queued
      <4>1. v = "none"
        BY <2>a, <3>1
      <4>2. machine' = [[machine EXCEPT !.job[c.row] = "none"] EXCEPT !.ran = ran]
        BY ZenonT(30), <1>2, <1>6, <1>7, <1>9, <1>13, <2>1, <3>1 DEF RunCommand
      <4> QED BY <4>1, <4>2
    <3>2. CASE ~new
      <4>1. v = machine.job[c.row]
        BY <2>a, <3>2
      <4>2. machine' = [[machine EXCEPT !.job[c.row] = machine.job[c.row]] EXCEPT !.ran = ran]
        BY <1>2, <1>6, <1>7, <1>9, <1>13, <3>2 DEF RunCommand
      <4> QED BY <4>1, <4>2
    <3>3. CASE new /\ ~queued
      <4>1. v = machine.job[c.row]
        BY <2>a, <3>3
      <4>a. machine.job[c.row] # "queued"
        BY <2>1, <3>3
      <4>b. before = {}
        BY <1>7, <3>3
      <4>c. ok = (c.of >= period /\ c.row \notin setting.declined /\ machine.job[c.row] # "present")
        BY <1>7, <3>3
      <4>d. machine' = [[machine EXCEPT !.job[c.row] = @] EXCEPT !.ran = @ \cup
              {[cmd |-> c, ok |-> c.of >= period /\ c.row \notin setting.declined /\ machine.job[c.row] # "present"]}]
        BY ZenonT(30), <1>2, <1>6, <1>13, <4>a, <4>b DEF RunCommand
      <4>2. machine' = [[machine EXCEPT !.job[c.row] = machine.job[c.row]] EXCEPT !.ran = ran]
        BY <1>9, <4>c, <4>d
      <4> QED BY <4>1, <4>2
    <3> QED BY <3>1, <3>2, <3>3
  <2>4. machine' = [[machine EXCEPT !.job = job] EXCEPT !.ran = ran]
    BY <2>b, <2>c
  <2>5. mail' = IF new /\ queued THEN Append(mail, Note("withdrawn", c.row)) ELSE mail
    BY <1>2, <1>6, <1>7, <1>13, <2>1 DEF RunCommand
  <2>6. machine' \in Machines /\ machine'.boot = machine.boot /\ machine'.said = machine.said /\ machine'.job = job
    BY <1>11, <2>3, <2>4
  <2>7. job[c.row] = IF new /\ queued THEN "none" ELSE machine.job[c.row]
    BY <1>4, <1>5, <2>2 DEF Jobs
  <2> QED BY <1>1, <1>3, <1>4, <1>13, <2>1, <2>3, <2>5, <2>6, <2>7
<1>14. CASE c.op = "snapshot"
  <2>1. PICK d : d = [machine EXCEPT !.ran = ran]
    OBVIOUS
  <2>2. d \in Machines /\ d.boot = machine.boot /\ d.said = machine.said /\ d.job = machine.job
    BY <1>5, <1>10, <2>1 DEF Machines
  <2>3. machine' = IF new THEN Saying(d) ELSE machine
    BY <1>2, <1>6, <1>7, <1>9, <1>14, <2>1 DEF RunCommand
  <2>4. mail' = IF new THEN Append(mail, Snapshot(machine)) ELSE mail
    BY <1>2, <1>6, <1>7, <1>14 DEF RunCommand
  <2>5. /\ Saying(d) \in Machines /\ Saying(d).boot = d.boot /\ Saying(d).said.boot = d.boot /\ Saying(d).job = d.job
    BY <2>2 DEF Saying, JobsAt, Machines
  <2> QED BY <1>1, <1>3, <1>4, <1>5, <1>14, <2>2, <2>3, <2>4, <2>5
<1> QED BY <1>4, <1>12, <1>13, <1>14

LEMMA HostsKeepTypes ==
  ASSUME TypeInv, setting' = setting, NEW r \in Rows, Park(r) \/ Withdraw(r)
  PROVE  TypeInv'
<1>1. PICK status \in {"pending", "withdrawn"}, verb \in Happenings :
        db' = [db EXCEPT ![r].status = status] /\ Emit(r, verb)
  BY DEF Park, Withdraw, Happenings
<1>2. db' \in [Rows -> DbRecords]
  BY <1>1 DEF TypeInv, DbRecords, Statuses
<1>3. events' \subseteq Rows \X Happenings /\ (gateway = "down" => events' = events)
  BY <1>1 DEF Emit, TypeInv
<1>4. UNCHANGED <<gateway, state, lane, task, cmds, machine, mail, period, spent>>
  BY DEF Park, Withdraw, leaderVars, machineVars
<1>5. Tasks' = Tasks /\ LanesOK' /\ DownOK'
  BY <1>3, <1>4 DEF Tasks, TypeInv, LanesOK, DownOK
<1> QED BY <1>2, <1>3, <1>4, <1>5 DEF TypeInv

LEMMA LandsKeepTypes ==
  ASSUME TypeInv, setting' = setting, NEW l \in Lanes, VerbLands(l)
  PROVE  TypeInv'
<1>1. PICK a : a = lane[l].todo[1]
  OBVIOUS
<1>2. a.do \in Verbs /\ a.row \in Rows /\ Head(lane[l].todo) = a /\ gateway # "down"
  BY <1>1, AtWork DEF VerbLands
<1>3. Land(a.do, a.row)
  BY <1>2 DEF VerbLands
<1>4. db' \in [Rows -> DbRecords] /\ events' \subseteq Rows \X Happenings
  BY <1>2, <1>3, LandOf
<1>5. lane' = [lane EXCEPT ![l].landed = TRUE] /\ UNCHANGED <<gateway, state, task, cmds, machine, mail, period, spent>>
  BY DEF VerbLands, machineVars
<1>6. LanesOK'
  <2>1. lane \in [Lanes -> LaneRecords] /\ lane[l].todo # <<>>
    BY DEF TypeInv, LanesOK, VerbLands
  <2>2. PICK rec : rec = [lane[l] EXCEPT !.landed = TRUE]
    OBVIOUS
  <2>3. rec \in LaneRecords /\ rec.todo = lane[l].todo
    BY <2>1, <2>2 DEF LaneRecords
  <2>4. lane' = [lane EXCEPT ![l] = rec]
    BY <1>5, <2>2
  <2>5. lane' \in [Lanes -> LaneRecords] /\ \A m \in Lanes : lane'[m] = IF m = l THEN rec ELSE lane[m]
    BY <2>1, <2>3, <2>4
  <2>6. \A m \in Lanes : lane'[m].todo = lane[m].todo /\ (lane'[m].todo = <<>> => lane'[m] = lane[m])
    BY <2>1, <2>3, <2>5
  <2> QED BY <1>5, <2>5, <2>6 DEF TypeInv, LanesOK, Lanes
<1>7. Tasks' = Tasks /\ DownOK'
  BY <1>2, <1>5 DEF Tasks, DownOK
<1> QED BY <1>4, <1>5, <1>6, <1>7 DEF TypeInv

\* A dispatch at work: the gateway is not down.
LEMMA TaskAtWork ==
  ASSUME TypeInv, NEW x \in TaskNames, task[x].pc # "idle"
  PROVE  gateway # "down" /\ x[1] \in Rows /\ x[2] \in Sends /\ x = <<x[1], x[2]>> /\ task[x] \in Tasks
<1>1. gateway # "down"
  BY DEF TypeInv, DownOK, NoTask
<1>2. x[1] \in Rows /\ x[2] \in Sends /\ x = <<x[1], x[2]>>
  BY DEF TaskNames
<1>3. task[x] \in Tasks
  BY DEF TypeInv
<1> QED BY <1>1, <1>2, <1>3

LEMMA TasksKeepTypes ==
  ASSUME TypeInv, setting' = setting, NEW x \in TaskNames, TaskClaims(x) \/ TaskFails(x) \/ TaskEnds(x)
  PROVE  TypeInv'
<1>1. task[x].pc # "idle"
  BY DEF TaskClaims, TaskFails, TaskEnds
<1>2. gateway # "down" /\ x[1] \in Rows /\ task[x] \in Tasks /\ task \in [TaskNames -> Tasks]
  BY <1>1, TaskAtWork DEF TypeInv
<1>3. setting.attempts \in Nat /\ 0 \in 0..setting.attempts
  BY HandoffAssumption DEF TypeInv, Setting
<1>4. NoTask \in Tasks
  BY <1>3 DEF NoTask, Tasks
<1>5. Tasks' = Tasks /\ UNCHANGED <<gateway, lane, machine, mail, period, spent>>
  BY DEF Tasks, TaskClaims, TaskFails, TaskEnds, machineVars
<1>6. LanesOK' /\ DownOK'
  BY <1>2, <1>5 DEF TypeInv, LanesOK, DownOK
<1>7. CASE TaskClaims(x)
  <2>1. Land("claim", x[1]) /\ task' = [task EXCEPT ![x] = NoTask] /\ UNCHANGED <<state, cmds>>
    BY <1>7 DEF TaskClaims
  <2>2. db' \in [Rows -> DbRecords] /\ events' \subseteq Rows \X Happenings
    BY <1>2, <2>1, LandOf
  <2>3. task' \in [TaskNames -> Tasks]
    BY <1>2, <1>4, <2>1
  <2> QED BY <1>5, <1>6, <2>1, <2>2, <2>3 DEF TypeInv
<1>8. CASE TaskFails(x)
  <2>1. PICK verb \in {"fail", "refuse"} : Land(verb, x[1])
    BY <1>8 DEF TaskFails
  <2>2. db' \in [Rows -> DbRecords] /\ events' \subseteq Rows \X Happenings
    BY <1>2, <2>1, LandOf DEF Verbs
  <2>3. PICK t : t = [task[x] EXCEPT !.pc = "failed", !.done = (db' # db)]
    OBVIOUS
  <2>4. t \in Tasks
    BY <1>2, <2>3 DEF Tasks
  <2>5. task' = [task EXCEPT ![x] = t] /\ UNCHANGED <<state, cmds>>
    BY <1>8, <2>3 DEF TaskFails
  <2>6. task' \in [TaskNames -> Tasks]
    BY <1>2, <2>4, <2>5
  <2> QED BY <1>5, <1>6, <2>2, <2>5, <2>6 DEF TypeInv
<1>9. CASE TaskEnds(x)
  <2>1. state' = Shut(state, x[1]) /\ task' = [task EXCEPT ![x] = NoTask] /\ UNCHANGED <<db, events>>
    BY <1>9 DEF TaskEnds
  <2>2. state' \in Pictures
    BY <1>2, <2>1, ShutOf DEF TypeInv
  <2>3. task' \in [TaskNames -> Tasks]
    BY <1>2, <1>4, <2>1
  <2>4. cmds' = cmds \/ cmds' = Append(cmds, Cancel(x[1]))
    BY <1>9 DEF TaskEnds
  <2>5. Cancel(x[1]) \in Cmds /\ cmds \in Seq(Cmds)
    BY <1>2 DEF Cancel, Command, Cmds, TypeInv
  <2>6. cmds' \in Seq(Cmds)
    BY <2>4, <2>5, AppendProperties
  <2> QED BY <1>5, <1>6, <2>1, <2>2, <2>3, <2>6 DEF TypeInv
<1> QED BY <1>7, <1>8, <1>9

\* A late answer: what it is asked again.
LEMMA LateKeepsTypes ==
  ASSUME TypeInv, setting' = setting, NEW x \in TaskNames, ReplyLate(x) \/ StatusLate(x)
  PROVE  TypeInv'
<1>1. task[x].pc # "idle"
  BY DEF ReplyLate, StatusLate
<1>2. gateway # "down" /\ x[1] \in Rows /\ task[x] \in Tasks /\ task \in [TaskNames -> Tasks]
  BY <1>1, TaskAtWork DEF TypeInv
<1>3. setting.attempts \in Nat
  BY HandoffAssumption DEF TypeInv, Setting
<1>4. Tasks' = Tasks /\ UNCHANGED <<db, events, gateway, lane, machine, mail, period>>
  BY DEF Tasks, ReplyLate, StatusLate, machineVars
<1>5. LanesOK' /\ DownOK'
  BY <1>2, <1>4 DEF TypeInv, LanesOK, DownOK
<1>6. spent' \in [FaultKinds -> Nat]
  BY SpendOf DEF ReplyLate, StatusLate
<1>7. CASE ReplyLate(x)
  <2>1. PICK again : again = (task[x].attempt < setting.attempts)
    OBVIOUS
  <2>2. PICK n, pc : n = (IF again THEN task[x].attempt + 1 ELSE task[x].attempt) /\ pc = (IF again THEN task[x].pc ELSE "status")
    OBVIOUS
  <2>3. n \in 0..setting.attempts
    <3>1. PICK k, most : k = task[x].attempt /\ most = setting.attempts
      OBVIOUS
    <3>2. k \in 0..most /\ most \in Nat
      BY <1>2, <1>3, <3>1 DEF Tasks
    <3>3. n = IF k < most THEN k + 1 ELSE k
      BY <2>1, <2>2, <3>1
    <3>4. n \in 0..most
      BY <3>2, <3>3
    <3> QED BY <3>1, <3>4
  <2>4. PICK t : t = [task[x] EXCEPT !.attempt = n, !.pc = pc]
    OBVIOUS
  <2>5. t \in Tasks
    BY <1>2, <2>2, <2>3, <2>4 DEF Tasks
  <2>6. task' = [task EXCEPT ![x].attempt = n, ![x].pc = pc]
    BY <1>7, <2>1, <2>2 DEF ReplyLate
  <2>7. task' = [task EXCEPT ![x] = t]
    BY <1>2, <2>4, <2>6 DEF Tasks
  <2>8. task' \in [TaskNames -> Tasks]
    BY <1>2, <2>5, <2>7
  <2>9. PICK op : op = IF again THEN "dispatch" ELSE "snapshot"
    OBVIOUS
  <2>10. cmds' = Append(cmds, Command(op, x[1], task[x].of)) /\ state' = state
    BY <1>7, <2>1, <2>9 DEF ReplyLate
  <2>11. Command(op, x[1], task[x].of) \in Cmds /\ cmds \in Seq(Cmds)
    BY <1>2, <2>9 DEF Command, Cmds, Tasks, TypeInv
  <2>12. cmds' \in Seq(Cmds)
    BY <2>10, <2>11, AppendProperties
  <2> QED BY <1>4, <1>5, <1>6, <2>8, <2>10, <2>12 DEF TypeInv
<1>8. CASE StatusLate(x)
  <2>1. PICK X : X = {x}
    OBVIOUS
  <2>2. state' = Concluded(state, X, {}) /\ task' = Answered(state, X, {}, FALSE) /\ cmds' = cmds
    BY <1>8, <2>1 DEF StatusLate
  <2>3. X \subseteq TaskNames /\ FALSE \in BOOLEAN /\ state \in Pictures
    BY <2>1 DEF TypeInv
  <2>4. state' \in Pictures /\ task' \in [TaskNames -> Tasks]
    BY <2>2, <2>3, ConcludedOf, AnsweredOf
  <2> QED BY <1>4, <1>5, <1>6, <2>2, <2>4 DEF TypeInv
<1> QED BY <1>7, <1>8

LEMMA MachineKeepsTypes ==
  ASSUME TypeInv, setting' = setting
  PROVE  /\ RunCommand => TypeInv'
         /\ \A r \in Rows : Arrive(r) \/ Release(r) => TypeInv'
         /\ Beat \/ Restart => TypeInv'
<1>1. mail \in Seq(Letters) /\ machine \in Machines /\ machine.job \in Jobs
  BY DEF TypeInv, Machines
<1>2. ASSUME machine' \in Machines, NEW letter \in Letters, mail' = mail \/ mail' = Append(mail, letter), cmds' \in Seq(Cmds),
             spent' \in [FaultKinds -> Nat], UNCHANGED <<db, events, gateway, state, lane, task, period>>
      PROVE  TypeInv'
  <2>1. mail' \in Seq(Letters) /\ (mail # <<>> => mail' # <<>>)
    BY <1>1, <1>2, AppendProperties
  <2>2. Tasks' = Tasks /\ LanesOK' /\ DownOK'
    BY <1>2, <2>1 DEF Tasks, TypeInv, LanesOK, DownOK
  <2> QED BY <1>2, <2>1, <2>2 DEF TypeInv
<1>3. Snapshot(machine) \in Letters
  BY <1>1 DEF Snapshot, JobsAt, Letters, Machines
<1>4. ASSUME RunCommand PROVE TypeInv'
  <2>1. PICK c \in Cmds :
         /\ cmds' \in Seq(Cmds) /\ machine' \in Machines
         /\ \/ \E ok \in BOOLEAN : mail' = Append(mail, [kind |-> "reply", row |-> c.row, of |-> c.of, ok |-> ok])
            \/ mail' = mail \/ mail' = Append(mail, Note("withdrawn", c.row)) \/ mail' = Append(mail, Snapshot(machine))
         /\ UNCHANGED <<setting, db, events, gateway, state, lane, task, period, spent>>
    BY <1>4, RunCommandPlan
  <2>2. \A ok \in BOOLEAN : [kind |-> "reply", row |-> c.row, of |-> c.of, ok |-> ok] \in Letters
    BY DEF Letters, Cmds
  <2>3. Note("withdrawn", c.row) \in Letters
    BY DEF Note, Letters, Cmds
  <2>4. \E letter \in Letters : mail' = mail \/ mail' = Append(mail, letter)
    BY <1>3, <2>1, <2>2, <2>3
  <2>5. spent' \in [FaultKinds -> Nat]
    BY <2>1 DEF TypeInv
  <2> QED BY <1>2, <2>1, <2>4, <2>5
<1>5. ASSUME NEW r \in Rows, Arrive(r) \/ Release(r) PROVE TypeInv'
  <2>1. PICK kind \in {"misread", "arrived", "released"} : mail' = Append(mail, Note(kind, r))
    BY <1>5 DEF Arrive, Release
  <2>2. Note(kind, r) \in Letters
    BY DEF Note, Letters
  <2>3. machine' \in Machines
    BY <1>1, <1>5 DEF Arrive, Release, Machines, Jobs
  <2>4. UNCHANGED <<db, events, gateway, state, lane, task, period, cmds, spent>>
    BY <1>5 DEF Arrive, Release, MachineOnly, leaderVars
  <2>5. cmds' \in Seq(Cmds) /\ spent' \in [FaultKinds -> Nat]
    BY <2>4 DEF TypeInv
  <2> QED BY <1>2, <2>1, <2>2, <2>3, <2>4, <2>5
<1>6. ASSUME Beat \/ Restart PROVE TypeInv'
  <2>1. PICK fresh : fresh = [machine EXCEPT !.job = [r \in Rows |-> "none"], !.ran = {}, !.boot = @ + 1]
    OBVIOUS
  <2>2. fresh \in Machines
    <3>1. PICK b, job : b = machine.boot + 1 /\ job = [r \in Rows |-> "none"]
      OBVIOUS
    <3>2. b \in Nat /\ job \in Jobs
      BY <1>1, <3>1 DEF Machines, Jobs
    <3>3. fresh = [machine EXCEPT !.job = job, !.ran = {}, !.boot = b]
      BY <2>1, <3>1
    <3> QED BY <1>1, <3>2, <3>3 DEF Machines
  <2>3. PICK m \in Machines : machine' = Saying(m) /\ mail' = Append(mail, Snapshot(m))
    BY <1>1, <1>6, <2>1, <2>2 DEF Beat, Restart
  <2>4. Saying(m) \in Machines /\ Snapshot(m) \in Letters
    BY DEF Saying, Snapshot, JobsAt, Machines, Letters
  <2>5. UNCHANGED <<db, events, gateway, state, lane, task, period, cmds>>
    BY <1>6 DEF Beat, Restart, MachineOnly, leaderVars
  <2>6. spent' \in [FaultKinds -> Nat]
    BY <1>6, SpendOf DEF Beat, Restart, FaultKinds
  <2>7. cmds' \in Seq(Cmds)
    BY <2>5 DEF TypeInv
  <2> QED BY <1>2, <2>3, <2>4, <2>5, <2>6, <2>7
<1> QED BY <1>4, <1>5, <1>6

LEMMA FaultsKeepTypes ==
  ASSUME TypeInv, setting' = setting, Crash \/ EndPeriod
  PROVE  TypeInv'
<1>1. spent' \in [FaultKinds -> Nat]
  BY SpendOf DEF Crash, EndPeriod, FaultKinds
<1>2. Tasks' = Tasks
  BY DEF Tasks
<1>3. CASE Crash
  <2>1. /\ gateway' = "down" /\ state' = Blank /\ events' = {} /\ lane' = [l \in Lanes |-> Idle]
        /\ task' = [x \in TaskNames |-> NoTask] /\ UNCHANGED <<db, cmds, machine, mail, period>>
    BY <1>3 DEF Crash, machineVars, TypeInv
  <2>2. setting.attempts \in Nat /\ 0 \in 0..setting.attempts
    BY HandoffAssumption DEF TypeInv, Setting
  <2>3. NoTask \in Tasks
    BY <2>2 DEF NoTask, Tasks
  <2>4. LanesOK' /\ DownOK' /\ state' \in Pictures
    BY <2>1, BlankOf, IdleOf DEF LanesOK, DownOK, Lanes
  <2> QED BY <1>1, <1>2, <2>1, <2>3, <2>4 DEF TypeInv
<1>4. CASE EndPeriod
  <2>1. period' = period + 1 /\ UNCHANGED <<db, events, gateway, state, lane, task, cmds, machine, mail>>
    BY <1>4 DEF EndPeriod, leaderVars
  <2>2. LanesOK' /\ DownOK' /\ period' \in Nat
    BY <2>1 DEF TypeInv, LanesOK, DownOK
  <2> QED BY <1>1, <1>2, <2>1, <2>2 DEF TypeInv
<1> QED BY <1>3, <1>4

LEMMA InitTyped == HandoffInit => TypeInv
<1> SUFFICES ASSUME HandoffInit PROVE TypeInv
  OBVIOUS
<1>1. /\ setting \in Settings /\ db = [r \in Rows |-> [status |-> "none", claimed |-> FALSE, item |-> FALSE]]
      /\ events = {} /\ gateway = "down" /\ state = Blank /\ lane = [l \in Lanes |-> Idle]
      /\ task = [x \in TaskNames |-> NoTask] /\ cmds = <<>> /\ mail = <<>> /\ period = 1
  BY DEF HandoffInit, TaskNames
<1>2. setting.attempts \in Nat /\ 0 \in 0..setting.attempts
  BY <1>1, HandoffAssumption DEF Setting
<1>3. NoTask \in Tasks /\ state \in Pictures
  BY <1>1, <1>2, BlankOf DEF NoTask, Tasks
<1>4. LanesOK /\ DownOK
  BY <1>1, IdleOf DEF LanesOK, DownOK, Lanes
<1>5. machine \in Machines
  BY DEF HandoffInit, Machines, Jobs
<1>6. spent \in [FaultKinds -> Nat]
  BY DEF HandoffInit
<1>7. db \in [Rows -> DbRecords]
  BY <1>1 DEF DbRecords, Statuses
<1> QED BY <1>1, <1>3, <1>4, <1>5, <1>6, <1>7 DEF TypeInv

LEMMA TypesKept == TypeInv /\ [HandoffNext]_handoffVars => TypeInv'
<1> SUFFICES ASSUME TypeInv, [HandoffNext]_handoffVars PROVE TypeInv'
  OBVIOUS
<1>1. CASE UNCHANGED handoffVars
  <2>1. Tasks' = Tasks
    BY <1>1 DEF handoffVars, Tasks
  <2> QED BY <1>1, <2>1 DEF handoffVars, TypeInv, LanesOK, DownOK
<1>2. ASSUME HandoffNext PROVE setting' = setting
  BY <1>2 DEF HandoffNext, GatewayStep, Takeover, HostStep, UnitMoves, FaultStep, RunCommand
<1>3. DOMAIN task = TaskNames /\ DOMAIN Fitting = Happenings
  BY DEF TypeInv, Fitting, Happenings
<1>4. CASE GatewayStep
  BY <1>2, <1>3, <1>4, HandlersKeepTypes, LandsKeepTypes, TasksKeepTypes DEF GatewayStep, HandoffNext
<1>5. CASE Takeover
  BY <1>2, <1>5, HandlersKeepTypes DEF Takeover, HandoffNext
<1>6. CASE HostStep
  BY <1>2, <1>6, HostsKeepTypes DEF HostStep, HandoffNext
<1>7. CASE RunCommand \/ UnitMoves
  BY <1>2, <1>7, MachineKeepsTypes DEF UnitMoves, HandoffNext
<1>8. CASE FaultStep
  BY <1>2, <1>3, <1>8, LateKeepsTypes, MachineKeepsTypes, FaultsKeepTypes DEF FaultStep, HandoffNext
<1> QED BY <1>1, <1>4, <1>5, <1>6, <1>7, <1>8 DEF HandoffNext

\* The variables keep their types, and no dispatch is asked for more often than
\* dispatchAttempts, whatever is late, lost or restarted (dispatcher.ts).
THEOREM HandoffTypeCorrect == HandoffSpec => []HandoffTypeOK
<1>1. TypeInv => HandoffTypeOK
  <2> SUFFICES ASSUME TypeInv PROVE HandoffTypeOK
    OBVIOUS
  <2>1. DOMAIN Fitting = Happenings /\ DOMAIN task = TaskNames
    BY DEF Fitting, Happenings, TypeInv
  <2>2. /\ state.row \in [Rows -> Dispatches]
        /\ state.held \cup state.sent \cup state.over \cup state.jobs \subseteq Rows
    BY DEF TypeInv, Pictures
  <2>3. \A l \in Lanes : lane[l].pc \in {"idle", "acting", "pacing"}
    BY DEF TypeInv, LanesOK, LaneRecords
  <2>4. \A x \in TaskNames :
          task[x].pc \in {"idle", "reply", "status", "claim", "fail", "failed"} /\ task[x].attempt \in 0..setting.attempts
    BY DEF TypeInv, Tasks
  <2>5. machine.job \in [Rows -> {"none", "queued", "present"}]
    BY DEF TypeInv, Machines, Jobs
  <2> QED BY <2>1, <2>2, <2>3, <2>4, <2>5 DEF TypeInv, HandoffTypeOK, DbRecords
<1> QED BY InitTyped, TypesKept, <1>1, PTL DEF HandoffSpec

-----------------------------------------------------------------------------
(* No row is forgotten                                                      *)

\* What the gateway's work depends on: the rows, which of them it refuses, and
\* whether the machine restarted, or an answer was late.
World == [db |-> db, unfit |-> setting.unfit, restarted |-> spent["restart"] # 0, late |-> spent["timeout"] # 0]
Awaits(w, r) == w.db[r].status = "pending"
Over(w, r) == w.db[r].status \notin {"none", "pending"}
Fresh(w, r) == Awaits(w, r) => ~w.db[r].claimed
Closing == {"receive", "fail", "refuse"}
InFlight == {"reply", "status"}
\* the rows whose end has landed and whose answer is on its way
Landed == {r \in Rows : \E l \in Lanes : lane[l].landed /\ lane[l].todo[1].do \in Closing /\ lane[l].todo[1].row = r}

\* A row that ended is open only while an event, an answer or a task will tell.
Told(w, t, ev, done, r) ==
  \/ \E verb \in {"ended", "resolved"} : <<r, verb>> \in ev /\ w.db[r].status \in Fitting[verb]
  \/ r \in done
  \/ \E k \in Sends : t[<<r, k>>].pc = "failed"
RowInStep(w, s, t, ev, done, r) ==
  /\ s.row[r] = "unknown" /\ Awaits(w, r) => <<r, "created">> \in ev
  /\ s.row[r] # "unknown" => w.db[r].status # "none"
  /\ s.row[r] = "closed" => Over(w, r)
  /\ IsOpen(s, r) => Awaits(w, r) \/ Told(w, t, ev, done, r)
  /\ s.row[r] \in {"unknown", "waiting"} => Fresh(w, r) /\ r \notin s.sent
  /\ r \in w.unfit => s.row[r] \notin Sent /\ r \notin s.sent
RowsInStep(w, s, t, ev, done) == \A r \in Rows : RowInStep(w, s, t, ev, done, r)
\* The dispatches of a row: one asks for the open row, none while another fails it;
\* the row is claimed at the end of its only one, as long as no machine restarts.
TaskInStep(w, s, t, r, k) == t[<<r, k>>].pc # "idle" =>
  /\ s.row[r] \notin {"unknown", "waiting"} /\ r \notin w.unfit
  /\ t[<<r, k>>].pc = "failed" => Over(w, r)
  /\ k = "first" /\ t[<<r, k>>].pc \in InFlight => s.row[r] \in {"pending", "closed"}
  /\ k = "first" /\ t[<<r, k>>].pc \in InFlight /\ t[<<r, "again">>].pc \in InFlight => t[<<r, "again">>].ended
  /\ t[<<r, k>>].pc \in {"fail", "failed"} =>
       /\ s.row[r] \in {"refused", "closed"}
       /\ \A j \in Sends : t[<<r, j>>].pc \in InFlight => t[<<r, j>>].ended
  /\ ~w.restarted => k = "first" /\ Fresh(w, r)
  /\ ~w.late => t[<<r, k>>].pc # "status" /\ (t[<<r, k>>].pc = "fail" => t[<<r, k>>].refused)
TasksInStep(w, s, t) == \A r \in Rows, k \in Sends : TaskInStep(w, s, t, r, k)
ActInStep(w, s, t, a) ==
  /\ s.row[a.row] # "unknown"
  /\ a.do = "refuse" => a.row \in w.unfit
  /\ a.do = "dispatch" =>
       /\ s.row[a.row] \in {"pending", "closed"} /\ a.row \notin w.unfit /\ a.row \notin s.sent
       /\ \A k \in Sends : t[<<a.row, k>>].pc = "idle"
       /\ ~w.restarted => Fresh(w, a.row)
ActsInStep(w, s, t, td) == \A l \in Lanes : \A i \in DOMAIN td[l] : ActInStep(w, s, t, td[l][i])
Apart(td) == \A l, m \in Lanes : \A i \in DOMAIN td[l], j \in DOMAIN td[m] :
  td[l][i].do = "dispatch" /\ td[m][j].do = "dispatch" /\ td[m][j].row = td[l][i].row => l = m /\ i = j
InStep(w, s, t, td, ev, done) ==
  /\ RowsInStep(w, s, t, ev, done)
  /\ TasksInStep(w, s, t)
  /\ ActsInStep(w, s, t, td) /\ Apart(td)
  /\ ~w.restarted => s.boot \in {0, 1}
  /\ \A r \in done : Over(w, r)

\* What outlives a gateway.
Kept ==
  /\ \A r \in Rows : db[r].claimed => db[r].status # "none" /\ r \notin setting.unfit
  /\ spent["restart"] = 0 => /\ machine.boot = 1 /\ machine.said.boot = 1
                             /\ \A i \in DOMAIN mail : mail[i].kind = "snapshot" => mail[i].boot = 1
\* Where a gateway gives up on a machine that restarted, rows stay behind; a
\* takeover beside busy hosts is not covered.
Orderly == ~setting.busyTakeover /\ (spent["restart"] = 0 \/ spent["timeout"] = 0)
HandoffInv ==
  /\ TypeInv
  /\ Orderly => Kept /\ (gateway # "down" => InStep(World, state, task, Todo, events, Landed))

\* A handler's list begins: what it dispatches is under way, the rest is ahead.
LEMMA ListBegins ==
  ASSUME TypeInv, NEW w, NEW s \in Pictures, NEW t \in [TaskNames -> Tasks], NEW td \in [Lanes -> Seq(Acts)],
         NEW ev, NEW done, NEW l \in Lanes, InStep(w, s, t, td, ev, done)
  PROVE  InStep(w, s, Begun(t, td[l]), [td EXCEPT ![l] = Rest(td[l])], ev, done)
<1>1. PICK list, b, rest : list = td[l] /\ b = Begun(t, list) /\ rest = Rest(list)
  OBVIOUS
<1>2. PICK u, td2 : u = Upto(list) /\ td2 = [td EXCEPT ![l] = rest]
  OBVIOUS
<1>3. list \in Seq(Acts)
  BY <1>1
<1>4. u \in 0..Len(list) /\ Len(list) \in Nat /\ DOMAIN list = 1..Len(list)
  BY <1>2, <1>3, Cut
<1>5. /\ rest \in Seq(Acts) /\ DOMAIN rest = 1..(Len(list) - u)
      /\ \A i \in DOMAIN rest : u + i \in DOMAIN list /\ rest[i] = list[u + i]
  BY <1>1, <1>2, <1>3, RestOf
<1>6. PICK starts : starts = Starts(list)
  OBVIOUS
<1>7. \A q \in starts : \E i \in 1..u : i \in DOMAIN list /\ list[i].do = "dispatch" /\ list[i].row = q
  BY <1>2, <1>4, <1>6 DEF Starts
<1>8. \A i \in DOMAIN list : ActInStep(w, s, t, list[i])
  BY <1>1 DEF InStep, ActsInStep
<1>9. starts \subseteq Rows /\ \A q \in starts :
        /\ s.row[q] \in {"pending", "closed"} /\ q \notin w.unfit /\ q \notin s.sent
        /\ \A k \in Sends : t[<<q, k>>].pc = "idle"
        /\ ~w.restarted => Fresh(w, q)
  <2>1. starts \subseteq Rows
    BY <1>3, <1>6, BegunOf
  <2>2. SUFFICES ASSUME NEW q \in starts
                 PROVE  /\ s.row[q] \in {"pending", "closed"} /\ q \notin w.unfit /\ q \notin s.sent
                        /\ \A k \in Sends : t[<<q, k>>].pc = "idle"
                        /\ ~w.restarted => Fresh(w, q)
    BY <2>1
  <2>3. PICK i \in DOMAIN list : list[i].do = "dispatch" /\ list[i].row = q
    BY <1>7
  <2>4. ActInStep(w, s, t, list[i])
    BY <1>8
  <2> QED BY <2>3, <2>4 DEF ActInStep
<1>10. \A q \in Rows, k \in Sends : b[<<q, k>>] = IF k = "first" /\ q \in starts THEN Asking(FALSE) ELSE t[<<q, k>>]
  <2>1. \A x \in TaskNames : b[x] = IF x[2] = "first" /\ x[1] \in starts THEN Asking(FALSE) ELSE t[x]
    BY ZenonT(30), <1>1, <1>3, <1>6, BegunOf
  <2> SUFFICES ASSUME NEW q \in Rows, NEW k \in Sends
               PROVE  b[<<q, k>>] = IF k = "first" /\ q \in starts THEN Asking(FALSE) ELSE t[<<q, k>>]
    OBVIOUS
  <2>2. PICK x : x = <<q, k>>
    OBVIOUS
  <2>3. x \in TaskNames /\ x[1] = q /\ x[2] = k
    BY <2>2 DEF TaskNames
  <2> QED BY <2>1, <2>2, <2>3
<1>11. Asking(FALSE).pc = "reply" /\ ~Asking(FALSE).ended
  BY DEF Asking, NoTask
<1>12. RowsInStep(w, s, b, ev, done)
  <2>1. \A r \in Rows : Told(w, t, ev, done, r) => Told(w, b, ev, done, r)
    BY <1>9, <1>10 DEF Told
  <2> HIDE DEF Told
  <2> QED BY <2>1 DEF InStep, RowsInStep, RowInStep
<1>13. TasksInStep(w, s, b)
  <2> SUFFICES ASSUME NEW r \in Rows, NEW k \in Sends PROVE TaskInStep(w, s, b, r, k)
    BY DEF TasksInStep
  <2>1. TaskInStep(w, s, t, r, k)
    BY DEF InStep, TasksInStep
  <2>2. CASE r \in starts
    <3>1. s.row[r] \in {"pending", "closed"} /\ r \notin w.unfit /\ \A j \in Sends : t[<<r, j>>].pc = "idle"
      BY <1>9, <2>2
    <3>2. ~w.restarted => Fresh(w, r)
      BY <1>9, <2>2
    <3>3. b[<<r, "first">>].pc = "reply" /\ b[<<r, "again">>].pc = "idle"
      BY <1>10, <1>11, <2>2, <3>1 DEF Sends
    <3> QED BY <3>1, <3>2, <3>3 DEF TaskInStep, Sends, InFlight
  <2>3. CASE r \notin starts
    <3>1. \A j \in Sends : b[<<r, j>>] = t[<<r, j>>]
      BY <1>10, <2>3
    <3>2. "again" \in Sends
      BY DEF Sends
    <3> HIDE DEF Sends
    <3> QED BY <2>1, <3>1, <3>2 DEF TaskInStep
  <2> QED BY <2>2, <2>3
<1>14. \A m \in Lanes : \A i \in DOMAIN td2[m] :
         \E j \in DOMAIN td[m] : td2[m][i] = td[m][j] /\ (m = l => j = u + i) /\ (m # l => j = i)
  <2> SUFFICES ASSUME NEW m \in Lanes, NEW i \in DOMAIN td2[m]
               PROVE  \E j \in DOMAIN td[m] : td2[m][i] = td[m][j] /\ (m = l => j = u + i) /\ (m # l => j = i)
    OBVIOUS
  <2>1. CASE m = l
    <3>1. td2[m] = rest /\ td[m] = list
      BY <1>1, <1>2, <2>1
    <3>2. u + i \in DOMAIN list /\ rest[i] = list[u + i]
      BY <1>5, <3>1
    <3> QED BY <2>1, <3>1, <3>2
  <2>2. CASE m # l
    BY <1>2, <2>2
  <2> QED BY <2>1, <2>2
<1>15. ActsInStep(w, s, b, td2)
  <2> SUFFICES ASSUME NEW m \in Lanes, NEW i \in DOMAIN td2[m] PROVE ActInStep(w, s, b, td2[m][i])
    BY DEF ActsInStep
  <2>1. PICK j \in DOMAIN td[m] : td2[m][i] = td[m][j] /\ (m = l => j = u + i) /\ (m # l => j = i)
    BY <1>14
  <2>2. PICK a : a = td[m][j]
    OBVIOUS
  <2>3. ActInStep(w, s, t, a)
    BY <2>2 DEF InStep, ActsInStep
  <2>4. a \in Acts
    BY <2>2, ElementOfSeq, LenProperties
  <2>5. a.do = "dispatch" => a.row \notin starts
    <3> SUFFICES ASSUME a.do = "dispatch", a.row \in starts PROVE FALSE
      OBVIOUS
    <3>1. PICK h \in 1..u : h \in DOMAIN list /\ list[h].do = "dispatch" /\ list[h].row = a.row
      BY <1>7
    <3>2. m = l /\ j = h
      BY <1>1, <2>2, <3>1 DEF InStep, Apart
    <3>3. i \in 1..(Len(list) - u)
      BY <1>1, <1>2, <1>5, <3>2
    <3>4. h = u + i
      BY <2>1, <3>2
    <3> QED BY <1>4, <3>1, <3>3, <3>4
  <2>6. a.do = "dispatch" => \A k \in Sends : b[<<a.row, k>>].pc = "idle"
    BY <1>10, <2>3, <2>4, <2>5 DEF ActInStep, Acts
  <2>7. ActInStep(w, s, b, a)
    BY <2>3, <2>6 DEF ActInStep
  <2> QED BY <2>1, <2>2, <2>7
<1>16. Apart(td2)
  <2> SUFFICES ASSUME NEW m \in Lanes, NEW n \in Lanes, NEW i \in DOMAIN td2[m], NEW j \in DOMAIN td2[n],
                      td2[m][i].do = "dispatch", td2[n][j].do = "dispatch", td2[n][j].row = td2[m][i].row
               PROVE  m = n /\ i = j
    BY DEF Apart
  <2>1. PICK i2 \in DOMAIN td[m] : td2[m][i] = td[m][i2] /\ (m = l => i2 = u + i) /\ (m # l => i2 = i)
    BY <1>14
  <2>2. PICK j2 \in DOMAIN td[n] : td2[n][j] = td[n][j2] /\ (n = l => j2 = u + j) /\ (n # l => j2 = j)
    BY <1>14
  <2>3. m = n /\ i2 = j2
    BY <2>1, <2>2 DEF InStep, Apart
  <2>4. CASE m = l
    <3>1. i \in 1..(Len(list) - u) /\ j \in 1..(Len(list) - u)
      BY <1>1, <1>2, <1>5, <2>3, <2>4
    <3>2. u + i = u + j
      BY <2>1, <2>2, <2>3, <2>4
    <3> QED BY <1>4, <2>3, <3>1, <3>2
  <2>5. CASE m # l
    BY <2>1, <2>2, <2>3, <2>5
  <2> QED BY <2>4, <2>5
<1>17. (~w.restarted => s.boot \in {0, 1}) /\ \A r \in done : Over(w, r)
  BY DEF InStep
<1>18. InStep(w, s, b, td2, ev, done)
  BY <1>12, <1>13, <1>15, <1>16, <1>17 DEF InStep
<1> QED BY <1>1, <1>2, <1>18

\* Rows are admitted: those that wait, or that the gateway just heard of.
LEMMA Admits ==
  ASSUME TypeInv, NEW w, w.unfit = setting.unfit, NEW s \in Pictures, NEW t \in [TaskNames -> Tasks],
         NEW td \in [Lanes -> Seq(Acts)], NEW ev, NEW done, NEW l \in Lanes, NEW R, R \subseteq Rows,
         \A r \in R : s.row[r] = "waiting" \/ (s.row[r] = "unknown" /\ Awaits(w, r)),
         td[l] = <<>>, InStep(w, s, t, td, ev, done)
  PROVE  InStep(w, Admit(s, R), t, [td EXCEPT ![l] = Actions(R)], ev, done)
<1>1. PICK n, list, td2 : n = Admit(s, R) /\ list = Actions(R) /\ td2 = [td EXCEPT ![l] = list]
  OBVIOUS
<1>2. /\ \A r \in Rows : n.row[r] = IF r \notin R THEN s.row[r] ELSE IF r \in w.unfit THEN "refused" ELSE "pending"
      /\ n.sent = s.sent /\ n.boot = s.boot
  BY <1>1, AdmitOf
<1>3. /\ list \in Seq(Acts)
      /\ \A i \in DOMAIN list : list[i].row \in R /\ list[i].do = IF list[i].row \in w.unfit THEN "refuse" ELSE "dispatch"
      /\ \A i, j \in DOMAIN list : list[i].row = list[j].row => i = j
  BY <1>1, ActionsOf
<1>4. td2[l] = list /\ \A m \in Lanes \ {l} : td2[m] = td[m]
  BY <1>1
<1>5. \A m \in Lanes : \A i \in DOMAIN td[m] : td[m][i] \in Acts /\ td[m][i].row \in Rows /\ ActInStep(w, s, t, td[m][i])
  <2> SUFFICES ASSUME NEW m \in Lanes, NEW i \in DOMAIN td[m]
               PROVE  td[m][i] \in Acts /\ td[m][i].row \in Rows /\ ActInStep(w, s, t, td[m][i])
    OBVIOUS
  <2>1. td[m][i] \in Acts
    BY ElementOfSeq, LenProperties
  <2> QED BY <2>1 DEF Acts, InStep, ActsInStep
<1>6. \A r \in R :
        /\ \A k \in Sends : t[<<r, k>>].pc = "idle"
        /\ Fresh(w, r) /\ r \notin s.sent /\ w.db[r].status # "none"
        /\ IsOpen(s, r) \/ Awaits(w, r)
  <2> SUFFICES ASSUME NEW r \in R PROVE /\ \A k \in Sends : t[<<r, k>>].pc = "idle"
                                        /\ Fresh(w, r) /\ r \notin s.sent /\ w.db[r].status # "none"
                                        /\ IsOpen(s, r) \/ Awaits(w, r)
    OBVIOUS
  <2>1. \A k \in Sends : TaskInStep(w, s, t, r, k)
    BY DEF InStep, TasksInStep
  <2>2. RowsInStep(w, s, t, ev, done)
    BY DEF InStep
  <2>3. \A k \in Sends : t[<<r, k>>].pc = "idle"
    BY <2>1 DEF TaskInStep
  <2>4. Fresh(w, r) /\ r \notin s.sent /\ (s.row[r] # "unknown" => w.db[r].status # "none")
    BY <2>2 DEF RowsInStep, RowInStep
  <2> QED BY <2>3, <2>4 DEF IsOpen, Open, Awaits
<1>7. RowsInStep(w, n, t, ev, done)
  <2> SUFFICES ASSUME NEW r \in Rows
               PROVE  /\ n.row[r] = "unknown" /\ Awaits(w, r) => <<r, "created">> \in ev
                      /\ n.row[r] # "unknown" => w.db[r].status # "none"
                      /\ n.row[r] = "closed" => Over(w, r)
                      /\ IsOpen(n, r) => Awaits(w, r) \/ Told(w, t, ev, done, r)
                      /\ n.row[r] \in {"unknown", "waiting"} => Fresh(w, r) /\ r \notin n.sent
                      /\ r \in w.unfit => n.row[r] \notin Sent /\ r \notin n.sent
    BY DEF RowsInStep, RowInStep
  <2>1. /\ s.row[r] = "unknown" /\ Awaits(w, r) => <<r, "created">> \in ev
        /\ s.row[r] # "unknown" => w.db[r].status # "none"
        /\ s.row[r] = "closed" => Over(w, r)
        /\ IsOpen(s, r) => Awaits(w, r) \/ Told(w, t, ev, done, r)
        /\ s.row[r] \in {"unknown", "waiting"} => Fresh(w, r) /\ r \notin s.sent
        /\ r \in w.unfit => s.row[r] \notin Sent /\ r \notin s.sent
    BY DEF InStep, RowsInStep, RowInStep
  <2>2. CASE r \notin R
    BY <1>2, <2>1, <2>2 DEF IsOpen
  <2>3. CASE r \in R
    <3>1. n.row[r] = IF r \in w.unfit THEN "refused" ELSE "pending"
      BY <1>2, <2>3
    <3>2. w.db[r].status # "none" /\ (IsOpen(s, r) \/ Awaits(w, r))
      BY <1>6, <2>3
    <3> QED BY <1>2, <2>1, <3>1, <3>2 DEF Sent
  <2> QED BY <2>2, <2>3
<1>8. TasksInStep(w, n, t)
  <2> SUFFICES ASSUME NEW r \in Rows, NEW k \in Sends PROVE TaskInStep(w, n, t, r, k)
    BY DEF TasksInStep
  <2>1. TaskInStep(w, s, t, r, k)
    BY DEF InStep, TasksInStep
  <2>2. CASE r \in R
    BY <1>6, <2>2 DEF TaskInStep
  <2>3. CASE r \notin R
    <3>1. n.row[r] = s.row[r]
      BY <1>2, <2>3
    <3> QED BY <2>1, <3>1 DEF TaskInStep
  <2> QED BY <2>2, <2>3
<1>9. ActsInStep(w, n, t, td2)
  <2> SUFFICES ASSUME NEW m \in Lanes, NEW i \in DOMAIN td2[m] PROVE ActInStep(w, n, t, td2[m][i])
    BY DEF ActsInStep
  <2>1. PICK a : a = td2[m][i]
    OBVIOUS
  <2>2. CASE m = l
    <3>1. a.row \in R /\ a.do = IF a.row \in w.unfit THEN "refuse" ELSE "dispatch"
      BY <1>3, <1>4, <2>1, <2>2
    <3>2. n.row[a.row] = IF a.row \in w.unfit THEN "refused" ELSE "pending"
      BY <1>2, <3>1
    <3> QED BY <1>2, <1>6, <2>1, <3>1, <3>2 DEF ActInStep
  <2>3. CASE m # l
    <3>1. a.row \in Rows /\ ActInStep(w, s, t, a)
      BY <1>4, <1>5, <2>1, <2>3
    <3>2. CASE a.row \in R
      <4>1. n.row[a.row] \in {"refused", "pending"}
        BY <1>2, <3>1, <3>2
      <4>2. a.do # "dispatch"
        BY <3>1, <3>2 DEF ActInStep
      <4> QED BY <2>1, <3>1, <4>1, <4>2 DEF ActInStep
    <3>3. CASE a.row \notin R
      <4>1. n.row[a.row] = s.row[a.row]
        BY <1>2, <3>1, <3>3
      <4> QED BY <1>2, <2>1, <3>1, <4>1 DEF ActInStep
    <3> QED BY <3>2, <3>3
  <2> QED BY <2>2, <2>3
<1>10. Apart(td2)
  <2> SUFFICES ASSUME NEW m \in Lanes, NEW o \in Lanes, NEW i \in DOMAIN td2[m], NEW j \in DOMAIN td2[o],
                      td2[m][i].do = "dispatch", td2[o][j].do = "dispatch", td2[o][j].row = td2[m][i].row
               PROVE  m = o /\ i = j
    BY DEF Apart
  <2>0. \A p \in Lanes \ {l} : \A h \in DOMAIN td[p] : td[p][h].do = "dispatch" => td[p][h].row \notin R
    <3> SUFFICES ASSUME NEW p \in Lanes \ {l}, NEW h \in DOMAIN td[p], td[p][h].do = "dispatch", td[p][h].row \in R
                 PROVE  FALSE
      OBVIOUS
    <3>1. ActInStep(w, s, t, td[p][h])
      BY <1>5
    <3> QED BY <3>1 DEF ActInStep
  <2>1. CASE m = l /\ o = l
    BY <1>3, <1>4, <2>1
  <2>2. CASE m = l /\ o # l
    BY <1>3, <1>4, <2>0, <2>2
  <2>3. CASE m # l /\ o = l
    BY <1>3, <1>4, <2>0, <2>3
  <2>4. CASE m # l /\ o # l
    BY <1>4, <2>4 DEF InStep, Apart
  <2> QED BY <2>1, <2>2, <2>3, <2>4
<1>11. (~w.restarted => n.boot \in {0, 1}) /\ \A r \in done : Over(w, r)
  BY <1>2 DEF InStep
<1>12. InStep(w, n, t, td2, ev, done)
  BY <1>7, <1>8, <1>9, <1>10, <1>11 DEF InStep
<1> QED BY <1>1, <1>12

\* A handler's plan is carried out, and what waits is sent when there is room.
LEMMA PerformKeeps ==
  ASSUME TypeInv, NEW w, w.unfit = setting.unfit, NEW l \in Lanes, NEW s \in Pictures, NEW t \in [TaskNames -> Tasks],
         NEW out \in Seq(Cmds), NEW list \in Seq(Acts), NEW paced \in BOOLEAN, NEW ev, NEW done,
         Perform(l, s, t, out, list, paced), l = "messages" => mail # <<>>,
         InStep(w, s, t, [Todo EXCEPT ![l] = list], ev, done)
  PROVE  InStep(w, state', task', Todo', ev, done)
<1>1. PICK td, td1 : td = Todo /\ td1 = [td EXCEPT ![l] = list]
  OBVIOUS
<1>2. Todo \in [Lanes -> Seq(Acts)]
  BY DEF TypeInv, LanesOK, LaneRecords, Todo
<1>3. td1 \in [Lanes -> Seq(Acts)] /\ td1[l] = list
  BY <1>1, <1>2
<1>4. InStep(w, s, t, td1, ev, done)
  BY <1>1
<1>5. PICK b, rest : b = Begun(t, list) /\ rest = Rest(list)
  OBVIOUS
<1>6. InStep(w, s, b, [td1 EXCEPT ![l] = rest], ev, done)
  BY <1>3, <1>4, <1>5, ListBegins
<1>7. b \in [TaskNames -> Tasks] /\ rest \in Seq(Acts)
  BY <1>5, BegunOf, RestOf
<1>8. PICK td2 : td2 = [td EXCEPT ![l] = rest]
  OBVIOUS
<1>9. td2 = [td1 EXCEPT ![l] = rest] /\ td2 \in [Lanes -> Seq(Acts)] /\ td2[l] = rest
  BY <1>1, <1>2, <1>3, <1>7, <1>8
<1>10. InStep(w, s, b, td2, ev, done)
  BY <1>6, <1>9
<1>11. PICK R, more : R = Goes(s) /\ more = Actions(R)
  OBVIOUS
<1>12. /\ more \in Seq(Acts) /\ R \subseteq Rows
       /\ \/ state' = s /\ task' = b /\ Todo' = td2
          \/ /\ rest = <<>>
             /\ state' = Admit(s, R) /\ task' = Begun(b, more) /\ Todo' = [td EXCEPT ![l] = Rest(more)]
  BY <1>1, <1>5, <1>8, <1>11, Performs
<1>13. \A r \in R : s.row[r] = "waiting"
  BY <1>11 DEF Goes, Waiting
<1>14. CASE state' = s /\ task' = b /\ Todo' = td2
  BY <1>10, <1>14
<1>15. CASE /\ rest = <<>>
            /\ state' = Admit(s, R) /\ task' = Begun(b, more) /\ Todo' = [td EXCEPT ![l] = Rest(more)]
  <2>1. PICK n, td3 : n = Admit(s, R) /\ td3 = [td2 EXCEPT ![l] = more]
    OBVIOUS
  <2>2. InStep(w, n, b, td3, ev, done)
    BY <1>7, <1>9, <1>10, <1>11, <1>12, <1>13, <1>15, <2>1, Admits
  <2>3. n \in Pictures
    BY <1>12, <2>1, AdmitOf
  <2>4. td3 \in [Lanes -> Seq(Acts)] /\ td3[l] = more
    BY <1>9, <1>12, <2>1
  <2>5. InStep(w, n, Begun(b, more), [td3 EXCEPT ![l] = Rest(more)], ev, done)
    BY <1>7, <2>2, <2>3, <2>4, ListBegins
  <2>6. [td3 EXCEPT ![l] = Rest(more)] = [td EXCEPT ![l] = Rest(more)]
    BY <1>1, <1>2, <1>8, <2>1
  <2> QED BY <1>15, <2>1, <2>5, <2>6
<1> QED BY <1>12, <1>14, <1>15

\* A step concerns one row, and that row stays in step.
Concerns(r, w, x, s, n, t, u, ev, now, done, closing) ==
  /\ x.unfit = w.unfit /\ x.restarted = w.restarted /\ x.late = w.late /\ n.boot = s.boot
  /\ \A q \in Rows \ {r} :
       /\ x.db[q] = w.db[q] /\ n.row[q] = s.row[q] /\ (q \in n.sent => q \in s.sent)
       /\ \A k \in Sends : u[<<q, k>>] = t[<<q, k>>]
       /\ q \in done => q \in closing
       /\ \A verb \in Happenings : <<q, verb>> \in ev => <<q, verb>> \in now
  /\ \A q \in closing : Over(x, q)
  /\ RowInStep(x, n, u, now, closing, r)
  /\ \A k \in Sends : TaskInStep(x, n, u, r, k)
  /\ \A a \in Acts : a.row = r /\ ActInStep(w, s, t, a) => ActInStep(x, n, u, a)

LEMMA OneRow ==
  ASSUME NEW w, NEW x, NEW s \in Pictures, NEW n \in Pictures, NEW t, NEW u, NEW td \in [Lanes -> Seq(Acts)],
         NEW ev, NEW now, NEW done, NEW closing, NEW r \in Rows,
         Concerns(r, w, x, s, n, t, u, ev, now, done, closing), InStep(w, s, t, td, ev, done)
  PROVE  InStep(x, n, u, td, now, closing)
<1>0. /\ x.unfit = w.unfit /\ x.restarted = w.restarted /\ x.late = w.late /\ n.boot = s.boot
      /\ \A q \in Rows \ {r} :
           /\ x.db[q] = w.db[q] /\ n.row[q] = s.row[q] /\ (q \in n.sent => q \in s.sent)
           /\ \A k \in Sends : u[<<q, k>>] = t[<<q, k>>]
           /\ q \in done => q \in closing
           /\ \A verb \in Happenings : <<q, verb>> \in ev => <<q, verb>> \in now
      /\ \A q \in closing : Over(x, q)
      /\ RowInStep(x, n, u, now, closing, r)
      /\ \A k \in Sends : TaskInStep(x, n, u, r, k)
      /\ \A a \in Acts : a.row = r /\ ActInStep(w, s, t, a) => ActInStep(x, n, u, a)
  BY DEF Concerns
<1>1. RowsInStep(x, n, u, now, closing)
  <2> SUFFICES ASSUME NEW q \in Rows PROVE RowInStep(x, n, u, now, closing, q)
    BY DEF RowsInStep
  <2>1. CASE q = r
    BY <1>0, <2>1
  <2>2. CASE q # r
    <3>1. RowInStep(w, s, t, ev, done, q)
      BY DEF InStep, RowsInStep
    <3>2. x.db[q] = w.db[q] /\ n.row[q] = s.row[q] /\ (q \in n.sent => q \in s.sent)
      BY <1>0, <2>2
    <3>3. Told(w, t, ev, done, q) => Told(x, u, now, closing, q)
      <4>1. \A verb \in {"ended", "resolved"} : <<q, verb>> \in ev => <<q, verb>> \in now
        BY <1>0, <2>2 DEF Happenings
      <4>2. \A k \in Sends : u[<<q, k>>] = t[<<q, k>>]
        BY <1>0, <2>2
      <4>3. q \in done => q \in closing
        BY <1>0, <2>2
      <4> QED BY <3>2, <4>1, <4>2, <4>3 DEF Told
    <3>4. <<q, "created">> \in ev => <<q, "created">> \in now
      BY <1>0, <2>2 DEF Happenings
    <3> HIDE DEF Told
    <3> QED BY <1>0, <3>1, <3>2, <3>3, <3>4 DEF RowInStep, Awaits, Over, Fresh, IsOpen
  <2> QED BY <2>1, <2>2
<1>2. TasksInStep(x, n, u)
  <2> SUFFICES ASSUME NEW q \in Rows, NEW k \in Sends PROVE TaskInStep(x, n, u, q, k)
    BY DEF TasksInStep
  <2>1. CASE q = r
    BY <1>0, <2>1
  <2>2. CASE q # r
    <3>1. TaskInStep(w, s, t, q, k)
      BY DEF InStep, TasksInStep
    <3>2. x.db[q] = w.db[q] /\ n.row[q] = s.row[q]
      BY <1>0, <2>2
    <3>3. \A j \in Sends : u[<<q, j>>] = t[<<q, j>>]
      BY <1>0, <2>2
    <3>4. "again" \in Sends
      BY DEF Sends
    <3> HIDE DEF Sends
    <3> QED BY <1>0, <3>1, <3>2, <3>3, <3>4 DEF TaskInStep, Awaits, Over, Fresh
  <2> QED BY <2>1, <2>2
<1>3. ActsInStep(x, n, u, td)
  <2> SUFFICES ASSUME NEW m \in Lanes, NEW i \in DOMAIN td[m] PROVE ActInStep(x, n, u, td[m][i])
    BY DEF ActsInStep
  <2>1. PICK a : a = td[m][i]
    OBVIOUS
  <2>2. a \in Acts /\ a.row \in Rows
    <3>1. a \in Acts
      BY <2>1, ElementOfSeq, LenProperties
    <3> QED BY <3>1 DEF Acts
  <2>3. ActInStep(w, s, t, a)
    BY <2>1 DEF InStep, ActsInStep
  <2>4. CASE a.row = r
    BY <1>0, <2>1, <2>2, <2>3, <2>4
  <2>5. CASE a.row # r
    <3>1. x.db[a.row] = w.db[a.row] /\ n.row[a.row] = s.row[a.row] /\ (a.row \in n.sent => a.row \in s.sent)
      BY <1>0, <2>2, <2>5
    <3>2. \A k \in Sends : u[<<a.row, k>>] = t[<<a.row, k>>]
      BY <1>0, <2>2, <2>5
    <3> QED BY <1>0, <2>1, <2>3, <3>1, <3>2 DEF ActInStep, Fresh, Awaits
  <2> QED BY <2>4, <2>5
<1>4. Apart(td) /\ (~x.restarted => n.boot \in {0, 1})
  BY <1>0 DEF InStep
<1> QED BY <1>0, <1>1, <1>2, <1>3, <1>4 DEF InStep

\* The picture forgets what was held or sent.
LEMMA Lighter ==
  ASSUME NEW w, NEW s \in Pictures, NEW n \in Pictures, NEW t, NEW td \in [Lanes -> Seq(Acts)], NEW ev, NEW done,
         n.row = s.row, n.sent \subseteq s.sent, ~w.restarted => n.boot \in {0, 1},
         InStep(w, s, t, td, ev, done)
  PROVE  InStep(w, n, t, td, ev, done)
<1>1. RowsInStep(w, n, t, ev, done)
  <2> SUFFICES ASSUME NEW r \in Rows PROVE RowInStep(w, n, t, ev, done, r)
    BY DEF RowsInStep
  <2>1. RowInStep(w, s, t, ev, done, r)
    BY DEF InStep, RowsInStep
  <2> QED BY <2>1 DEF RowInStep, IsOpen
<1>2. TasksInStep(w, n, t)
  BY DEF InStep, TasksInStep, TaskInStep
<1>3. ActsInStep(w, n, t, td)
  <2> SUFFICES ASSUME NEW m \in Lanes, NEW i \in DOMAIN td[m] PROVE ActInStep(w, n, t, td[m][i])
    BY DEF ActsInStep
  <2>1. ActInStep(w, s, t, td[m][i])
    BY DEF InStep, ActsInStep
  <2> QED BY <2>1 DEF ActInStep
<1> QED BY <1>1, <1>2, <1>3 DEF InStep

\* A handler goes on with what is left of its list, after an action that sends nothing.
LEMMA Lists ==
  ASSUME NEW w, NEW s \in Pictures, NEW t, NEW td \in [Lanes -> Seq(Acts)], NEW ev, NEW done, NEW l \in Lanes,
         NEW list \in Seq(Acts), NEW d \in {0, 1},
         \A i \in DOMAIN list :
           \/ i + d \in DOMAIN td[l] /\ list[i] = td[l][i + d]
           \/ list[i].do \notin {"dispatch", "refuse"} /\ s.row[list[i].row] # "unknown",
         InStep(w, s, t, td, ev, done)
  PROVE  InStep(w, s, t, [td EXCEPT ![l] = list], ev, done)
<1>1. PICK td2 : td2 = [td EXCEPT ![l] = list]
  OBVIOUS
<1>2. td2[l] = list /\ \A m \in Lanes \ {l} : td2[m] = td[m]
  BY <1>1
<1>3. ActsInStep(w, s, t, td2)
  <2> SUFFICES ASSUME NEW m \in Lanes, NEW i \in DOMAIN td2[m] PROVE ActInStep(w, s, t, td2[m][i])
    BY DEF ActsInStep
  <2>1. \A o \in Lanes : \A j \in DOMAIN td[o] : ActInStep(w, s, t, td[o][j])
    BY DEF InStep, ActsInStep
  <2>2. CASE m # l
    BY <1>2, <2>1, <2>2
  <2>3. CASE m = l /\ i + d \in DOMAIN td[l] /\ list[i] = td[l][i + d]
    BY <1>2, <2>1, <2>3
  <2>4. CASE m = l /\ list[i].do \notin {"dispatch", "refuse"} /\ s.row[list[i].row] # "unknown"
    BY <1>2, <2>4 DEF ActInStep
  <2> QED BY <1>2, <2>2, <2>3, <2>4
<1>4. Apart(td2)
  <2> SUFFICES ASSUME NEW m \in Lanes, NEW o \in Lanes, NEW i \in DOMAIN td2[m], NEW j \in DOMAIN td2[o],
                      td2[m][i].do = "dispatch", td2[o][j].do = "dispatch", td2[o][j].row = td2[m][i].row
               PROVE  m = o /\ i = j
    BY DEF Apart
  <2>1. DOMAIN list \subseteq Nat
    BY LenProperties
  <2>2. \A h \in DOMAIN list : list[h].do = "dispatch" => h + d \in DOMAIN td[l] /\ list[h] = td[l][h + d]
    OBVIOUS
  <2>3. \A p, z \in Lanes : \A h \in DOMAIN td[p], g \in DOMAIN td[z] :
          td[p][h].do = "dispatch" /\ td[z][g].do = "dispatch" /\ td[z][g].row = td[p][h].row => p = z /\ h = g
    BY DEF InStep, Apart
  <2>4. CASE m = l /\ o = l
    <3>1. i \in Nat /\ j \in Nat /\ i + d = j + d
      BY <1>2, <2>1, <2>2, <2>3, <2>4
    <3> QED BY <2>4, <3>1
  <2>5. CASE m = l /\ o # l
    BY <1>2, <2>2, <2>3, <2>5
  <2>6. CASE m # l /\ o = l
    BY <1>2, <2>2, <2>3, <2>6
  <2>7. CASE m # l /\ o # l
    BY <1>2, <2>3, <2>7
  <2> QED BY <2>4, <2>5, <2>6, <2>7
<1>5. InStep(w, s, t, td2, ev, done)
  BY <1>3, <1>4 DEF InStep
<1> QED BY <1>1, <1>5

\* Dispatches end: their rows are accepted, or refused and about to be failed.
LEMMA Concludes ==
  ASSUME TypeInv, NEW w, NEW s \in Pictures, NEW td \in [Lanes -> Seq(Acts)], NEW ev, NEW done,
         NEW X, X \subseteq TaskNames, NEW T, NEW refused \in BOOLEAN,
         \A y \in X : task[y].pc \in InFlight, refused \/ w.late \/ X = {},
         InStep(w, s, task, td, ev, done)
  PROVE  InStep(w, Concluded(s, X, T), Answered(s, X, T, refused), td, ev, done)
<1>1. PICK n, u : n = Concluded(s, X, T) /\ u = Answered(s, X, T, refused)
  OBVIOUS
<1>2. /\ n \in Pictures /\ n.boot = s.boot /\ n.sent \subseteq s.sent \cup Asks(X)
      /\ \A r \in Rows : n.row[r] = IF r \notin Asks(X) \/ ~IsOpen(s, r) THEN s.row[r]
                                    ELSE IF r \in T THEN "accepted" ELSE "refused"
  <2>1. X \subseteq TaskNames
    OBVIOUS
  <2>2. Concluded(s, X, T) \in Pictures
    BY <2>1, ConcludedOf
  <2>5. Concluded(s, X, T).boot = s.boot
    BY DEF Concluded, Pictures
  <2>3. \A r \in Rows : Concluded(s, X, T).row[r] =
             IF r \notin Asks(X) \/ ~IsOpen(s, r) THEN s.row[r] ELSE IF r \in T THEN "accepted" ELSE "refused"
    BY <2>1, ConcludedOf
  <2>4. Concluded(s, X, T).sent \subseteq s.sent \cup Asks(X)
    BY <2>1, ConcludedOf
  <2> QED BY <1>1, <2>2, <2>3, <2>4, <2>5
<1>3. \A r \in Rows, k \in Sends : <<r, k>> \in TaskNames
  BY DEF TaskNames
<1>4. \A r \in Rows, k \in Sends : <<r, k>> \notin X => u[<<r, k>>] = task[<<r, k>>]
  BY <1>1, <1>3, AnsweredOf
<1>5. \A r \in Rows, k \in Sends : <<r, k>> \in X =>
        /\ u[<<r, k>>].pc \in {"idle", "claim", "fail"}
        /\ u[<<r, k>>].pc # "idle" => ~task[<<r, k>>].ended
        /\ u[<<r, k>>].pc = "fail" => r \notin T /\ IsOpen(s, r) /\ u[<<r, k>>].refused = refused
  <2> SUFFICES ASSUME NEW r \in Rows, NEW k \in Sends, <<r, k>> \in X
               PROVE  /\ u[<<r, k>>].pc \in {"idle", "claim", "fail"}
                      /\ u[<<r, k>>].pc # "idle" => ~task[<<r, k>>].ended
                      /\ u[<<r, k>>].pc = "fail" => r \notin T /\ IsOpen(s, r) /\ u[<<r, k>>].refused = refused
    OBVIOUS
  <2>1. PICK y : y = <<r, k>>
    OBVIOUS
  <2>2. y \in TaskNames /\ y \in X /\ y[1] = r
    BY <1>3, <2>1
  <2>3. /\ u[y].pc \in {"idle", "claim", "fail"} /\ (u[y].pc # "idle" => ~task[y].ended)
        /\ u[y].pc = "fail" => y[1] \notin T /\ IsOpen(s, y[1]) /\ u[y].refused = refused
    BY <1>1, <2>2, AnsweredOf
  <2> QED BY <2>1, <2>2, <2>3
<1>6. \A r \in Rows : r \in Asks(X) <=> \E k \in Sends : <<r, k>> \in X /\ ~task[<<r, k>>].ended
  <2>1. \A y \in X : y[1] \in Rows /\ y[2] \in Sends /\ y = <<y[1], y[2]>>
    BY DEF TaskNames
  <2>2. \A r : r \in Asks(X) <=> \E y \in X : ~task[y].ended /\ y[1] = r
    BY DEF Asks
  <2> SUFFICES ASSUME NEW r \in Rows PROVE r \in Asks(X) <=> \E k \in Sends : <<r, k>> \in X /\ ~task[<<r, k>>].ended
    OBVIOUS
  <2>3. ASSUME r \in Asks(X) PROVE \E k \in Sends : <<r, k>> \in X /\ ~task[<<r, k>>].ended
    <3>1. PICK y \in X : ~task[y].ended /\ y[1] = r
      BY <2>2, <2>3
    <3>2. y[2] \in Sends /\ y = <<r, y[2]>>
      BY <2>1, <3>1
    <3> QED BY <3>1, <3>2
  <2>4. ASSUME NEW k \in Sends, <<r, k>> \in X, ~task[<<r, k>>].ended PROVE r \in Asks(X)
    <3>1. PICK y : y = <<r, k>>
      OBVIOUS
    <3>2. y \in X /\ ~task[y].ended /\ y[1] = r
      BY <2>4, <3>1
    <3> QED BY <2>2, <3>2
  <2> QED BY <2>3, <2>4
<1>7. \A r \in Rows, k \in Sends : TaskInStep(w, s, task, r, k)
  BY DEF InStep, TasksInStep
<1>8. \A r \in Rows, k \in Sends : <<r, k>> \in X =>
        s.row[r] \notin {"unknown", "waiting"} /\ r \notin w.unfit /\ task[<<r, k>>].pc \in InFlight
  BY <1>7 DEF TaskInStep, InFlight
<1>9. \A r \in Rows : r \in Asks(X) => s.row[r] \notin {"unknown", "waiting"} /\ r \notin w.unfit
  BY <1>6, <1>8
<1>10. RowsInStep(w, n, u, ev, done)
  <2> SUFFICES ASSUME NEW r \in Rows PROVE RowInStep(w, n, u, ev, done, r)
    BY DEF RowsInStep
  <2>1. RowInStep(w, s, task, ev, done, r)
    BY DEF InStep, RowsInStep
  <2>2. Told(w, task, ev, done, r) => Told(w, u, ev, done, r)
    <3>1. \A k \in Sends : task[<<r, k>>].pc = "failed" => u[<<r, k>>].pc = "failed"
      BY <1>4, <1>8 DEF InFlight
    <3> QED BY <3>1 DEF Told
  <2> HIDE DEF Told
  <2>3. CASE r \notin Asks(X) \/ ~IsOpen(s, r)
    <3>1. n.row[r] = s.row[r] /\ (r \in n.sent => r \in s.sent \/ r \in Asks(X))
      BY <1>2, <2>3
    <3>2. r \in Asks(X) => s.row[r] \notin {"unknown", "waiting"} /\ r \notin w.unfit
      BY <1>9
    <3> QED BY <2>1, <2>2, <3>1, <3>2 DEF RowInStep, IsOpen
  <2>4. CASE r \in Asks(X) /\ IsOpen(s, r)
    <3>1. n.row[r] \in {"accepted", "refused"} /\ s.row[r] \notin {"unknown", "waiting"} /\ r \notin w.unfit
      BY <1>2, <1>9, <2>4
    <3> QED BY <2>1, <2>2, <2>4, <3>1 DEF RowInStep, IsOpen
  <2> QED BY <2>3, <2>4
<1>11. TasksInStep(w, n, u)
  <2> SUFFICES ASSUME NEW r \in Rows, NEW k \in Sends, u[<<r, k>>].pc # "idle" PROVE TaskInStep(w, n, u, r, k)
    BY DEF TasksInStep, TaskInStep
  <2>1. TaskInStep(w, s, task, r, k)
    BY <1>7
  <2>2. "first" \in Sends /\ "again" \in Sends /\ \A j \in Sends : j = "first" \/ j = "again"
    BY DEF Sends
  <2>3. \A j \in Sends : u[<<r, j>>].pc \in InFlight => <<r, j>> \notin X /\ u[<<r, j>>] = task[<<r, j>>]
    BY <1>4, <1>5 DEF InFlight
  <2>4. task[<<r, "first">>].pc \in InFlight /\ task[<<r, "again">>].pc \in InFlight => task[<<r, "again">>].ended
    BY <1>7, <2>2 DEF TaskInStep, InFlight
  <2>5. task[<<r, k>>].pc # "idle"
    BY <1>4, <1>8 DEF InFlight
  <2>6. /\ s.row[r] \notin {"unknown", "waiting"} /\ r \notin w.unfit
        /\ ~w.restarted => k = "first" /\ Fresh(w, r)
    BY <2>1, <2>5 DEF TaskInStep
  <2>7. n.row[r] \notin {"unknown", "waiting"}
    BY <1>2, <2>6
  <2>8. k = "first" /\ u[<<r, k>>].pc \in InFlight /\ u[<<r, "again">>].pc \in InFlight => u[<<r, "again">>].ended
    BY <2>2, <2>3, <2>4
  <2>9. CASE <<r, k>> \notin X
    <3>1. u[<<r, k>>] = task[<<r, k>>]
      BY <1>4, <2>9
    <3>2. k = "first" /\ u[<<r, k>>].pc \in InFlight => n.row[r] \in {"pending", "closed"}
      <4> SUFFICES ASSUME k = "first", u[<<r, k>>].pc \in InFlight PROVE n.row[r] \in {"pending", "closed"}
        OBVIOUS
      <4>1. s.row[r] \in {"pending", "closed"}
        BY <2>1, <2>5, <3>1 DEF TaskInStep
      <4>2. r \notin Asks(X)
        BY <1>6, <1>8, <2>2, <2>4, <2>9, <3>1
      <4> QED BY <1>2, <4>1, <4>2
    <3>3. u[<<r, k>>].pc \in {"fail", "failed"} =>
            /\ n.row[r] \in {"refused", "closed"}
            /\ \A j \in Sends : u[<<r, j>>].pc \in InFlight => u[<<r, j>>].ended
      <4> SUFFICES ASSUME u[<<r, k>>].pc \in {"fail", "failed"}
                   PROVE  /\ n.row[r] \in {"refused", "closed"}
                          /\ \A j \in Sends : u[<<r, j>>].pc \in InFlight => u[<<r, j>>].ended
        OBVIOUS
      <4>1. /\ s.row[r] \in {"refused", "closed"}
            /\ \A j \in Sends : task[<<r, j>>].pc \in InFlight => task[<<r, j>>].ended
        BY <2>1, <2>5, <3>1 DEF TaskInStep
      <4>2. r \notin Asks(X)
        BY <1>6, <1>8, <4>1
      <4>3. n.row[r] = s.row[r]
        BY <1>2, <4>2
      <4> QED BY <2>3, <4>1, <4>3
    <3>4. u[<<r, k>>].pc = "failed" => Over(w, r)
      BY <2>1, <2>5, <3>1 DEF TaskInStep
    <3>5. ~w.late => u[<<r, k>>].pc # "status" /\ (u[<<r, k>>].pc = "fail" => u[<<r, k>>].refused)
      BY <2>1, <2>5, <3>1 DEF TaskInStep
    <3> QED BY <2>6, <2>7, <2>8, <3>2, <3>3, <3>4, <3>5 DEF TaskInStep
  <2>10. CASE <<r, k>> \in X
    <3>1. /\ u[<<r, k>>].pc \in {"claim", "fail"} /\ ~task[<<r, k>>].ended /\ task[<<r, k>>].pc \in InFlight
          /\ u[<<r, k>>].pc = "fail" => r \notin T /\ IsOpen(s, r) /\ u[<<r, k>>].refused = refused
      BY <1>5, <1>8, <2>10
    <3>2. u[<<r, k>>].pc \notin InFlight /\ u[<<r, k>>].pc # "failed"
      BY <3>1 DEF InFlight
    <3>3. u[<<r, k>>].pc = "fail" => n.row[r] = "refused"
      BY <1>2, <1>6, <2>10, <3>1
    <3>4. \A j \in Sends : u[<<r, j>>].pc \in InFlight => u[<<r, j>>].ended
      <4> SUFFICES ASSUME NEW j \in Sends, u[<<r, j>>].pc \in InFlight PROVE u[<<r, j>>].ended
        OBVIOUS
      <4>1. j # k /\ u[<<r, j>>] = task[<<r, j>>]
        BY <2>3, <3>2
      <4>2. CASE k = "first"
        BY <2>2, <2>4, <3>1, <4>1, <4>2
      <4>3. CASE k = "again"
        BY <2>2, <2>4, <3>1, <4>1, <4>3
      <4> QED BY <2>2, <4>2, <4>3
    <3>5. ~w.late => u[<<r, k>>].pc # "status" /\ (u[<<r, k>>].pc = "fail" => u[<<r, k>>].refused)
      BY <2>10, <3>1
    <3> QED BY <2>6, <2>7, <2>8, <3>2, <3>3, <3>4, <3>5 DEF TaskInStep
  <2> QED BY <2>9, <2>10
<1>12. ActsInStep(w, n, u, td)
  <2> SUFFICES ASSUME NEW m \in Lanes, NEW i \in DOMAIN td[m] PROVE ActInStep(w, n, u, td[m][i])
    BY DEF ActsInStep
  <2>1. PICK a : a = td[m][i]
    OBVIOUS
  <2>2. a.row \in Rows
    <3>1. a \in Acts
      BY <2>1, ElementOfSeq, LenProperties
    <3> QED BY <3>1 DEF Acts
  <2>3. ActInStep(w, s, task, a)
    BY <2>1 DEF InStep, ActsInStep
  <2>4. n.row[a.row] # "unknown"
    BY <1>2, <2>2, <2>3 DEF ActInStep
  <2>5. CASE a.do = "dispatch"
    <3>1. \A k \in Sends : task[<<a.row, k>>].pc = "idle"
      BY <2>3, <2>5 DEF ActInStep
    <3>2. \A k \in Sends : <<a.row, k>> \notin X
      BY <1>8, <2>2, <3>1 DEF InFlight
    <3>3. a.row \notin Asks(X)
      BY <1>6, <2>2, <3>2
    <3>4. n.row[a.row] = s.row[a.row] /\ (a.row \in n.sent => a.row \in s.sent)
      BY <1>2, <2>2, <3>3
    <3>5. \A k \in Sends : u[<<a.row, k>>].pc = "idle"
      BY <1>4, <2>2, <3>1, <3>2
    <3> QED BY <2>1, <2>3, <3>4, <3>5 DEF ActInStep
  <2>6. CASE a.do # "dispatch"
    BY <2>1, <2>3, <2>4, <2>6 DEF ActInStep
  <2> QED BY <2>5, <2>6
<1>13. InStep(w, n, u, td, ev, done)
  BY <1>2, <1>10, <1>11, <1>12 DEF InStep
<1> QED BY <1>1, <1>13

\* A fault happens, or happens again.
LEMMA Worlds ==
  ASSUME NEW w, NEW x, NEW s, NEW t, NEW td, NEW ev, NEW done, x.db = w.db, x.unfit = w.unfit,
         w.restarted => x.restarted, w.late => x.late, InStep(w, s, t, td, ev, done)
  PROVE  InStep(x, s, t, td, ev, done)
<1>1. \A r : (Awaits(w, r) <=> Awaits(x, r)) /\ (Over(w, r) <=> Over(x, r)) /\ (Fresh(w, r) <=> Fresh(x, r))
             /\ (Told(w, t, ev, done, r) <=> Told(x, t, ev, done, r))
  BY DEF Awaits, Over, Fresh, Told
<1> HIDE DEF Awaits, Over, Fresh, Told
<1>2. RowsInStep(x, s, t, ev, done)
  BY <1>1 DEF InStep, RowsInStep, RowInStep
<1>3. TasksInStep(x, s, t)
  <2> SUFFICES ASSUME NEW r \in Rows, NEW k \in Sends PROVE TaskInStep(x, s, t, r, k)
    BY DEF TasksInStep
  <2>1. TaskInStep(w, s, t, r, k)
    BY DEF InStep, TasksInStep
  <2> HIDE DEF Sends
  <2> QED BY <1>1, <2>1 DEF TaskInStep
<1>4. ActsInStep(x, s, t, td)
  <2> SUFFICES ASSUME NEW m \in Lanes, NEW i \in DOMAIN td[m] PROVE ActInStep(x, s, t, td[m][i])
    BY DEF ActsInStep
  <2>1. ActInStep(w, s, t, td[m][i])
    BY DEF InStep, ActsInStep
  <2> QED BY <1>1, <2>1 DEF ActInStep
<1> QED BY <1>1, <1>2, <1>3, <1>4 DEF InStep

\* A row that ended is shut; who told of it is no longer needed.
LEMMA Shuts ==
  ASSUME NEW w, NEW s \in Pictures, NEW t, NEW u, NEW td \in [Lanes -> Seq(Acts)],
         NEW ev, NEW now, NEW done, NEW closing, NEW r \in Rows, Over(w, r) \/ ~IsOpen(s, r),
         \A q \in Rows \ {r} : \A k \in Sends : u[<<q, k>>] = t[<<q, k>>],
         \A k \in Sends : u[<<r, k>>] = t[<<r, k>>] \/ u[<<r, k>>].pc = "idle",
         \A q \in Rows \ {r} : (q \in done => q \in closing) /\ \A verb \in Happenings : <<q, verb>> \in ev => <<q, verb>> \in now,
         <<r, "created">> \in ev => <<r, "created">> \in now, \A q \in closing : q \in done,
         InStep(w, s, t, td, ev, done)
  PROVE  InStep(w, Shut(s, r), u, td, now, closing)
<1>1. PICK n : n = Shut(s, r)
  OBVIOUS
<1>2. /\ n \in Pictures /\ n.sent = s.sent /\ n.boot = s.boot
      /\ \A q \in Rows : n.row[q] = IF q = r /\ IsOpen(s, r) THEN "closed" ELSE s.row[q]
  BY <1>1, ShutOf
<1>3. ~IsOpen(n, r) /\ (n.row[r] # s.row[r] => n.row[r] = "closed" /\ IsOpen(s, r))
  BY <1>2 DEF IsOpen, Open
<1>4. RowInStep(w, n, u, now, closing, r)
  <2>1. RowInStep(w, s, t, ev, done, r)
    BY DEF InStep, RowsInStep
  <2>2. CASE n.row[r] = s.row[r]
    BY <1>2, <1>3, <2>1, <2>2 DEF RowInStep
  <2>3. CASE n.row[r] = "closed" /\ IsOpen(s, r)
    BY <1>2, <1>3, <2>1, <2>3 DEF RowInStep, Over, IsOpen, Open, Sent
  <2> QED BY <1>3, <2>2, <2>3
<1>5. \A k \in Sends : TaskInStep(w, n, u, r, k)
  <2> SUFFICES ASSUME NEW k \in Sends, u[<<r, k>>].pc # "idle" PROVE TaskInStep(w, n, u, r, k)
    BY DEF TaskInStep
  <2>1. TaskInStep(w, s, t, r, k) /\ u[<<r, k>>] = t[<<r, k>>]
    BY DEF InStep, TasksInStep
  <2>2. n.row[r] = s.row[r] \/ n.row[r] = "closed"
    BY <1>3
  <2>3. \A j \in Sends : u[<<r, j>>].pc \in InFlight => u[<<r, j>>] = t[<<r, j>>]
    BY DEF InFlight
  <2>4. "again" \in Sends
    BY DEF Sends
  <2> HIDE DEF Sends
  <2> QED BY <2>1, <2>2, <2>3, <2>4 DEF TaskInStep
<1>6. \A a \in Acts : a.row = r /\ ActInStep(w, s, t, a) => ActInStep(w, n, u, a)
  <2> SUFFICES ASSUME NEW a \in Acts, a.row = r, ActInStep(w, s, t, a) PROVE ActInStep(w, n, u, a)
    OBVIOUS
  <2>1. n.row[r] = s.row[r] \/ n.row[r] = "closed"
    BY <1>3
  <2>2. (\A k \in Sends : t[<<r, k>>].pc = "idle") => \A k \in Sends : u[<<r, k>>].pc = "idle"
    OBVIOUS
  <2> QED BY <1>2, <2>1, <2>2 DEF ActInStep
<1>7. \A q \in closing : Over(w, q)
  BY DEF InStep
<1>8. \A q \in Rows \ {r} : w.db[q] = w.db[q] /\ n.row[q] = s.row[q] /\ (q \in n.sent => q \in s.sent)
  BY <1>2
<1>9. Concerns(r, w, w, s, n, t, u, ev, now, done, closing)
  BY <1>2, <1>4, <1>5, <1>6, <1>7, <1>8 DEF Concerns
<1>10. InStep(w, n, u, td, now, closing)
  BY <1>2, <1>9, OneRow
<1> QED BY <1>1, <1>10

\* An event is heard that says nothing new.
LEMMA Heard ==
  ASSUME NEW w, NEW s \in Pictures, NEW t, NEW td \in [Lanes -> Seq(Acts)], NEW ev, NEW done,
         NEW r \in Rows, NEW verb \in Happenings,
         IF verb = "created" THEN ~Awaits(w, r) \/ s.row[r] # "unknown" ELSE w.db[r].status \notin Fitting[verb],
         InStep(w, s, t, td, ev, done)
  PROVE  InStep(w, s, t, td, ev \ {<<r, verb>>}, done)
<1>1. PICK now : now = ev \ {<<r, verb>>}
  OBVIOUS
<1>2. RowInStep(w, s, t, ev, done, r)
  BY DEF InStep, RowsInStep
<1>3. Told(w, t, ev, done, r) => Told(w, t, now, done, r)
  BY <1>1 DEF Told
<1>4. s.row[r] = "unknown" /\ Awaits(w, r) => <<r, "created">> \in now
  BY <1>1, <1>2 DEF RowInStep
<1>5. RowInStep(w, s, t, now, done, r)
  <2> HIDE DEF Told
  <2> QED BY <1>2, <1>3, <1>4 DEF RowInStep
<1>6. \A k \in Sends : TaskInStep(w, s, t, r, k)
  BY DEF InStep, TasksInStep
<1>7. \A q \in Rows \ {r} : \A v \in Happenings : <<q, v>> \in ev => <<q, v>> \in now
  BY <1>1
<1>8. \A q \in done : Over(w, q)
  BY DEF InStep
<1>9. Concerns(r, w, w, s, s, t, t, ev, now, done, done)
  BY <1>5, <1>6, <1>7, <1>8 DEF Concerns
<1>10. InStep(w, s, t, td, now, done)
  BY <1>9, OneRow
<1> QED BY <1>1, <1>10

\* After a restart, open dispatches and lost jobs are sent again.
Resent(s, t, u, open, again) ==
  /\ \A r \in open : s.row[r] = "accepted"
  /\ \A r \in again : s.row[r] = "closed" /\ r \in s.sent
  /\ \A r \in Rows : u[<<r, "first">>] = t[<<r, "first">>]
  /\ \A r \in Rows : u[<<r, "again">>] = IF r \in open THEN Asking(FALSE) ELSE IF r \in again THEN Asking(TRUE)
                                         ELSE t[<<r, "again">>]

LEMMA Resends ==
  ASSUME NEW w, NEW s \in Pictures, NEW t, NEW u, NEW td \in [Lanes -> Seq(Acts)], NEW ev, NEW done,
         NEW open \in SUBSET Rows, NEW again \in SUBSET Rows, w.restarted, ~w.late,
         Resent(s, t, u, open, again), InStep(w, s, t, td, ev, done)
  PROVE  InStep(w, s, u, td, ev, done)
<1> USE DEF Resent
<1>1. /\ Asking(FALSE).pc = "reply" /\ ~Asking(FALSE).ended
      /\ Asking(TRUE).pc = "reply" /\ Asking(TRUE).ended
  BY DEF Asking, NoTask
<1>2. \A r \in Rows : r \notin open \cup again => \A k \in Sends : u[<<r, k>>] = t[<<r, k>>]
  BY DEF Sends
<1>3. \A r \in Rows : RowInStep(w, s, t, ev, done, r)
  BY DEF InStep, RowsInStep
<1>4. \A r \in Rows, k \in Sends : TaskInStep(w, s, t, r, k)
  BY DEF InStep, TasksInStep
<1>5. RowsInStep(w, s, u, ev, done)
  <2> SUFFICES ASSUME NEW r \in Rows PROVE RowInStep(w, s, u, ev, done, r)
    BY DEF RowsInStep
  <2>1. IsOpen(s, r) /\ Told(w, t, ev, done, r) => Told(w, u, ev, done, r)
    <3>1. CASE r \in again
      BY <3>1 DEF IsOpen, Open
    <3>2. CASE r \in open
      <4>1. \A k \in Sends : t[<<r, k>>].pc # "failed"
        BY <1>4, <3>2 DEF TaskInStep
      <4> QED BY <4>1 DEF Told
    <3>3. CASE r \notin open \cup again
      BY <1>2, <3>3 DEF Told
    <3> QED BY <3>1, <3>2, <3>3
  <2>2. RowInStep(w, s, t, ev, done, r)
    BY <1>3
  <2> HIDE DEF Told
  <2> QED BY <2>1, <2>2 DEF RowInStep
<1>6. TasksInStep(w, s, u)
  <2> SUFFICES ASSUME NEW r \in Rows, NEW k \in Sends PROVE TaskInStep(w, s, u, r, k)
    BY DEF TasksInStep
  <2>0. "again" \in Sends /\ "first" \in Sends /\ \A j \in Sends : j = "first" \/ j = "again"
    BY DEF Sends
  <2>1. CASE r \notin open \cup again
    <3>1. TaskInStep(w, s, t, r, k) /\ \A j \in Sends : u[<<r, j>>] = t[<<r, j>>]
      BY <1>2, <1>4, <2>1
    <3> HIDE DEF Sends
    <3> QED BY <2>0, <3>1 DEF TaskInStep
  <2>2. CASE r \in open
    <3>1. s.row[r] = "accepted" /\ r \notin w.unfit
      BY <1>3, <2>2 DEF RowInStep, Sent
    <3>2. t[<<r, "first">>].pc \notin {"reply", "status", "fail", "failed"}
      BY <1>4, <2>0, <3>1 DEF TaskInStep, InFlight
    <3>3. u[<<r, "again">>].pc = "reply" /\ u[<<r, "first">>].pc \notin {"reply", "status", "fail", "failed"}
      BY <1>1, <2>2, <3>2
    <3> QED BY <2>0, <3>1, <3>3 DEF TaskInStep, InFlight
  <2>3. CASE r \in again /\ r \notin open
    <3>1. s.row[r] = "closed" /\ r \notin w.unfit
      BY <1>3, <2>3 DEF RowInStep
    <3>2. u[<<r, "again">>].pc = "reply" /\ u[<<r, "again">>].ended /\ u[<<r, "first">>] = t[<<r, "first">>]
      BY <1>1, <2>3
    <3>3. TaskInStep(w, s, t, r, "first")
      BY <1>4, <2>0
    <3>4. CASE k = "again"
      BY <2>0, <3>1, <3>2, <3>4 DEF TaskInStep, InFlight
    <3>5. CASE k = "first"
      <4>1. \A j \in Sends : u[<<r, j>>].pc \in InFlight => u[<<r, j>>].ended \/ (j = "first" /\ t[<<r, j>>].pc \in InFlight)
        BY <2>0, <3>2
      <4>2. t[<<r, "first">>].pc \in {"fail", "failed"} => t[<<r, "first">>].pc \notin InFlight
        BY DEF InFlight
      <4>3. u[<<r, k>>].pc \in {"fail", "failed"} => \A j \in Sends : u[<<r, j>>].pc \in InFlight => u[<<r, j>>].ended
        BY <3>2, <3>5, <4>1, <4>2
      <4> HIDE DEF Sends
      <4> QED BY <3>1, <3>2, <3>3, <3>5, <4>3 DEF TaskInStep
    <3> QED BY <2>0, <3>4, <3>5
  <2> QED BY <2>1, <2>2, <2>3
<1>7. ActsInStep(w, s, u, td)
  <2> SUFFICES ASSUME NEW m \in Lanes, NEW i \in DOMAIN td[m] PROVE ActInStep(w, s, u, td[m][i])
    BY DEF ActsInStep
  <2>1. PICK a : a = td[m][i]
    OBVIOUS
  <2>2. a.row \in Rows
    <3>1. a \in Acts
      BY <2>1, ElementOfSeq, LenProperties
    <3> QED BY <3>1 DEF Acts
  <2>3. ActInStep(w, s, t, a)
    BY <2>1 DEF InStep, ActsInStep
  <2>4. CASE a.do = "dispatch"
    <3>1. a.row \notin open \cup again
      BY <2>3, <2>4 DEF ActInStep
    <3>2. \A k \in Sends : u[<<a.row, k>>] = t[<<a.row, k>>]
      BY <1>2, <2>2, <3>1
    <3> QED BY <2>1, <2>3, <3>2 DEF ActInStep
  <2>5. CASE a.do # "dispatch"
    BY <2>1, <2>3, <2>5 DEF ActInStep
  <2> QED BY <2>4, <2>5
<1> QED BY <1>5, <1>6, <1>7 DEF InStep

\* What has landed on a lane is answered when the lane goes on.
LEMMA LandedThen ==
  ASSUME TypeInv, NEW l \in Lanes, \A m \in Lanes : IF m = l THEN ~lane'[m].landed ELSE lane'[m] = lane[m]
  PROVE  /\ \A r \in Landed' : r \in Landed
         /\ \A r \in Landed : r \in Landed' \/ (lane[l].landed /\ lane[l].todo[1].do \in Closing /\ r = lane[l].todo[1].row)
BY DEF Landed

LEMMA SameWorld == setting' = setting /\ db' = db /\ spent' = spent => World' = World
BY DEF World

\* A handler performs its plan: what remains to be shown of each is its plan.
LEMMA PlanKeeps ==
  ASSUME TypeInv, setting' = setting, NEW l \in Lanes, NEW s \in Pictures, NEW t \in [TaskNames -> Tasks],
         NEW out \in Seq(Cmds), NEW list \in Seq(Acts), NEW paced \in BOOLEAN, NEW done,
         Perform(l, s, t, out, list, paced), l = "messages" => mail # <<>>,
         UNCHANGED <<db, spent>>, done = Landed',
         InStep(World, s, t, [Todo EXCEPT ![l] = list], events', done)
  PROVE  InStep(World', state', task', Todo', events', Landed')
<1>1. PICK w, ev : w = World /\ ev = events'
  OBVIOUS
<1>2. w.unfit = setting.unfit
  BY <1>1 DEF World
<1>3. InStep(w, s, t, [Todo EXCEPT ![l] = list], ev, done)
  BY <1>1
<1>4. InStep(w, state', task', Todo', ev, done)
  BY <1>2, <1>3, PerformKeeps
<1>5. World' = w
  BY <1>1, SameWorld
<1> QED BY <1>1, <1>4, <1>5

LEMMA LandedPerforms ==
  ASSUME TypeInv, NEW l \in Lanes, NEW s \in Pictures, NEW t \in [TaskNames -> Tasks],
         NEW out \in Seq(Cmds), NEW list \in Seq(Acts), NEW paced \in BOOLEAN,
         Perform(l, s, t, out, list, paced), l = "messages" => mail # <<>>
  PROVE  /\ \A r \in Landed' : r \in Landed
         /\ \A r \in Landed : r \in Landed' \/ (lane[l].landed /\ lane[l].todo[1].do \in Closing /\ r = lane[l].todo[1].row)
         /\ lane[l] = Idle => Landed' = Landed
<1>1. \A m \in Lanes : IF m = l THEN ~lane'[m].landed ELSE lane'[m] = lane[m]
  BY Performs
<1>2. PICK d, d2 : d = Landed /\ d2 = Landed'
  OBVIOUS
<1>3. /\ \A r \in d2 : r \in d
      /\ \A r \in d : r \in d2 \/ (lane[l].landed /\ lane[l].todo[1].do \in Closing /\ r = lane[l].todo[1].row)
  BY <1>1, <1>2, LandedThen
<1>4. lane[l] = Idle => d2 = d
  BY <1>3, IdleOf
<1> QED BY <1>2, <1>3, <1>4

LEMMA TodoOf ==
  ASSUME TypeInv
  PROVE  /\ Todo \in [Lanes -> Seq(Acts)] /\ \A l \in Lanes : Todo[l] = lane[l].todo
         /\ \A l \in Lanes : lane[l] = Idle => [Todo EXCEPT ![l] = <<>>] = Todo /\ Todo[l] = <<>>
<1>1. PICK td : td = Todo
  OBVIOUS
<1>2. td \in [Lanes -> Seq(Acts)] /\ \A l \in Lanes : td[l] = lane[l].todo
  BY <1>1 DEF TypeInv, LanesOK, LaneRecords, Todo
<1>3. \A l \in Lanes : lane[l] = Idle => [td EXCEPT ![l] = <<>>] = td /\ td[l] = <<>>
  BY <1>2, IdleOf
<1> QED BY <1>1, <1>2, <1>3

\* A verb's answer shuts the row, which ended when the verb landed.
LEMMA ReturnsInStep ==
  ASSUME TypeInv, setting' = setting, InStep(World, state, task, Todo, events, Landed), NEW l \in Lanes, VerbReturns(l)
  PROVE  InStep(World', state', task', Todo', events', Landed')
<1>1. PICK a \in Acts, s \in Pictures, list \in Seq(Acts) :
         /\ lane[l].todo # <<>> /\ lane[l].landed /\ a = lane[l].todo[1]
         /\ s = IF a.do = "accumulate" THEN state ELSE Shut(state, a.row)
         /\ list = IF a.do = "accumulate" /\ db[a.row].item THEN <<Do("receive", a.row)>> \o Tail(lane[l].todo)
                   ELSE Tail(lane[l].todo)
         /\ Perform(l, s, task, <<>>, list, lane[l].pc = "pacing")
         /\ events' = events /\ UNCHANGED <<db, machine, period, spent>>
  BY VerbReturnsPlan
<1>2. PICK w, td, d, d2, more, todo : w = World /\ td = Todo /\ d = Landed /\ d2 = Landed' /\ more = Tail(lane[l].todo) /\ todo = lane[l].todo
  OBVIOUS
<1>3. /\ a.row \in Rows /\ a.do \in Verbs /\ more \in Seq(Acts) /\ (l = "messages" => mail # <<>>)
      /\ todo \in Seq(Acts) /\ 1 \in DOMAIN todo /\ todo # <<>> /\ more = Tail(todo) /\ td[l] = todo /\ a = todo[1]
  BY <1>1, <1>2, AtWork, TodoOf
<1>4. td \in [Lanes -> Seq(Acts)] /\ InStep(w, state, task, td, events, d)
  BY <1>2, TodoOf
<1>5. <<>> \in Seq(Cmds) /\ task \in [TaskNames -> Tasks] /\ (lane[l].pc = "pacing") \in BOOLEAN /\ state \in Pictures
  BY EmptySeq DEF TypeInv
<1>6. /\ \A r \in d2 : r \in d
      /\ \A r \in d : r \in d2 \/ (a.do \in Closing /\ r = a.row)
      /\ a.do \in Closing => a.row \in d
  <2>1. /\ \A r \in d2 : r \in d
        /\ \A r \in d : r \in d2 \/ (lane[l].landed /\ lane[l].todo[1].do \in Closing /\ r = lane[l].todo[1].row)
    <3> QED BY <1>1, <1>2, <1>3, <1>5, LandedPerforms
  <2>2. a.do \in Closing => a.row \in d
    BY <1>1, <1>2, <1>3 DEF Landed
  <2> QED BY <1>1, <2>1, <2>2
<1>7. InStep(w, s, task, td, events, d2)
  <2>1. CASE a.do = "accumulate"
    <3>1. d2 \subseteq d /\ d \subseteq d2
      BY <1>6, <2>1 DEF Closing
    <3>2. \A r : r \in d <=> r \in d2
      BY <3>1
    <3>3. Concerns(a.row, w, w, state, state, task, task, events, events, d, d2)
      <4>1. RowInStep(w, state, task, events, d2, a.row)
        <5>1. RowInStep(w, state, task, events, d, a.row)
          BY <1>3, <1>4 DEF InStep, RowsInStep
        <5>2. Told(w, task, events, d, a.row) => Told(w, task, events, d2, a.row)
          BY <3>2 DEF Told
        <5> HIDE DEF Told
        <5> QED BY <5>1, <5>2 DEF RowInStep
      <4>2. \A k \in Sends : TaskInStep(w, state, task, a.row, k)
        BY <1>3, <1>4 DEF InStep, TasksInStep
      <4>3. \A q \in d2 : Over(w, q)
        BY <1>4, <3>2 DEF InStep
      <4> QED BY <3>2, <4>1, <4>2, <4>3 DEF Concerns
    <3>4. InStep(w, state, task, td, events, d2)
      BY <1>3, <1>4, <1>5, <3>3, OneRow
    <3> QED BY <1>1, <2>1, <3>4
  <2>2. CASE a.do # "accumulate"
    <3>1. a.do \in Closing
      BY <1>3, <2>2 DEF Verbs, Closing
    <3>2. Over(w, a.row)
      BY <1>4, <1>6, <3>1 DEF InStep
    <3>3. \A q \in Rows \ {a.row} : q \in d => q \in d2
      BY <1>6
    <3>4. InStep(w, Shut(state, a.row), task, td, events, d2)
      BY <1>3, <1>4, <1>5, <1>6, <3>2, <3>3, Shuts
    <3> QED BY <1>1, <2>2, <3>4
  <2> QED BY <2>1, <2>2
<1>8. InStep(w, s, task, [td EXCEPT ![l] = list], events, d2)
  <2>1. /\ Len(todo) \in Nat /\ Len(more) = Len(todo) - 1 /\ DOMAIN more = 1..(Len(todo) - 1) /\ DOMAIN todo = 1..Len(todo)
        /\ \A i \in 1..(Len(todo) - 1) : more[i] = todo[i + 1]
    BY <1>3, HeadTailProperties, LenProperties
  <2>2. CASE list = more
    <3>1. \A i \in DOMAIN list : i + 1 \in DOMAIN td[l] /\ list[i] = td[l][i + 1]
      BY <1>3, <2>1, <2>2
    <3> QED BY <1>4, <1>7, <2>2, <3>1, Lists
  <2>3. CASE a.do = "accumulate" /\ list = <<Do("receive", a.row)>> \o more
    <3>1. state.row[a.row] # "unknown" /\ s = state
      <4>1. ActInStep(w, state, task, td[l][1])
        BY <1>3, <1>4 DEF InStep, ActsInStep
      <4> QED BY <1>1, <1>3, <2>3, <4>1 DEF ActInStep
    <3>2. <<Do("receive", a.row)>> \in Seq(Acts) /\ Len(<<Do("receive", a.row)>>) = 1
      BY <1>3 DEF Do, Acts, Verbs
    <3>3. PICK one : one = <<Do("receive", a.row)>>
      OBVIOUS
    <3>4. one[1].do = "receive" /\ one[1].row = a.row /\ one \in Seq(Acts) /\ Len(one) = 1
      BY <3>2, <3>3 DEF Do
    <3>5. /\ list = one \o more /\ Len(list) = 1 + (Len(todo) - 1) /\ list \in Seq(Acts)
          /\ \A i \in 1..Len(list) : list[i] = IF i <= 1 THEN one[i] ELSE more[i - 1]
      BY <1>3, <2>1, <2>3, <3>3, <3>4, ConcatProperties
    <3>6. DOMAIN list = 1..Len(todo)
      BY <2>1, <3>5, LenProperties
    <3>7. \A i \in DOMAIN list :
            \/ i + 0 \in DOMAIN td[l] /\ list[i] = td[l][i + 0]
            \/ list[i].do \notin {"dispatch", "refuse"} /\ s.row[list[i].row] # "unknown"
      <4> SUFFICES ASSUME NEW i \in 1..Len(todo)
                   PROVE  \/ i + 0 \in DOMAIN td[l] /\ list[i] = td[l][i + 0]
                          \/ list[i].do \notin {"dispatch", "refuse"} /\ s.row[list[i].row] # "unknown"
        BY <3>6
      <4>1. CASE i = 1
        <5>1. list[i] = one[1]
          BY <2>1, <3>5, <3>6, <4>1
        <5> QED BY <3>1, <3>4, <5>1
      <4>2. CASE i # 1
        <5>1. i - 1 \in 1..(Len(todo) - 1) /\ ~(i <= 1) /\ i \in 1..Len(list) /\ (i - 1) + 1 = i /\ i + 0 = i
          BY <2>1, <3>5, <4>2
        <5>2. list[i] = more[i - 1] /\ more[i - 1] = todo[i]
          BY <2>1, <3>5, <5>1
        <5> QED BY <1>3, <2>1, <5>1, <5>2
      <4> QED BY <4>1, <4>2
    <3> QED BY <1>4, <1>7, <3>7, Lists
  <2> QED BY <1>1, <1>2, <2>2, <2>3
<1>9. InStep(World, s, task, [Todo EXCEPT ![l] = list], events', d2)
  BY <1>1, <1>2, <1>8
<1> QED BY <1>1, <1>2, <1>3, <1>5, <1>9, PlanKeeps

\* An event leads to a dispatch, a wait or a closed row, as the stored row says.
LEMMA HearsInStep ==
  ASSUME TypeInv, setting' = setting, InStep(World, state, task, Todo, events, Landed),
         NEW r \in Rows, NEW verb \in Happenings, OnEscalation(r, verb)
  PROVE  InStep(World', state', task', Todo', events', Landed')
<1>1. PICK s \in Pictures, list \in Seq(Acts), fits \in BOOLEAN :
         /\ fits = (db[r].status \in Fitting[verb])
         /\ \/ /\ fits /\ verb = "created" /\ state.row[r] = "unknown" /\ Fits(MachineLoad(state))
               /\ s = Admit(state, {r}) /\ list = Actions({r})
            \/ /\ fits /\ verb = "created" /\ state.row[r] = "unknown"
               /\ s = [state EXCEPT !.row[r] = "waiting"] /\ list = <<>>
            \/ fits /\ verb # "created" /\ s = Shut(state, r) /\ list = IF verb = "ended" THEN CancelDispatch(state, r) ELSE <<>>
            \/ (fits => verb = "created" /\ state.row[r] # "unknown") /\ s = state /\ list = <<>>
         /\ gateway = "up" /\ gateway' = gateway /\ lane["events"] = Idle
         /\ <<r, verb>> \in events /\ events' = events \ {<<r, verb>>}
         /\ Perform("events", s, task, <<>>, list, FALSE)
         /\ UNCHANGED <<db, machine, period, spent>>
  BY OnEscalationPlan
<1>2. PICK w, td, d, ev, now : w = World /\ td = Todo /\ d = Landed /\ ev = events /\ now = ev \ {<<r, verb>>}
  OBVIOUS
<1>3. "events" \in Lanes /\ <<>> \in Seq(Cmds) /\ task \in [TaskNames -> Tasks] /\ state \in Pictures /\ now = events'
  BY <1>1, <1>2, EmptySeq DEF TypeInv, Lanes
<1>4. td \in [Lanes -> Seq(Acts)] /\ InStep(w, state, task, td, ev, d) /\ [td EXCEPT !["events"] = <<>>] = td /\ td["events"] = <<>>
  BY <1>1, <1>2, <1>3, TodoOf
<1>5. Landed' = d
  BY <1>1, <1>2, <1>3, LandedPerforms
<1>6. /\ w.unfit = setting.unfit /\ w.db = db
      /\ Fitting["created"] = {"pending"} /\ Fitting["ended"] = {"withdrawn"} /\ Fitting["resolved"] = {"received", "failed"}
  BY <1>2 DEF World, Fitting
<1>7. RowInStep(w, state, task, ev, d, r) /\ \A k \in Sends : TaskInStep(w, state, task, r, k)
  BY <1>4 DEF InStep, RowsInStep, TasksInStep
<1>8. \A q \in d : Over(w, q)
  BY <1>4 DEF InStep
<1>9. InStep(w, s, task, [td EXCEPT !["events"] = list], now, d)
  <2>1. CASE /\ fits /\ verb = "created" /\ state.row[r] = "unknown"
             /\ s = Admit(state, {r}) /\ list = Actions({r})
    <3>1. Awaits(w, r)
      BY <1>1, <1>6, <2>1 DEF Awaits
    <3>a. PICK R : R = {r}
      OBVIOUS
    <3>b. R \subseteq Rows /\ \A q \in R : state.row[q] = "waiting" \/ (state.row[q] = "unknown" /\ Awaits(w, q))
      BY <2>1, <3>1, <3>a
    <3>c. InStep(w, Admit(state, R), task, [td EXCEPT !["events"] = Actions(R)], ev, d)
      BY <1>3, <1>4, <1>6, <3>b, Admits, ZenonT(30)
    <3>2. InStep(w, s, task, [td EXCEPT !["events"] = list], ev, d)
      BY <2>1, <3>a, <3>c
    <3>3. s.row[r] # "unknown"
      <4>1. {r} \subseteq Rows /\ r \in {r}
        OBVIOUS
      <4>2. \A q \in Rows : s.row[q] = IF q \notin {r} THEN state.row[q] ELSE IF q \in setting.unfit THEN "refused" ELSE "pending"
        BY <1>3, <2>1, <4>1, AdmitOf
      <4> QED BY <4>2
    <3>4. PICK td2 : td2 = [td EXCEPT !["events"] = list]
      OBVIOUS
    <3>5. td2 \in [Lanes -> Seq(Acts)] /\ InStep(w, s, task, td2, ev, d)
      BY <1>4, <3>2, <3>4
    <3>6. InStep(w, s, task, td2, ev \ {<<r, verb>>}, d)
      BY <2>1, <3>3, <3>5, Heard
    <3> QED BY <1>2, <3>4, <3>6
  <2>2. CASE /\ fits /\ verb = "created" /\ state.row[r] = "unknown"
             /\ s = [state EXCEPT !.row[r] = "waiting"] /\ list = <<>>
    <3>1. s.row[r] = "waiting" /\ s.sent = state.sent /\ s.boot = state.boot /\ \A q \in Rows \ {r} : s.row[q] = state.row[q]
      BY <1>3, <2>2 DEF Pictures
    <3>2. Awaits(w, r) /\ w.db[r].status = "pending"
      BY <1>1, <1>6, <2>2 DEF Awaits
    <3>3. RowInStep(w, s, task, now, d, r)
      <4> HIDE DEF Told
      <4> QED BY <1>7, <2>2, <3>1, <3>2 DEF RowInStep, Sent
    <3>4. \A k \in Sends : TaskInStep(w, s, task, r, k)
      BY <1>7, <2>2 DEF TaskInStep
    <3>5. \A a \in Acts : a.row = r => ~ActInStep(w, state, task, a)
      BY <2>2 DEF ActInStep
    <3>6. \A q \in Rows \ {r} : \A v \in Happenings : <<q, v>> \in ev => <<q, v>> \in now
      BY <1>2
    <3>7. Concerns(r, w, w, state, s, task, task, ev, now, d, d)
      BY <1>8, <3>1, <3>3, <3>4, <3>5, <3>6 DEF Concerns
    <3>8. InStep(w, s, task, td, now, d)
      BY <1>3, <1>4, <3>7, OneRow
    <3> QED BY <1>4, <2>2, <3>8
  <2>3. CASE fits /\ verb # "created" /\ s = Shut(state, r) /\ list = IF verb = "ended" THEN CancelDispatch(state, r) ELSE <<>>
    <3>1. Over(w, r)
      BY <1>1, <1>6, <2>3 DEF Over, Happenings
    <3>2. \A q \in Rows \ {r} : (q \in d => q \in d) /\ \A v \in Happenings : <<q, v>> \in ev => <<q, v>> \in now
      BY <1>2
    <3>3. <<r, "created">> \in ev => <<r, "created">> \in now
      BY <1>2, <2>3
    <3>4. InStep(w, s, task, td, now, d)
      BY <1>3, <1>4, <2>3, <3>1, <3>2, <3>3, Shuts
    <3>5. CASE list = <<>>
      BY <1>4, <3>4, <3>5
    <3>6. CASE list = CancelDispatch(state, r)
      <4>1. \A i \in DOMAIN list : list[i] = Do("cancel", r) /\ IsOpen(state, r)
        BY <1>3, <3>6, CancelOf
      <4>2. Do("cancel", r).do = "cancel" /\ Do("cancel", r).row = r
        BY DEF Do
      <4>3. IsOpen(state, r) => s.row[r] = "closed"
        BY <1>3, <2>3, ShutOf
      <4>4. \A i \in DOMAIN list :
              \/ i + 0 \in DOMAIN td["events"] /\ list[i] = td["events"][i + 0]
              \/ list[i].do \notin {"dispatch", "refuse"} /\ s.row[list[i].row] # "unknown"
        BY <4>1, <4>2, <4>3
      <4> QED BY <1>3, <1>4, <3>4, <4>4, Lists
    <3> QED BY <2>3, <3>5, <3>6
  <2>4. CASE (fits => verb = "created" /\ state.row[r] # "unknown") /\ s = state /\ list = <<>>
    <3>1. IF verb = "created" THEN ~Awaits(w, r) \/ state.row[r] # "unknown" ELSE w.db[r].status \notin Fitting[verb]
      BY <1>1, <1>6, <2>4 DEF Awaits
    <3>2. InStep(w, state, task, td, ev \ {<<r, verb>>}, d)
      BY <1>3, <1>4, <3>1, Heard
    <3> QED BY <1>2, <1>4, <2>4, <3>2
  <2> QED BY <1>1, <2>1, <2>2, <2>3, <2>4
<1>10. InStep(World, s, task, [Todo EXCEPT !["events"] = list], events', d)
  BY <1>2, <1>3, <1>9
<1>11. ("events" = "messages") = FALSE /\ FALSE \in BOOLEAN
  OBVIOUS
<1> QED BY <1>1, <1>3, <1>5, <1>10, <1>11, PlanKeeps

\* A reply concludes the dispatches it answers.
LEMMA RepliesInStep ==
  ASSUME TypeInv, setting' = setting, InStep(World, state, task, Todo, events, Landed), TakeReply
  PROVE  InStep(World', state', task', Todo', events', Landed')
<1>1. PICK m \in Letters, s \in Pictures, t \in [TaskNames -> Tasks] : \E X \in SUBSET TaskNames : \E T \in SUBSET Rows :
         /\ X = {x \in TaskNames : task[x].pc = "reply" /\ x[1] = m.row /\ task[x].of = m.of}
         /\ s = Concluded(state, X, T) /\ t = Answered(state, X, T, TRUE)
         /\ Perform("messages", s, t, <<>>, <<>>, FALSE)
         /\ lane["messages"] = Idle /\ mail # <<>> /\ UNCHANGED <<db, events, gateway, machine, period, spent>>
  BY TakeReplyPlan, ZenonT(30)
<1>2. PICK X \in SUBSET TaskNames : \E T \in SUBSET Rows :
         /\ X = {x \in TaskNames : task[x].pc = "reply" /\ x[1] = m.row /\ task[x].of = m.of}
         /\ s = Concluded(state, X, T) /\ t = Answered(state, X, T, TRUE)
         /\ Perform("messages", s, t, <<>>, <<>>, FALSE)
         /\ lane["messages"] = Idle /\ mail # <<>> /\ UNCHANGED <<db, events, gateway, machine, period, spent>>
  BY <1>1
<1>3. PICK T \in SUBSET Rows :
         /\ s = Concluded(state, X, T) /\ t = Answered(state, X, T, TRUE)
         /\ Perform("messages", s, t, <<>>, <<>>, FALSE)
         /\ lane["messages"] = Idle /\ mail # <<>> /\ UNCHANGED <<db, events, gateway, machine, period, spent>>
  BY <1>2
<1>4. PICK w, td, d, ev : w = World /\ td = Todo /\ d = Landed /\ ev = events
  OBVIOUS
<1>5. "messages" \in Lanes /\ <<>> \in Seq(Cmds) /\ <<>> \in Seq(Acts) /\ state \in Pictures /\ X \subseteq TaskNames
  BY EmptySeq DEF TypeInv, Lanes
<1>6. td \in [Lanes -> Seq(Acts)] /\ InStep(w, state, task, td, ev, d) /\ [td EXCEPT !["messages"] = <<>>] = td
  BY <1>3, <1>4, <1>5, TodoOf
<1>7. \A y \in X : task[y].pc \in InFlight
  BY <1>2 DEF InFlight
<1>8. InStep(w, s, t, td, ev, d)
  BY <1>3, <1>5, <1>6, <1>7, Concludes
<1>9. Landed' = d
  BY <1>3, <1>4, <1>5, LandedPerforms
<1>10. InStep(World, s, t, [Todo EXCEPT !["messages"] = <<>>], events', d)
  BY <1>3, <1>4, <1>6, <1>8
<1> QED BY <1>3, <1>5, <1>9, <1>10, PlanKeeps

\* The machine says where a unit is, or that it has none.
LEMMA JobsInStep ==
  ASSUME TypeInv, setting' = setting, InStep(World, state, task, Todo, events, Landed), TakeJob
  PROVE  InStep(World', state', task', Todo', events', Landed')
<1>1. PICK m \in Letters, s \in Pictures, list \in Seq(Acts) :
         /\ m.row \in Rows
         /\ s.row = state.row /\ s.boot = state.boot /\ s.sent \subseteq state.sent
         /\ \/ (m.kind = "released" \/ ~IsOpen(state, m.row)) /\ list = <<>>
            \/ m.kind = "arrived" /\ IsOpen(state, m.row) /\ list = <<Do("accumulate", m.row)>>
            \/ m.kind \in {"withdrawn", "misread"} /\ IsOpen(state, m.row) /\ list = FailHandoff(s, m.row)
         /\ Perform("messages", s, task, <<>>, list, FALSE)
         /\ lane["messages"] = Idle /\ mail # <<>> /\ UNCHANGED <<db, events, gateway, machine, period, spent>>
  BY TakeJobPlan
<1>2. PICK w, td, d, ev : w = World /\ td = Todo /\ d = Landed /\ ev = events
  OBVIOUS
<1>3. "messages" \in Lanes /\ <<>> \in Seq(Cmds) /\ task \in [TaskNames -> Tasks] /\ state \in Pictures
  BY EmptySeq DEF TypeInv, Lanes
<1>4. td \in [Lanes -> Seq(Acts)] /\ InStep(w, state, task, td, ev, d) /\ [td EXCEPT !["messages"] = <<>>] = td /\ td["messages"] = <<>>
  BY <1>1, <1>2, <1>3, TodoOf
<1>5. ~w.restarted => s.boot \in {0, 1}
  BY <1>1, <1>4 DEF InStep
<1>6. InStep(w, s, task, td, ev, d)
  BY <1>1, <1>3, <1>4, <1>5, Lighter
<1>7. list = <<>> \/ (IsOpen(state, m.row) /\ \A i \in DOMAIN list : list[i].do \notin {"dispatch", "refuse"} /\ list[i].row = m.row)
  <2>1. CASE list = <<>>
    BY <2>1
  <2>2. CASE m.kind = "arrived" /\ IsOpen(state, m.row) /\ list = <<Do("accumulate", m.row)>>
    BY <2>2 DEF Do
  <2>3. CASE m.kind \in {"withdrawn", "misread"} /\ IsOpen(state, m.row) /\ list = FailHandoff(s, m.row)
    <3>1. \A i \in DOMAIN list : list[i] = IF i = 1 THEN Do("fail", m.row) ELSE Do("cancel", m.row)
      BY <1>1, <2>3, CancelOf
    <3>2. /\ Do("fail", m.row).do = "fail" /\ Do("fail", m.row).row = m.row
          /\ Do("cancel", m.row).do = "cancel" /\ Do("cancel", m.row).row = m.row
      BY DEF Do
    <3>3. \A i \in DOMAIN list : list[i].do \notin {"dispatch", "refuse"} /\ list[i].row = m.row
      BY <3>1, <3>2
    <3> QED BY <2>3, <3>3
  <2> QED BY <1>1, <2>1, <2>2, <2>3
<1>8. InStep(w, s, task, [td EXCEPT !["messages"] = list], ev, d)
  <2>1. CASE list = <<>>
    BY <1>4, <1>6, <2>1
  <2>2. CASE IsOpen(state, m.row) /\ \A i \in DOMAIN list : list[i].do \notin {"dispatch", "refuse"} /\ list[i].row = m.row
    <3>1. s.row[m.row] # "unknown"
      BY <1>1, <2>2 DEF IsOpen, Open
    <3>2. \A i \in DOMAIN list :
            \/ i + 0 \in DOMAIN td["messages"] /\ list[i] = td["messages"][i + 0]
            \/ list[i].do \notin {"dispatch", "refuse"} /\ s.row[list[i].row] # "unknown"
      BY <2>2, <3>1
    <3> QED BY <1>3, <1>4, <1>6, <3>2, Lists
  <2> QED BY <1>7, <2>1, <2>2
<1>9. Landed' = d
  BY <1>1, <1>2, <1>3, LandedPerforms
<1>10. InStep(World, s, task, [Todo EXCEPT !["messages"] = list], events', d)
  BY <1>1, <1>2, <1>8
<1> QED BY <1>1, <1>3, <1>9, <1>10, PlanKeeps

\* A snapshot answers who asked for it; one of a new boot has work sent again.
LEMMA SnapshotsInStep ==
  ASSUME TypeInv, Kept, Orderly, setting' = setting, InStep(World, state, task, Todo, events, Landed), TakeSnapshot
  PROVE  InStep(World', state', task', Todo', events', Landed')
<1>1. PICK m \in Letters, k \in Pictures, s \in Pictures, t \in [TaskNames -> Tasks], out \in Seq(Cmds) :
            \E X \in SUBSET TaskNames : \E open \in SUBSET Rows : \E again \in SUBSET Rows :
              SnapshotPlan(m, k, s, t, out, X, open, again) /\ Perform("messages", s, t, out, <<>>, FALSE)
  BY TakeSnapshotPlan
<1>2. lane["messages"] = Idle /\ mail # <<>> /\ UNCHANGED <<db, events, gateway, machine, period, spent>>
  BY TakeSnapshotPlan
<1>3. PICK X \in SUBSET TaskNames, open \in SUBSET Rows, again \in SUBSET Rows :
         SnapshotPlan(m, k, s, t, out, X, open, again) /\ Perform("messages", s, t, out, <<>>, FALSE)
  BY <1>1
<1>4. /\ m = mail[1] /\ m.kind = "snapshot"
      /\ X = {x \in TaskNames : task[x].pc = "status"}
      /\ state.boot \in {0, m.boot} => open = {} /\ again = {}
      /\ \A r \in open : state.row[r] = "accepted"
      /\ \A r \in again : state.row[r] = "closed" /\ r \in state.sent
  BY <1>3 DEF SnapshotPlan
<1>5. /\ k.row = state.row /\ k.boot = m.boot /\ k.sent \subseteq state.sent
      /\ s = Concluded(k, X, m.jobs)
      /\ \A x \in TaskNames :
           t[x] = IF x[2] = "again" /\ x[1] \in open THEN Asking(FALSE)
                  ELSE IF x[2] = "again" /\ x[1] \in again THEN Asking(TRUE)
                  ELSE Answered(k, X, m.jobs, FALSE)[x]
  BY <1>3 DEF SnapshotPlan
<1>6. PICK w, td, d, ev : w = World /\ td = Todo /\ d = Landed /\ ev = events
  OBVIOUS
<1>7. "messages" \in Lanes /\ <<>> \in Seq(Acts) /\ task \in [TaskNames -> Tasks] /\ state \in Pictures /\ X \subseteq TaskNames
  BY EmptySeq DEF TypeInv, Lanes
<1>8. td \in [Lanes -> Seq(Acts)] /\ InStep(w, state, task, td, ev, d) /\ [td EXCEPT !["messages"] = <<>>] = td
  BY <1>2, <1>6, <1>7, TodoOf
<1>9. /\ w.restarted <=> spent["restart"] # 0
      /\ w.late <=> spent["timeout"] # 0
      /\ ~w.restarted \/ ~w.late
  BY <1>6 DEF World, Orderly
<1>10. 1 \in DOMAIN mail
  <2>1. mail \in Seq(Letters) /\ Len(mail) \in Nat \ {0}
    BY <1>2, LetterOf DEF TypeInv
  <2> QED BY <2>1, LenProperties
<1>11. ~w.restarted => m.boot = 1 /\ state.boot \in {0, 1}
  BY <1>4, <1>8, <1>9, <1>10 DEF Kept, InStep
<1>12. ~w.restarted => k.boot \in {0, 1} /\ open = {} /\ again = {}
  BY <1>4, <1>5, <1>11
<1>13. ~w.late => X = {}
  <2> SUFFICES ASSUME ~w.late, NEW x \in X PROVE FALSE
    OBVIOUS
  <2>1. task[x].pc = "status" /\ x \in TaskNames
    BY <1>4
  <2>2. x[1] \in Rows /\ x[2] \in Sends /\ x = <<x[1], x[2]>>
    BY <2>1 DEF TaskNames
  <2>3. TaskInStep(w, state, task, x[1], x[2])
    BY <1>8, <2>2 DEF InStep, TasksInStep
  <2> QED BY <2>1, <2>2, <2>3 DEF TaskInStep
<1>14. InStep(w, s, t, td, ev, d)
  <2>1. CASE open = {} /\ again = {}
    <3>1. InStep(w, k, task, td, ev, d)
      BY <1>5, <1>7, <1>8, <1>12, Lighter
    <3>2. \A y \in X : task[y].pc \in InFlight
      BY <1>4 DEF InFlight
    <3>3. PICK u : u = Answered(k, X, m.jobs, FALSE)
      OBVIOUS
    <3>4. InStep(w, s, u, td, ev, d)
      BY <1>5, <1>7, <1>8, <1>13, <3>1, <3>2, <3>3, Concludes
    <3>5. u \in [TaskNames -> Tasks]
      BY <1>7, <3>3, AnsweredOf
    <3>6. \A x \in TaskNames : t[x] = u[x]
      BY <1>5, <2>1, <3>3
    <3>7. t = u
      BY <3>5, <3>6
    <3> QED BY <3>4, <3>7
  <2>2. CASE ~(open = {} /\ again = {})
    <3>1. w.restarted /\ ~w.late
      BY <1>9, <1>12, <2>2
    <3>2. X = {}
      BY <1>13, <3>1
    <3>3. PICK u : u = Answered(k, X, m.jobs, FALSE)
      OBVIOUS
    <3>4. \A x \in TaskNames : u[x] = task[x]
      <4>1. DOMAIN task = TaskNames /\ \A x \in TaskNames : x \notin X
        BY <1>7, <3>2
      <4> QED BY <3>3, <4>1 DEF Answered
    <3>5. \A r \in Rows, j \in Sends : <<r, j>> \in TaskNames
      BY DEF TaskNames
    <3>6. \A r \in Rows : t[<<r, "first">>] = task[<<r, "first">>]
      <4> SUFFICES ASSUME NEW r \in Rows PROVE t[<<r, "first">>] = task[<<r, "first">>]
        OBVIOUS
      <4>1. PICK x : x = <<r, "first">>
        OBVIOUS
      <4>2. x \in TaskNames /\ x[2] # "again"
        BY <3>5, <4>1 DEF Sends
      <4> QED BY <1>5, <3>3, <3>4, <4>1, <4>2
    <3>7. \A r \in Rows : t[<<r, "again">>] = IF r \in open THEN Asking(FALSE) ELSE IF r \in again THEN Asking(TRUE)
                                              ELSE task[<<r, "again">>]
      <4> SUFFICES ASSUME NEW r \in Rows
                   PROVE  t[<<r, "again">>] = IF r \in open THEN Asking(FALSE) ELSE IF r \in again THEN Asking(TRUE)
                                              ELSE task[<<r, "again">>]
        OBVIOUS
      <4>1. PICK x : x = <<r, "again">>
        OBVIOUS
      <4>2. x \in TaskNames /\ x[2] = "again" /\ x[1] = r
        BY <3>5, <4>1 DEF Sends
      <4> QED BY <1>5, <3>3, <3>4, <4>1, <4>2
    <3>8. InStep(w, state, t, td, ev, d)
      <4>1. Resent(state, task, t, open, again)
        BY <1>4, <3>6, <3>7 DEF Resent
      <4> QED BY <1>7, <1>8, <3>1, <4>1, Resends
    <3>9. /\ Concluded(k, X, m.jobs).sent \subseteq k.sent \cup Asks(X)
          /\ \A r \in Rows : Concluded(k, X, m.jobs).row[r] = IF r \notin Asks(X) \/ ~IsOpen(k, r) THEN k.row[r]
                                                               ELSE IF r \in m.jobs THEN "accepted" ELSE "refused"
      BY <1>7, ConcludedOf
    <3>10. Asks(X) = {}
      BY <3>2 DEF Asks
    <3>11. s.sent \subseteq state.sent /\ \A r \in Rows : s.row[r] = state.row[r]
      BY <1>5, <3>9, <3>10
    <3>12. s.row = state.row
      BY <1>7, <3>11 DEF Pictures
    <3> QED BY <1>7, <1>8, <3>1, <3>8, <3>11, <3>12, Lighter
  <2> QED BY <2>1, <2>2
<1>15. Landed' = d
  BY <1>2, <1>3, <1>6, <1>7, LandedPerforms
<1>16. InStep(World, s, t, [Todo EXCEPT !["messages"] = <<>>], events', d)
  BY <1>2, <1>6, <1>8, <1>14
<1> QED BY <1>2, <1>3, <1>7, <1>15, <1>16, PlanKeeps

\* The line read back, the retained snapshot is applied.
LEMMA ReadBackInStep ==
  ASSUME TypeInv, Kept, setting' = setting, InStep(World, state, task, Todo, events, Landed), ReadBack
  PROVE  InStep(World', state', task', Todo', events', Landed')
<1>1. PICK s \in Pictures :
         /\ s.row = state.row /\ s.boot = machine.said.boot /\ s.sent \subseteq state.sent
         /\ Perform("events", s, task, <<>>, <<>>, FALSE)
         /\ lane["events"] = Idle /\ UNCHANGED <<db, events, machine, period, spent>>
  BY ReadBackPlan
<1>2. PICK w, td, d, ev : w = World /\ td = Todo /\ d = Landed /\ ev = events
  OBVIOUS
<1>3. "events" \in Lanes /\ <<>> \in Seq(Cmds) /\ <<>> \in Seq(Acts) /\ task \in [TaskNames -> Tasks] /\ state \in Pictures
  BY EmptySeq DEF TypeInv, Lanes
<1>4. td \in [Lanes -> Seq(Acts)] /\ InStep(w, state, task, td, ev, d) /\ [td EXCEPT !["events"] = <<>>] = td
  BY <1>1, <1>2, <1>3, TodoOf
<1>5. ~w.restarted => s.boot \in {0, 1}
  BY <1>1, <1>2 DEF World, Kept
<1>6. InStep(w, s, task, td, ev, d)
  BY <1>1, <1>3, <1>4, <1>5, Lighter
<1>7. Landed' = d
  BY <1>1, <1>2, <1>3, LandedPerforms
<1>8. InStep(World, s, task, [Todo EXCEPT !["events"] = <<>>], events', d)
  BY <1>1, <1>2, <1>4, <1>6
<1> QED BY <1>1, <1>3, <1>7, <1>8, PlanKeeps

\* A gateway that takes over reads every pending row back.
LEMMA TakeOverInStep ==
  ASSUME TypeInv, Kept, setting' = setting, TakeOver
  PROVE  InStep(World', state', task', Todo', events', Landed')
<1>1. PICK s \in Pictures, list \in Seq(Acts) :
         /\ \A r \in Rows : s.row[r] = IF Claimed(r) THEN "accepted" ELSE IF db[r].status = "pending" THEN "waiting" ELSE "unknown"
         /\ s.sent = {} /\ s.boot = 0
         /\ \A i \in DOMAIN list : list[i].do = "receive" /\ list[i].row \in Rows /\ Claimed(list[i].row)
         /\ Perform("events", s, task, <<>>, list, TRUE)
         /\ gateway = "down" /\ UNCHANGED <<db, events, machine, period, spent>>
  BY TakeOverPlan
<1>2. PICK w, td, d, ev : w = World /\ td = [Todo EXCEPT !["events"] = list] /\ d = Landed /\ ev = events
  OBVIOUS
<1>3. "events" \in Lanes /\ <<>> \in Seq(Cmds) /\ task \in [TaskNames -> Tasks] /\ TRUE \in BOOLEAN
  BY EmptySeq DEF TypeInv, Lanes
<1>4. ev = {} /\ (\A l \in Lanes : lane[l] = Idle) /\ \A x \in TaskNames : task[x] = NoTask
  BY <1>1, <1>2 DEF TypeInv, DownOK
<1>5. d = {}
  BY <1>2, <1>4, IdleOf DEF Landed
<1>6. \A r \in Rows, k \in Sends : task[<<r, k>>].pc = "idle"
  BY <1>4 DEF TaskNames, NoTask
<1>7. td["events"] = list /\ \A l \in Lanes \ {"events"} : td[l] = <<>>
  BY <1>2, <1>3, <1>4, TodoOf
<1>8. w.db = db /\ w.unfit = setting.unfit
  BY <1>2 DEF World
<1>9. RowsInStep(w, s, task, ev, d)
  <2> SUFFICES ASSUME NEW r \in Rows PROVE RowInStep(w, s, task, ev, d, r)
    BY DEF RowsInStep
  <2>1. CASE Claimed(r)
    <3>1. s.row[r] = "accepted" /\ db[r].status = "pending" /\ r \notin setting.unfit
      BY <1>1, <2>1 DEF Claimed, Kept
    <3> QED BY <1>8, <3>1 DEF RowInStep, Awaits
  <2>2. CASE ~Claimed(r)
    <3>1. s.row[r] = IF db[r].status = "pending" THEN "waiting" ELSE "unknown"
      BY <1>1, <2>2
    <3> HIDE DEF Told
    <3> QED BY <1>1, <1>8, <2>2, <3>1 DEF RowInStep, Awaits, Fresh, Claimed, IsOpen, Open, Sent
  <2> QED BY <2>1, <2>2
<1>10. TasksInStep(w, s, task)
  BY <1>6 DEF TasksInStep, TaskInStep
<1>11. \A l \in Lanes : \A i \in DOMAIN td[l] : l = "events" /\ i \in DOMAIN list /\ td[l][i] = list[i]
  <2> SUFFICES ASSUME NEW l \in Lanes, NEW i \in DOMAIN td[l] PROVE l = "events" /\ i \in DOMAIN list /\ td[l][i] = list[i]
    OBVIOUS
  <2>1. l = "events"
    <3> SUFFICES ASSUME l # "events" PROVE FALSE
      OBVIOUS
    <3>1. td[l] = <<>>
      BY <1>7
    <3> QED BY <3>1
  <2> QED BY <1>7, <2>1
<1>12. ActsInStep(w, s, task, td) /\ Apart(td)
  <2>1. \A i \in DOMAIN list : ActInStep(w, s, task, list[i])
    <3> SUFFICES ASSUME NEW i \in DOMAIN list PROVE ActInStep(w, s, task, list[i])
      OBVIOUS
    <3>1. list[i].do = "receive" /\ s.row[list[i].row] = "accepted"
      BY <1>1
    <3> QED BY <3>1 DEF ActInStep
  <2>2. \A l \in Lanes : \A i \in DOMAIN td[l] : td[l][i].do = "receive" /\ ActInStep(w, s, task, td[l][i])
    BY <1>1, <1>11, <2>1
  <2> QED BY <2>2 DEF ActsInStep, Apart
<1>13. InStep(w, s, task, td, ev, d)
  BY <1>1, <1>5, <1>9, <1>10, <1>12 DEF InStep
<1>14. Landed' = d
  BY <1>1, <1>2, <1>3, <1>4, LandedPerforms
<1>15. InStep(World, s, task, [Todo EXCEPT !["events"] = list], events', d)
  BY <1>1, <1>2, <1>13
<1>16. "events" # "messages"
  OBVIOUS
<1> QED BY <1>1, <1>3, <1>14, <1>15, <1>16, PlanKeeps

\* A row moves on, without being claimed: nobody is out of step.
Ages(w, x, r) == /\ x.unfit = w.unfit /\ x.restarted = w.restarted /\ x.late = w.late
                 /\ Over(w, r) => Over(x, r)
                 /\ Fresh(w, r) => Fresh(x, r)

LEMMA WorkAges ==
  ASSUME NEW w, NEW x, NEW s, NEW t, NEW r, Ages(w, x, r)
  PROVE  /\ \A k \in Sends : TaskInStep(w, s, t, r, k) => TaskInStep(x, s, t, r, k)
         /\ \A a : a.row = r /\ ActInStep(w, s, t, a) => ActInStep(x, s, t, a)
<1> HIDE DEF Over, Fresh, Sends
<1>1. \A k \in Sends : TaskInStep(w, s, t, r, k) => TaskInStep(x, s, t, r, k)
  BY DEF Ages, TaskInStep
<1>2. \A a : a.row = r /\ ActInStep(w, s, t, a) => ActInStep(x, s, t, a)
  BY DEF Ages, ActInStep
<1> QED BY <1>1, <1>2

LEMMA NextWorld ==
  setting' = setting /\ spent' = spent =>
    /\ World'.db = db' /\ World.db = db /\ World.unfit = setting.unfit /\ World'.unfit = World.unfit
    /\ World'.restarted = World.restarted /\ World'.late = World.late
BY DEF World

\* A verb lands: a row it ends is told of by its answer.
LEMMA LandsInStep ==
  ASSUME TypeInv, Kept, setting' = setting, InStep(World, state, task, Todo, events, Landed), NEW l \in Lanes, VerbLands(l)
  PROVE  /\ InStep(World', state', task', Todo', events', Landed')
         /\ \A q \in Rows : db'[q].claimed => db'[q].status # "none" /\ q \notin setting.unfit
<1>1. PICK a, r : a = lane[l].todo[1] /\ r = a.row
  OBVIOUS
<1>2. a.do \in Verbs /\ r \in Rows /\ Head(lane[l].todo) = a /\ 1 \in DOMAIN lane[l].todo
  BY <1>1, AtWork DEF VerbLands
<1>3. Land(a.do, r)
  BY <1>1, <1>2 DEF VerbLands
<1>4. lane' = [lane EXCEPT ![l].landed = TRUE] /\ UNCHANGED <<gateway, state, task, cmds, machine, mail, period, spent>>
  BY DEF VerbLands, machineVars
<1>5. PICK w, x, td, d, d2, ev, now : w = World /\ x = World' /\ td = Todo /\ d = Landed /\ d2 = Landed' /\ ev = events /\ now = events'
  OBVIOUS
<1>6. x.db = db' /\ w.db = db /\ w.unfit = setting.unfit /\ x.unfit = w.unfit /\ x.restarted = w.restarted /\ x.late = w.late
  BY <1>4, <1>5, NextWorld
<1>7. td \in [Lanes -> Seq(Acts)] /\ InStep(w, state, task, td, ev, d) /\ state \in Pictures /\ td[l] = lane[l].todo
  BY <1>5, TodoOf DEF TypeInv
<1>8. lane \in [Lanes -> LaneRecords]
  BY DEF TypeInv, LanesOK
<1>9. \A m \in Lanes : lane'[m].todo = lane[m].todo /\ (lane'[m].landed <=> lane[m].landed \/ m = l)
  BY <1>4, <1>8 DEF LaneRecords
<1>10. Todo' = td
  BY <1>5, <1>9 DEF Todo
<1>11. \A q : q \in d2 <=> q \in d \/ (q = r /\ a.do \in Closing)
  BY <1>1, <1>2, <1>5, <1>9 DEF Landed
<1>12. /\ \A q \in Rows \ {r} : db'[q] = db[q]
       /\ \A q, verb : <<q, verb>> \in ev => <<q, verb>> \in now
       /\ db[r].status # "pending" => db' = db
       /\ db'[r].claimed = db[r].claimed
       /\ db'[r].status = db[r].status \/ db'[r].status \in {"received", "failed"}
  <2>1. PICK verb : verb = a.do
    OBVIOUS
  <2>2. verb \in Verbs \cup {"claim"} /\ verb # "claim"
    BY <1>2, <2>1 DEF Verbs
  <2>3. Land(verb, r)
    BY <1>3, <2>1
  <2>4. /\ events \subseteq events' /\ \A q \in Rows \ {r} : db'[q] = db[q]
    BY <1>2, <2>2, <2>3, LandOf
  <2>5. db[r].status # "pending" => db' = db
    BY <1>2, <2>2, <2>3, LandOf
  <2>6. db'[r].claimed = db[r].claimed
    <3>1. db \in [Rows -> DbRecords]
      BY DEF TypeInv
    <3> QED BY <1>2, <2>2, <2>3, <3>1 DEF Land, DbRecords
  <2>7. db'[r].status = db[r].status \/ db'[r].status \in {"received", "failed"}
    BY <1>2, <2>2, <2>3, LandOf
  <2> QED BY <1>5, <2>4, <2>5, <2>6, <2>7
<1>13. a.do = "accumulate" => db'[r].status = db[r].status
  BY <1>2, <1>3, LandOf DEF Verbs
<1>14. ActInStep(w, state, task, a)
  BY <1>1, <1>2, <1>7 DEF InStep, ActsInStep
<1>15. RowInStep(w, state, task, ev, d, r) /\ \A k \in Sends : TaskInStep(w, state, task, r, k)
  BY <1>2, <1>7 DEF InStep, RowsInStep, TasksInStep
<1>16. db[r].status # "none"
  BY <1>1, <1>6, <1>14, <1>15 DEF ActInStep, RowInStep
<1>17. a.do \in Closing => Over(x, r)
  <2> SUFFICES ASSUME a.do \in Closing PROVE Over(x, r)
    OBVIOUS
  <2>1. CASE db[r].status # "pending"
    BY <1>6, <1>12, <1>16, <2>1 DEF Over
  <2>2. CASE db[r].status = "pending"
    <3>1. a.do = "refuse" => ~db[r].claimed
      BY <1>1, <1>2, <1>6, <1>14 DEF ActInStep, Kept
    <3>2. a.do \in {"receive", "fail"} \/ (a.do = "refuse" /\ ~db[r].claimed)
      BY <3>1 DEF Closing
    <3>3. db'[r].status # "pending"
      BY <1>2, <1>3, <2>2, <3>2, LandOf DEF Verbs
    <3> QED BY <1>6, <1>12, <2>2, <3>3 DEF Over
  <2> QED BY <2>1, <2>2
<1>18. (Over(w, r) => Over(x, r)) /\ (Awaits(x, r) => Awaits(w, r)) /\ (Fresh(w, r) => Fresh(x, r))
  BY <1>6, <1>12 DEF Over, Awaits, Fresh
<1>19. Told(w, task, ev, d, r) => Told(x, task, now, d2, r)
  <2>1. CASE db[r].status # "pending"
    <3>1. x.db[r] = w.db[r]
      BY <1>6, <1>12, <2>1
    <3> QED BY <1>11, <1>12, <3>1 DEF Told
  <2>2. CASE db[r].status = "pending" /\ a.do \in Closing
    BY <1>11, <2>2 DEF Told
  <2>3. CASE a.do = "accumulate"
    <3>1. x.db[r].status = w.db[r].status
      BY <1>6, <1>13, <2>3
    <3> QED BY <1>11, <1>12, <3>1 DEF Told
  <2> QED BY <1>2, <2>1, <2>2, <2>3 DEF Verbs, Closing
<1>20. RowInStep(x, state, task, now, d2, r)
  <2>1. IsOpen(state, r) => Awaits(x, r) \/ Told(x, task, now, d2, r)
    <3>1. CASE a.do \in Closing
      BY <1>11, <3>1 DEF Told
    <3>2. CASE a.do = "accumulate"
      <4>1. Awaits(w, r) => Awaits(x, r)
        BY <1>6, <1>13, <3>2 DEF Awaits
      <4> HIDE DEF Told
      <4> QED BY <1>15, <1>19, <4>1 DEF RowInStep
    <3> QED BY <1>2, <3>1, <3>2 DEF Verbs, Closing
  <2>2. state.row[r] # "unknown" => x.db[r].status # "none"
    BY <1>6, <1>12, <1>16
  <2>3. state.row[r] # "unknown"
    BY <1>1, <1>14 DEF ActInStep
  <2> HIDE DEF Told, Over, Awaits, Fresh
  <2> QED BY <1>6, <1>15, <1>18, <2>1, <2>2, <2>3 DEF RowInStep
<1>21. Ages(w, x, r)
  BY <1>6, <1>18 DEF Ages
<1>22. /\ \A k \in Sends : TaskInStep(x, state, task, r, k)
       /\ \A b \in Acts : b.row = r /\ ActInStep(w, state, task, b) => ActInStep(x, state, task, b)
  BY <1>15, <1>21, WorkAges
<1>23. \A q \in d2 : Over(x, q)
  <2> SUFFICES ASSUME NEW q \in d2 PROVE Over(x, q)
    OBVIOUS
  <2>1. CASE q = r
    BY <1>7, <1>11, <1>17, <1>18, <2>1 DEF InStep
  <2>2. CASE q # r
    <3>1. q \in d /\ q \in Rows /\ Over(w, q)
      BY <1>5, <1>7, <1>11, <2>2 DEF InStep, Landed
    <3> QED BY <1>6, <1>12, <2>2, <3>1 DEF Over
  <2> QED BY <2>1, <2>2
<1>24. Concerns(r, w, x, state, state, task, task, ev, now, d, d2)
  <2> HIDE DEF Over
  <2> QED BY <1>6, <1>11, <1>12, <1>20, <1>22, <1>23 DEF Concerns
<1>25. InStep(x, state, task, td, now, d2)
  BY <1>2, <1>7, <1>24, OneRow
<1>26. InStep(World', state', task', Todo', events', Landed')
  BY <1>4, <1>5, <1>10, <1>25
<1>27. \A q \in Rows : db'[q].claimed => db'[q].status # "none" /\ q \notin setting.unfit
  BY <1>2, <1>12, <1>16 DEF Kept
<1> QED BY <1>26, <1>27

\* An accepted dispatch claims its row: it was the row's only one.
LEMMA ClaimsInStep ==
  ASSUME TypeInv, Kept, setting' = setting, InStep(World, state, task, Todo, events, Landed),
         NEW y \in TaskNames, TaskClaims(y)
  PROVE  /\ InStep(World', state', task', Todo', events', Landed')
         /\ \A q \in Rows : db'[q].claimed => db'[q].status # "none" /\ q \notin setting.unfit
<1>1. PICK r, j : r = y[1] /\ j = y[2]
  OBVIOUS
<1>2. r \in Rows /\ j \in Sends /\ y = <<r, j>>
  BY <1>1 DEF TaskNames
<1>3. task[y].pc = "claim" /\ Land("claim", r) /\ task' = [task EXCEPT ![y] = NoTask]
      /\ UNCHANGED <<gateway, state, lane, cmds, machine, mail, period, spent>>
  BY <1>1 DEF TaskClaims, machineVars
<1>4. PICK w, x, td, d, ev, u : w = World /\ x = World' /\ td = Todo /\ d = Landed /\ ev = events /\ u = task'
  OBVIOUS
<1>5. x.db = db' /\ w.db = db /\ w.unfit = setting.unfit /\ x.unfit = w.unfit /\ x.restarted = w.restarted /\ x.late = w.late
  BY <1>3, <1>4, NextWorld
<1>6. td \in [Lanes -> Seq(Acts)] /\ InStep(w, state, task, td, ev, d) /\ state \in Pictures
  BY <1>4, TodoOf DEF TypeInv
<1>7. Todo' = td /\ Landed' = d
  BY <1>3, <1>4 DEF Todo, Landed
<1>8. /\ \A q \in Rows \ {r} : db'[q] = db[q]
      /\ db'[r].status = db[r].status /\ (db[r].status # "pending" => db' = db) /\ events' = ev
  BY <1>2, <1>3, <1>4, LandOf
<1>9. task \in [TaskNames -> Tasks]
  BY DEF TypeInv
<1>10. /\ \A q \in Rows, k \in Sends : <<q, k>> # y => u[<<q, k>>] = task[<<q, k>>]
       /\ u[<<r, j>>].pc = "idle"
  <2>1. \A q \in Rows, k \in Sends : <<q, k>> \in TaskNames
    BY DEF TaskNames
  <2> QED BY <1>2, <1>3, <1>4, <1>9, <2>1 DEF NoTask
<1>11. RowInStep(w, state, task, ev, d, r) /\ \A k \in Sends : TaskInStep(w, state, task, r, k)
  BY <1>2, <1>6 DEF InStep, RowsInStep, TasksInStep
<1>12. /\ state.row[r] \notin {"unknown", "waiting"} /\ r \notin w.unfit
       /\ ~w.restarted => j = "first"
  BY <1>2, <1>3, <1>11 DEF TaskInStep
<1>13. RowInStep(x, state, u, ev, d, r)
  <2>1. Told(w, task, ev, d, r) => Told(x, u, ev, d, r)
    <3>1. \A k \in Sends : task[<<r, k>>].pc = "failed" => u[<<r, k>>].pc = "failed"
      BY <1>2, <1>3, <1>10
    <3> QED BY <1>5, <1>8, <3>1 DEF Told
  <2>2. (Awaits(x, r) <=> Awaits(w, r)) /\ (Over(x, r) <=> Over(w, r)) /\ x.db[r].status = w.db[r].status
    BY <1>5, <1>8 DEF Awaits, Over
  <2> HIDE DEF Told, Awaits, Over
  <2> QED BY <1>5, <1>11, <1>12, <2>1, <2>2 DEF RowInStep
<1>14. \A k \in Sends : TaskInStep(x, state, u, r, k)
  <2> SUFFICES ASSUME NEW k \in Sends, u[<<r, k>>].pc # "idle" PROVE TaskInStep(x, state, u, r, k)
    BY DEF TaskInStep
  <2>1. k # j /\ u[<<r, k>>] = task[<<r, k>>]
    BY <1>2, <1>10
  <2>2. TaskInStep(w, state, task, r, k)
    BY <1>11
  <2>3. w.restarted
    BY <1>12, <2>1, <2>2 DEF TaskInStep
  <2>4. \A i \in Sends : u[<<r, i>>].pc \in InFlight => u[<<r, i>>] = task[<<r, i>>]
    BY <1>2, <1>10 DEF InFlight
  <2>5. Over(w, r) => Over(x, r)
    BY <1>5, <1>8 DEF Over
  <2>6. "again" \in Sends
    BY DEF Sends
  <2> HIDE DEF Sends, Over
  <2> QED BY <1>5, <2>1, <2>2, <2>3, <2>4, <2>5, <2>6 DEF TaskInStep
<1>15. \A a \in Acts : a.row = r /\ ActInStep(w, state, task, a) => ActInStep(x, state, u, a)
  <2> SUFFICES ASSUME NEW a \in Acts, a.row = r, ActInStep(w, state, task, a) PROVE ActInStep(x, state, u, a)
    OBVIOUS
  <2>1. a.do # "dispatch"
    BY <1>2, <1>3 DEF ActInStep
  <2> QED BY <1>5, <2>1 DEF ActInStep
<1>16. \A q \in d : Over(x, q)
  <2> SUFFICES ASSUME NEW q \in d PROVE Over(x, q)
    OBVIOUS
  <2>1. q \in Rows /\ Over(w, q)
    BY <1>4, <1>6 DEF InStep, Landed
  <2> QED BY <1>5, <1>8, <2>1 DEF Over
<1>17. \A q \in Rows \ {r} : \A k \in Sends : u[<<q, k>>] = task[<<q, k>>]
  BY <1>2, <1>10
<1>18. Concerns(r, w, x, state, state, task, u, ev, ev, d, d)
  <2> HIDE DEF Over
  <2> QED BY <1>5, <1>8, <1>13, <1>14, <1>15, <1>16, <1>17 DEF Concerns
<1>19. InStep(x, state, u, td, ev, d)
  BY <1>2, <1>6, <1>18, OneRow
<1>20. InStep(World', state', task', Todo', events', Landed')
  BY <1>3, <1>4, <1>7, <1>8, <1>19
<1>21. \A q \in Rows : db'[q].claimed => db'[q].status # "none" /\ q \notin setting.unfit
  <2> SUFFICES ASSUME NEW q \in Rows, db'[q].claimed PROVE db'[q].status # "none" /\ q \notin setting.unfit
    OBVIOUS
  <2>1. CASE q # r
    BY <1>8, <2>1 DEF Kept
  <2>2. CASE q = r /\ db[r].status # "pending"
    BY <1>8, <2>2 DEF Kept
  <2>3. CASE q = r /\ db[r].status = "pending"
    BY <1>5, <1>8, <1>12, <2>3
  <2> QED BY <2>1, <2>2, <2>3
<1> QED BY <1>20, <1>21

\* A dispatch fails its row: no answer was late, or the machine did not restart
\* and so did not claim it before.
LEMMA FailsInStep ==
  ASSUME TypeInv, Kept, Orderly, setting' = setting, InStep(World, state, task, Todo, events, Landed),
         NEW y \in TaskNames, TaskFails(y)
  PROVE  /\ InStep(World', state', task', Todo', events', Landed')
         /\ \A q \in Rows : db'[q].claimed => db'[q].status # "none" /\ q \notin setting.unfit
<1>1. PICK r, j, verb : r = y[1] /\ j = y[2] /\ verb = IF task[y].refused THEN "fail" ELSE "refuse"
  OBVIOUS
<1>2. r \in Rows /\ j \in Sends /\ y = <<r, j>> /\ verb \in Verbs \cup {"claim"} /\ verb # "claim"
  BY <1>1 DEF TaskNames, Verbs
<1>3. task[y].pc = "fail" /\ Land(verb, r) /\ UNCHANGED <<gateway, state, lane, cmds, machine, mail, period, spent>>
  BY <1>1 DEF TaskFails, machineVars
<1>4. PICK w, x, td, d, ev, now, u : w = World /\ x = World' /\ td = Todo /\ d = Landed /\ ev = events /\ now = events' /\ u = task'
  OBVIOUS
<1>5. /\ x.db = db' /\ w.db = db /\ w.unfit = setting.unfit /\ x.unfit = w.unfit /\ x.restarted = w.restarted /\ x.late = w.late
      /\ ~w.restarted \/ ~w.late
  BY <1>3, <1>4, NextWorld DEF Orderly, World
<1>6. td \in [Lanes -> Seq(Acts)] /\ InStep(w, state, task, td, ev, d) /\ state \in Pictures
  BY <1>4, TodoOf DEF TypeInv
<1>7. Todo' = td /\ Landed' = d
  BY <1>3, <1>4 DEF Todo, Landed
<1>8. /\ \A q \in Rows \ {r} : db'[q] = db[q]
      /\ \A q, v : <<q, v>> \in ev => <<q, v>> \in now
  BY <1>2, <1>3, <1>4, LandOf
<1>9. db[r].status # "pending" => db' = db
  BY <1>2, <1>3, LandOf
<1>10. db'[r].status = db[r].status \/ db'[r].status \in {"received", "failed"}
  BY <1>2, <1>3, LandOf
<1>11. db'[r].claimed = db[r].claimed
  <2>1. db \in [Rows -> DbRecords]
    BY DEF TypeInv
  <2> QED BY <1>2, <1>3, <2>1 DEF Land, DbRecords
<1>12. /\ \A q \in Rows, k \in Sends : <<q, k>> # y => u[<<q, k>>] = task[<<q, k>>]
       /\ u[<<r, j>>].pc = "failed"
  <2>1. \A q \in Rows, k \in Sends : <<q, k>> \in TaskNames
    BY DEF TaskNames
  <2>2. PICK n : n = [task[y] EXCEPT !.pc = "failed", !.done = (db' # db)]
    OBVIOUS
  <2>3. task \in [TaskNames -> Tasks] /\ task[y] \in Tasks
    BY DEF TypeInv
  <2>4. task' = [task EXCEPT ![y] = n]
    BY <2>2, <2>3 DEF TaskFails
  <2>5. n.pc = "failed"
    BY <2>2, <2>3 DEF Tasks
  <2>6. \A q \in Rows, k \in Sends : <<q, k>> # y => u[<<q, k>>] = task[<<q, k>>]
    BY <1>4, <2>1, <2>3, <2>4
  <2>7. u[y] = n
    BY <1>4, <2>3, <2>4
  <2> QED BY <1>2, <2>5, <2>6, <2>7
<1>13. RowInStep(w, state, task, ev, d, r) /\ \A k \in Sends : TaskInStep(w, state, task, r, k)
  BY <1>2, <1>6 DEF InStep, RowsInStep, TasksInStep
<1>14. /\ state.row[r] \in {"refused", "closed"} /\ r \notin w.unfit
       /\ ~w.restarted => j = "first" /\ Fresh(w, r)
       /\ ~w.late => task[y].refused
       /\ \A k \in Sends : task[<<r, k>>].pc \in InFlight => task[<<r, k>>].ended
  <2>1. TaskInStep(w, state, task, r, j) /\ task[<<r, j>>].pc = "fail"
    BY <1>2, <1>3, <1>13
  <2>2. ~w.restarted => j = "first" /\ Fresh(w, r)
    BY <2>1 DEF TaskInStep
  <2>3. ~w.late => task[y].refused
    BY <1>2, <2>1 DEF TaskInStep
  <2> HIDE DEF Fresh
  <2> QED BY <2>1, <2>2, <2>3 DEF TaskInStep
<1>15. Over(x, r)
  <2>1. db[r].status # "none"
    BY <1>5, <1>13, <1>14 DEF RowInStep
  <2>2. CASE db[r].status # "pending"
    BY <1>5, <1>9, <2>1, <2>2 DEF Over
  <2>3. CASE db[r].status = "pending"
    <3>1. verb = "fail" \/ (verb = "refuse" /\ ~db[r].claimed)
      <4>1. CASE task[y].refused
        BY <1>1, <4>1
      <4>2. CASE ~task[y].refused
        <5>1. w.late /\ ~w.restarted
          BY <1>5, <1>14, <4>2
        <5> QED BY <1>1, <1>5, <1>14, <2>3, <4>2, <5>1 DEF Fresh, Awaits
      <4> QED BY <4>1, <4>2
    <3>2. db'[r].status # "pending"
      BY <1>2, <1>3, <2>3, <3>1, LandOf
    <3> QED BY <1>5, <1>10, <2>3, <3>2 DEF Over
  <2> QED BY <2>2, <2>3
<1>16. (Over(w, r) => Over(x, r)) /\ ~Awaits(x, r) /\ Fresh(x, r) /\ x.db[r].status # "none"
  BY <1>15 DEF Over, Awaits, Fresh
<1>17. RowInStep(x, state, u, now, d, r)
  <2>1. Told(x, u, now, d, r)
    BY <1>2, <1>12 DEF Told
  <2> HIDE DEF Told, Over, Fresh, Awaits
  <2> QED BY <1>5, <1>13, <1>14, <1>15, <1>16, <2>1 DEF RowInStep
<1>18. \A k \in Sends : TaskInStep(x, state, u, r, k)
  <2> SUFFICES ASSUME NEW k \in Sends, u[<<r, k>>].pc # "idle" PROVE TaskInStep(x, state, u, r, k)
    BY DEF TaskInStep
  <2>1. \A i \in Sends : u[<<r, i>>].pc \in InFlight => i # j /\ u[<<r, i>>] = task[<<r, i>>]
    BY <1>2, <1>12 DEF InFlight
  <2>2. "again" \in Sends
    BY DEF Sends
  <2>3. \A i \in Sends : u[<<r, i>>].pc \in InFlight => u[<<r, i>>].ended
    BY <1>14, <2>1
  <2>4. CASE k = j
    <3>1. u[<<r, k>>].pc = "failed" /\ u[<<r, k>>].pc \notin {"reply", "status", "fail"}
      BY <1>12, <2>4
    <3>2. ~x.restarted => k = "first"
      BY <1>5, <1>14, <2>4
    <3> HIDE DEF Over, Fresh, Sends
    <3> QED BY <1>5, <1>14, <1>15, <1>16, <2>3, <3>1, <3>2 DEF TaskInStep, InFlight
  <2>5. CASE k # j
    <3>1. u[<<r, k>>] = task[<<r, k>>] /\ TaskInStep(w, state, task, r, k)
      BY <1>2, <1>12, <1>13, <2>5
    <3> HIDE DEF Over, Fresh, Sends
    <3> QED BY <1>5, <1>15, <1>16, <2>1, <2>2, <2>3, <3>1 DEF TaskInStep
  <2> QED BY <2>4, <2>5
<1>19. \A a \in Acts : a.row = r /\ ActInStep(w, state, task, a) => ActInStep(x, state, u, a)
  <2> SUFFICES ASSUME NEW a \in Acts, a.row = r, ActInStep(w, state, task, a) PROVE ActInStep(x, state, u, a)
    OBVIOUS
  <2>1. a.do # "dispatch"
    BY <1>2, <1>3 DEF ActInStep
  <2> QED BY <1>5, <2>1 DEF ActInStep
<1>20. \A q \in d : Over(x, q)
  <2> SUFFICES ASSUME NEW q \in d, q # r PROVE Over(x, q)
    BY <1>15
  <2>1. q \in Rows /\ Over(w, q)
    BY <1>4, <1>6 DEF InStep, Landed
  <2> QED BY <1>5, <1>8, <2>1 DEF Over
<1>21. \A q \in Rows \ {r} : \A k \in Sends : u[<<q, k>>] = task[<<q, k>>]
  BY <1>2, <1>12
<1>22. Concerns(r, w, x, state, state, task, u, ev, now, d, d)
  <2> HIDE DEF Over
  <2> QED BY <1>5, <1>8, <1>17, <1>18, <1>19, <1>20, <1>21 DEF Concerns
<1>23. InStep(x, state, u, td, now, d)
  BY <1>2, <1>6, <1>22, OneRow
<1>24. InStep(World', state', task', Todo', events', Landed')
  BY <1>3, <1>4, <1>7, <1>23
<1>25. \A q \in Rows : db'[q].claimed => db'[q].status # "none" /\ q \notin setting.unfit
  <2>1. db'[r].status # "none"
    BY <1>5, <1>16
  <2> QED BY <1>5, <1>8, <1>14, <2>1 DEF Kept
<1> QED BY <1>24, <1>25

\* The failed dispatch shuts its row.
LEMMA EndsInStep ==
  ASSUME TypeInv, setting' = setting, InStep(World, state, task, Todo, events, Landed), NEW y \in TaskNames, TaskEnds(y)
  PROVE  InStep(World', state', task', Todo', events', Landed')
<1>1. PICK r, j : r = y[1] /\ j = y[2]
  OBVIOUS
<1>2. r \in Rows /\ j \in Sends /\ y = <<r, j>>
  BY <1>1 DEF TaskNames
<1>3. task[y].pc = "failed" /\ state' = Shut(state, r) /\ task' = [task EXCEPT ![y] = NoTask]
      /\ UNCHANGED <<db, events, gateway, lane, machine, mail, period, spent>>
  BY <1>1 DEF TaskEnds, machineVars
<1>4. PICK w, td, d, ev, u, n : w = World /\ td = Todo /\ d = Landed /\ ev = events /\ u = task' /\ n = Shut(state, r)
  OBVIOUS
<1>5. World' = w /\ Todo' = td /\ Landed' = d
  BY <1>3, <1>4, SameWorld DEF Todo, Landed
<1>6. td \in [Lanes -> Seq(Acts)] /\ InStep(w, state, task, td, ev, d) /\ state \in Pictures /\ task \in [TaskNames -> Tasks]
  BY <1>4, TodoOf DEF TypeInv
<1>7. Over(w, r)
  <2>1. TaskInStep(w, state, task, r, j)
    BY <1>2, <1>6 DEF InStep, TasksInStep
  <2> QED BY <1>2, <1>3, <2>1 DEF TaskInStep
<1>8. \A q \in Rows, k \in Sends : u[<<q, k>>] = IF <<q, k>> = y THEN NoTask ELSE task[<<q, k>>]
  <2>1. \A q \in Rows, k \in Sends : <<q, k>> \in TaskNames
    BY DEF TaskNames
  <2> QED BY <1>3, <1>4, <1>6, <2>1
<1>9. /\ \A q \in Rows \ {r} : \A k \in Sends : u[<<q, k>>] = task[<<q, k>>]
      /\ \A k \in Sends : u[<<r, k>>] = task[<<r, k>>] \/ u[<<r, k>>].pc = "idle"
  BY <1>2, <1>8 DEF NoTask
<1>10. InStep(w, n, u, td, ev, d)
  BY <1>2, <1>4, <1>6, <1>7, <1>9, Shuts
<1> QED BY <1>3, <1>4, <1>5, <1>10

\* An answer that is late.
LEMMA LateWorld ==
  ASSUME TypeInv, Late, setting' = setting, db' = db
  PROVE  /\ World'.db = World.db /\ World'.unfit = World.unfit /\ World'.late
         /\ World.restarted <=> World'.restarted
<1>1. spent'["timeout"] # 0 /\ \A g \in FaultKinds \ {"timeout"} : spent'[g] = spent[g]
  BY SpendOf
<1>2. "restart" \in FaultKinds \ {"timeout"}
  BY DEF FaultKinds
<1>3. spent'["restart"] = spent["restart"]
  BY <1>1, <1>2
<1> QED BY <1>1, <1>3 DEF World

LEMMA LateInStep ==
  ASSUME TypeInv, setting' = setting, InStep(World, state, task, Todo, events, Landed),
         NEW y \in TaskNames, ReplyLate(y) \/ StatusLate(y)
  PROVE  InStep(World', state', task', Todo', events', Landed')
<1>1. PICK r, j : r = y[1] /\ j = y[2]
  OBVIOUS
<1>2. r \in Rows /\ j \in Sends /\ y = <<r, j>>
  BY <1>1 DEF TaskNames
<1>3. Late /\ UNCHANGED <<db, events, gateway, lane, machine, mail, period>>
  BY DEF ReplyLate, StatusLate, machineVars
<1>4. PICK w, x, td, d, ev, u : w = World /\ x = World' /\ td = Todo /\ d = Landed /\ ev = events /\ u = task'
  OBVIOUS
<1>5. x.db = w.db /\ x.unfit = w.unfit /\ x.late /\ (w.restarted => x.restarted)
  BY <1>3, <1>4, LateWorld
<1>6. Todo' = td /\ Landed' = d /\ events' = ev
  BY <1>3, <1>4 DEF Todo, Landed
<1>7. td \in [Lanes -> Seq(Acts)] /\ InStep(w, state, task, td, ev, d) /\ state \in Pictures /\ task \in [TaskNames -> Tasks]
  BY <1>4, TodoOf DEF TypeInv
<1>8. InStep(x, state, task, td, ev, d)
  BY <1>5, <1>7, Worlds
<1>9. CASE StatusLate(y)
  <2>1. PICK X, n : X = {y} /\ n = Concluded(state, {y}, {})
    OBVIOUS
  <2>2. task[y].pc = "status" /\ state' = n /\ u = Answered(state, X, {}, FALSE) /\ n = Concluded(state, X, {})
    BY <1>4, <1>9, <2>1 DEF StatusLate
  <2>3. X \subseteq TaskNames /\ \A z \in X : task[z].pc \in InFlight
    BY <2>1, <2>2 DEF InFlight
  <2>4. InStep(x, n, u, td, ev, d)
    BY <1>5, <1>7, <1>8, <2>2, <2>3, Concludes
  <2> QED BY <1>4, <1>6, <2>2, <2>4
<1>10. CASE ReplyLate(y)
  <2>1. /\ task[y].pc = "reply" /\ state' = state
        /\ \A q \in Rows, k \in Sends : <<q, k>> # y => u[<<q, k>>] = task[<<q, k>>]
        /\ u[y].pc \in InFlight /\ u[y].ended = task[y].ended
    <3>1. PICK again : again = (task[y].attempt < setting.attempts)
      OBVIOUS
    <3>2. PICK a, pc : a = (IF again THEN task[y].attempt + 1 ELSE task[y].attempt) /\ pc = (IF again THEN task[y].pc ELSE "status")
      OBVIOUS
    <3>3. task[y].pc = "reply" /\ state' = state /\ u = [task EXCEPT ![y].attempt = a, ![y].pc = pc]
      BY <1>4, <1>10, <3>1, <3>2 DEF ReplyLate
    <3>4. PICK t : t = [task[y] EXCEPT !.attempt = a, !.pc = pc]
      OBVIOUS
    <3>5. task[y] \in Tasks /\ \A q \in Rows, k \in Sends : <<q, k>> \in TaskNames
      BY <1>7 DEF TaskNames
    <3>6. u = [task EXCEPT ![y] = t]
      BY <1>7, <3>3, <3>4, <3>5 DEF Tasks
    <3>7. t.pc = pc /\ t.ended = task[y].ended
      BY <3>4, <3>5 DEF Tasks
    <3>8. pc \in InFlight
      BY <3>2, <3>3 DEF InFlight
    <3>9. u[y] = t /\ \A q \in Rows, k \in Sends : <<q, k>> # y => u[<<q, k>>] = task[<<q, k>>]
      BY <1>7, <3>5, <3>6
    <3> QED BY <3>3, <3>7, <3>8, <3>9
  <2>2. RowInStep(x, state, task, ev, d, r) /\ \A k \in Sends : TaskInStep(x, state, task, r, k)
    BY <1>2, <1>8 DEF InStep, RowsInStep, TasksInStep
  <2>3. \A k \in Sends :
          /\ u[<<r, k>>].pc \in InFlight <=> task[<<r, k>>].pc \in InFlight
          /\ u[<<r, k>>].pc = "idle" <=> task[<<r, k>>].pc = "idle"
          /\ u[<<r, k>>].pc \notin InFlight => u[<<r, k>>] = task[<<r, k>>]
          /\ u[<<r, k>>].ended = task[<<r, k>>].ended
    <3> SUFFICES ASSUME NEW k \in Sends
                 PROVE  /\ u[<<r, k>>].pc \in InFlight <=> task[<<r, k>>].pc \in InFlight
                        /\ u[<<r, k>>].pc = "idle" <=> task[<<r, k>>].pc = "idle"
                        /\ u[<<r, k>>].pc \notin InFlight => u[<<r, k>>] = task[<<r, k>>]
                        /\ u[<<r, k>>].ended = task[<<r, k>>].ended
      OBVIOUS
    <3>1. CASE <<r, k>> = y
      BY <2>1, <3>1 DEF InFlight
    <3>2. CASE <<r, k>> # y
      <4>1. u[<<r, k>>] = task[<<r, k>>]
        BY <1>2, <2>1, <3>2
      <4> QED BY <4>1
    <3> QED BY <3>1, <3>2
  <2>4. RowInStep(x, state, u, ev, d, r)
    <3>1. Told(x, task, ev, d, r) => Told(x, u, ev, d, r)
      <4>1. \A k \in Sends : task[<<r, k>>].pc = "failed" => u[<<r, k>>].pc = "failed"
        BY <2>3 DEF InFlight
      <4> QED BY <4>1 DEF Told
    <3> HIDE DEF Told
    <3> QED BY <2>2, <3>1 DEF RowInStep
  <2>5. \A k \in Sends : TaskInStep(x, state, u, r, k)
    <3> SUFFICES ASSUME NEW k \in Sends, u[<<r, k>>].pc # "idle" PROVE TaskInStep(x, state, u, r, k)
      BY DEF TaskInStep
    <3>1. TaskInStep(x, state, task, r, k) /\ task[<<r, k>>].pc # "idle"
      BY <2>2, <2>3
    <3>2. "again" \in Sends
      BY DEF Sends
    <3>3. u[<<r, k>>].pc \in {"fail", "failed"} => u[<<r, k>>] = task[<<r, k>>]
      BY <2>3 DEF InFlight
    <3>4. \A i \in Sends : u[<<r, i>>].pc \in InFlight => task[<<r, i>>].pc \in InFlight /\ u[<<r, i>>].ended = task[<<r, i>>].ended
      BY <2>3
    <3> HIDE DEF Sends, InFlight
    <3> QED BY <1>5, <3>1, <3>2, <3>3, <3>4 DEF TaskInStep
  <2>6. \A a \in Acts : a.row = r /\ ActInStep(x, state, task, a) => ActInStep(x, state, u, a)
    <3> SUFFICES ASSUME NEW a \in Acts, a.row = r, ActInStep(x, state, task, a) PROVE ActInStep(x, state, u, a)
      OBVIOUS
    <3>1. a.do # "dispatch"
      BY <1>2, <2>1 DEF ActInStep
    <3> QED BY <3>1 DEF ActInStep
  <2>7. (\A q \in d : Over(x, q)) /\ \A q \in Rows \ {r} : \A k \in Sends : u[<<q, k>>] = task[<<q, k>>]
    BY <1>2, <1>8, <2>1 DEF InStep
  <2>8. Concerns(r, x, x, state, state, task, u, ev, ev, d, d)
    BY <2>4, <2>5, <2>6, <2>7 DEF Concerns
  <2>9. InStep(x, state, u, td, ev, d)
    BY <1>2, <1>7, <1>8, <2>8, OneRow
  <2> QED BY <1>4, <1>6, <2>1, <2>9
<1> QED BY <1>9, <1>10

\* The hosts park rows and withdraw them while the gateway listens.
LEMMA HostsInStep ==
  ASSUME TypeInv, Kept, Orderly, setting' = setting, NEW r \in Rows, Park(r) \/ Withdraw(r)
  PROVE  /\ InStep(World, state, task, Todo, events, Landed) => InStep(World', state', task', Todo', events', Landed')
         /\ \A q \in Rows : db'[q].claimed => db'[q].status # "none" /\ q \notin setting.unfit
<1>1. PICK status, verb :
        /\ \/ status = "pending" /\ verb = "created" /\ db[r].status = "none"
           \/ status = "withdrawn" /\ verb = "ended" /\ db[r].status = "pending"
        /\ db' = [db EXCEPT ![r].status = status] /\ Emit(r, verb) /\ HostActs
        /\ UNCHANGED <<gateway, state, lane, task, cmds, machine, period, mail, spent>>
  BY DEF Park, Withdraw, leaderVars, machineVars
<1>2. gateway = "up"
  BY <1>1 DEF HostActs, Orderly
<1>3. events' = events \cup {<<r, verb>>}
  BY <1>1, <1>2 DEF Emit
<1>4. db \in [Rows -> DbRecords]
  BY DEF TypeInv
<1>5. /\ \A q \in Rows \ {r} : db'[q] = db[q]
      /\ db'[r].status = status /\ (db'[r].claimed <=> db[r].claimed)
  BY <1>1, <1>4 DEF DbRecords
<1>6. db[r].status = "none" => ~db[r].claimed
  BY DEF Kept
<1>7. \A q \in Rows : db'[q].claimed => db'[q].status # "none" /\ q \notin setting.unfit
  BY <1>1, <1>5 DEF Kept
<1>8. ASSUME InStep(World, state, task, Todo, events, Landed) PROVE InStep(World', state', task', Todo', events', Landed')
  <2>1. PICK w, x, td, d, ev, now : w = World /\ x = World' /\ td = Todo /\ d = Landed /\ ev = events /\ now = events'
    OBVIOUS
  <2>2. x.db = db' /\ w.db = db /\ x.unfit = w.unfit /\ x.restarted = w.restarted /\ x.late = w.late
    BY <1>1, <2>1, NextWorld
  <2>3. td \in [Lanes -> Seq(Acts)] /\ InStep(w, state, task, td, ev, d) /\ state \in Pictures
    BY <1>8, <2>1, TodoOf DEF TypeInv
  <2>4. Todo' = td /\ Landed' = d
    BY <1>1, <2>1 DEF Todo, Landed
  <2>5. RowInStep(w, state, task, ev, d, r) /\ \A k \in Sends : TaskInStep(w, state, task, r, k)
    BY <2>3 DEF InStep, RowsInStep, TasksInStep
  <2>6. Over(w, r) <=> FALSE
    BY <1>1, <2>2 DEF Over
  <2>7. RowInStep(x, state, task, now, d, r)
    <3>1. CASE status = "pending"
      <4>1. state.row[r] = "unknown"
        BY <1>1, <2>2, <2>5, <3>1 DEF RowInStep
      <4>2. <<r, "created">> \in now /\ Fresh(x, r)
        BY <1>1, <1>3, <1>5, <1>6, <2>1, <2>2, <3>1 DEF Fresh
      <4> HIDE DEF Told, Fresh
      <4> QED BY <2>2, <2>5, <4>1, <4>2 DEF RowInStep, IsOpen, Open
    <3>2. CASE status = "withdrawn"
      <4>1. <<r, "ended">> \in now /\ x.db[r].status \in Fitting["ended"] /\ x.db[r].status # "none"
        BY <1>1, <1>3, <1>5, <2>1, <2>2, <3>2 DEF Fitting
      <4>2. Told(x, task, now, d, r)
        BY <4>1 DEF Told
      <4>3. Over(x, r) /\ ~Awaits(x, r) /\ Fresh(x, r)
        BY <1>5, <2>2, <3>2 DEF Over, Awaits, Fresh
      <4> HIDE DEF Told, Fresh, Over, Awaits
      <4> QED BY <2>2, <2>5, <4>1, <4>2, <4>3 DEF RowInStep
    <3> QED BY <1>1, <3>1, <3>2
  <2>8. /\ \A k \in Sends : TaskInStep(x, state, task, r, k)
        /\ \A a \in Acts : a.row = r /\ ActInStep(w, state, task, a) => ActInStep(x, state, task, a)
    <3>1. CASE status = "pending"
      <4>1. state.row[r] = "unknown"
        BY <1>1, <2>2, <2>5, <3>1 DEF RowInStep
      <4> QED BY <2>5, <4>1 DEF TaskInStep, ActInStep
    <3>2. CASE status = "withdrawn"
      <4>1. Ages(w, x, r)
        BY <1>5, <2>2, <2>6, <3>2 DEF Ages, Fresh, Awaits
      <4> QED BY <2>5, <4>1, WorkAges
    <3> QED BY <1>1, <3>1, <3>2
  <2>9. \A q \in d : Over(x, q)
    <3> SUFFICES ASSUME NEW q \in d PROVE Over(x, q)
      OBVIOUS
    <3>1. q \in Rows /\ Over(w, q)
      BY <2>1, <2>3 DEF InStep, Landed
    <3>2. q # r
      BY <2>6, <3>1
    <3> QED BY <1>5, <2>2, <3>1, <3>2 DEF Over
  <2>10. \A q \in Rows \ {r} : \A v \in Happenings : <<q, v>> \in ev => <<q, v>> \in now
    BY <1>3, <2>1
  <2>11. Concerns(r, w, x, state, state, task, task, ev, now, d, d)
    <3> HIDE DEF Over
    <3> QED BY <1>5, <2>2, <2>7, <2>8, <2>9, <2>10 DEF Concerns
  <2>12. InStep(x, state, task, td, now, d)
    BY <2>3, <2>11, OneRow
  <2> QED BY <1>1, <2>1, <2>4, <2>12
<1> QED BY <1>7, <1>8

\* What a handler leaves alone: Long Tail's rows, and the machine but for the
\* message it acks.
LEMMA HandlersAck ==
  ASSUME TypeInv,
         \/ \E l \in Lanes : VerbReturns(l)
         \/ \E r \in Rows, verb \in Happenings : OnEscalation(r, verb)
         \/ TakeReply \/ TakeJob \/ TakeSnapshot \/ TakeOver \/ ReadBack
  PROVE  UNCHANGED <<db, machine, spent>> /\ (mail' = mail \/ (mail # <<>> /\ mail' = Tail(mail)))
<1>1. \A l \in Lanes : \A s, t, out, list, paced : Perform(l, s, t, out, list, paced) =>
        mail' = mail \/ (l = "messages" /\ mail' = Tail(mail))
  BY DEF Perform
<1> HIDE DEF Perform
<1>2. ASSUME NEW l \in Lanes, VerbReturns(l) PROVE UNCHANGED <<db, machine, spent>> /\ (mail' = mail \/ (mail # <<>> /\ mail' = Tail(mail)))
  <2>1. UNCHANGED <<db, machine, spent>> /\ (mail' = mail \/ (l = "messages" /\ mail' = Tail(mail))) /\ lane[l].todo # <<>>
    BY <1>1, <1>2 DEF VerbReturns, machineVars
  <2> QED BY <2>1, AtWork
<1>3. ASSUME NEW r \in Rows, NEW verb \in Happenings, OnEscalation(r, verb) PROVE UNCHANGED <<db, machine, spent>> /\ mail' = mail
  BY <1>1, <1>3 DEF OnEscalation, machineVars, Lanes
<1>4. ASSUME TakeReply \/ TakeJob \/ TakeSnapshot PROVE UNCHANGED <<db, machine, spent>> /\ (mail' = mail \/ (mail # <<>> /\ mail' = Tail(mail)))
  BY <1>1, <1>4 DEF TakeReply, TakeJob, TakeSnapshot, HandlerUnchanged, Reading, machineVars, Lanes
<1>5. ASSUME TakeOver \/ ReadBack PROVE UNCHANGED <<db, machine, spent>> /\ mail' = mail
  BY <1>1, <1>5 DEF TakeOver, ReadBack, machineVars, Lanes
<1> QED BY <1>2, <1>3, <1>4, <1>5

\* The line's facts are kept where no new boot is reported.
LEMMA KeptThen ==
  ASSUME TypeInv, Kept, setting' = setting,
         \A q \in Rows : db'[q].claimed => db'[q].status # "none" /\ q \notin setting.unfit,
         spent'["restart"] = 0 =>
           /\ spent["restart"] = 0 /\ machine'.boot = machine.boot
           /\ machine'.said.boot = machine.said.boot \/ machine'.said.boot = machine.boot
           /\ \/ mail' = mail \/ (mail # <<>> /\ mail' = Tail(mail))
              \/ \E letter \in Letters : mail' = Append(mail, letter) /\ (letter.kind = "snapshot" => letter.boot = machine.boot)
  PROVE  Kept'
<1>1. ASSUME spent'["restart"] = 0
      PROVE  /\ machine'.boot = 1 /\ machine'.said.boot = 1
             /\ \A i \in DOMAIN mail' : mail'[i].kind = "snapshot" => mail'[i].boot = 1
  <2>1. /\ machine.boot = 1 /\ machine.said.boot = 1
        /\ \A i \in DOMAIN mail : mail[i].kind = "snapshot" => mail[i].boot = 1
    BY <1>1 DEF Kept
  <2>2. mail \in Seq(Letters) /\ Len(mail) \in Nat /\ DOMAIN mail = 1..Len(mail)
    BY LenProperties DEF TypeInv
  <2>3. \A i \in DOMAIN mail' : mail'[i].kind = "snapshot" => mail'[i].boot = 1
    <3>1. CASE mail' = mail
      BY <2>1, <3>1
    <3>2. CASE mail # <<>> /\ mail' = Tail(mail)
      <4>1. DOMAIN Tail(mail) = 1..(Len(mail) - 1) /\ \A i \in 1..(Len(mail) - 1) : Tail(mail)[i] = mail[i + 1]
        <5>1. PICK rest : rest = Tail(mail)
          OBVIOUS
        <5>2. rest \in Seq(Letters)
          BY <2>2, <3>2, <5>1, HeadTailProperties
        <5>3. Len(rest) = Len(mail) - 1
          BY <2>2, <3>2, <5>1, HeadTailProperties
        <5>4. \A i \in 1..Len(rest) : rest[i] = mail[i + 1]
          BY <2>2, <3>2, <5>1, HeadTailProperties
        <5>5. DOMAIN rest = 1..Len(rest)
          BY <5>2, LenProperties
        <5> QED BY <5>1, <5>3, <5>4, <5>5
      <4>2. \A i \in 1..(Len(mail) - 1) : i + 1 \in DOMAIN mail
        BY <2>2
      <4> QED BY <2>1, <3>2, <4>1, <4>2
    <3>3. ASSUME NEW letter \in Letters, mail' = Append(mail, letter), letter.kind = "snapshot" => letter.boot = machine.boot
          PROVE  \A i \in DOMAIN mail' : mail'[i].kind = "snapshot" => mail'[i].boot = 1
      <4>1. PICK n : n = Append(mail, letter)
        OBVIOUS
      <4>2. /\ DOMAIN n = 1..(Len(mail) + 1) /\ n[Len(mail) + 1] = letter
            /\ \A i \in 1..Len(mail) : n[i] = mail[i]
        <5>1. n \in Seq(Letters) /\ Len(n) = Len(mail) + 1 /\ n[Len(mail) + 1] = letter /\ \A i \in 1..Len(mail) : n[i] = mail[i]
          BY <2>2, <4>1, AppendProperties
        <5> QED BY <5>1, LenProperties
      <4>3. \A i \in 1..(Len(mail) + 1) : i \in 1..Len(mail) \/ i = Len(mail) + 1
        BY <2>2
      <4>4. \A i \in DOMAIN n : n[i].kind = "snapshot" => n[i].boot = 1
        BY <2>1, <2>2, <3>3, <4>2, <4>3
      <4> QED BY <3>3, <4>1, <4>4
    <3> QED BY <1>1, <3>1, <3>2, <3>3
  <2> QED BY <1>1, <2>1, <2>3
<1> QED BY <1>1 DEF Kept

LEMMA SpentGrows ==
  ASSUME TypeInv, NEW f \in FaultKinds, UNCHANGED spent \/ Late \/ \E g \in FaultKinds : Spend(g)
  PROVE  spent[f] # 0 => spent'[f] # 0
BY SpendOf DEF FaultKinds

\* Units move, commands run and faults happen beside the gateway, which has not heard yet.
LEMMA MachineInStep ==
  ASSUME TypeInv, Kept, setting' = setting,
         \/ RunCommand \/ (\E r \in Rows : Arrive(r) \/ Release(r)) \/ Beat \/ Restart \/ EndPeriod \/ UNCHANGED handoffVars
  PROVE  /\ InStep(World, state, task, Todo, events, Landed) => InStep(World', state', task', Todo', events', Landed')
         /\ Kept' /\ gateway' = gateway
<1>1. UNCHANGED <<db, events, gateway, state, lane, task>>
  BY DEF RunCommand, Arrive, Release, Beat, Restart, EndPeriod, MachineOnly, leaderVars, handoffVars
<1>2. \A f \in FaultKinds : spent[f] # 0 => spent'[f] # 0
  <2>1. UNCHANGED spent \/ \E g \in FaultKinds : Spend(g)
    BY DEF RunCommand, Arrive, Release, Beat, Restart, EndPeriod, handoffVars, FaultKinds
  <2> QED BY <2>1, SpentGrows
<1>3. (spent["restart"] # 0 => spent'["restart"] # 0) /\ (spent["timeout"] # 0 => spent'["timeout"] # 0)
  BY <1>2 DEF FaultKinds
<1>4. machine \in Machines /\ Snapshot(machine) \in Letters /\ Snapshot(machine).boot = machine.boot
  BY DEF TypeInv, Snapshot, JobsAt, Letters, Machines
<1>5. spent'["restart"] = 0 =>
           /\ machine'.boot = machine.boot
           /\ machine'.said.boot = machine.said.boot \/ machine'.said.boot = machine.boot
           /\ \/ mail' = mail \/ (mail # <<>> /\ mail' = Tail(mail))
              \/ \E letter \in Letters : mail' = Append(mail, letter) /\ (letter.kind = "snapshot" => letter.boot = machine.boot)
  <2>1. CASE RunCommand
    <3>1. PICK c \in Cmds :
         /\ machine'.boot = machine.boot
         /\ machine'.said = machine.said \/ machine'.said.boot = machine.boot
         /\ \/ \E ok \in BOOLEAN : mail' = Append(mail, [kind |-> "reply", row |-> c.row, of |-> c.of, ok |-> ok])
            \/ mail' = mail \/ mail' = Append(mail, Note("withdrawn", c.row)) \/ mail' = Append(mail, Snapshot(machine))
      BY <2>1, RunCommandPlan
    <3>2. \A ok \in BOOLEAN : /\ [kind |-> "reply", row |-> c.row, of |-> c.of, ok |-> ok] \in Letters
                              /\ [kind |-> "reply", row |-> c.row, of |-> c.of, ok |-> ok].kind # "snapshot"
      BY DEF Letters, Cmds
    <3>3. Note("withdrawn", c.row) \in Letters /\ Note("withdrawn", c.row).kind # "snapshot"
      BY DEF Note, Letters, Cmds
    <3>4. mail' = mail \/ \E letter \in Letters : mail' = Append(mail, letter) /\ (letter.kind = "snapshot" => letter.boot = machine.boot)
      BY <1>4, <3>1, <3>2, <3>3
    <3> QED BY <3>1, <3>4
  <2>2. ASSUME NEW r \in Rows, Arrive(r) \/ Release(r)
        PROVE  /\ machine'.boot = machine.boot /\ machine'.said.boot = machine.said.boot
               /\ \E letter \in Letters : mail' = Append(mail, letter) /\ (letter.kind = "snapshot" => letter.boot = machine.boot)
    <3>1. PICK kind \in {"misread", "arrived", "released"} : mail' = Append(mail, Note(kind, r))
      BY <2>2 DEF Arrive, Release
    <3>2. Note(kind, r) \in Letters /\ Note(kind, r).kind # "snapshot"
      BY DEF Note, Letters
    <3>3. machine'.boot = machine.boot /\ machine'.said = machine.said
      BY <1>4, <2>2 DEF Arrive, Release, Machines
    <3> QED BY <3>1, <3>2, <3>3
  <2>3. CASE Beat
    <3>1. machine' = Saying(machine) /\ mail' = Append(mail, Snapshot(machine))
      BY <2>3 DEF Beat
    <3>2. Saying(machine).boot = machine.boot /\ Saying(machine).said.boot = machine.boot
      BY <1>4 DEF Saying, Machines
    <3> QED BY <1>4, <3>1, <3>2
  <2>4. CASE Restart
    <3>1. spent'["restart"] # 0
      BY <2>4, SpendOf DEF Restart, FaultKinds
    <3> QED BY <3>1
  <2>5. CASE EndPeriod \/ UNCHANGED handoffVars
    BY <2>5 DEF EndPeriod, handoffVars
  <2> QED BY <2>1, <2>2, <2>3, <2>4, <2>5
<1>6. Kept'
  <2>1. \A q \in Rows : db'[q].claimed => db'[q].status # "none" /\ q \notin setting.unfit
    BY <1>1 DEF Kept
  <2> QED BY <1>3, <1>5, <2>1, KeptThen
<1>7. ASSUME InStep(World, state, task, Todo, events, Landed) PROVE InStep(World', state', task', Todo', events', Landed')
  <2>1. PICK w, x, td, d, ev : w = World /\ x = World' /\ td = Todo /\ d = Landed /\ ev = events
    OBVIOUS
  <2>2. x.db = w.db /\ x.unfit = w.unfit /\ (w.restarted => x.restarted) /\ (w.late => x.late)
    BY <1>1, <1>3, <2>1 DEF World
  <2>3. Todo' = td /\ Landed' = d /\ events' = ev
    BY <1>1, <2>1 DEF Todo, Landed
  <2>4. InStep(x, state, task, td, ev, d)
    BY <1>7, <2>1, <2>2, Worlds
  <2> QED BY <1>1, <2>1, <2>3, <2>4
<1> QED BY <1>1, <1>6, <1>7

\* An answer nobody waits for any more is a timeout; the other faults are spent.
LEMMA StepSpends ==
  ASSUME HandoffNext
  PROVE  setting' = setting /\ (UNCHANGED spent \/ Late \/ \E g \in FaultKinds : Spend(g))
<1> USE DEF HandoffNext
<1>1. CASE GatewayStep
  BY <1>1 DEF GatewayStep, VerbLands, VerbReturns, OnEscalation, TakeReply, TakeJob, TakeSnapshot, HandlerUnchanged,
     TaskClaims, TaskFails, TaskEnds
<1>2. CASE Takeover \/ HostStep \/ RunCommand \/ UnitMoves
  BY <1>2 DEF Takeover, TakeOver, ReadBack, HostStep, Park, Withdraw, RunCommand, UnitMoves, Arrive, Release
<1>3. CASE FaultStep
  BY <1>3 DEF FaultStep, ReplyLate, StatusLate, Crash, Beat, Restart, EndPeriod, FaultKinds
<1> QED BY <1>1, <1>2, <1>3

\* Where neither the claims nor the machine's boots change, the line's facts are kept.
LEMMA KeptBeside ==
  ASSUME TypeInv, Kept, setting' = setting, spent'["restart"] = 0 => spent["restart"] = 0,
         \A q \in Rows : db'[q].claimed => db'[q].status # "none" /\ q \notin setting.unfit,
         machine' = machine, mail' = mail \/ (mail # <<>> /\ mail' = Tail(mail))
  PROVE  Kept'
BY KeptThen

\* A handler goes on with rows, lists and tasks in step.
LEMMA HandlersInStep ==
  ASSUME TypeInv, Kept, Orderly, setting' = setting, gateway # "down",
         InStep(World, state, task, Todo, events, Landed),
         \/ \E l \in Lanes : VerbReturns(l)
         \/ \E r \in Rows, verb \in Happenings : OnEscalation(r, verb)
         \/ TakeReply \/ TakeJob \/ TakeSnapshot \/ ReadBack
  PROVE  InStep(World', state', task', Todo', events', Landed')
BY ReturnsInStep, HearsInStep, RepliesInStep, JobsInStep, SnapshotsInStep, ReadBackInStep

LEMMA InvKept == HandoffInv /\ [HandoffNext]_handoffVars => HandoffInv'
<1> SUFFICES ASSUME HandoffInv, [HandoffNext]_handoffVars PROVE HandoffInv'
  OBVIOUS
<1>1. TypeInv /\ TypeInv'
  BY TypesKept DEF HandoffInv
<1>2. SUFFICES ASSUME Orderly' PROVE Kept' /\ (gateway' # "down" => InStep(World', state', task', Todo', events', Landed'))
  BY <1>1 DEF HandoffInv
<1>3. setting' = setting /\ (UNCHANGED spent \/ Late \/ \E g \in FaultKinds : Spend(g))
  BY StepSpends DEF handoffVars
<1>4. \A f \in FaultKinds : spent'[f] = 0 => spent[f] = 0
  BY <1>1, <1>3, SpentGrows
<1>5. Orderly /\ (spent'["restart"] = 0 => spent["restart"] = 0)
  BY <1>2, <1>3, <1>4 DEF Orderly, FaultKinds
<1>6. Kept /\ (gateway # "down" => InStep(World, state, task, Todo, events, Landed))
  BY <1>5 DEF HandoffInv
<1>7. \A q \in Rows : db[q].claimed => db[q].status # "none" /\ q \notin setting.unfit
  BY <1>6 DEF Kept
<1>8. DOMAIN task = TaskNames /\ DOMAIN Fitting = Happenings
  BY <1>1 DEF TypeInv, Fitting, Happenings
<1>9. ASSUME \/ \E l \in Lanes : VerbReturns(l)
             \/ \E r \in Rows, verb \in Happenings : OnEscalation(r, verb)
             \/ TakeReply \/ TakeJob \/ TakeSnapshot \/ TakeOver \/ ReadBack
      PROVE  Kept' /\ InStep(World', state', task', Todo', events', Landed')
  <2>1. UNCHANGED <<db, machine, spent>> /\ (mail' = mail \/ (mail # <<>> /\ mail' = Tail(mail)))
    BY <1>1, <1>9, HandlersAck
  <2>2. Kept'
    BY <1>1, <1>3, <1>5, <1>6, <1>7, <2>1, KeptBeside
  <2>3. CASE TakeOver
    BY <1>1, <1>3, <1>6, <2>2, <2>3, TakeOverInStep
  <2>4. CASE ~TakeOver
    <3>1. gateway # "down"
      <4>1. \A l \in Lanes : VerbReturns(l) => gateway # "down"
        BY <1>1, AtWork DEF VerbReturns
      <4> QED BY <1>9, <2>4, <4>1 DEF OnEscalation, TakeReply, TakeJob, TakeSnapshot, ReadBack, Reading
    <3> QED BY <1>1, <1>3, <1>5, <1>6, <1>9, <2>2, <2>4, <3>1, HandlersInStep
  <2> QED BY <2>3, <2>4
<1>10. ASSUME NEW l \in Lanes, VerbLands(l) PROVE Kept' /\ InStep(World', state', task', Todo', events', Landed')
  <2>1. machine' = machine /\ mail' = mail /\ lane[l].todo # <<>>
    BY <1>10 DEF VerbLands, machineVars
  <2>2. gateway # "down"
    BY <1>1, <2>1, AtWork
  <2>3. /\ InStep(World', state', task', Todo', events', Landed')
        /\ \A q \in Rows : db'[q].claimed => db'[q].status # "none" /\ q \notin setting.unfit
    BY <1>1, <1>3, <1>6, <1>10, <2>2, LandsInStep
  <2> QED BY <1>1, <1>3, <1>5, <1>6, <2>1, <2>3, KeptBeside
<1>11. ASSUME NEW y \in TaskNames, TaskClaims(y) \/ TaskFails(y) \/ TaskEnds(y) \/ ReplyLate(y) \/ StatusLate(y)
       PROVE  Kept' /\ InStep(World', state', task', Todo', events', Landed')
  <2>1. machine' = machine /\ mail' = mail /\ task[y].pc # "idle"
    BY <1>11 DEF TaskClaims, TaskFails, TaskEnds, ReplyLate, StatusLate, machineVars
  <2>2. InStep(World, state, task, Todo, events, Landed)
    BY <1>1, <1>6, <2>1, TaskAtWork
  <2>3. TaskEnds(y) \/ ReplyLate(y) \/ StatusLate(y) => db' = db
    BY DEF TaskEnds, ReplyLate, StatusLate
  <2>4. InStep(World', state', task', Todo', events', Landed')
    BY <1>1, <1>3, <1>5, <1>6, <1>11, <2>2, ClaimsInStep, FailsInStep, EndsInStep, LateInStep
  <2>5. \A q \in Rows : db'[q].claimed => db'[q].status # "none" /\ q \notin setting.unfit
    <3>1. CASE TaskClaims(y) \/ TaskFails(y)
      BY <1>1, <1>3, <1>5, <1>6, <2>2, <3>1, ClaimsInStep, FailsInStep
    <3>2. CASE db' = db
      BY <1>7, <3>2
    <3> QED BY <1>11, <2>3, <3>1, <3>2
  <2> QED BY <1>1, <1>3, <1>5, <1>6, <2>1, <2>4, <2>5, KeptBeside
<1>12. ASSUME NEW r \in Rows, Park(r) \/ Withdraw(r)
       PROVE  Kept' /\ (gateway' # "down" => InStep(World', state', task', Todo', events', Landed'))
  <2>1. machine' = machine /\ mail' = mail /\ gateway' = gateway
    BY <1>12 DEF Park, Withdraw, leaderVars, machineVars
  <2>2. \A q \in Rows : db'[q].claimed => db'[q].status # "none" /\ q \notin setting.unfit
    BY <1>1, <1>3, <1>5, <1>6, <1>12, HostsInStep
  <2>3. Kept'
    BY <1>1, <1>3, <1>5, <1>6, <2>1, <2>2, KeptBeside
  <2>4. ASSUME gateway' # "down" PROVE InStep(World', state', task', Todo', events', Landed')
    BY <1>1, <1>3, <1>5, <1>6, <1>12, <2>1, <2>4, HostsInStep
  <2> QED BY <2>3, <2>4
<1>13. CASE Crash
  <2>1. db' = db /\ machine' = machine /\ mail' = mail /\ gateway' = "down"
    BY <1>13 DEF Crash, machineVars
  <2> QED BY <1>1, <1>3, <1>5, <1>6, <1>7, <2>1, KeptBeside
<1>14. CASE RunCommand \/ (\E r \in Rows : Arrive(r) \/ Release(r)) \/ Beat \/ Restart \/ EndPeriod \/ UNCHANGED handoffVars
  BY <1>1, <1>3, <1>6, <1>14, MachineInStep
<1>15. CASE GatewayStep
  BY <1>8, <1>9, <1>10, <1>11, <1>15 DEF GatewayStep
<1>16. CASE Takeover \/ HostStep
  BY <1>9, <1>12, <1>16 DEF Takeover, HostStep
<1>17. CASE RunCommand \/ UnitMoves \/ UNCHANGED handoffVars
  BY <1>14, <1>17 DEF UnitMoves
<1>18. CASE FaultStep
  BY <1>8, <1>11, <1>13, <1>14, <1>18 DEF FaultStep
<1> QED BY <1>15, <1>16, <1>17, <1>18 DEF HandoffNext

LEMMA InvBegins == HandoffInit => HandoffInv
<1> SUFFICES ASSUME HandoffInit PROVE HandoffInv
  OBVIOUS
<1>1. TypeInv /\ gateway = "down"
  BY InitTyped DEF HandoffInit
<1>2. \A r \in Rows : ~db[r].claimed
  BY DEF HandoffInit
<1>3. machine.boot = 1 /\ machine.said.boot = 1 /\ mail = <<>>
  BY DEF HandoffInit
<1>4. Kept
  BY <1>2, <1>3 DEF Kept
<1> QED BY <1>1, <1>4 DEF HandoffInv

\* Rows, tasks and lists in step, and nothing under way: the open rows are the
\* pending ones.
LEMMA NothingTold ==
  ASSUME TypeInv, Quiet, InStep(World, state, task, Todo, events, Landed), NEW r \in Rows
  PROVE  db[r].status = "pending" <=> IsOpen(state, r)
<1>1. Landed = {}
  BY DEF Quiet, Landed, Idle
<1>2. events = {} /\ \A k \in Sends : task[<<r, k>>].pc # "failed"
  <2>1. \A k \in Sends : <<r, k>> \in DOMAIN task
    BY DEF TypeInv, TaskNames
  <2> QED BY <2>1 DEF Quiet
<1>3. PICK w, d : w = World /\ d = Landed
  OBVIOUS
<1>4. RowInStep(w, state, task, events, d, r) /\ w.db = db /\ d = {}
  BY <1>1, <1>3 DEF InStep, RowsInStep, World
<1>5. ~Told(w, task, events, d, r)
  BY <1>2, <1>4 DEF Told
<1>6. state.row[r] \in Dispatches
  BY DEF TypeInv, Pictures
<1> HIDE DEF Told
<1> QED BY <1>2, <1>4, <1>5, <1>6 DEF RowInStep, Awaits, Over, IsOpen, Open, Dispatches

\* As long as hosts park rows and end waits while a gateway listens: when nothing
\* is under way, the gateway holds open exactly the rows that are pending, over any
\* number of rows, commands, crashes and takeovers, and either late answers or
\* machine restarts (gateway.ts resync, onEscalation; executor.ts; dispatcher.ts).
THEOREM NoRowIsForgotten == HandoffSpec => [](~setting.busyTakeover => NoneForgotten)
<1>1. HandoffInv => (~setting.busyTakeover => NoneForgotten)
  <2> SUFFICES ASSUME HandoffInv, ~setting.busyTakeover, Quiet, Never({"restart"}) \/ Never({"timeout"}), NEW r \in Rows
               PROVE  db[r].status = "pending" <=> IsOpen(state, r)
    BY DEF NoneForgotten
  <2>1. Orderly /\ TypeInv /\ gateway = "up"
    BY DEF Orderly, Never, HandoffInv, Quiet
  <2>2. InStep(World, state, task, Todo, events, Landed)
    BY <2>1 DEF HandoffInv
  <2> QED BY <2>1, <2>2, NothingTold
<1> QED BY <1>1, InvBegins, InvKept, PTL DEF HandoffSpec

-----------------------------------------------------------------------------
(* Where the job of a row is: at most one dispatch of it is ahead on a lane  *)
(* or on its way, and what the machine said of it is still in the mail.      *)

Sending(td, r, l, i) == td[l][i].do = "dispatch" /\ td[l][i].row = r
Ahead(td, r) == \E l \in Lanes : \E i \in DOMAIN td[l] : Sending(td, r, l, i)
Double(td, r) == \E l, m \in Lanes : \E i \in DOMAIN td[l], j \in DOMAIN td[m] :
  Sending(td, r, l, i) /\ Sending(td, r, m, j) /\ (l # m \/ i # j)
Handles(td, r, l) == \E i \in DOMAIN td[l] : td[l][i].do \in {"accumulate", "receive"} /\ td[l][i].row = r
Wired(c, r) == \E i \in DOMAIN c : c[i].op = "dispatch" /\ c[i].row = r
Twice(c, r) == \E i, k \in DOMAIN c : i # k /\ c[i].op = "dispatch" /\ c[k].op = "dispatch" /\ c[i].row = r /\ c[k].row = r
Out(td, c, r) == Ahead(td, r) \/ Wired(c, r)

Talks(m, r) == \E i \in DOMAIN m : m[i].kind # "snapshot" /\ m[i].row = r
Says(m, kind, r) == \E i \in DOMAIN m : m[i].kind = kind /\ m[i].row = r
Refuses(m, r) == \E i \in DOMAIN m : m[i].kind = "reply" /\ m[i].row = r /\ ~m[i].ok
Gone(m, r) == Says(m, "released", r) \/ Says(m, "withdrawn", r) \/ Refuses(m, r)
Unlisted(m, r) == \E i \in DOMAIN m : m[i].kind = "snapshot" /\ r \notin m[i].jobs
Overtaken(m, r) == \E i \in DOMAIN m : \E k \in 1..i :
  m[i].kind = "snapshot" /\ r \notin m[i].jobs /\ m[k].kind = "arrived" /\ m[k].row = r

\* A list goes on, without its first act or with one of its own: nothing more is sent.
LEMMA ListsSend ==
  ASSUME NEW td \in [Lanes -> Seq(Acts)], NEW l \in Lanes, NEW list \in Seq(Acts), NEW d \in {0, 1}, NEW r \in Rows,
         \A i \in DOMAIN list : (i + d \in DOMAIN td[l] /\ list[i] = td[l][i + d]) \/ list[i].do # "dispatch"
  PROVE  LET td2 == [td EXCEPT ![l] = list] IN
         /\ Ahead(td2, r) => Ahead(td, r)
         /\ Double(td2, r) => Double(td, r)
<1>1. PICK td2 : td2 = [td EXCEPT ![l] = list]
  OBVIOUS
<1>2. td2[l] = list /\ \A m \in Lanes \ {l} : td2[m] = td[m]
  BY <1>1
<1>3. PICK at : at = [m \in Lanes |-> IF m = l THEN d ELSE 0]
  OBVIOUS
<1>4. \A m \in Lanes : at[m] \in {0, 1} /\ (m = l => at[m] = d) /\ (m # l => at[m] = 0)
  BY <1>3
<1>5. ASSUME NEW m \in Lanes, NEW i \in DOMAIN td2[m], Sending(td2, r, m, i)
      PROVE  i \in Nat /\ i + at[m] \in DOMAIN td[m] /\ Sending(td, r, m, i + at[m])
  <2>1. DOMAIN td2[m] \subseteq Nat
    <3>1. td2[m] \in Seq(Acts)
      BY <1>1
    <3> QED BY <3>1, LenProperties
  <2>2. CASE m = l
    BY <1>2, <1>4, <1>5, <2>1, <2>2 DEF Sending
  <2>3. CASE m # l
    <3>1. i \in Nat /\ i + 0 = i
      BY <2>1
    <3> QED BY <1>2, <1>4, <1>5, <2>3, <3>1 DEF Sending
  <2> QED BY <2>2, <2>3
<1>6. Ahead(td2, r) => Ahead(td, r)
  BY <1>5 DEF Ahead
<1>7. ASSUME Double(td2, r) PROVE Double(td, r)
  <2>1. PICK m, o \in Lanes : \E i \in DOMAIN td2[m], j \in DOMAIN td2[o] :
          Sending(td2, r, m, i) /\ Sending(td2, r, o, j) /\ (m # o \/ i # j)
    BY <1>7 DEF Double
  <2>2. PICK i \in DOMAIN td2[m], j \in DOMAIN td2[o] :
          Sending(td2, r, m, i) /\ Sending(td2, r, o, j) /\ (m # o \/ i # j)
    BY <2>1
  <2>3. /\ i \in Nat /\ i + at[m] \in DOMAIN td[m] /\ Sending(td, r, m, i + at[m])
        /\ j \in Nat /\ j + at[o] \in DOMAIN td[o] /\ Sending(td, r, o, j + at[o])
    BY <1>5, <2>2
  <2>4. m # o \/ i + at[m] # j + at[o]
    BY <1>4, <2>2, <2>3
  <2> QED BY <2>3, <2>4 DEF Double
<1> QED BY <1>1, <1>6, <1>7

\* A list begins: what it publishes was ahead, and is ahead no longer.
LEMMA BeginsSend ==
  ASSUME TypeInv, NEW td \in [Lanes -> Seq(Acts)], NEW l \in Lanes, NEW r \in Rows, ~Double(td, r)
  PROVE  LET td2 == [td EXCEPT ![l] = Rest(td[l])]
             p == Published(td[l])
         IN
         /\ Ahead(td2, r) => Ahead(td, r) /\ ~Wired(p, r)
         /\ Wired(p, r) => Ahead(td, r)
         /\ ~Double(td2, r) /\ ~Twice(p, r)
         /\ \A m \in Lanes : Handles(td2, r, m) => Handles(td, r, m)
<1>1. PICK list, rest, u, p : list = td[l] /\ rest = Rest(list) /\ u = Upto(list) /\ p = Published(list)
  OBVIOUS
<1>2. PICK td2 : td2 = [td EXCEPT ![l] = rest]
  OBVIOUS
<1>3. list \in Seq(Acts) /\ td2[l] = rest /\ \A m \in Lanes \ {l} : td2[m] = td[m]
  BY <1>1, <1>2
<1>4. /\ DOMAIN list \subseteq Nat /\ DOMAIN rest \subseteq Nat \ {0} /\ u \in Nat /\ DOMAIN list = 1..Len(list) /\ Len(list) \in Nat
      /\ u <= Len(list)
      /\ \A i \in DOMAIN rest : u + i \in DOMAIN list /\ rest[i] = list[u + i]
  <2>1. Len(list) \in Nat /\ DOMAIN list = 1..Len(list) /\ u \in 0..Len(list)
    BY <1>1, <1>3, Cut
  <2>2. DOMAIN rest = 1..(Len(list) - u) /\ \A i \in DOMAIN rest : u + i \in DOMAIN list /\ rest[i] = list[u + i]
    BY <1>1, <1>3, RestOf
  <2> QED BY <2>1, <2>2
<1>5. /\ p \in Seq(Cmds) /\ Len(p) = u /\ DOMAIN p = 1..u
      /\ \A i \in 1..u : p[i].row = list[i].row /\ (p[i].op = "dispatch" <=> list[i].do = "dispatch")
  <2>1. /\ p \in Seq(Cmds) /\ Len(p) = u
        /\ \A i \in 1..u : p[i].row = list[i].row /\ (p[i].op = "dispatch" <=> list[i].do = "dispatch")
    BY <1>1, <1>3, PublishedOf
  <2> QED BY <2>1, LenProperties
<1>6. \A m, o \in Lanes : \A i \in DOMAIN td[m], j \in DOMAIN td[o] :
        Sending(td, r, m, i) /\ Sending(td, r, o, j) => m = o /\ i = j
  BY DEF Double
<1>7. \A i \in 1..u : i \in DOMAIN td[l] /\ (p[i].op = "dispatch" /\ p[i].row = r => Sending(td, r, l, i))
  <2>1. \A i \in 1..u : i \in 1..Len(list)
    BY <1>4
  <2> QED BY <1>1, <1>4, <1>5, <2>1 DEF Sending
<1>8. PICK at : at = [m \in Lanes |-> IF m = l THEN u ELSE 0]
  OBVIOUS
<1>9. ASSUME NEW m \in Lanes, NEW i \in DOMAIN td2[m]
      PROVE  /\ i \in Nat \ {0} /\ at[m] \in Nat /\ at[m] + i \in DOMAIN td[m] /\ td2[m][i] = td[m][at[m] + i]
             /\ m = l => at[m] + i \notin 1..u
  <2>1. CASE m = l
    BY <1>1, <1>3, <1>4, <1>8, <2>1
  <2>2. CASE m # l
    <3>1. td2[m] = td[m] /\ at[m] = 0 /\ td[m] \in Seq(Acts)
      BY <1>3, <1>8, <2>2
    <3>2. i \in Nat \ {0}
      BY <3>1, LenProperties
    <3> QED BY <2>2, <3>1, <3>2
  <2> QED BY <2>1, <2>2
<1>10. ASSUME Ahead(td2, r) PROVE Ahead(td, r) /\ ~Wired(p, r)
  <2>0. PICK m \in Lanes : \E i \in DOMAIN td2[m] : Sending(td2, r, m, i)
    BY <1>10 DEF Ahead
  <2>1. PICK i \in DOMAIN td2[m] : Sending(td2, r, m, i)
    BY <2>0
  <2>2. at[m] + i \in DOMAIN td[m] /\ Sending(td, r, m, at[m] + i)
    BY <1>9, <2>1 DEF Sending
  <2>3. ASSUME Wired(p, r) PROVE FALSE
    <3>1. PICK k \in 1..u : p[k].op = "dispatch" /\ p[k].row = r
      BY <1>5, <2>3 DEF Wired
    <3>2. m = l /\ k = at[m] + i
      BY <1>6, <1>7, <2>2, <3>1
    <3> QED BY <1>9, <3>1, <3>2
  <2> QED BY <2>2, <2>3 DEF Ahead
<1>11. Wired(p, r) => Ahead(td, r)
  BY <1>5, <1>7 DEF Wired, Ahead
<1>12. ~Double(td2, r)
  <2> SUFFICES ASSUME NEW m \in Lanes, NEW o \in Lanes, NEW i \in DOMAIN td2[m], NEW j \in DOMAIN td2[o],
                      Sending(td2, r, m, i), Sending(td2, r, o, j)
               PROVE  m = o /\ i = j
    BY DEF Double
  <2>1. /\ at[m] + i \in DOMAIN td[m] /\ Sending(td, r, m, at[m] + i) /\ i \in Nat /\ at[m] \in Nat
        /\ at[o] + j \in DOMAIN td[o] /\ Sending(td, r, o, at[o] + j) /\ j \in Nat
    BY <1>9 DEF Sending
  <2>2. m = o /\ at[m] + i = at[o] + j
    BY <1>6, <2>1
  <2> QED BY <2>1, <2>2
<1>13. ~Twice(p, r)
  <2> SUFFICES ASSUME NEW i \in 1..u, NEW k \in 1..u, p[i].op = "dispatch", p[k].op = "dispatch", p[i].row = r, p[k].row = r
               PROVE  i = k
    BY <1>5 DEF Twice
  <2> QED BY <1>6, <1>7
<1>14. \A m \in Lanes : Handles(td2, r, m) => Handles(td, r, m)
  BY <1>9 DEF Handles
<1> QED BY <1>1, <1>2, <1>10, <1>11, <1>12, <1>13, <1>14

\* Rows are admitted on an idle lane: each is sent once.
LEMMA AdmitsSend ==
  ASSUME NEW td \in [Lanes -> Seq(Acts)], NEW l \in Lanes, td[l] = <<>>, NEW R \in SUBSET Rows, NEW r \in Rows
  PROVE  LET td2 == [td EXCEPT ![l] = Actions(R)] IN
         /\ Ahead(td2, r) => Ahead(td, r) \/ (r \in R /\ r \notin setting.unfit)
         /\ Double(td2, r) => Double(td, r) \/ (Ahead(td, r) /\ r \in R)
         /\ \A m \in Lanes : Handles(td2, r, m) => Handles(td, r, m)
<1>1. PICK td2, acts : td2 = [td EXCEPT ![l] = acts] /\ acts = Actions(R)
  OBVIOUS
<1>2. td2[l] = acts /\ \A m \in Lanes \ {l} : td2[m] = td[m]
  BY <1>1
<1>3. /\ \A i \in DOMAIN acts : acts[i].row \in R /\ acts[i].do = IF acts[i].row \in setting.unfit THEN "refuse" ELSE "dispatch"
      /\ \A i, j \in DOMAIN acts : acts[i].row = acts[j].row => i = j
  BY <1>1, ActionsOf
<1>4. \A i \in DOMAIN acts : Sending(td2, r, l, i) => r \in R /\ r \notin setting.unfit
  BY <1>2, <1>3 DEF Sending
<1>5. \A m \in Lanes \ {l} : \A i \in DOMAIN td2[m] : i \in DOMAIN td[m] /\ (Sending(td2, r, m, i) => Sending(td, r, m, i))
  BY <1>2 DEF Sending
<1>6. Ahead(td2, r) => Ahead(td, r) \/ (r \in R /\ r \notin setting.unfit)
  BY <1>2, <1>4, <1>5 DEF Ahead
<1>7. ASSUME Double(td2, r), ~(Ahead(td, r) /\ r \in R) PROVE Double(td, r)
  <2>1. PICK m, o \in Lanes : \E i \in DOMAIN td2[m], j \in DOMAIN td2[o] :
          Sending(td2, r, m, i) /\ Sending(td2, r, o, j) /\ (m # o \/ i # j)
    BY <1>7 DEF Double
  <2>2. PICK i \in DOMAIN td2[m], j \in DOMAIN td2[o] :
          Sending(td2, r, m, i) /\ Sending(td2, r, o, j) /\ (m # o \/ i # j)
    BY <2>1
  <2>3. CASE m # l /\ o # l
    <3>1. i \in DOMAIN td[m] /\ Sending(td, r, m, i) /\ j \in DOMAIN td[o] /\ Sending(td, r, o, j)
      BY <1>5, <2>2, <2>3
    <3> QED BY <2>2, <3>1 DEF Double
  <2>4. CASE m = l /\ o # l
    <3>1. r \in R /\ Ahead(td, r)
      BY <1>2, <1>4, <1>5, <2>2, <2>4 DEF Ahead
    <3> QED BY <1>7, <3>1
  <2>5. CASE m # l /\ o = l
    <3>1. r \in R /\ Ahead(td, r)
      BY <1>2, <1>4, <1>5, <2>2, <2>5 DEF Ahead
    <3> QED BY <1>7, <3>1
  <2>6. CASE m = l /\ o = l
    <3>1. acts[i].row = r /\ acts[j].row = r /\ i \in DOMAIN acts /\ j \in DOMAIN acts
      BY <1>2, <2>2, <2>6 DEF Sending
    <3> QED BY <1>3, <2>2, <2>6, <3>1
  <2> QED BY <2>3, <2>4, <2>5, <2>6
<1>8. ASSUME NEW m \in Lanes, Handles(td2, r, m) PROVE Handles(td, r, m)
  <2>1. CASE m = l
    <3>1. PICK i \in DOMAIN acts : acts[i].do \in {"accumulate", "receive"}
      BY <1>2, <1>8, <2>1 DEF Handles
    <3> QED BY <1>3, <3>1
  <2>2. CASE m # l
    BY <1>2, <1>8, <2>2 DEF Handles
  <2> QED BY <2>1, <2>2
<1> QED BY <1>1, <1>6, <1>7, <1>8

\* Commands are taken from the front and added at the end.
LEMMA CommandsTaken ==
  ASSUME NEW c \in Seq(Cmds), c # <<>>, NEW r \in Rows
  PROVE  /\ Wired(Tail(c), r) => Wired(c, r)
         /\ Twice(Tail(c), r) => Twice(c, r)
         /\ c[1].op = "dispatch" /\ c[1].row = r => Wired(c, r) /\ (Wired(Tail(c), r) => Twice(c, r))
<1>1. PICK n, t : n = Len(c) /\ t = Tail(c)
  OBVIOUS
<1>2. n \in Nat \ {0} /\ DOMAIN c = 1..n /\ DOMAIN t = 1..(n - 1) /\ \A i \in 1..(n - 1) : t[i] = c[i + 1]
  <2>1. t \in Seq(Cmds) /\ Len(t) = n - 1 /\ \A i \in 1..Len(t) : t[i] = c[i + 1]
    BY <1>1, HeadTailProperties
  <2>2. n \in Nat \ {0} /\ DOMAIN c = 1..n /\ DOMAIN t = 1..Len(t)
    BY <1>1, <2>1, LenProperties, EmptySeq
  <2> QED BY <2>1, <2>2
<1>3. \A i \in DOMAIN t : i \in Nat \ {0} /\ i + 1 \in DOMAIN c /\ t[i] = c[i + 1]
  BY <1>2
<1>4. 1 \in DOMAIN c
  BY <1>2
<1>5. Wired(t, r) => Wired(c, r)
  BY <1>3 DEF Wired
<1>6. ASSUME Twice(t, r) PROVE Twice(c, r)
  <2>1. PICK i, k \in DOMAIN t : i # k /\ t[i].op = "dispatch" /\ t[k].op = "dispatch" /\ t[i].row = r /\ t[k].row = r
    BY <1>6 DEF Twice
  <2>2. i + 1 # k + 1
    BY <1>3, <2>1
  <2> QED BY <1>3, <2>1, <2>2 DEF Twice
<1>7. ASSUME c[1].op = "dispatch", c[1].row = r, Wired(t, r) PROVE Twice(c, r)
  <2>1. PICK i \in DOMAIN t : t[i].op = "dispatch" /\ t[i].row = r
    BY <1>7 DEF Wired
  <2>2. i + 1 # 1
    BY <1>3, <2>1
  <2> QED BY <1>3, <1>4, <1>7, <2>1, <2>2 DEF Twice
<1>8. c[1].op = "dispatch" /\ c[1].row = r => Wired(c, r)
  BY <1>4 DEF Wired
<1> QED BY <1>1, <1>5, <1>6, <1>7, <1>8
LEMMA CommandsAdded ==
  ASSUME NEW c \in Seq(Cmds), NEW p \in Seq(Cmds), NEW r \in Rows
  PROVE  /\ Wired(c \o p, r) => Wired(c, r) \/ Wired(p, r)
         /\ Twice(c \o p, r) => Twice(c, r) \/ Twice(p, r) \/ (Wired(c, r) /\ Wired(p, r))
<1>1. PICK n, k, b : n = Len(c) /\ k = Len(p) /\ b = c \o p
  OBVIOUS
<1>2. n \in Nat /\ k \in Nat /\ DOMAIN c = 1..n /\ DOMAIN p = 1..k /\ DOMAIN b = 1..(n + k)
  <2>1. b \in Seq(Cmds) /\ Len(b) = n + k
    BY <1>1, ConcatProperties
  <2>2. DOMAIN b = 1..Len(b)
    BY <2>1, LenProperties
  <2> QED BY <1>1, <2>1, <2>2, LenProperties
<1>3. \A i \in 1..(n + k) : b[i] = IF i <= n THEN c[i] ELSE p[i - n]
  BY <1>1, ConcatProperties
<1>4. \A i \in DOMAIN b : i \in Nat /\ ((i \in DOMAIN c /\ b[i] = c[i]) \/ (i - n \in DOMAIN p /\ b[i] = p[i - n]))
  <2> SUFFICES ASSUME NEW i \in 1..(n + k)
               PROVE  i \in Nat /\ ((i \in 1..n /\ b[i] = c[i]) \/ (i - n \in 1..k /\ b[i] = p[i - n]))
    BY <1>2
  <2>1. CASE i <= n
    BY <1>2, <1>3, <2>1
  <2>2. CASE ~(i <= n)
    <3>1. i - n \in 1..k
      BY <1>2, <2>2
    <3> QED BY <1>2, <1>3, <2>2, <3>1
  <2> QED BY <2>1, <2>2
<1>5. Wired(b, r) => Wired(c, r) \/ Wired(p, r)
  BY <1>4 DEF Wired
<1>6. ASSUME Twice(b, r), ~(Wired(c, r) /\ Wired(p, r)) PROVE Twice(c, r) \/ Twice(p, r)
  <2>1. PICK i, j \in DOMAIN b : i # j /\ b[i].op = "dispatch" /\ b[j].op = "dispatch" /\ b[i].row = r /\ b[j].row = r
    BY <1>6 DEF Twice
  <2>2. CASE i \in DOMAIN c /\ b[i] = c[i] /\ j \in DOMAIN c /\ b[j] = c[j]
    BY <2>1, <2>2 DEF Twice
  <2>3. CASE i - n \in DOMAIN p /\ b[i] = p[i - n] /\ j - n \in DOMAIN p /\ b[j] = p[j - n]
    <3>1. i - n # j - n
      BY <1>2, <1>4, <2>1
    <3> QED BY <2>1, <2>3, <3>1 DEF Twice
  <2>4. CASE i \in DOMAIN c /\ b[i] = c[i] /\ j - n \in DOMAIN p /\ b[j] = p[j - n]
    BY <1>6, <2>1, <2>4 DEF Wired
  <2>5. CASE i - n \in DOMAIN p /\ b[i] = p[i - n] /\ j \in DOMAIN c /\ b[j] = c[j]
    BY <1>6, <2>1, <2>5 DEF Wired
  <2> QED BY <1>4, <2>1, <2>2, <2>3, <2>4, <2>5
<1> QED BY <1>1, <1>5, <1>6

\* What the mail says of a row: a letter is read at its front, and added at its end.
LEMMA MailSays ==
  ASSUME NEW m \in Seq(Letters), NEW r \in Rows
  PROVE  /\ \A kind \in {"arrived", "misread", "released", "withdrawn"} : Says(m, kind, r) => Talks(m, r)
         /\ Refuses(m, r) => Talks(m, r)
         /\ Gone(m, r) => Talks(m, r)
         /\ Overtaken(m, r) => Says(m, "arrived", r)
<1>1. \A kind \in {"arrived", "misread", "released", "withdrawn"} : Says(m, kind, r) => Talks(m, r)
  BY DEF Says, Talks
<1>2. Refuses(m, r) => Talks(m, r)
  BY DEF Refuses, Talks
<1>3. ASSUME Overtaken(m, r) PROVE Says(m, "arrived", r)
  <2>1. PICK i \in DOMAIN m : \E k \in 1..i : m[k].kind = "arrived" /\ m[k].row = r
    BY <1>3 DEF Overtaken
  <2>2. PICK k \in 1..i : m[k].kind = "arrived" /\ m[k].row = r
    BY <2>1
  <2>3. k \in DOMAIN m
    <3>1. Len(m) \in Nat /\ DOMAIN m = 1..Len(m)
      BY LenProperties
    <3> QED BY <3>1
  <2> QED BY <2>2, <2>3 DEF Says
<1> QED BY <1>1, <1>2, <1>3 DEF Gone

LEMMA MailRead ==
  ASSUME NEW m \in Seq(Letters), m # <<>>, NEW r \in Rows
  PROVE  LET h == m[1]
             t == Tail(m)
         IN
         /\ Talks(t, r) => Talks(m, r)
         /\ \A kind : Says(t, kind, r) => Says(m, kind, r)
         /\ Refuses(t, r) => Refuses(m, r)
         /\ Unlisted(t, r) => Unlisted(m, r)
         /\ Overtaken(t, r) => Overtaken(m, r)
         /\ h.kind # "snapshot" /\ h.row = r => Talks(m, r) /\ Says(m, h.kind, r)
         /\ h.kind = "reply" /\ h.row = r /\ ~h.ok => Refuses(m, r)
         /\ h.kind = "snapshot" /\ r \notin h.jobs => Unlisted(m, r)
         /\ h.kind = "arrived" /\ h.row = r /\ Unlisted(m, r) => Overtaken(m, r)
<1>1. PICK n, t : n = Len(m) /\ t = Tail(m)
  OBVIOUS
<1>2. n \in Nat \ {0} /\ DOMAIN m = 1..n /\ DOMAIN t = 1..(n - 1) /\ \A i \in 1..(n - 1) : t[i] = m[i + 1]
  <2>1. t \in Seq(Letters) /\ Len(t) = n - 1 /\ \A i \in 1..Len(t) : t[i] = m[i + 1]
    BY <1>1, HeadTailProperties
  <2>2. n \in Nat \ {0} /\ DOMAIN m = 1..n /\ DOMAIN t = 1..Len(t)
    BY <1>1, <2>1, LenProperties, EmptySeq
  <2> QED BY <2>1, <2>2
<1>3. \A i \in DOMAIN t : i \in Nat \ {0} /\ i + 1 \in DOMAIN m /\ t[i] = m[i + 1] /\ \A k \in 1..i : k \in DOMAIN t /\ k + 1 \in 1..(i + 1)
  BY <1>2
<1>4. 1 \in DOMAIN m /\ \A i \in DOMAIN m : 1 \in 1..i
  BY <1>2
<1>5. /\ Talks(t, r) => Talks(m, r)
      /\ \A kind : Says(t, kind, r) => Says(m, kind, r)
      /\ Refuses(t, r) => Refuses(m, r)
      /\ Unlisted(t, r) => Unlisted(m, r)
  BY <1>3 DEF Talks, Says, Refuses, Unlisted
<1>6. ASSUME Overtaken(t, r) PROVE Overtaken(m, r)
  <2>1. PICK i \in DOMAIN t : \E k \in 1..i : t[i].kind = "snapshot" /\ r \notin t[i].jobs /\ t[k].kind = "arrived" /\ t[k].row = r
    BY <1>6 DEF Overtaken
  <2>2. PICK k \in 1..i : t[i].kind = "snapshot" /\ r \notin t[i].jobs /\ t[k].kind = "arrived" /\ t[k].row = r
    BY <2>1
  <2>3. i + 1 \in DOMAIN m /\ k + 1 \in 1..(i + 1) /\ t[i] = m[i + 1] /\ t[k] = m[k + 1]
    BY <1>3, <2>2
  <2> QED BY <2>2, <2>3 DEF Overtaken
<1>7. ASSUME m[1].kind = "arrived", m[1].row = r, Unlisted(m, r) PROVE Overtaken(m, r)
  BY <1>4, <1>7 DEF Unlisted, Overtaken
<1>8. /\ m[1].kind # "snapshot" /\ m[1].row = r => Talks(m, r) /\ Says(m, m[1].kind, r)
      /\ m[1].kind = "reply" /\ m[1].row = r /\ ~m[1].ok => Refuses(m, r)
      /\ m[1].kind = "snapshot" /\ r \notin m[1].jobs => Unlisted(m, r)
  BY <1>4 DEF Talks, Says, Refuses, Unlisted
<1> QED BY <1>1, <1>5, <1>6, <1>7, <1>8
LEMMA MailWritten ==
  ASSUME NEW m \in Seq(Letters), NEW h \in Letters, NEW r \in Rows
  PROVE  LET t == Append(m, h) IN
         /\ Talks(t, r) => Talks(m, r) \/ (h.kind # "snapshot" /\ h.row = r)
         /\ \A kind : Says(t, kind, r) => Says(m, kind, r) \/ (h.kind = kind /\ h.row = r)
         /\ Refuses(t, r) => Refuses(m, r) \/ (h.kind = "reply" /\ h.row = r /\ ~h.ok)
         /\ Unlisted(t, r) => Unlisted(m, r) \/ (h.kind = "snapshot" /\ r \notin h.jobs)
         /\ Overtaken(t, r) => Overtaken(m, r) \/ (h.kind = "snapshot" /\ r \notin h.jobs)
<1>1. PICK n, t : n = Len(m) /\ t = Append(m, h)
  OBVIOUS
<1>2. n \in Nat /\ DOMAIN m = 1..n /\ DOMAIN t = 1..(n + 1) /\ t[n + 1] = h /\ \A i \in 1..n : t[i] = m[i]
  <2>1. t \in Seq(Letters) /\ Len(t) = n + 1 /\ t[n + 1] = h /\ \A i \in 1..n : t[i] = m[i]
    BY <1>1, AppendProperties
  <2> QED BY <1>1, <2>1, LenProperties
<1>3. \A i \in DOMAIN t : (i \in DOMAIN m /\ t[i] = m[i]) \/ (i = n + 1 /\ t[i] = h)
  BY <1>2
<1>4. /\ Talks(t, r) => Talks(m, r) \/ (h.kind # "snapshot" /\ h.row = r)
      /\ \A kind : Says(t, kind, r) => Says(m, kind, r) \/ (h.kind = kind /\ h.row = r)
      /\ Refuses(t, r) => Refuses(m, r) \/ (h.kind = "reply" /\ h.row = r /\ ~h.ok)
      /\ Unlisted(t, r) => Unlisted(m, r) \/ (h.kind = "snapshot" /\ r \notin h.jobs)
  BY <1>3 DEF Talks, Says, Refuses, Unlisted
<1>5. ASSUME Overtaken(t, r), ~(h.kind = "snapshot" /\ r \notin h.jobs) PROVE Overtaken(m, r)
  <2>1. PICK i \in DOMAIN t : \E k \in 1..i : t[i].kind = "snapshot" /\ r \notin t[i].jobs /\ t[k].kind = "arrived" /\ t[k].row = r
    BY <1>5 DEF Overtaken
  <2>2. PICK k \in 1..i : t[i].kind = "snapshot" /\ r \notin t[i].jobs /\ t[k].kind = "arrived" /\ t[k].row = r
    BY <2>1
  <2>3. i \in DOMAIN m /\ t[i] = m[i]
    BY <1>3, <1>5, <2>2
  <2>4. t[k] = m[k]
    BY <1>2, <2>3
  <2> QED BY <2>2, <2>3, <2>4 DEF Overtaken
<1> QED BY <1>1, <1>4, <1>5

-----------------------------------------------------------------------------
(* The room the gateway counts                                              *)

\* The last of a finite set of rows.
LEMMA LastOf ==
  ASSUME NEW S, S \subseteq Nat, IsFiniteSet(S), S # {}
  PROVE  \E p \in S : \A q \in S : q <= p
<1>1. PICK after : after = [p \in S |-> {q \in S : q > p}]
  OBVIOUS
<1>2. PICK counts : counts = {Cardinality(after[p]) : p \in S}
  OBVIOUS
<1>3. \A p \in S : after[p] \in SUBSET S /\ IsFiniteSet(after[p]) /\ Cardinality(after[p]) \in Nat
  <2>1. \A p \in S : after[p] \in SUBSET S
    BY <1>1
  <2> QED BY <2>1, FS_Subset, FS_CardinalityType
<1>4. counts \subseteq Nat /\ counts # {}
  BY <1>2, <1>3
<1>5. PICK n : n = Min(counts)
  OBVIOUS
<1>6. n \in counts /\ \A k \in counts : n <= k
  BY <1>4, <1>5, LeastOf
<1>7. PICK p \in S : n = Cardinality(after[p])
  BY <1>2, <1>6
<1>8. \A q \in S : q <= p
  <2> SUFFICES ASSUME NEW q \in S, ~(q <= p) PROVE FALSE
    OBVIOUS
  <2>1. p \in Nat /\ q \in Nat /\ q > p
    OBVIOUS
  <2>2. after[q] = {x \in S : x > q} /\ after[p] = {x \in S : x > p} /\ \A x \in S : x \in Nat
    BY <1>1
  <2>a. (\A x \in S : x > q => x > p) /\ ~(q > q)
    BY <2>1, <2>2
  <2>3. after[q] \in SUBSET after[p] /\ q \in after[p] /\ q \notin after[q]
    BY <2>1, <2>2, <2>a
  <2>4. Cardinality(after[q]) <= n /\ Cardinality(after[q]) # n
    BY <1>3, <1>7, <2>3, FS_Subset
  <2>5. n <= Cardinality(after[q])
    BY <1>2, <1>6
  <2>6. Cardinality(after[q]) \in Nat /\ n \in Nat
    BY <1>3, <1>7
  <2> QED BY <2>4, <2>5, <2>6
<1> QED BY <1>8

LEMMA RowsFinite ==
  ASSUME NEW S \in SUBSET Rows
  PROVE  S \subseteq Nat /\ IsFiniteSet(S) /\ Cardinality(S) \in Nat /\ \A T \in SUBSET S : Cardinality(T) <= Cardinality(S)
<1>1. Rows \subseteq Nat /\ IsFiniteSet(Rows)
  BY HandoffAssumption
<1>2. IsFiniteSet(S)
  BY <1>1, FS_Subset
<1> QED BY <1>1, <1>2, FS_Subset, FS_CardinalityType

Roomy(s) == Cardinality(MachineLoad(s)) <= setting.depth
\* What takes no more room fits, and so does one row more where it was asked for.
LEMMA LessRoom ==
  ASSUME NEW s \in Pictures, NEW n \in Pictures, Roomy(s),
         \A r \in Rows : (r \in n.held \/ n.row[r] \in Sent) => (r \in s.held \/ s.row[r] \in Sent), TypeInv
  PROVE  Roomy(n)
<1>1. PICK a, b : a = MachineLoad(s) /\ b = MachineLoad(n)
  OBVIOUS
<1>2. a \in SUBSET Rows /\ b \in SUBSET Rows /\ b \subseteq a
  BY <1>1 DEF MachineLoad, Pictures
<1>3. Cardinality(b) <= Cardinality(a) /\ Cardinality(a) \in Nat /\ Cardinality(b) \in Nat
  BY <1>2, RowsFinite
<1>4. setting.depth \in Nat
  BY HandoffAssumption DEF TypeInv, Setting
<1> QED BY <1>1, <1>3, <1>4 DEF Roomy
LEMMA OneMoreFits ==
  ASSUME TypeInv, NEW S \in SUBSET Rows, NEW r \in Rows, NEW L \in SUBSET (S \cup {r}), Fits(S)
  PROVE  Cardinality(L) <= setting.depth
<1>1. IsFiniteSet(S) /\ Cardinality(S) \in Nat
  BY RowsFinite
<1>2. S \cup {r} \in SUBSET Rows
  OBVIOUS
<1>3. Cardinality(L) <= Cardinality(S \cup {r}) /\ Cardinality(S \cup {r}) \in Nat
  BY <1>2, RowsFinite
<1>e. L \in SUBSET Rows
  OBVIOUS
<1>b. Cardinality(L) \in Nat
  BY <1>e, RowsFinite
<1>c. PICK k, more : k = Cardinality(S) /\ more = Cardinality(S \cup {r})
  OBVIOUS
<1>d. more = IF r \in S THEN k ELSE k + 1
  BY <1>1, <1>c, FS_AddElement
<1>4. k \in Nat /\ more <= k + 1 /\ more \in Nat
  BY <1>1, <1>3, <1>c, <1>d
<1>5. setting.depth \in Nat \ {0}
  BY HandoffAssumption DEF TypeInv, Setting
<1>6. S = {} => Cardinality(S) = 0
  BY FS_EmptySet
<1>7. k + 1 <= setting.depth
  BY <1>5, <1>6, <1>c DEF Fits
<1>8. Cardinality(L) <= more
  BY <1>3, <1>c
<1> QED BY <1>b, <1>4, <1>5, <1>7, <1>8
\* Of the rows that go out the last found room for it beside the others.
LEMMA AdmittedFit ==
  ASSUME TypeInv, NEW s \in Pictures
  PROVE  /\ Roomy(s) => Roomy(Admit(s, Goes(s)))
         /\ \A r \in Rows : Fits(MachineLoad(s)) => Roomy(Admit(s, {r}))
<1>1. PICK load : load = MachineLoad(s)
  OBVIOUS
<1>2. load \in SUBSET Rows /\ \A r \in Rows : r \in load <=> r \in s.held \/ s.row[r] \in Sent
  BY <1>1 DEF MachineLoad, Pictures
<1>3. ASSUME NEW R \in SUBSET Rows PROVE MachineLoad(Admit(s, R)) \subseteq load \cup (R \ setting.unfit)
  <2>1. PICK n : n = Admit(s, R)
    OBVIOUS
  <2>2. n \in Pictures /\ n.held = s.held /\ \A r \in Rows : n.row[r] = IF r \notin R THEN s.row[r] ELSE IF r \in setting.unfit THEN "refused" ELSE "pending"
    BY <2>1, AdmitOf
  <2>3. \A r \in Rows : n.row[r] \in Sent => s.row[r] \in Sent \/ r \in R \ setting.unfit
    BY <2>2 DEF Sent
  <2>4. \A r \in MachineLoad(n) : r \in Rows /\ (r \in n.held \/ n.row[r] \in Sent)
    BY <2>2 DEF MachineLoad, Pictures
  <2> QED BY <1>2, <2>1, <2>2, <2>3, <2>4
<1>4. ASSUME Roomy(s) PROVE Roomy(Admit(s, Goes(s)))
  <2>1. PICK W, R, fit : W = Waiting(s) /\ R = Goes(s) /\ fit = R \ setting.unfit
    OBVIOUS
  <2>2. W \in SUBSET Rows /\ R \in SUBSET W /\ fit \in SUBSET R /\ fit \in SUBSET W
    BY <2>1 DEF Waiting, Goes
  <2>3. PICK all : all = MachineLoad(Admit(s, R))
    OBVIOUS
  <2>4. all \subseteq load \cup fit
    BY <1>3, <2>1, <2>2, <2>3
  <2>5. CASE fit = {}
    <3>1. all \in SUBSET load
      BY <2>4, <2>5
    <3>2. Cardinality(all) <= Cardinality(load) /\ Cardinality(load) \in Nat
      BY <1>2, <3>1, RowsFinite
    <3>3. Cardinality(all) \in Nat
      BY <1>2, <3>1, RowsFinite
    <3>4. setting.depth \in Nat /\ Cardinality(load) <= setting.depth
      BY <1>1, <1>4, HandoffAssumption DEF TypeInv, Setting, Roomy
    <3> QED BY <2>1, <2>3, <3>2, <3>3, <3>4 DEF Roomy
  <2>6. CASE fit # {}
    <3>1. fit \subseteq Nat /\ IsFiniteSet(fit)
      BY <2>2, RowsFinite
    <3>2. PICK p \in fit : \A q \in fit : q <= p
      BY <2>6, <3>1, LastOf
    <3>3. p \in W /\ p \in Rows /\ p \in Nat
      BY <2>2, <3>1
    <3>4. PICK S : S = load \cup ({q \in W : q < p} \ setting.unfit)
      OBVIOUS
    <3>5. Fits(S)
      <4>1. p \in Goes(s) /\ p <= p
        BY <2>1, <3>3
      <4> QED BY <1>1, <2>1, <3>3, <3>4, <4>1 DEF Goes
    <3>6. S \in SUBSET Rows
      BY <1>2, <2>2, <3>4
    <3>7. \A q \in fit : q \in S \/ q = p
      <4>1. \A q \in fit : q \in W /\ q \notin setting.unfit /\ (q < p \/ q = p)
        BY <2>1, <2>2, <3>1, <3>2, <3>3
      <4> QED BY <3>4, <4>1
    <3>8. all \in SUBSET (S \cup {p})
      BY <2>4, <3>4, <3>7
    <3>9. Cardinality(all) <= setting.depth
      BY <3>3, <3>5, <3>6, <3>8, OneMoreFits
    <3> QED BY <2>1, <2>3, <3>9 DEF Roomy
  <2> QED BY <2>5, <2>6
<1>5. ASSUME NEW r \in Rows, Fits(MachineLoad(s)) PROVE Roomy(Admit(s, {r}))
  <2>1. PICK all : all = MachineLoad(Admit(s, {r}))
    OBVIOUS
  <2>2. all \in SUBSET (load \cup {r})
    BY <1>3, <2>1
  <2>3. Cardinality(all) <= setting.depth
    BY <1>1, <1>2, <1>5, <2>2, OneMoreFits
  <2> QED BY <2>1, <2>3 DEF Roomy
<1> QED BY <1>4, <1>5

-----------------------------------------------------------------------------
(* The jobs in step with the gateway                                        *)

\* A job that may still be dispatched is not at the machine, and the mail does not
\* speak of it; a row that is not sent has no job, a received one is held as long
\* as its unit is there; what a letter ends, or a snapshot leaves out, is gone.
JobInOrder(rec, s, td, c, j, m, r) ==
  /\ ~Double(td, r) /\ ~Twice(c, r) /\ ~(Ahead(td, r) /\ Wired(c, r))
  /\ Out(td, c, r) \/ s.row[r] \in {"unknown", "waiting"} => j[r] = "none" /\ r \notin s.held /\ ~Talks(m, r)
  /\ s.row[r] \in {"unknown", "waiting", "refused"} \/ rec[r].status = "received" => ~Out(td, c, r)
  /\ s.row[r] = "refused" => j[r] = "none" /\ ~Says(m, "arrived", r)
  /\ rec[r].status = "received" => s.row[r] \notin {"unknown", "waiting"} /\ (r \in s.held \/ j[r] = "none")
  /\ Gone(m, r) \/ Overtaken(m, r) \/ (Unlisted(m, r) /\ r \in s.held) => j[r] = "none"
  /\ Refuses(m, r) => ~Says(m, "arrived", r)
  /\ Handles(td, r, "messages") => r \in s.held
  /\ ~Handles(td, r, "events")
JobsInOrder(rec, s, td, c, j, m) == \A r \in Rows : JobInOrder(rec, s, td, c, j, m, r)

\* A handler's list begins, and the rows that wait are admitted.
LEMMA JobsBegin ==
  ASSUME TypeInv, NEW rec, NEW s, NEW td \in [Lanes -> Seq(Acts)], NEW c \in Seq(Cmds), NEW j, NEW m, NEW l \in Lanes,
         JobsInOrder(rec, s, td, c, j, m)
  PROVE  JobsInOrder(rec, s, [td EXCEPT ![l] = Rest(td[l])], c \o Published(td[l]), j, m)
<1>1. PICK p, c2, td2 : p = Published(td[l]) /\ c2 = c \o p /\ td2 = [td EXCEPT ![l] = Rest(td[l])]
  OBVIOUS
<1>2. p \in Seq(Cmds)
  BY <1>1, PublishedOf
<1>3. ASSUME NEW r \in Rows PROVE JobInOrder(rec, s, td2, c2, j, m, r)
  <2>1. JobInOrder(rec, s, td, c, j, m, r)
    BY DEF JobsInOrder
  <2>2. ~Double(td, r)
    BY <2>1 DEF JobInOrder
  <2>3. /\ Ahead(td2, r) => Ahead(td, r) /\ ~Wired(p, r)
        /\ Wired(p, r) => Ahead(td, r)
        /\ ~Double(td2, r) /\ ~Twice(p, r)
        /\ \A o \in Lanes : Handles(td2, r, o) => Handles(td, r, o)
    BY <1>1, <2>2, BeginsSend
  <2>4. /\ Wired(c2, r) => Wired(c, r) \/ Wired(p, r)
        /\ Twice(c2, r) => Twice(c, r) \/ Twice(p, r) \/ (Wired(c, r) /\ Wired(p, r))
    BY <1>1, <1>2, CommandsAdded
  <2>5. Out(td2, c2, r) => Out(td, c, r)
    BY <2>3, <2>4 DEF Out
  <2>6. Handles(td2, r, "messages") => Handles(td, r, "messages")
    BY <2>3 DEF Lanes
  <2>7. Handles(td2, r, "events") => Handles(td, r, "events")
    BY <2>3 DEF Lanes
  <2>8. ~Twice(c2, r) /\ ~(Ahead(td2, r) /\ Wired(c2, r))
    BY <2>1, <2>3, <2>4 DEF JobInOrder
  <2> HIDE DEF Double, Twice, Ahead, Wired, Talks, Says, Gone, Overtaken, Unlisted, Refuses, Handles, Out
  <2> QED BY <2>1, <2>3, <2>5, <2>6, <2>7, <2>8 DEF JobInOrder
<1> QED BY <1>1, <1>3 DEF JobsInOrder
LEMMA JobsAdmit ==
  ASSUME TypeInv, NEW rec, NEW s \in Pictures, NEW td \in [Lanes -> Seq(Acts)], NEW c, NEW j, NEW m \in Seq(Letters),
         NEW l \in Lanes, NEW R \in SUBSET Rows, td[l] = <<>>,
         \A r \in R : s.row[r] \in {"unknown", "waiting"}, JobsInOrder(rec, s, td, c, j, m)
  PROVE  JobsInOrder(rec, Admit(s, R), [td EXCEPT ![l] = Actions(R)], c, j, m)
<1>1. PICK n, td2 : n = Admit(s, R) /\ td2 = [td EXCEPT ![l] = Actions(R)]
  OBVIOUS
<1>2. /\ n.held = s.held
      /\ \A r \in Rows : n.row[r] = IF r \notin R THEN s.row[r] ELSE IF r \in setting.unfit THEN "refused" ELSE "pending"
  BY <1>1, AdmitOf
<1>3. ASSUME NEW r \in Rows PROVE JobInOrder(rec, n, td2, c, j, m, r)
  <2>1. JobInOrder(rec, s, td, c, j, m, r)
    BY DEF JobsInOrder
  <2>2. /\ Ahead(td2, r) => Ahead(td, r) \/ (r \in R /\ r \notin setting.unfit)
        /\ Double(td2, r) => Double(td, r) \/ (Ahead(td, r) /\ r \in R)
        /\ \A o \in Lanes : Handles(td2, r, o) => Handles(td, r, o)
    BY <1>1, AdmitsSend
  <2>3. Handles(td2, r, "messages") => Handles(td, r, "messages")
    BY <2>2 DEF Lanes
  <2>4. Handles(td2, r, "events") => Handles(td, r, "events")
    BY <2>2 DEF Lanes
  <2>5. /\ Gone(m, r) => Talks(m, r)
        /\ Overtaken(m, r) => Says(m, "arrived", r)
        /\ Says(m, "arrived", r) => Talks(m, r)
    BY MailSays
  <2> HIDE DEF Double, Twice, Ahead, Wired, Talks, Says, Gone, Overtaken, Unlisted, Refuses, Handles
  <2>6. CASE r \notin R
    <3>1. n.row[r] = s.row[r]
      BY <1>2, <2>6
    <3>2. (Ahead(td2, r) => Ahead(td, r)) /\ (Double(td2, r) => Double(td, r)) /\ (Out(td2, c, r) => Out(td, c, r))
      BY <2>2, <2>6 DEF Out
    <3> HIDE DEF Out
    <3> QED BY <1>2, <2>1, <2>3, <2>4, <3>1, <3>2 DEF JobInOrder
  <2>7. CASE r \in R
    <3>1. s.row[r] \in {"unknown", "waiting"}
      BY <2>7
    <3>2. ~Ahead(td, r) /\ ~Wired(c, r) /\ j[r] = "none" /\ r \notin s.held /\ ~Talks(m, r) /\ rec[r].status # "received"
      BY <2>1, <3>1 DEF JobInOrder, Out
    <3>3. n.row[r] = IF r \in setting.unfit THEN "refused" ELSE "pending"
      BY <1>2, <2>7
    <3>4. ~Double(td2, r) /\ ~Twice(c, r)
      BY <2>1, <2>2, <3>2 DEF JobInOrder
    <3>5. Ahead(td2, r) => r \notin setting.unfit
      BY <2>2, <3>2
    <3>6. ~Handles(td2, r, "messages") /\ ~Handles(td2, r, "events")
      BY <2>1, <2>3, <2>4, <3>2 DEF JobInOrder
    <3> QED BY <1>2, <2>5, <3>2, <3>3, <3>4, <3>5, <3>6 DEF JobInOrder, Out
  <2> QED BY <2>6, <2>7
<1> QED BY <1>1, <1>3 DEF JobsInOrder
\* A letter is read.
LEMMA JobsRead ==
  ASSUME NEW rec, NEW s, NEW td, NEW c, NEW j, NEW m \in Seq(Letters), m # <<>>, JobsInOrder(rec, s, td, c, j, m)
  PROVE  JobsInOrder(rec, s, td, c, j, Tail(m))
<1>1. PICK t : t = Tail(m)
  OBVIOUS
<1>2. ASSUME NEW r \in Rows PROVE JobInOrder(rec, s, td, c, j, t, r)
  <2>1. JobInOrder(rec, s, td, c, j, m, r)
    BY DEF JobsInOrder
  <2>2. /\ Talks(t, r) => Talks(m, r)
        /\ \A kind : Says(t, kind, r) => Says(m, kind, r)
        /\ Refuses(t, r) => Refuses(m, r)
        /\ Unlisted(t, r) => Unlisted(m, r)
        /\ Overtaken(t, r) => Overtaken(m, r)
    BY <1>1, MailRead
  <2>3. Gone(t, r) => Gone(m, r)
    BY <2>2 DEF Gone
  <2> HIDE DEF Double, Twice, Ahead, Wired, Talks, Says, Gone, Overtaken, Unlisted, Refuses, Handles, Out
  <2> QED BY <2>1, <2>2, <2>3 DEF JobInOrder
<1> QED BY <1>1, <1>2 DEF JobsInOrder

\* A handler performs a plan that keeps the jobs in order and has room.
LEMMA PerformInOrder ==
  ASSUME TypeInv, NEW l \in Lanes, NEW s \in Pictures, NEW t \in [TaskNames -> Tasks],
         NEW out \in Seq(Cmds), NEW list \in Seq(Acts), NEW paced \in BOOLEAN, NEW rec, NEW j,
         Perform(l, s, t, out, list, paced), l = "messages" => mail # <<>>,
         JobsInOrder(rec, s, [Todo EXCEPT ![l] = list], cmds \o out, j, mail), Roomy(s)
  PROVE  JobsInOrder(rec, state', Todo', cmds', j, mail') /\ Roomy(state')
<1>0. /\ Actions(Goes(s)) \in Seq(Acts) /\ Goes(s) \subseteq Rows
      /\ \/ /\ state' = s /\ task' = Begun(t, list) /\ cmds' = cmds \o out \o Published(list)
            /\ Todo' = [Todo EXCEPT ![l] = Rest(list)]
         \/ /\ Rest(list) = <<>>
            /\ state' = Admit(s, Goes(s)) /\ task' = Begun(Begun(t, list), Actions(Goes(s)))
            /\ cmds' = cmds \o out \o Published(list) \o Published(Actions(Goes(s)))
            /\ Todo' = [Todo EXCEPT ![l] = Rest(Actions(Goes(s)))]
      /\ \A m \in Lanes : IF m = l THEN ~lane'[m].landed ELSE lane'[m] = lane[m]
      /\ mail' = IF l = "messages" /\ Todo'[l] = <<>> THEN Tail(mail) ELSE mail
      /\ state' \in Pictures /\ task' \in [TaskNames -> Tasks] /\ cmds' \in Seq(Cmds) /\ LanesOK'
      /\ mail' \in Seq(Letters)
  BY Performs
<1>1. PICK td, td1, c : td = Todo /\ td1 = [td EXCEPT ![l] = list] /\ c = cmds \o out
  OBVIOUS
<1>2. td \in [Lanes -> Seq(Acts)] /\ c \in Seq(Cmds) /\ mail \in Seq(Letters)
  <2>1. cmds \in Seq(Cmds) /\ mail \in Seq(Letters)
    BY DEF TypeInv
  <2> QED BY <1>1, <2>1, TodoOf, ConcatProperties
<1>3. td1 \in [Lanes -> Seq(Acts)] /\ td1[l] = list
  BY <1>1, <1>2
<1>4. PICK rest, p, R, more, q : rest = Rest(list) /\ p = Published(list) /\ R = Goes(s) /\ more = Actions(R) /\ q = Published(more)
  OBVIOUS
<1>5. rest \in Seq(Acts) /\ p \in Seq(Cmds)
  BY <1>4, RestOf, PublishedOf
<1>6. PICK td2, c2 : td2 = [td EXCEPT ![l] = rest] /\ c2 = c \o p
  OBVIOUS
<1>7. td2 = [td1 EXCEPT ![l] = rest] /\ td2 \in [Lanes -> Seq(Acts)] /\ td2[l] = rest /\ c2 \in Seq(Cmds)
  <2>1. c2 \in Seq(Cmds)
    BY <1>2, <1>5, <1>6, ConcatProperties
  <2> QED BY <1>1, <1>2, <1>3, <1>5, <1>6, <2>1
<1>8. JobsInOrder(rec, s, td2, c2, j, mail)
  <2>1. JobsInOrder(rec, s, td1, c, j, mail)
    BY <1>1
  <2>2. JobsInOrder(rec, s, [td1 EXCEPT ![l] = Rest(td1[l])], c \o Published(td1[l]), j, mail)
    BY <1>2, <1>3, <2>1, JobsBegin
  <2> QED BY <1>3, <1>4, <1>6, <1>7, <2>2
<1>9. PICK n, td3, c3 : n = state' /\ td3 = Todo' /\ c3 = cmds'
  OBVIOUS
<1>12. /\ more \in Seq(Acts) /\ R \in SUBSET Rows
       /\ mail' = IF l = "messages" /\ td3[l] = <<>> THEN Tail(mail) ELSE mail
       /\ \/ n = s /\ c3 = c2 /\ td3 = td2
          \/ /\ rest = <<>> /\ n = Admit(s, R)
             /\ c3 = c2 \o q /\ td3 = [td EXCEPT ![l] = Rest(more)]
  <2>1. more \in Seq(Acts) /\ R \in SUBSET Rows
    BY <1>0, <1>4
  <2>2. mail' = IF l = "messages" /\ td3[l] = <<>> THEN Tail(mail) ELSE mail
    BY <1>0, <1>9
  <2>3. CASE state' = s /\ cmds' = cmds \o out \o Published(list) /\ Todo' = [Todo EXCEPT ![l] = Rest(list)]
    <3>1. n = s /\ c3 = c2 /\ td3 = td2
      BY <1>1, <1>4, <1>6, <1>9, <2>3
    <3> QED BY <2>1, <2>2, <3>1
  <2>4. CASE /\ Rest(list) = <<>> /\ state' = Admit(s, Goes(s))
             /\ cmds' = cmds \o out \o Published(list) \o Published(Actions(Goes(s)))
             /\ Todo' = [Todo EXCEPT ![l] = Rest(Actions(Goes(s)))]
    <3>1. rest = <<>> /\ n = Admit(s, R) /\ c3 = c2 \o q /\ td3 = [td EXCEPT ![l] = Rest(more)]
      BY <1>1, <1>4, <1>6, <1>9, <2>4
    <3> QED BY <2>1, <2>2, <3>1
  <2> QED BY <1>0, <2>3, <2>4
<1>13. JobsInOrder(rec, n, td3, c3, j, mail) /\ Roomy(n)
  <2>1. CASE n = s /\ c3 = c2 /\ td3 = td2
    BY <1>8, <2>1
  <2>2. CASE /\ rest = <<>> /\ n = Admit(s, R)
             /\ c3 = c2 \o q /\ td3 = [td EXCEPT ![l] = Rest(more)]
    <3>1. Roomy(n)
      BY <1>4, <2>2, AdmittedFit
    <3>2. \A r \in R : s.row[r] \in {"unknown", "waiting"}
      BY <1>4 DEF Goes, Waiting
    <3>3. PICK td4 : td4 = [td2 EXCEPT ![l] = more]
      OBVIOUS
    <3>4. JobsInOrder(rec, n, td4, c2, j, mail)
      BY <1>2, <1>4, <1>7, <1>8, <1>12, <2>2, <3>2, <3>3, JobsAdmit
    <3>5. td4 \in [Lanes -> Seq(Acts)] /\ td4[l] = more
      BY <1>7, <1>12, <3>3
    <3>6. JobsInOrder(rec, n, [td4 EXCEPT ![l] = Rest(td4[l])], c2 \o Published(td4[l]), j, mail)
      BY <1>7, <3>4, <3>5, JobsBegin
    <3>7. [td4 EXCEPT ![l] = Rest(more)] = td3
      BY <1>2, <1>6, <2>2, <3>3
    <3> QED BY <1>4, <2>2, <3>1, <3>5, <3>6, <3>7
  <2> QED BY <1>12, <2>1, <2>2
<1>14. JobsInOrder(rec, n, td3, c3, j, mail')
  <2>1. CASE mail' = mail
    BY <1>13, <2>1
  <2>2. CASE l = "messages" /\ mail' = Tail(mail)
    <3>1. mail # <<>>
      BY <2>2
    <3> QED BY <1>2, <1>13, <2>2, <3>1, JobsRead
  <2> QED BY <1>12, <2>1, <2>2
<1> QED BY <1>9, <1>13, <1>14

\* A plan moves the picture on, and a lane's list: how far it may go.
Moved(s, n, td, c, j, m, r) ==
  /\ n.row[r] \in {"unknown", "waiting"} => s.row[r] \in {"unknown", "waiting"}
  /\ n.row[r] = "refused" => s.row[r] = "refused" \/ (~Out(td, c, r) /\ j[r] = "none" /\ ~Says(m, "arrived", r))
  /\ r \in n.held => r \in s.held \/ (s.row[r] \notin {"unknown", "waiting"} /\ ~Out(td, c, r) /\ (Unlisted(m, r) => j[r] = "none"))
  /\ r \in s.held => r \in n.held \/ (j[r] = "none" /\ ~Handles(td, r, "messages"))
Goon(td, l, list, d, n) == \A i \in DOMAIN list :
  \/ i + d \in DOMAIN td[l] /\ list[i] = td[l][i + d]
  \/ /\ list[i].do # "dispatch"
     /\ list[i].do \in {"accumulate", "receive"} => l = "messages" /\ list[i].row \in n.held
LEMMA PlanMoves ==
  ASSUME NEW rec, NEW s, NEW n, NEW td \in [Lanes -> Seq(Acts)], NEW c, NEW j, NEW m,
         NEW l \in Lanes, NEW list \in Seq(Acts), NEW d \in {0, 1}, Goon(td, l, list, d, n),
         \A r \in Rows : Moved(s, n, td, c, j, m, r), JobsInOrder(rec, s, td, c, j, m)
  PROVE  JobsInOrder(rec, n, [td EXCEPT ![l] = list], c, j, m)
<1>1. PICK td2 : td2 = [td EXCEPT ![l] = list]
  OBVIOUS
<1>2. td2[l] = list /\ \A o \in Lanes \ {l} : td2[o] = td[o]
  BY <1>1
<1>3. ASSUME NEW r \in Rows PROVE JobInOrder(rec, n, td2, c, j, m, r)
  <2>1. JobInOrder(rec, s, td, c, j, m, r) /\ Moved(s, n, td, c, j, m, r)
    BY DEF JobsInOrder
  <2>2. (Ahead(td2, r) => Ahead(td, r)) /\ (Double(td2, r) => Double(td, r))
    <3>1. \A i \in DOMAIN list : (i + d \in DOMAIN td[l] /\ list[i] = td[l][i + d]) \/ list[i].do # "dispatch"
      BY DEF Goon
    <3> QED BY <1>1, <3>1, ListsSend
  <2>3. \A o \in Lanes : Handles(td2, r, o) => Handles(td, r, o) \/ (o = "messages" /\ r \in n.held)
    <3> SUFFICES ASSUME NEW o \in Lanes, NEW i \in DOMAIN td2[o], td2[o][i].do \in {"accumulate", "receive"}, td2[o][i].row = r
                 PROVE  Handles(td, r, o) \/ (o = "messages" /\ r \in n.held)
      BY DEF Handles
    <3>1. CASE o = l
      BY <1>2, <3>1 DEF Goon, Handles
    <3>2. CASE o # l
      BY <1>2, <3>2 DEF Handles
    <3> QED BY <3>1, <3>2
  <2>4. Handles(td2, r, "messages") => Handles(td, r, "messages") \/ r \in n.held
    BY <2>3 DEF Lanes
  <2>5. Handles(td2, r, "events") => Handles(td, r, "events")
    BY <2>3 DEF Lanes
  <2>6. Out(td2, c, r) => Out(td, c, r)
    BY <2>2 DEF Out
  <2> HIDE DEF Double, Twice, Ahead, Wired, Talks, Says, Gone, Overtaken, Unlisted, Refuses, Handles, Out
  <2> QED BY <2>1, <2>2, <2>4, <2>5, <2>6 DEF JobInOrder, Moved
<1> QED BY <1>1, <1>3 DEF JobsInOrder
LEMMA PlanInOrder ==
  ASSUME TypeInv, NEW l \in Lanes, NEW s \in Pictures, NEW t \in [TaskNames -> Tasks],
         NEW list \in Seq(Acts), NEW paced \in BOOLEAN,
         Perform(l, s, t, <<>>, list, paced), l = "messages" => mail # <<>>, UNCHANGED <<db, machine>>,
         JobsInOrder(db, s, [Todo EXCEPT ![l] = list], cmds, machine.job, mail), Roomy(s)
  PROVE  JobsInOrder(db', state', Todo', cmds', machine'.job, mail') /\ Roomy(state')
<1>1. PICK e, rec, j, td1 : e = <<>> /\ rec = db /\ j = machine.job /\ td1 = [Todo EXCEPT ![l] = list]
  OBVIOUS
<1>2. e \in Seq(Cmds) /\ cmds \o e = cmds
  BY <1>1, EmptySeq, ConcatEmptySeq DEF TypeInv
<1>3. Perform(l, s, t, e, list, paced)
  BY <1>1
<1>4. JobsInOrder(rec, s, [Todo EXCEPT ![l] = list], cmds \o e, j, mail)
  BY <1>1, <1>2
<1>5. JobsInOrder(rec, state', Todo', cmds', j, mail') /\ Roomy(state')
  <2> HIDE DEF Perform
  <2> QED BY <1>2, <1>3, <1>4, PerformInOrder
<1>6. rec = db' /\ j = machine'.job
  BY <1>1
<1> QED BY <1>5, <1>6

\* The gateway's part of a calm line: no crash, no late answer, no restart.
Ordered == JobsInOrder(db, state, Todo, cmds, machine.job, mail) /\ Roomy(state)
OrderedNext == JobsInOrder(db', state', Todo', cmds', machine'.job, mail') /\ Roomy(state')
LEMMA OrderedThen == setting' = setting /\ OrderedNext => Ordered'
<1> SUFFICES ASSUME setting' = setting, OrderedNext PROVE Ordered'
  OBVIOUS
<1>1. Roomy(state)'
  BY DEF OrderedNext, Roomy
<1>2. JobsInOrder(db, state, Todo, cmds, machine.job, mail)'
  BY DEF OrderedNext
<1> QED BY <1>1, <1>2 DEF Ordered

LEMMA ReturnsInOrder ==
  ASSUME TypeInv, Ordered, NEW l \in Lanes, VerbReturns(l)
  PROVE  OrderedNext
<1>1. PICK a \in Acts, s \in Pictures, list \in Seq(Acts) :
         /\ lane[l].todo # <<>> /\ a = lane[l].todo[1]
         /\ s = IF a.do = "accumulate" THEN state ELSE Shut(state, a.row)
         /\ list = IF a.do = "accumulate" /\ db[a.row].item THEN <<Do("receive", a.row)>> \o Tail(lane[l].todo)
                   ELSE Tail(lane[l].todo)
         /\ Perform(l, s, task, <<>>, list, lane[l].pc = "pacing")
         /\ UNCHANGED <<db, machine>>
  BY VerbReturnsPlan
<1>2. PICK td, more, todo, j : td = Todo /\ more = Tail(lane[l].todo) /\ todo = lane[l].todo /\ j = machine.job
  OBVIOUS
<1>3. /\ a.row \in Rows /\ a.do \in Verbs /\ more \in Seq(Acts) /\ (l = "messages" => mail # <<>>)
      /\ todo \in Seq(Acts) /\ 1 \in DOMAIN todo /\ todo # <<>> /\ more = Tail(todo) /\ td[l] = todo /\ a = todo[1]
      /\ td \in [Lanes -> Seq(Acts)]
  BY <1>1, <1>2, AtWork, TodoOf
<1>4. task \in [TaskNames -> Tasks] /\ (lane[l].pc = "pacing") \in BOOLEAN /\ state \in Pictures
  BY DEF TypeInv
<1>5. s.held = state.held /\ \A r \in Rows : s.row[r] = state.row[r] \/ s.row[r] = "closed"
  BY <1>1, <1>3, <1>4, ShutOf
<1>6. \A r \in Rows : Moved(state, s, td, cmds, j, mail, r)
  <2> HIDE DEF Out, Says, Unlisted, Handles
  <2> QED BY <1>5 DEF Moved
<1>7. JobsInOrder(db, state, td, cmds, j, mail) /\ Roomy(state)
  BY <1>2 DEF Ordered
<1>8. \E d \in {0, 1} : Goon(td, l, list, d, s)
  <2>1. /\ Len(todo) \in Nat /\ Len(more) = Len(todo) - 1 /\ DOMAIN more = 1..(Len(todo) - 1) /\ DOMAIN todo = 1..Len(todo)
        /\ \A i \in 1..(Len(todo) - 1) : more[i] = todo[i + 1]
    BY <1>3, HeadTailProperties, LenProperties
  <2>2. CASE list = more
    <3>1. \A i \in DOMAIN list : i + 1 \in DOMAIN td[l] /\ list[i] = td[l][i + 1]
      BY <1>3, <2>1, <2>2
    <3> QED BY <3>1 DEF Goon
  <2>3. CASE a.do = "accumulate" /\ list = <<Do("receive", a.row)>> \o more
    <3>1. l = "messages" /\ a.row \in s.held
      <4>1. Handles(td, a.row, l)
        BY <1>3, <2>3 DEF Handles
      <4>2. JobInOrder(db, state, td, cmds, j, mail, a.row)
        BY <1>3, <1>7 DEF JobsInOrder
      <4>3. ~Handles(td, a.row, "events") /\ (Handles(td, a.row, "messages") => a.row \in state.held)
        BY <4>2 DEF JobInOrder
      <4>4. l = "events" \/ l = "messages"
        BY DEF Lanes
      <4> QED BY <1>5, <4>1, <4>3, <4>4
    <3>2. PICK one : one = <<Do("receive", a.row)>>
      OBVIOUS
    <3>3. one[1].do = "receive" /\ one[1].row = a.row /\ one \in Seq(Acts) /\ Len(one) = 1
      <4>1. <<Do("receive", a.row)>> \in Seq(Acts) /\ Len(<<Do("receive", a.row)>>) = 1
        BY <1>3 DEF Do, Acts, Verbs
      <4> QED BY <3>2, <4>1 DEF Do
    <3>5. /\ Len(list) = 1 + (Len(todo) - 1) /\ list \in Seq(Acts)
          /\ \A i \in 1..Len(list) : list[i] = IF i <= 1 THEN one[i] ELSE more[i - 1]
      BY <1>3, <2>1, <2>3, <3>2, <3>3, ConcatProperties
    <3>6. DOMAIN list = 1..Len(todo)
      BY <2>1, <3>5, LenProperties
    <3>7. ASSUME NEW i \in DOMAIN list
          PROVE  \/ i + 0 \in DOMAIN td[l] /\ list[i] = td[l][i + 0]
                 \/ list[i].do = "receive" /\ list[i].row = a.row
      <4>1. CASE i = 1
        <5>1. list[i] = one[1]
          BY <2>1, <3>5, <3>6, <4>1
        <5> QED BY <3>3, <5>1
      <4>2. CASE i # 1
        <5>0. i \in 1..Len(todo)
          BY <3>6
        <5>1. i - 1 \in 1..(Len(todo) - 1) /\ ~(i <= 1) /\ i \in 1..Len(list) /\ (i - 1) + 1 = i /\ i + 0 = i
          BY <2>1, <3>5, <4>2, <5>0
        <5>2. list[i] = more[i - 1] /\ more[i - 1] = todo[i]
          BY <2>1, <3>5, <5>1
        <5> QED BY <1>3, <2>1, <5>0, <5>1, <5>2
      <4> QED BY <4>1, <4>2
    <3>8. Goon(td, l, list, 0, s)
      BY <3>1, <3>7 DEF Goon
    <3> QED BY <3>8
  <2> QED BY <1>1, <1>2, <2>2, <2>3
<1>9. JobsInOrder(db, s, [td EXCEPT ![l] = list], cmds, j, mail)
  BY <1>3, <1>6, <1>7, <1>8, PlanMoves
<1>10. Roomy(s)
  <2>1. \A r \in Rows : (r \in s.held \/ s.row[r] \in Sent) => (r \in state.held \/ state.row[r] \in Sent)
    BY <1>5 DEF Sent
  <2> QED BY <1>4, <1>7, <2>1, LessRoom
<1>11. JobsInOrder(db, s, [Todo EXCEPT ![l] = list], cmds, machine.job, mail)
  BY <1>2, <1>9
<1>12. JobsInOrder(db', state', Todo', cmds', machine'.job, mail') /\ Roomy(state')
  BY <1>1, <1>3, <1>4, <1>10, <1>11, PlanInOrder
<1> QED BY <1>12 DEF OrderedNext

\* An event leads to a dispatch, for which there is room, to a wait or to a closed row.
LEMMA HearsInOrder ==
  ASSUME TypeInv, Ordered, NEW r \in Rows, NEW verb \in Happenings, OnEscalation(r, verb)
  PROVE  OrderedNext
<1>1. PICK s \in Pictures, list \in Seq(Acts), fits \in BOOLEAN :
         /\ \/ /\ state.row[r] = "unknown" /\ Fits(MachineLoad(state))
               /\ s = Admit(state, {r}) /\ list = Actions({r})
            \/ /\ state.row[r] = "unknown"
               /\ s = [state EXCEPT !.row[r] = "waiting"] /\ list = <<>>
            \/ s = Shut(state, r) /\ list = IF verb = "ended" THEN CancelDispatch(state, r) ELSE <<>>
            \/ s = state /\ list = <<>>
         /\ lane["events"] = Idle /\ Perform("events", s, task, <<>>, list, FALSE)
         /\ UNCHANGED <<db, machine>>
  BY OnEscalationPlan
<1>2. PICK td, j : td = Todo /\ j = machine.job
  OBVIOUS
<1>3. td \in [Lanes -> Seq(Acts)] /\ td["events"] = <<>> /\ "events" \in Lanes
  BY <1>1, <1>2, TodoOf DEF Lanes
<1>4. task \in [TaskNames -> Tasks] /\ FALSE \in BOOLEAN /\ state \in Pictures /\ mail \in Seq(Letters)
  BY DEF TypeInv
<1>5. JobsInOrder(db, state, td, cmds, j, mail) /\ Roomy(state)
  BY <1>2 DEF Ordered
<1>6. ASSUME state.row[r] = "unknown" /\ Fits(MachineLoad(state)) /\ s = Admit(state, {r}) /\ list = Actions({r})
      PROVE  JobsInOrder(db, s, [td EXCEPT !["events"] = list], cmds, j, mail) /\ Roomy(s)
  <2>1. JobsInOrder(db, s, [td EXCEPT !["events"] = list], cmds, j, mail)
    <3>1. PICK R : R = {r}
      OBVIOUS
    <3>2. R \in SUBSET Rows /\ \A q \in R : state.row[q] \in {"unknown", "waiting"}
      BY <1>6, <3>1
    <3>3. JobsInOrder(db, Admit(state, R), [td EXCEPT !["events"] = Actions(R)], cmds, j, mail)
      BY <1>3, <1>4, <1>5, <3>2, JobsAdmit
    <3> QED BY <1>6, <3>1, <3>3
  <2>2. Roomy(s)
    BY <1>4, <1>6, AdmittedFit
  <2> QED BY <2>1, <2>2
<1>7. ASSUME ~(state.row[r] = "unknown" /\ Fits(MachineLoad(state)) /\ s = Admit(state, {r}) /\ list = Actions({r}))
      PROVE  JobsInOrder(db, s, [td EXCEPT !["events"] = list], cmds, j, mail) /\ Roomy(s)
  <2>1. /\ s.held = state.held
        /\ \A q \in Rows : s.row[q] = state.row[q] \/ s.row[q] = "closed"
                           \/ (s.row[q] = "waiting" /\ state.row[q] = "unknown")
    <3>1. CASE state.row[r] = "unknown" /\ s = [state EXCEPT !.row[r] = "waiting"]
      BY <1>4, <3>1 DEF Pictures
    <3>2. CASE s = Shut(state, r)
      BY <1>4, <3>2, ShutOf
    <3>3. CASE s = state
      BY <3>3
    <3> QED BY <1>1, <1>7, <3>1, <3>2, <3>3
  <2>2. \A q \in Rows : Moved(state, s, td, cmds, j, mail, q)
    <3> HIDE DEF Out, Says, Unlisted, Handles
    <3> QED BY <2>1 DEF Moved
  <2>3. Goon(td, "events", list, 0, s)
    <3>1. \A i \in DOMAIN list : list[i].do = "cancel"
      <4>1. \A i \in DOMAIN CancelDispatch(state, r) : CancelDispatch(state, r)[i].do = "cancel"
        BY <1>4, CancelOf DEF Do
      <4>2. list = <<>> \/ list = CancelDispatch(state, r)
        BY <1>1, <1>7
      <4> QED BY <4>1, <4>2
    <3> QED BY <3>1 DEF Goon
  <2>4. JobsInOrder(db, s, [td EXCEPT !["events"] = list], cmds, j, mail)
    BY <1>3, <1>5, <2>2, <2>3, PlanMoves
  <2>5. Roomy(s)
    <3>1. \A q \in Rows : (q \in s.held \/ s.row[q] \in Sent) => (q \in state.held \/ state.row[q] \in Sent)
      BY <2>1 DEF Sent
    <3> QED BY <1>4, <1>5, <3>1, LessRoom
  <2> QED BY <2>4, <2>5
<1>8. JobsInOrder(db, s, [td EXCEPT !["events"] = list], cmds, j, mail) /\ Roomy(s)
  BY <1>6, <1>7
<1>9. JobsInOrder(db, s, [Todo EXCEPT !["events"] = list], cmds, machine.job, mail)
  BY <1>2, <1>8
<1>10. JobsInOrder(db', state', Todo', cmds', machine'.job, mail') /\ Roomy(state')
  BY <1>1, <1>3, <1>4, <1>8, <1>9, PlanInOrder
<1> QED BY <1>10 DEF OrderedNext

\* A message is read while its lane is idle.
LEMMA ReadsInOrder ==
  ASSUME TypeInv, Ordered, NEW s \in Pictures, NEW t \in [TaskNames -> Tasks], NEW list \in Seq(Acts),
         Perform("messages", s, t, <<>>, list, FALSE), lane["messages"] = Idle, mail # <<>>, UNCHANGED <<db, machine>>,
         \A i \in DOMAIN list : list[i].do # "dispatch" /\ (list[i].do \in {"accumulate", "receive"} => list[i].row \in s.held),
         \A r \in Rows : /\ Moved(state, s, Todo, cmds, machine.job, mail, r)
                         /\ (r \in s.held \/ s.row[r] \in Sent) => (r \in state.held \/ state.row[r] \in Sent)
  PROVE  OrderedNext
<1>2. PICK td, j : td = Todo /\ j = machine.job
  OBVIOUS
<1>3. td \in [Lanes -> Seq(Acts)] /\ td["messages"] = <<>> /\ "messages" \in Lanes
  BY <1>2, TodoOf DEF Lanes
<1>4. FALSE \in BOOLEAN /\ state \in Pictures
  BY DEF TypeInv
<1>5. JobsInOrder(db, state, td, cmds, j, mail) /\ Roomy(state)
  BY <1>2 DEF Ordered
<1>6. \A r \in Rows : Moved(state, s, td, cmds, j, mail, r)
  BY <1>2
<1>7. Goon(td, "messages", list, 0, s)
  BY DEF Goon
<1>8. JobsInOrder(db, s, [td EXCEPT !["messages"] = list], cmds, j, mail)
  BY <1>3, <1>5, <1>6, <1>7, PlanMoves
<1>9. Roomy(s)
  BY <1>4, <1>5, LessRoom
<1>10. JobsInOrder(db, s, [Todo EXCEPT !["messages"] = list], cmds, machine.job, mail)
  BY <1>2, <1>8
<1>11. JobsInOrder(db', state', Todo', cmds', machine'.job, mail') /\ Roomy(state')
  BY <1>3, <1>4, <1>9, <1>10, PlanInOrder
<1> QED BY <1>11 DEF OrderedNext

\* What is known of the row of the letter at hand.
LEMMA LetterInOrder ==
  ASSUME TypeInv, Ordered, mail # <<>>
  PROVE  LET m == mail[1] IN
         /\ m.kind # "snapshot" =>
              /\ state.row[m.row] \notin {"unknown", "waiting"} /\ ~Out(Todo, cmds, m.row)
              /\ m.kind = "arrived" => state.row[m.row] # "refused" /\ (Unlisted(mail, m.row) => machine.job[m.row] = "none")
              /\ m.kind \in {"released", "withdrawn"} \/ (m.kind = "reply" /\ ~m.ok) => machine.job[m.row] = "none"
              /\ m.kind = "reply" /\ ~m.ok => ~Says(mail, "arrived", m.row)
         /\ m.kind = "snapshot" => \A r \in Rows : r \in state.held /\ r \notin m.jobs => machine.job[r] = "none"
<1>1. PICK m, td, j : m = mail[1] /\ td = Todo /\ j = machine.job
  OBVIOUS
<1>2. mail \in Seq(Letters) /\ (m.kind # "snapshot" => m.row \in Rows) /\ m \in Letters
  BY <1>1, LetterOf DEF TypeInv
<1>3. \A r \in Rows : JobInOrder(db, state, td, cmds, j, mail, r)
  BY <1>1 DEF Ordered, JobsInOrder
<1>4. \A r \in Rows :
         /\ m.kind # "snapshot" /\ m.row = r => Talks(mail, r) /\ Says(mail, m.kind, r)
         /\ m.kind = "reply" /\ m.row = r /\ ~m.ok => Refuses(mail, r)
         /\ m.kind = "snapshot" /\ r \notin m.jobs => Unlisted(mail, r)
         /\ m.kind = "arrived" /\ m.row = r /\ Unlisted(mail, r) => Overtaken(mail, r)
  BY <1>1, <1>2, MailRead
<1> HIDE DEF Double, Twice, Ahead, Wired, Talks, Says, Overtaken, Unlisted, Refuses, Handles, Out
<1>5. ASSUME m.kind # "snapshot"
      PROVE  /\ state.row[m.row] \notin {"unknown", "waiting"} /\ ~Out(td, cmds, m.row)
             /\ m.kind = "arrived" => state.row[m.row] # "refused" /\ (Unlisted(mail, m.row) => j[m.row] = "none")
             /\ m.kind \in {"released", "withdrawn"} \/ (m.kind = "reply" /\ ~m.ok) => j[m.row] = "none"
             /\ m.kind = "reply" /\ ~m.ok => ~Says(mail, "arrived", m.row)
  <2>1. JobInOrder(db, state, td, cmds, j, mail, m.row) /\ Talks(mail, m.row) /\ Says(mail, m.kind, m.row)
    BY <1>2, <1>3, <1>4, <1>5
  <2>2. /\ m.kind = "reply" /\ ~m.ok => Refuses(mail, m.row)
        /\ m.kind = "arrived" /\ Unlisted(mail, m.row) => Overtaken(mail, m.row)
    BY <1>2, <1>4, <1>5
  <2> QED BY <2>1, <2>2 DEF JobInOrder, Gone
<1>6. ASSUME m.kind = "snapshot", NEW r \in Rows, r \in state.held, r \notin m.jobs PROVE j[r] = "none"
  <2>1. JobInOrder(db, state, td, cmds, j, mail, r) /\ Unlisted(mail, r)
    BY <1>3, <1>4, <1>6
  <2> QED BY <1>6, <2>1 DEF JobInOrder
<1> QED BY <1>1, <1>5, <1>6

\* A reply concludes dispatches of rows that are pending or closed.
LEMMA RepliesInOrder ==
  ASSUME TypeInv, Ordered, InStep(World, state, task, Todo, events, Landed), spent["restart"] = 0, TakeReply
  PROVE  OrderedNext
<1>1. PICK m \in Letters, s \in Pictures, t \in [TaskNames -> Tasks] : \E X \in SUBSET TaskNames : \E T \in SUBSET Rows :
         /\ m = mail[1] /\ m.kind = "reply" /\ m.row \in Rows /\ T = IF m.ok THEN {m.row} ELSE {}
         /\ X = {x \in TaskNames : task[x].pc = "reply" /\ x[1] = m.row /\ task[x].of = m.of}
         /\ s = Concluded(state, X, T) /\ t = Answered(state, X, T, TRUE)
         /\ Perform("messages", s, t, <<>>, <<>>, FALSE)
         /\ gateway = "up" /\ lane["messages"] = Idle /\ mail # <<>> /\ UNCHANGED <<db, events, gateway, machine, period, spent>>
  BY TakeReplyPlan, ZenonT(30)
<1>2. PICK X \in SUBSET TaskNames : \E T \in SUBSET Rows :
         /\ m = mail[1] /\ m.kind = "reply" /\ m.row \in Rows /\ T = IF m.ok THEN {m.row} ELSE {}
         /\ X = {x \in TaskNames : task[x].pc = "reply" /\ x[1] = m.row /\ task[x].of = m.of}
         /\ s = Concluded(state, X, T) /\ t = Answered(state, X, T, TRUE)
         /\ Perform("messages", s, t, <<>>, <<>>, FALSE)
         /\ lane["messages"] = Idle /\ mail # <<>> /\ UNCHANGED <<db, machine>>
  BY <1>1
<1>3. PICK T \in SUBSET Rows :
         /\ m = mail[1] /\ m.kind = "reply" /\ m.row \in Rows /\ T = IF m.ok THEN {m.row} ELSE {}
         /\ X = {x \in TaskNames : task[x].pc = "reply" /\ x[1] = m.row /\ task[x].of = m.of}
         /\ s = Concluded(state, X, T) /\ t = Answered(state, X, T, TRUE)
         /\ Perform("messages", s, t, <<>>, <<>>, FALSE)
         /\ lane["messages"] = Idle /\ mail # <<>> /\ UNCHANGED <<db, machine>>
  BY <1>2
<1>4. PICK td, j : td = Todo /\ j = machine.job
  OBVIOUS
<1>5. state \in Pictures
  BY DEF TypeInv
<1>6. /\ s.held = state.held
      /\ \A r \in Rows : s.row[r] = IF r \notin Asks(X) \/ ~IsOpen(state, r) THEN state.row[r]
                                    ELSE IF r \in T THEN "accepted" ELSE "refused"
  <2>1. X \subseteq TaskNames
    OBVIOUS
  <2>2. /\ Concluded(state, X, T).held = state.held
        /\ \A r \in Rows : Concluded(state, X, T).row[r] =
             IF r \notin Asks(X) \/ ~IsOpen(state, r) THEN state.row[r] ELSE IF r \in T THEN "accepted" ELSE "refused"
    BY <1>5, <2>1, ConcludedOf
  <2>3. s = Concluded(state, X, T)
    BY <1>3
  <2> QED BY <2>2, <2>3
<1>7. \A r \in Asks(X) : r = m.row /\ state.row[r] \in {"pending", "closed"}
  <2> SUFFICES ASSUME NEW x \in X PROVE x[1] = m.row /\ state.row[x[1]] \in {"pending", "closed"}
    BY DEF Asks
  <2>1. PICK q \in Rows, k \in Sends : x = <<q, k>>
    BY DEF TaskNames
  <2>2. task[<<q, k>>].pc = "reply" /\ x[1] = q /\ q = m.row
    BY <1>3, <2>1
  <2>3. TaskInStep(World, state, task, q, k)
    BY DEF InStep, TasksInStep
  <2>4. ~World.restarted
    BY DEF World
  <2>5. k = "first"
    BY <2>2, <2>3, <2>4 DEF TaskInStep
  <2>6. state.row[q] \in {"pending", "closed"}
    BY <2>2, <2>3, <2>5 DEF TaskInStep, InFlight
  <2> QED BY <2>2, <2>6
<1>8. /\ state.row[m.row] \notin {"unknown", "waiting"} /\ ~Out(td, cmds, m.row)
      /\ ~m.ok => j[m.row] = "none" /\ ~Says(mail, "arrived", m.row)
  BY <1>3, <1>4, LetterInOrder
<1>9. ASSUME NEW r \in Rows
      PROVE  Moved(state, s, td, cmds, j, mail, r) /\ ((r \in s.held \/ s.row[r] \in Sent) => (r \in state.held \/ state.row[r] \in Sent))
  <2> HIDE DEF Out, Says, Unlisted, Handles
  <2>1. CASE s.row[r] = state.row[r]
    BY <1>6, <2>1 DEF Moved
  <2>2. CASE s.row[r] # state.row[r]
    <3>1. r = m.row /\ state.row[r] = "pending" /\ s.row[r] = IF m.ok THEN "accepted" ELSE "refused"
      BY <1>3, <1>6, <1>7, <2>2 DEF IsOpen, Open
    <3> QED BY <1>6, <1>8, <3>1 DEF Moved, Sent
  <2> QED BY <2>1, <2>2
<1>10. \A r \in Rows : /\ Moved(state, s, Todo, cmds, machine.job, mail, r)
                       /\ (r \in s.held \/ s.row[r] \in Sent) => (r \in state.held \/ state.row[r] \in Sent)
  BY <1>4, <1>9
<1>11. PICK e : e = <<>>
  OBVIOUS
<1>12. e \in Seq(Acts) /\ \A i \in DOMAIN e : e[i].do # "dispatch" /\ (e[i].do \in {"accumulate", "receive"} => e[i].row \in s.held)
  BY <1>11, EmptySeq
<1>13. Perform("messages", s, t, <<>>, e, FALSE) /\ lane["messages"] = Idle /\ mail # <<>> /\ UNCHANGED <<db, machine>>
  BY <1>3, <1>11
<1> HIDE DEF Perform, Moved, Sent
<1> QED BY <1>10, <1>12, <1>13, ReadsInOrder

\* A unit that arrives was sent for; one that leaves has no job any more.
LEMMA UnitsInOrder ==
  ASSUME TypeInv, Ordered, TakeJob
  PROVE  OrderedNext
<1>1. PICK m \in Letters, s \in Pictures, list \in Seq(Acts) :
         /\ m = mail[1] /\ m.kind \in {"arrived", "released", "withdrawn", "misread"} /\ m.row \in Rows
         /\ s = CASE m.kind = "arrived" /\ IsOpen(state, m.row) -> [state EXCEPT !.held = @ \cup {m.row}]
                  [] m.kind \in {"released", "withdrawn"} -> LetGo(state, m.row)
                  [] OTHER -> state
         /\ s.row = state.row /\ s.boot = state.boot /\ s.sent \subseteq state.sent
         /\ \/ (m.kind = "released" \/ ~IsOpen(state, m.row)) /\ list = <<>>
            \/ m.kind = "arrived" /\ IsOpen(state, m.row) /\ list = <<Do("accumulate", m.row)>>
            \/ m.kind \in {"withdrawn", "misread"} /\ IsOpen(state, m.row) /\ list = FailHandoff(s, m.row)
         /\ Perform("messages", s, task, <<>>, list, FALSE)
         /\ gateway = "up" /\ lane["messages"] = Idle /\ mail # <<>> /\ UNCHANGED <<db, events, gateway, machine, period, spent>>
  BY TakeJobPlan, ZenonT(30)
<1>a. m.row \in Rows
  BY <1>1
<1>4. PICK td, j : td = Todo /\ j = machine.job
  OBVIOUS
<1>5. state \in Pictures /\ task \in [TaskNames -> Tasks] /\ td["messages"] = <<>>
  BY <1>1, <1>4, TodoOf DEF TypeInv, Lanes
<1>6. \A r \in Rows : ~Handles(td, r, "messages")
  BY <1>5 DEF Handles
<1>7. /\ state.row[m.row] \notin {"unknown", "waiting"} /\ ~Out(td, cmds, m.row)
      /\ m.kind = "arrived" => state.row[m.row] # "refused" /\ (Unlisted(mail, m.row) => j[m.row] = "none")
      /\ m.kind \in {"released", "withdrawn"} => j[m.row] = "none"
  BY <1>1, <1>4, LetterInOrder
<1>8. /\ s.row = state.row
      /\ s.held \subseteq state.held \cup {m.row} /\ state.held \subseteq s.held \cup {m.row}
      /\ m.row \in s.held => m.row \in state.held \/ (m.kind = "arrived" /\ IsOpen(state, m.row))
      /\ m.row \in state.held => m.row \in s.held \/ m.kind \in {"released", "withdrawn"}
      /\ m.kind = "arrived" /\ IsOpen(state, m.row) => m.row \in s.held
  <2>1. CASE m.kind = "arrived" /\ IsOpen(state, m.row)
    <3>1. s = [state EXCEPT !.held = @ \cup {m.row}]
      BY <1>1, <2>1
    <3>2. s.row = state.row /\ s.held = state.held \cup {m.row}
      BY <1>5, <1>a, <3>1 DEF Pictures
    <3> QED BY <2>1, <3>2
  <2>2. CASE m.kind \in {"released", "withdrawn"}
    <3>1. s = LetGo(state, m.row)
      BY <1>1, <2>2
    <3>2. s.row = state.row /\ s.held = state.held \ {m.row}
      BY <1>5, <1>a, <3>1, LetGoOf
    <3> QED BY <2>2, <3>2
  <2>3. CASE m.kind \notin {"released", "withdrawn"} /\ ~(m.kind = "arrived" /\ IsOpen(state, m.row))
    <3>1. s = state
      BY <1>1, <2>3
    <3> QED BY <2>3, <3>1
  <2> QED BY <2>1, <2>2, <2>3
<1>9. ASSUME NEW r \in Rows
      PROVE  Moved(state, s, td, cmds, j, mail, r) /\ ((r \in s.held \/ s.row[r] \in Sent) => (r \in state.held \/ state.row[r] \in Sent))
  <2> HIDE DEF Out, Says, Unlisted, Handles
  <2>1. CASE r # m.row
    <3>1. r \in s.held <=> r \in state.held
      BY <1>8, <2>1
    <3> QED BY <1>8, <3>1 DEF Moved
  <2>2. CASE r = m.row
    <3>1. Moved(state, s, td, cmds, j, mail, r)
      BY <1>6, <1>7, <1>8, <2>2 DEF Moved
    <3>2. (r \in s.held \/ s.row[r] \in Sent) => (r \in state.held \/ state.row[r] \in Sent)
      BY <1>7, <1>8, <2>2 DEF Sent, IsOpen, Open
    <3> QED BY <3>1, <3>2
  <2> QED BY <2>1, <2>2
<1>10. \A r \in Rows : /\ Moved(state, s, Todo, cmds, machine.job, mail, r)
                       /\ (r \in s.held \/ s.row[r] \in Sent) => (r \in state.held \/ state.row[r] \in Sent)
  BY <1>4, <1>9
<1>12. \A i \in DOMAIN list : list[i].do # "dispatch" /\ (list[i].do \in {"accumulate", "receive"} => list[i].row \in s.held)
  <2>1. CASE list = <<>>
    BY <2>1
  <2>2. CASE m.kind = "arrived" /\ IsOpen(state, m.row) /\ list = <<Do("accumulate", m.row)>>
    <3>1. DOMAIN list = {1} /\ list[1].do = "accumulate" /\ list[1].row = m.row
      BY <2>2 DEF Do
    <3> QED BY <1>8, <2>2, <3>1
  <2>3. CASE list = FailHandoff(s, m.row)
    <3>1. \A i \in DOMAIN list : list[i] = IF i = 1 THEN Do("fail", m.row) ELSE Do("cancel", m.row)
      BY <1>1, <2>3, CancelOf
    <3> QED BY <3>1 DEF Do
  <2> QED BY <1>1, <2>1, <2>2, <2>3
<1>13. Perform("messages", s, task, <<>>, list, FALSE) /\ lane["messages"] = Idle /\ mail # <<>> /\ UNCHANGED <<db, machine>>
  BY <1>1
<1> HIDE DEF Perform, Moved, Sent
<1> QED BY <1>5, <1>10, <1>12, <1>13, ReadsInOrder

\* A snapshot of the same boot tells of units that left; nothing is sent again.
LEMMA SnapshotsInOrder ==
  ASSUME TypeInv, Ordered, Kept, InStep(World, state, task, Todo, events, Landed), spent["restart"] = 0, spent["timeout"] = 0,
         TakeSnapshot
  PROVE  OrderedNext
<1>1. PICK m \in Letters, k \in Pictures, s \in Pictures, t \in [TaskNames -> Tasks], out \in Seq(Cmds) :
        \E X \in SUBSET TaskNames : \E open \in SUBSET Rows : \E again \in SUBSET Rows :
          SnapshotPlan(m, k, s, t, out, X, open, again) /\ Perform("messages", s, t, out, <<>>, FALSE)
  BY TakeSnapshotPlan
<1>2. PICK X \in SUBSET TaskNames, open \in SUBSET Rows, again \in SUBSET Rows :
        SnapshotPlan(m, k, s, t, out, X, open, again) /\ Perform("messages", s, t, out, <<>>, FALSE)
  BY <1>1
<1>3. lane["messages"] = Idle /\ mail # <<>> /\ UNCHANGED <<db, machine>>
  BY TakeSnapshotPlan
<1>4. PICK td, j : td = Todo /\ j = machine.job
  OBVIOUS
<1>5. state \in Pictures /\ td["messages"] = <<>>
  BY <1>3, <1>4, TodoOf DEF TypeInv, Lanes
<1>6. m = mail[1] /\ m.kind = "snapshot" /\ 1 \in DOMAIN mail
  <2>1. m = mail[1] /\ m.kind = "snapshot"
    BY <1>2 DEF SnapshotPlan
  <2>2. Len(mail) \in Nat \ {0}
    BY <1>3, LetterOf
  <2>3. DOMAIN mail = 1..Len(mail)
    BY LenProperties DEF TypeInv
  <2> QED BY <2>1, <2>2, <2>3
<1>7. state.boot \in {0, m.boot}
  <2>1. m.boot = 1
    BY <1>6 DEF Kept
  <2>2. state.boot \in {0, 1}
    BY DEF InStep, World
  <2> QED BY <2>1, <2>2
<1>8. open = {} /\ again = {}
  BY <1>2, <1>7 DEF SnapshotPlan
<1>9. X = {}
  <2> SUFFICES ASSUME NEW x \in TaskNames, task[x].pc = "status" PROVE FALSE
    BY <1>2 DEF SnapshotPlan
  <2>1. PICK q \in Rows, h \in Sends : x = <<q, h>>
    BY DEF TaskNames
  <2>2. TaskInStep(World, state, task, q, h) /\ ~World.late
    BY <2>1 DEF InStep, TasksInStep, World
  <2> QED BY <2>1, <2>2 DEF TaskInStep
<1>10. out = <<>> /\ s = Concluded(k, X, m.jobs) /\ k.row = state.row /\ \A r \in Rows : r \in k.held <=> r \in state.held /\ r \in m.jobs
  BY <1>2, <1>8 DEF SnapshotPlan
<1>11. s.held = k.held /\ \A r \in Rows : s.row[r] = state.row[r]
  <2>1. X \subseteq TaskNames /\ Asks(X) = {}
    BY <1>9 DEF Asks
  <2> QED BY <1>10, <2>1, ConcludedOf
<1>12. \A r \in Rows : ~Handles(td, r, "messages")
  BY <1>5 DEF Handles
<1>13. \A r \in Rows : r \in state.held /\ r \notin m.jobs => j[r] = "none"
  BY <1>3, <1>4, <1>6, LetterInOrder
<1>14. ASSUME NEW r \in Rows
      PROVE  Moved(state, s, td, cmds, j, mail, r) /\ ((r \in s.held \/ s.row[r] \in Sent) => (r \in state.held \/ state.row[r] \in Sent))
  <2> HIDE DEF Out, Says, Unlisted, Handles
  <2>1. r \in s.held <=> r \in state.held /\ r \in m.jobs
    BY <1>10, <1>11
  <2> QED BY <1>11, <1>12, <1>13, <2>1 DEF Moved
<1>15. \A r \in Rows : /\ Moved(state, s, Todo, cmds, machine.job, mail, r)
                       /\ (r \in s.held \/ s.row[r] \in Sent) => (r \in state.held \/ state.row[r] \in Sent)
  BY <1>4, <1>14
<1>16. PICK e : e = <<>>
  OBVIOUS
<1>17. e \in Seq(Acts) /\ \A i \in DOMAIN e : e[i].do # "dispatch" /\ (e[i].do \in {"accumulate", "receive"} => e[i].row \in s.held)
  BY <1>16, EmptySeq
<1>18. Perform("messages", s, t, <<>>, e, FALSE)
  BY <1>2, <1>10, <1>16
<1> HIDE DEF Perform, Moved, Sent
<1> QED BY <1>3, <1>15, <1>17, <1>18, ReadsInOrder

\* A gateway takes the line over for the first time: it finds no rows.
LEMMA TakesOverInOrder ==
  ASSUME TypeInv, Ordered, \A r \in Rows : db[r].status = "none", TakeOver
  PROVE  OrderedNext
<1>1. PICK s \in Pictures, list \in Seq(Acts) :
         /\ \A r \in Rows : s.row[r] = IF Claimed(r) THEN "accepted" ELSE IF db[r].status = "pending" THEN "waiting" ELSE "unknown"
         /\ \A r \in Rows : r \in s.held <=> Claimed(r) /\ db[r].item
         /\ \A i \in DOMAIN list : list[i].do = "receive" /\ list[i].row \in Rows /\ Claimed(list[i].row)
         /\ Perform("events", s, task, <<>>, list, TRUE)
         /\ gateway = "down" /\ UNCHANGED <<db, machine>>
  BY TakeOverPlan
<1>2. PICK td, j : td = Todo /\ j = machine.job
  OBVIOUS
<1>3. td \in [Lanes -> Seq(Acts)] /\ "events" \in Lanes /\ task \in [TaskNames -> Tasks] /\ TRUE \in BOOLEAN /\ state \in Pictures
  BY <1>2, TodoOf DEF TypeInv, Lanes
<1>4. JobsInOrder(db, state, td, cmds, j, mail) /\ Roomy(state)
  BY <1>2 DEF Ordered
<1>5. \A r \in Rows : s.row[r] = "unknown" /\ r \notin s.held
  BY <1>1 DEF Claimed
<1>6. \A i \in DOMAIN list : FALSE
  BY <1>1 DEF Claimed
<1>7. \A r \in Rows : state.row[r] = "unknown" /\ r \notin state.held
  BY <1>1 DEF TypeInv, DownOK, Blank
<1>8. \A r \in Rows : Moved(state, s, td, cmds, j, mail, r)
  <2> HIDE DEF Out, Says, Unlisted, Handles
  <2> QED BY <1>5, <1>7 DEF Moved
<1>9. Goon(td, "events", list, 0, s)
  BY <1>6 DEF Goon
<1>10. JobsInOrder(db, s, [td EXCEPT !["events"] = list], cmds, j, mail)
  BY <1>3, <1>4, <1>8, <1>9, PlanMoves
<1>11. Roomy(s)
  <2>1. \A r \in Rows : (r \in s.held \/ s.row[r] \in Sent) => (r \in state.held \/ state.row[r] \in Sent)
    BY <1>5 DEF Sent
  <2> QED BY <1>3, <1>4, <2>1, LessRoom
<1>12. JobsInOrder(db, s, [Todo EXCEPT !["events"] = list], cmds, machine.job, mail)
  BY <1>2, <1>10
<1>13. Perform("events", s, task, <<>>, list, TRUE) /\ UNCHANGED <<db, machine>>
  BY <1>1
<1>14. JobsInOrder(db', state', Todo', cmds', machine'.job, mail') /\ Roomy(state')
  BY <1>3, <1>11, <1>12, <1>13, PlanInOrder
<1> QED BY <1>14 DEF OrderedNext
LEMMA ReadsBackInOrder ==
  ASSUME TypeInv, Ordered, InStep(World, state, task, Todo, events, Landed), \A r \in Rows : db[r].status = "none", ReadBack
  PROVE  OrderedNext
<1>1. PICK k \in Pictures :
         /\ k.row = state.row /\ \A r \in Rows : r \in k.held <=> r \in state.held /\ r \in machine.said.jobs
         /\ Perform("events", k, task, <<>>, <<>>, FALSE)
         /\ lane["events"] = Idle /\ UNCHANGED <<db, machine>>
  BY ReadBackPlan
<1>2. PICK td, j, e : td = Todo /\ j = machine.job /\ e = <<>>
  OBVIOUS
<1>3. /\ td \in [Lanes -> Seq(Acts)] /\ "events" \in Lanes /\ task \in [TaskNames -> Tasks] /\ FALSE \in BOOLEAN /\ state \in Pictures
      /\ e \in Seq(Acts) /\ DOMAIN e = {}
  BY <1>2, TodoOf, EmptySeq DEF TypeInv, Lanes
<1>4. JobsInOrder(db, state, td, cmds, j, mail) /\ Roomy(state)
  BY <1>2 DEF Ordered
<1>5. \A r \in Rows : state.row[r] = "unknown"
  <2> SUFFICES ASSUME NEW r \in Rows PROVE state.row[r] = "unknown"
    OBVIOUS
  <2>1. RowInStep(World, state, task, events, Landed, r)
    BY DEF InStep, RowsInStep
  <2> QED BY <2>1 DEF RowInStep, World
<1>6. \A r \in Rows : r \notin state.held
  <2> SUFFICES ASSUME NEW r \in Rows PROVE r \notin state.held
    OBVIOUS
  <2>1. JobInOrder(db, state, td, cmds, j, mail, r)
    BY <1>4 DEF JobsInOrder
  <2> QED BY <1>5, <2>1 DEF JobInOrder
<1>7. \A r \in Rows : k.row[r] = "unknown" /\ r \notin k.held
  BY <1>1, <1>5, <1>6
<1>8. \A r \in Rows : Moved(state, k, td, cmds, j, mail, r)
  <2> HIDE DEF Out, Says, Unlisted, Handles
  <2> QED BY <1>5, <1>6, <1>7 DEF Moved
<1>9. Goon(td, "events", e, 0, k)
  BY <1>3 DEF Goon
<1>10. JobsInOrder(db, k, [td EXCEPT !["events"] = e], cmds, j, mail)
  BY <1>3, <1>4, <1>8, <1>9, PlanMoves
<1>11. Roomy(k)
  <2>1. \A r \in Rows : (r \in k.held \/ k.row[r] \in Sent) => (r \in state.held \/ state.row[r] \in Sent)
    BY <1>7 DEF Sent
  <2> QED BY <1>3, <1>4, <2>1, LessRoom
<1>12. JobsInOrder(db, k, [Todo EXCEPT !["events"] = e], cmds, machine.job, mail)
  BY <1>2, <1>10
<1>13. Perform("events", k, task, <<>>, e, FALSE) /\ UNCHANGED <<db, machine>>
  BY <1>1, <1>2
<1>14. JobsInOrder(db', state', Todo', cmds', machine'.job, mail') /\ Roomy(state')
  BY <1>3, <1>11, <1>12, <1>13, PlanInOrder
<1> QED BY <1>14 DEF OrderedNext

\* Rows are parked, and end: one is received while it is held.
LEMMA RowsInOrder ==
  ASSUME Ordered, UNCHANGED <<state, cmds, machine, mail>>, Todo' = Todo,
         \A r \in Rows : db'[r].status = "received" => db[r].status = "received" \/ \E l \in Lanes : Handles(Todo, r, l)
  PROVE  OrderedNext
<1>1. PICK rec, td, j, next : rec = db /\ td = Todo /\ j = machine.job /\ next = db'
  OBVIOUS
<1>2. JobsInOrder(rec, state, td, cmds, j, mail) /\ Roomy(state)
  BY <1>1 DEF Ordered
<1>3. ASSUME NEW r \in Rows PROVE JobInOrder(next, state, td, cmds, j, mail, r)
  <2>1. JobInOrder(rec, state, td, cmds, j, mail, r)
    BY <1>2 DEF JobsInOrder
  <2>2. next[r].status = "received" => rec[r].status = "received" \/ Handles(td, r, "messages") \/ Handles(td, r, "events")
    BY <1>1 DEF Lanes
  <2> HIDE DEF Double, Twice, Ahead, Wired, Talks, Says, Gone, Overtaken, Unlisted, Refuses, Handles, Out
  <2> QED BY <2>1, <2>2 DEF JobInOrder
<1>4. JobsInOrder(next, state, td, cmds, j, mail)
  BY <1>3 DEF JobsInOrder
<1>5. JobsInOrder(db', state', Todo', cmds', machine'.job, mail') /\ Roomy(state')
  BY <1>1, <1>2, <1>4
<1> QED BY <1>5 DEF OrderedNext
LEMMA LandReceives ==
  ASSUME TypeInv, NEW verb \in Verbs \cup {"claim"}, NEW r \in Rows, Land(verb, r)
  PROVE  \A q \in Rows : db'[q].status = "received" => db[q].status = "received" \/ (q = r /\ verb = "receive")
<1>1. db \in [Rows -> DbRecords]
  BY DEF TypeInv
<1>2. /\ \A q \in Rows \ {r} : db'[q] = db[q]
      /\ db[r].status # "pending" => db' = db
      /\ verb \in {"claim", "accumulate"} => db'[r].status = db[r].status
  BY LandOf
<1>3. CASE verb \in {"fail", "refuse"} /\ db[r].status = "pending"
  <2>1. db' = db \/ db' = [db EXCEPT ![r].status = "failed"]
    BY <1>3 DEF Land
  <2>2. db'[r].status # "received"
    BY <1>1, <1>3, <2>1 DEF DbRecords
  <2> QED BY <1>2, <2>2
<1> QED BY <1>2, <1>3 DEF Verbs
LEMMA LandsInOrder ==
  ASSUME TypeInv, Ordered, NEW l \in Lanes, VerbLands(l)
  PROVE  OrderedNext
<1>1. /\ lane[l].todo # <<>> /\ Land(Head(lane[l].todo).do, Head(lane[l].todo).row)
      /\ lane' = [lane EXCEPT ![l].landed = TRUE] /\ UNCHANGED <<state, cmds, machine, mail>>
  BY DEF VerbLands, machineVars
<1>2. PICK a : a = lane[l].todo[1]
  OBVIOUS
<1>3. Head(lane[l].todo) = a /\ a.row \in Rows /\ a.do \in Verbs /\ 1 \in DOMAIN lane[l].todo
  BY <1>1, <1>2, AtWork
<1>4. \A q \in Rows : db'[q].status = "received" => db[q].status = "received" \/ (q = a.row /\ a.do = "receive")
  BY <1>1, <1>3, LandReceives
<1>5. Todo' = Todo
  <2>1. lane \in [Lanes -> LaneRecords]
    BY DEF TypeInv, LanesOK
  <2>2. \A m \in Lanes : lane'[m].todo = lane[m].todo
    BY <1>1, <2>1 DEF LaneRecords
  <2> QED BY <2>2 DEF Todo
<1>6. a.do = "receive" => Handles(Todo, a.row, l)
  BY <1>2, <1>3 DEF Handles, Todo
<1> QED BY <1>1, <1>4, <1>5, <1>6, RowsInOrder
LEMMA TasksInOrder ==
  ASSUME TypeInv, Ordered, NEW x \in TaskNames, TaskClaims(x) \/ TaskFails(x)
  PROVE  OrderedNext
<1>1. UNCHANGED <<state, lane, cmds, machine, mail>> /\ task[x].pc # "idle"
  BY DEF TaskClaims, TaskFails, machineVars
<1>2. PICK r : r = x[1]
  OBVIOUS
<1>3. r \in Rows
  BY <1>2 DEF TaskNames
<1>4. \E verb \in {"claim", "fail", "refuse"} : Land(verb, r)
  BY <1>2 DEF TaskClaims, TaskFails
<1>5. PICK verb \in {"claim", "fail", "refuse"} : Land(verb, r)
  BY <1>4
<1>6. \A q \in Rows : db'[q].status = "received" => db[q].status = "received"
  <2>1. verb \in Verbs \cup {"claim"} /\ verb # "receive"
    BY <1>5 DEF Verbs
  <2> QED BY <1>3, <1>5, <2>1, LandReceives
<1>7. Todo' = Todo
  BY <1>1 DEF Todo
<1> QED BY <1>1, <1>6, <1>7, RowsInOrder
LEMMA HostsInOrder ==
  ASSUME TypeInv, Ordered, NEW r \in Rows, Park(r) \/ Withdraw(r)
  PROVE  OrderedNext
<1>1. UNCHANGED <<state, lane, cmds, machine, mail>>
  BY DEF Park, Withdraw, leaderVars, machineVars
<1>2. db' = [db EXCEPT ![r].status = "pending"] \/ db' = [db EXCEPT ![r].status = "withdrawn"]
  BY DEF Park, Withdraw
<1>3. db \in [Rows -> DbRecords]
  BY DEF TypeInv
<1>4. \A q \in Rows : db'[q].status = "received" => db[q].status = "received"
  BY <1>2, <1>3 DEF DbRecords
<1>5. Todo' = Todo
  BY <1>1 DEF Todo
<1> QED BY <1>1, <1>4, <1>5, RowsInOrder

\* A failed dispatch shuts its row, and at most cancels it.
LEMMA CancelAdded ==
  ASSUME NEW c \in Seq(Cmds), NEW k \in Cmds, k.op # "dispatch", NEW r \in Rows
  PROVE  (Wired(Append(c, k), r) => Wired(c, r)) /\ (Twice(Append(c, k), r) => Twice(c, r))
<1>1. PICK n, b : n = Len(c) /\ b = Append(c, k)
  OBVIOUS
<1>2. n \in Nat /\ DOMAIN c = 1..n /\ DOMAIN b = 1..(n + 1) /\ b[n + 1] = k /\ \A i \in 1..n : b[i] = c[i]
  <2>1. b \in Seq(Cmds) /\ Len(b) = n + 1 /\ b[n + 1] = k /\ \A i \in 1..n : b[i] = c[i]
    BY <1>1, AppendProperties
  <2> QED BY <1>1, <2>1, LenProperties
<1>3. \A i \in DOMAIN b : b[i].op = "dispatch" => i \in DOMAIN c /\ b[i] = c[i]
  BY <1>2
<1> QED BY <1>1, <1>3 DEF Wired, Twice
LEMMA EndsInOrder ==
  ASSUME TypeInv, Ordered, NEW x \in TaskNames, TaskEnds(x)
  PROVE  OrderedNext
<1>1. /\ UNCHANGED <<db, lane, machine, mail>> /\ state' = Shut(state, x[1])
      /\ cmds' = cmds \/ cmds' = Append(cmds, Cancel(x[1]))
  BY DEF TaskEnds, machineVars
<1>2. PICK r, rec, td, j, n, c2 : r = x[1] /\ rec = db /\ td = Todo /\ j = machine.job /\ n = state' /\ c2 = cmds'
  OBVIOUS
<1>3. r \in Rows /\ state \in Pictures /\ cmds \in Seq(Cmds)
  BY <1>2 DEF TaskNames, TypeInv
<1>4. n \in Pictures /\ n.held = state.held /\ \A q \in Rows : n.row[q] = state.row[q] \/ n.row[q] = "closed"
  <2>1. n = Shut(state, r)
    BY <1>1, <1>2
  <2> QED BY <1>3, <2>1, ShutOf
<1>5. JobsInOrder(rec, state, td, cmds, j, mail) /\ Roomy(state)
  BY <1>2 DEF Ordered
<1>6. \A q \in Rows : (Wired(c2, q) => Wired(cmds, q)) /\ (Twice(c2, q) => Twice(cmds, q))
  <2>1. PICK k : k = Cancel(r)
    OBVIOUS
  <2>2. k \in Cmds /\ k.op # "dispatch"
    BY <1>3, <2>1 DEF Cancel, Command, Cmds
  <2>3. c2 = cmds \/ c2 = Append(cmds, k)
    BY <1>1, <1>2, <2>1
  <2> HIDE DEF Wired, Twice
  <2> QED BY <1>3, <2>2, <2>3, CancelAdded
<1>7. ASSUME NEW q \in Rows PROVE JobInOrder(rec, n, td, c2, j, mail, q)
  <2>1. JobInOrder(rec, state, td, cmds, j, mail, q)
    BY <1>5 DEF JobsInOrder
  <2>2. (Out(td, c2, q) => Out(td, cmds, q)) /\ (Wired(c2, q) => Wired(cmds, q)) /\ (Twice(c2, q) => Twice(cmds, q))
    BY <1>6 DEF Out
  <2> HIDE DEF Double, Twice, Ahead, Wired, Talks, Says, Gone, Overtaken, Unlisted, Refuses, Handles, Out
  <2> QED BY <1>4, <2>1, <2>2 DEF JobInOrder
<1>8. JobsInOrder(rec, n, td, c2, j, mail)
  BY <1>7 DEF JobsInOrder
<1>9. Roomy(n)
  <2>1. \A q \in Rows : (q \in n.held \/ n.row[q] \in Sent) => (q \in state.held \/ state.row[q] \in Sent)
    BY <1>4 DEF Sent
  <2> QED BY <1>3, <1>4, <1>5, <2>1, LessRoom
<1>10. Todo' = Todo
  BY <1>1 DEF Todo
<1>11. JobsInOrder(db', state', Todo', cmds', machine'.job, mail') /\ Roomy(state')
  BY <1>1, <1>2, <1>8, <1>9, <1>10
<1> QED BY <1>11 DEF OrderedNext

\* The machine speaks of one row, or of what it has.
Spoken(m, m2, h, j2, r) ==
  \/ m2 = m
  \/ m2 = Append(m, h) /\ h \in Letters /\ (h.kind = "snapshot" => \A q \in Rows : q \notin h.jobs => j2[q] = "none")
                       /\ (h.kind # "snapshot" => h.row = r)
\* What it does of that row: it ends its job, or is told to start it and answers, or
\* has the unit arrive; a row it does nothing of it does not speak of either.
Does(c, c2, j, j2, m, m2, h, r) ==
  \/ j2[r] = j[r] /\ (m2 = m \/ h.kind = "snapshot")
  \/ j2[r] = "none" /\ j[r] # "none" /\ (m2 = m \/ h.kind \in {"snapshot", "released", "withdrawn"})
  \/ j[r] = "queued" /\ j2[r] # "none" /\ h.kind \in {"arrived", "misread"}
  \/ /\ Wired(c, r) /\ ~Wired(c2, r) /\ h.kind = "reply" /\ h.ok \in BOOLEAN
     /\ j2[r] = j[r] \/ (h.ok /\ j2[r] = "queued")
LEMMA MachineInOrder ==
  ASSUME Ordered, mail \in Seq(Letters), UNCHANGED <<db, state>>, Todo' = Todo, NEW h, NEW r \in Rows,
         \A q \in Rows : (Wired(cmds', q) => Wired(cmds, q)) /\ (Twice(cmds', q) => Twice(cmds, q)),
         Spoken(mail, mail', h, machine'.job, r), \A q \in Rows \ {r} : machine'.job[q] = machine.job[q],
         Does(cmds, cmds', machine.job, machine'.job, mail, mail', h, r)
  PROVE  OrderedNext
<1>1. PICK rec, td, j, c2, j2, m2 : rec = db /\ td = Todo /\ j = machine.job /\ c2 = cmds' /\ j2 = machine'.job /\ m2 = mail'
  OBVIOUS
<1>2. JobsInOrder(rec, state, td, cmds, j, mail) /\ Roomy(state)
  BY <1>1 DEF Ordered
<1>3. /\ \A q \in Rows : (Wired(c2, q) => Wired(cmds, q)) /\ (Twice(c2, q) => Twice(cmds, q))
      /\ \A q \in Rows \ {r} : j2[q] = j[q]
      /\ Does(cmds, c2, j, j2, mail, m2, h, r)
      /\ Spoken(mail, m2, h, j2, r)
  BY <1>1
<1>4. ASSUME NEW q \in Rows PROVE JobInOrder(rec, state, td, c2, j2, m2, q)
  <2>1. JobInOrder(rec, state, td, cmds, j, mail, q)
    BY <1>2 DEF JobsInOrder
  <2>2. (Out(td, c2, q) => Out(td, cmds, q)) /\ (Wired(c2, q) => Wired(cmds, q)) /\ (Twice(c2, q) => Twice(cmds, q))
    BY <1>3 DEF Out
  <2>3. /\ Talks(m2, q) => Talks(mail, q) \/ (m2 # mail /\ h.kind # "snapshot" /\ q = r)
        /\ \A kind : Says(m2, kind, q) => Says(mail, kind, q) \/ (m2 # mail /\ h.kind = kind /\ (kind # "snapshot" => q = r))
        /\ Refuses(m2, q) => Refuses(mail, q) \/ (m2 # mail /\ h.kind = "reply" /\ q = r /\ ~h.ok)
        /\ Unlisted(m2, q) => Unlisted(mail, q) \/ j2[q] = "none"
        /\ Overtaken(m2, q) => Overtaken(mail, q) \/ j2[q] = "none"
    <3>1. CASE m2 = mail
      BY <3>1
    <3>2. CASE m2 # mail
      <4>1. m2 = Append(mail, h) /\ h \in Letters /\ (h.kind = "snapshot" => \A p \in Rows : p \notin h.jobs => j2[p] = "none")
            /\ (h.kind # "snapshot" => h.row = r)
        BY <1>3, <3>2 DEF Spoken
      <4>2. /\ Talks(m2, q) => Talks(mail, q) \/ (h.kind # "snapshot" /\ h.row = q)
            /\ \A kind : Says(m2, kind, q) => Says(mail, kind, q) \/ (h.kind = kind /\ h.row = q)
            /\ Refuses(m2, q) => Refuses(mail, q) \/ (h.kind = "reply" /\ h.row = q /\ ~h.ok)
            /\ Unlisted(m2, q) => Unlisted(mail, q) \/ (h.kind = "snapshot" /\ q \notin h.jobs)
            /\ Overtaken(m2, q) => Overtaken(mail, q) \/ (h.kind = "snapshot" /\ q \notin h.jobs)
        BY <4>1, MailWritten
      <4> HIDE DEF Talks, Says, Refuses, Unlisted, Overtaken
      <4> QED BY <3>2, <4>1, <4>2
    <3> QED BY <3>1, <3>2
  <2>4. /\ Gone(m2, q) => Gone(mail, q) \/ (m2 # mail /\ q = r /\ (h.kind \in {"released", "withdrawn"} \/ (h.kind = "reply" /\ ~h.ok)))
        /\ Says(m2, "arrived", q) => Says(mail, "arrived", q) \/ (m2 # mail /\ q = r /\ h.kind = "arrived")
    <3> HIDE DEF Says, Refuses
    <3> QED BY <2>3 DEF Gone
  <2>5. /\ Gone(mail, q) => Talks(mail, q)
        /\ Refuses(mail, q) => Gone(mail, q)
        /\ Overtaken(mail, q) => Says(mail, "arrived", q)
        /\ Says(mail, "arrived", q) => Talks(mail, q)
    BY MailSays DEF Gone
  <2> HIDE DEF Double, Twice, Ahead, Wired, Talks, Says, Gone, Overtaken, Unlisted, Refuses, Handles, Out
  <2>6. CASE q # r \/ (j2[r] = j[r] /\ (m2 = mail \/ h.kind = "snapshot"))
    <3>1. j2[q] = j[q] /\ (Talks(m2, q) => Talks(mail, q)) /\ (Gone(m2, q) => Gone(mail, q))
          /\ (Says(m2, "arrived", q) => Says(mail, "arrived", q)) /\ (Refuses(m2, q) => Refuses(mail, q))
      BY <1>3, <2>3, <2>4, <2>6
    <3> QED BY <2>1, <2>2, <2>3, <3>1 DEF JobInOrder
  <2>7. CASE q = r /\ j2[r] = "none" /\ j[r] # "none" /\ (m2 = mail \/ h.kind \in {"snapshot", "released", "withdrawn"})
    <3>1. (Says(m2, "arrived", q) => Says(mail, "arrived", q)) /\ (Refuses(m2, q) => Refuses(mail, q))
      BY <2>3, <2>4, <2>7
    <3> QED BY <2>1, <2>2, <2>7, <3>1 DEF JobInOrder
  <2>8. CASE q = r /\ j[r] = "queued" /\ j2[r] # "none" /\ h.kind \in {"arrived", "misread"}
    <3>1. (Gone(m2, q) => Gone(mail, q)) /\ (Refuses(m2, q) => Refuses(mail, q)) /\ j[q] # "none" /\ j2[q] # "none"
      BY <2>3, <2>4, <2>8
    <3>2. ~Gone(mail, q) /\ ~Refuses(mail, q) /\ ~Overtaken(mail, q)
      BY <2>1, <2>5, <3>1 DEF JobInOrder
    <3> QED BY <2>1, <2>2, <2>3, <3>1, <3>2 DEF JobInOrder
  <2>9. CASE /\ q = r /\ Wired(cmds, r) /\ ~Wired(c2, r) /\ h.kind = "reply" /\ h.ok \in BOOLEAN
             /\ j2[r] = j[r] \/ (h.ok /\ j2[r] = "queued")
    <3>1. Out(td, cmds, q) /\ ~Out(td, c2, q)
      BY <2>1, <2>9 DEF JobInOrder, Out
    <3>2. j[q] = "none" /\ q \notin state.held /\ ~Talks(mail, q) /\ state.row[q] \notin {"unknown", "waiting", "refused"}
          /\ rec[q].status # "received"
      BY <2>1, <3>1 DEF JobInOrder
    <3>3. ~Gone(mail, q) /\ ~Refuses(mail, q) /\ ~Overtaken(mail, q) /\ ~Says(mail, "arrived", q)
      BY <2>5, <3>2
    <3>4. (Gone(m2, q) => j2[q] = "none") /\ ~Says(m2, "arrived", q) /\ (Overtaken(m2, q) => j2[q] = "none")
      BY <2>3, <2>4, <2>9, <3>2, <3>3
    <3> QED BY <2>1, <2>2, <3>1, <3>2, <3>4 DEF JobInOrder
  <2>10. CASE q = r
    BY <1>3, <2>6, <2>7, <2>8, <2>9, <2>10 DEF Does
  <2> QED BY <2>6, <2>10
<1>5. JobsInOrder(rec, state, td, c2, j2, m2)
  BY <1>4 DEF JobsInOrder
<1>6. JobsInOrder(db', state', Todo', cmds', machine'.job, mail') /\ Roomy(state')
  BY <1>1, <1>2, <1>5
<1> QED BY <1>6 DEF OrderedNext
\* What the machine says: a letter of its row, or its snapshot.
LEMMA NoteOf ==
  ASSUME NEW kind \in {"arrived", "misread", "released", "withdrawn"}, NEW r \in Rows
  PROVE  Note(kind, r) \in Letters /\ Note(kind, r).kind = kind /\ Note(kind, r).row = r
BY DEF Note, Letters
LEMMA SnapshotOf ==
  ASSUME NEW M \in Machines
  PROVE  /\ Snapshot(M) \in Letters /\ Snapshot(M).kind = "snapshot"
         /\ \A q \in Rows : q \notin Snapshot(M).jobs => M.job[q] = "none"
BY DEF Snapshot, Letters, JobsAt, Machines, Jobs
LEMMA CommandInOrder ==
  ASSUME TypeInv, Ordered, RunCommand
  PROVE  OrderedNext
<1>1. PICK c \in Cmds :
         /\ cmds # <<>> /\ c = cmds[1] /\ cmds' = Tail(cmds) /\ cmds' \in Seq(Cmds)
         /\ machine' \in Machines /\ machine'.boot = machine.boot
         /\ \A r \in Rows \ {c.row} : machine'.job[r] = machine.job[r]
         /\ \/ /\ c.op = "dispatch" /\ machine'.said = machine.said
               /\ \E ok \in BOOLEAN :
                    /\ mail' = Append(mail, [kind |-> "reply", row |-> c.row, of |-> c.of, ok |-> ok])
                    /\ \/ machine'.job[c.row] = machine.job[c.row]
                       \/ ok /\ machine.job[c.row] # "present" /\ machine'.job[c.row] = "queued"
            \/ /\ c.op = "cancel" /\ machine'.said = machine.said
               /\ \/ mail' = mail /\ machine'.job[c.row] = machine.job[c.row]
                  \/ /\ machine.job[c.row] = "queued" /\ machine'.job[c.row] = "none"
                     /\ mail' = Append(mail, Note("withdrawn", c.row))
            \/ /\ c.op = "snapshot" /\ machine'.job[c.row] = machine.job[c.row]
               /\ \/ mail' = mail /\ machine'.said = machine.said
                  \/ mail' = Append(mail, Snapshot(machine)) /\ machine'.said.boot = machine.boot
         /\ UNCHANGED <<setting, db, events, gateway, state, lane, task, period, spent>>
  BY RunCommandPlan
<1>2. PICK r, c2, j, j2, m2 : r = c.row /\ c2 = cmds' /\ j = machine.job /\ j2 = machine'.job /\ m2 = mail'
  OBVIOUS
<1>3. r \in Rows /\ mail \in Seq(Letters) /\ cmds \in Seq(Cmds) /\ machine \in Machines
  BY <1>2 DEF Cmds, TypeInv
<1>4. UNCHANGED <<db, state>> /\ Todo' = Todo /\ \A q \in Rows \ {r} : j2[q] = j[q]
  BY <1>1, <1>2 DEF Todo
<1>5. \A q \in Rows : /\ (Wired(c2, q) => Wired(cmds, q)) /\ (Twice(c2, q) => Twice(cmds, q))
                      /\ c.op = "dispatch" /\ c.row = q => Wired(cmds, q) /\ (Wired(c2, q) => Twice(cmds, q))
  <2>1. cmds # <<>> /\ c2 = Tail(cmds) /\ c = cmds[1]
    BY <1>1, <1>2
  <2> QED BY <1>3, <2>1, CommandsTaken
<1>6. c.op = "dispatch" => Wired(cmds, r) /\ ~Wired(c2, r)
  <2>1. JobsInOrder(db, state, Todo, cmds, machine.job, mail)
    BY DEF Ordered
  <2>2. ~Twice(cmds, r)
    BY <1>3, <2>1 DEF JobsInOrder, JobInOrder
  <2> HIDE DEF Wired, Twice
  <2> QED BY <1>2, <1>3, <1>5, <2>2
<1>7. \E h : Spoken(mail, m2, h, j2, r) /\ Does(cmds, c2, j, j2, mail, m2, h, r)
  <2>1. CASE c.op = "dispatch"
    <3>1. PICK ok \in BOOLEAN : /\ m2 = Append(mail, [kind |-> "reply", row |-> r, of |-> c.of, ok |-> ok])
                                /\ j2[r] = j[r] \/ (ok /\ j2[r] = "queued")
      BY <1>1, <1>2, <2>1
    <3>2. PICK h : h = [kind |-> "reply", row |-> r, of |-> c.of, ok |-> ok]
      OBVIOUS
    <3>3. h \in Letters /\ h.kind = "reply" /\ h.ok = ok /\ h.row = r
      BY <1>3, <3>2 DEF Letters, Cmds
    <3>4. Spoken(mail, m2, h, j2, r)
      BY <3>1, <3>2, <3>3 DEF Spoken
    <3>5. Does(cmds, c2, j, j2, mail, m2, h, r)
      BY <1>6, <2>1, <3>1, <3>3 DEF Does
    <3> QED BY <3>4, <3>5
  <2>2. CASE m2 = mail /\ j2[r] = j[r]
    BY <2>2 DEF Spoken, Does
  <2>3. CASE j[r] = "queued" /\ j2[r] = "none" /\ m2 = Append(mail, Note("withdrawn", r))
    <3>1. PICK h : h = Note("withdrawn", r)
      OBVIOUS
    <3>2. h \in Letters /\ h.kind = "withdrawn" /\ h.row = r
      BY <1>3, <3>1, NoteOf
    <3> QED BY <2>3, <3>1, <3>2 DEF Spoken, Does
  <2>4. CASE j2[r] = j[r] /\ m2 = Append(mail, Snapshot(machine))
    <3>1. PICK h : h = Snapshot(machine)
      OBVIOUS
    <3>2. h \in Letters /\ h.kind = "snapshot" /\ \A q \in Rows : q \notin h.jobs => j[q] = "none"
      BY <1>2, <1>3, <3>1, SnapshotOf
    <3>3. \A q \in Rows : j2[q] = j[q]
      BY <1>4, <2>4
    <3> QED BY <2>4, <3>1, <3>2, <3>3 DEF Spoken, Does
  <2>5. \/ c.op = "dispatch" \/ (m2 = mail /\ j2[r] = j[r])
        \/ (j[r] = "queued" /\ j2[r] = "none" /\ m2 = Append(mail, Note("withdrawn", r)))
        \/ (j2[r] = j[r] /\ m2 = Append(mail, Snapshot(machine)))
    BY <1>1, <1>2
  <2> QED BY <2>1, <2>2, <2>3, <2>4, <2>5
<1>8. PICK h : Spoken(mail, mail', h, machine'.job, r) /\ Does(cmds, cmds', machine.job, machine'.job, mail, mail', h, r)
  BY <1>2, <1>7
<1>9. /\ \A q \in Rows : (Wired(cmds', q) => Wired(cmds, q)) /\ (Twice(cmds', q) => Twice(cmds, q))
      /\ \A q \in Rows \ {r} : machine'.job[q] = machine.job[q]
  BY <1>2, <1>4, <1>5
<1> QED BY <1>3, <1>4, <1>8, <1>9, MachineInOrder
LEMMA MovesInOrder ==
  ASSUME TypeInv, Ordered, NEW r \in Rows, Arrive(r) \/ Release(r)
  PROVE  OrderedNext
<1>1. UNCHANGED <<db, state, lane, cmds>>
  BY DEF Arrive, Release, MachineOnly, leaderVars
<1>2. PICK j, j2, m2 : j = machine.job /\ j2 = machine'.job /\ m2 = mail'
  OBVIOUS
<1>3. mail \in Seq(Letters) /\ machine \in Machines /\ j \in Jobs
  BY <1>2 DEF TypeInv, Machines
<1>4. \E kind \in {"arrived", "misread", "released", "withdrawn"} :
        /\ m2 = Append(mail, Note(kind, r)) /\ \A q \in Rows \ {r} : j2[q] = j[q]
        /\ \/ kind \in {"arrived", "misread"} /\ j[r] = "queued" /\ j2[r] # "none"
           \/ kind = "released" /\ j[r] # "none" /\ j2[r] = "none"
  <2>1. CASE Arrive(r) /\ r \in setting.misread \ machine.misread
    <3>1. m2 = Append(mail, Note("misread", r)) /\ j[r] = "queued" /\ machine' = [machine EXCEPT !.misread = @ \cup {r}]
      BY <1>2, <2>1 DEF Arrive
    <3>2. j2 = j
      BY <1>2, <1>3, <3>1 DEF Machines
    <3> QED BY <3>1, <3>2
  <2>2. CASE Arrive(r) /\ r \notin setting.misread \ machine.misread
    <3>1. m2 = Append(mail, Note("arrived", r)) /\ j[r] = "queued" /\ machine' = [machine EXCEPT !.job[r] = "present"]
      BY <1>2, <2>2 DEF Arrive
    <3>2. j2 = [j EXCEPT ![r] = "present"]
      BY <1>2, <1>3, <3>1 DEF Machines
    <3> QED BY <1>3, <3>1, <3>2 DEF Jobs
  <2>3. CASE Release(r)
    <3>1. m2 = Append(mail, Note("released", r)) /\ j[r] = "present" /\ machine' = [machine EXCEPT !.job[r] = "none"]
      BY <1>2, <2>3 DEF Release
    <3>2. j2 = [j EXCEPT ![r] = "none"]
      BY <1>2, <1>3, <3>1 DEF Machines
    <3> QED BY <1>3, <3>1, <3>2 DEF Jobs
  <2> QED BY <2>1, <2>2, <2>3
<1>5. PICK kind \in {"arrived", "misread", "released", "withdrawn"} :
        /\ m2 = Append(mail, Note(kind, r)) /\ \A q \in Rows \ {r} : j2[q] = j[q]
        /\ \/ kind \in {"arrived", "misread"} /\ j[r] = "queued" /\ j2[r] # "none"
           \/ kind = "released" /\ j[r] # "none" /\ j2[r] = "none"
  BY <1>4
<1>6. PICK h : h = Note(kind, r)
  OBVIOUS
<1>7. h \in Letters /\ h.kind = kind /\ h.row = r
  BY <1>6, NoteOf
<1>8. Spoken(mail, mail', h, machine'.job, r)
  BY <1>2, <1>5, <1>6, <1>7 DEF Spoken
<1>9. Does(cmds, cmds', machine.job, machine'.job, mail, mail', h, r)
  BY <1>2, <1>5, <1>7 DEF Does
<1>10. /\ \A q \in Rows : (Wired(cmds', q) => Wired(cmds, q)) /\ (Twice(cmds', q) => Twice(cmds, q))
       /\ \A q \in Rows \ {r} : machine'.job[q] = machine.job[q]
  BY <1>1, <1>2, <1>5
<1>11. Todo' = Todo
  BY <1>1 DEF Todo
<1> QED BY <1>1, <1>3, <1>8, <1>9, <1>10, <1>11, MachineInOrder
LEMMA BeatInOrder ==
  ASSUME TypeInv, Ordered, Beat \/ EndPeriod \/ UNCHANGED handoffVars
  PROVE  OrderedNext
<1>1. UNCHANGED <<db, state, lane, cmds>>
  BY DEF Beat, EndPeriod, MachineOnly, leaderVars, handoffVars
<1>2. Todo' = Todo
  BY <1>1 DEF Todo
<1>3. CASE EndPeriod \/ UNCHANGED handoffVars
  <2>1. UNCHANGED <<machine, mail>>
    BY <1>3 DEF EndPeriod, handoffVars
  <2>2. \A r \in Rows : db'[r].status = "received" => db[r].status = "received" \/ \E l \in Lanes : Handles(Todo, r, l)
    BY <1>1
  <2> QED BY <1>1, <1>2, <2>1, <2>2, RowsInOrder
<1>4. CASE Beat
  <2>1. mail \in Seq(Letters) /\ machine \in Machines
    BY DEF TypeInv
  <2>2. machine' = Saying(machine) /\ mail' = Append(mail, Snapshot(machine))
    BY <1>4 DEF Beat
  <2>3. machine'.job = machine.job
    BY <2>1, <2>2 DEF Saying, Machines
  <2>4. PICK h, m2 : h = Snapshot(machine) /\ m2 = mail'
    OBVIOUS
  <2>5. h \in Letters /\ h.kind = "snapshot" /\ \A q \in Rows : q \notin h.jobs => machine'.job[q] = "none"
    BY <2>1, <2>3, <2>4, SnapshotOf
  <2>6. ASSUME NEW r \in Rows PROVE OrderedNext
    <3>1. Spoken(mail, mail', h, machine'.job, r)
      BY <2>2, <2>4, <2>5 DEF Spoken
    <3>2. Does(cmds, cmds', machine.job, machine'.job, mail, mail', h, r)
      BY <2>3, <2>5 DEF Does
    <3>3. /\ \A q \in Rows : (Wired(cmds', q) => Wired(cmds, q)) /\ (Twice(cmds', q) => Twice(cmds, q))
          /\ \A q \in Rows \ {r} : machine'.job[q] = machine.job[q]
      BY <1>1, <2>3
    <3> QED BY <1>1, <1>2, <2>1, <3>1, <3>2, <3>3, MachineInOrder
  <2>7. ASSUME Rows = {} PROVE OrderedNext
    BY <1>1, <2>7 DEF Ordered, OrderedNext, JobsInOrder, Roomy
  <2> QED BY <2>6, <2>7
<1> QED BY <1>3, <1>4

\* As long as hosts wait for a gateway, no row is parked before the line is up.
Calm == ~setting.busyTakeover /\ Never({"crash", "timeout", "restart"})
NothingYet == gateway # "up" => \A r \in Rows : db[r].status = "none"
DepthInv == HandoffInv /\ (Calm => Ordered /\ NothingYet)

LEMMA NothingStill ==
  ASSUME TypeInv, NothingYet, ~setting.busyTakeover, HandoffNext, ~Crash
  PROVE  NothingYet'
<1>1. DOMAIN task = TaskNames /\ DOMAIN Fitting = Happenings
  BY DEF TypeInv, Fitting, Happenings
<1>2. ASSUME NEW verb \in Verbs \cup {"claim"}, NEW r \in Rows, Land(verb, r), gateway' = gateway
      PROVE  NothingYet'
  <2>1. /\ \A q \in Rows \ {r} : db'[q] = db[q]
        /\ db[r].status # "pending" => db' = db
    BY <1>2, LandOf
  <2>2. ASSUME gateway' # "up", NEW q \in Rows PROVE db'[q].status = "none"
    BY <1>2, <2>1, <2>2 DEF NothingYet
  <2> QED BY <2>2 DEF NothingYet
<1>3. ASSUME db' = db, gateway' = gateway \/ gateway' = "up" \/ gateway = "down" \/ gateway = "reading"
      PROVE  NothingYet'
  BY <1>3 DEF NothingYet
<1>4. CASE GatewayStep
  <2>1. ASSUME NEW l \in Lanes, VerbLands(l) PROVE NothingYet'
    <3>1. lane[l].todo # <<>> /\ Land(Head(lane[l].todo).do, Head(lane[l].todo).row) /\ gateway' = gateway
      BY <2>1 DEF VerbLands
    <3>2. Head(lane[l].todo).row \in Rows /\ Head(lane[l].todo).do \in Verbs
      BY <3>1, AtWork
    <3> QED BY <1>2, <3>1, <3>2
  <2>2. ASSUME NEW l \in Lanes, VerbReturns(l) PROVE NothingYet'
    <3>1. db' = db /\ (gateway' = gateway \/ gateway' = "up")
      BY <2>2 DEF VerbReturns
    <3> QED BY <1>3, <3>1
  <2>3. ASSUME NEW r \in Rows, NEW verb \in Happenings, OnEscalation(r, verb) PROVE NothingYet'
    <3>1. db' = db /\ gateway' = gateway
      BY <2>3 DEF OnEscalation
    <3> QED BY <1>3, <3>1
  <2>4. CASE TakeReply \/ TakeJob \/ TakeSnapshot
    <3>1. db' = db /\ gateway' = gateway
      BY <2>4 DEF TakeReply, TakeJob, TakeSnapshot, HandlerUnchanged
    <3> QED BY <1>3, <3>1
  <2>5. ASSUME NEW x \in TaskNames, TaskClaims(x) \/ TaskFails(x) \/ TaskEnds(x) PROVE NothingYet'
    <3>1. CASE TaskEnds(x)
      <4>1. db' = db /\ gateway' = gateway
        BY <3>1 DEF TaskEnds
      <4> QED BY <1>3, <4>1
    <3>2. CASE TaskClaims(x) \/ TaskFails(x)
      <4>1. gateway' = gateway /\ x[1] \in Rows
        BY <3>2 DEF TaskClaims, TaskFails, TaskNames
      <4>2. \E verb \in {"claim", "fail", "refuse"} : Land(verb, x[1])
        BY <3>2 DEF TaskClaims, TaskFails
      <4>3. PICK verb \in {"claim", "fail", "refuse"} : Land(verb, x[1])
        BY <4>2
      <4> QED BY <1>2, <4>1, <4>3 DEF Verbs
    <3> QED BY <2>5, <3>1, <3>2
  <2> QED BY <1>1, <1>4, <2>1, <2>2, <2>3, <2>4, <2>5 DEF GatewayStep
<1>5. CASE Takeover
  <2>1. db' = db /\ (gateway = "down" \/ gateway = "reading")
    BY <1>5 DEF Takeover, TakeOver, ReadBack
  <2> QED BY <1>3, <2>1
<1>6. CASE HostStep
  <2>1. gateway' = gateway /\ gateway = "up"
    BY <1>6 DEF HostStep, Park, Withdraw, HostActs, leaderVars
  <2> QED BY <2>1 DEF NothingYet
<1>7. CASE RunCommand \/ UnitMoves
  <2>1. db' = db /\ gateway' = gateway
    BY <1>7 DEF RunCommand, UnitMoves, Arrive, Release, MachineOnly, leaderVars
  <2> QED BY <1>3, <2>1
<1>8. CASE FaultStep
  <2>1. db' = db /\ gateway' = gateway
    BY <1>8 DEF FaultStep, ReplyLate, StatusLate, Beat, Restart, EndPeriod, MachineOnly, leaderVars
  <2> QED BY <1>3, <2>1
<1> QED BY <1>4, <1>5, <1>6, <1>7, <1>8 DEF HandoffNext

LEMMA DepthBegins == HandoffInit => DepthInv
<1> SUFFICES ASSUME HandoffInit PROVE DepthInv
  OBVIOUS
<1>1. HandoffInv
  BY InvBegins
<1>2. TypeInv
  BY InitTyped
<1>3. NothingYet
  BY DEF HandoffInit, NothingYet
<1>4. PICK td, c, j, m : td = Todo /\ c = cmds /\ j = machine.job /\ m = mail
  OBVIOUS
<1>5. /\ \A l \in Lanes : DOMAIN td[l] = {}
      /\ DOMAIN c = {} /\ DOMAIN m = {}
      /\ \A r \in Rows : j[r] = "none" /\ db[r].status = "none" /\ state.row[r] = "unknown" /\ r \notin state.held
  <2>1. \A l \in Lanes : td[l] = <<>>
    BY <1>4 DEF HandoffInit, Todo, Idle
  <2>2. c = <<>> /\ m = <<>>
    BY <1>4 DEF HandoffInit
  <2>3. DOMAIN <<>> = {}
    OBVIOUS
  <2>4. \A r \in Rows : j[r] = "none" /\ db[r].status = "none" /\ state.row[r] = "unknown" /\ r \notin state.held
    BY <1>4 DEF HandoffInit, Blank
  <2> QED BY <2>1, <2>2, <2>3, <2>4
<1>6. ASSUME NEW r \in Rows PROVE JobInOrder(db, state, td, c, j, m, r)
  <2>1. ~Double(td, r) /\ ~Ahead(td, r) /\ \A l \in Lanes : ~Handles(td, r, l)
    BY <1>5 DEF Double, Ahead, Handles
  <2>2. ~Twice(c, r) /\ ~Wired(c, r)
    BY <1>5 DEF Twice, Wired
  <2>3. ~Talks(m, r) /\ ~Says(m, "arrived", r) /\ ~Refuses(m, r)
    BY <1>5 DEF Talks, Says, Refuses
  <2>4. \A l \in Lanes : ~Handles(td, r, l)
    BY <2>1
  <2> HIDE DEF Double, Twice, Ahead, Wired, Talks, Says, Gone, Overtaken, Unlisted, Refuses, Handles, Out
  <2>5. ~Out(td, c, r)
    BY <2>1, <2>2 DEF Out
  <2>6. ~Handles(td, r, "messages") /\ ~Handles(td, r, "events")
    BY <2>4 DEF Lanes
  <2> QED BY <1>5, <2>1, <2>2, <2>3, <2>5, <2>6 DEF JobInOrder
<1>7. JobsInOrder(db, state, Todo, cmds, machine.job, mail)
  BY <1>4, <1>6 DEF JobsInOrder
<1>8. Roomy(state)
  <2>1. MachineLoad(state) = {}
    BY <1>5 DEF MachineLoad, Sent, HandoffInit, Blank
  <2>2. Cardinality(MachineLoad(state)) = 0
    BY <2>1, FS_EmptySet
  <2>3. setting.depth \in Nat
    BY <1>2, HandoffAssumption DEF TypeInv, Setting
  <2> QED BY <2>2, <2>3 DEF Roomy
<1> QED BY <1>1, <1>3, <1>7, <1>8 DEF DepthInv, Ordered

LEMMA DepthStep ==
  ASSUME TypeInv, Calm, Ordered, NothingYet, Kept, gateway # "down" => InStep(World, state, task, Todo, events, Landed),
         [HandoffNext]_handoffVars, Calm'
  PROVE  OrderedNext
<1>1. spent["restart"] = 0 /\ spent["timeout"] = 0 /\ spent'["restart"] = 0 /\ spent'["timeout"] = 0 /\ spent'["crash"] = 0
  BY DEF Calm, Never
<1>2. \A f \in {"crash", "timeout", "restart"} : ~Spend(f)
  BY <1>1, SpendOf DEF FaultKinds
<1>3. ~Late
  BY <1>1, SpendOf
<1>4. DOMAIN task = TaskNames /\ DOMAIN Fitting = Happenings
  BY DEF TypeInv, Fitting, Happenings
<1>5. CASE GatewayStep
  <2>1. ASSUME NEW l \in Lanes, VerbLands(l) \/ VerbReturns(l) PROVE OrderedNext
    BY <2>1, LandsInOrder, ReturnsInOrder
  <2>2. ASSUME NEW r \in Rows, NEW verb \in Happenings, OnEscalation(r, verb) PROVE OrderedNext
    BY <2>2, HearsInOrder
  <2>3. CASE TakeReply \/ TakeJob \/ TakeSnapshot
    <3>1. gateway # "down"
      BY <2>3 DEF TakeReply, TakeJob, TakeSnapshot, Reading
    <3>2. InStep(World, state, task, Todo, events, Landed)
      BY <3>1
    <3> QED BY <1>1, <2>3, <3>2, RepliesInOrder, UnitsInOrder, SnapshotsInOrder
  <2>4. ASSUME NEW x \in TaskNames, TaskClaims(x) \/ TaskFails(x) \/ TaskEnds(x) PROVE OrderedNext
    BY <2>4, TasksInOrder, EndsInOrder
  <2> QED BY <1>4, <1>5, <2>1, <2>2, <2>3, <2>4 DEF GatewayStep
<1>6. CASE TakeOver
  <2>1. \A r \in Rows : db[r].status = "none"
    BY <1>6 DEF TakeOver, NothingYet
  <2> QED BY <1>6, <2>1, TakesOverInOrder
<1>7. CASE ReadBack
  <2>1. gateway = "reading"
    BY <1>7 DEF ReadBack
  <2>2. \A r \in Rows : db[r].status = "none"
    BY <2>1 DEF NothingYet
  <2>3. InStep(World, state, task, Todo, events, Landed)
    BY <2>1
  <2> QED BY <1>7, <2>2, <2>3, ReadsBackInOrder
<1>8. CASE HostStep
  <2>1. PICK r \in Rows : Park(r) \/ Withdraw(r)
    BY <1>8 DEF HostStep
  <2> QED BY <2>1, HostsInOrder
<1>9. CASE UnitMoves
  <2>1. PICK r \in Rows : Arrive(r) \/ Release(r)
    BY <1>9 DEF UnitMoves
  <2> QED BY <2>1, MovesInOrder
<1>10. CASE RunCommand
  BY <1>10, CommandInOrder
<1>11. CASE FaultStep
  <2>1. Beat \/ EndPeriod
    BY <1>2, <1>3, <1>11 DEF FaultStep, ReplyLate, StatusLate, Crash, Restart
  <2> QED BY <2>1, BeatInOrder
<1>12. CASE UNCHANGED handoffVars
  BY <1>12, BeatInOrder
<1> QED BY <1>5, <1>6, <1>7, <1>8, <1>9, <1>10, <1>11, <1>12 DEF HandoffNext, Takeover

LEMMA DepthInvKept == DepthInv /\ [HandoffNext]_handoffVars => DepthInv'
<1> SUFFICES ASSUME DepthInv, [HandoffNext]_handoffVars PROVE DepthInv'
  OBVIOUS
<1>1. HandoffInv /\ HandoffInv'
  BY InvKept DEF DepthInv
<1>2. TypeInv
  BY <1>1 DEF HandoffInv
<1>3. ASSUME Calm' PROVE Ordered' /\ NothingYet'
  <2>1. setting' = setting /\ (UNCHANGED spent \/ Late \/ \E g \in FaultKinds : Spend(g))
    BY StepSpends DEF handoffVars
  <2>2. \A f \in FaultKinds : spent'[f] = 0 => spent[f] = 0
    BY <1>2, <2>1, SpentGrows
  <2>3. Calm
    <3>1. ~setting.busyTakeover /\ \A f \in {"crash", "timeout", "restart"} : spent'[f] = 0
      BY <1>3, <2>1 DEF Calm, Never
    <3> QED BY <2>2, <3>1 DEF Calm, Never, FaultKinds
  <2>4. Ordered /\ NothingYet
    BY <2>3 DEF DepthInv
  <2>5. Kept /\ (gateway # "down" => InStep(World, state, task, Todo, events, Landed))
    <3>1. Orderly
      BY <2>3 DEF Calm, Never, Orderly
    <3> QED BY <1>1, <3>1 DEF HandoffInv
  <2>6. OrderedNext
    BY <1>2, <1>3, <2>3, <2>4, <2>5, DepthStep
  <2>7. Ordered'
    BY <2>1, <2>6, OrderedThen
  <2>8. NothingYet'
    <3>1. CASE UNCHANGED handoffVars
      BY <2>4, <3>1 DEF NothingYet, handoffVars
    <3>2. CASE HandoffNext
      <4>1. ~Crash
        <5>1. spent'["crash"] = 0
          BY <1>3 DEF Calm, Never
        <5> QED BY <1>2, <5>1, SpendOf DEF Crash, FaultKinds
      <4>2. ~setting.busyTakeover
        BY <2>3 DEF Calm
      <4> QED BY <1>2, <2>4, <3>2, <4>1, <4>2, NothingStill
    <3> QED BY <3>1, <3>2
  <2> QED BY <2>7, <2>8
<1> QED BY <1>1, <1>3 DEF DepthInv

\* For any queueDepth, any number of rows, machine declines, misread carriers,
\* periods and heartbeats: as long as hosts wait for a gateway, and no gateway
\* crashes, no answer is late and no machine restarts, the machine never has more
\* units of rows that were not withdrawn or failed than its queueDepth (pacing.ts:
\* the gateway counts every such unit, and admits a row only where one more fits).
THEOREM QueueDepthIsKept == HandoffSpec => [](~setting.busyTakeover => OpenDepthKept)
<1>1. DepthInv => (~setting.busyTakeover => OpenDepthKept)
  <2> SUFFICES ASSUME DepthInv, ~setting.busyTakeover, Never({"crash", "timeout", "restart"})
               PROVE  Cardinality({r \in Rows : machine.job[r] # "none" /\ db[r].status \in {"pending", "received"}}) <= setting.depth
    BY DEF OpenDepthKept
  <2>1. PICK all, load : /\ all = {r \in Rows : machine.job[r] # "none" /\ db[r].status \in {"pending", "received"}}
                         /\ load = MachineLoad(state)
    OBVIOUS
  <2>2. Ordered /\ NothingYet /\ TypeInv
    BY DEF DepthInv, Calm, HandoffInv
  <2>3. ASSUME NEW r \in Rows, machine.job[r] # "none", db[r].status \in {"pending", "received"}
        PROVE  r \in state.held \/ state.row[r] \in Sent
    <3>1. JobInOrder(db, state, Todo, cmds, machine.job, mail, r)
      BY <2>2 DEF Ordered, JobsInOrder
    <3>2. state.row[r] \notin {"unknown", "waiting", "refused"} \/ (db[r].status = "received" /\ r \in state.held)
      BY <2>3, <3>1 DEF JobInOrder
    <3>3. gateway # "down"
      BY <2>2, <2>3 DEF NothingYet
    <3>4. InStep(World, state, task, Todo, events, Landed)
      <4>1. Orderly
        BY DEF Orderly, Never
      <4> QED BY <3>3, <4>1 DEF DepthInv, HandoffInv
    <3>5. state.row[r] = "closed" => db[r].status \notin {"none", "pending"}
      <4>1. PICK w, d : w = World /\ d = Landed
        OBVIOUS
      <4>2. RowInStep(w, state, task, events, d, r) /\ w.db = db
        BY <3>4, <4>1 DEF InStep, RowsInStep, World
      <4> QED BY <4>2 DEF RowInStep, Over
    <3>6. state.row[r] \in Dispatches
      BY <2>2 DEF TypeInv, Pictures
    <3>7. db[r].status = "received" => r \in state.held
      BY <2>3, <3>1 DEF JobInOrder
    <3> QED BY <2>3, <3>2, <3>5, <3>6, <3>7 DEF Dispatches, Sent
  <2>4. all \subseteq load /\ all \in SUBSET Rows /\ load \in SUBSET Rows
    <3>1. \A r \in all : r \in Rows /\ (r \in state.held \/ state.row[r] \in Sent)
      BY <2>1, <2>3
    <3>2. \A r \in Rows : r \in load <=> r \in state.held \/ state.row[r] \in Sent
      BY <2>1 DEF MachineLoad
    <3>3. load \in SUBSET Rows
      BY <2>1, <2>2 DEF MachineLoad, TypeInv, Pictures
    <3> QED BY <3>1, <3>2, <3>3
  <2>5. Cardinality(all) <= Cardinality(load) /\ Cardinality(all) \in Nat /\ Cardinality(load) \in Nat
    BY <2>4, RowsFinite
  <2>6. Cardinality(load) <= setting.depth /\ setting.depth \in Nat
    BY <2>1, <2>2, HandoffAssumption DEF Ordered, Roomy, TypeInv, Setting
  <2> QED BY <2>1, <2>5, <2>6
<1> QED BY <1>1, DepthBegins, DepthInvKept, PTL DEF HandoffSpec
=============================================================================
