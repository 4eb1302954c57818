------------------------- MODULE BadgeGrantsProofs -------------------------
(***************************************************************************)
(* For any number of grants, requests and rows, and any limit: the types,  *)
(* that a grant covers no more acts than it was minted for, that a         *)
(* subject-scoped grant acts on one row, and that a grant whose requests   *)
(* have ended counts what they did.  The last three suppose that requests  *)
(* with one subject-scoped grant follow one another (Orderly).             *)
(***************************************************************************)
EXTENDS BadgeGrants, FiniteSetTheorems, TLAPS

\* The settings the last three theorems are about.
Orderly == \A x \in Settings : x.scope = "subject" => ~x.overlap

\* A request that spent a use and was not given it back.
Paid(q) == req[q].pc \in {"act", "settle"} \/ req[q].landed \/ req[q].lost

\* Those whose spend counted, and those that spent on a row.
Charged(t) == {q \in Requests : req[q].token = t /\ Paid(q) /\ ~req[q].bound}
OnRow(t) == {q \in Requests : req[q].token = t /\ Paid(q) /\ req[q].ref # None}

\* What the phases of a request know.
Phases ==
  \A q \in Requests :
    /\ req[q].pc \in {"new", "spend"} => ~Paid(q)
    /\ req[q].pc = "act" => ~req[q].landed
    /\ req[q].pc # "new" => req[q].token \in Tokens
    /\ req[q].kind # "scan" => req[q].ref = None
    /\ req[q].kind = "route" => ~req[q].bound
    /\ Paid(q) /\ req[q].bound => req[q].ref # None

\* An action-scoped grant is never bound.
ActionScoped ==
  setting.scope = "action" =>
    /\ \A t \in Tokens : grant[t].ref = None
    /\ \A q \in Requests : ~req[q].bound

\* Requests with a subject-scoped grant follow one another, and what one of them
\* read of the binding is still so when it spends.
InTurn ==
  setting.scope = "subject" =>
    /\ \A p, q \in Requests :
         InFlight(p) /\ InFlight(q) /\ req[p].token = req[q].token => p = q
    /\ \A q \in Requests :
         /\ req[q].pc = "spend" /\ req[q].kind # "route" /\ grant[req[q].token].row # "gone"
              => (req[q].bound <=> grant[req[q].token].ref # None)
         /\ req[q].pc \in {"act", "settle"} => (req[q].binds <=> req[q].ref # None)

\* The binding of a subject-scoped grant is that of all that spent on a row.
Binding(t) ==
  /\ grant[t].row # "gone" =>
       /\ \A q \in OnRow(t) : grant[t].ref = req[q].ref
       /\ grant[t].ref # None => \E q \in OnRow(t) : ~req[q].bound
  /\ \A p, q \in OnRow(t) : req[p].ref = req[q].ref
  /\ OnRow(t) # {} => \E q \in OnRow(t) : ~req[q].bound
  /\ \A p, q \in OnRow(t) : ~req[p].bound /\ ~req[q].bound => p = q
  /\ \A q \in OnRow(t) :
       req[q].pc \in {"act", "settle"} /\ ~req[q].bound => OnRow(t) = {q}

Bindings == setting.scope = "subject" => \A t \in Tokens : Binding(t)

\* The count is that of the requests charged, as long as the row is there.
Counts ==
  \A t \in Tokens : /\ Cardinality(Charged(t)) <= grant[t].uses
                    /\ grant[t].row # "gone" => Cardinality(Charged(t)) = grant[t].uses

BadgeInv ==
  /\ Phases /\ ActionScoped /\ InTurn /\ Bindings /\ Counts
  /\ setting.scope = "subject" => ~setting.overlap

-----------------------------------------------------------------------------
(* Types *)

LEMMA NoneApart == None \notin Subjects /\ None \notin Tokens
  BY BadgeAssumption

LEMMA SettingShape ==
  ASSUME BadgeTypeOK
  PROVE  setting.scope \in Scopes /\ setting.limit \in Nat /\ setting.overlap \in BOOLEAN
  BY BadgeAssumption DEF BadgeTypeOK, Setting

LEMMA InitTypeOK == Init => BadgeTypeOK
<1> SUFFICES ASSUME Init PROVE BadgeTypeOK
  OBVIOUS
<1>1. setting.limit \in Nat
  BY BadgeAssumption DEF Init, Setting
<1>2. req \in [Requests -> Request]
  BY DEF Init, NewRequest, Request, Kinds, Refs
<1> QED BY <1>1, <1>2 DEF Init, BadgeTypeOK, Refs, Grant

\* Minting changes nothing of a grant but whether its row is there.
LEMMA MintRows ==
  ASSUME BadgeTypeOK, NEW t \in Tokens, Mint(t)
  PROVE  /\ grant' \in [Tokens -> Grant]
         /\ \A p \in Tokens : /\ grant'[p].uses = grant[p].uses /\ grant'[p].ref = grant[p].ref
                              /\ grant[p].row = "gone" => grant'[p].row = "gone"
<1>1. PICK revoked \in SUBSET Tokens :
        grant' = [p \in Tokens |->
            IF p = t THEN [grant[t] EXCEPT !.row = "live"]
            ELSE IF p \in revoked THEN [grant[p] EXCEPT !.row = "gone"] ELSE grant[p]]
  BY DEF Mint
<1>2. ASSUME NEW p \in Tokens
      PROVE  /\ grant'[p] \in Grant
             /\ grant'[p].uses = grant[p].uses /\ grant'[p].ref = grant[p].ref
             /\ grant[p].row = "gone" => grant'[p].row = "gone"
  <2>1. grant'[p] = IF p = t THEN [grant[t] EXCEPT !.row = "live"]
            ELSE IF p \in revoked THEN [grant[p] EXCEPT !.row = "gone"] ELSE grant[p]
    BY <1>1
  <2>2. grant[t].row = "none"
    BY DEF Mint
  <2>3. grant[p] \in Grant /\ grant[t] \in Grant
    BY DEF BadgeTypeOK, Grant
  <2> QED BY <2>1, <2>2, <2>3 DEF Grant
<1> QED BY <1>1, <1>2

LEMMA SpentShape ==
  ASSUME BadgeTypeOK, NEW t \in Tokens, NEW ref \in Refs, Spendable(t, ref)
  PROVE  /\ Spent(t, ref) \in Grant
         /\ setting.limit = 0 \/ Spent(t, ref).uses <= setting.limit
         /\ Spent(t, ref).row = "live"
<1> DEFINE g == grant[t]
<1>1. g \in Grant /\ (setting.limit = 0 \/ g.uses <= setting.limit) /\ setting.limit \in Nat
  BY SettingShape DEF BadgeTypeOK, Grant
<1>2. CASE g.ref # None
  <2>1. Spent(t, ref) = g /\ g.row = "live"
    BY <1>2 DEF Spent, Spendable
  <2> QED BY <1>1, <2>1
<1>3. CASE g.ref = None
  <2> DEFINE r == IF setting.scope = "subject" THEN ref ELSE None
  <2>2. Spent(t, ref) = [row |-> g.row, uses |-> g.uses + 1, ref |-> r]
    BY <1>1, <1>3 DEF Spent, Grant
  <2>5. r \in Refs
    BY DEF Refs
  <2>3. setting.limit = 0 \/ g.uses < setting.limit
    BY <1>3 DEF Spendable, UsesLeft
  <2>4. g.row = "live"
    BY DEF Spendable
  <2> HIDE DEF g, r
  <2> QED BY <1>1, <2>2, <2>3, <2>4, <2>5 DEF Grant
<1> QED BY <1>2, <1>3

LEMMA RefundedShape ==
  ASSUME BadgeTypeOK, NEW t \in Tokens, NEW unbind \in BOOLEAN
  PROVE  /\ Refunded(t, unbind) \in Grant
         /\ Refunded(t, unbind).uses <= grant[t].uses
         /\ Refunded(t, unbind).row = grant[t].row
<1>1. grant[t] \in Grant
  BY DEF BadgeTypeOK, Grant
<1>2. CASE grant[t].row = "gone"
  BY <1>1, <1>2 DEF Refunded, Grant
<1>3. CASE grant[t].row # "gone"
  <2> DEFINE u == IF grant[t].uses = 0 THEN 0 ELSE grant[t].uses - 1
             r == IF unbind THEN None ELSE grant[t].ref
  <2>1. Refunded(t, unbind) = [grant[t] EXCEPT !.uses = u, !.ref = r]
    BY <1>3 DEF Refunded
  <2>2. u \in Nat /\ u <= grant[t].uses /\ r \in Refs
    BY <1>1 DEF Grant, Refs
  <2> HIDE DEF u, r
  <2> QED BY <1>1, <2>1, <2>2 DEF Grant
<1> QED BY <1>2, <1>3

LEMMA NextTypeOK == BadgeTypeOK /\ [Next]_vars => BadgeTypeOK'
<1> SUFFICES ASSUME BadgeTypeOK, [Next]_vars PROVE BadgeTypeOK'
  OBVIOUS
<1> USE DEF BadgeTypeOK
<1>0. setting.limit \in Nat
  BY SettingShape
<1>1. ASSUME NEW t \in Tokens, Mint(t) PROVE BadgeTypeOK'
  <2>1. UNCHANGED <<setting, req, active>> /\ grant' \in [Tokens -> Grant]
        /\ \A p \in Tokens : grant'[p].uses = grant[p].uses
    BY <1>1, MintRows DEF Mint
  <2> QED BY <2>1 DEF Grant
<1>2. ASSUME NEW t \in Tokens, Expire(t) PROVE BadgeTypeOK'
  BY <1>2 DEF Expire, Grant
<1>3. CASE Deactivate
  BY <1>3 DEF Deactivate
<1>4. ASSUME NEW q \in Requests, NEW kind \in Kinds, NEW t \in Tokens, NEW ref \in Refs,
             Begin(q, kind, t, ref)
      PROVE  BadgeTypeOK'
  <2> DEFINE b == kind # "route" /\ grant[t].ref # None
             c == IF kind = "route" \/ (Readable(t) /\ active) THEN "spend" ELSE "ended"
  <2>1. req' = [req EXCEPT ![q] = [@ EXCEPT
                 !.kind = kind, !.token = t, !.ref = ref, !.bound = b, !.pc = c]]
        /\ UNCHANGED <<setting, grant, active>>
    BY <1>4 DEF Begin
  <2>2. b \in BOOLEAN /\ c \in {"spend", "ended"}
    OBVIOUS
  <2> HIDE DEF b, c
  <2> QED BY <2>1, <2>2 DEF Request
<1>5. ASSUME NEW q \in Requests, Look(q) PROVE BadgeTypeOK'
  BY <1>5 DEF Look, Go, Request
<1>6. ASSUME NEW q \in Requests, Spend(q) PROVE BadgeTypeOK'
  <2> DEFINE t == req[q].token  ref == req[q].ref
  <2>1. req[q] \in Request /\ ref \in Refs
    BY DEF Request
  <2>2. CASE ~Spendable(t, ref)
    BY <1>6, <2>2 DEF Spend, Go, Request
  <2>3. CASE Spendable(t, ref)
    <3>1. /\ grant' = [grant EXCEPT ![t] = Spent(t, ref)]
          /\ req' = [req EXCEPT ![q] = [@ EXCEPT
               !.binds = Spent(t, ref).ref # None, !.lost = ~active,
               !.pc = IF active THEN "act" ELSE "ended"]]
          /\ UNCHANGED <<setting, active>>
      BY <1>6, <2>3 DEF Spend
    <3>2. req' \in [Requests -> Request]
      BY <3>1, <2>1 DEF Request
    <3>3. CASE t \notin Tokens
      BY <3>1, <3>2, <3>3
    <3>4. CASE t \in Tokens
      <4>1. Spent(t, ref) \in Grant /\ (setting.limit = 0 \/ Spent(t, ref).uses <= setting.limit)
        BY <3>4, <2>1, <2>3, SpentShape
      <4> QED BY <3>1, <3>2, <3>4, <4>1 DEF Grant
    <3> QED BY <3>3, <3>4
  <2> QED BY <2>2, <2>3
<1>7. ASSUME NEW q \in Requests, Act(q) PROVE BadgeTypeOK'
  BY <1>7 DEF Act, Request
<1>8. ASSUME NEW q \in Requests, Settle(q) PROVE BadgeTypeOK'
  <2> DEFINE t == req[q].token  unbind == req[q].kind = "scan" /\ req[q].binds
  <2>1. req[q] \in Request /\ unbind \in BOOLEAN
    BY DEF Request
  <2>2. req' \in [Requests -> Request] /\ UNCHANGED <<setting, active>>
    BY <1>8, <2>1 DEF Settle, Request
  <2>3. CASE t \notin Tokens
    <3>1. grant' = grant
      BY <1>8, <2>3 DEF Settle
    <3> QED BY <2>2, <3>1
  <2>4. CASE t \in Tokens
    <3>1. grant' = grant \/ grant' = [grant EXCEPT ![t] = Refunded(t, unbind)]
      BY <1>8 DEF Settle
    <3>2. Refunded(t, unbind) \in Grant
          /\ Refunded(t, unbind).uses <= grant[t].uses
      BY <2>1, <2>4, RefundedShape
    <3>3. setting.limit = 0 \/ Refunded(t, unbind).uses <= setting.limit
      BY <3>2, <2>4, <1>0 DEF Grant
    <3> QED BY <2>2, <2>4, <3>1, <3>2, <3>3 DEF Grant
  <2> QED BY <2>3, <2>4
<1>9. ASSUME NEW q \in Requests, Fail(q) PROVE BadgeTypeOK'
  <2> DEFINE l == req[q].pc # "spend" /\ ~req[q].landed
  <2>1. l \in BOOLEAN /\ req' = [req EXCEPT ![q].pc = "ended", ![q].lost = l]
        /\ UNCHANGED <<setting, grant, active>>
    BY <1>9 DEF Fail
  <2> HIDE DEF l
  <2> QED BY <2>1 DEF Request
<1>10. CASE UNCHANGED vars
  BY <1>10 DEF vars
<1> QED BY <1>1, <1>2, <1>3, <1>4, <1>5, <1>6, <1>7, <1>8, <1>9, <1>10 DEF Next

-----------------------------------------------------------------------------
(* The invariant *)

LEMMA ChargedFinite == \A t : IsFiniteSet(Charged(t)) /\ Cardinality(Charged(t)) \in Nat
<1> SUFFICES ASSUME NEW t PROVE IsFiniteSet(Charged(t)) /\ Cardinality(Charged(t)) \in Nat
  OBVIOUS
<1>1. Charged(t) \subseteq Requests /\ IsFiniteSet(Requests)
  BY BadgeAssumption DEF Charged
<1>2. IsFiniteSet(Charged(t))
  BY <1>1, FS_Subset
<1> QED BY <1>2, FS_CardinalityType

LEMMA InitInv == Orderly /\ Init => BadgeInv
<1> SUFFICES ASSUME Orderly, Init PROVE BadgeInv
  OBVIOUS
<1>1. \A q \in Requests : req[q] = NewRequest /\ ~Paid(q) /\ ~InFlight(q)
  BY DEF Init, NewRequest, Paid, InFlight
<1>2. \A t : Charged(t) = {} /\ OnRow(t) = {}
  BY <1>1 DEF Charged, OnRow
<1>3. \A t \in Tokens : grant[t].ref = None /\ grant[t].uses = 0
  BY DEF Init
<1>4. Phases
  BY <1>1 DEF Phases, NewRequest
<1>5. ActionScoped
  BY <1>1, <1>3 DEF ActionScoped, NewRequest
<1>6. InTurn
  BY <1>1 DEF InTurn, NewRequest
<1>7. Bindings
  BY <1>2, <1>3 DEF Bindings, Binding
<1>8. Counts
  <2>1. Cardinality({}) = 0
    BY FS_EmptySet
  <2>2. \A t \in Tokens : Cardinality(Charged(t)) = 0
    BY <1>2, <2>1
  <2> QED BY <1>3, <2>2 DEF Counts
<1>9. setting.scope = "subject" => ~setting.overlap
  BY DEF Orderly, Init
<1> QED BY <1>4, <1>5, <1>6, <1>7, <1>8, <1>9 DEF BadgeInv

\* A step of q that touches no other request, and leaves what q read alone.
OnlyOf(q) ==
  /\ \A p \in Requests \ {q} : req'[p] = req[p]
  /\ req'[q].kind = req[q].kind /\ req'[q].token = req[q].token
  /\ req'[q].ref = req[q].ref /\ req'[q].bound = req[q].bound
  /\ setting' = setting

\* A step that charges and gives back nothing.
LEMMA QuietStep ==
  ASSUME BadgeTypeOK, BadgeInv, NEW q \in Requests, OnlyOf(q), grant' = grant,
         req'[q].binds = req[q].binds, Paid(q)' <=> Paid(q),
         req'[q].pc # "new", req[q].pc # "new",
         req'[q].pc = "act" => ~req'[q].landed,
         req'[q].pc = "spend" => req[q].pc = "spend",
         req'[q].pc \in {"act", "settle"} => req[q].pc \in {"act", "settle"},
         InFlight(q)' => InFlight(q)
  PROVE  BadgeInv'
<1>1. \A p \in Requests : /\ Paid(p)' <=> Paid(p)
                          /\ InFlight(p)' => InFlight(p)
                          /\ req'[p].kind = req[p].kind /\ req'[p].token = req[p].token
                          /\ req'[p].ref = req[p].ref /\ req'[p].bound = req[p].bound
                          /\ req'[p].binds = req[p].binds
                          /\ req'[p].pc = "spend" => req[p].pc = "spend"
                          /\ req'[p].pc \in {"act", "settle"} => req[p].pc \in {"act", "settle"}
  BY DEF OnlyOf, Paid, InFlight
<1>2. \A t : Charged(t)' = Charged(t) /\ OnRow(t)' = OnRow(t)
  BY <1>1 DEF Charged, OnRow
<1>3. Phases'
  BY <1>1 DEF BadgeInv, Phases, OnlyOf
<1>4. ActionScoped'
  BY <1>1 DEF BadgeInv, ActionScoped, OnlyOf
<1>5. InTurn'
  BY <1>1 DEF BadgeInv, InTurn, OnlyOf
<1>6. ASSUME setting.scope = "subject", NEW t \in Tokens PROVE Binding(t)'
  <2>1. Binding(t)
    BY <1>6 DEF BadgeInv, Bindings
  <2>2. \A p \in OnRow(t) : p \in Requests
    BY DEF OnRow
  <2> QED BY <1>1, <1>2, <2>1, <2>2 DEF Binding
<1>7. Counts'
  BY <1>2 DEF BadgeInv, Counts
<1> QED BY <1>3, <1>4, <1>5, <1>6, <1>7 DEF BadgeInv, Bindings, OnlyOf

LEMMA LookInv ==
  ASSUME BadgeTypeOK, BadgeInv, NEW q \in Requests, Look(q)
  PROVE  BadgeInv'
<1>1. OnlyOf(q) /\ grant' = grant /\ req'[q] = [req[q] EXCEPT !.pc = "ended"]
  BY DEF Look, Go, BadgeTypeOK, Request, OnlyOf
<1>2. req[q] \in Request /\ req[q].pc = "spend"
  BY DEF Look, BadgeTypeOK
<1>3. req'[q].landed = req[q].landed /\ req'[q].lost = req[q].lost /\ req'[q].binds = req[q].binds
      /\ req'[q].pc = "ended"
  BY <1>1, <1>2 DEF Request
<1> QED BY <1>1, <1>2, <1>3, QuietStep DEF Paid, InFlight

LEMMA ActInv ==
  ASSUME BadgeTypeOK, BadgeInv, NEW q \in Requests, Act(q)
  PROVE  BadgeInv'
<1>1. PICK lands \in BOOLEAN : req' = [req EXCEPT ![q].landed = lands, ![q].pc = "settle"]
  BY DEF Act
<1>2. req[q] \in Request /\ req[q].pc = "act"
  BY DEF Act, BadgeTypeOK
<1>3. OnlyOf(q) /\ grant' = grant
      /\ req'[q].lost = req[q].lost /\ req'[q].binds = req[q].binds /\ req'[q].pc = "settle"
  BY <1>1, <1>2 DEF Act, BadgeTypeOK, Request, OnlyOf
<1> QED BY <1>2, <1>3, QuietStep DEF Paid, InFlight

LEMMA FailInv ==
  ASSUME BadgeTypeOK, BadgeInv, NEW q \in Requests, Fail(q)
  PROVE  BadgeInv'
<1> DEFINE l == req[q].pc # "spend" /\ ~req[q].landed
<1>1. req[q] \in Request /\ req[q].pc \in {"spend", "act", "settle"}
  BY DEF Fail, BadgeTypeOK, Request, InFlight
<1>2. OnlyOf(q) /\ grant' = grant
      /\ req'[q].lost = l /\ req'[q].landed = req[q].landed /\ req'[q].binds = req[q].binds
      /\ req'[q].pc = "ended"
  BY <1>1 DEF Fail, BadgeTypeOK, Request, OnlyOf
<1>3. Paid(q)' <=> Paid(q)
  BY <1>1, <1>2 DEF Paid, BadgeInv, Phases
<1> QED BY <1>1, <1>2, <1>3, QuietStep DEF InFlight

\* Nothing the invariant speaks of depends on the row, but whether it is gone.
LEMMA GrantsStep ==
  ASSUME BadgeTypeOK, BadgeInv, setting' = setting, req' = req,
         \A p \in Tokens : /\ grant'[p].uses = grant[p].uses /\ grant'[p].ref = grant[p].ref
                           /\ grant[p].row = "gone" => grant'[p].row = "gone"
  PROVE  BadgeInv'
<1>1. \A p : (Paid(p)' <=> Paid(p)) /\ (InFlight(p)' <=> InFlight(p))
  BY DEF Paid, InFlight
<1>2. \A t : Charged(t)' = Charged(t) /\ OnRow(t)' = OnRow(t)
  BY <1>1 DEF Charged, OnRow
<1>3. Phases'
  BY <1>1 DEF BadgeInv, Phases
<1>4. ActionScoped'
  BY DEF BadgeInv, ActionScoped
<1>5. \A p \in Requests : req[p].pc = "spend" => req[p].token \in Tokens
  BY DEF BadgeInv, Phases
<1>6. InTurn'
  BY <1>1, <1>5 DEF BadgeInv, InTurn
<1>7. ASSUME setting.scope = "subject", NEW t \in Tokens PROVE Binding(t)'
  BY <1>2, <1>7 DEF BadgeInv, Bindings, Binding
<1>8. Counts'
  BY <1>2 DEF BadgeInv, Counts
<1> QED BY <1>3, <1>4, <1>6, <1>7, <1>8 DEF BadgeInv, Bindings

LEMMA BeginInv ==
  ASSUME BadgeTypeOK, BadgeInv, NEW q \in Requests, NEW kind \in Kinds, NEW t \in Tokens,
         NEW ref \in Refs, Begin(q, kind, t, ref)
  PROVE  BadgeInv'
<1> DEFINE b == kind # "route" /\ grant[t].ref # None
           c == IF kind = "route" \/ (Readable(t) /\ active) THEN "spend" ELSE "ended"
<1>1. /\ req[q] \in Request /\ req[q].pc = "new"
      /\ setting' = setting /\ grant' = grant
      /\ \A p \in Requests \ {q} : req'[p] = req[p]
      /\ req'[q].kind = kind /\ req'[q].token = t /\ req'[q].ref = ref /\ req'[q].bound = b
      /\ req'[q].pc = c /\ req'[q].binds = req[q].binds
      /\ req'[q].landed = req[q].landed /\ req'[q].lost = req[q].lost
      /\ kind # "scan" => ref = None
  BY DEF Begin, BadgeTypeOK, Request
<1>2. c \in {"spend", "ended"} /\ b \in BOOLEAN
  OBVIOUS
<1>3. ~Paid(q) /\ ~Paid(q)'
  BY <1>1, <1>2 DEF BadgeInv, Phases, Paid
<1>4. \A p \in Requests \ {q} : (Paid(p)' <=> Paid(p)) /\ (InFlight(p)' <=> InFlight(p))
  BY <1>1 DEF Paid, InFlight
<1>5. \A u : Charged(u)' = Charged(u) /\ OnRow(u)' = OnRow(u)
  BY <1>1, <1>3, <1>4 DEF Charged, OnRow
<1>6. Phases'
  <2>1. ASSUME NEW p \in Requests, p # q
        PROVE  /\ req'[p] = req[p] /\ (Paid(p)' <=> Paid(p))
    BY <2>1, <1>1, <1>4
  <2> HIDE DEF c
  <2> QED BY <1>1, <1>2, <1>3, <2>1 DEF BadgeInv, Phases
<1>7. ActionScoped'
  BY <1>1 DEF BadgeInv, ActionScoped
<1>8. ASSUME setting.scope = "subject" PROVE InTurn'
  <2>1. \A p \in Requests : ~(InFlight(p) /\ req[p].token = t)
    BY <1>8 DEF Begin, BadgeInv
  <2>2. c = "spend" => kind = "route" \/ grant[t].row = "live"
    BY DEF Readable
  <2> HIDE DEF c
  <2>3. InTurn
    BY DEF BadgeInv
  <2>4. \A p, p2 \in Requests :
          InFlight(p)' /\ InFlight(p2)' /\ req'[p].token = req'[p2].token => p = p2
    <3>1. ASSUME NEW p \in Requests \ {q}, InFlight(p)' PROVE req'[p].token # req'[q].token
      BY <1>1, <1>4, <2>1, <3>1
    <3>2. ASSUME NEW p \in Requests \ {q}, NEW p2 \in Requests \ {q},
                 InFlight(p)', InFlight(p2)', req'[p].token = req'[p2].token
          PROVE  p = p2
      BY <1>1, <1>4, <1>8, <2>3, <3>2 DEF InTurn
    <3> QED BY <3>1, <3>2
  <2>5. ASSUME NEW p \in Requests
        PROVE  /\ req'[p].pc = "spend" /\ req'[p].kind # "route" /\ grant[req'[p].token].row # "gone"
                    => (req'[p].bound <=> grant[req'[p].token].ref # None)
               /\ req'[p].pc \in {"act", "settle"} => (req'[p].binds <=> req'[p].ref # None)
    <3>1. CASE p = q
      BY <1>1, <1>2, <3>1
    <3>2. CASE p # q
      <4>1. req'[p] = req[p]
        BY <1>1, <3>2
      <4> QED BY <1>8, <2>3, <4>1 DEF InTurn
    <3> QED BY <3>1, <3>2
  <2> QED BY <1>1, <2>4, <2>5 DEF InTurn
<1>9. ASSUME setting.scope = "subject", NEW u \in Tokens PROVE Binding(u)'
  <2>1. q \notin OnRow(u) /\ \A p \in OnRow(u) : p \in Requests /\ p # q /\ req'[p] = req[p]
    BY <1>1, <1>3 DEF OnRow
  <2> QED BY <1>1, <1>5, <1>9, <2>1 DEF BadgeInv, Bindings, Binding
<1>10. Counts'
  BY <1>1, <1>5 DEF BadgeInv, Counts
<1> QED BY <1>1, <1>6, <1>7, <1>8, <1>9, <1>10 DEF BadgeInv, Bindings, InTurn

\* A spend that finds no use left ends the request.
LEMMA SpendRefused ==
  ASSUME BadgeTypeOK, BadgeInv, NEW q \in Requests, Spend(q), ~Spendable(req[q].token, req[q].ref)
  PROVE  BadgeInv'
<1>1. OnlyOf(q) /\ grant' = grant /\ req'[q] = [req[q] EXCEPT !.pc = "ended"]
  BY DEF Spend, Go, BadgeTypeOK, Request, OnlyOf
<1>2. req[q] \in Request /\ req[q].pc = "spend"
  BY DEF Spend, BadgeTypeOK
<1>3. req'[q].landed = req[q].landed /\ req'[q].lost = req[q].lost /\ req'[q].binds = req[q].binds
      /\ req'[q].pc = "ended"
  BY <1>1, <1>2 DEF Request
<1> QED BY <1>1, <1>2, <1>3, QuietStep DEF Paid, InFlight

LEMMA SpendInv ==
  ASSUME BadgeTypeOK, BadgeInv, NEW q \in Requests, Spend(q), Spendable(req[q].token, req[q].ref)
  PROVE  BadgeInv'
<1> DEFINE t == req[q].token  ref == req[q].ref  g == Spent(t, ref)
<1>1. /\ req[q] \in Request /\ req[q].pc = "spend" /\ t \in Tokens /\ ref \in Refs
      /\ ~Paid(q) /\ InFlight(q)
      /\ req[q].kind # "scan" => ref = None
      /\ req[q].kind = "route" => ~req[q].bound
  BY DEF Spend, BadgeTypeOK, BadgeInv, Phases, Request, InFlight
<1>2. /\ grant' = [grant EXCEPT ![t] = g] /\ setting' = setting
      /\ OnlyOf(q)
      /\ req'[q].binds = (g.ref # None) /\ req'[q].lost = ~active
      /\ req'[q].pc = IF active THEN "act" ELSE "ended"
      /\ req'[q].landed = req[q].landed
  <2> HIDE DEF g
  <2> DEFINE l == ~active  b == g.ref # None  c == IF active THEN "act" ELSE "ended"
  <2>1. /\ grant' = [grant EXCEPT ![t] = g] /\ setting' = setting
        /\ req' = [req EXCEPT ![q] = [@ EXCEPT !.binds = b, !.lost = l, !.pc = c]]
    BY DEF Spend, g
  <2>2. req \in [Requests -> Request]
    BY DEF BadgeTypeOK
  <2> HIDE DEF l, b, c
  <2>3. /\ OnlyOf(q)
        /\ req'[q].binds = b /\ req'[q].lost = l /\ req'[q].pc = c
        /\ req'[q].landed = req[q].landed
    BY <2>1, <2>2 DEF Request, OnlyOf
  <2> QED BY <2>1, <2>3 DEF l, b, c
<1>3. /\ \A p \in Requests \ {q} : /\ (Paid(p)' <=> Paid(p)) /\ (InFlight(p)' <=> InFlight(p))
                                   /\ req'[p] = req[p]
      /\ Paid(q)' /\ req'[q].token = t /\ req'[q].ref = ref /\ req'[q].bound = req[q].bound
  BY <1>2 DEF OnlyOf, Paid, InFlight
<1>4. ASSUME NEW u
      PROVE  /\ Charged(u)' = IF u = t /\ ~req[q].bound THEN Charged(u) \cup {q} ELSE Charged(u)
             /\ OnRow(u)' = IF u = t /\ ref # None THEN OnRow(u) \cup {q} ELSE OnRow(u)
             /\ q \notin Charged(u) /\ q \notin OnRow(u)
  <2>1. \A p \in Requests : p # q =>
          (p \in Charged(u)' <=> p \in Charged(u)) /\ (p \in OnRow(u)' <=> p \in OnRow(u))
    BY <1>3 DEF Charged, OnRow
  <2>2. /\ q \notin Charged(u) /\ q \notin OnRow(u)
        /\ q \in Charged(u)' <=> (u = t /\ ~req[q].bound)
        /\ q \in OnRow(u)' <=> (u = t /\ ref # None)
    BY <1>1, <1>3 DEF Charged, OnRow
  <2>3. Charged(u) \subseteq Requests /\ OnRow(u) \subseteq Requests
        /\ Charged(u)' \subseteq Requests /\ OnRow(u)' \subseteq Requests
    BY DEF Charged, OnRow
  <2> QED BY <2>1, <2>2, <2>3
<1>5. grant[t].row = "live" /\ grant[t] \in Grant /\ g \in Grant /\ g.row = "live"
  BY <1>1, SpentShape DEF Spendable, BadgeTypeOK
<1>6. setting.scope \in {"action", "subject"}
  BY SettingShape DEF Scopes
\* A bound grant was read as bound; an unbound one as unbound.
<1>7. ASSUME grant[t].ref # None
      PROVE  /\ g = grant[t] /\ ref = grant[t].ref
             /\ setting.scope = "subject" /\ req[q].bound
  <2>1. g = grant[t] /\ ref = grant[t].ref
    BY <1>7 DEF Spent, Spendable
  <2>2. setting.scope = "subject"
    BY <1>1, <1>6, <1>7 DEF BadgeInv, ActionScoped
  <2>3. req[q].bound
    BY <1>1, <1>5, <1>7, <2>1, <2>2 DEF BadgeInv, InTurn
  <2> QED BY <2>1, <2>2, <2>3
<1>8. ASSUME grant[t].ref = None
      PROVE  /\ g.uses = grant[t].uses + 1
             /\ g.ref = IF setting.scope = "subject" THEN ref ELSE None
             /\ ~req[q].bound
             /\ setting.scope = "subject" => OnRow(t) = {}
  <2>1. g = [row |-> grant[t].row, uses |-> grant[t].uses + 1,
             ref |-> IF setting.scope = "subject" THEN ref ELSE None]
    BY <1>5, <1>8 DEF Spent, Grant
  <2>2. ~req[q].bound
    BY <1>1, <1>5, <1>6, <1>8 DEF BadgeInv, ActionScoped, InTurn
  <2>3. setting.scope = "subject" => OnRow(t) = {}
    BY <1>1, <1>5, <1>8 DEF BadgeInv, Bindings, Binding, OnRow
  <2> QED BY <2>1, <2>2, <2>3
<1> HIDE DEF g
<1>9. Phases'
  <2>1. ASSUME NEW p \in Requests
        PROVE  /\ req'[p].pc \in {"new", "spend"} => ~Paid(p)'
               /\ req'[p].pc = "act" => ~req'[p].landed
               /\ req'[p].pc # "new" => req'[p].token \in Tokens
               /\ req'[p].kind # "scan" => req'[p].ref = None
               /\ req'[p].kind = "route" => ~req'[p].bound
               /\ Paid(p)' /\ req'[p].bound => req'[p].ref # None
    <3>1. CASE p # q
      BY <1>3, <3>1 DEF BadgeInv, Phases
    <3>2. CASE p = q
      BY <1>1, <1>2, <1>3, <1>7, <1>8, <3>2 DEF OnlyOf, Paid
    <3> QED BY <3>1, <3>2
  <2> QED BY <2>1 DEF Phases
<1>10. ActionScoped'
  <2>1. ASSUME setting.scope = "action"
        PROVE  /\ \A u \in Tokens : grant'[u].ref = None
               /\ \A p \in Requests : ~req'[p].bound
    BY <1>1, <1>2, <1>3, <1>8, <2>1 DEF BadgeInv, ActionScoped, BadgeTypeOK
  <2> QED BY <1>2, <2>1 DEF ActionScoped
<1>11. ASSUME setting.scope = "subject" PROVE InTurn'
  <2>1. InTurn /\ grant \in [Tokens -> Grant] /\ \A p \in Requests : req[p].pc # "new" => req[p].token \in Tokens
    BY DEF BadgeInv, BadgeTypeOK, Phases
  <2>2. ASSUME NEW p \in Requests, NEW p2 \in Requests,
               InFlight(p)', InFlight(p2)', req'[p].token = req'[p2].token
        PROVE  p = p2
    BY <1>1, <1>3, <1>11, <2>1, <2>2 DEF InTurn
  <2>3. ASSUME NEW p \in Requests, req'[p].pc = "spend"
        PROVE  p # q /\ req[p].token # t
    BY <1>1, <1>2, <1>3, <1>11, <2>1, <2>3 DEF InTurn, InFlight
  <2>4. ASSUME NEW p \in Requests
        PROVE  /\ req'[p].pc = "spend" /\ req'[p].kind # "route" /\ grant'[req'[p].token].row # "gone"
                    => (req'[p].bound <=> grant'[req'[p].token].ref # None)
               /\ req'[p].pc \in {"act", "settle"} => (req'[p].binds <=> req'[p].ref # None)
    <3>1. CASE p # q
      <4>1. req'[p] = req[p]
        BY <1>3, <3>1
      <4>2. ASSUME req[p].pc = "spend" PROVE grant'[req[p].token] = grant[req[p].token]
        BY <1>2, <2>1, <2>3, <4>1, <4>2
      <4> QED BY <1>11, <2>1, <4>1, <4>2 DEF InTurn
    <3>2. CASE p = q
      BY <1>2, <1>3, <1>7, <1>8, <1>11, <2>3, <3>2
    <3> QED BY <3>1, <3>2
  <2> QED BY <1>2, <2>2, <2>4 DEF InTurn
<1>12. ASSUME setting.scope = "subject", NEW u \in Tokens PROVE Binding(u)'
  <2>1. Binding(u) /\ grant \in [Tokens -> Grant] /\ InTurn
    BY <1>12 DEF BadgeInv, Bindings, BadgeTypeOK
  <2>2. \A p \in OnRow(u) : p \in Requests /\ p # q /\ req'[p] = req[p] /\ req[p].token = u /\ req[p].ref # None
    BY <1>3, <1>4 DEF OnRow
  <2>3. CASE u # t \/ ref = None
    <3>1. OnRow(u)' = OnRow(u) /\ grant'[u].row = grant[u].row /\ grant'[u].ref = grant[u].ref
      BY <1>2, <1>4, <1>5, <1>7, <1>8, <1>12, <2>1, <2>3
    <3> QED BY <2>1, <2>2, <3>1 DEF Binding
  <2>4. CASE u = t /\ ref # None
    <3>1. OnRow(u)' = OnRow(u) \cup {q} /\ grant'[u] = g
      BY <1>2, <1>4, <2>1, <2>4
    <3>2. CASE grant[t].ref = None
      BY <1>3, <1>5, <1>8, <1>12, <2>4, <3>1, <3>2 DEF Binding
    <3>3. CASE grant[t].ref # None
      <4>1. g = grant[t] /\ ref = grant[t].ref /\ req[q].bound
        BY <1>7, <3>3
      <4>2. \A p \in OnRow(t) : req[p].pc \notin {"act", "settle"}
        BY <1>1, <1>12, <2>1, <2>2, <2>4 DEF InTurn, InFlight
      <4>3. \A p \in OnRow(u) : req[p].ref = ref
        BY <1>5, <2>1, <2>4, <4>1 DEF Binding
      <4>4. PICK w \in OnRow(u) : ~req[w].bound
        BY <1>5, <2>1, <2>4, <3>3 DEF Binding
      <4>5. \A p \in OnRow(u)' : /\ req'[p].ref = ref
                                 /\ req'[p].bound \/ req'[p].pc \notin {"act", "settle"}
        BY <1>3, <2>2, <2>4, <3>1, <4>1, <4>2, <4>3
      <4>6. w \in OnRow(u)' /\ ~req'[w].bound
        BY <2>2, <3>1, <4>4
      <4>7. grant'[u].ref = ref
        BY <3>1, <4>1
      <4>8. \A p, p2 \in OnRow(u)' : ~req'[p].bound /\ ~req'[p2].bound => p = p2
        <5>1. \A p \in OnRow(u)' : ~req'[p].bound => p \in OnRow(u) /\ req'[p] = req[p]
          BY <1>3, <2>2, <3>1, <4>1
        <5>2. \A p, p2 \in OnRow(u) : ~req[p].bound /\ ~req[p2].bound => p = p2
          BY <2>1 DEF Binding
        <5> QED BY <5>1, <5>2
      <4> QED BY <4>5, <4>6, <4>7, <4>8 DEF Binding
    <3> QED BY <3>2, <3>3
  <2> QED BY <2>3, <2>4
<1>13. Counts'
  <2>1. ASSUME NEW u \in Tokens
        PROVE  /\ Cardinality(Charged(u)') <= grant'[u].uses
               /\ grant'[u].row # "gone" => Cardinality(Charged(u)') = grant'[u].uses
    <3>1. /\ Cardinality(Charged(u)) <= grant[u].uses /\ grant[u] \in Grant
          /\ grant[u].row # "gone" => Cardinality(Charged(u)) = grant[u].uses
          /\ IsFiniteSet(Charged(u)) /\ Cardinality(Charged(u)) \in Nat
      BY ChargedFinite DEF BadgeInv, Counts, BadgeTypeOK
    <3>2. CASE u # t
      BY <1>2, <1>4, <3>1, <3>2 DEF BadgeTypeOK
    <3>3. CASE u = t
      <4>1. grant'[u] = g
        BY <1>2, <3>3 DEF BadgeTypeOK
      <4>2. CASE grant[t].ref # None
        BY <1>4, <1>7, <3>1, <3>3, <4>1, <4>2
      <4>3. CASE grant[t].ref = None
        <5>1. Charged(u)' = Charged(u) \cup {q} /\ q \notin Charged(u) /\ g.uses = grant[u].uses + 1
          BY <1>4, <1>8, <3>3, <4>3
        <5>2. Cardinality(Charged(u) \cup {q}) = Cardinality(Charged(u)) + 1
          BY <3>1, <5>1, FS_AddElement
        <5> QED BY <1>5, <3>1, <3>3, <4>1, <5>1, <5>2 DEF Grant
      <4> QED BY <4>2, <4>3
    <3> QED BY <3>2, <3>3
  <2> QED BY <2>1 DEF Counts
<1> QED BY <1>2, <1>9, <1>10, <1>11, <1>12, <1>13 DEF BadgeInv, Bindings, InTurn

\* A request that gives back what it spent, or a miss on a bound grant, which
\* spent nothing.
LEMMA SettleInv ==
  ASSUME BadgeTypeOK, BadgeInv, NEW q \in Requests, Settle(q)
  PROVE  BadgeInv'
<1> DEFINE t == req[q].token
           l == req[q].kind = "route" /\ ~req[q].landed
           unbind == req[q].kind = "scan" /\ req[q].binds
           g == Refunded(t, unbind)
<1>1. /\ req[q] \in Request /\ req[q].pc = "settle" /\ t \in Tokens
      /\ Paid(q) /\ InFlight(q)
      /\ req[q].kind # "scan" => req[q].ref = None
      /\ req[q].bound => req[q].ref # None
      /\ req[q].kind \in {"scan", "roster", "route"}
  BY DEF Settle, BadgeTypeOK, BadgeInv, Phases, Paid, Request, InFlight, Kinds
<1>2. /\ OnlyOf(q) /\ setting' = setting
      /\ req'[q].binds = req[q].binds /\ req'[q].lost = l /\ req'[q].pc = "ended"
      /\ req'[q].landed = req[q].landed
      /\ grant' = IF GivesBack(q) THEN [grant EXCEPT ![t] = g] ELSE grant
  <2>1. /\ req' = [req EXCEPT ![q].pc = "ended", ![q].lost = l]
        /\ setting' = setting
        /\ grant' = IF GivesBack(q) THEN [grant EXCEPT ![t] = g] ELSE grant
    BY DEF Settle
  <2>2. req \in [Requests -> Request]
    BY DEF BadgeTypeOK
  <2> HIDE DEF l, g
  <2> QED BY <2>1, <2>2 DEF Request, OnlyOf
<1>3. CASE req[q].landed \/ l
  <2>1. ~GivesBack(q)
    BY <1>3 DEF GivesBack
  <2> QED BY <1>1, <1>2, <1>3, <2>1, QuietStep DEF Paid, InFlight
<1>4. CASE ~req[q].landed /\ ~l
  <2>1. /\ GivesBack(q) <=> ~req[q].bound
        /\ req[q].kind \in {"scan", "roster"}
    BY <1>1, <1>4 DEF GivesBack
  <2>2. /\ \A p \in Requests \ {q} : /\ (Paid(p)' <=> Paid(p)) /\ (InFlight(p)' <=> InFlight(p))
                                     /\ req'[p] = req[p]
        /\ ~Paid(q)'
    BY <1>2, <1>4 DEF OnlyOf, Paid, InFlight
  <2>3. ASSUME NEW u
        PROVE  /\ Charged(u)' = Charged(u) \ {q} /\ OnRow(u)' = OnRow(u) \ {q}
               /\ q \in Charged(u) <=> (u = t /\ ~req[q].bound)
               /\ q \in OnRow(u) <=> (u = t /\ req[q].ref # None)
    <3>1. \A p \in Requests : p # q =>
            (p \in Charged(u)' <=> p \in Charged(u)) /\ (p \in OnRow(u)' <=> p \in OnRow(u))
      BY <2>2 DEF Charged, OnRow
    <3>2. /\ q \notin Charged(u)' /\ q \notin OnRow(u)'
          /\ q \in Charged(u) <=> (u = t /\ ~req[q].bound)
          /\ q \in OnRow(u) <=> (u = t /\ req[q].ref # None)
      BY <1>1, <2>2 DEF Charged, OnRow
    <3>3. Charged(u) \subseteq Requests /\ OnRow(u) \subseteq Requests
          /\ Charged(u)' \subseteq Requests /\ OnRow(u)' \subseteq Requests
      BY DEF Charged, OnRow
    <3> QED BY <3>1, <3>2, <3>3
  <2>4. /\ grant \in [Tokens -> Grant] /\ grant[t] \in Grant /\ g \in Grant
        /\ g.row = grant[t].row
    BY <1>1, RefundedShape DEF BadgeTypeOK, Request
  <2>5. grant[t].row # "gone" =>
          /\ g.uses = IF grant[t].uses = 0 THEN 0 ELSE grant[t].uses - 1
          /\ g.ref = IF unbind THEN None ELSE grant[t].ref
    BY <2>4 DEF Refunded, Grant
  <2>6. grant[t].row = "gone" => g = grant[t]
    BY DEF Refunded
  <2> HIDE DEF g
  <2>7. Phases'
    <3>1. ASSUME NEW p \in Requests
          PROVE  /\ req'[p].pc \in {"new", "spend"} => ~Paid(p)'
                 /\ req'[p].pc = "act" => ~req'[p].landed
                 /\ req'[p].pc # "new" => req'[p].token \in Tokens
                 /\ req'[p].kind # "scan" => req'[p].ref = None
                 /\ req'[p].kind = "route" => ~req'[p].bound
                 /\ Paid(p)' /\ req'[p].bound => req'[p].ref # None
      <4>1. CASE p # q
        BY <2>2, <4>1 DEF BadgeInv, Phases
      <4>2. CASE p = q
        BY <1>1, <1>2, <1>4, <2>2, <4>2 DEF OnlyOf, BadgeInv, Phases
      <4> QED BY <4>1, <4>2
    <3> QED BY <3>1 DEF Phases
  <2>8. ActionScoped'
    <3>1. ASSUME setting.scope = "action"
          PROVE  /\ \A u \in Tokens : grant'[u].ref = None
                 /\ \A p \in Requests : ~req'[p].bound
      <4>1. g.ref = None
        BY <1>1, <2>4, <2>5, <2>6, <3>1 DEF BadgeInv, ActionScoped
      <4>2. \A p \in Requests : req'[p].bound = req[p].bound
        BY <1>2, <2>2 DEF OnlyOf
      <4> QED BY <1>1, <1>2, <2>4, <3>1, <4>1, <4>2 DEF BadgeInv, ActionScoped
    <3> QED BY <1>2, <3>1 DEF ActionScoped
  <2>9. ASSUME setting.scope = "subject" PROVE InTurn'
    <3>1. InTurn /\ \A p \in Requests : req[p].pc # "new" => req[p].token \in Tokens
      BY DEF BadgeInv, Phases
    <3>2. ~InFlight(q)'
      BY <1>2 DEF InFlight
    <3>3. ASSUME NEW p \in Requests, NEW p2 \in Requests,
                 InFlight(p)', InFlight(p2)', req'[p].token = req'[p2].token
          PROVE  p = p2
      BY <2>2, <2>9, <3>1, <3>2, <3>3 DEF InTurn
    <3>4. ASSUME NEW p \in Requests
          PROVE  /\ req'[p].pc = "spend" /\ req'[p].kind # "route" /\ grant'[req'[p].token].row # "gone"
                      => (req'[p].bound <=> grant'[req'[p].token].ref # None)
                 /\ req'[p].pc \in {"act", "settle"} => (req'[p].binds <=> req'[p].ref # None)
      <4>1. CASE p # q
        <5>1. req'[p] = req[p]
          BY <2>2, <4>1
        <5>2. ASSUME req[p].pc = "spend" PROVE grant'[req[p].token] = grant[req[p].token]
          <6>1. InFlight(p) /\ req[p].token \in Tokens
            BY <3>1, <5>2 DEF InFlight
          <6>2. req[p].token # t
            BY <1>1, <2>9, <3>1, <4>1, <6>1 DEF InTurn
          <6> QED BY <1>2, <2>4, <6>1, <6>2
        <5> QED BY <2>9, <3>1, <5>1, <5>2 DEF InTurn
      <4>2. CASE p = q
        BY <1>2, <4>2
      <4> QED BY <4>1, <4>2
    <3> QED BY <1>2, <3>3, <3>4 DEF InTurn
  <2>10. ASSUME setting.scope = "subject", NEW u \in Tokens PROVE Binding(u)'
    <3>1. Binding(u) /\ InTurn
      BY <2>10 DEF BadgeInv, Bindings
    <3>2. \A p \in OnRow(u)' : p \in OnRow(u) /\ p \in Requests /\ p # q /\ req'[p] = req[p]
      BY <2>2, <2>3 DEF OnRow
    <3>3. CASE q \notin OnRow(u)
      <4>1. OnRow(u)' = OnRow(u)
        BY <2>3, <3>3
      <4>2. grant'[u].row = grant[u].row /\ grant'[u].ref = grant[u].ref
        <5>1. CASE u # t
          BY <1>2, <2>4, <5>1
        <5>2. CASE u = t
          <6>1. req[q].ref = None
            BY <2>3, <3>3, <5>2
          <6>2. ~unbind
            BY <1>1, <2>10, <3>1, <6>1 DEF InTurn
          <6> QED BY <1>2, <2>4, <2>5, <2>6, <5>2, <6>2
        <5> QED BY <5>1, <5>2
      <4> QED BY <3>1, <3>2, <4>1, <4>2 DEF Binding
    <3>4. CASE q \in OnRow(u) /\ req[q].bound
      <4>1. grant' = grant /\ OnRow(u)' = OnRow(u) \ {q}
        BY <1>2, <2>1, <2>3, <3>4
      <4> QED BY <3>1, <3>2, <3>4, <4>1 DEF Binding
    <3>5. CASE q \in OnRow(u) /\ ~req[q].bound
      <4>1. u = t /\ OnRow(u) = {q} /\ req[q].ref # None
        BY <1>1, <2>3, <3>1, <3>5 DEF Binding
      <4>2. OnRow(u)' = {}
        BY <2>3, <4>1
      <4>3. unbind
        BY <1>1, <2>10, <3>1, <4>1 DEF InTurn
      <4>4. grant'[u].row # "gone" => grant'[u].ref = None
        BY <1>2, <2>1, <2>4, <2>5, <3>5, <4>1, <4>3
      <4> QED BY <4>2, <4>4 DEF Binding
    <3> QED BY <3>3, <3>4, <3>5
  <2>11. Counts'
    <3>1. ASSUME NEW u \in Tokens
          PROVE  /\ Cardinality(Charged(u)') <= grant'[u].uses
                 /\ grant'[u].row # "gone" => Cardinality(Charged(u)') = grant'[u].uses
      <4>1. /\ Cardinality(Charged(u)) <= grant[u].uses /\ grant[u] \in Grant
            /\ grant[u].row # "gone" => Cardinality(Charged(u)) = grant[u].uses
            /\ IsFiniteSet(Charged(u)) /\ Cardinality(Charged(u)) \in Nat
        BY <2>4, ChargedFinite DEF BadgeInv, Counts
      <4>2. CASE u = t /\ ~req[q].bound
        <5>1. Charged(u)' = Charged(u) \ {q} /\ q \in Charged(u) /\ grant'[u] = g
          BY <1>2, <2>1, <2>3, <2>4, <4>2
        <5>2. Cardinality(Charged(u)') = Cardinality(Charged(u)) - 1
          BY <4>1, <5>1, FS_RemoveElement
        <5>3. grant[u].uses \in Nat
          BY <4>1 DEF Grant
        <5>4. CASE grant[u].row = "gone"
          BY <2>4, <2>6, <4>1, <4>2, <5>1, <5>2, <5>3, <5>4
        <5>5. CASE grant[u].row # "gone"
          <6>1. Cardinality(Charged(u)) = grant[u].uses /\ Cardinality(Charged(u)) # 0
            BY <4>1, <5>1, <5>5, FS_EmptySet
          <6>2. g.uses = grant[u].uses - 1
            BY <2>5, <4>2, <5>5, <6>1
          <6> QED BY <5>1, <5>2, <5>3, <6>1, <6>2
        <5> QED BY <5>4, <5>5
      <4>3. CASE ~(u = t /\ ~req[q].bound)
        <5>1. Charged(u)' = Charged(u)
          BY <2>3, <4>3
        <5>2. grant'[u] = grant[u]
          BY <1>2, <2>1, <2>4, <4>3
        <5> QED BY <4>1, <5>1, <5>2
      <4> QED BY <4>2, <4>3
    <3> QED BY <3>1 DEF Counts
  <2> QED BY <1>2, <2>7, <2>8, <2>9, <2>10, <2>11 DEF BadgeInv, Bindings, InTurn
<1> QED BY <1>3, <1>4

LEMMA NextInv == BadgeTypeOK /\ BadgeInv /\ [Next]_vars => BadgeInv'
<1> SUFFICES ASSUME BadgeTypeOK, BadgeInv, [Next]_vars PROVE BadgeInv'
  OBVIOUS
<1>1. ASSUME NEW t \in Tokens, Mint(t) PROVE BadgeInv'
  <2>1. setting' = setting /\ req' = req
    BY <1>1 DEF Mint
  <2> QED BY <1>1, <2>1, MintRows, GrantsStep
<1>2. ASSUME NEW t \in Tokens, Expire(t) PROVE BadgeInv'
  <2>1. /\ setting' = setting /\ req' = req
        /\ \A p \in Tokens : /\ grant'[p].uses = grant[p].uses /\ grant'[p].ref = grant[p].ref
                             /\ grant[p].row = "gone" => grant'[p].row = "gone"
    BY <1>2 DEF Expire, BadgeTypeOK, Grant
  <2> QED BY <2>1, GrantsStep
<1>3. CASE Deactivate \/ UNCHANGED vars
  <2>1. setting' = setting /\ req' = req /\ grant' = grant
    BY <1>3 DEF Deactivate, vars
  <2> QED BY <2>1, GrantsStep
<1>4. ASSUME NEW q \in Requests, Spend(q) PROVE BadgeInv'
  BY <1>4, SpendRefused, SpendInv
<1> QED BY <1>1, <1>2, <1>3, <1>4, BeginInv, LookInv, ActInv, SettleInv, FailInv DEF Next

\* For every value of the constants the grants and the requests keep their types,
\* and no grant is counted past its limit (CONSUME_EPHEMERAL).
THEOREM BadgeTypeCorrect == Spec => []BadgeTypeOK
  BY InitTypeOK, NextTypeOK, PTL DEF Spec

\* The requests that spent on a row of a subject-scoped grant all spent on one.
LEMMA InvOneSubject == BadgeTypeOK /\ BadgeInv => OneSubject
<1> SUFFICES ASSUME BadgeTypeOK, BadgeInv, setting.scope = "subject", NEW t \in Tokens
             PROVE  Cardinality(ActedOn(t)) <= 1
  BY DEF OneSubject
<1>1. \A p, q \in OnRow(t) : req[p].ref = req[q].ref
  BY DEF BadgeInv, Bindings, Binding
<1>2. \A r \in ActedOn(t) : \E q \in OnRow(t) : r = req[q].ref
  BY DEF ActedOn, Acts, OnRow, Paid
<1>3. CASE ActedOn(t) = {}
  BY <1>3, FS_EmptySet
<1>4. CASE ActedOn(t) # {}
  <2>1. PICK r : r \in ActedOn(t)
    BY <1>4
  <2>2. ActedOn(t) = {r}
    BY <1>1, <1>2, <2>1
  <2>3. Cardinality({r}) = 1
    BY FS_Singleton
  <2> QED BY <2>2, <2>3
<1> QED BY <1>3, <1>4

\* With the books closed the acts and what is charged are the same.
LEMMA InvBadgeStaysWhole == BadgeTypeOK /\ BadgeInv => BadgeStaysWhole
<1> SUFFICES ASSUME BadgeTypeOK, BadgeInv, NEW t \in Tokens, BooksClosed(t), grant[t].row # "gone"
             PROVE  /\ grant[t].uses = Cost(t)
                    /\ grant[t].ref # None <=> (setting.scope = "subject" /\ ActedOn(t) # {})
  BY DEF BadgeStaysWhole
<1>1. /\ Cardinality(Charged(t)) = grant[t].uses
      /\ IsFiniteSet(Charged(t)) /\ setting.scope \in {"action", "subject"}
  BY ChargedFinite, SettingShape DEF BadgeInv, Counts, Scopes
<1>2. \A q \in Requests : req[q].token = t => (Paid(q) <=> req[q].landed)
  BY DEF BooksClosed, InFlight, Paid
<1>3. CASE setting.scope = "action"
  <2>1. Acts(t) = Charged(t)
    BY <1>2, <1>3 DEF Acts, Charged, BadgeInv, ActionScoped
  <2> QED BY <1>1, <1>3, <2>1 DEF Cost, BadgeInv, ActionScoped
<1>4. CASE setting.scope = "subject"
  <2> DEFINE N == {q \in Acts(t) : req[q].ref = None}
  <2>1. Binding(t) /\ Phases
    BY <1>4 DEF BadgeInv, Bindings
  <2>2. OnRow(t) = {q \in Acts(t) : req[q].ref # None}
    BY <1>2 DEF OnRow, Acts
  <2>3. ActedOn(t) # {} <=> OnRow(t) # {}
    BY <2>2 DEF ActedOn
  <2>4. N \subseteq Charged(t) /\ IsFiniteSet(N)
    <3>1. N \subseteq Charged(t)
      BY <1>2, <2>1 DEF Acts, Charged, Phases
    <3> QED BY <1>1, <3>1, FS_Subset
  <2>5. Cost(t) = Cardinality(N) + Cardinality(ActedOn(t))
    BY <1>4 DEF Cost
  <2>6. CASE OnRow(t) = {}
    <3>1. N = Charged(t)
      BY <1>2, <2>4, <2>6 DEF Acts, Charged, OnRow
    <3>2. grant[t].ref = None
      BY <2>1, <2>6 DEF Binding
    <3>3. Cardinality(ActedOn(t)) = 0 /\ Cardinality(N) \in Nat
      BY <2>3, <2>4, <2>6, FS_EmptySet, FS_CardinalityType
    <3> HIDE DEF N
    <3> QED BY <1>1, <2>3, <2>5, <2>6, <3>1, <3>2, <3>3
  <2>7. CASE OnRow(t) # {}
    <3>1. PICK w \in OnRow(t) : ~req[w].bound
      BY <2>1, <2>7 DEF Binding
    <3>2. \A q \in OnRow(t) : ~req[q].bound => q = w
      BY <2>1, <3>1 DEF Binding
    <3>3. Charged(t) = N \cup {w} /\ w \notin N
      BY <1>2, <2>4, <3>1, <3>2 DEF Acts, Charged, OnRow
    <3>4. Cardinality(Charged(t)) = Cardinality(N) + 1
      BY <2>4, <3>3, FS_AddElement
    <3>5. \A q \in OnRow(t) : req[q].ref = req[w].ref /\ req[w].ref # None
      BY <2>1, <3>1 DEF Binding, OnRow
    <3>6. ActedOn(t) = {req[w].ref}
      BY <2>2, <3>1, <3>5 DEF ActedOn
    <3>7. Cardinality({req[w].ref}) = 1
      BY FS_Singleton
    <3>8. grant[t].ref # None
      BY <2>1, <3>1, <3>5 DEF Binding
    <3> HIDE DEF N
    <3> QED BY <1>1, <1>4, <2>5, <3>4, <3>6, <3>7, <3>8
  <2> QED BY <2>6, <2>7
<1> QED BY <1>1, <1>3, <1>4

\* What the acts cost is charged: an act without a row held by itself, the acts on
\* the one row by the request that bound the grant.
LEMMA InvActsWithinUses == BadgeTypeOK /\ BadgeInv => ActsWithinUses
<1> SUFFICES ASSUME BadgeTypeOK, BadgeInv, setting.limit # 0, NEW t \in Tokens
             PROVE  Cost(t) <= setting.limit
  BY DEF ActsWithinUses
<1>1. /\ Cardinality(Charged(t)) <= grant[t].uses /\ grant[t].uses <= setting.limit
      /\ grant[t].uses \in Nat /\ setting.limit \in Nat
      /\ IsFiniteSet(Charged(t)) /\ Cardinality(Charged(t)) \in Nat
      /\ setting.scope \in {"action", "subject"}
  BY ChargedFinite, SettingShape DEF BadgeInv, Counts, BadgeTypeOK, Grant, Scopes
<1>2. CASE setting.scope = "action"
  <2>1. Acts(t) \subseteq Charged(t)
    BY <1>2 DEF Acts, Charged, Paid, BadgeInv, ActionScoped
  <2>2. Cardinality(Acts(t)) <= Cardinality(Charged(t)) /\ Cardinality(Acts(t)) \in Nat
    BY <1>1, <2>1, FS_Subset, FS_CardinalityType
  <2> QED BY <1>1, <1>2, <2>2 DEF Cost
<1>3. CASE setting.scope = "subject"
  <2> DEFINE N == {q \in Acts(t) : req[q].ref = None}
  <2>1. N \subseteq Charged(t)
    BY DEF Acts, Charged, Paid, BadgeInv, Phases
  <2>2. IsFiniteSet(N) /\ Cardinality(N) <= Cardinality(Charged(t)) /\ Cardinality(N) \in Nat
    BY <1>1, <2>1, FS_Subset, FS_CardinalityType
  <2>3. Cost(t) = Cardinality(N) + Cardinality(ActedOn(t))
    BY <1>3 DEF Cost
  <2> HIDE DEF N
  <2>4. CASE ActedOn(t) = {}
    BY <1>1, <2>2, <2>3, <2>4, FS_EmptySet
  <2>5. CASE ActedOn(t) # {}
    <3>1. OnRow(t) # {}
      BY <2>5 DEF ActedOn, Acts, OnRow, Paid
    <3>2. PICK w \in OnRow(t) : ~req[w].bound
      BY <1>3, <3>1 DEF BadgeInv, Bindings, Binding
    <3>3. w \in Charged(t) /\ w \notin N
      BY <3>2 DEF OnRow, Charged, N
    <3>4. Cardinality(N \cup {w}) = Cardinality(N) + 1
      BY <2>2, <3>3, FS_AddElement
    <3>5. Cardinality(N \cup {w}) <= Cardinality(Charged(t))
      BY <1>1, <2>1, <3>3, FS_Subset
    <3>6. Cardinality(ActedOn(t)) <= 1 /\ Cardinality(ActedOn(t)) \in Nat
      <4>1. \A p, q \in OnRow(t) : req[p].ref = req[q].ref
        BY <1>3 DEF BadgeInv, Bindings, Binding
      <4>2. \A r \in ActedOn(t) : \E q \in OnRow(t) : r = req[q].ref
        BY DEF ActedOn, Acts, OnRow, Paid
      <4>3. PICK r : r \in ActedOn(t)
        BY <2>5
      <4>4. ActedOn(t) = {r}
        BY <4>1, <4>2, <4>3
      <4>5. Cardinality({r}) = 1
        BY FS_Singleton
      <4> QED BY <4>4, <4>5
    <3> QED BY <1>1, <2>2, <2>3, <3>4, <3>5, <3>6
  <2> QED BY <2>4, <2>5
<1> QED BY <1>1, <1>2, <1>3

LEMMA BadgeInvHolds == ASSUME Orderly PROVE Spec => []BadgeInv
<1>1. Init => BadgeTypeOK /\ BadgeInv
  BY InitTypeOK, InitInv
<1>2. BadgeTypeOK /\ BadgeInv /\ [Next]_vars => BadgeTypeOK' /\ BadgeInv'
  BY NextTypeOK, NextInv
<1> QED BY <1>1, <1>2, PTL DEF Spec

\* A grant covers no more acts than it was minted for, however its requests
\* overlap, miss, fail and give back (spendGrant, settleGrant, spendAndRun).
THEOREM GrantsCoverTheirUses == ASSUME Orderly PROVE Spec => []ActsWithinUses
<1>1. Spec => []BadgeTypeOK /\ []BadgeInv
  BY BadgeTypeCorrect, BadgeInvHolds
<1> QED BY <1>1, InvActsWithinUses, PTL

\* A subject-scoped grant acts on one row when its requests follow one another
\* (the refund unbinds no grant that acted).
THEOREM GrantsKeepTheirSubject == ASSUME Orderly PROVE Spec => []OneSubject
<1>1. Spec => []BadgeTypeOK /\ []BadgeInv
  BY BadgeTypeCorrect, BadgeInvHolds
<1> QED BY <1>1, InvOneSubject, PTL

\* The badge is spent by acts and not by looking: once its requests have ended and
\* none of them lost what it spent, its count and its binding are those of its acts.
THEOREM BadgesStayWhole == ASSUME Orderly PROVE Spec => []BadgeStaysWhole
<1>1. Spec => []BadgeTypeOK /\ []BadgeInv
  BY BadgeTypeCorrect, BadgeInvHolds
<1> QED BY <1>1, InvBadgeStaysWhole, PTL
=============================================================================
