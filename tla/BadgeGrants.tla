---------------------------- MODULE BadgeGrants ----------------------------
(***************************************************************************)
(* The acting grant a badge scan mints, and the requests that spend it     *)
(* (services/iam, api/scan-codes, api/escalations/roster-action.ts,        *)
(* routes/escalations/acting.ts).                                          *)
(*                                                                         *)
(* A scan reads the grant first, spends a use just before it writes, and   *)
(* gives the use back when nothing was written.  A roster action spends    *)
(* and gives back likewise; the routes that work on a row spend up front   *)
(* and give nothing back.  Each of these statements is one UPDATE; between *)
(* them other requests run, the grant expires or is revoked, its person is *)
(* deactivated, or the request fails.                                      *)
(***************************************************************************)
EXTENDS Naturals, FiniteSets

CONSTANTS
  Tokens,   \* the grants that are minted
  Requests, \* each is made once
  Subjects, \* rows a station may hold
  None,     \* no row held, or no grant bound
  Settings  \* what a behaviour has, of Setting below

Scopes == {"action", "subject"}
Kinds == {"scan", "roster", "route"}

\* The policy grants are minted under (limit 0 for no limit), and whether
\* requests with one grant overlap.
Setting == [scope : Scopes, limit : Nat, overlap : BOOLEAN]

ASSUME BadgeAssumption ==
  /\ Settings \subseteq Setting
  /\ None \notin Subjects \union Tokens
  /\ IsFiniteSet(Requests)

VARIABLES
  setting, \* the setting of this behaviour
  grant,   \* lt_ephemeral_credentials: use_count, bound_ref and what became of the row
  req,     \* the requests that carry a grant
  active   \* whether the badged person is an active user

vars == <<setting, grant, req, active>>

Refs == Subjects \union {None}

\* `bound`: the grant was bound when it was read.  `binds`: it was when the use
\* was spent.  `landed`: the request wrote.  `lost`: it did not, and nobody gives
\* back what it spent.
NewRequest == [kind |-> "scan", pc |-> "new", token |-> None, ref |-> None,
               bound |-> FALSE, binds |-> FALSE, landed |-> FALSE, lost |-> FALSE]

Init ==
  /\ setting \in Settings
  /\ grant = [t \in Tokens |-> [row |-> "none", uses |-> 0, ref |-> None]]
  /\ req = [q \in Requests |-> NewRequest]
  /\ active = TRUE
-----------------------------------------------------------------------------
(* The statements on a grant *)

\* Variant: the limit counts one use too many.
UsesLeftOneMore(t) == setting.limit = 0 \/ grant[t].uses <= setting.limit
UsesLeft(t) == setting.limit = 0 \/ grant[t].uses < setting.limit

\* PEEK_EPHEMERAL: a bound grant is live whatever its count.
Readable(t) == grant[t].row = "live" /\ (grant[t].ref # None \/ UsesLeft(t))

\* CONSUME_EPHEMERAL: a bound grant acts on its own row, and on no other.
Spendable(t, ref) ==
  /\ grant[t].row = "live"
  /\ IF grant[t].ref # None THEN grant[t].ref = ref ELSE UsesLeft(t)

Spent(t, ref) ==
  IF grant[t].ref # None THEN grant[t]
  ELSE [grant[t] EXCEPT !.uses = @ + 1,
                        !.ref = IF setting.scope = "subject" THEN ref ELSE None]

\* REFUND_EPHEMERAL; a row deleted meanwhile is not found.
Refunded(t, unbind) ==
  IF grant[t].row = "gone" THEN grant[t]
  ELSE [grant[t] EXCEPT !.uses = IF @ = 0 THEN 0 ELSE @ - 1,
                        !.ref = IF unbind THEN None ELSE @]

\* A badge is scanned: a new grant is stored, and the one the station held
\* before is revoked (DELETE_EPHEMERAL) when the device names it and the
\* deletion works.
Mint(t) ==
  /\ grant[t].row = "none" /\ active
  /\ \E revoked \in SUBSET {p \in Tokens \ {t} : grant[p].row # "none"} :
       /\ Cardinality(revoked) <= 1
       /\ grant' = [p \in Tokens |->
            IF p = t THEN [grant[t] EXCEPT !.row = "live"]
            ELSE IF p \in revoked THEN [grant[p] EXCEPT !.row = "gone"] ELSE grant[p]]
  /\ UNCHANGED <<setting, req, active>>

\* The grant's time is over; CLEANUP_EXPIRED_EPHEMERAL deletes it later.
Expire(t) ==
  /\ \/ grant[t].row = "live" /\ grant' = [grant EXCEPT ![t].row = "expired"]
     \/ grant[t].row = "expired" /\ grant' = [grant EXCEPT ![t].row = "gone"]
  /\ UNCHANGED <<setting, req, active>>

Deactivate ==
  /\ active /\ active' = FALSE
  /\ UNCHANGED <<setting, grant, req>>
-----------------------------------------------------------------------------
(* A request *)

InFlight(q) == req[q].pc \notin {"new", "ended"}

Go(q, pc) == req' = [req EXCEPT ![q].pc = pc]

\* peekActingAuth, for a scan with the row the station holds and for a roster
\* action; a route spends without reading.
Begin(q, kind, t, ref) ==
  /\ req[q].pc = "new" /\ grant[t].row # "none"
  /\ setting.overlap \/ \A o \in Requests : ~(InFlight(o) /\ req[o].token = t)
  /\ kind # "scan" => ref = None
  /\ req' = [req EXCEPT ![q] = [@ EXCEPT
       !.kind = kind, !.token = t, !.ref = ref,
       !.bound = kind # "route" /\ grant[t].ref # None,
       !.pc = IF kind = "route" \/ (Readable(t) /\ active) THEN "spend" ELSE "ended"]]
  /\ UNCHANGED <<setting, grant, active>>

\* A request that shows, holds or refuses ends without a write.
Look(q) ==
  /\ req[q].pc = "spend" /\ req[q].kind # "route"
  /\ Go(q, "ended")
  /\ UNCHANGED <<setting, grant, active>>

\* spendGrant and consumeActingGrant.  The person is looked up after the use is
\* spent: one who is no longer active costs a use and writes nothing.
Spend(q) ==
  LET t == req[q].token IN
  /\ req[q].pc = "spend"
  /\ \/ /\ Spendable(t, req[q].ref)
        /\ grant' = [grant EXCEPT ![t] = Spent(t, req[q].ref)]
        /\ req' = [req EXCEPT ![q] = [@ EXCEPT
             !.binds = Spent(t, req[q].ref).ref # None, !.lost = ~active,
             !.pc = IF active THEN "act" ELSE "ended"]]
     \/ /\ ~Spendable(t, req[q].ref)
        /\ Go(q, "ended") /\ UNCHANGED grant
  /\ UNCHANGED <<setting, active>>

\* The request's write lands, or misses, is refused, or was made before.
Act(q) ==
  /\ req[q].pc = "act"
  /\ \E lands \in BOOLEAN : req' = [req EXCEPT ![q].landed = lands, ![q].pc = "settle"]
  /\ UNCHANGED <<setting, grant, active>>

\* Variant: every spend is given back, also one that landed.
SettleAlways(q) ==
  /\ req[q].pc = "settle"
  /\ grant' = [grant EXCEPT ![req[q].token] = Refunded(req[q].token, FALSE)]
  /\ Go(q, "ended")
  /\ UNCHANGED <<setting, active>>
\* Variant: a scan gives back what it spent, though the grant was bound before.
GivesBackAnyway(q) == ~req[q].landed /\ req[q].kind # "route"
\* Variant: a write that missed is charged.
GivesBackNothing(q) == FALSE
\* settleGrant and spendAndRun: a scan that read the grant as bound gives nothing
\* back, for its spend cost nothing; a roster action always gives back.
GivesBack(q) ==
  /\ ~req[q].landed
  /\ req[q].kind = "roster" \/ (req[q].kind = "scan" /\ ~req[q].bound)

Settle(q) ==
  LET t == req[q].token IN
  /\ req[q].pc = "settle"
  /\ grant' = IF GivesBack(q)
               THEN [grant EXCEPT ![t] = Refunded(t, req[q].kind = "scan" /\ req[q].binds)]
               ELSE grant
  /\ req' = [req EXCEPT ![q].pc = "ended",
                        ![q].lost = req[q].kind = "route" /\ ~req[q].landed]
  /\ UNCHANGED <<setting, active>>

\* The request throws (500) or its server stops.
Fail(q) ==
  /\ InFlight(q)
  /\ req' = [req EXCEPT ![q].pc = "ended",
                        ![q].lost = req[q].pc # "spend" /\ ~req[q].landed]
  /\ UNCHANGED <<setting, grant, active>>
-----------------------------------------------------------------------------
Next ==
  \/ \E t \in Tokens : Mint(t) \/ Expire(t)
  \/ Deactivate
  \/ \E q \in Requests :
       \/ \E kind \in Kinds, t \in Tokens, ref \in Refs : Begin(q, kind, t, ref)
       \/ Look(q) \/ Spend(q) \/ Act(q) \/ Settle(q) \/ Fail(q)

Spec == Init /\ [][Next]_vars
-----------------------------------------------------------------------------
(* Properties *)

Grant == [row : {"none", "live", "expired", "gone"}, uses : Nat, ref : Refs]

Request == [kind : Kinds, pc : {"new", "spend", "act", "settle", "ended"},
            token : Tokens \union {None}, ref : Refs, bound : BOOLEAN, binds : BOOLEAN,
            landed : BOOLEAN, lost : BOOLEAN]

\* Types; a grant is counted no further than its limit.
BadgeTypeOK ==
  /\ setting \in Settings
  /\ grant \in [Tokens -> Grant]
  /\ req \in [Requests -> Request]
  /\ active \in BOOLEAN
  /\ setting.limit = 0 \/ \A t \in Tokens : grant[t].uses <= setting.limit

Acts(t) == {q \in Requests : req[q].token = t /\ req[q].landed}
ActedOn(t) == {req[q].ref : q \in Acts(t)} \ {None}

\* What the acts of a grant should cost: under "subject" the acts on one row are
\* one use together, an act without a row held is one of its own.
Cost(t) ==
  IF setting.scope = "subject"
  THEN Cardinality({q \in Acts(t) : req[q].ref = None}) + Cardinality(ActedOn(t))
  ELSE Cardinality(Acts(t))

\* A grant covers no more acts than it was minted for, whatever overlaps, is given
\* back, expires or fails (docs/scan-codes.md:589, services/iam/sql.ts:30).
ActsWithinUses ==
  setting.limit # 0 => \A t \in Tokens : Cost(t) <= setting.limit

\* The requests with the grant have ended, and none of them lost what it spent.
BooksClosed(t) == \A q \in Requests : req[q].token = t => ~InFlight(q) /\ ~req[q].lost

\* The badge is spent by acts, not by looking: with the books closed, a grant that
\* is there counts what its acts cost, and is bound when it acted on a row and only
\* then (grant.ts:13-18 and settleGrant).
BadgeStaysWhole ==
  \A t \in Tokens : BooksClosed(t) /\ grant[t].row # "gone" =>
    /\ grant[t].uses = Cost(t)
    /\ grant[t].ref # None <=> (setting.scope = "subject" /\ ActedOn(t) # {})

\* A subject-scoped grant acts on one row only (docs/scan-codes.md:590).
OneSubject ==
  setting.scope = "subject" => \A t \in Tokens : Cardinality(ActedOn(t)) <= 1
=============================================================================
