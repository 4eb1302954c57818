-------------------------- MODULE MCEscalationApi --------------------------
(* Finite instances of EscalationApi.  A configuration picks the rows, one  *)
(* per shape, the request slots and the verbs; the people stay the same:    *)
(* ann works both queues, bob only what is assigned to him in qa, sue is a  *)
(* global administrator.                                                    *)
EXTENDS EscalationApi, TLC
CONSTANTS k1, k2, s1, y1, d1, e1, n1, ann, bob, sue, qa, qb, c1, c2, c3
ShapeOf == k1 :> "key" @@ k2 :> "key" @@ s1 :> "signal" @@ y1 :> "yaml"
           @@ d1 :> "routed" @@ e1 :> "rerun" @@ n1 :> "note"
MCShape == [r \in Rows |-> ShapeOf[r]]
MCFlow == [r \in Rows |-> IF r \in {s1, k2} THEN "w1" ELSE "w2"]
CallerOf == c1 :> ann @@ c2 :> bob @@ c3 :> sue
MCCaller == [c \in Calls |-> CallerOf[c]]
MCGlobal == {sue} \cap Users
MCAdminOf == [u \in Users |-> IF u = ann THEN {qa, qb} \cap Roles ELSE {}]
MCScope == [u \in Users |-> [q \in Roles |->
  IF u = ann THEN "all" ELSE IF u = bob /\ q = qa THEN "self" ELSE "none"]]
\* everybody works every queue
MCScopeAll == [u \in Users |-> [q \in Roles |-> "all"]]
MCChain == {qa} \X ({qb} \cap Roles)
=============================================================================
