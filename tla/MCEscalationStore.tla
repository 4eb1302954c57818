------------------------- MODULE MCEscalationStore -------------------------
(* Finite instances of EscalationStore: keyed rows and a legacy one, two    *)
(* users.  k1 and s1 belong to one workflow, k2 to another.                 *)
EXTENDS EscalationStore, TLC
CONSTANTS k1, k2, s1, ann, bob, qa, qb
MCShape == [r \in Rows |-> IF r = s1 THEN "signal" ELSE "key"]
MCFlow == [r \in Rows |-> IF r = k2 THEN "w2" ELSE "w1"]
=============================================================================
