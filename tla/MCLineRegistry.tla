--------------------------- MODULE MCLineRegistry ---------------------------
(* Two replicas and a client that edits the line; one replica's code declares it. *)
EXTENDS LineRegistry, TLC
CONSTANTS r1, r2, h1, h2, ed, d1, d2
MCCodeLine == (r1 :> d1) @@ [r \in Replicas \ {r1} |-> NoDef]
=============================================================================
