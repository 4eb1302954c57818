-------------------------- MODULE MCLineLeadership --------------------------
(* Replicas that run one line. *)
EXTENDS LineLeadership
CONSTANTS r1, r2, r3
=============================================================================
