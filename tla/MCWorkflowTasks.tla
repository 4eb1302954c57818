-------------------------- MODULE MCWorkflowTasks --------------------------
(* Constants of the runs of WorkflowTasks. *)
EXTENDS WorkflowTasks

Base == [parent |-> TRUE, ways |-> {"rerun"}, outcomes |-> {"return", "escalation"},
         findings |-> {}, rows |-> 2, losses |-> 0, crashes |-> 0]

\* Work on its own or under a parent, answered by re-runs, with lost answers or
\* without; and work under a parent answered by triages, or by both,
\* and work on its own triaged in bulk.
MCSettings ==
  {[Base EXCEPT !.parent = p, !.outcomes = OutcomeKinds, !.rows = 3, !.losses = n, !.crashes = 1] :
     p \in BOOLEAN, n \in {0, 1}}
    \union {[Base EXCEPT !.parent = p, !.ways = {"triage"}, !.findings = {"direct", "review"},
                         !.crashes = 1] : p \in BOOLEAN}
    \union {[Base EXCEPT !.ways = {"rerun", "triage"}, !.findings = {"direct", "throw"}],
            [Base EXCEPT !.parent = FALSE, !.ways = {"bulk"}, !.findings = {"direct", "review"}]}

\* Work under a parent whose rows are triaged in bulk.
MCBulkSettings ==
  {[Base EXCEPT !.ways = {"bulk"}, !.findings = {"direct", "review"}]}
=============================================================================
