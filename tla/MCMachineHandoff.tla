-------------------------- MODULE MCMachineHandoff --------------------------
(* Constants of the runs of MachineHandoff. *)
EXTENDS MachineHandoff

Base == [parks |-> 1, depth |-> 1, attempts |-> 1, unfit |-> {}, declined |-> {}, misread |-> {},
         busyTakeover |-> FALSE, faults |-> {}, maxFaults |-> 0]

\* One handoff and two faults of any kind; and two handoffs into a machine with
\* room for one job, with a takeover, or the second read on a wrong carrier, or the
\* first of a kind the machine does not serve; and a handoff the machine declines.
MCSettings ==
  {[Base EXCEPT !.attempts = 2, !.faults = FaultKinds, !.maxFaults = 2],
   [Base EXCEPT !.parks = 2, !.faults = {"crash"}, !.maxFaults = 1],
   [Base EXCEPT !.parks = 2, !.misread = {2}],
   [Base EXCEPT !.parks = 2, !.unfit = {1}],
   [Base EXCEPT !.declined = {1}, !.faults = {"crash", "timeout"}, !.maxFaults = 1]}
=============================================================================
