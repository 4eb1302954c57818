-------------------------- MODULE MCMachineAlarms --------------------------
(* Alarms and drops apart: they share nothing but the lanes. *)
EXTENDS MachineAlarms

MCSettings ==
       [bus : {"mqtt"}, raises : {2}, drops : {0}, takeovers : {1}, failures : {0}]
\union [bus : {"stream"}, raises : {1}, drops : {0}, takeovers : {1}, failures : {0}]
\union [bus : Buses, raises : {2}, drops : {0}, takeovers : {0}, failures : {1}]
\union [bus : {"mqtt"}, raises : {0}, drops : {2}, takeovers : {1}, failures : {0}]
\union [bus : {"stream"}, raises : {0}, drops : {1}, takeovers : {1}, failures : {0}]
\union [bus : {"mqtt"}, raises : {0}, drops : {2}, takeovers : {0}, failures : {1}]
\union [bus : {"mqtt"}, raises : {1}, drops : {0}, takeovers : {1}, failures : {1}]

\* one alarm, and one verb that fails
MCFailing == [bus : Buses, raises : {1}, drops : {0}, takeovers : {0}, failures : {1}]
=============================================================================
