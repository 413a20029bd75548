----------------------------- MODULE MCJobTicks -----------------------------
(***************************************************************************)
(* Two replicas and the two kinds of periodic job: a prune, tried at boot  *)
(* and then on a long period, and the alert check, on ticks only and with  *)
(* a lease just below its period.                                          *)
(***************************************************************************)
EXTENDS JobTicks

CONSTANTS r1, r2, prune, alert

MCReplicas == {r1, r2}
MCSlots == {1}
MCBootJobs == {prune}
MCJobs == {prune, alert}
MCWorkers == MCReplicas \X MCSlots
MCLease == [j \in MCJobs |-> 1]
MCMaxRun == MCLease
MCInterval == [j \in MCJobs |-> IF j = prune THEN 4 ELSE 2]
=============================================================================
