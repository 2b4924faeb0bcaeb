----------------------------- MODULE MCCronJobs -----------------------------
(* Instances of CronJobs.                                                  *)
EXTENDS CronJobs

MCJobs == 1..2
=============================================================================
