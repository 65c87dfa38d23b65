----------------------------- MODULE MCScheduler -----------------------------
(* The instance of Scheduler that sched_pair.cfg gives: two workers whose     *)
(* leases may expire while they dispatch, one event that no handler takes.    *)
EXTENDS Scheduler
==============================================================================
