------------------------------ MODULE MCFileCopy ------------------------------
(***************************************************************************)
(* Workers for TLC's instances of FileCopy.  main.c gives all of them two    *)
(* restarts; smaller budgets are exhausted with fewer files.                 *)
(***************************************************************************)
EXTENDS FileCopy

WorkerDesc(max) ==
  [max_restarts |-> max, max_watchdog_restarts |-> 1, on_exhausted |-> "UNAVAILABLE",
   linked_subsystem |-> SUBSYSTEM_NONE, restart |-> TRUE, decide |-> {"NONE"}]

Empty == <<>>
TwoWorkers == << WorkerDesc(1), WorkerDesc(0) >>
OneWorker  == << WorkerDesc(2) >>
=============================================================================
