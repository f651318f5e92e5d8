-------------------------- MODULE MCWorkerService --------------------------
(* Workers at work on one job that may be tried twice; with one worker, a  *)
(* private job is retried by the process that was restarted.               *)
EXTENDS WorkerService, TLC

CONSTANTS w1, w2

MCWorkers == {w1, w2}
MCWorker == {w1}
MCJobs == {1}
MCMaxAttempts == [j \in MCJobs |-> 2]
MCPriority == [j \in MCJobs |-> 0]
MCNoJobs == {}

Symmetry == Permutations(MCWorkers)
=============================================================================
