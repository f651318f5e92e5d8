----------------------------- MODULE MCJobQueue -----------------------------
(* Two jobs of different priority and budget, two workers, two threads with *)
(* a call in progress.                                                      *)
EXTENDS JobQueue, TLC

CONSTANTS w1, w2, c1, c2

MCJobs == {1, 2}
MCWorkers == {w1, w2}
MCCallers == {c1, c2}
MCMaxAttempts == [j \in MCJobs |-> IF j = 1 THEN 2 ELSE 1]
MCPriority == [j \in MCJobs |-> j]
MCRetryDelays == {1}

Symmetry == Permutations(MCWorkers) \cup Permutations(MCCallers)
=============================================================================
