-------------------------- MODULE MCStageExecution --------------------------
(* A worker or the baseline command, and a process that starts, want one   *)
(* device.                                                                 *)
EXTENDS StageExecution

CONSTANTS e1, e2

MCCalls == {e1, e2}
MCKinds == [e \in MCCalls |-> IF e = e1 THEN {"stage", "profile", "baseline"} ELSE {"health"}]
=============================================================================
