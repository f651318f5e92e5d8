----------------------- MODULE MCCandidateEvaluation -----------------------
(* An evaluation that is asked for twice; its jobs are tried twice, but a  *)
(* profile once.                                                           *)
EXTENDS CandidateEvaluation

MCMaxTries == [s \in Stages |-> IF s = "profile" THEN 1 ELSE 2]
=============================================================================
