-------------------------- MODULE MCTaskController --------------------------
(* Sets of evaluation outcomes for the runs of TaskController.             *)
EXTENDS TaskController

Failing(stages, infra) ==
  [stage : stages, infra : infra, speed : {0}, paired : {"absent"}]

Measured(speeds, paired) ==
  [stage : {"none"}, infra : {FALSE}, speed : speeds, paired : paired]

(* Every way to fail, with the task going on or not, and candidates too    *)
(* close and far enough to tell apart.                                     *)
AllOutcomes == Failing({"source", "compile", "correctness", "benchmark"}, {FALSE})
               \cup Failing({"compile", "none"}, {TRUE})
               \cup Measured(1..3, {"absent"})

(* Two ties in a row can add up to a new best, or paired runs say so.      *)
PairedOutcomes == Failing({"correctness"}, {FALSE})
                  \cup Measured(1..3, {"absent", "NEW_BEST", "TIE"})

SmoothOutcomes == Failing({"compile"}, {FALSE}) \cup Measured({1, 3}, {"absent"})

BenchmarkOutcomes == Failing({"benchmark"}, {FALSE})

InfraOutcomes == Failing({"compile"}, {TRUE})

AllFinals == {v \in FinalOutcome : (v.measured => v.correct) /\ (v.verified => v.measured)}
=============================================================================
