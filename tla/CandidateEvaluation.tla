------------------------- MODULE CandidateEvaluation -------------------------
(***************************************************************************)
(* The evaluation of one candidate, as the controller asks for it:         *)
(* evaluate_candidate() in evaluation/orchestrator.py decides which stages *)
(* run and what their results amount to, and QueueEvaluationBackend in     *)
(* broker/backend.py turns each stage into a job of the queue and waits    *)
(* for it.  The queue is the one that JobLifecycle specifies and JobQueue  *)
(* implements; workers are here as far as they move its jobs.              *)
(*                                                                         *)
(* The id of a job is a digest of what it asks for: an evaluation that is  *)
(* asked for again, by a controller that gave up or died and was started   *)
(* again, finds the jobs of the time before.                               *)
(***************************************************************************)
EXTENDS Naturals, Sequences

CONSTANTS MaxTries,   \* max_attempts of the job of each stage
          MaxCalls    \* how often the evaluation is asked for

(* evaluation is compile, correctness and benchmark in one process.        *)
Stages == {"source", "compile", "correctness", "benchmark", "evaluation", "profile"}

ASSUME TriesAssumption == MaxTries \in [Stages -> Nat \ {0}]

ASSUME CallsAssumption == MaxCalls \in Nat

VARIABLES request,  \* what is asked for, and the truth about the candidate
          life,     \* the jobs, as in JobLifecycle
          results,  \* the stored result of a job, or the error it died of
          call,     \* the call in progress
          answers   \* what the calls that came to an end have returned

vars == <<request, life, results, call, answers>>

Queue == INSTANCE JobLifecycle WITH Jobs <- Stages

Terminal == {"done", "dead", "cancelled"}

(* candidate is the first check the candidate does not stand, or good;     *)
(* incumbent says the same of the best one so far, timed beside it.        *)
(* hidden: on the cases of a hidden suite, which are never combined.       *)
(* profiled: run_profile, and the search policy selects the candidate.     *)
(* measured: a benchmark that passes reports a speedup, as that of every   *)
(* worker of this release does; a result without is not refused for it.    *)
Requests == [candidate : {"source", "compile", "correctness", "benchmark", "good"},
             incumbent : BOOLEAN, combined : BOOLEAN, hidden : BOOLEAN,
             measured : BOOLEAN, profiled : BOOLEAN, cancels : BOOLEAN]

NoResult == [status |-> "none", parts |-> {}, failed |-> "none"]

(* parts: the parts of a combined evaluation that passed, failed: the one  *)
(* that did not.                                                           *)
Result(status, parts, failed) == [status |-> status, parts |-> parts, failed |-> failed]

(* Between two calls, of which there were n.                               *)
Idle(n) == [n |-> n, pc |-> "idle", stage |-> "source", seen |-> "absent",
            cancelled |-> FALSE]

Init == /\ request \in Requests
        /\ ~request.combined => request.incumbent
        /\ request.hidden => ~request.combined
        /\ Queue!Init
        /\ results = [s \in Stages |-> NoResult]
        /\ call = Idle(0)
        /\ answers = <<>>

-----------------------------------------------------------------------------
(* The workers, on the jobs of the queue.                                  *)

Rows(s) == [phase : {"waiting", "running"} \cup Terminal,
            tries : 0 .. MaxTries[s], answer : 0 .. MaxTries[s]]

Turns(s, new) == life' = [life EXCEPT ![s] = new]

Pending == {s \in Stages : life[s].phase \in {"waiting", "running"}}

(* The parts of an evaluation.  A part is a function of the code and the   *)
(* cases, for what is told apart here: run again, it says the same again.  *)
SourcePasses == request.candidate # "source"

(* _compile(): the extension builds and loads.                             *)
Compiles == request.candidate # "compile"

(* _correctness(): its outputs match the reference on every case.          *)
IsCorrect == request.candidate # "correctness"

(* _benchmark(): the outputs of the timed launches match as well, those of *)
(* the incumbent, which is timed in turns with the candidate, included.    *)
IsTimed == request.candidate # "benchmark" /\ request.incumbent

(* _candidate_evaluation(): the parts in order, until one fails.           *)
Checked ==
  CASE ~Compiles -> Result("fail", {}, "compile")
    [] Compiles /\ ~IsCorrect -> Result("fail", {"compile"}, "correctness")
    [] Compiles /\ IsCorrect /\ ~IsTimed
         -> Result("fail", {"compile", "correctness"}, "benchmark")
    [] OTHER -> Result("pass", {"compile", "correctness", "benchmark"}, "none")

Verdict(holds) == {Result(IF holds THEN "pass" ELSE "fail", {}, "none")}

(* What a stage finds out if nothing goes wrong with it.  The profiler may *)
(* fail with a candidate that stood everything else.                       *)
Truths(s) ==
  CASE s = "source" -> Verdict(SourcePasses)
    [] s = "compile" -> Verdict(Compiles)
    [] s = "correctness" -> Verdict(IsCorrect)
    [] s = "benchmark" -> Verdict(IsTimed)
    [] s = "evaluation" -> {Checked}
    [] s = "profile" -> {Result(z, {}, "none") : z \in {"pass", "fail", "unavailable"}}

(* Nothing at all is known of the candidate; or everything is, and then    *)
(* the process failed on its way out.                                      *)
Troubles(s) ==
  {Result(z, {}, "none") : z \in {"error", "timeout"}}
    \cup (IF s = "evaluation" /\ Checked.status = "pass"
          THEN {Result("error", Checked.parts, "none")} ELSE {})

(* A source check starts no process.  Retryable trouble is delivered by    *)
(* the last try only; an error that is no use retrying by any.             *)
Deliverable(s) ==
  Truths(s)
    \cup (IF s = "source" THEN {}
          ELSE IF life[s].tries = MaxTries[s] THEN Troubles(s)
          ELSE {Result("error", {}, "none")})

Start(s) == /\ \E new \in Rows(s) : Queue!Start(s, life[s], new) /\ Turns(s, new)
            /\ UNCHANGED <<request, results, call, answers>>

Deliver(s) == /\ \E new \in Rows(s) : Queue!Answer(life[s], new) /\ Turns(s, new)
              /\ \E r \in Deliverable(s) : results' = [results EXCEPT ![s] = r]
              /\ UNCHANGED <<request, call, answers>>

Retried(s) == /\ \E new \in Rows(s) : Queue!Retry(s, life[s], new) /\ Turns(s, new)
              /\ UNCHANGED results

Buried(s, error) == /\ \E new \in Rows(s) : Queue!GiveUp(life[s], new) /\ Turns(s, new)
                    /\ results' = [results EXCEPT ![s] = Result(error, {}, "none")]

(* A dead letter: of a payload that was refused, of a device that is sick, *)
(* or, from older workers, of a timeout on the last try.                   *)
Fail(s) == /\ \/ Retried(s)
              \/ Buried(s, "other")
              \/ s # "source" /\ life[s].tries = MaxTries[s] /\ Buried(s, "StageTimeout")
           /\ UNCHANGED <<request, call, answers>>

-----------------------------------------------------------------------------
(* evaluate_candidate(): what a result leads to.                           *)

Infrastructure(r) == r.status \in {"error", "timeout", "unavailable"}

(* Mutant: a failure is the candidate's.                                   *)
FailureBlind(r) == "INVALID_CANDIDATE"

(* Mutant: the status of the infrastructure is returned for the overall one.*)
FailureStatus(r) == IF Infrastructure(r) THEN "RETRY" ELSE "INVALID_CANDIDATE"

(* _failure_result().                                                      *)
Failure(r) == IF Infrastructure(r) THEN "INFRA_RETRY" ELSE "INVALID_CANDIDATE"

(* The part of a combined result that stands for its failure.  Without     *)
(* parts the whole result stands for the compile stage.                    *)
Part(r, part) == Result(CASE part \in r.parts -> "pass"
                          [] part = r.failed -> "fail"
                          [] OTHER -> r.status, {}, "none")

FailedPart(r) == IF r.failed = "correctness" THEN "correctness"
                 ELSE IF "compile" \notin r.parts THEN "compile" ELSE "benchmark"

(* A combined result of the infrastructure is judged by the part it is     *)
(* attributed to: if all parts passed, by one that is no failure at all.   *)
CombinedFailure(r) == Failure(Part(r, FailedPart(r)))

(* The stage that follows s once it passed; "none" ends the evaluation.    *)
Following(s) ==
  CASE s = "source" -> IF request.combined THEN "evaluation" ELSE "compile"
    [] s = "compile" -> "correctness"
    [] s = "correctness" -> "benchmark"
    [] s \in {"benchmark", "evaluation"} -> IF request.profiled THEN "profile" ELSE "none"
    [] s = "profile" -> "none"

Ends(answer) == /\ answers' = Append(answers, answer)
                /\ call' = Idle(call.n)
                /\ UNCHANGED <<request, life, results>>

(* All stages have passed.  If the benchmark reports no speedup, that is a *)
(* failure of the infrastructure and no verdict.                           *)
Complete == IF request.measured THEN "VALID" ELSE "INFRA_RETRY"

(* The stage has returned r.  A profile has no say.                        *)
Proceeds(s, r) ==
  IF r.status # "pass" /\ s # "profile"
  THEN Ends(IF s = "evaluation" THEN CombinedFailure(r) ELSE Failure(r))
  ELSE IF Following(s) = "none" THEN Ends(Complete)
  ELSE /\ call' = [call EXCEPT !.pc = "asking", !.stage = Following(s)]
       /\ UNCHANGED <<request, life, results, answers>>

-----------------------------------------------------------------------------
(* QueueEvaluationBackend._wait(), for call.stage.                         *)

At(pc) == call.pc = pc

(* Begin, and a resume after an exception or a crash.                      *)
Begin == /\ At("idle") /\ call.n < MaxCalls
         /\ call' = [call EXCEPT !.pc = "asking", !.n = @ + 1]
         /\ UNCHANGED <<request, life, results, answers>>

(* Mutant: a job that was given up is submitted once more.                 *)
EnqueueAnew ==
  /\ At("asking")
  /\ life' = IF life[call.stage].phase \in {"absent", "dead", "cancelled"}
             THEN [life EXCEPT ![call.stage] =
                     [phase |-> "waiting", tries |-> 0, answer |-> 0]]
             ELSE life
  /\ call' = [call EXCEPT !.pc = "stored", !.seen = life'[call.stage].phase]
  /\ UNCHANGED <<request, results, answers>>

(* enqueue() returns the row that has the id, new or old.                  *)
Enqueue ==
  /\ At("asking")
  /\ \/ \E new \in Rows(call.stage) :
          Queue!Submit(life[call.stage], new) /\ Turns(call.stage, new)
     \/ life[call.stage].phase # "absent" /\ UNCHANGED life
  /\ call' = [call EXCEPT !.pc = "stored", !.seen = life'[call.stage].phase]
  /\ UNCHANGED <<request, results, answers>>

(* The error of a dead job; that of a hidden one is redacted to another.   *)
TimedOut(s) == /\ results[s].status = "StageTimeout"
               /\ ~request.hidden \/ s = "source"

(* _terminal_result(), of the row as it was read.                          *)
Conclude ==
  /\ call.pc \in {"stored", "checked"} /\ call.seen \in Terminal
  /\ LET r == results[call.stage] IN
     CASE call.seen = "done" -> Proceeds(call.stage, r)
       [] call.seen = "dead" /\ TimedOut(call.stage)
            -> Proceeds(call.stage, Result("timeout", {}, "none"))
       [] call.seen = "dead" /\ ~TimedOut(call.stage) -> Ends("QueueJobFailed")
       [] call.seen = "cancelled" -> Ends("QueueJobCancelled")

(* A result that fails the checks of _parse_result(): it comes from a      *)
(* worker of another release, or its evidence is no longer what it was.    *)
Mistrust == /\ \/ call.pc \in {"stored", "checked"} /\ call.seen = "done"
               \/ At("late") /\ life[call.stage].phase = "done"
            /\ Ends("QueueProtocolError")

(* A lease that ran out is released, that of the last try with its job.    *)
Sweep == /\ At("stored") /\ call.seen \notin Terminal
         /\ call' = [call EXCEPT !.pc = "swept"]
         /\ \/ UNCHANGED <<life, results>>
            \/ \E s \in Pending : \/ Retried(s)
                                  \/ life[s].tries = MaxTries[s] /\ Buried(s, "other")
         /\ UNCHANGED <<request, answers>>

Check == /\ At("swept")
         /\ call' = [call EXCEPT !.pc = "checked", !.seen = life[call.stage].phase]
         /\ UNCHANGED <<request, life, results, answers>>

(* A sleep, and the next look.                                             *)
Refresh == /\ At("checked") /\ call.seen \notin Terminal
           /\ call' = [call EXCEPT !.pc = "stored", !.seen = life[call.stage].phase]
           /\ UNCHANGED <<request, life, results, answers>>

(* The deadline has passed; a job that waits may be cancelled ...          *)
Deadline ==
  /\ At("checked") /\ call.seen \notin Terminal
  /\ \/ /\ request.cancels
        /\ \E new \in Rows(call.stage) :
             Queue!Withdraw(life[call.stage], new) /\ Turns(call.stage, new)
        /\ call' = [call EXCEPT !.pc = "late", !.cancelled = TRUE]
     \/ /\ ~request.cancels \/ life[call.stage].phase # "waiting"
        /\ UNCHANGED life
        /\ call' = [call EXCEPT !.pc = "late"]
  /\ UNCHANGED <<request, results, answers>>

(* Mutant: after the deadline nothing more is read.                        *)
LatestBlind == At("late") /\ Ends("QueueWaitTimeout")

(* ... and an answer that came in the meantime is taken all the same.      *)
Latest == /\ At("late")
          /\ IF life[call.stage].phase = "done"
             THEN Proceeds(call.stage, results[call.stage])
             ELSE Ends(IF call.cancelled THEN "QueueWaitCancelled" ELSE "QueueWaitTimeout")

(* The controller dies.                                                    *)
Crash == /\ ~At("idle")
         /\ call' = Idle(call.n)
         /\ UNCHANGED <<request, life, results, answers>>

-----------------------------------------------------------------------------
WorkerStep(s) == Start(s) \/ Deliver(s) \/ Fail(s)

WaitStep == \/ Enqueue \/ Conclude \/ Mistrust \/ Sweep \/ Check \/ Refresh
            \/ Deadline \/ Latest

Next == Begin \/ WaitStep \/ Crash \/ \E s \in Pending : WorkerStep(s)

Spec == Init /\ [][Next]_vars

-----------------------------------------------------------------------------
Evaluated == {"VALID", "INVALID_CANDIDATE", "INFRA_RETRY"}

Stuck == {"QueueJobFailed", "QueueJobCancelled"}

TypeOK ==
  /\ request \in Requests
  /\ \A s \in Stages :
       /\ life[s] \in Rows(s) \cup [phase : {"absent"}, tries : {0}, answer : {0}]
       /\ life[s].phase \in {"done", "dead"} <=> results[s] # NoResult
       /\ results[s] \in [status : {"none", "pass", "fail", "error", "timeout",
                                   "unavailable", "StageTimeout", "other"},
                         parts : SUBSET {"compile", "correctness", "benchmark"},
                         failed : {"none", "compile", "correctness", "benchmark"}]
  /\ call.pc \in {"idle", "asking", "stored", "swept", "checked", "late"}
  /\ call.n \in 0 .. MaxCalls /\ call.stage \in Stages
  /\ Len(answers) <= call.n
  /\ \A i \in DOMAIN answers :
       answers[i] \in Evaluated \cup Stuck \cup
                     {"QueueWaitTimeout", "QueueWaitCancelled", "QueueProtocolError"}

(* A candidate is valid only if it stands every check and was timed, and   *)
(* invalid only for a check that it, or the incumbent timed beside it,     *)
(* does not stand, whatever timed out, died or was asked for again on the  *)
(* way.  The one exception is that of CombinedFailure: a process that      *)
(* passed it and then crashed on its way out, in every try.                *)
BlameIsEarned ==
  \A i \in DOMAIN answers :
    /\ answers[i] = "VALID" => /\ request.candidate = "good" /\ request.incumbent
                               /\ request.measured
    /\ answers[i] = "INVALID_CANDIDATE" =>
         \/ request.candidate # "good" \/ ~request.incumbent
         \/ /\ results["evaluation"].status = "error"
            /\ results["evaluation"].parts # {}

(* Calls of one evaluation do not contradict each other: what was answered *)
(* once is answered again, unless its evidence was lost; a failed job and  *)
(* a cancelled one stay so, and no later call gets past them.              *)
AnswersAgree ==
  \A i, j \in DOMAIN answers : i < j =>
    /\ answers[i] \in Evaluated \cup Stuck
         => answers[j] \in {answers[i], "QueueProtocolError"}
    /\ answers[i] = "QueueWaitCancelled"
         => answers[j] \in {"QueueJobCancelled", "QueueProtocolError"}

(* A wait does not end in a timeout if the answer is there when it ends,   *)
(* and one that says it cancelled the job leaves it cancelled.             *)
CompletionWins ==
  [][answers' # answers =>
       LET answer == answers'[Len(answers')]
           phase == life[call.stage].phase
       IN /\ answer = "QueueWaitTimeout" => phase # "done"
          /\ answer = "QueueWaitCancelled" => phase = "cancelled"]_vars
=============================================================================
