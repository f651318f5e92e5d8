--------------------------- MODULE TaskController ---------------------------
(***************************************************************************)
(* ExperimentController.run_task in orchestration/controller.py: one task  *)
(* taken through its rounds of model generation and its final evaluation,  *)
(* by a process that may be killed between any two durable writes and is   *)
(* started again.                                                          *)
(*                                                                         *)
(* What survives is a SQLite database (storage/state_store.py) and a tree  *)
(* of immutable files.  No transaction spans the two: a file is put first  *)
(* and registered in the database afterwards, and the state that stands    *)
(* for it moves in a third step.  On every resume run_task replays all     *)
(* rounds from the first, skipping the writes whose effect it finds.       *)
(*                                                                         *)
(* One action is one durable write with the reads before it, so a crash    *)
(* can fall between any two writes.  A write that finds its effect already *)
(* there changes nothing and is not modelled as a step.                    *)
(***************************************************************************)
EXTENDS Integers, FiniteSets

CONSTANTS Rounds,           \* rounds_per_task, the number of model generations
          Outcomes,         \* what evaluate_candidate may return
          FinalOutcomes,    \* what it may return for the hidden cases
          FullProfile,      \* profile.run_for_final_best
          ProfileRequired,  \* profile_coverage_required
          MaxFailures       \* bound of the model: crashes and transport errors

Stages    == {"model", "source", "compile", "correctness", "benchmark", "none"}
Decisions == {"INVALID", "INITIAL_BEST", "NEW_BEST", "TIE", "REGRESSION"}
Speeds    == 0..3

(* evaluation_result.json: the first stage that did not pass, whether the  *)
(* infrastructure is to blame, the speedup measured (0: none) and the      *)
(* paired comparison with the incumbent best, when one was made.  Geomean  *)
(* and minimum speedup are one number here.                                *)
Outcome == [stage  : Stages,
            infra  : BOOLEAN,
            speed  : Speeds,
            paired : {"absent", "NEW_BEST", "TIE", "REGRESSION"}]

FinalOutcome == [infra : BOOLEAN, correct : BOOLEAN,
                 measured : BOOLEAN, verified : BOOLEAN]

ASSUME RoundsAssumption == Rounds \in Nat \ {0}
ASSUME OutcomesAssumption ==
  /\ Outcomes \subseteq Outcome
  /\ \A o \in Outcomes : /\ o.stage # "model"
                         /\ o.speed > 0 => o.stage = "none" /\ ~o.infra
                         /\ o.paired # "absent" => o.speed > 0
ASSUME FinalAssumption == /\ FinalOutcomes \subseteq FinalOutcome
                          /\ {FullProfile, ProfileRequired} \subseteq BOOLEAN
                          /\ MaxFailures \in Nat

VARIABLES
  task,        \* tasks.state
  best,        \* tasks.best_candidate_id: the round of the candidate, or 0
  state,       \* rounds.state, per round
  scores,      \* candidates and candidate_scores, per round
  registered,  \* the artifacts table
  files,       \* the files on disk
  outcome,     \* the content of evaluation_result.json, per round
  feedback,    \* the content of feedback.json, per round
  verdict,     \* the content of final_evaluation.json
  result,      \* the content of final_result.json
  pc,          \* where run_task is; "stopped" when no process runs
  round,       \* its round_number
  draft,       \* its best_before, between the decision and feedback.json
  requests,    \* model requests sent, per round
  failures     \* crashes and transport errors so far

database == <<task, best, state, scores, registered>>
disk     == <<files, outcome, feedback, verdict, result>>
process  == <<pc, round, draft>>
vars     == <<database, disk, process, requests, failures>>

N == 1..Rounds

(* The stages of an evaluated round, in the order of the checkpoints.      *)
Evaluated == <<"SOURCE_VALIDATED", "COMPILE_FINISHED", "CORRECTNESS_FINISHED",
               "BENCHMARK_FINISHED", "PROFILE_FINISHED">>

RoundStates == {"ABSENT", "ROUND_CREATED", "PROMPT_COMMITTED",
                "MODEL_REQUEST_SENT", "MODEL_RESPONSE_COMMITTED",
                "FEEDBACK_COMMITTED", "ROUND_FINISHED"}
               \cup {Evaluated[i] : i \in 1..5}

Ended == {"TASK_FINISHED", "TASK_FAILED"}

TaskStates == {"ABSENT", "TASK_CREATED", "ROUNDS_RUNNING",
               "SELECT_BEST_CANDIDATE", "HIDDEN_CORRECTNESS_TEST",
               "FINAL_BENCHMARK", "FINAL_FULL_PROFILE"} \cup Ended

(* ROUND_TRANSITIONS and TASK_TRANSITIONS of domain/state_machine.py, with *)
(* the creation of the row as a transition from ABSENT.                    *)
RoundTransitions ==
  {<<"ABSENT", "ROUND_CREATED">>,
   <<"ROUND_CREATED", "PROMPT_COMMITTED">>,
   <<"PROMPT_COMMITTED", "MODEL_REQUEST_SENT">>,
   <<"MODEL_REQUEST_SENT", "MODEL_RESPONSE_COMMITTED">>,
   <<"MODEL_RESPONSE_COMMITTED", "SOURCE_VALIDATED">>,
   <<"FEEDBACK_COMMITTED", "ROUND_FINISHED">>}
  \cup {<<Evaluated[i], Evaluated[i + 1]>> : i \in 1..4}
  \cup {<<Evaluated[i], "FEEDBACK_COMMITTED">> : i \in {1, 2, 3, 5}}

TaskTransitions ==
  {<<"ABSENT", "TASK_CREATED">>,
   <<"TASK_CREATED", "ROUNDS_RUNNING">>,
   <<"ROUNDS_RUNNING", "SELECT_BEST_CANDIDATE">>,
   <<"SELECT_BEST_CANDIDATE", "HIDDEN_CORRECTNESS_TEST">>,
   <<"HIDDEN_CORRECTNESS_TEST", "FINAL_BENCHMARK">>,
   <<"FINAL_BENCHMARK", "FINAL_FULL_PROFILE">>,
   <<"FINAL_BENCHMARK", "TASK_FINISHED">>,
   <<"FINAL_FULL_PROFILE", "TASK_FINISHED">>}
  \cup {<<s, "TASK_FAILED">> : s \in TaskStates \ ({"ABSENT"} \cup Ended)}

NoOutcome  == [stage |-> "model", infra |-> FALSE, speed |-> 0, paired |-> "absent"]
NoFeedback == [before |-> 0, after |-> 0]
NoVerdict  == [infra |-> TRUE, correct |-> FALSE, measured |-> FALSE, verified |-> FALSE]
NoResult   == [status |-> "none", best |-> 0, hidden |-> "none"]
NoScore    == [row |-> "absent", speed |-> 0, hidden |-> "none"]

Init == /\ task = "ABSENT"
        /\ best = 0
        /\ state = [r \in N |-> "ABSENT"]
        /\ scores = [r \in N |-> NoScore]
        /\ registered = {}
        /\ files = {}
        /\ outcome = [r \in N |-> NoOutcome]
        /\ feedback = [r \in N |-> NoFeedback]
        /\ verdict = NoVerdict
        /\ result = NoResult
        /\ pc = "stopped"
        /\ round = 0
        /\ draft = 0
        /\ requests = [r \in N |-> 0]
        /\ failures = 0

-----------------------------------------------------------------------------
(* Files, states and where the process is.                                 *)

Exchanges == {"model_exchange", "model_failure_exchange"}

(* Before its response is committed, a round has no candidate to evaluate. *)
Unanswered == {"ABSENT", "ROUND_CREATED", "PROMPT_COMMITTED", "MODEL_REQUEST_SENT"}
Closed     == {"FEEDBACK_COMMITTED", "ROUND_FINISHED"}

OnDisk(file)    == <<round, file>> \in files
Committed(file) == <<round, file>> \in registered

(* The two halves of _commit_json; round 0 stands for the task's own files. *)
Put(file) == /\ ~OnDisk(file)
             /\ files' = files \cup {<<round, file>>}
             /\ UNCHANGED database

(* Mutant: the row is inserted first.                                      *)
RegisterFirst(file) == /\ ~Committed(file)
                       /\ registered' = registered \cup {<<round, file>>}
                       /\ UNCHANGED <<task, best, state, scores, disk>>

Register(file) == /\ OnDisk(file)
                  /\ ~Committed(file)
                  /\ registered' = registered \cup {<<round, file>>}
                  /\ UNCHANGED <<task, best, state, scores, disk>>

(* A file whose content follows from what was committed before it.         *)
CommitFile(file) == /\ \/ /\ Put(file)
                          /\ UNCHANGED <<outcome, feedback, verdict, result>>
                       \/ Register(file)
                    /\ UNCHANGED <<process, requests, failures>>

Goto(place) == pc' = place /\ UNCHANGED <<round, draft, requests, failures>>

(* transition_round *)
MoveRound(target) ==
  /\ state' = [state EXCEPT ![round] = target]
  /\ UNCHANGED <<task, best, scores, registered, disk>>

(* transition_task *)
MoveTask(target) ==
  /\ task' = target
  /\ UNCHANGED <<best, state, scores, registered, disk>>

(* The process ends, by an exception or by a signal.                       *)
Stop == /\ pc' = "stopped"
        /\ round' = 0
        /\ draft' = 0
        /\ UNCHANGED <<database, disk, requests>>

(* A crash anywhere; a transport error is one that hits a model request.   *)
Crash == /\ pc \notin {"stopped", "done"}
         /\ failures < MaxFailures
         /\ failures' = failures + 1
         /\ Stop

(* `experiment run' and `experiment resume', by hand or by systemd.        *)
Resume == /\ pc \in {"stopped", "done"}
          /\ pc' = "task"
          /\ UNCHANGED <<database, disk, round, draft, requests, failures>>

-----------------------------------------------------------------------------
(* run_task, up to the model's response.                                   *)

CreateTask == /\ pc = "task"
              /\ task \in {"ABSENT", "TASK_CREATED"}
              /\ MoveTask(IF task = "ABSENT" THEN "TASK_CREATED" ELSE "ROUNDS_RUNNING")
              /\ Goto("task")

(* Mutant: a task that has ended is replayed like any other.               *)
BeginTaskReplay == /\ pc = "task"
                   /\ task \notin {"ABSENT", "TASK_CREATED"}
                   /\ pc' = "round"
                   /\ round' = 1
                   /\ UNCHANGED <<database, disk, draft, requests, failures>>

(* A task that has ended goes straight to _run_final.                      *)
BeginTask == /\ pc = "task"
             /\ task \notin {"ABSENT", "TASK_CREATED"}
             /\ IF task \in Ended THEN pc' = "final" /\ round' = 0
                                  ELSE pc' = "round" /\ round' = 1
             /\ UNCHANGED <<database, disk, draft, requests, failures>>

(* create_round refuses to open a round before the previous one is done.   *)
CreateRound == /\ pc = "round"
               /\ state[round] = "ABSENT"
               /\ round > 1 => state[round - 1] = "ROUND_FINISHED"
               /\ task = "ROUNDS_RUNNING"
               /\ MoveRound("ROUND_CREATED")
               /\ Goto("round")

WritePrompt == /\ pc = "round"
               /\ state[round] = "ROUND_CREATED"
               /\ CommitFile("prompt")

PromptCommitted == /\ pc = "round"
                   /\ state[round] = "ROUND_CREATED"
                   /\ Committed("prompt")
                   /\ MoveRound("PROMPT_COMMITTED")
                   /\ Goto("round")

RequestSent == /\ pc = "round"
               /\ state[round] = "PROMPT_COMMITTED"
               /\ MoveRound("MODEL_REQUEST_SENT")
               /\ Goto("round")

(* Mutant: only the response ends the wait, the exchange is overlooked.    *)
AnsweredByResponse == OnDisk("model_response")

Answered == \E file \in Exchanges \cup {"model_response"} : OnDisk(file)

(* The model is asked for lack of an answer on disk, and only then.        *)
Asking == /\ pc = "round"
          /\ state[round] = "MODEL_REQUEST_SENT"
          /\ ~Answered

WriteRequestStarted == Asking /\ CommitFile("model_request_started")

AskModel == /\ Asking
            /\ Committed("model_request_started")
            /\ requests' = [requests EXCEPT ![round] = @ + 1]
            /\ pc' = "asking"
            /\ UNCHANGED <<database, disk, round, draft, failures>>

(* The answer, or ModelResponseError once the format repairs are used up.  *)
ReceiveAnswer == /\ pc = "asking"
                 /\ \E file \in Exchanges : Put(file)
                 /\ Goto("answered")
                 /\ UNCHANGED <<outcome, feedback, verdict, result>>

RegisterAnswer == /\ pc = "answered"
                  /\ \E file \in Exchanges : Register(file)
                  /\ Goto("round")

(* Mutant: an exchange counts only once it is registered.                  *)
MaterializingRegistered == /\ pc = "round"
                           /\ state[round] = "MODEL_REQUEST_SENT"
                           /\ \E file \in Exchanges : Committed(file)

(* _materialize_model_exchange and _materialize_model_failure, which work  *)
(* from the exchange on disk; copies of the raw responses are left out.    *)
Materializing == /\ pc = "round"
                 /\ state[round] = "MODEL_REQUEST_SENT"
                 /\ \E file \in Exchanges : OnDisk(file)

WriteFailure == /\ Materializing
                /\ OnDisk("model_failure_exchange")
                /\ CommitFile("model_failure")

WriteResponse == /\ Materializing
                 /\ OnDisk("model_failure_exchange") => Committed("model_failure")
                 /\ CommitFile("model_response")

ResponseCommitted == /\ Materializing
                     /\ Committed("model_response")
                     /\ MoveRound("MODEL_RESPONSE_COMMITTED")
                     /\ Goto("round")

-----------------------------------------------------------------------------
(* The candidate, its evaluation and the checkpoints.                      *)

Evaluating == pc = "round" /\ state[round] \notin Unanswered

WriteCandidate == Evaluating /\ CommitFile("candidate")

RegisterCandidate == /\ Evaluating
                     /\ Committed("candidate")
                     /\ scores[round].row = "absent"
                     /\ scores' = [scores EXCEPT ![round].row = "candidate"]
                     /\ Goto("round")
                     /\ UNCHANGED <<task, best, state, registered, disk>>

Scored(r) == scores[r].row = "scored"
Valid(r)  == Scored(r) /\ scores[r].speed > 0

(* compare_public_candidate calls a new best what is faster by more than   *)
(* the tolerance, here 1: two ties can add up to a new best.               *)
Compare(speed, incumbent) ==
  CASE speed = 0                           -> "INVALID"
    [] speed > 0 /\ incumbent = 0          -> "INITIAL_BEST"
    [] speed > 0 /\ incumbent > 0          ->
         CASE speed > scores[incumbent].speed + 1 -> "NEW_BEST"
           [] speed < scores[incumbent].speed - 1 -> "REGRESSION"
           [] OTHER                               -> "TIE"

(* The fallback of _best_context: the comparisons replayed over scores.    *)
Replayed[n \in 0..Rounds] ==
  IF n = 0 THEN 0
  ELSE IF Valid(n) /\ Compare(scores[n].speed, Replayed[n - 1])
                        \in {"INITIAL_BEST", "NEW_BEST"}
       THEN n ELSE Replayed[n - 1]

(* Mutant: the pointer is taken as it is, the round's own candidate too.   *)
BestContextUnbounded(r) == IF best # 0 THEN best ELSE Replayed[r - 1]

(* _best_context(before_round = r)                                         *)
BestContext(r) == IF best # 0 /\ best < r THEN best ELSE Replayed[r - 1]

(* A paired comparison needs an incumbent; what a model failure leaves is  *)
(* not evaluated; a reused evaluation is one of those evaluate_candidate   *)
(* may return.                                                             *)
Possible(r) ==
  IF OnDisk("model_failure") THEN {NoOutcome}
  ELSE {o \in Outcomes : BestContext(r) = 0 => o.paired = "absent"}

Evaluate == /\ Evaluating
            /\ scores[round].row # "absent"
            /\ Put("evaluation_result")
            /\ \E o \in Possible(round) : outcome' = [outcome EXCEPT ![round] = o]
            /\ UNCHANGED <<feedback, verdict, result, process, requests, failures>>

RegisterEvaluation == /\ Evaluating
                      /\ Register("evaluation_result")
                      /\ Goto("round")

(* save_candidate_score writes the whole row, the hidden verdict included. *)
SaveScore == /\ Evaluating
             /\ Committed("evaluation_result")
             /\ scores[round].row # "absent"
             /\ scores' = [scores EXCEPT ![round] =
                  [row |-> "scored", speed |-> outcome[round].speed, hidden |-> "none"]]
             /\ Goto("advance")
             /\ UNCHANGED <<task, best, state, registered, disk>>

(* The last checkpoint the evaluation earns, and the one reached so far.   *)
Last == CASE outcome[round].stage \in {"model", "source"} -> 1
          [] outcome[round].stage = "compile"             -> 2
          [] outcome[round].stage = "correctness"         -> 3
          [] outcome[round].stage = "benchmark"           -> 4
          [] outcome[round].stage = "none"                -> 5

Reached == IF state[round] = "MODEL_RESPONSE_COMMITTED" THEN 0
           ELSE CHOOSE i \in 1..5 : Evaluated[i] = state[round]

Advancing == pc = "advance" /\ state[round] \notin Closed

Advance == /\ Advancing
           /\ Reached < Last
           /\ MoveRound(Evaluated[Reached + 1])
           /\ Goto("advance")

(* A failed benchmark has no edge to feedback but through the profile.     *)
SkipProfile == /\ Advancing
               /\ Last = 4
               /\ Reached = Last
               /\ MoveRound("PROFILE_FINISHED")
               /\ Goto("feedback")

(* "round state is ahead of the committed evaluation outcome"              *)
Ahead == /\ Advancing
         /\ Reached > Last
         /\ Stop
         /\ UNCHANGED failures

(* Mutant: a failed benchmark goes to its feedback as the others do.       *)
AdvancedNoSkip == /\ pc = "advance"
                  /\ state[round] \notin Closed => Reached = Last
                  /\ Goto("feedback")
                  /\ UNCHANGED <<database, disk>>

Advanced == /\ pc = "advance"
            /\ state[round] \notin Closed => Reached = Last /\ Last # 4
            /\ Goto("feedback")
            /\ UNCHANGED <<database, disk>>

-----------------------------------------------------------------------------
(* Feedback and the online best.                                           *)

(* _online_public_comparison: a paired measurement overrides the scores.   *)
Decision(o, incumbent) ==
  LET raw == Compare(o.speed, incumbent)
  IN IF raw \in {"INVALID", "INITIAL_BEST"} \/ o.paired = "absent"
     THEN raw ELSE o.paired

HasFeedback(r) == <<r, "feedback">> \in files

(* _committed_online_best: the last best_after on disk, and its round.     *)
LastOf(S) == IF S = {} THEN 0 ELSE CHOOSE r \in S : \A q \in S : q <= r

LastFeedback  == LastOf({r \in N : HasFeedback(r)})

(* Mutant: the first decision is taken for the last.                       *)
CommittedBestFirst ==
  LET chosen == {r \in N : HasFeedback(r) /\ feedback[r].after # 0}
  IN IF chosen = {} THEN 0 ELSE CHOOSE r \in chosen : \A q \in chosen : r <= q

CommittedBest == LET chosen == {r \in N : HasFeedback(r) /\ feedback[r].after # 0}
                 IN IF chosen = {} THEN 0 ELSE feedback[LastOf(chosen)].after

(* _reconcile_committed_online_best                                        *)
Reconciled(allowInflight) ==
  IF \/ CommittedBest = 0
     \/ allowInflight /\ best > LastFeedback
  THEN best ELSE CommittedBest

(* Mutant: a tie is as good as a win.                                      *)
DecideTies == /\ pc = "feedback"
              /\ ~OnDisk("feedback")
              /\ draft' = BestContext(round)
              /\ best' = IF Decision(outcome[round], draft')
                              \in {"INITIAL_BEST", "NEW_BEST", "TIE"}
                         THEN round ELSE best
              /\ pc' = "decided"
              /\ UNCHANGED <<task, state, scores, registered, disk, round,
                             requests, failures>>

(* set_best_candidate commits the decision before feedback.json does.      *)
Decide == /\ pc = "feedback"
          /\ ~OnDisk("feedback")
          /\ draft' = BestContext(round)
          /\ best' = IF Decision(outcome[round], draft')
                          \in {"INITIAL_BEST", "NEW_BEST"}
                     THEN round ELSE best
          /\ pc' = "decided"
          /\ UNCHANGED <<task, state, scores, registered, disk, round,
                         requests, failures>>

(* Mutant: best_after repeats best_before.                                 *)
WriteFeedbackStale == /\ pc = "decided"
                      /\ Put("feedback")
                      /\ feedback' = [feedback EXCEPT ![round] =
                                        [before |-> draft, after |-> draft]]
                      /\ UNCHANGED <<outcome, verdict, result, process,
                                     requests, failures>>

WriteFeedback == /\ pc = "decided"
                 /\ Put("feedback")
                 /\ feedback' = [feedback EXCEPT ![round] =
                                   [before |-> draft, after |-> best]]
                 /\ UNCHANGED <<outcome, verdict, result, process,
                                requests, failures>>

RegisterFeedback == /\ pc \in {"decided", "feedback"}
                    /\ Register("feedback")
                    /\ Goto(IF pc = "decided" THEN "close" ELSE "feedback")

(* Mutant: the pointer is set to what the one feedback says.               *)
LoadFeedbackNaive == /\ pc = "feedback"
                     /\ Committed("feedback")
                     /\ best' = IF feedback[round].after = 0
                                THEN best ELSE feedback[round].after
                     /\ Goto("close")
                     /\ UNCHANGED <<task, state, scores, registered, disk>>

(* Feedback of an earlier run: the pointer is made to agree with it.       *)
LoadFeedback == /\ pc = "feedback"
                /\ Committed("feedback")
                /\ best' = Reconciled(TRUE)
                /\ Goto("close")
                /\ UNCHANGED <<task, state, scores, registered, disk>>

(* Mutant: the round is closed before its feedback is on disk.             *)
FeedbackCommittedEarly == /\ pc \in {"decided", "close"}
                          /\ state[round] \notin Closed
                          /\ MoveRound("FEEDBACK_COMMITTED")
                          /\ Goto(pc)

FeedbackCommitted == /\ pc = "close"
                     /\ state[round] \notin Closed
                     /\ MoveRound("FEEDBACK_COMMITTED")
                     /\ Goto("close")

RoundFinished == /\ pc = "close"
                 /\ state[round] = "FEEDBACK_COMMITTED"
                 /\ MoveRound("ROUND_FINISHED")
                 /\ Goto("close")

(* "round N requires an infrastructure retry"                              *)
RequireRetry == /\ pc = "close"
                /\ state[round] = "ROUND_FINISHED"
                /\ outcome[round].infra
                /\ Stop
                /\ UNCHANGED failures

NextRound == /\ pc = "close"
             /\ state[round] = "ROUND_FINISHED"
             /\ ~outcome[round].infra
             /\ IF round < Rounds THEN pc' = "round" /\ round' = round + 1
                                  ELSE pc' = "final" /\ round' = 0
             /\ UNCHANGED <<database, disk, draft, requests, failures>>

-----------------------------------------------------------------------------
(* _run_final.                                                             *)

(* _final_gate_status                                                      *)
Gate(v) == IF v.infra THEN "failed_final_infrastructure"
           ELSE IF ~v.correct THEN "failed_hidden_correctness"
           ELSE IF ~v.measured THEN "failed_final_benchmark"
           ELSE IF ProfileRequired /\ ~v.verified THEN "passed_profile_unverified"
           ELSE "passed"

HiddenVerdict(v) == IF v.correct THEN "passed" ELSE "failed"

EndOf(status) == IF status \in {"passed", "passed_profile_unverified"}
                 THEN "TASK_FINISHED" ELSE "TASK_FAILED"

WriteResult(value) == /\ \/ Put("final_result") /\ result' = value
                         \/ Register("final_result") /\ UNCHANGED result
                      /\ UNCHANGED <<outcome, feedback, verdict,
                                     process, requests, failures>>

NothingToSelect == /\ pc = "final"
                   /\ task = "ROUNDS_RUNNING"
                   /\ CommittedBest = 0

NoValidCandidate == /\ NothingToSelect
                    /\ WriteResult([status |-> "failed_no_valid_candidate",
                                    best |-> 0, hidden |-> "none"])

FailWithoutCandidate == /\ NothingToSelect
                        /\ Committed("final_result")
                        /\ MoveTask("TASK_FAILED")
                        /\ Goto("done")

ReconcileBest == /\ pc = "final"
                 /\ task = "ROUNDS_RUNNING"
                 /\ CommittedBest # 0
                 /\ best' = Reconciled(FALSE)
                 /\ Goto("selected")
                 /\ UNCHANGED <<task, state, scores, registered, disk>>

(* A resume after the selection trusts the pointer in the database.        *)
ResumeFinal == /\ pc = "final"
               /\ task \notin {"ROUNDS_RUNNING"} \cup Ended
               /\ Goto(IF best = 0 THEN "stopped" ELSE "selected")
               /\ UNCHANGED <<database, disk>>

SelectBest == /\ pc = "selected"
              /\ task = "ROUNDS_RUNNING"
              /\ MoveTask("SELECT_BEST_CANDIDATE")
              /\ Goto("selected")

WriteBest == /\ pc = "selected"
             /\ task # "ROUNDS_RUNNING"
             /\ CommitFile("best_candidate")

HiddenTest == /\ pc = "selected"
              /\ task = "SELECT_BEST_CANDIDATE"
              /\ Committed("best_candidate")
              /\ MoveTask("HIDDEN_CORRECTNESS_TEST")
              /\ Goto("selected")

Judging == /\ pc = "selected"
           /\ task \notin {"ROUNDS_RUNNING", "SELECT_BEST_CANDIDATE"}

EvaluateFinal == /\ Judging
                 /\ Put("final_evaluation")
                 /\ verdict' \in FinalOutcomes
                 /\ UNCHANGED <<outcome, feedback, result, process,
                                requests, failures>>

RegisterFinal == /\ Judging
                 /\ Register("final_evaluation")
                 /\ Goto("selected")

SaveVerdict == /\ Judging
               /\ Committed("final_evaluation")
               /\ scores' = [scores EXCEPT ![best].hidden = HiddenVerdict(verdict)]
               /\ Goto("conclude")
               /\ UNCHANGED <<task, best, state, registered, disk>>

Conclude == /\ pc = "conclude"
            /\ WriteResult([status |-> Gate(verdict), best |-> best,
                            hidden |-> HiddenVerdict(verdict)])

(* The transitions the result calls for, one by one.                       *)
After(from, status) ==
  CASE from = "HIDDEN_CORRECTNESS_TEST" ->
         IF status = "failed_hidden_correctness" THEN "TASK_FAILED"
                                                 ELSE "FINAL_BENCHMARK"
    [] from = "FINAL_BENCHMARK" ->
         IF FullProfile /\ status # "failed_final_benchmark"
         THEN "FINAL_FULL_PROFILE" ELSE EndOf(status)
    [] from = "FINAL_FULL_PROFILE" -> EndOf(status)

MoveToEnd == /\ pc = "conclude"
             /\ Committed("final_result")
             /\ MoveTask(After(task, result.status))
             /\ Goto(IF task' \in Ended THEN "done" ELSE "conclude")

(* A task that has ended only has its result checked and read again.       *)
ReplayResult == /\ pc = "final"
                /\ task \in Ended
                /\ Goto(IF OnDisk("final_result") /\ task = EndOf(result.status)
                        THEN "done" ELSE "stopped")
                /\ UNCHANGED <<database, disk>>

-----------------------------------------------------------------------------
Generate == \/ CreateTask \/ BeginTask \/ CreateRound
            \/ WritePrompt \/ PromptCommitted \/ RequestSent
            \/ WriteRequestStarted \/ AskModel \/ ReceiveAnswer \/ RegisterAnswer
            \/ WriteFailure \/ WriteResponse \/ ResponseCommitted

EvaluateRound == \/ WriteCandidate \/ RegisterCandidate
                 \/ Evaluate \/ RegisterEvaluation \/ SaveScore
                 \/ Advance \/ SkipProfile \/ Ahead \/ Advanced

CloseRound == \/ Decide \/ WriteFeedback \/ RegisterFeedback \/ LoadFeedback
              \/ FeedbackCommitted \/ RoundFinished \/ RequireRetry \/ NextRound

Final == \/ NoValidCandidate \/ FailWithoutCandidate
         \/ ReconcileBest \/ ResumeFinal \/ SelectBest \/ WriteBest \/ HiddenTest
         \/ EvaluateFinal \/ RegisterFinal \/ SaveVerdict
         \/ Conclude \/ MoveToEnd \/ ReplayResult

RunTask == Generate \/ EvaluateRound \/ CloseRound \/ Final

Next == RunTask \/ Crash \/ Resume

Spec == Init /\ [][Next]_vars

(* A process that runs goes on, and one that stopped is started again: the *)
(* units restart on failure and an operator resumes after a repair.        *)
LiveSpec == Spec /\ WF_vars(RunTask) /\ WF_vars(Resume)

-----------------------------------------------------------------------------
(* Properties.                                                             *)

(* Every variable keeps its type.                                          *)
FileNames == Exchanges \cup {"prompt", "model_request_started", "model_failure",
  "model_response", "candidate", "evaluation_result", "feedback",
  "best_candidate", "final_evaluation", "final_result"}

Places == {"stopped", "done", "task", "round", "asking", "answered", "advance",
           "feedback", "decided", "close", "final", "selected", "conclude"}

TypeOK == /\ task \in TaskStates
          /\ best \in 0..Rounds
          /\ state \in [N -> RoundStates]
          /\ scores \in [N -> [row    : {"absent", "candidate", "scored"},
                               speed  : Speeds,
                               hidden : {"none", "passed", "failed"}]]
          /\ files \subseteq (0..Rounds) \X FileNames
          /\ registered \subseteq files
          /\ outcome \in [N -> Outcome]
          /\ feedback \in [N -> [before : 0..Rounds, after : 0..Rounds]]
          /\ verdict \in FinalOutcome
          /\ result.best \in 0..Rounds
          /\ pc \in Places
          /\ round \in 0..Rounds
          /\ draft \in 0..Rounds
          /\ requests \in [N -> Nat]
          /\ failures \in 0..MaxFailures

(* "Commit the artifact first, then the state event that refers to it"     *)
(* (docs/development.md:97): however a run is cut short, the files and the *)
(* score that a round's or the task's state stands for are registered, and *)
(* the score in the database is the one of the evaluation on disk.         *)
Backed(r, names) == \A name \in names : <<r, name>> \in registered

StatesAreBacked ==
  /\ \A r \in N :
       /\ state[r] \notin {"ABSENT", "ROUND_CREATED"} => Backed(r, {"prompt"})
       /\ state[r] \notin Unanswered => Backed(r, {"model_response"})
       /\ state[r] \notin Unanswered \cup {"MODEL_RESPONSE_COMMITTED"} =>
            /\ Backed(r, {"candidate", "evaluation_result"})
            /\ Scored(r)
       /\ state[r] \in Closed => Backed(r, {"feedback"})
       /\ Scored(r) => scores[r].speed = outcome[r].speed
  /\ task \notin {"ABSENT", "TASK_CREATED", "ROUNDS_RUNNING",
                  "SELECT_BEST_CANDIDATE"} \cup Ended
       => Backed(0, {"best_candidate"})
  /\ task \in Ended => Backed(0, {"final_result"})

(* A round has one model answer: no crash makes a resumed run ask again    *)
(* once the exchange is on disk, and no failure is recorded next to a      *)
(* success.                                                                *)
OneAnswerPerRound == \A r \in N :
  /\ Cardinality({file \in Exchanges : <<r, file>> \in files}) <= 1
  /\ <<r, "model_response">> \in files
       => \E file \in Exchanges : <<r, file>> \in files
  /\ <<r, "model_failure">> \in files => <<r, "model_failure_exchange">> \in files

(* Database and files never disagree about the best candidate by more than *)
(* the one decision in flight: the pointer is what the last feedback says, *)
(* or the valid candidate of the round whose feedback is being written.    *)
BestFollowsFeedback ==
  /\ best # 0 => Valid(best)
  /\ \/ best = CommittedBest
     \/ best = LastFeedback + 1 /\ state[best] \notin Closed \cup Unanswered

(* What a round says it was compared with is what the round before it left *)
(* as the best: "round N+1 consumes the committed feedback from round N"   *)
(* (controller.py:424-425).                                                *)
FeedbackChain == \A r \in N \ {1} :
  HasFeedback(r) => feedback[r].before = feedback[r - 1].after

(* No candidate displaces the best without beating it, and none that beat  *)
(* it is passed over: "the historical best is not overwritten by a later   *)
(* regression" (docs/acceptance-910c.md:135).                              *)
BestIsUnbeaten == \A r \in N :
  HasFeedback(r) => LET fb == feedback[r] IN
    (fb.after = r) <=> Decision(outcome[r], fb.before) \in {"INITIAL_BEST", "NEW_BEST"}

(* No step of a run, a replay or a resume is one the state machines refuse *)
(* (InvalidTransitionError), which would end every later resume as well.   *)
CheckpointsAreLegal == [][
  /\ \A r \in N : state'[r] # state[r] => <<state[r], state'[r]>> \in RoundTransitions
  /\ task' # task => <<task, task'>> \in TaskTransitions]_vars

(* The candidate that was selected is the one that is judged: once the     *)
(* rounds are over, neither replays nor resumes move the pointer.          *)
BestIsFrozen == [][
  task \notin {"ABSENT", "TASK_CREATED", "ROUNDS_RUNNING"} => best' = best]_vars

(* A task that has ended has a result on disk that says so, about the best *)
(* candidate, and the hidden verdict in the database is the result's, for  *)
(* all that a replay of the rounds wipes it out of the score.              *)
VerdictStands == task \in Ended =>
  /\ task = EndOf(result.status)
  /\ result.best = best
  /\ best # 0 => /\ scores[best].hidden = result.hidden
                 /\ task = "TASK_FINISHED" => result.hidden = "passed"

(* The trajectory the files tell.                                          *)
Trajectory == INSTANCE TaskTrajectory WITH
  trail  <- [r \in 1..LastFeedback |-> feedback[r].after],
  chosen <- IF task \in {"ABSENT", "TASK_CREATED", "ROUNDS_RUNNING"}
            THEN 0 ELSE best,
  ending <- CASE task = "TASK_FINISHED" -> "finished"
              [] task = "TASK_FAILED"   -> "failed"
              [] OTHER                  -> "open"

(* However often it crashes and replays, the controller produces one trail *)
(* of decisions, written once each, and judges the candidate at its end.   *)
ImplementsTrajectory == Trajectory!Spec

(* "After an interruption, recover from the last committed state"          *)
(* (README.md:34): the task comes to an end.                               *)
TaskEnds == <>(task \in Ended)

(* An evaluation that calls for an infrastructure retry gets one: "round N *)
(* requires an infrastructure retry" (controller.py:502).                  *)
RetryHappens == \A r \in N : outcome[r].infra ~> ~outcome[r].infra
=============================================================================
