------------------------ MODULE TaskControllerProofs ------------------------
(***************************************************************************)
(* Proofs about the controller of one task, for any number of rounds, any  *)
(* outcomes of their evaluations and any number of crashes.                *)
(*                                                                         *)
(* The inductive invariant has five parts: where the process can be in     *)
(* which state of the task (Where), what a place in a round stands for     *)
(* (Progress), which files stand behind which state (Backing), what the    *)
(* committed decisions say of the best candidate (Trail), and what the     *)
(* final files say of the verdict (Judged).                                *)
(***************************************************************************)
EXTENDS TaskController, FiniteSetTheorems, SequenceTheorems, TLAPS

Row == [row : {"absent", "candidate", "scored"}, speed : Speeds,
        hidden : {"none", "passed", "failed"}]

Typed == /\ task \in TaskStates
         /\ best \in 0 .. Rounds
         /\ state \in [N -> RoundStates]
         /\ scores \in [N -> Row]
         /\ registered \subseteq files
         /\ outcome \in [N -> Outcome]
         /\ feedback = [r \in N |-> feedback[r]]
         /\ \A r \in N : feedback[r].after \in 0 .. Rounds
         /\ pc \in Places
         /\ round \in 0 .. Rounds

InRound == {"round", "asking", "answered", "advance", "feedback", "decided", "close"}
InFinal == {"final", "selected", "conclude"}

AllDone == \A r \in N : state[r] = "ROUND_FINISHED"

Early == {"ABSENT", "TASK_CREATED", "ROUNDS_RUNNING"}

Where ==
  /\ pc \in InRound => /\ round \in N
                       /\ task \notin {"ABSENT", "TASK_CREATED"} \cup Ended
                       /\ \A q \in N : q < round => state[q] = "ROUND_FINISHED"
  /\ pc \in InFinal => /\ round = 0 /\ AllDone
                       /\ task \notin {"ABSENT", "TASK_CREATED"}
  /\ pc \in {"selected", "conclude"} => task \notin Ended
  /\ pc = "conclude" => task \notin {"ROUNDS_RUNNING", "SELECT_BEST_CANDIDATE"}
  /\ task \notin Early => AllDone

(* The states from which a round goes on to its feedback.                  *)
Open == {"SOURCE_VALIDATED", "COMPILE_FINISHED", "CORRECTNESS_FINISHED",
         "PROFILE_FINISHED"}

Progress ==
  /\ pc \in {"asking", "answered"} => state[round] = "MODEL_REQUEST_SENT"
  /\ pc = "asking" => \A file \in Exchanges : <<round, file>> \notin files
  /\ pc \in {"advance", "feedback", "decided", "close"} =>
       Scored(round) /\ state[round] \notin Unanswered
  /\ pc \in {"feedback", "decided", "close"} => state[round] \in Open \cup Closed
  /\ pc = "close" => <<round, "feedback">> \in registered

Backing ==
  /\ StatesAreBacked
  /\ \A r \in N : /\ scores[r].row # "absent" => <<r, "candidate">> \in registered
                  /\ Scored(r) => <<r, "evaluation_result">> \in registered

(* The decisions on disk are those of the first rounds, and their last one *)
(* is the best candidate, but for the one decision in flight.              *)
Tip == IF LastFeedback = 0 THEN 0 ELSE feedback[LastFeedback].after

Trail ==
  /\ LastFeedback \in 0 .. Rounds
  /\ \A r \in N : HasFeedback(r) <=> r <= LastFeedback
  /\ \A r \in N : HasFeedback(r) /\ feedback[r].after # 0 =>
       Valid(feedback[r].after) /\ feedback[LastFeedback].after # 0
  /\ best # 0 => Valid(best)
  /\ \/ best = Tip
     \/ best = LastFeedback + 1 /\ state[best] \notin Closed \cup Unanswered

Base == Typed /\ Where /\ Progress /\ Backing /\ Trail

-----------------------------------------------------------------------------
(* The stages of an evaluated round.                                       *)
LEMMA Stages5 ==
  /\ \A i \in 1 .. 5 : Evaluated[i] \in RoundStates /\ Evaluated[i] \notin Unanswered \cup Closed
  /\ Evaluated[1] = "SOURCE_VALIDATED" /\ Evaluated[2] = "COMPILE_FINISHED"
  /\ Evaluated[3] = "CORRECTNESS_FINISHED" /\ Evaluated[4] = "BENCHMARK_FINISHED"
  /\ Evaluated[5] = "PROFILE_FINISHED"
BY DEF Evaluated, RoundStates, Unanswered, Closed

LEMMA ReachedIs ==
  ASSUME Typed, round \in N, state[round] \notin Unanswered \cup Closed
  PROVE  \/ Reached = 0 /\ state[round] = "MODEL_RESPONSE_COMMITTED"
         \/ Reached \in 1 .. 5 /\ state[round] = Evaluated[Reached]
<1>1. CASE state[round] = "MODEL_RESPONSE_COMMITTED"
  BY <1>1 DEF Reached
<1>2. CASE state[round] # "MODEL_RESPONSE_COMMITTED"
  <2>1. \E i \in 1 .. 5 : Evaluated[i] = state[round]
    BY <1>2, Stages5 DEF Typed, RoundStates, Unanswered, Closed
  <2>. QED  BY <1>2, <2>1 DEF Reached
<1>. QED  BY <1>1, <1>2

LEMMA LastIs ==
  ASSUME Typed, round \in N
  PROVE  Last \in 1 .. 5
<1>1. outcome[round].stage \in {"model", "source", "compile", "correctness", "benchmark", "none"}
  BY DEF Typed, Outcome, Stages
<1>. QED  BY <1>1 DEF Last

LEMMA PossibleType ==
  ASSUME NEW r, NEW o \in Possible(r)
  PROVE  o \in Outcome
<1>1. NoOutcome \in Outcome
  BY DEF NoOutcome, Outcome, Stages, Speeds
<1>2. Possible(r) \subseteq {NoOutcome} \cup Outcomes
  BY DEF Possible
<1>. QED  BY <1>1, <1>2, OutcomesAssumption

LEMMA RoundRange == N = 1 .. Rounds /\ Rounds \in Nat \ {0} /\ 1 \in N /\ Rounds \in N
BY RoundsAssumption DEF N

LEMMA TipIs ==
  ASSUME Typed, Trail
  PROVE  CommittedBest = Tip /\ Tip \in 0 .. Rounds
<1>. DEFINE chosen == {r \in N : HasFeedback(r) /\ feedback[r].after # 0}
<1>1. LastFeedback # 0 => LastFeedback \in N /\ HasFeedback(LastFeedback)
  BY RoundRange DEF Trail
<1>2. Tip \in 0 .. Rounds
  BY <1>1, RoundRange DEF Tip, Typed
<1>3. CASE chosen = {}
  <2>1. LastFeedback # 0 => feedback[LastFeedback].after = 0
    <3>1. LastFeedback \notin chosen
      BY <1>3
    <3>. QED  BY <1>1, <3>1
  <2>2. CommittedBest = 0
    BY <1>3 DEF CommittedBest
  <2>3. Tip = 0
    BY <2>1 DEF Tip
  <2>. QED  BY <1>2, <2>2, <2>3
<1>4. CASE chosen # {}
  <2>1. PICK r \in N : HasFeedback(r) /\ feedback[r].after # 0
    BY <1>4
  <2>2. LastFeedback \in chosen /\ \A q \in chosen : q <= LastFeedback
    BY <1>1, <2>1, RoundRange DEF Trail
  <2>3. \A q \in chosen : (\A p \in chosen : p <= q) => q = LastFeedback
    BY <2>2, RoundRange DEF Trail
  <2>4. LastOf(chosen) = LastFeedback
    <3>. HIDE DEF chosen
    <3>. QED  BY <1>4, <2>2, <2>3 DEF LastOf
  <2>5. LastFeedback # 0
    BY <2>2, RoundRange
  <2>. QED  BY <1>2, <1>4, <2>4, <2>5 DEF CommittedBest, Tip
<1>. QED  BY <1>3, <1>4

-----------------------------------------------------------------------------
(* Every step keeps the types.                                             *)

LEMMA TypedKeeps ==
  ASSUME Base, [Next]_vars
  PROVE  Typed'
<1>. Typed /\ Where /\ Progress /\ Trail
  BY DEF Base
<1>. USE DEF database, disk, process, Typed
<1>0. /\ N = 1 .. Rounds /\ Rounds \in Nat \ {0} /\ 1 \in N
      /\ pc \in InRound => round \in N
  BY RoundRange DEF Where
<1>1. CASE Crash \/ Resume \/ RequireRetry \/ Ahead
  BY <1>0, <1>1 DEF Crash, Resume, RequireRetry, Ahead, Stop, Places
<1>2. CASE UNCHANGED vars
  BY <1>2 DEF vars
<1>3. ASSUME NEW file, Put(file) \/ Register(file),
             UNCHANGED <<outcome, feedback, round>>, pc' \in Places
      PROVE  Typed'
  BY <1>3 DEF Put, Register, OnDisk
<1>4. ASSUME NEW target \in RoundStates, MoveRound(target), UNCHANGED round, pc' \in Places
      PROVE  Typed'
  BY <1>4 DEF MoveRound
<1>5. ASSUME NEW target \in TaskStates, MoveTask(target), UNCHANGED round, pc' \in Places
      PROVE  Typed'
  BY <1>5 DEF MoveTask
<1>6. ASSUME UNCHANGED <<database, disk>>, pc' \in Places, round' \in 0 .. Rounds
      PROVE  Typed'
  BY <1>6
<1>7. CASE Generate
  <2>1. CASE CreateTask
    BY <1>5, <2>1 DEF CreateTask, Goto, Places, TaskStates
  <2>2. CASE BeginTask
    BY <1>0, <1>6, <2>2 DEF BeginTask, Places
  <2>3. CASE CreateRound \/ PromptCommitted \/ RequestSent \/ ResponseCommitted
    BY <1>4, <2>3 DEF CreateRound, PromptCommitted, RequestSent, ResponseCommitted, Goto,
                      Places, RoundStates
  <2>4. CASE WritePrompt \/ WriteRequestStarted \/ WriteFailure \/ WriteResponse
    BY <1>3, <2>4 DEF WritePrompt, WriteRequestStarted, WriteFailure, WriteResponse,
                      CommitFile, Register
  <2>5. CASE AskModel
    BY <1>6, <2>5 DEF AskModel, Places
  <2>6. CASE ReceiveAnswer \/ RegisterAnswer
    BY <1>3, <2>6 DEF ReceiveAnswer, RegisterAnswer, Register, Goto, Places
  <2>. QED  BY <1>7, <2>1, <2>2, <2>3, <2>4, <2>5, <2>6 DEF Generate
<1>8. CASE EvaluateRound
  <2>1. CASE WriteCandidate \/ RegisterEvaluation
    BY <1>3, <2>1 DEF WriteCandidate, RegisterEvaluation, CommitFile, Register, Goto, Places
  <2>2. CASE RegisterCandidate \/ SaveScore
    <3>1. round \in N
      BY <1>0, <2>2 DEF RegisterCandidate, SaveScore, Evaluating, InRound
    <3>2. scores[round] \in Row /\ outcome[round].speed \in Speeds
      BY <3>1 DEF Outcome
    <3>3. PICK row \in Row : scores' = [scores EXCEPT ![round] = row]
      <4>1. CASE RegisterCandidate
        BY <3>2, <4>1 DEF RegisterCandidate, Row
      <4>2. CASE SaveScore
        BY <3>2, <4>2 DEF SaveScore, Row
      <4>. QED  BY <2>2, <4>1, <4>2
    <3>4. UNCHANGED <<task, best, state, registered, disk, round>> /\ pc' \in Places
      BY <2>2 DEF RegisterCandidate, SaveScore, Goto, Places
    <3>. QED  BY <3>3, <3>4
  <2>3. CASE Evaluate
    <3>1. PICK o \in Outcome : outcome' = [outcome EXCEPT ![round] = o]
      BY <2>3, PossibleType DEF Evaluate
    <3>. QED  BY <2>3, <3>1 DEF Evaluate, Put
  <2>4. CASE Advance
    <3>1. round \in N /\ state[round] \notin Unanswered \cup Closed
      BY <1>0, <2>4 DEF Advance, Advancing, InRound, Progress
    <3>2. Reached \in 0 .. 5 /\ Last \in 1 .. 5 /\ Reached < Last
      BY <2>4, <3>1, ReachedIs, LastIs DEF Advance
    <3>3. Reached + 1 \in 1 .. 5
      BY <3>2
    <3>4. Evaluated[Reached + 1] \in RoundStates
      BY <3>3, Stages5
    <3>. QED  BY <1>4, <2>4, <3>4 DEF Advance, Goto, Places
  <2>5. CASE SkipProfile
    BY <1>4, <2>5 DEF SkipProfile, Goto, Places, RoundStates, Evaluated
  <2>6. CASE Advanced
    BY <1>6, <2>6 DEF Advanced, Goto, Places
  <2>. QED  BY <1>1, <1>8, <2>1, <2>2, <2>3, <2>4, <2>5, <2>6 DEF EvaluateRound
<1>9. CASE CloseRound
  <2>1. CASE Decide \/ LoadFeedback
    <3>1. CommittedBest \in 0 .. Rounds
      BY TipIs
    <3>. QED  BY <1>0, <2>1, <3>1 DEF Decide, LoadFeedback, Reconciled, Goto, Places, InRound
  <2>2. CASE WriteFeedback
    BY <1>0, <2>2 DEF WriteFeedback, Put
  <2>3. CASE RegisterFeedback
    BY <1>3, <2>3 DEF RegisterFeedback, Register, Goto, Places
  <2>4. CASE FeedbackCommitted \/ RoundFinished
    BY <1>4, <2>4 DEF FeedbackCommitted, RoundFinished, Goto, Places, RoundStates
  <2>5. CASE NextRound
    BY <1>0, <1>6, <2>5 DEF NextRound, Places, InRound
  <2>. QED  BY <1>1, <1>9, <2>1, <2>2, <2>3, <2>4, <2>5 DEF CloseRound
<1>10. CASE Final
  <2>1. CASE NoValidCandidate \/ Conclude
    BY <1>3, <2>1 DEF NoValidCandidate, Conclude, WriteResult, Register
  <2>2. CASE FailWithoutCandidate \/ SelectBest \/ HiddenTest
    BY <1>5, <2>2 DEF FailWithoutCandidate, SelectBest, HiddenTest, Goto, Places, TaskStates,
                      Ended
  <2>3. CASE ReconcileBest
    BY <2>3, TipIs DEF ReconcileBest, Reconciled, Goto, Places
  <2>4. CASE ResumeFinal \/ ReplayResult
    BY <1>6, <2>4 DEF ResumeFinal, ReplayResult, Goto, Places
  <2>5. CASE WriteBest \/ EvaluateFinal \/ RegisterFinal
    BY <1>3, <2>5 DEF WriteBest, EvaluateFinal, RegisterFinal, CommitFile, Register, Goto,
                      Places
  <2>6. CASE SaveVerdict
    BY <2>6 DEF SaveVerdict, Goto, Places, Row, HiddenVerdict
  <2>7. CASE MoveToEnd
    <3>1. task \in {"HIDDEN_CORRECTNESS_TEST", "FINAL_BENCHMARK", "FINAL_FULL_PROFILE"}
      BY <2>7 DEF MoveToEnd, Where, InFinal, TaskStates, Ended
    <3>2. After(task, result.status) \in TaskStates
      BY <3>1 DEF After, EndOf, TaskStates, Ended
    <3>. QED  BY <1>5, <2>7, <3>2 DEF MoveToEnd, Goto, Places
  <2>. QED  BY <1>10, <2>1, <2>2, <2>3, <2>4, <2>5, <2>6, <2>7 DEF Final
<1>. QED  BY <1>1, <1>2, <1>7, <1>8, <1>9, <1>10 DEF Next, RunTask

-----------------------------------------------------------------------------
(* Which steps write what.                                                 *)

Mover == \/ CreateRound \/ PromptCommitted \/ RequestSent \/ ResponseCommitted
         \/ Advance \/ SkipProfile \/ FeedbackCommitted \/ RoundFinished

Frames ==
  /\ UNCHANGED state \/ Mover
  /\ \/ UNCHANGED task
     \/ CreateTask \/ FailWithoutCandidate \/ SelectBest \/ HiddenTest \/ MoveToEnd
  /\ UNCHANGED best \/ Decide \/ LoadFeedback \/ ReconcileBest
  /\ UNCHANGED scores \/ RegisterCandidate \/ SaveScore \/ SaveVerdict
  /\ UNCHANGED outcome \/ Evaluate
  /\ UNCHANGED feedback \/ WriteFeedback
  /\ UNCHANGED verdict \/ EvaluateFinal
  /\ UNCHANGED result \/ NoValidCandidate \/ Conclude
  /\ UNCHANGED registered \/ (\E file : Register(file))
  /\ UNCHANGED files \/ (\E file : Put(file))

LEMMA Framed ==
  ASSUME [Next]_vars
  PROVE  Frames
<1>. USE DEF database, disk, process
<1>1. CASE Crash \/ Resume \/ RequireRetry \/ Ahead \/ UNCHANGED vars
  BY <1>1 DEF Frames, Crash, Resume, RequireRetry, Ahead, Stop, vars
<1>2. CASE Generate
  BY <1>2 DEF Frames, Mover, Generate, CreateTask, BeginTask, CreateRound, WritePrompt,
              PromptCommitted, RequestSent, WriteRequestStarted, AskModel, ReceiveAnswer,
              RegisterAnswer, WriteFailure, WriteResponse, ResponseCommitted, CommitFile, Put,
              Register, MoveRound, MoveTask
<1>3. CASE EvaluateRound
  BY <1>1, <1>3
     DEF Frames, Mover, EvaluateRound, WriteCandidate, RegisterCandidate, Evaluate,
         RegisterEvaluation, SaveScore, Advance, SkipProfile, Advanced, CommitFile, Put,
         Register, MoveRound
<1>4. CASE CloseRound
  BY <1>1, <1>4
     DEF Frames, Mover, CloseRound, Decide, WriteFeedback, RegisterFeedback, LoadFeedback,
         FeedbackCommitted, RoundFinished, NextRound, Put, Register, MoveRound
<1>5. CASE Final
  BY <1>5 DEF Frames, Final, NoValidCandidate, FailWithoutCandidate, ReconcileBest,
              ResumeFinal, SelectBest, WriteBest, HiddenTest, EvaluateFinal, RegisterFinal,
              SaveVerdict, Conclude, MoveToEnd, ReplayResult, WriteResult, CommitFile, Put,
              Register, MoveTask
<1>. QED  BY <1>1, <1>2, <1>3, <1>4, <1>5 DEF Next, RunTask

(* What the places of the process are; for the prover.                     *)
LEMMA Sets ==
  /\ {"stopped", "done", "task"} \cap (InRound \cup InFinal) = {} /\ InRound \cap InFinal = {}
  /\ \A p \in InRound : p \notin {"selected", "conclude", "final", "stopped", "done", "task"}
BY DEF InRound, InFinal

LEMMA RoundOpen ==
  ASSUME Base, Mover
  PROVE  /\ pc \in InRound /\ round \in N /\ state[round] # "ROUND_FINISHED"
         /\ pc' \in InRound
         /\ UNCHANGED <<round, task, best, scores, registered, disk>>
         /\ \E target \in RoundStates : state' = [state EXCEPT ![round] = target]
<1>1. pc \in InRound /\ pc' \in InRound
  BY DEF Mover, CreateRound, PromptCommitted, RequestSent, ResponseCommitted, Materializing,
         Advance, SkipProfile, Advancing, FeedbackCommitted, RoundFinished, Goto, InRound
<1>2. round \in N
  BY <1>1 DEF Base, Where
<1>3. state[round] # "ROUND_FINISHED"
  BY DEF Mover, CreateRound, PromptCommitted, RequestSent, ResponseCommitted, Materializing,
         Advance, SkipProfile, Advancing, FeedbackCommitted, RoundFinished, Closed
<1>4. UNCHANGED <<round, task, best, scores, registered, disk>>
  BY DEF Mover, CreateRound, PromptCommitted, RequestSent, ResponseCommitted,
         Advance, SkipProfile, FeedbackCommitted, RoundFinished, MoveRound, Goto
<1>5. \E target : state' = [state EXCEPT ![round] = target]
  BY DEF Mover, CreateRound, PromptCommitted, RequestSent, ResponseCommitted,
         Advance, SkipProfile, FeedbackCommitted, RoundFinished, MoveRound
<1>6. state' \in [N -> RoundStates]
  <2>1. [Next]_vars
    BY DEF Mover, Next, RunTask, Generate, EvaluateRound, CloseRound
  <2>2. Typed'
    BY <2>1, TypedKeeps
  <2>. QED  BY <2>2 DEF Typed
<1>7. PICK target : state' = [state EXCEPT ![round] = target]
  BY <1>5
<1>8. target \in RoundStates
  BY <1>2, <1>6, <1>7 DEF Base, Typed
<1>. QED  BY <1>1, <1>2, <1>3, <1>4, <1>7, <1>8

LEMMA FinishedStays ==
  ASSUME Base, [Next]_vars, NEW r \in N, state[r] = "ROUND_FINISHED"
  PROVE  state'[r] = "ROUND_FINISHED"
BY RoundOpen, Framed DEF Frames, Base, Typed

LEMMA WhereKeeps ==
  ASSUME Base, [Next]_vars
  PROVE  Where'
<1>. Typed /\ Where /\ Progress /\ Trail
  BY DEF Base
<1>. USE DEF database, disk, process
<1>1. ASSUME UNCHANGED <<task, state, pc, round>>
      PROVE  Where'
  BY <1>1 DEF Where, AllDone
<1>2. ASSUME UNCHANGED <<task, state>>, pc' \in {"stopped", "done", "task"}
      PROVE  Where'
  BY <1>2, Sets DEF Where, AllDone
<1>3. ASSUME UNCHANGED <<task, state, round>>, pc \in InRound, pc' \in InRound
      PROVE  Where'
  BY <1>3, Sets DEF Where, AllDone
<1>4. CASE Mover
  <2>1. ~AllDone
    BY <1>4, RoundOpen DEF AllDone
  <2>. QED  BY <1>4, <2>1, RoundOpen, Sets DEF Where, AllDone, Typed
<1>5. CASE Crash \/ Resume \/ RequireRetry \/ Ahead \/ UNCHANGED vars
  BY <1>1, <1>2, <1>5 DEF Crash, Resume, RequireRetry, Ahead, Stop, vars
<1>6. CASE Generate
  <2>1. CASE CreateTask
    BY <2>1 DEF CreateTask, MoveTask, Goto, Where, AllDone, InRound, InFinal, Early
  <2>2. CASE BeginTask
    <3>1. CASE task \in Ended
      BY <2>2, <3>1 DEF BeginTask, Where, AllDone, InRound, InFinal, Early, Ended
    <3>2. CASE task \notin Ended
      BY <2>2, <3>2, RoundRange DEF BeginTask, Where, AllDone, InRound, InFinal, Early
    <3>. QED  BY <3>1, <3>2
  <2>3. CASE \/ WritePrompt \/ WriteRequestStarted \/ WriteFailure \/ WriteResponse
    BY <1>1, <2>3 DEF WritePrompt, WriteRequestStarted, WriteFailure, WriteResponse,
                      CommitFile, Put, Register
  <2>4. CASE AskModel \/ ReceiveAnswer \/ RegisterAnswer
    BY <1>3, <2>4 DEF AskModel, Asking, ReceiveAnswer, RegisterAnswer, Put, Register, Goto,
                      InRound
  <2>. QED  BY <1>4, <1>6, <2>1, <2>2, <2>3, <2>4 DEF Generate, Mover
<1>7. CASE EvaluateRound
  <2>1. CASE WriteCandidate \/ Evaluate
    BY <1>1, <2>1 DEF WriteCandidate, Evaluate, CommitFile, Put, Register
  <2>2. CASE RegisterCandidate \/ RegisterEvaluation \/ SaveScore \/ Advanced
    BY <1>3, <2>2 DEF RegisterCandidate, RegisterEvaluation, SaveScore, Advanced, Evaluating,
                      Register, Goto, InRound
  <2>. QED  BY <1>4, <1>5, <1>7, <2>1, <2>2 DEF EvaluateRound, Mover
<1>8. CASE CloseRound
  <2>1. CASE WriteFeedback
    BY <1>1, <2>1 DEF WriteFeedback, Put
  <2>2. CASE Decide \/ RegisterFeedback \/ LoadFeedback
    BY <1>3, <2>2 DEF Decide, RegisterFeedback, LoadFeedback, Register, Goto, InRound
  <2>3. CASE NextRound
    <3>1. /\ round \in N /\ task \notin {"ABSENT", "TASK_CREATED"} \cup Ended
          /\ state[round] = "ROUND_FINISHED" /\ UNCHANGED <<task, state>>
          /\ \A q \in N : q < round => state[q] = "ROUND_FINISHED"
      BY <2>3 DEF NextRound, Where, InRound
    <3>2. CASE round < Rounds
      BY <2>3, <3>1, <3>2, RoundRange DEF NextRound, Where, AllDone, InRound, InFinal
    <3>3. CASE ~(round < Rounds)
      <4>1. AllDone
        BY <3>1, <3>3, RoundRange DEF AllDone
      <4>2. pc' = "final" /\ round' = 0
        BY <2>3, <3>3 DEF NextRound
      <4>. QED  BY <3>1, <4>1, <4>2 DEF Where, AllDone, InRound, InFinal
    <3>. QED  BY <3>2, <3>3
  <2>. QED  BY <1>4, <1>5, <1>8, <2>1, <2>2, <2>3 DEF CloseRound, Mover
<1>9. CASE Final
  <2>1. CASE NoValidCandidate \/ WriteBest \/ EvaluateFinal \/ Conclude
    BY <1>1, <2>1 DEF NoValidCandidate, WriteBest, EvaluateFinal, Conclude, WriteResult,
                      CommitFile, Put, Register
  <2>2. CASE FailWithoutCandidate
    BY <2>2 DEF FailWithoutCandidate, NothingToSelect, MoveTask, Goto, Where, AllDone, InRound,
                InFinal, Ended
  <2>3. CASE ReconcileBest \/ ResumeFinal
    BY <2>3 DEF ReconcileBest, ResumeFinal, Goto, Where, AllDone, InRound, InFinal, Ended
  <2>4. CASE SelectBest \/ HiddenTest
    BY <2>4 DEF SelectBest, HiddenTest, MoveTask, Goto, Where, AllDone, InRound, InFinal,
                Ended, Early
  <2>5. CASE RegisterFinal \/ SaveVerdict
    BY <2>5 DEF RegisterFinal, SaveVerdict, Judging, Register, Goto, Where, AllDone, InRound,
                InFinal
  <2>6. CASE MoveToEnd
    <3>1. task \in {"HIDDEN_CORRECTNESS_TEST", "FINAL_BENCHMARK", "FINAL_FULL_PROFILE"}
      BY <2>6 DEF MoveToEnd, Where, InFinal, Typed, TaskStates, Ended
    <3>2. task' \in {"FINAL_BENCHMARK", "FINAL_FULL_PROFILE"} \cup Ended
      BY <2>6, <3>1 DEF MoveToEnd, MoveTask, After, EndOf, Ended
    <3>3. UNCHANGED state /\ round' = 0 /\ AllDone
          /\ pc' = IF task' \in Ended THEN "done" ELSE "conclude"
      BY <2>6 DEF MoveToEnd, MoveTask, Goto, Where, InFinal
    <3>. QED  BY <3>2, <3>3 DEF Where, AllDone, InRound, InFinal, Ended
  <2>7. CASE ReplayResult
    BY <1>2, <2>7 DEF ReplayResult, Goto
  <2>. QED  BY <1>9, <2>1, <2>2, <2>3, <2>4, <2>5, <2>6, <2>7 DEF Final
<1>. QED  BY <1>5, <1>6, <1>7, <1>8, <1>9 DEF Next, RunTask

-----------------------------------------------------------------------------
(* Files before states.                                                    *)

LEMMA Grows ==
  ASSUME Base, [Next]_vars
  PROVE  registered \subseteq registered' /\ files \subseteq files'
BY Framed DEF Frames, Register, Put

LEMMA ScoredStays ==
  ASSUME Base, [Next]_vars, NEW r \in N, Scored(r)
  PROVE  /\ scores'[r].row = "scored" /\ scores'[r].speed = scores[r].speed
         /\ outcome'[r] = outcome[r]
<1>. scores[r] \in Row /\ Typed /\ outcome[r] \in Outcome
  BY DEF Base, Typed
<1>1. <<r, "evaluation_result">> \in files /\ scores[r].speed = outcome[r].speed
  BY DEF Base, Backing, Typed, StatesAreBacked
<1>2. outcome'[r] = outcome[r]
  <2>1. CASE Evaluate
    <3>1. r # round
      BY <1>1, <2>1 DEF Evaluate, Put, OnDisk
    <3>. QED  BY <2>1, <3>1 DEF Evaluate, Typed
  <2>. QED  BY <2>1, Framed DEF Frames
<1>3. CASE UNCHANGED scores
  BY <1>2, <1>3 DEF Scored
<1>4. CASE RegisterCandidate
  <2>1. r # round
    BY <1>4 DEF RegisterCandidate, Scored
  <2>. QED  BY <1>2, <1>4, <2>1 DEF RegisterCandidate, Typed, Scored
<1>5. CASE SaveScore
  BY <1>1, <1>2, <1>5 DEF SaveScore, Typed, Scored
<1>6. CASE SaveVerdict
  BY <1>2, <1>6 DEF SaveVerdict, Typed, Scored, Row
<1>. QED  BY <1>3, <1>4, <1>5, <1>6, Framed DEF Frames

LEMMA RowsKeep ==
  ASSUME Base, [Next]_vars, NEW r \in N
  PROVE  /\ scores'[r].row # "absent" => <<r, "candidate">> \in registered'
         /\ scores'[r].row = "scored" => /\ <<r, "evaluation_result">> \in registered'
                                         /\ scores'[r].speed = outcome'[r].speed
<1>. scores[r] \in Row /\ Typed /\ Backing
  BY DEF Base, Typed
<1>1. CASE scores'[r].row = scores[r].row
  <2>1. scores[r].row = "scored" => scores'[r].speed = outcome'[r].speed
    BY ScoredStays DEF Scored, Backing, StatesAreBacked
  <2>. QED  BY <1>1, <2>1, Grows DEF Backing, Scored
<1>2. CASE RegisterCandidate
  BY <1>1, <1>2 DEF RegisterCandidate, Typed, Committed, Row
<1>3. CASE SaveScore
  <2>1. CASE r # round
    BY <1>1, <1>3, <2>1 DEF SaveScore, Typed
  <2>2. CASE r = round
    <3>1. <<r, "evaluation_result">> \in registered /\ scores[r].row # "absent"
      BY <1>3, <2>2 DEF SaveScore, Committed
    <3>2. scores'[r].speed = outcome'[r].speed
      BY <1>3, <2>2 DEF SaveScore, Typed, disk
    <3>. QED  BY <3>1, <3>2, Grows DEF Backing
  <2>. QED  BY <2>1, <2>2
<1>4. CASE SaveVerdict
  BY <1>1, <1>4 DEF SaveVerdict, Typed, Row
<1>. QED  BY <1>1, <1>2, <1>3, <1>4, Framed DEF Frames

RoundBacked(r) ==
  /\ state[r] \notin {"ABSENT", "ROUND_CREATED"} => Backed(r, {"prompt"})
  /\ state[r] \notin Unanswered => Backed(r, {"model_response"})
  /\ state[r] \notin Unanswered \cup {"MODEL_RESPONSE_COMMITTED"} =>
       Backed(r, {"candidate", "evaluation_result"}) /\ Scored(r)
  /\ state[r] \in Closed => Backed(r, {"feedback"})

TaskBacked ==
  /\ task \notin {"ABSENT", "TASK_CREATED", "ROUNDS_RUNNING",
                  "SELECT_BEST_CANDIDATE"} \cup Ended
       => Backed(0, {"best_candidate"})
  /\ task \in Ended => Backed(0, {"final_result"})

LEMMA BackedParts ==
  StatesAreBacked <=> /\ \A r \in N : RoundBacked(r)
                      /\ \A r \in N : Scored(r) => scores[r].speed = outcome[r].speed
                      /\ TaskBacked
BY DEF StatesAreBacked, RoundBacked, TaskBacked

LEMMA AdvanceTarget ==
  ASSUME Base, Advance
  PROVE  /\ Reached \in 0 .. 4 /\ Last \in 1 .. 5 /\ Reached < Last
         /\ state' = [state EXCEPT ![round] = Evaluated[Reached + 1]]
         /\ Reached = 0 => state[round] = "MODEL_RESPONSE_COMMITTED"
         /\ Reached # 0 => state[round] = Evaluated[Reached]
<1>1. round \in N /\ state[round] \notin Unanswered \cup Closed
  BY DEF Base, Where, Progress, Advance, Advancing, InRound
<1>2. Reached \in 0 .. 5 /\ Last \in 1 .. 5 /\ Reached < Last
  BY <1>1, ReachedIs, LastIs DEF Advance, Base
<1>3. Reached \in 0 .. 4
  BY <1>2
<1>. QED  BY <1>1, <1>2, <1>3, ReachedIs DEF Advance, MoveRound, Base

LEMMA MovesAreBacked ==
  ASSUME Base, Mover
  PROVE  /\ state'[round] \notin {"ABSENT", "ROUND_CREATED"} => <<round, "prompt">> \in registered
         /\ state'[round] \notin Unanswered => <<round, "model_response">> \in registered
         /\ state'[round] \notin Unanswered \cup {"MODEL_RESPONSE_COMMITTED"} =>
              /\ <<round, "candidate">> \in registered
              /\ <<round, "evaluation_result">> \in registered
              /\ Scored(round)
         /\ state'[round] \in Closed => <<round, "feedback">> \in registered
<1>. Typed /\ Where /\ Progress /\ Backing /\ round \in N
  BY RoundOpen DEF Base
<1>0. RoundBacked(round)
  BY BackedParts DEF Backing
<1>1. CASE CreateRound
  BY <1>1 DEF CreateRound, MoveRound, Typed, Unanswered, Closed
<1>2. CASE PromptCommitted
  BY <1>2 DEF PromptCommitted, MoveRound, Typed, Unanswered, Closed, Committed
<1>3. CASE RequestSent
  BY <1>0, <1>3 DEF RequestSent, MoveRound, Typed, Unanswered, Closed, RoundBacked, Backed
<1>4. CASE ResponseCommitted
  BY <1>0, <1>4 DEF ResponseCommitted, Materializing, MoveRound, Typed, Closed, RoundBacked,
                    Backed, Committed
<1>5. ASSUME pc \in {"advance", "feedback", "decided", "close"}
      PROVE  /\ <<round, "prompt">> \in registered
             /\ <<round, "model_response">> \in registered
             /\ <<round, "candidate">> \in registered
             /\ <<round, "evaluation_result">> \in registered
             /\ Scored(round)
  <2>1. Scored(round) /\ state[round] \notin Unanswered
    BY <1>5 DEF Progress
  <2>. QED  BY <1>0, <2>1 DEF RoundBacked, Backed, Backing, Scored, Unanswered
<1>6. CASE Advance
  <2>1. state'[round] \notin Closed
    BY <1>6, AdvanceTarget, Stages5 DEF Typed
  <2>. QED  BY <1>5, <1>6, <2>1 DEF Advance, Advancing
<1>7. CASE SkipProfile
  BY <1>5, <1>7 DEF SkipProfile, Advancing, MoveRound, Typed, Closed
<1>8. CASE FeedbackCommitted
  BY <1>5, <1>8 DEF FeedbackCommitted, Progress
<1>9. CASE RoundFinished
  BY <1>5, <1>9 DEF RoundFinished, Progress
<1>. QED  BY <1>1, <1>2, <1>3, <1>4, <1>6, <1>7, <1>8, <1>9 DEF Mover

LEMMA BackingKeeps ==
  ASSUME Base, [Next]_vars
  PROVE  Backing'
<1>. Typed /\ Where /\ Progress /\ Backing
  BY DEF Base
<1>1. \A r \in N : Scored(r) => Scored(r)'
  BY ScoredStays DEF Scored
<1>2. ASSUME NEW r \in N
      PROVE  RoundBacked(r)'
  <2>0. RoundBacked(r)
    BY BackedParts DEF Backing
  <2>1. CASE state'[r] = state[r]
    BY <1>1, <2>0, <2>1, Grows DEF RoundBacked, Backed
  <2>2. CASE state'[r] # state[r]
    <3>1. Mover
      BY <2>2, Framed DEF Frames
    <3>2. r = round
      BY <2>2, <3>1, RoundOpen DEF Typed
    <3>. QED  BY <1>1, <3>1, <3>2, MovesAreBacked, Grows DEF RoundBacked, Backed
  <2>. QED  BY <2>1, <2>2
<1>3. TaskBacked'
  <2>0. TaskBacked
    BY BackedParts DEF Backing
  <2>1. CASE task' = task
    BY <2>0, <2>1, Grows DEF TaskBacked, Backed
  <2>2. CASE CreateTask
    BY <2>2 DEF CreateTask, MoveTask, TaskBacked, Ended
  <2>3. CASE FailWithoutCandidate
    <3>1. task' = "TASK_FAILED" /\ <<0, "final_result">> \in registered'
      BY <2>3, Grows DEF FailWithoutCandidate, NothingToSelect, MoveTask, Committed, Where,
                         InFinal
    <3>. QED  BY <3>1 DEF TaskBacked, Backed, Ended
  <2>4. CASE SelectBest
    BY <2>4 DEF SelectBest, MoveTask, TaskBacked, Ended
  <2>5. CASE HiddenTest
    <3>1. task' = "HIDDEN_CORRECTNESS_TEST" /\ <<0, "best_candidate">> \in registered'
      BY <2>5, Grows DEF HiddenTest, MoveTask, Committed, Where, InFinal
    <3>. QED  BY <3>1 DEF TaskBacked, Backed, Ended
  <2>6. CASE MoveToEnd
    <3>1. task \in {"HIDDEN_CORRECTNESS_TEST", "FINAL_BENCHMARK", "FINAL_FULL_PROFILE"}
      BY <2>6 DEF MoveToEnd, Where, InFinal, Typed, TaskStates, Ended
    <3>2. <<0, "best_candidate">> \in registered'
      BY <2>0, <3>1, Grows DEF TaskBacked, Backed, Ended
    <3>3. <<0, "final_result">> \in registered'
      BY <2>6, Grows DEF MoveToEnd, Committed, Where, InFinal
    <3>. QED  BY <3>2, <3>3 DEF TaskBacked, Backed
  <2>. QED  BY <2>1, <2>2, <2>3, <2>4, <2>5, <2>6, Framed DEF Frames
<1>4. \A r \in N : Scored(r)' => scores'[r].speed = outcome'[r].speed
  BY RowsKeep DEF Scored
<1>5. StatesAreBacked'
  <2>1. /\ \A r \in N : RoundBacked(r)'
        /\ \A r \in N : Scored(r)' => scores'[r].speed = outcome'[r].speed
        /\ TaskBacked'
    BY <1>2, <1>3, <1>4
  <2>. QED  BY <2>1 DEF StatesAreBacked, RoundBacked, TaskBacked
<1>6. \A r \in N : /\ scores'[r].row # "absent" => <<r, "candidate">> \in registered'
                   /\ Scored(r)' => <<r, "evaluation_result">> \in registered'
  BY RowsKeep DEF Scored
<1>. QED  BY <1>5, <1>6 DEF Backing

-----------------------------------------------------------------------------
(* The places of the process in a round.                                   *)

(* Nothing but ReceiveAnswer puts an exchange on disk.                     *)
LEMMA ExchangesCome ==
  ASSUME [Next]_vars, ~ReceiveAnswer, NEW r, NEW file \in Exchanges,
         <<r, file>> \in files'
  PROVE  <<r, file>> \in files
<1>1. UNCHANGED files \/ \E f : f \notin Exchanges /\ files' = files \cup {<<round, f>>}
  <2>. USE DEF disk, Exchanges
  <2>1. CASE Crash \/ Resume \/ RequireRetry \/ Ahead \/ UNCHANGED vars
    BY <2>1 DEF Crash, Resume, RequireRetry, Ahead, Stop, vars
  <2>2. CASE Generate
    BY <2>2 DEF Generate, CreateTask, BeginTask, CreateRound, WritePrompt,
                PromptCommitted, RequestSent, WriteRequestStarted, AskModel,
                RegisterAnswer, WriteFailure, WriteResponse, ResponseCommitted, CommitFile,
                Put, Register, MoveRound, MoveTask
  <2>3. CASE EvaluateRound
    BY <2>1, <2>3
       DEF EvaluateRound, WriteCandidate, RegisterCandidate, Evaluate,
           RegisterEvaluation, SaveScore, Advance, SkipProfile, Advanced, CommitFile, Put,
           Register, MoveRound
  <2>4. CASE CloseRound
    BY <2>1, <2>4
       DEF CloseRound, Decide, WriteFeedback, RegisterFeedback, LoadFeedback,
           FeedbackCommitted, RoundFinished, NextRound, Put, Register, MoveRound
  <2>5. CASE Final
    BY <2>5 DEF Final, NoValidCandidate, FailWithoutCandidate, ReconcileBest,
                ResumeFinal, SelectBest, WriteBest, HiddenTest, EvaluateFinal, RegisterFinal,
                SaveVerdict, Conclude, MoveToEnd, ReplayResult, WriteResult, CommitFile, Put,
                Register, MoveTask
  <2>. QED  BY <2>1, <2>2, <2>3, <2>4, <2>5 DEF Next, RunTask
<1>. QED  BY <1>1

LEMMA ProgressKeeps ==
  ASSUME Base, [Next]_vars
  PROVE  Progress'
<1>. Typed /\ Where /\ Progress /\ Backing
  BY DEF Base
<1>. USE DEF database, disk, process
<1>1. ASSUME pc' \notin {"asking", "answered", "advance", "feedback", "decided", "close"}
      PROVE  Progress'
  BY <1>1 DEF Progress
<1>2. ASSUME UNCHANGED <<pc, round, state>>, ~ReceiveAnswer,
             pc \in {"advance", "feedback", "decided", "close"} => round \in N
      PROVE  Progress'
  <2>1. pc \in {"advance", "feedback", "decided", "close"} => scores'[round].row = "scored"
    BY <1>2, ScoredStays DEF Progress
  <2>2. pc = "asking" => \A file \in Exchanges : <<round, file>> \notin files'
    BY <1>2, ExchangesCome DEF Progress
  <2>. QED  BY <1>2, <2>1, <2>2, Grows DEF Progress, Scored
<1>3. pc \in {"advance", "feedback", "decided", "close"} => round \in N
  BY DEF Where, InRound
<1>4. CASE Crash \/ Resume \/ RequireRetry \/ Ahead
  BY <1>1, <1>4 DEF Crash, Resume, RequireRetry, Ahead, Stop
<1>5. CASE UNCHANGED vars
  BY <1>5 DEF vars, Progress, Scored
<1>6. CASE Generate
  <2>1. CASE CreateTask \/ BeginTask \/ CreateRound \/ PromptCommitted \/ RequestSent
             \/ ResponseCommitted \/ RegisterAnswer
    BY <1>1, <2>1 DEF CreateTask, BeginTask, CreateRound, PromptCommitted, RequestSent,
                      ResponseCommitted, RegisterAnswer, Goto
  <2>2. CASE WritePrompt \/ WriteRequestStarted \/ WriteFailure \/ WriteResponse
    BY <1>1, <2>2 DEF WritePrompt, WriteRequestStarted, Asking, WriteFailure, WriteResponse,
                      Materializing, CommitFile
  <2>3. CASE AskModel
    BY <2>3 DEF AskModel, Asking, Answered, OnDisk, Progress
  <2>4. CASE ReceiveAnswer
    BY <2>4 DEF ReceiveAnswer, Goto, Put, Progress
  <2>. QED  BY <1>6, <2>1, <2>2, <2>3, <2>4 DEF Generate
<1>7. CASE EvaluateRound
  <2>1. CASE WriteCandidate \/ RegisterCandidate \/ Evaluate \/ RegisterEvaluation
    BY <1>1, <2>1 DEF WriteCandidate, RegisterCandidate, Evaluate, RegisterEvaluation,
                      Evaluating, CommitFile, Goto
  <2>2. CASE SaveScore
    BY <2>2 DEF SaveScore, Evaluating, Goto, Progress, Scored, Typed, Where, InRound
  <2>3. CASE Advance
    <3>1. Mover
      BY <2>3 DEF Mover
    <3>2. state'[round] \notin Unanswered
      BY <2>3, <3>1, AdvanceTarget, Stages5, RoundOpen DEF Typed
    <3>3. /\ pc = "advance" /\ pc' = "advance" /\ round' = round
          /\ Scored(round) /\ scores' = scores
      BY <2>3 DEF Advance, Advancing, MoveRound, Goto, Progress
    <3>. QED  BY <3>2, <3>3 DEF Progress, Scored
  <2>4. CASE SkipProfile
    <3>1. state'[round] = "PROFILE_FINISHED" /\ round \in N
      BY <1>3, <2>4 DEF SkipProfile, Advancing, MoveRound, Typed
    <3>2. /\ pc = "advance" /\ pc' = "feedback" /\ round' = round
          /\ Scored(round) /\ scores' = scores
      BY <2>4 DEF SkipProfile, Advancing, MoveRound, Goto, Progress
    <3>. QED  BY <3>1, <3>2 DEF Progress, Scored, Open, Unanswered
  <2>5. CASE Advanced
    <3>1. /\ pc = "advance" /\ pc' = "feedback" /\ UNCHANGED <<round, state, scores>>
          /\ round \in N /\ Scored(round) /\ state[round] \notin Unanswered
      BY <1>3, <2>5 DEF Advanced, Goto, Progress
    <3>2. state[round] \in Open \cup Closed
      <4>1. CASE state[round] \notin Closed
        <5>1. Reached = Last /\ Last # 4 /\ Last \in 1 .. 5
          BY <2>5, <3>1, <4>1, LastIs DEF Advanced
        <5>2. state[round] = Evaluated[Reached]
          BY <3>1, <4>1, <5>1, ReachedIs
        <5>3. Reached \in {1, 2, 3, 5}
          BY <5>1
        <5>. QED  BY <5>2, <5>3, Stages5 DEF Open
      <4>. QED  BY <4>1
    <3>. QED  BY <3>1, <3>2 DEF Progress, Scored
  <2>. QED  BY <1>4, <1>7, <2>1, <2>2, <2>3, <2>4, <2>5 DEF EvaluateRound
<1>8. CASE CloseRound
  <2>1. CASE WriteFeedback
    BY <1>2, <1>3, <2>1 DEF WriteFeedback, ReceiveAnswer, Put
  <2>2. CASE Decide
    BY <2>2 DEF Decide, Progress, Scored
  <2>3. CASE RegisterFeedback
    BY <2>3 DEF RegisterFeedback, Register, Goto, Progress, Scored
  <2>4. CASE LoadFeedback
    BY <2>4 DEF LoadFeedback, Committed, Goto, Progress, Scored
  <2>5. CASE FeedbackCommitted \/ RoundFinished
    <3>1. /\ pc = "close" /\ pc' = "close" /\ UNCHANGED <<round, scores, registered>>
          /\ state'[round] \in Closed
      BY <1>3, <2>5 DEF FeedbackCommitted, RoundFinished, MoveRound, Goto, Typed, Closed
    <3>2. state'[round] \notin Unanswered
      BY <3>1 DEF Closed, Unanswered
    <3>. QED  BY <3>1, <3>2 DEF Progress, Scored
  <2>6. CASE NextRound
    BY <1>1, <2>6 DEF NextRound
  <2>. QED  BY <1>4, <1>8, <2>1, <2>2, <2>3, <2>4, <2>5, <2>6 DEF CloseRound
<1>9. CASE Final
  BY <1>1, <1>9 DEF Final, NoValidCandidate, NothingToSelect, FailWithoutCandidate,
                    ReconcileBest, ResumeFinal, SelectBest, WriteBest, HiddenTest,
                    EvaluateFinal, RegisterFinal, SaveVerdict, Conclude, Judging, MoveToEnd,
                    ReplayResult, WriteResult, CommitFile, Goto
<1>. QED  BY <1>4, <1>5, <1>6, <1>7, <1>8, <1>9 DEF Next, RunTask

-----------------------------------------------------------------------------
(* The decisions and the pointer.                                          *)

LEMMA FeedbackStays ==
  ASSUME [Next]_vars, ~WriteFeedback
  PROVE  /\ \A r : <<r, "feedback">> \in files' <=> <<r, "feedback">> \in files
         /\ feedback' = feedback /\ LastFeedback' = LastFeedback /\ Tip' = Tip
<1>1. UNCHANGED files \/ \E f : f # "feedback" /\ files' = files \cup {<<round, f>>}
  <2>. USE DEF disk, Exchanges
  <2>1. CASE Crash \/ Resume \/ RequireRetry \/ Ahead \/ UNCHANGED vars
    BY <2>1 DEF Crash, Resume, RequireRetry, Ahead, Stop, vars
  <2>2. CASE Generate
    BY <2>2 DEF Generate, CreateTask, BeginTask, CreateRound, WritePrompt,
                PromptCommitted, RequestSent, WriteRequestStarted, AskModel, ReceiveAnswer,
                RegisterAnswer, WriteFailure, WriteResponse, ResponseCommitted, CommitFile,
                Put, Register, MoveRound, MoveTask
  <2>3. CASE EvaluateRound
    BY <2>1, <2>3
       DEF EvaluateRound, WriteCandidate, RegisterCandidate, Evaluate,
           RegisterEvaluation, SaveScore, Advance, SkipProfile, Advanced, CommitFile, Put,
           Register, MoveRound
  <2>4. CASE CloseRound
    BY <2>1, <2>4
       DEF CloseRound, Decide, RegisterFeedback, LoadFeedback,
           FeedbackCommitted, RoundFinished, NextRound, Put, Register, MoveRound
  <2>5. CASE Final
    BY <2>5 DEF Final, NoValidCandidate, FailWithoutCandidate, ReconcileBest,
                ResumeFinal, SelectBest, WriteBest, HiddenTest, EvaluateFinal, RegisterFinal,
                SaveVerdict, Conclude, MoveToEnd, ReplayResult, WriteResult, CommitFile, Put,
                Register, MoveTask
  <2>. QED  BY <2>1, <2>2, <2>3, <2>4, <2>5 DEF Next, RunTask
<1>2. \A r : <<r, "feedback">> \in files' <=> <<r, "feedback">> \in files
  BY <1>1
<1>3. feedback' = feedback
  BY Framed DEF Frames
<1>4. {r \in N : HasFeedback(r)'} = {r \in N : HasFeedback(r)}
  BY <1>2 DEF HasFeedback
<1>5. LastFeedback' = LastFeedback
  BY <1>4 DEF LastFeedback
<1>. QED  BY <1>2, <1>3, <1>5 DEF Tip

ValidNext(b) == scores'[b].row = "scored" /\ scores'[b].speed > 0

LEMMA ValidStays ==
  ASSUME Base, [Next]_vars, NEW b \in N, Valid(b)
  PROVE  ValidNext(b)
BY ScoredStays DEF ValidNext, Valid, Scored

(* The round that is decided is the one after the last decision on disk.   *)
LEMMA NextDecision ==
  ASSUME Base, pc \in InRound, ~OnDisk("feedback")
  PROVE  round \in N /\ round = LastFeedback + 1 /\ state[round] \notin Closed
<1>. Typed /\ Where /\ Backing /\ Trail /\ round \in N
  BY DEF Base, Where
<1>1. round > LastFeedback
  BY RoundRange DEF OnDisk, Trail, HasFeedback
<1>2. ASSUME round - 1 # 0
      PROVE  round - 1 <= LastFeedback
  <2>1. round - 1 \in N /\ state[round - 1] = "ROUND_FINISHED"
    BY <1>2, RoundRange DEF Where
  <2>2. <<round - 1, "feedback">> \in registered
    BY <2>1 DEF Backing, StatesAreBacked, Backed, Closed
  <2>. QED  BY <2>1, <2>2 DEF Trail, Typed, HasFeedback
<1>3. state[round] \notin Closed
  BY DEF Backing, StatesAreBacked, Backed, OnDisk, Typed
<1>. QED  BY <1>1, <1>2, <1>3, RoundRange DEF Trail

LEMMA PointerTypes ==
  ASSUME Typed, Trail
  PROVE  /\ LastFeedback \in 0 .. Rounds /\ Tip \in 0 .. Rounds /\ best \in 0 .. Rounds
         /\ \A b \in 0 .. Rounds : b # 0 => b \in N
         /\ Tip # 0 => Valid(Tip)
         /\ \A r \in N : HasFeedback(r) /\ feedback[r].after # 0 => Tip # 0
<1>1. LastFeedback # 0 => LastFeedback \in N /\ HasFeedback(LastFeedback)
  BY RoundRange DEF Trail
<1>. QED  BY <1>1, TipIs, RoundRange DEF Tip, Trail, Typed

LEMMA TrailAppends ==
  ASSUME Base, [Next]_vars, WriteFeedback
  PROVE  /\ round \in N /\ round = LastFeedback + 1
         /\ LastFeedback' = round /\ Tip' = best
         /\ \A r \in N : HasFeedback(r)' <=> HasFeedback(r) \/ r = round
         /\ feedback'[round].after = best
         /\ \A r \in N \ {round} : feedback'[r] = feedback[r]
         /\ best' = best /\ state' = state /\ scores' = scores /\ task' = task
<1>. Typed /\ Trail
  BY DEF Base
<1>1. /\ round \in N /\ round = LastFeedback + 1 /\ state[round] \notin Closed
      /\ pc = "decided"
  BY NextDecision DEF WriteFeedback, Put, InRound
<1>2. files' = files \cup {<<round, "feedback">>} /\ UNCHANGED database
  BY DEF WriteFeedback, Put
<1>3. \A r \in N : HasFeedback(r)' <=> HasFeedback(r) \/ r = round
  BY <1>2 DEF HasFeedback
<1>. DEFINE S == {r \in N : HasFeedback(r)'}
<1>4. round \in S /\ \A q \in S : q <= round
  BY <1>1, <1>3, RoundRange DEF Trail
<1>5. \A q \in S : (\A p \in S : p <= q) => q = round
  BY <1>1, <1>4, RoundRange
<1>6. LastOf(S) = round
  <2>. HIDE DEF S
  <2>. QED  BY <1>4, <1>5 DEF LastOf
<1>7. LastFeedback' = round
  BY <1>6 DEF LastFeedback
<1>8. /\ feedback'[round].after = best
      /\ \A r \in N \ {round} : feedback'[r] = feedback[r]
  BY <1>1 DEF WriteFeedback, Typed
<1>9. Tip' = best
  BY <1>1, <1>7, <1>8, RoundRange DEF Tip
<1>. QED  BY <1>1, <1>2, <1>3, <1>7, <1>8, <1>9 DEF database

LEMMA DecisionIsValid ==
  ASSUME NEW o, NEW incumbent, o.speed \in Speeds,
         Decision(o, incumbent) \in {"INITIAL_BEST", "NEW_BEST"}
  PROVE  o.speed > 0
<1>1. CASE o.speed = 0
  <2>1. Compare(o.speed, incumbent) = "INVALID"
    BY <1>1 DEF Compare
  <2>. QED  BY <2>1 DEF Decision
<1>. QED  BY <1>1 DEF Speeds

LEMMA TrailKeeps ==
  ASSUME Base, [Next]_vars
  PROVE  Trail'
<1>. Typed /\ Where /\ Progress /\ Backing /\ Trail
  BY DEF Base
<1>1. CASE WriteFeedback
  <2>1. /\ LastFeedback' \in 0 .. Rounds
        /\ \A r \in N : HasFeedback(r)' <=> r <= LastFeedback'
    BY <1>1, TrailAppends, RoundRange DEF Trail
  <2>2. best \in 0 .. Rounds
    BY DEF Typed
  <2>3. best # 0 => ValidNext(best)
    BY <2>2, PointerTypes, ValidStays DEF Trail
  <2>4. ASSUME NEW r \in N, HasFeedback(r)', feedback'[r].after # 0
        PROVE  ValidNext(feedback'[r].after) /\ feedback'[LastFeedback'].after # 0
    <3>1. CASE r = round
      BY <1>1, <2>3, <2>4, <3>1, TrailAppends
    <3>2. CASE r # round
      <4>1. feedback'[r] = feedback[r] /\ HasFeedback(r)
        BY <1>1, <2>4, <3>2, TrailAppends
      <4>2. Valid(feedback[r].after) /\ Tip # 0
        BY <2>4, <4>1, PointerTypes DEF Trail
      <4>3. feedback[r].after \in N
        BY <2>4, <4>1, PointerTypes DEF Typed
      <4>4. ValidNext(feedback[r].after)
        <5>1. PICK b \in N : b = feedback[r].after
          BY <4>3
        <5>2. ValidNext(b)
          BY <4>2, <5>1, ValidStays
        <5>. QED  BY <4>1, <5>1, <5>2 DEF ValidNext, Valid, Scored
      <4>5. best # 0
        BY <4>2, PointerTypes DEF Trail
      <4>. QED  BY <1>1, <4>1, <4>4, <4>5, TrailAppends DEF ValidNext, Valid, Scored
    <3>. QED  BY <3>1, <3>2
  <2>5. best' = Tip' /\ best' = best
    BY <1>1, TrailAppends
  <2>6. best' # 0 => ValidNext(best')
    BY <2>3, <2>5 DEF ValidNext, Valid, Scored
  <2>. QED  BY <2>1, <2>4, <2>5, <2>6 DEF Trail, ValidNext, Valid, Scored
<1>2. CASE ~WriteFeedback
  <2>1. /\ \A r \in N : HasFeedback(r)' <=> HasFeedback(r)
        /\ feedback' = feedback /\ LastFeedback' = LastFeedback /\ Tip' = Tip
    BY <1>2, FeedbackStays DEF HasFeedback
  <2>2. ASSUME NEW r \in N, HasFeedback(r), feedback[r].after # 0
        PROVE  ValidNext(feedback[r].after) /\ feedback[LastFeedback].after # 0
    <3>1. Valid(feedback[r].after) /\ feedback[LastFeedback].after # 0
      BY <2>2 DEF Trail
    <3>2. PICK b \in N : b = feedback[r].after
      BY <2>2, PointerTypes DEF Typed
    <3>3. ValidNext(b)
      BY <3>1, <3>2, ValidStays
    <3>. QED  BY <2>1, <3>1, <3>2, <3>3 DEF ValidNext, Valid, Scored
  <2>3. /\ best' # 0 => ValidNext(best')
        /\ best' = Tip \/ (best' = LastFeedback + 1 /\ state'[best'] \notin Closed \cup Unanswered)
    <3>1. ASSUME best' = best, best = Tip
          PROVE  best' # 0 => ValidNext(best')
      BY <3>1, PointerTypes, ValidStays DEF ValidNext, Valid, Scored
    <3>2. ASSUME best' = Tip
          PROVE  best' # 0 => ValidNext(best')
      BY <3>2, PointerTypes, ValidStays DEF ValidNext, Valid, Scored
    <3>3. ASSUME best' = best, best = LastFeedback + 1,
                 state[best] \notin Closed \cup Unanswered
          PROVE  /\ best' # 0 => ValidNext(best')
                 /\ state'[best] \notin Closed \cup Unanswered
      <4>1. best \in N /\ Valid(best)
        BY <3>3, PointerTypes DEF Trail
      <4>2. CASE UNCHANGED state \/ round # best
        BY <3>3, <4>1, <4>2, ValidStays, Framed, RoundOpen
           DEF Frames, Typed, ValidNext, Valid, Scored
      <4>3. CASE Mover /\ round = best
        <5>1. ~FeedbackCommitted
          <6>1. ASSUME FeedbackCommitted
                PROVE  HasFeedback(round)
            BY <6>1 DEF FeedbackCommitted, Progress, Typed, HasFeedback
          <6>. QED  BY <3>3, <4>1, <4>3, <6>1, PointerTypes DEF Trail
        <5>2. Advance \/ SkipProfile
          BY <3>3, <4>3, <5>1
             DEF Mover, CreateRound, PromptCommitted, RequestSent, ResponseCommitted,
                 Materializing, RoundFinished, Unanswered, Closed
        <5>3. state'[best] \notin Closed \cup Unanswered
          <6>1. CASE Advance
            BY <4>1, <4>3, <6>1, AdvanceTarget, Stages5 DEF Typed
          <6>2. CASE SkipProfile
            BY <4>1, <4>3, <6>2 DEF SkipProfile, MoveRound, Typed, Closed, Unanswered
          <6>. QED  BY <5>2, <6>1, <6>2
        <5>. QED  BY <3>3, <4>1, <5>3, ValidStays DEF ValidNext, Valid, Scored
      <4>. QED  BY <4>2, <4>3, Framed DEF Frames
    <3>4. CASE best' = best
      BY <3>1, <3>3, <3>4 DEF Trail
    <3>5. CASE Decide
      <4>1. ~OnDisk("feedback") /\ pc = "feedback" /\ UNCHANGED <<state, scores>>
            /\ (best' = best \/ (best' = round /\ Decision(outcome[round], draft')
                                                  \in {"INITIAL_BEST", "NEW_BEST"}))
        BY <3>5 DEF Decide
      <4>2. round \in N /\ round = LastFeedback + 1 /\ state[round] \notin Closed
        BY <4>1, NextDecision DEF InRound
      <4>3. Scored(round) /\ state[round] \notin Unanswered
        BY <4>1 DEF Progress
      <4>4. CASE best' = round /\ Decision(outcome[round], draft') \in {"INITIAL_BEST", "NEW_BEST"}
        <5>1. outcome[round].speed > 0
          BY <4>2, <4>4, DecisionIsValid DEF Typed, Outcome
        <5>2. Valid(round)
          BY <4>2, <4>3, <5>1 DEF Valid, Backing, StatesAreBacked
        <5>. QED  BY <4>1, <4>2, <4>3, <4>4, <5>2 DEF ValidNext, Valid, Scored
      <4>. QED  BY <3>4, <4>1, <4>4
    <3>6. CASE LoadFeedback \/ ReconcileBest
      <4>1. best' = best \/ best' = Tip
        BY <3>6, TipIs DEF LoadFeedback, ReconcileBest, Reconciled
      <4>. QED  BY <3>2, <3>4, <4>1
    <3>. QED  BY <3>4, <3>5, <3>6, Framed DEF Frames
  <2>4. \A r \in N : HasFeedback(r)' /\ feedback'[r].after # 0 =>
          ValidNext(feedback'[r].after) /\ feedback'[LastFeedback'].after # 0
    BY <2>1, <2>2 DEF ValidNext, Valid, Scored
  <2>. QED  BY <2>1, <2>3, <2>4 DEF Trail, ValidNext, Valid, Scored
<1>. QED  BY <1>1, <1>2

-----------------------------------------------------------------------------
(* The parts together.                                                     *)

LEMMA BaseInit ==
  ASSUME Init
  PROVE  Base
<1>. USE RoundRange DEF Init
<1>1. NoOutcome \in Outcome /\ NoScore \in Row
  BY DEF NoOutcome, Outcome, Stages, Speeds, NoScore, Row
<1>2. Typed
  BY <1>1 DEF Typed, TaskStates, RoundStates, Places, NoFeedback
<1>3. Where /\ Progress
  BY DEF Where, Progress, InRound, InFinal, Early
<1>4. Backing
  BY DEF Backing, StatesAreBacked, Unanswered, Closed, Scored, NoScore, Ended
<1>5. \A r \in N : ~HasFeedback(r)
  BY DEF HasFeedback
<1>6. LastFeedback = 0
  BY <1>5 DEF LastFeedback, LastOf
<1>7. Trail
  BY <1>5, <1>6 DEF Trail, Tip
<1>. QED  BY <1>2, <1>3, <1>4, <1>7 DEF Base

LEMMA BaseKeeps ==
  ASSUME Base, [Next]_vars
  PROVE  Base'
BY TypedKeeps, WhereKeeps, ProgressKeeps, BackingKeeps, TrailKeeps DEF Base

LEMMA BaseHolds == Spec => []Base
<1>1. Init => Base
  BY BaseInit
<1>2. Base /\ [Next]_vars => Base'
  BY BaseKeeps
<1>. QED  BY <1>1, <1>2, PTL DEF Spec

(* For any number of rounds and crashes, the files and scores a committed  *)
(* state stands for are registered before it: the order of _commit_json,   *)
(* save_candidate_score and transition_round in run_task.                  *)
THEOREM FilesComeFirst == Spec => []StatesAreBacked
<1>1. Base => StatesAreBacked
  BY DEF Base, Backing
<1>. QED  BY <1>1, BaseHolds, PTL

(* tasks.best_candidate_id and the last feedback.json differ by no more    *)
(* than the decision in flight, however set_best_candidate, the put of the *)
(* feedback and _reconcile_committed_online_best are interleaved with      *)
(* crashes.                                                                *)
THEOREM PointerFollows == Spec => []BestFollowsFeedback
<1>1. Base => BestFollowsFeedback
  BY TipIs DEF Base, Trail, BestFollowsFeedback
<1>. QED  BY <1>1, BaseHolds, PTL

-----------------------------------------------------------------------------
(* One answer of the model per round.                                      *)

Answers == \A r \in N :
  /\ ~ \A file \in Exchanges : <<r, file>> \in files
  /\ <<r, "model_response">> \in files => \E file \in Exchanges : <<r, file>> \in files
  /\ <<r, "model_failure">> \in files => <<r, "model_failure_exchange">> \in files

(* The response and the failure are put by the steps that work from the    *)
(* exchange on disk.                                                       *)
LEMMA AnswersCome ==
  ASSUME [Next]_vars, ~WriteResponse, ~WriteFailure, NEW r,
         NEW file \in {"model_response", "model_failure"}, <<r, file>> \in files'
  PROVE  <<r, file>> \in files
<1>1. UNCHANGED files \/ \E f : /\ f \notin {"model_response", "model_failure"}
                                /\ files' = files \cup {<<round, f>>}
  <2>. USE DEF disk, Exchanges
  <2>1. CASE Crash \/ Resume \/ RequireRetry \/ Ahead \/ UNCHANGED vars
    BY <2>1 DEF Crash, Resume, RequireRetry, Ahead, Stop, vars
  <2>2. CASE Generate
    BY <2>2 DEF Generate, CreateTask, BeginTask, CreateRound, WritePrompt,
                PromptCommitted, RequestSent, WriteRequestStarted, AskModel, ReceiveAnswer,
                RegisterAnswer, ResponseCommitted, CommitFile,
                Put, Register, MoveRound, MoveTask
  <2>3. CASE EvaluateRound
    BY <2>1, <2>3
       DEF EvaluateRound, WriteCandidate, RegisterCandidate, Evaluate,
           RegisterEvaluation, SaveScore, Advance, SkipProfile, Advanced, CommitFile, Put,
           Register, MoveRound
  <2>4. CASE CloseRound
    BY <2>1, <2>4
       DEF CloseRound, Decide, WriteFeedback, RegisterFeedback, LoadFeedback,
           FeedbackCommitted, RoundFinished, NextRound, Put, Register, MoveRound
  <2>5. CASE Final
    BY <2>5 DEF Final, NoValidCandidate, FailWithoutCandidate, ReconcileBest,
                ResumeFinal, SelectBest, WriteBest, HiddenTest, EvaluateFinal, RegisterFinal,
                SaveVerdict, Conclude, MoveToEnd, ReplayResult, WriteResult, CommitFile, Put,
                Register, MoveTask
  <2>. QED  BY <2>1, <2>2, <2>3, <2>4, <2>5 DEF Next, RunTask
<1>. QED  BY <1>1

LEMMA AnswersKeep ==
  ASSUME Base, Answers, [Next]_vars
  PROVE  Answers'
<1>. Typed /\ Where /\ Progress
  BY DEF Base
<1>1. CASE ReceiveAnswer
  <2>1. round \in N /\ \A file \in Exchanges : <<round, file>> \notin files
    BY <1>1 DEF ReceiveAnswer, Where, Progress, InRound
  <2>2. PICK file \in Exchanges : files' = files \cup {<<round, file>>}
    BY <1>1 DEF ReceiveAnswer, Put
  <2>. QED  BY <2>1, <2>2 DEF Answers, Exchanges
<1>2. CASE WriteFailure
  <2>1. files \subseteq files' /\ files' \subseteq files \cup {<<round, "model_failure">>}
    BY <1>2 DEF WriteFailure, CommitFile, Put, Register, disk
  <2>2. <<round, "model_failure_exchange">> \in files
    BY <1>2 DEF WriteFailure, OnDisk
  <2>. QED  BY <2>1, <2>2 DEF Answers, Exchanges
<1>3. CASE WriteResponse
  <2>1. files \subseteq files' /\ files' \subseteq files \cup {<<round, "model_response">>}
    BY <1>3 DEF WriteResponse, CommitFile, Put, Register, disk
  <2>2. \E file \in Exchanges : <<round, file>> \in files
    BY <1>3 DEF WriteResponse, Materializing, OnDisk
  <2>. QED  BY <2>1, <2>2 DEF Answers, Exchanges
<1>4. CASE ~ReceiveAnswer /\ ~WriteFailure /\ ~WriteResponse
  BY <1>4, ExchangesCome, AnswersCome, Grows DEF Answers, Exchanges
<1>. QED  BY <1>1, <1>2, <1>3, <1>4

LEMMA AnswersAreOne ==
  ASSUME Answers
  PROVE  OneAnswerPerRound
<1>1. ASSUME NEW r \in N
      PROVE  Cardinality({file \in Exchanges : <<r, file>> \in files}) <= 1
  <2>. DEFINE S == {file \in Exchanges : <<r, file>> \in files}
  <2>1. S = {} \/ S = {"model_exchange"} \/ S = {"model_failure_exchange"}
    BY DEF Answers, Exchanges
  <2>2. Cardinality(S) = 0 \/ Cardinality(S) = 1
    <3>. HIDE DEF S
    <3>. QED  BY <2>1, FS_EmptySet, FS_Singleton
  <2>. QED  BY <2>2
<1>. QED  BY <1>1 DEF Answers, OneAnswerPerRound

(* _request_model is reached only while no exchange is on disk, and what   *)
(* is materialised comes from the one exchange: no crash between the put   *)
(* of an answer and its registration gives a round a second one.           *)
THEOREM AnsweredOnce == Spec => []OneAnswerPerRound
<1>1. Init => Answers
  BY DEF Init, Answers, Exchanges
<1>2. Base /\ Answers /\ [Next]_vars => Answers'
  BY AnswersKeep
<1>3. Answers => OneAnswerPerRound
  BY AnswersAreOne
<1>. QED  BY <1>1, <1>2, <1>3, BaseHolds, PTL DEF Spec

-----------------------------------------------------------------------------
(* The state machines.                                                     *)

LEMMA RoundMoves ==
  ASSUME Base, Mover
  PROVE  <<state[round], state'[round]>> \in RoundTransitions
<1>. Typed /\ Where /\ Progress /\ round \in N
  BY RoundOpen DEF Base
<1>1. CASE CreateRound \/ PromptCommitted \/ RequestSent \/ ResponseCommitted \/ RoundFinished
  BY <1>1 DEF CreateRound, PromptCommitted, RequestSent, ResponseCommitted, Materializing,
              RoundFinished, MoveRound, Typed, RoundTransitions
<1>2. CASE Advance
  <2>1. /\ Reached \in 0 .. 4 /\ state'[round] = Evaluated[Reached + 1]
        /\ Reached = 0 => state[round] = "MODEL_RESPONSE_COMMITTED"
        /\ Reached # 0 => state[round] = Evaluated[Reached]
    BY <1>2, AdvanceTarget DEF Typed
  <2>2. CASE Reached = 0
    BY <2>1, <2>2, Stages5 DEF RoundTransitions
  <2>3. CASE Reached # 0
    <3>1. Reached \in 1 .. 4
      BY <2>1, <2>3
    <3>. QED  BY <2>1, <2>3, <3>1 DEF RoundTransitions
  <2>. QED  BY <2>2, <2>3
<1>3. CASE SkipProfile
  <2>1. state[round] \notin Unanswered \cup Closed /\ Reached = 4
        /\ state'[round] = "PROFILE_FINISHED"
    BY <1>3 DEF SkipProfile, Advancing, Progress, MoveRound, Typed
  <2>2. state[round] = "BENCHMARK_FINISHED"
    BY <2>1, ReachedIs, Stages5
  <2>. QED  BY <2>1, <2>2, Stages5 DEF RoundTransitions
<1>4. CASE FeedbackCommitted
  <2>1. state[round] \in Open /\ state'[round] = "FEEDBACK_COMMITTED"
    BY <1>4 DEF FeedbackCommitted, Progress, MoveRound, Typed
  <2>2. \E i \in {1, 2, 3, 5} : state[round] = Evaluated[i]
    BY <2>1, Stages5 DEF Open
  <2>. QED  BY <2>1, <2>2 DEF RoundTransitions
<1>. QED  BY <1>1, <1>2, <1>3, <1>4 DEF Mover

LEMMA TaskMoves ==
  ASSUME Base, [Next]_vars, task' # task
  PROVE  <<task, task'>> \in TaskTransitions
<1>. Typed /\ Where
  BY DEF Base
<1>1. CASE CreateTask
  BY <1>1 DEF CreateTask, MoveTask, TaskTransitions
<1>2. CASE FailWithoutCandidate \/ SelectBest \/ HiddenTest
  BY <1>2 DEF FailWithoutCandidate, NothingToSelect, SelectBest, HiddenTest, MoveTask,
              TaskTransitions, TaskStates, Ended
<1>3. CASE MoveToEnd
  <2>1. task \in {"HIDDEN_CORRECTNESS_TEST", "FINAL_BENCHMARK", "FINAL_FULL_PROFILE"}
    BY <1>3 DEF MoveToEnd, Where, InFinal, Typed, TaskStates, Ended
  <2>2. task' = After(task, result.status)
    BY <1>3 DEF MoveToEnd, MoveTask
  <2>3. <<task, task'>> \in {<<"HIDDEN_CORRECTNESS_TEST", "TASK_FAILED">>,
                             <<"HIDDEN_CORRECTNESS_TEST", "FINAL_BENCHMARK">>,
                             <<"FINAL_BENCHMARK", "FINAL_FULL_PROFILE">>,
                             <<"FINAL_BENCHMARK", "TASK_FINISHED">>,
                             <<"FINAL_BENCHMARK", "TASK_FAILED">>,
                             <<"FINAL_FULL_PROFILE", "TASK_FINISHED">>,
                             <<"FINAL_FULL_PROFILE", "TASK_FAILED">>}
    BY <2>1, <2>2 DEF After, EndOf
  <2>. QED  BY <2>3 DEF TaskTransitions, TaskStates, Ended
<1>. QED  BY <1>1, <1>2, <1>3, Framed DEF Frames

(* Whatever a replay finds on disk, each transition_round and              *)
(* transition_task it issues is one the tables of state_machine.py allow.  *)
THEOREM TransitionsAreLegal == Spec => CheckpointsAreLegal
<1>1. Base /\ [Next]_vars => [
        /\ \A r \in N : state'[r] # state[r] => <<state[r], state'[r]>> \in RoundTransitions
        /\ task' # task => <<task, task'>> \in TaskTransitions]_vars
  <2>. SUFFICES ASSUME Base, [Next]_vars
                PROVE  /\ \A r \in N : state'[r] # state[r]
                              => <<state[r], state'[r]>> \in RoundTransitions
                       /\ task' # task => <<task, task'>> \in TaskTransitions
    OBVIOUS
  <2>1. ASSUME NEW r \in N, state'[r] # state[r]
        PROVE  <<state[r], state'[r]>> \in RoundTransitions
    <3>1. Mover
      BY <2>1, Framed DEF Frames
    <3>2. r = round
      BY <2>1, <3>1, RoundOpen DEF Base, Typed
    <3>. QED  BY <3>1, <3>2, RoundMoves
  <2>. QED  BY <2>1, TaskMoves
<1>. QED  BY <1>1, BaseHolds, PTL DEF Spec, CheckpointsAreLegal

-----------------------------------------------------------------------------
(* The end of the task.                                                    *)

(* Once the rounds are done, the decisions are all on disk.                *)
LEMMA Settled ==
  ASSUME Base, AllDone
  PROVE  LastFeedback = Rounds /\ best = Tip
<1>1. HasFeedback(Rounds)
  BY RoundRange DEF Base, Typed, Backing, StatesAreBacked, Backed, AllDone, Closed, HasFeedback
<1>. QED  BY <1>1, RoundRange DEF Base, Typed, Trail

LEMMA PointerStays ==
  ASSUME Base, AllDone, [Next]_vars
  PROVE  ~WriteFeedback /\ Tip' = Tip /\ best' = best
<1>1. ~WriteFeedback /\ ~Decide
  <2>1. ASSUME pc \in InRound, ~OnDisk("feedback")
        PROVE  FALSE
    BY <2>1, NextDecision DEF AllDone, Closed
  <2>. QED  BY <2>1 DEF WriteFeedback, Put, Decide, InRound
<1>2. best' = best
  <2>1. CASE LoadFeedback \/ ReconcileBest
    BY <2>1, Settled, TipIs DEF LoadFeedback, ReconcileBest, Reconciled, Base
  <2>. QED  BY <1>1, <2>1, Framed DEF Frames
<1>. QED  BY <1>1, <1>2, FeedbackStays

(* set_best_candidate is not called again with another candidate once the  *)
(* rounds are over: replays and resumes leave the pointer to what was      *)
(* selected.                                                               *)
THEOREM SelectionStands == Spec => BestIsFrozen
<1>1. Base /\ [Next]_vars =>
        [task \notin {"ABSENT", "TASK_CREATED", "ROUNDS_RUNNING"} => best' = best]_vars
  BY PointerStays DEF Base, Where, Early
<1>. QED  BY <1>1, BaseHolds, PTL DEF Spec, BestIsFrozen

NothingFound == /\ result = [status |-> "failed_no_valid_candidate", best |-> 0, hidden |-> "none"]
                /\ AllDone /\ Tip = 0
                /\ task \in {"ROUNDS_RUNNING", "TASK_FAILED"}

VerdictGiven == /\ result = [status |-> Gate(verdict), best |-> best,
                             hidden |-> HiddenVerdict(verdict)]
                /\ <<0, "final_evaluation">> \in files
                /\ best # 0
                /\ task \notin Early \cup {"SELECT_BEST_CANDIDATE"}

Judged ==
  /\ pc \in {"selected", "conclude"} => best # 0
  /\ pc = "conclude" => /\ scores[best].hidden = HiddenVerdict(verdict)
                        /\ <<0, "final_evaluation">> \in files
  /\ <<0, "final_result">> \in files => NothingFound \/ VerdictGiven
  /\ VerdictStands

(* What becomes of the verdict, the result and the hidden score of the     *)
(* best candidate.                                                         *)
LEMMA VerdictStays ==
  ASSUME Base, [Next]_vars, <<0, "final_evaluation">> \in files
  PROVE  verdict' = verdict
<1>1. ~EvaluateFinal
  BY DEF EvaluateFinal, Judging, Put, OnDisk, Base, Where, InFinal
<1>. QED  BY <1>1, Framed DEF Frames

LEMMA ResultStays ==
  ASSUME Base, [Next]_vars, <<0, "final_result">> \in files
  PROVE  result' = result
<1>1. CASE NoValidCandidate \/ Conclude
  <2>1. OnDisk("final_result")
    BY <1>1 DEF NoValidCandidate, NothingToSelect, Conclude, OnDisk, Base, Where, InFinal
  <2>. QED  BY <1>1, <2>1 DEF NoValidCandidate, Conclude, WriteResult, Put
<1>. QED  BY <1>1, Framed DEF Frames

LEMMA ResultComes ==
  ASSUME [Next]_vars, <<0, "final_result">> \in files', <<0, "final_result">> \notin files
  PROVE  NoValidCandidate \/ Conclude
<1>1. \/ UNCHANGED files
      \/ \E f : f # "final_result" /\ files' = files \cup {<<round, f>>}
      \/ NoValidCandidate \/ Conclude
  <2>. USE DEF disk, Exchanges
  <2>1. CASE Crash \/ Resume \/ RequireRetry \/ Ahead \/ UNCHANGED vars
    BY <2>1 DEF Crash, Resume, RequireRetry, Ahead, Stop, vars
  <2>2. CASE Generate
    BY <2>2 DEF Generate, CreateTask, BeginTask, CreateRound, WritePrompt,
                PromptCommitted, RequestSent, WriteRequestStarted, AskModel, ReceiveAnswer,
                RegisterAnswer, WriteFailure, WriteResponse, ResponseCommitted, CommitFile,
                Put, Register, MoveRound, MoveTask
  <2>3. CASE EvaluateRound
    BY <2>1, <2>3
       DEF EvaluateRound, WriteCandidate, RegisterCandidate, Evaluate,
           RegisterEvaluation, SaveScore, Advance, SkipProfile, Advanced, CommitFile, Put,
           Register, MoveRound
  <2>4. CASE CloseRound
    BY <2>1, <2>4
       DEF CloseRound, Decide, WriteFeedback, RegisterFeedback, LoadFeedback,
           FeedbackCommitted, RoundFinished, NextRound, Put, Register, MoveRound
  <2>5. CASE Final
    BY <2>5 DEF Final, FailWithoutCandidate, ReconcileBest,
                ResumeFinal, SelectBest, WriteBest, HiddenTest, EvaluateFinal, RegisterFinal,
                SaveVerdict, MoveToEnd, ReplayResult, CommitFile, Put,
                Register, MoveTask
  <2>. QED  BY <2>1, <2>2, <2>3, <2>4, <2>5 DEF Next, RunTask
<1>. QED  BY <1>1

(* The task only goes forward.                                             *)
LEMMA TaskForward ==
  ASSUME Base, [Next]_vars
  PROVE  /\ task \notin Early \cup {"SELECT_BEST_CANDIDATE"}
              => task' \notin Early \cup {"SELECT_BEST_CANDIDATE"}
         /\ task \in Ended => task' = task
<1>. SUFFICES ASSUME task' # task
              PROVE  /\ task \notin Ended
                     /\ task \notin Early \cup {"SELECT_BEST_CANDIDATE"}
                          => task' \notin Early \cup {"SELECT_BEST_CANDIDATE"}
  BY DEF Ended
<1>. QED  BY TaskMoves DEF TaskTransitions, Ended, Early

LEMMA JudgedInit ==
  ASSUME Init
  PROVE  Judged
BY DEF Init, Judged, VerdictStands, Ended

(* The hidden verdict in the score of the best candidate changes only      *)
(* where the rounds are replayed and where the verdict is saved.           *)
LEMMA HiddenStays ==
  ASSUME Base, [Next]_vars, pc \notin {"round", "selected"}, best # 0
  PROVE  scores'[best].hidden = scores[best].hidden
<1>1. ~RegisterCandidate /\ ~SaveScore /\ ~SaveVerdict
  BY DEF RegisterCandidate, SaveScore, SaveVerdict, Evaluating, Judging
<1>. QED  BY <1>1, Framed DEF Frames

LEMMA PlacesKeep ==
  ASSUME Base, Judged, [Next]_vars
  PROVE  /\ pc' \in {"selected", "conclude"} => best' # 0
         /\ pc' = "conclude" => /\ scores'[best'].hidden = HiddenVerdict(verdict')
                                /\ <<0, "final_evaluation">> \in files'
<1>. Typed /\ Where /\ Progress
  BY DEF Base
<1>1. CASE pc' = pc
  <2>1. CASE pc \in {"selected", "conclude"}
    <3>1. AllDone /\ best # 0 /\ best' = best
      BY <2>1, PointerStays DEF Where, InFinal, Judged
    <3>2. pc = "conclude" => /\ scores'[best].hidden = HiddenVerdict(verdict)
                             /\ <<0, "final_evaluation">> \in files'
      BY <3>1, HiddenStays, Grows DEF Judged
    <3>3. pc = "conclude" => verdict' = verdict
      BY VerdictStays DEF Judged
    <3>. QED  BY <1>1, <3>1, <3>2, <3>3
  <2>. QED  BY <1>1, <2>1
<1>2. CASE pc' # pc
  <2>0. pc' \in {"selected", "conclude"} => ReconcileBest \/ ResumeFinal \/ SaveVerdict
    <3>1. CASE Crash \/ Resume \/ RequireRetry \/ Ahead \/ UNCHANGED vars
      BY <1>2, <3>1 DEF Crash, Resume, RequireRetry, Ahead, Stop, vars, process
    <3>2. CASE Generate
      BY <1>2, <3>2
         DEF Generate, CreateTask, BeginTask, CreateRound, WritePrompt,
             PromptCommitted, RequestSent, WriteRequestStarted, AskModel, ReceiveAnswer,
             RegisterAnswer, WriteFailure, WriteResponse, ResponseCommitted, CommitFile,
             Goto, process
    <3>3. CASE EvaluateRound
      BY <1>2, <3>1, <3>3
         DEF EvaluateRound, WriteCandidate, RegisterCandidate, Evaluate,
             RegisterEvaluation, SaveScore, Advance, SkipProfile, Advanced, CommitFile,
             Goto, process
    <3>4. CASE CloseRound
      BY <1>2, <3>1, <3>4
         DEF CloseRound, Decide, WriteFeedback, RegisterFeedback, LoadFeedback,
             FeedbackCommitted, RoundFinished, NextRound, Goto, process
    <3>5. CASE Final
      BY <1>2, <3>5
         DEF Final, NoValidCandidate, FailWithoutCandidate,
             SelectBest, WriteBest, HiddenTest, EvaluateFinal, RegisterFinal, Judging,
             Conclude, MoveToEnd, ReplayResult, WriteResult, CommitFile,
             Goto, process
    <3>. QED  BY <3>1, <3>2, <3>3, <3>4, <3>5 DEF Next, RunTask
  <2>1. CASE ReconcileBest
    BY <2>1 DEF ReconcileBest, Reconciled, Goto
  <2>2. CASE ResumeFinal
    BY <2>2 DEF ResumeFinal, Goto, database
  <2>3. CASE SaveVerdict
    <3>1. round = 0 /\ best # 0 /\ best \in 0 .. Rounds
      BY <2>3 DEF SaveVerdict, Judging, Where, InFinal, Judged, Typed
    <3>2. best \in N
      BY <3>1, RoundRange
    <3>3. <<0, "final_evaluation">> \in files /\ UNCHANGED <<best, files, verdict>>
      BY <2>3, <3>1 DEF SaveVerdict, Committed, Typed, disk
    <3>4. scores[best] \in Row
      BY <3>2 DEF Typed
    <3>5. scores'[best].hidden = HiddenVerdict(verdict)
      BY <2>3, <3>2, <3>4 DEF SaveVerdict, Typed, Row
    <3>. QED  BY <3>1, <3>3, <3>5
  <2>. QED  BY <2>0, <2>1, <2>2, <2>3
<1>. QED  BY <1>1, <1>2

LEMMA ResultKeeps ==
  ASSUME Base, Judged, [Next]_vars, <<0, "final_result">> \in files'
  PROVE  NothingFound' \/ VerdictGiven'
<1>. Typed /\ Where
  BY DEF Base
<1>1. AllDone => AllDone'
  BY FinishedStays DEF AllDone
<1>2. CASE <<0, "final_result">> \in files
  <2>1. result' = result
    BY <1>2, ResultStays
  <2>2. CASE NothingFound
    <3>1. Tip' = 0 /\ AllDone' /\ best = 0
      BY <1>1, <2>2, PointerStays, Settled DEF NothingFound
    <3>2. task' \in {"ROUNDS_RUNNING", "TASK_FAILED"}
      <4>1. CASE SelectBest
        BY <3>1, <4>1 DEF SelectBest, Judged
      <4>2. ~CreateTask /\ ~HiddenTest
        BY <2>2 DEF NothingFound, CreateTask, HiddenTest
      <4>3. CASE MoveToEnd
        BY <2>2, <4>3 DEF NothingFound, MoveToEnd, Where, Ended, InFinal
      <4>4. CASE FailWithoutCandidate
        BY <4>4 DEF FailWithoutCandidate, MoveTask
      <4>. QED  BY <2>2, <4>1, <4>2, <4>3, <4>4, Framed DEF Frames, NothingFound
    <3>. QED  BY <2>1, <2>2, <3>1, <3>2 DEF NothingFound
  <2>3. CASE VerdictGiven
    <3>1. best' = best
      BY <2>3, PointerStays DEF VerdictGiven, Where
    <3>2. verdict' = verdict /\ <<0, "final_evaluation">> \in files'
      BY <2>3, VerdictStays, Grows DEF VerdictGiven
    <3>3. task' \notin Early \cup {"SELECT_BEST_CANDIDATE"}
      BY <2>3, TaskForward DEF VerdictGiven
    <3>. QED  BY <2>1, <2>3, <3>1, <3>2, <3>3 DEF VerdictGiven, Gate, HiddenVerdict
  <2>. QED  BY <1>2, <2>2, <2>3 DEF Judged
<1>3. CASE <<0, "final_result">> \notin files
  <2>1. CASE NoValidCandidate
    <3>1. AllDone /\ CommittedBest = 0 /\ task = "ROUNDS_RUNNING"
      BY <2>1 DEF NoValidCandidate, NothingToSelect, Where, InFinal
    <3>2. Tip' = 0 /\ AllDone'
      BY <1>1, <3>1, PointerStays, TipIs DEF Base
    <3>3. UNCHANGED task /\ result' = [status |-> "failed_no_valid_candidate",
                                       best |-> 0, hidden |-> "none"]
      <4>1. ~Register("final_result")
        BY <1>3, <2>1 DEF Register, OnDisk, NoValidCandidate, NothingToSelect, Where, InFinal
      <4>. QED  BY <2>1, <4>1 DEF NoValidCandidate, WriteResult, Put, database
    <3>. QED  BY <3>1, <3>2, <3>3 DEF NothingFound
  <2>2. CASE Conclude
    <3>1. ~Register("final_result")
      BY <1>3, <2>2 DEF Register, OnDisk, Conclude, Where, InFinal
    <3>2. /\ UNCHANGED <<task, best, verdict>>
          /\ result' = [status |-> Gate(verdict), best |-> best,
                        hidden |-> HiddenVerdict(verdict)]
      BY <2>2, <3>1 DEF Conclude, WriteResult, Put, database
    <3>3. <<0, "final_evaluation">> \in files' /\ best # 0
      BY <2>2, Grows DEF Conclude, Judged
    <3>4. task \notin Early \cup {"SELECT_BEST_CANDIDATE"}
      BY <2>2 DEF Conclude, Where, InFinal, Early
    <3>. QED  BY <3>2, <3>3, <3>4 DEF VerdictGiven, Gate, HiddenVerdict
  <2>. QED  BY <1>3, <2>1, <2>2, ResultComes
<1>. QED  BY <1>2, <1>3

LEMMA VerdictKeeps ==
  ASSUME Base, Judged, [Next]_vars
  PROVE  VerdictStands'
<1>. Typed /\ Where /\ Backing
  BY DEF Base
<1>1. CASE task \in Ended
  <2>1. task' = task
    BY <1>1, TaskForward
  <2>2. <<0, "final_result">> \in files
    BY <1>1 DEF Backing, StatesAreBacked, Backed, Typed
  <2>3. result' = result
    BY <2>2, ResultStays
  <2>4. best' = best
    BY <1>1, PointerStays DEF Where, Ended, Early
  <2>5. pc \notin {"round", "selected"}
    BY <1>1 DEF Where, InRound
  <2>6. best # 0 => scores'[best].hidden = scores[best].hidden
    BY <2>5, HiddenStays
  <2>. QED  BY <1>1, <2>1, <2>3, <2>4, <2>6 DEF Judged, VerdictStands, EndOf
<1>2. CASE FailWithoutCandidate
  <2>1. /\ task' = "TASK_FAILED" /\ AllDone /\ CommittedBest = 0
        /\ task = "ROUNDS_RUNNING" /\ <<0, "final_result">> \in files
    BY <1>2 DEF FailWithoutCandidate, NothingToSelect, MoveTask, Committed, Where, InFinal,
                Typed
  <2>2. best = 0 /\ best' = 0
    BY <2>1, Settled, TipIs, PointerStays DEF Base
  <2>3. NothingFound
    BY <2>1 DEF Judged, VerdictGiven, Early
  <2>4. result' = result
    BY <2>1, ResultStays
  <2>. QED  BY <2>1, <2>2, <2>3, <2>4 DEF VerdictStands, NothingFound, EndOf
<1>3. CASE MoveToEnd
  <2>1. /\ <<0, "final_result">> \in files
        /\ task \in {"HIDDEN_CORRECTNESS_TEST", "FINAL_BENCHMARK", "FINAL_FULL_PROFILE"}
        /\ task' = After(task, result.status)
        /\ UNCHANGED <<best, scores, result>>
    BY <1>3 DEF MoveToEnd, MoveTask, Committed, Where, InFinal, Typed, TaskStates, Ended, disk
  <2>2. VerdictGiven
    BY <2>1 DEF Judged, NothingFound
  <2>3. scores[best].hidden = HiddenVerdict(verdict)
    BY <1>3 DEF MoveToEnd, Judged
  <2>4. ASSUME task' \in Ended
        PROVE  task' = EndOf(result.status)
    BY <2>1, <2>4 DEF After, EndOf, Ended
  <2>5. EndOf(result.status) = "TASK_FINISHED" => HiddenVerdict(verdict) = "passed"
    BY <2>2 DEF VerdictGiven, EndOf, Gate, HiddenVerdict
  <2>6. task' \in Ended =>
          /\ task' = EndOf(result.status) /\ result.best = best
          /\ scores[best].hidden = result.hidden
          /\ task' = "TASK_FINISHED" => result.hidden = "passed"
    BY <2>2, <2>3, <2>4, <2>5 DEF VerdictGiven
  <2>. QED  BY <2>1, <2>6 DEF VerdictStands, EndOf
<1>4. CASE task' \notin Ended
  BY <1>4 DEF VerdictStands
<1>5. CASE CreateTask \/ SelectBest \/ HiddenTest
  <2>1. task' \notin Ended
    BY <1>5 DEF CreateTask, SelectBest, HiddenTest, MoveTask, Ended
  <2>. QED  BY <1>4, <2>1
<1>. QED  BY <1>1, <1>2, <1>3, <1>4, <1>5, Framed DEF Frames

LEMMA JudgedHolds == Spec => [](Base /\ Judged)
<1>1. Base /\ Judged /\ [Next]_vars => Judged'
  BY PlacesKeep, ResultKeeps, VerdictKeeps DEF Judged
<1>2. Init => Judged
  BY JudgedInit
<1>. QED  BY <1>1, <1>2, BaseHolds, PTL DEF Spec

(* What a task that has ended says of its best candidate is what           *)
(* final_evaluation.json judged, although save_candidate_score of a        *)
(* replayed round writes the hidden verdict away before the task ends.     *)
THEOREM EndedIsJudged == Spec => []VerdictStands
<1>1. Judged => VerdictStands
  BY DEF Judged
<1>. QED  BY <1>1, JudgedHolds, PTL

-----------------------------------------------------------------------------
(* The trajectory.                                                         *)

TrailOf  == [r \in 1 .. LastFeedback |-> feedback[r].after]
ChosenOf == IF task \in {"ABSENT", "TASK_CREATED", "ROUNDS_RUNNING"} THEN 0 ELSE best
EndingOf == CASE task = "TASK_FINISHED" -> "finished"
              [] task = "TASK_FAILED"   -> "failed"
              [] OTHER                  -> "open"

LEMMA AsSeq ==
  ASSUME NEW S, NEW n \in Nat, NEW f \in [1 .. n -> S]
  PROVE  f \in Seq(S) /\ Len(f) = n
OBVIOUS

LEMMA AppendIs ==
  ASSUME NEW S, NEW n \in Nat, NEW s \in Seq(S), NEW t \in Seq(S), NEW b \in S,
         Len(s) = n, Len(t) = n + 1, \A r \in 1 .. n : s[r] = t[r], t[n + 1] = b
  PROVE  Append(s, b) = t
<1>1. Append(s, b) \in Seq(S) /\ Len(Append(s, b)) = n + 1
  OBVIOUS
<1>2. \A i \in 1 .. n + 1 : Append(s, b)[i] = t[i]
  BY AppendProperties
<1>. QED  BY <1>1, <1>2, SeqEqual

LEMMA TrailIs ==
  ASSUME Base
  PROVE  /\ TrailOf \in Seq(0 .. Rounds) /\ Len(TrailOf) = LastFeedback
         /\ Trajectory!BestSoFar = Tip
<1>. Typed /\ Trail
  BY DEF Base
<1>1. LastFeedback \in Nat /\ LastFeedback <= Rounds
  BY RoundRange DEF Trail
<1>2. \A r \in 1 .. LastFeedback : feedback[r].after \in 0 .. Rounds
  BY <1>1, RoundRange DEF Typed
<1>3. TrailOf \in Seq(0 .. Rounds) /\ Len(TrailOf) = LastFeedback
  <2>1. TrailOf \in [1 .. LastFeedback -> 0 .. Rounds]
    BY <1>2 DEF TrailOf
  <2>. QED  BY <1>1, <2>1, AsSeq
<1>4. CASE LastFeedback = 0
  <2>1. TrailOf = <<>>
    BY <1>3, <1>4
  <2>. QED  BY <1>3, <1>4, <2>1 DEF Trajectory!BestSoFar, Tip, TrailOf
<1>5. CASE LastFeedback # 0
  <2>1. TrailOf # <<>> /\ TrailOf[LastFeedback] = feedback[LastFeedback].after
    BY <1>1, <1>3, <1>5 DEF TrailOf
  <2>. QED  BY <1>3, <1>5, <2>1 DEF Trajectory!BestSoFar, Tip, TrailOf
<1>. QED  BY <1>3, <1>4, <1>5

LEMMA TrailFrozen ==
  ASSUME [Next]_vars, ~WriteFeedback
  PROVE  TrailOf' = TrailOf
<1>1. feedback' = feedback /\ LastFeedback' = LastFeedback
  BY FeedbackStays
<1>. QED  BY <1>1 DEF TrailOf

LEMMA TrailGrows ==
  ASSUME Base, WriteFeedback
  PROVE  /\ TrailOf' \in {Append(TrailOf, b) : b \in {Tip, Len(TrailOf) + 1}}
         /\ Len(TrailOf) < Rounds
         /\ UNCHANGED <<best, task>> /\ task \in Early
<1>. Typed /\ Trail /\ Where
  BY DEF Base
<1>0. [Next]_vars
  BY DEF Next, RunTask, CloseRound
<1>1. /\ round \in N /\ round = LastFeedback + 1 /\ LastFeedback' = round
      /\ feedback'[round].after = best
      /\ \A r \in N \ {round} : feedback'[r] = feedback[r]
      /\ UNCHANGED <<best, task>>
  BY <1>0, TrailAppends
<1>2. TrailOf \in Seq(0 .. Rounds) /\ Len(TrailOf) = LastFeedback
  BY TrailIs
<1>3. TrailOf' = [r \in 1 .. (LastFeedback + 1) |-> feedback'[r].after]
  BY <1>1 DEF TrailOf
<1>4. Append(TrailOf, best) = [r \in 1 .. (LastFeedback + 1) |-> feedback'[r].after]
  <2>1. best \in 0 .. Rounds
    BY DEF Typed
  <2>2. \A r \in 1 .. LastFeedback : feedback'[r].after = feedback[r].after
    BY <1>1, RoundRange DEF Trail
  <2>3. \A r \in 1 .. LastFeedback : TrailOf[r] = feedback'[r].after
    BY <2>2 DEF TrailOf
  <2>4. LastFeedback \in Nat
    BY RoundRange DEF Trail
  <2>. DEFINE longer == [r \in 1 .. (LastFeedback + 1) |-> feedback'[r].after]
  <2>5. longer \in [1 .. LastFeedback + 1 -> 0 .. Rounds]
    BY <1>1, <2>1, <2>2, <2>4, RoundRange DEF Typed, Trail
  <2>6. longer \in Seq(0 .. Rounds) /\ Len(longer) = LastFeedback + 1
    BY <2>4, <2>5, AsSeq
  <2>7. longer[LastFeedback + 1] = best /\ \A r \in 1 .. LastFeedback : TrailOf[r] = longer[r]
    BY <1>1, <2>3, <2>4
  <2>. HIDE DEF longer
  <2>8. Append(TrailOf, best) = longer
    BY <1>2, <2>1, <2>4, <2>6, <2>7, AppendIs
  <2>. QED  BY <2>8 DEF longer
<1>5. best \in {Tip, Len(TrailOf) + 1}
  BY <1>2 DEF Trail
<1>6. Len(TrailOf) < Rounds
  BY <1>1, <1>2, RoundRange DEF Trail
<1>7. task \in Early
  <2>1. ~AllDone
    BY <1>0, PointerStays
  <2>. QED  BY <2>1 DEF Where
<1>. QED  BY <1>1, <1>3, <1>4, <1>5, <1>6, <1>7

(* run_task, its crashes and its resumes produce one trail of decisions    *)
(* for the rounds and one judgement of the candidate at its end: nothing   *)
(* a replay does shows in feedback.json, in the selection or in the end of *)
(* the task.                                                               *)
THEOREM TellsOneStory == Spec => ImplementsTrajectory
<1>1. Init => Trajectory!Init
  <2>. SUFFICES ASSUME Init PROVE Trajectory!Init
    OBVIOUS
  <2>1. Base /\ LastFeedback = 0
    BY BaseInit DEF Init, LastFeedback, LastOf, HasFeedback
  <2>2. TrailOf = <<>>
    BY <2>1, TrailIs
  <2>. QED  BY <2>2 DEF Init, Trajectory!Init, TrailOf
<1>2. Base /\ Judged /\ [Next]_vars => [Trajectory!Next]_(Trajectory!vars)
  <2>. SUFFICES ASSUME Base, Judged, [Next]_vars
                PROVE  [Trajectory!Next]_(Trajectory!vars)
    OBVIOUS
  <2>. Typed /\ Where
    BY DEF Base
  <2>0. /\ TrailOf \in Seq(0 .. Rounds) /\ Len(TrailOf) = LastFeedback
        /\ Trajectory!BestSoFar = Tip
    BY TrailIs
  <2>1. ASSUME TrailOf' = TrailOf, ChosenOf' = ChosenOf, EndingOf' = EndingOf
        PROVE  UNCHANGED Trajectory!vars
    BY <2>1 DEF Trajectory!vars, TrailOf, ChosenOf, EndingOf
  <2>2. CASE WriteFeedback
    <3>1. /\ TrailOf' \in {Append(TrailOf, b) : b \in {Tip, Len(TrailOf) + 1}}
          /\ Len(TrailOf) < Rounds
          /\ UNCHANGED <<best, task>> /\ task \in Early
      BY <2>2, TrailGrows
    <3>2. /\ EndingOf = "open" /\ ChosenOf = 0
          /\ UNCHANGED <<ChosenOf, EndingOf>>
      BY <3>1 DEF EndingOf, ChosenOf, Early
    <3>. QED  BY <2>0, <3>1, <3>2
              DEF Trajectory!Next, Trajectory!Round, TrailOf, ChosenOf, EndingOf
  <2>3. CASE ~WriteFeedback /\ task' = task
    <3>1. TrailOf' = TrailOf
      BY <2>3, TrailFrozen
    <3>2. EndingOf' = EndingOf
      BY <2>3 DEF EndingOf
    <3>3. ChosenOf' = ChosenOf
      BY <2>3, PointerStays DEF ChosenOf, Where, Early
    <3>. QED  BY <2>1, <3>1, <3>2, <3>3
  <2>4. ASSUME task' # task, UNCHANGED best, ~WriteFeedback
        PROVE  TrailOf' = TrailOf
    BY <2>4, TrailFrozen
  <2>5. CASE CreateTask
    <3>1. /\ {task, task'} \subseteq Early /\ task' # task /\ UNCHANGED best
          /\ ~WriteFeedback
      BY <2>5 DEF CreateTask, MoveTask, Early, WriteFeedback
    <3>2. ChosenOf' = ChosenOf /\ EndingOf' = EndingOf
      BY <3>1 DEF ChosenOf, EndingOf, Early
    <3>. QED  BY <2>1, <2>4, <3>1, <3>2
  <2>6. CASE FailWithoutCandidate
    <3>1. /\ task = "ROUNDS_RUNNING" /\ task' = "TASK_FAILED" /\ AllDone
          /\ Tip = 0 /\ UNCHANGED best /\ ~WriteFeedback
      BY <2>6, TipIs DEF FailWithoutCandidate, NothingToSelect, MoveTask, Where, InFinal,
                         WriteFeedback, Base
    <3>2. best = 0 /\ LastFeedback = Rounds
      BY <3>1, Settled
    <3>3. /\ TrailOf' = TrailOf /\ ChosenOf' = ChosenOf
          /\ EndingOf = "open" /\ EndingOf' = "failed"
      BY <2>4, <3>1, <3>2 DEF ChosenOf, EndingOf
    <3>. QED  BY <2>0, <3>1, <3>2, <3>3
              DEF Trajectory!Next, Trajectory!GiveUp, TrailOf, ChosenOf, EndingOf
  <2>7. CASE SelectBest
    <3>1. /\ task = "ROUNDS_RUNNING" /\ task' = "SELECT_BEST_CANDIDATE" /\ AllDone
          /\ best # 0 /\ UNCHANGED best /\ ~WriteFeedback
      BY <2>7 DEF SelectBest, MoveTask, Where, InFinal, WriteFeedback, Judged
    <3>2. best = Tip /\ LastFeedback = Rounds
      BY <3>1, Settled
    <3>3. /\ TrailOf' = TrailOf /\ ChosenOf = 0 /\ ChosenOf' = best
          /\ EndingOf = "open" /\ EndingOf' = "open"
      BY <2>4, <3>1 DEF ChosenOf, EndingOf
    <3>. QED  BY <2>0, <3>1, <3>2, <3>3
              DEF Trajectory!Next, Trajectory!Select, TrailOf, ChosenOf, EndingOf
  <2>8. CASE HiddenTest
    <3>1. /\ task = "SELECT_BEST_CANDIDATE" /\ task' = "HIDDEN_CORRECTNESS_TEST"
          /\ UNCHANGED best /\ ~WriteFeedback
      BY <2>8 DEF HiddenTest, MoveTask, WriteFeedback
    <3>2. ChosenOf' = ChosenOf /\ EndingOf' = EndingOf
      BY <3>1 DEF ChosenOf, EndingOf
    <3>. QED  BY <2>1, <2>4, <3>1, <3>2
  <2>9. CASE MoveToEnd
    <3>1. /\ task \in {"HIDDEN_CORRECTNESS_TEST", "FINAL_BENCHMARK", "FINAL_FULL_PROFILE"}
          /\ task' \in {"FINAL_BENCHMARK", "FINAL_FULL_PROFILE"} \cup Ended
          /\ UNCHANGED best /\ ~WriteFeedback /\ best # 0
      <4>1. task \in {"HIDDEN_CORRECTNESS_TEST", "FINAL_BENCHMARK", "FINAL_FULL_PROFILE"}
        BY <2>9 DEF MoveToEnd, Where, InFinal, Typed, TaskStates, Ended
      <4>2. task' \in {"FINAL_BENCHMARK", "FINAL_FULL_PROFILE"} \cup Ended
        BY <2>9, <4>1 DEF MoveToEnd, MoveTask, After, EndOf, Ended
      <4>. QED  BY <2>9, <4>1, <4>2 DEF MoveToEnd, MoveTask, WriteFeedback, Judged
    <3>2. ChosenOf' = ChosenOf /\ ChosenOf # 0 /\ EndingOf = "open"
      BY <3>1 DEF ChosenOf, EndingOf, Ended
    <3>3. TrailOf' = TrailOf
      BY <3>1, TrailFrozen
    <3>4. CASE task' \in Ended
      <4>1. EndingOf' \in {"finished", "failed"}
        BY <3>4 DEF EndingOf, Ended
      <4>. QED  BY <3>2, <3>3, <4>1
                DEF Trajectory!Next, Trajectory!Judge, TrailOf, ChosenOf, EndingOf
    <3>5. CASE task' \notin Ended
      <4>1. EndingOf' = EndingOf
        BY <3>1, <3>5 DEF EndingOf, Ended
      <4>. QED  BY <2>1, <3>2, <3>3, <4>1
    <3>. QED  BY <3>4, <3>5
  <2>. QED  BY <2>2, <2>3, <2>5, <2>6, <2>7, <2>8, <2>9, Framed DEF Frames
<1>. QED  BY <1>1, <1>2, JudgedHolds, PTL DEF Spec, ImplementsTrajectory, Trajectory!Spec
=============================================================================
