---------------------- MODULE CandidateEvaluationProofs ----------------------
(***************************************************************************)
(* Proofs about the evaluation of a candidate, for any number of tries and *)
(* of calls.                                                               *)
(*                                                                         *)
(* What a call answers is settled by jobs that came to their end, and a    *)
(* job that came to its end stays as it is.  The proofs therefore read the *)
(* answer off the jobs (Outcome): every answer that is not one of the wait *)
(* itself was and remains the outcome of a stage that all stages before it *)
(* lead to (Settled), and there is only one such stage.                    *)
(***************************************************************************)
EXTENDS CandidateEvaluation, TLAPS

Phases == {"absent", "waiting", "running", "done", "dead", "cancelled"}

Statuses == {"none", "pass", "fail", "error", "timeout", "unavailable", "StageTimeout",
             "other"}

Parts == {"compile", "correctness", "benchmark"}

(* The stages of the request that come before s.                           *)
Before(s) ==
  CASE s = "source" -> {}
    [] s \in {"compile", "evaluation"} -> {"source"}
    [] s = "correctness" -> {"source", "compile"}
    [] s = "benchmark" -> {"source", "compile", "correctness"}
    [] s = "profile" -> IF request.combined THEN {"source", "evaluation"}
                        ELSE {"source", "compile", "correctness", "benchmark"}

Asked(s) == /\ s \in Parts => ~request.combined
            /\ s = "evaluation" => request.combined
            /\ s = "profile" => request.profiled

Passed(s) == life[s].phase = "done" /\ results[s].status = "pass"

Reached(s) == Asked(s) /\ \A t \in Before(s) : Passed(t)

(* What the result r of the stage s is answered with, if it ends the call. *)
Judged(s, r) ==
  IF r.status # "pass" /\ s # "profile"
  THEN IF s = "evaluation" THEN CombinedFailure(r) ELSE Failure(r)
  ELSE IF Following(s) = "none" THEN Complete ELSE "goes on"

Outcome(s) ==
  CASE life[s].phase = "done" -> Judged(s, results[s])
    [] life[s].phase = "dead" /\ TimedOut(s) -> Judged(s, Result("timeout", {}, "none"))
    [] life[s].phase = "dead" /\ ~TimedOut(s) -> "QueueJobFailed"
    [] life[s].phase = "cancelled" -> "QueueJobCancelled"
    [] OTHER -> "goes on"

Settled(answer) == \E s \in Stages : Reached(s) /\ Outcome(s) = answer

Lasting == Evaluated \cup Stuck

(* No call was ever answered for good.                                     *)
Open == \A i \in DOMAIN answers : answers[i] \notin Lasting \cup {"QueueWaitCancelled"}

Waits == {"stored", "swept", "checked", "late"}

Places == {"idle", "asking"} \cup Waits

RowType == [phase : Phases, tries : Nat, answer : Nat]

ResultType == [status : Statuses, parts : SUBSET Parts, failed : {"none"} \cup Parts]

CallType == [n : 0 .. MaxCalls, pc : Places, stage : Stages, seen : Phases,
             cancelled : BOOLEAN]

Answers == Lasting \cup {"QueueWaitTimeout", "QueueWaitCancelled", "QueueProtocolError"}

JobSound(s) ==
  /\ life[s].tries <= MaxTries[s] /\ life[s].answer <= MaxTries[s]
  /\ life[s].phase = "absent" => life[s].tries = 0 /\ life[s].answer = 0
  /\ life[s].phase \in {"done", "dead"} <=> results[s] # NoResult
  /\ life[s].phase = "done" => results[s] \in Truths(s) \cup Troubles(s)
  /\ life[s].phase = "done" /\ s = "source" => results[s] \in Truths(s)
  /\ life[s].phase = "dead" => results[s].status \in {"StageTimeout", "other"}

CallSound ==
  /\ Len(answers) <= call.n
  /\ call.pc = "idle" => call = Idle(call.n)
  /\ call.pc # "idle" => Reached(call.stage) /\ Len(answers) < call.n
  /\ call.pc \in Waits /\ call.seen \in Terminal => life[call.stage].phase = call.seen
  /\ call.pc \in Waits /\ call.seen \notin Terminal => Open
  /\ call.pc \in {"swept", "late"} => call.seen \notin Terminal
  /\ call.cancelled => call.pc = "late" /\ life[call.stage].phase = "cancelled"

AnswersSound ==
  \A i \in DOMAIN answers :
    /\ answers[i] \in Lasting => Settled(answers[i])
    /\ answers[i] = "QueueWaitCancelled" => Settled("QueueJobCancelled")

JobsSound == /\ request \in Requests
             /\ life \in [Stages -> RowType]
             /\ results \in [Stages -> ResultType]
             /\ \A s \in Stages : JobSound(s)

IInv == /\ JobsSound
        /\ call \in CallType /\ CallSound
        /\ answers \in Seq(Answers) /\ AnswersSound /\ AnswersAgree

-----------------------------------------------------------------------------
(* What came to its end stays as it is, and so does what follows from it.  *)

Kept == /\ request' = request
        /\ \A s \in Stages : life[s].phase \in Terminal =>
             life'[s] = life[s] /\ results'[s] = results[s]

LEMMA StageLists ==
  /\ \A s \in Stages : Before(s) \subseteq Stages /\ Following(s) \in Stages \cup {"none"}
  /\ "source" \in Stages /\ "evaluation" \in Stages
BY DEF Before, Following, Stages

LEMMA PassedStays ==
  ASSUME Kept, NEW s \in Stages, Passed(s)
  PROVE  Passed(s)'
BY DEF Kept, Passed, Terminal

LEMMA ReachedStays ==
  ASSUME Kept, NEW s \in Stages, Reached(s)
  PROVE  Reached(s)'
<1>1. Asked(s)' /\ Before(s)' = Before(s)
  BY DEF Kept, Reached, Asked, Before
<1>2. \A t \in Before(s) : Passed(t)'
  BY StageLists, PassedStays DEF Reached
<1>. QED  BY <1>1, <1>2 DEF Reached

LEMMA JudgedStays ==
  ASSUME request' = request, NEW s \in Stages, NEW r
  PROVE  Judged(s, r)' = Judged(s, r)
BY DEF Judged, Complete, CombinedFailure, Failure, Infrastructure, Part, FailedPart,
       Following, Result

LEMMA OutcomeStays ==
  ASSUME Kept, NEW s \in Stages, Outcome(s) # "goes on"
  PROVE  Outcome(s)' = Outcome(s)
<1>1. life[s].phase \in Terminal
  BY DEF Outcome, Terminal
<1>2. life'[s] = life[s] /\ results'[s] = results[s] /\ request' = request
  BY <1>1 DEF Kept
<1>3. TimedOut(s)' = TimedOut(s)
  BY <1>2 DEF TimedOut
<1>4. \A r : Judged(s, r)' = Judged(s, r)
  BY <1>2, JudgedStays
<1>. QED  BY <1>2, <1>3, <1>4 DEF Outcome

LEMMA SettledStays ==
  ASSUME Kept, NEW answer, answer # "goes on", Settled(answer)
  PROVE  Settled(answer)'
BY ReachedStays, OutcomeStays DEF Settled

(* Of two stages that the request asks for, one leads to the other, and a  *)
(* stage that others wait for does not end the evaluation when it passes.  *)
LEMMA OnePath ==
  ASSUME NEW s \in Stages, NEW t \in Stages, Asked(s), Asked(t), s # t
  PROVE  s \in Before(t) \/ t \in Before(s)
BY DEF Asked, Before, Stages, Parts

LEMMA PassedGoesOn ==
  ASSUME NEW s \in Stages, NEW t \in Stages, Asked(t), s \in Before(t), Passed(s)
  PROVE  Outcome(s) = "goes on"
<1>1. Following(s) # "none" /\ s # "profile"
  BY DEF Asked, Before, Following, Stages, Parts
<1>. QED  BY <1>1 DEF Passed, Outcome, Judged

LEMMA OneEnd ==
  ASSUME NEW s \in Stages, NEW t \in Stages, Reached(s), Reached(t),
         Outcome(s) # "goes on", Outcome(t) # "goes on"
  PROVE  s = t
BY OnePath, PassedGoesOn DEF Reached

(* The stage in hand decides what the call is answered with, or nothing    *)
(* has been answered yet.                                                  *)
LEMMA SettledHere ==
  ASSUME NEW t \in Stages, Reached(t), NEW answer, answer # "goes on", Settled(answer)
  PROVE  Outcome(t) \in {"goes on", answer} /\ (life[t].phase \notin Terminal => FALSE)
<1>1. PICK s \in Stages : Reached(s) /\ Outcome(s) = answer
  BY DEF Settled
<1>2. Outcome(t) # "goes on" => s = t
  BY <1>1, OneEnd
<1>3. life[t].phase \notin Terminal => Outcome(t) = "goes on"
  BY DEF Outcome, Terminal
<1>4. CASE s # t
  <2>1. s \in Before(t) \/ t \in Before(s)
    BY <1>1, <1>4, OnePath DEF Reached
  <2>2. s \notin Before(t)
    BY <1>1, PassedGoesOn DEF Reached
  <2>3. Passed(t)
    BY <1>1, <2>1, <2>2 DEF Reached
  <2>. QED  BY <1>2, <1>4, <2>3 DEF Passed, Terminal
<1>5. CASE s = t
  BY <1>1, <1>3, <1>5
<1>. QED  BY <1>4, <1>5

-----------------------------------------------------------------------------
(* The steps of jobs: a job that is not at its end moves to `new', and its *)
(* result becomes r.                                                       *)

Changes(s, new, r) == /\ Turns(s, new)
                      /\ results' = [results EXCEPT ![s] = r]
                      /\ request' = request

(* What `new' and r must be like, as in JobSound.                          *)
Fits(s, new, r) ==
  /\ new.phase \in {"done", "dead"} <=> r # NoResult
  /\ new.phase = "done" => r \in Truths(s) \cup Troubles(s)
  /\ new.phase = "done" /\ s = "source" => r \in Truths(s)
  /\ new.phase = "dead" => r.status \in {"StageTimeout", "other"}

LEMMA RowsAreRows ==
  ASSUME NEW s \in Stages, NEW new \in Rows(s)
  PROVE  /\ new \in RowType
         /\ new.tries <= MaxTries[s] /\ new.answer <= MaxTries[s]
         /\ new.phase # "absent"
<1>1. MaxTries[s] \in Nat
  BY TriesAssumption
<1>. QED  BY <1>1 DEF Rows, RowType, Phases, Terminal

LEMMA TruthsStay ==
  ASSUME request' = request, NEW s \in Stages
  PROVE  Truths(s)' = Truths(s) /\ Troubles(s)' = Troubles(s)
<1>1. /\ Checked' = Checked /\ SourcePasses' = SourcePasses /\ Compiles' = Compiles
      /\ IsCorrect' = IsCorrect /\ IsTimed' = IsTimed
  BY DEF Checked, SourcePasses, Compiles, IsCorrect, IsTimed
<1>. QED  BY <1>1 DEF Truths, Troubles, Verdict

LEMMA JobChanges ==
  ASSUME JobsSound, NEW s \in Stages, life[s].phase \notin Terminal,
         NEW new \in Rows(s), NEW r \in ResultType, Changes(s, new, r), Fits(s, new, r)
  PROVE  Kept /\ JobsSound'
<1>1. /\ life' \in [Stages -> RowType] /\ life'[s] = new
      /\ \A t \in Stages \ {s} : life'[t] = life[t]
  BY RowsAreRows DEF JobsSound, Changes, Turns
<1>2. /\ results' \in [Stages -> ResultType] /\ results'[s] = r
      /\ \A t \in Stages \ {s} : results'[t] = results[t]
  BY DEF JobsSound, Changes
<1>3. Kept
  BY <1>1, <1>2 DEF Kept, Changes
<1>4. \A t \in Stages : Truths(t)' = Truths(t) /\ Troubles(t)' = Troubles(t)
  BY TruthsStay DEF Changes
<1>5. JobSound(s)'
  BY <1>1, <1>2, <1>4, RowsAreRows DEF JobSound, Fits
<1>6. ASSUME NEW t \in Stages \ {s} PROVE JobSound(t)'
  <2>1. JobSound(t)
    BY DEF JobsSound
  <2>. QED  BY <2>1, <1>1, <1>2, <1>4 DEF JobSound
<1>. QED  BY <1>1, <1>2, <1>3, <1>5, <1>6 DEF JobsSound, Changes

(* A job that waits, runs or is withdrawn has no result yet.               *)
LEMMA JobMoves ==
  ASSUME JobsSound, NEW s \in Stages, life[s].phase \notin Terminal,
         NEW new \in Rows(s), new.phase \in {"waiting", "running", "cancelled"},
         Turns(s, new), UNCHANGED <<request, results>>
  PROVE  Kept /\ JobsSound'
<1>1. results \in [Stages -> ResultType]
  BY DEF JobsSound
<1>2. results' = [results EXCEPT ![s] = results[s]]
  BY <1>1
<1>3. Fits(s, new, results[s])
  BY DEF JobsSound, JobSound, Fits, Terminal
<1>. QED  BY <1>1, <1>2, <1>3, JobChanges DEF Changes

LEMMA JobsKept ==
  ASSUME JobsSound, UNCHANGED <<request, life, results>>
  PROVE  Kept /\ JobsSound'
<1>1. Kept
  BY DEF Kept
<1>2. ASSUME NEW s \in Stages PROVE JobSound(s)'
  <2>1. JobSound(s)
    BY DEF JobsSound
  <2>. QED  BY <2>1, TruthsStay DEF JobSound
<1>. QED  BY <1>1, <1>2 DEF JobsSound

LEMMA CheckedIsResult == Checked \in ResultType /\ Checked # NoResult
BY DEF Checked, Result, ResultType, Statuses, Parts, NoResult

LEMMA DeliverablesAreResults ==
  ASSUME NEW s \in Stages, NEW r \in Deliverable(s)
  PROVE  /\ r \in ResultType /\ r # NoResult
         /\ r \in Truths(s) \cup Troubles(s)
         /\ s = "source" => r \in Truths(s)
<1>1. ASSUME NEW z \in Statuses, z # "none"
      PROVE  Result(z, {}, "none") \in ResultType /\ Result(z, {}, "none") # NoResult
  <2>. DEFINE x == Result(z, {}, "none")
  <2>1. {} \in SUBSET Parts /\ "none" \in {"none"} \cup Parts
    OBVIOUS
  <2>2. x = [status |-> z, parts |-> {}, failed |-> "none"]
    BY DEF Result
  <2>. QED  BY <1>1, <2>1, <2>2 DEF ResultType, NoResult
<1>2. Truths(s) \subseteq ResultType \ {NoResult}
  BY <1>1, CheckedIsResult DEF Truths, Verdict, Statuses, Stages
<1>3. Troubles(s) \subseteq ResultType \ {NoResult}
  <2>1. Result("error", Checked.parts, "none") \in ResultType \ {NoResult}
    BY CheckedIsResult DEF Result, ResultType, NoResult, Statuses
  <2>. QED  BY <1>1, <2>1 DEF Troubles, Statuses
<1>4. Deliverable(s) \subseteq Truths(s) \cup Troubles(s)
  BY DEF Deliverable, Troubles
<1>5. Deliverable("source") = Truths("source")
  BY DEF Deliverable
<1>. QED  BY <1>2, <1>3, <1>4, <1>5

LEMMA BuriedIsFit ==
  ASSUME JobsSound, NEW s \in Stages, NEW error \in {"StageTimeout", "other"},
         life[s].phase \notin Terminal, Buried(s, error), request' = request
  PROVE  Kept /\ JobsSound'
<1>1. PICK new \in Rows(s) : new.phase = "dead" /\ Turns(s, new)
  BY DEF Buried, Queue!GiveUp, Queue!Goes
<1>2. Result(error, {}, "none") \in ResultType
  BY DEF Result, ResultType, Statuses
<1>3. Fits(s, new, Result(error, {}, "none"))
  BY <1>1 DEF Fits, Result, NoResult
<1>. QED  BY <1>1, <1>2, <1>3, JobChanges DEF Changes, Buried

LEMMA RetriedIsFit ==
  ASSUME JobsSound, NEW s \in Stages,
         life[s].phase \notin Terminal, Retried(s), request' = request
  PROVE  Kept /\ JobsSound'
<1>1. PICK new \in Rows(s) : new.phase = "waiting" /\ Turns(s, new)
  BY DEF Retried, Queue!Retry, Queue!Goes
<1>. QED  BY <1>1, JobMoves DEF Retried

LEMMA PendingIsOpen ==
  ASSUME NEW s \in Pending
  PROVE  s \in Stages /\ life[s].phase \notin Terminal
BY DEF Pending, Terminal

LEMMA WorkersKeep ==
  ASSUME JobsSound, NEW s \in Pending, WorkerStep(s)
  PROVE  Kept /\ JobsSound' /\ UNCHANGED <<call, answers>>
<1>. s \in Stages /\ life[s].phase \notin Terminal
  BY PendingIsOpen
<1>1. CASE Start(s)
  <2>1. PICK new \in Rows(s) : new.phase = "running" /\ Turns(s, new)
    BY <1>1 DEF Start, Queue!Start, Queue!Goes
  <2>. QED  BY <1>1, <2>1, JobMoves DEF Start
<1>2. CASE Deliver(s)
  <2>1. PICK new \in Rows(s) : new.phase = "done" /\ Turns(s, new)
    BY <1>2 DEF Deliver, Queue!Answer, Queue!Goes
  <2>2. PICK r \in Deliverable(s) : results' = [results EXCEPT ![s] = r]
    BY <1>2 DEF Deliver
  <2>3. r \in ResultType /\ Fits(s, new, r)
    BY <2>1, DeliverablesAreResults DEF Fits
  <2>. QED  BY <1>2, <2>1, <2>2, <2>3, JobChanges DEF Deliver, Changes
<1>3. CASE Fail(s)
  BY <1>3, BuriedIsFit, RetriedIsFit DEF Fail
<1>. QED  BY <1>1, <1>2, <1>3 DEF WorkerStep

-----------------------------------------------------------------------------
(* The steps of a call that leave what was answered alone.                 *)

LEMMA AnswersKept ==
  ASSUME IInv, Kept, JobsSound', call' \in CallType, CallSound', answers' = answers
  PROVE  IInv'
<1>1. \A a \in Lasting : Settled(a) => Settled(a)'
  <2>1. "goes on" \notin Lasting
    BY DEF Lasting, Evaluated, Stuck
  <2>. QED  BY <2>1, SettledStays
<1>2. AnswersSound'
  <2>1. "QueueJobCancelled" \in Lasting /\ Lasting' = Lasting
    BY DEF Lasting, Stuck, Evaluated
  <2>2. ASSUME NEW i \in DOMAIN answers', NEW a, answers'[i] = a
        PROVE  /\ a \in Lasting => Settled(a)'
               /\ a = "QueueWaitCancelled" => Settled("QueueJobCancelled")'
    BY <1>1, <2>1, <2>2 DEF IInv, AnswersSound
  <2>. QED  BY <2>1, <2>2 DEF AnswersSound
<1>3. AnswersAgree'
  BY DEF IInv, AnswersAgree
<1>. QED  BY <1>2, <1>3 DEF IInv

LEMMA CallStands ==
  ASSUME IInv, Kept, JobsSound', UNCHANGED <<call, answers>>
  PROVE  IInv'
<1>1. call.stage \in Stages
  BY DEF IInv, CallType
<1>2. call.pc # "idle" => Reached(call.stage)'
  BY <1>1, ReachedStays DEF IInv, CallSound
<1>3. life[call.stage].phase \in Terminal => life'[call.stage] = life[call.stage]
  BY <1>1 DEF Kept
<1>4. CallSound'
  BY <1>2, <1>3 DEF IInv, CallSound, Open, Idle, Terminal
<1>. QED  BY <1>4, AnswersKept DEF IInv

LEMMA CallMoves ==
  ASSUME IInv, Kept, JobsSound', call.pc # "idle", answers' = answers,
         NEW new \in CallType, call' = new, new.n = call.n, new.stage = call.stage,
         new.pc \in Waits,
         new.seen \in Terminal => life'[new.stage].phase = new.seen,
         new.seen \notin Terminal => Open,
         new.pc \in {"swept", "late"} => new.seen \notin Terminal,
         new.cancelled => new.pc = "late" /\ life'[new.stage].phase = "cancelled"
  PROVE  IInv'
<1>1. call.stage \in Stages /\ Reached(call.stage) /\ Len(answers) < call.n
  BY DEF IInv, CallType, CallSound
<1>2. Reached(call.stage)' /\ Len(answers) <= call.n
  <2>1. Len(answers) \in Nat /\ call.n \in Nat
    BY CallsAssumption DEF IInv, CallType
  <2>. QED  BY <1>1, <2>1, ReachedStays
<1>3. Open' <=> Open
  BY DEF Open
<1>4. new.pc # "idle"
  BY DEF Waits
<1>5. Reached(new.stage)'
  BY <1>2 DEF Reached, Asked, Before, Passed
<1>6. CallSound'
  BY <1>1, <1>2, <1>3, <1>4, <1>5 DEF CallSound
<1>. QED  BY <1>6, AnswersKept

LEMMA OpenHere ==
  ASSUME IInv, call.pc # "idle", life[call.stage].phase \notin Terminal
  PROVE  Open
<1>1. call.stage \in Stages /\ Reached(call.stage)
  BY DEF IInv, CallType, CallSound
<1>2. "goes on" \notin Lasting
  BY DEF Lasting, Evaluated, Stuck
<1>3. ASSUME NEW i \in DOMAIN answers
      PROVE  answers[i] \notin Lasting \cup {"QueueWaitCancelled"}
  BY <1>1, <1>2, SettledHere DEF IInv, AnswersSound
<1>. QED  BY <1>3 DEF Open

LEMMA CallPlaces ==
  /\ Waits \subseteq Places /\ {"stored", "swept", "checked", "late"} \subseteq Waits
  /\ {"idle"} \subseteq Places /\ {"asking"} \subseteq Places
BY DEF Places, Waits

LEMMA Beginning ==
  ASSUME IInv, Begin
  PROVE  IInv'
<1>1. Kept /\ JobsSound'
  BY JobsKept DEF IInv, Begin
<1>2. call.n \in 0 .. MaxCalls /\ call.n + 1 \in 0 .. MaxCalls /\ "source" \in Stages
  BY CallsAssumption, StageLists DEF IInv, CallType, Begin
<1>3. call = Idle(call.n)
  BY DEF IInv, CallSound, Begin, At
<1>4. /\ call.stage = "source" /\ call.cancelled = FALSE
      /\ call' = [call EXCEPT !.pc = "asking", !.n = call.n + 1]
  BY <1>3 DEF Idle, Begin
<1>5. call' \in CallType
  BY <1>2, <1>4, CallPlaces DEF IInv, CallType
<1>6. call'.stage = "source" /\ ~call'.cancelled /\ call'.pc = "asking" /\ call'.n = call.n + 1
  BY <1>4 DEF IInv, CallType
<1>7. Reached("source")'
  BY DEF Reached, Asked, Before, Parts
<1>8. Len(answers) <= call.n /\ Len(answers) \in Nat
  BY DEF IInv, CallSound
<1>9. answers' = answers
  BY DEF Begin
<1>10. CallSound'
  BY <1>2, <1>6, <1>7, <1>8, <1>9 DEF CallSound, Waits
<1>. QED  BY <1>1, <1>5, <1>9, <1>10, AnswersKept

LEMMA Enqueueing ==
  ASSUME IInv, Enqueue
  PROVE  IInv'
<1>. DEFINE s == call.stage
<1>1. s \in Stages /\ life \in [Stages -> RowType] /\ call.pc # "idle" /\ ~call.cancelled
  BY DEF IInv, CallType, CallSound, JobsSound, Enqueue, At
<1>2. CASE \E new \in Rows(s) : Queue!Submit(life[s], new) /\ Turns(s, new)
  <2>1. PICK new \in Rows(s) : /\ life[s].phase = "absent" /\ new.phase = "waiting"
                               /\ Turns(s, new)
    BY <1>2 DEF Queue!Submit, Queue!Goes
  <2>2. Kept /\ JobsSound'
    BY <1>1, <2>1, JobMoves DEF IInv, Terminal, Enqueue
  <2>3. life'[s].phase = "waiting" /\ "waiting" \in Phases
    BY <1>1, <2>1 DEF Turns, Phases
  <2>4. Open
    BY <1>1, <2>1, OpenHere DEF Terminal
  <2>5. call' = [call EXCEPT !.pc = "stored", !.seen = "waiting"]
    BY <2>3 DEF Enqueue
  <2>6. call' \in CallType
    BY <2>3, <2>5, CallPlaces DEF IInv, CallType
  <2>7. /\ call'.n = call.n /\ call'.stage = s /\ call'.pc = "stored"
        /\ call'.seen = "waiting" /\ call'.cancelled = FALSE
    BY <1>1, <2>5 DEF IInv, CallType
  <2>. QED  BY <1>1, <2>2, <2>4, <2>6, <2>7, CallMoves, CallPlaces DEF Terminal, Enqueue
<1>3. CASE life[s].phase # "absent" /\ UNCHANGED life
  <2>1. Kept /\ JobsSound'
    BY <1>3, JobsKept DEF IInv, Enqueue
  <2>2. life[s].phase \in Phases
    BY <1>1 DEF RowType
  <2>3. call' = [call EXCEPT !.pc = "stored", !.seen = life[s].phase]
    BY <1>3 DEF Enqueue
  <2>4. call' \in CallType
    BY <2>2, <2>3, CallPlaces DEF IInv, CallType
  <2>5. /\ call'.n = call.n /\ call'.stage = s /\ call'.pc = "stored"
        /\ call'.seen = life[s].phase /\ call'.cancelled = FALSE
    BY <1>1, <2>3 DEF IInv, CallType
  <2>6. call'.seen \notin Terminal => Open
    BY <1>1, <2>5, OpenHere
  <2>. QED  BY <1>1, <1>3, <2>1, <2>4, <2>5, <2>6, CallMoves, CallPlaces DEF Enqueue
<1>. QED  BY <1>2, <1>3 DEF Enqueue

LEMMA Sweeping ==
  ASSUME IInv, Sweep
  PROVE  IInv'
<1>1. Kept /\ JobsSound'
  <2>1. CASE UNCHANGED <<life, results>>
    BY <2>1, JobsKept DEF IInv, Sweep
  <2>2. ASSUME NEW s \in Pending, Retried(s)
        PROVE  Kept /\ JobsSound'
    BY <2>2, PendingIsOpen, RetriedIsFit DEF IInv, Sweep
  <2>3. ASSUME NEW s \in Pending, Buried(s, "other")
        PROVE  Kept /\ JobsSound'
    BY <2>3, PendingIsOpen, BuriedIsFit DEF IInv, Sweep
  <2>. QED  BY <2>1, <2>2, <2>3 DEF Sweep
<1>2. call' = [call EXCEPT !.pc = "swept"] /\ call.pc = "stored"
  BY DEF Sweep, At
<1>3. call' \in CallType
  BY <1>2, CallPlaces DEF IInv, CallType
<1>4. /\ call'.n = call.n /\ call'.stage = call.stage /\ call'.pc = "swept"
      /\ call'.seen = call.seen /\ call'.cancelled = call.cancelled
  BY <1>2 DEF IInv, CallType
<1>5. ~call.cancelled /\ call.seen \notin Terminal /\ Open
  BY <1>2, CallPlaces DEF IInv, CallSound, Sweep
<1>. QED  BY <1>1, <1>2, <1>3, <1>4, <1>5, CallMoves, CallPlaces DEF Sweep

(* The row is read again.                                                  *)
LEMMA Reading ==
  ASSUME IInv, call.pc \in {"swept", "checked"}, ~call.cancelled,
         NEW pc \in {"stored", "checked"},
         call' = [call EXCEPT !.pc = pc, !.seen = life[call.stage].phase],
         UNCHANGED <<request, life, results, answers>>
  PROVE  IInv'
<1>1. Kept /\ JobsSound'
  BY JobsKept DEF IInv
<1>2. call.stage \in Stages /\ life[call.stage].phase \in Phases
  BY DEF IInv, CallType, JobsSound, RowType
<1>3. call' \in CallType
  BY <1>2, CallPlaces DEF IInv, CallType
<1>4. /\ call'.n = call.n /\ call'.stage = call.stage /\ call'.pc = pc
      /\ call'.seen = life[call.stage].phase /\ call'.cancelled = call.cancelled
  BY DEF IInv, CallType
<1>5. call'.seen \notin Terminal => Open
  BY <1>4, OpenHere
<1>. QED  BY <1>1, <1>3, <1>4, <1>5, CallMoves, CallPlaces

LEMMA Waiting ==
  ASSUME IInv, Deadline
  PROVE  IInv'
<1>. DEFINE s == call.stage
<1>1. /\ s \in Stages /\ life \in [Stages -> RowType]
      /\ call.pc = "checked" /\ call.seen \notin Terminal /\ ~call.cancelled /\ Open
  BY CallPlaces DEF IInv, CallType, CallSound, JobsSound, Deadline, At
<1>2. CASE /\ \E new \in Rows(s) : Queue!Withdraw(life[s], new) /\ Turns(s, new)
           /\ call' = [call EXCEPT !.pc = "late", !.cancelled = TRUE]
  <2>1. PICK new \in Rows(s) : /\ life[s].phase = "waiting" /\ new.phase = "cancelled"
                               /\ Turns(s, new)
    BY <1>2 DEF Queue!Withdraw, Queue!Goes
  <2>2. Kept /\ JobsSound'
    BY <1>1, <2>1, JobMoves DEF IInv, Terminal, Deadline
  <2>3. life'[s].phase = "cancelled"
    BY <1>1, <2>1 DEF Turns
  <2>4. call' \in CallType
    BY <1>2, CallPlaces DEF IInv, CallType
  <2>5. /\ call'.n = call.n /\ call'.stage = s /\ call'.pc = "late"
        /\ call'.seen = call.seen
    BY <1>2 DEF IInv, CallType
  <2>. QED  BY <1>1, <2>2, <2>3, <2>4, <2>5, CallMoves, CallPlaces DEF Deadline
<1>3. CASE UNCHANGED life /\ call' = [call EXCEPT !.pc = "late"]
  <2>1. Kept /\ JobsSound'
    BY <1>3, JobsKept DEF IInv, Deadline
  <2>2. call' \in CallType
    BY <1>3, CallPlaces DEF IInv, CallType
  <2>3. /\ call'.n = call.n /\ call'.stage = s /\ call'.pc = "late"
        /\ call'.seen = call.seen /\ call'.cancelled = call.cancelled
    BY <1>3 DEF IInv, CallType
  <2>. QED  BY <1>1, <2>1, <2>2, <2>3, CallMoves, CallPlaces DEF Deadline
<1>. QED  BY <1>2, <1>3 DEF Deadline

-----------------------------------------------------------------------------
(* The steps that answer.                                                  *)

LEMMA IdleIsCall ==
  ASSUME IInv
  PROVE  Idle(call.n) \in CallType
<1>1. /\ call.n \in 0 .. MaxCalls /\ "source" \in Stages /\ "absent" \in Phases
      /\ "idle" \in Places
  BY StageLists, CallPlaces DEF IInv, CallType, Phases
<1>. QED  BY <1>1 DEF Idle, CallType

LEMMA IdleIsSound ==
  ASSUME call' = Idle(call.n), Len(answers') <= call.n
  PROVE  CallSound'
BY DEF CallSound, Idle, Waits

LEMMA Answering ==
  ASSUME IInv, call.pc # "idle", NEW a \in Answers, Ends(a),
         a \in Lasting => Outcome(call.stage) = a,
         a = "QueueWaitCancelled" => Outcome(call.stage) = "QueueJobCancelled",
         a \in {"QueueWaitTimeout", "QueueWaitCancelled"} => Open
  PROVE  IInv'
<1>. DEFINE n == Len(answers)
<1>1. Kept /\ JobsSound'
  BY JobsKept DEF IInv, Ends
<1>2. call.stage \in Stages /\ Reached(call.stage) /\ n < call.n
  BY DEF IInv, CallType, CallSound
<1>3. /\ answers' \in Seq(Answers) /\ Len(answers') = n + 1 /\ answers'[n + 1] = a
      /\ n \in Nat /\ DOMAIN answers = 1 .. n /\ DOMAIN answers' = 1 .. n + 1
      /\ \A i \in 1 .. n : answers'[i] = answers[i]
  BY DEF IInv, Ends
<1>4. call' = Idle(call.n) /\ call' \in CallType /\ CallSound'
  <2>1. call' = Idle(call.n)
    BY DEF Ends
  <2>2. call.n \in Nat
    BY CallsAssumption DEF IInv, CallType
  <2>. QED  BY <1>2, <1>3, <2>1, <2>2, IdleIsCall, IdleIsSound
<1>5. "QueueJobCancelled" \in Lasting /\ \A b \in Lasting : Settled(b) => Settled(b)'
  <2>1. "goes on" \notin Lasting /\ "QueueJobCancelled" \in Lasting
    BY DEF Lasting, Evaluated, Stuck
  <2>. QED  BY <1>1, <2>1, SettledStays
<1>6. AnswersSound'
  <2>1. Lasting' = Lasting
    BY DEF Lasting, Evaluated, Stuck
  <2>2. a \in Lasting => Settled(a)
    BY <1>2 DEF Settled
  <2>3. a = "QueueWaitCancelled" => Settled("QueueJobCancelled")
    BY <1>2 DEF Settled
  <2>4. ASSUME NEW i \in 1 .. n + 1, NEW b, answers'[i] = b
        PROVE  /\ b \in Lasting => Settled(b)'
               /\ b = "QueueWaitCancelled" => Settled("QueueJobCancelled")'
    <3>1. CASE i = n + 1
      BY <1>3, <1>5, <2>2, <2>3, <2>4, <3>1
    <3>2. CASE i \in 1 .. n
      BY <1>3, <1>5, <2>4, <3>2 DEF IInv, AnswersSound
    <3>. QED  BY <1>3, <3>1, <3>2
  <2>. QED  BY <1>3, <2>1, <2>4 DEF AnswersSound
<1>7. AnswersAgree'
  <2>1. ASSUME NEW i \in 1 .. n
        PROVE  /\ answers[i] \in Lasting => a \in {answers[i], "QueueProtocolError"}
               /\ answers[i] = "QueueWaitCancelled"
                    => a \in {"QueueJobCancelled", "QueueProtocolError"}
    <3>1. "goes on" \notin Lasting /\ "QueueJobCancelled" \in Lasting
      BY DEF Lasting, Evaluated, Stuck
    <3>2. a \in Lasting \/ a \in {"QueueWaitTimeout", "QueueWaitCancelled"}
            \/ a = "QueueProtocolError"
      BY DEF Answers
    <3>3. CASE a \in Lasting
      <4>1. Outcome(call.stage) = a /\ a # "goes on"
        BY <3>1, <3>3
      <4>2. answers[i] \in Lasting => Settled(answers[i])
        BY <1>3 DEF IInv, AnswersSound
      <4>3. answers[i] = "QueueWaitCancelled" => Settled("QueueJobCancelled")
        BY <1>3 DEF IInv, AnswersSound
      <4>4. \A b : b # "goes on" /\ Settled(b) => Outcome(call.stage) \in {"goes on", b}
        BY <1>2, SettledHere
      <4>. QED  BY <3>1, <4>1, <4>2, <4>3, <4>4
    <3>4. CASE a \in {"QueueWaitTimeout", "QueueWaitCancelled"}
      BY <1>3, <3>4 DEF Open
    <3>. QED  BY <3>2, <3>3, <3>4
  <2>2. ASSUME NEW i \in 1 .. n, NEW j \in 1 .. n, i < j
        PROVE  /\ answers[i] \in Lasting => answers[j] \in {answers[i], "QueueProtocolError"}
               /\ answers[i] = "QueueWaitCancelled"
                    => answers[j] \in {"QueueJobCancelled", "QueueProtocolError"}
    BY <1>3, <2>2 DEF IInv, AnswersAgree, Lasting
  <2>3. ASSUME NEW i \in 1 .. n + 1, NEW j \in 1 .. n + 1, i < j
        PROVE  /\ answers'[i] \in Lasting
                    => answers'[j] \in {answers'[i], "QueueProtocolError"}
               /\ answers'[i] = "QueueWaitCancelled"
                    => answers'[j] \in {"QueueJobCancelled", "QueueProtocolError"}
    <3>1. i \in 1 .. n /\ answers'[i] = answers[i]
      BY <1>3, <2>3
    <3>2. CASE j = n + 1
      BY <1>3, <2>1, <3>1, <3>2
    <3>3. CASE j \in 1 .. n
      BY <1>3, <2>2, <2>3, <3>1, <3>3
    <3>. QED  BY <1>3, <3>2, <3>3
  <2>. QED  BY <1>3, <2>3 DEF AnswersAgree, Lasting, Evaluated, Stuck
<1>. QED  BY <1>1, <1>3, <1>4, <1>6, <1>7 DEF IInv

LEMMA ResultsHere ==
  ASSUME IInv, call.pc # "idle"
  PROVE  /\ call.stage \in Stages /\ Reached(call.stage)
         /\ life[call.stage].phase \in Phases /\ results[call.stage] \in ResultType
BY DEF IInv, CallType, CallSound, JobsSound, RowType

LEMMA JudgedIsAnswer ==
  ASSUME NEW s \in Stages, NEW r, Judged(s, r) # "goes on"
  PROVE  Judged(s, r) \in Evaluated
BY DEF Judged, Complete, CombinedFailure, Failure, Evaluated

LEMMA FollowingIsReached ==
  ASSUME NEW s \in Stages, Reached(s), Passed(s), Following(s) # "none"
  PROVE  Following(s) \in Stages /\ Reached(Following(s))
<1>. DEFINE t == Following(s)
<1>1. t \in Stages /\ Asked(t) /\ Before(t) \subseteq Before(s) \cup {s}
  BY DEF Reached, Following, Asked, Before, Stages, Parts
<1>2. \A u \in Before(t) : Passed(u)
  BY <1>1 DEF Reached
<1>. QED  BY <1>1, <1>2 DEF Reached

LEMMA Proceeding ==
  ASSUME IInv, call.pc # "idle", NEW r, Proceeds(call.stage, r),
         Judged(call.stage, r) # "goes on" => Outcome(call.stage) = Judged(call.stage, r),
         r.status = "pass" /\ call.stage # "profile" => Passed(call.stage)
  PROVE  IInv'
<1>. DEFINE s == call.stage
<1>1. s \in Stages /\ Reached(s)
  BY ResultsHere
<1>2. CASE Judged(s, r) # "goes on"
  <2>1. Ends(Judged(s, r))
    BY <1>2 DEF Proceeds, Judged
  <2>2. Judged(s, r) \in Evaluated
    BY <1>1, <1>2, JudgedIsAnswer
  <2>3. /\ Judged(s, r) \in Answers
        /\ Judged(s, r) \notin {"QueueWaitTimeout", "QueueWaitCancelled"}
    BY <2>2 DEF Answers, Lasting, Evaluated
  <2>. QED  BY <1>2, <2>1, <2>3, Answering
<1>3. CASE Judged(s, r) = "goes on"
  <2>1. Following(s) # "none" /\ ~(r.status # "pass" /\ s # "profile")
    BY <1>3 DEF Judged, Complete, CombinedFailure, Failure
  <2>2. s # "profile"
    BY <2>1 DEF Following
  <2>3. Passed(s)
    BY <2>1, <2>2
  <2>4. PICK t \in Stages : t = Following(s) /\ Reached(t)
    BY <1>1, <2>1, <2>3, FollowingIsReached
  <2>5. /\ call' = [call EXCEPT !.pc = "asking", !.stage = t]
        /\ UNCHANGED <<request, life, results, answers>>
    BY <2>1, <2>4 DEF Proceeds
  <2>6. Kept /\ JobsSound'
    BY <2>5, JobsKept DEF IInv
  <2>7. call' \in CallType
    BY <2>5, CallPlaces DEF IInv, CallType
  <2>8. /\ call'.n = call.n /\ call'.stage = t /\ call'.pc = "asking"
        /\ call'.cancelled = call.cancelled
    BY <2>5 DEF IInv, CallType
  <2>9. ~call.cancelled
    BY <2>3 DEF IInv, CallSound, Passed
  <2>10. Reached(t)'
    BY <2>4, <2>6, ReachedStays
  <2>11. Reached(call.stage)'
    BY <2>8, <2>10 DEF Reached, Asked, Before, Passed
  <2>12. Len(answers) < call.n /\ (Len(answers) < call.n => Len(answers) <= call.n)
    BY CallsAssumption DEF IInv, CallSound, CallType
  <2>13. CallSound'
    BY <2>5, <2>8, <2>9, <2>11, <2>12 DEF CallSound, Waits
  <2>. QED  BY <2>5, <2>6, <2>7, <2>13, AnswersKept
<1>. QED  BY <1>2, <1>3

LEMMA Concluding ==
  ASSUME IInv, Conclude
  PROVE  IInv'
<1>. DEFINE s == call.stage
            late == Result("timeout", {}, "none")
<1>1. call.pc # "idle" /\ life[s].phase = call.seen /\ s \in Stages
  BY CallPlaces, ResultsHere DEF IInv, CallSound, Conclude
<1>2. CASE call.seen = "done" /\ Proceeds(s, results[s])
  <2>1. Outcome(s) = Judged(s, results[s])
    BY <1>1, <1>2 DEF Outcome
  <2>2. results[s].status = "pass" => Passed(s)
    BY <1>1, <1>2 DEF Passed
  <2>. QED  BY <1>1, <1>2, <2>1, <2>2, Proceeding
<1>3. CASE call.seen = "dead" /\ TimedOut(s) /\ Proceeds(s, late)
  <2>1. Outcome(s) = Judged(s, late)
    BY <1>1, <1>3 DEF Outcome
  <2>2. late.status # "pass"
    BY DEF Result
  <2>. QED  BY <1>1, <1>3, <2>1, <2>2, Proceeding
<1>4. CASE call.seen = "dead" /\ ~TimedOut(s) /\ Ends("QueueJobFailed")
  <2>1. Outcome(s) = "QueueJobFailed"
    BY <1>1, <1>4 DEF Outcome
  <2>. QED  BY <1>1, <1>4, <2>1, Answering DEF Answers, Lasting, Stuck
<1>5. CASE call.seen = "cancelled" /\ Ends("QueueJobCancelled")
  <2>1. Outcome(s) = "QueueJobCancelled"
    BY <1>1, <1>5 DEF Outcome
  <2>. QED  BY <1>1, <1>5, <2>1, Answering DEF Answers, Lasting, Stuck
<1>6. call.seen \in {"done", "dead", "cancelled"}
  BY DEF Conclude, Terminal
<1>. QED  BY <1>2, <1>3, <1>4, <1>5, <1>6 DEF Conclude

LEMMA Mistrusting ==
  ASSUME IInv, Mistrust
  PROVE  IInv'
<1>1. call.pc # "idle" /\ Ends("QueueProtocolError")
  BY DEF Mistrust, At
<1>2. "QueueProtocolError" \in Answers /\ "QueueProtocolError" \notin Lasting
  BY DEF Answers, Lasting, Evaluated, Stuck
<1>. QED  BY <1>1, <1>2, Answering

LEMMA LookingOnce ==
  ASSUME IInv, Latest
  PROVE  IInv'
<1>. DEFINE s == call.stage
<1>1. /\ call.pc # "idle" /\ s \in Stages /\ Open
      /\ call.cancelled => life[s].phase = "cancelled"
  BY CallPlaces, ResultsHere DEF IInv, CallSound, Latest, At
<1>2. CASE life[s].phase = "done" /\ Proceeds(s, results[s])
  <2>1. Outcome(s) = Judged(s, results[s])
    BY <1>2 DEF Outcome
  <2>2. results[s].status = "pass" => Passed(s)
    BY <1>2 DEF Passed
  <2>. QED  BY <1>1, <1>2, <2>1, <2>2, Proceeding
<1>3. CASE call.cancelled /\ Ends("QueueWaitCancelled")
  <2>1. Outcome(s) = "QueueJobCancelled"
    BY <1>1, <1>3 DEF Outcome
  <2>2. "QueueWaitCancelled" \in Answers /\ "QueueWaitCancelled" \notin Lasting
    BY DEF Answers, Lasting, Evaluated, Stuck
  <2>. QED  BY <1>1, <1>3, <2>1, <2>2, Answering
<1>4. CASE Ends("QueueWaitTimeout")
  <2>1. "QueueWaitTimeout" \in Answers /\ "QueueWaitTimeout" \notin Lasting
    BY DEF Answers, Lasting, Evaluated, Stuck
  <2>. QED  BY <1>1, <1>4, <2>1, Answering
<1>. QED  BY <1>2, <1>3, <1>4 DEF Latest

LEMMA Crashing ==
  ASSUME IInv, Crash
  PROVE  IInv'
<1>1. Kept /\ JobsSound'
  BY JobsKept DEF IInv, Crash
<1>2. call' = Idle(call.n) /\ answers' = answers
  BY DEF Crash
<1>3. call' \in CallType
  BY <1>2, IdleIsCall
<1>4. Len(answers') <= call.n
  BY <1>2 DEF IInv, CallSound
<1>. QED  BY <1>1, <1>2, <1>3, <1>4, IdleIsSound, AnswersKept

-----------------------------------------------------------------------------
LEMMA InitIInv == Init => IInv
<1>. SUFFICES ASSUME Init PROVE IInv
  OBVIOUS
<1>1. life = [s \in Stages |-> [phase |-> "absent", tries |-> 0, answer |-> 0]]
  BY DEF Init, Queue!Init
<1>2. /\ [phase |-> "absent", tries |-> 0, answer |-> 0] \in RowType
      /\ NoResult \in ResultType
  BY DEF RowType, Phases, NoResult, ResultType, Statuses
<1>3. \A s \in Stages : JobSound(s)
  BY <1>1, TriesAssumption DEF Init, JobSound
<1>4. JobsSound
  BY <1>1, <1>2, <1>3 DEF Init, JobsSound
<1>5. 0 \in 0 .. MaxCalls /\ "source" \in Stages /\ "absent" \in Phases /\ "idle" \in Places
  BY CallsAssumption, StageLists, CallPlaces DEF Phases
<1>6. call \in CallType /\ CallSound
  BY <1>5 DEF Init, Idle, CallType, CallSound, Waits
<1>7. answers = <<>>
  BY DEF Init
<1>. QED  BY <1>4, <1>6, <1>7 DEF IInv, AnswersSound, AnswersAgree

LEMMA NextIInv == IInv /\ [Next]_vars => IInv'
<1>. SUFFICES ASSUME IInv, [Next]_vars PROVE IInv'
  OBVIOUS
<1>1. CASE Begin
  BY <1>1, Beginning
<1>2. CASE WaitStep
  <2>1. CASE Check
    <3>1. ~call.cancelled
      BY <2>1 DEF IInv, CallSound, Check, At
    <3>. QED  BY <2>1, <3>1, Reading DEF Check, At
  <2>2. CASE Refresh
    <3>1. ~call.cancelled
      BY <2>2 DEF IInv, CallSound, Refresh, At
    <3>. QED  BY <2>2, <3>1, Reading DEF Refresh, At
  <2>. QED  BY <1>2, <2>1, <2>2, Enqueueing, Concluding, Mistrusting, Sweeping, Waiting,
               LookingOnce DEF WaitStep
<1>3. CASE Crash
  BY <1>3, Crashing
<1>4. ASSUME NEW s \in Pending, WorkerStep(s) PROVE IInv'
  BY <1>4, WorkersKeep, CallStands DEF IInv
<1>5. CASE UNCHANGED vars
  BY <1>5, JobsKept, CallStands DEF IInv, vars
<1>. QED  BY <1>1, <1>2, <1>3, <1>4, <1>5 DEF Next

(* The strengthened invariant holds in every reachable state.              *)
THEOREM Inductive == Spec => []IInv
<1>. QED  BY InitIInv, NextIInv, PTL DEF Spec

(* Request, jobs, call and answers keep their types (QueueEvaluationBackend *)
(* and the jobs it asks for).                                              *)
THEOREM TypeCorrect == Spec => []TypeOK
<1>1. IInv => TypeOK
  <2>. SUFFICES ASSUME IInv PROVE TypeOK
    OBVIOUS
  <2>1. ASSUME NEW s \in Stages
        PROVE  /\ life[s] \in Rows(s) \cup [phase : {"absent"}, tries : {0}, answer : {0}]
               /\ life[s].phase \in {"done", "dead"} <=> results[s] # NoResult
               /\ results[s] \in [status : {"none", "pass", "fail", "error", "timeout",
                                            "unavailable", "StageTimeout", "other"},
                                  parts : SUBSET {"compile", "correctness", "benchmark"},
                                  failed : {"none", "compile", "correctness", "benchmark"}]
    <3>1. JobSound(s) /\ life[s] \in RowType /\ results[s] \in ResultType
      BY DEF IInv, JobsSound
    <3>2. life[s] \in Rows(s) \cup [phase : {"absent"}, tries : {0}, answer : {0}]
      BY <3>1, TriesAssumption DEF JobSound, RowType, Rows, Phases, Terminal
    <3>3. Statuses = {"none", "pass", "fail", "error", "timeout", "unavailable",
                      "StageTimeout", "other"}
      BY DEF Statuses
    <3>4. Parts = {"compile", "correctness", "benchmark"}
      BY DEF Parts
    <3>5. {"none"} \cup Parts = {"none", "compile", "correctness", "benchmark"}
      BY <3>4
    <3>. QED  BY <3>1, <3>2, <3>3, <3>4, <3>5 DEF JobSound, ResultType
  <2>2. /\ call.pc \in {"idle", "asking", "stored", "swept", "checked", "late"}
        /\ call.n \in 0 .. MaxCalls /\ call.stage \in Stages /\ Len(answers) <= call.n
    BY DEF IInv, CallType, CallSound, Places, Waits
  <2>3. ASSUME NEW i \in DOMAIN answers
        PROVE  answers[i] \in Evaluated \cup Stuck \cup
                 {"QueueWaitTimeout", "QueueWaitCancelled", "QueueProtocolError"}
    BY DEF IInv, Answers, Lasting
  <2>. QED  BY <2>1, <2>2, <2>3 DEF IInv, JobsSound, TypeOK
<1>. QED  BY <1>1, Inductive, PTL

(* What was answered once is answered again, however often the evaluation  *)
(* is asked for, and whatever becomes of its calls (_wait, _make_job).     *)
THEOREM CallsAgree == Spec => []AnswersAgree
<1>1. IInv => AnswersAgree
  BY DEF IInv
<1>. QED  BY <1>1, Inductive, PTL

-----------------------------------------------------------------------------
(* What a stage that came to its end says about the candidate.             *)

LEMMA PassIsTrue ==
  ASSUME JobsSound, NEW s \in Stages, Passed(s), s # "profile"
  PROVE  /\ s = "source" => SourcePasses
         /\ s \in {"compile", "evaluation"} => Compiles
         /\ s \in {"correctness", "evaluation"} => IsCorrect
         /\ s \in {"benchmark", "evaluation"} => IsTimed
<1>1. results[s] \in Truths(s) \cup Troubles(s) /\ results[s].status = "pass"
  BY DEF JobsSound, JobSound, Passed
<1>2. \A r \in Troubles(s) : r.status # "pass"
  BY DEF Troubles, Result
<1>3. results[s] \in Truths(s)
  BY <1>1, <1>2
<1>4. CASE s = "evaluation"
  BY <1>1, <1>3, <1>4 DEF Truths, Checked, Result
<1>5. CASE s # "evaluation"
  BY <1>1, <1>3, <1>5 DEF Truths, Verdict, Result, Stages
<1>. QED  BY <1>4, <1>5

LEMMA ValidIsGood ==
  ASSUME JobsSound, NEW s \in Stages, Reached(s), Outcome(s) = "VALID"
  PROVE  request.candidate = "good" /\ request.incumbent /\ request.measured
<1>1. Following(s) = "none" /\ (s = "profile" \/ Passed(s)) /\ request.measured
  BY DEF Outcome, Judged, Complete, CombinedFailure, Failure, Passed, Result
<1>2. \A t \in Before(s) : t \in Stages /\ Passed(t) /\ t # "profile"
  <2>1. "profile" \notin Before(s)
    BY DEF Before, Stages
  <2>. QED  BY <2>1, StageLists DEF Reached
<1>3. Passed("source")
  BY <1>1, <1>2 DEF Before, Following, Stages
<1>4. \/ Passed("evaluation")
      \/ Passed("compile") /\ Passed("correctness") /\ Passed("benchmark")
  <2>1. s \in {"benchmark", "evaluation", "profile"}
    BY <1>1 DEF Following, Stages
  <2>2. CASE s = "benchmark"
    BY <1>1, <1>2, <2>2 DEF Before
  <2>3. CASE s = "evaluation"
    BY <1>1, <2>3
  <2>4. CASE s = "profile"
    BY <1>2, <2>4 DEF Before
  <2>. QED  BY <2>1, <2>2, <2>3, <2>4
<1>5. SourcePasses /\ Compiles /\ IsCorrect /\ IsTimed
  BY <1>3, <1>4, PassIsTrue DEF Stages
<1>6. request.candidate \in {"source", "compile", "correctness", "benchmark", "good"}
  BY DEF JobsSound, Requests
<1>. QED  BY <1>1, <1>5, <1>6 DEF SourcePasses, Compiles, IsCorrect, IsTimed

LEMMA InvalidIsEarned ==
  ASSUME JobsSound, NEW s \in Stages, Outcome(s) = "INVALID_CANDIDATE"
  PROVE  \/ request.candidate # "good" \/ ~request.incumbent
         \/ /\ results["evaluation"].status = "error"
            /\ results["evaluation"].parts # {}
<1>. DEFINE r == results[s]
            Blamed == request.candidate # "good" \/ ~request.incumbent
<1>1. life[s].phase = "done"
  BY DEF Outcome, Judged, Complete, CombinedFailure, Failure, Infrastructure, Part,
         FailedPart, Result
<1>2. Judged(s, r) = "INVALID_CANDIDATE" /\ r \in Truths(s) \cup Troubles(s)
  BY <1>1 DEF Outcome, JobsSound, JobSound
<1>3. r.status # "pass" /\ s # "profile"
  BY <1>2 DEF Judged, Complete
<1>4. CASE r \in Truths(s)
  <2>1. CASE s = "evaluation"
    BY <1>3, <1>4, <2>1 DEF Truths, Checked, Result, Compiles, IsCorrect, IsTimed
  <2>2. CASE s # "evaluation"
    BY <1>3, <1>4, <2>2 DEF Truths, Verdict, Result, SourcePasses, Compiles, IsCorrect,
                            IsTimed, Stages
  <2>. QED  BY <2>1, <2>2
<1>5. CASE r \in Troubles(s)
  <2>1. CASE r \in {Result(z, {}, "none") : z \in {"error", "timeout"}}
    BY <1>2, <1>3, <2>1 DEF Judged, Complete, CombinedFailure, Failure, Infrastructure, Part,
                            FailedPart, Result
  <2>2. CASE s = "evaluation" /\ Checked.status = "pass"
             /\ r = Result("error", Checked.parts, "none")
    <3>1. Checked.parts # {}
      BY <2>2 DEF Checked, Result
    <3>. QED  BY <2>2, <3>1 DEF Result
  <2>. QED  BY <1>5, <2>1, <2>2 DEF Troubles
<1>. QED  BY <1>2, <1>4, <1>5

(* A candidate is valid only if it stands every check and was timed, and   *)
(* invalid only for a check it does not stand, save for the exception      *)
(* BlameIsEarned names (evaluate_candidate).                               *)
THEOREM EarnedBlame == Spec => []BlameIsEarned
<1>1. ASSUME IInv PROVE BlameIsEarned
  <2>1. ASSUME NEW i \in DOMAIN answers, answers[i] \in Evaluated
        PROVE  \E s \in Stages : Reached(s) /\ Outcome(s) = answers[i]
    BY <1>1, <2>1 DEF IInv, AnswersSound, Settled, Lasting
  <2>. QED  BY <1>1, <2>1, ValidIsGood, InvalidIsEarned DEF IInv, BlameIsEarned, Evaluated
<1>. QED  BY <1>1, Inductive, PTL

-----------------------------------------------------------------------------
LEMMA AnswerIsLast ==
  ASSUME IInv, NEW a, Ends(a)
  PROVE  answers'[Len(answers')] = a
<1>1. answers \in Seq(Answers)
  BY DEF IInv
<1>. QED  BY <1>1 DEF Ends

LEMMA ProceedsAnswers ==
  ASSUME IInv, NEW s \in Stages, NEW r, Proceeds(s, r), answers' # answers
  PROVE  answers'[Len(answers')] \notin {"QueueWaitTimeout", "QueueWaitCancelled"}
<1>1. PICK a \in Evaluated : Ends(a)
  BY DEF Proceeds, Complete, CombinedFailure, Failure, Evaluated
<1>. QED  BY <1>1, AnswerIsLast DEF Evaluated

(* No wait ends in a timeout beside an answer that is there, and a wait    *)
(* that says it cancelled its job did (_wait).                             *)
THEOREM AnswerInTime == Spec => CompletionWins
<1>. DEFINE late == answers' # answers =>
              LET answer == answers'[Len(answers')]
                  phase == life[call.stage].phase
              IN /\ answer = "QueueWaitTimeout" => phase # "done"
                 /\ answer = "QueueWaitCancelled" => phase = "cancelled"
<1>1. IInv /\ [Next]_vars => [late]_vars
  <2>. SUFFICES ASSUME IInv, [Next]_vars, answers' # answers PROVE late
    OBVIOUS
  <2>1. call.stage \in Stages
    BY DEF IInv, CallType
  <2>2. Conclude \/ Mistrust \/ Latest
    BY WorkersKeep DEF IInv, Next, WaitStep, Begin, Crash, Enqueue, Sweep, Check, Refresh,
                       Deadline, vars
  <2>3. CASE Conclude
    BY <2>1, <2>3, ProceedsAnswers, AnswerIsLast DEF Conclude, Terminal
  <2>4. CASE Mistrust
    BY <2>4, AnswerIsLast DEF Mistrust
  <2>5. CASE Latest
    <3>1. call.cancelled => life[call.stage].phase = "cancelled"
      BY DEF IInv, CallSound
    <3>. QED  BY <2>1, <2>5, <3>1, ProceedsAnswers, AnswerIsLast DEF Latest
  <2>. QED  BY <2>2, <2>3, <2>4, <2>5
<1>. QED  BY <1>1, Inductive, PTL DEF Spec, CompletionWins

-----------------------------------------------------------------------------
(* The jobs of the evaluation.                                             *)

LEMMA OneJobMoves ==
  ASSUME IInv, Next
  PROVE  \/ life' = life
         \/ \E s \in Stages : \E new : Turns(s, new) /\ Queue!Step(s, life[s], new)
<1>1. Pending \subseteq Stages /\ call.stage \in Stages
  BY DEF Pending, IInv, CallType
<1>2. ASSUME NEW s \in Stages, Retried(s) \/ \E error : Buried(s, error)
      PROVE  \E new : Turns(s, new) /\ Queue!Step(s, life[s], new)
  BY <1>2 DEF Retried, Buried, Queue!Step
<1>3. ASSUME NEW s \in Stages, WorkerStep(s)
      PROVE  \E new : Turns(s, new) /\ Queue!Step(s, life[s], new)
  <2>1. CASE Start(s) \/ Deliver(s)
    BY <2>1 DEF Start, Deliver, Queue!Step
  <2>2. CASE Fail(s)
    BY <1>2, <2>2 DEF Fail
  <2>. QED  BY <1>3, <2>1, <2>2 DEF WorkerStep
<1>4. ASSUME WaitStep
      PROVE  \/ life' = life
             \/ \E s \in Stages : \E new : Turns(s, new) /\ Queue!Step(s, life[s], new)
  <2>1. CASE Enqueue
    BY <1>1, <2>1 DEF Enqueue, Queue!Step
  <2>2. CASE Sweep
    BY <1>1, <1>2, <2>2 DEF Sweep
  <2>3. CASE Deadline
    BY <1>1, <2>3 DEF Deadline, Queue!Step
  <2>4. CASE Conclude \/ Mistrust \/ Check \/ Refresh \/ Latest
    <3>1. ASSUME NEW a, Ends(a)
          PROVE  life' = life
      BY <3>1 DEF Ends
    <3>2. ASSUME NEW s, NEW r, Proceeds(s, r)
          PROVE  life' = life
      BY <3>1, <3>2 DEF Proceeds
    <3>3. Mistrust \/ Check \/ Refresh => life' = life
      BY <3>1 DEF Mistrust, Check, Refresh
    <3>4. Conclude \/ Latest => life' = life
      BY <3>1, <3>2 DEF Conclude, Latest, Terminal
    <3>. QED  BY <2>4, <3>3, <3>4
  <2>. QED  BY <1>4, <2>1, <2>2, <2>3, <2>4 DEF WaitStep
<1>5. Begin \/ Crash => life' = life
  BY DEF Begin, Crash
<1>. QED  BY <1>1, <1>3, <1>4, <1>5 DEF Next

(* The broker uses the queue as JobLifecycle promises it, and nothing else *)
(* touches the jobs: enqueue(), cancel() and sweep_expired_leases() in     *)
(* _wait(), and the workers, whatever deadlines pass and controllers die.  *)
(* JobQueue implements the same JobLifecycle (JobQueueProofs, Refinement). *)
THEOREM JobsLive == Spec => Queue!Spec
<1>1. Init => Queue!Init
  BY DEF Init
<1>2. IInv /\ IInv' /\ [Next]_vars => [Queue!Next]_life
  <2>. SUFFICES ASSUME IInv, IInv', Next, life' # life
                PROVE  Queue!Next
    BY DEF vars
  <2>1. life \in [Stages -> RowType] /\ life' \in [Stages -> Queue!Life]
    BY DEF IInv, JobsSound, RowType, Phases, Queue!Life
  <2>2. PICK s \in Stages : \E new : Turns(s, new) /\ Queue!Step(s, life[s], new)
    BY OneJobMoves
  <2>3. PICK new : Turns(s, new) /\ Queue!Step(s, life[s], new)
    BY <2>2
  <2>4. life'[s] = new /\ \A t \in Stages : t # s => life'[t] = life[t]
    BY <2>1, <2>3 DEF Turns
  <2>5. \A t \in Stages : Queue!Step(t, life[t], life'[t])
    BY <2>3, <2>4 DEF Queue!Step
  <2>. QED  BY <2>1, <2>5 DEF Queue!Next
<1>. QED  BY <1>1, <1>2, Inductive, PTL DEF Spec, Queue!Spec
=============================================================================
