------------------------- MODULE TaskDecisionProofs -------------------------
(***************************************************************************)
(* Proofs about the decisions of a task: the types of every variable, and  *)
(* that each round is compared with what the round before it left as the   *)
(* best, by the rule of compare_public_candidate.                          *)
(*                                                                         *)
(* What is needed of the recursion of _best_context is its equation, and   *)
(* that takes an induction over the rounds.  It is made with the least     *)
(* element of the set of counterexamples: the induction theorems of the    *)
(* library take an operator, its theorem on minimal elements takes a set.  *)
(***************************************************************************)
EXTENDS TaskControllerProofs, WellFoundedInduction

LEMMA LeastNatural ==
  ASSUME NEW S, S \subseteq Nat, S # {}
  PROVE  \E m \in S : \A n \in S : m <= n
<1>1. PICK m \in S : \A n \in S : ~(<<n, m>> \in OpToRel(<, Nat))
  BY NatLessThanWellFounded, WFMin
<1>2. ASSUME NEW n \in S PROVE m <= n
  <2>1. n \in Nat /\ m \in Nat
    OBVIOUS
  <2>2. n < m => <<n, m>> \in OpToRel(<, Nat)
    BY <2>1 DEF OpToRel
  <2>3. ~(n < m)
    BY <1>1, <2>2, Zenon
  <2>. QED  BY <2>1, <2>3
<1>. QED  BY <1>2

-----------------------------------------------------------------------------
(* The recursion of _best_context, step by step.                           *)

Winning == {"INITIAL_BEST", "NEW_BEST"}

Replaces(n, b) == Valid(n) /\ Compare(scores[n].speed, b) \in Winning

BestAt(g, n) == IF n = 0 THEN 0 ELSE IF Replaces(n, g[n - 1]) THEN n ELSE g[n - 1]

(* The solutions of the recursion up to round n.                           *)
Solutions(n) == {g \in [0 .. n -> Nat] : \A i \in 0 .. n : g[i] = BestAt(g, i)}

LEMMA SolutionGrows ==
  ASSUME NEW m \in Nat \ {0}, Solutions(m - 1) # {}
  PROVE  Solutions(m) # {}
<1>1. PICK g \in [0 .. m - 1 -> Nat] : \A i \in 0 .. m - 1 : g[i] = BestAt(g, i)
  BY DEF Solutions
<1>. DEFINE next == IF Replaces(m, g[m - 1]) THEN m ELSE g[m - 1]
            h == [i \in 0 .. m |-> IF i = m THEN next ELSE g[i]]
<1>2. h \in [0 .. m -> Nat]
  BY <1>1
<1>3. ASSUME NEW i \in 0 .. m
      PROVE  h[i] = BestAt(h, i)
  <2>1. CASE i = m
    <3>1. h[m - 1] = g[m - 1]
      OBVIOUS
    <3>. QED  BY <2>1, <3>1 DEF BestAt
  <2>2. CASE i # m
    <3>1. i \in 0 .. m - 1 /\ (i # 0 => i - 1 \in 0 .. m - 1)
      BY <2>2
    <3>2. h[i] = g[i] /\ (i # 0 => h[i - 1] = g[i - 1])
      BY <2>2, <3>1
    <3>. HIDE DEF h
    <3>. QED  BY <1>1, <3>1, <3>2 DEF BestAt
  <2>. QED  BY <2>1, <2>2
<1>. HIDE DEF h
<1>. QED  BY <1>2, <1>3 DEF Solutions

LEMMA SolutionExists == Solutions(Rounds) # {}
<1>. DEFINE Bad == {n \in Nat : Solutions(n) = {}}
<1>1. ASSUME Bad # {}
      PROVE  FALSE
  <2>1. PICK m \in Bad : \A n \in Bad : m <= n
    <3>1. Bad \subseteq Nat
      OBVIOUS
    <3>. HIDE DEF Bad
    <3>. QED  BY <1>1, <3>1, LeastNatural
  <2>2. m # 0
    <3>1. [i \in 0 .. 0 |-> 0] \in Solutions(0)
      BY DEF Solutions, BestAt
    <3>. QED  BY <3>1
  <2>3. m \in Nat \ {0} /\ m - 1 \in Nat /\ m - 1 \notin Bad
    BY <2>1, <2>2
  <2>. QED  BY <2>3, SolutionGrows
<1>. QED  BY <1>1, RoundRange

(* Replayed satisfies its equation, and never names a later round.         *)
LEMMA ReplayedIs ==
  /\ Replayed[0] = 0
  /\ \A n \in N : Replayed[n] = IF Replaces(n, Replayed[n - 1]) THEN n ELSE Replayed[n - 1]
<1>1. PICK g \in [0 .. Rounds -> Nat] : \A i \in 0 .. Rounds : g[i] = BestAt(g, i)
  BY SolutionExists DEF Solutions
<1>2. g = [n \in 0 .. Rounds |-> BestAt(g, n)]
  BY <1>1
<1>3. Replayed = [n \in 0 .. Rounds |-> BestAt(Replayed, n)]
  BY <1>2 DEF Replayed, BestAt, Replaces, Winning
<1>. HIDE DEF Replayed
<1>4. \A n \in 0 .. Rounds : Replayed[n] = BestAt(Replayed, n)
  BY <1>3
<1>5. 0 \in 0 .. Rounds /\ N \subseteq 0 .. Rounds /\ \A n \in N : n # 0
  BY RoundRange
<1>. QED  BY <1>4, <1>5 DEF BestAt

LEMMA ReplayedRange == \A n \in 0 .. Rounds : Replayed[n] \in 0 .. n
<1>. HIDE DEF Replayed
<1>. DEFINE Bad == {n \in 0 .. Rounds : Replayed[n] \notin 0 .. n}
<1>1. ASSUME Bad # {}
      PROVE  FALSE
  <2>1. PICK m \in Bad : \A n \in Bad : m <= n
    <3>1. Bad \subseteq Nat
      BY RoundRange
    <3>. HIDE DEF Bad
    <3>. QED  BY <1>1, <3>1, LeastNatural
  <2>2. m \in N /\ m - 1 \in 0 .. Rounds
    BY <2>1, ReplayedIs, RoundRange
  <2>3. Replayed[m - 1] \in 0 .. m - 1
    BY <2>1, <2>2, RoundRange
  <2>. QED  BY <2>1, <2>2, <2>3, ReplayedIs, RoundRange
<1>. QED  BY <1>1

-----------------------------------------------------------------------------
(* The types of what the other proofs do not look at.                      *)

Rest == /\ files \subseteq (0 .. Rounds) \X FileNames
        /\ feedback \in [N -> [before : 0 .. Rounds, after : 0 .. Rounds]]
        /\ verdict \in FinalOutcome
        /\ result.best \in 0 .. Rounds
        /\ draft \in 0 .. Rounds
        /\ requests \in [N -> Nat]
        /\ failures \in 0 .. MaxFailures

LEMMA ContextRange ==
  ASSUME Typed, NEW r \in N
  PROVE  BestContext(r) \in 0 .. Rounds
<1>. HIDE DEF Replayed
<1>1. r - 1 \in 0 .. Rounds
  BY RoundRange
<1>2. Replayed[r - 1] \in 0 .. Rounds
  BY <1>1, ReplayedRange, RoundRange
<1>. QED  BY <1>2 DEF BestContext, Typed

(* Which steps touch the counters and the draft.                           *)
LEMMA ProcessFrames ==
  ASSUME [Next]_vars
  PROVE  /\ UNCHANGED draft \/ Stop \/ Decide
         /\ UNCHANGED requests \/ AskModel
         /\ UNCHANGED failures \/ Crash
<1>. USE DEF process
<1>1. CASE Crash \/ Resume \/ RequireRetry \/ Ahead \/ UNCHANGED vars
  BY <1>1 DEF Crash, Resume, RequireRetry, Ahead, Stop, vars
<1>2. CASE Generate
  BY <1>2 DEF Generate, CreateTask, BeginTask, CreateRound, WritePrompt, PromptCommitted,
              RequestSent, WriteRequestStarted, AskModel, ReceiveAnswer, RegisterAnswer,
              WriteFailure, WriteResponse, ResponseCommitted, CommitFile, Goto
<1>3. CASE EvaluateRound
  BY <1>1, <1>3
     DEF EvaluateRound, WriteCandidate, RegisterCandidate, Evaluate, RegisterEvaluation,
         SaveScore, Advance, SkipProfile, Advanced, CommitFile, Goto
<1>4. CASE CloseRound
  BY <1>1, <1>4
     DEF CloseRound, Decide, WriteFeedback, RegisterFeedback, LoadFeedback,
         FeedbackCommitted, RoundFinished, NextRound, Goto
<1>5. CASE Final
  BY <1>5 DEF Final, NoValidCandidate, FailWithoutCandidate, ReconcileBest, ResumeFinal,
              SelectBest, WriteBest, HiddenTest, EvaluateFinal, RegisterFinal, SaveVerdict,
              Conclude, MoveToEnd, ReplayResult, WriteResult, CommitFile, Goto
<1>. QED  BY <1>1, <1>2, <1>3, <1>4, <1>5 DEF Next, RunTask

LEMMA NewFiles ==
  ASSUME [Next]_vars
  PROVE  UNCHANGED files \/ \E f \in FileNames : files' = files \cup {<<round, f>>}
<1>. USE DEF disk, Exchanges, FileNames
<1>1. CASE Crash \/ Resume \/ RequireRetry \/ Ahead \/ UNCHANGED vars
  BY <1>1 DEF Crash, Resume, RequireRetry, Ahead, Stop, vars
<1>2. CASE Generate
  BY <1>2 DEF Generate, CreateTask, BeginTask, CreateRound, WritePrompt,
              PromptCommitted, RequestSent, WriteRequestStarted, AskModel, ReceiveAnswer,
              RegisterAnswer, WriteFailure, WriteResponse, ResponseCommitted, CommitFile,
              Put, Register, MoveRound, MoveTask
<1>3. CASE EvaluateRound
  BY <1>1, <1>3
     DEF EvaluateRound, WriteCandidate, RegisterCandidate, Evaluate,
         RegisterEvaluation, SaveScore, Advance, SkipProfile, Advanced, CommitFile, Put,
         Register, MoveRound
<1>4. CASE CloseRound
  BY <1>1, <1>4
     DEF CloseRound, Decide, WriteFeedback, RegisterFeedback, LoadFeedback,
         FeedbackCommitted, RoundFinished, NextRound, Put, Register, MoveRound
<1>5. CASE Final
  BY <1>5 DEF Final, NoValidCandidate, FailWithoutCandidate, ReconcileBest,
              ResumeFinal, SelectBest, WriteBest, HiddenTest, EvaluateFinal, RegisterFinal,
              SaveVerdict, Conclude, MoveToEnd, ReplayResult, WriteResult, CommitFile, Put,
              Register, MoveTask
<1>. QED  BY <1>1, <1>2, <1>3, <1>4, <1>5 DEF Next, RunTask

LEMMA RestKeeps ==
  ASSUME Base, Rest, [Next]_vars
  PROVE  Rest'
<1>. Typed
  BY DEF Base
<1>1. files' \subseteq (0 .. Rounds) \X FileNames
  BY NewFiles DEF Rest, Typed
<1>2. feedback' \in [N -> [before : 0 .. Rounds, after : 0 .. Rounds]]
  <2>1. CASE WriteFeedback
    BY <2>1, TrailAppends DEF WriteFeedback, Rest, Typed
  <2>. QED  BY <2>1, Framed DEF Frames, Rest
<1>3. verdict' \in FinalOutcome
  BY Framed, FinalAssumption DEF Frames, EvaluateFinal, Rest
<1>4. result'.best \in 0 .. Rounds
  BY Framed, RoundRange DEF Frames, NoValidCandidate, Conclude, WriteResult, Rest, Typed
<1>5. draft' \in 0 .. Rounds
  <2>1. CASE Decide
    <3>1. round \in N
      BY <2>1 DEF Decide, Base, Where, InRound
    <3>. QED  BY <2>1, <3>1, ContextRange DEF Decide
  <2>. QED  BY <2>1, ProcessFrames, RoundRange DEF Stop, Rest
<1>6. requests' \in [N -> Nat]
  BY ProcessFrames DEF AskModel, Rest
<1>7. failures' \in 0 .. MaxFailures
  BY ProcessFrames, FinalAssumption DEF Crash, Rest
<1>. QED  BY <1>1, <1>2, <1>3, <1>4, <1>5, <1>6, <1>7 DEF Rest

LEMMA RestHolds == Spec => []Rest
<1>1. Init => Rest
  BY RoundRange, FinalAssumption
     DEF Init, Rest, NoFeedback, NoVerdict, FinalOutcome, NoResult
<1>2. Base /\ Rest /\ [Next]_vars => Rest'
  BY RestKeeps
<1>. QED  BY <1>1, <1>2, BaseHolds, PTL DEF Spec

(* Whatever run_task does and wherever it is cut short, each variable      *)
(* keeps its type: no round beyond the last, no candidate that is not a    *)
(* round's, no row without a file, and never more failures than the bound. *)
THEOREM TypesHold == Spec => []TypeOK
<1>1. Base /\ Rest => TypeOK
  BY DEF Base, Typed, Rest, Row, TypeOK
<1>. QED  BY <1>1, BaseHolds, RestHolds, PTL

-----------------------------------------------------------------------------
(* The decisions.                                                          *)

(* No paired comparison is made: evaluate_candidate measures the candidate *)
(* alone.  With one, the trail can break (run controller_paired).          *)
Unpaired == \A o \in Outcomes : o.paired = "absent"

(* The rule of compare_public_candidate, for what was measured alone.      *)
Faster(speed, b, row) == speed > 0 /\ (b = 0 \/ speed > row[b].speed + 1)

Wins(r, b) == Faster(outcome[r].speed, b, scores)

(* The best candidate that the round before r left.                        *)
Prior(r) == IF r = 1 THEN 0 ELSE feedback[r - 1].after

Chosen(r, b) == IF Wins(r, b) THEN r ELSE b

(* Every decision on disk follows the rule from the one before it; so does *)
(* the one in flight, in the database and in the process.                  *)
Decided ==
  /\ \A r \in N : outcome[r].paired = "absent"
  /\ \A r \in N : HasFeedback(r) =>
       /\ Scored(r)
       /\ feedback[r].after \in 0 .. r
       /\ feedback[r].before = Prior(r)
       /\ feedback[r].after = Chosen(r, Prior(r))
  /\ best # Tip => Wins(best, Tip)
  /\ pc = "decided" /\ ~OnDisk("feedback") =>
       draft = Tip /\ best = Chosen(round, Tip)

LEMMA DecisionIs ==
  ASSUME NEW o \in Outcome, o.paired = "absent", NEW b \in 0 .. Rounds,
         scores \in [N -> Row]
  PROVE  /\ Decision(o, b) \in Winning <=> Faster(o.speed, b, scores)
         /\ Compare(o.speed, b) \in Winning <=> Faster(o.speed, b, scores)
<1>1. Decision(o, b) = Compare(o.speed, b)
  BY DEF Decision
<1>2. o.speed \in Speeds /\ (b # 0 => scores[b].speed \in Speeds)
  BY RoundRange DEF Outcome, Row
<1>3. CASE o.speed = 0
  <2>1. Compare(o.speed, b) = "INVALID"
    BY <1>3 DEF Compare
  <2>. QED  BY <1>1, <1>3, <2>1 DEF Faster, Winning
<1>4. CASE o.speed > 0 /\ b = 0
  <2>1. Compare(o.speed, b) = "INITIAL_BEST"
    BY <1>4 DEF Compare
  <2>. QED  BY <1>1, <1>4, <2>1 DEF Faster, Winning
<1>5. CASE o.speed > 0 /\ b # 0
  <2>1. b > 0
    BY <1>5
  <2>2. CASE o.speed > scores[b].speed + 1
    <3>1. Compare(o.speed, b) = "NEW_BEST"
      BY <1>2, <1>5, <2>1, <2>2 DEF Compare, Speeds
    <3>. QED  BY <1>1, <1>5, <2>2, <3>1 DEF Faster, Winning
  <2>3. CASE ~(o.speed > scores[b].speed + 1)
    <3>1. Compare(o.speed, b) \in {"REGRESSION", "TIE"}
      BY <1>2, <1>5, <2>1, <2>3 DEF Compare, Speeds
    <3>. QED  BY <1>1, <1>5, <2>3, <3>1 DEF Faster, Winning
  <2>. QED  BY <2>2, <2>3
<1>. QED  BY <1>2, <1>3, <1>4, <1>5 DEF Speeds

LEMMA WinsIs ==
  ASSUME Base, NEW r \in N, outcome[r].paired = "absent", Scored(r), NEW b \in 0 .. Rounds
  PROVE  Wins(r, b) <=> Replaces(r, b)
<1>1. scores[r].speed = outcome[r].speed /\ outcome[r] \in Outcome /\ scores \in [N -> Row]
  BY DEF Base, Backing, StatesAreBacked, Typed
<1>. QED  BY <1>1, DecisionIs DEF Wins, Faster, Replaces, Valid

LEMMA PriorRange ==
  ASSUME Typed, NEW r \in N
  PROVE  Prior(r) \in 0 .. Rounds
BY RoundRange DEF Prior, Typed

(* The fallback of _best_context computes what the feedback files say.     *)
LEMMA ReplayIsTrail ==
  ASSUME Base, Decided
  PROVE  \A n \in 0 .. LastFeedback : Replayed[n] = IF n = 0 THEN 0 ELSE feedback[n].after
<1>. HIDE DEF Replayed
<1>0. /\ LastFeedback \in 0 .. Rounds
      /\ \A r \in 1 .. LastFeedback : r \in N /\ HasFeedback(r)
  BY RoundRange DEF Base, Trail
<1>. DEFINE Bad == {n \in 0 .. LastFeedback :
                      Replayed[n] # IF n = 0 THEN 0 ELSE feedback[n].after}
<1>1. ASSUME Bad # {}
      PROVE  FALSE
  <2>1. PICK m \in Bad : \A n \in Bad : m <= n
    <3>1. Bad \subseteq Nat
      BY <1>0
    <3>. HIDE DEF Bad
    <3>. QED  BY <1>1, <3>1, LeastNatural
  <2>2. m \in N /\ m \in 1 .. LastFeedback /\ HasFeedback(m)
    BY <1>0, <2>1, ReplayedIs
  <2>3. m - 1 \in 0 .. LastFeedback /\ m - 1 \notin Bad
    BY <1>0, <2>1, <2>2
  <2>4. Replayed[m - 1] = Prior(m)
    BY <2>2, <2>3 DEF Prior
  <2>5. Replayed[m] = IF Replaces(m, Prior(m)) THEN m ELSE Prior(m)
    BY <2>2, <2>4, ReplayedIs
  <2>6. Wins(m, Prior(m)) <=> Replaces(m, Prior(m))
    BY <2>2, WinsIs, PriorRange DEF Base, Decided
  <2>7. feedback[m].after = Replayed[m]
    BY <2>2, <2>5, <2>6 DEF Decided, Chosen
  <2>. QED  BY <2>1, <2>2, <2>7
<1>. QED  BY <1>1

(* Whoever decides on a round compares it with what the last one left.     *)
LEMMA ContextIsTip ==
  ASSUME Base, Decided, pc = "feedback", ~OnDisk("feedback")
  PROVE  BestContext(round) = Tip
<1>. HIDE DEF Replayed
<1>1. round \in N /\ round = LastFeedback + 1 /\ LastFeedback \in 0 .. Rounds
  BY NextDecision DEF InRound, Base, Trail
<1>2. Replayed[round - 1] = Tip
  BY <1>1, ReplayIsTrail DEF Tip
<1>3. best < round /\ best # 0 => best = Tip
  BY <1>1, RoundRange DEF Base, Typed, Trail
<1>. QED  BY <1>2, <1>3 DEF BestContext

(* Who wins does not change: the scores that count are final.              *)
LEMMA WinsStays ==
  ASSUME Base, [Next]_vars, NEW r \in N, Scored(r), NEW b \in 0 .. Rounds, b # 0 => Valid(b)
  PROVE  Faster(outcome'[r].speed, b, scores') <=> Wins(r, b)
BY ScoredStays, PointerTypes DEF Base, Wins, Faster, Valid

LEMMA UnpairedKeeps ==
  ASSUME Unpaired, Typed, [Next]_vars, \A r \in N : outcome[r].paired = "absent"
  PROVE  \A r \in N : outcome'[r].paired = "absent"
<1>1. CASE Evaluate
  <2>1. PICK o \in Possible(round) : outcome' = [outcome EXCEPT ![round] = o]
    BY <1>1 DEF Evaluate
  <2>2. o.paired = "absent"
    BY <2>1 DEF Possible, NoOutcome, Unpaired
  <2>. QED  BY <2>1, <2>2 DEF Typed
<1>. QED  BY <1>1, Framed DEF Frames

(* Only its own step leads to a decision in flight.                        *)
LEMMA DecidedBy ==
  ASSUME [Next]_vars, pc' = "decided", ~Decide, ~WriteFeedback
  PROVE  UNCHANGED vars
<1>. USE DEF process
<1>1. ~(Crash \/ Resume \/ RequireRetry \/ Ahead)
  BY DEF Crash, Resume, RequireRetry, Ahead, Stop
<1>2. ~Generate
  BY DEF Generate, CreateTask, BeginTask, CreateRound, WritePrompt, PromptCommitted,
         RequestSent, WriteRequestStarted, AskModel, ReceiveAnswer, RegisterAnswer,
         Asking, Materializing, WriteFailure, WriteResponse, ResponseCommitted, CommitFile, Goto
<1>3. ~EvaluateRound
  BY <1>1
     DEF EvaluateRound, WriteCandidate, RegisterCandidate, Evaluate, RegisterEvaluation,
         SaveScore, Advance, SkipProfile, Advanced, CommitFile, Goto, Evaluating
<1>4. ~CloseRound
  BY <1>1
     DEF CloseRound, RegisterFeedback, LoadFeedback, FeedbackCommitted, RoundFinished,
         NextRound, Goto
<1>5. ~Final
  BY DEF Final, NoValidCandidate, FailWithoutCandidate, ReconcileBest, ResumeFinal,
         SelectBest, WriteBest, HiddenTest, EvaluateFinal, RegisterFinal, SaveVerdict,
         Conclude, MoveToEnd, ReplayResult, WriteResult, CommitFile, Goto, NothingToSelect,
         Judging
<1>. QED  BY <1>1, <1>2, <1>3, <1>4, <1>5 DEF Next, RunTask

LEMMA DecisionsStay ==
  ASSUME Base, Decided, [Next]_vars, NEW r \in N, HasFeedback(r)
  PROVE  /\ scores'[r].row = "scored"
         /\ Faster(outcome'[r].speed, Prior(r), scores') <=> Wins(r, Prior(r))
<1>1. Prior(r) # 0 => Valid(Prior(r))
  <2>1. r # 1 => r - 1 \in N /\ HasFeedback(r - 1)
    BY RoundRange DEF Base, Trail
  <2>. QED  BY <2>1 DEF Prior, Base, Trail
<1>2. PICK b \in 0 .. Rounds : b = Prior(r)
  BY PriorRange DEF Base
<1>3. Faster(outcome'[r].speed, b, scores') <=> Wins(r, b)
  BY <1>1, <1>2, WinsStays DEF Decided
<1>. QED  BY <1>2, <1>3, ScoredStays DEF Decided

(* The inductive step of what a feedback file says, its parts spelled out. *)
LEMMA AppendedDecision ==
  ASSUME Base, Decided, [Next]_vars, WriteFeedback
  PROVE  /\ Scored(round)
         /\ feedback'[round].before = Tip
         /\ feedback'[round].after = Chosen(round, Tip)
         /\ Tip = IF round = 1 THEN 0 ELSE feedback'[round - 1].after
         /\ Tip \in 0 .. round - 1
         /\ Tip # 0 => Valid(Tip)
         /\ UNCHANGED <<outcome, scores>>
<1>1. /\ pc = "decided" /\ ~OnDisk("feedback") /\ round \in N /\ round = LastFeedback + 1
      /\ \A r \in N \ {round} : feedback'[r] = feedback[r]
      /\ LastFeedback \in 0 .. Rounds /\ scores' = scores
  BY TrailAppends DEF WriteFeedback, Put, Base, Trail
<1>2. draft = Tip /\ best = Chosen(round, Tip)
  BY <1>1 DEF Decided
<1>3. feedback'[round].before = Tip /\ feedback'[round].after = Chosen(round, Tip)
  BY <1>1, <1>2 DEF WriteFeedback, Base, Typed
<1>4. LastFeedback # 0 => LastFeedback \in N \ {round} /\ HasFeedback(LastFeedback)
  BY <1>1, RoundRange DEF Base, Trail
<1>5. Tip = IF round = 1 THEN 0 ELSE feedback'[round - 1].after
  BY <1>1, <1>4 DEF Tip
<1>6. Tip \in 0 .. round - 1
  BY <1>1, <1>4 DEF Tip, Decided
<1>. QED  BY <1>1, <1>3, <1>5, <1>6, PointerTypes DEF Base, Progress, WriteFeedback

LEMMA FilesKeepRule ==
  ASSUME Base, Decided, [Next]_vars, NEW r \in N, HasFeedback(r)'
  PROVE  /\ scores'[r].row = "scored"
         /\ feedback'[r].after \in 0 .. r
         /\ feedback'[r].before = IF r = 1 THEN 0 ELSE feedback'[r - 1].after
         /\ feedback'[r].after = IF Faster(outcome'[r].speed, feedback'[r].before, scores')
                                 THEN r ELSE feedback'[r].before
<1>1. CASE HasFeedback(r) /\ UNCHANGED feedback
  BY <1>1, DecisionsStay DEF Decided, Chosen, Prior
<1>2. CASE WriteFeedback /\ r # round
  <2>1. /\ HasFeedback(r) /\ feedback'[r] = feedback[r]
        /\ r # 1 => feedback'[r - 1] = feedback[r - 1]
    BY <1>2, TrailAppends, RoundRange DEF Base, Trail
  <2>. QED  BY <2>1, DecisionsStay DEF Decided, Chosen, Prior
<1>3. CASE WriteFeedback /\ r = round
  <2>1. /\ Scored(r) /\ UNCHANGED <<outcome, scores>>
        /\ feedback'[r].before = Tip
        /\ feedback'[r].after = Chosen(r, Tip)
        /\ Tip = IF r = 1 THEN 0 ELSE feedback'[r - 1].after
        /\ Tip \in 0 .. r - 1
    BY <1>3, AppendedDecision
  <2>2. Chosen(r, Tip) \in 0 .. r
    BY <2>1, RoundRange DEF Chosen
  <2>. QED  BY <2>1, <2>2 DEF Chosen, Wins, Scored
<1>4. ~WriteFeedback => HasFeedback(r) /\ UNCHANGED feedback
  BY FeedbackStays DEF HasFeedback
<1>. QED  BY <1>1, <1>2, <1>3, <1>4

LEMMA InFlightKeepsRule ==
  ASSUME Base, Decided, [Next]_vars, ~WriteFeedback, best' # Tip
  PROVE  best' \in N /\ Faster(outcome'[best'].speed, Tip, scores')
<1>1. Tip \in 0 .. Rounds /\ (Tip # 0 => Valid(Tip))
  BY PointerTypes DEF Base
<1>2. CASE Decide /\ best' # best
  <2>1. best' = round /\ Decision(outcome[round], Tip) \in Winning /\ UNCHANGED <<outcome, scores>>
    BY <1>2, ContextIsTip DEF Decide, Winning, disk
  <2>2. round \in N
    BY <1>2 DEF Decide, Base, Where, InRound
  <2>3. outcome[round] \in Outcome /\ outcome[round].paired = "absent" /\ scores \in [N -> Row]
    BY <2>2 DEF Base, Typed, Decided
  <2>. QED  BY <1>1, <2>1, <2>2, <2>3, DecisionIs
<1>3. CASE best' = best
  <2>1. best \in N /\ Scored(best) /\ Wins(best, Tip)
    BY <1>3, PointerTypes, RoundRange DEF Base, Trail, Decided, Valid
  <2>2. PICK b \in 0 .. Rounds : b = Tip
    BY <1>1
  <2>3. PICK r \in N : r = best
    BY <2>1
  <2>4. Faster(outcome'[r].speed, b, scores') <=> Wins(r, b)
    BY <1>1, <2>1, <2>2, <2>3, WinsStays
  <2>. QED  BY <1>3, <2>1, <2>2, <2>3, <2>4
<1>4. CASE LoadFeedback \/ ReconcileBest
  <2>1. best' = best \/ best' = Tip
    BY <1>4, TipIs DEF LoadFeedback, ReconcileBest, Reconciled, Base
  <2>. QED  BY <1>3, <2>1
<1>. QED  BY <1>2, <1>3, <1>4, Framed DEF Frames

LEMMA DecideKeepsRule ==
  ASSUME Base, Decided, Decide
  PROVE  /\ draft' = Tip /\ round' = round /\ UNCHANGED <<outcome, scores>>
         /\ best' = Chosen(round, Tip)
<1>1. /\ draft' = Tip /\ round' = round /\ UNCHANGED <<outcome, scores>>
      /\ best' = IF Decision(outcome[round], Tip) \in Winning THEN round ELSE best
      /\ pc = "feedback" /\ ~OnDisk("feedback")
  BY ContextIsTip DEF Decide, Winning, disk
<1>2. round \in N /\ round = LastFeedback + 1
  BY <1>1, NextDecision DEF InRound
<1>3. outcome[round] \in Outcome /\ outcome[round].paired = "absent" /\ scores \in [N -> Row]
      /\ Tip \in 0 .. Rounds
  BY <1>2, PointerTypes DEF Base, Typed, Decided
<1>4. Decision(outcome[round], Tip) \in Winning <=> Wins(round, Tip)
  BY <1>3, DecisionIs DEF Wins
<1>5. best # Tip => best = round /\ Wins(round, Tip)
  BY <1>2 DEF Base, Trail, Decided
<1>. QED  BY <1>1, <1>4, <1>5 DEF Chosen

LEMMA DecidedKeeps ==
  ASSUME Unpaired, Base, Decided, [Next]_vars
  PROVE  Decided'
<1>1. \A r \in N : outcome'[r].paired = "absent"
  BY UnpairedKeeps DEF Base, Decided
<1>2. ASSUME NEW r \in N, HasFeedback(r)'
      PROVE  (/\ Scored(r)
              /\ feedback[r].after \in 0 .. r
              /\ feedback[r].before = Prior(r)
              /\ feedback[r].after = Chosen(r, Prior(r)))'
  BY <1>2, FilesKeepRule DEF Scored, Prior, Chosen, Wins
<1>3. best' # Tip' => Faster(outcome'[best'].speed, Tip', scores')
  <2>1. CASE WriteFeedback
    BY <2>1, TrailAppends
  <2>2. CASE ~WriteFeedback
    BY <2>2, FeedbackStays, InFlightKeepsRule
  <2>. QED  BY <2>1, <2>2
<1>4. ASSUME pc' = "decided", ~OnDisk("feedback")'
      PROVE  draft' = Tip' /\ best' = IF Faster(outcome'[round'].speed, Tip', scores')
                                      THEN round' ELSE Tip'
  <2>1. CASE WriteFeedback
    <3>1. round' = round /\ <<round, "feedback">> \in files'
      BY <2>1 DEF WriteFeedback, Put, process
    <3>. QED  BY <1>4, <3>1 DEF OnDisk
  <2>2. CASE Decide
    <3>1. Tip' = Tip
      BY <2>2, FeedbackStays DEF Decide, WriteFeedback
    <3>. QED  BY <2>2, <3>1, DecideKeepsRule DEF Chosen, Wins
  <2>3. CASE UNCHANGED vars
    <3>1. Tip' = Tip
      BY <2>3 DEF vars, disk, Tip, LastFeedback, HasFeedback
    <3>. QED  BY <1>4, <2>3, <3>1 DEF vars, disk, database, process, OnDisk, Decided, Chosen, Wins
  <2>. QED  BY <1>4, <2>1, <2>2, <2>3, DecidedBy
<1>. QED  BY <1>1, <1>2, <1>3, <1>4 DEF Decided, Chosen, Wins

LEMMA DecidedInit ==
  ASSUME Init
  PROVE  Decided
<1>1. \A r \in N : ~HasFeedback(r) /\ outcome[r].paired = "absent"
  BY DEF Init, HasFeedback, NoOutcome
<1>2. LastFeedback = 0
  BY <1>1 DEF LastFeedback, LastOf
<1>. QED  BY <1>1, <1>2 DEF Init, Decided, Tip

LEMMA DecidedHolds == Unpaired => (Spec => [](Base /\ Decided))
<1>. SUFFICES ASSUME Unpaired PROVE Spec => [](Base /\ Decided)
  OBVIOUS
<1>1. Init => Decided
  BY DecidedInit
<1>2. Base /\ Decided /\ [Next]_vars => Decided'
  BY DecidedKeeps
<1>. QED  BY <1>1, <1>2, BaseHolds, PTL DEF Spec

(* "round N+1 consumes the committed feedback from round N": wherever      *)
(* run_task is cut short, what a feedback.json calls best_before is what   *)
(* the feedback.json of the round before calls best_after, if no           *)
(* evaluation has a paired comparison.                                     *)
THEOREM FeedbackIsChained == Unpaired => (Spec => []FeedbackChain)
<1>. SUFFICES ASSUME Unpaired PROVE Spec => []FeedbackChain
  OBVIOUS
<1>1. Decided => FeedbackChain
  BY RoundRange DEF Decided, Prior, FeedbackChain
<1>. QED  BY <1>1, DecidedHolds, PTL

(* A candidate takes the place of the best exactly if                      *)
(* compare_public_candidate() finds it better, even if its decision and    *)
(* its feedback are written by different runs, and however often one of    *)
(* them dies in between; again without paired comparisons.                 *)
THEOREM BestIsEarned == Unpaired => (Spec => []BestIsUnbeaten)
<1>. SUFFICES ASSUME Unpaired PROVE Spec => []BestIsUnbeaten
  OBVIOUS
<1>1. Base /\ Decided => BestIsUnbeaten
  <2>. SUFFICES ASSUME Base, Decided, NEW r \in N, HasFeedback(r)
                PROVE  feedback[r].after = r <=>
                         Decision(outcome[r], feedback[r].before) \in Winning
    BY DEF BestIsUnbeaten, Winning
  <2>1. PICK b \in 0 .. Rounds : b = feedback[r].before
    BY PriorRange DEF Base, Decided
  <2>2. Decision(outcome[r], b) \in Winning <=> Wins(r, b)
    BY DecisionIs DEF Base, Typed, Decided, Wins
  <2>3. b # r
    <3>1. r # 1 => r - 1 \in N /\ HasFeedback(r - 1)
      BY RoundRange DEF Base, Trail
    <3>. QED  BY <2>1, <3>1, RoundRange DEF Prior, Decided
  <2>. QED  BY <2>1, <2>2, <2>3 DEF Decided, Chosen
<1>. QED  BY <1>1, DecidedHolds, PTL

(* The two ways to the best candidate before a round agree: the pointer    *)
(* of the database and the comparisons replayed over the scores, on which  *)
(* _best_context falls back, both lead to what the feedback files say.     *)
ReplayAgrees ==
  /\ \A n \in 0 .. LastFeedback : Replayed[n] = IF n = 0 THEN 0 ELSE feedback[n].after
  /\ pc = "feedback" /\ ~OnDisk("feedback") => BestContext(round) = Replayed[round - 1]

THEOREM ReplayIsFaithful == Unpaired => (Spec => []ReplayAgrees)
<1>. SUFFICES ASSUME Unpaired PROVE Spec => []ReplayAgrees
  OBVIOUS
<1>1. Base /\ Decided => ReplayAgrees
  <2>. HIDE DEF Replayed
  <2>. SUFFICES ASSUME Base, Decided
                PROVE  ReplayAgrees
    OBVIOUS
  <2>1. ASSUME pc = "feedback", ~OnDisk("feedback")
        PROVE  BestContext(round) = Replayed[round - 1]
    <3>1. round = LastFeedback + 1 /\ LastFeedback \in 0 .. Rounds
      BY <2>1, NextDecision DEF InRound, Base, Trail
    <3>2. round - 1 \in 0 .. LastFeedback /\ (round - 1 = 0 <=> LastFeedback = 0)
          /\ round - 1 = LastFeedback
      BY <3>1
    <3>3. Replayed[round - 1] = Tip
      BY <3>2, ReplayIsTrail DEF Tip
    <3>. QED  BY <2>1, <3>3, ContextIsTip
  <2>. QED  BY <2>1, ReplayIsTrail DEF ReplayAgrees
<1>. QED  BY <1>1, DecidedHolds, PTL

=============================================================================
