--------------------------- MODULE TaskTrajectory ---------------------------
(***************************************************************************)
(* What the controller promises of one task, whatever crashes: a trail of  *)
(* rounds, each of which either keeps the best candidate so far or puts    *)
(* its own in place, then one candidate, the last best of the trail, that  *)
(* is judged once.                                                         *)
(***************************************************************************)
EXTENDS Naturals, Sequences

CONSTANTS Rounds    \* rounds of a task

VARIABLES trail,    \* the best candidate after each closed round; 0: none
          chosen,   \* the candidate selected for the final evaluation, or 0
          ending    \* "open", "finished" or "failed"

vars == <<trail, chosen, ending>>

BestSoFar == IF trail = <<>> THEN 0 ELSE trail[Len(trail)]

Init == trail = <<>> /\ chosen = 0 /\ ending = "open"

Round == /\ ending = "open"
         /\ chosen = 0
         /\ Len(trail) < Rounds
         /\ trail' \in {Append(trail, b) : b \in {BestSoFar, Len(trail) + 1}}
         /\ UNCHANGED <<chosen, ending>>

Select == /\ ending = "open"
          /\ chosen = 0
          /\ Len(trail) = Rounds
          /\ BestSoFar # 0
          /\ chosen' = BestSoFar
          /\ UNCHANGED <<trail, ending>>

Judge == /\ ending = "open"
         /\ chosen # 0
         /\ ending' \in {"finished", "failed"}
         /\ UNCHANGED <<trail, chosen>>

GiveUp == /\ ending = "open"
          /\ Len(trail) = Rounds
          /\ BestSoFar = 0
          /\ ending' = "failed"
          /\ UNCHANGED <<trail, chosen>>

Next == Round \/ Select \/ Judge \/ GiveUp

Spec == Init /\ [][Next]_vars
=============================================================================
