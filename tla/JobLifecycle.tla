---------------------------- MODULE JobLifecycle ----------------------------
(***************************************************************************)
(* What the evaluation queue promises about each job, without clocks,      *)
(* leases, tokens or callers: a job waits, is tried a bounded number of    *)
(* times, and ends in exactly one of three ways; an answer is the answer   *)
(* of the try that was running, and nothing follows an end.                *)
(*                                                                         *)
(* One transaction of the queue may move several jobs (a sweep does), so a *)
(* step lets every job take a step of its own or none.                     *)
(***************************************************************************)
EXTENDS Naturals

CONSTANTS Jobs, MaxTries    \* MaxTries[j] is a number of tries, at least 1

VARIABLE life

Life == [phase : {"absent", "waiting", "running", "done", "dead", "cancelled"},
         tries : Nat, answer : Nat]

Init == life = [j \in Jobs |-> [phase |-> "absent", tries |-> 0, answer |-> 0]]

Goes(old, new, from, to) == old.phase \in from /\ new.phase = to

Same(old, new) == new.tries = old.tries /\ new.answer = old.answer

Submit(old, new) == Goes(old, new, {"absent"}, "waiting") /\ Same(old, new)

(* A try starts: the first one, one after a retry, or one that replaces a  *)
(* try whose worker was lost.                                              *)
Start(j, old, new) == /\ Goes(old, new, {"waiting", "running"}, "running")
                      /\ old.tries < MaxTries[j]
                      /\ new.tries = old.tries + 1
                      /\ new.answer = old.answer

Retry(j, old, new) == /\ Goes(old, new, {"running"}, "waiting")
                      /\ old.tries < MaxTries[j]
                      /\ Same(old, new)

GiveUp(old, new) == Goes(old, new, {"running"}, "dead") /\ Same(old, new)

Answer(old, new) == /\ Goes(old, new, {"running"}, "done")
                    /\ new.tries = old.tries
                    /\ new.answer = old.tries

Withdraw(old, new) == Goes(old, new, {"waiting"}, "cancelled") /\ Same(old, new)

Step(j, old, new) == \/ new = old
                     \/ Submit(old, new)
                     \/ Start(j, old, new)
                     \/ Retry(j, old, new)
                     \/ GiveUp(old, new)
                     \/ Answer(old, new)
                     \/ Withdraw(old, new)

Next == /\ life' \in [Jobs -> Life]
        /\ \A j \in Jobs : Step(j, life[j], life'[j])

Spec == Init /\ [][Next]_life
=============================================================================
