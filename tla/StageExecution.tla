--------------------------- MODULE StageExecution ---------------------------
(***************************************************************************)
(* What happens on the device: AscendBackend (backend/ascend/backend.py)   *)
(* takes the device lock (worker/device_lock.py), lets StageRunner         *)
(* (worker/stage_runner.py) run one stage in a process group of its own,   *)
(* and turns what is left of it into a verdict and published evidence.     *)
(*                                                                         *)
(* A call is made by a process: a worker for a stage or a profile, the     *)
(* baseline command for a baseline, and either for a health check when it  *)
(* starts.  A worker whose stage went wrong goes on to a health check of   *)
(* the device.  Beside the main thread of the caller there are its second  *)
(* thread, which may cancel the running process at any time (a lost lease, *)
(* a signal to stop), and the members of the process group: the leader,    *)
(* and a child it may leave behind.                                        *)
(*                                                                         *)
(* When a caller dies, its lock is free at once; the process group runs on *)
(* as long as nobody ends it.                                              *)
(*                                                                         *)
(* There is no clock: whatever waits with a deadline may give up at any    *)
(* moment, and no process is obliged to do anything, not even to die.      *)
(***************************************************************************)
CONSTANTS Calls,
          None,     \* the lock is free
          Kinds     \* Kinds[e]: what a call may be, of the kinds below

ASSUME NoneAssumption == None \notin Calls

ASSUME KindsAssumption ==
         \A e \in Calls : Kinds[e] \subseteq {"stage", "profile", "baseline", "health"}

VARIABLES holder,   \* who holds the flock on the device's lock file
          call      \* what each call has come to

vars == <<holder, call>>

Members == {"leader", "child"}

(* pc is the line of the main thread.  phase tells the stage from the      *)
(* health check that may follow.  alive, killed: the members that run, and *)
(* those that were sent SIGKILL and are not yet gone.  pipes: the members  *)
(* that hold stdout or stderr.  file is stage_result.json, code the exit   *)
(* code of the leader, published the public directory of the attempt.      *)
Fresh(k) == [kind |-> k, pc |-> "idle",
             phase |-> IF k = "health" THEN "health" ELSE "stage",
             alive |-> {}, killed |-> {}, pipes |-> {},
             file |-> "none", code |-> "none",
             timedOut |-> FALSE, overflow |-> FALSE,
             cancel |-> "idle", verdict |-> "none", healthy |-> TRUE,
             published |-> "none"]

Init == /\ holder = None
        /\ call \in [Calls -> {Fresh(k) : k \in UNION {Kinds[e] : e \in Calls}}]
        /\ \A e \in Calls : call[e].kind \in Kinds[e]

Is(e, p) == call[e].pc = p

Becomes(e, new) == call' = [call EXCEPT ![e] = new]

Moves(e, new) == Becomes(e, new) /\ UNCHANGED holder

At(e, p) == [call[e] EXCEPT !.pc = p]

Ended == {"done", "dead"}

-----------------------------------------------------------------------------
(* Before the stage: _prepare() and the device lock.                       *)

(* What a call whose verdict is v does next.                               *)
Closing(e, v) == [At(e, "closing") EXCEPT !.verdict = v]

(* The call has returned: its locals are gone, and the verdict is with the *)
(* caller.  A process that still runs goes on running.                     *)
Over(e, p) == [Fresh(call[e].kind) EXCEPT !.pc = p, !.alive = call[e].alive,
                                          !.published = call[e].published]

(* A directory of the attempt's own, with copies of what the stage needs.  *)
Prepare(e) == Is(e, "idle") /\ Moves(e, At(e, "waiting"))

PrepareFails(e) == /\ Is(e, "idle") /\ call[e].kind # "health"
                   /\ Moves(e, Closing(e, "error"))

(* The stage or the health check gets no further, without the lock.        *)
Abandoned(e, v) == IF call[e].phase = "stage" THEN Closing(e, v)
                   ELSE [Over(e, "done") EXCEPT !.healthy = FALSE]

Acquire(e) == /\ Is(e, "waiting") /\ holder = None
              /\ holder' = e
              /\ Becomes(e, At(e, "owning"))

(* DeviceLockTimeout: the last try failed.                                 *)
LockTimeout(e) == /\ Is(e, "waiting") /\ holder # None
                  /\ Moves(e, Abandoned(e, "timeout"))

Own(e) == Is(e, "owning") /\ Moves(e, At(e, "launching"))

(* Mutant: the file descriptor is not closed when its owner cannot be      *)
(* written into the file.                                                  *)
OwnFailsOpen(e) == Is(e, "owning") /\ Moves(e, Abandoned(e, "error"))

OwnFails(e) == /\ Is(e, "owning")
               /\ holder' = None
               /\ Becomes(e, Abandoned(e, "error"))

-----------------------------------------------------------------------------
(* StageRunner.run(), in the main thread.                                  *)

Launch(e) == /\ Is(e, "launching")
             /\ Moves(e, [At(e, "launched") EXCEPT
                            !.alive = {"leader"}, !.killed = {}, !.pipes = {"leader"},
                            !.timedOut = FALSE, !.overflow = FALSE])

LaunchFails(e) == /\ Is(e, "launching")
                  /\ holder' = None
                  /\ Becomes(e, Abandoned(e, "error"))

(* _current_process is set: from here to the return a cancel finds it.     *)
Register(e) == Is(e, "launched") /\ Moves(e, At(e, "reading"))

Registered(e) == call[e].pc \in {"reading", "reaping", "grace", "settling"}

LeaderGone(c) == "leader" \notin c.alive \cup c.killed

(* Mutant: only the leader is killed.                                      *)
KilledLeader(c) == [c EXCEPT !.alive = @ \ {"leader"},
                             !.killed = @ \cup (c.alive \cap {"leader"})]

(* SIGTERM obliges nobody.  When the grace is over, SIGKILL goes to        *)
(* whoever is left in the group, its leader gone or not.                   *)
Killed(c) == [c EXCEPT !.alive = {}, !.killed = @ \cup c.alive]

(* The selector loop ends with both streams at their end ...               *)
Eof(e) == Is(e, "reading") /\ call[e].pipes = {} /\ Moves(e, At(e, "reaping"))

(* ... with more output than is allowed ...                                *)
Overflow(e) == Is(e, "reading") /\ Moves(e, [At(e, "grace") EXCEPT !.overflow = TRUE])

(* ... or at the deadline, which also ends the wait for the leader.        *)
Timeout(e) == /\ \/ Is(e, "reading")
                 \/ Is(e, "reaping") /\ ~LeaderGone(call[e])
              /\ Moves(e, [At(e, "grace") EXCEPT !.timedOut = TRUE])

Kill(e) == /\ Is(e, "grace")
           /\ Moves(e, [Killed(At(e, "settling")) EXCEPT !.pipes = {}])

(* The streams are closed, and a process that was killed does nothing more.*)
Returned(e) == [At(e, "returned") EXCEPT !.killed = {}, !.pipes = {}]

(* Mutant: the end of its output is taken for the end of the process.      *)
ReturnsAtEof(e) == /\ call[e].pc \in {"reaping", "settling"}
                   /\ Moves(e, Returned(e))

(* run() returns once it has waited for the leader ...                     *)
Returns(e) == /\ call[e].pc \in {"reaping", "settling"}
              /\ LeaderGone(call[e])
              /\ Moves(e, Returned(e))

(* ... or, if a killed leader does not die, when it has waited long enough.*)
ReturnsWithout(e) == /\ Is(e, "settling") /\ ~LeaderGone(call[e])
                     /\ Moves(e, [Returned(e) EXCEPT !.timedOut = TRUE])

Succeeded(c) == c.code = "zero" /\ ~c.timedOut /\ ~c.overflow

(* The with statement is left; of a health check only its success counts.  *)
Release(e) == /\ Is(e, "returned")
              /\ holder' = None
              /\ Becomes(e, IF call[e].phase = "stage" THEN At(e, "judging")
                            ELSE [Over(e, "done") EXCEPT !.healthy = Succeeded(call[e])])

-----------------------------------------------------------------------------
(* The verdict: _process_result(), and the like of it in profile().        *)

(* Mutant: a stage that left no result has failed.                         *)
IsolatedByCode(c) ==
  CASE c.timedOut -> "timeout"
    [] ~c.timedOut /\ (c.overflow \/ c.code # "zero") -> "fail"
    [] OTHER -> IF c.file = "pass" THEN "pass" ELSE "error"

(* Mutant: the origin of a failure is not looked at.                       *)
IsolatedOriginless(c) ==
  CASE c.timedOut -> "timeout"
    [] ~c.timedOut /\ c.overflow -> "fail"
    [] OTHER -> IF c.file = "none" \/ (c.file = "pass") # (c.code = "zero")
                THEN "error" ELSE c.file

Agrees(c) == c.file # "none" /\ (c.file = "pass") = (c.code = "zero")

(* A timeout is the infrastructure's, too much output the candidate's; and *)
(* a result is that of its file if there is one that agrees with the code. *)
Isolated(c) ==
  CASE c.timedOut -> "timeout"
    [] ~c.timedOut /\ c.overflow -> "fail"
    [] OTHER -> IF Agrees(c) /\ c.file # "infra" THEN c.file ELSE "error"

(* The exit code is that of msprof.  What the parser makes of its files is *)
(* not known.                                                              *)
Profiled(c) ==
  CASE c.timedOut -> {"timeout"}
    [] ~c.timedOut /\ (c.code # "zero" \/ c.overflow \/ c.file = "none") -> {"unavailable"}
    [] OTHER -> IF c.file = "pass" THEN {"pass", "unavailable", "error"} ELSE {"fail"}

Verdicts(c) == IF c.kind = "profile" THEN Profiled(c) ELSE {Isolated(c)}

(* Hidden cases leave no evidence behind: the verdict is all there is.     *)
JudgePrivate(e) == /\ Is(e, "judging") /\ call[e].kind # "baseline"
                   /\ \E v \in Verdicts(call[e]) : Moves(e, Closing(e, v))

(* _publish_artifacts() copies what there is into a staging directory,     *)
(* adds the manifest of it, and renames it to its public name.             *)
Stage(e) == /\ Is(e, "judging")
            /\ Moves(e, [At(e, "publishing") EXCEPT !.published = "staging"])

Publish(e) == /\ Is(e, "publishing")
              /\ \E v \in Verdicts(call[e]) :
                   Moves(e, [Closing(e, v) EXCEPT !.published = "complete"])

(* A file cannot be copied, or is no plain file.                           *)
PublishFails(e) == /\ Is(e, "publishing")
                   /\ Moves(e, [Closing(e, "error") EXCEPT !.published = "none"])

(* _requires_health_check() of the worker: an error, a timeout, or the     *)
(* mark of one of them in the details of the result.                       *)
RequiresHealthCheck(c) == /\ c.kind # "baseline"
                          /\ \/ c.verdict \in {"error", "timeout"}
                             \/ c.timedOut \/ c.overflow

(* The call returns.  A health check takes the lock anew; a child that the *)
(* stage left behind is not followed any further.                          *)
Close(e) ==
  /\ Is(e, "closing")
  /\ Moves(e, IF RequiresHealthCheck(call[e])
              THEN [Over(e, "waiting") EXCEPT !.phase = "health", !.alive = {},
                                              !.cancel = call[e].cancel]
              ELSE Over(e, "done"))

-----------------------------------------------------------------------------
(* The second thread of a worker at work on a job: cancel_current().       *)

Running(e) == call[e].pc \notin {"idle"} \cup Ended

MayCancel(e) == /\ Running(e) /\ call[e].cancel = "idle"
                /\ call[e].kind \in {"stage", "profile"}

(* With no process registered there is nothing to cancel, and what starts  *)
(* a moment later is not stopped.                                          *)
CancelMisses(e) == /\ MayCancel(e) /\ ~Registered(e)
                   /\ Moves(e, [call[e] EXCEPT !.cancel = "missed"])

(* SIGTERM, to the group of the process that was read under the lock.      *)
CancelFinds(e) == /\ MayCancel(e) /\ Registered(e)
                  /\ Moves(e, [call[e] EXCEPT !.cancel = call[e].phase])

(* SIGKILL, when the main thread may be elsewhere.                         *)
CancelKills(e) ==
  /\ Running(e) /\ call[e].cancel \in {"stage", "health"}
  /\ LET c == IF call[e].cancel = call[e].phase THEN Killed(call[e]) ELSE call[e]
     IN Moves(e, [c EXCEPT !.cancel = "over"])

-----------------------------------------------------------------------------
(* The processes of the group: stage_entry.main() and what it starts.      *)

(* The candidate starts a process, which may inherit the streams; a        *)
(* baseline and a health probe run no candidate.                           *)
Fork(e) == /\ "leader" \in call[e].alive
           /\ call[e].phase = "stage" /\ call[e].kind # "baseline"
           /\ "child" \notin call[e].alive
           /\ \E inherited \in SUBSET {"child"} :
                Moves(e, [call[e] EXCEPT !.alive = Members, !.pipes = @ \cup inherited])

(* _atomic_json() commits what execute() returned, or the exception that   *)
(* ended it: of the runtime (infra), or of the candidate (fail).           *)
Commit(e) == /\ "leader" \in call[e].alive
             /\ call[e].phase = "stage" /\ call[e].file = "none"
             /\ \E r \in {"pass", "fail", "infra"} : Moves(e, [call[e] EXCEPT !.file = r])

(* The leader closes its streams and runs on.                              *)
Detach(e) == /\ "leader" \in call[e].alive \cap call[e].pipes
             /\ Moves(e, [call[e] EXCEPT !.pipes = @ \ {"leader"}])

(* A stage returns 0 if it passed; msprof and the health probe may do so   *)
(* for reasons of their own; and anything may crash on its way out.        *)
Codes(c) == {"nonzero"} \cup
            {z \in {"zero"} : c.kind = "profile" \/ c.phase = "health" \/ c.file = "pass"}

Gone(c, m) == [c EXCEPT !.alive = @ \ {m}, !.killed = @ \ {m}, !.pipes = @ \ {m}]

Exit(e, m) ==
  /\ m \in call[e].alive
  /\ IF m = "leader"
     THEN \E z \in Codes(call[e]) : Moves(e, [Gone(call[e], m) EXCEPT !.code = z])
     ELSE Moves(e, Gone(call[e], m))

Die(e, m) == /\ m \in call[e].killed
             /\ Moves(e, [Gone(call[e], m) EXCEPT
                             !.code = IF m = "leader" THEN "nonzero" ELSE @])

(* The caller is killed, or Ctrl-C raises KeyboardInterrupt in one of its  *)
(* waits and leaves the with statement: the lock is free at once.  The     *)
(* group has a session of its own; nobody signals it, and it runs on.      *)
Crash(e) == /\ Running(e)
            /\ holder' = IF holder = e THEN None ELSE holder
            /\ Becomes(e, [Over(e, "dead") EXCEPT !.phase = call[e].phase])

(* Whoever keeps the dead caller's control group or container ends what is *)
(* left in it; for a command that was run by hand nobody does.             *)
EndGroup(e) == /\ Is(e, "dead") /\ call[e].alive # {}
               /\ Moves(e, [call[e] EXCEPT !.alive = {}, !.pipes = {}])

-----------------------------------------------------------------------------
RunStep(e) == \/ Launch(e) \/ LaunchFails(e) \/ Register(e)
              \/ Eof(e) \/ Overflow(e) \/ Timeout(e) \/ Kill(e)
              \/ Returns(e) \/ ReturnsWithout(e)

MainStep(e) == \/ Acquire(e) \/ LockTimeout(e) \/ Own(e) \/ OwnFails(e)
               \/ RunStep(e) \/ Release(e)
               \/ JudgePrivate(e) \/ Stage(e) \/ Publish(e) \/ PublishFails(e)
               \/ Close(e)

CancelStep(e) == CancelMisses(e) \/ CancelFinds(e) \/ CancelKills(e)

GroupStep(e) == \/ Fork(e) \/ Commit(e) \/ Detach(e)
                \/ \E m \in Members : Exit(e, m) \/ Die(e, m)

Next == \E e \in Calls : \/ Prepare(e) \/ PrepareFails(e)
                         \/ MainStep(e) \/ CancelStep(e) \/ GroupStep(e)
                         \/ Crash(e) \/ EndGroup(e)

(* The main thread goes on; nothing is assumed of any other.               *)
Spec == Init /\ [][Next]_vars /\ \A e \in Calls : WF_vars(MainStep(e))

-----------------------------------------------------------------------------
TypeOK ==
  /\ holder \in Calls \cup {None}
  /\ \A e \in Calls :
       /\ call[e].kind \in Kinds[e]
       /\ call[e].phase \in {"stage", "health"}
       /\ call[e].pc \in {"idle", "waiting", "owning", "launching", "launched",
                         "reading", "reaping", "grace", "settling", "returned",
                         "judging", "publishing", "closing"} \cup Ended
       /\ call[e].alive \subseteq Members /\ call[e].killed \subseteq Members
       /\ call[e].alive \cap call[e].killed = {}
       /\ call[e].pipes \subseteq call[e].alive \cup call[e].killed
       /\ call[e].file \in {"none", "pass", "fail", "infra"}
       /\ call[e].code \in {"none", "zero", "nonzero"}
       /\ call[e].cancel \in {"idle", "missed", "stage", "health", "over"}
       /\ call[e].verdict \in {"none", "pass", "fail", "error", "timeout", "unavailable"}
       /\ call[e].published \in {"none", "staging", "complete"}
       /\ {call[e].timedOut, call[e].overflow, call[e].healthy} \subseteq BOOLEAN

(* No two calls whose callers live run a stage at the same time: a leader  *)
(* runs under the device lock of its own call, whatever timed out, failed  *)
(* or was cancelled, unless its caller died.  Such an orphan runs on       *)
(* without the lock, beside the stage of whoever takes it next.  (So may a *)
(* child that outlives its leader; see the README.)                        *)
StageRunsUnderLock ==
  \A e \in Calls : "leader" \in call[e].alive => holder = e \/ Is(e, "dead")

(* Once a call that timed out or ran into the output limit has returned,   *)
(* or a cancel that found a process has ended, nobody of that process      *)
(* group runs any more, not even a child that its leader left behind.      *)
TerminationLeavesNobody ==
  \A e \in Calls :
    \/ /\ call[e].pc \in {"returned", "judging", "publishing", "closing"}
       /\ call[e].timedOut \/ call[e].overflow
    \/ call[e].phase = "stage" /\ call[e].cancel = "over"
    => call[e].alive = {}

(* The candidate is failed only for what its stage did, a failing result   *)
(* or too much output, and passed only if a stage that nobody ended said   *)
(* so; and the verdict on a baseline, always public, has its evidence.     *)
VerdictIsEarned ==
  \A e \in Calls :
    LET c == call[e]
    IN c.pc = "closing" /\ c.kind # "profile" =>
         /\ c.verdict = "fail" => c.overflow \/ c.file = "fail"
         /\ c.verdict = "pass" => c.file = "pass" /\ c.code = "zero"
         /\ c.verdict \in {"pass", "fail"} /\ c.kind = "baseline"
              => c.published = "complete"

(* Every call comes to an end and gives the device back, with candidates   *)
(* that ignore signals, hold the streams open or do not even die.          *)
CallEnds ==
  \A e \in Calls : call[e].pc # "idle" ~> call[e].pc \in Ended /\ holder # e
=============================================================================
