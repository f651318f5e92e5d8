---------------------------- MODULE WorkerService ----------------------------
(***************************************************************************)
(* The evaluation workers: WorkerService in worker/service.py, at work on  *)
(* the queue of module JobQueue, whose transactions they call.             *)
(*                                                                         *)
(* A worker process has two threads.  The main thread claims a job,        *)
(* creates the attempt's directory, runs the stage, and commits what came  *)
(* of it; the heartbeat thread extends the lease meanwhile and calls the   *)
(* backend off when it cannot.  Each call to the queue is two steps, for   *)
(* the reason given in JobQueue, and the threads of all workers interleave *)
(* between them.  A process may die at any point and be started again.     *)
(*                                                                         *)
(* The broker is here only as far as workers depend on it: it enqueues the *)
(* jobs, and sweeps expired leases whenever it polls for an answer.        *)
(***************************************************************************)
EXTENDS Integers, Sequences

CONSTANTS Jobs, Workers, None, MaxAttempts, Priority, LeaseTime, MaxClock,
          RetryDelay,  \* retry_delay_seconds
          Private,     \* the jobs with a case_set: hidden evaluations
          Broker       \* the thread that waits for the answers

ASSUME JobsAssumption == Jobs \subseteq Nat
ASSUME WorkersAssumption == None \notin Workers
ASSUME AttemptsAssumption == MaxAttempts \in [Jobs -> Nat \ {0}]
ASSUME PriorityAssumption == Priority \in [Jobs -> Int]
ASSUME TimeAssumption == /\ LeaseTime \in Nat \ {0}
                         /\ RetryDelay \in Nat /\ MaxClock \in Nat
ASSUME BrokerAssumption == Broker \notin Workers \X {"main", "beat"}

VARIABLES jobs, grants, clock, calls,  \* as in JobQueue
          pc,           \* where the main thread of each worker is
          lease,        \* the lease it works under, or NULL
          beat,         \* where its heartbeat thread is
          quarantined,  \* WorkerService._quarantined
          outcomes,     \* what came of the stage run under each lease
          attemptDirs   \* the attempt_NNN directories that exist

Main(w) == <<w, "main">>
Beat(w) == <<w, "beat">>
Callers == {Broker} \cup (Workers \X {"main", "beat"})

Queue == INSTANCE JobQueue WITH RetryDelays <- {0, RetryDelay}

queueVars == <<jobs, grants, clock, calls>>
workerVars == <<pc, lease, beat, quarantined, outcomes, attemptDirs>>
vars == <<jobs, grants, clock, calls,
          pc, lease, beat, quarantined, outcomes, attemptDirs>>

NULL == 0

(* verdict: a result about the candidate.  transient: a result of status   *)
(* error or timeout that says it may be retried.  rejected: the payload or *)
(* a file it names is not acceptable.  raised: any other exception.  sick: *)
(* the result called for a health check, and the device failed it.         *)
Outcomes == {"verdict", "transient", "rejected", "raised", "sick"}

Init == /\ Queue!Init
        /\ pc = [w \in Workers |-> "idle"]
        /\ lease = [w \in Workers |-> NULL]
        /\ beat = [w \in Workers |-> "off"]
        /\ quarantined = [w \in Workers |-> FALSE]
        /\ outcomes = <<>>
        /\ attemptDirs = {}

Goes(w, from, to) == pc[w] = from /\ pc' = [pc EXCEPT ![w] = to]

(* The directory job_root/attempt_NNN of a lease.                          *)
DirOf(t) == <<grants[t].job, grants[t].attempt>>

-----------------------------------------------------------------------------
(* The main thread: run_once().                                            *)

(* Mutant: the quarantine is not looked at.                                *)
PollQuarantined(w) ==
  /\ Goes(w, "idle", "claiming")
  /\ Queue!BeginCall(Main(w))
  /\ UNCHANGED <<lease, beat, quarantined, outcomes, attemptDirs>>

Poll(w) == /\ ~quarantined[w]
           /\ Goes(w, "idle", "claiming")
           /\ Queue!BeginCall(Main(w))
           /\ UNCHANGED <<lease, beat, quarantined, outcomes, attemptDirs>>

(* Mutant: the lease is looked up before it is granted.                    *)
TakePrevious(w) == /\ Goes(w, "claiming", "claimed")
                   /\ Queue!Claim(Main(w), w)
                   /\ lease' = [lease EXCEPT ![w] = Len(grants)]
                   /\ beat' = [beat EXCEPT ![w] = "waiting"]
                   /\ outcomes' = Append(outcomes, "pending")
                   /\ UNCHANGED <<quarantined, attemptDirs>>

Take(w) == /\ Goes(w, "claiming", "claimed")
           /\ Queue!Claim(Main(w), w)
           /\ lease' = [lease EXCEPT ![w] = Len(grants) + 1]
           /\ beat' = [beat EXCEPT ![w] = "waiting"]
           /\ outcomes' = Append(outcomes, "pending")
           /\ UNCHANGED <<quarantined, attemptDirs>>

TakeNothing(w) == /\ Goes(w, "claiming", "idle")
                  /\ Queue!ClaimNothing(Main(w))
                  /\ UNCHANGED <<lease, beat, quarantined, outcomes, attemptDirs>>

(* _validate() accepts the payload and is first to create the directory.   *)
Prepare(w) == /\ Goes(w, "claimed", "running")
              /\ DirOf(lease[w]) \notin attemptDirs
              /\ attemptDirs' = attemptDirs \cup {DirOf(lease[w])}
              /\ UNCHANGED <<jobs, grants, clock, calls>>
              /\ UNCHANGED <<lease, beat, quarantined, outcomes>>

(* The run ends with outcome o; finalize() then sets stop_event.           *)
Ends(w, from, o) == /\ Goes(w, from, "joining")
                    /\ outcomes' = [outcomes EXCEPT ![lease[w]] = o]
                    /\ quarantined' = [quarantined EXCEPT ![w] = @ \/ o = "sick"]
                    /\ UNCHANGED <<jobs, grants, clock, calls>>
                    /\ UNCHANGED <<lease, beat>>

(* _validate() raises; an existing directory is a payload error.           *)
Refuse(w, o) == /\ Ends(w, "claimed", o)
                /\ o \in {"rejected", "raised"}
                /\ o = "raised" => DirOf(lease[w]) \notin attemptDirs
                /\ UNCHANGED attemptDirs

(* The stage is over and its device was checked if need be; a hidden       *)
(* evaluation leaves no directory behind.                                  *)
Finish(w, o) == /\ Ends(w, "running", o)
                /\ o \in Outcomes
                /\ attemptDirs' = IF grants[lease[w]].job \in Private
                                  THEN attemptDirs \ {DirOf(lease[w])}
                                  ELSE attemptDirs

(* Mutant: finalize() does not wait for the heartbeat thread.              *)
JoinEarly(w) == /\ Goes(w, "joining", "renewing")
                /\ beat[w] # "lost"
                /\ Queue!BeginCall(Main(w))
                /\ UNCHANGED <<lease, beat, quarantined, outcomes, attemptDirs>>

(* finalize() has joined the heartbeat thread, and beats once more itself. *)
Join(w) == /\ Goes(w, "joining", "renewing")
           /\ beat[w] = "off"
           /\ Queue!BeginCall(Main(w))
           /\ UNCHANGED <<lease, beat, quarantined, outcomes, attemptDirs>>

Renew(w) == /\ Goes(w, "renewing", "renewed")
            /\ Queue!Heartbeat(Main(w), lease[w])
            /\ UNCHANGED <<lease, beat, quarantined, outcomes, attemptDirs>>

(* LeaseLostError in finalize(): the job is somebody else's by now.        *)
Abandon(w) == /\ \/ Goes(w, "joining", "idle") /\ beat[w] = "lost"
                 \/ /\ Goes(w, "renewing", "idle")
                    /\ ~Queue!Owns(lease[w], calls[Main(w)])
              /\ Queue!AbortCalls({Main(w)})
              /\ lease' = [lease EXCEPT ![w] = NULL]
              /\ beat' = [beat EXCEPT ![w] = "off"]
              /\ UNCHANGED <<quarantined, outcomes, attemptDirs>>

BeginCommit(w) == /\ Goes(w, "renewed", "writing")
                  /\ Queue!BeginCall(Main(w))
                  /\ UNCHANGED <<lease, beat, quarantined, outcomes, attemptDirs>>

(* Mutants: transient results are kept one attempt early; or never.        *)
DeliveredEarly(t) ==
  \/ outcomes[t] = "verdict"
  \/ /\ outcomes[t] = "transient"
     /\ grants[t].attempt >= MaxAttempts[grants[t].job] - 1

DeliveredVerdicts(t) == outcomes[t] = "verdict"

(* A result the controller gets to see: a verdict, or a transient failure  *)
(* that no attempt is left for.                                            *)
Delivered(t) ==
  \/ outcomes[t] = "verdict"
  \/ /\ outcomes[t] = "transient"
     /\ grants[t].attempt >= MaxAttempts[grants[t].job]

Retryable(o) == o # "rejected"

(* Mutant: a result is stored whoever holds the lease by now.              *)
CommitUnfenced(w) ==
  /\ Goes(w, "writing", "idle")
  /\ Queue!EndCall(Main(w), calls[Main(w)])
  /\ jobs' = [jobs EXCEPT ![grants[lease[w]].job] =
                Queue!CompletedRow(grants[lease[w]].job, lease[w])]
  /\ lease' = [lease EXCEPT ![w] = NULL]
  /\ UNCHANGED <<grants, beat, quarantined, outcomes, attemptDirs>>

Commit(w) == /\ Goes(w, "writing", "idle")
             /\ LET t == lease[w]
                    retryable == Retryable(outcomes[t])
                IN IF Delivered(t)
                   THEN Queue!Complete(Main(w), t)
                   ELSE Queue!Fail(Main(w), t, retryable,
                                   IF retryable THEN RetryDelay ELSE 0)
             /\ lease' = [lease EXCEPT ![w] = NULL]
             /\ UNCHANGED <<beat, quarantined, outcomes, attemptDirs>>

(* The process ends, with both threads and the calls they were making.     *)
Die(w) == /\ pc[w] # "down"
          /\ pc' = [pc EXCEPT ![w] = "down"]
          /\ Queue!AbortCalls({Main(w), Beat(w)})
          /\ lease' = [lease EXCEPT ![w] = NULL]
          /\ beat' = [beat EXCEPT ![w] = "off"]
          /\ UNCHANGED <<quarantined, outcomes, attemptDirs>>

(* LeaseLostError in the final complete() or fail() escapes run_once().    *)
CommitLost(w) == /\ pc[w] = "writing"
                 /\ ~Queue!Owns(lease[w], calls[Main(w)])
                 /\ Die(w)

(* The container is restarted and the device passes its health check.      *)
Restart(w) == /\ Goes(w, "down", "idle")
              /\ quarantined' = [quarantined EXCEPT ![w] = FALSE]
              /\ UNCHANGED <<jobs, grants, clock, calls>>
              /\ UNCHANGED <<lease, beat, outcomes, attemptDirs>>

-----------------------------------------------------------------------------
(* The heartbeat thread: _Heartbeat._run().                                *)

(* Mutant: finalize() joins the thread before it sets stop_event.          *)
StopEventAfterJoin(w) == pc[w] \in {"renewing", "renewed", "writing"}

StopEvent(w) == pc[w] \in {"joining", "renewing", "renewed", "writing"}

BeatTo(w, from, to) == beat[w] = from /\ beat' = [beat EXCEPT ![w] = to]

BeginBeat(w) == /\ BeatTo(w, "waiting", "beating")
                /\ ~StopEvent(w)
                /\ Queue!BeginCall(Beat(w))
                /\ UNCHANGED <<pc, lease, quarantined, outcomes, attemptDirs>>

EndBeat(w) == /\ BeatTo(w, "beating", "waiting")
              /\ Queue!Heartbeat(Beat(w), lease[w])
              /\ UNCHANGED <<pc, lease, quarantined, outcomes, attemptDirs>>

(* The lease is gone, or the call failed in any other way.                 *)
LoseLease(w) == /\ BeatTo(w, "beating", "lost")
                /\ Queue!AbortCalls({Beat(w)})
                /\ UNCHANGED <<pc, lease, quarantined, outcomes, attemptDirs>>

StopBeat(w) == /\ BeatTo(w, "waiting", "off")
               /\ StopEvent(w)
               /\ UNCHANGED <<jobs, grants, clock, calls>>
               /\ UNCHANGED <<pc, lease, quarantined, outcomes, attemptDirs>>

-----------------------------------------------------------------------------
(* The broker, and everything together.                                    *)

BrokerPoll == Queue!BeginCall(Broker) /\ UNCHANGED workerVars

BrokerSweep == Queue!Sweep(Broker) /\ UNCHANGED workerVars

BrokerEnqueue == /\ \E j \in Jobs : Queue!Enqueue(Broker, j)
                 /\ UNCHANGED workerVars

Tick == Queue!Tick /\ UNCHANGED workerVars

MainStep(w) == \/ Take(w) \/ TakeNothing(w) \/ Prepare(w)
               \/ \E o \in Outcomes : Refuse(w, o) \/ Finish(w, o)
               \/ Join(w) \/ Renew(w) \/ Abandon(w)
               \/ BeginCommit(w) \/ Commit(w) \/ CommitLost(w)

BeatStep(w) == BeginBeat(w) \/ EndBeat(w) \/ LoseLease(w) \/ StopBeat(w)

Next == \/ Tick \/ BrokerPoll \/ BrokerSweep \/ BrokerEnqueue
        \/ \E w \in Workers : \/ Poll(w) \/ MainStep(w) \/ BeatStep(w)
                              \/ Die(w) \/ Restart(w)

Spec == Init /\ [][Next]_vars

(* Every stage process ends, by itself or by its timeout; a call ends when *)
(* SQLite's busy timeout does; the broker's loop polls for as long as it   *)
(* waits.  No worker is obliged to poll, to survive or to be restarted.    *)
Fairness == /\ \A w \in Workers : WF_vars(MainStep(w)) /\ WF_vars(BeatStep(w))
            /\ WF_vars(BrokerPoll \/ BrokerSweep)

LiveSpec == Spec /\ Fairness

-----------------------------------------------------------------------------
(* Properties.                                                             *)

(* Every variable keeps its type, and a worker holds a lease exactly while *)
(* it is at work on a job.                                                 *)
Working == {"claimed", "running", "joining", "renewing", "renewed", "writing"}

TypeOK == /\ Queue!TypeOK
          /\ pc \in [Workers -> {"idle", "claiming", "down"} \cup Working]
          /\ lease \in [Workers -> {NULL} \cup DOMAIN grants]
          /\ beat \in [Workers -> {"off", "waiting", "beating", "lost"}]
          /\ quarantined \in [Workers -> BOOLEAN]
          /\ outcomes \in Seq(Outcomes \cup {"pending"})
          /\ Len(outcomes) = Len(grants)
          /\ attemptDirs \subseteq Jobs \X Nat
          /\ \A w \in Workers : lease[w] # NULL <=> pc[w] \in Working

(* mkdir(exist_ok=False) never meets a directory that is already there: no *)
(* retry, takeover or restart makes two executions share an attempt, and   *)
(* none is turned down as a payload error because an earlier one died.     *)
AttemptDirIsFresh == \A w \in Workers :
  pc[w] = "claimed" => DirOf(lease[w]) \notin attemptDirs

(* What the queue keeps as the result of a job came of the very lease that *)
(* delivered it, and is a verdict, or a transient failure of the last      *)
(* attempt; what a sick device produced is never kept.                     *)
AnswerFitsOutcome == \A j \in Jobs : jobs[j].status = "SUCCEEDED" =>
  \/ outcomes[jobs[j].result] = "verdict"
  \/ /\ outcomes[jobs[j].result] = "transient"
     /\ jobs[j].attempts = MaxAttempts[j]

(* The comment in run_once(): an evaluation that a worker brought to an    *)
(* end is not turned into an opaque dead letter.                           *)
NothingIsBuried == \A j \in Jobs, t \in DOMAIN grants :
  (/\ jobs[j].status = "DEAD"
   /\ jobs[j].error = "reported"
   /\ Queue!NewestLeaseOf(t, j)) => outcomes[t] \in {"rejected", "raised", "sick"}

(* The two threads of a worker extend the lease in the order in which they *)
(* read the clock: no heartbeat cuts a lease short.                        *)
LeaseNeverShrinks == [][\A j \in Jobs :
  (/\ jobs[j].token # NULL
   /\ jobs'[j].token = jobs[j].token) => jobs'[j].expires >= jobs[j].expires]_vars

(* A worker that failed its health check is granted no further lease       *)
(* until it has been restarted, which takes a health check that passes.    *)
QuarantineHolds == [][\A w \in Workers :
  quarantined[w] => \/ grants' = grants
                    \/ grants'[Len(grants')].worker # w]_vars

(* Every transaction the workers and the broker cause is one the queue     *)
(* allows to arbitrary callers, so that all it promises holds here.        *)
ImplementsQueue == Queue!Spec

(* A worker that holds a lease gets rid of it, whatever its two threads    *)
(* do to each other: it is idle again, or dead.                            *)
RunEnds == \A w \in Workers : pc[w] \in Working ~> pc[w] \in {"idle", "down"}

(* A lease that ran out because its worker died does not hold its job for  *)
(* ever: somebody extends it or a sweep takes it away.                     *)
Lapsed(j) == jobs[j].status = "LEASED" /\ jobs[j].expires <= clock

LapsedLeaseIsReleased == \A j \in Jobs : Lapsed(j) ~> ~Lapsed(j)
=============================================================================
