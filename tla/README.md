# Ascend Kernel Lab: specifications

TLA+ models of the control plane of Ascend Kernel Lab, checked with TLC. Every
safety property that a passing run checks is also proved with TLAPS, for all
values of the constants, two of them under a hypothesis on the constants that
section 5 gives. Paths below are relative to `src/src/ascend_kernel_lab/` unless
they name a document.

The lab asks a language model for Triton kernels, evaluates each candidate on an
NPU and keeps the best. A *controller* takes every task through a fixed number
of rounds; a *broker* turns each stage of an evaluation into a job of a durable
SQLite *queue*; *workers*, one per NPU, take jobs under expiring leases and run
each in a process group of its own, under a file lock on the device. Any of
these processes may be killed at any point and is started again, and the host
may lose its power. What can go wrong is almost all of that kind: leases, clocks,
replays, processes that do not die, late answers, and a database and a file tree
that no transaction spans.

## 1. Inventory

| Component | State it keeps | Operations | Hard behaviour | What makes it correct |
| --- | --- | --- | --- | --- |
| Evaluation queue, `storage/job_queue.py` | table `evaluation_jobs`: status, attempts, lease owner, token, expiry and heartbeat, result | `enqueue`, `claim`, `heartbeat`, `complete`, `fail`, `sweep_expired_leases`, `cancel` | concurrent processes; the clock is read before the transaction waits; holders that vanish or come back late | a job is tried a bounded number of times, ends once, and its result is that of its newest lease |
| Worker, `worker/service.py` | lease in hand, heartbeat thread, quarantine, attempt directories | `run_once`, `_Heartbeat._run`, `finalize`, `serve_forever` | two threads on one lease; death between steps; sick devices | the answer stored is the one the stage gave; attempts never collide; a run ends |
| Stage runner, device lock, Ascend backend, `worker/stage_runner.py`, `worker/device_lock.py`, `backend/ascend/backend.py`, `worker/stage_entry.py` | a process group, its streams and its result file; a file lock; the published evidence | `run`, `_terminate`, `cancel_current`, `acquire`, `release`, `_run_isolated`, `_process_result`, `profile`, `health_check` | children outliving their leader, streams held open, cancellation by a second thread, processes that ignore signals, stages that outlive their caller | of living callers one stage per device at a time, nobody left after a termination, no verdict a stage did not earn |
| Broker, `broker/backend.py` | deterministic job ids | `_make_job`, `_wait`, `_terminal_result` | deadline against a late answer, cancellation, dead jobs found again | an answer that exists is used; calls agree |
| Evaluation orchestrator, `evaluation/orchestrator.py` | none | `evaluate_candidate` | which failure is the candidate's and which the infrastructure's | later stages only after earlier ones, blame only where it is earned |
| Controller, `orchestration/controller.py` | none of its own: the task, round, candidate and artifact rows and the files | `initialize`, `run`, `run_task`, `_run_round`, `_ensure_feedback`, `_run_final`, resume | crash between any two writes; replay of all rounds on every resume; a second controller | states are backed by files; one model answer per round; one trail of best candidates; the selected candidate is the one judged |
| State store, `storage/state_store.py`, `database.py` | tasks, rounds (with a version), candidates, scores, artifacts, experiments | `transition_*`, `create_*`, `register_*`, `save_candidate_score`, `set_best_candidate` | compare-and-swap, `synchronous=NORMAL` | only legal transitions, one writer wins |
| Artifact store, `storage/artifact_store.py` | immutable files | `put_stream` and its callers, `verify` | two writers, crash between link and sync | a committed file never changes |
| Event log, `storage/event_log.py` | append-only events | append in the caller's transaction, paged `read` | cursor against concurrent appends, loss of the last transactions | the projection is a prefix of the log |
| Model gateways, `llm/*.py` | none | `complete`, retry, `complete_model_response` | back-off, bounded repair nested in bounded retry | bounded requests, a transport error never consumes a round |
| Scoring, `domain/scoring.py` | none | `compare_public_candidate`, ranking, reward | tolerance makes ties non-transitive | a new best beats the old one |
| Verification, `verification.py` | none | `RunVerifier.verify` | reads what the others left | a finished run verifies |
| Tasks, source guard, baselines, prompts, probes, export, acceptance, configuration | files read or written once | | numerics, device I/O, text | not control; section 7 |

How they interact: the controller calls `evaluate_candidate`, which calls the
broker (`EvaluationBackend`) stage by stage; the broker enqueues a job and polls
the queue, sweeping expired leases as it does. Workers claim jobs, hand them to
the Ascend backend and store results in the same table; controller and workers
share no memory. Inside a worker the heartbeat thread calls `cancel_current`
when the lease is lost, while the main thread waits for the stage. The
controller alone writes tasks, rounds and artifacts; `run` drives several tasks
from a thread pool, and tasks share nothing but the database.

The hazards this leads to are listed, each at its line, in `PROJECT.json`.

## 2. Modules

| Module | Models | Checked by | Proved in |
| --- | --- | --- | --- |
| `JobQueue` | the queue: one action per transaction, the clock, calls in progress | `MCJobQueue` | `JobQueueProofs` |
| `JobLifecycle` | what the queue promises of a job, without clocks, leases or callers | refined by `JobQueue`, used by `CandidateEvaluation` | `JobQueueProofs` |
| `WorkerService` | workers with two threads each, composed with `JobQueue` | `MCWorkerService` | `WorkerServiceProofs` |
| `StageExecution` | one device: its lock, the process group of a stage, verdict and evidence | `MCStageExecution` | `StageExecutionProofs` |
| `CandidateEvaluation` | `evaluate_candidate` over the broker over jobs of the queue | `MCCandidateEvaluation` | `CandidateEvaluationProofs` |
| `TaskController` | one task, from its creation to its verdict, with crashes and resumes | `MCTaskController` | `TaskControllerProofs`, `TaskDecisionProofs` |
| `TaskTrajectory` | what the controller promises of a task: a trail of bests, one selection, one verdict | refined by `TaskController` | `TaskControllerProofs` |
| `DurableStore` | files, directories, transactions and events, and what a loss of power leaves | through `ExperimentRun` | `ExperimentRunProofs` |
| `ExperimentRun` | controllers of one experiment over one `DurableStore`, and the answer of the model | `MCExperimentRun` | `ExperimentRunProofs` |

The layers meet at shared specifications. `WorkerService` takes every step of
the queue from an instance of `JobQueue` and is shown to implement it. A stage
is one of five outcomes there; `StageExecution` says how each comes about. The
jobs of `CandidateEvaluation` move only as `JobLifecycle` allows, which `JobQueue`
implements; both are proved. What `evaluate_candidate` may return there is `Outcomes` of
`TaskController`. `TaskController` takes a put to be one step with one writer;
`ExperimentRun` opens it up into link, sync and row, with several writers.

### JobQueue

`jobs` is the table, `clock` the wall clock. Every operation reads the clock and
then opens a `BEGIN IMMEDIATE` transaction, so a call is two steps: `BeginCall`
stores the time in `calls`, and the transaction commits later, with that time.
SQLite serialises transactions, which makes each of them one atomic step. A
transaction that rolls back, or whose process dies, is `AbortCalls`. A
`lease_token` is modelled by its index in `grants`, the list of all leases ever
granted; a caller may present any of them at any time. `Claim` contains the
sweep that `claim()` starts with, and leases the first row of its `ORDER BY`.

### WorkerService

`pc` follows the main thread through `run_once`: `claiming`, `claimed`,
`running`, `joining` (in `finalize`), `renewing`, `renewed`, `writing`. `beat`
follows the heartbeat thread. All queue steps are those of `JobQueue`, taken by
the caller `<<w, "main">>` or `<<w, "beat">>`, so a call of one thread can be
overtaken by the other's. Failure to join the thread in time and any exception
that escapes `run_once` end the process: they are `Die`, which may also happen
at any other step. `Restart` is the container's restart and its health check.
The broker enqueues and sweeps.

### StageExecution

`call[e].pc` is the line the main thread of the caller is at, from `_prepare`
through `DeviceLock.acquire`, `StageRunner.run` (`launching` to `settling`) and
`_process_result` to the publication of evidence. The rest of the record is what
others do to it: `alive`, `killed` and `pipes` are the members of the process
group, those that were sent SIGKILL and are not gone yet, and those that hold
the streams; `file` and `code` are the result file and the exit code of the
leader; `cancel` is the second thread in `cancel_current`. There is no clock:
whatever has a deadline may give up at any moment. A worker whose stage went
wrong runs the health probe in a second process under a second acquisition of
the lock, in the same call (`phase`). A group has two members, the leader and a
child it may leave behind; one child stands for any number of them, since
signals go to the group.

`Crash` is the death of the caller by a signal it cannot handle, or a
`KeyboardInterrupt` out of one of its waits: the lock is free at once, and the
group, which is in a session of its own (`worker/stage_runner.py:267`), runs on.
`EndGroup` ends what is left of it: systemd kills the rest of a control group
after its main process (`KillMode=control-group`), a container goes with its
first process. It is a step that need not happen, since for a command that is
run by hand, as `docs/deployment-910c.md:240` has it for `akg baseline run`,
nobody takes it. Between the two an orphaned stage goes on as any stage does:
it forks, writes its result and exits.

### CandidateEvaluation

`request` fixes what is asked for and the truth about the candidate: the first
check it does not stand. Workers appear as far as they move the jobs: `Start`,
`Deliver` and `Fail`, steps of `JobLifecycle`. The controller's thread is in one
call (`call.pc`), at the stage `call.stage`, inside `_wait`: `Enqueue`,
`Conclude`, `Sweep`, `Check`, `Refresh`, `Deadline`, `Latest` are its lines in
order, each with what it read before it (`call.seen`). `Proceeds` is the part of
`evaluate_candidate` between two stages, and `Complete` what follows the last: a
benchmark that passed without reporting a speedup counts as a failure of the
infrastructure (`~request.measured`; workers of this release always report one,
but `_parse_result` does not insist on it). A call ends with an answer or an
exception, both in `answers`, or by `Crash`; `Begin` asks again, and finds the
jobs of the time before because their ids are digests of what they ask for.

### TaskController

One action is one durable write together with the reads before it. A committed
file is two writes: `Put` creates the file, `Register` inserts its row; the state
that stands for it is a third (`MoveRound`, `MoveTask`). `Crash` may come between
any two, and `Resume` runs `run_task` from its beginning, which skips every write
whose effect is there. The order of writes in the code is kept by guards on what
the database and the disk already hold, and `pc` is used only where the code
remembers something between two writes (`draft` is `best_before`).

Abstractions, all of data: geometric mean and minimum speedup are one number in
`0..3` and the tolerance is 1, enough for two ties to add up to a win; an
evaluation is its first failing stage, its infrastructure flag, its speed and
its paired decision, chosen among the CONSTANT `Outcomes`; a reused evaluation
(same source hash) is one of those outcomes; the copies of raw model responses,
`task_snapshot.json` and the text of prompts and feedback are left out. A
transport error of the model gateway ends `run_task` by an exception and is a
`Crash`.

### DurableStore and ExperimentRun

`disk` is what is under each name, `firm` what is left of it if the power fails,
`log` the table of events. Every transaction appends its event in itself, so
states, versions and artifact rows are read off the log: `Of(log, x)` are the
positions of the events of `x`, the version counts them and the state is that of
the last. `put_stream` writes a
private temporary file, which is synced, and links it; that is `Link`, or the
comparison with what is there. `Sync` is the directory. A loss of power takes
back any suffix of the log (`synchronous=NORMAL` does not sync the write-ahead
log at each commit) and any set of names whose directory was not synced.

`ExperimentRun` has one experiment with one task of one round, and controllers
that know nothing of each other: the states of the experiment, the versions of
the round, the call of the model with transport retries inside format repairs,
the commit of the exchange, the raw responses and the response, and the
projection of the log to `events.jsonl`, page by page. The answer of the model is
the one input that cannot be computed again, which is why this part of a round
is the one in detail. `hosts` are the processes that are ever started; a run
with one of them may be promised more than a run with two.

## 3. Runs

| Run | Instance | What it shows |
| --- | --- | --- |
| `queue` | 2 jobs (priorities 1, 2; budgets 2, 1), 2 workers, 2 callers, lease 2, clock to 3 | fencing, attempt numbers, lease columns, no parked job, final rows, honoured leases, `JobLifecycle` implemented |
| `queue_stale` | the same | violation: a result commits after its lease ran out |
| `workers` | 2 workers, 1 job with 2 attempts, clock to 3; 1.4 million states | fresh directories, the answer fits the outcome, no answer lost to a dead letter, no lease shortened, quarantine |
| `worker_liveness` | 1 worker, 1 private job with 2 attempts, clock to 4; 170,000 states | runs end, lapsed leases are released, only queue operations are used |
| `stages` | 1 stage, profile or baseline call and 1 health check on 1 device; 92,000 states | no living caller's stage runs without the lock, nobody left after a termination, earned verdicts, every call ends |
| `evaluation` | 1 evaluation asked for twice, jobs tried twice, a profile once; 720,000 states | earned blame, calls agree, an answer in time is taken |
| `experiment` | 1 or 2 controllers, 1 format repair, 2 transport attempts, pages of 4; 459,000 states | rows and files agree, legal histories, a lone controller ends with a record that verifies |
| `controller` | 3 rounds, every failure and speeds 1 to 3, 1 crash, unlimited resumes after an end | the invariants and action properties below, `TaskTrajectory` implemented |
| `controller_liveness` | 2 rounds, 2 crashes, no full profile | a task ends |
| `controller_paired`, `controller_benchmark`, `controller_infra` | 3, 1 and 1 rounds | violations, section 6 |

The bounds. Two jobs and budgets 2 and 1 let a job be retried while another is
exhausted, and priority compete with age. A lease of 2 with a clock to 3 has a
lease that is granted, lapses and is granted again, and calls whose time is up
to three units old. Two workers suffice for one to be fenced off by the other;
`AbortCalls` stands for any number of dead ones. Two calls on a device are the
fewest that compete for its lock, and the worker's call brings a health check of
its own into the competition. An evaluation asked for twice is the fewest in
which an old job is found again; two tries tell the last from the others. One
repair and two attempts make the two limits of the model call differ and nest;
a log longer than a page of four is read in several pieces while it grows. Three
rounds are the fewest in which a replay of an early round meets a pointer two
rounds ahead and a tie follows a tie. One crash in three rounds and two in two: a
second crash during the replay after the first is the case that a single one
misses. `MaxClock`, `MaxCalls` and `MaxFailures` are the only bounds that cap
behaviour; the rest are sizes of sets or limits the code has itself.

Symmetry over workers, callers and controllers is used in safety runs only.
Deadlock is checked in all runs but `stages` and `evaluation`, whose calls are
finite in number and end. `evaluation` is larger than it looks because workers go
on while the call is at every one of its lines.

Properties of `StageExecution`: `StageRunsUnderLock` (whatever timed out, failed
or was cancelled, a leader that runs does so under the lock of its own call,
unless the caller died; so no two stages of living callers run at once, and what
it does not promise of the others is in section 6), `TerminationLeavesNobody` (after a timeout, an overflow or a cancellation
not even a child is left), `VerdictIsEarned` (a candidate fails only for a result
its stage committed or for too much output, and passes only with a result and an
exit code that agree), `CallEnds`.

Properties of `CandidateEvaluation`: `BlameIsEarned` (with the one exception of
section 6), `AnswersAgree` (what was answered once is answered again, and a job
that failed or was cancelled stays so), `CompletionWins` (the last look of a wait
takes an answer that is there).

Properties of `ExperimentRun`: `RecordIsTrue` (a row is of the file that is
there, the response is that of the call whose raw answers lie beside it),
`HistoryIsAPath` (log and projection are beginnings of one legal history, and a
controller that was alone leaves a record that `RunVerifier` accepts).

Properties of `TaskController`: `StatesAreBacked` (artifact first, then the state
that refers to it), `OneAnswerPerRound` (no crash makes a resumed run ask again
once an exchange is on disk), `BestFollowsFeedback` (database and files differ by
at most the decision in flight), `FeedbackChain`, `BestIsUnbeaten`,
`BestIsFrozen`, `VerdictStands` (a replay of the rounds wipes the hidden verdict
out of the score, but never out of a task that has ended), `CheckpointsAreLegal`
(no replay ever asks for a transition the state machines refuse).

## 4. Fairness

`WorkerService`: weak fairness of every thread's own steps, because a stage ends
by itself or by its timeout and a call to SQLite ends with its busy timeout; and
of the waiting broker, which polls in a loop. `Poll`, `Die`, `Restart` and
`Tick` are not fair: no worker is obliged to take work, to live or to come back,
and the clock may stop, so `LapsedLeaseIsReleased` rests on the broker alone.

`StageExecution`: weak fairness of `MainStep` alone. Each wait of the main thread
has a deadline (the lock, the selector loop, the wait for the leader, the grace
after a signal), so the thread goes on. Nothing is assumed of the process group,
which may ignore signals, keep its streams open or never die, nor of the second
thread.

`TaskController`: weak fairness of `RunTask` (a running process goes on) and of
`Resume` (`Restart=on-failure` in `deploy/systemd`, and the operator's resume
after a repair). Crashes are finite in number, so they are not repeated for ever.

`CandidateEvaluation` and `ExperimentRun` claim no liveness: a wait ends by its
deadline whatever the workers do, and a dead job or a lost file may stop every
later run (section 6).

## 5. Proofs

Each proof module shows one conjunction inductive and draws the properties from
it. The assumptions are those the modules name: sets of jobs, workers and calls
are arbitrary, the set of controllers is finite, budgets and lease times are
positive, NULL and "no holder" are no member of the sets, the broker is no thread
of a worker, outcomes satisfy the consistency conditions of `OutcomesAssumption`.

**`JobQueueProofs`**, for all jobs, workers, callers, budgets, priorities and
times: the eight properties that `queue` checks. No invariant of the queue is
inductive alone. That the lease in a row is the newest needs the attempt numbers
of its grants to grow (`AttemptsAreUnique`); that they stay within the budget
needs waiting rows to have an attempt left (`WaitingIsClaimable`), which in turn
needs a leased row's token to point at its grant (`NewestLeaseWins`); that a row
is released completely is `LeaseColumns`; and a sweep only takes what has run out
because no call holds a time from the future, the last conjunct of `TypeOK`. The
proof describes once what each transaction does to one row, shows that each
conjunct survives each shape of a step, and combines them.

**`WorkerServiceProofs`**, for any number of workers and jobs: all safety
properties of `workers`, and that the composition implements `JobQueue`
(`Composition`), by which the queue's own theorems are instantiated rather than
proved again (`FencingHolds`). The invariant adds to the queue's what each thread
of a worker knows: that main thread and heartbeat hold the lease they were given,
that directories are those of attempts already granted, that a result in the
table came of the lease that delivered it, and, for `LeaseNeverShrinks`, that
calls read their times in the order in which they take effect.

**`StageExecutionProofs`**, for any number of callers and kinds of calls: type
correctness, `StageRunsUnderLock`, `TerminationLeavesNobody`, `VerdictIsEarned`.
The invariant has a part per call, which relates the place of the main thread to
what is left of its process group, and one part that spans calls: between
acquisition and release, and only then, the call holds the lock. A leader that
is alive belongs to a call between these two, or to one whose caller died; of
the latter the invariant says nothing about the lock, as the code does not.

**`CandidateEvaluationProofs`**, for any numbers of tries and calls: all four
properties of `evaluation`. Results are never changed once a job has come to its
end, so every answer can be read off them: the invariant says of each answer
which stage it was reached at, that all stages before it are done and passed, and
that the result of that stage, by `CombinedFailure` or `Failure`, is the answer.
Two answers then agree because there is one path through the stages. `JobsLive`
shows that broker and workers use the jobs as `JobLifecycle` specifies them, the
specification that `JobQueueProofs` shows the queue to implement.

**`TaskControllerProofs`**, for any number of rounds, outcomes and crashes:
`StatesAreBacked`, `BestFollowsFeedback`, `OneAnswerPerRound`,
`CheckpointsAreLegal`, `BestIsFrozen`, `VerdictStands` and the refinement of
`TaskTrajectory`. The invariant has five parts: in which state of the task the
process can be where (`Where`), what a place in a round stands for (`Progress`),
which files are behind which state (`Backing`), that the decisions on disk are
those of the first rounds and their last is the best but for the one in flight
(`Trail`), and that a result on disk is that of its evaluation (`Judged`).
`BestIsFrozen` rests on `Trail`: once all rounds are finished all decisions are
on disk, the pointer is the last of them, and both ways to set it set it to that.

**`TaskDecisionProofs`**, about the decisions of the same module: `TypeOK`,
`FeedbackChain`, `BestIsUnbeaten`, and that a replay of the scores finds the best
that the feedback files name (`ReplayIsFaithful`). All but `TypeOK` are stated
under the hypothesis `Unpaired`, that no outcome of an evaluation has a paired
decision. It cannot be dropped: `controller_paired` is the run in which
`FeedbackChain` fails without it, and TLC finds `BestIsUnbeaten` violated there as
well. It holds in `controller`, and for the code whenever no paired comparison is
made. The hard part is `Replayed`, the recursion of `_best_context` over the
scores of all rounds. That its defining equation holds is an induction; instead
of an induction theorem, which takes an operator, the proof takes the least round
up to which the equations have no solution (`LeastNatural`, from the
well-foundedness of `<` on the naturals), and shows that there is none. The
invariant (`Decided`) says of every round with feedback that it has its score,
started from the best of the round before and chose as `compare_public_candidate`
does; and that a pointer or a `draft` ahead of the files is the decision in
flight.

**`ExperimentRunProofs`**, for any finite number of controllers, any limits and
any page size: all three properties of `experiment`, and one more, that a file
whose name is durable is never changed, replaced or lost again (`FilesStay`). The
invariant has two halves, stated as operators of any disk, lasting rest of it, log
and controller, so that a step of one controller is compared with what the
others know. `Stored` says of the store: what a loss of power would leave of a
file is the file or nothing (`Kept`); there is no response before the raw answers
and the exchange it was made from are durable (`Filed`); there is no row before
its file is (`Rows`); the log, the projection and what lasts of the projection
follow the paths (`Lasting`), which every prefix of a path does; and a committed
round follows its response's row, a finished experiment a committed round
(`Ordered`), in the order of the log, because a loss of power cuts it there.
`Sound` says of a controller which part of what it has to commit is on disk and
which part is durable (`Storing`), what the log must have said for it to be
where it is (`Knowing`), and that what it has read is a prefix of the log
(`Reading`). States and versions are read off the log by the lemmas on `Of`, each
stated for appending to a log and for cutting it. That a new call of the model
can be told from all others is a count: four files and the runs bear at most
`3 + Cardinality(Runs)` numbers, of `4 + Cardinality(Runs)`.

Only model-checked: liveness (`RunEnds`, `LapsedLeaseIsReleased`, `CallEnds`,
`TaskEnds`), since fairness and ENABLED are beyond the prover.

## 6. Where code and documents disagree

- `queue_stale`: `complete` compares the lease with a time it read before it
  waited for the database; "only while the caller still owns a live lease" is
  not what happens. The token still fences: `Fencing` is proved.
- `controller_paired`: after a crash between the best pointer and
  `feedback.json`, `best_before` is recomputed from raw scores and may contradict
  the paired decisions of earlier rounds.
- `controller_benchmark`: a crash after the skipped profile of a failed benchmark
  leaves a round that no resume accepts.
- `controller_infra`: the call for an infrastructure retry is raised after the
  evaluation was committed; no resume evaluates again.

The passing controller runs are those in which the first two do not apply:
`controller` has no paired decisions (its failed benchmarks and retries stay,
since they hurt only liveness), and `controller_liveness` has neither failed
benchmarks nor retries.

What the models show besides, which the properties are worded around:

- A stage outlives its caller. If a worker is killed, or a hand-run
  `akg baseline run` is interrupted with Ctrl-C while `run()` waits, the lock is
  given up (`worker/device_lock.py:98`, and by the kernel for a process that is
  gone), but `run()` has no `finally` that would end the stage, and the stage has
  a session of its own (`worker/stage_runner.py:267`) that a Ctrl-C at the
  terminal does not reach. The next caller then measures beside the orphan. Under
  systemd the time is short, since the control group is killed after its main
  process; for a command run by hand it lasts until the stage ends by itself.
  `DeviceLock` calls itself "the final single-device concurrency fence"
  (`worker/device_lock.py:21`); it is one between living callers, which is what
  `StageRunsUnderLock` says. The state with two leaders at once is reachable in
  `stages`.
- A child that outlives a leader which ended by itself, with the streams closed,
  is not terminated: `run()` signals the group only after a timeout or an
  overflow (`worker/stage_runner.py:330`), while `docs/security.md:54` asks for
  the group to be ended and reaped. `StageRunsUnderLock` speaks of leaders.
- A combined evaluation whose parts all passed and which then failed for
  infrastructure reasons is attributed to the benchmark, which passed, and so to
  the candidate (`evaluation/orchestrator.py:449`). `BlameIsEarned` has it as its
  one exception and so does not speak against it.
- A final evaluation that fails for infrastructure reasons ends the task as
  failed (`orchestration/controller.py:201`). `VerdictStands` says that task and
  result agree, not that such a verdict is the candidate's.
- A dead job is found again by every later call, an advisory profile included,
  and a job cancelled by a deadline stays cancelled: calls agree, but no resume
  gets past it (`AnswersAgree`).
- `cancel_current` may hit the health probe that follows a stage; the worker then
  takes its device for sick and goes into quarantine.
- A `model_exchange.json` found on disk is neither synced nor registered again
  before the raw responses made from it. If the power fails next, the raw
  responses may survive without it; the model is asked once more and every
  resume ends with a conflict of artifacts. Nothing is mixed (`RecordIsTrue`).
- Two controllers on one experiment exclude each other by the version of the
  round; one may end with a projection of the log that the other then outgrows.
  It is made anew by the next run; `HistoryIsAPath` promises a verified record to
  a controller that was alone.
- The handler of SIGTERM takes `_process_lock`, which is not reentrant, in the
  thread that may hold it. The critical section is a single assignment, and the
  model has the signal as a second thread.

## 7. Not modelled, and why

- The numerics of a stage (`worker/stage_entry.py`), comparison with tolerances,
  timing, fault injection: what they decide is a result.
- Tasks, references and generated cases; the source guard: pure functions of
  their input. The guard's verdict is the source stage.
- Prompts and feedback text, export, reports, acceptance and evidence: they read
  committed files and feed no decision back. Of `verification.py` the three
  checks that concern the modelled record are in `Verifies`.
- Probes and the parsing of profiler output: device I/O; a profile is one of its
  verdicts.
- Of scoring, the second speedup, the coefficient of variation, the ranking keys
  and the reward: arithmetic on rationals. The comparison is on one speed.
- Of the controller, the phases of the rounds (repair, optimisation), the profile
  budget and the summaries: each selects a prompt or an option of an evaluation,
  and every choice is among `Outcomes`. `_model_request_slots` delays calls of
  tasks that share nothing.
- Of the gateways, request bodies, envelopes and the lengths of back-offs.
- Migrations of the database; configuration and command line, but for the checks
  and exits named in section 2.

## 8. Order of work, and what is left

Built in the order in which one layer rests on another: queue, workers and
controller; the device and the evaluation between them; the store under the
controller; then the proofs, from the queue outwards.

What would come next, most useful first:

1. `TaskController` shown to take its files and rows as `ExperimentRun` writes
   them: a put with one writer as the abstraction of link, sync and row.
2. Several tasks in one experiment: the thread pool of `run`, and a task that
   fails while others run.
3. The profile budget and the phases of the rounds in `TaskController`.
4. Ranking keys and reward as operators against a reference order.
