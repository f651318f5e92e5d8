------------------------------ MODULE JobQueue ------------------------------
(***************************************************************************)
(* The durable evaluation queue: SQLiteEvaluationJobQueue in               *)
(* storage/job_queue.py, a table of jobs in SQLite that brokers fill and   *)
(* workers drain under expiring leases.                                    *)
(*                                                                         *)
(* Every operation of the class reads the wall clock first (now = now or   *)
(* utc_now()) and only then opens its BEGIN IMMEDIATE transaction, which   *)
(* may have to wait for other writers.  A call is therefore two steps      *)
(* here: BeginCall reads the clock, and one of the transactions below      *)
(* commits later with the time that was read.  SQLite serialises the       *)
(* transactions, so each of them is one atomic step.                       *)
(*                                                                         *)
(* A lease is identified by the random lease_token drawn for it.  The      *)
(* token is modelled by its index in `grants', the list of every lease     *)
(* that claim() ever returned; any caller may present any of them at any   *)
(* time, as a worker that was suspended for hours does when it wakes up.   *)
(***************************************************************************)
EXTENDS Integers, Sequences

CONSTANTS Jobs,         \* job identifiers; numbers, as claim() orders by job_id
          Workers,      \* worker identifiers
          Callers,      \* threads with a call to the queue in progress
          None,         \* the NULL of lease_owner
          MaxAttempts,  \* max_attempts of each job
          Priority,     \* priority of each job
          LeaseTime,    \* lease_seconds
          RetryDelays,  \* the values of retry_delay_seconds
          MaxClock      \* bound of the model: time stops here

ASSUME JobsAssumption == Jobs \subseteq Nat
ASSUME WorkersAssumption == None \notin Workers
ASSUME AttemptsAssumption == MaxAttempts \in [Jobs -> Nat \ {0}]
ASSUME PriorityAssumption == Priority \in [Jobs -> Int]
ASSUME TimeAssumption == /\ LeaseTime \in Nat \ {0}
                         /\ RetryDelays \subseteq Nat
                         /\ MaxClock \in Nat

VARIABLES jobs,    \* the evaluation_jobs table: one row per job
          grants,  \* every lease claim() returned, oldest first
          clock,   \* the wall clock
          calls    \* per caller, the time its call in progress read, or Idle

vars == <<jobs, grants, clock, calls>>

Waiting  == {"QUEUED", "RETRY_WAIT"}
Terminal == {"SUCCEEDED", "DEAD", "CANCELLED"}
Statuses == {"ABSENT", "LEASED"} \cup Waiting \cup Terminal

Idle == -1
NULL == 0    \* of lease_token, lease_expires_at and result_json
Never == -1  \* the NULL of heartbeat_at, as the clock starts at 0

Row == [status    : Statuses,
        attempts  : Nat,
        available : Nat,
        created   : Nat,
        owner     : Workers \cup {None},
        token     : Nat,
        expires   : Nat,
        heartbeat : Nat \cup {Never},
        result    : Nat,      \* the token of the lease whose result is stored
        error     : {"none", "lease_expired", "reported"}]

Grant == [job : Jobs, worker : Workers, attempt : Nat]

NoRow == [status |-> "ABSENT", attempts |-> 0, available |-> 0, created |-> 0,
          owner |-> None, token |-> NULL, expires |-> NULL, heartbeat |-> Never,
          result |-> NULL, error |-> "none"]

Init == /\ jobs = [j \in Jobs |-> NoRow]
        /\ grants = <<>>
        /\ clock = 0
        /\ calls = [c \in Callers |-> Idle]

-----------------------------------------------------------------------------
(* Calls and time.                                                         *)

Tick == /\ clock < MaxClock
        /\ clock' = clock + 1
        /\ UNCHANGED <<jobs, grants, calls>>

(* Mutant: the clock is rounded up to the next unit.                       *)
BeginCallAhead(c) == /\ calls[c] = Idle
                     /\ calls' = [calls EXCEPT ![c] = clock + 1]
                     /\ UNCHANGED <<jobs, grants, clock>>

(* A caller enters an operation: `now = now or utc_now()'.                 *)
BeginCall(c) == /\ calls[c] = Idle
                /\ calls' = [calls EXCEPT ![c] = clock]
                /\ UNCHANGED <<jobs, grants, clock>>

(* Its transaction ends, with `now' the time it had read.                  *)
EndCall(c, now) == /\ calls[c] # Idle
                   /\ now = calls[c]
                   /\ calls' = [calls EXCEPT ![c] = Idle]
                   /\ UNCHANGED clock

(* Transactions roll back: the database stayed busy, the lease was lost    *)
(* and the operation raised, or a process was killed with all its threads. *)
AbortCalls(dying) ==
  /\ calls' = [c \in Callers |-> IF c \in dying THEN Idle ELSE calls[c]]
  /\ UNCHANGED <<jobs, grants, clock>>

-----------------------------------------------------------------------------
(* The row a transaction leaves behind.                                    *)

(* Mutant: lease_token is not cleared.                                     *)
ReleasedWithToken(row) == [row EXCEPT !.owner = None, !.expires = NULL,
                                      !.heartbeat = Never]

Released(row) == [row EXCEPT !.owner = None, !.token = NULL, !.expires = NULL,
                             !.heartbeat = Never]

Renewed(row, now) == [row EXCEPT !.expires = now + LeaseTime, !.heartbeat = now]

(* Mutants: a lease ends one unit early; the status is not looked at.      *)
ExpiredEarly(row, now) == row.status = "LEASED" /\ row.expires - 1 <= now
ExpiredAnyStatus(row, now) == row.expires <= now

Expired(row, now) == row.status = "LEASED" /\ row.expires <= now

(* Mutant: a job that used up its last attempt waits for one more.         *)
AfterAttemptOffByOne(j, retryable) ==
  IF jobs[j].attempts > MaxAttempts[j] \/ ~retryable THEN "DEAD"
                                                     ELSE "RETRY_WAIT"

(* Where a job goes that came back without a result.                       *)
AfterAttempt(j, retryable) ==
  IF jobs[j].attempts >= MaxAttempts[j] \/ ~retryable THEN "DEAD"
                                                      ELSE "RETRY_WAIT"

(* Mutant: the worker died, so the attempt is not counted.                 *)
SweptRowUncounted(j, now) ==
  IF Expired(jobs[j], now)
  THEN [Released(jobs[j]) EXCEPT !.status = "RETRY_WAIT", !.available = now,
                                 !.attempts = @ - 1, !.error = "lease_expired"]
  ELSE jobs[j]

(* Mutant: the sweep requeues jobs, and forgets those without attempts.    *)
SweptRowRequeued(j, now) ==
  IF Expired(jobs[j], now) /\ jobs[j].attempts < MaxAttempts[j]
  THEN [Released(jobs[j]) EXCEPT !.status = "RETRY_WAIT", !.available = now,
                                 !.error = "lease_expired"]
  ELSE jobs[j]

(* _sweep_expired_in_transaction, for one row.                             *)
SweptRow(j, now) ==
  IF Expired(jobs[j], now)
  THEN [Released(jobs[j]) EXCEPT !.status = AfterAttempt(j, TRUE),
                                 !.available = now,
                                 !.error = "lease_expired"]
  ELSE jobs[j]

Swept(now) == [j \in Jobs |-> SweptRow(j, now)]

(* The WHERE and the ORDER BY of claim(), over the swept table.            *)
Ready(table, now) == {j \in Jobs : /\ table[j].status \in Waiting
                                   /\ table[j].available <= now
                                   /\ table[j].attempts < MaxAttempts[j]}

SortKey(table, j) == <<-Priority[j], table[j].available, table[j].created, j>>

Precedes(a, b) == \E n \in 1..4 : /\ a[n] < b[n]
                                  /\ \A m \in 1..(n - 1) : a[m] = b[m]

First(table, now, j) ==
  /\ j \in Ready(table, now)
  /\ \A k \in Ready(table, now) \ {j} :
       Precedes(SortKey(table, j), SortKey(table, k))

(* Mutant: attempts are counted when they fail, not when they start.       *)
LeasedRowUncounted(row, w, token, now) ==
  [Renewed(row, now) EXCEPT !.status = "LEASED", !.owner = w, !.token = token]

LeasedRow(row, w, token, now) ==
  [Renewed(row, now) EXCEPT !.status = "LEASED", !.attempts = @ + 1,
                            !.owner = w, !.token = token]

CompletedRow(j, t) ==
  [Released(jobs[j]) EXCEPT !.status = "SUCCEEDED", !.result = t]

FailedRow(j, retryable, available) ==
  [Released(jobs[j]) EXCEPT !.status = AfterAttempt(j, retryable),
                            !.available = available,
                            !.error = "reported"]

(* Mutant: the worker is checked, the token is not.                        *)
OwnsByName(t, now) == LET row == jobs[grants[t].job] IN
                      /\ row.status = "LEASED"
                      /\ row.owner = grants[t].worker
                      /\ row.expires > now

(* The WHERE of heartbeat(), complete() and fail(): lease t is still the   *)
(* row's lease and had not expired when the caller read the clock.         *)
Owns(t, now) == LET row == jobs[grants[t].job] IN
                /\ row.status = "LEASED"
                /\ row.owner = grants[t].worker
                /\ row.token = t
                /\ row.expires > now

-----------------------------------------------------------------------------
(* The transactions.                                                       *)

(* enqueue(): a first request inserts the row; a replay of the same        *)
(* request returns the row that is there.                                  *)
Enqueue(c, j) == \E now \in {calls[c]} :
  /\ EndCall(c, now)
  /\ jobs[j].status = "ABSENT"
  /\ jobs' = [jobs EXCEPT ![j].status = "QUEUED", ![j].created = now]
  /\ UNCHANGED grants

Sweep(c) == \E now \in {calls[c]} :
  /\ EndCall(c, now)
  /\ jobs' = Swept(now)
  /\ UNCHANGED grants

Claim(c, w) == \E now \in {calls[c]}, j \in Jobs :
  /\ EndCall(c, now)
  /\ First(Swept(now), now, j)
  /\ grants' = Append(grants, [job |-> j, worker |-> w,
                               attempt |-> Swept(now)[j].attempts + 1])
  /\ jobs' = [Swept(now) EXCEPT ![j] = LeasedRow(@, w, Len(grants) + 1, now)]

(* claim() with nothing to lease: its sweep commits all the same.          *)
ClaimNothing(c) == \E now \in {calls[c]} :
  /\ EndCall(c, now)
  /\ Ready(Swept(now), now) = {}
  /\ jobs' = Swept(now)
  /\ UNCHANGED grants

Heartbeat(c, t) == \E now \in {calls[c]} :
  /\ EndCall(c, now)
  /\ Owns(t, now)
  /\ jobs' = [jobs EXCEPT ![grants[t].job] = Renewed(@, now)]
  /\ UNCHANGED grants

Complete(c, t) == \E now \in {calls[c]}, j \in {grants[t].job} :
  /\ EndCall(c, now)
  /\ Owns(t, now)
  /\ jobs' = [jobs EXCEPT ![j] = CompletedRow(j, t)]
  /\ UNCHANGED grants

Fail(c, t, retryable, delay) == \E now \in {calls[c]}, j \in {grants[t].job} :
  /\ EndCall(c, now)
  /\ Owns(t, now)
  /\ jobs' = [jobs EXCEPT ![j] = FailedRow(j, retryable, now + delay)]
  /\ UNCHANGED grants

(* cancel() touches work nobody has leased, and nothing else.              *)
Cancel(c, j) == \E now \in {calls[c]} :
  /\ EndCall(c, now)
  /\ jobs[j].status \in Waiting
  /\ jobs' = [jobs EXCEPT ![j].status = "CANCELLED"]
  /\ UNCHANGED grants

Next == \/ Tick
        \/ \E dying \in SUBSET Callers : AbortCalls(dying)
        \/ \E c \in Callers :
             \/ BeginCall(c)
             \/ Sweep(c)
             \/ ClaimNothing(c)
             \/ \E j \in Jobs : Enqueue(c, j) \/ Cancel(c, j)
             \/ \E w \in Workers : Claim(c, w)
             \/ \E t \in DOMAIN grants :
                  \/ Heartbeat(c, t)
                  \/ Complete(c, t)
                  \/ \E retryable \in BOOLEAN, delay \in RetryDelays :
                       Fail(c, t, retryable, delay)

Spec == Init /\ [][Next]_vars

-----------------------------------------------------------------------------
(* Properties.                                                             *)

(* Every variable keeps its type; in particular a call never reads a time  *)
(* that has not come yet.                                                  *)
TypeOK == /\ jobs \in [Jobs -> Row]
          /\ grants \in Seq(Grant)
          /\ clock \in Nat
          /\ calls \in [Callers -> Nat \cup {Idle}]
          /\ \A c \in Callers : calls[c] <= clock

(* The CHECK of the evaluation_jobs table: lease columns are filled in     *)
(* exactly while the job is leased.                                        *)
LeaseColumns == \A j \in Jobs :
  /\ (jobs[j].status = "LEASED") <=> (jobs[j].owner # None)
  /\ (jobs[j].status = "LEASED") <=> (jobs[j].token # NULL)
  /\ (jobs[j].status = "LEASED") <=> (jobs[j].expires # NULL)
  /\ (jobs[j].status = "LEASED") <=> (jobs[j].heartbeat # Never)

(* Attempt numbers are never used twice, never skipped past the count in   *)
(* the row and never exceed the budget.  Workers rely on it: the attempt   *)
(* number names the directory an execution must be first to create.        *)
AttemptsAreUnique ==
  /\ \A s, t \in DOMAIN grants :
       (grants[s].job = grants[t].job /\ s < t)
         => grants[s].attempt < grants[t].attempt
  /\ \A t \in DOMAIN grants :
       grants[t].attempt \in 1..jobs[grants[t].job].attempts
  /\ \A j \in Jobs : jobs[j].attempts <= MaxAttempts[j]

(* A job that waits, or is yet to be enqueued, has an attempt left, so     *)
(* that claim(), which skips rows whose attempts are used up, can still    *)
(* pick it: no sweep, failure or retry parks a job in RETRY_WAIT for ever. *)
WaitingIsClaimable == \A j \in Jobs :
  jobs[j].status \in Waiting \cup {"ABSENT"}
    => jobs[j].attempts < MaxAttempts[j]

(* Fencing: the lease that owns a row, and the lease whose result is       *)
(* stored, is the newest lease of that job; a worker whose lease was swept *)
(* and handed on can never get its result in.                              *)
NewestLeaseOf(t, j) == /\ t \in DOMAIN grants
                       /\ grants[t].job = j
                       /\ grants[t].attempt = jobs[j].attempts

NewestLeaseWins == \A j \in Jobs :
  /\ jobs[j].status = "LEASED" => /\ NewestLeaseOf(jobs[j].token, j)
                                  /\ grants[jobs[j].token].worker = jobs[j].owner
  /\ jobs[j].status = "SUCCEEDED" => NewestLeaseOf(jobs[j].result, j)
  /\ jobs[j].status # "SUCCEEDED" => jobs[j].result = NULL

(* The invariants together are inductive: none of them is preserved by     *)
(* every transaction on its own.                                           *)
IInv == /\ TypeOK
        /\ LeaseColumns
        /\ AttemptsAreUnique
        /\ WaitingIsClaimable
        /\ NewestLeaseWins

(* A terminal row never changes again, whoever calls what and how late.    *)
TerminalIsFinal == [][\A j \in Jobs :
  jobs[j].status \in Terminal => jobs'[j] = jobs[j]]_vars

(* A lease is taken from its holder only once it has run out, by the clock *)
(* on the wall and not only by the possibly older time the caller read.    *)
LeaseIsHonoured == [][\A j \in Jobs :
  (/\ jobs[j].status = "LEASED"
   /\ jobs'[j].token # jobs[j].token
   /\ jobs'[j].status # "SUCCEEDED"
   /\ jobs'[j].error = "lease_expired") => jobs[j].expires <= clock]_vars

(* The table, seen as the life of each job.                                *)
Phase(status) == CASE status = "ABSENT" -> "absent"
                   [] status \in Waiting -> "waiting"
                   [] status = "LEASED" -> "running"
                   [] status = "SUCCEEDED" -> "done"
                   [] status = "DEAD" -> "dead"
                   [] status = "CANCELLED" -> "cancelled"

LifeOf(j) == [phase  |-> Phase(jobs[j].status),
              tries  |-> jobs[j].attempts,
              answer |-> IF jobs[j].result = NULL
                         THEN 0 ELSE grants[jobs[j].result].attempt]

Lifecycle == INSTANCE JobLifecycle
               WITH MaxTries <- MaxAttempts, life <- [j \in Jobs |-> LifeOf(j)]

(* The queue implements the life of a job: each transaction moves every    *)
(* job along one edge of it or leaves the job alone.                       *)
ImplementsLifecycle == Lifecycle!Spec

(* The docstrings of complete() and heartbeat(): "Commit a result only     *)
(* while the caller still owns a live lease", "Extend a live lease".  Live *)
(* at the moment of the commit, that is.                                   *)
OnlyLiveLeasesCommit == [][\A j \in Jobs :
  (/\ jobs[j].status = "LEASED"
   /\ jobs'[j].status = "SUCCEEDED") => clock < jobs[j].expires]_vars
=============================================================================
