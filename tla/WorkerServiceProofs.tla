------------------------ MODULE WorkerServiceProofs -------------------------
(***************************************************************************)
(* Proofs about the workers, for any number of them, of jobs and of        *)
(* attempts, and for any times.                                            *)
(*                                                                         *)
(* They rest on those about the queue: as long as each worker presents the *)
(* lease it was granted, every step of the workers is a step that JobQueue *)
(* allows to arbitrary callers, so the invariant of the queue holds here.  *)
(* What is left to show is about the threads (Thread), the directories     *)
(* (Directories) and the outcomes that the answers came of.                *)
(***************************************************************************)
EXTENDS WorkerService, TLAPS

QueueProofs == INSTANCE JobQueueProofs WITH RetryDelays <- {0, RetryDelay}

Places == {"idle", "claiming", "down"} \cup Working

Beats == {"off", "waiting", "beating", "lost"}

(* The lines before the outcome of the run is known, and those at which    *)
(* the heartbeat thread has been joined.                                   *)
AtWork == {"claimed", "running"}
Joined == {"renewing", "renewed", "writing"}

Typed == /\ pc \in [Workers -> Places]
         /\ lease \in [Workers -> Nat]
         /\ beat \in [Workers -> Beats]
         /\ quarantined \in [Workers -> BOOLEAN]
         /\ outcomes \in Seq(Outcomes \cup {"pending"})
         /\ Len(outcomes) = Len(grants)

Thread(w) ==
  /\ pc[w] \in Working => lease[w] \in 1 .. Len(grants) /\ grants[lease[w]].worker = w
  /\ pc[w] \notin Working => lease[w] = NULL /\ beat[w] = "off"
  /\ pc[w] \in AtWork => outcomes[lease[w]] = "pending"
  /\ pc[w] \in Joined \cup {"joining"} => outcomes[lease[w]] \in Outcomes
  /\ pc[w] \in Joined => beat[w] = "off"
  /\ quarantined[w] => pc[w] \notin AtWork \cup {"claiming"}

Core == Queue!IInv /\ Typed /\ \A w \in Workers : Thread(w)

-----------------------------------------------------------------------------
(* The queue under the workers.                                            *)

LEMMA SameInvariant == Queue!IInv <=> QueueProofs!IInv
BY DEF Queue!IInv, Queue!TypeOK, Queue!LeaseColumns, Queue!AttemptsAreUnique,
       Queue!WaitingIsClaimable, Queue!NewestLeaseWins, Queue!NewestLeaseOf, Queue!Row,
       Queue!Grant, Queue!Statuses, Queue!Waiting, Queue!Terminal, Queue!Idle, Queue!NULL, Queue!Never,
       QueueProofs!IInv, QueueProofs!TypeOK, QueueProofs!LeaseColumns,
       QueueProofs!AttemptsAreUnique, QueueProofs!WaitingIsClaimable,
       QueueProofs!NewestLeaseWins, QueueProofs!NewestLeaseOf, QueueProofs!Row,
       QueueProofs!Grant, QueueProofs!Statuses, QueueProofs!Waiting,
       QueueProofs!Terminal, QueueProofs!Idle, QueueProofs!NULL, QueueProofs!Never

LEMMA SameInit == Queue!Init <=> QueueProofs!Init
BY DEF Queue!Init, Queue!NoRow, Queue!NULL, Queue!Never, Queue!Idle,
       QueueProofs!Init, QueueProofs!NoRow, QueueProofs!NULL, QueueProofs!Never, QueueProofs!Idle

LEMMA SameCall ==
  ASSUME NEW c, NEW now
  PROVE  Queue!EndCall(c, now) <=> QueueProofs!EndCall(c, now)
BY DEF Queue!EndCall, Queue!Idle, QueueProofs!EndCall, QueueProofs!Idle

LEMMA SameSweep ==
  ASSUME NEW now
  PROVE  Queue!Swept(now) = QueueProofs!Swept(now)
BY DEF Queue!Swept, Queue!SweptRow, Queue!Expired, Queue!Released, Queue!AfterAttempt,
       Queue!NULL, Queue!Never, QueueProofs!Swept, QueueProofs!SweptRow, QueueProofs!Expired,
       QueueProofs!Released, QueueProofs!AfterAttempt, QueueProofs!NULL, QueueProofs!Never

LEMMA SameFirst ==
  ASSUME NEW table, NEW now, NEW j
  PROVE  Queue!First(table, now, j) <=> QueueProofs!First(table, now, j)
<1>1. Queue!Ready(table, now) = QueueProofs!Ready(table, now)
  BY DEF Queue!Ready, QueueProofs!Ready, Queue!Waiting, QueueProofs!Waiting
<1>2. \A k : Queue!SortKey(table, k) = QueueProofs!SortKey(table, k)
  BY DEF Queue!SortKey, QueueProofs!SortKey
<1>3. \A a, b : Queue!Precedes(a, b) <=> QueueProofs!Precedes(a, b)
  BY DEF Queue!Precedes, QueueProofs!Precedes
<1>. QED  BY <1>1, <1>2, <1>3 DEF Queue!First, QueueProofs!First

LEMMA SameNext == [Queue!Next]_queueVars <=> [QueueProofs!Next]_QueueProofs!vars
<1>2. Queue!Tick <=> QueueProofs!Tick
  BY DEF Queue!Tick, QueueProofs!Tick
<1>3. \A dying : Queue!AbortCalls(dying) <=> QueueProofs!AbortCalls(dying)
  BY DEF Queue!AbortCalls, QueueProofs!AbortCalls, Queue!Idle, QueueProofs!Idle
<1>4. ASSUME NEW c
      PROVE  /\ Queue!BeginCall(c) <=> QueueProofs!BeginCall(c)
             /\ Queue!Sweep(c) <=> QueueProofs!Sweep(c)
             /\ Queue!ClaimNothing(c) <=> QueueProofs!ClaimNothing(c)
  BY SameCall, SameSweep
     DEF Queue!BeginCall, QueueProofs!BeginCall, Queue!Idle, QueueProofs!Idle,
         Queue!Sweep, QueueProofs!Sweep, Queue!ClaimNothing, QueueProofs!ClaimNothing,
         Queue!Ready, QueueProofs!Ready, Queue!Waiting, QueueProofs!Waiting
<1>5. ASSUME NEW c, NEW j
      PROVE  /\ Queue!Enqueue(c, j) <=> QueueProofs!Enqueue(c, j)
             /\ Queue!Cancel(c, j) <=> QueueProofs!Cancel(c, j)
  BY SameCall DEF Queue!Enqueue, QueueProofs!Enqueue, Queue!Cancel, QueueProofs!Cancel,
                  Queue!Waiting, QueueProofs!Waiting
<1>6. ASSUME NEW c, NEW w
      PROVE  Queue!Claim(c, w) <=> QueueProofs!Claim(c, w)
  BY SameCall, SameSweep, SameFirst
     DEF Queue!Claim, QueueProofs!Claim, Queue!LeasedRow, QueueProofs!LeasedRow,
         Queue!Renewed, QueueProofs!Renewed
<1>7. ASSUME NEW c, NEW t
      PROVE  /\ Queue!Heartbeat(c, t) <=> QueueProofs!Heartbeat(c, t)
             /\ Queue!Complete(c, t) <=> QueueProofs!Complete(c, t)
  BY SameCall DEF Queue!Heartbeat, QueueProofs!Heartbeat, Queue!Renewed,
                  QueueProofs!Renewed, Queue!Complete,
                  QueueProofs!Complete, Queue!Owns, QueueProofs!Owns, Queue!CompletedRow,
                  QueueProofs!CompletedRow, Queue!Released, QueueProofs!Released,
                  Queue!NULL, Queue!Never, QueueProofs!NULL, QueueProofs!Never
<1>8. ASSUME NEW c, NEW t, NEW retryable, NEW delay
      PROVE  Queue!Fail(c, t, retryable, delay) <=> QueueProofs!Fail(c, t, retryable, delay)
  BY SameCall DEF Queue!Fail, QueueProofs!Fail, Queue!Owns, QueueProofs!Owns,
                  Queue!FailedRow, QueueProofs!FailedRow, Queue!AfterAttempt,
                  QueueProofs!AfterAttempt, Queue!Released, QueueProofs!Released,
                  Queue!NULL, Queue!Never, QueueProofs!NULL, QueueProofs!Never
<1>9. Queue!Next <=> QueueProofs!Next
  BY <1>2, <1>3, <1>4, <1>5, <1>6, <1>7, <1>8 DEF Queue!Next, QueueProofs!Next
<1>. QED  BY <1>9 DEF queueVars, QueueProofs!vars

LEMMA QueueAssumptions ==
  /\ Jobs \subseteq Nat /\ None \notin Workers
  /\ MaxAttempts \in [Jobs -> Nat \ {0}] /\ Priority \in [Jobs -> Int]
  /\ LeaseTime \in Nat \ {0} /\ {0, RetryDelay} \subseteq Nat /\ MaxClock \in Nat
BY JobsAssumption, WorkersAssumption, AttemptsAssumption, PriorityAssumption,
   TimeAssumption

LEMMA QueueInit == Queue!Init => Queue!IInv
BY SameInit, SameInvariant, QueueAssumptions, QueueProofs!InitIInv

LEMMA QueueKeeps ==
  ASSUME Queue!IInv, [Queue!Next]_queueVars
  PROVE  Queue!IInv'
<1>1. QueueProofs!IInv /\ [QueueProofs!Next]_QueueProofs!vars
  BY SameInvariant, SameNext
<1>2. QueueProofs!IInv'
  BY <1>1, QueueAssumptions, QueueProofs!Invariance
<1>. QED  BY <1>2, SameInvariant, PTL

-----------------------------------------------------------------------------
(* Every step of the workers and the broker is one of the queue, because   *)
(* the lease that a worker presents is one that was granted.               *)

LEMMA CallersAreThreads ==
  /\ Broker \in Callers
  /\ \A w \in Workers : Main(w) \in Callers /\ Beat(w) \in Callers
BY DEF Callers, Main, Beat

LEMMA LeaseIsGranted ==
  ASSUME Core, NEW w \in Workers, pc[w] \in Working \/ beat[w] # "off"
  PROVE  /\ pc[w] \in Working /\ lease[w] \in DOMAIN grants
         /\ lease[w] \in 1 .. Len(grants) /\ grants[lease[w]].worker = w
<1>1. pc[w] \in Working
  BY DEF Core, Thread
<1>2. DOMAIN grants = 1 .. Len(grants)
  BY DEF Core, Queue!IInv, Queue!TypeOK
<1>. QED  BY <1>1, <1>2 DEF Core, Thread

LEMMA MainIsQueueStep ==
  ASSUME Core, NEW w \in Workers, Poll(w) \/ MainStep(w) \/ Die(w) \/ Restart(w)
  PROVE  [Queue!Next]_queueVars
<1>. Main(w) \in Callers /\ Beat(w) \in Callers
  BY CallersAreThreads
<1>1. CASE Poll(w) \/ Join(w) \/ BeginCommit(w)
  BY <1>1 DEF Poll, Join, BeginCommit, Queue!Next
<1>2. CASE Take(w)
  BY <1>2 DEF Take, Queue!Next
<1>3. CASE TakeNothing(w)
  BY <1>3 DEF TakeNothing, Queue!Next
<1>4. CASE \/ Prepare(w) \/ Restart(w)
           \/ \E o \in Outcomes : Refuse(w, o) \/ Finish(w, o)
  BY <1>4 DEF Prepare, Restart, Refuse, Finish, Ends, queueVars
<1>5. CASE Renew(w)
  <2>1. lease[w] \in DOMAIN grants
    BY <1>5, LeaseIsGranted DEF Renew, Goes, Working
  <2>. QED  BY <1>5, <2>1 DEF Renew, Queue!Next
<1>6. CASE Abandon(w)
  <2>1. Queue!AbortCalls({Main(w)})
    BY <1>6 DEF Abandon
  <2>. QED  BY <2>1 DEF Queue!Next
<1>7. CASE Commit(w)
  <2>1. lease[w] \in DOMAIN grants
    BY <1>7, LeaseIsGranted DEF Commit, Goes, Working
  <2>2. CASE Queue!Complete(Main(w), lease[w])
    BY <2>1, <2>2 DEF Queue!Next
  <2>3. ASSUME NEW retryable \in BOOLEAN, NEW delay \in {0, RetryDelay},
               Queue!Fail(Main(w), lease[w], retryable, delay)
        PROVE  Queue!Next
    BY <2>1, <2>3 DEF Queue!Next
  <2>4. Retryable(outcomes[lease[w]]) \in BOOLEAN
    BY DEF Retryable
  <2>. QED  BY <1>7, <2>2, <2>3, <2>4 DEF Commit
<1>8. CASE Die(w) \/ CommitLost(w)
  <2>1. Queue!AbortCalls({Main(w), Beat(w)})
    BY <1>8 DEF Die, CommitLost
  <2>. QED  BY <2>1 DEF Queue!Next
<1>. QED  BY <1>1, <1>2, <1>3, <1>4, <1>5, <1>6, <1>7, <1>8 DEF MainStep

LEMMA BeatIsQueueStep ==
  ASSUME Core, NEW w \in Workers, BeatStep(w)
  PROVE  [Queue!Next]_queueVars
<1>. Beat(w) \in Callers
  BY CallersAreThreads
<1>1. CASE BeginBeat(w)
  BY <1>1 DEF BeginBeat, Queue!Next
<1>2. CASE EndBeat(w)
  <2>1. lease[w] \in DOMAIN grants
    BY <1>2, LeaseIsGranted DEF EndBeat, BeatTo
  <2>. QED  BY <1>2, <2>1 DEF EndBeat, Queue!Next
<1>3. CASE LoseLease(w)
  <2>1. Queue!AbortCalls({Beat(w)})
    BY <1>3 DEF LoseLease
  <2>. QED  BY <2>1 DEF Queue!Next
<1>4. CASE StopBeat(w)
  BY <1>4 DEF StopBeat, queueVars
<1>. QED  BY <1>1, <1>2, <1>3, <1>4 DEF BeatStep

BrokerStep == Tick \/ BrokerPoll \/ BrokerSweep \/ BrokerEnqueue

LEMMA StepIsQueueStep ==
  ASSUME Core, [Next]_vars
  PROVE  [Queue!Next]_queueVars
<1>1. CASE BrokerStep
  BY <1>1, CallersAreThreads DEF BrokerStep, Tick, BrokerPoll, BrokerSweep, BrokerEnqueue, Queue!Next
<1>2. CASE UNCHANGED vars
  BY <1>2 DEF vars, queueVars
<1>. QED  BY <1>1, <1>2, MainIsQueueStep, BeatIsQueueStep DEF Next, BrokerStep

-----------------------------------------------------------------------------
(* The threads.                                                            *)

(* Leases are only ever added, one at a time.                              *)
LEMMA GrantsGrow ==
  ASSUME Core, [Queue!Next]_queueVars
  PROVE  /\ Len(grants) \in Nat /\ Len(grants') \in Nat /\ Len(grants) <= Len(grants')
         /\ \A t \in 1 .. Len(grants) : grants'[t] = grants[t]
<1>1. grants \in Seq(Queue!Grant)
  BY DEF Core, Queue!IInv, Queue!TypeOK
<1>2. grants' = grants \/ \E g : grants' = Append(grants, g)
  BY DEF Queue!Next, Queue!Tick, Queue!AbortCalls, Queue!BeginCall, Queue!Sweep,
         Queue!ClaimNothing, Queue!Enqueue, Queue!Cancel, Queue!Claim, Queue!Heartbeat,
         Queue!Complete, Queue!Fail, queueVars
<1>3. ASSUME NEW g, grants' = Append(grants, g)
      PROVE  /\ Len(grants) \in Nat /\ Len(grants') = Len(grants) + 1
             /\ \A t \in 1 .. Len(grants) : grants'[t] = grants[t]
  <2>. DEFINE S == Queue!Grant \cup {g}
  <2>1. grants \in Seq(S) /\ g \in S
    BY <1>1
  <2>. HIDE DEF S
  <2>. QED  BY <1>3, <2>1
<1>4. Len(grants) \in Nat
  BY <1>1
<1>. QED  BY <1>2, <1>3, <1>4

(* A step of worker w leaves the others alone.                             *)
LEMMA OneWorker ==
  ASSUME Core, [Queue!Next]_queueVars, NEW w \in Workers, Typed', Thread(w)',
         \A v \in Workers \ {w} : /\ pc'[v] = pc[v] /\ lease'[v] = lease[v]
                                  /\ beat'[v] = beat[v] /\ quarantined'[v] = quarantined[v],
         \A t \in 1 .. Len(grants) : t # lease[w] => outcomes'[t] = outcomes[t]
  PROVE  Core'
<1>1. Queue!IInv'
  BY QueueKeeps DEF Core
<1>2. ASSUME NEW v \in Workers \ {w}
      PROVE  Thread(v)'
  <2>1. pc[v] \in Working => lease[v] # lease[w]
    <3>1. CASE pc[w] \in Working
      BY <3>1 DEF Core, Thread
    <3>2. CASE pc[w] \notin Working
      BY <3>2, GrantsGrow DEF Core, Thread, NULL
    <3>. QED  BY <3>1, <3>2
  <2>2. pc[v] \in Working =>
          /\ lease[v] \in 1 .. Len(grants') /\ grants'[lease[v]] = grants[lease[v]]
          /\ outcomes'[lease[v]] = outcomes[lease[v]]
    BY <2>1, GrantsGrow DEF Core, Thread
  <2>3. AtWork \cup Joined \cup {"joining"} \subseteq Working
    BY DEF AtWork, Joined, Working
  <2>. QED  BY <2>2, <2>3 DEF Core, Thread
<1>. QED  BY <1>1, <1>2 DEF Core

LEMMA NoWorker ==
  ASSUME Core, [Queue!Next]_queueVars, UNCHANGED workerVars, UNCHANGED grants
  PROVE  Core'
<1>1. Queue!IInv'
  BY QueueKeeps DEF Core
<1>. QED  BY <1>1 DEF Core, Typed, Thread, workerVars

LEMMA Sets ==
  /\ Working = AtWork \cup Joined \cup {"joining"}
  /\ "idle" \notin Working /\ "claiming" \notin Working /\ "down" \notin Working
  /\ AtWork \cap Joined = {} /\ "joining" \notin AtWork \cup Joined
  /\ "claiming" \notin AtWork /\ "claiming" \notin Joined
  /\ Working \subseteq Places /\ {"idle", "claiming", "down"} \subseteq Places
  /\ {"claimed", "running"} \subseteq AtWork
  /\ {"renewing", "renewed", "writing"} \subseteq Joined
  /\ {"off", "waiting", "beating", "lost"} \subseteq Beats
  /\ "pending" \notin Outcomes /\ Outcomes \subseteq Outcomes \cup {"pending"}
BY DEF Working, AtWork, Joined, Places, Beats, Outcomes

(* The steps that leave leases and outcomes alone.                         *)
LEMMA Walks ==
  ASSUME Core, [Queue!Next]_queueVars, NEW w \in Workers,
         UNCHANGED <<grants, lease, outcomes, quarantined>>,
         NEW from, NEW to \in Places, pc[w] = from, pc' = [pc EXCEPT ![w] = to],
         NEW b \in Beats, beat' = [beat EXCEPT ![w] = b],
         to \in Working <=> from \in Working,
         to \in AtWork <=> from \in AtWork,
         to \in Joined => b = "off",
         from \notin Working => b = "off",
         to = "claiming" => ~quarantined[w]
  PROVE  Core'
<1>1. Typed'
  BY DEF Core, Typed
<1>2. /\ pc'[w] = to /\ beat'[w] = b /\ lease'[w] = lease[w]
      /\ quarantined'[w] = quarantined[w]
  BY DEF Core, Typed
<1>3. Thread(w)'
  BY <1>2, Sets DEF Core, Thread
<1>4. \A v \in Workers \ {w} : pc'[v] = pc[v] /\ beat'[v] = beat[v]
  BY DEF Core, Typed
<1>. QED  BY <1>1, <1>3, <1>4, OneWorker

LEMMA Lets ==
  ASSUME Core, [Queue!Next]_queueVars, NEW w \in Workers,
         UNCHANGED <<grants, outcomes, quarantined>>,
         NEW to \in {"idle", "down"}, pc' = [pc EXCEPT ![w] = to],
         lease' = [lease EXCEPT ![w] = NULL], beat' = [beat EXCEPT ![w] = "off"]
  PROVE  Core'
<1>1. Typed'
  BY Sets DEF Core, Typed, NULL
<1>2. /\ pc'[w] = to /\ beat'[w] = "off" /\ lease'[w] = NULL
      /\ quarantined'[w] = quarantined[w]
  BY DEF Core, Typed
<1>3. Thread(w)'
  BY <1>2, Sets DEF Core, Thread
<1>4. \A v \in Workers \ {w} :
        pc'[v] = pc[v] /\ beat'[v] = beat[v] /\ lease'[v] = lease[v]
  BY DEF Core, Typed
<1>. QED  BY <1>1, <1>3, <1>4, OneWorker

LEMMA Taking ==
  ASSUME Core, [Queue!Next]_queueVars, NEW w \in Workers, Take(w)
  PROVE  Core'
<1>. DEFINE n == Len(grants)
<1>1. PICK g : grants' = Append(grants, g) /\ g.worker = w
  BY DEF Take, Queue!Claim
<1>2. n \in Nat /\ Len(grants') = n + 1 /\ grants'[n + 1] = g
  <2>. DEFINE S == Queue!Grant \cup {g}
  <2>1. grants \in Seq(S) /\ g \in S
    BY DEF Core, Queue!IInv, Queue!TypeOK
  <2>. HIDE DEF S
  <2>. QED  BY <1>1, <2>1
<1>3. /\ outcomes' = Append(outcomes, "pending") /\ Len(outcomes) = n
      /\ outcomes \in Seq(Outcomes \cup {"pending"})
  BY DEF Core, Typed, Take
<1>4. /\ outcomes' \in Seq(Outcomes \cup {"pending"}) /\ Len(outcomes') = n + 1
      /\ outcomes'[n + 1] = "pending" /\ \A t \in 1 .. n : outcomes'[t] = outcomes[t]
  BY <1>2, <1>3
<1>5. /\ pc' = [pc EXCEPT ![w] = "claimed"] /\ lease' = [lease EXCEPT ![w] = n + 1]
      /\ beat' = [beat EXCEPT ![w] = "waiting"] /\ quarantined' = quarantined
      /\ pc[w] = "claiming"
  BY DEF Take, Goes
<1>6. Typed'
  <2>1. "claimed" \in Places /\ "waiting" \in Beats /\ n + 1 \in Nat
    BY <1>2, Sets
  <2>. QED  BY <1>2, <1>4, <1>5, <2>1 DEF Core, Typed
<1>7. /\ pc'[w] = "claimed" /\ lease'[w] = n + 1 /\ beat'[w] = "waiting"
      /\ quarantined'[w] = FALSE
  BY <1>5 DEF Core, Typed, Thread
<1>8. Thread(w)'
  BY <1>1, <1>2, <1>4, <1>7, Sets DEF Thread
<1>9. \A v \in Workers \ {w} :
        pc'[v] = pc[v] /\ beat'[v] = beat[v] /\ lease'[v] = lease[v]
  BY <1>5 DEF Core, Typed
<1>. QED  BY <1>4, <1>5, <1>6, <1>8, <1>9, OneWorker

LEMMA RunEnding ==
  ASSUME Core, [Queue!Next]_queueVars, NEW w \in Workers, NEW from \in AtWork,
         NEW o \in Outcomes, Ends(w, from, o)
  PROVE  Core'
<1>1. /\ pc[w] = from /\ pc' = [pc EXCEPT ![w] = "joining"]
      /\ outcomes' = [outcomes EXCEPT ![lease[w]] = o]
      /\ quarantined' = [quarantined EXCEPT ![w] = quarantined[w] \/ o = "sick"]
      /\ UNCHANGED <<grants, lease, beat>>
  BY DEF Ends, Goes
<1>2. lease[w] \in 1 .. Len(grants) /\ grants[lease[w]].worker = w
  BY <1>1, Sets DEF Core, Thread
<1>3. /\ outcomes' \in Seq(Outcomes \cup {"pending"}) /\ Len(outcomes') = Len(outcomes)
      /\ outcomes'[lease[w]] = o
      /\ \A t \in 1 .. Len(grants) : t # lease[w] => outcomes'[t] = outcomes[t]
  BY <1>1, <1>2 DEF Core, Typed
<1>4. Typed'
  BY <1>1, <1>3, Sets DEF Core, Typed
<1>5. pc'[w] = "joining" /\ lease'[w] = lease[w] /\ beat'[w] = beat[w]
  BY <1>1 DEF Core, Typed
<1>6. Thread(w)'
  BY <1>1, <1>2, <1>3, <1>5, Sets DEF Core, Thread
<1>7. \A v \in Workers \ {w} : pc'[v] = pc[v] /\ quarantined'[v] = quarantined[v]
  BY <1>1 DEF Core, Typed
<1>. QED  BY <1>1, <1>3, <1>4, <1>6, <1>7, OneWorker

LEMMA SameFunction ==
  ASSUME Core, NEW w \in Workers
  PROVE  beat = [beat EXCEPT ![w] = beat[w]] /\ pc = [pc EXCEPT ![w] = pc[w]]
         /\ beat[w] \in Beats /\ pc[w] \in Places
BY DEF Core, Typed

LEMMA MainKeeps ==
  ASSUME Core, NEW w \in Workers, Poll(w) \/ MainStep(w) \/ Die(w) \/ Restart(w)
  PROVE  Core'
<1>. [Queue!Next]_queueVars
  BY MainIsQueueStep
<1>a. beat = [beat EXCEPT ![w] = beat[w]] /\ beat[w] \in Beats
  BY SameFunction
<1>b. \A p \in {"joining", "renewing", "renewed", "writing"} :
         p \in Working /\ p \notin AtWork /\ p \in Places
  BY DEF Working, AtWork, Places
<1>1. CASE Poll(w)
  <2>1. beat[w] = "off"
    BY <1>1, Sets DEF Poll, Goes, Core, Thread
  <2>. QED  BY <1>a, <1>1, <2>1, Walks, Sets DEF Poll, Goes, Queue!BeginCall
<1>2. CASE Take(w)
  BY <1>2, Taking
<1>3. CASE TakeNothing(w)
  <2>1. beat[w] = "off"
    BY <1>3, Sets DEF TakeNothing, Goes, Core, Thread
  <2>. QED  BY <1>a, <1>3, <2>1, Walks, Sets DEF TakeNothing, Goes, Queue!ClaimNothing
<1>4. CASE Prepare(w)
  BY <1>a, <1>4, Walks, Sets DEF Prepare, Goes
<1>5. ASSUME NEW o \in Outcomes, Refuse(w, o) \/ Finish(w, o) PROVE Core'
  BY <1>5, RunEnding, Sets DEF Refuse, Finish
<1>6. CASE Join(w)
  <2>1. beat[w] = "off"
    BY <1>6 DEF Join
  <2>2. /\ pc[w] = "joining" /\ pc' = [pc EXCEPT ![w] = "renewing"]
        /\ UNCHANGED <<grants, lease, beat, quarantined, outcomes>>
    BY <1>6 DEF Join, Goes, Queue!BeginCall
  <2>. QED  BY <1>a, <1>b, <2>1, <2>2, Walks
<1>7. CASE Renew(w)
  <2>1. beat[w] = "off"
    BY <1>7, Sets DEF Renew, Goes, Core, Thread
  <2>2. /\ pc[w] = "renewing" /\ pc' = [pc EXCEPT ![w] = "renewed"]
        /\ UNCHANGED <<grants, lease, beat, quarantined, outcomes>>
    BY <1>7 DEF Renew, Goes, Queue!Heartbeat
  <2>. QED  BY <1>a, <1>b, <2>1, <2>2, Walks
<1>8. CASE Abandon(w)
  BY <1>8, Lets DEF Abandon, Goes, Queue!AbortCalls
<1>9. CASE BeginCommit(w)
  <2>1. beat[w] = "off"
    BY <1>9, Sets DEF BeginCommit, Goes, Core, Thread
  <2>2. /\ pc[w] = "renewed" /\ pc' = [pc EXCEPT ![w] = "writing"]
        /\ UNCHANGED <<grants, lease, beat, quarantined, outcomes>>
    BY <1>9 DEF BeginCommit, Goes, Queue!BeginCall
  <2>. QED  BY <1>a, <1>b, <2>1, <2>2, Walks
<1>10. CASE Commit(w)
  <2>1. beat[w] = "off"
    BY <1>10, Sets DEF Commit, Goes, Core, Thread
  <2>2. grants' = grants
    BY <1>10 DEF Commit, Queue!Complete, Queue!Fail
  <2>. QED  BY <1>a, <1>10, <2>1, <2>2, Lets DEF Commit, Goes
<1>11. CASE Die(w) \/ CommitLost(w)
  BY <1>11, Lets DEF Die, CommitLost, Queue!AbortCalls
<1>12. CASE Restart(w)
  <2>1. /\ pc[w] = "down" /\ pc' = [pc EXCEPT ![w] = "idle"]
        /\ quarantined' = [quarantined EXCEPT ![w] = FALSE]
        /\ UNCHANGED <<grants, lease, beat, outcomes>>
    BY <1>12 DEF Restart, Goes
  <2>2. Typed'
    BY <2>1, Sets DEF Core, Typed
  <2>3. /\ pc'[w] = "idle" /\ beat'[w] = beat[w] /\ lease'[w] = lease[w]
        /\ quarantined'[w] = FALSE
    BY <2>1 DEF Core, Typed
  <2>4. Thread(w)'
    BY <2>1, <2>3, Sets DEF Core, Thread
  <2>5. \A v \in Workers \ {w} : pc'[v] = pc[v] /\ quarantined'[v] = quarantined[v]
    BY <2>1 DEF Core, Typed
  <2>. QED  BY <2>1, <2>2, <2>4, <2>5, OneWorker
<1>. QED  BY <1>1, <1>2, <1>3, <1>4, <1>5, <1>6, <1>7, <1>8, <1>9, <1>10, <1>11, <1>12
          DEF MainStep

LEMMA BeatKeeps ==
  ASSUME Core, NEW w \in Workers, BeatStep(w)
  PROVE  Core'
<1>. [Queue!Next]_queueVars
  BY BeatIsQueueStep
<1>1. PICK b \in Beats : /\ beat' = [beat EXCEPT ![w] = b]
                         /\ pc[w] \in Joined => b = "off"
                         /\ pc[w] \notin Working => b = "off"
  <2>1. CASE BeginBeat(w) \/ EndBeat(w) \/ LoseLease(w)
    <3>1. beat[w] # "off"
      BY <2>1 DEF BeginBeat, EndBeat, LoseLease, BeatTo
    <3>2. pc[w] \in Working /\ pc[w] \notin Joined
      BY <3>1 DEF Core, Thread
    <3>. QED  BY <2>1, <3>2, Sets DEF BeginBeat, EndBeat, LoseLease, BeatTo
  <2>2. CASE StopBeat(w)
    BY <2>2, Sets DEF StopBeat, BeatTo
  <2>. QED  BY <2>1, <2>2 DEF BeatStep
<1>2. UNCHANGED <<grants, pc, lease, outcomes, quarantined>>
  BY DEF BeatStep, BeginBeat, EndBeat, LoseLease, StopBeat, Queue!BeginCall,
         Queue!Heartbeat, Queue!AbortCalls
<1>3. pc' = [pc EXCEPT ![w] = pc[w]] /\ pc[w] \in Places
  BY <1>2, SameFunction
<1>4. pc[w] = "claiming" => ~quarantined[w]
  BY DEF Core, Thread
<1>. QED  BY <1>1, <1>2, <1>3, <1>4, Walks

LEMMA CoreKeeps ==
  ASSUME Core, [Next]_vars
  PROVE  Core'
<1>. [Queue!Next]_queueVars
  BY StepIsQueueStep
<1>1. CASE BrokerStep
  <2>1. UNCHANGED grants /\ UNCHANGED workerVars
    BY <1>1 DEF BrokerStep, Tick, BrokerPoll, BrokerSweep, BrokerEnqueue, Queue!Tick,
                Queue!BeginCall, Queue!Sweep, Queue!Enqueue
  <2>. QED  BY <2>1, NoWorker
<1>2. CASE UNCHANGED vars
  BY <1>2, NoWorker DEF vars, workerVars
<1>. QED  BY <1>1, <1>2, MainKeeps, BeatKeeps DEF Next, BrokerStep

LEMMA CoreInit == Init => Core
<1>. SUFFICES ASSUME Init PROVE Core
  OBVIOUS
<1>1. Queue!IInv
  BY QueueInit DEF Init
<1>2. grants = <<>>
  BY DEF Init, Queue!Init
<1>3. Typed
  BY <1>2, Sets DEF Init, Typed, NULL
<1>. QED  BY <1>1, <1>3, Sets DEF Init, Core, Thread

LEMMA CoreHolds == Spec => []Core
<1>. QED  BY CoreInit, CoreKeeps, PTL DEF Spec

(* Whatever the workers and the broker do is what the queue allows to      *)
(* arbitrary callers, so all that is proved of the queue holds of it under *)
(* its workers (storage/job_queue.py, worker/service.py).                  *)
THEOREM Composition == Spec => ImplementsQueue
<1>1. Init => Queue!Init
  BY DEF Init
<1>2. Core /\ [Next]_vars => [Queue!Next]_queueVars
  BY StepIsQueueStep
<1>3. queueVars = Queue!vars /\ queueVars' = Queue!vars'
  BY DEF queueVars, Queue!vars
<1>4. [Queue!Next]_queueVars => [Queue!Next]_Queue!vars
  BY <1>3
<1>. QED  BY <1>1, <1>2, <1>4, CoreHolds, PTL DEF Spec, ImplementsQueue, Queue!Spec

(* The queue keeps its invariants under its workers: only the newest lease *)
(* of a job, and no worker that lost it, gets a result in.                 *)
THEOREM FencingHolds == Spec => []Queue!NewestLeaseWins
<1>1. Core => Queue!NewestLeaseWins
  BY DEF Core, Queue!IInv
<1>. QED  BY <1>1, CoreHolds, PTL

-----------------------------------------------------------------------------
(* Quarantine.                                                             *)

(* Only a worker that is claiming is granted a lease.                      *)
LEMMA GrantIsTaken ==
  ASSUME Core, [Next]_vars, grants' # grants
  PROVE  \E v \in Workers : Take(v)
<1>1. CASE BrokerStep
  BY <1>1 DEF BrokerStep, Tick, BrokerPoll, BrokerSweep, BrokerEnqueue, Queue!Tick,
              Queue!BeginCall, Queue!Sweep, Queue!Enqueue
<1>2. ASSUME NEW w \in Workers, Poll(w) \/ MainStep(w) \/ Die(w) \/ Restart(w), ~Take(w)
      PROVE  FALSE
  BY <1>2 DEF Poll, MainStep, Die, Restart, TakeNothing, Prepare, Refuse, Finish, Ends, Join,
              Renew, Abandon, BeginCommit, Commit, CommitLost, Queue!BeginCall,
              Queue!ClaimNothing, Queue!Heartbeat, Queue!AbortCalls, Queue!Complete,
              Queue!Fail
<1>3. ASSUME NEW w \in Workers, BeatStep(w) PROVE FALSE
  BY <1>3 DEF BeatStep, BeginBeat, EndBeat, LoseLease, StopBeat, Queue!BeginCall,
              Queue!Heartbeat, Queue!AbortCalls
<1>. QED  BY <1>1, <1>2, <1>3 DEF Next, BrokerStep, vars

LEMMA GrantIsLast ==
  ASSUME Core, NEW w \in Workers, Take(w)
  PROVE  /\ Len(grants') = Len(grants) + 1
         /\ grants'[Len(grants) + 1].worker = w
         /\ grants'[Len(grants) + 1].job \in Jobs
         /\ jobs'[grants'[Len(grants) + 1].job].status = "LEASED"
<1>1. PICK now \in {calls[Main(w)]}, j \in Jobs :
        /\ grants' = Append(grants, [job |-> j, worker |-> w,
                                     attempt |-> Queue!Swept(now)[j].attempts + 1])
        /\ jobs' = [Queue!Swept(now) EXCEPT ![j] =
                      Queue!LeasedRow(Queue!Swept(now)[j], w, Len(grants) + 1, now)]
  BY DEF Take, Queue!Claim
<1>. DEFINE g == [job |-> j, worker |-> w, attempt |-> Queue!Swept(now)[j].attempts + 1]
            S == Queue!Grant \cup {g}
<1>2. grants \in Seq(S) /\ g \in S
  BY DEF Core, Queue!IInv, Queue!TypeOK
<1>3. g.job = j /\ g.worker = w
  OBVIOUS
<1>. HIDE DEF S, g
<1>4. Len(grants') = Len(grants) + 1 /\ grants'[Len(grants) + 1] = g
  BY <1>1, <1>2 DEF g
<1>5. jobs'[j].status = "LEASED"
  <2>1. Queue!Swept(now)[j] \in Queue!Row
    <3>1. jobs[j] \in Queue!Row /\ now \in Int
      BY <1>1 DEF Core, Queue!IInv, Queue!TypeOK, Queue!EndCall, Queue!Idle
    <3>2. now \in Nat
      BY <3>1, CallersAreThreads DEF Core, Queue!IInv, Queue!TypeOK, Take, Queue!Claim, Queue!EndCall, Queue!Idle
    <3>. QED  BY <3>1, <3>2 DEF Queue!Swept, Queue!SweptRow, Queue!Released, Queue!Row,
                         Queue!AfterAttempt, Queue!Statuses, Queue!Waiting,
                         Queue!Terminal, Queue!NULL
  <2>2. jobs'[j] = Queue!LeasedRow(Queue!Swept(now)[j], w, Len(grants) + 1, now)
    BY <1>1 DEF Queue!Swept
  <2>. QED  BY <2>1, <2>2 DEF Queue!LeasedRow, Queue!Renewed, Queue!Row
<1>. QED  BY <1>3, <1>4, <1>5

(* A worker that failed its health check is granted nothing before it was  *)
(* restarted (WorkerService._quarantine, run_once).                        *)
THEOREM Quarantine == Spec => QuarantineHolds
<1>1. ASSUME Core, [Next]_vars, NEW w \in Workers, quarantined[w], grants' # grants
      PROVE  grants'[Len(grants')].worker # w
  <2>1. PICK v \in Workers : Take(v)
    BY <1>1, GrantIsTaken
  <2>2. v # w
    BY <1>1, <2>1 DEF Core, Thread, Take, Goes
  <2>. QED  BY <1>1, <2>1, <2>2, GrantIsLast
<1>2. Core /\ [Next]_vars => [\A w \in Workers :
        quarantined[w] => \/ grants' = grants
                          \/ grants'[Len(grants')].worker # w]_vars
  BY <1>1
<1>. QED  BY <1>2, CoreHolds, PTL DEF Spec, QuarantineHolds

-----------------------------------------------------------------------------
(* The directories of the attempts.                                        *)

Directories ==
  /\ attemptDirs \subseteq Jobs \X Nat
  /\ \A d \in attemptDirs : \E t \in 1 .. Len(grants) :
       d = DirOf(t) /\ \A w \in Workers : pc[w] = "claimed" => lease[w] # t

LEMMA OneDirectoryEach ==
  ASSUME Core, NEW s \in 1 .. Len(grants), NEW t \in 1 .. Len(grants), DirOf(s) = DirOf(t)
  PROVE  s = t
<1>1. DOMAIN grants = 1 .. Len(grants) /\ \A r \in 1 .. Len(grants) : grants[r] \in Queue!Grant
  BY DEF Core, Queue!IInv, Queue!TypeOK
<1>2. grants[s].job = grants[t].job /\ grants[s].attempt = grants[t].attempt
  BY DEF DirOf
<1>3. grants[s].attempt \in Nat /\ grants[t].attempt \in Nat
  BY <1>1 DEF Queue!Grant
<1>4. ~(s < t) /\ ~(t < s)
  BY <1>1, <1>2, <1>3 DEF Core, Queue!IInv, Queue!AttemptsAreUnique
<1>5. s \in Int /\ t \in Int
  OBVIOUS
<1>. QED  BY <1>4, <1>5

(* A lease is claimed when it is granted and by nobody else.               *)
LEMMA ClaimedStays ==
  ASSUME Core, [Next]_vars, NEW v \in Workers, pc'[v] = "claimed"
  PROVE  \/ pc[v] = "claimed" /\ lease'[v] = lease[v]
         \/ lease'[v] = Len(grants) + 1
<1>1. CASE BrokerStep \/ UNCHANGED vars
  BY <1>1 DEF BrokerStep, Tick, BrokerPoll, BrokerSweep, BrokerEnqueue, workerVars, vars
<1>2. ASSUME NEW w \in Workers, Poll(w) \/ MainStep(w) \/ Die(w) \/ Restart(w)
      PROVE  \/ pc[v] = "claimed" /\ lease'[v] = lease[v]
             \/ lease'[v] = Len(grants) + 1
  <2>1. CASE v = w
    BY <1>2, <2>1
       DEF Core, Typed, Goes, Poll, MainStep, Die, Restart, Take, TakeNothing, Prepare, Refuse,
           Finish, Ends, Join, Renew, Abandon, BeginCommit, Commit, CommitLost
  <2>2. CASE v # w
    BY <1>2, <2>2
       DEF Core, Typed, Goes, Poll, MainStep, Die, Restart, Take, TakeNothing, Prepare, Refuse,
           Finish, Ends, Join, Renew, Abandon, BeginCommit, Commit, CommitLost
  <2>. QED  BY <2>1, <2>2
<1>3. ASSUME NEW w \in Workers, BeatStep(w)
      PROVE  pc[v] = "claimed" /\ lease'[v] = lease[v]
  BY <1>3 DEF BeatStep, BeginBeat, EndBeat, LoseLease, StopBeat
<1>. QED  BY <1>1, <1>2, <1>3 DEF Next, BrokerStep

LEMMA DirectoriesStand ==
  ASSUME Core, Directories, [Next]_vars, NEW d \in attemptDirs
  PROVE  d \in Jobs \X Nat /\
         \E t \in 1 .. Len(grants') :
           d = DirOf(t)' /\ \A w \in Workers : pc'[w] = "claimed" => lease'[w] # t
<1>1. PICK t \in 1 .. Len(grants) :
        d = DirOf(t) /\ \A w \in Workers : pc[w] = "claimed" => lease[w] # t
  BY DEF Directories
<1>2. /\ Len(grants) \in Nat /\ Len(grants') \in Nat /\ Len(grants) <= Len(grants')
      /\ grants'[t] = grants[t]
  BY StepIsQueueStep, GrantsGrow
<1>3. t \in 1 .. Len(grants') /\ t # Len(grants) + 1
  BY <1>2
<1>4. d = DirOf(t)'
  BY <1>1, <1>2 DEF DirOf
<1>5. ASSUME NEW w \in Workers, pc'[w] = "claimed" PROVE lease'[w] # t
  BY <1>1, <1>3, <1>5, ClaimedStays
<1>. QED  BY <1>3, <1>4, <1>5 DEF Directories

LEMMA DirectoriesKeep ==
  ASSUME Core, Directories, [Next]_vars
  PROVE  Directories'
<1>1. CASE attemptDirs' \subseteq attemptDirs
  BY <1>1, DirectoriesStand DEF Directories
<1>2. ASSUME NEW w \in Workers, Prepare(w)
      PROVE  Directories'
  <2>. DEFINE t == lease[w]
  <2>1. /\ pc[w] = "claimed" /\ pc' = [pc EXCEPT ![w] = "running"]
        /\ attemptDirs' = attemptDirs \cup {DirOf(t)}
        /\ UNCHANGED <<grants, lease>>
    BY <1>2 DEF Prepare, Goes
  <2>2. t \in 1 .. Len(grants) /\ grants[t].worker = w
    BY <2>1, LeaseIsGranted DEF Working
  <2>3. DirOf(t) \in Jobs \X Nat
    <3>1. grants \in Seq(Queue!Grant)
      BY DEF Core, Queue!IInv, Queue!TypeOK
    <3>2. grants[t] \in Queue!Grant
      BY <2>2, <3>1
    <3>. QED  BY <3>2 DEF Queue!Grant, DirOf
  <2>4. DirOf(t)' = DirOf(t)
    BY <2>1 DEF DirOf
  <2>5. ASSUME NEW v \in Workers, pc'[v] = "claimed" PROVE lease'[v] # t
    <3>1. v # w /\ pc[v] = "claimed"
      BY <2>1, <2>5 DEF Core, Typed
    <3>2. grants[lease[v]].worker = v
      BY <3>1, LeaseIsGranted DEF Working
    <3>. QED  BY <2>1, <2>2, <3>1, <3>2
  <2>6. PICK s \in 1 .. Len(grants) : s = t
    BY <2>2
  <2>7. \A d \in attemptDirs' : d \in Jobs \X Nat /\
          \E r \in 1 .. Len(grants') :
            d = DirOf(r)' /\ \A v \in Workers : pc'[v] = "claimed" => lease'[v] # r
    <3>1. DirOf(s)' = DirOf(t)
      BY <2>1, <2>6 DEF DirOf
    <3>. QED  BY <2>1, <2>3, <2>5, <2>6, <3>1, DirectoriesStand
  <2>. QED  BY <2>7 DEF Directories
<1>3. (\E w \in Workers : Prepare(w)) \/ attemptDirs' \subseteq attemptDirs
  <2>1. CASE BrokerStep \/ UNCHANGED vars
    BY <2>1 DEF BrokerStep, Tick, BrokerPoll, BrokerSweep, BrokerEnqueue, workerVars, vars
  <2>2. ASSUME NEW w \in Workers, Poll(w) \/ MainStep(w) \/ Die(w) \/ Restart(w), ~Prepare(w)
        PROVE  attemptDirs' \subseteq attemptDirs
    BY <2>2 DEF Poll, MainStep, Die, Restart, Take, TakeNothing, Refuse, Finish, Join, Renew,
                Abandon, BeginCommit, Commit, CommitLost
  <2>3. ASSUME NEW w \in Workers, BeatStep(w)
        PROVE  attemptDirs' \subseteq attemptDirs
    BY <2>3 DEF BeatStep, BeginBeat, EndBeat, LoseLease, StopBeat
  <2>. QED  BY <2>1, <2>2, <2>3 DEF Next, BrokerStep
<1>. QED  BY <1>1, <1>2, <1>3

LEMMA DirectoriesHold == Spec => []Directories
<1>1. Init => Directories
  BY DEF Init, Directories
<1>. QED  BY <1>1, DirectoriesKeep, CoreHolds, PTL DEF Spec

(* No execution meets the directory of another one, whatever was retried,  *)
(* taken over or restarted (WorkerService._resolve_output_dir).            *)
THEOREM FreshDirectories == Spec => []AttemptDirIsFresh
<1>1. ASSUME Core, Directories, NEW w \in Workers, pc[w] = "claimed"
      PROVE  DirOf(lease[w]) \notin attemptDirs
  <2>1. lease[w] \in 1 .. Len(grants)
    BY <1>1, LeaseIsGranted DEF Working
  <2>. QED  BY <1>1, <2>1, OneDirectoryEach DEF Directories
<1>2. Core /\ Directories => AttemptDirIsFresh
  BY <1>1 DEF AttemptDirIsFresh
<1>. QED  BY <1>2, CoreHolds, DirectoriesHold, PTL

(* Every variable keeps its type, and a worker holds a lease exactly while *)
(* it is at work on a job (WorkerService.run_once).                        *)
THEOREM TypeCorrect == Spec => []TypeOK
<1>1. Core /\ Directories => TypeOK
  <2>. SUFFICES ASSUME Core, Directories PROVE TypeOK
    OBVIOUS
  <2>1. DOMAIN grants = 1 .. Len(grants) /\ Queue!TypeOK
    BY DEF Core, Queue!IInv, Queue!TypeOK
  <2>2. \A w \in Workers : /\ lease[w] \in {NULL} \cup DOMAIN grants
                           /\ lease[w] # NULL <=> pc[w] \in Working
    BY <2>1 DEF Core, Thread, NULL
  <2>3. lease \in [Workers -> {NULL} \cup DOMAIN grants]
    BY <2>2 DEF Core, Typed
  <2>. QED  BY <2>1, <2>2, <2>3 DEF Core, Typed, Directories, Places, Beats, TypeOK
<1>. QED  BY <1>1, CoreHolds, DirectoriesHold, PTL

-----------------------------------------------------------------------------
(* The answers.                                                            *)

(* The outcome of a run, once known, does not change.                      *)
LEMMA OutcomeStays ==
  ASSUME Core, [Next]_vars, NEW t \in 1 .. Len(grants), outcomes[t] # "pending"
  PROVE  outcomes'[t] = outcomes[t]
<1>1. CASE UNCHANGED outcomes
  BY <1>1
<1>2. ASSUME NEW w \in Workers, Take(w)
      PROVE  outcomes'[t] = outcomes[t]
  BY <1>2 DEF Core, Typed, Take
<1>3. ASSUME NEW w \in Workers, NEW from \in AtWork, NEW o, Ends(w, from, o)
      PROVE  outcomes'[t] = outcomes[t]
  <2>1. t # lease[w]
    BY <1>3 DEF Core, Thread, Ends, Goes
  <2>. QED  BY <1>3, <2>1 DEF Core, Typed, Ends
<1>4. \/ UNCHANGED outcomes
      \/ \E w \in Workers : \/ Take(w)
                            \/ \E from \in AtWork, o \in Outcomes : Ends(w, from, o)
  <2>1. CASE BrokerStep \/ UNCHANGED vars
    BY <2>1 DEF BrokerStep, Tick, BrokerPoll, BrokerSweep, BrokerEnqueue, workerVars, vars
  <2>2. ASSUME NEW w \in Workers, Poll(w) \/ MainStep(w) \/ Die(w) \/ Restart(w), ~Take(w),
               ~\E from \in AtWork, o \in Outcomes : Ends(w, from, o)
        PROVE  UNCHANGED outcomes
    BY <2>2, Sets DEF Poll, MainStep, Die, Restart, TakeNothing, Prepare, Refuse, Finish, Join,
                Renew, Abandon, BeginCommit, Commit, CommitLost
  <2>3. ASSUME NEW w \in Workers, BeatStep(w)
        PROVE  UNCHANGED outcomes
    BY <2>3 DEF BeatStep, BeginBeat, EndBeat, LoseLease, StopBeat
  <2>. QED  BY <2>1, <2>2, <2>3 DEF Next, BrokerStep
<1>. QED  BY <1>1, <1>2, <1>3, <1>4

(* The rows that only a commit of a worker writes.                         *)
Answered(row) == \/ row.status = "SUCCEEDED"
                 \/ row.status = "DEAD" /\ row.error = "reported"

LEMMA QuietSweep ==
  ASSUME NEW j \in Jobs, NEW now, jobs[j] \in Queue!Row, Answered(Queue!SweptRow(j, now))
  PROVE  Queue!SweptRow(j, now) = jobs[j]
BY DEF Queue!SweptRow, Queue!Released, Queue!Row, Queue!AfterAttempt, Answered

LEMMA QuietStep ==
  ASSUME Core, [Next]_vars, \A w \in Workers : ~Commit(w), NEW j \in Jobs,
         Answered(jobs'[j])
  PROVE  jobs'[j] = jobs[j]
<1>1. jobs \in [Jobs -> Queue!Row]
  BY DEF Core, Queue!IInv, Queue!TypeOK
<1>2. ASSUME NEW c, Queue!Sweep(c) \/ Queue!ClaimNothing(c) PROVE jobs'[j] = jobs[j]
  BY <1>1, <1>2, QuietSweep DEF Queue!Sweep, Queue!ClaimNothing, Queue!Swept
<1>3. ASSUME NEW c, NEW w, Queue!Claim(c, w) PROVE jobs'[j] = jobs[j]
  <2>1. PICK now \in {calls[c]}, k \in Jobs :
          jobs' = [Queue!Swept(now) EXCEPT ![k] =
                     Queue!LeasedRow(Queue!Swept(now)[k], w, Len(grants) + 1, now)]
    BY <1>3 DEF Queue!Claim
  <2>2. CASE k # j
    BY <1>1, <2>1, <2>2, QuietSweep DEF Queue!Swept
  <2>3. CASE k = j
    <3>1. jobs'[j] = Queue!LeasedRow(Queue!SweptRow(j, now), w, Len(grants) + 1, now)
      BY <2>1, <2>3 DEF Queue!Swept
    <3>2. jobs'[j].status # "SUCCEEDED" /\ jobs'[j].status # "DEAD"
      BY <1>1, <3>1 DEF Queue!LeasedRow, Queue!Renewed, Queue!SweptRow, Queue!Released, Queue!Row
    <3>. QED  BY <3>2 DEF Answered
  <2>. QED  BY <2>2, <2>3
<1>4. ASSUME NEW c, NEW t, Queue!Heartbeat(c, t) PROVE jobs'[j] = jobs[j]
  <2>1. PICK now : /\ Queue!Owns(t, now)
                   /\ jobs' = [jobs EXCEPT ![grants[t].job] = Queue!Renewed(@, now)]
    BY <1>4 DEF Queue!Heartbeat
  <2>2. CASE grants[t].job # j
    BY <1>1, <2>1, <2>2
  <2>3. CASE grants[t].job = j
    <3>1. jobs'[j].status = "LEASED"
      BY <1>1, <2>1, <2>3 DEF Queue!Owns, Queue!Renewed, Queue!Row
    <3>. QED  BY <3>1 DEF Answered
  <2>. QED  BY <2>2, <2>3
<1>5. ASSUME NEW c, NEW k, Queue!Enqueue(c, k) PROVE jobs'[j] = jobs[j]
  <2>1. PICK now : /\ jobs[k].status = "ABSENT"
                   /\ jobs' = [jobs EXCEPT ![k].status = "QUEUED", ![k].created = now]
    BY <1>5 DEF Queue!Enqueue
  <2>2. CASE k # j
    BY <1>1, <2>1, <2>2
  <2>3. CASE k = j
    <3>1. jobs'[j].status = "QUEUED"
      BY <1>1, <2>1, <2>3 DEF Queue!Row
    <3>. QED  BY <3>1 DEF Answered
  <2>. QED  BY <2>2, <2>3
<1>6. CASE BrokerStep \/ UNCHANGED vars
  BY <1>2, <1>5, <1>6 DEF BrokerStep, Tick, BrokerPoll, BrokerSweep, BrokerEnqueue, vars,
                          Queue!Tick, Queue!BeginCall
<1>7. ASSUME NEW w \in Workers, Poll(w) \/ MainStep(w) \/ Die(w) \/ Restart(w)
      PROVE  jobs'[j] = jobs[j]
  <2>1. ~Commit(w)
    OBVIOUS
  <2>. QED  BY <1>2, <1>3, <1>4, <1>7, <2>1
            DEF Poll, MainStep, Die, Restart, Take, TakeNothing, Prepare, Refuse, Finish, Ends,
                Join, Renew, Abandon, BeginCommit, CommitLost, Queue!BeginCall,
                Queue!AbortCalls
<1>8. ASSUME NEW w \in Workers, BeatStep(w) PROVE jobs'[j] = jobs[j]
  BY <1>4, <1>8 DEF BeatStep, BeginBeat, EndBeat, LoseLease, StopBeat, Queue!BeginCall,
                    Queue!AbortCalls
<1>. QED  BY <1>6, <1>7, <1>8 DEF Next, BrokerStep

(* An answered job is granted to nobody.                                   *)
LEMMA NewestStays ==
  ASSUME Core, [Next]_vars, NEW j \in Jobs, Answered(jobs'[j]), NEW t \in DOMAIN grants',
         grants'[t].job = j
  PROVE  t \in 1 .. Len(grants) /\ grants'[t] = grants[t]
<1>1. Core'
  BY CoreKeeps
<1>2. t \in 1 .. Len(grants')
  BY <1>1 DEF Core, Queue!IInv, Queue!TypeOK
<1>3. CASE grants' = grants
  BY <1>2, <1>3
<1>4. CASE grants' # grants
  <2>1. PICK w \in Workers : Take(w)
    BY <1>4, GrantIsTaken
  <2>2. t # Len(grants) + 1
    BY <2>1, GrantIsLast DEF Answered
  <2>3. Len(grants) \in Nat
    BY StepIsQueueStep, GrantsGrow
  <2>4. t \in 1 .. Len(grants)
    BY <1>2, <2>1, <2>2, <2>3, GrantIsLast
  <2>. QED  BY <2>4, StepIsQueueStep, GrantsGrow
<1>. QED  BY <1>3, <1>4

AnswersInv == AnswerFitsOutcome /\ NothingIsBuried

(* What a commit writes, and what is known of it.                          *)
LEMMA CommitRow ==
  ASSUME Core, NEW w \in Workers, Commit(w)
  PROVE  \E t \in 1 .. Len(grants) : \E j \in Jobs :
           /\ t = lease[w] /\ j = grants[t].job /\ outcomes[t] \in Outcomes
           /\ grants[t].attempt = jobs[j].attempts /\ jobs[j].attempts <= MaxAttempts[j]
           /\ UNCHANGED <<grants, outcomes>>
           /\ \A k \in Jobs \ {j} : jobs'[k] = jobs[k]
           /\ \/ Delivered(t) /\ jobs'[j] = Queue!CompletedRow(j, t)
              \/ /\ ~Delivered(t)
                 /\ \E available : jobs'[j] = Queue!FailedRow(j, Retryable(outcomes[t]), available)
<1>1. PICK t \in 1 .. Len(grants) : t = lease[w]
  BY LeaseIsGranted DEF Commit, Goes, Working
<1>2. outcomes[t] \in Outcomes
  BY <1>1, Sets DEF Commit, Goes, Core, Thread
<1>3. jobs \in [Jobs -> Queue!Row] /\ grants \in Seq(Queue!Grant)
  BY DEF Core, Queue!IInv, Queue!TypeOK
<1>4. grants[t] \in Queue!Grant
  BY <1>3
<1>5. PICK j \in Jobs : j = grants[t].job
  BY <1>4 DEF Queue!Grant
<1>6. PICK now : Queue!Owns(t, now)
  BY <1>1 DEF Commit, Queue!Complete, Queue!Fail
<1>7. jobs[j].status = "LEASED" /\ jobs[j].token = t
  BY <1>5, <1>6 DEF Queue!Owns
<1>8. grants[t].attempt = jobs[j].attempts /\ jobs[j].attempts <= MaxAttempts[j]
  BY <1>7 DEF Core, Queue!IInv, Queue!NewestLeaseWins, Queue!NewestLeaseOf,
              Queue!AttemptsAreUnique
<1>9. UNCHANGED <<grants, outcomes>>
  BY DEF Commit, Queue!Complete, Queue!Fail
<1>10. CASE Delivered(t)
  <2>1. jobs' = [jobs EXCEPT ![j] = Queue!CompletedRow(j, t)]
    BY <1>1, <1>5, <1>10 DEF Commit, Queue!Complete
  <2>. QED  BY <1>1, <1>2, <1>3, <1>5, <1>8, <1>9, <1>10, <2>1
<1>11. CASE ~Delivered(t)
  <2>1. PICK available :
          jobs' = [jobs EXCEPT ![j] = Queue!FailedRow(j, Retryable(outcomes[t]), available)]
    BY <1>1, <1>5, <1>11 DEF Commit, Queue!Fail
  <2>. QED  BY <1>1, <1>2, <1>3, <1>5, <1>8, <1>9, <1>11, <2>1
<1>. QED  BY <1>10, <1>11

LEMMA CommitAnswers ==
  ASSUME Core, AnswersInv, NEW w \in Workers, Commit(w)
  PROVE  AnswersInv'
<1>1. PICK t \in 1 .. Len(grants), j \in Jobs :
           /\ t = lease[w] /\ j = grants[t].job /\ outcomes[t] \in Outcomes
           /\ grants[t].attempt = jobs[j].attempts /\ jobs[j].attempts <= MaxAttempts[j]
           /\ UNCHANGED <<grants, outcomes>>
           /\ \A k \in Jobs \ {j} : jobs'[k] = jobs[k]
           /\ \/ Delivered(t) /\ jobs'[j] = Queue!CompletedRow(j, t)
              \/ /\ ~Delivered(t)
                 /\ \E available : jobs'[j] = Queue!FailedRow(j, Retryable(outcomes[t]), available)
  BY CommitRow
<1>2. jobs[j] \in Queue!Row /\ MaxAttempts[j] \in Nat /\ DOMAIN grants = 1 .. Len(grants)
  BY AttemptsAssumption DEF Core, Queue!IInv, Queue!TypeOK
<1>3. jobs[j].attempts \in Nat
  BY <1>2 DEF Queue!Row
<1>4. CASE Delivered(t)
  <2>1. /\ jobs'[j].status = "SUCCEEDED" /\ jobs'[j].result = t
        /\ jobs'[j].attempts = jobs[j].attempts
    BY <1>1, <1>2, <1>4 DEF Queue!CompletedRow, Queue!Released, Queue!Row
  <2>2. AnswerFitsOutcome'
    BY <1>1, <1>2, <1>3, <1>4, <2>1 DEF AnswersInv, AnswerFitsOutcome, Delivered
  <2>3. NothingIsBuried'
    BY <1>1, <2>1 DEF AnswersInv, NothingIsBuried, Queue!NewestLeaseOf
  <2>. QED  BY <2>2, <2>3 DEF AnswersInv
<1>5. CASE ~Delivered(t)
  <2>1. /\ jobs'[j].status # "SUCCEEDED" /\ jobs'[j].attempts = jobs[j].attempts
        /\ jobs'[j].status = "DEAD" =>
             jobs[j].attempts >= MaxAttempts[j] \/ outcomes[t] = "rejected"
    BY <1>1, <1>2, <1>5 DEF Queue!FailedRow, Queue!AfterAttempt, Queue!Released, Queue!Row,
                            Retryable
  <2>2. AnswerFitsOutcome'
    BY <1>1, <2>1 DEF AnswersInv, AnswerFitsOutcome
  <2>3. ASSUME NEW s \in DOMAIN grants, grants[s].job = j,
               grants[s].attempt = jobs[j].attempts
        PROVE  s = t
    BY <1>1, <1>2, <2>3, OneDirectoryEach DEF DirOf
  <2>4. jobs'[j].status = "DEAD" => outcomes[t] \in {"rejected", "raised", "sick"}
    BY <1>1, <1>3, <1>5, <2>1 DEF Delivered, Outcomes
  <2>5. NothingIsBuried'
    BY <1>1, <2>1, <2>3, <2>4 DEF AnswersInv, NothingIsBuried, Queue!NewestLeaseOf
  <2>. QED  BY <2>2, <2>5 DEF AnswersInv
<1>. QED  BY <1>4, <1>5

LEMMA OtherAnswers ==
  ASSUME Core, AnswersInv, [Next]_vars, \A w \in Workers : ~Commit(w)
  PROVE  AnswersInv'
<1>1. Core'
  BY CoreKeeps
<1>2. ASSUME NEW j \in Jobs, jobs'[j].status = "SUCCEEDED"
      PROVE  \/ outcomes'[jobs'[j].result] = "verdict"
             \/ /\ outcomes'[jobs'[j].result] = "transient"
                /\ jobs'[j].attempts = MaxAttempts[j]
  <2>1. jobs'[j] = jobs[j]
    BY <1>2, QuietStep DEF Answered
  <2>2. PICK t \in DOMAIN grants : t = jobs[j].result
    BY <1>2, <2>1 DEF Core, Queue!IInv, Queue!NewestLeaseWins, Queue!NewestLeaseOf
  <2>3. t \in 1 .. Len(grants)
    BY DEF Core, Queue!IInv, Queue!TypeOK
  <2>4. outcomes[t] \in {"verdict", "transient"}
        /\ (outcomes[t] = "verdict" \/ jobs[j].attempts = MaxAttempts[j])
    BY <1>2, <2>1, <2>2 DEF AnswersInv, AnswerFitsOutcome
  <2>5. outcomes'[t] = outcomes[t]
    BY <2>3, <2>4, OutcomeStays
  <2>. QED  BY <2>1, <2>2, <2>4, <2>5
<1>3. ASSUME NEW j \in Jobs, NEW t \in DOMAIN grants', jobs'[j].status = "DEAD",
             jobs'[j].error = "reported", grants'[t].job = j,
             grants'[t].attempt = jobs'[j].attempts
      PROVE  outcomes'[t] \in {"rejected", "raised", "sick"}
  <2>1. jobs'[j] = jobs[j]
    BY <1>3, QuietStep DEF Answered
  <2>2. t \in 1 .. Len(grants) /\ grants'[t] = grants[t]
    BY <1>3, NewestStays DEF Answered
  <2>3. t \in DOMAIN grants
    BY <2>2 DEF Core, Queue!IInv, Queue!TypeOK
  <2>4. outcomes[t] \in {"rejected", "raised", "sick"}
    BY <1>3, <2>1, <2>2, <2>3 DEF AnswersInv, NothingIsBuried, Queue!NewestLeaseOf
  <2>. QED  BY <2>2, <2>4, OutcomeStays
<1>4. AnswerFitsOutcome'
  BY <1>2 DEF AnswerFitsOutcome
<1>5. NothingIsBuried'
  BY <1>3 DEF NothingIsBuried, Queue!NewestLeaseOf
<1>. QED  BY <1>4, <1>5 DEF AnswersInv

LEMMA AnswersHold == Spec => []AnswersInv
<1>1. Init => AnswersInv
  BY DEF Init, Queue!Init, Queue!NoRow, AnswersInv, AnswerFitsOutcome, NothingIsBuried
<1>2. Core /\ AnswersInv /\ [Next]_vars => AnswersInv'
  BY CommitAnswers, OtherAnswers
<1>. QED  BY <1>1, <1>2, CoreHolds, PTL DEF Spec

(* A stored result is a verdict, or the transient failure of the last      *)
(* attempt, of the very lease that delivered it, whoever else was leased   *)
(* the job meanwhile (the end of WorkerService.run_once).                  *)
THEOREM AnswersFit == Spec => []AnswerFitsOutcome
<1>1. AnswersInv => AnswerFitsOutcome
  BY DEF AnswersInv
<1>. QED  BY <1>1, AnswersHold, PTL

(* No verdict and no transient result ends as a dead letter of the queue   *)
(* (the comment in WorkerService.run_once).                                *)
THEOREM NothingLost == Spec => []NothingIsBuried
<1>1. AnswersInv => NothingIsBuried
  BY DEF AnswersInv
<1>. QED  BY <1>1, AnswersHold, PTL

-----------------------------------------------------------------------------
(* The two threads of a worker and the lease they extend.                  *)

(* A lease lasts for the term counted from now at the longest, and for the *)
(* term counted from the time that the heartbeat in progress has read.     *)
Fresh == \A j \in Jobs : jobs[j].status = "LEASED" =>
  /\ jobs[j].expires <= clock + LeaseTime
  /\ \A w \in Workers : jobs[j].token = lease[w] =>
       /\ beat[w] = "beating" => jobs[j].expires <= calls[Beat(w)] + LeaseTime
       /\ pc[w] = "renewing" => jobs[j].expires <= calls[Main(w)] + LeaseTime

LEMMA SweepReleases ==
  ASSUME NEW j \in Jobs, NEW now, jobs[j] \in Queue!Row
  PROVE  \/ Queue!SweptRow(j, now) = jobs[j]
         \/ Queue!SweptRow(j, now).status # "LEASED"
BY DEF Queue!SweptRow, Queue!Released, Queue!Row, Queue!AfterAttempt

(* What a step may do to the row of a job that is leased afterwards.       *)
LeasedBy(w, j) == /\ Take(w)
                  /\ jobs'[j].token = Len(grants) + 1
                  /\ jobs'[j].expires = calls[Main(w)] + LeaseTime

ExtendedBy(w, j, c) == /\ jobs[j].status = "LEASED" /\ jobs[j].token = lease[w]
                       /\ jobs'[j].token = lease[w]
                       /\ jobs'[j].expires = calls[c] + LeaseTime

LEMMA HeartbeatRow ==
  ASSUME Core, NEW w \in Workers, NEW c, Queue!Heartbeat(c, lease[w]), NEW j \in Jobs
  PROVE  jobs'[j] = jobs[j] \/ ExtendedBy(w, j, c)
<1>1. jobs \in [Jobs -> Queue!Row]
  BY DEF Core, Queue!IInv, Queue!TypeOK
<1>2. PICK now \in {calls[c]} :
        /\ Queue!Owns(lease[w], now)
        /\ jobs' = [jobs EXCEPT ![grants[lease[w]].job] = Queue!Renewed(@, now)]
  BY DEF Queue!Heartbeat
<1>3. CASE grants[lease[w]].job # j
  BY <1>1, <1>2, <1>3
<1>4. CASE grants[lease[w]].job = j
  <2>1. jobs[j].status = "LEASED" /\ jobs[j].token = lease[w]
    BY <1>2, <1>4 DEF Queue!Owns
  <2>2. jobs'[j] = Queue!Renewed(jobs[j], calls[c])
    BY <1>1, <1>2, <1>4
  <2>3. jobs'[j].token = jobs[j].token /\ jobs'[j].expires = calls[c] + LeaseTime
    BY <1>1, <2>2 DEF Queue!Renewed, Queue!Row
  <2>. QED  BY <2>1, <2>3 DEF ExtendedBy
<1>. QED  BY <1>3, <1>4

LEMMA TakeRow ==
  ASSUME Core, NEW w \in Workers, Take(w), NEW j \in Jobs
  PROVE  jobs'[j] = jobs[j] \/ jobs'[j].status # "LEASED" \/ LeasedBy(w, j)
<1>1. jobs \in [Jobs -> Queue!Row]
  BY DEF Core, Queue!IInv, Queue!TypeOK
<1>2. PICK now \in {calls[Main(w)]}, k \in Jobs :
        jobs' = [Queue!Swept(now) EXCEPT ![k] =
                   Queue!LeasedRow(Queue!Swept(now)[k], w, Len(grants) + 1, now)]
  BY DEF Take, Queue!Claim
<1>3. CASE k # j
  BY <1>1, <1>2, <1>3, SweepReleases DEF Queue!Swept
<1>4. CASE k = j
  <2>1. jobs'[j] = Queue!LeasedRow(Queue!SweptRow(j, now), w, Len(grants) + 1, now)
    BY <1>2, <1>4 DEF Queue!Swept
  <2>2. jobs'[j].token = Len(grants) + 1 /\ jobs'[j].expires = now + LeaseTime
    BY <1>1, <2>1 DEF Queue!LeasedRow, Queue!Renewed, Queue!SweptRow, Queue!Released, Queue!Row
  <2>. QED  BY <1>2, <2>2 DEF LeasedBy
<1>. QED  BY <1>3, <1>4

LEMMA CommitReleases ==
  ASSUME Core, NEW w \in Workers, Commit(w), NEW j \in Jobs
  PROVE  jobs'[j] = jobs[j] \/ jobs'[j].status # "LEASED"
<1>1. jobs \in [Jobs -> Queue!Row]
  BY DEF Core, Queue!IInv, Queue!TypeOK
<1>2. ASSUME NEW k \in Jobs, NEW t, NEW retryable, NEW available,
             \/ jobs'[k] = Queue!CompletedRow(k, t)
             \/ jobs'[k] = Queue!FailedRow(k, retryable, available)
      PROVE  jobs'[k].status # "LEASED"
  BY <1>1, <1>2 DEF Queue!CompletedRow, Queue!FailedRow, Queue!AfterAttempt, Queue!Released,
                    Queue!Row
<1>. QED  BY <1>2, CommitRow

LEMMA RowStep ==
  ASSUME Core, [Next]_vars, NEW j \in Jobs
  PROVE  \/ jobs'[j] = jobs[j]
         \/ jobs'[j].status # "LEASED"
         \/ \E w \in Workers : \/ LeasedBy(w, j)
                               \/ Renew(w) /\ ExtendedBy(w, j, Main(w))
                               \/ EndBeat(w) /\ ExtendedBy(w, j, Beat(w))
<1>1. jobs \in [Jobs -> Queue!Row]
  BY DEF Core, Queue!IInv, Queue!TypeOK
<1>2. ASSUME NEW c, Queue!Sweep(c) \/ Queue!ClaimNothing(c)
      PROVE  jobs'[j] = jobs[j] \/ jobs'[j].status # "LEASED"
  BY <1>1, <1>2, SweepReleases DEF Queue!Sweep, Queue!ClaimNothing, Queue!Swept
<1>3. ASSUME NEW c, NEW k \in Jobs, Queue!Enqueue(c, k)
      PROVE  jobs'[j] = jobs[j] \/ jobs'[j].status # "LEASED"
  BY <1>1, <1>3 DEF Queue!Enqueue, Queue!Row
<1>4. CASE BrokerStep \/ UNCHANGED vars
  BY <1>2, <1>3, <1>4 DEF BrokerStep, Tick, BrokerPoll, BrokerSweep, BrokerEnqueue, vars,
                          Queue!Tick, Queue!BeginCall
<1>5. ASSUME NEW w \in Workers, Poll(w) \/ MainStep(w) \/ Die(w) \/ Restart(w)
      PROVE  \/ jobs'[j] = jobs[j]
             \/ jobs'[j].status # "LEASED"
             \/ LeasedBy(w, j)
             \/ Renew(w) /\ ExtendedBy(w, j, Main(w))
  <2>1. CASE Take(w)
    BY <2>1, TakeRow
  <2>2. CASE Renew(w)
    BY <2>2, HeartbeatRow DEF Renew
  <2>3. CASE Commit(w)
    BY <2>3, CommitReleases
  <2>. QED  BY <1>2, <1>5, <2>1, <2>2, <2>3
            DEF Poll, MainStep, Die, Restart, TakeNothing, Prepare, Refuse, Finish, Ends,
                Join, Abandon, BeginCommit, CommitLost, Queue!BeginCall, Queue!AbortCalls
<1>6. ASSUME NEW w \in Workers, BeatStep(w)
      PROVE  jobs'[j] = jobs[j] \/ (EndBeat(w) /\ ExtendedBy(w, j, Beat(w)))
  <2>1. CASE EndBeat(w)
    BY <2>1, HeartbeatRow DEF EndBeat
  <2>. QED  BY <1>6, <2>1 DEF BeatStep, BeginBeat, LoseLease, StopBeat, Queue!BeginCall,
                              Queue!AbortCalls
<1>. QED  BY <1>4, <1>5, <1>6 DEF Next, BrokerStep

(* A call is ended by the thread that began it.                            *)
LEMMA Threads ==
  /\ \A w \in Workers : Broker # Main(w) /\ Broker # Beat(w)
  /\ \A v, w \in Workers : /\ Main(v) # Beat(w)
                           /\ v # w => Main(v) # Main(w) /\ Beat(v) # Beat(w)
BY BrokerAssumption DEF Main, Beat

LEMMA ClockRuns ==
  ASSUME Core, [Next]_vars
  PROVE  clock \in Nat /\ clock' \in Nat /\ clock <= clock'
<1>1. clock \in Nat
  BY DEF Core, Queue!IInv, Queue!TypeOK
<1>2. clock' = clock \/ clock' = clock + 1
  BY StepIsQueueStep
     DEF Queue!Next, Queue!Tick, Queue!AbortCalls, Queue!BeginCall, Queue!Sweep,
         Queue!ClaimNothing, Queue!Enqueue, Queue!Cancel, Queue!Claim, Queue!Heartbeat,
         Queue!Complete, Queue!Fail, Queue!EndCall, queueVars
<1>. QED  BY <1>1, <1>2

QueueCalls(c) == \/ Queue!BeginCall(c) \/ Queue!Sweep(c) \/ Queue!ClaimNothing(c)
                 \/ \E j \in Jobs : Queue!Enqueue(c, j)
                 \/ \E w \in Workers : Queue!Claim(c, w)
                 \/ \E t : Queue!Heartbeat(c, t) \/ Queue!Complete(c, t)
                 \/ \E t, retryable, delay : Queue!Fail(c, t, retryable, delay)
                 \/ Queue!AbortCalls({c})

LEMMA OwnCall ==
  ASSUME Core, NEW c, QueueCalls(c), NEW d \in Callers, d # c
  PROVE  calls'[d] = calls[d]
BY DEF Core, Queue!IInv, Queue!TypeOK, QueueCalls, Queue!BeginCall, Queue!Sweep,
       Queue!ClaimNothing, Queue!Enqueue, Queue!Claim, Queue!Heartbeat, Queue!Complete,
       Queue!Fail, Queue!EndCall, Queue!AbortCalls

(* A worker's call, and the lease it is for, stand until it ends.          *)
LEMMA BeatingStep ==
  ASSUME Core, [Next]_vars, NEW w \in Workers, beat'[w] = "beating"
  PROVE  /\ lease'[w] = lease[w]
         /\ \/ beat[w] = "beating" /\ calls'[Beat(w)] = calls[Beat(w)]
            \/ calls'[Beat(w)] = clock
<1>. Beat(w) \in Callers /\ Beat(w) # Main(w)
  BY CallersAreThreads, Threads
<1>1. CASE BrokerStep \/ UNCHANGED vars
  <2>1. UNCHANGED workerVars
    BY <1>1 DEF BrokerStep, Tick, BrokerPoll, BrokerSweep, BrokerEnqueue, workerVars, vars
  <2>2. calls'[Beat(w)] = calls[Beat(w)]
    BY <1>1, OwnCall, Threads
       DEF BrokerStep, Tick, BrokerPoll, BrokerSweep, BrokerEnqueue, QueueCalls, Queue!Tick,
           vars
  <2>. QED  BY <2>1, <2>2 DEF workerVars
<1>2. ASSUME NEW v \in Workers, Poll(v) \/ MainStep(v) \/ Die(v) \/ Restart(v)
      PROVE  lease'[w] = lease[w] /\ beat[w] = "beating"
  <2>1. CASE v = w
    BY <1>2, <2>1
       DEF Core, Typed, Poll, MainStep, Die, Restart, Take, TakeNothing, Prepare, Refuse,
           Finish, Ends, Join, Renew, Abandon, BeginCommit, Commit, CommitLost, Thread, Goes,
           Working, Joined
  <2>2. CASE v # w
    BY <1>2, <2>2
       DEF Core, Typed, Poll, MainStep, Die, Restart, Take, TakeNothing, Prepare, Refuse,
           Finish, Ends, Join, Renew, Abandon, BeginCommit, Commit, CommitLost
  <2>. QED  BY <2>1, <2>2
<1>3. ASSUME NEW v \in Workers, Poll(v) \/ MainStep(v) \/ Die(v) \/ Restart(v)
      PROVE  calls'[Beat(w)] = calls[Beat(w)]
  <2>1. CASE (Die(v) \/ CommitLost(v)) /\ v = w
    BY <2>1 DEF Die, CommitLost, Core, Typed
  <2>2. CASE (Die(v) \/ CommitLost(v)) /\ v # w
    BY <2>2, Threads DEF Die, CommitLost, Queue!AbortCalls
  <2>3. QueueCalls(Main(v)) \/ calls' = calls \/ Die(v) \/ CommitLost(v)
    BY <1>3 DEF Poll, MainStep, Restart, Take, TakeNothing, Prepare, Refuse, Finish, Ends,
                Join, Renew, Abandon, BeginCommit, Commit, QueueCalls
  <2>. QED  BY <2>1, <2>2, <2>3, OwnCall, Threads
<1>4. ASSUME NEW v \in Workers, BeatStep(v)
      PROVE  /\ lease' = lease
             /\ \/ beat[w] = "beating" /\ calls'[Beat(w)] = calls[Beat(w)]
                \/ calls'[Beat(w)] = clock
  <2>1. lease' = lease
    BY <1>4 DEF BeatStep, BeginBeat, EndBeat, LoseLease, StopBeat
  <2>2. CASE v = w
    BY <1>4, <2>1, <2>2
       DEF BeatStep, BeginBeat, EndBeat, LoseLease, StopBeat, BeatTo, Core, Typed,
           Queue!BeginCall, Queue!IInv, Queue!TypeOK
  <2>3. CASE v # w
    <3>1. QueueCalls(Beat(v)) \/ calls' = calls
      BY <1>4 DEF BeatStep, BeginBeat, EndBeat, LoseLease, StopBeat, QueueCalls
    <3>2. beat[w] = "beating"
      BY <1>4, <2>3 DEF BeatStep, BeginBeat, EndBeat, LoseLease, StopBeat, BeatTo, Core, Typed
    <3>. QED  BY <2>1, <2>3, <3>1, <3>2, OwnCall, Threads
  <2>. QED  BY <2>1, <2>2, <2>3
<1>. QED  BY <1>1, <1>2, <1>3, <1>4 DEF Next, BrokerStep

LEMMA RenewingStep ==
  ASSUME Core, [Next]_vars, NEW w \in Workers, pc'[w] = "renewing"
  PROVE  /\ lease'[w] = lease[w]
         /\ \/ pc[w] = "renewing" /\ calls'[Main(w)] = calls[Main(w)]
            \/ calls'[Main(w)] = clock
<1>. Main(w) \in Callers /\ Beat(w) # Main(w)
  BY CallersAreThreads, Threads
<1>1. CASE BrokerStep \/ UNCHANGED vars
  <2>1. UNCHANGED workerVars
    BY <1>1 DEF BrokerStep, Tick, BrokerPoll, BrokerSweep, BrokerEnqueue, workerVars, vars
  <2>2. calls'[Main(w)] = calls[Main(w)]
    BY <1>1, OwnCall, Threads
       DEF BrokerStep, Tick, BrokerPoll, BrokerSweep, BrokerEnqueue, QueueCalls, Queue!Tick,
           vars
  <2>. QED  BY <2>1, <2>2 DEF workerVars
<1>2. ASSUME Poll(w) \/ MainStep(w) \/ Die(w) \/ Restart(w)
      PROVE  lease'[w] = lease[w] /\ calls'[Main(w)] = clock
  BY <1>2
     DEF Core, Typed, Poll, MainStep, Die, Restart, Take, TakeNothing, Prepare, Refuse,
         Finish, Ends, Join, Renew, Abandon, BeginCommit, Commit, CommitLost, Goes,
         Queue!BeginCall, Queue!IInv, Queue!TypeOK
<1>3. ASSUME NEW v \in Workers, v # w, Poll(v) \/ MainStep(v) \/ Die(v) \/ Restart(v)
      PROVE  /\ lease'[w] = lease[w] /\ pc[w] = "renewing"
             /\ calls'[Main(w)] = calls[Main(w)]
  <2>a. lease'[w] = lease[w]
    BY <1>3
       DEF Core, Typed, Poll, MainStep, Die, Restart, Take, TakeNothing, Prepare, Refuse,
           Finish, Ends, Join, Renew, Abandon, BeginCommit, Commit, CommitLost
  <2>b. \E p : pc' = [pc EXCEPT ![v] = p]
    BY <1>3
       DEF Poll, MainStep, Die, Restart, Take, TakeNothing, Prepare, Refuse,
           Finish, Ends, Join, Renew, Abandon, BeginCommit, Commit, CommitLost, Goes
  <2>1. lease'[w] = lease[w] /\ pc[w] = "renewing"
    BY <1>3, <2>a, <2>b DEF Core, Typed
  <2>2. CASE Die(v) \/ CommitLost(v)
    BY <1>3, <2>1, <2>2, Threads DEF Die, CommitLost, Queue!AbortCalls
  <2>3. QueueCalls(Main(v)) \/ calls' = calls \/ Die(v) \/ CommitLost(v)
    BY <1>3 DEF Poll, MainStep, Restart, Take, TakeNothing, Prepare, Refuse, Finish, Ends,
                Join, Renew, Abandon, BeginCommit, Commit, QueueCalls
  <2>. QED  BY <1>3, <2>1, <2>2, <2>3, OwnCall, Threads
<1>4. ASSUME NEW v \in Workers, BeatStep(v)
      PROVE  /\ lease' = lease /\ pc' = pc
             /\ calls'[Main(w)] = calls[Main(w)]
  <2>1. QueueCalls(Beat(v)) \/ calls' = calls
    BY <1>4 DEF BeatStep, BeginBeat, EndBeat, LoseLease, StopBeat, QueueCalls
  <2>2. lease' = lease /\ pc' = pc
    BY <1>4 DEF BeatStep, BeginBeat, EndBeat, LoseLease, StopBeat
  <2>. QED  BY <2>1, <2>2, OwnCall, Threads
<1>. QED  BY <1>1, <1>2, <1>3, <1>4 DEF Next, BrokerStep

LEMMA FreshKeeps ==
  ASSUME Core, Fresh, [Next]_vars
  PROVE  Fresh'
<1>1. Core'
  BY CoreKeeps
<1>2. /\ clock \in Nat /\ clock' \in Nat /\ clock <= clock' /\ LeaseTime \in Nat
      /\ \A c \in Callers : calls[c] \in Int /\ calls[c] <= clock
  BY ClockRuns, TimeAssumption DEF Core, Queue!IInv, Queue!TypeOK, Queue!Idle
<1>3. ASSUME NEW j \in Jobs, jobs'[j] = jobs[j], jobs'[j].status = "LEASED",
             NEW w \in Workers, jobs'[j].token = lease'[w]
      PROVE  /\ jobs'[j].expires <= clock + LeaseTime
             /\ beat'[w] = "beating" => jobs'[j].expires <= calls'[Beat(w)] + LeaseTime
             /\ pc'[w] = "renewing" => jobs'[j].expires <= calls'[Main(w)] + LeaseTime
  <2>1. jobs[j].expires <= clock + LeaseTime
    BY <1>3 DEF Fresh
  <2>2. ASSUME beat'[w] = "beating"
        PROVE  jobs[j].expires <= calls'[Beat(w)] + LeaseTime
    BY <1>3, <2>1, <2>2, BeatingStep DEF Fresh
  <2>3. ASSUME pc'[w] = "renewing"
        PROVE  jobs[j].expires <= calls'[Main(w)] + LeaseTime
    BY <1>3, <2>1, <2>3, RenewingStep DEF Fresh
  <2>. QED  BY <1>3, <2>1, <2>2, <2>3
<1>4. ASSUME NEW j \in Jobs, NEW v \in Workers, LeasedBy(v, j)
      PROVE  /\ jobs'[j].expires <= clock + LeaseTime
             /\ \A w \in Workers : jobs'[j].token = lease'[w] =>
                  beat'[w] # "beating" /\ pc'[w] # "renewing"
  <2>1. jobs'[j].expires <= clock + LeaseTime
    BY <1>2, <1>4, CallersAreThreads DEF LeasedBy
  <2>2. ASSUME NEW w \in Workers, jobs'[j].token = lease'[w]
        PROVE  w = v
    <3>1. CASE lease'[w] = lease[w]
      <4>1. lease[w] = Len(grants) + 1 /\ Len(grants) \in Nat
        BY <1>4, <2>2, <3>1, StepIsQueueStep, GrantsGrow DEF LeasedBy
      <4>. QED  BY <4>1 DEF Core, Thread, NULL
    <3>2. CASE lease'[w] # lease[w]
      BY <1>4, <3>2 DEF LeasedBy, Take, Core, Typed
    <3>. QED  BY <3>1, <3>2
  <2>3. beat'[v] = "waiting" /\ pc'[v] = "claimed"
    BY <1>4 DEF LeasedBy, Take, Goes, Core, Typed
  <2>. QED  BY <2>1, <2>2, <2>3
<1>5. ASSUME NEW j \in Jobs, NEW v \in Workers, NEW c \in Callers, ExtendedBy(v, j, c),
             \/ Renew(v) /\ c = Main(v)
             \/ EndBeat(v) /\ c = Beat(v)
      PROVE  /\ jobs'[j].expires <= clock + LeaseTime
             /\ \A w \in Workers : jobs'[j].token = lease'[w] =>
                  beat'[w] # "beating" /\ pc'[w] # "renewing"
  <2>1. jobs'[j].expires <= clock + LeaseTime
    BY <1>2, <1>5 DEF ExtendedBy
  <2>2. pc[v] \in Working
    BY <1>5, LeaseIsGranted DEF Renew, Goes, EndBeat, BeatTo, Working
  <2>3. ASSUME NEW w \in Workers, jobs'[j].token = lease'[w]
        PROVE  w = v
    <3>1. lease'[w] = lease[w]
      BY <1>5 DEF Renew, EndBeat
    <3>2. lease[w] = lease[v]
      BY <1>5, <2>3, <3>1 DEF ExtendedBy
    <3>3. lease[v] \in 1 .. Len(grants) /\ grants[lease[v]].worker = v
      BY <2>2, LeaseIsGranted
    <3>. QED  BY <3>2, <3>3 DEF Core, Thread, NULL
  <2>4. beat'[v] # "beating" /\ pc'[v] # "renewing"
    <3>1. CASE Renew(v)
      BY <3>1, Sets DEF Renew, Goes, Core, Typed, Thread
    <3>2. CASE EndBeat(v)
      BY <3>2, Sets DEF EndBeat, BeatTo, Core, Typed, Thread
    <3>. QED  BY <1>5, <3>1, <3>2
  <2>. QED  BY <2>1, <2>3, <2>4
<1>6. ASSUME NEW j \in Jobs, jobs'[j].status = "LEASED"
      PROVE  /\ jobs'[j].expires <= clock' + LeaseTime
             /\ \A w \in Workers : jobs'[j].token = lease'[w] =>
                  /\ beat'[w] = "beating" => jobs'[j].expires <= calls'[Beat(w)] + LeaseTime
                  /\ pc'[w] = "renewing" => jobs'[j].expires <= calls'[Main(w)] + LeaseTime
  <2>1. jobs'[j].expires \in Nat
    BY <1>1 DEF Core, Queue!IInv, Queue!TypeOK, Queue!Row
  <2>2. CASE jobs'[j] = jobs[j]
    <3>1. jobs[j].expires <= clock + LeaseTime
      BY <1>6, <2>2 DEF Fresh
    <3>. QED  BY <1>2, <1>3, <1>6, <2>1, <2>2, <3>1
  <2>3. CASE \E v \in Workers : \/ LeasedBy(v, j)
                                \/ Renew(v) /\ ExtendedBy(v, j, Main(v))
                                \/ EndBeat(v) /\ ExtendedBy(v, j, Beat(v))
    BY <1>2, <1>4, <1>5, <2>1, <2>3, CallersAreThreads
  <2>. QED  BY <1>6, <2>2, <2>3, RowStep
<1>. QED  BY <1>6 DEF Fresh

(* The two heartbeats of a worker read the clock in the order in which     *)
(* they extend its lease, so that neither cuts it short (_Heartbeat._run   *)
(* and finalize() in worker/service.py).                                   *)
THEOREM NeverShrinks == Spec => LeaseNeverShrinks
<1>1. Init => Fresh
  BY DEF Init, Queue!Init, Queue!NoRow, Fresh
<1>2. Core /\ Fresh /\ [Next]_vars => Fresh'
  BY FreshKeeps
<1>3. ASSUME Core, Fresh, [Next]_vars, NEW j \in Jobs, jobs[j].token # NULL,
             jobs'[j].token = jobs[j].token
      PROVE  jobs'[j].expires >= jobs[j].expires
  <2>1. Core'
    BY <1>3, CoreKeeps
  <2>2. jobs[j] \in Queue!Row /\ jobs[j].status = "LEASED" /\ jobs'[j].status = "LEASED"
    BY <1>3, <2>1 DEF Core, Queue!IInv, Queue!TypeOK, Queue!LeaseColumns, NULL, Queue!NULL
  <2>3. /\ jobs[j].expires \in Nat /\ jobs[j].token \in 1 .. Len(grants)
        /\ Len(grants) \in Nat
    <3>1. DOMAIN grants = 1 .. Len(grants) /\ Len(grants) \in Nat
      BY DEF Core, Queue!IInv, Queue!TypeOK
    <3>2. jobs[j].token \in DOMAIN grants
      BY <2>2, <1>3 DEF Core, Queue!IInv, Queue!NewestLeaseWins, Queue!NewestLeaseOf
    <3>. QED  BY <2>2, <3>1, <3>2 DEF Queue!Row
  <2>4. ASSUME NEW w \in Workers
        PROVE  ~LeasedBy(w, j)
    BY <1>3, <2>3 DEF LeasedBy
  <2>5. ASSUME NEW w \in Workers, Renew(w) /\ ExtendedBy(w, j, Main(w))
        PROVE  jobs'[j].expires >= jobs[j].expires
    BY <2>2, <2>5, <1>3 DEF Fresh, ExtendedBy, Renew, Goes
  <2>6. ASSUME NEW w \in Workers, EndBeat(w) /\ ExtendedBy(w, j, Beat(w))
        PROVE  jobs'[j].expires >= jobs[j].expires
    BY <2>2, <2>6, <1>3 DEF Fresh, ExtendedBy, EndBeat, BeatTo
  <2>. QED  BY <1>3, <2>2, <2>3, <2>4, <2>5, <2>6, RowStep
<1>4. Spec => []Fresh
  BY <1>1, <1>2, CoreHolds, PTL DEF Spec
<1>5. Core /\ Fresh /\ [Next]_vars => [\A j \in Jobs :
        (/\ jobs[j].token # NULL
         /\ jobs'[j].token = jobs[j].token) => jobs'[j].expires >= jobs[j].expires]_vars
  BY <1>3
<1>. QED  BY <1>4, <1>5, CoreHolds, PTL DEF Spec, LeaseNeverShrinks
=============================================================================
