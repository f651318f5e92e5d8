--------------------------- MODULE JobQueueProofs ---------------------------
(***************************************************************************)
(* Proofs about the evaluation queue, for any jobs, workers, callers,      *)
(* budgets, priorities and durations.                                      *)
(*                                                                         *)
(* The invariants of JobQueue speak about all rows and all leases at once; *)
(* a transaction changes one row, or sweeps all of them alike.  The proofs *)
(* therefore restate the invariants row by row (RowInv), show that each    *)
(* row a transaction can write satisfies RowInv again, and that a new      *)
(* lease disturbs nothing but the row it was granted for.                  *)
(***************************************************************************)
EXTENDS JobQueue, TLAPS

(* Lease t of gr is the newest lease of job j, whose row is `row'.         *)
Newest(t, j, row, gr) == /\ t \in 1..Len(gr)
                         /\ gr[t].job = j
                         /\ gr[t].attempt = row.attempts

RowInv(j, row, gr) ==
  /\ row \in Row
  /\ row.attempts <= MaxAttempts[j]
  /\ row.status \in Waiting \cup {"ABSENT"} => row.attempts < MaxAttempts[j]
  /\ (row.status = "LEASED") <=> (row.owner # None)
  /\ (row.status = "LEASED") <=> (row.token # NULL)
  /\ (row.status = "LEASED") <=> (row.expires # NULL)
  /\ (row.status = "LEASED") <=> (row.heartbeat # Never)
  /\ row.status = "LEASED" => /\ Newest(row.token, j, row, gr)
                              /\ gr[row.token].worker = row.owner
  /\ row.status = "SUCCEEDED" => Newest(row.result, j, row, gr)
  /\ row.status # "SUCCEEDED" => row.result = NULL

GrantsInv == /\ grants \in Seq(Grant)
             /\ \A s, t \in 1..Len(grants) :
                  (grants[s].job = grants[t].job /\ s < t)
                    => grants[s].attempt < grants[t].attempt
             /\ \A t \in 1..Len(grants) :
                  grants[t].attempt \in 1..jobs[grants[t].job].attempts

ClockInv == /\ clock \in Nat
            /\ calls \in [Callers -> Nat \cup {Idle}]
            /\ \A c \in Callers : calls[c] <= clock

TableInv == /\ jobs \in [Jobs -> Row]
            /\ \A j \in Jobs : RowInv(j, jobs[j], grants)

LEMMA GrantType ==
  ASSUME GrantsInv
  PROVE  /\ DOMAIN grants = 1..Len(grants)
         /\ Len(grants) \in Nat
         /\ \A t \in 1..Len(grants) : grants[t].job \in Jobs
<1>1. \A t \in 1..Len(grants) : grants[t] \in Grant
  BY DEF GrantsInv
<1>2. DOMAIN grants = 1..Len(grants) /\ Len(grants) \in Nat
  BY DEF GrantsInv
<1>. QED  BY <1>1, <1>2 DEF Grant

LEMMA Parts == IInv <=> TableInv /\ GrantsInv /\ ClockInv
<1>1. IInv => TableInv
  BY DEF IInv, TableInv, TypeOK, RowInv, LeaseColumns, AttemptsAreUnique,
         WaitingIsClaimable, NewestLeaseWins, NewestLeaseOf, Newest
<1>2. IInv => GrantsInv /\ ClockInv
  BY DEF IInv, GrantsInv, ClockInv, TypeOK, AttemptsAreUnique
<1>3. ASSUME TableInv, GrantsInv, ClockInv
      PROVE  IInv
  <2>1. TypeOK
    BY <1>3 DEF TableInv, GrantsInv, ClockInv, TypeOK
  <2>2. LeaseColumns /\ WaitingIsClaimable
    BY <1>3 DEF TableInv, RowInv, LeaseColumns, WaitingIsClaimable
  <2>3. AttemptsAreUnique
    BY <1>3 DEF TableInv, RowInv, GrantsInv, AttemptsAreUnique
  <2>4. NewestLeaseWins
    <3>1. DOMAIN grants = 1..Len(grants)
      BY <1>3 DEF GrantsInv
    <3>2. ASSUME NEW j \in Jobs, NEW t, Newest(t, j, jobs[j], grants)
          PROVE  NewestLeaseOf(t, j)
      BY <3>1, <3>2 DEF Newest, NewestLeaseOf
    <3>. QED  BY <1>3, <3>2 DEF TableInv, RowInv, NewestLeaseWins
  <2>. QED  BY <2>1, <2>2, <2>3, <2>4 DEF IInv
<1>. QED  BY <1>1, <1>2, <1>3

-----------------------------------------------------------------------------
(* The rows a transaction can write.                                       *)

LEMMA AfterAttemptRange ==
  ASSUME NEW j \in Jobs, jobs[j] \in Row, jobs[j].attempts <= MaxAttempts[j],
         NEW retryable \in BOOLEAN
  PROVE  /\ AfterAttempt(j, retryable) \in {"DEAD", "RETRY_WAIT"}
         /\ AfterAttempt(j, retryable) = "RETRY_WAIT"
              => jobs[j].attempts < MaxAttempts[j]
BY AttemptsAssumption DEF AfterAttempt, Row

(* Both ways in which a lease ends without a result leave such a row.      *)
LEMMA UnansweredRowInv ==
  ASSUME NEW j \in Jobs, RowInv(j, jobs[j], grants), jobs[j].status = "LEASED",
         NEW retryable \in BOOLEAN, NEW available \in Nat,
         NEW error \in {"lease_expired", "reported"}
  PROVE  RowInv(j, [Released(jobs[j]) EXCEPT
                      !.status = AfterAttempt(j, retryable),
                      !.available = available, !.error = error], grants)
<1>. DEFINE row == [Released(jobs[j]) EXCEPT
                      !.status = AfterAttempt(j, retryable),
                      !.available = available, !.error = error]
<1>1. jobs[j] \in Row /\ jobs[j].attempts <= MaxAttempts[j] /\ jobs[j].result = NULL
  BY DEF RowInv
<1>2. /\ AfterAttempt(j, retryable) \in {"DEAD", "RETRY_WAIT"}
      /\ AfterAttempt(j, retryable) = "RETRY_WAIT"
           => jobs[j].attempts < MaxAttempts[j]
  BY <1>1, AfterAttemptRange
<1>3. Released(jobs[j]) \in Row
  BY <1>1 DEF Released, Row, NULL, Never
<1>4. row \in Row
  BY <1>2, <1>3 DEF Row, Statuses, Waiting, Terminal
<1>5. /\ row.status = AfterAttempt(j, retryable)
      /\ row.attempts = jobs[j].attempts
      /\ row.owner = None
      /\ row.token = NULL
      /\ row.expires = NULL /\ row.heartbeat = Never
      /\ row.result = NULL
  BY <1>1 DEF Released, Row
<1>. HIDE DEF row
<1>6. RowInv(j, row, grants)
  BY <1>1, <1>2, <1>4, <1>5 DEF RowInv, Waiting
<1>. QED  BY <1>6 DEF row

LEMMA SweptRowInv ==
  ASSUME NEW j \in Jobs, NEW now \in Nat, RowInv(j, jobs[j], grants)
  PROVE  RowInv(j, SweptRow(j, now), grants)
<1>1. CASE Expired(jobs[j], now)
  BY <1>1, UnansweredRowInv DEF SweptRow, Expired
<1>2. CASE ~Expired(jobs[j], now)
  BY <1>2 DEF SweptRow
<1>. QED  BY <1>1, <1>2

LEMMA FailedRowInv ==
  ASSUME NEW t \in 1..Len(grants), NEW now, Owns(t, now), NEW j \in Jobs,
         j = grants[t].job, RowInv(j, jobs[j], grants),
         NEW available \in Nat, NEW retryable \in BOOLEAN
  PROVE  RowInv(j, FailedRow(j, retryable, available), grants)
BY UnansweredRowInv DEF FailedRow, Owns

LEMMA LeasedRowInv ==
  ASSUME NEW j \in Jobs, NEW w \in Workers, NEW now \in Nat, NEW row,
         GrantsInv, RowInv(j, row, grants), row.status \in Waiting
  PROVE  RowInv(j, LeasedRow(row, w, Len(grants) + 1, now),
                Append(grants, [job |-> j, worker |-> w,
                                attempt |-> row.attempts + 1]))
<1>. DEFINE g   == [job |-> j, worker |-> w, attempt |-> row.attempts + 1]
            new == LeasedRow(row, w, Len(grants) + 1, now)
<1>1. row \in Row /\ row.attempts < MaxAttempts[j] /\ row.result = NULL
  BY DEF RowInv, Waiting
<1>2. Len(grants) \in Nat /\ Len(Append(grants, g)) = Len(grants) + 1
      /\ Append(grants, g)[Len(grants) + 1] = g
  BY DEF GrantsInv
<1>3. /\ new.status = "LEASED"
      /\ new.attempts = row.attempts + 1
      /\ new.owner = w
      /\ new.token = Len(grants) + 1
      /\ new.expires = now + LeaseTime /\ new.heartbeat = now
      /\ new.result = NULL
  BY <1>1 DEF LeasedRow, Renewed, Row
<1>4. new \in Row
  <2>1. /\ row.attempts + 1 \in Nat
        /\ now + LeaseTime \in Nat
        /\ Len(grants) + 1 \in Nat
    BY <1>1, <1>2, TimeAssumption DEF Row
  <2>2. "LEASED" \in Statuses
    BY DEF Statuses
  <2>3. new = [row EXCEPT !.status = "LEASED", !.attempts = row.attempts + 1,
                          !.owner = w, !.token = Len(grants) + 1,
                          !.expires = now + LeaseTime, !.heartbeat = now]
    BY <1>1 DEF LeasedRow, Renewed, Row
  <2>. HIDE DEF new
  <2>. QED  BY <1>1, <2>1, <2>2, <2>3 DEF Row
<1>5. new.attempts <= MaxAttempts[j]
  BY <1>1, <1>3, AttemptsAssumption DEF Row
<1>6. /\ new.owner # None /\ new.token # NULL
      /\ new.expires # NULL /\ new.heartbeat # Never
  BY <1>2, <1>3, WorkersAssumption, TimeAssumption DEF NULL, Never
<1>7. Newest(new.token, j, new, Append(grants, g))
      /\ Append(grants, g)[new.token].worker = new.owner
  BY <1>2, <1>3 DEF Newest
<1>. HIDE DEF g, new
<1>8. RowInv(j, new, Append(grants, g))
  BY <1>3, <1>4, <1>5, <1>6, <1>7 DEF RowInv, Waiting
<1>. QED  BY <1>8 DEF g, new

(* A heartbeat changes the two time columns of a lease and no other.       *)
LEMMA RenewedRow ==
  ASSUME NEW row \in Row, NEW now \in Nat
  PROVE  /\ Renewed(row, now) \in Row
         /\ Renewed(row, now).expires # NULL
         /\ Renewed(row, now).heartbeat # Never
         /\ \A field \in {"status", "attempts", "owner", "token", "result"} :
              Renewed(row, now)[field] = row[field]
<1>1. now + LeaseTime \in Nat \ {0}
  BY TimeAssumption
<1>2. now \in Nat /\ now # -1
  OBVIOUS
<1>. QED  BY <1>1, <1>2 DEF Renewed, Row, NULL, Never

LEMMA CompletedRowInv ==
  ASSUME NEW t \in 1..Len(grants), NEW now, Owns(t, now), NEW j \in Jobs,
         j = grants[t].job, RowInv(j, jobs[j], grants)
  PROVE  RowInv(j, CompletedRow(j, t), grants)
BY DEF RowInv, CompletedRow, Released, Owns, Row, Statuses, Waiting, Terminal,
       NULL, Never, Newest

(* A lease granted for one job leaves the rows of the others as good as    *)
(* they were.                                                              *)
LEMMA AppendKeepsRowInv ==
  ASSUME NEW j \in Jobs, NEW row, NEW g \in Grant, grants \in Seq(Grant),
         RowInv(j, row, grants)
  PROVE  RowInv(j, row, Append(grants, g))
BY DEF RowInv, Newest, Row, Grant, NULL

-----------------------------------------------------------------------------
(* The tables a transaction can leave behind.                              *)

(* One row of a good table is replaced by a good row that has been tried   *)
(* as often; no lease is granted.                                          *)
LEMMA ReplaceRow ==
  ASSUME TableInv, GrantsInv, UNCHANGED grants,
         NEW j \in Jobs, NEW row, jobs' = [jobs EXCEPT ![j] = row],
         RowInv(j, row, grants), row.attempts = jobs[j].attempts
  PROVE  TableInv' /\ GrantsInv'
<1>1. row \in Row
  BY DEF RowInv
<1>2. jobs' \in [Jobs -> Row]
  BY <1>1 DEF TableInv
<1>3. \A k \in Jobs : jobs'[k] = IF k = j THEN row ELSE jobs[k]
  BY DEF TableInv
<1>4. \A k \in Jobs : RowInv(k, jobs'[k], grants)
  BY <1>3 DEF TableInv
<1>5. TableInv'
  BY <1>2, <1>4 DEF TableInv
<1>6. \A k \in Jobs : jobs'[k].attempts = jobs[k].attempts
  BY <1>3
<1>7. GrantsInv'
  BY <1>6 DEF GrantsInv, Grant
<1>. QED  BY <1>5, <1>7

LEMMA SweptTable ==
  ASSUME TableInv, NEW now \in Nat
  PROVE  /\ Swept(now) \in [Jobs -> Row]
         /\ \A j \in Jobs : /\ Swept(now)[j] = SweptRow(j, now)
                            /\ RowInv(j, Swept(now)[j], grants)
                            /\ Swept(now)[j].attempts = jobs[j].attempts
<1>1. \A j \in Jobs : Swept(now)[j] = SweptRow(j, now)
  BY DEF Swept
<1>2. \A j \in Jobs : RowInv(j, SweptRow(j, now), grants)
  BY SweptRowInv DEF TableInv
<1>3. ASSUME NEW j \in Jobs
      PROVE  SweptRow(j, now).attempts = jobs[j].attempts
  BY DEF TableInv, SweptRow, Released, Row
<1>4. \A j \in Jobs : SweptRow(j, now) \in Row
  BY <1>2 DEF RowInv
<1>. QED  BY <1>1, <1>2, <1>3, <1>4 DEF Swept

LEMMA SweepTable ==
  ASSUME TableInv, GrantsInv, UNCHANGED grants,
         NEW now \in Nat, jobs' = Swept(now)
  PROVE  TableInv' /\ GrantsInv'
<1>1. TableInv'
  BY SweptTable DEF TableInv
<1>2. \A j \in Jobs : jobs'[j].attempts = jobs[j].attempts
  BY SweptTable
<1>3. \A t \in 1..Len(grants) : grants[t].job \in Jobs
  BY GrantType
<1>4. \A t \in 1..Len(grants) :
        grants[t].attempt \in 1..jobs'[grants[t].job].attempts
  BY <1>2, <1>3 DEF GrantsInv
<1>5. GrantsInv'
  BY <1>4 DEF GrantsInv
<1>. QED  BY <1>1, <1>5

LEMMA ClaimTable ==
  ASSUME TableInv, GrantsInv, ClockInv, NEW c \in Callers, NEW w \in Workers,
         Claim(c, w)
  PROVE  TableInv' /\ GrantsInv'
<1>. DEFINE now   == calls[c]
            table == Swept(now)
<1>1. now \in Nat
  BY DEF Claim, EndCall, ClockInv, Idle
<1>2. PICK j \in Jobs :
        /\ First(table, now, j)
        /\ grants' = Append(grants, [job |-> j, worker |-> w,
                                     attempt |-> table[j].attempts + 1])
        /\ jobs' = [table EXCEPT ![j] = LeasedRow(@, w, Len(grants) + 1, now)]
  BY DEF Claim
<1>. DEFINE g == [job |-> j, worker |-> w, attempt |-> table[j].attempts + 1]
<1>3. /\ table \in [Jobs -> Row]
      /\ \A k \in Jobs : /\ RowInv(k, table[k], grants)
                         /\ table[k].attempts = jobs[k].attempts
  BY <1>1, SweptTable
<1>4. table[j].status \in Waiting
  BY <1>2 DEF First, Ready
<1>. HIDE DEF table, now
<1>5. g \in Grant
  BY <1>3 DEF Grant, Row
<1>6. RowInv(j, LeasedRow(table[j], w, Len(grants) + 1, now), grants')
  BY <1>1, <1>2, <1>3, <1>4, LeasedRowInv
<1>7. \A k \in Jobs : RowInv(k, table[k], grants')
  BY <1>2, <1>3, <1>5, AppendKeepsRowInv DEF GrantsInv
<1>8. \A k \in Jobs : jobs'[k] = IF k = j
                                 THEN LeasedRow(table[j], w, Len(grants) + 1, now)
                                 ELSE table[k]
  BY <1>2, <1>3
<1>9. TableInv'
  <2>1. jobs' \in [Jobs -> Row]
    BY <1>2, <1>3, <1>6 DEF RowInv
  <2>. QED  BY <1>6, <1>7, <1>8, <2>1 DEF TableInv
<1>10. GrantsInv'
  <2>1. /\ grants' \in Seq(Grant)
        /\ Len(grants') = Len(grants) + 1
        /\ grants'[Len(grants) + 1] = g
        /\ \A t \in 1..Len(grants) : grants'[t] = grants[t]
    BY <1>2, <1>5 DEF GrantsInv
  <2>2. /\ jobs'[j].attempts = jobs[j].attempts + 1
        /\ \A k \in Jobs \ {j} : jobs'[k].attempts = jobs[k].attempts
    <3>1. table[j] \in Row
      BY <1>3
    <3>2. LeasedRow(table[j], w, Len(grants) + 1, now).attempts
            = table[j].attempts + 1
      BY <3>1 DEF LeasedRow, Renewed, Row
    <3>. QED  BY <1>3, <1>8, <3>2
  <2>3. \A k \in Jobs : jobs[k].attempts \in Nat
    BY DEF TableInv, Row
  <2>4. \A t \in 1..Len(grants) : grants[t] \in Grant
    BY DEF GrantsInv
  <2>5. g.job = j /\ g.attempt = jobs[j].attempts + 1
    BY <1>3
  <2>6. \A t \in 1..Len(grants') :
          grants'[t].attempt \in 1..jobs'[grants'[t].job].attempts
    <3>. SUFFICES ASSUME NEW t \in 1..Len(grants')
                  PROVE  grants'[t].attempt \in 1..jobs'[grants'[t].job].attempts
      OBVIOUS
    <3>1. CASE t = Len(grants) + 1
      BY <2>1, <2>2, <2>3, <2>5, <3>1
    <3>2. CASE t \in 1..Len(grants)
      <4>1. /\ grants'[t] = grants[t]
            /\ grants[t].job \in Jobs
            /\ grants[t].attempt \in 1..jobs[grants[t].job].attempts
        BY <2>1, <2>4, <3>2 DEF GrantsInv, Grant
      <4>2. /\ jobs[grants[t].job].attempts \in Nat
            /\ jobs'[grants[t].job].attempts
                 \in {jobs[grants[t].job].attempts, jobs[grants[t].job].attempts + 1}
        BY <2>2, <2>3, <4>1
      <4>. QED  BY <4>1, <4>2
    <3>. QED  BY <2>1, <3>1, <3>2 DEF GrantsInv
  <2>7. ASSUME NEW s \in 1..Len(grants'), NEW t \in 1..Len(grants'),
               grants'[s].job = grants'[t].job, s < t
        PROVE  grants'[s].attempt < grants'[t].attempt
    <3>1. CASE t = Len(grants) + 1
      <4>1. /\ s \in 1..Len(grants)
            /\ grants'[s] = grants[s]
            /\ grants[s].job = j
            /\ grants[s].attempt \in 1..jobs[j].attempts
        BY <2>1, <2>5, <2>7, <3>1 DEF GrantsInv
      <4>2. grants'[t].attempt = jobs[j].attempts + 1
        BY <2>1, <2>5, <3>1
      <4>. QED  BY <2>3, <4>1, <4>2
    <3>2. CASE t \in 1..Len(grants)
      BY <2>1, <2>7, <3>2 DEF GrantsInv
    <3>. QED  BY <2>1, <3>1, <3>2 DEF GrantsInv
  <2>. QED  BY <2>1, <2>6, <2>7 DEF GrantsInv
<1>. QED  BY <1>9, <1>10

-----------------------------------------------------------------------------
(* The invariants hold: each transaction of a caller leaves a good table.  *)

LEMMA CallKeepsClock ==
  ASSUME ClockInv, NEW c \in Callers, NEW now, EndCall(c, now)
  PROVE  now \in Nat /\ now <= clock /\ ClockInv'
BY DEF ClockInv, EndCall, Idle

LEMMA Invariance == IInv /\ [Next]_vars => IInv'
<1>. SUFFICES ASSUME TableInv, GrantsInv, ClockInv, [Next]_vars
              PROVE  TableInv' /\ GrantsInv' /\ ClockInv'
  BY Parts, PTL
<1>1. CASE Tick
  <2>1. TableInv' /\ GrantsInv'
    BY <1>1 DEF Tick, TableInv, GrantsInv
  <2>2. ClockInv'
    BY <1>1 DEF Tick, ClockInv, Idle
  <2>. QED  BY <2>1, <2>2
<1>2. CASE UNCHANGED vars
  BY <1>2 DEF vars, TableInv, GrantsInv, ClockInv
<1>3. ASSUME NEW c \in Callers, BeginCall(c)
      PROVE  TableInv' /\ GrantsInv' /\ ClockInv'
  <2>1. TableInv' /\ GrantsInv'
    BY <1>3 DEF BeginCall, TableInv, GrantsInv
  <2>2. ClockInv'
    BY <1>3 DEF BeginCall, ClockInv
  <2>. QED  BY <2>1, <2>2
<1>4. ASSUME NEW dying \in SUBSET Callers, AbortCalls(dying)
      PROVE  TableInv' /\ GrantsInv' /\ ClockInv'
  <2>1. TableInv' /\ GrantsInv'
    BY <1>4 DEF AbortCalls, TableInv, GrantsInv
  <2>2. calls' \in [Callers -> Nat \cup {Idle}] /\ UNCHANGED clock
    BY <1>4 DEF AbortCalls, ClockInv
  <2>3. ASSUME NEW c \in Callers
        PROVE  calls'[c] = calls[c] \/ calls'[c] = Idle
    BY <1>4, <2>3 DEF AbortCalls
  <2>4. ClockInv'
    BY <2>2, <2>3 DEF ClockInv, Idle
  <2>. QED  BY <2>1, <2>4
<1>5. ASSUME NEW c \in Callers, Sweep(c) \/ ClaimNothing(c)
      PROVE  TableInv' /\ GrantsInv' /\ ClockInv'
  BY <1>5, CallKeepsClock, SweepTable DEF Sweep, ClaimNothing
<1>6. ASSUME NEW c \in Callers, NEW w \in Workers, Claim(c, w)
      PROVE  TableInv' /\ GrantsInv' /\ ClockInv'
  <2>1. ClockInv'
    BY <1>6, CallKeepsClock DEF Claim
  <2>. QED  BY <1>6, <2>1, ClaimTable
<1>7. ASSUME NEW c \in Callers, NEW j \in Jobs, Enqueue(c, j) \/ Cancel(c, j)
      PROVE  TableInv' /\ GrantsInv' /\ ClockInv'
  <2>1. ClockInv' /\ calls[c] \in Nat
    BY <1>7, CallKeepsClock DEF Enqueue, Cancel
  <2>2. jobs[j] \in Row /\ RowInv(j, jobs[j], grants)
    BY DEF TableInv
  <2>3. CASE Enqueue(c, j)
    <3>. DEFINE row == [jobs[j] EXCEPT !.status = "QUEUED", !.created = calls[c]]
    <3>1. jobs[j].status = "ABSENT" /\ UNCHANGED grants
          /\ jobs' = [jobs EXCEPT ![j] = row]
      BY <2>3, <2>2 DEF Enqueue, TableInv
    <3>2. RowInv(j, row, grants) /\ row.attempts = jobs[j].attempts
      BY <2>1, <2>2, <3>1 DEF RowInv, Row, Statuses, Waiting, Terminal, Newest
    <3>. HIDE DEF row
    <3>. QED  BY <2>1, <3>1, <3>2, ReplaceRow
  <2>4. CASE Cancel(c, j)
    <3>. DEFINE row == [jobs[j] EXCEPT !.status = "CANCELLED"]
    <3>1. jobs[j].status \in Waiting /\ UNCHANGED grants
          /\ jobs' = [jobs EXCEPT ![j] = row]
      BY <2>4, <2>2 DEF Cancel, TableInv
    <3>2. RowInv(j, row, grants) /\ row.attempts = jobs[j].attempts
      BY <2>2, <3>1 DEF RowInv, Row, Statuses, Waiting, Terminal, Newest
    <3>. HIDE DEF row
    <3>. QED  BY <2>1, <3>1, <3>2, ReplaceRow
  <2>. QED  BY <1>7, <2>3, <2>4
<1>8. ASSUME NEW c \in Callers, NEW t \in DOMAIN grants,
             \/ Heartbeat(c, t) \/ Complete(c, t)
             \/ \E retryable \in BOOLEAN, delay \in RetryDelays :
                  Fail(c, t, retryable, delay)
      PROVE  TableInv' /\ GrantsInv' /\ ClockInv'
  <2>. DEFINE now == calls[c]
              j   == grants[t].job
  <2>1. ClockInv' /\ now \in Nat
    BY <1>8, CallKeepsClock DEF Heartbeat, Complete, Fail
  <2>2. t \in 1..Len(grants) /\ j \in Jobs
    BY GrantType
  <2>3. Owns(t, now) /\ UNCHANGED grants
    BY <1>8 DEF Heartbeat, Complete, Fail
  <2>4. jobs[j] \in Row /\ RowInv(j, jobs[j], grants)
    BY <2>2 DEF TableInv
  <2>5. CASE Heartbeat(c, t)
    <3>. DEFINE row == Renewed(jobs[j], now)
    <3>1. jobs' = [jobs EXCEPT ![j] = row]
      BY <2>2, <2>4, <2>5 DEF Heartbeat, TableInv
    <3>2. jobs[j].status = "LEASED"
      BY <2>3 DEF Owns
    <3>3. /\ row \in Row /\ row.attempts = jobs[j].attempts
          /\ row.expires # NULL /\ row.heartbeat # Never
          /\ row.status = jobs[j].status /\ row.owner = jobs[j].owner
          /\ row.token = jobs[j].token /\ row.result = jobs[j].result
      BY <2>1, <2>4, RenewedRow
    <3>. HIDE DEF row
    <3>4. RowInv(j, row, grants)
      BY <2>4, <3>2, <3>3 DEF RowInv, Newest
    <3>. QED  BY <2>1, <2>2, <2>3, <3>1, <3>3, <3>4, ReplaceRow
  <2>6. CASE Complete(c, t)
    <3>1. jobs' = [jobs EXCEPT ![j] = CompletedRow(j, t)]
      BY <2>6 DEF Complete
    <3>2. RowInv(j, CompletedRow(j, t), grants)
      BY <2>2, <2>3, <2>4, CompletedRowInv
    <3>3. CompletedRow(j, t).attempts = jobs[j].attempts
      BY <2>4 DEF CompletedRow, Released, Row
    <3>. QED  BY <2>1, <2>2, <2>3, <3>1, <3>2, <3>3, ReplaceRow
  <2>7. ASSUME NEW retryable \in BOOLEAN, NEW delay \in RetryDelays,
               Fail(c, t, retryable, delay)
        PROVE  TableInv' /\ GrantsInv' /\ ClockInv'
    <3>1. jobs' = [jobs EXCEPT ![j] = FailedRow(j, retryable, now + delay)]
      BY <2>7 DEF Fail
    <3>2. now + delay \in Nat
      BY <2>1, TimeAssumption
    <3>3. RowInv(j, FailedRow(j, retryable, now + delay), grants)
      BY <2>2, <2>3, <2>4, <3>2, FailedRowInv
    <3>4. FailedRow(j, retryable, now + delay).attempts = jobs[j].attempts
      BY <2>4 DEF FailedRow, Released, Row
    <3>. QED  BY <2>1, <2>2, <2>3, <3>1, <3>3, <3>4, ReplaceRow
  <2>. QED  BY <1>8, <2>5, <2>6, <2>7
<1>. QED  BY <1>1, <1>2, <1>3, <1>4, <1>5, <1>6, <1>7, <1>8 DEF Next

LEMMA InitIInv == Init => IInv
<1>. SUFFICES ASSUME Init
              PROVE  TableInv /\ GrantsInv /\ ClockInv
  BY Parts
<1>1. NoRow \in Row
  BY DEF NoRow, Row, Statuses, NULL
<1>2. TableInv
  BY <1>1, AttemptsAssumption
     DEF Init, TableInv, RowInv, NoRow, Waiting, NULL
<1>3. GrantsInv /\ ClockInv
  BY DEF Init, GrantsInv, ClockInv, Idle
<1>. QED  BY <1>2, <1>3

(* All invariants of the queue at once, the inductive one.                 *)
THEOREM Inductive == Spec => []IInv
<1>. QED  BY InitIInv, Invariance, PTL DEF Spec

(* Every variable of the queue keeps its type.                             *)
THEOREM TypeCorrect == Spec => []TypeOK
<1>1. IInv => TypeOK
  BY DEF IInv
<1>. QED  BY <1>1, Inductive, PTL

(* Only the newest lease of a job owns its row, and a stored result is the *)
(* result of the newest lease: a fenced-off worker cannot complete a job.  *)
THEOREM Fencing == Spec => []NewestLeaseWins
<1>1. IInv => NewestLeaseWins
  BY DEF IInv
<1>. QED  BY <1>1, Inductive, PTL

(* The CHECK of the table holds: lease columns are set exactly while leased, *)
(* so no transaction of the queue is refused by SQLite on that account.      *)
THEOREM LeaseColumnsHold == Spec => []LeaseColumns
<1>1. IInv => LeaseColumns
  BY DEF IInv
<1>. QED  BY <1>1, Inductive, PTL

(* No attempt number of a job is granted twice or beyond the budget.       *)
THEOREM UniqueAttempts == Spec => []AttemptsAreUnique
<1>1. IInv => AttemptsAreUnique
  BY DEF IInv
<1>. QED  BY <1>1, Inductive, PTL

(* A waiting job always has an attempt left for claim() to use.            *)
THEOREM NoParkedJob == Spec => []WaitingIsClaimable
<1>1. IInv => WaitingIsClaimable
  BY DEF IInv
<1>. QED  BY <1>1, Inductive, PTL

-----------------------------------------------------------------------------
(* Action properties.  What a step does to the row of one job:             *)

RowStep(j) ==
  \/ jobs'[j] = jobs[j]
  \/ \E now \in Nat : now <= clock /\ Expired(jobs[j], now)
                      /\ jobs'[j] = SweptRow(j, now)
  \/ \E now \in Nat, w \in Workers :
       /\ now <= clock
       /\ SweptRow(j, now).status \in Waiting
       /\ SweptRow(j, now).attempts < MaxAttempts[j]
       /\ grants' = Append(grants, [job |-> j, worker |-> w,
                          attempt |-> SweptRow(j, now).attempts + 1])
       /\ jobs'[j] = LeasedRow(SweptRow(j, now), w, Len(grants) + 1, now)
  \/ /\ jobs[j].status = "ABSENT"
     /\ \E now \in Nat :
          jobs'[j] = [jobs[j] EXCEPT !.status = "QUEUED", !.created = now]
  \/ /\ jobs[j].status \in Waiting
     /\ jobs'[j] = [jobs[j] EXCEPT !.status = "CANCELLED"]
  \/ \E t \in DOMAIN grants, now \in Nat :
       /\ Owns(t, now) /\ grants[t].job = j
       /\ \/ jobs'[j] = Renewed(jobs[j], now)
          \/ jobs'[j] = CompletedRow(j, t)
          \/ \E retryable \in BOOLEAN, available \in Nat :
               jobs'[j] = FailedRow(j, retryable, available)

(* The list of leases only ever grows, one at a time.                      *)
GrantsStep == \/ UNCHANGED grants
              \/ \E g \in Grant : grants' = Append(grants, g)

LEMMA RowSteps ==
  ASSUME IInv, [Next]_vars, NEW j \in Jobs
  PROVE  RowStep(j) /\ GrantsStep
<1>. USE Parts
<1>1. jobs \in [Jobs -> Row] /\ ClockInv
  BY DEF TableInv
<1>2. CASE UNCHANGED vars
  BY <1>2 DEF vars, RowStep, GrantsStep
<1>3. CASE Tick
  BY <1>3 DEF Tick, RowStep, GrantsStep
<1>4. ASSUME \/ \E c \in Callers : BeginCall(c)
             \/ \E dying \in SUBSET Callers : AbortCalls(dying)
      PROVE  RowStep(j) /\ GrantsStep
  BY <1>4 DEF BeginCall, AbortCalls, RowStep, GrantsStep
<1>5. ASSUME NEW c \in Callers, Sweep(c) \/ ClaimNothing(c)
      PROVE  RowStep(j) /\ GrantsStep
  <2>1. /\ calls[c] \in Nat /\ calls[c] <= clock
        /\ jobs'[j] = SweptRow(j, calls[c]) /\ UNCHANGED grants
    BY <1>1, <1>5, CallKeepsClock DEF Sweep, ClaimNothing, Swept
  <2>2. ~Expired(jobs[j], calls[c]) => SweptRow(j, calls[c]) = jobs[j]
    BY DEF SweptRow
  <2>. QED  BY <2>1, <2>2 DEF RowStep, GrantsStep
<1>6. ASSUME NEW c \in Callers, NEW w \in Workers, Claim(c, w)
      PROVE  RowStep(j) /\ GrantsStep
  <2>. DEFINE now == calls[c]
  <2>1. now \in Nat /\ now <= clock
    BY <1>1, <1>6, CallKeepsClock DEF Claim
  <2>2. PICK k \in Jobs :
          /\ First(Swept(now), now, k)
          /\ grants' = Append(grants, [job |-> k, worker |-> w,
                                       attempt |-> Swept(now)[k].attempts + 1])
          /\ jobs' = [Swept(now) EXCEPT
                        ![k] = LeasedRow(@, w, Len(grants) + 1, now)]
    BY <1>6 DEF Claim
  <2>3. /\ Swept(now)[k] = SweptRow(k, now) /\ Swept(now)[j] = SweptRow(j, now)
        /\ Swept(now)[k] \in Row
    BY <2>1, SweptTable
  <2>4. [job |-> k, worker |-> w, attempt |-> Swept(now)[k].attempts + 1] \in Grant
    BY <2>3 DEF Grant, Row
  <2>5. GrantsStep
    BY <2>2, <2>4 DEF GrantsStep
  <2>6. CASE j = k
    <3>1. SweptRow(j, now).status \in Waiting
          /\ SweptRow(j, now).attempts < MaxAttempts[j]
      BY <2>2, <2>3, <2>6 DEF First, Ready
    <3>2. jobs'[j] = LeasedRow(SweptRow(j, now), w, Len(grants) + 1, now)
      BY <2>2, <2>3, <2>6 DEF Swept
    <3>. QED  BY <2>1, <2>2, <2>3, <2>5, <2>6, <3>1, <3>2 DEF RowStep
  <2>7. CASE j # k
    <3>1. jobs'[j] = SweptRow(j, now)
      BY <2>2, <2>3, <2>7 DEF Swept
    <3>2. ~Expired(jobs[j], now) => SweptRow(j, now) = jobs[j]
      BY DEF SweptRow
    <3>. QED  BY <2>1, <2>5, <3>1, <3>2 DEF RowStep
  <2>. QED  BY <2>6, <2>7
<1>7. ASSUME NEW c \in Callers, NEW k \in Jobs, Enqueue(c, k) \/ Cancel(c, k)
      PROVE  RowStep(j) /\ GrantsStep
  <2>1. calls[c] \in Nat /\ UNCHANGED grants
    BY <1>1, <1>7, CallKeepsClock DEF Enqueue, Cancel
  <2>2. \/ jobs'[j] = jobs[j]
        \/ /\ jobs[j].status = "ABSENT"
           /\ jobs'[j] = [jobs[j] EXCEPT !.status = "QUEUED", !.created = calls[c]]
        \/ /\ jobs[j].status \in Waiting
           /\ jobs'[j] = [jobs[j] EXCEPT !.status = "CANCELLED"]
    BY <1>1, <1>7 DEF Enqueue, Cancel
  <2>. QED  BY <2>1, <2>2 DEF RowStep, GrantsStep
<1>8. ASSUME NEW c \in Callers, NEW t \in DOMAIN grants,
             \/ Heartbeat(c, t) \/ Complete(c, t)
             \/ \E retryable \in BOOLEAN, delay \in RetryDelays :
                  Fail(c, t, retryable, delay)
      PROVE  RowStep(j) /\ GrantsStep
  <2>1. calls[c] \in Nat /\ UNCHANGED grants /\ Owns(t, calls[c])
    BY <1>1, <1>8, CallKeepsClock DEF Heartbeat, Complete, Fail
  <2>2. \A delay \in RetryDelays : calls[c] + delay \in Nat
    BY <2>1, TimeAssumption
  <2>3. \/ jobs'[j] = jobs[j]
        \/ /\ grants[t].job = j
           /\ \/ jobs'[j] = Renewed(jobs[j], calls[c])
              \/ jobs'[j] = CompletedRow(j, t)
              \/ \E retryable \in BOOLEAN, available \in Nat :
                   jobs'[j] = FailedRow(j, retryable, available)
    BY <1>1, <1>8, <2>2 DEF Heartbeat, Complete, Fail
  <2>. QED  BY <2>1, <2>3 DEF RowStep, GrantsStep
<1>. QED  BY <1>2, <1>3, <1>4, <1>5, <1>6, <1>7, <1>8 DEF Next

LEMMA TerminalStep ==
  ASSUME IInv, [Next]_vars, NEW j \in Jobs, jobs[j].status \in Terminal
  PROVE  jobs'[j] = jobs[j]
<1>1. RowStep(j) /\ jobs[j].status \notin Waiting \cup {"LEASED", "ABSENT"}
  BY RowSteps DEF Terminal, Waiting
<1>2. \A now : SweptRow(j, now) = jobs[j]
  BY <1>1 DEF SweptRow, Expired
<1>. QED  BY <1>1, <1>2 DEF RowStep, Owns

(* SUCCEEDED, DEAD and CANCELLED rows are never written again.             *)
THEOREM TerminalRowsAreFinal == Spec => TerminalIsFinal
<1>1. IInv /\ [Next]_vars => [\A j \in Jobs :
         jobs[j].status \in Terminal => jobs'[j] = jobs[j]]_vars
  BY TerminalStep
<1>. QED  BY <1>1, Inductive, PTL DEF Spec, TerminalIsFinal

LEMMA LeaseStep ==
  ASSUME IInv, [Next]_vars, NEW j \in Jobs, jobs[j].status = "LEASED",
         jobs'[j].token # jobs[j].token, jobs'[j].status # "SUCCEEDED",
         jobs'[j].error = "lease_expired"
  PROVE  jobs[j].expires <= clock
<1>1. RowStep(j) /\ jobs[j] \in Row /\ clock \in Nat
  BY RowSteps, Parts DEF TableInv, ClockInv
<1>2. ASSUME NEW now \in Nat, now <= clock, Expired(jobs[j], now)
      PROVE  jobs[j].expires <= clock
  BY <1>1, <1>2 DEF Expired, Row
<1>3. ASSUME NEW now \in Nat, now <= clock, SweptRow(j, now).status \in Waiting
      PROVE  jobs[j].expires <= clock
  <2>1. Expired(jobs[j], now)
    BY <1>3 DEF SweptRow, Waiting
  <2>. QED  BY <1>2, <1>3, <2>1
<1>4. ASSUME NEW t \in DOMAIN grants, NEW now \in Nat,
             \/ jobs'[j] = Renewed(jobs[j], now)
             \/ jobs'[j] = CompletedRow(j, t)
             \/ \E retryable \in BOOLEAN, available \in Nat :
                  jobs'[j] = FailedRow(j, retryable, available)
      PROVE  FALSE
  <2>1. jobs'[j] # Renewed(jobs[j], now)
    BY <1>1 DEF Renewed, Row
  <2>2. jobs'[j] # CompletedRow(j, t)
    BY <1>1 DEF CompletedRow, Released, Row
  <2>3. \A retryable \in BOOLEAN, available \in Nat :
          jobs'[j] # FailedRow(j, retryable, available)
    BY <1>1 DEF FailedRow, Released, Row
  <2>. QED  BY <1>4, <2>1, <2>2, <2>3
<1>5. jobs[j].status \notin Waiting \cup {"ABSENT"}
  BY DEF Waiting
<1>. QED  BY <1>1, <1>2, <1>3, <1>4, <1>5 DEF RowStep

(* No sweep takes a lease before it has run out by the clock on the wall.  *)
THEOREM LeasesAreHonoured == Spec => LeaseIsHonoured
<1>1. IInv /\ [Next]_vars => [\A j \in Jobs :
        (/\ jobs[j].status = "LEASED"
         /\ jobs'[j].token # jobs[j].token
         /\ jobs'[j].status # "SUCCEEDED"
         /\ jobs'[j].error = "lease_expired") => jobs[j].expires <= clock]_vars
  BY LeaseStep
<1>. QED  BY <1>1, Inductive, PTL DEF Spec, LeaseIsHonoured

-----------------------------------------------------------------------------
(* The queue implements JobLifecycle.                                      *)

(* What LifeOf makes of a row and the leases granted so far.               *)
LifeIn(row, gr) == [phase  |-> Phase(row.status),
                    tries  |-> row.attempts,
                    answer |-> IF row.result = NULL
                               THEN 0 ELSE gr[row.result].attempt]

LEMMA LifeType ==
  ASSUME NEW j \in Jobs, NEW row, NEW gr, RowInv(j, row, gr)
  PROVE  /\ LifeIn(row, gr) \in Lifecycle!Life
         /\ LifeIn(row, gr).phase = Phase(row.status)
         /\ LifeIn(row, gr).tries = row.attempts
         /\ LifeIn(row, gr).answer = IF row.status = "SUCCEEDED"
                                     THEN row.attempts ELSE 0
<1>1. row \in Row
  BY DEF RowInv
<1>2. Phase(row.status)
        \in {"absent", "waiting", "running", "done", "dead", "cancelled"}
  BY <1>1 DEF Phase, Row, Statuses, Waiting, Terminal
<1>3. row.status = "SUCCEEDED" => /\ row.result # NULL
                                  /\ gr[row.result].attempt = row.attempts
  BY DEF RowInv, Newest, NULL
<1>4. row.status # "SUCCEEDED" => row.result = NULL
  BY DEF RowInv
<1>5. row.attempts \in Nat
  BY <1>1 DEF Row
<1>. QED  BY <1>2, <1>3, <1>4, <1>5 DEF LifeIn, Lifecycle!Life

LEMMA LifeInit == Init => Lifecycle!Init
<1>. SUFFICES ASSUME Init
              PROVE  [j \in Jobs |-> LifeOf(j)]
                       = [j \in Jobs |-> [phase |-> "absent", tries |-> 0,
                                         answer |-> 0]]
  BY DEF Lifecycle!Init
<1>1. Phase("ABSENT") = "absent"
  BY DEF Phase, Waiting
<1>2. ASSUME NEW j \in Jobs
      PROVE  LifeOf(j) = [phase |-> "absent", tries |-> 0, answer |-> 0]
  BY <1>1 DEF Init, LifeOf, NoRow, NULL
<1>. QED  BY <1>2

(* Each row a transaction writes is one step along the life of its job.    *)
LEMMA LifeStep ==
  ASSUME IInv, TableInv', [Next]_vars, NEW j \in Jobs
  PROVE  Lifecycle!Step(j, LifeOf(j), LifeOf(j)') /\ LifeOf(j)' \in Lifecycle!Life
<1>. DEFINE old == LifeIn(jobs[j], grants)
            new == LifeIn(jobs'[j], grants')
<1>1. LifeOf(j) = old /\ LifeOf(j)' = new
  BY DEF LifeOf, LifeIn
<1>2. RowStep(j) /\ jobs[j] \in Row /\ RowInv(j, jobs[j], grants)
  BY RowSteps, Parts DEF TableInv
<1>3. RowInv(j, jobs'[j], grants')
  BY DEF TableInv
<1>4. /\ old.phase = Phase(jobs[j].status)
      /\ old.tries = jobs[j].attempts
      /\ old.answer = IF jobs[j].status = "SUCCEEDED" THEN jobs[j].attempts ELSE 0
  BY <1>2, LifeType
<1>5. /\ new \in Lifecycle!Life
      /\ new.phase = Phase(jobs'[j].status)
      /\ new.tries = jobs'[j].attempts
      /\ new.answer = IF jobs'[j].status = "SUCCEEDED" THEN jobs'[j].attempts ELSE 0
  BY <1>3, LifeType
<1>6. old \in Lifecycle!Life
  BY <1>2, LifeType
<1>7. (jobs'[j].status = jobs[j].status /\ jobs'[j].attempts = jobs[j].attempts)
        => new = old
  BY <1>4, <1>5, <1>6 DEF Lifecycle!Life
<1>. HIDE DEF old, new
<1>8. jobs[j].attempts \in Nat /\ jobs[j].attempts <= MaxAttempts[j]
  BY <1>2 DEF RowInv, Row
<1>9. Lifecycle!Step(j, old, new)
  <2>. USE DEF Lifecycle!Step, Lifecycle!Goes, Lifecycle!Same, Phase, Waiting
  <2>1. CASE jobs'[j] = jobs[j]
    BY <1>7, <2>1
  <2>2. ASSUME NEW now \in Nat, Expired(jobs[j], now), jobs'[j] = SweptRow(j, now)
        PROVE  Lifecycle!Step(j, old, new)
    <3>1. /\ jobs[j].status = "LEASED"
          /\ jobs'[j].status = AfterAttempt(j, TRUE)
          /\ jobs'[j].attempts = jobs[j].attempts
      BY <1>2, <2>2 DEF SweptRow, Expired, Released, Row
    <3>2. /\ AfterAttempt(j, TRUE) \in {"DEAD", "RETRY_WAIT"}
          /\ AfterAttempt(j, TRUE) = "RETRY_WAIT"
               => jobs[j].attempts < MaxAttempts[j]
      BY <1>2, <1>8, AfterAttemptRange
    <3>. QED  BY <1>4, <1>5, <3>1, <3>2
           DEF Lifecycle!Retry, Lifecycle!GiveUp
  <2>3. ASSUME NEW now \in Nat, NEW w \in Workers,
               SweptRow(j, now).status \in Waiting,
               SweptRow(j, now).attempts < MaxAttempts[j],
               jobs'[j] = LeasedRow(SweptRow(j, now), w, Len(grants) + 1, now)
        PROVE  Lifecycle!Step(j, old, new)
    <3>1. /\ SweptRow(j, now).attempts = jobs[j].attempts
          /\ SweptRow(j, now) \in Row
          /\ jobs[j].status \in Waiting \cup {"LEASED"}
      <4>1. RowInv(j, SweptRow(j, now), grants)
        BY <1>2, SweptRowInv
      <4>. QED  BY <1>2, <2>3, <4>1 DEF SweptRow, Expired, Released, Row, RowInv
    <3>2. /\ jobs'[j].status = "LEASED"
          /\ jobs'[j].attempts = jobs[j].attempts + 1
      BY <2>3, <3>1 DEF LeasedRow, Renewed, Row
    <3>. QED  BY <1>4, <1>5, <2>3, <3>1, <3>2 DEF Lifecycle!Start
  <2>4. ASSUME jobs[j].status = "ABSENT", NEW now \in Nat,
               jobs'[j] = [jobs[j] EXCEPT !.status = "QUEUED", !.created = now]
        PROVE  Lifecycle!Step(j, old, new)
    <3>1. jobs'[j].status = "QUEUED" /\ jobs'[j].attempts = jobs[j].attempts
      BY <1>2, <2>4 DEF Row
    <3>. QED  BY <1>4, <1>5, <2>4, <3>1 DEF Lifecycle!Submit
  <2>5. ASSUME jobs[j].status \in Waiting,
               jobs'[j] = [jobs[j] EXCEPT !.status = "CANCELLED"]
        PROVE  Lifecycle!Step(j, old, new)
    <3>1. jobs'[j].status = "CANCELLED" /\ jobs'[j].attempts = jobs[j].attempts
      BY <1>2, <2>5 DEF Row
    <3>. QED  BY <1>4, <1>5, <2>5, <3>1 DEF Lifecycle!Withdraw
  <2>6. ASSUME NEW t \in DOMAIN grants, NEW now \in Nat, Owns(t, now),
               grants[t].job = j,
               \/ jobs'[j] = Renewed(jobs[j], now)
               \/ jobs'[j] = CompletedRow(j, t)
               \/ \E retryable \in BOOLEAN, available \in Nat :
                    jobs'[j] = FailedRow(j, retryable, available)
        PROVE  Lifecycle!Step(j, old, new)
    <3>1. jobs[j].status = "LEASED"
      BY <2>6 DEF Owns
    <3>2. CASE jobs'[j] = Renewed(jobs[j], now)
      <4>1. jobs'[j].status = jobs[j].status /\ jobs'[j].attempts = jobs[j].attempts
        BY <1>2, <3>2 DEF Renewed, Row
      <4>. QED  BY <1>7, <4>1
    <3>3. CASE jobs'[j] = CompletedRow(j, t)
      <4>1. jobs'[j].status = "SUCCEEDED" /\ jobs'[j].attempts = jobs[j].attempts
        BY <1>2, <3>3 DEF CompletedRow, Released, Row
      <4>. QED  BY <1>4, <1>5, <3>1, <4>1 DEF Lifecycle!Answer
    <3>4. ASSUME NEW retryable \in BOOLEAN, NEW available \in Nat,
                 jobs'[j] = FailedRow(j, retryable, available)
          PROVE  Lifecycle!Step(j, old, new)
      <4>1. /\ jobs'[j].status = AfterAttempt(j, retryable)
            /\ jobs'[j].attempts = jobs[j].attempts
        BY <1>2, <3>4 DEF FailedRow, Released, Row
      <4>2. /\ AfterAttempt(j, retryable) \in {"DEAD", "RETRY_WAIT"}
            /\ AfterAttempt(j, retryable) = "RETRY_WAIT"
                 => jobs[j].attempts < MaxAttempts[j]
        BY <1>2, <1>8, AfterAttemptRange
      <4>. QED  BY <1>4, <1>5, <3>1, <4>1, <4>2
             DEF Lifecycle!Retry, Lifecycle!GiveUp
    <3>. QED  BY <2>6, <3>2, <3>3, <3>4
  <2>. HIDE DEF Lifecycle!Step
  <2>. QED  BY <1>2, <2>1, <2>2, <2>3, <2>4, <2>5, <2>6 DEF RowStep
<1>. QED  BY <1>1, <1>5, <1>9

(* Every behaviour of the queue is a behaviour of JobLifecycle.            *)
THEOREM Refinement == Spec => ImplementsLifecycle
<1>1. IInv => TableInv
  BY Parts
<1>2. ASSUME IInv, TableInv', [Next]_vars
      PROVE  Lifecycle!Next
  BY <1>2, LifeStep DEF Lifecycle!Next
<1>. QED  BY <1>1, <1>2, LifeInit, Inductive, PTL
          DEF Spec, ImplementsLifecycle, Lifecycle!Spec
=============================================================================
