----------------------------- MODULE JobsProofs ------------------------------
(***************************************************************************)
(* What JobsQueue promises, and what its callers may rely on, for every    *)
(* set of keys, payloads and workers, every attempt limit, capacity and    *)
(* clock range: workers on their leases (JobsWorkers), callers with a key  *)
(* on its single effect (JobsIdempotency), callers who decide about copies *)
(* of jobs on what the queue will do (JobsPolicies).  What reports of      *)
(* progress say (JobsProgress) and what the bucket admits (JobsLimit) do   *)
(* not rest on the queue.                                                  *)
(*                                                                         *)
(* The argument: apart from Enqueue, every operation moves each job by one *)
(* of five moves (JobMove) and leaves the set of jobs alone (StepMoves).   *)
(* Each property is a fact about the moves and about Enqueue.  The callers *)
(* drive the queue by its own operations, so invariant and moves carry     *)
(* over.                                                                   *)
(***************************************************************************)
EXTENDS JobsWorkers, JobsIdempotency, JobsPolicies, JobsProgress, JobsLimit,
        FiniteSetTheorems, SequenceTheorems, WellFoundedInduction, TLAPS


\* What one operation may do to one job.
JobMove(old, new) ==
    \/ new = old
    \/ /\ old.status = "leased"
       /\ new = Released(old, "ready") \/ new = Released(old, "done")
    \/ /\ old.status \in {"ready", "leased"}
       /\ old.attempts = MaxAttempts
       /\ new = Released(old, "dead")
    \/ /\ old.status \in {"ready", "leased"}
       /\ old.attempts < MaxAttempts
       /\ \E w \in Workers, until \in 1..MaxNow : new = Leased(old, w, until)

AllMove ==
    /\ DOMAIN jobs' = DOMAIN jobs
    /\ jobs' = [k \in DOMAIN jobs |-> jobs'[k]]
    /\ next_seq' = next_seq
    /\ \A k \in DOMAIN jobs : JobMove(jobs[k], jobs'[k])

\* The inductive invariant: the checked invariants, and that the queue is finite,
\* without which its cardinality says nothing.
IInv == TypeOK /\ StateOK /\ IsFiniteSet(DOMAIN jobs)

-----------------------------------------------------------------------------
(***************************************************************************)
(* The moves.                                                              *)
(***************************************************************************)

\* Updating fields of a record within their sets, whatever the sets are.
LEMMA JobUpdate ==
    ASSUME NEW A, NEW B, NEW C, NEW D, NEW E, NEW F, NEW G,
           NEW old \in [seq : A, priority : B, payload : C, status : D,
                        attempts : E, owner : F, expires : G],
           NEW x \in D, NEW n \in E, NEW y \in F, NEW z \in G
    PROVE  /\ [old EXCEPT !.status = x, !.owner = y, !.expires = z]
                \in [seq : A, priority : B, payload : C, status : D,
                     attempts : E, owner : F, expires : G]
           /\ [old EXCEPT !.status = x, !.attempts = n, !.owner = y, !.expires = z]
                \in [seq : A, priority : B, payload : C, status : D,
                     attempts : E, owner : F, expires : G]
OBVIOUS

\* A job whose lease is cleared.
LEMMA ReleasedFields ==
    ASSUME NEW old \in Job, NEW status \in Statuses
    PROVE  LET new == Released(old, status)
           IN /\ new \in Job
              /\ new.status = status /\ new.owner = NoWorker /\ new.expires = 0
              /\ new.attempts = old.attempts /\ new.seq = old.seq
              /\ new.priority = old.priority /\ new.payload = old.payload
<1> DEFINE Owners == Workers \cup {NoWorker}
           Counts == 0..MaxAttempts
<1>1. NoWorker \in Owners /\ 0 \in Times /\ old.attempts \in Counts
  BY QueueConstants DEF Times, Job
<1>2. Job = [seq : Nat, priority : Priorities, payload : Payloads,
             status : Statuses, attempts : Counts, owner : Owners, expires : Times]
  BY DEF Job
<1> HIDE DEF Owners, Counts
<1>3. Released(old, status) \in Job
  BY <1>1, <1>2, JobUpdate DEF Released
<1>4. QED
  BY <1>3 DEF Released, Job

\* A job that is leased.
LEMMA LeasedFields ==
    ASSUME NEW old \in Job, NEW w \in Workers, NEW until \in 1..MaxNow,
           old.attempts < MaxAttempts
    PROVE  LET new == Leased(old, w, until)
           IN /\ new \in Job
              /\ new.status = "leased" /\ new.owner = w /\ new.expires = until
              /\ new.attempts = old.attempts + 1 /\ new.seq = old.seq
              /\ new.priority = old.priority /\ new.payload = old.payload
<1> DEFINE Owners == Workers \cup {NoWorker}
           Counts == 0..MaxAttempts
<1>1. w \in Owners /\ until \in Times /\ old.attempts + 1 \in Counts
  BY QueueConstants DEF Times, Job
<1>2. Job = [seq : Nat, priority : Priorities, payload : Payloads,
             status : Statuses, attempts : Counts, owner : Owners, expires : Times]
  BY DEF Job
<1>3. "leased" \in Statuses
  BY DEF Statuses
<1> HIDE DEF Owners, Counts
<1>4. Leased(old, w, until) \in Job
  BY <1>1, <1>2, <1>3, JobUpdate DEF Leased
<1>5. QED
  BY <1>4 DEF Leased, Job

\* A move keeps a job well formed and what enqueue stored of it.
LEMMA MoveKeepsJob ==
    ASSUME NEW old \in Job, JobOK(old), NEW new, JobMove(old, new)
    PROVE  /\ new \in Job /\ JobOK(new)
           /\ new.seq = old.seq
           /\ new.priority = old.priority /\ new.payload = old.payload
<1>1. CASE new = old
  BY <1>1
<1>2. ASSUME old.status = "leased", NEW status \in {"ready", "done"},
             new = Released(old, status)
      PROVE  /\ new \in Job /\ JobOK(new)
             /\ new.seq = old.seq
             /\ new.priority = old.priority /\ new.payload = old.payload
  BY <1>2, ReleasedFields DEF JobOK, Statuses
<1>3. CASE old.attempts = MaxAttempts /\ new = Released(old, "dead")
  BY <1>3, ReleasedFields DEF JobOK, Statuses
<1>4. ASSUME old.attempts < MaxAttempts,
             NEW w \in Workers, NEW until \in 1..MaxNow, new = Leased(old, w, until)
      PROVE  /\ new \in Job /\ JobOK(new)
             /\ new.seq = old.seq
             /\ new.priority = old.priority /\ new.payload = old.payload
  <2>1. old.attempts \in Nat
    BY QueueConstants DEF Job
  <2>2. QED
    BY <1>4, <2>1, LeasedFields DEF JobOK
<1>5. QED
  BY <1>1, <1>2, <1>3, <1>4 DEF JobMove

\* A claim leases one job, buries some and leaves the others.
LEMMA ClaimJobMoves ==
    ASSUME IInv, NEW w \in Workers, NEW now \in Times, NEW lease \in Leases,
           NEW k \in Keys, ClaimJob(w, now, lease, k)
    PROVE  AllMove
<1> USE QueueConstants DEF ClaimJob
<1>1. now + lease \in 1..MaxNow
  BY DEF Times, Leases, Fits
<1>2. ASSUME NEW j \in DOMAIN jobs
      PROVE  JobMove(jobs[j], jobs'[j])
  <2>1. jobs[j] \in Job /\ jobs[k] \in Job /\ k \in DOMAIN jobs
    BY DEF IInv, TypeOK, Claimable
  <2>2. CASE j = k
    <3>1. jobs'[j] = Leased(jobs[j], w, now + lease)
      BY <2>2
    <3>2. jobs[j].attempts < MaxAttempts /\ jobs[j].status \in {"ready", "leased"}
      BY <2>1, <2>2 DEF Exhausted, Claimable, Job
    <3>3. QED
      BY <1>1, <3>1, <3>2 DEF JobMove
  <2>3. CASE j # k /\ j \in Claimable(now) /\ Before(j, k)
    <3>1. jobs'[j] = Released(jobs[j], "dead")
      BY <2>3
    <3>2. ~ Before(k, j)
      BY <2>1, <2>3 DEF Before, Job, Priorities
    <3>3. Exhausted(j)
      BY <2>3, <3>2
    <3>4. jobs[j].attempts = MaxAttempts /\ jobs[j].status \in {"ready", "leased"}
      BY <2>1, <2>3, <3>3 DEF Exhausted, Claimable, Job
    <3>5. QED
      BY <3>1, <3>4 DEF JobMove
  <2>4. CASE j # k /\ ~ (j \in Claimable(now) /\ Before(j, k))
    BY <2>4 DEF JobMove
  <2>5. QED
    BY <2>2, <2>3, <2>4
<1>3. QED
  BY <1>2 DEF AllMove

\* A claim that finds nothing to lease only buries.
LEMMA ClaimNoneMoves ==
    ASSUME IInv, NEW now \in Times, NEW lease \in Leases, ClaimNone(now, lease)
    PROVE  AllMove
<1>1. ASSUME NEW j \in DOMAIN jobs
      PROVE  JobMove(jobs[j], jobs'[j])
  <2>1. jobs[j] \in Job
    BY DEF IInv, TypeOK
  <2>2. CASE j \in Claimable(now)
    <3>1. jobs'[j] = Released(jobs[j], "dead")
      BY <2>2 DEF ClaimNone
    <3>2. jobs[j].attempts = MaxAttempts /\ jobs[j].status \in {"ready", "leased"}
      BY <2>1, <2>2, QueueConstants DEF ClaimNone, Exhausted, Claimable, Job
    <3>3. QED
      BY <3>1, <3>2 DEF JobMove
  <2>3. CASE j \notin Claimable(now)
    BY <2>3 DEF ClaimNone, JobMove
  <2>4. QED
    BY <2>2, <2>3
<1>2. QED
  BY <1>1 DEF ClaimNone, AllMove

\* An ack finishes a job and a nack releases it; no other job moves.
LEMMA SettleMoves ==
    ASSUME IInv, NEW k \in Keys, NEW w \in Workers, NEW now \in Times,
           NEW status \in {"done", "ready"}, Settle(k, w, now, status)
    PROVE  AllMove
<1>1. jobs' = [jobs EXCEPT ![k] = Released(jobs[k], status)]
  BY DEF Settle
<1>2. jobs \in [DOMAIN jobs -> Job]
  BY DEF IInv, TypeOK
<1>3. DOMAIN jobs' = DOMAIN jobs /\ jobs' = [j \in DOMAIN jobs |-> jobs'[j]]
  BY <1>1, <1>2
<1>4. ASSUME NEW j \in DOMAIN jobs
      PROVE  JobMove(jobs[j], jobs'[j])
  BY <1>1, <1>2 DEF Settle, Held, JobMove
<1>5. QED
  BY <1>3, <1>4 DEF AllMove, Settle

\* A restart releases jobs and keeps their attempts.
LEMMA RestartMoves ==
    ASSUME IInv, NEW w \in Workers, NEW now \in Times, Restart(w, now)
    PROVE  AllMove
BY DEF Restart, Held, JobMove, AllMove

\* Every step of the queue enqueues one new job or moves the jobs it has.
LEMMA StepMoves ==
    ASSUME IInv, [Next]_queueVars
    PROVE  \/ AllMove
           \/ \E k \in Keys, p \in Priorities, d \in Payloads : Enqueue(k, p, d)
<1>1. CASE UNCHANGED queueVars
  <2>1. jobs \in [DOMAIN jobs -> Job]
    BY DEF IInv, TypeOK
  <2>2. QED
    BY <1>1, <2>1 DEF queueVars, AllMove, JobMove
<1>2. CASE \E k \in Keys, p \in Priorities, d \in Payloads : EnqueueAgain(k, p, d)
  BY <1>1, <1>2 DEF EnqueueAgain
<1>3. CASE \E k \in Keys, p \in Priorities, d \in Payloads : Enqueue(k, p, d)
  BY <1>3
<1>4. CASE \E w \in Workers, now \in Times, lease \in Leases, k \in Keys :
             ClaimJob(w, now, lease, k)
  BY <1>4, ClaimJobMoves
<1>5. CASE \E now \in Times, lease \in Leases : ClaimNone(now, lease)
  BY <1>5, ClaimNoneMoves
<1>6. CASE \E k \in Keys, w \in Workers, now \in Times : Ack(k, w, now)
  BY <1>6, SettleMoves DEF Ack
<1>7. CASE \E k \in Keys, w \in Workers, now \in Times : Nack(k, w, now)
  BY <1>7, SettleMoves DEF Nack
<1>8. CASE \E w \in Workers, now \in Times : Restart(w, now)
  BY <1>8, RestartMoves
<1>9. QED
  BY <1>1, <1>2, <1>3, <1>4, <1>5, <1>6, <1>7, <1>8 DEF Next

-----------------------------------------------------------------------------
(***************************************************************************)
(* The invariant.                                                          *)
(***************************************************************************)

\* The empty queue satisfies the invariant.
LEMMA InitIInv == Init => IInv
<1> SUFFICES ASSUME Init PROVE IInv
  OBVIOUS
<1>1. DOMAIN jobs = {} /\ jobs \in [DOMAIN jobs -> Job] /\ next_seq = 0
  BY DEF Init
<1>2. IsFiniteSet(DOMAIN jobs) /\ Cardinality(DOMAIN jobs) = 0
  BY <1>1, FS_EmptySet
<1>3. QED
  BY <1>1, <1>2, QueueConstants DEF IInv, TypeOK, StateOK

\* Moving jobs keeps the invariant: no job is added and no seq changes.
LEMMA MovesKeepIInv ==
    ASSUME IInv, AllMove
    PROVE  IInv'
<1>1. ASSUME NEW k \in DOMAIN jobs
      PROVE  jobs'[k] \in Job /\ JobOK(jobs'[k]) /\ jobs'[k].seq = jobs[k].seq
  BY MoveKeepsJob DEF IInv, TypeOK, StateOK, AllMove
<1>2. jobs' \in [DOMAIN jobs -> Job]
  BY <1>1 DEF AllMove
<1>3. QED
  BY <1>1, <1>2 DEF IInv, TypeOK, StateOK, AllMove, JobOK

\* A new job takes the next sequence number, which no job has yet.
LEMMA EnqueueKeepsIInv ==
    ASSUME IInv, NEW k \in Keys, NEW p \in Priorities, NEW d \in Payloads,
           Enqueue(k, p, d)
    PROVE  IInv'
<1> DEFINE new == [seq |-> next_seq, priority |-> p, payload |-> d,
                   status |-> "ready", attempts |-> 0,
                   owner |-> NoWorker, expires |-> 0]
<1>1. new \in Job /\ JobOK(new) /\ new.seq = next_seq
  BY QueueConstants DEF IInv, TypeOK, Job, JobOK, Times, Statuses
<1>2. /\ DOMAIN jobs' = DOMAIN jobs \cup {k}
      /\ jobs' = [j \in DOMAIN jobs' |-> jobs'[j]]
      /\ jobs'[k] = new
      /\ \A j \in DOMAIN jobs : j # k /\ jobs'[j] = jobs[j]
  BY DEF Enqueue
<1> HIDE DEF new
<1>3. /\ IsFiniteSet(DOMAIN jobs')
      /\ Cardinality(DOMAIN jobs') = Cardinality(DOMAIN jobs) + 1
  BY <1>2, FS_AddElement DEF IInv, Enqueue
<1>4. Cardinality(DOMAIN jobs') <= MaxJobs
  BY <1>3, FS_CardinalityType, QueueConstants DEF IInv, Enqueue
<1>5. jobs' \in [DOMAIN jobs' -> Job]
  BY <1>1, <1>2 DEF IInv, TypeOK
<1>6. next_seq' = next_seq + 1 /\ next_seq' \in 0..SeqLimit /\ next_seq \in Nat
  BY QueueConstants DEF IInv, TypeOK, Enqueue
<1>7. TypeOK'
  BY <1>2, <1>5, <1>6 DEF IInv, TypeOK
<1>8. ASSUME NEW j \in DOMAIN jobs
      PROVE  JobOK(jobs[j]) /\ jobs[j].seq < next_seq /\ jobs[j].seq \in Nat
  BY DEF IInv, TypeOK, StateOK, Job
<1>9. \A j \in DOMAIN jobs' : JobOK(jobs'[j]) /\ jobs'[j].seq < next_seq'
  BY <1>1, <1>2, <1>6, <1>8 DEF JobOK
<1>10. \A i, j \in DOMAIN jobs' : jobs'[i].seq = jobs'[j].seq => i = j
  BY <1>1, <1>2, <1>8, <1>6 DEF IInv, StateOK
<1>11. QED
  BY <1>3, <1>4, <1>7, <1>9, <1>10 DEF IInv, StateOK, JobOK

\* Every step keeps the invariant.
LEMMA NextIInv == IInv /\ [Next]_queueVars => IInv'
BY StepMoves, MovesKeepIInv, EnqueueKeepsIInv

\* The invariant holds in every reachable state of the queue.
LEMMA Invariance == Spec => []IInv
BY InitIInv, NextIInv, PTL DEF Spec

\* The state that every operation commits has the types and bounds that
\* _check_state asks for: no claim overruns the clock, no attempt the limit.
THEOREM TypeCorrect == Spec => []TypeOK
<1>1. IInv => TypeOK
  BY DEF IInv
<1>2. QED
  BY <1>1, Invariance, PTL

\* No sequence of requests makes the engine commit a state that its own
\* validation, or that of the restart, rejects as corrupt_queue.
THEOREM NeverCorrupt == Spec => []StateOK
<1>1. IInv => StateOK
  BY DEF IInv
<1>2. QED
  BY <1>1, Invariance, PTL

-----------------------------------------------------------------------------
(***************************************************************************)
(* What a step may never do.                                               *)
(***************************************************************************)

\* A move on a finished job is no move, and none rewrites what enqueue stored.
LEMMA MoveSettles ==
    ASSUME NEW old \in Job, JobOK(old), NEW new, JobMove(old, new),
           old.status \in {"done", "dead"}
    PROVE  new = old
BY DEF JobMove

\* A done or dead job stays as it is, no job disappears and what enqueue stored
\* is never overwritten, whatever the requests and their clocks.
THEOREM SettledStays == Spec => Settled
<1> DEFINE A == \A k \in DOMAIN jobs :
                  /\ k \in DOMAIN jobs'
                  /\ jobs[k].status \in {"done", "dead"} => jobs'[k] = jobs[k]
                  /\ jobs'[k].seq = jobs[k].seq
                  /\ jobs'[k].priority = jobs[k].priority
                  /\ jobs'[k].payload = jobs[k].payload
<1>1. ASSUME IInv, [Next]_queueVars
      PROVE  A
  <2>1. CASE AllMove
    BY <1>1, <2>1, MoveKeepsJob, MoveSettles
       DEF AllMove, IInv, TypeOK, StateOK
  <2>2. CASE \E k \in Keys, p \in Priorities, d \in Payloads : Enqueue(k, p, d)
    BY <2>2 DEF Enqueue
  <2>3. QED
    BY <1>1, <2>1, <2>2, StepMoves
<1>2. IInv /\ [Next]_queueVars => [A]_queueVars
  BY <1>1
<1>3. QED
  BY <1>2, Invariance, PTL DEF Spec, Settled

\* How a move relates the attempt count to the lease.
LEMMA MoveCharges ==
    ASSUME NEW old \in Job, JobOK(old), NEW new, JobMove(old, new)
    PROVE  IF new.status = "leased" /\ new # old
           THEN new.attempts = old.attempts + 1
           ELSE new.attempts = old.attempts
<1>1. CASE new = old
  BY <1>1
<1>2. ASSUME NEW status \in {"ready", "done", "dead"}, new = Released(old, status)
      PROVE  new.status # "leased" /\ new.attempts = old.attempts
  BY <1>2, ReleasedFields DEF Statuses
<1>3. ASSUME old.attempts < MaxAttempts,
             NEW w \in Workers, NEW until \in 1..MaxNow, new = Leased(old, w, until)
      PROVE  new.status = "leased" /\ new.attempts = old.attempts + 1
  BY <1>3, LeasedFields
<1>4. old.attempts \in Nat
  BY QueueConstants DEF Job
<1>5. QED
  BY <1>1, <1>2, <1>3, <1>4 DEF JobMove

\* An attempt count changes only when a claim leases that very job.
LEMMA ChargeIsClaim ==
    ASSUME IInv, [Next]_queueVars, NEW m \in DOMAIN jobs,
           jobs'[m].attempts # jobs[m].attempts
    PROVE  \E w \in Workers, now \in Times, lease \in Leases :
              m \in Keys /\ ClaimJob(w, now, lease, m)
<1>1. jobs[m] \in Job /\ m \in Keys
  BY DEF IInv, TypeOK
<1>2. ASSUME NEW status \in Statuses
      PROVE  jobs'[m] # jobs[m] /\ jobs'[m] # Released(jobs[m], status)
  BY <1>1, ReleasedFields
<1>3. ASSUME NEW w \in Workers, NEW now \in Times, NEW lease \in Leases,
             NEW k \in Keys, ClaimJob(w, now, lease, k)
      PROVE  m = k
  BY <1>2, <1>3 DEF ClaimJob, Statuses
<1>4. ASSUME NEW now \in Times, NEW lease \in Leases
      PROVE  ~ ClaimNone(now, lease)
  BY <1>2 DEF ClaimNone, Statuses
<1>5. ASSUME NEW k \in Keys, NEW w \in Workers, NEW now \in Times,
             NEW status \in {"done", "ready"}
      PROVE  ~ Settle(k, w, now, status)
  BY <1>2 DEF Settle, Statuses
<1>6. ASSUME NEW w \in Workers, NEW now \in Times
      PROVE  ~ Restart(w, now)
  BY <1>2 DEF Restart, Statuses
<1>7. ASSUME NEW k \in Keys, NEW p \in Priorities, NEW d \in Payloads
      PROVE  ~ Enqueue(k, p, d)
  BY DEF Enqueue
<1>8. ~ UNCHANGED queueVars
  BY DEF queueVars
<1>9. QED
  BY <1>1, <1>3, <1>4, <1>5, <1>6, <1>7, <1>8
     DEF Next, EnqueueAgain, Ack, Nack

\* Attempts are charged by leases and by nothing else, one job at a time: an
\* ack, a nack, a restart and a death keep the count.
THEOREM EveryLeaseCharged == Spec => AttemptsCharged
<1> DEFINE Each == \A k \in DOMAIN jobs :
                     IF jobs'[k].status = "leased" /\ jobs'[k] # jobs[k]
                     THEN jobs'[k].attempts = jobs[k].attempts + 1
                     ELSE jobs'[k].attempts = jobs[k].attempts
           One  == \A j, k \in DOMAIN jobs :
                     jobs'[j].attempts # jobs[j].attempts
                       /\ jobs'[k].attempts # jobs[k].attempts => j = k
<1>1. ASSUME IInv, [Next]_queueVars
      PROVE  Each
  <2>1. CASE AllMove
    BY <1>1, <2>1, MoveCharges DEF AllMove, IInv, TypeOK, StateOK
  <2>2. CASE \E k \in Keys, p \in Priorities, d \in Payloads : Enqueue(k, p, d)
    BY <2>2 DEF Enqueue
  <2>3. QED
    BY <1>1, <2>1, <2>2, StepMoves
<1>2. ASSUME IInv, [Next]_queueVars
      PROVE  One
  <2>1. ASSUME NEW j \in DOMAIN jobs, NEW k \in DOMAIN jobs,
               jobs'[j].attempts # jobs[j].attempts,
               jobs'[k].attempts # jobs[k].attempts, j # k
        PROVE  FALSE
    <3>1. PICK w \in Workers, now \in Times, lease \in Leases :
             j \in Keys /\ ClaimJob(w, now, lease, j)
      BY <1>2, <2>1, ChargeIsClaim
    <3>2. jobs'[k] = jobs[k] \/ jobs'[k] = Released(jobs[k], "dead")
      BY <2>1, <3>1 DEF ClaimJob
    <3>3. QED
      BY <1>2, <2>1, <3>2, ReleasedFields DEF IInv, TypeOK, Statuses
  <2>2. QED
    BY <2>1
<1>3. IInv /\ [Next]_queueVars => [Each /\ One]_queueVars
  BY <1>1, <1>2
<1>4. QED
  BY <1>3, Invariance, PTL DEF Spec, AttemptsCharged

\* A claim never overtakes: the job it leases is more urgent than every job
\* that is still ready after it.
THEOREM NoOvertaking == Spec => ClaimInOrder
<1> DEFINE Sooner(k, j) ==
             \/ jobs[k].priority < jobs[j].priority
             \/ /\ jobs[k].priority = jobs[j].priority
                /\ jobs[k].seq < jobs[j].seq
           A == \A k \in DOMAIN jobs : jobs'[k].attempts > jobs[k].attempts =>
                  \A j \in DOMAIN jobs : jobs'[j].status = "ready" => Sooner(k, j)
<1>1. ASSUME IInv, [Next]_queueVars,
             NEW k \in DOMAIN jobs, jobs'[k].attempts > jobs[k].attempts,
             NEW j \in DOMAIN jobs, jobs'[j].status = "ready"
      PROVE  Sooner(k, j)
  <2>1. /\ jobs[j] \in Job /\ jobs[k] \in Job
        /\ jobs[j].attempts \in Nat /\ jobs[k].attempts \in Nat
        /\ jobs[j].seq = jobs[k].seq => j = k
    BY <1>1, QueueConstants DEF IInv, TypeOK, StateOK, Job
  <2>2. jobs'[k].attempts # jobs[k].attempts
    BY <1>1, <2>1, MoveCharges, StepMoves DEF IInv, TypeOK, StateOK, AllMove, Enqueue
  <2>3. PICK w \in Workers, now \in Times, lease \in Leases :
           k \in Keys /\ ClaimJob(w, now, lease, k)
    BY <1>1, <2>2, ChargeIsClaim
  <2>4. jobs'[k].status = "leased"
    <3>1. jobs'[k] = Leased(jobs[k], w, now + lease)
      BY <2>3 DEF ClaimJob
    <3>2. QED
      BY <2>1, <3>1 DEF Leased, Job
  <2>5. j # k /\ jobs'[j] = jobs[j]
    <3>1. Released(jobs[j], "dead").status = "dead"
      BY <2>1, ReleasedFields DEF Statuses
    <3>2. QED
      BY <1>1, <2>3, <2>4, <3>1 DEF ClaimJob
  <2>6. j \in Claimable(now)
    BY <1>1, <2>5 DEF Claimable
  <2>7. ~ Before(j, k)
    <3>1. Released(jobs[j], "dead").status = "dead"
      BY <2>1, ReleasedFields DEF Statuses
    <3>2. QED
      BY <1>1, <2>3, <2>5, <2>6, <3>1 DEF ClaimJob
  <2>8. QED
    BY <2>1, <2>5, <2>7 DEF Before, Job, Priorities
<1>2. IInv /\ [Next]_queueVars => [A]_queueVars
  BY <1>1
<1>3. QED
  BY <1>2, Invariance, PTL DEF Spec, ClaimInOrder


-----------------------------------------------------------------------------
(***************************************************************************)
(* The workers.                                                            *)
(***************************************************************************)

\* The inductive invariant of the callers: the queue's, the two promises, and
\* what they rest on.  A worker that is down remembers nothing, so its restart
\* gives back no lease that anybody still counts on; and a worker keeps one
\* receipt of a job, so the report of an old claim cannot settle a newer one.
WorkersInv ==
    /\ IInv
    /\ WorkersTypeOK
    /\ LeaseHonoured
    /\ \A w \in Workers : ~ up[w] => held[w] = {}
    /\ \A w \in Workers : \A r1, r2 \in held[w] : r1.job = r2.job => r1 = r2

\* Every step of the callers is a step of the queue, or none.
LEMMA CallersStep ==
    ASSUME WorkersInv, [WorkersNext]_workersVars
    PROVE  [Next]_queueVars
<1> USE DEF WorkersInv, WorkersTypeOK
<1>1. ASSUME NEW k \in Keys, NEW p \in Priorities, NEW d \in Payloads, Submit(k, p, d)
      PROVE  Next
  BY <1>1 DEF Submit, Next
<1>2. ASSUME NEW w \in Workers, NEW lease \in Leases, NEW k \in Keys, Fetch(w, lease, k)
      PROVE  Next
  BY <1>2 DEF Fetch, Next
<1>3. ASSUME NEW w \in Workers, NEW lease \in Leases, FetchNothing(w, lease)
      PROVE  Next
  BY <1>3 DEF FetchNothing, Next
<1>4. ASSUME NEW w \in Workers, NEW receipt \in held[w], NEW status \in {"done", "ready"},
             Report(w, receipt, status)
      PROVE  Next \/ UNCHANGED queueVars
  <2>1. receipt.job \in Keys
    BY DEF Receipt
  <2>2. CASE Settle(receipt.job, w, clock, status)
    BY <2>1, <2>2 DEF Next, Ack, Nack
  <2>3. QED
    BY <1>4, <2>2 DEF Report
<1>5. ASSUME NEW w \in Workers, Recover(w)
      PROVE  Next
  BY <1>5 DEF Recover, Next
<1>6. CASE (\E w \in Workers : Crash(w)) \/ Tick \/ UNCHANGED workersVars
  BY <1>6 DEF Crash, Tick, workersVars, queueVars
<1>7. QED
  BY <1>1, <1>2, <1>3, <1>4, <1>5, <1>6 DEF WorkersNext

\* A receipt is honoured after a step that keeps it honoured or leaves its job,
\* its lease and its holder as they were.
Honours(w, r) ==
    clock < r.expires =>
        /\ r.job \in DOMAIN jobs
        /\ jobs[r.job].status = "leased"
        /\ jobs[r.job].owner = w
        /\ jobs[r.job].attempts = r.attempt
        /\ jobs[r.job].expires = r.expires

LEMMA SubmitKeeps ==
    ASSUME WorkersInv, NEW k \in Keys, NEW p \in Priorities, NEW d \in Payloads,
           Submit(k, p, d)
    PROVE  LeaseHonoured'
<1>1. \A j \in DOMAIN jobs : j \in DOMAIN jobs' /\ jobs'[j] = jobs[j]
  BY DEF Submit, Enqueue
<1>2. held' = held /\ clock' = clock
  BY DEF Submit, callers
<1>3. QED
  BY <1>1, <1>2 DEF WorkersInv, LeaseHonoured

LEMMA FetchKeeps ==
    ASSUME WorkersInv, NEW w \in Workers, NEW lease \in Leases, NEW k \in Keys,
           Fetch(w, lease, k)
    PROVE  /\ ReceiptFor(k) \in Receipt
           /\ LeaseHonoured'
<1> USE DEF Fetch, WorkersInv, WorkersTypeOK
<1>1. k \in DOMAIN jobs /\ jobs[k] \in Job /\ ~ Exhausted(k)
  BY DEF ClaimJob, Claimable, TypeOK
<1>2. clock + lease \in 1 .. MaxNow
  BY QueueConstants DEF ClaimJob, Fits, Times, Leases
<1>3. jobs[k].attempts \in Nat /\ jobs[k].attempts < MaxAttempts
  BY <1>1, QueueConstants DEF Exhausted, Job
<1>4. /\ k \in DOMAIN jobs'
      /\ jobs'[k] = Leased(jobs[k], w, clock + lease)
  BY <1>1 DEF ClaimJob
<1>5. /\ jobs'[k].status = "leased" /\ jobs'[k].owner = w
      /\ jobs'[k].expires = clock + lease
      /\ jobs'[k].attempts = jobs[k].attempts + 1
  BY <1>1, <1>2, <1>3, <1>4, LeasedFields
<1>6. ReceiptFor(k) \in Receipt
  BY <1>2, <1>3, <1>5, QueueConstants DEF ReceiptFor, Receipt
<1>7. ASSUME NEW v \in Workers, NEW r \in held'[v], clock' < r.expires
      PROVE  Honours(v, r)'
  <2>1. CASE v = w /\ r = ReceiptFor(k)
    BY <1>4, <1>5, <2>1 DEF ReceiptFor, Honours
  <2>2. CASE ~ (v = w /\ r = ReceiptFor(k))
    <3>1. r \in held[v] /\ clock < r.expires
      BY <1>7, <2>2 DEF Remember
    <3>2. /\ r.job \in DOMAIN jobs /\ jobs[r.job].status = "leased"
          /\ jobs[r.job].owner = v /\ jobs[r.job].attempts = r.attempt
          /\ jobs[r.job].expires = r.expires
      BY <3>1 DEF LeaseHonoured
    <3>3. r.job \notin Claimable(clock)
      BY <3>1, <3>2 DEF Claimable, Times, TypeOK, Job, Receipt
    <3>4. r.job # k /\ r.job \in DOMAIN jobs' /\ jobs'[r.job] = jobs[r.job]
      BY <3>2, <3>3 DEF ClaimJob
    <3>5. QED
      BY <3>2, <3>4 DEF Honours
  <2>3. QED
    BY <2>1, <2>2
<1>8. QED
  BY <1>6, <1>7 DEF LeaseHonoured, Honours

LEMMA FetchNothingKeeps ==
    ASSUME WorkersInv, NEW w \in Workers, NEW lease \in Leases, FetchNothing(w, lease)
    PROVE  LeaseHonoured'
<1> USE DEF FetchNothing, WorkersInv, WorkersTypeOK, callers
<1>1. ASSUME NEW v \in Workers, NEW r \in held[v], clock < r.expires
      PROVE  r.job \in DOMAIN jobs' /\ jobs'[r.job] = jobs[r.job]
  <2>1. /\ r.job \in DOMAIN jobs /\ jobs[r.job].status = "leased"
        /\ jobs[r.job].expires = r.expires
    BY <1>1 DEF LeaseHonoured
  <2>2. r.job \notin Claimable(clock)
    BY <1>1, <2>1 DEF Claimable, Times, TypeOK, Job, Receipt
  <2>3. QED
    BY <2>1, <2>2 DEF ClaimNone
<1>2. QED
  BY <1>1 DEF LeaseHonoured

LEMMA ReportKeeps ==
    ASSUME WorkersInv, NEW w \in Workers, NEW receipt \in held[w],
           NEW status \in {"done", "ready"}, Report(w, receipt, status)
    PROVE  LeaseHonoured'
<1> USE DEF Report, WorkersInv, WorkersTypeOK
<1>1. ASSUME NEW v \in Workers, NEW r \in held'[v], clock' < r.expires
      PROVE  Honours(v, r)'
  <2>1. r \in held[v] /\ clock < r.expires /\ ~ (v = w /\ r = receipt)
    BY <1>1 DEF Forget
  <2>2. /\ r.job \in DOMAIN jobs /\ jobs[r.job].status = "leased"
        /\ jobs[r.job].owner = v /\ jobs[r.job].attempts = r.attempt
        /\ jobs[r.job].expires = r.expires
    BY <2>1 DEF LeaseHonoured
  <2>3. CASE Held(receipt.job, w, clock)
    <3>1. r.job # receipt.job
      BY <2>1, <2>2, <2>3 DEF Held
    <3>2. r.job \in DOMAIN jobs' /\ jobs'[r.job] = jobs[r.job]
      BY <2>2, <2>3, <3>1 DEF Settle, TypeOK
    <3>3. QED
      BY <2>2, <3>2 DEF Honours
  <2>4. CASE ~ Held(receipt.job, w, clock)
    BY <2>2, <2>4 DEF Honours, queueVars
  <2>5. QED
    BY <2>3, <2>4
<1>2. QED
  BY <1>1 DEF LeaseHonoured, Honours

LEMMA RecoverKeeps ==
    ASSUME WorkersInv, NEW w \in Workers, Recover(w)
    PROVE  LeaseHonoured'
<1> USE DEF Recover, WorkersInv, WorkersTypeOK
<1>1. ASSUME NEW v \in Workers, NEW r \in held[v], clock < r.expires
      PROVE  r.job \in DOMAIN jobs' /\ jobs'[r.job] = jobs[r.job]
  <2>1. /\ r.job \in DOMAIN jobs /\ jobs[r.job].owner = v
    BY <1>1 DEF LeaseHonoured
  <2>2. v # w
    BY <1>1
  <2>3. QED
    BY <2>1, <2>2 DEF Restart, Held
<1>2. QED
  BY <1>1 DEF LeaseHonoured

\* The clock never runs past the end of the leases, because it moves only while
\* one of them is running.
LEMMA TickKeeps ==
    ASSUME WorkersInv, Tick
    PROVE  clock' \in Times /\ LeaseHonoured'
<1> USE DEF Tick, WorkersInv, WorkersTypeOK
<1>1. PICK k \in DOMAIN jobs : clock < jobs[k].expires
  OBVIOUS
<1>2. jobs[k].expires \in Times
  BY DEF TypeOK, Job
<1>3. clock' \in Times
  BY <1>1, <1>2, QueueConstants DEF Times
<1>4. ASSUME NEW v \in Workers, NEW r \in held[v], clock' < r.expires
      PROVE  clock < r.expires
  BY <1>4 DEF Times, Receipt
<1>5. QED
  BY <1>3, <1>4 DEF LeaseHonoured

\* What the callers' own variables keep: one receipt of a job, none of a worker
\* that is down.
MemoryOK ==
    /\ held \in [Workers -> SUBSET Receipt]
    /\ up \in [Workers -> BOOLEAN]
    /\ \A w \in Workers : ~ up[w] => held[w] = {}
    /\ \A w \in Workers : \A r1, r2 \in held[w] : r1.job = r2.job => r1 = r2

LEMMA MemoryKept ==
    ASSUME WorkersInv, [WorkersNext]_workersVars
    PROVE  MemoryOK'
<1> USE DEF WorkersInv, WorkersTypeOK, MemoryOK
<1>1. ASSUME NEW w \in Workers, NEW lease \in Leases, NEW k \in Keys, Fetch(w, lease, k)
      PROVE  MemoryOK'
  BY <1>1, FetchKeeps DEF Fetch, Remember
<1>2. ASSUME NEW w \in Workers, NEW receipt \in held[w], NEW status \in {"done", "ready"},
             Report(w, receipt, status)
      PROVE  MemoryOK'
  BY <1>2 DEF Report, Forget
<1>3. ASSUME NEW w \in Workers, Crash(w)
      PROVE  MemoryOK'
  BY <1>3 DEF Crash
<1>4. ASSUME NEW w \in Workers, Recover(w)
      PROVE  MemoryOK'
  BY <1>4 DEF Recover
<1>5. ASSUME UNCHANGED <<held, up>>
      PROVE  MemoryOK'
  BY <1>5
<1>6. QED
  BY <1>1, <1>2, <1>3, <1>4, <1>5
     DEF WorkersNext, Submit, FetchNothing, Tick, callers, workersVars

LEMMA WorkersNextInv == WorkersInv /\ [WorkersNext]_workersVars => WorkersInv'
<1> SUFFICES ASSUME WorkersInv, [WorkersNext]_workersVars
             PROVE  WorkersInv'
  OBVIOUS
<1>1. IInv'
  BY CallersStep, NextIInv DEF WorkersInv
<1>2. MemoryOK'
  BY MemoryKept
<1>3. clock' \in Times /\ LeaseHonoured'
  <2>1. CASE Tick
    BY <2>1, TickKeeps
  <2>2. CASE \E w \in Workers : Crash(w)
    BY <2>2 DEF Crash, WorkersInv, WorkersTypeOK, LeaseHonoured
  <2>3. CASE UNCHANGED workersVars
    BY <2>3 DEF workersVars, WorkersInv, WorkersTypeOK, LeaseHonoured
  <2>4. ASSUME ~ Tick, ~ (\E w \in Workers : Crash(w)), ~ UNCHANGED workersVars
        PROVE  clock' = clock /\ LeaseHonoured'
    BY <2>4, SubmitKeeps, FetchKeeps, FetchNothingKeeps, ReportKeeps, RecoverKeeps
       DEF WorkersNext, Submit, Fetch, FetchNothing, Report, Recover, callers
  <2>5. QED
    BY <2>1, <2>2, <2>3, <2>4 DEF WorkersInv, WorkersTypeOK
<1>4. QED
  BY <1>1, <1>2, <1>3 DEF WorkersInv, WorkersTypeOK, MemoryOK, IInv

LEMMA WorkersInitInv == WorkersInit => WorkersInv
<1>1. Init => IInv
  BY InitIInv
<1>2. QED
  BY <1>1, QueueConstants
     DEF WorkersInit, WorkersInv, WorkersTypeOK, IInv, LeaseHonoured, Times

LEMMA WorkersInvariance == WorkersSpec => []WorkersInv
BY WorkersInitInv, WorkersNextInv, PTL DEF WorkersSpec

\* The workers drive the queue by its own operations only, so everything that is
\* proved of the queue holds under them.
THEOREM CallersUseQueue == WorkersSpec => Spec
<1>1. WorkersInit => Init
  BY DEF WorkersInit
<1>2. WorkersInv /\ [WorkersNext]_workersVars => [Next]_queueVars
  BY CallersStep
<1>3. QED
  BY <1>1, <1>2, WorkersInvariance, PTL DEF WorkersSpec, Spec

\* A worker whose claim has not run out still holds it, under whatever claims,
\* late reports, crashes and restarts of all workers, and no other worker
\* believes it holds the same job.
THEOREM LeasesAreHeld == WorkersSpec => []LeasesHeld
<1>1. WorkersInv => ExclusiveLease
  BY DEF WorkersInv, LeaseHonoured, ExclusiveLease
<1>2. WorkersInv => LeasesHeld
  BY <1>1 DEF WorkersInv, LeasesHeld
<1>3. QED
  BY <1>2, WorkersInvariance, PTL

\* No lease is replaced by another one before it has run out: what ends a live
\* lease is a settlement or a restart of its own holder.
THEOREM LeaseEndsBeforeNext == WorkersSpec => LeaseEndsFirst
<1> DEFINE A == \A k \in DOMAIN jobs :
                  /\ jobs[k].status = "leased"
                  /\ jobs'[k].status = "leased"
                  /\ jobs'[k] # jobs[k]
                  => jobs[k].expires <= clock
<1>1. ASSUME WorkersInv, [WorkersNext]_workersVars,
             NEW m \in DOMAIN jobs, jobs[m].status = "leased",
             jobs'[m].status = "leased", jobs'[m] # jobs[m]
      PROVE  jobs[m].expires <= clock
  <2>1. jobs[m] \in Job
    BY <1>1 DEF WorkersInv, IInv, TypeOK
  <2>2. ASSUME NEW status \in {"ready", "done", "dead"}
        PROVE  jobs'[m] # Released(jobs[m], status)
    BY <1>1, <2>1, ReleasedFields DEF Statuses
  <2>3. ASSUME NEW w \in Workers, NEW lease \in Leases, NEW k \in Keys, Fetch(w, lease, k)
        PROVE  jobs[m].expires <= clock
    BY <1>1, <2>2, <2>3 DEF Fetch, ClaimJob, Claimable
  <2>4. ASSUME NEW w \in Workers, NEW lease \in Leases
        PROVE  ~ FetchNothing(w, lease)
    BY <1>1, <2>2 DEF FetchNothing, ClaimNone
  <2>5. ASSUME NEW w \in Workers, NEW receipt \in held[w], NEW status \in {"done", "ready"}
        PROVE  ~ Report(w, receipt, status)
    BY <1>1, <2>2 DEF Report, Settle, queueVars
  <2>6. ASSUME NEW w \in Workers
        PROVE  ~ Recover(w)
    BY <1>1, <2>2 DEF Recover, Restart
  <2>7. ASSUME NEW k \in Keys, NEW p \in Priorities, NEW d \in Payloads
        PROVE  ~ Submit(k, p, d)
    BY <1>1 DEF Submit, Enqueue
  <2>8. QED
    BY <1>1, <2>3, <2>4, <2>5, <2>6, <2>7 DEF WorkersNext, Crash, Tick, workersVars
<1>2. WorkersInv /\ [WorkersNext]_workersVars => [A]_workersVars
  BY <1>1
<1>3. QED
  BY <1>2, WorkersInvariance, PTL DEF WorkersSpec, LeaseEndsFirst

-----------------------------------------------------------------------------
(***************************************************************************)
(* Keyed callers.                                                          *)
(***************************************************************************)

\* A job's place in its life: it only moves on, because no operation refunds an
\* attempt.  A lease is the first of an attempt's three stages, a return to the
\* queue the second, an end the third.
Rank(job) ==
    3 * job.attempts
      + IF job.status = "leased" THEN 0 ELSE IF job.status = "ready" THEN 1 ELSE 2

\* A state of the queue that the engine could store in a receipt.
WellFormed(s) ==
    /\ s.next_seq \in Nat
    /\ s.jobs \in [DOMAIN s.jobs -> Job]

\* The queue went on from s to t.
Precedes(s, t) ==
    /\ WellFormed(s) /\ WellFormed(t)
    /\ DOMAIN s.jobs \subseteq DOMAIN t.jobs
    /\ s.next_seq <= t.next_seq
    /\ \A k \in DOMAIN s.jobs : Rank(s.jobs[k]) <= Rank(t.jobs[k])
    /\ \/ s.next_seq < t.next_seq
       \/ \E k \in DOMAIN s.jobs : Rank(s.jobs[k]) < Rank(t.jobs[k])

LEMMA RankType == ASSUME NEW job \in Job PROVE Rank(job) \in Nat
<1>1. job.attempts \in Nat
  BY QueueConstants DEF Job
<1>2. QED
  BY <1>1 DEF Rank

LEMMA PrecedesIsStrict ==
    ASSUME NEW s, Precedes(s, s)
    PROVE  FALSE
BY RankType DEF Precedes, WellFormed

LEMMA PrecedesTransitive ==
    ASSUME NEW s, NEW t, NEW u, Precedes(s, t), Precedes(t, u)
    PROVE  Precedes(s, u)
<1>1. \A k \in DOMAIN s.jobs :
        /\ Rank(s.jobs[k]) \in Nat /\ Rank(t.jobs[k]) \in Nat /\ Rank(u.jobs[k]) \in Nat
        /\ Rank(s.jobs[k]) <= Rank(t.jobs[k]) /\ Rank(t.jobs[k]) <= Rank(u.jobs[k])
  BY RankType DEF Precedes, WellFormed
<1>2. CASE s.next_seq < t.next_seq \/ t.next_seq < u.next_seq
  BY <1>1, <1>2 DEF Precedes, WellFormed
<1>3. CASE \E k \in DOMAIN s.jobs : Rank(s.jobs[k]) < Rank(t.jobs[k])
  BY <1>1, <1>3 DEF Precedes, WellFormed
<1>4. CASE s.next_seq = t.next_seq /\ \E k \in DOMAIN t.jobs : Rank(t.jobs[k]) < Rank(u.jobs[k])
  BY <1>1, <1>4 DEF Precedes, WellFormed
<1>5. QED
  BY <1>2, <1>3, <1>4 DEF Precedes, WellFormed

\* A move of a job that changes it raises its rank.
LEMMA MoveRaises ==
    ASSUME NEW old \in Job, JobOK(old), NEW new, JobMove(old, new), new # old
    PROVE  new \in Job /\ Rank(old) < Rank(new)
<1>1. new \in Job /\ old.attempts \in Nat
  BY MoveKeepsJob, QueueConstants DEF Job
<1>2. ASSUME NEW status \in {"ready", "done"}, old.status = "leased",
             new = Released(old, status)
      PROVE  Rank(old) < Rank(new)
  BY <1>1, <1>2, ReleasedFields DEF Rank, Statuses
<1>3. CASE old.status \in {"ready", "leased"} /\ new = Released(old, "dead")
  BY <1>1, <1>3, ReleasedFields DEF Rank, Statuses
<1>4. ASSUME old.attempts < MaxAttempts, old.status \in {"ready", "leased"},
             NEW w \in Workers, NEW until \in 1..MaxNow, new = Leased(old, w, until)
      PROVE  Rank(old) < Rank(new)
  BY <1>1, <1>4, LeasedFields DEF Rank
<1>5. QED
  BY <1>1, <1>2, <1>3, <1>4 DEF JobMove

\* Every step of the queue stands still or goes on.
LEMMA StepPrecedes ==
    ASSUME IInv, [Next]_queueVars
    PROVE  StateId' = StateId \/ Precedes(StateId, StateId')
<1>1. WellFormed(StateId)
  BY QueueConstants DEF IInv, TypeOK, WellFormed, StateId
<1>2. CASE AllMove
  <2>1. \A k \in DOMAIN jobs : jobs[k] \in Job /\ JobOK(jobs[k]) /\ JobMove(jobs[k], jobs'[k])
    BY <1>2 DEF IInv, TypeOK, StateOK, AllMove
  <2>2. \A k \in DOMAIN jobs : jobs'[k] \in Job
    BY <2>1, MoveKeepsJob
  <2>3. \A k \in DOMAIN jobs : jobs'[k] = jobs[k] \/ Rank(jobs[k]) < Rank(jobs'[k])
    BY <2>1, MoveRaises
  <2>4. \A k \in DOMAIN jobs : Rank(jobs[k]) \in Nat /\ Rank(jobs'[k]) \in Nat
    BY <2>1, <2>2, RankType
  <2>5. DOMAIN jobs' = DOMAIN jobs /\ jobs' \in [DOMAIN jobs -> Job] /\ next_seq' = next_seq
    BY <1>2, <2>2 DEF AllMove
  <2>6. CASE \A k \in DOMAIN jobs : jobs'[k] = jobs[k]
    <3>1. jobs' = jobs
      BY <2>5, <2>6 DEF IInv, TypeOK
    <3>2. QED
      BY <2>5, <3>1 DEF StateId
  <2>7. CASE \E k \in DOMAIN jobs : jobs'[k] # jobs[k]
    <3>1. WellFormed(StateId')
      BY <1>1, <2>5 DEF WellFormed, StateId
    <3>2. QED
      BY <1>1, <2>3, <2>4, <2>5, <2>7, <3>1 DEF Precedes, StateId, WellFormed
  <2>8. QED
    BY <2>6, <2>7
<1>3. ASSUME NEW k \in Keys, NEW p \in Priorities, NEW d \in Payloads, Enqueue(k, p, d)
      PROVE  Precedes(StateId, StateId')
  <2>1. IInv'
    BY <1>3, EnqueueKeepsIInv
  <2>2. WellFormed(StateId')
    BY <2>1, QueueConstants DEF IInv, TypeOK, WellFormed, StateId
  <2>3. \A j \in DOMAIN jobs : Rank(jobs[j]) \in Nat
    BY RankType DEF IInv, TypeOK
  <2>4. next_seq' = next_seq + 1 /\ \A j \in DOMAIN jobs : j \in DOMAIN jobs' /\ jobs'[j] = jobs[j]
    BY <1>3 DEF Enqueue
  <2>5. QED
    BY <1>1, <2>2, <2>3, <2>4 DEF Precedes, StateId, WellFormed
<1>4. QED
  BY <1>2, <1>3, StepMoves
\* The states of the queue and the receipts a ledger may hold.
QueueStates ==
    [jobs : UNION {[D -> Job] : D \in SUBSET Keys}, next_seq : Nat]

Receipts ==
    [key : IdemKeys, fingerprint : Requests, prior : QueueStates, state : QueueStates]

\* The inductive invariant of keyed apply.  Beside the checked invariants it says
\* that the queue has not gone back behind the last receipt.
KeyedInv ==
    /\ IInv
    /\ KeyedOnce
    /\ ledger \in Seq(Receipts)
    /\ \A i, j \in DOMAIN ledger : ledger[i].key = ledger[j].key => i = j
    /\ ledger # <<>> =>
          \/ ledger[Len(ledger)].state = StateId
          \/ Precedes(ledger[Len(ledger)].state, StateId)

LEMMA StateIdType ==
    /\ IInv => StateId \in QueueStates
    /\ IInv' => StateId' \in QueueStates
BY QueueConstants DEF IInv, TypeOK, StateId, QueueStates

\* The engine, keyed or not, and the restart take a step of the queue.
LEMMA ApplyIsStep == ASSUME NEW req \in Requests, QueueApply(req) PROVE Next
<1>1. CASE req.op = "enqueue"
  <2>1. req.key \in Keys /\ req.priority \in Priorities /\ req.payload \in Payloads
    BY <1>1 DEF Requests
  <2>2. QED
    BY <1>1, <2>1 DEF QueueApply, Next
<1>2. CASE req.op = "claim"
  <2>1. req.worker \in Workers /\ req.now \in Times /\ req.lease \in Leases
    BY <1>2 DEF Requests
  <2>2. QED
    BY <1>2, <2>1 DEF QueueApply, Next
<1>3. CASE req.op \in {"ack", "nack"}
  <2>1. req.key \in Keys /\ req.worker \in Workers /\ req.now \in Times
    BY <1>3 DEF Requests
  <2>2. QED
    BY <1>3, <2>1 DEF QueueApply, Next
<1>4. QED
  BY <1>1, <1>2, <1>3 DEF Requests

LEMMA IdemStep ==
    ASSUME [IdemNext]_idemVars
    PROVE  [Next]_queueVars
<1>1. ASSUME NEW req \in Requests, Bypass(req)
      PROVE  Next
  BY <1>1, ApplyIsStep DEF Bypass
<1>2. ASSUME NEW w \in Workers, NEW now \in Times, BypassRestart(w, now)
      PROVE  Next
  BY <1>2 DEF BypassRestart, Next
<1>3. ASSUME NEW key \in IdemKeys, NEW req \in Requests, NEW token, ApplyNew(key, req, token)
      PROVE  Next
  BY <1>3, ApplyIsStep DEF ApplyNew
<1>4. ASSUME NEW key \in IdemKeys, NEW req \in Requests, NEW token, Replay(key, req, token)
      PROVE  UNCHANGED queueVars
  BY <1>4 DEF Replay, idemVars, queueVars
<1>5. QED
  BY <1>1, <1>2, <1>3, <1>4 DEF IdemNext, idemVars, queueVars

\* A keyed call that takes effect.
LEMMA ApplyNewKeeps ==
    ASSUME IdemConstants, KeyedInv, IInv', NEW key \in IdemKeys, NEW req \in Requests,
           NEW token, ApplyNew(key, req, token)
    PROVE  KeyedInv'
<1> DEFINE n == Len(ledger)
           new == StoredReceipt(key, token)
<1>1. token = req /\ StateId \in QueueStates /\ StateId' \in QueueStates
  BY StateIdType DEF ApplyNew, Bound, KeyedInv
<1>2. /\ new \in Receipts /\ new.key = key /\ new.fingerprint = req
      /\ new.prior = StateId /\ new.state = StateId'
  BY <1>1 DEF StoredReceipt, Receipts
<1>3. ledger \in Seq(Receipts) /\ ledger' = Append(ledger, new)
  BY DEF KeyedInv, ApplyNew
<1> HIDE DEF new
<1>4. /\ n \in Nat /\ DOMAIN ledger = 1 .. n /\ DOMAIN ledger' = 1 .. n + 1
      /\ ledger' \in Seq(Receipts) /\ Len(ledger') = n + 1
      /\ ledger'[n + 1] = new
      /\ \A i \in 1 .. n : ledger'[i] = ledger[i]
  BY <1>2, <1>3
<1>5. \A i \in 1 .. n : ledger[i].key # key
  BY <1>4 DEF ApplyNew, Stored
<1>6. LedgerValid(ledger, StateId)
  BY DEF ApplyNew
<1>7. \A i, j \in DOMAIN ledger' : ledger'[i].key = ledger'[j].key => i = j
  BY <1>2, <1>4, <1>5 DEF KeyedInv
<1>8. Chained'
  <2>1. ASSUME NEW i \in 1 .. n
        PROVE  ledger'[i + 1].prior = ledger'[i].state
    <3>1. CASE i = n
      <4>1. ledger # <<>> /\ ledger[n].state = StateId
        BY <1>4, <1>6, <3>1 DEF LedgerValid
      <4>2. QED
        BY <1>2, <1>4, <3>1, <4>1
    <3>2. CASE i \in 1 .. n - 1
      <4>1. ledger[i + 1].prior = ledger[i].state
        BY <3>2 DEF KeyedInv, KeyedOnce, Chained
      <4>2. i + 1 \in 1 .. n
        BY <1>4, <3>2
      <4>3. QED
        BY <1>4, <4>1, <4>2
    <3>3. n \in Nat
      BY <1>4
    <3>4. i = n \/ i \in 1 .. n - 1
      BY <3>3
    <3>5. QED
      BY <3>1, <3>2, <3>4
  <2>2. QED
    BY <1>4, <2>1 DEF Chained
<1>9. LedgerValid(ledger', StateId')
  BY <1>2, <1>4, <1>7, <1>8 DEF LedgerValid, Chained
<1>10. IdemTypeOK'
  <2>1. \A i \in DOMAIN ledger' :
           ledger'[i].key \in IdemKeys /\ ledger'[i].fingerprint \in Requests
    <3>1. \A i \in DOMAIN ledger' : ledger'[i] \in Receipts
      BY <1>4
    <3>2. QED
      BY <3>1 DEF Receipts
  <2>2. effects' \in [IdemKeys -> Nat] /\ others' \in 0 .. OtherCalls
    BY DEF ApplyNew, KeyedInv, KeyedOnce, IdemTypeOK
  <2>3. QED
    BY <2>1, <2>2 DEF IInv, IdemTypeOK
<1>11. ExactlyOnce'
  <2>1. effects[key] = 0 /\ effects \in [IdemKeys -> Nat]
    BY <1>4, <1>5 DEF KeyedInv, KeyedOnce, ExactlyOnce, IdemTypeOK
  <2>2. effects' = [effects EXCEPT ![key] = 1]
    BY <2>1 DEF ApplyNew
  <2>3. ASSUME NEW k \in IdemKeys
        PROVE  (\E i \in DOMAIN ledger' : ledger'[i].key = k)
                  <=> k = key \/ \E i \in DOMAIN ledger : ledger[i].key = k
    BY <1>2, <1>4
  <2>4. QED
    BY <2>1, <2>2, <2>3 DEF KeyedInv, KeyedOnce, ExactlyOnce
<1>12. QED
  BY <1>2, <1>4, <1>7, <1>8, <1>9, <1>10, <1>11 DEF KeyedInv, KeyedOnce, KeyedOnlyValid

\* A call that bypasses the ledger makes it stale or changes nothing.
LEMMA BypassKeeps ==
    ASSUME IdemConstants, KeyedInv, IInv', [Next]_queueVars,
           others < OtherCalls, others' = others + 1, UNCHANGED <<ledger, effects>>
    PROVE  KeyedInv'
<1>1. StateId' = StateId \/ Precedes(StateId, StateId')
  BY StepPrecedes DEF KeyedInv
<1>2. ledger # <<>> =>
          \/ ledger[Len(ledger)].state = StateId'
          \/ Precedes(ledger[Len(ledger)].state, StateId')
  BY <1>1, PrecedesTransitive DEF KeyedInv
<1>3. others' \in 0 .. OtherCalls /\ others' # 0
  BY DEF KeyedInv, KeyedOnce, IdemTypeOK, IdemConstants
<1>4. QED
  BY <1>2, <1>3
     DEF KeyedInv, KeyedOnce, IdemTypeOK, ExactlyOnce, KeyedOnlyValid, Chained, IInv

LEMMA KeyedNextInv ==
    ASSUME IdemConstants, KeyedInv, [IdemNext]_idemVars
    PROVE  KeyedInv'
<1>1. IInv' /\ [Next]_queueVars
  BY IdemStep, NextIInv DEF KeyedInv
<1>2. CASE UNCHANGED idemVars
  BY <1>1, <1>2
     DEF KeyedInv, KeyedOnce, IdemTypeOK, ExactlyOnce, KeyedOnlyValid, Chained,
         idemVars, StateId, IInv
<1>3. ASSUME NEW key \in IdemKeys, NEW req \in Requests, NEW token, ApplyNew(key, req, token)
      PROVE  KeyedInv'
  BY <1>1, <1>3, ApplyNewKeeps
<1>4. ASSUME NEW key \in IdemKeys, NEW req \in Requests, NEW token, Replay(key, req, token)
      PROVE  UNCHANGED idemVars
  BY <1>4 DEF Replay
<1>5. ASSUME NEW req \in Requests, Bypass(req)
      PROVE  KeyedInv'
  BY <1>1, <1>5, BypassKeeps DEF Bypass
<1>6. ASSUME NEW w \in Workers, NEW now \in Times, BypassRestart(w, now)
      PROVE  KeyedInv'
  BY <1>1, <1>6, BypassKeeps DEF BypassRestart
<1>7. QED
  BY <1>2, <1>3, <1>4, <1>5, <1>6 DEF IdemNext

LEMMA KeyedInitInv == IdemConstants /\ IdemInit => KeyedInv
<1> SUFFICES ASSUME IdemConstants, IdemInit PROVE KeyedInv
  OBVIOUS
<1>1. IInv /\ ledger = <<>> /\ ledger \in Seq(Receipts) /\ DOMAIN ledger = {} /\ Len(ledger) = 0
  BY InitIInv DEF IdemInit
<1>2. effects = [key \in IdemKeys |-> 0] /\ others = 0
  BY DEF IdemInit
<1>3. QED
  BY <1>1, <1>2
     DEF KeyedInv, KeyedOnce, IdemTypeOK, ExactlyOnce, KeyedOnlyValid, Chained,
         LedgerValid, IdemConstants, IInv

LEMMA KeyedInvariance == ASSUME IdemConstants PROVE IdemSpec => []KeyedInv
<1>1. IdemInit => KeyedInv
  BY KeyedInitInv
<1>2. KeyedInv /\ [IdemNext]_idemVars => KeyedInv'
  BY KeyedNextInv
<1>3. QED
  BY <1>1, <1>2, PTL DEF IdemSpec

\* However often a keyed request is repeated, and whatever other programs do to
\* the queue in between, it takes effect at most once; the ledger names the keys
\* that did and the chain of states they left, and it is valid until somebody
\* bypasses it.
THEOREM KeyedExactlyOnce == ASSUME IdemConstants PROVE IdemSpec => []KeyedOnce
<1>1. KeyedInv => KeyedOnce
  BY DEF KeyedInv
<1>2. QED
  BY <1>1, KeyedInvariance, PTL

\* A stale ledger stays stale and is never written again, because the queue
\* never comes back to a state it has left.
THEOREM StaleStays == ASSUME IdemConstants PROVE IdemSpec => StaleForever
<1> DEFINE A == ~ LedgerValid(ledger, StateId) =>
                  /\ ~ LedgerValid(ledger', StateId')
                  /\ UNCHANGED <<ledger, effects>>
<1>1. ASSUME KeyedInv, [IdemNext]_idemVars, ~ LedgerValid(ledger, StateId)
      PROVE  /\ ~ LedgerValid(ledger', StateId')
             /\ UNCHANGED <<ledger, effects>>
  <2>1. UNCHANGED <<ledger, effects>>
    BY <1>1 DEF IdemNext, ApplyNew, Replay, Bypass, BypassRestart, idemVars
  <2>2. ledger # <<>> /\ ledger[Len(ledger)].state # StateId
    BY <1>1 DEF KeyedInv, KeyedOnce, Chained, LedgerValid
  <2>3. Precedes(ledger[Len(ledger)].state, StateId)
    BY <1>1, <2>2 DEF KeyedInv
  <2>4. StateId' = StateId \/ Precedes(StateId, StateId')
    BY <1>1, IdemStep, StepPrecedes DEF KeyedInv
  <2>5. ledger[Len(ledger)].state # StateId'
    BY <2>3, <2>4, PrecedesTransitive, PrecedesIsStrict
  <2>6. QED
    BY <2>1, <2>2, <2>5 DEF LedgerValid
<1>2. KeyedInv /\ [IdemNext]_idemVars => [A]_idemVars
  BY <1>1
<1>3. QED
  BY <1>2, KeyedInvariance, PTL DEF IdemSpec, StaleForever

-----------------------------------------------------------------------------
(***************************************************************************)
(* Decisions on copies (JobsPolicies): a copy of a job says less and less  *)
(* of the job, but its attempts are never more than the job's, and what    *)
(* enqueue stored is what it was.                                          *)
(***************************************************************************)

\* Induction up to a bound, for a set of numbers: a smallest number outside the
\* set would have a predecessor inside.
LEMMA UpTo ==
    ASSUME NEW N \in Nat \ {0}, NEW S, 1 \in S,
           \A n \in 2 .. N : n - 1 \in S => n \in S
    PROVE  1 .. N \subseteq S
<1> DEFINE Missing == {n \in 1 .. N : n \notin S}
           Below == {1 .. n : n \in Missing}
<1>1. SUFFICES ASSUME Missing # {}
               PROVE  FALSE
  OBVIOUS
<1>2. \A n \in Missing : 1 .. n \in FiniteSubsetsOf(Nat)
  BY FS_Interval DEF FiniteSubsetsOf
<1>3. Below \subseteq FiniteSubsetsOf(Nat) /\ Below # {}
  BY <1>1, <1>2
<1>4. PICK x \in Below : \A y \in Below : <<y, x>> \notin StrictSubsetOrdering(Nat)
  <2> HIDE DEF Below
  <2>1. IsWellFoundedOn(StrictSubsetOrdering(Nat), FiniteSubsetsOf(Nat))
    BY FS_StrictSubsetOrderingWellFounded
  <2>2. QED
    BY <1>3, <2>1, WFMin
<1>5. PICK m \in Missing : x = 1 .. m
  BY <1>4
<1>6. m \in 2 .. N /\ m - 1 \in 1 .. N /\ m - 1 \notin S
  BY <1>5
<1> DEFINE a == 1 .. m - 1
           b == 1 .. m
<1>7. a \in Below /\ a \subseteq b /\ a # b /\ a \in SUBSET Nat /\ b \in SUBSET Nat
  <2>1. m \notin a /\ m \in b
    BY <1>6
  <2>2. QED
    BY <1>6, <2>1
<1> HIDE DEF a, b, Below
<1>8. <<a, b>> \in StrictSubsetOrdering(Nat)
  BY <1>7 DEF StrictSubsetOrdering
<1>9. QED
  BY <1>4, <1>5, <1>7, <1>8 DEF b


\* A factor of one at least makes nothing smaller.
LEMMA FactorGrows ==
    ASSUME NEW m \in Nat \ {0}, NEW x \in Nat
    PROVE  m * x \in Nat /\ x <= m * x
OBVIOUS

\* The uncapped delay exists for every attempt, and no attempt has a smaller one
\* than those before it.
LEMMA GrownGrows ==
    ASSUME NEW policy \in [base : Nat \ {0}, multiplier : Nat \ {0}, max : Nat]
    PROVE  \A n \in 1 .. MaxAttempts : \A i \in 1 .. n :
              Grown(policy)[i] \in Nat /\ Grown(policy)[i] <= Grown(policy)[n]
<1> DEFINE base == policy.base
           m == policy.multiplier
           N == MaxAttempts
           Rule(g) == g = [n \in 1 .. N |-> IF n = 1 THEN base ELSE m * g[n - 1]]
           Steps(g, n) == g[1] = base /\ \A i \in 2 .. n : g[i] = m * g[i - 1]
           Reached == {n \in 1 .. N : \E g : Steps(g, n)}
<1>1. base \in Nat /\ m \in Nat \ {0} /\ N \in Nat \ {0}
  BY QueueConstants
<1> HIDE DEF base, m, N
<1>2. 1 \in Reached
  <2> DEFINE g == [i \in 1 .. 1 |-> base]
  <2>1. g[1] = base
    OBVIOUS
  <2>2. \A i \in 2 .. 1 : FALSE
    OBVIOUS
  <2> HIDE DEF g
  <2>3. Steps(g, 1)
    BY <2>1, <2>2
  <2>4. QED
    BY <1>1, <2>3
<1>3. ASSUME NEW n \in 2 .. N, n - 1 \in Reached
      PROVE  n \in Reached
  <2>1. PICK g : Steps(g, n - 1)
    BY <1>3
  <2> DEFINE h == [i \in 1 .. n |-> IF i = n THEN m * g[n - 1] ELSE g[i]]
  <2>2. h[1] = base
    BY <1>1, <2>1
  <2>3. ASSUME NEW i \in 2 .. n
        PROVE  h[i] = m * h[i - 1]
    <3>1. i \in 1 .. n /\ i - 1 \in 1 .. n /\ i - 1 # n /\ (i # n => i \in 2 .. n - 1)
      BY <1>1
    <3>2. h[i - 1] = g[i - 1]
      BY <3>1
    <3>3. CASE i = n
      BY <3>1, <3>2, <3>3
    <3>4. CASE i # n
      <4>1. h[i] = g[i] /\ g[i] = m * g[i - 1]
        BY <2>1, <3>1, <3>4
      <4>2. QED
        BY <3>2, <4>1
    <3>5. QED
      BY <3>3, <3>4
  <2> HIDE DEF h
  <2>4. QED
    BY <1>1, <2>2, <2>3
<1>4. 1 .. N \subseteq Reached
  <2> HIDE DEF Reached
  <2>1. QED
    BY <1>1, <1>2, <1>3, UpTo
<1>5. \E g : Rule(g)
  <2>1. N \in Reached
    BY <1>1, <1>4
  <2>2. PICK g : Steps(g, N)
    BY <2>1
  <2> DEFINE f == [n \in 1 .. N |-> g[n]]
  <2>3. ASSUME NEW n \in 1 .. N
        PROVE  f[n] = IF n = 1 THEN base ELSE m * f[n - 1]
    <3>1. n # 1 => n \in 2 .. N /\ n - 1 \in 1 .. N
      BY <1>1
    <3>2. QED
      BY <2>2, <3>1
  <2>4. Rule(f)
    BY <2>3
  <2>5. QED
    BY <2>4
<1> DEFINE grown == CHOOSE g : Rule(g)
<1>6. Rule(grown)
  <2> HIDE DEF Rule
  <2>1. QED
    BY <1>5
<1>7. Grown(policy) = grown
  BY DEF Grown, N, m, base
<1>8. \A n \in 1 .. N : grown[n] = IF n = 1 THEN base ELSE m * grown[n - 1]
  BY <1>6
<1> HIDE DEF grown, Rule, Steps, Reached
<1> DEFINE Above == {n \in 1 .. N : \A i \in 1 .. n : grown[i] \in Nat /\ grown[i] <= grown[n]}
<1>9. 1 \in Above
  <2>1. grown[1] = base
    BY <1>1, <1>8
  <2>2. QED
    BY <1>1, <2>1
<1>10. ASSUME NEW n \in 2 .. N, n - 1 \in Above
       PROVE  n \in Above
  <2>1. n \in 1 .. N /\ n # 1 /\ n - 1 \in 1 .. N
    BY <1>1
  <2>2. grown[n] = m * grown[n - 1]
    BY <1>8, <2>1
  <2>3. /\ grown[n - 1] \in Nat
        /\ \A i \in 1 .. n - 1 : grown[i] \in Nat /\ grown[i] <= grown[n - 1]
    BY <1>10
  <2>4. grown[n] \in Nat /\ grown[n - 1] <= grown[n]
    BY <1>1, <2>2, <2>3, FactorGrows
  <2>5. ASSUME NEW i \in 1 .. n
        PROVE  grown[i] \in Nat /\ grown[i] <= grown[n]
    <3>1. CASE i = n
      BY <2>4, <3>1
    <3>2. CASE i # n
      <4>1. grown[i] \in Nat /\ grown[i] <= grown[n - 1]
        BY <2>3, <3>2
      <4>2. QED
        BY <2>3, <2>4, <4>1
    <3>3. QED
      BY <3>1, <3>2
  <2>6. QED
    BY <2>1, <2>4, <2>5
<1>11. 1 .. N \subseteq Above
  <2> HIDE DEF Above
  <2>1. QED
    BY <1>1, <1>9, <1>10, UpTo
<1>12. QED
  BY <1>7, <1>11 DEF N

\* Whatever the queue does, a job keeps what enqueue stored, and its attempts only
\* rise.
LEMMA AttemptsRise ==
    ASSUME IInv, [Next]_queueVars, NEW k \in DOMAIN jobs
    PROVE  /\ k \in DOMAIN jobs'
           /\ jobs'[k].seq = jobs[k].seq /\ jobs'[k].payload = jobs[k].payload
           /\ jobs[k].attempts <= jobs'[k].attempts
           /\ jobs[k].attempts \in 0 .. MaxAttempts /\ jobs'[k].attempts \in 0 .. MaxAttempts
<1>1. jobs[k] \in Job /\ JobOK(jobs[k])
  BY DEF IInv, TypeOK, StateOK
<1>2. CASE AllMove
  <2>1. k \in DOMAIN jobs' /\ JobMove(jobs[k], jobs'[k])
    BY <1>2 DEF AllMove
  <2>2. /\ jobs'[k] \in Job
        /\ jobs'[k].seq = jobs[k].seq /\ jobs'[k].payload = jobs[k].payload
    BY <1>1, <2>1, MoveKeepsJob
  <2>3. \/ jobs'[k].attempts = jobs[k].attempts
        \/ jobs'[k].attempts = jobs[k].attempts + 1
    BY <1>1, <2>1, MoveCharges
  <2>4. jobs[k].attempts \in 0 .. MaxAttempts /\ jobs'[k].attempts \in 0 .. MaxAttempts
    BY <1>1, <2>2 DEF Job
  <2>5. QED
    BY <2>1, <2>2, <2>3, <2>4, QueueConstants
<1>3. CASE \E j \in Keys, p \in Priorities, d \in Payloads : Enqueue(j, p, d)
  <2>1. k \in DOMAIN jobs' /\ jobs'[k] = jobs[k]
    BY <1>3 DEF Enqueue
  <2>2. jobs[k].attempts \in 0 .. MaxAttempts
    BY <1>1 DEF Job
  <2>3. QED
    BY <2>1, <2>2, QueueConstants
<1>4. QED
  BY <1>2, <1>3, StepMoves

Copies == [key : Keys, seq : Nat, priority : Priorities, payload : Payloads,
           status : Statuses, attempts : 0 .. MaxAttempts,
           owner : Workers \cup {NoWorker}, expires : Times]

\* What remains true of a copy of a job, of a grave and of a retry decision, however
\* long ago they were made.
CopyTrue(c) ==
    /\ c \in Copies /\ BuryJobOK(c)
    /\ c.key \in DOMAIN jobs
    /\ c.seq = jobs[c.key].seq /\ c.payload = jobs[c.key].payload
    /\ c.attempts <= jobs[c.key].attempts
GraveTrue(g) ==
    /\ g.key \in DOMAIN jobs
    /\ jobs[g.key].attempts = MaxAttempts
    /\ g.attempts = jobs[g.key].attempts
    /\ g.seq = jobs[g.key].seq
    /\ g.payload = jobs[g.key].payload
RetryTrue(r) ==
    /\ r.key \in DOMAIN jobs
    /\ r.attempts \in 1 .. MaxAttempts /\ r.attempts <= jobs[r.key].attempts
    /\ r.policy \in Policies
    /\ r.decision = "retry" =>
          /\ r.attempts < MaxAttempts /\ r.delay = Delay(r.policy, r.attempts)
          /\ r.retry_at <= MaxNow
    /\ r.decision = "dead" /\ r.failure # "permanent" => r.attempts = MaxAttempts

PolicyInv ==
    /\ IInv
    /\ \A c \in seen : CopyTrue(c)
    /\ \A g \in graves : GraveTrue(g)
    /\ \A r \in retries : RetryTrue(r)

\* A copy of a job the queue holds is accepted, and says the truth.
LEMMA CopyOfJob ==
    ASSUME PolicyConstants, IInv, NEW k \in DOMAIN jobs
    PROVE  CopyTrue(Copy(k))
<1>1. jobs[k] \in Job /\ JobOK(jobs[k]) /\ k \in Keys
  BY DEF IInv, TypeOK, StateOK
<1>2. Copy(k) \in Copies
  BY <1>1 DEF Copy, Copies, Job
<1>3. BuryJobOK(Copy(k))
  BY <1>1, QueueConstants
     DEF PolicyConstants, BuryJobOK, LeaseShapeOK, PayloadOK, Copy, JobOK, Job, Times
<1>4. jobs[k].attempts \in Nat
  BY <1>1, QueueConstants DEF Job
<1>5. QED
  BY <1>2, <1>3, <1>4 DEF CopyTrue, Copy

\* What a step of the queue leaves true.
LEMMA QueueKeepsTruth ==
    ASSUME PolicyInv, [Next]_queueVars, UNCHANGED policyVars
    PROVE  PolicyInv'
<1>1. /\ seen' = seen /\ graves' = graves /\ retries' = retries
  BY DEF policyVars
<1>2. IInv'
  BY NextIInv DEF PolicyInv
<1>3. ASSUME NEW c \in seen
      PROVE  CopyTrue(c)'
  <2>1. CopyTrue(c)
    BY DEF PolicyInv
  <2>2. c.attempts \in Int
    BY <2>1, QueueConstants DEF CopyTrue, Copies
  <2>3. QED
    BY <2>1, <2>2, AttemptsRise, QueueConstants
       DEF PolicyInv, CopyTrue, BuryJobOK, LeaseShapeOK, PayloadOK
<1>4. ASSUME NEW g \in graves
      PROVE  GraveTrue(g)'
  <2>1. GraveTrue(g)
    BY DEF PolicyInv
  <2>2. jobs'[g.key].attempts = MaxAttempts
    BY <2>1, AttemptsRise, QueueConstants DEF PolicyInv, GraveTrue
  <2>3. QED
    BY <2>1, <2>2, AttemptsRise DEF PolicyInv, GraveTrue
<1>5. ASSUME NEW r \in retries
      PROVE  RetryTrue(r)'
  <2>1. RetryTrue(r)
    BY DEF PolicyInv
  <2>2. r.key \in DOMAIN jobs' /\ r.attempts <= jobs'[r.key].attempts
    BY <2>1, AttemptsRise, QueueConstants DEF PolicyInv, RetryTrue
  <2>3. QED
    BY <2>1, <2>2 DEF RetryTrue, Delay, Grown
<1>6. QED
  BY <1>1, <1>2, <1>3, <1>4, <1>5 DEF PolicyInv

\* While the queue stands still, what was true stays true.
LEMMA StillTrue ==
    ASSUME UNCHANGED queueVars
    PROVE  /\ IInv => IInv'
           /\ \A c : CopyTrue(c) => CopyTrue(c)'
           /\ \A g : GraveTrue(g) => GraveTrue(g)'
           /\ \A r : RetryTrue(r) => RetryTrue(r)'
<1>1. jobs' = jobs /\ next_seq' = next_seq
  BY DEF queueVars
<1>2. IInv => IInv'
  BY <1>1 DEF IInv, TypeOK, StateOK, JobOK
<1>3. \A c : CopyTrue(c) => CopyTrue(c)'
  BY <1>1 DEF CopyTrue, BuryJobOK, LeaseShapeOK, PayloadOK
<1>4. \A g : GraveTrue(g) => GraveTrue(g)'
  BY <1>1 DEF GraveTrue
<1>5. \A r : RetryTrue(r) => RetryTrue(r)'
  BY <1>1 DEF RetryTrue, Delay, Grown
<1>6. QED
  BY <1>2, <1>3, <1>4, <1>5

\* A job that is presented for burial and accepted is the copy but for its status,
\* and the copy is out of attempts.
LEMMA BuriedTrue ==
    ASSUME PolicyConstants, NEW c, CopyTrue(c), NEW job \in {c} \cup Forged(c), Buriable(job)
    PROVE  /\ job.key = c.key /\ job.seq = c.seq /\ job.payload = c.payload
           /\ job.attempts = MaxAttempts /\ c.attempts = MaxAttempts
<1>1. c \in Copies
  BY DEF CopyTrue
<1>2. job.status = "dead" /\ job.attempts = MaxAttempts /\ job.payload # BadPayload
  BY DEF Buriable, BuryJobOK, PayloadOK
<1>3. CASE job = c
  BY <1>2, <1>3
<1>4. ASSUME NEW s \in Statuses, job = [c EXCEPT !.status = s]
      PROVE  job.key = c.key /\ job.seq = c.seq /\ job.payload = c.payload
             /\ job.attempts = c.attempts
  BY <1>1, <1>4 DEF Copies
<1>5. job # [c EXCEPT !.payload = BadPayload]
  BY <1>1, <1>2 DEF Copies
<1>6. QED
  BY <1>2, <1>3, <1>4, <1>5 DEF Forged

\* A reading or a decision keeps the truth of all of them.
LEMMA DecisionKeeps ==
    ASSUME PolicyConstants, PolicyInv, PolicyStep, UNCHANGED queueVars
    PROVE  PolicyInv'
<1> DEFINE Truth(cs, gs, rs) == /\ \A c \in cs : CopyTrue(c)
                                /\ \A g \in gs : GraveTrue(g)
                                /\ \A r \in rs : RetryTrue(r)
<1>1. SUFFICES Truth(seen', graves', retries')
  BY StillTrue DEF PolicyInv
<1>2. Truth(seen, graves, retries)
  BY DEF PolicyInv
<1>3. ASSUME NEW k \in Keys, Read(k)
      PROVE  Truth(seen', graves', retries')
  BY <1>2, <1>3, CopyOfJob DEF Read, PolicyInv
<1>4. ASSUME NEW c \in seen, NEW failure \in Failures, NEW now \in Times,
             NEW policy \in Policies, Retry(c.key, c.attempts, failure, now, policy)
      PROVE  Truth(seen', graves', retries')
  <2>1. PICK r : /\ retries' = retries \cup {r}
                 /\ r.key = c.key /\ r.attempts = c.attempts /\ r.failure = failure
                 /\ r.policy = policy
                 /\ \/ r.decision = "dead" /\ Dead(c.attempts, failure)
                    \/ /\ r.decision = "retry" /\ ~ Dead(c.attempts, failure)
                       /\ r.delay = Delay(policy, c.attempts)
                       /\ r.retry_at <= MaxNow
    <3>1. CASE Dead(c.attempts, failure)
      <4> DEFINE r == [key |-> c.key, attempts |-> c.attempts, failure |-> failure,
                       policy |-> policy, decision |-> "dead", delay |-> 0,
                       retry_at |-> 0]
      <4>1. retries' = retries \cup {r}
        BY <1>4, <3>1 DEF Retry
      <4>2. /\ r.key = c.key /\ r.attempts = c.attempts /\ r.failure = failure
            /\ r.policy = policy /\ r.decision = "dead"
        OBVIOUS
      <4> HIDE DEF r
      <4>3. QED
        BY <3>1, <4>1, <4>2
    <3>2. CASE ~ Dead(c.attempts, failure)
      <4> DEFINE delay == Delay(policy, c.attempts)
                 r == [key |-> c.key, attempts |-> c.attempts, failure |-> failure,
                       policy |-> policy, decision |-> "retry", delay |-> delay,
                       retry_at |-> now + delay]
      <4>1. retries' = retries \cup {r} /\ now + delay <= MaxNow
        BY <1>4, <3>2 DEF Retry
      <4> HIDE DEF delay
      <4>2. /\ r.key = c.key /\ r.attempts = c.attempts /\ r.failure = failure
            /\ r.policy = policy /\ r.decision = "retry" /\ r.delay = delay
            /\ r.retry_at <= MaxNow
        BY <4>1
      <4> HIDE DEF r
      <4>3. QED
        BY <3>2, <4>1, <4>2 DEF delay
    <3>3. QED
      BY <3>1, <3>2
  <2>2. CopyTrue(c) /\ c.attempts \in 1 .. MaxAttempts
    BY <1>2, <1>4 DEF Retry
  <2>3. RetryTrue(r)
    BY <2>1, <2>2, QueueConstants DEF RetryTrue, CopyTrue, Dead
  <2>4. seen' = seen /\ graves' = graves
    BY <1>4 DEF Retry
  <2>5. QED
    BY <1>2, <2>1, <2>3, <2>4
<1>5. ASSUME NEW c \in seen, NEW job \in {c} \cup Forged(c), NEW reason \in Reasons,
             NEW now \in Times, Bury(job, reason, now)
      PROVE  Truth(seen', graves', retries')
  <2> DEFINE g == [key |-> job.key, seq |-> job.seq, priority |-> job.priority,
                   payload |-> job.payload, attempts |-> job.attempts,
                   reason |-> reason, buried_at |-> now]
  <2>1. /\ graves' = graves \cup {g} /\ seen' = seen /\ retries' = retries
        /\ Buriable(job)
    BY <1>5 DEF Bury
  <2>2. CopyTrue(c)
    BY <1>2
  <2>3. /\ job.key = c.key /\ job.seq = c.seq /\ job.payload = c.payload
        /\ job.attempts = MaxAttempts /\ c.attempts = MaxAttempts
    BY <2>1, <2>2, BuriedTrue
  <2>4. jobs[c.key].attempts \in 0 .. MaxAttempts
    BY <2>2 DEF PolicyInv, IInv, TypeOK, CopyTrue, Job
  <2>5. GraveTrue(g)
    BY <2>2, <2>3, <2>4, QueueConstants DEF GraveTrue, CopyTrue
  <2>6. QED
    BY <1>2, <2>1, <2>5
<1>6. ASSUME NEW c \in seen, NEW job \in {c} \cup Forged(c), NEW requester \in Requesters,
             NEW now \in Times, Cancel(job, requester, now)
      PROVE  Truth(seen', graves', retries')
  BY <1>2, <1>6 DEF Cancel
<1> HIDE DEF Truth
<1>7. QED
  BY <1>3, <1>4, <1>5, <1>6 DEF PolicyStep

\* The copies, graves and decisions stay true in every reachable state.
LEMMA PolicyInvariance == ASSUME PolicyConstants PROVE PolicySpec => []PolicyInv
<1>1. PolicyInit => PolicyInv
  BY InitIInv DEF PolicyInit, PolicyInv
<1>2. PolicyInv /\ [PolicyNext]_allVars => PolicyInv'
  <2> SUFFICES ASSUME PolicyInv, [PolicyNext]_allVars PROVE PolicyInv'
    OBVIOUS
  <2>1. CASE Next /\ UNCHANGED policyVars
    BY <2>1, QueueKeepsTruth
  <2>2. CASE PolicyStep /\ UNCHANGED queueVars
    BY <2>2, DecisionKeeps
  <2>3. CASE UNCHANGED allVars
    <3>1. UNCHANGED queueVars /\ UNCHANGED policyVars
      BY <2>3 DEF allVars, queueVars, policyVars
    <3>2. QED
      BY <3>1, QueueKeepsTruth
  <2>4. QED
    BY <2>1, <2>2, <2>3 DEF PolicyNext
<1>3. QED
  BY <1>1, <1>2, PTL DEF PolicySpec

\* Whatever copies callers present, old or forged in their status or payload: a job
\* the queue holds is never refused as corrupt, a job that is buried is out of
\* attempts and the entry says what it is, a retry that was promised is not denied
\* by the queue, and delays grow with the attempts (jobs_retry.py,
\* jobs_dead_letter.py, jobs_cancel.py).
THEOREM DecisionsStayTrue ==
    ASSUME PolicyConstants PROVE PolicySpec => []DecisionsAgree
<1>1. PolicyInv => DecisionsAgree
  <2> SUFFICES ASSUME PolicyInv PROVE DecisionsAgree
    OBVIOUS
  <2>1. PoliciesAccept
    <3>1. ASSUME NEW c, CopyTrue(c)
          PROVE  BuryJobOK(c) /\ CancelJobOK(c)
      BY <3>1 DEF CopyTrue, BuryJobOK, CancelJobOK
    <3>2. QED
      BY <3>1, CopyOfJob DEF PoliciesAccept, PolicyInv
  <2>2. GravesTrue
    BY DEF PolicyInv, GravesTrue, GraveTrue
  <2>3. RetryHonoured
    <3>1. ASSUME NEW r \in retries, r.decision = "retry", jobs[r.key].status = "dead"
          PROVE  jobs[r.key].attempts # r.attempts
      <4>1. jobs[r.key].attempts = MaxAttempts
        BY <3>1 DEF PolicyInv, RetryTrue, IInv, StateOK, JobOK
      <4>2. QED
        BY <3>1, <4>1, QueueConstants DEF PolicyInv, RetryTrue
    <3>2. QED
      BY <3>1 DEF RetryHonoured
  <2>4. BackoffOrdered
    <3>1. ASSUME NEW r \in retries, r.decision = "retry"
          PROVE  /\ r.policy \in [base : Nat \ {0}, multiplier : Nat \ {0}, max : Nat]
                 /\ r.attempts \in 1 .. MaxAttempts /\ r.retry_at <= MaxNow
                 /\ r.delay = Delay(r.policy, r.attempts)
      BY <3>1 DEF PolicyInv, RetryTrue, PolicyConstants
    <3>2. ASSUME NEW r \in retries, r.decision = "retry"
          PROVE  r.delay <= r.policy.max
      <4>1. Grown(r.policy)[r.attempts] \in Nat /\ r.policy.max \in Nat
        BY <3>1, <3>2, GrownGrows, QueueConstants
      <4>2. QED
        BY <3>1, <3>2, <4>1 DEF Delay
    <3>3. ASSUME NEW r \in retries, r.decision = "retry",
                 NEW q \in retries, q.decision = "retry", q.policy = r.policy,
                 q.attempts <= r.attempts
          PROVE  q.delay <= r.delay
      <4> DEFINE a == Grown(r.policy)[q.attempts]
                 b == Grown(r.policy)[r.attempts]
                 m == r.policy.max
      <4>1. q.attempts \in 1 .. r.attempts /\ r.attempts \in 1 .. r.attempts
        BY <3>1, <3>3, QueueConstants
      <4>2. a \in Nat /\ b \in Nat /\ a <= b /\ m \in Nat
        BY <3>1, <3>3, <4>1, GrownGrows
      <4>3. q.delay = IF a < m THEN a ELSE m
        BY <3>1, <3>3 DEF Delay
      <4>4. r.delay = IF b < m THEN b ELSE m
        BY <3>1, <3>3 DEF Delay
      <4> HIDE DEF a, b, m
      <4>5. QED
        BY <4>2, <4>3, <4>4
    <3>4. QED
      BY <3>1, <3>2, <3>3 DEF BackoffOrdered
  <2>5. QED
    BY <2>1, <2>2, <2>3, <2>4 DEF DecisionsAgree
<1>2. QED
  BY <1>1, PolicyInvariance, PTL

\* A job that the retry policy gave up as exhausted is never leased again: the
\* policy and the queue count the same attempts against the same limit, and the
\* count the policy saw is never above the queue's.
THEOREM GivenUpStays == ASSUME PolicyConstants PROVE PolicySpec => DeadHonoured
<1> DEFINE A == \A r \in retries : r.decision = "dead" /\ r.failure # "permanent" =>
                   jobs'[r.key].attempts = jobs[r.key].attempts
<1>1. ASSUME PolicyInv, [PolicyNext]_allVars
      PROVE  A
  <2>1. [Next]_queueVars
    BY <1>1 DEF PolicyNext, allVars, queueVars
  <2>2. ASSUME NEW r \in retries, r.decision = "dead" /\ r.failure # "permanent"
        PROVE  jobs'[r.key].attempts = jobs[r.key].attempts
    <3>1. /\ r.key \in DOMAIN jobs /\ r.attempts = MaxAttempts
          /\ MaxAttempts <= jobs[r.key].attempts
      BY <1>1, <2>2 DEF PolicyInv, RetryTrue
    <3>2. QED
      BY <1>1, <2>1, <3>1, AttemptsRise, QueueConstants DEF PolicyInv
  <2>3. QED
    BY <2>2
<1>2. PolicyInv /\ [PolicyNext]_allVars => [A]_allVars
  BY <1>1
<1>3. QED
  BY <1>2, PolicyInvariance, PTL DEF PolicySpec, DeadHonoured

-----------------------------------------------------------------------------
(***************************************************************************)
(* The properties hold for any reporters, totals, scales and clocks, and   *)
(* for chains of any length.  A record that was handed over or damaged     *)
(* still carries the identifier of the last report of its chain, and if it *)
(* passes the check of its identifier, it is that report in every field.   *)
(***************************************************************************)

Fields == {"worker", "done", "total", "percent", "at", "previous", "sealed"}
IsRecord(r) == r = [f \in Fields |-> r[f]]

\* A record as the function issues it.
Issued(r) ==
    /\ IsRecord(r) /\ PreviousOK(r)
    /\ r.total \in Nat /\ r.done \in Nat /\ r.at \in Nat /\ r.percent \in Nat
    /\ r.percent = BP <=> r.done = r.total

\* From one report of a chain to a later one.
Follows(q, r) ==
    /\ q.total = r.total /\ q.worker = r.worker
    /\ q.done <= r.done /\ q.percent <= r.percent /\ q.at <= r.at
    /\ q.done < q.total

IsChain(c) ==
    /\ \E S : c \in Seq(S)
    /\ \A i \in DOMAIN c : Issued(c[i])
    /\ \A i, j \in DOMAIN c : i < j => Follows(c[i], c[j])

\* What a reporter holds, and the chain it is the end of.
EndOf(r, c) ==
    /\ IsChain(c)
    /\ \/ r = <<>> /\ c = <<>>
       \/ IsRecord(r) /\ c # <<>> /\ r.sealed = c[Len(c)].sealed

ProgressInv ==
    /\ DOMAIN last = Reporters /\ DOMAIN chain = Reporters
    /\ last = [w \in Reporters |-> last[w]] /\ chain = [w \in Reporters |-> chain[w]]
    /\ \A w \in Reporters : EndOf(last[w], chain[w])

-----------------------------------------------------------------------------
\* Rounding down: the quotient and its rest.
LEMMA Quotient ==
    ASSUME NEW d \in Nat, NEW t \in Nat \ {0}
    PROVE  /\ d \div t \in Nat
           /\ (d \div t) * t <= d
           /\ d < (d \div t) * t + t
BY SMT

\* More work is no smaller a share.
LEMMA ShareGrows ==
    ASSUME ProgressConstants, NEW a \in Nat, NEW b \in Nat, NEW t \in Nat \ {0}, a <= b
    PROVE  Percent(a, t) <= Percent(b, t)
<1> DEFINE x == a * BP
           y == b * BP
           p == x \div t
           q == y \div t
<1>1. x \in Nat /\ y \in Nat /\ x <= y
  BY SMT DEF ProgressConstants
<1>2. p \in Nat /\ q \in Nat /\ p * t <= x /\ y < q * t + t
  BY <1>1, Quotient
<1>3. Percent(a, t) = p /\ Percent(b, t) = q
  BY DEF Percent
<1> HIDE DEF x, y, p, q
<1>4. ASSUME q < p PROVE FALSE
  <2>1. (q + 1) * t <= p * t /\ (q + 1) * t = q * t + t /\ p * t \in Int /\ q * t \in Int
    BY <1>2, <1>4, SMT
  <2>2. QED
    BY <1>1, <1>2, <2>1
<1>5. QED
  BY <1>2, <1>3, <1>4

\* The whole is the whole of the work and nothing less.
LEMMA WholeShare ==
    ASSUME ProgressConstants, NEW t \in Nat \ {0}, NEW d \in 0 .. t
    PROVE  Percent(d, t) \in Nat /\ (Percent(d, t) = BP <=> d = t)
<1> DEFINE x == d * BP
           q == x \div t
<1>1. d \in Nat /\ d <= t /\ BP \in Nat \ {0}
  BY DEF ProgressConstants
<1>2. x \in Nat
  BY <1>1, SMT
<1>3. q \in Nat /\ q * t <= x /\ x < q * t + t
  BY <1>2, Quotient
<1>4. Percent(d, t) = q
  BY DEF Percent
<1>5. d = t => x = BP * t
  BY <1>1, SMT
<1>6. d < t => x < BP * t
  BY <1>1, SMT
<1> HIDE DEF x, q
<1>7. ASSUME d = t, q # BP PROVE FALSE
  <2>1. CASE q < BP
    <3>1. (q + 1) * t <= BP * t /\ (q + 1) * t = q * t + t
      BY <1>1, <1>3, <2>1, SMT
    <3>2. QED
      BY <1>2, <1>3, <1>5, <1>7, <3>1
  <2>2. CASE BP < q
    <3>1. (BP + 1) * t <= q * t /\ (BP + 1) * t = BP * t + t
      BY <1>1, <1>3, <2>2, SMT
    <3>2. BP * t \in Int /\ q * t \in Int
      BY <1>1, <1>3, SMT
    <3>3. QED
      BY <1>2, <1>3, <1>5, <1>7, <3>1, <3>2
  <2>3. QED
    BY <1>1, <1>3, <1>7, <2>1, <2>2
<1>8. ASSUME d < t, q = BP PROVE FALSE
  BY <1>2, <1>3, <1>6, <1>8
<1>9. QED
  BY <1>1, <1>3, <1>4, <1>7, <1>8

\* The identifier is of every field.
LEMMA SameContent ==
    ASSUME NEW q, NEW r, PreviousOK(q), PreviousOK(r), q.sealed = r.sealed
    PROVE  q.worker = r.worker /\ q.done = r.done /\ q.total = r.total
           /\ q.percent = r.percent /\ q.at = r.at
BY DEF PreviousOK, Content

LEMMA RecordIs ==
    ASSUME ProgressConstants, NEW w, NEW total \in Nat \ {0}, NEW done \in 0 .. total,
           NEW at \in Moments, NEW previous
    PROVE  LET r == Record(w, done, total, at, previous)
           IN  /\ Issued(r) /\ r.worker = w /\ r.done = done /\ r.total = total /\ r.at = at
               /\ r.percent = Percent(done, total)
<1> DEFINE p == Percent(done, total)
           s == Content(w, done, total, p, at, previous)
           r == [worker |-> w, done |-> done, total |-> total, percent |-> p, at |-> at,
                 previous |-> previous, sealed |-> s]
<1>1. Record(w, done, total, at, previous) = r
  BY DEF Record
<1>2. p \in Nat /\ (p = BP <=> done = total)
  BY WholeShare
<1> HIDE DEF p, s
<1>3. IsRecord(r) /\ r.worker = w /\ r.done = done /\ r.total = total /\ r.at = at
      /\ r.percent = p /\ r.previous = previous /\ r.sealed = s
  BY DEF IsRecord, Fields
<1> HIDE DEF r
<1>4. total >= 1 /\ done \in Nat /\ total \in Nat /\ at \in Nat
  BY DEF Moments, ProgressConstants
<1>5. PreviousOK(r)
  BY <1>3, <1>4 DEF PreviousOK, p, s
<1>6. Issued(r)
  BY <1>2, <1>3, <1>4, <1>5 DEF Issued
<1>7. QED
  BY <1>1, <1>3, <1>6 DEF p

\* What follows a follower follows.
LEMMA FollowsOn ==
    ASSUME NEW o, NEW q, NEW r, Issued(o), Issued(q), Issued(r),
           Follows(o, q), Follows(q, r)
    PROVE  Follows(o, r)
<1>1. /\ o.done \in Nat /\ q.done \in Nat /\ r.done \in Nat
      /\ o.percent \in Nat /\ q.percent \in Nat /\ r.percent \in Nat
      /\ o.at \in Nat /\ q.at \in Nat /\ r.at \in Nat
  BY DEF Issued
<1>2. /\ o.total = q.total /\ o.worker = q.worker
      /\ o.done <= q.done /\ o.percent <= q.percent /\ o.at <= q.at
      /\ o.done < o.total
  BY DEF Follows
<1>3. /\ q.total = r.total /\ q.worker = r.worker
      /\ q.done <= r.done /\ q.percent <= r.percent /\ q.at <= r.at
  BY DEF Follows
<1>4. o.total = r.total /\ o.worker = r.worker
  BY <1>2, <1>3
<1>5. o.done <= r.done /\ o.percent <= r.percent /\ o.at <= r.at
  BY <1>1, <1>2, <1>3
<1>6. QED
  BY <1>2, <1>4, <1>5 DEF Follows

\* A report that follows the last one of a chain makes it longer by one.
LEMMA ChainGrows ==
    ASSUME NEW c, IsChain(c), NEW r, Issued(r),
           c # <<>> => Follows(c[Len(c)], r)
    PROVE  IsChain(Append(c, r)) /\ Append(c, r) # <<>>
           /\ Append(c, r)[Len(Append(c, r))] = r
<1> DEFINE d == Append(c, r)
           n == Len(c)
<1>1. PICK S : c \in Seq(S)
  BY DEF IsChain
<1>2. n \in Nat /\ DOMAIN c = 1 .. n /\ (n # 0 => c # <<>>)
  BY <1>1
<1>3. c \in Seq(S \union {r}) /\ r \in S \union {r}
  BY <1>1
<1>4. d \in Seq(S \union {r}) /\ Len(d) = n + 1 /\ d[n + 1] = r
      /\ \A i \in 1 .. n : d[i] = c[i]
  BY <1>3, AppendProperties
<1> HIDE DEF d, n
<1>5. DOMAIN d = 1 .. n + 1 /\ d # <<>> /\ \A i \in DOMAIN d : i \in 1 .. n \/ i = n + 1
  BY <1>2, <1>4
<1>6. \A i \in DOMAIN d : Issued(d[i])
  BY <1>2, <1>4, <1>5 DEF IsChain
<1>7. ASSUME NEW i \in DOMAIN d, NEW j \in DOMAIN d, i < j
      PROVE  Follows(d[i], d[j])
  <2>1. i \in 1 .. n
    BY <1>2, <1>5, <1>7
  <2>2. CASE j \in 1 .. n
    BY <2>1, <2>2, <1>2, <1>4, <1>7 DEF IsChain
  <2>3. CASE j = n + 1 /\ i = n
    <3>1. c # <<>> /\ c[n] = d[i] /\ d[j] = r
      BY <1>2, <1>4, <2>1, <2>3
    <3>2. QED
      BY <3>1 DEF n
  <2>4. CASE j = n + 1 /\ i # n
    <3>1. i < n /\ n \in 1 .. n /\ n \in DOMAIN c /\ i \in DOMAIN c /\ c # <<>>
      BY <1>2, <2>1, <2>4
    <3>2. Follows(c[i], c[n]) /\ Follows(c[n], r)
      BY <3>1 DEF IsChain, n
    <3>3. Issued(c[i]) /\ Issued(c[n]) /\ Issued(r)
      BY <3>1 DEF IsChain
    <3>4. Follows(c[i], r)
      BY <3>2, <3>3, FollowsOn
    <3>5. QED
      BY <1>4, <2>1, <2>4, <3>4
  <2>5. QED
    BY <1>5, <2>2, <2>3, <2>4
<1>8. IsChain(d)
  BY <1>4, <1>6, <1>7 DEF IsChain
<1>9. QED
  BY <1>4, <1>5, <1>8 DEF d

LEMMA ReportHeld ==
    ASSUME ProgressConstants, NEW r, NEW c, EndOf(r, c), NEW w, NEW total \in Nat \ {0},
           NEW done \in 0 .. total, NEW now \in Moments, NEW previous,
           r # <<>> => PreviousOK(r) /\ ChainOK(r, w, done, total, now)
    PROVE  LET new == Record(w, done, total, now, previous)
           IN  EndOf(new, Append(c, new))
<1> DEFINE new == Record(w, done, total, now, previous)
<1>1. Issued(new) /\ new.worker = w /\ new.done = done /\ new.total = total /\ new.at = now
      /\ new.percent = Percent(done, total)
  BY RecordIs
<1> HIDE DEF new
<1>2. ASSUME c # <<>> PROVE Follows(c[Len(c)], new)
  <2> DEFINE e == c[Len(c)]
  <2>1. IsRecord(r) /\ r.sealed = e.sealed
    BY <1>2 DEF EndOf
  <2>2. r # <<>>
    <3>1. DOMAIN r = Fields /\ "done" \in Fields
      BY <2>1 DEF IsRecord, Fields
    <3>2. DOMAIN <<>> = {}
      OBVIOUS
    <3>3. QED
      BY <3>1, <3>2
  <2>3. Issued(e)
    <3>1. PICK S : c \in Seq(S)
      BY DEF EndOf, IsChain
    <3>2. Len(c) \in DOMAIN c
      BY <1>2, <3>1
    <3>3. QED
      BY <3>2 DEF EndOf, IsChain
  <2> HIDE DEF e
  <2>4. e.worker = r.worker /\ e.done = r.done /\ e.total = r.total /\ e.percent = r.percent
        /\ e.at = r.at
    BY <2>1, <2>2, <2>3, SameContent DEF Issued
  <2>5. r.worker = w /\ r.total = total /\ r.done < r.total /\ done >= r.done /\ now >= r.at
    BY <2>2 DEF ChainOK
  <2>6. e.percent = Percent(e.done, e.total) /\ e.done \in Nat /\ done \in Nat
    BY <2>3 DEF Issued, PreviousOK
  <2>7. Percent(e.done, total) <= Percent(done, total)
    BY <2>4, <2>5, <2>6, ShareGrows
  <2>8. Follows(e, new)
    BY <1>1, <2>3, <2>4, <2>5, <2>6, <2>7 DEF Follows, Issued
  <2>9. QED
    BY <2>8 DEF e
<1>3. IsChain(Append(c, new)) /\ Append(c, new) # <<>>
      /\ Append(c, new)[Len(Append(c, new))] = new
  BY <1>1, <1>2, ChainGrows DEF EndOf
<1>4. EndOf(new, Append(c, new))
  BY <1>1, <1>3 DEF EndOf, Issued
<1>5. QED
  BY <1>4 DEF new

\* A damaged record keeps its identifier.
LEMMA DamageHeld ==
    ASSUME NEW r, NEW c, EndOf(r, c), r # <<>>, NEW d, NEW at, NEW t
    PROVE  EndOf([r EXCEPT !.done = d], c) /\ EndOf([r EXCEPT !.at = at], c)
           /\ EndOf([r EXCEPT !.total = t], c)
<1>1. IsRecord(r) /\ c # <<>> /\ r.sealed = c[Len(c)].sealed /\ IsChain(c)
  BY DEF EndOf
<1>2. IsRecord([r EXCEPT !.done = d]) /\ [r EXCEPT !.done = d].sealed = r.sealed
  BY <1>1 DEF IsRecord, Fields
<1>3. IsRecord([r EXCEPT !.at = at]) /\ [r EXCEPT !.at = at].sealed = r.sealed
  BY <1>1 DEF IsRecord, Fields
<1>4. IsRecord([r EXCEPT !.total = t]) /\ [r EXCEPT !.total = t].sealed = r.sealed
  BY <1>1 DEF IsRecord, Fields
<1>5. QED
  BY <1>1, <1>2, <1>3, <1>4 DEF EndOf

LEMMA EmptyHeld == EndOf(<<>>, <<>>)
<1>1. <<>> \in Seq({}) /\ DOMAIN <<>> = {}
  OBVIOUS
<1>2. QED
  BY <1>1 DEF EndOf, IsChain

LEMMA ProgressStep ==
    ASSUME ProgressConstants, ProgressInv, [ProgressNext]_progressVars
    PROVE  ProgressInv'
<1>1. ASSUME NEW w \in Reporters, NEW total \in Totals, NEW now \in Moments, NEW done \in 0 .. total,
             report(w, done, total, now)
      PROVE  ProgressInv'
  <2> DEFINE previous == IF last[w] = <<>> THEN <<>> ELSE last[w].sealed
             new == Record(w, done, total, now, previous)
  <2>1. last' = [last EXCEPT ![w] = new] /\ chain' = [chain EXCEPT ![w] = Append(@, new)]
    BY <1>1 DEF report
  <2>2. last[w] # <<>> => PreviousOK(last[w]) /\ ChainOK(last[w], w, done, total, now)
    BY <1>1 DEF report
  <2>3. total \in Nat \ {0}
    BY DEF ProgressConstants
  <2> HIDE DEF previous
  <2>4. EndOf(new, Append(chain[w], new))
    BY <2>2, <2>3, ReportHeld DEF ProgressInv
  <2> HIDE DEF new
  <2>5. QED
    BY <2>1, <2>4 DEF ProgressInv
<1>2. ASSUME NEW w \in Reporters, StartOver(w) PROVE ProgressInv'
  BY <1>2, EmptyHeld DEF StartOver, ProgressInv
<1>3. ASSUME NEW w \in Reporters, NEW v \in Reporters, HandOver(v, w) PROVE ProgressInv'
  BY <1>3 DEF HandOver, ProgressInv
<1>4. ASSUME NEW w \in Reporters, Damage(w) PROVE ProgressInv'
  <2>1. PICK r : last' = [last EXCEPT ![w] = r] /\
                 \/ \E d : r = [last[w] EXCEPT !.done = d]
                 \/ r = [last[w] EXCEPT !.at = 0]
                 \/ \E t : r = [last[w] EXCEPT !.total = t]
    BY <1>4 DEF Damage
  <2>2. EndOf(r, chain[w])
    <3>1. EndOf(last[w], chain[w]) /\ last[w] # <<>>
      BY <1>4 DEF Damage, ProgressInv
    <3>2. ASSUME NEW d, r = [last[w] EXCEPT !.done = d] PROVE EndOf(r, chain[w])
      <4>1. EndOf([last[w] EXCEPT !.done = d], chain[w])
        BY <3>1, DamageHeld
      <4>2. QED
        BY ONLY <3>2, <4>1
    <3>3. ASSUME r = [last[w] EXCEPT !.at = 0] PROVE EndOf(r, chain[w])
      <4>1. EndOf([last[w] EXCEPT !.at = 0], chain[w])
        BY <3>1, DamageHeld
      <4>2. QED
        BY ONLY <3>3, <4>1
    <3>4. ASSUME NEW t, r = [last[w] EXCEPT !.total = t] PROVE EndOf(r, chain[w])
      <4>1. EndOf([last[w] EXCEPT !.total = t], chain[w])
        BY <3>1, DamageHeld
      <4>2. QED
        BY ONLY <3>4, <4>1
    <3>5. QED
      BY <2>1, <3>2, <3>3, <3>4
  <2>3. QED
    BY <1>4, <2>1, <2>2 DEF Damage, ProgressInv
<1>5. CASE UNCHANGED progressVars
  BY <1>5 DEF progressVars, ProgressInv
<1>6. QED
  BY <1>1, <1>2, <1>3, <1>4, <1>5 DEF ProgressNext

\* Whoever holds, loses or damages records, along a chain of reports nothing goes
\* back, nothing follows completion, and 100 percent is said of complete work only.
THEOREM ReportsStayHonest ==
    ASSUME ProgressConstants PROVE ProgressSpec => [](ChainMonotone /\ IssuedHonest)
<1>1. ProgressInit => ProgressInv
  BY EmptyHeld DEF ProgressInit, ProgressInv
<1>2. ProgressInv /\ [ProgressNext]_progressVars => ProgressInv'
  BY ProgressStep
<1>3. ProgressInv => ChainMonotone /\ IssuedHonest
  BY DEF ProgressInv, EndOf, IsChain, Follows, Issued, ChainMonotone, IssuedHonest
<1>4. QED
  BY <1>1, <1>2, <1>3, PTL DEF ProgressSpec

-----------------------------------------------------------------------------
\* RateBounded for every capacity, refill period and clock range.  It is not
\* inductive: it forgets the tokens that are left and the part of a refill period
\* that has already passed.  LimitInv says that a window's spending and the tokens
\* left never exceed the capacity and what was refilled up to updated_at, where
\* the refill is counted in milliseconds so that the partial period at the
\* window's start is not lost.

\* The requests so far, and the window under observation.
Shape ==
    /\ bucket.decision \in {"none", "admit", "deny"}
    /\ bucket.tokens \in 0..Capacity
    /\ bucket.updated_at \in 0..MaxTime
    /\ asked \in Clock /\ since \in Clock /\ latest \in Clock /\ spent \in Nat

Budget(b) == (spent + b.tokens - Capacity) * Refill <= b.updated_at - since

LimitInv ==
    /\ Shape
    /\ bucket.decision = "none" =>
          /\ bucket = NoBucket
          /\ asked = 0 /\ spent = 0 /\ since = 0 /\ latest = 0
    /\ Budget(bucket)
    /\ bucket.updated_at <= asked
    /\ asked <= latest
    /\ since <= latest

-----------------------------------------------------------------------------
\* How a bucket refills: the tokens it holds at time t and their base stay within
\* what the elapsed time allows.
LEMMA Refilled ==
    ASSUME Shape, bucket.decision # "none",
           NEW t \in Clock, t >= bucket.updated_at
    PROVE  LET n == Tokens(bucket, t)
               b == Base(bucket, t)
           IN /\ n \in 0..Capacity
              /\ b \in 0..MaxTime /\ b <= t
              /\ (n - bucket.tokens) * Refill <= b - bucket.updated_at
              /\ n < Capacity => t < b + Refill
<1> DEFINE g == Gained(bucket, t)
           u == bucket.updated_at
<1>1. /\ bucket.tokens \in Nat /\ u \in Nat /\ t \in Nat /\ t - u \in Nat
      /\ Capacity \in Nat /\ Refill \in Nat \ {0} /\ MaxTime \in Nat
  BY LimitConstants DEF Shape, Clock
<1>2. g \in Nat /\ g * Refill <= t - u /\ t - u < g * Refill + Refill
  BY <1>1, Quotient DEF Gained
<1>3. g * Refill \in Nat
  BY <1>1, <1>2
<1> HIDE DEF g
<1>4. CASE Full(bucket, t)
  <2>1. Capacity - bucket.tokens <= g
    BY <1>1, <1>2, <1>4 DEF Full, Shape, g
  <2>2. (Capacity - bucket.tokens) * Refill <= g * Refill
    BY <1>1, <1>2, <2>1
  <2>3. Tokens(bucket, t) = Capacity /\ Base(bucket, t) = t
    BY <1>4 DEF Tokens, Base
  <2>4. QED
    BY <1>1, <1>2, <1>3, <2>2, <2>3 DEF Clock
<1>5. CASE ~ Full(bucket, t)
  <2>1. Tokens(bucket, t) = bucket.tokens + g /\ Base(bucket, t) = u + g * Refill
    BY <1>5 DEF Tokens, Base, g
  <2>2. bucket.tokens + g < Capacity
    BY <1>1, <1>2, <1>5 DEF Full, g
  <2>3. (bucket.tokens + g) - bucket.tokens = g
    BY <1>1, <1>2
  <2>4. u + g * Refill <= t /\ t < (u + g * Refill) + Refill
    BY <1>1, <1>2, <1>3
  <2>5. u + g * Refill \in 0..MaxTime
    BY <1>1, <1>3, <2>4 DEF Clock
  <2>6. (u + g * Refill) - u = g * Refill
    BY <1>1, <1>3
  <2>7. bucket.tokens + g \in 0..Capacity
    BY <1>1, <1>2, <2>2
  <2>8. QED
    BY <2>1, <2>2, <2>3, <2>4, <2>5, <2>6, <2>7, <1>3
<1>6. QED
  BY <1>4, <1>5

\* The arithmetic of one request: what is spent and left afterwards.
LEMMA Spending ==
    ASSUME NEW c \in Nat, NEW r \in Nat \ {0}, NEW s \in Nat, NEW n \in Nat,
           NEW k \in Nat, NEW m \in Nat, NEW u \in Nat, NEW b \in Nat,
           NEW f \in Nat,
           (s + k - c) * r <= u - f,
           (n - k) * r <= b - u
    PROVE  ((s + m) + (n - m) - c) * r <= b - f
<1>1. (s + m) + (n - m) - c = (s + k - c) + (n - k)
  OBVIOUS
<1>2. ((s + k - c) + (n - k)) * r = (s + k - c) * r + (n - k) * r
  OBVIOUS
<1>3. (s + k - c) * r \in Int /\ (n - k) * r \in Int
  OBVIOUS
<1>4. QED
  BY <1>1, <1>2, <1>3

\* Before the first request nothing is spent.
LEMMA LimitInitInv == LimitInit => LimitInv
BY LimitConstants DEF LimitInit, LimitInv, Shape, Budget, NoBucket, Clock

\* A request that admits cost m (0 when it denies) and leaves n - m tokens keeps
\* the invariant, whether or not a window begins with it.
LEMMA RequestKeepsLimit ==
    ASSUME LimitInv, NEW t \in Clock, t >= bucket.updated_at,
           NEW m \in Nat, NEW first \in BOOLEAN,
           m <= Tokens(bucket, t),
           bucket'.decision \in {"admit", "deny"},
           bucket'.tokens = Tokens(bucket, t) - m,
           bucket'.updated_at = Base(bucket, t),
           asked' = t, Observe(first, m, t)
    PROVE  LimitInv'
<1> DEFINE n == Tokens(bucket, t)
           b == Base(bucket, t)
<1>1. /\ Capacity \in Nat \ {0} /\ Refill \in Nat \ {0} /\ MaxTime \in Nat
      /\ t \in Nat /\ bucket.tokens \in Nat /\ bucket.updated_at \in Nat
      /\ spent \in Nat /\ since \in Nat /\ latest \in Nat
  BY LimitConstants DEF LimitInv, Shape, Clock
<1>2. /\ n \in 0..Capacity /\ b \in 0..MaxTime /\ b <= t
      /\ n < Capacity => t < b + Refill
      /\ bucket.decision # "none" =>
            (n - bucket.tokens) * Refill <= b - bucket.updated_at
  <2>1. CASE bucket.decision = "none"
    <3>1. Full(bucket, t)
      BY <2>1 DEF Full
    <3>2. n = Capacity /\ b = t
      BY <3>1 DEF Tokens, Base
    <3>3. QED
      BY <1>1, <2>1, <3>2 DEF Clock
  <2>2. CASE bucket.decision # "none"
    BY <2>2, Refilled DEF LimitInv
  <2>3. QED
    BY <2>1, <2>2
<1> HIDE DEF n, b
<1>3. bucket'.tokens = n - m /\ bucket'.updated_at = b /\ m <= n
  BY DEF n, b
<1>4. Shape'
  BY <1>1, <1>2, <1>3 DEF Shape, LimitInv, Observe, Clock
<1>5. Budget(bucket)'
  <2>1. CASE first
    <3>1. spent' = m /\ since' = t
      BY <2>1 DEF Observe
    <3>2. (m + (n - m) - Capacity) * Refill <= b - t
      <4>1. m + (n - m) - Capacity = n - Capacity
        BY <1>1, <1>2
      <4>2. CASE n = Capacity
        <5>1. bucket.decision = "none" \/ n = Capacity
          BY <4>2
        <5>2. Full(bucket, t)
          BY <1>1, <1>2, <4>2, LimitConstants DEF Tokens, n, Full
        <5>3. b = t
          BY <5>2 DEF Base, b
        <5>4. QED
          BY <1>1, <4>1, <4>2, <5>3
      <4>3. CASE n < Capacity
        <5>1. n - Capacity <= -1
          BY <1>1, <1>2, <4>3
        <5>2. (n - Capacity) * Refill <= - Refill
          BY <1>1, <1>2, <5>1
        <5>3. QED
          BY <1>1, <1>2, <4>1, <4>3, <5>2
      <4>4. QED
        BY <1>1, <1>2, <4>2, <4>3
    <3>3. QED
      BY <1>3, <3>1, <3>2 DEF Budget
  <2>2. CASE ~ first /\ bucket.decision = "none"
    <3>1. bucket.tokens = Capacity /\ spent = 0 /\ since = 0 /\ n = Capacity
      <4>1. Full(bucket, t)
        BY <2>2 DEF Full
      <4>2. QED
        BY <2>2, <4>1 DEF LimitInv, NoBucket, Tokens, n
    <3>2. spent' = m /\ since' = 0
      BY <1>1, <2>2, <3>1 DEF Observe
    <3>3. (m + (n - m) - Capacity) = 0
      BY <1>1, <1>2, <3>1
    <3>4. QED
      BY <1>1, <1>2, <1>3, <3>2, <3>3 DEF Budget
  <2>3. CASE ~ first /\ bucket.decision # "none"
    <3>1. spent' = spent + m /\ since' = since
      BY <2>3 DEF Observe
    <3>2. (spent + bucket.tokens - Capacity) * Refill
            <= bucket.updated_at - since
      BY DEF LimitInv, Budget
    <3>3. ((spent + m) + (n - m) - Capacity) * Refill <= b - since
      BY <1>1, <1>2, <2>3, <3>2, Spending
    <3>4. QED
      BY <1>3, <3>1, <3>3 DEF Budget
  <2>4. QED
    BY <2>1, <2>2, <2>3
<1>6. bucket'.updated_at <= asked' /\ asked' <= latest' /\ since' <= latest'
  BY <1>1, <1>2, <1>3 DEF LimitInv, Observe
<1>7. QED
  BY <1>4, <1>5, <1>6 DEF LimitInv

\* The invariant is kept by every decision.
LEMMA LimitNextInv == LimitInv /\ [LimitNext]_limitVars => LimitInv'
<1> SUFFICES ASSUME LimitInv, [LimitNext]_limitVars PROVE LimitInv'
  OBVIOUS
<1>1. ASSUME NEW cost \in Costs, NEW t \in Clock, NEW first \in BOOLEAN,
             Admit(cost, t, first)
      PROVE  LimitInv'
  <2>1. cost \in Nat /\ cost <= Tokens(bucket, t)
    <3>1. CASE Full(bucket, t)
      BY <1>1, <3>1, LimitConstants DEF Costs, Tokens, Admit
    <3>2. CASE ~ Full(bucket, t)
      <4>1. bucket.decision # "none"
        BY <3>2 DEF Full
      <4>2. Tokens(bucket, t) \in 0..Capacity
        BY <1>1, <4>1, Refilled DEF LimitInv, Admit
      <4>3. QED
        BY <1>1, <4>2, LimitConstants DEF Costs, Admit
    <3>3. QED
      BY <3>1, <3>2
  <2>2. QED
    BY <1>1, <2>1, RequestKeepsLimit DEF Admit, Granted
<1>2. ASSUME NEW cost \in Costs, NEW t \in Clock, NEW first \in BOOLEAN,
             Deny(cost, t, first)
      PROVE  LimitInv'
  <2>1. Tokens(bucket, t) \in 0..Capacity
    <3>1. bucket.decision # "none"
      BY <1>2, LimitConstants DEF Deny, Tokens, Full, Costs
    <3>2. QED
      BY <1>2, <3>1, Refilled DEF LimitInv, Deny
  <2>2. bucket'.tokens = Tokens(bucket, t) - 0
    BY <1>2, <2>1, LimitConstants DEF Deny, Denied
  <2>3. 0 <= Tokens(bucket, t)
    BY <2>1, LimitConstants
  <2>4. QED
    BY <1>2, <2>2, <2>3, RequestKeepsLimit DEF Deny, Denied
<1>3. CASE UNCHANGED limitVars
  BY <1>3 DEF limitVars, LimitInv, Shape, Budget
<1>4. QED
  BY <1>1, <1>2, <1>3 DEF LimitNext

\* The cost admitted over any window of requests is bounded by the capacity and
\* the refill of the time the window spans, for every policy.
THEOREM RateLimited == LimitSpec => []RateBounded
<1>1. LimitInv => RateBounded
  <2> SUFFICES ASSUME LimitInv PROVE RateBounded
    OBVIOUS
  <2> DEFINE d == latest - since
             q == d \div Refill
  <2>1. /\ Capacity \in Nat /\ Refill \in Nat \ {0} /\ spent \in Nat
        /\ d \in Nat /\ bucket.tokens \in Nat /\ since \in Nat /\ latest \in Nat
        /\ bucket.updated_at \in Nat /\ bucket.updated_at <= latest
    BY LimitConstants DEF LimitInv, Shape, Clock
  <2>2. q \in Nat /\ d < q * Refill + Refill
    BY <2>1, Quotient
  <2>3. (spent + bucket.tokens - Capacity) * Refill <= d
    BY <2>1 DEF LimitInv, Budget
  <2> HIDE DEF d, q
  <2>4. spent + bucket.tokens - Capacity \in Int /\ (q + 1) * Refill = q * Refill + Refill
    BY <2>1, <2>2
  <2>5. ASSUME spent > Capacity + q
        PROVE  FALSE
    <3>1. spent + bucket.tokens - Capacity >= q + 1
      BY <2>1, <2>2, <2>5
    <3>2. (spent + bucket.tokens - Capacity) * Refill >= (q + 1) * Refill
      BY <2>1, <2>2, <2>4, <3>1
    <3>3. (spent + bucket.tokens - Capacity) * Refill \in Int /\ q * Refill \in Int
      BY <2>1, <2>2, <2>4
    <3>4. QED
      BY <2>1, <2>2, <2>3, <2>4, <3>2, <3>3
  <2>6. QED
    BY <2>1, <2>2, <2>5 DEF RateBounded, d, q
<1>2. QED
  BY <1>1, LimitInitInv, LimitNextInv, PTL DEF LimitSpec

-----------------------------------------------------------------------------
\* ChainAccepted and RetryExact.  The record of a denial names the moment its
\* cost is covered: so many periods after updated_at as there are tokens
\* missing.

Exact ==
    bucket.decision = "deny" =>
        /\ bucket.cost \in Costs /\ bucket.tokens < bucket.cost
        /\ bucket.retry_after_ms \in Nat \ {0}
        /\ asked + bucket.retry_after_ms
             = bucket.updated_at + (bucket.cost - bucket.tokens) * Refill

HonestInv == LimitInv /\ RecordOK(bucket) /\ Exact

\* The quotient of a whole number of periods, and of a millisecond less.
LEMMA Periods ==
    ASSUME NEW k \in Nat \ {0}, NEW r \in Nat \ {0}
    PROVE  (k * r) \div r = k /\ (k * r - 1) \div r = k - 1
<1>1. k * r \in Nat /\ k * r >= r /\ (k - 1) * r = k * r - r /\ (k + 1) * r = k * r + r
  <2>1. (k - 1) * r \in Nat /\ (k - 1) * r = k * r - r /\ (k + 1) * r = k * r + r
    BY SMT
  <2>2. QED
    BY <2>1
<1>2. ASSUME NEW d \in Nat, NEW q \in Nat, q * r <= d, d < q * r + r,
             NEW p \in Nat, p * r <= d, d < p * r + r
      PROVE  q = p
  <2>1. CASE q < p
    <3>1. (q + 1) * r <= p * r
      BY <2>1, SMT
    <3>2. (q + 1) * r = q * r + r
      BY SMT
    <3>3. QED
      BY <1>2, <3>1, <3>2
  <2>2. CASE p < q
    <3>1. (p + 1) * r <= q * r
      BY <2>2, SMT
    <3>2. (p + 1) * r = p * r + r
      BY SMT
    <3>3. QED
      BY <1>2, <3>1, <3>2
  <2>3. QED
    BY <2>1, <2>2
<1>3. (k * r) \div r = k
  <2> DEFINE d == k * r
             q == d \div r
  <2>1. q \in Nat /\ q * r <= d /\ d < q * r + r /\ d \in Nat
    BY <1>1, Quotient
  <2>2. k * r <= d /\ d < k * r + r
    BY <1>1
  <2> HIDE DEF d, q
  <2>3. q = k
    BY <1>2, <2>1, <2>2
  <2>4. QED
    BY <2>3 DEF d, q
<1>4. (k * r - 1) \div r = k - 1
  <2> DEFINE d == k * r - 1
             q == d \div r
             p == k - 1
  <2>1. d \in Nat /\ p \in Nat
    BY <1>1
  <2>2. q \in Nat /\ q * r <= d /\ d < q * r + r
    BY <2>1, Quotient
  <2>3. p * r <= d /\ d < p * r + r
    BY <1>1
  <2> HIDE DEF d, q, p
  <2>4. q = p
    BY <1>2, <2>1, <2>2, <2>3
  <2>5. QED
    BY <2>4 DEF d, q, p
<1>5. QED
  BY <1>3, <1>4

\* What a denial writes down.
LEMMA DenialIs ==
    ASSUME LimitInv, NEW cost \in Costs, NEW t \in Clock, t >= bucket.updated_at,
           Tokens(bucket, t) < cost, t + Wait(bucket, cost, t) <= MaxTime
    PROVE  LET n == Tokens(bucket, t)
               b == Base(bucket, t)
               w == Wait(bucket, cost, t)
           IN  /\ n \in 0..Capacity /\ b \in Clock /\ w \in 1..MaxTime
               /\ (cost - n - 1) * Refill < w /\ w <= (cost - n) * Refill
               /\ b + w <= MaxTime
               /\ t + w = b + (cost - n) * Refill
<1> DEFINE n == Tokens(bucket, t)
           b == Base(bucket, t)
           w == Wait(bucket, cost, t)
           k == cost - n
<1>1. /\ Capacity \in Nat /\ Refill \in Nat \ {0} /\ MaxTime \in Nat /\ t \in Nat
      /\ cost \in Nat /\ cost <= Capacity
  BY LimitConstants DEF Clock, Costs
<1>2. bucket.decision # "none"
  BY <1>1 DEF Tokens, Full
<1>3. n \in 0..Capacity /\ b \in 0..MaxTime /\ b <= t /\ (n < Capacity => t < b + Refill)
  BY <1>2, Refilled DEF LimitInv
<1>4. w = k * Refill - (t - b)
  BY DEF Wait
<1> HIDE DEF n, b, w
<1>5. n < cost
  BY DEF n
<1>6. k \in Nat \ {0}
  BY <1>1, <1>3, <1>5
<1> HIDE DEF k
<1>7. k * Refill \in Int /\ (k - 1) * Refill = k * Refill - Refill /\ (k - 1) * Refill >= 0
  BY <1>1, <1>6, SMT
<1>8. t < b + Refill /\ b \in Nat
  BY <1>1, <1>3, <1>5
<1>9. w \in Int /\ (k - 1) * Refill < w /\ w <= k * Refill /\ t + w = b + k * Refill
  BY <1>1, <1>3, <1>4, <1>7, <1>8
<1>10. t + w <= MaxTime
  BY DEF w
<1>11. w \in 1..MaxTime /\ b + w <= MaxTime
  BY <1>1, <1>3, <1>7, <1>8, <1>9, <1>10
<1>12. QED
  BY <1>3, <1>9, <1>11 DEF n, b, w, k, Clock

LEMMA InitHonest == LimitInit => HonestInv
<1>1. LimitInit => LimitInv
  BY LimitInitInv
<1>2. LimitInit => RecordOK(bucket) /\ Exact
  BY LimitConstants DEF LimitInit, NoBucket, RecordOK, Exact, Clock
<1>3. QED
  BY <1>1, <1>2 DEF HonestInv

LEMMA NextHonest == HonestInv /\ [LimitNext]_limitVars => HonestInv'
<1> SUFFICES ASSUME HonestInv, [LimitNext]_limitVars PROVE HonestInv'
  OBVIOUS
<1>1. LimitInv'
  BY LimitNextInv DEF HonestInv
<1>2. ASSUME NEW cost \in Costs, NEW t \in Clock, NEW first \in BOOLEAN, Admit(cost, t, first)
      PROVE  RecordOK(bucket)' /\ Exact'
  <2>1. bucket'.decision = "admit" /\ bucket'.cost = cost /\ bucket'.retry_after_ms = 0
        /\ bucket'.tokens = Tokens(bucket, t) - cost
    BY <1>2 DEF Admit, Granted
  <2>2. bucket'.tokens \in 0..Capacity /\ bucket'.updated_at \in Clock
    BY <1>1 DEF LimitInv, Shape, Clock
  <2>3. Tokens(bucket, t) \in Int /\ Tokens(bucket, t) <= Capacity
    <3>1. CASE bucket.decision = "none"
      BY <3>1, LimitConstants DEF Tokens, Full
    <3>2. CASE bucket.decision # "none"
      <4>1. Tokens(bucket, t) \in 0..Capacity
        BY <1>2, <3>2, Refilled DEF HonestInv, LimitInv, Admit
      <4>2. QED
        BY <4>1, LimitConstants
    <3>3. QED
      BY <3>1, <3>2
  <2>4. bucket'.tokens <= Capacity - bucket'.cost
    BY <2>1, <2>3, LimitConstants DEF Costs
  <2>5. QED
    BY <2>1, <2>2, <2>4 DEF RecordOK, Exact
<1>3. ASSUME NEW cost \in Costs, NEW t \in Clock, NEW first \in BOOLEAN, Deny(cost, t, first)
      PROVE  RecordOK(bucket)' /\ Exact'
  <2> DEFINE n == Tokens(bucket, t)
             b == Base(bucket, t)
             w == Wait(bucket, cost, t)
  <2>1. bucket'.decision = "deny" /\ bucket'.cost = cost /\ bucket'.retry_after_ms = w
        /\ bucket'.tokens = n /\ bucket'.updated_at = b /\ asked' = t /\ n < cost
    BY <1>3 DEF Deny, Denied
  <2>2. /\ n \in 0..Capacity /\ b \in Clock /\ w \in 1..MaxTime
        /\ (cost - n - 1) * Refill < w /\ w <= (cost - n) * Refill
        /\ b + w <= MaxTime
        /\ t + w = b + (cost - n) * Refill
    BY <1>3, DenialIs DEF HonestInv, Deny
  <2> HIDE DEF n, b, w
  <2>3. w \in Nat \ {0}
    BY <2>2
  <2>4. RecordOK(bucket)'
    BY <2>1, <2>2 DEF RecordOK
  <2>5. Exact'
    BY <2>1, <2>2, <2>3 DEF Exact
  <2>6. QED
    BY <2>4, <2>5
<1>4. CASE UNCHANGED limitVars
  <2>1. bucket' = bucket /\ asked' = asked
    BY <1>4 DEF limitVars
  <2>2. RecordOK(bucket)'
    BY <2>1 DEF HonestInv, RecordOK
  <2>3. Exact'
    BY <2>1 DEF HonestInv, Exact
  <2>4. QED
    BY <1>1, <2>2, <2>3 DEF HonestInv
<1>5. QED
  BY <1>1, <1>2, <1>3, <1>4 DEF LimitNext, HonestInv

\* The program never refuses a record it has issued, and a denied cost is admitted
\* when its record says and not a millisecond sooner, for every policy; nor does
\* it admit more than the policy does (BucketHonest; admit).
THEOREM BucketStaysHonest == LimitSpec => []BucketHonest
<1>1. HonestInv => ChainAccepted /\ RetryExact
  <2> SUFFICES ASSUME HonestInv PROVE ChainAccepted /\ RetryExact
    OBVIOUS
  <2>1. ASSUME bucket.decision = "deny"
        PROVE  LET t == asked + bucket.retry_after_ms
               IN  Tokens(bucket, t) >= bucket.cost /\ Tokens(bucket, t - 1) < bucket.cost
    <3> DEFINE k == bucket.cost - bucket.tokens
               u == bucket.updated_at
               n == bucket.tokens
               c == bucket.cost
               t == asked + bucket.retry_after_ms
    <3>1. /\ Capacity \in Nat /\ Refill \in Nat \ {0} /\ u \in Nat /\ n \in Nat
          /\ c \in Nat /\ c <= Capacity /\ n < c /\ t = u + k * Refill
      BY <2>1, LimitConstants DEF HonestInv, LimitInv, Shape, Exact, Costs
    <3> HIDE DEF u, n, c, t
    <3>2. k \in Nat \ {0} /\ k = c - n
      BY <3>1 DEF n, c
    <3> HIDE DEF k
    <3>3. k * Refill \in Int
      BY <3>1, <3>2
    <3>4. t - u = k * Refill /\ (t - 1) - u = k * Refill - 1
      BY <3>1, <3>3
    <3>5. Gained(bucket, t) = k /\ Gained(bucket, t - 1) = k - 1
      BY <3>1, <3>2, <3>4, Periods, ZenonT(60) DEF Gained, u
    <3>6. ~ Full(bucket, t - 1)
      BY <2>1, <3>1, <3>2, <3>5 DEF Full, n
    <3>7. Tokens(bucket, t - 1) < c
      BY <3>1, <3>2, <3>5, <3>6 DEF Tokens, n
    <3>8. Tokens(bucket, t) >= c
      BY <3>1, <3>2, <3>5 DEF Tokens, n
    <3>9. QED
      BY <3>7, <3>8 DEF t, c
  <2>2. QED
    BY <2>1 DEF ChainAccepted, RetryExact, HonestInv
<1>2. RateBounded /\ ChainAccepted /\ RetryExact => BucketHonest
  BY DEF BucketHonest
<1>3. QED
  BY <1>1, <1>2, InitHonest, NextHonest, RateLimited, PTL DEF LimitSpec
=============================================================================
