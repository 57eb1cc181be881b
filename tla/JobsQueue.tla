------------------------------ MODULE JobsQueue ------------------------------
(***************************************************************************)
(* The durable leased priority queue: QueueEngine of server/jobs_queue.py  *)
(* and the worker restart of server/jobs_restart.py, two programs over one *)
(* queue state {jobs, next_seq}.                                           *)
(*                                                                         *)
(* A job's identifier is a hash of the caller's dedupe key, so the key     *)
(* stands for it and `jobs` is a function from the keys enqueued so far.   *)
(* The list order of the code is the order of `seq`.  Every operation      *)
(* carries the caller's own `now`: nothing in the engine makes successive  *)
(* requests agree about the time, and nothing in this module does either.  *)
(*                                                                         *)
(* A rejected request leaves the state as it is, hence a rejection is a    *)
(* stuttering step.  The corrupt_queue rejection is absent because StateOK *)
(* is an invariant (see JobsProofs).                                       *)
(***************************************************************************)
EXTENDS Integers, FiniteSets

CONSTANTS
    Keys,         \* dedupe keys
    Payloads,     \* canonical payloads
    Workers,      \* lease holders
    NoWorker,     \* lease_owner None
    MaxPriority,  \* MAX_PRIORITY
    MaxAttempts,  \* MAX_ATTEMPTS
    MaxJobs,      \* MAX_JOBS
    MaxNow,       \* MAX_NOW, also CLOCK_LIMIT
    SeqLimit,     \* SEQ_LIMIT
    MaxLease      \* MAX_LEASE_MS

ASSUME QueueConstants ==
    /\ NoWorker \notin Workers
    /\ MaxPriority \in Nat
    /\ MaxAttempts \in Nat \ {0}
    /\ MaxJobs \in Nat
    /\ MaxNow \in Nat \ {0}
    /\ SeqLimit \in Nat
    /\ MaxLease \in Nat \ {0}

VARIABLES jobs, next_seq

queueVars == <<jobs, next_seq>>

Priorities == 0..MaxPriority
Times      == 0..MaxNow
Leases     == 1..MaxLease
Statuses   == {"ready", "leased", "done", "dead"}

\* `expires` is 0 for None: a lease that exists expires at 1 or later.
Job == [seq : Nat, priority : Priorities, payload : Payloads,
        status : Statuses, attempts : 0..MaxAttempts,
        owner : Workers \cup {NoWorker}, expires : Times]

\* The clauses of _job_ok about the status.
JobOK(job) ==
    /\ IF job.status = "leased"
       THEN job.owner \in Workers /\ job.expires >= 1 /\ job.attempts >= 1
       ELSE job.owner = NoWorker /\ job.expires = 0
    /\ job.status = "dead" => job.attempts = MaxAttempts
    /\ job.status = "done" => job.attempts >= 1

-----------------------------------------------------------------------------
\* Faulty variants.  A definition named Bad... is never used by the model: it is
\* what the definition after it would be with a plausible slip in the code, and
\* shows that a property of the model can fail.
BadReleasedRefund(job, status) ==
    [job EXCEPT !.status = status, !.owner = NoWorker, !.expires = 0,
                !.attempts = IF status = "ready" /\ @ > 0 THEN @ - 1 ELSE @]
BadReleasedLeaseKept(job, status) == [job EXCEPT !.status = status]

Released(job, status) ==
    [job EXCEPT !.status = status, !.owner = NoWorker, !.expires = 0]

Leased(job, w, until) ==
    [job EXCEPT !.status = "leased", !.attempts = @ + 1,
                !.owner = w, !.expires = until]

\* The sort key of _claim.
BadBeforeSeqOnly(a, b) == jobs[a].seq < jobs[b].seq
Before(a, b) ==
    \/ jobs[a].priority < jobs[b].priority
    \/ jobs[a].priority = jobs[b].priority /\ jobs[a].seq < jobs[b].seq

BadClaimableNoStatus(now) == {k \in DOMAIN jobs : jobs[k].expires <= now}

BadClaimableReadyOnly(now) == {k \in DOMAIN jobs : jobs[k].status = "ready"}

Claimable(now) ==
    {k \in DOMAIN jobs :
        \/ jobs[k].status = "ready"
        \/ jobs[k].status = "leased" /\ jobs[k].expires <= now}

Exhausted(k) == jobs[k].attempts >= MaxAttempts

\* What a settlement and a restart ask of a lease.
BadHeldAnyOwner(k, w, now) ==
    /\ jobs[k].status = "leased"
    /\ now < jobs[k].expires

Held(k, w, now) ==
    /\ jobs[k].status = "leased"
    /\ jobs[k].owner = w
    /\ now < jobs[k].expires

\* The bound on a claim's own clock arithmetic.
BadFitsNow(now, lease) == now <= MaxNow
Fits(now, lease) == now + lease <= MaxNow

-----------------------------------------------------------------------------
Enqueue(k, p, d) ==
    /\ k \notin DOMAIN jobs
    /\ Cardinality(DOMAIN jobs) < MaxJobs
    /\ next_seq < SeqLimit
    /\ jobs' = [j \in DOMAIN jobs \cup {k} |->
                  IF j = k
                  THEN [seq |-> next_seq, priority |-> p, payload |-> d,
                        status |-> "ready", attempts |-> 0,
                        owner |-> NoWorker, expires |-> 0]
                  ELSE jobs[j]]
    /\ next_seq' = next_seq + 1

\* A key seen before with the same priority and payload is a success that
\* returns the stored job and changes nothing; with another priority or payload
\* it is a dedupe_conflict.
EnqueueAgain(k, p, d) ==
    /\ k \in DOMAIN jobs
    /\ jobs[k].priority = p
    /\ jobs[k].payload = d
    /\ UNCHANGED queueVars

\* The walk over the claimable jobs stops at k, the first that has an attempt
\* left; the exhausted ones it passed on the way are dead.
ClaimJob(w, now, lease, k) ==
    /\ Fits(now, lease)
    /\ k \in Claimable(now)
    /\ ~ Exhausted(k)
    /\ \A j \in Claimable(now) : j = k \/ Before(k, j) \/ Exhausted(j)
    /\ jobs' = [j \in DOMAIN jobs |->
                  IF j = k THEN Leased(jobs[j], w, now + lease)
                  ELSE IF j \in Claimable(now) /\ Before(j, k)
                       THEN Released(jobs[j], "dead")
                       ELSE jobs[j]]
    /\ UNCHANGED next_seq

\* The walk finds only exhausted jobs: no job is returned, and all of them are
\* dead in the state that is committed all the same.
ClaimNone(now, lease) ==
    /\ Fits(now, lease)
    /\ \A j \in Claimable(now) : Exhausted(j)
    /\ jobs' = [j \in DOMAIN jobs |->
                  IF j \in Claimable(now) THEN Released(jobs[j], "dead")
                                          ELSE jobs[j]]
    /\ UNCHANGED next_seq

\* _settle, shared by ack and nack.
Settle(k, w, now, status) ==
    /\ k \in DOMAIN jobs
    /\ Held(k, w, now)
    /\ jobs' = [jobs EXCEPT ![k] = Released(@, status)]
    /\ UNCHANGED next_seq

Ack(k, w, now)  == Settle(k, w, now, "done")
Nack(k, w, now) == Settle(k, w, now, "ready")

Restart(w, now) ==
    /\ jobs' = [k \in DOMAIN jobs |->
                  IF Held(k, w, now) THEN Released(jobs[k], "ready")
                                     ELSE jobs[k]]
    /\ UNCHANGED next_seq

-----------------------------------------------------------------------------
Init ==
    /\ jobs = [k \in {} |-> 0]
    /\ next_seq = 0

Next ==
    \/ \E k \in Keys, p \in Priorities, d \in Payloads : Enqueue(k, p, d)
    \/ \E k \in Keys, p \in Priorities, d \in Payloads : EnqueueAgain(k, p, d)
    \/ \E w \in Workers, now \in Times, lease \in Leases, k \in Keys :
          ClaimJob(w, now, lease, k)
    \/ \E now \in Times, lease \in Leases : ClaimNone(now, lease)
    \/ \E k \in Keys, w \in Workers, now \in Times : Ack(k, w, now)
    \/ \E k \in Keys, w \in Workers, now \in Times : Nack(k, w, now)
    \/ \E w \in Workers, now \in Times : Restart(w, now)

Spec == Init /\ [][Next]_queueVars

-----------------------------------------------------------------------------
(***************************************************************************)
(* Properties.                                                             *)
(***************************************************************************)

\* Types and bounds of the state that _check_state requires: the clock
\* arithmetic of a claim and the attempt counter stay in range.
TypeOK ==
    /\ jobs \in [DOMAIN jobs -> Job]
    /\ DOMAIN jobs \subseteq Keys
    /\ next_seq \in 0..SeqLimit

\* The rest of _check_state and _job_ok: lease fields present exactly on leased
\* jobs, dead only at the attempt limit, sequence numbers unique and below
\* next_seq, no more than MAX_JOBS.  With TypeOK it says that no operation ever
\* commits a state the next operation would reject as corrupt_queue.
StateOK ==
    /\ \A k \in DOMAIN jobs : JobOK(jobs[k]) /\ jobs[k].seq < next_seq
    /\ \A j, k \in DOMAIN jobs : jobs[j].seq = jobs[k].seq => j = k
    /\ Cardinality(DOMAIN jobs) <= MaxJobs

\* Every job that a step leases is charged one attempt, and nothing else ever
\* changes an attempt count: an ack, a nack, a restart or a death neither
\* refunds nor charges one (queue.yaml "attempts-kept", restart.yaml "never
\* refunds or charges").  A step leases at most one job.
AttemptsCharged ==
    [][/\ \A k \in DOMAIN jobs :
            IF jobs'[k].status = "leased" /\ jobs'[k] # jobs[k]
            THEN jobs'[k].attempts = jobs[k].attempts + 1
            ELSE jobs'[k].attempts = jobs[k].attempts
       /\ \A j, k \in DOMAIN jobs :
            jobs'[j].attempts # jobs[j].attempts
              /\ jobs'[k].attempts # jobs[k].attempts => j = k]_queueVars

\* When a claim leases k, no job that is ready afterwards is more urgent than
\* k: the claim never overtakes, and an exhausted job on the way does not stay
\* in front of the queue.
ClaimInOrder ==
    [][\A k \in DOMAIN jobs : jobs'[k].attempts > jobs[k].attempts =>
         \A j \in DOMAIN jobs : jobs'[j].status = "ready" =>
            \/ jobs[k].priority < jobs[j].priority
            \/ /\ jobs[k].priority = jobs[j].priority
               /\ jobs[k].seq < jobs[j].seq]_queueVars

\* A job that is done or dead is never touched again, by whatever sequence of
\* requests with whatever clocks; no job ever disappears; and what enqueue
\* stored is never overwritten.
Settled ==
    [][\A k \in DOMAIN jobs :
         /\ k \in DOMAIN jobs'
         /\ jobs[k].status \in {"done", "dead"} => jobs'[k] = jobs[k]
         /\ jobs'[k].seq = jobs[k].seq
         /\ jobs'[k].priority = jobs[k].priority
         /\ jobs'[k].payload = jobs[k].payload]_queueVars

=============================================================================
