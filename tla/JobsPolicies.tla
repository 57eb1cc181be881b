----------------------------- MODULE JobsPolicies -----------------------------
(***************************************************************************)
(* The decisions taken about the jobs of the queue: retry                  *)
(* (server/jobs_retry.py), burial (server/jobs_dead_letter.py) and         *)
(* cancellation (server/jobs_cancel.py).                                   *)
(*                                                                         *)
(* Each is a pure function of one request.  The request carries a copy of  *)
(* a job, or of its attempt count, that the caller read some time before;  *)
(* the queue moves on meanwhile.  `seen` is that copy.  A caller may also  *)
(* present a job the queue never held (Forged): the two functions that     *)
(* take a job check it with their own copy of the queue's invariants.      *)
(* The records are kept, for nothing takes a decision back.                *)
(***************************************************************************)
EXTENDS JobsQueue

CONSTANTS
    BadPayload,   \* stands for the payloads that _payload_ok refuses
    Requesters,   \* who cancels
    Policies,     \* retry policies
    MaxRecords    \* bound of the model: records kept

PolicyConstants ==
    /\ BadPayload \notin Payloads
    /\ Policies \subseteq [base : Nat \ {0}, multiplier : Nat \ {0}, max : Nat]
    /\ MaxRecords \in Nat

VARIABLES
    seen,      \* a set with the copy last read, empty before the first
    retries,   \* decisions of jobs_retry
    graves,    \* entries of jobs_dead_letter
    cancels    \* decisions of jobs_cancel

policyVars == <<seen, retries, graves, cancels>>
allVars == <<jobs, next_seq, seen, retries, graves, cancels>>

Failures == {"transient", "timeout", "permanent"}
Reasons  == {"exhausted", "permanent"}

\* A policy whose max is below its base is an invalid_retry_policy.
PolicyOK(policy) == policy.max >= policy.base

-----------------------------------------------------------------------------
\* Retry.
Dead(attempts, failure) == failure = "permanent" \/ attempts >= MaxAttempts

\* base * multiplier ** (attempts - 1), capped: one factor for every attempt after
\* the first.
Grown(policy) ==
    LET grown[n \in 1 .. MaxAttempts] ==
            IF n = 1 THEN policy.base ELSE policy.multiplier * grown[n - 1]
    IN  grown

Delay(policy, attempts) ==
    IF Grown(policy)[attempts] < policy.max
    THEN Grown(policy)[attempts] ELSE policy.max

\* A retry beyond the clock is a clock_overflow and gives no record.
Retry(k, attempts, failure, now, policy) ==
    /\ PolicyOK(policy)
    /\ attempts \in 1..MaxAttempts
    /\ \/ /\ Dead(attempts, failure)
          /\ retries' = retries \cup
               {[key |-> k, attempts |-> attempts, failure |-> failure,
                 policy |-> policy, decision |-> "dead", delay |-> 0,
                 retry_at |-> 0]}
       \/ /\ ~ Dead(attempts, failure)
          /\ now + Delay(policy, attempts) <= MaxNow
          /\ retries' = retries \cup
               {[key |-> k, attempts |-> attempts, failure |-> failure,
                 policy |-> policy, decision |-> "retry",
                 delay |-> Delay(policy, attempts),
                 retry_at |-> now + Delay(policy, attempts)]}
    /\ UNCHANGED <<seen, graves, cancels>>

-----------------------------------------------------------------------------
\* _job_ok of the dead letters and of the cancellation: two copies of the
\* invariants of a queue job, of which the status clauses are the ones that a
\* well-typed job can break.
PayloadOK(job) == job.payload # BadPayload

LeaseShapeOK(job) ==
    IF job.status = "leased"
    THEN job.owner # NoWorker /\ job.expires \in 1..MaxNow /\ job.attempts >= 1
    ELSE job.owner = NoWorker /\ job.expires = 0

BadBuryJobOK(job) == LeaseShapeOK(job) /\ PayloadOK(job)
BuryJobOK(job) ==
    /\ job.attempts \in 0..MaxAttempts
    /\ LeaseShapeOK(job)
    /\ job.status = "dead" => job.attempts = MaxAttempts
    /\ job.status = "done" => job.attempts >= 1
    /\ PayloadOK(job)

CancelJobOK(job) ==
    /\ job.attempts \in 0..MaxAttempts
    /\ LeaseShapeOK(job)
    /\ job.status = "dead" => job.attempts = MaxAttempts
    /\ job.status = "done" => job.attempts >= 1
    /\ PayloadOK(job)

Buriable(job) == BuryJobOK(job) /\ job.status = "dead"

Bury(job, reason, now) ==
    /\ Buriable(job)
    /\ graves' = graves \cup
         {[key |-> job.key, seq |-> job.seq, priority |-> job.priority,
           payload |-> job.payload, attempts |-> job.attempts,
           reason |-> reason, buried_at |-> now]}
    /\ UNCHANGED <<seen, retries, cancels>>

Cancellable(job) == CancelJobOK(job) /\ job.status \in {"ready", "leased"}

Cancel(job, requester, now) ==
    /\ Cancellable(job)
    /\ cancels' = cancels \cup
         {[key |-> job.key, seq |-> job.seq, priority |-> job.priority,
           payload |-> job.payload, status_before |-> job.status,
           attempts |-> job.attempts, requester |-> requester,
           cancelled_at |-> now]}
    /\ UNCHANGED <<seen, retries, graves>>

-----------------------------------------------------------------------------
\* A copy of a job, with the key for its identifier.
Copy(k) ==
    [key |-> k, seq |-> jobs[k].seq, priority |-> jobs[k].priority,
     payload |-> jobs[k].payload, status |-> jobs[k].status,
     attempts |-> jobs[k].attempts, owner |-> jobs[k].owner,
     expires |-> jobs[k].expires]

Read(k) ==
    /\ k \in DOMAIN jobs
    /\ seen' = {Copy(k)}
    /\ UNCHANGED <<retries, graves, cancels>>

\* What a mistaken caller makes of a copy: another status, or another payload.
Forged(job) ==
    {[job EXCEPT !.status = s] : s \in Statuses}
      \cup {[job EXCEPT !.payload = BadPayload]}

Room == Cardinality(retries) + Cardinality(graves) + Cardinality(cancels)
          < MaxRecords

PolicyStep ==
    \/ \E k \in Keys : Read(k)
    \/ /\ Room
       /\ \E copy \in seen :
            \/ \E failure \in Failures, now \in Times, policy \in Policies :
                 Retry(copy.key, copy.attempts, failure, now, policy)
            \/ \E job \in {copy} \cup Forged(copy), reason \in Reasons,
                  now \in Times : Bury(job, reason, now)
            \/ \E job \in {copy} \cup Forged(copy), requester \in Requesters,
                  now \in Times : Cancel(job, requester, now)

PolicyInit == Init /\ seen = {} /\ retries = {} /\ graves = {} /\ cancels = {}

PolicyNext ==
    \/ Next /\ UNCHANGED policyVars
    \/ PolicyStep /\ UNCHANGED queueVars

PolicySpec == PolicyInit /\ [][PolicyNext]_allVars

-----------------------------------------------------------------------------
(***************************************************************************)
(* Properties.                                                             *)
(***************************************************************************)

\* The queue and the policies keep three copies of the invariants of a job:
\* every job the queue can ever hold, and every copy of one, however old, is
\* accepted by the two functions that take a job (corrupt_job is never the
\* answer to a true copy).
PoliciesAccept ==
    \A job \in {Copy(k) : k \in DOMAIN jobs} \cup seen :
        BuryJobOK(job) /\ CancelJobOK(job)

\* Whatever copy a caller presents, old or forged in its status or payload, a
\* job with an entry among the dead letters is out of attempts in the queue and
\* what the entry says of it is true: the queue will never lease it again.
GravesTrue ==
    \A g \in graves :
        /\ g.key \in DOMAIN jobs
        /\ jobs[g.key].attempts = MaxAttempts
        /\ g.attempts = jobs[g.key].attempts
        /\ g.seq = jobs[g.key].seq
        /\ g.payload = jobs[g.key].payload

\* A job that the retry policy promised another attempt does not die for want of
\* one before it has been leased again: policy and queue count the same attempts
\* against the same limit (retry.yaml "matching-the-queue-dead-letter-bound").
RetryHonoured ==
    \A r \in retries : r.decision = "retry" =>
        ~ (jobs[r.key].status = "dead" /\ jobs[r.key].attempts = r.attempts)

\* A job that the retry policy gave up as exhausted is never leased again.
DeadHonoured ==
    [][\A r \in retries : r.decision = "dead" /\ r.failure # "permanent" =>
         jobs'[r.key].attempts = jobs[r.key].attempts]_allVars

\* Under one policy the delay never decreases as attempts grow, and it is never
\* above the policy's maximum nor past the clock (retry.yaml "bounded",
\* "monotone").
BackoffOrdered ==
    \A r \in retries : r.decision = "retry" =>
        /\ r.delay <= r.policy.max
        /\ r.retry_at <= MaxNow
        /\ \A q \in retries :
             q.decision = "retry" /\ q.policy = r.policy
               /\ q.attempts <= r.attempts => q.delay <= r.delay

\* Decisions on copies: a job the queue holds is never refused as corrupt, what is
\* buried never runs again, a promised retry is given, at a delay that grows.
DecisionsAgree == PoliciesAccept /\ GravesTrue /\ RetryHonoured /\ BackoffOrdered

=============================================================================
