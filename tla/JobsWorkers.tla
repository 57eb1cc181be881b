----------------------------- MODULE JobsWorkers -----------------------------
(***************************************************************************)
(* The queue in use: workers that share one advancing clock claim jobs,    *)
(* remember the receipt of their claim, settle it, or crash and come back  *)
(* through the restart of server/jobs_restart.py.  The workers themselves  *)
(* are not in the repository; they are the callers its contracts           *)
(* (data/contracts/queue.yaml, restart.yaml) describe.                     *)
(*                                                                         *)
(* Every step is one whole call of the engine or one step of a caller, and *)
(* a receipt is what the caller believes between two calls.                *)
(***************************************************************************)
EXTENDS JobsQueue

VARIABLES
    clock,  \* the time every caller reads
    held,   \* held[w]: the claim receipts w has not settled yet
    up      \* up[w]: w runs; a crashed worker restarts before it claims again

workersVars == <<jobs, next_seq, clock, held, up>>
callers == <<clock, held, up>>

\* The fields of a claim's receipt a worker needs.
Receipt == [job : Keys, attempt : 1..MaxAttempts, expires : 1..MaxNow]

ReceiptFor(k) ==
    [job |-> k, attempt |-> jobs'[k].attempts, expires |-> jobs'[k].expires]

\* A worker that claims a job again forgets its older claim of that job.
Remember(w, receipt) ==
    held' = [held EXCEPT ![w] =
               {r \in @ : r.job # receipt.job} \cup {receipt}]
Forget(w, receipt) == held' = [held EXCEPT ![w] = @ \ {receipt}]

-----------------------------------------------------------------------------
Submit(k, p, d) == Enqueue(k, p, d) /\ UNCHANGED callers

Fetch(w, lease, k) ==
    /\ up[w]
    /\ ClaimJob(w, clock, lease, k)
    /\ Remember(w, ReceiptFor(k))
    /\ UNCHANGED <<clock, up>>

FetchNothing(w, lease) ==
    /\ up[w]
    /\ ClaimNone(clock, lease)
    /\ UNCHANGED callers

\* The worker calls ack, or nack when `status` is ready.  The queue settles the
\* job or answers lease_conflict; either way the receipt is spent.
Report(w, receipt, status) ==
    /\ up[w]
    /\ receipt \in held[w]
    /\ IF Held(receipt.job, w, clock)
       THEN Settle(receipt.job, w, clock, status)
       ELSE UNCHANGED queueVars
    /\ Forget(w, receipt)
    /\ UNCHANGED <<clock, up>>

\* A crash loses the worker's memory and none of the queue's.
Crash(w) ==
    /\ up[w]
    /\ held[w] # {}
    /\ held' = [held EXCEPT ![w] = {}]
    /\ up' = [up EXCEPT ![w] = FALSE]
    /\ UNCHANGED <<jobs, next_seq, clock>>

Recover(w) ==
    /\ ~ up[w]
    /\ Restart(w, clock)
    /\ up' = [up EXCEPT ![w] = TRUE]
    /\ UNCHANGED <<clock, held>>

\* Time matters only while some lease runs: an idle clock stands still, which
\* bounds it by the claims there can be.
Tick ==
    /\ \E k \in DOMAIN jobs : jobs[k].status = "leased" /\ clock < jobs[k].expires
    /\ clock' = clock + 1
    /\ UNCHANGED <<jobs, next_seq, held, up>>

WorkersInit ==
    /\ Init
    /\ clock = 0
    /\ held = [w \in Workers |-> {}]
    /\ up = [w \in Workers |-> TRUE]

WorkersNext ==
    \/ \E k \in Keys, p \in Priorities, d \in Payloads : Submit(k, p, d)
    \/ \E w \in Workers, lease \in Leases, k \in Keys : Fetch(w, lease, k)
    \/ \E w \in Workers, lease \in Leases : FetchNothing(w, lease)
    \/ \E w \in Workers : \E receipt \in held[w], status \in {"done", "ready"} :
          Report(w, receipt, status)
    \/ \E w \in Workers : Crash(w)
    \/ \E w \in Workers : Recover(w)
    \/ Tick

WorkersSpec == WorkersInit /\ [][WorkersNext]_workersVars

\* A crashed worker is brought back, workers keep polling and time passes.
\* Reporting is not fair: a worker may hang on a job for ever.
Polls(w) == \E lease \in Leases :
               FetchNothing(w, lease) \/ \E k \in Keys : Fetch(w, lease, k)

FairWorkersSpec ==
    /\ WorkersSpec
    /\ WF_workersVars(Tick)
    /\ \A w \in Workers : WF_workersVars(Polls(w)) /\ WF_workersVars(Recover(w))

-----------------------------------------------------------------------------
WorkersTypeOK ==
    /\ TypeOK
    /\ clock \in Times
    /\ held \in [Workers -> SUBSET Receipt]
    /\ up \in [Workers -> BOOLEAN]

\* A worker whose receipt has not expired still holds that very claim: no
\* other worker's claim, restart, ack or nack has taken it, so its own ack
\* will be accepted.  The queue promises this to a caller between two calls.
LeaseHonoured ==
    \A w \in Workers : \A r \in held[w] :
        clock < r.expires =>
            /\ r.job \in DOMAIN jobs
            /\ jobs[r.job].status = "leased"
            /\ jobs[r.job].owner = w
            /\ jobs[r.job].attempts = r.attempt
            /\ jobs[r.job].expires = r.expires

\* Two workers never both believe they run the same job under a live lease.
ExclusiveLease ==
    \A w1, w2 \in Workers : \A r1 \in held[w1], r2 \in held[w2] :
        /\ r1.job = r2.job
        /\ clock < r1.expires
        /\ clock < r2.expires
        => w1 = w2

\* A lease taken by another worker, or by the same worker again, was first
\* given back or ran out (queue.yaml "expiry").
LeaseEndsFirst ==
    [][\A k \in DOMAIN jobs :
         /\ jobs[k].status = "leased"
         /\ jobs'[k].status = "leased"
         /\ jobs'[k] # jobs[k]
         => jobs[k].expires <= clock]_workersVars

\* Whatever crashes, hangs and refusals happen, a job that was enqueued ends
\* done or dead: a lease that nobody returns runs out, a claim charges an
\* attempt, and attempts are limited (queue.yaml "at_least_once").
EventuallySettled ==
    \A k \in Keys :
        k \in DOMAIN jobs ~>
            k \in DOMAIN jobs /\ jobs[k].status \in {"done", "dead"}

\* The two promises of a lease: whoever holds one that has not run out is honoured
\* and is alone.
LeasesHeld == WorkersTypeOK /\ LeaseHonoured /\ ExclusiveLease

\* Its two ends: no other lease before this one has ended, and an end for every
\* job.
LeasesEnd == LeaseEndsFirst /\ EventuallySettled
=============================================================================
