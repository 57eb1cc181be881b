-------------------------------- MODULE MCJobs --------------------------------
(***************************************************************************)
(* The functions the job queue's callers use, on small instances in one    *)
(* run: the token bucket (JobsLimit), the receipts (JobsIdempotency), the  *)
(* retry, burial and cancellation decisions (JobsPolicies) and the         *)
(* progress chains (JobsProgress).  The receipts and the decisions stand   *)
(* over the queue.  `part` says which of them a behaviour is about; the    *)
(* variables of the others stay as they began.  The properties of the      *)
(* modules that this one extends are checked as they stand there.          *)
(***************************************************************************)
EXTENDS JobsLimit, JobsIdempotency, JobsPolicies

CONSTANTS
    Parts,  \* the parts a run explores
    k1      \* the job the decisions are about

VARIABLES
    part,
    last, chain  \* JobsProgress

\* The delay grows from 1 to its maximum 2, where the uncapped delay would be 3.
OnePolicy == {[base |-> 1, multiplier |-> 3, max |-> 2]}

\* Two reporters, a scale that does not divide by the total, chains of two
\* reports.
Progress ==
    INSTANCE JobsProgress WITH
        Reporters <- {"w1", "w2"}, Totals <- {1, 3}, LastNow <- 1, BP <- 2,
        MaxReports <- 2

ASSUME k1 \in Keys
ASSUME IdemConstants
ASSUME PolicyConstants
ASSUME Progress!ProgressConstants

receipts == <<ledger, effects, others>>
reports == <<last, chain>>

JobsInit ==
    /\ part \in Parts
    /\ LimitInit
    /\ IdemInit
    /\ PolicyInit
    /\ Progress!ProgressInit

JobsNext ==
    /\ UNCHANGED part
    /\ \/ /\ part = "limit"
          /\ LimitNext
          /\ UNCHANGED <<queueVars, receipts, policyVars, reports>>
       \/ /\ part = "idempotency"
          /\ IdemNext
          /\ UNCHANGED <<limitVars, policyVars, reports>>
       \/ /\ part = "policies"
          /\ PolicyNext
          /\ DOMAIN jobs' \subseteq {k1}
          /\ UNCHANGED <<limitVars, receipts, reports>>
       \/ /\ part = "progress"
          /\ Progress!ProgressNext
          /\ UNCHANGED <<limitVars, queueVars, receipts, policyVars>>

JobsSpec ==
    JobsInit /\ [][JobsNext]_<<part, limitVars, queueVars, receipts,
                               policyVars, reports>>

-----------------------------------------------------------------------------
\* Over time: a ledger that is stale stays so and changes nothing any more
\* (JobsIdempotency); a job that was given up never runs again (JobsPolicies);
\* along a chain of reports made from records handed back nothing goes back and
\* nothing is rounded up to complete (JobsProgress).
PromisesKept ==
    /\ StaleForever
    /\ DeadHonoured
    /\ [](part = "progress" => Progress!ChainMonotone /\ Progress!IssuedHonest)
=============================================================================
