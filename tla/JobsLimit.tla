------------------------------ MODULE JobsLimit ------------------------------
(***************************************************************************)
(* The token bucket that admits background jobs: admit of                  *)
(* server/jobs_limit.py.  The program keeps nothing: the caller hands back *)
(* the record of the last decision for its key, and `bucket` is that       *)
(* record.  This is one key under one policy, the only chain a bucket may  *)
(* form (another key or policy is a limit_conflict).                       *)
(*                                                                         *)
(* The caller's clock may step back between two requests, down to the      *)
(* bucket's updated_at, which lags behind the last request by less than    *)
(* one refill period.                                                      *)
(***************************************************************************)
EXTENDS Integers

CONSTANTS
    Capacity,  \* policy.capacity
    Refill,    \* policy.refill_ms
    MaxTime    \* MAX_NOW

ASSUME LimitConstants ==
    /\ Capacity \in Nat \ {0}
    /\ Refill \in Nat \ {0}
    /\ MaxTime \in Nat

VARIABLES
    bucket,  \* the last record; absent (`previous` None) before the first
    asked,     \* the time of the last request
    spent,   \* history: cost admitted in the window under observation
    since,   \* history: the time of the first request of that window
    latest    \* history: the latest time of a request of that window

limitVars == <<bucket, asked, spent, since, latest>>

Costs == 1..Capacity
Clock == 0..MaxTime
NoBucket == [decision |-> "none", tokens |-> Capacity, updated_at |-> 0]

-----------------------------------------------------------------------------
\* A definition named Bad... is not used: it is a faulty variant of the one after
\* it, and shows that a property can fail.

\* What a bucket holds at time t, and up to when its refill is accounted for.
Gained(b, t) == (t - b.updated_at) \div Refill
Full(b, t) == b.decision = "none" \/ b.tokens + Gained(b, t) >= Capacity

Tokens(b, t) == IF Full(b, t) THEN Capacity ELSE b.tokens + Gained(b, t)

BadBaseKept(b, t) == b.updated_at + Gained(b, t) * Refill
Base(b, t) == IF Full(b, t) THEN t ELSE b.updated_at + Gained(b, t) * Refill

\* retry_after_ms of a denial.
BadWait(b, cost, t) == (cost - Tokens(b, t)) * Refill
Wait(b, cost, t) == (cost - Tokens(b, t)) * Refill - (t - Base(b, t))

\* The record admit returns.
Granted(b, cost, t) ==
    [decision |-> "admit", cost |-> cost, tokens |-> Tokens(b, t) - cost,
     updated_at |-> Base(b, t), retry_after_ms |-> 0]
Denied(b, cost, t) ==
    [decision |-> "deny", cost |-> cost, tokens |-> Tokens(b, t),
     updated_at |-> Base(b, t), retry_after_ms |-> Wait(b, cost, t)]

\* _previous_ok, and so whether the next request is corrupt_previous_bucket.
RecordOK(b) ==
    /\ b.tokens \in 0..Capacity
    /\ b.updated_at \in Clock
    /\ b.decision = "admit" =>
          b.retry_after_ms = 0 /\ b.tokens <= Capacity - b.cost
    /\ b.decision = "deny" =>
          /\ b.retry_after_ms \in 1..MaxTime
          /\ b.tokens < b.cost
          /\ (b.cost - b.tokens - 1) * Refill < b.retry_after_ms
          /\ b.retry_after_ms <= (b.cost - b.tokens) * Refill
          /\ b.updated_at + b.retry_after_ms <= MaxTime

-----------------------------------------------------------------------------
\* A window of requests begins at any request.
Observe(first, cost, t) ==
    /\ spent' = IF first THEN cost ELSE spent + cost
    /\ since' = IF first THEN t ELSE since
    /\ latest' = IF first \/ t > latest THEN t ELSE latest

Admit(cost, t, first) ==
    /\ RecordOK(bucket)
    /\ t >= bucket.updated_at
    /\ Tokens(bucket, t) >= cost
    /\ bucket' = Granted(bucket, cost, t)
    /\ asked' = t
    /\ Observe(first, cost, t)

\* A denial whose retry would come after the end of time is refused instead
\* (clock_overflow).
Deny(cost, t, first) ==
    /\ RecordOK(bucket)
    /\ t >= bucket.updated_at
    /\ Tokens(bucket, t) < cost
    /\ t + Wait(bucket, cost, t) <= MaxTime
    /\ bucket' = Denied(bucket, cost, t)
    /\ asked' = t
    /\ Observe(first, 0, t)

LimitInit ==
    /\ bucket = NoBucket
    /\ asked = 0
    /\ spent = 0
    /\ since = 0
    /\ latest = 0

LimitNext ==
    \E cost \in Costs, t \in Clock, first \in BOOLEAN :
        Admit(cost, t, first) \/ Deny(cost, t, first)

LimitSpec == LimitInit /\ [][LimitNext]_limitVars

-----------------------------------------------------------------------------
\* Every record the program issues is one it takes back, so a chain of
\* decisions never ends in corrupt_previous_bucket, at no boundary of the
\* refill arithmetic.
ChainAccepted == RecordOK(bucket)

\* Over every window of requests the cost admitted is at most the capacity and
\* one token for each full refill period the window spans, whatever is denied
\* in between and though the clock may step back.
RateBounded == spent <= Capacity + (latest - since) \div Refill

\* retry_after_ms is exact: the denied cost is admitted after that time, and not
\* a millisecond before.
RetryExact ==
    bucket.decision = "deny" =>
        LET t == asked + bucket.retry_after_ms
        IN /\ Tokens(bucket, t) >= bucket.cost
           /\ Tokens(bucket, t - 1) < bucket.cost

\* The bucket is honest to everyone: it admits no more than the policy says, it
\* accepts its own record, and the time it promises a denied caller is the right
\* one.
BucketHonest == RateBounded /\ ChainAccepted /\ RetryExact
=============================================================================
