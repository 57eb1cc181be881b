\* All parts.  The bucket: a capacity of three, a refill period that does not
\* divide the clock's range, and a clock long enough to fill it from empty more
\* than once.  The receipts: a queue of two jobs, three idempotency keys, two
\* calls that bypass the ledger.
CONSTANTS
    Parts = {"limit", "idempotency", "policies", "progress"}
    Capacity = 3
    Refill = 3
    MaxTime = 23
    Keys = {k1, k2}
    k1 = k1
    Payloads = {d1}
    Workers = {w1}
    NoWorker = NoWorker
    MaxPriority = 0
    MaxAttempts = 3
    MaxJobs = 2
    MaxNow = 3
    SeqLimit = 2
    MaxLease = 1
    IdemKeys = {i1, i2, i3}
    Bypassing = {"queue", "restart"}
    OtherCalls = 2
    Divergent = Divergent
    BadPayload = BadPayload
    Requesters = {r1}
    Policies <- OnePolicy
    MaxRecords = 3
SPECIFICATION JobsSpec
INVARIANTS
    KeyedOnce
    BucketHonest
    DecisionsAgree
PROPERTIES
    PromisesKept
\* At the end of time every further denial is a clock_overflow; a stale ledger
\* refuses every call.
CHECK_DEADLOCK FALSE
