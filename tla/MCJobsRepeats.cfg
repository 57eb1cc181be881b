\* The receipts alone, beside worker restarts.
CONSTANTS
    Parts = {"idempotency"}
    Capacity = 3
    Refill = 3
    MaxTime = 23
    Keys = {k1, k2}
    k1 = k1
    Payloads = {d1}
    Workers = {w1}
    NoWorker = NoWorker
    MaxPriority = 0
    MaxAttempts = 3
    MaxJobs = 2
    MaxNow = 3
    SeqLimit = 2
    MaxLease = 1
    IdemKeys = {i1, i2, i3}
    Bypassing = {"restart"}
    OtherCalls = 2
    Divergent = Divergent
    BadPayload = BadPayload
    Requesters = {r1}
    Policies <- OnePolicy
    MaxRecords = 3
SPECIFICATION JobsSpec
INVARIANTS
    RepeatsAnswered
CHECK_DEADLOCK FALSE
