\* One dedupe key more than the queue may hold, two priorities, an attempt limit
\* of two, and a clock that a lease of two can overrun.
CONSTANTS
    Keys = {k1, k2, k3, k4}
    Payloads = {d1}
    Workers = {w1, w2}
    NoWorker = NoWorker
    MaxPriority = 1
    MaxAttempts = 2
    MaxJobs = 3
    MaxNow = 3
    SeqLimit = 4
    MaxLease = 2
SPECIFICATION Spec
SYMMETRY Symmetry
INVARIANTS
    TypeOK
    StateOK
PROPERTIES
    AttemptsCharged
    ClaimInOrder
    Settled
