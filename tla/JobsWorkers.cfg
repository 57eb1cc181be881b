\* Two jobs, two workers, every interleaving with crashes and expiries.  Each of
\* the 4 possible claims lets the clock advance by at most 2.  Settled jobs leave
\* nothing to do, so the system may stop.
CONSTANTS
    Keys = {k1, k2}
    Payloads = {d1}
    Workers = {w1, w2}
    NoWorker = NoWorker
    MaxPriority = 1
    MaxAttempts = 2
    MaxJobs = 2
    MaxNow = 10
    SeqLimit = 2
    MaxLease = 2
SPECIFICATION FairWorkersSpec
INVARIANTS
    LeasesHeld
PROPERTIES
    LeasesEnd
CHECK_DEADLOCK FALSE
