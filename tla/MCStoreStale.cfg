\* The idempotency ledger alone, against what a test says of stale bytes.
CONSTANTS
    Parts = {"keyed"}
    a1 = a1
    a2 = a2
    b1 = b1
    Records = {a1, b1}
    Identity <- SmallIdentity
    MaxLog = 3
    Faults = {"rot", "lie"}
    OtherText = OtherText
    Garbled = Garbled
    Odd = Odd
    Alien = Alien
    IdemKeys = {"i1", "i2"}
    Divergent = Divergent
    MaxTraced = 3
    MaxIssued = 2
    Liars = {"serializer", "exporter"}
    Mark = Mark
    Nothing = Nothing
SPECIFICATION StoreSpec
INVARIANTS
    StaleNeverReplayed
CHECK_DEADLOCK FALSE
