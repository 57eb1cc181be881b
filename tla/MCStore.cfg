\* Every part, the log under rot and lies.
CONSTANTS
    Parts = {"log", "keyed", "copies", "heads", "migration", "tracers"}
    a1 = a1
    a2 = a2
    b1 = b1
    Records = {a1, b1}
    Identity <- OwnIdentity
    MaxLog = 3
    Faults = {"rot", "lie"}
    OtherText = OtherText
    Garbled = Garbled
    Odd = Odd
    Alien = Alien
    IdemKeys = {"i1", "i2"}
    Divergent = Divergent
    MaxTraced = 3
    MaxIssued = 2
    Liars = {"serializer", "exporter"}
    Mark = Mark
    Nothing = Nothing
SPECIFICATION StoreSpec
SYMMETRY AnyRecord
INVARIANTS
    LogIntact
    KeyedTrue
    StatesSurvive
    TraceTrue
PROPERTIES
    NothingRewritten
    Versioned
\* A log that holds an Alien is refused by every program: the store stands still.
CHECK_DEADLOCK FALSE
