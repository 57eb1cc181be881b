\* Crashes that spare the durable part, and a resume that comes some day.
CONSTANTS
    Parts = {"log"}
    a1 = a1
    a2 = a2
    b1 = b1
    Records = {a1, a2, b1}
    Identity <- SmallIdentity
    MaxLog = 4
    Faults = {"crash"}
    OtherText = OtherText
    Garbled = Garbled
    Odd = Odd
    Alien = Alien
    IdemKeys = {"i1", "i2"}
    Divergent = Divergent
    MaxTraced = 3
    MaxIssued = 2
    Liars = {"serializer", "exporter"}
    Mark = Mark
    Nothing = Nothing
SPECIFICATION FairStoreSpec
INVARIANTS
    DurableReads
PROPERTIES
    RepairsKeep
