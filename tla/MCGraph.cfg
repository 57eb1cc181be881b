\* All parts.  The bounds of edits and imports are those of the part "engines";
\* in "contracts" one edit and one import are enough.
CONSTANTS
    Parts = {"contracts", "engines", "versions", "collision", "changes",
             "tables", "contexts", "games"}
    Edited <- AllContracts
    Imported <- AllEngines
    MaxDrift = 1
    MaxEdits = 3
    MaxLoaded = 3
    NONE = NONE
    None = None
    e4 = e4
    e5 = e5
    old = old
    new = new
    s1 = s1
    s2 = s2
    s3 = s3
    Stores = {s1, s2, s3}
    Digests = {"d", "e"}
    Times = {1, 2}
    Labels = {"x"}
    Address <- Content
    MaxInserts = 3
    Users = {"u1", "u2"}
    Identities = {1, 2, 3}
    Clocks = {0, 1}
    Moves = {"m"}
    Digest <- Collides
    MaxAdded = 4
    Nodes = {"n1", "n2"}
    NodeDigests = {"d", "e"}
    Right = "d"
    MaxSteps = 4
SPECIFICATION GraphSpec
\* No store of versions is told from another.
SYMMETRY AnyStore
INVARIANTS
    VersionsAgree
    EditsWhole
    TablesAgree
    RulesAgree
    GatesHold
PROPERTIES
    NeverOverwritten
\* The bounded numbers of steps run out.
CHECK_DEADLOCK FALSE
