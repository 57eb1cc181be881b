\* A game with a NUL character is among the inputs; nobody dies.
CONSTANTS
    Parts = {"import"}
    Importers = {"p1"}
    PgnFiles <- FilesToImport
    Bad <- bad
    Nuls <- WithNul
    MaxImports = 2
    MaxDeaths = 0
    NoFile = NoFile
    Files <- SmallFiles
    ChunkSizes = {1, 2, 3, 8}
    Procs = {"p", "q"}
    Inputs <- GameFiles
    Limits = {3, Nothing}
    Every = 2
    MaxRuns = 3
    MaxCrashes = 1
    Nothing = Nothing
    PinLists <- SmallPinLists
    MaxUpdates = 3
    MaxFailures = 2
    NoUpdate = NoUpdate
    None = None
    Collections = {"c"}
    Installs = {"i"}
    Providers = {"p"}
    Terms = {"t1", "t2"}
    MaxRev = 3
    MaxApprovals = 4
    Stores <- ThreeStores
    Callers = {"k1", "k2"}
    LastRev = 2
    FirstRevs = {0, 2}
    MaxCalls = 4
    Absent = Absent
    Proposals = {"p", "q"}
    Approvers <- Registry
    Grants <- SmallGrants
    Contents <- SmallContents
    Destructive = {"delete_game"}
    Covered <- GamesCovered
    MaxTime = 1
    MaxApproved = 3
    MaxCommits = 3
    MaxMutated = 2
    NoApproval = NoApproval
SPECIFICATION IngestSpec
INVARIANTS
    StoresReadable
CHECK_DEADLOCK FALSE
