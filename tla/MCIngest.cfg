\* Every part but the import with a NUL character.  The database: two importers,
\* three runs, one death, a commit after every second game.  The updates: three
\* runs, two failures.  The gates: one of everything,
\* two versions of the terms, revisions up to three.  The deletion: two callers,
\* four calls, first revisions at both ends.  The approvals: two proposals that
\* change twice, three approvals, three commits.
CONSTANTS
    Parts = {"import", "import_live", "streams", "database", "database_live",
             "updates", "gates", "deletion", "approval"}
    Importers = {"p1"}
    PgnFiles <- FilesToImport
    Bad <- bad
    Nuls = {}
    MaxImports = 3
    MaxDeaths = 2
    NoFile = NoFile
    Files <- SmallFiles
    ChunkSizes = {1, 2, 3, 8}
    Procs = {"p", "q"}
    Inputs <- GameFiles
    Limits = {3, Nothing}
    Every = 2
    MaxRuns = 3
    MaxCrashes = 1
    Nothing = Nothing
    PinLists <- SmallPinLists
    MaxUpdates = 3
    MaxFailures = 2
    NoUpdate = NoUpdate
    None = None
    Collections = {"c"}
    Installs = {"i"}
    Providers = {"p"}
    Terms = {"t1", "t2"}
    MaxRev = 3
    MaxApprovals = 4
    Stores <- ThreeStores
    Callers = {"k1", "k2"}
    LastRev = 2
    FirstRevs = {0, 2}
    MaxCalls = 4
    Absent = Absent
    Proposals = {"p", "q"}
    Approvers <- Registry
    Grants <- SmallGrants
    Contents <- SmallContents
    Destructive = {"delete_game"}
    Covered <- GamesCovered
    MaxTime = 1
    MaxApproved = 3
    MaxCommits = 3
    MaxMutated = 2
    NoApproval = NoApproval
SPECIFICATION FairIngestSpec
INVARIANTS
    ImportSound
    StreamsCut
    RecordedTrue
    UserDecides
PROPERTIES
    NothingTakenBack
    Consents
    EveryRunEnds
CHECK_DEADLOCK FALSE
