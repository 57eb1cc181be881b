\* The parts beside the client's sessions and quota: every other operation of the
\* client, by one account, and its services.
CONSTANTS
    Parts = {"live", "disk", "memory", "admission", "errors", "versioning"}
    Accounts = {a1}
    Ops <- LiveOps
    MaxStarted = 3
    None = None
    TokenTTL = 3
    HoldTTL = 1
    Units = 2
    Need = 1
    MaxAttempts = 2
    Skew = 1
    CacheTTL = 2
    LastTime = 4
    NoOne = NoOne
    NoCode = NoCode
    NoAttempt = NoAttempt
    a1 = a1
    a2 = a2
    p1 = p1
    p2 = p2
    c1 = c1
    c2 = c2
    anna = anna
    ben = ben
    nat = nat
    Publishers = {p1, p2}
    Proposals <- Batches
    Errors <- CatalogErrors
    InMemory = FALSE
    MaxCalls = 4
    Callers = {c1, c2}
    Attempts <- SmallAttempts
    Capacity <- Small
    Window <- Small
    MaxTime = 3
    Enum = {"auth_invalid"}
    Texts = {"words", "placement", "token run", "secret", "surrogate"}
    Keys = {"plain", "token", "fen", "run"}
    ChessKeys = {"fen"}
    SecretKeys = {"token"}
    RunKeys = {"run"}
    Declared <- LoginFields
    Statuses = {200, 302, 404}
    Seeds <- FirstPayloads
    PayloadDepth = 2
    MaxItems = 3
    MaxChanges = 2
    OpNames = {"a.get", "a.put"}
    Paths = {"/x", "/y"}
    FieldNames = {"f", "g", "fen"}
    ChessNames = {"fen"}
    Codes = {"internal"}
    Drafts <- FirstDrafts
    Shapes <- SmallShapes
    Specs <- SmallSpecs
    Majors = {1, 2}
    MaxMinor = 1
    MaxEdits = 3
    MaxReleases = 3
    FieldDepth = 2
SPECIFICATION FairControlSpec
INVARIANTS
    OutboxWhole
    AdmissionExact
    PayloadsSound
    VersionsSound
PROPERTIES
    ServicesKept
    StreamPromise
\* The bounded clocks and numbers of calls run out.
CHECK_DEADLOCK FALSE
