\* AgentRuns
CONSTANTS
    Runs = {r1}
    Documents = {d1}
    Percents = {0, 80}
    Threshold = 60
    MaxRetries = 2
    PerSource = 1
    EvidenceCap = 2
    LiveMinCount = 1
    LiveConnectors = 2
    Invented = Invented
    NoRow = NoRow
\* KnowledgeGaps
    Tasks = {t1, t2}
    Points = {0, 3}
    JoinRadius = 3
    MergeRadius = 1
    MinClusterSize = 2
    MaxTries = 2
    MaxExecutions = 3
    MaxScans = 2
\* OAuthBridge
    Clients = {c1, c2}
    Flows = {f1, f2}
    Codes = {k1, k2}
    Posts = {p1, p2}
    Exchanges = {e1, e2}
    None = None
\* ConnectorWalks
    PageSize = 2
    MaxTime = 5
\* RateLimiter
    Jobs = {"slack job", "other slack job", "free job"}
    Connectors = {"slack", "free"}
    Org = "org"
    ConnectorOf <- MCConnectorOf
    Rate <- MCRate
    Unit = 4
    Second = 2
    MaxNow = 3
    MaxGrants = 3
\* Retrieval
    MaxDocuments = 2
    Incoming <- MCIncoming
    Absent = Absent
    Orgs = {"o1", "o2"}
    Permissions = {"p"}
    Repos = {"r"}
    MaxChars = 4
    K = 60
    TopK = 2
\* Organizations
    Slugs = {"s1", "s2"}
    Emails = {"ann", "bob"}
    Passwords = {"x"}
    Names = {"General", "P"}
    Requests = {1, 2}
    Memberships <- MCMemberships
    NoProject = NoProject
    MaxConnectors = 1
    MaxProjects = 2
    NoUser = NoUser
    NoPassword = NoPassword
SPECIFICATION Spec
\* Runs end, bounds are reached.
CHECK_DEADLOCK FALSE
INVARIANTS
    RepliesAreRecorded
    InvestigationIsAttached
    ResultsRestOnEvidence
    DegradesGracefully
    OneCodePerFlow
    CodeIsRedeemedOnce
    NothingIsLost
    WithinRate
    CitationsQuoteTheDocument
    SignupsTakeEffect
PROPERTIES
    EveryRunEnds
    ReportsOnlyGrow
    RepeatedRunsAddNothing
    SyncsMissOnlyWhatMoved
    EveryWalkEnds
