SPECIFICATION SuiteSpec
CONSTANTS
    Effects = {e1, e2}
    Bindings = {b1, b2}
    NoBinding = none
    Executors = {p1, p2}
    MaxAttempts = 2
    CommandIds = {g1, g2}
    Callers = {p1, p2}
    MaxPermit = 2
    Streams = {"s1", "s2"}
    NoStream = "-"
    Messages <- MCMessages
    References <- MCReferences
    p1 = p1
    p2 = p2
    p3 = p3
    BusProcs = {p1, p2, p3}
    GuardedProcs = {p3}
    GuardWindow = 1
    PageLimit = 1
    BusMaxEvents = 3
    BusMaxTime = 1
    Components <- MCComponents
    Scopes = {"near", "far"}
    ForbiddenDomains = {"barred"}
    Generations = {g1, g2}
    HostThreads = {p1, p2}
    MaxAdmissions = 2
    MaxMoves = 1
    MaxRetries = 1
    Verifiers = {p1, p2}
    Packets <- MCPackets
    VerMaxReceipts = 4
    VerMaxMoves = 2
    Domains <- MCDomains
    HardDomains = {"g", "c", "s", "h"}
    Allowed = {"open"}
    MaxDepth = 3
    MaxDomains = 5
    AuthorityOf <- MCAuthority
    Dispatches <- MCDispatches
    Decisive <- MCDecisive
    AcceptedBy <- MCAccepted
    SemanticDomain = "s"
    Connected = {"r1", "r2"}
    Asked = {"d", "e", "f", "k"}
    EvidenceItems <- MCItems
    Modes = {"EXACT_REVISION", "EXACT_RECEIPT", "SEMANTIC_COMPANION", "OTHER"}
    MaxRevision = 2
SYMMETRY Symmetry
CONSTRAINT Bounds
INVARIANTS
    PartsTyped SingleUse RunsOnce AttemptTruthful CommandsTruthful BusLawful
    InvocationSound VerificationHonest RetrievalGoverned
PROPERTY NoRetryAuthority
CHECK_DEADLOCK FALSE
