SPECIFICATION SuiteSpec
CONSTANTS
    LeaseIds = {p1, p2}
    Tasks = {q1, q2}
    Operations = {q1, q2}
    Keys <- MCKeys
    Ceiling = {k1}
    Nil = nil
    MaxLeases = 2
    MaxFence = 2
    MaxTime = 1
    PlanSteps <- MCPlan
    Holders = {h1, h2}
    PlanBudgets <- MCPlanBudgets
    CollisionKeys = {"k"}
    LhMaxTime = 1
    ScheduleIds = {1, 2}
    Intervals = {1, 2}
    WakeMaxTime = 3
    TickCaps = {1, 9}
    Workers = {p1, p2}
    MaxCheckpoints = 2
    Runners = {p1, p2}
    Reviewers = {q1, q2}
    Works = {w1, w2}
    LearnedRevs = {v1, v2}
    CueEvents = {u1}
    EvidenceIds = {"i1", "i2"}
    EntrySets <- MCEntrySets
    GateBudget <- MCGateBudget
    ClMaxTime = 1
    Cues = {q1, q2}
    Answers = {a1}
    NoAnswer = na
    SampleIds = {1, 2}
    FbProcs = {p1, p2}
    FbMaxEvents = 5
    FbMaxSigned = 1
    Runs <- MCRuns
    RunNodes <- MCNodes
    RunBudget <- MCRunBudget
    RunContext <- MCContext
    Given <- MCGiven
    MaxObjects = 5
    AfThreads = {p1, p2}
    OneThread = {p1}
    AfUses <- MCUses
    SelfLimit = 1
    None = none
SYMMETRY Symmetry
CONSTRAINT Bounds
INVARIANTS
    PartsTyped HoldsPinned HoldsExclusive PlanAccounted WakesAndWorkKept
    LoopGoverned FeedbackGoverned EpisodeSound AffectGoverned 
CHECK_DEADLOCK FALSE
