\* Two requests at a time on one session; time stands still.
SPECIFICATION Spec
CONSTANTS
    s1 = s1
    s2 = s2
    r1 = r1
    r2 = r2
    p1 = p1
    p2 = p2
    Categories <- MCCategories
    FactKeys <- MCFactKeys
    Values <- MCValues
    Bank <- MCBank
    NoFact = NoFact
    NoQuestion = NoQuestion
    NoCondition = NoCondition
    Sessions = {s1}
    Policies = {p1}
    PolicyCategory <- MCPolicyCategory
    NoCategory = NoCategory
    NoRow = NoRow
    NoEvaluation = NoEvaluation
    AbsoluteTTL = 2
    IdleTTL = 1
    Requests = {r1, r2}
    Janitor = Janitor
    NoTask = NoTask
    Workload <- RaceCalls
    AnswerBatches <- CashBatches
    Revisions = {}
    MaxClock = 0
    MaxEdition = 0
SYMMETRY RequestSymmetry
INVARIANTS
    TypeOK
    SessionsAreLocked
    SnapshotsAreCurrent
    FollowUpsAreOpen
PROPERTIES
    LeafAnswersAreKept
    AtomicSessions
CHECK_DEADLOCK FALSE
