\* Two requests and the janitor waiting for the lock of one session.
SPECIFICATION FairSpec
CONSTANTS
    s1 = s1
    s2 = s2
    r1 = r1
    r2 = r2
    p1 = p1
    p2 = p2
    Categories <- MCCategories
    FactKeys <- MCFactKeys
    Values <- MCValues
    Bank <- MCBank
    NoFact = NoFact
    NoQuestion = NoQuestion
    NoCondition = NoCondition
    Sessions = {s1}
    Policies = {}
    PolicyCategory <- MCPolicyCategory
    NoCategory = NoCategory
    NoRow = NoRow
    NoEvaluation = NoEvaluation
    AbsoluteTTL = 2
    IdleTTL = 1
    Requests = {r1, r2}
    Janitor = Janitor
    NoTask = NoTask
    Workload <- WaitingCalls
    AnswerBatches <- CashBatches
    Revisions = {}
    MaxClock = 2
    MaxEdition = 0
PROPERTIES
    RequestsAreAnswered
    ExpiredSessionsAreSwept
CHECK_DEADLOCK FALSE
