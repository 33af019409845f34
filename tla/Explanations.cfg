\* Two requests about one session, two editions of the index and one that does not load.
SPECIFICATION Spec
CONSTANTS
    r1 = r1
    r2 = r2
    s1 = s1
    d1 = d1
    d2 = d2
    m1 = m1
    m2 = m2
    Chunks = {1, 2, 3}
    Documents = {d1, d2}
    SeedPolicies = {1, 2}
    Policies = {1, 2, 3, 4}
    CatalogId <- MCCatalogId
    Visible = {1, 2, 4}
    Places = {"a", "b"}
    Models = {m1, m2}
    Seeds <- MCSeeds
    NoChunk = NoChunk
    NoRun = NoRun
    TopK = 2
    Requests = {r1, r2}
    Sessions = {s1}
    Statuses = {"LIKELY_ELIGIBLE", "LIKELY_INELIGIBLE"}
    Score <- MCScore
    NoEvaluation = NoEvaluation
    NoPolicy = NoPolicy
    NoCategory = NoCategory
    NoTimer = NoTimer
    NoAnswer = NoAnswer
    Nobody = Nobody
    PolicyCategory <- MCPolicyCategory
    Documented = {1}
    Drafted = {4}
    Questions <- MCQuestions
    Outcomes <- MCOutcomes
    EmbeddingModel = m1
    RagTimeout = 1
    LlmTimeout = 1
    HttpTimeout = 2
    MaxAttempts = 2
SYMMETRY RequestSymmetry
INVARIANTS
    TypeOK
    AnswersAgreeWithRules
    CitationsAreOfOneEdition
    SessionsAreFreeInTime
PROPERTY
    PublicationsAreWhole
CHECK_DEADLOCK FALSE
