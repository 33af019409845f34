\* The rules and the graph over answers, days and withdrawn policies.
SPECIFICATION Spec
CONSTANTS
    NoAnswer = NoAnswer
    NoGroup = NoGroup
    NoDate = NoDate
    National <- MCNational
    NoEvaluation = NoEvaluation
    NoCategory = NoCategory
    NoPolicy = NoPolicy
    NoLimit = NoLimit
    Category = "housing"
    Policies <- MCPolicies
    Fields <- MCFields
    Options <- MCOptions
    Withdrawable = {1}
    PolicyCategory <- MCPolicyCategory
    Relations <- MCRelations
    Period <- MCPeriod
    PolicyRules <- MCPolicyRules
    ConditionSets <- MCConditionSets
    Requests <- MCRequests
    LastDay = 2
INVARIANTS
    TypeOK
    RulesAgreeWithReference
    OnlyWhatMattersIsAsked
    ScoresRankByStatus
    PeriodsIncludeBothEnds
    MissingConditionsAreUnanswered
    TheCentreIsShown
    ShownPoliciesAreNear
    WholeGraphsAreConnected
PROPERTY
    DecidedStatusesAreFinal
CHECK_DEADLOCK FALSE
