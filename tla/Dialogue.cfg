SPECIFICATION Spec
CONSTANTS
    housing = housing
    loan = loan
    Topics <- MCTopics
    FirstTopic = housing
    Keys <- MCKeys
    MaxTasks = 4
    NoTopic = NoTopic
    NoQuestion = NoQuestion
    NoGraph = NoGraph
    NoTask = NoTask
    NoLanding = NoLanding
INVARIANTS
    StaleGraphsComeFromAnswers
    LoneAnswersLandInTheirTopic
PROPERTIES
    LoadingEnds
CHECK_DEADLOCK FALSE
