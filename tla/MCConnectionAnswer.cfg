SPECIFICATION FairSpec
CONSTANTS
    MaxConnections = 2
    None = none
CHECK_DEADLOCK FALSE
PROPERTIES AnswersCount
