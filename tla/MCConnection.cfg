SPECIFICATION FairSpec
CONSTANTS
    MaxConnections = 2
    None = none
CHECK_DEADLOCK FALSE
INVARIANTS TypeOK CallbackRunsOnce ConnectedMeansReachable AwayMeansTimed ConnectionsGoWithClient
PROPERTIES TimedOutOnlyWhenAway EventsAreResolved
