SPECIFICATION Spec
CONSTANTS
    Thread = {t1, t2}
    Token = {k1, k2}
    None = none
    ClientLimit = 2
    SessionLimit = 1
    MaxClients = 2
    MaxSessions = 2
    MaxIncidents = 1
CHECK_DEADLOCK FALSE
SYMMETRY Symmetry
INVARIANTS TypeOK ClientsBounded SessionsBounded ReceiversKnowTheirSession NobodyInEndedSession NoSessionWithoutSender
PROPERTY RemovedForOwnReason
