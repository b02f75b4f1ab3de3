CONSTANTS
    Sockets = {s1, s2, s3}
    Sources = {e1}
    Local = {s1}
    Cache = Cache
    Topic = {t1, t2}
    MESSAGES = 2
    CRASHES = 2
SPECIFICATION FairSpec
INVARIANTS
    SubscribedWhenKnown
    MissedOnlyAfterEarlyClose
    NothingSavedIsLost
PROPERTIES
    EventuallySubscribed
CHECK_DEADLOCK FALSE
