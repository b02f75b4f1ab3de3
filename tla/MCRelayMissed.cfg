CONSTANTS
    Sockets = {s1, s2, s3}
    Sources = {e1}
    Local = {s1}
    Cache = Cache
    Topic = {t1, t2}
    MESSAGES = 2
    CRASHES = 2
SPECIFICATION Spec
INVARIANTS
    NobodyIsMissed
CHECK_DEADLOCK FALSE
