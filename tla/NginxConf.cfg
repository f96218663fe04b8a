SPECIFICATION ConfFairSpec
CONSTANTS
    Svcs = {a, b}
    a = a
    b = b
    EpValues <- MCValues
    Deletes = TRUE
    MaxChanges = 2
INVARIANTS ConfTypeOK
PROPERTIES NoUpstreamTwice NginxFollowsEndpoints NginxStaysUp
\* When the changes are used up and nginx follows, nothing is left to do.
CHECK_DEADLOCK FALSE
