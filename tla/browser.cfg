SPECIFICATION MCSpec
CONSTANTS
    Requests <- MCRequests
    Key <- MCKey
    MaxUpdates = 2
    MaxRequests = 2
INVARIANTS
    OneOrderPerKey
    OneAnswerPerKey
PROPERTIES
    LateRetryIsReplayed
    PostsEnd
    ListsCatchUp
CHECK_DEADLOCK FALSE
