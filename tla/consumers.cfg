SPECIFICATION MCSpec
CONSTANTS
    MaxOffset = 3
    Poison = {1}
    MaxRestarts = 2
    MaxAttempts = 2
    MaxStarts = 2
INVARIANTS
    NothingDropped
    LossIsLogged
PROPERTIES
    FirstHandledInOrder
    PartitionMoves
    EventsMove
CHECK_DEADLOCK FALSE
