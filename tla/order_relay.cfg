SPECIFICATION MCSpec
CONSTANTS
    w1 = w1
    w2 = w2
    Relays = {w1, w2}
    MaxRow = 2
    BatchSize = 2
    MaxRetries = 2
INVARIANTS
    NoSilentLoss
PROPERTIES
    EveryRowSettles
    ImplementsChannel
CHECK_DEADLOCK FALSE
