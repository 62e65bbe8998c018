SPECIFICATION MCSpec
CONSTANTS
    w1 = w1
    Relays = {w1}
    MaxRow = 2
    BatchSize = 2
    MaxRetries = 2
    MaxSends = 2
INVARIANTS
    NoSilentLoss
PROPERTIES
    EveryRowSettles
    ImplementsChannel
CHECK_DEADLOCK FALSE
