SPECIFICATION Spec
CONSTANTS
    Monitors = {m1}
    Nobody = Nobody
    NumCpus = 1
    Threshold = 60
    Modulus = 64
    MaxClock = 4
    MaxLives = 2
INVARIANT OverloadNeedsUse
CHECK_DEADLOCK FALSE
