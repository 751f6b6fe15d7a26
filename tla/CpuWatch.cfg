SPECIFICATION Spec
CONSTANTS
    Monitors = {m1, m2}
    Nobody = Nobody
    NumCpus = 1
    Threshold = 60
    Modulus = 64
    MaxClock = 4
    MaxLives = 2
SYMMETRY Symmetries
INVARIANT UsageIsTrue
CHECK_DEADLOCK FALSE
