\* Three clients, room for two, bursts of two tokens, two ticks to a token,
\* a wall clock that may be set back.
CONSTANTS
    Keys = {k1, k2, k3}
    k1 = k1
    k2 = k2
    k3 = k3
    NoBucket = NoBucket
    MaxBuckets = 2
    Burst = 2
    Unit = 2
    Rate = 1
    Second = 2
    MaxClock = 3
SPECIFICATION LimiterSpec
SYMMETRY KeySymmetry
INVARIANTS NeverAboveRate RetryAfterIsEnough
CHECK_DEADLOCK FALSE
