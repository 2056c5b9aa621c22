\* Two sentences of consent-rate.ts; TLC -continue reports both, or drop one of the lines.
SPECIFICATION Spec
CONSTANTS
    Keys = {k1, k2, k3}
    MaxPerWindow = 2
    MaxKeys = 2
    Window = 2
    MaxTime = 4
INVARIANT RollingCap
PROPERTY EvictsSoonestToExpire
CHECK_DEADLOCK FALSE
