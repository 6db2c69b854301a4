SPECIFICATION Spec
CONSTANTS
    Runtimes = {r1, r2}
    Effects = {e1, e2}
    CoordEffects = {e2}
    Nil = nil
    MaxEpoch = 1
    MaxMemory = 0
    MaxTrust = 2
    MaxCrashes = 1
SYMMETRY Symmetry
INVARIANTS AtMostOnce OneUnresolved ExecutesUnderCurrentCut ExternalTruthful
PROPERTY UnresolvedFreezes
CHECK_DEADLOCK FALSE
