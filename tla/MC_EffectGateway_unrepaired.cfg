SPECIFICATION Spec
CONSTANTS
    Runtimes = {r1, r2}
    Effects = {e1, e2}
    CoordEffects = {}
    Nil = nil
    MaxEpoch = 1
    MaxMemory = 1
    MaxTrust = 0
    MaxCrashes = 1
INVARIANTS AuditRepairable
CHECK_DEADLOCK FALSE
