SPECIFICATION Spec
CONSTANTS
    Runtimes = {r1, r2}
    Effects = {e1, e2}
    CoordEffects = {e1,e2}
    Nil = nil
    MaxEpoch = 1
    MaxMemory = 1
    MaxTrust = 0
    MaxCrashes = 0
INVARIANTS TerminalTruthful
CHECK_DEADLOCK FALSE
