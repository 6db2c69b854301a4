SPECIFICATION OperatedSpec
CONSTANTS
    Runtimes = {r1}
    Effects = {e1, e2}
    CoordEffects = {e2}
    Nil = nil
    MaxEpoch = 1
    MaxMemory = 1
    MaxTrust = 0
    MaxCrashes = 2
INVARIANTS TypeOK AuditRepairable TerminalTruthful
PROPERTIES FreezeLifts AuditFenceSpec
CHECK_DEADLOCK FALSE
