SPECIFICATION Spec
CONSTANTS
    Processes = {p1, p2}
    CheckpointIds = {c1, c2}
    Nil = nil
    MaxMemory = 0
    MaxPermits = 0
    MaxCrashes = 0
INVARIANT ReconciledTruthful
