SPECIFICATION Spec
CONSTANTS
    Processes = {p1, p2}
    CheckpointIds = {c1, c2}
    Nil = nil
    MaxMemory = 1
    MaxPermits = 1
    MaxCrashes = 1
SYMMETRY Symmetry
INVARIANTS CommitTruthful ActsUnderAccepted
