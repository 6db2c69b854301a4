SPECIFICATION Spec
CONSTANTS
    Processes = {p1}
    CheckpointIds = {c1, c2}
    Nil = nil
    MaxMemory = 0
    MaxPermits = 0
    MaxCrashes = 1
INVARIANT AcceptedAdvances
