SPECIFICATION FairSpec
CONSTANTS
    Processes = {p1}
    CheckpointIds = {c1, c2}
    Nil = nil
    MaxMemory = 1
    MaxPermits = 1
    MaxCrashes = 2
INVARIANT PublishedOnce
PROPERTY CommitRecorded
