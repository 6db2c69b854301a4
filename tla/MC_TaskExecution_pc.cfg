SPECIFICATION Spec
CONSTANTS
    Runtimes = {r1, r2}
    Tasks = {t1}
    Deps = {d1}
    PCJobs = {p1}
    ProviderEffects = {}
    SourceMutations = {}
    Commands = {}
    Delegs = {}
    Scopes = {}
    Assignees = {}
    Corrections = {}
    Nil = nil
    MaxEvents = 4
    MaxEffects = 1
PROPERTY NoWorkAfterCloseout
