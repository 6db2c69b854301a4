SPECIFICATION Spec
CONSTANTS
    Runtimes = {r1, r2}
    Tasks = {t1, t2}
    Deps = {d1}
    PCJobs = {p1}
    ProviderEffects = {v1}
    SourceMutations = {m1}
    Commands = {k1}
    Delegs = {g1}
    Scopes = {s1}
    Assignees = {a1, a2}
    Corrections = {c1}
    Nil = nil
    MaxEvents = 4
    MaxEffects = 1
SYMMETRY Symmetry
INVARIANTS TypeOK HistoryReadable OneOwner ClosedComplete
PROPERTIES ExecutesForOpenTask MutatesAsOwner
