\* Two replicas; the remote may rewrite both calls at any time, also while a
\* poll is under way, and every window fits one page.
SPECIFICATION Spec
CONSTANTS
    r1 = r1
    r2 = r2
    s1 = s1
    Replicas = {r1, r2}
    Sources <- MCSources
    Calls = {1, 2}
    Origin <- MCOrigin
    BadCalls = {}
    Mutable = {1, 2}
    PageSize = 2
    MaxPages = 1
    Lease = 1
    MaxPoll = 1
    MaxTime = 4
SYMMETRY ReplicaSymmetry
INVARIANTS
    NoGap
PROPERTIES
    NoStaleOverwrite

