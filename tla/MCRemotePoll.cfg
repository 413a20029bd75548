\* Two replicas, two calls listed one per page, the second malformed; the
\* remote adds calls but never rewrites one; polls fit their lease.
SPECIFICATION FairSpec
CONSTANTS
    r1 = r1
    r2 = r2
    s1 = s1
    Replicas = {r1, r2}
    Sources <- MCSources
    Calls = {1, 2}
    Origin <- MCOrigin
    BadCalls = {2}
    Mutable = {}
    PageSize = 1
    MaxPages = 2
    Lease = 1
    MaxPoll = 1
    MaxTime = 3
INVARIANTS
    TypeOK
    AtMostOnePoller
    NoGap
PROPERTIES
    EveryPollEnds
    ImplementsJobLock
