\* A poll may outlive its lease, as 500 pages of 30 s outlive 10 minutes.
SPECIFICATION Spec
CONSTANTS
    r1 = r1
    r2 = r2
    s1 = s1
    Replicas = {r1, r2}
    Sources <- MCSources
    Calls = {1, 2}
    Origin <- MCOrigin
    BadCalls = {}
    Mutable = {}
    PageSize = 1
    MaxPages = 2
    Lease = 1
    MaxPoll = 3
    MaxTime = 4
INVARIANTS
    AtMostOnePoller
