\* One replica; a call is rewritten while a window of two pages is read.
SPECIFICATION Spec
CONSTANTS
    r1 = r1
    r2 = r2
    s1 = s1
    Replicas = {r1}
    Sources <- MCSources
    Calls = {1, 2}
    Origin <- MCOrigin
    BadCalls = {}
    Mutable = {1}
    PageSize = 1
    MaxPages = 2
    Lease = 1
    MaxPoll = 1
    MaxTime = 4
INVARIANTS
    NoGap
