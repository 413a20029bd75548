SPECIFICATION TickSpec
CONSTANTS
    r1 = r1
    r2 = r2
    prune = prune
    alert = alert
    Nobody = Nobody
    Replicas <- MCReplicas
    Slots <- MCSlots
    Workers <- MCWorkers
    Jobs <- MCJobs
    BootJobs <- MCBootJobs
    Lease <- MCLease
    MaxRun <- MCMaxRun
    Interval <- MCInterval
    MaxTime = 7
INVARIANTS
    AtMostOnce
    NotSelfSuppressed
