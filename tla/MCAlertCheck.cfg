SPECIFICATION Spec
CONSTANTS
    r1 = r1
    r2 = r2
    c1 = c1
    c2 = c2
    Replicas = {r1, r2}
    Conditions = {c1, c2}
    Lease = 1
    Cooldown = 1
    MaxCheck = 1
    WebhookFails = TRUE
    MaxTime = 4
INVARIANTS
    TypeOK
    UnhealthyHasAlertTime
    AnnouncedInSync
PROPERTIES
    PostsOnce
    ImplementsJobLock
