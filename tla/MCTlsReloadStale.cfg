\* Two uploads to one backend, the second staged while the first is applied.
SPECIFICATION Spec
CONSTANTS
    u1 = u1
    u2 = u2
    u3 = u3
    b1 = b1
    b2 = b2
    SelfSigned = SelfSigned
    None = None
    Uploads = {u1, u2}
    Home <- MCHome
    Bad = {u2}
    MaxCrashes = 0
INVARIANTS
    OkMeansApplied
CHECK_DEADLOCK FALSE
