\* Three overlapping uploads, two backends, one crash of the frontend.
SPECIFICATION Spec
CONSTANTS
    u1 = u1
    u2 = u2
    u3 = u3
    b1 = b1
    b2 = b2
    SelfSigned = SelfSigned
    None = None
    Uploads = {u1, u2, u3}
    Home <- MCHome
    Bad = {u2}
    MaxCrashes = 1
INVARIANTS
    TypeOK
    DiskIsServed
    RestartServes
    AloneAnswerTrue
PROPERTIES
    EveryUploadAnswered
CHECK_DEADLOCK FALSE
