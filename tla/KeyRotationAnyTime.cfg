SPECIFICATION Spec
CONSTANTS
    Rows = {"source"}
    Replicas = {"p"}
    MaxSaves = 1
    MaxLate = 1
INVARIANTS
    SafeAnyTime
CHECK_DEADLOCK FALSE
