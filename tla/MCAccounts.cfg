SPECIFICATION AccountsSpec
SYMMETRY SlotSymmetry
CONSTANTS
    Slots = {s1, s2}
    MaxSecret = 3
    MaxAborts = 1
    Requests = {s1, s2}
    MaxCuts = 1
    Codes = {c1}
    Threshold = 2
    Duration = 1
    MaxTime = 2
    MaxChanges = 1
    MaxGuesses = 4
    MaxRows = 1
    Imports <- MCImports
    Users <- MCUsers
    ExportedBy <- MCExportedBy
    KeyNames <- MCKeyNames
    FirstAdmin = "u"
    MaxErrors = 1
    MaxCredentials = 2
INVARIANTS
    TypesOK
    GuessesBounded
    OldPasswordSessionsAreLate
    CodeUsedOnce
    RequiredIsProven
    CodesOfThisEnrolment
    ImportDelivers
    AccountRemains
    RevokedMeansOut
CHECK_DEADLOCK FALSE
