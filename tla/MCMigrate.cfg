\* Every database and up to two crashes.
SPECIFICATION Spec
CONSTANTS
    Origins = {"fresh", "legacy", "logged"}
    MaxCrashes = 2
INVARIANTS OpenedIsComplete LoggedHasRun
PROPERTY EventuallyOpen
