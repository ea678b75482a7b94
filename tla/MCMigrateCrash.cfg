\* A crash while a legacy database is brought to the version log.
SPECIFICATION Spec
CONSTANTS
    Origins = {"legacy"}
    MaxCrashes = 1
INVARIANT NoFailedStart
