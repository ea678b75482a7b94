\* A file in the music directory, one in its subdirectory, two callbacks.
SPECIFICATION Spec
CONSTANTS
    Paths = {top, sub}
    Inside = {sub}
    Scan = scan
    Callbacks = {c1, c2}
    MaxChanges = 4
    MaxIds = 3
    MaxFaults = 1
    MaxCrashes = 1
SYMMETRY Alike
INVARIANTS TypeOK QuietIsFaithful
PROPERTY RemovedWasGone
CHECK_DEADLOCK FALSE
