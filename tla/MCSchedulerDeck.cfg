\* The shuffle deck shared by two overlapping players, tracks that come and
\* go, restarts.
SPECIFICATION FairSpec
CONSTANTS
    PathOrder <- TwoTracks
    Players = {pump, former}
    Admins = {}
    AskedModes = {}
    Empty = empty
    MaxQueue = 0
    MaxFaults = 0
CHECK_DEADLOCK FALSE
INVARIANT NilOnlyIfGone
PROPERTIES OncePerCycle PickReturns
