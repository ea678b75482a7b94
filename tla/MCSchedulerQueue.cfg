\* One player and one admin: every mode, a queue of two, a failing write,
\* tracks that come and go, restarts.
SPECIFICATION Spec
CONSTANTS
    PathOrder <- TwoTracks
    Players = {pump}
    Admins = {a1}
    AskedModes = {"sequential", "loop"}
    Empty = empty
    MaxQueue = 2
    MaxFaults = 1
CHECK_DEADLOCK FALSE
INVARIANTS StateDurable PeekIsNext
PROPERTY ImplementsPlayQueue
