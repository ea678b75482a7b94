\* Two requests for one listener slot or two lives of ffmpeg, and a shutdown:
\* the hub with everybody on it against the abstract broadcast.
SPECIFICATION MCSpec
CONSTANTS
    Clients = {l1, l2}
    Feeders = {f1, f2}
    Closers = {main}
    Main = main
    Pump = engine
    Workers = {engine}
    None = none
    Cap = 2
    MaxListeners = 1
    BurstLen = 2
    MaxWrites = 4
    MaxSubs = 2
SYMMETRY ListenerSymmetry
CHECK_DEADLOCK FALSE
INVARIANTS StationTypeOK NoPanic ClientsExact NobodyStranded GapFree StartsAtEdge LiveEdge
    NeverFedTwice OneFeeder ClosedInOrder
PROPERTY ImplementsBroadcast
