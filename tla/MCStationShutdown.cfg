\* A signal at any moment, workers that may be stuck, a listener that stays.
SPECIFICATION StationFairSpec
CONSTANTS
    Clients = {l1}
    Feeders = {f1}
    Closers = {main}
    Main = main
    Pump = engine
    Workers = {engine, library}
    None = none
    Cap = 1
    MaxListeners = 1
    BurstLen = 2
    MaxWrites = 2
    MaxSubs = 2
CHECK_DEADLOCK FALSE
PROPERTIES SignalExits ReleasedOrOver
