\* Is the HLS feeder always subscribed?
SPECIFICATION HLSSpec
CONSTANTS
    Clients = {}
    Feeders = {f1, f2}
    Closers = {main}
    Pump = pump
    None = none
    Cap = 1
    MaxListeners = 0
    BurstLen = 2
    MaxWrites = 4
CHECK_DEADLOCK FALSE
INVARIANT FeederKept
