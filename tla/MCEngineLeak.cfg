\* One encoder that dies while a track plays.
SPECIFICATION Spec
CONSTANTS
    MaxGens = 1
    MaxDecoders = 1
    Skippers = {s1}
    Timeout = 0
CHECK_DEADLOCK FALSE
INVARIANT PumpReaps
