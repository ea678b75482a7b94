\* Two encoders, two decoders, one request to skip at a time; one tick stands for the timeout.
SPECIFICATION FairSpec
CONSTANTS
    MaxGens = 2
    MaxDecoders = 2
    Skippers = {s1}
    Timeout = 0
CHECK_DEADLOCK FALSE
INVARIANTS TypeOK OneWriter
PROPERTIES SkipHitsAsked StallEnds ShutdownEnds
