\* Rings of 0, 2, 4 and 6 bytes, writes of 1 to 7 bytes, frames of 3 bytes, a
\* metadata block every 4 bytes; a block has at most 3 units of 3 bytes, 3 of
\* them framing.
SPECIFICATION Spec
CONSTANTS
    BytesPerSecond = 2
    MaxBurstSeconds = 3
    Seconds <- MCSeconds
    FrameLen = 3
    MaxChunk = 7
    MaxBytes = 13
    MetaInt = 4
    Titles <- MCTitles
    Station <- MCStation
    Prefix = 2
    Suffix = 1
    Unit = 3
    MaxUnits = 3
    Wide = 2
CHECK_DEADLOCK FALSE
INVARIANTS BurstIsLatest HearsStream ShowsTitleAtSlot
