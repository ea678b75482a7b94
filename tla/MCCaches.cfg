\* Two plays of a track; or two tracks of one song, the batch and a refresh;
\* a file that takes the place of another has a picture of its own.
SPECIFICATION MCSpec
CONSTANTS
    Tracks = 2
    Twins = {1, 2}
    Pictured = {1, 3}
    Downloads = {batch, r1}
    Batch = batch
    MaxVersions = 3
    MaxCrashes = 1
    Plays = {p1, p2}
    Credits = 2
SYMMETRY Alike
INVARIANTS TypeOK LyricsWhole CachedIsOfTheFile WrittenOffRightly ClaimIsHeld ArtIsOfTheSong
    NothingLeftBehind
CHECK_DEADLOCK FALSE
