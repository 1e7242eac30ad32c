\* Two FUSE workers, every event libspotify may raise.
CONSTANTS
    w1 = w1
    w2 = w2
    h1 = h1
    h2 = h2
    t1 = t1
    t2 = t2
    NoTrack = NoTrack
    Workers = {w1, w2}
    Handles = {h1, h2}
    Tracks = {t1, t2}
    TrackOf <- MCTrackOf
    TrackLen = 2
    BufferLimit = 1
    MaxChunk = 2
    HeaderLen = 1
    SecondLen = 2
    Offsets = {0}
    Sizes = {2}
    Events = {"end_of_track", "play_token_lost"}
    HeaderFirst = TRUE
    MaxStutter = 0
SPECIFICATION Spec
SYMMETRY WorkerSymmetry
INVARIANTS
    BufferAccounting
    PlayingIsDelivered
PROPERTIES
    StreamSpec
