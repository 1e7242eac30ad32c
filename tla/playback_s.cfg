\* One FUSE worker (-s), every event libspotify may raise, under fairness.
CONSTANTS
    w1 = w1
    w2 = w2
    h1 = h1
    h2 = h2
    t1 = t1
    t2 = t2
    NoTrack = NoTrack
    Workers = {w1}
    Handles = {h1, h2}
    Tracks = {t1, t2}
    TrackOf <- MCTrackOf
    TrackLen = 4
    BufferLimit = 1
    MaxChunk = 2
    HeaderLen = 1
    SecondLen = 2
    Offsets = {0, 1, 2, 3}
    Sizes = {1, 3}
    Events = {"end_of_track", "play_token_lost", "load_error"}
    HeaderFirst = TRUE
    MaxStutter = 1
SPECIFICATION FairSpec
INVARIANTS
    TypeOK
    BufferBounded
    NoSleepOnData
    OneOpenHandle
    GapFree
PROPERTIES
    OwnTrack
    EofMeansStopped
    GetAudioReturns
    ReadReturns
