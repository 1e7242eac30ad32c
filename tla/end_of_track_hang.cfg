\* A track ends while a read waits for its audio.
CONSTANTS
    w1 = w1
    w2 = w2
    h1 = h1
    h2 = h2
    t1 = t1
    t2 = t2
    NoTrack = NoTrack
    Workers = {w1}
    Handles = {h1, h2}
    Tracks = {t1, t2}
    TrackOf <- MCTrackOf
    TrackLen = 3
    BufferLimit = 1
    MaxChunk = 2
    HeaderLen = 1
    SecondLen = 2
    Offsets = {0, 1, 3}
    Sizes = {1, 2}
    Events = {"end_of_track"}
    HeaderFirst = TRUE
    MaxStutter = 1
SPECIFICATION FairSpec
PROPERTIES
    GetAudioAlwaysReturns
