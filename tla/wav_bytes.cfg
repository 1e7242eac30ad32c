\* Frames of two bytes, blocks of all sizes around them, a short header.
CONSTANTS
    FrameBytes = 2
    HeaderLen = 3
    Chunks = {1, 3, 4}
    TotalFrames = 7
    Blocks = {1, 2, 3, 5, 7, 8}
    StaleOffsets = {0, 4}
    Durations = {999, 1000, 180999, 1521999, 1522000}
    MaxGot = 22
SPECIFICATION Spec
INVARIANTS
    TypeOK
    WithinSegments
    ByteStream
    HeaderLength
PROPERTIES
    Drains
