\* One FUSE thread, which ran spfs_init (-s).
CONSTANTS
    w1 = w1
    w2 = w2
    o1 = o1
    o2 = o2
    s1 = s1
    s2 = s2
    Workers = {w1}
    FuseThread = w1
    Objects = {o1, o2}
    NoObject = NoObject
    Searches = {s1}
SPECIFICATION FairSpec
INVARIANTS
    TypeOK
    ApiExclusive
    NoMissedLoad
PROPERTIES
    CallsReturn
    EventsProcessed
    ShutdownCompletes
