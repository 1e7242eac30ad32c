\* Two FUSE threads, one of which ran spfs_init: the default of FUSE.
CONSTANTS
    w1 = w1
    w2 = w2
    o1 = o1
    o2 = o2
    s1 = s1
    s2 = s2
    Workers = {w1, w2}
    FuseThread = w1
    Objects = {o1}
    NoObject = NoObject
    Searches = {s1}
SPECIFICATION Spec
INVARIANTS
    ApiExclusive
