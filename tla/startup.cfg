\* Up to three arguments, four configuration files.
CONSTANTS
    Items <- MCItems
    MaxArgs = 3
    Contents <- MCContents
    Mounts <- MCMounts
    Bitrates <- MCBitrates
SPECIFICATION Spec
INVARIANTS
    TypeOK
    ServedAsAsked
