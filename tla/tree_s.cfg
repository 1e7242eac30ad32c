\* One thread: no search, FUSE single-threaded; one track may have no link string.
CONSTANTS
    w1 = w1
    w2 = w2
    Workers = {w1}
    FuseThread = w1
    Resources <- MCResources
    Class <- MCClass
    Uri <- MCUri
    Title <- MCTitle
    Parts <- MCParts
    Portraits <- MCPortraits
    Playlists <- MCPlaylists
    Contents <- MCContents
    Queries <- NoQueries
    Results <- MCResults
    Faulty = {"t1"}
    NumberedName <- MCNumberedName
    ResultName <- MCResultName
    Sanitize <- MCSanitize
SPECIFICATION Spec
INVARIANTS
    TypeOK
    ListingComplete
PROPERTIES
    EntriesAreForEver
